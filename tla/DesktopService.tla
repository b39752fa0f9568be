---------------------------- MODULE DesktopService ----------------------------
(***************************************************************************)
(* internal/desktop behind xworkmate.desktop.offer, .ice and .close.  A    *)
(* session is a WebRTC peer with an RTP receiver on the one UDP port, a    *)
(* capture process that sends to that port, and an xdotool process for the *)
(* input.  The service's mutex makes StartSession and StopSession atomic;  *)
(* the handler of an offer takes it three times, and uses what it got in   *)
(* between.  An offer names the session object and the capture process     *)
(* that it creates.                                                        *)
(***************************************************************************)
EXTENDS Naturals, FiniteSets

CONSTANTS
    Id,    \* session ids of clients
    Offer, \* requests xworkmate.desktop.offer
    None

ASSUME DesktopAssumption == None \notin Id \cup Offer

VARIABLES
    sessions, \* s.sessions
    offer,    \* the handlers
    running,  \* pm.isRunning, per session object
    rtc,      \* the peer and its receiver, per session object
    injector, \* the xdotool process, per session object
    capture,  \* the capture processes
    crashed   \* a goroutine of the bridge panicked

dvars == <<sessions, offer, running, rtc, injector, capture, crashed>>

NewOffer == [at |-> "idle", id |-> None, target |-> None]
NoInjector == [started |-> FALSE, process |-> "none", input |-> "idle"]

DesktopInit ==
    /\ sessions = [i \in Id |-> None]
    /\ offer = [o \in Offer |-> NewOffer]
    /\ running = [o \in Offer |-> FALSE]
    /\ rtc = [o \in Offer |-> "none"]
    /\ injector = [o \in Offer |-> NoInjector]
    /\ capture = [o \in Offer |-> [state |-> "none", of |-> None]]
    /\ crashed = FALSE

Live == {o \in Offer : \E i \in Id : sessions[i] = o}

-----------------------------------------------------------------------------
(* stopSessionLocked *)

\* PipelineManager.Stop: the process is killed, the flag is cleared while its monitor
\* still waits for it.
stopPipelines(S) ==
    /\ capture' = [o \in Offer |->
          IF capture[o].of \in S /\ running[capture[o].of] /\ capture[o].state = "up"
          THEN [capture[o] EXCEPT !.state = "killed"] ELSE capture[o]]
    /\ running' = [o \in Offer |-> running[o] /\ o \notin S]

\* Mutant: the peer is closed without its listener.
closeRTCNever(S) == rtc

closeRTC(S) == [o \in Offer |-> IF o \in S /\ rtc[o] = "open" THEN "closed" ELSE rtc[o]]

\* Injector.Close does nothing while a restart has cleared isStarted.
closeInjectors(S) ==
    [o \in Offer |->
        IF o \notin S \/ ~injector[o].started THEN injector[o]
        ELSE [injector[o] EXCEPT !.started = FALSE, !.process = "none"]]

StopAll(ids) ==
    LET S == {sessions[i] : i \in ids} \ {None} IN
    /\ stopPipelines(S)
    /\ rtc' = closeRTC(S)
    /\ injector' = closeInjectors(S)
    /\ sessions' = [i \in Id |-> IF i \in ids THEN None ELSE sessions[i]]

Done(o) == offer' = [offer EXCEPT ![o] = [NewOffer EXCEPT !.at = "done"]]

\* The handler's error paths stop the session of that id, whosever it is by now.
FailOffer(o) == StopAll({offer[o].id}) /\ Done(o)

-----------------------------------------------------------------------------
(* handleDesktopMethod *)

\* stopSessionByIDLocked and stopSessionsOnPortLocked: every offer uses DefaultRTPPort.
SharingPort(id) == {i \in Id : i = id \/ sessions[i] # None}

\* StartSession.  xdotool may be missing and the peer may not come up; the bind fails
\* when the port is held.
StartSession(o) ==
    /\ ~crashed /\ offer[o].at = "idle"
    /\ \E id \in Id :
          LET ids == SharingPort(id)
              S == {sessions[i] : i \in ids} \ {None}
              free == \A x \in Offer : closeRTC(S)[x] # "open" IN
          /\ stopPipelines(S)
          /\ \/ /\ free
                /\ rtc' = [closeRTC(S) EXCEPT ![o] = "open"]
                /\ injector' = [closeInjectors(S) EXCEPT
                                  ![o] = [NoInjector EXCEPT !.started = TRUE, !.process = "up"]]
                /\ sessions' = [i \in Id |-> IF i = id THEN o ELSE IF i \in ids THEN None ELSE sessions[i]]
                /\ offer' = [offer EXCEPT ![o] = [at |-> "offer", id |-> id, target |-> None]]
             \/ /\ rtc' = closeRTC(S)
                /\ injector' = closeInjectors(S)
                /\ sessions' = [i \in Id |-> IF i \in ids THEN None ELSE sessions[i]]
                /\ offer' = [offer EXCEPT ![o] = [NewOffer EXCEPT !.at = IF free THEN "done" ELSE "bound"]]
    /\ UNCHANGED crashed

\* ProcessOffer on the object it was given: a closed peer refuses, the gathering of
\* candidates may time out.
ProcessOffer(o) ==
    /\ ~crashed /\ offer[o].at = "offer"
    /\ \/ /\ rtc[o] = "open"
          /\ offer' = [offer EXCEPT ![o].at = "capture"]
          /\ UNCHANGED <<sessions, running, rtc, injector, capture>>
       \/ FailOffer(o)
    /\ UNCHANGED crashed

\* StartCapture: the session of that id is looked up, which may be another offer's;
\* a pipeline that runs is left alone.
StartCapture(o) ==
    LET target == sessions[offer[o].id] IN
    /\ ~crashed /\ offer[o].at = "capture"
    /\ IF target = None THEN FailOffer(o)
       ELSE /\ IF running[target] THEN Done(o)
               ELSE offer' = [offer EXCEPT ![o].at = "start", ![o].target = target]
            /\ UNCHANGED <<sessions, running, rtc, injector, capture>>
    /\ UNCHANGED crashed

MayStart(x) == ~running[x]

\* PipelineManager.Start; the tool may be missing.
StartPipeline(o) ==
    LET x == offer[o].target IN
    /\ ~crashed /\ offer[o].at = "start"
    /\ \/ /\ MayStart(x)
          /\ running' = [running EXCEPT ![x] = TRUE]
          /\ capture' = [capture EXCEPT ![o] = [state |-> "up", of |-> x]]
          /\ Done(o)
          /\ UNCHANGED <<sessions, rtc, injector>>
       \/ FailOffer(o)
    /\ UNCHANGED crashed

\* xworkmate.desktop.close.  An ICE candidate (xworkmate.desktop.ice) changes nothing here.
CloseDesktop(id) ==
    /\ ~crashed /\ sessions[id] # None
    /\ StopAll({id})
    /\ UNCHANGED <<offer, crashed>>

-----------------------------------------------------------------------------
(* The capture processes *)

CaptureExits(o) ==
    /\ ~crashed /\ capture[o].state \in {"up", "killed"}
    /\ capture' = [capture EXCEPT ![o].state = "exited"]
    /\ UNCHANGED <<sessions, offer, running, rtc, injector, crashed>>

\* The goroutine behind cmd.Wait clears the flag of its manager.
Monitor(o) ==
    /\ ~crashed /\ capture[o].state = "exited"
    /\ capture' = [capture EXCEPT ![o].state = "reaped"]
    /\ running' = [running EXCEPT ![capture[o].of] = FALSE]
    /\ UNCHANGED <<sessions, offer, rtc, injector, crashed>>

-----------------------------------------------------------------------------
(* XdotoolInjector.Inject *)

XdotoolExits(o) ==
    /\ ~crashed /\ injector[o].process = "up"
    /\ injector' = [injector EXCEPT ![o].process = "broken"]
    /\ UNCHANGED <<sessions, offer, running, rtc, capture, crashed>>

\* The write of an event fails: the mutex is released for a restart.
InputFails(o) ==
    /\ ~crashed /\ rtc[o] = "open" /\ injector[o].input = "idle"
    /\ injector[o].started /\ injector[o].process = "broken"
    /\ injector' = [injector EXCEPT ![o].started = FALSE, ![o].process = "none",
                                    ![o].input = "restart"]
    /\ UNCHANGED <<sessions, offer, running, rtc, capture, crashed>>

Restart(o) ==
    /\ ~crashed /\ injector[o].input = "restart"
    /\ injector' = [injector EXCEPT ![o] =
          [started |-> TRUE, process |-> "up", input |-> "write"]]
    /\ UNCHANGED <<sessions, offer, running, rtc, capture, crashed>>

\* xdotool is not there any more: the event is dropped.
RestartFails(o) ==
    /\ ~crashed /\ injector[o].input = "restart"
    /\ injector' = [injector EXCEPT ![o].input = "idle"]
    /\ UNCHANGED <<sessions, offer, running, rtc, capture, crashed>>

\* The event is written again; a Close in between has left no pipe to write to.
WriteAgain(o) ==
    /\ ~crashed /\ injector[o].input = "write"
    /\ injector' = [injector EXCEPT ![o].input = "idle"]
    /\ crashed' = ~injector[o].started
    /\ UNCHANGED <<sessions, offer, running, rtc, capture>>

-----------------------------------------------------------------------------
HandleOffer(o) == StartSession(o) \/ ProcessOffer(o) \/ StartCapture(o) \/ StartPipeline(o)

DesktopNext ==
    \/ \E o \in Offer : \/ HandleOffer(o)
                        \/ CaptureExits(o) \/ Monitor(o)
                        \/ XdotoolExits(o) \/ InputFails(o)
                        \/ Restart(o) \/ RestartFails(o) \/ WriteAgain(o)
    \/ \E id \in Id : CloseDesktop(id)

DesktopSpec == DesktopInit /\ [][DesktopNext]_dvars

DesktopTypeOK ==
    /\ sessions \in [Id -> Offer \cup {None}]
    /\ offer \in [Offer -> [at : {"idle", "offer", "capture", "start", "done"},
                            id : Id \cup {None}, target : Offer \cup {None}]]
    /\ running \in [Offer -> BOOLEAN]
    /\ rtc \in [Offer -> {"none", "open", "closed"}]
    /\ injector \in [Offer -> [started : BOOLEAN, process : {"none", "up", "broken"},
                               input : {"idle", "restart", "write"}]]
    /\ capture \in [Offer -> [state : {"none", "up", "killed", "exited", "reaped"},
                              of : Offer \cup {None}]]
    /\ crashed \in BOOLEAN

\* The port's one receiver is that of a session that can be found and closed, and no
\* two sessions have one: whichever way offers and closes of several clients interleave
\* and fail, no peer is left holding the port, so the bind of a later offer never fails.
ReceiverHasSession ==
    /\ {o \in Offer : rtc[o] = "open"} = Live
    /\ Cardinality(Live) <= 1
=============================================================================
