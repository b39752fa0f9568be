---------------------------- MODULE AdmissionGate ----------------------------
(***************************************************************************)
(* openClawGatewayAdmissionGate (openclaw_gateway_admission.go): a channel *)
(* of MaxActive slots and a counter of queued callers.  The channel and the *)
(* counter are updated separately, so a caller that leaves the queue is    *)
(* counted until its deferred decrementQueued has run.                     *)
(***************************************************************************)
EXTENDS Naturals, FiniteSets

CONSTANTS
    Turn,       \* the callers of acquire
    MaxActive,  \* capacity of the slots channel
    MaxQueued   \* callers that may wait

ASSUME GateAssumption ==
    /\ IsFiniteSet(Turn)
    /\ MaxActive \in Nat \ {0}
    /\ MaxQueued \in Nat

VARIABLES
    slots,   \* len(g.slots)
    queued,  \* g.queued
    gate     \* where a caller is in acquire and release

gateVars == <<slots, queued, gate>>

GatePositions == {"outside", "full", "waiting", "taking", "leaving", "admitted",
                  "refused", "released"}

GateTypeOK ==
    /\ slots \in 0..MaxActive
    /\ queued \in 0..MaxQueued
    /\ gate \in [Turn -> GatePositions]

GateInit ==
    /\ slots = 0
    /\ queued = 0
    /\ gate = [t \in Turn |-> "outside"]

Move(t, position) == gate' = [gate EXCEPT ![t] = position]

-----------------------------------------------------------------------------
(* acquire *)

\* The first select: a free slot is taken at once.
TryAcquire(t) ==
    /\ gate[t] = "outside"
    /\ IF slots < MaxActive
       THEN slots' = slots + 1 /\ Move(t, "admitted")
       ELSE UNCHANGED slots /\ Move(t, "full")
    /\ UNCHANGED queued

QueueFull == queued >= MaxQueued

\* Under g.mu: queue_full, or one more in the queue.
JoinQueue(t) ==
    /\ gate[t] = "full"
    /\ IF QueueFull
       THEN Move(t, "refused") /\ UNCHANGED queued
       ELSE Move(t, "waiting") /\ queued' = queued + 1
    /\ UNCHANGED slots

TakeSlot(t) ==
    /\ gate[t] = "waiting"
    /\ slots < MaxActive
    /\ slots' = slots + 1
    /\ Move(t, "taking")
    /\ UNCHANGED queued

\* The queue timer fires or the request's context is done.
GiveUp(t) ==
    /\ gate[t] = "waiting"
    /\ Move(t, "leaving")
    /\ UNCHANGED <<slots, queued>>

\* Mutant: the deferred decrement is missing where a slot was taken.
DecrementOnGiveUp(t) ==
    /\ gate[t] \in {"taking", "leaving"}
    /\ queued' = IF gate[t] = "leaving" /\ queued > 0 THEN queued - 1 ELSE queued
    /\ Move(t, IF gate[t] = "taking" THEN "admitted" ELSE "refused")
    /\ UNCHANGED slots

\* The deferred decrementQueued; acquire returns.
DecrementQueued(t) ==
    /\ gate[t] \in {"taking", "leaving"}
    /\ queued' = IF queued > 0 THEN queued - 1 ELSE queued
    /\ Move(t, IF gate[t] = "taking" THEN "admitted" ELSE "refused")
    /\ UNCHANGED slots

Acquire(t) ==
    \/ TryAcquire(t) \/ JoinQueue(t)
    \/ TakeSlot(t) \/ GiveUp(t) \/ DecrementQueued(t)

-----------------------------------------------------------------------------
(* release: never blocks, and frees whichever slot is there *)

release == slots' = IF slots > 0 THEN slots - 1 ELSE slots

Release(t) ==
    /\ gate[t] = "admitted"
    /\ release
    /\ Move(t, "released")
    /\ UNCHANGED queued

-----------------------------------------------------------------------------
GateNext == \E t \in Turn : Acquire(t) \/ Release(t)

GateSpec == GateInit /\ [][GateNext]_gateVars

Holders == {t \in Turn : gate[t] \in {"taking", "admitted"}}
Counted == {t \in Turn : gate[t] \in {"waiting", "taking", "leaving"}}

\* The channel holds one token per caller that was admitted and has not
\* released, so at most MaxActive tasks are being started, and no token is lost.
SlotsMatchHolders == slots = Cardinality(Holders)

\* The counter is the number of callers between JoinQueue and their deferred
\* decrementQueued: it never drifts, and never passes MaxQueued.
QueueMatchesWaiters == queued = Cardinality(Counted) /\ queued <= MaxQueued
=============================================================================
