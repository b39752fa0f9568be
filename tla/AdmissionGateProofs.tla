------------------------ MODULE AdmissionGateProofs ------------------------
(***************************************************************************)
(* The slots of the gate are the callers that hold one, and the counter of *)
(* the queue is the callers in it, for any number of callers and any       *)
(* limits.  Each action moves one caller in or out of Holders and Counted, *)
(* so the cardinality facts below carry every step.                        *)
(***************************************************************************)
EXTENDS AdmissionGate, FiniteSetTheorems, TLAPS

\* The type invariant and both counts; each needs the others, because the
\* actions guard with slots and queued, not with the callers.
GateInv == GateTypeOK /\ SlotsMatchHolders /\ QueueMatchesWaiters

\* Membership of t in a set of callers decides how its cardinality changes.
LEMMA CardinalityMoves ==
    ASSUME NEW S, IsFiniteSet(S), NEW T, NEW t
    PROVE  /\ Cardinality(S) \in Nat
           /\ T = S \cup {t} /\ t \notin S => Cardinality(T) = Cardinality(S) + 1
           /\ T = S \ {t} /\ t \in S => Cardinality(T) = Cardinality(S) - 1
<1>1. Cardinality(S) \in Nat
  BY FS_CardinalityType
<1>2. Cardinality(S \cup {t}) = IF t \in S THEN Cardinality(S) ELSE Cardinality(S) + 1
  BY FS_AddElement
<1>3. Cardinality(S \ {t}) = IF t \in S THEN Cardinality(S) - 1 ELSE Cardinality(S)
  BY FS_RemoveElement
<1> QED BY <1>1, <1>2, <1>3

\* A caller that moves changes Holders and Counted only at itself.
LEMMA MoveChangesOneCaller ==
    ASSUME gate \in [Turn -> GatePositions], NEW t \in Turn,
           NEW position \in GatePositions, Move(t, position)
    PROVE  /\ gate' \in [Turn -> GatePositions]
           /\ Holders' = IF position \in {"taking", "admitted"}
                         THEN Holders \cup {t} ELSE Holders \ {t}
           /\ Counted' = IF position \in {"waiting", "taking", "leaving"}
                         THEN Counted \cup {t} ELSE Counted \ {t}
BY DEF Move, Holders, Counted

\* Both sets are finite, like Turn.
LEMMA CallersFinite == IsFiniteSet(Holders) /\ IsFiniteSet(Counted)
<1>1. Holders \subseteq Turn /\ Counted \subseteq Turn
  BY DEF Holders, Counted
<1> QED BY <1>1, GateAssumption, FS_Subset DEF GateAssumption

\* Every step of acquire and release keeps the counts exact.
LEMMA GateInvStep == GateInv /\ [GateNext]_gateVars => GateInv'
<1> SUFFICES ASSUME GateInv, [GateNext]_gateVars PROVE GateInv'
  OBVIOUS
<1> USE GateAssumption DEF GateAssumption
<1>0. UNCHANGED gateVars => GateInv'
  BY DEF gateVars, GateInv, GateTypeOK, SlotsMatchHolders, QueueMatchesWaiters, Holders, Counted
<1>1. ASSUME NEW t \in Turn, Acquire(t) \/ Release(t) PROVE GateInv'
  <2>f. IsFiniteSet(Holders) /\ IsFiniteSet(Counted)
    BY CallersFinite
  <2>g. /\ gate \in [Turn -> GatePositions] /\ slots \in 0..MaxActive
        /\ queued \in 0..MaxQueued
        /\ slots = Cardinality(Holders) /\ queued = Cardinality(Counted)
    BY DEF GateInv, GateTypeOK, SlotsMatchHolders, QueueMatchesWaiters
  <2>h. /\ t \in Holders <=> gate[t] \in {"taking", "admitted"}
        /\ t \in Counted <=> gate[t] \in {"waiting", "taking", "leaving"}
    BY DEF Holders, Counted
  <2>a. /\ t \notin Holders => Cardinality(Holders \cup {t}) = slots + 1 /\ Holders \ {t} = Holders
        /\ t \in Holders => Cardinality(Holders \ {t}) = slots - 1 /\ Holders \cup {t} = Holders
        /\ t \notin Counted => Cardinality(Counted \cup {t}) = queued + 1 /\ Counted \ {t} = Counted
        /\ t \in Counted => Cardinality(Counted \ {t}) = queued - 1 /\ Counted \cup {t} = Counted
        /\ Cardinality(Holders) \in Nat /\ Cardinality(Counted) \in Nat
    BY <2>f, <2>g, CardinalityMoves
  \* A holder proves that a slot is taken, a counted caller that the queue is not empty.
  <2>b. (t \in Holders => slots > 0) /\ (t \in Counted => queued > 0)
    <3>1. t \in Holders => Cardinality(Holders \ {t}) \in Nat
      BY <2>f, FS_RemoveElement, FS_CardinalityType
    <3>2. t \in Counted => Cardinality(Counted \ {t}) \in Nat
      BY <2>f, FS_RemoveElement, FS_CardinalityType
    <3> QED BY <3>1, <3>2, <2>a, <2>g
  <2>1. CASE TryAcquire(t)
    <3>1. CASE slots < MaxActive
      <4>1. slots' = slots + 1 /\ Move(t, "admitted") /\ queued' = queued /\ gate[t] = "outside"
        BY <2>1, <3>1 DEF TryAcquire
      <4>2. slots + 1 \in 0..MaxActive
        BY <3>1, <2>g
      <4>3. Holders' = Holders \cup {t} /\ Counted' = Counted /\ t \notin Holders
            /\ gate' \in [Turn -> GatePositions]
        BY <4>1, <2>g, <2>h, <2>a, MoveChangesOneCaller DEF GatePositions
      <4> QED BY <4>1, <4>2, <4>3, <2>g, <2>a
           DEF GateInv, GateTypeOK, SlotsMatchHolders, QueueMatchesWaiters
    <3>2. CASE ~(slots < MaxActive)
      <4>1. slots' = slots /\ Move(t, "full") /\ queued' = queued /\ gate[t] = "outside"
        BY <2>1, <3>2 DEF TryAcquire
      <4> QED BY <4>1, <2>g, <2>h, <2>a, MoveChangesOneCaller
           DEF GateInv, GateTypeOK, SlotsMatchHolders, QueueMatchesWaiters, GatePositions
    <3> QED BY <3>1, <3>2
  <2>2. CASE JoinQueue(t)
    <3>1. CASE QueueFull
      <4>1. slots' = slots /\ Move(t, "refused") /\ queued' = queued /\ gate[t] = "full"
        BY <2>2, <3>1 DEF JoinQueue
      <4> QED BY <4>1, <2>g, <2>h, <2>a, MoveChangesOneCaller
           DEF GateInv, GateTypeOK, SlotsMatchHolders, QueueMatchesWaiters, GatePositions
    <3>2. CASE ~QueueFull
      <4>1. slots' = slots /\ Move(t, "waiting") /\ queued' = queued + 1 /\ gate[t] = "full"
        BY <2>2, <3>2 DEF JoinQueue
      <4>2. queued + 1 \in 0..MaxQueued
        BY <3>2, <2>g DEF QueueFull
      <4> QED BY <4>1, <4>2, <2>g, <2>h, <2>a, MoveChangesOneCaller
           DEF GateInv, GateTypeOK, SlotsMatchHolders, QueueMatchesWaiters, GatePositions
    <3> QED BY <3>1, <3>2
  <2>3. CASE TakeSlot(t)
    <3>1. gate[t] = "waiting" /\ Move(t, "taking") /\ slots' = slots + 1 /\ queued' = queued
      BY <2>3 DEF TakeSlot
    <3>2. slots + 1 \in 0..MaxActive
      BY <2>3, <2>g DEF TakeSlot
    <3>3. Holders' = Holders \cup {t} /\ Counted' = Counted /\ t \notin Holders
          /\ gate' \in [Turn -> GatePositions]
      BY <3>1, <2>g, <2>h, <2>a, MoveChangesOneCaller DEF GatePositions
    <3> QED BY <3>1, <3>2, <3>3, <2>g, <2>a
         DEF GateInv, GateTypeOK, SlotsMatchHolders, QueueMatchesWaiters
  <2>4. CASE GiveUp(t)
    BY <2>4, <2>g, <2>h, <2>a, MoveChangesOneCaller
       DEF GiveUp, GateInv, GateTypeOK, SlotsMatchHolders, QueueMatchesWaiters, GatePositions
  <2>5. CASE DecrementQueued(t)
    <3>1. queued' = queued - 1 /\ slots' = slots /\ t \in Counted
      BY <2>5, <2>b, <2>h DEF DecrementQueued
    <3>2. CASE gate[t] = "taking"
      <4>1. Move(t, "admitted")
        BY <2>5, <3>2 DEF DecrementQueued
      <4> QED BY <4>1, <3>1, <3>2, <2>g, <2>h, <2>a, <2>b, MoveChangesOneCaller
           DEF GateInv, GateTypeOK, SlotsMatchHolders, QueueMatchesWaiters, GatePositions
    <3>3. CASE gate[t] = "leaving"
      <4>1. Move(t, "refused")
        BY <2>5, <3>3 DEF DecrementQueued
      <4> QED BY <4>1, <3>1, <3>3, <2>g, <2>h, <2>a, <2>b, MoveChangesOneCaller
           DEF GateInv, GateTypeOK, SlotsMatchHolders, QueueMatchesWaiters, GatePositions
    <3> QED BY <2>5, <3>2, <3>3 DEF DecrementQueued
  <2>6. CASE Release(t)
    <3>1. /\ gate[t] = "admitted" /\ slots' = slots - 1 /\ Move(t, "released")
          /\ queued' = queued
      BY <2>6, <2>b, <2>h DEF Release, release
    <3>2. slots - 1 \in 0..MaxActive
      BY <3>1, <2>b, <2>g, <2>h
    <3>3. Holders' = Holders \ {t} /\ Counted' = Counted /\ t \in Holders
          /\ gate' \in [Turn -> GatePositions]
      BY <3>1, <2>g, <2>h, <2>a, MoveChangesOneCaller DEF GatePositions
    <3> QED BY <3>1, <3>2, <3>3, <2>g, <2>a
         DEF GateInv, GateTypeOK, SlotsMatchHolders, QueueMatchesWaiters
  <2> QED BY <1>1, <2>1, <2>2, <2>3, <2>4, <2>5, <2>6 DEF Acquire
<1> QED BY <1>0, <1>1 DEF GateNext

\* The gate starts empty.
LEMMA GateInvInit == GateInit => GateInv
<1> SUFFICES ASSUME GateInit PROVE GateInv
  OBVIOUS
<1>1. Holders = {} /\ Counted = {}
  BY DEF GateInit, Holders, Counted
<1>2. Cardinality({}) = 0
  BY FS_EmptySet
<1> QED BY <1>1, <1>2, GateAssumption
     DEF GateAssumption, GateInit, GateInv, GateTypeOK, GatePositions, SlotsMatchHolders,
         QueueMatchesWaiters

\* The channel holds exactly one token per caller between its admission and its
\* release: a slot is neither lost nor given twice, so no more than MaxActive
\* callers hold one.
THEOREM SlotsAreExact == GateSpec => []SlotsMatchHolders
<1>1. GateInv => SlotsMatchHolders
  BY DEF GateInv
<1> QED BY <1>1, GateInvInit, GateInvStep, PTL DEF GateSpec

\* The queue counter never drifts from the callers in the queue, although it is
\* updated apart from the channel, and never passes MaxQueued.
THEOREM QueueIsExact == GateSpec => []QueueMatchesWaiters
<1>1. GateInv => QueueMatchesWaiters
  BY DEF GateInv
<1> QED BY <1>1, GateInvInit, GateInvStep, PTL DEF GateSpec
=============================================================================
