------------------------ MODULE MCLocalSessionStore ------------------------
(* Instances of LocalSessionStore for TLC. *)
EXTENDS LocalSessionStore, TLC

Symmetry == Permutations(Process) \cup Permutations(Run) \cup Permutations(Session)
            \cup Permutations(Key) \cup Permutations(Content)

\* The requests the store has seen.
Seen == ({runReq[r] : r \in Run} \cup {accepting[p] : p \in Process}
            \cup {c.request : c \in receipts}) \ {None}

\* Bound: two runs are explored without storage errors and with one content,
\* storage errors and a key used for two contents with one run and one key.
TwoRunsOrFaults ==
    \/ faults = 0 /\ \A q1, q2 \in Seen : q1.content = q2.content
    \/ /\ \A r1, r2 \in Run : runReq[r1] # None /\ runReq[r2] # None => r1 = r2
       /\ \A q1, q2 \in Seen : q1.key = q2.key
=============================================================================
