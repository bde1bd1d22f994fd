----------------------------- MODULE OneBuilder -----------------------------
(***************************************************************************)
(* What the build lock promises, with nothing of how it is kept: the nodes *)
(* that run the warm-up JVM for one archive key do so one at a time.       *)
(* BuildLock implements this module as long as its heartbeat outlasts the  *)
(* renewals it loses, and Primer as long as the lock is not lost under a   *)
(* build.                                                                  *)
(***************************************************************************)
CONSTANT Node            \* the primers of one archive key
VARIABLE building        \* the primers that are building right now

(* A build starts only when no other one is under way. *)
Begin(n) == building = {} /\ building' = {n}

(* A build ends: it succeeds, fails, or its primer dies. *)
End(n) == n \in building /\ building' = building \ {n}

Init == building = {}
Next == \E n \in Node : Begin(n) \/ End(n)
Spec == Init /\ [][Next]_building

=============================================================================
