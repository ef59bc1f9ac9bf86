---------------------------- MODULE MCEventStore ----------------------------
(* Instances of EventStore for TLC: threads t1 and t2 share process p1, t3 *)
(* runs in process p2.                                                     *)
EXTENDS EventStoreRefinement, TLC

CONSTANTS t1, t2, t3, p1, p2

MCProcOf == [t \in Threads |-> IF t = t3 THEN p2 ELSE p1]

Interchangeable ==
  Permutations(Keys) \cup Permutations(RequestIds)
    \cup Permutations(Revisions) \cup Permutations(Bodies) \cup Permutations({t1, t2})
=============================================================================
