---------------------------- MODULE MCNadiOutbox ----------------------------
(* Instances of NadiOutbox for TLC. *)
EXTENDS NadiOutbox, TLC

Interchangeable == Permutations(Procs) \cup Permutations(Envelopes)
=============================================================================
