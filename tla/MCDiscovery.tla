---------------------------- MODULE MCDiscovery -----------------------------
(* Instances of Discovery for TLC: repositories are named in the .cfg. *)
EXTENDS Discovery

CONSTANTS self, p1, p2
=============================================================================
