-------------------------- MODULE MCAuthorityFeed ---------------------------
(* Instances of AuthorityFeed for TLC: the feeds of a repository and of a  *)
(* fork of the same name.                                                  *)
EXTENDS AuthorityFeed, TLC

CONSTANTS r1

MCRepoOf == [f \in Feeds |-> r1]

Interchangeable == Permutations(Versions)
=============================================================================
