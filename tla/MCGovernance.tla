---------------------------- MODULE MCGovernance ----------------------------
(* Instances of Governance for TLC.  Administrators know a ruleset with    *)
(* one of the three rules, a baseline that is switched off, and a classic  *)
(* protection that proves one rule, denies one and is silent on one.       *)
EXTENDS Governance, TLC

CONSTANTS r1, r2, i1, i2

Other    == [Payload EXCEPT !.name = "other",
                            !.rules = <<[type |-> "non_fast_forward", reviews |-> 0]>>]
Disabled == [Payload EXCEPT !.enforcement = "disabled"]

MCShapes  == {Other, Disabled}
MCClassic == {[reviews |-> TRUE, force_pushes |-> "allowed", deletions |-> "absent"]}

Symmetric == Permutations(Ids) \cup Permutations(Runs)
=============================================================================
