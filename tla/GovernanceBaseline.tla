------------------------- MODULE GovernanceBaseline -------------------------
(***************************************************************************)
(* The judgements of scripts/governance/_protection.py: what is read from  *)
(* a ruleset and from classic branch protection, what each read proves of  *)
(* a baseline rule, and whether an existing ruleset may stand for the      *)
(* baseline.  No state: Governance applies these to what GitHub answers.   *)
(***************************************************************************)
EXTENDS Naturals, Sequences

BaselineTypes == {"deletion", "non_fast_forward", "pull_request"}
RuleTypes     == BaselineTypes \cup {"required_signatures"}

(* A ruleset: its rules are a sequence of rules with the approving reviews *)
(* they ask for.                                                           *)
Rules    == [type : RuleTypes, reviews : Nat]
Rulesets ==
  [name : {"baseline", "other"}, target : {"branch", "tag"},
   enforcement : {"active", "evaluate", "disabled"},
   includes_default : BOOLEAN, exclude : {"none", "other", "default"},
   bypass : {"none", "actors"}, rules : Seq(Rules)]

TypesOf(rs) == {rs.rules[i].type : i \in DOMAIN rs.rules}

\* RULESET_PAYLOAD_V1: the three rules, no review required.
Payload ==
  [name |-> "baseline", target |-> "branch", enforcement |-> "active",
   includes_default |-> TRUE, exclude |-> "none", bypass |-> "none",
   rules |-> <<[type |-> "deletion", reviews |-> 0],
               [type |-> "non_fast_forward", reviews |-> 0],
               [type |-> "pull_request", reviews |-> 0]>>]

(* Classic branch protection; a switch GitHub leaves out is "absent".      *)
Switch   == {"allowed", "forbidden", "absent"}
Classics == [reviews : BOOLEAN, force_pushes : Switch, deletions : Switch]

-----------------------------------------------------------------------------
(* What GitHub enforces on the default branch.                             *)

Enforced(rs) ==
  IF rs.target = "branch" /\ rs.enforcement = "active"
       /\ rs.includes_default /\ rs.exclude # "default"
    THEN TypesOf(rs)
    ELSE {}

ClassicEnforced(c) ==
  {r \in BaselineTypes :
     \/ r = "pull_request" /\ c.reviews
     \/ r = "non_fast_forward" /\ c.force_pushes = "forbidden"
     \/ r = "deletion" /\ c.deletions = "forbidden"}

-----------------------------------------------------------------------------
(* _classic_confirms and _rule_status_for_type.  A source that could not   *)
(* be read has ok = FALSE; classic protection read as 404 is ok and none.  *)

\* Mutant: a switch that is left out is taken for "forbidden".
ClassicConfirmsAbsent(r, c) ==
  IF r = "pull_request"
    THEN IF c.reviews THEN "CONFIRMED" ELSE "UNKNOWN"
    ELSE LET switch == IF r = "deletion" THEN c.deletions ELSE c.force_pushes
         IN IF switch = "allowed" THEN "MISSING" ELSE "CONFIRMED"

ClassicConfirms(r, c) ==
  IF r = "pull_request"
    THEN IF c.reviews THEN "CONFIRMED" ELSE "UNKNOWN"
    ELSE LET switch == IF r = "deletion" THEN c.deletions ELSE c.force_pushes
         IN CASE switch = "forbidden" -> "CONFIRMED"
              [] switch = "allowed"   -> "MISSING"
              [] switch = "absent"    -> "UNKNOWN"

NoClassic   == [reviews |-> FALSE, force_pushes |-> "allowed", deletions |-> "allowed"]
SourceA     == [ok : BOOLEAN, types : SUBSET RuleTypes]
SourceB     == [status : {"read", "404", "unread"}, data : Classics]
Unread      == [ok |-> FALSE, types |-> {}]
UnreadB     == [status |-> "unread", data |-> NoClassic]
NotFound    == [status |-> "404", data |-> NoClassic]

Confirmed(r, a, b) ==
  \/ a.ok /\ r \in a.types
  \/ b.status = "read" /\ ClassicConfirms(r, b.data) = "CONFIRMED"

Unreadable(r, a, b) ==
  \/ ~ a.ok
  \/ b.status = "unread"
  \/ b.status = "read" /\ ClassicConfirms(r, b.data) = "UNKNOWN"

\* Mutant: a source that cannot be read counts as one without the rule.
RuleStatusUnreadMissing(r, a, b) ==
  IF Confirmed(r, a, b) THEN "CONFIRMED" ELSE "MISSING"

RuleStatus(r, a, b) ==
  CASE Confirmed(r, a, b) -> "CONFIRMED"
    [] ~ Confirmed(r, a, b) /\ Unreadable(r, a, b) -> "UNKNOWN"
    [] OTHER -> "MISSING"

\* Mutant: the worst status of a rule is the answer.
ComplianceWorst(a, b) ==
  IF \E r \in BaselineTypes : RuleStatus(r, a, b) = "UNKNOWN" THEN "UNKNOWN"
    ELSE IF \E r \in BaselineTypes : RuleStatus(r, a, b) = "MISSING"
           THEN "MISSING" ELSE "CONFORMANT"

\* _overall_compliance
Compliance(a, b) ==
  IF \A r \in BaselineTypes : RuleStatus(r, a, b) = "CONFIRMED"
    THEN "CONFORMANT"
    ELSE IF \E r \in BaselineTypes : RuleStatus(r, a, b) = "UNKNOWN"
           THEN "UNKNOWN" ELSE "NON_CONFORMANT"

-----------------------------------------------------------------------------
(* _is_compatible, on the detail of the ruleset with the reserved name.    *)

OnePullRequestRule(rs) ==
  \E i \in DOMAIN rs.rules :
    \A j \in DOMAIN rs.rules : rs.rules[j].type = "pull_request" <=> j = i

Compatible(rs) ==
  /\ rs.target = "branch"
  /\ rs.enforcement = "active"
  /\ rs.includes_default
  /\ rs.exclude = "none"
  /\ rs.bypass = "none"
  /\ OnePullRequestRule(rs)
  /\ BaselineTypes \subseteq TypesOf(rs)
=============================================================================
