----------------------------- MODULE Governance -----------------------------
(***************************************************************************)
(* The branch-protection step of scripts/setup_node.py, run from any       *)
(* number of terminals against one GitHub repository whose administrators  *)
(* change the protection at the same time.                                 *)
(*                                                                         *)
(* One action is one HTTP call, or one decision between two calls.  A run  *)
(* reads the two sources (rulesets, classic protection) one after the      *)
(* other, may create the baseline ruleset, and reads both again.           *)
(***************************************************************************)
EXTENDS GovernanceBaseline, FiniteSets

CONSTANTS
  Runs,          \* processes running setup_node.py
  Ids,           \* identifiers of rulesets
  Shapes,        \* the rulesets administrators create
  ClassicShapes, \* the classic protections administrators set
  PageSize,      \* rulesets GitHub lists on the first page
  MaxRuns,       \* bound on the runs started
  MaxEdits,      \* bound on the administrators' changes
  Null

ASSUME Repository ==
  /\ Shapes \subseteq Rulesets /\ Null \notin Rulesets
  /\ ClassicShapes \subseteq Classics /\ Null \notin Classics
ASSUME Identifiers == Null \notin Ids /\ Null \notin Runs /\ IsFiniteSet(Ids)
ASSUME Bounds == PageSize \in Nat /\ MaxRuns \in Nat /\ MaxEdits \in Nat

VARIABLES
  rulesets,  \* rulesets[i]: the ruleset with identifier i, or Null
  classic,   \* classic protection of the default branch, or Null
  config,    \* .federation-setup.json is there
  frame,     \* the local variables of each run
  seen,      \* history: baseline rules in force since the run's last inspection began
  calm,      \* history: nobody else changed, and GitHub hid, nothing during the run
  clean,     \* history: every call of the run was answered as asked
  runs,      \* runs started so far
  edits      \* changes made by administrators so far

vars == <<rulesets, classic, config, frame, seen, calm, clean, runs, edits>>

-----------------------------------------------------------------------------
Answers == {"none", "CONFORMANT", "NON_CONFORMANT", "UNKNOWN"}
Labels  == {"idle", "detect", "rules", "classic", "decide", "list", "detail", "post", "done"}

\* main(): --status; --apply-governance alone; the setup, with or without
\* --non-interactive and --apply-governance.
Modes ==
  {m \in [entry : {"status", "standalone", "setup"}, interactive : BOOLEAN, apply : BOOLEAN] :
     m.entry # "setup" => ~ m.interactive /\ (m.apply <=> m.entry = "standalone")}

Frames ==
  [pc : Labels, mode : Modes, consent : BOOLEAN, round : {1, 2}, a : SourceA,
   check : Answers, candidate : Ids \cup {Null}, answer : Answers, exit : 0..2]

Status == [entry |-> "status", interactive |-> FALSE, apply |-> FALSE]
Fresh ==
  [pc |-> "idle", mode |-> Status, consent |-> FALSE, round |-> 1, a |-> Unread,
   check |-> "none", candidate |-> Null, answer |-> "none", exit |-> 0]

Present  == {i \in Ids : rulesets[i] # Null}
Reserved == {i \in Present : rulesets[i].name = "baseline"}

\* What GitHub enforces by rulesets, and by both sources.
ByRulesets(R) == UNION {Enforced(R[i]) : i \in {j \in Ids : R[j] # Null}}
InForce(R, c) ==
  BaselineTypes \cap (ByRulesets(R) \cup (IF c = Null THEN {} ELSE ClassicEnforced(c)))

Move(p, f) == frame' = [frame EXCEPT ![p] = f]
Goto(p, l) == Move(p, [frame[p] EXCEPT !.pc = l])

Code(c) == CASE c = "CONFORMANT" -> 0 [] c = "NON_CONFORMANT" -> 1 [] OTHER -> 2

\* The setup returns the enumeration member: SystemExit prints it and exits 1.
Exit(m, c) ==
  IF m.entry = "setup" THEN IF m.apply THEN 1 ELSE 0 ELSE Code(c)

Answer(p, c) ==
  Move(p, [frame[p] EXCEPT !.pc = "done", !.answer = c, !.exit = Exit(frame[p].mode, c)])

\* The call of run p failed.
Fails(p) == clean' = [clean EXCEPT ![p] = FALSE]

\* The protection changes, not by run p: every other run is disturbed.
Changed(p) ==
  /\ seen' = [q \in Runs |-> seen[q] \cup InForce(rulesets', classic')]
  /\ calm' = [q \in Runs |-> calm[q] /\ q = p]

Remote == <<rulesets, classic, edits>>
Local  == <<config, runs>>
Noted  == <<seen, calm>>

Init ==
  /\ rulesets \in [Ids -> Shapes \cup {Null}]
  /\ classic \in ClassicShapes \cup {Null}
  /\ config \in BOOLEAN
  /\ frame = [p \in Runs |-> Fresh]
  /\ seen = [p \in Runs |-> {}]
  /\ calm = [p \in Runs |-> TRUE]
  /\ clean = [p \in Runs |-> TRUE]
  /\ runs = 0
  /\ edits = 0

-----------------------------------------------------------------------------
(* main, show_status, _run_governance_standalone, _run_governance_step.    *)

Start(p, m) ==
  /\ frame[p].pc \in {"idle", "done"}
  /\ runs < MaxRuns
  /\ runs' = runs + 1
  /\ calm' = [calm EXCEPT ![p] = TRUE]
  /\ clean' = [clean EXCEPT ![p] = TRUE]
  /\ config' = (config \/ m.entry = "setup")
  /\ Move(p, IF config'
               THEN [Fresh EXCEPT !.pc = "detect", !.mode = m]
               ELSE [Fresh EXCEPT !.pc = "done", !.mode = m, !.exit = 2])
  /\ UNCHANGED <<Remote, seen>>

Detect(p) ==
  /\ frame[p].pc = "detect"
  /\ Goto(p, "rules")
  /\ UNCHANGED <<Remote, Local, Noted, clean>>

\* No GitHub remote, no answer, or no default branch in it.
DetectFails(p) ==
  /\ frame[p].pc = "detect"
  /\ Answer(p, "UNKNOWN")
  /\ Fails(p)
  /\ UNCHANGED <<Remote, Local, Noted>>

\* GET rules/branches/{branch}: an inspection begins.
ReadRules(p) ==
  /\ frame[p].pc = "rules"
  /\ \/ /\ Move(p, [frame[p] EXCEPT !.pc = "classic",
                                    !.a = [ok |-> TRUE, types |-> ByRulesets(rulesets)]])
        /\ UNCHANGED clean
     \/ /\ Move(p, [frame[p] EXCEPT !.pc = "classic", !.a = Unread])
        /\ Fails(p)
  /\ seen' = [seen EXCEPT ![p] = InForce(rulesets, classic)]
  /\ UNCHANGED <<Remote, Local, calm>>

\* _evaluate, and where its check goes.
Evaluate(p, b) ==
  LET c == Compliance(frame[p].a, b)
  IN CASE frame[p].mode.entry = "status" \/ frame[p].round = 2 \/ c = "CONFORMANT" -> Answer(p, c)
       [] OTHER -> Move(p, [frame[p] EXCEPT !.pc = "decide", !.check = c])

\* GET branches/{branch}/protection answers what is there, or 404.
ReadClassic(p) ==
  /\ frame[p].pc = "classic"
  /\ Evaluate(p, IF classic = Null THEN NotFound ELSE [status |-> "read", data |-> classic])
  /\ UNCHANGED <<Remote, Local, Noted, clean>>

\* 404 for a protection the token may not see.
ClassicHidden(p) ==
  /\ frame[p].pc = "classic"
  /\ classic # Null
  /\ Evaluate(p, NotFound)
  /\ calm' = [calm EXCEPT ![p] = FALSE]
  /\ UNCHANGED <<Remote, Local, seen, clean>>

ClassicUnread(p) ==
  /\ frame[p].pc = "classic"
  /\ Evaluate(p, UnreadB)
  /\ Fails(p)
  /\ UNCHANGED <<Remote, Local, Noted>>

\* Mutant: an interactive run writes without the question.
DecideUnasked(p) ==
  /\ frame[p].pc = "decide"
  /\ IF frame[p].mode.apply \/ frame[p].mode.interactive
       THEN Goto(p, "list") ELSE Answer(p, frame[p].check)
  /\ UNCHANGED <<Remote, Local, Noted, clean>>

\* Without --apply-governance only an interactive run whose check is
\* NON_CONFORMANT asks, and only a "yes" lets it write.
Decide(p) ==
  /\ frame[p].pc = "decide"
  /\ \/ frame[p].mode.apply /\ Goto(p, "list")
     \/ /\ ~ frame[p].mode.apply
        /\ frame[p].mode.interactive
        /\ frame[p].check = "NON_CONFORMANT"
        /\ Move(p, [frame[p] EXCEPT !.pc = "list", !.consent = TRUE])
     \/ ~ frame[p].mode.apply /\ Answer(p, frame[p].check)
  /\ UNCHANGED <<Remote, Local, Noted, clean>>

-----------------------------------------------------------------------------
(* ensure_governance_baseline.                                             *)

\* The first page of GET rulesets.
Pages ==
  IF Cardinality(Present) <= PageSize
    THEN {Present} ELSE {S \in SUBSET Present : Cardinality(S) = PageSize}

\* Mutant: every ruleset on the page is a candidate, whatever its name.
ListUnfiltered(p) ==
  /\ frame[p].pc = "list"
  /\ \E page \in Pages :
       \/ page = {} /\ Goto(p, "post")
       \/ \E i \in page :
            /\ page = {i}
            /\ Move(p, [frame[p] EXCEPT !.pc = "detail", !.candidate = i])
       \/ Cardinality(page) > 1 /\ Answer(p, "UNKNOWN")
  /\ UNCHANGED <<Remote, Local, Noted, clean>>

ListRulesets(p) ==
  /\ frame[p].pc = "list"
  /\ \E page \in Pages :
       LET candidates == page \cap Reserved
       IN \/ candidates = {} /\ Goto(p, "post")
          \/ \E i \in candidates :
               /\ candidates = {i}
               /\ Move(p, [frame[p] EXCEPT !.pc = "detail", !.candidate = i])
          \/ Cardinality(candidates) > 1 /\ Answer(p, "UNKNOWN")
  /\ UNCHANGED <<Remote, Local, Noted, clean>>

ListFails(p) ==
  /\ frame[p].pc = "list"
  /\ Answer(p, "UNKNOWN")
  /\ Fails(p)
  /\ UNCHANGED <<Remote, Local, Noted>>

Reinspect(p) == Move(p, [frame[p] EXCEPT !.pc = "rules", !.round = 2])

\* GET rulesets/{id}: the ruleset that was listed, if it is still there.
FetchDetail(p) ==
  LET i == frame[p].candidate
  IN
  /\ frame[p].pc = "detail"
  /\ rulesets[i] # Null
  /\ IF Compatible(rulesets[i]) THEN Reinspect(p) ELSE Answer(p, "UNKNOWN")
  /\ UNCHANGED <<Remote, Local, Noted, clean>>

\* No answer, 404, or a detail without one of the fields that are checked.
DetailUnusable(p) ==
  /\ frame[p].pc = "detail"
  /\ Answer(p, "UNKNOWN")
  /\ Fails(p)
  /\ UNCHANGED <<Remote, Local, Noted>>

Created(p, i) ==
  /\ rulesets[i] = Null
  /\ rulesets' = [rulesets EXCEPT ![i] = Payload]
  /\ UNCHANGED <<classic, edits>>
  /\ Changed(p)

\* POST rulesets answers 201.
PostRuleset(p) ==
  /\ frame[p].pc = "post"
  /\ \E i \in Ids : Created(p, i)
  /\ Reinspect(p)
  /\ UNCHANGED <<Local, clean>>

\* The ruleset is created and the answer lost.
PostLost(p) ==
  /\ frame[p].pc = "post"
  /\ \E i \in Ids : Created(p, i)
  /\ Answer(p, "UNKNOWN")
  /\ Fails(p)
  /\ UNCHANGED Local

\* 401, 403, 422 or no connection.
PostRefused(p) ==
  /\ frame[p].pc = "post"
  /\ Answer(p, "UNKNOWN")
  /\ Fails(p)
  /\ UNCHANGED <<Remote, Local, Noted>>

-----------------------------------------------------------------------------
(* The environment.                                                        *)

\* The run is interrupted.
Kill(p) ==
  /\ frame[p].pc \notin {"idle", "done"}
  /\ Move(p, Fresh)
  /\ UNCHANGED <<Remote, Local, Noted, clean>>

EditRulesets ==
  /\ edits < MaxEdits
  /\ edits' = edits + 1
  /\ \E i \in Ids, s \in Shapes \cup {Null} : rulesets' = [rulesets EXCEPT ![i] = s]
  /\ classic' = classic
  /\ Changed(Null)
  /\ UNCHANGED <<Local, frame, clean>>

EditClassic ==
  /\ edits < MaxEdits
  /\ edits' = edits + 1
  /\ classic' \in ClassicShapes \cup {Null}
  /\ rulesets' = rulesets
  /\ Changed(Null)
  /\ UNCHANGED <<Local, frame, clean>>

Step(p) ==
  \/ Detect(p) \/ DetectFails(p)
  \/ ReadRules(p) \/ ReadClassic(p) \/ ClassicHidden(p) \/ ClassicUnread(p)
  \/ Decide(p)
  \/ ListRulesets(p) \/ ListFails(p) \/ FetchDetail(p) \/ DetailUnusable(p)
  \/ PostRuleset(p) \/ PostLost(p) \/ PostRefused(p)

Next ==
  \/ \E p \in Runs : Step(p) \/ Kill(p) \/ \E m \in Modes : Start(p, m)
  \/ EditRulesets \/ EditClassic

Spec == Init /\ [][Next]_vars

-----------------------------------------------------------------------------
(* Properties.                                                             *)

\* Every variable keeps its type; run names are not Null.
TypeOK ==
  /\ rulesets \in [Ids -> Rulesets \cup {Null}]
  /\ classic \in Classics \cup {Null}
  /\ config \in BOOLEAN
  /\ frame \in [Runs -> Frames]
  /\ seen \in [Runs -> SUBSET BaselineTypes]
  /\ calm \in [Runs -> BOOLEAN]
  /\ clean \in [Runs -> BOOLEAN]
  /\ runs \in 0..MaxRuns
  /\ edits \in 0..MaxEdits

\* CONFORMANT is said only of a repository where each baseline rule was in
\* force at some moment since the inspection that gives the answer began:
\* never from an unreadable source, a missing field or an answer of GitHub
\* from before the ruleset was created.
ConformantIsWitnessed ==
  \A p \in Runs : frame[p].answer = "CONFORMANT" => BaselineTypes \subseteq seen[p]

\* NON_CONFORMANT, said by a run during which nobody changed the protection
\* and GitHub hid none, means that a baseline rule is really not in force,
\* however many of the calls failed.
MissingIsWitnessed ==
  \A p \in Runs :
    frame[p].answer = "NON_CONFORMANT" /\ calm[p]
      => ~ (BaselineTypes \subseteq InForce(rulesets, classic))

\* The tool never changes what is there.  All it ever does to the repository
\* is to add the baseline once, for a run that was told to write, on a check
\* that was not CONFORMANT, and (left alone, with one page of rulesets) when
\* no ruleset has the reserved name.
MayCreate(p) ==
  /\ frame[p].pc = "post" /\ frame[p].round = 1
  /\ frame[p].mode.apply \/ frame[p].consent
  /\ frame[p].check \in {"NON_CONFORMANT", "UNKNOWN"}
  /\ calm[p] /\ Cardinality(Present) <= PageSize => Reserved = {}

Adds == \E i \in Ids : rulesets[i] = Null /\ rulesets' = [rulesets EXCEPT ![i] = Payload]

WritesAreAllowed ==
  [][edits' = edits =>
       /\ classic' = classic
       /\ rulesets' # rulesets =>
            Adds /\ \E p \in Runs : MayCreate(p) /\ frame'[p].pc # "post"]_vars

\* A run that may write, that nobody disturbed and whose calls were all
\* answered ends CONFORMANT, unless the reserved name is taken by a ruleset
\* the code must not touch.
Blocked == Cardinality(Reserved) > 1 \/ \E i \in Reserved : ~ Compatible(rulesets[i])

ApplyWorks ==
  \A p \in Runs :
    /\ frame[p].pc = "done" /\ frame[p].answer # "none"
    /\ frame[p].mode.apply \/ frame[p].consent
    /\ calm[p] /\ clean[p]
    => frame[p].answer = "CONFORMANT" \/ Blocked

\* setup_node.py:770, "With explicit --apply-governance, exit code reflects
\* governance result".
ExitReflectsGovernance ==
  \A p \in Runs :
    frame[p].mode.apply /\ frame[p].answer # "none"
      => (frame[p].exit = 0 <=> frame[p].answer = "CONFORMANT")
=============================================================================
