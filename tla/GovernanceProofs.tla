-------------------------- MODULE GovernanceProofs --------------------------
(***************************************************************************)
(* The safety properties of Governance for any number of runs, rulesets    *)
(* and administrators' changes.  RunOK(p) is what holds of run p at each   *)
(* of its program points; it refers to no other run, and another run (or   *)
(* an administrator) can touch it only through the repository.             *)
(***************************************************************************)
EXTENDS Governance, FiniteSetTheorems, TLAPS

Writing    == {"list", "detail", "post"}
Deciding   == Writing \cup {"decide"}
Inspecting == {"rules", "classic"}

\* What a run knows of the repository at the two reads and after them.
ReadsOK(p) ==
  /\ frame[p].pc = "classic" =>
       /\ InForce(rulesets, classic) \subseteq seen[p]
       /\ frame[p].a.ok => frame[p].a.types \cap BaselineTypes \subseteq seen[p]
       /\ frame[p].a.ok /\ calm[p] => frame[p].a.types = ByRulesets(rulesets)
       /\ clean[p] => frame[p].a.ok
  /\ frame[p].pc = "decide" /\ frame[p].check = "NON_CONFORMANT" /\ calm[p]
       => ~ (BaselineTypes \subseteq InForce(rulesets, classic))

\* What a run was allowed, at the points between the check and the POST.
WritesOK(p) ==
  /\ frame[p].pc \in Deciding =>
       frame[p].round = 1 /\ frame[p].check \in {"NON_CONFORMANT", "UNKNOWN"}
  /\ frame[p].pc \in Writing => frame[p].mode.apply \/ frame[p].consent
  /\ frame[p].pc \in {"detect", "decide"}
       \/ (frame[p].pc \in Inspecting /\ frame[p].round = 1) => ~ frame[p].consent
  /\ frame[p].pc = "detect" => frame[p].round = 1
  /\ frame[p].pc = "detail" => frame[p].candidate \in Ids
  /\ frame[p].pc = "detail" /\ calm[p] => frame[p].candidate \in Reserved
  /\ frame[p].pc = "post" /\ calm[p] /\ Cardinality(Present) <= PageSize => Reserved = {}
  /\ frame[p].pc \in Inspecting /\ frame[p].round = 2 /\ calm[p]
       => BaselineTypes \subseteq ByRulesets(rulesets)

\* What the answer of a run means.
AnswerOK(p) ==
  /\ frame[p].answer # "none" => frame[p].pc = "done"
  /\ frame[p].answer = "CONFORMANT" => BaselineTypes \subseteq seen[p]
  /\ frame[p].answer = "NON_CONFORMANT" /\ calm[p]
       => ~ (BaselineTypes \subseteq InForce(rulesets, classic))
  /\ /\ frame[p].pc = "done" /\ frame[p].answer # "none"
     /\ frame[p].mode.apply \/ frame[p].consent
     /\ calm[p] /\ clean[p]
     => frame[p].answer = "CONFORMANT" \/ Blocked

RunOK(p) == ReadsOK(p) /\ WritesOK(p) /\ AnswerOK(p)

IInv == TypeOK /\ \A p \in Runs : RunOK(p)

-----------------------------------------------------------------------------
(* The judgements of GovernanceBaseline.                                   *)

LEMMA ComplianceType ==
  ASSUME NEW a, NEW b
  PROVE  Compliance(a, b) \in {"CONFORMANT", "NON_CONFORMANT", "UNKNOWN"}
BY DEF Compliance

\* CONFORMANT: every baseline rule is confirmed by one of the two answers.
LEMMA ConformantIsConfirmed ==
  ASSUME NEW a, NEW b, Compliance(a, b) = "CONFORMANT", NEW r \in BaselineTypes
  PROVE  Confirmed(r, a, b)
<1>1. RuleStatus(r, a, b) = "CONFIRMED"
  BY DEF Compliance
<1>. QED
  BY <1>1 DEF RuleStatus

\* NON_CONFORMANT: a baseline rule is not confirmed, and both answers could
\* be read.
LEMMA NonConformantIsMissing ==
  ASSUME NEW a, NEW b, Compliance(a, b) = "NON_CONFORMANT"
  PROVE  \E r \in BaselineTypes : ~ Confirmed(r, a, b) /\ ~ Unreadable(r, a, b)
<1>1. PICK r \in BaselineTypes : RuleStatus(r, a, b) # "CONFIRMED"
  BY DEF Compliance
<1>2. RuleStatus(r, a, b) # "UNKNOWN"
  BY DEF Compliance
<1>. QED
  BY <1>1, <1>2 DEF RuleStatus

LEMMA AllConfirmed ==
  ASSUME NEW a, NEW b, a.ok, BaselineTypes \subseteq a.types
  PROVE  Compliance(a, b) = "CONFORMANT"
<1>1. \A r \in BaselineTypes : RuleStatus(r, a, b) = "CONFIRMED"
  BY DEF RuleStatus, Confirmed
<1>. QED
  BY <1>1 DEF Compliance

\* Classic protection confirms the rules it enforces and no other.
LEMMA ClassicSound ==
  ASSUME NEW c \in Classics, NEW r \in BaselineTypes
  PROVE  ClassicConfirms(r, c) = "CONFIRMED" <=> r \in ClassicEnforced(c)
BY DEF Classics, Switch, BaselineTypes, ClassicConfirms, ClassicEnforced

\* A ruleset that _is_compatible accepts does enforce the whole baseline on
\* the default branch: leaving it alone is as good as creating the payload.
THEOREM CompatibleEnforces ==
  ASSUME NEW rs, Compatible(rs)
  PROVE  BaselineTypes \subseteq Enforced(rs)
BY DEF Compatible, Enforced

LEMMA PayloadEnforces == Payload \in Rulesets /\ BaselineTypes \subseteq Enforced(Payload)
<1> DEFINE rules == <<[type |-> "deletion", reviews |-> 0],
                      [type |-> "non_fast_forward", reviews |-> 0],
                      [type |-> "pull_request", reviews |-> 0]>>
<1>1. rules \in Seq(Rules)
  BY DEF Rules, RuleTypes, BaselineTypes
<1>2. /\ DOMAIN rules = 1..3
      /\ rules[1].type = "deletion"
      /\ rules[2].type = "non_fast_forward"
      /\ rules[3].type = "pull_request"
  OBVIOUS
<1>3. Payload.rules = rules
  BY DEF Payload
<1>4. BaselineTypes \subseteq TypesOf(Payload)
  <2>1. 1 \in DOMAIN rules /\ 2 \in DOMAIN rules /\ 3 \in DOMAIN rules
    BY <1>2
  <2>. HIDE DEF rules
  <2>. QED
    BY <2>1, <1>2, <1>3 DEF TypesOf, BaselineTypes
<1>5. Payload \in Rulesets
  BY <1>1 DEF Payload, Rulesets
<1>6. Enforced(Payload) = TypesOf(Payload)
  <2>1. /\ Payload.target = "branch" /\ Payload.enforcement = "active"
        /\ Payload.includes_default /\ Payload.exclude # "default"
    BY DEF Payload
  <2>. QED
    BY <2>1 DEF Enforced
<1>. QED
  BY <1>4, <1>5, <1>6

LEMMA EnforcedByOne ==
  ASSUME NEW R, NEW i \in Ids, R[i] # Null
  PROVE  Enforced(R[i]) \subseteq ByRulesets(R)
BY DEF ByRulesets

-----------------------------------------------------------------------------
(* A run is touched by its own steps and through the repository only.      *)

LEMMA Unmoved ==
  ASSUME NEW q \in Runs, RunOK(q),
         frame'[q] = frame[q], seen'[q] = seen[q],
         calm'[q] = calm[q], clean'[q] = clean[q],
         rulesets' = rulesets, classic' = classic
  PROVE  RunOK(q)'
BY DEF RunOK, ReadsOK, WritesOK, AnswerOK, Reserved, Present, Blocked

\* Whoever else changes the protection: what the run has read stays
\* witnessed, and every promise that needs calm is off.
LEMMA Disturbed ==
  ASSUME NEW q \in Runs, RunOK(q),
         frame'[q] = frame[q], clean'[q] = clean[q], ~ calm'[q],
         seen'[q] = seen[q] \cup InForce(rulesets', classic')
  PROVE  RunOK(q)'
<1>1. ReadsOK(q)'
  BY DEF RunOK, ReadsOK
<1>2. WritesOK(q)'
  BY DEF RunOK, WritesOK
<1>3. AnswerOK(q)'
  BY DEF RunOK, AnswerOK
<1>. QED
  BY <1>1, <1>2, <1>3 DEF RunOK

\* A step of run p that leaves the repository alone.
LEMMA LocalStep ==
  ASSUME NEW p \in Runs, NEW f, IInv, Move(p, f), RunOK(p)',
         rulesets' = rulesets, classic' = classic,
         \A q \in Runs : q # p => /\ seen'[q] = seen[q]
                                  /\ calm'[q] = calm[q]
                                  /\ clean'[q] = clean[q]
  PROVE  \A q \in Runs : RunOK(q)'
<1> SUFFICES ASSUME NEW q \in Runs PROVE RunOK(q)'
  OBVIOUS
<1>1. CASE q = p
  BY <1>1
<1>2. CASE q # p
  <2>1. frame'[q] = frame[q]
    BY <1>2 DEF Move, IInv, TypeOK
  <2>. QED
    BY <1>2, <2>1, Unmoved DEF IInv
<1>. QED
  BY <1>1, <1>2

\* A step of run p that creates the baseline ruleset.
LEMMA CreatingStep ==
  ASSUME NEW p \in Runs, NEW f, NEW i \in Ids, IInv, Move(p, f), Created(p, i), RunOK(p)',
         \A q \in Runs : q # p => clean'[q] = clean[q]
  PROVE  \A q \in Runs : RunOK(q)'
<1> SUFFICES ASSUME NEW q \in Runs PROVE RunOK(q)'
  OBVIOUS
<1>1. CASE q = p
  BY <1>1
<1>2. CASE q # p
  <2>1. frame'[q] = frame[q]
    BY <1>2 DEF Move, IInv, TypeOK
  <2>2. ~ calm'[q] /\ seen'[q] = seen[q] \cup InForce(rulesets', classic')
    BY <1>2 DEF Created, Changed
  <2>. QED
    BY <1>2, <2>1, <2>2, Disturbed DEF IInv
<1>. QED
  BY <1>1, <1>2

-----------------------------------------------------------------------------
(* Types.                                                                  *)

LEMMA FrameTyping ==
  ASSUME TypeOK, NEW p \in Runs
  PROVE  /\ frame[p] \in Frames
         /\ frame[p].mode \in Modes /\ frame[p].a \in SourceA
         /\ frame[p].round \in {1, 2} /\ frame[p].check \in Answers
         /\ frame[p].consent \in BOOLEAN
         /\ seen[p] \subseteq BaselineTypes
         /\ calm[p] \in BOOLEAN /\ clean[p] \in BOOLEAN
BY DEF TypeOK, Frames

LEMMA ExitType ==
  ASSUME NEW m, NEW c
  PROVE  Exit(m, c) \in 0..2
BY DEF Exit, Code

LEMMA FreshType == Fresh \in Frames
<1>1. Status \in Modes
  BY DEF Status, Modes
<1>2. Unread \in SourceA
  BY DEF Unread, SourceA
<1>3. "idle" \in Labels /\ "none" \in Answers
  BY DEF Labels, Answers
<1>. QED
  BY <1>1, <1>2, <1>3 DEF Fresh, Frames

LEMMA InForceType == \A R, c : InForce(R, c) \subseteq BaselineTypes
BY DEF InForce

LEMMA RuleTyping ==
  ASSUME NEW s \in Seq(Rules), NEW k \in DOMAIN s
  PROVE  s[k].type \in RuleTypes
<1>1. s[k] \in Rules
  OBVIOUS
<1>. QED
  BY <1>1 DEF Rules

\* The rules GitHub lists for the branch have the types that exist.
LEMMA ByRulesetsType ==
  ASSUME NEW R \in [Ids -> Rulesets \cup {Null}]
  PROVE  ByRulesets(R) \subseteq RuleTypes
<1>1. ASSUME NEW i \in Ids, R[i] # Null
      PROVE  Enforced(R[i]) \subseteq RuleTypes
  <2>1. R[i] \in Rulesets
    BY <1>1
  <2>2. R[i].rules \in Seq(Rules)
    BY <2>1 DEF Rulesets
  <2>3. \A k \in DOMAIN R[i].rules : R[i].rules[k].type \in RuleTypes
    BY <2>2, RuleTyping
  <2>. QED
    BY <2>3 DEF Enforced, TypesOf
<1>. QED
  BY <1>1 DEF ByRulesets

\* A run that ends, goes on, or changes one field, has a frame still.
LEMMA MoveTyping ==
  ASSUME TypeOK, NEW p \in Runs, NEW f \in Frames, Move(p, f)
  PROVE  frame' \in [Runs -> Frames]
BY DEF TypeOK, Move

LEMMA GotoTyping ==
  ASSUME TypeOK, NEW p \in Runs, NEW l \in Labels, Goto(p, l)
  PROVE  frame' \in [Runs -> Frames]
<1>1. [frame[p] EXCEPT !.pc = l] \in Frames
  BY FrameTyping DEF Frames
<1>. QED
  BY <1>1, MoveTyping DEF Goto

LEMMA AnswerTyping ==
  ASSUME TypeOK, NEW p \in Runs, NEW c \in Answers, Answer(p, c)
  PROVE  frame' \in [Runs -> Frames]
<1> DEFINE x == Exit(frame[p].mode, c)
<1>1. x \in 0..2
  BY ExitType
<1>2. "done" \in Labels
  BY DEF Labels
<1>3. Move(p, [frame[p] EXCEPT !.pc = "done", !.answer = c, !.exit = x])
  BY DEF Answer
<1>. HIDE DEF x
<1>4. [frame[p] EXCEPT !.pc = "done", !.answer = c, !.exit = x] \in Frames
  BY <1>1, <1>2, FrameTyping DEF Frames
<1>. QED
  BY <1>3, <1>4, MoveTyping

LEMMA EvaluateTyping ==
  ASSUME TypeOK, NEW p \in Runs, NEW b, Evaluate(p, b)
  PROVE  frame' \in [Runs -> Frames]
<1> DEFINE c == Compliance(frame[p].a, b)
<1>1. c \in Answers
  BY ComplianceType DEF Answers
<1>2. \/ Answer(p, c)
      \/ Move(p, [frame[p] EXCEPT !.pc = "decide", !.check = c])
  BY DEF Evaluate
<1>. HIDE DEF c
<1>3. "decide" \in Labels
  BY DEF Labels
<1>4. [frame[p] EXCEPT !.pc = "decide", !.check = c] \in Frames
  BY <1>1, <1>3, FrameTyping DEF Frames
<1>. QED
  BY <1>1, <1>2, <1>4, MoveTyping, AnswerTyping

LEMMA ReinspectTyping ==
  ASSUME TypeOK, NEW p \in Runs, Reinspect(p)
  PROVE  frame' \in [Runs -> Frames]
<1>1. "rules" \in Labels
  BY DEF Labels
<1>2. [frame[p] EXCEPT !.pc = "rules", !.round = 2] \in Frames
  BY <1>1, FrameTyping DEF Frames
<1>. QED
  BY <1>2, MoveTyping DEF Reinspect

\* The history variables keep their types.
LEMMA NoteTyping ==
  ASSUME TypeOK, NEW p \in Runs
  PROVE  /\ Fails(p) => clean' \in [Runs -> BOOLEAN]
         /\ calm' = [calm EXCEPT ![p] = FALSE] => calm' \in [Runs -> BOOLEAN]
         /\ seen' = [seen EXCEPT ![p] = InForce(rulesets, classic)]
              => seen' \in [Runs -> SUBSET BaselineTypes]
<1>1. InForce(rulesets, classic) \in SUBSET BaselineTypes
  BY InForceType
<1>. QED
  BY <1>1 DEF TypeOK, Fails

LEMMA ChangedTyping ==
  ASSUME TypeOK, NEW p, Changed(p)
  PROVE  seen' \in [Runs -> SUBSET BaselineTypes] /\ calm' \in [Runs -> BOOLEAN]
<1>1. InForce(rulesets', classic') \in SUBSET BaselineTypes
  BY InForceType
<1>2. \A q \in Runs : seen[q] \cup InForce(rulesets', classic') \in SUBSET BaselineTypes
  BY <1>1 DEF TypeOK
<1>3. \A q \in Runs : (calm[q] /\ q = p) \in BOOLEAN
  OBVIOUS
<1>. QED
  BY <1>2, <1>3 DEF Changed

LEMMA CreatedTyping ==
  ASSUME TypeOK, NEW p, NEW i \in Ids, Created(p, i)
  PROVE  /\ rulesets' \in [Ids -> Rulesets \cup {Null}]
         /\ classic' \in Classics \cup {Null}
         /\ edits' \in 0..MaxEdits
         /\ seen' \in [Runs -> SUBSET BaselineTypes] /\ calm' \in [Runs -> BOOLEAN]
<1>1. rulesets' \in [Ids -> Rulesets \cup {Null}]
  BY PayloadEnforces DEF Created, TypeOK
<1>. QED
  BY <1>1, ChangedTyping DEF Created, TypeOK

LEMMA TypeStart ==
  ASSUME TypeOK, NEW p \in Runs, NEW m \in Modes, Start(p, m)
  PROVE  TypeOK'
<1> DEFINE f == IF config' THEN [Fresh EXCEPT !.pc = "detect", !.mode = m]
                           ELSE [Fresh EXCEPT !.pc = "done", !.mode = m, !.exit = 2]
<1>1. f \in Frames
  <2>1. "detect" \in Labels /\ "done" \in Labels /\ 2 \in 0..2
    BY DEF Labels
  <2>2. [Fresh EXCEPT !.pc = "detect", !.mode = m] \in Frames
    BY <2>1, FreshType DEF Frames
  <2>3. [Fresh EXCEPT !.pc = "done", !.mode = m, !.exit = 2] \in Frames
    BY <2>1, FreshType DEF Frames
  <2>. QED
    BY <2>2, <2>3
<1>2. Move(p, f)
  BY DEF Start
<1>. HIDE DEF f
<1>3. frame' \in [Runs -> Frames]
  BY <1>1, <1>2, MoveTyping
<1>4. runs' \in 0..MaxRuns
  BY Bounds DEF TypeOK, Start
<1>5. config' \in BOOLEAN
  BY DEF TypeOK, Start
<1>6. calm' \in [Runs -> BOOLEAN] /\ clean' \in [Runs -> BOOLEAN]
  BY DEF TypeOK, Start
<1>7. UNCHANGED <<rulesets, classic, edits, seen>>
  BY DEF Start, Remote
<1>. QED
  BY <1>3, <1>4, <1>5, <1>6, <1>7 DEF TypeOK

\* Steps that leave the repository alone.
LEMMA TypeLocal ==
  ASSUME TypeOK, UNCHANGED <<Remote, Local>>,
         frame' \in [Runs -> Frames],
         seen' \in [Runs -> SUBSET BaselineTypes],
         calm' \in [Runs -> BOOLEAN], clean' \in [Runs -> BOOLEAN]
  PROVE  TypeOK'
BY DEF TypeOK, Remote, Local

LEMMA TypeStep ==
  ASSUME TypeOK, NEW p \in Runs, Step(p)
  PROVE  TypeOK'
<1>. "UNKNOWN" \in Answers /\ "rules" \in Labels /\ "list" \in Labels /\ "post" \in Labels
  BY DEF Answers, Labels
<1>0. /\ seen \in [Runs -> SUBSET BaselineTypes]
      /\ calm \in [Runs -> BOOLEAN] /\ clean \in [Runs -> BOOLEAN]
  BY DEF TypeOK
<1>1. CASE Detect(p)
  BY <1>0, <1>1, TypeLocal, GotoTyping DEF Detect, Noted
<1>2. CASE DetectFails(p)
  BY <1>0, <1>2, TypeLocal, AnswerTyping, NoteTyping DEF DetectFails, Noted
<1>3. CASE ReadRules(p)
  <2>1. [ok |-> TRUE, types |-> ByRulesets(rulesets)] \in SourceA /\ Unread \in SourceA
    BY ByRulesetsType DEF TypeOK, SourceA, Unread
  <2>2. "classic" \in Labels
    BY DEF Labels
  <2>3. PICK x \in SourceA : Move(p, [frame[p] EXCEPT !.pc = "classic", !.a = x])
    BY <1>3, <2>1 DEF ReadRules
  <2>4. [frame[p] EXCEPT !.pc = "classic", !.a = x] \in Frames
    BY <2>2, FrameTyping DEF Frames
  <2>5. frame' \in [Runs -> Frames]
    BY <2>3, <2>4, MoveTyping
  <2>6. clean' \in [Runs -> BOOLEAN]
    BY <1>0, <1>3, NoteTyping DEF ReadRules
  <2>7. seen' \in [Runs -> SUBSET BaselineTypes]
    BY <1>3, NoteTyping DEF ReadRules
  <2>. QED
    BY <1>0, <1>3, <2>5, <2>6, <2>7, TypeLocal DEF ReadRules
<1>4. CASE ReadClassic(p)
  BY <1>0, <1>4, TypeLocal, EvaluateTyping DEF ReadClassic, Noted
<1>5. CASE ClassicHidden(p)
  BY <1>0, <1>5, TypeLocal, EvaluateTyping, NoteTyping DEF ClassicHidden
<1>6. CASE ClassicUnread(p)
  BY <1>0, <1>6, TypeLocal, EvaluateTyping, NoteTyping DEF ClassicUnread, Noted
<1>7. CASE Decide(p)
  <2>1. [frame[p] EXCEPT !.pc = "list", !.consent = TRUE] \in Frames
    BY FrameTyping DEF Frames
  <2>2. frame' \in [Runs -> Frames]
    BY <1>7, <2>1, MoveTyping, GotoTyping, AnswerTyping, FrameTyping DEF Decide
  <2>. QED
    BY <1>0, <1>7, <2>2, TypeLocal DEF Decide, Noted
<1>8. CASE ListRulesets(p)
  <2>1. ASSUME NEW i \in Ids PROVE [frame[p] EXCEPT !.pc = "detail", !.candidate = i] \in Frames
    <3>1. "detail" \in Labels
      BY DEF Labels
    <3>. QED
      BY <3>1, FrameTyping DEF Frames
  <2>2. frame' \in [Runs -> Frames]
    <3>1. PICK page \in Pages :
            \/ Goto(p, "post")
            \/ \E i \in page \cap Reserved :
                 Move(p, [frame[p] EXCEPT !.pc = "detail", !.candidate = i])
            \/ Answer(p, "UNKNOWN")
      BY <1>8 DEF ListRulesets
    <3>2. Reserved \subseteq Ids
      BY DEF Reserved, Present
    <3>. QED
      BY <2>1, <3>1, <3>2, MoveTyping, GotoTyping, AnswerTyping
  <2>. QED
    BY <1>0, <1>8, <2>2, TypeLocal DEF ListRulesets, Noted
<1>9. CASE ListFails(p)
  BY <1>0, <1>9, TypeLocal, AnswerTyping, NoteTyping DEF ListFails, Noted
<1>10. CASE FetchDetail(p)
  <2>1. frame' \in [Runs -> Frames]
    BY <1>10, ReinspectTyping, AnswerTyping DEF FetchDetail
  <2>. QED
    BY <1>0, <1>10, <2>1, TypeLocal DEF FetchDetail, Noted
<1>11. CASE DetailUnusable(p)
  BY <1>0, <1>11, TypeLocal, AnswerTyping, NoteTyping DEF DetailUnusable, Noted
<1>12. CASE PostRuleset(p)
  <2>1. frame' \in [Runs -> Frames]
    BY <1>12, ReinspectTyping DEF PostRuleset
  <2>2. PICK i \in Ids : Created(p, i)
    BY <1>12 DEF PostRuleset
  <2>. QED
    BY <1>12, <2>1, <2>2, CreatedTyping DEF PostRuleset, Local, TypeOK
<1>13. CASE PostLost(p)
  <2>1. frame' \in [Runs -> Frames] /\ clean' \in [Runs -> BOOLEAN]
    BY <1>13, AnswerTyping, NoteTyping DEF PostLost
  <2>2. PICK i \in Ids : Created(p, i)
    BY <1>13 DEF PostLost
  <2>. QED
    BY <1>13, <2>1, <2>2, CreatedTyping DEF PostLost, Local, TypeOK
<1>14. CASE PostRefused(p)
  BY <1>0, <1>14, TypeLocal, AnswerTyping, NoteTyping DEF PostRefused, Noted
<1>. QED
  BY <1>1, <1>2, <1>3, <1>4, <1>5, <1>6, <1>7, <1>8, <1>9, <1>10, <1>11, <1>12, <1>13, <1>14
  DEF Step

\* An administrator's change.
LEMMA TypeEdit ==
  ASSUME TypeOK, EditRulesets \/ EditClassic
  PROVE  TypeOK'
<1>1. rulesets' \in [Ids -> Rulesets \cup {Null}] /\ classic' \in Classics \cup {Null}
  BY Repository DEF TypeOK, EditRulesets, EditClassic
<1>2. edits' \in 0..MaxEdits
  BY Bounds DEF TypeOK, EditRulesets, EditClassic
<1>3. Changed(Null)
  BY DEF EditRulesets, EditClassic
<1>4. UNCHANGED <<config, runs, frame, clean>>
  BY DEF EditRulesets, EditClassic, Local
<1>. QED
  BY <1>1, <1>2, <1>3, <1>4, ChangedTyping DEF TypeOK

LEMMA TypeKill ==
  ASSUME TypeOK, NEW p \in Runs, Kill(p)
  PROVE  TypeOK'
BY FreshType, MoveTyping DEF Kill, TypeOK, Remote, Local, Noted

LEMMA TypeInit == Init => TypeOK
<1> SUFFICES ASSUME Init PROVE TypeOK
  OBVIOUS
<1>1. rulesets \in [Ids -> Rulesets \cup {Null}] /\ classic \in Classics \cup {Null}
  BY Repository DEF Init
<1>2. frame \in [Runs -> Frames]
  BY FreshType DEF Init
<1>. QED
  BY <1>1, <1>2, Bounds DEF Init, TypeOK

-----------------------------------------------------------------------------
(* The run that moves keeps its own promises.                              *)

\* An answer has to be witnessed, and to be CONFORMANT after a clean apply.
LEMMA AnswerStep ==
  ASSUME TypeOK, NEW p \in Runs, NEW c, Answer(p, c),
         c = "CONFORMANT" => BaselineTypes \subseteq seen'[p],
         c = "NON_CONFORMANT" /\ calm'[p]
           => ~ (BaselineTypes \subseteq InForce(rulesets', classic')),
         (frame[p].mode.apply \/ frame[p].consent) /\ calm'[p] /\ clean'[p]
           => c = "CONFORMANT" \/ Blocked'
  PROVE  RunOK(p)'
<1> DEFINE f == [frame[p] EXCEPT !.pc = "done", !.answer = c, !.exit = Exit(frame[p].mode, c)]
<1>1. frame'[p] = f
  BY DEF Answer, Move, TypeOK
<1>2. /\ f.pc = "done" /\ f.answer = c
      /\ f.mode = frame[p].mode /\ f.consent = frame[p].consent
  BY FrameTyping DEF Frames
<1>. HIDE DEF f
<1>. QED
  BY <1>1, <1>2 DEF RunOK, ReadsOK, WritesOK, AnswerOK, Deciding, Writing, Inspecting

\* An answer other than UNKNOWN needs no failed call, and UNKNOWN promises nothing
\* after one.
LEMMA FailedStep ==
  ASSUME TypeOK, NEW p \in Runs, Answer(p, "UNKNOWN"), Fails(p)
  PROVE  RunOK(p)'
<1>1. ~ clean'[p]
  BY DEF Fails, TypeOK
<1>. QED
  BY <1>1, AnswerStep

\* The baseline is on the default branch when the second inspection begins.
LEMMA ReinspectStep ==
  ASSUME TypeOK, NEW p \in Runs, RunOK(p), Reinspect(p), frame[p].pc # "done",
         calm'[p] => BaselineTypes \subseteq ByRulesets(rulesets')
  PROVE  RunOK(p)'
<1> DEFINE f == [frame[p] EXCEPT !.pc = "rules", !.round = 2]
<1>1. frame'[p] = f
  BY DEF Reinspect, Move, TypeOK
<1>2. f.pc = "rules" /\ f.round = 2 /\ f.answer = frame[p].answer
  BY FrameTyping DEF Frames
<1>3. frame[p].answer = "none"
  BY DEF RunOK, AnswerOK
<1>. HIDE DEF f
<1>. QED
  BY <1>1, <1>2, <1>3 DEF RunOK, ReadsOK, WritesOK, AnswerOK, Deciding, Writing, Inspecting

\* The second answer and the first agree on what they were read from.
LEMMA EvaluateStep ==
  ASSUME IInv, NEW p \in Runs, NEW b \in SourceB, frame[p].pc = "classic", Evaluate(p, b),
         seen' = seen, rulesets' = rulesets, classic' = classic,
         calm'[p] => calm[p], clean'[p] => clean[p],
         b.status = "read" => classic # Null /\ b.data = classic,
         b.status = "404" /\ calm'[p] => classic = Null
  PROVE  RunOK(p)'
<1> DEFINE a == frame[p].a
           c == Compliance(a, b)
<1>1. TypeOK /\ ReadsOK(p) /\ WritesOK(p) /\ AnswerOK(p)
  BY DEF IInv, RunOK
<1>2. c = "CONFORMANT" => BaselineTypes \subseteq seen[p]
  <2>1. SUFFICES ASSUME c = "CONFORMANT", NEW r \in BaselineTypes PROVE r \in seen[p]
    OBVIOUS
  <2>2. Confirmed(r, a, b)
    BY <2>1, ConformantIsConfirmed
  <2>3. CASE a.ok /\ r \in a.types
    BY <1>1, <2>1, <2>3 DEF ReadsOK
  <2>4. CASE b.status = "read" /\ ClassicConfirms(r, b.data) = "CONFIRMED"
    <3>1. classic \in Classics /\ b.data = classic /\ classic # Null
      BY <1>1, <2>4 DEF TypeOK
    <3>2. r \in ClassicEnforced(classic)
      BY <2>4, <3>1, ClassicSound
    <3>3. r \in InForce(rulesets, classic)
      BY <3>1, <3>2 DEF InForce
    <3>. QED
      BY <1>1, <3>3 DEF ReadsOK
  <2>. QED
    BY <2>2, <2>3, <2>4 DEF Confirmed
<1>3. c = "NON_CONFORMANT" /\ calm'[p] => ~ (BaselineTypes \subseteq InForce(rulesets, classic))
  <2>1. SUFFICES ASSUME c = "NON_CONFORMANT", calm'[p]
                 PROVE \E r \in BaselineTypes : r \notin InForce(rulesets, classic)
    OBVIOUS
  <2>2. PICK r \in BaselineTypes : ~ Confirmed(r, a, b) /\ ~ Unreadable(r, a, b)
    BY <2>1, NonConformantIsMissing
  <2>3. a.ok /\ r \notin a.types
    BY <2>2 DEF Confirmed, Unreadable
  <2>4. a.types = ByRulesets(rulesets)
    BY <1>1, <2>1, <2>3 DEF ReadsOK
  <2>5. CASE b.status = "read"
    <3>1. classic \in Classics /\ b.data = classic /\ classic # Null
      BY <1>1, <2>5 DEF TypeOK
    <3>2. r \notin ClassicEnforced(classic)
      BY <2>2, <2>5, <3>1, ClassicSound DEF Confirmed
    <3>. QED
      BY <2>3, <2>4, <3>1, <3>2 DEF InForce
  <2>6. CASE b.status = "404"
    BY <2>1, <2>3, <2>4, <2>6 DEF InForce
  <2>7. CASE b.status = "unread"
    BY <2>2, <2>7 DEF Unreadable
  <2>. QED
    BY <2>5, <2>6, <2>7 DEF SourceB
<1>4. frame[p].round = 2 /\ calm'[p] /\ clean'[p] => c = "CONFORMANT"
  <2>1. SUFFICES ASSUME frame[p].round = 2, calm'[p], clean'[p] PROVE c = "CONFORMANT"
    OBVIOUS
  <2>2. a.ok /\ a.types = ByRulesets(rulesets)
    BY <1>1, <2>1 DEF ReadsOK
  <2>3. BaselineTypes \subseteq ByRulesets(rulesets)
    BY <1>1, <2>1 DEF WritesOK, Inspecting
  <2>. QED
    BY <2>2, <2>3, AllConfirmed
<1>5. frame[p].round = 1 => ~ frame[p].consent
  BY <1>1 DEF WritesOK, Inspecting
<1>6. frame[p].mode.entry = "status" => ~ frame[p].mode.apply
  BY <1>1, FrameTyping DEF Modes
<1>7. c \in {"CONFORMANT", "NON_CONFORMANT", "UNKNOWN"}
  BY ComplianceType
<1>8. frame[p].round \in {1, 2}
  BY <1>1, FrameTyping
<1>9. CASE /\ frame[p].mode.entry = "status" \/ frame[p].round = 2 \/ c = "CONFORMANT"
           /\ Answer(p, c)
  <2>1. (frame[p].mode.apply \/ frame[p].consent) /\ calm'[p] /\ clean'[p]
          => c = "CONFORMANT"
    BY <1>4, <1>5, <1>6, <1>8, <1>9
  <2>. HIDE DEF c
  <2>. QED
    BY <1>1, <1>2, <1>3, <1>9, <2>1, AnswerStep
<1>10. CASE /\ frame[p].round # 2 /\ c # "CONFORMANT"
            /\ Move(p, [frame[p] EXCEPT !.pc = "decide", !.check = c])
  <2> DEFINE f == [frame[p] EXCEPT !.pc = "decide", !.check = c]
  <2>1. frame'[p] = f
    BY <1>1, <1>10 DEF Move, TypeOK
  <2>2. /\ f.pc = "decide" /\ f.check = c /\ f.round = frame[p].round
        /\ f.consent = frame[p].consent /\ f.answer = frame[p].answer
    BY <1>1, FrameTyping DEF Frames
  <2>3. f.round = 1 /\ f.answer = "none" /\ ~ f.consent
    BY <1>1, <1>5, <1>8, <1>10, <2>2 DEF AnswerOK
  <2>4. f.check \in {"NON_CONFORMANT", "UNKNOWN"}
    BY <1>7, <1>10, <2>2
  <2>. HIDE DEF f, c
  <2>. QED
    BY <1>3, <2>1, <2>2, <2>3, <2>4
    DEF RunOK, ReadsOK, WritesOK, AnswerOK, Deciding, Writing, Inspecting
<1>. QED
  BY <1>9, <1>10 DEF Evaluate

-----------------------------------------------------------------------------
(* Every step keeps every run's promises.                                  *)

LEMMA RunsStart ==
  ASSUME IInv, NEW p \in Runs, NEW m \in Modes, Start(p, m)
  PROVE  \A q \in Runs : RunOK(q)'
<1> DEFINE f == IF config' THEN [Fresh EXCEPT !.pc = "detect", !.mode = m]
                           ELSE [Fresh EXCEPT !.pc = "done", !.mode = m, !.exit = 2]
<1>1. Move(p, f)
  BY DEF Start
<1>2. frame'[p] = f
  BY <1>1 DEF Move, IInv, TypeOK
<1>3. f.pc \in {"detect", "done"} /\ f.answer = "none" /\ f.consent = FALSE /\ f.round = 1
  BY DEF Fresh
<1>. HIDE DEF f
<1>4. RunOK(p)'
  BY <1>2, <1>3 DEF RunOK, ReadsOK, WritesOK, AnswerOK, Deciding, Writing, Inspecting
<1>. QED
  BY <1>1, <1>4, LocalStep DEF Start, Remote, IInv, TypeOK

\* Detect and DetectFails.
LEMMA RunsDetect ==
  ASSUME IInv, NEW p \in Runs, Detect(p) \/ DetectFails(p)
  PROVE  \A q \in Runs : RunOK(q)'
<1>. TypeOK /\ RunOK(p)
  BY DEF IInv
<1>1. rulesets' = rulesets /\ classic' = classic /\ seen' = seen /\ calm' = calm
  BY DEF Detect, DetectFails, Remote, Noted
<1>2. \A q \in Runs : q # p => clean'[q] = clean[q]
  BY DEF Detect, DetectFails, Fails, TypeOK
<1>3. CASE Detect(p)
  <2> DEFINE f == [frame[p] EXCEPT !.pc = "rules"]
  <2>1. Move(p, f)
    BY <1>3 DEF Detect, Goto
  <2>2. frame'[p] = f
    BY <2>1 DEF Move, TypeOK
  <2>3. f.pc = "rules" /\ f.answer = frame[p].answer /\ f.consent = frame[p].consent
        /\ f.round = frame[p].round
    BY FrameTyping DEF Frames
  <2>4. f.answer = "none" /\ f.consent = FALSE
    BY <1>3, <2>3, FrameTyping DEF Detect, RunOK, AnswerOK, WritesOK
  <2>. HIDE DEF f
  <2>5. f.round = 1
    BY <1>3, <2>3 DEF Detect, RunOK, WritesOK
  <2>6. RunOK(p)'
    BY <2>2, <2>3, <2>4, <2>5
    DEF RunOK, ReadsOK, WritesOK, AnswerOK, Deciding, Writing, Inspecting
  <2>. QED
    BY <1>1, <1>2, <2>1, <2>6, LocalStep
<1>4. CASE DetectFails(p)
  <2>1. RunOK(p)'
    BY <1>4, FailedStep DEF DetectFails
  <2>. QED
    BY <1>1, <1>2, <1>4, <2>1, LocalStep DEF DetectFails, Answer
<1>. QED
  BY <1>3, <1>4

LEMMA RunsReadRules ==
  ASSUME IInv, NEW p \in Runs, ReadRules(p)
  PROVE  \A q \in Runs : RunOK(q)'
<1>. TypeOK /\ RunOK(p)
  BY DEF IInv
<1>1. PICK x \in {[ok |-> TRUE, types |-> ByRulesets(rulesets)], Unread} :
        /\ Move(p, [frame[p] EXCEPT !.pc = "classic", !.a = x])
        /\ x.ok \/ Fails(p)
        /\ Fails(p) \/ clean' = clean
  BY DEF ReadRules
<1> DEFINE f == [frame[p] EXCEPT !.pc = "classic", !.a = x]
<1>2. frame'[p] = f
  BY <1>1 DEF Move, TypeOK
<1>3. /\ f.pc = "classic" /\ f.a = x /\ f.answer = frame[p].answer
      /\ f.consent = frame[p].consent /\ f.round = frame[p].round
  BY FrameTyping DEF Frames
<1>4. f.answer = "none" /\ (f.round = 1 => ~ f.consent)
  BY <1>3 DEF ReadRules, RunOK, AnswerOK, WritesOK, Inspecting
<1>5. x.ok => x.types = ByRulesets(rulesets)
  BY <1>1 DEF Unread
<1>6. clean'[p] => x.ok
  BY <1>1 DEF Fails, TypeOK
<1>7. seen'[p] = InForce(rulesets, classic)
  BY DEF ReadRules, TypeOK
<1>8. rulesets' = rulesets /\ classic' = classic /\ calm' = calm
  BY DEF ReadRules, Remote
<1>9. ByRulesets(rulesets) \cap BaselineTypes \subseteq InForce(rulesets, classic)
  BY DEF InForce
<1>10. f.round = 2 /\ calm[p] => BaselineTypes \subseteq ByRulesets(rulesets)
  BY <1>3 DEF ReadRules, RunOK, WritesOK, Inspecting
<1>. HIDE DEF f
<1>11. RunOK(p)'
  <2>1. ReadsOK(p)'
    BY <1>2, <1>3, <1>5, <1>6, <1>7, <1>8, <1>9 DEF ReadsOK
  <2>2. WritesOK(p)'
    BY <1>2, <1>3, <1>4, <1>8, <1>10 DEF WritesOK, Deciding, Writing, Inspecting
  <2>3. AnswerOK(p)'
    BY <1>2, <1>3, <1>4 DEF AnswerOK
  <2>. QED
    BY <2>1, <2>2, <2>3 DEF RunOK
<1>12. \A q \in Runs : q # p => clean'[q] = clean[q] /\ seen'[q] = seen[q]
  BY <1>1 DEF ReadRules, Fails, TypeOK
<1>. QED
  BY <1>1, <1>8, <1>11, <1>12, LocalStep

\* ReadClassic, ClassicHidden, ClassicUnread.
LEMMA RunsReadClassic ==
  ASSUME IInv, NEW p \in Runs, ReadClassic(p) \/ ClassicHidden(p) \/ ClassicUnread(p)
  PROVE  \A q \in Runs : RunOK(q)'
<1>. TypeOK
  BY DEF IInv
<1>1. frame[p].pc = "classic"
  BY DEF ReadClassic, ClassicHidden, ClassicUnread
<1>2. rulesets' = rulesets /\ classic' = classic /\ seen' = seen
  BY DEF ReadClassic, ClassicHidden, ClassicUnread, Remote, Noted
<1>3. \A q \in Runs : q # p => calm'[q] = calm[q] /\ clean'[q] = clean[q]
  BY DEF ReadClassic, ClassicHidden, ClassicUnread, Noted, Fails, TypeOK
<1>4. (calm'[p] => calm[p]) /\ (clean'[p] => clean[p])
  BY DEF ReadClassic, ClassicHidden, ClassicUnread, Noted, Fails, TypeOK
<1>5. NoClassic \in Classics
  BY DEF NoClassic, Classics, Switch
<1>6. NotFound \in SourceB /\ NotFound.status = "404"
  BY <1>5 DEF NotFound, SourceB
<1>7. UnreadB \in SourceB /\ UnreadB.status = "unread"
  BY <1>5 DEF UnreadB, SourceB
<1>8. PICK b \in SourceB :
        /\ Evaluate(p, b)
        /\ b.status = "read" => classic # Null /\ b.data = classic
        /\ b.status = "404" /\ calm'[p] => classic = Null
  <2>1. CASE ReadClassic(p) /\ classic = Null
    BY <1>6, <2>1 DEF ReadClassic
  <2>2. CASE ReadClassic(p) /\ classic # Null
    <3>1. [status |-> "read", data |-> classic] \in SourceB
      BY <2>2 DEF SourceB, TypeOK
    <3>. QED
      BY <2>2, <3>1 DEF ReadClassic
  <2>3. CASE ClassicHidden(p)
    BY <1>6, <2>3 DEF ClassicHidden, TypeOK
  <2>4. CASE ClassicUnread(p)
    BY <1>7, <2>4 DEF ClassicUnread
  <2>. QED
    BY <2>1, <2>2, <2>3, <2>4
<1>9. RunOK(p)'
  BY <1>1, <1>2, <1>4, <1>8, EvaluateStep
<1>10. PICK f : Move(p, f)
  BY <1>8 DEF Evaluate, Answer
<1>. QED
  BY <1>2, <1>3, <1>9, <1>10, LocalStep

LEMMA RunsDecide ==
  ASSUME IInv, NEW p \in Runs, Decide(p)
  PROVE  \A q \in Runs : RunOK(q)'
<1>. TypeOK /\ ReadsOK(p) /\ WritesOK(p) /\ AnswerOK(p)
  BY DEF IInv, RunOK
<1>1. /\ rulesets' = rulesets /\ classic' = classic
      /\ seen' = seen /\ calm' = calm /\ clean' = clean
  BY DEF Decide, Remote, Noted
<1>2. /\ frame[p].pc = "decide" /\ frame[p].answer = "none" /\ frame[p].consent = FALSE
      /\ frame[p].round = 1 /\ frame[p].check \in {"NON_CONFORMANT", "UNKNOWN"}
  BY FrameTyping DEF Decide, AnswerOK, WritesOK, Deciding
<1>3. CASE ~ frame[p].mode.apply /\ Answer(p, frame[p].check)
  <2>1. RunOK(p)'
    BY <1>1, <1>2, <1>3, AnswerStep DEF ReadsOK
  <2>. QED
    BY <1>1, <1>3, <2>1, LocalStep DEF Answer
<1>4. ASSUME NEW f, Move(p, f), f.pc = "list", f.round = 1, f.check = frame[p].check,
             f.answer = "none", f.mode = frame[p].mode, f.mode.apply \/ f.consent
      PROVE  \A q \in Runs : RunOK(q)'
  <2>1. frame'[p] = f
    BY <1>4 DEF Move, TypeOK
  <2>2. RunOK(p)'
    BY <1>2, <1>4, <2>1
    DEF RunOK, ReadsOK, WritesOK, AnswerOK, Deciding, Writing, Inspecting
  <2>. QED
    BY <1>1, <1>4, <2>2, LocalStep
<1>5. CASE frame[p].mode.apply /\ Goto(p, "list")
  <2> DEFINE f == [frame[p] EXCEPT !.pc = "list"]
  <2>1. /\ f.pc = "list" /\ f.round = frame[p].round /\ f.check = frame[p].check
        /\ f.answer = frame[p].answer /\ f.mode = frame[p].mode
    BY FrameTyping DEF Frames
  <2>2. Move(p, f)
    BY <1>5 DEF Goto
  <2>. HIDE DEF f
  <2>. QED
    BY <1>2, <1>4, <1>5, <2>1, <2>2
<1>6. CASE Move(p, [frame[p] EXCEPT !.pc = "list", !.consent = TRUE])
  <2> DEFINE f == [frame[p] EXCEPT !.pc = "list", !.consent = TRUE]
  <2>1. /\ f.pc = "list" /\ f.round = frame[p].round /\ f.check = frame[p].check
        /\ f.answer = frame[p].answer /\ f.mode = frame[p].mode /\ f.consent
    BY FrameTyping DEF Frames
  <2>2. Move(p, f)
    BY <1>6
  <2>. HIDE DEF f
  <2>. QED
    BY <1>2, <1>4, <2>1, <2>2
<1>. QED
  BY <1>3, <1>5, <1>6 DEF Decide

LEMMA RunsList ==
  ASSUME IInv, NEW p \in Runs, ListRulesets(p)
  PROVE  \A q \in Runs : RunOK(q)'
<1>. TypeOK /\ ReadsOK(p) /\ WritesOK(p) /\ AnswerOK(p)
  BY DEF IInv, RunOK
<1>1. /\ rulesets' = rulesets /\ classic' = classic
      /\ seen' = seen /\ calm' = calm /\ clean' = clean
  BY DEF ListRulesets, Remote, Noted
<1>2. /\ frame[p].pc = "list" /\ frame[p].answer = "none" /\ frame[p].round = 1
      /\ frame[p].check \in {"NON_CONFORMANT", "UNKNOWN"}
      /\ frame[p].mode.apply \/ frame[p].consent
  BY FrameTyping DEF ListRulesets, AnswerOK, WritesOK, Deciding, Writing
<1>3. PICK page \in Pages :
        \/ page \cap Reserved = {} /\ Goto(p, "post")
        \/ \E i \in page \cap Reserved :
             Move(p, [frame[p] EXCEPT !.pc = "detail", !.candidate = i])
        \/ Cardinality(page \cap Reserved) > 1 /\ Answer(p, "UNKNOWN")
  BY DEF ListRulesets
<1>4. CASE page \cap Reserved = {} /\ Goto(p, "post")
  <2> DEFINE f == [frame[p] EXCEPT !.pc = "post"]
  <2>1. /\ f.pc = "post" /\ f.round = frame[p].round /\ f.check = frame[p].check
        /\ f.answer = frame[p].answer /\ f.mode = frame[p].mode /\ f.consent = frame[p].consent
    BY FrameTyping DEF Frames
  <2>2. Move(p, f)
    BY <1>4 DEF Goto
  <2>3. frame'[p] = f
    BY <2>2 DEF Move, TypeOK
  <2>4. Cardinality(Present) <= PageSize => Reserved = {}
    <3>1. Cardinality(Present) <= PageSize => page = Present
      BY DEF Pages
    <3>. QED
      BY <1>4, <3>1 DEF Reserved
  <2>5. Cardinality(Present)' <= PageSize => Reserved' = {}
    BY <1>1, <2>4 DEF Present, Reserved
  <2>. HIDE DEF f
  <2>6. RunOK(p)'
    BY <1>1, <1>2, <2>1, <2>3, <2>5
    DEF RunOK, ReadsOK, WritesOK, AnswerOK, Deciding, Writing, Inspecting
  <2>. QED
    BY <1>1, <2>2, <2>6, LocalStep
<1>5. CASE \E i \in page \cap Reserved :
             Move(p, [frame[p] EXCEPT !.pc = "detail", !.candidate = i])
  <2>1. PICK i \in Reserved : Move(p, [frame[p] EXCEPT !.pc = "detail", !.candidate = i])
    BY <1>5
  <2> DEFINE f == [frame[p] EXCEPT !.pc = "detail", !.candidate = i]
  <2>2. /\ f.pc = "detail" /\ f.round = frame[p].round /\ f.check = frame[p].check
        /\ f.answer = frame[p].answer /\ f.mode = frame[p].mode /\ f.consent = frame[p].consent
        /\ f.candidate = i
    BY FrameTyping DEF Frames
  <2>3. frame'[p] = f
    BY <2>1 DEF Move, TypeOK
  <2>4. i \in Ids /\ i \in Reserved'
    BY <1>1 DEF Reserved, Present
  <2>. HIDE DEF f
  <2>5. RunOK(p)'
    BY <1>1, <1>2, <2>2, <2>3, <2>4
    DEF RunOK, ReadsOK, WritesOK, AnswerOK, Deciding, Writing, Inspecting
  <2>6. Move(p, f)
    BY <2>1 DEF f
  <2>. QED
    BY <1>1, <2>5, <2>6, LocalStep
<1>6. CASE Cardinality(page \cap Reserved) > 1 /\ Answer(p, "UNKNOWN")
  <2>1. IsFiniteSet(Reserved)
    BY Identifiers, FS_Subset DEF Reserved, Present
  <2>2. Cardinality(page \cap Reserved) <= Cardinality(Reserved)
    BY <2>1, FS_Subset
  <2>3. /\ Cardinality(Reserved) \in Nat /\ Cardinality(page \cap Reserved) \in Nat
    BY <2>1, FS_Subset, FS_CardinalityType
  <2>4. Blocked
    BY <1>6, <2>2, <2>3 DEF Blocked
  <2>5. Blocked'
    BY <1>1, <2>4 DEF Blocked, Reserved, Present
  <2>6. RunOK(p)'
    BY <1>6, <2>5, AnswerStep
  <2>. QED
    BY <1>1, <1>6, <2>6, LocalStep DEF Answer
<1>. QED
  BY <1>3, <1>4, <1>5, <1>6

LEMMA RunsFetchDetail ==
  ASSUME IInv, NEW p \in Runs, FetchDetail(p)
  PROVE  \A q \in Runs : RunOK(q)'
<1>. TypeOK /\ RunOK(p)
  BY DEF IInv
<1> DEFINE i == frame[p].candidate
<1>1. /\ rulesets' = rulesets /\ classic' = classic
      /\ seen' = seen /\ calm' = calm /\ clean' = clean
  BY DEF FetchDetail, Remote, Noted
<1>2. i \in Ids /\ rulesets[i] # Null /\ frame[p].pc = "detail" /\ (calm[p] => i \in Reserved)
  BY DEF FetchDetail, RunOK, WritesOK
<1>3. CASE Compatible(rulesets[i]) /\ Reinspect(p)
  <2>1. BaselineTypes \subseteq ByRulesets(rulesets)
    BY <1>2, <1>3, CompatibleEnforces, EnforcedByOne
  <2>2. RunOK(p)'
    BY <1>1, <1>2, <1>3, <2>1, ReinspectStep
  <2>. QED
    BY <1>1, <1>3, <2>2, LocalStep DEF Reinspect
<1>4. CASE ~ Compatible(rulesets[i]) /\ Answer(p, "UNKNOWN")
  <2>1. calm'[p] => Blocked
    BY <1>1, <1>2, <1>4 DEF Blocked
  <2>2. calm'[p] => Blocked'
    BY <1>1, <2>1 DEF Blocked, Reserved, Present
  <2>3. RunOK(p)'
    BY <1>4, <2>2, AnswerStep
  <2>. QED
    BY <1>1, <1>4, <2>3, LocalStep DEF Answer
<1>. QED
  BY <1>3, <1>4 DEF FetchDetail

\* The calls of ensure_governance_baseline that fail without an effect.
LEMMA RunsFail ==
  ASSUME IInv, NEW p \in Runs, ListFails(p) \/ DetailUnusable(p) \/ PostRefused(p)
  PROVE  \A q \in Runs : RunOK(q)'
<1>. TypeOK
  BY DEF IInv
<1>1. /\ rulesets' = rulesets /\ classic' = classic /\ seen' = seen /\ calm' = calm
      /\ Answer(p, "UNKNOWN") /\ Fails(p)
  BY DEF ListFails, DetailUnusable, PostRefused, Remote, Noted
<1>2. \A q \in Runs : q # p => clean'[q] = clean[q]
  BY <1>1 DEF Fails, TypeOK
<1>3. RunOK(p)'
  BY <1>1, FailedStep
<1>. QED
  BY <1>1, <1>2, <1>3, LocalStep DEF Answer

LEMMA RunsPost ==
  ASSUME IInv, NEW p \in Runs, PostRuleset(p) \/ PostLost(p)
  PROVE  \A q \in Runs : RunOK(q)'
<1>. TypeOK /\ RunOK(p)
  BY DEF IInv
<1>1. PICK i \in Ids : Created(p, i)
  BY DEF PostRuleset, PostLost
<1>2. frame[p].pc = "post"
  BY DEF PostRuleset, PostLost
<1>3. BaselineTypes \subseteq ByRulesets(rulesets')
  <2>1. rulesets'[i] = Payload /\ Payload # Null
    BY <1>1, PayloadEnforces, Repository DEF Created, TypeOK
  <2>. QED
    BY <2>1, PayloadEnforces, EnforcedByOne
<1>4. CASE PostRuleset(p)
  <2>1. RunOK(p)'
    BY <1>2, <1>3, <1>4, ReinspectStep DEF PostRuleset
  <2>2. clean' = clean
    BY <1>4 DEF PostRuleset
  <2>. QED
    BY <1>1, <1>4, <2>1, <2>2, CreatingStep DEF PostRuleset, Reinspect
<1>5. CASE PostLost(p)
  <2>1. RunOK(p)'
    BY <1>5, FailedStep DEF PostLost
  <2>2. \A q \in Runs : q # p => clean'[q] = clean[q]
    BY <1>5 DEF PostLost, Fails, TypeOK
  <2>. QED
    BY <1>1, <1>5, <2>1, <2>2, CreatingStep DEF PostLost, Answer
<1>. QED
  BY <1>4, <1>5

LEMMA RunsKill ==
  ASSUME IInv, NEW p \in Runs, Kill(p)
  PROVE  \A q \in Runs : RunOK(q)'
<1>1. frame'[p] = Fresh
  BY DEF Kill, Move, IInv, TypeOK
<1>2. Fresh.pc = "idle" /\ Fresh.answer = "none"
  BY DEF Fresh
<1>3. RunOK(p)'
  BY <1>1, <1>2 DEF RunOK, ReadsOK, WritesOK, AnswerOK, Deciding, Writing, Inspecting
<1>. QED
  BY <1>3, LocalStep DEF Kill, Remote, Noted

LEMMA RunsEdit ==
  ASSUME IInv, EditRulesets \/ EditClassic
  PROVE  \A q \in Runs : RunOK(q)'
<1> SUFFICES ASSUME NEW q \in Runs PROVE RunOK(q)'
  OBVIOUS
<1>1. Changed(Null) /\ frame' = frame /\ clean' = clean
  BY DEF EditRulesets, EditClassic
<1>2. ~ calm'[q] /\ seen'[q] = seen[q] \cup InForce(rulesets', classic')
  BY <1>1, Identifiers DEF Changed
<1>. QED
  BY <1>1, <1>2, Disturbed DEF IInv

-----------------------------------------------------------------------------
(* The theorems.                                                           *)

\* RunOK is an inductive invariant, together with the types.
THEOREM GovernanceInvariant == Spec => []IInv
<1>1. Init => IInv
  <2> SUFFICES ASSUME Init, NEW p \in Runs PROVE RunOK(p)
    BY TypeInit DEF IInv
  <2>1. frame[p] = Fresh
    BY DEF Init
  <2>2. Fresh.pc = "idle" /\ Fresh.answer = "none"
    BY DEF Fresh
  <2>. QED
    BY <2>1, <2>2 DEF RunOK, ReadsOK, WritesOK, AnswerOK, Deciding, Writing, Inspecting
<1>2. IInv /\ [Next]_vars => IInv'
  <2> SUFFICES ASSUME IInv, [Next]_vars PROVE IInv'
    OBVIOUS
  <2>. TypeOK
    BY DEF IInv
  <2>1. CASE \E p \in Runs : Step(p)
    <3>1. PICK p \in Runs : Step(p)
      BY <2>1
    <3>2. TypeOK'
      BY <3>1, TypeStep
    <3>3. \A q \in Runs : RunOK(q)'
      BY <3>1, RunsDetect, RunsReadRules, RunsReadClassic, RunsDecide, RunsList,
         RunsFetchDetail, RunsFail, RunsPost DEF Step
    <3>. QED
      BY <3>2, <3>3 DEF IInv
  <2>2. CASE \E p \in Runs : Kill(p)
    BY <2>2, TypeKill, RunsKill DEF IInv
  <2>3. CASE \E p \in Runs, m \in Modes : Start(p, m)
    BY <2>3, TypeStart, RunsStart DEF IInv
  <2>4. CASE EditRulesets \/ EditClassic
    BY <2>4, TypeEdit, RunsEdit DEF IInv
  <2>5. CASE UNCHANGED vars
    <3>1. TypeOK'
      BY <2>5 DEF TypeOK, vars
    <3>2. \A q \in Runs : RunOK(q)'
      BY <2>5, Unmoved DEF IInv, vars
    <3>. QED
      BY <3>1, <3>2 DEF IInv
  <2>. QED
    BY <2>1, <2>2, <2>3, <2>4, <2>5 DEF Next
<1>. QED
  BY <1>1, <1>2, PTL DEF Spec

\* Every variable of the runs, the repository and its history keeps its type.
THEOREM GovernanceTyping == Spec => []TypeOK
<1>1. IInv => TypeOK
  BY DEF IInv
<1>. QED
  BY <1>1, GovernanceInvariant, PTL

\* CONFORMANT is never said of a rule that was not in force at any moment of
\* the inspection, whatever fails and whoever edits.
THEOREM Conformant == Spec => []ConformantIsWitnessed
<1>1. IInv => ConformantIsWitnessed
  BY DEF IInv, RunOK, AnswerOK, ConformantIsWitnessed
<1>. QED
  BY <1>1, GovernanceInvariant, PTL

\* NON_CONFORMANT is never said of a protected repository nobody touches.
THEOREM NonConformant == Spec => []MissingIsWitnessed
<1>1. IInv => MissingIsWitnessed
  BY DEF IInv, RunOK, AnswerOK, MissingIsWitnessed
<1>. QED
  BY <1>1, GovernanceInvariant, PTL

\* An undisturbed apply whose calls are answered reaches the baseline.
THEOREM Apply == Spec => []ApplyWorks
<1>1. IInv => ApplyWorks
  BY DEF IInv, RunOK, AnswerOK, ApplyWorks
<1>. QED
  BY <1>1, GovernanceInvariant, PTL

\* The tool only ever adds the payload, for a run that may.
THEOREM Writes == Spec => WritesAreAllowed
<1> DEFINE A == edits' = edits =>
                  /\ classic' = classic
                  /\ rulesets' # rulesets =>
                       Adds /\ \E p \in Runs : MayCreate(p) /\ frame'[p].pc # "post"
<1>1. IInv /\ [Next]_vars => [A]_vars
  <2> SUFFICES ASSUME IInv, Next, edits' = edits
               PROVE  /\ classic' = classic
                      /\ rulesets' # rulesets =>
                           Adds /\ \E p \in Runs : MayCreate(p) /\ frame'[p].pc # "post"
    OBVIOUS
  <2>1. CASE \E p \in Runs : PostRuleset(p) \/ PostLost(p)
    <3>1. PICK p \in Runs : PostRuleset(p) \/ PostLost(p)
      BY <2>1
    <3>2. PICK i \in Ids : Created(p, i)
      BY <3>1 DEF PostRuleset, PostLost
    <3>3. classic' = classic /\ Adds
      BY <3>2 DEF Created, Adds
    <3>4. MayCreate(p)
      BY <3>1 DEF PostRuleset, PostLost, MayCreate, IInv, RunOK, WritesOK, Deciding, Writing
    <3>5. frame'[p].pc # "post"
      <4>1. PICK f : Move(p, f) /\ f.pc \in {"rules", "done"}
        <5>1. [frame[p] EXCEPT !.pc = "rules", !.round = 2].pc = "rules"
          BY FrameTyping DEF Frames, IInv
        <5>2. \A x : [frame[p] EXCEPT !.pc = "done", !.answer = "UNKNOWN", !.exit = x].pc = "done"
          BY FrameTyping DEF Frames, IInv
        <5>. QED
          BY <3>1, <5>1, <5>2 DEF PostRuleset, PostLost, Reinspect, Answer
      <4>2. frame'[p] = f
        BY <4>1 DEF Move, IInv, TypeOK
      <4>. QED
        BY <4>1, <4>2
    <3>. QED
      BY <3>3, <3>4, <3>5
  <2>2. CASE EditRulesets \/ EditClassic
    BY <2>2 DEF EditRulesets, EditClassic, IInv, TypeOK
  <2>3. CASE \E p \in Runs : Kill(p) \/ \E m \in Modes : Start(p, m)
    BY <2>3 DEF Kill, Start, Remote
  <2>4. CASE \E p \in Runs : \/ Detect(p) \/ DetectFails(p) \/ ReadRules(p) \/ ReadClassic(p)
                             \/ ClassicHidden(p) \/ ClassicUnread(p) \/ Decide(p)
                             \/ ListRulesets(p) \/ ListFails(p) \/ FetchDetail(p)
                             \/ DetailUnusable(p) \/ PostRefused(p)
    BY <2>4 DEF Detect, DetectFails, ReadRules, ReadClassic, ClassicHidden, ClassicUnread,
                Decide, ListRulesets, ListFails, FetchDetail, DetailUnusable, PostRefused, Remote
  <2>. QED
    BY <2>1, <2>2, <2>3, <2>4 DEF Next, Step
<1>. QED
  BY <1>1, GovernanceInvariant, PTL DEF Spec, WritesAreAllowed

-----------------------------------------------------------------------------
(* The exit status, and the length of a run.                               *)

\* Where a run that answers ends.
LEMMA Answered ==
  ASSUME TypeOK, NEW p \in Runs, NEW c \in Answers, Answer(p, c)
  PROVE  /\ frame'[p].pc = "done" /\ frame'[p].answer = c
         /\ frame'[p].mode = frame[p].mode /\ frame'[p].exit = Exit(frame[p].mode, c)
<1> DEFINE x == Exit(frame[p].mode, c)
           f == [frame[p] EXCEPT !.pc = "done", !.answer = c, !.exit = x]
<1>1. frame \in [Runs -> Frames] /\ frame[p] \in Frames
  BY DEF TypeOK
<1>2. f.pc = "done" /\ f.answer = c /\ f.mode = frame[p].mode /\ f.exit = x
  BY <1>1 DEF Frames
<1>3. Move(p, f)
  BY DEF Answer
<1> HIDE DEF f
<1>4. frame'[p] = f
  BY <1>1, <1>3 DEF Move
<1>. QED
  BY <1>2, <1>4

\* Where a run that goes on goes, as far as this section cares: it gives no
\* answer, and a round begins only after a ruleset was found or created.
Goes(p, l) ==
  /\ frame'[p].pc = l
  /\ frame'[p].mode = frame[p].mode
  /\ frame'[p].round = IF frame[p].pc \in {"detail", "post"} THEN 2 ELSE frame[p].round

Ends(p) == /\ frame'[p].pc = "done"
           /\ frame'[p].mode = frame[p].mode
           /\ frame'[p].answer \in Answers \ {"none"}
           /\ frame'[p].exit = Exit(frame[p].mode, frame'[p].answer)

LEMMA AnswerEnds ==
  ASSUME TypeOK, NEW p \in Runs, NEW c \in Answers \ {"none"}, Answer(p, c)
  PROVE  Ends(p)
BY Answered DEF Ends

LEMMA GotoGoes ==
  ASSUME TypeOK, NEW p \in Runs, NEW l, Goto(p, l), frame[p].pc \notin {"detail", "post"}
  PROVE  Goes(p, l)
<1>1. frame \in [Runs -> Frames] /\ frame[p] \in Frames
  BY DEF TypeOK
<1>. QED
  BY <1>1 DEF Goto, Move, Goes, Frames

LEMMA ReinspectGoes ==
  ASSUME TypeOK, NEW p \in Runs, Reinspect(p), frame[p].pc \in {"detail", "post"}
  PROVE  Goes(p, "rules")
<1> DEFINE f == [frame[p] EXCEPT !.pc = "rules", !.round = 2]
<1>1. frame \in [Runs -> Frames] /\ frame[p] \in Frames
  BY DEF TypeOK
<1>2. f.pc = "rules" /\ f.round = 2 /\ f.mode = frame[p].mode
  BY <1>1 DEF Frames
<1> HIDE DEF f
<1>3. frame'[p] = f
  BY <1>1 DEF Reinspect, Move, f
<1>. QED
  BY <1>2, <1>3 DEF Goes

\* The check of the second inspection, and of --status, ends the run.
LEMMA EvaluateGoes ==
  ASSUME TypeOK, NEW p \in Runs, NEW b, Evaluate(p, b), frame[p].pc = "classic"
  PROVE  Ends(p) \/ (frame[p].round = 1 /\ Goes(p, "decide"))
<1> DEFINE c == Compliance(frame[p].a, b)
           f == [frame[p] EXCEPT !.pc = "decide", !.check = c]
<1>1. c \in Answers \ {"none"}
  BY ComplianceType DEF Answers
<1>2. \/ Answer(p, c)
      \/ Move(p, f) /\ frame[p].round # 2
  BY DEF Evaluate
<1>3. frame \in [Runs -> Frames] /\ frame[p] \in Frames /\ frame[p].round \in {1, 2}
  BY FrameTyping DEF TypeOK
<1>. HIDE DEF c
<1>4. f.pc = "decide" /\ f.mode = frame[p].mode /\ f.round = frame[p].round
  BY <1>3 DEF Frames
<1>. HIDE DEF f
<1>5. Move(p, f) => frame'[p] = f
  BY <1>3 DEF Move
<1>6. CASE Answer(p, c)
  BY <1>1, <1>6, AnswerEnds
<1>7. CASE Move(p, f) /\ frame[p].round # 2
  BY <1>3, <1>4, <1>5, <1>7 DEF Goes
<1>. QED
  BY <1>2, <1>6, <1>7

\* The course of a run.
Course(p) ==
  \/ frame[p].pc \notin {"idle", "done"} /\ Ends(p)
  \/ frame[p].pc = "detect" /\ Goes(p, "rules")
  \/ frame[p].pc = "rules" /\ Goes(p, "classic")
  \/ frame[p].pc = "classic" /\ frame[p].round = 1 /\ Goes(p, "decide")
  \/ frame[p].pc = "decide" /\ Goes(p, "list")
  \/ frame[p].pc = "list" /\ (Goes(p, "detail") \/ Goes(p, "post"))
  \/ frame[p].pc \in {"detail", "post"} /\ Goes(p, "rules")

LEMMA StepsCourse ==
  ASSUME IInv, NEW p \in Runs, Step(p)
  PROVE  Course(p)
<1>. TypeOK
  BY DEF IInv
<1>1. frame \in [Runs -> Frames] /\ frame[p] \in Frames
  BY DEF TypeOK
<1>2. "UNKNOWN" \in Answers \ {"none"}
  BY DEF Answers
<1>3. CASE Detect(p)
  BY <1>3, GotoGoes DEF Detect, Course
<1>4. CASE \/ DetectFails(p) \/ ListFails(p) \/ DetailUnusable(p) \/ PostLost(p)
           \/ PostRefused(p)
  BY <1>2, <1>4, AnswerEnds
  DEF DetectFails, ListFails, DetailUnusable, PostLost, PostRefused, Course
<1>5. CASE ReadRules(p)
  <2>1. PICK a : Move(p, [frame[p] EXCEPT !.pc = "classic", !.a = a])
    BY <1>5 DEF ReadRules
  <2>2. frame[p].pc = "rules"
    BY <1>5 DEF ReadRules
  <2> DEFINE f == [frame[p] EXCEPT !.pc = "classic", !.a = a]
  <2>3. f.pc = "classic" /\ f.mode = frame[p].mode /\ f.round = frame[p].round
    BY <1>1 DEF Frames
  <2> HIDE DEF f
  <2>4. frame'[p] = f
    BY <1>1, <2>1 DEF Move, f
  <2>. QED
    BY <2>2, <2>3, <2>4 DEF Goes, Course
<1>6. CASE ReadClassic(p) \/ ClassicHidden(p) \/ ClassicUnread(p)
  <2>1. PICK b : Evaluate(p, b)
    BY <1>6 DEF ReadClassic, ClassicHidden, ClassicUnread
  <2>2. frame[p].pc = "classic"
    BY <1>6 DEF ReadClassic, ClassicHidden, ClassicUnread
  <2>. QED
    BY <2>1, <2>2, EvaluateGoes DEF Course
<1>7. CASE Decide(p)
  <2> DEFINE f == [frame[p] EXCEPT !.pc = "list", !.consent = TRUE]
  <2>1. frame[p].pc = "decide" /\ frame[p].check \in Answers \ {"none"}
    BY <1>7 DEF Decide, IInv, RunOK, WritesOK, Deciding, Answers
  <2>2. \/ Goto(p, "list")
        \/ Move(p, f)
        \/ Answer(p, frame[p].check)
    BY <1>7 DEF Decide
  <2>3. f.pc = "list" /\ f.mode = frame[p].mode /\ f.round = frame[p].round
    BY <1>1 DEF Frames
  <2> HIDE DEF f
  <2>4. Move(p, f) => Goes(p, "list")
    BY <1>1, <2>1, <2>3 DEF Move, Goes
  <2>. QED
    BY <2>1, <2>2, <2>4, GotoGoes, AnswerEnds DEF Course
<1>8. CASE ListRulesets(p)
  <2>1. frame[p].pc = "list"
    BY <1>8 DEF ListRulesets
  <2>2. \/ Goto(p, "post")
        \/ \E i \in Ids : Move(p, [frame[p] EXCEPT !.pc = "detail", !.candidate = i])
        \/ Answer(p, "UNKNOWN")
    BY <1>8 DEF ListRulesets, Reserved, Present
  <2>3. ASSUME NEW i \in Ids, Move(p, [frame[p] EXCEPT !.pc = "detail", !.candidate = i])
        PROVE  Goes(p, "detail")
    BY <1>1, <2>1, <2>3 DEF Move, Goes, Frames
  <2>. QED
    BY <1>2, <2>1, <2>2, <2>3, GotoGoes, AnswerEnds DEF Course
<1>9. CASE FetchDetail(p)
  <2>1. frame[p].pc = "detail" /\ (Reinspect(p) \/ Answer(p, "UNKNOWN"))
    BY <1>9 DEF FetchDetail
  <2>. QED
    BY <1>2, <2>1, ReinspectGoes, AnswerEnds DEF Course
<1>10. CASE PostRuleset(p)
  BY <1>10, ReinspectGoes DEF PostRuleset, Course
<1>. QED
  BY <1>3, <1>4, <1>5, <1>6, <1>7, <1>8, <1>9, <1>10 DEF Step

\* The steps a run still has before it at most.
StepsLeft(p) ==
  LET l == frame[p].pc
  IN CASE l = "detect"  -> 8
       [] l = "rules"   -> IF frame[p].round = 1 THEN 7 ELSE 2
       [] l = "classic" -> IF frame[p].round = 1 THEN 6 ELSE 1
       [] l = "decide"  -> 5
       [] l = "list"    -> 4
       [] l \in {"detail", "post"}  -> 3
       [] l \in {"idle", "done"} -> 0

LEMMA Remaining ==
  ASSUME NEW p \in Runs
  PROVE  /\ frame[p].pc = "detect" => StepsLeft(p) = 8
         /\ frame[p].pc = "rules" => StepsLeft(p) = IF frame[p].round = 1 THEN 7 ELSE 2
         /\ frame[p].pc = "classic" => StepsLeft(p) = IF frame[p].round = 1 THEN 6 ELSE 1
         /\ frame[p].pc = "decide" => StepsLeft(p) = 5
         /\ frame[p].pc = "list" => StepsLeft(p) = 4
         /\ frame[p].pc \in {"detail", "post"} => StepsLeft(p) = 3
         /\ frame[p].pc \in {"idle", "done"} => StepsLeft(p) = 0
BY DEF StepsLeft

LEMMA RemainingNext ==
  ASSUME NEW p \in Runs
  PROVE  /\ frame'[p].pc = "rules" => StepsLeft(p)' = IF frame'[p].round = 1 THEN 7 ELSE 2
         /\ frame'[p].pc = "classic" => StepsLeft(p)' = IF frame'[p].round = 1 THEN 6 ELSE 1
         /\ frame'[p].pc = "decide" => StepsLeft(p)' = 5
         /\ frame'[p].pc = "list" => StepsLeft(p)' = 4
         /\ frame'[p].pc \in {"detail", "post"} => StepsLeft(p)' = 3
         /\ frame'[p].pc \in {"idle", "done"} => StepsLeft(p)' = 0
BY DEF StepsLeft

LEMMA StepsBounded ==
  ASSUME IInv, NEW p \in Runs
  PROVE  StepsLeft(p) \in 0..8
<1>1. frame[p].pc \in Labels
  BY FrameTyping DEF IInv, Frames
<1>. QED
  BY <1>1, Remaining DEF Labels

LEMMA StepsFall ==
  ASSUME IInv, NEW p \in Runs, Step(p)
  PROVE  StepsLeft(p)' < StepsLeft(p)
<1>1. Course(p) /\ frame[p].round \in {1, 2} /\ frame[p].pc \in Labels
  BY StepsCourse, FrameTyping DEF IInv, Frames
<1>2. /\ frame[p].pc \in {"decide", "list", "detail", "post"} => frame[p].round = 1
      /\ frame[p].pc = "detect" => frame[p].round = 1
  BY DEF IInv, RunOK, WritesOK, Deciding, Writing
<1>3. CASE frame[p].pc \notin {"idle", "done"} /\ Ends(p)
  <2>1. StepsLeft(p)' = 0
    BY <1>3, RemainingNext DEF Ends
  <2>. QED
    BY <1>1, <1>3, <2>1, Remaining DEF Labels
<1>. QED
  BY <1>1, <1>2, <1>3, Remaining, RemainingNext DEF Course, Goes

\* Runs do not lengthen each other, and a kill ends one.
LEMMA OthersCount ==
  ASSUME IInv, NEW p \in Runs, Next, ~ Step(p), \A m \in Modes : ~ Start(p, m)
  PROVE  StepsLeft(p)' <= StepsLeft(p)
<1>1. frame \in [Runs -> Frames] /\ StepsLeft(p) \in 0..8
  BY StepsBounded DEF IInv, TypeOK
<1>2. ASSUME NEW q \in Runs, q # p, NEW f, Move(q, f)
      PROVE  frame'[p] = frame[p]
  BY <1>1, <1>2 DEF Move
<1>3. ASSUME NEW q \in Runs, q # p, Step(q)
      PROVE  \E f : Move(q, f)
  BY <1>3 DEF Step, Detect, DetectFails, ReadRules, ReadClassic, ClassicHidden, ClassicUnread,
     Decide, ListRulesets, ListFails, FetchDetail, DetailUnusable, PostRuleset, PostLost,
     PostRefused, Evaluate, Reinspect, Answer, Goto
<1>4. ASSUME NEW q \in Runs, q # p, NEW m \in Modes, Start(q, m)
      PROVE  \E f : Move(q, f)
  BY <1>4 DEF Start
<1>5. ASSUME NEW q \in Runs, Kill(q)
      PROVE  frame'[p] = frame[p] \/ frame'[p].pc = "idle"
  <2>1. frame'[p] = IF q = p THEN Fresh ELSE frame[p]
    BY <1>1, <1>5 DEF Kill, Move
  <2>. QED
    BY <2>1 DEF Fresh
<1>6. EditRulesets \/ EditClassic => frame'[p] = frame[p]
  BY DEF EditRulesets, EditClassic
<1>7. frame'[p] = frame[p] \/ frame'[p].pc = "idle"
  BY <1>2, <1>3, <1>4, <1>5, <1>6 DEF Next
<1>8. CASE frame'[p] = frame[p]
  <2>1. StepsLeft(p)' = StepsLeft(p)
    BY <1>8 DEF StepsLeft
  <2>. QED
    BY <1>1, <2>1
<1>9. CASE frame'[p].pc = "idle"
  BY <1>1, <1>9, RemainingNext
<1>. QED
  BY <1>7, <1>8, <1>9

\* A run takes at most eight steps from its start to its answer: it inspects
\* twice at most and writes once at most, and neither other runs nor
\* administrators send it back.
THEOREM RunsAreBounded ==
  Spec => /\ [](\A p \in Runs : StepsLeft(p) \in 0..8)
          /\ [][\A p \in Runs :
                  /\ Step(p) => StepsLeft(p)' < StepsLeft(p)
                  /\ (\A m \in Modes : ~ Start(p, m)) => StepsLeft(p)' <= StepsLeft(p)]_vars
<1> DEFINE Bounded == \A p \in Runs : StepsLeft(p) \in 0..8
           Counted == \A p \in Runs :
                  /\ Step(p) => StepsLeft(p)' < StepsLeft(p)
                  /\ (\A m \in Modes : ~ Start(p, m)) => StepsLeft(p)' <= StepsLeft(p)
<1>1. IInv => Bounded
  BY StepsBounded
<1>2. ASSUME IInv, IInv', [Next]_vars
      PROVE  [Counted]_vars
  <2> SUFFICES ASSUME NEW p \in Runs, Next
               PROVE  /\ Step(p) => StepsLeft(p)' < StepsLeft(p)
                      /\ (\A m \in Modes : ~ Start(p, m)) => StepsLeft(p)' <= StepsLeft(p)
    BY <1>2
  <2>1. Bounded /\ Bounded'
    BY <1>1, <1>2, PTL
  <2>2. StepsLeft(p) \in 0..8 /\ StepsLeft(p)' \in 0..8
    BY <2>1
  <2>3. Step(p) => StepsLeft(p)' < StepsLeft(p)
    BY <1>2, StepsFall
  <2>4. ASSUME ~ Step(p), \A m \in Modes : ~ Start(p, m)
        PROVE  StepsLeft(p)' <= StepsLeft(p)
    BY <1>2, <2>4, OthersCount
  <2>. QED
    BY <2>2, <2>3, <2>4
<1>. QED
  BY <1>1, <1>2, GovernanceInvariant, PTL DEF Spec

\* The exit status that the mode and the answer of a run give; a run that is
\* not configured has no answer and exits with 2.
ExitOK(p) ==
  frame[p].pc = "done" =>
    IF frame[p].answer = "none"
      THEN frame[p].exit = 2 /\ frame[p].mode.entry # "setup"
      ELSE frame[p].answer \in Answers /\ frame[p].exit = Exit(frame[p].mode, frame[p].answer)

LEMMA ExitKept == IInv /\ IInv' /\ (\A p \in Runs : ExitOK(p)) /\ [Next]_vars
                    => \A p \in Runs : ExitOK(p)'
<1> SUFFICES ASSUME IInv, \A q \in Runs : ExitOK(q), [Next]_vars, NEW p \in Runs
             PROVE  ExitOK(p)'
  OBVIOUS
<1>1. frame \in [Runs -> Frames]
  BY DEF IInv, TypeOK
<1>2. CASE frame'[p] = frame[p]
  BY <1>2 DEF ExitOK
<1>3. CASE Step(p)
  <2>1. CASE Ends(p)
    BY <2>1 DEF Ends, ExitOK
  <2>2. CASE frame'[p].pc # "done"
    BY <2>2 DEF ExitOK
  <2>. QED
    BY <1>3, <2>1, <2>2, StepsCourse DEF Course, Goes
<1>4. ASSUME NEW m \in Modes, Start(p, m)
      PROVE  ExitOK(p)'
  <2> DEFINE f == [Fresh EXCEPT !.pc = "detect", !.mode = m]
             g == [Fresh EXCEPT !.pc = "done", !.mode = m, !.exit = 2]
  <2>1. f.pc = "detect" /\ g.pc = "done" /\ g.mode = m /\ g.exit = 2 /\ g.answer = "none"
    BY DEF Fresh
  <2>2. Move(p, IF config' THEN f ELSE g) /\ config' = (config \/ m.entry = "setup")
    BY <1>4 DEF Start
  <2> HIDE DEF f, g
  <2>3. frame'[p] = f \/ (frame'[p] = g /\ m.entry # "setup")
    BY <1>1, <2>2 DEF Move
  <2>. QED
    BY <2>1, <2>3 DEF ExitOK
<1>5. CASE Kill(p)
  <2>1. frame'[p].pc = "idle"
    BY <1>1, <1>5 DEF Kill, Move, Fresh
  <2>. QED
    BY <2>1 DEF ExitOK
<1>6. ASSUME NEW q \in Runs, q # p, Step(q) \/ Kill(q) \/ \E m \in Modes : Start(q, m)
      PROVE  frame'[p] = frame[p]
  <2>1. PICK f : Move(q, f)
    BY <1>6 DEF Step, Detect, DetectFails, ReadRules, ReadClassic, ClassicHidden,
       ClassicUnread, Decide, ListRulesets, ListFails, FetchDetail, DetailUnusable,
       PostRuleset, PostLost, PostRefused, Evaluate, Reinspect, Answer, Goto, Kill, Start
  <2>. QED
    BY <1>1, <1>6, <2>1 DEF Move
<1>7. EditRulesets \/ EditClassic \/ UNCHANGED vars => frame'[p] = frame[p]
  BY DEF EditRulesets, EditClassic, vars
<1>. QED
  BY <1>2, <1>3, <1>4, <1>5, <1>6, <1>7 DEF Next

\* Where the exit status reflects governance.  --status and a standalone
\* --apply-governance exit with 0 only if each baseline rule was in force at
\* some moment of the last inspection; the setup exits with 1 whenever it was
\* told to apply, whatever came of it, and with 0 whenever it was not.
THEOREM ExitStatus ==
  Spec => [](\A p \in Runs : frame[p].pc = "done" =>
               IF frame[p].mode.entry = "setup"
                 THEN frame[p].exit = IF frame[p].mode.apply THEN 1 ELSE 0
                 ELSE /\ frame[p].exit = 0 <=> frame[p].answer = "CONFORMANT"
                      /\ frame[p].exit = 0 => BaselineTypes \subseteq seen[p])
<1> DEFINE Exits == \A p \in Runs : ExitOK(p)
           Said == \A p \in Runs : frame[p].pc = "done" =>
               IF frame[p].mode.entry = "setup"
                 THEN frame[p].exit = IF frame[p].mode.apply THEN 1 ELSE 0
                 ELSE /\ frame[p].exit = 0 <=> frame[p].answer = "CONFORMANT"
                      /\ frame[p].exit = 0 => BaselineTypes \subseteq seen[p]
<1>1. Init => Exits
  BY DEF Init, ExitOK, Fresh
<1>2. IInv /\ IInv' /\ Exits /\ [Next]_vars => Exits'
  BY ExitKept
<1>3. IInv /\ Exits => Said
  BY DEF ExitOK, Exit, Code, Answers, IInv, RunOK, AnswerOK
<1>. HIDE DEF Said, Exits
<1>4. Spec => []Said
  BY <1>1, <1>2, <1>3, GovernanceInvariant, PTL DEF Spec
<1>. QED
  BY <1>4 DEF Said
=============================================================================
