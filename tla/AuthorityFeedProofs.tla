------------------------ MODULE AuthorityFeedProofs -------------------------
(***************************************************************************)
(* The theorems about the reader of authority feeds, for any number of     *)
(* feeds, repositories, versions and artifacts.                            *)
(*                                                                         *)
(* A bundle that the run has reported ok is whole on disk, unless the run  *)
(* is writing it again for another feed and has already seen something     *)
(* wrong with it.  FeedInv says this of the run, and that the artifacts    *)
(* the inner loop has passed are right as long as the status is ok.        *)
(***************************************************************************)
EXTENDS AuthorityFeed, TLAPS

Reading == run.pc = "artifacts"

Current == Bundle(run.feed, run.version)

\* The artifacts of the current bundle that have been passed.
PassedRight ==
  Reading /\ run.status = "ok" =>
    \A p \in Paths : p < run.path => disk[Current][p] = "right"

\* The bundles reported ok by the run.
OkRight ==
  \A b \in run.ok \ run.bad :
    \/ Reading /\ b = Current /\ run.status # "ok"
    \/ \A p \in Paths : disk[b][p] = "right"

\* The flags that decide the exit status.
Verdicts ==
  /\ run.allOk => run.bad = {}
  /\ run.calm => run.allOk /\ run.status = "ok"
  /\ ~ Reading => run.status = "ok" /\ run.path = 1

Placed == Reading => run.feed \in Feeds /\ run.version \in Versions

FeedInv == TypeOK /\ Placed /\ Verdicts /\ PassedRight /\ OkRight /\ OkIsWhole

-----------------------------------------------------------------------------
(* Types.                                                                  *)

\* What the run is at.
LEMMA Positions ==
  ASSUME TypeOK
  PROVE  /\ run.feed \in Nat /\ run.path \in Nat
         /\ run.path \notin Paths => \A p \in Paths : p < run.path
         /\ run.path \in Paths => run.path + 1 \in 1..NumPaths + 1
         /\ run.feed \in Feeds => run.feed + 1 \in 1..NumFeeds + 1
<1>1. run.feed \in 1..NumFeeds + 1 /\ run.path \in 1..NumPaths + 1
  BY DEF TypeOK, Runs
<1> QED BY <1>1, Counts DEF Paths, Feeds

\* The bundle of a feed and a version is a directory.
LEMMA BundleTyping ==
  ASSUME NEW f \in Feeds, NEW v \in Versions
  PROVE  Bundle(f, v) \in Bundles
BY Naming DEF Bundle, Bundles

\* A run that is not on its way is one.
LEMMA IdleTyping == IdleRun \in Runs
<1>1. 1 \in 1..NumFeeds + 1 /\ 1 \in 1..NumPaths + 1
  BY Counts
<1> QED BY <1>1 DEF IdleRun, Runs, Statuses

\* A run that has reported a feed.
LEMMA ReportedTyping ==
  ASSUME TypeOK, run.feed \in Feeds, NEW status \in Statuses
  PROVE  Reported(status) \in Runs
<1>1. run.feed + 1 \in 1..NumFeeds + 1 /\ 1 \in 1..NumPaths + 1
  BY Positions, Counts
<1>2. (run.allOk /\ status = "ok") \in BOOLEAN
  OBVIOUS
<1> QED BY <1>1, <1>2 DEF TypeOK, Runs, Reported, Statuses

-----------------------------------------------------------------------------
(* The steps.                                                              *)

\* The invariant holds at the start.
LEMMA InitFeedInv ==
  ASSUME Init
  PROVE  FeedInv
<1>1. /\ run = IdleRun
      /\ report = [exit |-> "none", ok |-> {}, bad |-> {}, intact |-> TRUE]
  BY DEF Init
<1>2. branch \in [Feeds -> SUBSET Versions]
  BY DEF Init
<1>3. disk \in [Bundles -> [Paths -> Bytes]]
  BY DEF Init, Bytes
<1>4. report \in Reports
  BY <1>1 DEF Reports
<1>5. TypeOK
  BY <1>1, <1>2, <1>3, <1>4, IdleTyping DEF TypeOK
<1>6. /\ run.pc = "idle" /\ run.ok = {} /\ run.bad = {} /\ run.allOk
      /\ run.status = "ok" /\ run.path = 1
  BY <1>1 DEF IdleRun
<1>7. OkIsWhole
  BY <1>1 DEF OkIsWhole
<1> QED BY <1>5, <1>6, <1>7 DEF FeedInv, Placed, Verdicts, PassedRight, OkRight, Reading

\* A feed is published.
LEMMA PublishKeepsInv ==
  ASSUME FeedInv, NEW f \in Feeds, NEW v \in Versions, Publish(f, v)
  PROVE  FeedInv'
<1>1. disk' = disk /\ report' = report
  BY DEF Publish
<1>2. PICK calm \in BOOLEAN : /\ run' = [run EXCEPT !.calm = calm]
                              /\ calm => run.calm
  BY DEF Publish, FeedInv, TypeOK, Runs
<1>3. run \in Runs
  BY DEF FeedInv, TypeOK
<1>4. /\ run'.pc = run.pc /\ run'.feed = run.feed /\ run'.path = run.path
      /\ run'.version = run.version /\ run'.status = run.status /\ run'.ok = run.ok
      /\ run'.bad = run.bad /\ run'.allOk = run.allOk /\ (run'.calm => run.calm)
  BY <1>2, <1>3 DEF Runs
<1>5. branch' \in [Feeds -> SUBSET Versions]
  <2>1. PICK kept \in SUBSET branch[f] : branch' = [branch EXCEPT ![f] = {v} \cup kept]
    BY DEF Publish
  <2>2. branch \in [Feeds -> SUBSET Versions]
    BY DEF FeedInv, TypeOK
  <2>3. {v} \cup kept \in SUBSET Versions
    BY <2>2
  <2> QED BY <2>1, <2>2, <2>3
<1>6. run' \in Runs
  BY <1>2, <1>3 DEF Runs
<1>7. TypeOK'
  BY <1>1, <1>5, <1>6 DEF FeedInv, TypeOK
<1> QED BY <1>1, <1>4, <1>7
        DEF FeedInv, Placed, Verdicts, PassedRight, OkRight, OkIsWhole, Reading, Current

\* The run starts, or the process dies.
LEMMA IdleKeepsInv ==
  ASSUME FeedInv, Start \/ Kill
  PROVE  FeedInv'
<1>1. UNCHANGED <<branch, disk, report>>
  BY DEF Start, Kill
<1>2. /\ run' \in Runs
      /\ run'.pc \in {"idle", "manifest"} /\ run'.ok = {} /\ run'.bad = {} /\ run'.allOk
      /\ run'.status = "ok" /\ run'.path = 1
  <2>1. CASE Start
    <3>1. run' = [IdleRun EXCEPT !.pc = "manifest"]
      BY <2>1 DEF Start
    <3>2. run' \in Runs
      BY <3>1, IdleTyping DEF Runs
    <3> QED BY <3>1, <3>2 DEF IdleRun
  <2>2. CASE Kill
    <3>1. run' = IdleRun
      BY <2>2 DEF Kill
    <3> QED BY <3>1, IdleTyping DEF IdleRun
  <2> QED BY <2>1, <2>2
<1>3. TypeOK'
  BY <1>1, <1>2 DEF FeedInv, TypeOK
<1>4. OkIsWhole'
  BY <1>1 DEF FeedInv, OkIsWhole
<1> QED BY <1>2, <1>3, <1>4 DEF FeedInv, Placed, Verdicts, PassedRight, OkRight, Reading

\* The manifest cannot be fetched: nothing is stored.
LEMMA UnreachableKeepsInv ==
  ASSUME FeedInv, ManifestUnreachable
  PROVE  FeedInv'
<1>1. /\ UNCHANGED <<branch, disk, report>>
      /\ run.pc = "manifest" /\ run.feed \in Feeds
      /\ run' = [Reported("unreachable") EXCEPT !.calm = FALSE]
  BY DEF ManifestUnreachable
<1>2. Reported("unreachable") \in Runs
  BY <1>1, ReportedTyping DEF FeedInv, Statuses
<1>3. run' \in Runs
  BY <1>1, <1>2 DEF Runs
<1>4. /\ run'.pc = "manifest" /\ run'.ok = run.ok /\ run'.bad = run.bad
      /\ run'.allOk = FALSE /\ run'.status = "ok" /\ run'.calm = FALSE /\ run'.path = 1
  BY <1>1, <1>2 DEF Reported, FeedInv, TypeOK, Runs
<1>5. TypeOK'
  BY <1>1, <1>3 DEF FeedInv, TypeOK
<1>6. OkIsWhole'
  BY <1>1 DEF FeedInv, OkIsWhole
<1>7. OkRight'
  BY <1>1, <1>4 DEF FeedInv, OkRight, Reading
<1> QED BY <1>4, <1>5, <1>6, <1>7 DEF FeedInv, Placed, Verdicts, PassedRight, Reading

\* The manifest is there: the inner loop begins.
LEMMA ManifestKeepsInv ==
  ASSUME FeedInv, NEW v \in Versions, FetchManifest(v)
  PROVE  FeedInv'
<1>1. /\ UNCHANGED <<branch, disk, report>>
      /\ run.pc = "manifest" /\ run.feed \in Feeds
      /\ run' = [run EXCEPT !.pc = "artifacts", !.version = v]
  BY DEF FetchManifest
<1>2. run' \in Runs
  BY <1>1 DEF FeedInv, TypeOK, Runs
<1>3. /\ run'.pc = "artifacts" /\ run'.ok = run.ok /\ run'.bad = run.bad
      /\ run'.allOk = run.allOk /\ run'.status = run.status /\ run'.calm = run.calm
      /\ run'.feed = run.feed /\ run'.version = v /\ run'.path = run.path
  BY <1>1 DEF FeedInv, TypeOK, Runs
<1>4. TypeOK'
  BY <1>1, <1>2 DEF FeedInv, TypeOK
<1>5. OkIsWhole'
  BY <1>1 DEF FeedInv, OkIsWhole
<1>6. OkRight'
  BY <1>1, <1>3 DEF FeedInv, OkRight, Reading
<1>7. PassedRight'
  <2>1. run'.path = 1
    BY <1>1, <1>3 DEF FeedInv, Verdicts, Reading
  <2>2. \A p \in Paths : ~ (p < 1)
    BY Counts DEF Paths
  <2> QED BY <2>1, <2>2 DEF PassedRight
<1>8. Placed' /\ Verdicts'
  BY <1>1, <1>3 DEF FeedInv, Placed, Verdicts, Reading
<1> QED BY <1>4, <1>5, <1>6, <1>7, <1>8 DEF FeedInv

\* An artifact is passed that left nothing on disk.
LEMMA SkippedKeepsInv ==
  ASSUME FeedInv, ArtifactUnreachable
  PROVE  FeedInv'
<1>1. /\ UNCHANGED <<branch, disk, report>>
      /\ run.pc = "artifacts" /\ run.path \in Paths
      /\ run' = [run EXCEPT !.path = @ + 1, !.status = "partial", !.calm = FALSE]
  BY DEF ArtifactUnreachable
<1>2. run.path + 1 \in 1..NumPaths + 1
  BY <1>1, Positions DEF FeedInv
<1>3. run' \in Runs
  BY <1>1, <1>2 DEF FeedInv, TypeOK, Runs, Statuses
<1>4. /\ run'.pc = "artifacts" /\ run'.ok = run.ok /\ run'.bad = run.bad
      /\ run'.allOk = run.allOk /\ run'.status = "partial" /\ run'.calm = FALSE
      /\ run'.feed = run.feed /\ run'.version = run.version
  BY <1>1 DEF FeedInv, TypeOK, Runs
<1>5. TypeOK'
  BY <1>1, <1>3 DEF FeedInv, TypeOK
<1>6. OkIsWhole'
  BY <1>1 DEF FeedInv, OkIsWhole
<1>7. Current' = Current
  BY <1>4 DEF Current
<1>8. OkRight'
  BY <1>1, <1>4, <1>7 DEF FeedInv, OkRight, Reading
<1> QED BY <1>1, <1>4, <1>5, <1>6, <1>8
        DEF FeedInv, Placed, Verdicts, PassedRight, Reading

\* What storing an artifact does to the directories.
LEMMA Stored ==
  ASSUME FeedInv, Reading, run.path \in Paths, NEW bytes \in Bytes, Store(bytes)
  PROVE  /\ disk' \in [Bundles -> [Paths -> Bytes]]
         /\ report' \in Reports
         /\ OkIsWhole'
         /\ Current \in Bundles
         /\ disk'[Current][run.path] = bytes
         /\ \A p \in Paths : p # run.path => disk'[Current][p] = disk[Current][p]
         /\ \A b \in Bundles : b # Current => disk'[b] = disk[b]
<1>1. Current \in Bundles
  BY BundleTyping DEF FeedInv, Placed, Current
<1>2. disk \in [Bundles -> [Paths -> Bytes]]
  BY DEF FeedInv, TypeOK
<1>3. disk' = [disk EXCEPT ![Current][run.path] = bytes]
  BY DEF Store, Current
<1>4. report' = [report EXCEPT !.intact = FALSE] /\ report \in Reports
  BY DEF Store, FeedInv, TypeOK
<1>5. disk' \in [Bundles -> [Paths -> Bytes]]
  BY <1>1, <1>2, <1>3
<1>6. report' \in Reports
  BY <1>4 DEF Reports
<1>7. report'.intact = FALSE /\ report'.exit = report.exit /\ report'.bad = report.bad
  BY <1>4 DEF Reports
<1>8. OkIsWhole'
  BY <1>7 DEF FeedInv, OkIsWhole
<1>9. /\ disk'[Current][run.path] = bytes
      /\ \A p \in Paths : p # run.path => disk'[Current][p] = disk[Current][p]
      /\ \A b \in Bundles : b # Current => disk'[b] = disk[b]
  BY <1>1, <1>2, <1>3
<1> QED BY <1>1, <1>5, <1>6, <1>8, <1>9

\* An artifact with the manifest's digest.
LEMMA FetchedKeepsInv ==
  ASSUME FeedInv, FetchArtifact
  PROVE  FeedInv'
<1>1. /\ branch' = branch
      /\ run.pc = "artifacts" /\ run.path \in Paths
      /\ run' = [run EXCEPT !.path = @ + 1]
      /\ Store("right")
  BY DEF FetchArtifact
<1>2. run.path + 1 \in 1..NumPaths + 1 /\ run.path \in Nat
  BY <1>1, Positions DEF FeedInv
<1>3. run' \in Runs
  BY <1>1, <1>2 DEF FeedInv, TypeOK, Runs
<1>4. /\ run'.pc = "artifacts" /\ run'.ok = run.ok /\ run'.bad = run.bad
      /\ run'.allOk = run.allOk /\ run'.status = run.status /\ run'.calm = run.calm
      /\ run'.feed = run.feed /\ run'.version = run.version /\ run'.path = run.path + 1
  BY <1>1 DEF FeedInv, TypeOK, Runs
<1>5. /\ disk' \in [Bundles -> [Paths -> Bytes]]
      /\ report' \in Reports
      /\ OkIsWhole'
      /\ disk'[Current][run.path] = "right"
      /\ \A p \in Paths : p # run.path => disk'[Current][p] = disk[Current][p]
      /\ \A b \in Bundles : b # Current => disk'[b] = disk[b]
  <2>1. Reading /\ "right" \in Bytes
    BY <1>1 DEF Reading, Bytes
  <2> QED BY <2>1, <1>1, Stored
<1>6. TypeOK'
  BY <1>1, <1>3, <1>5 DEF FeedInv, TypeOK
<1>7. Current' = Current
  BY <1>4 DEF Current
<1>8. PassedRight'
  <2> SUFFICES ASSUME run.status = "ok", NEW p \in Paths, p < run.path + 1
               PROVE  disk'[Current][p] = "right"
    BY <1>4, <1>7 DEF PassedRight
  <2>1. CASE p = run.path
    BY <2>1, <1>5
  <2>2. CASE p # run.path
    <3>1. p < run.path
      BY <1>2, <2>2 DEF Paths
    <3> QED BY <1>1, <1>5, <2>2, <3>1 DEF FeedInv, PassedRight, Reading
  <2> QED BY <2>1, <2>2
<1>9. OkRight'
  <2> SUFFICES ASSUME NEW b \in run.ok \ run.bad
               PROVE  \/ b = Current /\ run.status # "ok"
                      \/ \A p \in Paths : disk'[b][p] = "right"
    BY <1>4, <1>7 DEF OkRight, Reading
  <2>1. b \in Bundles
    BY DEF FeedInv, TypeOK, Runs
  <2>2. \/ b = Current /\ run.status # "ok"
        \/ \A p \in Paths : disk[b][p] = "right"
    BY DEF FeedInv, OkRight
  <2>3. \A p \in Paths : disk[b][p] = "right" => disk'[b][p] = "right"
    BY <2>1, <1>5
  <2> QED BY <2>2, <2>3
<1> QED BY <1>1, <1>4, <1>5, <1>6, <1>8, <1>9
        DEF FeedInv, Placed, Verdicts, Reading

\* An artifact with other bytes.
LEMMA WrongKeepsInv ==
  ASSUME FeedInv, FetchWrong
  PROVE  FeedInv'
<1>1. /\ branch' = branch
      /\ run.pc = "artifacts" /\ run.path \in Paths
      /\ run' = [run EXCEPT !.path = @ + 1, !.status = "integrity_error", !.calm = FALSE]
      /\ Store("wrong")
  BY DEF FetchWrong
<1>2. run.path + 1 \in 1..NumPaths + 1 /\ run.path \in Nat
  BY <1>1, Positions DEF FeedInv
<1>3. run' \in Runs
  BY <1>1, <1>2 DEF FeedInv, TypeOK, Runs, Statuses
<1>4. /\ run'.pc = "artifacts" /\ run'.ok = run.ok /\ run'.bad = run.bad
      /\ run'.allOk = run.allOk /\ run'.status = "integrity_error" /\ run'.calm = FALSE
      /\ run'.feed = run.feed /\ run'.version = run.version
  BY <1>1 DEF FeedInv, TypeOK, Runs
<1>5. /\ disk' \in [Bundles -> [Paths -> Bytes]]
      /\ report' \in Reports
      /\ OkIsWhole'
      /\ \A b \in Bundles : b # Current => disk'[b] = disk[b]
  <2>1. Reading /\ "wrong" \in Bytes
    BY <1>1 DEF Reading, Bytes
  <2> QED BY <2>1, <1>1, Stored
<1>6. TypeOK'
  BY <1>1, <1>3, <1>5 DEF FeedInv, TypeOK
<1>7. Current' = Current
  BY <1>4 DEF Current
<1>8. OkRight'
  <2> SUFFICES ASSUME NEW b \in run.ok \ run.bad, b # Current
               PROVE  \A p \in Paths : disk'[b][p] = "right"
    BY <1>4, <1>7 DEF OkRight, Reading
  <2>1. b \in Bundles
    BY DEF FeedInv, TypeOK, Runs
  <2>2. \A p \in Paths : disk[b][p] = "right"
    BY DEF FeedInv, OkRight
  <2> QED BY <2>1, <2>2, <1>5
<1> QED BY <1>1, <1>4, <1>5, <1>6, <1>8
        DEF FeedInv, Placed, Verdicts, PassedRight, Reading

\* All artifacts of a feed have been passed.
LEMMA DoneKeepsInv ==
  ASSUME FeedInv, FeedDone
  PROVE  FeedInv'
<1> DEFINE b == {Current}
<1>1. /\ UNCHANGED <<branch, disk, report>>
      /\ Reading /\ run.path \notin Paths
      /\ run' = [Reported(run.status) EXCEPT
                   !.ok = IF run.status = "ok" THEN @ \cup b ELSE @,
                   !.bad = IF run.status = "ok" THEN @ ELSE @ \cup b]
  BY DEF FeedDone, Reading, Current
<1>2. run.status \in Statuses /\ run.feed \in Feeds /\ run.version \in Versions
  BY <1>1 DEF FeedInv, TypeOK, Runs, Placed
<1>3. Reported(run.status) \in Runs
  BY <1>2, ReportedTyping DEF FeedInv
<1>4. Current \in Bundles
  BY <1>2, BundleTyping DEF Current
<1>5. run' \in Runs
  BY <1>1, <1>3, <1>4 DEF Runs
<1>6. /\ run'.pc = "manifest" /\ run'.status = "ok" /\ run'.path = 1
      /\ run'.calm = run.calm
      /\ run'.allOk = (run.allOk /\ run.status = "ok")
      /\ run'.ok = (IF run.status = "ok" THEN run.ok \cup b ELSE run.ok)
      /\ run'.bad = (IF run.status = "ok" THEN run.bad ELSE run.bad \cup b)
  BY <1>1, <1>3 DEF Reported, FeedInv, TypeOK, Runs
<1>7. TypeOK'
  BY <1>1, <1>5 DEF FeedInv, TypeOK
<1>8. OkIsWhole'
  BY <1>1 DEF FeedInv, OkIsWhole
<1>9. OkRight'
  <2> SUFFICES ASSUME NEW c \in run'.ok \ run'.bad
               PROVE  \A p \in Paths : disk[c][p] = "right"
    BY <1>1 DEF OkRight
  <2>1. CASE run.status = "ok"
    <3>1. CASE c = Current
      <4>1. \A p \in Paths : p < run.path
        BY <1>1, Positions DEF FeedInv
      <4> QED BY <1>1, <2>1, <3>1, <4>1 DEF FeedInv, PassedRight
    <3>2. CASE c # Current
      BY <1>6, <2>1, <3>2 DEF FeedInv, OkRight
    <3> QED BY <3>1, <3>2
  <2>2. CASE run.status # "ok"
    BY <1>6, <2>2 DEF FeedInv, OkRight
  <2> QED BY <2>1, <2>2
<1> QED BY <1>6, <1>7, <1>8, <1>9 DEF FeedInv, Placed, Verdicts, PassedRight, Reading

\* The report is written.
LEMMA FinishKeepsInv ==
  ASSUME FeedInv, Finish
  PROVE  FeedInv'
<1>1. /\ UNCHANGED <<branch, disk>>
      /\ run.pc = "manifest" /\ run' = IdleRun
      /\ report' = [exit |-> IF run.allOk THEN "zero" ELSE "one", ok |-> run.ok,
                    bad |-> run.bad, intact |-> TRUE]
  BY DEF Finish
<1>2. /\ run'.pc = "idle" /\ run'.ok = {} /\ run'.bad = {} /\ run'.allOk
      /\ run'.status = "ok" /\ run'.path = 1
  BY <1>1 DEF IdleRun
<1>3. report' \in Reports
  BY <1>1 DEF FeedInv, TypeOK, Runs, Reports
<1>4. TypeOK'
  BY <1>1, <1>3, IdleTyping DEF FeedInv, TypeOK
<1>5. OkIsWhole'
  <2>1. \A b \in run.ok \ run.bad, p \in Paths : disk[b][p] = "right"
    BY <1>1 DEF FeedInv, OkRight, Reading
  <2>2. report'.exit = "zero" => report'.bad = {}
    BY <1>1 DEF FeedInv, Verdicts
  <2> QED BY <1>1, <2>1, <2>2 DEF OkIsWhole
<1> QED BY <1>2, <1>4, <1>5 DEF FeedInv, Placed, Verdicts, PassedRight, OkRight, Reading

\* Every step keeps the invariant.
LEMMA StepKeepsFeedInv ==
  ASSUME FeedInv, [Next]_vars
  PROVE  FeedInv'
<1>1. CASE UNCHANGED vars
  BY <1>1 DEF vars, FeedInv, TypeOK, Placed, Verdicts, PassedRight, OkRight, OkIsWhole,
              Reading, Current
<1> QED BY <1>1, PublishKeepsInv, IdleKeepsInv, UnreachableKeepsInv, ManifestKeepsInv,
           SkippedKeepsInv, FetchedKeepsInv, WrongKeepsInv, DoneKeepsInv, FinishKeepsInv
        DEF Next

-----------------------------------------------------------------------------
(* The theorems.                                                           *)

\* The invariant of the reader holds in every behaviour.
THEOREM FeedInvariant == Spec => []FeedInv
<1> QED BY InitFeedInv, StepKeepsFeedInv, PTL DEF Spec

\* Every variable keeps its type.
THEOREM FeedTyping == Spec => []TypeOK
<1>1. FeedInv => TypeOK
  BY DEF FeedInv
<1> QED BY <1>1, FeedInvariant, PTL

\* What is reported ok is whole on disk.
THEOREM ReportedIsWhole == Spec => []OkIsWhole
<1>1. FeedInv => OkIsWhole
  BY DEF FeedInv
<1> QED BY <1>1, FeedInvariant, PTL

\* A run in which nothing goes wrong exits with 0.
THEOREM CalmRunWorks == Spec => FetchWorks
<1>1. ASSUME FeedInv, [Next]_vars
      PROVE  [Finish /\ run.calm => report'.exit = "zero"]_vars
  <2> SUFFICES ASSUME Finish, run.calm
               PROVE  report'.exit = "zero"
    OBVIOUS
  <2>1. run.allOk
    BY <1>1 DEF FeedInv, Verdicts
  <2> QED BY <2>1 DEF Finish
<1> QED BY <1>1, FeedInvariant, PTL DEF Spec, FetchWorks

-----------------------------------------------------------------------------
(* What exit status 0 says of the feeds that were asked for.               *)

\* Feed f has a bundle among S.
HasBundle(f, S) == \E v \in Versions : Bundle(f, v) \in S

\* As long as all reports are ok, each feed the loop has passed has a bundle.
Covered ==
  /\ run.allOk => \A f \in Feeds : f < run.feed => HasBundle(f, run.ok)
  /\ report.exit = "zero" => \A f \in Feeds : HasBundle(f, report.ok)

\* A run that is idle, or starts, has passed no feed.
LEMMA NothingPassed ==
  ASSUME Covered, run'.feed = 1,
         report'.exit = "zero" => \A f \in Feeds : HasBundle(f, report'.ok)
  PROVE  Covered'
BY DEF Covered, Feeds, HasBundle

\* Publications and the reads of artifacts pass no feed.
LEMMA SameFeed ==
  ASSUME Covered, run'.feed = run.feed, run'.ok = run.ok, run'.allOk = run.allOk,
         report'.exit = report.exit, report'.ok = report.ok
  PROVE  Covered'
BY DEF Covered, HasBundle

\* A feed is passed: its bundle is noted, or its report is not ok.
LEMMA DoneCovers ==
  ASSUME FeedInv, Covered, FeedDone
  PROVE  Covered'
<1> DEFINE b == {Bundle(run.feed, run.version)}
<1>1. run.feed \in Feeds /\ run.version \in Versions /\ run \in Runs /\ UNCHANGED report
  BY DEF FeedInv, TypeOK, Placed, Reading, FeedDone
<1>2. Reported(run.status) \in Runs
  BY <1>1, ReportedTyping DEF FeedInv, Runs
<1>3. run' = [Reported(run.status) EXCEPT
                !.ok = IF run.status = "ok" THEN @ \cup b ELSE @,
                !.bad = IF run.status = "ok" THEN @ ELSE @ \cup b]
  BY DEF FeedDone
<1>4. /\ run'.feed = run.feed + 1
      /\ run'.allOk = (run.allOk /\ run.status = "ok")
      /\ run'.ok = (IF run.status = "ok" THEN run.ok \cup b ELSE run.ok)
  BY <1>1, <1>2, <1>3 DEF Reported, Runs
<1>5. ASSUME run'.allOk, NEW f \in Feeds, f < run'.feed
      PROVE  HasBundle(f, run'.ok)
  <2>1. run.allOk /\ run'.ok = run.ok \cup b
    BY <1>4, <1>5
  <2>2. f < run.feed \/ f = run.feed
    BY <1>1, <1>4, <1>5 DEF Feeds
  <2>3. CASE f < run.feed
    BY <2>1, <2>3 DEF Covered, HasBundle
  <2>4. CASE f = run.feed
    BY <1>1, <2>1, <2>4 DEF HasBundle
  <2> QED BY <2>2, <2>3, <2>4
<1> HIDE DEF b
<1> QED BY <1>1, <1>5 DEF Covered, HasBundle

\* A feed that cannot be read is passed, and not ok.
LEMMA UnreachableCovers ==
  ASSUME FeedInv, Covered, ManifestUnreachable
  PROVE  Covered'
<1>1. run.feed \in Feeds /\ UNCHANGED report /\ Reported("unreachable") \in Runs
  BY ReportedTyping DEF ManifestUnreachable, FeedInv, Statuses
<1>2. ~ run'.allOk
  BY <1>1 DEF ManifestUnreachable, Reported, Runs, FeedInv, TypeOK
<1> QED BY <1>1, <1>2 DEF Covered, HasBundle

\* At the report every feed has been passed.
LEMMA FinishCovers ==
  ASSUME FeedInv, Covered, Finish
  PROVE  Covered'
<1>1. run.feed \in 1..NumFeeds + 1 /\ run.feed \notin Feeds
  BY DEF FeedInv, TypeOK, Runs, Finish
<1>2. \A f \in Feeds : f < run.feed
  BY <1>1, Counts DEF Feeds
<1>3. report'.exit = "zero" => \A f \in Feeds : HasBundle(f, report'.ok)
  BY <1>2 DEF Finish, Covered
<1>4. run'.feed = 1
  BY DEF Finish, IdleRun
<1> QED BY <1>3, <1>4, NothingPassed

\* Every step keeps the feeds covered.
LEMMA StepCovers ==
  ASSUME FeedInv, Covered, [Next]_vars
  PROVE  Covered'
<1>1. run \in Runs /\ report \in Reports
  BY DEF FeedInv, TypeOK
<1>2. CASE \E f \in Feeds, v \in Versions : Publish(f, v)
  BY <1>1, <1>2, SameFeed DEF Publish, Runs
<1>3. CASE Start \/ Kill
  <2>1. run'.feed = 1 /\ UNCHANGED report
    BY <1>3 DEF Start, Kill, IdleRun
  <2> QED BY <2>1, NothingPassed DEF Covered
<1>4. CASE \E v \in Versions : FetchManifest(v)
  BY <1>1, <1>4, SameFeed DEF FetchManifest, Runs
<1>5. CASE ArtifactUnreachable
  BY <1>1, <1>5, SameFeed DEF ArtifactUnreachable, Runs
<1>6. CASE FetchArtifact \/ FetchWrong
  BY <1>1, <1>6, SameFeed DEF FetchArtifact, FetchWrong, Store, Runs, Reports
<1>7. CASE UNCHANGED vars
  BY <1>7, SameFeed DEF vars
<1> QED BY <1>2, <1>3, <1>4, <1>5, <1>6, <1>7, DoneCovers, UnreachableCovers, FinishCovers
        DEF Next

\* A command that exits with 0 has left, for every feed it was given, a bundle
\* of that feed with every artifact as its manifest names it, until a later
\* run stores something: none was skipped, unreachable or broken.
THEOREM EveryFeedRead ==
  Spec => [](report.exit = "zero" /\ report.intact =>
               \A f \in Feeds : \E v \in Versions : \A p \in Paths :
                 disk[Bundle(f, v)][p] = "right")
<1> DEFINE AllThere ==
      report.exit = "zero" /\ report.intact =>
        \A f \in Feeds : \E v \in Versions : \A p \in Paths : disk[Bundle(f, v)][p] = "right"
<1>1. Init => Covered
  BY DEF Init, Covered, IdleRun, Feeds, HasBundle
<1>2. FeedInv /\ Covered => AllThere
  BY DEF FeedInv, OkIsWhole, Covered, HasBundle
<1>3. FeedInv /\ Covered /\ [Next]_vars => Covered'
  BY StepCovers
<1> HIDE DEF AllThere
<1>4. Spec => []AllThere
  BY <1>1, <1>2, <1>3, FeedInvariant, PTL DEF Spec
<1> QED BY <1>4 DEF AllThere

-----------------------------------------------------------------------------
(* The length of a run.                                                    *)

\* A feed takes the manifest, the artifacts and the report: n feeds take so
\* many steps.
Work(n) == n * (NumPaths + 2)

LEMMA WorkFalls ==
  ASSUME NEW n \in Nat
  PROVE  Work(n) \in Nat /\ Work(n + 1) = Work(n) + NumPaths + 2
BY Counts DEF Work

LEMMA WorkGrows ==
  ASSUME NEW n \in Nat, NEW m \in Nat, n <= m
  PROVE  Work(n) <= Work(m)
<1>1. PICK d \in Nat : m = n + d
  OBVIOUS
<1>2. d * (NumPaths + 2) \in Nat
  BY Counts
<1>3. (n + d) * (NumPaths + 2) = n * (NumPaths + 2) + d * (NumPaths + 2)
  BY Counts
<1> QED BY <1>1, <1>2, <1>3, WorkFalls DEF Work

FeedsLeft == NumFeeds + 1 - run.feed

\* The steps the run still has before it at most.
StepsLeft ==
  CASE run.pc = "idle"      -> 0
    [] run.pc = "manifest"  -> Work(FeedsLeft) + 1
    [] run.pc = "artifacts" -> Work(FeedsLeft) + 1 - run.path

MostSteps == Work(NumFeeds) + 1

LEMMA Remaining ==
  /\ run.pc = "idle" => StepsLeft = 0
  /\ run.pc = "manifest" => StepsLeft = Work(FeedsLeft) + 1
  /\ run.pc = "artifacts" => StepsLeft = Work(FeedsLeft) + 1 - run.path
BY DEF StepsLeft

LEMMA RemainingNext ==
  /\ run'.pc = "idle" => StepsLeft' = 0
  /\ run'.pc = "manifest" => StepsLeft' = Work(FeedsLeft') + 1
  /\ run'.pc = "artifacts" => StepsLeft' = Work(FeedsLeft') + 1 - run'.path
BY DEF StepsLeft

LEMMA Place ==
  ASSUME FeedInv
  PROVE  /\ run \in Runs /\ run.feed \in 1..NumFeeds + 1 /\ run.path \in 1..NumPaths + 1
         /\ run.pc \in {"idle", "manifest", "artifacts"}
         /\ run.pc = "artifacts" => run.feed \in Feeds
         /\ FeedsLeft \in Nat /\ Work(FeedsLeft) \in Nat
         /\ run.feed \in Feeds => Work(FeedsLeft) >= NumPaths + 2
<1>1. /\ run \in Runs /\ run.feed \in 1..NumFeeds + 1 /\ run.path \in 1..NumPaths + 1
      /\ run.pc \in {"idle", "manifest", "artifacts"}
      /\ run.pc = "artifacts" => run.feed \in Feeds
  BY DEF FeedInv, TypeOK, Runs, Placed, Reading
<1>2. FeedsLeft \in Nat
  BY <1>1, Counts DEF FeedsLeft
<1>3. ASSUME run.feed \in Feeds
      PROVE  Work(FeedsLeft) >= NumPaths + 2
  <2>1. FeedsLeft - 1 \in Nat /\ FeedsLeft - 1 + 1 = FeedsLeft
    BY <1>3, <1>1, Counts DEF FeedsLeft, Feeds
  <2>2. Work(FeedsLeft - 1) \in Nat
        /\ Work(FeedsLeft) = Work(FeedsLeft - 1) + NumPaths + 2
    <3> DEFINE n == FeedsLeft - 1
    <3>1. n \in Nat /\ n + 1 = FeedsLeft
      BY <2>1
    <3> HIDE DEF n
    <3>2. Work(n) \in Nat /\ Work(FeedsLeft) = Work(n) + NumPaths + 2
      BY <3>1, WorkFalls
    <3> QED BY <3>2 DEF n
  <2> QED BY <2>2, Counts
<1> QED BY <1>1, <1>2, <1>3, WorkFalls

\* A run has a step before it until it ends, and never more than MostSteps.
LEMMA StepsBounded ==
  ASSUME FeedInv
  PROVE  /\ StepsLeft \in 0..MostSteps
         /\ run.pc # "idle" => StepsLeft > 0
<1>1. FeedsLeft <= NumFeeds
  BY Place, Counts DEF FeedsLeft
<1>2. Work(FeedsLeft) <= Work(NumFeeds) /\ Work(NumFeeds) \in Nat
  BY <1>1, Place, WorkFalls, WorkGrows, Counts
<1> QED BY <1>2, Place, Remaining, Counts DEF MostSteps

\* The next feed takes less, whatever is left of this one.
LEMMA FeedPassed ==
  ASSUME FeedInv, run.feed \in Feeds, run'.feed = run.feed + 1, run'.pc = "manifest",
         run.pc \in {"manifest", "artifacts"}
  PROVE  StepsLeft' < StepsLeft
<1> DEFINE n == NumFeeds + 1 - (run.feed + 1)
<1>1. n \in Nat /\ FeedsLeft = n + 1 /\ FeedsLeft' = n
  BY Place, Counts DEF FeedsLeft, Feeds
<1> HIDE DEF n
<1>2. Work(n) \in Nat /\ Work(FeedsLeft) = Work(n) + NumPaths + 2
  BY <1>1, WorkFalls
<1>3. StepsLeft' = Work(n) + 1
  BY <1>1, RemainingNext
<1> QED BY <1>2, <1>3, Place, Remaining, Counts

\* The reader goes on in this feed.
LEMMA FeedGoesOn ==
  ASSUME FeedInv, run'.feed = run.feed, run'.pc = "artifacts",
         \/ run.pc = "manifest" /\ run'.path = run.path
         \/ run.pc = "artifacts" /\ run'.path = run.path + 1
  PROVE  StepsLeft' < StepsLeft
<1>1. FeedsLeft' = FeedsLeft
  BY DEF FeedsLeft
<1>2. StepsLeft' = Work(FeedsLeft) + 1 - run'.path
  BY <1>1, RemainingNext
<1> QED BY <1>2, Place, Remaining, Counts

\* A step of the run, and one that ends it.
RunStep ==
  \/ ManifestUnreachable \/ \E v \in Versions : FetchManifest(v)
  \/ ArtifactUnreachable \/ FetchArtifact \/ FetchWrong
  \/ FeedDone \/ Finish \/ Kill

LEMMA StepsFall ==
  ASSUME FeedInv, RunStep
  PROVE  StepsLeft' < StepsLeft
<1>1. run \in Runs
  BY Place
<1>2. CASE ManifestUnreachable \/ FeedDone
  <2>1. /\ run'.feed = run.feed + 1 /\ run'.pc = "manifest"
        /\ run.pc \in {"manifest", "artifacts"} /\ run.feed \in Feeds
    BY <1>1, <1>2, Place DEF ManifestUnreachable, FeedDone, Reported, Runs
  <2> QED BY <2>1, FeedPassed
<1>3. CASE \E v \in Versions : FetchManifest(v)
  <2>1. /\ run'.feed = run.feed /\ run'.pc = "artifacts"
        /\ run.pc = "manifest" /\ run'.path = run.path
    BY <1>1, <1>3 DEF FetchManifest, Runs
  <2> QED BY <2>1, FeedGoesOn
<1>4. CASE ArtifactUnreachable \/ FetchArtifact \/ FetchWrong
  <2>1. /\ run'.feed = run.feed /\ run'.pc = "artifacts"
        /\ run.pc = "artifacts" /\ run'.path = run.path + 1
    BY <1>1, <1>4 DEF ArtifactUnreachable, FetchArtifact, FetchWrong, Runs
  <2> QED BY <2>1, FeedGoesOn
<1>5. CASE Finish \/ Kill
  <2>1. run'.pc = "idle" /\ run.pc # "idle"
    BY <1>5 DEF Finish, Kill, IdleRun
  <2>2. StepsLeft' = 0
    BY <2>1, RemainingNext
  <2> QED BY <2>1, <2>2, StepsBounded
<1> QED BY <1>2, <1>3, <1>4, <1>5 DEF RunStep

\* Publications do not lengthen a run.
LEMMA PublishCounts ==
  ASSUME FeedInv, [Next]_vars, ~ RunStep, ~ Start
  PROVE  StepsLeft' = StepsLeft
<1>1. run'.pc = run.pc /\ run'.feed = run.feed /\ run'.path = run.path
  <2>1. CASE \E f \in Feeds, v \in Versions : Publish(f, v)
    BY <2>1, Place DEF Publish, Runs
  <2>2. CASE UNCHANGED vars
    BY <2>2 DEF vars
  <2> QED BY <2>1, <2>2 DEF Next, RunStep
<1>2. FeedsLeft' = FeedsLeft
  BY <1>1 DEF FeedsLeft
<1> QED BY <1>1, <1>2, Place, Remaining, RemainingNext

\* A run of the reader takes at most NumPaths + 2 steps for each feed and one
\* more: nothing is asked for twice, and a feed that is republished while it is
\* read does not send the run back.
THEOREM RunsAreBounded ==
  Spec => /\ [](StepsLeft \in 0..MostSteps)
          /\ [][/\ RunStep => StepsLeft' < StepsLeft
                /\ ~ Start => StepsLeft' <= StepsLeft]_vars
<1> DEFINE Bounded == StepsLeft \in 0..MostSteps
           Counted == /\ RunStep => StepsLeft' < StepsLeft
                      /\ ~ Start => StepsLeft' <= StepsLeft
<1>1. FeedInv => Bounded
  BY StepsBounded
<1>2. MostSteps \in Nat
  BY WorkFalls, Counts DEF MostSteps
<1>3. ASSUME FeedInv, FeedInv', [Next]_vars
      PROVE  [Counted]_vars
  <2>1. Bounded /\ Bounded'
    BY <1>1, <1>3, PTL
  <2>2. StepsLeft \in Nat /\ StepsLeft' \in Nat
    BY <1>2, <2>1
  <2>3. RunStep => StepsLeft' < StepsLeft
    BY <1>3, StepsFall
  <2>4. ~ RunStep /\ ~ Start => StepsLeft' = StepsLeft
    BY <1>3, PublishCounts
  <2> QED BY <2>2, <2>3, <2>4
<1> HIDE DEF Bounded, Counted
<1>4. Spec => []Bounded /\ [][Counted]_vars
  BY <1>1, <1>3, FeedInvariant, PTL DEF Spec
<1> QED BY <1>4 DEF Bounded, Counted
=============================================================================
