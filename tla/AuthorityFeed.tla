--------------------------- MODULE AuthorityFeed ----------------------------
(***************************************************************************)
(* Authority feeds: export_authority_feed.py builds the feed of one commit *)
(* and a workflow publishes it; fetch_peer_authority.py reads the feeds of *)
(* all peers, one HTTP request after another, stores every file it gets    *)
(* and compares its digest with the manifest's.                            *)
(*                                                                         *)
(* A bundle is the directory <repo_id>/<source_sha>: two feeds meet in one *)
(* bundle when their repositories have one name and one commit, as forks   *)
(* have.  Feeds are republished while they are read.                       *)
(***************************************************************************)
EXTENDS Naturals

CONSTANTS
  NumFeeds,  \* how many manifest URLs the reader is given
  Repos,     \* repo_id, the name of a repository without its owner
  RepoOf,    \* the repo_id in the manifests of a feed
  Versions,  \* source_sha
  NumPaths,  \* how many artifacts a feed has
  Null

Feeds == 1..NumFeeds
Paths == 1..NumPaths

ASSUME Counts == NumFeeds \in Nat /\ NumPaths \in Nat
ASSUME NullIsNoVersion == Null \notin Versions
ASSUME Naming == RepoOf \in [Feeds -> Repos]

VARIABLES
  branch,  \* the versions each feed's branch serves
  disk,    \* the reader's output directory
  run,     \* the local variables of fetch_peer_authority.py
  report   \* verification-report.json and the exit status

vars == <<branch, disk, run, report>>

-----------------------------------------------------------------------------
Bundles  == Repos \X Versions

\* Mutant: the directory is <source_sha>/<repo_id>.
BundleSwapped(f, v) == <<v, RepoOf[f]>>
Bundle(f, v) == <<RepoOf[f], v>>

\* The bytes at a path: none, those the manifest's digest is of, or others.
Bytes == {"none", "right", "wrong"}

Statuses == {"ok", "partial", "integrity_error", "unreachable"}

Runs == [pc : {"idle", "manifest", "artifacts"},
         feed : 1..NumFeeds + 1,   \* the URL the loop in main is at
         path : 1..NumPaths + 1,   \* the artifact the inner loop is at
         version : Versions \cup {Null},
         status : Statuses,
         ok : SUBSET Bundles,      \* bundles reported ok so far
         bad : SUBSET Bundles,     \* bundles reported otherwise so far
         allOk : BOOLEAN,          \* all(r["status"] == "ok" for r in reports)
         calm : BOOLEAN]           \* history: no call failed, and no bundle was
                                   \* replaced while it was being read

IdleRun == [pc |-> "idle", feed |-> 1, path |-> 1, version |-> Null, status |-> "ok",
            ok |-> {}, bad |-> {}, allOk |-> TRUE, calm |-> TRUE]

Reports == [exit : {"none", "zero", "one"},
            ok : SUBSET Bundles, bad : SUBSET Bundles,
            intact : BOOLEAN]     \* history: no later run has touched the files

Init ==
  /\ branch \in [Feeds -> {{v} : v \in Versions}]
  /\ disk = [b \in Bundles |-> [p \in Paths |-> "none"]]
  /\ run = IdleRun
  /\ report = [exit |-> "none", ok |-> {}, bad |-> {}, intact |-> TRUE]

-----------------------------------------------------------------------------
\* An export of the checked-out commit that exits with 0, and its publication:
\* the branch keeps the bundles of earlier commits or not.
Publish(f, v) ==
  /\ branch[f] # {v}
  /\ \E kept \in SUBSET branch[f] : branch' = [branch EXCEPT ![f] = {v} \cup kept]
  /\ run' = [run EXCEPT !.calm = @ /\ ~ (/\ run.pc = "artifacts"
                                         /\ run.feed = f
                                         /\ run.version \notin branch'[f])]
  /\ UNCHANGED <<disk, report>>

Start ==
  /\ run.pc = "idle"
  /\ run' = [IdleRun EXCEPT !.pc = "manifest"]
  /\ UNCHANGED <<branch, disk, report>>

\* The loop in main takes note of a report and goes to the next URL.
Reported(status) ==
  [run EXCEPT !.pc = "manifest", !.feed = @ + 1, !.path = 1, !.version = Null,
              !.status = "ok", !.allOk = @ /\ status = "ok"]

ManifestUnreachable ==
  /\ run.pc = "manifest"
  /\ run.feed \in Feeds
  /\ run' = [Reported("unreachable") EXCEPT !.calm = FALSE]
  /\ UNCHANGED <<branch, disk, report>>

\* Caches may serve the manifest of any version the branch still has.
FetchManifest(v) ==
  /\ run.pc = "manifest"
  /\ run.feed \in Feeds
  /\ v \in branch[run.feed]
  /\ run' = [run EXCEPT !.pc = "artifacts", !.version = v]
  /\ UNCHANGED <<branch, disk, report>>

\* curl_bytes returns None: what an earlier run stored stays.
ArtifactUnreachable ==
  /\ run.pc = "artifacts"
  /\ run.path \in Paths
  /\ run' = [run EXCEPT !.path = @ + 1, !.status = "partial", !.calm = FALSE]
  /\ UNCHANGED <<branch, disk, report>>

Store(bytes) ==
  /\ disk' = [disk EXCEPT ![Bundle(run.feed, run.version)][run.path] = bytes]
  /\ report' = [report EXCEPT !.intact = FALSE]

\* Mutant: the file is compared with content_sha256, the digest of the
\* canonical JSON.
FetchOtherDigest ==
  /\ run.pc = "artifacts"
  /\ run.path \in Paths
  /\ run.version \in branch[run.feed]
  /\ Store("right")
  /\ run' = [run EXCEPT !.path = @ + 1, !.status = "integrity_error"]
  /\ UNCHANGED branch

FetchArtifact ==
  /\ run.pc = "artifacts"
  /\ run.path \in Paths
  /\ run.version \in branch[run.feed]
  /\ Store("right")
  /\ run' = [run EXCEPT !.path = @ + 1]
  /\ UNCHANGED branch

\* Mutant: a truncated answer is stored without a change of the status.
FetchUnchecked ==
  /\ run.pc = "artifacts"
  /\ run.path \in Paths
  /\ Store("wrong")
  /\ run' = [run EXCEPT !.path = @ + 1, !.calm = FALSE]
  /\ UNCHANGED branch

\* Other bytes than the manifest's: they are stored all the same.
FetchWrong ==
  /\ run.pc = "artifacts"
  /\ run.path \in Paths
  /\ Store("wrong")
  /\ run' = [run EXCEPT !.path = @ + 1, !.status = "integrity_error", !.calm = FALSE]
  /\ UNCHANGED branch

FeedDone ==
  /\ run.pc = "artifacts"
  /\ run.path \notin Paths
  /\ run' = LET b == {Bundle(run.feed, run.version)} IN
       [Reported(run.status) EXCEPT !.ok = IF run.status = "ok" THEN @ \cup b ELSE @,
                                    !.bad = IF run.status = "ok" THEN @ ELSE @ \cup b]
  /\ UNCHANGED <<branch, disk, report>>

\* The report is written, and main returns 0 if every feed was ok.
Finish ==
  /\ run.pc = "manifest"
  /\ run.feed \notin Feeds
  /\ report' = [exit |-> IF run.allOk THEN "zero" ELSE "one", ok |-> run.ok,
                bad |-> run.bad, intact |-> TRUE]
  /\ run' = IdleRun
  /\ UNCHANGED <<branch, disk>>

\* The process dies: the files it stored stay, under the old report.
Kill ==
  /\ run.pc # "idle"
  /\ run' = IdleRun
  /\ UNCHANGED <<branch, disk, report>>

Next ==
  \/ \E f \in Feeds, v \in Versions : Publish(f, v)
  \/ Start \/ ManifestUnreachable \/ \E v \in Versions : FetchManifest(v)
  \/ ArtifactUnreachable \/ FetchArtifact \/ FetchWrong
  \/ FeedDone \/ Finish \/ Kill

Spec == Init /\ [][Next]_vars

-----------------------------------------------------------------------------
(* Properties.                                                             *)

\* Every variable keeps its type.
TypeOK ==
  /\ branch \in [Feeds -> SUBSET Versions]
  /\ disk \in [Bundles -> [Paths -> Bytes]]
  /\ run \in Runs
  /\ report \in Reports

\* A bundle reported "ok" is on disk as its manifest names it, each artifact
\* with its digest, whatever earlier, failed or killed runs left there and
\* whichever feeds share the bundle, unless the same report names it as not
\* ok too; and a command that exits with 0 reports no such bundle.  It stays
\* so until another run stores something.
OkIsWhole ==
  /\ report.intact =>
       \A b \in report.ok \ report.bad, p \in Paths : disk[b][p] = "right"
  /\ report.exit = "zero" => report.bad = {}

\* A run in which no call fails exits with 0, also when feeds are republished
\* meanwhile, unless a bundle is replaced while it is read.
FetchWorks ==
  [][Finish /\ run.calm => report'.exit = "zero"]_vars
=============================================================================
