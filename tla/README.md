# Verification of agent-red-team

TLA+ models of this repository's stateful parts, TLC runs that check them on
small instances, and TLAPS proofs of their main properties for every instance.
The source is the reference: each definition that models code is listed with the
file and lines it translates under `map` in `PROJECT.json`, and the places where
the code is hard to test are listed there under `hazards`, with the properties
that watch them. Paths below are relative to the repository.

To repeat the work, in this directory:

    tlc -config EventStore.cfg MCEventStore.tla     # a run
    tlapm EventStoreProofs.tla                      # a proof module

## 1. Inventory

agent-red-team is a seed of an auditing agent that is a node of a federation. It
has a persistence kernel (a Python package), a set of operator scripts, and
GitHub workflows. The parts hardly call each other: they meet in files, in one
SQLite database, and at GitHub.

| Component | Source | State | Operations |
|---|---|---|---|
| Event repository | `src/agent_red_team/persistence/{repository,serialization,connection,models}.py` | the five tables of a SQLite file; one lock per path and process | `record_run_event` |
| Schema migration | `persistence/migration.py`, `EventRepository.__init__` | `_path_locks`, the schema and its version row | constructor, `migration.apply` |
| Branch-protection baseline | `scripts/governance/` | rulesets and classic protection at GitHub | `detect_repository`, `inspect_governance`, `ensure_governance_baseline` |
| Setup command line | `scripts/setup_node.py` | `.federation-setup.json`, the generated files | setup, `--status`, `--apply-governance` |
| GitHub and HTTP helpers | `scripts/federation_utils.py` | none | `github_api`, `curl_json`, `curl_bytes` |
| NADI outbox and relay | `scripts/nadi_send.py`, `.github/workflows/heartbeat.yml` | `nadi_outbox.json`, `data/federation/`, a file in the hub repository | send, list, clear; commit, relay, push |
| NADI daemon, head agent | `scripts/nadi_daemon.py`, `head_agent.py` | the cycle; the rest is in `nadi_kit`, which is not here | one cycle |
| Peer discovery | `scripts/discover_federation_peers.py`, its workflow | `.federation/peers.json` | discover from seeds, from topic search |
| Authority feed | `scripts/{export_authority_feed,fetch_peer_authority}.py`, its workflow | a branch with bundles and a manifest; downloaded feeds | export, fetch and verify |
| Rendered descriptors | `scripts/render_*.py`, the `sync-*` workflows | `.well-known/*.json` | render, commit, push |
| Quickstart | `scripts/quickstart.py` | none | one pass of checks |
| Contracts and pipeline | `contracts.py`, `models.py`, `pipeline.py` | none: types only | none |
| Schemas, examples, templates | `schemas/`, `examples/`, `.github/ISSUE_TEMPLATE/` | static | none |
| Architecture documents | `docs/architecture/` | a vision of later versions | none |

**Event repository.** Callers are threads of any number of processes. Threads of
one process share a lock per resolved path; processes meet only in SQLite's one
write transaction. A call checks its idempotency record, resolves or creates the
run, inserts event, state and record, and commits. An exception out of `commit()`
leaves the outcome unknown: the code looks for the record in a new connection,
answers a replay if it is there, and otherwise tries once more. Hard: two callers
with one key, two processes creating one run, a crash or an error between any two
statements, a commit that landed and raised, a retry meeting another process'
use of the key, an event row damaged between commit and replay. Correct means:
each committed event is the result of exactly one key, of the request that was
asked for; an acknowledged result is never lost; a refusal leaves nothing; the
lock is never leaked; every call ends.

**Schema migration.** A constructor finds or creates the lock of its path in a
shared registry, then creates tables and indexes inside `BEGIN IMMEDIATE`. Hard:
two constructors of one process, two processes on a fresh file, a failure between
two DDL statements. Correct means: one lock per path and process, all of the schema
or none of it, no constructor tripping over another's rows.

**Governance.** A run reads two sources, one HTTP call after the other, judges
three rules, asks the user or has been given a flag, lists the rulesets, posts
one, and judges again. Administrators and other runs change the repository at any
moment; a call may fail, be answered late, or hide what the token may not see.
Correct means: CONFORMANT and NON_CONFORMANT are said only when they are so, the
tool writes only what and when it may, and an apply nobody disturbs succeeds.

**Outbox.** `nadi_send.py` reads a JSON file as a whole and writes it back as a
whole, with no lock. Hard: commands of several processes that overlap, a kill between the
truncation of the file and the end of its filling, a file that is missing, empty, torn or no
array. Correct means: what is lost, is lost to a clear, an overlap or a kill in that
one gap; the order of the queue survives all of them.

**Relay.** The heartbeat workflow checks out the node, lets `nadi_kit` rewrite another
outbox, pushes the node's state, copies the outbox over a file of the hub, and
pushes that with retries. Hard: a step that fails half way and is followed by steps that
run always, pushes that are rejected, rebases onto what others wrote, a runner that is
lost. Correct means: a relay that is reported took place; the run's pushes lose
nothing of others; every run ends.

**Authority feed.** A reader fetches a manifest and then each artifact, stores what
it gets and compares digests. Hard: feeds republished between two of the requests,
artifacts that fail, two feeds that store into one directory, a reader that dies. Correct
means: a bundle reported ok is whole on disk; a run in which nothing goes wrong
says so.

**Discovery.** A run collects peers from seeds and from a search, verifies their
feeds and commits a registry. Hard: a federation that changes between the calls, calls that
fail, one page of results, a branch others push to. Correct means: each peer
once and no peer invented; only verified feeds reach the branch, and not over
another push.

**Descriptors.** Two workflows render two files from each push to main and push them
back. Hard: they run in parallel, late or not at all, and one reads the other's
file. Correct means: a run that ends well leaves a current file, and takes nothing back.

## 2. Modules

    EventStore ── EventStoreInvariant ── EventStoreRefinement ──┬── MCEventStore (TLC)
                                              │                 └── EventStoreProofs
                                              └ INSTANCE IdempotentLedger
    SchemaMigration ── SchemaMigrationRefinement ──┬── MCSchemaMigration (TLC)
                              │                    └── SchemaMigrationProofs
                              └ INSTANCE AtomicMigration
    GovernanceBaseline ── Governance ──┬── MCGovernance (TLC)
                                       └── GovernanceProofs
    NadiOutbox ─────┬── MCNadiOutbox (TLC)        NadiRelay (TLC) ── NadiRelayProofs
                    └── NadiOutboxProofs
    AuthorityFeed ──┬── MCAuthorityFeed (TLC)     Discovery ──┬── MCDiscovery (TLC)
                    └── AuthorityFeedProofs                   └── DiscoveryProofs
    DescriptorSync ─┬── MCDescriptorSync (TLC)
                    └── DescriptorSyncProofs

### EventStore

One action per SQL statement, commit or lock operation of `record_run_event`.

| Model | Code |
|---|---|
| `lock[p]` | `with self._lock` in process `p` |
| `writer`, `work` | the connection inside `BEGIN IMMEDIATE`, and what it sees |
| `db` | what is committed: subjects, runs, events, run_state, idempotency_records |
| `frame[t]` | the local variables of a call: its place, request, `_is_retry`, run, event, answer |
| `Call`, `AcquireLock`, `Return` | digests before the lock; entering and leaving `with`, by a result or an exception |
| `FindNoRecord`, `FindReplay`, `FindConflict` | the idempotency check and its two early ends |
| `EnsureSubject`, `UseRun`, `RefuseRevision`, `CreateRun` | `INSERT OR IGNORE`, `_resolve_or_create_run` |
| `InsertEvent`, `UpsertRunState`, `InsertRecord`, `Commit` | the four remaining statements |
| `StatementFails`, `BeginFails` | any other exception: rollback and re-raise |
| `CommitRaisesLate`, `CommitRaisesEarly` | `commit()` raises after, or before, it took effect |
| `RecoverReplay`, `RecoverConflict`, `RetryOnce`, `GiveUp` | `_recover_after_uncertain_commit` and the single retry |
| `ReconstructResult`, `RefuseDamaged`, `ReadFails` | `_reconstruct_result` with its payload digest |
| `Crash(p)` | a process dies: its lock and open transaction are gone, its calls unanswered |
| `Damage(e, v)` | something other than the repository deletes an event row, or alters its payload, its `payload_hash` or both (`Tampered`, `Forged`, `Gone`); no other column |

`mine` (this call's commit reached the disk), `acked`, `calls` and `damage` are
history or bounds. `Quiet` is the end of a bounded run, so that a deadlock of the
code is still found as a deadlock.

**EventStoreInvariant** states the inductive invariants (section 5).
**IdempotentLedger** is the abstract specification: an append-only ledger with one
entry per key, entered in one step, whose clients may vanish. **EventStoreRefinement**
maps the detailed state to it: the ledger is the table of idempotency records, a
client has *entered* when its commit landed, and two digests clash when they give
one subject and request two revisions.

### SchemaMigration

`EventRepository.__init__`: `mutex` is `_path_locks_lock`, `registry` the entry of
the path, `owner` the holder of each lock object. The look-up and the insertion of
`_get_path_lock` are steps of their own, and so is each of the eight statements of
the migration. `StatementFails`, `CommitRaises` and `Crash` are its failures.
**AtomicMigration** is what the constructor promises: one step takes the file from no
schema to the whole, and a repository is handed out only after such a step of the same
client. **SchemaMigrationRefinement** maps the detailed state to it: the schema is what is
committed, a client is served when its commit landed and was reported.

### GovernanceBaseline and Governance

`GovernanceBaseline` has no state. It holds the judgements as operators:
`ClassicConfirms`, `RuleStatus`, `Compliance` and `Compatible` are `_classic_confirms`,
`_rule_status_for_type`, `_overall_compliance` and `_is_compatible`, and `Payload` is
`RULESET_PAYLOAD_V1`. `Enforced` and `ClassicEnforced` say what GitHub enforces; they
are external, and the properties compare the tool's judgement with them.

`Governance` has one action per HTTP call or decision of a run.

| Model | Code |
|---|---|
| `rulesets`, `classic` | GitHub's state; `EditRulesets`, `EditClassic` are administrators |
| `config` | `.federation-setup.json` exists |
| `Start(p, m)` | `main()` in mode `m`: `--status`, `--apply-governance`, setup with its flags |
| `Detect`, `DetectFails` | `detect_repository` |
| `ReadRules`, `ReadClassic`, `ClassicHidden`, `ClassicUnread` | the two reads of `inspect_governance`; 404 also for what the token may not see |
| `Decide` | the flag, the question, the early returns of the governance step |
| `ListRulesets`, `FetchDetail`, `DetailUnusable` | `ensure_governance_baseline` finds an existing ruleset by name, on the first page |
| `PostRuleset`, `PostLost`, `PostRefused` | the POST: answered, answered too late, refused |
| `Exit` | the exit status of each entry point |
| `Kill` | the run is interrupted |

`seen`, `calm` and `clean` are history: the rules in force since the inspection
began, whether anybody else changed (or GitHub hid) anything during the run, and
whether every call was answered.

### NadiOutbox

One action per access of a command of `nadi_send.py` to the file.

| Model | Code |
|---|---|
| `file` | `nadi_outbox.json`: missing, empty, JSON of another form, torn, or an array of envelopes |
| `frame[p]` | the command process `p` runs, its envelope, and the list it has read |
| `Send`, `List`, `Clear` | `cmd_send` up to `build_envelope`, `cmd_list`, `cmd_clear` |
| `FindMissing`, `FillNew` | `_read_outbox` creates the file |
| `Read`, `ReadTorn` | `_read_outbox` reads an array or something it takes for an empty queue; `json.loads` raises, also on a file another command is in the middle of writing |
| `Truncate`, `Fill` | the two halves of `write_text` |
| `Overlay` | a write from the start of a file that another process has filled meanwhile |
| `Kill` | a signal, between any two accesses or in the middle of a write, which leaves a torn file |

`used`, `stored`, `earlier` and `excused` are history: envelopes built, envelopes whose write
ended, what was stored before a send began, and the envelopes that a clear, an overlap of
two writing commands or a kill after a truncation may take.

### NadiRelay

One action per step or command of `heartbeat.yml`, for one run at a time (its
concurrency group) and any sequence of runs.

| Model | Code |
|---|---|
| `origin`, `hub` | the main branches of the node and of `steward-federation` |
| `run` | the runner: its checkout, and whether the node's branch has moved since |
| `clone` | `/tmp/hub`: the relay's commit, its parent, whether the hub has moved, the count of pushes |
| `Begin`, `Download`, `Cycle` | checkout, the pinned `nadi_kit`, its cycle (external: any outbox) |
| `PushState`, `PushStateRejected` | "Commit federation state", `git push \|\| true`, also after a failure |
| `SkipRelay`, `CloneHub`, `RelayFails` | the first half of the relay step, under `bash -e` |
| `Push`, `Retry`, `Pull`, `GiveUp` | the `until` loop; `Rebased` is git's merge of one file |
| `Clear`, `ClearFails` | `echo "[]" > "$OUTBOX"` in the clone |
| `Kill` | a lost runner, or `timeout-minutes` |
| `OperatorPush`, `HubPush` | everybody else |

Commits have no identity here: a push is accepted if the tip has not moved, which is
what fast-forward means for a branch nobody forces. `carried` is history: the envelopes
that the hub's file has held since the run began.

### AuthorityFeed

`fetch_peer_authority.py`, call by call: `FetchManifest`, `FetchArtifact`,
`FetchWrong` (other bytes than the manifest's), `ArtifactUnreachable`,
`ManifestUnreachable`, then `FeedDone`, the loop over the URLs and `Finish`, which writes
the report and decides the exit status. `disk` is the output directory, keyed like the
code's by repository name and commit, so that a fork's feed meets the original's;
`Publish` is an export and its publication, which keeps or drops earlier bundles. An
artifact is none, right or wrong; `calm` and `intact` are history.

### Discovery

`discover_federation_peers.py` and its workflow: `FetchSeed`, `Search`,
`SearchFails`, `FetchItem`, `ItemsDone` build `run.found`; `FeedOk` and `FeedNotOk` are the
next step's `fetch_peer_authority.py`, one feed each; `AddIgnored`, `NothingToCommit`,
`Commit`, `Push`, `PushRejected` are the last step, including that `git add` refuses an
ignored path that is not tracked. `Label` and `OthersPush` are the federation and the
operators.

### DescriptorSync

`Descriptor` and `Card` are the two renderers, reduced to what their output depends
on. `Merge` and `PushIgnored` are the pushes of operators, with files as a setup's
`_regenerate` may have rendered them: it only warns when a script fails, so a card may stem
from the old descriptor (`Rendered`). `BranchMoves` starts a run of each workflow unless
`paths-ignore` says otherwise; `Dispatch` starts one by hand. A run has `Render`,
`Push` or `Rejected`, or `RunFails`. `tip` and `late` stand for the identity of
commits.

## 3. Runs

| Run | Instance | Question | Distinct states |
|---|---|---|---|
| `event_store` | 3 threads in 2 processes, 2 keys, 2 request ids, 2 revisions, 2 bodies, 3 calls | no leaked lock, exactly once, whole rows, durable and fresh answers | 884,669 |
| `ledger` | the same processes, 2 calls, 1 damaged row, fair | implements `IdempotentLedger`; the payload of a replay is verified; every call ends | 119,895 |
| `schema_migration` | 3 threads in 2 processes, 3 opens, fair | implements `AtomicMigration`; no statement refused, one lock; every constructor ends | 58,440 |
| `governance` | 2 runs, 2 ruleset ids, page of 1, 1 edit | what is said was so; writes are allowed; an apply works | 1,524,764 |
| `governance_exit` | 1 run, no edits | expected violation | - |
| `nadi_outbox` | 3 processes, 3 envelopes | what overlapping commands may lose; the order of the queue | 12,982 |
| `heartbeat` | 2 envelopes, 2 contents of other files, 2 retries, fair | what is said to be relayed was; nothing of others is lost; runs end | 184,016 |
| `heartbeat_cleared` | the same | expected violation | - |
| `authority_feed` | 2 feeds in one directory, 2 versions, 2 artifacts | what is reported ok is whole; a calm run is ok | 241,600 |
| `discovery` | 3 repositories, 2 seeds, page of 1, 2 contents of other files | whom a registry lists; what reaches the branch | 2,735,920 |
| `discovery_committed` | the same | expected violation | - |
| `descriptor_sync` | 3 manifests, 2 pushes of operators, 2 runs of each workflow | a synchronised file is current; a push is what the tip would render | 2,881,602 |

All of them hold, except the three whose violation is the result (section 4).

**Bounds.** `MaxCalls`, `MaxDamage`, `MaxOpens`, `MaxRuns`, `MaxEdits` and `MaxPushes` appear
in the guards of the actions that count, and nowhere else; `MaxRetries` is the code's
own limit. They are large enough for the cases that matter:

- *Event store.* Three calls in two processes allow a call whose commit is uncertain, another process using
  its key before the retry, and a third call that replays; or two runs, one of
  them with two events. Two revisions and two bodies are all that equality of digests can
  tell apart. One damaged row suffices because replays look at one row.
- *Governance.* With a page of one ruleset and two identifiers, the first page
  overflows; two runs race their POSTs; one edit changes protection between any two calls, and,
  as the edit that creates a ruleset, stands for a third writer. The initial states are all
  those the shapes allow, so several edits before a run need no bound.
- *Outbox.* The state space is finite without a bound on commands: only sends are
  limited, by the envelopes. Three processes are an overlap and a third command that meets
  its result; three envelopes are one queued before and two that compete.
- *Heartbeat.* Runs, operators' and other nodes' pushes are unbounded. Two retries are one
  after another; the code's ten add none but more of the same. Two envelopes tell a file
  that grows from one that shrinks.
- *Authority feed.* Runs and publications are unbounded. Two feeds share one bundle
  directory, two artifacts have a gap between them, two versions are before and after.
- *Discovery.* Runs are unbounded. Three repositories are the node, a seed and one that is
  found only by its topic; two of them overflow a page of one.
- *Descriptors.* Two pushes and two runs of each workflow give a run of an earlier
  push meeting one of a later push, or a dispatched run meeting one that a push started.

The proofs do not depend on these numbers.

**Symmetry** is used for values the code only compares: keys, request ids, revisions
and bodies, threads of one process, ruleset ids and runs, processes and envelopes of the
outbox, versions of a feed. It is not used in runs with liveness.

**Deadlock** is checked everywhere but in the two governance runs, where all runs
may be over and the administrators' bound used up, and in `descriptor_sync`, where all
pushes and runs may be used up: the system really stops there.

**Fairness.** `FairSpec` in EventStore and SchemaMigration assumes weak fairness of
each thread's next step: a thread that can run does run. This is what the code
justifies: its only wait is for the process lock, and `BEGIN IMMEDIATE` gives up
after `busy_timeout` (connection.py), which is `BeginFails`, an alternative that
is always there. Nothing is assumed about new calls, crashes or damage. Weak
fairness is enough for `EveryCallEnds` because the calls are bounded: while callers
keep coming, Python's lock promises no turn to a thread that waits. `FairSpec` in NadiRelay
assumes weak fairness of the run's next step, whichever that is: the job has `timeout-minutes`, so a
command that hangs is cut off. No fairness of a push that succeeds is assumed, and
others may win each race; `EveryRunEnds` rests on the count of retries. Governance,
the reader of feeds and discovery have no liveness property: they use
curl with a connect timeout and no limit on the transfer (`curl_json` and
`curl_bytes` alike), so the code gives no reason why a call should end. The sync workflows
have none since a rejected run is not tried again: there is nothing they must reach.

## 4. What the runs show

**Event store.** Two processes keep every property of one. `repository.py:66` calls the
class "Not safe for multi-process access"; in the model, SQLite's write transaction and the
recovery protocol suffice, and the process lock only orders the threads of
one process. What several processes do lose is patience: `BeginFails`.
The retry is safe because it re-enters the whole transaction, and the answer
`norecord` is given only when nothing of the call is in the database. An uncertain commit
that landed is always answered as a replay, an unknown outcome or a damaged row,
never as a failure.

The check on replay compares a row with itself: the payload with the `payload_hash` beside it
(`repository.py:442`), not with the request. A row that is gone, or in which one of the two
columns was altered, is refused. One in which both were altered together (`Forged`) is served, and the
model does serve it: `PayloadVerified` excepts this case, and is violated without the
exception. `audit_run_id` is returned unchecked (`repository.py:449`); nothing alters it in the
model, and no property says that an alteration would be noticed.

**Governance.** `CONFORMANT` means that each rule was in force at some moment since the
inspection began. It does not mean that all of them were at one moment: protection
moved between the two sources while a run reads them is judged from two moments, and
a stronger property would be false of the code.
`NON_CONFORMANT` can be said of a protected branch when GitHub answers 404 for a
protection the token may not see; `MissingIsWitnessed` is about runs from
which GitHub hid nothing. With more than one page of rulesets, or with two runs at once,
the code may create a second ruleset with the reserved name: `WritesAreAllowed` therefore
claims the absence of the name only for an undisturbed run with one page.

**Outbox.** Overlapping senders lose envelopes, and a sender that read the file before a
clear brings cleared ones back; the code takes no lock, and `Kept` says how
far the loss can go. What survives everything is `InOrder`: no envelope twice, none
before one that was queued before its own send began.

**Heartbeat.** The relay is sound in what it reports and in what it does to
others: a rebase keeps what was put into the hub's file since the clone, or
fails. But `cp` replaces the file as it was cloned, so an envelope that another
node of the same template, whose workflow names the same file, had put there before is
gone; `PushLosesNothing` therefore excepts `clone.found`.

**Authority feed.** A wrong artifact is stored all the same, and a later
unreachable one turns its status from `integrity_error` into `partial`. Neither does harm to what
is reported ok. A bundle that two feeds share can be reported ok and not ok by one report, hence
`report.ok \ report.bad`; the exit status is then 1.

**Discovery.** A failed search leaves only the seeds, and so does one feed that is not
ok: the job ends before its commit. `FindsEachOnce` asks for all peers only when every seed and
the search were answered and one page was enough.

**Descriptors.** The two runs of one push race, the later push is rejected, and
nothing tries it again: one of the two files stays as it was until the next push. `README.md:133`
says the workflows "will automatically regenerate" all files; the model has behaviours that end with
one of them old, and `SyncedIsCurrent` is about runs that end well. A setup for another layer
than `node` (`--layer`'s default) pushes a descriptor whose layer the first sync replaces.

**Findings**, each the violation of one run:

- `governance_exit`: `setup_node.py:770` says "With explicit
  --apply-governance, exit code reflects governance result". For the full
  setup it does not: `main` hands an enumeration member to `SystemExit`, which prints it
  and exits with 1, for a CONFORMANT repository as for any other. The standalone
  `--apply-governance` converts it and is right.
- `heartbeat_cleared`: `heartbeat.yml:96` says "Outbox relayed and cleared". The relative path
  is written in the clone of the hub, after `cd /tmp/hub`; the node's outbox keeps its
  envelopes, and the next run relays them again.
- `discovery_committed`: the step "Commit discovery results" adds a path that
  `.gitignore:4` ignores and the repository does not track: `git add` exits with 1 and the
  registry is not committed.

**Seen while modelling, outside any run.** `nadi_send.py:107` says the relay will pick an
envelope up, but the workflow relays `data/federation/nadi_outbox.json` and the script
writes `nadi_outbox.json`. The heartbeat downloads `nadi_kit.py` from its raw URL and
decodes it as an API document, and `tests/test_workflow_source.py:11` asks for a blob URL the
workflow does not have; so `Download` has the answer "file itself", after which the cycle is skipped
and the relay goes on. The setup's PUT (`setup_node.py:382`) replaces all topics of
the repository by one.

## 5. Proofs

TLC's instances are small; the theorems hold for all values of the constants that
satisfy the named assumptions. Those are: each thread runs in one process
(`Placement`), the special values are not ordinary ones (`Distinct`, `NullIsNoRow`,
`NullIsNoEnvelope`, `NoCloneIsNone`, `NullIsNoVersion`, `Identifiers`), the bounds
and counts are natural numbers (`Bounds`, `Retries`, `Counts`), the shapes administrators use are
rulesets and protections, ruleset identifiers are finitely many (`Repository`,
`Identifiers`), each feed has a repository (`Naming`), the node and the seeds are among finitely many
repositories (`Names`, `Sizes`), and one manifest is the broken one (`BrokenManifest`). Nothing is assumed about the number of threads, processes, keys,
runs, calls, envelopes or feeds.

**EventStoreProofs** (`Inductive`). The safety properties are not inductive: that each
committed event has one key is a fact about commits, and a commit copies `work`.
`IInv` therefore says what `work` may be between two statements: the tables are sound
except for one event no key names yet (`Pending`) and one run with no event yet
(`Unfiled`); `work` extends `db`, and equals it when nobody writes (`WorkExtends`); and each
call knows what its place says it has done (`InProgress`, `Knows`): after the check its key
is free, at the commit its record is the only new one, on the way out its record is
stored. `LockDiscipline` makes the last part local to one call, since the writer
is unique. There is one step per action. `Typing`, `LockSafe`, `OnceOnly`,
`RecordsMatch`, `OneRun`, `Durable` and `Refusals` follow from it.

Two more invariants are proved relative to `IInv`. `RowsInv` (`RowsInductive`) is about
completeness: the subjects, runs, states and events of the tables cover each other except for what
the writing call has still to insert (`SubjectDue`, `Unstated`, `Unfiled`), and each state row
shows its run's latest event except while the new event waits for its `UPDATE` (`Behind`).
`WholeRows` and `Latest` are its instances for `db`. `FreshInv` is about callers: a call whose
commit landed is the only one of its key in any process, and nobody has been told yet
that the key was fresh; `FreshOnce` follows.

`ReplayVerified` and the refinement need no more than `IInv`: the record that a replay
follows is stored, so a row whose payload and hash are as inserted holds the body of the request.
`ReplayVerified` covers rows deleted, and payload or `payload_hash` altered one without the other;
it claims nothing of both altered together, and `audit_run_id` is outside the model. `Growing`
shows that committed rows are never rewritten, and `Implements` that each step maps to a step of `IdempotentLedger` or
to a stutter: the two commits that land are `Enter`, every answer is the ledger's
answer, a crash is `Leave` of that process' clients, the rest is invisible.

Two theorems are about callers. `RefusalsAreTrue` (a conflict and a revision mismatch name
something that is on record, and that stays on record) is proved of the ledger, where only `Enter` changes an
entry, and carried to the code by `Implements`: the lemma `ReasonsKept` has one case per action of the
ledger, not one per statement. `AnswersAgree` follows from `IInv`: any two results, whoever received
them and whenever, name one event for one key and one run for one subject and request id.

**SchemaMigrationProofs** (`MigrationInvariant`). The strengthening ties the number of
objects in `work` to the statement a constructor has reached, makes the holder of
`mutex` the only one between look-up and insertion, and makes every lock object held by a
live constructor the registered one. `WholeSchema` (`AllOrNothing`), `StatementsSucceed` and
`OneLock` follow. `ImplementsMigration` maps each step to a step of `AtomicMigration` or to a
stutter: a commit that takes effect is the migration, reported or not, and what is committed
is always nothing or everything, which is why `AllOrNothing` needs no run of its own.

**GovernanceProofs** (`GovernanceInvariant`). For each run the invariant has three parts: what
it has read was so (`ReadsOK`: the rules read are in `seen`, and, if calm, are still in
force), what it may do (`WritesOK`), and what it says (`AnswerOK`). Steps of other runs
and administrators only enlarge `seen` and clear `calm`: the lemmas `Unmoved`, `Disturbed`,
`LocalStep` and `CreatingStep` state that once for all actions. `CompatibleEnforces`, a
lemma about the judgements alone, shows that a ruleset `_is_compatible` accepts does
enforce the baseline; it is why an apply that finds the name taken by a compatible
ruleset ends well. `Conformant`, `NonConformant`, `Apply`, `Writes` and
`GovernanceTyping` follow. `ExitStatus` says what each entry point's exit status means, and so
how far the finding `governance_exit` reaches: a 0 of `--status` or of a standalone `--apply-governance` is
a witnessed CONFORMANT, a setup's status depends on its flags alone.

**NadiOutboxProofs** (`OutboxInvariant`). `Kept` rests on `Overlapped` (while two commands may
write, everything used is excused) and `Holding` (a command that writes holds in its own
list, or has excused, all that was stored; the file it is about to fill is blank unless all is
excused). `InOrder` rests on `Fresh` and `Histories`: an envelope whose command has
not read the file yet is in no list, and what was stored before a send began cannot contain
that send's envelope.

**NadiRelayProofs** (`RelayInvariant`). An envelope of the run that the commit for the hub no longer
holds was taken out by a rebase; so it was in the file the commit was made from
(`OnTheWay`), and that file has been on the hub (`HubCarried`). `FreshCheckout` and
`FreshClone` say what a push that is accepted was made from, and `RemovesFound` that
what it removes was there when the hub was cloned. `Relayed` and `LosesNothing`
follow, for any limit of retries. `NeverCleared` is the finding `heartbeat_cleared` in general: no
run that says "cleared" has emptied the outbox it was to clear, since the relay step gets past its
first lines only with a full outbox (`Loaded`), and nothing later writes it.

**AuthorityFeedProofs** (`FeedInvariant`). The artifacts the inner loop has passed are right
while the status is ok; a bundle reported ok is whole unless the run is writing it
again for another feed and has seen something wrong already, in which case it will be
in `bad`. `ReportedIsWhole` and `CalmRunWorks` follow. `EveryFeedRead` needs one more invariant,
`Covered`: as long as every report is ok, each feed the loop has passed has a bundle in `ok`. With
it an exit status of 0 says that each feed asked for is whole on disk.

**DescriptorSyncProofs** (`SyncInvariant`). As long as operators push nothing, the branch can
differ from a run's checkout in two ways only: the descriptor has become the
rendered one, or the card one that was rendered in between (`Followed`). A run that is not
late sees the branch as it is. `Current` and `Atomic` follow; the latter says that checkout,
rendering and push come to one step on the branch, although others may act between them.

**DiscoveryProofs** (`DiscoveryInvariant`). What a run has found and what it has still to ask for
(`SeedsInv`, `SearchInv`, `ItemsInv`, `FoundInv`) make up the seeds and, from the search on, the
repositories that had the topic then, as far as every call was answered; a peer asked for
among the seeds is not found yet, which keeps the registry free of doubles. That the
first page is all of it when there is no second is the one step about cardinalities.
`EachOnce` and `OnlyVerified` follow. `TrackedDecides` (with `CommitInv`) is the other side of the finding
`discovery_committed`: where git tracks the registry file, `FoundIsCommitted` holds, and where it does not,
no registry ever reaches the branch.

**Variants.** `CallsAreBounded`, `OpensAreBounded` and the `RunsAreBounded` of four modules give
each actor a number of steps it has left (`StepsLeft`): bounded, lowered by each of its own
steps, and raised by nobody's but those with which a new call or run begins. This is the half of
`EveryCallEnds`, `EveryOpenEnds` and `EveryRunEnds` that the prover can do, for any number of actors;
the other half, that an actor with steps left can and will take one, is about ENABLED and fairness,
and is TLC's. In numbers: 21 steps for a call with its one retry, 18 for a constructor,
`2 * MaxRetries + 6` for a heartbeat, 8 for a governance run, which so inspects at most twice and
writes at most once, `NumPaths + 2` for each feed and one more for a reader of feeds, and three for each
repository and six more for a discovery. The last rests on `FindsEachOnce`: a registry that lists
a peer once names no more feeds than there are repositories.

**Only model-checked.** Liveness (`EveryCallEnds`, `EveryOpenEnds`, `EveryRunEnds`) is
out of the prover's reach but for the variants above, as are ENABLED and induction over data; no module
here uses RECURSIVE. Every other property of a passing run is proved. The three properties of
the findings are false.

## 6. Abstractions, and what is not modelled

- **Digests** are injective functions of the request, or of a file. `serialization.py` builds a
  subject id by joining with NUL; that two different triples could meet is outside the model.
- **Data.** Canonical JSON, timestamps, UUIDs and validation of argument types are left out; a UUID is
  the position of its row, or a fresh envelope. Optional event fields are part of one value, the body.
  A manifest of capabilities is a value, one of them not JSON.
- **`close()` in `finally`** swallows its errors, so it is no step.
- **`Damage`** happens between transactions, as an outside writer must take the same lock. It
  deletes an event row or alters its payload, its `payload_hash` or both, and touches no other column or table.
- **Files** are read in one step and written in two, truncation and filling. A reader of the outbox may
  find only a part of what is being written, and a kill may leave one. Two commands whose partial
  writes interleave byte by byte are not modelled: `Overlay` is the one such mixture, and `Kept`
  excuses all envelopes of two writers that overlap.
- **Git.** A branch is its content and whether it has moved; a rebase merges one file as a set of
  envelopes, or fails. Two orders of the same envelopes are one content.
- **Governance** leaves out the bypass state and the diagnostics, which only the
  display uses, the parsing of remote URLs, further pages of the rules that apply to a branch,
  and a corrupt `.federation-setup.json`.
- **The setup** is modelled where others meet it: its governance step, its exit status, the two rendered
  files. The prompts and the rewriting of documents, `charter.md` and the like, happen in one
  process with no reader at the same time.
- **The export of a feed** and its publication are one step: the export runs alone on its runner, and
  the workflow that publishes belongs to another repository.
- **The daemon and the head agent** are a loop around `NadiNode`; its code, `nadi_kit.py`, is not in
  this repository, and what it emits, buffers or sends cannot be translated from the source.
- **The outbox at the root and the relayed one** are two files, as in the code; nothing in
  the repository moves an envelope from one to the other, so no module composes them.
- **Quickstart** is one sequential check that keeps no state; contracts, models and the pipeline are
  types no code drives; schemas, examples, templates and architecture documents are static.
