----------------------------- MODULE EventStore -----------------------------
(***************************************************************************)
(* EventRepository.record_run_event: one audit event persisted atomically  *)
(* in SQLite, with an idempotency record, a per-path process lock and one  *)
(* bounded retry when the outcome of COMMIT is unknown.                    *)
(*                                                                         *)
(* One action is one SQL statement, one commit or one lock operation.      *)
(* Threads share a lock when they run in the same process; processes meet  *)
(* only in SQLite's single write transaction.  UUIDs are positions in the  *)
(* tables runs and events; SHA-256 is injective; timestamps are left out.  *)
(***************************************************************************)
EXTENDS Naturals, Sequences

CONSTANTS
  Threads,     \* callers of record_run_event
  Procs,       \* operating-system processes that hold a repository
  ProcOf,      \* the process a thread runs in
  Keys,        \* pairs (operation_type, idempotency_key)
  Subjects,    \* triples (target_repository, subject_type, subject_path)
  RequestIds,
  Revisions,
  Bodies,      \* payload, correlation, causation, event type, phase, status
  Tampered,    \* an event row with payload or payload_hash altered, one without the other
  Forged,      \* an event row with both altered together, so that they agree
  Gone,        \* an event row that is no longer there
  Null,
  MaxCalls,    \* bound on the calls made
  MaxDamage    \* bound on the rows altered or deleted from outside

ASSUME Placement == ProcOf \in [Threads -> Procs]
ASSUME Bounds == MaxCalls \in Nat /\ MaxDamage \in Nat
ASSUME Distinct ==
  /\ Null \notin Threads
  /\ Bodies \cap {Tampered, Forged, Gone} = {}
  /\ Forged \notin {Tampered, Gone}

VARIABLES
  lock,    \* lock[p]: the thread inside "with self._lock" in process p
  writer,  \* the thread whose BEGIN IMMEDIATE holds SQLite's write lock
  db,      \* the committed tables
  work,    \* the tables as the open write transaction sees them
  frame,   \* the local variables of each thread's call
  acked,   \* history: the results returned to callers
  calls,   \* calls made so far
  damage   \* rows damaged from outside so far

vars == <<lock, writer, db, work, frame, acked, calls, damage>>

-----------------------------------------------------------------------------
Calls == [key : Keys, subject : Subjects, request : RequestIds,
          revision : Revisions, body : Bodies]

Digests == [subject : Subjects, request : RequestIds,
            revision : Revisions, body : Bodies]

RequestDigest(c) ==
  [subject |-> c.subject, request |-> c.request,
   revision |-> c.revision, body |-> c.body]

PayloadDigest(b) == <<"sha256", b>>

\* What may have become of a row outside the repository stands in the payload;
\* run and hash are what the repository inserted.
Damages  == {Tampered, Forged, Gone}
Payloads == Bodies \cup Damages
Runs     == [subject : Subjects, request : RequestIds, revision : Revisions]
Events   == [run : Nat, payload : Payloads, hash : {PayloadDigest(b) : b \in Bodies}]
States   == [run : Nat, body : Bodies]
Records  == [digest : Digests, ref : Nat]

Tables == [subjects : SUBSET Subjects, runs : Seq(Runs), events : Seq(Events),
           state : SUBSET States, idem : [Keys -> Records \cup {Null}]]

ASSUME NullIsNoRow == Null \notin Records /\ Null \notin Calls

EmptyTables ==
  [subjects |-> {}, runs |-> <<>>, events |-> <<>>,
   state |-> {}, idem |-> [k \in Keys |-> Null]]

Kinds == {"none", "new", "replay", "conflict", "revision", "norecord",
          "damaged", "rolledback", "unknown"}

Outside     == {"idle", "lock"}
Transaction == {"check", "subject", "run", "event", "state", "record", "commit"}
Labels      == Outside \cup Transaction \cup {"begin", "recover", "reconstruct", "return"}

\* mine is a history variable: this call's own COMMIT reached the disk.
IdleFrame == [pc |-> "idle", call |-> Null, retry |-> FALSE, run |-> 0,
              ref |-> 0, said |-> "none", mine |-> FALSE]

Frames == [pc : Labels, call : Calls \cup {Null}, retry : BOOLEAN, run : Nat,
           ref : Nat, said : Kinds, mine : BOOLEAN]

Key(t)    == frame[t].call.key
Digest(t) == RequestDigest(frame[t].call)

Init ==
  /\ lock = [p \in Procs |-> Null]
  /\ writer = Null
  /\ db = EmptyTables
  /\ work = EmptyTables
  /\ frame = [t \in Threads |-> IdleFrame]
  /\ acked = {}
  /\ calls = 0
  /\ damage = 0

-----------------------------------------------------------------------------
(* Entering the repository.                                                *)

\* The local variables of t become f.
Move(t, f) == frame' = [frame EXCEPT ![t] = f]

\* Digests are computed before the lock is asked for.
Call(t, c) ==
  /\ frame[t].pc = "idle"
  /\ calls < MaxCalls
  /\ calls' = calls + 1
  /\ Move(t, [IdleFrame EXCEPT !.pc = "lock", !.call = c])
  /\ UNCHANGED <<lock, writer, db, work, acked, damage>>

\* Mutant: repositories on one path hold different locks.
AcquireOwnLock(t) ==
  /\ frame[t].pc = "lock"
  /\ lock' = [lock EXCEPT ![ProcOf[t]] = t]
  /\ Move(t, [frame[t] EXCEPT !.pc = "begin"])
  /\ UNCHANGED <<writer, db, work, acked, calls, damage>>

AcquireLock(t) ==
  /\ frame[t].pc = "lock"
  /\ lock[ProcOf[t]] = Null
  /\ lock' = [lock EXCEPT ![ProcOf[t]] = t]
  /\ Move(t, [frame[t] EXCEPT !.pc = "begin"])
  /\ UNCHANGED <<writer, db, work, acked, calls, damage>>

BeginImmediate(t) ==
  /\ frame[t].pc = "begin"
  /\ writer = Null
  /\ writer' = t
  /\ Move(t, [frame[t] EXCEPT !.pc = "check"])
  /\ UNCHANGED <<lock, db, work, acked, calls, damage>>

\* The call raises, or is about to return, the answer k.
Answer(t, k) == Move(t, [frame[t] EXCEPT !.pc = "return", !.said = k])

\* connect() fails, or busy_timeout expires while another process writes.
BeginFails(t) ==
  /\ frame[t].pc = "begin"
  /\ Answer(t, "rolledback")
  /\ UNCHANGED <<lock, writer, db, work, acked, calls, damage>>

-----------------------------------------------------------------------------
(* The write transaction.                                                  *)

Rollback == work' = db /\ writer' = Null

FindNoRecord(t) ==
  /\ frame[t].pc = "check"
  /\ work.idem[Key(t)] = Null
  /\ Move(t, [frame[t] EXCEPT !.pc = "subject"])
  /\ UNCHANGED <<lock, writer, db, work, acked, calls, damage>>

FindConflict(t) ==
  /\ frame[t].pc = "check"
  /\ work.idem[Key(t)] # Null
  /\ work.idem[Key(t)].digest # Digest(t)
  /\ Rollback
  /\ Answer(t, "conflict")
  /\ UNCHANGED <<lock, db, acked, calls, damage>>

FindReplay(t) ==
  /\ frame[t].pc = "check"
  /\ work.idem[Key(t)] # Null
  /\ work.idem[Key(t)].digest = Digest(t)
  /\ Rollback
  /\ Move(t, [frame[t] EXCEPT !.pc = "reconstruct", !.ref = work.idem[Key(t)].ref])
  /\ UNCHANGED <<lock, db, acked, calls, damage>>

EnsureSubject(t) ==
  /\ frame[t].pc = "subject"
  /\ work' = [work EXCEPT !.subjects = @ \cup {frame[t].call.subject}]
  /\ Move(t, [frame[t] EXCEPT !.pc = "run"])
  /\ UNCHANGED <<lock, writer, db, acked, calls, damage>>

\* Mutant: the run is looked up by its revision too.
RunsAtRevision(T, c) ==
  {r \in DOMAIN T.runs : T.runs[r] = [subject |-> c.subject, request |-> c.request,
                                      revision |-> c.revision]}

\* The rows of audit_runs for this call's subject and request.
RunsFor(T, c) ==
  {r \in DOMAIN T.runs : T.runs[r].subject = c.subject /\ T.runs[r].request = c.request}

\* Mutant: the revision of an existing run is not compared.
UseAnyRun(t) ==
  /\ frame[t].pc = "run"
  /\ \E r \in RunsFor(work, frame[t].call) :
       Move(t, [frame[t] EXCEPT !.pc = "event", !.run = r])
  /\ UNCHANGED <<lock, writer, db, work, acked, calls, damage>>

UseRun(t) ==
  /\ frame[t].pc = "run"
  /\ \E r \in RunsFor(work, frame[t].call) :
       /\ work.runs[r].revision = frame[t].call.revision
       /\ Move(t, [frame[t] EXCEPT !.pc = "event", !.run = r])
  /\ UNCHANGED <<lock, writer, db, work, acked, calls, damage>>

\* Mutant: the run is moved to the new revision.
OverwriteRevision(t) ==
  /\ frame[t].pc = "run"
  /\ \E r \in RunsFor(work, frame[t].call) :
       /\ work' = [work EXCEPT !.runs[r].revision = frame[t].call.revision]
       /\ Move(t, [frame[t] EXCEPT !.pc = "event", !.run = r])
  /\ UNCHANGED <<lock, writer, db, acked, calls, damage>>

RefuseRevision(t) ==
  /\ frame[t].pc = "run"
  /\ \E r \in RunsFor(work, frame[t].call) :
       work.runs[r].revision # frame[t].call.revision
  /\ Rollback
  /\ Answer(t, "revision")
  /\ UNCHANGED <<lock, db, acked, calls, damage>>

CreateRun(t) ==
  LET c == frame[t].call
      row == [subject |-> c.subject, request |-> c.request, revision |-> c.revision]
  IN
  /\ frame[t].pc = "run"
  /\ RunsFor(work, c) = {}
  /\ work' = [work EXCEPT !.runs = Append(@, row)]
  /\ Move(t, [frame[t] EXCEPT !.pc = "event", !.run = Len(work.runs) + 1])
  /\ UNCHANGED <<lock, writer, db, acked, calls, damage>>

InsertEvent(t) ==
  LET b == frame[t].call.body
      row == [run |-> frame[t].run, payload |-> b, hash |-> PayloadDigest(b)]
  IN
  /\ frame[t].pc = "event"
  /\ work' = [work EXCEPT !.events = Append(@, row)]
  /\ Move(t, [frame[t] EXCEPT !.pc = "state", !.ref = Len(work.events) + 1])
  /\ UNCHANGED <<lock, writer, db, acked, calls, damage>>

\* Mutant: ON CONFLICT DO NOTHING.
InsertIfAbsent(rows, r, b) ==
  IF \E row \in rows : row.run = r THEN rows ELSE rows \cup {[run |-> r, body |-> b]}

\* ON CONFLICT(audit_run_id) DO UPDATE: the run's only row is replaced.
Upsert(rows, r, b) == {row \in rows : row.run # r} \cup {[run |-> r, body |-> b]}

UpsertRunState(t) ==
  /\ frame[t].pc = "state"
  /\ work' = [work EXCEPT !.state = Upsert(@, frame[t].run, frame[t].call.body)]
  /\ Move(t, [frame[t] EXCEPT !.pc = "record"])
  /\ UNCHANGED <<lock, writer, db, acked, calls, damage>>

\* PRIMARY KEY(operation_type, idempotency_key) makes a second insert fail.
InsertRecord(t) ==
  /\ frame[t].pc = "record"
  /\ work.idem[Key(t)] = Null
  /\ work' = [work EXCEPT !.idem[Key(t)] = [digest |-> Digest(t), ref |-> frame[t].ref]]
  /\ Move(t, [frame[t] EXCEPT !.pc = "commit"])
  /\ UNCHANGED <<lock, writer, db, acked, calls, damage>>

\* Mutant: what was written before the error is committed.
StatementFailsCommitted(t) ==
  /\ frame[t].pc \in Transaction \ {"commit"}
  /\ db' = work /\ writer' = Null
  /\ Answer(t, "rolledback")
  /\ UNCHANGED <<lock, work, acked, calls, damage>>

\* Any statement before the commit may raise: the transaction rolls back.
StatementFails(t) ==
  /\ frame[t].pc \in Transaction \ {"commit"}
  /\ Rollback
  /\ Answer(t, "rolledback")
  /\ UNCHANGED <<lock, db, acked, calls, damage>>

Commit(t) ==
  /\ frame[t].pc = "commit"
  /\ db' = work
  /\ writer' = Null
  /\ Move(t, [frame[t] EXCEPT !.pc = "return", !.said = "new", !.mine = TRUE])
  /\ UNCHANGED <<lock, work, acked, calls, damage>>

-----------------------------------------------------------------------------
(* commit() or the close() after it raised: the outcome is unknown.        *)

\* Mutant: an exception out of commit() is taken for a rollback.
CommitRaisesRefused(t) ==
  /\ frame[t].pc = "commit"
  /\ db' = work
  /\ writer' = Null
  /\ Move(t, [frame[t] EXCEPT !.pc = "return", !.said = "rolledback", !.mine = TRUE])
  /\ UNCHANGED <<lock, work, acked, calls, damage>>

\* The commit reached the disk before the exception did.
CommitRaisesLate(t) ==
  /\ frame[t].pc = "commit"
  /\ db' = work
  /\ writer' = Null
  /\ Move(t, [frame[t] EXCEPT !.pc = "recover", !.mine = TRUE])
  /\ UNCHANGED <<lock, work, acked, calls, damage>>

\* Mutant: an exception out of commit() is swallowed.
CommitRaisesSwallowed(t) ==
  /\ frame[t].pc = "commit"
  /\ Rollback
  /\ Answer(t, "new")
  /\ UNCHANGED <<lock, db, acked, calls, damage>>

\* It did not, and closing the connection dropped the transaction.
CommitRaisesEarly(t) ==
  /\ frame[t].pc = "commit"
  /\ Rollback
  /\ Move(t, [frame[t] EXCEPT !.pc = "recover"])
  /\ UNCHANGED <<lock, db, acked, calls, damage>>

RetryOnce(t) ==
  /\ frame[t].pc = "recover"
  /\ db.idem[Key(t)] = Null
  /\ ~ frame[t].retry
  /\ Move(t, [frame[t] EXCEPT !.pc = "begin", !.retry = TRUE])
  /\ UNCHANGED <<lock, writer, db, work, acked, calls, damage>>

GiveUp(t) ==
  /\ frame[t].pc = "recover"
  /\ db.idem[Key(t)] = Null
  /\ frame[t].retry
  /\ Answer(t, "norecord")
  /\ UNCHANGED <<lock, writer, db, work, acked, calls, damage>>

\* Another process used the key between the failed commit and this read.
RecoverConflict(t) ==
  /\ frame[t].pc = "recover"
  /\ db.idem[Key(t)] # Null
  /\ db.idem[Key(t)].digest # Digest(t)
  /\ Answer(t, "conflict")
  /\ UNCHANGED <<lock, writer, db, work, acked, calls, damage>>

\* Mutant: a record found during recovery is answered as created by this call.
RecoverAsNew(t) ==
  /\ frame[t].pc = "recover"
  /\ db.idem[Key(t)] # Null
  /\ db.idem[Key(t)].digest = Digest(t)
  /\ Move(t, [frame[t] EXCEPT !.pc = "return", !.said = "new", !.ref = db.idem[Key(t)].ref])
  /\ UNCHANGED <<lock, writer, db, work, acked, calls, damage>>

RecoverReplay(t) ==
  /\ frame[t].pc = "recover"
  /\ db.idem[Key(t)] # Null
  /\ db.idem[Key(t)].digest = Digest(t)
  /\ Move(t, [frame[t] EXCEPT !.pc = "reconstruct", !.ref = db.idem[Key(t)].ref])
  /\ UNCHANGED <<lock, writer, db, work, acked, calls, damage>>

\* The reading connection fails: the caller never learns the outcome.
ReadFails(t) ==
  /\ frame[t].pc \in {"recover", "reconstruct"}
  /\ Answer(t, "unknown")
  /\ UNCHANGED <<lock, writer, db, work, acked, calls, damage>>

\* Mutant: the stored hash is not compared.
Present(T, e) == e \in DOMAIN T.events /\ T.events[e].payload # Gone

\* The column payload_hash as it is read.
StoredHash(row) == IF row.payload = Forged THEN PayloadDigest(Forged) ELSE row.hash

\* SELECT ... WHERE event_id = result_reference, in a new connection: the row
\* is compared with itself only.
Intact(T, e) ==
  /\ e \in DOMAIN T.events
  /\ T.events[e].payload # Gone
  /\ PayloadDigest(T.events[e].payload) = StoredHash(T.events[e])

\* Mutant: the row has no audit_run_id.
ReconstructNull(t) ==
  /\ frame[t].pc = "reconstruct"
  /\ Intact(db, frame[t].ref)
  /\ Move(t, [frame[t] EXCEPT !.pc = "return", !.said = "replay", !.run = Null])
  /\ UNCHANGED <<lock, writer, db, work, acked, calls, damage>>

ReconstructResult(t) ==
  /\ frame[t].pc = "reconstruct"
  /\ Intact(db, frame[t].ref)
  /\ Move(t, [frame[t] EXCEPT !.pc = "return", !.said = "replay",
                              !.run = db.events[frame[t].ref].run])
  /\ UNCHANGED <<lock, writer, db, work, acked, calls, damage>>

RefuseDamaged(t) ==
  /\ frame[t].pc = "reconstruct"
  /\ ~ Intact(db, frame[t].ref)
  /\ Answer(t, "damaged")
  /\ UNCHANGED <<lock, writer, db, work, acked, calls, damage>>

\* Leaving "with self._lock" by a result or by an exception.
Result(t) == [key |-> Key(t), digest |-> Digest(t), event |-> frame[t].ref,
              run |-> frame[t].run, fresh |-> frame[t].said = "new"]

\* Mutant: a call that raises leaves the lock taken.
ReturnLocked(t) ==
  /\ frame[t].pc = "return"
  /\ lock' = IF frame[t].said \in {"new", "replay"}
               THEN [lock EXCEPT ![ProcOf[t]] = Null] ELSE lock
  /\ acked' = IF frame[t].said \in {"new", "replay"}
                THEN acked \cup {Result(t)} ELSE acked
  /\ Move(t, IdleFrame)
  /\ UNCHANGED <<writer, db, work, calls, damage>>

Return(t) ==
  /\ frame[t].pc = "return"
  /\ lock' = [lock EXCEPT ![ProcOf[t]] = Null]
  /\ acked' = IF frame[t].said \in {"new", "replay"}
                THEN acked \cup {Result(t)} ELSE acked
  /\ Move(t, IdleFrame)
  /\ UNCHANGED <<writer, db, work, calls, damage>>

-----------------------------------------------------------------------------
(* The environment.                                                        *)

\* Process p dies: its memory, its lock and its open transaction are gone.
Crash(p) ==
  /\ \E t \in Threads : ProcOf[t] = p /\ frame[t].pc # "idle"
  /\ lock' = [lock EXCEPT ![p] = Null]
  /\ frame' = [t \in Threads |-> IF ProcOf[t] = p THEN IdleFrame ELSE frame[t]]
  /\ IF writer # Null /\ ProcOf[writer] = p
       THEN Rollback ELSE UNCHANGED <<writer, work>>
  /\ UNCHANGED <<db, acked, calls, damage>>

\* Behind the repository's back an event row is deleted, or its payload, its
\* payload_hash or both are altered.  Nothing alters the other columns here:
\* audit_run_id, which a replay returns unchecked, is as it was inserted.
Damage(e, v) ==
  /\ damage < MaxDamage
  /\ writer = Null
  /\ db' = [db EXCEPT !.events[e].payload = v]
  /\ work' = db'
  /\ damage' = damage + 1
  /\ UNCHANGED <<lock, writer, frame, acked, calls>>

Step(t) ==
  \/ AcquireLock(t) \/ BeginImmediate(t) \/ BeginFails(t)
  \/ FindNoRecord(t) \/ FindConflict(t) \/ FindReplay(t)
  \/ EnsureSubject(t) \/ UseRun(t) \/ RefuseRevision(t) \/ CreateRun(t)
  \/ InsertEvent(t) \/ UpsertRunState(t) \/ InsertRecord(t)
  \/ StatementFails(t) \/ Commit(t)
  \/ CommitRaisesLate(t) \/ CommitRaisesEarly(t)
  \/ RetryOnce(t) \/ GiveUp(t) \/ RecoverConflict(t) \/ RecoverReplay(t)
  \/ ReadFails(t) \/ ReconstructResult(t) \/ RefuseDamaged(t) \/ Return(t)

\* All the calls allowed by the bound are made and answered.
Quiet ==
  /\ calls = MaxCalls
  /\ \A t \in Threads : frame[t].pc = "idle"
  /\ UNCHANGED vars

Next ==
  \/ \E t \in Threads : Step(t) \/ \E c \in Calls : Call(t, c)
  \/ \E p \in Procs : Crash(p)
  \/ \E e \in DOMAIN db.events, v \in Damages : Damage(e, v)
  \/ Quiet

Spec == Init /\ [][Next]_vars

\* A thread that can run does run: the code has no wait of its own except
\* the lock, and BEGIN IMMEDIATE gives up after busy_timeout.
FairSpec == Spec /\ \A t \in Threads : WF_vars(Step(t))

-----------------------------------------------------------------------------
(* Properties.                                                             *)

Results == [key : Keys, digest : Digests, event : Nat, run : Nat, fresh : BOOLEAN]

\* Every variable keeps its type.
TypeOK ==
  /\ lock \in [Procs -> Threads \cup {Null}]
  /\ writer \in Threads \cup {Null}
  /\ db \in Tables
  /\ work \in Tables
  /\ frame \in [Threads -> Frames]
  /\ acked \subseteq Results
  /\ calls \in 0..MaxCalls
  /\ damage \in 0..MaxDamage

\* _record_run_event_locked runs only inside the lock of its own process,
\* and only the call that began the write transaction is inside it, however
\* calls end: by a result, an exception or the death of the process.
LockDiscipline ==
  \A t \in Threads :
    /\ frame[t].pc \notin Outside <=> lock[ProcOf[t]] = t
    /\ frame[t].pc \in Transaction <=> writer = t

Recorded(T, k) == T.idem[k] # Null

\* Exactly once: every committed event is the result of exactly one
\* idempotency key, whatever was retried, rolled back or lost in a crash.
ExactlyOnce ==
  /\ \A k \in Keys : Recorded(db, k) => db.idem[k].ref \in DOMAIN db.events
  /\ \A e \in DOMAIN db.events :
       \E k \in Keys : {j \in Keys : Recorded(db, j) /\ db.idem[j].ref = e} = {k}

\* The event of a key is the one its recorded request asked for, filed under
\* the run of that request's subject, request id and revision.
Matches(T, k) ==
  LET rec == T.idem[k]
      event == T.events[rec.ref]
      run == T.runs[event.run]
  IN  /\ event.hash = PayloadDigest(rec.digest.body)
      /\ run.subject = rec.digest.subject
      /\ run.request = rec.digest.request
      /\ run.revision = rec.digest.revision

\* What a key recorded is what its caller asked for: rows written by several
\* statements of one transaction never come from two different requests.
RecordMatchesEvent == \A k \in Keys : Recorded(db, k) => Matches(db, k)

\* No part of a transaction is ever visible: a committed subject has a run,
\* a run has its subject, a state row and an event.
NoPartialRows ==
  /\ db.subjects = {db.runs[r].subject : r \in DOMAIN db.runs}
  /\ DOMAIN db.runs = {row.run : row \in db.state}
  /\ DOMAIN db.runs = {db.events[e].run : e \in DOMAIN db.events}

\* A subject and request id name one run, so one revision, even when two
\* processes resolve or create the run at the same time.
OneRunPerRequest ==
  \A r, s \in DOMAIN db.runs :
    /\ db.runs[r].subject = db.runs[s].subject
    /\ db.runs[r].request = db.runs[s].request
    => r = s

\* run_state shows the latest event of its run: neither a replay nor a failed
\* attempt moves it, and no committed event leaves it behind.
StateIsLatestEvent ==
  \A row \in db.state : \E e \in DOMAIN db.events :
    /\ db.events[e].run = row.run
    /\ db.events[e].hash = PayloadDigest(row.body)
    /\ \A f \in DOMAIN db.events : db.events[f].run = row.run => f <= e

\* A result given to a caller stays true: after any crash, retry or later
\* call its key still names that event, in that run.
AckedIsDurable ==
  \A a \in acked :
    /\ db.idem[a.key] = [digest |-> a.digest, ref |-> a.event]
    /\ a.event \in DOMAIN db.events
    /\ db.events[a.event].run = a.run

\* idempotent_replay = False is answered for a key once at most: no two
\* callers are both told that they created the event.
OneFreshAnswer ==
  \A t \in Threads : frame[t].said = "new" =>
    /\ \A a \in acked : a.fresh => a.key # Key(t)
    /\ \A u \in Threads \ {t} : frame[u].said = "new" => Key(u) # Key(t)

\* A call refused for a conflict, for a revision mismatch, or by an error the
\* code treats as rolled back has left nothing of its own in the database,
\* also when an earlier attempt of the same call was uncertain.
RefusedLeavesNothing ==
  \A t \in Threads :
    frame[t].said \in {"conflict", "revision", "norecord", "rolledback"}
      => ~ frame[t].mine

\* Recovery never opens a second transaction for a call whose first commit
\* reached the disk.
NoSecondCommit == \A t \in Threads : frame[t].mine => writer # t

\* Tables W hold every row of tables D, whatever became of the payloads.
Extends(D, W) ==
  /\ \A k \in Keys : Recorded(D, k) => W.idem[k] = D.idem[k]
  /\ \A e \in DOMAIN D.events :
       /\ e \in DOMAIN W.events
       /\ W.events[e].run = D.events[e].run
       /\ W.events[e].hash = D.events[e].hash
  /\ \A r \in DOMAIN D.runs : r \in DOMAIN W.runs /\ W.runs[r] = D.runs[r]

\* Committed rows are never rewritten: records, runs and events only grow,
\* under retries, crashes and several processes.
GrowOnly == [][Extends(db, db')]_vars

\* "Payload-integrity verification on replay", as far as it goes: a replay is
\* served only from an event row that is there, and whose payload is the one
\* its caller asked to record unless payload and payload_hash were altered
\* together.  That case the check cannot notice, whenever it happens: it
\* compares the row with itself and not with the request.
PayloadVerified ==
  [][\A t \in Threads :
       frame[t].said # "replay" /\ frame'[t].said = "replay" =>
         /\ frame'[t].ref \in DOMAIN db.events
         /\ db.events[frame'[t].ref].payload \in {frame[t].call.body, Forged}]_vars

\* Every call ends, by a result, an exception or the death of its process,
\* with at most one retry of an uncertain commit; those that wait for the
\* lock get it, once the callers stop making new calls.
EveryCallEnds == \A t \in Threads : (frame[t].pc # "idle") ~> (frame[t].pc = "idle")
=============================================================================
