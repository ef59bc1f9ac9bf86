-------------------------- MODULE SchemaMigration --------------------------
(***************************************************************************)
(* EventRepository.__init__: the registry of path locks, and migration     *)
(* version 1 applied inside BEGIN IMMEDIATE ... COMMIT, by any number of   *)
(* constructors of several processes on one database file.                 *)
(*                                                                         *)
(* One action is one lock operation, one SQL statement or one commit.  A   *)
(* lock object is named after the thread that created it.  Every spelling  *)
(* of the path resolves to the one file.                                   *)
(***************************************************************************)
EXTENDS Naturals, Sequences

CONSTANTS
  Threads,    \* callers of the constructor
  Procs,      \* operating-system processes
  ProcOf,     \* the process a thread runs in
  Null,
  MaxOpens    \* bound on the constructor calls made

ASSUME Placement == ProcOf \in [Threads -> Procs]
ASSUME Distinct == Null \notin Threads /\ MaxOpens \in Nat

VARIABLES
  mutex,     \* mutex[p]: the thread inside "with _path_locks_lock"
  registry,  \* registry[p]: the entry of the path in _path_locks
  owner,     \* owner[l]: the thread inside "with self._lock", for lock object l
  writer,    \* the thread whose BEGIN IMMEDIATE holds SQLite's write lock
  disk,      \* the committed schema
  work,      \* the schema as the open write transaction sees it
  frame,     \* the local variables of each constructor
  ready,     \* threads whose constructor has returned a repository
  opens      \* constructor calls made so far

vars == <<mutex, registry, owner, writer, disk, work, frame, ready, opens>>

-----------------------------------------------------------------------------
Statements ==
  <<"schema_migrations", "analysis_subjects", "audit_runs", "audit_events", "run_state",
    "idempotency_records", "idx_audit_events_run", "idx_audit_events_correlation">>

Objects == {Statements[i] : i \in 1..8}

\* An index can only be created on a table that is there.
Creatable(o, T) ==
  o \in {"idx_audit_events_run", "idx_audit_events_correlation"}
    => "audit_events" \in T.objects

Schemas == [objects : SUBSET Objects, version : BOOLEAN]
Blank   == [objects |-> {}, version |-> FALSE]
Full    == [objects |-> Objects, version |-> TRUE]

Transaction == {"first", "version", "ddl", "record", "commit"}
Held        == Transaction \cup {"begin", "return", "raise"}
Looking     == {"lookup", "insert"}
Labels      == Held \cup Looking \cup {"idle", "registry", "lock"}

\* next is the position in _STATEMENTS of the statement to execute.
Fresh  == [pc |-> "idle", lock |-> Null, next |-> 1]
Frames == [pc : Labels, lock : Threads \cup {Null}, next : 1..9]

Move(t, f) == frame' = [frame EXCEPT ![t] = f]
Goto(t, p) == Move(t, [frame[t] EXCEPT !.pc = p])

Init ==
  /\ mutex = [p \in Procs |-> Null]
  /\ registry = [p \in Procs |-> Null]
  /\ owner = [l \in Threads |-> Null]
  /\ writer = Null
  /\ disk = Blank
  /\ work = Blank
  /\ frame = [t \in Threads |-> Fresh]
  /\ ready = {}
  /\ opens = 0

-----------------------------------------------------------------------------
(* _get_path_lock, and the lock of the repository.                         *)

Construct(t) ==
  /\ frame[t].pc = "idle"
  /\ opens < MaxOpens
  /\ opens' = opens + 1
  /\ Move(t, [Fresh EXCEPT !.pc = "registry"])
  /\ UNCHANGED <<mutex, registry, owner, writer, disk, work, ready>>

\* Mutant: _path_locks is read without _path_locks_lock.
EnterUnguarded(t) ==
  /\ frame[t].pc = "registry"
  /\ mutex' = [mutex EXCEPT ![ProcOf[t]] = t]
  /\ Goto(t, "lookup")
  /\ UNCHANGED <<registry, owner, writer, disk, work, ready, opens>>

EnterRegistry(t) ==
  /\ frame[t].pc = "registry"
  /\ mutex[ProcOf[t]] = Null
  /\ mutex' = [mutex EXCEPT ![ProcOf[t]] = t]
  /\ Goto(t, "lookup")
  /\ UNCHANGED <<registry, owner, writer, disk, work, ready, opens>>

\* The path has no entry yet: the constructor makes a lock of its own.
MissPath(t) ==
  /\ frame[t].pc = "lookup"
  /\ registry[ProcOf[t]] = Null
  /\ Goto(t, "insert")
  /\ UNCHANGED <<mutex, registry, owner, writer, disk, work, ready, opens>>

InsertLock(t) ==
  /\ frame[t].pc = "insert"
  /\ registry' = [registry EXCEPT ![ProcOf[t]] = t]
  /\ Goto(t, "lookup")
  /\ UNCHANGED <<mutex, owner, writer, disk, work, ready, opens>>

GetPathLock(t) ==
  /\ frame[t].pc = "lookup"
  /\ registry[ProcOf[t]] # Null
  /\ mutex' = [mutex EXCEPT ![ProcOf[t]] = Null]
  /\ Move(t, [frame[t] EXCEPT !.pc = "lock", !.lock = registry[ProcOf[t]]])
  /\ UNCHANGED <<registry, owner, writer, disk, work, ready, opens>>

AcquireLock(t) ==
  /\ frame[t].pc = "lock"
  /\ owner[frame[t].lock] = Null
  /\ owner' = [owner EXCEPT ![frame[t].lock] = t]
  /\ Goto(t, "begin")
  /\ UNCHANGED <<mutex, registry, writer, disk, work, ready, opens>>

-----------------------------------------------------------------------------
(* migration.apply.                                                        *)

BeginImmediate(t) ==
  /\ frame[t].pc = "begin"
  /\ writer = Null
  /\ writer' = t
  /\ Goto(t, "first")
  /\ UNCHANGED <<mutex, registry, owner, disk, work, ready, opens>>

\* connect() fails, or busy_timeout expires while another process writes.
BeginFails(t) ==
  /\ frame[t].pc = "begin"
  /\ Goto(t, "raise")
  /\ UNCHANGED <<mutex, registry, owner, writer, disk, work, ready, opens>>

EnsureMigrations(t) ==
  /\ frame[t].pc = "first"
  /\ work' = [work EXCEPT !.objects = @ \cup {Statements[1]}]
  /\ Goto(t, "version")
  /\ UNCHANGED <<mutex, registry, owner, writer, disk, ready, opens>>

AlreadyApplied(t) ==
  /\ frame[t].pc = "version"
  /\ work.version
  /\ Goto(t, "commit")
  /\ UNCHANGED <<mutex, registry, owner, writer, disk, work, ready, opens>>

\* Mutant: the version is not asked for.
ApplyAgain(t) ==
  /\ frame[t].pc = "version"
  /\ Move(t, [frame[t] EXCEPT !.pc = "ddl", !.next = 2])
  /\ UNCHANGED <<mutex, registry, owner, writer, disk, work, ready, opens>>

NotApplied(t) ==
  /\ frame[t].pc = "version"
  /\ ~ work.version
  /\ Move(t, [frame[t] EXCEPT !.pc = "ddl", !.next = 2])
  /\ UNCHANGED <<mutex, registry, owner, writer, disk, work, ready, opens>>

\* Mutant: the loop over _STATEMENTS advances twice.
CreateEveryOther(t) ==
  LET n == frame[t].next
  IN
  /\ frame[t].pc = "ddl"
  /\ Creatable(Statements[n], work)
  /\ work' = [work EXCEPT !.objects = @ \cup {Statements[n]}]
  /\ Move(t, [frame[t] EXCEPT !.next = n + 2,
                              !.pc = IF n = Len(Statements) THEN "record" ELSE "ddl"])
  /\ UNCHANGED <<mutex, registry, owner, writer, disk, ready, opens>>

CreateObject(t) ==
  LET n == frame[t].next
  IN
  /\ frame[t].pc = "ddl"
  /\ Creatable(Statements[n], work)
  /\ work' = [work EXCEPT !.objects = @ \cup {Statements[n]}]
  /\ Move(t, [frame[t] EXCEPT !.next = n + 1,
                              !.pc = IF n = Len(Statements) THEN "record" ELSE "ddl"])
  /\ UNCHANGED <<mutex, registry, owner, writer, disk, ready, opens>>

\* version is the PRIMARY KEY: a second row cannot be inserted.
RecordVersion(t) ==
  /\ frame[t].pc = "record"
  /\ ~ work.version
  /\ work' = [work EXCEPT !.version = TRUE]
  /\ Goto(t, "commit")
  /\ UNCHANGED <<mutex, registry, owner, writer, disk, ready, opens>>

Rollback == work' = disk /\ writer' = Null

\* Mutant: DDL commits by itself, the rollback finds nothing to undo.
StatementFailsCommitted(t) ==
  /\ frame[t].pc \in Transaction
  /\ disk' = work /\ writer' = Null
  /\ Goto(t, "raise")
  /\ UNCHANGED <<mutex, registry, owner, work, ready, opens>>

\* A statement or the commit raises, and nothing is left.
StatementFails(t) ==
  /\ frame[t].pc \in Transaction
  /\ Rollback
  /\ Goto(t, "raise")
  /\ UNCHANGED <<mutex, registry, owner, disk, ready, opens>>

Commit(t) ==
  /\ frame[t].pc = "commit"
  /\ disk' = work
  /\ writer' = Null
  /\ Goto(t, "return")
  /\ UNCHANGED <<mutex, registry, owner, work, ready, opens>>

\* The commit reaches the disk and raises all the same.
CommitRaises(t) ==
  /\ frame[t].pc = "commit"
  /\ disk' = work
  /\ writer' = Null
  /\ Goto(t, "raise")
  /\ UNCHANGED <<mutex, registry, owner, work, ready, opens>>

\* Mutant: the lock is acquired and released by hand, without try/finally.
ReturnLocked(t) ==
  /\ frame[t].pc \in {"return", "raise"}
  /\ owner' = IF frame[t].pc = "return" THEN [owner EXCEPT ![frame[t].lock] = Null]
                                        ELSE owner
  /\ ready' = IF frame[t].pc = "return" THEN ready \cup {t} ELSE ready
  /\ Goto(t, "idle")
  /\ UNCHANGED <<mutex, registry, writer, disk, work, opens>>

\* The connection is closed, the lock released, and __init__ returns or raises.
Return(t) ==
  /\ frame[t].pc \in {"return", "raise"}
  /\ owner' = [owner EXCEPT ![frame[t].lock] = Null]
  /\ ready' = IF frame[t].pc = "return" THEN ready \cup {t} ELSE ready
  /\ Goto(t, "idle")
  /\ UNCHANGED <<mutex, registry, writer, disk, work, opens>>

\* Process p dies and restarts with an empty registry.
Crash(p) ==
  /\ \E t \in Threads : ProcOf[t] = p /\ frame[t].pc # "idle"
  /\ mutex' = [mutex EXCEPT ![p] = Null]
  /\ registry' = [registry EXCEPT ![p] = Null]
  /\ owner' = [l \in Threads |-> IF ProcOf[l] = p THEN Null ELSE owner[l]]
  /\ frame' = [t \in Threads |-> IF ProcOf[t] = p THEN Fresh ELSE frame[t]]
  /\ ready' = {t \in ready : ProcOf[t] # p}
  /\ IF writer # Null /\ ProcOf[writer] = p
       THEN Rollback ELSE UNCHANGED <<writer, work>>
  /\ UNCHANGED <<disk, opens>>

Step(t) ==
  \/ EnterRegistry(t) \/ MissPath(t) \/ InsertLock(t) \/ GetPathLock(t) \/ AcquireLock(t)
  \/ BeginImmediate(t) \/ BeginFails(t)
  \/ EnsureMigrations(t) \/ AlreadyApplied(t) \/ NotApplied(t)
  \/ CreateObject(t) \/ RecordVersion(t) \/ StatementFails(t)
  \/ Commit(t) \/ CommitRaises(t) \/ Return(t)

\* All the constructor calls allowed by the bound are made and answered.
Quiet ==
  /\ opens = MaxOpens
  /\ \A t \in Threads : frame[t].pc = "idle"
  /\ UNCHANGED vars

Next ==
  \/ \E t \in Threads : Step(t) \/ Construct(t)
  \/ \E p \in Procs : Crash(p)
  \/ Quiet

Spec == Init /\ [][Next]_vars

\* A thread that can run does run: each wait is for a lock of the process, and
\* BEGIN IMMEDIATE gives up after busy_timeout.
FairSpec == Spec /\ \A t \in Threads : WF_vars(Step(t))

-----------------------------------------------------------------------------
(* Properties.                                                             *)

\* Every variable keeps its type.
TypeOK ==
  /\ mutex \in [Procs -> Threads \cup {Null}]
  /\ registry \in [Procs -> Threads \cup {Null}]
  /\ owner \in [Threads -> Threads \cup {Null}]
  /\ writer \in Threads \cup {Null}
  /\ disk \in Schemas
  /\ work \in Schemas
  /\ frame \in [Threads -> Frames]
  /\ ready \subseteq Threads
  /\ opens \in 0..MaxOpens

\* A failed, killed or concurrent migration leaves the whole schema with its
\* version row or nothing at all: no table without the others.  A constructor
\* that returned gave its caller a repository whose tables are there, whichever
\* constructor created them and whatever others did since.
AllOrNothing ==
  /\ disk \in {Blank, Full}
  /\ ready # {} => disk = Full

\* Constructors that lose the race find the version inside their transaction:
\* none gets as far as inserting a second version row, and none creates an
\* index before its table.
NoStatementIsRefused ==
  \A t \in Threads :
    /\ frame[t].pc = "record" => ~ work.version
    /\ frame[t].pc = "ddl" => Creatable(Statements[frame[t].next], work)

\* All the threads of a process serialise on one lock object for the path,
\* although the registry is filled on demand by racing constructors.
OneLockPerPath ==
  /\ \A t, u \in Threads :
       ProcOf[t] = ProcOf[u] /\ frame[t].lock # Null /\ frame[u].lock # Null
         => frame[t].lock = frame[u].lock
  /\ \A t, u \in Threads :
       ProcOf[t] = ProcOf[u] /\ frame[t].pc \in Held /\ frame[u].pc \in Held => t = u

\* Every constructor returns or raises: the two locks are never kept.
EveryOpenEnds == \A t \in Threads : (frame[t].pc # "idle") ~> (frame[t].pc = "idle")
=============================================================================
