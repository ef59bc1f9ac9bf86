----------------------- MODULE SchemaMigrationProofs -----------------------
(***************************************************************************)
(* Proofs about SchemaMigration, for any number of threads, processes and  *)
(* constructor calls.  The locks and the schema are two halves of one      *)
(* inductive invariant: the first half keeps constructors apart, SQLite's  *)
(* write lock lets the second follow the one open transaction.             *)
(***************************************************************************)
EXTENDS SchemaMigrationRefinement, TLAPS

PC(t) == frame[t].pc

\* The registry has one entry per process, made by a thread of that process,
\* and every constructor past _get_path_lock holds that entry.
Registered ==
  /\ \A p \in Procs : registry[p] # Null => ProcOf[registry[p]] = p
  /\ \A t \in Threads :
       /\ PC(t) \in Looking <=> mutex[ProcOf[t]] = t
       /\ PC(t) = "insert" => registry[ProcOf[t]] = Null
       /\ PC(t) \in Held \cup {"lock"} => frame[t].lock # Null
       /\ frame[t].lock # Null => registry[ProcOf[t]] = frame[t].lock

\* Each lock object is owned by the thread inside it, and SQLite's write lock
\* by the thread inside its transaction.
Owned ==
  \A t \in Threads :
    /\ PC(t) \in Held <=> frame[t].lock # Null /\ owner[frame[t].lock] = t
    /\ \A l \in Threads : owner[l] = t => frame[t].lock = l
    /\ PC(t) \in Transaction <=> writer = t

\* What the transaction of t has done so far.
Progress(t) ==
  /\ PC(t) = "first" => work = disk
  /\ PC(t) = "version" =>
       /\ work.version = disk.version
       /\ work.objects = disk.objects \cup {Statements[1]}
  /\ PC(t) = "ddl" =>
       /\ ~ work.version
       /\ frame[t].next \in 2..8
       /\ work.objects = {Statements[i] : i \in 1..(frame[t].next - 1)}
  /\ PC(t) = "record" => ~ work.version /\ work.objects = Objects
  /\ PC(t) = "commit" => work = Full
  /\ PC(t) = "return" => disk = Full

SchemaSound ==
  /\ AllOrNothing
  /\ writer = Null => work = disk
  /\ \A t \in Threads : Progress(t)

SInv == TypeOK /\ Registered /\ Owned /\ SchemaSound

-----------------------------------------------------------------------------
(* Statements and frames.                                                  *)

\* The statements create the objects, each index after its table.
LEMMA StatementFacts ==
  /\ Len(Statements) = 8
  /\ \A i \in 1..8 : Statements[i] \in Objects
  /\ Objects = {Statements[i] : i \in 1..8}
  /\ \A n \in 2..8 : Statements[n] \in {"idx_audit_events_run", "idx_audit_events_correlation"}
       => n \in {7, 8}
  /\ Statements[4] = "audit_events"
<1>1. Len(Statements) = 8 /\ Statements[4] = "audit_events"
  BY DEF Statements
<1>2. \A i \in 1..8 : Statements[i] \in Objects
  BY DEF Objects
<1>3. ASSUME NEW n \in 2..8,
             Statements[n] \in {"idx_audit_events_run", "idx_audit_events_correlation"}
      PROVE  n \in {7, 8}
  BY <1>3 DEF Statements
<1> QED BY <1>1, <1>2, <1>3 DEF Objects

\* The local variables of t after a step.
Effect(t, pc, lock, next) ==
  /\ frame' \in [Threads -> Frames]
  /\ \A u \in Threads \ {t} : frame'[u] = frame[u]
  /\ frame'[t].pc = pc
  /\ frame'[t].lock = lock
  /\ frame'[t].next = next

LEMMA Moved ==
  ASSUME TypeOK, NEW t \in Threads, NEW f \in Frames, Move(t, f)
  PROVE  Effect(t, f.pc, f.lock, f.next)
BY DEF Move, Effect, TypeOK

LEMMA Went ==
  ASSUME TypeOK, NEW t \in Threads, NEW p \in Labels, Goto(t, p)
  PROVE  Effect(t, p, frame[t].lock, frame[t].next)
<1> DEFINE f == [frame[t] EXCEPT !.pc = p]
<1>1. frame[t] \in Frames
  BY DEF TypeOK
<1>2. f \in Frames /\ f.pc = p /\ f.lock = frame[t].lock /\ f.next = frame[t].next
  BY <1>1 DEF Frames
<1>3. Move(t, f)
  BY DEF Goto
<1> HIDE DEF f
<1> QED BY <1>2, <1>3, Moved

USE DEF PC

-----------------------------------------------------------------------------
(* Steps in the registry.                                                  *)

\* A step outside the transactions leaves the schema sound.
LEMMA SchemaKept ==
  ASSUME SInv, NEW t \in Threads, NEW p, NEW l, NEW n, Effect(t, p, l, n),
         p \notin Transaction, p = "return" => PC(t) = "return",
         UNCHANGED <<writer, disk, work>>, ready' \subseteq ready
  PROVE  SchemaSound'
<1> USE DEF SInv, SchemaSound, Effect
<1>1. ASSUME NEW u \in Threads PROVE Progress(u)'
  <2>1. CASE u = t
    BY <2>1 DEF Progress, Transaction
  <2>2. CASE u # t
    BY <2>2 DEF Progress
  <2> QED BY <2>1, <2>2
<1> QED BY <1>1 DEF AllOrNothing

LEMMA ConstructStep ==
  ASSUME SInv, NEW t \in Threads, Construct(t)
  PROVE  SInv'
<1> DEFINE f == [Fresh EXCEPT !.pc = "registry"]
<1>1. f \in Frames /\ f.pc = "registry" /\ f.lock = Null /\ f.next = 1
  BY DEF Fresh, Frames, Labels, Looking
<1>2. Move(t, f) /\ PC(t) = "idle"
  BY DEF Construct
<1> HIDE DEF f
<1>3. Effect(t, "registry", Null, 1)
  BY <1>1, <1>2, Moved DEF SInv
<1>4. SchemaSound'
  BY <1>2, <1>3, SchemaKept DEF Construct, Transaction
<1>5. TypeOK'
  BY <1>3, Distinct DEF Construct, SInv, TypeOK, Effect
<1>6. Registered'
  BY <1>2, <1>3 DEF Construct, SInv, Registered, Effect, Looking, Held, Transaction
<1>7. Owned'
  BY <1>2, <1>3 DEF Construct, SInv, Owned, Effect, Held, Transaction
<1> QED BY <1>4, <1>5, <1>6, <1>7 DEF SInv

LEMMA EnterRegistryStep ==
  ASSUME SInv, NEW t \in Threads, EnterRegistry(t)
  PROVE  SInv'
<1>1. Effect(t, "lookup", frame[t].lock, frame[t].next)
  BY Went DEF EnterRegistry, SInv, Labels, Looking
<1>2. SchemaSound'
  BY <1>1, SchemaKept DEF EnterRegistry, Transaction
<1>3. TypeOK'
  BY <1>1, Placement DEF EnterRegistry, SInv, TypeOK, Effect
<1>4. Registered'
  <2>1. /\ \A u \in Threads : PC(u)' \in Looking <=> mutex'[ProcOf[u]] = u
    BY <1>1, Placement, Distinct DEF EnterRegistry, SInv, TypeOK, Registered, Effect, Looking
  <2> QED BY <1>1, <2>1 DEF EnterRegistry, SInv, Registered, Effect, Looking, Held, Transaction
<1>5. Owned'
  BY <1>1 DEF EnterRegistry, SInv, Owned, Effect, Held, Transaction
<1> QED BY <1>2, <1>3, <1>4, <1>5 DEF SInv

LEMMA MissPathStep ==
  ASSUME SInv, NEW t \in Threads, MissPath(t)
  PROVE  SInv'
<1>1. Effect(t, "insert", frame[t].lock, frame[t].next)
  BY Went DEF MissPath, SInv, Labels, Looking
<1>2. SchemaSound'
  BY <1>1, SchemaKept DEF MissPath, Transaction
<1>3. TypeOK'
  BY <1>1 DEF MissPath, SInv, TypeOK, Effect
<1>4. Registered'
  BY <1>1 DEF MissPath, SInv, Registered, Effect, Looking, Held, Transaction
<1>5. Owned'
  BY <1>1 DEF MissPath, SInv, Owned, Effect, Held, Transaction
<1> QED BY <1>2, <1>3, <1>4, <1>5 DEF SInv

\* Only the holder of the mutex inserts, and only the first entry.
LEMMA InsertLockStep ==
  ASSUME SInv, NEW t \in Threads, InsertLock(t)
  PROVE  SInv'
<1>1. Effect(t, "lookup", frame[t].lock, frame[t].next)
  BY Went DEF InsertLock, SInv, Labels, Looking
<1>2. SchemaSound'
  BY <1>1, SchemaKept DEF InsertLock, Transaction
<1>3. TypeOK'
  BY <1>1 DEF InsertLock, SInv, TypeOK, Effect
<1>4. Registered'
  <2> DEFINE q == ProcOf[t]
  <2>1. q \in Procs /\ registry' = [registry EXCEPT ![q] = t] /\ registry[q] = Null
        /\ mutex[q] = t /\ mutex' = mutex /\ registry \in [Procs -> Threads \cup {Null}]
    BY Placement DEF InsertLock, SInv, TypeOK, Registered, Looking
  <2>2. \A u \in Threads : ProcOf[u] = q => frame[u].lock = Null
    BY <2>1 DEF SInv, Registered
  <2>3. ASSUME NEW u \in Threads, u # t, PC(u) = "insert"
        PROVE  ProcOf[u] # q
    BY <2>1, <2>3 DEF SInv, Registered, Looking
  <2>4. ASSUME NEW u \in Threads
        PROVE  /\ PC(u)' = "insert" => registry'[ProcOf[u]] = Null
               /\ frame'[u].lock # Null => registry'[ProcOf[u]] = frame'[u].lock
    BY <1>1, <2>1, <2>2, <2>3, Placement DEF SInv, Registered, Effect
  <2>5. \A p \in Procs : registry'[p] # Null => ProcOf[registry'[p]] = p
    BY <2>1 DEF SInv, Registered
  <2>6. ASSUME NEW u \in Threads
        PROVE  /\ PC(u)' \in Looking <=> mutex'[ProcOf[u]] = u
               /\ PC(u)' \in Held \cup {"lock"} => frame'[u].lock # Null
    BY <1>1, <2>1 DEF SInv, Registered, Effect, Looking, Held, Transaction, InsertLock
  <2> QED BY <2>4, <2>5, <2>6 DEF Registered
<1>5. Owned'
  BY <1>1 DEF InsertLock, SInv, Owned, Effect, Held, Transaction
<1> QED BY <1>2, <1>3, <1>4, <1>5 DEF SInv

LEMMA GetPathLockStep ==
  ASSUME SInv, NEW t \in Threads, GetPathLock(t)
  PROVE  SInv'
<1> DEFINE q == ProcOf[t]
           l == registry[q]
           f == [frame[t] EXCEPT !.pc = "lock", !.lock = l]
<1>1. q \in Procs /\ l \in Threads /\ l # Null /\ PC(t) = "lookup"
  BY Placement DEF GetPathLock, SInv, TypeOK
<1>2. Move(t, f) /\ mutex' = [mutex EXCEPT ![q] = Null]
      /\ UNCHANGED <<registry, owner, writer, disk, work, ready, opens>>
  BY DEF GetPathLock
<1> HIDE DEF l
<1>3. f \in Frames /\ f.pc = "lock" /\ f.lock = l /\ f.next = frame[t].next
  BY <1>1 DEF SInv, TypeOK, Frames, Labels
<1> HIDE DEF f
<1>4. Effect(t, "lock", l, frame[t].next)
  BY <1>2, <1>3, Moved DEF SInv
<1>5. SchemaSound'
  BY <1>2, <1>4, SchemaKept DEF Transaction
<1>6. TypeOK'
  BY <1>2, <1>4 DEF SInv, TypeOK, Effect
<1>7. mutex[q] = t /\ q = ProcOf[t] /\ l = registry[q]
  BY <1>1 DEF SInv, Registered, Looking, l
<1> HIDE DEF q
<1>8. Registered'
  <2>1. ASSUME NEW u \in Threads
        PROVE  PC(u)' \in Looking <=> mutex'[ProcOf[u]] = u
    <3>1. CASE u = t
      BY <1>1, <1>2, <1>4, <1>7, <3>1, Distinct DEF SInv, TypeOK, Effect, Looking
    <3>2. CASE u # t
      BY <1>1, <1>2, <1>4, <1>7, <3>2, Placement, Distinct DEF SInv, TypeOK, Registered, Effect
    <3> QED BY <3>1, <3>2
  <2>2. ASSUME NEW u \in Threads
        PROVE  /\ PC(u)' = "insert" => registry'[ProcOf[u]] = Null
               /\ PC(u)' \in Held \cup {"lock"} => frame'[u].lock # Null
               /\ frame'[u].lock # Null => registry'[ProcOf[u]] = frame'[u].lock
    BY <1>1, <1>2, <1>4, <1>7 DEF SInv, Registered, Effect
  <2> QED BY <1>2, <2>1, <2>2 DEF SInv, Registered
<1>9. Owned'
  <2>1. owner[l] # t
    BY <1>1 DEF SInv, Owned, Held, Transaction
  <2>2. ASSUME NEW u \in Threads, u # t
        PROVE  /\ PC(u)' \in Held <=> frame'[u].lock # Null /\ owner'[frame'[u].lock] = u
               /\ PC(u)' \in Transaction <=> writer' = u
               /\ \A m \in Threads : owner'[m] = u => frame'[u].lock = m
    BY <1>2, <1>4, <2>2 DEF SInv, Owned, Effect
  <2>3. \A m \in Threads : owner[m] # t
    BY <1>1, Distinct DEF SInv, Owned, Held, Transaction
  <2>4. writer # t
    BY <1>1 DEF SInv, Owned, Transaction
  <2> QED BY <1>1, <1>2, <1>4, <2>1, <2>2, <2>3, <2>4 DEF Owned, Effect, Held, Transaction
<1> QED BY <1>5, <1>6, <1>8, <1>9 DEF SInv

-----------------------------------------------------------------------------
(* Steps inside the lock.                                                  *)

LEMMA AcquireLockStep ==
  ASSUME SInv, NEW t \in Threads, AcquireLock(t)
  PROVE  SInv'
<1> DEFINE l == frame[t].lock
<1>1. PC(t) = "lock" /\ l # Null /\ l \in Threads /\ owner[l] = Null
  BY DEF AcquireLock, SInv, TypeOK, Registered, Frames
<1>2. owner' = [owner EXCEPT ![l] = t]
      /\ UNCHANGED <<mutex, registry, writer, disk, work, ready, opens>>
  BY DEF AcquireLock
<1>3. Effect(t, "begin", l, frame[t].next)
  BY Went DEF AcquireLock, SInv, Labels, Held
<1> HIDE DEF l
<1>4. SchemaSound'
  BY <1>2, <1>3, SchemaKept DEF Transaction
<1>5. TypeOK'
  BY <1>2, <1>3 DEF SInv, TypeOK, Effect
<1>6. Registered'
  BY <1>1, <1>2, <1>3 DEF SInv, Registered, Effect, Looking, Held, l
<1>7. Owned'
  <2>1. \A m \in Threads : owner[m] # t
    BY <1>1, Distinct DEF SInv, Owned, Held, Transaction
  <2>2. \A u \in Threads : PC(u) \in Held => frame[u].lock # l
    BY <1>1, Distinct DEF SInv, Owned, l
  <2>3. owner \in [Threads -> Threads \cup {Null}] /\ t # Null
    BY Distinct DEF SInv, TypeOK
  <2>4. ASSUME NEW u \in Threads, u # t
        PROVE  /\ PC(u)' \in Held <=> frame'[u].lock # Null /\ owner'[frame'[u].lock] = u
               /\ PC(u)' \in Transaction <=> writer' = u
               /\ \A m \in Threads : owner'[m] = u => frame'[u].lock = m
    <3>1. frame'[u] = frame[u] /\ frame[u].lock \in Threads \cup {Null}
      BY <1>3, <2>4 DEF Effect, SInv, TypeOK, Frames
    <3>2. \A m \in Threads : owner'[m] = u <=> owner[m] = u /\ m # l
      BY <1>1, <1>2, <2>3, <2>4, Distinct
    <3>3. owner[l] # u
      BY <1>1, Distinct
    <3> QED BY <1>2, <2>2, <3>1, <3>2, <3>3 DEF SInv, Owned
  <2>5. writer # t
    BY <1>1 DEF SInv, Owned, Transaction
  <2>6. \A m \in Threads : owner'[m] = t <=> m = l
    BY <1>1, <1>2, <2>1, <2>3
  <2> QED BY <1>1, <1>2, <1>3, <2>4, <2>5, <2>6 DEF Owned, Effect, Held, Transaction
<1> QED BY <1>4, <1>5, <1>6, <1>7 DEF SInv

\* A step of the thread inside the lock that stays inside: SQLite's write lock
\* follows its program counter.
LEMMA LocksKept ==
  ASSUME SInv, NEW t \in Threads, NEW p \in Held, NEW n,
         Effect(t, p, frame[t].lock, n), PC(t) \in Held,
         writer' = (IF p \in Transaction THEN t ELSE Null),
         writer \in {Null, t},
         UNCHANGED <<mutex, registry, owner>>
  PROVE  Registered' /\ Owned'
<1>1. Registered'
  BY DEF SInv, Registered, Effect, Looking, Held, Transaction
<1>2. ASSUME NEW u \in Threads, u # t
      PROVE  writer' # u /\ PC(u)' \notin Transaction
  BY <1>2, Distinct DEF SInv, Owned, Effect
<1>3. Owned'
  BY <1>2, Distinct DEF SInv, Owned, Effect
<1> QED BY <1>1, <1>3

\* A transaction's write lock is its thread's.
LEMMA MyTransaction ==
  ASSUME SInv, NEW t \in Threads, PC(t) \in Transaction
  PROVE  writer = t /\ Progress(t) /\ \A u \in Threads \ {t} : PC(u) \notin Transaction
BY DEF SInv, Owned, SchemaSound

\* The schema after a step of the writing transaction that stays open.
LEMMA WorkKept ==
  ASSUME SInv, NEW t \in Threads, NEW p \in Transaction, NEW n,
         Effect(t, p, frame[t].lock, n), PC(t) \in Transaction, Progress(t)',
         work' \in Schemas,
         UNCHANGED <<mutex, registry, owner, writer, disk, ready, opens>>
  PROVE  SInv'
<1>1. writer = t /\ \A u \in Threads \ {t} : PC(u) \notin Transaction
  BY MyTransaction
<1>2. Registered' /\ Owned'
  BY <1>1, LocksKept DEF Held
<1>3. TypeOK'
  BY DEF SInv, TypeOK, Effect
<1>4. ASSUME NEW u \in Threads PROVE Progress(u)'
  <2>1. CASE u = t
    BY <2>1
  <2>2. CASE u # t
    BY <1>1, <2>2 DEF SInv, SchemaSound, Progress, Effect, Transaction
  <2> QED BY <2>1, <2>2
<1>5. SchemaSound'
  BY <1>1, <1>4, Distinct DEF SInv, SchemaSound, AllOrNothing
<1> QED BY <1>2, <1>3, <1>5 DEF SInv

\* The schema after a step that ends the transaction.
LEMMA TransactionEnds ==
  ASSUME SInv, NEW t \in Threads, NEW p \in {"return", "raise"},
         Effect(t, p, frame[t].lock, frame[t].next), PC(t) \in Transaction,
         disk' \in {disk, Full}, work' = disk', writer' = Null,
         p = "return" => disk' = Full,
         UNCHANGED <<mutex, registry, owner, ready, opens>>
  PROVE  SInv'
<1>1. writer = t /\ \A u \in Threads \ {t} : PC(u) \notin Transaction
  BY MyTransaction
<1>2. Registered' /\ Owned'
  BY <1>1, LocksKept DEF Held, Transaction
<1>3. Full \in Schemas
  BY DEF Full, Schemas
<1>4. TypeOK'
  BY <1>3 DEF SInv, TypeOK, Effect
<1>5. ASSUME NEW u \in Threads PROVE Progress(u)'
  <2>1. CASE u = t
    BY <2>1 DEF Progress, Effect, Transaction
  <2>2. CASE u # t
    BY <1>1, <2>2 DEF SInv, SchemaSound, Progress, Effect, Transaction
  <2> QED BY <2>1, <2>2
<1>6. SchemaSound'
  BY <1>5 DEF SInv, SchemaSound, AllOrNothing
<1> QED BY <1>2, <1>4, <1>6 DEF SInv

-----------------------------------------------------------------------------
(* The statements of apply.                                                *)

LEMMA BeginFailsStep ==
  ASSUME SInv, NEW t \in Threads, BeginFails(t)
  PROVE  SInv'
<1>1. Effect(t, "raise", frame[t].lock, frame[t].next) /\ PC(t) = "begin"
  BY Went DEF BeginFails, SInv, Labels, Held
<1>2. UNCHANGED <<mutex, registry, owner, writer, disk, work, ready, opens>>
  BY DEF BeginFails
<1>3. SchemaSound'
  BY <1>1, <1>2, SchemaKept DEF Transaction
<1>4. TypeOK'
  BY <1>1, <1>2 DEF SInv, TypeOK, Effect
<1>5. Registered'
  BY <1>1, <1>2 DEF SInv, Registered, Effect, Looking, Held, Transaction
<1>6. Owned'
  BY <1>1, <1>2 DEF SInv, Owned, Effect, Held, Transaction
<1> QED BY <1>3, <1>4, <1>5, <1>6 DEF SInv

LEMMA BeginImmediateStep ==
  ASSUME SInv, NEW t \in Threads, BeginImmediate(t)
  PROVE  SInv'
<1>1. Effect(t, "first", frame[t].lock, frame[t].next) /\ PC(t) = "begin" /\ writer = Null
  BY Went DEF BeginImmediate, SInv, Labels, Held, Transaction
<1>2. writer' = t /\ UNCHANGED <<mutex, registry, owner, disk, work, ready, opens>>
  BY DEF BeginImmediate
<1>3. Registered' /\ Owned'
  BY <1>1, <1>2, LocksKept DEF Held, Transaction
<1>4. TypeOK'
  BY <1>1, <1>2 DEF SInv, TypeOK, Effect
<1>5. ASSUME NEW u \in Threads PROVE Progress(u)'
  <2>1. CASE u = t
    BY <1>1, <1>2, <2>1 DEF SInv, SchemaSound, Progress, Effect
  <2>2. CASE u # t
    BY <1>1, <1>2, <2>2 DEF SInv, SchemaSound, Progress, Effect
  <2> QED BY <2>1, <2>2
<1>6. SchemaSound'
  BY <1>2, <1>5, Distinct DEF SInv, SchemaSound, AllOrNothing
<1> QED BY <1>3, <1>4, <1>6 DEF SInv

LEMMA EnsureMigrationsStep ==
  ASSUME SInv, NEW t \in Threads, EnsureMigrations(t)
  PROVE  SInv'
<1>1. Effect(t, "version", frame[t].lock, frame[t].next) /\ PC(t) = "first"
  BY Went DEF EnsureMigrations, SInv, Labels, Held, Transaction
<1>2. work = disk /\ work \in Schemas
  BY <1>1 DEF SInv, TypeOK, SchemaSound, Progress
<1>3. work' = [work EXCEPT !.objects = work.objects \cup {Statements[1]}]
      /\ UNCHANGED <<mutex, registry, owner, writer, disk, ready, opens>>
  BY DEF EnsureMigrations
<1>4. /\ work'.version = work.version /\ work'.objects = work.objects \cup {Statements[1]}
      /\ work' \in Schemas
  BY <1>2, <1>3, StatementFacts DEF Schemas
<1>5. Progress(t)'
  BY <1>1, <1>2, <1>3, <1>4 DEF Progress, Effect
<1> QED BY <1>1, <1>3, <1>4, <1>5, WorkKept DEF Transaction

\* The version row is there exactly when the whole schema is.
LEMMA AlreadyAppliedStep ==
  ASSUME SInv, NEW t \in Threads, AlreadyApplied(t)
  PROVE  SInv'
<1>1. Effect(t, "commit", frame[t].lock, frame[t].next) /\ PC(t) = "version" /\ work.version
  BY Went DEF AlreadyApplied, SInv, Labels, Held, Transaction
<1>2. UNCHANGED <<mutex, registry, owner, writer, disk, work, ready, opens>>
  BY DEF AlreadyApplied
<1>3. work \in Schemas /\ work.version = disk.version
      /\ work.objects = disk.objects \cup {Statements[1]} /\ disk \in {Blank, Full}
  BY <1>1 DEF SInv, TypeOK, SchemaSound, Progress, AllOrNothing
<1>4. work = Full
  BY <1>1, <1>3, StatementFacts DEF Full, Blank, Schemas
<1>5. Progress(t)'
  BY <1>1, <1>2, <1>4 DEF Progress, Effect
<1> QED BY <1>1, <1>2, <1>3, <1>5, WorkKept DEF Transaction

LEMMA NotAppliedStep ==
  ASSUME SInv, NEW t \in Threads, NotApplied(t)
  PROVE  SInv'
<1> DEFINE f == [frame[t] EXCEPT !.pc = "ddl", !.next = 2]
<1>1. frame[t] \in Frames /\ PC(t) = "version" /\ ~ work.version /\ Move(t, f)
      /\ UNCHANGED <<mutex, registry, owner, writer, disk, work, ready, opens>>
  BY DEF NotApplied, SInv, TypeOK
<1>2. f \in Frames /\ f.pc = "ddl" /\ f.lock = frame[t].lock /\ f.next = 2
  <2>1. "ddl" \in Labels /\ 2 \in 1..9
    BY DEF Labels, Held, Transaction
  <2>2. f \in Frames
    BY <1>1, <2>1 DEF Frames
  <2> QED BY <1>1, <2>2 DEF Frames
<1> HIDE DEF f
<1>3. Effect(t, "ddl", frame[t].lock, 2)
  BY <1>1, <1>2, Moved DEF SInv
<1>4. work \in Schemas /\ work.version = disk.version
      /\ work.objects = disk.objects \cup {Statements[1]} /\ disk \in {Blank, Full}
  BY <1>1 DEF SInv, TypeOK, SchemaSound, Progress, AllOrNothing
<1>5. work.objects = {Statements[1]}
  BY <1>1, <1>4 DEF Full, Blank
<1>6. {Statements[i] : i \in 1..(2 - 1)} = {Statements[1]}
  OBVIOUS
<1>7. Progress(t)'
  BY <1>1, <1>3, <1>5, <1>6 DEF Progress, Effect
<1> QED BY <1>1, <1>3, <1>4, <1>7, WorkKept DEF Transaction

LEMMA CreateObjectStep ==
  ASSUME SInv, NEW t \in Threads, CreateObject(t)
  PROVE  SInv'
<1> DEFINE n == frame[t].next
           p == IF n = Len(Statements) THEN "record" ELSE "ddl"
           f == [frame[t] EXCEPT !.next = n + 1, !.pc = p]
<1>1. frame[t] \in Frames /\ PC(t) = "ddl" /\ Move(t, f) /\ work \in Schemas
      /\ UNCHANGED <<mutex, registry, owner, writer, disk, ready, opens>>
  BY DEF CreateObject, SInv, TypeOK
<1>2. /\ ~ work.version /\ n \in 2..8
      /\ work.objects = {Statements[i] : i \in 1..(n - 1)}
  BY <1>1 DEF SInv, SchemaSound, Progress
<1>3. work' = [work EXCEPT !.objects = work.objects \cup {Statements[n]}]
  BY DEF CreateObject
<1>4. p \in {"record", "ddl"} /\ (p = "record" <=> n = 8)
  BY StatementFacts
<1> HIDE DEF n, p
<1>5. f \in Frames /\ f.pc = p /\ f.lock = frame[t].lock /\ f.next = n + 1
  <2>1. p \in Labels /\ n + 1 \in 1..9
    BY <1>2, <1>4 DEF Labels, Held, Transaction
  <2> QED BY <1>1, <2>1 DEF Frames
<1> HIDE DEF f
<1>6. Effect(t, p, frame[t].lock, n + 1)
  BY <1>1, <1>5, Moved DEF SInv
<1>7. {Statements[i] : i \in 1..(n - 1)} \cup {Statements[n]} = {Statements[i] : i \in 1..n}
  BY <1>2
<1>8. /\ work'.version = work.version /\ work'.objects = {Statements[i] : i \in 1..n}
      /\ work' \in Schemas
  BY <1>1, <1>2, <1>3, <1>7, StatementFacts DEF Schemas
<1>9. Progress(t)'
  <2>1. (n + 1) - 1 = n
    BY <1>2
  <2>2. CASE n = 8
    BY <1>2, <1>4, <1>6, <1>8, <2>2, StatementFacts DEF Progress, Effect
  <2>3. CASE n # 8
    BY <1>2, <1>4, <1>6, <1>8, <2>1, <2>3 DEF Progress, Effect
  <2> QED BY <2>2, <2>3
<1> QED BY <1>1, <1>4, <1>6, <1>8, <1>9, WorkKept DEF Transaction

LEMMA RecordVersionStep ==
  ASSUME SInv, NEW t \in Threads, RecordVersion(t)
  PROVE  SInv'
<1>1. Effect(t, "commit", frame[t].lock, frame[t].next) /\ PC(t) = "record"
  BY Went DEF RecordVersion, SInv, Labels, Held, Transaction
<1>2. work' = [work EXCEPT !.version = TRUE]
      /\ UNCHANGED <<mutex, registry, owner, writer, disk, ready, opens>>
  BY DEF RecordVersion
<1>3. work \in Schemas /\ work.objects = Objects
  BY <1>1 DEF SInv, TypeOK, SchemaSound, Progress
<1>4. work' = Full /\ work' \in Schemas
  BY <1>2, <1>3 DEF Full, Schemas
<1>5. Progress(t)'
  BY <1>1, <1>4 DEF Progress, Effect
<1> QED BY <1>1, <1>2, <1>4, <1>5, WorkKept DEF Transaction

LEMMA TransactionEndsStep ==
  ASSUME SInv, NEW t \in Threads, StatementFails(t) \/ Commit(t) \/ CommitRaises(t)
  PROVE  SInv'
<1>1. PC(t) \in Transaction
      /\ UNCHANGED <<mutex, registry, owner, ready, opens>>
  BY DEF StatementFails, Commit, CommitRaises, Transaction
<1>2. PC(t) = "commit" => work = Full
  BY <1>1 DEF SInv, SchemaSound, Progress
<1>3. CASE StatementFails(t)
  <2>1. Effect(t, "raise", frame[t].lock, frame[t].next)
    BY <1>3, Went DEF StatementFails, SInv, Labels, Held
  <2> QED BY <1>1, <1>3, <2>1, TransactionEnds DEF StatementFails, Rollback
<1>4. CASE Commit(t)
  <2>1. Effect(t, "return", frame[t].lock, frame[t].next)
    BY <1>4, Went DEF Commit, SInv, Labels, Held
  <2> QED BY <1>1, <1>2, <1>4, <2>1, TransactionEnds DEF Commit
<1>5. CASE CommitRaises(t)
  <2>1. Effect(t, "raise", frame[t].lock, frame[t].next)
    BY <1>5, Went DEF CommitRaises, SInv, Labels, Held
  <2> QED BY <1>1, <1>2, <1>5, <2>1, TransactionEnds DEF CommitRaises
<1> QED BY <1>3, <1>4, <1>5

LEMMA ReturnStep ==
  ASSUME SInv, NEW t \in Threads, Return(t)
  PROVE  SInv'
<1> DEFINE l == frame[t].lock
<1>1. PC(t) \in {"return", "raise"} /\ l \in Threads /\ owner[l] = t /\ l # Null
  BY Distinct DEF Return, SInv, TypeOK, Registered, Owned, Frames, Held
<1>2. owner' = [owner EXCEPT ![l] = Null] /\ UNCHANGED <<mutex, registry, writer, disk, work, opens>>
      /\ (ready' = IF PC(t) = "return" THEN ready \cup {t} ELSE ready)
  BY DEF Return
<1>3. Effect(t, "idle", l, frame[t].next)
  BY Went DEF Return, SInv, Labels
<1>4. PC(t) = "return" => disk = Full
  BY DEF SInv, SchemaSound, Progress
<1>5. \A u \in Threads : u # t => owner[l] # u
  BY <1>1
<1> HIDE DEF l
<1>6. TypeOK'
  BY <1>2, <1>3 DEF SInv, TypeOK, Effect
<1>7. Registered'
  BY <1>1, <1>2, <1>3 DEF SInv, Registered, Effect, Looking, Held, l
<1>8. Owned'
  <2>1. owner \in [Threads -> Threads \cup {Null}]
    BY DEF SInv, TypeOK
  <2>2. \A m \in Threads : owner[m] = t => m = l
    BY DEF SInv, Owned, l
  <2>3. \A m, u \in Threads : owner'[m] = u <=> owner[m] = u /\ m # l
    BY <1>1, <1>2, <2>1, Distinct
  <2>4. ASSUME NEW u \in Threads, u # t
        PROVE  /\ PC(u)' \in Held <=> frame'[u].lock # Null /\ owner'[frame'[u].lock] = u
               /\ PC(u)' \in Transaction <=> writer' = u
               /\ \A m \in Threads : owner'[m] = u => frame'[u].lock = m
    <3>1. frame'[u] = frame[u] /\ frame[u].lock \in Threads \cup {Null}
      BY <1>3, <2>4 DEF Effect, SInv, TypeOK, Frames
    <3> QED BY <1>2, <1>5, <2>3, <2>4, <3>1 DEF SInv, Owned
  <2>5. writer # t
    BY <1>1 DEF SInv, Owned, Transaction
  <2>6. \A m \in Threads : owner'[m] # t
    BY <2>2, <2>3
  <2> QED BY <1>1, <1>2, <1>3, <2>4, <2>5, <2>6 DEF Owned, Effect, Held, Transaction
<1>9. SchemaSound'
  <2>1. ASSUME NEW u \in Threads PROVE Progress(u)'
    BY <1>2, <1>3 DEF SInv, SchemaSound, Progress, Effect
  <2> QED BY <1>2, <1>4, <2>1 DEF SInv, SchemaSound, AllOrNothing
<1> QED BY <1>6, <1>7, <1>8, <1>9 DEF SInv

\* A dead process takes its registry, its locks and its transaction with it.
LEMMA CrashStep ==
  ASSUME SInv, NEW p \in Procs, Crash(p)
  PROVE  SInv'
<1>1. /\ mutex' = [mutex EXCEPT ![p] = Null]
      /\ registry' = [registry EXCEPT ![p] = Null]
      /\ owner' = [l \in Threads |-> IF ProcOf[l] = p THEN Null ELSE owner[l]]
      /\ frame' = [t \in Threads |-> IF ProcOf[t] = p THEN Fresh ELSE frame[t]]
      /\ ready' \subseteq ready /\ UNCHANGED <<disk, opens>>
      /\ IF writer # Null /\ ProcOf[writer] = p
           THEN work' = disk /\ writer' = Null ELSE UNCHANGED <<writer, work>>
  BY DEF Crash, Rollback
<1>2. Fresh \in Frames /\ Fresh.pc = "idle" /\ Fresh.lock = Null
  BY DEF Fresh, Frames, Labels
<1>3. \A t \in Threads : /\ ProcOf[t] = p => frame'[t].pc = "idle" /\ frame'[t].lock = Null
                         /\ ProcOf[t] # p => frame'[t] = frame[t]
  BY <1>1, <1>2
<1>4. TypeOK'
  BY <1>1, <1>2 DEF SInv, TypeOK
<1>5. Registered'
  <2>1. ASSUME NEW q \in Procs, registry'[q] # Null
        PROVE  ProcOf[registry'[q]] = q
    BY <1>1, <2>1 DEF SInv, Registered, TypeOK
  <2>2. ASSUME NEW t \in Threads
        PROVE  /\ PC(t)' \in Looking <=> mutex'[ProcOf[t]] = t
               /\ PC(t)' = "insert" => registry'[ProcOf[t]] = Null
               /\ PC(t)' \in Held \cup {"lock"} => frame'[t].lock # Null
               /\ frame'[t].lock # Null => registry'[ProcOf[t]] = frame'[t].lock
    <3>1. CASE ProcOf[t] = p
      BY <1>1, <1>3, <3>1, Distinct DEF SInv, TypeOK, Looking, Held, Transaction
    <3>2. CASE ProcOf[t] # p
      <4>1. mutex'[ProcOf[t]] = mutex[ProcOf[t]] /\ registry'[ProcOf[t]] = registry[ProcOf[t]]
        BY <1>1, <3>2, Placement DEF SInv, TypeOK
      <4> QED BY <1>3, <3>2, <4>1 DEF SInv, Registered
    <3> QED BY <3>1, <3>2
  <2> QED BY <2>1, <2>2 DEF Registered
<1>6. Owned'
  <2> SUFFICES ASSUME NEW t \in Threads
               PROVE  /\ PC(t)' \in Held <=> frame'[t].lock # Null /\ owner'[frame'[t].lock] = t
                      /\ \A l \in Threads : owner'[l] = t => frame'[t].lock = l
                      /\ PC(t)' \in Transaction <=> writer' = t
    BY DEF Owned
  <2>1. CASE ProcOf[t] = p
    <3>1. writer' # t
      BY <1>1, <2>1, Distinct
    <3>2. ASSUME NEW l \in Threads PROVE owner'[l] # t
      <4>1. owner[l] = t => ProcOf[l] = p
        BY <2>1, Distinct DEF SInv, Registered, Owned, TypeOK
      <4> QED BY <1>1, <4>1, Distinct
    <3> QED BY <1>3, <2>1, <3>1, <3>2 DEF Held, Transaction
  <2>2. CASE ProcOf[t] # p
    <3>1. frame'[t] = frame[t] /\ frame[t].lock \in Threads \cup {Null}
      BY <1>3, <2>2 DEF SInv, TypeOK, Frames
    <3>2. frame[t].lock # Null => ProcOf[frame[t].lock] = ProcOf[t]
      BY Placement DEF SInv, Registered
    <3>3. frame[t].lock # Null => owner'[frame[t].lock] = owner[frame[t].lock]
      BY <1>1, <2>2, <3>1, <3>2
    <3>4. \A l \in Threads : owner'[l] = t => owner[l] = t
      BY <1>1, Distinct
    <3>5. writer' = t <=> writer = t
      BY <1>1, <2>2, Distinct
    <3> QED BY <3>1, <3>3, <3>4, <3>5 DEF SInv, Owned
  <2> QED BY <2>1, <2>2
<1>7. SchemaSound'
  <2>1. ASSUME NEW t \in Threads PROVE Progress(t)'
    <3>1. CASE ProcOf[t] = p
      BY <1>3, <3>1 DEF Progress
    <3>2. CASE ProcOf[t] # p /\ PC(t) \in Transaction
      <4>1. writer = t /\ work' = work
        BY <1>1, <3>2 DEF SInv, Owned
      <4> QED BY <1>1, <1>3, <3>2, <4>1 DEF SInv, SchemaSound, Progress
    <3>3. CASE ProcOf[t] # p /\ PC(t) \notin Transaction
      BY <1>1, <1>3, <3>3 DEF SInv, SchemaSound, Progress, Transaction
    <3> QED BY <3>1, <3>2, <3>3
  <2>2. writer' = Null => work' = disk'
    BY <1>1 DEF SInv, SchemaSound
  <2> QED BY <1>1, <2>1, <2>2 DEF SInv, SchemaSound, AllOrNothing
<1> QED BY <1>4, <1>5, <1>6, <1>7 DEF SInv

-----------------------------------------------------------------------------
(* The theorems.                                                           *)

LEMMA Start ==
  ASSUME Init
  PROVE  SInv
<1>1. Blank \in Schemas /\ Fresh \in Frames /\ Fresh.pc = "idle" /\ Fresh.lock = Null
  BY DEF Blank, Schemas, Fresh, Frames, Labels
<1>2. TypeOK
  BY <1>1, Distinct DEF Init, TypeOK
<1>3. Registered
  BY <1>1, Distinct, Placement DEF Init, Registered, Looking, Held, Transaction
<1>4. Owned
  BY <1>1, Distinct DEF Init, Owned, Held, Transaction
<1>5. SchemaSound
  BY <1>1 DEF Init, SchemaSound, AllOrNothing, Progress
<1> QED BY <1>2, <1>3, <1>4, <1>5 DEF SInv

LEMMA Preserved ==
  ASSUME SInv, [Next]_vars
  PROVE  SInv'
<1>1. ASSUME NEW t \in Threads, Step(t)
      PROVE  SInv'
  BY <1>1, EnterRegistryStep, MissPathStep, InsertLockStep, GetPathLockStep, AcquireLockStep,
     BeginImmediateStep, BeginFailsStep, EnsureMigrationsStep, AlreadyAppliedStep,
     NotAppliedStep, CreateObjectStep, RecordVersionStep, TransactionEndsStep, ReturnStep
     DEF Step
<1>2. ASSUME UNCHANGED vars
      PROVE  SInv'
  BY <1>2 DEF vars, SInv, TypeOK, Registered, Owned, SchemaSound, AllOrNothing, Progress
<1> QED BY <1>1, <1>2, ConstructStep, CrashStep DEF Next, Quiet

\* The locks and the schema stay sound under every interleaving of
\* constructors, failures and crashes.
THEOREM MigrationInvariant == Spec => []SInv
BY Start, Preserved, PTL DEF Spec

\* Every variable of the constructors keeps its type.
THEOREM MigrationTyping == Spec => []TypeOK
<1>1. SInv => TypeOK
  BY DEF SInv
<1> QED BY <1>1, MigrationInvariant, PTL

\* A database never holds part of the schema, and a returned repository has
\* its tables.
THEOREM WholeSchema == Spec => []AllOrNothing
<1>1. SInv => AllOrNothing
  BY DEF SInv, SchemaSound
<1> QED BY <1>1, MigrationInvariant, PTL

\* No constructor inserts a second version row or an index without its table.
THEOREM StatementsSucceed == Spec => []NoStatementIsRefused
<1>1. SInv => NoStatementIsRefused
  <2> SUFFICES ASSUME SInv, NEW t \in Threads
               PROVE  /\ PC(t) = "record" => ~ work.version
                      /\ PC(t) = "ddl" => Creatable(Statements[frame[t].next], work)
    BY DEF NoStatementIsRefused
  <2>1. Progress(t)
    BY DEF SInv, SchemaSound
  <2>2. ASSUME PC(t) = "ddl", frame[t].next \in {7, 8}
        PROVE  "audit_events" \in work.objects
    BY <2>1, <2>2, StatementFacts DEF Progress
  <2> QED BY <2>1, <2>2, StatementFacts DEF Progress, Creatable
<1> QED BY <1>1, MigrationInvariant, PTL

\* The constructors of a process use one lock object, one at a time.
THEOREM OneLock == Spec => []OneLockPerPath
<1>1. SInv => OneLockPerPath
  <2> SUFFICES ASSUME SInv, NEW t \in Threads, NEW u \in Threads, ProcOf[t] = ProcOf[u]
               PROVE  /\ frame[t].lock # Null /\ frame[u].lock # Null
                           => frame[t].lock = frame[u].lock
                      /\ PC(t) \in Held /\ PC(u) \in Held => t = u
    BY DEF OneLockPerPath
  <2>1. frame[t].lock # Null /\ frame[u].lock # Null => frame[t].lock = frame[u].lock
    BY DEF SInv, Registered
  <2>2. ASSUME PC(t) \in Held, PC(u) \in Held PROVE t = u
    BY <2>1, <2>2 DEF SInv, Owned
  <2> QED BY <2>1, <2>2
<1> QED BY <1>1, MigrationInvariant, PTL

-----------------------------------------------------------------------------
(* The refinement.                                                         *)

LEMMA PhaseOf ==
  ASSUME NEW f \in Frames
  PROVE  /\ f.pc = "idle" => AbstractPhase(f) = "idle"
         /\ f.pc = "return" => AbstractPhase(f) = "served"
         /\ f.pc \notin {"idle", "return"} => AbstractPhase(f) = "asked"
BY DEF AbstractPhase

\* A step of t changes the phase of t alone.
LEMMA PhaseMoved ==
  ASSUME NEW t \in Threads, NEW p, NEW l, NEW n, Effect(t, p, l, n)
  PROVE  Phases' = [Phases EXCEPT ![t] = AbstractPhase(frame'[t])]
<1>1. ASSUME NEW u \in Threads, u # t PROVE AbstractPhase(frame'[u]) = AbstractPhase(frame[u])
  BY <1>1 DEF Effect
<1> QED BY <1>1 DEF Phases

\* A constructor waiting for a lock, at a statement or in a rollback has not
\* been served: its steps are hidden while the committed schema stays.
LEMMA Hidden ==
  ASSUME TypeOK, NEW t \in Threads, NEW p, NEW l, NEW n, Effect(t, p, l, n),
         PC(t) \notin {"idle", "return"}, p \notin {"idle", "return"},
         UNCHANGED <<disk, ready>>
  PROVE  UNCHANGED Migration!vars
<1>1. frame[t] \in Frames /\ frame'[t] \in Frames /\ frame'[t].pc = p
  BY DEF TypeOK, Effect
<1>2. AbstractPhase(frame'[t]) = AbstractPhase(frame[t])
  BY <1>1, PhaseOf
<1>3. Phases' = Phases
  BY <1>2, PhaseMoved DEF Phases
<1> QED BY <1>3 DEF Migration!vars

LEMMA HiddenStep ==
  ASSUME SInv, NEW t \in Threads,
         \/ EnterRegistry(t) \/ MissPath(t) \/ InsertLock(t) \/ GetPathLock(t)
         \/ AcquireLock(t) \/ BeginImmediate(t) \/ BeginFails(t) \/ EnsureMigrations(t)
         \/ AlreadyApplied(t) \/ NotApplied(t) \/ CreateObject(t) \/ RecordVersion(t)
         \/ StatementFails(t)
  PROVE  UNCHANGED Migration!vars
<1> DEFINE g == frame'[t]
<1>1. PC(t) \notin {"idle", "return"} /\ UNCHANGED <<disk, ready>>
  BY DEF EnterRegistry, MissPath, InsertLock, GetPathLock, AcquireLock, BeginImmediate,
         BeginFails, EnsureMigrations, AlreadyApplied, NotApplied, CreateObject,
         RecordVersion, StatementFails, Transaction, Rollback
<1>2. frame \in [Threads -> Frames] /\ frame[t] \in Frames /\ frame' \in [Threads -> Frames]
  <2>1. Next
    BY DEF Next, Step
  <2>2. SInv'
    BY <2>1, Preserved
  <2> QED BY <2>2 DEF SInv, TypeOK
<1>3. /\ \A u \in Threads \ {t} : frame'[u] = frame[u]
      /\ g.pc \notin {"idle", "return"}
  <2> DEFINE elsewhere == Labels \ {"idle", "return"}
  <2>1. CASE \E p \in elsewhere : Goto(t, p)
    <3>1. PICK p \in elsewhere : Goto(t, p)
      BY <2>1
    <3> QED BY <1>2, <3>1, Went DEF Effect, SInv
  <2>2. CASE GetPathLock(t)
    BY <1>2, <2>2 DEF GetPathLock, Move, Frames
  <2>3. CASE NotApplied(t)
    BY <1>2, <2>3 DEF NotApplied, Move, Frames
  <2>4. CASE CreateObject(t)
    <3> DEFINE n == frame[t].next
               q == IF n = Len(Statements) THEN "record" ELSE "ddl"
               f == [frame[t] EXCEPT !.next = n + 1, !.pc = q]
    <3>1. Move(t, f) /\ q \notin {"idle", "return"}
      BY <2>4 DEF CreateObject
    <3> HIDE DEF q
    <3>2. f.pc = q
      BY <1>2 DEF Frames
    <3> HIDE DEF f
    <3> QED BY <1>2, <3>1, <3>2 DEF Move
  <2>5. "lookup" \in elsewhere /\ "insert" \in elsewhere /\ "begin" \in elsewhere
        /\ "first" \in elsewhere /\ "raise" \in elsewhere /\ "version" \in elsewhere
        /\ "commit" \in elsewhere
    BY DEF Labels, Looking, Held, Transaction
  <2> HIDE DEF elsewhere
  <2> QED BY <2>1, <2>2, <2>3, <2>4, <2>5 DEF EnterRegistry, MissPath, InsertLock,
          AcquireLock, BeginImmediate, BeginFails, EnsureMigrations, AlreadyApplied,
          RecordVersion, StatementFails
<1>4. Effect(t, g.pc, g.lock, g.next)
  BY <1>2, <1>3 DEF Effect
<1> QED BY <1>1, <1>3, <1>4, Hidden DEF SInv

LEMMA Asking ==
  ASSUME SInv, NEW t \in Threads, Construct(t)
  PROVE  Migration!Next
<1> DEFINE f == [Fresh EXCEPT !.pc = "registry"]
<1>1. f \in Frames /\ f.pc = "registry"
  BY DEF Fresh, Frames, Labels, Looking
<1>2. Move(t, f) /\ PC(t) = "idle" /\ frame[t] \in Frames /\ UNCHANGED <<disk, ready>>
  BY DEF Construct, SInv, TypeOK
<1> HIDE DEF f
<1>3. Effect(t, f.pc, f.lock, f.next) /\ frame'[t] = f
  BY <1>1, <1>2, Moved DEF SInv, TypeOK, Move
<1>4. Phases[t] = "idle" /\ AbstractPhase(f) = "asked"
  BY <1>1, <1>2, PhaseOf DEF Phases
<1>5. Migration!Ask(t)
  BY <1>2, <1>3, <1>4, PhaseMoved DEF Migration!Ask
<1> QED BY <1>5 DEF Migration!Next

\* The commit is the step that brings the schema, reported or not.
LEMMA Applying ==
  ASSUME SInv, NEW t \in Threads, Commit(t) \/ CommitRaises(t)
  PROVE  Migration!Next
<1>1. PC(t) = "commit" /\ disk' = work /\ ready' = ready /\ frame[t] \in Frames
  BY DEF Commit, CommitRaises, SInv, TypeOK
<1>2. disk' = Full
  BY <1>1 DEF SInv, SchemaSound, Progress
<1>3. Phases[t] = "asked" /\ DOMAIN Phases = Threads
  BY <1>1, PhaseOf DEF Phases
<1>4. Phases' = [Phases EXCEPT ![t] = "served"] \/ Phases' = Phases
  <2>1. CASE Commit(t)
    <3>1. Effect(t, "return", frame[t].lock, frame[t].next)
      BY <2>1, Went DEF Commit, SInv, Labels, Held
    <3>2. AbstractPhase(frame'[t]) = "served"
      BY <3>1, PhaseOf DEF Effect
    <3> QED BY <3>1, <3>2, PhaseMoved
  <2>2. CASE CommitRaises(t)
    <3>1. Effect(t, "raise", frame[t].lock, frame[t].next)
      BY <2>2, Went DEF CommitRaises, SInv, Labels, Held
    <3>2. AbstractPhase(frame'[t]) = "asked"
      BY <3>1, PhaseOf DEF Effect
    <3>3. Phases' = [Phases EXCEPT ![t] = Phases[t]]
      BY <1>3, <3>1, <3>2, PhaseMoved
    <3> QED BY <3>3 DEF Phases
  <2> QED BY <2>1, <2>2
<1>5. Migration!Apply(t)
  BY <1>1, <1>2, <1>3, <1>4 DEF Migration!Apply
<1> QED BY <1>5 DEF Migration!Next

LEMMA Leaving ==
  ASSUME SInv, NEW t \in Threads, Return(t)
  PROVE  Migration!Next
<1>1. /\ PC(t) \in {"return", "raise"} /\ disk' = disk /\ frame[t] \in Frames
      /\ ready' = IF PC(t) = "return" THEN ready \cup {t} ELSE ready
  BY DEF Return, SInv, TypeOK
<1>2. Effect(t, "idle", frame[t].lock, frame[t].next)
  BY Went DEF Return, SInv, Labels
<1>3. Phases' = [Phases EXCEPT ![t] = "idle"]
  BY <1>2, PhaseMoved, PhaseOf DEF Effect
<1>4. CASE PC(t) = "return"
  <2>1. Phases[t] = "served"
    BY <1>1, <1>4, PhaseOf DEF Phases
  <2>2. Migration!Open(t)
    BY <1>1, <1>3, <1>4, <2>1 DEF Migration!Open
  <2> QED BY <2>2 DEF Migration!Next
<1>5. CASE PC(t) = "raise"
  <2>1. Phases[t] = "asked"
    BY <1>1, <1>5, PhaseOf DEF Phases
  <2>2. Migration!Refuse(t)
    BY <1>1, <1>3, <1>5, <2>1 DEF Migration!Refuse
  <2> QED BY <2>2 DEF Migration!Next
<1> QED BY <1>1, <1>4, <1>5

LEMMA Dying ==
  ASSUME SInv, NEW p \in Procs, Crash(p)
  PROVE  Migration!Next
<1> DEFINE S == {t \in Threads : ProcOf[t] = p}
<1>1. Fresh \in Frames /\ Fresh.pc = "idle"
  BY DEF Fresh, Frames, Labels
<1>2. AbstractPhase(Fresh) = "idle"
  BY <1>1, PhaseOf
<1>3. \A u \in Threads : frame'[u] = IF u \in S THEN Fresh ELSE frame[u]
  BY DEF Crash
<1>4. S \in SUBSET Threads /\ disk' = disk
  BY DEF Crash
<1>5. ready' = ready \ S
  BY DEF Crash, SInv, TypeOK
<1> HIDE DEF S
<1>6. Phases' = [u \in Threads |-> IF u \in S THEN "idle" ELSE Phases[u]]
  BY <1>2, <1>3 DEF Phases
<1>7. Migration!Leave(S)
  BY <1>4, <1>5, <1>6 DEF Migration!Leave
<1> QED BY <1>4, <1>7 DEF Migration!Next

LEMMA MigrationSimulation ==
  ASSUME SInv, [Next]_vars
  PROVE  [Migration!Next]_(Migration!vars)
<1>1. ASSUME NEW t \in Threads, Step(t)
      PROVE  Migration!Next \/ UNCHANGED Migration!vars
  BY <1>1, HiddenStep, Applying, Leaving DEF Step
<1>2. ASSUME UNCHANGED vars
      PROVE  UNCHANGED Migration!vars
  BY <1>2 DEF vars, Migration!vars, Phases
<1> QED BY <1>1, <1>2, Asking, Dying DEF Next, Quiet

\* Every behaviour of the constructors, statement by statement, is a behaviour
\* of the migration that happens in one step.
THEOREM ImplementsMigration == Spec => ImplementsAtomicMigration
<1>1. Init => Migration!Init
  BY DEF Init, Migration!Init, Phases, AbstractPhase, Fresh
<1>2. SInv /\ [Next]_vars => [Migration!Next]_(Migration!vars)
  BY MigrationSimulation
<1> QED BY <1>1, <1>2, MigrationInvariant, PTL
        DEF Spec, Migration!Spec, ImplementsAtomicMigration

-----------------------------------------------------------------------------
(* The length of a call.                                                   *)

\* The steps that a constructor still has before it at most: two more where the
\* path has no lock yet, one for each statement.
StepsLeft(t) ==
  CASE PC(t) = "registry" -> 18
    [] PC(t) = "lookup"   -> IF registry[ProcOf[t]] = Null THEN 17 ELSE 15
    [] PC(t) = "insert"   -> 16
    [] PC(t) = "lock"     -> 14
    [] PC(t) = "begin"    -> 13
    [] PC(t) = "first"    -> 12
    [] PC(t) = "version"  -> 11
    [] PC(t) = "ddl"      -> 12 - frame[t].next
    [] PC(t) = "record"   -> 3
    [] PC(t) = "commit"   -> 2
    [] PC(t) \in {"return", "raise"} -> 1
    [] PC(t) = "idle"     -> 0

LEMMA StepsBounded ==
  ASSUME SInv, NEW t \in Threads
  PROVE  StepsLeft(t) \in 0..18
<1>1. PC(t) \in Labels /\ (PC(t) = "ddl" => frame[t].next \in 2..8)
  BY DEF SInv, TypeOK, Frames, SchemaSound, Progress
<1> QED BY <1>1 DEF StepsLeft, Labels, Held, Transaction, Looking

\* Where a step leads from one place to another.
LEMMA StepsFall ==
  ASSUME SInv, NEW t \in Threads, NEW p, NEW n, Effect(t, p, frame[t].lock, n),
         \/ PC(t) = "registry" /\ p = "lookup"
         \/ PC(t) = "lock" /\ p = "begin"
         \/ PC(t) = "begin" /\ p \in {"first", "raise"}
         \/ PC(t) = "first" /\ p = "version"
         \/ PC(t) = "version" /\ p = "commit"
         \/ PC(t) = "version" /\ p = "ddl" /\ n = 2
         \/ PC(t) = "ddl" /\ p = "ddl" /\ n = frame[t].next + 1
         \/ PC(t) = "ddl" /\ p = "record"
         \/ PC(t) = "record" /\ p = "commit"
         \/ PC(t) = "commit" /\ p \in {"return", "raise"}
         \/ PC(t) \in Transaction /\ p = "raise"
         \/ PC(t) \in {"return", "raise"} /\ p = "idle"
  PROVE  StepsLeft(t)' < StepsLeft(t)
<1>1. PC(t)' = p /\ frame'[t].next = n
  BY DEF Effect
<1>2. PC(t) = "ddl" => frame[t].next \in 2..8
  BY DEF SInv, SchemaSound, Progress
<1>3. /\ p = "lookup" => StepsLeft(t)' \in {15, 17}
      /\ p = "ddl" => StepsLeft(t)' = 12 - n
      /\ p = "begin" => StepsLeft(t)' = 13
      /\ p = "first" => StepsLeft(t)' = 12
      /\ p = "version" => StepsLeft(t)' = 11
      /\ p = "record" => StepsLeft(t)' = 3
      /\ p = "commit" => StepsLeft(t)' = 2
      /\ p \in {"return", "raise"} => StepsLeft(t)' = 1
      /\ p = "idle" => StepsLeft(t)' = 0
  BY <1>1 DEF StepsLeft
<1>4. /\ PC(t) = "registry" => StepsLeft(t) = 18
      /\ PC(t) = "lock" => StepsLeft(t) = 14
      /\ PC(t) = "begin" => StepsLeft(t) = 13
      /\ PC(t) = "first" => StepsLeft(t) = 12
      /\ PC(t) = "version" => StepsLeft(t) = 11
      /\ PC(t) = "ddl" => StepsLeft(t) = 12 - frame[t].next
      /\ PC(t) = "record" => StepsLeft(t) = 3
      /\ PC(t) = "commit" => StepsLeft(t) = 2
      /\ PC(t) \in {"return", "raise"} => StepsLeft(t) = 1
  BY DEF StepsLeft
<1> QED BY <1>2, <1>3, <1>4 DEF Transaction

LEMMA StepsCounted ==
  ASSUME SInv, NEW t \in Threads, Step(t)
  PROVE  StepsLeft(t)' < StepsLeft(t)
<1>1. frame[t] \in Frames /\ TypeOK
  BY DEF SInv, TypeOK
<1>2. CASE EnterRegistry(t)
  BY <1>1, <1>2, Went, StepsFall DEF EnterRegistry, Labels, Looking
<1>3. CASE MissPath(t)
  <2>1. PC(t) = "lookup" /\ registry[ProcOf[t]] = Null /\ PC(t)' = "insert"
    BY <1>1, <1>3, Went DEF MissPath, Labels, Looking, Effect
  <2> QED BY <2>1 DEF StepsLeft
<1>4. CASE InsertLock(t)
  <2>1. PC(t) = "insert" /\ registry'[ProcOf[t]] = t /\ PC(t)' = "lookup"
    BY <1>1, <1>4, Went, Placement DEF InsertLock, TypeOK, Labels, Looking, Effect
  <2> QED BY <2>1, Distinct DEF StepsLeft
<1>5. CASE GetPathLock(t)
  <2>1. PC(t) = "lookup" /\ registry[ProcOf[t]] # Null /\ PC(t)' = "lock"
    BY <1>1, <1>5 DEF GetPathLock, Move, TypeOK, Frames
  <2> QED BY <2>1 DEF StepsLeft
<1>6. CASE AcquireLock(t)
  BY <1>1, <1>6, Went, StepsFall DEF AcquireLock, Labels, Held
<1>7. CASE BeginImmediate(t) \/ BeginFails(t)
  BY <1>1, <1>7, Went, StepsFall DEF BeginImmediate, BeginFails, Labels, Held, Transaction
<1>8. CASE EnsureMigrations(t) \/ AlreadyApplied(t) \/ RecordVersion(t)
  BY <1>1, <1>8, Went, StepsFall
     DEF EnsureMigrations, AlreadyApplied, RecordVersion, Labels, Held, Transaction
<1>9. CASE NotApplied(t)
  <2> DEFINE f == [frame[t] EXCEPT !.pc = "ddl", !.next = 2]
  <2>1. "ddl" \in Labels /\ 2 \in 1..9
    BY DEF Labels, Held, Transaction
  <2>2. f \in Frames
    BY <1>1, <2>1 DEF Frames
  <2>3. f.pc = "ddl" /\ f.lock = frame[t].lock /\ f.next = 2
    BY <1>1 DEF Frames
  <2>4. Move(t, f) /\ PC(t) = "version"
    BY <1>9 DEF NotApplied
  <2> HIDE DEF f
  <2>5. Effect(t, "ddl", frame[t].lock, 2)
    BY <1>1, <2>2, <2>3, <2>4, Moved
  <2> QED BY <2>4, <2>5, StepsFall
<1>10. CASE CreateObject(t)
  <2> DEFINE n == frame[t].next
             p == IF n = Len(Statements) THEN "record" ELSE "ddl"
             f == [frame[t] EXCEPT !.next = n + 1, !.pc = p]
  <2>1. PC(t) = "ddl" /\ Move(t, f) /\ p \in {"record", "ddl"}
    BY <1>10 DEF CreateObject
  <2>2. n \in 2..8
    BY <2>1 DEF SInv, SchemaSound, Progress
  <2> HIDE DEF p
  <2>3. p \in Labels /\ n + 1 \in 1..9
    BY <2>1, <2>2 DEF Labels, Held, Transaction
  <2>4. f \in Frames /\ f.pc = p /\ f.lock = frame[t].lock /\ f.next = n + 1
    BY <1>1, <2>3 DEF Frames
  <2> HIDE DEF f
  <2>5. Effect(t, p, frame[t].lock, n + 1)
    BY <1>1, <2>1, <2>4, Moved
  <2> QED BY <2>1, <2>5, StepsFall
<1>11. CASE StatementFails(t) \/ Commit(t) \/ CommitRaises(t)
  BY <1>1, <1>11, Went, StepsFall
     DEF StatementFails, Commit, CommitRaises, Labels, Held, Transaction
<1>12. CASE Return(t)
  BY <1>1, <1>12, Went, StepsFall DEF Return, Labels
<1> QED BY <1>2, <1>3, <1>4, <1>5, <1>6, <1>7, <1>8, <1>9, <1>10, <1>11, <1>12 DEF Step

\* What others do, a new constructor or a crash leaves a constructor where it
\* is, finds the path's lock for it or ends it.
LEMMA OthersCount ==
  ASSUME SInv, NEW t \in Threads, NEW u \in Threads, u # t, Step(u) \/ Construct(u)
  PROVE  StepsLeft(t)' <= StepsLeft(t)
<1>1. frame'[t] = frame[t]
  BY DEF Step, EnterRegistry, MissPath, InsertLock, GetPathLock, AcquireLock, BeginImmediate,
         BeginFails, EnsureMigrations, AlreadyApplied, NotApplied, CreateObject, RecordVersion,
         StatementFails, Commit, CommitRaises, Return, Construct, Goto, Move, SInv, TypeOK
<1>2. registry'[ProcOf[t]] = registry[ProcOf[t]] \/ registry'[ProcOf[t]] # Null
  <2>1. CASE InsertLock(u)
    BY <2>1, Placement, Distinct DEF InsertLock, SInv, TypeOK
  <2>2. CASE ~ InsertLock(u)
    BY <2>2 DEF Step, EnterRegistry, MissPath, GetPathLock, AcquireLock, BeginImmediate,
         BeginFails, EnsureMigrations, AlreadyApplied, NotApplied, CreateObject, RecordVersion,
         StatementFails, Commit, CommitRaises, Return, Construct
  <2> QED BY <2>1, <2>2
<1>3. StepsLeft(t) \in 0..18
  BY StepsBounded
<1>4. CASE PC(t) = "lookup"
  BY <1>1, <1>2, <1>4 DEF StepsLeft
<1>5. CASE PC(t) # "lookup"
  <2>1. StepsLeft(t)' = StepsLeft(t)
    BY <1>1, <1>5 DEF StepsLeft
  <2> QED BY <1>3, <2>1
<1> QED BY <1>4, <1>5

LEMMA CrashCounts ==
  ASSUME SInv, NEW t \in Threads, NEW p \in Procs, Crash(p)
  PROVE  StepsLeft(t)' <= StepsLeft(t)
<1>1. StepsLeft(t) \in 0..18
  BY StepsBounded
<1>2. CASE ProcOf[t] = p
  <2>1. frame'[t].pc = "idle"
    BY <1>2 DEF Crash, Fresh
  <2>2. StepsLeft(t)' = 0
    BY <2>1 DEF StepsLeft
  <2> QED BY <1>1, <2>2
<1>3. CASE ProcOf[t] # p
  <2>1. frame'[t] = frame[t] /\ registry'[ProcOf[t]] = registry[ProcOf[t]]
    BY <1>3, Placement DEF Crash, SInv, TypeOK
  <2>2. StepsLeft(t)' = StepsLeft(t)
    BY <2>1 DEF StepsLeft
  <2> QED BY <1>1, <2>2
<1> QED BY <1>2, <1>3

\* A constructor takes at most 18 steps of its own, whatever the others do: no
\* one's lock, statement or crash sends it back.  With the fairness of
\* FairSpec, this is why every constructor ends.
THEOREM OpensAreBounded ==
  Spec => /\ [](\A t \in Threads : StepsLeft(t) \in 0..18)
          /\ [][\A t \in Threads :
                  /\ Step(t) => StepsLeft(t)' < StepsLeft(t)
                  /\ ~ Construct(t) => StepsLeft(t)' <= StepsLeft(t)]_vars
<1> DEFINE Bounded == \A t \in Threads : StepsLeft(t) \in 0..18
           Counted == \A t \in Threads :
                        /\ Step(t) => StepsLeft(t)' < StepsLeft(t)
                        /\ ~ Construct(t) => StepsLeft(t)' <= StepsLeft(t)
<1>1. SInv => Bounded
  BY StepsBounded
<1>2. ASSUME SInv, SInv', [Next]_vars
      PROVE  [Counted]_vars
  <2> SUFFICES ASSUME NEW t \in Threads, Next
               PROVE  /\ Step(t) => StepsLeft(t)' < StepsLeft(t)
                      /\ ~ Construct(t) => StepsLeft(t)' <= StepsLeft(t)
    BY <1>2
  <2>1. StepsLeft(t) \in 0..18
    BY <1>2, StepsBounded
  <2>2. StepsLeft(t)' \in 0..18
    <3>1. Bounded'
      BY <1>1, <1>2, PTL
    <3> QED BY <3>1
  <2>3. Step(t) => StepsLeft(t)' < StepsLeft(t)
    BY <1>2, StepsCounted
  <2>4. ASSUME NEW u \in Threads, Step(u) \/ Construct(u), ~ Construct(t)
        PROVE  StepsLeft(t)' <= StepsLeft(t)
    BY <1>2, <2>1, <2>2, <2>3, <2>4, OthersCount
  <2>5. ASSUME UNCHANGED vars PROVE StepsLeft(t)' <= StepsLeft(t)
    <3>1. StepsLeft(t)' = StepsLeft(t)
      BY <2>5 DEF vars, StepsLeft
    <3> QED BY <2>1, <3>1
  <2> HIDE DEF PC
  <2> QED BY <1>2, <2>3, <2>4, <2>5, CrashCounts DEF Next, Quiet
<1> QED BY <1>1, <1>2, MigrationInvariant, PTL DEF Spec
=============================================================================
