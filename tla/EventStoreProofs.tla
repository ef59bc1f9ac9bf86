-------------------------- MODULE EventStoreProofs --------------------------
(***************************************************************************)
(* Proofs about EventStore for any number of threads, processes, keys and  *)
(* calls: every step preserves the inductive invariant IInv, and the       *)
(* safety properties that the runs check on small instances follow; and,   *)
(* with that invariant, EventStore implements IdempotentLedger: each step  *)
(* of record_run_event is one step of the ledger, or leaves it unchanged.  *)
(***************************************************************************)
EXTENDS EventStoreRefinement, TLAPS

-----------------------------------------------------------------------------
(* Frames.                                                                 *)

USE DEF PC

LEMMA FrameTypes ==
  ASSUME NEW f \in Frames
  PROVE  /\ f.pc \in Labels /\ f.call \in Calls \cup {Null} /\ f.retry \in BOOLEAN
         /\ f.run \in Nat /\ f.ref \in Nat /\ f.said \in Kinds /\ f.mine \in BOOLEAN
BY DEF Frames

\* The local variables of t after a step: everything but the retry flag.
Effect(t, pc, call, run, ref, said, mine) ==
  /\ frame' \in [Threads -> Frames]
  /\ \A u \in Threads \ {t} : frame'[u] = frame[u]
  /\ frame'[t].pc = pc
  /\ frame'[t].call = call
  /\ frame'[t].run = run
  /\ frame'[t].ref = ref
  /\ frame'[t].said = said
  /\ frame'[t].mine = mine

LEMMA Moved ==
  ASSUME TypeOK, NEW t \in Threads, NEW f \in Frames, Move(t, f)
  PROVE  Effect(t, f.pc, f.call, f.run, f.ref, f.said, f.mine)
BY DEF TypeOK, Move, Effect

\* The shapes of move the actions make.
LEMMA MovePC ==
  ASSUME TypeOK, NEW t \in Threads, NEW p \in Labels,
         Move(t, [frame[t] EXCEPT !.pc = p])
  PROVE  Effect(t, p, frame[t].call, frame[t].run, frame[t].ref, frame[t].said, frame[t].mine)
<1> DEFINE f == [frame[t] EXCEPT !.pc = p]
<1>1. frame[t] \in Frames
  BY DEF TypeOK
<1>2. f \in Frames
  BY <1>1 DEF Frames
<1>3. /\ f.pc = p /\ f.call = frame[t].call /\ f.run = frame[t].run /\ f.ref = frame[t].ref
      /\ f.said = frame[t].said /\ f.mine = frame[t].mine
  BY <1>1 DEF Frames
<1> HIDE DEF f
<1>4. Effect(t, f.pc, f.call, f.run, f.ref, f.said, f.mine)
  BY <1>2, Moved DEF f
<1> QED BY <1>3, <1>4

LEMMA MoveRef ==
  ASSUME TypeOK, NEW t \in Threads, NEW p \in Labels, NEW n \in Nat,
         Move(t, [frame[t] EXCEPT !.pc = p, !.ref = n])
  PROVE  Effect(t, p, frame[t].call, frame[t].run, n, frame[t].said, frame[t].mine)
<1> DEFINE f == [frame[t] EXCEPT !.pc = p, !.ref = n]
<1>1. frame[t] \in Frames
  BY DEF TypeOK
<1>2. f \in Frames
  BY <1>1 DEF Frames
<1>3. /\ f.pc = p /\ f.call = frame[t].call /\ f.run = frame[t].run /\ f.ref = n
      /\ f.said = frame[t].said /\ f.mine = frame[t].mine
  BY <1>1 DEF Frames
<1> HIDE DEF f
<1>4. Effect(t, f.pc, f.call, f.run, f.ref, f.said, f.mine)
  BY <1>2, Moved DEF f
<1> QED BY <1>3, <1>4

LEMMA MoveRun ==
  ASSUME TypeOK, NEW t \in Threads, NEW p \in Labels, NEW n \in Nat,
         Move(t, [frame[t] EXCEPT !.pc = p, !.run = n])
  PROVE  Effect(t, p, frame[t].call, n, frame[t].ref, frame[t].said, frame[t].mine)
<1> DEFINE f == [frame[t] EXCEPT !.pc = p, !.run = n]
<1>1. frame[t] \in Frames
  BY DEF TypeOK
<1>2. f \in Frames
  BY <1>1 DEF Frames
<1>3. /\ f.pc = p /\ f.call = frame[t].call /\ f.run = n /\ f.ref = frame[t].ref
      /\ f.said = frame[t].said /\ f.mine = frame[t].mine
  BY <1>1 DEF Frames
<1> HIDE DEF f
<1>4. Effect(t, f.pc, f.call, f.run, f.ref, f.said, f.mine)
  BY <1>2, Moved DEF f
<1> QED BY <1>3, <1>4

LEMMA MoveAnswer ==
  ASSUME TypeOK, NEW t \in Threads, NEW k \in Kinds, Answer(t, k)
  PROVE  Effect(t, "return", frame[t].call, frame[t].run, frame[t].ref, k, frame[t].mine)
<1> DEFINE f == [frame[t] EXCEPT !.pc = "return", !.said = k]
<1>1. frame[t] \in Frames
  BY DEF TypeOK
<1>2. f \in Frames
  BY <1>1 DEF Frames, Labels
<1>3. /\ f.pc = "return" /\ f.call = frame[t].call /\ f.run = frame[t].run
      /\ f.ref = frame[t].ref /\ f.said = k /\ f.mine = frame[t].mine
  BY <1>1 DEF Frames
<1>4. Move(t, f)
  BY DEF Answer
<1> HIDE DEF f
<1>5. Effect(t, f.pc, f.call, f.run, f.ref, f.said, f.mine)
  BY <1>2, <1>4, Moved
<1> QED BY <1>3, <1>5

-----------------------------------------------------------------------------
(* Calls, digests and records.                                             *)

LEMMA CallTypes ==
  ASSUME NEW c \in Calls
  PROVE  c.key \in Keys /\ RequestDigest(c) \in Digests
BY DEF Calls, RequestDigest, Digests

LEMMA RecordTypes ==
  ASSUME NEW d \in Digests, NEW n \in Nat
  PROVE  /\ [digest |-> d, ref |-> n] \in Records
         /\ [digest |-> d, ref |-> n] # Null
BY NullIsNoRow DEF Records

LEMMA Element ==
  ASSUME NEW S, NEW q \in Seq(S), NEW i \in DOMAIN q
  PROVE  q[i] \in S
OBVIOUS

LEMMA RunOfEvent ==
  ASSUME NEW T \in Tables, NEW e \in DOMAIN T.events
  PROVE  T.events[e].run \in Nat
<1>1. T.events \in Seq(Events)
  BY DEF Tables
<1>2. T.events[e] \in Events
  BY <1>1, Element
<1> QED BY <1>2 DEF Events

\* A call beyond idle has a key and a digest, and its Stored names a row.
LEMMA StoredRow ==
  ASSUME TypeOK, NEW u \in Threads, Knows(u), PC(u) # "idle"
  PROVE  /\ Key(u) \in Keys /\ Digest(u) \in Digests
         /\ Stored(u) => Recorded(db, Key(u))
<1>1. frame[u].call \in Calls /\ frame[u].ref \in Nat
  BY DEF Knows, TypeOK, Frames
<1>2. Key(u) \in Keys /\ Digest(u) \in Digests
  BY <1>1, CallTypes DEF Key, Digest
<1> QED BY <1>1, <1>2, RecordTypes DEF Stored, Recorded

-----------------------------------------------------------------------------
(* What a step leaves alone.                                               *)

\* A call that does not move keeps what it knows, as long as the committed
\* rows stay.
LEMMA OthersKnow ==
  ASSUME TypeOK, NEW u \in Threads, Knows(u), frame'[u] = frame[u],
         Extends(db, db'), OneToOne(db, {})
  PROVE  Knows(u)'
<1>1. CASE PC(u) = "idle"
  BY <1>1 DEF Knows
<1>2. CASE PC(u) # "idle"
  <2>1. Key(u) \in Keys /\ (Stored(u) => Recorded(db, Key(u)))
    BY <1>2, StoredRow
  <2>2. Recorded(db, Key(u)) => db'.idem[Key(u)] = db.idem[Key(u)]
    BY <2>1 DEF Extends
  <2>3. Key(u)' = Key(u) /\ Digest(u)' = Digest(u)
    BY DEF Key, Digest
  <2>4. Stored(u) => Stored(u)'
    BY <2>1, <2>2, <2>3 DEF Stored
  <2>5. Recorded(db, Key(u)) => Recorded(db, Key(u))'
    BY <2>2, <2>3 DEF Recorded
  <2>6. Stored(u) => frame[u].ref \in DOMAIN db.events
    BY <2>1 DEF OneToOne, Stored
  <2>7. Stored(u) => db'.events[frame[u].ref].run = db.events[frame[u].ref].run
    BY <2>6 DEF Extends
  <2>8. frame[u].said \in {"new", "replay"} =>
          Stored(u)' /\ db'.events[frame[u].ref].run = frame[u].run
    BY <2>4, <2>7 DEF Knows
  <2>9. frame[u].mine =>
          /\ Recorded(db, Key(u))'
          /\ db'.idem[Key(u)'].digest = Digest(u)'
    BY <2>2, <2>3, <2>5 DEF Knows
  <2> QED BY <2>4, <2>8, <2>9 DEF Knows
<1> QED BY <1>1, <1>2

\* Outside its transaction a call has nothing to say about the working copy.
LEMMA OthersInProgress ==
  ASSUME NEW u \in Threads, frame'[u] = frame[u], InProgress(u),
         PC(u) \notin Transaction \/ (work' = work /\ db' = db)
  PROVE  InProgress(u)'
<1>1. CASE PC(u) \notin Transaction
  BY <1>1 DEF InProgress, Transaction
<1>2. CASE work' = work /\ db' = db
  BY <1>2 DEF InProgress, Key, Digest, Recorded
<1> QED BY <1>1, <1>2

LEMMA AckedKept ==
  ASSUME TypeOK, OneToOne(db, {}), AckedIsDurable, Extends(db, db'), acked' = acked
  PROVE  AckedIsDurable'
<1> SUFFICES ASSUME NEW a \in acked
             PROVE  /\ db'.idem[a.key] = [digest |-> a.digest, ref |-> a.event]
                    /\ a.event \in DOMAIN db'.events
                    /\ db'.events[a.event].run = a.run
  BY DEF AckedIsDurable
<1>1. a.key \in Keys /\ a.digest \in Digests /\ a.event \in Nat
  BY DEF TypeOK, Results
<1>2. /\ db.idem[a.key] = [digest |-> a.digest, ref |-> a.event]
      /\ a.event \in DOMAIN db.events
      /\ db.events[a.event].run = a.run
  BY DEF AckedIsDurable
<1>3. Recorded(db, a.key)
  BY <1>1, <1>2, RecordTypes DEF Recorded
<1> QED BY <1>1, <1>2, <1>3 DEF Extends

LEMMA SoundAfter ==
  ASSUME NEW p, Pending' = p, NEW q, Unfiled' = q,
         OneToOne(db', {}), WellFiled(db'), RunsFiled(db', {}),
         OneToOne(work', p), WellFiled(work'), RunsFiled(work', q)
  PROVE  TablesSound'
<1>1. OneToOne(db, {})' /\ WellFiled(db)' /\ RunsFiled(db, {})' /\ WellFiled(work)'
  OBVIOUS
<1>2. OneToOne(work, Pending)' /\ RunsFiled(work, Unfiled)'
  OBVIOUS
<1> QED BY <1>1, <1>2 DEF TablesSound

-----------------------------------------------------------------------------
(* The classes of steps.                                                   *)

\* Everything a class of steps has to establish for the call that moves.
OwnPart(t) == InProgress(t)' /\ Knows(t)'

LEMMA CallsKept ==
  ASSUME IInv, NEW t \in Threads, OwnPart(t), Extends(db, db'),
         \A u \in Threads \ {t} : frame'[u] = frame[u],
         \A u \in Threads \ {t} : PC(u) \notin Transaction \/ (work' = work /\ db' = db)
  PROVE  CallsSound'
<1> SUFFICES ASSUME NEW u \in Threads PROVE InProgress(u)' /\ Knows(u)'
  BY DEF CallsSound
<1>1. CASE u = t
  BY <1>1 DEF OwnPart
<1>2. CASE u # t
  BY <1>2, OthersKnow, OthersInProgress DEF IInv, CallsSound, TablesSound
<1> QED BY <1>1, <1>2

\* Inside the lock and outside the transaction: nothing but the call's own
\* variables changes.
LEMMA ReadingStep ==
  ASSUME IInv, NEW t \in Threads, NEW p, NEW c, NEW n, NEW e, NEW s, NEW m,
         Effect(t, p, c, n, e, s, m),
         PC(t) \in {"begin", "recover", "reconstruct"},
         p \in {"begin", "reconstruct", "return"},
         Knows(t)',
         UNCHANGED <<lock, writer, db, work, acked, calls, damage>>
  PROVE  IInv'
<1> USE DEF IInv, Effect
<1>1. TypeOK'
  BY DEF TypeOK
<1>2. LockDiscipline'
  BY DEF LockDiscipline, Outside, Transaction
<1>3. PC(t)' \notin Transaction /\ PC(t) \notin Transaction /\ writer # t
  BY DEF Transaction, LockDiscipline
<1>4. Pending' = Pending /\ Unfiled' = Unfiled
  BY <1>3 DEF Pending, Unfiled, TypeOK
<1>5. TablesSound'
  BY <1>4, SoundAfter DEF TablesSound
<1>6. WorkExtends' /\ AckedIsDurable'
  BY DEF WorkExtends, Extends, Recorded, AckedIsDurable
<1>7. InProgress(t)'
  BY <1>3 DEF InProgress, Transaction
<1>8. Extends(db, db')
  BY DEF Extends
<1>9. CallsSound'
  BY <1>7, <1>8, CallsKept DEF OwnPart
<1> QED BY <1>1, <1>2, <1>5, <1>6, <1>9

\* The transaction is given up.
LEMMA RollbackStep ==
  ASSUME IInv, NEW t \in Threads, NEW p, NEW c, NEW n, NEW e, NEW s, NEW m,
         Effect(t, p, c, n, e, s, m),
         PC(t) \in Transaction,
         p \in {"recover", "reconstruct", "return"},
         Knows(t)',
         Rollback,
         UNCHANGED <<lock, db, acked, calls, damage>>
  PROVE  IInv'
<1> USE DEF IInv, Effect, Rollback
<1>1. TypeOK'
  BY DEF TypeOK
<1>2. \A u \in Threads \ {t} : PC(u) \notin Transaction
  BY DEF LockDiscipline
<1>3. LockDiscipline'
  BY <1>2, Distinct DEF LockDiscipline, Outside, Transaction
<1>4. Pending' = {} /\ Unfiled' = {}
  BY DEF Pending, Unfiled
<1>5. TablesSound'
  BY <1>4, SoundAfter DEF TablesSound
<1>6. WorkExtends' /\ AckedIsDurable'
  BY DEF WorkExtends, Extends, Recorded, AckedIsDurable
<1>7. InProgress(t)'
  BY DEF InProgress, Transaction
<1>8. Extends(db, db')
  BY DEF Extends
<1>9. CallsSound'
  BY <1>2, <1>7, <1>8, CallsKept DEF OwnPart
<1> QED BY <1>1, <1>3, <1>5, <1>6, <1>9

\* A statement inside the transaction.
LEMMA WritingStep ==
  ASSUME IInv, NEW t \in Threads, NEW p, NEW c, NEW n, NEW e, NEW s, NEW m,
         Effect(t, p, c, n, e, s, m),
         PC(t) \in Transaction, p \in Transaction,
         c = frame[t].call, s = frame[t].said, m = frame[t].mine,
         work' \in Tables,
         NEW q, q = (IF p \in {"state", "record"} THEN {e} ELSE {}), OneToOne(work', q),
         NEW w, w = (IF p = "event" THEN {n} ELSE {}), RunsFiled(work', w),
         WellFiled(work'),
         Extends(db, work'),
         InProgress(t)',
         UNCHANGED <<lock, writer, db, acked, calls, damage>>
  PROVE  IInv'
<1> USE DEF IInv, Effect
<1>1. TypeOK'
  BY DEF TypeOK
<1>2. writer = t /\ \A u \in Threads \ {t} : PC(u) \notin Transaction
  BY DEF LockDiscipline
<1>3. LockDiscipline'
  BY <1>2 DEF LockDiscipline, Outside, Transaction
<1>4. Pending' = q /\ Unfiled' = w
  BY <1>2, Distinct DEF Pending, Unfiled
<1>5. TablesSound'
  BY <1>4, SoundAfter DEF TablesSound
<1>6. WorkExtends' /\ AckedIsDurable'
  BY <1>2, Distinct DEF WorkExtends, Extends, Recorded, AckedIsDurable
<1>7. Knows(t)'
  <2>1. Knows(t) /\ frame[t].said = "none" /\ ~ frame[t].mine /\ PC(t) # "idle"
    BY DEF CallsSound, Knows, Transaction
  <2> QED BY <2>1 DEF Knows, Transaction
<1>8. Extends(db, db')
  BY DEF Extends
<1>9. CallsSound'
  BY <1>2, <1>7, <1>8, CallsKept DEF OwnPart
<1> QED BY <1>1, <1>3, <1>5, <1>6, <1>9

\* The transaction reaches the disk.
LEMMA CommitStep ==
  ASSUME IInv, NEW t \in Threads, NEW p, NEW c, NEW n, NEW e, NEW s, NEW m,
         Effect(t, p, c, n, e, s, m),
         PC(t) = "commit",
         p \in {"recover", "return"},
         Knows(t)',
         db' = work, work' = work, writer' = Null,
         UNCHANGED <<lock, acked, calls, damage>>
  PROVE  IInv'
<1> USE DEF IInv, Effect
<1>1. TypeOK'
  BY DEF TypeOK
<1>2. writer = t /\ \A u \in Threads \ {t} : PC(u) \notin Transaction
  BY DEF LockDiscipline, Transaction
<1>3. LockDiscipline'
  BY <1>2, Distinct DEF LockDiscipline, Outside, Transaction
<1>4. Pending = {} /\ Pending' = {} /\ Unfiled = {} /\ Unfiled' = {}
  BY <1>2 DEF Pending, Unfiled
<1>5. TablesSound'
  BY <1>4, SoundAfter DEF TablesSound
<1>6. WorkExtends'
  BY DEF WorkExtends, Extends, Recorded
<1>7. Extends(db, db')
  BY DEF WorkExtends
<1>8. AckedIsDurable'
  BY <1>7, AckedKept DEF TablesSound
<1>9. InProgress(t)'
  BY DEF InProgress, Transaction
<1>10. CallsSound'
  BY <1>2, <1>7, <1>9, CallsKept DEF OwnPart
<1> QED BY <1>1, <1>3, <1>5, <1>6, <1>8, <1>10

-----------------------------------------------------------------------------
(* Steps that only read: before BEGIN IMMEDIATE and during recovery.       *)

\* What IInv says of the call that moves, in the terms the steps need.
LEMMA MyFrame ==
  ASSUME IInv, NEW t \in Threads, PC(t) # "idle"
  PROVE  /\ Knows(t) /\ InProgress(t)
         /\ frame[t].call \in Calls /\ Key(t) \in Keys /\ Digest(t) \in Digests
         /\ frame[t].run \in Nat /\ frame[t].ref \in Nat
         /\ (PC(t) # "return" => frame[t].said = "none")
<1>1. Knows(t) /\ InProgress(t) /\ TypeOK
  BY DEF IInv, CallsSound
<1> QED BY <1>1, StoredRow DEF Knows, TypeOK, Frames

LEMMA BeginFailsStep ==
  ASSUME IInv, NEW t \in Threads, BeginFails(t)
  PROVE  IInv'
<1>1. Effect(t, "return", frame[t].call, frame[t].run, frame[t].ref, "rolledback",
             frame[t].mine)
  BY MoveAnswer DEF IInv, BeginFails, Kinds
<1>2. Knows(t)'
  BY <1>1, MyFrame DEF BeginFails, Effect, Knows
<1> QED BY <1>1, <1>2, ReadingStep DEF BeginFails

LEMMA RetryOnceStep ==
  ASSUME IInv, NEW t \in Threads, RetryOnce(t)
  PROVE  IInv'
<1> DEFINE f == [frame[t] EXCEPT !.pc = "begin", !.retry = TRUE]
<1>1. frame[t] \in Frames
  BY DEF IInv, TypeOK
<1>2. f \in Frames
  BY <1>1 DEF Frames, Labels
<1>3. /\ f.pc = "begin" /\ f.call = frame[t].call /\ f.run = frame[t].run
      /\ f.ref = frame[t].ref /\ f.said = frame[t].said /\ f.mine = frame[t].mine
  BY <1>1 DEF Frames
<1>4. Move(t, f)
  BY DEF RetryOnce
<1> HIDE DEF f
<1>5. Effect(t, "begin", frame[t].call, frame[t].run, frame[t].ref, frame[t].said,
             frame[t].mine)
  BY <1>2, <1>3, <1>4, Moved DEF IInv
<1>6. Knows(t)'
  BY <1>5, MyFrame DEF RetryOnce, Effect, Knows, Recorded
<1> QED BY <1>5, <1>6, ReadingStep DEF RetryOnce

LEMMA GiveUpStep ==
  ASSUME IInv, NEW t \in Threads, GiveUp(t)
  PROVE  IInv'
<1>1. Effect(t, "return", frame[t].call, frame[t].run, frame[t].ref, "norecord",
             frame[t].mine)
  BY MoveAnswer DEF IInv, GiveUp, Kinds
<1>2. Knows(t)'
  BY <1>1, MyFrame DEF GiveUp, Effect, Knows, Recorded
<1> QED BY <1>1, <1>2, ReadingStep DEF GiveUp

LEMMA RecoverConflictStep ==
  ASSUME IInv, NEW t \in Threads, RecoverConflict(t)
  PROVE  IInv'
<1>1. Effect(t, "return", frame[t].call, frame[t].run, frame[t].ref, "conflict",
             frame[t].mine)
  BY MoveAnswer DEF IInv, RecoverConflict, Kinds
<1>2. Knows(t)'
  BY <1>1, MyFrame DEF RecoverConflict, Effect, Knows
<1> QED BY <1>1, <1>2, ReadingStep DEF RecoverConflict

\* A row of the idempotency table with this call's digest is its own row.
LEMMA FoundRow ==
  ASSUME NEW T \in Tables, NEW k \in Keys, NEW d, T.idem[k] # Null, T.idem[k].digest = d
  PROVE  T.idem[k].ref \in Nat /\ T.idem[k] = [digest |-> d, ref |-> T.idem[k].ref]
BY DEF Tables, Records

LEMMA RecoverReplayStep ==
  ASSUME IInv, NEW t \in Threads, RecoverReplay(t)
  PROVE  IInv'
<1> DEFINE e == db.idem[Key(t)].ref
<1>1. e \in Nat /\ db.idem[Key(t)] = [digest |-> Digest(t), ref |-> e]
  BY MyFrame, FoundRow DEF RecoverReplay, IInv, TypeOK
<1>2. Move(t, [frame[t] EXCEPT !.pc = "reconstruct", !.ref = e])
  BY DEF RecoverReplay
<1> HIDE DEF e
<1>3. Effect(t, "reconstruct", frame[t].call, frame[t].run, e, frame[t].said,
             frame[t].mine)
  BY <1>1, <1>2, MoveRef DEF IInv, Labels
<1>4. Knows(t)'
  BY <1>1, <1>3, MyFrame DEF RecoverReplay, Effect, Knows, Stored, Key, Digest, Recorded
<1> QED BY <1>3, <1>4, ReadingStep DEF RecoverReplay

LEMMA ReadFailsStep ==
  ASSUME IInv, NEW t \in Threads, ReadFails(t)
  PROVE  IInv'
<1>1. Effect(t, "return", frame[t].call, frame[t].run, frame[t].ref, "unknown",
             frame[t].mine)
  BY MoveAnswer DEF IInv, ReadFails, Kinds
<1>2. Knows(t)'
  BY <1>1, MyFrame DEF ReadFails, Effect, Knows, Recorded, Key, Digest
<1> QED BY <1>1, <1>2, ReadingStep DEF ReadFails

LEMMA RefuseDamagedStep ==
  ASSUME IInv, NEW t \in Threads, RefuseDamaged(t)
  PROVE  IInv'
<1>1. Effect(t, "return", frame[t].call, frame[t].run, frame[t].ref, "damaged",
             frame[t].mine)
  BY MoveAnswer DEF IInv, RefuseDamaged, Kinds
<1>2. Knows(t)'
  BY <1>1, MyFrame DEF RefuseDamaged, Effect, Knows, Recorded, Key, Digest
<1> QED BY <1>1, <1>2, ReadingStep DEF RefuseDamaged

LEMMA ReconstructResultStep ==
  ASSUME IInv, NEW t \in Threads, ReconstructResult(t)
  PROVE  IInv'
<1> DEFINE r == db.events[frame[t].ref].run
           f == [frame[t] EXCEPT !.pc = "return", !.said = "replay", !.run = r]
<1>1. frame[t] \in Frames /\ frame[t].ref \in DOMAIN db.events
  BY DEF IInv, TypeOK, ReconstructResult, Intact
<1>2. r \in Nat
  BY <1>1, RunOfEvent DEF IInv, TypeOK
<1>3. Move(t, f)
  BY DEF ReconstructResult
<1> HIDE DEF r
<1>4. f \in Frames
  BY <1>1, <1>2 DEF Frames, Labels, Kinds
<1>5. /\ f.pc = "return" /\ f.call = frame[t].call /\ f.run = r
      /\ f.ref = frame[t].ref /\ f.said = "replay" /\ f.mine = frame[t].mine
  BY <1>1 DEF Frames
<1> HIDE DEF f
<1>6. Effect(t, "return", frame[t].call, r, frame[t].ref, "replay", frame[t].mine)
  BY <1>3, <1>4, <1>5, Moved DEF IInv
<1>7. Knows(t)'
  BY <1>6, MyFrame DEF ReconstructResult, Effect, Knows, Stored, Key, Digest, Recorded, r
<1> QED BY <1>6, <1>7, ReadingStep DEF ReconstructResult

-----------------------------------------------------------------------------
(* Steps of the transaction.                                               *)

LEMMA InTransaction ==
  ASSUME IInv, NEW t \in Threads, PC(t) \in Transaction
  PROVE  /\ writer = t /\ work \in Tables /\ db \in Tables
         /\ OneToOne(work, IF PC(t) \in {"state", "record"} THEN {frame[t].ref} ELSE {})
         /\ RunsFiled(work, IF PC(t) = "event" THEN {frame[t].run} ELSE {})
         /\ WellFiled(work) /\ Extends(db, work)
<1>1. writer = t /\ work \in Tables /\ db \in Tables
  BY DEF IInv, LockDiscipline, TypeOK
<1>2. Pending = IF PC(t) \in {"state", "record"} THEN {frame[t].ref} ELSE {}
  BY <1>1, Distinct DEF Pending
<1>3. Unfiled = IF PC(t) = "event" THEN {frame[t].run} ELSE {}
  BY <1>1, Distinct DEF Unfiled
<1> QED BY <1>1, <1>2, <1>3 DEF IInv, TablesSound, WorkExtends

LEMMA StatementFailsStep ==
  ASSUME IInv, NEW t \in Threads, StatementFails(t)
  PROVE  IInv'
<1>1. Effect(t, "return", frame[t].call, frame[t].run, frame[t].ref, "rolledback",
             frame[t].mine)
  BY MoveAnswer DEF IInv, StatementFails, Kinds
<1>2. Knows(t)'
  BY <1>1, MyFrame DEF StatementFails, Transaction, Effect, Knows
<1> QED BY <1>1, <1>2, RollbackStep DEF StatementFails

LEMMA FindConflictStep ==
  ASSUME IInv, NEW t \in Threads, FindConflict(t)
  PROVE  IInv'
<1>1. Effect(t, "return", frame[t].call, frame[t].run, frame[t].ref, "conflict",
             frame[t].mine)
  BY MoveAnswer DEF IInv, FindConflict, Kinds
<1>2. Knows(t)'
  BY <1>1, MyFrame DEF FindConflict, Effect, Knows
<1> QED BY <1>1, <1>2, RollbackStep DEF FindConflict, Transaction

LEMMA RefuseRevisionStep ==
  ASSUME IInv, NEW t \in Threads, RefuseRevision(t)
  PROVE  IInv'
<1>1. Effect(t, "return", frame[t].call, frame[t].run, frame[t].ref, "revision",
             frame[t].mine)
  BY MoveAnswer DEF IInv, RefuseRevision, Kinds
<1>2. Knows(t)'
  BY <1>1, MyFrame DEF RefuseRevision, Effect, Knows
<1> QED BY <1>1, <1>2, RollbackStep DEF RefuseRevision, Transaction

LEMMA FindReplayStep ==
  ASSUME IInv, NEW t \in Threads, FindReplay(t)
  PROVE  IInv'
<1> DEFINE e == work.idem[Key(t)].ref
<1>1. e \in Nat /\ work.idem[Key(t)] = [digest |-> Digest(t), ref |-> e]
  BY MyFrame, FoundRow DEF FindReplay, IInv, TypeOK
<1>2. work = db
  BY MyFrame DEF FindReplay, InProgress
<1>3. Move(t, [frame[t] EXCEPT !.pc = "reconstruct", !.ref = e])
  BY DEF FindReplay
<1> HIDE DEF e
<1>4. Effect(t, "reconstruct", frame[t].call, frame[t].run, e, frame[t].said,
             frame[t].mine)
  BY <1>1, <1>3, MoveRef DEF IInv, Labels
<1>5. Knows(t)'
  BY <1>1, <1>2, <1>4, MyFrame
  DEF FindReplay, Rollback, Effect, Knows, Stored, Key, Digest, Recorded
<1> QED BY <1>4, <1>5, RollbackStep DEF FindReplay, Transaction

LEMMA CommitRaisesEarlyStep ==
  ASSUME IInv, NEW t \in Threads, CommitRaisesEarly(t)
  PROVE  IInv'
<1>1. Effect(t, "recover", frame[t].call, frame[t].run, frame[t].ref, frame[t].said,
             frame[t].mine)
  BY MovePC DEF IInv, CommitRaisesEarly, Labels
<1>2. Knows(t)'
  BY <1>1, MyFrame DEF CommitRaisesEarly, Effect, Knows
<1> QED BY <1>1, <1>2, RollbackStep DEF CommitRaisesEarly, Transaction

LEMMA FindNoRecordStep ==
  ASSUME IInv, NEW t \in Threads, FindNoRecord(t)
  PROVE  IInv'
<1>1. Effect(t, "subject", frame[t].call, frame[t].run, frame[t].ref, frame[t].said,
             frame[t].mine)
  BY MovePC DEF IInv, FindNoRecord, Labels, Transaction
<1>2. work = db /\ PC(t) = "check"
  BY MyFrame DEF FindNoRecord, InProgress
<1>3. InProgress(t)'
  BY <1>1, <1>2 DEF FindNoRecord, Effect, InProgress, Key, Recorded
<1>4. /\ OneToOne(work', {}) /\ WellFiled(work') /\ Extends(db, work') /\ work' \in Tables
      /\ RunsFiled(work', {})
  BY <1>2, InTransaction DEF FindNoRecord, Transaction
<1>5. /\ {} = (IF "subject" \in {"state", "record"} THEN {frame[t].ref} ELSE {})
      /\ {} = (IF "subject" = "event" THEN {frame[t].run} ELSE {})
  OBVIOUS
<1> QED BY <1>1, <1>2, <1>3, <1>4, <1>5, WritingStep DEF FindNoRecord, Transaction

LEMMA UseRunStep ==
  ASSUME IInv, NEW t \in Threads, UseRun(t)
  PROVE  IInv'
<1>1. PICK r \in RunsFor(work, frame[t].call) :
        /\ work.runs[r].revision = frame[t].call.revision
        /\ Move(t, [frame[t] EXCEPT !.pc = "event", !.run = r])
  BY DEF UseRun
<1>2. PC(t) = "run" /\ work \in Tables
  BY DEF UseRun, IInv, TypeOK
<1>3. work.runs \in Seq(Runs) /\ r \in DOMAIN work.runs
  BY <1>1, <1>2 DEF Tables, RunsFor
<1>4. r \in Nat /\ work.runs[r] \in Runs
  BY <1>3, Element
<1>5. Effect(t, "event", frame[t].call, r, frame[t].ref, frame[t].said, frame[t].mine)
  BY <1>1, <1>4, MoveRun DEF IInv, Labels, Transaction
<1>6. work.runs[r] = [subject |-> frame[t].call.subject, request |-> frame[t].call.request,
                      revision |-> frame[t].call.revision]
  BY <1>1, <1>4 DEF Runs, RunsFor
<1>7. InProgress(t)'
  BY <1>2, <1>3, <1>5, <1>6, MyFrame DEF UseRun, Effect, InProgress, Key, Recorded, Transaction
<1>8. /\ OneToOne(work', {}) /\ WellFiled(work') /\ Extends(db, work') /\ work' \in Tables
      /\ RunsFiled(work', {r})
  BY <1>2, InTransaction DEF UseRun, Transaction, RunsFiled
<1>9. /\ {} = (IF "event" \in {"state", "record"} THEN {frame[t].ref} ELSE {})
      /\ {r} = (IF "event" = "event" THEN {r} ELSE {})
  OBVIOUS
<1> QED BY <1>2, <1>5, <1>7, <1>8, <1>9, WritingStep DEF UseRun, Transaction

\* Tables that agree on runs, events and records are equally sound.
LEMMA SameRows ==
  ASSUME NEW T, NEW U, NEW p, U.runs = T.runs, U.events = T.events, U.idem = T.idem
  PROVE  /\ OneToOne(T, p) => OneToOne(U, p)
         /\ WellFiled(T) => WellFiled(U)
         /\ \A w : RunsFiled(T, w) => RunsFiled(U, w)
         /\ \A D : Extends(D, T) => Extends(D, U)
<1>1. OneToOne(T, p) => OneToOne(U, p)
  BY DEF OneToOne, Recorded
<1>2. \A k \in Keys : Matches(T, k) => Matches(U, k)
  BY DEF Matches
<1>3. WellFiled(T) => WellFiled(U)
  BY <1>2 DEF WellFiled, Recorded
<1>4. \A D : Extends(D, T) => Extends(D, U)
  BY DEF Extends
<1>5. \A w : RunsFiled(T, w) => RunsFiled(U, w)
  BY DEF RunsFiled
<1> QED BY <1>1, <1>3, <1>4, <1>5

LEMMA EnsureSubjectStep ==
  ASSUME IInv, NEW t \in Threads, EnsureSubject(t)
  PROVE  IInv'
<1>1. Effect(t, "run", frame[t].call, frame[t].run, frame[t].ref, frame[t].said,
             frame[t].mine)
  BY MovePC DEF IInv, EnsureSubject, Labels, Transaction
<1>2. PC(t) = "subject" /\ work \in Tables /\ frame[t].call.subject \in Subjects
  BY MyFrame DEF EnsureSubject, IInv, TypeOK, Calls
<1>3. /\ work' \in Tables /\ work'.runs = work.runs /\ work'.events = work.events
      /\ work'.idem = work.idem
  BY <1>2 DEF EnsureSubject, Tables
<1>4. /\ OneToOne(work', {}) /\ WellFiled(work') /\ Extends(db, work')
      /\ RunsFiled(work', {})
  BY <1>2, <1>3, SameRows, InTransaction DEF Transaction
<1>5. InProgress(t)'
  BY <1>1, <1>2, <1>3, MyFrame DEF EnsureSubject, Effect, InProgress, Key, Recorded, Transaction
<1>6. /\ {} = (IF "run" \in {"state", "record"} THEN {frame[t].ref} ELSE {})
      /\ {} = (IF "run" = "event" THEN {frame[t].run} ELSE {})
  OBVIOUS
<1> QED BY <1>1, <1>2, <1>3, <1>4, <1>5, <1>6, WritingStep DEF EnsureSubject, Transaction

LEMMA UpsertRunStateStep ==
  ASSUME IInv, NEW t \in Threads, UpsertRunState(t)
  PROVE  IInv'
<1>1. Effect(t, "record", frame[t].call, frame[t].run, frame[t].ref, frame[t].said,
             frame[t].mine)
  BY MovePC DEF IInv, UpsertRunState, Labels, Transaction
<1>2. PC(t) = "state" /\ work \in Tables /\ frame[t].call.body \in Bodies /\ frame[t].run \in Nat
  BY MyFrame DEF UpsertRunState, IInv, TypeOK, Calls
<1>3. Upsert(work.state, frame[t].run, frame[t].call.body) \in SUBSET States
  BY <1>2 DEF Upsert, Tables, States
<1>4. /\ work' \in Tables /\ work'.runs = work.runs /\ work'.events = work.events
      /\ work'.idem = work.idem
  BY <1>2, <1>3 DEF UpsertRunState, Tables
<1>5. /\ OneToOne(work', {frame[t].ref}) /\ WellFiled(work') /\ Extends(db, work')
      /\ RunsFiled(work', {})
  BY <1>2, <1>4, SameRows, InTransaction DEF Transaction
<1>6. InProgress(t)'
  BY <1>1, <1>2, <1>4, MyFrame DEF UpsertRunState, Effect, InProgress, Key, Recorded, Transaction
<1>7. /\ {frame[t].ref} = (IF "record" \in {"state", "record"} THEN {frame[t].ref} ELSE {})
      /\ {} = (IF "record" = "event" THEN {frame[t].run} ELSE {})
  OBVIOUS
<1> QED BY <1>1, <1>2, <1>4, <1>5, <1>6, <1>7, WritingStep DEF UpsertRunState, Transaction

LEMMA Appended ==
  ASSUME NEW S, NEW q \in Seq(S), NEW x \in S
  PROVE  /\ Append(q, x) \in Seq(S)
         /\ Len(q) + 1 \in Nat
         /\ DOMAIN Append(q, x) = DOMAIN q \cup {Len(q) + 1}
         /\ Len(q) + 1 \notin DOMAIN q
         /\ Len(Append(q, x)) = Len(q) + 1
         /\ Append(q, x)[Len(q) + 1] = x
         /\ \A i \in DOMAIN q : Append(q, x)[i] = q[i]
OBVIOUS

LEMMA CreateRunStep ==
  ASSUME IInv, NEW t \in Threads, CreateRun(t)
  PROVE  IInv'
<1> DEFINE c == frame[t].call
           row == [subject |-> c.subject, request |-> c.request, revision |-> c.revision]
           n == Len(work.runs) + 1
<1>1. PC(t) = "run" /\ work \in Tables /\ c \in Calls /\ RunsFor(work, c) = {}
  BY MyFrame DEF CreateRun, IInv, TypeOK
<1>2. work.runs \in Seq(Runs) /\ row \in Runs
  BY <1>1 DEF Tables, Runs, Calls
<1>3. /\ work' = [work EXCEPT !.runs = Append(work.runs, row)]
      /\ Move(t, [frame[t] EXCEPT !.pc = "event", !.run = n])
      /\ UNCHANGED <<lock, writer, db, acked, calls, damage>>
  BY DEF CreateRun
<1> HIDE DEF c
<1>4. /\ Append(work.runs, row) \in Seq(Runs)
      /\ n \in Nat /\ n \notin DOMAIN work.runs
      /\ DOMAIN Append(work.runs, row) = DOMAIN work.runs \cup {n}
      /\ Append(work.runs, row)[n] = row
      /\ \A r \in DOMAIN work.runs : Append(work.runs, row)[r] = work.runs[r]
  BY <1>2, Appended
<1>5. /\ work' \in Tables /\ work'.events = work.events /\ work'.idem = work.idem
      /\ work'.runs = Append(work.runs, row)
  BY <1>1, <1>3, <1>4 DEF Tables
<1>6. /\ DOMAIN work'.runs = DOMAIN work.runs \cup {n}
      /\ work'.runs[n] = row
      /\ \A r \in DOMAIN work.runs : work'.runs[r] = work.runs[r]
  BY <1>4, <1>5
<1>7. Effect(t, "event", frame[t].call, n, frame[t].ref, frame[t].said, frame[t].mine)
  BY <1>3, <1>4, MoveRun DEF IInv, Labels, Transaction
<1> HIDE DEF n
<1>8. OneToOne(work, {}) /\ WellFiled(work) /\ RunsFiled(work, {}) /\ Extends(db, work)
  BY <1>1, InTransaction DEF Transaction
<1>9. OneToOne(work', {}) /\ RunsFiled(work', {n})
  BY <1>5, <1>6, <1>8 DEF OneToOne, RunsFiled, Recorded
<1>10. Extends(db, work')
  BY <1>5, <1>6, <1>8 DEF Extends
<1>11. WellFiled(work')
  <2>1. \A e \in DOMAIN work'.events : work'.events[e].run \in DOMAIN work'.runs
    BY <1>5, <1>6, <1>8 DEF WellFiled
  <2>2. ASSUME NEW k \in Keys, Recorded(work', k)
        PROVE  Matches(work', k)
    <3>1. Recorded(work, k) /\ work'.idem[k] = work.idem[k]
      BY <1>5, <2>2 DEF Recorded
    <3>2. Matches(work, k) /\ work.idem[k].ref \in DOMAIN work.events
      BY <1>8, <3>1 DEF WellFiled, OneToOne
    <3>3. work.events[work.idem[k].ref].run \in DOMAIN work.runs
      BY <1>8, <3>2 DEF WellFiled
    <3> QED BY <1>5, <1>6, <3>1, <3>2, <3>3 DEF Matches
  <2>3. ASSUME NEW r \in DOMAIN work'.runs, NEW s \in DOMAIN work'.runs,
               work'.runs[r].subject = work'.runs[s].subject,
               work'.runs[r].request = work'.runs[s].request
        PROVE  r = s
    <3>1. \A i \in DOMAIN work.runs :
            ~ (work.runs[i].subject = row.subject /\ work.runs[i].request = row.request)
      BY <1>1 DEF RunsFor
    <3> QED BY <1>6, <1>8, <2>3, <3>1 DEF WellFiled
  <2> QED BY <2>1, <2>2, <2>3 DEF WellFiled
<1>12. InProgress(t)'
  BY <1>1, <1>3, <1>5, <1>6, <1>7, MyFrame
  DEF Effect, InProgress, Key, Recorded, Transaction, c
<1>13. /\ {} = (IF "event" \in {"state", "record"} THEN {frame[t].ref} ELSE {})
       /\ {n} = (IF "event" = "event" THEN {n} ELSE {})
  OBVIOUS
<1> QED
  BY <1>1, <1>3, <1>5, <1>7, <1>9, <1>10, <1>11, <1>12, <1>13, WritingStep DEF Transaction

LEMMA InsertEventStep ==
  ASSUME IInv, NEW t \in Threads, InsertEvent(t)
  PROVE  IInv'
<1> DEFINE b == frame[t].call.body
           row == [run |-> frame[t].run, payload |-> b, hash |-> PayloadDigest(b)]
           n == Len(work.events) + 1
<1>1. PC(t) = "event" /\ work \in Tables /\ b \in Bodies /\ frame[t].run \in Nat
  BY MyFrame DEF InsertEvent, IInv, TypeOK, Calls
<1>2. work.events \in Seq(Events) /\ row \in Events
  BY <1>1 DEF Tables, Events, Payloads
<1>3. /\ work' = [work EXCEPT !.events = Append(work.events, row)]
      /\ Move(t, [frame[t] EXCEPT !.pc = "state", !.ref = n])
      /\ UNCHANGED <<lock, writer, db, acked, calls, damage>>
  BY DEF InsertEvent
<1>4. /\ Append(work.events, row) \in Seq(Events)
      /\ n \in Nat /\ n \notin DOMAIN work.events
      /\ Len(Append(work.events, row)) = n
      /\ DOMAIN Append(work.events, row) = DOMAIN work.events \cup {n}
      /\ Append(work.events, row)[n] = row
      /\ \A e \in DOMAIN work.events : Append(work.events, row)[e] = work.events[e]
  BY <1>2, Appended
<1>5. /\ work' \in Tables /\ work'.runs = work.runs /\ work'.idem = work.idem
      /\ work'.events = Append(work.events, row)
  BY <1>1, <1>3, <1>4 DEF Tables
<1>6. /\ DOMAIN work'.events = DOMAIN work.events \cup {n}
      /\ Len(work'.events) = n
      /\ work'.events[n].run = frame[t].run
      /\ work'.events[n].hash = PayloadDigest(b)
      /\ \A e \in DOMAIN work.events : work'.events[e] = work.events[e]
  BY <1>4, <1>5
<1>7. Effect(t, "state", frame[t].call, frame[t].run, n, frame[t].said, frame[t].mine)
  BY <1>3, <1>4, MoveRef DEF IInv, Labels, Transaction
<1>8. n \notin DOMAIN work.events /\ n = Len(db.events) + 1
  BY <1>1, <1>4, MyFrame DEF InProgress
<1> HIDE DEF n, row, b
<1>9. /\ OneToOne(work, {}) /\ WellFiled(work) /\ Extends(db, work)
      /\ RunsFiled(work, {frame[t].run})
  BY <1>1, InTransaction DEF Transaction
<1>10. frame[t].run \in DOMAIN work.runs
  BY <1>1, MyFrame DEF InProgress
<1>11. OneToOne(work', {n}) /\ RunsFiled(work', {})
  <2>1. OneToOne(work', {n})
    BY <1>5, <1>6, <1>8, <1>9 DEF OneToOne, Recorded
  <2>2. RunsFiled(work', {})
    BY <1>5, <1>6, <1>9 DEF RunsFiled
  <2> QED BY <2>1, <2>2
<1>12. Extends(db, work')
  BY <1>5, <1>6, <1>9 DEF Extends
<1>13. WellFiled(work')
  <2>1. \A e \in DOMAIN work'.events : work'.events[e].run \in DOMAIN work'.runs
    BY <1>5, <1>6, <1>9, <1>10 DEF WellFiled
  <2>2. ASSUME NEW k \in Keys, Recorded(work', k)
        PROVE  Matches(work', k)
    <3>1. Recorded(work, k) /\ work'.idem[k] = work.idem[k]
      BY <1>5, <2>2 DEF Recorded
    <3>2. Matches(work, k) /\ work.idem[k].ref \in DOMAIN work.events
      BY <1>9, <3>1 DEF WellFiled, OneToOne
    <3> QED BY <1>5, <1>6, <3>1, <3>2 DEF Matches
  <2> QED BY <1>5, <1>9, <2>1, <2>2 DEF WellFiled
<1>14. InProgress(t)'
  BY <1>1, <1>3, <1>5, <1>6, <1>7, <1>8, MyFrame
  DEF Effect, InProgress, Key, Recorded, Transaction, b
<1>15. /\ {n} = (IF "state" \in {"state", "record"} THEN {n} ELSE {})
       /\ {} = (IF "state" = "event" THEN {frame[t].run} ELSE {})
  OBVIOUS
<1> QED
  <2>1. PC(t) \in Transaction /\ "state" \in Transaction
    BY <1>1 DEF Transaction
  <2> QED BY <1>3, <1>5, <1>7, <1>11, <1>12, <1>13, <1>14, <1>15, <2>1, WritingStep

LEMMA InsertRecordStep ==
  ASSUME IInv, NEW t \in Threads, InsertRecord(t)
  PROVE  IInv'
<1> DEFINE k == Key(t)
           row == [digest |-> Digest(t), ref |-> frame[t].ref]
<1>1. /\ PC(t) = "record" /\ work \in Tables /\ k \in Keys /\ ~ Recorded(work, k)
      /\ row \in Records /\ row # Null
  BY MyFrame, RecordTypes DEF InsertRecord, IInv, TypeOK, Recorded
<1>2. /\ work' = [work EXCEPT !.idem[k] = row]
      /\ Move(t, [frame[t] EXCEPT !.pc = "commit"])
      /\ UNCHANGED <<lock, writer, db, acked, calls, damage>>
  BY DEF InsertRecord
<1>3. /\ work' \in Tables /\ work'.runs = work.runs /\ work'.events = work.events
      /\ work'.idem[k] = row
      /\ \A j \in Keys \ {k} : work'.idem[j] = work.idem[j]
  BY <1>1, <1>2 DEF Tables
<1>4. row.ref = frame[t].ref /\ row.digest = Digest(t)
  OBVIOUS
<1>5. Effect(t, "commit", frame[t].call, frame[t].run, frame[t].ref, frame[t].said,
             frame[t].mine)
  BY <1>2, MovePC DEF IInv, Labels, Transaction
<1>6. /\ OneToOne(work, {frame[t].ref}) /\ WellFiled(work) /\ Extends(db, work)
      /\ RunsFiled(work, {})
  BY <1>1, InTransaction DEF Transaction
<1>7. /\ frame[t].ref \in DOMAIN work.events
      /\ work.events[frame[t].ref].run = frame[t].run
      /\ work.events[frame[t].ref].hash = PayloadDigest(frame[t].call.body)
      /\ frame[t].run \in DOMAIN work.runs
      /\ work.runs[frame[t].run].subject = Digest(t).subject
      /\ work.runs[frame[t].run].request = Digest(t).request
      /\ work.runs[frame[t].run].revision = Digest(t).revision
      /\ Digest(t).body = frame[t].call.body
  <2>1. /\ frame[t].ref \in DOMAIN work.events
        /\ work.events[frame[t].ref].run = frame[t].run
        /\ work.events[frame[t].ref].hash = PayloadDigest(frame[t].call.body)
        /\ frame[t].run \in DOMAIN work.runs
        /\ work.runs[frame[t].run] =
             [subject |-> frame[t].call.subject, request |-> frame[t].call.request,
              revision |-> frame[t].call.revision]
    BY <1>1, MyFrame DEF InProgress
  <2> QED BY <2>1 DEF Digest, RequestDigest
<1>8. InProgress(t)' /\ RunsFiled(work', {})
  <2>1. /\ Len(work.events) = Len(db.events) + 1 /\ frame[t].ref = Len(db.events) + 1
        /\ ~ Recorded(db, Key(t)) /\ work.idem = db.idem
    BY <1>1, MyFrame DEF InProgress, Transaction
  <2>3. work'.idem = [db.idem EXCEPT ![Key(t)] = row]
    BY <1>1, <1>2, <2>1 DEF Tables
  <2>2. InProgress(t)'
    BY <1>2, <1>3, <1>5, <1>7, <2>1, <2>3
    DEF Effect, InProgress, Key, Digest, Recorded, Transaction
  <2> QED BY <1>3, <1>6, <2>2 DEF RunsFiled
<1> HIDE DEF row, k
<1>9. \A j \in Keys : Recorded(work', j) <=> j = k \/ Recorded(work, j)
  BY <1>1, <1>3 DEF Recorded
<1>10. OneToOne(work', {})
  <2>1. \A j \in Keys : Recorded(work', j) => work'.idem[j].ref \in DOMAIN work'.events
    BY <1>3, <1>4, <1>6, <1>7, <1>9 DEF OneToOne
  <2>2. \A i, j \in Keys :
          Recorded(work', i) /\ Recorded(work', j) /\ work'.idem[i].ref = work'.idem[j].ref
            => i = j
    BY <1>1, <1>3, <1>4, <1>6, <1>9 DEF OneToOne
  <2>3. ASSUME NEW e \in DOMAIN work'.events
        PROVE  \E j \in Keys : Recorded(work', j) /\ work'.idem[j].ref = e
    <3>1. CASE e = frame[t].ref
      BY <1>1, <1>3, <1>4, <1>9, <3>1
    <3>2. CASE e # frame[t].ref
      <4>1. PICK j \in Keys : Recorded(work, j) /\ work.idem[j].ref = e
        BY <1>3, <1>6, <3>2 DEF OneToOne
      <4> QED BY <1>1, <1>3, <1>9, <4>1
    <3> QED BY <3>1, <3>2
  <2> QED BY <2>1, <2>2, <2>3 DEF OneToOne
<1>11. Extends(db, work')
  <2>1. \A j \in Keys : Recorded(db, j) => j # k
    BY <1>1, <1>6 DEF Extends, Recorded
  <2> QED BY <1>3, <1>6, <2>1 DEF Extends
<1>12. WellFiled(work')
  <2>1. \A j \in Keys : Recorded(work, j) => Matches(work, j)
    BY <1>6 DEF WellFiled
  <2>2. \A j \in Keys \ {k} : Recorded(work', j) => Matches(work', j)
    BY <1>3, <1>9, <2>1 DEF Matches
  <2>3. Matches(work', k)
    BY <1>3, <1>4, <1>7 DEF Matches
  <2> QED BY <1>3, <1>6, <2>2, <2>3 DEF WellFiled
<1>13. /\ {} = (IF "commit" \in {"state", "record"} THEN {frame[t].ref} ELSE {})
       /\ {} = (IF "commit" = "event" THEN {frame[t].run} ELSE {})
  OBVIOUS
<1> QED
  BY <1>1, <1>2, <1>3, <1>5, <1>8, <1>10, <1>11, <1>12, <1>13, WritingStep DEF Transaction

-----------------------------------------------------------------------------
(* The commit.                                                             *)

LEMMA AtCommit ==
  ASSUME IInv, NEW t \in Threads, PC(t) = "commit"
  PROVE  /\ work.idem[Key(t)] = [digest |-> Digest(t), ref |-> frame[t].ref]
         /\ work.events[frame[t].ref].run = frame[t].run
         /\ work.idem[Key(t)] # Null /\ work.idem[Key(t)].digest = Digest(t)
         /\ frame[t].said = "none"
<1>1. work.idem[Key(t)] = [digest |-> Digest(t), ref |-> frame[t].ref]
  BY MyFrame DEF InProgress, IInv, TypeOK, Tables
<1>2. work.idem[Key(t)] # Null
  BY <1>1, MyFrame, RecordTypes
<1>3. work.idem[Key(t)].digest = Digest(t)
  BY <1>1
<1>4. frame[t].said = "none" /\ work.events[frame[t].ref].run = frame[t].run
  BY MyFrame DEF InProgress
<1> QED BY <1>1, <1>2, <1>3, <1>4

LEMMA CommitOK ==
  ASSUME IInv, NEW t \in Threads, Commit(t)
  PROVE  IInv'
<1> DEFINE f == [frame[t] EXCEPT !.pc = "return", !.said = "new", !.mine = TRUE]
<1>1. frame[t] \in Frames
  BY DEF IInv, TypeOK
<1>2. f \in Frames
  BY <1>1 DEF Frames, Labels, Kinds
<1>3. /\ f.pc = "return" /\ f.call = frame[t].call /\ f.run = frame[t].run
      /\ f.ref = frame[t].ref /\ f.said = "new" /\ f.mine = TRUE
  BY <1>1 DEF Frames
<1>4. Move(t, f)
  BY DEF Commit
<1> HIDE DEF f
<1>5. Effect(t, "return", frame[t].call, frame[t].run, frame[t].ref, "new", TRUE)
  BY <1>2, <1>3, <1>4, Moved DEF IInv
<1>6. Knows(t)'
  BY <1>5, AtCommit, MyFrame DEF Commit, Effect, Knows, Stored, Recorded, Key, Digest
<1> QED BY <1>5, <1>6, CommitStep DEF Commit

LEMMA CommitRaisesLateStep ==
  ASSUME IInv, NEW t \in Threads, CommitRaisesLate(t)
  PROVE  IInv'
<1> DEFINE f == [frame[t] EXCEPT !.pc = "recover", !.mine = TRUE]
<1>1. frame[t] \in Frames
  BY DEF IInv, TypeOK
<1>2. f \in Frames
  BY <1>1 DEF Frames, Labels
<1>3. /\ f.pc = "recover" /\ f.call = frame[t].call /\ f.run = frame[t].run
      /\ f.ref = frame[t].ref /\ f.said = frame[t].said /\ f.mine = TRUE
  BY <1>1 DEF Frames
<1>4. Move(t, f)
  BY DEF CommitRaisesLate
<1> HIDE DEF f
<1>5. Effect(t, "recover", frame[t].call, frame[t].run, frame[t].ref, frame[t].said, TRUE)
  BY <1>2, <1>3, <1>4, Moved DEF IInv
<1>6. Knows(t)'
  BY <1>5, AtCommit, MyFrame DEF CommitRaisesLate, Effect, Knows, Stored, Recorded, Key, Digest
<1> QED BY <1>5, <1>6, CommitStep DEF CommitRaisesLate

-----------------------------------------------------------------------------
(* Entering and leaving the repository, and the environment.               *)

\* Steps that leave the tables alone and move no call into or out of a
\* transaction.
LEMMA TablesUntouched ==
  ASSUME IInv, UNCHANGED <<db, work, acked>>, Pending' = Pending, Unfiled' = Unfiled,
         (writer' = Null => writer = Null)
  PROVE  TablesSound' /\ WorkExtends' /\ AckedIsDurable' /\ Extends(db, db')
<1>1. TablesSound'
  BY SoundAfter DEF IInv, TablesSound
<1>2. WorkExtends' /\ AckedIsDurable'
  BY DEF IInv, WorkExtends, AckedIsDurable
<1> QED BY <1>1, <1>2 DEF Extends

LEMMA IdleFrameType == IdleFrame \in Frames
BY DEF IdleFrame, Frames, Labels, Outside, Kinds

LEMMA CallStep ==
  ASSUME IInv, NEW t \in Threads, NEW c \in Calls, Call(t, c)
  PROVE  IInv'
<1> DEFINE f == [IdleFrame EXCEPT !.pc = "lock", !.call = c]
<1>1. f \in Frames
  BY DEF IdleFrame, Frames, Labels, Outside, Kinds
<1>2. f.pc = "lock" /\ f.call = c /\ f.run = 0 /\ f.ref = 0 /\ f.said = "none" /\ f.mine = FALSE
  BY DEF IdleFrame
<1>3. Move(t, f) /\ PC(t) = "idle" /\ calls < MaxCalls /\ calls' = calls + 1
      /\ UNCHANGED <<lock, writer, db, work, acked, damage>>
  BY DEF Call
<1> HIDE DEF f
<1>4. Effect(t, "lock", c, 0, 0, "none", FALSE)
  BY <1>1, <1>2, <1>3, Moved DEF IInv
<1>5. TypeOK'
  BY <1>3, <1>4, Bounds DEF IInv, TypeOK, Effect
<1>6. LockDiscipline'
  BY <1>3, <1>4 DEF IInv, LockDiscipline, Effect, Outside, Transaction
<1>7. writer # t
  BY <1>3 DEF IInv, LockDiscipline, Transaction
<1>8. Pending' = Pending /\ Unfiled' = Unfiled
  BY <1>3, <1>4, <1>7 DEF IInv, TypeOK, Pending, Unfiled, Effect
<1>9. TablesSound' /\ WorkExtends' /\ AckedIsDurable' /\ Extends(db, db')
  BY <1>3, <1>8, TablesUntouched
<1>10. InProgress(t)' /\ Knows(t)'
  BY <1>4 DEF Effect, InProgress, Knows, Transaction
<1>11. CallsSound'
  BY <1>3, <1>4, <1>9, <1>10, CallsKept DEF OwnPart, Effect
<1> QED BY <1>5, <1>6, <1>9, <1>11 DEF IInv

LEMMA AcquireLockStep ==
  ASSUME IInv, NEW t \in Threads, AcquireLock(t)
  PROVE  IInv'
<1>1. Effect(t, "begin", frame[t].call, frame[t].run, frame[t].ref, frame[t].said,
             frame[t].mine)
  BY MovePC DEF IInv, AcquireLock, Labels
<1>2. ProcOf[t] \in Procs /\ lock \in [Procs -> Threads \cup {Null}]
  BY Placement DEF IInv, TypeOK
<1>3. /\ PC(t) = "lock" /\ lock[ProcOf[t]] = Null
      /\ lock' = [lock EXCEPT ![ProcOf[t]] = t]
      /\ UNCHANGED <<writer, db, work, acked, calls, damage>>
  BY DEF AcquireLock
<1>4. lock' \in [Procs -> Threads \cup {Null}]
  BY <1>2, <1>3
<1>5. TypeOK'
  BY <1>1, <1>3, <1>4 DEF IInv, TypeOK, Effect
<1>6. LockDiscipline'
  <2>1. ASSUME NEW u \in Threads \ {t}
        PROVE  frame'[u].pc \notin Outside <=> lock'[ProcOf[u]] = u
    <3>1. frame'[u].pc \notin Outside <=> lock[ProcOf[u]] = u
      BY <1>1 DEF IInv, LockDiscipline, Effect
    <3>2. lock'[ProcOf[u]] = (IF ProcOf[u] = ProcOf[t] THEN t ELSE lock[ProcOf[u]])
      BY <1>2, <1>3, Placement
    <3> QED BY <1>3, <3>1, <3>2, Distinct
  <2>2. frame'[t].pc \notin Outside /\ lock'[ProcOf[t]] = t
    BY <1>1, <1>2, <1>3 DEF Effect, Outside
  <2>3. \A u \in Threads : frame'[u].pc \in Transaction <=> writer' = u
    BY <1>1, <1>3 DEF IInv, LockDiscipline, Effect, Transaction
  <2> QED BY <2>1, <2>2, <2>3 DEF LockDiscipline
<1>7. writer # t
  BY <1>3 DEF IInv, LockDiscipline, Transaction
<1>8. Pending' = Pending /\ Unfiled' = Unfiled
  BY <1>1, <1>3, <1>7 DEF IInv, TypeOK, Pending, Unfiled, Effect
<1>9. TablesSound' /\ WorkExtends' /\ AckedIsDurable' /\ Extends(db, db')
  BY <1>3, <1>8, TablesUntouched
<1>10. InProgress(t)' /\ Knows(t)'
  BY <1>1, <1>3, MyFrame DEF Effect, InProgress, Knows, Transaction
<1>11. CallsSound'
  BY <1>1, <1>3, <1>9, <1>10, CallsKept DEF OwnPart, Effect
<1> QED BY <1>5, <1>6, <1>9, <1>11 DEF IInv

LEMMA BeginImmediateStep ==
  ASSUME IInv, NEW t \in Threads, BeginImmediate(t)
  PROVE  IInv'
<1>1. Effect(t, "check", frame[t].call, frame[t].run, frame[t].ref, frame[t].said,
             frame[t].mine)
  BY MovePC DEF IInv, BeginImmediate, Labels, Transaction
<1>2. /\ PC(t) = "begin" /\ writer = Null /\ writer' = t
      /\ UNCHANGED <<lock, db, work, acked, calls, damage>>
  BY DEF BeginImmediate
<1>3. TypeOK'
  BY <1>1, <1>2 DEF IInv, TypeOK, Effect
<1>4. LockDiscipline'
  BY <1>1, <1>2, Distinct DEF IInv, LockDiscipline, Effect, Outside, Transaction
<1>5. Pending' = Pending /\ Unfiled' = Unfiled
  BY <1>1, <1>2 DEF Pending, Unfiled, Effect
<1>6. TablesSound' /\ WorkExtends' /\ AckedIsDurable' /\ Extends(db, db')
  BY <1>2, <1>5, Distinct, TablesUntouched
<1>7. work = db
  BY <1>2 DEF IInv, WorkExtends
<1>8. InProgress(t)' /\ Knows(t)'
  BY <1>1, <1>2, <1>7, MyFrame DEF Effect, InProgress, Knows
<1>9. CallsSound'
  BY <1>1, <1>2, <1>6, <1>8, CallsKept DEF OwnPart, Effect
<1> QED BY <1>3, <1>4, <1>6, <1>9 DEF IInv

LEMMA IdleKnows ==
  ASSUME NEW u \in Threads, frame'[u] = IdleFrame
  PROVE  InProgress(u)' /\ Knows(u)' /\ PC(u)' = "idle"
BY DEF InProgress, Knows, IdleFrame, Transaction

LEMMA ReturnStep ==
  ASSUME IInv, NEW t \in Threads, Return(t)
  PROVE  IInv'
<1>1. /\ PC(t) = "return"
      /\ lock' = [lock EXCEPT ![ProcOf[t]] = Null]
      /\ acked' = IF frame[t].said \in {"new", "replay"}
                    THEN acked \cup {Result(t)} ELSE acked
      /\ Move(t, IdleFrame)
      /\ UNCHANGED <<writer, db, work, calls, damage>>
  BY DEF Return
<1>2. Effect(t, "idle", Null, 0, 0, "none", FALSE) /\ frame'[t] = IdleFrame
  BY <1>1, IdleFrameType, Moved DEF IInv, IdleFrame, Move, TypeOK
<1>3. ProcOf[t] \in Procs /\ lock \in [Procs -> Threads \cup {Null}]
  BY Placement DEF IInv, TypeOK
<1>4. lock' \in [Procs -> Threads \cup {Null}]
  BY <1>1, <1>3
<1>5. frame[t].said \in {"new", "replay"} =>
        /\ Result(t) \in Results
        /\ Stored(t) /\ db.events[frame[t].ref].run = frame[t].run
        /\ frame[t].ref \in DOMAIN db.events
  <2>1. Stored(t) => Recorded(db, Key(t)) /\ db.idem[Key(t)].ref = frame[t].ref
    BY <1>1, MyFrame, StoredRow DEF IInv, Stored
  <2>2. Result(t) \in Results
    BY <1>1, MyFrame DEF Result, Results
  <2> QED BY <1>1, <2>1, <2>2, MyFrame DEF Knows, IInv, TablesSound, OneToOne
<1>6. TypeOK'
  BY <1>1, <1>2, <1>4, <1>5 DEF IInv, TypeOK, Effect
<1>7. LockDiscipline'
  <2>1. ASSUME NEW u \in Threads \ {t}
        PROVE  frame'[u].pc \notin Outside <=> lock'[ProcOf[u]] = u
    <3>1. frame'[u].pc \notin Outside <=> lock[ProcOf[u]] = u
      BY <1>2 DEF IInv, LockDiscipline, Effect
    <3>2. lock'[ProcOf[u]] = (IF ProcOf[u] = ProcOf[t] THEN Null ELSE lock[ProcOf[u]])
      BY <1>1, <1>3, Placement
    <3>3. lock[ProcOf[t]] = t
      BY <1>1 DEF IInv, LockDiscipline, Outside
    <3> QED BY <3>1, <3>2, <3>3, Distinct
  <2>2. frame'[t].pc \in Outside /\ lock'[ProcOf[t]] # t
    BY <1>1, <1>2, <1>3, Distinct DEF Effect, Outside
  <2>3. \A u \in Threads : frame'[u].pc \in Transaction <=> writer' = u
    BY <1>1, <1>2 DEF IInv, LockDiscipline, Effect, Transaction
  <2> QED BY <2>1, <2>2, <2>3 DEF LockDiscipline
<1>8. writer # t
  BY <1>1 DEF IInv, LockDiscipline, Transaction
<1>9. Pending' = Pending /\ Unfiled' = Unfiled
  BY <1>1, <1>2, <1>8 DEF IInv, TypeOK, Pending, Unfiled, Effect
<1>10. TablesSound' /\ WorkExtends' /\ Extends(db, db')
  <2>1. TablesSound'
    BY <1>1, <1>9, SoundAfter DEF IInv, TablesSound
  <2> QED BY <1>1, <2>1 DEF IInv, WorkExtends, Extends
<1>11. AckedIsDurable'
  <2>1. ASSUME NEW a \in acked'
        PROVE  /\ db.idem[a.key] = [digest |-> a.digest, ref |-> a.event]
               /\ a.event \in DOMAIN db.events
               /\ db.events[a.event].run = a.run
    <3>1. CASE a \in acked
      BY <3>1 DEF IInv, AckedIsDurable
    <3>2. CASE a = Result(t) /\ frame[t].said \in {"new", "replay"}
      BY <1>5, <3>2 DEF Result, Stored
    <3> QED BY <1>1, <2>1, <3>1, <3>2
  <2> QED BY <1>1, <2>1 DEF AckedIsDurable
<1>12. InProgress(t)' /\ Knows(t)'
  BY <1>2, IdleKnows
<1>13. CallsSound'
  BY <1>1, <1>2, <1>10, <1>12, CallsKept DEF OwnPart, Effect
<1> QED BY <1>6, <1>7, <1>10, <1>11, <1>13 DEF IInv

LEMMA CrashStep ==
  ASSUME IInv, NEW p \in Procs, Crash(p)
  PROVE  IInv'
<1> DEFINE dies == writer # Null /\ ProcOf[writer] = p
<1>1. /\ lock' = [lock EXCEPT ![p] = Null]
      /\ frame' = [t \in Threads |-> IF ProcOf[t] = p THEN IdleFrame ELSE frame[t]]
      /\ dies => work' = db /\ writer' = Null
      /\ ~ dies => work' = work /\ writer' = writer
      /\ UNCHANGED <<db, acked, calls, damage>>
  BY DEF Crash, Rollback
<1> HIDE DEF dies
<1>2. \A u \in Threads :
        frame'[u] = (IF ProcOf[u] = p THEN IdleFrame ELSE frame[u])
  BY <1>1
<1>3. lock \in [Procs -> Threads \cup {Null}] /\ writer \in Threads \cup {Null}
  BY DEF IInv, TypeOK
<1>4. lock' \in [Procs -> Threads \cup {Null}]
      /\ \A q \in Procs : lock'[q] = (IF q = p THEN Null ELSE lock[q])
  BY <1>1, <1>3
<1>5. frame' \in [Threads -> Frames]
  BY <1>1, IdleFrameType DEF IInv, TypeOK
<1>6. TypeOK'
  BY <1>1, <1>4, <1>5 DEF IInv, TypeOK
<1>7. LockDiscipline'
  <2> SUFFICES ASSUME NEW u \in Threads
               PROVE  /\ frame'[u].pc \notin Outside <=> lock'[ProcOf[u]] = u
                      /\ frame'[u].pc \in Transaction <=> writer' = u
    BY DEF LockDiscipline
  <2>1. ProcOf[u] \in Procs
    BY Placement
  <2>2. CASE ProcOf[u] = p
    <3>1. frame'[u].pc = "idle" /\ lock'[ProcOf[u]] # u
      BY <1>2, <1>4, <2>1, <2>2, Distinct DEF IdleFrame
    <3>2. writer' # u
      BY <1>1, <2>2, Distinct DEF dies
    <3> QED BY <3>1, <3>2 DEF Outside, Transaction
  <2>3. CASE ProcOf[u] # p
    <3>1. frame'[u] = frame[u] /\ lock'[ProcOf[u]] = lock[ProcOf[u]]
      BY <1>2, <1>4, <2>1, <2>3
    <3>2. writer' = u <=> writer = u
      BY <1>1, <2>3, Distinct DEF dies
    <3> QED BY <3>1, <3>2 DEF IInv, LockDiscipline
  <2> QED BY <2>2, <2>3
<1>8. /\ Pending' = IF dies THEN {} ELSE Pending
      /\ Unfiled' = IF dies THEN {} ELSE Unfiled
  BY <1>1, <1>2, <1>3 DEF Pending, Unfiled, dies
<1>9. TablesSound'
  BY <1>1, <1>8, SoundAfter DEF IInv, TablesSound
<1>10. WorkExtends' /\ AckedIsDurable' /\ Extends(db, db')
  BY <1>1 DEF IInv, WorkExtends, AckedIsDurable, Extends, Recorded
<1>11. CallsSound'
  <2> SUFFICES ASSUME NEW u \in Threads PROVE InProgress(u)' /\ Knows(u)'
    BY DEF CallsSound
  <2>1. CASE ProcOf[u] = p
    BY <1>2, <2>1, IdleKnows
  <2>2. CASE ProcOf[u] # p
    <3>1. frame'[u] = frame[u]
      BY <1>2, <2>2
    <3>2. Knows(u)'
      BY <1>10, <3>1, OthersKnow DEF IInv, CallsSound, TablesSound
    <3>3. PC(u) \notin Transaction \/ (work' = work /\ db' = db)
      BY <1>1, <2>2 DEF dies, IInv, LockDiscipline
    <3> QED BY <3>1, <3>2, <3>3, OthersInProgress DEF IInv, CallsSound
  <2> QED BY <2>1, <2>2
<1> QED BY <1>6, <1>7, <1>9, <1>10, <1>11 DEF IInv

LEMMA DamageStep ==
  ASSUME IInv, NEW e \in DOMAIN db.events, NEW v \in Damages, Damage(e, v)
  PROVE  IInv'
<1>1. /\ damage < MaxDamage /\ writer = Null /\ damage' = damage + 1
      /\ db' = [db EXCEPT !.events[e].payload = v]
      /\ work' = db'
      /\ UNCHANGED <<lock, writer, frame, acked, calls>>
  BY DEF Damage
<1>2. db \in Tables /\ db.events \in Seq(Events) /\ db.events[e] \in Events
  <2>1. db \in Tables /\ db.events \in Seq(Events)
    BY DEF IInv, TypeOK, Tables
  <2> QED BY <2>1, Element
<1> DEFINE row == [db.events[e] EXCEPT !.payload = v]
           rows == [db.events EXCEPT ![e] = row]
<1>3. row \in Events /\ row.run = db.events[e].run /\ row.hash = db.events[e].hash
  BY <1>2 DEF Events, Payloads
<1>4. db' = [db EXCEPT !.events = rows]
  BY <1>1
<1> HIDE DEF row
<1>5. /\ rows \in Seq(Events) /\ DOMAIN rows = DOMAIN db.events
      /\ \A i \in DOMAIN db.events : rows[i] = IF i = e THEN row ELSE db.events[i]
  BY <1>2, <1>3
<1> HIDE DEF rows
<1>6. /\ db' \in Tables /\ db'.runs = db.runs /\ db'.idem = db.idem /\ db'.events = rows
  BY <1>2, <1>4, <1>5 DEF Tables
<1>7. /\ DOMAIN db'.events = DOMAIN db.events
      /\ \A i \in DOMAIN db.events :
           db'.events[i].run = db.events[i].run /\ db'.events[i].hash = db.events[i].hash
  BY <1>3, <1>5, <1>6
<1>8. OneToOne(db, {}) /\ WellFiled(db) /\ RunsFiled(db, {})
  BY DEF IInv, TablesSound
<1>9. OneToOne(db', {}) /\ RunsFiled(db', {})
  BY <1>6, <1>7, <1>8 DEF OneToOne, RunsFiled, Recorded
<1>10. WellFiled(db')
  <2>1. \A i \in DOMAIN db'.events : db'.events[i].run \in DOMAIN db'.runs
    BY <1>6, <1>7, <1>8 DEF WellFiled
  <2>2. ASSUME NEW k \in Keys, Recorded(db', k)
        PROVE  Matches(db', k)
    <3>1. Recorded(db, k) /\ db'.idem[k] = db.idem[k]
      BY <1>6, <2>2 DEF Recorded
    <3>2. Matches(db, k) /\ db.idem[k].ref \in DOMAIN db.events
      BY <1>8, <3>1 DEF WellFiled, OneToOne
    <3> QED BY <1>6, <1>7, <3>1, <3>2 DEF Matches
  <2> QED BY <1>6, <1>8, <2>1, <2>2 DEF WellFiled
<1>11. Pending' = {} /\ Unfiled' = {}
  BY <1>1 DEF Pending, Unfiled
<1>12. TablesSound'
  BY <1>1, <1>9, <1>10, <1>11, SoundAfter
<1>13. Extends(db, db')
  BY <1>6, <1>7 DEF Extends
<1>14. WorkExtends'
  BY <1>1 DEF WorkExtends, Extends
<1>15. AckedIsDurable'
  BY <1>1, <1>8, <1>13, AckedKept DEF IInv
<1>16. TypeOK' /\ LockDiscipline'
  BY <1>1, <1>6, Bounds DEF IInv, TypeOK, LockDiscipline
<1>17. CallsSound'
  <2> SUFFICES ASSUME NEW u \in Threads PROVE InProgress(u)' /\ Knows(u)'
    BY DEF CallsSound
  <2>1. PC(u) \notin Transaction
    BY <1>1, Distinct DEF IInv, LockDiscipline
  <2>2. frame'[u] = frame[u]
    BY <1>1
  <2> QED BY <1>8, <1>13, <2>1, <2>2, OthersKnow, OthersInProgress DEF IInv, CallsSound
<1> QED BY <1>12, <1>14, <1>15, <1>16, <1>17 DEF IInv

LEMMA StutterStep ==
  ASSUME IInv, UNCHANGED vars
  PROVE  IInv'
<1>1. UNCHANGED <<lock, writer, db, work, frame, acked, calls, damage>>
  BY DEF vars
<1>2. TypeOK' /\ LockDiscipline' /\ Pending' = Pending /\ Unfiled' = Unfiled
  BY <1>1 DEF IInv, TypeOK, LockDiscipline, Pending, Unfiled
<1>3. TablesSound' /\ WorkExtends' /\ AckedIsDurable' /\ Extends(db, db')
  BY <1>1, <1>2, TablesUntouched
<1>4. CallsSound'
  BY <1>1, <1>3, OthersKnow, OthersInProgress DEF IInv, CallsSound, TablesSound
<1> QED BY <1>2, <1>3, <1>4 DEF IInv

-----------------------------------------------------------------------------
(* The theorems.                                                           *)

LEMMA InitIInv == Init => IInv
<1> SUFFICES ASSUME Init PROVE IInv
  OBVIOUS
<1> USE DEF Init, EmptyTables
<1>1. TypeOK
  <2>1. db \in Tables /\ work \in Tables
    BY DEF Tables
  <2>2. frame \in [Threads -> Frames]
    BY IdleFrameType
  <2> QED BY <2>1, <2>2, Bounds DEF TypeOK
<1>2. LockDiscipline
  BY Placement, Distinct DEF LockDiscipline, IdleFrame, Outside, Transaction
<1>3. TablesSound
  BY DEF TablesSound, OneToOne, WellFiled, RunsFiled, Pending, Recorded
<1>4. WorkExtends
  BY DEF WorkExtends, Extends
<1>5. CallsSound
  BY DEF CallsSound, InProgress, Knows, IdleFrame, Transaction
<1>6. AckedIsDurable
  BY DEF AckedIsDurable
<1> QED BY <1>1, <1>2, <1>3, <1>4, <1>5, <1>6 DEF IInv

LEMMA ThreadStep ==
  ASSUME IInv, NEW t \in Threads, Step(t)
  PROVE  IInv'
BY AcquireLockStep, BeginImmediateStep, BeginFailsStep, FindNoRecordStep, FindConflictStep,
   FindReplayStep, EnsureSubjectStep, UseRunStep, RefuseRevisionStep, CreateRunStep,
   InsertEventStep, UpsertRunStateStep, InsertRecordStep, StatementFailsStep, CommitOK,
   CommitRaisesLateStep, CommitRaisesEarlyStep, RetryOnceStep, GiveUpStep,
   RecoverConflictStep, RecoverReplayStep, ReadFailsStep, ReconstructResultStep,
   RefuseDamagedStep, ReturnStep
DEF Step

LEMMA NextIInv == IInv /\ [Next]_vars => IInv'
<1> SUFFICES ASSUME IInv, [Next]_vars PROVE IInv'
  OBVIOUS
<1>1. CASE \E t \in Threads : Step(t)
  BY <1>1, ThreadStep
<1>2. CASE \E t \in Threads : \E c \in Calls : Call(t, c)
  BY <1>2, CallStep
<1>3. CASE \E p \in Procs : Crash(p)
  BY <1>3, CrashStep
<1>4. CASE \E e \in DOMAIN db.events, v \in Damages : Damage(e, v)
  BY <1>4, DamageStep
<1>5. CASE Quiet \/ UNCHANGED vars
  BY <1>5, StutterStep DEF Quiet
<1> QED BY <1>1, <1>2, <1>3, <1>4, <1>5 DEF Next

\* The invariant is inductive: it holds initially and every step keeps it.
THEOREM Inductive == Spec => []IInv
BY InitIInv, NextIInv, PTL DEF Spec

\* Every variable keeps its type (EventRepository, all of record_run_event).
THEOREM Typing == Spec => []TypeOK
<1>1. IInv => TypeOK
  BY DEF IInv
<1> QED BY <1>1, Inductive, PTL

\* _record_run_event_locked and the write transaction run inside the process
\* lock, for any number of threads and processes.
THEOREM LockSafe == Spec => []LockDiscipline
<1>1. IInv => LockDiscipline
  BY DEF IInv
<1> QED BY <1>1, Inductive, PTL

\* Events and idempotency keys correspond one to one in the committed tables.
THEOREM OnceOnly == Spec => []ExactlyOnce
<1>1. IInv => ExactlyOnce
  <2> SUFFICES ASSUME IInv PROVE ExactlyOnce
    OBVIOUS
  <2>1. OneToOne(db, {})
    BY DEF IInv, TablesSound
  <2>2. \A k \in Keys : Recorded(db, k) => db.idem[k].ref \in DOMAIN db.events
    BY <2>1 DEF OneToOne
  <2>3. ASSUME NEW e \in DOMAIN db.events
        PROVE  \E k \in Keys : {j \in Keys : Recorded(db, j) /\ db.idem[j].ref = e} = {k}
    <3>1. PICK k \in Keys : Recorded(db, k) /\ db.idem[k].ref = e
      BY <2>1 DEF OneToOne
    <3>2. {j \in Keys : Recorded(db, j) /\ db.idem[j].ref = e} = {k}
      BY <2>1, <3>1 DEF OneToOne
    <3> QED BY <3>2
  <2> QED BY <2>2, <2>3 DEF ExactlyOnce
<1> QED BY <1>1, Inductive, PTL

\* The event of a key is the one its recorded request asked for, under that
\* request's run.
THEOREM RecordsMatch == Spec => []RecordMatchesEvent
<1>1. IInv => RecordMatchesEvent
  BY DEF IInv, TablesSound, WellFiled, RecordMatchesEvent
<1> QED BY <1>1, Inductive, PTL

\* A subject and request id never get two runs, so never two revisions.
THEOREM OneRun == Spec => []OneRunPerRequest
<1>1. IInv => OneRunPerRequest
  BY DEF IInv, TablesSound, WellFiled, OneRunPerRequest
<1> QED BY <1>1, Inductive, PTL

\* What a caller was told stays true across retries and crashes.
THEOREM Durable == Spec => []AckedIsDurable
<1>1. IInv => AckedIsDurable
  BY DEF IInv
<1> QED BY <1>1, Inductive, PTL

\* A refusal, or an error the code treats as rolled back, means that the call
\* committed nothing, and recovery never starts a second transaction for a
\* call whose commit landed.
THEOREM Refusals == Spec => [](RefusedLeavesNothing /\ NoSecondCommit)
<1>1. IInv => RefusedLeavesNothing /\ NoSecondCommit
  <2> SUFFICES ASSUME IInv, NEW t \in Threads
               PROVE  /\ frame[t].said \in {"conflict", "revision", "norecord", "rolledback"}
                           => ~ frame[t].mine
                      /\ frame[t].mine => writer # t
    BY DEF RefusedLeavesNothing, NoSecondCommit
  <2> QED BY DEF IInv, CallsSound, Knows, LockDiscipline, Transaction
<1> QED BY <1>1, Inductive, PTL

-----------------------------------------------------------------------------
(* Fresh answers.                                                          *)

\* A step by which no call comes to own a commit or to say that it did.
Tame ==
  /\ acked' = acked
  /\ \A u \in Threads :
       /\ frame'[u].mine => frame[u].mine /\ frame'[u].call = frame[u].call
       /\ frame'[u].said = "new" => frame[u].said = "new" /\ frame'[u].mine = frame[u].mine

LEMMA TameKeepsFresh == ASSUME FreshInv, Tame PROVE FreshInv'
BY DEF FreshInv, Tame, Key

\* A move that neither commits nor answers that it did is tame.
LEMMA TameMove ==
  ASSUME TypeOK, NEW t \in Threads, NEW f, Move(t, f), acked' = acked,
         f.mine => frame[t].mine /\ f.call = frame[t].call,
         f.said = "new" => frame[t].said = "new" /\ f.mine = frame[t].mine
  PROVE  Tame
BY DEF TypeOK, Move, Tame

\* No caller is answered a replay by the step.
Silent == \A u \in Threads : frame'[u].said = "replay" => frame[u].said = "replay"

LEMMA SilentMove ==
  ASSUME TypeOK, NEW t \in Threads, NEW f, Move(t, f),
         f.said = "replay" => frame[t].said = "replay"
  PROVE  Silent
BY DEF TypeOK, Move, Silent

\* The shapes of such moves, which answer no replay either.
LEMMA TamePC ==
  ASSUME TypeOK, NEW t \in Threads, NEW p, acked' = acked,
         Move(t, [frame[t] EXCEPT !.pc = p])
  PROVE  Tame /\ Silent
<1> DEFINE f == [frame[t] EXCEPT !.pc = p]
<1>1. f.mine = frame[t].mine /\ f.call = frame[t].call /\ f.said = frame[t].said
  BY DEF TypeOK, Frames
<1> HIDE DEF f
<1> QED BY <1>1, TameMove, SilentMove DEF f

LEMMA TameRef ==
  ASSUME TypeOK, NEW t \in Threads, NEW p, NEW n, acked' = acked,
         Move(t, [frame[t] EXCEPT !.pc = p, !.ref = n])
  PROVE  Tame /\ Silent
<1> DEFINE f == [frame[t] EXCEPT !.pc = p, !.ref = n]
<1>1. f.mine = frame[t].mine /\ f.call = frame[t].call /\ f.said = frame[t].said
  BY DEF TypeOK, Frames
<1> HIDE DEF f
<1> QED BY <1>1, TameMove, SilentMove DEF f

LEMMA TameRun ==
  ASSUME TypeOK, NEW t \in Threads, NEW p, NEW n, acked' = acked,
         Move(t, [frame[t] EXCEPT !.pc = p, !.run = n])
  PROVE  Tame /\ Silent
<1> DEFINE f == [frame[t] EXCEPT !.pc = p, !.run = n]
<1>1. f.mine = frame[t].mine /\ f.call = frame[t].call /\ f.said = frame[t].said
  BY DEF TypeOK, Frames
<1> HIDE DEF f
<1> QED BY <1>1, TameMove, SilentMove DEF f

LEMMA TameAnswer ==
  ASSUME TypeOK, NEW t \in Threads, NEW k, k \notin {"new", "replay"}, acked' = acked, Answer(t, k)
  PROVE  Tame /\ Silent
<1> DEFINE f == [frame[t] EXCEPT !.pc = "return", !.said = k]
<1>1. f.mine = frame[t].mine /\ f.call = frame[t].call /\ f.said = k
  BY DEF TypeOK, Frames
<1>2. Move(t, f)
  BY DEF Answer
<1> HIDE DEF f
<1> QED BY <1>1, <1>2, TameMove, SilentMove

LEMMA TameRetry ==
  ASSUME TypeOK, NEW t \in Threads, RetryOnce(t)
  PROVE  Tame /\ Silent
<1> DEFINE f == [frame[t] EXCEPT !.pc = "begin", !.retry = TRUE]
<1>1. f.mine = frame[t].mine /\ f.call = frame[t].call /\ f.said = frame[t].said
  BY DEF TypeOK, Frames
<1>2. Move(t, f) /\ acked' = acked
  BY DEF RetryOnce
<1> HIDE DEF f
<1> QED BY <1>1, <1>2, TameMove, SilentMove

LEMMA TameReconstruct ==
  ASSUME TypeOK, NEW t \in Threads, ReconstructResult(t)
  PROVE  Tame
<1> DEFINE f == [frame[t] EXCEPT !.pc = "return", !.said = "replay",
                                 !.run = db.events[frame[t].ref].run]
<1>1. f.mine = frame[t].mine /\ f.call = frame[t].call /\ f.said = "replay"
  BY DEF TypeOK, Frames
<1>2. Move(t, f) /\ acked' = acked
  BY DEF ReconstructResult
<1> HIDE DEF f
<1> QED BY <1>1, <1>2, TameMove

\* Every step of a call but its commit and its return is tame, and all but
\* the end of a replay answer none.
LEMMA TameStep ==
  ASSUME IInv, NEW t \in Threads, Step(t),
         ~ Commit(t), ~ CommitRaisesLate(t), ~ Return(t)
  PROVE  Tame /\ (Silent \/ ReconstructResult(t))
<1> TypeOK
  BY DEF IInv
<1>1. CASE AcquireLock(t) \/ BeginImmediate(t) \/ FindNoRecord(t) \/ EnsureSubject(t)
             \/ UpsertRunState(t) \/ InsertRecord(t) \/ CommitRaisesEarly(t)
  BY <1>1, TamePC DEF AcquireLock, BeginImmediate, FindNoRecord, EnsureSubject,
     UpsertRunState, InsertRecord, CommitRaisesEarly
<1>2. CASE BeginFails(t) \/ FindConflict(t) \/ RefuseRevision(t) \/ StatementFails(t)
             \/ GiveUp(t) \/ RecoverConflict(t) \/ ReadFails(t) \/ RefuseDamaged(t)
  BY <1>2, TameAnswer DEF BeginFails, FindConflict, RefuseRevision, StatementFails, GiveUp,
     RecoverConflict, ReadFails, RefuseDamaged
<1>3. CASE FindReplay(t) \/ RecoverReplay(t) \/ InsertEvent(t)
  BY <1>3, TameRef DEF FindReplay, RecoverReplay, InsertEvent
<1>4. CASE UseRun(t) \/ CreateRun(t)
  BY <1>4, TameRun DEF UseRun, CreateRun
<1> QED BY <1>1, <1>2, <1>3, <1>4, TameRetry, TameReconstruct DEF Step

\* A commit makes its call the owner of a key that was free.
LEMMA CommitKeepsFresh ==
  ASSUME IInv, FreshInv, NEW t \in Threads, Commit(t) \/ CommitRaisesLate(t)
  PROVE  FreshInv'
<1>1. TypeOK /\ frame[t] \in Frames /\ PC(t) = "commit" /\ acked' = acked
  BY DEF IInv, TypeOK, Commit, CommitRaisesLate
<1>2. /\ \A u \in Threads \ {t} : frame'[u] = frame[u]
      /\ frame'[t].call = frame[t].call /\ frame'[t].mine = TRUE
  <2> DEFINE f == [frame[t] EXCEPT !.pc = "return", !.said = "new", !.mine = TRUE]
             g == [frame[t] EXCEPT !.pc = "recover", !.mine = TRUE]
  <2>1. f.call = frame[t].call /\ f.mine = TRUE /\ g.call = frame[t].call /\ g.mine = TRUE
    BY <1>1 DEF Frames
  <2>2. Move(t, f) \/ Move(t, g)
    BY DEF Commit, CommitRaisesLate
  <2> HIDE DEF f, g
  <2> QED BY <1>1, <2>1, <2>2 DEF Move, TypeOK
<1>3. ~ Recorded(db, Key(t)) /\ Key(t) \in Keys
  BY <1>1, MyFrame DEF InProgress, Transaction
<1>4. \A a \in acked : Recorded(db, a.key)
  BY <1>1, RecordTypes DEF IInv, AckedIsDurable, TypeOK, Results, Recorded
<1>5. \A u \in Threads : frame[u].mine => Recorded(db, Key(u))
  BY DEF IInv, CallsSound, Knows
<1> QED BY <1>1, <1>2, <1>3, <1>4, <1>5 DEF FreshInv, Key

\* A fresh result is told by the owner of its key, who is gone with it.
LEMMA ReturnKeepsFresh ==
  ASSUME IInv, FreshInv, NEW t \in Threads, Return(t)
  PROVE  FreshInv'
<1>1. /\ \A u \in Threads \ {t} : frame'[u] = frame[u]
      /\ frame'[t] = IdleFrame
  BY IdleFrameType DEF IInv, TypeOK, Return, Move
<1>2. acked' = acked \/ acked' = acked \cup {Result(t)}
  BY DEF Return
<1>3. Result(t).key = Key(t) /\ Result(t).fresh = (frame[t].said = "new")
  BY DEF Result
<1>4. ~ IdleFrame.mine /\ IdleFrame.said # "new"
  BY DEF IdleFrame
<1>5. ASSUME NEW u \in Threads \ {t}, frame[u].mine, NEW a \in acked', a.fresh
      PROVE  a.key # Key(u)
  <2>1. CASE a \in acked
    BY <1>5, <2>1 DEF FreshInv
  <2>2. CASE a = Result(t)
    <3>1. frame[t].said = "new"
      BY <1>3, <1>5, <2>2
    <3> QED BY <1>3, <1>5, <2>2, <3>1 DEF FreshInv
  <2> QED BY <1>2, <2>1, <2>2
<1> QED BY <1>1, <1>4, <1>5 DEF FreshInv, Key

\* Every step keeps the owners apart.
LEMMA NextFresh == IInv /\ FreshInv /\ [Next]_vars => FreshInv'
<1> SUFFICES ASSUME IInv, FreshInv, [Next]_vars PROVE FreshInv'
  OBVIOUS
<1> TypeOK
  BY DEF IInv
<1>1. ASSUME NEW t \in Threads, Step(t) PROVE FreshInv'
  BY <1>1, TameStep, TameKeepsFresh, CommitKeepsFresh, ReturnKeepsFresh
<1>2. ASSUME NEW t \in Threads, NEW c \in Calls, Call(t, c) PROVE FreshInv'
  <2> DEFINE f == [IdleFrame EXCEPT !.pc = "lock", !.call = c]
  <2>1. f \in Frames /\ f.mine = FALSE /\ f.said = "none"
    BY IdleFrameType DEF IdleFrame, Frames, Labels, Outside
  <2>2. Move(t, f) /\ acked' = acked
    BY <1>2 DEF Call
  <2> HIDE DEF f
  <2> QED BY <2>1, <2>2, TameMove, TameKeepsFresh
<1>3. ASSUME NEW p \in Procs, Crash(p) PROVE FreshInv'
  <2>1. acked' = acked
        /\ \A u \in Threads : frame'[u] \in {frame[u], IdleFrame}
    BY <1>3 DEF Crash
  <2>2. ~ IdleFrame.mine /\ IdleFrame.said # "new"
    BY DEF IdleFrame
  <2>3. Tame
    BY <2>1, <2>2 DEF Tame
  <2> QED BY <2>3, TameKeepsFresh
<1>4. ASSUME UNCHANGED <<frame, acked>> PROVE FreshInv'
  BY <1>4 DEF FreshInv, Key
<1> QED BY <1>1, <1>2, <1>3, <1>4 DEF Next, Damage, Quiet, vars

\* idempotent_replay = False is told of a key once at most, however many
\* callers, processes, retries and crashes there are.
THEOREM FreshOnce == Spec => []OneFreshAnswer
<1>1. Init => FreshInv
  <2>1. ~ IdleFrame.mine /\ IdleFrame.said # "new"
    BY DEF IdleFrame
  <2> QED BY <2>1 DEF Init, FreshInv
<1>2. FreshInv => OneFreshAnswer
  BY DEF FreshInv, OneFreshAnswer
<1> QED BY <1>1, <1>2, NextFresh, Inductive, PTL DEF Spec

-----------------------------------------------------------------------------
(* Rows of one transaction.                                                *)

\* RowsInv after a step, from what is due then.
LEMMA RowsAfter ==
  ASSUME NEW s, SubjectDue' = s, NEW u, Unstated' = u, NEW q, Unfiled' = q,
         NEW b, Behind' = b,
         RowsWhole(db', {}, {}, {}), UpToDate(db', {}),
         RowsWhole(work', s, u, q), UpToDate(work', b)
  PROVE  RowsInv'
<1>1. RowsWhole(db, {}, {}, {})' /\ UpToDate(db, {})'
  OBVIOUS
<1>2. RowsWhole(work, SubjectDue, Unstated, Unfiled)' /\ UpToDate(work, Behind)'
  OBVIOUS
<1> QED BY <1>1, <1>2 DEF RowsInv

\* Nothing is due when nobody writes.
LEMMA NothingDue ==
  ASSUME writer' = Null
  PROVE  SubjectDue' = {} /\ Unstated' = {} /\ Unfiled' = {} /\ Behind' = {}
BY DEF SubjectDue, Unstated, Unfiled, Behind

\* What is due of a call at place p of its transaction.
LEMMA DueNow ==
  ASSUME IInv, RowsInv, NEW t \in Threads, PC(t) \in Transaction
  PROVE  /\ RowsWhole(work, IF PC(t) = "run" THEN {frame[t].call.subject} ELSE {},
                      IF PC(t) \in {"event", "state"} THEN {frame[t].run} ELSE {},
                      IF PC(t) = "event" THEN {frame[t].run} ELSE {})
         /\ UpToDate(work, IF PC(t) = "state" THEN {frame[t].run} ELSE {})
         /\ RowsWhole(db, {}, {}, {}) /\ UpToDate(db, {})
<1>1. writer = t /\ t # Null
  BY InTransaction, Distinct
<1>2. /\ SubjectDue = IF PC(t) = "run" THEN {frame[t].call.subject} ELSE {}
      /\ Unstated = IF PC(t) \in {"event", "state"} THEN {frame[t].run} ELSE {}
      /\ Unfiled = IF PC(t) = "event" THEN {frame[t].run} ELSE {}
      /\ Behind = IF PC(t) = "state" THEN {frame[t].run} ELSE {}
  BY <1>1 DEF SubjectDue, Unstated, Unfiled, Behind
<1> QED BY <1>2 DEF RowsInv

\* Tables that are whole for a call at place p, with subject x and run n.
WholeAt(T, p, x, n) ==
  /\ RowsWhole(T, IF p = "run" THEN {x} ELSE {},
               IF p \in {"event", "state"} THEN {n} ELSE {},
               IF p = "event" THEN {n} ELSE {})
  /\ UpToDate(T, IF p = "state" THEN {n} ELSE {})

\* A statement of the transaction that leaves call t at place p with run n.
LEMMA DueNext ==
  ASSUME IInv, RowsInv, NEW t \in Threads, PC(t) \in Transaction,
         NEW p, NEW n, NEW e, NEW s, NEW m, Effect(t, p, frame[t].call, n, e, s, m),
         UNCHANGED <<writer, db>>, WholeAt(work', p, frame[t].call.subject, n)
  PROVE  RowsInv'
<1>1. writer' = t /\ t # Null
  BY InTransaction, Distinct
<1>2. frame'[t].pc = p /\ frame'[t].call = frame[t].call /\ frame'[t].run = n
  BY DEF Effect
<1>3. /\ SubjectDue' = IF p = "run" THEN {frame[t].call.subject} ELSE {}
      /\ Unstated' = IF p \in {"event", "state"} THEN {n} ELSE {}
      /\ Unfiled' = IF p = "event" THEN {n} ELSE {}
      /\ Behind' = IF p = "state" THEN {n} ELSE {}
  BY <1>1, <1>2 DEF SubjectDue, Unstated, Unfiled, Behind
<1>4. RowsWhole(db', {}, {}, {}) /\ UpToDate(db', {})
  BY DEF RowsInv
<1> QED BY <1>3, <1>4, RowsAfter DEF WholeAt

\* A step of a call that is not in its transaction.
LEMMA RowsOutside ==
  ASSUME IInv, RowsInv, NEW t \in Threads, PC(t) \notin Transaction,
         \A u \in Threads \ {t} : frame'[u] = frame[u], UNCHANGED <<writer, db, work>>
  PROVE  RowsInv'
<1>1. writer = Null \/ (writer \in Threads \ {t} /\ frame'[writer] = frame[writer])
  BY DEF IInv, LockDiscipline, TypeOK
<1>2. /\ SubjectDue' = SubjectDue /\ Unstated' = Unstated /\ Unfiled' = Unfiled
      /\ Behind' = Behind
  BY <1>1 DEF SubjectDue, Unstated, Unfiled, Behind
<1> QED BY <1>2 DEF RowsInv

\* A transaction given up leaves the committed tables.
LEMMA RowsRollback ==
  ASSUME RowsInv, Rollback, db' = db
  PROVE  RowsInv'
BY NothingDue, RowsAfter DEF Rollback, RowsInv

\* The rows are judged by these four tables only.
LEMMA SameWhole ==
  ASSUME NEW T, NEW U, U.subjects = T.subjects, U.runs = T.runs, U.state = T.state,
         U.events = T.events, NEW s, NEW u, NEW q, NEW b
  PROVE  /\ RowsWhole(T, s, u, q) => RowsWhole(U, s, u, q)
         /\ UpToDate(T, b) => UpToDate(U, b)
BY DEF RowsWhole, UpToDate

LEMMA RowsBegin ==
  ASSUME IInv, RowsInv, NEW t \in Threads, BeginImmediate(t)
  PROVE  RowsInv'
<1>1. Effect(t, "check", frame[t].call, frame[t].run, frame[t].ref, frame[t].said,
             frame[t].mine)
  BY MovePC DEF IInv, BeginImmediate, Labels, Transaction
<1>2. writer = Null /\ writer' = t /\ UNCHANGED <<db, work>> /\ work = db
  BY DEF BeginImmediate, IInv, WorkExtends
<1>3. SubjectDue' = {} /\ Unstated' = {} /\ Unfiled' = {} /\ Behind' = {}
  BY <1>1, <1>2 DEF Effect, SubjectDue, Unstated, Unfiled, Behind
<1> QED BY <1>2, <1>3, RowsAfter DEF RowsInv

LEMMA RowsFindNoRecord ==
  ASSUME IInv, RowsInv, NEW t \in Threads, FindNoRecord(t)
  PROVE  RowsInv'
<1>1. Effect(t, "subject", frame[t].call, frame[t].run, frame[t].ref, frame[t].said,
             frame[t].mine)
  BY MovePC DEF IInv, FindNoRecord, Labels, Transaction
<1>2. PC(t) = "check" /\ UNCHANGED <<writer, db, work>>
  BY DEF FindNoRecord
<1>3. RowsWhole(work', {}, {}, {}) /\ UpToDate(work', {})
  BY <1>2, DueNow DEF Transaction
<1>4. WholeAt(work', "subject", frame[t].call.subject, frame[t].run)
  BY <1>3 DEF WholeAt
<1> QED BY <1>1, <1>2, <1>4, DueNext DEF Transaction

\* The subject of the call is there before its run.
LEMMA RowsEnsureSubject ==
  ASSUME IInv, RowsInv, NEW t \in Threads, EnsureSubject(t)
  PROVE  RowsInv'
<1>1. Effect(t, "run", frame[t].call, frame[t].run, frame[t].ref, frame[t].said,
             frame[t].mine)
  BY MovePC DEF IInv, EnsureSubject, Labels, Transaction
<1>2. PC(t) = "subject" /\ work \in Tables /\ UNCHANGED <<writer, db>>
      /\ work' = [work EXCEPT !.subjects = @ \cup {frame[t].call.subject}]
  BY DEF EnsureSubject, IInv, TypeOK
<1>3. /\ work'.subjects = work.subjects \cup {frame[t].call.subject}
      /\ work'.runs = work.runs /\ work'.state = work.state /\ work'.events = work.events
  BY <1>2 DEF Tables
<1>4. RowsWhole(work, {}, {}, {}) /\ UpToDate(work, {})
  BY <1>2, DueNow DEF Transaction
<1>5. RowsWhole(work', {frame[t].call.subject}, {}, {})
  <2>1. work.subjects = {work.runs[r].subject : r \in DOMAIN work.runs}
    BY <1>4 DEF RowsWhole
  <2> QED BY <1>3, <1>4, <2>1 DEF RowsWhole
<1>6. UpToDate(work', {})
  BY <1>3, <1>4 DEF UpToDate
<1>7. WholeAt(work', "run", frame[t].call.subject, frame[t].run)
  BY <1>5, <1>6 DEF WholeAt
<1> QED BY <1>1, <1>2, <1>7, DueNext DEF Transaction

\* An existing run has its subject.
LEMMA RowsUseRun ==
  ASSUME IInv, RowsInv, NEW t \in Threads, UseRun(t)
  PROVE  RowsInv'
<1>1. PICK r \in RunsFor(work, frame[t].call) :
        Move(t, [frame[t] EXCEPT !.pc = "event", !.run = r])
  BY DEF UseRun
<1>2. /\ PC(t) = "run" /\ UNCHANGED <<writer, db, work>>
      /\ r \in DOMAIN work.runs /\ work.runs[r].subject = frame[t].call.subject
  BY <1>1 DEF UseRun, RunsFor
<1>3. r \in Nat
  BY <1>2 DEF IInv, TypeOK, Tables
<1>4. Effect(t, "event", frame[t].call, r, frame[t].ref, frame[t].said, frame[t].mine)
  BY <1>1, <1>3, MoveRun DEF IInv, Labels, Transaction
<1>5. RowsWhole(work, {frame[t].call.subject}, {}, {}) /\ UpToDate(work, {})
  BY <1>2, DueNow DEF Transaction
<1>6. RowsWhole(work', {}, {r}, {r}) /\ UpToDate(work', {})
  BY <1>2, <1>5 DEF RowsWhole
<1>7. WholeAt(work', "event", frame[t].call.subject, r)
  BY <1>6 DEF WholeAt
<1> QED BY <1>2, <1>4, <1>7, DueNext DEF Transaction

\* A new run is due a state row and an event.
LEMMA RowsCreateRun ==
  ASSUME IInv, RowsInv, NEW t \in Threads, CreateRun(t)
  PROVE  RowsInv'
<1> DEFINE c == frame[t].call
           row == [subject |-> c.subject, request |-> c.request, revision |-> c.revision]
           n == Len(work.runs) + 1
<1>1. PC(t) = "run" /\ work \in Tables /\ c \in Calls
  BY MyFrame DEF CreateRun, IInv, TypeOK
<1>2. work.runs \in Seq(Runs) /\ row \in Runs /\ row.subject = c.subject
  BY <1>1 DEF Tables, Runs, Calls
<1>3. /\ work' = [work EXCEPT !.runs = Append(work.runs, row)]
      /\ Move(t, [frame[t] EXCEPT !.pc = "event", !.run = n])
      /\ UNCHANGED <<writer, db>>
  BY DEF CreateRun
<1> HIDE DEF c, row
<1>4. /\ n \in Nat
      /\ DOMAIN Append(work.runs, row) = DOMAIN work.runs \cup {n}
      /\ Append(work.runs, row)[n] = row
      /\ \A r \in DOMAIN work.runs : Append(work.runs, row)[r] = work.runs[r]
  BY <1>2, Appended
<1>5. /\ work'.subjects = work.subjects /\ work'.state = work.state
      /\ work'.events = work.events /\ work'.runs = Append(work.runs, row)
  BY <1>1, <1>3 DEF Tables
<1>6. Effect(t, "event", frame[t].call, n, frame[t].ref, frame[t].said, frame[t].mine)
  BY <1>3, <1>4, MoveRun DEF IInv, Labels, Transaction
<1> HIDE DEF n
<1>7. RowsWhole(work, {c.subject}, {}, {}) /\ UpToDate(work, {})
  BY <1>1, DueNow DEF Transaction, c
<1>8. {work'.runs[r].subject : r \in DOMAIN work'.runs}
        = {work.runs[r].subject : r \in DOMAIN work.runs} \cup {c.subject}
  BY <1>2, <1>4, <1>5
<1>9. RowsWhole(work', {}, {n}, {n})
  <2>1. work'.subjects = {work'.runs[r].subject : r \in DOMAIN work'.runs} \cup {}
    BY <1>5, <1>7, <1>8 DEF RowsWhole
  <2>2. /\ DOMAIN work'.runs = {x.run : x \in work'.state} \cup {n}
        /\ DOMAIN work'.runs = {work'.events[e].run : e \in DOMAIN work'.events} \cup {n}
    BY <1>4, <1>5, <1>7 DEF RowsWhole
  <2> QED BY <2>1, <2>2 DEF RowsWhole
<1>10. UpToDate(work', {})
  BY <1>5, <1>7 DEF UpToDate
<1>11. WholeAt(work', "event", frame[t].call.subject, n)
  BY <1>9, <1>10 DEF WholeAt
<1> QED BY <1>1, <1>3, <1>6, <1>11, DueNext DEF Transaction

\* The event is its run's latest; the state row still shows an earlier one.
LEMMA RowsInsertEvent ==
  ASSUME IInv, RowsInv, NEW t \in Threads, InsertEvent(t)
  PROVE  RowsInv'
<1> DEFINE b == frame[t].call.body
           r == frame[t].run
           row == [run |-> r, payload |-> b, hash |-> PayloadDigest(b)]
           n == Len(work.events) + 1
<1>1. PC(t) = "event" /\ work \in Tables /\ b \in Bodies /\ r \in Nat
  BY MyFrame DEF InsertEvent, IInv, TypeOK, Calls
<1>2. work.events \in Seq(Events) /\ row \in Events /\ row.run = r
  BY <1>1 DEF Tables, Events, Payloads
<1>3. /\ work' = [work EXCEPT !.events = Append(work.events, row)]
      /\ Move(t, [frame[t] EXCEPT !.pc = "state", !.ref = n])
      /\ UNCHANGED <<writer, db>>
  BY DEF InsertEvent
<1> HIDE DEF b, row
<1>4. /\ n \in Nat
      /\ DOMAIN Append(work.events, row) = DOMAIN work.events \cup {n}
      /\ Append(work.events, row)[n] = row
      /\ \A e \in DOMAIN work.events : Append(work.events, row)[e] = work.events[e]
  BY <1>2, Appended
<1>5. /\ work'.subjects = work.subjects /\ work'.state = work.state
      /\ work'.runs = work.runs /\ work'.events = Append(work.events, row)
  BY <1>1, <1>3 DEF Tables
<1>6. Effect(t, "state", frame[t].call, r, n, frame[t].said, frame[t].mine)
  BY <1>3, <1>4, MoveRef DEF IInv, Labels, Transaction
<1> HIDE DEF n
<1>7. RowsWhole(work, {}, {r}, {r}) /\ UpToDate(work, {})
  BY <1>1, DueNow DEF Transaction
<1> HIDE DEF r
<1>8. {work'.events[e].run : e \in DOMAIN work'.events}
        = {work.events[e].run : e \in DOMAIN work.events} \cup {r}
  BY <1>2, <1>4, <1>5
<1>9. RowsWhole(work', {}, {r}, {})
  BY <1>5, <1>7, <1>8 DEF RowsWhole
<1>10. UpToDate(work', {r})
  BY <1>2, <1>4, <1>5, <1>7 DEF UpToDate
<1>11. WholeAt(work', "state", frame[t].call.subject, r)
  BY <1>9, <1>10 DEF WholeAt
<1> QED BY <1>1, <1>3, <1>6, <1>11, DueNext DEF Transaction, r

\* The state row of the run becomes that of its latest event.
LEMMA RowsUpsert ==
  ASSUME IInv, RowsInv, NEW t \in Threads, UpsertRunState(t)
  PROVE  RowsInv'
<1> DEFINE b == frame[t].call.body
           r == frame[t].run
           n == frame[t].ref
<1>1. Effect(t, "record", frame[t].call, frame[t].run, frame[t].ref, frame[t].said,
             frame[t].mine)
  BY MovePC DEF IInv, UpsertRunState, Labels, Transaction
<1>2. /\ PC(t) = "state" /\ work \in Tables /\ UNCHANGED <<writer, db>>
      /\ work' = [work EXCEPT !.state = Upsert(@, r, b)]
  BY DEF UpsertRunState, IInv, TypeOK
<1>3. /\ work'.subjects = work.subjects /\ work'.runs = work.runs
      /\ work'.events = work.events
      /\ work'.state = {row \in work.state : row.run # r} \cup {[run |-> r, body |-> b]}
  BY <1>2 DEF Tables, Upsert
<1>4. /\ n \in DOMAIN work.events /\ work.events[n].run = r
      /\ work.events[n].hash = PayloadDigest(b)
      /\ n = Len(work.events)
  BY <1>2, MyFrame DEF InProgress
<1>5. \A f \in DOMAIN work.events : f <= n
  BY <1>2, <1>4 DEF Tables
<1>6. RowsWhole(work, {}, {r}, {}) /\ UpToDate(work, {r})
  BY <1>2, DueNow DEF Transaction
<1> HIDE DEF r, b, n
<1>7. {row.run : row \in work'.state} = {row.run : row \in work.state} \cup {r}
  <2>1. [run |-> r, body |-> b].run = r
    OBVIOUS
  <2>2. \A row \in work'.state : row.run = r \/ row \in work.state
    BY <1>3, <2>1
  <2>3. \A row \in work.state : row.run = r \/ row \in work'.state
    BY <1>3
  <2>4. [run |-> r, body |-> b] \in work'.state
    BY <1>3
  <2> QED BY <2>1, <2>2, <2>3, <2>4
<1>8. RowsWhole(work', {}, {}, {})
  BY <1>3, <1>6, <1>7 DEF RowsWhole
<1>9. UpToDate(work', {})
  BY <1>3, <1>4, <1>5, <1>6 DEF UpToDate
<1>10. WholeAt(work', "record", frame[t].call.subject, frame[t].run)
  BY <1>8, <1>9 DEF WholeAt
<1> QED BY <1>1, <1>2, <1>10, DueNext DEF Transaction

\* The idempotency record is no part of the rows.
LEMMA RowsInsertRecord ==
  ASSUME IInv, RowsInv, NEW t \in Threads, InsertRecord(t)
  PROVE  RowsInv'
<1>1. Effect(t, "commit", frame[t].call, frame[t].run, frame[t].ref, frame[t].said,
             frame[t].mine)
  BY MovePC DEF IInv, InsertRecord, Labels, Transaction
<1>2. /\ PC(t) = "record" /\ work \in Tables /\ UNCHANGED <<writer, db>>
      /\ work' = [work EXCEPT !.idem[Key(t)] = [digest |-> Digest(t), ref |-> frame[t].ref]]
  BY DEF InsertRecord, IInv, TypeOK
<1>3. /\ work'.subjects = work.subjects /\ work'.runs = work.runs
      /\ work'.events = work.events /\ work'.state = work.state
  BY <1>2 DEF Tables
<1>4. RowsWhole(work, {}, {}, {}) /\ UpToDate(work, {})
  BY <1>2, DueNow DEF Transaction
<1>5. RowsWhole(work', {}, {}, {}) /\ UpToDate(work', {})
  BY <1>3, <1>4, SameWhole
<1>6. WholeAt(work', "commit", frame[t].call.subject, frame[t].run)
  BY <1>5 DEF WholeAt
<1> QED BY <1>1, <1>2, <1>6, DueNext DEF Transaction

\* A commit publishes tables to which nothing is due.
LEMMA RowsCommit ==
  ASSUME IInv, RowsInv, NEW t \in Threads, Commit(t) \/ CommitRaisesLate(t)
  PROVE  RowsInv'
<1>1. PC(t) = "commit" /\ db' = work /\ work' = work /\ writer' = Null
  BY DEF Commit, CommitRaisesLate
<1>2. RowsWhole(work, {}, {}, {}) /\ UpToDate(work, {})
  BY <1>1, DueNow DEF Transaction
<1> QED BY <1>1, <1>2, NothingDue, RowsAfter

\* Damage alters payloads only.
LEMMA RowsDamage ==
  ASSUME IInv, RowsInv, NEW e \in DOMAIN db.events, NEW v \in Damages, Damage(e, v)
  PROVE  RowsInv'
<1>1. /\ db' = [db EXCEPT !.events[e].payload = v] /\ work' = db' /\ writer' = Null
      /\ db \in Tables
  BY DEF Damage, IInv, TypeOK
<1>2. /\ db'.subjects = db.subjects /\ db'.runs = db.runs /\ db'.state = db.state
      /\ db'.events = [db.events EXCEPT ![e].payload = v]
  BY <1>1 DEF Tables
<1>3. \A f \in DOMAIN db.events : db.events[f] \in Events
  BY <1>1, Element DEF Tables
<1>4. /\ DOMAIN db'.events = DOMAIN db.events
      /\ \A f \in DOMAIN db.events : /\ db'.events[f].run = db.events[f].run
                                     /\ db'.events[f].hash = db.events[f].hash
  BY <1>2, <1>3 DEF Events
<1>5. {db'.events[f].run : f \in DOMAIN db'.events} = {db.events[f].run : f \in DOMAIN db.events}
  BY <1>4
<1>6. RowsWhole(db', {}, {}, {})
  BY <1>2, <1>5 DEF RowsInv, RowsWhole
<1>7. UpToDate(db', {})
  BY <1>2, <1>4 DEF RowsInv, UpToDate
<1> QED BY <1>1, <1>6, <1>7, NothingDue, RowsAfter

\* The death of a process gives up its transaction, if it has one.
LEMMA RowsCrash ==
  ASSUME IInv, RowsInv, NEW p \in Procs, Crash(p)
  PROVE  RowsInv'
<1>1. CASE writer # Null /\ ProcOf[writer] = p
  BY <1>1, RowsRollback DEF Crash
<1>2. CASE ~ (writer # Null /\ ProcOf[writer] = p)
  <2>1. UNCHANGED <<writer, work, db>>
    BY <1>2 DEF Crash
  <2>2. writer # Null => frame'[writer] = frame[writer]
    BY <1>2 DEF Crash, IInv, TypeOK
  <2>3. /\ SubjectDue' = SubjectDue /\ Unstated' = Unstated /\ Unfiled' = Unfiled
        /\ Behind' = Behind
    BY <2>1, <2>2 DEF SubjectDue, Unstated, Unfiled, Behind
  <2> QED BY <2>1, <2>3 DEF RowsInv
<1> QED BY <1>1, <1>2

\* Every step keeps the rows together.
LEMMA NextRows == IInv /\ RowsInv /\ [Next]_vars => RowsInv'
<1> SUFFICES ASSUME IInv, RowsInv, [Next]_vars PROVE RowsInv'
  OBVIOUS
<1> TypeOK
  BY DEF IInv
<1>1. ASSUME NEW t \in Threads, Step(t) PROVE RowsInv'
  <2>1. CASE FindConflict(t) \/ FindReplay(t) \/ RefuseRevision(t) \/ StatementFails(t)
               \/ CommitRaisesEarly(t)
    BY <2>1, RowsRollback DEF FindConflict, FindReplay, RefuseRevision, StatementFails,
       CommitRaisesEarly
  <2>2. CASE AcquireLock(t) \/ BeginFails(t) \/ RetryOnce(t) \/ GiveUp(t)
               \/ RecoverConflict(t) \/ RecoverReplay(t) \/ ReadFails(t)
               \/ ReconstructResult(t) \/ RefuseDamaged(t) \/ Return(t)
    <3>1. PC(t) \notin Transaction /\ UNCHANGED <<writer, db, work>>
      BY <2>2 DEF AcquireLock, BeginFails, RetryOnce, GiveUp, RecoverConflict,
         RecoverReplay, ReadFails, ReconstructResult, RefuseDamaged, Return, Transaction
    <3>2. \E f : frame' = [frame EXCEPT ![t] = f]
      BY <2>2 DEF AcquireLock, BeginFails, RetryOnce, GiveUp, RecoverConflict,
         RecoverReplay, ReadFails, ReconstructResult, RefuseDamaged, Return, Answer, Move
    <3>3. \A u \in Threads \ {t} : frame'[u] = frame[u]
      BY <3>2 DEF TypeOK
    <3> QED BY <3>1, <3>3, RowsOutside
  <2> QED BY <1>1, <2>1, <2>2, RowsBegin, RowsFindNoRecord, RowsEnsureSubject, RowsUseRun,
             RowsCreateRun, RowsInsertEvent, RowsUpsert, RowsInsertRecord, RowsCommit
          DEF Step
<1>2. ASSUME NEW t \in Threads, NEW c \in Calls, Call(t, c) PROVE RowsInv'
  <2>1. PC(t) \notin Transaction /\ UNCHANGED <<writer, db, work>>
        /\ \A u \in Threads \ {t} : frame'[u] = frame[u]
    BY <1>2 DEF Call, Move, Transaction, TypeOK
  <2> QED BY <2>1, RowsOutside
<1>3. CASE UNCHANGED vars
  BY <1>3 DEF vars, RowsInv, SubjectDue, Unstated, Unfiled, Behind
<1> QED BY <1>1, <1>2, <1>3, RowsCrash, RowsDamage DEF Next, Quiet

\* The rows of a transaction are committed together, in every behaviour.
THEOREM RowsInductive == Spec => []RowsInv
<1>1. Init => RowsInv
  BY DEF Init, EmptyTables, RowsInv, RowsWhole, UpToDate, SubjectDue, Unstated, Unfiled, Behind
<1> QED BY <1>1, NextRows, Inductive, PTL DEF Spec

\* No part of a transaction is ever visible in the committed tables.
THEOREM WholeRows == Spec => []NoPartialRows
<1>1. RowsInv => NoPartialRows
  BY DEF RowsInv, RowsWhole, NoPartialRows
<1> QED BY <1>1, RowsInductive, PTL

\* run_state shows the latest event of its run.
THEOREM Latest == Spec => []StateIsLatestEvent
<1>1. RowsInv => StateIsLatestEvent
  BY DEF RowsInv, UpToDate, StateIsLatestEvent
<1> QED BY <1>1, RowsInductive, PTL

-----------------------------------------------------------------------------
(* Damaged rows.                                                           *)

\* Only the last step of a recovery or of a replay answers one.
LEMMA SilentStep ==
  ASSUME IInv, NEW t \in Threads, Step(t), ~ ReconstructResult(t)
  PROVE  Silent
<1>1. TypeOK /\ frame[t] \in Frames
  BY DEF IInv, TypeOK
<1>2. CASE Commit(t)
  <2> DEFINE f == [frame[t] EXCEPT !.pc = "return", !.said = "new", !.mine = TRUE]
  <2>1. f.said = "new" /\ Move(t, f)
    BY <1>1, <1>2 DEF Frames, Commit
  <2> HIDE DEF f
  <2> QED BY <1>1, <2>1, SilentMove
<1>3. CASE CommitRaisesLate(t)
  <2> DEFINE f == [frame[t] EXCEPT !.pc = "recover", !.mine = TRUE]
  <2>1. f.said = frame[t].said /\ Move(t, f)
    BY <1>1, <1>3 DEF Frames, CommitRaisesLate
  <2> HIDE DEF f
  <2> QED BY <1>1, <2>1, SilentMove
<1>4. CASE Return(t)
  <2>1. Move(t, IdleFrame) /\ IdleFrame.said # "replay"
    BY <1>4 DEF Return, IdleFrame
  <2> QED BY <1>1, <2>1, SilentMove
<1> QED BY <1>2, <1>3, <1>4, TameStep

\* The row a replay is served from is there, and has the payload that was asked
\* for unless payload and payload_hash were altered together.
LEMMA ReplayIntact ==
  ASSUME IInv, NEW t \in Threads, ReconstructResult(t)
  PROVE  /\ frame'[t].ref = frame[t].ref
         /\ \A u \in Threads \ {t} : frame'[u] = frame[u]
         /\ frame[t].ref \in DOMAIN db.events
         /\ db.events[frame[t].ref].payload \in {frame[t].call.body, Forged}
<1>1. /\ frame[t] \in Frames /\ frame \in [Threads -> Frames]
      /\ frame[t].pc = "reconstruct" /\ Stored(t) /\ Intact(db, frame[t].ref)
  BY DEF IInv, TypeOK, CallsSound, Knows, ReconstructResult
<1>2. frame[t].call \in Calls
  BY <1>1 DEF IInv, CallsSound, Knows
<1>3. Key(t) \in Keys /\ Recorded(db, Key(t)) /\ Matches(db, Key(t))
  <2>1. Key(t) \in Keys
    BY <1>2 DEF Key, Calls
  <2>2. Recorded(db, Key(t))
    BY <1>1, StoredRow DEF IInv, CallsSound
  <2> QED BY <2>1, <2>2 DEF IInv, TablesSound, WellFiled
<1>4. db.events[frame[t].ref].hash = PayloadDigest(frame[t].call.body)
  BY <1>1, <1>3 DEF Stored, Matches, Digest, RequestDigest
<1>5. db.events[frame[t].ref].payload \in {frame[t].call.body, Forged}
  <2> SUFFICES ASSUME db.events[frame[t].ref].payload # Forged
               PROVE  db.events[frame[t].ref].payload = frame[t].call.body
    OBVIOUS
  <2>1. PayloadDigest(db.events[frame[t].ref].payload) = db.events[frame[t].ref].hash
    BY <1>1 DEF Intact, StoredHash
  <2> QED BY <1>4, <2>1 DEF PayloadDigest
<1> DEFINE f == [frame[t] EXCEPT !.pc = "return", !.said = "replay",
                                 !.run = db.events[frame[t].ref].run]
<1>6. f.ref = frame[t].ref /\ Move(t, f)
  BY <1>1 DEF Frames, ReconstructResult
<1> HIDE DEF f
<1>7. frame'[t] = f /\ \A u \in Threads \ {t} : frame'[u] = frame[u]
  BY <1>1, <1>6 DEF Move
<1>8. frame[t].ref \in DOMAIN db.events
  BY <1>1 DEF Intact
<1> QED BY <1>5, <1>6, <1>7, <1>8

\* Whatever fails, races or crashes, and whichever event rows are deleted or
\* have their payload or payload_hash altered meanwhile, no replay is served
\* from a row that is gone, or from one with another payload than its caller
\* asked to record and the hash of that request.  An alteration of both columns
\* together is the one that passes; one of audit_run_id is outside the model.
THEOREM ReplayVerified == Spec => PayloadVerified
<1> DEFINE Served ==
      \A t \in Threads :
        frame[t].said # "replay" /\ frame'[t].said = "replay" =>
          /\ frame'[t].ref \in DOMAIN db.events
          /\ db.events[frame'[t].ref].payload \in {frame[t].call.body, Forged}
<1>1. IInv /\ [Next]_vars => [Served]_vars
  <2> SUFFICES ASSUME IInv, [Next]_vars PROVE Served
    OBVIOUS
  <2>1. Silent => Served
    BY DEF Silent
  <2>2. ASSUME NEW t \in Threads, ReconstructResult(t) PROVE Served
    BY <2>2, ReplayIntact
  <2>3. ASSUME NEW t \in Threads, Step(t) PROVE Served
    BY <2>1, <2>2, <2>3, SilentStep
  <2>4. ASSUME NEW t \in Threads, NEW c \in Calls, Call(t, c) PROVE Silent
    <3>1. TypeOK
      BY DEF IInv
    <3> QED BY <2>4, <3>1, SilentMove DEF Call, IdleFrame
  <2>5. ASSUME NEW p \in Procs, Crash(p) PROVE Silent
    BY <2>5 DEF Crash, Silent, IdleFrame
  <2>6. CASE \/ \E e \in DOMAIN db.events, v \in Damages : Damage(e, v)
             \/ Quiet \/ UNCHANGED vars
    BY <2>6 DEF Damage, Quiet, vars, Silent
  <2> QED BY <2>1, <2>3, <2>4, <2>5, <2>6 DEF Next
<1> QED BY <1>1, Inductive, PTL DEF Spec, PayloadVerified

-----------------------------------------------------------------------------
(* The committed tables.                                                   *)

\* Only the two commits and damage from outside touch the committed tables.
LEMMA DbStep ==
  ASSUME IInv, [Next]_vars
  PROVE  \/ db' = db
         \/ db' = work
         \/ \E e \in DOMAIN db.events, v \in Damages : Damage(e, v)
<1>1. ASSUME NEW t \in Threads, Step(t)
      PROVE  db' = db \/ db' = work
  BY <1>1 DEF Step, AcquireLock, BeginImmediate, BeginFails, FindNoRecord, FindConflict,
     FindReplay, EnsureSubject, UseRun, RefuseRevision, CreateRun, InsertEvent,
     UpsertRunState, InsertRecord, StatementFails, Commit, CommitRaisesLate,
     CommitRaisesEarly, RetryOnce, GiveUp, RecoverConflict, RecoverReplay, ReadFails,
     ReconstructResult, RefuseDamaged, Return
<1> QED BY <1>1 DEF Next, Call, Crash, Quiet, vars

LEMMA DamageKeeps ==
  ASSUME IInv, NEW e \in DOMAIN db.events, NEW v \in Damages, Damage(e, v)
  PROVE  /\ Extends(db, db') /\ db'.idem = db.idem /\ Len(db'.events) = Len(db.events)
         /\ frame' = frame
<1>1. db' = [db EXCEPT !.events[e].payload = v] /\ frame' = frame
  BY DEF Damage
<1>2. db \in Tables /\ db.events \in Seq(Events)
  BY DEF IInv, TypeOK, Tables
<1>3. db.events[e] \in Events
  BY <1>2, Element
<1> DEFINE row == [db.events[e] EXCEPT !.payload = v]
           rows == [db.events EXCEPT ![e] = row]
<1>4. row.run = db.events[e].run /\ row.hash = db.events[e].hash /\ row \in Events
  BY <1>3 DEF Events, Payloads
<1> HIDE DEF row
<1>5. /\ rows \in Seq(Events) /\ Len(rows) = Len(db.events) /\ DOMAIN rows = DOMAIN db.events
      /\ \A i \in DOMAIN db.events : rows[i] = IF i = e THEN row ELSE db.events[i]
  BY <1>2, <1>4
<1>6. db' = [db EXCEPT !.events = rows]
  BY <1>1 DEF row
<1> HIDE DEF rows
<1>7. db'.runs = db.runs /\ db'.idem = db.idem /\ db'.events = rows
  BY <1>2, <1>6 DEF Tables
<1>8. Extends(db, db')
  BY <1>4, <1>5, <1>7 DEF Extends
<1> QED BY <1>1, <1>5, <1>7, <1>8

\* Committed records, runs and events are never changed or removed by any
\* step: no retry, crash or concurrent call rewrites what was recorded.
THEOREM Growing == Spec => GrowOnly
<1>1. IInv /\ [Next]_vars => [Extends(db, db')]_vars
  <2> SUFFICES ASSUME IInv, [Next]_vars PROVE Extends(db, db')
    OBVIOUS
  <2>1. CASE db' = db
    BY <2>1 DEF Extends
  <2>2. CASE db' = work
    BY <2>2 DEF IInv, WorkExtends
  <2> QED BY <2>1, <2>2, DbStep, DamageKeeps
<1> QED BY <1>1, Inductive, PTL DEF Spec, GrowOnly

-----------------------------------------------------------------------------
(* The refinement mapping.                                                 *)

USE DEF PC

\* When only t moves, only t's entries of the abstract variables change.
LEMMA Mapped ==
  ASSUME NEW t \in Threads, \A u \in Threads \ {t} : frame'[u] = frame[u]
  PROVE  /\ Phases' = [Phases EXCEPT ![t] = AbstractPhase(frame'[t])]
         /\ Asks' = [Asks EXCEPT ![t] = Asked(frame'[t])]
         /\ Replies' = [Replies EXCEPT ![t] = frame'[t].said]
         /\ Phases[t] = AbstractPhase(frame[t])
         /\ Asks[t] = Asked(frame[t])
         /\ Replies[t] = frame[t].said
BY DEF Phases, Asks, Replies

\* The phase of a call that is neither idle nor about to return.
LEMMA PhaseOf ==
  ASSUME NEW f
  PROVE  /\ f.pc = "idle" => AbstractPhase(f) = "idle"
         /\ f.pc = "return" => AbstractPhase(f) = "answered"
         /\ f.pc \notin {"idle", "return"} /\ f.mine => AbstractPhase(f) = "entered"
         /\ f.pc \notin {"idle", "return"} /\ ~ f.mine => AbstractPhase(f) = "asked"
BY DEF AbstractPhase

\* What the ledger sees of a call that is under way.
LEMMA AskOf ==
  ASSUME IInv, NEW t \in Threads, PC(t) # "idle"
  PROVE  Asks[t] = [key |-> Key(t), digest |-> Digest(t)]
         /\ Asks[t].key = Key(t) /\ Asks[t].digest = Digest(t)
BY DEF Asks, Asked, Key, Digest

\* A step that shows nothing to the ledger: the call keeps its arguments, its
\* phase and its answer.
LEMMA Invisible ==
  ASSUME IInv, NEW t \in Threads, NEW p, NEW n, NEW e,
         Effect(t, p, frame[t].call, n, e, frame[t].said, frame[t].mine),
         PC(t) \notin {"idle", "return"}, p \notin {"idle", "return"},
         db' = db
  PROVE  UNCHANGED Ledger!vars
<1>1. frame'[t].pc = p /\ frame'[t].call = frame[t].call /\ frame'[t].said = frame[t].said
      /\ frame'[t].mine = frame[t].mine
  BY DEF Effect
<1>2. frame[t].mine \in BOOLEAN
  BY DEF IInv, TypeOK, Frames
<1>3. AbstractPhase(frame'[t]) = AbstractPhase(frame[t])
  BY <1>1, <1>2, PhaseOf
<1>4. Asked(frame'[t]) = Asked(frame[t])
  BY <1>1 DEF Asked
<1>5. Phases' = [Phases EXCEPT ![t] = Phases[t]] /\ Asks' = [Asks EXCEPT ![t] = Asks[t]]
      /\ Replies' = [Replies EXCEPT ![t] = Replies[t]]
  BY <1>1, <1>3, <1>4, Mapped DEF Effect
<1>6. Phases' = Phases /\ Asks' = Asks /\ Replies' = Replies
  BY <1>5 DEF Phases, Asks, Replies
<1> QED BY <1>6 DEF Ledger!vars

\* A step that only gives the answer k.
LEMMA Answered ==
  ASSUME IInv, NEW t \in Threads, NEW k, NEW n,
         Effect(t, "return", frame[t].call, n, frame[t].ref, k, frame[t].mine),
         PC(t) \notin {"idle", "return"}, db' = db
  PROVE  /\ Ledger!Tell(t, k) /\ UNCHANGED <<db.idem, Len(db.events), Asks>>
         /\ Phases[t] = IF frame[t].mine THEN "entered" ELSE "asked"
<1>1. frame'[t].pc = "return" /\ frame'[t].call = frame[t].call /\ frame'[t].said = k
  BY DEF Effect
<1>2. AbstractPhase(frame'[t]) = "answered" /\ Asked(frame'[t]) = Asked(frame[t])
  BY <1>1, PhaseOf DEF Asked
<1>3. Phases' = [Phases EXCEPT ![t] = "answered"] /\ Replies' = [Replies EXCEPT ![t] = k]
      /\ Asks' = [Asks EXCEPT ![t] = Asks[t]]
  BY <1>1, <1>2, Mapped DEF Effect
<1>4. Asks' = Asks
  BY <1>3 DEF Asks
<1>5. frame[t].mine \in BOOLEAN
  BY DEF IInv, TypeOK, Frames
<1>6. Phases[t] = IF frame[t].mine THEN "entered" ELSE "asked"
  BY <1>5, PhaseOf, Mapped DEF Phases
<1> QED BY <1>3, <1>4, <1>6 DEF Ledger!Tell

-----------------------------------------------------------------------------
(* Step simulation: answers.                                               *)

\* A refusal or an unknown outcome.
LEMMA Refused ==
  ASSUME IInv, NEW t \in Threads, NEW k \in {"rolledback", "norecord"},
         Answer(t, k), PC(t) \notin {"idle", "return"}, ~ frame[t].mine, db' = db
  PROVE  Ledger!Next
<1>1. Effect(t, "return", frame[t].call, frame[t].run, frame[t].ref, k, frame[t].mine)
  BY MoveAnswer DEF IInv, Kinds
<1>2. Ledger!Refuse(t)
  BY <1>1, Answered DEF Ledger!Refuse
<1> QED BY <1>2 DEF Ledger!Next

LEMMA Lost ==
  ASSUME IInv, NEW t \in Threads, NEW k \in {"unknown", "damaged"},
         Answer(t, k), PC(t) \notin {"idle", "return"}, db' = db
  PROVE  Ledger!Next
<1>1. Effect(t, "return", frame[t].call, frame[t].run, frame[t].ref, k, frame[t].mine)
  BY MoveAnswer DEF IInv, Kinds
<1>2. Ledger!Lose(t)
  BY <1>1, Answered DEF Ledger!Lose
<1> QED BY <1>2 DEF Ledger!Next

LEMMA Conflicting ==
  ASSUME IInv, NEW t \in Threads, Answer(t, "conflict"),
         PC(t) \notin {"idle", "return"}, db' = db,
         db.idem[Key(t)] # Null, db.idem[Key(t)].digest # Digest(t), ~ frame[t].mine
  PROVE  Ledger!Next
<1>1. Effect(t, "return", frame[t].call, frame[t].run, frame[t].ref, "conflict", frame[t].mine)
  BY MoveAnswer DEF IInv, Kinds
<1>2. Ledger!Conflict(t)
  BY <1>1, Answered, AskOf DEF Ledger!Conflict, Ledger!Entered
<1> QED BY <1>2 DEF Ledger!Next

LEMMA Replaying ==
  ASSUME IInv, NEW t \in Threads, ReconstructResult(t)
  PROVE  Ledger!Next
<1> DEFINE r == db.events[frame[t].ref].run
           f == [frame[t] EXCEPT !.pc = "return", !.said = "replay", !.run = r]
<1>1. frame[t] \in Frames /\ frame[t].ref \in DOMAIN db.events /\ PC(t) = "reconstruct"
      /\ db' = db
  BY DEF IInv, TypeOK, ReconstructResult, Intact
<1>2. r \in Nat
  BY <1>1, RunOfEvent DEF IInv, TypeOK
<1>3. Move(t, f)
  BY DEF ReconstructResult
<1> HIDE DEF r
<1>4. f \in Frames
  BY <1>1, <1>2 DEF Frames, Labels, Kinds
<1>5. /\ f.pc = "return" /\ f.call = frame[t].call /\ f.run = r
      /\ f.ref = frame[t].ref /\ f.said = "replay" /\ f.mine = frame[t].mine
  BY <1>1 DEF Frames
<1> HIDE DEF f
<1>6. Effect(t, "return", frame[t].call, r, frame[t].ref, "replay", frame[t].mine)
  BY <1>3, <1>4, <1>5, Moved DEF IInv
<1>7. Stored(t) /\ Recorded(db, Key(t))
  BY <1>1, MyFrame, StoredRow DEF Knows, IInv
<1>8. db.idem[Key(t)] # Null /\ db.idem[Key(t)].digest = Digest(t)
  BY <1>7 DEF Stored, Recorded
<1>9. Ledger!Replay(t)
  BY <1>1, <1>6, <1>8, Answered, AskOf DEF Ledger!Replay, Ledger!Entered
<1> QED BY <1>9 DEF Ledger!Next

\* The run whose revision differs has an event, and that event has a key.
LEMMA Excluding ==
  ASSUME IInv, NEW t \in Threads, RefuseRevision(t)
  PROVE  Ledger!Next
<1>1. PC(t) = "run" /\ Answer(t, "revision") /\ db' = db
  BY DEF RefuseRevision
<1>2. PICK r \in RunsFor(work, frame[t].call) :
        work.runs[r].revision # frame[t].call.revision
  BY DEF RefuseRevision
<1>3. work.runs = db.runs /\ ~ frame[t].mine
  BY <1>1, MyFrame DEF InProgress, Knows
<1>4. r \in DOMAIN db.runs /\ db.runs[r].subject = frame[t].call.subject
      /\ db.runs[r].request = frame[t].call.request
      /\ db.runs[r].revision # frame[t].call.revision
  BY <1>2, <1>3 DEF RunsFor
<1>5. OneToOne(db, {}) /\ WellFiled(db) /\ RunsFiled(db, {})
  BY DEF IInv, TablesSound
<1>6. PICK e \in DOMAIN db.events : db.events[e].run = r
  BY <1>4, <1>5 DEF RunsFiled
<1>7. PICK k \in Keys : Recorded(db, k) /\ db.idem[k].ref = e
  BY <1>5, <1>6 DEF OneToOne
<1>8. /\ db.idem[k].digest.subject = db.runs[r].subject
      /\ db.idem[k].digest.request = db.runs[r].request
      /\ db.idem[k].digest.revision = db.runs[r].revision
  BY <1>5, <1>6, <1>7 DEF WellFiled, Matches
<1>9. db.idem[k].digest \in Digests /\ Digest(t) \in Digests
  BY <1>1, <1>7, MyFrame DEF IInv, TypeOK, Tables, Recorded, Records
<1>10. /\ Digest(t).subject = frame[t].call.subject /\ Digest(t).request = frame[t].call.request
       /\ Digest(t).revision = frame[t].call.revision
  BY DEF Digest, RequestDigest
<1>11. <<db.idem[k].digest, Digest(t)>> \in RevisionClash
  BY <1>4, <1>8, <1>9, <1>10 DEF RevisionClash
<1>12. Effect(t, "return", frame[t].call, frame[t].run, frame[t].ref, "revision", frame[t].mine)
  BY <1>1, MoveAnswer DEF IInv, Kinds
<1>13. Ledger!Exclude(t)
  BY <1>1, <1>3, <1>7, <1>11, <1>12, Answered, AskOf DEF Ledger!Exclude, Recorded
<1> QED BY <1>13 DEF Ledger!Next

-----------------------------------------------------------------------------
(* Step simulation: the commit enters the ledger.                          *)

\* At its commit a call's key is new, no recorded request excludes it, and
\* the commit adds the one entry.
LEMMA EntryAtCommit ==
  ASSUME IInv, NEW t \in Threads, PC(t) = "commit"
  PROVE  /\ db.idem[Key(t)] = Null /\ ~ frame[t].mine
         /\ work.idem = [db.idem EXCEPT ![Key(t)] =
                           [digest |-> Digest(t), ref |-> Len(db.events) + 1]]
         /\ Len(work.events) = Len(db.events) + 1
         /\ \A k \in Keys : db.idem[k] # Null =>
              <<db.idem[k].digest, Digest(t)>> \notin RevisionClash
<1>1. /\ work.idem = [db.idem EXCEPT ![Key(t)] = [digest |-> Digest(t), ref |-> frame[t].ref]]
      /\ Len(work.events) = Len(db.events) + 1 /\ frame[t].ref = Len(db.events) + 1
      /\ ~ Recorded(db, Key(t)) /\ ~ frame[t].mine
  BY MyFrame DEF InProgress, Knows, Transaction
<1>2. db.idem \in [Keys -> Records \cup {Null}] /\ Key(t) \in Keys /\ Digest(t) \in Digests
  BY MyFrame DEF IInv, TypeOK, Tables
<1>3. Recorded(work, Key(t)) /\ work.idem[Key(t)].digest = Digest(t)
  BY AtCommit DEF Recorded
<1>4. WellFiled(work) /\ OneToOne(work, {})
  BY InTransaction DEF Transaction
<1>5. ASSUME NEW k \in Keys, db.idem[k] # Null, <<db.idem[k].digest, Digest(t)>> \in RevisionClash
      PROVE  FALSE
  <2>1. /\ db.idem[k].digest.subject = Digest(t).subject
        /\ db.idem[k].digest.request = Digest(t).request
        /\ db.idem[k].digest.revision # Digest(t).revision
    BY <1>5 DEF RevisionClash
  <2>2. k # Key(t) /\ work.idem[k] = db.idem[k] /\ Recorded(work, k)
    BY <1>1, <1>2, <1>5 DEF Recorded
  <2> DEFINE d == work.idem[k].ref
             e == work.idem[Key(t)].ref
  <2>3. d \in DOMAIN work.events /\ e \in DOMAIN work.events
    BY <1>2, <1>3, <1>4, <2>2 DEF OneToOne
  <2> DEFINE r == work.events[d].run
             s == work.events[e].run
  <2>4. r \in DOMAIN work.runs /\ s \in DOMAIN work.runs
    BY <1>4, <2>3 DEF WellFiled
  <2>5. Matches(work, k) /\ Matches(work, Key(t))
    BY <1>2, <1>3, <1>4, <2>2 DEF WellFiled
  <2>6. /\ work.runs[r].subject = work.idem[k].digest.subject
        /\ work.runs[r].request = work.idem[k].digest.request
        /\ work.runs[r].revision = work.idem[k].digest.revision
        /\ work.runs[s].subject = Digest(t).subject
        /\ work.runs[s].request = Digest(t).request
        /\ work.runs[s].revision = Digest(t).revision
    BY <1>3, <2>5 DEF Matches
  <2> HIDE DEF d, e, r, s
  <2>7. work.runs[r].subject = work.runs[s].subject
        /\ work.runs[r].request = work.runs[s].request
    BY <2>1, <2>2, <2>6
  <2>8. r = s
    BY <1>4, <2>4, <2>7 DEF WellFiled
  <2> QED BY <2>1, <2>2, <2>6, <2>8
<1> QED BY <1>1, <1>5 DEF Recorded

LEMMA Entering ==
  ASSUME IInv, NEW t \in Threads, Commit(t) \/ CommitRaisesLate(t)
  PROVE  Ledger!Next
<1> DEFINE f == [frame[t] EXCEPT !.pc = "return", !.said = "new", !.mine = TRUE]
           g == [frame[t] EXCEPT !.pc = "recover", !.mine = TRUE]
<1>1. frame[t] \in Frames /\ PC(t) = "commit" /\ db' = work
  BY DEF IInv, TypeOK, Commit, CommitRaisesLate
<1>2. f \in Frames /\ g \in Frames
  BY <1>1 DEF Frames, Labels, Kinds
<1>3. /\ f.pc = "return" /\ f.call = frame[t].call /\ f.said = "new"
      /\ g.pc = "recover" /\ g.call = frame[t].call /\ g.said = frame[t].said /\ g.mine
  BY <1>1 DEF Frames
<1>4. Move(t, f) \/ Move(t, g)
  BY DEF Commit, CommitRaisesLate
<1> HIDE DEF f, g
<1>5. PICK h \in {f, g} : frame'[t] = h /\ \A u \in Threads \ {t} : frame'[u] = frame[u]
  BY <1>2, <1>4, Moved DEF Move, IInv, TypeOK
<1>6. Asked(frame'[t]) = Asked(frame[t])
  BY <1>1, <1>3, <1>5 DEF Asked
<1>7. Asks' = Asks
  <2>1. Asks' = [Asks EXCEPT ![t] = Asks[t]]
    BY <1>5, <1>6, Mapped
  <2> QED BY <2>1 DEF Asks
<1>8. /\ db.idem[Key(t)] = Null /\ ~ frame[t].mine
      /\ db'.idem = [db.idem EXCEPT ![Key(t)] =
                       [digest |-> Digest(t), ref |-> Len(db.events) + 1]]
      /\ Len(db'.events) = Len(db.events) + 1
      /\ \A k \in Keys : db.idem[k] # Null =>
           <<db.idem[k].digest, Digest(t)>> \notin RevisionClash
  BY <1>1, EntryAtCommit
<1>9. Phases[t] = "asked"
  BY <1>1, <1>8, PhaseOf DEF Phases
<1>10. \/ Ledger!Tell(t, "new")
       \/ Phases' = [Phases EXCEPT ![t] = "entered"] /\ Replies' = Replies
  <2>1. CASE h = f
    <3>1. AbstractPhase(frame'[t]) = "answered"
      BY <1>3, <1>5, <2>1, PhaseOf
    <3> QED BY <1>3, <1>5, <2>1, <3>1, Mapped DEF Ledger!Tell
  <2>2. CASE h = g
    <3>1. AbstractPhase(frame'[t]) = "entered"
      BY <1>3, <1>5, <2>2, PhaseOf
    <3>2. Replies' = [Replies EXCEPT ![t] = Replies[t]]
      BY <1>3, <1>5, <2>2, Mapped
    <3>3. Replies' = Replies
      BY <3>2 DEF Replies
    <3> QED BY <1>5, <3>1, <3>3, Mapped
  <2> QED BY <1>5, <2>1, <2>2
<1>11. Asks[t].key = Key(t) /\ Asks[t].digest = Digest(t)
  BY <1>1, AskOf
<1>12. Ledger!Enter(t)
  BY <1>7, <1>8, <1>9, <1>10, <1>11 DEF Ledger!Enter, Ledger!Entered
<1> QED BY <1>12 DEF Ledger!Next

-----------------------------------------------------------------------------
(* Step simulation: calls, returns and crashes.                            *)

LEMMA Submitting ==
  ASSUME IInv, NEW t \in Threads, NEW c \in Calls, Call(t, c)
  PROVE  Ledger!Next
<1> DEFINE f == [IdleFrame EXCEPT !.pc = "lock", !.call = c]
           a == [key |-> c.key, digest |-> RequestDigest(c)]
<1>1. f \in Frames
  BY DEF IdleFrame, Frames, Labels, Outside, Kinds
<1>2. f.pc = "lock" /\ f.call = c /\ f.said = "none" /\ ~ f.mine
  BY DEF IdleFrame
<1>3. Move(t, f) /\ PC(t) = "idle" /\ db' = db
  BY DEF Call
<1> HIDE DEF f
<1>4. frame'[t] = f /\ \A u \in Threads \ {t} : frame'[u] = frame[u]
  BY <1>1, <1>3, Moved DEF Move, IInv, TypeOK
<1>5. AbstractPhase(f) = "asked" /\ Asked(f) = a /\ AbstractPhase(frame[t]) = "idle"
  BY <1>2, <1>3, PhaseOf DEF Asked
<1>6. frame[t].said = "none"
  BY <1>3 DEF IInv, CallsSound, Knows
<1>7. Replies' = [Replies EXCEPT ![t] = Replies[t]]
  BY <1>2, <1>4, <1>6, Mapped
<1>8. Replies' = Replies
  BY <1>7 DEF Replies
<1>9. Ledger!Submit(t, a)
  BY <1>3, <1>4, <1>5, <1>8, Mapped DEF Ledger!Submit
<1>10. a \in Ledger!Asks
  BY CallTypes DEF Ledger!Asks
<1> QED BY <1>9, <1>10 DEF Ledger!Next

\* Threads whose frames become idle leave the ledger.
LEMMA Leaving ==
  ASSUME NEW S \in SUBSET Threads, db' = db,
         \A u \in Threads : frame'[u] = IF u \in S THEN IdleFrame ELSE frame[u]
  PROVE  Ledger!Next
<1>1. AbstractPhase(IdleFrame) = "idle" /\ Asked(IdleFrame) = Null /\ IdleFrame.said = "none"
  BY PhaseOf DEF Asked, IdleFrame
<1>2. Phases' = [u \in Threads |-> IF u \in S THEN "idle" ELSE Phases[u]]
  BY <1>1 DEF Phases
<1>3. Asks' = [u \in Threads |-> IF u \in S THEN Null ELSE Asks[u]]
  BY <1>1 DEF Asks
<1>4. Replies' = [u \in Threads |-> IF u \in S THEN "none" ELSE Replies[u]]
  BY <1>1 DEF Replies
<1>5. Ledger!Leave(S)
  BY <1>2, <1>3, <1>4 DEF Ledger!Leave
<1> QED BY <1>5 DEF Ledger!Next

-----------------------------------------------------------------------------
(* Step simulation: statements and moves the ledger does not see.          *)

\* Steps that only move the program counter.
LEMMA HiddenMove ==
  ASSUME IInv, NEW t \in Threads, NEW p \in Labels \ {"idle", "return"},
         Move(t, [frame[t] EXCEPT !.pc = p]), PC(t) \notin {"idle", "return"}, db' = db
  PROVE  UNCHANGED Ledger!vars
<1>1. Effect(t, p, frame[t].call, frame[t].run, frame[t].ref, frame[t].said, frame[t].mine)
  BY MovePC DEF IInv
<1> QED BY <1>1, Invisible

LEMMA HiddenStatement ==
  ASSUME IInv, NEW t \in Threads,
         \/ AcquireLock(t) \/ BeginImmediate(t) \/ FindNoRecord(t) \/ EnsureSubject(t)
         \/ UpsertRunState(t) \/ InsertRecord(t) \/ CommitRaisesEarly(t)
  PROVE  UNCHANGED Ledger!vars
<1>1. PICK p \in {"begin", "check", "subject", "run", "record", "commit", "recover"} :
        Move(t, [frame[t] EXCEPT !.pc = p])
  BY DEF AcquireLock, BeginImmediate, FindNoRecord, EnsureSubject, UpsertRunState,
         InsertRecord, CommitRaisesEarly
<1>2. PC(t) \notin {"idle", "return"} /\ db' = db
  BY DEF AcquireLock, BeginImmediate, FindNoRecord, EnsureSubject, UpsertRunState,
         InsertRecord, CommitRaisesEarly
<1>3. p \in Labels \ {"idle", "return"}
  BY DEF Labels, Outside, Transaction
<1> QED BY <1>1, <1>2, <1>3, HiddenMove

\* Steps that also note the row of an event.
LEMMA HiddenEvent ==
  ASSUME IInv, NEW t \in Threads,
         FindReplay(t) \/ RecoverReplay(t) \/ InsertEvent(t)
  PROVE  UNCHANGED Ledger!vars
<1>1. PC(t) \notin {"idle", "return"} /\ db' = db /\ db \in Tables /\ work \in Tables
  BY DEF FindReplay, RecoverReplay, InsertEvent, IInv, TypeOK
<1>2. Key(t) \in Keys
  BY <1>1, MyFrame
<1>3. PICK p \in {"reconstruct", "state"}, n \in Nat :
        Move(t, [frame[t] EXCEPT !.pc = p, !.ref = n])
  <2>1. CASE FindReplay(t)
    BY <1>1, <1>2, <2>1, FoundRow DEF FindReplay
  <2>2. CASE RecoverReplay(t)
    BY <1>1, <1>2, <2>2, FoundRow DEF RecoverReplay
  <2>3. CASE InsertEvent(t)
    <3>1. Len(work.events) + 1 \in Nat
      BY <1>1 DEF Tables
    <3> QED BY <2>3, <3>1 DEF InsertEvent
  <2> QED BY <2>1, <2>2, <2>3
<1>4. p \in Labels /\ p \notin {"idle", "return"}
  BY DEF Labels, Transaction
<1>5. Effect(t, p, frame[t].call, frame[t].run, n, frame[t].said, frame[t].mine)
  BY <1>3, <1>4, MoveRef DEF IInv
<1> QED BY <1>1, <1>4, <1>5, Invisible

\* Steps that also note the row of a run.
LEMMA HiddenRun ==
  ASSUME IInv, NEW t \in Threads, UseRun(t) \/ CreateRun(t)
  PROVE  UNCHANGED Ledger!vars
<1>1. PC(t) \notin {"idle", "return"} /\ db' = db /\ work.runs \in Seq(Runs)
  BY DEF UseRun, CreateRun, IInv, TypeOK, Tables
<1>2. PICK n \in Nat : Move(t, [frame[t] EXCEPT !.pc = "event", !.run = n])
  <2>1. CASE UseRun(t)
    <3>1. PICK r \in RunsFor(work, frame[t].call) :
            Move(t, [frame[t] EXCEPT !.pc = "event", !.run = r])
      BY <2>1 DEF UseRun
    <3>2. r \in DOMAIN work.runs
      BY DEF RunsFor
    <3>3. r \in Nat
      BY <1>1, <3>2
    <3> QED BY <3>1, <3>3
  <2>2. CASE CreateRun(t)
    <3>1. Len(work.runs) + 1 \in Nat
      BY <1>1
    <3> QED BY <2>2, <3>1 DEF CreateRun
  <2> QED BY <2>1, <2>2
<1> DEFINE p == "event"
<1>3. p \in Labels /\ p \notin {"idle", "return"}
  BY DEF Labels, Transaction
<1>4. Move(t, [frame[t] EXCEPT !.pc = p, !.run = n])
  BY <1>2
<1> HIDE DEF p
<1>5. Effect(t, p, frame[t].call, n, frame[t].ref, frame[t].said, frame[t].mine)
  BY <1>3, <1>4, MoveRun DEF IInv
<1> QED BY <1>1, <1>3, <1>5, Invisible

LEMMA HiddenRetry ==
  ASSUME IInv, NEW t \in Threads, RetryOnce(t)
  PROVE  UNCHANGED Ledger!vars
<1> DEFINE f == [frame[t] EXCEPT !.pc = "begin", !.retry = TRUE]
<1>1. frame[t] \in Frames
  BY DEF IInv, TypeOK
<1>2. f \in Frames
  BY <1>1 DEF Frames, Labels
<1>3. /\ f.pc = "begin" /\ f.call = frame[t].call /\ f.run = frame[t].run
      /\ f.ref = frame[t].ref /\ f.said = frame[t].said /\ f.mine = frame[t].mine
  BY <1>1 DEF Frames
<1>4. Move(t, f) /\ PC(t) = "recover" /\ db' = db
  BY DEF RetryOnce
<1> HIDE DEF f
<1>5. Effect(t, "begin", frame[t].call, frame[t].run, frame[t].ref, frame[t].said,
             frame[t].mine)
  BY <1>2, <1>3, <1>4, Moved DEF IInv
<1> QED BY <1>4, <1>5, Invisible

\* A step that leaves frames, records and the number of events alone.
LEMMA Unseen ==
  ASSUME frame' = frame, db'.idem = db.idem, Len(db'.events) = Len(db.events)
  PROVE  UNCHANGED Ledger!vars
BY DEF Ledger!vars, Phases, Asks, Replies

-----------------------------------------------------------------------------
(* Every step.                                                             *)

\* A call that is not past its commit, and a refusal found in the tables.
LEMMA Refusing ==
  ASSUME IInv, NEW t \in Threads,
         BeginFails(t) \/ StatementFails(t) \/ GiveUp(t)
  PROVE  Ledger!Next
<1>1. PC(t) \notin {"idle", "return"} /\ db' = db
  BY DEF BeginFails, StatementFails, GiveUp, Transaction
<1>2. Answer(t, "rolledback") \/ Answer(t, "norecord")
  BY DEF BeginFails, StatementFails, GiveUp
<1>3. ~ frame[t].mine
  <2>1. Knows(t)
    BY <1>1, MyFrame
  <2>2. CASE BeginFails(t) \/ StatementFails(t)
    BY <2>1, <2>2 DEF BeginFails, StatementFails, Transaction, Knows
  <2>3. CASE GiveUp(t)
    BY <2>1, <2>3 DEF GiveUp, Knows, Recorded
  <2> QED BY <2>2, <2>3
<1> QED BY <1>1, <1>2, <1>3, Refused

LEMMA Differing ==
  ASSUME IInv, NEW t \in Threads, FindConflict(t) \/ RecoverConflict(t)
  PROVE  Ledger!Next
<1>1. PC(t) \in {"check", "recover"} /\ db' = db /\ Answer(t, "conflict")
  BY DEF FindConflict, RecoverConflict
<1>2. Knows(t) /\ InProgress(t)
  BY <1>1, MyFrame
<1>3. CASE FindConflict(t)
  <2>1. PC(t) = "check" /\ work = db
    BY <1>2, <1>3 DEF FindConflict, InProgress
  <2> QED BY <1>1, <1>2, <1>3, <2>1, Conflicting DEF FindConflict, Knows
<1>4. CASE RecoverConflict(t)
  BY <1>1, <1>2, <1>4, Conflicting DEF RecoverConflict, Knows
<1> QED BY <1>3, <1>4

LEMMA LosingAnswer ==
  ASSUME IInv, NEW t \in Threads, ReadFails(t) \/ RefuseDamaged(t)
  PROVE  Ledger!Next
<1>1. PC(t) \notin {"idle", "return"} /\ db' = db
  BY DEF ReadFails, RefuseDamaged
<1>2. Answer(t, "unknown") \/ Answer(t, "damaged")
  BY DEF ReadFails, RefuseDamaged
<1> QED BY <1>1, <1>2, Lost

LEMMA Returning ==
  ASSUME IInv, NEW t \in Threads, Return(t)
  PROVE  Ledger!Next
<1>1. Move(t, IdleFrame) /\ db' = db /\ frame \in [Threads -> Frames]
  BY DEF Return, IInv, TypeOK
<1>2. \A u \in Threads : frame'[u] = IF u \in {t} THEN IdleFrame ELSE frame[u]
  BY <1>1 DEF Move
<1> QED BY <1>1, <1>2, Leaving

LEMMA Crashing ==
  ASSUME NEW p \in Procs, Crash(p)
  PROVE  Ledger!Next
<1> DEFINE S == {t \in Threads : ProcOf[t] = p}
<1>1. \A u \in Threads : frame'[u] = IF u \in S THEN IdleFrame ELSE frame[u]
  BY DEF Crash
<1>2. S \in SUBSET Threads /\ db' = db
  BY DEF Crash
<1> HIDE DEF S
<1> QED BY <1>1, <1>2, Leaving

LEMMA Simulation ==
  ASSUME IInv, [Next]_vars
  PROVE  [Ledger!Next]_(Ledger!vars)
<1>1. ASSUME NEW t \in Threads, Step(t)
      PROVE  Ledger!Next \/ UNCHANGED Ledger!vars
  BY <1>1, HiddenStatement, HiddenEvent, HiddenRun, HiddenRetry, Refusing, Differing,
     LosingAnswer, Returning, Replaying, Excluding, Entering DEF Step
<1>2. ASSUME NEW t \in Threads, NEW c \in Calls, Call(t, c)
      PROVE  Ledger!Next
  BY <1>2, Submitting
<1>3. ASSUME NEW e \in DOMAIN db.events, NEW v \in Damages, Damage(e, v)
      PROVE  UNCHANGED Ledger!vars
  BY <1>3, DamageKeeps, Unseen
<1>4. ASSUME UNCHANGED vars
      PROVE  UNCHANGED Ledger!vars
  BY <1>4, Unseen DEF vars
<1> QED BY <1>1, <1>2, <1>3, <1>4, Crashing DEF Next, Quiet

LEMMA StartsEmpty ==
  ASSUME Init
  PROVE  Ledger!Init
<1>1. AbstractPhase(IdleFrame) = "idle" /\ Asked(IdleFrame) = Null /\ IdleFrame.said = "none"
  BY PhaseOf DEF Asked, IdleFrame
<1>2. db.idem = [k \in Keys |-> Null] /\ Len(db.events) = 0
  BY DEF Init, EmptyTables
<1>3. \A t \in Threads : frame[t] = IdleFrame
  BY DEF Init
<1> QED BY <1>1, <1>2, <1>3 DEF Ledger!Init, Phases, Asks, Replies

\* Every behaviour of record_run_event, with its rollbacks, retries, crashes
\* and concurrent callers, is a behaviour of the one-step ledger its callers
\* are promised.
THEOREM Implements == Spec => ImplementsLedger
<1>1. Init => Ledger!Init
  BY StartsEmpty
<1>2. IInv /\ [Next]_vars => [Ledger!Next]_(Ledger!vars)
  BY Simulation
<1> QED BY <1>1, <1>2, Inductive, PTL DEF Spec, Ledger!Spec, ImplementsLedger

-----------------------------------------------------------------------------
(* What an answer is worth, read off the one-step ledger.                  *)

\* A refused caller is refused for an entry that is there.
Told(t) ==
  /\ Replies[t] # "none" => Phases[t] = "answered"
  /\ Replies[t] = "conflict" =>
       /\ Asks[t].key \in Keys /\ db.idem[Asks[t].key] # Null
       /\ db.idem[Asks[t].key].digest # Asks[t].digest
  /\ Replies[t] = "revision" =>
       \E k \in Keys : /\ db.idem[k] # Null
                       /\ <<db.idem[k].digest, Asks[t].digest>> \in RevisionClash

LEMMA AbstractTypes ==
  ASSUME IInv
  PROVE  /\ \E S : Phases \in [Threads -> S]
         /\ \E S : Asks \in [Threads -> S]
         /\ \E S : Replies \in [Threads -> S]
         /\ \E S : db.idem \in [Keys -> S]
         /\ \A t \in Threads : Phases[t] # "idle" => Asks[t].key \in Keys
<1>1. \E S : db.idem \in [Keys -> S]
  BY DEF IInv, TypeOK, Tables
<1>2. ASSUME NEW t \in Threads, Phases[t] # "idle"
      PROVE  Asks[t].key \in Keys
  <2>1. PC(t) # "idle"
    BY <1>2, PhaseOf DEF Phases
  <2>2. frame[t].call \in Calls
    BY <2>1 DEF IInv, CallsSound, Knows
  <2> QED BY <2>1, <2>2, AskOf, CallTypes DEF Key
<1>3. Phases \in [Threads -> {Phases[t] : t \in Threads}]
  BY DEF Phases
<1>4. Asks \in [Threads -> {Asks[t] : t \in Threads}]
  BY DEF Asks
<1>5. Replies \in [Threads -> {Replies[t] : t \in Threads}]
  BY DEF Replies
<1> QED BY <1>1, <1>2, <1>3, <1>4, <1>5

\* A client that is not told anything in a step, and keeps its phase and its
\* question, keeps its reason, for entries are never changed.
LEMMA ReasonStays ==
  ASSUME NEW t \in Threads, Told(t),
         Replies'[t] = Replies[t], Phases'[t] = Phases[t], Asks'[t] = Asks[t],
         \A k \in Keys : db.idem[k] # Null => db'.idem[k] = db.idem[k]
  PROVE  Told(t)'
BY DEF Told

\* A client that is told something else than a refusal needs no reason.
LEMMA NoReason ==
  ASSUME NEW t \in Threads, Replies'[t] \notin {"conflict", "revision"},
         Replies'[t] = "none" \/ Phases'[t] = "answered"
  PROVE  Told(t)'
BY DEF Told

\* The client c that an action of the ledger speaks of has its reason, the
\* other clients keep theirs.
LEMMA ReasonsKept ==
  ASSUME IInv, \A t \in Threads : Told(t), Ledger!Next
  PROVE  \A t \in Threads : Told(t)'
<1>1. PICK P, A, R, L : /\ Phases \in [Threads -> P] /\ Asks \in [Threads -> A]
                        /\ Replies \in [Threads -> R] /\ db.idem \in [Keys -> L]
  BY AbstractTypes
<1>2. ASSUME NEW c \in Threads, NEW a \in Ledger!Asks, Ledger!Submit(c, a), NEW t \in Threads
      PROVE  Told(t)'
  <2>1. Replies'[t] = Replies[t] /\ db'.idem = db.idem
    BY <1>2 DEF Ledger!Submit
  <2>2. CASE t = c
    <3>1. Replies[c] = "none"
      BY <1>2 DEF Ledger!Submit, Told
    <3> QED BY <2>1, <2>2, <3>1, NoReason
  <2>3. CASE t # c
    <3>1. Phases'[t] = Phases[t] /\ Asks'[t] = Asks[t]
      BY <1>1, <1>2, <2>3 DEF Ledger!Submit
    <3> QED BY <2>1, <3>1, ReasonStays
  <2> QED BY <2>2, <2>3
<1>3. ASSUME NEW c \in Threads, NEW k, Ledger!Tell(c, k), Asks' = Asks,
             \A j \in Keys : db.idem[j] # Null => db'.idem[j] = db.idem[j],
             k = "conflict" => /\ Asks[c].key \in Keys /\ db.idem[Asks[c].key] # Null
                               /\ db.idem[Asks[c].key].digest # Asks[c].digest,
             k = "revision" => \E j \in Keys :
                                 /\ db.idem[j] # Null
                                 /\ <<db.idem[j].digest, Asks[c].digest>> \in RevisionClash,
             NEW t \in Threads
      PROVE  Told(t)'
  <2>1. CASE t = c
    <3>1. Replies'[c] = k /\ Phases'[c] = "answered"
      BY <1>1, <1>3 DEF Ledger!Tell
    <3> QED BY <1>3, <2>1, <3>1 DEF Told
  <2>2. CASE t # c
    <3>1. Replies'[t] = Replies[t] /\ Phases'[t] = Phases[t] /\ Asks'[t] = Asks[t]
      BY <1>1, <1>3, <2>2 DEF Ledger!Tell
    <3> QED BY <1>3, <3>1, ReasonStays
  <2> QED BY <2>1, <2>2
<1>4. ASSUME NEW c \in Threads, Ledger!Enter(c), NEW t \in Threads
      PROVE  Told(t)'
  <2>1. Asks' = Asks /\ Phases[c] = "asked" /\ Asks[c].key \in Keys
    BY <1>4, AbstractTypes DEF Ledger!Enter
  <2>2. \A j \in Keys : db.idem[j] # Null => db'.idem[j] = db.idem[j]
    BY <1>1, <1>4 DEF Ledger!Enter, Ledger!Entered
  <2>3. CASE Ledger!Tell(c, "new")
    BY <1>3, <2>1, <2>2, <2>3
  <2>4. CASE Phases' = [Phases EXCEPT ![c] = "entered"] /\ Replies' = Replies
    <3>1. CASE t = c
      BY <2>1, <2>4, <3>1, NoReason DEF Told
    <3>2. CASE t # c
      BY <1>1, <2>1, <2>2, <2>4, <3>2, ReasonStays
    <3> QED BY <3>1, <3>2
  <2> QED BY <1>4, <2>3, <2>4 DEF Ledger!Enter
<1>5. ASSUME NEW c \in Threads, NEW t \in Threads,
             Ledger!Replay(c) \/ Ledger!Refuse(c) \/ Ledger!Lose(c)
      PROVE  Told(t)'
  <2>1. Asks' = Asks /\ db'.idem = db.idem
    BY <1>5 DEF Ledger!Replay, Ledger!Refuse, Ledger!Lose
  <2>2. PICK k \in {"replay", "rolledback", "norecord", "unknown", "damaged"} :
          Ledger!Tell(c, k)
    BY <1>5 DEF Ledger!Replay, Ledger!Refuse, Ledger!Lose
  <2> QED BY <1>3, <2>1, <2>2
<1>6. ASSUME NEW c \in Threads, Ledger!Conflict(c), NEW t \in Threads
      PROVE  Told(t)'
  <2>1. Asks' = Asks /\ db'.idem = db.idem /\ Ledger!Tell(c, "conflict")
    BY <1>6 DEF Ledger!Conflict
  <2>2. /\ Asks[c].key \in Keys /\ db.idem[Asks[c].key] # Null
        /\ db.idem[Asks[c].key].digest # Asks[c].digest
    BY <1>6, AbstractTypes DEF Ledger!Conflict, Ledger!Entered
  <2> QED BY <1>3, <2>1, <2>2
<1>7. ASSUME NEW c \in Threads, Ledger!Exclude(c), NEW t \in Threads
      PROVE  Told(t)'
  <2>1. Asks' = Asks /\ db'.idem = db.idem /\ Ledger!Tell(c, "revision")
    BY <1>7 DEF Ledger!Exclude
  <2>2. \E j \in Keys : db.idem[j] # Null /\ <<db.idem[j].digest, Asks[c].digest>> \in RevisionClash
    BY <1>7 DEF Ledger!Exclude
  <2> QED BY <1>3, <2>1, <2>2
<1>8. ASSUME NEW S \in SUBSET Threads, Ledger!Leave(S), NEW t \in Threads
      PROVE  Told(t)'
  <2>1. db'.idem = db.idem
    BY <1>8 DEF Ledger!Leave
  <2>2. CASE t \in S
    <3>1. Replies'[t] = "none"
      BY <1>8, <2>2 DEF Ledger!Leave
    <3> QED BY <3>1, NoReason
  <2>3. CASE t \notin S
    <3>1. Replies'[t] = Replies[t] /\ Phases'[t] = Phases[t] /\ Asks'[t] = Asks[t]
      BY <1>8, <2>3 DEF Ledger!Leave
    <3> QED BY <2>1, <3>1, ReasonStays
  <2> QED BY <2>2, <2>3
<1> QED BY <1>2, <1>4, <1>5, <1>6, <1>7, <1>8 DEF Ledger!Next

\* A caller that is refused is told the truth, and goes on being told it: a
\* conflict names a key that another request has, and a revision mismatch a
\* subject and request that are on record at another revision, also if that
\* was committed by another process between this call's attempts.
THEOREM RefusalsAreTrue ==
  Spec => [](\A t \in Threads :
    /\ frame[t].said = "conflict" =>
         Recorded(db, Key(t)) /\ db.idem[Key(t)].digest # Digest(t)
    /\ frame[t].said = "revision" =>
         \E k \in Keys : /\ Recorded(db, k)
                         /\ db.idem[k].digest.subject = frame[t].call.subject
                         /\ db.idem[k].digest.request = frame[t].call.request
                         /\ db.idem[k].digest.revision # frame[t].call.revision)
<1> DEFINE Reasons == \A t \in Threads : Told(t)
           True == \A t \in Threads :
    /\ frame[t].said = "conflict" =>
         Recorded(db, Key(t)) /\ db.idem[Key(t)].digest # Digest(t)
    /\ frame[t].said = "revision" =>
         \E k \in Keys : /\ Recorded(db, k)
                         /\ db.idem[k].digest.subject = frame[t].call.subject
                         /\ db.idem[k].digest.request = frame[t].call.request
                         /\ db.idem[k].digest.revision # frame[t].call.revision
<1>1. Ledger!Init => Reasons
  <2> SUFFICES ASSUME Ledger!Init, NEW t \in Threads PROVE Told(t)
    OBVIOUS
  <2>1. Replies[t] = "none"
    BY DEF Ledger!Init
  <2> QED BY <2>1 DEF Told
<1>2. IInv /\ Reasons /\ [Ledger!Next]_(Ledger!vars) => Reasons'
  <2>1. CASE Ledger!Next
    BY <2>1, ReasonsKept
  <2>2. ASSUME UNCHANGED Ledger!vars, NEW t \in Threads, Told(t)
        PROVE  Told(t)'
    BY <2>2, ReasonStays DEF Ledger!vars
  <2> QED BY <2>1, <2>2
<1>3. IInv /\ Reasons => True
  <2> SUFFICES ASSUME IInv, Reasons, NEW t \in Threads,
                      frame[t].said \in {"conflict", "revision"}
               PROVE  /\ frame[t].said = "conflict" =>
                           Recorded(db, Key(t)) /\ db.idem[Key(t)].digest # Digest(t)
                      /\ frame[t].said = "revision" =>
                           \E k \in Keys :
                             /\ Recorded(db, k)
                             /\ db.idem[k].digest.subject = frame[t].call.subject
                             /\ db.idem[k].digest.request = frame[t].call.request
                             /\ db.idem[k].digest.revision # frame[t].call.revision
    OBVIOUS
  <2>1. PC(t) = "return" /\ Replies[t] = frame[t].said /\ Told(t)
    BY DEF IInv, CallsSound, Knows, Replies
  <2>2. Asks[t].key = Key(t) /\ Asks[t].digest = Digest(t)
    BY <2>1, AskOf
  <2>3. frame[t].said = "conflict" =>
          Recorded(db, Key(t)) /\ db.idem[Key(t)].digest # Digest(t)
    BY <2>1, <2>2 DEF Told, Recorded
  <2>4. ASSUME NEW k \in Keys, db.idem[k] # Null,
               <<db.idem[k].digest, Asks[t].digest>> \in RevisionClash
        PROVE  /\ Recorded(db, k)
               /\ db.idem[k].digest.subject = frame[t].call.subject
               /\ db.idem[k].digest.request = frame[t].call.request
               /\ db.idem[k].digest.revision # frame[t].call.revision
    BY <2>2, <2>4 DEF RevisionClash, Recorded, Digest, RequestDigest
  <2> QED BY <2>1, <2>3, <2>4 DEF Told
<1> HIDE DEF Reasons, True
<1>4. Spec => []True
  BY <1>1, <1>2, <1>3, Inductive, Implements, PTL DEF ImplementsLedger, Ledger!Spec
<1> QED BY <1>4 DEF True

-----------------------------------------------------------------------------
(* What callers can conclude from two answers.                             *)

\* What a result given to a caller says of the tables.
LEMMA AckedRows ==
  ASSUME IInv, NEW a \in acked
  PROVE  /\ a.key \in Keys /\ Recorded(db, a.key) /\ a.digest \in Digests
         /\ db.idem[a.key].ref = a.event /\ db.idem[a.key].digest = a.digest
         /\ a.event \in DOMAIN db.events /\ db.events[a.event].run = a.run
         /\ a.run \in DOMAIN db.runs
         /\ db.runs[a.run].subject = a.digest.subject
         /\ db.runs[a.run].request = a.digest.request
         /\ db.runs[a.run].revision = a.digest.revision
<1>1. a.key \in Keys /\ a.digest \in Digests /\ a.event \in Nat
  BY DEF IInv, TypeOK, Results
<1>2. /\ db.idem[a.key] = [digest |-> a.digest, ref |-> a.event]
      /\ a.event \in DOMAIN db.events /\ db.events[a.event].run = a.run
  BY DEF IInv, AckedIsDurable
<1>3. Recorded(db, a.key)
  BY <1>1, <1>2, RecordTypes DEF Recorded
<1>4. db.idem[a.key].ref = a.event /\ db.idem[a.key].digest = a.digest
  BY <1>2
<1>5. Matches(db, a.key) /\ a.run \in DOMAIN db.runs
  BY <1>1, <1>2, <1>3 DEF IInv, TablesSound, WellFiled
<1> QED BY <1>1, <1>2, <1>3, <1>4, <1>5 DEF Matches

\* Any two results, given to any callers at any time, agree: the same key is
\* answered with the same event and request, another key with another event,
\* and two results name the same run exactly if their requests have the same
\* subject and request id, and then they have the same revision.
THEOREM AnswersAgree ==
  Spec => [](\A a, b \in acked :
    /\ a.key = b.key <=> a.event = b.event
    /\ a.key = b.key => a.digest = b.digest /\ a.run = b.run
    /\ a.run = b.run <=> /\ a.digest.subject = b.digest.subject
                         /\ a.digest.request = b.digest.request
    /\ a.run = b.run => a.digest.revision = b.digest.revision)
<1> DEFINE Agree == \A a, b \in acked :
    /\ a.key = b.key <=> a.event = b.event
    /\ a.key = b.key => a.digest = b.digest /\ a.run = b.run
    /\ a.run = b.run <=> /\ a.digest.subject = b.digest.subject
                         /\ a.digest.request = b.digest.request
    /\ a.run = b.run => a.digest.revision = b.digest.revision
<1>1. IInv => Agree
  <2> SUFFICES ASSUME IInv, NEW a \in acked, NEW b \in acked
               PROVE  /\ a.key = b.key <=> a.event = b.event
                      /\ a.key = b.key => a.digest = b.digest /\ a.run = b.run
                      /\ a.run = b.run <=> /\ a.digest.subject = b.digest.subject
                                           /\ a.digest.request = b.digest.request
                      /\ a.run = b.run => a.digest.revision = b.digest.revision
    OBVIOUS
  <2>1. a.event = b.event => a.key = b.key
    BY AckedRows DEF IInv, TablesSound, OneToOne
  <2>2. a.key = b.key => a.event = b.event /\ a.digest = b.digest /\ a.run = b.run
    BY AckedRows
  <2>3. a.run = b.run => /\ a.digest.subject = b.digest.subject
                         /\ a.digest.request = b.digest.request
                         /\ a.digest.revision = b.digest.revision
    BY AckedRows
  <2>4. /\ a.digest.subject = b.digest.subject
        /\ a.digest.request = b.digest.request
        => a.run = b.run
    BY AckedRows DEF IInv, TablesSound, WellFiled
  <2> QED BY <2>1, <2>2, <2>3, <2>4
<1> HIDE DEF Agree
<1>2. Spec => []Agree
  BY <1>1, Inductive, PTL
<1> QED BY <1>2 DEF Agree

-----------------------------------------------------------------------------
(* The length of a call.                                                   *)

\* The steps of an attempt from its BEGIN to the recovery.
Attempt == Transaction \cup {"begin", "recover"}

Place(p) ==
  CASE p = "begin"       -> 11
    [] p = "check"       -> 10
    [] p = "subject"     -> 9
    [] p = "run"         -> 8
    [] p = "event"       -> 7
    [] p = "state"       -> 6
    [] p = "record"      -> 5
    [] p = "commit"      -> 4
    [] p = "recover"     -> 3
    [] p = "reconstruct" -> 2
    [] p = "return"      -> 1
    [] p = "lock"        -> 21
    [] p = "idle"        -> 0

\* The steps a call still has before it at most: those of its attempt, and
\* those of the one retry if that has not been used.
StepsLeft(t) == Place(PC(t)) + (IF PC(t) \in Attempt /\ ~ frame[t].retry THEN 9 ELSE 0)

LEMMA Places ==
  /\ Place("begin") = 11 /\ Place("check") = 10 /\ Place("subject") = 9 /\ Place("run") = 8
  /\ Place("event") = 7 /\ Place("state") = 6 /\ Place("record") = 5 /\ Place("commit") = 4
  /\ Place("recover") = 3 /\ Place("reconstruct") = 2 /\ Place("return") = 1
  /\ Place("lock") = 21 /\ Place("idle") = 0
BY DEF Place

LEMMA StepsBounded ==
  ASSUME TypeOK, NEW t \in Threads
  PROVE  StepsLeft(t) \in 0..21
<1>1. PC(t) \in Labels
  BY FrameTypes DEF TypeOK
<1> QED BY <1>1, Places DEF StepsLeft, Labels, Attempt, Outside, Transaction

\* What t has after a step that leads it to p and leaves the retry flag.
LEMMA StepsFall ==
  ASSUME TypeOK, NEW t \in Threads, NEW p \in Labels, PC(t)' = p,
         frame'[t].retry = frame[t].retry, PC(t) # "idle", Place(p) < Place(PC(t)),
         PC(t) \in Attempt \/ p \notin Attempt \/ PC(t) = "lock"
  PROVE  StepsLeft(t)' < StepsLeft(t)
<1>1. PC(t) \in Labels
  BY FrameTypes DEF TypeOK
<1>2. Place(p) \in Nat /\ Place(PC(t)) \in Nat
  BY <1>1, Places DEF Labels, Attempt, Outside, Transaction
<1>3. CASE PC(t) = "lock"
  <2>1. Place(p) <= 11 /\ StepsLeft(t) = 21
    BY <1>3, Places DEF StepsLeft, Labels, Attempt, Outside, Transaction
  <2> QED BY <1>2, <2>1 DEF StepsLeft
<1>4. CASE PC(t) # "lock"
  BY <1>2, <1>4 DEF StepsLeft
<1> QED BY <1>3, <1>4

\* Where an answer leads, and the flag it leaves.
LEMMA AnswerReturns ==
  ASSUME TypeOK, NEW t \in Threads, NEW k, Answer(t, k)
  PROVE  PC(t)' = "return" /\ frame'[t].retry = frame[t].retry
<1> DEFINE f == [frame[t] EXCEPT !.pc = "return", !.said = k]
<1>1. frame \in [Threads -> Frames] /\ frame[t] \in Frames
  BY DEF TypeOK
<1>2. f.pc = "return" /\ f.retry = frame[t].retry
  BY <1>1 DEF Frames
<1>3. frame' = [frame EXCEPT ![t] = f]
  BY DEF Answer, Move
<1> HIDE DEF f
<1>4. frame'[t] = f
  BY <1>1, <1>3
<1> QED BY <1>2, <1>4

\* A run is found or created, and the event comes next.
LEMMA RunResolved ==
  ASSUME TypeOK, NEW t \in Threads, NEW n, Move(t, [frame[t] EXCEPT !.pc = "event", !.run = n])
  PROVE  PC(t)' = "event" /\ frame'[t].retry = frame[t].retry
BY DEF TypeOK, Move, Frames

LEMMA StepsCounted ==
  ASSUME TypeOK, NEW t \in Threads, Step(t)
  PROVE  StepsLeft(t)' < StepsLeft(t)
<1> DEFINE Leads(from, to) ==
      PC(t) \in from /\ PC(t)' = to /\ frame'[t].retry = frame[t].retry
<1>1. frame \in [Threads -> Frames] /\ frame[t] \in Frames
  BY DEF TypeOK
<1>2. CASE AcquireLock(t)
  <2>1. Leads({"lock"}, "begin")
    BY <1>1, <1>2 DEF AcquireLock, Move, Frames
  <2> QED BY <2>1, StepsFall, Places DEF Labels, Attempt, Outside, Transaction
<1>3. CASE BeginImmediate(t)
  <2>1. Leads({"begin"}, "check")
    BY <1>1, <1>3 DEF BeginImmediate, Move, Frames
  <2> QED BY <2>1, StepsFall, Places DEF Labels, Attempt, Outside, Transaction
<1>4. CASE FindNoRecord(t)
  <2>1. Leads({"check"}, "subject")
    BY <1>1, <1>4 DEF FindNoRecord, Move, Frames
  <2> QED BY <2>1, StepsFall, Places DEF Labels, Attempt, Outside, Transaction
<1>5. CASE EnsureSubject(t)
  <2>1. Leads({"subject"}, "run")
    BY <1>1, <1>5 DEF EnsureSubject, Move, Frames
  <2> QED BY <2>1, StepsFall, Places DEF Labels, Attempt, Outside, Transaction
<1>6. CASE UseRun(t) \/ CreateRun(t)
  <2> SUFFICES ASSUME PC(t) = "run",
                      NEW n, Move(t, [frame[t] EXCEPT !.pc = "event", !.run = n])
               PROVE  StepsLeft(t)' < StepsLeft(t)
    BY <1>6 DEF UseRun, CreateRun, PC
  <2>1. Leads({"run"}, "event")
    BY RunResolved
  <2> QED BY <2>1, StepsFall, Places DEF Labels, Attempt, Outside, Transaction
<1>7. CASE InsertEvent(t)
  <2>1. Leads({"event"}, "state")
    BY <1>1, <1>7 DEF InsertEvent, Move, Frames
  <2> QED BY <2>1, StepsFall, Places DEF Labels, Attempt, Outside, Transaction
<1>8. CASE UpsertRunState(t)
  <2>1. Leads({"state"}, "record")
    BY <1>1, <1>8 DEF UpsertRunState, Move, Frames
  <2> QED BY <2>1, StepsFall, Places DEF Labels, Attempt, Outside, Transaction
<1>9. CASE InsertRecord(t)
  <2>1. Leads({"record"}, "commit")
    BY <1>1, <1>9 DEF InsertRecord, Move, Frames
  <2> QED BY <2>1, StepsFall, Places DEF Labels, Attempt, Outside, Transaction
<1>10. CASE CommitRaisesLate(t) \/ CommitRaisesEarly(t)
  <2>1. CommitRaisesLate(t) => Leads({"commit"}, "recover")
    BY <1>1 DEF CommitRaisesLate, Move, Frames
  <2>2. CommitRaisesEarly(t) => Leads({"commit"}, "recover")
    BY <1>1 DEF CommitRaisesEarly, Move, Frames
  <2> QED BY <1>10, <2>1, <2>2, StepsFall, Places DEF Labels, Attempt, Outside, Transaction
<1>11. CASE FindReplay(t) \/ RecoverReplay(t)
  <2>1. Leads({"check", "recover"}, "reconstruct")
    BY <1>1, <1>11 DEF FindReplay, RecoverReplay, Move, Frames
  <2> QED BY <2>1, StepsFall, Places DEF Labels, Attempt, Outside, Transaction
<1>12. CASE \/ BeginFails(t) \/ FindConflict(t) \/ RefuseRevision(t) \/ StatementFails(t)
            \/ GiveUp(t) \/ RecoverConflict(t) \/ ReadFails(t) \/ RefuseDamaged(t)
  <2>1. PC(t) \in Attempt \cup {"reconstruct"}
    BY <1>12 DEF BeginFails, FindConflict, RefuseRevision, StatementFails, GiveUp,
       RecoverConflict, ReadFails, RefuseDamaged, Attempt, Transaction
  <2>2. PICK k : Answer(t, k)
    BY <1>12 DEF BeginFails, FindConflict, RefuseRevision, StatementFails, GiveUp,
       RecoverConflict, ReadFails, RefuseDamaged
  <2>3. Leads(Attempt \cup {"reconstruct"}, "return")
    BY <2>1, <2>2, AnswerReturns
  <2> QED BY <2>3, StepsFall, Places DEF Labels, Attempt, Outside, Transaction
<1>13. CASE Commit(t) \/ ReconstructResult(t)
  <2>1. Commit(t) => Leads({"commit"}, "return")
    BY <1>1 DEF Commit, Move, Frames
  <2>2. ReconstructResult(t) => Leads({"reconstruct"}, "return")
    BY <1>1 DEF ReconstructResult, Move, Frames
  <2> QED BY <1>13, <2>1, <2>2, StepsFall, Places DEF Labels, Attempt, Outside, Transaction
<1>14. CASE RetryOnce(t)
  <2>1. PC(t) = "recover" /\ ~ frame[t].retry /\ PC(t)' = "begin" /\ frame'[t].retry
    BY <1>1, <1>14 DEF RetryOnce, Move, Frames
  <2> QED BY <2>1, Places DEF StepsLeft, Attempt, Transaction
<1>15. CASE Return(t)
  <2>1. PC(t) = "return" /\ PC(t)' = "idle"
    BY <1>1, <1>15 DEF Return, Move, IdleFrame
  <2> QED BY <2>1, Places DEF StepsLeft, Attempt, Transaction
<1> QED BY <1>2, <1>3, <1>4, <1>5, <1>6, <1>7, <1>8, <1>9, <1>10, <1>11, <1>12, <1>13,
           <1>14, <1>15 DEF Step

\* Other callers do not lengthen a call, and a crash ends it.
LEMMA OthersCount ==
  ASSUME TypeOK, NEW t \in Threads, Next, ~ Step(t), \A c \in Calls : ~ Call(t, c)
  PROVE  StepsLeft(t)' <= StepsLeft(t)
<1>1. frame[t] \in Frames /\ frame \in [Threads -> Frames] /\ StepsLeft(t) \in 0..21
  BY StepsBounded DEF TypeOK
<1>2. ASSUME frame'[t] = frame[t] PROVE StepsLeft(t)' <= StepsLeft(t)
  <2>1. StepsLeft(t)' = StepsLeft(t)
    BY <1>2 DEF StepsLeft
  <2> QED BY <1>1, <2>1
<1>3. ASSUME NEW u \in Threads, u # t, Step(u) PROVE frame'[t] = frame[t]
  BY <1>1, <1>3 DEF Step, AcquireLock, BeginImmediate, BeginFails, FindNoRecord, FindConflict,
     FindReplay, EnsureSubject, UseRun, RefuseRevision, CreateRun, InsertEvent, UpsertRunState,
     InsertRecord, StatementFails, Commit, CommitRaisesLate, CommitRaisesEarly, RetryOnce,
     GiveUp, RecoverConflict, RecoverReplay, ReadFails, ReconstructResult, RefuseDamaged,
     Return, Answer, Move
<1>4. ASSUME NEW u \in Threads, u # t, NEW c \in Calls, Call(u, c) PROVE frame'[t] = frame[t]
  BY <1>1, <1>4 DEF Call, Move
<1>5. ASSUME NEW p \in Procs, Crash(p) PROVE StepsLeft(t)' <= StepsLeft(t)
  <2>1. frame'[t] = frame[t] \/ frame'[t] = IdleFrame
    BY <1>5 DEF Crash
  <2>2. CASE frame'[t] = IdleFrame
    <3>1. PC(t)' = "idle"
      BY <2>2 DEF IdleFrame
    <3>2. StepsLeft(t)' = 0
      BY <3>1, Places DEF StepsLeft, Attempt, Transaction
    <3> QED BY <1>1, <3>2
  <2> QED BY <1>2, <2>1, <2>2
<1>6. ASSUME NEW e \in DOMAIN db.events, NEW v \in Damages, Damage(e, v)
      PROVE  frame'[t] = frame[t]
  BY <1>6 DEF Damage
<1>7. Quiet => frame'[t] = frame[t]
  BY DEF Quiet, vars
<1> QED BY <1>2, <1>3, <1>4, <1>5, <1>6, <1>7 DEF Next

\* A call takes at most 21 steps of its own: one attempt, and one retry of an
\* uncertain commit.  No other caller, process or crash sends it back.  With
\* the fairness of FairSpec, this is why every call ends.
THEOREM CallsAreBounded ==
  Spec => /\ [](\A t \in Threads : StepsLeft(t) \in 0..21)
          /\ [][\A t \in Threads :
                  /\ Step(t) => StepsLeft(t)' < StepsLeft(t)
                  /\ (\A c \in Calls : ~ Call(t, c)) => StepsLeft(t)' <= StepsLeft(t)]_vars
<1> DEFINE Bounded == \A t \in Threads : StepsLeft(t) \in 0..21
           Counted == \A t \in Threads :
                  /\ Step(t) => StepsLeft(t)' < StepsLeft(t)
                  /\ (\A c \in Calls : ~ Call(t, c)) => StepsLeft(t)' <= StepsLeft(t)
<1>1. TypeOK => Bounded
  BY StepsBounded
<1>2. ASSUME TypeOK, TypeOK', [Next]_vars
      PROVE  [Counted]_vars
  <2> SUFFICES ASSUME NEW t \in Threads, Next
               PROVE  /\ Step(t) => StepsLeft(t)' < StepsLeft(t)
                      /\ (\A c \in Calls : ~ Call(t, c)) => StepsLeft(t)' <= StepsLeft(t)
    BY <1>2
  <2>1. Bounded /\ Bounded'
    BY <1>1, <1>2, PTL
  <2>2. StepsLeft(t) \in 0..21 /\ StepsLeft(t)' \in 0..21
    BY <2>1
  <2>3. Step(t) => StepsLeft(t)' < StepsLeft(t)
    BY <1>2, StepsCounted
  <2>4. ASSUME ~ Step(t), \A c \in Calls : ~ Call(t, c)
        PROVE  StepsLeft(t)' <= StepsLeft(t)
    BY <1>2, <2>4, OthersCount
  <2> HIDE DEF PC
  <2> QED BY <2>2, <2>3, <2>4
<1> QED BY <1>1, <1>2, Typing, PTL DEF Spec
=============================================================================
