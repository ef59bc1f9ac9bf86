------------------------ MODULE EventStoreInvariant ------------------------
(***************************************************************************)
(* The inductive invariant behind the safety properties of EventStore.  It *)
(* says what the tables of an open transaction may look like between two   *)
(* statements, and what each call knows at each of its program points.     *)
(***************************************************************************)
EXTENDS EventStore

PC(t) == frame[t].pc

\* Between the INSERT of its event and that of its idempotency record, the
\* writing call owns an event no key names yet.
Pending ==
  IF writer # Null /\ PC(writer) \in {"state", "record"}
    THEN {frame[writer].ref} ELSE {}

\* Keys and events correspond one to one, except for the pending event.
OneToOne(T, pending) ==
  /\ \A k \in Keys : Recorded(T, k) =>
       T.idem[k].ref \in DOMAIN T.events /\ T.idem[k].ref \notin pending
  /\ \A j, k \in Keys :
       Recorded(T, j) /\ Recorded(T, k) /\ T.idem[j].ref = T.idem[k].ref => j = k
  /\ \A e \in DOMAIN T.events : e \notin pending =>
       \E k \in Keys : Recorded(T, k) /\ T.idem[k].ref = e

\* Events are filed under runs that exist, keys under the run they asked for,
\* and a subject and request have one run.
WellFiled(T) ==
  /\ \A e \in DOMAIN T.events : T.events[e].run \in DOMAIN T.runs
  /\ \A k \in Keys : Recorded(T, k) => Matches(T, k)
  /\ \A r, s \in DOMAIN T.runs :
       /\ T.runs[r].subject = T.runs[s].subject
       /\ T.runs[r].request = T.runs[s].request
       => r = s

\* Every run has an event, except the one whose first event is about to come.
RunsFiled(T, unfiled) ==
  \A r \in DOMAIN T.runs : r \notin unfiled =>
    \E e \in DOMAIN T.events : T.events[e].run = r

\* The run resolved or created by a transaction that has no event in it yet.
Unfiled ==
  IF writer # Null /\ PC(writer) = "event" THEN {frame[writer].run} ELSE {}

TablesSound ==
  /\ OneToOne(db, {}) /\ WellFiled(db) /\ RunsFiled(db, {})
  /\ OneToOne(work, Pending) /\ WellFiled(work) /\ RunsFiled(work, Unfiled)

\* Outside a transaction the working copy is the committed state; inside, it
\* extends it.
WorkExtends == (writer = Null => work = db) /\ Extends(db, work)

\* What a call in the middle of its transaction has done so far.
InProgress(t) ==
  LET c == frame[t].call
  IN  /\ PC(t) \in {"check", "subject"} => work = db
      /\ PC(t) \in {"check", "subject", "run"} => work.runs = db.runs
      /\ PC(t) \in {"check", "subject", "run", "event"} => work.events = db.events
      /\ PC(t) \in Transaction \ {"check"} => ~ Recorded(db, Key(t))
      /\ PC(t) \in Transaction \ {"commit"} => work.idem = db.idem
      /\ PC(t) \in {"event", "state", "record"} =>
           /\ frame[t].run \in DOMAIN work.runs
           /\ work.runs[frame[t].run] =
                [subject |-> c.subject, request |-> c.request, revision |-> c.revision]
      /\ PC(t) \in {"state", "record"} =>
           /\ frame[t].ref \in DOMAIN work.events
           /\ work.events[frame[t].ref].run = frame[t].run
           /\ work.events[frame[t].ref].hash = PayloadDigest(c.body)
      /\ PC(t) \in {"state", "record", "commit"} =>
           Len(work.events) = Len(db.events) + 1 /\ frame[t].ref = Len(db.events) + 1
      /\ PC(t) = "commit" =>
           /\ work.idem =
                [db.idem EXCEPT ![Key(t)] = [digest |-> Digest(t), ref |-> frame[t].ref]]
           /\ work.events[frame[t].ref].run = frame[t].run

\* What a call that read or wrote its idempotency record knows of it.
Stored(t) == db.idem[Key(t)] = [digest |-> Digest(t), ref |-> frame[t].ref]

Knows(t) ==
  /\ PC(t) # "idle" => frame[t].call \in Calls
  /\ frame[t].said # "none" <=> PC(t) = "return"
  /\ PC(t) = "reconstruct" => Stored(t)
  /\ frame[t].said \in {"new", "replay"} =>
       Stored(t) /\ db.events[frame[t].ref].run = frame[t].run
  /\ frame[t].mine =>
       /\ PC(t) \in {"recover", "reconstruct", "return"}
       /\ Recorded(db, Key(t))
       /\ db.idem[Key(t)].digest = Digest(t)
       /\ frame[t].said \in {"none", "new", "replay", "damaged", "unknown"}

CallsSound == \A t \in Threads : InProgress(t) /\ Knows(t)

\* The conjunction that every step preserves.
IInv ==
  /\ TypeOK
  /\ LockDiscipline
  /\ TablesSound
  /\ WorkExtends
  /\ CallsSound
  /\ AckedIsDurable

-----------------------------------------------------------------------------
(* Two further inductive parts, each relative to IInv.                     *)

\* The rows of tables T go together, but for the subject, the state row and
\* the event that are still due.
RowsWhole(T, subjects, unstated, unfiled) ==
  /\ T.subjects = {T.runs[r].subject : r \in DOMAIN T.runs} \cup subjects
  /\ DOMAIN T.runs = {row.run : row \in T.state} \cup unstated
  /\ DOMAIN T.runs = {T.events[e].run : e \in DOMAIN T.events} \cup unfiled

\* Every state row shows its run's latest event, but for the runs behind.
UpToDate(T, behind) ==
  \A row \in T.state : row.run \notin behind =>
    \E e \in DOMAIN T.events :
      /\ T.events[e].run = row.run
      /\ T.events[e].hash = PayloadDigest(row.body)
      /\ \A f \in DOMAIN T.events : T.events[f].run = row.run => f <= e

\* What the writing call has still to insert.
SubjectDue ==
  IF writer # Null /\ PC(writer) = "run" THEN {frame[writer].call.subject} ELSE {}
Unstated ==
  IF writer # Null /\ PC(writer) \in {"event", "state"} THEN {frame[writer].run} ELSE {}
Behind ==
  IF writer # Null /\ PC(writer) = "state" THEN {frame[writer].run} ELSE {}

RowsInv ==
  /\ RowsWhole(db, {}, {}, {}) /\ UpToDate(db, {})
  /\ RowsWhole(work, SubjectDue, Unstated, Unfiled) /\ UpToDate(work, Behind)

\* A call whose commit landed is the only one of its key, and no caller has
\* been told yet that the key was fresh.
FreshInv ==
  \A t \in Threads :
    /\ frame[t].said = "new" => frame[t].mine
    /\ frame[t].mine =>
         /\ \A a \in acked : a.fresh => a.key # Key(t)
         /\ \A u \in Threads \ {t} : frame[u].mine => Key(u) # Key(t)
=============================================================================
