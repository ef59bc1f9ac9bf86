------------------------ MODULE EventStoreRefinement ------------------------
(* EventStore implements IdempotentLedger: the ledger is the table of      *)
(* idempotency records, and a call has entered it when its commit landed.  *)
EXTENDS EventStoreInvariant

AbstractPhase(f) ==
  CASE f.pc = "idle" -> "idle"
    [] f.pc = "return" -> "answered"
    [] f.pc \notin {"idle", "return"} /\ f.mine -> "entered"
    [] OTHER -> "asked"

\* One subject and request id cannot have two revisions.
RevisionClash ==
  {p \in Digests \X Digests :
     /\ p[1].subject = p[2].subject
     /\ p[1].request = p[2].request
     /\ p[1].revision # p[2].revision}

Asked(f) ==
  IF f.pc = "idle" THEN Null ELSE [key |-> f.call.key, digest |-> RequestDigest(f.call)]

Phases  == [t \in Threads |-> AbstractPhase(frame[t])]
Asks    == [t \in Threads |-> Asked(frame[t])]
Replies == [t \in Threads |-> frame[t].said]

Ledger == INSTANCE IdempotentLedger WITH
  Clients <- Threads, Clash <- RevisionClash,
  ledger <- db.idem, size <- Len(db.events),
  phase <- Phases, ask <- Asks, reply <- Replies

\* Statement by statement, through rollbacks, uncertain commits, retries and
\* crashes, record_run_event behaves as the one-step ledger its docstring
\* describes ("Persist one audit event atomically with built-in recovery").
ImplementsLedger == Ledger!Spec
=============================================================================
