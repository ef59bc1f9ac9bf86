-------------------------- MODULE IdempotentLedger --------------------------
(***************************************************************************)
(* What EventRepository promises its callers: an append-only ledger with   *)
(* one entry per idempotency key, entered in one step.  A caller is told   *)
(* "new" only in the step that enters its request, "replay" only for an    *)
(* entry with its own digest, and a refusal only while nothing of its call *)
(* is in the ledger.  A lost caller or a lost answer may leave an entry.   *)
(***************************************************************************)
EXTENDS Naturals

CONSTANTS
  Clients, Keys, Digests,
  Clash,   \* pairs of digests that exclude each other from the ledger
  Null

VARIABLES
  ledger,  \* ledger[k]: the digest entered under key k and its position
  size,    \* entries so far
  phase,   \* where each client stands
  ask,     \* the key and digest of a client's call
  reply    \* the answer a client has been given

vars == <<ledger, size, phase, ask, reply>>

Asks == [key : Keys, digest : Digests]

Init ==
  /\ ledger = [k \in Keys |-> Null]
  /\ size = 0
  /\ phase = [c \in Clients |-> "idle"]
  /\ ask = [c \in Clients |-> Null]
  /\ reply = [c \in Clients |-> "none"]

Entered(c) == ledger[ask[c].key] # Null

Submit(c, a) ==
  /\ phase[c] = "idle"
  /\ phase' = [phase EXCEPT ![c] = "asked"]
  /\ ask' = [ask EXCEPT ![c] = a]
  /\ UNCHANGED <<ledger, size, reply>>

Tell(c, answer) ==
  /\ phase' = [phase EXCEPT ![c] = "answered"]
  /\ reply' = [reply EXCEPT ![c] = answer]

Enter(c) ==
  /\ phase[c] = "asked"
  /\ ~ Entered(c)
  /\ \A k \in Keys : ledger[k] # Null => <<ledger[k].digest, ask[c].digest>> \notin Clash
  /\ size' = size + 1
  /\ ledger' = [ledger EXCEPT ![ask[c].key] = [digest |-> ask[c].digest, ref |-> size + 1]]
  /\ \/ Tell(c, "new")
     \/ phase' = [phase EXCEPT ![c] = "entered"] /\ reply' = reply
  /\ ask' = ask

\* The key is in the ledger with the client's own digest.
Replay(c) ==
  /\ phase[c] \in {"asked", "entered"}
  /\ Entered(c)
  /\ ledger[ask[c].key].digest = ask[c].digest
  /\ Tell(c, "replay")
  /\ UNCHANGED <<ledger, size, ask>>

Conflict(c) ==
  /\ phase[c] = "asked"
  /\ Entered(c)
  /\ ledger[ask[c].key].digest # ask[c].digest
  /\ Tell(c, "conflict")
  /\ UNCHANGED <<ledger, size, ask>>

Exclude(c) ==
  /\ phase[c] = "asked"
  /\ \E k \in Keys : ledger[k] # Null /\ <<ledger[k].digest, ask[c].digest>> \in Clash
  /\ Tell(c, "revision")
  /\ UNCHANGED <<ledger, size, ask>>

\* An error after which the client's call has certainly entered nothing.
Refuse(c) ==
  /\ phase[c] = "asked"
  /\ Tell(c, "rolledback") \/ Tell(c, "norecord")
  /\ UNCHANGED <<ledger, size, ask>>

\* An error that tells nothing: the entry may be there.
Lose(c) ==
  /\ phase[c] \in {"asked", "entered"}
  /\ Tell(c, "unknown") \/ Tell(c, "damaged")
  /\ UNCHANGED <<ledger, size, ask>>

\* Clients leave with their answers, or vanish in the middle of a call.
Leave(S) ==
  /\ phase' = [c \in Clients |-> IF c \in S THEN "idle" ELSE phase[c]]
  /\ ask' = [c \in Clients |-> IF c \in S THEN Null ELSE ask[c]]
  /\ reply' = [c \in Clients |-> IF c \in S THEN "none" ELSE reply[c]]
  /\ UNCHANGED <<ledger, size>>

Next ==
  \/ \E c \in Clients :
       \/ \E a \in Asks : Submit(c, a)
       \/ Enter(c) \/ Replay(c) \/ Conflict(c) \/ Exclude(c) \/ Refuse(c) \/ Lose(c)
  \/ \E S \in SUBSET Clients : Leave(S)

Spec == Init /\ [][Next]_vars
=============================================================================
