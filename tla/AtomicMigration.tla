-------------------------- MODULE AtomicMigration --------------------------
(***************************************************************************)
(* What EventRepository.__init__ promises its callers: one step takes the  *)
(* file from no schema to the whole schema, and a constructor returns a    *)
(* repository only after such a step of its own.  A constructor that       *)
(* raises, or whose process dies, may have taken the step or not.          *)
(***************************************************************************)
CONSTANTS
  Clients,
  Nothing, Whole   \* the two schemas a file ever holds

VARIABLES
  schema,
  phase,   \* where each client's constructor stands
  ready    \* clients that hold a repository

vars == <<schema, phase, ready>>

Init ==
  /\ schema = Nothing
  /\ phase = [c \in Clients |-> "idle"]
  /\ ready = {}

Ask(c) ==
  /\ phase[c] = "idle"
  /\ phase' = [phase EXCEPT ![c] = "asked"]
  /\ UNCHANGED <<schema, ready>>

\* The migration takes place; its caller learns of it, or does not.
Apply(c) ==
  /\ phase[c] = "asked"
  /\ schema' = Whole
  /\ phase' = [phase EXCEPT ![c] = "served"] \/ phase' = phase
  /\ ready' = ready

Open(c) ==
  /\ phase[c] = "served"
  /\ phase' = [phase EXCEPT ![c] = "idle"]
  /\ ready' = ready \cup {c}
  /\ schema' = schema

Refuse(c) ==
  /\ phase[c] = "asked"
  /\ phase' = [phase EXCEPT ![c] = "idle"]
  /\ UNCHANGED <<schema, ready>>

\* A process dies: its clients vanish in whatever they were doing.
Leave(S) ==
  /\ phase' = [c \in Clients |-> IF c \in S THEN "idle" ELSE phase[c]]
  /\ ready' = ready \ S
  /\ schema' = schema

Next ==
  \/ \E c \in Clients : Ask(c) \/ Apply(c) \/ Open(c) \/ Refuse(c)
  \/ \E S \in SUBSET Clients : Leave(S)

Spec == Init /\ [][Next]_vars
=============================================================================
