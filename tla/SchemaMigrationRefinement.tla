--------------------- MODULE SchemaMigrationRefinement ---------------------
(* SchemaMigration implements AtomicMigration: the schema is what is       *)
(* committed, and a constructor is served when its commit has landed and   *)
(* been reported.                                                          *)
EXTENDS SchemaMigration

AbstractPhase(f) ==
  CASE f.pc = "idle" -> "idle"
    [] f.pc = "return" -> "served"
    [] OTHER -> "asked"

Phases == [t \in Threads |-> AbstractPhase(frame[t])]

Migration == INSTANCE AtomicMigration WITH
  Clients <- Threads, Nothing <- Blank, Whole <- Full,
  schema <- disk, phase <- Phases

\* Through two processes' locks, eight statements, rollbacks, uncertain
\* commits and crashes, the constructors behave as if the schema came whole
\* in one step: a failed or concurrent migration leaves all of it or nothing,
\* and whoever holds a repository holds one whose tables are there.
ImplementsAtomicMigration == Migration!Spec
=============================================================================
