----------------------------- MODULE NadiRelay ------------------------------
(***************************************************************************)
(* .github/workflows/heartbeat.yml: a scheduled run checks the node out,   *)
(* fetches the pinned nadi_kit, runs its cycle, pushes the node's state    *)
(* and copies the outbox over the node's file on the federation hub.       *)
(*                                                                         *)
(* Operators push to the node and other nodes and consumers push to the    *)
(* hub at any moment.  A push is accepted only on the tip it was made      *)
(* from; instead of comparing commits the model notes that the tip moved.  *)
(* The file on the hub is the set of envelopes in it.                      *)
(***************************************************************************)
EXTENDS Naturals

CONSTANTS
  Envelopes,
  Versions,    \* what the files the run has no business with may hold
  MaxRetries,  \* max_retries
  NoClone      \* there is no /tmp/hub

ASSUME Retries == MaxRetries \in Nat

VARIABLES
  origin,   \* the node's main branch: its outbox, and the rest
  hub,      \* the hub's main branch: the node's file, and the other files
  run,      \* the runner: its checkout and its place
  clone,    \* the relay step: its clone of the hub and its count of pushes
  carried   \* history: envelopes the hub's file held since the run began

vars == <<origin, hub, run, clone, carried>>

-----------------------------------------------------------------------------
Origins == [outbox : SUBSET Envelopes, rest : Versions]
Hubs    == [file : SUBSET Envelopes, other : Versions]

Places == {"idle", "download", "cycle", "commit", "relay", "push", "pull", "clear"}

\* What became of the relay step.
Ends == {"nothing", "skipped", "cleared", "failed"}

Runs == [pc : Places,
         checkout : Origins,  \* the working tree
         stale : BOOLEAN,     \* origin moved since the checkout
         said : Ends]

Clones == [tree : Hubs,              \* what /tmp/hub has committed
           base : SUBSET Envelopes,  \* the file in the parent of that commit
           found : SUBSET Envelopes, \* history: the file as cloned
           behind : BOOLEAN,         \* the hub moved since the clone or the pull
           count : 0..MaxRetries]

ASSUME NoCloneIsNone == NoClone \notin Clones

Init ==
  /\ origin \in Origins
  /\ hub \in Hubs
  /\ run = [pc |-> "idle", checkout |-> origin, stale |-> FALSE, said |-> "nothing"]
  /\ clone = NoClone
  /\ carried = {}

Goto(place) == run' = [run EXCEPT !.pc = place]

\* The job is over and its runner is thrown away.
End(how) ==
  /\ run' = [run EXCEPT !.pc = "idle", !.stale = FALSE, !.said = how]
  /\ clone' = NoClone
  /\ UNCHANGED <<origin, hub, carried>>

-----------------------------------------------------------------------------
(* The steps up to the relay.                                              *)

\* One run at a time: concurrency group "heartbeat".
Begin ==
  /\ run.pc = "idle"
  /\ run' = [run EXCEPT !.pc = "download", !.checkout = origin, !.stale = FALSE,
                        !.said = "nothing"]
  /\ carried' = hub.file
  /\ UNCHANGED <<origin, hub, clone>>

\* The answer is decoded as the API's JSON document and compared with the
\* pinned digest.  An answer that is the file itself, as the raw URL gives
\* it, cannot be decoded: the step fails and the cycle is skipped.
Answers == {"pinned document", "other document", "file itself", "none"}

Download(answer) ==
  /\ run.pc = "download"
  /\ Goto(IF answer = "pinned document" THEN "cycle" ELSE "commit")
  /\ UNCHANGED <<origin, hub, clone, carried>>

\* nadi_kit rewrites the outbox, and may fail half way.
Cycle(outbox) ==
  /\ run.pc = "cycle"
  /\ run' = [run EXCEPT !.pc = "commit", !.checkout.outbox = outbox]
  /\ UNCHANGED <<origin, hub, clone, carried>>

\* "if: always()": after a failed download or cycle too.
PushState ==
  /\ run.pc = "commit"
  /\ ~ run.stale
  /\ origin' = run.checkout
  /\ Goto("relay")
  /\ UNCHANGED <<hub, clone, carried>>

\* "git push || true": rejected or unreachable, the run goes on.
PushStateRejected ==
  /\ run.pc = "commit"
  /\ Goto("relay")
  /\ UNCHANGED <<origin, hub, clone, carried>>

-----------------------------------------------------------------------------
(* Relay outbox to steward-federation hub, if: always().                   *)

SkipRelay ==
  /\ run.pc = "relay"
  /\ run.checkout.outbox = {}
  /\ End("skipped")

\* git clone, cp of the whole outbox, and a commit unless nothing changed.
CloneHub ==
  /\ run.pc = "relay"
  /\ run.checkout.outbox # {}
  /\ Goto("push")
  /\ clone' = [tree |-> [hub EXCEPT !.file = run.checkout.outbox],
               base |-> hub.file, found |-> hub.file, behind |-> FALSE, count |-> 0]
  /\ UNCHANGED <<origin, hub, carried>>

\* git push origin main: fast-forward only, or everything up to date.
Push ==
  /\ run.pc = "push"
  /\ ~ clone.behind
  /\ hub' = clone.tree
  /\ carried' = carried \cup clone.tree.file
  /\ Goto("clear")
  /\ UNCHANGED <<origin, clone>>

\* Mutant: the loop is left without "exit 1".
GiveUpSilently ==
  /\ run.pc = "push"
  /\ clone.count = MaxRetries
  /\ Goto("clear")
  /\ UNCHANGED <<origin, hub, clone, carried>>

\* Rejected, or the hub cannot be reached, once too often.
GiveUp ==
  /\ run.pc = "push"
  /\ clone.count = MaxRetries
  /\ End("failed")

\* Mutant: the count is not increased.
RetryForever ==
  /\ run.pc = "push"
  /\ Goto("pull")
  /\ UNCHANGED <<origin, hub, clone, carried>>

\* Mutant: one retry too many.
RetryLate ==
  /\ run.pc = "push"
  /\ clone.count <= MaxRetries
  /\ clone' = [clone EXCEPT !.count = @ + 1]
  /\ Goto("pull")
  /\ UNCHANGED <<origin, hub, carried>>

Retry ==
  /\ run.pc = "push"
  /\ clone.count < MaxRetries
  /\ clone' = [clone EXCEPT !.count = @ + 1]
  /\ Goto("pull")
  /\ UNCHANGED <<origin, hub, carried>>

\* Mutant: git pull --rebase -X theirs, the relay's file wins.
RelayWins(base, ours, theirs) == ours

\* What git makes of the file when the relay's commit is put on top of theirs:
\* envelopes added on either side stay, those removed on either side go.
Rebased(base, ours, theirs) == (ours \ (base \ theirs)) \cup (theirs \ base)

\* git pull --rebase, where no line was changed on both sides.
Pull ==
  /\ run.pc = "pull"
  /\ Goto("push")
  /\ clone' = [clone EXCEPT !.behind = FALSE, !.base = hub.file,
                 !.tree = [hub EXCEPT !.file =
                             Rebased(clone.base, clone.tree.file, hub.file)]]
  /\ UNCHANGED <<origin, hub, carried>>

\* Any command that fails ends the step (bash -e): the clone, a rebase
\* conflict, or the pull.
RelayFails ==
  /\ run.pc \in {"relay", "pull"}
  /\ run.pc = "relay" => run.checkout.outbox # {}
  /\ End("failed")

\* echo "[]" > "$OUTBOX": after "cd /tmp/hub" the relative path leads into the
\* clone, which is thrown away.  It succeeds if the hub has the directory.
Clear ==
  /\ run.pc = "clear"
  /\ End("cleared")

ClearFails ==
  /\ run.pc = "clear"
  /\ End("failed")

-----------------------------------------------------------------------------
(* The environment.                                                        *)

\* The runner is lost, or the job's time is up.
Kill ==
  /\ run.pc # "idle"
  /\ End("failed")

\* An operator, or another workflow of the node, pushes.
OperatorPush(o) ==
  /\ o # origin
  /\ origin' = o
  /\ run' = [run EXCEPT !.stale = run.pc # "idle"]
  /\ UNCHANGED <<hub, clone, carried>>

\* Another node pushes its file, or a consumer or another node made from the
\* same template, which relays to a file of the same name, changes this one.
HubPush(h) ==
  /\ h # hub
  /\ hub' = h
  /\ clone' = IF clone = NoClone THEN NoClone ELSE [clone EXCEPT !.behind = TRUE]
  /\ carried' = carried \cup h.file
  /\ UNCHANGED <<origin, run>>

RunStep ==
  \/ \E answer \in Answers : Download(answer)
  \/ \E outbox \in SUBSET Envelopes : Cycle(outbox)
  \/ PushState \/ PushStateRejected
  \/ SkipRelay \/ CloneHub \/ Push \/ GiveUp \/ Retry \/ Pull \/ RelayFails
  \/ Clear \/ ClearFails

Next ==
  \/ Begin \/ RunStep \/ Kill
  \/ \E o \in Origins : OperatorPush(o)
  \/ \E h \in Hubs : HubPush(h)

Spec == Init /\ [][Next]_vars

\* A step that is under way ends: a command that hangs is cut off by
\* timeout-minutes.
FairSpec == Spec /\ WF_vars(RunStep)

-----------------------------------------------------------------------------
(* Properties.                                                             *)

\* Every variable keeps its type; the count stays within max_retries.
TypeOK ==
  /\ origin \in Origins
  /\ hub \in Hubs
  /\ run \in Runs
  /\ clone \in Clones \cup {NoClone}
  /\ carried \subseteq Envelopes

\* A run that says its outbox was relayed is right, however often it was
\* rejected and rebased: the hub has held each envelope during the run.
RelayedWasCarried == run.said = "cleared" => run.checkout.outbox \subseteq carried

\* A run's own pushes lose nothing of others: neither what operators pushed
\* to the node, nor another node's file, nor an envelope that somebody put
\* into the hub's file after the run had cloned it.
PushLosesNothing ==
  [][/\ run.pc = "commit" /\ origin' # origin /\ run'.pc # run.pc =>
          origin'.rest = origin.rest
     /\ run.pc = "push" /\ hub' # hub /\ run'.pc # run.pc =>
          /\ hub'.other = hub.other
          /\ hub.file \ hub'.file \subseteq clone.found]_vars

\* Every run ends, also when other nodes win every push.
EveryRunEnds == (run.pc # "idle") ~> (run.pc = "idle")

\* heartbeat.yml:96, "Outbox relayed and cleared".
ClearedIsEmpty == run.said = "cleared" => run.checkout.outbox = {}
=============================================================================
