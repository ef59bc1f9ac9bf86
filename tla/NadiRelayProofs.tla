-------------------------- MODULE NadiRelayProofs ---------------------------
(***************************************************************************)
(* The theorems about the heartbeat workflow, for any number of envelopes, *)
(* operators' and other nodes' pushes and retries.                         *)
(*                                                                         *)
(* The argument follows the envelopes of a run: one that the commit for    *)
(* the hub no longer holds was removed by a rebase, so it was in the file  *)
(* the commit was made from, and that file has been on the hub.            *)
(***************************************************************************)
EXTENDS NadiRelay, TLAPS

\* The relay step has a clone exactly while it pushes.
ClonePlace == clone # NoClone <=> run.pc \in {"push", "pull", "clear"}

\* The end of a run is said when it ends.
SaidAtEnd == run.pc # "idle" => run.said = "nothing"

\* What the hub's file holds is counted, from the start of the run on.
HubCarried == run.pc # "idle" => hub.file \subseteq carried

\* Nobody has pushed to the node: the runner has all there is besides the
\* outbox.
FreshCheckout == run.pc # "idle" /\ ~ run.stale => run.checkout.rest = origin.rest

\* The envelopes of the run are on their way, or have arrived.
OnTheWay ==
  run.pc \in {"push", "pull"} =>
    /\ clone.base \subseteq carried
    /\ run.checkout.outbox \subseteq clone.tree.file \cup carried

Arrived ==
  run.pc = "clear" \/ run.said = "cleared" => run.checkout.outbox \subseteq carried

\* Nobody has pushed to the hub: the commit was made from what is there.
FreshClone ==
  run.pc \in {"push", "pull"} /\ ~ clone.behind =>
    clone.base = hub.file /\ clone.tree.other = hub.other

\* All that the commit removes was there when the hub was cloned.
RemovesFound ==
  run.pc \in {"push", "pull"} => clone.base \ clone.tree.file \subseteq clone.found

RelayInv ==
  /\ TypeOK
  /\ ClonePlace /\ SaidAtEnd /\ HubCarried /\ FreshCheckout
  /\ OnTheWay /\ Arrived /\ FreshClone /\ RemovesFound


-----------------------------------------------------------------------------
(* Types.                                                                  *)

\* While a run pushes, its clone is one.
LEMMA CloneTyping ==
  ASSUME RelayInv, run.pc \in {"push", "pull", "clear"}
  PROVE  clone \in Clones
BY DEF RelayInv, TypeOK, ClonePlace

\* The merged file holds envelopes.
LEMMA RebasedTyping ==
  ASSUME NEW b \in SUBSET Envelopes, NEW o \in SUBSET Envelopes, NEW t \in SUBSET Envelopes
  PROVE  Rebased(b, o, t) \in SUBSET Envelopes
BY DEF Rebased

\* What the rebase drops was in the file the commit was made from.
LEMMA RebaseDropsOld ==
  ASSUME NEW b, NEW o, NEW t
  PROVE  /\ o \subseteq Rebased(b, o, t) \cup b
         /\ t \ Rebased(b, o, t) \subseteq b \ o
BY DEF Rebased

\* A run is where it was put, and nothing else of it changes.
LEMMA GotoTyping ==
  ASSUME TypeOK, NEW place \in Places, Goto(place)
  PROVE  /\ run' \in Runs
         /\ run'.pc = place
         /\ run'.checkout = run.checkout
         /\ run'.stale = run.stale
         /\ run'.said = run.said
BY DEF TypeOK, Goto, Runs

\* What a run leaves behind when it ends.
LEMMA EndTyping ==
  ASSUME TypeOK, NEW how \in Ends, End(how)
  PROVE  /\ run' \in Runs
         /\ run'.pc = "idle"
         /\ run'.checkout = run.checkout
         /\ run'.said = how
BY DEF TypeOK, End, Runs, Places

-----------------------------------------------------------------------------
(* Initial states.                                                         *)

\* Every initial state satisfies the invariant.
LEMMA InitInv == Init => RelayInv
<1> SUFFICES ASSUME Init
             PROVE  RelayInv
  OBVIOUS
<1>1. /\ run.pc = "idle" /\ run.said = "nothing"
      /\ clone = NoClone
  BY DEF Init
<1>2. TypeOK
  BY DEF Init, TypeOK, Runs, Places, Ends
<1> QED
  BY <1>1, <1>2 DEF RelayInv, ClonePlace, SaidAtEnd, HubCarried, FreshCheckout,
                    OnTheWay, Arrived, FreshClone, RemovesFound

-----------------------------------------------------------------------------
(* Steps that end the run.                                                 *)

\* A run that ends without having relayed anything leaves nothing to show, one
\* that cleared was at its last step.
LEMMA EndKeepsInv ==
  ASSUME RelayInv, NEW how \in Ends, End(how), how = "cleared" => run.pc = "clear"
  PROVE  RelayInv'
<1>1. /\ run' \in Runs /\ run'.pc = "idle" /\ run'.said = how
      /\ run'.checkout = run.checkout
  BY EndTyping DEF RelayInv
<1>2. clone' = NoClone /\ UNCHANGED <<origin, hub, carried>>
  BY DEF End
<1>3. TypeOK'
  BY <1>1, <1>2 DEF RelayInv, TypeOK
<1>4. Arrived'
  BY <1>1, <1>2 DEF RelayInv, Arrived
<1> QED
  BY <1>1, <1>2, <1>3, <1>4 DEF RelayInv, ClonePlace, SaidAtEnd, HubCarried, FreshCheckout,
                                OnTheWay, FreshClone, RemovesFound

-----------------------------------------------------------------------------
(* Steps up to the relay.                                                  *)

\* The places at which the run has no clone and has said nothing.
Early == {"download", "cycle", "commit", "relay"}

\* A step between two such places need only keep what the runner knows.
LEMMA EarlyKeepsInv ==
  ASSUME RelayInv, TypeOK', run'.pc \in Early, run'.said = "nothing",
         clone = NoClone, clone' = NoClone, hub'.file \subseteq carried',
         FreshCheckout'
  PROVE  RelayInv'
BY DEF RelayInv, Early, ClonePlace, SaidAtEnd, HubCarried, OnTheWay, Arrived, FreshClone,
       RemovesFound

\* A run begins with what is on the node's branch.
LEMMA BeginKeepsInv == ASSUME RelayInv, Begin PROVE RelayInv'
<1>1. /\ run' \in Runs /\ run'.pc = "download" /\ run'.said = "nothing"
      /\ run'.checkout = origin
  BY DEF RelayInv, TypeOK, Begin, Runs, Places, Ends
<1>2. clone = NoClone /\ clone' = NoClone
  BY DEF RelayInv, ClonePlace, Begin
<1>3. carried' = hub'.file /\ UNCHANGED <<origin, hub>>
  BY DEF Begin
<1>4. TypeOK'
  BY <1>1, <1>2, <1>3 DEF RelayInv, TypeOK, Hubs
<1>5. FreshCheckout'
  BY <1>1, <1>3 DEF FreshCheckout
<1> QED BY <1>1, <1>2, <1>3, <1>4, <1>5, EarlyKeepsInv DEF Early

\* A download, and a state that could not be pushed, only lead on.
LEMMA LeadOnKeepsInv ==
  ASSUME RelayInv, run.pc \in Early, NEW place \in Early, Goto(place),
         UNCHANGED <<origin, hub, clone, carried>>
  PROVE  RelayInv'
<1>1. /\ run' \in Runs /\ run'.pc = place /\ run'.checkout = run.checkout
      /\ run'.stale = run.stale /\ run'.said = run.said
  BY GotoTyping DEF RelayInv, Early, Places
<1>2. clone = NoClone /\ run.said = "nothing" /\ hub.file \subseteq carried
  BY DEF RelayInv, Early, ClonePlace, SaidAtEnd, HubCarried
<1>3. TypeOK'
  BY <1>1 DEF RelayInv, TypeOK
<1>4. FreshCheckout'
  BY <1>1 DEF RelayInv, FreshCheckout, Early
<1> QED BY <1>1, <1>2, <1>3, <1>4, EarlyKeepsInv

\* The cycle rewrites the outbox of the checkout.
LEMMA CycleKeepsInv ==
  ASSUME RelayInv, NEW outbox \in SUBSET Envelopes, Cycle(outbox)
  PROVE  RelayInv'
<1>1. run \in Runs /\ run.checkout \in Origins /\ run.pc = "cycle"
  BY DEF RelayInv, TypeOK, Runs, Cycle
<1>2. /\ run' \in Runs /\ run'.pc = "commit" /\ run'.said = run.said
      /\ run'.stale = run.stale /\ run'.checkout.rest = run.checkout.rest
  BY <1>1 DEF Cycle, Runs, Origins, Places
<1>3. UNCHANGED <<origin, hub, clone, carried>>
  BY DEF Cycle
<1>4. clone = NoClone /\ run.said = "nothing" /\ hub.file \subseteq carried
  BY <1>1 DEF RelayInv, ClonePlace, SaidAtEnd, HubCarried
<1>5. TypeOK'
  BY <1>2, <1>3 DEF RelayInv, TypeOK
<1>6. FreshCheckout'
  BY <1>1, <1>2, <1>3 DEF RelayInv, FreshCheckout
<1> QED BY <1>2, <1>3, <1>4, <1>5, <1>6, EarlyKeepsInv DEF Early

\* The node's branch becomes the checkout.
LEMMA PushStateKeepsInv == ASSUME RelayInv, PushState PROVE RelayInv'
<1>1. /\ run' \in Runs /\ run'.pc = "relay" /\ run'.checkout = run.checkout
      /\ run'.said = run.said
  BY GotoTyping DEF RelayInv, PushState, Places
<1>2. run \in Runs /\ run.pc = "commit" /\ origin' = run.checkout
      /\ UNCHANGED <<hub, clone, carried>>
  BY DEF RelayInv, TypeOK, PushState
<1>3. clone = NoClone /\ run.said = "nothing" /\ hub.file \subseteq carried
  BY <1>2 DEF RelayInv, ClonePlace, SaidAtEnd, HubCarried
<1>4. TypeOK'
  BY <1>1, <1>2 DEF RelayInv, TypeOK, Runs
<1>5. FreshCheckout'
  BY <1>1, <1>2 DEF FreshCheckout
<1> QED BY <1>1, <1>2, <1>3, <1>4, <1>5, EarlyKeepsInv DEF Early

-----------------------------------------------------------------------------
(* Steps of the relay.                                                     *)

\* The commit is made from the hub as cloned, with all of the outbox in it.
LEMMA CloneHubKeepsInv == ASSUME RelayInv, CloneHub PROVE RelayInv'
<1>1. /\ run' \in Runs /\ run'.pc = "push" /\ run'.checkout = run.checkout
      /\ run'.stale = run.stale /\ run'.said = run.said
  BY GotoTyping DEF RelayInv, CloneHub, Places
<1>2. run \in Runs /\ run.pc = "relay" /\ hub \in Hubs /\ UNCHANGED <<origin, hub, carried>>
  BY DEF RelayInv, TypeOK, CloneHub
<1>3. run.checkout.outbox \in SUBSET Envelopes
  BY <1>2 DEF Runs, Origins
<1> DEFINE tree == [hub EXCEPT !.file = run.checkout.outbox]
<1>4. tree \in Hubs /\ tree.file = run.checkout.outbox /\ tree.other = hub.other
  BY <1>2, <1>3 DEF Hubs
<1>5. clone' = [tree |-> tree, base |-> hub.file, found |-> hub.file,
                behind |-> FALSE, count |-> 0]
  BY DEF CloneHub
<1> HIDE DEF tree
<1>6. /\ clone' \in Clones /\ clone'.tree = tree
      /\ clone'.base = hub.file /\ clone'.found = hub.file
  BY <1>2, <1>4, <1>5, Retries DEF Clones, Hubs
<1>7. TypeOK'
  BY <1>1, <1>2, <1>6 DEF RelayInv, TypeOK
<1>8. run.said = "nothing" /\ hub.file \subseteq carried
  BY <1>2 DEF RelayInv, SaidAtEnd, HubCarried
<1>9. FreshCheckout'
  BY <1>1, <1>2 DEF RelayInv, FreshCheckout
<1>10. OnTheWay' /\ FreshClone' /\ RemovesFound'
  BY <1>1, <1>2, <1>4, <1>6, <1>8 DEF OnTheWay, FreshClone, RemovesFound
<1>11. ClonePlace' /\ SaidAtEnd' /\ HubCarried' /\ Arrived'
  BY <1>1, <1>2, <1>6, <1>8, NoCloneIsNone DEF ClonePlace, SaidAtEnd, HubCarried, Arrived
<1> QED BY <1>7, <1>9, <1>10, <1>11 DEF RelayInv

\* After the push the hub has the commit.
LEMMA PushKeepsInv == ASSUME RelayInv, Push PROVE RelayInv'
<1>1. /\ run' \in Runs /\ run'.pc = "clear" /\ run'.checkout = run.checkout
      /\ run'.stale = run.stale /\ run'.said = run.said
  BY GotoTyping DEF RelayInv, Push, Places
<1>2. /\ run.pc = "push" /\ hub' = clone.tree /\ carried' = carried \cup clone.tree.file
      /\ UNCHANGED <<origin, clone>>
  BY DEF Push
<1>3. clone \in Clones
  BY <1>2, CloneTyping
<1>4. clone.tree \in Hubs /\ clone.tree.file \subseteq Envelopes
  BY <1>3 DEF Clones, Hubs
<1>5. TypeOK'
  BY <1>1, <1>2, <1>4 DEF RelayInv, TypeOK
<1>6. Arrived' /\ HubCarried'
  BY <1>1, <1>2 DEF RelayInv, OnTheWay, Arrived, HubCarried
<1>7. FreshCheckout' /\ SaidAtEnd'
  BY <1>1, <1>2 DEF RelayInv, FreshCheckout, SaidAtEnd
<1>8. ClonePlace' /\ OnTheWay' /\ FreshClone' /\ RemovesFound'
  BY <1>1, <1>2 DEF RelayInv, ClonePlace, OnTheWay, FreshClone, RemovesFound
<1> QED BY <1>5, <1>6, <1>7, <1>8 DEF RelayInv

\* Another attempt begins.
LEMMA RetryKeepsInv == ASSUME RelayInv, Retry PROVE RelayInv'
<1>1. /\ run' \in Runs /\ run'.pc = "pull" /\ run'.checkout = run.checkout
      /\ run'.stale = run.stale /\ run'.said = run.said
  BY GotoTyping DEF RelayInv, Retry, Places
<1>2. /\ run.pc = "push" /\ clone.count < MaxRetries
      /\ clone' = [clone EXCEPT !.count = @ + 1]
      /\ UNCHANGED <<origin, hub, carried>>
  BY DEF Retry
<1>3. clone \in Clones
  BY <1>2, CloneTyping
<1>4. /\ clone' \in Clones /\ clone'.tree = clone.tree /\ clone'.base = clone.base
      /\ clone'.found = clone.found /\ clone'.behind = clone.behind
  BY <1>2, <1>3, Retries DEF Clones
<1>5. TypeOK'
  BY <1>1, <1>2, <1>4 DEF RelayInv, TypeOK
<1>6. ClonePlace'
  BY <1>1, <1>4, NoCloneIsNone DEF ClonePlace
<1>7. SaidAtEnd' /\ HubCarried' /\ FreshCheckout' /\ Arrived'
  BY <1>1, <1>2 DEF RelayInv, SaidAtEnd, HubCarried, FreshCheckout, Arrived
<1>8. OnTheWay' /\ FreshClone' /\ RemovesFound'
  BY <1>1, <1>2, <1>4 DEF RelayInv, OnTheWay, FreshClone, RemovesFound
<1> QED BY <1>5, <1>6, <1>7, <1>8 DEF RelayInv

\* The commit is put on top of the hub as it is now.
LEMMA PullKeepsInv == ASSUME RelayInv, Pull PROVE RelayInv'
<1>1. /\ run' \in Runs /\ run'.pc = "push" /\ run'.checkout = run.checkout
      /\ run'.stale = run.stale /\ run'.said = run.said
  BY GotoTyping DEF RelayInv, Pull, Places
<1>2. run.pc = "pull" /\ hub \in Hubs /\ UNCHANGED <<origin, hub, carried>>
  BY DEF RelayInv, TypeOK, Pull
<1>3. clone \in Clones
  BY <1>2, CloneTyping
<1> DEFINE merged == Rebased(clone.base, clone.tree.file, hub.file)
           tree   == [hub EXCEPT !.file = merged]
<1>4. merged \in SUBSET Envelopes
  BY <1>2, <1>3, RebasedTyping DEF Clones, Hubs
<1>5. /\ clone.tree.file \subseteq merged \cup clone.base
      /\ hub.file \ merged \subseteq clone.base \ clone.tree.file
  BY RebaseDropsOld
<1>6. clone' = [clone EXCEPT !.behind = FALSE, !.base = hub.file, !.tree = tree]
  BY DEF Pull
<1> HIDE DEF merged
<1>7. tree \in Hubs /\ tree.file = merged /\ tree.other = hub.other
  BY <1>2, <1>4 DEF Hubs
<1> HIDE DEF tree
<1>8. /\ clone' \in Clones /\ clone'.tree = tree /\ clone'.base = hub.file
      /\ clone'.found = clone.found
  BY <1>2, <1>3, <1>6, <1>7 DEF Clones, Hubs
<1>9. TypeOK'
  BY <1>1, <1>2, <1>8 DEF RelayInv, TypeOK
<1>10. ClonePlace'
  BY <1>1, <1>8, NoCloneIsNone DEF ClonePlace
<1>11. SaidAtEnd' /\ HubCarried' /\ FreshCheckout' /\ Arrived'
  BY <1>1, <1>2 DEF RelayInv, SaidAtEnd, HubCarried, FreshCheckout, Arrived
<1>12. OnTheWay'
  BY <1>1, <1>2, <1>5, <1>7, <1>8 DEF RelayInv, OnTheWay, HubCarried
<1>13. FreshClone' /\ RemovesFound'
  BY <1>1, <1>2, <1>5, <1>7, <1>8 DEF RelayInv, FreshClone, RemovesFound
<1> QED BY <1>9, <1>10, <1>11, <1>12, <1>13 DEF RelayInv

-----------------------------------------------------------------------------
(* The environment.                                                        *)

\* A push to the node makes the checkout stale.
LEMMA OperatorPushKeepsInv ==
  ASSUME RelayInv, NEW o \in Origins, OperatorPush(o)
  PROVE  RelayInv'
<1>1. /\ run' \in Runs /\ run'.pc = run.pc /\ run'.checkout = run.checkout
      /\ run'.said = run.said /\ run'.stale = (run.pc # "idle")
  BY DEF RelayInv, TypeOK, OperatorPush, Runs
<1>2. origin' = o /\ UNCHANGED <<hub, clone, carried>>
  BY DEF OperatorPush
<1>3. TypeOK'
  BY <1>1, <1>2 DEF RelayInv, TypeOK
<1>4. ClonePlace' /\ SaidAtEnd' /\ HubCarried' /\ FreshCheckout' /\ Arrived'
  BY <1>1, <1>2 DEF RelayInv, ClonePlace, SaidAtEnd, HubCarried, FreshCheckout, Arrived
<1>5. OnTheWay' /\ FreshClone' /\ RemovesFound'
  BY <1>1, <1>2 DEF RelayInv, OnTheWay, FreshClone, RemovesFound
<1> QED BY <1>3, <1>4, <1>5 DEF RelayInv

\* A push to the hub leaves the clone behind.
LEMMA HubPushKeepsInv ==
  ASSUME RelayInv, NEW h \in Hubs, HubPush(h)
  PROVE  RelayInv'
<1>1. hub' = h /\ carried' = carried \cup h.file /\ UNCHANGED <<origin, run>>
  BY DEF HubPush
<1>2. \/ clone = NoClone /\ clone' = NoClone
      \/ /\ clone \in Clones /\ clone' \in Clones /\ clone'.behind
         /\ clone'.tree = clone.tree /\ clone'.base = clone.base
         /\ clone'.found = clone.found
  BY DEF RelayInv, TypeOK, HubPush, Clones
<1>3. TypeOK'
  BY <1>1, <1>2 DEF RelayInv, TypeOK, Hubs
<1>4. ClonePlace'
  BY <1>1, <1>2, NoCloneIsNone DEF RelayInv, ClonePlace
<1>5. SaidAtEnd' /\ HubCarried' /\ FreshCheckout' /\ Arrived'
  BY <1>1 DEF RelayInv, SaidAtEnd, HubCarried, FreshCheckout, Arrived
<1>6. OnTheWay' /\ FreshClone' /\ RemovesFound'
  <2>1. CASE run.pc \in {"push", "pull"}
    BY <1>1, <1>2, <2>1, CloneTyping, NoCloneIsNone
       DEF RelayInv, OnTheWay, FreshClone, RemovesFound
  <2>2. CASE run.pc \notin {"push", "pull"}
    BY <1>1, <2>2 DEF OnTheWay, FreshClone, RemovesFound
  <2> QED BY <2>1, <2>2
<1> QED BY <1>3, <1>4, <1>5, <1>6 DEF RelayInv

\* A step that changes nothing keeps the invariant.
LEMMA StutterKeepsInv == ASSUME RelayInv, UNCHANGED vars PROVE RelayInv'
BY DEF RelayInv, vars, TypeOK, ClonePlace, SaidAtEnd, HubCarried, FreshCheckout,
       OnTheWay, Arrived, FreshClone, RemovesFound

-----------------------------------------------------------------------------
(* Every step.                                                             *)

\* Every step of the run keeps the invariant.
LEMMA RunStepKeepsInv == ASSUME RelayInv, RunStep PROVE RelayInv'
<1>1. ASSUME NEW answer \in Answers, Download(answer) PROVE RelayInv'
  <2> PICK place \in {"cycle", "commit"} : Goto(place)
    BY <1>1 DEF Download
  <2> QED BY <1>1, LeadOnKeepsInv DEF Download, Early
<1>2. CASE PushStateRejected
  BY <1>2, LeadOnKeepsInv DEF PushStateRejected, Early
<1>3. CASE SkipRelay
  BY <1>3, EndKeepsInv DEF SkipRelay, Ends
<1>4. CASE GiveUp
  BY <1>4, EndKeepsInv DEF GiveUp, Ends
<1>5. CASE RelayFails
  BY <1>5, EndKeepsInv DEF RelayFails, Ends
<1>6. CASE Clear
  BY <1>6, EndKeepsInv DEF Clear, Ends
<1>7. CASE ClearFails
  BY <1>7, EndKeepsInv DEF ClearFails, Ends
<1> QED
  BY <1>1, <1>2, <1>3, <1>4, <1>5, <1>6, <1>7, CycleKeepsInv, PushStateKeepsInv,
     CloneHubKeepsInv, PushKeepsInv, RetryKeepsInv, PullKeepsInv DEF RunStep

\* Every step keeps the invariant.
LEMMA StepKeepsInv == RelayInv /\ [Next]_vars => RelayInv'
<1> SUFFICES ASSUME RelayInv, [Next]_vars
             PROVE  RelayInv'
  OBVIOUS
<1>1. CASE Kill
  BY <1>1, EndKeepsInv DEF Kill, Ends
<1> QED
  BY <1>1, BeginKeepsInv, RunStepKeepsInv, OperatorPushKeepsInv, HubPushKeepsInv,
     StutterKeepsInv DEF Next

-----------------------------------------------------------------------------
(* The theorems.                                                           *)

\* The invariant of the runs, the node's branch and the hub holds in every
\* behaviour of the heartbeat workflow.
THEOREM RelayInvariant == Spec => []RelayInv
<1> QED BY InitInv, StepKeepsInv, PTL DEF Spec

\* The branches, the run and its clone keep their types, and the pushes stay
\* within max_retries.
THEOREM RelayTypes == Spec => []TypeOK
<1>1. RelayInv => TypeOK
  BY DEF RelayInv
<1> QED BY <1>1, RelayInvariant, PTL

\* The outbox of a run that says it relayed it has been on the hub.
THEOREM Relayed == Spec => []RelayedWasCarried
<1>1. RelayInv => RelayedWasCarried
  BY DEF RelayInv, Arrived, RelayedWasCarried
<1> QED BY <1>1, RelayInvariant, PTL

\* A run's pushes lose nothing of what others have pushed.
THEOREM LosesNothing == Spec => PushLosesNothing
<1> DEFINE
      Harmless ==
        /\ run.pc = "commit" /\ origin' # origin /\ run'.pc # run.pc =>
             origin'.rest = origin.rest
        /\ run.pc = "push" /\ hub' # hub /\ run'.pc # run.pc =>
             /\ hub'.other = hub.other
             /\ hub.file \ hub'.file \subseteq clone.found
<1>1. ASSUME RelayInv, [Next]_vars
      PROVE  Harmless
  <2>1. CASE PushState
    BY <1>1, <2>1 DEF PushState, RelayInv, FreshCheckout
  <2>2. CASE Push
    BY <1>1, <2>2 DEF Push, RelayInv, FreshClone, RemovesFound
  <2>3. CASE UNCHANGED run
    BY <2>3
  <2>4. CASE UNCHANGED <<origin, hub>>
    BY <2>4
  <2>5. ASSUME NEW o \in Origins, OperatorPush(o)
        PROVE  UNCHANGED hub /\ run'.pc = run.pc
    BY <1>1, <2>5 DEF OperatorPush, RelayInv, TypeOK, Runs
  <2>6. UNCHANGED run \/ UNCHANGED <<origin, hub>> \/ PushState \/ Push
          \/ \E o \in Origins : OperatorPush(o)
    BY <1>1 DEF Next, vars, Begin, RunStep, Kill, End, Download, Cycle, PushStateRejected,
                SkipRelay, CloneHub, GiveUp, Retry, Pull, RelayFails, Clear, ClearFails,
                HubPush
  <2> QED BY <2>1, <2>2, <2>3, <2>4, <2>5, <2>6
<1> QED BY <1>1, RelayInvariant, PTL DEF Spec, PushLosesNothing

-----------------------------------------------------------------------------
(* What the run says of its outbox.                                        *)

\* A run reaches the hub with a full outbox only, and never empties it.
Loaded ==
  run.pc \in {"push", "pull", "clear"} \/ run.said = "cleared" => run.checkout.outbox # {}

\* Steps after which the run is elsewhere with the same checkout.
LEMMA LoadedKept ==
  ASSUME RelayInv, Loaded, [Next]_vars
  PROVE  Loaded'
<1>1. run \in Runs
  BY DEF RelayInv, TypeOK
<1>2. CASE Begin
  BY <1>1, <1>2 DEF Begin, Loaded, Runs
<1>3. ASSUME NEW outbox \in SUBSET Envelopes, Cycle(outbox) PROVE Loaded'
  BY <1>1, <1>3 DEF Cycle, RelayInv, SaidAtEnd, Loaded, Runs, Origins
<1>4. ASSUME NEW answer \in Answers, Download(answer) PROVE Loaded'
  BY <1>1, <1>4 DEF Download, Goto, Loaded, Runs
<1>5. CASE PushState \/ PushStateRejected
  BY <1>1, <1>5 DEF PushState, PushStateRejected, Goto, Loaded, Runs
<1>6. CASE CloneHub \/ Push \/ Retry \/ Pull
  BY <1>1, <1>6 DEF CloneHub, Push, Retry, Pull, Goto, Loaded, Runs
<1>7. CASE SkipRelay \/ GiveUp \/ RelayFails \/ Clear \/ ClearFails \/ Kill
  BY <1>1, <1>7 DEF SkipRelay, GiveUp, RelayFails, Clear, ClearFails, Kill, End, Loaded, Runs
<1>8. ASSUME NEW o \in Origins, OperatorPush(o) PROVE Loaded'
  BY <1>1, <1>8 DEF OperatorPush, Loaded, Runs
<1>9. ASSUME UNCHANGED run PROVE Loaded'
  BY <1>9 DEF Loaded
<1> QED
  BY <1>2, <1>3, <1>4, <1>5, <1>6, <1>7, <1>8, <1>9 DEF Next, RunStep, HubPush, vars

\* "Outbox relayed and cleared" is never true: whenever a run says so, the
\* outbox of its checkout is as full as it was.
THEOREM NeverCleared == Spec => [](run.said = "cleared" => run.checkout.outbox # {})
<1>1. Init => Loaded
  BY DEF Init, Loaded
<1>2. RelayInv /\ Loaded /\ [Next]_vars => Loaded'
  BY LoadedKept
<1>3. Loaded => (run.said = "cleared" => run.checkout.outbox # {})
  BY DEF Loaded
<1> QED BY <1>1, <1>2, <1>3, RelayInvariant, PTL DEF Spec

-----------------------------------------------------------------------------
(* The length of a run.                                                    *)

\* The steps a run still has before it at most.
StepsLeft ==
  CASE run.pc = "idle"     -> 0
    [] run.pc = "clear"    -> 1
    [] run.pc = "push"     -> 2 * (MaxRetries - clone.count) + 2
    [] run.pc = "pull"     -> 2 * (MaxRetries - clone.count) + 3
    [] run.pc = "relay"    -> 2 * MaxRetries + 3
    [] run.pc = "commit"   -> 2 * MaxRetries + 4
    [] run.pc = "cycle"    -> 2 * MaxRetries + 5
    [] run.pc = "download" -> 2 * MaxRetries + 6

\* StepsLeft by place.
LEMMA StepsAt ==
  ASSUME RelayInv
  PROVE  /\ run.pc = "idle" => StepsLeft = 0
         /\ run.pc = "clear" => StepsLeft = 1
         /\ run.pc = "push" => StepsLeft = 2 * (MaxRetries - clone.count) + 2
         /\ run.pc = "pull" => StepsLeft = 2 * (MaxRetries - clone.count) + 3
         /\ run.pc = "relay" => StepsLeft = 2 * MaxRetries + 3
         /\ run.pc = "commit" => StepsLeft = 2 * MaxRetries + 4
         /\ run.pc = "cycle" => StepsLeft = 2 * MaxRetries + 5
         /\ run.pc = "download" => StepsLeft = 2 * MaxRetries + 6
         /\ run.pc \in {"push", "pull"} => clone.count \in 0..MaxRetries
         /\ run.pc \in Places
<1>1. run.pc \in {"push", "pull"} => clone.count \in 0..MaxRetries
  BY CloneTyping DEF Clones
<1>2. run.pc \in Places
  BY DEF RelayInv, TypeOK, Runs
<1> QED BY <1>1, <1>2 DEF StepsLeft

LEMMA StepsBounded ==
  ASSUME RelayInv
  PROVE  StepsLeft \in 0..(2 * MaxRetries + 6)
BY StepsAt, Retries DEF Places

\* A step of the run leaves fewer steps before it.
Shorter == StepsLeft' \in Nat /\ StepsLeft' < StepsLeft

LEMMA RunStepCounts ==
  ASSUME RelayInv, RelayInv', RunStep \/ Kill
  PROVE  Shorter
<1>1. run \in Runs /\ run' \in Runs
  BY DEF RelayInv, TypeOK
<1>2. /\ run'.pc = "idle" => StepsLeft' = 0
      /\ run'.pc = "clear" => StepsLeft' = 1
      /\ run'.pc = "push" => StepsLeft' = 2 * (MaxRetries - clone'.count) + 2
      /\ run'.pc = "pull" => StepsLeft' = 2 * (MaxRetries - clone'.count) + 3
      /\ run'.pc = "relay" => StepsLeft' = 2 * MaxRetries + 3
      /\ run'.pc = "commit" => StepsLeft' = 2 * MaxRetries + 4
      /\ run'.pc = "cycle" => StepsLeft' = 2 * MaxRetries + 5
  BY DEF StepsLeft
<1>3. ASSUME NEW answer \in Answers, Download(answer) PROVE Shorter
  <2>1. run.pc = "download" /\ run'.pc \in {"cycle", "commit"}
    BY <1>1, <1>3 DEF Download, Goto, Runs
  <2> QED BY <1>2, <2>1, StepsAt, Retries DEF Shorter
<1>4. ASSUME NEW outbox \in SUBSET Envelopes, Cycle(outbox) PROVE Shorter
  BY <1>1, <1>2, <1>4, StepsAt, Retries DEF Shorter, Cycle, Runs
<1>5. CASE PushState \/ PushStateRejected
  BY <1>1, <1>2, <1>5, StepsAt, Retries DEF Shorter, PushState, PushStateRejected, Goto, Runs
<1>6. CASE CloneHub
  BY <1>1, <1>2, <1>6, StepsAt, Retries DEF Shorter, CloneHub, Goto, Runs
<1>7. CASE Push
  BY <1>1, <1>2, <1>7, StepsAt, Retries DEF Shorter, Push, Goto, Runs
<1>8. CASE Retry
  <2>1. clone \in Clones /\ run.pc = "push" /\ run'.pc = "pull"
    BY <1>1, <1>8, CloneTyping DEF Retry, Goto, Runs
  <2>2. clone'.count = clone.count + 1
    BY <1>8, <2>1 DEF Retry, Clones
  <2> QED BY <1>2, <2>1, <2>2, StepsAt, Retries DEF Shorter
<1>9. CASE Pull
  <2>1. clone \in Clones /\ run.pc = "pull" /\ run'.pc = "push"
    BY <1>1, <1>9, CloneTyping DEF Pull, Goto, Runs
  <2>2. clone'.count = clone.count
    BY <1>9, <2>1 DEF Pull, Clones
  <2> QED BY <1>2, <2>1, <2>2, StepsAt, Retries DEF Shorter
<1>10. CASE SkipRelay \/ GiveUp \/ RelayFails \/ Clear \/ ClearFails \/ Kill
  <2>1. run.pc # "idle" /\ run'.pc = "idle"
    BY <1>1, <1>10 DEF SkipRelay, GiveUp, RelayFails, Clear, ClearFails, Kill, End, Runs
  <2> QED BY <1>2, <2>1, StepsAt, Retries DEF Shorter, Places
<1> QED BY <1>3, <1>4, <1>5, <1>6, <1>7, <1>8, <1>9, <1>10 DEF RunStep

\* Other nodes and operators cannot make a run longer.
LEMMA OthersDoNotCount ==
  ASSUME RelayInv, (\E o \in Origins : OperatorPush(o)) \/ (\E h \in Hubs : HubPush(h))
  PROVE  StepsLeft' = StepsLeft
<1>1. run'.pc = run.pc
  BY DEF RelayInv, TypeOK, OperatorPush, HubPush, Runs
<1>2. run.pc \in {"push", "pull"} => clone'.count = clone.count
  BY CloneTyping, NoCloneIsNone DEF OperatorPush, HubPush, Clones
<1> QED BY <1>1, <1>2 DEF StepsLeft

\* Each step of a run is one of at most 2 * max_retries + 6, however often the
\* hub moves: the variant on which the end of every run rests.
THEOREM RunsAreBounded ==
  Spec => /\ [](StepsLeft \in 0..(2 * MaxRetries + 6))
          /\ [][/\ RunStep \/ Kill => StepsLeft' < StepsLeft
                /\ ~ Begin => StepsLeft' <= StepsLeft]_vars
<1> DEFINE Counted == /\ RunStep \/ Kill => StepsLeft' < StepsLeft
                      /\ ~ Begin => StepsLeft' <= StepsLeft
<1>1. RelayInv => StepsLeft \in 0..(2 * MaxRetries + 6)
  BY StepsBounded
<1>2. ASSUME RelayInv, RelayInv', [Next]_vars
      PROVE  [Counted]_vars
  <2>1. StepsLeft \in Nat
    BY <1>1, <1>2, Retries
  <2>2. RunStep \/ Kill => StepsLeft' < StepsLeft
    BY <1>2, RunStepCounts DEF Shorter
  <2>3. ASSUME RunStep \/ Kill PROVE StepsLeft' <= StepsLeft
    BY <1>2, <2>1, <2>3, RunStepCounts DEF Shorter
  <2>4. ASSUME UNCHANGED vars PROVE StepsLeft' = StepsLeft
    BY <2>4 DEF vars, StepsLeft
  <2>5. ASSUME NEW o \in Origins, OperatorPush(o) PROVE StepsLeft' <= StepsLeft
    BY <1>2, <2>1, <2>5, OthersDoNotCount
  <2>6. ASSUME NEW h \in Hubs, HubPush(h) PROVE StepsLeft' <= StepsLeft
    BY <1>2, <2>1, <2>6, OthersDoNotCount
  <2> QED BY <1>2, <2>1, <2>2, <2>3, <2>4, <2>5, <2>6 DEF Next
<1> QED BY <1>1, <1>2, RelayInvariant, PTL DEF Spec
=============================================================================
