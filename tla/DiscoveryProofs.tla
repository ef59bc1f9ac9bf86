-------------------------- MODULE DiscoveryProofs ---------------------------
(***************************************************************************)
(* The theorems about peer discovery, for any finite set of repositories,  *)
(* any seeds and any size of a page.                                       *)
(*                                                                         *)
(* Each phase of a run knows which peers it has still to ask for: together *)
(* with those it has found they are the seeds, and from the search on the  *)
(* repositories that had the topic then, as far as every call was answered.*)
(***************************************************************************)
EXTENDS Discovery, FiniteSetTheorems, TLAPS

\* No peer is listed twice.
Once(registry) == \A e, f \in registry : e.peer = f.peer => e = f

\* The peers a run should find.
Whole(r) == Seeds \cup (r.hits \ {Self})

\* Nothing kept run r from finding them.
Complete(r) == r.calm /\ Cardinality(r.hits) <= PageSize

\* How far run r has come.
SeedsInv(r) ==
  r.pc = "seeds" =>
    /\ r.todo \subseteq Seeds
    /\ Seen(r.found) \subseteq Seeds \ r.todo
    /\ r.calm => Seen(r.found) = Seeds \ r.todo

SearchInv(r) ==
  r.pc = "search" => /\ Seen(r.found) \subseteq Seeds
                     /\ r.calm => Seen(r.found) = Seeds

ItemsInv(r) ==
  r.pc = "items" => /\ r.todo \subseteq r.hits \ {Self}
                    /\ Seen(r.found) \subseteq Whole(r)
                    /\ Complete(r) => Seen(r.found) \cup r.todo = Whole(r)

FoundInv(r) ==
  r.pc \in Searched => /\ Seen(r.found) \subseteq Whole(r)
                       /\ Complete(r) => Seen(r.found) = Whole(r)

VerifiedInv(r) ==
  r.pc \in {"commit", "push"} => {e \in r.found : e.feed} \subseteq r.verified

RunInv(r) ==
  Once(r.found) /\ SeedsInv(r) /\ SearchInv(r) /\ ItemsInv(r) /\ FoundInv(r) /\ VerifiedInv(r)

\* Nobody has pushed: what is checked out is what is there.
Fresh == run.pc # "idle" /\ ~ run.stale => run.checkout.rest = main.rest

DiscoveryInv == TypeOK /\ RunInv(run) /\ Fresh

-----------------------------------------------------------------------------
(* Registries.                                                             *)

\* The record of a peer names the peer.
LEMMA EntryTyping ==
  ASSUME NEW p \in Peers, NEW how \in {"seed", "topic_search"}, NEW answer \in Answers
  PROVE  Entry(p, how, answer) \in Entries /\ Entry(p, how, answer).peer = p
BY DEF Entry, Entries

\* A new record adds its peer, and stays the only one of a peer not seen.
LEMMA AddEntry ==
  ASSUME NEW S \in Registries, NEW e \in Entries
  PROVE  /\ S \cup {e} \in Registries
         /\ Seen(S \cup {e}) = Seen(S) \cup {e.peer}
         /\ Once(S) /\ e.peer \notin Seen(S) => Once(S \cup {e})
BY DEF Registries, Seen, Once

\* Nothing but the registry matters of a run that has ended.
LEMMA EndedInv ==
  ASSUME NEW r \in Runs, Once(r.found), NEW s \in Runs, s.pc = "idle", s.found = r.found
  PROVE  RunInv(s)
BY DEF RunInv, SeedsInv, SearchInv, ItemsInv, FoundInv, VerifiedInv, Searched, Once

\* A run that ends is one, and is idle.
LEMMA EndedTyping ==
  ASSUME TypeOK, NEW how \in Ends
  PROVE  Ended(how) \in Runs /\ Ended(how).pc = "idle" /\ Ended(how).found = run.found
<1>1. run \in Runs /\ {} \in Registries /\ {} \in SUBSET Peers /\ "idle" \in Places
  BY DEF TypeOK, Registries, Places
<1> QED BY <1>1 DEF Runs, Ended

-----------------------------------------------------------------------------
(* The initial state.                                                      *)

LEMMA InitInv == Init => DiscoveryInv
<1> SUFFICES ASSUME Init PROVE DiscoveryInv
  OBVIOUS
<1>1. main \in Branches
  BY DEF Init, Branches, Registries
<1>2. run \in Runs /\ run.pc = "idle" /\ run.found = {}
  BY <1>1 DEF Init, Runs, Places, Ends, Registries
<1>3. TypeOK
  BY <1>1, <1>2 DEF Init, TypeOK
<1>4. RunInv(run)
  BY <1>2, EndedInv DEF Once
<1> QED BY <1>2, <1>3, <1>4 DEF DiscoveryInv, Fresh

-----------------------------------------------------------------------------
(* The steps, one lemma each.                                              *)

LEMMA BeginStep == DiscoveryInv /\ Begin => DiscoveryInv'
<1> SUFFICES ASSUME DiscoveryInv, Begin PROVE DiscoveryInv'
  OBVIOUS
<1>1. run' \in Runs
  BY Names DEF DiscoveryInv, TypeOK, Begin, Runs, Places, Ends, Registries
<1>2. run'.pc = "seeds" /\ run'.todo = Seeds /\ run'.found = {} /\ run'.checkout = main
  BY DEF Begin
<1>3. Seen({}) = {} /\ Once({})
  BY DEF Seen, Once
<1>4. RunInv(run')
  BY <1>2, <1>3 DEF RunInv, SeedsInv, SearchInv, ItemsInv, FoundInv, VerifiedInv, Searched
<1>5. TypeOK'
  BY <1>1 DEF DiscoveryInv, TypeOK, Begin
<1>6. Fresh'
  BY <1>2 DEF Fresh, Begin
<1> QED BY <1>4, <1>5, <1>6 DEF DiscoveryInv

LEMMA FetchSeedStep ==
  ASSUME DiscoveryInv, NEW p \in Peers, NEW answer \in Answers, FetchSeed(p, answer)
  PROVE  DiscoveryInv'
<1> DEFINE e == Entry(p, "seed", answer)
<1>1. run \in Runs /\ run.pc = "seeds" /\ p \in run.todo
  BY DEF DiscoveryInv, TypeOK, FetchSeed
<1>2. /\ run.found \in Registries /\ run.todo \in SUBSET Peers /\ run.calm \in BOOLEAN
      /\ Once(run.found) /\ SeedsInv(run)
  BY <1>1 DEF Runs, DiscoveryInv, RunInv
<1>3. /\ run'.pc = "seeds" /\ run'.todo = run.todo \ {p}
      /\ run'.found = IF answer = "none" THEN run.found ELSE run.found \cup {e}
      /\ run'.calm = (run.calm /\ answer # "none")
      /\ run'.stale = run.stale /\ run'.checkout = run.checkout
  BY <1>1 DEF FetchSeed, Runs
<1>4. /\ e \in Entries /\ e.peer = p
      /\ run.found \cup {e} \in Registries
      /\ Seen(run.found \cup {e}) = Seen(run.found) \cup {p}
      /\ p \notin Seen(run.found)
  <2>1. e \in Entries /\ e.peer = p
    BY EntryTyping
  <2> HIDE DEF e
  <2>2. p \notin Seen(run.found)
    BY <1>1, <1>2 DEF SeedsInv
  <2> QED BY <1>2, <2>1, <2>2, AddEntry
<1>5. Once(run'.found)
  <2> HIDE DEF e
  <2> QED BY <1>2, <1>3, <1>4, AddEntry
<1>6. run' \in Runs
  <2> HIDE DEF e
  <2>1. run'.found \in Registries
    BY <1>2, <1>3, <1>4
  <2>2. (IF answer = "none" THEN run.found ELSE run.found \cup {e}) \in Registries
    BY <1>2, <1>4
  <2>3. run' = [run EXCEPT !.todo = run.todo \ {p},
                  !.found = IF answer = "none" THEN run.found ELSE run.found \cup {e},
                  !.calm = run.calm /\ answer # "none"]
    BY DEF FetchSeed, e
  <2>4. (run.calm /\ answer # "none") \in BOOLEAN /\ run.todo \ {p} \in SUBSET Peers
    BY <1>2
  <2> QED BY <1>1, <2>2, <2>3, <2>4 DEF Runs
<1>7. SeedsInv(run')
  <2> HIDE DEF e
  <2>1. run.todo \subseteq Seeds /\ Seen(run.found) \subseteq Seeds \ run.todo
        /\ (run.calm => Seen(run.found) = Seeds \ run.todo)
    BY <1>1, <1>2 DEF SeedsInv
  <2>2. CASE answer = "none"
    BY <1>3, <2>1, <2>2 DEF SeedsInv
  <2>3. CASE answer # "none"
    <3>1. Seen(run'.found) = Seen(run.found) \cup {p}
      BY <1>3, <1>4, <2>3
    <3> QED BY <1>1, <1>3, <2>1, <3>1 DEF SeedsInv
  <2> QED BY <2>2, <2>3
<1>8. RunInv(run')
  BY <1>3, <1>5, <1>7 DEF RunInv, SearchInv, ItemsInv, FoundInv, VerifiedInv, Searched
<1>9. TypeOK'
  BY <1>6 DEF DiscoveryInv, TypeOK, FetchSeed
<1>10. Fresh'
  BY <1>1, <1>3 DEF DiscoveryInv, Fresh, FetchSeed
<1> QED BY <1>8, <1>9, <1>10 DEF DiscoveryInv

\* Steps that only go on to another phase.
LEMMA PhaseStep ==
  ASSUME DiscoveryInv, NEW pc \in Places \ {"idle"}, run.pc # "idle",
         run' = [run EXCEPT !.pc = pc], UNCHANGED <<topic, main>>, RunInv(run')
  PROVE  DiscoveryInv'
<1>1. run \in Runs
  BY DEF DiscoveryInv, TypeOK
<1>2. run' \in Runs /\ run'.stale = run.stale /\ run'.checkout = run.checkout
  BY <1>1 DEF Runs
<1> QED BY <1>2 DEF DiscoveryInv, TypeOK, Fresh

LEMMA SeedsDoneStep == DiscoveryInv /\ SeedsDone => DiscoveryInv'
<1> SUFFICES ASSUME DiscoveryInv, SeedsDone PROVE DiscoveryInv'
  OBVIOUS
<1>1. run \in Runs /\ run.pc = "seeds" /\ run.todo = {} /\ Once(run.found) /\ SeedsInv(run)
  BY DEF DiscoveryInv, TypeOK, RunInv, SeedsDone
<1>2. run'.pc = "search" /\ run'.found = run.found /\ run'.calm = run.calm
  BY <1>1 DEF SeedsDone, Runs
<1>3. RunInv(run')
  BY <1>1, <1>2 DEF RunInv, SeedsInv, SearchInv, ItemsInv, FoundInv, VerifiedInv, Searched
<1> QED BY <1>1, <1>3, PhaseStep DEF SeedsDone, Places

\* The first page is all there is, unless there is more than a page of it.
LEMMA SearchStep == DiscoveryInv /\ Search => DiscoveryInv'
<1> SUFFICES ASSUME DiscoveryInv, Search PROVE DiscoveryInv'
  OBVIOUS
<1>1. PICK page \in SUBSET topic :
        /\ page = topic \/ (Cardinality(page) = PageSize /\ Cardinality(topic) > PageSize)
        /\ run' = [run EXCEPT !.pc = "items", !.todo = page \ {Self}, !.hits = topic]
  BY DEF Search
<1>2. /\ run \in Runs /\ run.pc = "search" /\ Once(run.found) /\ SearchInv(run)
      /\ topic \subseteq Peers
  BY DEF DiscoveryInv, TypeOK, RunInv, Search
<1>3. /\ run'.pc = "items" /\ run'.todo = page \ {Self} /\ run'.hits = topic
      /\ run'.found = run.found /\ run'.calm = run.calm
      /\ run'.stale = run.stale /\ run'.checkout = run.checkout
      /\ run' \in Runs
  BY <1>1, <1>2 DEF Runs, Places
<1>4. Cardinality(topic) <= PageSize => page = topic
  <2>1. IsFiniteSet(topic)
    BY <1>2, Names, FS_Subset
  <2>2. Cardinality(topic) \in Nat
    BY <2>1, FS_CardinalityType
  <2> QED BY <1>1, <2>2, Sizes
<1>5. ItemsInv(run')
  <2>1. Seen(run.found) \subseteq Seeds /\ (run.calm => Seen(run.found) = Seeds)
    BY <1>2 DEF SearchInv
  <2> QED BY <1>3, <1>4, <2>1 DEF ItemsInv, Whole, Complete
<1>6. RunInv(run')
  BY <1>2, <1>3, <1>5 DEF RunInv, SeedsInv, SearchInv, FoundInv, VerifiedInv, Searched
<1> QED BY <1>2, <1>3, <1>6 DEF DiscoveryInv, TypeOK, Fresh, Search

LEMMA SearchFailsStep == DiscoveryInv /\ SearchFails => DiscoveryInv'
<1> SUFFICES ASSUME DiscoveryInv, SearchFails PROVE DiscoveryInv'
  OBVIOUS
<1>1. run \in Runs /\ run.pc = "search" /\ Once(run.found) /\ SearchInv(run)
  BY DEF DiscoveryInv, TypeOK, RunInv, SearchFails
<1>2. /\ run'.pc = "items" /\ run'.todo = {} /\ ~ run'.calm /\ run'.hits = run.hits
      /\ run'.found = run.found /\ run'.stale = run.stale /\ run'.checkout = run.checkout
      /\ run' \in Runs
  BY <1>1 DEF SearchFails, Runs, Places
<1>3. ItemsInv(run')
  BY <1>1, <1>2 DEF SearchInv, ItemsInv, Whole, Complete
<1>4. RunInv(run')
  BY <1>1, <1>2, <1>3 DEF RunInv, SeedsInv, SearchInv, FoundInv, VerifiedInv, Searched
<1> QED BY <1>1, <1>2, <1>4 DEF DiscoveryInv, TypeOK, Fresh, SearchFails

LEMMA FetchItemStep ==
  ASSUME DiscoveryInv, NEW p \in Peers, NEW answer \in Answers, FetchItem(p, answer)
  PROVE  DiscoveryInv'
<1> DEFINE e == Entry(p, "topic_search", answer)
<1>1. run \in Runs /\ run.pc = "items" /\ p \in run.todo
  BY DEF DiscoveryInv, TypeOK, FetchItem
<1>2. /\ run.found \in Registries /\ run.todo \in SUBSET Peers
      /\ Once(run.found) /\ ItemsInv(run)
  BY <1>1 DEF Runs, DiscoveryInv, RunInv
<1>3. run' = [run EXCEPT !.todo = run.todo \ {p},
                !.found = IF p \in Seen(run.found) THEN run.found ELSE run.found \cup {e}]
  BY DEF FetchItem
<1>4. e \in Entries /\ e.peer = p
  BY EntryTyping
<1> HIDE DEF e
<1>5. /\ run.found \cup {e} \in Registries
      /\ Seen(run.found \cup {e}) = Seen(run.found) \cup {p}
      /\ p \notin Seen(run.found) => Once(run.found \cup {e})
  BY <1>2, <1>4, AddEntry
<1>6. /\ run'.pc = "items" /\ run'.todo = run.todo \ {p} /\ run'.calm = run.calm
      /\ run'.found = IF p \in Seen(run.found) THEN run.found ELSE run.found \cup {e}
      /\ run'.hits = run.hits /\ run'.stale = run.stale /\ run'.checkout = run.checkout
  BY <1>1, <1>3 DEF Runs
<1>7. Once(run'.found) /\ Seen(run'.found) = Seen(run.found) \cup {p}
  BY <1>2, <1>5, <1>6
<1>8. run' \in Runs
  <2>1. (IF p \in Seen(run.found) THEN run.found ELSE run.found \cup {e}) \in Registries
    BY <1>2, <1>5
  <2>2. run.todo \ {p} \in SUBSET Peers
    BY <1>2
  <2> QED BY <1>1, <1>3, <2>1, <2>2 DEF Runs
<1>9. ItemsInv(run')
  <2>1. /\ run.todo \subseteq run.hits \ {Self} /\ Seen(run.found) \subseteq Whole(run)
        /\ Complete(run) => Seen(run.found) \cup run.todo = Whole(run)
    BY <1>1, <1>2 DEF ItemsInv
  <2>2. Whole(run') = Whole(run) /\ Complete(run') = Complete(run)
    BY <1>6 DEF Whole, Complete
  <2>3. p \in Whole(run)
    BY <1>1, <2>1 DEF Whole
  <2> QED BY <1>1, <1>6, <1>7, <2>1, <2>2, <2>3 DEF ItemsInv
<1>10. RunInv(run')
  BY <1>6, <1>7, <1>9 DEF RunInv, SeedsInv, SearchInv, FoundInv, VerifiedInv, Searched
<1> QED BY <1>1, <1>6, <1>8, <1>10 DEF DiscoveryInv, TypeOK, Fresh, FetchItem

LEMMA ItemsDoneStep == DiscoveryInv /\ ItemsDone => DiscoveryInv'
<1> SUFFICES ASSUME DiscoveryInv, ItemsDone PROVE DiscoveryInv'
  OBVIOUS
<1>1. run \in Runs /\ run.pc = "items" /\ run.todo = {} /\ Once(run.found) /\ ItemsInv(run)
  BY DEF DiscoveryInv, TypeOK, RunInv, ItemsDone
<1>2. /\ run'.pc = "feeds" /\ run'.found = run.found /\ run'.calm = run.calm
      /\ run'.hits = run.hits
  BY <1>1 DEF ItemsDone, Runs
<1>3. FoundInv(run')
  BY <1>1, <1>2 DEF ItemsInv, FoundInv, Whole, Complete
<1>4. RunInv(run')
  BY <1>1, <1>2, <1>3 DEF RunInv, SeedsInv, SearchInv, ItemsInv, VerifiedInv
<1> QED BY <1>1, <1>4, PhaseStep DEF ItemsDone, Places

LEMMA FeedOkStep ==
  ASSUME DiscoveryInv, NEW e \in Entries, FeedOk(e)
  PROVE  DiscoveryInv'
<1>1. run \in Runs /\ run.pc = "feeds" /\ Once(run.found) /\ FoundInv(run)
  BY DEF DiscoveryInv, TypeOK, RunInv, FeedOk
<1>2. run' \in Runs
  <2>1. run.verified \cup {e} \in Registries
    BY <1>1 DEF Runs, Registries
  <2> QED BY <1>1, <2>1 DEF FeedOk, Runs
<1>3. /\ run'.pc = "feeds" /\ run'.found = run.found /\ run'.calm = run.calm
      /\ run'.hits = run.hits /\ run'.stale = run.stale /\ run'.checkout = run.checkout
  BY <1>1 DEF FeedOk, Runs
<1>4. RunInv(run')
  BY <1>1, <1>3 DEF RunInv, SeedsInv, SearchInv, ItemsInv, FoundInv, VerifiedInv, Whole, Complete
<1> QED BY <1>1, <1>2, <1>3, <1>4 DEF DiscoveryInv, TypeOK, Fresh, FeedOk

LEMMA FeedsDoneStep == DiscoveryInv /\ FeedsDone => DiscoveryInv'
<1> SUFFICES ASSUME DiscoveryInv, FeedsDone PROVE DiscoveryInv'
  OBVIOUS
<1>1. run \in Runs /\ run.pc = "feeds" /\ Once(run.found) /\ FoundInv(run)
  BY DEF DiscoveryInv, TypeOK, RunInv, FeedsDone
<1>2. /\ run'.pc = "commit" /\ run'.found = run.found /\ run'.calm = run.calm
      /\ run'.hits = run.hits /\ run'.verified = run.verified
  BY <1>1 DEF FeedsDone, Runs
<1>3. {e \in run.found : e.feed} \subseteq run.verified
  BY DEF FeedsDone, ToVerify
<1>4. RunInv(run')
  BY <1>1, <1>2, <1>3
     DEF RunInv, SeedsInv, SearchInv, ItemsInv, FoundInv, VerifiedInv, Searched, Whole, Complete
<1> QED BY <1>1, <1>4, PhaseStep DEF FeedsDone, Places

LEMMA CommitStep == DiscoveryInv /\ Commit => DiscoveryInv'
<1> SUFFICES ASSUME DiscoveryInv, Commit PROVE DiscoveryInv'
  OBVIOUS
<1>1. /\ run \in Runs /\ run.pc = "commit" /\ Once(run.found) /\ FoundInv(run)
      /\ VerifiedInv(run)
  BY DEF DiscoveryInv, TypeOK, RunInv, Commit
<1>2. /\ run'.pc = "push" /\ run'.found = run.found /\ run'.calm = run.calm
      /\ run'.hits = run.hits /\ run'.verified = run.verified
  BY <1>1 DEF Commit, Runs
<1>3. RunInv(run')
  BY <1>1, <1>2
     DEF RunInv, SeedsInv, SearchInv, ItemsInv, FoundInv, VerifiedInv, Searched, Whole, Complete
<1> QED BY <1>1, <1>3, PhaseStep DEF Commit, Places

\* A run that ends without a push.
LEMMA EndStep ==
  ASSUME DiscoveryInv, NEW how \in Ends, run' = Ended(how), UNCHANGED <<topic, main>>
  PROVE  DiscoveryInv'
<1>1. run \in Runs /\ Once(run.found)
  BY DEF DiscoveryInv, TypeOK, RunInv
<1>2. run' \in Runs /\ run'.pc = "idle" /\ run'.found = run.found
  BY EndedTyping DEF DiscoveryInv
<1>3. RunInv(run')
  BY <1>1, <1>2, EndedInv
<1> QED BY <1>2, <1>3 DEF DiscoveryInv, TypeOK, Fresh

LEMMA PushStep == DiscoveryInv /\ Push => DiscoveryInv'
<1> SUFFICES ASSUME DiscoveryInv, Push PROVE DiscoveryInv'
  OBVIOUS
<1>1. run \in Runs /\ Once(run.found)
  BY DEF DiscoveryInv, TypeOK, RunInv
<1>2. run' \in Runs /\ run'.pc = "idle" /\ run'.found = run.found
  <2>1. "pushed" \in Ends
    BY DEF Ends
  <2> QED BY <2>1, EndedTyping DEF DiscoveryInv, Push
<1>3. RunInv(run')
  BY <1>1, <1>2, EndedInv
<1>4. main' \in Branches
  BY <1>1 DEF Push, Runs, Branches
<1> QED BY <1>2, <1>3, <1>4 DEF DiscoveryInv, TypeOK, Fresh, Push

LEMMA OthersPushStep ==
  ASSUME DiscoveryInv, NEW v \in Versions, OthersPush(v)
  PROVE  DiscoveryInv'
<1>1. run \in Runs /\ main \in Branches /\ RunInv(run)
  BY DEF DiscoveryInv, TypeOK
<1>2. main' \in Branches
  BY <1>1 DEF OthersPush, Branches
<1>3. /\ run' \in Runs /\ run'.pc = run.pc /\ run'.found = run.found /\ run'.todo = run.todo
      /\ run'.calm = run.calm /\ run'.hits = run.hits /\ run'.verified = run.verified
      /\ run'.stale = (run.pc # "idle")
  BY <1>1 DEF OthersPush, Runs
<1>4. RunInv(run')
  BY <1>1, <1>3 DEF RunInv, SeedsInv, SearchInv, ItemsInv, FoundInv, VerifiedInv, Whole, Complete
<1> QED BY <1>2, <1>3, <1>4 DEF DiscoveryInv, TypeOK, Fresh, OthersPush

LEMMA StepKeepsInv == DiscoveryInv /\ [Next]_vars => DiscoveryInv'
<1> SUFFICES ASSUME DiscoveryInv, [Next]_vars PROVE DiscoveryInv'
  OBVIOUS
<1>1. CASE Begin \/ SeedsDone \/ Search \/ SearchFails \/ ItemsDone \/ FeedsDone \/ Commit \/ Push
  BY <1>1, BeginStep, SeedsDoneStep, SearchStep, SearchFailsStep, ItemsDoneStep, FeedsDoneStep,
     CommitStep, PushStep
<1>2. CASE \E p \in Peers, answer \in Answers : FetchSeed(p, answer) \/ FetchItem(p, answer)
  BY <1>2, FetchSeedStep, FetchItemStep
<1>3. ASSUME NEW e \in Entries, FeedOk(e) PROVE DiscoveryInv'
  BY <1>3, FeedOkStep
<1>4. ASSUME NEW e \in Entries, FeedNotOk(e) PROVE DiscoveryInv'
  BY <1>4, EndStep DEF FeedNotOk, Ends
<1>5. CASE AddIgnored \/ NothingToCommit \/ PushRejected \/ Kill
  BY <1>5, EndStep DEF AddIgnored, NothingToCommit, PushRejected, Kill, Ends
<1>6. ASSUME NEW t \in SUBSET Peers, Label(t) PROVE DiscoveryInv'
  BY <1>6 DEF Label, DiscoveryInv, TypeOK, Fresh
<1>7. CASE \E v \in Versions : OthersPush(v)
  BY <1>7, OthersPushStep
<1>8. CASE UNCHANGED vars
  BY <1>8 DEF vars, DiscoveryInv, TypeOK, Fresh
<1> QED BY <1>1, <1>2, <1>3, <1>4, <1>5, <1>6, <1>7, <1>8 DEF Next

-----------------------------------------------------------------------------
(* The theorems.                                                           *)

\* The inductive invariant: what a run has found and has still to ask for.
THEOREM DiscoveryInvariant == Spec => []DiscoveryInv
<1> QED BY InitInv, StepKeepsInv, PTL DEF Spec

\* The branch, the federation and the run keep their types.
THEOREM DiscoveryTypes == Spec => []TypeOK
<1>1. DiscoveryInv => TypeOK
  BY DEF DiscoveryInv
<1> QED BY <1>1, DiscoveryInvariant, PTL

\* A registry lists each peer once, invents none, and is complete when every
\* call was answered and one page was enough.
THEOREM EachOnce == Spec => []FindsEachOnce
<1>1. DiscoveryInv => FindsEachOnce
  <2> SUFFICES ASSUME DiscoveryInv PROVE FindsEachOnce
    OBVIOUS
  <2>1. run \in Runs /\ RunInv(run)
    BY DEF DiscoveryInv, TypeOK
  <2>2. \A e, f \in run.found : e.peer = f.peer => e = f
    BY <2>1 DEF RunInv, Once
  <2>3. run.pc # "idle" => Seen(run.found) \subseteq Seeds \cup (run.hits \ {Self})
    <3>1. run.pc \in Places
      BY <2>1 DEF Runs
    <3> QED BY <2>1, <3>1
            DEF RunInv, SeedsInv, SearchInv, ItemsInv, FoundInv, Searched, Places, Whole
  <2>4. (run.pc \in Searched /\ run.calm /\ Cardinality(run.hits) <= PageSize)
          => Seen(run.found) = Seeds \cup (run.hits \ {Self})
    BY <2>1 DEF RunInv, FoundInv, Whole, Complete
  <2> QED BY <2>2, <2>3, <2>4 DEF FindsEachOnce
<1> QED BY <1>1, DiscoveryInvariant, PTL

\* What reaches the branch was verified by the same run, and is made from
\* what operators had pushed.
THEOREM OnlyVerified == Spec => PushedIsVerified
<1>1. ASSUME DiscoveryInv, [Next]_vars
      PROVE  [Push => /\ {e \in main'.registry : e.feed} \subseteq run.verified
                      /\ main'.rest = main.rest]_vars
  <2> SUFFICES ASSUME Push
               PROVE  /\ {e \in main'.registry : e.feed} \subseteq run.verified
                      /\ main'.rest = main.rest
    OBVIOUS
  <2>1. run \in Runs /\ run.pc = "push" /\ ~ run.stale /\ VerifiedInv(run)
    BY <1>1 DEF DiscoveryInv, TypeOK, RunInv, Push
  <2>2. main'.registry = run.found /\ main'.rest = run.checkout.rest
    BY <2>1 DEF Push, Runs, Branches
  <2>3. run.checkout.rest = main.rest
    BY <1>1, <2>1 DEF DiscoveryInv, Fresh
  <2> QED BY <2>1, <2>2, <2>3 DEF VerifiedInv
<1> QED BY <1>1, DiscoveryInvariant, PTL DEF Spec, PushedIsVerified

-----------------------------------------------------------------------------
(* What reaches the branch.                                                *)

\* Only a run changes the registry and nothing changes what git tracks, so a
\* checkout shows both as they are; without the file in the index no run gets
\* past git add.
CommitInv ==
  /\ run.pc # "idle" => /\ run.said = "none"
                        /\ run.checkout.registry = main.registry
                        /\ run.checkout.tracked = main.tracked
  /\ run.pc = "push" => main.tracked
  /\ ~ main.tracked => main.registry = {}
  /\ run.said \in {"unchanged", "pushed"} => main.registry = run.found
  /\ run.said = "ignored" => ~ main.tracked

\* A step inside a run leaves everything CommitInv speaks of.
LEMMA InsideStep ==
  ASSUME CommitInv, UNCHANGED main, run.pc # "idle", run'.pc \notin {"idle", "push"},
         run'.said = run.said, run'.checkout = run.checkout
  PROVE  CommitInv'
BY DEF CommitInv

\* A run that ends says something that is true.
LEMMA EndingStep ==
  ASSUME TypeOK, CommitInv, UNCHANGED main, NEW how \in Ends, run' = Ended(how),
         how \in {"unchanged", "pushed"} => main.registry = run.found,
         how = "ignored" => ~ main.tracked
  PROVE  CommitInv'
<1>1. run'.pc = "idle" /\ run'.found = run.found /\ run'.said = how
  BY EndedTyping DEF TypeOK, Runs, Ended
<1> QED BY <1>1 DEF CommitInv

LEMMA CommitKept == TypeOK /\ CommitInv /\ [Next]_vars => CommitInv'
<1> SUFFICES ASSUME TypeOK, CommitInv, [Next]_vars PROVE CommitInv'
  OBVIOUS
<1>1. run \in Runs /\ main \in Branches
  BY DEF TypeOK
<1>2. CASE Begin
  BY <1>2 DEF Begin, CommitInv
<1>3. CASE \E p \in Peers, answer \in Answers : FetchSeed(p, answer) \/ FetchItem(p, answer)
  BY <1>1, <1>3, InsideStep DEF FetchSeed, FetchItem, Runs
<1>4. CASE SeedsDone \/ SearchFails \/ ItemsDone \/ FeedsDone
  BY <1>1, <1>4, InsideStep DEF SeedsDone, SearchFails, ItemsDone, FeedsDone, Runs
<1>5. CASE Search
  BY <1>1, <1>5, InsideStep DEF Search, Runs
<1>6. CASE \E e \in Entries : FeedOk(e)
  BY <1>1, <1>6, InsideStep DEF FeedOk, Runs
<1>7. CASE \E e \in Entries : FeedNotOk(e)
  BY <1>7, EndingStep DEF FeedNotOk, Ends
<1>8. CASE AddIgnored
  BY <1>8, EndingStep DEF AddIgnored, Ends, CommitInv
<1>9. CASE NothingToCommit
  BY <1>9, EndingStep DEF NothingToCommit, Ends, CommitInv
<1>10. CASE Commit
  BY <1>1, <1>10 DEF Commit, Runs, CommitInv
<1>11. CASE Push
  <2>1. run' = Ended("pushed") /\ run.pc = "push" /\ main.tracked /\ run.checkout.tracked
    BY <1>11 DEF Push, CommitInv
  <2>2. run'.pc = "idle" /\ run'.found = run.found /\ run'.said = "pushed"
    BY <1>1, <2>1 DEF Runs, Ended
  <2>3. main'.registry = run.found /\ main'.tracked
    BY <1>1, <1>11, <2>1 DEF Push, Runs, Branches
  <2> QED BY <2>2, <2>3 DEF CommitInv
<1>12. CASE PushRejected \/ Kill
  BY <1>12, EndingStep DEF PushRejected, Kill, Ends
<1>13. CASE \E t \in SUBSET Peers : Label(t)
  BY <1>13 DEF Label, CommitInv
<1>14. CASE \E v \in Versions : OthersPush(v)
  <2>1. main'.registry = main.registry /\ main'.tracked = main.tracked
    BY <1>1, <1>14 DEF OthersPush, Branches
  <2>2. run'.pc = run.pc /\ run'.said = run.said /\ run'.checkout = run.checkout
        /\ run'.found = run.found
    BY <1>1, <1>14 DEF OthersPush, Runs
  <2> QED BY <2>1, <2>2 DEF CommitInv
<1>15. CASE UNCHANGED vars
  BY <1>15 DEF vars, CommitInv
<1> QED BY <1>2, <1>3, <1>4, <1>5, <1>6, <1>7, <1>8, <1>9, <1>10, <1>11, <1>12, <1>13,
           <1>14, <1>15 DEF Next

\* Whether the registry is committed is decided by whether git tracks it, and
\* by nothing else.  Where it does, every run that reaches the commit step and
\* is not overtaken leaves its registry on the branch, and FoundIsCommitted
\* holds; where it does not, no registry ever gets there.
THEOREM TrackedDecides ==
  Spec => []/\ main.tracked => FoundIsCommitted
            /\ ~ main.tracked => main.registry = {}
<1>1. Init => CommitInv
  BY DEF Init, CommitInv
<1>2. CommitInv => /\ main.tracked => FoundIsCommitted
                   /\ ~ main.tracked => main.registry = {}
  BY DEF CommitInv, FoundIsCommitted
<1> QED BY <1>1, <1>2, CommitKept, DiscoveryTypes, PTL DEF Spec

-----------------------------------------------------------------------------
(* The length of a run.                                                    *)

Most == Cardinality(Peers)

\* The steps the run still has before it at most: a phase asks for every
\* peer once.
StepsLeft ==
  CASE run.pc = "idle"   -> 0
    [] run.pc = "seeds"  -> Cardinality(run.todo) + 2 * Most + 6
    [] run.pc = "search" -> 2 * Most + 5
    [] run.pc = "items"  -> Cardinality(run.todo) + Most + 4
    [] run.pc = "feeds"  -> Cardinality(ToVerify) + 3
    [] run.pc = "commit" -> 2
    [] run.pc = "push"   -> 1

MostSteps == 3 * Most + 6

LEMMA Remaining ==
  /\ run.pc = "idle"   => StepsLeft = 0
  /\ run.pc = "seeds"  => StepsLeft = Cardinality(run.todo) + 2 * Most + 6
  /\ run.pc = "search" => StepsLeft = 2 * Most + 5
  /\ run.pc = "items"  => StepsLeft = Cardinality(run.todo) + Most + 4
  /\ run.pc = "feeds"  => StepsLeft = Cardinality(ToVerify) + 3
  /\ run.pc = "commit" => StepsLeft = 2
  /\ run.pc = "push"   => StepsLeft = 1
BY DEF StepsLeft

LEMMA RemainingNext ==
  /\ run'.pc = "idle"   => StepsLeft' = 0
  /\ run'.pc = "seeds"  => StepsLeft' = Cardinality(run'.todo) + 2 * Most + 6
  /\ run'.pc = "search" => StepsLeft' = 2 * Most + 5
  /\ run'.pc = "items"  => StepsLeft' = Cardinality(run'.todo) + Most + 4
  /\ run'.pc = "feeds"  => StepsLeft' = Cardinality(ToVerify') + 3
  /\ run'.pc = "commit" => StepsLeft' = 2
  /\ run'.pc = "push"   => StepsLeft' = 1
BY DEF StepsLeft, Most

\* Sets of peers are no larger than all peers.
LEMMA PeersCount ==
  ASSUME NEW S \in SUBSET Peers
  PROVE  IsFiniteSet(S) /\ Cardinality(S) \in Nat /\ Most \in Nat /\ Cardinality(S) <= Most
BY Names, FS_Subset, FS_CardinalityType DEF Most

\* A registry that lists a peer once is no larger than all peers.
LEMMA RegistryCount ==
  ASSUME NEW S \in Registries, Once(S)
  PROVE  IsFiniteSet(S) /\ Cardinality(S) \in Nat /\ Cardinality(S) <= Most
<1> DEFINE f == [e \in S |-> e.peer]
<1>1. f \in [S -> Peers]
  BY DEF Registries, Entries
<1>2. \A d, e \in S : f[d] = f[e] => d = e
  BY DEF Once
<1>3. f \in Injection(S, Peers)
  <2> HIDE DEF f
  <2> QED BY <1>1, <1>2 DEF Injection, IsInjective
<1>4. IsFiniteSet(S) /\ Cardinality(S) <= Cardinality(Peers)
  <2> HIDE DEF f
  <2> QED BY <1>3, Names, FS_Injection
<1> QED BY <1>4, FS_CardinalityType DEF Most

\* What is left to verify of such a registry.
LEMMA VerifyCount ==
  ASSUME DiscoveryInv
  PROVE  IsFiniteSet(ToVerify) /\ Cardinality(ToVerify) \in Nat /\ Cardinality(ToVerify) <= Most
<1>1. run.found \in Registries /\ Once(run.found)
  BY DEF DiscoveryInv, TypeOK, Runs, RunInv
<1>2. ToVerify \in SUBSET run.found
  BY DEF ToVerify
<1>3. ToVerify \in Registries /\ Once(ToVerify)
  BY <1>1, <1>2 DEF Registries, Once
<1> QED BY <1>3, RegistryCount

LEMMA VerifyCountNext ==
  ASSUME DiscoveryInv'
  PROVE  Cardinality(ToVerify') \in Nat /\ Cardinality(ToVerify') <= Most
<1>1. run'.found \in Registries /\ Once(run'.found)
  BY DEF DiscoveryInv, TypeOK, Runs, RunInv
<1>2. ToVerify' \in SUBSET run'.found
  BY DEF ToVerify
<1> DEFINE S == ToVerify'
<1>3. S \in Registries /\ Once(S)
  BY <1>1, <1>2 DEF Registries, Once
<1> HIDE DEF S
<1>4. Cardinality(S) \in Nat /\ Cardinality(S) <= Most
  BY <1>3, RegistryCount
<1> QED BY <1>4 DEF S

LEMMA Where ==
  ASSUME DiscoveryInv
  PROVE  run \in Runs /\ run.pc \in Places /\ run.todo \in SUBSET Peers
BY DEF DiscoveryInv, TypeOK, Runs

\* A run has a step before it until it ends, and never more than MostSteps.
LEMMA StepsBounded ==
  ASSUME DiscoveryInv
  PROVE  StepsLeft \in 0..MostSteps /\ (run.pc # "idle" => StepsLeft > 0)
<1>1. /\ Cardinality(run.todo) \in Nat /\ Most \in Nat /\ Cardinality(run.todo) <= Most
      /\ Cardinality(ToVerify) \in Nat /\ Cardinality(ToVerify) <= Most
  BY Where, PeersCount, VerifyCount
<1> QED BY <1>1, Where, Remaining DEF Places, MostSteps

\* A step of the run, and one that ends it.
RunStep ==
  \/ SeedsDone \/ Search \/ SearchFails \/ ItemsDone
  \/ \E p \in Peers, answer \in Answers : FetchSeed(p, answer) \/ FetchItem(p, answer)
  \/ \E e \in Entries : FeedOk(e) \/ FeedNotOk(e)
  \/ FeedsDone \/ AddIgnored \/ NothingToCommit \/ Commit \/ Push \/ PushRejected \/ Kill

LEMMA StepsFall ==
  ASSUME DiscoveryInv, DiscoveryInv', RunStep
  PROVE  StepsLeft' < StepsLeft
<1>1. /\ Cardinality(run.todo) \in Nat /\ Most \in Nat /\ Cardinality(run.todo) <= Most
      /\ Cardinality(ToVerify) \in Nat /\ Cardinality(ToVerify) <= Most
      /\ IsFiniteSet(run.todo) /\ IsFiniteSet(ToVerify) /\ run \in Runs
  BY Where, PeersCount, VerifyCount
<1>2. /\ Cardinality(run'.todo) \in Nat /\ Cardinality(run'.todo) <= Most
      /\ Cardinality(ToVerify') \in Nat /\ Cardinality(ToVerify') <= Most
  <2>1. run'.todo \in SUBSET Peers
    BY DEF DiscoveryInv, TypeOK, Runs
  <2> QED BY <2>1, PeersCount, VerifyCountNext
<1>3. CASE \E p \in Peers, answer \in Answers : FetchSeed(p, answer) \/ FetchItem(p, answer)
  <2>1. PICK p \in run.todo : run'.todo = run.todo \ {p} /\ run'.pc = run.pc
                              /\ run.pc \in {"seeds", "items"}
    BY <1>1, <1>3 DEF FetchSeed, FetchItem, Runs
  <2>2. Cardinality(run.todo \ {p}) = Cardinality(run.todo) - 1
    BY <1>1, FS_RemoveElement
  <2> QED BY <1>1, <1>2, <2>1, <2>2, Remaining, RemainingNext
<1>4. CASE \E e \in Entries : FeedOk(e)
  <2>1. PICK e \in ToVerify : run' = [run EXCEPT !.verified = @ \cup {e}] /\ run.pc = "feeds"
    BY <1>4 DEF FeedOk
  <2>2. run'.found = run.found /\ run'.verified = run.verified \cup {e} /\ run'.pc = "feeds"
    BY <1>1, <2>1 DEF Runs
  <2>3. ToVerify' = ToVerify \ {e}
    BY <2>2 DEF ToVerify
  <2>4. Cardinality(ToVerify') = Cardinality(ToVerify) - 1
    BY <1>1, <2>1, <2>3, FS_RemoveElement
  <2> QED BY <1>1, <1>2, <2>1, <2>2, <2>4, Remaining, RemainingNext
<1>5. CASE SeedsDone \/ Search \/ SearchFails \/ ItemsDone \/ FeedsDone \/ Commit
  <2>1. \/ run.pc = "seeds" /\ run'.pc = "search"
        \/ run.pc = "search" /\ run'.pc = "items"
        \/ run.pc = "items" /\ run'.pc = "feeds"
        \/ run.pc = "feeds" /\ run'.pc = "commit"
        \/ run.pc = "commit" /\ run'.pc = "push"
    BY <1>1, <1>5 DEF SeedsDone, Search, SearchFails, ItemsDone, FeedsDone, Commit, Runs
  <2> QED BY <1>1, <1>2, <2>1, Remaining, RemainingNext
<1>6. ASSUME \/ \E e \in Entries : FeedNotOk(e)
             \/ AddIgnored \/ NothingToCommit \/ Push \/ PushRejected \/ Kill
      PROVE  StepsLeft' < StepsLeft
  <2>1. run.pc # "idle"
    BY <1>6 DEF FeedNotOk, AddIgnored, NothingToCommit, Push, PushRejected, Kill
  <2>2. \E how \in Ends : run' = Ended(how)
    BY <1>6 DEF FeedNotOk, AddIgnored, NothingToCommit, Push, PushRejected, Kill, Ends
  <2>3. run'.pc = "idle"
    BY <2>2, EndedTyping DEF DiscoveryInv
  <2> QED BY <2>1, <2>3, StepsBounded, RemainingNext
<1> QED BY <1>3, <1>4, <1>5, <1>6 DEF RunStep

\* Labels and the pushes of others do not lengthen a run.
LEMMA OthersCount ==
  ASSUME DiscoveryInv, [Next]_vars, ~ RunStep, ~ Begin
  PROVE  StepsLeft' = StepsLeft
<1>1. /\ run'.pc = run.pc /\ run'.todo = run.todo /\ run'.found = run.found
      /\ run'.verified = run.verified
  <2>1. CASE \E t \in SUBSET Peers : Label(t)
    BY <2>1 DEF Label
  <2>2. CASE \E v \in Versions : OthersPush(v)
    BY <2>2, Where DEF OthersPush, Runs
  <2>3. CASE UNCHANGED vars
    BY <2>3 DEF vars
  <2> QED BY <2>1, <2>2, <2>3 DEF Next, RunStep
<1>2. ToVerify' = ToVerify
  BY <1>1 DEF ToVerify
<1> QED BY <1>1, <1>2, Where, Remaining, RemainingNext DEF Places

\* A run of the discovery takes at most three steps for each repository and
\* six more: it asks for a descriptor or a feed once, makes one search and one
\* push, and neither new labels nor other pushes send it back.
THEOREM RunsAreBounded ==
  Spec => /\ [](StepsLeft \in 0..MostSteps)
          /\ [][/\ RunStep => StepsLeft' < StepsLeft
                /\ ~ Begin => StepsLeft' <= StepsLeft]_vars
<1> DEFINE Bounded == StepsLeft \in 0..MostSteps
           Counted == /\ RunStep => StepsLeft' < StepsLeft
                      /\ ~ Begin => StepsLeft' <= StepsLeft
<1>1. DiscoveryInv => Bounded
  BY StepsBounded
<1>2. MostSteps \in Nat
  BY PeersCount DEF MostSteps
<1>3. ASSUME DiscoveryInv, DiscoveryInv', [Next]_vars
      PROVE  [Counted]_vars
  <2>1. Bounded /\ Bounded'
    BY <1>1, <1>3, PTL
  <2>2. StepsLeft \in Nat /\ StepsLeft' \in Nat
    BY <1>2, <2>1
  <2>3. RunStep => StepsLeft' < StepsLeft
    BY <1>3, StepsFall
  <2>4. ~ RunStep /\ ~ Begin => StepsLeft' = StepsLeft
    BY <1>3, OthersCount
  <2> QED BY <2>2, <2>3, <2>4
<1> HIDE DEF Bounded, Counted
<1>4. Spec => []Bounded /\ [][Counted]_vars
  BY <1>1, <1>3, DiscoveryInvariant, PTL DEF Spec
<1> QED BY <1>4 DEF Bounded, Counted
=============================================================================
