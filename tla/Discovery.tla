----------------------------- MODULE Discovery ------------------------------
(***************************************************************************)
(* .github/workflows/federation-discovery.yml: a run checks the node out,  *)
(* looks for peers (scripts/discover_federation_peers.py: the descriptors  *)
(* of the seeds first, then a search by topic), reads their authority      *)
(* feeds (fetch_peer_authority.py, see AuthorityFeed) and commits the      *)
(* registry it found.                                                      *)
(*                                                                         *)
(* Repositories take and drop the topic at any moment, calls fail, and     *)
(* operators and other runs push to the same branch.                       *)
(***************************************************************************)
EXTENDS Naturals, FiniteSets

CONSTANTS
  Peers,      \* full names of repositories
  Self,       \* GITHUB_REPOSITORY
  Seeds,      \* repositories in authority-descriptor-seeds.json
  PageSize,   \* per_page
  Versions    \* what the other files of the branch may hold

ASSUME Names == Self \in Peers /\ Seeds \subseteq Peers /\ IsFiniteSet(Peers)
ASSUME Sizes == PageSize \in Nat

VARIABLES
  topic,   \* repositories that have the topic agent-federation-node
  main,    \* the branch: the registry committed last, and the other files
  run      \* the runner

vars == <<topic, main, run>>

-----------------------------------------------------------------------------
\* A record of a peer; feed: its descriptor names an authority feed.
Entries == [peer : Peers, method : {"seed", "topic_search"}, feed : BOOLEAN]

\* Mutant: the record has no discovery_method.
EntryUnnamed(p, how, answer) == [peer |-> p, feed |-> answer = "feed"]

Entry(p, how, answer) == [peer |-> p, method |-> how, feed |-> answer = "feed"]

\* What asking for a descriptor brings.
Answers == {"none", "no feed", "feed"}

Registries == SUBSET Entries

\* tracked: .federation/peers.json, which .gitignore names, is in the index.
Branches == [registry : Registries, tracked : BOOLEAN, rest : Versions]

Places == {"idle", "seeds", "search", "items", "feeds", "commit", "push"}
Ends   == {"none", "unchanged", "pushed", "feed not ok", "ignored", "rejected", "killed"}

Runs == [pc : Places,
         checkout : Branches,
         todo : SUBSET Peers,      \* descriptors still to be asked for
         found : Registries,
         hits : SUBSET Peers,      \* history: repositories with the topic at the search
         verified : Registries,    \* history: entries whose feed was read and ok
         calm : BOOLEAN,           \* history: every seed and the search answered
         stale : BOOLEAN,          \* the branch moved since the checkout
         said : Ends]

Init ==
  /\ topic \in SUBSET Peers
  /\ main \in [registry : {{}}, tracked : BOOLEAN, rest : Versions]
  /\ run = [pc |-> "idle", checkout |-> main, todo |-> {}, found |-> {}, hits |-> {},
            verified |-> {}, calm |-> TRUE, stale |-> FALSE, said |-> "none"]

\* The runner goes away with all it held; found stays as history.
Ended(how) == [run EXCEPT !.pc = "idle", !.todo = {}, !.hits = {}, !.verified = {},
                          !.calm = TRUE, !.stale = FALSE, !.said = how]

Seen(registry) == {e.peer : e \in registry}

-----------------------------------------------------------------------------
Begin ==
  /\ run.pc = "idle"
  /\ run' = [pc |-> "seeds", checkout |-> main, todo |-> Seeds, found |-> {}, hits |-> {},
             verified |-> {}, calm |-> TRUE, stale |-> FALSE, said |-> "none"]
  /\ UNCHANGED <<topic, main>>

\* A seed is a peer if its descriptor can be fetched.
FetchSeed(p, answer) ==
  /\ run.pc = "seeds"
  /\ p \in run.todo
  /\ run' = [run EXCEPT
       !.todo = @ \ {p},
       !.found = IF answer = "none" THEN @ ELSE @ \cup {Entry(p, "seed", answer)},
       !.calm = @ /\ answer # "none"]
  /\ UNCHANGED <<topic, main>>

SeedsDone ==
  /\ run.pc = "seeds"
  /\ run.todo = {}
  /\ run' = [run EXCEPT !.pc = "search"]
  /\ UNCHANGED <<topic, main>>

\* The first page of the search; the node itself is left out.
Search ==
  /\ run.pc = "search"
  /\ \E page \in SUBSET topic :
       /\ \/ page = topic
          \/ Cardinality(page) = PageSize /\ Cardinality(topic) > PageSize
       /\ run' = [run EXCEPT !.pc = "items", !.todo = page \ {Self}, !.hits = topic]
  /\ UNCHANGED <<topic, main>>

\* discover() returns [] when the search fails: only the seeds are left.
SearchFails ==
  /\ run.pc = "search"
  /\ run' = [run EXCEPT !.pc = "items", !.todo = {}, !.calm = FALSE]
  /\ UNCHANGED <<topic, main>>

\* Mutant: seeds are not recognised in the search results.
FetchItemTwice(p, answer) ==
  /\ run.pc = "items"
  /\ p \in run.todo
  /\ run' = [run EXCEPT !.todo = @ \ {p},
                        !.found = @ \cup {Entry(p, "topic_search", answer)}]
  /\ UNCHANGED <<topic, main>>

\* A repository the search found is a peer with or without a descriptor,
\* unless a seed was taken for it already.
FetchItem(p, answer) ==
  /\ run.pc = "items"
  /\ p \in run.todo
  /\ run' = [run EXCEPT
       !.todo = @ \ {p},
       !.found = IF p \in Seen(@) THEN @ ELSE @ \cup {Entry(p, "topic_search", answer)}]
  /\ UNCHANGED <<topic, main>>

\* The registry file is overwritten with what this run has found.
ItemsDone ==
  /\ run.pc = "items"
  /\ run.todo = {}
  /\ run' = [run EXCEPT !.pc = "feeds"]
  /\ UNCHANGED <<topic, main>>

ToVerify == {e \in run.found : e.feed} \ run.verified

FeedOk(e) ==
  /\ run.pc = "feeds"
  /\ e \in ToVerify
  /\ run' = [run EXCEPT !.verified = @ \cup {e}]
  /\ UNCHANGED <<topic, main>>

\* Mutant: an unverified feed is passed over.
FeedPassedOver(e) ==
  /\ run.pc = "feeds"
  /\ e \in ToVerify
  /\ run' = [run EXCEPT !.pc = "commit"]
  /\ UNCHANGED <<topic, main>>

\* fetch_peer_authority exits with 1: the job ends without a commit.
FeedNotOk(e) ==
  /\ run.pc = "feeds"
  /\ e \in ToVerify
  /\ run' = Ended("feed not ok")
  /\ UNCHANGED <<topic, main>>

FeedsDone ==
  /\ run.pc = "feeds"
  /\ ToVerify = {}
  /\ run' = [run EXCEPT !.pc = "commit"]
  /\ UNCHANGED <<topic, main>>

\* git add refuses an ignored file that it does not track.
AddIgnored ==
  /\ run.pc = "commit"
  /\ ~ run.checkout.tracked
  /\ run' = Ended("ignored")
  /\ UNCHANGED <<topic, main>>

\* Nothing is staged when the file is as it was checked out. The same peers
\* in another order, or described in other words, are a change.
NothingToCommit ==
  /\ run.pc = "commit"
  /\ run.checkout.tracked
  /\ run.found = run.checkout.registry
  /\ run' = Ended("unchanged")
  /\ UNCHANGED <<topic, main>>

Commit ==
  /\ run.pc = "commit"
  /\ run.checkout.tracked
  /\ run' = [run EXCEPT !.pc = "push"]
  /\ UNCHANGED <<topic, main>>

\* git push origin HEAD:main, fast-forward only.
Push ==
  /\ run.pc = "push"
  /\ ~ run.stale
  /\ main' = [run.checkout EXCEPT !.registry = run.found]
  /\ run' = Ended("pushed")
  /\ UNCHANGED topic

\* The branch has moved, or cannot be reached; there is no second attempt.
PushRejected ==
  /\ run.pc = "push"
  /\ run' = Ended("rejected")
  /\ UNCHANGED <<topic, main>>

Kill ==
  /\ run.pc # "idle"
  /\ run' = Ended("killed")
  /\ UNCHANGED <<topic, main>>

Label(t) ==
  /\ topic' = t
  /\ t # topic
  /\ UNCHANGED <<main, run>>

\* An operator or another workflow pushes something else.
OthersPush(v) ==
  /\ v # main.rest
  /\ main' = [main EXCEPT !.rest = v]
  /\ run' = [run EXCEPT !.stale = run.pc # "idle"]
  /\ UNCHANGED topic

Next ==
  \/ Begin \/ SeedsDone \/ Search \/ SearchFails \/ ItemsDone
  \/ \E p \in Peers, answer \in Answers : FetchSeed(p, answer) \/ FetchItem(p, answer)
  \/ \E e \in Entries : FeedOk(e) \/ FeedNotOk(e)
  \/ FeedsDone \/ AddIgnored \/ NothingToCommit \/ Commit \/ Push \/ PushRejected \/ Kill
  \/ \E t \in SUBSET Peers : Label(t)
  \/ \E v \in Versions : OthersPush(v)

Spec == Init /\ [][Next]_vars

-----------------------------------------------------------------------------
(* Properties.                                                             *)

\* Every variable keeps its type.
TypeOK == topic \subseteq Peers /\ main \in Branches /\ run \in Runs

Searched == {"feeds", "commit", "push"}

\* The registry lists a peer once, though seeds and search may both find it,
\* and only peers that are seeds or had the topic at the moment of the search;
\* it lists all of them if no seed and no page of the search went missing.
\* The node lists itself only where its own seeds name it.
FindsEachOnce ==
  /\ \A e, f \in run.found : e.peer = f.peer => e = f
  /\ run.pc # "idle" => Seen(run.found) \subseteq Seeds \cup (run.hits \ {Self})
  /\ (run.pc \in Searched /\ run.calm /\ Cardinality(run.hits) <= PageSize)
       => Seen(run.found) = Seeds \cup (run.hits \ {Self})

\* A registry reaches the branch only if every feed it names was read and
\* verified by the same run, and never on top of a push the run had not seen.
PushedIsVerified ==
  [][Push => /\ {e \in main'.registry : e.feed} \subseteq run.verified
             /\ main'.rest = main.rest]_vars

\* "Commit discovery results": a run that gets as far as that step and is
\* neither overtaken nor killed leaves its registry on the branch.
FoundIsCommitted ==
  run.said \in {"unchanged", "pushed", "ignored"} => main.registry = run.found
=============================================================================
