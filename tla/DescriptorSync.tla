--------------------------- MODULE DescriptorSync ---------------------------
(***************************************************************************)
(* The descriptor and the card that peers read.  setup_node.py renders     *)
(* both on the operator's side, for the repository and the layer of the    *)
(* operator's answers.  Each push to main then starts two workflows        *)
(* (sync-federation-descriptor.yml, sync-agent-card.yml): each renders one *)
(* of the two files from the commit that was pushed and pushes it back.    *)
(*                                                                         *)
(* The runs are parallel, late or lost, and operators go on pushing.       *)
(***************************************************************************)
EXTENDS Naturals

CONSTANTS
  Manifests,  \* contents of docs/authority/capabilities.json
  Broken,     \* the one that is no JSON
  Configs,    \* the answers of operators
  NodeOf,     \* the repository a configuration names
  LayerOf,    \* LAYER_MAP[tier] of a configuration
  Node,       \* GITHUB_REPOSITORY
  NodeLayer,  \* the default of --layer
  MaxPushes, MaxRuns  \* bounds: pushes of operators, runs of each workflow

ASSUME Bounds == MaxPushes \in Nat /\ MaxRuns \in Nat \ {0}
ASSUME BrokenManifest == Broken \in Manifests

VARIABLES
  main,  \* the branch
  runs   \* the runs of each workflow

vars == <<main, runs>>

-----------------------------------------------------------------------------
Nodes  == {NodeOf[c] : c \in Configs} \cup {Node}
Layers == {LayerOf[c] : c \in Configs} \cup {NodeLayer}

Descriptors == [skills : Manifests, name : Nodes, layer : Layers]
Cards       == [skills : Manifests, name : Nodes, url : Nodes]

Descriptor(manifest, node, layer) == [skills |-> manifest, name |-> node, layer |-> layer]

\* Mutant: the whole descriptor is put where its name belongs.
CardNested(manifest, descriptor, node) ==
  [skills |-> manifest, name |-> descriptor, url |-> node]

\* The card takes its name from the descriptor it finds in the checkout.
Card(manifest, descriptor, node) ==
  [skills |-> manifest, name |-> descriptor.name, url |-> node]

Workflows == {"descriptor", "card"}

Trees == [manifest : Manifests, descriptor : Descriptors, card : Cards]

\* What workflow w renders from a checkout: --repo is the repository it runs
\* in, --layer is left to its default.
Output(w, tree) == IF w = "descriptor" THEN Descriptor(tree.manifest, Node, NodeLayer)
                                       ELSE Card(tree.manifest, tree.descriptor, Node)

Tips == 0..MaxPushes

Runs == [pc : {"none", "queued", "push", "ok", "rejected", "failed"},
         tree : Trees,     \* the commit checked out
         tip : Tips,       \* history: how many operators' pushes that commit has
         late : BOOLEAN]   \* the branch has moved since

NoRun(tree) == [pc |-> "none", tree |-> tree, tip |-> 0, late |-> FALSE]

\* A branch whose files have been rendered from its manifest.
Init ==
  \E m \in Manifests \ {Broken} :
    LET d == Descriptor(m, Node, NodeLayer)
        t == [manifest |-> m, descriptor |-> d, card |-> Card(m, d, Node)]
    IN /\ main = [tree |-> t, tip |-> 0]
       /\ runs = [w \in Workflows |-> [k \in 1..MaxRuns |-> NoRun(t)]]

-----------------------------------------------------------------------------
Places == 1..MaxRuns

Free(w) == {k \in Places : runs[w][k].pc = "none"}

\* The branch becomes b, and a run of each of ws starts for it; the runs that
\* have checked out what was there before are late from now on.
BranchMoves(b, ws) ==
  /\ main' = b
  /\ \E k \in [ws -> Places] :
       /\ \A w \in ws : k[w] \in Free(w) /\ \A j \in Free(w) : k[w] <= j
       /\ runs' = [w \in Workflows |-> [j \in Places |->
            IF w \in ws /\ j = k[w]
              THEN [pc |-> "queued", tree |-> b.tree, tip |-> b.tip, late |-> FALSE]
              ELSE [runs[w][j] EXCEPT !.late = @ \/ b # main]]]

\* The descriptors a setup may leave: _regenerate goes on with the old one
\* when the rendering fails.
Rendered(c, m) == {main.tree.descriptor, Descriptor(m, NodeOf[c], LayerOf[c])}

\* What an operator may push: a manifest, and each of the two files as the
\* branch has it or as a setup has rendered it (_regenerate) before the
\* manifest was edited further.
Pushable(c, m, n) ==
  {[manifest |-> n, descriptor |-> d, card |-> k] :
     d \in Rendered(c, m),
     k \in {main.tree.card} \cup {Card(m, r, NodeOf[c]) : r \in Rendered(c, m)}}

\* A pull request is merged.
Merge(c, m, n) ==
  /\ main.tip < MaxPushes
  /\ m # Broken
  /\ \E tree \in Pushable(c, m, n) :
       BranchMoves([tree |-> tree, tip |-> main.tip + 1], Workflows)

\* A push of files under .well-known only: paths-ignore, no workflow starts.
PushIgnored(c, m) ==
  /\ main.tip < MaxPushes
  /\ m # Broken
  /\ \E tree \in Pushable(c, m, main.tree.manifest) :
       /\ tree # main.tree
       /\ BranchMoves([tree |-> tree, tip |-> main.tip + 1], {})

\* workflow_dispatch.
Dispatch(w) == BranchMoves(main, {w})

To(w, k, pc) ==
  /\ runs' = [runs EXCEPT ![w][k].pc = pc]
  /\ UNCHANGED main

\* Checkout of the commit, rendering, and a commit unless nothing changed.
Render(w, k) ==
  /\ runs[w][k].pc = "queued"
  /\ runs[w][k].tree.manifest # Broken
  /\ LET tree == runs[w][k].tree IN
       To(w, k, IF Output(w, tree) = tree[w] THEN "ok" ELSE "push")

\* json.loads raises on a broken manifest, a step fails or the runner is lost.
RunFails(w, k) ==
  /\ runs[w][k].pc \in {"queued", "push"}
  /\ To(w, k, "failed")

Pushes(w, k, tree) ==
  /\ main' = [main EXCEPT !.tree = [tree EXCEPT ![w] = Output(w, runs[w][k].tree)]]
  /\ runs' = [v \in Workflows |-> [j \in Places |->
       IF v = w /\ j = k THEN [runs[w][k] EXCEPT !.pc = "ok"]
       ELSE [runs[v][j] EXCEPT !.late = TRUE]]]

\* Mutant: git push --force.
PushForced(w, k) ==
  /\ runs[w][k].pc = "push"
  /\ Pushes(w, k, runs[w][k].tree)

\* Mutant: git pull --rebase before the push.
PushRebased(w, k) ==
  /\ runs[w][k].pc = "push"
  /\ Pushes(w, k, main.tree)

\* git push, fast-forward only; a push with the workflow's own token starts
\* no other workflow.
Push(w, k) ==
  /\ runs[w][k].pc = "push"
  /\ ~ runs[w][k].late
  /\ Pushes(w, k, runs[w][k].tree)

\* The branch has moved: the job fails, and nothing tries again.
Rejected(w, k) ==
  /\ runs[w][k].pc = "push"
  /\ runs[w][k].late
  /\ To(w, k, "rejected")

Next ==
  \/ \E c \in Configs, m, n \in Manifests : Merge(c, m, n)
  \/ \E c \in Configs, m \in Manifests : PushIgnored(c, m)
  \/ \E w \in Workflows : Dispatch(w)
  \/ \E w \in Workflows, k \in Places :
       Render(w, k) \/ RunFails(w, k) \/ Push(w, k) \/ Rejected(w, k)

Spec == Init /\ [][Next]_vars

-----------------------------------------------------------------------------
(* Properties.                                                             *)

\* Every variable keeps its type.
TypeOK ==
  /\ main \in [tree : Trees, tip : Tips]
  /\ runs \in [Workflows -> [Places -> Runs]]

\* Once a run that has seen the operators' last push ends well, its file on
\* main is what the manifest on main says, whatever older, later or parallel
\* runs still do; and the card goes with the descriptor it was rendered from.
SyncedIsCurrent ==
  \A w \in Workflows, k \in Places :
    LET r == runs[w][k] IN
      r.pc = "ok" /\ r.tip = main.tip =>
        /\ main.tree[w].skills = main.tree.manifest
        /\ w = "descriptor" \/ r.tree.descriptor = main.tree.descriptor =>
             main.tree[w] = Output(w, r.tree)

\* What a workflow read at its checkout and pushes later is what it would have
\* rendered from the branch at that very moment: every change of main is a
\* push of an operator, or puts one file as rendered from main itself and
\* keeps all the rest.
SyncIsAtomic ==
  [][\/ main'.tip = main.tip + 1
     \/ \E w \in Workflows :
          main' = [main EXCEPT !.tree[w] = Output(w, main.tree)]]_main
=============================================================================
