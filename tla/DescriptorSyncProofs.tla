------------------------ MODULE DescriptorSyncProofs ------------------------
(***************************************************************************)
(* The theorems about the two synchronising workflows, for any number of   *)
(* manifests, configurations, pushes and runs.                             *)
(*                                                                         *)
(* A run knows the branch as it was checked out.  As long as operators     *)
(* push nothing, the branch can differ from that in two ways only: the     *)
(* descriptor has become the rendered one, and the card has become one     *)
(* that was rendered in between.  SyncInv says so of every run.            *)
(***************************************************************************)
EXTENDS DescriptorSync, TLAPS

Branches == [tree : Trees, tip : Tips]

\* The descriptor that every run since the last push of operators renders.
Settled(b) == Descriptor(b.tree.manifest, Node, NodeLayer)

\* The card of branch b goes with descriptor d, if d is the one of the branch.
CardFits(b, d) ==
  /\ b.tree.card.skills = b.tree.manifest
  /\ d = b.tree.descriptor => b.tree.card = Card(b.tree.manifest, d, Node)

\* What has become of the files of a run's checkout.
Followed(b, r) ==
  /\ r.tree.manifest = b.tree.manifest
  /\ b.tree.descriptor = r.tree.descriptor \/ b.tree.descriptor = Settled(b)
  /\ b.tree.card = r.tree.card \/ CardFits(b, r.tree.descriptor)

\* What holds once a run of w has ended well.
Synced(b, w, r) ==
  IF w = "descriptor" THEN b.tree.descriptor = Settled(b)
                      ELSE CardFits(b, r.tree.descriptor)

RunInv(b, w, r) ==
  r.pc # "none" =>
    /\ r.tip <= b.tip
    /\ r.pc \in {"queued", "push"} /\ ~ r.late => r.tree = b.tree /\ r.tip = b.tip
    /\ r.tip = b.tip => /\ Followed(b, r)
                        /\ r.pc = "ok" => Synced(b, w, r)

SyncInv ==
  /\ TypeOK
  /\ \A w \in Workflows, k \in Places : RunInv(main, w, runs[w][k])

-----------------------------------------------------------------------------
(* Types.                                                                  *)

\* A rendered descriptor is one.
LEMMA DescriptorTyping ==
  ASSUME NEW m \in Manifests, NEW n \in Nodes, NEW l \in Layers
  PROVE  Descriptor(m, n, l) \in Descriptors
BY DEF Descriptor, Descriptors

\* A rendered card is one.
LEMMA CardTyping ==
  ASSUME NEW m \in Manifests, NEW d \in Descriptors, NEW n \in Nodes
  PROVE  Card(m, d, n) \in Cards
BY DEF Card, Cards, Descriptors

\* What a configuration names is a node and a layer.
LEMMA NamesTyping ==
  /\ Node \in Nodes
  /\ NodeLayer \in Layers
  /\ \A c \in Configs : NodeOf[c] \in Nodes /\ LayerOf[c] \in Layers
BY DEF Nodes, Layers

\* A tree stays one when a workflow's file is rendered into it.
LEMMA OutputTyping ==
  ASSUME NEW w \in Workflows, NEW t \in Trees, NEW u \in Trees
  PROVE  [u EXCEPT ![w] = Output(w, t)] \in Trees
<1>1. t.manifest \in Manifests /\ t.descriptor \in Descriptors
  BY DEF Trees
<1>2. CASE w = "descriptor"
  <2>1. Output(w, t) \in Descriptors
    BY <1>1, <1>2, NamesTyping, DescriptorTyping DEF Output
  <2> QED BY <2>1, <1>2 DEF Trees
<1>3. CASE w = "card"
  <2>1. Output(w, t) \in Cards
    BY <1>1, <1>3, NamesTyping, CardTyping DEF Output
  <2> QED BY <2>1, <1>3 DEF Trees
<1> QED BY <1>2, <1>3 DEF Workflows

\* What an operator may push is a tree.
LEMMA PushableTyping ==
  ASSUME NEW c \in Configs, NEW m \in Manifests, NEW n \in Manifests,
         main.tree \in Trees, NEW t \in Pushable(c, m, n)
  PROVE  t \in Trees
<1>1. PICK d, k : /\ t = [manifest |-> n, descriptor |-> d, card |-> k]
                  /\ d \in Rendered(c, m)
                  /\ \/ k = main.tree.card
                     \/ \E r \in Rendered(c, m) : k = Card(m, r, NodeOf[c])
  BY DEF Pushable
<1>2. Rendered(c, m) \subseteq Descriptors
  BY NamesTyping, DescriptorTyping DEF Rendered, Trees
<1>3. \A r \in Rendered(c, m) : Card(m, r, NodeOf[c]) \in Cards
  BY <1>2, NamesTyping, CardTyping
<1>4. d \in Descriptors /\ k \in Cards
  BY <1>1, <1>2, <1>3 DEF Trees
<1> QED BY <1>1, <1>4 DEF Trees

-----------------------------------------------------------------------------
(* One run, whatever the branch does.                                      *)

\* A run that starts knows the branch as it is.
LEMMA FreshRun ==
  ASSUME NEW b \in Branches, NEW w \in Workflows
  PROVE  RunInv(b, w, [pc |-> "queued", tree |-> b.tree, tip |-> b.tip, late |-> FALSE])
BY Bounds DEF RunInv, Followed, Branches, Tips

\* An operator's push leaves the runs before it behind.
LEMMA RunLeftBehind ==
  ASSUME NEW b \in Branches, NEW c \in Branches, NEW w \in Workflows, NEW r \in Runs,
         RunInv(b, w, r), c.tip = b.tip + 1
  PROVE  RunInv(c, w, [r EXCEPT !.late = TRUE])
<1>1. b.tip \in Nat /\ c.tip \in Nat /\ r.tip \in Nat
  <2>1. b.tip \in Tips /\ c.tip \in Tips /\ r.tip \in Tips
    BY DEF Branches, Runs
  <2> QED BY <2>1, Bounds DEF Tips
<1>2. /\ [r EXCEPT !.late = TRUE].pc = r.pc
      /\ [r EXCEPT !.late = TRUE].tip = r.tip
      /\ [r EXCEPT !.late = TRUE].late = TRUE
  BY DEF Runs
<1> QED BY <1>1, <1>2 DEF RunInv

\* A run that fails, is rejected or has something to push.
LEMMA RunGoesOn ==
  ASSUME NEW b \in Branches, NEW w \in Workflows, NEW r \in Runs, RunInv(b, w, r),
         r.pc \in {"queued", "push"}, NEW pc \in {"push", "failed", "rejected"}
  PROVE  RunInv(b, w, [r EXCEPT !.pc = pc])
<1>1. /\ [r EXCEPT !.pc = pc].pc = pc
      /\ [r EXCEPT !.pc = pc].tip = r.tip
      /\ [r EXCEPT !.pc = pc].late = r.late
      /\ [r EXCEPT !.pc = pc].tree = r.tree
  BY DEF Runs
<1>2. r.pc # "none" /\ pc # "ok"
  OBVIOUS
<1> QED BY <1>1, <1>2 DEF RunInv, Followed

\* A run that finds nothing to change.
LEMMA RunFindsNothing ==
  ASSUME NEW b \in Branches, NEW w \in Workflows, NEW r \in Runs, RunInv(b, w, r),
         r.pc = "queued", Output(w, r.tree) = r.tree[w]
  PROVE  RunInv(b, w, [r EXCEPT !.pc = "ok"])
<1> DEFINE s == [r EXCEPT !.pc = "ok"]
<1>1. s.pc = "ok" /\ s.tip = r.tip /\ s.late = r.late /\ s.tree = r.tree
  BY DEF Runs
<1>2. /\ r.tip <= b.tip
      /\ ~ r.late => r.tree = b.tree /\ r.tip = b.tip
      /\ r.tip = b.tip => Followed(b, r)
  BY DEF RunInv
<1>3. ASSUME r.tip = b.tip
      PROVE  Synced(b, w, s)
  <2>1. CASE w = "descriptor"
    <3>1. r.tree.descriptor = Settled(b)
      BY <1>2, <1>3, <2>1 DEF Followed, Settled, Output
    <3> QED BY <1>2, <1>3, <2>1, <3>1 DEF Followed, Synced
  <2>2. CASE w = "card"
    <3>1. r.tree.card = Card(b.tree.manifest, r.tree.descriptor, Node)
      BY <1>2, <1>3, <2>2 DEF Followed, Output
    <3>2. CardFits(b, r.tree.descriptor)
      BY <1>2, <1>3, <3>1 DEF Followed, CardFits, Card
    <3> QED BY <2>2, <3>2, <1>1 DEF Synced
  <2> QED BY <2>1, <2>2 DEF Workflows
<1>4. Followed(b, r) => Followed(b, s)
  BY <1>1 DEF Followed
<1> QED BY <1>1, <1>2, <1>3, <1>4 DEF RunInv

-----------------------------------------------------------------------------
(* A workflow's push.                                                      *)

\* A descriptor that is pushed is the settled one; the card stays.
LEMMA DescriptorPushed ==
  ASSUME NEW b \in Branches, NEW c \in Branches, NEW r \in Runs, NEW v \in Workflows,
         RunInv(b, v, r),
         c.tip = b.tip,
         c.tree = [b.tree EXCEPT !.descriptor = Settled(b)]
  PROVE  RunInv(c, v, [r EXCEPT !.late = TRUE])
<1> DEFINE s == [r EXCEPT !.late = TRUE]
<1>1. s.pc = r.pc /\ s.tip = r.tip /\ s.late = TRUE /\ s.tree = r.tree
  BY DEF Runs
<1>2. /\ c.tree.manifest = b.tree.manifest
      /\ c.tree.card = b.tree.card
      /\ c.tree.descriptor = Settled(b)
  BY DEF Branches, Trees
<1>3. Settled(c) = Settled(b)
  BY <1>2 DEF Settled
<1>4. ASSUME r.pc # "none", r.tip = b.tip
      PROVE  /\ Followed(c, s)
             /\ r.pc = "ok" => Synced(c, v, s)
  <2>1. Followed(b, r) /\ (r.pc = "ok" => Synced(b, v, r))
    BY <1>4 DEF RunInv
  <2>2. CardFits(b, r.tree.descriptor) => CardFits(c, r.tree.descriptor)
    <3>1. r.tree.descriptor = Settled(b) => b.tree.descriptor = r.tree.descriptor
      BY <2>1 DEF Followed
    <3> QED BY <3>1, <1>2 DEF CardFits
  <2>3. Followed(c, s)
    BY <1>1, <1>2, <1>3, <2>1, <2>2 DEF Followed
  <2>4. r.pc = "ok" => Synced(c, v, s)
    BY <1>1, <1>2, <1>3, <2>1, <2>2 DEF Synced
  <2> QED BY <2>3, <2>4
<1> QED BY <1>1, <1>4 DEF RunInv

\* A card that is pushed goes with the descriptor of the branch.
LEMMA CardPushed ==
  ASSUME NEW b \in Branches, NEW c \in Branches, NEW r \in Runs, NEW v \in Workflows,
         RunInv(b, v, r),
         c.tip = b.tip,
         c.tree = [b.tree EXCEPT !.card = Card(b.tree.manifest, b.tree.descriptor, Node)]
  PROVE  RunInv(c, v, [r EXCEPT !.late = TRUE])
<1> DEFINE s == [r EXCEPT !.late = TRUE]
<1>1. s.pc = r.pc /\ s.tip = r.tip /\ s.late = TRUE /\ s.tree = r.tree
  BY DEF Runs
<1>2. /\ c.tree.manifest = b.tree.manifest
      /\ c.tree.card = Card(b.tree.manifest, b.tree.descriptor, Node)
      /\ c.tree.descriptor = b.tree.descriptor
  BY DEF Branches, Trees
<1>3. Settled(c) = Settled(b)
  BY <1>2 DEF Settled
<1>4. CardFits(c, r.tree.descriptor)
  BY <1>2 DEF CardFits, Card
<1>5. ASSUME r.pc # "none", r.tip = b.tip
      PROVE  /\ Followed(c, s)
             /\ r.pc = "ok" => Synced(c, v, s)
  <2>1. Followed(b, r) /\ (r.pc = "ok" => Synced(b, v, r))
    BY <1>5 DEF RunInv
  <2>2. Followed(c, s)
    BY <1>1, <1>2, <1>3, <1>4, <2>1 DEF Followed
  <2>3. r.pc = "ok" => Synced(c, v, s)
    BY <1>1, <1>2, <1>3, <1>4, <2>1 DEF Synced
  <2> QED BY <2>2, <2>3
<1> QED BY <1>1, <1>5 DEF RunInv

\* The branch b after the push of run p of w.
AfterPush(b, w, p) == [b EXCEPT !.tree = [p.tree EXCEPT ![w] = Output(w, p.tree)]]

\* The branch after the push of p, and what the push does to any run.
LEMMA PushedBranch ==
  ASSUME NEW b \in Branches, NEW c \in Branches, NEW w \in Workflows, NEW p \in Runs,
         RunInv(b, w, p), p.pc = "push", ~ p.late,
         c = AfterPush(b, w, p)
  PROVE  /\ p.tree = b.tree /\ p.tip = b.tip /\ c.tip = b.tip
         /\ c.tree.manifest = b.tree.manifest
         /\ w = "descriptor" => c.tree = [b.tree EXCEPT !.descriptor = Settled(b)]
         /\ w = "card" =>
              c.tree = [b.tree EXCEPT !.card = Card(b.tree.manifest, b.tree.descriptor, Node)]
<1>1. p.tree = b.tree /\ p.tip = b.tip
  BY DEF RunInv
<1>2. c.tip = b.tip /\ c.tree = [b.tree EXCEPT ![w] = Output(w, b.tree)]
  BY <1>1 DEF Branches, AfterPush
<1>3. b.tree \in Trees
  BY DEF Branches
<1>4. c.tree.manifest = b.tree.manifest
  BY <1>2, <1>3 DEF Trees, Workflows
<1>5. w = "descriptor" => c.tree = [b.tree EXCEPT !.descriptor = Settled(b)]
  BY <1>2 DEF Output, Settled
<1>6. w = "card" =>
        c.tree = [b.tree EXCEPT !.card = Card(b.tree.manifest, b.tree.descriptor, Node)]
  BY <1>2 DEF Output
<1> QED BY <1>1, <1>2, <1>4, <1>5, <1>6

\* Every run keeps its invariant over the push of one of them.
LEMMA RunsOverPush ==
  ASSUME NEW b \in Branches, NEW c \in Branches, NEW w \in Workflows, NEW p \in Runs,
         RunInv(b, w, p), p.pc = "push", ~ p.late,
         c = AfterPush(b, w, p),
         NEW v \in Workflows, NEW r \in Runs, RunInv(b, v, r)
  PROVE  RunInv(c, v, [r EXCEPT !.late = TRUE])
<1>1. CASE w = "descriptor"
  BY <1>1, PushedBranch, DescriptorPushed
<1>2. CASE w = "card"
  BY <1>2, PushedBranch, CardPushed
<1> QED BY <1>1, <1>2 DEF Workflows

\* The run that pushed ends well.
LEMMA PushingRun ==
  ASSUME NEW b \in Branches, NEW c \in Branches, NEW w \in Workflows, NEW p \in Runs,
         RunInv(b, w, p), p.pc = "push", ~ p.late,
         c = AfterPush(b, w, p)
  PROVE  RunInv(c, w, [p EXCEPT !.pc = "ok"])
<1> DEFINE s == [p EXCEPT !.pc = "ok"]
<1>1. s.pc = "ok" /\ s.tip = p.tip /\ s.tree = p.tree
  BY DEF Runs
<1>2. p.tree = b.tree /\ p.tip = b.tip /\ c.tip = b.tip
  BY DEF RunInv, AfterPush, Branches
<1>3. b.tree \in Trees /\ b.tip \in Tips
  BY DEF Branches
<1>4. s.tip <= c.tip
  BY <1>1, <1>2, <1>3, Bounds DEF Tips
<1>5. CASE w = "descriptor"
  <2>1. c.tree = [b.tree EXCEPT !.descriptor = Settled(b)]
    BY <1>5, PushedBranch
  <2>2. /\ c.tree.manifest = b.tree.manifest
        /\ c.tree.card = b.tree.card
        /\ c.tree.descriptor = Settled(b)
    BY <2>1, <1>3 DEF Trees
  <2>3. Settled(c) = Settled(b)
    BY <2>2 DEF Settled
  <2>4. Followed(c, s) /\ Synced(c, w, s)
    BY <1>1, <1>2, <1>5, <2>2, <2>3 DEF Followed, Synced
  <2> QED BY <1>1, <1>4, <2>4 DEF RunInv
<1>6. CASE w = "card"
  <2>1. c.tree = [b.tree EXCEPT !.card = Card(b.tree.manifest, b.tree.descriptor, Node)]
    BY <1>6, PushedBranch
  <2>2. /\ c.tree.manifest = b.tree.manifest
        /\ c.tree.card = Card(b.tree.manifest, b.tree.descriptor, Node)
        /\ c.tree.descriptor = b.tree.descriptor
    BY <2>1, <1>3 DEF Trees
  <2>3. CardFits(c, b.tree.descriptor)
    BY <2>2 DEF CardFits, Card
  <2>4. Followed(c, s) /\ Synced(c, w, s)
    BY <1>1, <1>2, <1>6, <2>2, <2>3 DEF Followed, Synced
  <2> QED BY <1>1, <1>4, <2>4 DEF RunInv
<1> QED BY <1>5, <1>6 DEF Workflows

-----------------------------------------------------------------------------
(* The steps.                                                              *)

\* The branch and its runs, as the lemmas above take them.
LEMMA SyncTyping ==
  ASSUME SyncInv
  PROVE  /\ main \in Branches
         /\ \A w \in Workflows, k \in Places :
              runs[w][k] \in Runs /\ RunInv(main, w, runs[w][k])
BY DEF SyncInv, TypeOK, Branches

\* Operators push, or a workflow is dispatched.
LEMMA BranchMovesKeepsInv ==
  ASSUME SyncInv, NEW b \in Branches, NEW ws \in SUBSET Workflows, BranchMoves(b, ws),
         b = main \/ b.tip = main.tip + 1
  PROVE  SyncInv'
<1>1. main' = b
  BY DEF BranchMoves
<1>2. PICK q \in [ws -> Places] :
        runs' = [w \in Workflows |-> [j \in Places |->
          IF w \in ws /\ j = q[w]
            THEN [pc |-> "queued", tree |-> b.tree, tip |-> b.tip, late |-> FALSE]
            ELSE [runs[w][j] EXCEPT !.late = @ \/ b # main]]]
  BY DEF BranchMoves
<1>3. ASSUME NEW w \in Workflows, NEW k \in Places
      PROVE  runs'[w][k] \in Runs /\ RunInv(b, w, runs'[w][k])
  <2>1. main \in Branches /\ runs[w][k] \in Runs /\ RunInv(main, w, runs[w][k])
    BY SyncTyping
  <2>2. CASE w \in ws /\ k = q[w]
    <3>1. runs'[w][k] = [pc |-> "queued", tree |-> b.tree, tip |-> b.tip, late |-> FALSE]
      BY <1>2, <2>2
    <3>2. runs'[w][k] \in Runs
      BY <3>1 DEF Runs, Branches
    <3> QED BY <3>1, <3>2, FreshRun
  <2>3. CASE ~ (w \in ws /\ k = q[w])
    <3>1. runs'[w][k] = [runs[w][k] EXCEPT !.late = @ \/ b # main]
      BY <1>2, <2>3
    <3>2. runs'[w][k] \in Runs
      BY <3>1, <2>1 DEF Runs
    <3>3. CASE b = main
      <4>1. [runs[w][k] EXCEPT !.late = @ \/ b # main] = runs[w][k]
        BY <2>1, <3>3 DEF Runs
      <4> QED BY <4>1, <3>1, <3>2, <3>3, <2>1
    <3>4. CASE b # main
      <4>1. [runs[w][k] EXCEPT !.late = @ \/ b # main] = [runs[w][k] EXCEPT !.late = TRUE]
        BY <3>4
      <4>2. RunInv(b, w, [runs[w][k] EXCEPT !.late = TRUE])
        BY <2>1, <3>4, RunLeftBehind
      <4> QED BY <4>1, <4>2, <3>1, <3>2
    <3> QED BY <3>3, <3>4
  <2> QED BY <2>2, <2>3
<1>4. runs' \in [Workflows -> [Places -> Runs]]
  <2>1. \A w \in Workflows : runs'[w] \in [Places -> Runs]
    BY <1>2, <1>3
  <2> QED BY <1>2, <2>1
<1> QED BY <1>1, <1>3, <1>4 DEF SyncInv, TypeOK, Branches

\* A step that changes one run and leaves the branch.
LEMMA OneRunKeepsInv ==
  ASSUME SyncInv, NEW w \in Workflows, NEW k \in Places,
         NEW pc \in {"push", "ok", "failed", "rejected"}, To(w, k, pc),
         RunInv(main, w, [runs[w][k] EXCEPT !.pc = pc])
  PROVE  SyncInv'
<1>1. main' = main /\ runs' = [runs EXCEPT ![w][k].pc = pc]
  BY DEF To
<1>2. runs \in [Workflows -> [Places -> Runs]]
  BY DEF SyncInv, TypeOK
<1>3. [runs[w][k] EXCEPT !.pc = pc] \in Runs
  BY <1>2 DEF Runs
<1>4. runs' \in [Workflows -> [Places -> Runs]]
  BY <1>1, <1>2, <1>3
<1>5. ASSUME NEW v \in Workflows, NEW j \in Places
      PROVE  RunInv(main, v, runs'[v][j])
  <2>1. CASE v = w /\ j = k
    <3>1. runs'[v][j] = [runs[w][k] EXCEPT !.pc = pc]
      BY <1>1, <1>2, <2>1
    <3> QED BY <2>1, <3>1
  <2>2. CASE ~ (v = w /\ j = k)
    <3>1. runs'[v][j] = runs[v][j]
      BY <1>1, <1>2, <2>2
    <3> QED BY <3>1, SyncTyping
  <2> QED BY <2>1, <2>2
<1> QED BY <1>1, <1>4, <1>5 DEF SyncInv, TypeOK

\* A run renders its file.
LEMMA RenderKeepsInv ==
  ASSUME SyncInv, NEW w \in Workflows, NEW k \in Places, Render(w, k)
  PROVE  SyncInv'
<1> DEFINE r == runs[w][k]
<1>1. main \in Branches /\ r \in Runs /\ RunInv(main, w, r)
  BY SyncTyping
<1>2. r.pc = "queued"
  BY DEF Render
<1>3. CASE Output(w, r.tree) = r.tree[w]
  <2>1. To(w, k, "ok")
    BY <1>3 DEF Render
  <2>2. RunInv(main, w, [r EXCEPT !.pc = "ok"])
    BY <1>1, <1>2, <1>3, RunFindsNothing
  <2> QED BY <2>1, <2>2, OneRunKeepsInv
<1>4. CASE Output(w, r.tree) # r.tree[w]
  <2>1. To(w, k, "push")
    BY <1>4 DEF Render
  <2>2. RunInv(main, w, [r EXCEPT !.pc = "push"])
    BY <1>1, <1>2, RunGoesOn
  <2> QED BY <2>1, <2>2, OneRunKeepsInv
<1> QED BY <1>3, <1>4

\* A run fails or is rejected.
LEMMA EndKeepsInv ==
  ASSUME SyncInv, NEW w \in Workflows, NEW k \in Places, RunFails(w, k) \/ Rejected(w, k)
  PROVE  SyncInv'
<1>1. main \in Branches /\ runs[w][k] \in Runs /\ RunInv(main, w, runs[w][k])
  BY SyncTyping
<1>2. runs[w][k].pc \in {"queued", "push"}
  BY DEF RunFails, Rejected
<1>3. PICK pc \in {"failed", "rejected"} : To(w, k, pc)
  BY DEF RunFails, Rejected
<1>4. RunInv(main, w, [runs[w][k] EXCEPT !.pc = pc])
  BY <1>1, <1>2, RunGoesOn
<1> QED BY <1>3, <1>4, OneRunKeepsInv

\* A run pushes its file.
LEMMA PushKeepsInv ==
  ASSUME SyncInv, NEW w \in Workflows, NEW k \in Places, Push(w, k)
  PROVE  SyncInv'
<1> DEFINE p == runs[w][k]
<1>1. main \in Branches /\ p \in Runs /\ RunInv(main, w, p)
  BY SyncTyping
<1>2. p.pc = "push" /\ ~ p.late
  BY DEF Push
<1>3. main' = AfterPush(main, w, p)
  BY DEF Push, Pushes, AfterPush
<1>4. runs' = [v \in Workflows |-> [j \in Places |->
                 IF v = w /\ j = k THEN [p EXCEPT !.pc = "ok"]
                                   ELSE [runs[v][j] EXCEPT !.late = TRUE]]]
  BY DEF Push, Pushes
<1>5. main' \in Branches
  <2>1. p.tree \in Trees
    BY <1>1 DEF Runs
  <2>2. [p.tree EXCEPT ![w] = Output(w, p.tree)] \in Trees
    BY <2>1, OutputTyping
  <2> QED BY <1>1, <1>3, <2>2 DEF Branches, AfterPush
<1>6. ASSUME NEW v \in Workflows, NEW j \in Places
      PROVE  runs'[v][j] \in Runs /\ RunInv(main', v, runs'[v][j])
  <2>1. CASE v = w /\ j = k
    <3>1. runs'[v][j] = [p EXCEPT !.pc = "ok"]
      BY <1>4, <2>1
    <3>2. runs'[v][j] \in Runs
      BY <3>1, <1>1 DEF Runs
    <3>3. RunInv(main', w, [p EXCEPT !.pc = "ok"])
      BY <1>1, <1>2, <1>3, <1>5, PushingRun
    <3> QED BY <2>1, <3>1, <3>2, <3>3
  <2>2. CASE ~ (v = w /\ j = k)
    <3>1. runs'[v][j] = [runs[v][j] EXCEPT !.late = TRUE]
      BY <1>4, <2>2
    <3>2. runs[v][j] \in Runs /\ RunInv(main, v, runs[v][j])
      BY SyncTyping
    <3>3. runs'[v][j] \in Runs
      BY <3>1, <3>2 DEF Runs
    <3>4. RunInv(main', v, [runs[v][j] EXCEPT !.late = TRUE])
      BY <1>1, <1>2, <1>3, <1>5, <3>2, RunsOverPush
    <3> QED BY <3>1, <3>3, <3>4
  <2> QED BY <2>1, <2>2
<1>7. runs' \in [Workflows -> [Places -> Runs]]
  <2>1. \A v \in Workflows : runs'[v] \in [Places -> Runs]
    BY <1>4, <1>6
  <2> QED BY <1>4, <2>1
<1> QED BY <1>5, <1>6, <1>7 DEF SyncInv, TypeOK, Branches

\* The invariant holds at the start.
LEMMA InitInv ==
  ASSUME Init
  PROVE  SyncInv
<1>1. PICK m \in Manifests \ {Broken} :
        LET d == Descriptor(m, Node, NodeLayer)
            t == [manifest |-> m, descriptor |-> d, card |-> Card(m, d, Node)]
        IN /\ main = [tree |-> t, tip |-> 0]
           /\ runs = [w \in Workflows |-> [k \in Places |-> NoRun(t)]]
  BY DEF Init, Places
<1> DEFINE d == Descriptor(m, Node, NodeLayer)
           t == [manifest |-> m, descriptor |-> d, card |-> Card(m, d, Node)]
<1>2. d \in Descriptors /\ Card(m, d, Node) \in Cards
  BY NamesTyping, DescriptorTyping, CardTyping
<1>3. t \in Trees
  BY <1>2 DEF Trees
<1>4. 0 \in Tips
  BY Bounds DEF Tips
<1>5. NoRun(t) \in Runs /\ NoRun(t).pc = "none"
  BY <1>3, <1>4 DEF NoRun, Runs
<1>6. main = [tree |-> t, tip |-> 0] /\ runs = [w \in Workflows |-> [k \in Places |-> NoRun(t)]]
  BY <1>1
<1> HIDE DEF t
<1>7. TypeOK
  BY <1>3, <1>4, <1>5, <1>6 DEF TypeOK
<1>8. \A w \in Workflows, k \in Places : RunInv(main, w, runs[w][k])
  BY <1>5, <1>6 DEF RunInv
<1> QED BY <1>7, <1>8 DEF SyncInv

\* Every step keeps the invariant.
LEMMA StepKeepsInv ==
  ASSUME SyncInv, [Next]_vars
  PROVE  SyncInv'
<1>1. main.tree \in Trees /\ main.tip \in Tips /\ main \in Branches
  BY DEF SyncInv, TypeOK, Branches
<1>2. ASSUME NEW tree \in Trees, main.tip < MaxPushes
      PROVE  [tree |-> tree, tip |-> main.tip + 1] \in Branches
  <2>1. main.tip + 1 \in Tips
    BY <1>1, <1>2, Bounds DEF Tips
  <2> QED BY <2>1 DEF Branches
<1>3. ASSUME NEW c \in Configs, NEW m \in Manifests, NEW n \in Manifests, Merge(c, m, n)
      PROVE  SyncInv'
  <2>1. PICK tree \in Pushable(c, m, n) :
          BranchMoves([tree |-> tree, tip |-> main.tip + 1], Workflows)
    BY <1>3 DEF Merge
  <2>2. main.tip < MaxPushes
    BY <1>3 DEF Merge
  <2>3. tree \in Trees
    BY <1>1, PushableTyping
  <2>4. [tree |-> tree, tip |-> main.tip + 1] \in Branches
    BY <1>2, <2>2, <2>3
  <2> QED BY <2>1, <2>4, BranchMovesKeepsInv
<1>4. ASSUME NEW c \in Configs, NEW m \in Manifests, PushIgnored(c, m)
      PROVE  SyncInv'
  <2>1. PICK tree \in Pushable(c, m, main.tree.manifest) :
          BranchMoves([tree |-> tree, tip |-> main.tip + 1], {})
    BY <1>4 DEF PushIgnored
  <2>2. main.tip < MaxPushes
    BY <1>4 DEF PushIgnored
  <2>3. main.tree.manifest \in Manifests
    BY <1>1 DEF Trees
  <2>4. tree \in Trees
    BY <1>1, <2>3, PushableTyping
  <2>5. [tree |-> tree, tip |-> main.tip + 1] \in Branches
    BY <1>2, <2>2, <2>4
  <2> QED BY <2>1, <2>5, BranchMovesKeepsInv
<1>5. ASSUME NEW w \in Workflows, Dispatch(w)
      PROVE  SyncInv'
  <2>1. BranchMoves(main, {w}) /\ {w} \in SUBSET Workflows
    BY <1>5 DEF Dispatch
  <2> QED BY <1>1, <2>1, BranchMovesKeepsInv
<1>6. CASE UNCHANGED vars
  BY <1>6 DEF vars, SyncInv, TypeOK, RunInv, Followed, Synced, CardFits, Settled
<1> QED BY <1>3, <1>4, <1>5, <1>6, RenderKeepsInv, EndKeepsInv, PushKeepsInv DEF Next

-----------------------------------------------------------------------------
(* The theorems.                                                           *)

\* The invariant of the runs and the branch holds in every behaviour.
THEOREM SyncInvariant == Spec => []SyncInv
<1> QED BY InitInv, StepKeepsInv, PTL DEF Spec

\* The branch and the runs keep their types.
THEOREM SyncTypes == Spec => []TypeOK
<1>1. SyncInv => TypeOK
  BY DEF SyncInv
<1> QED BY <1>1, SyncInvariant, PTL

\* A run that ended well and has seen the operators' last push has left its
\* file as the manifest says.
THEOREM Current == Spec => []SyncedIsCurrent
<1>1. SyncInv => SyncedIsCurrent
  <2> SUFFICES ASSUME SyncInv, NEW w \in Workflows, NEW k \in Places,
                      runs[w][k].pc = "ok", runs[w][k].tip = main.tip
               PROVE  LET r == runs[w][k] IN
                        /\ main.tree[w].skills = main.tree.manifest
                        /\ w = "descriptor" \/ r.tree.descriptor = main.tree.descriptor =>
                             main.tree[w] = Output(w, r.tree)
    BY DEF SyncedIsCurrent
  <2>1. Followed(main, runs[w][k]) /\ Synced(main, w, runs[w][k])
    BY DEF SyncInv, RunInv
  <2>2. CASE w = "descriptor"
    BY <2>1, <2>2 DEF Followed, Synced, Settled, Output, Descriptor
  <2>3. CASE w = "card"
    BY <2>1, <2>3 DEF Followed, Synced, CardFits, Output
  <2> QED BY <2>2, <2>3 DEF Workflows
<1> QED BY <1>1, SyncInvariant, PTL

LEMMA PushIsAtomic ==
  ASSUME SyncInv, NEW w \in Workflows, NEW k \in Places, Push(w, k)
  PROVE  main' = [main EXCEPT !.tree[w] = Output(w, main.tree)]
<1> DEFINE p == runs[w][k]
<1>1. main \in Branches /\ p \in Runs /\ RunInv(main, w, p)
  BY SyncTyping
<1>2. p.pc = "push" /\ ~ p.late /\ main' = AfterPush(main, w, p)
  BY DEF Push, Pushes, AfterPush
<1>3. p.tree = main.tree
  BY <1>1, <1>2 DEF RunInv
<1> QED BY <1>1, <1>2, <1>3 DEF Branches, AfterPush

\* The checkout, the rendering and the push of a run, with all that happens
\* between them, come to one step on the branch.
THEOREM Atomic == Spec => SyncIsAtomic
<1> DEFINE Allowed == \/ main'.tip = main.tip + 1
                      \/ \E w \in Workflows :
                           main' = [main EXCEPT !.tree[w] = Output(w, main.tree)]
<1>1. ASSUME SyncInv, [Next]_vars
      PROVE  [Allowed]_main
  <2>1. ASSUME NEW c \in Configs, NEW m \in Manifests, NEW n \in Manifests, Merge(c, m, n)
        PROVE  Allowed
    BY <2>1 DEF Merge, BranchMoves
  <2>2. ASSUME NEW c \in Configs, NEW m \in Manifests, PushIgnored(c, m)
        PROVE  Allowed
    BY <2>2 DEF PushIgnored, BranchMoves
  <2>3. ASSUME NEW w \in Workflows, Dispatch(w)
        PROVE  main' = main
    BY <2>3 DEF Dispatch, BranchMoves
  <2>4. ASSUME NEW w \in Workflows, NEW k \in Places, Render(w, k) \/ RunFails(w, k) \/ Rejected(w, k)
        PROVE  main' = main
    BY <2>4 DEF Render, RunFails, Rejected, To
  <2>5. ASSUME NEW w \in Workflows, NEW k \in Places, Push(w, k)
        PROVE  Allowed
    BY <1>1, <2>5, PushIsAtomic
  <2>6. CASE UNCHANGED vars
    BY <2>6 DEF vars
  <2> HIDE DEF Allowed
  <2> QED BY <1>1, <2>1, <2>2, <2>3, <2>4, <2>5, <2>6 DEF Next
<1> QED BY <1>1, SyncInvariant, PTL DEF Spec, SyncIsAtomic
=============================================================================
