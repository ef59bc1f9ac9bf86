-------------------------- MODULE NadiOutboxProofs --------------------------
(***************************************************************************)
(* The theorems about nadi_send.py, for any number of processes, commands  *)
(* and envelopes.                                                          *)
(*                                                                         *)
(* Kept rests on one fact: when two writing commands overlap, everything   *)
(* used so far is excused, and stays so until one of them is alone again.  *)
(* A command that is alone holds all that counts in its own list.          *)
(* InOrder rests on another: an envelope is in no list before its own      *)
(* command has read the file, and the command that holds it has not ended. *)
(***************************************************************************)
EXTENDS NadiOutbox, TLAPS

\* Commands and places that go together.
PlaceFits(f) ==
  /\ f.pc \in {"open", "fill"} => f.op \in {"send", "clear"}
  /\ f.pc \in {"look", "make", "made"} => f.op \in {"send", "list"}
  /\ f.op = "send" => f.env \in Envelopes

\* Only an array has envelopes.
FileFits == file.form # "array" => file.list = <<>>

\* f is a command that will write, as Writing says of a process.
Writes(f) == f.pc # "idle" /\ (f.op = "list" => f.pc \in {"make", "made"})

\* Two writers: all is excused.
Overlapped == \A p, q \in Procs : p # q /\ Writing(p) /\ Writing(q) => used \subseteq excused

\* What command f has in its hands, for file fl and histories us, st and ex.
HoldsIn(f, fl, us, st, ex) ==
  /\ f.pc \in {"make", "made"} => st \subseteq ex
  /\ f.pc \in {"open", "fill"} /\ f.op = "send" =>
       (st \cup {f.env}) \ ex \subseteq Elements(f.outbox)
  /\ f.pc = "fill" /\ f.op = "clear" => st \subseteq ex
  /\ f.pc = "fill" => fl = Blank("empty") \/ us \subseteq ex

Holding == \A p \in Procs : HoldsIn(frame[p], file, used, stored, excused)

\* The histories.
Histories ==
  /\ stored \subseteq used
  /\ \A e \in Envelopes : earlier[e] \subseteq stored
  /\ Elements(file.list) \subseteq used
  /\ \A p \in Procs : /\ Elements(frame[p].outbox) \subseteq used
                      /\ frame[p].op = "send" => frame[p].env \in used \ stored

\* The command f will put its envelope into a list yet to be read.
Comes(f) == f.op = "send" /\ f.pc \in {"look", "make", "made"}

\* Such an envelope is in no list, and no two commands have the same.
Fresh ==
  /\ \A p \in Procs :
       Comes(frame[p]) => /\ frame[p].env \notin Elements(file.list)
                          /\ \A q \in Procs : frame[p].env \notin Elements(frame[q].outbox)
  /\ \A p, q \in Procs :
       p # q /\ frame[p].op = "send" /\ frame[q].op = "send" => frame[p].env # frame[q].env

\* The parts Kept rests on, and those InOrder rests on.
CountInv == (\A p \in Procs : PlaceFits(frame[p])) /\ Overlapped /\ Holding
OrderInv == Histories /\ Fresh /\ InOrder

OutboxInv == TypeOK /\ FileFits /\ CountInv /\ Kept /\ OrderInv

-----------------------------------------------------------------------------
(* Lists.                                                                  *)

\* An empty list has no elements.
LEMMA ElementsEmpty == Elements(<<>>) = {}
BY DEF Elements

\* Appending adds one element.
LEMMA ElementsAppend ==
  ASSUME NEW q \in Seq(Envelopes), NEW e \in Envelopes
  PROVE  Elements(Append(q, e)) = Elements(q) \cup {e}
<1>1. Len(Append(q, e)) = Len(q) + 1 /\ Len(q) \in Nat
  OBVIOUS
<1>2. \A i \in 1..Len(q) : Append(q, e)[i] = q[i]
  OBVIOUS
<1>3. Append(q, e)[Len(q) + 1] = e
  OBVIOUS
<1>4. Elements(Append(q, e)) \subseteq Elements(q) \cup {e}
  BY <1>1, <1>2, <1>3 DEF Elements
<1>5. Elements(q) \subseteq Elements(Append(q, e))
  BY <1>1, <1>2 DEF Elements
<1>6. Len(q) + 1 \in 1..Len(Append(q, e))
  BY <1>1
<1>7. e \in Elements(Append(q, e))
  BY <1>3, <1>6 DEF Elements
<1> QED BY <1>4, <1>5, <1>7

\* Ordered, for history h instead of earlier.
OrderedBy(q, h) == \A i, j \in 1..Len(q) : i < j => q[i] # q[j] /\ q[j] \notin h[q[i]]

\* The empty list is ordered.
LEMMA OrderedEmpty == ASSUME NEW h PROVE OrderedBy(<<>>, h)
BY DEF OrderedBy

\* A new envelope that was in the file before no other of the list may follow.
LEMMA OrderedAppend ==
  ASSUME NEW q \in Seq(Envelopes), NEW e \in Envelopes, NEW h, OrderedBy(q, h),
         e \notin Elements(q), \A x \in Envelopes : e \notin h[x]
  PROVE  OrderedBy(Append(q, e), h)
<1> DEFINE a == Append(q, e)
<1>1. Len(a) = Len(q) + 1 /\ Len(q) \in Nat
  OBVIOUS
<1>2. \A i \in 1..Len(q) : a[i] = q[i] /\ q[i] \in Envelopes
  OBVIOUS
<1>3. a[Len(q) + 1] = e
  OBVIOUS
<1> HIDE DEF a
<1>4. SUFFICES ASSUME NEW i \in 1..Len(a), NEW j \in 1..Len(a), i < j
               PROVE  a[i] # a[j] /\ a[j] \notin h[a[i]]
  BY DEF OrderedBy, a
<1>5. i \in 1..Len(q)
  BY <1>1, <1>4
<1>6. CASE j \in 1..Len(q)
  BY <1>2, <1>4, <1>5, <1>6 DEF OrderedBy
<1>7. CASE j = Len(q) + 1
  BY <1>2, <1>3, <1>5, <1>7 DEF Elements
<1> QED BY <1>1, <1>6, <1>7

\* A list without e is ordered whatever came earlier than e.
LEMMA OrderedSend ==
  ASSUME NEW q \in Seq(Envelopes), NEW e \in Envelopes,
         NEW h \in [Envelopes -> SUBSET Envelopes], NEW S,
         OrderedBy(q, h), e \notin Elements(q)
  PROVE  OrderedBy(q, [h EXCEPT ![e] = S])
<1>1. \A i \in 1..Len(q) : q[i] \in Envelopes /\ q[i] # e
  BY DEF Elements
<1> QED BY <1>1 DEF OrderedBy

\* InOrder, in terms of OrderedBy.
LEMMA InOrderBy ==
  InOrder <=> OrderedBy(file.list, earlier) /\ \A p \in Procs : OrderedBy(frame[p].outbox, earlier)
BY DEF InOrder, Ordered, OrderedBy

-----------------------------------------------------------------------------
(* One command moves.                                                      *)

\* Only the frame of the process that moves changes.
LEMMA MoveFrames ==
  ASSUME TypeOK, NEW p \in Procs, NEW f \in Frames, Move(p, f)
  PROVE  /\ frame' \in [Procs -> Frames]
         /\ frame'[p] = f
         /\ \A q \in Procs \ {p} : frame'[q] = frame[q]
BY DEF TypeOK, Move

\* The fields of a command.
LEMMA FrameFields ==
  ASSUME TypeOK, NEW p \in Procs
  PROVE  /\ frame[p] \in Frames
         /\ frame[p].pc \in Places /\ frame[p].op \in Commands
         /\ frame[p].env \in Envelopes \cup {Null}
         /\ frame[p].outbox \in Seq(Envelopes)
BY DEF TypeOK, Frames

\* Between commands a process has nothing in its hands.
LEMMA IdleFacts ==
  /\ IdleFrame \in Frames
  /\ IdleFrame.pc = "idle" /\ IdleFrame.op = "none" /\ IdleFrame.outbox = <<>>
  /\ PlaceFits(IdleFrame) /\ ~ Writes(IdleFrame) /\ ~ Comes(IdleFrame)
  /\ \A fl, us, st, ex : HoldsIn(IdleFrame, fl, us, st, ex)
BY DEF IdleFrame, Frames, Places, Commands, PlaceFits, Writes, Comes, HoldsIn

\* A command that begins to write finds itself alone, or excuses everything.
Alone(p, f) ==
  \/ used' = used /\ (Writes(f) => Writing(p))
  \/ \A q \in Procs \ {p} : Writing(q) => used' \subseteq excused'

\* One that does not write leaves the file alone.
Quiet(p) ==
  \/ Writing(p) /\ used' = used
  \/ UNCHANGED <<file, stored>>

\* CountInv is kept by a step of p that keeps it for p.
LEMMA CountStep ==
  ASSUME OutboxInv, NEW p \in Procs, NEW f \in Frames, Move(p, f), PlaceFits(f),
         excused \subseteq excused', stored' \subseteq used', Alone(p, f), Quiet(p),
         HoldsIn(f, file', used', stored', excused')
  PROVE  CountInv'
<1>1. frame'[p] = f /\ \A q \in Procs \ {p} : frame'[q] = frame[q]
  BY MoveFrames DEF OutboxInv
<1>2. (\A q \in Procs : PlaceFits(frame[q]))'
  BY <1>1 DEF OutboxInv, CountInv
<1>3. \A q \in Procs : Writing(q)' <=> Writes(frame'[q])
  BY DEF Writing, Writes
<1>4. \A q \in Procs : Writing(q) <=> Writes(frame[q])
  BY DEF Writing, Writes
<1>5. Overlapped'
  <2> SUFFICES ASSUME NEW q \in Procs, NEW r \in Procs, q # r,
                      Writes(frame'[q]), Writes(frame'[r])
               PROVE  used' \subseteq excused'
    BY <1>3 DEF Overlapped
  <2>1. CASE used' = used /\ (Writes(f) => Writing(p))
    <3>1. Writing(q) /\ Writing(r)
      BY <1>1, <1>4, <2>1
    <3> QED BY <2>1, <3>1 DEF OutboxInv, CountInv, Overlapped
  <2>2. CASE \A x \in Procs \ {p} : Writing(x) => used' \subseteq excused'
    BY <1>1, <1>4, <2>2
  <2> QED BY <2>1, <2>2 DEF Alone
<1>6. ASSUME NEW q \in Procs \ {p}
      PROVE  HoldsIn(frame[q], file', used', stored', excused')
  <2> DEFINE g == frame[q]
  <2>1. /\ HoldsIn(g, file, used, stored, excused) /\ PlaceFits(g)
        /\ g.op = "send" => g.env \in used
    BY DEF OutboxInv, CountInv, Holding, OrderInv, Histories
  <2>2. g.pc \in {"make", "made", "open", "fill"} => Writing(q)
    BY <2>1 DEF Writing, PlaceFits
  <2>3. CASE Writing(p) /\ used' = used
    <3>1. Writing(q) => used' \subseteq excused'
      BY <2>3 DEF OutboxInv, CountInv, Overlapped
    <3> QED BY <2>1, <2>2, <2>3, <3>1 DEF HoldsIn
  <2>4. CASE UNCHANGED <<file, stored>>
    <3>1. used' = used \/ (Writing(q) => used' \subseteq excused')
      BY DEF Alone
    <3> QED BY <2>1, <2>2, <2>4, <3>1 DEF HoldsIn
  <2> QED BY <2>3, <2>4 DEF Quiet
<1>7. Holding'
  BY <1>1, <1>6 DEF Holding
<1> QED BY <1>2, <1>5, <1>7 DEF CountInv

\* A step that leaves the file alone, by a command that holds no queue, keeps
\* what is kept.
LEMMA KeptQuiet ==
  ASSUME OutboxInv, NEW p \in Procs, NEW f \in Frames, Move(p, f), frame[p].pc # "fill",
         UNCHANGED <<file, stored>>, excused \subseteq excused'
  PROVE  Kept'
<1>1. \A q \in Procs \ {p} : frame'[q] = frame[q]
  BY MoveFrames DEF OutboxInv
<1> QED BY <1>1 DEF OutboxInv, Kept

-----------------------------------------------------------------------------
(* Lists and histories.                                                    *)

\* What a command holds after a step: nothing, what it held, or, when it has
\* just read, the list it read and its envelope.
Passes(p, f) ==
  \/ /\ f.outbox \in {<<>>, frame[p].outbox}
     /\ f.op = "send" => frame[p].op = "send" /\ f.env = frame[p].env
     /\ Comes(f) => Comes(frame[p])
  \/ /\ Comes(frame[p]) /\ f.op = "send" /\ f.env = frame[p].env /\ ~ Comes(f)
     /\ \E q \in {<<>>, file.list} : f.outbox = Append(q, f.env)

\* A command that stores its envelope ends.
Stores(p, f) ==
  \/ stored' = stored
  \/ frame[p].op = "send" /\ f.op # "send" /\ stored' = stored \cup {frame[p].env}

\* OrderInv is kept by such a step, unless it builds an envelope.
LEMMA OrderStep ==
  ASSUME OutboxInv, NEW p \in Procs, NEW f \in Frames, Move(p, f), UNCHANGED <<used, earlier>>,
         file'.list \in {<<>>, file.list, frame[p].outbox}, Passes(p, f), Stores(p, f)
  PROVE  OrderInv'
<1>1. frame'[p] = f /\ \A q \in Procs \ {p} : frame'[q] = frame[q]
  BY MoveFrames DEF OutboxInv
<1>2. /\ Histories /\ Fresh /\ InOrder /\ file.list \in Seq(Envelopes)
      /\ \A q \in Procs : PlaceFits(frame[q])
  BY DEF OutboxInv, OrderInv, CountInv, TypeOK, Files
<1> <<>> \in Seq(Envelopes)
  OBVIOUS
<1>3. Comes(frame[p]) => frame[p].env \in Envelopes
  BY <1>2 DEF Comes, PlaceFits
<1>4. \A q \in {<<>>, file.list} : Comes(frame[p]) =>
        Elements(Append(q, frame[p].env)) = Elements(q) \cup {frame[p].env}
  <2> SUFFICES ASSUME NEW q \in {<<>>, file.list}, Comes(frame[p])
               PROVE  Elements(Append(q, frame[p].env)) = Elements(q) \cup {frame[p].env}
    OBVIOUS
  <2>1. q \in Seq(Envelopes) /\ frame[p].env \in Envelopes
    BY <1>2, <1>3
  <2> QED BY <2>1, ElementsAppend
<1>5. Elements(file'.list) \subseteq Elements(file.list) \cup Elements(frame[p].outbox)
  BY ElementsEmpty
<1>6. \/ /\ Elements(f.outbox) \subseteq Elements(frame[p].outbox)
         /\ f.op = "send" => frame[p].op = "send" /\ f.env = frame[p].env
         /\ Comes(f) => Comes(frame[p])
      \/ /\ Elements(f.outbox) \subseteq Elements(file.list) \cup {frame[p].env}
         /\ Comes(frame[p]) /\ f.op = "send" /\ f.env = frame[p].env /\ ~ Comes(f)
  <2>1. CASE f.outbox \in {<<>>, frame[p].outbox}
    BY <2>1, <1>4, ElementsEmpty DEF Passes
  <2>2. ASSUME NEW q \in {<<>>, file.list}, Comes(frame[p]), f.env = frame[p].env,
               f.outbox = Append(q, f.env)
        PROVE  Elements(f.outbox) \subseteq Elements(file.list) \cup {frame[p].env}
    BY <2>2, <1>4, ElementsEmpty
  <2> QED BY <2>2, ElementsEmpty DEF Passes
<1>7. \A q \in Procs : frame[q].op = "send" => frame[q].env \in used \ stored
  BY <1>2 DEF Histories
<1>8. Histories'
  <2>1. stored' \subseteq used' /\ \A e \in Envelopes : earlier'[e] \subseteq stored'
    BY <1>2, <1>7 DEF Histories, Stores
  <2>2. Elements(file'.list) \subseteq used'
    BY <1>2, <1>5 DEF Histories
  <2>3. Elements(f.outbox) \subseteq used'
    BY <1>2, <1>6, <1>7 DEF Histories, Comes
  <2>4. f.op = "send" => f.env \in used' \ stored'
    BY <1>6, <1>7 DEF Stores, Comes
  <2>5. ASSUME NEW q \in Procs \ {p}
        PROVE  /\ Elements(frame[q].outbox) \subseteq used'
               /\ frame[q].op = "send" => frame[q].env \in used' \ stored'
    BY <1>2, <1>7 DEF Histories, Fresh, Stores
  <2> QED BY <1>1, <2>1, <2>2, <2>3, <2>4, <2>5 DEF Histories
<1>9. Fresh'
  <2>1. ASSUME NEW q \in Procs, NEW r \in Procs, q # r, frame'[q].op = "send", frame'[r].op = "send"
        PROVE  frame'[q].env # frame'[r].env
    BY <1>1, <1>2, <1>6, <2>1 DEF Fresh, Comes
  <2>2. ASSUME NEW q \in Procs, Comes(frame'[q])
        PROVE  Comes(frame[q]) /\ frame'[q].env = frame[q].env /\ (q = p => Comes(f))
    BY <1>1, <1>6, <2>2 DEF Comes
  <2>3. ASSUME NEW q \in Procs, Comes(frame'[q])
        PROVE  /\ frame'[q].env \notin Elements(file'.list)
               /\ \A r \in Procs : frame'[q].env \notin Elements(frame'[r].outbox)
    <3>1. /\ frame[q].env \notin Elements(file.list)
          /\ \A r \in Procs : frame[q].env \notin Elements(frame[r].outbox)
      BY <1>2, <2>2, <2>3 DEF Fresh
    <3>2. frame[q].env \notin Elements(f.outbox)
      <4>1. q # p /\ Comes(frame[p]) => frame[q].env # frame[p].env
        BY <1>2, <2>2, <2>3 DEF Fresh, Comes
      <4> QED BY <1>6, <2>2, <2>3, <3>1, <4>1
    <3> QED BY <1>1, <1>5, <2>2, <2>3, <3>1, <3>2
  <2> QED BY <2>1, <2>3 DEF Fresh
<1>10. InOrder'
  <2>1. OrderedBy(file.list, earlier) /\ \A q \in Procs : OrderedBy(frame[q].outbox, earlier)
    BY <1>2, InOrderBy
  <2>2. OrderedBy(<<>>, earlier)
    BY OrderedEmpty
  <2>3. ASSUME NEW q \in {<<>>, file.list}, Comes(frame[p])
        PROVE  OrderedBy(Append(q, frame[p].env), earlier)
    <3>1. frame[p].env \notin Elements(q)
      BY <1>2, <2>3, ElementsEmpty DEF Fresh
    <3>2. \A x \in Envelopes : frame[p].env \notin earlier[x]
      BY <1>2, <1>7, <2>3 DEF Histories, Comes
    <3>3. q \in Seq(Envelopes) /\ OrderedBy(q, earlier)
      BY <1>2, <2>1, <2>2
    <3>4. frame[p].env \in Envelopes
      BY <1>3, <2>3
    <3> QED BY <3>1, <3>2, <3>3, <3>4, OrderedAppend
  <2>4. OrderedBy(f.outbox, earlier)
    <3>1. CASE f.outbox \in {<<>>, frame[p].outbox}
      BY <2>1, <2>2, <3>1
    <3>2. ASSUME NEW q \in {<<>>, file.list}, Comes(frame[p]), f.env = frame[p].env,
                 f.outbox = Append(q, f.env)
          PROVE  OrderedBy(f.outbox, earlier)
      BY <2>3, <3>2
    <3> QED BY <3>1, <3>2 DEF Passes
  <2>5. OrderedBy(file'.list, earlier')
    BY <2>1, <2>2
  <2>6. \A q \in Procs : OrderedBy(frame'[q].outbox, earlier')
    BY <1>1, <2>1, <2>4
  <2> QED BY <2>5, <2>6 DEF InOrder, Ordered, OrderedBy
<1> QED BY <1>8, <1>9, <1>10 DEF OrderInv

-----------------------------------------------------------------------------
(* The file.                                                               *)

\* A file without an array holds no list.
LEMMA BlankTyping ==
  ASSUME NEW form \in Forms \ {"array"}
  PROVE  Blank(form) \in Files /\ Blank(form).list = <<>> /\ Blank(form).form = form
<1> <<>> \in Seq(Envelopes)
  OBVIOUS
<1> QED BY DEF Blank, Files

\* A file with an array holds that list.
LEMMA ArrayTyping ==
  ASSUME NEW q \in Seq(Envelopes)
  PROVE  Array(q) \in Files /\ Array(q).list = q /\ Array(q).form = "array"
BY DEF Array, Files, Forms

\* What lies in the file after a write over another's.
LEMMA OverlayTyping ==
  ASSUME NEW old \in Files, NEW q \in Seq(Envelopes), NEW new \in Overlay(old, q)
  PROVE  /\ new \in Files
         /\ new.form # "array" => new.list = <<>>
         /\ new.list \in {<<>>, q}
         /\ old = Blank("empty") => new = Array(q)
<1>1. new \in {Blank("torn"), Array(q)}
  BY DEF Overlay
<1>2. old = Blank("empty") => new = Array(q)
  BY BlankTyping DEF Overlay, Forms
<1> QED BY <1>1, <1>2, BlankTyping, ArrayTyping DEF Forms

-----------------------------------------------------------------------------
(* The actions.                                                            *)

\* Every initial state satisfies the invariant.
LEMMA InitInv == Init => OutboxInv
<1> SUFFICES ASSUME Init
             PROVE  OutboxInv
  OBVIOUS
<1> <<>> \in Seq(Envelopes)
  OBVIOUS
<1>1. file \in Files /\ file.list = <<>>
  <2>1. CASE file \in {Blank(form) : form \in Forms \ {"array"}}
    BY <2>1, BlankTyping
  <2>2. CASE file = Array(<<>>)
    BY <2>2, ArrayTyping
  <2> QED BY <2>1, <2>2 DEF Init
<1>2. \A p \in Procs : frame[p] = IdleFrame
  BY DEF Init
<1>3. TypeOK
  BY <1>1, IdleFacts DEF Init, TypeOK
<1>4. CountInv
  BY <1>2, IdleFacts DEF CountInv, Overlapped, Holding, Writing
<1>5. Kept
  BY DEF Init, Kept
<1>6. Histories /\ Fresh
  BY <1>1, <1>2, IdleFacts, ElementsEmpty DEF Init, Histories, Fresh
<1>7. InOrder
  BY <1>1, <1>2, IdleFacts, OrderedEmpty, InOrderBy
<1> QED BY <1>1, <1>3, <1>4, <1>5, <1>6, <1>7 DEF OutboxInv, FileFits, OrderInv

\* What Disturb does to the histories.
LEMMA DisturbFacts ==
  ASSUME TypeOK, NEW p \in Procs, NEW S \in SUBSET Envelopes, Disturb(p, S)
  PROVE  /\ excused \subseteq excused' /\ excused' \subseteq Envelopes
         /\ (\E q \in Procs \ {p} : Writing(q)) => S \subseteq excused'
BY DEF TypeOK, Disturb

\* A send takes a new envelope.
LEMMA SendKeepsInv ==
  ASSUME OutboxInv, NEW p \in Procs, NEW e \in Envelopes, Send(p, e)
  PROVE  OutboxInv'
<1> DEFINE f == [IdleFrame EXCEPT !.pc = "look", !.op = "send", !.env = e]
<1>1. /\ f \in Frames /\ PlaceFits(f) /\ f.pc = "look" /\ f.op = "send" /\ f.env = e
      /\ f.outbox = <<>>
      /\ \A fl, us, st, ex : HoldsIn(f, fl, us, st, ex)
  BY IdleFacts DEF IdleFrame, Frames, Places, Commands, PlaceFits, HoldsIn
<1>2. /\ frame[p].pc = "idle" /\ e \notin used /\ used' = used \cup {e}
      /\ earlier' = [earlier EXCEPT ![e] = stored] /\ Disturb(p, used \cup {e})
      /\ Move(p, f) /\ UNCHANGED <<file, stored>>
  BY DEF Send
<1> HIDE DEF f
<1>3. TypeOK /\ Histories /\ Fresh /\ InOrder
  BY DEF OutboxInv, OrderInv
<1>4. excused \subseteq excused' /\ excused' \subseteq Envelopes
      /\ \A q \in Procs \ {p} : Writing(q) => used' \subseteq excused'
  BY <1>2, <1>3, DisturbFacts DEF TypeOK
<1>5. frame' \in [Procs -> Frames] /\ frame'[p] = f
      /\ \A q \in Procs \ {p} : frame'[q] = frame[q]
  BY <1>1, <1>2, <1>3, MoveFrames
<1>6. TypeOK' /\ FileFits'
  BY <1>2, <1>3, <1>4, <1>5 DEF TypeOK, OutboxInv, FileFits
<1>7. CountInv'
  <2>1. stored' \subseteq used' /\ Alone(p, f) /\ Quiet(p)
    BY <1>2, <1>3, <1>4 DEF Histories, Alone, Quiet
  <2> QED BY <1>1, <1>2, <1>4, <2>1, CountStep
<1>8. Kept'
  BY <1>1, <1>2, <1>4, KeptQuiet
<1>9. Histories'
  BY <1>1, <1>2, <1>3, <1>5, ElementsEmpty DEF Histories, TypeOK
<1>10. Fresh'
  <2>1. \A q \in Procs : e \notin Elements(frame'[q].outbox)
    BY <1>1, <1>2, <1>3, <1>5, ElementsEmpty DEF Histories
  <2>2. e \notin Elements(file.list)
    BY <1>2, <1>3 DEF Histories
  <2>3. \A q \in Procs \ {p} : frame[q].op = "send" => frame[q].env # e
    BY <1>2, <1>3 DEF Histories
  <2>4. ASSUME NEW q \in Procs, Comes(frame'[q])
        PROVE  /\ frame'[q].env \notin Elements(file.list)
               /\ \A r \in Procs : frame'[q].env \notin Elements(frame'[r].outbox)
    <3>1. CASE q = p
      BY <1>1, <1>5, <2>1, <2>2, <3>1
    <3>2. CASE q # p
      BY <1>1, <1>3, <1>5, <2>4, <3>2, ElementsEmpty DEF Fresh
    <3> QED BY <3>1, <3>2
  <2>5. ASSUME NEW q \in Procs, NEW r \in Procs, q # r,
               frame'[q].op = "send", frame'[r].op = "send"
        PROVE  frame'[q].env # frame'[r].env
    BY <1>1, <1>3, <1>5, <2>3, <2>5 DEF Fresh
  <2> QED BY <1>2, <2>4, <2>5 DEF Fresh
<1>11. InOrder'
  <2>1. earlier \in [Envelopes -> SUBSET Envelopes] /\ file.list \in Seq(Envelopes)
    BY <1>3 DEF TypeOK, Files
  <2>2. OrderedBy(file.list, earlier')
    BY <1>2, <1>3, <2>1, InOrderBy, OrderedSend DEF Histories
  <2>3. ASSUME NEW q \in Procs
        PROVE  OrderedBy(frame'[q].outbox, earlier')
    <3>1. CASE q = p
      BY <1>1, <1>5, <3>1, OrderedEmpty
    <3>2. CASE q # p
      <4>1. /\ frame[q].outbox \in Seq(Envelopes)
            /\ OrderedBy(frame[q].outbox, earlier) /\ e \notin Elements(frame[q].outbox)
        BY <1>2, <1>3, FrameFields, InOrderBy DEF Histories
      <4> QED BY <1>2, <1>5, <2>1, <3>2, <4>1, OrderedSend
    <3> QED BY <3>1, <3>2
  <2> QED BY <1>2, <2>2, <2>3 DEF InOrder, Ordered, OrderedBy
<1> QED BY <1>6, <1>7, <1>8, <1>9, <1>10, <1>11 DEF OutboxInv, OrderInv

\* A step of p to f that keeps the parts its lemmas do not speak of.
LEMMA AnyStep ==
  ASSUME OutboxInv, NEW p \in Procs, NEW f \in Frames, Move(p, f), PlaceFits(f),
         UNCHANGED <<used, earlier>>, file' \in Files, FileFits',
         excused \subseteq excused', excused' \subseteq Envelopes,
         file'.list \in {<<>>, file.list, frame[p].outbox}, Passes(p, f), Stores(p, f),
         Alone(p, f), Quiet(p), HoldsIn(f, file', used', stored', excused'), Kept'
  PROVE  OutboxInv'
<1>1. OrderInv'
  BY OrderStep
<1>2. stored' \subseteq used'
  BY <1>1 DEF OrderInv, Histories
<1>3. CountInv'
  BY <1>2, CountStep
<1>4. TypeOK'
  <2>1. TypeOK
    BY DEF OutboxInv
  <2>2. frame' \in [Procs -> Frames]
    BY <2>1, MoveFrames
  <2> QED BY <1>2, <2>1, <2>2 DEF TypeOK
<1> QED BY <1>1, <1>3, <1>4 DEF OutboxInv

\* A list begins.
LEMMA ListKeepsInv ==
  ASSUME OutboxInv, NEW p \in Procs, List(p)
  PROVE  OutboxInv'
<1> DEFINE f == [IdleFrame EXCEPT !.pc = "look", !.op = "list"]
<1>1. /\ f \in Frames /\ PlaceFits(f) /\ f.pc = "look" /\ f.op = "list"
      /\ f.outbox = <<>>
      /\ \A fl, us, st, ex : HoldsIn(f, fl, us, st, ex)
  BY IdleFacts DEF IdleFrame, Frames, Places, Commands, PlaceFits, HoldsIn
<1>2. /\ frame[p].pc = "idle" /\ Move(p, f)
      /\ UNCHANGED <<file, used, stored, excused, earlier>>
  BY DEF List
<1> HIDE DEF f
<1>3. Passes(p, f) /\ Stores(p, f) /\ Alone(p, f) /\ Quiet(p)
  BY <1>1, <1>2 DEF Passes, Stores, Alone, Quiet, Comes, Writes
<1>4. Kept'
  BY <1>1, <1>2, KeptQuiet
<1>5. file' \in Files /\ FileFits' /\ excused' \subseteq Envelopes
  BY <1>2 DEF OutboxInv, TypeOK, FileFits
<1> QED BY <1>1, <1>2, <1>3, <1>4, <1>5, AnyStep

\* A clear begins.
LEMMA ClearKeepsInv ==
  ASSUME OutboxInv, NEW p \in Procs, Clear(p)
  PROVE  OutboxInv'
<1> DEFINE f == [IdleFrame EXCEPT !.pc = "open", !.op = "clear"]
<1>1. /\ f \in Frames /\ PlaceFits(f) /\ f.pc = "open" /\ f.op = "clear"
      /\ f.outbox = <<>>
      /\ \A fl, us, st, ex : HoldsIn(f, fl, us, st, ex)
  BY IdleFacts DEF IdleFrame, Frames, Places, Commands, PlaceFits, HoldsIn
<1>2. /\ frame[p].pc = "idle" /\ Move(p, f) /\ Disturb(p, used)
      /\ UNCHANGED <<file, used, stored, earlier>>
  BY DEF Clear
<1> HIDE DEF f
<1>3. /\ excused \subseteq excused' /\ excused' \subseteq Envelopes
      /\ \A q \in Procs \ {p} : Writing(q) => used' \subseteq excused'
  BY <1>2, DisturbFacts DEF OutboxInv, TypeOK
<1>4. Passes(p, f) /\ Stores(p, f) /\ Alone(p, f) /\ Quiet(p)
  BY <1>1, <1>2, <1>3 DEF Passes, Stores, Alone, Quiet, Comes
<1>5. Kept'
  BY <1>1, <1>2, <1>3, KeptQuiet
<1>6. file' \in Files /\ FileFits'
  BY <1>2 DEF OutboxInv, TypeOK, FileFits
<1> QED BY <1>1, <1>2, <1>3, <1>4, <1>5, <1>6, AnyStep

\* A command at another place is the same command.
LEMMA PlacedTyping ==
  ASSUME NEW g \in Frames, NEW place \in Places
  PROVE  LET f == [g EXCEPT !.pc = place]
         IN  /\ f \in Frames /\ f.pc = place /\ f.op = g.op /\ f.env = g.env
             /\ f.outbox = g.outbox
BY DEF Frames

\* A command that finds no file will create one: nothing counts as stored.
LEMMA FindMissingKeepsInv ==
  ASSUME OutboxInv, NEW p \in Procs, FindMissing(p)
  PROVE  OutboxInv'
<1> DEFINE f == [frame[p] EXCEPT !.pc = "make"]
<1>1. TypeOK /\ Kept /\ Histories /\ PlaceFits(frame[p])
  BY DEF OutboxInv, OrderInv, CountInv
<1>2. frame[p] \in Frames
  BY <1>1, FrameFields
<1>3. /\ f \in Frames /\ f.pc = "make" /\ f.op = frame[p].op /\ f.env = frame[p].env
      /\ f.outbox = frame[p].outbox
  BY <1>2, PlacedTyping DEF Places
<1>4. /\ frame[p].pc = "look" /\ Move(p, f) /\ Disturb(p, used)
      /\ UNCHANGED <<file, used, stored, earlier>>
  BY DEF FindMissing
<1> HIDE DEF f
<1>5. file.list = <<>>
  BY DEF OutboxInv, FileFits, FindMissing
<1>6. /\ excused \subseteq excused' /\ excused' \subseteq Envelopes
      /\ (\E q \in Procs \ {p} : Writing(q)) => used' \subseteq excused'
  BY <1>1, <1>4, DisturbFacts DEF TypeOK
<1>7. stored \subseteq excused'
  <2>1. CASE \E q \in Procs \ {p} : Writing(q)
    BY <1>1, <1>4, <1>6, <2>1 DEF Histories
  <2>2. CASE \A q \in Procs \ {p} : ~ Writing(q)
    <3>1. \A q \in Procs : frame[q].pc # "fill"
      BY <1>4, <2>2 DEF OutboxInv, CountInv, PlaceFits, Writing
    <3> QED BY <1>1, <1>5, <1>6, <3>1, ElementsEmpty DEF Kept
  <2> QED BY <2>1, <2>2
<1>8. PlaceFits(f) /\ HoldsIn(f, file', used', stored', excused')
  BY <1>1, <1>3, <1>4, <1>7 DEF PlaceFits, HoldsIn
<1>9. Passes(p, f) /\ Stores(p, f) /\ Alone(p, f) /\ Quiet(p)
  BY <1>3, <1>4, <1>6 DEF Passes, Stores, Alone, Quiet, Comes
<1>10. Kept'
  BY <1>3, <1>4, <1>6, KeptQuiet
<1>11. file' \in Files /\ FileFits'
  BY <1>1, <1>4 DEF OutboxInv, TypeOK, FileFits
<1> QED BY <1>3, <1>4, <1>6, <1>8, <1>9, <1>10, <1>11, AnyStep

\* A send goes on with the list it read and its envelope, a list ends.
LEMMA EnqueueTyping ==
  ASSUME NEW g \in Frames, PlaceFits(g), NEW q \in Seq(Envelopes)
  PROVE  LET f == Enqueue(g, q)
         IN  /\ f \in Frames /\ PlaceFits(f)
             /\ \/ /\ g.op = "send" /\ f.pc = "open" /\ f.op = "send" /\ f.env = g.env
                   /\ f.outbox = Append(q, f.env)
                   /\ Elements(f.outbox) = Elements(q) \cup {g.env}
                \/ g.op # "send" /\ f = IdleFrame
<1>1. CASE g.op # "send"
  BY <1>1, IdleFacts DEF Enqueue
<1>2. CASE g.op = "send"
  <2>1. g.env \in Envelopes
    BY <1>2 DEF PlaceFits
  <2>2. Append(q, g.env) \in Seq(Envelopes)
    BY <2>1
  <2> DEFINE f == [g EXCEPT !.pc = "open", !.outbox = Append(q, g.env)]
  <2>3. /\ f \in Frames /\ f.pc = "open" /\ f.op = g.op /\ f.env = g.env
        /\ f.outbox = Append(q, g.env)
    BY <2>2 DEF Frames, Places
  <2>4. Enqueue(g, q) = f
    BY <1>2 DEF Enqueue
  <2> HIDE DEF f
  <2>5. PlaceFits(f)
    BY <1>2, <2>1, <2>3 DEF PlaceFits
  <2> QED BY <1>2, <2>1, <2>3, <2>4, <2>5, ElementsAppend
<1> QED BY <1>1, <1>2

\* What counts as stored is in the file that a send reads, or is excused.
LEMMA ReadKeepsInv ==
  ASSUME OutboxInv, NEW p \in Procs, Read(p)
  PROVE  OutboxInv'
<1> DEFINE f == Enqueue(frame[p], file.list)
<1>1. TypeOK /\ Kept /\ Overlapped /\ Histories /\ \A q \in Procs : PlaceFits(frame[q])
  BY DEF OutboxInv, OrderInv, CountInv
<1>2. frame[p] \in Frames /\ file \in Files /\ file.list \in Seq(Envelopes)
  BY <1>1, FrameFields DEF TypeOK, Files
<1>3. /\ f \in Frames /\ PlaceFits(f)
      /\ \/ /\ frame[p].op = "send" /\ f.pc = "open" /\ f.op = "send"
            /\ f.env = frame[p].env /\ f.outbox = Append(file.list, f.env)
            /\ Elements(f.outbox) = Elements(file.list) \cup {frame[p].env}
         \/ frame[p].op # "send" /\ f = IdleFrame
  BY <1>1, <1>2, EnqueueTyping
<1>4. /\ frame[p].pc = "look" /\ Move(p, f)
      /\ UNCHANGED <<file, used, stored, excused, earlier>>
  BY DEF Read
<1> HIDE DEF f
<1>5. HoldsIn(f, file', used', stored', excused')
  <2>1. CASE f = IdleFrame
    BY <2>1, IdleFacts
  <2>2. CASE frame[p].op = "send" /\ f.op = "send"
    <3>1. f.pc = "open" /\ Elements(f.outbox) = Elements(file.list) \cup {frame[p].env}
          /\ f.env = frame[p].env
      BY <1>3, <2>2, IdleFacts
    <3>2. ASSUME NEW e \in stored \ excused
          PROVE  e \in Elements(file.list)
      <4>1. \/ e \in Elements(file.list)
            \/ \E q \in Procs : frame[q].pc = "fill"
        BY <1>1 DEF Kept
      <4>2. ASSUME NEW q \in Procs, frame[q].pc = "fill"
            PROVE  FALSE
        <5>1. q # p /\ Writing(q) /\ Writing(p)
          BY <1>1, <1>4, <2>2, <4>2 DEF Writing, PlaceFits
        <5> QED BY <1>1, <5>1 DEF Overlapped, Histories
      <4> QED BY <4>1, <4>2
    <3> QED BY <1>4, <3>1, <3>2 DEF HoldsIn
  <2> QED BY <1>3, <2>1, <2>2
<1>6. Passes(p, f)
  BY <1>3, <1>4, IdleFacts DEF Passes, Comes
<1>7. Stores(p, f) /\ Alone(p, f) /\ Quiet(p)
  BY <1>3, <1>4, IdleFacts DEF Stores, Alone, Quiet, Writing
<1>8. Kept'
  BY <1>3, <1>4, KeptQuiet
<1>9. FileFits' /\ excused' \subseteq Envelopes
  BY <1>1, <1>4 DEF OutboxInv, TypeOK, FileFits
<1> QED BY <1>2, <1>3, <1>4, <1>5, <1>6, <1>7, <1>8, <1>9, AnyStep

\* A command that ends without a write, or is killed before it truncates,
\* changes nothing.
LEMMA LeaveKeepsInv ==
  ASSUME OutboxInv, NEW p \in Procs, Move(p, IdleFrame), frame[p].pc # "fill",
         UNCHANGED <<file, used, stored, excused, earlier>>
  PROVE  OutboxInv'
<1>1. Passes(p, IdleFrame) /\ Stores(p, IdleFrame) /\ Alone(p, IdleFrame) /\ Quiet(p)
  BY IdleFacts DEF Passes, Stores, Alone, Quiet
<1>2. Kept'
  BY KeptQuiet, IdleFacts
<1>3. file' \in Files /\ FileFits' /\ excused' \subseteq Envelopes
  BY DEF OutboxInv, TypeOK, FileFits
<1> QED BY <1>1, <1>2, <1>3, IdleFacts, AnyStep

\* A command that truncates the file holds all that counts.
LEMMA TruncateKeepsInv ==
  ASSUME OutboxInv, NEW p \in Procs, Truncate(p)
  PROVE  OutboxInv'
<1> DEFINE place == IF frame[p].pc = "make" THEN "made" ELSE "fill"
           f     == [frame[p] EXCEPT !.pc = place]
<1>1. TypeOK /\ Histories /\ PlaceFits(frame[p])
      /\ HoldsIn(frame[p], file, used, stored, excused)
  BY DEF OutboxInv, OrderInv, CountInv, Holding
<1>2. frame[p] \in Frames /\ frame[p].pc \in {"make", "open"} /\ place \in Places
  BY <1>1, FrameFields DEF Truncate, Places
<1> HIDE DEF place
<1>3. /\ f \in Frames /\ f.pc = place /\ f.op = frame[p].op /\ f.env = frame[p].env
      /\ f.outbox = frame[p].outbox
  BY <1>2, PlacedTyping
<1>4. /\ Move(p, f) /\ file' = Blank("empty") /\ UNCHANGED <<used, stored, earlier>>
      /\ excused' = IF frame[p].op = "clear" THEN excused \cup used ELSE excused
  BY DEF Truncate, place
<1> HIDE DEF f
<1>5. file' \in Files /\ file'.list = <<>>
  BY <1>4, BlankTyping DEF Forms
<1>6. excused \subseteq excused' /\ excused' \subseteq Envelopes
  BY <1>1, <1>4 DEF TypeOK
<1>7. PlaceFits(f) /\ HoldsIn(f, file', used', stored', excused')
  BY <1>1, <1>2, <1>3, <1>4 DEF PlaceFits, HoldsIn, Histories, place
<1>8. Writing(p)
  BY <1>1, <1>2 DEF Writing, PlaceFits
<1>9. Passes(p, f) /\ Stores(p, f) /\ Alone(p, f) /\ Quiet(p)
  BY <1>2, <1>3, <1>4, <1>8 DEF Passes, Stores, Alone, Quiet, Comes, place
<1>10. Kept'
  <2>1. frame'[p] = f
    BY <1>1, <1>3, <1>4, MoveFrames
  <2>2. CASE stored \subseteq excused'
    BY <1>4, <2>2 DEF Kept
  <2>3. CASE frame[p].pc = "open" /\ frame[p].op = "send"
    <3>1. f.pc = "fill" /\ stored' \ excused' \subseteq Elements(f.outbox)
      BY <1>3, <1>7, <2>3 DEF HoldsIn, place
    <3> QED BY <2>1, <3>1 DEF Kept
  <2> QED BY <1>1, <1>2, <1>4, <2>2, <2>3 DEF HoldsIn, PlaceFits, Histories
<1> QED BY <1>3, <1>4, <1>5, <1>6, <1>7, <1>9, <1>10, AnyStep DEF FileFits

\* A command that creates the file does so when nothing counts.
LEMMA FillNewKeepsInv ==
  ASSUME OutboxInv, NEW p \in Procs, FillNew(p)
  PROVE  OutboxInv'
<1> DEFINE f == Enqueue(frame[p], <<>>)
<1> <<>> \in Seq(Envelopes)
  OBVIOUS
<1>1. TypeOK /\ PlaceFits(frame[p])
      /\ HoldsIn(frame[p], file, used, stored, excused)
  BY DEF OutboxInv, CountInv, Holding
<1>2. frame[p] \in Frames /\ file \in Files
  BY <1>1, FrameFields DEF TypeOK
<1>3. /\ f \in Frames /\ PlaceFits(f)
      /\ \/ /\ frame[p].op = "send" /\ f.pc = "open" /\ f.op = "send"
            /\ f.env = frame[p].env /\ f.outbox = Append(<<>>, f.env)
            /\ Elements(f.outbox) = Elements(<<>>) \cup {frame[p].env}
         \/ frame[p].op # "send" /\ f = IdleFrame
  BY <1>1, <1>2, EnqueueTyping
<1>4. /\ frame[p].pc = "made" /\ Move(p, f) /\ file' \in Overlay(file, <<>>)
      /\ UNCHANGED <<used, stored, excused, earlier>>
  BY DEF FillNew
<1> HIDE DEF f
<1>5. file' \in Files /\ FileFits' /\ file'.list = <<>>
  BY <1>2, <1>4, OverlayTyping DEF FileFits
<1>6. stored \subseteq excused
  BY <1>1, <1>4 DEF HoldsIn
<1>7. HoldsIn(f, file', used', stored', excused')
  BY <1>3, <1>4, <1>6, IdleFacts DEF HoldsIn
<1>8. Writing(p)
  BY <1>1, <1>4 DEF Writing
<1>9. Passes(p, f)
  BY <1>3, <1>4, IdleFacts DEF Passes, Comes
<1>10. Stores(p, f) /\ Alone(p, f) /\ Quiet(p)
  BY <1>4, <1>8 DEF Stores, Alone, Quiet
<1>11. Kept'
  BY <1>4, <1>6 DEF Kept
<1>12. excused' \subseteq Envelopes
  BY <1>1, <1>4 DEF TypeOK
<1> QED BY <1>3, <1>4, <1>5, <1>7, <1>9, <1>10, <1>11, <1>12, AnyStep

\* The write of a command nobody disturbed leaves what it held in the file.
LEMMA FillKeepsInv ==
  ASSUME OutboxInv, NEW p \in Procs, Fill(p)
  PROVE  OutboxInv'
<1>1. TypeOK /\ Histories /\ PlaceFits(frame[p])
      /\ HoldsIn(frame[p], file, used, stored, excused)
  BY DEF OutboxInv, OrderInv, CountInv, Holding
<1>2. frame[p].outbox \in Seq(Envelopes) /\ file \in Files
  BY <1>1, FrameFields DEF TypeOK
<1>3. /\ frame[p].pc = "fill" /\ Move(p, IdleFrame)
      /\ file' \in Overlay(file, frame[p].outbox)
      /\ stored' = IF frame[p].op = "send" THEN stored \cup {frame[p].env} ELSE stored
      /\ UNCHANGED <<used, excused, earlier>>
  BY DEF Fill
<1>4. /\ file' \in Files /\ FileFits' /\ file'.list \in {<<>>, frame[p].outbox}
      /\ file = Blank("empty") => file' = Array(frame[p].outbox)
  BY <1>2, <1>3, OverlayTyping DEF FileFits
<1>5. Writing(p)
  BY <1>1, <1>3 DEF Writing, PlaceFits
<1>6. Passes(p, IdleFrame) /\ Stores(p, IdleFrame) /\ Alone(p, IdleFrame) /\ Quiet(p)
  BY <1>3, <1>5, IdleFacts DEF Passes, Stores, Alone, Quiet
<1>7. Kept'
  <2>1. CASE stored' \subseteq excused'
    BY <2>1 DEF Kept
  <2>2. CASE used \subseteq excused
    <3>1. stored' \subseteq used
      BY <1>1, <1>3 DEF Histories
    <3> QED BY <1>3, <2>1, <2>2, <3>1
  <2>3. CASE file = Blank("empty") /\ frame[p].op = "send"
    <3>1. file'.list = frame[p].outbox
      BY <1>2, <1>4, <2>3, ArrayTyping
    <3>2. stored' \ excused' \subseteq Elements(frame[p].outbox)
      BY <1>1, <1>3, <2>3 DEF HoldsIn
    <3> QED BY <3>1, <3>2 DEF Kept
  <2> QED BY <1>1, <1>3, <2>1, <2>2, <2>3 DEF HoldsIn, PlaceFits
<1>8. excused' \subseteq Envelopes
  BY <1>1, <1>3 DEF TypeOK
<1> QED BY <1>3, <1>4, <1>6, <1>7, <1>8, IdleFacts, AnyStep

\* A command killed between truncation and the end of its write excuses all
\* there was.
LEMMA KillKeepsInv ==
  ASSUME OutboxInv, NEW p \in Procs, Kill(p)
  PROVE  OutboxInv'
<1>1. /\ Move(p, IdleFrame) /\ UNCHANGED <<used, stored, earlier>>
      /\ excused' = IF frame[p].pc = "fill" THEN excused \cup used ELSE excused
      /\ file' # file => frame[p].pc = "fill" /\ file' = Blank("torn")
  BY DEF Kill
<1>2. CASE frame[p].pc # "fill"
  <2>1. UNCHANGED <<file, used, stored, excused, earlier>>
    BY <1>1, <1>2
  <2> QED BY <1>1, <1>2, <2>1, LeaveKeepsInv
<1>3. CASE frame[p].pc = "fill"
  <2>1. TypeOK /\ Histories
    BY DEF OutboxInv, OrderInv
  <2>2. excused' = excused \cup used
    BY <1>1, <1>3
  <2>3. Writing(p)
    BY <1>3 DEF OutboxInv, CountInv, PlaceFits, Writing
  <2>4. Kept'
    BY <1>1, <2>1, <2>2 DEF Kept, Histories
  <2>5. Blank("torn") \in Files /\ Blank("torn").list = <<>>
    BY BlankTyping DEF Forms
  <2>6. /\ file' \in Files /\ FileFits' /\ excused' \subseteq Envelopes
        /\ file'.list \in {<<>>, file.list}
    BY <1>1, <2>1, <2>2, <2>5 DEF OutboxInv, TypeOK, FileFits
  <2>7. Passes(p, IdleFrame) /\ Stores(p, IdleFrame) /\ Alone(p, IdleFrame) /\ Quiet(p)
    BY <1>1, <2>3, IdleFacts DEF Passes, Stores, Alone, Quiet
  <2> QED BY <1>1, <2>2, <2>4, <2>6, <2>7, IdleFacts, AnyStep
<1> QED BY <1>2, <1>3

\* A step that changes nothing keeps the invariant.
LEMMA StutterKeepsInv == ASSUME OutboxInv, UNCHANGED vars PROVE OutboxInv'
BY DEF OutboxInv, vars, TypeOK, FileFits, CountInv, Overlapped, Holding, Writing, Kept,
       OrderInv, Histories, Fresh, InOrder, Ordered

\* Every step keeps the invariant.
LEMMA StepKeepsInv == OutboxInv /\ [Next]_vars => OutboxInv'
<1> SUFFICES ASSUME OutboxInv, [Next]_vars
             PROVE  OutboxInv'
  OBVIOUS
<1>1. ASSUME NEW p \in Procs, ReadTorn(p) PROVE OutboxInv'
  BY <1>1, LeaveKeepsInv DEF ReadTorn
<1> QED
  BY <1>1, SendKeepsInv, ListKeepsInv, ClearKeepsInv, FindMissingKeepsInv, ReadKeepsInv,
     TruncateKeepsInv, FillNewKeepsInv, FillKeepsInv, KillKeepsInv, StutterKeepsInv
  DEF Next

-----------------------------------------------------------------------------
(* The theorems.                                                           *)

\* The invariant of the file and the commands holds in every behaviour.
THEOREM OutboxInvariant == Spec => []OutboxInv
<1> QED BY InitInv, StepKeepsInv, PTL DEF Spec

\* The file, the commands and the histories keep their types.
THEOREM OutboxTypes == Spec => []TypeOK
<1>1. OutboxInv => TypeOK
  BY DEF OutboxInv
<1> QED BY <1>1, OutboxInvariant, PTL

\* An envelope that was queued is there until a clear, an overlap of writing
\* commands or a kill in the middle of a write.
THEOREM QueueIsKept == Spec => []Kept
<1>1. OutboxInv => Kept
  BY DEF OutboxInv
<1> QED BY <1>1, OutboxInvariant, PTL

\* The queue is in the order of the sends, without repetition.
THEOREM QueueInOrder == Spec => []InOrder
<1>1. OutboxInv => InOrder
  BY DEF OutboxInv, OrderInv
<1> QED BY <1>1, OutboxInvariant, PTL
=============================================================================
