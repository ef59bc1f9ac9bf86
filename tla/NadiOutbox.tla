----------------------------- MODULE NadiOutbox -----------------------------
(***************************************************************************)
(* scripts/nadi_send.py: commands that send, list and clear by reading the *)
(* outbox file as a whole and writing it back as a whole.  One action is   *)
(* one access to the file, so that commands of several processes overlap   *)
(* and a command may be killed between truncating the file and filling it. *)
(***************************************************************************)
EXTENDS Naturals, Sequences

CONSTANTS
  Procs,      \* processes that run nadi_send.py, one command after another
  Envelopes,  \* an envelope has a fresh uuid: it is built by one send only
  Null

ASSUME NullIsNoEnvelope == Null \notin Envelopes

VARIABLES
  file,     \* nadi_outbox.json
  frame,    \* the local variables of each process' command
  used,     \* history: envelopes built so far
  stored,   \* history: envelopes whose write ended
  excused,  \* history: envelopes that were cleared, or met a disturbance
  earlier   \* history: earlier[e] were stored before the command of e began

vars == <<file, frame, used, stored, excused, earlier>>

-----------------------------------------------------------------------------
\* "other" is JSON that is not an array, "torn" is text that is not JSON.
Forms == {"missing", "empty", "other", "torn", "array"}

Array(q)  == [form |-> "array", list |-> q]
Blank(f)  == [form |-> f, list |-> <<>>]
Files     == [form : Forms, list : Seq(Envelopes)]

Commands == {"none", "send", "list", "clear"}
Places   == {"idle", "look", "make", "made", "open", "fill"}

IdleFrame == [pc |-> "idle", op |-> "none", env |-> Null, outbox |-> <<>>]

Frames == [pc : Places, op : Commands, env : Envelopes \cup {Null},
           outbox : Seq(Envelopes)]

\* Any file an operator or an earlier command may have left.
Init ==
  /\ file \in {Blank(f) : f \in Forms \ {"array"}} \cup {Array(<<>>)}
  /\ frame = [p \in Procs |-> IdleFrame]
  /\ used = {}
  /\ stored = {}
  /\ excused = {}
  /\ earlier = [e \in Envelopes |-> {}]

-----------------------------------------------------------------------------
Move(p, f) == frame' = [frame EXCEPT ![p] = f]

\* A command that has written or may yet write: all but a list that found
\* the file.
Writing(p) ==
  /\ frame[p].pc # "idle"
  /\ frame[p].op = "list" => frame[p].pc \in {"make", "made"}

\* Two writing commands overlap: all there is may be lost.
Disturb(p, S) ==
  excused' = IF \E q \in Procs \ {p} : Writing(q) THEN excused \cup S ELSE excused

\* build_envelope, then _read_outbox.
Send(p, e) ==
  /\ frame[p].pc = "idle"
  /\ e \notin used
  /\ used' = used \cup {e}
  /\ earlier' = [earlier EXCEPT ![e] = stored]
  /\ Disturb(p, used \cup {e})
  /\ Move(p, [IdleFrame EXCEPT !.pc = "look", !.op = "send", !.env = e])
  /\ UNCHANGED <<file, stored>>

List(p) ==
  /\ frame[p].pc = "idle"
  /\ Move(p, [IdleFrame EXCEPT !.pc = "look", !.op = "list"])
  /\ UNCHANGED <<file, used, stored, excused, earlier>>

\* clear does not read.
Clear(p) ==
  /\ frame[p].pc = "idle"
  /\ Disturb(p, used)
  /\ Move(p, [IdleFrame EXCEPT !.pc = "open", !.op = "clear"])
  /\ UNCHANGED <<file, used, stored, earlier>>

\* Mutant: the list created is not returned.
FindMissingNone(p) ==
  /\ frame[p].pc = "look"
  /\ file.form = "missing"
  /\ Move(p, [frame[p] EXCEPT !.pc = "make", !.outbox = Null])
  /\ Disturb(p, used)
  /\ UNCHANGED <<file, used, stored, earlier>>

\* OUTBOX_PATH.exists() is false: the file will be created with "[]".
FindMissing(p) ==
  /\ frame[p].pc = "look"
  /\ file.form = "missing"
  /\ Move(p, [frame[p] EXCEPT !.pc = "make"])
  /\ Disturb(p, used)
  /\ UNCHANGED <<file, used, stored, earlier>>

\* Mutant: a send puts its envelope first.
EnqueueFirst(f, q) ==
  IF f.op = "send" THEN [f EXCEPT !.pc = "open", !.outbox = <<f.env>> \o q] ELSE IdleFrame

\* A list prints what it read and ends, a send goes on to write it back.
Enqueue(f, q) ==
  IF f.op = "send" THEN [f EXCEPT !.pc = "open", !.outbox = Append(q, f.env)] ELSE IdleFrame

\* Mutant: a list writes back what it has read.
ReadToRewrite(p) ==
  /\ frame[p].pc = "look"
  /\ file.form \notin {"missing", "torn"}
  /\ Move(p, IF frame[p].op = "send" THEN Enqueue(frame[p], file.list)
             ELSE [frame[p] EXCEPT !.pc = "open", !.outbox = file.list])
  /\ UNCHANGED <<file, used, stored, excused, earlier>>

\* An empty file, and JSON that is no array, are read as an empty queue.
Read(p) ==
  /\ frame[p].pc = "look"
  /\ file.form \notin {"missing", "torn"}
  /\ Move(p, Enqueue(frame[p], file.list))
  /\ UNCHANGED <<file, used, stored, excused, earlier>>

\* json.loads raises, the command fails: the text is no JSON, or another
\* command is writing a queue of which only a part is there.
ReadTorn(p) ==
  /\ frame[p].pc = "look"
  /\ \/ file.form = "torn"
     \/ \E q \in Procs \ {p} : frame[q].pc = "fill" /\ frame[q].outbox # <<>>
  /\ Move(p, IdleFrame)
  /\ UNCHANGED <<file, used, stored, excused, earlier>>

\* write_text opens the file, which truncates it; a clear means to.
Truncate(p) ==
  /\ frame[p].pc \in {"make", "open"}
  /\ file' = Blank("empty")
  /\ Move(p, [frame[p] EXCEPT !.pc = IF frame[p].pc = "make" THEN "made" ELSE "fill"])
  /\ excused' = IF frame[p].op = "clear" THEN excused \cup used ELSE excused
  /\ UNCHANGED <<used, stored, earlier>>

\* write_text writes from the start of the file.  What another command wrote
\* since the file was truncated and is longer sticks out at the end.
Overlay(old, q) ==
  IF old.form \in {"missing", "empty"} \/ old \in {Array(<<>>), Array(q)}
    THEN {Array(q)}
    ELSE {Blank("torn")} \cup (IF q = <<>> THEN {} ELSE {Array(q)})

FillNew(p) ==
  /\ frame[p].pc = "made"
  /\ file' \in Overlay(file, <<>>)
  /\ Move(p, Enqueue(frame[p], <<>>))
  /\ UNCHANGED <<used, stored, excused, earlier>>

Fill(p) ==
  /\ frame[p].pc = "fill"
  /\ file' \in Overlay(file, frame[p].outbox)
  /\ stored' = IF frame[p].op = "send" THEN stored \cup {frame[p].env} ELSE stored
  /\ Move(p, IdleFrame)
  /\ UNCHANGED <<used, excused, earlier>>

\* A command is killed: between Truncate and the end of Fill the queue is
\* gone, and a part of what was to be written may be left.
Kill(p) ==
  /\ frame[p].pc # "idle"
  /\ \/ file' = file
     \/ frame[p].pc = "fill" /\ frame[p].outbox # <<>> /\ file' = Blank("torn")
  /\ excused' = IF frame[p].pc = "fill" THEN excused \cup used ELSE excused
  /\ Move(p, IdleFrame)
  /\ UNCHANGED <<used, stored, earlier>>

Next ==
  \E p \in Procs :
    \/ \E e \in Envelopes : Send(p, e)
    \/ List(p) \/ Clear(p)
    \/ FindMissing(p) \/ Read(p) \/ ReadTorn(p)
    \/ Truncate(p) \/ FillNew(p) \/ Fill(p) \/ Kill(p)

Spec == Init /\ [][Next]_vars

-----------------------------------------------------------------------------
(* Properties.                                                             *)

Elements(q) == {q[i] : i \in 1..Len(q)}

\* Every variable keeps its type.
TypeOK ==
  /\ file \in Files
  /\ frame \in [Procs -> Frames]
  /\ used \subseteq Envelopes
  /\ stored \subseteq Envelopes
  /\ excused \subseteq Envelopes
  /\ earlier \in [Envelopes -> SUBSET Envelopes]

\* An envelope "Queued" stays in the file, or in the hands of the one command
\* that is rewriting it, until a clear: only an overlap of two writing
\* commands, or a kill after truncation and before the write ends, may lose
\* it, and then only envelopes queued or under way at that moment.  Neither a
\* list that finds the file nor a kill at any other moment does harm.
Kept ==
  \A e \in stored \ excused :
    \/ e \in Elements(file.list)
    \/ \E p \in Procs : frame[p].pc = "fill" /\ e \in Elements(frame[p].outbox)

\* No envelope of q occurs twice, and none stands before one that was queued
\* before its own send began.
Ordered(q) ==
  \A i, j \in 1..Len(q) : i < j => q[i] # q[j] /\ q[j] \notin earlier[q[i]]

\* Whatever commands overlap, clear or die, the queue is in the order of the
\* sends and holds no envelope twice: a command that brings back an old queue
\* brings back all of its order.
InOrder == Ordered(file.list) /\ \A p \in Procs : Ordered(frame[p].outbox)
=============================================================================
