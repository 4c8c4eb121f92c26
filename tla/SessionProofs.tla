----------------------------- MODULE SessionProofs -----------------------------
(***************************************************************************)
(* Theorems about Session.  Nothing is assumed of the clients but, for the  *)
(* order of execution and the places of commands, that no two of their      *)
(* commands have the same text, by which the properties tell them apart.    *)
(*                                                                          *)
(* The argument for the order: what has been executed, what is about to be  *)
(* and what waits in cmd_queue form one sequence, Pipeline, to which only   *)
(* Eval adds; and the bytes still in recv_buf and chunk are the last ones   *)
(* that were read, so that what Eval adds was read after all it follows.    *)
(*                                                                          *)
(* The argument for the places: a command appears when its line is handled, *)
(* in one place, and every later step that touches it takes it, or its      *)
(* answer, out of one place and puts it into another (Carried).  Handled is *)
(* Received of the part of the input before Done, and LineInv says that     *)
(* this part ends with a line and, when the reader is done, is all there is *)
(* of lines.                                                                *)
(*                                                                          *)
(* The argument for the refinement: StageOf is a function of the place of a *)
(* command and of whether update() is inside exec (StageAt), each step      *)
(* moves one command at most (Keeps, Moves, Placed), and KindInv tells      *)
(* scripts from list_bindings in the hands of the threads.                  *)
(***************************************************************************)
EXTENDS Session, SequenceTheorems, FiniteSetTheorems, TLAPS

-----------------------------------------------------------------------------
(* Types. *)

\* What the places of the threads say about what they work on.
Roles ==
    /\ pc["worker"] \in {"take", "send"}
    /\ pc["accept"] \in {"idle", "join", "take", "send", "connect", "handshake"}
    /\ pc["reader"] \in {"idle", "read", "take", "send", "append", "line", "list", "disconnect"}
    /\ pc["app"] \in {"idle", "take", "send", "update", "exec", "result"}
    /\ \A t \in Threads : pc[t] = "send" => held[t] \in Messages
    /\ pc["accept"] # "idle" => conn["accept"] \in Conns
    /\ pc["reader"] # "idle" => conn["reader"] \in Conns
    /\ pc["reader"] = "list" => asked \in Commands
    /\ pc["app"] \in {"exec", "result"} => script \in Commands

TypeInv == TypeOK /\ Roles

LEMMA LoggedTyped ==
  ASSUME TypeOK, NEW n \in Nat PROVE Logged(n) \in Seq(Messages)
<1>1. Log \in Messages
  BY DEF Log, Msg, Messages
<1>2. [i \in 1 .. n |-> Log] \in Seq(Messages)
  BY <1>1, IsASeq
<1>3. <<>> \in Seq(Messages)
  BY EmptySeq
<1> QED BY <1>2, <1>3 DEF Logged

LEMMA MsgTyped ==
  ASSUME NEW w \in {"log", "repl_result", "command_result", "warning", "handshake"},
         NEW c \in Commands \cup {NONE}
  PROVE  Msg(w, c) \in Messages
BY DEF Msg, Messages

LEMMA EnqueueTyped ==
  ASSUME TypeOK, NEW msgs \in Seq(Messages), Enqueue(msgs)
  PROVE  /\ log_queue' \in Seq(Messages) /\ Len(log_queue') <= LogCapacity
         /\ dropped' \in BOOLEAN /\ lost' \subseteq Commands
<1>0. PICK n \in 0 .. Len(msgs) : \E p \in Picks(msgs, n) :
          /\ Len(log_queue) + n <= LogCapacity
          /\ log_queue' = log_queue \o [i \in 1 .. n |-> msgs[p[i]]]
          /\ dropped' = (dropped \/ n < Len(msgs))
          /\ lost' = lost \cup ({msgs[i].of : i \in DOMAIN msgs \ Range(p)} \ {NONE})
  BY DEF Enqueue
<1>1. PICK p \in Picks(msgs, n) :
          /\ Len(log_queue) + n <= LogCapacity
          /\ log_queue' = log_queue \o [i \in 1 .. n |-> msgs[p[i]]]
          /\ dropped' = (dropped \/ n < Len(msgs))
          /\ lost' = lost \cup ({msgs[i].of : i \in DOMAIN msgs \ Range(p)} \ {NONE})
  BY <1>0
<1> DEFINE s == [i \in 1 .. n |-> msgs[p[i]]]
<1>2. n \in Nat /\ \A i \in DOMAIN msgs : msgs[i] \in Messages
  BY LenProperties, ElementOfSeq
<1>3. \A i \in 1 .. n : msgs[p[i]] \in Messages
  BY <1>1, <1>2 DEF Picks
<1>4. s \in Seq(Messages)
  BY <1>2, <1>3, IsASeq
<1>5. Len(s) = n
  BY <1>2, <1>4
<1>6. log_queue \in Seq(Messages) /\ log_queue' = log_queue \o s
  BY <1>1 DEF TypeOK
<1>7. log_queue' \in Seq(Messages) /\ Len(log_queue') = Len(log_queue) + Len(s)
  BY <1>4, <1>6, ConcatProperties
<1>8. lost' \subseteq Commands
  BY <1>1, <1>2 DEF TypeOK, Messages
<1> HIDE DEF s
<1> QED BY <1>1, <1>5, <1>7, <1>8 DEF TypeOK

LEMMA SendTyped ==
  ASSUME TypeOK, NEW m \in Messages, Send(m)
  PROVE  wire' \in [Conns -> Seq(Messages)] /\ lost' \subseteq Commands
<1>1. \A c \in Conns : Append(wire[c], m) \in Seq(Messages)
  BY AppendProperties DEF TypeOK
<1> QED BY <1>1 DEF TypeOK, Send, IsAnswer

-----------------------------------------------------------------------------
(* Positions in sequences: SelectInSeq takes the smallest one that fits. *)

LEMMA SmallestExists ==
  ASSUME NEW I \in SUBSET Nat, I # {}
  PROVE  Min(I) \in I /\ \A i \in I : Min(I) <= i
<1> DEFINE below == {0 .. i : i \in I}
<1>1. ASSUME NEW i \in I PROVE 0 .. i \in FiniteSubsetsOf(Nat)
  <2>1. IsFiniteSet(0 .. i)
    BY FS_Interval
  <2>2. 0 .. i \in SUBSET Nat
    OBVIOUS
  <2> QED BY <2>1, <2>2 DEF FiniteSubsetsOf
<1>2. below \subseteq FiniteSubsetsOf(Nat) /\ below # {}
  BY <1>1
<1>3. PICK x \in below : \A y \in below : <<y, x>> \notin StrictSubsetOrdering(Nat)
  BY <1>2, FS_StrictSubsetOrderingWellFounded, WFMin
<1>4. PICK k \in I : x = 0 .. k
  BY <1>3
<1>5. ASSUME NEW i \in I, i < k PROVE FALSE
  <2>1. 0 .. i \in below /\ 0 .. i \subseteq 0 .. k /\ k \in 0 .. k /\ k \notin 0 .. i
    BY <1>5
  <2>2. 0 .. i \in SUBSET Nat /\ 0 .. k \in SUBSET Nat
    OBVIOUS
  <2> QED BY <1>3, <1>4, <2>1, <2>2 DEF StrictSubsetOrdering
<1>6. \A i \in I : k <= i
  BY <1>5
<1> QED BY <1>6 DEF Min

LEMMA NewLineFound ==
  ASSUME recv_buf \in Seq(Bytes)
  PROVE  /\ NewLine \in 0 .. Len(recv_buf)
         /\ NewLine > 0 => recv_buf[NewLine] = NL
         /\ NewLine > 0 => \A i \in 1 .. NewLine - 1 : recv_buf[i] # NL
         /\ NewLine = 0 => \A i \in 1 .. Len(recv_buf) : recv_buf[i] # NL
<1> DEFINE I == {i \in 1 .. Len(recv_buf) : recv_buf[i] = NL}
<1>1. NewLine = IF I # {} THEN Min(I) ELSE 0
  BY DEF NewLine, SelectInSeq
<1>2. I \in SUBSET Nat /\ Len(recv_buf) \in Nat
  BY LenProperties
<1>3. CASE I # {}
  <2>1. Min(I) \in I /\ \A i \in I : Min(I) <= i
    BY <1>2, <1>3, SmallestExists
  <2>2. NewLine \in I /\ \A i \in I : NewLine <= i
    BY <1>1, <1>3, <2>1
  <2>3. NewLine \in 1 .. Len(recv_buf) /\ recv_buf[NewLine] = NL
    BY <2>2
  <2>4. \A i \in 1 .. NewLine - 1 : recv_buf[i] # NL
    BY <1>2, <2>2, <2>3
  <2> QED BY <1>2, <2>3, <2>4
<1>4. CASE I = {}
  BY <1>1, <1>2, <1>4
<1> QED BY <1>3, <1>4

LEMMA PositionIs ==
  ASSUME read \in Seq(Bytes), NEW k \in 1 .. Len(read),
         \A i \in 1 .. Len(read) : read[i] = read[k] => i = k
  PROVE  Position(read[k]) = k
<1> DEFINE I == {i \in 1 .. Len(read) : read[i] = read[k]}
<1>1. Position(read[k]) = IF I # {} THEN Min(I) ELSE 0
  BY DEF Position, SelectInSeq
<1>2. I = {k}
  OBVIOUS
<1>3. Min({k}) = k
  BY DEF Min
<1> QED BY <1>1, <1>2, <1>3

-----------------------------------------------------------------------------
(* Lines. *)

\* A line that is a command is a single token, and the line end follows it.
LEMMA LineFacts ==
  ASSUME TypeOK, NewLine > 0, Parsed \in {"repl_eval", "list_bindings", "other"}
  PROVE  /\ NewLine = 2 /\ 2 <= Len(recv_buf)
         /\ Line[1] = recv_buf[1] /\ Line[1] \in Commands
<1>1. recv_buf \in Seq(Bytes) /\ Len(recv_buf) \in Nat
  BY LenProperties DEF TypeOK
<1>2. /\ NewLine \in 1 .. Len(recv_buf)
      /\ \A i \in 1 .. NewLine - 1 : recv_buf[i] # NL
  BY <1>1, NewLineFound
<1>3. \A i \in 1 .. NewLine - 1 : recv_buf[i] \in Bytes
  BY <1>1, <1>2, ElementOfSeq
<1>4. /\ Len(Line) = NewLine - 1
      /\ \A i \in 1 .. NewLine - 1 : Line[i] = recv_buf[i]
  <2>1. /\ Len(Line) = IF 1 <= NewLine - 1 THEN NewLine - 1 - 1 + 1 ELSE 0
        /\ \A i \in 1 .. NewLine - 1 - 1 + 1 : Line[i] = recv_buf[1 + i - 1]
    BY <1>1, <1>2, <1>3, SubSeqProperties DEF Line
  <2> QED BY <1>2, <2>1
<1>5. Len(Line) = 1
  <2>1. CASE Line = <<>>
    BY <2>1 DEF Parsed
  <2>2. CASE Line # <<>> /\ Len(Line) # 1
    BY <2>2 DEF Parsed
  <2> QED BY <2>1, <2>2
<1>6. NewLine = 2 /\ 2 <= Len(recv_buf)
  <2>1. NewLine \in Int /\ NewLine <= Len(recv_buf) /\ Len(recv_buf) \in Int
    BY <1>1, <1>2
  <2>2. Len(Line) = NewLine - 1
    BY <1>4
  <2>3. NewLine - 1 = 1
    BY <1>5, <2>2
  <2>4. NewLine = 2
    BY <2>1, <2>3
  <2> QED BY <2>1, <2>4
<1>7. Line[1] = recv_buf[1] /\ recv_buf[1] \in Bytes /\ recv_buf[1] # NL
  BY <1>2, <1>3, <1>4, <1>6
<1> QED BY <1>6, <1>7 DEF Bytes

LEMMA CutFacts ==
  ASSUME TypeOK, NewLine > 0, Cut
  PROVE  /\ recv_buf' \in Seq(Bytes) /\ Len(recv_buf') = Len(recv_buf) - NewLine
         /\ \A i \in 1 .. Len(recv_buf') : recv_buf'[i] = recv_buf[NewLine + i]
<1>1. recv_buf \in Seq(Bytes) /\ Len(recv_buf) \in Nat
  BY LenProperties DEF TypeOK
<1>2. NewLine \in 1 .. Len(recv_buf)
  BY <1>1, NewLineFound
<1>3. \A i \in NewLine + 1 .. Len(recv_buf) : recv_buf[i] \in Bytes
  BY <1>1, <1>2, ElementOfSeq
<1> DEFINE s == SubSeq(recv_buf, NewLine + 1, Len(recv_buf))
<1>4. /\ s \in Seq(Bytes)
      /\ Len(s) = IF NewLine + 1 <= Len(recv_buf) THEN Len(recv_buf) - (NewLine + 1) + 1 ELSE 0
      /\ \A i \in 1 .. Len(recv_buf) - (NewLine + 1) + 1 : s[i] = recv_buf[NewLine + 1 + i - 1]
  BY <1>1, <1>2, <1>3, SubSeqProperties
<1>5. recv_buf' = s
  BY DEF Cut
<1> HIDE DEF s
<1>6. Len(s) = Len(recv_buf) - NewLine
  BY <1>1, <1>2, <1>4
<1>7. ASSUME NEW i \in 1 .. Len(s) PROVE s[i] = recv_buf[NewLine + i]
  <2>1. i \in 1 .. Len(recv_buf) - (NewLine + 1) + 1 /\ NewLine + 1 + i - 1 = NewLine + i
    BY <1>1, <1>2, <1>6
  <2> QED BY <1>4, <2>1
<1> QED BY <1>4, <1>5, <1>6, <1>7

\* What a read takes off what its client has still to send.
LEMMA ReadFacts ==
  ASSUME TypeInv, Read
  PROVE  LET c == conn["reader"]
         IN  /\ c \in Conns /\ Len(chunk') \in 1 .. Len(tosend[c])
             /\ chunk' \in Seq(Bytes) /\ read' = read \o chunk' /\ read' \in Seq(Bytes)
             /\ \A i \in 1 .. Len(chunk') : chunk'[i] = tosend[c][i]
             /\ tosend' = [tosend EXCEPT ![c] = tosend'[c]] /\ tosend'[c] \in Seq(Bytes)
             /\ Len(tosend'[c]) = Len(tosend[c]) - Len(chunk')
             /\ \A i \in 1 .. Len(tosend'[c]) : tosend'[c][i] = tosend[c][Len(chunk') + i]
<1> DEFINE c == conn["reader"]
           b == tosend[c]
<1>1. c \in Conns
  BY DEF Read, TypeInv, Roles
<1>2. b \in Seq(Bytes) /\ Len(b) \in Nat
  BY <1>1, LenProperties DEF TypeInv, TypeOK
<1>3. PICK n \in 1 .. Len(b) : /\ chunk' = SubSeq(b, 1, n)
                             /\ tosend' = [tosend EXCEPT ![c] = SubSeq(b, n + 1, Len(b))]
  BY DEF Read
<1>4. \A i \in 1 .. Len(b) : b[i] \in Bytes
  BY <1>2, ElementOfSeq
<1>5. /\ SubSeq(b, 1, n) \in Seq(Bytes) /\ Len(SubSeq(b, 1, n)) = n
      /\ \A i \in 1 .. n : SubSeq(b, 1, n)[i] = b[i]
  <2>1. \A i \in 1 .. n : b[i] \in Bytes
    BY <1>2, <1>4
  <2> HIDE DEF b
  <2> QED BY <1>2, <2>1, SubSeqProperties
<1>6. /\ SubSeq(b, n + 1, Len(b)) \in Seq(Bytes)
      /\ Len(SubSeq(b, n + 1, Len(b))) = Len(b) - n
      /\ \A i \in 1 .. Len(b) - n : SubSeq(b, n + 1, Len(b))[i] = b[n + i]
  <2>1. \A i \in n + 1 .. Len(b) : b[i] \in Bytes
    BY <1>2, <1>4
  <2> HIDE DEF b
  <2>2. /\ SubSeq(b, n + 1, Len(b)) \in Seq(Bytes)
        /\ Len(SubSeq(b, n + 1, Len(b))) = IF n + 1 <= Len(b) THEN Len(b) - (n + 1) + 1 ELSE 0
        /\ \A i \in 1 .. Len(b) - (n + 1) + 1 : SubSeq(b, n + 1, Len(b))[i] = b[n + 1 + i - 1]
    BY <1>2, <2>1, SubSeqProperties
  <2> QED BY <1>2, <2>2
<1>7. tosend'[c] = SubSeq(b, n + 1, Len(b)) /\ tosend' = [tosend EXCEPT ![c] = tosend'[c]]
  BY <1>1, <1>3 DEF TypeInv, TypeOK
<1>8. read \in Seq(Bytes) /\ read' = read \o chunk'
  BY DEF Read, TypeInv, TypeOK
<1>9. read' \in Seq(Bytes)
  BY <1>3, <1>5, <1>8, ConcatProperties
<1> HIDE DEF b
<1>10. /\ Len(chunk') = n /\ chunk' \in Seq(Bytes)
       /\ \A i \in 1 .. Len(chunk') : chunk'[i] = b[i]
  BY <1>3, <1>5
<1>11. /\ tosend'[c] \in Seq(Bytes) /\ Len(tosend'[c]) = Len(b) - Len(chunk')
       /\ \A i \in 1 .. Len(tosend'[c]) : tosend'[c][i] = b[Len(chunk') + i]
  BY <1>6, <1>7, <1>10
<1> QED BY <1>1, <1>7, <1>8, <1>9, <1>10, <1>11 DEF b

-----------------------------------------------------------------------------
(* Every variable keeps its type. *)

LEMMA TypesNext ==
  ASSUME TypeInv, Next PROVE TypeInv'
<1> USE DEF TypeInv
<1>1. ASSUME NEW t \in Threads, Take(t) PROVE TypeInv'
  <2>1. /\ log_queue \in Seq(Messages) /\ log_queue # <<>> /\ log_queue' = Tail(log_queue)
        /\ held' = [held EXCEPT ![t] = Head(log_queue)]
    BY <1>1 DEF Take, TypeOK
  <2>2. /\ Head(log_queue) \in Messages /\ log_queue' \in Seq(Messages)
        /\ Len(log_queue') = Len(log_queue) - 1 /\ Len(log_queue) \in Nat
    BY <2>1, HeadTailProperties, LenProperties
  <2>3. TypeOK'
    <3>1. held' \in [Threads -> Messages \cup {NONE}]
      BY <2>1, <2>2 DEF TypeOK
    <3>2. pc' \in [Threads -> Labels]
      BY <1>1 DEF Take, Goto, TypeOK, Labels
    <3>3. Len(log_queue') <= LogCapacity
      BY <2>2, CapacityAssumption DEF TypeOK
    <3> QED BY <1>1, <2>2, <3>1, <3>2, <3>3 DEF Take, hist, TypeOK
  <2>4. Roles'
    BY <1>1, <2>1, <2>2 DEF Take, Goto, hist, TypeOK, Roles, Threads
  <2> QED BY <2>3, <2>4
<1>2. ASSUME NEW t \in Threads, SendHeld(t) PROVE TypeInv'
  <2>1. held[t] \in Messages
    BY <1>2 DEF SendHeld, Roles
  <2>2. wire' \in [Conns -> Seq(Messages)] /\ lost' \subseteq Commands
    BY <1>2, <2>1, SendTyped DEF SendHeld
  <2>3. TypeOK'
    BY <1>2, <2>2 DEF SendHeld, Goto, queues, TypeOK, Labels
  <2>4. Roles'
    BY <1>2 DEF SendHeld, Goto, queues, TypeOK, Roles, Threads
  <2> QED BY <2>3, <2>4
<1>3. ASSUME NEW t \in Threads, WarnDrops(t) PROVE TypeInv'
  <2>1. wire' \in [Conns -> Seq(Messages)] /\ lost' \subseteq Commands
    <3>1. Msg("warning", NONE) \in Messages
      BY MsgTyped
    <3>2. CASE dropped
      BY <1>3, <3>1, <3>2, SendTyped DEF WarnDrops
    <3>3. CASE ~dropped
      BY <1>3, <3>3 DEF WarnDrops, TypeOK
    <3> QED BY <3>2, <3>3
  <2>2. /\ After(t) \in Labels
        /\ t = "worker" => After(t) = "take"
        /\ t = "accept" => After(t) = "connect"
        /\ t = "reader" => After(t) = "append"
        /\ t = "app"    => After(t) = "idle"
    BY DEF After, Threads, Labels
  <2>3. TypeOK'
    BY <1>3, <2>1, <2>2 DEF WarnDrops, Goto, TypeOK
  <2>4. Roles'
    BY <1>3, <2>2 DEF WarnDrops, Goto, TypeOK, Roles, Threads
  <2> QED BY <2>3, <2>4
<1>4. CASE Flush
  <2>1. TypeOK'
    BY <1>4 DEF Flush, Goto, queues, hist, TypeOK, Labels, Threads
  <2>2. Roles'
    BY <1>4 DEF Flush, Goto, queues, hist, TypeOK, Roles, Threads
  <2> QED BY <2>1, <2>2
<1>5. CASE AppLog
  <2>1. Logged(1) \in Seq(Messages)
    BY LoggedTyped
  <2>2. /\ log_queue' \in Seq(Messages) /\ Len(log_queue') <= LogCapacity
        /\ dropped' \in BOOLEAN /\ lost' \subseteq Commands
    BY <1>5, <2>1, EnqueueTyped DEF AppLog
  <2>2a. logs' \in 0 .. MaxLogs
    BY <1>5, InputAssumption DEF AppLog, TypeOK
  <2>3. TypeOK'
    BY <1>5, <2>2, <2>2a DEF AppLog, TypeOK
  <2>4. Roles'
    BY <1>5 DEF AppLog, Roles
  <2> QED BY <2>3, <2>4
<1>6. CASE Update
  <2>1. Logged(1) \in Seq(Messages)
    BY LoggedTyped
  <2>2. /\ log_queue' \in Seq(Messages) /\ Len(log_queue') <= LogCapacity
        /\ dropped' \in BOOLEAN /\ lost' \subseteq Commands
    BY <1>6, <2>1, EnqueueTyped DEF Update
  <2>3. /\ cmd_queue \in Seq(Commands) /\ cmd_queue # <<>> /\ cmd_queue' = Tail(cmd_queue)
        /\ script' = Head(cmd_queue)
    BY <1>6 DEF Update, TypeOK
  <2>4. /\ script' \in Commands /\ cmd_queue' \in Seq(Commands)
        /\ Len(cmd_queue') = Len(cmd_queue) - 1 /\ Len(cmd_queue) \in Nat
    BY <2>3, HeadTailProperties, LenProperties
  <2>5. TypeOK'
    <3>1. pc' \in [Threads -> Labels]
      BY <1>6 DEF Update, Goto, TypeOK, Labels
    <3>2. Len(cmd_queue') <= CmdCapacity
      BY <2>4, CapacityAssumption DEF TypeOK
    <3> QED BY <1>6, <2>2, <2>4, <3>1, <3>2 DEF Update, TypeOK
  <2>6. Roles'
    BY <1>6, <2>4 DEF Update, Goto, TypeOK, Roles, Threads
  <2> QED BY <2>5, <2>6
<1>7. CASE Exec
  <2>1. script \in Commands
    BY <1>7 DEF Exec, Roles
  <2>2. executed' \in Seq(Commands)
    BY <1>7, <2>1, AppendProperties DEF Exec, TypeOK
  <2>3. TypeOK'
    BY <1>7, <2>2 DEF Exec, Goto, queues, TypeOK, Labels, Threads
  <2>4. Roles'
    BY <1>7 DEF Exec, Goto, queues, TypeOK, Roles, Threads
  <2> QED BY <2>3, <2>4
<1>8. CASE Result
  <2>1. script \in Commands
    BY <1>8 DEF Result, Roles
  <2>2. Msg("repl_result", script) \in Messages /\ Logged(1) \in Seq(Messages)
    BY <2>1, MsgTyped, LoggedTyped
  <2>3. Append(Logged(1), Msg("repl_result", script)) \in Seq(Messages)
    BY <2>2, AppendProperties
  <2>4. /\ log_queue' \in Seq(Messages) /\ Len(log_queue') <= LogCapacity
        /\ dropped' \in BOOLEAN /\ lost' \subseteq Commands
    BY <1>8, <2>3, EnqueueTyped DEF Result
  <2>5. TypeOK'
    BY <1>8, <2>4 DEF Result, Goto, TypeOK, Labels, Threads
  <2>6. Roles'
    BY <1>8 DEF Result, Goto, TypeOK, Roles, Threads
  <2> QED BY <2>5, <2>6
<1>9. CASE UpdateReturns
  <2>1. TypeOK'
    BY <1>9 DEF UpdateReturns, Goto, queues, hist, TypeOK, Labels, Threads
  <2>2. Roles'
    BY <1>9 DEF UpdateReturns, Goto, queues, hist, TypeOK, Roles, Threads
  <2> QED BY <2>1, <2>2
<1>10. ASSUME NEW c \in Conns, Connect(c) PROVE TypeInv'
  <2>1. TypeOK'
    BY <1>10 DEF Connect, Goto, Rest, TypeOK, Labels, Threads
  <2>2. Roles'
    BY <1>10 DEF Connect, Goto, Rest, TypeOK, Roles, Threads
  <2> QED BY <2>1, <2>2
<1>11. CASE Install
  <2>1. conn["accept"] \in Conns
    BY <1>11 DEF Install, Roles
  <2>2. TypeOK'
    BY <1>11, <2>1 DEF Install, Goto, Rest, TypeOK, Labels, Threads
  <2>3. Roles'
    BY <1>11 DEF Install, Goto, Rest, TypeOK, Roles, Threads
  <2> QED BY <2>2, <2>3
<1>12. CASE SetConnected
  <2>1. TypeOK'
    BY <1>12 DEF SetConnected, Goto, Rest, TypeOK, Labels, Threads
  <2>2. Roles'
    BY <1>12 DEF SetConnected, Goto, Rest, TypeOK, Roles, Threads
  <2> QED BY <2>1, <2>2
<1>13. CASE Handshake
  <2>1. conn["accept"] \in Conns
    BY <1>13 DEF Handshake, Roles
  <2>2. Msg("handshake", NONE) \in Messages
    BY MsgTyped
  <2>3. wire' \in [Conns -> Seq(Messages)] /\ lost' \subseteq Commands
    BY <1>13, <2>2, SendTyped DEF Handshake
  <2>4. TypeOK'
    BY <1>13, <2>1, <2>3 DEF Handshake, Rest, TypeOK, Labels, Threads
  <2>5. Roles'
    BY <1>13, <2>1 DEF Handshake, Rest, TypeOK, Roles, Threads
  <2> QED BY <2>4, <2>5
<1>14. CASE Read
  <2>1. chunk' \in Seq(Bytes) /\ read' \in Seq(Bytes) /\ tosend' \in [Conns -> Seq(Bytes)]
    BY <1>14, ReadFacts DEF TypeOK
  <2>2. TypeOK'
    BY <1>14, <2>1 DEF Read, Goto, queues, TypeOK, Labels, Threads
  <2>3. Roles'
    BY <1>14 DEF Read, Goto, queues, TypeOK, Roles, Threads
  <2> QED BY <2>2, <2>3
<1>15. CASE ReadFails
  <2>1. TypeOK'
    BY <1>15 DEF ReadFails, Goto, queues, hist, TypeOK, Labels, Threads
  <2>2. Roles'
    BY <1>15 DEF ReadFails, Goto, queues, hist, TypeOK, Roles, Threads
  <2> QED BY <2>1, <2>2
<1>16. CASE Disconnect
  <2>1. TypeOK'
    BY <1>16 DEF Disconnect, Goto, queues, hist, TypeOK, Labels, Threads
  <2>2. Roles'
    BY <1>16 DEF Disconnect, Goto, queues, hist, TypeOK, Roles, Threads
  <2> QED BY <2>1, <2>2
<1>17. CASE AppendData
  <2>1. recv_buf' \in Seq(Bytes) /\ chunk' \in Seq(Bytes)
    BY <1>17, ConcatProperties, EmptySeq DEF AppendData, TypeOK
  <2>2. TypeOK'
    BY <1>17, <2>1 DEF AppendData, Goto, queues, hist, TypeOK, Labels, Threads
  <2>3. Roles'
    BY <1>17 DEF AppendData, Goto, queues, hist, TypeOK, Roles, Threads
  <2> QED BY <2>2, <2>3
<1>18. CASE NoMoreLines
  <2>1. TypeOK'
    BY <1>18 DEF NoMoreLines, Goto, queues, hist, TypeOK, Labels, Threads
  <2>2. Roles'
    BY <1>18 DEF NoMoreLines, Goto, queues, hist, TypeOK, Roles, Threads
  <2> QED BY <2>1, <2>2
<1>19. CASE HandleLine
  <2>1. recv_buf' \in Seq(Bytes)
    BY <1>19, CutFacts DEF HandleLine
  <2>2. CASE Eval
    <3>1. Line[1] \in Commands
      BY <1>19, <2>2, LineFacts DEF HandleLine, Eval
    <3>2. /\ cmd_queue' \in Seq(Commands) /\ Len(cmd_queue') <= CmdCapacity
          /\ lost' \subseteq Commands
      <4>1. cmd_queue \in Seq(Commands) /\ Len(cmd_queue) \in Nat
        BY LenProperties DEF TypeOK
      <4>2. /\ Append(cmd_queue, Line[1]) \in Seq(Commands)
            /\ Len(Append(cmd_queue, Line[1])) = Len(cmd_queue) + 1
        BY <3>1, <4>1, AppendProperties
      <4>3. CmdCapacity \in Nat /\ lost \subseteq Commands
        BY CapacityAssumption DEF TypeOK
      <4>4. CASE Len(cmd_queue) < CmdCapacity
        <5>1. cmd_queue' = Append(cmd_queue, Line[1]) /\ lost' = lost
          BY <2>2, <4>4 DEF Eval
        <5> QED BY <4>1, <4>2, <4>3, <4>4, <5>1
      <4>5. CASE ~(Len(cmd_queue) < CmdCapacity)
        BY <2>2, <3>1, <4>5 DEF Eval, TypeOK
      <4> QED BY <4>4, <4>5
    <3>3. TypeOK'
      BY <1>19, <2>1, <2>2, <3>2 DEF HandleLine, Eval, Goto, TypeOK, Labels, Threads
    <3>4. Roles'
      BY <1>19, <2>2 DEF HandleLine, Eval, Goto, TypeOK, Roles, Threads
    <3> QED BY <3>3, <3>4
  <2>3. CASE ListBindings
    <3>1. Line[1] \in Commands
      BY <1>19, <2>3, LineFacts DEF HandleLine, ListBindings
    <3>2. TypeOK'
      BY <1>19, <2>1, <2>3, <3>1 DEF HandleLine, ListBindings, Goto, queues, TypeOK, Labels, Threads
    <3>3. Roles'
      BY <1>19, <2>3, <3>1 DEF HandleLine, ListBindings, Goto, queues, TypeOK, Roles, Threads
    <3> QED BY <3>2, <3>3
  <2>4. CASE Other
    <3>1. PICK msgs \in Seq(Messages) : Enqueue(msgs)
      <4>1. <<>> \in Seq(Messages) /\ Logged(1) \in Seq(Messages)
        BY LoggedTyped, EmptySeq
      <4>2. CASE Parsed \in {"ignored", "garbage"}
        BY <2>4, <4>1, <4>2 DEF Other
      <4>3. CASE Parsed = "other"
        <5>1. Msg("command_result", Line[1]) \in Messages
          BY <1>19, <4>3, LineFacts, MsgTyped DEF HandleLine
        <5>2. <<Msg("command_result", Line[1])>> \in Seq(Messages)
          BY <5>1
        <5> QED BY <2>4, <4>3, <5>2 DEF Other
      <4> QED BY <2>4, <4>2, <4>3 DEF Other
    <3>2. /\ log_queue' \in Seq(Messages) /\ Len(log_queue') <= LogCapacity
          /\ dropped' \in BOOLEAN /\ lost' \subseteq Commands
      BY <3>1, EnqueueTyped
    <3>3. UNCHANGED <<cmd_queue, asked>> /\ Goto("reader", "line")
      BY <2>4 DEF Other
    <3>4. TypeOK'
      BY <1>19, <2>1, <3>2, <3>3 DEF HandleLine, Goto, TypeOK, Labels, Threads
    <3>5. Roles'
      BY <1>19, <3>3 DEF HandleLine, Goto, TypeOK, Roles, Threads
    <3> QED BY <3>4, <3>5
  <2> QED BY <1>19, <2>2, <2>3, <2>4 DEF HandleLine
<1>20. CASE Listed
  <2>1. Msg("command_result", asked) \in Messages
    BY <1>20, MsgTyped DEF Listed, Roles
  <2>2. <<Msg("command_result", asked)>> \in Seq(Messages)
    BY <2>1
  <2>3. /\ log_queue' \in Seq(Messages) /\ Len(log_queue') <= LogCapacity
        /\ dropped' \in BOOLEAN /\ lost' \subseteq Commands
    BY <1>20, <2>2, EnqueueTyped DEF Listed
  <2>4. TypeOK'
    BY <1>20, <2>3 DEF Listed, Goto, TypeOK, Labels, Threads
  <2>5. Roles'
    BY <1>20 DEF Listed, Goto, TypeOK, Roles, Threads
  <2> QED BY <2>4, <2>5
<1> QED BY <1>1, <1>2, <1>3, <1>4, <1>5, <1>6, <1>7, <1>8, <1>9, <1>10, <1>11, <1>12, <1>13,
           <1>14, <1>15, <1>16, <1>17, <1>18, <1>19, <1>20
        DEF Next, Drain, App, Accept, Reader

LEMMA SessionTyping == Spec => []TypeInv
<1>1. Init => TypeInv
  <2>1. <<>> \in Seq(Messages) /\ <<>> \in Seq(Commands) /\ <<>> \in Seq(Bytes) /\ Len(<<>>) = 0
    BY EmptySeq
  <2> SUFFICES ASSUME Init PROVE TypeInv
    OBVIOUS
  <2>2. LogCapacity \in Nat /\ CmdCapacity \in Nat /\ 0 \in 0 .. MaxLogs
    BY CapacityAssumption, InputAssumption
  <2>3. tosend \in [Conns -> Seq(Bytes)] /\ wire \in [Conns -> Seq(Messages)]
    BY <2>1, InputAssumption DEF Init, Bytes
  <2>4. TypeOK
    <3>1. /\ log_queue \in Seq(Messages) /\ Len(log_queue) <= LogCapacity
          /\ cmd_queue \in Seq(Commands) /\ Len(cmd_queue) <= CmdCapacity
          /\ executed \in Seq(Commands) /\ {recv_buf, chunk, read} \subseteq Seq(Bytes)
      BY <2>1, <2>2 DEF Init
    <3>2. /\ pc \in [Threads -> Labels] /\ held \in [Threads -> Messages \cup {NONE}]
          /\ conn \in [accept : Conns \cup {NONE}, reader : Conns \cup {NONE}, came : SUBSET Conns]
      BY DEF Init, Threads, Labels
    <3> QED BY <2>2, <2>3, <3>1, <3>2 DEF Init, TypeOK
  <2>5. Roles
    BY DEF Init, Roles, Threads
  <2> QED BY <2>4, <2>5 DEF TypeInv
<1>2. TypeInv /\ [Next]_vars => TypeInv'
  <2>1. ASSUME TypeInv, UNCHANGED vars PROVE TypeInv'
    BY <2>1 DEF vars, queues, hist, TypeInv, TypeOK, Roles
  <2> QED BY <2>1, TypesNext
<1> QED BY <1>1, <1>2, PTL DEF Spec

(* Every variable keeps its type, and the rings stay within their capacities *)
(* (inspector.cpp): in particular update() always has a command to execute,  *)
(* and a thread that sends holds a message.                                  *)
THEOREM SessionTypes == Spec => []TypeOK
<1>1. TypeInv => TypeOK
  BY DEF TypeInv
<1> QED BY <1>1, SessionTyping, PTL

-----------------------------------------------------------------------------
(* What is in the reader's buffers is the end of what was read. *)

Done == Len(read) - Len(recv_buf) - Len(chunk)

Emptied == {"idle", "read", "line", "list", "disconnect"}
InTouch == {"take", "send", "connect", "handshake"}

TailInv ==
    /\ Done >= 0
    /\ \A i \in 1 .. Len(recv_buf) : recv_buf[i] = read[Done + i]
    /\ \A i \in 1 .. Len(chunk) : chunk[i] = read[Done + Len(recv_buf) + i]
    /\ pc["reader"] \in Emptied => chunk = <<>>
    /\ pc["accept"] \in InTouch => pc["reader"] = "idle"

\* Where the reader goes, who starts it, and what moves the bytes.
LEMMA ReaderMoves ==
  ASSUME TypeInv, TailInv, Next
  PROVE  /\ pc'["accept"] \in InTouch => pc'["reader"] = "idle"
         /\ \/ Read \/ AppendData \/ HandleLine
            \/ /\ UNCHANGED <<recv_buf, chunk, read, tosend>>
               /\ pc'["reader"] \in Emptied => pc["reader"] \in Emptied
<1> USE DEF TypeInv, TypeOK, Roles, TailInv, Threads, Goto, Emptied, InTouch
<1>1. ASSUME NEW t \in Threads, Drain(t) PROVE
          /\ pc'["accept"] \in InTouch => pc["accept"] \in InTouch
          /\ pc["reader"] = "idle" => pc'["reader"] = "idle"
          /\ pc'["reader"] \in Emptied => pc'["reader"] = pc["reader"]
          /\ UNCHANGED <<recv_buf, chunk, read, tosend>>
  <2>1. CASE Take(t)
    BY <1>1, <2>1 DEF Take, hist
  <2>2. CASE SendHeld(t)
    BY <1>1, <2>2 DEF SendHeld
  <2>3. CASE WarnDrops(t)
    BY <1>1, <2>3 DEF WarnDrops, After
  <2> QED BY <1>1, <2>1, <2>2, <2>3 DEF Drain
<1>2. CASE Read
  BY <1>2 DEF Read
<1>3. CASE Flush \/ AppLog \/ App
  BY <1>3 DEF Flush, AppLog, App, Update, Exec, Result, UpdateReturns, queues, hist
<1>4. CASE Accept
  BY <1>4 DEF Accept, Install, SetConnected, Handshake, Rest
<1>5. ASSUME NEW c \in Conns, Connect(c) PROVE
          /\ pc'["accept"] = "join" /\ pc'["reader"] = pc["reader"]
          /\ UNCHANGED <<recv_buf, chunk, read, tosend>>
  BY <1>5 DEF Connect, Rest
<1>6. CASE ReadFails \/ Disconnect \/ NoMoreLines \/ Listed
  BY <1>6 DEF ReadFails, Disconnect, NoMoreLines, Listed, queues, hist
<1>7. CASE AppendData
  BY <1>7 DEF AppendData
<1>8. CASE HandleLine
  BY <1>8 DEF HandleLine, Eval, ListBindings, Other
<1> QED BY <1>1, <1>2, <1>3, <1>4, <1>5, <1>6, <1>7, <1>8 DEF Next, Reader

\* Nothing handled comes back, and a line is taken off where handling has got to.
LEMMA TailNext ==
  ASSUME TypeInv, TypeInv', TailInv, Next
  PROVE  /\ TailInv' /\ Done \in Nat /\ Done' \in Nat /\ Done <= Done' /\ Done <= Len(read)
         /\ \A k \in 1 .. Done : read'[k] = read[k]
         /\ ~HandleLine => Done' = Done
         /\ HandleLine => /\ Done' = Done + NewLine
                          /\ \A i \in 1 .. NewLine : read'[Done + i] = recv_buf[i]
<1> DEFINE n == Len(read)
           m == Len(recv_buf)
           l == Len(chunk)
<1>0. /\ {recv_buf, chunk, read, recv_buf', chunk', read'} \subseteq Seq(Bytes)
      /\ n \in Nat /\ m \in Nat /\ l \in Nat /\ n' \in Nat /\ m' \in Nat /\ l' \in Nat
  BY LenProperties DEF TypeInv, TypeOK
<1>1. Done = n - m - l /\ Done' = n' - m' - l' /\ Done \in Nat /\ Done <= n
  BY <1>0 DEF Done, TailInv
<1>2. pc'["accept"] \in InTouch => pc'["reader"] = "idle"
  BY ReaderMoves
<1>3. CASE Read
  <2>1. /\ pc["reader"] = "read" /\ pc'["reader"] = "take" /\ recv_buf' = recv_buf
    BY <1>3 DEF Read, Goto, TypeInv, TypeOK, Threads
  <2>2. chunk = <<>> /\ l = 0
    BY <2>1 DEF TailInv, Emptied
  <2>3. read' = read \o chunk'
    BY <1>3 DEF Read
  <2>4. /\ n' = n + l'
        /\ \A i \in 1 .. n + l' : read'[i] = IF i <= n THEN read[i] ELSE chunk'[i - n]
    BY <1>0, <2>3, ConcatProperties
  <2>5. Done' = Done
    BY <1>0, <1>1, <2>1, <2>2, <2>4
  <2>6. \A k \in 1 .. n : read'[k] = read[k]
    BY <1>0, <2>4
  <2>7. \A i \in 1 .. m : recv_buf'[i] = read'[Done + i]
    <3> SUFFICES ASSUME NEW i \in 1 .. m PROVE recv_buf[i] = read'[Done + i]
      BY <2>1
    <3>1. Done + i \in 1 .. n /\ recv_buf[i] = read[Done + i]
      BY <1>0, <1>1, <2>2 DEF TailInv
    <3> QED BY <2>6, <3>1
  <2>8. \A i \in 1 .. l' : chunk'[i] = read'[Done + m + i]
    <3> SUFFICES ASSUME NEW i \in 1 .. l' PROVE chunk'[i] = read'[Done + m + i]
      OBVIOUS
    <3>1. Done + m = n
      BY <1>0, <1>1, <2>2
    <3>2. n + i \in 1 .. n + l' /\ ~(n + i <= n) /\ (n + i) - n = i
      BY <1>0
    <3> QED BY <2>4, <3>1, <3>2
  <2>9. ~HandleLine
    BY <2>1 DEF HandleLine
  <2>10. TailInv'
    BY <1>1, <1>2, <2>1, <2>5, <2>7, <2>8 DEF TailInv, Emptied
  <2>11. \A k \in 1 .. Done : read'[k] = read[k]
    BY <1>1, <1>0, <2>6
  <2>12. Done' \in Nat /\ Done <= Done'
    BY <1>1, <2>5
  <2> QED BY <1>1, <2>5, <2>9, <2>10, <2>11, <2>12
<1>4. CASE AppendData
  <2>1. /\ recv_buf' = recv_buf \o chunk /\ chunk' = <<>> /\ read' = read
    BY <1>4 DEF AppendData, hist
  <2>2. /\ m' = m + l /\ l' = 0 /\ n' = n
        /\ \A i \in 1 .. m + l : recv_buf'[i] = IF i <= m THEN recv_buf[i] ELSE chunk[i - m]
    BY <1>0, <2>1, ConcatProperties
  <2>3. Done' = Done
    BY <1>0, <1>1, <2>2
  <2>4. \A i \in 1 .. m' : recv_buf'[i] = read[Done + i]
    <3> SUFFICES ASSUME NEW i \in 1 .. m + l PROVE recv_buf'[i] = read[Done + i]
      BY <2>2
    <3>1. CASE i <= m
      <4>1. i \in 1 .. m
        BY <1>0, <3>1
      <4> QED BY <2>2, <3>1, <4>1 DEF TailInv
    <3>2. CASE ~(i <= m)
      <4>1. i - m \in 1 .. l /\ Done + m + (i - m) = Done + i
        BY <1>0, <1>1, <3>2
      <4>2. chunk[i - m] = read[Done + m + (i - m)]
        BY <4>1 DEF TailInv
      <4>3. recv_buf'[i] = chunk[i - m]
        BY <2>2, <3>2
      <4> QED BY <4>1, <4>2, <4>3
    <3> QED BY <3>1, <3>2
  <2>5. TailInv'
    <3>1. \A i \in 1 .. l' : chunk'[i] = read'[Done' + m' + i]
      BY <2>2
    <3>2. \A i \in 1 .. m' : recv_buf'[i] = read'[Done' + i]
      BY <2>1, <2>3, <2>4
    <3> QED BY <1>1, <1>2, <2>1, <2>3, <3>1, <3>2 DEF TailInv
  <2>6. ~HandleLine
    BY <1>4 DEF AppendData, HandleLine
  <2> QED BY <1>1, <2>1, <2>3, <2>5, <2>6
<1>5. CASE HandleLine
  <2>1. /\ NewLine > 0 /\ Cut /\ read' = read /\ chunk' = chunk
        /\ pc["reader"] = "line"
    BY <1>5 DEF HandleLine
  <2>2. NewLine \in 1 .. m
    BY <1>0, <2>1, NewLineFound
  <2>3. /\ m' = m - NewLine
        /\ \A i \in 1 .. m' : recv_buf'[i] = recv_buf[NewLine + i]
    BY <2>1, CutFacts DEF TypeInv
  <2>4. Done' = Done + NewLine /\ Done' \in Nat /\ Done <= Done'
    BY <1>0, <1>1, <2>1, <2>2, <2>3
  <2>5. ASSUME NEW i \in 1 .. m' PROVE recv_buf'[i] = read'[Done' + i]
    <3>0. /\ NewLine \in Int /\ NewLine > 0 /\ i \in Int /\ i > 0
          /\ i <= m - NewLine /\ m \in Int /\ Done \in Int
      BY <1>0, <1>1, <2>2, <2>3
    <3>1. NewLine + i \in 1 .. m /\ Done + (NewLine + i) = Done' + i
      BY <2>4, <3>0
    <3>2. recv_buf[NewLine + i] = read[Done + (NewLine + i)]
      BY <3>1 DEF TailInv
    <3> QED BY <2>1, <2>3, <3>1, <3>2
  <2>6. \A i \in 1 .. l' : chunk'[i] = read'[Done' + m' + i]
    <3>1. chunk = <<>> /\ l' = 0
      BY <2>1 DEF TailInv, Emptied
    <3> QED BY <3>1
  <2>7. chunk' = <<>>
    BY <2>1 DEF TailInv, Emptied
  <2>8. TailInv'
    BY <1>2, <2>4, <2>5, <2>6, <2>7 DEF TailInv
  <2>9. ASSUME NEW i \in 1 .. NewLine PROVE read'[Done + i] = recv_buf[i]
    <3>1. i \in 1 .. m
      BY <1>0, <2>2
    <3> QED BY <2>1, <3>1 DEF TailInv
  <2>10. \A k \in 1 .. Done : read'[k] = read[k]
    BY <2>1
  <2> QED BY <1>1, <1>5, <2>4, <2>8, <2>9, <2>10
<1>6. CASE /\ UNCHANGED <<recv_buf, chunk, read, tosend>> /\ ~HandleLine
           /\ pc'["reader"] \in Emptied => pc["reader"] \in Emptied
  <2>1. recv_buf' = recv_buf /\ chunk' = chunk /\ read' = read /\ Done' = Done
    BY <1>6 DEF Done
  <2>2. TailInv'
    BY <1>2, <1>6, <2>1 DEF TailInv
  <2> QED BY <1>1, <1>6, <2>1, <2>2
<1> QED BY <1>3, <1>4, <1>5, <1>6, ReaderMoves

-----------------------------------------------------------------------------
(* The way of a script: cmd_queue, the hands of update(), exec(). *)

\* The scripts of e, then s while it is about to be executed, then those of q.
Lineup(e, place, s, q) == (e \o (IF place = "exec" THEN <<s>> ELSE <<>>)) \o q

Pipeline == Lineup(executed, pc["app"], script, cmd_queue)

LEMMA PipelineTyped ==
  ASSUME TypeInv
  PROVE  /\ Pipeline \in Seq(Commands) /\ Len(executed) <= Len(Pipeline)
         /\ Len(Pipeline) \in Nat /\ Len(executed) \in Nat
         /\ \A i \in 1 .. Len(executed) : Pipeline[i] = executed[i]
<1> DEFINE h == IF pc["app"] = "exec" THEN <<script>> ELSE <<>>
           f == executed \o h
<1>1. executed \in Seq(Commands) /\ cmd_queue \in Seq(Commands)
  BY DEF TypeInv, TypeOK
<1>2. h \in Seq(Commands)
  BY DEF TypeInv, Roles
<1> HIDE DEF h
<1>3. /\ f \in Seq(Commands) /\ Len(f) = Len(executed) + Len(h)
      /\ \A i \in 1 .. Len(executed) + Len(h) :
             f[i] = IF i <= Len(executed) THEN executed[i] ELSE h[i - Len(executed)]
  BY <1>1, <1>2, ConcatProperties
<1> HIDE DEF f
<1>4. /\ Pipeline \in Seq(Commands) /\ Len(Pipeline) = Len(f) + Len(cmd_queue)
      /\ \A i \in 1 .. Len(f) + Len(cmd_queue) :
             Pipeline[i] = IF i <= Len(f) THEN f[i] ELSE cmd_queue[i - Len(f)]
  <2>1. Pipeline = f \o cmd_queue
    BY DEF Pipeline, Lineup, f, h
  <2>2. f \in Seq(Commands)
    BY <1>3
  <2> QED BY <1>1, <2>1, <2>2, ConcatProperties
<1>5. /\ Len(executed) \in Nat /\ Len(h) \in Nat /\ Len(cmd_queue) \in Nat
      /\ Len(f) \in Nat /\ Len(Pipeline) \in Nat
  BY <1>1, <1>2, <1>3, <1>4, LenProperties
<1>6. ASSUME NEW i \in 1 .. Len(executed) PROVE Pipeline[i] = executed[i]
  <2>1. /\ i \in 1 .. Len(executed) + Len(h) /\ i <= Len(executed)
        /\ i \in 1 .. Len(f) + Len(cmd_queue) /\ i <= Len(f)
    BY <1>3, <1>5
  <2> QED BY <1>3, <1>4, <2>1
<1>7. Len(executed) <= Len(Pipeline)
  BY <1>3, <1>4, <1>5
<1> QED BY <1>4, <1>5, <1>6, <1>7

LEMMA HeadFirst ==
  ASSUME NEW q \in Seq(Commands), q # <<>>
  PROVE  <<Head(q)>> \o Tail(q) = q
<1>1. /\ Head(q) \in Commands /\ Tail(q) \in Seq(Commands) /\ Len(Tail(q)) = Len(q) - 1
      /\ \A i \in 1 .. Len(Tail(q)) : Tail(q)[i] = q[i + 1]
      /\ Head(q) = q[1] /\ Len(q) \in Nat
  BY HeadTailProperties, LenProperties
<1> DEFINE h == <<Head(q)>>
           s == h \o Tail(q)
<1>2. h \in Seq(Commands) /\ Len(h) = 1 /\ h[1] = q[1]
  BY <1>1
<1> HIDE DEF h
<1>3. /\ s \in Seq(Commands) /\ Len(s) = 1 + Len(Tail(q))
      /\ \A i \in 1 .. 1 + Len(Tail(q)) : s[i] = IF i <= 1 THEN h[i] ELSE Tail(q)[i - 1]
  <2>1. Tail(q) \in Seq(Commands)
    BY <1>1
  <2>2. /\ s \in Seq(Commands) /\ Len(s) = Len(h) + Len(Tail(q))
        /\ \A i \in 1 .. Len(h) + Len(Tail(q)) :
               s[i] = IF i <= Len(h) THEN h[i] ELSE Tail(q)[i - Len(h)]
    BY <1>2, <2>1, ConcatProperties
  <2> QED BY <1>2, <2>2
<1> HIDE DEF s
<1>4. ASSUME NEW i \in 1 .. Len(s) PROVE s[i] = q[i]
  <2>1. CASE i = 1
    BY <1>1, <1>2, <1>3, <2>1
  <2>2. CASE i # 1
    <3>1. i - 1 \in 1 .. Len(Tail(q)) /\ i \in 1 .. 1 + Len(Tail(q)) /\ ~(i <= 1) /\ (i - 1) + 1 = i
      BY <1>1, <1>3, <2>2
    <3> QED BY <1>1, <1>3, <3>1
  <2> QED BY <2>1, <2>2
<1>5. Len(s) = Len(q)
  BY <1>1, <1>3
<1>6. s = q
  BY <1>3, <1>4, <1>5, SeqEqual
<1> QED BY <1>6 DEF s, h

\* Only Eval changes it, by a command at its end.
LEMMA PipelineNext ==
  ASSUME TypeInv, Next
  PROVE  \/ Pipeline' = Pipeline
         \/ HandleLine /\ Parsed = "repl_eval" /\ Pipeline' = Append(Pipeline, Line[1])
<1> USE DEF TypeInv
<1> DEFINE h == IF pc["app"] = "exec" THEN <<script>> ELSE <<>>
<1>0. /\ executed \in Seq(Commands) /\ cmd_queue \in Seq(Commands) /\ h \in Seq(Commands)
      /\ executed \o h \in Seq(Commands)
  <2>1. executed \in Seq(Commands) /\ cmd_queue \in Seq(Commands) /\ h \in Seq(Commands)
    BY DEF TypeOK, Roles
  <2> HIDE DEF h
  <2> QED BY <2>1, ConcatProperties
<1>1. CASE Update
  <2>1. /\ cmd_queue # <<>> /\ script' = Head(cmd_queue) /\ cmd_queue' = Tail(cmd_queue)
        /\ pc["app"] # "exec" /\ pc'["app"] = "exec" /\ executed' = executed
    BY <1>1 DEF Update, Goto, TypeOK, Threads
  <2> DEFINE x == <<Head(cmd_queue)>>
  <2>2. x \in Seq(Commands) /\ Tail(cmd_queue) \in Seq(Commands)
    BY <1>0, <2>1, HeadTailProperties
  <2>3. x \o Tail(cmd_queue) = cmd_queue
    BY <1>0, <2>1, HeadFirst
  <2>4. Pipeline' = (executed \o x) \o Tail(cmd_queue)
    BY <2>1 DEF Pipeline, Lineup
  <2>5. Pipeline = executed \o cmd_queue
    <3>1. executed \o <<>> = executed
      BY <1>0, ConcatEmptySeq
    <3> QED BY <2>1, <3>1 DEF Pipeline, Lineup
  <2> HIDE DEF x
  <2>6. (executed \o x) \o Tail(cmd_queue) = executed \o (x \o Tail(cmd_queue))
    BY <1>0, <2>2, ConcatAssociative
  <2> QED BY <2>3, <2>4, <2>5, <2>6
<1>2. CASE Exec
  <2>1. /\ executed' = Append(executed, script) /\ cmd_queue' = cmd_queue
        /\ pc["app"] = "exec" /\ pc'["app"] = "result"
    BY <1>2 DEF Exec, Goto, queues, TypeOK, Threads
  <2>2. script \in Commands
    BY <2>1 DEF Roles
  <2>3. Append(executed, script) = executed \o <<script>> /\ Append(executed, script) \in Seq(Commands)
    BY <1>0, <2>2, AppendIsConcat, AppendProperties
  <2>4. Append(executed, script) \o <<>> = Append(executed, script)
    BY <2>3, ConcatEmptySeq
  <2>5. Pipeline' = (Append(executed, script) \o <<>>) \o cmd_queue
    BY <2>1 DEF Pipeline, Lineup
  <2>6. Pipeline = (executed \o <<script>>) \o cmd_queue
    BY <2>1 DEF Pipeline, Lineup
  <2> QED BY <2>3, <2>4, <2>5, <2>6
<1>3. CASE HandleLine
  <2>1. executed' = executed /\ script' = script
    BY <1>3 DEF HandleLine
  <2>2. pc'["app"] = pc["app"]
    BY <1>3 DEF HandleLine, Eval, ListBindings, Other, Goto, TypeOK, Threads
  <2>3. CASE cmd_queue' = cmd_queue
    BY <2>1, <2>2, <2>3 DEF Pipeline
  <2>4. CASE cmd_queue' # cmd_queue
    <3>1. Parsed = "repl_eval" /\ cmd_queue' = Append(cmd_queue, Line[1])
      BY <1>3, <2>4 DEF HandleLine, Eval, ListBindings, Other, queues
    <3>2. Line[1] \in Commands
      BY <1>3, <3>1, LineFacts DEF HandleLine
    <3>3. /\ Append(cmd_queue, Line[1]) = cmd_queue \o <<Line[1]>>
          /\ <<Line[1]>> \in Seq(Commands)
      BY <1>0, <3>2, AppendIsConcat
    <3>4. Pipeline = (executed \o h) \o cmd_queue /\ Pipeline \in Seq(Commands)
      BY PipelineTyped DEF Pipeline, Lineup
    <3>5. Pipeline' = (executed \o h) \o cmd_queue'
      BY <2>1, <2>2 DEF Pipeline, Lineup
    <3> DEFINE f == executed \o h
    <3>6. f \in Seq(Commands)
      BY <1>0
    <3> HIDE DEF f
    <3>7. (f \o cmd_queue) \o <<Line[1]>> = f \o (cmd_queue \o <<Line[1]>>)
      BY <1>0, <3>3, <3>6, ConcatAssociative
    <3>8. Pipeline' = Pipeline \o <<Line[1]>>
      BY <3>1, <3>3, <3>4, <3>5, <3>7 DEF f
    <3>9. Append(Pipeline, Line[1]) = Pipeline \o <<Line[1]>>
      BY <3>2, <3>4, AppendIsConcat
    <3> QED BY <1>3, <3>1, <3>8, <3>9
  <2> QED BY <2>3, <2>4
<1>4. CASE /\ UNCHANGED <<executed, cmd_queue>>
           /\ \/ pc'["app"] = pc["app"] /\ script' = script
              \/ pc["app"] # "exec" /\ pc'["app"] # "exec"
  BY <1>4 DEF Pipeline, Lineup
<1>5. ASSUME NEW t \in Threads, Drain(t)
      PROVE  /\ UNCHANGED <<executed, cmd_queue, script>>
             /\ \/ pc'["app"] = pc["app"]
                \/ pc["app"] # "exec" /\ pc'["app"] # "exec"
  <2>1. CASE Take(t)
    BY <1>5, <2>1 DEF Take, hist, Goto, TypeOK, Threads
  <2>2. CASE SendHeld(t)
    BY <1>5, <2>2 DEF SendHeld, queues, Goto, TypeOK, Threads
  <2>3. CASE WarnDrops(t)
    BY <1>5, <2>3 DEF WarnDrops, After, Goto, TypeOK, Threads
  <2> QED BY <1>5, <2>1, <2>2, <2>3 DEF Drain
<1>6. CASE Flush \/ AppLog \/ Result \/ UpdateReturns
  <2>1. /\ UNCHANGED <<executed, cmd_queue>>
        /\ \/ pc'["app"] = pc["app"] /\ script' = script
           \/ pc["app"] # "exec" /\ pc'["app"] # "exec"
    BY <1>6 DEF Flush, AppLog, Result, UpdateReturns, queues, hist, Goto, TypeOK, Threads
  <2> QED BY <1>4, <2>1
<1>7. CASE Accept \/ Read \/ ReadFails \/ Disconnect \/ AppendData \/ NoMoreLines \/ Listed
  <2>1. UNCHANGED <<executed, cmd_queue, script>> /\ pc'["app"] = pc["app"]
    BY <1>7 DEF Accept, Install, SetConnected, Handshake, Read, ReadFails, Disconnect, AppendData,
                NoMoreLines, Listed, Rest, queues, hist, Goto, TypeOK, Threads
  <2> QED BY <1>4, <2>1
<1>8. ASSUME NEW c \in Conns, Connect(c)
      PROVE  UNCHANGED <<executed, cmd_queue, script>> /\ pc'["app"] = pc["app"]
  BY <1>8 DEF Connect, Rest, Goto, TypeOK, Threads
<1> HIDE DEF TypeInv
<1> QED BY <1>1, <1>2, <1>3, <1>4, <1>5, <1>6, <1>7, <1>8 DEF Next, App, Reader

-----------------------------------------------------------------------------
(* The order. *)

\* Scripts were read before those behind them in the pipeline, and all of them
\* in the part of the input that has been handled.
OrderInv ==
    /\ \A i \in 1 .. Len(Pipeline) : \E k \in 1 .. Done : read[k] = Pipeline[i]
    /\ \A i, j \in 1 .. Len(Pipeline) : i < j =>
           \E k, l \in 1 .. Done : k < l /\ read[k] = Pipeline[i] /\ read[l] = Pipeline[j]

LEMMA OrderNext ==
  ASSUME TypeInv, TypeInv', TailInv, OrderInv, Next PROVE OrderInv'
<1>1. /\ Done \in Nat /\ Done' \in Nat /\ Done <= Done'
      /\ \A k \in 1 .. Done : read'[k] = read[k]
  BY TailNext
<1>2. ASSUME NEW k \in 1 .. Done PROVE k \in 1 .. Done' /\ read'[k] = read[k]
  BY <1>1
<1>3. CASE Pipeline' = Pipeline
  <2>1. ASSUME NEW i \in 1 .. Len(Pipeline) PROVE \E k \in 1 .. Done' : read'[k] = Pipeline[i]
    <3>1. PICK k \in 1 .. Done : read[k] = Pipeline[i]
      BY DEF OrderInv
    <3> QED BY <1>2, <3>1
  <2>2. ASSUME NEW i \in 1 .. Len(Pipeline), NEW j \in 1 .. Len(Pipeline), i < j
        PROVE  \E k, l \in 1 .. Done' : k < l /\ read'[k] = Pipeline[i] /\ read'[l] = Pipeline[j]
    <3>1. PICK k \in 1 .. Done, l \in 1 .. Done :
              k < l /\ read[k] = Pipeline[i] /\ read[l] = Pipeline[j]
      BY <2>2 DEF OrderInv
    <3> QED BY <1>2, <3>1
  <2> QED BY <1>3, <2>1, <2>2 DEF OrderInv
<1>4. CASE HandleLine /\ Parsed = "repl_eval" /\ Pipeline' = Append(Pipeline, Line[1])
  <2> DEFINE n == Len(Pipeline)
             P == Pipeline'
  <2>1. /\ NewLine = 2 /\ Line[1] = recv_buf[1] /\ Line[1] \in Commands
        /\ Done' = Done + NewLine /\ \A i \in 1 .. NewLine : read'[Done + i] = recv_buf[i]
    BY <1>4, LineFacts, TailNext DEF HandleLine, TypeInv
  <2>2. Done + 1 \in 1 .. Done' /\ read'[Done + 1] = Line[1]
    <3>1. Done + 1 \in 1 .. Done' /\ 1 \in 1 .. NewLine
      BY <1>1, <2>1
    <3> QED BY <2>1, <3>1
  <2>3. /\ Len(P) = n + 1 /\ n \in Nat /\ P[n + 1] = Line[1]
        /\ \A i \in 1 .. n : P[i] = Pipeline[i]
    BY <1>4, <2>1, PipelineTyped, AppendProperties
  <2> HIDE DEF P
  <2>4. ASSUME NEW i \in 1 .. n PROVE \E k \in 1 .. Done : k \in 1 .. Done' /\ read'[k] = P[i]
    <3>1. PICK k \in 1 .. Done : read[k] = Pipeline[i]
      BY DEF OrderInv
    <3> QED BY <1>2, <2>3, <3>1
  <2>5. ASSUME NEW i \in 1 .. Len(P) PROVE \E k \in 1 .. Done' : read'[k] = P[i]
    <3>1. i \in 1 .. n \/ i = n + 1
      BY <2>3
    <3> QED BY <2>2, <2>3, <2>4, <3>1
  <2>6. ASSUME NEW i \in 1 .. Len(P), NEW j \in 1 .. Len(P), i < j
        PROVE  \E k, l \in 1 .. Done' : k < l /\ read'[k] = P[i] /\ read'[l] = P[j]
    <3>1. i \in 1 .. n /\ (j \in 1 .. n \/ j = n + 1)
      BY <2>3, <2>6
    <3>2. CASE j \in 1 .. n
      <4>1. PICK k \in 1 .. Done, l \in 1 .. Done :
                k < l /\ read[k] = Pipeline[i] /\ read[l] = Pipeline[j]
        BY <2>6, <3>1, <3>2 DEF OrderInv
      <4> QED BY <1>2, <2>3, <3>1, <3>2, <4>1
    <3>3. CASE j = n + 1
      <4>1. PICK k \in 1 .. Done : k \in 1 .. Done' /\ read'[k] = P[i]
        BY <2>4, <3>1
      <4>2. k < Done + 1
        BY <1>1
      <4> QED BY <2>2, <2>3, <3>3, <4>1, <4>2
    <3> QED BY <3>1, <3>2, <3>3
  <2> QED BY <2>5, <2>6 DEF OrderInv, P
<1> QED BY <1>3, <1>4, PipelineNext

-----------------------------------------------------------------------------
(* Commands that differ where they are sent differ where they are read. *)

DifferentCommands ==
    \A c, d \in Conns : \A i \in 1 .. Len(Stream[c]), j \in 1 .. Len(Stream[d]) :
        Stream[c][i] = Stream[d][j] /\ Stream[c][i] # NL => c = d /\ i = j

DistinctInv ==
    /\ \A i, j \in 1 .. Len(read) : read[i] = read[j] /\ read[i] # NL => i = j
    /\ \A c, d \in Conns : \A i \in 1 .. Len(tosend[c]), j \in 1 .. Len(tosend[d]) :
           tosend[c][i] = tosend[d][j] /\ tosend[c][i] # NL => c = d /\ i = j
    /\ \A c \in Conns : \A i \in 1 .. Len(tosend[c]), j \in 1 .. Len(read) :
           tosend[c][i] = read[j] => tosend[c][i] = NL

LEMMA DistinctNext ==
  ASSUME TypeInv, TailInv, DistinctInv, Next PROVE DistinctInv'
<1>1. CASE UNCHANGED <<read, tosend>>
  BY <1>1 DEF DistinctInv
<1>2. CASE Read
  <2> DEFINE c == conn["reader"]
             b == tosend[c]
             n == Len(read)
             k == Len(chunk')
  <2>1. /\ c \in Conns /\ k \in 1 .. Len(b)
        /\ chunk' \in Seq(Bytes) /\ read' = read \o chunk'
        /\ \A i \in 1 .. k : chunk'[i] = b[i]
        /\ tosend' = [tosend EXCEPT ![c] = tosend'[c]]
        /\ Len(tosend'[c]) = Len(b) - k
        /\ \A i \in 1 .. Len(tosend'[c]) : tosend'[c][i] = b[k + i]
    BY <1>2, ReadFacts
  <2>2. read \in Seq(Bytes) /\ b \in Seq(Bytes) /\ n \in Nat /\ k \in Nat /\ Len(b) \in Nat
    BY <2>1, LenProperties DEF TypeInv, TypeOK
  <2> HIDE DEF b, c
  <2>3. /\ Len(read') = n + k
        /\ \A i \in 1 .. n + k : read'[i] = IF i <= n THEN read[i] ELSE chunk'[i - n]
    BY <2>1, <2>2, ConcatProperties
  <2>4. ASSUME NEW i \in 1 .. Len(read')
        PROVE  \/ i \in 1 .. n /\ read'[i] = read[i]
               \/ i - n \in 1 .. k /\ i - n \in 1 .. Len(b) /\ read'[i] = b[i - n]
    <3>1. i \in 1 .. n + k
      BY <2>3
    <3>2. CASE i <= n
      <4>1. i \in 1 .. n
        BY <2>2, <3>1, <3>2
      <4> QED BY <2>3, <3>1, <3>2, <4>1
    <3>3. CASE ~(i <= n)
      <4>1. i - n \in 1 .. k /\ i - n \in 1 .. Len(b)
        BY <2>1, <2>2, <3>1, <3>3
      <4> QED BY <2>1, <2>3, <3>1, <3>3, <4>1
    <3> QED BY <3>2, <3>3
  <2>5. ASSUME NEW d \in Conns, NEW i \in 1 .. Len(tosend'[d])
        PROVE  \/ d # c /\ i \in 1 .. Len(tosend[d]) /\ tosend'[d][i] = tosend[d][i]
               \/ d = c /\ k + i \in k + 1 .. Len(b) /\ k + i \in 1 .. Len(b) /\ tosend'[d][i] = b[k + i]
    <3>1. CASE d # c
      <4>1. tosend'[d] = tosend[d]
        BY <2>1, <3>1 DEF TypeInv, TypeOK
      <4> QED BY <3>1, <4>1
    <3>2. CASE d = c
      <4>1. k + i \in k + 1 .. Len(b) /\ k + i \in 1 .. Len(b)
        <5>1. i \in 1 .. Len(b) - k
          BY <2>1, <3>2
        <5> QED BY <2>2, <5>1
      <4> QED BY <2>1, <3>2, <4>1
    <3> QED BY <3>1, <3>2
  <2>6. /\ \A i \in 1 .. Len(b), j \in 1 .. Len(b) : b[i] = b[j] /\ b[i] # NL => i = j
        /\ \A i \in 1 .. Len(b), j \in 1 .. n : b[i] = read[j] => b[i] = NL
        /\ \A d \in Conns : \A i \in 1 .. Len(b), j \in 1 .. Len(tosend[d]) :
               b[i] = tosend[d][j] /\ b[i] # NL => c = d
    BY <2>1 DEF DistinctInv, b
  <2>7. ASSUME NEW i \in 1 .. Len(read'), NEW j \in 1 .. Len(read'),
               read'[i] = read'[j], read'[i] # NL
        PROVE  i = j
    <3>1. CASE i \in 1 .. n /\ j \in 1 .. n /\ read'[i] = read[i] /\ read'[j] = read[j]
      BY <2>7, <3>1 DEF DistinctInv
    <3>2. CASE /\ i - n \in 1 .. Len(b) /\ read'[i] = b[i - n]
               /\ j - n \in 1 .. Len(b) /\ read'[j] = b[j - n]
      <4>1. i - n = j - n
        BY <2>6, <2>7, <3>2
      <4> QED BY <2>2, <2>3, <4>1
    <3>3. CASE \/ i \in 1 .. n /\ read'[i] = read[i] /\ j - n \in 1 .. Len(b) /\ read'[j] = b[j - n]
               \/ j \in 1 .. n /\ read'[j] = read[j] /\ i - n \in 1 .. Len(b) /\ read'[i] = b[i - n]
      BY <2>6, <2>7, <3>3
    <3> QED BY <2>4, <3>1, <3>2, <3>3
  <2>8. ASSUME NEW d \in Conns, NEW i \in 1 .. Len(tosend'[d]), NEW j \in 1 .. Len(read'),
               tosend'[d][i] = read'[j], tosend'[d][i] # NL
        PROVE  FALSE
    <3>1. CASE d # c /\ i \in 1 .. Len(tosend[d]) /\ tosend'[d][i] = tosend[d][i]
      <4>1. CASE j \in 1 .. n /\ read'[j] = read[j]
        BY <2>8, <3>1, <4>1 DEF DistinctInv
      <4>2. CASE j - n \in 1 .. Len(b) /\ read'[j] = b[j - n]
        BY <2>6, <2>8, <3>1, <4>2
      <4> QED BY <2>4, <4>1, <4>2
    <3>2. CASE k + i \in k + 1 .. Len(b) /\ k + i \in 1 .. Len(b) /\ tosend'[d][i] = b[k + i]
      <4>1. CASE j \in 1 .. n /\ read'[j] = read[j]
        BY <2>6, <2>8, <3>2, <4>1
      <4>2. CASE j - n \in 1 .. k /\ j - n \in 1 .. Len(b) /\ read'[j] = b[j - n]
        <5>1. k + i = j - n
          BY <2>6, <2>8, <3>2, <4>2
        <5> QED BY <2>2, <3>2, <4>2, <5>1
      <4> QED BY <2>4, <4>1, <4>2
    <3> QED BY <2>5, <3>1, <3>2
  <2>9. ASSUME NEW d \in Conns, NEW f \in Conns,
               NEW i \in 1 .. Len(tosend'[d]), NEW j \in 1 .. Len(tosend'[f]),
               tosend'[d][i] = tosend'[f][j], tosend'[d][i] # NL
        PROVE  d = f /\ i = j
    <3>1. CASE /\ d # c /\ i \in 1 .. Len(tosend[d]) /\ tosend'[d][i] = tosend[d][i]
               /\ f # c /\ j \in 1 .. Len(tosend[f]) /\ tosend'[f][j] = tosend[f][j]
      <4>1. \A x \in 1 .. Len(tosend[d]), y \in 1 .. Len(tosend[f]) :
                tosend[d][x] = tosend[f][y] /\ tosend[d][x] # NL => d = f /\ x = y
        BY DEF DistinctInv
      <4>2. tosend[d][i] = tosend[f][j] /\ tosend[d][i] # NL
        BY <2>9, <3>1
      <4> QED BY <3>1, <4>1, <4>2
    <3>2. CASE /\ d = c /\ k + i \in 1 .. Len(b) /\ tosend'[d][i] = b[k + i]
               /\ f = c /\ k + j \in 1 .. Len(b) /\ tosend'[f][j] = b[k + j]
      <4>1. k + i = k + j
        BY <2>6, <2>9, <3>2
      <4>2. i \in Int /\ j \in Int
        OBVIOUS
      <4> QED BY <2>2, <3>2, <4>1, <4>2
    <3>3. CASE \/ /\ d # c /\ i \in 1 .. Len(tosend[d]) /\ tosend'[d][i] = tosend[d][i]
                  /\ f = c /\ k + j \in 1 .. Len(b) /\ tosend'[f][j] = b[k + j]
               \/ /\ f # c /\ j \in 1 .. Len(tosend[f]) /\ tosend'[f][j] = tosend[f][j]
                  /\ d = c /\ k + i \in 1 .. Len(b) /\ tosend'[d][i] = b[k + i]
      BY <2>6, <2>9, <3>3
    <3> QED BY <2>5, <3>1, <3>2, <3>3
  <2> QED BY <2>7, <2>8, <2>9 DEF DistinctInv
<1>3. CASE AppendData
  BY <1>1, <1>3 DEF AppendData, hist
<1>4. CASE HandleLine
  BY <1>1, <1>4 DEF HandleLine
<1> QED BY <1>1, <1>2, <1>3, <1>4, ReaderMoves

(* update() executes scripts at most once each and in the order in which     *)
(* their bytes arrived (handle_data, cmd_queue, update), however these were  *)
(* cut into chunks, left in recv_buf by one client and continued by another, *)
(* and whatever the rings refuse.                                            *)
THEOREM ScriptsInOrder ==
  ASSUME DifferentCommands PROVE Spec => []ExecutedInOrder
<1> DEFINE Inv == TypeInv /\ TailInv /\ OrderInv /\ DistinctInv
<1>1. Init /\ TypeInv => TailInv /\ OrderInv /\ DistinctInv
  <2> SUFFICES ASSUME Init, TypeInv PROVE TailInv /\ OrderInv /\ DistinctInv
    OBVIOUS
  <2>1. Len(<<>>) = 0
    OBVIOUS
  <2>2. TailInv
    BY <2>1 DEF Init, TailInv, Done, Emptied, InTouch, Threads
  <2>3. Len(Pipeline) = 0
    <3>1. pc["app"] # "exec"
      BY DEF Init, Threads
    <3> QED BY <3>1 DEF Init, Pipeline, Lineup
  <2>4. OrderInv
    BY <2>3 DEF OrderInv
  <2>5. DistinctInv
    BY <2>1 DEF Init, DistinctInv, DifferentCommands
  <2> QED BY <2>2, <2>4, <2>5
<1>2. TypeInv /\ TypeInv' /\ TailInv /\ OrderInv /\ DistinctInv /\ [Next]_vars
          => TailInv' /\ OrderInv' /\ DistinctInv'
  <2>1. ASSUME TailInv, OrderInv, DistinctInv, UNCHANGED vars
        PROVE  TailInv' /\ OrderInv' /\ DistinctInv'
    <3>1. UNCHANGED <<recv_buf, chunk, read, tosend, pc, executed, script, cmd_queue>>
      BY <2>1 DEF vars, queues, hist
    <3>2. Done' = Done /\ Pipeline' = Pipeline
      BY <3>1 DEF Done, Pipeline
    <3>3. TailInv'
      BY <2>1, <3>1, <3>2 DEF TailInv
    <3>4. OrderInv'
      BY <2>1, <3>1, <3>2 DEF OrderInv
    <3>5. DistinctInv'
      BY <2>1, <3>1 DEF DistinctInv
    <3> QED BY <3>3, <3>4, <3>5
  <2>2. ASSUME TypeInv, TypeInv', TailInv, OrderInv, DistinctInv, Next
        PROVE  TailInv' /\ OrderInv' /\ DistinctInv'
    <3>1. TailInv'
      BY <2>2, TailNext
    <3>2. OrderInv'
      BY <2>2, OrderNext
    <3>3. DistinctInv'
      BY <2>2, DistinctNext
    <3> QED BY <3>1, <3>2, <3>3
  <2> QED BY <2>1, <2>2
<1>3. TypeInv /\ TailInv /\ OrderInv /\ DistinctInv => ExecutedInOrder
  <2> SUFFICES ASSUME TypeInv, TailInv, OrderInv, DistinctInv,
                      NEW i \in 1 .. Len(executed), NEW j \in 1 .. Len(executed), i < j
               PROVE  Position(executed[i]) < Position(executed[j])
    BY DEF ExecutedInOrder
  <2>1. /\ Pipeline[i] = executed[i] /\ Pipeline[j] = executed[j]
        /\ i \in 1 .. Len(Pipeline) /\ j \in 1 .. Len(Pipeline)
    BY PipelineTyped
  <2>2. PICK k \in 1 .. Done, l \in 1 .. Done :
            k < l /\ read[k] = executed[i] /\ read[l] = executed[j]
    BY <2>1 DEF OrderInv
  <2>3. /\ read \in Seq(Bytes) /\ executed \in Seq(Commands)
        /\ Len(read) \in Nat /\ Len(recv_buf) \in Nat /\ Len(chunk) \in Nat
    BY LenProperties DEF TypeInv, TypeOK
  <2>4. k \in 1 .. Len(read) /\ l \in 1 .. Len(read)
    BY <2>3 DEF Done
  <2>5. read[k] # NL /\ read[l] # NL
    BY <2>2, <2>3, ElementOfSeq, NoneAssumption
  <2>6. Position(read[k]) = k
    BY <2>3, <2>4, <2>5, PositionIs DEF DistinctInv
  <2>7. Position(read[l]) = l
    BY <2>3, <2>4, <2>5, PositionIs DEF DistinctInv
  <2> QED BY <2>2, <2>6, <2>7
<1> QED BY <1>1, <1>2, <1>3, SessionTyping, PTL DEF Spec

-----------------------------------------------------------------------------
(* Where a command is, kind of place by kind of place. *)

InCmdQueue(c) == {i \in DOMAIN cmd_queue : cmd_queue[i] = c}
InLogQueue(c) == {i \in DOMAIN log_queue : log_queue[i].of = c}
InHands(c)    == {t \in Threads : pc[t] = "send" /\ held[t].of = c}
OnWires(c)    == {ki \in Conns \X Nat : ki[2] \in DOMAIN wire[ki[1]] /\ wire[ki[1]][ki[2]].of = c}

Where(c) == {x \in {"cmd_queue"} : InCmdQueue(c) # {}}
            \cup {x \in {"log_queue"} : InLogQueue(c) # {}}
            \cup {x \in {"held"} : InHands(c) # {}}
            \cup {x \in {"wire"} : OnWires(c) # {}}
            \cup {x \in {"asked"} : asked = c}
            \cup {x \in {"script"} : script = c}
            \cup {x \in {"lost"} : c \in lost}

Sole(S) == \A x, y \in S : x = y

\* No two places of one kind, and no two kinds of place.
Alone(c) == /\ Sole(InCmdQueue(c)) /\ Sole(InLogQueue(c)) /\ Sole(InHands(c)) /\ Sole(OnWires(c))
            /\ Sole(Where(c))

\* A command was received, as far as the input has been handled.
Handled(c) ==
    \E i \in 1 .. Done - 1 :
        /\ read[i] = c /\ read[i + 1] = NL
        /\ i = 1 \/ read[i - 1] = NL

PlaceInv == \A c \in Commands : Alone(c) /\ (Where(c) # {} <=> c \in Answered /\ Handled(c))

\* A step that moves neither the command nor its answer.
Stays(c) ==
    /\ InCmdQueue(c)' = InCmdQueue(c) /\ InLogQueue(c)' = InLogQueue(c)
    /\ InHands(c)' = InHands(c) /\ OnWires(c)' = OnWires(c)
    /\ asked' = c <=> asked = c
    /\ script' = c <=> script = c
    /\ c \in lost' <=> c \in lost

\* What the network buffers hold at rest, and the hands of the reader and update().
Calm == {"idle", "read", "disconnect", "take", "send", "append"}

LineInv ==
    /\ Done > 0 => read[Done] = NL
    /\ pc["reader"] \in Calm => \A i \in 1 .. Len(recv_buf) : recv_buf[i] # NL
    /\ pc["reader"] # "list" => asked = NONE
    /\ pc["app"] \notin {"exec", "result"} => script = NONE

LEMMA SameWhere ==
  ASSUME NEW c, Stays(c) PROVE Where(c)' = Where(c) /\ (Alone(c) => Alone(c)')
<1>1. Where(c)' = Where(c)
  BY DEF Stays, Where
<1> QED BY <1>1 DEF Stays, Alone

\* Into log_queue go some of the messages, and the answers among the rest are lost.
LEMMA EnqueuePlaces ==
  ASSUME TypeOK, NEW msgs \in Seq(Messages), Enqueue(msgs),
         \A i, j \in DOMAIN msgs : IsAnswer(msgs[i]) /\ IsAnswer(msgs[j]) => i = j,
         NEW c \in Commands
  PROVE  /\ (\A i \in DOMAIN msgs : msgs[i].of # c) =>
                InLogQueue(c)' = InLogQueue(c) /\ (c \in lost' <=> c \in lost)
         /\ (\E i \in DOMAIN msgs : msgs[i].of = c) =>
                \/ c \in lost' /\ InLogQueue(c)' = InLogQueue(c)
                \/ /\ c \in lost' <=> c \in lost
                   /\ \E k : InLogQueue(c)' = InLogQueue(c) \cup {k}
<1>0. PICK n \in 0 .. Len(msgs) : \E p \in Picks(msgs, n) :
          /\ log_queue' = log_queue \o [i \in 1 .. n |-> msgs[p[i]]]
          /\ lost' = lost \cup ({msgs[i].of : i \in DOMAIN msgs \ Range(p)} \ {NONE})
  BY DEF Enqueue
<1>1. PICK p \in Picks(msgs, n) :
          /\ log_queue' = log_queue \o [i \in 1 .. n |-> msgs[p[i]]]
          /\ lost' = lost \cup ({msgs[i].of : i \in DOMAIN msgs \ Range(p)} \ {NONE})
  BY <1>0
<1> DEFINE s == [i \in 1 .. n |-> msgs[p[i]]]
           m == Len(log_queue)
<1>2. n \in Nat /\ m \in Nat /\ DOMAIN msgs = 1 .. Len(msgs) /\ DOMAIN log_queue = 1 .. m
  BY LenProperties DEF TypeOK
<1>3. p \in [1 .. n -> DOMAIN msgs] /\ \A i, j \in 1 .. n : i < j => p[i] < p[j]
  BY <1>1 DEF Picks
<1>4. \A i \in 1 .. n : p[i] \in DOMAIN msgs /\ msgs[p[i]] \in Messages /\ s[i] = msgs[p[i]]
  BY <1>3, ElementOfSeq, LenProperties
<1>5. s \in Seq(Messages) /\ Len(s) = n
  BY <1>2, <1>4, IsASeq
<1>6. log_queue \in Seq(Messages) /\ log_queue' = log_queue \o s
  BY <1>1 DEF TypeOK
<1> HIDE DEF s
<1>7. /\ log_queue' \in Seq(Messages) /\ Len(log_queue') = m + n
      /\ \A i \in 1 .. m + n : log_queue'[i] = IF i <= m THEN log_queue[i] ELSE s[i - m]
  BY <1>5, <1>6, ConcatProperties
<1>8. DOMAIN log_queue' = 1 .. m + n
  BY <1>7, LenProperties
<1> HIDE DEF m
<1>9. ASSUME NEW i \in 1 .. m PROVE i \in 1 .. m + n /\ log_queue'[i] = log_queue[i]
  <2>1. i \in 1 .. m + n /\ i <= m
    BY <1>2
  <2> QED BY <1>7, <2>1
<1>10. ASSUME NEW k \in 1 .. n
       PROVE  m + k \in 1 .. m + n /\ log_queue'[m + k] = msgs[p[k]]
  <2>1. m + k \in 1 .. m + n /\ ~(m + k <= m) /\ (m + k) - m = k
    BY <1>2
  <2> QED BY <1>4, <1>7, <2>1
<1>11. \A i \in 1 .. m + n : i \in 1 .. m \/ \E k \in 1 .. n : i = m + k
  <2> TAKE i \in 1 .. m + n
  <2>1. i \in 1 .. m \/ (i - m \in 1 .. n /\ i = m + (i - m))
    BY <1>2
  <2> QED BY <2>1
<1> DEFINE new == {i \in 1 .. m + n : \E k \in 1 .. n : i = m + k /\ msgs[p[k]].of = c}
<1>12. InLogQueue(c)' = InLogQueue(c) \cup new
  <2>1. /\ \A i : i \in InLogQueue(c)' <=> i \in 1 .. m + n /\ log_queue'[i].of = c
        /\ \A i : i \in InLogQueue(c) <=> i \in 1 .. m /\ log_queue[i].of = c
    BY <1>2, <1>8 DEF InLogQueue
  <2>2. ASSUME NEW i \in InLogQueue(c) PROVE i \in InLogQueue(c)'
    BY <1>9, <2>1
  <2>3. ASSUME NEW i \in new PROVE i \in InLogQueue(c)'
    BY <1>10, <2>1
  <2>4. ASSUME NEW i \in InLogQueue(c)', i \notin InLogQueue(c) PROVE i \in new
    <3>1. i \in 1 .. m + n /\ i \notin 1 .. m
      BY <1>9, <2>1, <2>4
    <3>2. PICK k \in 1 .. n : i = m + k
      BY <1>11, <3>1
    <3> QED BY <1>10, <2>1, <3>1, <3>2
  <2> HIDE DEF new
  <2> QED BY <2>2, <2>3, <2>4
<1>13. c # NONE
  BY NoneAssumption
<1>14. ASSUME \A i \in DOMAIN msgs : msgs[i].of # c
       PROVE  InLogQueue(c)' = InLogQueue(c) /\ (c \in lost' <=> c \in lost)
  <2>1. new = {}
    BY <1>4, <1>14
  <2>2. c \notin {msgs[i].of : i \in DOMAIN msgs \ Range(p)}
    BY <1>14
  <2> QED BY <1>1, <1>12, <2>1, <2>2
<1>15. ASSUME NEW a \in DOMAIN msgs, msgs[a].of = c
       PROVE  \/ c \in lost' /\ InLogQueue(c)' = InLogQueue(c)
              \/ /\ c \in lost' <=> c \in lost
                 /\ \E k : InLogQueue(c)' = InLogQueue(c) \cup {k}
  <2>1. \A i \in DOMAIN msgs : msgs[i].of = c => i = a
    BY <1>15 DEF IsAnswer
  <2>2. CASE a \in Range(p)
    <3>1. PICK k \in 1 .. n : p[k] = a
      BY <1>3, <2>2 DEF Range
    <3>2. \A l \in 1 .. n : p[l] = a => l = k
      <4> SUFFICES ASSUME NEW l \in 1 .. n, p[l] = a, l # k PROVE FALSE
        OBVIOUS
      <4>1. l < k \/ k < l
        BY <1>2
      <4>2. p[l] < p[k] \/ p[k] < p[l]
        BY <1>3, <4>1
      <4>3. p[k] \in Int
        BY <1>2, <1>4
      <4> QED BY <3>1, <4>2, <4>3
    <3>3. new = {m + k}
      BY <1>4, <1>10, <1>15, <2>1, <3>1, <3>2
    <3>4. c \notin {msgs[i].of : i \in DOMAIN msgs \ Range(p)}
      BY <2>1, <2>2
    <3> QED BY <1>1, <1>12, <3>3, <3>4
  <2>3. CASE a \notin Range(p)
    <3>1. \A k \in 1 .. n : p[k] # a
      BY <1>3, <2>3 DEF Range
    <3>2. new = {}
      BY <1>4, <2>1, <3>1
    <3>3. c \in lost'
      BY <1>1, <1>13, <1>15, <2>3
    <3> QED BY <1>12, <3>2, <3>3
  <2> QED BY <2>2, <2>3
<1> QED BY <1>14, <1>15

\* A message goes on the wire of the client or is lost.
LEMMA SendPlaces ==
  ASSUME TypeOK, NEW m \in Messages, Send(m), NEW c \in Commands
  PROVE  /\ m.of # c => OnWires(c)' = OnWires(c) /\ (c \in lost' <=> c \in lost)
         /\ m.of = c => \/ c \in lost' /\ OnWires(c)' = OnWires(c)
                        \/ /\ c \in lost' <=> c \in lost
                           /\ \E ki : OnWires(c)' = OnWires(c) \cup {ki}
<1>1. CASE lost' = (IF IsAnswer(m) THEN lost \cup {m.of} ELSE lost) /\ wire' = wire
  BY <1>1 DEF IsAnswer, OnWires
<1>2. CASE /\ client # NONE /\ lost' = lost
           /\ wire' = IF IsAnswer(m) THEN [wire EXCEPT ![client] = Append(@, m)] ELSE wire
  <2>1. client \in Conns /\ lost' = lost /\ wire \in [Conns -> Seq(Messages)]
    BY <1>2 DEF TypeOK
  <2>2. CASE IsAnswer(m)
    <3> DEFINE w == wire[client]
               n == Len(w)
    <3>1. wire' = [wire EXCEPT ![client] = Append(w, m)]
      BY <1>2, <2>2
    <3>2. w \in Seq(Messages) /\ n \in Nat /\ DOMAIN w = 1 .. n
      BY <2>1, LenProperties
    <3>3. /\ DOMAIN Append(w, m) = 1 .. n + 1 /\ Append(w, m)[n + 1] = m
          /\ \A i \in 1 .. n : Append(w, m)[i] = w[i]
      BY <3>2, AppendProperties, LenProperties
    <3>4. wire'[client] = Append(w, m) /\ \A k \in Conns : k # client => wire'[k] = wire[k]
      BY <2>1, <3>1
    <3>5. \A i \in 1 .. n + 1 : i \in 1 .. n \/ i = n + 1
      BY <3>2
    <3>6. /\ DOMAIN wire'[client] = 1 .. n + 1 /\ wire'[client][n + 1] = m
          /\ \A i \in 1 .. n : wire'[client][i] = wire[client][i] /\ i \in 1 .. n + 1
          /\ DOMAIN wire[client] = 1 .. n /\ n + 1 \in Nat /\ n + 1 \in 1 .. n + 1
      BY <3>2, <3>3, <3>4
    <3> HIDE DEF w, n
    <3>7. \A ki \in Conns \X Nat :
              ki \in OnWires(c)' <=> ki \in OnWires(c) \/ (ki = <<client, n + 1>> /\ m.of = c)
      <4> SUFFICES ASSUME NEW k \in Conns, NEW i \in Nat
                   PROVE  <<k, i>> \in OnWires(c)' <=>
                              <<k, i>> \in OnWires(c) \/ (<<k, i>> = <<client, n + 1>> /\ m.of = c)
        OBVIOUS
      <4>1. /\ <<k, i>> \in OnWires(c)' <=> i \in DOMAIN wire'[k] /\ wire'[k][i].of = c
            /\ <<k, i>> \in OnWires(c) <=> i \in DOMAIN wire[k] /\ wire[k][i].of = c
        BY DEF OnWires
      <4>2. CASE k # client
        BY <3>4, <4>1, <4>2
      <4>3. CASE k = client
        <5>1. i \in DOMAIN wire'[client] <=> i \in DOMAIN wire[client] \/ i = n + 1
          BY <3>5, <3>6
        <5>2. n + 1 \notin DOMAIN wire[client]
          BY <3>2, <3>6
        <5> QED BY <3>6, <4>1, <4>3, <5>1, <5>2
      <4> QED BY <4>2, <4>3
    <3>8. m.of # c => OnWires(c)' = OnWires(c)
      BY <3>7 DEF OnWires
    <3>9. m.of = c => OnWires(c)' = OnWires(c) \cup {<<client, n + 1>>}
      BY <2>1, <3>6, <3>7 DEF OnWires
    <3> QED BY <2>1, <3>8, <3>9
  <2>3. CASE ~IsAnswer(m)
    <3>1. wire' = wire /\ m.of # c
      BY <1>2, <2>3 DEF IsAnswer
    <3> QED BY <2>1, <3>1 DEF OnWires
  <2> QED BY <2>2, <2>3
<1> QED BY <1>1, <1>2 DEF Send

\* A command that is in one place is in no other.
LEMMA OnlyThere ==
  ASSUME NEW c, Alone(c)
  PROVE  /\ InCmdQueue(c) # {} => Where(c) = {"cmd_queue"}
         /\ InLogQueue(c) # {} => Where(c) = {"log_queue"}
         /\ InHands(c) # {}    => Where(c) = {"held"}
         /\ asked = c          => Where(c) = {"asked"}
         /\ script = c         => Where(c) = {"script"}
<1>1. \A x \in Where(c) : Where(c) = {x}
  BY DEF Alone, Sole
<1>2. /\ InCmdQueue(c) # {} => "cmd_queue" \in Where(c)
      /\ InLogQueue(c) # {} => "log_queue" \in Where(c)
      /\ InHands(c) # {}    => "held" \in Where(c)
      /\ asked = c          => "asked" \in Where(c)
      /\ script = c         => "script" \in Where(c)
  BY DEF Where
<1> HIDE DEF Where
<1> QED BY <1>1, <1>2

LEMMA NotElsewhere ==
  ASSUME NEW c, NEW x, Where(c) = {x}
  PROVE  /\ x # "cmd_queue" => InCmdQueue(c) = {}
         /\ x # "log_queue" => InLogQueue(c) = {}
         /\ x # "held"      => InHands(c) = {}
         /\ x # "wire"      => OnWires(c) = {}
         /\ x # "asked"     => asked # c
         /\ x # "script"    => script # c
         /\ x # "lost"      => c \notin lost
BY DEF Where

\* What the way out of a queue does to the places in it of the elements of T.
LEMMA HeadLeaves ==
  ASSUME NEW S, NEW q \in Seq(S), q # <<>>, NEW T
  PROVE  LET old == {i \in DOMAIN q : q[i] \in T}
             new == {i \in DOMAIN Tail(q) : Tail(q)[i] \in T}
         IN  /\ Sole(old) => Sole(new)
             /\ Head(q) \in T => old # {}
             /\ Head(q) \in T /\ Sole(old) => new = {}
             /\ Head(q) \notin T => (new = {} <=> old = {})
<1> DEFINE old == {i \in DOMAIN q : q[i] \in T}
           new == {i \in DOMAIN Tail(q) : Tail(q)[i] \in T}
           n   == Len(q)
<1>1. /\ n \in Nat /\ n >= 1 /\ DOMAIN q = 1 .. n /\ Head(q) = q[1]
      /\ Tail(q) \in Seq(S) /\ Len(Tail(q)) = n - 1
      /\ \A i \in 1 .. n - 1 : Tail(q)[i] = q[i + 1]
  <2>1. n \in Nat /\ DOMAIN q = 1 .. n
    BY LenProperties
  <2>2. n # 0
    BY EmptySeq
  <2>3. /\ Head(q) = q[1] /\ Tail(q) \in Seq(S) /\ Len(Tail(q)) = n - 1
        /\ \A i \in 1 .. n - 1 : Tail(q)[i] = q[i + 1]
    BY HeadTailProperties
  <2> QED BY <2>1, <2>2, <2>3
<1>2. DOMAIN Tail(q) = 1 .. n - 1
  BY <1>1, LenProperties
<1> HIDE DEF n
<1>3. ASSUME NEW i \in new PROVE i + 1 \in old /\ i \in Nat /\ i >= 1
  <2>1. i \in 1 .. n - 1 /\ q[i + 1] \in T
    BY <1>1, <1>2
  <2>2. i + 1 \in 1 .. n
    BY <1>1, <2>1
  <2> QED BY <1>1, <2>1, <2>2
<1>4. ASSUME NEW i \in old, i # 1 PROVE i - 1 \in new
  <2>1. i \in 1 .. n /\ i - 1 \in 1 .. n - 1 /\ (i - 1) + 1 = i
    BY <1>1, <1>4
  <2>2. Tail(q)[i - 1] = q[i]
    BY <1>1, <2>1
  <2> QED BY <1>2, <2>1, <2>2
<1>5. 1 \in old <=> Head(q) \in T
  <2>1. 1 \in DOMAIN q
    BY <1>1
  <2> QED BY <1>1, <2>1
<1> HIDE DEF old, new
<1>6. ASSUME Sole(old) PROVE Sole(new)
  <2> SUFFICES ASSUME NEW i \in new, NEW j \in new PROVE i = j
    BY DEF Sole
  <2>1. i + 1 = j + 1 /\ i \in Nat /\ j \in Nat
    BY <1>3, <1>6 DEF Sole
  <2> QED BY <2>1
<1>7. ASSUME Head(q) \in T, Sole(old), NEW i \in new PROVE FALSE
  <2>1. i + 1 = 1 /\ i >= 1 /\ i \in Nat
    BY <1>3, <1>5, <1>7 DEF Sole
  <2> QED BY <2>1
<1>8. ASSUME Head(q) \notin T PROVE new = {} <=> old = {}
  <2>1. \A i \in old : i # 1
    BY <1>5, <1>8
  <2> QED BY <1>3, <1>4, <2>1
<1>9. Head(q) \in T => old # {}
  BY <1>5
<1> QED BY <1>6, <1>7, <1>8, <1>9 DEF old, new

\* A log line moves nothing.
LEMMA LoggingPlaces ==
  ASSUME TypeOK, Enqueue(Logged(1)), NEW c \in Commands
  PROVE  InLogQueue(c)' = InLogQueue(c) /\ (c \in lost' <=> c \in lost)
<1>1. Logged(1) \in Seq(Messages)
  BY LoggedTyped
<1>2. \A i \in DOMAIN Logged(1) : Logged(1)[i].of = NONE
  BY DEF Logged, Log, Msg
<1>3. c # NONE /\ NONE \notin Commands
  BY NoneAssumption
<1> QED BY <1>1, <1>2, <1>3, EnqueuePlaces DEF IsAnswer

-----------------------------------------------------------------------------
(* Each step takes a command, or its answer, from one place to another, or   *)
(* leaves it where it is.                                                    *)

Carried(c) == Alone(c)' /\ (Where(c)' = {} <=> Where(c) = {})

Keeps(c)           == Where(c)' = Where(c)
Moves(c, from, to) == Where(c) = {from} /\ \E x \in to : Where(c)' = {x}

LEMMA StaysCarried ==
  ASSUME NEW c, Alone(c), Stays(c) PROVE Carried(c) /\ Keeps(c)
BY SameWhere DEF Carried, Keeps

\* Only the places of the threads in their code change.
LEMMA HandsFree ==
  ASSUME NEW c, UNCHANGED <<cmd_queue, log_queue, held, wire, asked, script, lost>>,
         \A t \in Threads : pc'[t] = "send" <=> pc[t] = "send"
  PROVE  Stays(c)
BY DEF Stays, InCmdQueue, InLogQueue, InHands, OnWires

LEMMA TakeCarries ==
  ASSUME TypeInv, NEW t \in Threads, Take(t), NEW c \in Commands, Alone(c)
  PROVE  Carried(c) /\ (Keeps(c) \/ Moves(c, "log_queue", {"held"}))
<1> DEFINE T == {m \in Messages : m.of = c}
<1>1. /\ pc[t] = "take" /\ log_queue \in Seq(Messages) /\ log_queue # <<>>
      /\ log_queue' = Tail(log_queue) /\ held' = [held EXCEPT ![t] = Head(log_queue)]
      /\ pc' = [pc EXCEPT ![t] = "send"]
      /\ UNCHANGED <<cmd_queue, wire, asked, script, lost>>
  BY DEF Take, Goto, hist, TypeInv, TypeOK
<1>2. Head(log_queue) \in Messages /\ Tail(log_queue) \in Seq(Messages)
  BY <1>1, HeadTailProperties
<1>3. /\ InLogQueue(c) = {i \in DOMAIN log_queue : log_queue[i] \in T}
      /\ InLogQueue(c)' = {i \in DOMAIN Tail(log_queue) : Tail(log_queue)[i] \in T}
  <2>1. ASSUME NEW q \in Seq(Messages)
        PROVE  {i \in DOMAIN q : q[i] \in T} = {i \in DOMAIN q : q[i].of = c}
    <3>1. \A i \in DOMAIN q : q[i] \in Messages
      BY LenProperties, ElementOfSeq
    <3> QED BY <3>1
  <2> QED BY <1>1, <1>2, <2>1 DEF InLogQueue
<1> HIDE DEF T
<1>4. /\ Sole(InLogQueue(c)')
      /\ Head(log_queue) \in T => InLogQueue(c) # {} /\ InLogQueue(c)' = {}
      /\ Head(log_queue) \notin T => (InLogQueue(c)' = {} <=> InLogQueue(c) = {})
  <2> DEFINE old == {i \in DOMAIN log_queue : log_queue[i] \in T}
             new == {i \in DOMAIN Tail(log_queue) : Tail(log_queue)[i] \in T}
  <2>1. /\ Sole(old) => Sole(new)
        /\ Head(log_queue) \in T => old # {}
        /\ Head(log_queue) \in T /\ Sole(old) => new = {}
        /\ Head(log_queue) \notin T => (new = {} <=> old = {})
    BY <1>1, HeadLeaves
  <2> HIDE DEF old, new
  <2>2. InLogQueue(c) = old /\ InLogQueue(c)' = new
    BY <1>3 DEF old, new
  <2>3. Sole(old)
    BY <2>2 DEF Alone
  <2> QED BY <2>1, <2>2, <2>3
<1>5. /\ InCmdQueue(c)' = InCmdQueue(c) /\ OnWires(c)' = OnWires(c)
      /\ InHands(c)' = InHands(c) \cup {u \in {t} : Head(log_queue).of = c}
  <2>1. \A u \in Threads : u # t => pc'[u] = pc[u] /\ held'[u] = held[u]
    BY <1>1 DEF TypeInv, TypeOK
  <2>2. pc'[t] = "send" /\ held'[t] = Head(log_queue) /\ pc[t] # "send"
    BY <1>1 DEF TypeInv, TypeOK
  <2> QED BY <1>1, <2>1, <2>2 DEF InCmdQueue, OnWires, InHands
<1>6. CASE Head(log_queue).of = c
  <2>1. Head(log_queue) \in T
    BY <1>2, <1>6 DEF T
  <2>2. Where(c) = {"log_queue"}
    BY <1>4, <2>1, OnlyThere
  <2>3. /\ InCmdQueue(c)' = {} /\ InLogQueue(c)' = {} /\ InHands(c)' = {t} /\ OnWires(c)' = {}
        /\ asked' # c /\ script' # c /\ c \notin lost'
    BY <1>1, <1>4, <1>5, <1>6, <2>1, <2>2, NotElsewhere
  <2>4. Where(c)' = {"held"}
    BY <2>3 DEF Where
  <2>5. Carried(c)
    BY <2>2, <2>3, <2>4 DEF Carried, Alone, Sole
  <2> QED BY <2>2, <2>4, <2>5 DEF Moves
<1>7. CASE Head(log_queue).of # c
  <2>1. Head(log_queue) \notin T
    BY <1>7 DEF T
  <2>2. InHands(c)' = InHands(c)
    BY <1>5, <1>7
  <2>3. Where(c)' = Where(c)
    BY <1>1, <1>4, <1>5, <2>1, <2>2 DEF Where
  <2> QED BY <1>4, <1>5, <2>2, <2>3 DEF Carried, Alone, Keeps
<1> QED BY <1>6, <1>7

LEMMA SendHeldCarries ==
  ASSUME TypeInv, NEW t \in Threads, SendHeld(t), NEW c \in Commands, Alone(c)
  PROVE  /\ Carried(c)
         /\ held[t].of = c => Moves(c, "held", {"wire", "lost"})
         /\ held[t].of # c => Keeps(c)
<1> DEFINE m == held[t]
<1>1. /\ pc[t] = "send" /\ m \in Messages /\ Send(m) /\ TypeOK
      /\ held' = [held EXCEPT ![t] = NONE] /\ pc' = [pc EXCEPT ![t] = "take"]
      /\ UNCHANGED <<cmd_queue, log_queue, asked, script>>
  BY DEF SendHeld, Goto, queues, TypeInv, Roles
<1> HIDE DEF m
<1>2. InCmdQueue(c)' = InCmdQueue(c) /\ InLogQueue(c)' = InLogQueue(c)
  BY <1>1 DEF InCmdQueue, InLogQueue
<1>3. /\ t \in InHands(c) <=> m.of = c
      /\ InHands(c)' = InHands(c) \ {t}
  <2>1. \A u \in Threads : u # t => pc'[u] = pc[u] /\ held'[u] = held[u]
    BY <1>1 DEF TypeInv, TypeOK
  <2>2. pc'[t] = "take"
    BY <1>1 DEF TypeInv, TypeOK
  <2> QED BY <1>1, <2>1, <2>2 DEF InHands, m
<1>4. CASE m.of = c
  <2>1. Where(c) = {"held"} /\ InHands(c) = {t}
    BY <1>3, <1>4, OnlyThere DEF Alone, Sole
  <2>2. /\ InCmdQueue(c)' = {} /\ InLogQueue(c)' = {} /\ InHands(c)' = {}
        /\ asked' # c /\ script' # c
    BY <1>1, <1>2, <1>3, <2>1, NotElsewhere
  <2>3. OnWires(c) = {} /\ c \notin lost
    BY <2>1, NotElsewhere
  <2>4. \/ c \in lost' /\ OnWires(c)' = {}
        \/ c \notin lost' /\ \E ki : OnWires(c)' = {ki}
    BY <1>1, <1>4, <2>3, SendPlaces
  <2>5. Where(c)' = {"lost"} \/ Where(c)' = {"wire"}
    BY <2>2, <2>4 DEF Where
  <2>6. Carried(c)
    BY <2>1, <2>2, <2>4, <2>5 DEF Carried, Alone, Sole
  <2> QED BY <1>4, <2>1, <2>5, <2>6 DEF Moves, m
<1>5. CASE m.of # c
  <2>1. OnWires(c)' = OnWires(c) /\ (c \in lost' <=> c \in lost)
    BY <1>1, <1>5, SendPlaces
  <2>2. Stays(c)
    BY <1>1, <1>2, <1>3, <1>5, <2>1 DEF Stays
  <2> QED BY <1>5, <2>2, StaysCarried DEF m
<1> QED BY <1>4, <1>5

LEMMA UpdateCarries ==
  ASSUME TypeInv, LineInv, Update, NEW c \in Commands, Alone(c)
  PROVE  /\ Carried(c)
         /\ Head(cmd_queue) = c => Moves(c, "cmd_queue", {"script"})
         /\ Head(cmd_queue) # c => Keeps(c)
<1>1. /\ cmd_queue \in Seq(Commands) /\ cmd_queue # <<>>
      /\ cmd_queue' = Tail(cmd_queue) /\ script' = Head(cmd_queue)
      /\ pc["app"] \in {"idle", "update"} /\ pc' = [pc EXCEPT !["app"] = "exec"]
      /\ Enqueue(Logged(1)) /\ UNCHANGED <<held, wire, asked>>
  BY DEF Update, Goto, TypeInv, TypeOK
<1>2. script = NONE /\ c # NONE
  BY <1>1, NoneAssumption DEF LineInv
<1>3. /\ Sole(InCmdQueue(c)')
      /\ Head(cmd_queue) = c => InCmdQueue(c) # {} /\ InCmdQueue(c)' = {}
      /\ Head(cmd_queue) # c => (InCmdQueue(c)' = {} <=> InCmdQueue(c) = {})
  <2> DEFINE old == {i \in DOMAIN cmd_queue : cmd_queue[i] \in {c}}
             new == {i \in DOMAIN Tail(cmd_queue) : Tail(cmd_queue)[i] \in {c}}
  <2>1. /\ Sole(old) => Sole(new)
        /\ Head(cmd_queue) \in {c} => old # {}
        /\ Head(cmd_queue) \in {c} /\ Sole(old) => new = {}
        /\ Head(cmd_queue) \notin {c} => (new = {} <=> old = {})
    BY <1>1, HeadLeaves
  <2>2. InCmdQueue(c) = old /\ InCmdQueue(c)' = new
    BY <1>1 DEF InCmdQueue
  <2> HIDE DEF old, new
  <2>3. Sole(old)
    BY <2>2 DEF Alone
  <2> QED BY <2>1, <2>2, <2>3
<1>4. InLogQueue(c)' = InLogQueue(c) /\ (c \in lost' <=> c \in lost)
  BY <1>1, LoggingPlaces DEF TypeInv
<1>5. InHands(c)' = InHands(c) /\ OnWires(c)' = OnWires(c)
  <2>1. \A t \in Threads : pc'[t] = "send" <=> pc[t] = "send"
    BY <1>1 DEF TypeInv, TypeOK
  <2> QED BY <1>1, <2>1 DEF InHands, OnWires
<1>6. CASE Head(cmd_queue) = c
  <2>1. Where(c) = {"cmd_queue"}
    BY <1>3, <1>6, OnlyThere
  <2>2. /\ InCmdQueue(c)' = {} /\ InLogQueue(c)' = {} /\ InHands(c)' = {} /\ OnWires(c)' = {}
        /\ asked' # c /\ script' = c /\ c \notin lost'
    BY <1>1, <1>3, <1>4, <1>5, <1>6, <2>1, NotElsewhere
  <2>3. Where(c)' = {"script"}
    BY <2>2 DEF Where
  <2>4. Carried(c)
    BY <2>1, <2>2, <2>3 DEF Carried, Alone, Sole
  <2> QED BY <1>6, <2>1, <2>3, <2>4 DEF Moves
<1>7. CASE Head(cmd_queue) # c
  <2>1. Where(c)' = Where(c)
    BY <1>1, <1>2, <1>3, <1>4, <1>5, <1>7 DEF Where
  <2> QED BY <1>3, <1>4, <1>5, <1>7, <2>1 DEF Carried, Alone, Keeps
<1> QED BY <1>6, <1>7

\* An answer goes into log_queue or is lost.
LEMMA AnswerCarried ==
  ASSUME TypeInv, NEW c \in Commands, Alone(c), NEW d \in Commands,
         NEW msgs \in Seq(Messages), Enqueue(msgs),
         NEW a \in DOMAIN msgs, msgs[a].of = d, \A i \in DOMAIN msgs : i # a => ~IsAnswer(msgs[i]),
         UNCHANGED <<cmd_queue, held, wire>>,
         \A t \in Threads : pc'[t] = "send" <=> pc[t] = "send",
         \/ /\ asked = d /\ asked' = NONE /\ script' = script
         \/ /\ script = d /\ script' = NONE /\ asked' = asked
  PROVE  /\ Carried(c)
         /\ c = d => \E x \in {"log_queue", "lost"} : Where(c)' = {x}
         /\ c # d => Keeps(c)
<1>1. /\ InCmdQueue(c)' = InCmdQueue(c) /\ OnWires(c)' = OnWires(c)
      /\ InHands(c)' = InHands(c) /\ c # NONE
  BY NoneAssumption DEF InCmdQueue, OnWires, InHands
<1>2. \A i, j \in DOMAIN msgs : IsAnswer(msgs[i]) /\ IsAnswer(msgs[j]) => i = j
  OBVIOUS
<1>3. CASE c # d
  <2>1. \A i \in DOMAIN msgs : msgs[i].of # c
    BY <1>3 DEF IsAnswer
  <2>2. TypeOK
    BY DEF TypeInv
  <2>3. InLogQueue(c)' = InLogQueue(c) /\ (c \in lost' <=> c \in lost)
    BY <1>2, <2>1, <2>2, EnqueuePlaces
  <2>4. Stays(c)
    BY <1>1, <1>3, <2>3 DEF Stays
  <2> QED BY <1>3, <2>4, StaysCarried
<1>4. CASE c = d
  <2>1. /\ Where(c) = {"asked"} \/ Where(c) = {"script"}
        /\ InCmdQueue(c)' = {} /\ OnWires(c)' = {} /\ InHands(c)' = {}
        /\ InLogQueue(c) = {} /\ c \notin lost
        /\ asked' # c /\ script' # c
    <3>1. CASE asked = d /\ asked' = NONE /\ script' = script
      <4>1. Where(c) = {"asked"}
        BY <1>4, <3>1, OnlyThere
      <4> QED BY <1>1, <3>1, <4>1, NotElsewhere
    <3>2. CASE script = d /\ script' = NONE /\ asked' = asked
      <4>1. Where(c) = {"script"}
        BY <1>4, <3>2, OnlyThere
      <4> QED BY <1>1, <3>2, <4>1, NotElsewhere
    <3> QED BY <3>1, <3>2
  <2>2. \/ c \in lost' /\ InLogQueue(c)' = {}
        \/ c \notin lost' /\ \E k : InLogQueue(c)' = {k}
    <3>1. TypeOK /\ \E i \in DOMAIN msgs : msgs[i].of = c
      BY <1>4 DEF TypeInv
    <3>2. \/ c \in lost' /\ InLogQueue(c)' = InLogQueue(c)
          \/ /\ c \in lost' <=> c \in lost
             /\ \E k : InLogQueue(c)' = InLogQueue(c) \cup {k}
      BY <1>2, <3>1, EnqueuePlaces
    <3> QED BY <2>1, <3>2
  <2>3. Where(c)' = {"lost"} \/ Where(c)' = {"log_queue"}
    BY <2>1, <2>2 DEF Where
  <2>4. Carried(c)
    BY <2>1, <2>2, <2>3 DEF Carried, Alone, Sole
  <2> QED BY <1>4, <2>3, <2>4
<1> QED BY <1>3, <1>4

LEMMA ResultCarries ==
  ASSUME TypeInv, Result, NEW c \in Commands, Alone(c)
  PROVE  /\ Carried(c)
         /\ script = c => Moves(c, "script", {"log_queue", "lost"})
         /\ script # c => Keeps(c)
<1> DEFINE m    == Msg("repl_result", script)
           msgs == Append(Logged(1), m)
           n    == Len(Logged(1))
<1>1. /\ pc["app"] = "result" /\ script \in Commands /\ Enqueue(msgs)
      /\ script' = NONE /\ pc' = [pc EXCEPT !["app"] = "update"]
      /\ UNCHANGED <<cmd_queue, held, wire, asked>>
  BY DEF Result, Goto, TypeInv, Roles
<1>2. m \in Messages /\ m.of = script
  BY <1>1, MsgTyped DEF Msg
<1>3. Logged(1) \in Seq(Messages) /\ \A i \in DOMAIN Logged(1) : Logged(1)[i].of = NONE
  <2>1. Logged(1) \in Seq(Messages)
    BY LoggedTyped DEF TypeInv
  <2>2. \A i \in DOMAIN Logged(1) : Logged(1)[i].of = NONE
    BY DEF Logged, Log, Msg
  <2> QED BY <2>1, <2>2
<1> HIDE DEF m
<1>4. /\ msgs \in Seq(Messages) /\ n \in Nat /\ Len(msgs) = n + 1
      /\ \A i \in 1 .. n : msgs[i] = Logged(1)[i]
      /\ msgs[n + 1] = m
  BY <1>2, <1>3, AppendProperties, LenProperties
<1> HIDE DEF msgs
<1>5. DOMAIN msgs = 1 .. n + 1 /\ DOMAIN Logged(1) = 1 .. n
  BY <1>3, <1>4, LenProperties
<1> HIDE DEF n
<1>6. ASSUME NEW i \in DOMAIN msgs, i # n + 1 PROVE ~IsAnswer(msgs[i])
  <2>1. i \in 1 .. n
    BY <1>4, <1>5, <1>6
  <2>2. msgs[i].of = NONE
    BY <1>3, <1>4, <1>5, <2>1
  <2> QED BY <2>2, NoneAssumption DEF IsAnswer
<1>7. n + 1 \in DOMAIN msgs /\ msgs[n + 1].of = script
  BY <1>2, <1>4, <1>5
<1>8. \A t \in Threads : pc'[t] = "send" <=> pc[t] = "send"
  BY <1>1 DEF TypeInv, TypeOK
<1>9. /\ Carried(c)
      /\ c = script => \E x \in {"log_queue", "lost"} : Where(c)' = {x}
      /\ c # script => Keeps(c)
  BY <1>1, <1>4, <1>6, <1>7, <1>8, AnswerCarried
<1> QED BY <1>9, OnlyThere DEF Moves

LEMMA ListedCarries ==
  ASSUME TypeInv, Listed, NEW c \in Commands, Alone(c)
  PROVE  /\ Carried(c)
         /\ asked = c => Moves(c, "asked", {"log_queue", "lost"})
         /\ asked # c => Keeps(c)
<1> DEFINE m    == Msg("command_result", asked)
           msgs == <<m>>
<1>1. /\ pc["reader"] = "list" /\ asked \in Commands /\ Enqueue(msgs)
      /\ asked' = NONE /\ pc' = [pc EXCEPT !["reader"] = "line"]
      /\ UNCHANGED <<cmd_queue, held, wire, script>>
  BY DEF Listed, Goto, TypeInv, Roles
<1>2. m \in Messages /\ m.of = asked
  BY <1>1, MsgTyped DEF Msg
<1> HIDE DEF m
<1>3. msgs \in Seq(Messages) /\ DOMAIN msgs = {1} /\ msgs[1].of = asked
  BY <1>2
<1> HIDE DEF msgs
<1>4. \A t \in Threads : pc'[t] = "send" <=> pc[t] = "send"
  BY <1>1 DEF TypeInv, TypeOK
<1>5. /\ Carried(c)
      /\ c = asked => \E x \in {"log_queue", "lost"} : Where(c)' = {x}
      /\ c # asked => Keeps(c)
  BY <1>1, <1>3, <1>4, AnswerCarried
<1> QED BY <1>5, OnlyThere DEF Moves

\* The steps that concern no command.
LEMMA OthersStay ==
  ASSUME TypeInv, TailInv, NEW c \in Commands,
         \/ \E t \in Threads : WarnDrops(t)
         \/ \E k \in Conns : Connect(k)
         \/ Flush \/ AppLog \/ Exec \/ UpdateReturns \/ Accept
         \/ Read \/ ReadFails \/ Disconnect \/ AppendData \/ NoMoreLines
  PROVE  Stays(c)
<1>0. c # NONE
  BY NoneAssumption
<1>1. ASSUME NEW m \in Messages, m.of = NONE, Send(m)
      PROVE  OnWires(c)' = OnWires(c) /\ (c \in lost' <=> c \in lost)
  BY <1>0, <1>1, SendPlaces DEF TypeInv
<1>2. ASSUME NEW t \in Threads, WarnDrops(t) PROVE Stays(c)
  <2>1. /\ pc[t] = "take" /\ pc' = [pc EXCEPT ![t] = After(t)]
        /\ After(t) # "send"
        /\ UNCHANGED <<cmd_queue, log_queue, held, asked, script>>
    BY <1>2 DEF WarnDrops, Goto, After, Threads
  <2>2. \A u \in Threads : pc'[u] = "send" <=> pc[u] = "send"
    BY <2>1 DEF TypeInv, TypeOK
  <2>3. OnWires(c)' = OnWires(c) /\ (c \in lost' <=> c \in lost)
    <3>1. CASE dropped
      <4>1. Msg("warning", NONE) \in Messages /\ Msg("warning", NONE).of = NONE
        BY MsgTyped DEF Msg
      <4> QED BY <1>1, <1>2, <3>1, <4>1 DEF WarnDrops
    <3>2. CASE ~dropped
      BY <1>2, <3>2 DEF WarnDrops, OnWires
    <3> QED BY <3>1, <3>2
  <2> QED BY <2>1, <2>2, <2>3 DEF Stays, InCmdQueue, InLogQueue, InHands
<1>3. CASE Handshake
  <2>1. /\ pc["accept"] = "handshake" /\ pc["reader"] = "idle"
        /\ pc' = [pc EXCEPT !["accept"] = "idle", !["reader"] = "read"]
        /\ UNCHANGED <<cmd_queue, log_queue, held, asked, script>>
    BY <1>3 DEF Handshake, Rest, TailInv, InTouch
  <2>2. \A u \in Threads : pc'[u] = "send" <=> pc[u] = "send"
    BY <2>1 DEF TypeInv, TypeOK
  <2>3. OnWires(c)' = OnWires(c) /\ (c \in lost' <=> c \in lost)
    <3>1. Msg("handshake", NONE) \in Messages /\ Msg("handshake", NONE).of = NONE
      BY MsgTyped DEF Msg
    <3> QED BY <1>1, <1>3, <3>1 DEF Handshake
  <2> QED BY <2>1, <2>2, <2>3 DEF Stays, InCmdQueue, InLogQueue, InHands
<1>4. CASE AppLog
  <2>1. InLogQueue(c)' = InLogQueue(c) /\ (c \in lost' <=> c \in lost)
    BY <1>4, LoggingPlaces DEF AppLog, TypeInv
  <2> QED BY <1>4, <2>1 DEF AppLog, Stays, InCmdQueue, InHands, OnWires
<1>5. CASE Flush \/ Exec \/ UpdateReturns
  <2>1. /\ UNCHANGED <<cmd_queue, log_queue, held, wire, asked, script, lost>>
        /\ \A t \in Threads : pc'[t] = "send" <=> pc[t] = "send"
    BY <1>5 DEF Flush, Exec, UpdateReturns, Goto, queues, hist, TypeInv, TypeOK
  <2> QED BY <2>1, HandsFree
<1>6. ASSUME \/ \E k \in Conns : Connect(k)
             \/ Install \/ SetConnected
      PROVE  Stays(c)
  <2>1. /\ UNCHANGED <<cmd_queue, log_queue, held, wire, asked, script, lost>>
        /\ \A t \in Threads : pc'[t] = "send" <=> pc[t] = "send"
    BY <1>6 DEF Connect, Install, SetConnected, Goto, Rest, TypeInv, TypeOK
  <2> QED BY <2>1, HandsFree
<1>7. CASE Read \/ ReadFails \/ Disconnect \/ AppendData \/ NoMoreLines
  <2>1. /\ UNCHANGED <<cmd_queue, log_queue, held, wire, asked, script, lost>>
        /\ \A t \in Threads : pc'[t] = "send" <=> pc[t] = "send"
    BY <1>7 DEF Read, ReadFails, Disconnect, AppendData, NoMoreLines, Goto, queues, hist, TypeInv, TypeOK
  <2> QED BY <2>1, HandsFree
<1> QED BY <1>2, <1>3, <1>4, <1>5, <1>6, <1>7 DEF Accept

-----------------------------------------------------------------------------
(* Lines and what they mean. *)

\* What is left of the input begins a line, and is none when no line is being handled.
LEMMA LineNext ==
  ASSUME TypeInv, TypeInv', TailInv, LineInv, Next PROVE LineInv'
<1>1. Done' > 0 => read'[Done'] = NL
  <2>1. CASE ~HandleLine
    <3>1. /\ Done \in Nat /\ Done' = Done /\ \A k \in 1 .. Done : read'[k] = read[k]
      BY <2>1, TailNext
    <3>2. ASSUME Done > 0 PROVE Done \in 1 .. Done
      BY <3>1, <3>2
    <3> QED BY <3>1, <3>2 DEF LineInv
  <2>2. CASE HandleLine
    <3>1. /\ Done' = Done + NewLine
          /\ \A i \in 1 .. NewLine : read'[Done + i] = recv_buf[i]
      BY <2>2, TailNext
    <3>2. recv_buf \in Seq(Bytes) /\ NewLine > 0 /\ NewLine \in Nat /\ recv_buf[NewLine] = NL
      BY <2>2, NewLineFound DEF HandleLine, TypeInv, TypeOK
    <3>3. NewLine \in 1 .. NewLine
      BY <3>2
    <3> QED BY <3>1, <3>2, <3>3
  <2> QED BY <2>1, <2>2
<1> USE DEF TypeInv, TypeOK, Roles, TailInv, LineInv, Threads, Goto, Calm, InTouch
<1>2. ASSUME NEW t \in Threads, Drain(t) PROVE
          /\ UNCHANGED <<recv_buf, asked, script>>
          /\ pc'["reader"] \in Calm => pc["reader"] \in Calm
          /\ pc'["reader"] # "list" => pc["reader"] # "list"
          /\ pc'["app"] \notin {"exec", "result"} => pc["app"] \notin {"exec", "result"}
  <2>1. CASE Take(t)
    BY <1>2, <2>1 DEF Take, hist
  <2>2. CASE SendHeld(t)
    BY <1>2, <2>2 DEF SendHeld
  <2>3. CASE WarnDrops(t)
    BY <1>2, <2>3 DEF WarnDrops, After
  <2> QED BY <1>2, <2>1, <2>2, <2>3 DEF Drain
<1>3. CASE Flush \/ AppLog \/ App
  BY <1>1, <1>3 DEF Flush, AppLog, App, Update, Exec, Result, UpdateReturns, queues, hist
<1>4. CASE Accept
  BY <1>1, <1>4 DEF Accept, Install, SetConnected, Handshake, Rest
<1>5. ASSUME NEW k \in Conns, Connect(k) PROVE LineInv'
  BY <1>1, <1>5 DEF Connect, Rest
<1>6. CASE Read \/ ReadFails \/ Disconnect \/ Listed \/ AppendData
  BY <1>1, <1>6 DEF Read, ReadFails, Disconnect, Listed, AppendData, queues, hist
<1>7. CASE NoMoreLines
  <2>1. \A i \in 1 .. Len(recv_buf) : recv_buf[i] # NL
    BY <1>7, NewLineFound DEF NoMoreLines
  <2> QED BY <1>1, <1>7, <2>1 DEF NoMoreLines, queues, hist
<1>8. CASE HandleLine
  BY <1>1, <1>8 DEF HandleLine, Eval, ListBindings, Other
<1>9. ASSUME NEW t \in Threads, Drain(t) PROVE LineInv'
  BY <1>1, <1>2, <1>9
<1> QED BY <1>3, <1>4, <1>5, <1>6, <1>7, <1>8, <1>9 DEF Next, Reader

\* A step that handles a line handles one command if the line is a token.
LEMMA HandledNext ==
  ASSUME TypeInv, TypeInv', TailInv, LineInv, Next, NEW c \in Commands
  PROVE  /\ ~HandleLine => (Handled(c)' <=> Handled(c))
         /\ HandleLine => (Handled(c)' <=> Handled(c) \/ (NewLine = 2 /\ recv_buf[1] = c))
<1>0. c # NL
  BY NoneAssumption
<1>1. Done \in Nat /\ \A k \in 1 .. Done : read'[k] = read[k]
  BY TailNext
<1>2. ASSUME NEW i \in 1 .. Done - 1
      PROVE  /\ i \in Int /\ i \in 1 .. Done /\ i + 1 \in 1 .. Done /\ (i # 1 => i - 1 \in 1 .. Done)
             /\ read'[i] = read[i] /\ read'[i + 1] = read[i + 1]
             /\ i = 1 \/ read'[i - 1] = read[i - 1]
  <2>1. i \in Int /\ i \in 1 .. Done /\ i + 1 \in 1 .. Done /\ (i # 1 => i - 1 \in 1 .. Done)
    BY <1>1
  <2> QED BY <1>1, <2>1
<1>3. ASSUME ~HandleLine PROVE Handled(c)' <=> Handled(c)
  <2>1. Done' = Done
    BY <1>3, TailNext
  <2> QED BY <1>2, <2>1 DEF Handled
<1>4. ASSUME HandleLine
      PROVE  Handled(c)' <=> Handled(c) \/ (NewLine = 2 /\ recv_buf[1] = c)
  <2> DEFINE n == Done
             w == NewLine
  <2>1. Done' = n + w /\ \A j \in 1 .. w : read'[n + j] = recv_buf[j]
    BY <1>4, TailNext
  <2>2. /\ w \in Nat /\ w > 0 /\ recv_buf[w] = NL
        /\ \A j \in 1 .. w - 1 : recv_buf[j] # NL
    BY <1>4, NewLineFound DEF HandleLine, TypeInv, TypeOK
  <2>3. n \in Nat /\ (n > 0 => read[n] = NL)
    BY <1>1 DEF LineInv
  <2>4. Handled(c)' <=> \E i \in 1 .. (n + w) - 1 :
                            /\ read'[i] = c /\ read'[i + 1] = NL
                            /\ i = 1 \/ read'[i - 1] = NL
    BY <2>1 DEF Handled
  <2>5. Handled(c) <=> \E i \in 1 .. n - 1 :
                            /\ read[i] = c /\ read[i + 1] = NL
                            /\ i = 1 \/ read[i - 1] = NL
    BY DEF Handled
  <2>6. \A k \in 1 .. n : read'[k] = read[k]
    BY <1>1
  <2>7. ASSUME NEW i \in 1 .. n - 1
        PROVE  /\ i \in 1 .. (n + w) - 1 /\ read'[i] = read[i] /\ read'[i + 1] = read[i + 1]
               /\ i = 1 \/ read'[i - 1] = read[i - 1]
    <3>1. i \in 1 .. (n + w) - 1
      BY <2>2, <2>3
    <3> QED BY <1>2, <3>1
  <2> HIDE DEF n, w
  <2>8. Handled(c) => Handled(c)'
    BY <2>4, <2>5, <2>7
  <2>9. ASSUME w = 2, recv_buf[1] = c PROVE Handled(c)'
    <3>1. n + 1 \in 1 .. (n + w) - 1 /\ 1 \in 1 .. w /\ 2 \in 1 .. w /\ (n + 1) + 1 = n + 2
      BY <2>3, <2>9
    <3>2. read'[n + 1] = c /\ read'[(n + 1) + 1] = NL
      BY <2>1, <2>2, <2>9, <3>1
    <3>3. n + 1 = 1 \/ (n > 0 /\ n \in 1 .. n /\ (n + 1) - 1 = n)
      BY <2>3
    <3>4. n + 1 = 1 \/ read'[(n + 1) - 1] = NL
      BY <2>3, <2>6, <3>3
    <3> QED BY <2>4, <3>1, <3>2, <3>4
  <2>10. ASSUME NEW i \in 1 .. (n + w) - 1, read'[i] = c, read'[i + 1] = NL,
                i = 1 \/ read'[i - 1] = NL
         PROVE  Handled(c) \/ (w = 2 /\ recv_buf[1] = c)
    <3>1. CASE i \in 1 .. n - 1
      BY <2>5, <2>7, <2>10, <3>1
    <3>2. CASE i = n
      <4>1. n > 0 /\ n \in 1 .. n
        BY <2>3, <3>2
      <4> QED BY <1>0, <2>3, <2>6, <2>10, <3>2, <4>1
    <3>3. CASE i > n
      <4> DEFINE j == i - n
      <4>1. /\ j \in 1 .. w /\ j + 1 \in 1 .. w /\ i = n + j /\ i + 1 = n + (j + 1)
            /\ i - 1 = n + (j - 1) /\ j \in Int
            /\ j = 1 \/ (j - 1 \in 1 .. w - 1 /\ j - 1 \in 1 .. w /\ i # 1)
            /\ j + 1 = w \/ j + 1 \in 1 .. w - 1
        BY <2>2, <2>3, <3>3
      <4> HIDE DEF j
      <4>2. recv_buf[j] = c /\ recv_buf[j + 1] = NL
        BY <2>1, <2>10, <4>1
      <4>3. j + 1 = w
        BY <2>2, <4>1, <4>2
      <4>4. j = 1
        BY <2>1, <2>2, <2>10, <4>1
      <4> QED BY <4>2, <4>3, <4>4
    <3>4. i \in 1 .. n - 1 \/ i = n \/ i > n
      BY <2>3
    <3> QED BY <3>1, <3>2, <3>3, <3>4
  <2>11. Handled(c)' => Handled(c) \/ (w = 2 /\ recv_buf[1] = c)
    BY <2>4, <2>10
  <2>12. Handled(c)' <=> Handled(c) \/ (w = 2 /\ recv_buf[1] = c)
    BY <2>8, <2>9, <2>11
  <2> QED BY <2>12 DEF w
<1> QED BY <1>3, <1>4

\* A line that is one token means what the token is called for.
LEMMA TokenLine ==
  ASSUME TypeOK, NewLine = 2, recv_buf[1] \in Commands
  PROVE  Line[1] = recv_buf[1] /\ Parsed = Kind[recv_buf[1]]
<1>1. recv_buf \in Seq(Bytes) /\ Len(recv_buf) \in Nat
  BY LenProperties DEF TypeOK
<1>2. 2 <= Len(recv_buf)
  BY <1>1, NewLineFound
<1>3. \A i \in 1 .. 1 : recv_buf[i] \in Bytes
  BY <1>1, <1>2, ElementOfSeq
<1>4. Line = SubSeq(recv_buf, 1, 1)
  BY DEF Line
<1>5. /\ Line \in Seq(Bytes) /\ Len(Line) = IF 1 <= 1 THEN 1 - 1 + 1 ELSE 0
      /\ \A i \in 1 .. 1 - 1 + 1 : Line[i] = recv_buf[1 + i - 1]
  BY <1>1, <1>3, <1>4, SubSeqProperties
<1>6. Len(Line) = 1 /\ Line[1] = recv_buf[1]
  BY <1>5
<1>7. Line # <<>>
  BY <1>6
<1> QED BY <1>6, <1>7 DEF Parsed

\* The texts of commands are different, so what is read next was not handled before.
LEMMA NotYetHandled ==
  ASSUME TypeInv, TailInv, DistinctInv, NEW c \in Commands, NewLine = 2, recv_buf[1] = c
  PROVE  ~Handled(c)
<1> SUFFICES ASSUME NEW i \in 1 .. Done - 1, read[i] = c PROVE FALSE
  BY DEF Handled
<1>1. /\ recv_buf \in Seq(Bytes) /\ Len(recv_buf) \in Nat
      /\ Len(read) \in Nat /\ Len(chunk) \in Nat
  BY LenProperties DEF TypeInv, TypeOK
<1>2. 1 \in 1 .. Len(recv_buf)
  <2>1. 2 \in 0 .. Len(recv_buf)
    BY <1>1, NewLineFound
  <2> QED BY <1>1, <2>1
<1>3. Done \in Nat /\ Done + 1 \in 1 .. Len(read) /\ i \in 1 .. Len(read) /\ i # Done + 1
  BY <1>1, <1>2 DEF Done, TailInv
<1>4. read[Done + 1] = c
  BY <1>2 DEF TailInv
<1>5. c # NL
  BY NoneAssumption
<1> QED BY <1>3, <1>4, <1>5 DEF DistinctInv

\* Where a line that is answered puts its command.
LEMMA CommandGoes ==
  ASSUME TypeOK, Eval \/ ListBindings \/ Other, Parsed \in {"repl_eval", "list_bindings", "other"},
         Line[1] \in Commands, asked = NONE, NEW c \in Commands
  PROVE  /\ c # Line[1] => /\ InCmdQueue(c)' = InCmdQueue(c) /\ InLogQueue(c)' = InLogQueue(c)
                           /\ c \in lost' <=> c \in lost
                           /\ asked' # c
         /\ c = Line[1] /\ InCmdQueue(c) = {} /\ InLogQueue(c) = {} /\ c \notin lost =>
               \/ /\ Eval /\ Len(cmd_queue) < CmdCapacity
                  /\ \E k : InCmdQueue(c)' = {k}
                  /\ InLogQueue(c)' = {} /\ c \notin lost' /\ asked' # c
               \/ /\ Other
                  /\ \E k : InLogQueue(c)' = {k}
                  /\ InCmdQueue(c)' = {} /\ c \notin lost' /\ asked' # c
               \/ /\ (Eval /\ ~(Len(cmd_queue) < CmdCapacity)) \/ Other
                  /\ InCmdQueue(c)' = {} /\ InLogQueue(c)' = {} /\ c \in lost' /\ asked' # c
               \/ /\ ListBindings
                  /\ InCmdQueue(c)' = {} /\ InLogQueue(c)' = {} /\ c \notin lost' /\ asked' = c
<1> DEFINE d == Line[1]
<1>0. c # NONE
  BY NoneAssumption
<1>1. CASE Eval
  <2>1. UNCHANGED <<log_queue, asked>>
    BY <1>1 DEF Eval
  <2>2. CASE Len(cmd_queue) < CmdCapacity
    <3> DEFINE n == Len(cmd_queue)
    <3>1. cmd_queue' = Append(cmd_queue, d) /\ lost' = lost
      BY <1>1, <2>2 DEF Eval
    <3>2. cmd_queue \in Seq(Commands) /\ n \in Nat /\ DOMAIN cmd_queue = 1 .. n
      BY LenProperties DEF TypeOK
    <3> HIDE DEF d
    <3>3. /\ DOMAIN cmd_queue' = 1 .. n + 1 /\ cmd_queue'[n + 1] = d
          /\ \A i \in 1 .. n : cmd_queue'[i] = cmd_queue[i]
      BY <3>1, <3>2, AppendProperties, LenProperties DEF d
    <3> HIDE DEF n
    <3>4. \A i : i \in 1 .. n + 1 <=> i \in 1 .. n \/ i = n + 1
      BY <3>2
    <3>5. n + 1 \notin 1 .. n
      BY <3>2
    <3>6. InCmdQueue(c)' = InCmdQueue(c) \cup {i \in {n + 1} : d = c}
      BY <3>2, <3>3, <3>4, <3>5 DEF InCmdQueue
    <3>7. InLogQueue(c)' = InLogQueue(c)
      BY <2>1 DEF InLogQueue
    <3> QED BY <1>0, <1>1, <2>1, <2>2, <3>1, <3>6, <3>7 DEF d
  <2>3. CASE ~(Len(cmd_queue) < CmdCapacity)
    <3>1. cmd_queue' = cmd_queue /\ lost' = lost \cup {d}
      BY <1>1, <2>3 DEF Eval
    <3>2. InCmdQueue(c)' = InCmdQueue(c) /\ InLogQueue(c)' = InLogQueue(c)
      BY <2>1, <3>1 DEF InCmdQueue, InLogQueue
    <3> QED BY <1>0, <1>1, <2>1, <2>3, <3>1, <3>2
  <2> QED BY <2>2, <2>3
<1>2. CASE ListBindings
  <2>1. asked' = d /\ UNCHANGED <<log_queue, cmd_queue, lost>>
    BY <1>2 DEF ListBindings, queues
  <2>2. InCmdQueue(c)' = InCmdQueue(c) /\ InLogQueue(c)' = InLogQueue(c)
    BY <2>1 DEF InCmdQueue, InLogQueue
  <2> QED BY <1>2, <2>1, <2>2
<1>3. CASE Other
  <2> DEFINE m    == Msg("command_result", d)
             msgs == <<m>>
  <2>1. Enqueue(msgs) /\ UNCHANGED <<cmd_queue, asked>>
    BY <1>3 DEF Other
  <2>2. m \in Messages /\ m.of = d
    BY MsgTyped DEF Msg
  <2> HIDE DEF m
  <2>3. msgs \in Seq(Messages) /\ DOMAIN msgs = {1} /\ msgs[1].of = d
    BY <2>2
  <2> HIDE DEF msgs
  <2>4. /\ d # c => InLogQueue(c)' = InLogQueue(c) /\ (c \in lost' <=> c \in lost)
        /\ d = c => \/ c \in lost' /\ InLogQueue(c)' = InLogQueue(c)
                    \/ /\ c \in lost' <=> c \in lost
                       /\ \E k : InLogQueue(c)' = InLogQueue(c) \cup {k}
    BY <2>1, <2>3, EnqueuePlaces
  <2>5. InCmdQueue(c)' = InCmdQueue(c)
    BY <2>1 DEF InCmdQueue
  <2> QED BY <1>0, <1>3, <2>1, <2>4, <2>5
<1> QED BY <1>1, <1>2, <1>3

\* Where a command is first, by what its line is.
Placed(c) ==
    \/ Eval /\ Len(cmd_queue) < CmdCapacity /\ Where(c)' = {"cmd_queue"}
    \/ Eval /\ ~(Len(cmd_queue) < CmdCapacity) /\ Where(c)' = {"lost"}
    \/ ListBindings /\ Where(c)' = {"asked"}
    \/ Other /\ \E x \in {"log_queue", "lost"} : Where(c)' = {x}

\* A line is handled: the command it holds, if it is one that is answered, appears
\* in its first place, and the others stay.
LEMMA LinePlaces ==
  ASSUME TypeInv, TailInv, LineInv, DistinctInv, HandleLine, NEW c \in Commands, Alone(c),
         Where(c) # {} <=> c \in Answered /\ Handled(c),
         Handled(c)' <=> Handled(c) \/ (NewLine = 2 /\ recv_buf[1] = c)
  PROVE  /\ Alone(c)' /\ (Where(c)' # {} <=> c \in Answered /\ Handled(c)')
         /\ Parsed \in {"ignored", "garbage"} \/ c # Line[1] => Keeps(c)
         /\ Parsed \notin {"ignored", "garbage"} /\ c = Line[1] =>
                Parsed = Kind[c] /\ Where(c) = {} /\ Placed(c)
<1> DEFINE d == Line[1]
<1>1. /\ pc["reader"] = "line" /\ NewLine > 0 /\ (Eval \/ ListBindings \/ Other)
      /\ UNCHANGED <<held, script, wire>>
  BY DEF HandleLine
<1>2. c # NONE /\ asked = NONE
  BY <1>1, NoneAssumption DEF LineInv
<1>3. InHands(c)' = InHands(c) /\ OnWires(c)' = OnWires(c)
  <2>1. \A t \in Threads : pc'[t] = "send" <=> pc[t] = "send"
    BY <1>1 DEF Eval, ListBindings, Other, Goto, TypeInv, TypeOK
  <2> QED BY <1>1, <2>1 DEF InHands, OnWires
<1>4. CASE Parsed \in {"repl_eval", "list_bindings", "other"}
  <2>1. NewLine = 2 /\ d = recv_buf[1] /\ d \in Commands
    BY <1>1, <1>4, LineFacts DEF TypeInv
  <2>2. Parsed = Kind[d]
    BY <2>1, TokenLine DEF TypeInv
  <2>3. d \in Answered
    BY <1>4, <2>1, <2>2 DEF Answered
  <2>4. CASE c # d
    <3>1. Handled(c)' <=> Handled(c)
      BY <2>1, <2>4
    <3>2. /\ InCmdQueue(c)' = InCmdQueue(c) /\ InLogQueue(c)' = InLogQueue(c)
          /\ c \in lost' <=> c \in lost
          /\ asked' # c
      BY <1>1, <1>2, <1>4, <2>1, <2>4, CommandGoes DEF TypeInv
    <3>3. Stays(c)
      BY <1>1, <1>2, <1>3, <3>2 DEF Stays
    <3>4. Carried(c) /\ Keeps(c)
      BY <3>3, StaysCarried
    <3> QED BY <2>4, <3>1, <3>4 DEF Carried
  <2>5. CASE c = d
    <3>1. Where(c) = {} /\ Handled(c)'
      BY <2>1, <2>5, NotYetHandled
    <3>2. /\ InCmdQueue(c) = {} /\ InLogQueue(c) = {} /\ InHands(c)' = {} /\ OnWires(c)' = {}
          /\ script' # c /\ c \notin lost
      BY <1>1, <1>3, <3>1 DEF Where
    <3>3. /\ Sole(InCmdQueue(c)') /\ Sole(InLogQueue(c)')
          /\ \/ /\ Eval /\ Len(cmd_queue) < CmdCapacity
                /\ InCmdQueue(c)' # {} /\ InLogQueue(c)' = {} /\ c \notin lost' /\ asked' # c
             \/ /\ Other
                /\ InLogQueue(c)' # {} /\ InCmdQueue(c)' = {} /\ c \notin lost' /\ asked' # c
             \/ /\ (Eval /\ ~(Len(cmd_queue) < CmdCapacity)) \/ Other
                /\ InCmdQueue(c)' = {} /\ InLogQueue(c)' = {} /\ c \in lost' /\ asked' # c
             \/ /\ ListBindings
                /\ InCmdQueue(c)' = {} /\ InLogQueue(c)' = {} /\ c \notin lost' /\ asked' = c
      BY <1>1, <1>2, <1>4, <2>1, <2>5, <3>2, CommandGoes DEF TypeInv, Sole
    <3>4. Placed(c)
      BY <3>2, <3>3 DEF Where, Placed
    <3>5. \E x : Where(c)' = {x}
      BY <3>4 DEF Placed
    <3>6. Sole(Where(c)') /\ Where(c)' # {}
      BY <3>5 DEF Sole
    <3>7. Sole(InHands(c)') /\ Sole(OnWires(c)')
      BY <3>2 DEF Sole
    <3> QED BY <1>4, <2>2, <2>3, <2>5, <3>1, <3>3, <3>4, <3>6, <3>7 DEF Alone
  <2> QED BY <2>4, <2>5
<1>5. CASE Parsed \in {"ignored", "garbage"}
  <2>1. Other /\ UNCHANGED <<cmd_queue, asked>>
    BY <1>1, <1>5 DEF Eval, ListBindings, Other
  <2>2. InLogQueue(c)' = InLogQueue(c) /\ (c \in lost' <=> c \in lost)
    <3>1. CASE Parsed = "garbage"
      <4>1. Enqueue(Logged(1))
        BY <2>1, <3>1 DEF Other
      <4> QED BY <4>1, LoggingPlaces DEF TypeInv
    <3>2. CASE Parsed = "ignored"
      <4>1. Enqueue(<<>>)
        BY <2>1, <3>2 DEF Other
      <4>2. <<>> \in Seq(Messages) /\ DOMAIN <<>> = {}
        BY EmptySeq
      <4> QED BY <4>1, <4>2, EnqueuePlaces DEF TypeInv
    <3> QED BY <1>5, <3>1, <3>2
  <2>3. InCmdQueue(c)' = InCmdQueue(c)
    BY <2>1 DEF InCmdQueue
  <2>4. Stays(c)
    BY <1>1, <1>3, <2>1, <2>2, <2>3 DEF Stays
  <2>5. Carried(c) /\ Keeps(c)
    BY <2>4, StaysCarried
  <2>6. c \in Answered => (Handled(c)' <=> Handled(c))
    <3>1. ASSUME NewLine = 2, recv_buf[1] = c PROVE c \notin Answered
      <4>1. Parsed = Kind[c]
        BY <3>1, TokenLine DEF TypeInv
      <4> QED BY <1>5, <4>1 DEF Answered
    <3> QED BY <3>1
  <2> QED BY <1>5, <2>5, <2>6 DEF Carried
<1>6. Parsed \in {"repl_eval", "list_bindings", "other", "ignored", "garbage"}
  BY <1>1 DEF Eval, ListBindings, Other
<1> QED BY <1>4, <1>5, <1>6

-----------------------------------------------------------------------------
(* Each command received is in exactly one place. *)

LEMMA PlaceNext ==
  ASSUME TypeInv, TypeInv', TailInv, LineInv, DistinctInv, PlaceInv, Next PROVE PlaceInv'
<1> SUFFICES ASSUME NEW c \in Commands
             PROVE  Alone(c)' /\ (Where(c)' # {} <=> c \in Answered /\ Handled(c)')
  BY DEF PlaceInv, Answered
<1>1. Alone(c) /\ (Where(c) # {} <=> c \in Answered /\ Handled(c))
  BY DEF PlaceInv
<1>2. CASE HandleLine
  BY <1>1, <1>2, HandledNext, LinePlaces
<1>3. CASE ~HandleLine
  <2>1. Handled(c)' <=> Handled(c)
    BY <1>3, HandledNext
  <2>2. ASSUME \/ \E t \in Threads : WarnDrops(t)
               \/ \E k \in Conns : Connect(k)
               \/ Flush \/ AppLog \/ Exec \/ UpdateReturns \/ Accept
               \/ Read \/ ReadFails \/ Disconnect \/ AppendData \/ NoMoreLines
        PROVE  Carried(c)
    <3>1. Stays(c)
      BY <2>2, OthersStay
    <3> QED BY <1>1, <3>1, StaysCarried
  <2>3. ASSUME \/ \E t \in Threads : Take(t) \/ SendHeld(t)
               \/ Update \/ Result \/ Listed
        PROVE  Carried(c)
    BY <1>1, <2>3, TakeCarries, SendHeldCarries, UpdateCarries, ResultCarries, ListedCarries
  <2>4. Carried(c)
    BY <1>3, <2>2, <2>3 DEF Next, Drain, App, Reader
  <2> QED BY <1>1, <2>1, <2>4 DEF Carried
<1> QED BY <1>2, <1>3

\* The places that Places names are those of the kinds that Where names.
LEMMA PlacesCounted ==
  ASSUME TypeOK, NEW c \in Commands, Alone(c)
  PROVE  Cardinality(Places(c)) <= 1 /\ (Places(c) # {} <=> Where(c) # {})
<1> DEFINE A == {<<"cmd_queue", i>> : i \in InCmdQueue(c)}
           B == {<<"log_queue", i>> : i \in InLogQueue(c)}
           C == {<<"held", t>> : t \in InHands(c)}
           D == UNION {{<<"wire", k, i>> : i \in {i \in DOMAIN wire[k] : wire[k][i].of = c}} : k \in Conns}
           E == {x \in {<<"asked">>}  : asked = c}
           F == {x \in {<<"script">>} : script = c}
           G == {x \in {<<"lost">>}   : c \in lost}
<1>1. Places(c) = A \cup B \cup C \cup D \cup E \cup F \cup G
  BY DEF Places, InCmdQueue, InLogQueue, InHands
<1>2. Sole(A) /\ Sole(B) /\ Sole(C) /\ Sole(E) /\ Sole(F) /\ Sole(G)
  BY DEF Alone, Sole
<1>3. /\ A # {} <=> InCmdQueue(c) # {}
      /\ B # {} <=> InLogQueue(c) # {}
      /\ C # {} <=> InHands(c) # {}
      /\ E # {} <=> asked = c
      /\ F # {} <=> script = c
      /\ G # {} <=> c \in lost
  OBVIOUS
<1>4. ASSUME NEW x \in D
      PROVE  \E ki \in OnWires(c) : x = <<"wire", ki[1], ki[2]>>
  <2>1. PICK k \in Conns : x \in {<<"wire", k, i>> : i \in {i \in DOMAIN wire[k] : wire[k][i].of = c}}
    OBVIOUS
  <2>2. PICK i \in DOMAIN wire[k] : wire[k][i].of = c /\ x = <<"wire", k, i>>
    BY <2>1
  <2>3. i \in Nat
    <3>1. DOMAIN wire[k] = 1 .. Len(wire[k]) /\ Len(wire[k]) \in Nat
      BY LenProperties DEF TypeOK
    <3> QED BY <3>1
  <2>4. <<k, i>> \in OnWires(c)
    BY <2>2, <2>3 DEF OnWires
  <2> QED BY <2>2, <2>4
<1>5. ASSUME NEW ki \in OnWires(c) PROVE <<"wire", ki[1], ki[2]>> \in D
  BY DEF OnWires
<1>6. Sole(D) /\ (D # {} <=> OnWires(c) # {})
  <2>1. Sole(OnWires(c))
    BY DEF Alone
  <2> HIDE DEF D
  <2>2. D # {} <=> OnWires(c) # {}
    BY <1>4, <1>5
  <2>3. Sole(D)
    BY <1>4, <2>1 DEF Sole
  <2> QED BY <2>2, <2>3
<1> HIDE DEF A, B, C, D, E, F, G
<1>7. /\ A # {} <=> "cmd_queue" \in Where(c)
      /\ B # {} <=> "log_queue" \in Where(c)
      /\ C # {} <=> "held" \in Where(c)
      /\ D # {} <=> "wire" \in Where(c)
      /\ E # {} <=> "asked" \in Where(c)
      /\ F # {} <=> "script" \in Where(c)
      /\ G # {} <=> "lost" \in Where(c)
      /\ Where(c) \subseteq {"cmd_queue", "log_queue", "held", "wire", "asked", "script", "lost"}
  BY <1>3, <1>6 DEF Where
<1>8. Sole(Where(c))
  BY DEF Alone
<1> HIDE DEF Where
<1>9. Places(c) # {} <=> Where(c) # {}
  BY <1>1, <1>7
<1>10. \A x, y \in Places(c) : x = y
  BY <1>1, <1>2, <1>6, <1>7, <1>8 DEF Sole
<1>11. Cardinality(Places(c)) <= 1
  <2>1. CASE Places(c) = {}
    BY <2>1, FS_EmptySet
  <2>2. CASE Places(c) # {}
    <3>1. PICK x \in Places(c) : TRUE
      BY <2>2
    <3>2. Places(c) = {x}
      BY <1>10
    <3>3. Cardinality({x}) = 1
      BY FS_Singleton
    <3> QED BY <3>2, <3>3
  <2> QED BY <2>1, <2>2
<1> QED BY <1>9, <1>11

\* At rest all that was received has been handled.
LEMMA AllHandled ==
  ASSUME TypeInv, TailInv, LineInv, pc["reader"] \in {"read", "idle"}, NEW c \in Commands
  PROVE  Received(c) <=> Handled(c)
<1> DEFINE n == Len(read)
           m == Len(recv_buf)
<1>1. n \in Nat /\ m \in Nat /\ Len(chunk) = 0
  BY LenProperties DEF TypeInv, TypeOK, TailInv, Emptied
<1>2. Done = n - m /\ Done >= 0
  BY <1>1 DEF Done, TailInv
<1>3. \A j \in 1 .. m : read[Done + j] # NL
  BY DEF TailInv, LineInv, Calm
<1> HIDE DEF n, m
<1>4. ASSUME NEW i \in 1 .. n - 1, read[i + 1] = NL PROVE i \in 1 .. Done - 1
  <2>1. CASE i + 1 <= Done
    BY <1>1, <1>2, <2>1
  <2>2. CASE ~(i + 1 <= Done)
    <3>1. i + 1 - Done \in 1 .. m /\ Done + (i + 1 - Done) = i + 1
      BY <1>1, <1>2, <2>2
    <3> QED BY <1>3, <1>4, <3>1
  <2> QED BY <2>1, <2>2
<1>5. \A i \in 1 .. Done - 1 : i \in 1 .. n - 1
  BY <1>1, <1>2
<1>6. Received(c) => Handled(c)
  BY <1>4 DEF Received, Handled, n
<1>7. Handled(c) => Received(c)
  BY <1>5 DEF Received, Handled, n
<1> QED BY <1>6, <1>7

LEMMA PlacesHold ==
  ASSUME DifferentCommands
  PROVE  Spec => [](TypeInv /\ TailInv /\ LineInv /\ DistinctInv /\ PlaceInv)
<1>1. Init /\ TypeInv => TailInv /\ LineInv /\ DistinctInv /\ PlaceInv
  <2> SUFFICES ASSUME Init, TypeInv PROVE TailInv /\ LineInv /\ DistinctInv /\ PlaceInv
    OBVIOUS
  <2>1. Len(<<>>) = 0 /\ DOMAIN <<>> = {}
    OBVIOUS
  <2>2. TailInv
    BY <2>1 DEF Init, TailInv, Done, Emptied, InTouch, Threads
  <2>3. Done = 0
    <3>1. Len(read) = 0 /\ Len(recv_buf) = 0 /\ Len(chunk) = 0
      BY <2>1 DEF Init
    <3> QED BY <3>1 DEF Done
  <2>4. LineInv
    <3>1. Len(recv_buf) = 0 /\ asked = NONE /\ script = NONE
      BY <2>1 DEF Init
    <3> QED BY <2>3, <3>1 DEF LineInv
  <2>5. DistinctInv
    BY <2>1 DEF Init, DistinctInv, DifferentCommands
  <2>6. ASSUME NEW c \in Commands
        PROVE  Alone(c) /\ (Where(c) # {} <=> c \in Answered /\ Handled(c))
    <3>1. InCmdQueue(c) = {} /\ InLogQueue(c) = {} /\ OnWires(c) = {}
      BY <2>1 DEF Init, InCmdQueue, InLogQueue, OnWires
    <3>2. InHands(c) = {}
      BY DEF Init, InHands, Threads
    <3>3. asked # c /\ script # c /\ c \notin lost
      BY NoneAssumption DEF Init
    <3>4. Where(c) = {}
      BY <3>1, <3>2, <3>3 DEF Where
    <3>5. ~Handled(c)
      BY <2>3 DEF Handled
    <3> QED BY <3>1, <3>2, <3>4, <3>5 DEF Alone, Sole
  <2> QED BY <2>2, <2>4, <2>5, <2>6 DEF PlaceInv
<1>2. TypeInv /\ TypeInv' /\ TailInv /\ LineInv /\ DistinctInv /\ PlaceInv /\ [Next]_vars
          => TailInv' /\ LineInv' /\ DistinctInv' /\ PlaceInv'
  <2>1. ASSUME TailInv, LineInv, DistinctInv, PlaceInv, UNCHANGED vars
        PROVE  TailInv' /\ LineInv' /\ DistinctInv' /\ PlaceInv'
    <3>1. /\ UNCHANGED <<recv_buf, chunk, read, tosend, pc, script, asked>>
          /\ UNCHANGED <<cmd_queue, log_queue, held, wire, asked, script, lost>>
      BY <2>1 DEF vars, queues, hist
    <3>2. Done' = Done
      BY <3>1 DEF Done
    <3>3. TailInv'
      BY <2>1, <3>1, <3>2 DEF TailInv
    <3>4. LineInv'
      BY <2>1, <3>1, <3>2 DEF LineInv
    <3>5. DistinctInv'
      BY <2>1, <3>1 DEF DistinctInv
    <3>6. PlaceInv'
      <4> SUFFICES ASSUME NEW c \in Commands
                   PROVE  Alone(c)' /\ (Where(c)' # {} <=> c \in Answered /\ Handled(c)')
        BY DEF PlaceInv, Answered
      <4>1. Stays(c)
        BY <3>1, HandsFree
      <4>2. Handled(c)' <=> Handled(c)
        BY <3>1, <3>2 DEF Handled
      <4> QED BY <2>1, <4>1, <4>2, SameWhere DEF PlaceInv
    <3> QED BY <3>3, <3>4, <3>5, <3>6
  <2>2. ASSUME TypeInv, TypeInv', TailInv, LineInv, DistinctInv, PlaceInv, Next
        PROVE  TailInv' /\ LineInv' /\ DistinctInv' /\ PlaceInv'
    <3>1. TailInv'
      BY <2>2, TailNext
    <3>2. LineInv'
      BY <2>2, LineNext
    <3>3. DistinctInv'
      BY <2>2, DistinctNext
    <3>4. PlaceInv'
      BY <2>2, PlaceNext
    <3> QED BY <3>1, <3>2, <3>3, <3>4
  <2> QED BY <2>1, <2>2
<1> QED BY <1>1, <1>2, SessionTyping, PTL DEF Spec

(* Every command that was received is, until the end of time, in exactly one *)
(* place - a ring, the hands of a thread, a wire, or among those lost to a   *)
(* full ring or for want of a client - and one that was not is in none       *)
(* (handle_data, update, send_repl_result, drain_log_queue): no command is   *)
(* lost silently or answered twice, however the bytes are cut into chunks    *)
(* and whoever drains.                                                       *)
THEOREM OnePlaceEach ==
  ASSUME DifferentCommands PROVE Spec => []OnePlace
<1>1. TypeInv /\ TailInv /\ LineInv /\ PlaceInv => OnePlace
  <2> SUFFICES ASSUME TypeInv, TailInv, LineInv, PlaceInv, NEW c \in Commands
               PROVE  /\ Cardinality(Places(c)) <= 1
                      /\ pc["reader"] \in {"read", "idle"} =>
                             (Places(c) # {} <=> c \in Answered /\ Received(c))
    BY DEF OnePlace
  <2>1. Alone(c) /\ (Where(c) # {} <=> c \in Answered /\ Handled(c))
    BY DEF PlaceInv
  <2>2. Cardinality(Places(c)) <= 1 /\ (Places(c) # {} <=> Where(c) # {})
    BY <2>1, PlacesCounted DEF TypeInv
  <2> QED BY <2>1, <2>2, AllHandled
<1> QED BY <1>1, PlacesHold, PTL

-----------------------------------------------------------------------------
(* The refinement: the stages of CommandService by where a command is.       *)

StageAt(w, running) ==
    CASE w = {}                         -> "unread"
      [] w = {"cmd_queue"}              -> "waiting"
      [] w = {"asked"}                  -> "running"
      [] w = {"script"}                 -> IF running THEN "running" ELSE "ran"
      [] w \in {{"log_queue"}, {"held"}} -> "answered"
      [] w = {"wire"}                   -> "delivered"
      [] w = {"lost"}                   -> "lost"

LEMMA StageFits ==
  TypeOK => \A c \in Commands : Alone(c) => StageOf(c) = StageAt(Where(c), pc["app"] = "exec")
<1> SUFFICES ASSUME TypeOK, NEW c \in Commands, Alone(c)
             PROVE  StageOf(c) = StageAt(Where(c), pc["app"] = "exec")
  OBVIOUS
<1> DEFINE delivered == \E k \in Conns : \E m \in ToSet(wire[k]) : m.of = c
           answered  == \/ \E m \in ToSet(log_queue) : m.of = c
                        \/ \E t \in Threads : pc[t] = "send" /\ held[t].of = c
           waits     == c \in ToSet(cmd_queue)
           e         == pc["app"] = "exec"
<1>1. delivered <=> "wire" \in Where(c)
  <2>1. ASSUME NEW k \in Conns, NEW m \in ToSet(wire[k]), m.of = c PROVE OnWires(c) # {}
    <3>1. PICK i \in DOMAIN wire[k] : wire[k][i] = m
      BY DEF ToSet
    <3>2. DOMAIN wire[k] = 1 .. Len(wire[k]) /\ Len(wire[k]) \in Nat
      BY LenProperties DEF TypeOK
    <3>3. <<k, i>> \in OnWires(c)
      BY <2>1, <3>1, <3>2 DEF OnWires
    <3> QED BY <3>3
  <2>2. ASSUME NEW ki \in OnWires(c) PROVE delivered
    <3>1. ki[1] \in Conns /\ wire[ki[1]][ki[2]] \in ToSet(wire[ki[1]]) /\ wire[ki[1]][ki[2]].of = c
      BY DEF OnWires, ToSet
    <3> QED BY <3>1
  <2>3. delivered <=> OnWires(c) # {}
    BY <2>1, <2>2
  <2> QED BY <2>3 DEF Where
<1>2. answered <=> Where(c) \cap {"log_queue", "held"} # {}
  <2>1. (\E m \in ToSet(log_queue) : m.of = c) <=> InLogQueue(c) # {}
    BY DEF ToSet, InLogQueue
  <2>2. answered <=> InLogQueue(c) # {} \/ InHands(c) # {}
    BY <2>1 DEF InHands
  <2> QED BY <2>2 DEF Where
<1>3. waits <=> "cmd_queue" \in Where(c)
  <2>1. waits <=> InCmdQueue(c) # {}
    BY DEF ToSet, InCmdQueue
  <2> QED BY <2>1 DEF Where
<1>4. /\ c \in lost <=> "lost" \in Where(c)
      /\ script = c <=> "script" \in Where(c)
      /\ asked = c <=> "asked" \in Where(c)
      /\ Where(c) \subseteq {"cmd_queue", "log_queue", "held", "wire", "asked", "script", "lost"}
  BY DEF Where
<1>5. \A x, y \in Where(c) : x = y
  BY DEF Alone, Sole
<1>6. StageOf(c) = CASE c \in lost  -> "lost"
                     [] delivered   -> "delivered"
                     [] answered    -> "answered"
                     [] script = c  -> IF e THEN "running" ELSE "ran"
                     [] asked = c   -> "running"
                     [] waits       -> "waiting"
                     [] OTHER       -> "unread"
  BY DEF StageOf
<1> HIDE DEF delivered, answered, waits, e, Where
<1>7. \E x \in {{}, {"cmd_queue"}, {"log_queue"}, {"held"}, {"wire"}, {"asked"}, {"script"}, {"lost"}} :
          Where(c) = x
  BY <1>4, <1>5
<1>8. StageOf(c) = StageAt(Where(c), e)
  <2>1. CASE Where(c) = {}
    BY <1>1, <1>2, <1>3, <1>4, <1>6, <2>1 DEF StageAt
  <2>2. CASE Where(c) = {"cmd_queue"}
    BY <1>1, <1>2, <1>3, <1>4, <1>6, <2>2 DEF StageAt
  <2>3. CASE Where(c) = {"log_queue"}
    BY <1>1, <1>2, <1>3, <1>4, <1>6, <2>3 DEF StageAt
  <2>4. CASE Where(c) = {"held"}
    BY <1>1, <1>2, <1>3, <1>4, <1>6, <2>4 DEF StageAt
  <2>5. CASE Where(c) = {"wire"}
    BY <1>1, <1>2, <1>3, <1>4, <1>6, <2>5 DEF StageAt
  <2>6. CASE Where(c) = {"asked"}
    BY <1>1, <1>2, <1>3, <1>4, <1>6, <2>6 DEF StageAt
  <2>7. CASE Where(c) = {"script"}
    BY <1>1, <1>2, <1>3, <1>4, <1>6, <2>7 DEF StageAt
  <2>8. CASE Where(c) = {"lost"}
    BY <1>1, <1>2, <1>3, <1>4, <1>6, <2>8 DEF StageAt
  <2> QED BY <1>7, <2>1, <2>2, <2>3, <2>4, <2>5, <2>6, <2>7, <2>8
<1> QED BY <1>8 DEF e

LEMMA StageFitsNext ==
  TypeOK' => \A c \in Commands : Alone(c)' => StageOf(c)' = StageAt(Where(c)', pc'["app"] = "exec")
<1>1. (TypeOK => \A c \in Commands : Alone(c) => StageOf(c) = StageAt(Where(c), pc["app"] = "exec"))'
  BY StageFits, PTL
<1> QED BY <1>1

\* What waits to run is a script, and what list_globals is called for asks for it.
KindInv ==
    /\ \A i \in DOMAIN cmd_queue : Kind[cmd_queue[i]] = "repl_eval"
    /\ script \in Commands => Kind[script] = "repl_eval"
    /\ asked \in Commands => Kind[asked] = "list_bindings"

\* Who touches the command ring, and who runs what.
LEMMA WhoRuns ==
  ASSUME TypeInv, Next
  PROVE  /\ \/ HandleLine \/ Update \/ Result \/ Listed
            \/ UNCHANGED <<cmd_queue, script, asked>>
         /\ HandleLine \/ Update \/ cmd_queue' = cmd_queue
         /\ Exec \/ executed' = executed
         /\ Exec \/ Update \/ (pc'["app"] = "exec" <=> pc["app"] = "exec")
<1> USE DEF TypeInv, TypeOK, Threads, Goto
<1>1. ASSUME NEW t \in Threads, Drain(t) PROVE
          /\ UNCHANGED <<cmd_queue, script, asked, executed>>
          /\ pc'["app"] = "exec" <=> pc["app"] = "exec"
  <2>1. CASE Take(t)
    BY <1>1, <2>1 DEF Take, hist
  <2>2. CASE SendHeld(t)
    BY <1>1, <2>2 DEF SendHeld, queues
  <2>3. CASE WarnDrops(t)
    BY <1>1, <2>3 DEF WarnDrops, After
  <2> QED BY <1>1, <2>1, <2>2, <2>3 DEF Drain
<1>2. CASE Flush \/ AppLog \/ UpdateReturns
  BY <1>2 DEF Flush, AppLog, UpdateReturns, queues, hist
<1>3. CASE Update \/ Exec \/ Result
  BY <1>3 DEF Update, Exec, Result, queues
<1>4. CASE Accept
  BY <1>4 DEF Accept, Install, SetConnected, Handshake, Rest
<1>5. ASSUME NEW c \in Conns, Connect(c) PROVE
          UNCHANGED <<cmd_queue, script, asked, executed>> /\ pc'["app"] = pc["app"]
  BY <1>5 DEF Connect, Rest
<1>6. CASE Read \/ ReadFails \/ Disconnect \/ NoMoreLines \/ AppendData
  BY <1>6 DEF Read, ReadFails, Disconnect, NoMoreLines, AppendData, queues, hist
<1>7. CASE Listed
  BY <1>7 DEF Listed
<1>8. CASE HandleLine
  BY <1>8 DEF HandleLine, Eval, ListBindings, Other
<1> QED BY <1>1, <1>2, <1>3, <1>4, <1>5, <1>6, <1>7, <1>8 DEF Next, Reader, App

LEMMA KindNext ==
  ASSUME TypeInv, KindInv, Next PROVE KindInv'
<1>0. NONE \notin Commands /\ cmd_queue \in Seq(Commands)
  BY NoneAssumption DEF TypeInv, TypeOK
<1>1. CASE UNCHANGED <<cmd_queue, script, asked>>
  BY <1>1 DEF KindInv
<1>2. CASE Update
  <2>1. /\ cmd_queue # <<>> /\ script' = Head(cmd_queue) /\ cmd_queue' = Tail(cmd_queue)
        /\ asked' = asked
    BY <1>2 DEF Update
  <2>2. Len(cmd_queue) \in Nat /\ Len(cmd_queue) # 0 /\ DOMAIN cmd_queue = 1 .. Len(cmd_queue)
    BY <1>0, <2>1, EmptySeq, LenProperties
  <2>3. /\ Head(cmd_queue) = cmd_queue[1] /\ Tail(cmd_queue) \in Seq(Commands)
        /\ Len(Tail(cmd_queue)) = Len(cmd_queue) - 1
        /\ \A i \in 1 .. Len(cmd_queue) - 1 : Tail(cmd_queue)[i] = cmd_queue[i + 1]
    BY <1>0, <2>1, HeadTailProperties
  <2>4. DOMAIN cmd_queue' = 1 .. Len(cmd_queue) - 1
    BY <2>1, <2>3, LenProperties
  <2>5. /\ 1 \in DOMAIN cmd_queue
        /\ \A i \in 1 .. Len(cmd_queue) - 1 : i + 1 \in DOMAIN cmd_queue
    BY <2>2
  <2> QED BY <2>1, <2>3, <2>4, <2>5 DEF KindInv
<1>3. CASE Result
  BY <1>0, <1>3 DEF Result, KindInv
<1>4. CASE Listed
  BY <1>0, <1>4 DEF Listed, KindInv
<1>5. CASE HandleLine
  <2>1. Eval \/ ListBindings => Line[1] \in Commands /\ Parsed = Kind[Line[1]]
    <3>1. Eval \/ ListBindings => NewLine = 2 /\ Line[1] = recv_buf[1] /\ Line[1] \in Commands
      BY <1>5, LineFacts DEF HandleLine, Eval, ListBindings, TypeInv
    <3> QED BY <3>1, TokenLine DEF TypeInv
  <2>2. script' = script
    BY <1>5 DEF HandleLine
  <2>3. CASE Eval /\ Len(cmd_queue) < CmdCapacity
    <3> DEFINE n == Len(cmd_queue)
               d == Line[1]
    <3>1. /\ cmd_queue' = Append(cmd_queue, d) /\ asked' = asked
          /\ Kind[d] = "repl_eval" /\ d \in Commands
      BY <2>1, <2>3 DEF Eval
    <3>2. n \in Nat /\ DOMAIN cmd_queue = 1 .. n
      BY <1>0, LenProperties
    <3> HIDE DEF d
    <3>3. /\ DOMAIN cmd_queue' = 1 .. n + 1 /\ cmd_queue'[n + 1] = d
          /\ \A i \in 1 .. n : cmd_queue'[i] = cmd_queue[i]
      BY <1>0, <3>1, <3>2, AppendProperties, LenProperties
    <3> HIDE DEF n
    <3>4. \A i \in 1 .. n + 1 : i \in 1 .. n \/ i = n + 1
      BY <3>2
    <3> QED BY <2>2, <3>1, <3>2, <3>3, <3>4 DEF KindInv
  <2>4. CASE Eval /\ ~(Len(cmd_queue) < CmdCapacity)
    BY <2>2, <2>4 DEF Eval, KindInv
  <2>5. CASE ListBindings
    BY <2>1, <2>2, <2>5 DEF ListBindings, KindInv, queues
  <2>6. CASE Other
    BY <2>2, <2>6 DEF Other, KindInv
  <2> QED BY <1>5, <2>3, <2>4, <2>5, <2>6 DEF HandleLine
<1> QED BY <1>1, <1>2, <1>3, <1>4, <1>5, WhoRuns

\* A step of the service, command by command.
LEMMA StageMoves ==
  ASSUME NEW c \in Commands, NEW from, NEW to, StageOf(c) = from, StageOf(c)' = to,
         \A d \in Commands : d # c => StageOf(d)' = StageOf(d)
  PROVE  Service!Move(c, from, to)
BY DEF Service!Move

LEMMA StageKept ==
  ASSUME TypeOK, TypeOK', NEW c \in Commands, Alone(c), Alone(c)',
         Keeps(c) \/ Moves(c, "log_queue", {"held"}),
         Where(c) = {"script"} => (pc'["app"] = "exec" <=> pc["app"] = "exec")
  PROVE  StageOf(c)' = StageOf(c)
<1>1. /\ StageOf(c) = StageAt(Where(c), pc["app"] = "exec")
      /\ StageOf(c)' = StageAt(Where(c)', pc'["app"] = "exec")
  BY StageFits, StageFitsNext
<1>2. CASE Moves(c, "log_queue", {"held"})
  <2>1. Where(c) = {"log_queue"} /\ Where(c)' = {"held"}
    BY <1>2 DEF Moves
  <2> HIDE DEF Where
  <2> QED BY <1>1, <2>1 DEF StageAt
<1>3. CASE Keeps(c)
  <2>1. Where(c)' = Where(c)
    BY <1>3 DEF Keeps
  <2> DEFINE w == Where(c)
             e == pc["app"] = "exec"
             f == pc'["app"] = "exec"
  <2>2. w = {"script"} => (e <=> f)
    OBVIOUS
  <2> HIDE DEF w, e, f
  <2>3. StageAt(w, f) = StageAt(w, e)
    BY <2>2 DEF StageAt
  <2> QED BY <1>1, <2>1, <2>3 DEF w, e, f
<1> QED BY <1>2, <1>3

SimInv == TypeInv /\ TailInv /\ LineInv /\ DistinctInv /\ PlaceInv /\ KindInv

\* The stages before and after a step by the places, and what alters no stage.
LEMMA StagesRead ==
  ASSUME SimInv, SimInv', NEW c \in Commands
  PROVE  /\ Alone(c) /\ Alone(c)' /\ c # NONE
         /\ StageOf(c) = StageAt(Where(c), pc["app"] = "exec")
         /\ StageOf(c)' = StageAt(Where(c)', pc'["app"] = "exec")
         /\ Where(c) = {"script"} => script = c
         /\ script = c => Where(c) = {"script"}
         /\ asked = c => Where(c) = {"asked"}
<1>1. Alone(c) /\ Alone(c)' /\ c # NONE
  BY NoneAssumption DEF SimInv, PlaceInv
<1>2. /\ StageOf(c) = StageAt(Where(c), pc["app"] = "exec")
      /\ StageOf(c)' = StageAt(Where(c)', pc'["app"] = "exec")
  BY <1>1, StageFits, StageFitsNext DEF SimInv, TypeInv
<1>3. Where(c) = {"script"} => script = c
  BY NotElsewhere DEF Where
<1>4. (script = c => Where(c) = {"script"}) /\ (asked = c => Where(c) = {"asked"})
  BY <1>1, OnlyThere
<1> QED BY <1>1, <1>2, <1>3, <1>4

\* Stutters: nothing moves, or an answer goes from the ring into the hands of a thread.
LEMMA Rests ==
  ASSUME SimInv, SimInv', UNCHANGED <<cmd_queue, executed>>,
         pc'["app"] = "exec" <=> pc["app"] = "exec",
         \A c \in Commands : Keeps(c) \/ Moves(c, "log_queue", {"held"})
  PROVE  UNCHANGED Service!svars
<1>1. \A c \in Commands : StageOf(c)' = StageOf(c)
  BY StageKept DEF SimInv, TypeInv, PlaceInv
<1> QED BY <1>1 DEF Service!svars

\* One command moves, to one of several places.
LEMMA OneMoves ==
  ASSUME SimInv, SimInv', NEW c \in Commands,
         \A d \in Commands : d # c => Keeps(d),
         pc'["app"] = "exec" <=> pc["app"] = "exec"
  PROVE  Service!Move(c, StageOf(c), StageOf(c)')
<1>1. \A d \in Commands : d # c => StageOf(d)' = StageOf(d)
  BY StageKept DEF SimInv, TypeInv, PlaceInv
<1> QED BY <1>1, StageMoves

LEMMA ExecServes ==
  ASSUME SimInv, SimInv', Exec PROVE \E c \in Commands : Service!Run(c)
<1>1. /\ pc["app"] = "exec" /\ pc'["app"] = "result" /\ script \in Commands
      /\ executed' = Append(executed, script) /\ UNCHANGED <<cmd_queue, script>>
  BY DEF Exec, Goto, queues, SimInv, TypeInv, TypeOK, Roles, Threads
<1>2. \A c \in Commands : Keeps(c)
  <2> TAKE c \in Commands
  <2>1. Stays(c) /\ Alone(c)
    BY OthersStay DEF SimInv, PlaceInv
  <2> QED BY <2>1, StaysCarried
<1>3. StageOf(script) = "running" /\ StageOf(script)' = "ran"
  <2>1. Where(script) = {"script"} /\ Where(script)' = {"script"}
    BY <1>1, <1>2, StagesRead DEF Keeps
  <2>2. /\ StageOf(script) = StageAt(Where(script), pc["app"] = "exec")
        /\ \A c \in Commands : StageOf(c)' = StageAt(Where(c)', pc'["app"] = "exec")
    BY <1>1, StagesRead
  <2>3. StageOf(script)' = StageAt(Where(script)', pc'["app"] = "exec")
    BY <1>1, StageFitsNext, StagesRead DEF SimInv, TypeInv
  <2> HIDE DEF Where
  <2> QED BY <1>1, <2>1, <2>2, <2>3 DEF StageAt
<1>4. \A d \in Commands : d # script => StageOf(d)' = StageOf(d)
  <2> TAKE d \in Commands
  <2>1. ASSUME d # script PROVE Where(d) # {"script"}
    BY <2>1, StagesRead
  <2> QED BY <1>2, <2>1, StageKept, StagesRead DEF SimInv, TypeInv
<1>5. Service!Move(script, "running", "ran")
  BY <1>1, <1>3, <1>4, StageMoves
<1>6. script \in Service!Scripts
  BY <1>1 DEF Service!Scripts, SimInv, KindInv
<1> QED BY <1>1, <1>5, <1>6 DEF Service!Run

LEMMA UpdateServes ==
  ASSUME SimInv, SimInv', Update PROVE Service!Turn
<1>1. /\ cmd_queue \in Seq(Commands) /\ cmd_queue # <<>> /\ cmd_queue' = Tail(cmd_queue)
      /\ pc["app"] \in {"idle", "update"} /\ pc'["app"] = "exec"
      /\ executed' = executed
  BY DEF Update, Goto, SimInv, TypeInv, TypeOK, Threads
<1>2. script = NONE /\ Head(cmd_queue) \in Commands
  BY <1>1, HeadTailProperties DEF SimInv, LineInv
<1> SUFFICES ASSUME NEW d \in Commands, Head(cmd_queue) = d PROVE Service!Turn
  BY <1>2
<1>3. Moves(d, "cmd_queue", {"script"}) /\ \A c \in Commands : c # d => Keeps(c)
  BY UpdateCarries DEF SimInv, PlaceInv
<1>4. \A c \in Commands : Where(c) # {"script"}
  BY <1>2, StagesRead
<1>5. \A c \in Commands : c # d => StageOf(c)' = StageOf(c)
  BY <1>3, <1>4, StageKept, StagesRead DEF SimInv, TypeInv
<1>6. StageOf(d) = "waiting" /\ StageOf(d)' = "running"
  <2>1. Where(d) = {"cmd_queue"} /\ Where(d)' = {"script"}
    BY <1>3 DEF Moves
  <2>2. /\ StageOf(d) = StageAt(Where(d), pc["app"] = "exec")
        /\ StageOf(d)' = StageAt(Where(d)', pc'["app"] = "exec")
    BY StagesRead
  <2> HIDE DEF Where
  <2> QED BY <1>1, <2>1, <2>2 DEF StageAt
<1>7. Service!Move(d, "waiting", "running")
  BY <1>5, <1>6, StageMoves
<1>8. ASSUME NEW c \in Service!Scripts PROVE StageOf(c) \notin {"running", "ran"}
  <2>1. c \in Commands /\ Kind[c] = "repl_eval"
    BY DEF Service!Scripts
  <2>2. Where(c) # {"script"} /\ Where(c) # {"asked"}
    <3>1. Where(c) = {"asked"} => asked = c
      BY DEF Where
    <3> QED BY <1>4, <2>1, <3>1 DEF SimInv, KindInv
  <2>3. StageOf(c) = StageAt(Where(c), pc["app"] = "exec")
    BY <2>1, StagesRead
  <2>4. \E x \in {{}, {"cmd_queue"}, {"log_queue"}, {"held"}, {"wire"}, {"lost"}} : Where(c) = x
    <3>1. Alone(c)
      BY <2>1, StagesRead
    <3>2. /\ \A x, y \in Where(c) : x = y
          /\ Where(c) \subseteq {"cmd_queue", "log_queue", "held", "wire", "asked", "script", "lost"}
      BY <3>1 DEF Alone, Sole, Where
    <3> HIDE DEF Where
    <3> QED BY <2>2, <3>2
  <2> HIDE DEF Where
  <2> QED BY <2>3, <2>4 DEF StageAt
<1>9. \A c \in Service!Scripts : c \in Commands
  BY DEF Service!Scripts
<1> QED BY <1>1, <1>7, <1>8, <1>9 DEF Service!Turn

\* An answer goes into the ring or is lost, in Result, Listed and HandleLine.
LEMMA AnswerServes ==
  ASSUME SimInv, SimInv', UNCHANGED <<cmd_queue, executed>>,
         pc'["app"] = "exec" <=> pc["app"] = "exec",
         NEW c \in Commands, \A d \in Commands : d # c => Keeps(d),
         Kind[c] \in {"repl_eval", "list_bindings", "other"},
         StageOf(c) = Service!Ready[Kind[c]],
         \E x \in {"log_queue", "lost"} : Where(c)' = {x}
  PROVE  Service!Answer(c)
<1>1. Service!Move(c, StageOf(c), StageOf(c)')
  BY OneMoves
<1>2. StageOf(c)' \in {"answered", "lost"}
  <2>1. StageOf(c)' = StageAt(Where(c)', pc'["app"] = "exec")
    BY StagesRead
  <2> HIDE DEF Where
  <2> QED BY <2>1 DEF StageAt
<1>3. Kind[c] \in DOMAIN Service!Ready
  BY DEF Service!Ready
<1> QED BY <1>1, <1>2, <1>3 DEF Service!Answer

LEMMA ResultServes ==
  ASSUME SimInv, SimInv', Result PROVE \E c \in Commands : Service!Answer(c)
<1>1. /\ pc["app"] = "result" /\ pc'["app"] = "update" /\ script \in Commands
      /\ UNCHANGED <<cmd_queue, executed>>
  BY DEF Result, Goto, SimInv, TypeInv, TypeOK, Roles, Threads
<1> SUFFICES ASSUME NEW c \in Commands, script = c PROVE Service!Answer(c)
  BY <1>1
<1>2. Moves(c, "script", {"log_queue", "lost"}) /\ \A d \in Commands : d # c => Keeps(d)
  BY ResultCarries DEF SimInv, PlaceInv
<1>3. Kind[c] = "repl_eval" /\ Service!Ready[Kind[c]] = "ran"
  BY DEF SimInv, KindInv, Service!Ready
<1>4. StageOf(c) = "ran"
  <2>1. StageOf(c) = StageAt({"script"}, pc["app"] = "exec")
    BY StagesRead
  <2> QED BY <1>1, <2>1 DEF StageAt
<1> QED BY <1>1, <1>2, <1>3, <1>4, AnswerServes DEF Moves

LEMMA ListedServes ==
  ASSUME SimInv, SimInv', Listed PROVE \E c \in Commands : Service!Answer(c)
<1>1. /\ asked \in Commands /\ UNCHANGED <<cmd_queue, executed>> /\ pc'["app"] = pc["app"]
  BY DEF Listed, Goto, SimInv, TypeInv, TypeOK, Roles, Threads
<1> SUFFICES ASSUME NEW c \in Commands, asked = c PROVE Service!Answer(c)
  BY <1>1
<1>2. Moves(c, "asked", {"log_queue", "lost"}) /\ \A d \in Commands : d # c => Keeps(d)
  BY ListedCarries DEF SimInv, PlaceInv
<1>3. Kind[c] = "list_bindings" /\ Service!Ready[Kind[c]] = "running"
  BY DEF SimInv, KindInv, Service!Ready
<1>4. StageOf(c) = "running"
  <2>1. StageOf(c) = StageAt({"asked"}, pc["app"] = "exec")
    BY StagesRead
  <2> QED BY <2>1 DEF StageAt
<1> QED BY <1>1, <1>2, <1>3, <1>4, AnswerServes DEF Moves

LEMMA SendServes ==
  ASSUME SimInv, SimInv', NEW t \in Threads, SendHeld(t)
  PROVE  UNCHANGED Service!svars \/ \E c \in Commands : Service!Deliver(c)
<1>1. UNCHANGED <<cmd_queue, executed>> /\ (pc'["app"] = "exec" <=> pc["app"] = "exec")
  BY DEF SendHeld, Goto, queues, SimInv, TypeInv, TypeOK, Threads
<1>2. \A c \in Commands : /\ held[t].of = c => Moves(c, "held", {"wire", "lost"})
                          /\ held[t].of # c => Keeps(c)
  BY SendHeldCarries DEF SimInv, PlaceInv
<1>3. CASE held[t].of \notin Commands
  BY <1>1, <1>2, <1>3, Rests
<1>4. ASSUME NEW c \in Commands, held[t].of = c PROVE Service!Deliver(c)
  <2>1. Service!Move(c, StageOf(c), StageOf(c)')
    BY <1>1, <1>2, <1>4, OneMoves
  <2>2. StageOf(c) = "answered" /\ StageOf(c)' \in {"delivered", "lost"}
    <3>1. Where(c) = {"held"} /\ \E x \in {"wire", "lost"} : Where(c)' = {x}
      BY <1>2, <1>4 DEF Moves
    <3>2. /\ StageOf(c) = StageAt(Where(c), pc["app"] = "exec")
          /\ StageOf(c)' = StageAt(Where(c)', pc'["app"] = "exec")
      BY StagesRead
    <3> HIDE DEF Where
    <3> QED BY <3>1, <3>2 DEF StageAt
  <2> QED BY <1>1, <2>1, <2>2 DEF Service!Deliver
<1> QED BY <1>3, <1>4

LEMMA LineServes ==
  ASSUME SimInv, SimInv', Next, HandleLine
  PROVE  \/ UNCHANGED Service!svars
         \/ \E c \in Commands : Service!Queue(c) \/ Service!Refuse(c) \/ Service!Look(c) \/ Service!Answer(c)
<1>1. /\ NewLine > 0 /\ (Eval \/ ListBindings \/ Other)
      /\ executed' = executed /\ pc'["app"] = pc["app"]
  <2>1. pc'["app"] = pc["app"]
    BY DEF HandleLine, Eval, ListBindings, Other, Goto, SimInv, TypeInv, TypeOK, Threads
  <2> QED BY <2>1 DEF HandleLine
<1>2. ASSUME NEW c \in Commands
      PROVE  /\ Parsed \in {"ignored", "garbage"} \/ c # Line[1] => Keeps(c)
             /\ Parsed \notin {"ignored", "garbage"} /\ c = Line[1] =>
                    Parsed = Kind[c] /\ Where(c) = {} /\ Placed(c)
  <2>1. Alone(c) /\ (Where(c) # {} <=> c \in Answered /\ Handled(c))
    BY DEF SimInv, PlaceInv
  <2>2. Handled(c)' <=> Handled(c) \/ (NewLine = 2 /\ recv_buf[1] = c)
    BY HandledNext DEF SimInv
  <2> QED BY <2>1, <2>2, LinePlaces DEF SimInv
<1>3. CASE Parsed \in {"ignored", "garbage"}
  <2>1. cmd_queue' = cmd_queue
    BY <1>1, <1>3 DEF Eval, ListBindings, Other
  <2> QED BY <1>1, <1>2, <1>3, <2>1, Rests
<1>4. CASE Parsed \notin {"ignored", "garbage"}
  <2>1. Parsed \in {"repl_eval", "list_bindings", "other"}
    BY <1>1, <1>4 DEF Eval, ListBindings, Other
  <2>2. Line[1] \in Commands
    BY <1>1, <2>1, LineFacts DEF SimInv, TypeInv
  <2> SUFFICES ASSUME NEW d \in Commands, Line[1] = d
               PROVE  Service!Queue(d) \/ Service!Refuse(d) \/ Service!Look(d) \/ Service!Answer(d)
    BY <2>2
  <2>3. Parsed = Kind[d] /\ Where(d) = {} /\ Placed(d) /\ \A c \in Commands : c # d => Keeps(c)
    BY <1>2, <1>4
  <2>4. Service!Move(d, StageOf(d), StageOf(d)')
    BY <1>1, <2>3, OneMoves
  <2>5. /\ StageOf(d) = "unread"
        /\ Where(d)' = {"cmd_queue"} => StageOf(d)' = "waiting"
        /\ Where(d)' = {"asked"} => StageOf(d)' = "running"
        /\ Where(d)' = {"lost"} => StageOf(d)' = "lost"
    <3>1. /\ StageOf(d) = StageAt(Where(d), pc["app"] = "exec")
          /\ StageOf(d)' = StageAt(Where(d)', pc'["app"] = "exec")
      BY StagesRead
    <3> HIDE DEF Where
    <3> QED BY <2>3, <3>1 DEF StageAt
  <2>6. Kind[d] = "repl_eval" => d \in Service!Scripts
    BY DEF Service!Scripts
  <2>7. CASE Eval /\ Len(cmd_queue) < CmdCapacity /\ Where(d)' = {"cmd_queue"}
    <3>1. cmd_queue' = Append(cmd_queue, d) /\ Parsed = "repl_eval"
      BY <2>7 DEF Eval
    <3> QED BY <1>1, <2>3, <2>4, <2>5, <2>6, <2>7, <3>1 DEF Service!Queue
  <2>8. CASE Eval /\ ~(Len(cmd_queue) < CmdCapacity) /\ Where(d)' = {"lost"}
    <3>1. cmd_queue' = cmd_queue /\ Parsed = "repl_eval"
      BY <2>8 DEF Eval
    <3>2. Len(cmd_queue) \in Nat /\ CmdCapacity \in Nat
      BY LenProperties, CapacityAssumption DEF SimInv, TypeInv, TypeOK
    <3>3. Len(cmd_queue) >= CmdCapacity
      BY <2>8, <3>2
    <3> QED BY <1>1, <2>3, <2>4, <2>5, <2>6, <2>8, <3>1, <3>3 DEF Service!Refuse
  <2>9. CASE ListBindings /\ Where(d)' = {"asked"}
    <3>1. cmd_queue' = cmd_queue /\ Parsed = "list_bindings"
      BY <2>9 DEF ListBindings, queues
    <3> QED BY <1>1, <2>3, <2>4, <2>5, <2>9, <3>1 DEF Service!Look
  <2>10. CASE Other /\ \E x \in {"log_queue", "lost"} : Where(d)' = {x}
    <3>1. cmd_queue' = cmd_queue /\ Kind[d] = "other"
      BY <1>4, <2>3, <2>10 DEF Other
    <3>2. StageOf(d) = Service!Ready[Kind[d]]
      BY <2>5, <3>1 DEF Service!Ready
    <3> QED BY <1>1, <2>3, <2>10, <3>1, <3>2, AnswerServes
  <2> QED BY <2>3, <2>7, <2>8, <2>9, <2>10 DEF Placed
<1> QED BY <1>3, <1>4

LEMMA StepServes ==
  ASSUME SimInv, SimInv', Next PROVE [Service!Next]_(Service!svars)
<1>1. CASE HandleLine
  BY <1>1, LineServes DEF Service!Next
<1>2. CASE Update
  BY <1>2, UpdateServes DEF Service!Next
<1>3. CASE Exec
  BY <1>3, ExecServes DEF Service!Next
<1>4. CASE Result
  BY <1>4, ResultServes DEF Service!Next
<1>5. CASE Listed
  BY <1>5, ListedServes DEF Service!Next
<1>6. ASSUME NEW t \in Threads, SendHeld(t) PROVE [Service!Next]_(Service!svars)
  BY <1>6, SendServes DEF Service!Next
<1>7. ASSUME ~(HandleLine \/ Update \/ Exec \/ Result \/ Listed \/ \E t \in Threads : SendHeld(t))
      PROVE  UNCHANGED Service!svars
  <2>1. /\ UNCHANGED <<cmd_queue, executed>>
        /\ pc'["app"] = "exec" <=> pc["app"] = "exec"
    BY <1>7, WhoRuns DEF SimInv
  <2>2. ASSUME NEW t \in Threads, Take(t), NEW c \in Commands
        PROVE  Keeps(c) \/ Moves(c, "log_queue", {"held"})
    BY <2>2, TakeCarries DEF SimInv, PlaceInv
  <2>3. ASSUME \/ \E t \in Threads : WarnDrops(t)
               \/ \E k \in Conns : Connect(k)
               \/ Flush \/ AppLog \/ UpdateReturns \/ Accept
               \/ Read \/ ReadFails \/ Disconnect \/ AppendData \/ NoMoreLines,
               NEW c \in Commands
        PROVE  Keeps(c)
    <3>1. Stays(c) /\ Alone(c)
      BY <2>3, OthersStay DEF SimInv, PlaceInv
    <3> QED BY <3>1, StaysCarried
  <2>4. \A c \in Commands : Keeps(c) \/ Moves(c, "log_queue", {"held"})
    BY <1>7, <2>2, <2>3 DEF Next, Drain, App, Reader
  <2> QED BY <2>1, <2>4, Rests
<1> QED BY <1>1, <1>2, <1>3, <1>4, <1>5, <1>6, <1>7

LEMMA SimInvariant ==
  ASSUME DifferentCommands PROVE Spec => []SimInv
<1>1. Init => KindInv
  <2>1. DOMAIN <<>> = {}
    OBVIOUS
  <2> QED BY <2>1, NoneAssumption DEF Init, KindInv
<1>2. TypeInv /\ KindInv /\ [Next]_vars => KindInv'
  <2>1. ASSUME KindInv, UNCHANGED vars PROVE KindInv'
    BY <2>1 DEF KindInv, vars, queues
  <2> QED BY <2>1, KindNext
<1>3. TypeInv /\ TailInv /\ LineInv /\ DistinctInv /\ PlaceInv /\ KindInv => SimInv
  BY DEF SimInv
<1> QED BY <1>1, <1>2, <1>3, PlacesHold, PTL DEF Spec

(* The inspector keeps the promise of CommandService, whatever the clients   *)
(* send and however rings fill, threads drain and clients come and go: a     *)
(* script waits, runs alone and in its turn and is answered after it ran,    *)
(* and what is lost is lost in a full ring or for want of a client           *)
(* (handle_data, update, send_repl_result, list_globals, drain_log_queue).   *)
THEOREM SessionServes ==
  ASSUME DifferentCommands PROVE Spec => ImplementsService
<1>1. Init => Service!Init
  <2> SUFFICES ASSUME Init PROVE Service!Init
    OBVIOUS
  <2>1. ASSUME NEW c \in Commands PROVE StageOf(c) = "unread"
    <3>1. ToSet(cmd_queue) = {} /\ ToSet(log_queue) = {}
      BY DEF Init, ToSet
    <3>2. \A k \in Conns : ToSet(wire[k]) = {}
      BY DEF Init, ToSet
    <3>3. \A t \in Threads : pc[t] # "send"
      BY DEF Init, Threads
    <3>4. asked # c /\ script # c /\ c \notin lost
      BY NoneAssumption DEF Init
    <3> QED BY <3>1, <3>2, <3>3, <3>4 DEF StageOf
  <2>2. cmd_queue = <<>> /\ executed = <<>>
    BY DEF Init
  <2> QED BY <2>1, <2>2 DEF Service!Init
<1>2. SimInv /\ SimInv' /\ [Next]_vars => [Service!Next]_(Service!svars)
  <2>1. ASSUME UNCHANGED vars PROVE UNCHANGED Service!svars
    BY <2>1 DEF vars, queues, hist, Service!svars, StageOf
  <2> QED BY <2>1, StepServes
<1> QED BY <1>1, <1>2, SimInvariant, PTL DEF Spec, ImplementsService, Service!Spec

-----------------------------------------------------------------------------
(* What the service promises of execution. *)

Ran(c) == \E i \in DOMAIN executed : executed[i] = c

\* What is told of a command is true.
Honest(c) ==
    /\ Ran(c) => StageOf(c) \in {"ran", "answered", "delivered", "lost"}
    /\ c \in Service!Scripts /\ StageOf(c) \in {"ran", "answered", "delivered"} => Ran(c)

RanInv ==
    /\ \A c \in Commands : Honest(c)
    /\ \A i, j \in DOMAIN executed : executed[i] = executed[j] => i = j

LEMMA MoveIs ==
  ASSUME NEW c \in Commands, NEW from, NEW to, Service!Move(c, from, to)
  PROVE  /\ StageOf(c) = from /\ StageOf(c)' = to
         /\ \A d \in Commands : d # c => StageOf(d)' = StageOf(d)
BY DEF Service!Move

LEMMA RanNext ==
  ASSUME TypeOK, RanInv, [Service!Next]_(Service!svars) PROVE RanInv'
<1>1. ASSUME executed' = executed,
             \A c \in Commands : Honest(c)'
      PROVE  RanInv'
  BY <1>1 DEF RanInv, Honest
<1>2. \A c \in Commands : Honest(c)
  BY DEF RanInv, Honest
<1>3. ASSUME NEW c \in Commands, NEW from, NEW to, Service!Move(c, from, to), executed' = executed,
             \/ /\ from \in {"unread", "waiting", "running"}
                /\ to \in {"ran", "answered", "delivered"} => c \notin Service!Scripts
             \/ /\ from \in {"ran", "answered", "delivered"}
                /\ to \in {"ran", "answered", "delivered", "lost"}
      PROVE  RanInv'
  <2>1. ASSUME NEW d \in Commands PROVE Honest(d)'
    <3>1. Ran(d)' <=> Ran(d)
      BY <1>3 DEF Ran
    <3>2. c \in Service!Scripts' <=> c \in Service!Scripts
      BY DEF Service!Scripts
    <3> QED BY <1>2, <1>3, <3>1, <3>2, MoveIs DEF Honest
  <2> QED BY <1>1, <1>3, <2>1
<1>4. CASE UNCHANGED Service!svars
  <2>1. executed' = executed /\ \A c \in Commands : StageOf(c)' = StageOf(c)
    BY <1>4 DEF Service!svars
  <2>2. \A c \in Commands : Honest(c)'
    BY <1>2, <2>1 DEF Honest, Ran
  <2> QED BY <1>1, <2>1, <2>2
<1>5. CASE Service!Turn
  <2>1. cmd_queue \in Seq(Commands) /\ cmd_queue # <<>>
    BY <1>5 DEF TypeOK, Service!Turn
  <2>2. PICK d \in Commands : d = Head(cmd_queue)
    BY <2>1, HeadTailProperties
  <2>3. Service!Move(d, "waiting", "running") /\ executed' = executed
    BY <1>5, <2>2 DEF Service!Turn
  <2> QED BY <1>3, <2>3
<1>6. ASSUME NEW c \in Commands, Service!Queue(c) PROVE RanInv'
  BY <1>3, <1>6 DEF Service!Queue
<1>7. ASSUME NEW c \in Commands, Service!Refuse(c) PROVE RanInv'
  BY <1>3, <1>7 DEF Service!Refuse
<1>8. ASSUME NEW c \in Commands, Service!Look(c) PROVE RanInv'
  BY <1>3, <1>8 DEF Service!Look
<1>9. ASSUME NEW c \in Commands, Service!Deliver(c) PROVE RanInv'
  BY <1>3, <1>9 DEF Service!Deliver
<1>10. ASSUME NEW c \in Commands, Service!Answer(c) PROVE RanInv'
  <2>1. PICK to \in {"answered", "lost"} : Service!Move(c, Service!Ready[Kind[c]], to)
    BY <1>10 DEF Service!Answer
  <2>2. /\ executed' = executed
        /\ Kind[c] \in {"repl_eval", "list_bindings", "other"}
    BY <1>10 DEF Service!Answer, Service!Ready
  <2>3. /\ Service!Ready[Kind[c]] \in {"unread", "running"} => c \notin Service!Scripts
        /\ Service!Ready[Kind[c]] \in {"unread", "running", "ran"}
    BY <2>2 DEF Service!Ready, Service!Scripts
  <2> QED BY <1>3, <2>1, <2>2, <2>3
<1>11. ASSUME NEW c \in Commands, Service!Run(c) PROVE RanInv'
  <2> DEFINE n == Len(executed)
  <2>1. Service!Move(c, "running", "ran") /\ executed' = Append(executed, c)
    BY <1>11 DEF Service!Run
  <2>2. executed \in Seq(Commands) /\ n \in Nat /\ DOMAIN executed = 1 .. n
    BY LenProperties DEF TypeOK
  <2>3. /\ DOMAIN executed' = 1 .. n + 1 /\ executed'[n + 1] = c
        /\ \A i \in 1 .. n : executed'[i] = executed[i]
    BY <2>1, <2>2, AppendProperties, LenProperties
  <2> HIDE DEF n
  <2>4. /\ \A i \in 1 .. n + 1 : i \in 1 .. n \/ i = n + 1
        /\ \A i \in 1 .. n : i \in 1 .. n + 1
        /\ n + 1 \in 1 .. n + 1
    BY <2>2
  <2>5. \A d \in Commands : Ran(d)' <=> Ran(d) \/ d = c
    BY <2>2, <2>3, <2>4 DEF Ran
  <2>6. /\ StageOf(c) = "running" /\ StageOf(c)' = "ran"
        /\ \A d \in Commands : d # c => StageOf(d)' = StageOf(d)
    BY <2>1, MoveIs
  <2>7. ~Ran(c)
    BY <1>2, <2>6 DEF Honest
  <2>8. ASSUME NEW d \in Commands PROVE Honest(d)'
    BY <1>2, <2>5, <2>6 DEF Honest, Service!Scripts
  <2>9. \A i, j \in DOMAIN executed' : executed'[i] = executed'[j] => i = j
    <3>1. \A i \in 1 .. n : executed[i] # c
      BY <2>2, <2>7 DEF Ran
    <3> QED BY <2>2, <2>3, <2>4, <3>1 DEF RanInv
  <2> QED BY <2>8, <2>9 DEF RanInv, Honest
<1> QED BY <1>4, <1>5, <1>6, <1>7, <1>8, <1>9, <1>10, <1>11 DEF Service!Next, Service!Elsewhere

(* A script whose answer is under way or delivered ran, and none runs twice: *)
(* what send_repl_result reports was done by update(), once.                 *)
THEOREM ScriptsRunOnce ==
  ASSUME DifferentCommands PROVE Spec => []Service!RanOnce
<1>1. Init => RanInv
  <2> SUFFICES ASSUME Init PROVE RanInv
    OBVIOUS
  <2>1. DOMAIN executed = {}
    BY DEF Init
  <2>2. ASSUME NEW c \in Commands PROVE StageOf(c) \notin {"ran", "answered", "delivered"}
    <3>1. ToSet(log_queue) = {}
      BY DEF Init, ToSet
    <3>2. \A k \in Conns : ToSet(wire[k]) = {}
      BY DEF Init, ToSet
    <3>3. \A t \in Threads : pc[t] # "send"
      BY DEF Init, Threads
    <3>4. asked # c /\ script # c /\ c \notin lost
      BY NoneAssumption DEF Init
    <3> QED BY <3>1, <3>2, <3>3, <3>4 DEF StageOf
  <2> QED BY <2>1, <2>2 DEF RanInv, Honest, Ran
<1>2. TypeOK /\ RanInv /\ [Service!Next]_(Service!svars) => RanInv'
  BY RanNext
<1>3. RanInv => Service!RanOnce
  <2> SUFFICES ASSUME RanInv PROVE Service!RanOnce
    OBVIOUS
  <2>1. \A c \in Service!Scripts : c \in Commands
    BY DEF Service!Scripts
  <2> QED BY <2>1 DEF RanInv, Honest, Ran, Service!RanOnce
<1>4. SimInv => TypeOK
  BY DEF SimInv, TypeInv
<1> QED BY <1>1, <1>2, <1>3, <1>4, SimInvariant, SessionServes, PTL DEF Spec, ImplementsService, Service!Spec
=============================================================================
