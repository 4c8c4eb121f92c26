-------------------------------- MODULE Session --------------------------------
(***************************************************************************)
(* The inspector's session of src/xb-xray/inspector.cpp between the two     *)
(* rings and the socket: the command lines that arrive, the commands that   *)
(* update() executes, and the answers and log lines that leave.             *)
(*                                                                          *)
(* The rings are taken at the word of their specifications: log_queue is a  *)
(* bounded channel that may refuse a message at any time, as MpscQueue with *)
(* several producers does, and cmd_queue one that refuses only when full.   *)
(* (That several threads drain log_queue at once breaks the promise of      *)
(* MpscQueue, see LogDrain; here a take is atomic.)  Connections follow     *)
(* TcpListener with its handlers one at a time.  Four threads call into the *)
(* inspector: the worker (on_tick), the accepting thread (on_accept), the   *)
(* reader (on_data) and the application (update, flush and log).            *)
(*                                                                          *)
(* The text of a command is one token and NL ends a line: a line parses iff *)
(* it is a single token that is not garbage.  What a command is called for  *)
(* is given by Kind; those that change nothing here (terminate, no event,   *)
(* an empty script) are "ignored".                                          *)
(***************************************************************************)
EXTENDS Integers, SequencesExt

CONSTANTS Conns,          \* the clients, each connecting once
          Commands,       \* the texts of command lines
          NL, NONE,
          Stream,         \* what each client sends: Conns -> Seq(Commands \cup {NL})
          Kind,           \* Commands -> the ways handle_data treats a line
          LogCapacity, CmdCapacity,
          MaxLogs         \* log calls of the application: bounds the model only

ASSUME CapacityAssumption == {LogCapacity, CmdCapacity} \subseteq Nat \ {0}
ASSUME NoneAssumption == NONE \notin Conns \cup Commands /\ NL \notin Commands
ASSUME InputAssumption ==
    /\ Stream \in [Conns -> Seq(Commands \cup {NL})]
    /\ Kind \in [Commands -> {"repl_eval", "list_bindings", "other", "ignored", "garbage"}]
    /\ MaxLogs \in Nat

Threads == {"worker", "accept", "reader", "app"}

VARIABLES
    client,          \* the listener's client_sock
    connected,       \* net_sink's connected_
    log_queue, cmd_queue,
    dropped,         \* whether drop_count is not zero
    recv_buf,
    pc,              \* where each thread is
    held,            \* the message a draining thread took from log_queue
    conn,            \* accept, reader: the connection the thread works for; came: those there were
    chunk,           \* reader: the bytes on_data was called with
    asked,           \* reader: the command list_globals is called for
    script,          \* app: the command update() executes
    tosend,          \* what each client has still to send
    wire,            \* history: the answers each client was sent
    read,            \* history: all bytes handed to on_data
    executed,        \* history: the commands exec() ran
    lost,            \* history: the commands whose answer was lost
    logs             \* history: log calls of the application

queues  == <<log_queue, dropped, cmd_queue>>
hist    == <<wire, read, executed, lost, logs>>
vars    == <<client, connected, queues, recv_buf, pc, held, conn, chunk, asked, script, tosend, hist>>

Init == /\ client = NONE /\ connected = FALSE
        /\ log_queue = <<>> /\ dropped = FALSE /\ cmd_queue = <<>>
        /\ recv_buf = <<>>
        /\ pc = [t \in Threads |-> IF t = "worker" THEN "take" ELSE "idle"]
        /\ held = [t \in Threads |-> NONE]
        /\ conn = [accept |-> NONE, reader |-> NONE, came |-> {}]
        /\ chunk = <<>> /\ asked = NONE /\ script = NONE
        /\ tosend = Stream
        /\ wire = [c \in Conns |-> <<>>]
        /\ read = <<>> /\ executed = <<>> /\ lost = {} /\ logs = 0

-----------------------------------------------------------------------------
Goto(t, label) == pc' = [pc EXCEPT ![t] = label]

(* Messages: what they are, and the command they answer. *)
Msg(what, c) == [what |-> what, of |-> c]
Log          == Msg("log", NONE)
IsAnswer(m)  == m.of \in Commands

\* Ways to pick n of the elements of s, in their order.
Picks(s, n) == {p \in [1 .. n -> DOMAIN s] : \A i, j \in 1 .. n : i < j => p[i] < p[j]}

\* try_enqueue of messages, in order: those it refuses are counted and deleted.
Enqueue(msgs) ==
    \E n \in 0 .. Len(msgs) : \E p \in Picks(msgs, n) :
        /\ Len(log_queue) + n <= LogCapacity
        /\ log_queue' = log_queue \o [i \in 1 .. n |-> msgs[p[i]]]
        /\ dropped' = (dropped \/ n < Len(msgs))
        /\ lost' = lost \cup ({msgs[i].of : i \in DOMAIN msgs \ Range(p)} \ {NONE})

\* uwp_net_sink::sink_it_: without a client a log line goes nowhere.
Logged(n) == IF connected THEN [i \in 1 .. n |-> Log] ELSE <<>>

\* listener.send: without a client, or when StoreAsync throws, the message is
\* gone; a client whose socket failed stays installed.
Send(m) ==
    \/ /\ client # NONE
       /\ wire' = IF IsAnswer(m) THEN [wire EXCEPT ![client] = Append(@, m)] ELSE wire
       /\ UNCHANGED lost
    \/ /\ lost' = IF IsAnswer(m) THEN lost \cup {m.of} ELSE lost
       /\ UNCHANGED wire

-----------------------------------------------------------------------------
(* drain_log_queue, in whichever thread calls it; After says what the       *)
(* callback does next.  The worker has nothing else to do.                  *)
After(t) == CASE t = "worker" -> "take"
              [] t = "reader" -> "append"
              [] t = "accept" -> "connect"
              [] t = "app"    -> "idle"

Take(t) ==
    /\ pc[t] = "take" /\ log_queue # <<>>
    /\ held' = [held EXCEPT ![t] = Head(log_queue)]
    /\ log_queue' = Tail(log_queue)
    /\ Goto(t, "send")
    /\ UNCHANGED <<client, connected, dropped, cmd_queue, recv_buf, conn, chunk, asked, script,
                   tosend, hist>>

SendHeld(t) ==
    /\ pc[t] = "send"
    /\ Send(held[t])
    /\ held' = [held EXCEPT ![t] = NONE]
    /\ Goto(t, "take")
    /\ UNCHANGED <<client, connected, queues, recv_buf, conn, chunk, asked, script, tosend,
                   read, executed, logs>>

WarnDrops(t) ==
    /\ pc[t] = "take" /\ log_queue = <<>>
    /\ dropped' = FALSE
    /\ IF dropped THEN Send(Msg("warning", NONE)) ELSE UNCHANGED <<wire, lost>>
    /\ Goto(t, After(t))
    /\ UNCHANGED <<client, connected, log_queue, cmd_queue, recv_buf, held, conn, chunk, asked, script,
                   tosend, read, executed, logs>>

Drain(t) == Take(t) \/ SendHeld(t) \/ WarnDrops(t)

-----------------------------------------------------------------------------
(* A client connects: the listener takes the old client's socket away, joins *)
(* its reader, installs the new socket and calls on_accept.                 *)

Rest == <<cmd_queue, recv_buf, held, chunk, asked, script, tosend, read, executed, logs>>

Connect(c) ==
    /\ pc["accept"] = "idle" /\ c \notin conn.came
    /\ conn' = [conn EXCEPT !.accept = c, !.came = @ \cup {c}]
    /\ client' = NONE
    /\ Goto("accept", "join")
    /\ UNCHANGED <<connected, log_queue, dropped, wire, lost, Rest>>

Install ==
    /\ pc["accept"] = "join" /\ pc["reader"] = "idle"
    /\ client' = conn.accept
    /\ Goto("accept", "take")
    /\ UNCHANGED <<connected, log_queue, dropped, conn, wire, lost, Rest>>

SetConnected ==
    /\ pc["accept"] = "connect"
    /\ connected' = TRUE
    /\ Goto("accept", "handshake")
    /\ UNCHANGED <<client, log_queue, dropped, conn, wire, lost, Rest>>

Handshake ==
    /\ pc["accept"] = "handshake"
    /\ Send(Msg("handshake", NONE))
    /\ conn' = [conn EXCEPT !.reader = conn.accept]
    /\ pc' = [pc EXCEPT !["accept"] = "idle", !["reader"] = "read"]
    /\ UNCHANGED <<client, connected, log_queue, dropped, Rest>>

Accept == Install \/ SetConnected \/ Handshake

-----------------------------------------------------------------------------
(* The reader: on_data drains and hands the bytes to handle_data.           *)

\* A read can still succeed after client_sock was cleared, until it is deleted.
Read == /\ pc["reader"] = "read"
        /\ \E n \in 1 .. Len(tosend[conn.reader]) :
               /\ chunk' = SubSeq(tosend[conn.reader], 1, n)
               /\ tosend' = [tosend EXCEPT ![conn.reader] = SubSeq(@, n + 1, Len(@))]
        /\ read' = read \o chunk'
        /\ Goto("reader", "take")
        /\ UNCHANGED <<client, connected, queues, recv_buf, held, conn, asked, script,
                       wire, executed, lost, logs>>

\* The client went away, the bytes could not be read, or the socket was taken
\* by the successor's handler, in which case there is no on_disconnect.
ReadFails == /\ pc["reader"] = "read"
             /\ client' = IF client = conn.reader THEN NONE ELSE client
             /\ Goto("reader", IF client = conn.reader THEN "disconnect" ELSE "idle")
             /\ UNCHANGED <<connected, queues, recv_buf, held, conn, chunk, asked, script, tosend, hist>>

Disconnect ==
    /\ pc["reader"] = "disconnect"
    /\ connected' = FALSE
    /\ Goto("reader", "idle")
    /\ UNCHANGED <<client, queues, recv_buf, held, conn, chunk, asked, script, tosend, hist>>

AppendData ==
    /\ pc["reader"] = "append"
    /\ recv_buf' = recv_buf \o chunk
    /\ chunk' = <<>>
    /\ Goto("reader", "line")
    /\ UNCHANGED <<client, connected, queues, held, conn, asked, script, tosend, hist>>

NewLine == SelectInSeq(recv_buf, LAMBDA x : x = NL)
Line    == SubSeq(recv_buf, 1, NewLine - 1)
Parsed  == CASE Line = <<>>     -> "ignored"
             [] Len(Line) = 1 -> Kind[Line[1]]
             [] OTHER         -> "garbage"

\* Mutant: the rest of the buffer goes with the line.
MutCutAll == recv_buf' = <<>>

Cut       == recv_buf' = SubSeq(recv_buf, NewLine + 1, Len(recv_buf))

NoMoreLines ==
    /\ pc["reader"] = "line" /\ NewLine = 0
    /\ Goto("reader", "read")
    /\ UNCHANGED <<client, connected, queues, recv_buf, held, conn, chunk, asked, script, tosend, hist>>

\* Mutant: the command ring has no limit.
MutEvalUnbounded ==
    /\ Parsed = "repl_eval"
    /\ cmd_queue' = Append(cmd_queue, Line[1])
    /\ Goto("reader", "line")
    /\ UNCHANGED <<log_queue, dropped, asked, lost>>

\* A full command ring refuses the command, and nobody looks at the result.
Eval ==
    /\ Parsed = "repl_eval"
    /\ IF Len(cmd_queue) < CmdCapacity
       THEN cmd_queue' = Append(cmd_queue, Line[1]) /\ UNCHANGED lost
       ELSE lost' = lost \cup {Line[1]} /\ UNCHANGED cmd_queue
    /\ Goto("reader", "line")
    /\ UNCHANGED <<log_queue, dropped, asked>>

ListBindings ==
    /\ Parsed = "list_bindings"
    /\ asked' = Line[1]
    /\ Goto("reader", "list")
    /\ UNCHANGED <<queues, lost>>

\* help and unknown commands are answered, a line that does not parse is logged.
Other ==
    /\ Parsed \in {"ignored", "other", "garbage"}
    /\ Enqueue(CASE Parsed = "ignored" -> <<>>
                 [] Parsed = "garbage" -> Logged(1)
                 [] Parsed = "other"   -> <<Msg("command_result", Line[1])>>)
    /\ Goto("reader", "line")
    /\ UNCHANGED <<cmd_queue, asked>>

HandleLine ==
    /\ pc["reader"] = "line" /\ NewLine > 0
    /\ Cut
    /\ Eval \/ ListBindings \/ Other
    /\ UNCHANGED <<client, connected, held, conn, chunk, script, tosend, wire, read, executed, logs>>

\* list_globals has walked the Lua state on this thread, while others went on.
Listed ==
    /\ pc["reader"] = "list"
    /\ Enqueue(<<Msg("command_result", asked)>>)
    /\ asked' = NONE
    /\ Goto("reader", "line")
    /\ UNCHANGED <<client, connected, cmd_queue, recv_buf, held, conn, chunk, script, tosend,
                   wire, read, executed, logs>>

Reader == AppendData \/ NoMoreLines \/ HandleLine \/ Listed \/ Disconnect

-----------------------------------------------------------------------------
(* The application.                                                         *)

Flush == /\ pc["app"] = "idle"
         /\ Goto("app", "take")
         /\ UNCHANGED <<client, connected, queues, recv_buf, held, conn, chunk, asked, script, tosend, hist>>

\* A line logged in any thread: by spdlog::info, or by Xray::log at a level that
\* passes the net sink (see Xray), by the application, a script or the listener
\* itself; without a client it does nothing here.
AppLog == /\ connected /\ logs < MaxLogs
          /\ logs' = logs + 1
          /\ Enqueue(Logged(1))
          /\ UNCHANGED <<client, connected, cmd_queue, recv_buf, pc, held, conn, chunk, asked, script,
                         tosend, wire, read, executed>>

\* One round of the loop of update(), which goes on until the ring is empty.
\* Mutant: the newest command is taken first.
MutUpdateNewest ==
    /\ pc["app"] \in {"idle", "update"} /\ cmd_queue # <<>>
    /\ script' = Last(cmd_queue)
    /\ cmd_queue' = Front(cmd_queue)
    /\ Enqueue(Logged(1))
    /\ Goto("app", "exec")
    /\ UNCHANGED <<client, connected, recv_buf, held, conn, chunk, asked, tosend,
                   wire, read, executed, logs>>

Update ==
    /\ pc["app"] \in {"idle", "update"} /\ cmd_queue # <<>>
    /\ script' = Head(cmd_queue)
    /\ cmd_queue' = Tail(cmd_queue)
    /\ Enqueue(Logged(1))
    /\ Goto("app", "exec")
    /\ UNCHANGED <<client, connected, recv_buf, held, conn, chunk, asked, tosend,
                   wire, read, executed, logs>>

\* Mutant: update() answers a script without running it.
MutExecNothing ==
    /\ pc["app"] = "exec"
    /\ Goto("app", "result")
    /\ UNCHANGED <<client, connected, queues, recv_buf, held, conn, chunk, asked, script, tosend, hist>>

Exec ==
    /\ pc["app"] = "exec"
    /\ executed' = Append(executed, script)
    /\ Goto("app", "result")
    /\ UNCHANGED <<client, connected, queues, recv_buf, held, conn, chunk, asked, script, tosend,
                   wire, read, lost, logs>>

\* Mutant: the result is only logged.
MutResultSilent ==
    /\ pc["app"] = "result"
    /\ Enqueue(Logged(1))
    /\ script' = NONE
    /\ Goto("app", "update")
    /\ UNCHANGED <<client, connected, cmd_queue, recv_buf, held, conn, chunk, asked, tosend,
                   wire, read, executed, logs>>

\* The log line about the result, and send_repl_result.
Result ==
    /\ pc["app"] = "result"
    /\ Enqueue(Append(Logged(1), Msg("repl_result", script)))
    /\ script' = NONE
    /\ Goto("app", "update")
    /\ UNCHANGED <<client, connected, cmd_queue, recv_buf, held, conn, chunk, asked, tosend,
                   wire, read, executed, logs>>

UpdateReturns ==
    /\ pc["app"] = "update" /\ cmd_queue = <<>>
    /\ Goto("app", "idle")
    /\ UNCHANGED <<client, connected, queues, recv_buf, held, conn, chunk, asked, script, tosend, hist>>

App == Update \/ Exec \/ Result \/ UpdateReturns

-----------------------------------------------------------------------------
Next == \/ \E t \in Threads : Drain(t)
        \/ Flush \/ AppLog \/ App
        \/ \E c \in Conns : Connect(c)
        \/ Accept \/ Read \/ Reader \/ ReadFails

Spec == Init /\ [][Next]_vars

(* update() runs every frame, whatever flush() calls stand between; a drain  *)
(* of the worker, the reader or flush() goes on, and so does a callback that *)
(* has begun.  Nothing is assumed of a script, which need not return, nor of *)
(* a send, which waits for the peer: a thread may stay in either for ever.   *)
Going(t) == Take(t) \/ (~dropped /\ WarnDrops(t))

Fairness == /\ WF_vars(Going("worker"))
            /\ WF_vars(Going("reader") \/ Reader)
            /\ WF_vars(Going("app"))
            /\ SF_vars(Update \/ Result \/ UpdateReturns)

FairSpec == Spec /\ Fairness

-----------------------------------------------------------------------------
Labels == {"idle", "take", "send", "join", "connect", "handshake", "read", "append", "line",
           "list", "disconnect", "update", "exec", "result"}
Messages == [what : {"log", "repl_result", "command_result", "warning", "handshake"},
             of : Commands \cup {NONE}]
Bytes == Commands \cup {NL}

TypeOK ==
    /\ client \in Conns \cup {NONE} /\ connected \in BOOLEAN
    /\ log_queue \in Seq(Messages) /\ Len(log_queue) <= LogCapacity
    /\ cmd_queue \in Seq(Commands) /\ Len(cmd_queue) <= CmdCapacity
    /\ dropped \in BOOLEAN /\ logs \in 0 .. MaxLogs
    /\ pc \in [Threads -> Labels]
    /\ held \in [Threads -> Messages \cup {NONE}]
    /\ conn \in [accept : Conns \cup {NONE}, reader : Conns \cup {NONE}, came : SUBSET Conns]
    /\ {asked, script} \subseteq Commands \cup {NONE}
    /\ {recv_buf, chunk, read} \subseteq Seq(Bytes) /\ tosend \in [Conns -> Seq(Bytes)]
    /\ wire \in [Conns -> Seq(Messages)]
    /\ executed \in Seq(Commands) /\ lost \subseteq Commands

(* What the bytes on_data was given mean, whatever the chunks they came in: *)
(* a command was received if it stands alone between two line ends.         *)
Received(c) ==
    \E i \in 1 .. Len(read) - 1 :
        /\ read[i] = c /\ read[i + 1] = NL
        /\ i = 1 \/ read[i - 1] = NL

Answered == {c \in Commands : Kind[c] \in {"repl_eval", "list_bindings", "other"}}

(* Where a command, or its answer, is: in a ring, in the hands of a thread, *)
(* on a wire, or lost for a reason the code knows (a full ring, no client,  *)
(* a socket that failed).  A wire counts whoever's it is: an answer may     *)
(* reach another client than the one that asked, and a line may be glued    *)
(* together of the bytes of two (see README).                               *)
Places(c) ==
    {<<"cmd_queue", i>> : i \in {i \in DOMAIN cmd_queue : cmd_queue[i] = c}}
    \cup {<<"log_queue", i>> : i \in {i \in DOMAIN log_queue : log_queue[i].of = c}}
    \cup {<<"held", t>> : t \in {t \in Threads : pc[t] = "send" /\ held[t].of = c}}
    \cup (UNION {{<<"wire", k, i>> : i \in {i \in DOMAIN wire[k] : wire[k][i].of = c}} : k \in Conns})
    \cup {x \in {<<"asked">>}  : asked = c}
    \cup {x \in {<<"script">>} : script = c}
    \cup {x \in {<<"lost">>}   : c \in lost}

(* Each command received is in exactly one place, and one that was not      *)
(* received is in none: commands are neither lost silently nor answered     *)
(* twice, for any cut of the stream into chunks and any sequence of clients. *)
OnePlace ==
    \A c \in Commands :
        /\ Cardinality(Places(c)) <= 1
        /\ pc["reader"] \in {"read", "idle"} =>
               (Places(c) # {} <=> c \in Answered /\ Received(c))

(* The same as stages of a service: each command comes to the next stage at *)
(* most once, scripts run one at a time, in the order in which they were    *)
(* read, before they are answered, and a command is lost only where a ring  *)
(* may be full, or a client missing or beyond reach.                        *)
StageOf(c) ==
    CASE c \in lost -> "lost"
      [] \E k \in Conns : \E m \in ToSet(wire[k]) : m.of = c -> "delivered"
      [] \/ \E m \in ToSet(log_queue) : m.of = c
         \/ \E t \in Threads : pc[t] = "send" /\ held[t].of = c -> "answered"
      [] script = c -> IF pc["app"] = "exec" THEN "running" ELSE "ran"
      [] asked = c -> "running"
      [] c \in ToSet(cmd_queue) -> "waiting"
      [] OTHER -> "unread"

Service == INSTANCE CommandService
           WITH stage <- [c \in Commands |-> StageOf(c)], waiting <- cmd_queue

ImplementsService == Service!Spec

(* update() executes commands at most once each and in the order in which   *)
(* they arrived.                                                            *)
Position(c) == SelectInSeq(read, LAMBDA x : x = c)

ExecutedInOrder ==
    \A i, j \in 1 .. Len(executed) : i < j => Position(executed[i]) < Position(executed[j])

(* Every command that was received is answered on some wire, unless a full  *)
(* ring, the absence of a client or an error of its socket takes it or its  *)
(* answer.  The code guarantees it only while nobody keeps a thread: save   *)
(* when a script never returns, or a peer that does not read holds a thread *)
(* in send() for ever, again and again all that was received has ended.     *)
Sending(t) == \/ pc[t] \in {"send", "handshake"}
              \/ pc[t] = "take" /\ log_queue = <<>> /\ dropped

Ended(c) == c \in lost \/ \E k \in Conns : \E m \in ToSet(wire[k]) : m.of = c

EveryCommandEnds ==
    \/ []<>(\A c \in Answered : Received(c) => Ended(c))
    \/ <>[](pc["app"] = "exec")
    \/ \E t \in Threads : <>[]Sending(t)

(* "Sent immediately after the Vault connects.  This is the first message   *)
(* in the stream" (docs/NETWORK-PROTOCOL.md:28): a client whose handshake   *)
(* is still to come has been sent no answer.                                *)
HandshakeFirst ==
    pc["accept"] \in {"take", "send", "connect", "handshake"} => wire[conn.accept] = <<>>

(* One thread at a time uses the Lua state.                                 *)
LuaOnOneThread == ~(pc["app"] = "exec" /\ pc["reader"] = "list")
=============================================================================
