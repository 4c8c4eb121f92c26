------------------------------ MODULE TcpListener ------------------------------
(***************************************************************************)
(* tcp_listener of src/xray-sock/tcp_listener.cpp: one TCP client at a     *)
(* time, the latest one wins.  Four kinds of threads meet here:             *)
(*   - the application, which calls start(), stop() and the destructor;     *)
(*   - the worker, impl::run: binds, ticks, closes the listener;            *)
(*   - one invocation of the ConnectionReceived handler per client, on a    *)
(*     thread of the WinRT pool;                                            *)
(*   - one reader thread per client, spawned by the handler.                *)
(*                                                                          *)
(* client_mtx is held across several steps by send() only, which blocks in  *)
(* StoreAsync for as long as the peer's window is closed, for ever if the   *)
(* peer never reads again; the other critical sections are single steps     *)
(* that need the mutex free.                                                *)
(*                                                                          *)
(* Ports are abstracted to whether one of the range can be bound, the       *)
(* callbacks to what the inspector does in them: on_accept drains the log   *)
(* queue, sets the connected flag and sends the handshake, on_disconnect    *)
(* clears the flag, and on_data and on_tick may send.  One send stands for  *)
(* the sends of one drain.                                                  *)
(***************************************************************************)
EXTENDS Integers

CONSTANTS Conns,      \* the connections clients make, each at most once
          NONE,
          Overlap     \* WinRT raises ConnectionReceived concurrently

ASSUME NoneAssumption == NONE \notin Conns
ASSUME OverlapAssumption == Overlap \in BOOLEAN

VARIABLES
    running, active,   \* the flags of impl
    state,             \* current_state
    listener,          \* winrt_listener # nullptr
    bound,             \* the OS accepts connections on the port
    client,            \* client_sock (writer is set and cleared with it)
    reader,            \* reader_thread: whose reader it holds, NONE when not joinable
    locked,            \* client_mtx, while a send is in StoreAsync
    told,              \* the connected flag the callbacks maintain
    accepted,          \* history: the connection on_accept was last called for
    crashed,           \* std::terminate, or a thread left without its impl
    apc, aold,         \* application: next step, close_client's old_sock
    late,              \* history: the connections whose handler had not ended when stop() began
    wpc,               \* worker
    hpc, hold,         \* handlers: next step, close_client's old_sock
    rpc,               \* readers
    peer, closed       \* the sockets

flags   == <<running, active, state>>
shared  == <<client, reader, locked>>
calls   == <<told, accepted>>
app     == <<apc, aold, late>>
handler == <<hpc, hold>>
socks   == <<peer, closed>>
vars    == <<flags, listener, bound, shared, calls, crashed, app, wpc, handler, rpc, socks>>

Init == /\ running = FALSE /\ active = FALSE /\ state = "stopped"
        /\ listener = FALSE /\ bound = FALSE
        /\ client = NONE /\ reader = NONE /\ locked = FALSE
        /\ told = FALSE /\ accepted = NONE /\ crashed = FALSE
        /\ apc = "new" /\ aold = NONE /\ late = {}
        /\ wpc = "none"
        /\ hpc = [c \in Conns |-> "none"] /\ hold = [c \in Conns |-> NONE]
        /\ rpc = [c \in Conns |-> "none"]
        /\ peer = [c \in Conns |-> "absent"]
        /\ closed = [c \in Conns |-> FALSE]

-----------------------------------------------------------------------------
Handling(c) == hpc[c] \notin {"none", "done"}
Reading(c)  == rpc[c] \notin {"none", "done"}

(* After a crash, or once the impl is deleted, nothing is defined any more. *)
Alive == ~crashed /\ apc # "destroyed"

(* std::thread::join on reader_thread by two threads at once is undefined;  *)
(* MSVC fails the second one, which nothing catches.                        *)
Joiners == {c \in Conns : hpc[c] = "joining"}

-----------------------------------------------------------------------------
(* The clients and the network.                                             *)

NetOnly == /\ Alive
           /\ UNCHANGED <<flags, listener, bound, shared, calls, crashed, app, wpc, hold, rpc>>

Connect(c) ==
    /\ bound /\ peer[c] = "absent"
    /\ Overlap \/ \A d \in Conns : ~Handling(d)
    /\ peer' = [peer EXCEPT ![c] = "open"]
    /\ hpc' = [hpc EXCEPT ![c] = "swap"]
    /\ NetOnly /\ UNCHANGED closed

PeerCloses(c) ==
    /\ peer[c] = "open"
    /\ peer' = [peer EXCEPT ![c] = "gone"]
    /\ NetOnly /\ UNCHANGED <<hpc, closed>>

Network(c) == Connect(c) \/ PeerCloses(c)

-----------------------------------------------------------------------------
(* send(): the mutex is taken, and kept while StoreAsync waits for the      *)
(* peer, which need never read again.  Without a client send() returns at   *)
(* once: the callback then is a step without a send.                        *)

Acquire == ~locked /\ client # NONE /\ locked' = TRUE

Release == locked /\ locked' = FALSE

-----------------------------------------------------------------------------
(* The application.                                                         *)

AGoto(label) ==
    /\ Alive
    /\ apc' = label
    /\ UNCHANGED <<accepted, late, handler, rpc, peer>>

AStart ==
    /\ apc = "new"
    /\ running' = TRUE /\ active' = TRUE
    /\ wpc' = "bind"
    /\ AGoto("up")
    /\ UNCHANGED <<state, listener, bound, shared, told, crashed, aold, closed>>

AStop ==
    /\ Alive
    /\ apc = "up" /\ running
    /\ running' = FALSE /\ active' = FALSE
    /\ late' = {c \in Conns : hpc[c] # "done"}
    /\ apc' = "listener"
    /\ UNCHANGED <<state, listener, bound, shared, calls, crashed, aold, wpc, handler, rpc, socks>>

ACloseListener ==
    /\ apc = "listener"
    /\ listener' = FALSE
    /\ bound' = (bound /\ ~listener)
    /\ AGoto("swap")
    /\ UNCHANGED <<flags, shared, told, crashed, aold, wpc, closed>>

\* close_client(true)
ASwap ==
    /\ apc = "swap" /\ ~locked
    /\ aold' = client
    /\ client' = NONE
    /\ AGoto(IF client = NONE THEN "join" ELSE "disconnect")
    /\ UNCHANGED <<flags, listener, bound, reader, locked, told, crashed, wpc, closed>>

ADisconnect ==
    /\ apc = "disconnect"
    /\ told' = FALSE
    /\ AGoto("delete")
    /\ UNCHANGED <<flags, listener, bound, shared, crashed, aold, wpc, closed>>

MutADeleteNothing ==
    /\ apc = "delete"
    /\ AGoto("join")
    /\ UNCHANGED <<flags, listener, bound, shared, told, crashed, aold, wpc, closed>>

ADelete ==
    /\ apc = "delete"
    /\ closed' = [closed EXCEPT ![aold] = TRUE]
    /\ aold' = NONE
    /\ AGoto("join")
    /\ UNCHANGED <<flags, listener, bound, shared, told, crashed, wpc>>

MutASkipJoin ==
    /\ apc = "join"
    /\ AGoto("join_worker")
    /\ UNCHANGED <<flags, listener, bound, shared, told, crashed, aold, wpc, closed>>

AJoin ==
    /\ apc = "join"
    /\ AGoto(IF reader = NONE THEN "join_worker" ELSE "joining")
    /\ crashed' = (reader # NONE /\ Joiners # {})
    /\ UNCHANGED <<flags, listener, bound, shared, told, aold, wpc, closed>>

AJoined ==
    /\ apc = "joining" /\ rpc[reader] = "done"
    /\ reader' = NONE
    /\ AGoto("join_worker")
    /\ UNCHANGED <<flags, listener, bound, client, locked, told, crashed, aold, wpc, closed>>

AJoinWorker ==
    /\ apc = "join_worker" /\ wpc = "done"
    /\ AGoto("state")
    /\ UNCHANGED <<flags, listener, bound, shared, told, crashed, aold, wpc, closed>>

ASetState ==
    /\ apc = "state"
    /\ state' = "stopped"
    /\ AGoto("stopped")
    /\ UNCHANGED <<running, active, listener, bound, shared, told, crashed, aold, wpc, closed>>

\* ~tcp_listener: stop() returns at once, delete self_ destroys reader_thread.
ADestroy ==
    /\ apc = "stopped"
    /\ AGoto("destroyed")
    /\ crashed' = (reader # NONE \/ \E c \in Conns : Handling(c) \/ Reading(c))
    /\ UNCHANGED <<flags, listener, bound, shared, told, aold, wpc, closed>>

Stopping == \/ ACloseListener \/ ASwap \/ ADisconnect \/ ADelete
            \/ AJoin \/ AJoined \/ AJoinWorker \/ ASetState

App == AStart \/ AStop \/ Stopping \/ ADestroy

-----------------------------------------------------------------------------
(* The worker: impl::run and try_bind.                                      *)

WGoto(label) ==
    /\ Alive
    /\ wpc' = label
    /\ UNCHANGED <<running, active, calls, crashed, client, reader, app, handler, rpc, socks>>

\* One pass over the ports of the range; a bound port takes clients at once.
WBind ==
    /\ wpc \in {"bind", "rebind"}
    /\ \/ bound' = TRUE /\ WGoto("publish")
       \/ UNCHANGED bound /\ WGoto(IF wpc = "bind" THEN "failed" ELSE "retry")
    /\ UNCHANGED <<state, listener, locked>>

WPublish ==
    /\ wpc = "publish"
    /\ listener' = TRUE
    /\ WGoto("listening")
    /\ UNCHANGED <<state, bound, locked>>

WFailed ==
    /\ wpc = "failed"
    /\ state' = "failed"
    /\ WGoto("retry")
    /\ UNCHANGED <<listener, bound, locked>>

WRetry ==
    /\ wpc = "retry"
    /\ WGoto(IF active THEN "rebind" ELSE "done")
    /\ UNCHANGED <<state, listener, bound, locked>>

WListening ==
    /\ wpc = "listening"
    /\ state' = "listening"
    /\ WGoto("loop")
    /\ UNCHANGED <<listener, bound, locked>>

WLoop ==
    /\ wpc = "loop"
    /\ WGoto(IF active THEN "tick" ELSE "close")
    /\ UNCHANGED <<state, listener, bound, locked>>

WTick ==
    /\ wpc = "tick"
    /\ \/ WGoto("loop") /\ UNCHANGED locked
       \/ Acquire /\ WGoto("sending")
    /\ UNCHANGED <<state, listener, bound>>

WSent ==
    /\ wpc = "sending"
    /\ Release
    /\ WGoto("loop")
    /\ UNCHANGED <<state, listener, bound>>

MutWCloseNothing ==
    /\ wpc = "close"
    /\ WGoto("final")
    /\ UNCHANGED <<state, listener, bound, locked>>

WClose ==
    /\ wpc = "close"
    /\ listener' = FALSE
    /\ bound' = (bound /\ ~listener)
    /\ WGoto("final")
    /\ UNCHANGED <<state, locked>>

WFinal ==
    /\ wpc = "final"
    /\ state' = "stopped"
    /\ WGoto("done")
    /\ UNCHANGED <<listener, bound, locked>>

Worker == \/ WBind \/ WPublish \/ WFailed \/ WRetry \/ WListening
          \/ WLoop \/ WTick \/ WSent \/ WClose \/ WFinal

-----------------------------------------------------------------------------
(* The ConnectionReceived handler of connection c.                          *)

HGoto(c, label) ==
    /\ Alive
    /\ hpc' = [hpc EXCEPT ![c] = label]
    /\ UNCHANGED <<running, active, listener, bound, app, wpc, peer>>

\* Mutant: the sockets are swapped without client_mtx.
MutHSwapUnlocked(c) ==
    /\ hpc[c] = "swap"
    /\ hold' = [hold EXCEPT ![c] = client]
    /\ client' = NONE
    /\ HGoto(c, IF client = NONE THEN "join" ELSE "delete")
    /\ UNCHANGED <<state, reader, locked, calls, crashed, rpc, closed>>

\* close_client(false)
HSwap(c) ==
    /\ hpc[c] = "swap" /\ ~locked
    /\ hold' = [hold EXCEPT ![c] = client]
    /\ client' = NONE
    /\ HGoto(c, IF client = NONE THEN "join" ELSE "delete")
    /\ UNCHANGED <<state, reader, locked, calls, crashed, rpc, closed>>

MutHDeleteNothing(c) ==
    /\ hpc[c] = "delete"
    /\ HGoto(c, "join")
    /\ UNCHANGED <<state, shared, calls, crashed, hold, rpc, closed>>

HDelete(c) ==
    /\ hpc[c] = "delete"
    /\ closed' = [closed EXCEPT ![hold[c]] = TRUE]
    /\ hold' = [hold EXCEPT ![c] = NONE]
    /\ HGoto(c, "join")
    /\ UNCHANGED <<state, shared, calls, crashed, rpc>>

HJoin(c) ==
    /\ hpc[c] = "join"
    /\ HGoto(c, IF reader = NONE THEN "install" ELSE "joining")
    /\ crashed' = (reader # NONE /\ (Joiners # {} \/ apc = "joining"))
    /\ UNCHANGED <<state, shared, calls, hold, rpc, closed>>

\* Mutant: the join gives up and detaches the thread.
MutHDetach(c) ==
    /\ hpc[c] = "joining"
    /\ reader' = NONE
    /\ HGoto(c, "install")
    /\ UNCHANGED <<state, client, locked, calls, crashed, hold, rpc, closed>>

HJoined(c) ==
    /\ hpc[c] = "joining" /\ rpc[reader] = "done"
    /\ reader' = NONE
    /\ HGoto(c, "install")
    /\ UNCHANGED <<state, client, locked, calls, crashed, hold, rpc, closed>>

HInstall(c) ==
    /\ hpc[c] = "install" /\ ~locked
    /\ client' = c
    /\ HGoto(c, "state")
    /\ UNCHANGED <<state, reader, locked, calls, crashed, hold, rpc, closed>>

HSetState(c) ==
    /\ hpc[c] = "state"
    /\ state' = "connected"
    /\ HGoto(c, "accept")
    /\ UNCHANGED <<shared, calls, crashed, hold, rpc, closed>>

\* on_accept: the queue is drained, to the new client already ...
HDrain(c) ==
    /\ hpc[c] = "accept"
    /\ \/ HGoto(c, "tell") /\ UNCHANGED locked
       \/ Acquire /\ HGoto(c, "draining")
    /\ UNCHANGED <<state, client, reader, calls, crashed, hold, rpc, closed>>

HDrained(c) ==
    /\ hpc[c] = "draining"
    /\ Release
    /\ HGoto(c, "tell")
    /\ UNCHANGED <<state, client, reader, calls, crashed, hold, rpc, closed>>

\* ... the inspector is told ...
HAccept(c) ==
    /\ hpc[c] = "tell"
    /\ told' = TRUE
    /\ accepted' = c
    /\ HGoto(c, "handshake")
    /\ UNCHANGED <<state, shared, crashed, hold, rpc, closed>>

\* ... and the handshake sent, for which client_mtx is needed in any case.
HHandshake(c) ==
    /\ hpc[c] = "handshake" /\ ~locked
    /\ locked' = (client # NONE)
    /\ HGoto(c, IF client = NONE THEN "spawn" ELSE "sending")
    /\ UNCHANGED <<state, client, reader, calls, crashed, hold, rpc, closed>>

HSent(c) ==
    /\ hpc[c] = "sending"
    /\ Release
    /\ HGoto(c, "spawn")
    /\ UNCHANGED <<state, client, reader, calls, crashed, hold, rpc, closed>>

\* Assigning to a joinable std::thread terminates the program.
HSpawn(c) ==
    /\ hpc[c] = "spawn"
    /\ crashed' = (reader # NONE)
    /\ reader' = c
    /\ rpc' = [rpc EXCEPT ![c] = "loop"]
    /\ HGoto(c, "done")
    /\ UNCHANGED <<state, client, locked, calls, hold, closed>>

Handler(c) == \/ HSwap(c) \/ HDelete(c) \/ HJoin(c) \/ HJoined(c) \/ HInstall(c)
              \/ HSetState(c) \/ HDrain(c) \/ HDrained(c) \/ HAccept(c) \/ HHandshake(c)
              \/ HSent(c) \/ HSpawn(c)

-----------------------------------------------------------------------------
(* The reader thread of connection c.                                       *)

RGoto(c, label) ==
    /\ Alive
    /\ rpc' = [rpc EXCEPT ![c] = label]
    /\ UNCHANGED <<running, active, listener, bound, reader, accepted, crashed, app, wpc,
                   handler, socks>>

RLoop(c) ==
    /\ rpc[c] = "loop"
    /\ RGoto(c, IF active THEN "read" ELSE "exit")
    /\ UNCHANGED <<state, client, locked, told>>

\* ReadAsync returns a chunk of text ...
RRead(c) ==
    /\ rpc[c] = "read" /\ ~closed[c]
    /\ RGoto(c, "data")
    /\ UNCHANGED <<state, client, locked, told>>

\* ... or nothing at the end of the stream, or throws; so does ReadString on
\* bytes that are no text, while the peer is still there.
RLeave(c) ==
    /\ rpc[c] = "read"
    /\ RGoto(c, "exit")
    /\ UNCHANGED <<state, client, locked, told>>

RData(c) ==
    /\ rpc[c] = "data"
    /\ \/ RGoto(c, "loop") /\ UNCHANGED locked
       \/ active /\ Acquire /\ RGoto(c, "sending")
    /\ UNCHANGED <<state, client, told>>

RSent(c) ==
    /\ rpc[c] = "sending"
    /\ Release
    /\ RGoto(c, "loop")
    /\ UNCHANGED <<state, client, told>>

\* A reader whose socket was replaced leaves without a word.
RExit(c) ==
    /\ rpc[c] = "exit" /\ ~locked
    /\ client' = IF client = c THEN NONE ELSE client
    /\ RGoto(c, IF client = c THEN "disconnect" ELSE "done")
    /\ UNCHANGED <<state, locked, told>>

\* Mutant: on_disconnect is not called.
MutRSilent(c) ==
    /\ rpc[c] = "disconnect"
    /\ RGoto(c, "state")
    /\ UNCHANGED <<state, client, locked, told>>

RDisconnect(c) ==
    /\ rpc[c] = "disconnect"
    /\ told' = (told /\ ~active)
    /\ RGoto(c, "state")
    /\ UNCHANGED <<state, client, locked>>

MutRKeepState(c) ==
    /\ rpc[c] = "state"
    /\ RGoto(c, "done")
    /\ UNCHANGED <<state, client, locked, told>>

RSetState(c) ==
    /\ rpc[c] = "state"
    /\ state' = IF active THEN "listening" ELSE state
    /\ RGoto(c, "done")
    /\ UNCHANGED <<client, locked, told>>

Reader(c) == \/ RLoop(c) \/ RRead(c) \/ RLeave(c) \/ RData(c) \/ RSent(c)
             \/ RExit(c) \/ RDisconnect(c) \/ RSetState(c)

-----------------------------------------------------------------------------
Next == \/ App \/ Worker
        \/ \E c \in Conns : Network(c) \/ Handler(c) \/ Reader(c)

Spec == Init /\ [][Next]_vars

(* Every thread runs when it can.  A send ends when its peer is gone, and   *)
(* otherwise need not end; a read ends when the peer is gone or the socket  *)
(* closed, and otherwise need not end.  The steps that take client_mtx are  *)
(* fair in the strong sense: the worker gives the mutex up for a whole      *)
(* recv_timeout_ms between two ticks.  Nothing is assumed of the peers or   *)
(* of the application.                                                      *)
Sends == WSent \/ \E c \in Conns : HDrained(c) \/ HSent(c) \/ RSent(c)

Fairness == /\ WF_vars(Stopping) /\ SF_vars(ASwap)
            /\ WF_vars(wpc # "sending" /\ Worker)
            /\ WF_vars(locked /\ peer[client] = "gone" /\ Sends)
            /\ \A c \in Conns :
                  /\ WF_vars(hpc[c] \notin {"draining", "sending"} /\ Handler(c))
                  /\ SF_vars(HSwap(c) \/ HInstall(c) \/ HHandshake(c))
                  /\ WF_vars(rpc[c] \notin {"read", "sending"} /\ Reader(c))
                  /\ SF_vars(RExit(c) \/ ((closed[c] \/ peer[c] = "gone") /\ RLeave(c)))

FairSpec == Spec /\ Fairness

-----------------------------------------------------------------------------
States == {"stopped", "listening", "connected", "failed"}

TypeOK ==
    /\ {running, active, listener, bound, locked, told, crashed} \subseteq BOOLEAN
    /\ state \in States
    /\ {client, reader, accepted, aold} \subseteq Conns \cup {NONE}
    /\ apc \in {"new", "up", "listener", "swap", "disconnect", "delete", "join", "joining",
                "join_worker", "state", "stopped", "destroyed"}
    /\ wpc \in {"none", "bind", "publish", "failed", "retry", "rebind", "listening", "loop",
                "tick", "sending", "close", "final", "done"}
    /\ hpc \in [Conns -> {"none", "swap", "delete", "join", "joining", "install", "state",
                          "accept", "draining", "tell", "handshake", "sending", "spawn",
                          "done"}]
    /\ hold \in [Conns -> Conns \cup {NONE}]
    /\ rpc \in [Conns -> {"none", "loop", "read", "data", "sending", "exit", "disconnect",
                          "state", "done"}]
    /\ peer \in [Conns -> {"absent", "open", "gone"}]
    /\ closed \in [Conns -> BOOLEAN]
    /\ late \subseteq Conns
    /\ locked => client # NONE

(* on_data is called by one thread at a time: the command ring has a single *)
(* producer.                                                                *)
OneReader == Alive => \A c, d \in Conns : Reading(c) /\ Reading(d) => c = d

(* Between connections, while the listener runs, nothing pretends that a    *)
(* client is there, and with a client everything says so: the flag the      *)
(* callbacks maintain agrees with client_sock.                              *)
Settled == /\ active /\ Alive
           /\ \A c \in Conns : ~Handling(c) /\ (Reading(c) => rpc[c] \in {"loop", "read", "data"})

ToldMatchesClient == Settled => (told <=> client # NONE)

NoGhostConnection == Settled /\ client = NONE => state # "connected"

(* A client's departure is never announced after its successor's arrival.   *)
NoLateDisconnect ==
    [][\A c \in Conns : rpc[c] = "disconnect" /\ rpc'[c] = "state" /\ told # told'
                            => accepted = c]_vars

(* stop() has released the port when it returns.                            *)
PortFreed == apc = "stopped" => ~bound /\ ~listener

(* stop() "closes socket, joins network thread" (docs/CPP-API.md:188), but   *)
(* for the clients whose handler was still under way when it began, or      *)
(* started after: of every other client no handler, reader, socket or state *)
(* is left when stop() returns.                                             *)
StopIsFinal == apc = "stopped" /\ Alive =>
    /\ \A c \in Conns : Handling(c) \/ Reading(c) \/ c \in {client, reader} => c \in late
    /\ state # "stopped" => \E c \in late : hpc[c] # "none"

(* stop() returns, unless a send waits for its client for ever.              *)
StopReturns == (apc = "listener") ~> (apc = "stopped" \/ ~Alive) \/ <>[]locked

(* A connecting client gets its on_accept and its reader, whatever its      *)
(* predecessor was doing, unless a send waits for its client for ever.      *)
ClientIsServed ==
    \/ (\E c \in Conns : Handling(c)) ~> (~Alive \/ \A c \in Conns : ~Handling(c))
    \/ <>[]locked

(* The strengthening that makes the safety properties inductive when WinRT  *)
(* raises ConnectionReceived for one client at a time (~Overlap).           *)

(* Before start() nothing has happened; active is true exactly while up.    *)
AppInv ==
    /\ active <=> apc = "up"
    /\ apc = "new" <=> wpc = "none"
    /\ apc = "new" => /\ ~told /\ client = NONE /\ state = "stopped"
                      /\ \A c \in Conns : hpc[c] = "none" /\ rpc[c] = "none"
    /\ apc \in {"state", "stopped", "destroyed"} => wpc = "done"

(* A port is bound without its listener only until the worker publishes it, *)
(* and never once the worker has closed or has not yet bound.               *)
PortInv ==
    /\ bound /\ ~listener => wpc = "publish"
    /\ wpc \in {"none", "bind", "failed", "retry", "rebind", "final", "done"} => ~bound
    /\ wpc \in {"none", "bind", "failed", "retry", "rebind", "publish", "final", "done"}
           => ~listener

Silent    == {"state", "accept", "draining", "tell"}
Installed == Silent \cup {"handshake", "sending", "spawn"}

(* A handler past its join owns the connection: no reader runs, and unless  *)
(* stop() took it away the socket is the handler's.                         *)
HandlerInv ==
    /\ \A c, d \in Conns : Handling(c) /\ Handling(d) => c = d
    /\ \A c \in Conns :
          /\ hpc[c] \in {"install"} \cup Installed => reader = NONE
          /\ hpc[c] \in Installed /\ active => client = c
          /\ hpc[c] \in {"handshake", "sending", "spawn"} => accepted = c

ReaderInv ==
    \A c \in Conns : /\ Reading(c) => reader = c /\ accepted = c
                     /\ rpc[c] = "disconnect" => client = NONE

(* While the listener runs, told and state lag behind client only as long   *)
(* as a thread is on its way to correct them.                               *)
CallbackInv == active =>
    /\ told /\ client = NONE => \E c \in Conns : Handling(c) \/ rpc[c] = "disconnect"
    /\ ~told /\ client # NONE => \E c \in Conns : hpc[c] \in Silent
    /\ state = "connected" /\ client = NONE
           => \E c \in Conns : Handling(c) \/ rpc[c] \in {"disconnect", "state"}

IInv == /\ TypeOK /\ AppInv /\ PortInv
        /\ Alive => HandlerInv /\ ReaderInv /\ CallbackInv

(* What stop() has achieved, step by step, save for the connections that    *)
(* were late.                                                               *)
StopInv == Alive =>
    /\ \A c \in Conns : peer[c] = "absent" => hpc[c] = "none"
    /\ apc \notin {"new", "up"} => \A c \in Conns \ late : hpc[c] = "done"
    /\ apc \notin {"new", "up", "listener", "swap"} => client \in late \cup {NONE}
    /\ apc \in {"join_worker", "state", "stopped"} =>
           /\ reader \in late \cup {NONE}
           /\ \A c \in Conns \ late : ~Reading(c)
    /\ apc = "stopped" /\ state # "stopped" => \E c \in late : hpc[c] # "none"
=============================================================================
