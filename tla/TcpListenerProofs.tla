--------------------------- MODULE TcpListenerProofs ---------------------------
(***************************************************************************)
(* The listener for every set of clients: while WinRT hands the clients     *)
(* over one at a time, its callbacks agree with its sockets, its port is    *)
(* freed, and stop() ends every connection whose handler had ended before.  *)
(***************************************************************************)
EXTENDS TcpListener, TLAPS

LEMMA IInvInit == Init => IInv
<1> SUFFICES ASSUME Init PROVE IInv
  OBVIOUS
<1> USE NoneAssumption DEF Init
<1>1. TypeOK
  BY DEF TypeOK, States
<1>2. AppInv /\ PortInv
  BY DEF AppInv, PortInv
<1>3. HandlerInv /\ ReaderInv /\ CallbackInv
  BY DEF HandlerInv, ReaderInv, CallbackInv, Handling, Reading, Installed, Silent
<1> QED BY <1>1, <1>2, <1>3 DEF IInv

(* Every step keeps the types. *)
LEMMA TypeNext == TypeOK /\ [Next]_vars => TypeOK'
<1> SUFFICES ASSUME TypeOK, [Next]_vars PROVE TypeOK'
  OBVIOUS
<1> USE NoneAssumption DEF TypeOK, States, flags, shared, calls, app, handler, socks
<1>1. CASE App
  <2> USE DEF AGoto
  <2>1. CASE AStart BY <2>1 DEF AStart
  <2>2. CASE AStop BY <2>2 DEF AStop
  <2>3. CASE ACloseListener BY <2>3 DEF ACloseListener
  <2>4. CASE ASwap BY <2>4 DEF ASwap
  <2>5. CASE ADisconnect BY <2>5 DEF ADisconnect
  <2>6. CASE ADelete BY <2>6 DEF ADelete
  <2>7. CASE AJoin BY <2>7 DEF AJoin
  <2>8. CASE AJoined BY <2>8 DEF AJoined
  <2>9. CASE AJoinWorker BY <2>9 DEF AJoinWorker
  <2>10. CASE ASetState BY <2>10 DEF ASetState
  <2>11. CASE ADestroy BY <2>11 DEF ADestroy
  <2> QED BY <1>1, <2>1, <2>2, <2>3, <2>4, <2>5, <2>6, <2>7, <2>8, <2>9, <2>10, <2>11
          DEF App, Stopping
<1>2. CASE Worker
  <2> USE DEF WGoto
  <2>1. CASE WBind BY <2>1 DEF WBind
  <2>2. CASE WPublish BY <2>2 DEF WPublish
  <2>3. CASE WFailed BY <2>3 DEF WFailed
  <2>4. CASE WRetry BY <2>4 DEF WRetry
  <2>5. CASE WListening BY <2>5 DEF WListening
  <2>6. CASE WLoop BY <2>6 DEF WLoop
  <2>7. CASE WTick
    <3>1. CASE WGoto("loop") /\ UNCHANGED locked BY <2>7, <3>1 DEF WTick
    <3>2. CASE Acquire /\ WGoto("sending") BY <2>7, <3>2 DEF WTick, Acquire
    <3> QED BY <2>7, <3>1, <3>2 DEF WTick
  <2>8. CASE WSent BY <2>8 DEF WSent, Release
  <2>9. CASE WClose BY <2>9 DEF WClose
  <2>10. CASE WFinal BY <2>10 DEF WFinal
  <2> QED BY <1>2, <2>1, <2>2, <2>3, <2>4, <2>5, <2>6, <2>7, <2>8, <2>9, <2>10 DEF Worker
<1>3. ASSUME NEW c \in Conns, Network(c) PROVE TypeOK'
  <2> USE DEF NetOnly
  <2>1. CASE Connect(c) BY <2>1 DEF Connect
  <2>2. CASE PeerCloses(c) BY <2>2 DEF PeerCloses
  <2> QED BY <1>3, <2>1, <2>2 DEF Network
<1>4. ASSUME NEW c \in Conns, Handler(c) PROVE TypeOK'
  <2> USE DEF HGoto
  <2>1. CASE HSwap(c) BY <2>1 DEF HSwap
  <2>2. CASE HDelete(c) BY <2>2 DEF HDelete
  <2>3. CASE HJoin(c) BY <2>3 DEF HJoin
  <2>4. CASE HJoined(c) BY <2>4 DEF HJoined
  <2>5. CASE HInstall(c) BY <2>5 DEF HInstall
  <2>6. CASE HSetState(c) BY <2>6 DEF HSetState
  <2>7. CASE HDrain(c)
    <3>1. CASE HGoto(c, "tell") /\ UNCHANGED locked BY <2>7, <3>1 DEF HDrain
    <3>2. CASE Acquire /\ HGoto(c, "draining") BY <2>7, <3>2 DEF HDrain, Acquire
    <3> QED BY <2>7, <3>1, <3>2 DEF HDrain
  <2>8. CASE HDrained(c) BY <2>8 DEF HDrained, Release
  <2>9. CASE HAccept(c) BY <2>9 DEF HAccept
  <2>10. CASE HHandshake(c) BY <2>10 DEF HHandshake
  <2>11. CASE HSent(c) BY <2>11 DEF HSent, Release
  <2>12. CASE HSpawn(c) BY <2>12 DEF HSpawn
  <2> QED BY <1>4, <2>1, <2>2, <2>3, <2>4, <2>5, <2>6, <2>7, <2>8, <2>9, <2>10, <2>11, <2>12
          DEF Handler
<1>5. ASSUME NEW c \in Conns, Reader(c) PROVE TypeOK'
  <2> USE DEF RGoto
  <2>1. CASE RLoop(c) BY <2>1 DEF RLoop
  <2>2. CASE RRead(c) BY <2>2 DEF RRead
  <2>8. CASE RLeave(c) BY <2>8 DEF RLeave
  <2>3. CASE RData(c)
    <3>1. CASE RGoto(c, "loop") /\ UNCHANGED locked BY <2>3, <3>1 DEF RData
    <3>2. CASE active /\ Acquire /\ RGoto(c, "sending") BY <2>3, <3>2 DEF RData, Acquire
    <3> QED BY <2>3, <3>1, <3>2 DEF RData
  <2>4. CASE RSent(c) BY <2>4 DEF RSent, Release
  <2>5. CASE RExit(c) BY <2>5 DEF RExit
  <2>6. CASE RDisconnect(c) BY <2>6 DEF RDisconnect
  <2>7. CASE RSetState(c) BY <2>7 DEF RSetState
  <2> QED BY <1>5, <2>1, <2>2, <2>3, <2>4, <2>5, <2>6, <2>7, <2>8 DEF Reader
<1>6. CASE UNCHANGED vars
  BY <1>6 DEF vars
<1> QED BY <1>1, <1>2, <1>3, <1>4, <1>5, <1>6 DEF Next

-----------------------------------------------------------------------------
(* What the steps of each kind of thread leave alone. *)

LEMMA NetworkFrame ==
  ASSUME NEW c \in Conns, Network(c)
  PROVE  /\ Alive
         /\ UNCHANGED <<flags, listener, bound, shared, calls, crashed, app, wpc, hold, rpc>>
         /\ hpc' = hpc \/ Connect(c)
BY DEF Network, Connect, PeerCloses, NetOnly

LEMMA AppFrame ==
  ASSUME App
  PROVE  Alive /\ UNCHANGED <<accepted, handler, rpc, peer>>
BY DEF App, Stopping, AStart, AStop, ACloseListener, ASwap, ADisconnect, ADelete, AJoin,
       AJoined, AJoinWorker, ASetState, ADestroy, AGoto, calls, handler, socks

LEMMA WorkerFrame ==
  ASSUME Worker
  PROVE  /\ Alive
         /\ UNCHANGED <<running, active, calls, crashed, client, reader, app, handler, rpc, socks>>
         /\ wpc # "none" /\ wpc' # "none" /\ wpc # "done"
BY DEF Worker, WBind, WPublish, WFailed, WRetry, WListening, WLoop, WTick, WSent, WClose,
       WFinal, WGoto

LEMMA HandlerFrame ==
  ASSUME NEW c \in Conns, Handler(c)
  PROVE  /\ Alive
         /\ Handling(c)
         /\ UNCHANGED <<running, active, listener, bound, app, wpc, peer>>
         /\ \E label : hpc' = [hpc EXCEPT ![c] = label]
BY DEF Handler, HSwap, HDelete, HJoin, HJoined, HInstall, HSetState, HDrain, HDrained,
       HAccept, HHandshake, HSent, HSpawn,
       HGoto, Handling

LEMMA ReaderFrame ==
  ASSUME NEW c \in Conns, Reader(c)
  PROVE  /\ Alive
         /\ Reading(c)
         /\ UNCHANGED <<running, active, listener, bound, reader, accepted, crashed, app, wpc,
                        handler, socks>>
         /\ \E label : rpc' = [rpc EXCEPT ![c] = label]
BY DEF Reader, RLoop, RRead, RLeave, RData, RSent, RExit, RDisconnect, RSetState, RGoto, Reading

-----------------------------------------------------------------------------
(* The application's and the worker's progress, and the port. *)
LEMMA AppPortNext ==
  TypeOK /\ AppInv /\ PortInv /\ [Next]_vars => AppInv' /\ PortInv'
<1> SUFFICES ASSUME TypeOK, AppInv, PortInv, [Next]_vars PROVE AppInv' /\ PortInv'
  OBVIOUS
<1> USE DEF AppInv, PortInv, flags, shared, calls, app, handler, socks
<1>1. CASE App
  <2> USE DEF AGoto
  <2>1. CASE AStart BY <2>1 DEF AStart
  <2>2. CASE AStop BY <2>2 DEF AStop
  <2>3. CASE ACloseListener BY <2>3 DEF ACloseListener
  <2>4. CASE ASwap BY <2>4 DEF ASwap
  <2>5. CASE ADisconnect BY <2>5 DEF ADisconnect
  <2>6. CASE ADelete BY <2>6 DEF ADelete
  <2>7. CASE AJoin BY <2>7 DEF AJoin
  <2>8. CASE AJoined BY <2>8 DEF AJoined
  <2>9. CASE AJoinWorker BY <2>9 DEF AJoinWorker
  <2>10. CASE ASetState BY <2>10 DEF ASetState
  <2>11. CASE ADestroy BY <2>11 DEF ADestroy
  <2> QED BY <1>1, <2>1, <2>2, <2>3, <2>4, <2>5, <2>6, <2>7, <2>8, <2>9, <2>10, <2>11
          DEF App, Stopping
<1>2. CASE Worker
  <2> USE DEF WGoto, TypeOK
  <2>0. wpc' # "none" /\ apc' = apc /\ apc # "new" /\ apc \notin {"state", "stopped", "destroyed"}
    BY <1>2, WorkerFrame
  <2>1. CASE WBind BY <2>0, <2>1 DEF WBind
  <2>2. CASE WPublish BY <2>0, <2>2 DEF WPublish
  <2>3. CASE WFailed BY <2>0, <2>3 DEF WFailed
  <2>4. CASE WRetry BY <2>0, <2>4 DEF WRetry
  <2>5. CASE WListening BY <2>0, <2>5 DEF WListening
  <2>6. CASE WLoop BY <2>0, <2>6 DEF WLoop
  <2>7. CASE WTick BY <2>0, <2>7 DEF WTick
  <2>8. CASE WSent BY <2>0, <2>8 DEF WSent
  <2>9. CASE WClose BY <2>0, <2>9 DEF WClose
  <2>10. CASE WFinal BY <2>0, <2>10 DEF WFinal
  <2> QED BY <1>2, <2>1, <2>2, <2>3, <2>4, <2>5, <2>6, <2>7, <2>8, <2>9, <2>10 DEF Worker
<1>3. ASSUME NEW c \in Conns, Network(c) PROVE AppInv' /\ PortInv'
  <2>1. bound => apc # "new"
    OBVIOUS
  <2>2. Connect(c) => bound
    BY DEF Connect
  <2> QED BY <1>3, <2>1, <2>2, NetworkFrame
<1>4. ASSUME NEW c \in Conns, Handler(c) PROVE AppInv' /\ PortInv'
  <2>1. apc # "new"
    BY <1>4, HandlerFrame DEF Handling
  <2> QED BY <1>4, <2>1, HandlerFrame
<1>5. ASSUME NEW c \in Conns, Reader(c) PROVE AppInv' /\ PortInv'
  <2>1. apc # "new"
    BY <1>5, ReaderFrame DEF Reading
  <2> QED BY <1>5, <2>1, ReaderFrame
<1>6. CASE UNCHANGED vars
  BY <1>6 DEF vars
<1> QED BY <1>1, <1>2, <1>3, <1>4, <1>5, <1>6 DEF Next

-----------------------------------------------------------------------------
(* One handler at a time, and no reader beside a handler past its join.     *)
LEMMA ThreadNext ==
  ASSUME ~Overlap, TypeOK, AppInv, HandlerInv, ReaderInv, Next, Alive'
  PROVE  HandlerInv' /\ ReaderInv'
<1> USE DEF TypeOK, HandlerInv, ReaderInv, Handling, Reading, Installed, Silent, flags, shared, calls, app, handler, socks
<1>1. CASE App
  <2>1. UNCHANGED <<accepted, handler, rpc>>
    BY <1>1, AppFrame
  <2>2. \/ UNCHANGED <<active, client, reader>>
        \/ ~active' /\ UNCHANGED reader /\ client' \in {client, NONE}
        \/ \A c \in Conns : hpc[c] = "none" /\ rpc[c] = "none"
        \/ AJoined
    BY <1>1 DEF App, Stopping, AStart, AStop, ACloseListener, ASwap, ADisconnect, ADelete,
                AJoin, AJoinWorker, ASetState, ADestroy, AppInv
  <2>3. CASE AJoined
    <3>1. /\ reader' = NONE /\ rpc[reader] = "done"
          /\ UNCHANGED <<active, client>>
      BY <2>3 DEF AJoined
    <3> QED BY <2>1, <3>1
  <2> QED BY <2>1, <2>2, <2>3
<1>2. CASE Worker
  BY <1>2, WorkerFrame
<1>3. ASSUME NEW c \in Conns, Network(c) PROVE HandlerInv' /\ ReaderInv'
  <2>1. CASE Connect(c)
    BY <2>1 DEF Connect, NetOnly
  <2>2. CASE hpc' = hpc
    BY <1>3, <2>2, NetworkFrame
  <2> QED BY <1>3, <2>1, <2>2, NetworkFrame
<1>4. ASSUME NEW c \in Conns, Handler(c) PROVE HandlerInv' /\ ReaderInv'
  <2> USE DEF HGoto
  <2>0. /\ \A d \in Conns \ {c} : hpc[d] \in {"none", "done"}
        /\ hpc[c] \in {"install"} \cup Installed
               => \A d \in Conns : rpc[d] \in {"none", "done"}
    BY <1>4, HandlerFrame, NoneAssumption
  <2>1. CASE HSwap(c) BY <2>0, <2>1 DEF HSwap
  <2>2. CASE HDelete(c) BY <2>0, <2>2 DEF HDelete
  <2>3. CASE HJoin(c) BY <2>0, <2>3 DEF HJoin
  <2>4. CASE HJoined(c) BY <2>0, <2>4 DEF HJoined
  <2>5. CASE HInstall(c) BY <2>0, <2>5 DEF HInstall
  <2>6. CASE HSetState(c) BY <2>0, <2>6 DEF HSetState
  <2>7. CASE HDrain(c)
    <3>1. CASE HGoto(c, "tell") BY <2>0, <2>7, <3>1 DEF HDrain
    <3>2. CASE HGoto(c, "draining") BY <2>0, <2>7, <3>2 DEF HDrain
    <3> QED BY <2>7, <3>1, <3>2 DEF HDrain
  <2>8. CASE HDrained(c) BY <2>0, <2>8 DEF HDrained
  <2>9. CASE HAccept(c) BY <2>0, <2>9 DEF HAccept
  <2>10. CASE HHandshake(c) BY <2>0, <2>10 DEF HHandshake
  <2>11. CASE HSent(c) BY <2>0, <2>11 DEF HSent
  <2>12. CASE HSpawn(c) BY <2>0, <2>12 DEF HSpawn
  <2> QED BY <1>4, <2>1, <2>2, <2>3, <2>4, <2>5, <2>6, <2>7, <2>8, <2>9, <2>10, <2>11, <2>12
          DEF Handler
<1>5. ASSUME NEW c \in Conns, Reader(c) PROVE HandlerInv' /\ ReaderInv'
  <2> USE DEF RGoto
  (* The reader that runs is the one reader_thread holds, so no handler is past its join. *)
  <2>0. /\ reader = c /\ reader # NONE
        /\ \A d \in Conns : hpc[d] \in {"none", "swap", "delete", "join", "joining", "done"}
    BY <1>5, ReaderFrame, NoneAssumption
  <2>1. CASE RLoop(c) BY <2>0, <2>1 DEF RLoop
  <2>2. CASE RRead(c) BY <2>0, <2>2 DEF RRead
  <2>8. CASE RLeave(c) BY <2>0, <2>8 DEF RLeave
  <2>3. CASE RData(c)
    <3>1. CASE RGoto(c, "loop") BY <2>0, <2>3, <3>1 DEF RData
    <3>2. CASE RGoto(c, "sending") BY <2>0, <2>3, <3>2 DEF RData
    <3> QED BY <2>3, <3>1, <3>2 DEF RData
  <2>4. CASE RSent(c) BY <2>0, <2>4 DEF RSent
  <2>5. CASE RExit(c) BY <2>0, <2>5 DEF RExit
  <2>6. CASE RDisconnect(c) BY <2>0, <2>6 DEF RDisconnect
  <2>7. CASE RSetState(c) BY <2>0, <2>7 DEF RSetState
  <2> QED BY <1>5, <2>1, <2>2, <2>3, <2>4, <2>5, <2>6, <2>7, <2>8 DEF Reader
<1> QED BY <1>1, <1>2, <1>3, <1>4, <1>5 DEF Next

(* The callbacks' flag and the state follow client_sock. *)
LEMMA CallbackNext ==
  ASSUME ~Overlap, TypeOK, AppInv, HandlerInv, ReaderInv, CallbackInv, Next, Alive'
  PROVE  CallbackInv'
<1> USE NoneAssumption
    DEF TypeOK, CallbackInv, Handling, Reading, Installed, Silent, flags, shared, calls, app, handler, socks
<1>1. CASE App
  <2>1. \/ ~active'
        \/ ~told' /\ client' = NONE /\ state' = "stopped"
    BY <1>1 DEF App, Stopping, AStart, AStop, ACloseListener, ASwap, ADisconnect, ADelete,
                AJoin, AJoined, AJoinWorker, ASetState, ADestroy, AppInv
  <2> QED BY <2>1
<1>2. CASE Worker
  <2>1. state' = "connected" => state = "connected"
    BY <1>2 DEF Worker, WBind, WPublish, WFailed, WRetry, WListening, WLoop, WTick, WSent,
                WClose, WFinal
  <2> QED BY <1>2, <2>1, WorkerFrame
<1>3. ASSUME NEW c \in Conns, Network(c) PROVE CallbackInv'
  <2>1. \A d \in Conns : hpc'[d] = hpc[d] \/ (d = c /\ hpc[d] \in {"none", "done"} /\ hpc'[d] = "swap")
    BY <1>3, NetworkFrame DEF Connect
  <2> QED BY <1>3, <2>1, NetworkFrame
<1>4. ASSUME NEW c \in Conns, Handler(c) PROVE CallbackInv'
  <2> USE DEF HGoto
  <2>0. \A d \in Conns : hpc[d] \in Silent => d = c
    BY <1>4, HandlerFrame DEF HandlerInv
  <2>1. CASE HSwap(c) BY <2>0, <2>1 DEF HSwap
  <2>2. CASE HDelete(c) BY <2>0, <2>2 DEF HDelete
  <2>3. CASE HJoin(c) BY <2>0, <2>3 DEF HJoin
  <2>4. CASE HJoined(c) BY <2>0, <2>4 DEF HJoined
  <2>5. CASE HInstall(c) BY <2>0, <2>5 DEF HInstall
  <2>6. CASE HSetState(c) BY <2>0, <2>6 DEF HSetState
  <2>7. CASE HDrain(c)
    <3>1. CASE HGoto(c, "tell") BY <2>0, <2>7, <3>1 DEF HDrain
    <3>2. CASE HGoto(c, "draining") BY <2>0, <2>7, <3>2 DEF HDrain
    <3> QED BY <2>7, <3>1, <3>2 DEF HDrain
  <2>8. CASE HDrained(c) BY <2>0, <2>8 DEF HDrained
  <2>9. CASE HAccept(c) BY <2>0, <2>9 DEF HAccept
  <2>10. CASE HHandshake(c) BY <2>0, <2>10 DEF HHandshake
  <2>11. CASE HSent(c) BY <2>0, <2>11 DEF HSent
  <2>12. CASE HSpawn(c) BY <2>0, <2>12 DEF HSpawn, HandlerInv
  <2> QED BY <1>4, <2>1, <2>2, <2>3, <2>4, <2>5, <2>6, <2>7, <2>8, <2>9, <2>10, <2>11, <2>12
          DEF Handler
<1>5. ASSUME NEW c \in Conns, Reader(c) PROVE CallbackInv'
  <2> USE DEF RGoto
  <2>0. /\ \A d \in Conns : hpc[d] \notin Silent
        /\ \A d \in Conns \ {c} : rpc[d] \in {"none", "done"}
        /\ rpc[c] = "disconnect" => client = NONE
    BY <1>5, ReaderFrame DEF ReaderInv, HandlerInv
  <2>1. CASE RLoop(c) BY <2>0, <2>1 DEF RLoop
  <2>2. CASE RRead(c) BY <2>0, <2>2 DEF RRead
  <2>8. CASE RLeave(c) BY <2>0, <2>8 DEF RLeave
  <2>3. CASE RData(c)
    <3>1. CASE RGoto(c, "loop") BY <2>0, <2>3, <3>1 DEF RData
    <3>2. CASE RGoto(c, "sending") BY <2>0, <2>3, <3>2 DEF RData
    <3> QED BY <2>3, <3>1, <3>2 DEF RData
  <2>4. CASE RSent(c) BY <2>0, <2>4 DEF RSent
  <2>5. CASE RExit(c) BY <2>0, <2>5 DEF RExit
  <2>6. CASE RDisconnect(c) BY <2>0, <2>6 DEF RDisconnect
  <2>7. CASE RSetState(c) BY <2>0, <2>7 DEF RSetState
  <2> QED BY <1>5, <2>1, <2>2, <2>3, <2>4, <2>5, <2>6, <2>7, <2>8 DEF Reader
<1> QED BY <1>1, <1>2, <1>3, <1>4, <1>5 DEF Next

LEMMA NextAlive == Next => Alive
BY NetworkFrame, AppFrame, WorkerFrame, HandlerFrame, ReaderFrame DEF Next

LEMMA IInvNext ==
  ASSUME ~Overlap PROVE IInv /\ [Next]_vars => IInv'
<1> SUFFICES ASSUME IInv, [Next]_vars PROVE IInv'
  OBVIOUS
<1>1. CASE Next
  <2>1. TypeOK' /\ AppInv' /\ PortInv'
    BY <1>1, TypeNext, AppPortNext DEF IInv
  <2>2. ASSUME Alive' PROVE HandlerInv' /\ ReaderInv' /\ CallbackInv'
    BY <1>1, <2>2, NextAlive, ThreadNext, CallbackNext DEF IInv
  <2> QED BY <2>1, <2>2 DEF IInv
<1>2. CASE UNCHANGED vars
  BY <1>2 DEF IInv, TypeOK, AppInv, PortInv, HandlerInv, ReaderInv, CallbackInv, Alive,
              Handling, Reading, Installed, Silent, vars, flags, shared, calls, app, handler, socks
<1> QED BY <1>1, <1>2

(* The invariant of the listener, for clients handed over one at a time. *)
THEOREM Invariance == ASSUME ~Overlap PROVE Spec => []IInv
<1>1. IInv /\ [Next]_vars => IInv'
  BY IInvNext
<1> QED BY IInvInit, <1>1, PTL DEF Spec

(* The listener's variables keep their types, overlapping clients or not. *)
THEOREM TypeCorrect == Spec => []TypeOK
<1>1. Init => TypeOK
  BY IInvInit DEF IInv
<1> QED BY <1>1, TypeNext, PTL DEF Spec

(* on_data runs on one thread at a time, whatever clients, stop() and the    *)
(* network do: the command ring keeps its single producer.                   *)
THEOREM OneReaderAtATime == ASSUME ~Overlap PROVE Spec => []OneReader
<1>1. IInv => OneReader
  BY DEF IInv, ReaderInv, OneReader
<1> QED BY Invariance, <1>1, PTL

(* Once things have settled the inspector's connected flag says whether      *)
(* there is a client.                                                        *)
THEOREM CallbacksAgree == ASSUME ~Overlap PROVE Spec => []ToldMatchesClient
<1>1. IInv => ToldMatchesClient
  BY DEF IInv, CallbackInv, ToldMatchesClient, Settled, Handling, Reading, Silent
<1> QED BY Invariance, <1>1, PTL

(* Without a client the state never stays connected.                         *)
THEOREM NoGhosts == ASSUME ~Overlap PROVE Spec => []NoGhostConnection
<1>1. IInv => NoGhostConnection
  BY DEF IInv, CallbackInv, NoGhostConnection, Settled, Handling, Reading
<1> QED BY Invariance, <1>1, PTL

(* A reader announces its client's departure before the next arrival.        *)
THEOREM DisconnectInOrder == ASSUME ~Overlap PROVE Spec => NoLateDisconnect
<1>1. IInv /\ [Next]_vars =>
        [\A c \in Conns : rpc[c] = "disconnect" /\ rpc'[c] = "state" /\ told # told'
                             => accepted = c]_vars
  <2> SUFFICES ASSUME IInv, Next, NEW c \in Conns, rpc[c] = "disconnect"
               PROVE  accepted = c
    BY DEF vars
  <2> QED BY NextAlive DEF IInv, ReaderInv, Reading
<1> QED BY Invariance, <1>1, PTL DEF Spec, NoLateDisconnect

(* When stop() returns its port can be bound again, whoever of stop() and    *)
(* the worker closed the listener, and even for overlapping clients.         *)
THEOREM PortIsFreed == Spec => []PortFreed
<1> DEFINE J == TypeOK /\ AppInv /\ PortInv
<1>1. Init => J
  BY IInvInit DEF IInv
<1>2. J /\ [Next]_vars => J'
  BY TypeNext, AppPortNext
<1>3. J => PortFreed
  BY DEF AppInv, PortInv, PortFreed
<1> QED BY <1>1, <1>2, <1>3, PTL DEF Spec

-----------------------------------------------------------------------------
(* What stop() has ended stays ended. *)
LEMMA StopNext ==
  ASSUME ~Overlap PROVE IInv /\ StopInv /\ [Next]_vars => StopInv'
<1> SUFFICES ASSUME IInv, StopInv, [Next]_vars, Alive' PROVE StopInv'
  BY DEF StopInv
<1> USE NoneAssumption DEF StopInv, flags, shared, calls, app, handler, socks
<1>0. CASE UNCHANGED vars
  BY <1>0 DEF vars, Alive, Reading
<1> SUFFICES ASSUME Next PROVE StopInv'
  BY <1>0
<1>a. /\ HandlerInv /\ ReaderInv /\ AppInv /\ TypeOK
      /\ Alive
  BY NextAlive DEF IInv
<1>b. \A c \in Conns : Reading(c) => reader = c
  BY <1>a DEF ReaderInv
<1>1. CASE App
  <2> USE <1>a, <1>b DEF AGoto, Reading, TypeOK
  <2>1. CASE AStart BY <2>1 DEF AStart
  <2>2. CASE AStop BY <2>2 DEF AStop
  <2>3. CASE ACloseListener BY <2>3 DEF ACloseListener
  <2>4. CASE ASwap BY <2>4 DEF ASwap
  <2>5. CASE ADisconnect BY <2>5 DEF ADisconnect
  <2>6. CASE ADelete BY <2>6 DEF ADelete
  <2>7. CASE AJoin BY <2>7 DEF AJoin
  <2>8. CASE AJoined BY <2>8 DEF AJoined
  <2>9. CASE AJoinWorker BY <2>9 DEF AJoinWorker
  <2>10. CASE ASetState BY <2>10 DEF ASetState
  <2>11. CASE ADestroy BY <2>11 DEF ADestroy
  <2> QED BY <1>1, <2>1, <2>2, <2>3, <2>4, <2>5, <2>6, <2>7, <2>8, <2>9, <2>10, <2>11
          DEF App, Stopping
<1>2. CASE Worker
  <2>1. wpc # "done"
    BY <1>2, WorkerFrame
  <2> QED BY <1>2, <2>1, <1>a, WorkerFrame DEF AppInv, Reading
<1>3. ASSUME NEW c \in Conns, Network(c) PROVE StopInv'
  <2>1. UNCHANGED <<apc, late, client, reader, rpc, state>>
    BY <1>3, NetworkFrame
  <2>2. CASE Connect(c)
    <3>1. /\ hpc[c] = "none" /\ hpc'[c] = "swap"
          /\ \A d \in Conns : hpc'[d] = hpc[d] \/ d = c
          /\ late \subseteq Conns
      BY <1>a, <2>2 DEF Connect, TypeOK
    <3>2. apc \notin {"new", "up"} => c \in late
      BY <1>a, <3>1
    <3>3. \A d \in Conns : peer'[d] = "absent" => hpc'[d] = "none"
      BY <1>a, <2>2, <3>1 DEF Connect, TypeOK
    <3> QED BY <1>a, <2>1, <3>1, <3>2, <3>3 DEF Reading
  <2>3. CASE hpc' = hpc
    BY <1>3, <1>a, <2>1, <2>3 DEF Reading, Network, Connect, PeerCloses, TypeOK
  <2> QED BY <1>3, <2>2, <2>3, NetworkFrame
<1>4. ASSUME NEW c \in Conns, Handler(c) PROVE StopInv'
  <2>1. /\ Handling(c) /\ UNCHANGED <<apc, late>>
        /\ \A d \in Conns \ {c} : hpc'[d] = hpc[d]
    BY <1>4, <1>a, HandlerFrame DEF TypeOK
  <2>2. hpc'[c] # "none" /\ late \subseteq Conns
    <3> USE <1>a DEF HGoto, TypeOK
    <3>1. CASE HSwap(c) BY <3>1 DEF HSwap
    <3>2. CASE HDelete(c) BY <3>2 DEF HDelete
    <3>3. CASE HJoin(c) BY <3>3 DEF HJoin
    <3>4. CASE HJoined(c) BY <3>4 DEF HJoined
    <3>5. CASE HInstall(c) BY <3>5 DEF HInstall
    <3>6. CASE HSetState(c) BY <3>6 DEF HSetState
    <3>7. CASE HDrain(c) BY <3>7 DEF HDrain
    <3>8. CASE HDrained(c) BY <3>8 DEF HDrained
    <3>9. CASE HAccept(c) BY <3>9 DEF HAccept
    <3>10. CASE HHandshake(c) BY <3>10 DEF HHandshake
    <3>11. CASE HSent(c) BY <3>11 DEF HSent
    <3>12. CASE HSpawn(c) BY <3>12 DEF HSpawn
    <3> QED BY <1>4, <3>1, <3>2, <3>3, <3>4, <3>5, <3>6, <3>7, <3>8, <3>9, <3>10, <3>11, <3>12 DEF Handler
  (* Only a late handler still runs once stop() has begun. *)
  <2>3. apc \notin {"new", "up"} => c \in late
    BY <1>a, <2>1 DEF Handling
  <2>4. client' \in {client, NONE, c} /\ reader' \in {reader, NONE, c}
    BY <1>4 DEF Handler, HSwap, HDelete, HJoin, HJoined, HInstall, HSetState, HDrain, HDrained,
       HAccept, HHandshake, HSent, HSpawn
  <2>5. rpc' = rpc \/ rpc' = [rpc EXCEPT ![c] = "loop"]
    BY <1>4 DEF Handler, HSwap, HDelete, HJoin, HJoined, HInstall, HSetState, HDrain, HDrained,
       HAccept, HHandshake, HSent, HSpawn
  <2>6. \A d \in Conns \ {c} : rpc'[d] = rpc[d]
    BY <1>a, <2>5 DEF TypeOK
  <2>7. \A d \in Conns : peer'[d] = "absent" => hpc'[d] = "none"
    BY <1>4, <1>a, <2>1, HandlerFrame DEF Handling
  <2>8. (\A d \in Conns \ late : hpc[d] = "done") => \A d \in Conns \ late' : hpc'[d] = "done"
    BY <2>1 DEF Handling
  <2> QED BY <1>a, <2>1, <2>2, <2>3, <2>4, <2>6, <2>7, <2>8 DEF Reading, Handling
<1>5. ASSUME NEW c \in Conns, Reader(c) PROVE StopInv'
  <2>1. /\ UNCHANGED <<reader, apc, late, hpc, active>>
        /\ \A d \in Conns \ {c} : rpc'[d] = rpc[d]
        /\ Reading(c)
    BY <1>5, <1>a, ReaderFrame DEF TypeOK
  <2>2. client' \in {client, NONE}
    BY <1>5 DEF Reader, RLoop, RRead, RLeave, RData, RSent, RExit, RDisconnect, RSetState
  <2>3. active \/ state' = state
    BY <1>5 DEF Reader, RLoop, RRead, RLeave, RData, RSent, RExit, RDisconnect, RSetState
  <2>4. \A d \in Conns : peer'[d] = "absent" => hpc'[d] = "none"
    BY <1>5, <1>a, ReaderFrame
  <2> QED BY <1>a, <2>1, <2>2, <2>3, <2>4 DEF Reading, AppInv
<1> QED BY <1>1, <1>2, <1>3, <1>4, <1>5 DEF Next

(* When stop() returns, every client accepted before it is gone with its     *)
(* handler, its reader and its socket; only the clients that were still      *)
(* being accepted can have left something behind.                            *)
THEOREM StopEndsConnections ==
  ASSUME ~Overlap PROVE Spec => []StopIsFinal
<1>1. Init => StopInv
  BY NoneAssumption DEF Init, StopInv, Reading
<1>2. IInv /\ StopInv /\ [Next]_vars => StopInv'
  BY StopNext
<1>3. IInv /\ StopInv => StopIsFinal
  BY NoneAssumption DEF IInv, StopInv, StopIsFinal, TypeOK, Handling
<1> QED BY Invariance, <1>1, <1>2, <1>3, PTL DEF Spec
=============================================================================
