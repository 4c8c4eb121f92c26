------------------------------- MODULE XrayProofs -------------------------------
(***************************************************************************)
(* For any directories, names, levels, starts and lines, when the           *)
(* application's second thread keeps out of start() and stop(): every line   *)
(* is on disk before the client is sent it, and env tells the truth.         *)
(* Without that condition: a session deletes only its oldest logs, and       *)
(* leaves few.                                                               *)
(***************************************************************************)
EXTENDS Xray, FiniteSetTheorems, TLAPS

Busy(t) == task[t].at > 0

Counters == starts \in Nat /\ self \in Nat /\ lines \in Nat

(* Where start() and stop() are, and what is there then.                    *)
Stages == /\ pc \in {"idle", "sinks", "resolve", "listen", "wait", "stopping", "delete", "clear"}
          /\ pc = "idle" => self = alive /\ (logger <=> alive # 0)
          /\ pc = "sinks" => self = alive /\ alive # 0
          /\ pc \in {"resolve", "listen", "wait", "stopping"} => self = alive /\ alive # 0 /\ logger
          /\ pc = "delete" => alive # 0 /\ logger
          /\ pc = "clear" => alive = 0 /\ ~logger
          /\ pc \in {"sinks", "resolve", "listen", "delete", "clear"} \/ alive = 0 => listen = "off"

(* A call of log() in progress.                                             *)
Call  == [at : 0 .. 2, inst : Nat, line : Nat, lv : 0 .. 4]
Calls == /\ task \in [Threads -> Call]
         /\ \A t \in Threads : Busy(t) => /\ task[t].inst = alive /\ alive # 0 /\ logger
                                          /\ pc \notin {"sinks", "stopping", "delete", "clear"}

(* A client, and a callback in progress.                                    *)
Connection == /\ net \in {"idle", "accepted", "dropped"}
              /\ {client, connected} \subseteq BOOLEAN
              /\ listen = "off" => ~client /\ net = "idle"

LifeInv == Stages /\ Calls /\ Connection

LEMMA CountersNext == Counters /\ [Next]_vars => Counters'
<1> SUFFICES ASSUME Counters, [Next]_vars PROVE Counters'
  OBVIOUS
<1>1. CASE Logging
  <2>1. PICK t \in Threads : ToFile(t) \/ ToNet(t) \/ \E lv \in Levels : Log(t, lv)
    BY <1>1 DEF Logging
  <2>2. UNCHANGED <<starts, self>> /\ lines' \in {lines, lines + 1}
    BY <2>1 DEF Log, ToFile, ToNet, process
  <2> QED BY <2>2 DEF Counters
<1>2. CASE Setting
  <2>1. UNCHANGED <<starts, self, lines>>
    BY <1>2 DEF Setting, SetLogPath, SetDeviceFamily, process, flow
  <2> QED BY <2>1 DEF Counters
<1>6. CASE Stopping
  <2>1. UNCHANGED <<starts, lines>> /\ self' \in {self, 0}
    BY <1>6 DEF Stopping, Stop, StopListener, Delete, ClearSelf, process, flow
  <2> QED BY <2>1 DEF Counters
<1>3. CASE Starting
  BY <1>3 DEF Starting, Start, MakeSinks, Resolve, StartListener, FillEnv, process, flow, Counters
<1>4. CASE Callback
  BY <1>4 DEF Callback, Bind, Drain, Accept, Disconnect, TellEnv, process, flow, Counters
<1>5. CASE Die \/ UNCHANGED vars
  BY <1>5 DEF Die, vars, process, flow, Counters
<1> QED BY <1>1, <1>2, <1>3, <1>4, <1>5, <1>6 DEF Next

LEMMA LifeInit == Init => Counters /\ LifeInv
<1> SUFFICES ASSUME Init PROVE Counters /\ LifeInv
  OBVIOUS
<1>1. Counters /\ Stages /\ Connection
  BY DEF Init, Counters, Stages, Connection
<1>2. Idle \in Call /\ Idle.at = 0
  BY DEF Idle, Call
<1>3. task = [t \in Threads |-> Idle]
  BY DEF Init, NoTasks
<1> QED BY <1>1, <1>2, <1>3 DEF LifeInv, Calls, Busy

(* A call of log() begins, and goes on to its next sink.                    *)
LEMMA CallBegins ==
    ASSUME Counters, LifeInv, NEW t \in Threads, NEW lv \in 0 .. 4, Entered(t, lv)
    PROVE  /\ task' \in [Threads -> Call] /\ task'[t].inst = self
           /\ \A u \in Threads : u # t => task'[u] = task[u]
<1> DEFINE c == [at |-> 1, inst |-> self, line |-> lines + 1, lv |-> lv]
<1>1. c \in Call /\ c.inst = self
  BY DEF Counters, Call
<1>2. task' = [task EXCEPT ![t] = c] /\ task \in [Threads -> Call]
  BY DEF Entered, LifeInv, Calls
<1> HIDE DEF c
<1> QED BY <1>1, <1>2

LEMMA CallGoesOn ==
    ASSUME LifeInv, NEW t \in Threads, Busy(t), Passed(t)
    PROVE  /\ task' \in [Threads -> Call]
           /\ Busy(t)' => task'[t].inst = task[t].inst
           /\ \A u \in Threads : u # t => task'[u] = task[u]
<1> DEFINE c == NextSink(task[t])
<1>1. task \in [Threads -> Call] /\ task[t] \in Call
  BY DEF LifeInv, Calls
<1>2. c \in Call /\ (c.at > 0 => c.inst = task[t].inst)
  BY <1>1 DEF NextSink, Call, Idle, SinkOrder
<1>3. task' = [task EXCEPT ![t] = c]
  BY DEF Passed
<1> HIDE DEF c
<1> QED BY <1>1, <1>2, <1>3 DEF Busy

LEMMA LoggingKeepsLife == ASSUME Serialised, Counters, LifeInv, Logging PROVE LifeInv'
<1>1. PICK t \in Threads : ToFile(t) \/ ToNet(t) \/ \E lv \in Levels : Log(t, lv)
  BY DEF Logging
<1>2. CASE ToFile(t) \/ ToNet(t)
  <2>1. UNCHANGED <<self, alive, logger, pc, listen, client, net, connected>>
    BY <1>2 DEF ToFile, ToNet, process, network
  <2>2. Passed(t) /\ Busy(t)
    BY <1>2 DEF ToFile, ToNet, At, Busy
  <2>3. Calls'
    BY <2>1, <2>2, CallGoesOn DEF LifeInv, Calls, Busy
  <2> QED BY <2>1, <2>3 DEF LifeInv, Stages, Connection
<1>3. ASSUME NEW lv \in Levels, Log(t, lv) PROVE LifeInv'
  <2>1. UNCHANGED <<self, alive, logger, pc, listen, client, net, connected>>
    BY <1>3 DEF Log, process, network
  <2>2. pc = "idle" /\ self # 0 /\ Entered(t, lv)
    BY <1>3 DEF Log
  <2>3. Calls'
    BY <2>1, <2>2, LevelAssumption, CallBegins DEF LifeInv, Stages, Calls, Busy
  <2> QED BY <2>1, <2>3 DEF LifeInv, Stages, Connection
<1> QED BY <1>1, <1>2, <1>3

LEMMA StartingKeepsLife == ASSUME Counters, LifeInv, Starting PROVE LifeInv'
<1>1. CASE Start
  <2>1. \A t \in Threads : ~Busy(t)
    BY <1>1 DEF Start, Ready, LifeInv, Stages, Calls
  <2>2. alive' # 0 /\ self' = alive' /\ pc' = "sinks"
    BY <1>1 DEF Start, Counters
  <2>3. UNCHANGED <<task, listen, client, net, connected>>
    BY <1>1 DEF Start, network
  <2>4. Calls'
    BY <2>1, <2>3 DEF LifeInv, Calls, Busy
  <2>5. listen' = "off"
    BY <1>1, <2>3 DEF LifeInv, Stages, Start, Ready
  <2> QED BY <2>2, <2>3, <2>4, <2>5 DEF LifeInv, Stages, Connection
<1>2. CASE MakeSinks
  BY <1>2 DEF MakeSinks, LifeInv, Stages, Calls, Connection, Busy
<1>3. CASE Resolve
  <2>1. /\ UNCHANGED <<self, alive, logger, listen, client, net, connected>>
        /\ pc = "resolve" /\ pc' = "listen"
    BY <1>3 DEF Resolve, network
  <2>2. UNCHANGED task \/ Entered("app", 2)
    BY <1>3 DEF Resolve
  <2>3. Calls'
    <3>1. "app" \in Threads /\ 2 \in 0 .. 4
      BY DEF Threads
    <3> QED BY <2>1, <2>2, <3>1, CallBegins DEF LifeInv, Stages, Calls, Busy
  <2> QED BY <2>1, <2>3 DEF LifeInv, Stages, Connection
<1>4. CASE StartListener
  BY <1>4 DEF StartListener, process, LifeInv, Stages, Calls, Connection, Busy
<1>5. CASE FillEnv
  <2>1. /\ UNCHANGED <<self, alive, logger, listen, client, net, connected>>
        /\ pc = "wait" /\ pc' = "idle" /\ Entered("app", 2)
    BY <1>5 DEF FillEnv, process
  <2>2. Calls'
    <3>1. "app" \in Threads /\ 2 \in 0 .. 4
      BY DEF Threads
    <3> QED BY <2>1, <3>1, CallBegins DEF LifeInv, Stages, Calls, Busy
  <2> QED BY <2>1, <2>2 DEF LifeInv, Stages, Connection
<1> QED BY <1>1, <1>2, <1>3, <1>4, <1>5 DEF Starting

LEMMA StoppingKeepsLife == ASSUME Serialised, Counters, LifeInv, Stopping PROVE LifeInv'
<1>1. CASE Stop
  <2>1. \A t \in Threads : ~Busy(t)
    BY <1>1 DEF Stop, Ready, LifeInv, Calls, Busy, Threads
  <2> QED BY <1>1, <2>1 DEF Stop, Ready, process, network, LifeInv, Stages, Calls, Connection, Busy
<1>2. CASE StopListener
  <2>1. UNCHANGED <<self, alive, logger, task, client, net, connected>>
    BY <1>2 DEF StopListener, process
  <2> QED BY <1>2, <2>1 DEF StopListener, LifeInv, Stages, Calls, Connection, Busy
<1>3. CASE Delete
  BY <1>3 DEF Delete, network, LifeInv, Stages, Calls, Connection, Busy
<1>4. CASE ClearSelf
  BY <1>4 DEF ClearSelf, network, LifeInv, Stages, Calls, Connection, Busy
<1> QED BY <1>1, <1>2, <1>3, <1>4 DEF Stopping

LEMMA CallbackKeepsLife == ASSUME LifeInv, Callback PROVE LifeInv'
<1>1. UNCHANGED <<self, alive, logger, pc, task>>
  BY DEF Callback, Bind, Drain, Accept, Disconnect, TellEnv, process
<1>2. Stages' /\ Calls'
  <2>1. listen' = listen \/ (listen \in {"stopped", "failed"} /\ listen' # "off")
    BY DEF Callback, Bind, Drain, Accept, Disconnect, TellEnv
  <2> QED BY <1>1, <2>1 DEF LifeInv, Stages, Calls, Busy
<1>3. Connection'
  <2>1. CASE Bind
    BY <2>1 DEF Bind, LifeInv, Connection
  <2>2. CASE Drain
    BY <2>2 DEF Drain, LifeInv, Connection
  <2>3. CASE Accept
    BY <2>3 DEF Accept, LifeInv, Connection
  <2>4. CASE Disconnect
    BY <2>4 DEF Disconnect, LifeInv, Connection
  <2>5. CASE TellEnv
    BY <2>5 DEF TellEnv, LifeInv, Connection
  <2> QED BY <2>1, <2>2, <2>3, <2>4, <2>5 DEF Callback
<1> QED BY <1>1, <1>2, <1>3 DEF LifeInv

LEMMA LifeNext == ASSUME Serialised PROVE Counters /\ LifeInv /\ [Next]_vars => LifeInv'
<1> SUFFICES ASSUME Counters, LifeInv, [Next]_vars PROVE LifeInv'
  OBVIOUS
<1>1. CASE Setting
  <2>1. UNCHANGED <<self, alive, logger, pc, task, listen, client, net, connected>>
    BY <1>1 DEF Setting, SetLogPath, SetDeviceFamily, process, network
  <2> QED BY <2>1 DEF LifeInv, Stages, Calls, Connection, Busy
<1>2. CASE Die
  <2>1. /\ self' = 0 /\ alive' = 0 /\ logger' = FALSE /\ pc' = "idle"
        /\ listen' = "off" /\ client' = FALSE /\ net' = "idle" /\ connected' = FALSE
        /\ task' = [t \in Threads |-> Idle]
    BY <1>2 DEF Die, NoTasks
  <2>2. Calls'
    <3>1. Idle \in Call /\ ~(Idle.at > 0)
      BY DEF Idle, Call
    <3> QED BY <2>1, <3>1 DEF Calls, Busy
  <2> QED BY <2>1, <2>2 DEF LifeInv, Stages, Connection
<1>3. CASE UNCHANGED vars
  BY <1>3 DEF vars, process, network, LifeInv, Stages, Calls, Connection, Busy
<1> QED BY <1>1, <1>2, <1>3, LoggingKeepsLife, StartingKeepsLife, StoppingKeepsLife,
           CallbackKeepsLife DEF Next

-----------------------------------------------------------------------------
(* A call that has passed the first sink has been to the file, because that *)
(* is the first of SinkOrder.                                               *)
Seen == written \cup missed
Told == {q[1] : q \in queued} \cup wire

DiskInv == /\ \A t \in Threads : task[t].at = 2 => task[t].line \in Seen
           /\ Told \subseteq Seen

LEMMA LoggingKeepsDisk == ASSUME Counters, LifeInv, DiskInv, Logging PROVE DiskInv'
<1>1. PICK t \in Threads : ToFile(t) \/ ToNet(t) \/ \E lv \in Levels : Log(t, lv)
  BY DEF Logging
<1>2. task \in [Threads -> Call] /\ task[t] \in Call
  BY DEF LifeInv, Calls
<1>3. \A u \in Threads : u # t => task'[u] = task[u]
  BY <1>1, <1>2 DEF ToFile, ToNet, Log, Passed, Entered
<1>4. CASE ToFile(t)
  <2>1. /\ UNCHANGED <<queued, wire>> /\ Seen' = Seen \cup {task[t].line}
    BY <1>4 DEF ToFile, Seen
  <2>2. task'[t].at = 2 => task'[t].line = task[t].line
    BY <1>2, <1>4 DEF ToFile, Passed, NextSink, Idle, Call
  <2> QED BY <1>3, <2>1, <2>2 DEF DiskInv, Told
<1>5. CASE ToNet(t)
  <2>1. task[t].at = 2 /\ UNCHANGED <<written, missed, wire>>
    BY <1>2, <1>5 DEF ToNet, At, SinkOrder, Call
  <2>2. task'[t].at # 2
    BY <1>2, <1>5, <2>1 DEF ToNet, Passed, NextSink, SinkOrder, Idle
  <2>3. Told' \subseteq Told \cup {task[t].line}
    BY <1>5, <2>1 DEF ToNet, Told
  <2> QED BY <1>3, <2>1, <2>2, <2>3 DEF DiskInv, Seen
<1>6. ASSUME NEW lv \in Levels, Log(t, lv) PROVE DiskInv'
  <2>1. task'[t].at # 2 /\ UNCHANGED <<queued, written, missed, wire>>
    BY <1>2, <1>6 DEF Log, Entered
  <2> QED BY <1>3, <2>1 DEF DiskInv, Seen, Told
<1> QED BY <1>1, <1>4, <1>5, <1>6

LEMMA DiskNext == Counters /\ LifeInv /\ DiskInv /\ [Next]_vars => DiskInv'
<1> SUFFICES ASSUME Counters, LifeInv, DiskInv, [Next]_vars PROVE DiskInv'
  OBVIOUS
<1>1. CASE UNCHANGED <<task, queued, wire, written, missed>>
  BY <1>1 DEF DiskInv, Seen, Told
<1>2. CASE Logging
  BY <1>2, LoggingKeepsDisk
<1>3. CASE Starting
  <2>1. CASE Start
    <3>1. \A t \in Threads : ~Busy(t) /\ task[t].at # 2
      BY <2>1 DEF Start, Ready, LifeInv, Stages, Calls, Busy
    <3>2. Told' = {} /\ task' = task
      BY <2>1 DEF Start, Told
    <3> QED BY <3>1, <3>2 DEF DiskInv
  <2>2. CASE MakeSinks \/ StartListener
    BY <1>1, <2>2 DEF MakeSinks, StartListener, flow
  <2>3. CASE Resolve \/ FillEnv
    <3>1. UNCHANGED <<queued, wire, written, missed>> /\ (UNCHANGED task \/ Entered("app", 2))
      BY <2>3 DEF Resolve, FillEnv
    <3>2. CASE Entered("app", 2)
      <4>1. \A t \in Threads : task'[t].at = 2 => task'[t] = task[t]
        BY <3>2 DEF Entered, LifeInv, Calls, Threads
      <4> QED BY <3>1, <4>1 DEF DiskInv, Seen, Told
    <3> QED BY <1>1, <3>1, <3>2
  <2> QED BY <1>3, <2>1, <2>2, <2>3 DEF Starting
<1>4. CASE Stopping
  <2>1. CASE Delete
    BY <2>1 DEF Delete, DiskInv, Seen, Told
  <2> QED BY <1>1, <1>4, <2>1 DEF Stopping, Stop, StopListener, ClearSelf, flow
<1>5. CASE Setting
  BY <1>1, <1>5 DEF Setting, SetLogPath, SetDeviceFamily, flow
<1>6. CASE Callback
  <2>1. CASE Drain \/ Accept
    <3>1. UNCHANGED <<task, written, missed>> /\ Drained
      BY <2>1 DEF Drain, Accept
    <3>2. Told' \subseteq Told
      BY <3>1 DEF Drained, Told
    <3> QED BY <3>1, <3>2 DEF DiskInv, Seen
  <2> QED BY <1>1, <1>6, <2>1 DEF Callback, Bind, Disconnect, TellEnv, flow
<1>7. CASE Die
  <2>1. \A t \in Threads : task'[t].at # 2
    BY <1>7 DEF Die, NoTasks, Idle
  <2>2. UNCHANGED <<wire, written, missed>> /\ queued' = {}
    BY <1>7 DEF Die
  <2> QED BY <2>1, <2>2 DEF DiskInv, Seen, Told
<1>8. CASE UNCHANGED vars
  BY <1>1, <1>8 DEF vars, flow
<1> QED BY <1>2, <1>3, <1>4, <1>5, <1>6, <1>7, <1>8 DEF Next

(* What the client was sent, or may still be sent, is on disk first.        *)
THEOREM DiskFirst == ASSUME Serialised PROVE Spec => []OnDisk
<1>1. Init => DiskInv
  BY DEF Init, NoTasks, Idle, DiskInv, Told
<1>2. DiskInv => OnDisk
  BY DEF DiskInv, Told, Seen, OnDisk
<1> QED BY LifeInit, CountersNext, LifeNext, DiskNext, <1>1, <1>2, PTL DEF Spec

-----------------------------------------------------------------------------
(* env.  The gate of the net sink is open exactly while there is a client,  *)
(* and the callback in progress says whether there is.                      *)
EnvType == [path : Dirs \cup {NONE}, family : Families \cup {NONE}, xbox : BOOLEAN, port : BOOLEAN,
            connected : BOOLEAN]

Gate  == /\ connected = client /\ early \in BOOLEAN /\ port \in BOOLEAN
         /\ net = "accepted" => client
         /\ net = "dropped" => ~client

Facts == /\ env \in EnvType /\ s_log_path \in Dirs
         /\ env.path \in {NONE, s_log_path}
         /\ env.xbox = (env.family = Xbox)

Truth == pc = "idle" /\ self # 0 =>
             /\ env.path = s_log_path
             /\ env.port => port
             /\ net = "idle" => env.connected = (client /\ ~early)

EnvInv == Gate /\ Facts /\ Truth

LEMMA EnvInit == Init => EnvInv
<1> SUFFICES ASSUME Init PROVE EnvInv
  OBVIOUS
<1>1. Gate /\ Truth
  BY DEF Init, Gate, Truth
<1>2. env = env0 /\ s_log_path \in Dirs
  BY DefaultAssumption DEF Init
<1>3. Facts
  BY <1>2, DefaultAssumption DEF Facts, env0, EnvType
<1> QED BY <1>1, <1>3 DEF EnvInv

LEMMA SettingKeepsEnv == ASSUME EnvInv, Setting PROVE EnvInv'
<1>1. UNCHANGED <<self, pc, listen, port, client, net, connected, early>>
  BY DEF Setting, SetLogPath, SetDeviceFamily, process, network
<1>2. ASSUME NEW d \in Dirs, SetLogPath(d) PROVE EnvInv'
  <2>1. env' = [env EXCEPT !.path = d] /\ s_log_path' = d
    BY <1>2 DEF SetLogPath
  <2>2. Facts'
    BY <2>1 DEF EnvInv, Facts, EnvType
  <2>3. env'.path = d /\ env'.port = env.port /\ env'.connected = env.connected
    BY <2>1 DEF EnvInv, Facts, EnvType
  <2> QED BY <1>1, <2>1, <2>2, <2>3 DEF EnvInv, Gate, Truth
<1>3. ASSUME NEW f \in Families, SetDeviceFamily(f) PROVE EnvInv'
  <2>1. env' = [env EXCEPT !.family = f, !.xbox = (f = Xbox)] /\ s_log_path' = s_log_path
    BY <1>3 DEF SetDeviceFamily, process
  <2>2. Facts'
    BY <2>1 DEF EnvInv, Facts, EnvType
  <2>3. env'.path = env.path /\ env'.port = env.port /\ env'.connected = env.connected
    BY <2>1 DEF EnvInv, Facts, EnvType
  <2> QED BY <1>1, <2>1, <2>2, <2>3 DEF EnvInv, Gate, Truth
<1> QED BY <1>2, <1>3 DEF Setting

LEMMA StartingKeepsEnv == ASSUME LifeInv, EnvInv, Starting PROVE EnvInv'
<1>1. CASE Start
  <2>1. pc' = "sinks" /\ UNCHANGED <<s_log_path, env, port, client, net, connected, early>>
    BY <1>1 DEF Start, network
  <2> QED BY <2>1 DEF EnvInv, Gate, Facts, Truth
<1>2. CASE MakeSinks
  <2>1. /\ pc' = "resolve" /\ UNCHANGED <<s_log_path, env, port, client, net, early>>
        /\ connected' = FALSE /\ client = FALSE
    BY <1>2 DEF MakeSinks, LifeInv, Stages, Connection
  <2> QED BY <2>1 DEF EnvInv, Gate, Facts, Truth
<1>3. CASE Resolve \/ StartListener
  <2>1. /\ pc' # "idle" /\ UNCHANGED <<s_log_path, env, port, client, net, connected, early>>
    BY <1>3 DEF Resolve, StartListener, process, network
  <2> QED BY <2>1 DEF EnvInv, Gate, Facts, Truth
<1>4. CASE FillEnv
  <2>1. /\ UNCHANGED <<s_log_path, port, client, net, connected>>
        /\ env' = [path |-> s_log_path, family |-> NONE, xbox |-> FALSE, port |-> port, connected |-> FALSE]
        /\ early' = (client /\ net = "idle")
    BY <1>4 DEF FillEnv, process
  <2>2. Facts'
    BY <2>1, DefaultAssumption DEF EnvInv, Gate, Facts, EnvType
  <2>3. Gate'
    BY <2>1 DEF EnvInv, Gate
  <2>4. Truth'
    BY <2>1 DEF EnvInv, Gate, Truth
  <2> QED BY <2>2, <2>3, <2>4 DEF EnvInv
<1> QED BY <1>1, <1>2, <1>3, <1>4 DEF Starting

LEMMA CallbackKeepsEnv == ASSUME LifeInv, EnvInv, Callback PROVE EnvInv'
<1>1. UNCHANGED <<self, pc, s_log_path>>
  BY DEF Callback, Bind, Drain, Accept, Disconnect, TellEnv, process
<1>2. CASE Bind
  <2>1. port' \in {port, TRUE} /\ UNCHANGED <<env, client, net, connected, early>>
    BY <1>2 DEF Bind
  <2> QED BY <1>1, <2>1 DEF EnvInv, Gate, Facts, Truth
<1>3. CASE Drain
  <2>1. UNCHANGED <<env, port, client, net, connected, early>>
    BY <1>3 DEF Drain
  <2> QED BY <1>1, <2>1 DEF EnvInv, Gate, Facts, Truth
<1>4. CASE Accept
  <2>1. client' = TRUE /\ connected' = TRUE /\ net' = "accepted" /\ UNCHANGED <<env, port, early>>
    BY <1>4 DEF Accept
  <2> QED BY <1>1, <2>1 DEF EnvInv, Gate, Facts, Truth
<1>5. CASE Disconnect
  <2>1. client' = FALSE /\ connected' = FALSE /\ net' = "dropped" /\ UNCHANGED <<env, port, early>>
    BY <1>5 DEF Disconnect
  <2> QED BY <1>1, <2>1 DEF EnvInv, Gate, Facts, Truth
<1>6. CASE TellEnv
  <2>1. /\ net # "idle" /\ env' = [env EXCEPT !.connected = (net = "accepted")]
        /\ early' = FALSE /\ net' = "idle" /\ UNCHANGED <<port, client, connected>>
    BY <1>6 DEF TellEnv
  <2>2. Facts'
    BY <1>1, <2>1 DEF EnvInv, Facts, EnvType
  <2>3. env'.path = env.path /\ env'.port = env.port /\ env'.connected = (net = "accepted")
    BY <2>1 DEF EnvInv, Facts, EnvType
  <2>4. net = "accepted" <=> client
    BY <2>1 DEF EnvInv, Gate, LifeInv, Connection
  <2>5. Gate'
    BY <2>1 DEF EnvInv, Gate
  <2>6. Truth'
    BY <1>1, <2>1, <2>3, <2>4 DEF EnvInv, Truth, LifeInv, Connection
  <2> QED BY <2>2, <2>5, <2>6 DEF EnvInv
<1> QED BY <1>2, <1>3, <1>4, <1>5, <1>6 DEF Callback

LEMMA EnvNext == LifeInv /\ EnvInv /\ [Next]_vars => EnvInv'
<1> SUFFICES ASSUME LifeInv, EnvInv, [Next]_vars PROVE EnvInv'
  OBVIOUS
<1>1. CASE Logging \/ UNCHANGED vars
  <2>1. UNCHANGED <<self, s_log_path, pc, port, client, net, connected, early, env>>
    BY <1>1 DEF Logging, Log, ToFile, ToNet, vars, process, network
  <2> QED BY <2>1 DEF EnvInv, Gate, Facts, Truth
<1>2. CASE Stopping
  <2>1. pc' # "idle" \/ self' = 0
    BY <1>2 DEF Stopping, Stop, StopListener, Delete, ClearSelf
  <2>2. port' \in {port, FALSE} /\ UNCHANGED <<s_log_path, env, client, net, connected, early>>
    BY <1>2 DEF Stopping, Stop, StopListener, Delete, ClearSelf, process, network
  <2> QED BY <2>1, <2>2 DEF EnvInv, Gate, Facts, Truth
<1>3. CASE Die
  <2>1. /\ self' = 0 /\ env' = env0 /\ s_log_path' \in Dirs /\ port' = FALSE
        /\ early' = FALSE /\ client' = FALSE /\ net' = "idle" /\ connected' = FALSE
    BY <1>3, DefaultAssumption DEF Die
  <2>2. Facts'
    BY <2>1, DefaultAssumption DEF Facts, env0, EnvType
  <2> QED BY <2>1, <2>2 DEF EnvInv, Gate, Truth
<1> QED BY <1>1, <1>2, <1>3, SettingKeepsEnv, StartingKeepsEnv, CallbackKeepsEnv DEF Next

(* What a script reads in env is true once start() is over and no callback  *)
(* runs, save for a client that came before start() filled env.             *)
THEOREM EnvTellsTheTruth == ASSUME Serialised PROVE Spec => []EnvTruth
<1>1. EnvInv => EnvTruth
  BY DEF EnvInv, Gate, Facts, Truth, EnvTruth
<1> QED BY LifeInit, CountersNext, LifeNext, EnvInit, EnvNext, <1>1, PTL DEF Spec

-----------------------------------------------------------------------------
(* Retention.  Files are known by the order in which they were created.     *)

LEMMA LeastExists ==
  ASSUME NEW I \in SUBSET Nat, I # {}
  PROVE  \E k \in I : \A i \in I : k <= i
<1> DEFINE below == {0 .. i : i \in I}
<1>1. ASSUME NEW i \in I PROVE 0 .. i \in FiniteSubsetsOf(Nat)
  <2>1. IsFiniteSet(0 .. i)
    BY FS_Interval
  <2>2. 0 .. i \in SUBSET Nat
    OBVIOUS
  <2> QED BY <2>1, <2>2 DEF FiniteSubsetsOf
<1>2. below \subseteq FiniteSubsetsOf(Nat) /\ below # {}
  BY <1>1
<1>3. PICK x \in below : \A y \in below : <<y, x>> \notin StrictSubsetOrdering(Nat)
  BY <1>2, FS_StrictSubsetOrderingWellFounded, WFMin
<1>4. PICK k \in I : x = 0 .. k
  BY <1>3
<1>5. ASSUME NEW i \in I, i < k PROVE FALSE
  <2>1. 0 .. i \in below /\ 0 .. i \subseteq 0 .. k /\ k \in 0 .. k /\ k \notin 0 .. i
    BY <1>5
  <2>2. 0 .. i \in SUBSET Nat /\ 0 .. k \in SUBSET Nat
    OBVIOUS
  <2> QED BY <1>3, <1>4, <2>1, <2>2 DEF StrictSubsetOrdering
<1> QED BY <1>5

File == [no : Nat \ {0}, name : Names \cup {Dump}]

Newer(S, f) == {g \in S : g.no > f.no}
Excess(S)   == {f \in S : Cardinality(Newer(S, f)) >= MAX_LOG_SESSIONS}

\* A finite set of files with different numbers.
Numbered(S) == S \in SUBSET File /\ IsFiniteSet(S) /\ \A f, g \in S : f.no = g.no => f = g

LEMMA NewerIsFinite ==
  ASSUME NEW S, Numbered(S), NEW f
  PROVE  Newer(S, f) \in SUBSET S /\ IsFiniteSet(Newer(S, f)) /\ Cardinality(Newer(S, f)) \in Nat
<1>1. Newer(S, f) \in SUBSET S
  BY DEF Newer
<1> QED BY <1>1, FS_Subset, FS_CardinalityType DEF Numbered

\* What is not in excess is no more than the retention keeps.
LEMMA TheRestIsSmall ==
  ASSUME NEW S, Numbered(S)
  PROVE  Cardinality(S \ Excess(S)) <= MAX_LOG_SESSIONS
<1> DEFINE K == S \ Excess(S)
<1>1. MAX_LOG_SESSIONS \in Nat /\ MAX_LOG_SESSIONS > 0
  BY SessionsAssumption
<1>2. IsFiniteSet(K) /\ Cardinality(K) \in Nat /\ K \in SUBSET S
  <2>1. K \in SUBSET S
    OBVIOUS
  <2> QED BY <2>1, FS_Subset, FS_CardinalityType DEF Numbered
<1>3. CASE K = {}
  BY <1>1, <1>3, FS_EmptySet
<1>4. CASE K # {}
  <2> DEFINE I == {f.no : f \in K}
  <2>1. I \in SUBSET Nat /\ I # {}
    BY <1>2, <1>4 DEF Numbered, File
  <2>2. PICK k \in I : \A i \in I : k <= i
    BY <2>1, LeastExists
  <2>3. PICK f \in K : f.no = k
    BY <2>2
  <2>4. K \ {f} \in SUBSET Newer(S, f)
    <3> SUFFICES ASSUME NEW g \in K, g # f PROVE g \in Newer(S, f)
      OBVIOUS
    <3>1. g \in S /\ f \in S /\ g.no \in Nat /\ f.no \in Nat /\ f.no <= g.no
      BY <1>2, <2>2, <2>3 DEF Numbered, File
    <3>2. f.no # g.no
      BY <3>1 DEF Numbered
    <3> QED BY <3>1, <3>2 DEF Newer
  <2>5. /\ Cardinality(K \ {f}) = Cardinality(K) - 1
        /\ Cardinality(K \ {f}) <= Cardinality(Newer(S, f))
    <3> HIDE DEF K
    <3>1. IsFiniteSet(Newer(S, f))
      BY NewerIsFinite
    <3> QED BY <1>2, <2>4, <3>1, FS_RemoveElement, FS_Subset
  <2>6. ~(Cardinality(Newer(S, f)) >= MAX_LOG_SESSIONS)
    <3>1. f \in S /\ f \notin Excess(S)
      BY <2>3
    <3> QED BY <3>1 DEF Excess
  <2>7. Cardinality(Newer(S, f)) \in Nat
    BY NewerIsFinite
  <2> HIDE DEF K
  <2>8. Cardinality(K) <= MAX_LOG_SESSIONS
    BY <1>1, <1>2, <2>5, <2>6, <2>7
  <2> QED BY <2>8 DEF K
<1> QED BY <1>3, <1>4

\* However many of those in excess go, as many newer ones stay as are promised.
LEMMA NewerOnesStay ==
  ASSUME NEW S, Numbered(S), NEW c \in Nat, \A f \in S : f.no <= c,
         NEW gone \in SUBSET Excess(S), NEW f \in gone
  PROVE  Cardinality(Newer(S \ gone, f)) >= MAX_LOG_SESSIONS
<1>1. MAX_LOG_SESSIONS \in Nat
  BY SessionsAssumption
<1>2. Excess(S) \in SUBSET S /\ f \in Excess(S)
  BY DEF Excess
<1> DEFINE I == {c - g.no : g \in Excess(S)}
<1>3. I \in SUBSET Nat /\ I # {}
  BY <1>2 DEF Numbered, File
<1>4. PICK k \in I : \A i \in I : k <= i
  BY <1>3, LeastExists
<1>5. PICK v \in Excess(S) : c - v.no = k
  BY <1>4
<1>6. \A g \in Excess(S) : g.no \in Nat /\ g.no <= v.no
  <2> SUFFICES ASSUME NEW g \in Excess(S) PROVE g.no \in Nat /\ g.no <= v.no
    OBVIOUS
  <2>1. g.no \in Nat /\ v.no \in Nat /\ c - v.no <= c - g.no
    BY <1>2, <1>4, <1>5 DEF Numbered, File
  <2> QED BY <2>1
<1>7. Newer(S, v) \in SUBSET Newer(S \ gone, f)
  <2> SUFFICES ASSUME NEW g \in S, g.no > v.no PROVE g \in Newer(S \ gone, f)
    BY DEF Newer
  <2>1. g.no \in Nat /\ v.no \in Nat /\ f.no \in Nat /\ f.no <= v.no
    BY <1>2, <1>6 DEF Numbered, File
  <2>2. g \notin Excess(S)
    BY <1>6, <2>1
  <2> QED BY <2>1, <2>2 DEF Newer
<1>8. Newer(S \ gone, f) \in SUBSET S
  BY DEF Newer
<1>9. IsFiniteSet(Newer(S \ gone, f)) /\ Cardinality(Newer(S \ gone, f)) \in Nat
  BY <1>8, FS_Subset, FS_CardinalityType DEF Numbered
<1>10. Cardinality(Newer(S, v)) <= Cardinality(Newer(S \ gone, f))
  BY <1>7, <1>9, FS_Subset
<1>11. Cardinality(Newer(S, v)) >= MAX_LOG_SESSIONS /\ Cardinality(Newer(S, v)) \in Nat
  BY NewerIsFinite DEF Excess
<1> QED BY <1>1, <1>9, <1>10, <1>11

\* What is on the disks: files with different numbers and different names.
DiskTypes ==
    /\ disk \in [Dirs -> SUBSET File] /\ created \in [Dirs -> Nat]
    /\ \A d \in Dirs : IsFiniteSet(disk[d])
    /\ \A d \in Dirs : \A f \in disk[d] : f.no <= created[d]
    /\ \A d \in Dirs : \A f, g \in disk[d] : f.no = g.no \/ f.name = g.name => f = g
    /\ s_log_path \in Dirs
    /\ sink \in [dir : Dirs \cup {NONE}, name : Names \cup {Dump}]

Loose(d)  == {f \in Logs(d) : <<d, f.no>> \notin stuck}
Others(d) == {f \in Loose(d) : f.name # sink.name}

\* Beside the log of the session there are no more than the retention keeps.
FewInv ==
    \A d \in Dirs : /\ Cardinality(Loose(d)) <= MAX_LOG_SESSIONS + 1
                    /\ sink.dir = d => Cardinality(Others(d)) <= MAX_LOG_SESSIONS

LEMMA LogsNumbered ==
  ASSUME DiskTypes, NEW d \in Dirs, NEW S \in SUBSET disk[d]
  PROVE  Numbered(S) /\ Cardinality(S) \in Nat
<1>1. IsFiniteSet(S)
  BY FS_Subset DEF DiskTypes
<1> QED BY <1>1, FS_CardinalityType DEF DiskTypes, Numbered

LEMMA TouchKeepsDisk ==
  ASSUME DiskTypes, NEW d \in Dirs, NEW name \in Names \cup {Dump}, Touch(d, name),
         s_log_path' \in Dirs, sink' \in [dir : Dirs \cup {NONE}, name : Names \cup {Dump}]
  PROVE  /\ DiskTypes' /\ stuck' = stuck
         /\ \A e \in Dirs : disk[e] \subseteq disk'[e]
         /\ \A e \in Dirs : \/ disk'[e] = disk[e]
                            \/ e = d /\ \E x \in File : x.name = name /\ disk'[e] = disk[e] \cup {x}
<1>1. CASE UNCHANGED files
  BY <1>1 DEF DiskTypes, files
<1>2. CASE /\ \A f \in disk[d] : f.name # name
           /\ created' = [created EXCEPT ![d] = @ + 1]
           /\ disk' = [disk EXCEPT ![d] = @ \cup {[no |-> created[d] + 1, name |-> name]}]
           /\ UNCHANGED stuck
  <2> DEFINE x == [no |-> created[d] + 1, name |-> name]
  <2>1. x \in File /\ x.no = created[d] + 1 /\ x.name = name
    BY DEF DiskTypes, File
  <2>2. disk' = [disk EXCEPT ![d] = @ \cup {x}]
    BY <1>2
  <2> HIDE DEF x
  <2>3. /\ disk' \in [Dirs -> SUBSET File] /\ created' \in [Dirs -> Nat]
        /\ \A e \in Dirs : e # d => disk'[e] = disk[e] /\ created'[e] = created[e]
        /\ disk'[d] = disk[d] \cup {x} /\ created'[d] = created[d] + 1
    BY <1>2, <2>1, <2>2 DEF DiskTypes
  <2>4. \A e \in Dirs : IsFiniteSet(disk'[e])
    <3>1. IsFiniteSet(disk[d] \cup {x})
      BY FS_AddElement DEF DiskTypes
    <3> QED BY <2>3, <3>1 DEF DiskTypes
  <2>5. ASSUME NEW e \in Dirs, NEW f \in disk'[e] PROVE f.no <= created'[e]
    <3>1. CASE e # d
      BY <2>3, <2>5, <3>1 DEF DiskTypes
    <3>2. CASE e = d
      <4>1. f \in disk[d] \/ f = x
        BY <2>3, <2>5, <3>2
      <4>2. CASE f \in disk[d]
        <5>1. f.no \in Nat /\ created[d] \in Nat /\ f.no <= created[d]
          BY <4>2 DEF DiskTypes, File
        <5> QED BY <2>3, <3>2, <5>1
      <4>3. CASE f = x
        <5>1. created[d] + 1 \in Nat
          BY DEF DiskTypes
        <5> QED BY <2>1, <2>3, <3>2, <4>3, <5>1
      <4> QED BY <4>1, <4>2, <4>3
    <3> QED BY <3>1, <3>2
  <2>6. ASSUME NEW e \in Dirs, NEW f \in disk'[e], NEW g \in disk'[e], f.no = g.no \/ f.name = g.name
        PROVE  f = g
    <3>1. CASE e # d
      BY <2>3, <2>6, <3>1 DEF DiskTypes
    <3>2. CASE e = d
      <4>1. \A h \in disk[d] : h.no # x.no /\ h.name # x.name
        <5> SUFFICES ASSUME NEW h \in disk[d] PROVE h.no # x.no /\ h.name # x.name
          OBVIOUS
        <5>1. h.no \in Nat /\ created[d] \in Nat /\ h.no <= created[d]
          BY DEF DiskTypes, File
        <5> QED BY <1>2, <2>1, <5>1
      <4>2. (f \in disk[d] \/ f = x) /\ (g \in disk[d] \/ g = x)
        BY <2>3, <2>6, <3>2
      <4> QED BY <2>6, <4>1, <4>2 DEF DiskTypes
    <3> QED BY <3>1, <3>2
  <2>7. DiskTypes'
    BY <2>3, <2>4, <2>5, <2>6 DEF DiskTypes
  <2> QED BY <1>2, <2>1, <2>3, <2>7
<1> QED BY <1>1, <1>2 DEF Touch

LEMMA FirstUsableIs ==
  ASSUME NEW a, NEW b, NEW usable
  PROVE  FirstUsable(<<a, b>>, usable) \in {NONE, a, b}
<1> DEFINE good == {i \in 1 .. 2 : <<a, b>>[i] \in usable}
           k == CHOOSE i \in good : \A j \in good : i <= j
<1>1. FirstUsable(<<a, b>>, usable) = IF good = {} THEN NONE ELSE <<a, b>>[k]
  BY DEF FirstUsable
<1>2. CASE good # {}
  <2>1. \E i \in good : \A j \in good : i <= j
    <3>1. CASE 1 \in good
      BY <3>1
    <3>2. CASE 1 \notin good
      <4>1. good = {2}
        BY <1>2, <3>2
      <4> QED BY <4>1
    <3> QED BY <3>1, <3>2
  <2>2. k \in good
    BY <2>1
  <2>3. k \in {1, 2}
    BY <2>2
  <2> HIDE DEF k, good
  <2> QED BY <1>1, <1>2, <2>3
<1> QED BY <1>1, <1>2

\* A line is written, or a dump: one file more at most, and not an old log.
LEMMA TouchKeepsFew ==
  ASSUME DiskTypes, FewInv, NEW d \in Dirs, NEW name \in Names \cup {Dump}, Touch(d, name),
         s_log_path' \in Dirs,
         \/ d = sink.dir /\ name = sink.name /\ sink' = sink
         \/ name = Dump /\ sink' = NoSink
  PROVE  DiskTypes' /\ FewInv' /\ OldestGoFirst
<1>1. NoSink \in [dir : Dirs \cup {NONE}, name : Names \cup {Dump}] /\ NoSink.dir = NONE
  BY DEF NoSink
<1>2. sink' \in [dir : Dirs \cup {NONE}, name : Names \cup {Dump}]
  BY <1>1 DEF DiskTypes
<1>3. /\ DiskTypes' /\ stuck' = stuck
      /\ \A e \in Dirs : disk[e] \subseteq disk'[e]
      /\ \A e \in Dirs : \/ disk'[e] = disk[e]
                         \/ e = d /\ \E x \in File : x.name = name /\ disk'[e] = disk[e] \cup {x}
  BY <1>2, TouchKeepsDisk
<1>4. OldestGoFirst
  BY <1>3 DEF OldestGoFirst
<1>5. ASSUME NEW e \in Dirs
      PROVE  /\ Cardinality(Loose(e)') <= MAX_LOG_SESSIONS + 1
             /\ sink'.dir = e => Cardinality(Others(e)') <= MAX_LOG_SESSIONS
  <2>0. MAX_LOG_SESSIONS \in Nat
    BY SessionsAssumption
  <2>1. /\ Loose(e) \in SUBSET disk[e] /\ IsFiniteSet(Loose(e)) /\ Cardinality(Loose(e)) \in Nat
        /\ Others(e) \in SUBSET disk[e] /\ IsFiniteSet(Others(e)) /\ Cardinality(Others(e)) \in Nat
    <3>1. Loose(e) \in SUBSET disk[e] /\ Others(e) \in SUBSET disk[e]
      BY DEF Loose, Others, Logs
    <3> QED BY <3>1, LogsNumbered DEF Numbered
  <2>2. /\ Cardinality(Loose(e)) <= MAX_LOG_SESSIONS + 1
        /\ sink.dir = e => Cardinality(Others(e)) <= MAX_LOG_SESSIONS
    BY DEF FewInv
  <2>3. CASE disk'[e] = disk[e]
    <3>1. Loose(e)' = Loose(e)
      BY <1>3, <2>3 DEF Loose, Logs
    <3>2. sink'.dir = e => sink.dir = e /\ Others(e)' = Others(e)
      BY <1>1, <3>1, NamesAssumption DEF Others
    <3> QED BY <2>2, <3>1, <3>2
  <2>4. CASE e = d /\ \E x \in File : x.name = name /\ disk'[e] = disk[e] \cup {x}
    <3>1. PICK x \in File : x.name = name /\ disk'[e] = disk[e] \cup {x}
      BY <2>4
    <3>2. CASE name = Dump /\ sink' = NoSink
      <4>1. Loose(e)' = Loose(e)
        BY <1>3, <3>1, <3>2 DEF Loose, Logs
      <4>2. sink'.dir # e
        BY <1>1, <3>2, NamesAssumption
      <4> QED BY <2>2, <4>1, <4>2
    <3>3. CASE d = sink.dir /\ name = sink.name /\ sink' = sink
      <4>1. Others(e)' = Others(e)
        BY <1>3, <3>1, <3>3 DEF Others, Loose, Logs
      <4>2. Loose(e)' \subseteq Others(e) \cup {x}
        <5> SUFFICES ASSUME NEW f \in Loose(e)' PROVE f \in Others(e) \cup {x}
          OBVIOUS
        <5>1. f \in disk[e] \/ f = x
          BY <3>1 DEF Loose, Logs
        <5>2. CASE f \in disk[e] /\ f # x
          <6>1. f.name # sink.name
            <7>1. x \in disk'[e] /\ f \in disk'[e]
              BY <3>1, <5>2
            <7> QED BY <1>3, <3>1, <3>3, <5>2, <7>1 DEF DiskTypes
          <6> QED BY <1>3, <5>2, <6>1 DEF Others, Loose, Logs
        <5> QED BY <5>1, <5>2
      <4>3. IsFiniteSet(Others(e) \cup {x}) /\ Cardinality(Others(e) \cup {x}) <= MAX_LOG_SESSIONS + 1
        <5>1. Cardinality(Others(e)) <= MAX_LOG_SESSIONS
          BY <2>2, <2>4, <3>3
        <5>2. /\ IsFiniteSet(Others(e) \cup {x})
              /\ \/ Cardinality(Others(e) \cup {x}) = Cardinality(Others(e))
                 \/ Cardinality(Others(e) \cup {x}) = Cardinality(Others(e)) + 1
          BY <2>1, FS_AddElement
        <5> QED BY <2>0, <2>1, <5>1, <5>2
      <4>4. /\ Cardinality(Loose(e)') <= Cardinality(Others(e) \cup {x})
            /\ Cardinality(Loose(e)') \in Nat /\ Cardinality(Others(e) \cup {x}) \in Nat
        BY <4>2, <4>3, FS_Subset, FS_CardinalityType
      <4>5. Cardinality(Loose(e)') <= MAX_LOG_SESSIONS + 1
        BY <2>0, <4>3, <4>4
      <4>6. Cardinality(Others(e)') <= MAX_LOG_SESSIONS
        BY <2>2, <2>4, <3>3, <4>1
      <4> QED BY <4>5, <4>6
    <3> QED BY <3>2, <3>3
  <2> QED BY <1>3, <2>3, <2>4
<1>6. FewInv'
  BY <1>5 DEF FewInv
<1> QED BY <1>3, <1>4, <1>6

\* A session opens its sink and deletes what it can of the excess.
LEMMA OpenKeepsFew ==
  ASSUME DiskTypes, FewInv, NEW usable,
         OpenSink(<<s_log_path, DefaultDir>>, usable), s_log_path' = s_log_path
  PROVE  DiskTypes' /\ FewInv' /\ OldestGoFirst
<1> DEFINE first == FirstUsable(<<s_log_path, DefaultDir>>, usable)
<1>0. MAX_LOG_SESSIONS \in Nat
  BY SessionsAssumption
<1>1. first \in {NONE, s_log_path, DefaultDir} /\ DefaultDir \in Dirs /\ s_log_path \in Dirs
  BY FirstUsableIs, DefaultAssumption DEF DiskTypes
<1>2. CASE sink' = NoSink /\ UNCHANGED files
  <2>1. NoSink \in [dir : Dirs \cup {NONE}, name : Names \cup {Dump}] /\ NoSink.dir = NONE
    BY DEF NoSink
  <2>2. UNCHANGED <<disk, created, stuck>>
    BY <1>2 DEF files
  <2>3. DiskTypes'
    BY <1>2, <2>1, <2>2 DEF DiskTypes
  <2>4. \A e \in Dirs : Loose(e)' = Loose(e) /\ sink'.dir # e
    BY <1>2, <2>1, <2>2, NamesAssumption DEF Loose, Logs
  <2>5. FewInv'
    BY <2>4 DEF FewInv
  <2>6. OldestGoFirst
    BY <2>2 DEF OldestGoFirst
  <2> QED BY <2>3, <2>5, <2>6
<1>3. ASSUME NEW d, d = first, d # NONE, NEW name \in Names, sink' = [dir |-> d, name |-> name],
             NEW gone \in SUBSET Victims(d, name),
             disk' = [disk EXCEPT ![d] = @ \ gone],
             stuck' = stuck \cup {<<d, f.no>> : f \in Victims(d, name) \ gone},
             UNCHANGED created
      PROVE  DiskTypes' /\ FewInv' /\ OldestGoFirst
  <2> DEFINE S == {f \in Logs(d) : f.name # name}
  <2>1. d \in Dirs /\ sink'.dir = d /\ sink'.name = name
    BY <1>1, <1>3
  <2>2. S \in SUBSET disk[d] /\ Victims(d, name) = Excess(S) /\ gone \in SUBSET Excess(S)
    BY <1>3 DEF Victims, Excess, Newer, Logs
  <2>3. /\ \A e \in Dirs : e # d => disk'[e] = disk[e]
        /\ disk'[d] = disk[d] \ gone
    BY <1>3, <2>1 DEF DiskTypes
  <2>4. DiskTypes'
    <3>1. \A e \in Dirs : disk'[e] \in SUBSET disk[e]
      BY <2>3
    <3>2. \A e \in Dirs : IsFiniteSet(disk'[e])
      BY <3>1, LogsNumbered DEF Numbered
    <3>3. disk' \in [Dirs -> SUBSET File]
      BY <1>3, <3>1 DEF DiskTypes
    <3>4. sink' \in [dir : Dirs \cup {NONE}, name : Names \cup {Dump}]
      BY <1>3, <2>1
    <3>5. created' = created
      BY <1>3
    <3> QED BY <3>1, <3>2, <3>3, <3>4, <3>5 DEF DiskTypes
  <2>5. Numbered(S) /\ \A f \in S : f.no <= created[d]
    BY <2>1, <2>2, LogsNumbered DEF DiskTypes
  <2>6. OldestGoFirst
    <3> SUFFICES ASSUME NEW e \in Dirs, NEW f \in disk[e] \ disk'[e]
                 PROVE  /\ f.name \notin {Dump, sink'.name}
                        /\ Cardinality({g \in disk'[e] : g.name # Dump /\ g.no > f.no}) >= MAX_LOG_SESSIONS
      BY DEF OldestGoFirst
    <3> DEFINE T == {g \in disk'[e] : g.name # Dump /\ g.no > f.no}
    <3>1. e = d /\ f \in gone /\ f \in S
      BY <2>2, <2>3 DEF Excess
    <3>2. f.name # Dump /\ f.name # name
      BY <3>1 DEF Logs
    <3>3. Cardinality(Newer(S \ gone, f)) >= MAX_LOG_SESSIONS
      <4>1. created[d] \in Nat
        BY <2>1 DEF DiskTypes
      <4> HIDE DEF S
      <4> QED BY <2>2, <2>5, <3>1, <4>1, NewerOnesStay
    <3>4. Newer(S \ gone, f) \in SUBSET T
      BY <2>3, <3>1 DEF Newer, Logs
    <3>5. T \in SUBSET disk'[e]
      OBVIOUS
    <3>6. IsFiniteSet(T) /\ Cardinality(T) \in Nat
      BY <2>4, <3>5, FS_Subset, FS_CardinalityType DEF DiskTypes
    <3> HIDE DEF T
    <3>7. Cardinality(Newer(S \ gone, f)) <= Cardinality(T) /\ Cardinality(Newer(S \ gone, f)) \in Nat
      BY <3>4, <3>6, FS_Subset, FS_CardinalityType
    <3>8. Cardinality(T) >= MAX_LOG_SESSIONS
      BY <1>0, <3>3, <3>6, <3>7
    <3> QED BY <2>1, <3>2, <3>8 DEF T
  <2>7. ASSUME NEW e \in Dirs
        PROVE  /\ Cardinality(Loose(e)') <= MAX_LOG_SESSIONS + 1
               /\ sink'.dir = e => Cardinality(Others(e)') <= MAX_LOG_SESSIONS
    <3>1. CASE e # d
      <4>1. Loose(e)' = Loose(e)
        BY <1>3, <2>3, <3>1 DEF Loose, Logs
      <4> QED BY <2>1, <3>1, <4>1 DEF FewInv
    <3>2. CASE e = d
      <4>1. Others(d)' \in SUBSET (S \ Excess(S))
        <5> SUFFICES ASSUME NEW f \in Others(d)' PROVE f \in S \ Excess(S)
          OBVIOUS
        <5>1. /\ f \in disk[d] /\ f \notin gone /\ f.name # Dump /\ f.name # name
              /\ <<d, f.no>> \notin stuck'
          BY <2>1, <2>3 DEF Others, Loose, Logs
        <5>2. f \in S
          BY <5>1 DEF Logs
        <5>3. f \notin Excess(S)
          BY <1>3, <2>2, <5>1
        <5> QED BY <5>2, <5>3
      <4>2. IsFiniteSet(S \ Excess(S)) /\ Cardinality(S \ Excess(S)) <= MAX_LOG_SESSIONS
        <5>1. S \ Excess(S) \in SUBSET S
          OBVIOUS
        <5> HIDE DEF S
        <5> QED BY <2>5, <5>1, TheRestIsSmall, FS_Subset DEF Numbered
      <4>3. /\ Cardinality(Others(d)') <= Cardinality(S \ Excess(S)) /\ IsFiniteSet(Others(d)')
            /\ Cardinality(Others(d)') \in Nat /\ Cardinality(S \ Excess(S)) \in Nat
        <5> HIDE DEF S
        <5> QED BY <4>1, <4>2, FS_Subset, FS_CardinalityType
      <4>4. Cardinality(Others(d)') <= MAX_LOG_SESSIONS
        BY <1>0, <4>2, <4>3
      <4>5. \E x : Loose(d)' \subseteq Others(d)' \cup {x}
        <5>1. CASE \E x \in disk'[d] : x.name = name
          <6>1. PICK x \in disk'[d] : x.name = name
            BY <5>1
          <6>2. Loose(d)' \subseteq Others(d)' \cup {x}
            <7> SUFFICES ASSUME NEW f \in Loose(d)', f # x PROVE f \in Others(d)'
              OBVIOUS
            <7>1. f \in disk'[d]
              BY DEF Loose, Logs
            <7>2. f.name # name
              BY <2>1, <2>4, <6>1, <7>1 DEF DiskTypes
            <7> QED BY <2>1, <7>2 DEF Others
          <6> QED BY <6>2
        <5>2. CASE ~ \E x \in disk'[d] : x.name = name
          <6>1. Loose(d)' \subseteq Others(d)' \cup {name}
            BY <2>1, <5>2 DEF Others, Loose, Logs
          <6> QED BY <6>1
        <5> QED BY <5>1, <5>2
      <4>6. PICK x : Loose(d)' \subseteq Others(d)' \cup {x}
        BY <4>5
      <4>7. /\ IsFiniteSet(Others(d)' \cup {x})
            /\ \/ Cardinality(Others(d)' \cup {x}) = Cardinality(Others(d)')
               \/ Cardinality(Others(d)' \cup {x}) = Cardinality(Others(d)') + 1
        BY <4>3, FS_AddElement
      <4>8. /\ Cardinality(Loose(d)') <= Cardinality(Others(d)' \cup {x})
            /\ Cardinality(Loose(d)') \in Nat
        BY <4>6, <4>7, FS_Subset, FS_CardinalityType
      <4>9. Cardinality(Loose(d)') <= MAX_LOG_SESSIONS + 1
        BY <1>0, <4>3, <4>4, <4>7, <4>8
      <4> QED BY <3>2, <4>4, <4>9
    <3> QED BY <3>1, <3>2
  <2>8. FewInv'
    BY <2>7 DEF FewInv
  <2> QED BY <2>4, <2>6, <2>8
<1> QED BY <1>2, <1>3 DEF OpenSink

LEMMA DiskInit == Init => DiskTypes /\ FewInv
<1> SUFFICES ASSUME Init PROVE DiskTypes /\ FewInv
  OBVIOUS
<1>1. IsFiniteSet({}) /\ Cardinality({}) = 0
  BY FS_EmptySet
<1>2. sink \in [dir : Dirs \cup {NONE}, name : Names \cup {Dump}]
  BY DEF Init, FilesInit, NoSink
<1>3. DiskTypes
  BY <1>1, <1>2, DefaultAssumption DEF Init, FilesInit, DiskTypes
<1>4. \A d \in Dirs : Loose(d) = {} /\ Others(d) = {}
  BY DEF Init, FilesInit, Loose, Others, Logs
<1>5. FewInv
  BY <1>1, <1>4, SessionsAssumption DEF FewInv
<1> QED BY <1>3, <1>5

LEMMA RetentionNext ==
  ASSUME DiskTypes, FewInv, [Next]_vars PROVE DiskTypes' /\ FewInv' /\ OldestGoFirst
<1>1. CASE UNCHANGED files /\ s_log_path' \in Dirs /\ sink' \in {sink, NoSink}
  <2>1. UNCHANGED <<disk, created, stuck>>
    BY <1>1 DEF files
  <2>2. NoSink \in [dir : Dirs \cup {NONE}, name : Names \cup {Dump}] /\ NoSink.dir = NONE
    BY DEF NoSink
  <2>3. DiskTypes'
    BY <1>1, <2>1, <2>2 DEF DiskTypes
  <2>4. \A d \in Dirs : /\ Loose(d)' = Loose(d)
                        /\ sink'.dir = d => sink.dir = d /\ Others(d)' = Others(d)
    BY <1>1, <2>1, <2>2, NamesAssumption DEF Others, Loose, Logs
  <2>5. FewInv'
    BY <2>4 DEF FewInv
  <2>6. OldestGoFirst
    BY <2>1 DEF OldestGoFirst
  <2> QED BY <2>3, <2>5, <2>6
<1>2. s_log_path \in Dirs /\ DefaultDir \in Dirs
  BY DefaultAssumption DEF DiskTypes
<1>3. CASE Logging
  <2>1. PICK t \in Threads : ToFile(t) \/ ToNet(t) \/ \E lv \in Levels : Log(t, lv)
    BY <1>3 DEF Logging
  <2>2. sink' = sink /\ s_log_path' = s_log_path
    BY <2>1 DEF ToFile, ToNet, Log, process
  <2>3. CASE Writable /\ Touch(sink.dir, sink.name)
    <3>1. sink.dir \in Dirs /\ sink.name \in Names \cup {Dump}
      BY <2>3 DEF Writable, DiskTypes
    <3> QED BY <1>2, <2>2, <2>3, <3>1, TouchKeepsFew
  <2>4. CASE UNCHANGED files
    BY <1>1, <1>2, <2>2, <2>4
  <2> QED BY <2>1, <2>3, <2>4 DEF ToFile, ToNet, Log
<1>4. CASE Starting
  <2>1. CASE MakeSinks
    <3>1. PICK usable \in SUBSET Dirs : OpenSink(<<s_log_path, DefaultDir>>, usable)
      BY <2>1 DEF MakeSinks
    <3>2. s_log_path' = s_log_path
      BY <2>1 DEF MakeSinks
    <3> QED BY <3>1, <3>2, OpenKeepsFew
  <2>2. CASE Start \/ Resolve \/ StartListener \/ FillEnv
    <3>1. UNCHANGED <<files, sink, s_log_path>>
      BY <2>2 DEF Start, Resolve, StartListener, FillEnv, process
    <3> QED BY <1>1, <1>2, <3>1
  <2> QED BY <1>4, <2>1, <2>2 DEF Starting
<1>5. CASE Stopping
  <2>1. UNCHANGED <<files, s_log_path>> /\ sink' \in {sink, NoSink}
    BY <1>5 DEF Stopping, Stop, StopListener, Delete, ClearSelf, process
  <2> QED BY <1>1, <1>2, <2>1
<1>6. CASE Setting
  <2>1. UNCHANGED <<files, sink>> /\ s_log_path' \in Dirs
    BY <1>2, <1>6 DEF Setting, SetLogPath, SetDeviceFamily, process
  <2> QED BY <1>1, <2>1
<1>7. CASE Callback \/ UNCHANGED vars
  <2>1. UNCHANGED <<files, sink, s_log_path>>
    BY <1>7 DEF Callback, Bind, Drain, Accept, Disconnect, TellEnv, vars, process
  <2> QED BY <1>1, <1>2, <2>1
<1>8. CASE Die
  <2>1. s_log_path' \in Dirs /\ sink' = NoSink
    BY <1>2, <1>8 DEF Die
  <2>2. CASE Touch(s_log_path, Dump)
    BY <1>2, <2>1, <2>2, TouchKeepsFew
  <2>3. CASE UNCHANGED files
    BY <1>1, <2>1, <2>3
  <2> QED BY <1>8, <2>2, <2>3 DEF Die
<1> QED BY <1>3, <1>4, <1>5, <1>6, <1>7, <1>8 DEF Next

(* Whatever directories, names and deaths the sessions had, cleanup_old_logs *)
(* deletes only logs that enough newer ones outlive, and no directory keeps  *)
(* more than the retention and one, save files that resisted deletion.       *)
THEOREM OldLogsGo == Spec => Retention
<1>1. DiskTypes /\ FewInv /\ [Next]_vars => DiskTypes' /\ FewInv'
  BY RetentionNext
<1>2. DiskTypes /\ FewInv /\ DiskTypes' /\ FewInv' /\ [Next]_vars => [OldestGoFirst /\ FewFiles']_files
  <2>1. FewInv' => FewFiles'
    BY DEF FewInv, FewFiles, Loose
  <2> QED BY <2>1, RetentionNext
<1> QED BY <1>1, <1>2, DiskInit, PTL DEF Spec, Retention
-----------------------------------------------------------------------------
(* Types.  Instances are numbered by the starts, and lines by the calls that *)
(* logged them to this instance: start() begins with none, while no call is  *)
(* in progress, and logs one line or two itself.                             *)
Instances == /\ starts \in 0 .. MaxStarts /\ self \in 0 .. starts /\ alive \in 0 .. starts
             /\ logger \in BOOLEAN /\ resolved \in BOOLEAN
             /\ listen \in {"off", "stopped", "failed", "listening"}

Tagged(t) == IF Busy(t) THEN task[t].line \in 1 .. lines ELSE task[t].line = 0

LineInv == /\ lines \in 0 .. MaxLines + 2
           /\ pc \in {"sinks", "resolve"} => lines = 0
           /\ pc \in {"listen", "wait"} => lines <= 1
           /\ \A t \in Threads : Tagged(t)
           /\ Seen \subseteq 1 .. lines

LEMMA InstancesNext == Instances /\ [Next]_vars => Instances'
<1> SUFFICES ASSUME Instances, [Next]_vars PROVE Instances'
  OBVIOUS
<1>1. CASE Logging \/ Setting \/ UNCHANGED vars
  <2>1. UNCHANGED <<starts, self, alive, logger, resolved, listen>>
    BY <1>1 DEF Logging, Log, ToFile, ToNet, Setting, SetLogPath, SetDeviceFamily, vars, process, network
  <2> QED BY <2>1 DEF Instances
<1>2. CASE Start
  <2>1. /\ starts < MaxStarts /\ starts' = starts + 1 /\ self' = starts + 1 /\ alive' = starts + 1
        /\ UNCHANGED <<logger, resolved, listen>>
    BY <1>2 DEF Start, network
  <2> QED BY <2>1, BoundAssumption DEF Instances
<1>3. CASE MakeSinks \/ Resolve \/ StartListener \/ FillEnv
  <2>1. /\ UNCHANGED <<starts, self, alive>> /\ logger' \in {logger, TRUE} /\ resolved' \in {resolved, TRUE}
        /\ listen' \in {listen, "stopped"}
    BY <1>3 DEF MakeSinks, Resolve, StartListener, FillEnv, process, network
  <2> QED BY <2>1 DEF Instances
<1>4. CASE Stopping
  <2>1. /\ UNCHANGED <<starts, resolved>> /\ logger' \in {logger, FALSE}
        /\ self' \in {self, 0} /\ alive' \in {alive, 0} /\ listen' \in {listen, "off"}
    BY <1>4 DEF Stopping, Stop, StopListener, Delete, ClearSelf, process, network
  <2>2. 0 \in 0 .. starts
    BY DEF Instances
  <2> QED BY <2>1, <2>2 DEF Instances
<1>5. CASE Callback
  <2>1. /\ UNCHANGED <<starts, self, alive, logger, resolved>>
        /\ listen' \in {listen, "failed", "listening"}
    BY <1>5 DEF Callback, Bind, Drain, Accept, Disconnect, TellEnv, process
  <2> QED BY <2>1 DEF Instances
<1>6. CASE Die
  <2>1. starts' = starts /\ self' = 0 /\ alive' = 0 /\ logger' = FALSE /\ resolved' = FALSE /\ listen' = "off"
    BY <1>6 DEF Die
  <2>2. 0 \in 0 .. starts
    BY DEF Instances
  <2> QED BY <2>1, <2>2 DEF Instances
<1> QED BY <1>1, <1>2, <1>3, <1>4, <1>5, <1>6 DEF Next, Starting

\* A call begins with a line of its own, the next one.
LEMMA NewLine ==
  ASSUME LifeInv, LineInv, NEW t \in Threads, NEW lv, Entered(t, lv), lines' = lines + 1
  PROVE  \A u \in Threads : Tagged(u)'
<1> SUFFICES ASSUME NEW u \in Threads PROVE Tagged(u)'
  OBVIOUS
<1>1. task' = [task EXCEPT ![t] = [at |-> 1, inst |-> self, line |-> lines + 1, lv |-> lv]]
      /\ task \in [Threads -> Call] /\ lines \in Nat
  BY DEF Entered, LifeInv, Calls, LineInv
<1>2. CASE u = t
  <2>1. task'[u].at = 1 /\ task'[u].line = lines + 1
    BY <1>1, <1>2
  <2> QED BY <1>1, <2>1 DEF Tagged, Busy
<1>3. CASE u # t
  <2>1. task'[u] = task[u] /\ Tagged(u) /\ 1 .. lines \subseteq 1 .. lines'
    BY <1>1, <1>3 DEF LineInv
  <2> QED BY <2>1 DEF Tagged, Busy
<1> QED BY <1>2, <1>3

LEMMA LoggingKeepsLines == ASSUME Serialised, Counters, LifeInv, LineInv, Logging PROVE LineInv'
<1>1. PICK t \in Threads : ToFile(t) \/ ToNet(t) \/ \E lv \in Levels : Log(t, lv)
  BY DEF Logging
<1>2. task \in [Threads -> Call] /\ task[t] \in Call
  BY DEF LifeInv, Calls
<1>3. CASE ToFile(t) \/ ToNet(t)
  <2>1. UNCHANGED <<lines, pc>> /\ Passed(t) /\ Busy(t) /\ Seen' \subseteq Seen \cup {task[t].line}
    BY <1>3 DEF ToFile, ToNet, At, Busy, Seen
  <2>2. task[t].line \in 1 .. lines
    BY <2>1 DEF LineInv, Tagged
  <2>3. ASSUME NEW u \in Threads PROVE Tagged(u)'
    <3>1. task' = [task EXCEPT ![t] = NextSink(task[t])]
      BY <2>1 DEF Passed
    <3>2. CASE u # t
      BY <1>2, <2>1, <3>1, <3>2 DEF LineInv, Tagged, Busy
    <3>3. CASE u = t
      <4>1. task'[u] = NextSink(task[t])
        BY <1>2, <3>1, <3>3
      <4>2. NextSink(task[t]) = Idle \/ (NextSink(task[t]).at > 0 /\ NextSink(task[t]).line = task[t].line)
        BY <1>2, <2>1 DEF NextSink, Call, Busy
      <4> QED BY <2>1, <2>2, <4>1, <4>2 DEF Tagged, Busy, Idle
    <3> QED BY <3>2, <3>3
  <2> QED BY <2>1, <2>2, <2>3 DEF LineInv
<1>4. ASSUME NEW lv \in Levels, Log(t, lv) PROVE LineInv'
  <2>1. /\ Entered(t, lv) /\ lines' = lines + 1 /\ lines < MaxLines /\ pc = "idle" /\ pc' = pc
        /\ UNCHANGED <<written, missed>>
    BY <1>4 DEF Log
  <2>2. \A u \in Threads : Tagged(u)'
    BY <2>1, NewLine
  <2>3. lines' \in 0 .. MaxLines + 2 /\ 1 .. lines \subseteq 1 .. lines'
    BY <2>1, BoundAssumption DEF LineInv
  <2> QED BY <2>1, <2>2, <2>3 DEF LineInv, Seen
<1> QED BY <1>1, <1>3, <1>4

LEMMA StartingKeepsLines == ASSUME Counters, LifeInv, LineInv, Starting PROVE LineInv'
<1>1. CASE Start
  <2>1. \A t \in Threads : ~Busy(t)
    BY <1>1 DEF Start, Ready, LifeInv, Stages, Calls
  <2>2. lines' = 0 /\ pc' = "sinks" /\ task' = task /\ Seen' = {}
    BY <1>1 DEF Start, Seen
  <2>3. \A t \in Threads : Tagged(t)'
    BY <2>1, <2>2 DEF LineInv, Tagged, Busy
  <2>4. lines' \in 0 .. MaxLines + 2
    BY <2>2, BoundAssumption
  <2> QED BY <2>2, <2>3, <2>4 DEF LineInv
<1>2. CASE MakeSinks \/ StartListener
  <2>1. /\ UNCHANGED <<lines, task, written, missed>>
        /\ \/ pc = "sinks" /\ pc' = "resolve"
           \/ pc = "listen" /\ pc' = "wait"
    BY <1>2 DEF MakeSinks, StartListener, flow
  <2> QED BY <2>1 DEF LineInv, Tagged, Busy, Seen
<1>3. CASE Resolve \/ FillEnv
  <2>1. /\ UNCHANGED <<written, missed>>
        /\ \/ Entered("app", 2) /\ lines' = lines + 1
           \/ UNCHANGED <<task, lines>>
        /\ \/ pc = "resolve" /\ pc' = "listen"
           \/ pc = "wait" /\ pc' = "idle"
    BY <1>3 DEF Resolve, FillEnv
  <2>2. lines \in Nat /\ lines <= 1 /\ (pc = "resolve" => lines = 0)
    BY <2>1 DEF LineInv
  <2>3. CASE UNCHANGED <<task, lines>>
    BY <2>1, <2>2, <2>3 DEF LineInv, Tagged, Busy, Seen
  <2>4. CASE Entered("app", 2) /\ lines' = lines + 1
    <3>1. \A u \in Threads : Tagged(u)'
      BY <2>4, NewLine DEF Threads
    <3>2. lines' \in 0 .. MaxLines + 2 /\ 1 .. lines \subseteq 1 .. lines'
      BY <2>2, <2>4, BoundAssumption
    <3>3. pc' = "listen" => lines' <= 1
      BY <2>1, <2>2, <2>4
    <3> QED BY <2>1, <3>1, <3>2, <3>3 DEF LineInv, Seen
  <2> QED BY <2>1, <2>3, <2>4
<1> QED BY <1>1, <1>2, <1>3 DEF Starting

LEMMA LineNext ==
  ASSUME Serialised PROVE Counters /\ LifeInv /\ LineInv /\ [Next]_vars => LineInv'
<1> SUFFICES ASSUME Counters, LifeInv, LineInv, [Next]_vars PROVE LineInv'
  OBVIOUS
<1>1. CASE UNCHANGED <<lines, task, written, missed>> /\ pc' \notin {"sinks", "resolve", "listen", "wait"}
  BY <1>1 DEF LineInv, Tagged, Busy, Seen
<1>2. CASE UNCHANGED <<lines, task, written, missed, pc>>
  BY <1>2 DEF LineInv, Tagged, Busy, Seen
<1>3. CASE Setting \/ Callback \/ UNCHANGED vars
  BY <1>2, <1>3 DEF Setting, SetLogPath, SetDeviceFamily, Callback, Bind, Drain, Accept, Disconnect,
                    TellEnv, vars, flow
<1>4. CASE Stopping
  BY <1>1, <1>4 DEF Stopping, Stop, StopListener, Delete, ClearSelf, flow
<1>5. CASE Die
  <2>1. UNCHANGED <<lines, written, missed>> /\ pc' = "idle" /\ task' = [t \in Threads |-> Idle]
    BY <1>5 DEF Die, NoTasks
  <2>2. \A t \in Threads : Tagged(t)'
    BY <2>1 DEF Tagged, Busy, Idle
  <2> QED BY <2>1, <2>2 DEF LineInv, Seen
<1> QED BY <1>3, <1>4, <1>5, LoggingKeepsLines, StartingKeepsLines DEF Next

(* What the inspector, its threads and its files hold: instances that were   *)
(* made, lines that were logged to this instance, settings that were set.    *)
THEOREM XrayTypes == ASSUME Serialised PROVE Spec => []TypeOK
<1>1. Init => Instances /\ LineInv /\ DiskInv
  <2> SUFFICES ASSUME Init PROVE Instances /\ LineInv /\ DiskInv
    OBVIOUS
  <2>1. Instances
    <3>1. /\ starts = 0 /\ self = 0 /\ alive = 0 /\ logger = FALSE /\ resolved = FALSE
          /\ listen = "off"
      BY DEF Init
    <3>2. starts \in 0 .. MaxStarts /\ self \in 0 .. starts /\ alive \in 0 .. starts
      BY <3>1, BoundAssumption
    <3> QED BY <3>1, <3>2 DEF Instances
  <2>2. \A t \in Threads : task[t] = Idle
    BY DEF Init, NoTasks
  <2>3. lines = 0 /\ pc = "idle" /\ Seen = {} /\ Told = {}
    BY DEF Init, Seen, Told
  <2>4. LineInv
    BY <2>2, <2>3, BoundAssumption DEF LineInv, Tagged, Busy, Idle
  <2>5. DiskInv
    BY <2>2, <2>3 DEF DiskInv, Idle
  <2> QED BY <2>1, <2>4, <2>5
<1>2. DiskTypes /\ FewInv /\ [Next]_vars => DiskTypes' /\ FewInv'
  BY RetentionNext
<1>3. ASSUME LifeInv, EnvInv, DiskInv, DiskTypes, Instances, LineInv PROVE TypeOK
  <2>1. FilesOK
    <3>1. ASSUME NEW d \in Dirs, NEW f \in disk[d]
          PROVE  f.no \in 1 .. created[d] /\ f.name \in Names \cup {Dump}
      <4>1. f \in File /\ created[d] \in Nat /\ f.no <= created[d]
        BY <1>3 DEF DiskTypes
      <4> QED BY <4>1 DEF File
    <3> QED BY <1>3, <3>1 DEF FilesOK, DiskTypes
  <2>2. \A t \in Threads : task[t].at \in 0 .. 2 /\ task[t].line <= lines /\ task[t].lv \in 0 .. 4
    <3> SUFFICES ASSUME NEW t \in Threads
                 PROVE  task[t].at \in 0 .. 2 /\ task[t].line <= lines /\ task[t].lv \in 0 .. 4
      OBVIOUS
    <3>1. task[t] \in Call
      BY <1>3 DEF LifeInv, Calls
    <3>2. Tagged(t) /\ lines \in Nat
      BY <1>3 DEF LineInv
    <3> QED BY <3>1, <3>2 DEF Call, Tagged
  <2>3. lines <= MaxLines + 2 /\ written \cup missed \cup wire \subseteq 1 .. lines
    BY <1>3, BoundAssumption DEF LineInv, DiskInv, Told, Seen
  <2>4. /\ s_log_path \in Dirs /\ env.path \in Dirs \cup {NONE} /\ env.family \in Families \cup {NONE}
        /\ {port, early} \subseteq BOOLEAN
    BY <1>3 DEF EnvInv, Gate, Facts, EnvType
  <2>5. /\ {client, connected} \subseteq BOOLEAN /\ net \in {"idle", "accepted", "dropped"}
        /\ pc \in {"idle", "sinks", "resolve", "listen", "wait", "stopping", "delete", "clear"}
    BY <1>3 DEF LifeInv, Stages, Connection
  <2>6. /\ {self, alive} \subseteq 0 .. starts /\ starts \in 0 .. MaxStarts
        /\ {logger, resolved} \subseteq BOOLEAN
        /\ listen \in {"off", "stopped", "failed", "listening"}
    BY <1>3 DEF Instances
  <2>7. {logger, resolved, port, client, connected, early} \subseteq BOOLEAN
    BY <2>4, <2>5, <2>6
  <2> QED BY <2>1, <2>2, <2>3, <2>4, <2>5, <2>6, <2>7 DEF TypeOK
<1> QED BY <1>1, <1>2, <1>3, LifeInit, CountersNext, LifeNext, EnvInit, EnvNext, DiskInit, DiskNext,
           InstancesNext, LineNext, PTL DEF Spec
=============================================================================
