---------------------------------- MODULE Xray ----------------------------------
(***************************************************************************)
(* The inspector's life cycle (src/xb-xray/inspector.cpp): start, stop and  *)
(* the static self_, the two log sinks a line passes on its way to disk and *)
(* to the client, and the facts about itself that the program binds as env. *)
(*                                                                          *)
(* Two threads of the application log: the one that starts and stops the    *)
(* inspector and another.  The listener calls back from its own threads; it *)
(* is taken as TcpListener promises it to be when no client arrives during  *)
(* stop(): one callback at a time, none after listener.stop().  The process *)
(* may die anywhere and be started again over the same disk.                *)
(*                                                                          *)
(* README.md:257-260 of the repository lets any thread call start(), stop() *)
(* and log() at any time.  Nothing in the code makes that safe: with        *)
(* Serialised the other thread keeps out of start() and stop(), without it  *)
(* it logs whenever it likes, and NoUseAfterFree fails.                     *)
(***************************************************************************)
EXTENDS LogFiles

CONSTANTS DefaultDir,        \* D:\logs\
          Families, Xbox,    \* device families; Xbox is "Windows.Xbox"
          Levels,            \* of the lines that are logged, among LogLevel's 0 .. 4
          Serialised,
          MaxStarts, MaxLines  \* bound the model only

ASSUME LevelAssumption   == Levels \subseteq 0 .. 4
ASSUME DefaultAssumption == DefaultDir \in Dirs /\ Xbox \in Families /\ NONE \notin Families
ASSUME BoundAssumption   == MaxStarts \in Nat /\ MaxLines \in Nat

VARIABLES
    s_log_path,
    self,       \* the instance self_ points to, by number; 0 is nullptr
    alive,      \* the instance that is allocated
    logger,     \* whether it has its sinks and its logger
    resolved,   \* s_mdwd_fn: the crash handler is in place
    pc,         \* the application's thread: where in start() or stop() it is
    task,       \* what each thread's call of log() is doing
    listen,     \* the listener's state while its worker runs, or "off"
    port,       \* whether it has a port
    client,     \* whether it has a client
    net,        \* the callback in progress
    connected,  \* net_sink's connected_
    env,        \* s_env
    queued,     \* lines in log_queue
    starts,     \* history: instances made
    lines,      \* history: lines logged to this instance
    written, missed,  \* history: those that fopen let through to the file, and those it did not
    wire,       \* history: those some client was sent
    early       \* history: the client was accepted before start() filled env

Threads == {"app", "other"}
Idle    == [at |-> 0, inst |-> 0, line |-> 0, lv |-> 0]
env0    == [path |-> NONE, family |-> NONE, xbox |-> FALSE, port |-> FALSE, connected |-> FALSE]

process == <<self, alive, logger, resolved, s_log_path>>
network == <<listen, port, client, net, connected, early>>
flow    == <<queued, lines, written, missed, wire>>
vars    == <<process, pc, task, network, env, flow, starts, files, sink>>

NoTasks == [t \in Threads |-> Idle]

Init == /\ self = 0 /\ alive = 0 /\ logger = FALSE /\ resolved = FALSE /\ s_log_path = DefaultDir
        /\ pc = "idle" /\ task = NoTasks
        /\ listen = "off" /\ port = FALSE /\ client = FALSE /\ net = "idle" /\ connected = FALSE
        /\ early = FALSE /\ env = env0 /\ queued = {} /\ FilesInit
        /\ starts = 0 /\ lines = 0 /\ written = {} /\ missed = {} /\ wire = {}

-----------------------------------------------------------------------------
(* log(): the calling thread looks at self_, then the logger hands the line *)
(* to its sinks, in the order of sinks_init_list.  LogLevel is cast to      *)
(* spdlog's levels, where 1 is debug and 2 info: the logger passes 1 and    *)
(* above, the net sink 2 and above.                                         *)
\* Mutant: the net sink comes first.
MutSinkOrder == <<"net", "file">>

SinkOrder == <<"file", "net">>

LoggerLevel == 1
NetLevel    == 2

\* What level_string calls a level; the client is told these.
LevelString(lv) == IF lv = 0 THEN "UNKNOWN" ELSE <<"DEBUG", "INFO", "WARN", "ERROR">>[lv]

Entered(t, lv) == task' = [task EXCEPT ![t] = [at |-> 1, inst |-> self, line |-> lines + 1, lv |-> lv]]

Log(t, lv) == /\ task[t].at = 0 /\ self # 0 /\ lines < MaxLines
              /\ \/ pc = "idle"
                 \/ t = "other" /\ ~Serialised
              /\ lv >= LoggerLevel
              /\ Entered(t, lv) /\ lines' = lines + 1
              /\ UNCHANGED <<process, pc, network, env, queued, written, missed, wire, starts, files, sink>>

At(t, which) == task[t].at > 0 /\ SinkOrder[task[t].at] = which
NextSink(c)  == IF c.at = Len(SinkOrder) THEN Idle ELSE [c EXCEPT !.at = @ + 1]
Passed(t)    == task' = [task EXCEPT ![t] = NextSink(task[t])]

ToFile(t) == /\ At(t, "file")
             /\ \/ /\ Writable
                   /\ Touch(sink.dir, sink.name)
                   /\ written' = written \cup {task[t].line}
                   /\ UNCHANGED missed
                \/ /\ missed' = missed \cup {task[t].line}
                   /\ UNCHANGED <<files, written>>
             /\ Passed(t)
             /\ UNCHANGED <<process, pc, network, env, queued, lines, wire, starts, sink>>

\* Without a client the line goes nowhere, and a full queue refuses it.
ToNet(t) == /\ At(t, "net")
            /\ \/ /\ task[t].lv >= NetLevel /\ connected
                  /\ queued' = queued \cup {<<task[t].line, LevelString(task[t].lv)>>}
               \/ UNCHANGED queued
            /\ Passed(t)
            /\ UNCHANGED <<process, pc, network, env, lines, written, missed, wire, starts, files, sink>>

Logging == \E t \in Threads : ToFile(t) \/ ToNet(t) \/ \E lv \in Levels : Log(t, lv)

-----------------------------------------------------------------------------
(* The application's thread.                                                *)
Ready == pc = "idle" /\ task["app"].at = 0

SetLogPath(d) == /\ Ready
                 /\ s_log_path' = d
                 /\ env' = [env EXCEPT !.path = d]
                 /\ UNCHANGED <<self, alive, logger, resolved, pc, task, network, flow, starts, files, sink>>

SetDeviceFamily(f) == /\ Ready
                      /\ env' = [env EXCEPT !.family = f, !.xbox = (f = Xbox)]
                      /\ UNCHANGED <<process, pc, task, network, flow, starts, files, sink>>

\* start() does nothing while there is an instance.
Start == /\ Ready /\ self = 0 /\ starts < MaxStarts
         /\ starts' = starts + 1 /\ self' = starts + 1 /\ alive' = starts + 1
         /\ lines' = 0 /\ queued' = {} /\ written' = {} /\ missed' = {} /\ wire' = {}
         /\ pc' = "sinks"
         /\ UNCHANGED <<logger, resolved, s_log_path, task, network, env, files, sink>>

MakeSinks == /\ pc = "sinks"
             /\ \E usable \in SUBSET Dirs : OpenSink(<<s_log_path, DefaultDir>>, usable)
             /\ connected' = FALSE /\ logger' = TRUE
             /\ pc' = "resolve"
             /\ UNCHANGED <<self, alive, resolved, s_log_path, task, listen, port, client, net, early,
                            env, flow, starts>>

\* Once per process, and logged when dbghelp.dll has the function.
Resolve == /\ pc = "resolve"
           /\ \/ ~resolved /\ resolved' = TRUE /\ Entered("app", 2) /\ lines' = lines + 1
              \/ UNCHANGED <<resolved, task, lines>>
           /\ pc' = "listen"
           /\ UNCHANGED <<self, alive, logger, s_log_path, network, env, queued, written, missed, wire,
                          starts, files, sink>>

StartListener == /\ pc = "listen" /\ task["app"].at = 0
                 /\ listen' = "stopped"
                 /\ pc' = "wait"
                 /\ UNCHANGED <<process, task, port, client, net, connected, early, env, flow, starts,
                                files, sink>>

\* The rest of start(), once the listener has tried the ports.  The Lua state
\* is there: only a process without memory fails to make one.
FillEnv == /\ pc = "wait" /\ listen # "stopped"
           /\ env' = [path |-> s_log_path, family |-> NONE, xbox |-> FALSE, port |-> port, connected |-> FALSE]
           /\ early' = (client /\ net = "idle")
           /\ Entered("app", 2) /\ lines' = lines + 1
           /\ pc' = "idle"
           /\ UNCHANGED <<process, listen, port, client, net, connected, queued, written, missed, wire,
                          starts, files, sink>>

Stop == /\ Ready /\ self # 0
        /\ Serialised => task["other"].at = 0
        /\ pc' = "stopping"
        /\ UNCHANGED <<process, task, network, env, flow, starts, files, sink>>

StopListener == /\ pc = "stopping" /\ ~client /\ net = "idle"
                /\ listen' = "off" /\ port' = FALSE
                /\ pc' = "delete"
                /\ UNCHANGED <<process, task, client, net, connected, early, env, flow, starts, files, sink>>

\* Lines that are still queued go with the queue; nothing flushes it.
Delete == /\ pc = "delete"
          /\ alive' = 0 /\ logger' = FALSE /\ sink' = NoSink /\ queued' = {}
          /\ pc' = "clear"
          /\ UNCHANGED <<self, resolved, s_log_path, task, network, env, lines, written, missed, wire,
                         starts, files>>

ClearSelf == /\ pc = "clear"
             /\ self' = 0
             /\ pc' = "idle"
             /\ UNCHANGED <<alive, logger, resolved, s_log_path, task, network, env, flow, starts, files, sink>>

Starting == Start \/ MakeSinks \/ Resolve \/ StartListener \/ FillEnv
Stopping == Stop \/ StopListener \/ Delete \/ ClearSelf
Setting  == (\E d \in Dirs : SetLogPath(d)) \/ (\E f \in Families : SetDeviceFamily(f))

-----------------------------------------------------------------------------
(* The listener and its callbacks.                                          *)
Bind == /\ \/ listen = "stopped" /\ listen' = "failed" /\ UNCHANGED port
           \/ listen \in {"stopped", "failed"} /\ listen' = "listening" /\ port' = TRUE
        /\ UNCHANGED <<process, pc, task, client, net, connected, early, env, flow, starts, files, sink>>

\* drain_log_queue: by on_tick and on_data, or by the application's flush().
Drained == /\ queued' = {}
           /\ wire' = IF client' THEN wire \cup {q[1] : q \in queued} ELSE wire

Drain == /\ queued # {}
         /\ \/ listen = "listening"
            \/ Ready /\ self # 0
         /\ UNCHANGED client /\ Drained
         /\ UNCHANGED <<process, pc, task, listen, port, net, connected, early, env, lines, written,
                        missed, starts, files, sink>>

\* on_accept drains before the gate of the net sink opens, and tells env last.
Accept == /\ listen = "listening" /\ pc # "stopping" /\ net = "idle" /\ ~client
          /\ client' = TRUE /\ Drained
          /\ connected' = TRUE
          /\ net' = "accepted"
          /\ UNCHANGED <<process, pc, task, listen, port, early, env, lines, written, missed, starts,
                         files, sink>>

Disconnect == /\ client /\ net = "idle"
              /\ client' = FALSE /\ connected' = FALSE
              /\ net' = "dropped"
              /\ UNCHANGED <<process, pc, task, listen, port, early, env, flow, starts, files, sink>>

\* Mutant: on_disconnect only closes the gate.
MutTellEnv == /\ net # "idle"
              /\ env' = IF net = "accepted" THEN [env EXCEPT !.connected = TRUE] ELSE env
              /\ early' = FALSE /\ net' = "idle"
              /\ UNCHANGED <<process, pc, task, listen, port, client, connected, flow, starts, files, sink>>

TellEnv == /\ net # "idle"
           /\ env' = [env EXCEPT !.connected = (net = "accepted")]
           /\ early' = FALSE /\ net' = "idle"
           /\ UNCHANGED <<process, pc, task, listen, port, client, connected, flow, starts, files, sink>>

Callback == Bind \/ Drain \/ Accept \/ Disconnect \/ TellEnv

-----------------------------------------------------------------------------
(* The process dies: by an exception, for which crash_handler leaves a dump *)
(* in the log directory if it can, or without one.                          *)
Die == /\ starts > 0
       /\ \/ resolved /\ Touch(s_log_path, Dump)
          \/ UNCHANGED files
       /\ self' = 0 /\ alive' = 0 /\ logger' = FALSE /\ resolved' = FALSE /\ s_log_path' = DefaultDir
       /\ pc' = "idle" /\ task' = NoTasks
       /\ listen' = "off" /\ port' = FALSE /\ client' = FALSE /\ net' = "idle" /\ connected' = FALSE
       /\ early' = FALSE /\ env' = env0 /\ queued' = {} /\ sink' = NoSink
       /\ UNCHANGED <<starts, lines, written, missed, wire>>

Next == Logging \/ Setting \/ Starting \/ Stopping \/ Callback \/ Die

Spec == Init /\ [][Next]_vars

-----------------------------------------------------------------------------
TypeOK ==
    /\ FilesOK
    /\ {self, alive} \subseteq 0 .. starts /\ starts \in 0 .. MaxStarts
    /\ {logger, resolved, port, client, connected, early} \subseteq BOOLEAN
    /\ pc \in {"idle", "sinks", "resolve", "listen", "wait", "stopping", "delete", "clear"}
    /\ listen \in {"off", "stopped", "failed", "listening"} /\ net \in {"idle", "accepted", "dropped"}
    /\ s_log_path \in Dirs /\ env.path \in Dirs \cup {NONE} /\ env.family \in Families \cup {NONE}
    /\ \A t \in Threads : task[t].at \in 0 .. 2 /\ task[t].line <= lines /\ task[t].lv \in 0 .. 4
    /\ lines <= MaxLines + 2 /\ written \cup missed \cup wire \subseteq 1 .. lines

(* A call of log() in progress finds the instance whose logger it uses still *)
(* allocated.  README.md:257-260 of the repository promises it, with "Any"   *)
(* as the thread safety of start(), stop() and log(); but log() reads self_  *)
(* and uses it after, without anything that makes stop() wait.               *)
NoUseAfterFree == \A t \in Threads : task[t].at > 0 => task[t].inst = alive

(* What a script reads in env is true once start() is over and no callback  *)
(* runs: connected, unless the client came before start() filled env and is *)
(* still there; the port, unless it was found after start() gave up; the    *)
(* log path that was set last; and xbox what the device family says.        *)
EnvTruth ==
    /\ pc = "idle" /\ self # 0 /\ net = "idle" =>
           /\ env.connected = (client /\ ~early) /\ connected = client
           /\ env.port => port
           /\ env.path = s_log_path
    /\ env.path \in {NONE, s_log_path} /\ env.xbox = (env.family = Xbox)

(* Whatever the client was sent, or may still be sent, is on disk first,    *)
(* save lines for which the file could not be opened; so it is there when   *)
(* the process dies at any moment after.                                    *)
OnDisk == {q[1] : q \in queued} \cup wire \subseteq written \cup missed
=============================================================================
