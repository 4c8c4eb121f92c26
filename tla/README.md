# A verification project for xray-depot

xray-depot (`src/`) lets a UWP application be inspected while it runs. The application
calls `Xray::start`, `update` once per frame, `log`, `flush` and `stop`; a desktop client
("Vault") connects over TCP, receives the log as a stream of JSON lines and sends commands,
among them Lua scripts that the application executes inside `update`. The program's own code
is small (about two thousand lines under `src/src/xray-sock` and `src/src/xb-xray`). Half of
it hands data between threads; the other half runs scripts over the application's memory and
keeps log files. This project models both.

All paths below are relative to the repository root unless they start with `xray-sock/` or
`xb-xray/`, which lie in `src/src/`.

## 1. The system

### Threads

| thread | who starts it | what it runs |
|---|---|---|
| application | the program | `start`, `update`, `flush`, `stop`; `log` may be called from any thread |
| worker | `tcp_listener::start` | `impl::run`: bind, then `on_tick` about ten times a second, then close |
| handler | the WinRT pool, one call per client | the `ConnectionReceived` lambda: replace the client, `on_accept`, spawn a reader |
| reader | the handler, one per client | read from the socket, `on_data`; on exit `on_disconnect` |

### Components

| component | state | operations | what must be true of it |
|---|---|---|---|
| `mpsc_queue` (`xray-sock/safe_queue.h`) | `buffer_`, `head_`, `tail_`, `drop_count_`, all atomic | `try_enqueue` (CAS on `head_`, then a blind store), `try_dequeue`, `reset_drop_count` | no slot overwritten, nothing lost, repeated or reordered; refusal only when full |
| `spsc_queue` (same file) | `buffer_` of plain objects, `head_`, `tail_` | `try_enqueue`, `try_dequeue` | no data race on a slot, order, refusal only when full |
| `mpsc_msg_queue` (same file) | as `mpsc_queue`, items by value | as above | not used anywhere in the repository |
| `tcp_listener` (`xray-sock/tcp_listener.cpp`) | `running`, `active`, `current_state`, `winrt_listener`, `client_sock`/`writer` under `client_mtx`, `worker`, `reader_thread` | `start`, `stop`, destructor, `send`, `close_client`, worker loop, handler, reader | one reader at a time; the callbacks tell the truth; `stop` returns, frees the port and leaves no thread |
| log drain (`xb-xray/inspector.cpp`, `uwp_net_sink.h`) | the strings on the heap, the drop counter | `sink_it_`, `send_repl_result`, `send_command_response`, `drain_log_queue` | every string deleted exactly once, sent in order; drops reported |
| command session (`xb-xray/inspector.cpp`) | `recv_buf`, `cmd_queue`, `log_queue`, `connected_` | `handle_data`, `update`, `flush`, `log`, the four callbacks, `send_handshake` | every command answered or lost for a known reason; scripts in order, on the main thread; the handshake first |
| life cycle (`Xray::start`/`stop`/`log`, `xb-xray/inspector.cpp`) | `self_`, `s_env`, the logger with its two sinks, `s_mdwd_fn` | `start`, `stop`, `log`, `flush`, `set_log_path`, `set_device_family`, the callbacks | no use of a deleted or half-made inspector; `env` tells scripts the truth |
| `lua_state` execution (`xb-xray/lua_state.hpp`) | the Lua stack, the instruction hook, the print buffer | `exec`, `print`, `help`, `list`, `terminate`, `pause`, `continue` | scripts end or time out, and leave nothing for the next |
| `lua_state` bindings (same file, `struct_field.hpp`) | the application's memory, Lua's globals, an iteration | `bind_*`, `__index`, `__newindex`, `__pairs` of four kinds of userdata | a write stays inside its variable; buffers stay terminated; loops meet what is there |
| `uwp_file_sink` (`xb-xray/uwp_sink.h`) | the directory and name of the log, the files on disk | choice of the directory, `cleanup_old_logs`, `sink_it_` | a line is on disk before the client sees it; only the oldest logs go |
| crash handler (`xb-xray/inspector.cpp`) | the dump beside the logs | `crash_handler` | the dump survives the retention |

### How they interact

    application --log/sink_it_--> log_queue --drain_log_queue--> tcp_listener::send --> client
                     \--before that--> uwp_file_sink --> disk
    client --> reader --on_data/handle_data--> cmd_queue --update--> lua_state::exec
                          |                                              |        \
                          +--command_result--> log_queue <--repl_result--+         bound variables

`drain_log_queue` is called from `on_tick` (worker), `on_accept` (handler), `on_data`
(reader) and `flush` (application). Nothing serialises these calls, although `log_queue` is
written for one consumer. `send` holds `client_mtx` while `StoreAsync` blocks; the handler,
the exiting reader and `stop` need the same mutex.

### What is hard here

Lock-free rings whose producers publish in another order than they claim; a consumer side
shared by four threads; a handler, a reader and `stop` that take a connection from each other
and join each other's threads; a peer that stops reading while a mutex is held; commands cut
into arbitrary chunks, with a receive buffer that outlives the connection; messages and
answers that one client leaves behind and the next one receives; callbacks and log calls that
meet `start` and `stop` halfway; a process that dies between the file and the network, and
starts again over the files it left; scripts that fail, time out, catch their timeout, and
write through raw pointers into the application's memory, which changes between and under
them. Only log files outlive the process; nothing is recovered from them, but the retention
reads them. `PROJECT.json` lists these hazards at their lines.

## 2. Modules

| module | models | grows from |
|---|---|---|
| `BoundedChannel` | abstract: a bounded channel that may refuse an item and otherwise is perfect | |
| `Ring` | slots, the unsigned full test of both rings (width kept: `SizeT` = 2^w) | |
| `MpscQueue` | `mpsc_queue`, one action per atomic access, any number of producers and consumers | `Ring`; refines `BoundedChannel` |
| `SpscQueue` | `spsc_queue`, one action per atomic or slot access | `Ring`; refines `BoundedChannel` |
| `LogDrain` | `drain_log_queue` and the callers of `try_enqueue`: ownership of the strings, drop counting | `EXTENDS MpscQueue` |
| `TcpListener` | `tcp_listener` with its four kinds of threads, the client mutex and the peers | |
| `CommandService` | abstract: the stages of a command, each reached at most once and only forward, scripts one at a time | |
| `Session` | `inspector.cpp` between the rings and the socket | uses the two rings as the channels they implement; refines `CommandService` |
| `LuaBinding` | the application's memory, the userdata over it, reads, writes and loops of scripts | |
| `LuaExec` | `lua_state::exec`, the hook, the functions a script is given | `EXTENDS LuaBinding` |
| `LogFiles` | `uwp_file_sink`: directories, names, retention, the files on disk | |
| `Xray` | `start`, `stop`, `log`, the callbacks, `s_env`, and the death of the process | `EXTENDS LogFiles`; takes the listener as `TcpListener` promises it |
| `RingProofs`, `MpscQueueProofs`, `SpscQueueProofs`, `LogDrainProofs`, `TcpListenerProofs`, `SessionProofs`, `LuaExecProofs`, `XrayProofs` | theorems | the module of the same name |
| `MCMpscQueue`, `MCSpscQueue`, `MCLogDrain`, `MCTcpListener`, `MCSession`, `MCLuaExec`, `MCXray` | small instances for TLC | |

Definitions whose names start with `Mut` are deliberate bugs: each has the parameters of the
definition that follows it and replaces it when one wants to see a property fail.

### Correspondence with the code

**MpscQueue.** `pc[p]` names the next atomic access of a thread: `head` (line 30),
`tail` (32), `drop` (33), `cas` (36), `store` (42) in `try_enqueue`; `deq_head`,
`deq_slot`, `deq_clear`, `deq_tail` in `try_dequeue`. `compare_exchange_weak` may fail at any
time (`CasFailure`). `try_dequeue` returns null on an empty ring and also on a claimed slot
whose producer has not stored yet. `accepted` and `received` are histories. The steps are
sequentially consistent: the loads are acquire and the stores release, and on the x64 target
the one relaxation left (a store delayed behind a later load) only postpones a publication,
which the separate `Store` and `DeqStoreTail` steps do already. Indices do not wrap (2^64
enqueues); the subtraction `head_ - tail_` does, when its operands are of different age.

**SpscQueue.** As above with two fixed threads; the assignment to and the copy from a plain
slot are steps of their own (`EnqWrite`, `DeqCopy`), so that a race would be a state in which
both are pending on one slot.

**LogDrain.** `Consumers` are the draining threads, and nothing but `OneAtATime`, the condition
that no drain begins before another has ended, tells the discipline of the documentation from
what the code does: with one consumer it holds by itself, with two nothing in the code sees to
it. `freed`, `wire`, `dropped` and `reported` are histories. A send reaches the socket or,
without a client, does not.

**TcpListener.** `apc`, `wpc`, `hpc[c]` and `rpc[c]` are the places of the application, the
worker, the handler and the reader of client `c`. `client` stands for `client_sock` and
`writer`, which change together. The mutex is a variable (`locked`) only where it spans
several steps, in `send`, which keeps it while `StoreAsync` waits for a peer that need never
read; the other critical sections are single steps that need it free. `on_accept` is
`HDrain`/`HDrained` (the drain, which may send), `HAccept` (the flag) and `HHandshake` (which
always calls `send`, so always needs the mutex). A reader ends because its socket was closed,
because the peer left, or because reading threw with the peer still there (`RLeave`). `told`
is what `on_accept` and `on_disconnect` last reported. Clients may connect while `stop` runs,
and a handler may be in progress when it begins: `late` is the history of the connections
whose handler had not ended then. A listener that `stop` or a destructor leaves to a running
thread, a join of a thread already being joined and an assignment to a joinable `std::thread`
set `crashed`. One constant chooses the environment: `Overlap` (WinRT raises a second
`ConnectionReceived` while the first is being handled). The handles, the port range and the
retry delay are abstracted to whether a bind succeeds.

**Session.** The worker is always draining. `Connect`/`Install` are the handler's
`close_client` and installation, `SetConnected`/`Handshake` its `on_accept`; `Read`,
`AppendData`, `HandleLine`, `NoMoreLines`, `Listed`, `ReadFails`, `Disconnect` are the reader;
`Update`, `Exec`, `Result`, `UpdateReturns` are the loop of `update`. A command is one token,
the end of a line another; what the bytes mean is decided in `Parsed`, and a line glued
together from two clients' halves is `garbage` unless one half is empty. `log_queue` is a
bounded channel that may refuse at any time (what `MpscQueue` guarantees with several
producers), `cmd_queue` one that refuses only when full (what `SpscQueue` guarantees).
Dequeueing is atomic here: that two draining threads break this promise is `LogDrain`'s
subject. A send may fail with the client still installed (`StoreAsync` throws, `send` returns
false, the drain deletes the string all the same), and its message is then lost. `wire` keeps
the answers each connection was sent; log lines occupy the ring but are not recorded.
`Places(c)` is where command `c` or its answer lies; `StageOf(c)` reads the same as a stage of
`CommandService`, where a drain that takes an answer out of the ring, a connection, a chunk or
a log line is a stutter.

**LuaBinding.** `mem` is a row of cells, one per scalar, array element, struct member or
character; a cell remembers the type it was last written as, so that reading it as another
finds arbitrary bits. An object is what one `bind_*` call is given. `Places(o, key)` is where
`o[key]` lies, at most one place with the letter the code reads and writes it by, as
`struct_field.hpp` and the `sizeof` dispatch of `bind_impl` choose it (`ScalarType`,
`ArrayType`: an int and a float have one size, so one of them is bound wrongly; `Faithful`
names the objects that are not). A variable can be bound twice, in an object that is faithful
and in one that is not, and then holds what either writes: `WellBound` are the variables
that only faithful objects reach, and of those alone `TypeOK` states a type. `Places` is what
`o[key]` reaches, through the metamethods of `o`'s own kind. But no metamethod checks whose
userdata it is given, and `sandbox` leaves scripts `getmetatable`: `NewIndexAs` is another
kind's `__newindex` applied to `o`, and `Misread` the places it takes the block behind `o`
for, within the modelled memory. `strayed` is the history of such a call; from then on nothing
is claimed of the memory. `Accepts` and `Cast` are `luaL_check*` and the casts that
follow, `StoreText` the `memcpy` and the terminator. `iter` is a `pairs` loop: the code turns
the control variable into an index (`ToInteger`), which is 0 for a field's name.

**LuaExec.** A script is any sequence of the actions under `Script`. `hook` counts the steps
since `lua_sethook`, or is `Off`; the hook takes itself off before it raises its error, as the
code does, so a script whose own `pcall` catches the timeout runs without one (`caught`).
`Stray` is a script's call of another kind's metamethod: a write as `NewIndexAs` has it, or an
address outside the program, which ends it. `CleanExecs` says how many calls of `exec` come
before the first that may stray, which bounds the model only.
`Raise` sends an error to the innermost `pcall`. `phase = "lost"` is a call of `exec` that
never returns: a stray address, a null `std::string` made of an error object that is no
string, or a returned table that `to_string` does not survive. Between two calls the
application assigns its variables and binds others; a registered callback may do so inside one.

**LogFiles.** `disk` maps a directory to its files, numbered in the order of creation. The
constructor is `OpenSink`: any subset of the directories may be usable, the name is any (a
clock may repeat one), and any of the old files may resist deletion (`stuck`). `Touch` is
`fopen("ab")`, or `CREATE_ALWAYS` for the dump.

**Xray.** `pc` is the place of the application's thread: `sinks`, `resolve`, `listen`, `wait`
in `start`, and `stopping`, `delete`, `clear` in `stop`. `self` is a number, so that a new
instance differs from a deleted one. `task[t]` is a call of `log` on its way through
`SinkOrder`, the file and then the net. `Drained` is `drain_log_queue`; `Accept`/`TellEnv` and
`Disconnect`/`TellEnv` are the two callbacks, in the order of their effects. `Die` may come at
any moment, leaves everything but the disk behind, and drops a dump if the handler is in
place. `Serialised` says that the second thread keeps out of `start` and `stop`: it is `TRUE`
in `Xray.cfg`, where the question is the order of effects, and `FALSE` in `XrayThreads.cfg`,
where it is whether `stop` waits.

## 3. Runs

| run | instance | shows |
|---|---|---|
| `SpscSafety` | ring of 2, 5 commands, `FairSpec` | the command ring never races, keeps order, refuses only when full, and implements the bounded channel, with fairness |
| `DrainOne` | 2 producers, 1 drainer, ring of 2, 3 strings, `LFairSpec` | the log ring never overwrites a slot and implements the bounded channel; every string is deleted exactly once, sent in order, delivered in spite of holes; warnings never overstate the drops and follow every drop |
| `Tcp` | 2 clients that may stay silent, block a send or leave, `stop` at any time, `FairSpec` | one reader at a time; the callbacks agree with `client_sock`; no ghost connection; no late disconnect; the port is free when `stop` returns, and every connection over but those `stop` met in progress (`StopIsFinal`); `stop` returns and every client is served unless a send waits for ever |
| `Session` | 2 clients, three scripts and one `list_bindings`, a log ring of one and a command ring of two, 1 log line, `FairSpec` | every command received is in exactly one place (a ring, a thread, a wire, or lost for a known reason) and in the end answered or lost, unless a script or a send never ends; scripts run in the order they arrived, one at a time and before they are answered (`ImplementsService`) |
| `LuaRepl` | a bool, an array of two ints, a buffer and a struct behind it, 2 calls of `exec`, the second of which may stray, `FairSpec` | until a script strays, buffers stay terminated and a write changes one variable; array loops meet every index once; loops hand out keys that lead somewhere; `exec` returns and leaves nothing behind |
| `Xray` | 3 instances, 2 directories, 3 file names, deaths anywhere | `env` tells the truth; what the client sees is on disk first; only the oldest logs are deleted |
| `MpscSpuriousDrop` | 2 producers | *violated*: an item is dropped from a ring that is not full |
| `DrainTwo` | 2 drainers | *violated*: a string is sent (and deleted) twice |
| `SessionHandshake` | | *violated*: the handshake is not the first message of a connection |
| `SessionLua` | | *violated*: `list_bindings` walks the Lua state on the reader while `update` runs a script |
| `XrayThreads` | 1 instance, a second thread that logs at any time | *violated*: nobody meets a deleted instance |
| `LuaTimeout` | no variables, `FairSpec` | *violated*: a call of `exec` ends |

The six violated runs each state what the documentation says (quoted in `PROJECT.json`) and
end in a trace of what the code does. They are facts about the code, not about the models:

- `MpscSpuriousDrop`: `head_` is loaded before `tail_`; if another producer claims that slot
  and the consumer passes it in between, `head_ - tail_` wraps and reads as full.
- `DrainTwo`: worker and reader load the same slot before either clears it.
- `SessionHandshake`: the socket is installed before `on_accept`, whose first act is a drain.
- `SessionLua`: `handle_data` calls `lua.list_globals()` without going through `cmd_queue`.
- `XrayThreads`: a `log` call that is past its test of `self_` goes on with the instance that
  `stop` deletes meanwhile; `README.md:257-260` gives "Any" as the thread safety of both.
- `LuaTimeout`: the instruction hook removes itself before it raises the timeout; a script that
  catches the error with its own `pcall` is not interrupted again, and `update` never returns.

Three passing runs state what the code does where a document says something else; passing
does not make the document right:

- `DrainOne`: a full ring refuses the *newest* message and never gives up one it accepted
  (`ImplementsChannel`, `Delivery`). `docs/CPP-API.md:143`, `docs/LOGGING.md:56` and 81,
  `docs/ARCHITECTURE.md:112` and `docs/NETWORK-PROTOCOL.md:127` (in the text of the warning
  itself) say *drop-oldest*, under which an accepted message could be lost and `Delivery` would
  be false. `docs/LOGGING.md:86` says what the code does.
- `Tcp`: `docs/CPP-API.md:188` has `stop` close the socket and join the network thread. It does
  so for every client but those in `late`: neither `close_client` nor revoking the listener
  waits for a handler in progress, which installs its client and starts a reader behind `stop`.
  Without that exception `StopIsFinal` fails.
- `Xray`: the retention leaves `MAX_LOG_SESSIONS` older logs beside the session's own, six in
  all, and looks at no file's age (`Retention`). `docs/LOGGING.md:13` and 39 say 5 files,
  `README.md:54` says "7-day auto-cleanup".

Exceptions are part of some properties, because without them the code breaks them in the same
run:

- `StopReturns`, `ClientIsServed`: `<>[]locked`, a send that waits for its peer for ever. A tick
  sits in `StoreAsync` with `client_mtx`, and `close_client` and the next handler need it.
- `EveryCommandEnds`: a script that never returns, or a thread that is in a send again and
  again or for ever.
- `Terminated`, `OneVariable` and what `TypeOK` says of the memory: `strayed`.

The listener's properties hold for `Overlap = FALSE` only: of two handlers at once both pass the
join and assign `reader_thread`. Whether WinRT overlaps them is not the repository's to say.

### Observations

What the models show of the code without a run of its own. Some of it contradicts a document,
some may be intended.

- `player_hp = 50` replaces Lua's global; the C++ variable keeps its value and the name is no
  longer bound (`Overwrite`), unlike `docs/LUA-REPL.md:54-57` and `README.md:220`.
- `getmetatable(a).__newindex(b, k, v)` with `a` and `b` bound as different kinds casts `b`'s
  block to `a`'s: it writes over terminators and neighbours, or at an address read from
  somewhere else (`Stray`).
- What one client leaves behind the next one gets: a script of the first runs after the second
  came and its answer is sent to the second; half a line of the first is glued to the second's
  first line. `OnePlace` counts these as places like any other, since no document says what
  becomes of them.
- A message whose `StoreAsync` fails is lost: `drain_log_queue` ignores what `send` returns.
- `pairs` over a struct returns its first field for ever, until the hook ends the script
  (`KeyAfter` of a name); `docs/QUICKSTART.md:101` iterates the fields.
- A bare expression such as `player_hp` is no chunk: it ends in a load error (`Begin`).
- `bind` of a float reads and writes it as an int; `bind_array` of ints treats them as floats.
- An error object that is not a string makes a null `std::string`; `to_string` of a returned
  table runs outside `pcall` and without a hook, so a table that holds itself, or whose
  `__len` raises an error, ends the program.
- The `on_terminate`, `on_pause` and `on_continue` callbacks run inside `exec`; `set_on_*`
  before `start` is ignored.
- `LogLevel` is cast to spdlog's levels, one lower: `log_info` is a debug line that the net
  sink never passes, and `log_warn` reaches the client as INFO.
- `start` sets `s_env.connected` to false after clients may have been accepted
  (`inspector.cpp:356`; `EnvTruth` excepts that client), overwrites a device family set before
  it (369), and records the port once, although it may be found later. `env.log_path` is the
  directory that was asked for, not the one in use.
- Lines 129 to 131 of `uwp_sink.h` are left over from another version.
- `stop` deletes what is queued without sending it; `README.md:258` has it flush the logs.
- Drops between `drop_count()` and `reset_drop_count()` are never counted in a warning
  (`LogDrain!Reset` stores 0 whatever the counter is; `DropsAreWarnedOf` shows that *some*
  warning still follows).
- The worker's `set_state(listening)` can overwrite the `connected` of a client accepted since
  the bind (`WListening`).

### Bounds

- Rings of two slots are filled, refused and wrapped: with 5 commands the SPSC indices pass
  the end of the ring twice, with 3 strings and 2 producers every order of claims and stores,
  and a refusal, occurs. The proofs remove these bounds.
- `SizeT` is small (16 or 32) and larger than any index reached, so a wrapped difference is
  as far above `Capacity` as in the code.
- Two clients are the least that replace each other; each connects once, since a socket is
  never reused.
- In `Session`, four commands in two streams, cut into chunks in every way and broken off
  anywhere: three scripts from one client, of which two wait together in a command ring of two
  and the third may be refused, and `list_bindings` from the other. Either client may come
  first; the line of one that follows the unfinished one of the other exercises the shared
  buffer. A log ring of one is full at once. `MaxLogs = 1` line of the application competes for
  the log ring with the two lines `update` logs per command. About 440 000 states.
- `LuaRepl`: `MAX_OPS = 3` steps until the hook, but a script that has caught its timeout goes
  on without limit, so every combination of steps is reached, and loops of up to `MaxSeen = 3`
  keys reach the end of an array of two. `IntWidth = 1` makes the cast to int wrap at once.
  Indices 0 to 3 lie below, in and behind the array; texts of no and of two characters are
  shorter than, and as long as, a buffer of two. Two calls of `exec` are enough for one to
  leave something to the next. `CleanExecs = 1`, so a script strays in the second call
  only: after it nothing is claimed of the memory, and the phases of `exec` do not depend
  on it. About 144 000 states.
- `Xray`: a retention of one and three names delete logs, share a name, and let files resist;
  three instances are a session, its successor and one that deletes; levels 1 and 3 lie on
  both sides of the net sink's filter. 3.1 million states.
- Symmetry is used for the strings of `DrainTwo` and the file names of `Xray`, where only
  safety is checked, never with a liveness property.

### Fairness

- `SpscQueue!FairSpec`, `LogDrain!LFairSpec`: a thread inside a call goes on; `update` polls
  every frame and the worker ticks for ever, so somebody keeps dequeueing. Producers need not
  start calls; a CAS that can succeed again and again does in the end (strong fairness), but a
  producer that is refused is not promised success.
- `TcpListener!Fairness`: threads run when they can, and a `stop` once called goes on. Steps
  that take `client_mtx` are strongly fair: a tick releases the mutex and the worker then
  sleeps 100 ms, long enough for a blocked thread to get it. A read of a closed socket or a gone
  peer ends, and so does a send to a gone peer (`StoreAsync` throws); of a send to a peer that
  is there nothing is assumed, nor of the peers or the application.
- `Session!Fairness`: the worker's drains and a reader's callbacks go on (`Going`); `update`
  is strongly fair because a frame calls it whatever `flush` calls lie between. Nothing is
  assumed of `Exec`, which need not return (`LuaTimeout`), nor of a send, which may block.
  Clients need not connect, send or stay.
- `LuaExec!FairSpec`: the thread that is in `exec` runs the script's instructions, the hook and
  the collection of results. The application need not call `exec`, and a script may take any
  steps for ever, as long as the hook is in place.
- `Xray` states no liveness.
- `CHECK_DEADLOCK FALSE` everywhere: every instance is finite (commands, strings, clients,
  starts) and comes to rest when they are used up.

## 4. Proofs

Checked by TLAPS for all values of the constants, under the named assumptions of the modules
(`Capacity` positive, `SizeT` larger, `NULL`/`NONE` distinct from the data).

- **RingProofs**: `Slot` maps positions less than `Capacity` apart to different slots, is
  periodic, and covers every slot in any window of `Capacity` positions. All later arguments
  about overwriting rest on these.
- **MpscQueueProofs** (hypothesis `[]OneDequeuer`, that no two calls of `try_dequeue` overlap,
  whichever and however many threads make them): `IInv` is inductive. `FIFO` and
  `NoOverwrite` are not inductive alone: one needs to know that a CAS that can still succeed
  sees room (`ProducerInv`: a position that equals `head_` when its CAS comes is below
  `tail_ + Capacity`, because `tail_` only grows), that every claimed position holds its item
  or a hole that one thread owns (`ClaimedInv`) and that all others of the window are empty
  (`FreeInv`). From it: type correctness, `FIFO`, `NoOverwrite`, `Conservation` and the
  refinement of `BoundedChannel`; `DrainTwo` shows that the hypothesis cannot be dropped.
  Without any hypothesis `Refusals`: an item is refused by a full ring or because a dequeuer has
  passed the `head_` that the producer read, which is what `MpscSpuriousDrop` meets and all
  that can go wrong there.
- **SpscQueueProofs** (no hypothesis): `IInv`, `FIFO`, freedom from races, refusal only when
  full, refinement.
- **LogDrainProofs** (`[]OneAtATime`, that no two drains overlap, whichever threads drain; the
  code does not guarantee it, and these theorems say what a lock around `drain_log_queue`
  would buy): the drain loop implements the ring (`DrainUsesTheRing`, without the hypothesis),
  so the ring's theorems hold under it; `LInv` (each string has one owner
  until deleted, the counter covers the count in hand) is inductive relative to `IInv`;
  nothing is used after being freed and warnings never overstate the drops. That no string is
  without an owner (`AllOwned`) gives `NoLeak`, and that what the socket took are strings
  the drainer has done with, in the order of their acceptance (`WireInv`), gives `WireInOrder`.
- **TcpListenerProofs**: with `~Overlap`, `IInv` (a handler past its join owns the connection,
  a reader is the one `reader_thread` holds, `told` and `state` lag behind `client` only while
  some thread is about to correct them) is inductive and gives `OneReader`,
  `ToldMatchesClient`, `NoGhostConnection` and `NoLateDisconnect`; type correctness and
  `PortFreed` need no hypothesis. `StopInv` (what `stop` has achieved, step by step, for the
  clients that are not `late`) gives `StopIsFinal` (`StopEndsConnections`), with clients that
  connect and handlers in progress while `stop` runs.
- **SessionProofs** (`InputAssumption`, and `DifferentCommands` where said): `TypeInv` ties the place of a thread to what it holds
  and gives type correctness. For `ExecutedInOrder`: the bytes in `recv_buf` and in the chunk
  are the last ones that were read (`TailInv`); what was executed, is being executed and waits
  in `cmd_queue` is one sequence to which only `Eval` adds (`Pipeline`); so the order of that
  sequence is kept (`OrderInv`), however lines are cut, glued together or refused. This needs
  `DifferentCommands`, that no two commands sent have the same text: the property tells
  executions apart by it, and so do the properties that follow.
  For `OnePlace`: `Where(c)` names the kinds of place a command is in; `PlaceInv` says that it
  is in one place at most (`Alone`), and in one just when it was received as far as the input
  has been handled (`Handled`). A step that touches a command takes it out of one place and
  puts it into one other, and there is one lemma for each such step (`TakeCarries` to
  `ListedCarries`, `LinePlaces`); the others leave all in place (`OthersStay`). A command
  appears only when its line is handled, and was nowhere before, since its text is new
  (`NotYetHandled`). `LineInv` (what has been handled ends with a line, and at rest no line is
  left in `recv_buf`) makes `Handled` the `Received` of the property (`AllHandled`).
  For `ImplementsService`: the stage of a command follows from its place and from whether
  `update` is inside `exec` (`StageFits`, before and after a step); the same lemmas say which
  stage it leaves and reaches; `KindInv` (only scripts wait in `cmd_queue` and are held by
  `update`, only `list_bindings` by the reader) gives each step its kind of answer, and that
  `update` has nothing in hand when it takes the next script gives `Turn`. From the
  refinement alone follows `RanOnce` of the service (`ScriptsRunOnce`): an answered script
  ran, and none runs twice.
- **LuaExecProofs** (no hypothesis but `LayoutAssumption`, that what is bound is of the types
  `bind_*` takes and does not overlap, and `CharAssumption`): until a script strays (`strayed`
  never becomes false again, `StraysForGood`), every place computed from a key
  or from the application's own variables lies in one variable, and is a text only if it is
  that variable's whole buffer (`WhereKeysLead`, `WhereVariablesLie`), so a store ends inside
  it (`StoreKeeps`). That gives `Terminated` (with `MemInv`, in `Sound`) and `OneVariable` for
  every layout. `ExecInv` (a hook and protected calls only while a script runs, values on the stack
  only while they are collected) gives `ExecClean`; `IterInv` (the control variable is the
  number of keys met) gives `ArrayInOrder` for arrays of any length, `KeyInv` gives
  `KeysAreFound`. `TypeOK` follows from `MemInv` (a well-bound variable is written by its own
  letter only), `ExecTypes` (what the phases of `exec` keep) and `ShapeInv` (the globals and
  the loop in progress).
- **XrayProofs** (hypothesis `Serialised`): `LifeInv` ties the place in `start` or `stop` to
  what is allocated, and a call or callback in progress to the places where it may be; it is
  inductive with `Counters`. `XrayThreads` shows what becomes of an instance without the
  hypothesis, so nothing is stated of that here. With it `DiskInv` (a call that has
  passed the file sink has its line there) gives `OnDisk`, and `EnvInv` (the gate of the net
  sink follows the client, and `env` lags behind both only while a callback is about to
  correct it) gives `EnvTruth`. Without the hypothesis, `DiskTypes` (files of one directory
  differ in number and name) and `FewInv` (few logs beside those that resisted) are inductive
  and give `Retention`: the newest log in excess has enough newer ones, which all stay
  (`NewerOnesStay`), and the oldest that is not in excess bounds those that are kept
  (`TheRestIsSmall`). The process may die at every step of these proofs. `TypeOK` takes all of
  them together, with `Instances` (numbers of instances that were made) and `LineInv` (lines carry
  the numbers under which they were logged to this instance: `start` begins with none, while
  no call is in progress, and logs one or two itself).

Only model-checked: everything temporal beyond safety (`Delivery`, `DropsAreWarnedOf`,
`ImplementsFairChannel`, `StopReturns`, `ClientIsServed`, `EveryCommandEnds`, `ExecReturns`),
since TLAPS has no support for `ENABLED`. Every invariant and action property of a passing
run, and every refinement but the fairness of `ImplementsFairChannel`, is a theorem under the
hypotheses named above, which the runs' instances satisfy.

## 5. Not modelled

- `mpsc_msg_queue`: no code of the repository uses it, so there is no caller to model. Its
  `try_dequeue` moves out of a slot that a producer may have claimed and not yet constructed.
- The list of globals that `sandbox()` removes, coroutines (whose hook is not set), the text
  that `__tostring`, `__len` and `list_globals` produce (the latter's value column is always
  empty), and Lua running out of memory.
- `uwp_file_sink::flush_`, which nothing calls, and the contents of the file beyond which
  lines are in it.
- The port loop's `uint16_t` (with `port_end = 65535` it never ends; the range is never
  changed): `TcpListener` and `Xray` have one choice for a bind.
- Races on plain handles and flags (`winrt_listener`, `s_env`'s members): the models make each
  access one step, so torn reads are not represented.
- A drain that never ends because producers keep up with it: the runs have finitely many
  strings. `drain_log_queue` returns only on an empty ring, so the hazard is real.
- Everything about wording, time stamps and JSON layout.
- Lua, spdlog and nlohmann/json: third-party, present as headers and binaries.
- Build scripts and the sample program.

## 6. What could follow

1. A drain whose strings are recycled, for the drain that never ends, and `mpsc_msg_queue` as a
   variant of `MpscQueue` should the repository come to use it.
2. The listener's restart (one `Xray` instance makes one listener, which starts once today).
