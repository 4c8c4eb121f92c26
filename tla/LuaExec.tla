-------------------------------- MODULE LuaExec --------------------------------
(***************************************************************************)
(* lua_state::exec of src/xb-xray/lua_state.hpp: one script from update()   *)
(* to its result, under the instruction hook, with the functions a script   *)
(* is given (print, help, list, pause, continue, terminate) and the bound   *)
(* variables of LuaBinding.                                                 *)
(*                                                                          *)
(* A script is any sequence of the steps below.  Everything runs on the     *)
(* application's thread: its own assignments and binds come between calls.  *)
(***************************************************************************)
EXTENDS LuaBinding

CONSTANTS Indices,     \* the numbers scripts use as keys
          Callbacks,   \* of terminate, pause and continue, which work alike
          MAX_OPS,     \* instructions, here steps, until the hook runs
          MaxPcalls,   \* nesting of a script's own pcalls: bounds the model only
          MaxExecs,    \* calls of exec: bounds the model only
          CleanExecs   \* calls of exec before one strays: bounds the model only

ASSUME BoundAssumption == {MAX_OPS, MaxPcalls, MaxExecs, CleanExecs} \subseteq Nat

VARIABLES phase,       \* "idle", "running", "collect", or "lost": exec never returns
          hook,        \* the steps the instruction hook has counted, or Off
          pcalls,      \* protected calls the script is in
          stack,       \* values left on the Lua stack
          print_buf,   \* the scripts, by number, whose output is in the buffer
          result,      \* what exec returned last
          on,          \* the callbacks that are registered
          execs,       \* history: calls of exec
          caught       \* history: the running script caught its own timeout

exec == <<phase, hook, pcalls, stack, print_buf, result, execs, caught>>
vars == <<mem, globals, iter, strayed, exec, on>>

Off      == -1
NoResult == <<"none", {}>>

Init == /\ mem = [a \in UNION {Cells(p) : p \in AllVariables} |->
                    LET p == CHOOSE p \in AllVariables : a \in Cells(p)
                    IN  <<p.type, CASE p.type = "s" -> NUL [] p.type = "b" -> FALSE [] OTHER -> 0>>]
        /\ globals = [n \in Names |-> <<"nil">>]
        /\ iter = NoIter /\ strayed = FALSE
        /\ phase = "idle" /\ hook = Off /\ pcalls = 0 /\ stack = 0
        /\ print_buf = {} /\ result = NoResult /\ on = {} /\ execs = 0 /\ caught = FALSE

-----------------------------------------------------------------------------
(* The way out of exec on an error: the message is the result.              *)
\* Mutant: the error message stays on the stack.
MutReturnError == /\ phase' = "idle" /\ hook' = Off /\ pcalls' = 0 /\ caught' = FALSE
                  /\ stack' = stack + 1
                  /\ result' = <<"error", {}>> /\ iter' = NoIter

ReturnError == /\ phase' = "idle" /\ hook' = Off /\ pcalls' = 0 /\ caught' = FALSE
               /\ stack' = stack
               /\ result' = <<"error", {}>> /\ iter' = NoIter

\* Mutant: the buffer keeps what earlier scripts printed.
MutClearPrints == print_buf' = print_buf

ClearPrints == print_buf' = {}

\* A text that does not load, an expression without return for one, ends here.
Begin == /\ phase = "idle" /\ execs < MaxExecs
         /\ execs' = execs + 1
         /\ ClearPrints
         /\ \/ /\ phase' = "running" /\ hook' = 0 /\ result' = NoResult
               /\ UNCHANGED <<pcalls, stack, iter, caught>>
            \/ ReturnError
         /\ UNCHANGED <<mem, globals, strayed, on>>

-----------------------------------------------------------------------------
(* The hook counts the steps while it is set.                               *)
Step    == phase = "running" /\ hook < MAX_OPS
Counted == IF hook = Off THEN Off ELSE hook + 1

(* A script's error goes to the innermost pcall: its own, or exec's.  A     *)
(* message that is no string makes a std::string of a null pointer.         *)
Raise(message) ==
    /\ \/ /\ pcalls > 0
          /\ pcalls' = pcalls - 1 /\ hook' = Counted
          /\ UNCHANGED <<phase, stack, result, iter, caught>>
       \/ pcalls = 0 /\ message = "string" /\ ReturnError
       \/ /\ pcalls = 0 /\ message # "string"
          /\ phase' = "lost"
          /\ UNCHANGED <<hook, pcalls, stack, result, iter, caught>>
    /\ UNCHANGED <<mem, globals, strayed, on, print_buf, execs>>

\* Mutant: the hook takes itself off and raises nothing.
MutHook == /\ phase = "running" /\ hook = MAX_OPS
           /\ hook' = Off
           /\ UNCHANGED <<mem, globals, iter, strayed, on, phase, pcalls, stack, print_buf, result,
                          execs, caught>>

(* The hook takes itself off and raises an error.                           *)
Hook == /\ phase = "running" /\ hook = MAX_OPS
        /\ \/ /\ pcalls > 0
              /\ hook' = Off /\ caught' = TRUE /\ pcalls' = pcalls - 1
              /\ UNCHANGED <<phase, stack, result, iter>>
           \/ pcalls = 0 /\ ReturnError
        /\ UNCHANGED <<mem, globals, strayed, on, print_buf, execs>>

Quietly == /\ hook' = Counted
           /\ UNCHANGED <<phase, pcalls, stack, print_buf, result, execs, on, caught>>

-----------------------------------------------------------------------------
(* Steps of a script.                                                       *)
Compute == Step /\ Quietly /\ UNCHANGED <<mem, globals, iter, strayed>>

Error == Step /\ \E message \in {"string", "other"} : Raise(message)

Pcall == /\ Step /\ pcalls < MaxPcalls
         /\ pcalls' = pcalls + 1 /\ hook' = Counted
         /\ UNCHANGED <<mem, globals, iter, strayed, phase, stack, print_buf, result, execs, on, caught>>

PcallReturns == /\ Step /\ pcalls > 0
                /\ pcalls' = pcalls - 1 /\ hook' = Counted
                /\ UNCHANGED <<mem, globals, iter, strayed, phase, stack, print_buf, result, execs, on, caught>>

Keys == {<<"number", n>> : n \in Indices}
        \cup UNION {{<<"string", o.members[i].name>> : i \in DOMAIN o.members} :
                       o \in {o \in Objects : o.kind = "struct"}}

Bound(n) == {o \in Objects : globals[n] = <<"userdata", o>>}

\* o[key] = v, with v a constant or read from a bound variable.
Write == /\ Step
         /\ \E n \in Names : \E o \in Bound(n), key \in Keys :
                \E v \in Values \cup Index(o, key) :
                    IF NewIndexFails(o, key, v) THEN Raise("string")
                    ELSE NewIndex(o, key, v) /\ Quietly

\* getmetatable(x).__newindex(o, key, v), x of another kind than o: it writes
\* somewhere, or is the end of the program.  A script that gives one kind's
\* metatable another's functions does the same.  Once is enough: nothing is
\* said of the memory after it.
Stray == /\ Step /\ ~strayed /\ execs > CleanExecs
         /\ \E n \in Names : \E o \in Bound(n), key \in Keys, v \in Values :
                \/ (\E as \in Kinds \ {o.kind} : NewIndexAs(as, o, key, v)) /\ Quietly
                \/ /\ phase' = "lost" /\ strayed' = TRUE
                   /\ UNCHANGED <<mem, globals, iter, on, hook, pcalls, stack, print_buf, result,
                                  execs, caught>>

\* A read raises an error or is forgotten.
ReadBadKey == /\ Step
              /\ \E n \in Names : \E o \in Bound(n), key \in Keys : BadKey(o, key) /\ Raise("string")

\* name = v, for a v that is bound under some name or anything else.
Overwrite == /\ Step /\ Quietly
             /\ \E n \in Names, v \in {<<"nil">>} \cup {globals[m] : m \in Names} : SetGlobal(n, v)

Loop == /\ Step /\ Quietly
        /\ (\E n \in Names : \E o \in Bound(n) : Pairs(o)) \/ Advance

\* print, and the functions that end in it.
Output == /\ Step
          /\ print_buf' = print_buf \cup {execs} /\ hook' = Counted
          /\ UNCHANGED <<mem, globals, iter, strayed, phase, pcalls, stack, result, execs, on, caught>>

\* terminate(), pause(), continue(): a registered callback is code of the
\* application, which may assign its variables under the script's feet.
Signal == /\ Step
          /\ \E k \in Callbacks :
                 \/ k \in on /\ \E o \in Objects : Assign(o)
                 \/ k \notin on /\ UNCHANGED <<mem, globals, iter, strayed>>
          /\ print_buf' = print_buf \cup {execs} /\ hook' = Counted
          /\ UNCHANGED <<phase, pcalls, stack, result, execs, on, caught>>

\* The script ends; what it returns is left on the stack.
Return == /\ Step /\ pcalls = 0
          /\ \E n \in 0 .. 2 : stack' = stack + n
          /\ phase' = "collect"
          /\ hook' = Off /\ iter' = NoIter /\ caught' = FALSE
          /\ UNCHANGED <<mem, globals, strayed, on, print_buf, pcalls, result, execs>>

Script == \/ Compute \/ Error \/ Pcall \/ PcallReturns \/ Output \/ Return \/ Overwrite \/ Loop
          \/ ReadBadKey \/ Signal \/ Write \/ Stray

(* to_string of a returned table runs without hook and without pcall: one  *)
(* that holds itself, or has a __len that raises an error or loops, is the   *)
(* end of the program.                                                      *)
Format == /\ phase = "collect" /\ stack > 0
          /\ phase' = "lost"
          /\ UNCHANGED <<mem, globals, iter, strayed, on, hook, pcalls, stack, print_buf, result, execs, caught>>

(* The end of exec: the returned values, or what was printed.               *)
Collect == /\ phase = "collect"
           /\ result' = IF stack > 0 THEN <<"values", {}>>
                        ELSE IF print_buf # {} THEN <<"prints", print_buf>> ELSE <<"(no return)", {}>>
           /\ stack' = 0
           /\ phase' = "idle"
           /\ UNCHANGED <<mem, globals, iter, strayed, on, hook, pcalls, print_buf, execs, caught>>

-----------------------------------------------------------------------------
(* The application, between two calls of update().                          *)
Rebind == \E n \in Names, o \in Objects : phase = "idle" /\ Bind(n, o) /\ UNCHANGED <<exec, on>>

OwnAssignment == \E o \in Objects : phase = "idle" /\ Assign(o) /\ UNCHANGED <<exec, on>>

SetCallback == /\ phase = "idle"
               /\ \E k \in Callbacks, fn \in BOOLEAN :
                      on' = IF fn THEN on \cup {k} ELSE on \ {k}
               /\ UNCHANGED <<mem, globals, iter, strayed, exec>>

Next == Begin \/ Hook \/ Script \/ Format \/ Collect \/ Rebind \/ OwnAssignment \/ SetCallback

Spec == Init /\ [][Next]_vars

(* A call of exec goes on: the thread runs the script's instructions.       *)
FairSpec == Spec /\ WF_vars(Hook \/ Script \/ Format \/ Collect)

-----------------------------------------------------------------------------
TypeOK == /\ BindingTypeOK
          /\ phase \in {"idle", "running", "collect", "lost"}
          /\ hook \in Off .. MAX_OPS /\ pcalls \in 0 .. MaxPcalls /\ stack \in 0 .. 2
          /\ print_buf \subseteq 1 .. execs /\ execs \in 0 .. MaxExecs /\ caught \in BOOLEAN
          /\ on \subseteq Callbacks

(* However exec ends, by a result, an error in a script's load or run or    *)
(* the timeout, it leaves no hook, no value on the stack and no protected   *)
(* call behind, and its result has no output of another script.             *)
ExecClean == phase = "idle" => /\ hook = Off /\ stack = 0 /\ pcalls = 0
                               /\ result[2] \subseteq {execs}

(* Every call of exec returns, unless the script catches its own timeout,   *)
(* which has taken the hook off, or ends in a value or an error that the    *)
(* formatting does not survive.                                             *)
ExecReturns == phase = "running" ~> phase \in {"idle", "lost"} \/ caught

(* Every call of exec returns: docs/LUA-REPL.md ends a script that exceeds   *)
(* its instructions.  One that catches the error goes on for ever.          *)
TimeoutEnds == phase = "running" ~> phase \in {"idle", "lost"}
=============================================================================
