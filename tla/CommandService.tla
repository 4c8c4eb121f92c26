---------------------------- MODULE CommandService ----------------------------
(***************************************************************************)
(* What the inspector promises of a command line, without rings, threads,   *)
(* chunks or connections: a command goes through stages, each at most once  *)
(* and only forward.  A script waits its turn, runs, and is answered after  *)
(* it ran; list_bindings looks at the Lua state on the spot; the others are *)
(* answered as they are read.  What a full ring, the want of a client or a  *)
(* failing socket takes is lost, at the stage where that can happen and at  *)
(* no other.                                                                *)
(***************************************************************************)
EXTENDS Naturals, Sequences

CONSTANTS Commands, Kind, CmdCapacity

VARIABLES stage,      \* how far each command has come
          waiting,    \* the scripts that wait, in the order in which they were read
          executed    \* the scripts that ran, in that order

svars == <<stage, waiting, executed>>

Scripts == {c \in Commands : Kind[c] = "repl_eval"}

Init == /\ stage = [c \in Commands |-> "unread"]
        /\ waiting = <<>> /\ executed = <<>>

Move(c, from, to) == stage[c] = from /\ stage' = [stage EXCEPT ![c] = to]

Queue(c) == /\ c \in Scripts /\ Len(waiting) < CmdCapacity
            /\ Move(c, "unread", "waiting")
            /\ waiting' = Append(waiting, c)
            /\ UNCHANGED executed

Refuse(c) == /\ c \in Scripts /\ Len(waiting) >= CmdCapacity
             /\ Move(c, "unread", "lost")
             /\ UNCHANGED <<waiting, executed>>

\* One script at a time, the one that has waited longest.
Turn == /\ waiting # <<>>
        /\ \A c \in Scripts : stage[c] \notin {"running", "ran"}
        /\ Move(Head(waiting), "waiting", "running")
        /\ waiting' = Tail(waiting)
        /\ UNCHANGED executed

Run(c) == /\ c \in Scripts
          /\ Move(c, "running", "ran")
          /\ executed' = Append(executed, c)
          /\ UNCHANGED waiting

Look(c) == /\ Kind[c] = "list_bindings"
           /\ Move(c, "unread", "running")
           /\ UNCHANGED <<waiting, executed>>

\* The stage in which a command has been dealt with.
Ready == [repl_eval |-> "ran", list_bindings |-> "running", other |-> "unread"]

Answer(c) == /\ Kind[c] \in DOMAIN Ready
             /\ \E to \in {"answered", "lost"} : Move(c, Ready[Kind[c]], to)
             /\ UNCHANGED <<waiting, executed>>

Deliver(c) == /\ \E to \in {"delivered", "lost"} : Move(c, "answered", to)
              /\ UNCHANGED <<waiting, executed>>

\* A step of the session that is no command's business.
Elsewhere == UNCHANGED svars

Next == \/ Elsewhere
        \/ Turn
        \/ \E c \in Commands : Queue(c) \/ Refuse(c) \/ Run(c) \/ Look(c) \/ Answer(c) \/ Deliver(c)

Spec == Init /\ [][Next]_svars

-----------------------------------------------------------------------------
(* A script whose answer is under way or delivered ran, and none ran twice. *)
RanOnce ==
    /\ \A c \in Scripts : stage[c] \in {"ran", "answered", "delivered"} =>
           \E i \in DOMAIN executed : executed[i] = c
    /\ \A i, j \in DOMAIN executed : executed[i] = executed[j] => i = j
=============================================================================
