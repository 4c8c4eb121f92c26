------------------------------- MODULE LogDrain -------------------------------
(***************************************************************************)
(* drain_log_queue() of src/xb-xray/inspector.cpp on top of the MPSC ring: *)
(* who deletes a heap string, in which order strings reach the socket, and *)
(* how dropped messages are counted and reported.                           *)
(*                                                                          *)
(* The consumers of the ring are the threads that drain it.  The code has   *)
(* four: the listener's worker (on_tick), a connection's reader (on_data),  *)
(* the WinRT thread that accepts a client (on_accept) and the caller of     *)
(* flush(); nothing serialises them.                                        *)
(*                                                                          *)
(* listener.send() is here an outcome: the string reaches the socket, or    *)
(* nobody is connected and it is gone.                                      *)
(***************************************************************************)
EXTENDS MpscQueue

VARIABLES
    dpc,        \* where each drainer is in drain_log_queue
    drops,      \* its local variable of that name
    freed,      \* history: the strings deleted so far
    wire,       \* history: the strings the socket took, in order
    dropped,    \* history: how many strings the ring refused
    reported,   \* history: how many drops the synthetic warnings mentioned
    unwarned    \* history: a string was refused since the last warning

dlocals == <<dpc, drops>>
dhist   == <<freed, wire, dropped, reported, unwarned>>
lvars   == <<vars, dlocals, dhist>>

LInit == /\ Init
         /\ dpc = [c \in Consumers |-> "out"]
         /\ drops = [c \in Consumers |-> 0]
         /\ freed = {}
         /\ wire = <<>>
         /\ dropped = 0
         /\ reported = 0
         /\ unwarned = FALSE

DGoto(c, label) == dpc' = [dpc EXCEPT ![c] = label]

-----------------------------------------------------------------------------
(* The callers of try_enqueue (sink_it_, send_repl_result and               *)
(* send_command_response) delete what the ring refuses.                     *)

MutRefusedLeaks(p) == /\ Drop(p)
                      /\ dropped' = dropped + 1
                      /\ unwarned' = TRUE
                      /\ UNCHANGED <<dlocals, freed, wire, reported>>

Refused(p) == /\ Drop(p)
              /\ freed' = freed \cup {item[p]}
              /\ dropped' = dropped + 1
              /\ unwarned' = TRUE
              /\ UNCHANGED <<dlocals, wire, reported>>

Produce(p) ==
    \/ Refused(p)
    \/ /\ \/ Call(p) \/ LoadHead(p) \/ LoadTail(p)
          \/ CasSuccess(p) \/ CasFailure(p) \/ Store(p)
       /\ UNCHANGED <<dlocals, dhist>>

-----------------------------------------------------------------------------
(* drain_log_queue *)

Begin(c) == /\ dpc[c] = "out"
            /\ DGoto(c, "call")
            /\ UNCHANGED <<vars, drops, dhist>>

CallDequeue(c) == /\ dpc[c] = "call"
                  /\ DeqLoadTail(c)
                  /\ DGoto(c, "deq")
                  /\ UNCHANGED <<drops, dhist>>

\* A step inside try_dequeue; when it returns, the loop sends or ends.
InDequeue(c) ==
    /\ dpc[c] = "deq"
    /\ DeqLoadHead(c) \/ DeqLoadSlot(c) \/ DeqClear(c) \/ DeqStoreTail(c)
    /\ DGoto(c, CASE pc'[c] # "idle"  -> "deq"
                  [] item'[c] # NULL /\ pc'[c] = "idle" -> "send"
                  [] OTHER -> "drops")
    /\ UNCHANGED <<drops, dhist>>

Send(c) ==
    /\ dpc[c] = "send"
    /\ wire' \in {Append(wire, item[c]), wire}
    /\ DGoto(c, "delete")
    /\ UNCHANGED <<vars, drops, freed, dropped, reported, unwarned>>

Delete(c) ==
    /\ dpc[c] = "delete"
    /\ freed' = freed \cup {item[c]}
    /\ DGoto(c, "call")
    /\ UNCHANGED <<vars, drops, wire, dropped, reported, unwarned>>

MutLoadDropsOffByOne(c) ==
    /\ dpc[c] = "drops"
    /\ drops' = [drops EXCEPT ![c] = drop_count]
    /\ DGoto(c, IF drop_count > 1 THEN "reset" ELSE "out")
    /\ UNCHANGED <<vars, dhist>>

LoadDrops(c) ==
    /\ dpc[c] = "drops"
    /\ drops' = [drops EXCEPT ![c] = drop_count]
    /\ DGoto(c, IF drop_count > 0 THEN "reset" ELSE "out")
    /\ UNCHANGED <<vars, dhist>>

MutForgetReset(c) ==
    /\ dpc[c] = "reset"
    /\ DGoto(c, "warn")
    /\ UNCHANGED <<vars, drops, dhist>>

Reset(c) ==
    /\ dpc[c] = "reset"
    /\ ResetDropCount(c)
    /\ DGoto(c, "warn")
    /\ UNCHANGED <<drops, dhist>>

Warn(c) ==
    /\ dpc[c] = "warn"
    /\ reported' = reported + drops[c]
    /\ unwarned' = FALSE
    /\ DGoto(c, "out")
    /\ UNCHANGED <<vars, drops, freed, wire, dropped>>

Drain(c) == \/ CallDequeue(c) \/ InDequeue(c) \/ Send(c) \/ Delete(c)
            \/ LoadDrops(c) \/ Reset(c) \/ Warn(c)

LNext == \/ \E p \in Producers : Produce(p)
         \/ \E c \in Consumers : Begin(c) \/ Drain(c)

LSpec == LInit /\ [][LNext]_lvars

(* The worker drains on every tick, and a thread inside a call goes on.     *)
LFairness == /\ \A p \in Producers : /\ WF_lvars(Produce(p) /\ pc[p] # "idle")
                                     /\ SF_lvars(Produce(p) /\ pc[p] = "cas" /\ pc'[p] = "store")
             /\ \A c \in Consumers : WF_lvars(Begin(c) \/ Drain(c))

LFairSpec == LSpec /\ LFairness

(* The condition under which the drains are safe, whichever threads drain:   *)
(* no drain begins before another has ended.  Nothing in the code sees to it. *)
OneAtATime == \A c, d \in Consumers : dpc[c] # "out" /\ dpc[d] # "out" => c = d

-----------------------------------------------------------------------------
LTypeOK ==
    /\ TypeOK
    /\ dpc \in [Consumers -> {"out", "call", "deq", "send", "delete",
                              "drops", "reset", "warn"}]
    /\ drops \in [Consumers -> Nat]
    /\ freed \subseteq Items
    /\ wire \in Seq(Items)
    /\ dropped \in Nat /\ reported \in Nat
    /\ unwarned \in BOOLEAN

(* Deletion is safe: a string in the ring, or in the hands of a thread that *)
(* will still read or delete it, has not been deleted by another.           *)
NoUseAfterFree ==
    /\ \A i \in Slots : buffer[i] \notin freed
    /\ \A p \in Producers : item[p] \notin freed
    /\ \A c \in Consumers : dpc[c] \in {"send", "delete"} => item[c] \notin freed

(* Nothing leaks: when every call has returned and the ring is empty, every *)
(* string that was ever enqueued or refused has been deleted.               *)
Quiet == /\ \A p \in Producers : pc[p] = "idle"
         /\ \A c \in Consumers : dpc[c] \in {"out", "drops", "reset", "warn"}
         /\ head = tail

NoLeak == Quiet => freed = Items \ fresh

(* The socket sees each string at most once and in the order in which the   *)
(* ring accepted them.                                                      *)
WireInOrder ==
    \A i, j \in 1 .. Len(wire) :
        i < j => \E a, b \in 1 .. Len(accepted) :
                     a < b /\ accepted[a] = wire[i] /\ accepted[b] = wire[j]

(* The warnings never mention more drops than there were: with the counter  *)
(* and the count in the hands of a drainer they never exceed the drops.     *)
NeverOverReports ==
    \A c \in Consumers :
        reported + (IF dpc[c] = "warn" THEN drops[c] ELSE 0) + drop_count <= dropped

(* A refused string is followed by a warning, even when its own count is    *)
(* lost.                                                                    *)
DropsAreWarnedOf == unwarned ~> ~unwarned

(* The strengthening that makes the safety properties of drains that do not *)
(* overlap inductive, on top of the ring's IInv.  A drainer carries a string it     *)
(* took, the last one delivered, or a count the counter still covers.       *)
CarryInv ==
    \A c \in Consumers :
        /\ dpc[c] # "deq" => pc[c] = "idle"
        /\ pc[c] = "deq_head" => item[c] = NULL
        /\ dpc[c] \in {"send", "delete"} => tail > 0 /\ item[c] = accepted[tail]
        /\ dpc[c] = "reset" => drops[c] <= drop_count

(* Every string has one owner: the caller that has not won a slot for it,   *)
(* its place in the ring, the drainer that took it, or nobody once deleted. *)
Offering(p) == pc[p] \in {"head", "tail", "drop", "cas"}

OwnInv ==
    /\ fresh \cap freed = {}
    /\ \A i \in 1 .. head : accepted[i] \notin fresh
    /\ \A i, j \in 1 .. head : accepted[i] = accepted[j] => i = j
    /\ \A i \in tail + 1 .. head : accepted[i] \notin freed
    /\ \A p \in Producers : Offering(p) =>
          /\ item[p] \notin fresh \cup freed
          /\ \A i \in 1 .. head : accepted[i] # item[p]
          /\ \A q \in Producers \ {p} : Offering(q) => item[q] # item[p]
    /\ \A p \in Producers : pc[p] = "idle" => item[p] = NULL
    /\ \A c \in Consumers : dpc[c] \in {"send", "delete"} => accepted[tail] \notin freed

LInv == LTypeOK /\ CarryInv /\ OwnInv /\ NeverOverReports
=============================================================================
