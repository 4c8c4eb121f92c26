------------------------------- MODULE LogFiles -------------------------------
(***************************************************************************)
(* uwp_file_sink (src/xb-xray/uwp_sink.h) and the files it leaves on disk,  *)
(* which outlive the process.                                               *)
(*                                                                          *)
(* A sink takes the first directory it can use, names its file after the    *)
(* local time, to the second, and deletes the oldest logs before it writes. *)
(* The file comes to exist with the first line that can be written.  Two    *)
(* sessions may choose the same name: they start in the same second, or the *)
(* clock was put back.                                                      *)
(*                                                                          *)
(* (Lines 129 to 131 of uwp_sink.h are the tail of an earlier version of    *)
(* cleanup_old_logs, which no longer belongs to any function.)              *)
(***************************************************************************)
EXTENDS Integers, FiniteSets, Sequences

CONSTANTS Dirs, Names,         \* directories, and the names of log files
          Dump,                \* the name of the crash dump, which lies among them
          NONE,
          MAX_LOG_SESSIONS

ASSUME SessionsAssumption == MAX_LOG_SESSIONS \in Nat \ {0}
ASSUME NamesAssumption    == Dump \notin Names /\ NONE \notin Dirs

VARIABLES disk,      \* Dirs -> files [no, name]; no is the order of their creation
          created,   \* Dirs -> how many files were created there
          stuck,     \* history: files that could not be deleted
          sink       \* the sink of the process [dir, name]; dir is NONE if it has none

files  == <<disk, created, stuck>>
NoSink == [dir |-> NONE, name |-> Dump]

FilesInit == /\ disk = [d \in Dirs |-> {}] /\ created = [d \in Dirs |-> 0]
             /\ stuck = {}
             /\ sink = NoSink

Logs(d) == {f \in disk[d] : f.name # Dump}

-----------------------------------------------------------------------------
\* Mutant: the logs are sorted oldest first.
MutVictims(d, own) ==
    LET others == {f \in Logs(d) : f.name # own}
    IN  {f \in others : Cardinality({g \in others : g.no < f.no}) >= MAX_LOG_SESSIONS}

(* cleanup_old_logs: of the logs other than its own, the newest stay.       *)
Victims(d, own) ==
    LET others == {f \in Logs(d) : f.name # own}
    IN  {f \in others : Cardinality({g \in others : g.no > f.no}) >= MAX_LOG_SESSIONS}

(* The constructor: usable are the directories that exist or can be made,   *)
(* and some files may resist deletion.                                      *)
FirstUsable(candidates, usable) ==
    LET good == {i \in DOMAIN candidates : candidates[i] \in usable}
    IN  IF good = {} THEN NONE
        ELSE candidates[CHOOSE i \in good : \A j \in good : i <= j]

OpenSink(candidates, usable) ==
    LET d == FirstUsable(candidates, usable)
    IN  \/ d = NONE /\ sink' = NoSink /\ UNCHANGED files
        \/ /\ d # NONE
           /\ \E name \in Names :
                  /\ sink' = [dir |-> d, name |-> name]
                  /\ \E gone \in SUBSET Victims(d, name) :
                         /\ disk' = [disk EXCEPT ![d] = @ \ gone]
                         /\ stuck' = stuck \cup {<<d, f.no>> : f \in Victims(d, name) \ gone}
           /\ UNCHANGED created

(* fopen with "ab", or CREATE_ALWAYS for the dump: the file is there when   *)
(* it returns, the old one if there was one.                                *)
\* Mutant: a file that is there already is made anew beside it.
MutTouch(d, name) == /\ created' = [created EXCEPT ![d] = @ + 1]
                     /\ disk' = [disk EXCEPT ![d] = @ \cup {[no |-> created[d] + 1, name |-> name]}]
                     /\ UNCHANGED stuck

Touch(d, name) ==
    \/ \E f \in disk[d] : f.name = name /\ UNCHANGED files
    \/ /\ \A f \in disk[d] : f.name # name
       /\ created' = [created EXCEPT ![d] = @ + 1]
       /\ disk' = [disk EXCEPT ![d] = @ \cup {[no |-> created[d] + 1, name |-> name]}]
       /\ UNCHANGED stuck

Writable == sink.dir # NONE

-----------------------------------------------------------------------------
FilesOK == /\ \A d \in Dirs : \A f \in disk[d] : f.no \in 1 .. created[d] /\ f.name \in Names \cup {Dump}
           /\ \A d \in Dirs : \A f, g \in disk[d] : f.name = g.name => f = g
           /\ sink.dir \in Dirs \cup {NONE} /\ sink.name \in Names \cup {Dump}

(* A log is deleted only when as many newer ones stay as MAX_LOG_SESSIONS    *)
(* says, never the crash dump and never the file the session writes to; and  *)
(* whatever directories and names the sessions had, no directory keeps more  *)
(* than those and the log of the last session, save files that resisted      *)
(* deletion.                                                                 *)
(*                                                                           *)
(* This is what the code does, and neither thing the repository's documents  *)
(* promise: "5 files" in all (docs/LOGGING.md:13 and 39) are one fewer than  *)
(* cleanup_old_logs lets stay, and the "7-day auto-cleanup" of README.md:54  *)
(* does not exist, for no line of uwp_sink.h looks at a file's age.          *)
OldestGoFirst ==
    \A d \in Dirs : \A f \in disk[d] \ disk'[d] :
        /\ f.name \notin {Dump, sink'.name}
        /\ Cardinality({g \in disk'[d] : g.name # Dump /\ g.no > f.no}) >= MAX_LOG_SESSIONS

FewFiles ==
    \A d \in Dirs : Cardinality({f \in Logs(d) : <<d, f.no>> \notin stuck}) <= MAX_LOG_SESSIONS + 1

Retention == [][OldestGoFirst /\ FewFiles']_files
=============================================================================
