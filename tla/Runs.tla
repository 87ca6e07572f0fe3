-------------------------------- MODULE Runs --------------------------------
(***************************************************************************)
(* Which conversion a command is about, and how its record is kept:        *)
(* resolve_run_name of tools/s60_autoflash.py, and RunState of             *)
(* tools/autoflash/state.py.  The operator gives a run's name, asks for a  *)
(* new one, or just runs the command again; a pointer file remembers the   *)
(* current one.  The process can be killed between any two file            *)
(* operations.  One process runs at a time.                                *)
(***************************************************************************)
EXTENDS Naturals, FiniteSets

CONSTANTS
  Addresses,   \* what --plug-ip can name; a run can be named after it
  Minutes,     \* the other names a new run can get, one per minute
  MaxSuffix,   \* bound: runs after the same address or in the same minute
  Length,      \* steps of the checklist
  MaxStarts,   \* bound: commands that name a run or may start one
  MaxKills     \* bound: processes ended early

ASSUME RunsAssumption ==
  /\ Addresses \cap Minutes = {}
  /\ MaxSuffix \in Nat \ {0} /\ Length \in Nat \ {0}
  /\ MaxStarts \in Nat /\ MaxKills \in Nat

VARIABLES
  saved,   \* the state file of each run: steps recorded done, or absent
  pointer, \* .autoflash-current
  pc,      \* the process: out, its run resolved, working, writing the
           \* temporary file, about to replace the state file by it
  run,     \* the run it is about
  asked,   \* how it was asked for: "new", "named" or "again"
  data,    \* steps recorded done, in its memory
  at,      \* the step its loop is at
  starts, kills

vars == <<saved, pointer, pc, run, asked, data, at, starts, kills>>

(* A name and its suffix; the first of a name has none.                    *)
Names == (Addresses \cup Minutes) \X (1..MaxSuffix)
Nobody == <<"none", 0>>
Steps == 1..Length
Absent == [file |-> FALSE, done |-> {}]

TypeOK ==
  /\ saved \in [Names -> [file : BOOLEAN, done : SUBSET Steps]]
  /\ pointer \in Names \cup {Nobody}
  /\ pc \in {"out", "resolved", "working", "saving", "replacing"}
  /\ run \in Names \cup {Nobody} /\ (pc # "out" => run # Nobody)
  /\ asked \in {"new", "named", "again"}
  /\ data \subseteq Steps /\ at \in 1..(Length + 1)
  /\ starts \in 0..MaxStarts /\ kills \in 0..MaxKills

Init ==
  /\ saved = [n \in Names |-> Absent]
  /\ pointer = Nobody
  /\ pc = "out" /\ run = Nobody /\ asked = "again" /\ data = {} /\ at = 1
  /\ starts = 0 /\ kills = 0

-----------------------------------------------------------------------------
(* resolve_run_name. *)

run_directories == {n \in Names : saved[n].file}
run_is_complete(n) == Length \in saved[n].done
Unfinished == {n \in run_directories : ~run_is_complete(n)}

(* A pointer that cannot be written is done without; a process killed while *)
(* it writes it leaves none.                                               *)
remember_current(name) == pointer' \in {name, pointer}

Resolved(name, how) ==
  /\ pc = "out" /\ pc' = "resolved"
  /\ run' = name /\ asked' = how /\ data' = {} /\ at' = 1
  /\ UNCHANGED <<saved, kills>>

Starting == starts < MaxStarts /\ starts' = starts + 1

RunNamed(name) ==
  /\ Starting
  /\ Resolved(name, "named") /\ remember_current(name)

(* Mutant: only the conversions under way keep their names.                *)
FreeAmongUnfinished(base) ==
  {k \in 1..MaxSuffix : /\ <<base, k>> \notin Unfinished
                        /\ \A j \in 1..(k - 1) : <<base, j>> \in Unfinished}

(* --new: the first suffix no recorded run has.                            *)
Free(base) ==
  {k \in 1..MaxSuffix : /\ <<base, k>> \notin run_directories
                        /\ \A j \in 1..(k - 1) : <<base, j>> \in run_directories}

RunNew(base) ==
  /\ Starting
  /\ \E k \in Free(base) : Resolved(<<base, k>>, "new") /\ remember_current(<<base, k>>)

(* Mutant: the pointer is followed although its conversion is complete.    *)
ContinueAnyway ==
  /\ UNCHANGED starts
  /\ \/ /\ pointer \in run_directories
        /\ Resolved(pointer, "again") /\ UNCHANGED pointer
     \/ /\ pointer \notin run_directories
        /\ \E n \in Unfinished : Resolved(n, "again") /\ remember_current(n)

(* Neither: the conversion the pointer names, the only one under way, or    *)
(* the one chosen from the menu.                                           *)
Continue ==
  /\ UNCHANGED starts
  /\ \/ pointer \in Unfinished /\ Resolved(pointer, "again") /\ UNCHANGED pointer
     \/ /\ pointer \notin Unfinished
        /\ \E n \in Unfinished : Resolved(n, "again") /\ remember_current(n)

(* Nothing is under way, or "Start a new conversion" is chosen from the     *)
(* menu: the plain name, whether or not a run has it already.              *)
Begin(base) ==
  /\ Starting
  /\ pointer \notin Unfinished /\ Cardinality(Unfinished) # 1
  /\ Resolved(<<base, 1>>, "again") /\ remember_current(<<base, 1>>)

-----------------------------------------------------------------------------
(* Context and RunState. *)

(* Mutant: the record is not loaded.                                       *)
OpenEmpty ==
  /\ pc = "resolved"
  /\ data' = {}
  /\ pc' = "working"
  /\ UNCHANGED <<saved, pointer, run, asked, at, starts, kills>>

(* The record is loaded, if there is one; what else the command line gave   *)
(* (the address a new run is named after, say) is saved at once.           *)
Open ==
  /\ pc = "resolved"
  /\ data' = saved[run].done
  /\ pc' \in {"working", "saving"}
  /\ asked = "new" /\ run[1] \in Addresses => pc' = "saving"
  /\ UNCHANGED <<saved, pointer, run, asked, at, starts, kills>>

-----------------------------------------------------------------------------
(* cmd_run: the steps in their order. *)

(* Recorded done, and the plug does not disagree.                          *)
Skip ==
  /\ pc = "working" /\ at \in data
  /\ at' = at + 1
  /\ UNCHANGED <<saved, pointer, pc, run, asked, data, starts, kills>>

(* The plug disagrees with the record of the step, and the operator has it  *)
(* run again: it is marked attempted, or failed.  The last step has no      *)
(* verifier.                                                               *)
TakeBack ==
  /\ pc = "working" /\ at \in data \ {Length}
  /\ data' = data \ {at}
  /\ pc' = "saving"
  /\ UNCHANGED <<saved, pointer, run, asked, at, starts, kills>>

(* A step is marked attempted, or failed.  Only the first of these marks    *)
(* shows here: it creates the state file.                                  *)
MarkUndone ==
  /\ pc = "working" /\ at \in Steps \ data /\ ~saved[run].file
  /\ pc' = "saving"
  /\ UNCHANGED <<saved, pointer, run, asked, data, at, starts, kills>>

(* The step is done, and marked; or the operator says it was.              *)
MarkDone ==
  /\ pc = "working" /\ at \in Steps \ data
  /\ data' = data \cup {at} /\ at' = at + 1
  /\ pc' = "saving"
  /\ UNCHANGED <<saved, pointer, run, asked, starts, kills>>

(* save: a temporary file is written, and replaces the state file.         *)
WriteTemporary ==
  /\ pc = "saving"
  /\ pc' = "replacing"
  /\ UNCHANGED <<saved, pointer, run, asked, data, at, starts, kills>>

Replace ==
  /\ pc = "replacing"
  /\ saved' = [saved EXCEPT ![run] = [file |-> TRUE, done |-> data]]
  /\ pc' = "working"
  /\ UNCHANGED <<pointer, run, asked, data, at, starts, kills>>

(* "Conversion complete."                                                  *)
Complete ==
  /\ pc = "working" /\ at > Length
  /\ pc' = "out" /\ run' = Nobody /\ data' = {} /\ at' = 1
  /\ UNCHANGED <<saved, pointer, asked, starts, kills>>

(* The process is killed, stopped, or gives up at a failed step; early      *)
(* enough, it has not written its pointer to the end.                      *)
Kill ==
  /\ pc # "out" /\ kills < MaxKills /\ kills' = kills + 1
  /\ pc' = "out" /\ run' = Nobody /\ data' = {} /\ at' = 1
  /\ pointer' \in {pointer} \cup (IF pc = "resolved" THEN {Nobody} ELSE {})
  /\ UNCHANGED <<saved, asked, starts>>

-----------------------------------------------------------------------------
Process == Open \/ Skip \/ MarkDone \/ WriteTemporary \/ Replace \/ Complete

Next ==
  \/ \E name \in Names : RunNamed(name)
  \/ \E base \in Addresses \cup Minutes : RunNew(base) \/ Begin(base)
  \/ Continue
  \/ Process
  \/ TakeBack \/ MarkUndone
  \/ Kill

(* The operator runs the command again while a conversion is under way, and *)
(* the process goes on.                                                    *)
Spec == Init /\ [][Next]_vars /\ WF_vars(Continue) /\ WF_vars(Process)

-----------------------------------------------------------------------------
(* Properties. *)

(* "start a fresh run, never resume": a run asked for with --new starts     *)
(* with nothing recorded, whatever finished, interrupted or killed runs     *)
(* are there, and replaces no other run's record.                          *)
NewIsNew ==
  [][asked = "new" /\ pc = "resolved" /\ pc' # "out" => data' = {} /\ ~saved[run].file]_vars

(* The state file is never further from what the process knows than the    *)
(* one mark it is saving, whenever it is killed, restarted, or sent to      *)
(* another run in between: nothing else is ever lost or written over.      *)
AtMostOneLost ==
  /\ pc = "working" => saved[run].done = data
  /\ pc \in {"saving", "replacing"} =>
       Cardinality((saved[run].done \ data) \cup (data \ saved[run].done)) <= 1

(* Running the command again, without naming anything, in the end completes *)
(* every conversion that was begun.                                        *)
Drained == <>[](Unfinished = {})

=============================================================================
