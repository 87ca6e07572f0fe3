------------------------------ MODULE Autoflash ------------------------------
(***************************************************************************)
(* tools/s60_autoflash.py: the host's checklist, and the plug it converts. *)
(* The process can end at any prompt or be killed, the plug keeps running  *)
(* what it was told to run, and the operator starts the same command again. *)
(*                                                                         *)
(* What a step does to the plug is one atomic effect here; Commit and      *)
(* Bridge model two of them operation by operation.  Whatever can go wrong *)
(* is a pair <<kind, step>> of Hazards:                                    *)
(*   decline  the operator refuses or quits at a prompt of the step        *)
(*   fault    the step fails on the plug, part of its effect may remain    *)
(*   lost     the step succeeds on the plug and the host does not learn it *)
(*   stop     Ctrl-C: the process unwinds through its finally clauses      *)
(*   close    the window is closed: the process is gone                    *)
(*   pause    two hours pass, and the evidence gathered is too old         *)
(*   mistake  the operator answers "did it finish?" wrongly                *)
(*   dry      the command was typed with --dry-run                         *)
(***************************************************************************)
EXTENDS Naturals, Sequences

CONSTANTS
  Hazards,      \* what can go wrong: a set of <<kind, step>>
  MaxHazards,   \* bound: how often
  StepCommands, \* the steps the operator also starts with the step command
  MaxCommands   \* bound: how often

STEPS == <<"A5", "A1", "A2", "B2", "C2", "D1", "D4", "E1", "E2", "E3", "F2", "F4",
           "G1", "H1">>
Steps == {STEPS[i] : i \in DOMAIN STEPS}
DestructiveSteps == {"C2", "E2", "E3", "F2", "G1"}
LockedSteps == {"C2", "E3"}      \* those that rename a lock file away
Phases == {"E1", "E2", "E3", "G1"} \* those the migration server judges

ASSUME HazardAssumption ==
  /\ Hazards \subseteq
       {"decline", "fault", "lost", "stop", "close", "pause", "mistake", "dry"} \X Steps
  /\ StepCommands \subseteq Steps
  /\ MaxHazards \in Nat /\ MaxCommands \in Nat

VARIABLES
  record,    \* the saved checklist
  mode,      \* the process: "out" of it, in the "loop" of cmd_run, "in" a
             \* step's prompts and checks, or "wait"ing for the plug
  at,        \* the step it is at
  single,    \* started by the step command
  moved,     \* steps whose lock file is renamed away
  evidence,  \* what the phase servers recorded as PASS, and how old it is
  plug,      \* firmware, partition table, staged copy, factory partition
  task,      \* the step the plug is working on
  listening, \* the server or tool that started the task still serves it
  result,    \* the outcome on its way to that process
  spent, commands

vars == <<record, mode, at, single, moved, evidence, plug, task, listening, result,
          spent, commands>>

Plug == [fw : {"stock", "bridge", "low", "high", "safeboot", "app"},
         table : {"source", "target"},
         staged : BOOLEAN,
         factory : {"none", "recovery", "mixed", "official"}]

TypeOK ==
  /\ record \in [Steps -> {"pending", "attempted", "failed", "done"}]
  /\ mode \in {"out", "loop", "in", "wait"}
  /\ at \in 1..(Len(STEPS) + 1) /\ (mode \in {"in", "wait"} => at \in DOMAIN STEPS)
  /\ single \in BOOLEAN
  /\ moved \subseteq LockedSteps
  /\ evidence \in [Phases -> {"none", "fresh", "stale"}]
  /\ plug \in Plug
  /\ task \in Steps \cup {"none"}
  /\ listening \in BOOLEAN /\ result \in {"none", "pass", "fail"}
  /\ (listening => task # "none") /\ (result # "none" => mode = "wait")
  /\ spent \in 0..MaxHazards /\ commands \in 0..MaxCommands

Init ==
  /\ record = [s \in Steps |-> "pending"]
  /\ mode = "out" /\ at = 1 /\ single = FALSE
  /\ moved = {} /\ evidence = [p \in Phases |-> "none"]
  /\ plug = [fw |-> "stock", table |-> "source", staged |-> FALSE, factory |-> "none"]
  /\ task = "none" /\ listening = FALSE /\ result = "none"
  /\ spent = 0 /\ commands = 0

here == STEPS[at]
Happens(kind, s) == <<kind, s>> \in Hazards /\ spent < MaxHazards /\ spent' = spent + 1

-----------------------------------------------------------------------------
(* What the handlers of the steps do on the plug: what a step demands of it *)
(* before anything is written, the plugs a completed step can leave and     *)
(* the plugs a failed one can, and the evidence a phase server loads first. *)

Handler(demands, leaves, ruins, evidenceOf) ==
  [ready |-> demands, effect |-> leaves, partial |-> ruins, evidence |-> evidenceOf]

ReadOnly(demands) == Handler(demands, {plug}, {plug}, {})

OnTwoSlots == plug.fw = "high" /\ plug.table = "source"
Converted == plug.fw = "app" /\ plug.table = "target"

step_check == ReadOnly(moved = {})
step_pair == ReadOnly(TRUE)
step_discover == ReadOnly(plug.fw = "stock")
step_intercept == ReadOnly(TRUE)
step_bridge == Handler(plug.fw = "stock", {[plug EXCEPT !.fw = "bridge"]}, {plug}, {})
step_berry_tasmota ==
  Handler(plug.fw \in {"bridge", "low", "high"},
          IF plug.fw = "bridge" THEN {[plug EXCEPT !.fw = f] : f \in {"low", "high"}} ELSE {plug},
          {plug}, {})

(* A converted plug has no second slot to be promoted to: the upload is     *)
(* taken to be refused there.                                              *)
step_promote ==
  Handler(plug.fw \in {"low", "high"}, {[plug EXCEPT !.fw = "high"]}, {plug}, {})
step_preflight == ReadOnly(OnTwoSlots)
step_stage ==
  Handler(OnTwoSlots, {[plug EXCEPT !.staged = TRUE]}, {[plug EXCEPT !.staged = FALSE]}, {"E1"})

(* Mutant: a commit that asks for no evidence of the stage.                *)
step_commit_unstaged ==
  Handler(OnTwoSlots /\ plug.staged,
          {[plug EXCEPT !.fw = "safeboot", !.table = "target", !.factory = "recovery"]},
          {plug, [plug EXCEPT !.staged = FALSE]}, {"E1"})

(* A commit that rolls back restores the table, and may have overwritten    *)
(* the staged copy it was copying from.                                    *)
step_commit ==
  Handler(OnTwoSlots /\ plug.staged,
          {[plug EXCEPT !.fw = "safeboot", !.table = "target", !.factory = "recovery"]},
          {plug, [plug EXCEPT !.staged = FALSE]}, {"E1", "E2"})

step_canonical == Handler(plug.fw = "safeboot", {[plug EXCEPT !.fw = "app"]}, {plug}, {})

(* It asks for a Tasmota that answers, whichever that is.                  *)
Tasmota == plug.fw \notin {"stock", "bridge"}
step_configure == ReadOnly(Tasmota)

(* A restore works on the factory partition itself, and just stops.        *)
step_restore ==
  Handler(Converted /\ plug.factory = "recovery", {[plug EXCEPT !.factory = "official"]},
          {[plug EXCEPT !.factory = "mixed"]}, {"E3"})
step_verify == ReadOnly(Converted /\ plug.factory = "official")

STEP_INDEX(s) ==
  CASE s = "A5" -> step_check      [] s = "A1" -> step_pair
    [] s = "A2" -> step_discover   [] s = "B2" -> step_intercept
    [] s = "C2" -> step_bridge     [] s = "D1" -> step_berry_tasmota
    [] s = "D4" -> step_promote    [] s = "E1" -> step_preflight
    [] s = "E2" -> step_stage      [] s = "E3" -> step_commit
    [] s = "F2" -> step_canonical  [] s = "F4" -> step_configure
    [] s = "G1" -> step_restore    [] s = "H1" -> step_verify

(* STEP_VERIFIERS: does the plug contradict the record of a step?  One that *)
(* cannot be asked, because its firmware runs no Berry, does not.          *)
Berry == plug.fw \in {"low", "high", "app"}

verify_high_slot == record["E3"] = "done" \/ plug.fw \notin {"low", "app"}
verify_table == ~Berry \/ plug.table = "target"
verify_app == ~Berry \/ plug.fw = "app"
verify_safeboot == ~Berry \/ plug.factory = "official"

Disagrees(s) ==
  \/ s = "D4" /\ ~verify_high_slot
  \/ s = "E3" /\ ~verify_table
  \/ s = "F2" /\ ~verify_app
  \/ s = "G1" /\ ~verify_safeboot

(* ATTEMPTED_EVIDENCE, which tells whether an interrupted step finished     *)
(* where the plug shows it; elsewhere the operator has to know.            *)
evidence_bridge_installed == plug.fw = "bridge"
evidence_official_app_installed == plug.fw = "app"

Told(s) ==
  \/ s = "C2" /\ evidence_bridge_installed
  \/ s = "F2" /\ evidence_official_app_installed

Finished(s) ==
  \/ s = "C2" /\ plug.fw # "stock"
  \/ s = "E2" /\ plug.staged
  \/ s = "E3" /\ plug.table = "target"
  \/ s = "F2" /\ plug.fw = "app"
  \/ s = "G1" /\ plug.factory = "official"

-----------------------------------------------------------------------------
(* cmd_run and cmd_step. *)

Run ==
  /\ mode = "out" /\ record["H1"] # "done"
  /\ mode' = "loop" /\ at' = 1 /\ single' = FALSE
  /\ UNCHANGED <<record, moved, evidence, plug, task, listening, result, spent, commands>>

(* Mutant: the step starts before it is recorded.                          *)
EnterUnrecorded == mode' = "in" /\ UNCHANGED record

(* The head of execute: a destructive step is recorded before it starts.   *)
Enter ==
  /\ mode' = "in"
  /\ record' = IF STEPS[at'] \in DestructiveSteps
                 THEN [record EXCEPT ![STEPS[at']] = "attempted"] ELSE record

StepCommand ==
  /\ mode = "out" /\ commands < MaxCommands /\ commands' = commands + 1
  /\ at' \in {i \in DOMAIN STEPS : STEPS[i] \in StepCommands}
  /\ single' = TRUE
  /\ Enter
  /\ UNCHANGED <<moved, evidence, plug, task, listening, result, spent>>

(* A completed step is skipped, unless the plug disagrees and the operator  *)
(* chooses to run it again.                                                *)
Skip ==
  /\ mode = "loop" /\ at \in DOMAIN STEPS /\ record[here] = "done"
  /\ \/ at' = at + 1 /\ UNCHANGED <<mode, record>>
     \/ Disagrees(here) /\ at' = at /\ Enter
  /\ UNCHANGED <<single, moved, evidence, plug, task, listening, result, spent, commands>>

(* An interrupted step: the operator says that it finished, has it done     *)
(* again, or stops to look.                                                *)
Ask ==
  /\ mode = "loop" /\ at \in DOMAIN STEPS /\ record[here] = "attempted"
  /\ \/ /\ (Finished(here) /\ UNCHANGED spent) \/ Happens("mistake", here)
        /\ record' = [record EXCEPT ![here] = "done"]
        /\ at' = at + 1 /\ UNCHANGED mode
     \/ /\ \/ ~Told(here) /\ UNCHANGED spent
           \/ Happens("mistake", here)
        /\ at' = at /\ Enter
     \/ Happens("decline", here) /\ mode' = "out" /\ UNCHANGED <<record, at>>
  /\ UNCHANGED <<single, moved, evidence, plug, task, listening, result, commands>>

(* Mutant: a failed step is not taken up again.                            *)
TakeOnce ==
  /\ mode = "loop" /\ at \in DOMAIN STEPS /\ record[here] = "pending"
  /\ at' = at /\ Enter
  /\ UNCHANGED <<single, moved, evidence, plug, task, listening, result, spent, commands>>

Take ==
  /\ mode = "loop" /\ at \in DOMAIN STEPS /\ record[here] \in {"pending", "failed"}
  /\ at' = at /\ Enter
  /\ UNCHANGED <<single, moved, evidence, plug, task, listening, result, spent, commands>>

Complete ==
  /\ mode = "loop" /\ at \notin DOMAIN STEPS
  /\ mode' = "out"
  /\ UNCHANGED <<record, at, single, moved, evidence, plug, task, listening, result,
                 spent, commands>>

-----------------------------------------------------------------------------
(* Inside a step's handler. *)

(* The plug works for the process that waits.                              *)
Mine == mode = "wait" /\ listening /\ task = here

(* The process ends and takes the server it started with it.               *)
End == mode' = "out" /\ listening' = (listening /\ ~Mine) /\ result' = "none"

(* Mutant: the exit code of the step is not looked at.                     *)
CaughtAsDone == record' = [record EXCEPT ![here] = "done"]

(* The exceptions execute catches record FAILED; any other (QuitRun, a      *)
(* PhaseError, an OSError) ends the process with the record as it is.      *)
Caught == record' = [record EXCEPT ![here] = "failed"]
Uncaught == UNCHANGED record

Decline ==
  /\ mode = "in" /\ Happens("decline", here)
  /\ End /\ (Caught \/ Uncaught)
  /\ UNCHANGED <<at, single, moved, evidence, plug, task, commands>>

(* The lock file that should be renamed is not there, or the phase server   *)
(* refuses the evidence and prints no URL: neither exception is caught.    *)
Denied ==
  \/ here \in LockedSteps \cap moved
  \/ \E p \in STEP_INDEX(here).evidence : evidence[p] # "fresh"

(* An earlier server has the port.  This one finds out only after it has    *)
(* printed its URL, and its exit code is an Abort.                         *)
PortTaken == here \in Phases /\ listening

Blocked == Denied \/ PortTaken

Refuse ==
  /\ mode = "in" /\ Blocked
  /\ End
  /\ IF Denied THEN Uncaught ELSE Caught
  /\ UNCHANGED <<at, single, moved, evidence, plug, task, spent, commands>>

(* Rename the lock and have the plug start; a plug that is still busy, or   *)
(* is not what the step demands, does not.                                 *)
Begin ==
  /\ mode = "in" /\ ~Blocked
  /\ mode' = "wait"
  /\ moved' = moved \cup ({here} \cap LockedSteps)
  /\ IF task = "none" /\ STEP_INDEX(here).ready THEN task' = here /\ listening' = TRUE
                                     ELSE UNCHANGED <<task, listening>>
  /\ UNCHANGED <<record, at, single, evidence, plug, result, spent, commands>>

(* The plug completes its work, with or without the host.  Only the server  *)
(* whose session the program carries accepts its report, and then writes    *)
(* the evidence of a phase; the process it belongs to sees it exit.        *)
DeviceDone ==
  /\ task # "none"
  /\ plug' \in STEP_INDEX(task).effect /\ task' = "none" /\ listening' = FALSE
  /\ \/ /\ evidence' = (IF listening /\ task \in Phases
                          THEN [evidence EXCEPT ![task] = "fresh"] ELSE evidence)
        /\ result' = (IF Mine THEN "pass" ELSE result)
        /\ UNCHANGED spent
     \/ listening /\ Happens("lost", task) /\ UNCHANGED <<evidence, result>>
  /\ UNCHANGED <<record, mode, at, single, moved, commands>>

(* Mutant: a report is evidence whatever its status.                       *)
DeviceFailsAsPass ==
  /\ task # "none"
  /\ \/ Happens("fault", task)
     \/ ~listening /\ task # "E3" /\ UNCHANGED spent
  /\ plug' \in STEP_INDEX(task).partial /\ task' = "none" /\ listening' = FALSE
  /\ evidence' = IF listening /\ task \in {"E3", "G1"}
                   THEN [evidence EXCEPT ![task] = "fresh"] ELSE evidence
  /\ result' = IF listening /\ Mine THEN "fail" ELSE result
  /\ UNCHANGED <<record, mode, at, single, moved, commands>>

(* It fails; without the host that feeds it, every program but the commit   *)
(* can, without any further fault.  Commit and restore report a failure,    *)
(* which replaces their evidence.                                          *)
DeviceFails ==
  /\ task # "none"
  /\ \/ Happens("fault", task)
     \/ ~listening /\ task # "E3" /\ UNCHANGED spent
  /\ plug' \in STEP_INDEX(task).partial /\ task' = "none" /\ listening' = FALSE
  /\ \/ /\ listening /\ task \in {"E3", "G1"}
        /\ evidence' = [evidence EXCEPT ![task] = "none"]
        /\ result' = (IF Mine THEN "fail" ELSE result)
     \/ UNCHANGED <<evidence, result>>
  /\ UNCHANGED <<record, mode, at, single, moved, commands>>

(* The step is done, and on to the next one.                               *)
Passed ==
  /\ mode = "wait" /\ result = "pass"
  /\ moved' = moved \ {here}
  /\ record' = [record EXCEPT ![here] = "done"]
  /\ at' = at + 1 /\ mode' = (IF single THEN "out" ELSE "loop") /\ result' = "none"
  /\ UNCHANGED <<single, evidence, plug, task, listening, spent, commands>>

(* With --dry-run, D4 and F2 wait for the plug and upload nothing to it, and *)
(* are recorded done all the same.                                         *)
Rehearse ==
  /\ mode = "in" /\ Happens("dry", here)
  /\ (here = "D4" /\ Tasmota) \/ (here = "F2" /\ plug.fw = "safeboot")
  /\ record' = [record EXCEPT ![here] = "done"]
  /\ at' = at + 1 /\ mode' = (IF single THEN "out" ELSE "loop")
  /\ UNCHANGED <<single, moved, evidence, plug, task, listening, result, commands>>

(* Mutant: the lock is put back only when the step passes.                 *)
FailedUnlocked ==
  /\ mode = "wait" /\ result # "pass" /\ ~Mine
  /\ End
  /\ Caught \/ (result = "none" /\ Uncaught)
  /\ UNCHANGED <<at, single, moved, evidence, plug, task, spent, commands>>

(* A failure is reported; or nothing was started, or nothing was heard, and *)
(* the wait runs out.                                                      *)
Failed ==
  /\ mode = "wait" /\ result # "pass" /\ ~Mine
  /\ moved' = moved \ {here}
  /\ End
  /\ Caught \/ (result = "none" /\ Uncaught)
  /\ UNCHANGED <<at, single, evidence, plug, task, spent, commands>>

(* The process gives up while the plug works on: the wait has run out, or   *)
(* the connection broke in a way nothing catches, which leaves the phase    *)
(* server running on its own.                                              *)
LoseContact ==
  /\ Mine /\ Happens("lost", here)
  /\ moved' = moved \ {here}
  /\ mode' = "out" /\ UNCHANGED result
  /\ \/ listening' = FALSE /\ (Caught \/ Uncaught)
     \/ here \in Phases /\ UNCHANGED listening /\ Uncaught
  /\ UNCHANGED <<at, single, evidence, plug, task, commands>>

Stop ==
  /\ mode \in {"in", "wait"} /\ Happens("stop", here)
  /\ moved' = (IF mode = "wait" THEN moved \ {here} ELSE moved)
  /\ End /\ Uncaught
  /\ UNCHANGED <<at, single, evidence, plug, task, commands>>

Close ==
  /\ mode \in {"in", "wait"} /\ Happens("close", here)
  /\ moved' \in {moved, moved \cup ({here} \cap LockedSteps)}
  /\ End /\ Uncaught
  /\ UNCHANGED <<at, single, evidence, plug, task, commands>>

(* Two hours pass between two processes or at a prompt.                    *)
Pause ==
  /\ mode = "out" \/ (mode = "in" /\ here \notin Phases)
  /\ at \in DOMAIN STEPS /\ Happens("pause", here)
  /\ evidence' = [p \in Phases |-> IF evidence[p] = "fresh" THEN "stale" ELSE evidence[p]]
  /\ UNCHANGED <<record, mode, at, single, moved, plug, task, listening, result, commands>>

-----------------------------------------------------------------------------
Progress == Run \/ Skip \/ Ask \/ Take \/ Complete \/ Refuse \/ Begin \/ Passed
              \/ Failed

Next ==
  \/ Progress \/ StepCommand
  \/ DeviceDone \/ DeviceFails
  \/ Decline \/ LoseContact \/ Stop \/ Close \/ Pause \/ Rehearse

(* The operator runs the same command again until the conversion is        *)
(* complete, every wait ends, and the plug finishes what it works on.      *)
Spec == Init /\ [][Next]_vars /\ WF_vars(Progress) /\ WF_vars(DeviceDone \/ DeviceFails)

-----------------------------------------------------------------------------
(* Properties. *)

(* The record runs ahead of the plug: whatever was interrupted, a plug that *)
(* a destructive step has touched is never recorded as untouched, so a     *)
(* resumed run asks instead of assuming.                                   *)
WriteAhead ==
  /\ \A s \in DestructiveSteps : Finished(s) \/ task = s => record[s] # "pending"
  /\ plug.factory = "mixed" => record["G1"] # "pending"

(* "Conversion complete" is the truth, whatever was interrupted, lost,      *)
(* repeated or wrongly answered on the way, and it stays the truth.        *)
VerifiedTruth ==
  record["H1"] = "done" =>
    plug.fw = "app" /\ plug.table = "target" /\ plug.factory = "official"

(* Evidence of a commit is evidence: the report of another program, or of   *)
(* an earlier attempt, is never taken for it.                              *)
CommitEvidenceTruth ==
  evidence["E3"] # "none" => plug.table = "target" /\ plug.factory # "none"

(* The partition table is only rewritten from a staged copy the host has    *)
(* read back, after a preflight passed, and with the attempt on record.     *)
CommitGuarded ==
  [][plug'.table # plug.table =>
       /\ plug.staged /\ evidence["E1"] # "none" /\ evidence["E2"] # "none"
       /\ record["E3"] # "pending"]_vars

(* A safety lock is away only while the step it guards is under way, as     *)
(* long as nobody closes the window on it.                                 *)
LocksHome == moved \subseteq (IF mode = "wait" THEN {here} ELSE {})

(* "Run the same command again" suffices: the conversion completes.        *)
Completes == <>(record["H1"] = "done")

=============================================================================
