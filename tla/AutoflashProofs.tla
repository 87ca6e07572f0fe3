--------------------------- MODULE AutoflashProofs ---------------------------
(***************************************************************************)
(* The checklist's safety, whatever can go wrong at whatever step, however *)
(* often, and whichever steps the operator starts by themselves.           *)
(***************************************************************************)
EXTENDS Autoflash, TLAPS

Verified == plug.fw = "app" /\ plug.table = "target" /\ plug.factory = "official"

(* What a task demanded of the plug is still so while the plug is at it.   *)
ReadyInv ==
  /\ task = "C2" => plug.fw = "stock"
  /\ task = "D1" => plug.fw \in {"bridge", "low", "high"}
  /\ task = "D4" => plug.fw \in {"low", "high"}
  /\ task \in {"E2", "E3"} => plug.fw = "high" /\ plug.table = "source"
  /\ task = "E3" => plug.staged /\ evidence["E1"] # "none" /\ evidence["E2"] # "none"
  /\ task = "F2" => plug.fw = "safeboot"
  /\ task = "G1" => plug.fw = "app" /\ plug.table = "target" /\ plug.factory = "recovery"
  /\ task = "H1" => Verified

(* A destructive step that is under way is on record; a success is acted on *)
(* before the plug gets another task; only destructive steps are asked     *)
(* about.                                                                  *)
ControlInv ==
  /\ mode \in {"in", "wait"} /\ here \in DestructiveSteps => record[here] # "pending"
  /\ result # "none" => task = "none"
  /\ result = "pass" /\ here = "H1" => Verified
  /\ \A s \in Steps : record[s] = "attempted" => s \in DestructiveSteps

IInv ==
  TypeOK /\ ReadyInv /\ ControlInv /\ WriteAhead /\ VerifiedTruth /\ CommitEvidenceTruth

-----------------------------------------------------------------------------
LEMMA StepsAre ==
  /\ DOMAIN STEPS = 1..14 /\ Len(STEPS) = 14
  /\ Steps = {"A5", "A1", "A2", "B2", "C2", "D1", "D4", "E1", "E2", "E3", "F2", "F4",
              "G1", "H1"}
<1>1. DOMAIN STEPS = 1..14 /\ Len(STEPS) = 14
  BY DEF STEPS
<1>2. \A i \in 1..14 : STEPS[i] \in {"A5", "A1", "A2", "B2", "C2", "D1", "D4", "E1", "E2",
                                     "E3", "F2", "F4", "G1", "H1"}
  BY DEF STEPS
<1>3. /\ STEPS[1] = "A5" /\ STEPS[2] = "A1" /\ STEPS[3] = "A2" /\ STEPS[4] = "B2"
      /\ STEPS[5] = "C2" /\ STEPS[6] = "D1" /\ STEPS[7] = "D4" /\ STEPS[8] = "E1"
      /\ STEPS[9] = "E2" /\ STEPS[10] = "E3" /\ STEPS[11] = "F2" /\ STEPS[12] = "F4"
      /\ STEPS[13] = "G1" /\ STEPS[14] = "H1"
  BY DEF STEPS
<1> QED
  BY <1>1, <1>2, <1>3 DEF Steps

LEMMA Kinds ==
  /\ DestructiveSteps \subseteq Steps /\ LockedSteps \subseteq Steps /\ Phases \subseteq Steps
  /\ "H1" \notin DestructiveSteps /\ "H1" \in Steps
  /\ {"E1", "E2", "E3", "G1"} = Phases
BY StepsAre DEF DestructiveSteps, LockedSteps, Phases

LEMMA Here == ASSUME TypeOK, at \in DOMAIN STEPS PROVE here \in Steps
BY DEF here, Steps

(* What a completed task makes of the plug.                                *)
Left(p) ==
  \/ task \notin {"E3", "F2", "G1"} /\ p = plug
  \/ task = "C2" /\ p = [plug EXCEPT !.fw = "bridge"]
  \/ task = "D1" /\ \E f \in {"low", "high"} : p = [plug EXCEPT !.fw = f]
  \/ task = "D4" /\ p = [plug EXCEPT !.fw = "high"]
  \/ task = "E2" /\ p = [plug EXCEPT !.staged = TRUE]
  \/ task = "E3" /\ p = [plug EXCEPT !.fw = "safeboot", !.table = "target", !.factory = "recovery"]
  \/ task = "F2" /\ p = [plug EXCEPT !.fw = "app"]
  \/ task = "G1" /\ p = [plug EXCEPT !.factory = "official"]

(* And what is left of it when the task fails.                             *)
Ruined(p) ==
  \/ p = plug
  \/ task \in {"E2", "E3"} /\ p = [plug EXCEPT !.staged = FALSE]
  \/ task = "G1" /\ p = [plug EXCEPT !.factory = "mixed"]

LEMMA Effects ==
  ASSUME task \in Steps, NEW p
  PROVE  /\ p \in STEP_INDEX(task).effect => Left(p)
         /\ p \in STEP_INDEX(task).partial => Ruined(p)
<1> USE DEF STEP_INDEX, Handler, ReadOnly, Left, Ruined
<1>1. CASE task \in {"A5", "A1", "A2", "B2"}
  BY <1>1 DEF step_check, step_pair, step_discover, step_intercept
<1>2. CASE task = "C2"
  BY <1>2 DEF step_bridge
<1>3. CASE task = "D1"
  BY <1>3 DEF step_berry_tasmota
<1>4. CASE task = "D4"
  BY <1>4 DEF step_promote
<1>5. CASE task \in {"E1", "F4", "H1"}
  BY <1>5 DEF step_preflight, step_configure, step_verify
<1>6. CASE task = "E2"
  BY <1>6 DEF step_stage
<1>7. CASE task = "E3"
  BY <1>7 DEF step_commit
<1>8. CASE task = "F2"
  BY <1>8 DEF step_canonical
<1>9. CASE task = "G1"
  BY <1>9 DEF step_restore
<1> QED
  BY StepsAre, <1>1, <1>2, <1>3, <1>4, <1>5, <1>6, <1>7, <1>8, <1>9

(* What a step demands before it starts.                                   *)
LEMMA Demands ==
  ASSUME NEW s \in Steps, STEP_INDEX(s).ready
  PROVE  /\ s = "C2" => plug.fw = "stock"
         /\ s = "D1" => plug.fw \in {"bridge", "low", "high"}
         /\ s = "D4" => plug.fw \in {"low", "high"}
         /\ s \in {"E2", "E3"} => plug.fw = "high" /\ plug.table = "source"
         /\ s = "E3" => plug.staged
         /\ s = "F2" => plug.fw = "safeboot"
         /\ s = "G1" => plug.fw = "app" /\ plug.table = "target" /\ plug.factory = "recovery"
         /\ s = "H1" => Verified
<1> USE DEF STEP_INDEX, Handler, ReadOnly, Verified, OnTwoSlots, Converted
<1>1. s = "C2" => plug.fw = "stock"
  BY DEF step_bridge
<1>2. s = "D1" => plug.fw \in {"bridge", "low", "high"}
  BY DEF step_berry_tasmota
<1>3. s = "D4" => plug.fw \in {"low", "high"}
  BY DEF step_promote
<1>4. s = "E2" => plug.fw = "high" /\ plug.table = "source"
  BY DEF step_stage
<1>5. s = "E3" => plug.fw = "high" /\ plug.table = "source" /\ plug.staged
  BY DEF step_commit
<1>6. s = "F2" => plug.fw = "safeboot"
  BY DEF step_canonical
<1>7. s = "G1" => plug.fw = "app" /\ plug.table = "target" /\ plug.factory = "recovery"
  BY DEF step_restore
<1>8. s = "H1" => Verified
  BY DEF step_verify
<1> QED
  BY <1>1, <1>2, <1>3, <1>4, <1>5, <1>6, <1>7, <1>8

-----------------------------------------------------------------------------
LEMMA InitIInv == Init => IInv
<1> SUFFICES ASSUME Init PROVE IInv
  OBVIOUS
<1>1. 1 \in 1..(Len(STEPS) + 1) /\ 0 \in 0..MaxHazards /\ 0 \in 0..MaxCommands
  BY StepsAre, HazardAssumption
<1>2. TypeOK
  BY <1>1 DEF Init, TypeOK, Plug
<1>3. ReadyInv /\ ControlInv
  BY DEF Init, ReadyInv, ControlInv
<1>4. WriteAhead
  BY Kinds DEF Init, WriteAhead, Finished, DestructiveSteps
<1> QED
  BY <1>2, <1>3, <1>4, Kinds DEF Init, IInv, VerifiedTruth, CommitEvidenceTruth, Phases

(* What the host may write to its record.                                  *)
RecordMoves ==
  /\ record' \in [Steps -> {"pending", "attempted", "failed", "done"}]
  /\ \A s \in Steps :
       \/ record'[s] = record[s]
       \/ record'[s] = "attempted" /\ s \in DestructiveSteps
       \/ record'[s] = "failed"
       \/ record'[s] = "done" /\ (s = "H1" => Verified)

(* A step of the host that leaves the plug and its task alone.             *)
LEMMA HostStep ==
  ASSUME IInv, RecordMoves, UNCHANGED <<plug, task>>,
         \A p \in Phases : evidence'[p] = "none" <=> evidence[p] = "none"
  PROVE  /\ ReadyInv' /\ WriteAhead' /\ VerifiedTruth' /\ CommitEvidenceTruth'
         /\ \A s \in Steps : record'[s] = "attempted" => s \in DestructiveSteps
         /\ \A s \in Steps : record[s] # "pending" => record'[s] # "pending"
<1>1. ReadyInv'
  BY DEF IInv, ReadyInv, Verified, Phases
<1>2. \A s \in Steps : record[s] # "pending" => record'[s] # "pending"
  BY DEF RecordMoves
<1>3. \A s \in Steps : record'[s] = "attempted" => s \in DestructiveSteps
  BY DEF RecordMoves, IInv, ControlInv
<1>4. WriteAhead'
  <2>1. \A s : Finished(s)' <=> Finished(s)
    BY DEF Finished
  <2> QED
    BY <1>2, <2>1, Kinds DEF IInv, WriteAhead, DestructiveSteps
<1>5. VerifiedTruth' /\ CommitEvidenceTruth'
  BY Kinds DEF IInv, RecordMoves, VerifiedTruth, CommitEvidenceTruth, Verified, Phases
<1> QED
  BY <1>1, <1>2, <1>3, <1>4, <1>5

LEMMA HappensOnce ==
  ASSUME TypeOK, NEW kind, NEW s, Happens(kind, s) PROVE spent' \in 0..MaxHazards
BY HazardAssumption DEF TypeOK, Happens

(* execute's head records a destructive step.                              *)
LEMMA Entered ==
  ASSUME IInv, at' \in DOMAIN STEPS, Enter
  PROVE  RecordMoves /\ (STEPS[at'] \in DestructiveSteps => record'[STEPS[at']] # "pending")
<1>1. STEPS[at'] \in Steps
  BY DEF Steps
<1> QED
  BY <1>1 DEF IInv, TypeOK, Enter, RecordMoves

-----------------------------------------------------------------------------
(* Between the steps: cmd_run's loop. *)
LEMMA LoopStep == IInv /\ (Run \/ Complete) => IInv'
<1> SUFFICES ASSUME IInv, Run \/ Complete PROVE IInv'
  OBVIOUS
<1>1. UNCHANGED <<record, moved, evidence, plug, task, listening, result, spent, commands>>
      /\ mode' \in {"out", "loop"} /\ mode # "wait" /\ single' \in BOOLEAN
      /\ at' \in 1..(Len(STEPS) + 1)
  <2>1. 1 \in 1..(Len(STEPS) + 1)
    BY StepsAre
  <2> QED
    BY <2>1 DEF Run, Complete, IInv, TypeOK
<1>2. RecordMoves
  BY <1>1 DEF IInv, TypeOK, RecordMoves
<1>3. TypeOK'
  <2>1. result = "none"
    BY <1>1 DEF IInv, TypeOK
  <2>2. at' \in 1..(Len(STEPS) + 1) /\ mode' \notin {"in", "wait"}
    BY <1>1
  <2> QED
    BY <1>1, <2>1, <2>2 DEF IInv, TypeOK
<1>4. ControlInv'
  BY <1>1, <1>2, HostStep DEF IInv, TypeOK, ControlInv
<1> QED
  BY <1>1, <1>2, <1>3, <1>4, HostStep DEF IInv

(* Starting a step, for the first time or again. *)
LEMMA EnterStep ==
  ASSUME IInv, Enter, at' \in DOMAIN STEPS, mode \in {"out", "loop"}, single' \in BOOLEAN,
         spent' \in 0..MaxHazards, commands' \in 0..MaxCommands,
         UNCHANGED <<moved, evidence, plug, task, listening, result>>
  PROVE  IInv'
<1>1. RecordMoves /\ (STEPS[at'] \in DestructiveSteps => record'[STEPS[at']] # "pending")
      /\ mode' = "in"
  BY Entered DEF Enter
<1>2. TypeOK'
  BY <1>1, StepsAre DEF IInv, TypeOK, RecordMoves
<1>3. ControlInv'
  BY <1>1, HostStep DEF IInv, TypeOK, ControlInv, here
<1> QED
  BY <1>1, <1>2, <1>3, HostStep DEF IInv

LEMMA TakeStep == IInv /\ (StepCommand \/ Skip \/ Take) => IInv'
<1> SUFFICES ASSUME IInv, StepCommand \/ Skip \/ Take PROVE IInv'
  OBVIOUS
<1>1. CASE StepCommand
  <2>1. commands' \in 0..MaxCommands /\ spent' \in 0..MaxHazards /\ at' \in DOMAIN STEPS
    BY <1>1, HazardAssumption DEF StepCommand, IInv, TypeOK
  <2> QED
    BY <1>1, <2>1, EnterStep DEF StepCommand
<1>2. CASE Take
  BY <1>2, EnterStep DEF Take, IInv, TypeOK
<1>3. CASE Skip
  <2>1. CASE at' = at + 1 /\ UNCHANGED <<mode, record>>
    <3>1. RecordMoves /\ UNCHANGED <<plug, task, evidence, result>> /\ mode' = "loop"
      BY <1>3, <2>1 DEF Skip, IInv, TypeOK, RecordMoves
    <3>2. at' \in 1..(Len(STEPS) + 1)
      BY <1>3, <2>1, StepsAre DEF Skip
    <3>3. TypeOK'
      BY <1>3, <2>1, <3>1, <3>2 DEF Skip, IInv, TypeOK
    <3>4. ControlInv'
      BY <3>1, HostStep, <1>3 DEF IInv, TypeOK, ControlInv, Skip
    <3> QED
      BY <3>1, <3>3, <3>4, HostStep DEF IInv
  <2>2. CASE at' = at /\ Enter
    BY <1>3, <2>2, EnterStep DEF Skip, IInv, TypeOK
  <2> QED
    BY <1>3, <2>1, <2>2 DEF Skip
<1> QED
  BY <1>1, <1>2, <1>3

LEMMA AskStep == IInv /\ Ask => IInv'
<1> SUFFICES ASSUME IInv, Ask PROVE IInv'
  OBVIOUS
<1>1. UNCHANGED <<single, moved, evidence, plug, task, listening, result, commands>>
      /\ mode = "loop" /\ at \in DOMAIN STEPS /\ record[here] = "attempted" /\ here \in Steps
      /\ result = "none"
  BY Here DEF Ask, IInv, TypeOK
<1>2. spent' \in 0..MaxHazards
  BY HappensOnce DEF Ask, IInv, TypeOK
<1>3. CASE record' = [record EXCEPT ![here] = "done"] /\ at' = at + 1 /\ UNCHANGED mode
  <2>1. here # "H1"
    BY <1>1, Kinds DEF IInv, ControlInv
  <2>2. RecordMoves
    BY <1>1, <1>3, <2>1 DEF IInv, TypeOK, RecordMoves
  <2>3. at' \in 1..(Len(STEPS) + 1)
    BY <1>1, <1>3, StepsAre
  <2>4. TypeOK'
    BY <1>1, <1>2, <1>3, <2>2, <2>3 DEF IInv, TypeOK, RecordMoves
  <2>5. ControlInv'
    BY <1>1, <1>3, <2>2, HostStep DEF ControlInv
  <2> QED
    BY <1>1, <2>2, <2>4, <2>5, HostStep DEF IInv
<1>4. CASE at' = at /\ Enter
  BY <1>1, <1>2, <1>4, EnterStep DEF IInv, TypeOK
<1>5. CASE mode' = "out" /\ UNCHANGED <<record, at>>
  <2>1. RecordMoves
    BY <1>5 DEF IInv, TypeOK, RecordMoves
  <2>2. TypeOK'
    BY <1>1, <1>2, <1>5 DEF IInv, TypeOK
  <2>3. ControlInv'
    BY <1>1, <1>5, <2>1, HostStep DEF ControlInv
  <2> QED
    BY <1>1, <2>1, <2>2, <2>3, HostStep DEF IInv
<1> QED
  BY <1>3, <1>4, <1>5 DEF Ask

-----------------------------------------------------------------------------
(* Every way out of a step: the process ends, or goes on to the next one.  *)
LEMMA LeaveStep ==
  ASSUME IInv, RecordMoves, UNCHANGED <<plug, task, evidence, single, commands>>,
         mode' \in {"out", "loop"}, result' = "none", at' \in 1..(Len(STEPS) + 1),
         moved' \subseteq LockedSteps, listening' \in BOOLEAN, listening' => listening,
         spent' \in 0..MaxHazards
  PROVE  IInv'
<1>1. TypeOK'
  BY DEF IInv, TypeOK, RecordMoves
<1>2. ControlInv'
  BY HostStep DEF ControlInv
<1> QED
  BY <1>1, <1>2, HostStep DEF IInv

LEMMA CaughtMoves ==
  ASSUME IInv, here \in Steps, Caught \/ Uncaught PROVE RecordMoves
BY DEF IInv, TypeOK, Caught, Uncaught, RecordMoves

LEMMA GiveUpStep ==
  IInv /\ (Decline \/ Refuse \/ Failed \/ LoseContact \/ Stop \/ Close) => IInv'
<1> SUFFICES ASSUME IInv, Decline \/ Refuse \/ Failed \/ LoseContact \/ Stop \/ Close
             PROVE  IInv'
  OBVIOUS
<1>1. mode \in {"in", "wait"} /\ at \in DOMAIN STEPS /\ here \in Steps
  <2>1. mode \in {"in", "wait"}
    BY DEF Decline, Refuse, Failed, LoseContact, Mine, Stop, Close
  <2> QED
    BY <2>1, Here DEF IInv, TypeOK
<1>2. RecordMoves
  BY <1>1, CaughtMoves DEF Decline, Refuse, Failed, LoseContact, Stop, Close, Uncaught
<1>3. UNCHANGED <<plug, task, evidence, single, commands, at>> /\ mode' = "out"
  BY DEF Decline, Refuse, Failed, LoseContact, Stop, Close, End
<1>4. moved' \subseteq LockedSteps
  BY DEF Decline, Refuse, Failed, LoseContact, Stop, Close, IInv, TypeOK
<1>5. spent' \in 0..MaxHazards
  BY HappensOnce DEF Decline, Refuse, Failed, LoseContact, Stop, Close, IInv, TypeOK
<1>6. listening' \in BOOLEAN /\ (listening' => listening)
  <2>1. listening' \in {listening, listening /\ ~Mine, FALSE}
    BY DEF Decline, Refuse, Failed, LoseContact, Stop, Close, End
  <2> QED
    BY <2>1 DEF IInv, TypeOK
<1>7. result' = "none"
  <2>1. CASE LoseContact
    <3>1. task \in Steps
      BY <1>1, <2>1 DEF LoseContact, Mine
    <3>2. result = "none"
      BY <3>1, StepsAre DEF IInv, ControlInv
    <3> QED
      BY <2>1, <3>2 DEF LoseContact
  <2> QED
    BY <2>1 DEF Decline, Refuse, Failed, Stop, Close, End
<1> QED
  BY <1>1, <1>2, <1>3, <1>4, <1>5, <1>6, <1>7, LeaveStep, StepsAre

LEMMA RehearseStep == IInv /\ Rehearse => IInv'
<1> SUFFICES ASSUME IInv, Rehearse PROVE IInv'
  OBVIOUS
<1>1. mode = "in" /\ at \in DOMAIN STEPS /\ here \in Steps /\ here # "H1" /\ result = "none"
  BY Here DEF Rehearse, IInv, TypeOK
<1>2. RecordMoves
  BY <1>1 DEF Rehearse, IInv, TypeOK, RecordMoves
<1>3. at' \in 1..(Len(STEPS) + 1) /\ moved' \subseteq LockedSteps /\ spent' \in 0..MaxHazards
  BY <1>1, StepsAre, HappensOnce DEF Rehearse, IInv, TypeOK
<1>4. UNCHANGED <<single, evidence, plug, task, listening, commands>>
      /\ mode' \in {"out", "loop"} /\ result' = "none"
  BY <1>1 DEF Rehearse
<1> QED
  BY <1>2, <1>3, <1>4, LeaveStep DEF IInv, TypeOK

LEMMA PassedStep == IInv /\ Passed => IInv'
<1> SUFFICES ASSUME IInv, Passed PROVE IInv'
  OBVIOUS
<1>1. mode = "wait" /\ at \in DOMAIN STEPS /\ here \in Steps /\ (here = "H1" => Verified)
  BY Here DEF Passed, IInv, TypeOK, ControlInv
<1>2. RecordMoves
  BY <1>1 DEF Passed, IInv, TypeOK, RecordMoves
<1>3. at' \in 1..(Len(STEPS) + 1) /\ moved' \subseteq LockedSteps
  BY <1>1, StepsAre DEF Passed, IInv, TypeOK
<1>4. UNCHANGED <<single, evidence, plug, task, listening, spent, commands>>
      /\ mode' \in {"out", "loop"} /\ result' = "none"
  BY DEF Passed
<1> QED
  BY <1>2, <1>3, <1>4, LeaveStep DEF IInv, TypeOK

(* The plug is given a task only if it is what the step demands.           *)
LEMMA BeginStep == IInv /\ Begin => IInv'
<1> SUFFICES ASSUME IInv, Begin PROVE IInv'
  OBVIOUS
<1>1. /\ mode = "in" /\ mode' = "wait" /\ ~Blocked /\ at \in DOMAIN STEPS /\ here \in Steps
      /\ UNCHANGED <<record, at, single, evidence, plug, result, spent, commands>>
      /\ result = "none" /\ moved' \subseteq LockedSteps
  BY Here DEF Begin, IInv, TypeOK
<1>2. \/ UNCHANGED <<task, listening>>
      \/ STEP_INDEX(here).ready /\ task' = here /\ listening' = TRUE
  BY DEF Begin
<1>3. TypeOK'
  <2>0. "none" \notin Steps
    BY StepsAre
  <2>1. CASE UNCHANGED <<task, listening>>
    BY <1>1, <2>1 DEF IInv, TypeOK
  <2>2. CASE task' = here /\ listening' = TRUE
    <3>1. task' \in Steps \cup {"none"} /\ task' # "none"
      BY <1>1, <2>0, <2>2
    <3> QED
      BY <1>1, <2>2, <3>1 DEF IInv, TypeOK
  <2> QED
    BY <1>2, <2>1, <2>2
<1>4. here' = here
  BY <1>1 DEF here
<1>5. ControlInv'
  BY <1>1, <1>4 DEF IInv, ControlInv
<1>6. ReadyInv'
  <2>1. CASE UNCHANGED task
    BY <1>1, <2>1 DEF IInv, ReadyInv, Verified
  <2>2. CASE STEP_INDEX(here).ready /\ task' = here
    <3>1. here = "E3" => evidence["E1"] # "none" /\ evidence["E2"] # "none"
      <4>1. ASSUME here = "E3" PROVE STEP_INDEX(here).evidence = {"E1", "E2"}
        BY <4>1 DEF STEP_INDEX, step_commit, Handler
      <4>2. \A p \in STEP_INDEX(here).evidence : evidence[p] = "fresh"
        BY <1>1 DEF Blocked, Denied
      <4> QED
        BY <4>1, <4>2
    <3> QED
      BY <1>1, <2>2, <3>1, Demands DEF ReadyInv, Verified
  <2> QED
    BY <1>2, <2>1, <2>2
<1>7. WriteAhead'
  <2>1. \A s : Finished(s)' <=> Finished(s)
    BY <1>1 DEF Finished
  <2> QED
    BY <1>1, <1>2, <2>1 DEF IInv, WriteAhead, ControlInv
<1>8. VerifiedTruth' /\ CommitEvidenceTruth'
  BY <1>1 DEF IInv, VerifiedTruth, CommitEvidenceTruth
<1> QED
  BY <1>3, <1>5, <1>6, <1>7, <1>8 DEF IInv

(* Evidence grows old. *)
LEMMA PauseStep == IInv /\ Pause => IInv'
<1> SUFFICES ASSUME IInv, Pause PROVE IInv'
  OBVIOUS
<1>1. UNCHANGED <<record, mode, at, single, moved, plug, task, listening, result, commands>>
      /\ spent' \in 0..MaxHazards
  BY HappensOnce DEF Pause, IInv, TypeOK
<1>2. /\ evidence' \in [Phases -> {"none", "fresh", "stale"}]
      /\ \A p \in Phases : evidence'[p] = "none" <=> evidence[p] = "none"
  BY DEF Pause, IInv, TypeOK
<1>3. RecordMoves
  BY <1>1 DEF IInv, TypeOK, RecordMoves
<1>4. TypeOK'
  BY <1>1, <1>2 DEF IInv, TypeOK
<1>5. ControlInv'
  BY <1>1 DEF IInv, ControlInv, here, Verified
<1> QED
  BY <1>1, <1>2, <1>3, <1>4, <1>5, HostStep DEF IInv

-----------------------------------------------------------------------------
(* The plug ends its task: what it makes of itself was asked for, and is on *)
(* record.                                                                 *)
LEMMA PlugStep ==
  ASSUME IInv, task \in Steps, plug' \in Plug, Left(plug') \/ Ruined(plug'), task' = "none",
         UNCHANGED <<record, mode, at, single, moved, commands>>
  PROVE  /\ ReadyInv' /\ WriteAhead' /\ VerifiedTruth'
         /\ plug.table = "target" => plug'.table = "target"
         /\ plug.factory # "none" => plug'.factory # "none"
         /\ task = "H1" => plug' = plug
<1>1. plug \in Plug
  BY DEF IInv, TypeOK
<1>2. \/ plug' = plug
      \/ task = "C2" /\ plug' = [plug EXCEPT !.fw = "bridge"]
      \/ task \in {"D1", "D4"} /\ \E f \in {"low", "high"} : plug' = [plug EXCEPT !.fw = f]
      \/ task = "E2" /\ plug' = [plug EXCEPT !.staged = TRUE]
      \/ task = "E3" /\ plug' = [plug EXCEPT !.fw = "safeboot", !.table = "target", !.factory = "recovery"]
      \/ task = "F2" /\ plug' = [plug EXCEPT !.fw = "app"]
      \/ task = "G1" /\ plug' = [plug EXCEPT !.factory = "official"]
      \/ task \in {"E2", "E3"} /\ plug' = [plug EXCEPT !.staged = FALSE]
      \/ task = "G1" /\ plug' = [plug EXCEPT !.factory = "mixed"]
  BY DEF Left, Ruined
<1>3. ReadyInv'
  BY Kinds, StepsAre DEF ReadyInv
<1>4. /\ plug'.fw # "stock" => plug.fw # "stock" \/ task = "C2"
      /\ plug'.staged => plug.staged \/ task = "E2"
      /\ plug'.table = "target" => plug.table = "target" \/ task = "E3"
      /\ plug'.fw = "app" => plug.fw = "app" \/ task = "F2"
      /\ plug'.factory = "official" => plug.factory = "official" \/ task = "G1"
      /\ plug'.factory = "mixed" => plug.factory = "mixed" \/ task = "G1"
  BY <1>1, <1>2 DEF Plug, IInv, ReadyInv
<1>5. WriteAhead'
  <2>1. ASSUME NEW s \in DestructiveSteps, Finished(s)' PROVE Finished(s) \/ task = s
    BY <1>4, <2>1 DEF Finished
  <2>2. \A s \in DestructiveSteps : task' # s
    BY DEF DestructiveSteps
  <2>3. "G1" \in DestructiveSteps
    BY DEF DestructiveSteps
  <2> QED
    BY <1>4, <2>1, <2>2, <2>3 DEF IInv, WriteAhead
<1>6. VerifiedTruth'
  BY <1>1, <1>2 DEF Plug, IInv, ReadyInv, VerifiedTruth
<1>7. /\ plug.table = "target" => plug'.table = "target"
      /\ plug.factory # "none" => plug'.factory # "none"
  BY <1>1, <1>2 DEF Plug
<1>8. task = "H1" => plug' = plug
  BY <1>2
<1> QED
  BY <1>3, <1>5, <1>6, <1>7, <1>8

LEMMA DeviceStep == IInv /\ (DeviceDone \/ DeviceFails) => IInv'
<1> SUFFICES ASSUME IInv, DeviceDone \/ DeviceFails PROVE IInv'
  OBVIOUS
<1>1. /\ task \in Steps /\ task' = "none" /\ listening' = FALSE
      /\ UNCHANGED <<record, mode, at, single, moved, commands>>
      /\ result = "none"
  <2>1. task # "none"
    BY DEF DeviceDone, DeviceFails
  <2> QED
    BY <2>1 DEF DeviceDone, DeviceFails, IInv, TypeOK, ControlInv
<1>2. Left(plug') \/ Ruined(plug')
  BY <1>1, Effects DEF DeviceDone, DeviceFails
<1>3. plug' \in Plug
  <2>1. plug \in Plug
    BY DEF IInv, TypeOK
  <2> QED
    BY <1>2, <2>1 DEF Left, Ruined, Plug
<1>4. /\ ReadyInv' /\ WriteAhead' /\ VerifiedTruth'
      /\ plug.table = "target" => plug'.table = "target"
      /\ plug.factory # "none" => plug'.factory # "none"
      /\ task = "H1" => plug' = plug
  BY <1>1, <1>2, <1>3, PlugStep
<1>5. spent' \in 0..MaxHazards
  BY HappensOnce DEF DeviceDone, DeviceFails, IInv, TypeOK
<1>6. result' \in {"none", "pass", "fail"} /\ (result' # "none" => Mine)
      /\ (result' = "pass" => DeviceDone)
  BY <1>1 DEF DeviceDone, DeviceFails
<1>7. /\ evidence' \in [Phases -> {"none", "fresh", "stale"}]
      /\ evidence'["E3"] # "none" => evidence["E3"] # "none" \/ (task = "E3" /\ plug' \in STEP_INDEX(task).effect)
  BY Kinds DEF DeviceDone, DeviceFails, IInv, TypeOK
<1>8. TypeOK'
  BY <1>1, <1>3, <1>5, <1>6, <1>7 DEF IInv, TypeOK, Mine
<1>9. ControlInv'
  <2>1. ASSUME result' = "pass", here = "H1" PROVE Verified'
    <3>1. task = "H1"
      BY <1>6, <2>1 DEF Mine
    <3> QED
      BY <1>4, <3>1 DEF IInv, ReadyInv, Verified
  <2>2. here' = here
    BY <1>1 DEF here
  <2> QED
    BY <1>1, <2>1, <2>2 DEF IInv, ControlInv
<1>10. CommitEvidenceTruth'
  <2>1. ASSUME task = "E3", plug' \in STEP_INDEX(task).effect
        PROVE  plug'.table = "target" /\ plug'.factory # "none"
    <3>1. plug' = [plug EXCEPT !.fw = "safeboot", !.table = "target", !.factory = "recovery"]
      BY <2>1 DEF STEP_INDEX, step_commit, Handler
    <3> QED
      BY <3>1 DEF IInv, TypeOK, Plug
  <2> QED
    BY <1>4, <1>7, <2>1 DEF IInv, CommitEvidenceTruth
<1> QED
  BY <1>4, <1>8, <1>9, <1>10 DEF IInv

-----------------------------------------------------------------------------
LEMMA NextStep == IInv /\ [Next]_vars => IInv'
<1> SUFFICES ASSUME IInv, [Next]_vars PROVE IInv'
  OBVIOUS
<1>1. CASE Progress
  BY <1>1, LoopStep, TakeStep, AskStep, GiveUpStep, BeginStep, PassedStep DEF Progress
<1>2. CASE StepCommand \/ DeviceDone \/ DeviceFails \/ Pause
  BY <1>2, TakeStep, DeviceStep, PauseStep
<1>3. CASE Decline \/ LoseContact \/ Stop \/ Close \/ Rehearse
  BY <1>3, GiveUpStep, RehearseStep
<1>4. CASE UNCHANGED vars
  <2>1. RecordMoves
    BY <1>4 DEF vars, IInv, TypeOK, RecordMoves
  <2>2. TypeOK' /\ ControlInv'
    BY <1>4 DEF vars, IInv, TypeOK, ControlInv, here, Verified
  <2> QED
    BY <1>4, <2>1, <2>2, HostStep DEF vars, IInv
<1> QED
  BY <1>1, <1>2, <1>3, <1>4 DEF Next

THEOREM InductiveInvariant == Spec => []IInv
BY InitIInv, NextStep, PTL DEF Spec

(* Every variable stays in its type. *)
THEOREM ChecklistTypeOK == Spec => []TypeOK
BY InductiveInvariant, PTL DEF IInv

(* No interruption leaves a plug that a destructive step has touched on    *)
(* record as untouched.                                                    *)
THEOREM RecordRunsAhead == Spec => []WriteAhead
BY InductiveInvariant, PTL DEF IInv

(* "Conversion complete" is and stays the truth, whatever went wrong.      *)
THEOREM VerifiedIsTruth == Spec => []VerifiedTruth
BY InductiveInvariant, PTL DEF IInv

(* Evidence of a commit is evidence that the plug was committed.           *)
THEOREM CommitEvidenceIsTruth == Spec => []CommitEvidenceTruth
BY InductiveInvariant, PTL DEF IInv

(* The table is rewritten only from a staged copy, after both phases, and  *)
(* on record.                                                              *)
THEOREM CommitIsGuarded == Spec => CommitGuarded
<1> DEFINE Guarded == plug'.table # plug.table =>
             /\ plug.staged /\ evidence["E1"] # "none" /\ evidence["E2"] # "none"
             /\ record["E3"] # "pending"
<1>1. IInv /\ [Next]_vars => [Guarded]_vars
  <2> SUFFICES ASSUME IInv, Next, plug'.table # plug.table
               PROVE  /\ plug.staged /\ evidence["E1"] # "none" /\ evidence["E2"] # "none"
                      /\ record["E3"] # "pending"
    BY DEF Guarded
  <2>1. DeviceDone \/ DeviceFails
    BY DEF Next, Progress, Run, StepCommand, Skip, Ask, Take, Complete, Refuse, Begin, Passed,
           Failed, Decline, LoseContact, Stop, Close, Pause, Rehearse
  <2>2. task \in Steps
    BY <2>1 DEF DeviceDone, DeviceFails, IInv, TypeOK
  <2>3. Left(plug') \/ Ruined(plug')
    BY <2>1, <2>2, Effects DEF DeviceDone, DeviceFails
  <2>4. task = "E3"
    BY <2>3 DEF Left, Ruined, IInv, TypeOK, Plug
  <2> QED
    BY <2>4 DEF IInv, ReadyInv, WriteAhead, DestructiveSteps
<1> QED
  BY <1>1, InductiveInvariant, PTL DEF Spec, CommitGuarded


-----------------------------------------------------------------------------
(* The locks.  Only a window closed at a locked step leaves its lock away;  *)
(* every other way out of the step puts it back.                           *)
Closable == {s \in LockedSteps : <<"close", s>> \in Hazards}

Away == moved \ Closable
LocksInv == Away \subseteq (IF mode = "wait" THEN {here} ELSE {})

LEMMA LocksStep == TypeOK /\ LocksInv /\ [Next]_vars => LocksInv'
<1> SUFFICES ASSUME TypeOK, LocksInv, [Next]_vars PROVE LocksInv'
  OBVIOUS
<1> USE DEF LocksInv, Away, Closable
<1>1. ASSUME UNCHANGED <<moved, mode, at>> PROVE LocksInv'
  BY <1>1 DEF here
<1>2. ASSUME mode # "wait", UNCHANGED moved PROVE LocksInv'
  BY <1>2
<1>3. CASE Run \/ StepCommand \/ Skip \/ Ask \/ Take \/ Complete
  BY <1>2, <1>3 DEF Run, StepCommand, Skip, Ask, Take, Complete
<1>4. CASE Decline \/ Refuse \/ Rehearse
  BY <1>2, <1>4 DEF Decline, Refuse, Rehearse
<1>5. CASE Begin
  BY <1>5 DEF Begin, here
<1>6. CASE DeviceDone \/ DeviceFails \/ Pause \/ UNCHANGED vars
  BY <1>1, <1>6 DEF DeviceDone, DeviceFails, Pause, vars
<1>7. ASSUME mode = "wait", moved' = moved \ {here} PROVE LocksInv'
  BY <1>7
<1>8. CASE Passed \/ Failed \/ LoseContact
  BY <1>7, <1>8 DEF Passed, Failed, LoseContact, Mine
<1>9. CASE Stop
  BY <1>2, <1>7, <1>9 DEF Stop
<1>10. CASE Close
  <2>1. <<"close", here>> \in Hazards /\ mode' = "out"
    BY <1>10 DEF Close, Happens, End
  <2>2. Away' \subseteq Away \ {here} \/ (here \notin LockedSteps /\ moved' = moved)
    BY <1>10, <2>1 DEF Close, TypeOK
  <2>3. here \notin LockedSteps => here \notin moved
    BY DEF TypeOK
  <2> QED
    BY <2>1, <2>2, <2>3
<1> QED
  BY <1>3, <1>4, <1>5, <1>6, <1>8, <1>9, <1>10 DEF Next, Progress

(* Whatever goes wrong, a safety lock is away only while its step is under  *)
(* way, or where a window can be closed on it.                             *)
THEOREM LocksAccounted == Spec => []LocksInv
<1>1. Init => LocksInv
  BY DEF Init, LocksInv, Away
<1> QED
  BY <1>1, LocksStep, ChecklistTypeOK, PTL DEF Spec

(* Without such a closed window the locks come home: refusal, failure, a    *)
(* lost connection and Ctrl-C all put them back.                           *)
THEOREM LocksComeHome ==
  (\A s \in LockedSteps : <<"close", s>> \notin Hazards) => (Spec => []LocksHome)
<1> SUFFICES ASSUME \A s \in LockedSteps : <<"close", s>> \notin Hazards
             PROVE  Spec => []LocksHome
  OBVIOUS
<1>1. LocksInv => LocksHome
  BY DEF LocksInv, Away, Closable, LocksHome
<1> QED
  BY <1>1, LocksAccounted, PTL

=============================================================================
