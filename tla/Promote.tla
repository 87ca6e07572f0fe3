------------------------------ MODULE Promote ------------------------------
(***************************************************************************)
(* Step D4: Tasmota uploads itself into the plug's other slot until it     *)
(* runs from the high one (step_promote of tools/s60_autoflash.py), which  *)
(* the host knows only from an uptime that went back (wait_for_reboot of   *)
(* tools/autoflash/device.py).  The plug restarts some time after an       *)
(* upload and is away for some time; requests and answers are lost; the    *)
(* process ends and the operator runs the command again.                   *)
(***************************************************************************)
EXTENDS Integers

CONSTANTS
  Poll, Gap,          \* ticks between two polls: the pause, and with a request
  Settle,             \* ticks waited after a restart was seen
  Deadline,           \* ticks until the wait gives up
  Fresh,              \* an uptime that shows a restart by itself
  Delay,              \* ticks from an upload to the plug's restart, at most
  BootMin, BootMax,   \* ticks from its start until the plug answers
  MaxUptime,          \* bound: the clock stays there
  MaxFaults,          \* bound: lost requests and answers, power cuts
  MaxRuns             \* bound: commands

ASSUME PromoteAssumption ==
  /\ {Poll, Gap, Settle, Deadline, Fresh, Delay, BootMin, BootMax} \subseteq Nat
  /\ {MaxUptime, MaxFaults, MaxRuns} \subseteq Nat
  /\ 1 <= Poll /\ Poll <= Gap /\ BootMin <= BootMax
  /\ Delay <= Settle /\ Delay + BootMax < Deadline
  /\ BootMax + Gap < MaxUptime

VARIABLES
  slot, uptime,  \* the plug: the slot it runs from, the seconds it says it is up
  up,            \* it answers
  pending,       \* ticks until it restarts into its other slot, or None
  frozen,        \* SaveData 0 was carried out
  pc,            \* where step_promote is, "out" when no process runs
  result,        \* what D4 is recorded as
  attempt,       \* uploads so far
  before,        \* uptime before the upload, or None
  offline,       \* the wait has seen the plug away
  since, waited, \* ticks since the last poll, and since the wait began
  restarted,     \* the plug has restarted since before was read
  disturbed,     \* the wait missed an answer, or began after a restart, or met
                 \* a second one, or the power failed
  faults, runs,
  dry            \* the command was typed with --dry-run

plug == <<slot, uptime, up, pending, frozen>>
timer == <<offline, since, waited>>
history == <<restarted, disturbed>>
vars == <<slot, uptime, up, pending, frozen, pc, result, attempt, before,
          offline, since, waited, restarted, disturbed, faults, runs, dry>>

None == -1
Waiting == {"wait", "uptime", "settle"}
Places == {"out", "reach", "slot", "baseline", "upload", "prompt", "uploaded",
           "again", "freeze"} \cup Waiting

TypeOK ==
  /\ slot \in 0..1 /\ uptime \in 0..MaxUptime /\ up \in BOOLEAN
  /\ pending \in {None} \cup 0..Delay /\ frozen \in BOOLEAN
  /\ pc \in Places /\ result \in {"none", "done", "failed", "missed"}
  /\ attempt \in 0..2 /\ before \in {None} \cup 0..MaxUptime
  /\ offline \in BOOLEAN /\ since \in 0..(Gap + Settle) /\ waited \in 0..Deadline
  /\ restarted \in BOOLEAN /\ disturbed \in BOOLEAN
  /\ faults \in 0..MaxFaults /\ runs \in 0..MaxRuns /\ dry \in BOOLEAN

Init ==
  /\ slot \in 0..1 /\ uptime \in BootMin..MaxUptime /\ up = TRUE
  /\ pending = None /\ frozen = FALSE
  /\ pc = "out" /\ result = "none" /\ attempt = 0 /\ before = None
  /\ offline = FALSE /\ since = 0 /\ waited = 0
  /\ restarted = FALSE /\ disturbed = FALSE
  /\ faults = 0 /\ runs = 0 /\ dry = FALSE

-----------------------------------------------------------------------------
(* The plug (external), and time. *)

(* It restarts after an upload into the slot just written, or, when its     *)
(* power fails, into the slot that is selected by then.                    *)
Restart ==
  /\ \/ pending # None /\ UNCHANGED faults
     \/ faults < MaxFaults /\ faults' = faults + 1
  /\ slot' = IF pending = None THEN slot ELSE 1 - slot
  /\ uptime' = 0 /\ up' = FALSE /\ pending' = None /\ restarted' = TRUE
  /\ disturbed' = (disturbed \/ restarted \/ pending = None)
  /\ UNCHANGED <<frozen, pc, result, attempt, before, timer, runs, dry>>

ComesUp ==
  /\ ~up /\ uptime >= BootMin
  /\ up' = TRUE
  /\ UNCHANGED <<slot, uptime, pending, frozen, pc, result, attempt, before, timer,
                 history, faults, runs, dry>>

(* What is due does not wait: a restart, an answer, a poll, the deadline.   *)
Tick ==
  /\ pending # 0 /\ (~up => uptime < BootMax)
  /\ pc = "wait" => since < Gap /\ ~(since = 0 /\ waited = Deadline)
  /\ pc = "settle" => since < Settle
  /\ pc # "uptime"
  /\ uptime' = IF uptime < MaxUptime THEN uptime + 1 ELSE uptime
  /\ pending' = IF pending = None THEN None ELSE pending - 1
  /\ since' = IF pc \in Waiting THEN since + 1 ELSE since
  /\ waited' = IF pc \in Waiting /\ waited < Deadline THEN waited + 1 ELSE waited
  /\ UNCHANGED <<slot, up, frozen, pc, result, attempt, before, offline, history,
                 faults, runs, dry>>

-----------------------------------------------------------------------------
(* What a request of the host meets. *)

Answered == up /\ UNCHANGED <<disturbed, faults>>
Lost == faults < MaxFaults /\ faults' = faults + 1 /\ disturbed' = TRUE
Unanswered == (~up /\ UNCHANGED <<disturbed, faults>>) \/ Lost

(* current_ota makes an unknown slot of an error; uptime_seconds raises it. *)
current_ota(value) == (value = slot /\ Answered) \/ (value = None /\ Unanswered)
uptime_seconds(value) == (value = uptime /\ Answered) \/ (value = None /\ up /\ Lost)

(* An upload is taken by a plug that is not about to restart.               *)
Accepted == up /\ pending = None /\ pending' = Delay

-----------------------------------------------------------------------------
(* step_promote. *)

(* An Abort, a DeviceError or an exception nobody catches: D4 is not done.  *)
Ends(how) == pc' = "out" /\ result' = how
Goes(to) == pc' = to /\ UNCHANGED result

(* The command is typed again in no less time than a restart is delayed.  A  *)
(* D4 recorded done is run again if the plug is found in the low slot.      *)
Begin ==
  /\ pc = "out" /\ (result = "done" => up /\ slot # 1) /\ runs < MaxRuns /\ pending = None
  /\ runs' = runs + 1 /\ dry' \in BOOLEAN
  /\ attempt' = 0
  /\ Goes("reach")
  /\ UNCHANGED <<plug, before, timer, history, faults>>

Reach ==
  /\ pc = "reach"
  /\ IF up THEN Goes("slot") ELSE Ends("failed")
  /\ UNCHANGED <<plug, attempt, before, timer, history, faults, runs, dry>>

(* "Nothing to do here."  With --dry-run nothing is done whatever the slot,  *)
(* and D4 is recorded done all the same.                                   *)
FirstSlot ==
  /\ pc = "slot"
  /\ \E now \in {slot, None} :
        /\ current_ota(now)
        /\ IF now = 1 \/ dry THEN Ends("done") ELSE Goes("baseline")
  /\ UNCHANGED <<plug, attempt, before, timer, restarted, runs, dry>>

Baseline ==
  /\ pc = "baseline"
  /\ restarted' = FALSE
  /\ \/ \E now \in {uptime, None} :
           uptime_seconds(now) /\ before' = now /\ Goes("upload")
     \/ Unanswered /\ UNCHANGED before /\ Ends("failed")
  /\ UNCHANGED <<plug, attempt, timer, runs, dry>>

StartsWaiting ==
  /\ Goes("wait") /\ offline' = FALSE /\ since' = 0 /\ waited' = 0
  /\ disturbed' = restarted

(* upload_or_prompt: whatever goes wrong, also after the plug has taken the *)
(* image, the operator is asked to upload it by hand.                      *)
Upload ==
  /\ pc = "upload"
  /\ attempt' = attempt + 1
  /\ \/ Accepted /\ UNCHANGED faults /\ StartsWaiting
     \/ Accepted /\ Lost /\ Goes("prompt") /\ UNCHANGED timer
     \/ /\ Unanswered \/ (pending # None /\ UNCHANGED <<disturbed, faults>>)
        /\ UNCHANGED pending /\ Goes("prompt") /\ UNCHANGED timer
  /\ UNCHANGED <<slot, uptime, up, frozen, before, restarted, runs, dry>>

UploadByHand ==
  /\ pc = "prompt" /\ Accepted
  /\ Goes("uploaded")
  /\ UNCHANGED <<slot, uptime, up, frozen, attempt, before, timer, history, faults, runs,
                 dry>>

(* The operator says that it is uploaded, or not.                          *)
Answer ==
  /\ pc \in {"prompt", "uploaded"}
  /\ StartsWaiting \/ (Ends("failed") /\ UNCHANGED <<timer, disturbed>>)
  /\ UNCHANGED <<plug, attempt, before, restarted, faults, runs, dry>>

-----------------------------------------------------------------------------
(* wait_for_reboot. *)

(* Mutant: the plug must have been caught away as well.                    *)
SeenOffline(now) == offline /\ now # None /\ (before # None => now < before)

(* Mutant: a clock that stands still counts as gone back.                  *)
NotLater(now) ==
  IF before # None THEN now # None /\ now <= before
  ELSE offline \/ (now # None /\ now < Fresh)

Restarted(now) ==
  IF before # None THEN now # None /\ now < before
  ELSE offline \/ (now # None /\ now < Fresh)

Reachable ==
  /\ pc = "wait" /\ since >= Poll
  /\ \/ Answered /\ Goes("uptime") /\ UNCHANGED timer
     \/ Unanswered /\ Goes("wait") /\ offline' = TRUE /\ since' = 0 /\ UNCHANGED waited
  /\ UNCHANGED <<plug, attempt, before, restarted, runs, dry>>

(* A plug that goes away between the two requests ends the step by an       *)
(* exception.                                                              *)
Uptime ==
  /\ pc = "uptime"
  /\ \/ \E now \in {uptime, None} :
           /\ uptime_seconds(now)
           /\ Goes(IF Restarted(now) THEN "settle" ELSE "wait")
           /\ since' = 0
     \/ Unanswered /\ Ends("failed") /\ UNCHANGED since
  /\ UNCHANGED <<plug, attempt, before, offline, waited, restarted, runs, dry>>

(* Mutant: the slot is asked for as soon as the restart was seen.           *)
SettledAtOnce ==
  /\ pc = "settle"
  /\ Goes("again")
  /\ UNCHANGED <<plug, attempt, before, timer, history, faults, runs, dry>>

Settled ==
  /\ pc = "settle" /\ since >= Settle
  /\ Goes("again")
  /\ UNCHANGED <<plug, attempt, before, timer, history, faults, runs, dry>>

Expire ==
  /\ pc = "wait" /\ since = 0 /\ waited = Deadline
  /\ Ends("missed")
  /\ UNCHANGED <<plug, attempt, before, timer, history, faults, runs, dry>>

-----------------------------------------------------------------------------
(* Mutant: the image is uploaded until the slot is right.                   *)
AgainAndAgain ==
  /\ pc = "again"
  /\ \E now \in {slot, None} :
        current_ota(now) /\ Goes(IF now = 1 THEN "freeze" ELSE "baseline")
  /\ UNCHANGED <<plug, attempt, before, timer, restarted, runs, dry>>

(* One swap is expected, a second allowed.                                 *)
Again ==
  /\ pc = "again"
  /\ \E now \in {slot, None} :
        /\ current_ota(now)
        /\ \/ now = 1 /\ Goes("freeze")
           \/ now # 1 /\ attempt = 1 /\ Goes("baseline")
           \/ now # 1 /\ attempt = 2 /\ Ends("failed")
  /\ UNCHANGED <<plug, attempt, before, timer, restarted, runs, dry>>

(* SaveData 0; its answer can be lost.                                      *)
Freeze ==
  /\ pc = "freeze"
  /\ \/ Answered /\ frozen' = TRUE /\ Ends("done")
     \/ Unanswered /\ frozen' \in {frozen, up} /\ Ends("failed")
  /\ UNCHANGED <<slot, uptime, up, pending, attempt, before, timer, restarted, runs, dry>>

Kill ==
  /\ pc # "out"
  /\ Ends("failed")
  /\ UNCHANGED <<plug, attempt, before, timer, history, faults, runs, dry>>

step_promote ==
  \/ Begin \/ Reach \/ FirstSlot \/ Baseline \/ Upload \/ UploadByHand \/ Answer
  \/ Reachable \/ Uptime \/ Settled \/ Expire \/ Again \/ Freeze

Next == Restart \/ ComesUp \/ Tick \/ step_promote \/ Kill

Spec == Init /\ [][Next]_vars

-----------------------------------------------------------------------------
(* Properties. *)

(* "A restart is confirmed by uptime going backwards": with an uptime to    *)
(* compare with, the wait ends well only if the plug did restart.           *)
RestartReal == pc \in {"settle", "again"} /\ before # None => restarted

(* "a reboot can easily complete inside one polling gap": all the same the  *)
(* wait gives up on a plug that restarted meanwhile only if an answer was   *)
(* lost, or the plug restarted before it began, twice, or by itself, or the  *)
(* uptime before was so low that it can be passed between two polls.        *)
RestartSeen ==
  pc = "out" /\ result = "missed" /\ restarted =>
    disturbed \/ before = None \/ before <= BootMax + Gap

(* When D4 is recorded done by a command without --dry-run, the plug runs   *)
(* from the high slot and is not about to leave it, although images are     *)
(* uploaded twice, by the tool and by hand, and a dry run may have recorded *)
(* D4 before; and its settings are frozen, unless D4 found it there already, *)
(* as it does when it is repeated after a restart that was missed.          *)
HighSlot ==
  [][pc # "out" /\ pc' = "out" /\ result' = "done" /\ ~dry =>
       slot = 1 /\ pending = None /\ (frozen' \/ pc = "slot")]_vars

=============================================================================
