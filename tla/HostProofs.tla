----------------------------- MODULE HostProofs -----------------------------
(***************************************************************************)
(* Two parts of the host.  Step D4: what it knows of the plug's restarts,   *)
(* for every pace of polls, every delay and boot time, any number of faults *)
(* and of commands.  The vendor OTA server: what its coverage counts, for   *)
(* every list of ranges and every length of the image.                     *)
(***************************************************************************)
EXTENDS Promote, Delivery, FiniteSetTheorems, SequenceTheorems,
        WellFoundedInduction, TLAPS

(* Step D4. *)
(* No upload is under way when the slot is asked for, an image is uploaded  *)
(* or the settings are frozen; a restart under way was asked for less than  *)
(* Delay ago, so it is over once the wait has settled or run out.           *)
PendingInv ==
  /\ pc \in {"reach", "slot", "baseline", "upload", "again", "freeze"} => pending = None
  /\ pc = "out" /\ result = "missed" => pending = None
  /\ pc = "wait" /\ pending # None => pending + since <= Delay /\ pending + waited <= Delay
  /\ pc = "uptime" /\ pending # None => pending < Delay /\ pending + waited <= Delay
  /\ pc = "settle" /\ pending # None => pending + since < Delay

(* The clock a plug shows has only gone on since it was read, unless it     *)
(* has restarted.                                                          *)
ClockInv ==
  /\ before # None /\ ~restarted /\ pc \in {"upload", "prompt", "uploaded", "again"} \cup Waiting
       => before <= uptime
  /\ ~up => uptime <= BootMax

(* A restart met by the wait is so recent that its next poll sees it, if    *)
(* the plug had been up for longer than that.                              *)
LongUp == before # None /\ before > BootMax + Gap
WaitInv ==
  /\ pc \in {"wait", "uptime"} => since <= Gap
  /\ pc = "uptime" => since >= 1
  /\ pc \in {"wait", "uptime"} /\ restarted /\ ~disturbed /\ LongUp =>
       uptime <= BootMax + since /\ waited <= Delay + uptime

StepInv ==
  /\ pc \in {"reach", "slot", "baseline", "upload"} => attempt <= 1
  /\ pc = "freeze" => slot = 1

PromoteInv ==
  TypeOK /\ PendingInv /\ ClockInv /\ WaitInv /\ StepInv /\ RestartReal /\ RestartSeen

-----------------------------------------------------------------------------
LEMMA ConstantsAre ==
  /\ Poll \in Nat /\ Gap \in Nat /\ Settle \in Nat /\ Deadline \in Nat /\ Fresh \in Nat
  /\ Delay \in Nat /\ BootMin \in Nat /\ BootMax \in Nat
  /\ MaxUptime \in Nat /\ MaxFaults \in Nat /\ MaxRuns \in Nat
  /\ 1 <= Poll /\ Poll <= Gap /\ BootMin <= BootMax
  /\ Delay <= Settle /\ Delay + BootMax < Deadline /\ BootMax + Gap < MaxUptime
BY PromoteAssumption

LEMMA InitPromoteInv == Init => PromoteInv
<1> SUFFICES ASSUME Init PROVE PromoteInv
  OBVIOUS
<1>1. TypeOK
  <2>1. uptime \in 0..MaxUptime /\ since \in 0..(Gap + Settle) /\ waited \in 0..Deadline
        /\ faults \in 0..MaxFaults /\ runs \in 0..MaxRuns /\ attempt \in 0..2
    BY ConstantsAre DEF Init
  <2> QED
    BY <2>1 DEF Init, TypeOK, Places, Waiting
<1> QED
  BY <1>1 DEF Init, PromoteInv, PendingInv, ClockInv, WaitInv, StepInv, RestartReal, RestartSeen,
              Waiting, None

-----------------------------------------------------------------------------
(* The plug and time. *)

LEMMA RestartStep == PromoteInv /\ Restart => PromoteInv'
<1> SUFFICES ASSUME PromoteInv, Restart PROVE PromoteInv'
  OBVIOUS
<1> USE ConstantsAre
<1>1. UNCHANGED <<pc, result, attempt, before, offline, since, waited>>
      /\ uptime' = 0 /\ pending' = None /\ restarted' = TRUE
      /\ disturbed' = (disturbed \/ restarted \/ pending = None)
  BY DEF Restart, timer
<1>2. TypeOK'
  <2>1. slot' \in 0..1 /\ faults' \in 0..MaxFaults /\ uptime' \in 0..MaxUptime
    BY DEF PromoteInv, TypeOK, Restart
  <2>2. disturbed' \in BOOLEAN
    BY <1>1 DEF PromoteInv, TypeOK
  <2> QED
    BY <1>1, <2>1, <2>2 DEF PromoteInv, TypeOK, Restart
<1>3. PendingInv'
  BY <1>1 DEF PendingInv
<1>4. ClockInv' /\ RestartReal'
  BY <1>1 DEF ClockInv, RestartReal
<1>5. WaitInv'
  <2>1. CASE pending = None
    BY <1>1, <2>1 DEF PromoteInv, WaitInv
  <2>2. CASE pending # None
    BY <1>1, <2>2 DEF PromoteInv, TypeOK, WaitInv, PendingInv, LongUp, None
  <2> QED
    BY <2>1, <2>2
<1>6. StepInv'
  BY <1>1 DEF Restart, PromoteInv, PendingInv, StepInv
<1>7. RestartSeen'
  BY <1>1 DEF PromoteInv, PendingInv, RestartSeen
<1> QED
  BY <1>2, <1>3, <1>4, <1>5, <1>6, <1>7 DEF PromoteInv

LEMMA ComesUpStep == PromoteInv /\ ComesUp => PromoteInv'
BY DEF PromoteInv, ComesUp, plug, timer, history, TypeOK, PendingInv, ClockInv, WaitInv, LongUp,
       StepInv, RestartReal, RestartSeen

LEMMA TickStep == PromoteInv /\ Tick => PromoteInv'
<1> SUFFICES ASSUME PromoteInv, Tick PROVE PromoteInv'
  OBVIOUS
<1> USE ConstantsAre
<1>1. /\ UNCHANGED <<slot, up, frozen, pc, result, attempt, before, offline, restarted,
                     disturbed, faults, runs, dry>>
      /\ pending' = IF pending = None THEN None ELSE pending - 1
      /\ uptime' = IF uptime < MaxUptime THEN uptime + 1 ELSE uptime
      /\ pc # "uptime" /\ pending # 0
  BY DEF Tick, history
<1>2. /\ pc = "wait" => since < Gap /\ since' = since + 1
           /\ waited' = (IF waited < Deadline THEN waited + 1 ELSE waited)
      /\ pc = "settle" => since < Settle /\ since' = since + 1
  BY DEF Tick, Waiting
<1>3. TypeOK'
  <2>1. since' \in 0..(Gap + Settle)
    BY <1>2 DEF Tick, PromoteInv, TypeOK, Waiting
  <2>2. waited' \in 0..Deadline
    BY DEF Tick, PromoteInv, TypeOK
  <2>3. pending' \in {None} \cup 0..Delay
    BY <1>1 DEF PromoteInv, TypeOK, None
  <2>4. uptime' \in 0..MaxUptime
    BY <1>1 DEF PromoteInv, TypeOK
  <2> QED
    BY <1>1, <2>1, <2>2, <2>3, <2>4 DEF PromoteInv, TypeOK
<1>4. PendingInv'
  BY <1>1, <1>2 DEF PromoteInv, TypeOK, PendingInv, None
<1>5. ClockInv'
  <2>1. ~up => uptime < BootMax
    BY DEF Tick
  <2> QED
    BY <1>1, <2>1 DEF PromoteInv, TypeOK, ClockInv, None
<1>6. WaitInv'
  BY <1>1, <1>2 DEF PromoteInv, TypeOK, WaitInv, LongUp, None
<1>7. StepInv' /\ RestartReal' /\ RestartSeen'
  BY <1>1 DEF PromoteInv, StepInv, RestartReal, RestartSeen
<1> QED
  BY <1>3, <1>4, <1>5, <1>6, <1>7 DEF PromoteInv

-----------------------------------------------------------------------------
(* The host, up to the upload. *)

LEMMA FaultsType ==
  ASSUME TypeOK, Answered \/ Unanswered \/ UNCHANGED <<disturbed, faults>>
  PROVE  /\ faults' \in 0..MaxFaults /\ disturbed' \in BOOLEAN
         /\ disturbed => disturbed'
<1>1. CASE Lost
  BY <1>1, ConstantsAre DEF TypeOK, Lost
<1>2. CASE UNCHANGED <<disturbed, faults>>
  BY <1>2 DEF TypeOK
<1> QED
  BY <1>1, <1>2 DEF Answered, Unanswered

LEMMA BeginStep == PromoteInv /\ (Begin \/ Reach) => PromoteInv'
BY ConstantsAre
   DEF PromoteInv, Begin, Reach, Ends, Goes, plug, timer, history, TypeOK, Places, Waiting, PendingInv,
       ClockInv, WaitInv, LongUp, StepInv, RestartReal, RestartSeen

LEMMA FirstSlotStep == PromoteInv /\ FirstSlot => PromoteInv'
<1> SUFFICES ASSUME PromoteInv, FirstSlot PROVE PromoteInv'
  OBVIOUS
<1>1. /\ pc = "slot" /\ UNCHANGED <<slot, uptime, up, pending, frozen, attempt, before, offline,
                                    since, waited, restarted, runs, dry>>
      /\ pc' \in {"out", "baseline"} /\ result' \in {"none", "done", "failed", "missed"}
      /\ pc' = "out" => result' = "done"
  BY DEF FirstSlot, Ends, Goes, plug, timer, PromoteInv, TypeOK
<1>2. faults' \in 0..MaxFaults /\ disturbed' \in BOOLEAN
  BY FaultsType DEF FirstSlot, current_ota, PromoteInv
<1> QED
  BY <1>1, <1>2 DEF PromoteInv, TypeOK, Places, Waiting, PendingInv, ClockInv, WaitInv, StepInv,
                    RestartReal, RestartSeen

LEMMA BaselineStep == PromoteInv /\ Baseline => PromoteInv'
<1> SUFFICES ASSUME PromoteInv, Baseline PROVE PromoteInv'
  OBVIOUS
<1>1. /\ pc = "baseline" /\ UNCHANGED <<slot, uptime, up, pending, frozen, attempt, offline,
                                        since, waited, runs, dry>>
      /\ restarted' = FALSE
      /\ \/ pc' = "upload" /\ UNCHANGED result /\ before' \in {uptime, None}
         \/ pc' = "out" /\ result' = "failed" /\ UNCHANGED before
  BY DEF Baseline, Ends, Goes, plug, timer
<1>2. faults' \in 0..MaxFaults /\ disturbed' \in BOOLEAN
  BY FaultsType DEF Baseline, uptime_seconds, Unanswered, PromoteInv
<1>3. TypeOK'
  BY <1>1, <1>2 DEF PromoteInv, TypeOK, Places, Waiting
<1>4. ClockInv'
  BY <1>1, ConstantsAre DEF PromoteInv, TypeOK, ClockInv, Waiting
<1> QED
  BY <1>1, <1>3, <1>4 DEF PromoteInv, PendingInv, WaitInv, StepInv, RestartReal, RestartSeen

(* A wait that begins misses nothing of the clock, or says so.             *)
LEMMA StartStep ==
  ASSUME PromoteInv, StartsWaiting, UNCHANGED <<slot, uptime, up, frozen, before, restarted, runs, dry>>,
         pc \in {"upload", "prompt", "uploaded"}, pending' \in {pending, Delay},
         attempt' \in 0..2, faults' \in 0..MaxFaults
  PROVE  PromoteInv'
<1> USE ConstantsAre
<1>1. pc' = "wait" /\ UNCHANGED result /\ offline' = FALSE /\ since' = 0 /\ waited' = 0
      /\ disturbed' = restarted
  BY DEF StartsWaiting, Goes
<1>2. TypeOK'
  <2>1. pending' \in {None} \cup 0..Delay
    BY DEF PromoteInv, TypeOK
  <2>2. since' \in 0..(Gap + Settle) /\ waited' \in 0..Deadline
    BY <1>1
  <2>3. disturbed' \in BOOLEAN
    BY <1>1 DEF PromoteInv, TypeOK
  <2> QED
    BY <1>1, <2>1, <2>2, <2>3 DEF PromoteInv, TypeOK, Places, Waiting
<1>3. PendingInv'
  <2>1. pending' = None \/ (pending' \in Nat /\ pending' <= Delay)
    BY DEF PromoteInv, TypeOK
  <2> QED
    BY <1>1, <2>1 DEF PendingInv
<1>4. ClockInv'
  BY <1>1 DEF PromoteInv, ClockInv, Waiting
<1> QED
  BY <1>1, <1>2, <1>3, <1>4 DEF PromoteInv, WaitInv, StepInv, RestartReal, RestartSeen

LEMMA UploadStep == PromoteInv /\ Upload => PromoteInv'
<1> SUFFICES ASSUME PromoteInv, Upload PROVE PromoteInv'
  OBVIOUS
<1> USE ConstantsAre
<1>1. /\ pc = "upload" /\ attempt' \in 0..2
      /\ UNCHANGED <<slot, uptime, up, frozen, before, restarted, runs, dry>>
  BY DEF Upload, PromoteInv, TypeOK, StepInv
<1>2. faults' \in 0..MaxFaults
  BY DEF Upload, Unanswered, Lost, PromoteInv, TypeOK
<1>3. CASE Accepted /\ StartsWaiting
  BY <1>1, <1>2, <1>3, StartStep DEF Accepted
<1>4. CASE pc' = "prompt"
  <2>1. UNCHANGED <<result, offline, since, waited>> /\ pending' \in {pending, Delay}
        /\ disturbed' \in BOOLEAN
    BY <1>4 DEF Upload, StartsWaiting, Goes, timer, Accepted, Lost, Unanswered, PromoteInv, TypeOK
  <2>2. TypeOK'
    BY <1>1, <1>2, <1>4, <2>1 DEF PromoteInv, TypeOK, Places, Waiting, None
  <2> QED
    BY <1>1, <1>4, <2>1, <2>2
       DEF PromoteInv, PendingInv, ClockInv, Waiting, WaitInv, StepInv, RestartReal, RestartSeen
<1> QED
  BY <1>3, <1>4 DEF Upload, Goes

LEMMA UploadByHandStep == PromoteInv /\ UploadByHand => PromoteInv'
BY ConstantsAre
   DEF PromoteInv, UploadByHand, Accepted, Goes, timer, history, TypeOK, Places, Waiting, None,
       PendingInv, ClockInv, WaitInv, StepInv, RestartReal, RestartSeen

LEMMA AnswerStep == PromoteInv /\ Answer => PromoteInv'
<1> SUFFICES ASSUME PromoteInv, Answer PROVE PromoteInv'
  OBVIOUS
<1>1. CASE StartsWaiting
  BY <1>1, StartStep DEF Answer, plug, PromoteInv, TypeOK
<1>2. CASE Ends("failed") /\ UNCHANGED <<timer, disturbed>>
  BY <1>2 DEF Answer, Ends, plug, timer, PromoteInv, TypeOK, Places, Waiting, PendingInv, ClockInv,
              WaitInv, StepInv, RestartReal, RestartSeen
<1> QED
  BY <1>1, <1>2 DEF Answer

-----------------------------------------------------------------------------
(* The wait for the restart. *)

LEMMA ReachableStep == PromoteInv /\ Reachable => PromoteInv'
<1> SUFFICES ASSUME PromoteInv, Reachable PROVE PromoteInv'
  OBVIOUS
<1> USE ConstantsAre
<1>1. /\ pc = "wait" /\ since >= Poll
      /\ UNCHANGED <<slot, uptime, up, pending, frozen, result, attempt, before, waited,
                     restarted, runs, dry>>
  BY DEF Reachable, Goes, plug, timer
<1>2. faults' \in 0..MaxFaults /\ disturbed' \in BOOLEAN /\ (disturbed => disturbed')
  BY FaultsType DEF Reachable, PromoteInv
<1>3. \/ pc' = "uptime" /\ UNCHANGED <<offline, since, disturbed>>
      \/ pc' = "wait" /\ offline' = TRUE /\ since' = 0 /\ (~up \/ disturbed')
  BY DEF Reachable, Goes, timer, Answered, Unanswered, Lost
<1>4. TypeOK'
  <2>1. since' \in 0..(Gap + Settle)
    BY <1>3 DEF PromoteInv, TypeOK
  <2>2. offline' \in BOOLEAN /\ pc' \in Places
    BY <1>1, <1>3 DEF PromoteInv, TypeOK, Places, Waiting
  <2>3. result' \in {"none", "done", "failed", "missed"}
    BY <1>1, <1>3 DEF PromoteInv, TypeOK
  <2> QED
    BY <1>1, <1>2, <2>1, <2>2, <2>3 DEF PromoteInv, TypeOK
<1>5. PendingInv'
  BY <1>1, <1>3 DEF PromoteInv, TypeOK, PendingInv, None
<1>6. ClockInv'
  BY <1>1, <1>3 DEF PromoteInv, ClockInv, Waiting
<1>7. WaitInv'
  BY <1>1, <1>2, <1>3 DEF PromoteInv, TypeOK, WaitInv, ClockInv, LongUp
<1> QED
  BY <1>1, <1>3, <1>4, <1>5, <1>6, <1>7 DEF PromoteInv, StepInv, RestartReal, RestartSeen

LEMMA UptimeStep == PromoteInv /\ Uptime => PromoteInv'
<1> SUFFICES ASSUME PromoteInv, Uptime PROVE PromoteInv'
  OBVIOUS
<1> USE ConstantsAre
<1>1. /\ pc = "uptime"
      /\ UNCHANGED <<slot, uptime, up, pending, frozen, attempt, before, offline, waited,
                     restarted, runs, dry>>
  BY DEF Uptime, plug
<1>2. faults' \in 0..MaxFaults /\ disturbed' \in BOOLEAN /\ (disturbed => disturbed')
  BY FaultsType DEF Uptime, uptime_seconds, Unanswered, PromoteInv
<1>3. \/ pc' = "settle" /\ UNCHANGED result /\ since' = 0 /\ (before = None \/ uptime < before)
      \/ pc' = "wait" /\ UNCHANGED result /\ since' = 0
           /\ (disturbed' \/ before = None \/ ~(uptime < before))
      \/ pc' = "out" /\ result' = "failed" /\ UNCHANGED since
  <2>1. CASE Unanswered /\ Ends("failed") /\ UNCHANGED since
    BY <2>1 DEF Ends
  <2>2. ASSUME uptime_seconds(uptime), since' = 0,
               Goes(IF Restarted(uptime) THEN "settle" ELSE "wait")
        PROVE  \/ pc' = "settle" /\ UNCHANGED result /\ (before = None \/ uptime < before)
               \/ pc' = "wait" /\ UNCHANGED result /\ (before = None \/ ~(uptime < before))
    <3>1. uptime # None
      BY DEF PromoteInv, TypeOK, None
    <3> QED
      BY <2>2, <3>1 DEF Goes, Restarted
  <2>3. ASSUME uptime_seconds(None), since' = 0,
               Goes(IF Restarted(None) THEN "settle" ELSE "wait")
        PROVE  \/ pc' = "settle" /\ UNCHANGED result /\ before = None
               \/ pc' = "wait" /\ UNCHANGED result /\ (before = None \/ disturbed')
    <3>1. None # uptime
      BY DEF PromoteInv, TypeOK, None
    <3>2. disturbed'
      BY <2>3, <3>1 DEF uptime_seconds, Lost
    <3> QED
      BY <2>3, <3>2 DEF Goes, Restarted
  <2> QED
    BY <2>1, <2>2, <2>3 DEF Uptime
<1>4. TypeOK'
  <2>1. since' \in 0..(Gap + Settle)
    BY <1>3 DEF PromoteInv, TypeOK
  <2>2. offline' \in BOOLEAN /\ pc' \in Places
    BY <1>1, <1>3 DEF PromoteInv, TypeOK, Places, Waiting
  <2>3. result' \in {"none", "done", "failed", "missed"}
    BY <1>1, <1>3 DEF PromoteInv, TypeOK
  <2> QED
    BY <1>1, <1>2, <2>1, <2>2, <2>3 DEF PromoteInv, TypeOK
<1>5. PendingInv'
  BY <1>1, <1>3 DEF PromoteInv, TypeOK, PendingInv, None
<1>6. ClockInv'
  BY <1>1, <1>3 DEF PromoteInv, ClockInv, Waiting
<1>7. WaitInv'
  <2>1. pc' = "wait" /\ restarted /\ ~disturbed' /\ LongUp => uptime < before
    BY <1>1, <1>2 DEF PromoteInv, TypeOK, WaitInv, LongUp, None
  <2> QED
    BY <1>1, <1>3, <2>1 DEF WaitInv, LongUp
<1>8. RestartReal'
  BY <1>1, <1>3 DEF PromoteInv, TypeOK, ClockInv, Waiting, RestartReal
<1> QED
  BY <1>1, <1>3, <1>4, <1>5, <1>6, <1>7, <1>8 DEF PromoteInv, StepInv, RestartSeen

LEMMA SettledStep == PromoteInv /\ Settled => PromoteInv'
<1> SUFFICES ASSUME PromoteInv, Settled PROVE PromoteInv'
  OBVIOUS
<1>1. pc = "settle" /\ pc' = "again" /\ since >= Settle
      /\ UNCHANGED <<slot, uptime, up, pending, frozen, result, attempt, before, offline, since,
                     waited, restarted, disturbed, faults, runs, dry>>
  BY DEF Settled, Goes, plug, timer, history
<1>2. pending = None
  BY <1>1, ConstantsAre DEF PromoteInv, TypeOK, PendingInv, None
<1> QED
  BY <1>1, <1>2 DEF PromoteInv, TypeOK, Places, Waiting, PendingInv, ClockInv, WaitInv, StepInv,
                    RestartReal, RestartSeen

(* The wait runs out: an upload is over by then, and a restart that was     *)
(* not seen is too old for a plug that has not been disturbed.             *)
LEMMA ExpireStep == PromoteInv /\ Expire => PromoteInv'
<1> SUFFICES ASSUME PromoteInv, Expire PROVE PromoteInv'
  OBVIOUS
<1>1. pc = "wait" /\ pc' = "out" /\ result' = "missed" /\ since = 0 /\ waited = Deadline
      /\ UNCHANGED <<slot, uptime, up, pending, frozen, attempt, before, offline, since,
                     waited, restarted, disturbed, faults, runs, dry>>
  BY DEF Expire, Ends, plug, timer, history
<1>2. pending = None
  BY <1>1, ConstantsAre DEF PromoteInv, TypeOK, PendingInv, None
<1>3. restarted /\ ~disturbed => ~LongUp
  BY <1>1, ConstantsAre DEF PromoteInv, TypeOK, WaitInv
<1>4. RestartSeen'
  BY <1>1, <1>3, ConstantsAre DEF RestartSeen, LongUp, PromoteInv, TypeOK, None
<1> QED
  BY <1>1, <1>2, <1>4 DEF PromoteInv, TypeOK, Places, Waiting, PendingInv, ClockInv, WaitInv, StepInv,
                          RestartReal

LEMMA AgainStep == PromoteInv /\ Again => PromoteInv'
<1> SUFFICES ASSUME PromoteInv, Again PROVE PromoteInv'
  OBVIOUS
<1>1. /\ pc = "again"
      /\ UNCHANGED <<slot, uptime, up, pending, frozen, attempt, before, offline, since, waited,
                     restarted, runs, dry>>
      /\ \/ pc' = "freeze" /\ slot = 1 /\ UNCHANGED result
         \/ pc' = "baseline" /\ attempt = 1 /\ UNCHANGED result
         \/ pc' = "out" /\ result' = "failed"
  BY DEF Again, current_ota, Goes, Ends, plug, timer, None
<1>2. faults' \in 0..MaxFaults /\ disturbed' \in BOOLEAN
  BY FaultsType DEF Again, current_ota, PromoteInv
<1> QED
  BY <1>1, <1>2 DEF PromoteInv, TypeOK, Places, Waiting, PendingInv, ClockInv, WaitInv, StepInv,
                    RestartReal, RestartSeen

LEMMA EndStep == PromoteInv /\ (Freeze \/ Kill) => PromoteInv'
<1> SUFFICES ASSUME PromoteInv, Freeze \/ Kill PROVE PromoteInv'
  OBVIOUS
<1>1. /\ pc' = "out" /\ result' \in {"done", "failed"} /\ frozen' \in BOOLEAN
      /\ UNCHANGED <<slot, uptime, up, pending, attempt, before, offline, since, waited,
                     restarted, runs, dry>>
  BY DEF Freeze, Kill, Ends, plug, timer, history, PromoteInv, TypeOK
<1>2. faults' \in 0..MaxFaults /\ disturbed' \in BOOLEAN
  BY FaultsType DEF Freeze, Kill, history, PromoteInv
<1> QED
  BY <1>1, <1>2 DEF PromoteInv, TypeOK, Places, Waiting, PendingInv, ClockInv, WaitInv, StepInv,
                    RestartReal, RestartSeen

-----------------------------------------------------------------------------
LEMMA NextStep == PromoteInv /\ [Next]_vars => PromoteInv'
<1> SUFFICES ASSUME PromoteInv, [Next]_vars PROVE PromoteInv'
  OBVIOUS
<1>1. CASE UNCHANGED vars
  BY <1>1 DEF vars, PromoteInv, TypeOK, PendingInv, ClockInv, WaitInv, LongUp, StepInv, RestartReal,
              RestartSeen
<1> QED
  BY <1>1, RestartStep, ComesUpStep, TickStep, BeginStep, FirstSlotStep, BaselineStep, UploadStep,
     UploadByHandStep, AnswerStep, ReachableStep, UptimeStep, SettledStep, ExpireStep, AgainStep,
     EndStep DEF Next, step_promote

THEOREM PromoteInductive == Spec => []PromoteInv
BY InitPromoteInv, NextStep, PTL DEF Spec

(* Every variable of step D4 stays in its type. *)
THEOREM PromoteTypeOK == Spec => []TypeOK
BY PromoteInductive, PTL DEF PromoteInv

(* An uptime that went back is a restart: with an uptime to compare with,   *)
(* the wait never ends well on a plug that has not restarted.              *)
THEOREM RestartIsReal == Spec => []RestartReal
BY PromoteInductive, PTL DEF PromoteInv

(* And a restart is seen, however it falls between two polls, unless one of *)
(* the named disturbances hid it.                                          *)
THEOREM RestartIsSeen == Spec => []RestartSeen
BY PromoteInductive, PTL DEF PromoteInv

(* A command without --dry-run records D4 done only on a plug that runs     *)
(* from the high slot and has no restart before it, with its settings       *)
(* frozen, whatever dry runs have recorded before.                          *)
THEOREM DoneIsHighSlot == Spec => HighSlot
<1> DEFINE High == pc # "out" /\ pc' = "out" /\ result' = "done" /\ ~dry =>
                     slot = 1 /\ pending = None /\ (frozen' \/ pc = "slot")
<1>1. PromoteInv /\ [Next]_vars => [High]_vars
  <2> SUFFICES ASSUME PromoteInv, Next, pc # "out", pc' = "out", result' = "done", ~dry
               PROVE  slot = 1 /\ pending = None /\ (frozen' \/ pc = "slot")
    OBVIOUS
  <2>1. FirstSlot \/ Freeze
    BY DEF Next, step_promote, Restart, ComesUp, Tick, Begin, Reach, Baseline, Upload,
           UploadByHand, Answer, StartsWaiting, Reachable, Uptime, Settled, Expire, Again, Kill,
           Goes, Ends
  <2>2. CASE FirstSlot
    <3>1. PICK now \in {slot, None} : current_ota(now) /\ now = 1
      BY <2>2 DEF FirstSlot, Goes
    <3> QED
      BY <2>2, <3>1 DEF FirstSlot, current_ota, PromoteInv, PendingInv, None
  <2>3. CASE Freeze
    BY <2>3 DEF Freeze, Ends, PromoteInv, PendingInv, StepInv
  <2> QED
    BY <2>1, <2>2, <2>3
<1> QED
  BY <1>1, PromoteInductive, PTL DEF Spec, HighSlot

-----------------------------------------------------------------------------
(* The vendor OTA server. *)

(* Induction over the subsets of a finite set: the family G holds them all *)
(* when it holds each one that all its parts of one element less are in.   *)
LEMMA SubsetInduction ==
  ASSUME NEW D, IsFiniteSet(D), NEW G,
         \A s \in SUBSET D : (\A x \in s : s \ {x} \in G) => s \in G
  PROVE  SUBSET D \subseteq G
<1> DEFINE Missing == {s \in SUBSET D : s \notin G}
<1> SUFFICES ASSUME Missing # {} PROVE FALSE
  OBVIOUS
<1>1. IsWellFoundedOn(StrictSubsetOrdering(D), FiniteSubsetsOf(D))
  BY FS_StrictSubsetOrderingWellFounded
<1>2. FiniteSubsetsOf(D) = SUBSET D
  BY FS_FiniteSubsetsOfFinite
<1>3. PICK s \in Missing : \A t \in Missing : <<t, s>> \notin StrictSubsetOrdering(D)
  <2> HIDE DEF Missing
  <2>1. Missing \subseteq FiniteSubsetsOf(D)
    BY <1>2 DEF Missing
  <2> QED
    BY <1>1, <2>1, WFMin
<1>4. ASSUME NEW x \in s PROVE s \ {x} \in G
  <2>1. s \ {x} \in SUBSET D /\ s \ {x} \subseteq s /\ s \ {x} # s /\ s \in SUBSET D
    OBVIOUS
  <2>2. <<s \ {x}, s>> \in StrictSubsetOrdering(D)
    BY <2>1 DEF StrictSubsetOrdering
  <2> QED
    BY <1>3, <2>1, <2>2
<1> QED
  BY <1>3, <1>4

(* The ranges a request can be answered with. *)
Ranges == {r \in Bytes \X Bytes : r[1] <= r[2]}

(* A list of ranges, looked at as its positions. *)
Listed(ranges, positions) ==
  IsFiniteSet(positions) /\ \A i \in positions : ranges[i] \in Ranges

LEMMA RangesAre ==
  \A r \in Ranges : /\ r[1] \in Int /\ r[2] \in Int /\ 0 <= r[1] /\ r[1] <= r[2] /\ r[2] < Length
                    /\ r = <<r[1], r[2]>>
BY DeliveryAssumption DEF Ranges, Bytes

LEMMA LatestIs ==
  ASSUME NEW ranges, NEW D, Listed(ranges, D), NEW s \in SUBSET D, s # {}
  PROVE  /\ Latest(ranges, s) \in s
         /\ \A j \in s : ~Before(ranges[Latest(ranges, s)], ranges[j])
<1> DEFINE Last(t, i) == i \in t /\ \A j \in t : ~Before(ranges[i], ranges[j])
           G == {t \in SUBSET D : t = {} \/ \E i : Last(t, i)}
<1>1. ASSUME NEW t \in SUBSET D, \A x \in t : t \ {x} \in G PROVE t \in G
  <2> SUFFICES ASSUME t # {} PROVE \E i : Last(t, i)
    OBVIOUS
  <2>1. PICK x \in t : TRUE
    OBVIOUS
  <2>2. ~Before(ranges[x], ranges[x])
    BY RangesAre DEF Listed, Before
  <2>3. CASE t \ {x} = {}
    BY <2>1, <2>2, <2>3
  <2>4. CASE \E i : Last(t \ {x}, i)
    <3>1. PICK i : Last(t \ {x}, i)
      BY <2>4
    <3>2. CASE Before(ranges[i], ranges[x])
      <4>1. \A j \in t : ~Before(ranges[x], ranges[j])
        BY <2>2, <3>1, <3>2, RangesAre DEF Listed, Before
      <4> QED
        BY <2>1, <4>1
    <3>3. CASE ~Before(ranges[i], ranges[x])
      BY <3>1, <3>3
    <3> QED
      BY <3>2, <3>3
  <2> QED
    BY <1>1, <2>1, <2>3, <2>4
<1>2. SUBSET D \subseteq G
  <2> HIDE DEF G
  <2> QED
    BY <1>1, SubsetInduction DEF Listed
<1>3. \E i \in s : \A j \in s : ~Before(ranges[i], ranges[j])
  BY <1>2
<1> QED
  BY <1>3 DEF Latest

LEMMA EarliestIs ==
  ASSUME NEW ranges, NEW D, Listed(ranges, D), D # {}
  PROVE  /\ Earliest(ranges, D) \in D
         /\ \A j \in D : ~Before(ranges[j], ranges[Earliest(ranges, D)])
<1> DEFINE First(t, i) == i \in t /\ \A j \in t : ~Before(ranges[j], ranges[i])
           G == {t \in SUBSET D : t = {} \/ \E i : First(t, i)}
<1>1. ASSUME NEW t \in SUBSET D, \A x \in t : t \ {x} \in G PROVE t \in G
  <2> SUFFICES ASSUME t # {} PROVE \E i : First(t, i)
    OBVIOUS
  <2>1. PICK x \in t : TRUE
    OBVIOUS
  <2>2. ~Before(ranges[x], ranges[x])
    BY RangesAre DEF Listed, Before
  <2>3. CASE t \ {x} = {}
    BY <2>1, <2>2, <2>3
  <2>4. CASE \E i : First(t \ {x}, i)
    <3>1. PICK i : First(t \ {x}, i)
      BY <2>4
    <3>2. CASE Before(ranges[x], ranges[i])
      <4>1. \A j \in t : ~Before(ranges[j], ranges[x])
        BY <2>2, <3>1, <3>2, RangesAre DEF Listed, Before
      <4> QED
        BY <2>1, <4>1
    <3>3. CASE ~Before(ranges[x], ranges[i])
      BY <3>1, <3>3
    <3> QED
      BY <3>2, <3>3
  <2> QED
    BY <1>1, <2>1, <2>3, <2>4
<1>2. SUBSET D \subseteq G
  <2> HIDE DEF G
  <2> QED
    BY <1>1, SubsetInduction DEF Listed
<1>3. \E i \in D : \A j \in D : ~Before(ranges[j], ranges[i])
  BY <1>2
<1> QED
  BY <1>3 DEF Earliest

-----------------------------------------------------------------------------
(* The merge, position by position. *)

IsFold(g, ranges, run, D) ==
  g = [s \in SUBSET D |->
         IF s = {} THEN run
         ELSE Extend(g[s \ {Latest(ranges, s)}], ranges[Latest(ranges, s)])]

(* Two folds agree where both are defined. *)
LEMMA FoldUnique ==
  ASSUME NEW ranges, NEW run, NEW a, NEW b, Listed(ranges, a), Listed(ranges, b),
         NEW g, IsFold(g, ranges, run, a), NEW h, IsFold(h, ranges, run, b),
         NEW t \in SUBSET (a \cap b)
  PROVE  g[t] = h[t]
<1> DEFINE D == a \cap b
           G == {s \in SUBSET D : g[s] = h[s]}
<1>1. IsFiniteSet(D)
  BY FS_Subset DEF Listed
<1>2. ASSUME NEW s \in SUBSET D, \A x \in s : s \ {x} \in G PROVE s \in G
  <2>1. CASE s = {}
    BY <2>1 DEF IsFold
  <2>2. CASE s # {}
    <3> DEFINE x == Latest(ranges, s)
    <3>1. x \in s
      BY <2>2, LatestIs
    <3>2. g[s \ {x}] = h[s \ {x}]
      BY <1>2, <3>1
    <3>3. g[s] = Extend(g[s \ {x}], ranges[x]) /\ h[s] = Extend(h[s \ {x}], ranges[x])
      BY <2>2 DEF IsFold
    <3> QED
      BY <3>2, <3>3
  <2> QED
    BY <2>1, <2>2
<1> HIDE DEF G
<1>3. SUBSET D \subseteq G
  <2> HIDE DEF D
  <2> QED
    BY <1>1, <1>2, SubsetInduction
<1> QED
  BY <1>3 DEF G

LEMMA FoldExists ==
  ASSUME NEW ranges, NEW run, NEW D, Listed(ranges, D)
  PROVE  \E g : IsFold(g, ranges, run, D)
<1> DEFINE G == {s \in SUBSET D : \E g : IsFold(g, ranges, run, s)}
<1>1. ASSUME NEW s \in SUBSET D, \A x \in s : s \ {x} \in G PROVE s \in G
  <2>1. CASE s = {}
    <3>1. IsFold([t \in {{}} |-> run], ranges, run, {})
      BY DEF IsFold
    <3> QED
      BY <2>1, <3>1
  <2>2. CASE s # {}
    <3> DEFINE Known(t) == CHOOSE v : \E x \in s : \E g :
                                 /\ t \subseteq s \ {x} /\ IsFold(g, ranges, run, s \ {x})
                                 /\ v = g[t]
               new == [t \in SUBSET s |->
                         IF t = {} THEN run
                         ELSE Extend(Known(t \ {Latest(ranges, t)}), ranges[Latest(ranges, t)])]
    <3>0. ASSUME NEW u \in SUBSET s PROVE Listed(ranges, u)
      BY FS_Subset DEF Listed
    <3>1. ASSUME NEW x \in s, NEW g, IsFold(g, ranges, run, s \ {x}), NEW t \in SUBSET (s \ {x})
          PROVE  Known(t) = g[t]
      <4>1. \A y \in s : \A h :
              t \subseteq s \ {y} /\ IsFold(h, ranges, run, s \ {y}) => h[t] = g[t]
        <5> SUFFICES ASSUME NEW y \in s, NEW h, t \subseteq s \ {y}, IsFold(h, ranges, run, s \ {y})
                     PROVE  h[t] = g[t]
          OBVIOUS
        <5>1. /\ t \in SUBSET ((s \ {y}) \cap (s \ {x}))
              /\ Listed(ranges, s \ {x}) /\ Listed(ranges, s \ {y})
          BY <3>0
        <5> QED
          BY <3>1, <5>1, FoldUnique
      <4>2. \E v : \E y \in s : \E h :
              t \subseteq s \ {y} /\ IsFold(h, ranges, run, s \ {y}) /\ v = h[t]
        BY <3>1
      <4> QED
        BY <4>1, <4>2
    <3>2. ASSUME NEW t \in SUBSET s, t # s PROVE Known(t) = new[t]
      <4>1. PICK x \in s : t \subseteq s \ {x}
        BY <3>2
      <4>2. PICK g : IsFold(g, ranges, run, s \ {x})
        BY <1>1
      <4> HIDE DEF Known, new
      <4>3. Known(t) = g[t]
        BY <3>1, <4>1, <4>2
      <4>4. CASE t = {}
        <5>1. g[t] = run
          BY <4>1, <4>2, <4>4 DEF IsFold
        <5>2. new[t] = run
          BY <4>4 DEF new
        <5> QED
          BY <4>3, <5>1, <5>2
      <4>5. CASE t # {}
        <5> DEFINE y == Latest(ranges, t)
        <5>1. Known(t \ {y}) = g[t \ {y}]
          <6>1. t \ {y} \in SUBSET (s \ {x})
            BY <4>1
          <6> QED
            BY <3>1, <4>1, <4>2, <6>1
        <5>2. g[t] = Extend(g[t \ {y}], ranges[y])
          BY <4>1, <4>2, <4>5 DEF IsFold
        <5>3. new[t] = Extend(Known(t \ {y}), ranges[y])
          BY <4>5 DEF new
        <5> QED
          BY <4>3, <5>1, <5>2, <5>3
      <4> QED
        BY <4>4, <4>5
    <3>3. \A t \in SUBSET s : t # {} => t \ {Latest(ranges, t)} # s
      BY <3>0, LatestIs DEF Listed
    <3>4. IsFold(new, ranges, run, s)
      <4>1. \A t \in SUBSET s :
              t # {} => Known(t \ {Latest(ranges, t)}) = new[t \ {Latest(ranges, t)}]
        <5> HIDE DEF new, Known
        <5> QED
          BY <3>2, <3>3
      <4>2. \A t \in SUBSET s :
              new[t] = IF t = {} THEN run
                       ELSE Extend(new[t \ {Latest(ranges, t)}], ranges[Latest(ranges, t)])
        <5> HIDE DEF Known
        <5>1. ASSUME NEW t \in SUBSET s
              PROVE  new[t] = IF t = {} THEN run
                              ELSE Extend(Known(t \ {Latest(ranges, t)}), ranges[Latest(ranges, t)])
          OBVIOUS
        <5> HIDE DEF new
        <5> QED
          BY <4>1, <5>1
      <4>3. new = [t \in SUBSET s |-> new[t]]
        OBVIOUS
      <4> HIDE DEF new
      <4> QED
        BY <4>2, <4>3 DEF IsFold
    <3> HIDE DEF new
    <3> QED
      BY <3>4
  <2> QED
    BY <2>1, <2>2
<1> HIDE DEF G
<1>2. SUBSET D \subseteq G
  BY <1>1, SubsetInduction DEF Listed
<1> QED
  BY <1>2 DEF G

Folded(ranges, run, D) ==
  MapThenFoldSet(LAMBDA next, made : Extend(made, next), run,
                 LAMBDA i : ranges[i], LAMBDA S : Latest(ranges, S), D)

LEMMA FoldedIs ==
  ASSUME NEW ranges, NEW run, NEW D, Listed(ranges, D)
  PROVE  \E g : IsFold(g, ranges, run, D) /\ Folded(ranges, run, D) = g[D]
<1> DEFINE g == CHOOSE h : IsFold(h, ranges, run, D)
<1>1. IsFold(g, ranges, run, D)
  BY FoldExists
<1>2. Folded(ranges, run, D) = g[D]
  BY DEF Folded, MapThenFoldSet, IsFold
<1> QED
  BY <1>1, <1>2

-----------------------------------------------------------------------------
(* What has been merged is counted. *)

Span(ranges, S) == {b \in Bytes : \E i \in S : ranges[i][1] <= b /\ b <= ranges[i][2]}

(* v is the run of bytes that is left of the positions S, with the number   *)
(* of the bytes before it.                                                 *)
Counted(v, ranges, S) ==
  /\ v \in [merged : Nat, lo : Bytes, hi : Bytes] /\ v.lo <= v.hi
  /\ v.lo..v.hi \subseteq Span(ranges, S)
  /\ \A b \in Span(ranges, S) : b <= v.hi
  /\ \E i \in S : ranges[i][1] = v.lo
  /\ Cardinality({b \in Span(ranges, S) : b < v.lo}) = v.merged

LEMMA SpanFinite == \A ranges, S : IsFiniteSet(Span(ranges, S))
<1>1. IsFiniteSet(Bytes)
  BY FS_Interval, DeliveryAssumption DEF Bytes
<1> QED
  BY <1>1, FS_Subset DEF Span

LEMMA RunCounts ==
  ASSUME NEW v, NEW ranges, NEW S, Counted(v, ranges, S)
  PROVE  Cardinality(Span(ranges, S)) = v.merged + v.hi - v.lo + 1
<1> DEFINE earlier == {b \in Span(ranges, S) : b < v.lo}
           within == v.lo..v.hi
<1>1. v.lo \in Int /\ v.hi \in Int /\ v.lo <= v.hi /\ v.merged \in Nat
  BY DeliveryAssumption DEF Counted, Bytes
<1>2. Span(ranges, S) = earlier \cup within /\ earlier \cap within = {}
  BY <1>1, DeliveryAssumption DEF Counted, Span, Bytes
<1>3. IsFiniteSet(earlier) /\ IsFiniteSet(within) /\ Cardinality(within) = v.hi - v.lo + 1
  <2>1. IsFiniteSet(earlier)
    BY SpanFinite, FS_Subset
  <2> QED
    BY <1>1, <2>1, FS_Interval
<1>4. Cardinality(earlier) = v.merged
  BY DEF Counted
<1> HIDE DEF earlier, within
<1>5. Cardinality(earlier \cup within)
        = Cardinality(earlier) + Cardinality(within) - Cardinality(earlier \cap within)
  BY <1>3, FS_Union
<1>6. Cardinality(earlier \cap within) = 0
  BY <1>2, FS_EmptySet
<1> QED
  BY <1>1, <1>2, <1>3, <1>4, <1>5, <1>6

LEMMA ExtendCounts ==
  ASSUME NEW v, NEW ranges, NEW S, NEW x, Counted(v, ranges, S), ranges[x] \in Ranges,
         \A i \in S : ranges[i][1] <= ranges[x][1]
  PROVE  Counted(Extend(v, ranges[x]), ranges, S \cup {x})
<1> DEFINE r == ranges[x]
           after == Span(ranges, S \cup {x})
<1>1. /\ v.lo \in Bytes /\ v.hi \in Bytes /\ v.lo <= v.hi /\ v.merged \in Nat
      /\ r[1] \in Bytes /\ r[2] \in Bytes /\ r[1] <= r[2] /\ v.lo <= r[1]
  BY DEF Counted, Ranges
<1>2. \A b \in Bytes : b \in Int
  BY DeliveryAssumption DEF Bytes
<1>3. \A b : b \in after <=> b \in Span(ranges, S) \/ (b \in Bytes /\ r[1] <= b /\ b <= r[2])
  BY DEF Span
<1>4. CASE r[1] <= v.hi + 1
  <2> DEFINE hi == Later(v.hi, r[2])
  <2>1. Extend(v, r) = [v EXCEPT !.hi = hi]
    BY <1>4 DEF Extend
  <2>2. hi \in Bytes /\ v.hi <= hi /\ r[2] <= hi /\ (hi = v.hi \/ hi = r[2])
    BY <1>1, <1>2 DEF Later
  <2> HIDE DEF hi
  <2>3. /\ Extend(v, r) \in [merged : Nat, lo : Bytes, hi : Bytes]
        /\ Extend(v, r).lo = v.lo /\ Extend(v, r).hi = hi /\ Extend(v, r).merged = v.merged
    BY <2>1, <2>2 DEF Counted
  <2>4. v.lo..hi \subseteq after
    <3> SUFFICES ASSUME NEW b \in v.lo..hi PROVE b \in after
      OBVIOUS
    <3>1. b \in Bytes /\ (b \in v.lo..v.hi \/ (r[1] <= b /\ b <= r[2]))
      BY <1>1, <1>2, <1>4, <2>2, DeliveryAssumption DEF Bytes
    <3> QED
      BY <1>3, <3>1 DEF Counted
  <2>5. \A b \in after : b <= hi
    BY <1>1, <1>2, <1>3, <2>2 DEF Counted, Span
  <2>6. {b \in after : b < v.lo} = {b \in Span(ranges, S) : b < v.lo}
    BY <1>1, <1>2, <1>3 DEF Span
  <2>7. v.lo <= hi
    BY <1>1, <1>2, <2>2
  <2> QED
    BY <2>3, <2>4, <2>5, <2>6, <2>7 DEF Counted
<1>5. CASE ~(r[1] <= v.hi + 1)
  <2>1. Extend(v, r) = [merged |-> v.merged + v.hi - v.lo + 1, lo |-> r[1], hi |-> r[2]]
    BY <1>5 DEF Extend
  <2>2. v.merged + v.hi - v.lo + 1 \in Nat
    BY <1>1, <1>2
  <2>3. r[1]..r[2] \subseteq after
    <3> SUFFICES ASSUME NEW b \in r[1]..r[2] PROVE b \in after
      OBVIOUS
    <3>1. b \in Bytes /\ r[1] <= b /\ b <= r[2]
      BY <1>1, <1>2, DeliveryAssumption DEF Bytes
    <3> QED
      BY <1>3, <3>1
  <2>4. \A b \in after : b <= r[2]
    BY <1>1, <1>2, <1>3, <1>5 DEF Counted, Span
  <2>5. {b \in after : b < r[1]} = Span(ranges, S)
    BY <1>1, <1>2, <1>3, <1>5 DEF Counted, Span
  <2>6. Cardinality({b \in after : b < r[1]}) = v.merged + v.hi - v.lo + 1
    BY <2>5, RunCounts
  <2>7. /\ Extend(v, r) \in [merged : Nat, lo : Bytes, hi : Bytes]
        /\ Extend(v, r).lo = r[1] /\ Extend(v, r).hi = r[2]
        /\ Extend(v, r).merged = v.merged + v.hi - v.lo + 1
    BY <1>1, <2>1, <2>2
  <2>8. \E i \in S \cup {x} : ranges[i][1] = r[1]
    OBVIOUS
  <2> QED
    BY <1>1, <2>3, <2>4, <2>6, <2>7, <2>8 DEF Counted
<1> QED
  BY <1>4, <1>5

LEMMA FirstCounts ==
  ASSUME NEW ranges, NEW x, ranges[x] \in Ranges
  PROVE  Counted([merged |-> 0, lo |-> ranges[x][1], hi |-> ranges[x][2]], ranges, {x})
<1> DEFINE r == ranges[x]
<1>1. r[1] \in Bytes /\ r[2] \in Bytes /\ r[1] <= r[2]
  BY DEF Ranges
<1>2. \A b \in Bytes : b \in Int
  BY DeliveryAssumption DEF Bytes
<1>3. \A b : b \in Span(ranges, {x}) <=> b \in Bytes /\ r[1] <= b /\ b <= r[2]
  BY DEF Span
<1>4. r[1]..r[2] \subseteq Span(ranges, {x})
  <2> SUFFICES ASSUME NEW b \in r[1]..r[2] PROVE b \in Span(ranges, {x})
    OBVIOUS
  <2>1. b \in Bytes /\ r[1] <= b /\ b <= r[2]
    BY <1>1, <1>2, DeliveryAssumption DEF Bytes
  <2> QED
    BY <1>3, <2>1
<1>5. {b \in Span(ranges, {x}) : b < r[1]} = {}
  BY <1>1, <1>2, <1>3
<1> QED
  BY <1>1, <1>3, <1>4, <1>5, FS_EmptySet DEF Counted

(* However the ranges overlap, nest, repeat or leave gaps. *)
THEOREM MergeCountsOnce ==
  \A ranges \in Seq(Ranges) : unique_bytes_served(ranges) = Cardinality(Span(ranges, DOMAIN ranges))
<1> SUFFICES ASSUME NEW ranges \in Seq(Ranges)
             PROVE  unique_bytes_served(ranges) = Cardinality(Span(ranges, DOMAIN ranges))
  OBVIOUS
<1> DEFINE D == DOMAIN ranges
           first == Earliest(ranges, D)
           run == [merged |-> 0, lo |-> ranges[first][1], hi |-> ranges[first][2]]
           rest == D \ {first}
           last == Folded(ranges, run, rest)
<1>1. Listed(ranges, D)
  <2>1. D = 1..Len(ranges) /\ Len(ranges) \in Nat
    OBVIOUS
  <2>2. IsFiniteSet(D)
    BY <2>1, FS_Interval
  <2>3. \A i \in D : ranges[i] \in Ranges
    OBVIOUS
  <2> QED
    BY <2>2, <2>3 DEF Listed
<1>2. CASE ranges = <<>>
  <2>1. Span(ranges, D) = {}
    BY <1>2 DEF Span
  <2> QED
    BY <1>2, <2>1, FS_EmptySet DEF unique_bytes_served
<1>3. CASE ranges # <<>>
  <2>1. D # {}
    <3>1. Len(ranges) \in Nat /\ Len(ranges) # 0 /\ DOMAIN ranges = 1..Len(ranges)
      BY <1>3, EmptySeq
    <3> QED
      BY <3>1
  <2>2. unique_bytes_served(ranges) = last.merged + last.hi - last.lo + 1
    BY <1>3 DEF unique_bytes_served, Folded
  <2> HIDE DEF D, last
  <2>3. first \in D /\ \A j \in D : ~Before(ranges[j], ranges[first])
    BY <1>1, <2>1, EarliestIs
  <2> HIDE DEF first
  <2>4. Listed(ranges, rest)
    BY <1>1, FS_Subset DEF Listed
  <2>5. PICK g : IsFold(g, ranges, run, rest) /\ last = g[rest]
    BY <2>4, FoldedIs DEF last
  <2>6. Counted(run, ranges, {first})
    BY <1>1, <2>3, FirstCounts DEF Listed
  <2> HIDE DEF run, rest
  <2> DEFINE G == {s \in SUBSET rest : Counted(g[s], ranges, s \cup {first})}
  <2>7. ASSUME NEW s \in SUBSET rest, \A x \in s : s \ {x} \in G PROVE s \in G
    <3>1. CASE s = {}
      <4>1. g[s] = run /\ s \cup {first} = {first}
        BY <2>5, <3>1 DEF IsFold
      <4> QED
        BY <2>6, <4>1
    <3>2. CASE s # {}
      <4> DEFINE x == Latest(ranges, s)
      <4>1. x \in s /\ \A j \in s : ~Before(ranges[x], ranges[j])
        BY <2>4, <3>2, LatestIs
      <4>2. g[s] = Extend(g[s \ {x}], ranges[x])
        BY <2>5, <3>2 DEF IsFold
      <4> HIDE DEF x
      <4>3. Counted(g[s \ {x}], ranges, (s \ {x}) \cup {first})
        BY <2>7, <4>1
      <4>4. \A i \in (s \ {x}) \cup {first} : ranges[i][1] <= ranges[x][1]
        <5>1. x \in D /\ s \subseteq D
          BY <4>1 DEF rest
        <5> QED
          BY <1>1, <2>3, <4>1, <5>1, RangesAre DEF Listed, Before
      <4>5. ranges[x] \in Ranges /\ ((s \ {x}) \cup {first}) \cup {x} = s \cup {first}
        BY <2>4, <4>1 DEF Listed
      <4>6. Counted(g[s], ranges, s \cup {first})
        <5> DEFINE S == (s \ {x}) \cup {first}
        <5>1. Counted(g[s \ {x}], ranges, S) /\ \A i \in S : ranges[i][1] <= ranges[x][1]
          BY <4>3, <4>4
        <5> HIDE DEF S
        <5>2. Counted(Extend(g[s \ {x}], ranges[x]), ranges, S \cup {x})
          BY <4>5, <5>1, ExtendCounts
        <5> QED
          BY <4>2, <4>5, <5>2 DEF S
      <4> QED
        BY <4>6
    <3> QED
      BY <3>1, <3>2
  <2> HIDE DEF G
  <2>8. SUBSET rest \subseteq G
    BY <2>4, <2>7, SubsetInduction DEF Listed
  <2>9. Counted(last, ranges, rest \cup {first}) /\ rest \cup {first} = D
    <3>1. Counted(g[rest], ranges, rest \cup {first})
      BY <2>8 DEF G
    <3> QED
      BY <2>3, <2>5, <3>1 DEF rest
  <2> QED
    BY <2>2, <2>9, RunCounts DEF D
<1> QED
  BY <1>2, <1>3

-----------------------------------------------------------------------------
(* The process. *)

DeliveryTypes ==
  /\ main \in {"starting", "sending", "waiting", "verifying", "closing", "exited"}
  /\ conn \in {"none", "idle", "write", "written"}
  /\ asked \in Ranges /\ served_ranges \in Seq(Ranges)
  /\ commanded \in BOOLEAN

(* Every range that is accounted for has been written; one that has been    *)
(* written and not accounted for yet is the one being served.              *)
Accounted ==
  sent = Span(served_ranges, DOMAIN served_ranges)
           \cup (IF conn = "written" THEN asked[1]..asked[2] ELSE {})

SuccessInv ==
  status = 0 => main = "exited" /\ conn = "none" /\ commanded /\ sent = Bytes

DeliveryInv == DeliveryTypes /\ Accounted /\ SuccessInv

LEMMA NoRangeIs == NoRange \in Ranges
BY DeliveryAssumption DEF NoRange, Ranges, Bytes

LEMMA RequestedIs ==
  ASSUME NEW first \in Nat, NEW last, NEW r \in parse_single_range(first, last),
         last = Open \/ last \in Nat
  PROVE  r \in Ranges
<1> DEFINE hi == IF last = Open THEN Length - 1 ELSE last
<1>1. r = <<first, hi>> /\ first <= hi /\ first < Length /\ hi < Length
  BY DEF parse_single_range
<1>2. hi \in Int
  BY DeliveryAssumption
<1> HIDE DEF hi
<1>3. first \in Bytes /\ hi \in Bytes
  BY <1>1, <1>2, DeliveryAssumption DEF Bytes
<1> QED
  BY <1>1, <1>3 DEF Ranges

LEMMA SpanAppended ==
  ASSUME NEW ranges \in Seq(Ranges), NEW r \in Ranges
  PROVE  /\ Append(ranges, r) \in Seq(Ranges)
         /\ Span(Append(ranges, r), DOMAIN Append(ranges, r))
              = Span(ranges, DOMAIN ranges) \cup (r[1]..r[2])
<1> DEFINE more == Append(ranges, r)
           n == Len(ranges)
<1>1. /\ n \in Nat /\ DOMAIN ranges = 1..n /\ DOMAIN more = 1..(n + 1)
      /\ more \in Seq(Ranges) /\ more[n + 1] = r /\ \A i \in 1..n : more[i] = ranges[i]
  BY AppendProperties
<1> HIDE DEF more, n
<1>2. \A b : b \in r[1]..r[2] <=> b \in Bytes /\ r[1] <= b /\ b <= r[2]
  BY RangesAre, DeliveryAssumption DEF Bytes
<1>3. \A i : i \in 1..(n + 1) <=> i \in 1..n \/ i = n + 1
  BY <1>1
<1>4. \A b : b \in Span(more, 1..(n + 1)) <=> b \in Span(ranges, 1..n) \/ b \in r[1]..r[2]
  BY <1>1, <1>2, <1>3 DEF Span
<1> QED
  BY <1>1, <1>4 DEF more

(* To have counted as many bytes as the image has is to have sent it all.   *)
LEMMA CoveredIs ==
  ASSUME DeliveryTypes, Accounted, conn # "written", Covered
  PROVE  sent = Bytes
<1>1. sent = Span(served_ranges, DOMAIN served_ranges)
  BY DEF Accounted
<1>2. Cardinality(sent) = Length
  BY <1>1, MergeCountsOnce DEF Covered, DeliveryTypes
<1>3. IsFiniteSet(Bytes) /\ Cardinality(Bytes) = Length
  <2>1. 0 \in Int /\ Length - 1 \in Int /\ 0 <= Length - 1 /\ Length \in Int
    BY DeliveryAssumption
  <2>2. IsFiniteSet(0..(Length - 1)) /\ Cardinality(0..(Length - 1)) = (Length - 1) - 0 + 1
    BY <2>1, FS_Interval
  <2> QED
    BY <2>1, <2>2 DEF Bytes
<1>4. sent \subseteq Bytes
  BY <1>1 DEF Span
<1> QED
  BY <1>2, <1>3, <1>4, FS_Subset

LEMMA DeliveryInductive == DeliverySpec => []DeliveryInv
<1>1. DeliveryInit => DeliveryInv
  <2> SUFFICES ASSUME DeliveryInit PROVE DeliveryInv
    OBVIOUS
  <2>1. DeliveryTypes
    BY NoRangeIs, EmptySeq DEF DeliveryInit, DeliveryTypes
  <2>2. Accounted
    BY DEF DeliveryInit, Accounted, Span
  <2>3. SuccessInv
    BY DEF DeliveryInit, SuccessInv, Running
  <2> QED
    BY <2>1, <2>2, <2>3 DEF DeliveryInv
<1>2. DeliveryInv /\ [DeliveryNext]_deliveryVars => DeliveryInv'
  <2> SUFFICES ASSUME DeliveryInv, [DeliveryNext]_deliveryVars PROVE DeliveryInv'
    OBVIOUS
  <2> USE DEF DeliveryInv
  <2>1. CASE UNCHANGED deliveryVars
    BY <2>1 DEF deliveryVars, DeliveryTypes, Accounted, SuccessInv
  <2>2. CASE Start \/ SendCommand \/ Observe \/ Verified \/ TimeUp \/ CloudRejects \/ CloudCloses
             \/ CloudBreaks \/ Interrupt \/ InterruptAgain
    <3>1. UNCHANGED <<conn, asked, served_ranges, sent>>
      BY <2>2 DEF Start, SendCommand, Observe, Verified, TimeUp, CloudRejects, CloudCloses,
                  CloudBreaks, Interrupt, InterruptAgain, threadVars
    <3>2. main' \in {"starting", "sending", "waiting", "verifying", "closing", "exited"}
          /\ commanded' \in BOOLEAN
      BY <2>2 DEF Start, SendCommand, Observe, Verified, TimeUp, CloudRejects, CloudCloses,
                  CloudBreaks, Interrupt, InterruptAgain, Raised, Exit, DeliveryTypes
    <3>3. SuccessInv'
      <4>1. main # "exited" /\ status' \in {status, 1}
        BY <2>2 DEF Start, SendCommand, Observe, Verified, TimeUp, CloudRejects, CloudCloses,
                    CloudBreaks, Interrupt, InterruptAgain, InLoop, Exit
      <4> QED
        BY <4>1 DEF SuccessInv
    <3> QED
      BY <3>1, <3>2, <3>3 DEF DeliveryTypes, Accounted
  <2>3. CASE Shutdown
    <3>1. conn = "none" /\ UNCHANGED <<conn, asked, served_ranges, sent, commanded>>
          /\ main' = "exited" /\ (status' = 0 => commanded /\ Covered)
      BY <2>3 DEF Shutdown, Exit, threadVars
    <3>2. status' = 0 => sent = Bytes
      BY <3>1, CoveredIs
    <3> QED
      BY <3>1, <3>2 DEF DeliveryTypes, Accounted, SuccessInv
  <2>4. CASE Connect \/ Disconnect \/ RequestAll
             \/ \E first \in 0..Length, last \in {Open} \cup 0..Length : Request(first, last)
    <3>1. /\ UNCHANGED <<main, served_ranges, sent, commanded, status>>
          /\ conn # "written" /\ conn' \in {"none", "idle", "write"}
          /\ conn = "none" => main # "exited"
      BY <2>4 DEF Connect, Disconnect, RequestAll, Request
    <3>2. asked' \in Ranges
      <4>1. CASE \E first \in 0..Length, last \in {Open} \cup 0..Length : Request(first, last)
        <5>1. PICK first \in 0..Length, last \in {Open} \cup 0..Length : Request(first, last)
          BY <4>1
        <5>2. first \in Nat /\ (last = Open \/ last \in Nat)
          BY DeliveryAssumption
        <5>3. asked' = asked \/ asked' \in parse_single_range(first, last)
          BY <5>1 DEF Request
        <5> QED
          BY <5>2, <5>3, RequestedIs DEF DeliveryTypes
      <4>2. CASE Connect \/ Disconnect \/ RequestAll
        BY <4>2, NoRangeIs DEF Connect, Disconnect, RequestAll, DeliveryTypes
      <4> QED
        BY <2>4, <4>1, <4>2
    <3> QED
      BY <3>1, <3>2 DEF DeliveryTypes, Accounted, SuccessInv
  <2>5. CASE Write
    <3>1. /\ UNCHANGED <<main, asked, served_ranges, commanded, status>> /\ conn = "write"
          /\ \/ sent' = sent \cup (asked[1]..asked[2]) /\ conn' = "written"
             \/ conn' = "none" /\ UNCHANGED sent
      BY <2>5 DEF Write
    <3>2. DeliveryTypes' /\ SuccessInv'
      BY <3>1 DEF DeliveryTypes, SuccessInv
    <3>3. Accounted'
      BY <3>1 DEF Accounted
    <3> QED
      BY <3>2, <3>3
  <2>6. CASE Account
    <3>1. /\ UNCHANGED <<main, asked, sent, commanded, status>>
          /\ conn = "written" /\ conn' = "idle" /\ served_ranges' = Append(served_ranges, asked)
      BY <2>6 DEF Account
    <3>2. served_ranges' \in Seq(Ranges)
          /\ Span(served_ranges', DOMAIN served_ranges')
               = Span(served_ranges, DOMAIN served_ranges) \cup (asked[1]..asked[2])
      BY <3>1, SpanAppended DEF DeliveryTypes
    <3>3. DeliveryTypes' /\ SuccessInv'
      BY <3>1, <3>2 DEF DeliveryTypes, SuccessInv
    <3>4. Accounted'
      BY <3>1, <3>2 DEF Accounted
    <3> QED
      BY <3>3, <3>4
  <2> QED
    BY <2>1, <2>2, <2>3, <2>4, <2>5, <2>6 DEF DeliveryNext, Main, Handler
<1> QED
  BY <1>1, <1>2, PTL DEF DeliverySpec

(* The coverage counts the bytes that were sent, each once.                 *)
THEOREM CoverageIsExact == DeliverySpec => []CoverageExact
<1>1. DeliveryInv => CoverageExact
  <2> SUFFICES ASSUME DeliveryInv PROVE CoverageExact
    OBVIOUS
  <2>1. sent \subseteq Bytes
    <3>1. asked[1]..asked[2] \subseteq Bytes
      BY RangesAre, DeliveryAssumption DEF DeliveryInv, DeliveryTypes, Bytes
    <3> QED
      BY <3>1 DEF DeliveryInv, Accounted, Span
  <2>2. conn # "written" => unique_bytes_served(served_ranges) = Cardinality(sent)
    BY MergeCountsOnce DEF DeliveryInv, DeliveryTypes, Accounted
  <2> QED
    BY <2>1, <2>2 DEF CoverageExact
<1> QED
  BY <1>1, DeliveryInductive, PTL

(* Success is the whole image, sent after the command.                     *)
THEOREM SuccessIsTruth == DeliverySpec => []SuccessTruth
<1>1. DeliveryInv => SuccessTruth
  BY DEF DeliveryInv, SuccessInv, SuccessTruth
<1> QED
  BY <1>1, DeliveryInductive, PTL
=============================================================================
