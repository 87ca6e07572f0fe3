------------------------------- MODULE Commit -------------------------------
(***************************************************************************)
(* repartition/berry/commit.be.tmpl: the one-use program that runs on the  *)
(* plug from old ota_1, slides the staged Safeboot down over the sectors   *)
(* that hold the old otadata, and installs the canonical partition table.  *)
(*                                                                         *)
(* One action per flash operation of the program, so that a raised Berry   *)
(* exception, a sector that does not read back, or a power cut can fall    *)
(* between any two of them; then the bootloader decides what runs.  A      *)
(* program that runs again is a new closure, loaded by the host.           *)
(***************************************************************************)
EXTENDS S60Flash

CONSTANTS
  MaxFaults,  \* bound: exceptions, sectors that do not read back, settings saved
  MaxCuts,    \* bound: power cuts
  MaxLoads    \* bound: closures the host loads

ASSUME BoundsAssumption == MaxFaults \in Nat /\ MaxCuts \in Nat /\ MaxLoads \in Nat

VARIABLES
  flash,    \* sector -> content
  boot,     \* the image that runs, "off" without power, "dead" if none starts
  pc,       \* next operation of the program, "none" when no closure exists
  armed,    \* the closure's flag
  off,      \* sectors copied so far
  data,     \* the sector in RAM
  oldTable, \* the source table, in RAM
  oldOta,   \* the old boot records, in RAM
  verdict,  \* what the program ends with: PASS, ROLLED (FAIL with
            \* rollback=true) or FAIL (with rollback=false)
  heard,    \* the last report that reached the host
  faults, cuts, loads

program == <<armed, off, data, oldTable, oldOta, verdict>>
budget == <<faults, cuts, loads>>
vars == <<flash, boot, pc, armed, off, data, oldTable, oldOta, verdict, heard,
          faults, cuts, loads>>

Trying ==  \* inside the program's try block
  {"read", "write", "program", "check", "verify", "tail", "otadata",
   "table", "tableProgram", "tableCheck", "tableHash"}
RollingBack == {"rbOta", "rbOtaProgram", "rbTable", "rbTableProgram"}
Running == Trying \cup RollingBack \cup {"fetch", "buffer", "report", "restart"}
Resting == {"none", "loaded", "refused", "failed"}

Verdict == {"none", "PASS", "ROLLED", "FAIL"}

TypeOK ==
  /\ flash \in [Sectors -> Content]
  /\ boot \in {"high", "staged", "safeboot", "off", "dead"}
  /\ pc \in Running \cup Resting
  /\ armed \in BOOLEAN
  /\ off \in 0..L
  /\ data \in Content
  /\ oldTable \in Content /\ oldOta \in [OldOta -> Content]
  /\ verdict \in Verdict /\ heard \in Verdict
  /\ faults \in 0..MaxFaults /\ cuts \in 0..MaxCuts /\ loads \in 0..MaxLoads

-----------------------------------------------------------------------------
(* The state the earlier phases leave: a staged Safeboot that may have been *)
(* damaged since, settings that may have changed since preflight.          *)
StagedFlash(last, nvs) ==
  [s \in Sectors |->
     CASE s = Table -> SrcTable
       [] s \in LiveNvs -> nvs
       [] s \in OldOta -> OldBoot
       [] s = Src + L - 1 -> last
       [] s \in Region(Src, L - 1) -> Img(s - Src)
       [] OTHER -> Stock(s)]

Init ==
  /\ \E last \in {Img(L - 1), DirtyEnd, Torn}, nvs \in {Nvs, Stock(0)} :
        flash = StagedFlash(last, nvs)
  /\ boot = "high" /\ pc = "none" /\ armed = FALSE
  /\ off = 0 /\ data = Erased
  /\ oldTable = Erased /\ oldOta = [s \in OldOta |-> Erased]
  /\ verdict = "none" /\ heard = "none"
  /\ faults = 0 /\ cuts = 0 /\ loads = 0

-----------------------------------------------------------------------------
(* The host has the running app load the program: a fresh closure, armed.  *)
Load ==
  /\ boot = "high" /\ pc \in Resting /\ loads < MaxLoads
  /\ loads' = loads + 1
  /\ pc' = "loaded" /\ armed' = TRUE
  /\ off' = 0 /\ verdict' = "none"
  /\ UNCHANGED <<flash, boot, data, oldTable, oldOta, heard, faults, cuts>>

GuardsHold ==
  /\ armed
  /\ boot = "high"
  /\ flash[Table] = SrcTable
  /\ \A s \in LiveNvs : flash[s] = Nvs
  /\ BodyAt(flash, Src)
  /\ PadAt(flash, Src)

(* commit(provided_token), up to the fetch: a failed guard raises and       *)
(* nothing is reported.                                                    *)
Call(rightToken) ==
  /\ pc \in Resting \ {"none"}
  /\ pc' = IF rightToken /\ GuardsHold THEN "fetch" ELSE "refused"
  /\ UNCHANGED <<flash, boot, program, heard, budget>>

(* fetch_target_table: anything but the pinned table raises.               *)
FetchTable ==
  /\ pc = "fetch"
  /\ pc' \in {"buffer", "refused"}
  /\ UNCHANGED <<flash, boot, program, heard, budget>>

Buffer ==
  /\ pc = "buffer"
  /\ oldTable' = flash[Table] /\ oldOta' = [s \in OldOta |-> flash[s]]
  /\ armed' = FALSE
  /\ pc' = "read"
  /\ UNCHANGED <<flash, boot, off, data, verdict, heard, budget>>

(* The copy loop: read the higher sector, replace the lower one, compare.  *)
CopyRead ==
  /\ pc = "read" /\ off < L
  /\ data' = flash[Src + off]
  /\ pc' = "write"
  /\ UNCHANGED <<flash, boot, armed, off, oldTable, oldOta, verdict, heard, budget>>

CopyErase ==
  /\ pc = "write"
  /\ flash' = [flash EXCEPT ![Dst + off] = Torn]
  /\ pc' = "program"
  /\ UNCHANGED <<boot, program, heard, budget>>

CopyProgram ==
  /\ pc = "program"
  /\ \/ flash' = [flash EXCEPT ![Dst + off] = data] /\ UNCHANGED faults
     \/ faults < MaxFaults /\ faults' = faults + 1 /\ UNCHANGED flash
  /\ pc' = "check"
  /\ UNCHANGED <<boot, program, heard, cuts, loads>>

(* Mutant: the offset is not advanced.                                     *)
CopyCheckInPlace ==
  /\ pc = "check"
  /\ pc' = IF flash[Dst + off] = data THEN "read" ELSE "rbOta"
  /\ UNCHANGED <<flash, boot, program, heard, budget>>

CopyCheck ==
  /\ pc = "check"
  /\ IF flash[Dst + off] = data
       THEN off' = off + 1 /\ pc' = "read"
       ELSE off' = off /\ pc' = "rbOta"
  /\ UNCHANGED <<flash, boot, armed, data, oldTable, oldOta, verdict, heard, budget>>

(* tasmota.yield(), after each sector that is copied or hashed: the         *)
(* firmware may save settings, and goes by the table it started with.  It   *)
(* ought not: step D4 has turned that off.  While the staged image is       *)
(* hashed, after the settings (pc "fetch"), and between two copies the save *)
(* is still ahead of the check of the copy.                                *)
SaveAhead ==
  /\ pc \in {"fetch", "buffer"} \/ (pc = "read" /\ off > 0)
  /\ \E s \in SourceNvs : flash' = [flash EXCEPT ![s] = Saved]

(* In the check of the copy and in those that follow, each at the pc it     *)
(* leads to, the save may hit what has been hashed already.  A save over a  *)
(* sector whose hash is yet to come fails that check, as SaveAhead does at  *)
(* "read" for the copy and the failing branch of EraseAndCheck for a region.*)
SaveUnseen ==
  /\ pc \in {"tail", "otadata", "table", "tableHash"}
  /\ \E s \in SourceNvs : flash' = [flash EXCEPT ![s] = Unseen]

Save ==
  /\ faults < MaxFaults /\ faults' = faults + 1
  /\ SaveAhead \/ SaveUnseen
  /\ UNCHANGED <<boot, pc, program, heard, cuts, loads>>

CopyDone ==
  /\ pc = "read" /\ off = L
  /\ pc' = "verify"
  /\ UNCHANGED <<flash, boot, program, heard, budget>>

(* Mutant: the sectors were compared one by one, that is enough.           *)
VerifyNothing ==
  /\ pc = "verify" /\ pc' = "tail"
  /\ UNCHANGED <<flash, boot, program, heard, budget>>

Verify ==
  /\ pc = "verify"
  /\ pc' = IF BodyAt(flash, Dst) /\ PadAt(flash, Dst) THEN "tail" ELSE "rbOta"
  /\ UNCHANGED <<flash, boot, program, heard, budget>>

(* Mutant: the region is assumed to be erased.                             *)
EraseNothing(S, next) == pc' = next /\ UNCHANGED <<flash, faults>>

(* Erase region S, then hash it: success goes to "next", or some of the    *)
(* region did not erase and the guard raises.                              *)
EraseAndCheck(S, next) ==
  \/ /\ flash' = Fill(flash, S, Erased)
     /\ pc' = next /\ UNCHANGED faults
  \/ /\ S # {} /\ faults < MaxFaults
     /\ flash' = Fill(flash, S, Torn)
     /\ pc' = "rbOta" /\ faults' = faults + 1

EraseTail ==
  /\ pc = "tail"
  /\ EraseAndCheck(Tail, "otadata")
  /\ UNCHANGED <<boot, program, heard, cuts, loads>>

EraseNewOta ==
  /\ pc = "otadata"
  /\ EraseAndCheck(NewOta, "table")
  /\ UNCHANGED <<boot, program, heard, cuts, loads>>

TableErase ==
  /\ pc = "table"
  /\ flash' = [flash EXCEPT ![Table] = Torn]
  /\ pc' = "tableProgram"
  /\ UNCHANGED <<boot, program, heard, budget>>

TableProgram ==
  /\ pc = "tableProgram"
  /\ \/ flash' = [flash EXCEPT ![Table] = TgtTable] /\ UNCHANGED faults
     \/ faults < MaxFaults /\ faults' = faults + 1 /\ UNCHANGED flash
  /\ pc' = "tableCheck"
  /\ UNCHANGED <<boot, program, heard, cuts, loads>>

TableCheck ==
  /\ pc = "tableCheck"
  /\ IF flash[Table] = TgtTable
       THEN pc' = "tableHash"
       ELSE pc' = "rbOta"
  /\ UNCHANGED <<flash, boot, program, heard, budget>>

(* The table is hashed too, and that yields once more.                     *)
TableHash ==
  /\ pc = "tableHash"
  /\ IF flash[Table] = TgtTable
       THEN pc' = "report" /\ verdict' = "PASS"
       ELSE pc' = "rbOta" /\ UNCHANGED verdict
  /\ UNCHANGED <<flash, boot, armed, off, data, oldTable, oldOta, heard, budget>>

(* Any operation of the try block may raise without touching flash (no     *)
(* memory for the 4 KiB buffer, a driver error, a failed re-read).         *)
Raise ==
  /\ pc \in Trying /\ faults < MaxFaults
  /\ faults' = faults + 1 /\ pc' = "rbOta"
  /\ UNCHANGED <<flash, boot, program, heard, cuts, loads>>

-----------------------------------------------------------------------------
(* restore_source_layout: old otadata first, then the source table.        *)
RollbackOta ==
  /\ pc = "rbOta"
  /\ flash' = Fill(flash, OldOta, Torn)
  /\ pc' = "rbOtaProgram"
  /\ UNCHANGED <<boot, program, heard, budget>>

RollbackTable ==
  /\ pc = "rbTable"
  /\ flash' = [flash EXCEPT ![Table] = Torn]
  /\ pc' = "rbTableProgram"
  /\ UNCHANGED <<boot, program, heard, budget>>

(* Mutant: a restore that raised is still reported as a rollback.          *)
RestoredRegardless(written, next) ==
  \/ /\ flash' = written /\ pc' = next
     /\ verdict' = IF next = "report" THEN "ROLLED" ELSE verdict
     /\ UNCHANGED faults
  \/ /\ faults < MaxFaults /\ faults' = faults + 1
     /\ flash' \in {flash, written} /\ pc' = "report"
     /\ verdict' = "ROLLED"

(* The write and its read-back: done, or raised with or without effect.    *)
Restored(written, next) ==
  \/ /\ flash' = written /\ pc' = next
     /\ verdict' = IF next = "report" THEN "ROLLED" ELSE verdict
     /\ UNCHANGED faults
  \/ /\ faults < MaxFaults /\ faults' = faults + 1
     /\ flash' \in {flash, written} /\ pc' = "report"
     /\ verdict' = "FAIL"

(* Mutant: the boot records are restored and the table is forgotten.       *)
RollbackOtaOnly ==
  /\ pc = "rbOtaProgram"
  /\ Restored([s \in Sectors |-> IF s \in OldOta THEN oldOta[s] ELSE flash[s]], "report")
  /\ UNCHANGED <<boot, armed, off, data, oldTable, oldOta, heard, cuts, loads>>

RollbackOtaProgram ==
  /\ pc = "rbOtaProgram"
  /\ Restored([s \in Sectors |-> IF s \in OldOta THEN oldOta[s] ELSE flash[s]], "rbTable")
  /\ UNCHANGED <<boot, armed, off, data, oldTable, oldOta, heard, cuts, loads>>

RollbackTableProgram ==
  /\ pc = "rbTableProgram"
  /\ Restored([flash EXCEPT ![Table] = oldTable], "report")
  /\ UNCHANGED <<boot, armed, off, data, oldTable, oldOta, heard, cuts, loads>>

RaiseInRollback ==
  /\ pc \in RollingBack /\ faults < MaxFaults
  /\ faults' = faults + 1 /\ pc' = "report"
  /\ verdict' = "FAIL"
  /\ UNCHANGED <<flash, boot, armed, off, data, oldTable, oldOta, heard, cuts, loads>>

(* best_effort_report: the report arrives, or its loss is swallowed.       *)
Report ==
  /\ pc = "report"
  /\ heard' \in {heard, verdict}
  /\ pc' = IF verdict = "PASS" THEN "restart" ELSE "failed"
  /\ UNCHANGED <<flash, boot, program, budget>>

(* Restart 99, or the plug loses power; RAM, and with it the closure, goes. *)
Off ==
  /\ boot' = "off" /\ pc' = "none"
  /\ armed' = FALSE /\ off' = 0 /\ data' = Erased
  /\ oldTable' = Erased /\ oldOta' = [s \in OldOta |-> Erased]
  /\ verdict' = "none"
  /\ UNCHANGED <<flash, heard, faults, loads>>

Restart == pc = "restart" /\ Off /\ UNCHANGED cuts

PowerCut == boot \notin {"off", "dead"} /\ cuts < MaxCuts /\ Off /\ cuts' = cuts + 1

Boot ==
  /\ boot = "off"
  /\ boot' \in IF BootChoices(flash) = {} THEN {"dead"} ELSE BootChoices(flash)
  /\ UNCHANGED <<flash, pc, program, heard, budget>>

-----------------------------------------------------------------------------
Copy == CopyRead \/ CopyErase \/ CopyProgram \/ CopyCheck \/ CopyDone
Install == Verify \/ EraseTail \/ EraseNewOta \/ TableErase \/ TableProgram \/ TableCheck
             \/ TableHash
Rollback == RollbackOta \/ RollbackOtaProgram \/ RollbackTable \/ RollbackTableProgram
              \/ RaiseInRollback

Step == FetchTable \/ Buffer \/ Copy \/ Install \/ Raise \/ Rollback \/ Report \/ Restart

Next ==
  \/ Load
  \/ \E rightToken \in BOOLEAN : Call(rightToken)
  \/ Step
  \/ Save
  \/ PowerCut
  \/ Boot

(* The program runs on its own once called, and a plug with power boots.   *)
Spec == Init /\ [][Next]_vars /\ WF_vars(Step) /\ WF_vars(Boot)

-----------------------------------------------------------------------------
(* Properties. *)

(* The downward copy is overlap-safe: while it runs, every sector already  *)
(* copied is in place, unless the firmware has saved its settings over it, *)
(* and every sector still to copy is intact at the staging address,        *)
(* although the copy overwrites its own source; and once it is verified    *)
(* the whole image is in place for as long as the program goes forward,    *)
(* but for sectors the firmware saves over behind the check.               *)
CopySafe ==
  /\ pc \in {"read", "write", "program", "check"} =>
       /\ \A i \in 0..(L - 1) : i < off => flash[Dst + i] \in {Img(i), Saved}
       /\ \A i \in 0..(L - 1) : i >= off => flash[Src + i] = Img(i)
  /\ pc \in {"write", "program", "check"} => off < L /\ data = Img(off)
  /\ pc \in {"tail", "otadata", "table", "tableProgram", "tableCheck", "tableHash"} =>
       PutAt(flash, Dst)

(* Losing power is survivable at every step of the forward path and after  *)
(* a rollback that reported success, the table sector's own rewrite        *)
(* excepted: some image starts.  Once the target table is there that is    *)
(* Safeboot, and nothing at all if settings were saved over it behind its   *)
(* check: the program restarts into that with a PASS.                      *)
Spoilt(f) == \E i \in 0..(L - 1) : f[Dst + i] = Unseen
PowerSafe ==
  (\/ pc \in Trying \ {"tableProgram", "tableCheck"}
   \/ verdict \in {"PASS", "ROLLED"})
  => BootChoices(flash) # {} \/ (flash[Table] = TgtTable /\ Spoilt(flash))

(* A PASS is the truth about what the checks read, when the program decides *)
(* it and ever after on the host: exact table, exact Safeboot, erased tail  *)
(* and otadata, and the settings preflight captured or the firmware saved  *)
(* since.  Nothing but settings saved behind a check differs from that.    *)
PassTruth == (verdict = "PASS" \/ heard = "PASS") => Canonical(flash)

(* "rollback=true" is the truth: table and boot records are what they were *)
(* before the program wrote anything, so ota_1 can start again.            *)
RollbackTruth ==
  verdict = "ROLLED" =>
    /\ flash[Table] = SrcTable
    /\ \A s \in OldOta : flash[s] = oldOta[s]
    /\ "high" \in BootChoices(flash)

(* One closure, one attempt: the program only ever writes flash with its   *)
(* closure consumed, and a finished attempt resumes only through a new load.*)
OneUse ==
  [][/\ flash' # flash /\ pc' # pc => ~armed
     /\ pc = "failed" => pc' \in {"failed", "refused", "loaded", "none"}]_vars

(* What the program promises without its sectors: LayoutSwitch, with the    *)
(* table's sector for the layout and the try block for an attempt.  So the  *)
(* table is left alone until the whole image has been put in place, goes    *)
(* through "between" once in each direction, and reports tell which layout  *)
(* it is.                                                                  *)
LayoutOf(f) ==
  CASE f[Table] = SrcTable -> "source"
    [] f[Table] = TgtTable -> "target"
    [] OTHER -> "between"
Attempt ==
  CASE pc \in Trying -> "forward"
    [] pc \in RollingBack -> "back"
    [] OTHER -> "none"
Promise ==
  INSTANCE LayoutSwitch
    WITH layout <- LayoutOf(flash), image <- PutAt(flash, Dst), attempt <- Attempt,
         word <- heard
SwitchesLayout == Promise!Spec

(* A called program comes to an end: it refuses, fails, or the plug        *)
(* restarts, whatever faults it meets.                                     *)
RunEnds == pc \in Running ~> pc \notin Running

=============================================================================
