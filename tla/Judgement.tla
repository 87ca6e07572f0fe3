----------------------------- MODULE Judgement -----------------------------
(***************************************************************************)
(* What the server makes of a preflight (tools/serve_safeboot_migration.py *)
(* _finish_preflight): the uploaded table sector is read, has to be the    *)
(* stock one, the settings window is analysed, and only then is the report *)
(* compared with the uploads and the evidence recorded.                    *)
(*                                                                         *)
(* The plug's storage library writes settings until the capture, which is  *)
(* of one moment (Phases shows that of what a report agrees with).  The    *)
(* sector may hold anything: the program for the plug has compared its     *)
(* hash, and the server does not rely on that.                             *)
(***************************************************************************)
EXTENDS Sequences, PartitionTable, Nvs

CONSTANT SOURCE_PARTITIONS  \* the stock partitions, in the table's order

VARIABLES
  pc,       \* how far the judgement is; "none" before the capture
  mode,     \* the migration's
  evidence  \* the recorded status of the preflight

judgeVars == <<pc, mode, evidence>>
vars == <<tableVars, nvsVars, judgeVars>>

Modes == {"official", "recovery"}

RowsOf(partitions) ==
  [i \in 0..(Len(partitions) - 1) |-> partitions[i + 1]]
StockRows ==
  \A i \in 0..(Slots - 1) :
    IF i \in DOMAIN RowsOf(SOURCE_PARTITIONS)
      THEN sector.slot[i] = RowsOf(SOURCE_PARTITIONS)[i]
      ELSE i = Len(SOURCE_PARTITIONS) => sector.slot[i].magic = "md5"

Init ==
  /\ TableInit /\ NvsInit
  /\ pc = "none" /\ evidence = "none" /\ mode \in Modes

(* Bound: settings are written only where the judgement gets to see them.  *)
Settle ==
  /\ pc = "none" /\ StockRows /\ sector.digest /\ sector.erased
  /\ NvsNext /\ UNCHANGED <<tableVars, judgeVars>>

Capture ==
  /\ pc = "none" /\ pc' = "table"
  /\ UNCHANGED <<tableVars, nvsVars, mode, evidence>>

Judging(stage) == pc = stage /\ UNCHANGED <<nvsVars, mode>>
Goto(stage) == pc' = stage /\ UNCHANGED evidence
Record(status, stage) == evidence' = status /\ pc' = stage

ReadTable == Judging("table") /\ TableNext /\ UNCHANGED <<pc, evidence>>

(* require_exact_partitions, and the allow-listed hash: bytes that are not  *)
(* in any field may still differ from the stock table's.                   *)
JudgeTable ==
  /\ Judging("table") /\ UNCHANGED tableVars
  /\ \/ verdict \in {"refused", "accepted"} /\ Goto("refused")
     \/ verdict = "accepted" /\ StockRows /\ Goto("nvs")

(* A window that is not self-contained ends an official migration with a    *)
(* recorded FAIL; a recovery image does not need it.                       *)
JudgeNvs ==
  /\ Judging("nvs") /\ UNCHANGED tableVars
  /\ IF ~ready /\ mode = "official" THEN Record("FAIL", "refused") ELSE Goto("report")

(* require_report_fields *)
JudgeReport ==
  /\ Judging("report") /\ UNCHANGED tableVars
  /\ Record("PASS", "passed") \/ Goto("refused")

Judge == ReadTable \/ JudgeTable \/ JudgeNvs \/ JudgeReport
Next == Settle \/ Capture \/ Judge

Spec == Init /\ [][Next]_vars

-----------------------------------------------------------------------------
(* An official migration goes on only over settings that survive it: each  *)
(* required blob can be read from the retained window alone, in one         *)
(* version - the newest, unless the newest was just being written.         *)
PassKeepsSettings ==
  evidence = "PASS" /\ mode = "official" =>
    \A k \in Required :
      /\ \E v \in 1..version[k] : Whole(k, v)
      /\ Idle => Whole(k, version[k])

(* ... and is not turned away for nothing: a FAIL is recorded only when the *)
(* capture met a save, something is bad, a newest blob is not whole in the  *)
(* window, or the window lacks its one active or an empty page.            *)
FailEarned ==
  evidence = "FAIL" =>
    \/ ~Idle \/ rot > 0
    \/ \E k \in Required : version[k] = 0 \/ ~Whole(k, version[k])
    \/ Cardinality(InState(Window, "active")) # 1 \/ InState(Window, "empty") = {}

=============================================================================
