---------------------------- MODULE CommitProofs ----------------------------
(***************************************************************************)
(* Proofs about Commit for every layout of S60Flash: any distance D, any   *)
(* Safeboot length L, any bound on faults, power cuts and loads.           *)
(***************************************************************************)
EXTENDS Commit, TLAPS

Copying == {"read", "write", "program", "check"}
Installing == {"verify", "tail", "otadata", "table", "tableProgram", "tableCheck",
               "tableHash"}
NvsKept == \A s \in LiveNvs : flash[s] \in {Nvs, Saved, Unseen}

(* Where control is, and what follows for the closure and the image that   *)
(* runs it.                                                                *)
ControlInv ==
  /\ pc # "none" => boot = "high"
  /\ armed => pc \in {"loaded", "refused", "fetch", "buffer"} /\ off = 0 /\ verdict = "none"
  /\ pc \in {"fetch", "buffer"} => armed
  /\ pc \in Trying \cup RollingBack => verdict = "none"
  /\ verdict = "PASS" => pc \in {"report", "restart"}
  /\ verdict \in {"ROLLED", "FAIL"} => pc \in {"report", "failed", "refused"}
  /\ pc = "report" => verdict # "none"

(* What the guards established and the program has installed so far.       *)
ForwardInv ==
  /\ pc \in {"fetch", "buffer"} => ImageAt(flash, Src)
  /\ pc \in {"fetch", "buffer"} \cup Trying => NvsKept
  /\ pc \in ({"fetch", "buffer"} \cup Trying) \ {"tableProgram", "tableCheck", "tableHash"} =>
       flash[Table] = SrcTable
  /\ pc = "tableProgram" => flash[Table] = Torn
  /\ pc = "tableHash" => flash[Table] = TgtTable
  /\ pc \in {"otadata", "table", "tableProgram", "tableCheck", "tableHash"} =>
       Cleared(flash, Tail)
  /\ pc \in {"table", "tableProgram", "tableCheck", "tableHash"} => Cleared(flash, NewOta)

(* What a rollback can rely on.                                            *)
RollbackInv ==
  /\ pc \in Trying \cup RollingBack => oldTable = SrcTable
  /\ pc \in {"rbTable", "rbTableProgram"} => \A s \in OldOta : flash[s] = oldOta[s]
  /\ pc = "rbTableProgram" => flash[Table] = Torn

(* Nothing is written once the host has heard a PASS.                      *)
AfterPass ==
  heard = "PASS" => pc = "restart" \/ (pc = "none" /\ boot \in {"off", "safeboot", "dead"})

IInv ==
  /\ TypeOK /\ ControlInv /\ CopySafe /\ ForwardInv /\ RollbackInv
  /\ RollbackTruth /\ PassTruth /\ AfterPass

-----------------------------------------------------------------------------
(* The regions lie where the program's arithmetic puts them.               *)
LEMMA Regions ==
  /\ Table \in Sectors /\ LiveNvs \subseteq Sectors /\ NewOta \subseteq Sectors
  /\ OldOta \subseteq Sectors /\ Tail \subseteq Sectors
  /\ Sectors \subseteq Nat /\ Src = Dst + D /\ Src \in Nat
  /\ \A i \in 0..(L - 1) : Dst + i \in Sectors /\ Src + i \in Sectors
  /\ \A s \in NewOta \cup LiveNvs : s < Dst
  /\ \A s \in OldOta : s >= Dst
  /\ L - 1 \in 0..(L - 1)
BY LayoutAssumption DEF Sectors, Src, Tail, Max2

(* Every content the program writes is a content.                          *)
LEMMA Contents ==
  /\ \A i \in Nat : Img(i) \in Content /\ Stock(i) \in Content
  /\ {DirtyEnd, Erased, Torn, Nvs, Saved, Unseen, SrcTable, TgtTable, OldBoot} \subseteq Content
BY LayoutAssumption
DEF Content, Img, Stock, DirtyEnd, Erased, Torn, Nvs, Saved, Unseen, SrcTable, TgtTable, OldBoot

(* Contents of different kinds, and different sectors of an image, differ. *)
LEMMA Distinct ==
  /\ SrcTable # TgtTable /\ SrcTable # Torn /\ TgtTable # Torn
  /\ \A i \in Nat : Img(i) # DirtyEnd /\ Img(i) # Torn /\ Img(i) # Saved /\ DirtyEnd # Saved
BY DEF Img, DirtyEnd, Saved, Torn, SrcTable, TgtTable

-----------------------------------------------------------------------------
(* The staged flash the earlier phases leave satisfies the invariant.      *)
LEMMA InitIInv == Init => IInv
<1> SUFFICES ASSUME Init PROVE IInv
  OBVIOUS
<1>1. flash \in [Sectors -> Content]
  <2>1. PICK last \in {Img(L - 1), DirtyEnd, Torn}, nvs \in {Nvs, Stock(0)} :
          flash = StagedFlash(last, nvs)
    BY DEF Init
  <2>2. last \in Content /\ nvs \in Content
    BY Contents, LayoutAssumption
  <2>3. \A s \in Region(Src, L - 1) : s - Src \in Nat
    BY Regions, LayoutAssumption DEF Region
  <2>4. ASSUME NEW s \in Sectors PROVE StagedFlash(last, nvs)[s] \in Content
    BY <2>2, <2>3, Contents, Regions DEF StagedFlash
  <2> QED
    BY <2>1, <2>4 DEF StagedFlash
<1>2. TypeOK
  <2>1. Erased \in Content /\ [s \in OldOta |-> Erased] \in [OldOta -> Content]
    BY Contents
  <2>2. 0 \in 0..MaxFaults /\ 0 \in 0..MaxCuts /\ 0 \in 0..MaxLoads /\ 0 \in 0..L
    BY LayoutAssumption, BoundsAssumption
  <2> QED
    BY <1>1, <2>1, <2>2 DEF Init, TypeOK, Verdict, Running, Resting
<1> QED
  BY <1>2
  DEF IInv, Init, ControlInv, CopySafe, ForwardInv, RollbackInv, RollbackTruth,
      PassTruth, AfterPass, Trying, RollingBack

-----------------------------------------------------------------------------
(* Steps that leave flash alone. *)
LEMMA LoadStep == IInv /\ Load => IInv'
<1> SUFFICES ASSUME IInv, Load PROVE IInv'
  OBVIOUS
<1> USE DEF IInv, Load, Running, Resting, Trying, RollingBack, Verdict
<1>1. TypeOK'
  BY BoundsAssumption, LayoutAssumption DEF TypeOK
<1>2. ControlInv'
  BY DEF ControlInv
<1>3. CopySafe' /\ ForwardInv' /\ RollbackInv'
  BY DEF ControlInv, CopySafe, ForwardInv, RollbackInv, NvsKept
<1>4. RollbackTruth' /\ PassTruth' /\ AfterPass'
  BY DEF ControlInv, RollbackTruth, PassTruth, AfterPass
<1> QED
  BY <1>1, <1>2, <1>3, <1>4

LEMMA CallStep ==
  ASSUME NEW rightToken \in BOOLEAN, IInv, Call(rightToken) PROVE IInv'
<1> USE DEF IInv, Call, Running, Resting, Trying, RollingBack, Verdict
<1>1. TypeOK'
  BY BoundsAssumption, LayoutAssumption DEF TypeOK, program, budget
<1>2. ControlInv'
  BY DEF ControlInv, program, GuardsHold
<1>3. CopySafe' /\ ForwardInv' /\ RollbackInv'
  BY DEF ControlInv, CopySafe, ForwardInv, RollbackInv, NvsKept, program, GuardsHold, BodyAt, PadAt, ImageAt
<1>4. RollbackTruth' /\ PassTruth' /\ AfterPass'
  BY DEF ControlInv, RollbackTruth, PassTruth, AfterPass, program
<1> QED
  BY <1>1, <1>2, <1>3, <1>4

LEMMA FetchTableStep == IInv /\ FetchTable => IInv'
<1> SUFFICES ASSUME IInv, FetchTable PROVE IInv'
  OBVIOUS
<1> USE DEF IInv, FetchTable, Running, Resting, Trying, RollingBack, Verdict
<1>1. TypeOK'
  BY BoundsAssumption, LayoutAssumption DEF TypeOK, program, budget
<1>2. ControlInv'
  BY DEF ControlInv, program
<1>3. CopySafe' /\ ForwardInv' /\ RollbackInv'
  BY DEF ControlInv, CopySafe, ForwardInv, RollbackInv, NvsKept, program
<1>4. RollbackTruth' /\ PassTruth' /\ AfterPass'
  BY DEF ControlInv, RollbackTruth, PassTruth, AfterPass, program
<1> QED
  BY <1>1, <1>2, <1>3, <1>4

LEMMA BufferStep == IInv /\ Buffer => IInv'
<1> SUFFICES ASSUME IInv, Buffer PROVE IInv'
  OBVIOUS
<1> USE DEF IInv, Buffer, Running, Resting, Trying, RollingBack, Verdict
<1>1. TypeOK'
  BY Regions, BoundsAssumption, LayoutAssumption DEF TypeOK, budget
<1>2. ControlInv'
  BY DEF ControlInv
<1>3. CopySafe' /\ ForwardInv' /\ RollbackInv'
  BY DEF ControlInv, CopySafe, ForwardInv, RollbackInv, NvsKept, ImageAt
<1>4. RollbackTruth' /\ PassTruth' /\ AfterPass'
  BY DEF ControlInv, RollbackTruth, PassTruth, AfterPass
<1> QED
  BY <1>1, <1>2, <1>3, <1>4

LEMMA CopyReadStep == IInv /\ CopyRead => IInv'
<1> SUFFICES ASSUME IInv, CopyRead PROVE IInv'
  OBVIOUS
<1> USE DEF IInv, CopyRead, Running, Resting, Trying, RollingBack, Verdict
<1>1. TypeOK'
  BY Regions, BoundsAssumption, LayoutAssumption DEF TypeOK, budget
<1>2. ControlInv'
  BY DEF ControlInv
<1>3. CopySafe' /\ ForwardInv' /\ RollbackInv'
  BY Regions, LayoutAssumption DEF ControlInv, CopySafe, ForwardInv, RollbackInv, NvsKept, TypeOK
<1>4. RollbackTruth' /\ PassTruth' /\ AfterPass'
  BY DEF ControlInv, RollbackTruth, PassTruth, AfterPass
<1> QED
  BY <1>1, <1>2, <1>3, <1>4

LEMMA CopyCheckStep == IInv /\ CopyCheck => IInv'
<1> SUFFICES ASSUME IInv, CopyCheck PROVE IInv'
  OBVIOUS
<1> USE DEF IInv, CopyCheck, Running, Resting, Trying, RollingBack, Verdict
<1>1. TypeOK'
  BY BoundsAssumption, LayoutAssumption DEF TypeOK, budget, CopySafe
<1>2. ControlInv'
  BY DEF ControlInv
<1>3. CopySafe' /\ ForwardInv' /\ RollbackInv'
  BY Regions, LayoutAssumption DEF ControlInv, CopySafe, ForwardInv, RollbackInv, NvsKept, TypeOK
<1>4. RollbackTruth' /\ PassTruth' /\ AfterPass'
  BY DEF ControlInv, RollbackTruth, PassTruth, AfterPass
<1> QED
  BY <1>1, <1>2, <1>3, <1>4

LEMMA CopyDoneStep == IInv /\ CopyDone => IInv'
<1> SUFFICES ASSUME IInv, CopyDone PROVE IInv'
  OBVIOUS
<1> USE DEF IInv, CopyDone, Running, Resting, Trying, RollingBack, Verdict
<1>1. TypeOK'
  BY BoundsAssumption, LayoutAssumption DEF TypeOK, program, budget
<1>2. ControlInv'
  BY DEF ControlInv, program
<1>3. CopySafe' /\ ForwardInv' /\ RollbackInv'
  BY LayoutAssumption DEF ControlInv, CopySafe, ForwardInv, RollbackInv, NvsKept, program, ImageAt
<1>4. RollbackTruth' /\ PassTruth' /\ AfterPass'
  BY DEF ControlInv, RollbackTruth, PassTruth, AfterPass, program
<1> QED
  BY <1>1, <1>2, <1>3, <1>4

LEMMA VerifyStep == IInv /\ Verify => IInv'
<1> SUFFICES ASSUME IInv, Verify PROVE IInv'
  OBVIOUS
<1> USE DEF IInv, Verify, Running, Resting, Trying, RollingBack, Verdict
<1>1. TypeOK'
  BY BoundsAssumption, LayoutAssumption DEF TypeOK, program, budget
<1>2. ControlInv'
  BY DEF ControlInv, program
<1>3. CopySafe' /\ ForwardInv' /\ RollbackInv'
  BY DEF ControlInv, CopySafe, ForwardInv, RollbackInv, NvsKept, program, BodyAt, PadAt, PutAt
<1>4. RollbackTruth' /\ PassTruth' /\ AfterPass'
  BY DEF ControlInv, RollbackTruth, PassTruth, AfterPass, program
<1> QED
  BY <1>1, <1>2, <1>3, <1>4

LEMMA TableCheckStep == IInv /\ TableCheck => IInv'
<1> SUFFICES ASSUME IInv, TableCheck PROVE IInv'
  OBVIOUS
<1> USE DEF IInv, TableCheck, Running, Resting, Trying, RollingBack, Verdict
<1>1. TypeOK'
  BY BoundsAssumption, LayoutAssumption DEF TypeOK, program, budget
<1>2. ControlInv'
  BY DEF ControlInv, program
<1>3. CopySafe' /\ ForwardInv' /\ RollbackInv'
  BY DEF ControlInv, CopySafe, ForwardInv, RollbackInv, NvsKept, program
<1>4. RollbackTruth' /\ PassTruth' /\ AfterPass'
  BY DEF ControlInv, RollbackTruth, PassTruth, AfterPass, program
<1> QED
  BY <1>1, <1>2, <1>3, <1>4

LEMMA TableHashStep == IInv /\ TableHash => IInv'
<1> SUFFICES ASSUME IInv, TableHash PROVE IInv'
  OBVIOUS
<1> USE DEF IInv, TableHash, Running, Resting, Trying, RollingBack, Verdict
<1>1. TypeOK'
  BY BoundsAssumption, LayoutAssumption DEF TypeOK, budget
<1>2. ControlInv'
  BY DEF ControlInv
<1>3. CopySafe' /\ ForwardInv' /\ RollbackInv'
  BY DEF ControlInv, CopySafe, ForwardInv, RollbackInv, NvsKept
<1>4. RollbackTruth' /\ PassTruth' /\ AfterPass'
  BY DEF ControlInv, RollbackTruth, PassTruth, AfterPass, Canonical, CopySafe, ForwardInv, NvsKept
<1> QED
  BY <1>1, <1>2, <1>3, <1>4

LEMMA RaiseStep == IInv /\ Raise => IInv'
<1> SUFFICES ASSUME IInv, Raise PROVE IInv'
  OBVIOUS
<1> USE DEF IInv, Raise, Running, Resting, Trying, RollingBack, Verdict
<1>1. TypeOK'
  BY BoundsAssumption, LayoutAssumption DEF TypeOK, program
<1>2. ControlInv'
  BY DEF ControlInv, program
<1>3. CopySafe' /\ ForwardInv' /\ RollbackInv'
  BY DEF ControlInv, CopySafe, ForwardInv, RollbackInv, NvsKept, program
<1>4. RollbackTruth' /\ PassTruth' /\ AfterPass'
  BY DEF ControlInv, RollbackTruth, PassTruth, AfterPass, program
<1> QED
  BY <1>1, <1>2, <1>3, <1>4

LEMMA RaiseInRollbackStep == IInv /\ RaiseInRollback => IInv'
<1> SUFFICES ASSUME IInv, RaiseInRollback PROVE IInv'
  OBVIOUS
<1> USE DEF IInv, RaiseInRollback, Running, Resting, Trying, RollingBack, Verdict
<1>1. TypeOK'
  BY BoundsAssumption, LayoutAssumption DEF TypeOK
<1>2. ControlInv'
  BY DEF ControlInv
<1>3. CopySafe' /\ ForwardInv' /\ RollbackInv'
  BY DEF ControlInv, CopySafe, ForwardInv, RollbackInv, NvsKept
<1>4. RollbackTruth' /\ PassTruth' /\ AfterPass'
  BY DEF ControlInv, RollbackTruth, PassTruth, AfterPass
<1> QED
  BY <1>1, <1>2, <1>3, <1>4

LEMMA ReportStep == IInv /\ Report => IInv'
<1> SUFFICES ASSUME IInv, Report PROVE IInv'
  OBVIOUS
<1> USE DEF IInv, Report, Running, Resting, Trying, RollingBack, Verdict
<1>1. TypeOK'
  BY BoundsAssumption, LayoutAssumption DEF TypeOK, program, budget
<1>2. ControlInv'
  BY DEF ControlInv, program
<1>3. CopySafe' /\ ForwardInv' /\ RollbackInv'
  BY DEF ControlInv, CopySafe, ForwardInv, RollbackInv, NvsKept, program
<1>4. RollbackTruth' /\ PassTruth' /\ AfterPass'
  BY DEF ControlInv, RollbackTruth, PassTruth, AfterPass, program
<1> QED
  BY <1>1, <1>2, <1>3, <1>4

-----------------------------------------------------------------------------
(* Steps that write one sector or one region. *)
LEMMA CopyEraseStep == IInv /\ CopyErase => IInv'
<1> SUFFICES ASSUME IInv, CopyErase PROVE IInv'
  OBVIOUS
<1> USE DEF IInv, CopyErase, Running, Resting, Trying, RollingBack, Verdict
<1>1. flash' \in [Sectors -> Content] /\ \A s \in Sectors : s # Dst + off => flash'[s] = flash[s]
  BY Contents, Regions DEF TypeOK
<1>2. TypeOK'
  BY Contents, Regions, BoundsAssumption, LayoutAssumption DEF TypeOK, program, budget, CopySafe
<1>3. ControlInv'
  BY DEF ControlInv, program
<1>4. CopySafe' /\ ForwardInv' /\ RollbackInv'
  BY <1>1, Regions, LayoutAssumption
  DEF ControlInv, CopySafe, ForwardInv, RollbackInv, NvsKept, TypeOK, program
<1>5. RollbackTruth' /\ PassTruth' /\ AfterPass'
  BY DEF ControlInv, RollbackTruth, PassTruth, AfterPass, program
<1> QED
  BY <1>2, <1>3, <1>4, <1>5

LEMMA CopyProgramStep == IInv /\ CopyProgram => IInv'
<1> SUFFICES ASSUME IInv, CopyProgram PROVE IInv'
  OBVIOUS
<1> USE DEF IInv, CopyProgram, Running, Resting, Trying, RollingBack, Verdict
<1>1. flash' \in [Sectors -> Content] /\ \A s \in Sectors : s # Dst + off => flash'[s] = flash[s]
      /\ (flash' # flash => flash'[Dst + off] = data)
  BY Contents, Regions DEF TypeOK, CopySafe
<1>2. TypeOK'
  BY Contents, Regions, BoundsAssumption, LayoutAssumption DEF TypeOK, program, budget, CopySafe
<1>3. ControlInv'
  BY DEF ControlInv, program
<1>4. CopySafe' /\ ForwardInv' /\ RollbackInv'
  BY <1>1, Regions, LayoutAssumption
  DEF ControlInv, CopySafe, ForwardInv, RollbackInv, NvsKept, TypeOK, program
<1>5. RollbackTruth' /\ PassTruth' /\ AfterPass'
  BY DEF ControlInv, RollbackTruth, PassTruth, AfterPass, program
<1> QED
  BY <1>2, <1>3, <1>4, <1>5

(* Settings saved during a yield may spoil what was copied, and nothing     *)
(* else that the program still needs.                                      *)
LEMMA SaveOutside ==
  ASSUME NEW s \in SourceNvs
  PROVE  s \in Sectors /\ s # Table /\ s \notin OldOta /\ \A i \in 0..(L - 1) : Src + i # s
<1>1. s \in Sectors /\ s \in Nat /\ s # Table
  BY Regions, LayoutAssumption DEF SourceNvs
<1>2. PICK o \in OldOta : TRUE
  BY LayoutAssumption
<1>3. o \in Dst..(Dst + D - 1) /\ NvsEnd <= o
  BY LayoutAssumption
<1>4. s < Src
  BY <1>1, <1>3, Regions, LayoutAssumption DEF SourceNvs
<1>5. ASSUME NEW t \in OldOta PROVE s < t
  BY <1>1, Regions, LayoutAssumption DEF SourceNvs
<1>6. s \notin OldOta
  BY <1>1, <1>5
<1> QED
  BY <1>1, <1>4, <1>6, Regions, LayoutAssumption

LEMMA SaveStep == IInv /\ Save => IInv'
<1> SUFFICES ASSUME IInv, Save PROVE IInv'
  OBVIOUS
<1> USE DEF IInv, Save, Running, Resting, Trying, RollingBack, Verdict
<1>1. PICK s \in SourceNvs, c \in {Saved, Unseen} :
        /\ flash' = [flash EXCEPT ![s] = c]
        /\ c = Saved => pc \in {"fetch", "buffer", "read"}
        /\ c = Unseen => pc \in {"tail", "otadata", "table", "tableHash"}
  <2>1. Saved # Unseen
    BY DEF Saved, Unseen
  <2> QED
    BY <2>1 DEF SaveAhead, SaveUnseen
<1>2. s \in Sectors /\ s # Table /\ s \notin OldOta
  BY SaveOutside
<1>3. flash' \in [Sectors -> Content] /\ flash'[s] = c
      /\ \A t \in Sectors : t # s => flash'[t] = flash[t]
  BY <1>1, <1>2, Contents DEF TypeOK
<1>4. TypeOK'
  BY <1>3, BoundsAssumption, LayoutAssumption DEF TypeOK, program
<1>5. ControlInv'
  BY DEF ControlInv, program, SaveAhead, SaveUnseen
<1>6. /\ \A i \in 0..(L - 1) : flash'[Src + i] = flash[Src + i]
      /\ \A i \in 0..(L - 1) : flash'[Dst + i] \in {flash[Dst + i], c}
  <2>1. \A i \in 0..(L - 1) : Dst + i \in Sectors /\ Src + i \in Sectors /\ Src + i # s
    BY SaveOutside, Regions
  <2> QED
    BY <1>3, <2>1
<1>7. CopySafe'
  BY <1>1, <1>6 DEF CopySafe, PutAt, program
<1>8. ForwardInv' /\ RollbackInv'
  <2>1. flash'[Table] = flash[Table] /\ \A t \in OldOta : flash'[t] = flash[t]
    BY <1>2, <1>3, Regions
  <2>2. NvsKept => NvsKept'
    BY <1>3, Regions DEF NvsKept
  <2>3. pc \in {"otadata", "table", "tableHash"} =>
          \A t \in Sectors : flash'[t] \in {flash[t], Unseen}
    BY <1>1, <1>3
  <2>4. /\ pc \in {"otadata", "table", "tableHash"} /\ Cleared(flash, Tail) => Cleared(flash', Tail)
        /\ pc \in {"table", "tableHash"} /\ Cleared(flash, NewOta) => Cleared(flash', NewOta)
    BY <2>3, Regions DEF Cleared
  <2> QED
    BY <1>6, <2>1, <2>2, <2>4
    DEF ForwardInv, RollbackInv, ImageAt, Cleared, program, SaveAhead, SaveUnseen
<1>9. RollbackTruth' /\ PassTruth' /\ AfterPass'
  BY DEF ControlInv, RollbackTruth, PassTruth, AfterPass, program, SaveAhead, SaveUnseen
<1> QED
  BY <1>4, <1>5, <1>7, <1>8, <1>9

LEMMA EraseTailStep == IInv /\ EraseTail => IInv'
<1> SUFFICES ASSUME IInv, EraseTail PROVE IInv'
  OBVIOUS
<1> USE DEF IInv, EraseTail, Running, Resting, Trying, RollingBack, Verdict
<1>1. flash' \in [Sectors -> Content] /\ \A s \in Sectors : s \notin Tail => flash'[s] = flash[s]
  BY Contents, Regions DEF TypeOK, EraseAndCheck, Fill
<1>2. TypeOK'
  BY Contents, Regions, BoundsAssumption, LayoutAssumption DEF TypeOK, program, budget, CopySafe, EraseAndCheck, Fill
<1>3. ControlInv'
  BY DEF ControlInv, program, EraseAndCheck
<1>4. CopySafe' /\ ForwardInv' /\ RollbackInv'
  BY <1>1, Regions, LayoutAssumption
  DEF ControlInv, CopySafe, ForwardInv, RollbackInv, NvsKept, TypeOK, program, EraseAndCheck, Fill, ImageAt, PutAt, Cleared, Tail
<1>5. RollbackTruth' /\ PassTruth' /\ AfterPass'
  BY DEF ControlInv, RollbackTruth, PassTruth, AfterPass, program, EraseAndCheck
<1> QED
  BY <1>2, <1>3, <1>4, <1>5

LEMMA EraseNewOtaStep == IInv /\ EraseNewOta => IInv'
<1> SUFFICES ASSUME IInv, EraseNewOta PROVE IInv'
  OBVIOUS
<1> USE DEF IInv, EraseNewOta, Running, Resting, Trying, RollingBack, Verdict
<1>1. flash' \in [Sectors -> Content] /\ \A s \in Sectors : s \notin NewOta => flash'[s] = flash[s]
  BY Contents, Regions DEF TypeOK, EraseAndCheck, Fill
<1>2. TypeOK'
  BY Contents, Regions, BoundsAssumption, LayoutAssumption DEF TypeOK, program, budget, CopySafe, EraseAndCheck, Fill
<1>3. ControlInv'
  BY DEF ControlInv, program, EraseAndCheck
<1>4. CopySafe' /\ ForwardInv' /\ RollbackInv'
  BY <1>1, Regions, LayoutAssumption
  DEF ControlInv, CopySafe, ForwardInv, RollbackInv, NvsKept, TypeOK, program, EraseAndCheck, Fill, ImageAt, PutAt, Cleared, Tail
<1>5. RollbackTruth' /\ PassTruth' /\ AfterPass'
  BY DEF ControlInv, RollbackTruth, PassTruth, AfterPass, program, EraseAndCheck
<1> QED
  BY <1>2, <1>3, <1>4, <1>5

LEMMA TableEraseStep == IInv /\ TableErase => IInv'
<1> SUFFICES ASSUME IInv, TableErase PROVE IInv'
  OBVIOUS
<1> USE DEF IInv, TableErase, Running, Resting, Trying, RollingBack, Verdict
<1>1. flash' \in [Sectors -> Content] /\ \A s \in Sectors : s # Table => flash'[s] = flash[s]
      /\ flash'[Table] = Torn
  BY Contents, Regions DEF TypeOK
<1>2. TypeOK'
  BY Contents, Regions, BoundsAssumption, LayoutAssumption DEF TypeOK, program, budget, CopySafe
<1>3. ControlInv'
  BY DEF ControlInv, program
<1>4. CopySafe' /\ ForwardInv' /\ RollbackInv'
  BY <1>1, Regions, LayoutAssumption
  DEF ControlInv, CopySafe, ForwardInv, RollbackInv, NvsKept, TypeOK, program, ImageAt, PutAt, Cleared, Tail
<1>5. RollbackTruth' /\ PassTruth' /\ AfterPass'
  BY DEF ControlInv, RollbackTruth, PassTruth, AfterPass, program
<1> QED
  BY <1>2, <1>3, <1>4, <1>5

LEMMA TableProgramStep == IInv /\ TableProgram => IInv'
<1> SUFFICES ASSUME IInv, TableProgram PROVE IInv'
  OBVIOUS
<1> USE DEF IInv, TableProgram, Running, Resting, Trying, RollingBack, Verdict
<1>1. flash' \in [Sectors -> Content] /\ \A s \in Sectors : s # Table => flash'[s] = flash[s]
  BY Contents, Regions DEF TypeOK
<1>2. TypeOK'
  BY Contents, Regions, BoundsAssumption, LayoutAssumption DEF TypeOK, program, budget, CopySafe
<1>3. ControlInv'
  BY DEF ControlInv, program
<1>4. CopySafe' /\ ForwardInv' /\ RollbackInv'
  BY <1>1, Regions, LayoutAssumption
  DEF ControlInv, CopySafe, ForwardInv, RollbackInv, NvsKept, TypeOK, program, ImageAt, PutAt, Cleared, Tail
<1>5. RollbackTruth' /\ PassTruth' /\ AfterPass'
  BY DEF ControlInv, RollbackTruth, PassTruth, AfterPass, program
<1> QED
  BY <1>2, <1>3, <1>4, <1>5

LEMMA RollbackOtaStep == IInv /\ RollbackOta => IInv'
<1> SUFFICES ASSUME IInv, RollbackOta PROVE IInv'
  OBVIOUS
<1> USE DEF IInv, RollbackOta, Running, Resting, Trying, RollingBack, Verdict
<1>1. flash' \in [Sectors -> Content] /\ \A s \in Sectors : s \notin OldOta => flash'[s] = flash[s]
  BY Contents, Regions DEF TypeOK, Fill
<1>2. TypeOK'
  BY Contents, Regions, BoundsAssumption, LayoutAssumption DEF TypeOK, program, budget, CopySafe, Fill
<1>3. ControlInv'
  BY DEF ControlInv, program
<1>4. CopySafe' /\ ForwardInv' /\ RollbackInv'
  BY <1>1, Regions, LayoutAssumption
  DEF ControlInv, CopySafe, ForwardInv, RollbackInv, NvsKept, TypeOK, program, Fill
<1>5. RollbackTruth' /\ PassTruth' /\ AfterPass'
  BY DEF ControlInv, RollbackTruth, PassTruth, AfterPass, program
<1> QED
  BY <1>2, <1>3, <1>4, <1>5

LEMMA RollbackOtaProgramStep == IInv /\ RollbackOtaProgram => IInv'
<1> SUFFICES ASSUME IInv, RollbackOtaProgram PROVE IInv'
  OBVIOUS
<1> USE DEF IInv, RollbackOtaProgram, Running, Resting, Trying, RollingBack, Verdict
<1>1. flash' \in [Sectors -> Content] /\ \A s \in Sectors : s \notin OldOta => flash'[s] = flash[s]
  BY Contents, Regions DEF TypeOK, Restored
<1>2. TypeOK'
  BY Contents, Regions, BoundsAssumption, LayoutAssumption DEF TypeOK, program, budget, CopySafe, Restored
<1>3. ControlInv'
  BY DEF ControlInv, program, Restored
<1>4. CopySafe' /\ ForwardInv' /\ RollbackInv'
  BY <1>1, Regions, LayoutAssumption
  DEF ControlInv, CopySafe, ForwardInv, RollbackInv, NvsKept, TypeOK, program, Restored
<1>5. RollbackTruth' /\ PassTruth' /\ AfterPass'
  BY DEF ControlInv, RollbackTruth, PassTruth, AfterPass, program, Restored
<1> QED
  BY <1>2, <1>3, <1>4, <1>5

LEMMA RollbackTableStep == IInv /\ RollbackTable => IInv'
<1> SUFFICES ASSUME IInv, RollbackTable PROVE IInv'
  OBVIOUS
<1> USE DEF IInv, RollbackTable, Running, Resting, Trying, RollingBack, Verdict
<1>1. flash' \in [Sectors -> Content] /\ \A s \in Sectors : s # Table => flash'[s] = flash[s]
      /\ flash'[Table] = Torn
  BY Contents, Regions DEF TypeOK
<1>2. TypeOK'
  BY Contents, Regions, BoundsAssumption, LayoutAssumption DEF TypeOK, program, budget, CopySafe
<1>3. ControlInv'
  BY DEF ControlInv, program
<1>4. CopySafe' /\ ForwardInv' /\ RollbackInv'
  BY <1>1, Regions, LayoutAssumption
  DEF ControlInv, CopySafe, ForwardInv, RollbackInv, NvsKept, TypeOK, program
<1>5. RollbackTruth' /\ PassTruth' /\ AfterPass'
  BY DEF ControlInv, RollbackTruth, PassTruth, AfterPass, program
<1> QED
  BY <1>2, <1>3, <1>4, <1>5

LEMMA RollbackTableProgramStep == IInv /\ RollbackTableProgram => IInv'
<1> SUFFICES ASSUME IInv, RollbackTableProgram PROVE IInv'
  OBVIOUS
<1> USE DEF IInv, RollbackTableProgram, Running, Resting, Trying, RollingBack, Verdict
<1>1. flash' \in [Sectors -> Content] /\ \A s \in Sectors : s # Table => flash'[s] = flash[s]
  BY Contents, Regions DEF TypeOK, Restored
<1>2. TypeOK'
  BY Contents, Regions, BoundsAssumption, LayoutAssumption DEF TypeOK, program, budget, CopySafe, Restored
<1>3. ControlInv'
  BY DEF ControlInv, program, Restored, RollbackInv, BootChoices
<1>4. CopySafe' /\ ForwardInv' /\ RollbackInv'
  BY <1>1, Regions, LayoutAssumption
  DEF ControlInv, CopySafe, ForwardInv, RollbackInv, NvsKept, TypeOK, program, Restored
<1>5. RollbackTruth'
  <2>1. CASE verdict' = "ROLLED"
    <3>1. flash' = [flash EXCEPT ![Table] = oldTable] /\ oldTable = SrcTable
      BY <2>1 DEF Restored, ControlInv, RollbackInv
    <3>2. flash'[Table] = SrcTable
      BY <3>1, Regions DEF TypeOK
    <3>3. \A s \in OldOta : flash'[s] = oldOta'[s]
      BY <3>1, Regions, LayoutAssumption DEF TypeOK, RollbackInv
    <3> QED
      BY <3>2, <3>3 DEF RollbackTruth, BootChoices
  <2> QED
    BY <2>1 DEF RollbackTruth
<1>6. PassTruth' /\ AfterPass'
  BY DEF ControlInv, PassTruth, AfterPass, Restored
<1> QED
  BY <1>2, <1>3, <1>4, <1>5, <1>6

-----------------------------------------------------------------------------
(* Power: what was in RAM is gone, what is in flash stays.                 *)
LEMMA PowerStep == IInv /\ (Restart \/ PowerCut \/ Boot) => IInv'
<1> SUFFICES ASSUME IInv, Restart \/ PowerCut \/ Boot PROVE IInv'
  OBVIOUS
<1> USE DEF IInv, Running, Resting, Trying, RollingBack, Verdict
<1>1. CASE Restart \/ PowerCut
  <2>1. [s \in OldOta |-> Erased] \in [OldOta -> Content] /\ Erased \in Content
    BY Contents
  <2>2. TypeOK'
    <3>1. cuts' \in 0..MaxCuts /\ faults' \in 0..MaxFaults /\ loads' \in 0..MaxLoads
      BY <1>1, BoundsAssumption DEF TypeOK, Restart, PowerCut, Off
    <3>2. off' \in 0..L /\ oldTable' \in Content /\ oldOta' \in [OldOta -> Content]
      BY <1>1, <2>1, LayoutAssumption DEF Restart, PowerCut, Off
    <3> QED
      BY <1>1, <2>1, <3>1, <3>2 DEF TypeOK, Restart, PowerCut, Off
  <2>3. ControlInv' /\ CopySafe' /\ ForwardInv' /\ RollbackInv'
    BY <1>1 DEF Restart, PowerCut, Off, ControlInv, CopySafe, ForwardInv, RollbackInv
  <2>4. RollbackTruth' /\ PassTruth' /\ AfterPass'
    BY <1>1 DEF Restart, PowerCut, Off, RollbackTruth, PassTruth, AfterPass
  <2> QED
    BY <2>2, <2>3, <2>4
<1>2. CASE Boot
  <2>1. pc = "none"
    BY <1>2 DEF Boot, ControlInv, TypeOK
  <2>2. TypeOK' /\ ControlInv'
    BY <1>2, <2>1 DEF Boot, BootChoices, TypeOK, ControlInv, program, budget
  <2>3. CopySafe' /\ ForwardInv' /\ RollbackInv' /\ RollbackTruth' /\ PassTruth'
    BY <1>2, <2>1 DEF Boot, program, ControlInv, CopySafe, ForwardInv, RollbackInv,
                      RollbackTruth, PassTruth
  <2>4. AfterPass'
    <3>1. CASE heard = "PASS"
      <4>1. Canonical(flash)
        BY <3>1 DEF PassTruth
      <4>2. BootChoices(flash) \subseteq {"safeboot"}
        BY <4>1, Distinct DEF Canonical, BootChoices
      <4> QED
        BY <1>2, <2>1, <4>2 DEF Boot, AfterPass
    <3> QED
      BY <1>2, <3>1 DEF Boot, AfterPass
  <2> QED
    BY <2>2, <2>3, <2>4
<1> QED
  BY <1>1, <1>2

LEMMA StutterStep == IInv /\ UNCHANGED vars => IInv'
BY DEF IInv, vars, TypeOK, ControlInv, CopySafe, ForwardInv, RollbackInv, RollbackTruth,
       PassTruth, AfterPass, NvsKept

-----------------------------------------------------------------------------
(* The inductive invariant holds in every state the program can reach.     *)
THEOREM InductiveInvariant == Spec => []IInv
<1>1. IInv /\ [Next]_vars => IInv'
  <2> SUFFICES ASSUME IInv, [Next]_vars PROVE IInv'
    OBVIOUS
  <2>1. CASE Load
    BY <2>1, LoadStep
  <2>2. ASSUME NEW rightToken \in BOOLEAN, Call(rightToken) PROVE IInv'
    BY <2>2, CallStep
  <2>3. CASE Step
    BY <2>3, FetchTableStep, BufferStep, CopyReadStep, CopyEraseStep, CopyProgramStep,
       CopyCheckStep, CopyDoneStep, VerifyStep, EraseTailStep, EraseNewOtaStep,
       TableEraseStep, TableProgramStep, TableCheckStep, TableHashStep, RaiseStep, RollbackOtaStep,
       RollbackOtaProgramStep, RollbackTableStep, RollbackTableProgramStep,
       RaiseInRollbackStep, ReportStep, PowerStep
    DEF Step, Copy, Install, Rollback
  <2>4. CASE Save \/ PowerCut \/ Boot
    BY <2>4, SaveStep, PowerStep
  <2>5. CASE UNCHANGED vars
    BY <2>5, StutterStep
  <2> QED
    BY <2>1, <2>2, <2>3, <2>4, <2>5 DEF Next
<1> QED
  BY <1>1, InitIInv, PTL DEF Spec

(* Every variable stays in its type. *)
THEOREM TypeCorrect == Spec => []TypeOK
BY InductiveInvariant, PTL DEF IInv

(* The overlapping downward copy never reads a sector it has already       *)
(* overwritten, for every displacement and every image length.             *)
THEOREM OverlapSafeCopy == Spec => []CopySafe
BY InductiveInvariant, PTL DEF IInv

(* A PASS, decided on the plug or heard by the host, is the truth.         *)
THEOREM PassIsTruth == Spec => []PassTruth
BY InductiveInvariant, PTL DEF IInv

(* rollback=true means the source table and the old boot records are back. *)
THEOREM RollbackIsTruth == Spec => []RollbackTruth
BY InductiveInvariant, PTL DEF IInv

(* Outside the rewrite of the table sector itself, and outside a rollback  *)
(* that has not succeeded, losing power leaves an image that starts, unless *)
(* settings were saved over the new Safeboot behind its check.             *)
THEOREM PowerLossSurvivable == Spec => []PowerSafe
<1>1. IInv => PowerSafe
  <2> SUFFICES ASSUME IInv,
                      \/ pc \in Trying \ {"tableProgram", "tableCheck"}
                      \/ verdict \in {"PASS", "ROLLED"}
               PROVE  BootChoices(flash) # {} \/ (flash[Table] = TgtTable /\ Spoilt(flash))
    BY DEF PowerSafe
  <2>1. CASE pc \in Trying \ {"tableProgram", "tableCheck", "tableHash"}
    BY <2>1 DEF IInv, ForwardInv, BootChoices
  <2>2. CASE verdict = "ROLLED"
    BY <2>2 DEF IInv, RollbackTruth
  <2>3. CASE pc = "tableHash" \/ verdict = "PASS"
    <3>1. flash[Table] = TgtTable /\ PutAt(flash, Dst)
      BY <2>3 DEF IInv, CopySafe, ForwardInv, PassTruth, Canonical
    <3> QED
      BY <3>1, Distinct DEF BootChoices, PutAt, BodyAt, Spoilt
  <2> QED
    BY <2>1, <2>2, <2>3 DEF IInv, TypeOK
<1> QED
  BY <1>1, InductiveInvariant, PTL

(* A consumed closure is the only one that writes, and a finished attempt  *)
(* goes on only through a new load.                                        *)
THEOREM ClosureIsOneUse == Spec => OneUse
<1> DEFINE Used == /\ flash' # flash /\ pc' # pc => ~armed
                   /\ pc = "failed" => pc' \in {"failed", "refused", "loaded", "none"}
<1>1. IInv /\ [Next]_vars => [Used]_vars
  BY DEF IInv, ControlInv, Next, Load, Call, GuardsHold, Step, FetchTable, Buffer, Copy, CopyRead, CopyErase,
         CopyProgram, CopyCheck, CopyDone, Install, Verify, EraseTail, EraseNewOta,
         EraseAndCheck, TableErase, TableProgram, TableCheck, TableHash, Raise, Save, Rollback,
         RollbackOta,
         RollbackOtaProgram, RollbackTable, RollbackTableProgram, Restored,
         RaiseInRollback, Report, Restart, PowerCut, Off, Boot, Trying, RollingBack,
         Resting, vars
<1> QED
  BY <1>1, InductiveInvariant, PTL DEF Spec, OneUse


-----------------------------------------------------------------------------
(* Commit implements LayoutSwitch: every step is a step of the promise, or *)
(* leaves alone what the promise is about.                                 *)

(* The layout depends on the table's sector only.                          *)
LEMMA LayoutNames ==
  /\ flash[Table] = SrcTable <=> LayoutOf(flash) = "source"
  /\ flash[Table] = TgtTable <=> LayoutOf(flash) = "target"
  /\ flash[Table] = Torn => LayoutOf(flash) = "between"
  /\ LayoutOf(flash) \in {"source", "target", "between"}
BY Distinct DEF LayoutOf

LEMMA LayoutKept == flash'[Table] = flash[Table] => LayoutOf(flash)' = LayoutOf(flash)
BY DEF LayoutOf

LEMMA InitPromise == Init => Promise!Init
<1> SUFFICES ASSUME Init PROVE Promise!Init
  OBVIOUS
<1>1. flash[Table] = SrcTable
  <2>1. PICK last \in {Img(L - 1), DirtyEnd, Torn}, nvs \in {Nvs, Stock(0)} :
          flash = StagedFlash(last, nvs)
    BY DEF Init
  <2>2. Table \notin LiveNvs \cup OldOta /\ \A i \in Nat : Table # Src + i
    BY Regions, LayoutAssumption
  <2>3. Table # Src + L - 1
    BY Regions, LayoutAssumption
  <2>4. Table \notin Region(Src, L - 1)
    <3>1. \A i \in 0..(L - 1 - 1) : Table # Src + i
      BY <2>2, LayoutAssumption
    <3> QED
      BY <3>1, Zenon DEF Region
  <2> QED
    BY <2>1, <2>2, <2>3, <2>4, Regions DEF StagedFlash
<1>2. PutAt(flash, Dst) \in BOOLEAN
  BY DEF PutAt
<1> QED
  BY <1>1, <1>2, LayoutNames DEF Init, Promise!Init, Attempt, Trying, RollingBack

(* Steps outside an attempt: nothing, its beginning, or a report.          *)
LEMMA IdlePromise ==
  ASSUME IInv,
         \/ Load \/ Boot \/ FetchTable
         \/ \E rightToken \in BOOLEAN : Call(rightToken)
  PROVE  UNCHANGED Promise!vars
<1>1. flash' = flash /\ heard' = heard
  BY DEF Load, Boot, FetchTable, Call
<1>2. Attempt = "none" /\ Attempt' = "none"
  BY DEF IInv, TypeOK, ControlInv, Load, Boot, FetchTable, Call, Attempt, Trying, RollingBack,
         Resting, Running
<1> QED
  BY <1>1, <1>2 DEF Promise!vars, LayoutOf, PutAt

LEMMA BeginPromise == IInv /\ Buffer => Promise!Begin
<1> SUFFICES ASSUME IInv, Buffer PROVE Promise!Begin
  OBVIOUS
<1>1. flash' = flash /\ heard' = heard /\ flash[Table] = SrcTable
  BY DEF Buffer, IInv, ForwardInv, Trying
<1>2. Attempt = "none" /\ Attempt' = "forward"
  BY DEF Buffer, Attempt, Trying, RollingBack
<1> QED
  BY <1>1, <1>2, LayoutNames DEF Promise!Begin, LayoutOf, PutAt

LEMMA ReportPromise == IInv /\ Report => Promise!Say \/ UNCHANGED Promise!vars
<1> SUFFICES ASSUME IInv, Report PROVE Promise!Say \/ UNCHANGED Promise!vars
  OBVIOUS
<1>1. flash' = flash /\ heard' \in {heard, verdict} /\ verdict \in {"PASS", "ROLLED", "FAIL"}
  BY DEF Report, IInv, ControlInv, TypeOK, Verdict
<1>2. Attempt = "none" /\ Attempt' = "none"
  BY DEF Report, Attempt, Trying, RollingBack
<1>3. LayoutOf(flash)' = LayoutOf(flash) /\ PutAt(flash, Dst)' = PutAt(flash, Dst)
  BY <1>1 DEF LayoutOf, PutAt
<1>4. CASE heard' = heard
  BY <1>2, <1>3, <1>4 DEF Promise!vars
<1>5. CASE heard' = verdict
  <2>1. verdict = "PASS" => LayoutOf(flash) = "target" /\ PutAt(flash, Dst)
    BY LayoutNames DEF IInv, PassTruth, Canonical
  <2>2. verdict = "ROLLED" => LayoutOf(flash) = "source"
    BY LayoutNames DEF IInv, RollbackTruth
  <2> QED
    BY <1>1, <1>2, <1>3, <1>5, <2>1, <2>2 DEF Promise!Say
<1> QED
  BY <1>1, <1>4, <1>5

(* Under the source table: the copy, settings saved meanwhile, the erases   *)
(* that succeed, and the checks that hold.                                 *)
LEMMA PreparePromise ==
  ASSUME IInv,
         \/ Save /\ pc # "tableHash"
         \/ CopyRead \/ CopyErase \/ CopyProgram \/ CopyDone
         \/ CopyCheck /\ pc' = "read"
         \/ Verify /\ pc' = "tail"
         \/ EraseTail /\ pc' = "otadata"
         \/ EraseNewOta /\ pc' = "table"
  PROVE  Promise!Prepare
<1>1. flash[Table] = SrcTable
  BY DEF IInv, ForwardInv, Trying, Save, SaveAhead, SaveUnseen, CopyRead, CopyErase, CopyProgram, CopyDone, CopyCheck,
         Verify, EraseTail, EraseNewOta
<1>2. flash'[Table] = flash[Table]
  <2>1. CASE Save
    BY <2>1, SaveOutside, Regions DEF Save, SaveAhead, SaveUnseen, IInv, TypeOK
  <2>2. CASE CopyErase \/ CopyProgram
    BY <2>2, Regions, LayoutAssumption
    DEF CopyErase, CopyProgram, IInv, TypeOK, CopySafe
  <2>3. CASE EraseTail \/ EraseNewOta
    BY <2>3, Regions, LayoutAssumption
    DEF EraseTail, EraseNewOta, EraseAndCheck, Fill, Tail, IInv, TypeOK
  <2>4. CASE CopyRead \/ CopyDone \/ CopyCheck \/ Verify
    BY <2>4 DEF CopyRead, CopyDone, CopyCheck, Verify
  <2> QED
    BY <2>1, <2>2, <2>3, <2>4
<1>3. Attempt' = Attempt /\ heard' = heard
  BY DEF Attempt, Trying, RollingBack, Save, CopyRead, CopyErase, CopyProgram, CopyDone,
         CopyCheck, Verify, EraseTail, EraseNewOta, EraseAndCheck
<1>4. PutAt(flash, Dst)' \in BOOLEAN
  BY DEF PutAt
<1> QED
  BY <1>1, <1>2, <1>3, <1>4, LayoutNames, LayoutKept DEF Promise!Prepare

(* Erasing outside the installed image leaves it whole.                    *)
LEMMA EraseKeepsImage ==
  ASSUME IInv, EraseTail \/ EraseNewOta
  PROVE  PutAt(flash, Dst) /\ PutAt(flash', Dst) /\ flash'[Table] = flash[Table]
<1>1. PutAt(flash, Dst)
  BY DEF IInv, CopySafe, EraseTail, EraseNewOta
<1>2. \A s \in Sectors : s \notin Tail \cup NewOta => flash'[s] = flash[s]
  BY DEF EraseTail, EraseNewOta, EraseAndCheck, Fill
<1>3. \A i \in 0..(L - 1) : Dst + i \in Sectors /\ Dst + i \notin Tail \cup NewOta
  BY Regions, LayoutAssumption DEF Tail
<1>4. Table \in Sectors /\ Table \notin Tail \cup NewOta
  BY Regions, LayoutAssumption DEF Tail
<1> QED
  BY <1>1, <1>2, <1>3, <1>4 DEF PutAt

(* A check that fails, an erase that does not take, a raised exception.    *)
LEMMA GiveUpPromise ==
  ASSUME IInv, pc' = "rbOta",
         Raise \/ CopyCheck \/ Verify \/ EraseTail \/ EraseNewOta \/ TableCheck \/ TableHash
  PROVE  Promise!GiveUp
<1>1. LayoutOf(flash)' = LayoutOf(flash) /\ PutAt(flash, Dst)' = PutAt(flash, Dst)
  <2>1. CASE EraseTail \/ EraseNewOta
    BY <2>1, EraseKeepsImage, LayoutKept DEF PutAt
  <2>2. CASE Raise \/ CopyCheck \/ Verify \/ TableCheck \/ TableHash
    BY <2>2 DEF Raise, CopyCheck, Verify, TableCheck, TableHash, LayoutOf, PutAt
  <2> QED
    BY <2>1, <2>2
<1>2. Attempt = "forward" /\ Attempt' = "back" /\ heard' = heard
  BY DEF Attempt, Trying, RollingBack, Raise, CopyCheck, Verify, EraseTail, EraseNewOta, TableCheck,
         TableHash
<1> QED
  BY <1>1, <1>2 DEF Promise!GiveUp

(* The table's own rewrite, with the whole image in place.                 *)
LEMMA SwitchPromise ==
  ASSUME IInv, TableErase \/ TableProgram
  PROVE  Promise!Switch \/ UNCHANGED Promise!vars
<1>1. PutAt(flash, Dst)
  BY DEF IInv, CopySafe, TableErase, TableProgram
<1>2. \A s \in Sectors : s # Table => flash'[s] = flash[s]
  BY DEF TableErase, TableProgram, IInv, TypeOK
<1>3. \A i \in 0..(L - 1) : Dst + i \in Sectors /\ Dst + i # Table
  BY Regions, LayoutAssumption
<1>4. PutAt(flash', Dst)
  BY <1>1, <1>2, <1>3 DEF PutAt
<1>5. PutAt(flash, Dst)' = PutAt(flash, Dst)
  BY <1>1, <1>4 DEF PutAt
<1>6. Attempt = "forward" /\ Attempt' = "forward" /\ heard' = heard
  BY DEF Attempt, Trying, RollingBack, TableErase, TableProgram
<1>7. CASE TableErase
  <2>1. flash[Table] = SrcTable /\ flash'[Table] = Torn
    BY <1>7, Regions DEF TableErase, IInv, TypeOK, ForwardInv, Trying
  <2>2. LayoutOf(flash) = "source" /\ LayoutOf(flash)' = "between"
    BY <2>1, Distinct DEF LayoutOf
  <2> QED
    BY <1>1, <1>5, <1>6, <2>2 DEF Promise!Switch
<1>8. CASE TableProgram
  <2>1. flash[Table] = Torn /\ (flash'[Table] = TgtTable \/ flash' = flash)
    BY <1>8, Regions DEF TableProgram, IInv, TypeOK, ForwardInv
  <2>2. CASE flash' = flash
    BY <2>2, <1>5, <1>6 DEF Promise!vars, LayoutOf
  <2>3. CASE flash'[Table] = TgtTable
    <3>1. LayoutOf(flash) = "between" /\ LayoutOf(flash)' = "target"
      BY <2>1, <2>3, Distinct DEF LayoutOf
    <3> QED
      BY <1>1, <1>5, <1>6, <3>1 DEF Promise!Switch
  <2> QED
    BY <2>1, <2>2, <2>3
<1> QED
  BY <1>7, <1>8

(* Between the two looks at the new table, nothing the promise is about     *)
(* changes: settings saved then do not count against the image.            *)
LEMMA LookPromise ==
  ASSUME IInv, (TableCheck /\ pc' = "tableHash") \/ (Save /\ pc = "tableHash")
  PROVE  UNCHANGED Promise!vars
<1>1. Attempt' = Attempt /\ heard' = heard
  BY DEF Attempt, Trying, RollingBack, TableCheck, Save
<1>2. CASE TableCheck
  BY <1>1, <1>2 DEF TableCheck, Promise!vars, LayoutOf, PutAt
<1>3. CASE Save /\ pc = "tableHash"
  <2>1. PICK s \in SourceNvs : flash' = [flash EXCEPT ![s] = Unseen]
    BY <1>3 DEF Save, SaveAhead, SaveUnseen
  <2>2. \A t \in Sectors : flash'[t] \in {flash[t], Unseen}
    BY <2>1 DEF IInv, TypeOK
  <2>3. flash'[Table] = flash[Table]
    BY <2>1, SaveOutside, Regions DEF IInv, TypeOK
  <2>4. PutAt(flash, Dst) /\ PutAt(flash', Dst)
    BY <1>3, <2>2, Regions DEF IInv, CopySafe, PutAt
  <2>5. PutAt(flash, Dst)' = PutAt(flash, Dst)
    BY <2>4 DEF PutAt
  <2> QED
    BY <1>1, <2>3, <2>5, LayoutKept DEF Promise!vars
<1> QED
  BY <1>2, <1>3

LEMMA SucceedPromise == IInv /\ TableHash /\ pc' = "report" => Promise!Succeed
<1> SUFFICES ASSUME IInv, TableHash, pc' = "report" PROVE Promise!Succeed
  OBVIOUS
<1>1. flash[Table] = TgtTable /\ PutAt(flash, Dst) /\ flash' = flash /\ heard' = heard
  BY DEF TableHash, IInv, CopySafe
<1>2. Attempt = "forward" /\ Attempt' = "none"
  BY DEF TableHash, Attempt, Trying, RollingBack
<1> QED
  BY <1>1, <1>2, LayoutNames DEF Promise!Succeed, LayoutOf, PutAt

(* The rollback touches the table last, and only to bring it back.         *)
LEMMA UndoPromise == IInv /\ Rollback => Promise!Undo
<1> SUFFICES ASSUME IInv, Rollback PROVE Promise!Undo
  OBVIOUS
<1> USE DEF Rollback
<1>1. Attempt = "back" /\ Attempt' \in {"back", "none"} /\ heard' = heard
  BY DEF Attempt, Trying, RollingBack, RollbackOta, RollbackOtaProgram, RollbackTable,
         RollbackTableProgram, RaiseInRollback, Restored
<1>2. \/ LayoutOf(flash)' \in {LayoutOf(flash), "between"}
      \/ LayoutOf(flash) = "between" /\ LayoutOf(flash)' = "source"
  <2>1. CASE RollbackOta \/ RollbackOtaProgram \/ RaiseInRollback
    <3>1. flash'[Table] = flash[Table]
      BY <2>1, Regions, LayoutAssumption
      DEF RollbackOta, RollbackOtaProgram, RaiseInRollback, Restored, Fill
    <3> QED
      BY <3>1, LayoutKept
  <2>2. CASE RollbackTable
    BY <2>2, Regions, Distinct DEF RollbackTable, LayoutOf, IInv, TypeOK
  <2>3. CASE RollbackTableProgram
    <3>1. flash[Table] = Torn /\ (flash' = flash \/ flash'[Table] = SrcTable)
      BY <2>3, Regions
      DEF RollbackTableProgram, Restored, IInv, TypeOK, RollbackInv, RollingBack
    <3> QED
      BY <3>1, Distinct DEF LayoutOf
  <2> QED
    BY <2>1, <2>2, <2>3
<1>3. PutAt(flash, Dst)' \in BOOLEAN
  BY DEF PutAt
<1> QED
  BY <1>1, <1>2, <1>3 DEF Promise!Undo

LEMMA CutPromise == Restart \/ PowerCut => Promise!Cut
BY DEF Restart, PowerCut, Off, Promise!Cut, Attempt, Trying, RollingBack, LayoutOf, PutAt

LEMMA StepPromise == IInv /\ [Next]_vars => [Promise!Next]_(Promise!vars)
<1> SUFFICES ASSUME IInv, [Next]_vars PROVE Promise!Next \/ UNCHANGED Promise!vars
  OBVIOUS
<1> USE DEF Promise!Next
<1>1. CASE Load \/ Boot \/ FetchTable \/ \E rightToken \in BOOLEAN : Call(rightToken)
  BY <1>1, IdlePromise
<1>2. CASE Buffer \/ Report \/ Rollback \/ Restart \/ PowerCut
  BY <1>2, BeginPromise, ReportPromise, UndoPromise, CutPromise
<1>3. CASE Save \/ Copy
  <2>1. CopyCheck => pc' \in {"read", "rbOta"}
    BY DEF CopyCheck
  <2> QED
    BY <1>3, <2>1, PreparePromise, GiveUpPromise, LookPromise DEF Copy
<1>4. CASE Install
  <2>1. /\ Verify => pc' \in {"tail", "rbOta"}
        /\ EraseTail => pc' \in {"otadata", "rbOta"}
        /\ EraseNewOta => pc' \in {"table", "rbOta"}
        /\ TableCheck => pc' \in {"tableHash", "rbOta"}
        /\ TableHash => pc' \in {"report", "rbOta"}
    BY DEF Verify, EraseTail, EraseNewOta, EraseAndCheck, TableCheck, TableHash
  <2> QED
    BY <1>4, <2>1, PreparePromise, GiveUpPromise, SwitchPromise, LookPromise, SucceedPromise
    DEF Install
<1>5. CASE Raise
  BY <1>5, GiveUpPromise DEF Raise
<1>6. CASE UNCHANGED vars
  BY <1>6 DEF vars, Promise!vars, LayoutOf, PutAt, Attempt
<1> QED
  BY <1>1, <1>2, <1>3, <1>4, <1>5, <1>6 DEF Next, Step

(* The program, sector by sector and with every fault, keeps the promise    *)
(* of LayoutSwitch, for every layout of the flash.                         *)
THEOREM CommitSwitchesLayout == Spec => SwitchesLayout
BY InitPromise, StepPromise, InductiveInvariant, PTL DEF Spec, SwitchesLayout, Promise!Spec

=============================================================================
