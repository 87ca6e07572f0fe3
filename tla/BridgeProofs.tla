---------------------------- MODULE BridgeProofs ----------------------------
(***************************************************************************)
(* The bridge's recovery invariant, for images of any length and any       *)
(* number of uploads, library failures and power cuts.                     *)
(***************************************************************************)
EXTENDS Bridge, TLAPS

(* Why the recovery invariant is kept: the slot is pinned for as long as   *)
(* the peer may be incomplete, and the handler runs only under a bridge    *)
(* that serves.                                                            *)
HandlerInv ==
  /\ handler # "idle" => serving
  /\ serving => running = "bridge"
  /\ handler \in {"begin", "recv", "end", "select"} => selected = "bridge"
  /\ handler \in {"select", "respond"} => peer = "new"
  /\ handler = "respond" => selected = "peer"
  /\ restarts <= uploads /\ (handler # "idle" => restarts < uploads)

IInv == TypeOK /\ HandlerInv /\ SelectionStarts /\ FallbackKept

LEMMA InitIInv == Init => IInv
<1> SUFFICES ASSUME Init PROVE IInv
  OBVIOUS
<1>1. 0 \in 0..Buffers /\ 0 \in 0..MaxUploads /\ 0 \in 0..MaxFaults /\ 0 \in 0..MaxCuts
  BY BridgeAssumption
<1>2. TypeOK
  BY <1>1 DEF Init, TypeOK
<1>3. HandlerInv
  BY DEF Init, HandlerInv
<1> QED
  BY <1>2, <1>3 DEF Init, IInv, SelectionStarts, FallbackKept

(* Starting up: the bootloader, then app_main. *)
LEMMA StartStep == IInv /\ (Boot \/ AppMain) => IInv'
<1> SUFFICES ASSUME IInv, Boot \/ AppMain PROVE IInv'
  OBVIOUS
<1>1. CASE Boot
  BY <1>1 DEF IInv, Boot, bounds, tasks, TypeOK, HandlerInv, SelectionStarts, FallbackKept
<1>2. CASE AppMain
  <2>1. faults' \in 0..MaxFaults
    BY <1>2, BridgeAssumption DEF IInv, AppMain, Fault, tasks, TypeOK
  <2>2. TypeOK'
    BY <1>2, <2>1 DEF IInv, AppMain, Fault, tasks, TypeOK
  <2>3. HandlerInv'
    BY <1>2 DEF IInv, AppMain, Fault, tasks, HandlerInv
  <2> QED
    BY <1>2, <2>2, <2>3 DEF IInv, AppMain, Fault, tasks, SelectionStarts, FallbackKept, Bootable
<1> QED
  BY <1>1, <1>2

LEMMA RequestStep == ASSUME NEW valid \in BOOLEAN, IInv, Request(valid) PROVE IInv'
BY BridgeAssumption
DEF IInv, Request, tasks, TypeOK, HandlerInv, SelectionStarts, FallbackKept

(* update_handler, call by call. *)
LEMMA HandlerStep == IInv /\ Handler => IInv'
<1> SUFFICES ASSUME IInv, Handler PROVE IInv'
  OBVIOUS
<1> USE BridgeAssumption
        DEF IInv, TypeOK, HandlerInv, SelectionStarts, FallbackKept, bounds, tasks,
            Fault, UploadError, Bootable
<1>1. CASE PinBridge
  BY <1>1 DEF PinBridge
<1>2. CASE OtaBegin
  BY <1>2 DEF OtaBegin
<1>3. CASE Receive
  BY <1>3 DEF Receive
<1>4. CASE Interrupt
  BY <1>4 DEF Interrupt
<1>5. CASE OtaEnd
  BY <1>5 DEF OtaEnd
<1>6. CASE SelectPeer
  BY <1>6 DEF SelectPeer
<1>7. CASE Respond
  <2>1. restarts' \in 0..MaxUploads /\ restarts' <= uploads /\ faults' \in 0..MaxFaults
    BY <1>7 DEF Respond
  <2> QED
    BY <1>7, <2>1 DEF Respond
<1> QED
  BY <1>1, <1>2, <1>3, <1>4, <1>5, <1>6, <1>7 DEF Handler

(* The plug restarts or loses power: nothing in flash changes. *)
LEMMA OffStep == IInv /\ (DelayedRestart \/ PowerCut) => IInv'
<1> SUFFICES ASSUME IInv, DelayedRestart \/ PowerCut PROVE IInv'
  OBVIOUS
<1>1. cuts' \in 0..MaxCuts /\ 0 \in 0..Buffers /\ 0 \in 0..MaxUploads
  BY BridgeAssumption DEF IInv, DelayedRestart, PowerCut, Off, TypeOK
<1>2. TypeOK'
  BY <1>1 DEF IInv, DelayedRestart, PowerCut, Off, TypeOK
<1>3. HandlerInv'
  BY DEF DelayedRestart, PowerCut, Off, HandlerInv
<1> QED
  BY <1>2, <1>3 DEF IInv, DelayedRestart, PowerCut, Off, SelectionStarts, FallbackKept

THEOREM InductiveInvariant == Spec => []IInv
<1>1. IInv /\ [Next]_vars => IInv'
  <2> SUFFICES ASSUME IInv, [Next]_vars PROVE IInv'
    OBVIOUS
  <2>1. CASE UNCHANGED vars
    BY <2>1 DEF IInv, vars, TypeOK, HandlerInv, SelectionStarts, FallbackKept
  <2> QED
    BY <2>1, StartStep, RequestStep, HandlerStep, OffStep DEF Next
<1> QED
  BY <1>1, InitIInv, PTL DEF Spec

(* Every variable stays in its type. *)
THEOREM BridgeTypeOK == Spec => []TypeOK
BY InductiveInvariant, PTL DEF IInv

(* The boot selection never points at an image that does not start. *)
THEOREM RecoveryInvariant == Spec => []SelectionStarts
BY InductiveInvariant, PTL DEF IInv

(* Before any upload, a power cycle brings the stock image back. *)
THEOREM PowerCycleFallback == Spec => []FallbackKept
BY InductiveInvariant, PTL DEF IInv

(* Stock is only ever given up by a pinned bridge, and "verified" is said  *)
(* only of an image that is validated and selected.                        *)
THEOREM HandlerIsHonest == Spec => HonestHandler
<1> DEFINE Honest ==
      /\ peer = "stock" /\ peer' # "stock" => selected = "bridge" /\ serving
      /\ reply' = "verified" /\ reply # "verified" =>
           peer = "new" /\ selected = "peer"
<1>1. IInv /\ [Next]_vars => [Honest]_vars
  <2> SUFFICES ASSUME IInv, Next PROVE Honest
    OBVIOUS
  <2> USE DEF IInv, HandlerInv, TypeOK, Fault, UploadError, bounds, tasks
  <2>1. CASE Handler
    BY <2>1 DEF Handler, PinBridge, OtaBegin, Receive, Interrupt, OtaEnd, SelectPeer, Respond
  <2>2. CASE ~Handler
    BY <2>2 DEF Next, Boot, AppMain, Request, DelayedRestart, PowerCut, Off
  <2> QED
    BY <2>1, <2>2
<1> QED
  BY <1>1, InductiveInvariant, PTL DEF HonestHandler, Spec

=============================================================================
