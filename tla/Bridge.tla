------------------------------- MODULE Bridge -------------------------------
(***************************************************************************)
(* archive/bridge/main/main.c: the one-shot OTA bridge.  It runs in one    *)
(* app slot, offers the other ("peer") slot for an upload, and keeps the   *)
(* boot selection on an image that starts.  Three things run at once: the  *)
(* HTTP server task with the upload handler, the delayed-restart task an   *)
(* upload leaves behind, and the power switch.                             *)
(*                                                                         *)
(* An image is a number of buffers; that it validates is one of its        *)
(* properties.  The bootloader and the esp_ota library are external: they  *)
(* are modelled by what the bridge relies on.                              *)
(***************************************************************************)
EXTENDS Naturals

CONSTANTS
  Buffers,    \* buffers in an uploaded image
  MaxUploads, \* bound: uploads in one power cycle
  MaxFaults,  \* bound: failing library calls and broken connections
  MaxCuts     \* bound: power cuts

ASSUME BridgeAssumption ==
  Buffers \in Nat \ {0} /\ MaxUploads \in Nat /\ MaxFaults \in Nat /\ MaxCuts \in Nat

VARIABLES
  running,   \* what runs: the bridge, the peer image, or nothing
  serving,   \* the access point and the web server are up
  selected,  \* the boot selection
  peer,      \* what the peer slot holds
  handler,   \* where update_handler is
  image,     \* does the image being uploaded validate?
  remaining, \* buffers still to receive
  restarts,  \* delayed_restart tasks waiting
  taskless,  \* was "verified" answered without such a task?
  reply,     \* last answer to a client in this power cycle
  uploads, faults, cuts

vars == <<running, serving, selected, peer, handler, image, remaining, restarts,
          taskless, reply, uploads, faults, cuts>>
tasks == <<restarts, taskless>>
bounds == <<uploads, faults, cuts>>

Bootable == {"stock", "new"}

TypeOK ==
  /\ running \in {"off", "starting", "bridge", "peer"}
  /\ serving \in BOOLEAN /\ image \in BOOLEAN
  /\ selected \in {"bridge", "peer"}
  /\ peer \in {"stock", "partial", "invalid", "new"}
  /\ handler \in {"idle", "pin", "begin", "recv", "end", "select", "respond"}
  /\ remaining \in 0..Buffers
  /\ restarts \in 0..MaxUploads /\ taskless \in BOOLEAN
  /\ reply \in {"none", "error", "verified"}
  /\ uploads \in 0..MaxUploads /\ faults \in 0..MaxFaults /\ cuts \in 0..MaxCuts

(* The vendor's OTA has put the bridge into one slot and selected it.      *)
Init ==
  /\ running = "off" /\ serving = FALSE
  /\ selected = "bridge" /\ peer = "stock"
  /\ handler = "idle" /\ image = FALSE /\ remaining = 0 /\ restarts = 0
  /\ taskless = FALSE /\ reply = "none" /\ uploads = 0 /\ faults = 0 /\ cuts = 0

Fault == faults < MaxFaults /\ faults' = faults + 1

-----------------------------------------------------------------------------
(* The bootloader starts the selected image, or the other slot when the    *)
(* selected one does not verify.                                           *)
Boot ==
  /\ running = "off"
  /\ running' = IF selected = "peer" /\ peer \in Bootable THEN "peer" ELSE "starting"
  /\ UNCHANGED <<serving, selected, peer, handler, image, remaining, tasks, reply, bounds>>

(* app_main: esp_ota_set_boot_partition verifies the image it selects, and *)
(* when that fails app_main returns before starting Wi-Fi.  Once the peer   *)
(* is selected, a failure to start the network panics and restarts.        *)
AppMain ==
  /\ running = "starting"
  /\ \/ /\ peer \in Bootable
        /\ selected' = "peer" /\ running' = "bridge" /\ serving' = TRUE
        /\ UNCHANGED faults
     \/ /\ peer \in Bootable /\ Fault
        /\ selected' = "peer" /\ running' = "off" /\ UNCHANGED serving
     \/ /\ IF peer \in Bootable THEN Fault ELSE UNCHANGED faults
        /\ running' = "bridge" /\ UNCHANGED <<selected, serving>>
  /\ UNCHANGED <<peer, handler, image, remaining, tasks, reply, uploads, cuts>>

(* A POST /update reaches the handler: its length is refused, or it starts. *)
Request(valid) ==
  /\ serving /\ handler = "idle" /\ uploads < MaxUploads
  /\ uploads' = uploads + 1
  /\ \/ handler' = "pin" /\ image' = valid /\ remaining' = Buffers /\ UNCHANGED reply
     \/ reply' = "error" /\ UNCHANGED <<handler, image, remaining>>
  /\ UNCHANGED <<running, serving, selected, peer, tasks, faults, cuts>>

UploadError == handler' = "idle" /\ reply' = "error"

(* Mutant: the peer is erased while it is still selected.                  *)
PinNothing ==
  /\ handler = "pin"
  /\ handler' = "begin"
  /\ UNCHANGED <<running, serving, selected, peer, image, remaining, tasks, reply, bounds>>

(* Select the bridge itself before the peer is touched.                    *)
PinBridge ==
  /\ handler = "pin"
  /\ \/ selected' = "bridge" /\ handler' = "begin" /\ UNCHANGED <<reply, faults>>
     \/ Fault /\ UploadError /\ UNCHANGED selected
  /\ UNCHANGED <<running, serving, peer, image, remaining, tasks, uploads, cuts>>

(* esp_ota_begin erases the peer slot; it may fail before or while erasing. *)
OtaBegin ==
  /\ handler = "begin"
  /\ \/ peer' = "partial" /\ handler' = "recv" /\ UNCHANGED <<reply, faults>>
     \/ Fault /\ UploadError /\ peer' \in {peer, "partial"}
  /\ UNCHANGED <<running, serving, selected, image, remaining, tasks, uploads, cuts>>

(* One buffer received and written; a receive timeout only tries again.    *)
Receive ==
  /\ handler = "recv" /\ remaining > 0
  /\ remaining' = remaining - 1
  /\ handler' = IF remaining' = 0 THEN "end" ELSE "recv"
  /\ UNCHANGED <<running, serving, selected, peer, image, tasks, reply, bounds>>

(* The connection ends or a write fails: the OTA is aborted.               *)
Interrupt ==
  /\ handler = "recv"
  /\ Fault /\ UploadError
  /\ UNCHANGED <<running, serving, selected, peer, image, remaining, tasks, uploads, cuts>>

(* Mutant: the verdict of esp_ota_end is ignored.                          *)
OtaEndUnchecked ==
  /\ handler = "end"
  /\ peer' = (IF image THEN "new" ELSE "invalid") /\ handler' = "select"
  /\ UNCHANGED <<running, serving, selected, image, remaining, tasks, reply, bounds>>

(* esp_ota_end validates what was written.                                 *)
OtaEnd ==
  /\ handler = "end"
  /\ IF image THEN peer' = "new" /\ handler' = "select" /\ UNCHANGED reply
              ELSE peer' = "invalid" /\ UploadError
  /\ UNCHANGED <<running, serving, selected, image, remaining, tasks, bounds>>

SelectPeer ==
  /\ handler = "select"
  /\ \/ selected' = "peer" /\ handler' = "respond" /\ UNCHANGED <<reply, faults>>
     \/ Fault /\ UploadError /\ UNCHANGED selected
  /\ UNCHANGED <<running, serving, peer, image, remaining, tasks, uploads, cuts>>

(* Mutant: the client is answered and no restart is scheduled.             *)
RespondOnly ==
  /\ handler = "respond"
  /\ handler' = "idle" /\ reply' = "verified"
  /\ UNCHANGED <<running, serving, selected, peer, image, remaining, tasks, bounds>>

(* Answer, then leave the restart to a task of its own: the handler is     *)
(* free for another request before it fires.  Nobody looks whether the     *)
(* task could be created.                                                  *)
Respond ==
  /\ handler = "respond"
  /\ handler' = "idle" /\ reply' = "verified"
  /\ \/ restarts' = restarts + 1 /\ UNCHANGED <<taskless, faults>>
     \/ Fault /\ taskless' = TRUE /\ UNCHANGED restarts
  /\ UNCHANGED <<running, serving, selected, peer, image, remaining, uploads, cuts>>

Off ==
  /\ running' = "off" /\ serving' = FALSE
  /\ handler' = "idle" /\ image' = FALSE /\ remaining' = 0 /\ restarts' = 0
  /\ taskless' = FALSE /\ reply' = "none" /\ uploads' = 0
  /\ UNCHANGED <<selected, peer, faults>>

DelayedRestart == restarts > 0 /\ Off /\ UNCHANGED cuts

PowerCut == running # "off" /\ cuts < MaxCuts /\ cuts' = cuts + 1 /\ Off

-----------------------------------------------------------------------------
Handler == PinBridge \/ OtaBegin \/ Receive \/ Interrupt \/ OtaEnd \/ SelectPeer \/ Respond

Next ==
  \/ Boot \/ AppMain
  \/ \E valid \in BOOLEAN : Request(valid)
  \/ Handler
  \/ DelayedRestart
  \/ PowerCut

(* The scheduler runs every ready task, and a client that has started an   *)
(* upload goes on sending or disconnects.                                  *)
Spec ==
  /\ Init /\ [][Next]_vars
  /\ WF_vars(Boot) /\ WF_vars(AppMain) /\ WF_vars(Handler) /\ WF_vars(DelayedRestart)

-----------------------------------------------------------------------------
(* Properties. *)

(* The recovery invariant of main.c: the boot selection never points at an *)
(* image that does not start, whatever is interrupted: the bridge is       *)
(* selected before the peer is erased, and the peer only once it validates. *)
SelectionStarts == selected = "peer" => peer \in Bootable

(* Until a client is answered or an upload is under way, a power cycle     *)
(* brings back the untouched stock image.                                  *)
FallbackKept ==
  serving /\ handler = "idle" /\ reply = "none" => selected = "peer" /\ peer \in Bootable

(* The stock image is given up only in an upload that has selected the     *)
(* bridge first, and a client is told "verified" only of a validated image *)
(* that the next boot starts.                                              *)
HonestHandler ==
  [][/\ peer = "stock" /\ peer' # "stock" => selected = "bridge" /\ serving
     /\ reply' = "verified" /\ reply # "verified" =>
          peer = "new" /\ selected = "peer"]_vars

(* "Upload verified. Rebooting into the new application...": it does,      *)
(* unless a second upload is taken before the delayed restart fires, or    *)
(* the task that restarts could not be created; the image then waits for a *)
(* power cycle.                                                            *)
VerifiedBoots ==
  reply = "verified" /\ (restarts > 0 \/ ~taskless)
    ~> (running = "peer" /\ peer = "new") \/ handler # "idle"

=============================================================================
