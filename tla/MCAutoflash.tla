---------------------------- MODULE MCAutoflash ----------------------------
(* Sets of hazards for the runs of Autoflash.                              *)
EXTENDS Autoflash

Late == {"C2", "D4", "E1", "E2", "E3", "F2", "G1"}

(* Everything, at the steps that write and at those the writes rest on.    *)
mcAll ==
  ({"decline", "fault", "lost", "stop", "close", "pause", "mistake"} \X Late)
    \cup ({"dry"} \X {"D4", "F2"})
mcCommands == {"E1", "E2", "E3", "F2", "G1", "H1"}

(* What running the same command again mends.                              *)
mcMended ==
  ({"decline"} \X Steps)
    \cup ({"fault"} \X (Steps \ {"E3", "G1"}))
    \cup ({"lost", "stop", "close"} \X (Steps \ DestructiveSteps))

mcNone == {}

(* What it does not: each of these by itself is enough.                    *)
mcReportLost == {<<"lost", "E3">>}
mcRestoreFault == {<<"fault", "G1">>}
mcWindowClosed == {<<"close", "E3">>}
mcDryRun == {<<"dry", "F2">>}
mcUnmended == mcReportLost \cup mcRestoreFault \cup mcWindowClosed \cup mcDryRun

=============================================================================
