---------------------------- MODULE LayoutSwitch ----------------------------
(***************************************************************************)
(* What the commit program promises to whoever arms it, without its        *)
(* sectors: the plug leaves the source layout only once the new Safeboot   *)
(* is whole, an attempt that was given up only leads back, and what the    *)
(* host is told is so.  Power can go at any time and ends the attempt.     *)
(***************************************************************************)
VARIABLES
  layout,  \* which table the plug has: "source", "target", or "between"
  image,   \* whether the new Safeboot was put, whole, where the target wants it
  attempt, \* "none", "forward", or "back"
  word     \* the last report that reached the host

vars == <<layout, image, attempt, word>>

Init ==
  /\ layout = "source" /\ image \in BOOLEAN
  /\ attempt = "none" /\ word = "none"

Begin ==
  /\ attempt = "none" /\ layout = "source"
  /\ attempt' = "forward" /\ UNCHANGED <<layout, image, word>>

(* Under the source layout nothing depends on the image yet.               *)
Prepare ==
  /\ layout = "source" /\ image' \in BOOLEAN
  /\ UNCHANGED <<layout, attempt, word>>

Switch ==
  /\ attempt = "forward" /\ image
  /\ <<layout, layout'>> \in {<<"source", "between">>, <<"between", "target">>}
  /\ UNCHANGED <<image, attempt, word>>

Succeed ==
  /\ attempt = "forward" /\ layout = "target" /\ image
  /\ attempt' = "none" /\ UNCHANGED <<layout, image, word>>

GiveUp ==
  /\ attempt = "forward" /\ attempt' = "back"
  /\ UNCHANGED <<layout, image, word>>

Undo ==
  /\ attempt = "back" /\ attempt' \in {"back", "none"}
  /\ layout' \in {layout, "between"} \/ (layout = "between" /\ layout' = "source")
  /\ image' \in BOOLEAN /\ UNCHANGED word

Say ==
  /\ attempt = "none" /\ word' \in {"PASS", "ROLLED", "FAIL"}
  /\ word' = "PASS" => layout = "target" /\ image
  /\ word' = "ROLLED" => layout = "source"
  /\ UNCHANGED <<layout, image, attempt>>

Cut == attempt' = "none" /\ UNCHANGED <<layout, image, word>>

Next == Begin \/ Prepare \/ Switch \/ Succeed \/ GiveUp \/ Undo \/ Say \/ Cut
Spec == Init /\ [][Next]_vars

=============================================================================
