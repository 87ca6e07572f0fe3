------------------------------ MODULE MCPhases ------------------------------
(* Phases with two migrations prepared for the same plug.                  *)
EXTENDS Phases
mcManifests == {"home", "work"}
=============================================================================
