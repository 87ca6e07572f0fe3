------------------------------ MODULE MCCommit ------------------------------
(* A shrunk layout for TLC: one settings sector, one sector of new         *)
(* otadata, a three-sector Safeboot copied down by two sectors so that it  *)
(* overwrites its own head, and a one-sector tail past it.                 *)
EXTENDS Commit

mcLiveNvs == {1}
mcNewOta == {2}
mcOldOta == {4}

=============================================================================
