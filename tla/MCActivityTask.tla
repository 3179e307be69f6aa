--------------------------- MODULE MCActivityTask ---------------------------
(***************************************************************************)
(* Small instances of module ActivityTask.                                 *)
(***************************************************************************)
EXTENDS ActivityTask
=============================================================================
