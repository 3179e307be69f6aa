-------------------------- MODULE MCWorkflowCache --------------------------
(***************************************************************************)
(* Small instances of module WorkflowCache.                                *)
(***************************************************************************)
EXTENDS WorkflowCache, TLC

CONSTANTS t1, t2, t3

Symmetry == Permutations(Deciders) \cup Permutations(Contexts)
=============================================================================
