---------------------------- MODULE MCDecisions ----------------------------
(***************************************************************************)
(* Decisions on small instances: the configurations name the calls that    *)
(* the workflow makes.                                                     *)
(***************************************************************************)
EXTENDS Decisions
=============================================================================
