------------------------- MODULE MCLocalActivities -------------------------
(***************************************************************************)
(* Small instances of module LocalActivities.                              *)
(***************************************************************************)
EXTENDS LocalActivities

CONSTANTS a1, a2, a3, a4

\* The others use the result of a1.
FanOut == [a \in Activities |-> IF a = a1 THEN {} ELSE {a1}]

\* a2 uses the result of a1.
Sequential == [a \in Activities |-> IF a = a2 THEN {a1} ELSE {}]
=============================================================================
