---------------------------- MODULE MCBaseWorker ----------------------------
(***************************************************************************)
(* Small instances of module BaseWorker.                                   *)
(***************************************************************************)
EXTENDS BaseWorker

CONSTANTS p1, p2

WaitsLowHigh == {0, 4}

\* A decision worker, and the worker that creates the sessions of a host that may
\* run one, without and with the auto scaler.  As long as no session is created the
\* latter is any auto scaled worker: looking at the bucket takes no token.
Workers ==
    {[autoScaling |-> FALSE, pollers |-> {p1, p2}, bucket |-> None, results |-> 1],
     [autoScaling |-> FALSE, pollers |-> {p1}, bucket |-> 1, results |-> 0],
     [autoScaling |-> TRUE, pollers |-> {p1, p2}, bucket |-> 1, results |-> 0]}
=============================================================================
