------------------------------ MODULE MCWorker ------------------------------
(***************************************************************************)
(* Small instances of parts of a worker that share no state with one       *)
(* another: the choice of decision polls, the local dispatch of            *)
(* activities, the start and the stop of a worker, and sessions.  A        *)
(* behavior takes the steps of one of them, so that their state spaces add *)
(* up and do not multiply; the options of the others are fixed.            *)
(***************************************************************************)
EXTENDS DecisionPolls, LocalDispatch, WorkerLifecycle, Sessions

VARIABLE part

vars == <<part, polls, dispatchVars, lifecycle, sessionVars>>

Init ==
    /\ part \in {"Polls", "Dispatch", "Lifecycle", "Sessions"}
    /\ PollsInit /\ (part # "Polls" => disableSticky)
    /\ DispatchInit /\ (part # "Dispatch" => ownList = {})
    /\ LifecycleInit /\ (part # "Lifecycle" => enabled = {})
    /\ SessionsInit

Next ==
    \/ part = "Polls" /\ PollsNext /\ UNCHANGED <<part, dispatchVars, lifecycle, sessionVars>>
    \/ part = "Dispatch" /\ DispatchNext /\ UNCHANGED <<part, polls, lifecycle, sessionVars>>
    \/ part = "Lifecycle" /\ LifecycleNext /\ UNCHANGED <<part, polls, dispatchVars, sessionVars>>
    \/ part = "Sessions" /\ SessionsNext /\ UNCHANGED <<part, polls, dispatchVars, lifecycle>>

\* The other parts stay in their first state, where no action is fair.
Spec == Init /\ [][Next]_vars /\ DispatchFairness /\ SessionsFairness
=============================================================================
