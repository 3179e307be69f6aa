----------------------------- MODULE MCLibrary ------------------------------
(***************************************************************************)
(* Small instances of parts of the library that share no state with one    *)
(* another: the batch future, the contexts, the LRU cache, the workflow    *)
(* client, the replay activity of a shadow worker and WorkflowShadower.  A *)
(* behavior takes the steps of one of them, so that their state spaces add *)
(* up and do not multiply; the options of the others are fixed.            *)
(***************************************************************************)
EXTENDS BatchFuture, Contexts, LRU, WorkflowClient, Shadower

VARIABLE part

BatchFutures == {"batch", "own"} \X (1..factories)

vars == <<part, batchVars, contexts, lru, clientVars, shadowing>>

Init ==
    /\ part \in {"Batch", "Contexts", "LRU", "Client", "ReplayActivity", "Shadower"}
    /\ BatchInit
    /\ ContextsInit
    /\ LRUInit /\ (part # "LRU" => maxSize = 0 /\ ttl = 0 /\ ~pin)
    /\ ClientInit /\ (part # "Client" => rejectDuplicate)
    /\ ShadowingInit
    /\ part # "ReplayActivity" => executions = Executions
    /\ part # "Shadower" => mode = "Normal" /\ shadowCount = 0 /\ ~sampled

Next ==
    \/ part = "Batch" /\ BatchNext /\ UNCHANGED <<part, contexts, lru, clientVars, shadowing>>
    \/ part = "Contexts" /\ ContextsNext /\ UNCHANGED <<part, batchVars, lru, clientVars, shadowing>>
    \/ part = "LRU" /\ LRUNext /\ UNCHANGED <<part, batchVars, contexts, clientVars, shadowing>>
    \/ part = "Client" /\ ClientNext /\ UNCHANGED <<part, batchVars, contexts, lru, shadowing>>
    \/ part = "ReplayActivity" /\ ReplayActivityNext /\ UNCHANGED <<part, batchVars, contexts, lru, clientVars>>
    \/ part = "Shadower" /\ ShadowerNext /\ UNCHANGED <<part, batchVars, contexts, lru, clientVars>>

Spec ==
    /\ Init /\ [][Next]_vars
    /\ part = "Batch" => BatchFairness
    /\ ClientFairness

\* See module BatchFuture: Get of a batch returns.
BatchGetReturns == part = "Batch" => GetReturns

\* See module BatchFuture: the same as the comment on BatchFuture.Get has it.
BatchGetAlwaysReturns == part = "Batch" => GetAlwaysReturns
=============================================================================
