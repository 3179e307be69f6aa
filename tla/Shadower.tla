----------------------------- MODULE Shadower ------------------------------
(***************************************************************************)
(* Shadowing: WorkflowShadower, which scans for workflow executions and    *)
(* replays them in one goroutine, and replayWorkflowActivity, with which a *)
(* shadow worker replays one batch of them and whose attempts go on from   *)
(* the progress of the last heartbeat.  What a replay finds is a choice;   *)
(* module Replay has the replayer itself.                                  *)
(***************************************************************************)
EXTENDS Naturals, FiniteSets

CONSTANTS NumExecutions,   \* the executions that the query lists, 1..NumExecutions
          MaxReplayAttempts,
          ShadowCounts     \* values of ExitCondition.ShadowCount, 0 for none

ASSUME ShadowerAssumption ==
    NumExecutions \in Nat /\ MaxReplayAttempts \in Nat \ {0} /\ ShadowCounts \subseteq Nat

VARIABLES
    \* replayWorkflowActivity
    executions,    \* params.Executions: those that are not nil
    replayAt,      \* its loop
    position,      \* of the loop in params.Executions
    progress,      \* replayWorkflowActivityProgress
    heartbeatDetails, \* the progress that the service has
    attempts,
    \* WorkflowShadower
    mode, shadowCount, sampled,
    status,
    shadowAt,      \* shadowWorker
    page,          \* scanRequest.NextPageToken: what it has passed
    listed,        \* scanResult.Executions that are not replayed yet
    replays,       \* how often each execution was replayed
    replayCount

activityVars == <<executions, replayAt, position, progress, heartbeatDetails, attempts>>
shadowVars == <<mode, shadowCount, sampled, status, shadowAt, page, listed, replays, replayCount>>
shadowing == <<activityVars, shadowVars>>

Executions == 1..NumExecutions
NoProgress == [NextExecutionIdx |-> 0, Succeeded |-> 0, Skipped |-> 0, Failed |-> 0]

ShadowingInit ==
    /\ executions \in SUBSET Executions
    /\ replayAt = "Loop" /\ position = 0
    /\ progress = NoProgress /\ heartbeatDetails = NoProgress
    /\ attempts = 1
    /\ mode \in {"Normal", "Continuous"} /\ shadowCount \in ShadowCounts /\ sampled \in BOOLEAN
    /\ mode = "Continuous" => shadowCount > 0  \* a bound: an expiration would do, too
    /\ status = "Initialized" /\ shadowAt = "None"
    /\ page = 0 /\ listed = {}
    /\ replays = [e \in Executions |-> 0] /\ replayCount = 0

-----------------------------------------------------------------------------
(* replayWorkflowActivity                                                  *)

\* A nil execution is passed over without progress.
skipNil ==
    /\ replayAt = "Loop" /\ position + 1 \in Executions \ executions
    /\ position' = position + 1
    /\ UNCHANGED <<executions, replayAt, progress, heartbeatDetails, attempts, shadowVars>>

\* Mutant: only what was replayed counts as progress.
countsReplayed(result) ==
    LET more == {result} \cup (IF result = "Skipped" THEN {} ELSE {"NextExecutionIdx"}) IN
    [f \in DOMAIN progress |-> IF f \in more THEN progress[f] + 1 ELSE progress[f]]

counts(result) ==
    LET more == {result, "NextExecutionIdx"} IN
    [f \in DOMAIN progress |-> IF f \in more THEN progress[f] + 1 ELSE progress[f]]

\* The heartbeat may be batched or lost.
replayExecution ==
    /\ replayAt = "Loop" /\ position + 1 \in executions
    /\ position' = position + 1
    /\ \E result \in {"Succeeded", "Skipped", "Failed"} : progress' = counts(result)
    /\ heartbeatDetails' \in {heartbeatDetails, progress'}
    /\ UNCHANGED <<executions, replayAt, attempts, shadowVars>>

\* A workflow type that is not registered fails the activity.
notRegistered ==
    /\ replayAt = "Loop" /\ position + 1 \in executions
    /\ replayAt' = "Error"
    /\ progress' = [progress EXCEPT !.Failed = @ + 1]
    /\ UNCHANGED <<executions, position, heartbeatDetails, attempts, shadowVars>>

replayReturns ==
    /\ replayAt = "Loop" /\ position = NumExecutions
    /\ replayAt' = "Completed"
    /\ UNCHANGED <<executions, position, progress, heartbeatDetails, attempts, shadowVars>>

\* The worker dies or the attempt times out; the next one starts from what the
\* service has recorded (GetHeartbeatDetails).
replayRetried ==
    /\ replayAt = "Loop" /\ attempts < MaxReplayAttempts
    /\ attempts' = attempts + 1
    /\ progress' = heartbeatDetails /\ position' = heartbeatDetails.NextExecutionIdx
    /\ UNCHANGED <<executions, replayAt, heartbeatDetails, shadowVars>>

-----------------------------------------------------------------------------
(* WorkflowShadower                                                        *)

Run ==
    /\ status = "Initialized" /\ status' = "Started"
    /\ shadowAt' = "Scan"
    /\ UNCHANGED <<activityVars, mode, shadowCount, sampled, page, listed, replays, replayCount>>

\* Nothing reads shutdownCh: shadowWorker goes on.
StopShadower ==
    /\ status = "Started" /\ status' = "Stopped"
    /\ UNCHANGED <<activityVars, mode, shadowCount, sampled, shadowAt, page, listed, replays, replayCount>>

\* scanWorkflowExecutionsHelper takes one page or several.
scanWorkflowExecutions ==
    /\ shadowAt = "Scan"
    /\ \E next \in page..NumExecutions :
         /\ page' = next
         /\ listed' \in IF sampled THEN SUBSET ((page + 1)..next) ELSE {(page + 1)..next}
    /\ shadowAt' = "Replay"
    /\ UNCHANGED <<activityVars, mode, shadowCount, sampled, status, replays, replayCount>>

\* The scan fails, the time is over, or a replay finds the code nondeterministic.
shadowWorkerEnds(how) ==
    /\ \/ shadowAt = "Scan" /\ how = "Error"
       \/ shadowAt = "Replay" /\ listed # {}
    /\ shadowAt' = how
    /\ UNCHANGED <<activityVars, mode, shadowCount, sampled, status, page, listed, replays, replayCount>>

\* replayWorkflowExecutionHelper: a success counts, a skipped execution does not.
replayListed ==
    /\ shadowAt = "Replay"
    /\ \E e \in listed :
         /\ \A f \in listed : e <= f
         /\ listed' = listed \ {e}
         /\ replays' = [replays EXCEPT ![e] = @ + 1]
    /\ replayCount' \in {replayCount, replayCount + 1}
    /\ shadowAt' = IF replayCount' = shadowCount /\ shadowCount > 0 THEN "CountReached" ELSE shadowAt
    /\ UNCHANGED <<activityVars, mode, shadowCount, sampled, status, page>>

\* After the last page the continuous mode waits, unless its time would be over by
\* then, and starts again from the first; how often each execution was replayed is
\* counted anew.
nextScan ==
    /\ shadowAt = "Replay" /\ listed = {}
    /\ \/ /\ page < NumExecutions
          /\ shadowAt' = "Scan" /\ UNCHANGED <<page, replays>>
       \/ /\ page = NumExecutions
          /\ shadowAt' = "Completed" /\ UNCHANGED <<page, replays>>
       \/ /\ page = NumExecutions /\ mode = "Continuous"
          /\ shadowAt' = "Scan" /\ page' = 0 /\ replays' = [e \in Executions |-> 0]
    /\ UNCHANGED <<activityVars, mode, shadowCount, sampled, status, listed, replayCount>>

ReplayActivityNext == skipNil \/ replayExecution \/ notRegistered \/ replayReturns \/ replayRetried

ShadowerNext ==
    \/ Run \/ StopShadower \/ scanWorkflowExecutions \/ replayListed \/ nextScan
    \/ \E how \in {"Error", "Expired"} : shadowWorkerEnds(how)

ShadowingNext == ReplayActivityNext \/ ShadowerNext

\* The goroutine that called Run goes on; a scan comes to the last page in the end.
ShadowingFairness ==
    /\ WF_shadowing(replayListed) /\ WF_shadowing(nextScan)
    /\ SF_shadowing(scanWorkflowExecutions /\ page' > page)

ShadowingSpec == ShadowingInit /\ [][ShadowingNext]_shadowing /\ ShadowingFairness

-----------------------------------------------------------------------------
(* Properties                                                              *)

\* Every execution of a batch is counted once, as succeeded, skipped or failed,
\* however often replayWorkflowActivity was retried and whichever heartbeats were
\* lost (a batch with a nil in it excepted: see CountedOnceWithNil).  A shadower
\* that has come to the end replayed every execution it listed, once.
CountedOnce ==
    /\ replayAt = "Completed" /\ executions = Executions =>
         progress.Succeeded + progress.Skipped + progress.Failed = NumExecutions
    /\ shadowAt = "Completed" /\ ~sampled => \A e \in Executions : replays[e] = 1

\* The same with nil executions, which the loop passes over.
CountedOnceWithNil ==
    replayAt = "Completed" =>
        progress.Succeeded + progress.Skipped + progress.Failed = Cardinality(executions)

\* "Stop stops WorkflowShadower and wait up to one minute for all goroutines to
\* finish before returning" (workflow_shadower.go).
StopEndsShadowing == status = "Stopped" ~> shadowAt \notin {"Scan", "Replay"}
=============================================================================
