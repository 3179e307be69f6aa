--------------------------- MODULE WorkflowClient ---------------------------
(***************************************************************************)
(* The client's ExecuteWorkflow (StartWorkflow with its retries), and      *)
(* WorkflowRun.Get, which polls for the close event of a run and follows   *)
(* the runs that continue it as new.  The service (external) keeps the     *)
(* runs of one workflow ID; other clients start runs of it, too.           *)
(***************************************************************************)
EXTENDS Naturals, FiniteSets

CONSTANTS MaxRuns,      \* bound on the runs
          MaxStarts     \* bound on the attempts of one StartWorkflow

ASSUME ClientAssumption == {MaxRuns, MaxStarts} \subseteq Nat \ {0}

VARIABLES
    rejectDuplicate, \* WorkflowIDReusePolicy: a closed workflow is not started again
    run,             \* state of each run; they are numbered in the order they start
    startedBy,       \* who started each run
    newest,          \* the newest run, 0 for none
    client,          \* where the caller is
    starts,          \* attempts to start
    firstRunID, currentRunID, \* of workflowRunImpl, 0 for the empty run ID
    pageToken,       \* the run that the token of the last page is for
    got              \* the run whose outcome Get returned

serviceRuns == <<run, startedBy, newest>>
handle == <<firstRunID, currentRunID>>
clientVars == <<rejectDuplicate, serviceRuns, client, starts, handle, pageToken, got>>

Runs == 1..MaxRuns

\* The caller has options for ExecuteWorkflow, or calls GetWorkflow.
ClientInit ==
    /\ rejectDuplicate \in BOOLEAN
    /\ run = [r \in Runs |-> "None"] /\ startedBy = [r \in Runs |-> "None"] /\ newest = 0
    /\ client = "Start" /\ starts = 1
    /\ firstRunID = 0 /\ currentRunID = 0 /\ pageToken = 0 /\ got = 0

-----------------------------------------------------------------------------
(* The service                                                             *)

newRun(by) ==
    /\ newest < MaxRuns
    /\ newest' = newest + 1
    /\ startedBy' = [startedBy EXCEPT ![newest + 1] = by]
    /\ run' = [r \in Runs |-> CASE r = newest + 1 -> "Open"
                                [] by = "ContinueAsNew" /\ r = newest -> "Continued"
                                [] OTHER -> run[r]]

isOpen == newest > 0 /\ run[newest] = "Open"

OtherClientStarts ==
    /\ ~isOpen /\ newRun("Other")
    /\ UNCHANGED <<rejectDuplicate, client, starts, handle, pageToken, got>>

ContinueAsNew ==
    /\ isOpen /\ newRun("ContinueAsNew")
    /\ UNCHANGED <<rejectDuplicate, client, starts, handle, pageToken, got>>

\* Completed, failed, canceled, terminated or timed out.
CloseRun ==
    /\ isOpen
    /\ run' = [run EXCEPT ![newest] = "Closed"]
    /\ UNCHANGED <<rejectDuplicate, startedBy, newest, client, starts, handle, pageToken, got>>

-----------------------------------------------------------------------------
(* ExecuteWorkflow and GetWorkflow                                         *)

\* The request has the same RequestId in every attempt, by which the service
\* knows the newest run as the one that it asked for.  An answer, or the error
\* AlreadyStarted, names the run; a lost one is a transient error.
answers(r) ==
    \/ /\ firstRunID' = r /\ currentRunID' = r
       /\ client' = "Poll" /\ UNCHANGED starts
    \/ /\ client' = IF starts < MaxStarts THEN "Start" ELSE "Error"
       /\ starts' = IF starts < MaxStarts THEN starts + 1 ELSE starts
       /\ UNCHANGED handle

alreadyStarted ==
    newest > 0 /\ (isOpen \/ startedBy[newest] = "Me" \/ rejectDuplicate)

StartWorkflowExecution ==
    /\ client = "Start"
    /\ IF alreadyStarted THEN UNCHANGED serviceRuns ELSE newRun("Me")
    /\ answers(newest')
    /\ UNCHANGED <<rejectDuplicate, pageToken, got>>

StartFailed ==
    /\ client = "Start"
    /\ client' = "Error"
    /\ UNCHANGED <<rejectDuplicate, serviceRuns, starts, handle, pageToken, got>>

GetWorkflow ==
    /\ client = "Start" /\ starts = 1 /\ newest > 0
    /\ \E r \in 0..newest : firstRunID' = r /\ currentRunID' = r
    /\ client' = "Poll"
    /\ UNCHANGED <<rejectDuplicate, serviceRuns, starts, pageToken, got>>

-----------------------------------------------------------------------------
(* WorkflowRun.Get                                                         *)

\* The run that GetWorkflowExecutionHistory looks at.
polledRun ==
    IF pageToken # 0 THEN pageToken ELSE IF currentRunID # 0 THEN currentRunID ELSE newest

\* An empty page with a token: paginate polls again.
longPollTimesOut ==
    /\ client = "Poll" /\ run[polledRun] = "Open"
    /\ pageToken' = polledRun
    /\ UNCHANGED <<rejectDuplicate, serviceRuns, client, starts, handle, got>>

\* Mutant: the run that continues the polled one is not looked for by its ID.
continuesWithNewest ==
    /\ client = "Poll" /\ run[polledRun] = "Continued"
    /\ currentRunID' = 0 /\ pageToken' = 0
    /\ UNCHANGED <<rejectDuplicate, serviceRuns, client, starts, firstRunID, got>>

\* ContinuedAsNew: Get calls itself for the new run.
getContinued ==
    /\ client = "Poll" /\ run[polledRun] = "Continued"
    /\ currentRunID' = polledRun + 1 /\ pageToken' = 0
    /\ UNCHANGED <<rejectDuplicate, serviceRuns, client, starts, firstRunID, got>>

getClosed ==
    /\ client = "Poll" /\ run[polledRun] = "Closed"
    /\ got' = polledRun
    /\ client' = "Done"
    /\ UNCHANGED <<rejectDuplicate, serviceRuns, starts, handle, pageToken>>

\* An error that is not retried, or the last poll that the deadline leaves time for.
getFails ==
    /\ client = "Poll"
    /\ client' = "GetFailed" /\ pageToken' = 0
    /\ UNCHANGED <<rejectDuplicate, serviceRuns, starts, handle, got>>

\* The caller may call Get again, which goes on with the run it had come to.
GetAgain ==
    /\ client = "GetFailed"
    /\ client' = "Poll"
    /\ UNCHANGED <<rejectDuplicate, serviceRuns, starts, handle, pageToken, got>>

ClientNext ==
    \/ OtherClientStarts \/ ContinueAsNew \/ CloseRun
    \/ StartWorkflowExecution \/ StartFailed \/ GetWorkflow
    \/ longPollTimesOut \/ getContinued \/ getClosed \/ getFails \/ GetAgain

\* A long poll for a run that has ended returns.
ClientFairness == WF_clientVars(getContinued) /\ WF_clientVars(getClosed)

ClientSpec == ClientInit /\ [][ClientNext]_clientVars /\ ClientFairness

-----------------------------------------------------------------------------
(* Properties                                                              *)

\* The last run of the chain that r begins.
isLastOf(l, r) == l >= r /\ run[l] # "Continued" /\ \A k \in r..(l - 1) : run[k] = "Continued"

isResult(r) == run[r] = "Closed" /\ (firstRunID # 0 => isLastOf(r, firstRunID))

\* Once the last run that continues the one it was called for has ended, Get returns
\* with the outcome of that run, never with that of another run of the same workflow
\* ID, whichever polls failed, or it returns an error and can be called again.
\* (Without a run ID it may poll a newer run each time it is called.)
GetReturnsLastRun ==
    (client = "Poll" /\ currentRunID # 0 /\ \E l \in Runs : isLastOf(l, polledRun) /\ run[l] = "Closed")
        ~> (client = "GetFailed" \/ (client = "Done" /\ isResult(got)))
=============================================================================
