----------------------------- MODULE Sessions ------------------------------
(***************************************************************************)
(* Sessions: createSession and CompleteSession in the workflow, and the    *)
(* session environment of one worker, whose long running creation activity *)
(* holds a token for as long as the session is open.  The worker may       *)
(* crash.  The service (external) keeps the creation activity, times it    *)
(* out, and tells a heartbeat of a cancellation.                           *)
(***************************************************************************)
EXTENDS Naturals, FiniteSets

CONSTANTS SessionIDs,
          MaxConcurrentSessionExecutionSize

ASSUME SessionsAssumption ==
    IsFiniteSet(SessionIDs) /\ MaxConcurrentSessionExecutionSize \in Nat \ {0}

VARIABLES
    session,        \* sessionState of the workflow, and where its calls are
    creationFuture, \* of the creation activity
    watched,        \* the coroutine of createSession has seen the future
    creation,       \* the creation activity at the service
    cancelRequested,
    signalled,      \* SignalCreationResponse has reached the workflow
    completion,     \* the completion activity
    workerUp,
    mayPoll,        \* the creation worker's poller is past waitForAvailableToken
    availableToken,
    doneChanMap,    \* of the session environment
    activity,       \* sessionCreationActivity on the worker
    ctxDone         \* its context is cancelled

workflowSide == <<session, creationFuture, watched, signalled>>
serviceSide == <<creation, cancelRequested, completion>>
workerSide == <<workerUp, mayPoll, availableToken, doneChanMap, activity, ctxDone>>
sessionVars == <<workflowSide, serviceSide, workerSide>>

SessionsInit ==
    /\ session = [s \in SessionIDs |-> "None"]
    /\ creationFuture = [s \in SessionIDs |-> "Pending"]
    /\ watched = {} /\ signalled = {} /\ cancelRequested = {}
    /\ creation = [s \in SessionIDs |-> "None"]
    /\ completion = [s \in SessionIDs |-> "None"]
    /\ workerUp = TRUE /\ mayPoll = FALSE
    /\ availableToken = MaxConcurrentSessionExecutionSize
    /\ doneChanMap = {}
    /\ activity = [s \in SessionIDs |-> "None"]
    /\ ctxDone = {}

\* The first result of the future stays.
resolves(s, result) ==
    creationFuture' = [creationFuture EXCEPT ![s] = IF @ = "Pending" THEN result ELSE @]

-----------------------------------------------------------------------------
(* The workflow                                                            *)

createSession(s) ==
    /\ session[s] = "None"
    /\ session' = [session EXCEPT ![s] = "Creating"]
    /\ creation' = [creation EXCEPT ![s] = "Scheduled"]
    /\ UNCHANGED <<creationFuture, watched, signalled, cancelRequested, completion, workerSide>>

\* The selector of createSession: the signal is its first case.  After an error the
\* session context is cancelled.
sessionCreated(s) ==
    /\ session[s] = "Creating" /\ s \in signalled
    /\ session' = [session EXCEPT ![s] = "Open"]
    /\ UNCHANGED <<creationFuture, watched, signalled, serviceSide, workerSide>>

sessionNotCreated(s) ==
    /\ session[s] = "Creating" /\ s \notin signalled /\ creationFuture[s] # "Pending"
    /\ session' = [session EXCEPT ![s] = "NotCreated"]
    /\ UNCHANGED <<creationFuture, watched, signalled, serviceSide, workerSide>>

\* The coroutine that createSession starts: any error but a cancellation fails the
\* session and cancels its context.  One that is being completed ends up closed.
sessionFails(s) ==
    /\ session[s] \in {"Open", "Completing"} /\ s \notin watched
    /\ creationFuture[s] # "Pending"
    /\ watched' = watched \cup {s}
    /\ session' = [session EXCEPT ![s] = IF creationFuture[s] = "Error" /\ @ = "Open" THEN "Failed" ELSE @]
    /\ UNCHANGED <<creationFuture, signalled, serviceSide, workerSide>>

\* Cancels the session context, and with it the creation activity; the completion
\* activity is lost when the workflow's own context is cancelled.
CompleteSession(s) ==
    /\ session[s] = "Open"
    /\ session' = [session EXCEPT ![s] = "Completing"]
    /\ resolves(s, "Canceled")
    /\ cancelRequested' = cancelRequested \cup (IF creation[s] = "Closed" THEN {} ELSE {s})
    /\ \E c \in {"Scheduled", "Closed"} : completion' = [completion EXCEPT ![s] = c]
    /\ UNCHANGED <<watched, signalled, creation, workerSide>>

\* The completion activity has returned or timed out.  The coroutines have run
\* until all were blocked since then.
sessionCompleted(s) ==
    /\ session[s] = "Completing" /\ completion[s] = "Closed" /\ s \in watched
    /\ session' = [session EXCEPT ![s] = "Closed"]
    /\ UNCHANGED <<creationFuture, watched, signalled, serviceSide, workerSide>>

-----------------------------------------------------------------------------
(* The service                                                             *)

TimeoutCreation(s) ==
    /\ creation[s] \in {"Scheduled", "Started"}
    /\ creation' = [creation EXCEPT ![s] = "Closed"]
    /\ resolves(s, "Error")
    /\ UNCHANGED <<session, watched, signalled, cancelRequested, completion, workerSide>>

TimeoutCompletion(s) ==
    /\ completion[s] = "Scheduled"
    /\ completion' = [completion EXCEPT ![s] = "Closed"]
    /\ UNCHANGED <<workflowSide, creation, cancelRequested, workerSide>>

-----------------------------------------------------------------------------
(* The worker                                                              *)

\* runPoller of the creation worker, which has one poller.
waitForAvailableToken ==
    /\ workerUp /\ ~mayPoll /\ availableToken > 0
    /\ mayPoll' = TRUE
    /\ UNCHANGED <<workflowSide, serviceSide, workerUp, availableToken, doneChanMap, activity, ctxDone>>

pollCreation(s) ==
    /\ workerUp /\ mayPoll /\ creation[s] = "Scheduled" /\ activity[s] = "None"
    /\ mayPoll' = FALSE
    /\ creation' = [creation EXCEPT ![s] = "Started"]
    /\ activity' = [activity EXCEPT ![s] = "CreateSession"]
    /\ UNCHANGED <<workflowSide, cancelRequested, completion, workerUp, availableToken, doneChanMap, ctxDone>>

\* The activity ends, and the service takes its result when it still waits for it.
reports(s, result) ==
    /\ activity' = [activity EXCEPT ![s] = "None"]
    /\ ctxDone' = ctxDone \ {s}
    /\ IF creation[s] # "Started" THEN UNCHANGED <<creation, creationFuture>>
       ELSE /\ creation' = [creation EXCEPT ![s] = "Closed"]
            /\ resolves(s, result)

\* "too many outstanding sessions" is the one error that the service retries.
retried(s) ==
    /\ creation[s] = "Started"
    /\ creation' = [creation EXCEPT ![s] = "Scheduled"]
    /\ activity' = [activity EXCEPT ![s] = "None"]
    /\ UNCHANGED <<creationFuture, ctxDone>>

\* CreateSession of the session environment.
getToken(s) ==
    /\ activity[s] = "CreateSession"
    /\ \/ /\ availableToken > 0
          /\ availableToken' = availableToken - 1
          /\ doneChanMap' = doneChanMap \cup {s}
          /\ activity' = [activity EXCEPT ![s] = "Signal"]
          /\ UNCHANGED <<creation, creationFuture, ctxDone>>
       \/ /\ availableToken = 0
          /\ reports(s, "Error") \/ retried(s)
          /\ UNCHANGED <<availableToken, doneChanMap>>
    /\ UNCHANGED <<session, watched, signalled, cancelRequested, completion, workerUp, mayPoll>>

\* The call may fail although the signal arrives; the entry of doneChanMap stays.
SignalCreationResponse(s) ==
    /\ activity[s] = "Signal"
    /\ \/ /\ signalled' = signalled \cup {s}
          /\ activity' = [activity EXCEPT ![s] = "Loop"]
          /\ UNCHANGED <<availableToken, creation, creationFuture, ctxDone>>
       \/ /\ signalled' \in {signalled, signalled \cup {s}}
          /\ reports(s, "Error")
          /\ availableToken' = availableToken + 1
    /\ UNCHANGED <<session, watched, cancelRequested, completion, workerUp, mayPoll, doneChanMap>>

\* Mutant: a heartbeat does not learn of a cancellation.
heartbeatAlone(s) ==
    /\ activity[s] = "Loop" /\ s \notin ctxDone /\ creation[s] # "Started"
    /\ ctxDone' = ctxDone \cup {s}
    /\ UNCHANGED <<workflowSide, serviceSide, workerUp, mayPoll, availableToken, doneChanMap, activity>>

\* A heartbeat learns of a cancellation, and of an activity that is no longer there.
Heartbeat(s) ==
    /\ activity[s] = "Loop" /\ s \notin ctxDone
    /\ s \in cancelRequested \/ creation[s] # "Started"
    /\ ctxDone' = ctxDone \cup {s}
    /\ UNCHANGED <<workflowSide, serviceSide, workerUp, mayPoll, availableToken, doneChanMap, activity>>

\* Mutant: a session whose context is cancelled keeps its token.
endsWithoutToken(s) ==
    /\ activity[s] = "Loop" /\ s \in ctxDone
    /\ doneChanMap' = doneChanMap \ {s}
    /\ reports(s, "Canceled")
    /\ UNCHANGED <<session, watched, signalled, cancelRequested, completion, workerUp, mayPoll, availableToken>>

\* The select of sessionCreationActivity: its context, or doneCh.
sessionEnds(s) ==
    /\ activity[s] = "Loop"
    /\ \/ s \in ctxDone /\ doneChanMap' = doneChanMap \ {s} /\ reports(s, "Canceled")
       \/ s \notin doneChanMap /\ reports(s, "Completed") /\ UNCHANGED doneChanMap
    /\ availableToken' = availableToken + 1
    /\ UNCHANGED <<session, watched, signalled, cancelRequested, completion, workerUp, mayPoll>>

sessionCompletionActivity(s) ==
    /\ workerUp /\ completion[s] = "Scheduled"
    /\ completion' = [completion EXCEPT ![s] = "Closed"]
    /\ doneChanMap' = doneChanMap \ {s}
    /\ UNCHANGED <<workflowSide, creation, cancelRequested, workerUp, mayPoll, availableToken, activity, ctxDone>>

\* A worker that comes back is another resource, with tokens of its own.
Crash ==
    /\ workerUp /\ workerUp' = FALSE
    /\ activity' = [s \in SessionIDs |-> "None"]
    /\ mayPoll' = FALSE /\ doneChanMap' = {} /\ ctxDone' = {}
    /\ availableToken' = MaxConcurrentSessionExecutionSize
    /\ UNCHANGED <<workflowSide, serviceSide>>

-----------------------------------------------------------------------------

workflowSteps(s) == sessionCreated(s) \/ sessionNotCreated(s) \/ sessionFails(s) \/ sessionCompleted(s)
workerSteps(s) == \/ pollCreation(s) \/ getToken(s) \/ SignalCreationResponse(s)
                  \/ Heartbeat(s) \/ sessionEnds(s) \/ sessionCompletionActivity(s)

SessionsNext ==
    \/ \E s \in SessionIDs : \/ createSession(s) \/ CompleteSession(s) \/ workflowSteps(s)
                             \/ workerSteps(s) \/ TimeoutCreation(s) \/ TimeoutCompletion(s)
    \/ waitForAvailableToken \/ Crash

\* Coroutines and goroutines that can go on do, the session's ticker goes on, and
\* the service times out what a dead worker holds.  Nothing relies on the
\* ExecutionTimeout of a session, which would end every one of them.
SessionsFairness ==
    \A s \in SessionIDs :
        /\ WF_sessionVars(workflowSteps(s))
        /\ WF_sessionVars(getToken(s)) /\ WF_sessionVars(SignalCreationResponse(s))
        /\ WF_sessionVars(Heartbeat(s) \/ sessionEnds(s))
        /\ WF_sessionVars(TimeoutCompletion(s) \/ sessionCompletionActivity(s))
        /\ WF_sessionVars(~workerUp /\ TimeoutCreation(s))

SessionsSpec == SessionsInit /\ [][SessionsNext]_sessionVars /\ SessionsFairness

-----------------------------------------------------------------------------
(* Properties                                                              *)

\* Every session that the worker holds has one token, and nothing else has one,
\* however its creation activity ended: the worker never runs more sessions than
\* MaxConcurrentSessionExecutionSize, and never loses room for one.
TokensAreConserved ==
    availableToken + Cardinality({s \in SessionIDs : activity[s] \in {"Signal", "Loop"}})
        = MaxConcurrentSessionExecutionSize

\* A session that is completed leaves the worker, also when the completion activity
\* is not run: the next heartbeat ends it.  One whose worker died is not left open
\* ("Only when the worker executing the session is down, that session will be
\* marked as failed", CreateSession).
SessionsEnd ==
    \A s \in SessionIDs :
        /\ session[s] \in {"Completing", "NotCreated"} ~> activity[s] \notin {"Signal", "Loop"}
        /\ session[s] = "Completing" ~> session[s] = "Closed"
        /\ (session[s] = "Open" /\ ~workerUp) ~> session[s] # "Open"
=============================================================================
