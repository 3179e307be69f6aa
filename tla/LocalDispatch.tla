--------------------------- MODULE LocalDispatch ---------------------------
(***************************************************************************)
(* Locally dispatched activities: a decision worker that completes a       *)
(* decision task offers the activities that it schedules on its own task   *)
(* list to the pollers of the same process (locallyDispatchedActivity-     *)
(* Tunnel), asks the service to start the ones that a poller took, and     *)
(* tells each poller whether its activity is started.  The completion is   *)
(* retried as a whole when the service call fails in a transient way.      *)
(***************************************************************************)
EXTENDS Naturals, FiniteSets

CONSTANTS NumDecisions,  \* ScheduleActivityTask decisions of the request, 1..NumDecisions
          LDAPollers,
          MaxResponds    \* bound on the attempts to respond

ASSUME LocalDispatchAssumption ==
    NumDecisions \in Nat /\ IsFiniteSet(LDAPollers) /\ MaxResponds \in Nat \ {0}

VARIABLES
    ownList,      \* the decisions whose activity is on the worker's task list
    respondAt,    \* the step of respondTaskCompletedAttempt
    attempt,      \* of backoff.Retry
    decision,     \* the decision that the loop over request.Decisions is at
    requested,    \* RequestLocalDispatch is true, which outlives an attempt
    readyCh,      \* of every activity task that SendTask delivered
    ldaAt, ldaTask,         \* the pollers, and the task each holds
    decisionOpen,           \* the service has not completed the decision task
    dispatchLocally,        \* ActivitiesToDispatchLocally of the completion
    timesRun,               \* how often each activity was given to its handler
    ldaStopped              \* stopCh is closed

respondVars == <<ownList, respondAt, attempt, decision, requested>>
serviceVars == <<decisionOpen, dispatchLocally>>
dispatchVars == <<respondVars, readyCh, ldaAt, ldaTask, serviceVars, timesRun, ldaStopped>>

Decision == 1..NumDecisions
NoTask == <<0, 0>>

DispatchInit ==
    /\ ownList \in SUBSET Decision
    /\ respondAt = "None" /\ attempt = 1 /\ decision = 1
    /\ requested = {}
    /\ readyCh = [t \in (1..MaxResponds) \X Decision |-> "None"]
    /\ ldaAt = [p \in LDAPollers |-> "Busy"] /\ ldaTask = [p \in LDAPollers |-> NoTask]
    /\ decisionOpen = TRUE /\ dispatchLocally = {}
    /\ timesRun = [d \in Decision |-> 0]
    /\ ldaStopped = FALSE

-----------------------------------------------------------------------------
(* respondTaskCompleted                                                    *)

\* The decision task is processed, and its decisions are sent.
respondTaskCompleted ==
    /\ respondAt = "None"
    /\ respondAt' = "Send"
    /\ UNCHANGED <<ownList, attempt, decision, requested, readyCh, ldaAt, ldaTask, serviceVars,
                   timesRun, ldaStopped>>

\* A poller that is in the first select of getTask takes the task.
SendTask(p) ==
    /\ respondAt = "Send" /\ decision \in ownList
    /\ ldaAt[p] = "Receive"
    /\ ldaAt' = [ldaAt EXCEPT ![p] = "Ready"]
    /\ ldaTask' = [ldaTask EXCEPT ![p] = <<attempt, decision>>]
    /\ readyCh' = [readyCh EXCEPT ![<<attempt, decision>>] = "Sent"]
    /\ requested' = requested \cup {decision}
    /\ decision' = decision + 1
    /\ UNCHANGED <<ownList, respondAt, attempt, serviceVars, timesRun, ldaStopped>>

\* No poller waits, or the activity is for another task list.
SkipTask ==
    /\ respondAt = "Send" /\ decision \in Decision
    /\ decision \in ownList => \A p \in LDAPollers : ldaAt[p] # "Receive"
    /\ decision' = decision + 1
    /\ UNCHANGED <<ownList, respondAt, attempt, requested, readyCh, ldaAt, ldaTask, serviceVars,
                   timesRun, ldaStopped>>

\* The service completes the decision task, and starts some of the activities it
\* was asked to; the answer may be lost on its way back.
RespondDecisionTaskCompleted ==
    /\ respondAt = "Send" /\ decision = NumDecisions + 1
    /\ \/ /\ decisionOpen /\ decisionOpen' = FALSE
          /\ dispatchLocally' \in SUBSET requested
          /\ respondAt' \in {"Answered", "Transient"}
       \/ /\ UNCHANGED serviceVars
          /\ respondAt' \in {"Transient", "Failed"}
    /\ UNCHANGED <<ownList, attempt, decision, requested, readyCh, ldaAt, ldaTask, timesRun, ldaStopped>>

\* Mutant: what the answer says about the activity is not looked at.
startedIfAnswered(d) == respondAt = "Answered"

startedLocally(d) == respondAt = "Answered" /\ d \in dispatchLocally

\* The deferred function of handleDecisionTaskCompletedRequest, and what
\* backoff.Retry makes of the error; it may also give up (its policy expires).
reportReady ==
    /\ respondAt \in {"Answered", "Transient", "Failed"}
    /\ readyCh' = [t \in DOMAIN readyCh |->
                     IF t[1] # attempt \/ readyCh[t] # "Sent" THEN readyCh[t]
                     ELSE IF startedLocally(t[2]) THEN "Started" ELSE "NotStarted"]
    /\ \/ /\ respondAt = "Transient" /\ attempt < MaxResponds
          /\ respondAt' = "Send" /\ attempt' = attempt + 1 /\ decision' = 1
       \/ respondAt' = "Done" /\ UNCHANGED <<attempt, decision>>
    /\ UNCHANGED <<ownList, requested, ldaAt, ldaTask, serviceVars, timesRun, ldaStopped>>

-----------------------------------------------------------------------------
(* The pollers: PollTask and ProcessTask of the activity task poller       *)

pollerMoves(p, to) ==
    /\ ldaAt' = [ldaAt EXCEPT ![p] = to]
    /\ UNCHANGED <<respondVars, readyCh, serviceVars, ldaStopped>>

\* doPoll does not start when the worker is shutting down.
PollTask(p) ==
    /\ ldaAt[p] = "Busy" /\ ~ldaStopped
    /\ pollerMoves(p, "Receive")
    /\ UNCHANGED <<ldaTask, timesRun>>

\* The second select of getTask: an activity that is not started is dropped.
getTask(p) ==
    /\ ldaAt[p] = "Ready" /\ readyCh[ldaTask[p]] # "Sent"
    /\ pollerMoves(p, IF readyCh[ldaTask[p]] = "Started" THEN "Polled" ELSE "Busy")
    /\ UNCHANGED <<ldaTask, timesRun>>

\* Either select of getTask, with stopCh closed.
getTaskStopped(p) ==
    /\ ldaStopped /\ ldaAt[p] \in {"Receive", "Ready"}
    /\ pollerMoves(p, "Busy")
    /\ UNCHANGED <<ldaTask, timesRun>>

\* The handler runs, unless the worker is shutting down.
ProcessTask(p) ==
    /\ ldaAt[p] = "Polled"
    /\ pollerMoves(p, "Busy")
    /\ timesRun' = IF ldaStopped THEN timesRun
                   ELSE [timesRun EXCEPT ![ldaTask[p][2]] = @ + 1]
    /\ UNCHANGED ldaTask

StopDispatch ==
    /\ ~ldaStopped
    /\ ldaStopped' = TRUE
    /\ UNCHANGED <<respondVars, readyCh, ldaAt, ldaTask, serviceVars, timesRun>>

DispatchNext ==
    \/ \E p \in LDAPollers : \/ SendTask(p) \/ PollTask(p) \/ getTask(p)
                             \/ getTaskStopped(p) \/ ProcessTask(p)
    \/ respondTaskCompleted \/ SkipTask \/ RespondDecisionTaskCompleted \/ reportReady \/ StopDispatch

\* Goroutines that can go on do; the service call returns (its context times out).
DispatchFairness ==
    /\ WF_dispatchVars(RespondDecisionTaskCompleted) /\ WF_dispatchVars(reportReady)
    /\ WF_dispatchVars(SkipTask \/ \E p \in LDAPollers : SendTask(p))
    /\ \A p \in LDAPollers : WF_dispatchVars(getTask(p) \/ getTaskStopped(p) \/ ProcessTask(p))

DispatchSpec == DispatchInit /\ [][DispatchNext]_dispatchVars /\ DispatchFairness

-----------------------------------------------------------------------------
(* Properties                                                              *)

\* A poller runs an activity only when the service has started it for this worker,
\* and once, however often the response was sent: what an earlier attempt handed
\* out is dropped.  An activity that a poller learns to be started is run, unless
\* the worker stops, and a poller that took a task does not wait for ever.
StartedRunsOnce ==
    /\ ~<>(\E d \in Decision : timesRun[d] > (IF d \in dispatchLocally THEN 1 ELSE 0))
    /\ \A n \in 1..MaxResponds, d \in Decision :
         readyCh[<<n, d>>] = "Started" ~> (timesRun[d] = 1 \/ ldaStopped)
    /\ \A p \in LDAPollers : (ldaAt[p] = "Ready") ~> ldaAt[p] # "Ready"

\* What the service starts for this worker, and tells it, was taken by a poller.
\* Does not hold: a decision that was requested in a failed attempt stays so when
\* the pollers are busy in the next one, where the code says "all pollers are
\* busy - no room to optimize".
StartedHasPoller ==
    respondAt = "Answered" => \A d \in dispatchLocally : readyCh[<<attempt, d>>] = "Sent"
=============================================================================
