---------------------------- MODULE ActivityTask ----------------------------
(***************************************************************************)
(* One activity task on a worker: activityTaskHandlerImpl.Execute, the     *)
(* heartbeats of cadenceInvoker with their batching goroutine, the         *)
(* autoHeartbeater, and the report of the result.                          *)
(*                                                                         *)
(* Every method of cadenceInvoker holds its mutex, during the call to the  *)
(* service too, so a method is one step.  The activity's code, the         *)
(* goroutine that ends a batch, the autoHeartbeater, the service, the      *)
(* deadline and the shutdown of the worker interleave between them.        *)
(* Details are numbered in the order in which the activity records them;   *)
(* 0 is the nil that a heartbeat without details sends.                    *)
(***************************************************************************)
EXTENDS Integers, FiniteSets

CONSTANTS None,
          MaxDetails,      \* bound on the heartbeats that the activity records
          MaxErrors,       \* bound on the calls to the service that fail
          AutoHeartbeat    \* EnableAutoHeartbeat, with a heartbeat timeout

ASSUME ActivityTaskAssumption ==
    /\ MaxDetails \in Nat /\ MaxErrors \in Nat /\ AutoHeartbeat \in BOOLEAN
    /\ None \notin 0..MaxDetails

VARIABLES
    hbBatchEndTimer, \* "nil", "Running", "Fired" or "Stopped"
    detailsToReport, lastDetailsReported,
    waiters,         \* goroutines that wait for the end of a batch
    closeCh,         \* closed
    heartbeater,     \* the autoHeartbeater runs
    recorded,        \* the last details that the activity recorded
    activity,        \* how far its execution is, and its outcome
    ctxErr,          \* of the activity's context: "nil", "Canceled", "DeadlineExceeded"
    shutdown,        \* workerStopCh is closed
    task,            \* at the service: "Started", "CancelRequested" or "Gone"
    shown,           \* the details that the service shows for the activity
    acked,           \* the newest details of which the service said that it has them
    errors           \* calls that failed

invoker == <<hbBatchEndTimer, detailsToReport, lastDetailsReported, waiters>>
service == <<task, shown, acked, errors>>
vars == <<invoker, closeCh, heartbeater, recorded, activity, ctxErr, shutdown, service>>

Details == 0..MaxDetails
Outcomes == {"Completed", "Failed", "Canceled", "Pending", "Timeout"}

TypeOK ==
    /\ hbBatchEndTimer \in {"nil", "Running", "Fired", "Stopped"}
    /\ {detailsToReport, lastDetailsReported} \subseteq Details \cup {None}
    /\ waiters \in 0..1
    /\ {closeCh, heartbeater, shutdown} \subseteq BOOLEAN
    /\ recorded \in Details /\ shown \in Details /\ acked \in Details
    /\ activity \in {"Running", "Returned", "Closed", "Reported"} \X Outcomes
    /\ ctxErr \in {"nil", "Canceled", "DeadlineExceeded"}
    /\ task \in {"Started", "CancelRequested", "Gone"}
    /\ errors \in 0..MaxErrors

Init ==
    /\ hbBatchEndTimer = "nil" /\ detailsToReport = None /\ lastDetailsReported = None
    /\ waiters = 0
    /\ closeCh = FALSE /\ shutdown = FALSE
    /\ heartbeater = AutoHeartbeat
    /\ recorded = 0 /\ shown = 0 /\ acked = 0
    /\ activity = <<"Running", "Pending">>
    /\ ctxErr = "nil"
    /\ task = "Started"
    /\ errors = 0

-----------------------------------------------------------------------------
(* internalHeartBeat: the answers of the service.                          *)

\* What recordActivityHeartbeat returns.  A call that fails for good after its
\* retries may have reached the service or not.
Answers ==
    (IF task = "Started" THEN {"ok"} ELSE IF task = "CancelRequested" THEN {"Canceled"} ELSE {"NotExists"})
      \cup (IF errors < MaxErrors THEN {"NotSent", "ReplyLost"} ELSE {})

isActivityCancelled(a) == a \in {"Canceled", "NotExists"}
succeeds(a) == a = "ok" \/ isActivityCancelled(a)

internalHeartBeat(details, a) ==
    /\ shown' = IF a \in {"ok", "Canceled"} \/ (a = "ReplyLost" /\ task # "Gone") THEN details ELSE shown
    /\ acked' = IF a \in {"ok", "Canceled"} /\ details > acked THEN details ELSE acked
    /\ ctxErr' = IF isActivityCancelled(a) /\ ctxErr = "nil" THEN "Canceled" ELSE ctxErr
    /\ errors' = IF a \in {"NotSent", "ReplyLost"} THEN errors + 1 ELSE errors
    /\ UNCHANGED task

\* Mutant: no goroutine waits for the end of the batch.
heartbeatWithoutWaiter(details, a, timer, kept) ==
    /\ internalHeartBeat(details, a)
    /\ IF succeeds(a)
       THEN /\ lastDetailsReported' = details
            /\ detailsToReport' = None
            /\ hbBatchEndTimer' = "Running"
            /\ waiters' = kept
       ELSE hbBatchEndTimer' = timer /\ waiters' = kept /\ UNCHANGED <<detailsToReport, lastDetailsReported>>

\* A heartbeat that was sent starts a batch: a timer, and a goroutine that waits
\* for it.  timer and kept are what the caller has made of the timer and of the
\* waiting goroutines.
heartbeatAndScheduleNextRun(details, a, timer, kept) ==
    /\ internalHeartBeat(details, a)
    /\ IF succeeds(a)
       THEN /\ lastDetailsReported' = details
            /\ detailsToReport' = None
            /\ hbBatchEndTimer' = "Running"
            /\ waiters' = kept + 1
       ELSE hbBatchEndTimer' = timer /\ waiters' = kept /\ UNCHANGED <<detailsToReport, lastDetailsReported>>

-----------------------------------------------------------------------------
(* The activity's code, the autoHeartbeater and the end of a batch.        *)

\* RecordActivityHeartbeat: BatchHeartbeat.
BatchHeartbeat ==
    LET details == recorded + 1 IN
    /\ activity[1] = "Running" /\ recorded < MaxDetails
    /\ recorded' = details
    /\ \/ /\ hbBatchEndTimer # "nil"
          /\ detailsToReport' = details
          /\ UNCHANGED <<hbBatchEndTimer, lastDetailsReported, waiters, ctxErr, service>>
       \/ /\ hbBatchEndTimer = "nil"
          /\ \E a \in Answers : heartbeatAndScheduleNextRun(details, a, "nil", waiters)
    /\ UNCHANGED <<closeCh, heartbeater, activity, shutdown>>

\* Mutant: a heartbeat in the background has no details.
BackgroundWithoutDetails ==
    /\ heartbeater
    /\ \/ /\ hbBatchEndTimer # "nil"
          /\ detailsToReport' = IF detailsToReport = None THEN 0 ELSE detailsToReport
          /\ UNCHANGED <<hbBatchEndTimer, lastDetailsReported, waiters, ctxErr, service>>
       \/ /\ hbBatchEndTimer = "nil"
          /\ \E a \in Answers : heartbeatAndScheduleNextRun(0, a, "nil", waiters)
    /\ UNCHANGED <<closeCh, heartbeater, recorded, activity, shutdown>>

\* The ticker of the autoHeartbeater.  A tick may be taken although the context
\* is done: select chooses among the channels that are ready.
BackgroundHeartbeat ==
    LET details == IF detailsToReport # None THEN detailsToReport
                   ELSE IF lastDetailsReported # None THEN lastDetailsReported ELSE 0
    IN
    /\ heartbeater
    /\ \/ /\ hbBatchEndTimer # "nil"
          /\ detailsToReport' = IF detailsToReport = None THEN lastDetailsReported ELSE detailsToReport
          /\ UNCHANGED <<hbBatchEndTimer, lastDetailsReported, waiters, ctxErr, service>>
       \/ /\ hbBatchEndTimer = "nil"
          /\ \E a \in Answers : heartbeatAndScheduleNextRun(details, a, "nil", waiters)
    /\ UNCHANGED <<closeCh, heartbeater, recorded, activity, shutdown>>

\* Run returns.
HeartbeaterStops ==
    /\ heartbeater
    /\ shutdown \/ ctxErr # "nil"
    /\ heartbeater' = FALSE
    /\ UNCHANGED <<invoker, closeCh, recorded, activity, ctxErr, shutdown, service>>

TimerFires ==
    /\ hbBatchEndTimer = "Running"
    /\ hbBatchEndTimer' = "Fired"
    /\ UNCHANGED <<detailsToReport, lastDetailsReported, waiters, closeCh, heartbeater, recorded,
                   activity, ctxErr, shutdown, service>>

\* The goroutine closes the batch, and reports what came up during it.
BatchEnds ==
    /\ waiters > 0
    /\ hbBatchEndTimer = "Fired" \/ shutdown
    /\ IF detailsToReport # None
       THEN \E a \in Answers : heartbeatAndScheduleNextRun(detailsToReport, a, "nil", waiters - 1)
       ELSE /\ hbBatchEndTimer' = "nil"
            /\ waiters' = waiters - 1
            /\ UNCHANGED <<detailsToReport, lastDetailsReported, ctxErr, service>>
    /\ UNCHANGED <<closeCh, heartbeater, recorded, activity, shutdown>>

\* Mutant: the goroutine waits for the timer and for the shutdown only.
BatchClosedIgnored ==
    /\ waiters > 0 /\ closeCh /\ shutdown
    /\ waiters' = waiters - 1
    /\ UNCHANGED <<hbBatchEndTimer, detailsToReport, lastDetailsReported, closeCh, heartbeater,
                   recorded, activity, ctxErr, shutdown, service>>

\* The goroutine sees that the invoker is closed.
BatchClosed ==
    /\ waiters > 0 /\ closeCh
    /\ waiters' = waiters - 1
    /\ UNCHANGED <<hbBatchEndTimer, detailsToReport, lastDetailsReported, closeCh, heartbeater,
                   recorded, activity, ctxErr, shutdown, service>>

-----------------------------------------------------------------------------
(* The end of Execute, and ProcessTask.                                    *)

\* The activity's code returns, or panics (Failed).  Its context is canceled;
\* when the deadline was first, a result is thrown away but a panic is not.
Return(outcome) ==
    /\ activity[1] = "Running"
    /\ \/ /\ ctxErr = "DeadlineExceeded"
          /\ activity' = <<"Returned", "Timeout">>
       \/ /\ ctxErr # "DeadlineExceeded" \/ outcome = "Failed"
          /\ activity' = <<"Returned", outcome>>
    /\ ctxErr' = IF ctxErr = "nil" THEN "Canceled" ELSE ctxErr
    /\ UNCHANGED <<invoker, closeCh, heartbeater, recorded, shutdown, service>>

\* The deferred invoker.Close: the timer is stopped, and a heartbeat that is
\* buffered in an open batch is flushed unless the activity completed.
Close ==
    LET flush == activity[2] # "Completed" /\ hbBatchEndTimer # "nil" /\ detailsToReport # None IN
    /\ activity[1] = "Returned"
    /\ activity' = <<"Closed", activity[2]>>
    /\ closeCh' = TRUE
    /\ IF flush
       THEN /\ \E a \in Answers : internalHeartBeat(detailsToReport, a)
            /\ lastDetailsReported' = detailsToReport
            /\ detailsToReport' = None
       ELSE UNCHANGED <<detailsToReport, lastDetailsReported, ctxErr, service>>
    /\ hbBatchEndTimer' = IF hbBatchEndTimer = "Running" THEN "Stopped" ELSE hbBatchEndTimer
    /\ UNCHANGED <<waiters, heartbeater, recorded, shutdown>>

\* A pending result and a timeout are not reported, and nothing is during a
\* shutdown.  The service may no longer know the task.
reportActivityComplete ==
    /\ activity[1] = "Closed"
    /\ activity' = <<"Reported", activity[2]>>
    /\ \/ /\ activity[2] \notin {"Pending", "Timeout"} /\ ~shutdown
          /\ task' = "Gone"
       \/ /\ activity[2] \in {"Pending", "Timeout"} \/ shutdown \/ errors < MaxErrors
          /\ UNCHANGED task
    /\ UNCHANGED <<invoker, closeCh, heartbeater, recorded, ctxErr, shutdown, shown, acked, errors>>

-----------------------------------------------------------------------------
(* What happens around the activity.                                       *)

CancelRequested ==
    /\ task = "Started" /\ task' = "CancelRequested"
    /\ UNCHANGED <<invoker, closeCh, heartbeater, recorded, activity, ctxErr, shutdown, shown, acked, errors>>

\* The service timed the activity out, or its workflow is closed.
TaskGone ==
    /\ task # "Gone" /\ task' = "Gone"
    /\ UNCHANGED <<invoker, closeCh, heartbeater, recorded, activity, ctxErr, shutdown, shown, acked, errors>>

Deadline ==
    /\ activity[1] = "Running" /\ ctxErr = "nil"
    /\ ctxErr' = "DeadlineExceeded"
    /\ UNCHANGED <<invoker, closeCh, heartbeater, recorded, activity, shutdown, service>>

WorkerStops ==
    /\ ~shutdown /\ shutdown' = TRUE
    /\ UNCHANGED <<invoker, closeCh, heartbeater, recorded, activity, ctxErr, service>>

Next ==
    \/ BatchHeartbeat \/ BackgroundHeartbeat \/ HeartbeaterStops
    \/ TimerFires \/ BatchEnds \/ BatchClosed
    \/ \E outcome \in Outcomes \ {"Timeout"} : Return(outcome)
    \/ Close \/ reportActivityComplete
    \/ CancelRequested \/ TaskGone \/ Deadline \/ WorkerStops

Spec == Init /\ [][Next]_vars

\* Timers fire, tickers tick, and goroutines that can run do.  Nothing makes
\* the activity record a heartbeat or return.
FairSpec ==
    /\ Spec
    /\ WF_vars(BackgroundHeartbeat) /\ WF_vars(HeartbeaterStops)
    /\ WF_vars(TimerFires) /\ WF_vars(BatchEnds \/ BatchClosed)
    /\ WF_vars(Close)

-----------------------------------------------------------------------------
(* Properties.                                                             *)

\* Progress that the service has acknowledged is not replaced by older progress,
\* whichever of the activity, the end of a batch, the autoHeartbeater and the
\* final flush sends the next heartbeat, and whatever was lost in between.
AcknowledgedProgressKept == shown >= acked

\* With the autoHeartbeater on, a cancellation at the service reaches the
\* context of an activity that records no heartbeats, though calls may fail.
CancellationArrives ==
    (AutoHeartbeat /\ task # "Started") ~> (ctxErr # "nil" \/ shutdown)

\* After Close no goroutine of the activity stays behind.
GoroutinesEnd == closeCh ~> (waiters = 0 /\ ~heartbeater)

\* activity_task_handler.go: Close flushes the buffered heartbeat if the activity
\* was not successfully completed.
BufferedIsFlushed ==
    activity[1] = "Closed" /\ activity[2] # "Completed" /\ ~heartbeater => detailsToReport = None
=============================================================================
