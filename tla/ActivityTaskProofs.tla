------------------------ MODULE ActivityTaskProofs ------------------------
(***************************************************************************)
(* The heartbeats of an activity, for any number of details and of calls   *)
(* that fail, with and without the autoHeartbeater: progress that the      *)
(* service has acknowledged is kept, and a batch has one goroutine.        *)
(***************************************************************************)
EXTENDS ActivityTask, Shadower, TLAPS

USE SMTT(40)

\* What may be sent next is at least as new as what was acknowledged: the buffer
\* of an open batch, and the details that were reported last, which a background
\* heartbeat repeats when the buffer is empty.  They are there as soon as
\* something was acknowledged.
NothingOlderIsKept ==
    /\ acked <= recorded
    /\ detailsToReport # None => acked <= detailsToReport /\ detailsToReport <= recorded
    /\ lastDetailsReported # None => acked <= lastDetailsReported /\ lastDetailsReported <= recorded
    /\ acked > 0 => lastDetailsReported # None

\* At most one goroutine waits for the end of a batch, and none without a batch.
OneWaiter == waiters \in 0..1 /\ (hbBatchEndTimer = "nil" => waiters = 0)

IInv == TypeOK /\ NothingOlderIsKept /\ AcknowledgedProgressKept /\ OneWaiter

-----------------------------------------------------------------------------
(* Calls to the service                                                    *)

\* A heartbeat with details that are not older than what was acknowledged.
LEMMA HeartbeatKeepsProgress ==
    ASSUME IInv, NEW details \in Details, NEW a \in Answers, details >= acked,
           internalHeartBeat(details, a)
    PROVE  /\ shown' \in Details /\ acked' \in {acked, details} /\ shown' >= acked'
           /\ acked' = details => details = acked \/ succeeds(a)
           /\ ctxErr' \in {"nil", "Canceled", "DeadlineExceeded"}
           /\ errors' \in 0..MaxErrors /\ UNCHANGED task
<1>1. shown' \in Details /\ acked' \in {acked, details} /\ shown' >= acked'
  BY DEF IInv, TypeOK, AcknowledgedProgressKept, internalHeartBeat, Details
<1>2. acked' = details => details = acked \/ succeeds(a)
  BY DEF IInv, TypeOK, internalHeartBeat, succeeds, isActivityCancelled
<1>3. ctxErr' \in {"nil", "Canceled", "DeadlineExceeded"}
  BY DEF IInv, TypeOK, internalHeartBeat
<1>4. errors' \in 0..MaxErrors
  BY ActivityTaskAssumption DEF IInv, TypeOK, internalHeartBeat, Answers
<1>. QED
  BY <1>1, <1>2, <1>3, <1>4, ZenonT(40) DEF internalHeartBeat

\* A heartbeat that starts a batch when it succeeds, from the activity, from the
\* autoHeartbeater or at the end of a batch.
LEMMA ScheduleKeepsProgress ==
    ASSUME IInv, NEW details \in Details, NEW a \in Answers, details >= acked,
           heartbeatAndScheduleNextRun(details, a, "nil", 0),
           recorded' \in Details, recorded' >= recorded, recorded' >= details,
           UNCHANGED <<closeCh, heartbeater, activity, shutdown>>
    PROVE  IInv'
<1>1. internalHeartBeat(details, a)
  BY DEF heartbeatAndScheduleNextRun
<1>2. /\ shown' \in Details /\ acked' \in {acked, details} /\ shown' >= acked'
      /\ acked' = details => details = acked \/ succeeds(a)
      /\ ctxErr' \in {"nil", "Canceled", "DeadlineExceeded"}
      /\ errors' \in 0..MaxErrors /\ UNCHANGED task
  BY <1>1, HeartbeatKeepsProgress
<1>3. /\ hbBatchEndTimer' \in {"nil", "Running"} /\ OneWaiter'
      /\ succeeds(a) => detailsToReport' = None /\ lastDetailsReported' = details
      /\ ~succeeds(a) => UNCHANGED <<detailsToReport, lastDetailsReported>>
  BY DEF heartbeatAndScheduleNextRun, OneWaiter
<1>4. TypeOK'
  BY <1>2, <1>3, ZenonT(40) DEF IInv, TypeOK, OneWaiter
<1>5. NothingOlderIsKept'
  <2>1. CASE succeeds(a)
    BY <2>1, <1>2, <1>3, ActivityTaskAssumption DEF IInv, TypeOK, NothingOlderIsKept, Details
  <2>2. CASE ~succeeds(a)
    BY <2>2, <1>2, <1>3 DEF IInv, TypeOK, NothingOlderIsKept, Details
  <2>. QED
    BY <2>1, <2>2
<1>. QED
  BY <1>2, <1>3, <1>4, <1>5, ZenonT(40) DEF IInv, AcknowledgedProgressKept

-----------------------------------------------------------------------------
(* The steps                                                               *)

LEMMA InitIInv == Init => IInv
<1>. SUFFICES ASSUME Init PROVE IInv
  OBVIOUS
<1>1. TypeOK
  <2>1. activity \in {"Running", "Returned", "Closed", "Reported"} \X Outcomes
    BY DEF Init, Outcomes
  <2>2. {closeCh, heartbeater, shutdown} \subseteq BOOLEAN
    BY ActivityTaskAssumption, ZenonT(40) DEF Init
  <2>. QED
    BY <2>1, <2>2, ActivityTaskAssumption DEF Init, TypeOK, Details
<1>2. NothingOlderIsKept /\ AcknowledgedProgressKept /\ OneWaiter
  BY DEF Init, NothingOlderIsKept, AcknowledgedProgressKept, OneWaiter
<1>. QED
  BY <1>1, <1>2 DEF IInv

LEMMA BatchHeartbeatStep ==
    ASSUME IInv, BatchHeartbeat PROVE IInv'
<1>. DEFINE details == recorded + 1
<1>1. details \in Details /\ details >= acked /\ recorded' = details
  BY ActivityTaskAssumption DEF BatchHeartbeat, IInv, TypeOK, NothingOlderIsKept, Details
<1>2. CASE hbBatchEndTimer # "nil"
  <2>1. /\ detailsToReport' = details
        /\ UNCHANGED <<hbBatchEndTimer, lastDetailsReported, waiters, ctxErr, service>>
        /\ UNCHANGED <<closeCh, heartbeater, activity, shutdown>>
    BY <1>2 DEF BatchHeartbeat
  <2>. QED
    BY <1>1, <2>1 DEF IInv, TypeOK, NothingOlderIsKept, AcknowledgedProgressKept, OneWaiter, service, Details
<1>3. CASE hbBatchEndTimer = "nil"
  <2>1. PICK a \in Answers : heartbeatAndScheduleNextRun(details, a, "nil", 0)
    BY <1>3 DEF BatchHeartbeat, IInv, OneWaiter
  <2>2. /\ recorded' \in Details /\ recorded' >= recorded /\ recorded' >= details
        /\ UNCHANGED <<closeCh, heartbeater, activity, shutdown>>
    BY <1>1 DEF BatchHeartbeat, IInv, TypeOK, Details
  <2>. QED
    BY <1>1, <2>1, <2>2, ScheduleKeepsProgress, ZenonT(40)
<1>. QED
  BY <1>2, <1>3

LEMMA BackgroundHeartbeatStep ==
    ASSUME IInv, BackgroundHeartbeat PROVE IInv'
<1>. DEFINE details == IF detailsToReport # None THEN detailsToReport
                       ELSE IF lastDetailsReported # None THEN lastDetailsReported ELSE 0
<1>1. CASE hbBatchEndTimer # "nil"
  <2>1. /\ detailsToReport' = IF detailsToReport = None THEN lastDetailsReported ELSE detailsToReport
        /\ UNCHANGED <<hbBatchEndTimer, lastDetailsReported, waiters, ctxErr, service>>
        /\ UNCHANGED <<closeCh, heartbeater, recorded, activity, shutdown>>
    BY <1>1 DEF BackgroundHeartbeat
  <2>. QED
    BY <2>1 DEF IInv, TypeOK, NothingOlderIsKept, AcknowledgedProgressKept, OneWaiter, service, Details
<1>2. CASE hbBatchEndTimer = "nil"
  <2>1. PICK a \in Answers : heartbeatAndScheduleNextRun(details, a, "nil", 0)
    BY <1>2 DEF BackgroundHeartbeat, IInv, OneWaiter
  <2>2. details \in Details /\ details >= acked /\ recorded >= details
    BY ActivityTaskAssumption DEF IInv, TypeOK, NothingOlderIsKept, Details
  <2>3. /\ recorded' \in Details /\ recorded' >= recorded /\ recorded' >= details
        /\ UNCHANGED <<closeCh, heartbeater, activity, shutdown>>
    BY <2>2 DEF BackgroundHeartbeat, IInv, TypeOK, Details
  <2>. QED
    BY <2>1, <2>2, <2>3, ScheduleKeepsProgress, ZenonT(40)
<1>. QED
  BY <1>1, <1>2

\* The steps that touch neither the details nor what the service shows.
LEMMA OtherSteps ==
    ASSUME IInv, HeartbeaterStops \/ TimerFires \/ CancelRequested \/ TaskGone \/ Deadline \/ WorkerStops
    PROVE  IInv'
<1>1. UNCHANGED <<detailsToReport, lastDetailsReported, waiters, closeCh, recorded, activity,
                  shown, acked, errors>>
  BY ZenonT(40) DEF HeartbeaterStops, TimerFires, CancelRequested, TaskGone, Deadline, WorkerStops, invoker, service
<1>2. hbBatchEndTimer' = hbBatchEndTimer \/ (hbBatchEndTimer = "Running" /\ hbBatchEndTimer' = "Fired")
  BY ZenonT(40) DEF HeartbeaterStops, TimerFires, CancelRequested, TaskGone, Deadline, WorkerStops, invoker
<1>3. /\ ctxErr' \in {ctxErr, "DeadlineExceeded"}
      /\ task' \in {task, "CancelRequested", "Gone"}
  BY ZenonT(40) DEF HeartbeaterStops, TimerFires, CancelRequested, TaskGone, Deadline, WorkerStops, service
<1>4. heartbeater' = heartbeater \/ heartbeater' = FALSE
  BY ZenonT(40) DEF HeartbeaterStops, TimerFires, CancelRequested, TaskGone, Deadline, WorkerStops
<1>5. shutdown' = shutdown \/ shutdown' = TRUE
  BY ZenonT(40) DEF HeartbeaterStops, TimerFires, CancelRequested, TaskGone, Deadline, WorkerStops
<1>6. {closeCh, heartbeater, shutdown}' \subseteq BOOLEAN
  BY <1>1, <1>4, <1>5, ZenonT(40) DEF IInv, TypeOK
<1>7. TypeOK'
  BY <1>1, <1>2, <1>3, <1>6, ZenonT(40) DEF IInv, TypeOK
<1>. QED
  BY <1>1, <1>2, <1>7, ZenonT(40) DEF IInv, NothingOlderIsKept, AcknowledgedProgressKept, OneWaiter

LEMMA BatchEndsStep ==
    ASSUME IInv, BatchEnds PROVE IInv'
<1>1. waiters = 1
  BY DEF BatchEnds, IInv, TypeOK
<1>2. CASE detailsToReport # None
  <2>1. PICK a \in Answers : heartbeatAndScheduleNextRun(detailsToReport, a, "nil", 0)
    BY <1>1, <1>2 DEF BatchEnds
  <2>2. detailsToReport \in Details /\ detailsToReport >= acked /\ recorded >= detailsToReport
    BY <1>2 DEF IInv, TypeOK, NothingOlderIsKept, Details
  <2>3. /\ recorded' \in Details /\ recorded' >= recorded /\ recorded' >= detailsToReport
        /\ UNCHANGED <<closeCh, heartbeater, activity, shutdown>>
    BY <2>2 DEF BatchEnds, IInv, TypeOK, Details
  <2>. QED
    BY <2>1, <2>2, <2>3, ScheduleKeepsProgress, ZenonT(40)
<1>3. CASE detailsToReport = None
  <2>1. /\ hbBatchEndTimer' = "nil" /\ waiters' = 0
        /\ UNCHANGED <<detailsToReport, lastDetailsReported, ctxErr, service>>
        /\ UNCHANGED <<closeCh, heartbeater, recorded, activity, shutdown>>
    BY <1>1, <1>3 DEF BatchEnds
  <2>. QED
    BY <2>1 DEF IInv, TypeOK, NothingOlderIsKept, AcknowledgedProgressKept, OneWaiter, service
<1>. QED
  BY <1>2, <1>3

LEMMA BatchClosedStep ==
    ASSUME IInv, BatchClosed PROVE IInv'
<1>1. /\ waiters = 1 /\ waiters' = 0
      /\ UNCHANGED <<hbBatchEndTimer, detailsToReport, lastDetailsReported, closeCh, heartbeater,
                     recorded, activity, ctxErr, shutdown, service>>
  BY DEF BatchClosed, IInv, TypeOK
<1>. QED
  BY <1>1 DEF IInv, TypeOK, NothingOlderIsKept, AcknowledgedProgressKept, OneWaiter, service

LEMMA ReturnStep ==
    ASSUME IInv, NEW outcome \in Outcomes, Return(outcome) PROVE IInv'
<1>1. activity' \in {"Running", "Returned", "Closed", "Reported"} \X Outcomes
  BY DEF Return, Outcomes
<1>2. ctxErr' \in {"nil", "Canceled", "DeadlineExceeded"}
  BY DEF Return, IInv, TypeOK
<1>3. UNCHANGED <<invoker, closeCh, heartbeater, recorded, shutdown, service>>
  BY DEF Return
<1>. QED
  BY <1>1, <1>2, <1>3, ZenonT(40)
     DEF IInv, TypeOK, NothingOlderIsKept, AcknowledgedProgressKept, OneWaiter, invoker, service

\* The flush sends what the open batch has buffered.
LEMMA CloseStep ==
    ASSUME IInv, Close PROVE IInv'
<1>. DEFINE flush == activity[2] # "Completed" /\ hbBatchEndTimer # "nil" /\ detailsToReport # None
<1>1. /\ activity' = <<"Closed", activity[2]>> /\ activity[2] \in Outcomes
      /\ closeCh' = TRUE
      /\ hbBatchEndTimer' = IF hbBatchEndTimer = "Running" THEN "Stopped" ELSE hbBatchEndTimer
      /\ UNCHANGED <<waiters, heartbeater, recorded, shutdown>>
  BY ZenonT(40) DEF Close, IInv, TypeOK
<1>2. activity' \in {"Running", "Returned", "Closed", "Reported"} \X Outcomes
  BY <1>1
<1>3. CASE flush
  <2>1. PICK a \in Answers : internalHeartBeat(detailsToReport, a)
    BY <1>3 DEF Close
  <2>2. detailsToReport \in Details /\ detailsToReport >= acked /\ recorded >= detailsToReport
    BY <1>3, ZenonT(40) DEF IInv, TypeOK, NothingOlderIsKept, Details
  <2>3. /\ shown' \in Details /\ acked' \in {acked, detailsToReport} /\ shown' >= acked'
        /\ ctxErr' \in {"nil", "Canceled", "DeadlineExceeded"}
        /\ errors' \in 0..MaxErrors /\ UNCHANGED task
    BY <2>1, <2>2, HeartbeatKeepsProgress
  <2>4. lastDetailsReported' = detailsToReport /\ detailsToReport' = None
    BY <1>3 DEF Close
  <2>5. TypeOK'
    BY <1>1, <1>2, <2>2, <2>3, <2>4, ZenonT(40) DEF IInv, TypeOK
  <2>6. NothingOlderIsKept' /\ AcknowledgedProgressKept' /\ OneWaiter'
    BY <1>1, <1>3, <2>2, <2>3, <2>4
       DEF IInv, TypeOK, NothingOlderIsKept, AcknowledgedProgressKept, OneWaiter, Details
  <2>. QED
    BY <2>5, <2>6 DEF IInv
<1>4. CASE ~flush
  <2>1. UNCHANGED <<detailsToReport, lastDetailsReported, ctxErr, service>>
    BY <1>4 DEF Close
  <2>2. TypeOK'
    BY <1>1, <1>2, <2>1, ZenonT(40) DEF IInv, TypeOK, service
  <2>. QED
    BY <1>1, <2>1, <2>2, ZenonT(40) DEF IInv, NothingOlderIsKept, AcknowledgedProgressKept, OneWaiter, service
<1>. QED
  BY <1>3, <1>4

LEMMA ReportStep ==
    ASSUME IInv, reportActivityComplete PROVE IInv'
<1>1. activity' = <<"Reported", activity[2]>> /\ activity[2] \in Outcomes /\ task' \in {task, "Gone"}
  BY DEF reportActivityComplete, IInv, TypeOK
<1>2. activity' \in {"Running", "Returned", "Closed", "Reported"} \X Outcomes
  BY <1>1
<1>3. UNCHANGED <<invoker, closeCh, heartbeater, recorded, ctxErr, shutdown, shown, acked, errors>>
  BY DEF reportActivityComplete
<1>. QED
  BY <1>1, <1>2, <1>3 DEF IInv, TypeOK, NothingOlderIsKept, AcknowledgedProgressKept, OneWaiter, invoker

LEMMA NextIInv == IInv /\ [Next]_vars => IInv'
<1>. SUFFICES ASSUME IInv, [Next]_vars PROVE IInv'
  OBVIOUS
<1>1. CASE BatchHeartbeat
  BY <1>1, BatchHeartbeatStep
<1>2. CASE BackgroundHeartbeat
  BY <1>2, BackgroundHeartbeatStep
<1>3. CASE HeartbeaterStops \/ TimerFires \/ CancelRequested \/ TaskGone \/ Deadline \/ WorkerStops
  BY <1>3, OtherSteps
<1>4. CASE BatchEnds
  BY <1>4, BatchEndsStep
<1>5. CASE BatchClosed
  BY <1>5, BatchClosedStep
<1>6. ASSUME NEW outcome \in Outcomes \ {"Timeout"}, Return(outcome) PROVE IInv'
  BY <1>6, ReturnStep
<1>7. CASE Close
  BY <1>7, CloseStep
<1>8. CASE reportActivityComplete
  BY <1>8, ReportStep
<1>9. CASE UNCHANGED vars
  BY <1>9, ZenonT(40) DEF vars, invoker, service, IInv, TypeOK, NothingOlderIsKept, AcknowledgedProgressKept, OneWaiter
<1>. QED
  BY <1>1, <1>2, <1>3, <1>4, <1>5, <1>6, <1>7, <1>8, <1>9, ZenonT(40) DEF Next

LEMMA AlwaysIInv == Spec => []IInv
  BY InitIInv, NextIInv, PTL DEF Spec

-----------------------------------------------------------------------------
(* Theorems                                                                *)

\* internalHeartBeat never replaces progress that the service has acknowledged by
\* older progress, whoever calls it and whichever calls failed before.
THEOREM ProgressIsKept == Spec => []AcknowledgedProgressKept
  BY AlwaysIInv, PTL DEF IInv

\* heartbeatAndScheduleNextRun starts a goroutine for the end of a batch only when
\* none waits: at most one does, and none while no batch is open.
THEOREM OneGoroutineWaits == Spec => []OneWaiter
  BY AlwaysIInv, PTL DEF IInv

-----------------------------------------------------------------------------
(***************************************************************************)
(* Shadowing.                                                              *)
(***************************************************************************)

Progress == [NextExecutionIdx : Nat, Succeeded : Nat, Skipped : Nat, Failed : Nat]
counted(pr) == pr.Succeeded + pr.Skipped + pr.Failed = pr.NextExecutionIdx

\* An execution that was passed was counted; in a batch with no nil in it the loop
\* is where the progress says.
ActivityInv ==
    /\ executions \subseteq Executions /\ position \in 0..NumExecutions
    /\ progress \in Progress /\ heartbeatDetails \in Progress
    /\ counted(heartbeatDetails) /\ heartbeatDetails.NextExecutionIdx <= NumExecutions
    /\ replayAt # "Error" => counted(progress) /\ progress.NextExecutionIdx <= position
    /\ replayAt # "Error" /\ executions = Executions => progress.NextExecutionIdx = position
    /\ replayAt = "Completed" => position = NumExecutions

\* Without sampling, what was replayed in this scan is what the pages passed have,
\* but for what is still listed.
ShadowerInv ==
    /\ page \in 0..NumExecutions /\ listed \subseteq Executions
    /\ replays \in [Executions -> Nat]
    /\ listed \subseteq 1..page
    /\ status = "Initialized" => shadowAt = "None"
    /\ shadowAt \in {"None", "Scan"} => listed = {}
    /\ shadowAt = "Completed" => listed = {} /\ page = NumExecutions
    /\ ~sampled => \A e \in Executions : replays[e] = IF e <= page /\ e \notin listed THEN 1 ELSE 0

\* ReplayActivityNext changes what is in activityVars alone, ShadowerNext the rest.
LEMMA ActivityInvStep ==
    ASSUME ActivityInv, ReplayActivityNext
    PROVE  ActivityInv'
<1>. USE ShadowerAssumption DEF ShadowerAssumption
<1>0. /\ position \in Nat /\ position <= NumExecutions
      /\ progress.NextExecutionIdx \in Nat /\ heartbeatDetails.NextExecutionIdx \in Nat
  BY DEF ActivityInv, Progress
<1>1. CASE skipNil
  BY <1>0, <1>1 DEF skipNil, ActivityInv, Executions
<1>2. CASE replayExecution
  <2>1. PICK r \in {"Succeeded", "Skipped", "Failed"} : progress' = counts(r)
    BY <1>2 DEF replayExecution
  <2>2. /\ replayAt = "Loop" /\ position' = position + 1 /\ position + 1 \in Executions
        /\ heartbeatDetails' = heartbeatDetails \/ heartbeatDetails' = progress'
        /\ executions' = executions /\ replayAt' = replayAt
    BY <1>2 DEF replayExecution, ActivityInv
  <2>3. progress' \in Progress /\ counted(progress') /\ progress'.NextExecutionIdx = progress.NextExecutionIdx + 1
    <3>1. CASE r = "Succeeded"
      BY <2>1, <2>2, <3>1 DEF counts, counted, Progress, ActivityInv
    <3>2. CASE r = "Skipped"
      BY <2>1, <2>2, <3>2 DEF counts, counted, Progress, ActivityInv
    <3>3. CASE r = "Failed"
      BY <2>1, <2>2, <3>3 DEF counts, counted, Progress, ActivityInv
    <3>. QED
      BY <3>1, <3>2, <3>3
  <2>. QED
    BY <1>0, <2>2, <2>3 DEF ActivityInv, Executions
<1>3. CASE notRegistered
  <2>1. progress' \in Progress
    BY <1>3 DEF notRegistered, ActivityInv, Progress
  <2>. QED
    BY <1>3, <2>1 DEF notRegistered, ActivityInv
<1>4. CASE replayReturns
  BY <1>4 DEF replayReturns, ActivityInv
<1>5. CASE replayRetried
  BY <1>5 DEF replayRetried, ActivityInv, Progress
<1>. QED
  BY <1>1, <1>2, <1>3, <1>4, <1>5 DEF ReplayActivityNext

LEMMA ShadowerInvStep ==
    ASSUME ShadowerInv, ShadowerNext
    PROVE  ShadowerInv'
<1>. USE ShadowerAssumption DEF ShadowerAssumption
<1>0. sampled' = sampled
  BY ZenonT(40) DEF ShadowerNext, Run, StopShadower, scanWorkflowExecutions, replayListed, nextScan, shadowWorkerEnds
<1>1. CASE Run \/ StopShadower
  <2>1. /\ UNCHANGED <<sampled, page, listed, replays>> /\ status' # "Initialized"
        /\ shadowAt' = shadowAt \/ (shadowAt = "None" /\ shadowAt' = "Scan")
    BY <1>1 DEF Run, StopShadower, ShadowerInv
  <2>. QED
    BY <2>1 DEF ShadowerInv
<1>2. CASE scanWorkflowExecutions
  BY <1>2 DEF scanWorkflowExecutions, ShadowerInv, Executions
<1>3. CASE replayListed
  <2>1. PICK e \in listed : listed' = listed \ {e} /\ replays' = [replays EXCEPT ![e] = @ + 1]
    BY <1>3, ZenonT(40) DEF replayListed
  <2>2. shadowAt = "Replay" /\ shadowAt' \in {"Replay", "CountReached"} /\ page' = page /\ status' = status
    BY <1>3 DEF replayListed
  <2>. QED
    BY <1>0, <2>1, <2>2 DEF ShadowerInv, Executions
<1>4. CASE nextScan
  BY <1>0, <1>4 DEF nextScan, ShadowerInv, Executions
<1>5. ASSUME NEW how \in {"Error", "Expired"}, shadowWorkerEnds(how)
      PROVE  ShadowerInv'
  BY <1>0, <1>5 DEF shadowWorkerEnds, ShadowerInv
<1>. QED
  BY <1>1, <1>2, <1>3, <1>4, <1>5 DEF ShadowerNext

\* For every number of executions and of attempts: a batch without a nil is counted
\* once, since a retry of replayWorkflowActivity does again what it had not recorded,
\* and a shadower goes from page to page without loss or repetition.
THEOREM EachIsCountedOnce == ShadowingSpec => []CountedOnce
<1>. DEFINE Inv == ActivityInv /\ ShadowerInv
<1>1. ShadowingInit => Inv
  <2>. SUFFICES ASSUME ShadowingInit PROVE Inv
    OBVIOUS
  <2>1. ActivityInv
    BY ShadowerAssumption DEF ShadowerAssumption, ShadowingInit, ActivityInv, NoProgress, Progress, counted
  <2>2. ShadowerInv
    BY ShadowerAssumption DEF ShadowerAssumption, ShadowingInit, ShadowerInv, Executions
  <2>. QED
    BY <2>1, <2>2
<1>2. Inv /\ [ShadowingNext]_shadowing => Inv'
  <2>. SUFFICES ASSUME Inv, [ShadowingNext]_shadowing PROVE Inv'
    OBVIOUS
  <2>1. CASE ReplayActivityNext
    <3>1. UNCHANGED shadowVars
      BY <2>1 DEF ReplayActivityNext, skipNil, replayExecution, notRegistered, replayReturns, replayRetried
    <3>2. ShadowerInv'
      BY <3>1 DEF shadowVars, ShadowerInv
    <3>. QED
      BY <2>1, <3>2, ActivityInvStep
  <2>2. CASE ShadowerNext
    <3>1. UNCHANGED activityVars
      BY <2>2, ZenonT(40) DEF ShadowerNext, Run, StopShadower, scanWorkflowExecutions, replayListed, nextScan, shadowWorkerEnds
    <3>2. ActivityInv'
      BY <3>1 DEF activityVars, ActivityInv
    <3>. QED
      BY <2>2, <3>2, ShadowerInvStep
  <2>3. CASE UNCHANGED shadowing
    BY <2>3, ZenonT(40) DEF shadowing, activityVars, shadowVars, ActivityInv, ShadowerInv
  <2>. QED
    BY <2>1, <2>2, <2>3 DEF ShadowingNext
<1>3. Inv => CountedOnce
  <2>1. ActivityInv /\ replayAt = "Completed" /\ executions = Executions =>
           progress.Succeeded + progress.Skipped + progress.Failed = NumExecutions
    BY DEF ActivityInv, counted
  <2>2. ShadowerInv /\ shadowAt = "Completed" /\ ~sampled => \A e \in Executions : replays[e] = 1
    BY ShadowerAssumption DEF ShadowerAssumption, ShadowerInv, Executions
  <2>. QED
    BY <2>1, <2>2, ZenonT(40) DEF CountedOnce
<1>. QED
  BY <1>1, <1>2, <1>3, PTL DEF ShadowingSpec
=============================================================================
