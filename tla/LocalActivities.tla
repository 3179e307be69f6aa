--------------------------- MODULE LocalActivities ---------------------------
(***************************************************************************)
(* Local activities: the goroutine that processes a decision task          *)
(* (processWorkflowTask and the loops of ProcessWorkflowTask), the tunnel  *)
(* and the pool that execute the local activities, the timers of their     *)
(* local retries, decision heartbeats and the shutdown of the worker.      *)
(*                                                                         *)
(* One workflow is modelled.  Its code schedules an activity as soon as    *)
(* the ones it comes after are done.  A local activity task belongs to the *)
(* call of processWorkflowTask that sent it, whose laResultCh and doneCh   *)
(* it carries.  The service is external: it has at most one decision task  *)
(* of the workflow open and accepts a response to that one only.           *)
(***************************************************************************)
EXTENDS Integers, Sequences, FiniteSets

CONSTANTS Activities,
          After,           \* the activities whose results each one comes after
          QueueSize,       \* capacity of taskCh
          Executors,       \* MaxConcurrentLocalActivityExecutionSize
          WithRetryPolicy, \* the activities that have a retry policy
          MaximumAttempts, \* of the retry policy
          TransientErrors, \* a response to the service may have to be sent again
          MayFail,         \* processing a decision task may fail
          MayStop,         \* the worker may be stopped
          MaxTasks         \* bound on the decision tasks

ASSUME LocalActivitiesAssumption ==
    /\ After \in [Activities -> SUBSET Activities]
    /\ WithRetryPolicy \subseteq Activities
    /\ {QueueSize, Executors, MaximumAttempts, MaxTasks} \subseteq Nat \ {0}
    /\ {TransientErrors, MayFail, MayStop} \subseteq BOOLEAN

VARIABLES
    call,      \* the calls of processWorkflowTask so far; the last one may be running
    pc,        \* where it is: see TypeOK
    outer,     \* the decision task in the variable task of processWorkflowTask
    current,   \* currentDecisionTask of the workflow context
    open,      \* the decision task that is open at the service, 0 for none
    tasks,     \* the decision tasks so far
    initial,   \* the decision tasks with attempt 0
    retry,     \* the next decision task repeats one that failed or timed out
    completed, \* the last decision task that the service accepted
    firstCall, \* the call that created the workflow context
    live,      \* the context has an event handler
    done,      \* local activities whose results the workflow has
    unstarted, \* unstartedLaTasks
    toSend,    \* those that CompleteDecisionTask still has to send
    finished,  \* isWorkflowCompleted
    recorded,  \* local activities whose markers are in the history
    closed,    \* the service closed the workflow
    la,        \* the local activity tasks of each call
    queue,     \* taskCh
    stopped    \* stopCh is closed

thread == <<call, pc, outer, current, firstCall, live, done, unstarted, toSend, finished>>
service == <<open, tasks, initial, retry, completed, recorded, closed>>
pool == <<la, queue>>
vars == <<thread, service, pool, stopped>>

Calls == 1..MaxTasks

\* Ok is a result or an error to report, Failed an error of an activity that has a
\* retry policy which does not exclude it.
HasResult == {"Ok", "Failed"}
Holding == {"Executing"} \cup HasResult
InFlight == {"Queued", "Backoff", "Retrying"} \cup Holding

TypeOK ==
    /\ call \in 0..MaxTasks
    /\ pc \in {"Idle", "Process", "Send", "Wait", "Respond", "Fail"}
    /\ {outer, current, open, tasks, completed} \subseteq 0..MaxTasks
    /\ initial \subseteq 1..MaxTasks
    /\ firstCall \in 0..MaxTasks
    /\ {retry, live, finished, closed, stopped} \subseteq BOOLEAN
    /\ toSend \subseteq unstarted /\ unstarted \subseteq Activities \ done
    /\ done \subseteq Activities /\ recorded \subseteq Activities
    /\ la \in [Calls -> [Activities -> [st : {"None", "Gone"} \cup InFlight,
                                        attempt : 0..MaximumAttempts]]]
    /\ queue \in Seq(Calls \X Activities) /\ Len(queue) <= QueueSize

Init ==
    /\ call = 0 /\ pc = "Idle" /\ outer = 0 /\ current = 0
    /\ open = 0 /\ tasks = 0 /\ initial = {} /\ retry = FALSE /\ completed = 0
    /\ firstCall = 0 /\ live = FALSE /\ finished = FALSE
    /\ done = {} /\ unstarted = {} /\ toSend = {}
    /\ recorded = {} /\ closed = FALSE
    /\ la = [e \in Calls |-> [a \in Activities |-> [st |-> "None", attempt |-> 0]]]
    /\ queue = <<>>
    /\ stopped = FALSE

\* pendingLaTasks when the workflow has the results D.
scheduled(D) == {a \in Activities \ D : After[a] \subseteq D}

pending == scheduled(done)

\* Unlock with an error: the context leaves the cache and is cleared.
abandon ==
    /\ pc' = "Idle"
    /\ live' = FALSE

-----------------------------------------------------------------------------
(* Decision tasks.                                                         *)

\* The service starts decision task n.
starts(n) ==
    /\ tasks' = n
    /\ open' = n
    /\ current' = n
    /\ retry' = FALSE

\* A decision task is polled.  A context in the cache is used as it is unless
\* it is stale; otherwise the state is rebuilt from the history.
processWorkflowTask ==
    LET cached == live /\ completed = current IN
    /\ pc = "Idle" /\ ~stopped /\ ~closed /\ open = 0 /\ tasks < MaxTasks
    /\ starts(tasks + 1)
    /\ initial' = IF retry THEN initial ELSE initial \cup {tasks + 1}
    /\ outer' = tasks + 1
    /\ call' = call + 1
    /\ firstCall' = IF live THEN firstCall ELSE call + 1
    /\ live' = TRUE
    /\ IF cached THEN UNCHANGED <<done, unstarted>>
                 ELSE done' = recorded /\ unstarted' = scheduled(recorded)
    /\ pc' = "Process"
    /\ finished' = FALSE
    /\ UNCHANGED <<toSend, completed, recorded, closed, pool, stopped>>

\* The workflow code has run.  It may complete the workflow, and then the local
\* activities that are pending do not matter any more.
Processed(completes) ==
    /\ pc = "Process"
    /\ finished' = (done = Activities \/ completes)
    /\ live' = ~finished'
    /\ toSend' = IF finished' THEN {} ELSE unstarted
    /\ pc' = IF finished' THEN "Respond" ELSE "Send"
    /\ UNCHANGED <<call, outer, current, firstCall, done, unstarted, service, pool, stopped>>

ProcessFails ==
    /\ pc = "Process" /\ MayFail
    /\ live' = FALSE
    /\ pc' = "Fail"
    /\ UNCHANGED <<call, outer, current, firstCall, done, unstarted, toSend, finished,
                   service, pool, stopped>>

\* Mutant: a task that was sent stays in unstartedLaTasks.
sendTaskKeeps(a) ==
    /\ pc = "Send" /\ a \in toSend
    /\ toSend' = toSend \ {a}
    /\ Len(queue) < QueueSize
    /\ queue' = Append(queue, <<call, a>>)
    /\ la' = [la EXCEPT ![call][a].st = "Queued"]
    /\ UNCHANGED <<call, pc, outer, current, firstCall, live, done, unstarted, finished,
                   service, stopped>>

\* CompleteDecisionTask sends the unstarted tasks one by one.  sendTask blocks
\* while the queue is full, and may give up once the worker stops.
sendTask(a) ==
    /\ pc = "Send" /\ a \in toSend
    /\ toSend' = toSend \ {a}
    /\ \/ /\ Len(queue) < QueueSize
          /\ queue' = Append(queue, <<call, a>>)
          /\ la' = [la EXCEPT ![call][a].st = "Queued"]
          /\ unstarted' = unstarted \ {a}
       \/ /\ stopped
          /\ UNCHANGED <<pool, unstarted>>
    /\ UNCHANGED <<call, pc, outer, current, firstCall, live, done, finished, service, stopped>>

CompleteDecisionTask ==
    /\ pc = "Send" /\ toSend = {}
    /\ pc' = IF pending # {} THEN "Wait" ELSE "Respond"
    /\ UNCHANGED <<call, outer, current, firstCall, live, done, unstarted, toSend, finished,
                   service, pool, stopped>>

accepted == open = current

RespondTaskCompleted ==
    /\ pc = "Respond"
    /\ pc' = "Idle"
    /\ IF accepted
       THEN /\ recorded' = done /\ completed' = current /\ open' = 0
            /\ closed' = finished
       ELSE UNCHANGED <<recorded, completed, open, closed>>
    /\ UNCHANGED <<call, outer, current, firstCall, live, done, unstarted, toSend, finished,
                   tasks, initial, retry, pool, stopped>>

\* handleDecisionFailedRequest, with the token and the attempt of outer.
RespondTaskFailed ==
    /\ pc = "Fail"
    /\ pc' = "Idle"
    /\ IF outer \in initial /\ open = outer
       THEN open' = 0 /\ retry' = TRUE
       ELSE UNCHANGED <<open, retry>>
    /\ UNCHANGED <<call, outer, current, firstCall, live, done, unstarted, toSend, finished,
                   tasks, initial, completed, recorded, closed, pool, stopped>>

DecisionTimesOut ==
    /\ open # 0
    /\ open' = 0
    /\ retry' = TRUE
    /\ UNCHANGED <<thread, tasks, initial, completed, recorded, closed, pool, stopped>>

-----------------------------------------------------------------------------
(* The loop that waits for local activities.                               *)

\* retryLocalActivity, with a backoff that is below the decision timeout.
retries(e, a) == la[e][a].st = "Failed" /\ la[e][a].attempt <= MaximumAttempts - 1

\* Mutant: the retry is given up while the local activity stays pending.
ResultWithoutRetry(a) ==
    /\ pc = "Wait" /\ la[call][a].st \in HasResult
    /\ la' = [la EXCEPT ![call][a].st = "Gone"]
    /\ IF retries(call, a)
       THEN UNCHANGED <<done, unstarted, pc>>
       ELSE /\ done' = done \cup {a}
            /\ unstarted' = unstarted \cup (scheduled(done') \ pending)
            /\ pc' = "Process"
    /\ UNCHANGED <<call, outer, current, firstCall, live, toSend, finished, service, queue, stopped>>

\* A result arrives on laResultCh: a local retry, or the result goes to the
\* workflow code as a marker.
ProcessLocalActivityResult(a) ==
    /\ pc = "Wait" /\ la[call][a].st \in HasResult
    /\ IF retries(call, a)
       THEN /\ la' = [la EXCEPT ![call][a].st = "Backoff"]
            /\ UNCHANGED <<done, unstarted, pc>>
       ELSE /\ la' = [la EXCEPT ![call][a].st = "Gone"]
            /\ done' = done \cup {a}
            /\ unstarted' = unstarted \cup (scheduled(done') \ pending)
            /\ pc' = "Process"
    /\ UNCHANGED <<call, outer, current, firstCall, live, toSend, finished, service, queue, stopped>>

\* The heartbeat is answered with the next decision task, which the inner loop
\* goes on with; the variable task of processWorkflowTask does not change.
Heartbeat ==
    /\ pc = "Wait" /\ accepted /\ tasks < MaxTasks
    /\ recorded' = done /\ completed' = current
    /\ starts(tasks + 1)
    /\ initial' = initial \cup {tasks + 1}
    /\ pc' = "Process"
    /\ UNCHANGED <<call, outer, firstCall, live, done, unstarted, toSend, finished,
                   closed, pool, stopped>>

\* The heartbeat had to be sent again.  The request then has StickyAttributes
\* already and asks for no decision task: the call returns without an error.
HeartbeatSentAgain ==
    /\ pc = "Wait" /\ accepted /\ TransientErrors
    /\ recorded' = done /\ completed' = current /\ open' = 0
    /\ pc' = "Idle"
    /\ UNCHANGED <<call, outer, current, firstCall, live, done, unstarted, toSend, finished,
                   tasks, initial, retry, closed, pool, stopped>>

\* The service rejects the heartbeat: the decision task timed out.
HeartbeatRejected ==
    /\ pc = "Wait" /\ ~accepted
    /\ abandon
    /\ UNCHANGED <<call, outer, current, firstCall, done, unstarted, toSend, finished,
                   service, pool, stopped>>

\* The answer to a heartbeat that the service accepted is lost, and the service
\* rejects the one that is sent again.
HeartbeatAnswerLost ==
    /\ pc = "Wait" /\ accepted /\ TransientErrors
    /\ recorded' = done /\ completed' = current /\ open' = 0
    /\ abandon
    /\ UNCHANGED <<call, outer, current, firstCall, done, unstarted, toSend, finished,
                   tasks, initial, retry, closed, pool, stopped>>

\* Mutant: the shutdown is not noticed.
ShutdownIgnored ==
    /\ pc = "Wait" /\ stopped /\ pending = {}
    /\ abandon
    /\ UNCHANGED <<call, outer, current, firstCall, done, unstarted, toSend, finished,
                   service, pool, stopped>>

AbandonOnShutdown ==
    /\ pc = "Wait" /\ stopped
    /\ abandon
    /\ UNCHANGED <<call, outer, current, firstCall, done, unstarted, toSend, finished,
                   service, pool, stopped>>

-----------------------------------------------------------------------------
(* The pool and the retry timers.                                          *)

busy == Cardinality({t \in Calls \X Activities : la[t[1]][t[2]].st \in Holding})

\* ProcessTask of the pool; a task that is taken during shutdown may be dropped.
executeLocalActivityTask ==
    LET e == Head(queue)[1]
        a == Head(queue)[2]
    IN
    /\ queue # <<>> /\ busy < Executors
    /\ queue' = Tail(queue)
    /\ \/ la' = [la EXCEPT ![e][a].st = "Executing"]
       \/ stopped /\ la' = [la EXCEPT ![e][a].st = "Gone"]
    /\ UNCHANGED <<thread, service, stopped>>

LocalActivityReturns(e, a) ==
    /\ la[e][a].st = "Executing"
    /\ \E r \in HasResult :
         /\ r = "Failed" => a \in WithRetryPolicy
         /\ la' = [la EXCEPT ![e][a].st = r]
    /\ UNCHANGED <<thread, service, queue, stopped>>

doneChClosed(e) == e < call \/ pc = "Idle"

\* Mutant: doneCh is not closed when processWorkflowTask returns an error.
DropResultAfterSuccess(e, a) ==
    /\ la[e][a].st \in HasResult /\ doneChClosed(e) /\ live
    /\ la' = [la EXCEPT ![e][a].st = "Gone"]
    /\ UNCHANGED <<thread, service, queue, stopped>>

DropResult(e, a) ==
    /\ la[e][a].st \in HasResult /\ doneChClosed(e)
    /\ la' = [la EXCEPT ![e][a].st = "Gone"]
    /\ UNCHANGED <<thread, service, queue, stopped>>

\* The timer looks at the event handler of the context that the task ran under.
RetryTimerFires(e, a) ==
    /\ la[e][a].st = "Backoff"
    /\ la' = [la EXCEPT ![e][a] =
                 IF live /\ e >= firstCall /\ a \in pending
                 THEN [st |-> "Retrying", attempt |-> @.attempt + 1]
                 ELSE [@ EXCEPT !.st = "Gone"]]
    /\ UNCHANGED <<thread, service, queue, stopped>>

RetryTimerSends(e, a) ==
    /\ la[e][a].st = "Retrying"
    /\ \/ /\ Len(queue) < QueueSize
          /\ queue' = Append(queue, <<e, a>>)
          /\ la' = [la EXCEPT ![e][a].st = "Queued"]
       \/ /\ stopped
          /\ la' = [la EXCEPT ![e][a] = [st |-> "Gone", attempt |-> @.attempt - 1]]
          /\ UNCHANGED queue
    /\ UNCHANGED <<thread, service, stopped>>

Stop ==
    /\ MayStop /\ ~stopped
    /\ stopped' = TRUE
    /\ UNCHANGED <<thread, service, pool>>

-----------------------------------------------------------------------------
DecisionStep ==
    \/ \E b \in BOOLEAN : Processed(b)
    \/ ProcessFails
    \/ \E a \in Activities : sendTask(a)
    \/ CompleteDecisionTask
    \/ RespondTaskCompleted
    \/ RespondTaskFailed
    \/ HeartbeatRejected
    \/ AbandonOnShutdown

PoolStep(e, a) ==
    \/ LocalActivityReturns(e, a)
    \/ DropResult(e, a)
    \/ RetryTimerFires(e, a)
    \/ RetryTimerSends(e, a)

Next ==
    \/ processWorkflowTask
    \/ DecisionStep
    \/ Heartbeat
    \/ HeartbeatSentAgain
    \/ HeartbeatAnswerLost
    \/ \E a \in Activities : ProcessLocalActivityResult(a)
    \/ DecisionTimesOut
    \/ executeLocalActivityTask
    \/ \E e \in Calls, a \in Activities : PoolStep(e, a)
    \/ Stop

Spec == Init /\ [][Next]_vars

\* The goroutines of the worker run, local activities return, timers fire, and a
\* result that is offered is taken: heartbeats are far apart.  Retries and decision
\* tasks are bounded, so that no behaviour passes over one goroutine for ever in
\* favour of the others, and each kind of step needs weak fairness only as a whole.
FairSpec ==
    /\ Spec
    /\ WF_vars(DecisionStep)
    /\ WF_vars(executeLocalActivityTask)
    /\ WF_vars(\E a \in Activities : ProcessLocalActivityResult(a))
    /\ WF_vars(\E e \in Calls, a \in Activities : PoolStep(e, a))

-----------------------------------------------------------------------------
(* Properties.                                                             *)

\* The context came from the cache with local activities that a call before
\* this one had sent: see PendingIsInFlight.
leftBehind ==
    {a \in pending : \E e \in firstCall..(call - 1) : la[e][a].st # "None"}

\* While processWorkflowTask waits, every local activity that it waits for is
\* queued, executing, about to report to it or about to be retried: none is
\* forgotten, save those that HeartbeatSentAgain leaves behind.  Only the
\* shutdown of the worker takes them away.
PendingIsInFlight ==
    (pc = "Wait" /\ ~stopped) =>
        \A a \in pending \ leftBehind : la[call][a].st \in InFlight

\* The same for every local activity, whatever happens to the heartbeats: the comment
\* in ProcessWorkflowTask (internal_task_handlers.go:819) knows of one case only in
\* which a pending local activity "can no longer be dispatched and its result will
\* never arrive", the shutdown of the worker.
AllPendingInFlight ==
    (pc = "Wait" /\ ~stopped) => \A a \in pending : la[call][a].st \in InFlight

\* A local activity task of the running call is sent once, and only for a local
\* activity whose result the workflow does not have: neither a heartbeat nor a
\* context from the cache sends one again that is in the pool, and none runs for
\* a marker that the history has.
NothingSentTwice ==
    \A a \in Activities :
        (pc \in {"Process", "Send", "Wait"} /\ la[call][a].st \in InFlight) =>
            a \in pending /\ a \notin unstarted \cup recorded

\* The goroutine that takes the results of local activities waits for room in the
\* queue, while every executor waits to give it a result: CompleteDecisionTask
\* (internal_task_handlers.go:1165) sends all tasks before the result channel, which
\* has no buffer, is read.  Only the shutdown of the worker ends this.
stuckSending ==
    /\ pc = "Send" /\ toSend # {} /\ Len(queue) = QueueSize /\ ~stopped
    /\ Cardinality({a \in Activities : la[call][a].st \in HasResult}) = Executors

\* The goroutine that processes a decision task ends, also when the worker stops
\* while local activities are pending, unless it waits for a local activity that was
\* left behind or is stuck sending more tasks than the queue and the executors hold.
DecisionTaskEnds == (pc # "Idle") ~> (pc = "Idle" \/ leftBehind # {} \/ stuckSending)

\* The slots of the pool whose local activities have returned.
returned == {t \in Calls \X Activities : la[t[1]][t[2]].st \in HasResult}

\* The slots of the pool whose local activities have returned become free: every
\* result is taken, or dropped because doneCh is closed, unless its taker is stuck
\* sending more tasks than the queue and the executors hold (ProcessTask of the local
\* activity poller, internal_task_pollers.go:599).
ResultIsTaken == (returned # {}) ~> (returned = {} \/ stuckSending)

\* The same without the exception, which the code does not keep: "We also want to
\* make sure we don't block here forever" (internal_task_pollers.go:600).
ResultIsAlwaysTaken == (returned # {}) ~> (returned = {})

\* RetryPolicy.MaximumAttempts includes the initial attempt.
AttemptsWithinMaximum ==
    \A e \in Calls, a \in Activities :
        la[e][a].st = "Executing" => la[e][a].attempt < MaximumAttempts

\* handleDecisionFailedRequest: the first attempt of a decision task is failed at
\* the service when its processing fails; only later attempts time out.
FirstFailureIsReported ==
    [][(pc = "Fail" /\ pc' = "Idle" /\ open = current /\ current \in initial) => open' = 0]_vars
=============================================================================
