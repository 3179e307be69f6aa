--------------------------- MODULE TestEnvironment ---------------------------
(***************************************************************************)
(* The workflow test environment of internal_workflow_testsuite.go: one    *)
(* main loop runs the callbacks posted to callbackChannel, and moves the   *)
(* mock clock to the next timer when it has nothing to do and runningCount *)
(* is zero.  Activities, local activities, calls on unknown workflows and  *)
(* workflow mocks run in goroutines that post their results; runningCount  *)
(* counts them, and children between their launch and their start.         *)
(*                                                                         *)
(* An environment is a pair <<workflow ID, run>>: a retried or reused      *)
(* child ID gets a new environment.  Workflow code is nondeterministic: in *)
(* a decision task it makes any of the calls a workflow may make and then  *)
(* blocks, returns or fails.  Listeners, results and headers are left out. *)
(***************************************************************************)
EXTENDS Integers, Sequences, FiniteSets, SequencesExt

CONSTANTS Root,        \* the ID of the tested workflow
          Children,    \* IDs of child workflows
          Calls,       \* activities, local activities and external requests
          Kind,        \* the kind of each call
          Delays,      \* durations of workflow timers
          MaxRuns,     \* bound on the runs of one child ID
          MaxTimerID,  \* bound on counterID
          ExecutionTimeout,
          Plans,       \* bounds on what the workflows and their test do
          None

ASSUME KindAssumption == Kind \in [Calls -> {"Activity", "Local", "External"}]

root == <<Root, 0>>

Env == {root} \cup (Children \X (0 .. MaxRuns))

VARIABLES plan,          \* what the workflows and the test may still do
          main,          \* the main loop, and the environment it works for
          queue,         \* callbackChannel
          clock,         \* mockClock
          timers,        \* env.timers
          counterID,
          wall,          \* wall timers that are armed
          runningCount,
          wf,            \* progress of each environment's workflow
          start,         \* its start delay; whether its goroutine is done
          mock,          \* the goroutine of workflowExecutorWrapper.Execute
          handle,        \* runningWorkflows
          call,          \* the goroutine of each call
          handles,       \* activities and localActivities
          called,        \* how often each result callback ran
          early          \* environments started before their start delay

vars == <<plan, main, queue, clock, timers, counterID, wall, runningCount, wf,
          start, mock, handle, call, handles, called, early>>

clockVars == <<clock, timers, counterID, wall>>

flowVars == <<wf, start, handle>>

callVars == <<call, handles, called>>

Futures == Calls \cup Env \cup ({"Timer"} \X (0 .. MaxTimerID))

isTestCompleted(e) == wf[e] = "Completed"

\* A callback of env: what it does, with which argument, and whether
\* processCallback then starts a decision task.
Callback(e, do, arg, resume) == [env |-> e, do |-> do, arg |-> arg, start |-> resume]

\* registerDelayedCallback: the main loop creates the timer.
Delayed(e, d, do, arg) ==
    Callback(e, "NewTimer", [d |-> d, do |-> do, arg |-> arg], FALSE)

Ended == isTestCompleted(root) \/ main.pc \in {"TimedOut", "Panicked"}

\* Nobody takes callbacks any more when the test has ended.
postCallback(c) == ~Ended /\ queue' = Append(queue, c)

Loop == [pc |-> "Loop", env |-> root]

Decision(e) == [pc |-> "Decision", env |-> e]

-----------------------------------------------------------------------------
(* Timers and the clock.                                                   *)

\* The order of autoFireNextTimer: by time, then by timer ID.
Before(s, t) == s.at < t.at \/ (s.at = t.at /\ s.id < t.id)

Timer(e, d, do, arg) ==
    [id |-> counterID, env |-> e, at |-> clock + d, do |-> do, arg |-> arg]

newTimer(e, d, do, arg) ==
    /\ counterID' = counterID + 1
    /\ timers' = timers \cup {Timer(e, d, do, arg)}

\* mockClock.Add up to the time of th runs the functions of all due timers;
\* each removes its timer and posts the callback.
fireTimer(th, q) ==
    LET due == {t \in timers : t.at <= th.at}
        inOrder == SetToSortSeq(due, Before)
    IN  /\ clock' = th.at
        /\ timers' = timers \ due
        /\ queue' = q \o [i \in DOMAIN inOrder |->
                 Callback(inOrder[i].env, inOrder[i].do, inOrder[i].arg, TRUE)]

nextTimer == CHOOSE t \in timers : \A u \in timers \ {t} : Before(t, u)

autoFireNextTimer ==
    /\ main.pc = "Auto"
    /\ \/ /\ timers = {}
          /\ main' = [main EXCEPT !.pc = "Select"]
          /\ UNCHANGED <<queue, clock, timers, wall>>
       \/ /\ timers # {} /\ runningCount = 0
          /\ fireTimer(nextTimer, queue)
          /\ wall' = {w \in wall : w.id # nextTimer.id}
          /\ main' = Loop
       \/ /\ timers # {} /\ runningCount # 0
          /\ wall' = wall \cup {[id |-> nextTimer.id, env |-> nextTimer.env]}
          /\ main' = [main EXCEPT !.pc = "Select"]
          /\ UNCHANGED <<queue, clock, timers>>
    /\ UNCHANGED <<plan, counterID, runningCount, flowVars, mock, callVars,
                   early>>

\* The wall clock reaches an armed timer.
WallTimer ==
    \E w \in wall :
        /\ wall' = wall \ {w}
        /\ postCallback(Callback(w.env, "WallFire", w.id, TRUE))
        /\ UNCHANGED <<plan, main, clock, timers, counterID, runningCount,
                       flowVars, mock, callVars, early>>

-----------------------------------------------------------------------------
(* Starting and completing workflows.                                      *)

\* executeChildWorkflowWithDelay and newTestWorkflowEnvironmentForChild: a new
\* environment for child ID c, whose goroutine has not run yet.
Launch(c, n, first, delay, wf0) ==
    /\ handle' = [handle EXCEPT ![c] =
            [st |-> "Running", run |-> n, first |-> first,
             started |-> delay # 0 /\ handle[c].started]]
    /\ start' = [start EXCEPT ![<<c, n>>].delay = delay]
    /\ wf' = [wf0 EXCEPT ![<<c, n>>] = "Launched"]
    /\ runningCount' = runningCount + 1

\* rerun(true): a failed child with a retry policy, or a cron child, runs again
\* after a backoff, which is taken as one unit of time.
CanRerun(c, failed) == plan.reruns > 0 /\ (failed \/ plan.childCron)

\* Complete of a child: its parent gets the result unless it runs again.  The
\* callbacks in after are posted next.
CompleteChild(e, failed, q, after) ==
    LET c == e[1]
        h == handle[c]
        completed == [wf EXCEPT ![e] = "Completed"]
    IN  \/ /\ h.st = "Running" /\ CanRerun(c, failed)
           /\ Launch(c, h.run + 1, h.first, 1, completed)
           /\ plan' = [plan EXCEPT !.reruns = @ - 1]
           /\ queue' = q \o after
        \/ /\ h.st = "Running" /\ ~CanRerun(c, failed)
           /\ handle' = [handle EXCEPT ![c].st = "Handled"]
           /\ queue' = Append(q, Callback(root, "ChildDone", <<c, h.first>>, TRUE)) \o after
           /\ wf' = completed
           /\ UNCHANGED <<plan, runningCount, start>>
        \/ /\ h.st # "Running"
           /\ wf' = completed
           /\ queue' = q \o after
           /\ UNCHANGED <<plan, runningCount, start, handle>>

\* Complete of the tested workflow.  A cron workflow runs again (rerun(false)):
\* its dispatcher is closed until the posted callback has replaced it.
CompleteRoot(q) ==
    /\ IF plan.iterations > 0
       THEN /\ wf' = [wf EXCEPT ![root] = "Closed"]
            /\ runningCount' = runningCount - 1
            /\ plan' = [plan EXCEPT !.iterations = @ - 1]
            /\ queue' = Append(q, Callback(root, "Rerun", None, FALSE))
       ELSE /\ wf' = [wf EXCEPT ![root] = "Completed"]
            /\ queue' = q
            /\ UNCHANGED <<plan, runningCount>>
    /\ UNCHANGED <<start, handle>>

\* Complete(result, err) of an environment, with the callbacks q posted.
Complete(e, failed, q) ==
    \/ /\ isTestCompleted(e)
       /\ queue' = q
       /\ UNCHANGED <<plan, runningCount, flowVars>>
    \/ /\ ~isTestCompleted(e) /\ e # root
       /\ CompleteChild(e, failed, q, <<>>)
    \/ /\ ~isTestCompleted(e) /\ e = root
       /\ CompleteRoot(q)

\* executeWorkflowInternal posts the start of the workflow, and then its
\* execution timeout, which a child always has.
Execution(e) == Callback(e, "Execute", None, FALSE)

Timeout(e, delay) == Delayed(e, ExecutionTimeout + delay, "Timeout", None)

\* For a child it runs in a goroutine.
PostExecute(e) ==
    /\ wf[e] = "Launched"
    /\ wf' = [wf EXCEPT ![e] = "Posted"]
    /\ postCallback(Execution(e))
    /\ UNCHANGED <<plan, main, clockVars, runningCount, start, mock, handle,
                   callVars, early>>

PostTimeout(e) ==
    /\ wf[e] \notin {"None", "Launched"}
    /\ ~start[e].done
    /\ start' = [start EXCEPT ![e].done = TRUE]
    /\ postCallback(Timeout(e, start[e].delay))
    /\ UNCHANGED <<plan, main, clockVars, runningCount, wf, mock, handle,
                   callVars, early>>

-----------------------------------------------------------------------------
(* The main loop.                                                          *)

\* The main loop takes a callback that does this.
Takes(do) ==
    /\ main.pc \in {"Loop", "Select"}
    /\ ~isTestCompleted(root)
    /\ queue # <<>>
    /\ Head(queue).do = do

cb == Head(queue)

\* The rest of processCallback.
Processed == main' = IF cb.start THEN Decision(cb.env) ELSE Loop

\* The non-blocking select finds callbackChannel empty.
FindsNothing ==
    /\ main.pc = "Loop" /\ queue = <<>> /\ ~isTestCompleted(root)
    /\ main' = [main EXCEPT !.pc = "Auto"]
    /\ UNCHANGED <<plan, queue, clockVars, runningCount, flowVars, mock,
                   callVars, early>>

\* testTimeout passes while the main loop waits for a callback: it panics.
TestTimeout ==
    /\ main.pc = "Select"
    /\ main' = [main EXCEPT !.pc = "TimedOut"]
    /\ UNCHANGED <<plan, queue, clockVars, runningCount, flowVars, mock,
                   callVars, early>>

\* workflowDef.Execute, and the first decision task unless it is delayed.
DoExecute ==
    /\ Takes("Execute")
    /\ LET e == cb.env IN
       IF start[e].delay = 0
       THEN /\ wf' = [wf EXCEPT ![e] = IF @ = "Posted" THEN "Executed" ELSE @]
            /\ queue' = Tail(queue)
            /\ main' = Decision(e)
            /\ UNCHANGED runningCount
       ELSE /\ wf' = [wf EXCEPT ![e] = IF @ = "Posted" THEN "Delayed" ELSE @]
            /\ queue' = Append(Tail(queue), Delayed(e, start[e].delay, "Start", None))
            /\ main' = Loop
            /\ runningCount' = runningCount - 1
    /\ UNCHANGED <<plan, clockVars, start, mock, handle, callVars, early>>

\* The start delay is over.
DoStart ==
    /\ Takes("Start")
    /\ wf' = [wf EXCEPT ![cb.env] = IF @ = "Delayed" THEN "Executed" ELSE @]
    /\ runningCount' = runningCount + 1
    /\ queue' = Tail(queue)
    /\ Processed
    /\ UNCHANGED <<plan, clockVars, start, mock, handle, callVars, early>>

DoNewTimer ==
    /\ Takes("NewTimer")
    /\ newTimer(cb.env, cb.arg.d, cb.arg.do, cb.arg.arg)
    /\ queue' = Tail(queue)
    /\ Processed
    /\ UNCHANGED <<plan, clock, wall, runningCount, flowVars, mock, callVars,
                   early>>

DoWallFire ==
    /\ Takes("WallFire")
    /\ \/ \E th \in timers : th.id = cb.arg /\ fireTimer(th, Tail(queue))
       \/ /\ \A th \in timers : th.id # cb.arg
          /\ queue' = Tail(queue)
          /\ UNCHANGED <<clock, timers>>
    /\ Processed
    /\ UNCHANGED <<plan, counterID, wall, runningCount, flowVars, mock,
                   callVars, early>>

\* The execution timeout.
DoTimeout ==
    /\ Takes("Timeout")
    /\ Complete(cb.env, TRUE, Tail(queue))
    /\ Processed
    /\ UNCHANGED <<clockVars, mock, callVars, early>>

\* rerun(false) of the tested cron workflow: a new workflow definition.
DoRerun ==
    /\ Takes("Rerun")
    /\ wf' = [wf EXCEPT ![root] = "Executed"]
    /\ runningCount' = runningCount + 1
    /\ queue' = Tail(queue)
    /\ main' = Decision(root)
    /\ UNCHANGED <<plan, clockVars, start, mock, handle, callVars, early>>

\* A goroutine that begins to wait for the mock clock, and its waking up.  The
\* main loop waits until a mock has come to wait (waitCh has no buffer), and not
\* for the retry of an activity.
DoRelease ==
    /\ Takes("Release")
    /\ runningCount' = runningCount - 1
    /\ queue' = Tail(queue)
    /\ Processed
    /\ UNCHANGED <<plan, clockVars, flowVars, mock, callVars, early>>

DoResume ==
    /\ Takes("Resume")
    /\ runningCount' = runningCount + 1
    /\ IF cb.arg = None
       THEN /\ mock[cb.env] = "Waiting"
            /\ mock' = [mock EXCEPT ![cb.env] = "Running"]
            /\ UNCHANGED call
       ELSE /\ Kind[cb.arg] = "Activity" \/ call[cb.arg].st = "Waiting"
            /\ call' = [call EXCEPT ![cb.arg].st =
                            IF @ = "Waiting" THEN "Running" ELSE "Woken"]
            /\ UNCHANGED mock
    /\ queue' = Tail(queue)
    /\ Processed
    /\ UNCHANGED <<plan, clockVars, flowVars, handles, called, early>>

\* getMockReturn returned: workflowExecutorWrapper.Execute goes on, tells the
\* parent that a child is started, and returns the mocked result or runs the
\* workflow.  A completed environment has no decision task any more.
DoMockReady ==
    /\ Takes("MockReady")
    /\ LET e == cb.env
           told == IF e = root \/ start[e].delay # 0 THEN Tail(queue)
                   ELSE Append(Tail(queue), Callback(root, "ChildStarted", e[1], TRUE))
       IN  \/ /\ isTestCompleted(e)
              /\ queue' = Tail(queue) /\ main' = Loop
              /\ UNCHANGED <<runningCount, wf, mock>>
           \/ /\ ~isTestCompleted(e)
              /\ runningCount' = runningCount - 1
              /\ mock' = [mock EXCEPT ![e] = "Delivered"]
              /\ queue' = told
              /\ wf' = [wf EXCEPT ![e] = "Running"]
              /\ main' = [pc |-> "Run", env |-> e]
    /\ UNCHANGED <<plan, clockVars, start, handle, callVars, early>>

\* The callbacks that only hand something to the workflow: a timer, a canceled
\* call, the result of a child or of a request.
Deliveries == {"TimerFired", "TimerCanceled", "Canceled", "ChildStarted",
               "ChildDone", "Requested"}

DoDeliver ==
    /\ \E do \in Deliveries : Takes(do)
    /\ called' = CASE cb.do = "ChildStarted" \/ cb.do = "Requested" -> called
                   [] OTHER -> [called EXCEPT ![cb.arg] = @ + 1]
    /\ handle' = IF cb.do = "ChildStarted"
                 THEN [handle EXCEPT ![cb.arg].started = TRUE]
                 ELSE handle
    /\ queue' = Tail(queue)
    /\ Processed
    /\ UNCHANGED <<plan, clockVars, runningCount, wf, start, mock, call,
                   handles, early>>

\* handleActivityResult removes the handle under the bare activity ID, which is
\* not its key in activities, so the handle stays.
handlesAfterResult(c) == IF Kind[c] = "Local" THEN handles \ {c} ELSE handles

\* The callback of a result, or of CompleteActivity.
HandleResult(c) ==
    IF c \in handles \/ Kind[c] = "External"
    THEN /\ called' = [called EXCEPT ![c] = @ + 1]
         /\ handles' = handlesAfterResult(c)
         /\ main' = Decision(call[c].env)
    ELSE main' = Loop /\ UNCHANGED <<called, handles>>

\* What is left of a call when its result is processed: the function of a local
\* activity whose deadline passed runs on.
afterResult(c) ==
    [call EXCEPT ![c].st = IF call[c].late THEN @ ELSE IF @ = "Async" THEN "Pending"
                           ELSE "Done"]

\* Mutant: a result that finds no handle leaves the count.
DoResultEarlyReturn ==
    /\ Takes("Result")
    /\ LET c == cb.arg IN
       /\ runningCount' = IF c \in handles THEN runningCount - 1 ELSE runningCount
       /\ call' = afterResult(c)
       /\ IF call[c].st = "Async"
          THEN main' = Loop /\ UNCHANGED <<called, handles>>
          ELSE HandleResult(c)
    /\ queue' = Tail(queue)
    /\ UNCHANGED <<plan, clockVars, flowVars, mock, early>>

DoResult ==
    /\ Takes("Result")
    /\ LET c == cb.arg IN
       /\ runningCount' = runningCount - 1
       /\ call' = afterResult(c)
       /\ IF call[c].st = "Async"
          THEN main' = Loop /\ UNCHANGED <<called, handles>>
          ELSE HandleResult(c)
    /\ queue' = Tail(queue)
    /\ UNCHANGED <<plan, clockVars, flowVars, mock, early>>

\* CompleteActivity of the tested workflow's environment, whose run ID is part of
\* the key it looks the activity up with.
DoCompleteActivity ==
    /\ Takes("CompleteActivity")
    /\ IF call[cb.arg].env = root THEN HandleResult(cb.arg)
       ELSE main' = Loop /\ UNCHANGED <<called, handles>>
    /\ queue' = Tail(queue)
    /\ UNCHANGED <<plan, clockVars, runningCount, flowVars, mock, call, early>>

\* The handlers of a workflow are registered by workflowDef.Execute.
HasHandlers(e) == wf[e] \notin {"None", "Launched", "Posted"}

\* cancelWorkflow and signalWorkflowByID: the cancel handler or the signal
\* handler, which is nil before Execute.
DoCancel ==
    /\ Takes("Cancel") \/ Takes("Signal")
    /\ queue' = Tail(queue)
    /\ IF HasHandlers(cb.env) THEN Processed ELSE main' = [main EXCEPT !.pc = "Panicked"]
    /\ UNCHANGED <<plan, clockVars, runningCount, flowVars, mock, callVars,
                   early>>

\* A signal was handed over: its workflow runs.
DoSignaled ==
    /\ Takes("Signaled")
    /\ queue' = Tail(queue)
    /\ Processed
    /\ UNCHANGED <<plan, clockVars, runningCount, flowVars, mock, callVars,
                   early>>

\* startDecisionTask: the first one calls the mock in a goroutine and blocks on
\* its answer.  A missing or a closed dispatcher panics.
startDecisionTask ==
    /\ main.pc = "Decision"
    /\ LET e == main.env IN
       \/ /\ wf[e] \in {"Completed", "Started"}
          /\ main' = Loop
          /\ UNCHANGED <<runningCount, wf, mock, early>>
       \/ /\ ~HasHandlers(e) \/ wf[e] = "Closed"
          /\ main' = [main EXCEPT !.pc = "Panicked"]
          /\ UNCHANGED <<runningCount, wf, mock, early>>
       \/ /\ wf[e] \in {"Executed", "Delayed"}
          /\ wf' = [wf EXCEPT ![e] = "Started"]
          /\ mock' = [mock EXCEPT ![e] = "Running"]
          /\ runningCount' = runningCount + (IF e = root THEN 1 ELSE 0)
          /\ early' = IF wf[e] = "Delayed" THEN early \cup {e} ELSE early
          /\ main' = Loop
       \/ /\ wf[e] = "Running"
          /\ main' = [main EXCEPT !.pc = "Run"]
          /\ UNCHANGED <<runningCount, wf, mock, early>>
    /\ UNCHANGED <<plan, queue, clockVars, start, handle, callVars>>

-----------------------------------------------------------------------------
(* What workflow code does in a decision task.                             *)

Runs(e) == main = [pc |-> "Run", env |-> e]

\* ExecuteActivity, ExecuteLocalActivity, and requests to unknown workflows.
ExecuteCall(e, c) ==
    /\ Runs(e)
    /\ c \in plan.calls /\ call[c].st = "None"
    /\ call' = [call EXCEPT ![c] = [st |-> "Running", env |-> e, late |-> FALSE]]
    /\ handles' = IF Kind[c] = "External" THEN handles ELSE handles \cup {c}
    /\ runningCount' = runningCount + 1
    /\ UNCHANGED <<plan, main, queue, clockVars, flowVars, mock, called, early>>

\* RequestCancelActivity and RequestCancelLocalActivity; a call whose future
\* is ready has no cancellation callback any more.
RequestCancelActivity(e, c) ==
    /\ Runs(e)
    /\ call[c].env = e /\ c \in handles /\ called[c] = 0
    /\ handles' = handles \ {c}
    /\ postCallback(Callback(e, "Canceled", c, TRUE))
    /\ UNCHANGED <<plan, main, clockVars, runningCount, flowVars, mock, call,
                   called, early>>

NewTimer(e, d) ==
    /\ Runs(e)
    /\ plan.timers > 0
    /\ plan' = [plan EXCEPT !.timers = @ - 1]
    /\ newTimer(e, d, "TimerFired", <<"Timer", counterID>>)
    /\ UNCHANGED <<main, queue, clock, wall, runningCount, flowVars, mock,
                   callVars, early>>

RequestCancelTimer(e, t) ==
    /\ Runs(e)
    /\ t \in timers /\ t.env = e /\ t.do = "TimerFired"
    /\ timers' = timers \ {t}
    /\ postCallback(Callback(e, "TimerCanceled", t.arg, TRUE))
    /\ UNCHANGED <<plan, main, clock, counterID, wall, runningCount, flowVars,
                   mock, callVars, early>>

\* ExecuteChildWorkflow.  An ID is free if no run of it is open and the reuse
\* policy admits one more.
ExecuteChildWorkflow(c) ==
    /\ Runs(root)
    /\ c \in plan.children
    /\ \/ /\ handle[c].st = "None"
          /\ Launch(c, 0, 0, 0, wf)
          /\ UNCHANGED plan
       \/ /\ handle[c].st = "Handled" /\ plan.reruns > 0
          /\ Launch(c, handle[c].run + 1, handle[c].run + 1, 0, wf)
          /\ plan' = [plan EXCEPT !.reruns = @ - 1]
    /\ UNCHANGED <<main, queue, clockVars, mock, callVars, early>>

\* RequestCancelChildWorkflow, for a child that is started and not done.
RequestCancelChildWorkflow(c) ==
    /\ Runs(root)
    /\ handle[c].st = "Running" /\ handle[c].started
    /\ plan.requests > 0
    /\ plan' = [plan EXCEPT !.requests = @ - 1]
    /\ postCallback(Callback(<<c, handle[c].run>>, "Cancel", None, TRUE))
    /\ UNCHANGED <<main, clockVars, runningCount, flowVars, mock, callVars,
                   early>>

\* SignalExternalWorkflow on a known child: the signal handler runs at once, and
\* a nil handler panics in the workflow, which fails it.
SignalExternalWorkflow(c) ==
    LET e == <<c, handle[c].run>> IN
    /\ Runs(root)
    /\ handle[c].st # "None"
    /\ plan.requests > 0
    /\ IF HasHandlers(e) \/ isTestCompleted(e)
       THEN /\ postCallback(Callback(e, "Signaled", None, TRUE))
            /\ plan' = [plan EXCEPT !.requests = @ - 1]
            /\ UNCHANGED <<main, runningCount, flowVars>>
       ELSE main' = Loop /\ Complete(root, TRUE, queue)
    /\ UNCHANGED <<clockVars, mock, callVars, early>>

\* RequestCancelExternalWorkflow on an open child, which is completed at once
\* unless the parent waits for its cancellation.
RequestCancelExternalWorkflow(c) ==
    LET e == <<c, handle[c].run>>
        posted == <<Callback(root, "Requested", c, TRUE),
                    Callback(e, "Cancel", None, TRUE)>>
    IN
    /\ Runs(root)
    /\ handle[c].st = "Running"
    /\ plan.cancels > 0
    /\ \/ /\ plan.waitForCancellation
          /\ queue' = queue \o posted
          /\ plan' = [plan EXCEPT !.cancels = @ - 1]
          /\ UNCHANGED <<main, runningCount, flowVars>>
       \/ /\ ~plan.waitForCancellation
          /\ IF wf[e] = "Launched"
             THEN main' = Loop /\ Complete(root, TRUE, queue)
             ELSE /\ UNCHANGED main
                  /\ CompleteChild(e, TRUE, queue, posted)
    /\ UNCHANGED <<clockVars, mock, callVars, early>>

\* The workflow function returns, and executeDispatcher completes the workflow.
Returns(e, failed) ==
    /\ Runs(e)
    /\ Complete(e, failed, queue)
    /\ main' = Loop
    /\ UNCHANGED <<clockVars, mock, callVars, early>>

\* Every coroutine of the workflow is blocked.
Blocks(e) ==
    /\ Runs(e)
    /\ main' = Loop
    /\ UNCHANGED <<plan, queue, clockVars, runningCount, flowVars, mock,
                   callVars, early>>

-----------------------------------------------------------------------------
(* The goroutines of calls and mocks.                                      *)

\* Mutant: the count is released before the delayed callback is registered.
releaseFirst(e, d, arg) ==
    <<Callback(e, "Release", None, FALSE), Delayed(e, d, "Resume", arg)>>

\* What a goroutine posts before it waits for the mock clock: the delayed
\* callback that wakes it, and then the release of runningCount.
waitCallbacks(e, d, arg) ==
    <<Delayed(e, d, "Resume", arg), Callback(e, "Release", None, FALSE)>>

\* The backoff of an activity's retry, or a mock that is to wait.
RegisterWait(c) ==
    /\ call[c].st = "Running"
    /\ plan.waits > 0
    /\ plan' = [plan EXCEPT !.waits = @ - 1]
    /\ call' = [call EXCEPT ![c].st = "Registered"]
    /\ postCallback(waitCallbacks(call[c].env, 1, c)[1])
    /\ UNCHANGED <<main, clockVars, runningCount, flowVars, mock, handles,
                   called, early>>

ReleaseCount(c) ==
    /\ call[c].st \in {"Registered", "Woken"}
    /\ call' = [call EXCEPT ![c].st = IF @ = "Woken" THEN "Running" ELSE "Waiting"]
    /\ postCallback(waitCallbacks(call[c].env, 1, c)[2])
    /\ UNCHANGED <<plan, main, clockVars, runningCount, flowVars, mock, handles,
                   called, early>>

\* executeLocalActivityTask returns at the deadline of the local activity, which
\* is by the wall clock; the goroutine with the function, or its mock, goes on.
DeadlineExceeded(c) ==
    /\ Kind[c] = "Local" /\ ~call[c].late
    /\ call[c].st \in {"Running", "Registered", "Waiting"}
    /\ call' = [call EXCEPT ![c].late = TRUE]
    /\ postCallback(Callback(call[c].env, "Result", c, FALSE))
    /\ UNCHANGED <<plan, main, clockVars, runningCount, flowVars, mock, handles,
                   called, early>>

\* Nobody waits for the function any more.
LateReturn(c) ==
    /\ call[c].st = "Running" /\ call[c].late
    /\ call' = [call EXCEPT ![c].st = "Done"]
    /\ UNCHANGED <<plan, main, queue, clockVars, runningCount, flowVars, mock,
                   handles, called, early>>

\* Mutant: an activity that calls runtime.Goexit posts no result.
CallReturnsSilently(c) ==
    /\ call[c].st = "Running" /\ ~call[c].late
    /\ \E st \in {"Returned"} \cup (IF Kind[c] = "Activity" THEN {"Async"} ELSE {}) :
          call' = [call EXCEPT ![c].st = st]
    /\ ~Ended /\ queue' = queue
    /\ UNCHANGED <<plan, main, clockVars, runningCount, flowVars, mock, handles,
                   called, early>>

\* The call returns; an activity may ask for an asynchronous completion.
CallReturns(c) ==
    /\ call[c].st = "Running" /\ ~call[c].late
    /\ \E st \in {"Returned"} \cup (IF Kind[c] = "Activity" THEN {"Async"} ELSE {}) :
          call' = [call EXCEPT ![c].st = st]
    /\ postCallback(Callback(call[c].env, "Result", c, FALSE))
    /\ UNCHANGED <<plan, main, clockVars, runningCount, flowVars, mock, handles,
                   called, early>>

\* runBeforeMockCallReturns for the mock of a workflow.
MockRegistersWait(e) ==
    /\ mock[e] = "Running"
    /\ plan.mockWaits > 0
    /\ plan' = [plan EXCEPT !.mockWaits = @ - 1]
    /\ mock' = [mock EXCEPT ![e] = "Registered"]
    /\ postCallback(waitCallbacks(e, 2, None)[1])
    /\ UNCHANGED <<main, clockVars, runningCount, flowVars, callVars, early>>

MockReleasesCount(e) ==
    /\ mock[e] = "Registered"
    /\ mock' = [mock EXCEPT ![e] = "Waiting"]
    /\ postCallback(waitCallbacks(e, 2, None)[2])
    /\ UNCHANGED <<plan, main, clockVars, runningCount, flowVars, callVars,
                   early>>

MockReturns(e) ==
    /\ mock[e] = "Running"
    /\ mock' = [mock EXCEPT ![e] = "Returned"]
    /\ postCallback(Callback(e, "MockReady", None, TRUE))
    /\ UNCHANGED <<plan, main, clockVars, runningCount, flowVars, callVars,
                   early>>

\* The test completes an activity that returned ErrActivityResultPending.
CompleteActivity(c) ==
    /\ call[c].st \in {"Async", "Pending"}
    /\ plan.completions > 0
    /\ plan' = [plan EXCEPT !.completions = @ - 1]
    /\ postCallback(Callback(root, "CompleteActivity", c, FALSE))
    /\ UNCHANGED <<main, clockVars, runningCount, flowVars, mock, callVars,
                   early>>

\* The test signals an open child.
signalWorkflowByID(c) ==
    /\ handle[c].st = "Running"
    /\ plan.signals > 0
    /\ plan' = [plan EXCEPT !.signals = @ - 1]
    /\ postCallback(Callback(<<c, handle[c].run>>, "Signal", None, TRUE))
    /\ UNCHANGED <<main, clockVars, runningCount, flowVars, mock, callVars, early>>

-----------------------------------------------------------------------------

\* The result stays what it is.
TestOver == Ended /\ UNCHANGED vars

\* The tested workflow has been posted when the main loop starts.
Init ==
    /\ plan \in Plans
    /\ main = Loop
    /\ queue = <<Execution(root)>> \o (IF plan.timeout THEN <<Timeout(root, 0)>> ELSE <<>>)
    /\ clock = 0
    /\ timers = {}
    /\ counterID = 0
    /\ wall = {}
    /\ runningCount = 0
    /\ wf = [e \in Env |-> IF e = root THEN "Posted" ELSE "None"]
    /\ start = [e \in Env |-> [delay |-> 0, done |-> e = root]]
    /\ mock = [e \in Env |-> "None"]
    /\ handle = [c \in Children |-> [st |-> "None", run |-> 0, first |-> 0,
                                     started |-> FALSE]]
    /\ call = [c \in Calls |-> [st |-> "None", env |-> root, late |-> FALSE]]
    /\ handles = {}
    /\ called = [f \in Futures |-> 0]
    /\ early = {}

Callbacks ==
    \/ DoExecute \/ DoStart \/ DoNewTimer \/ DoWallFire \/ DoTimeout \/ DoRerun
    \/ DoRelease \/ DoResume \/ DoMockReady \/ DoDeliver \/ DoResult
    \/ DoCompleteActivity \/ DoCancel \/ DoSignaled

WorkflowCode ==
    \/ \E e \in Env :
          \/ \E c \in Calls : ExecuteCall(e, c) \/ RequestCancelActivity(e, c)
          \/ \E d \in Delays : NewTimer(e, d)
          \/ \E t \in timers : RequestCancelTimer(e, t)
          \/ \E failed \in BOOLEAN : Returns(e, failed)
          \/ Blocks(e)
    \/ \E c \in Children :
          \/ ExecuteChildWorkflow(c) \/ RequestCancelChildWorkflow(c)
          \/ SignalExternalWorkflow(c) \/ RequestCancelExternalWorkflow(c)

MainLoop ==
    \/ FindsNothing \/ autoFireNextTimer \/ Callbacks \/ startDecisionTask
    \/ WorkflowCode

Goroutine(e) ==
    \/ PostExecute(e) \/ PostTimeout(e)
    \/ MockRegistersWait(e) \/ MockReleasesCount(e) \/ MockReturns(e)

CallGoroutine(c) ==
    RegisterWait(c) \/ ReleaseCount(c) \/ CallReturns(c) \/ LateReturn(c)

Next ==
    \/ MainLoop \/ TestTimeout \/ WallTimer
    \/ \E e \in Env : Goroutine(e)
    \/ \E c \in Calls : CallGoroutine(c) \/ DeadlineExceeded(c) \/ CompleteActivity(c)
    \/ \E c \in Children : signalWorkflowByID(c)
    \/ TestOver

\* The main loop and the goroutines of calls and mocks keep running.
Spec ==
    /\ Init /\ [][Next]_vars
    /\ WF_vars(MainLoop)
    /\ \A e \in Env : WF_vars(Goroutine(e))
    /\ \A c \in Calls : WF_vars(CallGoroutine(c))

-----------------------------------------------------------------------------

Progress == {"None", "Launched", "Posted", "Delayed", "Executed", "Started",
             "Running", "Closed", "Completed"}

TypeOK ==
    /\ main.pc \in {"Loop", "Auto", "Select", "Decision", "Run", "TimedOut", "Panicked"}
    /\ main.env \in Env
    /\ \A i \in DOMAIN queue : queue[i].env \in Env /\ queue[i].start \in BOOLEAN
    /\ clock \in Nat /\ runningCount \in Int
    /\ counterID \in 0 .. MaxTimerID
    /\ \A t \in timers : t.id < counterID /\ t.env \in Env /\ t.at \in Nat
    /\ \A w \in wall : w.id < counterID
    /\ wf \in [Env -> Progress]
    /\ start \in [Env -> [delay : 0 .. 1, done : BOOLEAN]]
    /\ mock \in [Env -> {"None", "Running", "Registered", "Waiting", "Returned",
                         "Delivered"}]
    /\ \A c \in Children : handle[c].st \in {"None", "Running", "Handled"}
    /\ \A c \in Calls : call[c].env \in Env /\ call[c].late \in BOOLEAN
    /\ handles \subseteq Calls
    /\ called \in [Futures -> Nat]
    /\ early \subseteq Env

\* A goroutine the clock has to wait for is at work, or its result is not
\* processed yet, or a child is about to start.
Busy ==
    \/ \E c \in Calls : ~call[c].late
            /\ call[c].st \in {"Running", "Registered", "Woken", "Returned", "Async"}
    \/ \E i \in DOMAIN queue : queue[i].do = "Result"
    \/ \E e \in Env : ~isTestCompleted(e) /\
            (mock[e] \in {"Running", "Registered", "Returned"}
                \/ wf[e] \in {"Launched", "Posted"})

\* A waiting call will be woken: its timer is set, or has fired.
WillResume(c) ==
    \/ \E t \in timers : t.do = "Resume" /\ t.arg = c
    \/ \E i \in DOMAIN queue : queue[i].do = "Resume" /\ queue[i].arg = c

\* A run that was completed before its start was over keeps its count.
Leaky == \E e \in Env : isTestCompleted(e) /\ mock[e] # "Delivered"

\* The mock of a local activity waits although the deadline of the activity has
\* passed.  Both give the count back, and only the waking mock raises it again.
Outlived == \E c \in Calls : call[c].late /\ call[c].st = "Waiting"

\* The main loop moves the clock forward by itself only when no activity, mock
\* or starting child is at work and every waiting call has its timer set
\* (autoFireNextTimer, executeActivityWithRetryForTest, runningCount).  Exempt
\* are tests with a child that was started during its start delay, and the time
\* in which a waiting mock outlives its local activity.
ClockWaits ==
    [][main.pc = "Auto" /\ clock' # clock
         => \/ early # {} \/ Outlived
            \/ ~Busy /\ \A c \in Calls : call[c].st = "Waiting" => WillResume(c)]_vars

\* The main loop never blocks with timers left and nothing at work: they would
\* fire by the wall clock only, or the test time out.  Exempt are the runs that
\* completed before their start was over, early starts, and the time in which a
\* waiting mock outlives its local activity.
NeverIdleWithTimers ==
    main.pc = "Select" /\ queue = <<>> /\ timers # {}
        => Busy \/ Leaky \/ early # {} \/ Outlived

\* No result callback of a call, timer or child runs twice: a second one would
\* set a future that is set, and panic.
CallbackOnce == \A f \in Futures : called[f] <= 1

\* The result of a call, or its cancellation, reaches its workflow, unless the
\* activity is to be completed later or the test ends (ExecuteActivity's
\* deferred callback, ExecuteLocalActivity, SignalExternalWorkflow).
ResultsArrive ==
    \A c \in Calls :
        call[c].st = "Running"
            ~> called[c] = 1 \/ call[c].st = "Pending" \/ Ended

\* The comment of autoFireNextTimer, "fire timer if there is no running
\* activity", taken literally.
ClockWaitsForActivities ==
    [][main.pc = "Auto" /\ clock' # clock
         => \A c \in Calls : call[c].st \in {"Running", "Registered"} => call[c].late]_vars

\* The documentation of RegisterDelayedCallback: the mock clock "automatically
\* move forward to fire next timer when workflow is blocked".
BlockedMovesForward ==
    main.pc = "Select" /\ queue = <<>> /\ timers # {} => Busy

\* A callback finds the handlers and the dispatcher it needs.
NeverPanics == main.pc # "Panicked"
=============================================================================
