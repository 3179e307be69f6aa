-------------------------- MODULE MCTestEnvironment --------------------------
(***************************************************************************)
(* Small tests: each plan bounds what one tested workflow does.            *)
(***************************************************************************)
EXTENDS TestEnvironment

CONSTANTS activity, local, request, child

MCKind == [i \in {activity, local, request} |->
             IF i = activity THEN "Activity" ELSE IF i = local THEN "Local" ELSE "External"]

Nothing == [calls |-> {}, children |-> {}, timers |-> 0, waits |-> 0,
            mockWaits |-> 0, completions |-> 0, reruns |-> 0, childCron |-> FALSE,
            iterations |-> 0, requests |-> 0, signals |-> 0, cancels |-> 0,
            waitForCancellation |-> FALSE, timeout |-> FALSE]

\* An activity with a retry and asynchronous completion beside a timer.
WithActivity == [Nothing EXCEPT !.calls = {activity}, !.timers = 1, !.waits = 1,
                                !.completions = 1]

\* An activity and a local activity, canceled or not, one of which waits.
WithCalls == [Nothing EXCEPT !.calls = {activity, local}, !.waits = 1]

\* A local activity beside a request, one with a mock that waits, in a workflow
\* with an execution timeout.
WithDeadline == [Nothing EXCEPT !.calls = {local, request}, !.waits = 1, !.timeout = TRUE]

\* A request to another workflow, with mocks that wait, beside a timer.
WithRequest == [Nothing EXCEPT !.calls = {request}, !.timers = 1, !.waits = 1,
                               !.mockWaits = 1]

\* A child that is canceled or signaled, whose mock may wait.
WithChild == [Nothing EXCEPT !.children = {child}, !.mockWaits = 1, !.requests = 1,
                             !.signals = 1]

\* A child that is retried, or started again, and canceled from outside.
WithRetries == [Nothing EXCEPT !.children = {child}, !.reruns = 1, !.cancels = 1]

\* The same with a cron child that is canceled by its parent.
WithCronChild == [Nothing EXCEPT !.children = {child}, !.reruns = 1, !.childCron = TRUE,
                                 !.requests = 1, !.waitForCancellation = TRUE]

\* A child beside an activity.
WithBoth == [Nothing EXCEPT !.calls = {local}, !.children = {child}]

\* A cron workflow with a local activity and a timer.
WithCron == [Nothing EXCEPT !.calls = {local}, !.timers = 1, !.iterations = 1]

\* A call beside the child that is canceled while its next run is delayed.
EarlyPlans == {[WithCronChild EXCEPT !.calls = {local}]}

\* One plan alone: a child, a mock that outlives its local activity, a cron
\* workflow.
ChildPlans == {WithChild}

DeadlinePlans == {WithDeadline}

CronPlans == {WithCron}

\* A test that completes an activity twice.
TwicePlans == {[WithActivity EXCEPT !.completions = 2, !.waits = 0]}

MCPlans == {WithActivity, WithCalls, WithDeadline, WithRequest, WithChild,
            WithRetries, WithCronChild, WithBoth, WithCron}
=============================================================================
