# Cadence Go client: a TLA+ verification development

The client library runs workflows and activities for the Cadence service.  A
worker polls the service for *decision tasks* and *activity tasks*; a decision
task carries the events of a workflow's history, the library replays them into
the workflow's code, and answers with the *decisions* that the code made.  This
directory models the parts of the library in which several actors, an unreliable
service, or long sequences of calls make the result hard to see from the code:
the decision state machines, the coroutine scheduler with its channels and
futures, contexts, the replay of histories, the sticky cache, local activities,
heartbeats, the workers' goroutines and permits, their start and stop, sessions, the
local dispatch of activities, the client that follows a workflow, the shadower, and the
test environment with its mock clock.

Every module is written from the source under `src/`.  The Cadence service is not
part of the repository: its actions are modelled from how the client uses it, and
are marked external in the map of `PROJECT.json`.

## 1. Inventory

| Part | State | Operations | What makes it hard |
|---|---|---|---|
| Decision state machines (`internal_decision_state_machine.go`) | a machine per activity, timer, child, signal, cancellation, marker; a list and a map of them | schedule, cancel, one handler per event, `getDecisions` | the service and the workflow's cancel race; the service reorders nothing but interleaves everything; IDs are reused |
| Event handler (`internal_event_handlers.go`, `workflow.go`) | the callbacks of futures that wait for events | `ProcessEvent`, `Execute*`, cancellation | a callback must run exactly once; cancellation before, between and after the events |
| Coroutines (`internal_workflow.go`) | coroutines, channels with buffer, blocked senders and receivers, selectors, futures | send, receive, close, select, `ExecuteUntilAllBlocked` | a coroutine stays blocked or the dispatcher returns too early; a value is lost between a callback and its Receive |
| Batch future (`batch/batch_future.go`) | semaphore, wait group, futures | `NewBatchFuture`, `Get` | bounded concurrency, a wait group that is shared |
| Contexts (`context.go`) | tree of contexts, error, done channel, children | `WithCancel`, `cancel`, `propagateCancel` | cancellation while children are added by another goroutine |
| Activity tasks (`internal_task_handlers.go`, `activity_task_handler.go`, `auto_heartbeater.go`) | heartbeat batch, timer, last details, cancel | heartbeat, batching, auto heartbeat, close, report | four goroutines send heartbeats; calls fail; details must not go backwards |
| Base worker (`internal_worker_base.go`, `resizable_permit.go`, `concurrency_auto_scaler.go`, `session.go`) | pollers, dispatcher, permits, quota, token bucket | poll, dispatch, process, resize, Stop | permits on every path; goroutines that outlive Stop |
| Sticky cache (`internal_task_handlers.go`, `cache/lru.go`) | cached contexts, locks, how far each has replayed | lookup, rebuild, process, Unlock, evict | two tasks of one run; eviction and failure in between; late attempts |
| Local activities (`internal_task_handlers.go`, `internal_task_pollers.go`) | pending and unstarted tasks, tunnel, pool, results, timers | schedule, send, execute, retry, heartbeat, shutdown | bounded queue and unbuffered results; lost answers; retries after their task is gone |
| Replay (`internal_task_handlers.go`, `internal_event_handlers.go`, `workflow_replayer.go`, `workflow_replayer_utils.go`) | the history by pages, markers, versions and values that are known, decisions and events to compare | `NextDecisionEvents`, preloading, `GetVersion`, `SideEffect`, `MutableSideEffect`, `matchReplayWithHistory` | the same code, or other code, must see the same after crashes, failed tasks and deployments |
| Decision polls (`internal_task_pollers.go`) | pending polls per task list, the backlog hint | choose, poll, release | polls that fail or are abandoned must not starve a task list |
| Local dispatch (`internal_task_pollers.go`) | the tunnel, what each poller holds | offer, respond, report, poll | the response is retried and its answer may be lost after the service has started the activities |
| Worker lifecycle (`internal_worker.go`) | the workers and their base workers | Start, Stop | one worker of six fails to start; Stop is called twice |
| Sessions (`session.go`) | tokens, done channels, the state of each session at the workflow, the service and the worker | create, signal, heartbeat, complete | a signal that arrives although its call failed; a worker that dies; a completion that is lost |
| LRU cache (`common/cache`) | map, access order, references, ages | Get, Put, PutIfNotExist, Delete, Release | full caches, pinned entries, expiry |
| Workflow client (`internal_workflow_client.go`) | the run that a handle follows, the page token | ExecuteWorkflow, GetWorkflow, Get | runs that continue as new while other clients start runs of the same ID; lost answers |
| Shadower (`workflow_shadower*.go`) | pages, counts, progress of the replay activity | Run, Stop, scan, replay | heartbeats are lost and the activity goes on from old progress |
| Test environment (`internal_workflow_testsuite.go`) | mock clock, timers, callbacks, `runningCount`, activities and children | main loop, timers, mocks, results, cancellation, cron | the clock may move only while nothing runs, and goroutines count themselves in and out |

The parts that are not modelled are listed with the reason in `PROJECT.json`
(`components`) and in section 8.

How the parts interact: pollers of a *base worker* (permits) hand decision tasks to
the *decision task poller*, which looks up the workflow's *context in the cache*,
feeds the events to the *event handler*, which drives the *decision state machines*
and resolves *futures*; these wake *coroutines* of the workflow, which send and
receive on *channels*, derive *contexts*, and make new decisions or *local
activities*.  Activity tasks go from a base worker to the *activity task handler*,
which heartbeats to the service; some of them get there through the *local dispatch* of
the decision task poller, and some belong to a *session*, whose creation activity holds
a token of the worker.

## 2. Modules

| Module | Models | State variables and the code |
|---|---|---|
| `DecisionStateMachine` | the transition methods of the machines | constant operators: (kind, state) to state or `Illegal` |
| `Decisions` | `decisionsHelper`, the event handler's callbacks, cancellation, the service's view | `machine`, `order` are the map and the list; `future` the callbacks; the service's history is the sequence of its events |
| `DecisionsProofs` | theorems about `Decisions` | |
| `Futures` | futures and their chains (constant and action operators) | `ready`, `chained` |
| `BatchFuture` | `NewBatchFuture`, `Get`, over `Futures` | `semaphore`, `wg`, one worker coroutine per factory |
| `Channels` | `channelImpl`, `selectorImpl`, `dispatcherImpl` | `buffer`, `blockedSends`, `blockedReceives`, `recValue`, `closed`; a program counter per coroutine; the dispatcher's loop |
| `Contexts` | `cancelCtx` | `parent`, `children`, `err`, `done`, and a stack of cancels per goroutine |
| `ContextsProofs` | theorem about `Contexts` | |
| `ActivityTask` | `activityTaskHandlerImpl.Execute`, `cadenceInvoker`, `autoHeartbeater` | the batch and its timer, the last details, what the service has acknowledged |
| `ActivityTaskProofs` | theorems about `ActivityTask` and `Shadower` | |
| `AutoScaler` | `ConcurrencyAutoScaler`, `rollingAverage` | the quota, the window, the cooldown |
| `BaseWorker` | `baseWorker`, `resizablePermit`, `sessionTokenBucket`, over `AutoScaler` | a state per poller and per permit channel, the dispatcher, tasks in process, the steps of Stop |
| `BaseWorkerProofs` | theorems about `BaseWorker` | |
| `DecisionPolls` | `getNextPollRequest`, `updateBacklog`, `release`, `doPoll` | `pendingRegularPollCount`, `pendingStickyPollCount`, `stickyBacklog`; a poll per poller |
| `LocalDispatch` | `locallyDispatchedActivityTunnel`, `handleDecisionTaskCompletedRequest` and its retries, the pollers | `readyCh` of every task that was handed over; `requested` is RequestLocalDispatch; `dispatchLocally` what the service has started |
| `WorkerLifecycle` | `aggregatedWorker` and the workers in it | `started`, `stopC`, `baseShutdown` per worker; the running call with the workers it has yet to visit |
| `Sessions` | `createSession`, `CompleteSession`, the two session activities, `sessionEnvironmentImpl`, `sessionTokenBucket` | the session as the workflow, the service and the worker see it |
| `CacheContract` | what the interface `Cache` promises | `content`, `pins`, what the last call returned and dropped |
| `LRU` | type `lru`, which implements `CacheContract` | the order of `byAccess` as a relation, value, references and age of each key |
| `WorkerProofs` | theorems about `Sessions` and `DecisionPolls`, and that `LRU` implements `CacheContract` | |
| `WorkflowClient` | `StartWorkflow`, `ExecuteWorkflow`, `GetWorkflow`, `workflowRunImpl.Get`, `GetWorkflowHistoryWithOptions` | the runs at the service; `firstRunID`, `currentRunID`, the page token |
| `Shadower` | `WorkflowShadower`, `replayWorkflowActivity` | the scan with its page, `replayCount`; the loop's position and the progress that was recorded |
| `LibraryProofs` | theorems about `BatchFuture` | |
| `WorkflowCache` | `workflowExecutionContextImpl`, `getOrCreateWorkflowContext`, `Unlock`, eviction | what each context has applied, its lock and `previousStartedEventID`; a program counter per thread |
| `WorkflowCacheProofs` | theorems about `WorkflowCache` | |
| `LocalActivities` | `processWorkflowTask`, the wait loop of `ProcessWorkflowTask`, tunnel and pool | the running call, `pendingLaTasks`, `unstartedLaTasks`, the state of each local activity task |
| `LocalActivitiesProofs` | theorems about `LocalActivities` | |
| `Replay` | type `history`, `ProcessWorkflowTask` of the context, the calls with markers, the comparison, the replayer | `history` is the service's; `batch` the iteration with its read-ahead; `env` the environment and the position in the code; `committed` what the code had seen when the service last accepted a response |
| `TestEnvironment` | `testWorkflowEnvironmentImpl` | the callback channel, the timers, `runningCount`, a state per call, per child run and per goroutine |

`MC<Module>.tla` instantiates a module for TLC, and each `.cfg` is one question.
`MCLibrary` and `MCWorker` hold several modules that share no state: a variable `part`,
chosen in the initial state, says which of them moves, so that their state spaces add up
and do not multiply.  Where a module has a `TypeOK`, it gives the ranges of the
variables; those of `Decisions`, `ActivityTask` and
`LocalActivities` are proved (section 6), and none is a property of a run.
Definitions whose comment starts with *Mutant* are wrong variants of the definition
that follows them: substituted for it they must make the named property fail, which
shows that the property depends on that code.  They are not used by any
specification.

## 3. What the runs show

`tlc -config X.cfg MCModule` repeats a run.  All runs are exhaustive.

### `decisions`

Six kinds of calls (an activity that waits for its cancellation and one that does not,
a timer, a child workflow that may be started twice with one ID, an external
cancellation, a signal and a marker), of which any two are made.  Machines of
different IDs meet only in `orderedDecisions` and in the response, so pairs give every
interaction.

* `OrderMatchesMap`: list and map hold the same machines, each once.
* `PanicsOnlyOnChildCancellation`: the machines panic on a history that the service
  can produce only in the cases that section 9 lists.
* `AgreesWithService`: after a decision task both sides have the same view of a call.
* `DelayedCancelIsSent` under fairness: a child that is canceled before it has started
  is canceled when it starts.

### `channels`

Three coroutines on a signal channel and a future, one of them with a default branch,
and a value that cannot be decoded.  Two operations per coroutine reach every pair of
blocked and waking operations; the third operation of the second lets the callback of its
Select wake a coroutine and then block; the third coroutine competes for the value.

* `DeliversInOrder`: values accepted by a channel arrive, once, in order.
* `ReturnsWhenAllBlocked`: `ExecuteUntilAllBlocked` returns only when no coroutine
  could go on, unless one is blocked in the callback of a Select that had waited.  In
  this instance the exception happens: `AlwaysReturnsWhenAllBlocked`, without it, is
  refuted (section 9).

Outside of what this instance allows are three corner cases of Select that lose values:
a callback that does not receive its value (`ConsumesFirst` is false), a default branch
that blocks beside a receive case, and both directions of one channel (section 9).

### `library`

* The batch future, four factories, two at a time: `GetSeesResults`, `BatchGetReturns`.
* Four contexts, two goroutines: `CancellationReachesAll`; four give a chain of three and
  a sibling.
* LRU caches: `KeepsContract`, the specification `CacheContract` under the refinement
  mapping `content <- entry, pins <- refCount`.  The abstract cache knows neither order
  nor age; it says what may leave, when, and who is told.  A cache holds `maxSize - 1`
  entries, so sizes up to three make one entry older than another, and 0 stands for a
  cache without a bound.
* The client: `GetReturnsLastRun`.  Four runs allow a chain of two with a run of another
  client before and after it.
* The shadower: `CountedOnce`, with three attempts of the activity, which can lose the
  progress twice.

### `activity_task`

Four heartbeats, three failing calls.  `AcknowledgedProgressKept`: whoever sends next,
the service never goes back behind details that it has acknowledged.
`CancellationArrives`, `GoroutinesEnd` under fairness.

### `base_worker`

Two pollers and two permits while the auto scaler resizes and Stop comes at any time;
the worker is a decision worker with local activity results, or the worker that creates
sessions, without and with the auto scaler (while no session is created, the latter is any
auto scaled worker).  `PermitsConserved`: permits held by goroutines and
tasks are exactly those that are taken.  `QuotaFollowsHints`: the scaler.
`PollingGoesOn`, `GoroutinesEnd`.

### `workflow_cache`

Two threads that are given decision tasks and one that is given a query, two contexts,
four tasks in all, transient attempts.  `StateMatchesHistory` is the reason for the
cache's rules: the state on which a decision is computed is exactly the history of its
task, by the IDs of its events.  Two things are not claimed, because the code does not keep
them: which of the transient attempts with one event ID a state has processed, and what
becomes of a state that a query has rebuilt when a late first attempt is processed on it.
Both happen in this instance: `AlwaysMatchesHistory`, without the exceptions, is refuted by
each of them (section 9).  Three decision tasks and a query are needed for the one, four
decision tasks for the other, so `MaxTasks` bounds them together.  `QuerySeesOneState`: a
query is answered from decisions that were each applied once and in order.
`CachedIsUsable`.  `LocksAreReleased`: nobody waits for the lock of a context whose owner
waits, although onEviction sends to an unbuffered channel with the lock held and Unlock
drops a context while it holds the lock.

### `local_activities`

A local activity and three that use its result, one executor and a queue of one: full
and empty queues, a busy and an idle executor, and more local activities than the pool
holds.  Two of the four have a retry policy.  `PendingIsInFlight`: what a decision task
waits for is on its way, save what a repeated heartbeat left behind (section 9).
`NothingSentTwice`: neither a heartbeat nor a cached context sends a task again.
`DecisionTaskEnds` and `ResultIsTaken` under fairness: the decision task ends and results
do not occupy the pool, unless the goroutine that takes them is stuck sending more tasks
than the pool holds.  In this instance that happens: `ResultIsAlwaysTaken`, without the
exception, is refuted (section 9).  How often a local activity is attempted is not among
the properties: the code attempts it once more than `RetryPolicy` says (section 9).

### `test_environment`

Small tested workflows (`Plans`): an activity and a timer, an activity, a local activity
or a request whose mock waits beside another call, an execution timeout, a child with
retries or a cron schedule, signals and cancellations, an activity that the test completes
itself.  The deadline of a local activity is by the wall clock and may pass at any time
(`DeadlineExceeded`), also while its mock waits.  `ClockWaits`: the mock clock moves only
while nothing runs.  `NeverIdleWithTimers`: the main loop never stands still with timers
left that nobody would fire.  Both have exemptions, which the instance reaches: a child
that was started early (`early`), for the second one also a run that completed before its
start was over (`Leaky`), and the time in which a waiting mock outlives its local activity
(`Outlived`), when `runningCount` is one too low.  Without them the properties are refuted
(section 9).  `ResultsArrive` under fairness.

### `replay`

Eleven small workflows, each with its deployments, faults and signals (`MCReplay`):
every kind of marker, guarded changes of the code, local activities with heartbeats, and
changes that are not guarded, under both policies.  A history is read in pages of two or
three events, so that every event comes first and last on a page.

* `ReplaySeesTheSame`: a rebuilt workflow sees the results, versions, signals and IDs of
  the run it repeats.
* `CompatibleCodeReplays`: code whose changes `GetVersion` guards is never found
  non-deterministic, by a worker or by a replay test.
* `EachCallRecordedOnce`: what the code calls is in the history once and in order,
  through timeouts, restarts and stale contexts.
* `RunsAtCompletedDecisions`: the code runs where it ran, not at failed decision tasks.

`MutableSideEffect` is read at most once per decision task here (`paced`); the run
`replay_mutable` shows what happens otherwise.

### `worker`

* Three pollers and two task lists: `BothListsArePolled`, two pollers without a backlog
  never look at one list only, whichever polls failed or were abandoned before.
* Two locally dispatched activities, two pollers, two attempts to respond:
  `StartedRunsOnce`, an activity is run only when the service started it for this worker,
  and once; one that its poller knows to be started is run; no poller waits for ever.
* Every set of workers that the options allow, two calls of Start or Stop, every failure:
  `NothingLeftRunning`, after Stop and after a first Start that failed nothing goes on
  polling.
* Two sessions, room for one, a worker that may die at any step: `TokensAreConserved`;
  `SessionsEnd`, a session that is completed leaves the worker also when the completion
  activity is lost, and one whose worker died does not stay open.

### The runs that end with a violation

`local_activities_lost` and `replay_mutable` state a sentence of the repository that the
code does not meet; see section 9.

## 4. Bounds

Each bound is a CONSTANT of the module: the starts of an ID or the attempts to
start a workflow (`MaxStarts`), decision
tasks (`MaxTasks`), queries (`MaxQueries`), contexts, heartbeats, failing calls, hints,
attempts to respond (`MaxResponds`) and to replay (`MaxReplayAttempts`), calls of the
workflow, or of Start and Stop (`MaxCalls`), runs (`MaxRuns`), references
to a cache entry (`MaxRefCount`), the backlog hint (`MaxBacklog`).
In `Replay` and `TestEnvironment` they are fields of a plan that is chosen in the
initial state: signals, faults, replay tests, runs of a cron workflow.
They bound what is not bounded in the code only by time; the guards name them.
`Executors`, `QueueSize`, `batchSize`, permits and quotas are parameters of the code
(the queue of local activities has 1000 places there, one here: full and not full is
what matters).  Symmetry is used for sets whose members the specification does not
tell apart, and never in a run with a temporal property.  Deadlock is not checked
where a system may come to its end (a closed workflow, a stopped worker, a bound
that is reached); the liveness properties say what must still happen there.

## 5. Fairness

Fairness is assumed of goroutines that are runnable (Go's scheduler is fair), of
timers, and of user code that the code itself waits for (a local activity returns
within its deadline).  Strong fairness is used for an operation that competes on a
channel with others (a poller's shutdown, the dispatcher).  `LocalActivities`, whose
retries and decision tasks are bounded, needs weak fairness only, of each kind of step as a
whole.  The service is only assumed to answer where a property needs it (`Decisions`: it starts
the decision tasks and the children that were requested).  Failures are never forced:
an action that loses a call or an answer has no fairness.

`LocalDispatch` needs that the service call returns (its context has a timeout) and that
the goroutines go on; `Sessions` that coroutines and the heartbeat ticker go on, that the
two timeouts of the completion activity (three seconds) pass, and that the service times
out the creation activity of a worker that died.  It does not use the execution timeout of
a session, which would end every session anyway.  `WorkflowClient` needs that a long poll
for a run that has ended returns.

## 6. Proofs

Eight modules hold proofs, checked by tlapm with SMT, Zenon and LS4.  They are about the
specifications that the runs instantiate, for every value of the constants.

`DecisionsProofs` proves for any sets of
activities, timers, children, cancellations, signals and markers, and any number of
starts:

* `TypeCorrect`: `Spec => []TypeOK`;
* `OrderMatchesMapAlways`: `Spec => []OrderMatchesMap`;
* `CancelNeverPanicsAlways`: `Spec => []CancelNeverPanics`.

The argument is one inductive invariant,
`IInv == TypeOK /\ OrderMatchesMap /\ CallbacksSafe /\ CancelNeverPanics`.
`CancelNeverPanics` is not inductive by itself: an event handler may leave a pending
future with a machine in a state that a *later* cancel rejects, and the proof must
know in which states the machine of a pending future can be when each event arrives.
`CallbacksSafe` says that: a call whose callback has not run is in the map and in one
of the states that the handlers leave.  `OrderMatchesMap` needs that a machine which
is appended is not in the list, which `TypeOK` and the guard of the addition give.
The assumptions are those of the module: the sets of IDs are disjoint (the code keys
the map by type and ID).  `IInv` is checked by TLC on the instance before.

`BaseWorkerProofs` proves for any finite set of pollers and any maximum of tasks, with
and without the auto scaler:

* `PermitsAreConserved`: `Spec => []PermitsConserved`;
* `WithinMaximum`: a worker never processes more tasks than `MaxConcurrentTask`;
* `QuotaAlwaysFollowsHints`: `Spec => []QuotaFollowsHints`;
* `PollersWithinQuota`: no more pollers poll or offer a task than the larger of the two quotas.

The inductive invariant is `Types /\ ChannelHasPoller /\ PermitsConserved`.  Conservation
alone is not inductive: AcquireChan would forget a channel that offers a permit if a
poller that does not select could have one, and `ChannelHasPoller` says that none has.
The lemmas count pollers: a step of one poller changes the number of pollers in a set of
states by at most one, and by exactly what the step does to the permits.  The quota has an
invariant of its own, `ScalerInv`, in which the steps of the pollers change nothing.

`WorkerProofs` has three independent parts:

* `LRUKeepsContract`, `LRUSpec => KeepsContract`: the cache implements `CacheContract`, for
  any keys and values, every size and time to live, with and without pinning.  Every call
  maps to a call of the contract, and the passing of time to a stutter.  The invariant it
  needs is that the entries are finitely many and fewer than `maxSize`, that a key without
  an entry has no references, and that without pinning no key has any.
* `SessionTokensAreConserved`, `SessionsSpec => []TokensAreConserved`, for any finite set of
  sessions and any size of the bucket.  The typing of `activity` and `availableToken` makes
  the property inductive; the lemmas say of each step whether it takes a token, returns one
  or moves none.
* `BothListsAreAlwaysPolled`, `PollsSpec => []BothListsArePolled`, for any finite set of
  pollers.  The invariant is that the two counters are the numbers of polls of their kinds:
  the choice compares counters, the property is about pollers.

`ContextsProofs` proves `CancellationAlwaysReachesAll`, `ContextsSpec =>
[]CancellationReachesAll`, for any number of contexts and goroutines.  The property speaks of
states without a cancel under way; the inductive invariant says who will do what is not done
yet.  `OneCanceler`: one call of cancel goes past the test of `err`, the one that set it.
`ErrIsClosed`: a context whose err is set is done, or that call is about to close it.
`Registered`: a connected context that is not canceled is among the children of a parent that
is not canceled.  `Reached`: if the parent is canceled, some call holds the context in its
list of children, or has yet to copy the list.  The delicate steps are removeChild, which takes
one child from a list and must leave the others (`OthersStay`, over the least index that
matches), and propagateCancel, which must test err and register in one critical section; the
property fails when they are separated.

`LibraryProofs` proves `GetAlwaysSeesResults`, `BatchSpec => []GetSeesResults`, for any number of
factories, batch size and set of callers.  The invariant follows the futures (`Chained`: the
future of the batch is chained to the one of its factory, and takes its value), the submitter
and the processor (`Submitted`) and the wait groups (`Counts`: `wgForFutures` is the number of
coroutines that run, so that Wait returns when there is none).  The number is stated by a list
of the coroutines without repetition (`HasSize`).

`ActivityTaskProofs` proves for any number of details and of failed calls, with and without
the autoHeartbeater:

* `ProgressIsKept`: `Spec => []AcknowledgedProgressKept`;
* `OneGoroutineWaits`: at most one goroutine waits for the end of a batch, and none while no
  batch is open;

and, for the activity of the shadower, which keeps its progress in heartbeat details:

* `EachIsCountedOnce`, `ShadowingSpec => []CountedOnce`, for any number of executions and
  attempts.  The invariant says that progress, also the heartbeat details to which a retry
  returns, counts as many executions as it has passed, and that the replays of a scan are
  those of the pages before, without what is still listed.

The inductive invariant of the first two is `TypeOK /\ NothingOlderIsKept /\ AcknowledgedProgressKept /\
OneWaiter`.  `NothingOlderIsKept` is the strengthening: whatever can be sent next, the buffer
of a batch or the details that a background heartbeat repeats, is at least as new as what the
service has acknowledged.

`LocalActivitiesProofs` proves for any workflow of local activities, queue, pool, retry policy
and number of decision tasks:

* `NoneIsSentTwice`: `Spec => []NothingSentTwice`;
* `NoneIsForgotten`: `Spec => []PendingIsInFlight`.

The inductive invariant is `TypeOK /\ Numbered /\ ContextOK /\ QueueOK /\ TasksOK /\ PendingOK`.
It ties four views of one local activity together: the pending and the unstarted map of the
event handler, the state of the task in each call, the queue of the tunnel, and the history
that a new call replays.  `ContextOK` is why a call that goes on from a cached context does not
send again what the history has.

`WorkflowCacheProofs` proves for any threads, contexts, decision tasks and queries:

* `LocksAreAlwaysReleased`: `Spec => []LocksAreReleased`;
* `ContextsHaveOneUser`: from Lock to the end of Unlock no two threads work on the same
  context, whatever is evicted, cleared or replaced in the cache meanwhile;
* `CachedIsAlwaysUsable`: `Spec => []CachedIsUsable`.

The inductive invariant of the locks is `Types /\ HoldersHaveLock /\ LocksAreReleased`.
`LocksAreReleased` says of a lock that is taken who has it, and that is not inductive: when
a thread gives its lock back, another one that is past Lock on the same context would be
left without.  `HoldersHaveLock` says the converse, that such a thread has the lock, and so
there is none.  The lemmas `ThreadMoves`, `ContextMoves`, `EvictionMoves` and `CacheMoves`
say which changes keep the invariant, and every action makes one of these.  `CacheOK`
is the invariant of the third: a cached context is live and not being evicted, no thread is
about to clear it, and when its workflow has ended the thread that found this out is still on
its way to drop it from the cache.  The assumption is that neither `None` nor the goroutine of
onEviction is one of the threads.

Beyond the prover: liveness under fairness and ENABLED stay with TLC, and so do recursive
definitions and what needs an induction over data.  Model checked only are therefore all
temporal properties, and these invariants:

* `Decisions`: `PanicsOnlyOnChildCancellation` and `AgreesWithService`, which need for every
  ID the events about it that are still to be processed, in their order;
* `WorkflowCache`: `StateMatchesHistory` and `QuerySeesOneState`, which need how what every
  thread and context has seen follows from the history at the service (what the code does
  not keep, `AlwaysMatchesHistory`, is in section 9);
* `Replay`: all four, which are about what two executions of the same code have in common;
* `WorkerLifecycle`: `NothingLeftRunning`; `TestEnvironment`: `NeverIdleWithTimers`;
* the action properties `DeliversInOrder` (`Channels`) and `ClockWaits` (`TestEnvironment`).

## 7. Plan

What would come next:

1. a proof of `AgreesWithService` (`Decisions`);
2. `WorkflowCache` with `LRU` in place of the choice of an eviction, and with the
   dispatcher's Close at eviction;
3. the end of a worker as a whole: `WorkerLifecycle` over `BaseWorker` and
   `WorkflowCache`.

## 8. What is not modelled

* `Decisions`: the switch `StartChildWorkflowsOnCanceledContext` (the compatible
  behaviour is left out).  Which contexts are disconnected is a choice of the subset
  that a cancellation request reaches.
* `Channels`: `dispatcher.Close` and the exit of coroutines at eviction; a Select
  inside a Select callback; selectors that are used again, except for their futures.
* `BatchFuture`: `batchSize` is at least 1; coroutines run in any order, of which the
  dispatcher's is one.
* `ActivityTask`: an answer that is lost can leave older details at the service than
  were sent, but never older ones than were acknowledged.
* `BaseWorker`: rate limits, backoff after failed polls and the logarithm of the
  scale factor only change when and how far, not what is conserved.
* `WorkflowCache`: `DisableStickyExecution`, the contents of the history, and evictions
  after the worker has stopped, when nobody takes the task of queueResetStickinessTask.
* `LocalActivities`: cancellation by the workflow, the retry by a server timer, and a
  response that brings the next decision task (a new call there).
* `Replay`: activities and timers are scheduled and not answered (their events are in
  `Decisions`), queries, and histories that a replay test cuts short.  A panic of the
  workflow is one of three kinds; its text is not kept.
* `TestEnvironment`: mocks of `GetVersion`, heartbeats, listeners, data, the capacity of
  the callback channel, callbacks that the test registers before the workflow starts, and
  the execution timeout of a tested cron workflow.
* `WorkerLifecycle`: Run, which is Start, a signal and Stop.  In the model, as in the
  code, a second Stop, and a Stop after a Start that failed half way, close a closed
  channel and panic (`outcome`); a Start after one that failed leaves the base workers that
  were stopped as they are, since isWorkerStarted stays set, and returns no error.  No
  property is about these.
* `Sessions`: RecreateSession, which only names another task list, and the activities
  that run in a session.
* `LRU`: Exist and Size, which only read.  Callers release what is in the cache: Release of
  an element that was deleted or never put dereferences nil.  `CacheContract` states what
  the code keeps where the comments say more: a cache of `maxSize` holds `maxSize - 1`
  elements, ErrCacheFull ("Cache is full with pinned elements") is returned when the oldest
  one is pinned, whatever the others are, and a pinned or found element is returned also
  after its TTL.
* `WorkflowClient`: the calls that convert a request, send it and convert the answer.
* `Shadower`: the shadow workflow, which runs at the service, and the query.
* Retries (`backoff`): the modules take the outcomes of a retried call as a choice; what
  is left are intervals and randomness.  The resettable timer is a timer that is canceled
  and started again.
* Generated code: `.gen` (thrift and proto types with their serialization) and the mocks
  are most of the lines of the repository and have no control to model.  The mappings
  between thrift and proto, the wrappers of service calls, options, reflection, metrics
  and logging are data.  Of the code lines of the 24 files that the
  map names it covers about half, of all hand-written code without tests and mocks about
  a fifth (the rest is mostly the mappings and the parts listed as not modelled), and of
  all lines with the generated ones a few percent.

## 9. Divergences met while modelling

Where the code does not do what a comment or a document of the repository says, the
property that states the sentence is refuted by TLC.  The ones with a run of their own are
findings of `PROJECT.json`; the others are reproduced with the instance that is given.

* `NoIllegalTransition` (`internal_decision_state_machine.go:565`, `MCDecisions.cfg` with
  this invariant).  A child workflow that somebody cancels while the parent's own cancel
  decision is not sent yet makes the state machine panic on a well-formed history.
  handleCanceledEvent of the child machine accepts ChildWorkflowExecutionCanceled in Started
  and CancellationDecisionSent but not in CanceledAfterStarted, which is where it is when
  the parent canceled the child's context on a WorkflowExecutionCancelRequested event that
  precedes the child's canceled event in the same decision task. The machine panics; the
  comment of failStateTransition (src/internal/internal_decision_state_machine.go:335) says
  "this is when we detect illegal state transition, likely due to ill history sequence or
  nondeterministic decider code", and here neither is the case.
* `NoUnknownDecision` (`internal_decision_state_machine.go:694`, `MCDecisions.cfg` with this
  invariant).  A child that closes as canceled while the service's answer to the parent's
  cancellation request is outstanding: the answer finds no machine and panics.
  handleCanceledEvent moves the child's machine from CancellationDecisionSent to Completed,
  which removes it; the ExternalWorkflowExecutionCancelRequested or
  RequestCancelExternalWorkflowExecutionFailed event that answers the parent's request is
  then looked up by getDecision and panics with "unknown decision %v, possible causes are
  nondeterministic workflow definition code or incompatible change in the workflow
  definition" (src/internal/internal_decision_state_machine.go:694), neither of which
  happened.
* `ChildIdCanBeReused` (`internal_decision_state_machine.go:704`, `MCDecisions.cfg` with
  this invariant and `MaxStarts = 2`).  Starting a child again with the ID of one that is
  not running panics while the answer to a cancellation request of the first run is
  outstanding.  addDecision panics when the machine of an earlier run of the child is in
  CompletedAfterCancellationDecisionSent; src/internal/client.go:652-653 says
  "WorkflowIDReusePolicyAllowDuplicate allow start a workflow execution using the same
  workflow ID, when workflow not running."
* `CanceledChildDoesNotWait` (`internal_event_handlers.go:421`, `MCDecisions.cfg` with this
  invariant).  Without WaitForCancellation the future of a canceled child still waits for
  the child to end.  The option is stored in scheduledChildWorkflow and never consulted: the
  future of a canceled child is resolved by the child's closing event only.
  src/internal/workflow.go:446-448 documents "WaitForCancellation - Whether to wait for
  cancelled child workflow to be ended (child workflow can be ended as:
  completed/failed/timedout/terminated/canceled)  Optional: default false".
* `NoMessageLost` (`internal_workflow.go:1149`, `MCChannels` with `Unbuffered`,
  `TwoCoroutines`, `ReceiveFirst`, `HasDefault = {p1}`, `MaxOps <- ThreeEach`).  A default
  branch that blocks lets the receive callbacks of its own Select swallow a value.  Select
  calls the default branch while the receive callbacks of the other cases are registered and
  readyBranch is nil; when the branch blocks, a sender's value is accepted by such a
  callback, readyBranch is never looked at again and the value is lost.
  src/internal/workflow.go:288 says "f is invoked immediately when none of the other
  conditions (AddReceive, AddSend, AddFuture) are met for a Select call." and :186-187 "any
  Go select can be fairly trivially rewritten for a Selector with effectively identical
  behavior."
* `NoMessageLost` (`internal_workflow.go:1061`, `MCChannels` with `OneBuffered`,
  `TwoCoroutines`, `ReceiveBoth`, `ConsumesFirst = FALSE`, `MaxOps <- ThreeEach`).  A Select
  callback that does not call Receive loses its value when a second Select overwrites
  recValue.  The value that Select took from the channel is kept in the single recValue
  field; another Select on the channel that was already waiting overwrites it.
  src/internal/workflow.go:247-248 says "Failure to do this is not an error - the value will
  simply remain in the channel until a future Receive retrieves it."
* `OkMatchesReceive` (`internal_workflow.go:1062`, `MCChannels` with `OneBuffered`,
  `TwoCoroutines`, `ReceiveFirst`, `MaxOps <- ThreeEach`).  When a channel is closed under a
  waiting Select, the callback is told false and its Receive returns true.  When the channel
  is closed while Select waits, the branch stores the nil value in recValue and gets more =
  false, and the Receive of the callback then takes that pre-fetched nil and returns true;
  src/internal/workflow.go:250 says "The `ok` argument will match what a call to c.Receive
  would return (on a successful read)".
* `NoMessageLost` (`internal_workflow.go:1087`, `MCChannels` with `Unbuffered`,
  `TwoCoroutines`, `BothDirections`, `MaxOps <- ThreeEach`).  A Select that sends to and
  receives from the same unbuffered channel answers itself and loses the value.  The send
  case of a Select is accepted by the receive callback that the same Select registered
  before; the value is then not received by anybody. src/internal/workflow.go:186-187: "any
  Go select can be fairly trivially rewritten for a Selector with effectively identical
  behavior." (a Go select never communicates with itself).
* `AlwaysReturnsWhenAllBlocked` (`internal_workflow.go:1156`, `MCChannels.cfg` with this
  property).  A Select branch that wakes another coroutine and then blocks lets the
  dispatcher return although that coroutine could go on.  The wait of Select calls
  unblocked() only after its branch has returned. A branch that does a SendAsync and then
  blocks leaves keptBlocked set, so ExecuteUntilAllBlocked returns although the coroutine
  that received the value could go on; src/internal/internal_workflow.go:87-88 says
  "ExecuteUntilAllBlocked executes coroutines one by one in deterministic order until all of
  them are completed or blocked on Channel or Selector".
* `BatchGetAlwaysReturns` (`internal_workflow.go:384`, `MCLibrary.cfg` with this property).
  A factory whose future is ready at once makes Get hang for ever.  Chain copies the value
  of a future that is ready without closing the channel of the chained one, so Get on the
  future of the batch never returns; src/workflow/batch.go:18 says "This call will wait for
  all futures to resolve, and will then write all results to the output slice in the same
  order as the input."
* `ReadyMeansGet` (`internal_workflow.go:384`, `MCLibrary.cfg` with this invariant).  A
  chained future can be ready while its Get blocks.  Chain sets ready and the value but does
  not close the channel that Get waits on; src/internal/workflow.go:361 says "IsReady will
  return true Get is guaranteed to not block."
* `NeverPanics` (`internal_workflow.go:1492`, `MCLibrary.cfg` with this invariant,
  `factories = 2` and two `Getters`).  Two coroutines that call Get on the same batch panic.
  Get waits on the wait group, whose Wait panics when it is called while another coroutine
  waits; src/workflow/batch.go:13 says "Get acts like workflow.Future.Get" and
  src/internal/internal_workflow.go:1456 "If the counter becomes zero, all goroutines
  blocked on Wait are released."
* `CancelRemoves` (`context.go:280`, `MCLibrary.cfg` with this invariant).  A canceled
  context stays in its parent's list of children.  removeChild discards the slice that
  removeChildFromSlice returns, so the list keeps its length and its last child twice; the
  comment of cancel (src/internal/context.go:348-349) says "cancel closes c.done, cancels
  each of c's children, and, if removeFromParent is true, removes c from its parent's
  children."
* `BufferedIsFlushed` (`internal_task_handlers.go:1596`, `MCActivityTask.cfg` with this
  invariant).  Details whose heartbeat failed when a batch ended are not flushed at the end
  of an activity that failed.  When the heartbeat at the end of a batch fails, the timer is
  nil and detailsToReport keeps the details; Close flushes only while a timer is set, so
  they are dropped. src/internal/activity_task_handler.go:139 says "flush buffered heartbeat
  if activity was not successfully completed."
* `AllGoroutinesEnd` (`session.go:500`, `MCBaseWorker.cfg` with this property,
  `MaxConcurrentTask = 3` and only the last of `Workers`).  With several pollers on the
  session creation worker, a poller that waits for a token outlives Stop.
  waitForAvailableToken does not watch the shutdown and addToken signals one waiter only:
  when the last session ends after Stop and two pollers wait, one of them stays for ever.
  src/internal/internal_worker_base.go:416 says "Stop is a blocking call and cleans up all
  the resources associated with worker." (The single poller that internal_worker.go sets for
  this worker is overridden by PollerMaxCount with auto scaling.)
* `NoOrphan` (`internal_task_handlers.go:513`, `MCWorkflowCache.cfg` with this invariant).
  A context that was never cached is left with its goroutines when another context of the
  run is in the cache.  Unlock asks whether the run ID is cached, not whether this context
  is. A query with the full history runs on a context of its own; when a decision task has
  cached another context of the run meanwhile, the query's context is neither removed nor
  cleared. src/internal/internal_task_handlers.go:526 says "there are a variety of reasons a
  workflow may not have been put into the cache. all of them mean we need to clear the state
  at this point, or any running goroutines will be orphaned."
* `AlwaysMatchesHistory` (`internal_task_handlers.go:720`, `MCWorkflowCache.cfg` with this
  invariant).  A query that rebuilds a destroyed state leaves previousStartedEventID at 0,
  and a first decision task then replays the history on top of it.  A late first attempt, a
  query and a decision task wait for the same context while it is evicted. The query
  rebuilds it from the full history, and SetCurrentTask does not set previousStartedEventID
  for a query, so the context looks untouched: the first attempt's task starts with event 1
  = 0 + 1, is taken for a hit, and its events are applied to a workflow that has already
  processed them. The comment at src/internal/internal_task_handlers.go:721 says "non query
  task and we have a valid cached state".
* `AlwaysMatchesHistory` (`internal_task_handlers.go:720`, `MCWorkflowCache.cfg` with this
  invariant and `MaxQueries = 0`).  Two attempts of a transient decision have the same
  started event ID, so the cached state of the one is taken for that of the other.  The
  service writes no events for the repeated attempts of a decision, so they have one started
  event ID (the transient case of toWorkflowTask, src/internal/internal_task_pollers.go:919
  "first case is for normal decision, the second is for transient decision"). An attempt
  that timed out and gets the lock late rebuilds the cached state with its own decisions
  after the next attempt was completed; the following sticky task finds
  previousStartedEventID as it expects and goes on from decisions that the service has
  refused. The comment at src/internal/internal_task_handlers.go:721 says "non query task
  and we have a valid cached state".
* `AllPendingInFlight` (`internal_task_pollers.go:512`, run `local_activities_lost`).  After
  a heartbeat that had to be sent again, the next decision task waits for a local activity
  that nobody runs.  A heartbeat that is retried has StickyAttributes from its first attempt
  and is sent with ReturnNewDecisionTask = false, so its answer has no decision task. The
  handler returns without an error (internal_task_handlers.go:858), doneCh is closed and the
  running local activity's result is dropped, while the context stays in the cache with the
  activity in pendingLaTasks and not in unstartedLaTasks: the next decision task waits for
  it and never sends it. The comment at src/internal/internal_task_handlers.go:819 knows of
  one such case only: "laStopCh is closed when the worker starts shutting down. At that
  point the local activity pool stops accepting tasks, so a pending local activity (and any
  retry) can no longer be dispatched and its result will never arrive."
* `AttemptsWithinMaximum` (`internal_task_handlers.go:1115`, `MCLocalActivitiesLost.cfg`
  with this invariant).  A local activity is attempted once more than MaximumAttempts.
  attempt counts from 0 and a retry is refused only when attempt > MaximumAttempts-1, so
  with MaximumAttempts = 1 there is one retry. src/internal/client.go:561 says "The total
  attempts includes the initial attempt. Setting this to 1 means 0 retries (only the initial
  attempt)."
* `FirstFailureIsReported` (`internal_task_pollers.go:374`, `MCLocalActivities.cfg` with
  this property).  A decision task that a heartbeat brought fails, and its failure is
  reported with the token of the task before the heartbeat.  The heartbeat function declares
  a new variable task, so the task of processWorkflowTask stays the one before the
  heartbeat; when the new one fails, RespondDecisionTaskFailed gets the old token, the
  service rejects it and the new task is left to time out.
  src/internal/internal_task_pollers.go:497 says "Only fail decision on first attempt,
  subsequent failure on the same decision task will timeout."
* `ResultIsAlwaysTaken` (`internal_task_handlers.go:1165`, `MCLocalActivities.cfg` with this
  property).  A decision task that schedules more local activities than the queue and the
  executors hold blocks for ever.  CompleteDecisionTask sends the tasks to the queue of 1000
  before it reads laResultCh, which is unbuffered: when the queue is full, the executors
  wait to deliver results to the goroutine that waits to send.
  src/internal/internal_task_pollers.go:599 says "We need to send back the local activity
  result to unblock workflowTaskPoller.processWorkflowTask() which is synchronously
  listening on the laResultCh. We also want to make sure we don't block here forever".
* `ClockWaitsForActivities` (`internal_workflow_testsuite.go:507`, `MCTestEnvironment.cfg`
  with this property and `Plans <- EarlyPlans`).  A child that is canceled or signaled while
  its next run waits for its backoff is started at once, and the mock clock moves forward
  while an activity runs.  The decision task of the cancellation starts the delayed run,
  whose runningCount was given back until the delay is over: runningCount is one too low,
  and zero while an activity runs. src/internal/internal_workflow_testsuite.go:747 says
  "fire timer if there is no running activity".
* `ClockWaitsForActivities` (`internal_workflow_testsuite.go:1212`, `MCTestEnvironment.cfg`
  with this property and `Plans <- DeadlinePlans`).  A local activity whose deadline passes
  while its mock waits gives runningCount back twice, and the mock clock moves forward while
  another call runs.  The waiting mock has lowered runningCount at line 1353 when
  executeLocalActivityTask returns at its deadline (internal_task_pollers.go:757) and the
  result callback lowers it again: runningCount is one too low until the mock wakes up.
  src/internal/internal_workflow_testsuite.go:747 says "fire timer if there is no running
  activity".
* `BlockedMovesForward` (`internal_workflow_testsuite.go:748`, `MCTestEnvironment.cfg` with
  this invariant and `Plans <- DeadlinePlans`).  In the same window runningCount is below
  zero when nothing runs, and the mock clock does not move by itself.  autoFireNextTimer
  compares runningCount with zero, and it is -1: the timers fire by the wall clock only.
  src/internal/workflow_testsuite.go:655-656 says "this test suite uses mock clock which
  automatically move forward to fire next timer when workflow is blocked".
* `BlockedMovesForward` (`internal_workflow_testsuite.go:1451`, `MCTestEnvironment.cfg` with
  this invariant and `Plans <- ChildPlans`).  A child that times out while its mock waits
  leaves runningCount above zero, and the mock clock does not move by itself any more.
  runningCount is raised for the woken mock and lowered by the workflow's dispatcher, which
  a completed child does not run any more. src/internal/workflow_testsuite.go:655-656 says
  "this test suite uses mock clock which automatically move forward to fire next timer when
  workflow is blocked".
* `CallbackOnce` (`internal_workflow_testsuite.go:1259`, `MCTestEnvironment.cfg` with `Plans
  <- TwicePlans`).  A test that completes an activity twice has its callback called twice.
  handleActivityResult deletes the handle under the activity ID, while setActivityHandle
  stores it under the run ID and the activity ID: the handle stays.
  src/internal/internal_workflow_testsuite.go:1011 expects that the second call finds no
  handle: "CompleteActivity: ActivityID not found, could be already completed or cancelled."
* `NeverPanics` (`internal_workflow_testsuite.go:973`, `MCTestEnvironment.cfg` with this
  invariant and `Plans <- CronPlans`).  A cron workflow that returns with the callback of a
  canceled activity or timer in the queue makes the test panic.  Complete closes the
  dispatcher and leaves isTestCompleted false until the posted callback has made a new one:
  the decision task of a callback before it panics with "dispatcher is closed".
  src/internal/workflow_testsuite.go:487 says "Consecutive iterations will follow the
  specified schedule."
* `MutableValuesReplay` (`internal_event_handlers.go:728`, run `replay_mutable`).  A
  MutableSideEffect that is read twice in one decision task, unchanged and then changed,
  returns the changed value both times in a replay.  ProcessWorkflowTask processes all
  markers of a decision task before the workflow code runs (internal_task_handlers.go:923),
  and MutableSideEffect keeps one value per ID: the first call in the replay returns the
  value that the second call recorded. The comparison skips these markers, so that nothing
  notices. src/workflow/workflow.go:338 says "MutableSideEffect is similar to SideEffect,
  but it only records changed values per ID instead of every call.", and of SideEffect
  src/workflow/workflow.go:272 says "During replay the recorded result will be returned
  instead".
* `ChangedValuesAreRecorded` (`internal_decision_state_machine.go:706`, `MCReplayOften.cfg`
  with this invariant).  A MutableSideEffect whose value changes twice in one decision task
  makes the workflow panic.  The ID of the marker's decision is the ID of the side effect,
  and addDecision panics on the second one. src/workflow/workflow.go:342 says "This is
  intended for things you want to *check* frequently, but which *change* only occasionally".
* `StartedHasPoller` (`internal_task_pollers.go:536`, `MCWorker.cfg` with this invariant).
  An activity is started for this worker although no poller has taken it.
  RequestLocalDispatch that a failed attempt has set is not reset: when all pollers are busy
  at the retry, the request still asks for it, the service starts the activity for this
  worker, and nobody runs it until it times out. The comment at
  src/internal/internal_task_pollers.go:539 says "all pollers are busy - no room to
  optimize".
* `StopChannelBeforeCancel` (`internal_worker_base.go:432`, `MCWorker.cfg` with this
  invariant).  An activity's context is cancelled before its worker's stop channel is
  closed.  All activity workers of an aggregated worker share one user context, and the
  first of them to stop cancels it, while the channels of the others are still open.
  src/internal/activity.go:264 says "When the worker is stopping, it will close this channel
  and wait until the worker stop timeout finishes. After the timeout hit, the worker will
  cancel the activity context".
* `CountedOnceWithNil` (`workflow_shadower_activities.go:172`, `MCLibrary.cfg` with this
  invariant).  After a retry an execution behind a nil one is counted twice.
  NextExecutionIdx is not increased for a nil execution, so the index that the heartbeat
  records lags behind the position of the loop, and the next attempt replays and counts
  executions again; src/internal/workflow_shadower_activities.go:167 reasons about the
  previous progress only that "the progress uploaded during heartbeat has non nil pointers".
* `StopEndsShadowing` (`workflow_shadower.go:224`, module `Shadower` with `ShadowingSpec`
  and the constants of `MCLibrary.cfg`).  Stop does not end the shadowing.  Nothing reads
  shutdownCh, so shadowWorker goes on after Stop, which returns after a minute;
  src/internal/workflow_shadower.go:218 says "Stop stops WorkflowShadower and wait up to one
  minute for all goroutines to finish before returning".
