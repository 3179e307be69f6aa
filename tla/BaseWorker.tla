----------------------------- MODULE BaseWorker -----------------------------
(***************************************************************************)
(* baseWorker: the goroutines that poll for tasks, the one that dispatches *)
(* them and those that process them, the two permits that bound them, the  *)
(* auto scaler of the poller permit, the token bucket of the worker that   *)
(* creates sessions, and the shutdown.                                     *)
(*                                                                         *)
(* A poller holds a task permit from before it polls until the task that   *)
(* it polled is processed, and a poller permit while it polls and until    *)
(* the dispatcher has taken the task.  The permits are those of the        *)
(* semaphore library: an Acquire whose context is done may still succeed   *)
(* when a permit is free.  Rate limiters and backoff only delay a step.    *)
(***************************************************************************)
EXTENDS AutoScaler, FiniteSets

CONSTANTS Pollers,            \* the goroutines of runPoller
          MaxConcurrentTask,
          Options             \* the options of a worker: see OptionRecords

\* pollerAutoScaler.Enabled; the pollers that Start starts: PollerMaxCount with
\* the auto scaler and pollerCountWithoutAutoScaling else; the size of the token
\* bucket, which only the worker that creates sessions has; and a bound on the
\* local activity results in process, which only a decision worker has.
OptionRecords ==
    [autoScaling : BOOLEAN, pollers : SUBSET Pollers, bucket : Nat \cup {None}, results : Nat]

ASSUME BaseWorkerAssumption ==
    /\ MaxConcurrentTask \in Nat \ {0}
    /\ Options \subseteq OptionRecords
    /\ IsFiniteSet(Pollers)

VARIABLES
    poller,        \* where each poller is
    channel,       \* the goroutine of its permitChannel
    taskPermits,   \* held permits of TaskPermit
    pollerPermits, \* held permits of PollerPermit
    dispatcher,
    polled,        \* goroutines that process a polled task
    sessions,      \* those of them that hold a session token
    results,       \* goroutines that process a local activity result
    options,       \* of this worker
    tokens,        \* availableToken
    stop           \* how far Stop is

goroutines == <<poller, channel, dispatcher, polled, sessions, results>>
vars == <<goroutines, taskPermits, pollerPermits, options, tokens, stop, scaler>>

PollerStates == {"Loop", "Select", "Closing", "Token", "Waiting", "Permit", "Poll", "Offer", "Done"}

shutdown == stop # "Running"
ctxDone == stop \notin {"Running", "Closing"}

TypeOK ==
    /\ AutoScalerTypeOK
    /\ poller \in [Pollers -> PollerStates]
    /\ channel \in [Pollers -> {"None", "Acquiring", "Offering"}]
    /\ taskPermits \in 0..MaxConcurrentTask
    /\ pollerPermits \in 0..Cardinality(Pollers)
    /\ dispatcher \in {"Select", "Limit", "Done"}
    /\ polled \in Nat /\ sessions \in 0..polled
    /\ results \in 0..options.results
    /\ options \in Options /\ tokens \in Nat
    /\ stop \in {"Running", "Closing", "Canceled", "Awaiting", "Returned"}

\* The state in which Start leaves the worker.
Init ==
    /\ AutoScalerInit
    /\ options \in Options
    /\ poller = [p \in Pollers |-> IF p \in options.pollers THEN "Loop" ELSE "Done"]
    /\ channel = [p \in Pollers |-> "None"]
    /\ taskPermits = 0 /\ pollerPermits = 0
    /\ dispatcher = "Select"
    /\ polled = 0 /\ sessions = 0 /\ results = 0
    /\ tokens = IF options.bucket = None THEN 0 ELSE options.bucket
    /\ stop = "Running"

-----------------------------------------------------------------------------
(* The goroutine of a permitChannel                                        *)

AcquireChan(p) ==
    /\ poller[p] = "Loop"
    /\ poller' = [poller EXCEPT ![p] = "Select"]
    /\ channel' = [channel EXCEPT ![p] = "Acquiring"]
    /\ UNCHANGED <<dispatcher, polled, sessions, results, taskPermits, pollerPermits, options, tokens, stop, scaler>>

\* Its context is done: the poller closed the channel, or the worker stops.
channelDone(p) == poller[p] = "Closing" \/ ctxDone

ChannelAcquires(p) ==
    /\ channel[p] = "Acquiring"
    /\ taskPermits < MaxConcurrentTask
    /\ taskPermits' = taskPermits + 1
    /\ channel' = [channel EXCEPT ![p] = "Offering"]
    /\ UNCHANGED <<poller, dispatcher, polled, sessions, results, pollerPermits, options, tokens, stop, scaler>>

ChannelFails(p) ==
    /\ channel[p] = "Acquiring"
    /\ channelDone(p)
    /\ channel' = [channel EXCEPT ![p] = "None"]
    /\ UNCHANGED <<poller, dispatcher, polled, sessions, results, taskPermits, pollerPermits, options, tokens, stop, scaler>>

ChannelReleases(p) ==
    /\ channel[p] = "Offering"
    /\ channelDone(p)
    /\ channel' = [channel EXCEPT ![p] = "None"]
    /\ taskPermits' = taskPermits - 1
    /\ UNCHANGED <<poller, dispatcher, polled, sessions, results, pollerPermits, options, tokens, stop, scaler>>

-----------------------------------------------------------------------------
(* runPoller and pollTask                                                  *)

moves(p, from, to) ==
    /\ poller[p] = from
    /\ poller' = [poller EXCEPT ![p] = to]

SelectPermit(p) ==
    /\ channel[p] = "Offering"
    /\ moves(p, "Select", IF options.bucket = None THEN "Permit" ELSE "Token")
    /\ channel' = [channel EXCEPT ![p] = "None"]
    /\ UNCHANGED <<dispatcher, polled, sessions, results, taskPermits, pollerPermits, options, tokens, stop, scaler>>

SelectShutdown(p) ==
    /\ shutdown
    /\ moves(p, "Select", "Closing")
    /\ UNCHANGED <<channel, dispatcher, polled, sessions, results, taskPermits, pollerPermits, options, tokens, stop, scaler>>

\* The poller returns when channelDone has waited for the channel's goroutine.
PollerReturns(p) ==
    /\ channel[p] = "None"
    /\ moves(p, "Closing", "Done")
    /\ UNCHANGED <<channel, dispatcher, polled, sessions, results, taskPermits, pollerPermits, options, tokens, stop, scaler>>

waitForAvailableToken(p) ==
    /\ moves(p, "Token", IF tokens = 0 THEN "Waiting" ELSE "Permit")
    /\ UNCHANGED <<channel, dispatcher, polled, sessions, results, taskPermits, pollerPermits, options, tokens, stop, scaler>>

AcquirePollerPermit(p) ==
    /\ pollerPermits < quota
    /\ moves(p, "Permit", "Poll")
    /\ pollerPermits' = pollerPermits + 1
    /\ UNCHANGED <<channel, dispatcher, polled, sessions, results, taskPermits, options, tokens, stop, scaler>>

\* pollTask returns without the task permit that runPoller acquired for it.
PollerPermitFails(p) ==
    /\ ctxDone
    /\ moves(p, "Permit", "Loop")
    /\ UNCHANGED <<channel, dispatcher, polled, sessions, results, taskPermits, pollerPermits, options, tokens, stop, scaler>>

PollSucceeds(p) ==
    /\ moves(p, "Poll", "Offer")
    /\ IF options.autoScaling THEN \E hint \in Hints : ProcessPollerHint(hint) ELSE UNCHANGED scaler
    /\ UNCHANGED <<channel, dispatcher, polled, sessions, results, taskPermits, pollerPermits, options, tokens, stop>>

\* Mutant: a poll without a task keeps its task permit.
PollFailsKeepsPermit(p) ==
    /\ moves(p, "Poll", "Loop")
    /\ pollerPermits' = pollerPermits - 1
    /\ UNCHANGED <<channel, dispatcher, polled, sessions, results, taskPermits, options, tokens, stop, scaler>>

\* PollTask failed or found no task, or the limiter failed.
PollFails(p) ==
    /\ moves(p, "Poll", "Loop")
    /\ taskPermits' = taskPermits - 1
    /\ pollerPermits' = pollerPermits - 1
    /\ UNCHANGED <<channel, dispatcher, polled, sessions, results, options, tokens, stop, scaler>>

\* The unbuffered taskQueueCh: the dispatcher takes the task.
Enqueue(p) ==
    /\ dispatcher = "Select"
    /\ dispatcher' = "Limit"
    /\ moves(p, "Offer", "Loop")
    /\ pollerPermits' = pollerPermits - 1
    /\ UNCHANGED <<channel, polled, sessions, results, taskPermits, options, tokens, stop, scaler>>

\* Mutant: pollTask does not watch the shutdown while it offers its task.
DropTaskNever(p) ==
    /\ dispatcher # "Done" /\ shutdown
    /\ moves(p, "Offer", "Loop")
    /\ pollerPermits' = pollerPermits - 1
    /\ UNCHANGED <<channel, dispatcher, polled, sessions, results, taskPermits, options, tokens, stop, scaler>>

\* The worker stops: the task is dropped, with its task permit.
DropTask(p) ==
    /\ shutdown
    /\ moves(p, "Offer", "Loop")
    /\ pollerPermits' = pollerPermits - 1
    /\ UNCHANGED <<channel, dispatcher, polled, sessions, results, taskPermits, options, tokens, stop, scaler>>

-----------------------------------------------------------------------------
(* runTaskDispatcher and processTask                                       *)

\* A local activity result needs no permit and is not rate limited.
DispatchResult ==
    /\ dispatcher = "Select"
    /\ results < options.results
    /\ results' = results + 1
    /\ UNCHANGED <<poller, channel, dispatcher, polled, sessions, taskPermits, pollerPermits, options, tokens, stop, scaler>>

Dispatch ==
    /\ dispatcher = "Limit"
    /\ dispatcher' = "Select"
    /\ polled' = polled + 1
    /\ UNCHANGED <<poller, channel, sessions, results, taskPermits, pollerPermits, options, tokens, stop, scaler>>

\* The limiter's Wait fails once the context is done; the worker is shut down
\* then, and the task that the dispatcher took is dropped.
LimiterFails ==
    /\ dispatcher = "Limit"
    /\ ctxDone
    /\ dispatcher' = "Done"
    /\ UNCHANGED <<poller, channel, polled, sessions, results, taskPermits, pollerPermits, options, tokens, stop, scaler>>

DispatcherReturns ==
    /\ dispatcher = "Select"
    /\ shutdown
    /\ dispatcher' = "Done"
    /\ UNCHANGED <<poller, channel, polled, sessions, results, taskPermits, pollerPermits, options, tokens, stop, scaler>>

\* A result holds no permit; a failure or a panic of ProcessTask ends the
\* goroutine as its return does.
ResultProcessed ==
    /\ results > 0
    /\ results' = results - 1
    /\ UNCHANGED <<poller, channel, dispatcher, polled, sessions, taskPermits, pollerPermits, options, tokens, stop, scaler>>

TaskProcessed ==
    /\ polled > sessions
    /\ polled' = polled - 1
    /\ taskPermits' = taskPermits - 1
    /\ UNCHANGED <<poller, channel, dispatcher, sessions, results, pollerPermits, options, tokens, stop, scaler>>

\* getToken: the task is a sessionCreationActivity that finds a token.
CreateSession ==
    /\ options.bucket # None
    /\ polled > sessions
    /\ tokens > 0
    /\ tokens' = tokens - 1
    /\ sessions' = sessions + 1
    /\ UNCHANGED <<poller, channel, dispatcher, polled, results, taskPermits, pollerPermits, options, stop, scaler>>

\* Signal wakes one of the pollers that wait, which look at the bucket again.
addToken ==
    /\ tokens' = tokens + 1
    /\ IF \E p \in Pollers : poller[p] = "Waiting"
       THEN \E p \in Pollers : moves(p, "Waiting", "Token")
       ELSE UNCHANGED poller

\* The session is completed, or the user context canceled.
EndSession ==
    /\ sessions > 0
    /\ sessions' = sessions - 1
    /\ polled' = polled - 1
    /\ taskPermits' = taskPermits - 1
    /\ addToken
    /\ UNCHANGED <<channel, dispatcher, results, pollerPermits, options, stop, scaler>>

-----------------------------------------------------------------------------
(* The auto scaler's ticker, and Stop                                      *)

Tick ==
    /\ options.autoScaling
    /\ stop \in {"Running", "Closing", "Canceled"}
    /\ updatePollerPermit
    /\ UNCHANGED <<goroutines, taskPermits, pollerPermits, options, tokens, stop>>

Clock ==
    /\ options.autoScaling
    /\ CooldownEnds
    /\ UNCHANGED <<goroutines, taskPermits, pollerPermits, options, tokens, stop>>

\* close(shutdownCh), limiterContextCancel, the scaler's Stop.
StopSteps ==
    [Running |-> "Closing", Closing |-> "Canceled", Canceled |-> "Awaiting"]

Stop ==
    /\ stop \in DOMAIN StopSteps
    /\ stop' = StopSteps[stop]
    /\ UNCHANGED <<goroutines, taskPermits, pollerPermits, options, tokens, scaler>>

\* shutdownWG
Ended ==
    /\ \A p \in Pollers : poller[p] = "Done"
    /\ dispatcher = "Done"
    /\ polled = 0 /\ results = 0

\* AwaitWaitGroup gives up after the shutdownTimeout; the user's context is
\* canceled in both cases.
StopReturns ==
    /\ stop = "Awaiting"
    /\ stop' = "Returned"
    /\ UNCHANGED <<goroutines, taskPermits, pollerPermits, options, tokens, scaler>>

-----------------------------------------------------------------------------

PollerStep(p) ==
    \/ AcquireChan(p) \/ SelectPermit(p) \/ PollerReturns(p)
    \/ waitForAvailableToken(p)
    \/ AcquirePollerPermit(p) \/ PollerPermitFails(p)
    \/ PollSucceeds(p) \/ PollFails(p)
    \/ Enqueue(p) \/ DropTask(p)

ChannelStep(p) ==
    ChannelAcquires(p) \/ ChannelFails(p) \/ ChannelReleases(p)

Next ==
    \/ \E p \in Pollers : PollerStep(p) \/ ChannelStep(p) \/ SelectShutdown(p)
    \/ DispatchResult \/ Dispatch \/ LimiterFails \/ DispatcherReturns
    \/ ResultProcessed \/ TaskProcessed \/ CreateSession \/ EndSession
    \/ Tick \/ Clock
    \/ Stop \/ StopReturns

Spec == Init /\ [][Next]_vars

\* The goroutines run.  A select picks among its ready cases at random, so a
\* shutdown that stays ready is picked in the end.  Polls return, and tasks
\* are processed; sessions end when Stop has canceled the user's context.
\* Stop, once called, goes on.
Fairness ==
    /\ \A p \in Pollers :
         WF_vars(PollerStep(p)) /\ WF_vars(ChannelStep(p)) /\ SF_vars(SelectShutdown(p))
    /\ WF_vars(Dispatch \/ LimiterFails) /\ SF_vars(DispatcherReturns)
    /\ WF_vars(ResultProcessed) /\ WF_vars(TaskProcessed)
    /\ WF_vars(\/ stop # "Running" /\ Stop
               \/ StopReturns
               \/ stop = "Returned" /\ EndSession)

FairSpec == Spec /\ Fairness

-----------------------------------------------------------------------------
(* Properties                                                              *)

counted(S) == Cardinality({p \in Pollers : poller[p] \in S})

\* What holds a task permit: a poller on its way to a task, a permitChannel
\* that offers one, the task in the dispatcher, the tasks in process.
holders ==
    counted({"Token", "Waiting", "Permit", "Poll", "Offer"})
      + Cardinality({p \in Pollers : channel[p] = "Offering"})
      + (IF dispatcher = "Limit" THEN 1 ELSE 0)
      + polled

\* Every task permit is held by exactly one poller, offer or task until the
\* worker stops: no path of runPoller, pollTask, runTaskDispatcher and
\* processTask loses a permit (which would shrink the worker for good) or
\* returns one twice (which would let it exceed MaxConcurrentTask).  At the
\* shutdown permits may be lost, never invented.
PermitsConserved ==
    /\ taskPermits >= holders
    /\ stop = "Running" => taskPermits = holders
    /\ pollerPermits = counted({"Poll", "Offer"})

TokenIsMissing == \E p \in Pollers : poller[p] = "Waiting"

\* A worker that is not stopped keeps polling, whatever its polls return and
\* however its poller permit is resized, unless a poller waits for the token bucket,
\* whose tokens sessions hold.  The exemption is wide: one waiting poller is enough,
\* also when the others could go on.
PollingGoesOn ==
    []<>(shutdown \/ TokenIsMissing \/ \E p \in Pollers : poller[p] = "Poll")

\* Stop ends every goroutine of the worker ("Stop is a blocking call and
\* cleans up all the resources associated with worker"), at the latest after
\* it has canceled the user's context, save a poller that waits for a session
\* token, which watches no context (waitForAvailableToken).  It needs a second
\* poller, which the worker that creates sessions has with the auto scaler only.
GoroutinesEnd == shutdown ~> (Ended \/ (options.autoScaling /\ TokenIsMissing))

\* The same without the exception.
AllGoroutinesEnd == shutdown ~> Ended
=============================================================================
