-------------------------- MODULE WorkerLifecycle --------------------------
(***************************************************************************)
(* aggregatedWorker: Start and Stop of the workers that it is made of, and *)
(* of their base workers.  Workflow is the workflow worker with its local  *)
(* activity worker; Creation and Session are the two activity workers of   *)
(* the session worker; LDA runs the locally dispatched activities.  All    *)
(* activity workers share one context (BackgroundActivityContext) and its  *)
(* cancel function.                                                        *)
(***************************************************************************)
EXTENDS Integers, Sequences

CONSTANT MaxCalls  \* bound on the calls of Start and Stop

ASSUME LifecycleAssumption == MaxCalls \in Nat

VARIABLES
    enabled,      \* the workers that newAggregatedWorker creates
    registered,   \* those of them that Start starts
    call,         \* the call that is under way
    calls,        \* how many there were
    todo,         \* the workers it has yet to start or to stop
    waiting,      \* in AwaitWaitGroup of the first of bases
    bases,        \* the base workers of the one that it is stopping
    started,      \* isWorkerStarted of each base worker
    stopC,        \* the workers whose stop channel is closed
    baseShutdown, \* the base workers whose shutdownCh is closed
    cancelled,    \* userContextCancel was called
    active,       \* the base workers with an activity that runs
    outcome       \* of the last call

lifecycle == <<enabled, registered, call, calls, todo, waiting, bases, started, stopC,
               baseShutdown, cancelled, active, outcome>>

Order == <<"Workflow", "Activity", "LDA", "Creation", "Session", "Shadow">>
Workers == {Order[i] : i \in DOMAIN Order}
ActivityWorkers == Workers \ {"Workflow"}

\* The base workers of a worker, in the order in which Stop stops them.
BaseWorkers(w) == IF w = "Workflow" THEN <<"LocalActivity", "Decision">> ELSE <<w>>
baseSet(w) == {BaseWorkers(w)[i] : i \in DOMAIN BaseWorkers(w)}

only(s, S) == LET In(w) == w \in S IN SelectSeq(s, In)

\* The options of newAggregatedWorker.
newAggregatedWorker ==
    {E \in SUBSET Workers : /\ "LDA" \in E => "Activity" \in E
                            /\ "Creation" \in E <=> "Session" \in E}

\* Start skips the workflow worker when no workflow is registered, and both
\* workers of activities when no activity is; sessions and shadowing register some.
startable(E) ==
    {E \ S : S \in {{}, {"Workflow"}}
                   \cup (IF E \cap {"Creation", "Shadow"} # {} THEN {}
                         ELSE {{"Activity", "LDA"}, {"Workflow", "Activity", "LDA"}})}

LifecycleInit ==
    /\ enabled \in newAggregatedWorker /\ registered \in startable(enabled)
    /\ call = "None" /\ calls = 0 /\ todo = <<>> /\ bases = <<>> /\ waiting = FALSE
    /\ started = {} /\ stopC = {} /\ baseShutdown = {} /\ active = {}
    /\ cancelled = FALSE
    /\ outcome = "None"

-----------------------------------------------------------------------------
(* Start                                                                   *)

begin(name, ws) ==
    /\ call = "None" /\ outcome # "Panic" /\ calls < MaxCalls
    /\ call' = name /\ calls' = calls + 1
    /\ todo' = only(Order, ws)
    /\ UNCHANGED <<waiting, enabled, registered, bases, started, stopC, baseShutdown, cancelled, active, outcome>>

Start == begin("Start", registered)

\* A base worker that was started before is left as it is.
StartWorker ==
    /\ call = "Start" /\ todo # <<>>
    /\ started' = started \cup baseSet(Head(todo))
    /\ todo' = Tail(todo)
    /\ UNCHANGED <<waiting, enabled, registered, call, calls, bases, stopC, baseShutdown, cancelled, active, outcome>>

before(w) == {Order[j] : j \in 1..((CHOOSE i \in DOMAIN Order : Order[i] = w) - 1)}

\* Mutant: the worker of locally dispatched activities is forgotten.
stopsButLDA(w) == only(Order, enabled \cap (before(w) \ {"LDA"}))

\* What Start stops when the worker w cannot be started: those before it; the
\* session worker stops its creation worker itself, first.
stopsFor(w) ==
    IF w = "Session"
    THEN <<"Creation">> \o only(Order, enabled \cap before("Creation"))
    ELSE only(Order, enabled \cap before(w))

\* The domain does not exist, or the shadow workflow cannot be started.
StartFails ==
    /\ call = "Start" /\ todo # <<>>
    /\ call' = "Undo" /\ todo' = stopsFor(Head(todo))
    /\ UNCHANGED <<waiting, enabled, registered, calls, bases, started, stopC, baseShutdown, cancelled, active, outcome>>

-----------------------------------------------------------------------------
(* Stop                                                                    *)

Stop == begin("Stop", enabled)

\* Stop of a base worker that was not started returns at once.
StopWorker ==
    /\ call \in {"Stop", "Undo"} /\ todo # <<>> /\ bases = <<>>
    /\ stopC' = stopC \cup {Head(todo)}
    /\ bases' = only(BaseWorkers(Head(todo)), started)
    /\ todo' = Tail(todo)
    /\ UNCHANGED <<waiting, enabled, registered, call, calls, started, baseShutdown, cancelled, active, outcome>>

\* isWorkerStarted stays set: to close a closed channel panics.
StopBase ==
    /\ bases # <<>> /\ ~waiting
    /\ IF Head(bases) \in baseShutdown
       THEN /\ outcome' = "Panic" /\ call' = "None" /\ todo' = <<>> /\ bases' = <<>>
            /\ UNCHANGED <<baseShutdown, waiting>>
       ELSE /\ baseShutdown' = baseShutdown \cup {Head(bases)}
            /\ waiting' = TRUE
            /\ UNCHANGED <<outcome, call, todo, bases>>
    /\ UNCHANGED <<enabled, registered, calls, started, stopC, cancelled, active>>

\* AwaitWaitGroup: the goroutines have ended, or shutdownTimeout passed.
StopBaseReturns ==
    /\ waiting /\ waiting' = FALSE
    /\ cancelled' = (cancelled \/ Head(bases) \in ActivityWorkers)
    /\ bases' = Tail(bases)
    /\ UNCHANGED <<enabled, registered, call, calls, todo, started, stopC, baseShutdown, active, outcome>>

Return ==
    /\ call # "None" /\ todo = <<>> /\ bases = <<>>
    /\ call' = "None"
    /\ outcome' = CASE call = "Start" -> "Started" [] call = "Undo" -> "Error" [] OTHER -> "Stopped"
    /\ UNCHANGED <<enabled, registered, calls, todo, bases, waiting, started, stopC, baseShutdown,
                   cancelled, active>>

\* An activity worker takes a task; its activity returns.
ActivityRuns(w) ==
    /\ w \in started \ (baseShutdown \cup active)
    /\ active' = active \cup {w}
    /\ UNCHANGED <<enabled, registered, call, calls, todo, bases, waiting, started, stopC,
                   baseShutdown, cancelled, outcome>>

ActivityEnds(w) ==
    /\ w \in active
    /\ active' = active \ {w}
    /\ UNCHANGED <<enabled, registered, call, calls, todo, bases, waiting, started, stopC,
                   baseShutdown, cancelled, outcome>>

LifecycleNext ==
    \/ Start \/ StartWorker \/ StartFails
    \/ Stop \/ StopWorker \/ StopBase \/ StopBaseReturns \/ Return
    \/ \E w \in ActivityWorkers : ActivityRuns(w) \/ ActivityEnds(w)

LifecycleSpec == LifecycleInit /\ [][LifecycleNext]_lifecycle

-----------------------------------------------------------------------------
(* Properties                                                              *)

\* After Stop, and after a first Start that failed half way, no base worker goes
\* on polling: Start stops what it had started, whichever worker failed.
NothingLeftRunning ==
    call = "None" /\ (outcome = "Stopped" \/ (outcome = "Error" /\ calls = 1)) =>
        started \subseteq baseShutdown

\* "When the worker is stopping, it will close this channel and wait until the
\* worker stop timeout finishes. After the timeout hit, the worker will cancel the
\* activity context" (activity.go, GetWorkerStopChannel).  Does not hold: the first
\* activity worker that stops cancels the context of the activities of all of them.
StopChannelBeforeCancel == cancelled => active \subseteq stopC
=============================================================================
