------------------------------- MODULE Replay -------------------------------
(***************************************************************************)
(* How a workflow worker rebuilds a workflow from its history: the         *)
(* iteration over the history (type history of internal_task_handlers.go), *)
(* ProcessWorkflowTask with its preloaded markers, the calls whose results *)
(* are kept in markers (GetVersion, SideEffect, MutableSideEffect, local   *)
(* activities), the comparison of the replay with the history, decision    *)
(* heartbeats, and the WorkflowReplayer.                                   *)
(*                                                                         *)
(* One workflow is modelled.  Its code is a list of statements, and a      *)
(* deployment may replace it.  The service is external: it appends the     *)
(* events, keeps the signals that arrive during a decision task until the  *)
(* task ends, and accepts a response to the open decision task only.       *)
(***************************************************************************)
EXTENDS Integers, Sequences, FiniteSets, SequencesExt, FiniteSetsExt

CONSTANTS ChangeIDs,  \* of GetVersion
          EffectIDs,  \* of MutableSideEffect
          Values,     \* what side effects and local activities return
          Plans,      \* see PlanOK
          None

DefaultVersion == -1

VARIABLES
    plan,         \* the deployments and the bounds of this behaviour
    code,         \* the deployment that is running
    history,      \* the events at the service; an event's ID is its index
    buffered,     \* signals that wait for the end of the open decision task
    scheduled,    \* a decision task is scheduled and not started
    open,         \* the started event of the open decision task, 0 for none
    prevStarted,  \* the started event of the last completed decision task
    attempt,      \* decision tasks that failed or timed out since then
    signals,      \* signals so far
    faults,       \* failures so far
    tests,        \* runs of the WorkflowReplayer so far
    phase,        \* where ProcessWorkflowTask is
    task,         \* the decision task that it processes
    batch,        \* the iteration over the history
    env,          \* the workflow's context: its environment and code, None if destroyed
    decided,      \* replayDecisions
    responded,    \* respondEvents
    verdict,      \* the outcome of the last comparison or replay test
    committed,    \* what the code had seen when the service last accepted a response
    accepted      \* the started events of the decision tasks that it accepted

service == <<history, buffered, scheduled, open, prevStarted, attempt, committed, accepted>>
bounds == <<signals, faults, tests>>
matching == <<decided, responded>>
vars == <<plan, code, service, bounds, phase, task, batch, env, matching, verdict>>

Event(type, name, id, value) == [type |-> type, name |-> name, id |-> id, value |-> value]
Plain(type) == Event(type, None, None, None)
Marker(name, id, value) == Event("Marker", name, id, value)

ResultMarkers == {"SideEffect", "LocalActivity"}
SilentMarkers == {"Version", "MutableSideEffect"}
CallEvents == {"TimerStarted", "ActivityScheduled"}
TaskEvents == {"DecisionTaskScheduled", "DecisionTaskStarted", "DecisionTaskCompleted",
               "DecisionTaskFailed", "DecisionTaskTimedOut"}
EventTypes == CallEvents \cup TaskEvents \cup
              {"Started", "Signaled", "Marker", "Upsert", "Closed"}

CloseKinds == {"Completed", "Failed", "Canceled", "ContinuedAsNew"}
PanicKinds == {"Panic", "Illegal", "Duplicate"}

Operations == {"Version", "SideEffect", "MutableSideEffect", "LocalActivity", "Timer",
               "Activity", "Upsert", "Await", "Return"}

\* What the code of a workflow sees of one call.
Seen(op, id, value) == [op |-> op, id |-> id, value |-> value]

Phases == {"Idle", "Next", "Preload", "Events", "Code", "MarkerCode", "LocalCode",
           "Markers", "Match", "Complete", "WaitLocal"}

PlanOK(p) ==
    /\ p.codes # <<>>
    /\ \A i \in DOMAIN p.codes :
          /\ \A j \in DOMAIN p.codes[i] : p.codes[i][j].op \in Operations
          /\ Last(p.codes[i]).op = "Return"
    /\ {p.signals, p.faults, p.tests} \subseteq Nat
    /\ p.pageSize \in Nat \ {0}
    /\ p.policy \in {"BlockWorkflow", "FailWorkflow"}
    /\ p.paced \in BOOLEAN        \* a signal is sent after the last one was received
    /\ p.compatible \in BOOLEAN   \* every change of the code is guarded by GetVersion

ASSUME ReplayAssumption == \A p \in Plans : PlanOK(p)

\* A context whose workflow has not run yet (newWorkflowExecutionEventHandler).
NewEnv ==
    [pc |-> 1, counterID |-> 0, isReplay |-> FALSE, previousStartedEventID |-> 0,
     changeVersions |-> [c \in ChangeIDs |-> None],
     answer |-> [c \in ChangeIDs |-> None],
     sideEffectResult |-> {}, mutableSideEffect |-> [m \in EffectIDs |-> None],
     pendingLa |-> None, signals |-> 0, decisions |-> <<>>, sent |-> {},
     log |-> <<>>, done |-> None]

NoTask == [started |-> 0, prev |-> 0, first |-> 1, last |-> 0, test |-> FALSE]

Init ==
    /\ plan \in Plans
    /\ code = 1
    /\ history = <<Plain("Started"), Plain("DecisionTaskScheduled")>>
    /\ scheduled = TRUE
    /\ buffered = 0 /\ open = 0 /\ prevStarted = 0 /\ attempt = 0
    /\ signals = 0 /\ faults = 0 /\ tests = 0
    /\ phase = "Idle"
    /\ task = NoTask
    /\ batch = [lo |-> 1, hi |-> 0, ahead |-> 0, i |-> 1, la |-> 0, loaded |-> 0]
    /\ env = None
    /\ decided = <<>> /\ responded = <<>>
    /\ verdict = "None"
    /\ committed = <<>> /\ accepted = {}

Closed == Last(history).type = "Closed"

-----------------------------------------------------------------------------
(* The iteration over the history. *)

\* The last event of the page that holds event i of a task; a replay test has one page.
pageEndOf(t, i) ==
    LET offset == t.first - 1
        pages == (i - offset + plan.pageSize - 1) \div plan.pageSize
    IN  IF t.test THEN t.last ELSE Min({t.last, offset + pages * plan.pageSize})

pageEnd(i) == pageEndOf(task, i)

isDecisionEvent(type) == type \in CallEvents \cup {"Marker", "Upsert", "Closed"}

IsReplayEvent(i) == i <= task.prev \/ isDecisionEvent(history[i].type)

\* Mutant: the next page is not loaded to look at the event after the last one.
IsNextDecisionFailedInPage(i) ==
    /\ i < pageEnd(i)
    /\ history[i + 1].type \in {"DecisionTaskTimedOut", "DecisionTaskFailed"}

IsNextDecisionFailed(i) ==
    /\ i < task.last
    /\ history[i + 1].type \in {"DecisionTaskTimedOut", "DecisionTaskFailed"}

\* The events that end a batch, and the events that no batch contains.
endsBatch(i) ==
    history[i].type = "DecisionTaskStarted" /\ ~IsNextDecisionFailed(i)

skipped(i) ==
    \/ history[i].type \in {"DecisionTaskScheduled", "DecisionTaskTimedOut",
                            "DecisionTaskFailed"}
    \/ history[i].type = "DecisionTaskStarted" /\ IsNextDecisionFailed(i)

ends(from) == {i \in from..task.last : endsBatch(i)}

\* nextDecisionEvents: the batch that begins at an event, by its last event.
nextDecisionEvents(from) == IF ends(from) = {} THEN task.last ELSE Min(ends(from))

nonEmpty(from, to) == \E i \in from..to : ~skipped(i)

\* verifyAllEventsProcessed fails, at the end of a history that is too short.
prematureEnd(from) == ends(from) = {} /\ task.last < task.started

\* The batch that NextDecisionEvents returns and the end of the one it reads ahead.
returned == IF batch.ahead > batch.hi THEN batch.ahead ELSE nextDecisionEvents(batch.hi + 1)
readAhead == IF nonEmpty(batch.hi + 1, returned)
             THEN nextDecisionEvents(returned + 1)
             ELSE returned

loadedNext == IF readAhead < task.last THEN pageEnd(readAhead + 1) ELSE task.last

\* Markers of the decisions made at the end of the current batch.
markers == {i \in batch.hi + 1..batch.ahead : history[i].type = "Marker"}

skipReplayCheck == task.first # 1

-----------------------------------------------------------------------------
(* The service. *)

Signals(n) == [i \in 1..n |-> Plain("Signaled")]

Scheduled(needed) == IF needed THEN <<Plain("DecisionTaskScheduled")>> ELSE <<>>

Received(log) == LET isAwait(s) == s.op = "Await" IN Len(SelectSeq(log, isAwait))

Signal ==
    /\ signals < plan.signals
    /\ ~Closed
    /\ plan.paced => prevStarted # 0 /\ open = 0 /\ Received(committed) = signals
    /\ signals' = signals + 1
    /\ IF open # 0
       THEN buffered' = buffered + 1 /\ UNCHANGED <<history, scheduled>>
       ELSE /\ history' = Append(history, Plain("Signaled")) \o Scheduled(~scheduled)
            /\ scheduled' = TRUE
            /\ UNCHANGED buffered
    /\ UNCHANGED <<plan, code, open, prevStarted, attempt, committed, accepted, faults,
                   tests, phase, task, batch, env, matching, verdict>>

\* The open decision task ends without a decision.
taskEnds(type) ==
    /\ history' = history \o <<Plain(type)>> \o Signals(buffered) \o Scheduled(TRUE)
    /\ buffered' = 0
    /\ scheduled' = TRUE
    /\ open' = 0
    /\ attempt' = attempt + 1
    /\ UNCHANGED <<prevStarted, committed, accepted>>

TimeoutDecisionTask ==
    /\ open # 0
    /\ faults < plan.faults
    /\ faults' = faults + 1
    /\ taskEnds("DecisionTaskTimedOut")
    /\ UNCHANGED <<plan, code, signals, tests, phase, task, batch, env, matching, verdict>>

\* The history with a completed decision task (force: a heartbeat asks for the next).
recorded(decisions, close, force) ==
    history \o <<Plain("DecisionTaskCompleted")>> \o decisions \o close
            \o Signals(buffered) \o Scheduled(buffered > 0 \/ force)

completed ==
    /\ buffered' = 0
    /\ attempt' = 0
    /\ prevStarted' = task.started
    /\ committed' = env.log
    /\ accepted' = accepted \cup {task.started}

\* The service does not close a workflow that has not seen a signal.
completes(decisions, close) ==
    IF close # <<>> /\ buffered > 0
    THEN taskEnds("DecisionTaskFailed")
    ELSE /\ history' = recorded(decisions, close, FALSE)
         /\ scheduled' = (buffered > 0)
         /\ open' = 0
         /\ completed

-----------------------------------------------------------------------------
(* The worker gets a decision task. *)

\* The task, with the history from event first on; a short one misses its last event.
taskFrom(first, started, prev, short) ==
    [started |-> started, prev |-> prev, first |-> first, test |-> FALSE,
     last |-> IF short THEN started - 1 ELSE started]

\* newHistory; the first page came with the task, if its history was not reset.
begins(t, reset) ==
    /\ task' = t
    /\ batch' = [lo |-> t.first, hi |-> t.first - 1, ahead |-> t.first - 1,
                 i |-> t.first, la |-> 0,
                 loaded |-> IF reset THEN t.first - 1 ELSE pageEndOf(t, t.first)]
    /\ decided' = <<>>
    /\ responded' = <<>>
    /\ phase' = "Next"

\* Mutant: the cached context is used for any history.
keepsAny(first) == env # None /\ first # 1

\* ResetIfStale and getOrCreateWorkflowContext: the cached context fits the history.
keeps(first) == env # None /\ env.previousStartedEventID + 1 = first

PollTask(partial, short) ==
    LET started == Len(history) + 1
        first == IF partial THEN prevStarted + 1 ELSE 1
    IN  /\ phase = "Idle"
        /\ scheduled /\ open = 0
        /\ partial => prevStarted # 0
        /\ short => faults < plan.faults
        /\ faults' = IF short THEN faults + 1 ELSE faults
        /\ history' = Append(history, Plain("DecisionTaskStarted"))
        /\ open' = started
        /\ scheduled' = FALSE
        /\ begins(taskFrom(IF keeps(first) THEN first ELSE 1, started, prevStarted, short),
                  partial /\ ~keeps(first))
        /\ env' = [(IF keeps(first) THEN env ELSE NewEnv)
                     EXCEPT !.previousStartedEventID = started]
        /\ UNCHANGED <<plan, code, buffered, prevStarted, attempt, committed, accepted,
                       signals, tests, verdict>>

\* Unlock with an error, after RespondDecisionTaskFailed for a first attempt.
fails ==
    /\ phase' = "Idle"
    /\ env' = None
    /\ IF task.test \/ open # task.started \/ attempt > 0
       THEN UNCHANGED service
       ELSE taskEnds("DecisionTaskFailed")

NextDecisionEvents ==
    /\ phase = "Next"
    /\ ~prematureEnd(batch.hi + 1) /\ ~prematureEnd(returned + 1)
    /\ batch' = [lo |-> batch.hi + 1, hi |-> returned, ahead |-> readAhead,
                 i |-> batch.hi + 1, la |-> 0, loaded |-> loadedNext]
    /\ phase' = IF nonEmpty(batch.hi + 1, returned) THEN "Preload" ELSE "Match"
    /\ UNCHANGED <<plan, code, service, bounds, task, env, matching, verdict>>

PrematureEnd ==
    /\ phase = "Next"
    /\ prematureEnd(batch.hi + 1) \/ prematureEnd(returned + 1)
    /\ fails
    /\ UNCHANGED <<plan, code, bounds, task, batch, matching, verdict>>

\* A page of the history cannot be loaded.
LoadMoreEventsFails ==
    /\ phase = "Next"
    /\ loadedNext > batch.loaded
    /\ faults < plan.faults
    /\ faults' = faults + 1
    /\ fails
    /\ UNCHANGED <<plan, code, signals, tests, task, batch, matching, verdict>>

\* Mutant: the first marker of a kind and an ID wins.
preloadedFirst(name, id, known) ==
    LET those == {i \in markers : history[i].name = name /\ history[i].id = id}
    IN  IF those = {} \/ known # None THEN known ELSE history[Min(those)].value

\* The value of the last marker of a kind and an ID, or the value known before.
preloaded(name, id, known) ==
    LET those == {i \in markers : history[i].name = name /\ history[i].id = id}
    IN  IF those = {} THEN known ELSE history[Max(those)].value

\* handleMarkerRecorded for the markers of the current decision, before its events.
PreloadMarkers ==
    /\ phase = "Preload"
    /\ env' = [env EXCEPT
         !.isReplay = @ \/ \E i \in markers : history[i].name # "LocalActivity",
         !.changeVersions = [c \in ChangeIDs |-> preloaded("Version", c, @[c])],
         !.mutableSideEffect = [m \in EffectIDs |->
                                  preloaded("MutableSideEffect", m, @[m])],
         !.sideEffectResult = @ \cup {<<history[i].id, history[i].value>> :
             i \in {j \in markers : history[j].name = "SideEffect"}}]
    /\ phase' = "Events"
    /\ UNCHANGED <<plan, code, service, bounds, task, batch, matching, verdict>>

Stops(e, kind) == [e EXCEPT !.done = [kind |-> kind, value |-> None]]

\* The part of ProcessEvent that these events have: see module Decisions.
handled(e, event) ==
    CASE event.type = "Signaled" -> [e EXCEPT !.signals = @ + 1]
      [] event.type \in CallEvents ->
            IF <<event.type, event.id>> \in e.sent
            THEN [e EXCEPT !.sent = @ \ {<<event.type, event.id>>}]
            ELSE Stops(e, "Illegal")
      [] OTHER -> e

ProcessEvent ==
    LET event == history[batch.i]
        kept == ~skipped(batch.i)
    IN  /\ phase = "Events"
        /\ batch.i <= batch.hi
        /\ batch' = [batch EXCEPT !.i = @ + 1]
        /\ responded' = IF kept /\ ~skipReplayCheck /\ isDecisionEvent(event.type)
                        THEN Append(responded, event) ELSE responded
        /\ env' = IF kept /\ event.type # "Marker"
                  THEN handled([env EXCEPT !.isReplay = IsReplayEvent(batch.i)], event)
                  ELSE env
        /\ phase' = CASE env'.done # None -> "Match"
                      [] kept /\ event.type = "DecisionTaskStarted" -> "Code"
                      [] OTHER -> "Events"
        /\ UNCHANGED <<plan, code, service, bounds, task, decided, verdict>>

EndEvents ==
    /\ phase = "Events"
    /\ batch.i > batch.hi
    /\ phase' = "Markers"
    /\ UNCHANGED <<plan, code, service, bounds, task, batch, env, matching, verdict>>

\* getDecisions(true): the decisions made since the last call, sent from now on.
sends(e) ==
    [e EXCEPT !.decisions = <<>>,
              !.sent = @ \cup {<<d.type, d.id>> :
                  d \in {x \in ToSet(e.decisions) : x.type \in CallEvents}}]

\* addDecision, for the calls that a statement makes.
adds(e, ds) ==
    IF \E d \in ToSet(ds), x \in ToSet(e.decisions) :
          d.type = x.type /\ d.name = x.name /\ d.id = x.id
    THEN Stops(e, "Duplicate")
    ELSE [e EXCEPT !.decisions = @ \o ds]

\* The code sees the result of a call and goes on.
sees(e, op, id, value) ==
    [e EXCEPT !.log = Append(@, Seen(op, id, value)), !.pc = @ + 1]

\* handleLocalActivityMarker: a result that the code waits for is applied.
resumes(e, id, value) ==
    [adds(sees(e, "LocalActivity", id, value), <<Marker("LocalActivity", id, value)>>)
        EXCEPT !.pendingLa = None]

localMarkers == {i \in markers : history[i].name = "LocalActivity" /\ i > batch.la}

ApplyLocalActivityMarker ==
    LET i == Min(localMarkers)
        e == [env EXCEPT !.isReplay = TRUE]
    IN  /\ phase = "Markers"
        /\ localMarkers # {}
        /\ batch' = [batch EXCEPT !.la = i]
        /\ IF env.pendingLa = history[i].id
           THEN env' = resumes(e, history[i].id, history[i].value) /\ phase' = "MarkerCode"
           ELSE env' = e /\ UNCHANGED phase
        /\ UNCHANGED <<plan, code, service, bounds, task, matching, verdict>>

EndBatch ==
    LET lastKept == Max({i \in batch.lo..batch.hi : ~skipped(i)})
        lastOfTest == task.test /\ ~nonEmpty(batch.hi + 1, batch.ahead)
    IN  /\ phase = "Markers"
        /\ localMarkers = {}
        /\ IF IsReplayEvent(lastKept) /\ ~lastOfTest
           THEN /\ decided' = IF skipReplayCheck THEN decided ELSE decided \o env.decisions
                /\ env' = sends(env)
           ELSE UNCHANGED <<decided, env>>
        /\ phase' = "Next"
        /\ UNCHANGED <<plan, code, service, bounds, task, batch, responded, verdict>>

-----------------------------------------------------------------------------
(* The code of the workflow. *)

Running == phase \in {"Code", "MarkerCode", "LocalCode"}

Statement == plan.codes[code][env.pc]

\* A statement may be there for one answer of GetVersion only.
applies(s) == s.when # None => env.answer[s.when[1]] = s.when[2]

Executes(op) ==
    /\ Running
    /\ env.done = None
    /\ applies(Statement)
    /\ Statement.op = op

unchangedByCode ==
    UNCHANGED <<plan, code, service, bounds, phase, task, batch, matching, verdict>>

Skip ==
    /\ Running /\ env.done = None
    /\ ~applies(Statement)
    /\ env' = [env EXCEPT !.pc = @ + 1]
    /\ unchangedByCode

\* The version for a change that is new to the workflow.
newVersion(s) ==
    CASE env.isReplay -> DefaultVersion
      [] ~env.isReplay /\ s.option = "Custom" -> s.custom
      [] ~env.isReplay /\ s.option = "Min" -> s.min
      [] OTHER -> s.max

GetVersion ==
    LET s == Statement
        isKnown == env.changeVersions[s.id] # None
        v == IF isKnown THEN env.changeVersions[s.id] ELSE newVersion(s)
        e == sees([env EXCEPT !.answer[s.id] = v, !.changeVersions[s.id] = v],
                  "Version", s.id, v)
    IN  /\ Executes("Version")
        /\ env' = CASE v < s.min \/ v > s.max -> Stops(env, "Panic")
                    [] isKnown \/ env.isReplay \/ v = DefaultVersion -> e
                    [] OTHER -> adds(e, <<Marker("Version", s.id, v),
                                          Event("Upsert", "Change", s.id, v)>>)
        /\ unchangedByCode

SideEffect(v) ==
    LET id == env.counterID
        results == {r \in env.sideEffectResult : r[1] = id}
        result == IF env.isReplay THEN (CHOOSE r \in results : TRUE)[2] ELSE v
        e == [env EXCEPT !.counterID = @ + 1]
    IN  /\ Executes("SideEffect")
        /\ env' = IF env.isReplay /\ results = {} THEN Stops(e, "Panic")
                  ELSE adds(sees(e, "SideEffect", id, result),
                            <<Marker("SideEffect", id, result)>>)
        /\ unchangedByCode

\* A known value is returned in a replay, and where the function returns it again.
MutableSideEffect(v) ==
    LET id == Statement.id
        known == env.mutableSideEffect[id]
        isKept == known # None /\ (env.isReplay \/ v = known)
        e == [env EXCEPT !.mutableSideEffect[id] = v]
    IN  /\ Executes("MutableSideEffect")
        /\ env' = CASE isKept -> sees(env, "MutableSideEffect", id, known)
                    [] known = None /\ env.isReplay -> Stops(env, "Panic")
                    [] OTHER -> adds(sees(e, "MutableSideEffect", id, v),
                                     <<Marker("MutableSideEffect", id, v)>>)
        /\ unchangedByCode

\* A timer, an activity or an upsert of search attributes takes the next sequence ID.
StartsCall(op, event) ==
    LET e == [env EXCEPT !.counterID = @ + 1]
    IN  /\ Executes(op)
        /\ env' = adds(sees(e, op, env.counterID, Statement.id), <<event>>)
        /\ unchangedByCode

NewTimer == StartsCall("Timer", Event("TimerStarted", None, env.counterID, None))

ExecuteActivity ==
    StartsCall("Activity", Event("ActivityScheduled", Statement.id, env.counterID, None))

UpsertSearchAttributes == StartsCall("Upsert", Event("Upsert", "User", env.counterID, None))

ExecuteLocalActivity ==
    /\ Executes("LocalActivity")
    /\ env.pendingLa = None
    /\ env' = [env EXCEPT !.pendingLa = env.counterID, !.counterID = @ + 1]
    /\ unchangedByCode

\* The code receives a signal.
Await ==
    /\ Executes("Await")
    /\ env.signals > 0
    /\ env' = sees([env EXCEPT !.signals = @ - 1], "Await", None, None)
    /\ unchangedByCode

\* The result of the workflow is the last value that it saw.
Return ==
    /\ Executes("Return")
    /\ env' = [env EXCEPT !.done =
                 [kind |-> Statement.id,
                  value |-> IF env.log = <<>> THEN None ELSE Last(env.log).value]]
    /\ unchangedByCode

blocked ==
    /\ env.done = None
    /\ applies(Statement)
    /\ \/ env.pendingLa # None
       \/ Statement.op = "Await" /\ env.signals = 0

\* Every coroutine is blocked, or the workflow is over.
CodeStops ==
    /\ Running
    /\ blocked \/ env.done # None
    /\ phase' = CASE phase = "LocalCode" -> "Complete"
                  [] phase # "LocalCode" /\ env.done # None -> "Match"
                  [] OTHER -> "Markers"
    /\ UNCHANGED <<plan, code, service, bounds, task, batch, env, matching, verdict>>

-----------------------------------------------------------------------------
(* The end of a decision task. *)

isMarker(e, names) == e.type = "Marker" /\ e.name \in names

\* Mutant: the upsert that GetVersion makes is compared.
comparesUpserts(events, i) == FALSE

skipDeterministicCheckForUpsertChangeVersion(events, i) ==
    /\ i > 1
    /\ isMarker(events[i - 1], {"Version"})
    /\ events[i].type = "Upsert" /\ events[i].name = "Change"

\* What matchReplayWithHistory compares of the events.
compared(events) ==
    LET kept == {i \in DOMAIN events :
                   /\ ~isMarker(events[i], SilentMarkers)
                   /\ ~skipDeterministicCheckForUpsertChangeVersion(events, i)}
        order == SetToSortSeq(kept, <)
    IN  [k \in DOMAIN order |-> events[order[k]]]

isDecisionMatchEvent(d, e) ==
    /\ d.type = e.type
    /\ d.type = "Marker" => d.name = e.name
    /\ d.type \in CallEvents => d.id = e.id /\ d.name = e.name

matchReplayWithHistory ==
    LET isCompared(d) == ~isMarker(d, SilentMarkers)
        ds == SelectSeq(decided, isCompared)
        es == compared(responded)
    IN  /\ Len(ds) = Len(es)
        /\ \A k \in DOMAIN ds : isDecisionMatchEvent(ds[k], es[k])

isNonDeterministic ==
    IF (~skipReplayCheck /\ env.done = None) \/ task.test
    THEN ~matchReplayWithHistory
    ELSE env.done # None /\ env.done.kind \in {"Illegal", "Duplicate"}

\* The code recorded two values of one MutableSideEffect in one decision task.
repeats == env.done # None /\ env.done.kind = "Duplicate"

\* The end of ProcessWorkflowTask: the comparison and the policy.
MatchReplay ==
    /\ phase = "Match"
    /\ verdict' = CASE ~isNonDeterministic -> "Ok"
                    [] isNonDeterministic /\ repeats -> "Duplicate"
                    [] OTHER -> "NonDeterministic"
    /\ CASE ~isNonDeterministic ->
              phase' = "Complete" /\ UNCHANGED <<env, service>>
         [] isNonDeterministic /\ ~task.test /\ plan.policy = "FailWorkflow" ->
              /\ env' = Stops(env, "Failed")
              /\ phase' = "Complete"
              /\ UNCHANGED service
         [] OTHER -> fails
    /\ UNCHANGED <<plan, code, bounds, task, batch, matching>>

WaitLocalActivities ==
    /\ phase = "Complete"
    /\ env.pendingLa # None /\ env.done = None /\ ~task.test
    /\ phase' = "WaitLocal"
    /\ UNCHANGED <<plan, code, service, bounds, task, batch, env, matching, verdict>>

ProcessLocalActivityResult(v) ==
    /\ phase = "WaitLocal"
    /\ env' = resumes([env EXCEPT !.isReplay = FALSE], env.pendingLa, v)
    /\ phase' = "LocalCode"
    /\ UNCHANGED <<plan, code, service, bounds, task, batch, matching, verdict>>

\* The decision task is completed by force, and the response brings the next one.
Heartbeat ==
    LET h == recorded(env.decisions, <<>>, TRUE)
    IN  /\ phase = "WaitLocal"
        /\ faults < plan.faults
        /\ faults' = faults + 1
        /\ IF open = task.started
           THEN /\ history' = Append(h, Plain("DecisionTaskStarted"))
                /\ open' = Len(h) + 1
                /\ completed
                /\ begins(taskFrom(task.started + 1, Len(h) + 1, task.started, FALSE), FALSE)
                /\ env' = [sends(env) EXCEPT !.previousStartedEventID = Len(h) + 1]
                /\ UNCHANGED scheduled
           ELSE /\ phase' = "Idle"
                /\ env' = None
                /\ UNCHANGED <<service, task, batch, matching>>
        /\ UNCHANGED <<plan, code, signals, tests, verdict>>

closeDecision ==
    IF env.done = None THEN <<>>
    ELSE <<Event("Closed", env.done.kind, None, env.done.value)>>

panicked == env.done # None /\ env.done.kind \in PanicKinds

\* completeWorkflow for a workflow that panicked: RespondDecisionTaskFailed.
FailDecisionTask ==
    /\ phase = "Complete"
    /\ panicked /\ ~task.test
    /\ fails
    /\ UNCHANGED <<plan, code, bounds, task, batch, matching, verdict>>

\* CompleteDecisionTask, completeWorkflow and Unlock.
CompleteDecisionTask ==
    /\ phase = "Complete"
    /\ ~panicked /\ ~task.test
    /\ env.done = None => env.pendingLa = None
    /\ IF open = task.started
       THEN completes(env.decisions, closeDecision)
       ELSE UNCHANGED service
    /\ env' = IF env.done = None THEN sends(env) ELSE None
    /\ phase' = "Idle"
    /\ UNCHANGED <<plan, code, bounds, task, batch, matching, verdict>>

-----------------------------------------------------------------------------
(* Deployments, crashes and replay tests. *)

\* The worker is restarted, with the same code or with the next.
Restart(next) ==
    /\ next \in {code, code + 1}
    /\ next = code => faults < plan.faults
    /\ faults' = IF next = code THEN faults + 1 ELSE faults
    /\ code' = next
    /\ env' = None
    /\ phase' = "Idle"
    /\ UNCHANGED <<plan, service, signals, tests, task, batch, matching, verdict>>

\* ReplayWorkflowHistory, in a process whose registry has the current code; all
\* events come before replayPreviousStartedEventID.
ReplayWorkflowHistory ==
    LET n == Len(history)
    IN  /\ phase = "Idle"
        /\ env = None
        /\ tests < plan.tests
        /\ n >= 3
        /\ tests' = tests + 1
        /\ begins([started |-> 0, prev |-> n, first |-> 1, last |-> n, test |-> TRUE], FALSE)
        /\ env' = NewEnv
        /\ UNCHANGED <<plan, code, service, signals, faults, verdict>>

\* The end of replayWorkflowHistory: the results of a completed workflow are compared.
ReplayEnds ==
    LET last == history[task.last]
    IN  /\ phase = "Complete"
        /\ task.test
        /\ verdict' = IF /\ last.type = "Closed" /\ last.name = "Completed"
                         /\ closeDecision # <<last>>
                      THEN "ResultDiffers" ELSE "Ok"
        /\ env' = None
        /\ phase' = "Idle"
        /\ UNCHANGED <<plan, code, service, bounds, task, batch, matching>>

Next ==
    \/ Signal
    \/ TimeoutDecisionTask
    \/ \E partial, short \in BOOLEAN : PollTask(partial, short)
    \/ NextDecisionEvents
    \/ PrematureEnd
    \/ LoadMoreEventsFails
    \/ PreloadMarkers
    \/ ProcessEvent
    \/ EndEvents
    \/ ApplyLocalActivityMarker
    \/ EndBatch
    \/ Skip
    \/ GetVersion
    \/ \E v \in Values : SideEffect(v)
    \/ \E v \in Values : MutableSideEffect(v)
    \/ NewTimer
    \/ ExecuteActivity
    \/ UpsertSearchAttributes
    \/ ExecuteLocalActivity
    \/ Await
    \/ Return
    \/ CodeStops
    \/ MatchReplay
    \/ WaitLocalActivities
    \/ \E v \in Values : ProcessLocalActivityResult(v)
    \/ Heartbeat
    \/ FailDecisionTask
    \/ CompleteDecisionTask
    \/ \E next \in DOMAIN plan.codes : Restart(next)
    \/ ReplayWorkflowHistory
    \/ ReplayEnds

Spec == Init /\ [][Next]_vars

-----------------------------------------------------------------------------
(* Properties. *)

\* The types of the variables: phases, events, and the state of a rebuilt workflow.
TypeOK ==
    /\ plan \in Plans
    /\ code \in DOMAIN plan.codes
    /\ \A i \in DOMAIN history : history[i].type \in EventTypes
    /\ {buffered, open, prevStarted, attempt, signals, faults, tests} \subseteq Nat
    /\ scheduled \in BOOLEAN
    /\ phase \in Phases
    /\ phase \notin {"Idle"} => env # None
    /\ task.last <= Len(history)
    /\ env # None =>
         /\ env.pc \in DOMAIN plan.codes[code]
         /\ \A c \in ChangeIDs : env.changeVersions[c] \in Int \cup {None}
         /\ \A m \in EffectIDs : env.mutableSideEffect[m] \in Values \cup {None}
         /\ \A d \in ToSet(env.decisions) : isDecisionEvent(d.type)
         /\ env.done = None \/ env.done.kind \in CloseKinds \cup PanicKinds
    /\ verdict \in {"None", "Ok", "NonDeterministic", "Duplicate", "ResultDiffers"}
    /\ accepted \subseteq DOMAIN history

isOld(s) == s.op = "Version" /\ s.value = DefaultVersion

\* What the code saw, but for changes that its history does not have.
seenBy(log) == LET isNew(s) == ~isOld(s) IN SelectSeq(log, isNew)

\* A replay shows the code what the run it repeats saw: the versions, the values of
\* side effects and local activities, the signals, and the IDs of its calls come in
\* the same order, through failed decision tasks, heartbeats, restarts and
\* deployments.
ReplaySeesTheSame ==
    env # None /\ plan.compatible =>
        \/ IsPrefix(seenBy(env.log), seenBy(committed))
        \/ IsPrefix(seenBy(committed), seenBy(env.log))

mutableIn(log) == LET isMutable(s) == s.op = "MutableSideEffect" IN SelectSeq(log, isMutable)

\* MutableSideEffect returns in a replay what it returned in the run that is repeated.
MutableValuesReplay ==
    env # None =>
        \/ IsPrefix(mutableIn(env.log), mutableIn(committed))
        \/ IsPrefix(mutableIn(committed), mutableIn(env.log))

\* No decision task and no replay test of code whose changes GetVersion guards finds
\* the workflow non-deterministic, and none makes the workflow panic.  Exempt is the
\* panic of addDecision when the code itself reuses an ID, which no version guards
\* against: the verdict is then "Duplicate".  (A replay test
\* takes all events as replayed: where the history ends with a decision task that was
\* not completed, the code runs past what it records and may panic, unnoticed.)
CompatibleCodeReplays ==
    plan.compatible =>
        /\ verdict \in {"None", "Ok", "Duplicate"}
        /\ env # None /\ panicked =>
             repeats \/ (task.test /\ batch.hi = task.last)

\* A MutableSideEffect whose value changed records the new value.
ChangedValuesAreRecorded == env # None => ~repeats

\* The calls that a history records.
recordedCalls ==
    LET isCall(e) == e.type \in CallEvents \/ isMarker(e, ResultMarkers)
        calls == SelectSeq(history, isCall)
    IN  [k \in DOMAIN calls |-> calls[k].id]

\* The calls that the code had made when a response was last accepted.
committedCalls ==
    LET isCall(s) == s.op \in {"Timer", "Activity"} \cup ResultMarkers
        calls == SelectSeq(committed, isCall)
    IN  [k \in DOMAIN calls |-> calls[k].id]

\* Each call of the code reaches the history once and in order: a replay sends
\* nothing again and nothing is dropped.  With a change of the code that is not
\* guarded this holds because the comparison refuses the decisions (it is not made
\* when the workflow ends in the same decision task).
EachCallRecordedOnce ==
    recordedCalls = committedCalls \/ (Closed /\ ~plan.compatible)

\* In a replay the code runs at the ends of the decision tasks that were completed, and
\* not at those that failed or timed out, whatever the pages of the history are.
RunsAtCompletedDecisions ==
    phase \in {"Code", "MarkerCode"} /\ env.isReplay /\ batch.hi < task.last =>
        batch.hi \in accepted
=============================================================================
