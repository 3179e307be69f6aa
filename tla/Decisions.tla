----------------------------- MODULE Decisions -----------------------------
(***************************************************************************)
(* A workflow's decisions over its life: the decisionsHelper (the machines *)
(* of module DecisionStateMachine, their map and their ordered list), the  *)
(* callbacks of the event handler, the workflow code that starts and       *)
(* cancels things, and the service that turns decisions into history       *)
(* events and sends them back, decision task by decision task.             *)
(*                                                                         *)
(* The service is external: it records an event for every decision of a    *)
(* completed decision task, in order, and it buffers the events that       *)
(* happen while a decision task is in progress and appends them after      *)
(* those of its decisions.                                                 *)
(***************************************************************************)
EXTENDS DecisionStateMachine, Integers, Sequences, FiniteSets

CONSTANTS Activities, Timers, Children, Cancellations, Signals, Markers,
          WaitForCancellation,  \* activities and children with that option set
          MaxStarts,            \* bound on the starts of one child workflow ID
          MaxCalls              \* bound on the calls of a workflow

Ids == Activities \cup Timers \cup Children \cup Cancellations \cup Signals
         \cup Markers

Cancelable == Activities \cup Timers \cup Children

ASSUME KindsDisjoint ==
    /\ Activities \cap (Timers \cup Children \cup Cancellations \cup Signals \cup Markers) = {}
    /\ Timers \cap (Children \cup Cancellations \cup Signals \cup Markers) = {}
    /\ Children \cap (Cancellations \cup Signals \cup Markers) = {}
    /\ Cancellations \cap (Signals \cup Markers) = {}
    /\ Signals \cap Markers = {}

ASSUME NoneIsNoId == "None" \notin Ids

ASSUME OptionsAssumption ==
    /\ WaitForCancellation \subseteq Activities \cup Children
    /\ MaxStarts \in Nat
    /\ MaxCalls \in Nat

kind(id) == CASE id \in Activities -> "Activity"
              [] id \in Timers -> "Timer"
              [] id \in Children -> "ChildWorkflow"
              [] id \in Cancellations -> "Cancellation"
              [] id \in Signals -> "Signal"
              [] OTHER -> "Marker"

VARIABLES
    machine,    \* state of the machine of each ID; "None" before it is added
    order,      \* orderedDecisions
    future,     \* the future of each ID: "None", "Pending" or "Ready"
    running,    \* children whose childWorkflowExecution is set
    async,      \* children with shouldCancelAsync set
    canceled,   \* IDs whose context is canceled
    closing,    \* cancellation callbacks that the Close of Done() still has to call
    phase,      \* what the worker does with the decision task
    cursor,     \* curr in getDecisions
    decisions,  \* result of getDecisions
    panic,      \* the panic that stopped the workflow
    starts,     \* how often each child workflow ID was started
    history,    \* events not yet given to ProcessEvent
    buffered,   \* events that the service holds back during a decision task
    server,     \* the service's record of each ID
    acks,       \* children whose cancellation request the service still has to answer
    cancelRequested  \* the cancellation of the workflow was requested

client == <<machine, order, future, running, async, canceled, closing>>
service == <<history, buffered, server, acks, cancelRequested>>
vars == <<machine, order, future, running, async, canceled, closing, phase,
          cursor, decisions, panic, starts, history, buffered, server, acks,
          cancelRequested>>

NoPanic == [id |-> "None", op |-> "None", from |-> "None"]

EventTypes == {"Initiated", "InitiationFailed", "Started", "Completion",
               "CancelInitiated", "CancelFailed", "Canceled", "CancelRequested",
               "MarkerRecorded"}

WorkflowEvents == {[type |-> "DecisionTaskStarted", id |-> "None"],
                   [type |-> "WorkflowExecutionCancelRequested", id |-> "None"]}

Events == [type : EventTypes \ {"Started"}, id : Ids]
            \cup [type : {"Started"}, id : Children] \cup WorkflowEvents

Phases == {"Idle", "Events", "Workflow", "GetDecisions"}

TypeOK ==
    /\ machine \in [Ids -> States \cup {"None"}]
    /\ order \in Seq(Ids)
    /\ future \in [Ids -> {"None", "Pending", "Ready"}]
    /\ running \subseteq Children
    /\ async \subseteq Children
    /\ canceled \subseteq Ids
    /\ closing \subseteq Cancelable
    /\ phase \in Phases
    /\ cursor \in Nat \ {0}
    /\ decisions \in Seq([id : Ids, type : {"Start", "Cancel"}])
    /\ panic = NoPanic \/ panic \in [id : Ids, op : EventTypes \cup {"Add", "Cancel"},
                                     from : States \cup {"None"}]
    /\ starts \in [Children -> Nat]
    /\ history \in Seq(Events)
    /\ buffered \in Seq(Events)
    /\ server \in [Ids -> {"None", "Initiated", "Open", "CancelRequested", "Closed"}]
    /\ acks \subseteq Children
    /\ cancelRequested \in BOOLEAN

Init ==
    /\ machine = [id \in Ids |-> "None"]
    /\ order = <<>>
    /\ future = [id \in Ids |-> "None"]
    /\ running = {} /\ async = {} /\ canceled = {} /\ closing = {}
    /\ phase = "Workflow"
    /\ cursor = 1
    /\ decisions = <<>>
    /\ panic = NoPanic
    /\ starts = [c \in Children |-> 0]
    /\ history = <<>> /\ buffered = <<>>
    /\ server = [id \in Ids |-> "None"]
    /\ acks = {}
    /\ cancelRequested = FALSE

-----------------------------------------------------------------------------
(* The map and the list of decisionsHelper.                                *)

\* moveState drops a machine from the map and from the list when it completes.
inMap(s) == s \notin {"None", "Completed"}

lookup(id) == IF inMap(machine[id]) THEN machine[id] ELSE Illegal

removeAt(s, i) == SubSeq(s, 1, i - 1) \o SubSeq(s, i + 1, Len(s))

without(s, id) ==
    IF \E i \in 1..Len(s) : s[i] = id
    THEN removeAt(s, CHOOSE i \in 1..Len(s) : s[i] = id)
    ELSE s

\* Mutant: the machine is pushed to the back and not taken from its old place.
MovePushesAgain(id, op, s) ==
    \/ /\ s = Illegal
       /\ panic' = [id |-> id, op |-> op, from |-> machine[id]]
       /\ UNCHANGED <<machine, order>>
    \/ /\ s # Illegal
       /\ machine' = [machine EXCEPT ![id] = s]
       /\ order' = IF inMap(s) THEN Append(order, id) ELSE without(order, id)
       /\ UNCHANGED panic

\* getDecision moves the machine to the back, and an event method then gives
\* it state s.  A panic leaves ProcessEvent or the dispatcher with an error.
Move(id, op, s) ==
    \/ /\ s = Illegal
       /\ panic' = [id |-> id, op |-> op, from |-> machine[id]]
       /\ UNCHANGED <<machine, order>>
    \/ /\ s # Illegal
       /\ machine' = [machine EXCEPT ![id] = s]
       /\ order' = IF inMap(s) THEN Append(without(order, id), id)
                              ELSE without(order, id)
       /\ UNCHANGED panic

-----------------------------------------------------------------------------
(* Workflow code.                                                          *)

\* RequestCancelActivity resolves the future at once unless the activity
\* waits for the cancellation and is not done yet.
RequestCancelActivity(id) ==
    LET s == cancel("Activity", lookup(id)) IN
    /\ Move(id, "Cancel", s)
    /\ future' = IF isDone(s) \/ id \notin WaitForCancellation
                 THEN [future EXCEPT ![id] = "Ready"]
                 ELSE future
    /\ UNCHANGED async

RequestCancelTimer(id) ==
    /\ Move(id, "Cancel", cancel("Timer", lookup(id)))
    /\ future' = [future EXCEPT ![id] = "Ready"]
    /\ UNCHANGED async

\* Mutant: a child is canceled even before it has started.
CancelUnstartedChild(id) ==
    /\ Move(id, "Cancel", cancel("ChildWorkflow", lookup(id)))
    /\ UNCHANGED <<future, async>>

\* A child that has not started yet is canceled by its started callback.
RequestCancelChildWorkflow(id) ==
    \/ /\ id \in running
       /\ Move(id, "Cancel", cancel("ChildWorkflow", lookup(id)))
       /\ UNCHANGED <<future, async>>
    \/ /\ id \notin running
       /\ async' = async \cup {id}
       /\ UNCHANGED <<machine, order, panic, future>>

cancellationCallback(id) ==
    CASE id \in Activities -> RequestCancelActivity(id)
      [] id \in Timers -> RequestCancelTimer(id)
      [] OTHER -> RequestCancelChildWorkflow(id)

WorkflowRuns == phase = "Workflow" /\ panic = NoPanic

WithinMaxCalls(id) ==
    Cardinality({x \in Ids : future[x] # "None"} \cup {id}) <= MaxCalls

\* An activity or timer on a canceled context is added and canceled in one call.
ExecuteActivityOrTimer(id, ctxCanceled) ==
    LET s == IF ctxCanceled THEN cancel(kind(id), "Created") ELSE "Created" IN
    /\ WorkflowRuns
    /\ id \in Activities \cup Timers
    /\ future[id] = "None"
    /\ WithinMaxCalls(id)
    /\ machine' = [machine EXCEPT ![id] = s]
    /\ order' = IF inMap(s) THEN Append(order, id) ELSE order
    /\ future' = [future EXCEPT ![id] = IF ctxCanceled THEN "Ready" ELSE "Pending"]
    /\ canceled' = IF ctxCanceled THEN canceled \cup {id} ELSE canceled
    /\ UNCHANGED <<running, async, closing, phase, cursor, decisions, panic, starts, service>>

\* A child workflow ID may be used again once its future is ready.  On a
\* canceled context the futures fail and no decision is made.
ExecuteChildWorkflow(id, ctxCanceled) ==
    /\ WorkflowRuns
    /\ id \in Children
    /\ future[id] # "Pending"
    /\ starts[id] < MaxStarts
    /\ WithinMaxCalls(id)
    /\ starts' = [starts EXCEPT ![id] = @ + 1]
    /\ running' = running \ {id}
    /\ async' = async \ {id}
    /\ canceled' = IF ctxCanceled THEN canceled \cup {id} ELSE canceled \ {id}
    /\ \/ /\ ctxCanceled
          /\ future' = [future EXCEPT ![id] = "Ready"]
          /\ UNCHANGED <<machine, order, panic>>
       \/ /\ ~ctxCanceled /\ inMap(machine[id])
          /\ panic' = [id |-> id, op |-> "Add", from |-> machine[id]]
          /\ UNCHANGED <<machine, order, future>>
       \/ /\ ~ctxCanceled /\ ~inMap(machine[id])
          /\ machine' = [machine EXCEPT ![id] = "Created"]
          /\ order' = Append(order, id)
          /\ future' = [future EXCEPT ![id] = "Pending"]
          /\ UNCHANGED panic
    /\ UNCHANGED <<closing, phase, cursor, decisions, service>>

\* RequestCancelExternalWorkflow, SignalExternalWorkflow, the record*Marker
\* operations and upsertSearchAttributes: no cancellation callback; a marker
\* has no future either.
AddNaiveDecision(id) ==
    /\ WorkflowRuns
    /\ id \in Cancellations \cup Signals \cup Markers
    /\ future[id] = "None"
    /\ WithinMaxCalls(id)
    /\ machine' = [machine EXCEPT ![id] = "Created"]
    /\ order' = Append(order, id)
    /\ future' = [future EXCEPT ![id] = IF id \in Markers THEN "Ready" ELSE "Pending"]
    /\ UNCHANGED <<running, async, canceled, closing, phase, cursor, decisions, panic,
                   starts, service>>

\* Workflow code cancels the context of a pending call: Close of the Done()
\* channel runs the callback before it returns.
CancelContext(id) ==
    /\ WorkflowRuns
    /\ id \in Cancelable \ canceled
    /\ future[id] = "Pending"
    /\ canceled' = canceled \cup {id}
    /\ cancellationCallback(id)
    /\ UNCHANGED <<running, closing, phase, cursor, decisions, starts, service>>

\* All coroutines are blocked: CompleteDecisionTask starts getDecisions(true).
WorkflowBlocks ==
    /\ WorkflowRuns
    /\ phase' = "GetDecisions"
    /\ cursor' = 1
    /\ UNCHANGED <<client, decisions, panic, starts, service>>

\* One round of the loop of getDecisions: cursor is the index of curr, and stays
\* when curr is removed because next then has its index.
getDecisions ==
    LET id == order[cursor]
        k == kind(id)
        s == handleDecisionSent(k, machine[id])
        d == getDecision(k, machine[id])
    IN
    /\ phase = "GetDecisions" /\ panic = NoPanic
    /\ cursor <= Len(order)
    /\ decisions' = IF d = "Nil" THEN decisions
                    ELSE Append(decisions, [id |-> id, type |-> d])
    /\ machine' = [machine EXCEPT ![id] = s]
    /\ order' = IF inMap(s) THEN order ELSE removeAt(order, cursor)
    /\ cursor' = IF inMap(s) THEN cursor + 1 ELSE cursor
    /\ UNCHANGED <<future, running, async, canceled, closing, phase, panic, starts, service>>

-----------------------------------------------------------------------------
(* Events.                                                                 *)

EventsRun == phase = "Events" /\ panic = NoPanic /\ closing = {} /\ history # <<>>

\* The machine method that ProcessEvent reaches for an event about id.
eventMethod(type, k, s) ==
    CASE type = "Initiated" -> handleInitiatedEvent(k, s)
      [] type = "InitiationFailed" -> handleInitiationFailedEvent(k, s)
      [] type = "Completion" -> handleCompletionEvent(k, s)
      [] type = "CancelInitiated" -> handleCancelInitiatedEvent(k, s)
      [] type = "CancelFailed" -> handleCancelFailedEvent(k, s)
      [] type = "Canceled" -> handleCanceledEvent(k, s)
      [] OTHER -> s

\* Mutant: a canceled call does not resolve its future.
resolvesUnlessCanceled(type, id) == type \in {"Completion", "InitiationFailed"}

\* A timer's future is resolved by RequestCancelTimer, not by TimerCanceled.
resolves(type, id) ==
    \/ type \in {"Completion", "InitiationFailed"}
    \/ type = "Canceled" /\ id \notin Timers

\* Every handler looks the machine up, moves it, and calls the callback unless
\* the call was handled before.
HandleEvent(id, type) ==
    LET s == eventMethod(type, kind(id), lookup(id)) IN
    /\ Move(id, type, s)
    /\ future' = IF s # Illegal /\ resolves(type, id) THEN [future EXCEPT ![id] = "Ready"] ELSE future
    /\ UNCHANGED running

\* Mutant: the started callback does not forward the delayed cancel.
startedWithoutDelayedCancel(id) ==
    /\ Move(id, "Started", handleStartedEvent("ChildWorkflow", lookup(id)))
    /\ running' = IF future[id] = "Pending" THEN running \cup {id} ELSE running
    /\ UNCHANGED future

\* startedCallback sets childWorkflowExecution and forwards a delayed cancel.
handleChildWorkflowExecutionStarted(id) ==
    LET s == handleStartedEvent("ChildWorkflow", lookup(id)) IN
    /\ Move(id, "Started", IF future[id] = "Pending" /\ id \in async
                           THEN cancel("ChildWorkflow", s) ELSE s)
    /\ running' = IF future[id] = "Pending" THEN running \cup {id} ELSE running
    /\ UNCHANGED future

ProcessEvent ==
    LET e == Head(history) IN
    /\ EventsRun
    /\ e.id \in Ids
    /\ history' = Tail(history)
    /\ CASE e.type = "Started" -> handleChildWorkflowExecutionStarted(e.id)
         [] e.type = "MarkerRecorded" -> UNCHANGED <<machine, order, panic, future, running>>
         [] OTHER -> HandleEvent(e.id, e.type)
    /\ UNCHANGED <<async, canceled, closing, phase, cursor, decisions, starts,
                   buffered, server, acks, cancelRequested>>

\* The workflow's root context is canceled: the contexts derived from it, but
\* not the disconnected ones, close their Done() channels.
handleWorkflowExecutionCancelRequested ==
    /\ EventsRun
    /\ Head(history).type = "WorkflowExecutionCancelRequested"
    /\ history' = Tail(history)
    /\ \E S \in SUBSET {id \in Cancelable \ canceled : future[id] = "Pending"} :
          canceled' = canceled \cup S /\ closing' = S
    /\ UNCHANGED <<machine, order, future, running, async, phase, cursor, decisions,
                   panic, starts, buffered, server, acks, cancelRequested>>

\* The loop of channelImpl.Close over the blocked receive callbacks.
CloseDoneChannel(id) ==
    /\ id \in closing
    /\ panic = NoPanic
    /\ closing' = closing \ {id}
    /\ cancellationCallback(id)
    /\ UNCHANGED <<running, canceled, phase, cursor, decisions, starts, service>>

OnDecisionTaskStarted ==
    /\ EventsRun
    /\ Head(history).type = "DecisionTaskStarted"
    /\ history' = Tail(history)
    /\ phase' = "Workflow"
    /\ UNCHANGED <<client, cursor, decisions, panic, starts, buffered, server, acks, cancelRequested>>

-----------------------------------------------------------------------------
(* The service (external).                                                 *)

\* What the service records for a decision of a completed decision task.
recorded(d) ==
    LET s == server[d.id] IN
    [id |-> d.id,
     type |-> IF d.type = "Start"
              THEN IF d.id \in Markers THEN "MarkerRecorded" ELSE "Initiated"
              ELSE IF d.id \in Children THEN "CancelInitiated"
              ELSE IF s = "Closed" THEN "CancelFailed"
              ELSE IF d.id \in Timers THEN "Canceled" ELSE "CancelInitiated"]

serverAfter(id) ==
    LET D == {i \in DOMAIN decisions : decisions[i].id = id}
        d == decisions[CHOOSE i \in D : TRUE]
    IN  IF D = {} THEN server[id]
        ELSE IF d.type = "Start"
        THEN CASE id \in Markers -> "Closed"
               [] id \in Children -> "Initiated"
               [] OTHER -> "Open"
        ELSE IF id \in Children THEN server[id]
        ELSE IF id \in Timers \/ server[id] = "Closed" THEN "Closed" ELSE "CancelRequested"

\* getDecisions has returned and RespondDecisionTaskCompleted reaches the
\* service.
RespondDecisionTaskCompleted ==
    /\ phase = "GetDecisions" /\ panic = NoPanic
    /\ cursor > Len(order)
    /\ history' = history \o [i \in 1..Len(decisions) |-> recorded(decisions[i])] \o buffered
    /\ buffered' = <<>>
    /\ server' = [id \in Ids |-> serverAfter(id)]
    /\ acks' = acks \cup {c \in Children : \E i \in DOMAIN decisions :
                             decisions[i] = [id |-> c, type |-> "Cancel"]}
    /\ decisions' = <<>>
    /\ phase' = "Idle"
    /\ UNCHANGED <<client, cursor, panic, starts, cancelRequested>>

StartDecisionTask ==
    /\ phase = "Idle"
    /\ history # <<>>
    /\ history' = Append(history, [type |-> "DecisionTaskStarted", id |-> "None"])
    /\ phase' = "Events"
    /\ UNCHANGED <<client, cursor, decisions, panic, starts, buffered, server, acks, cancelRequested>>

Record(e) ==
    IF phase = "Idle"
    THEN history' = Append(history, e) /\ UNCHANGED buffered
    ELSE buffered' = Append(buffered, e) /\ UNCHANGED history

ServerStep(id, type, s) ==
    /\ panic = NoPanic
    /\ Record([type |-> type, id |-> id])
    /\ server' = [server EXCEPT ![id] = s]
    /\ UNCHANGED <<client, phase, cursor, decisions, panic, starts, cancelRequested>>

\* Completed, failed, timed out, terminated, fired, signaled or requested.
Closes(id) ==
    /\ server[id] \in {"Open", "CancelRequested"}
    /\ ServerStep(id, "Completion", "Closed")
    /\ UNCHANGED acks

\* An activity is canceled only on request; anyone may cancel a child.
ClosesCanceled(id) ==
    /\ \/ id \in Activities /\ server[id] = "CancelRequested"
       \/ id \in Children /\ server[id] \in {"Open", "CancelRequested"}
    /\ ServerStep(id, "Canceled", "Closed")
    /\ UNCHANGED acks

\* The service works on the requests of one workflow in their order.
ChildStarts(id) ==
    /\ id \in Children \ acks /\ server[id] = "Initiated"
    /\ ServerStep(id, "Started", "Open")
    /\ UNCHANGED acks

ChildStartFails(id) ==
    /\ id \in Children \ acks /\ server[id] = "Initiated"
    /\ ServerStep(id, "InitiationFailed", "Closed")
    /\ UNCHANGED acks

\* The answer to a child's cancellation request.
AnswersCancelRequest(id) ==
    /\ id \in acks
    /\ acks' = acks \ {id}
    /\ IF server[id] = "Open"
       THEN ServerStep(id, "CancelRequested", "CancelRequested")
       ELSE ServerStep(id, "CancelFailed", server[id])

\* Someone asks for the cancellation of the workflow, once.
RequestCancelWorkflow ==
    /\ panic = NoPanic
    /\ ~cancelRequested
    /\ cancelRequested' = TRUE
    /\ Record([type |-> "WorkflowExecutionCancelRequested", id |-> "None"])
    /\ UNCHANGED <<client, phase, cursor, decisions, panic, starts, server, acks>>

-----------------------------------------------------------------------------
WorkflowCode ==
    \/ \E id \in Activities \cup Timers, b \in BOOLEAN : ExecuteActivityOrTimer(id, b)
    \/ \E id \in Children, b \in BOOLEAN : ExecuteChildWorkflow(id, b)
    \/ \E id \in Cancellations \cup Signals \cup Markers : AddNaiveDecision(id)
    \/ \E id \in Cancelable : CancelContext(id)

\* The steps the worker takes by itself while it holds a decision task.
Worker ==
    \/ WorkflowBlocks
    \/ getDecisions
    \/ ProcessEvent
    \/ handleWorkflowExecutionCancelRequested
    \/ \E id \in Cancelable : CloseDoneChannel(id)
    \/ OnDecisionTaskStarted

Service ==
    \/ RespondDecisionTaskCompleted
    \/ StartDecisionTask
    \/ \E id \in Cancelable \cup Cancellations \cup Signals : Closes(id)
    \/ \E id \in Activities \cup Children : ClosesCanceled(id)
    \/ \E id \in Children : ChildStarts(id) \/ ChildStartFails(id) \/ AnswersCancelRequest(id)
    \/ RequestCancelWorkflow

Next == WorkflowCode \/ Worker \/ Service

Spec == Init /\ [][Next]_vars

\* The worker works on a task it holds, and the service sends decision tasks: one
\* or the other goes on.  It starts child workflows.  Nothing is assumed of
\* activities, timers, children.
FairSpec ==
    /\ Spec
    /\ WF_vars(Worker \/ RespondDecisionTaskCompleted \/ StartDecisionTask)
    /\ \A id \in Children : WF_vars(ChildStarts(id) \/ ChildStartFails(id))

-----------------------------------------------------------------------------
(* Properties.                                                             *)

\* The list orderedDecisions and the map decisions hold the same machines, each
\* once: no decision is lost from a response and none is sent twice.
OrderMatchesMap ==
    /\ \A i, j \in 1..Len(order) : order[i] = order[j] => i = j
    /\ {order[i] : i \in 1..Len(order)} = {id \in Ids : inMap(machine[id])}

\* A panic of a state machine on a history that the service can produce, with
\* workflow code that makes no error, concerns a child workflow whose
\* cancellation crosses its end; activities, timers, signals, external
\* cancellations and markers never panic, whatever the interleaving.
PanicsOnlyOnChildCancellation ==
    panic # NoPanic =>
        /\ panic.id \in Children
        /\ \/ panic.op = "Canceled" /\ panic.from = "CanceledAfterStarted"
           \/ panic.op \in {"CancelFailed", "CancelRequested"} /\ panic.from = "Completed"
           \/ panic.op = "CancelFailed" /\ starts[panic.id] > 1
           \/ panic.op = "Add" /\ panic.from = "CompletedAfterCancellationDecisionSent"

\* Canceling a context never panics: its callback runs only while the future is
\* pending, and then the machine is in a state that cancel() accepts.
CancelNeverPanics == panic.op # "Cancel"

EventsAbout(id) ==
    {i \in DOMAIN history : history[i].id = id} \cup {i \in DOMAIN buffered : buffered[i].id = id}

\* Once every event about a call was processed and the decision task is over,
\* the machine says what the service says: nothing that is open was given up,
\* and what has ended has resolved its future.
AgreesWithService ==
    \A id \in Ids :
        (phase = "Idle" /\ panic = NoPanic /\ EventsAbout(id) = {} /\ id \notin acks) =>
            /\ server[id] = "None" => machine[id] \in {"None", "Completed"}
            /\ server[id] = "Initiated" => machine[id] = "Initiated"
            /\ server[id] = "Open" =>
                  machine[id] = IF id \in Children THEN "Started" ELSE "Initiated"
            /\ server[id] = "CancelRequested" => machine[id] = "CancellationDecisionSent"
            /\ server[id] = "Closed" =>
                  /\ isDone(machine[id])
                  /\ future[id] = "Ready"
            /\ future[id] = "Pending" => server[id] \notin {"None", "Closed"}

\* A cancellation requested before the child workflow started is not lost: the
\* started callback sends it, unless the child ends first.
DelayedCancelIsSent ==
    \A id \in Children :
        (id \in async \ running /\ future[id] = "Pending")
            ~> (id \in acks \/ future[id] = "Ready" \/ panic # NoPanic)

\* failStateTransition: the history is well formed and the workflow code is
\* deterministic, so no state transition is illegal.
NoIllegalTransition == panic.op # "Canceled"

\* getDecision: workflow code that did not change knows every decision that an
\* event is about.
NoUnknownDecision == panic # NoPanic => panic.from # "Completed"

\* WorkflowIDReusePolicyAllowDuplicate: a child workflow may be started with the
\* ID of one that is not running.
ChildIdCanBeReused == panic.op # "Add"

\* ChildWorkflowOptions.WaitForCancellation: without it the future of a running
\* child does not wait for the canceled child to end.
CanceledChildDoesNotWait ==
    \A id \in (Children \cap canceled \cap running) \ WaitForCancellation :
        id \notin closing => future[id] = "Ready"
=============================================================================
