------------------------ MODULE DecisionStateMachine ------------------------
(***************************************************************************)
(* The decision state machines of internal_decision_state_machine.go: one  *)
(* operator per event method, giving the state that a machine of kind k    *)
(* moves to from state s, or Illegal where the method panics.  A Go method *)
(* that a kind does not override is the one of decisionStateMachineBase;   *)
(* the naive machines (Cancellation, Signal, Marker, and the search        *)
(* attribute upserts, which behave as markers) panic on every event they   *)
(* do not define.  The operators are constant level: module Decisions      *)
(* keeps the machines.                                                     *)
(***************************************************************************)

CancelableKinds == {"Activity", "Timer", "ChildWorkflow"}

ExternalKinds == {"Cancellation", "Signal"}

States == {"Created", "DecisionSent", "CanceledBeforeInitiated", "Initiated",
           "Started", "CanceledAfterInitiated", "CanceledAfterStarted",
           "CancellationDecisionSent", "CompletedAfterCancellationDecisionSent",
           "Completed"}

\* failStateTransition, and the "unsupported operation" of the naive machines.
Illegal == "Illegal"

isDone(s) == s \in {"Completed", "CompletedAfterCancellationDecisionSent"}

\* The decision a machine contributes to the response of a decision task.
getDecision(k, s) ==
    CASE s = "Created" -> "Start"
      [] k \in {"Activity", "Timer"} /\ s = "CanceledAfterInitiated" -> "Cancel"
      [] k = "ChildWorkflow" /\ s = "CanceledAfterStarted" -> "Cancel"
      [] OTHER -> "Nil"

handleDecisionSent(k, s) ==
    CASE s = "Created" -> IF k = "Marker" THEN "Completed" ELSE "DecisionSent"
      [] k \in {"Activity", "Timer"} /\ s = "CanceledAfterInitiated" ->
            "CancellationDecisionSent"
      [] k = "ChildWorkflow" /\ s = "CanceledAfterStarted" ->
            "CancellationDecisionSent"
      [] OTHER -> s

cancel(k, s) ==
    IF k \notin CancelableKinds THEN Illegal ELSE
    CASE k = "ChildWorkflow" /\ s = "Started" -> "CanceledAfterStarted"
      [] isDone(s) -> s
      [] s = "Created" -> "Completed"
      [] s = "DecisionSent" -> "CanceledBeforeInitiated"
      [] s = "Initiated" -> "CanceledAfterInitiated"
      [] OTHER -> Illegal

handleInitiatedEvent(k, s) ==
    CASE k # "Marker" /\ s = "DecisionSent" -> "Initiated"
      [] k \in CancelableKinds /\ s = "CanceledBeforeInitiated" ->
            "CanceledAfterInitiated"
      [] OTHER -> Illegal

handleInitiationFailedEvent(k, s) ==
    IF /\ k \in CancelableKinds
       /\ s \in {"Initiated", "DecisionSent", "CanceledBeforeInitiated"}
    THEN "Completed"
    ELSE Illegal

\* For the other kinds only the machine's event trace records the event.
handleStartedEvent(k, s) ==
    CASE k \notin CancelableKinds -> Illegal
      [] k = "ChildWorkflow" /\ s = "Initiated" -> "Started"
      [] k = "ChildWorkflow" /\ s = "CanceledAfterInitiated" ->
            "CanceledAfterStarted"
      [] OTHER -> s

handleCompletionEvent(k, s) ==
    CASE k # "Marker" /\ s = "Initiated" -> "Completed"
      [] k \in CancelableKinds /\ s = "CanceledAfterInitiated" -> "Completed"
      [] k \in CancelableKinds /\ s = "CancellationDecisionSent" ->
            "CompletedAfterCancellationDecisionSent"
      [] k = "ChildWorkflow" /\ s \in {"Started", "CanceledAfterStarted"} ->
            "Completed"
      [] OTHER -> Illegal

handleCancelInitiatedEvent(k, s) ==
    IF k \in CancelableKinds /\ s = "CancellationDecisionSent" THEN s ELSE Illegal

handleCancelFailedEvent(k, s) ==
    CASE k \in {"Activity", "Timer"} /\ s = "CancellationDecisionSent" ->
            "Initiated"
      [] k = "ChildWorkflow" /\ s = "CancellationDecisionSent" -> "Started"
      [] k \in CancelableKinds /\ s = "CompletedAfterCancellationDecisionSent" ->
            "Completed"
      [] OTHER -> Illegal

handleCanceledEvent(k, s) ==
    CASE k \in CancelableKinds /\ s = "CancellationDecisionSent" -> "Completed"
      [] k = "ChildWorkflow" /\ s = "Started" -> "Completed"
      [] OTHER -> Illegal
=============================================================================
