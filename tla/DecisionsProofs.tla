-------------------------- MODULE DecisionsProofs --------------------------
(***************************************************************************)
(* Proofs about module Decisions, for any number of calls of any kind: the *)
(* types, the agreement of the list with the map, and that canceling a     *)
(* context never panics.                                                   *)
(***************************************************************************)
EXTENDS Decisions, TLAPS

USE SMTT(40)

Distinct(s) == \A i, j \in 1..Len(s) : s[i] = s[j] => i = j

Elements(s) == {s[i] : i \in 1..Len(s)}

\* The elements of a list.
LEMMA ElementType ==
    ASSUME NEW S, NEW s \in Seq(S)
    PROVE  \A i \in 1..Len(s) : s[i] \in S
OBVIOUS

\* The part of a list before index i.
LEMMA FrontPart ==
    ASSUME NEW S, NEW s \in Seq(S), NEW i \in 1..Len(s)
    PROVE  /\ SubSeq(s, 1, i - 1) \in Seq(S)
           /\ Len(SubSeq(s, 1, i - 1)) = i - 1
           /\ \A k \in 1..(i - 1) : SubSeq(s, 1, i - 1)[k] = s[k]
OBVIOUS

\* The part of a list after index i.
LEMMA BackPart ==
    ASSUME NEW S, NEW s \in Seq(S), NEW i \in 1..Len(s)
    PROVE  /\ SubSeq(s, i + 1, Len(s)) \in Seq(S)
           /\ Len(SubSeq(s, i + 1, Len(s))) = Len(s) - i
           /\ \A k \in 1..(Len(s) - i) : SubSeq(s, i + 1, Len(s))[k] = s[i + k]
OBVIOUS

\* Taking the i-th element out of a list.
LEMMA RemoveAtIndices ==
    ASSUME NEW S, NEW s \in Seq(S), NEW i \in 1..Len(s)
    PROVE  /\ removeAt(s, i) \in Seq(S)
           /\ Len(removeAt(s, i)) = Len(s) - 1
           /\ \A k \in 1..(Len(s) - 1) :
                 removeAt(s, i)[k] = IF k < i THEN s[k] ELSE s[k + 1]
<1>1. SubSeq(s, 1, i - 1) \in Seq(S) /\ SubSeq(s, i + 1, Len(s)) \in Seq(S)
  BY FrontPart, BackPart
<1>2. PICK u \in Seq(S) : u = SubSeq(s, 1, i - 1)
  BY <1>1, ZenonT(40)
<1>3. PICK v \in Seq(S) : v = SubSeq(s, i + 1, Len(s))
  BY <1>1, ZenonT(40)
<1>4. Len(u) = i - 1 /\ \A k \in 1..(i - 1) : u[k] = s[k]
  BY <1>2, FrontPart, ZenonT(40)
<1>5. Len(v) = Len(s) - i /\ \A k \in 1..(Len(s) - i) : v[k] = s[i + k]
  BY <1>3, BackPart, ZenonT(40)
<1>6. u \o v \in Seq(S) /\ Len(u \o v) = Len(s) - 1
  <2>1. Len(u) = i - 1 /\ Len(v) = Len(s) - i
    BY <1>4, <1>5, ZenonT(40)
  <2>2. u \o v \in Seq(S)
    OBVIOUS
  <2>3. Len(u \o v) = Len(u) + Len(v)
    OBVIOUS
  <2>4. Len(s) \in Nat /\ i \in Int
    OBVIOUS
  <2> QED BY <2>1, <2>2, <2>3, <2>4
<1>7. ASSUME NEW k \in 1..(Len(s) - 1)
      PROVE  (u \o v)[k] = IF k < i THEN s[k] ELSE s[k + 1]
  BY <1>4, <1>5
<1>8. removeAt(s, i) = u \o v
  BY <1>2, <1>3, ZenonT(40) DEF removeAt
<1> QED BY <1>6, <1>7, <1>8, ZenonT(40)

\* Taking one element out of a list without duplicates, as the list removals of
\* decisionsHelper do, leaves the other elements, each once.
LEMMA RemoveAtProperties ==
    ASSUME NEW S, NEW s \in Seq(S), NEW i \in 1..Len(s)
    PROVE  /\ removeAt(s, i) \in Seq(S)
           /\ Distinct(s) => /\ Distinct(removeAt(s, i))
                             /\ Elements(removeAt(s, i)) = Elements(s) \ {s[i]}
<1>0. PICK t \in Seq(S) : t = removeAt(s, i)
  BY RemoveAtIndices, ZenonT(40)
<1>1. /\ Len(t) = Len(s) - 1
      /\ \A k \in 1..(Len(s) - 1) : t[k] = IF k < i THEN s[k] ELSE s[k + 1]
  BY <1>0, RemoveAtIndices, ZenonT(40)
<1>2. ASSUME Distinct(s) PROVE Distinct(t)
  BY <1>1, <1>2 DEF Distinct
<1>3. ASSUME Distinct(s) PROVE Elements(t) = Elements(s) \ {s[i]}
  <2>1. ASSUME NEW k \in 1..Len(t) PROVE t[k] \in Elements(s) \ {s[i]}
    BY <1>1, <1>3 DEF Distinct, Elements
  <2>2. ASSUME NEW k \in 1..Len(s), k # i PROVE s[k] \in Elements(t)
    <3>1. CASE k < i
      BY <1>1, <3>1 DEF Elements
    <3>2. CASE k > i
      <4>1. k - 1 \in 1..Len(t) /\ t[k - 1] = s[k]
        BY <1>1, <3>2
      <4> QED BY <4>1 DEF Elements
    <3> QED BY <2>2, <3>1, <3>2
  <2> QED BY <2>1, <2>2, ZenonT(40) DEF Elements
<1> QED BY <1>0, <1>2, <1>3, ZenonT(40)

\* The same for the removal of an element by its value.
LEMMA WithoutProperties ==
    ASSUME NEW S, NEW s \in Seq(S), NEW x
    PROVE  /\ without(s, x) \in Seq(S)
           /\ Distinct(s) => /\ Distinct(without(s, x))
                             /\ Elements(without(s, x)) = Elements(s) \ {x}
<1>1. CASE \E i \in 1..Len(s) : s[i] = x
  <2> DEFINE i == CHOOSE k \in 1..Len(s) : s[k] = x
  <2>1. i \in 1..Len(s) /\ s[i] = x
    BY <1>1
  <2>2. without(s, x) = removeAt(s, i)
    BY <1>1 DEF without
  <2> HIDE DEF i
  <2> QED BY <2>1, <2>2, RemoveAtProperties
<1>2. CASE ~ \E i \in 1..Len(s) : s[i] = x
  BY <1>2 DEF without, Elements
<1> QED BY <1>1, <1>2, ZenonT(40)

\* PushBack of an element that the list does not hold.
LEMMA AppendProperties2 ==
    ASSUME NEW S, NEW s \in Seq(S), NEW x \in S
    PROVE  /\ Append(s, x) \in Seq(S)
           /\ Elements(Append(s, x)) = Elements(s) \cup {x}
           /\ Distinct(s) /\ x \notin Elements(s) => Distinct(Append(s, x))
<1> DEFINE t == Append(s, x)
<1>1. /\ t \in Seq(S) /\ Len(t) = Len(s) + 1 /\ t[Len(s) + 1] = x
      /\ \A k \in 1..Len(s) : t[k] = s[k]
  OBVIOUS
<1>2. Elements(t) = Elements(s) \cup {x}
  <2>1. ASSUME NEW k \in 1..Len(t) PROVE t[k] \in Elements(s) \cup {x}
    BY <1>1 DEF Elements
  <2>2. ASSUME NEW k \in 1..Len(s) PROVE s[k] \in Elements(t)
    BY <1>1 DEF Elements
  <2>3. x \in Elements(t)
    BY <1>1 DEF Elements
  <2> QED BY <2>1, <2>2, <2>3 DEF Elements
<1>3. ASSUME Distinct(s), x \notin Elements(s) PROVE Distinct(t)
  BY <1>1, <1>3 DEF Distinct, Elements
<1> QED BY <1>1, <1>2, <1>3

-----------------------------------------------------------------------------
(* The inductive invariant.                                                *)

\* The states in which cancel() accepts a machine that was not canceled yet.
CancelableIn(id) == {"Created", "DecisionSent", "Initiated"}
                      \cup (IF id \in Children THEN {"Started"} ELSE {})

\* What makes a cancellation callback safe.  The callbacks still to be called by
\* Close are those of pending calls, and a pending call whose callback has not
\* run is in a state that cancel() accepts.  A call not made yet has no machine.
CallbacksSafe ==
    /\ phase # "Events" => closing = {}
    /\ closing \subseteq canceled
    /\ async \subseteq canceled
    /\ async \cap closing = {}
    /\ \A id \in closing : future[id] = "Pending"
    /\ \A id \in Ids : future[id] = "None" => machine[id] = "None"
    /\ \A id \in Cancelable :
          (future[id] = "Pending" /\ (id \notin canceled \/ id \in closing))
              => machine[id] \in CancelableIn(id)

IInv == TypeOK /\ OrderMatchesMap /\ CallbacksSafe /\ CancelNeverPanics

MethodStates == States \cup {Illegal}

\* An event for a machine that the map does not hold panics.
LEMMA IllegalStays == ASSUME NEW type, NEW k PROVE eventMethod(type, k, Illegal) = Illegal
BY DEF eventMethod, Illegal, handleInitiatedEvent, handleInitiationFailedEvent,
       handleCompletionEvent, handleCancelInitiatedEvent, handleCancelFailedEvent,
       handleCanceledEvent

\* Every event method leaves a machine that the map holds in a state or panics.
LEMMA MethodTypes ==
    ASSUME NEW k, NEW s \in MethodStates
    PROVE  /\ cancel(k, s) \in MethodStates
           /\ handleStartedEvent(k, s) \in MethodStates
           /\ \A type \in EventTypes : eventMethod(type, k, s) \in MethodStates
           /\ s \in States => handleDecisionSent(k, s) \in States
           /\ getDecision(k, s) \in {"Start", "Cancel", "Nil"}
  BY DEF MethodStates, States, Illegal, cancel, handleStartedEvent, eventMethod, EventTypes,
         handleDecisionSent, getDecision, handleInitiatedEvent, handleInitiationFailedEvent,
         handleCompletionEvent, handleCancelInitiatedEvent, handleCancelFailedEvent,
         handleCanceledEvent, isDone, CancelableKinds

\* lookup gives the state of a machine in the map or panics.
LEMMA LookupType ==
    ASSUME TypeOK, NEW id \in Ids
    PROVE  lookup(id) \in MethodStates
  BY DEF TypeOK, lookup, MethodStates, inMap

\* Move keeps the list and the map in agreement, whatever the new state is.
LEMMA MovePreserves ==
    ASSUME TypeOK, OrderMatchesMap, NEW id \in Ids,
           NEW op \in EventTypes \cup {"Add", "Cancel"}, NEW s \in MethodStates,
           Move(id, op, s)
    PROVE  /\ machine' \in [Ids -> States \cup {"None"}]
           /\ order' \in Seq(Ids)
           /\ panic' = panic \/ panic' \in [id : Ids, op : EventTypes \cup {"Add", "Cancel"},
                                            from : States \cup {"None"}]
           /\ OrderMatchesMap'
<1>1. CASE s = Illegal
  BY <1>1 DEF Move, TypeOK, OrderMatchesMap, inMap
<1>2. CASE s # Illegal
  <2>1. /\ s \in States /\ machine' = [machine EXCEPT ![id] = s] /\ panic' = panic
        /\ order' = IF inMap(s) THEN Append(without(order, id), id) ELSE without(order, id)
    BY <1>2, ZenonT(40) DEF Move, MethodStates
  <2>2. /\ Distinct(order) /\ Elements(order) = {x \in Ids : inMap(machine[x])}
        /\ order \in Seq(Ids)
    BY ZenonT(40) DEF OrderMatchesMap, Distinct, Elements, TypeOK
  <2>3. /\ without(order, id) \in Seq(Ids)
        /\ Distinct(without(order, id))
        /\ Elements(without(order, id)) = Elements(order) \ {id}
    BY <2>2, WithoutProperties
  <2>4. CASE inMap(s)
    <3>1. /\ order' \in Seq(Ids)
          /\ Distinct(order')
          /\ Elements(order') = (Elements(order) \ {id}) \cup {id}
      BY <2>1, <2>3, <2>4, AppendProperties2
    <3>2. Elements(order') = {x \in Ids : inMap(machine'[x])}
      BY <2>1, <2>2, <2>4, <3>1 DEF TypeOK
    <3> QED BY <2>1, <3>1, <3>2, ZenonT(40) DEF OrderMatchesMap, Distinct, Elements, TypeOK
  <2>5. CASE ~inMap(s)
    <3>1. Elements(order') = {x \in Ids : inMap(machine'[x])}
      BY <2>1, <2>2, <2>3, <2>5, ZenonT(40) DEF TypeOK
    <3> QED BY <2>1, <2>3, <2>5, <3>1, ZenonT(40) DEF OrderMatchesMap, Distinct, Elements, TypeOK
  <2> QED BY <2>4, <2>5, ZenonT(40)
<1> QED BY <1>1, <1>2, ZenonT(40)

\* addDecision of a machine that the map does not hold.
LEMMA AddPreserves ==
    ASSUME TypeOK, OrderMatchesMap, NEW id \in Ids, ~inMap(machine[id]),
           machine' = [machine EXCEPT ![id] = "Created"],
           order' = Append(order, id)
    PROVE  /\ machine' \in [Ids -> States \cup {"None"}]
           /\ order' \in Seq(Ids)
           /\ OrderMatchesMap'
<1>1. /\ Distinct(order) /\ Elements(order) = {x \in Ids : inMap(machine[x])}
      /\ order \in Seq(Ids)
  BY ZenonT(40) DEF OrderMatchesMap, Distinct, Elements, TypeOK
<1>2. /\ order' \in Seq(Ids)
      /\ Distinct(order')
      /\ Elements(order') = Elements(order) \cup {id}
  BY <1>1, AppendProperties2
<1>3. machine' \in [Ids -> States \cup {"None"}]
  BY ZenonT(40) DEF TypeOK, States
<1>4. Elements(order') = {x \in Ids : inMap(machine'[x])}
  BY <1>1, <1>2 DEF TypeOK, inMap
<1> QED BY <1>2, <1>3, <1>4, ZenonT(40) DEF OrderMatchesMap, Distinct, Elements

\* The callback of a pending call that was not canceled before cannot panic, and
\* what it changes keeps its type.
LEMMA CallbackPreserves ==
    ASSUME IInv, NEW id \in Cancelable, future[id] = "Pending",
           id \notin canceled \/ id \in closing, cancellationCallback(id)
    PROVE  /\ machine' \in [Ids -> States \cup {"None"}]
           /\ order' \in Seq(Ids)
           /\ OrderMatchesMap'
           /\ panic' = panic
           /\ future' \in [Ids -> {"None", "Pending", "Ready"}]
           /\ async' \in {async, async \cup {id}}
           /\ async' \subseteq Children
           /\ \A x \in Ids \ {id} : machine'[x] = machine[x] /\ future'[x] = future[x]
<1>1. /\ id \in Ids /\ machine[id] \in CancelableIn(id) /\ TypeOK /\ OrderMatchesMap
      /\ lookup(id) = machine[id]
  BY ZenonT(40) DEF IInv, CallbacksSafe, Cancelable, Ids, lookup, inMap, CancelableIn
<1>2. \A k \in CancelableKinds :
         (id \notin Children \/ k = "ChildWorkflow") =>
             cancel(k, machine[id]) \in States
  BY <1>1 DEF CancelableIn, cancel, CancelableKinds, States, isDone
<1>3. ASSUME NEW s \in States, Move(id, "Cancel", s)
      PROVE  /\ machine' \in [Ids -> States \cup {"None"}]
             /\ order' \in Seq(Ids)
             /\ OrderMatchesMap'
             /\ panic' = panic
             /\ \A x \in Ids \ {id} : machine'[x] = machine[x]
  <2>1. s # Illegal /\ s \in MethodStates
    BY DEF States, Illegal, MethodStates
  <2>2. panic' = panic /\ machine' = [machine EXCEPT ![id] = s]
    BY <1>3, <2>1, ZenonT(40) DEF Move
  <2>3. /\ machine' \in [Ids -> States \cup {"None"}]
        /\ order' \in Seq(Ids)
        /\ OrderMatchesMap'
    BY <1>1, <1>3, <2>1, MovePreserves, ZenonT(40)
  <2> QED BY <2>2, <2>3, <1>1 DEF TypeOK
<1>4. CASE id \in Activities
  <2>1. RequestCancelActivity(id) /\ id \notin Children
    BY <1>4, KindsDisjoint DEF cancellationCallback
  <2>2. Move(id, "Cancel", cancel("Activity", machine[id]))
    BY <1>1, <2>1 DEF RequestCancelActivity
  <2>3. cancel("Activity", machine[id]) \in States
    BY <1>2, <2>1 DEF CancelableKinds
  <2> QED BY <1>1, <1>3, <2>1, <2>2, <2>3 DEF RequestCancelActivity, TypeOK
<1>5. CASE id \in Timers
  <2>1. RequestCancelTimer(id) /\ id \notin Children
    BY <1>5, KindsDisjoint DEF cancellationCallback
  <2>2. Move(id, "Cancel", cancel("Timer", machine[id]))
    BY <1>1, <2>1 DEF RequestCancelTimer
  <2>3. cancel("Timer", machine[id]) \in States
    BY <1>2, <2>1 DEF CancelableKinds
  <2> QED BY <1>1, <1>3, <2>1, <2>2, <2>3 DEF RequestCancelTimer, TypeOK
<1>6. CASE id \in Children
  <2>1. RequestCancelChildWorkflow(id)
    BY <1>6, KindsDisjoint DEF cancellationCallback
  <2>2. CASE id \in running
    <3>1. /\ Move(id, "Cancel", cancel("ChildWorkflow", machine[id]))
          /\ UNCHANGED <<future, async>>
      BY <1>1, <2>1, <2>2 DEF RequestCancelChildWorkflow
    <3>2. cancel("ChildWorkflow", machine[id]) \in States
      BY <1>2 DEF CancelableKinds
    <3> QED BY <1>1, <1>3, <3>1, <3>2, ZenonT(40) DEF TypeOK
  <2>3. CASE id \notin running
    BY <1>1, <1>6, <2>1, <2>3 DEF RequestCancelChildWorkflow, TypeOK, OrderMatchesMap
  <2> QED BY <2>2, <2>3, ZenonT(40)
<1> QED BY <1>4, <1>5, <1>6, ZenonT(40) DEF Cancelable

\* The initial state satisfies the invariant.
LEMMA InitIInv == Init => IInv
<1> SUFFICES ASSUME Init PROVE IInv
  OBVIOUS
<1>1. TypeOK
  <2>1. /\ order \in Seq(Ids) /\ history \in Seq(Events) /\ buffered \in Seq(Events)
        /\ decisions \in Seq([id : Ids, type : {"Start", "Cancel"}])
    BY DEF Init
  <2>2. panic = NoPanic /\ phase \in Phases /\ cursor \in Nat \ {0}
    BY DEF Init, Phases
  <2> QED BY <2>1, <2>2, ZenonT(40) DEF Init, TypeOK
<1>2. OrderMatchesMap
  BY DEF Init, OrderMatchesMap, inMap
<1>3. CallbacksSafe /\ CancelNeverPanics
  BY ZenonT(40) DEF Init, CallbacksSafe, CancelNeverPanics, NoPanic, Cancelable, Ids
<1> QED BY <1>1, <1>2, <1>3 DEF IInv

\* The workflow code's calls and cancellations preserve the invariant.
LEMMA WorkflowCodeIInv == IInv /\ WorkflowCode => IInv'
<1> SUFFICES ASSUME IInv, WorkflowCode PROVE IInv'
  OBVIOUS
<1>1. ASSUME NEW id \in Activities \cup Timers, NEW b \in BOOLEAN, ExecuteActivityOrTimer(id, b)
      PROVE  IInv'
  <2>1. /\ id \in Ids /\ id \in Cancelable /\ id \notin Children
        /\ kind(id) \in {"Activity", "Timer"}
    BY KindsDisjoint DEF Ids, Cancelable, kind
  <2>2. cancel(kind(id), "Created") = "Completed"
    BY <2>1 DEF cancel, CancelableKinds, isDone
  <2>3. /\ future' = [future EXCEPT ![id] = IF b THEN "Ready" ELSE "Pending"]
        /\ canceled' = IF b THEN canceled \cup {id} ELSE canceled
        /\ future[id] = "None" /\ phase = "Workflow"
        /\ UNCHANGED <<running, async, closing, phase, cursor, decisions, panic, starts,
                       history, buffered, server, acks, cancelRequested>>
    BY <1>1, ZenonT(40) DEF ExecuteActivityOrTimer, WorkflowRuns, service
  <2>4. machine[id] = "None" /\ ~inMap(machine[id])
    BY <2>1, <2>3, ZenonT(40) DEF IInv, CallbacksSafe, inMap
  <2>5. machine' = [machine EXCEPT ![id] = IF b THEN "Completed" ELSE "Created"]
    BY <1>1, <2>2, ZenonT(40) DEF ExecuteActivityOrTimer
  <2>6. /\ machine' \in [Ids -> States \cup {"None"}]
        /\ order' \in Seq(Ids)
        /\ OrderMatchesMap'
    <3>1. CASE b
      <4>1. order' = order
        BY <1>1, <2>2, <3>1, ZenonT(40) DEF ExecuteActivityOrTimer, inMap
      <4>2. machine' \in [Ids -> States \cup {"None"}]
        BY <2>5, ZenonT(40) DEF IInv, TypeOK, States
      <4>3. {x \in Ids : inMap(machine'[x])} = {x \in Ids : inMap(machine[x])}
        BY <2>4, <2>5, <3>1, ZenonT(40) DEF IInv, TypeOK, inMap
      <4>4. order' \in Seq(Ids)
        BY <4>1, ZenonT(40) DEF IInv, TypeOK
      <4>5. OrderMatchesMap'
        BY <4>1, <4>3 DEF IInv, OrderMatchesMap
      <4> QED BY <4>2, <4>4, <4>5
    <3>2. CASE ~b
      <4>1. order' = Append(order, id)
        BY <1>1, <3>2, ZenonT(40) DEF ExecuteActivityOrTimer, inMap
      <4> QED BY <2>1, <2>4, <2>5, <3>2, <4>1, AddPreserves, ZenonT(40) DEF IInv
    <3> QED BY <3>1, <3>2
  <2>7. TypeOK'
    BY <2>1, <2>3, <2>6, ZenonT(40) DEF IInv, TypeOK
  <2>8. CallbacksSafe'
    BY <2>1, <2>3, <2>5, ZenonT(40) DEF IInv, TypeOK, CallbacksSafe, CancelableIn, Cancelable, Ids
  <2> QED BY <2>3, <2>6, <2>7, <2>8 DEF IInv, CancelNeverPanics
<1>2. ASSUME NEW id \in Children, NEW b \in BOOLEAN, ExecuteChildWorkflow(id, b)
      PROVE  IInv'
  <2>1. id \in Ids /\ id \in Cancelable
    BY DEF Ids, Cancelable
  <2>2. /\ future[id] # "Pending" /\ phase = "Workflow" /\ closing = {}
        /\ starts' \in [Children -> Nat]
        /\ running' = running \ {id} /\ async' = async \ {id}
        /\ canceled' = IF b THEN canceled \cup {id} ELSE canceled \ {id}
        /\ UNCHANGED <<closing, phase, cursor, decisions, history, buffered, server, acks,
                       cancelRequested>>
    BY <1>2 DEF ExecuteChildWorkflow, WorkflowRuns, service, IInv, TypeOK, CallbacksSafe
  <2>3. CASE b
    <3>1. future' = [future EXCEPT ![id] = "Ready"] /\ UNCHANGED <<machine, order, panic>>
      BY <1>2, <2>3, ZenonT(40) DEF ExecuteChildWorkflow
    <3>2. TypeOK' /\ OrderMatchesMap'
      <4>1. TypeOK'
        BY <2>1, <2>2, <3>1 DEF IInv, TypeOK
      <4>2. OrderMatchesMap'
        BY <3>1 DEF IInv, OrderMatchesMap
      <4> QED BY <4>1, <4>2
    <3>3. CallbacksSafe'
      BY <2>1, <2>2, <2>3, <3>1 DEF IInv, TypeOK, CallbacksSafe, CancelableIn
    <3> QED BY <3>1, <3>2, <3>3 DEF IInv, CancelNeverPanics
  <2>4. CASE ~b /\ inMap(machine[id])
    <3>1. /\ panic' = [id |-> id, op |-> "Add", from |-> machine[id]]
          /\ UNCHANGED <<machine, order, future>>
      BY <1>2, <2>4, ZenonT(40) DEF ExecuteChildWorkflow
    <3>2. TypeOK' /\ OrderMatchesMap'
      <4>1. TypeOK'
        BY <2>1, <2>2, <3>1, ZenonT(40) DEF IInv, TypeOK
      <4>2. OrderMatchesMap'
        BY <3>1 DEF IInv, OrderMatchesMap
      <4> QED BY <4>1, <4>2
    <3>3. CallbacksSafe'
      BY <2>1, <2>2, <2>4, <3>1 DEF IInv, TypeOK, CallbacksSafe, CancelableIn
    <3> QED BY <3>1, <3>2, <3>3 DEF IInv, CancelNeverPanics
  <2>5. CASE ~b /\ ~inMap(machine[id])
    <3>1. /\ machine' = [machine EXCEPT ![id] = "Created"]
          /\ order' = Append(order, id)
          /\ future' = [future EXCEPT ![id] = "Pending"]
          /\ UNCHANGED panic
      BY <1>2, <2>5, ZenonT(40) DEF ExecuteChildWorkflow
    <3>2. /\ machine' \in [Ids -> States \cup {"None"}]
          /\ order' \in Seq(Ids)
          /\ OrderMatchesMap'
      BY <2>1, <2>5, <3>1, AddPreserves, ZenonT(40) DEF IInv
    <3>3. TypeOK'
      BY <2>1, <2>2, <3>1, <3>2 DEF IInv, TypeOK
    <3>4. CallbacksSafe'
      BY <2>1, <2>2, <2>5, <3>1 DEF IInv, TypeOK, CallbacksSafe, CancelableIn, Cancelable, Ids
    <3> QED BY <3>1, <3>2, <3>3, <3>4 DEF IInv, CancelNeverPanics
  <2> QED BY <2>3, <2>4, <2>5
<1>3. ASSUME NEW id \in Cancellations \cup Signals \cup Markers, AddNaiveDecision(id)
      PROVE  IInv'
  <2>1. id \in Ids /\ id \notin Cancelable
    BY KindsDisjoint DEF Ids, Cancelable
  <2>2. /\ future[id] = "None"
        /\ machine' = [machine EXCEPT ![id] = "Created"]
        /\ order' = Append(order, id)
        /\ future' = [future EXCEPT ![id] = IF id \in Markers THEN "Ready" ELSE "Pending"]
        /\ UNCHANGED <<running, async, canceled, closing, phase, cursor, decisions, panic,
                       starts, history, buffered, server, acks, cancelRequested>>
    BY <1>3, ZenonT(40) DEF AddNaiveDecision, service
  <2>3. ~inMap(machine[id])
    BY <2>1, <2>2, ZenonT(40) DEF IInv, CallbacksSafe, inMap
  <2>4. /\ machine' \in [Ids -> States \cup {"None"}]
        /\ order' \in Seq(Ids)
        /\ OrderMatchesMap'
    BY <2>1, <2>2, <2>3, AddPreserves, ZenonT(40) DEF IInv
  <2>5. TypeOK'
    BY <2>1, <2>2, <2>4, ZenonT(40) DEF IInv, TypeOK
  <2>6. CallbacksSafe'
    BY <2>1, <2>2, ZenonT(40) DEF IInv, TypeOK, CallbacksSafe, CancelableIn, Cancelable, Ids
  <2> QED BY <2>2, <2>4, <2>5, <2>6, ZenonT(40) DEF IInv, CancelNeverPanics
<1>4. ASSUME NEW id \in Cancelable, CancelContext(id)
      PROVE  IInv'
  <2>1. /\ id \in Ids /\ id \notin canceled /\ future[id] = "Pending"
        /\ canceled' = canceled \cup {id} /\ cancellationCallback(id)
        /\ phase = "Workflow" /\ closing = {}
        /\ UNCHANGED <<running, closing, phase, cursor, decisions, starts, history, buffered,
                       server, acks, cancelRequested>>
    BY <1>4, ZenonT(40) DEF CancelContext, WorkflowRuns, service, Ids, Cancelable, IInv, CallbacksSafe
  <2>2. /\ machine' \in [Ids -> States \cup {"None"}]
        /\ order' \in Seq(Ids)
        /\ OrderMatchesMap'
        /\ panic' = panic
        /\ future' \in [Ids -> {"None", "Pending", "Ready"}]
        /\ async' \in {async, async \cup {id}}
        /\ async' \subseteq Children
        /\ \A x \in Ids \ {id} : machine'[x] = machine[x] /\ future'[x] = future[x]
    BY <2>1, CallbackPreserves, ZenonT(40)
  <2>3. future'[id] # "None"
    BY <1>4, <2>1 DEF cancellationCallback, RequestCancelActivity, RequestCancelTimer,
                      RequestCancelChildWorkflow, IInv, TypeOK
  <2>4. TypeOK'
    BY <2>1, <2>2 DEF IInv, TypeOK
  <2>5. CallbacksSafe'
    <3>1. ASSUME NEW x \in Cancelable, future'[x] = "Pending", x \notin canceled'
          PROVE  machine'[x] \in CancelableIn(x)
      <4>1. x \in Ids \ {id} /\ x \notin canceled
        BY <2>1, <3>1, ZenonT(40) DEF Cancelable, Ids
      <4> QED BY <2>2, <3>1, <4>1, ZenonT(40) DEF IInv, CallbacksSafe
    <3>2. \A x \in Ids : future'[x] = "None" => machine'[x] = "None"
      BY <2>2, <2>3, ZenonT(40) DEF IInv, CallbacksSafe
    <3>3. async' \subseteq canceled'
      BY <2>1, <2>2, ZenonT(40) DEF IInv, CallbacksSafe
    <3> QED BY <2>1, <3>1, <3>2, <3>3, ZenonT(40) DEF CallbacksSafe, CancelableIn
  <2> QED BY <2>2, <2>4, <2>5 DEF IInv, CancelNeverPanics
<1> QED BY <1>1, <1>2, <1>3, <1>4 DEF WorkflowCode

\* Steps that leave the machines, the futures and the contexts alone.
LEMMA ClientUnchanged ==
    ASSUME IInv, TypeOK', client' = client, panic' = panic, phase' = "Events" \/ closing = {}
    PROVE  IInv'
<1>1. UNCHANGED <<machine, order, future, running, async, canceled, closing>>
  BY DEF client
<1>2. OrderMatchesMap'
  BY <1>1 DEF IInv, OrderMatchesMap
<1>3. CallbacksSafe'
  BY <1>1, ZenonT(40) DEF IInv, CallbacksSafe, CancelableIn
<1> QED BY <1>2, <1>3 DEF IInv, CancelNeverPanics

\* An event about a call preserves the invariant.
LEMMA ProcessEventIInv == IInv /\ ProcessEvent => IInv'
<1> SUFFICES ASSUME IInv, ProcessEvent PROVE IInv'
  OBVIOUS
<1>1. PICK e \in Events : e = Head(history)
  BY DEF ProcessEvent, EventsRun, IInv, TypeOK
<1>2. /\ e.id \in Ids /\ history # <<>> /\ history' = Tail(history) /\ closing = {}
      /\ UNCHANGED <<async, canceled, closing, phase, cursor, decisions, starts,
                     buffered, server, acks, cancelRequested>>
  BY <1>1, ZenonT(40) DEF ProcessEvent, EventsRun
<1>3. \/ e.type \in EventTypes /\ (e.type = "Started" => e.id \in Children)
      \/ e.type \in {"DecisionTaskStarted", "WorkflowExecutionCancelRequested"} /\ e.id = "None"
  BY DEF Events, WorkflowEvents, EventTypes
<1>4. PICK id \in Ids : id = e.id
  BY <1>2
<1>5. history' \in Seq(Events)
  BY <1>2 DEF IInv, TypeOK
<1>6. ASSUME NEW op \in EventTypes, NEW s \in MethodStates, Move(id, op, s),
             future' \in [Ids -> {"None", "Pending", "Ready"}],
             \A x \in Ids \ {id} : future'[x] = future[x],
             future[id] = "None" => s = Illegal /\ future'[id] = "None",
             future[id] # "None" => future'[id] # "None",
             running' \subseteq Children,
             (id \in Cancelable /\ id \notin canceled /\ future'[id] = "Pending"
                 /\ s # Illegal) => s \in CancelableIn(id),
             future'[id] = "Pending" => future[id] = "Pending"
      PROVE  IInv'
  <2>1. /\ machine' \in [Ids -> States \cup {"None"}]
        /\ order' \in Seq(Ids)
        /\ OrderMatchesMap'
        /\ panic' = panic \/ panic' \in [id : Ids, op : EventTypes \cup {"Add", "Cancel"},
                                         from : States \cup {"None"}]
    BY <1>6, MovePreserves, ZenonT(40) DEF IInv
  <2>2. TypeOK'
    BY <1>2, <1>5, <1>6, <2>1 DEF IInv, TypeOK
  <2>3. /\ \A x \in Ids \ {id} : machine'[x] = machine[x]
        /\ s = Illegal => machine'[id] = machine[id]
        /\ s # Illegal => machine'[id] = s
    BY <1>6 DEF Move, IInv, TypeOK
  <2>4. CallbacksSafe'
    <3>1. ASSUME NEW x \in Cancelable, future'[x] = "Pending", x \notin canceled
          PROVE  machine'[x] \in CancelableIn(x)
      <4>1. x \in Ids
        BY DEF Cancelable, Ids
      <4>2. CASE x # id
        BY <1>6, <2>3, <3>1, <4>1, <4>2, ZenonT(40) DEF IInv, CallbacksSafe
      <4>3. CASE x = id /\ s = Illegal
        BY <1>6, <2>3, <3>1, <4>3, ZenonT(40) DEF IInv, CallbacksSafe
      <4>4. CASE x = id /\ s # Illegal
        BY <1>6, <2>3, <3>1, <4>4, ZenonT(40)
      <4> QED BY <4>2, <4>3, <4>4
    <3>2. \A x \in Ids : future'[x] = "None" => machine'[x] = "None"
      BY <1>6, <2>3 DEF IInv, CallbacksSafe
    <3> QED BY <1>2, <3>1, <3>2, ZenonT(40) DEF IInv, CallbacksSafe, CancelableIn
  <2>5. panic'.op # "Cancel"
    BY <1>6 DEF Move, IInv, CancelNeverPanics, EventTypes
  <2> QED BY <2>1, <2>2, <2>4, <2>5 DEF IInv, CancelNeverPanics
<1>7. CASE e.type = "Started"
  <2>0. id \in Children
    BY <1>3, <1>4, <1>7 DEF EventTypes
  <2>1. PICK s \in MethodStates :
          /\ s = IF future[id] = "Pending" /\ id \in async
                 THEN cancel("ChildWorkflow", handleStartedEvent("ChildWorkflow", lookup(id)))
                 ELSE handleStartedEvent("ChildWorkflow", lookup(id))
          /\ Move(id, "Started", s)
          /\ running' = IF future[id] = "Pending" THEN running \cup {id} ELSE running
          /\ UNCHANGED future
    BY <1>1, <1>4, <1>7, LookupType, MethodTypes, ZenonT(40)
       DEF ProcessEvent, handleChildWorkflowExecutionStarted, IInv
  <2>2. future[id] = "None" => s = Illegal
    BY <2>1, ZenonT(40) DEF IInv, CallbacksSafe, lookup, inMap, handleStartedEvent, cancel, Illegal,
                isDone, CancelableKinds
  <2>3. ASSUME id \in Cancelable, id \notin canceled, future'[id] = "Pending", s # Illegal
        PROVE  s \in CancelableIn(id)
    <3>1. id \notin async /\ machine[id] \in CancelableIn(id) /\ lookup(id) = machine[id]
      BY <2>1, <2>3, ZenonT(40) DEF IInv, CallbacksSafe, lookup, inMap, CancelableIn
    <3>2. s = handleStartedEvent("ChildWorkflow", machine[id])
      BY <2>1, <3>1
    <3> QED BY <2>0, <3>1, <3>2 DEF handleStartedEvent, CancelableKinds, CancelableIn
  <2>4. /\ future' \in [Ids -> {"None", "Pending", "Ready"}] /\ running' \subseteq Children
    BY <2>0, <2>1 DEF IInv, TypeOK
  <2>5. "Started" \in EventTypes
    BY DEF EventTypes
  <2> QED BY <1>6, <2>1, <2>2, <2>3, <2>4, <2>5, ZenonT(40)
<1>8. CASE e.type = "MarkerRecorded"
  <2>1. UNCHANGED <<machine, order, panic, future, running>>
    BY <1>1, <1>8 DEF ProcessEvent
  <2>2. TypeOK'
    BY <1>2, <1>5, <2>1, ZenonT(40) DEF IInv, TypeOK
  <2> QED BY <1>2, <2>1, <2>2, ClientUnchanged DEF client
<1>9. CASE e.type \notin {"Started", "MarkerRecorded"}
  <2>1. HandleEvent(id, e.type)
    BY <1>1, <1>4, <1>9, ZenonT(40) DEF ProcessEvent
  <2>2. PICK s \in MethodStates :
          /\ s = eventMethod(e.type, kind(id), lookup(id))
          /\ Move(id, e.type, s)
          /\ future' = IF s # Illegal /\ resolves(e.type, id)
                       THEN [future EXCEPT ![id] = "Ready"] ELSE future
          /\ UNCHANGED running
    <3>1. lookup(id) \in MethodStates
      BY LookupType DEF IInv
    <3>2. e.type \in EventTypes
      BY <1>2, <1>3, NoneIsNoId
    <3>3. eventMethod(e.type, kind(id), lookup(id)) \in MethodStates
      BY <3>1, <3>2, MethodTypes, ZenonT(40)
    <3> QED BY <2>1, <3>3, ZenonT(40) DEF HandleEvent
  <2>3. e.type \in EventTypes
    BY <1>2, <1>3, NoneIsNoId
  <2>4. future[id] = "None" => s = Illegal
    <3>1. future[id] = "None" => lookup(id) = Illegal
      BY ZenonT(40) DEF IInv, CallbacksSafe, lookup, inMap
    <3> QED BY <2>2, <3>1, IllegalStays
  <2>5. ASSUME id \in Cancelable, id \notin canceled, future'[id] = "Pending", s # Illegal
        PROVE  s \in CancelableIn(id)
    <3>1. future[id] = "Pending" /\ ~resolves(e.type, id)
      BY <2>2, <2>5 DEF IInv, TypeOK
    <3>2. machine[id] \in CancelableIn(id) /\ lookup(id) = machine[id]
      BY <2>5, <3>1, ZenonT(40) DEF IInv, CallbacksSafe, lookup, inMap, CancelableIn
    <3>3. e.type \in {"Initiated", "CancelInitiated", "CancelFailed", "CancelRequested"}
            \/ (e.type = "Canceled" /\ id \in Timers)
      BY <1>9, <2>3, <3>1 DEF resolves, EventTypes
    <3>4. id \in Timers => id \notin Children /\ kind(id) = "Timer"
      BY KindsDisjoint DEF kind
    <3>5. s = eventMethod(e.type, kind(id), machine[id])
      BY <2>2, <3>2
    <3> QED BY <2>5, <3>2, <3>3, <3>4, <3>5, ZenonT(40)
            DEF eventMethod, handleInitiatedEvent, handleCancelInitiatedEvent,
                handleCancelFailedEvent, handleCanceledEvent, CancelableIn, Illegal
  <2>6. /\ future' \in [Ids -> {"None", "Pending", "Ready"}] /\ running' \subseteq Children
        /\ \A x \in Ids \ {id} : future'[x] = future[x]
        /\ future[id] = "None" => future'[id] = "None"
        /\ future[id] # "None" => future'[id] # "None"
        /\ future'[id] = "Pending" => future[id] = "Pending"
    BY <2>2, <2>4 DEF IInv, TypeOK
  <2> QED BY <1>6, <2>2, <2>3, <2>4, <2>5, <2>6, ZenonT(40)
<1> QED BY <1>7, <1>8, <1>9

\* One round of the loop of getDecisions preserves the invariant.
LEMMA GetDecisionsIInv == IInv /\ getDecisions => IInv'
<1> SUFFICES ASSUME IInv, getDecisions PROVE IInv'
  OBVIOUS
<1>1. cursor \in 1..Len(order) /\ order \in Seq(Ids)
  BY DEF getDecisions, IInv, TypeOK
<1>2. PICK id \in Ids : id = order[cursor]
  BY <1>1
<1>3. inMap(machine[id]) /\ machine[id] \in States
  BY <1>1, <1>2 DEF IInv, OrderMatchesMap, TypeOK, inMap
<1>4. PICK s \in States : s = handleDecisionSent(kind(id), machine[id])
  BY <1>3, MethodTypes DEF MethodStates
<1>5. PICK d \in {"Start", "Cancel", "Nil"} : d = getDecision(kind(id), machine[id])
  BY <1>3, MethodTypes DEF MethodStates
<1>6. /\ phase = "GetDecisions"
      /\ decisions' = IF d = "Nil" THEN decisions
                      ELSE Append(decisions, [id |-> id, type |-> d])
      /\ machine' = [machine EXCEPT ![id] = s]
      /\ order' = IF inMap(s) THEN order ELSE removeAt(order, cursor)
      /\ cursor' = IF inMap(s) THEN cursor + 1 ELSE cursor
      /\ UNCHANGED <<future, running, async, canceled, closing, phase, panic, starts,
                     history, buffered, server, acks, cancelRequested>>
  BY <1>2, <1>4, <1>5, ZenonT(40) DEF getDecisions, service
<1>7. order' \in Seq(Ids) /\ OrderMatchesMap'
  <2>1. Distinct(order) /\ Elements(order) = {x \in Ids : inMap(machine[x])}
    BY DEF IInv, OrderMatchesMap, Distinct, Elements
  <2>2. CASE inMap(s)
    <3>1. {x \in Ids : inMap(machine'[x])} = {x \in Ids : inMap(machine[x])}
      BY <1>3, <1>6, <2>2, ZenonT(40) DEF IInv, TypeOK
    <3>2. order' = order
      BY <1>6, <2>2, ZenonT(40)
    <3>3. OrderMatchesMap'
      BY <3>1, <3>2 DEF IInv, OrderMatchesMap
    <3> QED BY <1>1, <3>2, <3>3
  <2>3. CASE ~inMap(s)
    <3>1. /\ order' \in Seq(Ids) /\ Distinct(order')
          /\ Elements(order') = Elements(order) \ {id}
      BY <1>1, <1>2, <1>6, <2>1, <2>3, RemoveAtProperties, ZenonT(40)
    <3>2. {x \in Ids : inMap(machine'[x])} = {x \in Ids : inMap(machine[x])} \ {id}
      BY <1>6, <2>3, ZenonT(40) DEF IInv, TypeOK
    <3> QED BY <2>1, <3>1, <3>2, ZenonT(40) DEF OrderMatchesMap, Distinct, Elements
  <2> QED BY <2>2, <2>3
<1>8. decisions' \in Seq([id : Ids, type : {"Start", "Cancel"}])
  <2>1. PICK ds \in Seq([id : Ids, type : {"Start", "Cancel"}]) : ds = decisions
    BY ZenonT(40) DEF IInv, TypeOK
  <2>2. CASE d = "Nil"
    BY <1>6, <2>1, <2>2, ZenonT(40)
  <2>3. CASE d # "Nil"
    <3>1. PICK r \in [id : Ids, type : {"Start", "Cancel"}] : r = [id |-> id, type |-> d]
      BY <1>5, <2>3, ZenonT(40)
    <3>2. decisions' = Append(ds, r)
      BY <1>6, <2>1, <2>3, <3>1, ZenonT(40)
    <3>3. Append(ds, r) \in Seq([id : Ids, type : {"Start", "Cancel"}])
      OBVIOUS
    <3> QED BY <3>2, <3>3, ZenonT(40)
  <2> QED BY <2>2, <2>3
<1>9. /\ machine' \in [Ids -> States \cup {"None"}]
      /\ cursor' \in Nat \ {0}
  BY <1>4, <1>6 DEF IInv, TypeOK
<1>10. TypeOK'
  BY <1>6, <1>7, <1>8, <1>9, ZenonT(40) DEF IInv, TypeOK
<1>11. CallbacksSafe'
  <2>1. ASSUME id \in Cancelable, machine[id] \in CancelableIn(id)
        PROVE  s \in CancelableIn(id)
    <3>1. kind(id) # "Marker"
      BY <2>1, KindsDisjoint DEF kind, Cancelable
    <3> QED BY <1>4, <2>1, <3>1 DEF handleDecisionSent, CancelableIn
  <2>2. ASSUME NEW x \in Cancelable, future'[x] = "Pending", x \notin canceled' \/ x \in closing'
        PROVE  machine'[x] \in CancelableIn(x)
    <3>1. machine[x] \in CancelableIn(x) /\ x \in Ids
      BY <1>6, <2>2, ZenonT(40) DEF IInv, CallbacksSafe, Cancelable, Ids
    <3>2. CASE x = id
      BY <1>6, <2>1, <2>2, <3>1, <3>2, ZenonT(40) DEF IInv, TypeOK
    <3>3. CASE x # id
      BY <1>6, <3>1, <3>3, ZenonT(40) DEF IInv, TypeOK
    <3> QED BY <3>2, <3>3
  <2>3. ASSUME NEW x \in Ids, future'[x] = "None"
        PROVE  machine'[x] = "None"
    <3>1. machine[x] = "None" /\ x # id
      BY <1>3, <1>6, <2>3, ZenonT(40) DEF IInv, CallbacksSafe, inMap
    <3> QED BY <1>6, <3>1, ZenonT(40) DEF IInv, TypeOK
  <2>4. /\ phase' # "Events" => closing' = {}
        /\ closing' \subseteq canceled' /\ async' \subseteq canceled' /\ async' \cap closing' = {}
        /\ \A x \in closing' : future'[x] = "Pending"
    BY <1>6, ZenonT(40) DEF IInv, CallbacksSafe
  <2> QED BY <2>2, <2>3, <2>4 DEF CallbacksSafe, CancelableIn
<1> QED BY <1>6, <1>7, <1>10, <1>11, ZenonT(40) DEF IInv, CancelNeverPanics

\* The steps of the worker preserve the invariant.
LEMMA WorkerIInv == IInv /\ Worker => IInv'
<1> SUFFICES ASSUME IInv, Worker PROVE IInv'
  OBVIOUS
<1>1. CASE WorkflowBlocks
  <2>1. /\ UNCHANGED <<client, decisions, panic, starts, service>>
        /\ phase' = "GetDecisions" /\ cursor' = 1 /\ closing = {}
    BY <1>1 DEF WorkflowBlocks, WorkflowRuns, IInv, CallbacksSafe
  <2>2. TypeOK'
    BY <2>1 DEF IInv, TypeOK, client, service, Phases
  <2> QED BY <2>1, <2>2, ClientUnchanged
<1>2. CASE getDecisions
  BY <1>2, GetDecisionsIInv
<1>3. CASE ProcessEvent
  BY <1>3, ProcessEventIInv
<1>4. CASE handleWorkflowExecutionCancelRequested
  <2>1. PICK S \in SUBSET {id \in Cancelable \ canceled : future[id] = "Pending"} :
           canceled' = canceled \cup S /\ closing' = S
    BY <1>4, ZenonT(40) DEF handleWorkflowExecutionCancelRequested
  <2>2. /\ phase = "Events" /\ closing = {} /\ history # <<>> /\ history' = Tail(history)
        /\ UNCHANGED <<machine, order, future, running, async, phase, cursor, decisions,
                       panic, starts, buffered, server, acks, cancelRequested>>
    BY <1>4, ZenonT(40) DEF handleWorkflowExecutionCancelRequested, EventsRun
  <2>3. /\ history' \in Seq(Events) /\ S \subseteq Cancelable /\ S \subseteq Ids
        /\ S \cap canceled = {} /\ \A id \in S : future[id] = "Pending"
    BY <2>1, <2>2 DEF IInv, TypeOK, Cancelable, Ids
  <2>4. TypeOK'
    <3>1. canceled' \subseteq Ids /\ closing' \subseteq Cancelable
      BY <2>1, <2>3, ZenonT(40) DEF IInv, TypeOK
    <3> QED BY <2>2, <2>3, <3>1, ZenonT(40) DEF IInv, TypeOK
  <2>5. OrderMatchesMap'
    <3>1. order' = order /\ machine' = machine
      BY <2>2, ZenonT(40)
    <3> QED BY <3>1 DEF IInv, OrderMatchesMap
  <2>6. CallbacksSafe'
    BY <2>1, <2>2, <2>3, ZenonT(40) DEF IInv, CallbacksSafe, CancelableIn
  <2> QED BY <2>2, <2>4, <2>5, <2>6 DEF IInv, CancelNeverPanics
<1>5. ASSUME NEW id \in Cancelable, CloseDoneChannel(id)
      PROVE  IInv'
  <2>1. /\ id \in Ids /\ id \in closing /\ future[id] = "Pending" /\ id \in canceled
        /\ closing' = closing \ {id} /\ cancellationCallback(id)
        /\ UNCHANGED <<running, canceled, phase, cursor, decisions, starts, history, buffered,
                       server, acks, cancelRequested>>
    BY <1>5, ZenonT(40) DEF CloseDoneChannel, service, Ids, Cancelable, IInv, CallbacksSafe
  <2>2. /\ machine' \in [Ids -> States \cup {"None"}]
        /\ order' \in Seq(Ids)
        /\ OrderMatchesMap'
        /\ panic' = panic
        /\ future' \in [Ids -> {"None", "Pending", "Ready"}]
        /\ async' \in {async, async \cup {id}}
        /\ async' \subseteq Children
        /\ \A x \in Ids \ {id} : machine'[x] = machine[x] /\ future'[x] = future[x]
    BY <1>5, <2>1, CallbackPreserves, ZenonT(40)
  <2>3. future'[id] # "None"
    BY <1>5, <2>1 DEF cancellationCallback, RequestCancelActivity, RequestCancelTimer,
                      RequestCancelChildWorkflow, IInv, TypeOK
  <2>4. TypeOK'
    BY <2>1, <2>2, ZenonT(40) DEF IInv, TypeOK
  <2>5. CallbacksSafe'
    <3>1. ASSUME NEW x \in Cancelable, future'[x] = "Pending", x \notin canceled' \/ x \in closing'
          PROVE  machine'[x] \in CancelableIn(x)
      <4>1. x \in Ids \ {id} /\ (x \notin canceled \/ x \in closing)
        BY <2>1, <3>1, ZenonT(40) DEF Cancelable, Ids
      <4> QED BY <2>2, <3>1, <4>1, ZenonT(40) DEF IInv, CallbacksSafe
    <3>2. \A x \in Ids : future'[x] = "None" => machine'[x] = "None"
      BY <2>2, <2>3, ZenonT(40) DEF IInv, CallbacksSafe
    <3>3. async' \subseteq canceled' /\ async' \cap closing' = {} /\ closing' \subseteq canceled'
      BY <2>1, <2>2 DEF IInv, CallbacksSafe
    <3>4. \A x \in closing' : future'[x] = "Pending"
      BY <2>1, <2>2, ZenonT(40) DEF IInv, CallbacksSafe, TypeOK, Cancelable, Ids
    <3>5. phase' # "Events" => closing' = {}
      BY <2>1, ZenonT(40) DEF IInv, CallbacksSafe
    <3> QED BY <3>1, <3>2, <3>3, <3>4, <3>5 DEF CallbacksSafe, CancelableIn
  <2> QED BY <2>2, <2>4, <2>5 DEF IInv, CancelNeverPanics
<1>6. CASE OnDecisionTaskStarted
  <2>1. /\ UNCHANGED <<client, cursor, decisions, panic, starts, buffered, server, acks,
                       cancelRequested>>
        /\ history # <<>> /\ history' = Tail(history) /\ phase' = "Workflow" /\ closing = {}
    BY <1>6 DEF OnDecisionTaskStarted, EventsRun
  <2>2. history' \in Seq(Events)
    BY <2>1 DEF IInv, TypeOK
  <2>3. TypeOK'
    BY <2>1, <2>2, ZenonT(40) DEF IInv, TypeOK, client, Phases
  <2> QED BY <2>1, <2>3, ClientUnchanged
<1> QED BY <1>1, <1>2, <1>3, <1>4, <1>5, <1>6 DEF Worker

\* The service changes nothing that the machines hold, and records well-formed
\* events.
LEMMA ServiceIInv == IInv /\ Service => IInv'
<1> SUFFICES ASSUME IInv, Service PROVE IInv'
  OBVIOUS
<1>0. phase = "Events" \/ closing = {}
  BY DEF IInv, CallbacksSafe
<1>1. ASSUME NEW e \in Events, Record(e)
      PROVE  history' \in Seq(Events) /\ buffered' \in Seq(Events)
  <2>1. PICK h \in Seq(Events) : h = history
    BY ZenonT(40) DEF IInv, TypeOK
  <2>2. PICK b \in Seq(Events) : b = buffered
    BY ZenonT(40) DEF IInv, TypeOK
  <2>3. Append(h, e) \in Seq(Events) /\ Append(b, e) \in Seq(Events)
    OBVIOUS
  <2> QED BY <1>1, <2>1, <2>2, <2>3, ZenonT(40) DEF Record
<1>2. ASSUME NEW id \in Ids, NEW type \in EventTypes, type = "Started" => id \in Children,
             NEW s \in {"Open", "CancelRequested", "Closed"} \cup {server[id]},
             ServerStep(id, type, s), acks' \subseteq Children
      PROVE  IInv'
  <2>1. [type |-> type, id |-> id] \in Events
    BY <1>2 DEF Events
  <2>2. history' \in Seq(Events) /\ buffered' \in Seq(Events)
    BY <1>1, <1>2, <2>1, ZenonT(40) DEF ServerStep
  <2>3. /\ server' = [server EXCEPT ![id] = s]
        /\ UNCHANGED <<client, phase, cursor, decisions, panic, starts, cancelRequested>>
    BY <1>2, ZenonT(40) DEF ServerStep
  <2>4. server' \in [Ids -> {"None", "Initiated", "Open", "CancelRequested", "Closed"}]
    BY <2>3, ZenonT(40) DEF IInv, TypeOK
  <2>5. TypeOK'
    BY <1>2, <2>2, <2>3, <2>4, ZenonT(40) DEF IInv, TypeOK, client
  <2> QED BY <1>0, <2>3, <2>5, ClientUnchanged
<1>3. CASE RespondDecisionTaskCompleted
  <2>1. /\ UNCHANGED <<client, cursor, panic, starts, cancelRequested>>
        /\ phase = "GetDecisions" /\ phase' = "Idle" /\ decisions' = <<>> /\ buffered' = <<>>
        /\ history' = history \o [i \in 1..Len(decisions) |-> recorded(decisions[i])] \o buffered
        /\ server' = [id \in Ids |-> serverAfter(id)]
        /\ acks' \subseteq Children
    BY <1>3, ZenonT(40) DEF RespondDecisionTaskCompleted, IInv, TypeOK
  <2>2. \A id \in Ids : serverAfter(id) \in {"None", "Initiated", "Open", "CancelRequested", "Closed"}
    BY ZenonT(40) DEF serverAfter, IInv, TypeOK
  <2>3. history' \in Seq(Events)
    <3>1. PICK ds \in Seq([id : Ids, type : {"Start", "Cancel"}]) : ds = decisions
      BY ZenonT(40) DEF IInv, TypeOK
    <3>2. \A i \in 1..Len(ds) : ds[i].id \in Ids
      <4>1. \A i \in 1..Len(ds) : ds[i] \in [id : Ids, type : {"Start", "Cancel"}]
        BY ElementType, ZenonT(40)
      <4>2. \A d \in [id : Ids, type : {"Start", "Cancel"}] : d.id \in Ids
        OBVIOUS
      <4> QED BY <4>1, <4>2, ZenonT(40)
    <3>3. \A i \in 1..Len(ds) : recorded(ds[i]) \in Events
      BY <3>2 DEF recorded, Events, EventTypes
    <3>4. PICK rs : rs = [i \in 1..Len(ds) |-> recorded(ds[i])]
      BY ZenonT(40)
    <3>5. rs \in Seq(Events)
      BY <3>3, <3>4
    <3>6. PICK h \in Seq(Events) : h = history
      BY ZenonT(40) DEF IInv, TypeOK
    <3>7. PICK b \in Seq(Events) : b = buffered
      BY ZenonT(40) DEF IInv, TypeOK
    <3>8. h \o rs \o b \in Seq(Events)
      BY <3>5
    <3> QED BY <2>1, <3>1, <3>4, <3>6, <3>7, <3>8, ZenonT(40)
  <2>4. server' \in [Ids -> {"None", "Initiated", "Open", "CancelRequested", "Closed"}]
    BY <2>1, <2>2, ZenonT(40)
  <2>5. TypeOK'
    BY <2>1, <2>3, <2>4 DEF IInv, TypeOK, client, Phases
  <2>6. closing = {}
    BY <1>0, <2>1, ZenonT(40)
  <2> QED BY <2>1, <2>5, <2>6, ClientUnchanged, ZenonT(40)
<1>4. CASE StartDecisionTask
  <2>1. /\ UNCHANGED <<client, cursor, decisions, panic, starts, buffered, server, acks, cancelRequested>>
        /\ history' = Append(history, [type |-> "DecisionTaskStarted", id |-> "None"])
        /\ phase' = "Events"
    BY <1>4 DEF StartDecisionTask
  <2>2. PICK e \in Events : e = [type |-> "DecisionTaskStarted", id |-> "None"]
    BY ZenonT(40) DEF Events, WorkflowEvents
  <2>3. PICK h \in Seq(Events) : h = history
    BY ZenonT(40) DEF IInv, TypeOK
  <2>4. Append(h, e) \in Seq(Events)
    OBVIOUS
  <2>5. history' \in Seq(Events)
    BY <2>1, <2>2, <2>3, <2>4, ZenonT(40)
  <2>6. TypeOK'
    BY <2>1, <2>5, ZenonT(40) DEF IInv, TypeOK, client, Phases
  <2> QED BY <2>1, <2>6, ClientUnchanged
<1>5. ASSUME NEW id \in Cancelable \cup Cancellations \cup Signals, Closes(id)
      PROVE  IInv'
  <2>1. id \in Ids /\ acks' \subseteq Children /\ ServerStep(id, "Completion", "Closed")
    BY <1>5, ZenonT(40) DEF Closes, IInv, TypeOK, Ids, Cancelable
  <2> QED BY <1>2, <2>1, ZenonT(40) DEF EventTypes
<1>6. ASSUME NEW id \in Activities \cup Children, ClosesCanceled(id)
      PROVE  IInv'
  <2>1. id \in Ids /\ acks' \subseteq Children /\ ServerStep(id, "Canceled", "Closed")
    BY <1>6, ZenonT(40) DEF ClosesCanceled, IInv, TypeOK, Ids
  <2> QED BY <1>2, <2>1, ZenonT(40) DEF EventTypes
<1>7. ASSUME NEW id \in Children, ChildStarts(id)
      PROVE  IInv'
  <2>1. id \in Ids /\ acks' \subseteq Children /\ ServerStep(id, "Started", "Open")
    BY <1>7, ZenonT(40) DEF ChildStarts, IInv, TypeOK, Ids
  <2> QED BY <1>2, <2>1, ZenonT(40) DEF EventTypes
<1>8. ASSUME NEW id \in Children, ChildStartFails(id)
      PROVE  IInv'
  <2>1. id \in Ids /\ acks' \subseteq Children /\ ServerStep(id, "InitiationFailed", "Closed")
    BY <1>8, ZenonT(40) DEF ChildStartFails, IInv, TypeOK, Ids
  <2> QED BY <1>2, <2>1, ZenonT(40) DEF EventTypes
<1>9. ASSUME NEW id \in Children, AnswersCancelRequest(id)
      PROVE  IInv'
  <2>1. /\ id \in Ids /\ acks' \subseteq Children
        /\ \/ ServerStep(id, "CancelRequested", "CancelRequested")
           \/ ServerStep(id, "CancelFailed", server[id])
    BY <1>9, ZenonT(40) DEF AnswersCancelRequest, IInv, TypeOK, Ids
  <2> QED BY <1>2, <2>1, ZenonT(40) DEF EventTypes
<1>10. CASE RequestCancelWorkflow
  <2>1. /\ UNCHANGED <<client, phase, cursor, decisions, panic, starts, server, acks>>
        /\ cancelRequested' = TRUE
        /\ Record([type |-> "WorkflowExecutionCancelRequested", id |-> "None"])
    BY <1>10 DEF RequestCancelWorkflow
  <2>2. history' \in Seq(Events) /\ buffered' \in Seq(Events)
    BY <1>1, <2>1, ZenonT(40) DEF Events, WorkflowEvents
  <2>3. TypeOK'
    BY <2>1, <2>2, ZenonT(40) DEF IInv, TypeOK, client
  <2> QED BY <1>0, <2>1, <2>3, ClientUnchanged
<1> QED BY <1>3, <1>4, <1>5, <1>6, <1>7, <1>8, <1>9, <1>10 DEF Service

-----------------------------------------------------------------------------
(* The theorems.                                                           *)

\* The invariant holds in every reachable state.
LEMMA SpecIInv == Spec => []IInv
<1>1. IInv /\ [Next]_vars => IInv'
  <2> SUFFICES ASSUME IInv, [Next]_vars PROVE IInv'
    OBVIOUS
  <2>1. CASE Next
    BY <2>1, WorkflowCodeIInv, WorkerIInv, ServiceIInv DEF Next
  <2>2. CASE UNCHANGED vars
    <3>1. TypeOK'
      BY <2>2, ZenonT(40) DEF IInv, TypeOK, vars
    <3>2. UNCHANGED <<client, phase, panic>>
      BY <2>2 DEF vars, client
    <3> QED BY <3>1, <3>2, ClientUnchanged, ZenonT(40) DEF IInv, CallbacksSafe
  <2> QED BY <2>1, <2>2
<1> QED BY InitIInv, <1>1, PTL DEF Spec

\* The variables keep their types: the state machines, the list and the futures
\* stay well formed for any set of calls and any interleaving with the service.
THEOREM TypeCorrect == Spec => []TypeOK
<1>1. IInv => TypeOK
  BY DEF IInv
<1> QED BY SpecIInv, <1>1, PTL

\* orderedDecisions and the map decisions of decisionsHelper always hold the same
\* machines, each once, so a response neither loses a decision nor repeats one.
THEOREM OrderMatchesMapAlways == Spec => []OrderMatchesMap
<1>1. IInv => OrderMatchesMap
  BY DEF IInv
<1> QED BY SpecIInv, <1>1, PTL

\* A cancellation callback never drives a state machine into an illegal
\* transition, whatever was answered before the context was canceled.
THEOREM CancelNeverPanicsAlways == Spec => []CancelNeverPanics
<1>1. IInv => CancelNeverPanics
  BY DEF IInv
<1> QED BY SpecIInv, <1>1, PTL
=============================================================================
