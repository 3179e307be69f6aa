---------------------- MODULE LocalActivitiesProofs ----------------------
(***************************************************************************)
(* Local activities, for any workflow of them, any size of the queue and   *)
(* of the pool, any retry policy and number of decision tasks: no local    *)
(* activity task is sent twice, and none that is waited for is forgotten,  *)
(* save what a repeated heartbeat left behind.                             *)
(***************************************************************************)
EXTENDS LocalActivities, TLAPS

USE SMTT(40)

\* processWorkflowTask is in its loop, with the workflow context locked.
InLoop == {"Process", "Send", "Wait"}

\* The decision tasks and the calls are numbered in order; while a call is under
\* way its decision task is not completed.
Numbered ==
    /\ call <= tasks /\ completed <= tasks /\ current = tasks
    /\ pc # "Idle" => call \in Calls /\ completed < current

\* The workflow context: what is to be sent is pending, and its state is not
\* behind the history that a call goes on from.
ContextOK ==
    /\ pc \in InLoop => live
    /\ live => firstCall <= call
    /\ pc # "Send" => toSend = {}
    /\ unstarted \subseteq pending
    /\ pc # "Idle" \/ completed = current => recorded \subseteq done

\* The queue has the tasks that are queued, each of them once.
QueueOK ==
    /\ \A i \in 1..Len(queue) : la[queue[i][1]][queue[i][2]].st = "Queued"
    /\ \A i, j \in 1..Len(queue) : queue[i] = queue[j] => i = j

\* The local activity tasks: a call that is yet to come has none, and those of the
\* running call are neither to be sent again nor done.
TasksOK ==
    \A e \in Calls, a \in Activities :
        /\ e > call => la[e][a].st = "None"
        /\ la[e][a].st = "Backoff" => la[e][a].attempt < MaximumAttempts
        /\ la[e][a].st = "Retrying" => la[e][a].attempt > 0
        /\ pc \in InLoop /\ e = call =>
              /\ la[e][a].st # "None" => After[a] \subseteq done /\ a \notin unstarted
              /\ la[e][a].st \in InFlight => a \notin done

\* What the workflow waits for was sent, by this call or by one before it that
\* left the context in the cache; what this call sent is in flight.
PendingOK ==
    /\ live => \A a \in pending \ unstarted : \E e \in firstCall..call : e \in Calls /\ la[e][a].st # "None"
    /\ ~stopped /\ pc = "Send" => toSend = unstarted
    /\ ~stopped /\ pc = "Wait" => unstarted = {}
    /\ ~stopped /\ pc \in InLoop => \A a \in pending : la[call][a].st # "None" => la[call][a].st \in InFlight

IInv == TypeOK /\ Numbered /\ ContextOK /\ QueueOK /\ TasksOK /\ PendingOK

-----------------------------------------------------------------------------
(* One local activity task changes                                         *)

Stages == {"None", "Gone"} \cup InFlight
Task == [st : Stages, attempt : 0..MaximumAttempts]

LEMMA TasksTyped ==
    ASSUME TypeOK, NEW e \in Calls, NEW a \in Activities
    PROVE  la[e][a] \in Task /\ la[e][a].st \in Stages /\ la[e][a].attempt \in 0..MaximumAttempts
<1>1. la[e][a] \in Task
  BY DEF TypeOK, Task, Stages
<1>. QED
  BY <1>1, ZenonT(40) DEF Task

\* Only the task of call e for activity a changes.
Sets(e, a, r) ==
    /\ la' \in [Calls -> [Activities -> Task]]
    /\ la'[e][a] = r
    /\ \A f \in Calls, b \in Activities : f # e \/ b # a => la'[f][b] = la[f][b]

LEMMA TaskSet ==
    ASSUME TypeOK, NEW e \in Calls, NEW a \in Activities, NEW r \in Task,
           la' = [la EXCEPT ![e][a] = r]
    PROVE  Sets(e, a, r)
<1>1. la \in [Calls -> [Activities -> Task]]
  BY DEF TypeOK, Task, Stages
<1>. HIDE DEF Task
<1>. QED
  BY <1>1 DEF Sets

\* The same where only the stage of the task is set.
LEMMA StageSet ==
    ASSUME TypeOK, NEW e \in Calls, NEW a \in Activities, NEW s \in Stages,
           la' = [la EXCEPT ![e][a].st = s]
    PROVE  Sets(e, a, [st |-> s, attempt |-> la[e][a].attempt])
<1>. DEFINE r == [la[e][a] EXCEPT !.st = s]
<1>1. la[e][a] \in Task
  BY TasksTyped, ZenonT(40)
<1>2. r = [st |-> s, attempt |-> la[e][a].attempt]
  BY <1>1 DEF Task
<1>3. r \in Task
  BY <1>1, <1>2, ZenonT(40) DEF Task
<1>4. la' = [la EXCEPT ![e][a] = r]
  BY ZenonT(40)
<1>. HIDE DEF r
<1>5. Sets(e, a, r)
  BY <1>3, <1>4, TaskSet, ZenonT(40)
<1>. QED
  BY <1>2, <1>5, ZenonT(40)

-----------------------------------------------------------------------------
(* The queue                                                               *)

Queues == Seq(Calls \X Activities)

LEMMA QueueTyped ==
    ASSUME TypeOK, NEW i \in 1..Len(queue)
    PROVE  /\ queue \in Queues /\ queue[i] = <<queue[i][1], queue[i][2]>>
           /\ queue[i][1] \in Calls /\ queue[i][2] \in Activities
<1>1. queue \in Queues
  BY DEF TypeOK, Queues
<1>2. queue[i] \in Calls \X Activities
  BY <1>1 DEF Queues
<1>. QED
  BY <1>1, <1>2

\* The other tasks of the queue are as they were.
LEMMA QueuedStays ==
    ASSUME TypeOK, QueueOK, NEW e \in Calls, NEW a \in Activities, NEW r, Sets(e, a, r),
           NEW i \in 1..Len(queue)
    PROVE  /\ la[e][a].st # "Queued" => queue[i] # <<e, a>>
           /\ queue[i] # <<e, a>> => la'[queue[i][1]][queue[i][2]].st = "Queued"
<1>. DEFINE p == queue[i]
<1>1. p = <<p[1], p[2]>> /\ p[1] \in Calls /\ p[2] \in Activities
  BY QueueTyped, ZenonT(40)
<1>2. la[p[1]][p[2]].st = "Queued"
  BY ZenonT(40) DEF QueueOK
<1>. HIDE DEF p
<1>3. p = <<e, a>> => p[1] = e /\ p[2] = a
  OBVIOUS
<1>4. p # <<e, a>> => p[1] # e \/ p[2] # a
  BY <1>1
<1>5. p # <<e, a>> => la'[p[1]][p[2]] = la[p[1]][p[2]]
  BY <1>1, <1>4, ZenonT(40) DEF Sets
<1>. QED
  BY <1>2, <1>3, <1>5, ZenonT(40) DEF p

\* A task that is not queued changes.
LEMMA QueueKept ==
    ASSUME TypeOK, QueueOK, NEW e \in Calls, NEW a \in Activities, NEW r, Sets(e, a, r),
           la[e][a].st # "Queued", UNCHANGED queue
    PROVE  QueueOK'
<1>1. ASSUME NEW i \in 1..Len(queue) PROVE la'[queue[i][1]][queue[i][2]].st = "Queued"
  BY QueuedStays, ZenonT(40)
<1>. QED
  BY <1>1, ZenonT(40) DEF QueueOK

\* A task is sent.
LEMMA QueueAppended ==
    ASSUME TypeOK, QueueOK, NEW e \in Calls, NEW a \in Activities, NEW r, Sets(e, a, r),
           la[e][a].st # "Queued", r.st = "Queued", Len(queue) < QueueSize,
           queue' = Append(queue, <<e, a>>)
    PROVE  QueueOK' /\ queue' \in Queues /\ Len(queue') <= QueueSize
<1>1. queue \in Queues
  BY ZenonT(40) DEF TypeOK, Queues
<1>2. /\ queue' \in Queues /\ Len(queue') = Len(queue) + 1
      /\ queue'[Len(queue) + 1] = <<e, a>>
      /\ \A i \in 1..Len(queue) : queue'[i] = queue[i]
  BY <1>1 DEF Queues
<1>3. ASSUME NEW i \in 1..Len(queue)
      PROVE  queue[i] # <<e, a>> /\ la'[queue[i][1]][queue[i][2]].st = "Queued"
  BY QueuedStays, ZenonT(40)
<1>4. \A i \in 1..Len(queue') : la'[queue'[i][1]][queue'[i][2]].st = "Queued"
  BY <1>1, <1>2, <1>3 DEF Sets, Queues
<1>5. \A i, j \in 1..Len(queue') : queue'[i] = queue'[j] => i = j
  BY <1>1, <1>2, <1>3 DEF QueueOK, Queues
<1>6. Len(queue') <= QueueSize
  BY <1>1, <1>2, LocalActivitiesAssumption DEF Queues
<1>. QED
  BY <1>2, <1>4, <1>5, <1>6, ZenonT(40) DEF QueueOK

\* The first task is taken.
LEMMA QueueTaken ==
    ASSUME TypeOK, QueueOK, NEW e \in Calls, NEW a \in Activities, NEW r, Sets(e, a, r),
           queue # <<>>, Head(queue) = <<e, a>>, queue' = Tail(queue)
    PROVE  QueueOK' /\ queue' \in Queues /\ Len(queue') <= QueueSize
<1>1. queue \in Queues /\ Len(queue) <= QueueSize
  BY DEF TypeOK, Queues
<1>2. /\ queue' \in Queues /\ Len(queue') = Len(queue) - 1 /\ Len(queue) > 0
      /\ \A i \in 1..Len(queue') : queue'[i] = queue[i + 1] /\ i + 1 \in 1..Len(queue)
      /\ queue[1] = <<e, a>>
  BY <1>1 DEF Queues
<1>3. ASSUME NEW i \in 1..Len(queue) \ {1}
      PROVE  la'[queue[i][1]][queue[i][2]].st = "Queued"
  <2>1. queue[i] # <<e, a>>
    BY <1>2 DEF QueueOK
  <2>. QED
    BY <2>1, QueuedStays, ZenonT(40)
<1>4. ASSUME NEW i \in 1..Len(queue') PROVE i + 1 \in 1..Len(queue) \ {1}
  BY <1>1, <1>2 DEF Queues
<1>5. \A i \in 1..Len(queue') : la'[queue'[i][1]][queue'[i][2]].st = "Queued"
  BY <1>2, <1>3, <1>4, ZenonT(40)
<1>6. \A i, j \in 1..Len(queue') : queue'[i] = queue'[j] => i = j
  BY <1>1, <1>2 DEF QueueOK, Queues
<1>7. Len(queue') <= QueueSize
  BY <1>1, <1>2, LocalActivitiesAssumption DEF Queues
<1>. QED
  BY <1>2, <1>5, <1>6, <1>7, ZenonT(40) DEF QueueOK

-----------------------------------------------------------------------------
(* The steps of the pool                                                   *)

LEMMA PoolMoves ==
    ASSUME IInv, NEW e \in Calls, NEW a \in Activities, NEW r \in Task, Sets(e, a, r),
           la[e][a].st # "None", r.st # "None",
           r.st \in InFlight => la[e][a].st \in InFlight,
           pc \in InLoop /\ e = call /\ ~stopped /\ la[e][a].st \in InFlight => r.st \in InFlight,
           r.st = "Backoff" => r.attempt < MaximumAttempts, r.st = "Retrying" => r.attempt > 0,
           QueueOK', queue' \in Queues, Len(queue') <= QueueSize,
           UNCHANGED <<thread, service, stopped>>
    PROVE  IInv'
<1>1. TypeOK'
  BY ZenonT(40) DEF IInv, TypeOK, Sets, Task, Stages, Queues, thread, service
<1>2. Numbered'
  BY ZenonT(40) DEF IInv, Numbered, thread, service
<1>3. ContextOK'
  BY ZenonT(40) DEF IInv, ContextOK, thread, service, pending, scheduled
<1>4. TasksOK'
  <2>. SUFFICES ASSUME NEW f \in Calls, NEW b \in Activities PROVE TasksOK!(f, b)'
    BY ZenonT(40) DEF TasksOK
  <2>1. CASE f = e /\ b = a
    BY <2>1, ZenonT(40) DEF IInv, TasksOK, Sets, thread
  <2>2. CASE f # e \/ b # a
    BY <2>2 DEF IInv, TasksOK, Sets, thread
  <2>. QED
    BY <2>1, <2>2, ZenonT(40)
<1>5. PendingOK'
  <2>1. UNCHANGED <<pc, call, firstCall, live, stopped, unstarted, toSend, pending>>
    BY ZenonT(40) DEF thread, pending, scheduled
  <2>2. \A f \in Calls, b \in Activities : la[f][b].st # "None" => la'[f][b].st # "None"
    BY ZenonT(40) DEF Sets
  <2>3. pending \subseteq Activities
    BY ZenonT(40) DEF pending, scheduled
  <2>4. live => \A b \in pending \ unstarted : \E f \in firstCall..call : f \in Calls /\ la'[f][b].st # "None"
    BY <2>2, <2>3, ZenonT(40) DEF IInv, PendingOK
  <2>5. ASSUME ~stopped, pc \in InLoop, NEW b \in pending, la'[call][b].st # "None"
        PROVE  la'[call][b].st \in InFlight
    <3>1. call \in Calls
      BY <2>5, ZenonT(40) DEF IInv, Numbered, InLoop
    <3>. QED
      BY <2>3, <2>5, <3>1, ZenonT(40) DEF IInv, PendingOK, Sets
  <2>. QED
    BY <2>1, <2>4, <2>5 DEF IInv, PendingOK
<1>. QED
  BY <1>1, <1>2, <1>3, <1>4, <1>5, ZenonT(40) DEF IInv

\* The stage of a task of the pool, and what its record is then.
LEMMA StageOf ==
    ASSUME TypeOK, NEW e \in Calls, NEW a \in Activities, NEW s \in Stages
    PROVE  /\ [st |-> s, attempt |-> la[e][a].attempt] \in Task
           /\ [st |-> s, attempt |-> la[e][a].attempt].st = s
           /\ [st |-> s, attempt |-> la[e][a].attempt].attempt = la[e][a].attempt
  BY TasksTyped, ZenonT(40) DEF Task

LEMMA ExecuteStep ==
    ASSUME IInv, executeLocalActivityTask PROVE IInv'
<1>. DEFINE e == Head(queue)[1]
            a == Head(queue)[2]
<1>1. queue # <<>> /\ queue \in Queues /\ Head(queue) = queue[1] /\ 1 \in 1..Len(queue)
  <2>1. queue # <<>>
    BY ZenonT(40) DEF executeLocalActivityTask
  <2>2. queue \in Queues
    BY DEF IInv, TypeOK, Queues
  <2>. QED
    BY <2>1, <2>2 DEF Queues
<1>2. e \in Calls /\ a \in Activities /\ Head(queue) = <<e, a>>
  BY <1>1, QueueTyped, ZenonT(40) DEF IInv
<1>3. la[e][a].st = "Queued"
  BY <1>1, ZenonT(40) DEF IInv, QueueOK
<1>4. queue' = Tail(queue) /\ UNCHANGED <<thread, service, stopped>>
  BY ZenonT(40) DEF executeLocalActivityTask
<1>5. PICK s \in {"Executing", "Gone"} :
         la' = [la EXCEPT ![e][a].st = s] /\ (s = "Gone" => stopped)
  <2>1. CASE la' = [la EXCEPT ![e][a].st = "Executing"]
    BY <2>1, ZenonT(40)
  <2>2. CASE stopped /\ la' = [la EXCEPT ![e][a].st = "Gone"]
    BY <2>2, ZenonT(40)
  <2>. QED
    BY <2>1, <2>2, ZenonT(40) DEF executeLocalActivityTask
<1>. DEFINE r == [st |-> s, attempt |-> la[e][a].attempt]
<1>. HIDE DEF e, a
<1>6. s \in Stages
  BY DEF Stages, InFlight, Holding
<1>7. Sets(e, a, r)
  BY <1>2, <1>5, <1>6, StageSet, ZenonT(40) DEF IInv
<1>8. r \in Task /\ r.st = s
  BY <1>2, <1>6, StageOf, ZenonT(40) DEF IInv
<1>. HIDE DEF r
<1>9. QueueOK' /\ queue' \in Queues /\ Len(queue') <= QueueSize
  BY <1>1, <1>2, <1>4, <1>7, QueueTaken DEF IInv
<1>10. /\ la[e][a].st # "None" /\ r.st # "None"
       /\ la[e][a].st \in InFlight
       /\ ~stopped => r.st \in InFlight
       /\ r.st # "Backoff" /\ r.st # "Retrying"
  BY <1>3, <1>5, <1>8, ZenonT(40) DEF InFlight, Holding
<1>. QED
  BY <1>2, <1>4, <1>7, <1>8, <1>9, <1>10, PoolMoves, ZenonT(40)

LEMMA ReturnsStep ==
    ASSUME IInv, NEW e \in Calls, NEW a \in Activities, LocalActivityReturns(e, a) PROVE IInv'
<1>1. PICK s \in HasResult : la' = [la EXCEPT ![e][a].st = s]
  BY ZenonT(40) DEF LocalActivityReturns
<1>. DEFINE r == [st |-> s, attempt |-> la[e][a].attempt]
<1>2. la[e][a].st = "Executing" /\ UNCHANGED <<thread, service, queue, stopped>>
  BY DEF LocalActivityReturns
<1>3. s \in Stages
  BY DEF Stages, InFlight, Holding
<1>4. Sets(e, a, r)
  BY <1>1, <1>3, StageSet, ZenonT(40) DEF IInv
<1>5. r \in Task /\ r.st = s
  BY <1>3, StageOf, ZenonT(40) DEF IInv
<1>. HIDE DEF r
<1>6. QueueOK' /\ queue' \in Queues /\ Len(queue') <= QueueSize
  BY <1>2, <1>4, QueueKept, ZenonT(40) DEF IInv, TypeOK, Queues
<1>7. /\ la[e][a].st # "None" /\ r.st # "None"
      /\ la[e][a].st \in InFlight /\ r.st \in InFlight
      /\ r.st # "Backoff" /\ r.st # "Retrying"
  BY <1>2, <1>5 DEF InFlight, Holding, HasResult
<1>. QED
  BY <1>2, <1>4, <1>5, <1>6, <1>7, PoolMoves, ZenonT(40)

LEMMA DropStep ==
    ASSUME IInv, NEW e \in Calls, NEW a \in Activities, DropResult(e, a) PROVE IInv'
<1>. DEFINE r == [st |-> "Gone", attempt |-> la[e][a].attempt]
<1>1. /\ la[e][a].st \in HasResult /\ doneChClosed(e) /\ la' = [la EXCEPT ![e][a].st = "Gone"]
      /\ UNCHANGED <<thread, service, queue, stopped>>
  BY DEF DropResult
<1>2. "Gone" \in Stages
  BY DEF Stages
<1>3. Sets(e, a, r)
  BY <1>1, <1>2, StageSet, ZenonT(40) DEF IInv
<1>4. r \in Task /\ r.st = "Gone"
  BY <1>2, StageOf, ZenonT(40) DEF IInv
<1>. HIDE DEF r
<1>5. QueueOK' /\ queue' \in Queues /\ Len(queue') <= QueueSize
  BY <1>1, <1>3, QueueKept, ZenonT(40) DEF IInv, TypeOK, Queues, HasResult
<1>6. la[e][a].st # "None" /\ r.st # "None" /\ r.st \notin InFlight
  BY <1>1, <1>4, ZenonT(40) DEF InFlight, Holding, HasResult
<1>7. ~(pc \in InLoop /\ e = call)
  BY <1>1 DEF doneChClosed, InLoop, IInv, TypeOK, Calls
<1>. QED
  BY <1>1, <1>3, <1>4, <1>5, <1>6, <1>7, PoolMoves, ZenonT(40)

\* A retry timer of the running call finds the context and its local activity.
LEMMA TimerFiresStep ==
    ASSUME IInv, NEW e \in Calls, NEW a \in Activities, RetryTimerFires(e, a) PROVE IInv'
<1>. DEFINE goesOn == live /\ e >= firstCall /\ a \in pending
            r == IF goesOn THEN [st |-> "Retrying", attempt |-> la[e][a].attempt + 1]
                 ELSE [la[e][a] EXCEPT !.st = "Gone"]
<1>1. /\ la[e][a].st = "Backoff" /\ la' = [la EXCEPT ![e][a] = r]
      /\ UNCHANGED <<thread, service, queue, stopped>>
  BY ZenonT(40) DEF RetryTimerFires
<1>2. la[e][a] \in Task /\ la[e][a].attempt \in Nat /\ la[e][a].attempt < MaximumAttempts
  BY <1>1, TasksTyped DEF IInv, TasksOK
<1>3. /\ r \in Task
      /\ goesOn => r.st = "Retrying" /\ r.attempt > 0
      /\ ~goesOn => r.st = "Gone"
  <2>1. CASE goesOn
    BY <1>2, <2>1, LocalActivitiesAssumption DEF Task, Stages, InFlight
  <2>2. CASE ~goesOn
    <3>1. [la[e][a] EXCEPT !.st = "Gone"] = [st |-> "Gone", attempt |-> la[e][a].attempt]
      BY <1>2 DEF Task
    <3>. QED
      BY <1>2, <2>2, <3>1, StageOf DEF IInv, Stages
  <2>. QED
    BY <2>1, <2>2, ZenonT(40)
<1>4. pc \in InLoop /\ e = call => goesOn
  <2>. SUFFICES ASSUME pc \in InLoop, e = call PROVE goesOn
    OBVIOUS
  <2>1. live /\ e >= firstCall
    BY ZenonT(40) DEF IInv, ContextOK, TypeOK
  <2>2. a \in pending
    BY <1>1, ZenonT(40) DEF IInv, TasksOK, pending, scheduled, InFlight
  <2>. QED
    BY <2>1, <2>2
<1>. HIDE DEF r, goesOn
<1>5. Sets(e, a, r)
  BY <1>1, <1>3, TaskSet, ZenonT(40) DEF IInv
<1>6. QueueOK' /\ queue' \in Queues /\ Len(queue') <= QueueSize
  BY <1>1, <1>5, QueueKept, ZenonT(40) DEF IInv, TypeOK, Queues
<1>7. /\ la[e][a].st # "None" /\ r.st # "None" /\ la[e][a].st \in InFlight
      /\ goesOn => r.st \in InFlight
      /\ r.st # "Backoff" /\ (r.st = "Retrying" => r.attempt > 0)
  BY <1>1, <1>3, ZenonT(40) DEF InFlight, Holding, HasResult
<1>. QED
  BY <1>1, <1>3, <1>4, <1>5, <1>6, <1>7, PoolMoves, ZenonT(40)

LEMMA TimerSendsStep ==
    ASSUME IInv, NEW e \in Calls, NEW a \in Activities, RetryTimerSends(e, a) PROVE IInv'
<1>1. la[e][a].st = "Retrying" /\ UNCHANGED <<thread, service, stopped>>
  BY ZenonT(40) DEF RetryTimerSends
<1>2. CASE /\ Len(queue) < QueueSize
           /\ queue' = Append(queue, <<e, a>>)
           /\ la' = [la EXCEPT ![e][a].st = "Queued"]
  <2>. DEFINE r == [st |-> "Queued", attempt |-> la[e][a].attempt]
  <2>1. "Queued" \in Stages
    BY DEF Stages, InFlight
  <2>2. Sets(e, a, r)
    BY <1>2, <2>1, StageSet, ZenonT(40) DEF IInv
  <2>3. r \in Task /\ r.st = "Queued"
    BY <2>1, StageOf, ZenonT(40) DEF IInv
  <2>. HIDE DEF r
  <2>4. QueueOK' /\ queue' \in Queues /\ Len(queue') <= QueueSize
    BY <1>1, <1>2, <2>2, <2>3, QueueAppended, ZenonT(40) DEF IInv
  <2>5. la[e][a].st \in InFlight /\ r.st \in InFlight
    BY <1>1, <2>3 DEF InFlight
  <2>. QED
    BY <1>1, <2>2, <2>3, <2>4, <2>5, PoolMoves, ZenonT(40)
<1>3. CASE /\ stopped
           /\ la' = [la EXCEPT ![e][a] = [st |-> "Gone", attempt |-> @.attempt - 1]]
           /\ UNCHANGED queue
  <2>. DEFINE r == [st |-> "Gone", attempt |-> la[e][a].attempt - 1]
  <2>1. la' = [la EXCEPT ![e][a] = r]
    BY <1>3, ZenonT(40)
  <2>2. la[e][a].attempt \in 0..MaximumAttempts /\ la[e][a].attempt > 0
    BY <1>1, TasksTyped, ZenonT(40) DEF IInv, TasksOK
  <2>3. r \in Task /\ r.st = "Gone"
    BY <2>2, LocalActivitiesAssumption DEF Task, Stages
  <2>. HIDE DEF r
  <2>4. Sets(e, a, r)
    BY <2>1, <2>3, TaskSet, ZenonT(40) DEF IInv
  <2>5. QueueOK' /\ queue' \in Queues /\ Len(queue') <= QueueSize
    BY <1>1, <1>3, <2>4, QueueKept, ZenonT(40) DEF IInv, TypeOK, Queues
  <2>6. la[e][a].st \in InFlight
    BY <1>1 DEF InFlight
  <2>. QED
    BY <1>1, <1>3, <2>3, <2>4, <2>5, <2>6, PoolMoves, ZenonT(40)
<1>. QED
  BY <1>2, <1>3, ZenonT(40) DEF RetryTimerSends

-----------------------------------------------------------------------------
(* The steps of processWorkflowTask and of the service                     *)

LEMMA Flags ==
    TypeOK => /\ retry \in BOOLEAN /\ live \in BOOLEAN /\ finished \in BOOLEAN
              /\ closed \in BOOLEAN /\ stopped \in BOOLEAN
  BY DEF TypeOK

\* The pool and the state of the workflow stay what they are.
LEMMA ThreadMoves ==
    ASSUME IInv, TypeOK', Numbered', UNCHANGED <<call, firstCall, done, unstarted, pool>>,
           live' => live, pc' \in InLoop => pc \in InLoop /\ live',
           pc' # "Send" => toSend' = {},
           pc' # "Idle" \/ completed' = current' => recorded' \subseteq done,
           stopped => stopped',
           ~stopped' /\ pc' = "Send" => toSend' = unstarted,
           ~stopped' /\ pc' = "Wait" => unstarted = {}
    PROVE  IInv'
<1>1. UNCHANGED <<la, queue, pending>>
  BY DEF pool, pending, scheduled
<1>2. ContextOK'
  BY <1>1, ZenonT(40) DEF IInv, ContextOK
<1>3. QueueOK'
  BY <1>1, ZenonT(40) DEF IInv, QueueOK
<1>4. TasksOK'
  BY <1>1, ZenonT(40) DEF IInv, TasksOK
<1>5. PendingOK'
  BY <1>1, ZenonT(40) DEF IInv, PendingOK
<1>. QED
  BY <1>2, <1>3, <1>4, <1>5 DEF IInv

LEMMA ProcessedStep ==
    ASSUME IInv, NEW completes \in BOOLEAN, Processed(completes) PROVE IInv'
<1>1. /\ pc = "Process" /\ pc' \in {"Respond", "Send"}
      /\ finished' \in BOOLEAN /\ live' \in BOOLEAN
  BY ZenonT(40) DEF Processed
<1>2. /\ pc' = "Respond" => toSend' = {}
      /\ pc' = "Send" => toSend' = unstarted /\ live'
  <2>1. CASE finished'
    BY <2>1 DEF Processed
  <2>2. CASE ~finished'
    BY <2>2, ZenonT(40) DEF Processed
  <2>. QED
    BY <2>1, <2>2
<1>3. UNCHANGED <<call, outer, current, firstCall, done, unstarted, service, pool, stopped>>
  BY DEF Processed
<1>4. TypeOK'
  BY <1>1, <1>2, <1>3, ZenonT(40) DEF IInv, TypeOK, service, pool
<1>5. Numbered'
  BY <1>1, <1>3 DEF IInv, Numbered, service
<1>6. live /\ recorded' \subseteq done
  BY <1>1, <1>3 DEF IInv, ContextOK, InLoop, service
<1>. QED
  BY <1>1, <1>2, <1>3, <1>4, <1>5, <1>6, ThreadMoves DEF InLoop, service

LEMMA CompleteStep ==
    ASSUME IInv, CompleteDecisionTask PROVE IInv'
<1>1. /\ pc = "Send" /\ pc' \in {"Wait", "Respond"} /\ toSend = {}
      /\ UNCHANGED <<call, outer, current, firstCall, live, done, unstarted, toSend, finished,
                     service, pool, stopped>>
  BY DEF CompleteDecisionTask
<1>2. TypeOK'
  BY <1>1, ZenonT(40) DEF IInv, TypeOK, service, pool
<1>3. Numbered'
  BY <1>1, ZenonT(40) DEF IInv, Numbered, service
<1>4. live /\ recorded' \subseteq done /\ (~stopped => unstarted = {})
  BY <1>1, ZenonT(40) DEF IInv, ContextOK, PendingOK, InLoop, service
<1>. QED
  BY <1>1, <1>2, <1>3, <1>4, ThreadMoves, ZenonT(40) DEF InLoop, service

\* The steps after which processWorkflowTask has returned, or fails.
LEMMA LoopEnds ==
    ASSUME IInv, pc' \in {"Idle", "Fail"}, pc' = "Fail" => pc = "Process" /\ UNCHANGED <<recorded, completed>>,
           live' \in BOOLEAN, live' => live,
           UNCHANGED <<call, outer, current, firstCall, done, unstarted, toSend, finished,
                       tasks, initial, pool, stopped>>,
           pc # "Idle", pc # "Send",
           \/ UNCHANGED <<recorded, completed, closed>>
           \/ recorded' = done /\ completed' = current /\ (closed' = closed \/ closed' = finished),
           retry' = retry \/ retry' = TRUE, open' \in {open, 0}
    PROVE  IInv'
<1>1. closed' \in BOOLEAN /\ retry' \in BOOLEAN
  BY Flags, ZenonT(40) DEF IInv
<1>2. TypeOK'
  BY <1>1, LocalActivitiesAssumption DEF IInv, TypeOK, pool
<1>3. Numbered'
  BY DEF IInv, Numbered, TypeOK
<1>4. toSend' = {}
  BY ZenonT(40) DEF IInv, ContextOK
<1>5. pc' # "Idle" \/ completed' = current' => recorded' \subseteq done
  BY ZenonT(40) DEF IInv, ContextOK
<1>. QED
  BY <1>2, <1>3, <1>4, <1>5, ThreadMoves, ZenonT(40) DEF InLoop

LEMMA LoopEndSteps ==
    ASSUME IInv, \/ ProcessFails \/ RespondTaskCompleted \/ RespondTaskFailed \/ HeartbeatRejected
                 \/ AbandonOnShutdown \/ HeartbeatSentAgain \/ HeartbeatAnswerLost
    PROVE  IInv'
<1>1. /\ pc' \in {"Idle", "Fail"}
      /\ pc' = "Fail" => pc = "Process" /\ UNCHANGED <<recorded, completed>>
      /\ pc # "Idle" /\ pc # "Send"
  BY ZenonT(40) DEF ProcessFails, RespondTaskCompleted, RespondTaskFailed, HeartbeatRejected, AbandonOnShutdown,
         HeartbeatSentAgain, HeartbeatAnswerLost, abandon, service
<1>2. UNCHANGED <<call, outer, current, firstCall, done, unstarted, toSend, finished,
                  tasks, initial, pool, stopped>>
  BY ZenonT(40) DEF ProcessFails, RespondTaskCompleted, RespondTaskFailed, HeartbeatRejected, AbandonOnShutdown,
         HeartbeatSentAgain, HeartbeatAnswerLost, abandon, service
<1>3. live' = live \/ live' = FALSE
  BY ZenonT(40) DEF ProcessFails, RespondTaskCompleted, RespondTaskFailed, HeartbeatRejected, AbandonOnShutdown,
         HeartbeatSentAgain, HeartbeatAnswerLost, abandon
<1>4. \/ UNCHANGED <<recorded, completed, closed>>
      \/ recorded' = done /\ completed' = current /\ (closed' = closed \/ closed' = finished)
  BY ZenonT(40) DEF ProcessFails, RespondTaskCompleted, RespondTaskFailed, HeartbeatRejected, AbandonOnShutdown,
         HeartbeatSentAgain, HeartbeatAnswerLost, abandon, service
<1>5. (retry' = retry \/ retry' = TRUE) /\ open' \in {open, 0}
  BY ZenonT(40) DEF ProcessFails, RespondTaskCompleted, RespondTaskFailed, HeartbeatRejected, AbandonOnShutdown,
         HeartbeatSentAgain, HeartbeatAnswerLost, abandon, service
<1>6. live' \in BOOLEAN /\ (live' => live)
  <2>1. CASE live' = live
    BY <2>1, Flags, ZenonT(40) DEF IInv
  <2>2. CASE live' = FALSE
    BY <2>2, ZenonT(40)
  <2>. QED
    BY <1>3, <2>1, <2>2, ZenonT(40)
<1>. QED
  BY <1>1, <1>2, <1>4, <1>5, <1>6, LoopEnds, ZenonT(40)

LEMMA HeartbeatStep ==
    ASSUME IInv, Heartbeat PROVE IInv'
<1>1. /\ pc = "Wait" /\ pc' = "Process" /\ tasks < MaxTasks
      /\ recorded' = done /\ completed' = current
      /\ tasks' = tasks + 1 /\ open' = tasks + 1 /\ current' = tasks + 1 /\ retry' = FALSE
      /\ initial' = initial \cup {tasks + 1}
      /\ UNCHANGED <<call, outer, firstCall, live, done, unstarted, toSend, finished, closed, pool, stopped>>
  BY DEF Heartbeat, starts
<1>2. TypeOK'
  <2>1. tasks + 1 \in 1..MaxTasks
    BY <1>1, LocalActivitiesAssumption DEF IInv, TypeOK
  <2>2. /\ outer \in 0..MaxTasks /\ current \in 0..MaxTasks
        /\ tasks + 1 \in 0..MaxTasks /\ initial \subseteq 1..MaxTasks
    BY <2>1 DEF IInv, TypeOK
  <2>3. {outer, current, open, tasks, completed}' \subseteq 0..MaxTasks
    BY <1>1, <2>2, ZenonT(40)
  <2>4. initial' \subseteq 1..MaxTasks
    BY <1>1, <2>1, <2>2, ZenonT(40)
  <2>5. {retry, live, finished, closed, stopped}' \subseteq BOOLEAN
    BY <1>1, Flags, ZenonT(40) DEF IInv
  <2>. QED
    BY <1>1, <2>3, <2>4, <2>5, ZenonT(40) DEF IInv, TypeOK, pool
<1>3. Numbered'
  BY <1>1 DEF IInv, Numbered, TypeOK
<1>4. live /\ toSend = {}
  BY <1>1, ZenonT(40) DEF IInv, ContextOK, InLoop
<1>. QED
  BY <1>1, <1>2, <1>3, <1>4, ThreadMoves DEF InLoop

LEMMA TimesOutStep ==
    ASSUME IInv, DecisionTimesOut PROVE IInv'
<1>1. open' = 0 /\ retry' = TRUE /\ UNCHANGED <<thread, tasks, initial, completed, recorded, closed, pool, stopped>>
  BY DEF DecisionTimesOut
<1>2. TypeOK'
  BY <1>1, LocalActivitiesAssumption DEF IInv, TypeOK, pool, thread
<1>3. Numbered'
  BY <1>1 DEF IInv, Numbered, thread
<1>4. /\ pc \in InLoop => live
      /\ pc # "Send" => toSend = {}
      /\ pc # "Idle" \/ completed = current => recorded \subseteq done
      /\ ~stopped /\ pc = "Send" => toSend = unstarted
      /\ ~stopped /\ pc = "Wait" => unstarted = {}
  BY ZenonT(40) DEF IInv, ContextOK, PendingOK
<1>. QED
  BY <1>1, <1>2, <1>3, <1>4, ThreadMoves, ZenonT(40) DEF thread

LEMMA StopStep ==
    ASSUME IInv, Stop PROVE IInv'
<1>1. stopped' = TRUE /\ UNCHANGED <<thread, service, pool>>
  BY DEF Stop
<1>2. TypeOK'
  BY <1>1, ZenonT(40) DEF IInv, TypeOK, pool, thread, service
<1>3. Numbered'
  BY <1>1 DEF IInv, Numbered, thread, service
<1>4. /\ pc \in InLoop => live
      /\ pc # "Send" => toSend = {}
      /\ pc # "Idle" \/ completed = current => recorded \subseteq done
  BY DEF IInv, ContextOK
<1>. QED
  BY <1>1, <1>2, <1>3, <1>4, ThreadMoves, ZenonT(40) DEF thread, service

LEMMA SendStep ==
    ASSUME IInv, NEW a \in Activities, sendTask(a) PROVE IInv'
<1>1. /\ pc = "Send" /\ a \in toSend /\ toSend' = toSend \ {a}
      /\ UNCHANGED <<call, pc, outer, current, firstCall, live, done, finished, service, stopped>>
  BY ZenonT(40) DEF sendTask
<1>2. /\ call \in Calls /\ live /\ firstCall <= call
      /\ a \in unstarted /\ a \in pending /\ recorded \subseteq done
  BY <1>1, ZenonT(40) DEF IInv, TypeOK, Numbered, ContextOK, InLoop
<1>3. CASE stopped /\ UNCHANGED <<pool, unstarted>>
  <2>1. TypeOK'
    BY <1>1, <1>3, ZenonT(40) DEF IInv, TypeOK, service, pool
  <2>2. Numbered'
    BY <1>1 DEF IInv, Numbered, service
  <2>. QED
    BY <1>1, <1>2, <1>3, <2>1, <2>2, ThreadMoves, ZenonT(40) DEF InLoop, service
<1>4. CASE /\ Len(queue) < QueueSize
           /\ queue' = Append(queue, <<call, a>>)
           /\ la' = [la EXCEPT ![call][a].st = "Queued"]
           /\ unstarted' = unstarted \ {a}
  <2>. DEFINE r == [st |-> "Queued", attempt |-> la[call][a].attempt]
  <2>1. "Queued" \in Stages /\ "Queued" \in InFlight
    BY DEF Stages, InFlight
  <2>2. Sets(call, a, r)
    BY <1>2, <1>4, <2>1, StageSet, ZenonT(40) DEF IInv
  <2>3. r \in Task /\ r.st = "Queued"
    BY <1>2, <2>1, StageOf, ZenonT(40) DEF IInv
  <2>. HIDE DEF r
  <2>4. la[call][a].st = "None"
    BY <1>1, <1>2, ZenonT(40) DEF IInv, TasksOK, InLoop
  <2>5. QueueOK' /\ queue' \in Queues /\ Len(queue') <= QueueSize
    BY <1>2, <1>4, <2>2, <2>3, <2>4, QueueAppended, ZenonT(40) DEF IInv
  <2>6. TypeOK'
    BY <1>1, <1>4, <2>2, <2>5, ZenonT(40) DEF IInv, TypeOK, service, Sets, Task, Stages, Queues
  <2>7. Numbered'
    BY <1>1 DEF IInv, Numbered, service
  <2>8. UNCHANGED pending
    BY <1>1 DEF pending, scheduled
  <2>9. ContextOK'
    BY <1>1, <1>2, <1>4, <2>8, ZenonT(40) DEF IInv, ContextOK, service
  <2>10. TasksOK'
    <3>. SUFFICES ASSUME NEW f \in Calls, NEW b \in Activities PROVE TasksOK!(f, b)'
      BY ZenonT(40) DEF TasksOK
    <3>1. CASE f = call /\ b = a
      BY <1>1, <1>2, <1>4, <2>2, <2>3, <3>1 DEF IInv, TasksOK, Sets, pending, scheduled, TypeOK
    <3>2. CASE f # call \/ b # a
      BY <1>1, <1>4, <2>2, <3>2 DEF IInv, TasksOK, Sets
    <3>. QED
      BY <3>1, <3>2, ZenonT(40)
  <2>11. PendingOK'
    <3>1. ASSUME NEW b \in pending, b \notin unstarted'
          PROVE  \E e \in firstCall..call : e \in Calls /\ la'[e][b].st # "None"
      <4>1. CASE b = a
        BY <1>2, <2>2, <2>3, <4>1 DEF IInv, TypeOK, Sets
      <4>2. CASE b # a
        <5>1. b \in Activities /\ b \notin unstarted
          BY <1>4, <3>1, <4>2 DEF pending, scheduled
        <5>2. PICK e \in firstCall..call : e \in Calls /\ la[e][b].st # "None"
          BY <1>2, <5>1, ZenonT(40) DEF IInv, PendingOK
        <5>. QED
          BY <2>2, <4>2, <5>1, <5>2 DEF Sets
      <4>. QED
        BY <4>1, <4>2, ZenonT(40)
    <3>2. ASSUME ~stopped, NEW b \in pending, la'[call][b].st # "None"
          PROVE  la'[call][b].st \in InFlight
      BY <1>1, <1>2, <2>1, <2>2, <2>3, <3>2, ZenonT(40) DEF IInv, PendingOK, InLoop, Sets, pending, scheduled
    <3>3. ~stopped => toSend' = unstarted'
      BY <1>1, <1>4, ZenonT(40) DEF IInv, PendingOK
    <3>. QED
      BY <1>1, <2>8, <3>1, <3>2, <3>3, ZenonT(40) DEF PendingOK
  <2>. QED
    BY <2>5, <2>6, <2>7, <2>9, <2>10, <2>11 DEF IInv
<1>. QED
  BY <1>3, <1>4, ZenonT(40) DEF sendTask

LEMMA ResultStep ==
    ASSUME IInv, NEW a \in Activities, ProcessLocalActivityResult(a) PROVE IInv'
<1>1. /\ pc = "Wait" /\ la[call][a].st \in HasResult
      /\ UNCHANGED <<call, outer, current, firstCall, live, toSend, finished, service, queue, stopped>>
  BY ZenonT(40) DEF ProcessLocalActivityResult
<1>2. /\ call \in Calls /\ live /\ toSend = {} /\ recorded \subseteq done
      /\ la[call][a].st \in InFlight /\ la[call][a].st # "None" /\ la[call][a].st # "Queued"
  BY <1>1, ZenonT(40) DEF IInv, Numbered, ContextOK, InLoop, HasResult, InFlight, Holding
<1>3. CASE retries(call, a)
  <2>. DEFINE r == [st |-> "Backoff", attempt |-> la[call][a].attempt]
  <2>1. la' = [la EXCEPT ![call][a].st = "Backoff"] /\ UNCHANGED <<thread, service, stopped, queue>>
    BY <1>1, <1>3, ZenonT(40) DEF ProcessLocalActivityResult, thread
  <2>2. "Backoff" \in Stages /\ "Backoff" \in InFlight
    BY DEF Stages, InFlight
  <2>3. Sets(call, a, r)
    BY <1>2, <2>1, <2>2, StageSet, ZenonT(40) DEF IInv
  <2>4. r \in Task /\ r.st = "Backoff" /\ r.attempt = la[call][a].attempt
    BY <1>2, <2>2, StageOf, ZenonT(40) DEF IInv
  <2>. HIDE DEF r
  <2>5. r.attempt < MaximumAttempts
    BY <1>2, <1>3, <2>4, TasksTyped, LocalActivitiesAssumption DEF IInv, retries
  <2>6. QueueOK' /\ queue' \in Queues /\ Len(queue') <= QueueSize
    BY <1>2, <2>1, <2>3, QueueKept, ZenonT(40) DEF IInv, TypeOK, Queues
  <2>. QED
    BY <1>2, <2>1, <2>2, <2>3, <2>4, <2>5, <2>6, PoolMoves, ZenonT(40)
<1>4. CASE ~retries(call, a)
  <2>. DEFINE r == [st |-> "Gone", attempt |-> la[call][a].attempt]
  <2>1. la' = [la EXCEPT ![call][a].st = "Gone"]
    BY <1>4, ZenonT(40) DEF ProcessLocalActivityResult
  <2>2. /\ done' = done \cup {a} /\ unstarted' = unstarted \cup (scheduled(done') \ pending)
        /\ pc' = "Process"
    BY <1>4, ZenonT(40) DEF ProcessLocalActivityResult
  <2>3. "Gone" \in Stages /\ "Gone" \notin InFlight
    BY DEF Stages, InFlight, Holding, HasResult
  <2>4. Sets(call, a, r)
    BY <1>2, <2>1, <2>3, StageSet, ZenonT(40) DEF IInv
  <2>5. r.st = "Gone"
    BY <1>2, <2>3, StageOf, ZenonT(40) DEF IInv
  <2>. HIDE DEF r
  <2>6. a \notin unstarted /\ a \notin done /\ After[a] \subseteq done
    BY <1>1, <1>2, ZenonT(40) DEF IInv, TasksOK, InLoop
  <2>7. pending' = scheduled(done') /\ pc' = "Process"
    BY <2>2 DEF pending, scheduled
  <2>8. QueueOK'
    BY <1>1, <1>2, <2>4, QueueKept, ZenonT(40) DEF IInv
  <2>9. unstarted' \subseteq pending'
    BY <2>2, <2>6, <2>7 DEF IInv, ContextOK, pending, scheduled
  <2>10. unstarted' \subseteq Activities \ done' /\ done' \subseteq Activities
    BY <2>2, <2>7, <2>9, ZenonT(40) DEF IInv, TypeOK, scheduled
  <2>11. TypeOK'
    BY <1>1, <1>2, <2>4, <2>7, <2>10, ZenonT(40) DEF IInv, TypeOK, service, Sets, Task, Stages
  <2>12. Numbered'
    BY <1>1, <2>2, ZenonT(40) DEF IInv, Numbered, service
  <2>13. ContextOK'
    <3>1. live' /\ pc' = "Process" /\ toSend' = {}
      BY <1>1, <1>2, <2>2, ZenonT(40)
    <3>2. recorded' = recorded /\ firstCall' = firstCall /\ call' = call
      BY <1>1, ZenonT(40) DEF service
    <3>3. recorded' \subseteq done'
      BY <1>2, <2>2, <3>2, ZenonT(40)
    <3>4. firstCall' <= call'
      BY <1>2, <3>2, ZenonT(40) DEF IInv, ContextOK
    <3>. QED
      BY <2>9, <3>1, <3>3, <3>4, ZenonT(40) DEF ContextOK
  <2>14. TasksOK'
    <3>. SUFFICES ASSUME NEW f \in Calls, NEW b \in Activities PROVE TasksOK!(f, b)'
      BY ZenonT(40) DEF TasksOK
    <3>1. CASE f = call /\ b = a
      BY <1>1, <2>2, <2>3, <2>4, <2>5, <2>6, <2>7, <3>1 DEF IInv, TasksOK, Sets, scheduled, TypeOK
    <3>2. CASE f # call
      BY <1>1, <2>4, <3>2, ZenonT(40) DEF IInv, TasksOK, Sets
    <3>3. CASE f = call /\ b # a
      BY <1>1, <2>2, <2>4, <3>3 DEF IInv, TasksOK, Sets, InLoop, pending, scheduled
    <3>. QED
      BY <3>1, <3>2, <3>3, ZenonT(40)
  <2>15. PendingOK'
    <3>1. ASSUME NEW b \in pending', b \notin unstarted'
          PROVE  \E e \in firstCall..call : e \in Calls /\ la'[e][b].st # "None"
      <4>1. b \in Activities /\ b # a /\ b \in pending /\ b \notin unstarted
        BY <2>2, <2>7, <3>1 DEF scheduled
      <4>2. PICK e \in firstCall..call : e \in Calls /\ la[e][b].st # "None"
        BY <1>2, <4>1, ZenonT(40) DEF IInv, PendingOK
      <4>. QED
        BY <2>4, <4>1, <4>2, ZenonT(40) DEF Sets
    <3>2. ASSUME ~stopped, NEW b \in pending', la'[call][b].st # "None"
          PROVE  la'[call][b].st \in InFlight
      <4>1. b \in Activities /\ b # a /\ b \notin done
        BY <2>2, <2>7 DEF scheduled
      <4>2. la'[call][b] = la[call][b]
        BY <1>2, <2>4, <4>1, ZenonT(40) DEF Sets
      <4>3. b \in pending
        BY <1>1, <1>2, <3>2, <4>1, <4>2, ZenonT(40) DEF IInv, TasksOK, InLoop, pending, scheduled
      <4>. QED
        BY <1>1, <3>2, <4>2, <4>3, ZenonT(40) DEF IInv, PendingOK, InLoop
    <3>. QED
      BY <1>1, <2>7, <3>1, <3>2, ZenonT(40) DEF PendingOK, InLoop
  <2>. QED
    BY <2>8, <2>11, <2>12, <2>13, <2>14, <2>15 DEF IInv
<1>. QED
  BY <1>3, <1>4

\* A call starts from the cached context, which is not behind the history, or from
\* the history.
LEMMA ProcessWorkflowTaskStep ==
    ASSUME IInv, processWorkflowTask PROVE IInv'
<1>1. /\ pc = "Idle" /\ tasks < MaxTasks /\ pc' = "Process"
      /\ tasks' = tasks + 1 /\ open' = tasks + 1 /\ current' = tasks + 1 /\ outer' = tasks + 1
      /\ retry' = FALSE /\ call' = call + 1 /\ live' = TRUE /\ finished' = FALSE
      /\ UNCHANGED <<toSend, completed, recorded, closed, pool, stopped>>
  BY DEF processWorkflowTask, starts
<1>2. firstCall' = IF live THEN firstCall ELSE call + 1
  BY DEF processWorkflowTask
<1>3. initial' \subseteq initial \cup {tasks + 1}
  BY DEF processWorkflowTask
<1>4. \/ live /\ completed = current /\ UNCHANGED <<done, unstarted>>
      \/ done' = recorded /\ unstarted' = scheduled(recorded)
  BY DEF processWorkflowTask
<1>5. /\ tasks + 1 \in 1..MaxTasks /\ call + 1 \in Calls /\ call \in Nat /\ tasks \in Nat
      /\ call + 1 <= tasks + 1 /\ completed < tasks + 1 /\ completed \in 0..MaxTasks
      /\ firstCall \in 0..MaxTasks
  BY <1>1, LocalActivitiesAssumption DEF IInv, TypeOK, Numbered, Calls
<1>6. /\ recorded \subseteq done' /\ unstarted' \subseteq pending'
      /\ done' \subseteq Activities /\ unstarted' \subseteq Activities \ done'
  <2>1. CASE live /\ completed = current /\ UNCHANGED <<done, unstarted>>
    BY <2>1, ZenonT(40) DEF IInv, TypeOK, ContextOK, pending, scheduled
  <2>2. CASE done' = recorded /\ unstarted' = scheduled(recorded)
    BY <2>2 DEF IInv, TypeOK, pending, scheduled
  <2>. QED
    BY <1>4, <2>1, <2>2
<1>7. firstCall' \in 0..MaxTasks /\ firstCall' <= call'
  BY <1>1, <1>2, <1>5 DEF IInv, ContextOK, Calls
<1>8. toSend' = {} /\ UNCHANGED <<la, queue>>
  BY <1>1 DEF IInv, ContextOK, pool
<1>9. TypeOK'
  <2>1. {outer, current, open, tasks, completed}' \subseteq 0..MaxTasks
    <3>1. tasks + 1 \in 0..MaxTasks
      BY <1>5
    <3>. QED
      BY <1>1, <1>5, <3>1, ZenonT(40)
  <2>2. initial' \subseteq 1..MaxTasks
    <3>1. initial \subseteq 1..MaxTasks
      BY DEF IInv, TypeOK
    <3>. QED
      BY <1>3, <1>5, <3>1
  <2>3. {retry, live, finished, closed, stopped}' \subseteq BOOLEAN
    BY <1>1, Flags, ZenonT(40) DEF IInv
  <2>4. call' \in 0..MaxTasks
    BY <1>1, <1>5 DEF Calls
  <2>5. pc' \in {"Idle", "Process", "Send", "Wait", "Respond", "Fail"} /\ recorded' = recorded
    BY <1>1
  <2>. QED
    BY <1>6, <1>7, <1>8, <2>1, <2>2, <2>3, <2>4, <2>5 DEF IInv, TypeOK
<1>10. Numbered'
  BY <1>1, <1>5 DEF Numbered
<1>11. ContextOK'
  <2>1. pc' = "Process" /\ live' /\ recorded' = recorded
    BY <1>1
  <2>. QED
    BY <1>6, <1>7, <1>8, <2>1 DEF ContextOK
<1>12. QueueOK'
  BY <1>8, ZenonT(40) DEF IInv, QueueOK
<1>13. TasksOK'
  <2>. SUFFICES ASSUME NEW f \in Calls, NEW b \in Activities PROVE TasksOK!(f, b)'
    BY ZenonT(40) DEF TasksOK
  <2>1. f >= call + 1 => la[f][b].st = "None"
    BY <1>5 DEF IInv, TasksOK, Calls
  <2>2. call' = call + 1 /\ "None" \notin InFlight
    BY <1>1 DEF InFlight, Holding, HasResult
  <2>. QED
    BY <1>5, <1>8, <2>1, <2>2 DEF IInv, TasksOK, Calls
<1>14. PendingOK'
  <2>1. ASSUME NEW b \in pending', b \notin unstarted'
        PROVE  \E e \in firstCall'..call' : e \in Calls /\ la'[e][b].st # "None"
    <3>1. CASE live /\ completed = current /\ UNCHANGED <<done, unstarted>>
      <4>1. b \in pending /\ b \notin unstarted /\ firstCall' = firstCall
        BY <1>2, <2>1, <3>1 DEF pending, scheduled
      <4>2. PICK e \in firstCall..call : e \in Calls /\ la[e][b].st # "None"
        BY <3>1, <4>1, ZenonT(40) DEF IInv, PendingOK
      <4>3. e \in firstCall'..call'
        BY <1>1, <1>5, <4>1, <4>2
      <4>. QED
        BY <1>8, <4>2, <4>3
    <3>2. CASE done' = recorded /\ unstarted' = scheduled(recorded)
      BY <2>1, <3>2 DEF pending, scheduled
    <3>. QED
      BY <1>4, <3>1, <3>2, ZenonT(40)
  <2>2. ASSUME NEW b \in pending' PROVE la'[call'][b].st = "None"
    <3>1. b \in Activities
      BY DEF pending, scheduled
    <3>. QED
      BY <1>1, <1>5, <1>8, <3>1 DEF IInv, TasksOK
  <2>3. pc' = "Process"
    BY <1>1
  <2>. QED
    BY <2>1, <2>2, <2>3, ZenonT(40) DEF PendingOK
<1>. QED
  BY <1>9, <1>10, <1>11, <1>12, <1>13, <1>14 DEF IInv

-----------------------------------------------------------------------------
(* The invariant                                                           *)

LEMMA InitIInv == Init => IInv
<1>. SUFFICES ASSUME Init PROVE IInv
  OBVIOUS
<1>1. la = [e \in Calls |-> [a \in Activities |-> [st |-> "None", attempt |-> 0]]]
  BY DEF Init
<1>2. la \in [Calls -> [Activities -> Task]]
  BY <1>1, LocalActivitiesAssumption DEF Task, Stages
<1>3. \A e \in Calls, a \in Activities : la[e][a].st = "None"
  BY <1>1
<1>4. TypeOK
  <2>1. la \in [Calls -> [Activities -> [st : {"None", "Gone"} \cup InFlight, attempt : 0..MaximumAttempts]]]
    BY <1>2 DEF Task, Stages
  <2>2. queue \in Seq(Calls \X Activities) /\ Len(queue) = 0
    BY DEF Init
  <2>3. {retry, live, finished, closed, stopped} \subseteq BOOLEAN
    BY ZenonT(40) DEF Init
  <2>4. 0 \in 0..MaxTasks /\ 0 <= QueueSize
    BY LocalActivitiesAssumption
  <2>5. /\ call \in 0..MaxTasks /\ firstCall \in 0..MaxTasks
        /\ {outer, current, open, tasks, completed} \subseteq 0..MaxTasks
    BY <2>4, ZenonT(40) DEF Init
  <2>. QED
    BY <2>1, <2>2, <2>3, <2>4, <2>5 DEF Init, TypeOK
<1>5. Numbered /\ ContextOK /\ QueueOK
  BY DEF Init, Numbered, ContextOK, QueueOK, InLoop
<1>6. TasksOK
  BY <1>3, ZenonT(40) DEF Init, TasksOK, InLoop
<1>7. PendingOK
  BY ZenonT(40) DEF Init, PendingOK, InLoop
<1>. QED
  BY <1>4, <1>5, <1>6, <1>7 DEF IInv

LEMMA StutterStep ==
    ASSUME IInv, UNCHANGED vars PROVE IInv'
<1>1. TypeOK' /\ Numbered'
  BY ZenonT(40) DEF IInv, TypeOK, Numbered, vars, thread, service, pool
<1>2. /\ pc \in InLoop => live
      /\ pc # "Send" => toSend = {}
      /\ pc # "Idle" \/ completed = current => recorded \subseteq done
      /\ ~stopped /\ pc = "Send" => toSend = unstarted
      /\ ~stopped /\ pc = "Wait" => unstarted = {}
  BY ZenonT(40) DEF IInv, ContextOK, PendingOK
<1>. QED
  BY <1>1, <1>2, ThreadMoves, ZenonT(40) DEF vars, thread, service

LEMMA NextIInv == IInv /\ [Next]_vars => IInv'
<1>. SUFFICES ASSUME IInv, [Next]_vars PROVE IInv'
  OBVIOUS
<1>1. CASE processWorkflowTask
  BY <1>1, ProcessWorkflowTaskStep
<1>2. CASE DecisionStep
  <2>1. ASSUME NEW b \in BOOLEAN, Processed(b) PROVE IInv'
    BY <2>1, ProcessedStep
  <2>2. ASSUME NEW a \in Activities, sendTask(a) PROVE IInv'
    BY <2>2, SendStep
  <2>3. CASE CompleteDecisionTask
    BY <2>3, CompleteStep
  <2>4. CASE ProcessFails \/ RespondTaskCompleted \/ RespondTaskFailed \/ HeartbeatRejected \/ AbandonOnShutdown
    BY <2>4, LoopEndSteps
  <2>. QED
    BY <1>2, <2>1, <2>2, <2>3, <2>4 DEF DecisionStep
<1>3. CASE Heartbeat
  BY <1>3, HeartbeatStep
<1>4. CASE HeartbeatSentAgain \/ HeartbeatAnswerLost
  BY <1>4, LoopEndSteps
<1>5. ASSUME NEW a \in Activities, ProcessLocalActivityResult(a) PROVE IInv'
  BY <1>5, ResultStep
<1>6. CASE DecisionTimesOut
  BY <1>6, TimesOutStep
<1>7. CASE executeLocalActivityTask
  BY <1>7, ExecuteStep
<1>8. ASSUME NEW e \in Calls, NEW a \in Activities, PoolStep(e, a) PROVE IInv'
  BY <1>8, ReturnsStep, DropStep, TimerFiresStep, TimerSendsStep DEF PoolStep
<1>9. CASE Stop
  BY <1>9, StopStep
<1>10. CASE UNCHANGED vars
  BY <1>10, StutterStep
<1>. QED
  BY <1>1, <1>2, <1>3, <1>4, <1>5, <1>6, <1>7, <1>8, <1>9, <1>10 DEF Next

LEMMA AlwaysIInv == Spec => []IInv
  BY InitIInv, NextIInv, PTL DEF Spec

-----------------------------------------------------------------------------
(* Theorems                                                                *)

\* No local activity task of the running call is sent a second time, by whatever
\* order of heartbeats, retries, cached contexts and lost answers.
THEOREM NoneIsSentTwice == Spec => []NothingSentTwice
<1>1. IInv => NothingSentTwice
  BY ZenonT(40) DEF IInv, NothingSentTwice, Numbered, ContextOK, TasksOK, InLoop, InFlight, Holding, HasResult,
         pending, scheduled
<1>. QED
  BY <1>1, AlwaysIInv, PTL

\* processWorkflowTask does not wait for a local activity that nobody works on,
\* other than one that a call before left behind.
THEOREM NoneIsForgotten == Spec => []PendingIsInFlight
<1>1. IInv => PendingIsInFlight
  <2>. SUFFICES ASSUME IInv, pc = "Wait", ~stopped, NEW a \in pending \ leftBehind
                PROVE  la[call][a].st \in InFlight
    BY DEF PendingIsInFlight
  <2>1. live /\ a \in pending \ unstarted
    BY ZenonT(40) DEF IInv, ContextOK, PendingOK, InLoop
  <2>2. PICK e \in firstCall..call : e \in Calls /\ la[e][a].st # "None"
    BY <2>1, ZenonT(40) DEF IInv, PendingOK
  <2>3. e = call
    BY <2>2 DEF leftBehind, IInv, TypeOK
  <2>. QED
    BY <2>2, <2>3, ZenonT(40) DEF IInv, PendingOK, InLoop
<1>. QED
  BY <1>1, AlwaysIInv, PTL
=============================================================================
