--------------------------- MODULE WorkflowCache ---------------------------
(***************************************************************************)
(* The decision and query tasks of one workflow run on one worker: the     *)
(* sticky cache of workflowExecutionContexts, their locks, eviction, and   *)
(* the rebuilding of a state that is missing, destroyed or stale.  An      *)
(* eviction holds the lock of its context until the worker's dispatcher    *)
(* has taken the task that resets the stickiness of the run.               *)
(*                                                                         *)
(* What a context has computed is abstracted to the sequence of decision   *)
(* tasks that it has applied: `applied' should be, task by task, what the  *)
(* service's history records.  A decision task is numbered when it is      *)
(* started, and has the ID of its DecisionTaskStarted event.  The first    *)
(* attempt of a decision writes its events; the later ones are transient   *)
(* and have the same event IDs, as toWorkflowTask says, until one is       *)
(* completed.                                                              *)
(***************************************************************************)
EXTENDS Integers, Sequences, FiniteSets

CONSTANTS None,
          Threads,      \* the worker's goroutines that process tasks of this run
          Deciders,     \* those of them that are given decision tasks,
          Queriers,     \* and query tasks; the code gives both to any of them
          Contexts,     \* the workflowExecutionContexts that may exist at a time
          MaxTasks,     \* bound on the tasks that the service starts
          MaxQueries,   \* bound on those of them that are queries
          FullQueries,  \* queries come with the full history too
          Transient     \* a repeated attempt reuses the event IDs

ASSUME WorkflowCacheAssumption ==
    /\ MaxTasks \in Nat /\ MaxQueries \in Nat
    /\ {FullQueries, Transient} \subseteq BOOLEAN
    /\ Deciders \subseteq Threads /\ Queriers \subseteq Threads
    /\ {None, 0} \cap Threads = {}
    /\ None \notin Contexts \cup {0}

VARIABLES
    history,   \* at the service: the completed decisions, <<task, started ID>>
    open,      \* the task that the service waits for, or 0
    started,   \* the tasks that were started
    nextId,    \* the ID of the next decision's started event
    retried,   \* the decision was tried before, where that matters: if Transient
    closed,    \* the workflow is closed
    sticky,    \* the service sends tasks to this worker with partial history
    queries,   \* the query tasks that were sent
    cache,     \* the context that is cached for the run, or None
    evicting,  \* contexts whose onEviction has not ended
    ctx,       \* the contexts
    thread     \* the threads

decisions == <<history, open, started, nextId, retried, closed>>
service == <<decisions, sticky, queries>>
vars == <<service, cache, evicting, ctx, thread>>

\* An event handler that does not exist has applied nothing.
Cleared ==
    [live |-> FALSE, applied |-> <<>>, prev |-> 0, repeats |-> FALSE, ended |-> FALSE,
     lock |-> None]
New == [Cleared EXCEPT !.live = TRUE]

Idle == [pc |-> "Idle"]

\* The goroutine of onEviction, as the holder of a lock.
Evictor == 0

Range(s) == {s[i] : i \in DOMAIN s}
Entries == (1..MaxTasks) \X (1..(MaxTasks + 1))

TypeOK ==
    /\ Len(history) <= MaxTasks /\ Range(history) \subseteq Entries
    /\ open \in 0..MaxTasks /\ started \in 0..MaxTasks
    /\ nextId \in 1..(MaxTasks + 1)
    /\ {retried, closed, sticky} \subseteq BOOLEAN
    /\ queries \in 0..MaxQueries
    /\ cache \in Contexts \cup {None}
    /\ evicting \subseteq Contexts
    /\ \A c \in Contexts : ctx[c].live \/ ctx[c].applied = <<>>
    /\ \A t \in Threads :
         thread[t].pc \in {"Idle", "Lookup", "Create", "Lock", "Locked", "Processed", "Unlock", "Respond"}

Init ==
    /\ history = <<>> /\ open = 0 /\ started = 0 /\ nextId = 1
    /\ retried = FALSE /\ closed = FALSE /\ sticky = FALSE /\ queries = 0
    /\ cache = None /\ evicting = {}
    /\ ctx = [c \in Contexts |-> Cleared]
    /\ thread = [t \in Threads |-> Idle]

-----------------------------------------------------------------------------
(* The service                                                             *)

\* A decision task with the history from its start, or with the events since
\* the last completed decision.
DecisionTask(full) ==
    [query |-> FALSE, full |-> full, base |-> history, n |-> started + 1, id |-> nextId]

\* A query task that is dispatched to the sticky worker has no history.
QueryTask(full) ==
    [query |-> TRUE, full |-> full, base |-> IF full THEN history ELSE <<>>, n |-> 0, id |-> 0]

tasksLeft == started + queries < MaxTasks

Lookup(task) == [pc |-> "Lookup", task |-> task]

PollDecision(t) ==
    /\ thread[t].pc = "Idle" /\ t \in Deciders
    /\ open = 0 /\ tasksLeft /\ ~closed
    /\ \E full \in BOOLEAN :
         /\ full \/ (sticky /\ history # <<>>)
         /\ thread' = [thread EXCEPT ![t] = Lookup(DecisionTask(full))]
    /\ started' = started + 1 /\ open' = started + 1
    /\ UNCHANGED <<history, nextId, retried, closed, sticky, queries, cache, evicting, ctx>>

PollQuery(t) ==
    /\ thread[t].pc = "Idle" /\ t \in Queriers
    /\ tasksLeft /\ queries < MaxQueries /\ history # <<>>
    /\ queries' = queries + 1
    /\ \E full \in BOOLEAN :
         /\ IF full THEN FullQueries ELSE sticky
         /\ thread' = [thread EXCEPT ![t] = Lookup(QueryTask(full))]
    /\ UNCHANGED <<decisions, sticky, cache, evicting, ctx>>

\* The decision times out, or the service was told that it failed: it is tried
\* again, with the full history.
DecisionTimesOut ==
    /\ open # 0
    /\ open' = 0
    /\ retried' = Transient
    /\ nextId' = IF Transient /\ retried THEN nextId ELSE nextId + 1
    /\ sticky' = FALSE
    /\ UNCHANGED <<history, started, closed, queries, cache, evicting, ctx, thread>>

completed(n, here) ==
    /\ history' = Append(history, <<n, nextId>>)
    /\ open' = 0
    /\ nextId' = nextId + 1
    /\ retried' = FALSE
    /\ sticky' = here

\* Another worker is given the decision and completes it.
OtherWorker ==
    /\ open = 0 /\ tasksLeft /\ ~closed
    /\ started' = started + 1
    /\ completed(started + 1, FALSE)
    /\ UNCHANGED <<closed, queries, cache, evicting, ctx, thread>>

-----------------------------------------------------------------------------
(* getOrCreateWorkflowContext                                              *)

unused(c) ==
    /\ ctx[c] = Cleared
    /\ cache # c /\ c \notin evicting
    /\ \A t \in Threads : thread[t].pc \in {"Lock", "Locked", "Processed", "Unlock"} => thread[t].c # c

locks(t, c) == [pc |-> "Lock", task |-> thread[t].task, c |-> c]

\* A query with the full history does not look into the cache.
getWorkflowContext(t) ==
    /\ thread[t].pc = "Lookup"
    /\ LET task == thread[t].task
           found == IF task.query /\ task.full THEN None ELSE cache
       IN  thread' = [thread EXCEPT ![t] =
                        IF found # None THEN locks(t, found) ELSE [@ EXCEPT !.pc = "Create"]]
    /\ UNCHANGED <<service, cache, evicting, ctx>>

\* A partial history is replaced by the full one, as it is at that time for a
\* query; only the context of a decision task is put into the cache, and not
\* when another thread has put one.
full(task) ==
    [task EXCEPT !.full = TRUE, !.base = IF task.query /\ ~task.full THEN history ELSE @]

createWorkflowContext(t) ==
    /\ thread[t].pc = "Create"
    /\ LET task == full(thread[t].task)
           goesOn(c) == thread' = [thread EXCEPT ![t] = [locks(t, c) EXCEPT !.task = task]]
       IN  \/ /\ ~task.query /\ cache # None
              /\ goesOn(cache)
              /\ UNCHANGED <<ctx, cache>>
           \/ /\ task.query \/ cache = None
              /\ \E c \in Contexts :
                   /\ unused(c)
                   /\ goesOn(c)
                   /\ ctx' = [ctx EXCEPT ![c] = New]
                   /\ cache' = IF task.query THEN cache ELSE c
    /\ UNCHANGED <<service, evicting>>

\* resetHistory fails: no context is made, and the task fails.
createFails(t) ==
    /\ thread[t].pc = "Create"
    /\ ~thread[t].task.full
    /\ thread' = [thread EXCEPT ![t] = Idle]
    /\ UNCHANGED <<service, cache, evicting, ctx>>

Lock(t) ==
    /\ thread[t].pc = "Lock"
    /\ LET c == thread[t].c
       IN  /\ ctx[c].lock = None
           /\ ctx' = [ctx EXCEPT ![c].lock = t]
    /\ thread' = [thread EXCEPT ![t].pc = "Locked"]
    /\ UNCHANGED <<service, cache, evicting>>

-----------------------------------------------------------------------------
(* ProcessWorkflowTask, with the lock                                      *)

\* The event before the first event of the task.
previousStarted(task) ==
    IF task.full \/ task.base = <<>> THEN 0 ELSE task.base[Len(task.base)][2]

\* Mutant: a state is taken for valid when it is not older than the task.
isStaleWhenOlder(c, task) ==
    /\ ~task.query \/ task.full
    /\ previousStarted(task) > ctx[c].prev

\* ResetIfStale: a sticky query has no events to compare.
isStale(c, task) ==
    /\ ~task.query \/ task.full
    /\ previousStarted(task) # ctx[c].prev

\* The events of the task, decision by decision.
events(task) ==
    (IF task.full THEN task.base ELSE <<>>) \o (IF task.query THEN <<>> ELSE <<<<task.n, task.id>>>>)

\* SetCurrentTask, and the events: a query leaves previousStartedEventID alone, so
\* that a state which it has rebuilt is taken for one that has no events yet.
\* `repeats' records that a decision task has applied its events to such a state.
applies(s, task) ==
    [s EXCEPT !.applied = @ \o events(task), !.prev = IF task.query THEN @ ELSE task.id,
              !.repeats = @ \/ (~task.query /\ s.prev = 0 /\ s.applied # <<>>)]

\* The history that a decision was computed on; a query and a task that failed make none.
decided(task, e) == IF task.query \/ e THEN <<>> ELSE Append(task.base, <<task.n, task.id>>)

\* n is the task that is left to respond to, or 0.
processed(t, task, e) ==
    [pc |-> "Processed", c |-> thread[t].c, err |-> e, decided |-> decided(task, e),
     n |-> IF task.query \/ e THEN 0 ELSE task.n]

\* ResetIfStale, resetStateIfDestroyed
resets(t) == ~ctx[thread[t].c].live \/ isStale(thread[t].c, thread[t].task)

\* Mutant: createEventHandler does not clear the state before.
rebuiltOnTop(t) == [ctx[thread[t].c] EXCEPT !.live = TRUE]

rebuilt(t) == [New EXCEPT !.lock = t]

\* A state that is destroyed or stale is built again from the full history.  The
\* workflow may end in this task, by completing or by a panic; the task fails
\* when the history does not match the workflow's code.
ProcessWorkflowTask(t) ==
    /\ thread[t].pc = "Locked"
    /\ LET c == thread[t].c
           task == IF resets(t) THEN full(thread[t].task) ELSE thread[t].task
           s == IF resets(t) THEN rebuilt(t) ELSE ctx[c]
       IN  \E ends \in BOOLEAN, fails \in BOOLEAN :
             /\ ends \/ fails => events(task) # <<>>
             /\ ctx' = [ctx EXCEPT ![c] = [applies(s, task) EXCEPT !.ended = @ \/ ends]]
             /\ thread' = [thread EXCEPT ![t] = processed(t, task, fails)]
    /\ UNCHANGED <<service, cache, evicting>>

\* The state is to be built again, and its history cannot be fetched.
ResetFails(t) ==
    /\ thread[t].pc = "Locked"
    /\ resets(t) /\ ~thread[t].task.full
    /\ ctx' = [ctx EXCEPT ![thread[t].c] = rebuilt(t)]
    /\ thread' = [thread EXCEPT ![t] = processed(t, @.task, TRUE)]
    /\ UNCHANGED <<service, cache, evicting>>

\* A decision that waits for local activities is completed, and goes on as the
\* new task that the answer brings, under the same lock.
Heartbeat(t) ==
    /\ thread[t].pc = "Processed" /\ thread[t].n # 0
    /\ ~ctx[thread[t].c].ended
    /\ open = thread[t].n
    /\ completed(open, TRUE)
    /\ tasksLeft
    /\ started' = started + 1
    /\ thread' = [thread EXCEPT ![t] =
                    [pc |-> "Locked", c |-> @.c,
                     task |-> [query |-> FALSE, full |-> FALSE, base |-> history',
                               n |-> started + 1, id |-> nextId']]]
    /\ UNCHANGED <<closed, queries, cache, evicting, ctx>>

\* Its request or the answer to it is lost or is an error, or the answer brings
\* no task; the worker stops while local activities are pending.
HeartbeatEnds(t) ==
    /\ thread[t].pc = "Processed" /\ thread[t].n # 0
    /\ ~ctx[thread[t].c].ended
    /\ \E accepted \in BOOLEAN, e \in BOOLEAN :
         /\ IF accepted
            THEN open = thread[t].n /\ completed(open, TRUE)
            ELSE e /\ UNCHANGED <<history, open, nextId, retried, sticky>>
         /\ thread' = [thread EXCEPT ![t].err = e, ![t].n = 0]
    /\ UNCHANGED <<started, closed, queries, cache, evicting, ctx>>

-----------------------------------------------------------------------------
(* Unlock, eviction and the response                                       *)

\* The first thing that Unlock reads is whether the run is cached.
UnlockReadsCache(t) ==
    /\ thread[t].pc = "Processed"
    /\ thread' = [thread EXCEPT ![t] =
                    [pc |-> "Unlock", c |-> @.c, err |-> @.err, n |-> @.n, cached |-> cache # None]]
    /\ UNCHANGED <<service, cache, evicting, ctx>>

\* The cache calls onEviction of what it loses, in a goroutine of its own.
removed == IF cache = None THEN evicting ELSE evicting \cup {cache}

\* Mutant: the cache calls onEviction before Delete returns, and so Unlock waits
\* for the lock that it holds.
UnlockEvictsInline(t) ==
    /\ thread[t].pc = "Unlock"
    /\ LET c == thread[t].c
           drops == thread[t].err \/ ctx[c].ended
           waits == drops /\ thread[t].cached /\ cache = c
       IN  /\ cache' = IF drops /\ thread[t].cached THEN None ELSE cache
           /\ evicting' = IF drops /\ thread[t].cached THEN removed ELSE evicting
           /\ ctx' = [ctx EXCEPT ![c] =
                        IF waits THEN @
                        ELSE IF thread[t].cached THEN [@ EXCEPT !.lock = None] ELSE Cleared]
           /\ thread' = [thread EXCEPT ![t] = IF waits THEN [pc |-> "Lock", c |-> c] ELSE Idle]
    /\ UNCHANGED service

\* Mutant: only an error drops the context, not the end of the workflow.
UnlockKeepsEnded(t) ==
    /\ thread[t].pc = "Unlock"
    /\ LET c == thread[t].c
           drops == thread[t].err
       IN  /\ cache' = IF drops /\ thread[t].cached THEN None ELSE cache
           /\ evicting' = IF drops /\ thread[t].cached THEN removed ELSE evicting
           /\ ctx' = [ctx EXCEPT ![c] =
                        IF thread[t].cached THEN [@ EXCEPT !.lock = None] ELSE Cleared]
    /\ thread' = [thread EXCEPT ![t] =
                    IF @.n # 0 THEN [pc |-> "Respond", n |-> @.n, closes |-> ctx[@.c].ended] ELSE Idle]
    /\ UNCHANGED service

Unlock(t) ==
    /\ thread[t].pc = "Unlock"
    /\ LET c == thread[t].c
           drops == thread[t].err \/ ctx[c].ended
       IN  /\ cache' = IF drops /\ thread[t].cached THEN None ELSE cache
           /\ evicting' = IF drops /\ thread[t].cached THEN removed ELSE evicting
           /\ ctx' = [ctx EXCEPT ![c] =
                        IF thread[t].cached THEN [@ EXCEPT !.lock = None] ELSE Cleared]
    /\ thread' = [thread EXCEPT ![t] =
                    IF @.n # 0 THEN [pc |-> "Respond", n |-> @.n, closes |-> ctx[@.c].ended] ELSE Idle]
    /\ UNCHANGED service

\* The LRU cache makes room for another run.
Evict ==
    /\ cache # None
    /\ cache' = None
    /\ evicting' = removed
    /\ UNCHANGED <<service, ctx, thread>>

cleared(c) ==
    /\ evicting' = evicting \ {c}
    /\ ctx' = [ctx EXCEPT ![c] = Cleared]

\* The service is to reset the stickiness of a run that did not end: the task
\* for this is sent, with the lock, before the state is cleared.
onEviction(c) ==
    /\ c \in evicting
    /\ ctx[c].lock = None
    /\ IF ctx[c].ended
       THEN cleared(c)
       ELSE ctx' = [ctx EXCEPT ![c].lock = Evictor] /\ UNCHANGED evicting
    /\ UNCHANGED <<service, cache, thread>>

\* The dispatcher takes the task from resultCh, which has no buffer; onEviction
\* goes on.  ResetStickyTaskList may fail, or be late: the service may send a
\* task with the full history at any time, so a late reset adds nothing.
queueResetStickinessTask(c) ==
    /\ ctx[c].lock = Evictor
    /\ sticky' \in {sticky, FALSE}
    /\ cleared(c)
    /\ UNCHANGED <<decisions, queries, cache, thread>>

\* RespondDecisionTaskCompleted; the answer may bring the next decision task,
\* which starts processWorkflowTask again.
RespondAccepted(t) ==
    /\ thread[t].pc = "Respond"
    /\ open = thread[t].n
    /\ completed(open, TRUE)
    /\ closed' = thread[t].closes
    /\ thread' = [thread EXCEPT ![t] = Idle]
    /\ UNCHANGED <<started, queries, cache, evicting, ctx>>

RespondRejected(t) ==
    /\ thread[t].pc = "Respond"
    /\ thread' = [thread EXCEPT ![t] = Idle]
    /\ UNCHANGED <<service, cache, evicting, ctx>>

-----------------------------------------------------------------------------

Next ==
    \/ \E t \in Threads :
         \/ PollDecision(t) \/ PollQuery(t)
         \/ getWorkflowContext(t) \/ createWorkflowContext(t) \/ createFails(t)
         \/ Lock(t)
         \/ ProcessWorkflowTask(t) \/ ResetFails(t)
         \/ Heartbeat(t) \/ HeartbeatEnds(t)
         \/ UnlockReadsCache(t) \/ Unlock(t)
         \/ RespondAccepted(t) \/ RespondRejected(t)
    \/ \E c \in Contexts : onEviction(c) \/ queueResetStickinessTask(c)
    \/ Evict
    \/ DecisionTimesOut \/ OtherWorker

Spec == Init /\ [][Next]_vars

-----------------------------------------------------------------------------
(* Properties                                                              *)

\* The IDs of the DecisionTaskStarted events.
ids(s) == [i \in DOMAIN s |-> s[i][2]]

\* The state on which a decision is computed is exactly the history of its task, by
\* the IDs of its events: none is missing or applied twice, and no decision that the
\* service did not accept is part of it, whatever was cached, evicted or rebuilt
\* before (getOrCreateWorkflowContext, ResetIfStale, resetStateIfDestroyed).  Two
\* things are not claimed.  Which of the transient attempts with one ID a state has
\* processed is not known to the code (internal_task_pollers.go:919).  And a state
\* that a query has rebuilt while its previousStartedEventID stays 0 is taken for an
\* untouched one by a first decision task (internal_task_handlers.go:720).
StateMatchesHistory ==
    \A t \in Threads :
      thread[t].pc = "Processed" /\ ~thread[t].err /\ thread[t].decided # <<>>
        /\ ~ctx[thread[t].c].repeats =>
          ids(ctx[thread[t].c].applied) = ids(thread[t].decided)

\* The same without the two exceptions, which the code does not keep:
\* getOrCreateWorkflowContext takes such a state for "a valid cached state".
AlwaysMatchesHistory ==
    \A t \in Threads :
      thread[t].pc = "Processed" /\ ~thread[t].err /\ thread[t].decided # <<>> =>
        ctx[thread[t].c].applied = thread[t].decided

\* A query that goes well is answered from a state that the workflow was in: one that
\* follows from decisions of the run, each applied once and in order, although a
\* sticky query brings no events that the state could be compared with (ResetIfStale,
\* resetStateIfDestroyed).  The exception of StateMatchesHistory for a state that a
\* query has rebuilt before is made here too.
QuerySeesOneState ==
    \A t \in Threads :
      thread[t].pc = "Processed" /\ ~thread[t].err /\ thread[t].decided = <<>>
        /\ ~ctx[thread[t].c].repeats =>
          LET s == ids(ctx[thread[t].c].applied)
          IN  \A i, j \in DOMAIN s : i < j => s[i] < s[j]

referenced(c) ==
    \E t \in Threads :
      thread[t].pc \in {"Lock", "Locked", "Processed", "Unlock"} /\ thread[t].c = c

\* A context that nothing can reach any more has been cleared, so the goroutines
\* of its workflow are gone: "there are a variety of reasons a workflow may not
\* have been put into the cache. all of them mean we need to clear the state at
\* this point, or any running goroutines will be orphaned" (Unlock).
NoOrphan ==
    \A c \in Contexts :
      ctx[c].applied # <<>> => cache = c \/ c \in evicting \/ referenced(c)

\* The lock of a context is held only by what will release it: a thread that is
\* not itself waiting for a lock, or an eviction whose reset task the dispatcher
\* can take.  So no thread waits for ever in getOrCreateWorkflowContext while the
\* dispatcher runs, although onEviction sends with the lock held.
LocksAreReleased ==
    \A c \in Contexts : ctx[c].lock # None =>
      \/ ctx[c].lock = Evictor /\ c \in evicting
      \/ \E t \in Threads :
           /\ ctx[c].lock = t
           /\ thread[t].pc \in {"Locked", "Processed", "Unlock"} /\ thread[t].c = c

\* A cached state that no thread holds is one that the next task can use: it is
\* not destroyed, and its workflow has not ended.
CachedIsUsable ==
    cache # None /\ ~referenced(cache) => ctx[cache].live /\ ~ctx[cache].ended
=============================================================================
