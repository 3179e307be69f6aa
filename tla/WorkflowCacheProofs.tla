------------------------ MODULE WorkflowCacheProofs ------------------------
(***************************************************************************)
(* The locks of the workflow contexts, for any number of threads, contexts,*)
(* decision tasks and queries: a context has one user at a time, and its   *)
(* lock is held by nothing but what releases it.                           *)
(***************************************************************************)
EXTENDS WorkflowCache, TLAPS

USE SMTT(40)

Referring == {"Lock", "Locked", "Processed", "Unlock"}
Holding == {"Locked", "Processed", "Unlock"}

holds(t, c) == thread[t].pc \in Holding /\ thread[t].c = c

\* The variables are functions, and their records have the fields that count.
Types ==
    /\ thread = [t \in Threads |-> thread[t]]
    /\ ctx = [c \in Contexts |-> ctx[c]]
    /\ \A t \in Threads : /\ "pc" \in DOMAIN thread[t]
                          /\ thread[t].pc \in Referring => /\ "c" \in DOMAIN thread[t]
                                                           /\ thread[t].c \in Contexts
    /\ \A c \in Contexts : "lock" \in DOMAIN ctx[c]
    /\ cache \in Contexts \cup {None}
    /\ evicting \subseteq Contexts

\* A thread that is past Lock has the lock of its context.
HoldersHaveLock ==
    \A t \in Threads : thread[t].pc \in Holding => ctx[thread[t].c].lock = t

IInv == Types /\ HoldersHaveLock /\ LocksAreReleased

-----------------------------------------------------------------------------
(* What the steps do to a thread and to the lock of a context              *)

\* A step of thread t that leaves the contexts alone, and takes no lock.
LEMMA ThreadMoves ==
    ASSUME IInv, NEW t \in Threads, NEW r,
           thread' = [thread EXCEPT ![t] = r], UNCHANGED ctx,
           "pc" \in DOMAIN r,
           r.pc \in Referring => "c" \in DOMAIN r /\ r.c \in Contexts,
           r.pc \in Holding <=> thread[t].pc \in Holding,
           r.pc \in Holding => r.c = thread[t].c,
           cache' \in Contexts \cup {None}, UNCHANGED evicting
    PROVE  IInv'
<1>1. /\ thread' = [u \in Threads |-> thread'[u]]
      /\ thread'[t] = r
      /\ \A u \in Threads : u # t => thread'[u] = thread[u]
  BY ZenonT(40) DEF IInv, Types
<1>2. Types'
  BY <1>1, ZenonT(40) DEF IInv, Types
<1>3. HoldersHaveLock'
  BY <1>1, ZenonT(40) DEF IInv, HoldersHaveLock
<1>4. LocksAreReleased'
  BY <1>1 DEF IInv, LocksAreReleased, Holding
<1>. QED
  BY <1>2, <1>3, <1>4 DEF IInv

\* A step of thread t that changes context c, which no other thread holds.
LEMMA ContextMoves ==
    ASSUME IInv, NEW t \in Threads, NEW r, NEW c \in Contexts, NEW s,
           thread' = [thread EXCEPT ![t] = r], ctx' = [ctx EXCEPT ![c] = s],
           "pc" \in DOMAIN r, "lock" \in DOMAIN s,
           r.pc \in Referring => "c" \in DOMAIN r /\ r.c \in Contexts,
           \A u \in Threads : u # t => ~holds(u, c),
           thread[t].pc \in Holding => thread[t].c = c,
           IF r.pc \in Holding THEN r.c = c /\ s.lock = t ELSE s.lock = None,
           cache' \in Contexts \cup {None},
           evicting \subseteq evicting', evicting' \subseteq Contexts
    PROVE  IInv'
<1>1. /\ thread' = [u \in Threads |-> thread'[u]]
      /\ thread'[t] = r
      /\ \A u \in Threads : u # t => thread'[u] = thread[u]
  BY ZenonT(40) DEF IInv, Types
<1>2. /\ ctx' = [d \in Contexts |-> ctx'[d]]
      /\ ctx'[c] = s
      /\ \A d \in Contexts : d # c => ctx'[d] = ctx[d]
  BY ZenonT(40) DEF IInv, Types
<1>3. Types'
  BY <1>1, <1>2, ZenonT(40) DEF IInv, Types
<1>4. HoldersHaveLock'
  <2> SUFFICES ASSUME NEW u \in Threads, thread'[u].pc \in Holding
               PROVE  ctx'[thread'[u].c].lock = u
    BY ZenonT(40) DEF HoldersHaveLock
  <2>1. CASE u = t
    BY <2>1, <1>1, <1>2, ZenonT(40)
  <2>2. CASE u # t
    <3>1. thread[u].c # c /\ thread[u].c \in Contexts
      BY <2>2, <1>1, ZenonT(40) DEF holds, IInv, Types, Holding, Referring
    <3> QED
      BY <3>1, <2>2, <1>1, <1>2, ZenonT(40) DEF IInv, HoldersHaveLock
  <2> QED
    BY <2>1, <2>2, ZenonT(40)
<1>5. LocksAreReleased'
  <2> SUFFICES ASSUME NEW d \in Contexts, ctx'[d].lock # None
               PROVE  \/ ctx'[d].lock = Evictor /\ d \in evicting'
                      \/ \E u \in Threads : ctx'[d].lock = u /\ thread'[u].pc \in Holding /\ thread'[u].c = d
    BY ZenonT(40) DEF LocksAreReleased, Holding
  <2>1. CASE d = c
    BY <2>1, <1>1, <1>2, ZenonT(40)
  <2>2. CASE d # c
    <3>1. ctx'[d] = ctx[d]
      BY <2>2, <1>2, ZenonT(40)
    <3>2. CASE ctx[d].lock = Evictor /\ d \in evicting
      BY <3>1, <3>2, ZenonT(40)
    <3>3. ASSUME NEW u \in Threads, ctx[d].lock = u, holds(u, d)
          PROVE  ctx'[d].lock = u /\ thread'[u].pc \in Holding /\ thread'[u].c = d
      BY <3>1, <3>3, <2>2, <1>1, ZenonT(40) DEF holds
    <3>4. \/ ctx[d].lock = Evictor /\ d \in evicting
          \/ \E u \in Threads : ctx[d].lock = u /\ holds(u, d)
      BY <3>1, ZenonT(40) DEF IInv, LocksAreReleased, holds, Holding
    <3> QED
      BY <3>2, <3>3, <3>4, ZenonT(40)
  <2> QED
    BY <2>1, <2>2, ZenonT(40)
<1> QED
  BY <1>3, <1>4, <1>5, ZenonT(40) DEF IInv

\* A step of the cache or of an eviction, which moves no thread.
LEMMA EvictionMoves ==
    ASSUME IInv, NEW c \in Contexts, NEW s,
           UNCHANGED thread, ctx' = [ctx EXCEPT ![c] = s], "lock" \in DOMAIN s,
           ctx[c].lock \in {None, Evictor},
           s.lock = None \/ (s.lock = Evictor /\ c \in evicting'),
           cache' \in Contexts \cup {None},
           evicting \subseteq evicting' \cup {c}, evicting' \subseteq Contexts
    PROVE  IInv'
<1>1. /\ ctx' = [d \in Contexts |-> ctx'[d]]
      /\ ctx'[c] = s
      /\ \A d \in Contexts : d # c => ctx'[d] = ctx[d]
  BY ZenonT(40) DEF IInv, Types
<1>2. Types'
  BY <1>1, ZenonT(40) DEF IInv, Types
<1>3. \A t \in Threads : ~holds(t, c)
  BY WorkflowCacheAssumption, ZenonT(40) DEF IInv, HoldersHaveLock, holds, Evictor
<1>4. HoldersHaveLock'
  BY <1>1, <1>3, ZenonT(40) DEF IInv, HoldersHaveLock, holds, Types, Holding, Referring
<1>5. LocksAreReleased'
  BY <1>1 DEF IInv, LocksAreReleased
<1> QED
  BY <1>2, <1>4, <1>5 DEF IInv

\* A step that moves neither, and lets the cache lose a context.
LEMMA CacheMoves ==
    ASSUME IInv, UNCHANGED <<thread, ctx>>,
           cache' \in Contexts \cup {None},
           evicting \subseteq evicting', evicting' \subseteq Contexts
    PROVE  IInv'
<1>1. Types'
  BY DEF IInv, Types
<1>2. HoldersHaveLock' /\ LocksAreReleased'
  BY ZenonT(40) DEF IInv, HoldersHaveLock, LocksAreReleased
<1> QED
  BY <1>1, <1>2 DEF IInv

-----------------------------------------------------------------------------
(* The actions                                                             *)

LEMMA InitHolds == Init => IInv
<1> SUFFICES ASSUME Init PROVE IInv
  OBVIOUS
<1>1. Types
  BY DEF Init, Types, Idle, Cleared, Referring
<1>2. HoldersHaveLock /\ LocksAreReleased
  BY DEF Init, HoldersHaveLock, LocksAreReleased, Idle, Cleared, Holding
<1> QED
  BY <1>1, <1>2 DEF IInv

\* The thread of a task gets a context, and waits for its lock.
LEMMA LookupKeeps ==
    ASSUME IInv, NEW t \in Threads,
           \/ PollDecision(t) \/ PollQuery(t) \/ getWorkflowContext(t) \/ createFails(t)
           \/ RespondAccepted(t) \/ RespondRejected(t)
    PROVE  IInv'
<1>1. ASSUME NEW r, thread' = [thread EXCEPT ![t] = r], UNCHANGED <<cache, evicting, ctx>>,
             "pc" \in DOMAIN r, r.pc \in {"Idle", "Lookup", "Create", "Lock"},
             thread[t].pc \in {"Idle", "Lookup", "Create", "Respond"},
             r.pc = "Lock" => "c" \in DOMAIN r /\ r.c \in Contexts
      PROVE  IInv'
  <2>1. /\ r.pc \notin Holding /\ thread[t].pc \notin Holding
        /\ r.pc \in Referring => "c" \in DOMAIN r /\ r.c \in Contexts
    BY <1>1 DEF Holding, Referring
  <2>2. cache' \in Contexts \cup {None}
    BY <1>1, ZenonT(40) DEF IInv, Types
  <2> QED
    BY <1>1, <2>1, <2>2, ThreadMoves, ZenonT(40)
<1>2. CASE PollDecision(t) \/ PollQuery(t)
  <2>1. PICK task : thread' = [thread EXCEPT ![t] = Lookup(task)]
    BY <1>2, ZenonT(40) DEF PollDecision, PollQuery
  <2>2. "pc" \in DOMAIN Lookup(task) /\ Lookup(task).pc = "Lookup"
    BY DEF Lookup
  <2>3. thread[t].pc = "Idle" /\ UNCHANGED <<cache, evicting, ctx>>
    BY <1>2, ZenonT(40) DEF PollDecision, PollQuery
  <2> QED
    BY <1>1, <2>1, <2>2, <2>3, ZenonT(40)
<1>3. CASE getWorkflowContext(t)
  <2> DEFINE r == [thread[t] EXCEPT !.pc = "Create"]
  <2>1. thread[t].pc = "Lookup" /\ UNCHANGED <<cache, evicting, ctx>>
    BY <1>3, ZenonT(40) DEF getWorkflowContext
  <2>2. CASE thread' = [thread EXCEPT ![t] = locks(t, cache)] /\ cache # None
    <3>1. /\ "pc" \in DOMAIN locks(t, cache) /\ "c" \in DOMAIN locks(t, cache)
          /\ locks(t, cache).pc = "Lock" /\ locks(t, cache).c = cache
      BY DEF locks
    <3>2. cache \in Contexts
      BY <2>2 DEF IInv, Types
    <3> QED
      BY <1>1, <2>1, <2>2, <3>1, <3>2, ZenonT(40)
  <2>3. CASE thread' = [thread EXCEPT ![t] = r]
    <3>1. "pc" \in DOMAIN r /\ r.pc = "Create"
      BY ZenonT(40) DEF IInv, Types
    <3> HIDE DEF r
    <3> QED
      BY <1>1, <2>1, <2>3, <3>1, ZenonT(40)
  <2> QED
    BY <1>3, <2>2, <2>3, ZenonT(40) DEF getWorkflowContext
<1>4. CASE createFails(t) \/ RespondAccepted(t) \/ RespondRejected(t)
  <2>1. "pc" \in DOMAIN Idle /\ Idle.pc = "Idle"
    BY DEF Idle
  <2>2. /\ thread[t].pc \in {"Create", "Respond"} /\ UNCHANGED <<cache, evicting, ctx>>
        /\ thread' = [thread EXCEPT ![t] = Idle]
    BY <1>4, ZenonT(40) DEF createFails, RespondAccepted, RespondRejected
  <2> QED
    BY <1>1, <2>1, <2>2, ZenonT(40)
<1> QED
  BY <1>2, <1>3, <1>4

LEMMA CreateKeeps ==
    ASSUME IInv, NEW t \in Threads, createWorkflowContext(t)
    PROVE  IInv'
<1> DEFINE task == full(thread[t].task)
           r(c) == [locks(t, c) EXCEPT !.task = task]
<1>1. \A c : /\ "pc" \in DOMAIN r(c) /\ "c" \in DOMAIN r(c)
             /\ r(c).pc = "Lock" /\ r(c).c = c
  BY DEF locks
<1>2. thread[t].pc = "Create" /\ UNCHANGED evicting
  BY ZenonT(40) DEF createWorkflowContext
<1>3. ASSUME cache # None, thread' = [thread EXCEPT ![t] = r(cache)], UNCHANGED <<ctx, cache>>
      PROVE  IInv'
  <2> HIDE DEF r
  <2>1. cache \in Contexts /\ cache' \in Contexts \cup {None}
    BY <1>3 DEF IInv, Types
  <2>2. r(cache).pc \notin Holding /\ thread[t].pc \notin Holding
    BY <1>1, <1>2 DEF Holding
  <2> QED
    BY <1>1, <1>2, <1>3, <2>1, <2>2, ThreadMoves, ZenonT(40)
<1>4. ASSUME NEW c \in Contexts, unused(c), thread' = [thread EXCEPT ![t] = r(c)],
             ctx' = [ctx EXCEPT ![c] = New], cache' \in {cache, c}
      PROVE  IInv'
  <2> HIDE DEF r
  <2>1. "lock" \in DOMAIN New /\ New.lock = None
    BY DEF New, Cleared
  <2>2. \A u \in Threads : u # t => ~holds(u, c)
    BY <1>4 DEF unused, holds, Holding
  <2>3. /\ cache' \in Contexts \cup {None}
        /\ evicting \subseteq evicting' /\ evicting' \subseteq Contexts
    BY <1>2, <1>4, ZenonT(40) DEF IInv, Types
  <2>4. r(c).pc \notin Holding /\ thread[t].pc \notin Holding
    BY <1>1, <1>2 DEF Holding
  <2> QED
    BY <1>1, <1>4, <2>1, <2>2, <2>3, <2>4, ContextMoves, ZenonT(40)
<1> QED
  BY <1>3, <1>4, ZenonT(40) DEF createWorkflowContext

\* No other thread holds what this one may take, or has.
LEMMA Alone ==
    ASSUME IInv, NEW t \in Threads, NEW c \in Contexts, ctx[c].lock \in {None, t}
    PROVE  \A u \in Threads : u # t => ~holds(u, c)
BY WorkflowCacheAssumption DEF IInv, HoldersHaveLock, holds

LEMMA LockKeeps ==
    ASSUME IInv, NEW t \in Threads, Lock(t)
    PROVE  IInv'
<1> DEFINE c == thread[t].c
           r == [thread[t] EXCEPT !.pc = "Locked"]
           s == [ctx[c] EXCEPT !.lock = t]
<1>1. c \in Contexts /\ thread[t].pc = "Lock" /\ "c" \in DOMAIN thread[t]
  BY ZenonT(40) DEF Lock, IInv, Types, Referring
<1>2. thread' = [thread EXCEPT ![t] = r] /\ ctx' = [ctx EXCEPT ![c] = s]
  BY <1>1, ZenonT(40) DEF Lock
<1>3. "pc" \in DOMAIN r /\ "c" \in DOMAIN r /\ r.pc = "Locked" /\ r.c = c
  BY <1>1 DEF IInv, Types
<1>4. "lock" \in DOMAIN s /\ s.lock = t
  BY <1>1 DEF IInv, Types
<1>5. \A u \in Threads : u # t => ~holds(u, c)
  BY <1>1, Alone, ZenonT(40) DEF Lock
<1>6. /\ cache' \in Contexts \cup {None}
      /\ evicting \subseteq evicting' /\ evicting' \subseteq Contexts
  BY ZenonT(40) DEF Lock, IInv, Types
<1> HIDE DEF c, r, s
<1>7. r.pc \in Holding /\ thread[t].pc \notin Holding
  BY <1>1, <1>3 DEF Holding
<1>8. /\ r.pc \in Referring => "c" \in DOMAIN r /\ r.c \in Contexts
      /\ thread[t].pc \in Holding => thread[t].c = c
      /\ IF r.pc \in Holding THEN r.c = c /\ s.lock = t ELSE s.lock = None
  BY <1>1, <1>3, <1>4, <1>7, ZenonT(40)
<1> QED
  BY <1>1, <1>2, <1>3, <1>4, <1>5, <1>6, <1>8, ContextMoves, ZenonT(40)

\* A thread that holds a context is the only one.
LEMMA Holder ==
    ASSUME IInv, NEW t \in Threads, thread[t].pc \in Holding
    PROVE  /\ thread[t].c \in Contexts /\ ctx[thread[t].c].lock = t
           /\ \A u \in Threads : u # t => ~holds(u, thread[t].c)
<1>1. thread[t].c \in Contexts /\ ctx[thread[t].c].lock = t
  BY ZenonT(40) DEF IInv, Types, HoldersHaveLock, Holding, Referring
<1> QED
  BY <1>1, Alone, ZenonT(40)

\* The state may be built again or not; the lock stays with the thread.
LEMMA ProcessKeeps ==
    ASSUME IInv, NEW t \in Threads, ProcessWorkflowTask(t) \/ ResetFails(t)
    PROVE  IInv'
<1> DEFINE c == thread[t].c
<1>1. /\ thread[t].pc \in Holding
      /\ cache' \in Contexts \cup {None}
      /\ evicting \subseteq evicting' /\ evicting' \subseteq Contexts
  BY ZenonT(40) DEF ProcessWorkflowTask, ResetFails, Holding, IInv, Types
<1>2. /\ c \in Contexts /\ ctx[c].lock = t
      /\ \A u \in Threads : u # t => ~holds(u, c)
  BY <1>1, Holder, ZenonT(40)
<1>3. ASSUME NEW task, NEW e, NEW s, "lock" \in DOMAIN s, s.lock = t,
             thread' = [thread EXCEPT ![t] = processed(t, task, e)],
             ctx' = [ctx EXCEPT ![c] = s]
      PROVE  IInv'
  <2> DEFINE r == processed(t, task, e)
  <2>1. "pc" \in DOMAIN r /\ "c" \in DOMAIN r /\ r.pc \in Holding /\ r.c = c
    BY DEF processed, Holding
  <2>2. thread[t].c = c /\ thread' = [thread EXCEPT ![t] = r]
    BY <1>3
  <2>3. /\ r.pc \in Referring => "c" \in DOMAIN r /\ r.c \in Contexts
        /\ thread[t].pc \in Holding => thread[t].c = c
        /\ IF r.pc \in Holding THEN r.c = c /\ s.lock = t ELSE s.lock = None
    BY <1>2, <1>3, <2>1, ZenonT(40)
  <2> HIDE DEF c, r
  <2> QED
    BY <1>1, <1>2, <1>3, <2>1, <2>2, <2>3, ContextMoves, ZenonT(40)
<1>4. "lock" \in DOMAIN rebuilt(t) /\ rebuilt(t).lock = t
  BY ZenonT(40) DEF rebuilt, New, Cleared
<1>5. CASE ResetFails(t)
  BY <1>3, <1>4, <1>5, ZenonT(40) DEF ResetFails
<1>6. CASE ProcessWorkflowTask(t)
  <2> DEFINE task == IF resets(t) THEN full(thread[t].task) ELSE thread[t].task
             s == IF resets(t) THEN rebuilt(t) ELSE ctx[c]
             end(b) == [applies(s, task) EXCEPT !.ended = @ \/ b]
  <2>1. "lock" \in DOMAIN s /\ s.lock = t
    BY <1>2, <1>4, ZenonT(40) DEF IInv, Types
  <2>2. "lock" \in DOMAIN applies(s, task) /\ applies(s, task).lock = t
    <3> HIDE DEF s, task
    <3> QED
      BY <2>1, ZenonT(40) DEF applies
  <2>3. ASSUME NEW b PROVE "lock" \in DOMAIN end(b) /\ end(b).lock = t
    <3> HIDE DEF s, task
    <3> QED
      BY <2>2, ZenonT(40)
  <2>4. PICK b \in BOOLEAN, e \in BOOLEAN :
          /\ ctx' = [ctx EXCEPT ![c] = end(b)]
          /\ thread' = [thread EXCEPT ![t] = processed(t, task, e)]
    BY <1>6, ZenonT(40) DEF ProcessWorkflowTask
  <2> HIDE DEF end, task
  <2> QED
    BY <1>3, <2>3, <2>4, ZenonT(40)
<1> QED
  BY <1>5, <1>6

\* A heartbeat, and the first step of Unlock: the thread keeps its context.
LEMMA HeartbeatKeeps ==
    ASSUME IInv, NEW t \in Threads, Heartbeat(t) \/ HeartbeatEnds(t) \/ UnlockReadsCache(t)
    PROVE  IInv'
<1>1. /\ thread[t].pc = "Processed" /\ UNCHANGED <<cache, evicting, ctx>>
      /\ cache \in Contexts \cup {None}
      /\ thread[t].c \in Contexts /\ "c" \in DOMAIN thread[t] /\ "pc" \in DOMAIN thread[t]
  BY ZenonT(40) DEF Heartbeat, HeartbeatEnds, UnlockReadsCache, IInv, Types, Referring
<1>2. ASSUME NEW r, thread' = [thread EXCEPT ![t] = r], "pc" \in DOMAIN r, "c" \in DOMAIN r,
             r.pc \in Holding, r.c = thread[t].c
      PROVE  IInv'
  <2>1. thread[t].pc \in Holding /\ cache' \in Contexts \cup {None}
    BY <1>1 DEF Holding
  <2> QED
    BY <1>1, <1>2, <2>1, ThreadMoves, ZenonT(40)
<1>3. CASE Heartbeat(t)
  <2> DEFINE r == [pc |-> "Locked", c |-> thread[t].c,
                   task |-> [query |-> FALSE, full |-> FALSE, base |-> history',
                             n |-> started + 1, id |-> nextId']]
  <2>1. thread' = [thread EXCEPT ![t] = r]
    BY <1>3, ZenonT(40) DEF Heartbeat
  <2>2. "pc" \in DOMAIN r /\ "c" \in DOMAIN r /\ r.pc \in Holding /\ r.c = thread[t].c
    BY DEF Holding
  <2> HIDE DEF r
  <2> QED
    BY <1>2, <2>1, <2>2, ZenonT(40)
<1>4. CASE HeartbeatEnds(t)
  <2>1. PICK e \in BOOLEAN : thread' = [thread EXCEPT ![t].err = e, ![t].n = 0]
    BY <1>4, ZenonT(40) DEF HeartbeatEnds
  <2> DEFINE q == [thread[t] EXCEPT !.err = e]
             r == [q EXCEPT !.n = 0]
  <2>2. /\ "pc" \in DOMAIN q /\ "c" \in DOMAIN q
        /\ q.pc = thread[t].pc /\ q.c = thread[t].c
    BY <1>1, ZenonT(40)
  <2>3. /\ "pc" \in DOMAIN r /\ "c" \in DOMAIN r
        /\ r.pc = thread[t].pc /\ r.c = thread[t].c
    <3> HIDE DEF q
    <3> QED
      BY <2>2, ZenonT(40)
  <2>4. thread' = [thread EXCEPT ![t] = r]
    BY <2>1, ZenonT(40) DEF IInv, Types
  <2> HIDE DEF r
  <2> QED
    BY <1>1, <1>2, <2>3, <2>4, ZenonT(40) DEF Holding
<1>5. CASE UnlockReadsCache(t)
  <2> DEFINE r == [pc |-> "Unlock", c |-> thread[t].c, err |-> thread[t].err, n |-> thread[t].n,
                   cached |-> cache # None]
  <2>1. thread' = [thread EXCEPT ![t] = r]
    BY <1>5, ZenonT(40) DEF UnlockReadsCache
  <2>2. "pc" \in DOMAIN r /\ "c" \in DOMAIN r /\ r.pc \in Holding /\ r.c = thread[t].c
    BY DEF Holding
  <2> HIDE DEF r
  <2> QED
    BY <1>2, <2>1, <2>2, ZenonT(40)
<1> QED
  BY <1>3, <1>4, <1>5

\* Unlock gives the lock back, also when it clears the state or drops the context.
LEMMA UnlockKeeps ==
    ASSUME IInv, NEW t \in Threads, Unlock(t)
    PROVE  IInv'
<1> DEFINE c == thread[t].c
           s == IF thread[t].cached THEN [ctx[c] EXCEPT !.lock = None] ELSE Cleared
           r == IF thread[t].n # 0
                THEN [pc |-> "Respond", n |-> thread[t].n, closes |-> ctx[c].ended] ELSE Idle
<1>1. thread[t].pc \in Holding
  BY ZenonT(40) DEF Unlock, Holding
<1>2. /\ c \in Contexts
      /\ \A u \in Threads : u # t => ~holds(u, c)
  BY <1>1, Holder, ZenonT(40)
<1>3. thread' = [thread EXCEPT ![t] = r] /\ ctx' = [ctx EXCEPT ![c] = s]
  BY ZenonT(40) DEF Unlock
<1>4. "lock" \in DOMAIN [ctx[c] EXCEPT !.lock = None] /\ [ctx[c] EXCEPT !.lock = None].lock = None
  BY <1>2, ZenonT(40) DEF IInv, Types
<1>5. "lock" \in DOMAIN Cleared /\ Cleared.lock = None
  BY DEF Cleared
<1>6. "lock" \in DOMAIN s /\ s.lock = None
  BY <1>4, <1>5, ZenonT(40)
<1>7. "pc" \in DOMAIN r /\ r.pc \in {"Respond", "Idle"}
  BY DEF Idle
<1>8. cache' \in {cache, None} /\ evicting' \in {evicting, removed}
  BY ZenonT(40) DEF Unlock
<1>9. /\ cache' \in Contexts \cup {None}
      /\ evicting \subseteq evicting' /\ evicting' \subseteq Contexts
  BY <1>8 DEF removed, IInv, Types
<1>10. thread[t].c = c
  OBVIOUS
<1>11. r.pc \notin Holding /\ r.pc \notin Referring
  BY <1>7, ZenonT(40) DEF Holding, Referring
<1> HIDE DEF c, r, s
<1> QED
  BY <1>2, <1>3, <1>6, <1>7, <1>9, <1>10, <1>11, ContextMoves, ZenonT(40)

LEMMA EvictionKeeps ==
    ASSUME IInv, NEW c \in Contexts, onEviction(c) \/ queueResetStickinessTask(c)
    PROVE  IInv'
<1>1. UNCHANGED <<thread, cache>> /\ cache \in Contexts \cup {None} /\ evicting \subseteq Contexts
  BY ZenonT(40) DEF onEviction, queueResetStickinessTask, IInv, Types
<1>2. ASSUME cleared(c), ctx[c].lock \in {None, Evictor} PROVE IInv'
  <2>1. "lock" \in DOMAIN Cleared /\ Cleared.lock = None
    BY DEF Cleared
  <2>2. evicting' = evicting \ {c} /\ ctx' = [ctx EXCEPT ![c] = Cleared]
    BY <1>2 DEF cleared
  <2> QED
    BY <1>1, <1>2, <2>1, <2>2, EvictionMoves, ZenonT(40)
<1>3. CASE queueResetStickinessTask(c)
  BY <1>2, <1>3 DEF queueResetStickinessTask
<1>4. CASE onEviction(c)
  <2> DEFINE s == [ctx[c] EXCEPT !.lock = Evictor]
  <2>1. c \in evicting /\ ctx[c].lock = None
    BY <1>4 DEF onEviction
  <2>2. CASE cleared(c)
    BY <1>2, <2>1, <2>2
  <2>3. CASE ctx' = [ctx EXCEPT ![c] = s] /\ UNCHANGED evicting
    <3>1. "lock" \in DOMAIN s /\ s.lock = Evictor
      BY ZenonT(40) DEF IInv, Types
    <3> HIDE DEF s
    <3> QED
      BY <1>1, <2>1, <2>3, <3>1, EvictionMoves, ZenonT(40)
  <2>4. cleared(c) \/ (ctx' = [ctx EXCEPT ![c] = s] /\ UNCHANGED evicting)
    BY <1>4, ZenonT(40) DEF onEviction
  <2> QED
    BY <2>2, <2>3, <2>4
<1> QED
  BY <1>3, <1>4

LEMMA NextKeeps == IInv /\ [Next]_vars => IInv'
<1> SUFFICES ASSUME IInv, [Next]_vars PROVE IInv'
  OBVIOUS
<1>1. ASSUME NEW t \in Threads,
             \/ PollDecision(t) \/ PollQuery(t)
             \/ getWorkflowContext(t) \/ createWorkflowContext(t) \/ createFails(t)
             \/ Lock(t)
             \/ ProcessWorkflowTask(t) \/ ResetFails(t)
             \/ Heartbeat(t) \/ HeartbeatEnds(t)
             \/ UnlockReadsCache(t) \/ Unlock(t)
             \/ RespondAccepted(t) \/ RespondRejected(t)
      PROVE  IInv'
  BY <1>1, LookupKeeps, CreateKeeps, LockKeeps, ProcessKeeps, HeartbeatKeeps, UnlockKeeps, ZenonT(40)
<1>2. ASSUME NEW c \in Contexts, onEviction(c) \/ queueResetStickinessTask(c)
      PROVE  IInv'
  BY <1>2, EvictionKeeps
<1>3. CASE Evict
  BY <1>3, CacheMoves, ZenonT(40) DEF Evict, removed, IInv, Types
<1>4. CASE DecisionTimesOut \/ OtherWorker
  BY <1>4, CacheMoves, ZenonT(40) DEF DecisionTimesOut, OtherWorker, IInv, Types
<1>5. CASE UNCHANGED vars
  BY <1>5, CacheMoves, ZenonT(40) DEF vars, IInv, Types
<1> QED
  BY <1>1, <1>2, <1>3, <1>4, <1>5, ZenonT(40) DEF Next

LEMMA SpecIInv == Spec => []IInv
  BY InitHolds, NextKeeps, PTL DEF Spec

\* However many threads, evictions and queries meet at the contexts of a run, a
\* lock is held only by a thread that goes on to Unlock, or by an eviction whose
\* reset task the dispatcher can take (onEviction, getOrCreateWorkflowContext).
THEOREM LocksAreAlwaysReleased == Spec => []LocksAreReleased
<1>1. IInv => LocksAreReleased
  BY DEF IInv
<1> QED
  BY <1>1, SpecIInv, PTL

\* Two threads never work on the same context: from Lock to the end of Unlock the
\* state of a workflow, with its event handler and its decisions, has one user, also
\* when the context is evicted, cleared or replaced in the cache meanwhile.
OneUser ==
    \A t, u \in Threads :
      thread[t].pc \in Holding /\ thread[u].pc \in Holding /\ t # u => thread[t].c # thread[u].c

\* OneUser holds for any number of threads and contexts.
THEOREM ContextsHaveOneUser == Spec => []OneUser
<1>1. IInv => OneUser
  BY DEF IInv, HoldersHaveLock, OneUser
<1> QED
  BY <1>1, SpecIInv, PTL

-----------------------------------------------------------------------------
(* What is cached can be used                                              *)

ending(t, c) == thread[t].pc \in {"Processed", "Unlock"} /\ thread[t].c = c

\* A cached context is not about to be cleared, by an eviction or by an Unlock that
\* found nothing in the cache, and when its workflow has ended the thread which
\* found that out is on its way to drop it.
CacheOK ==
    /\ \A c \in Contexts : {"live", "ended"} \subseteq DOMAIN ctx[c]
    /\ cache # None => ctx[cache].live /\ cache \notin evicting
    /\ \A t \in Threads : thread[t].pc = "Unlock" => thread[t].cached \/ thread[t].c # cache
    /\ cache # None /\ ctx[cache].ended => \E t \in Threads : ending(t, cache)

\* A thread moves, and leaves the contexts alone.
LEMMA ThreadKeepsCache ==
    ASSUME IInv, CacheOK, NEW t \in Threads, NEW r,
           thread' = [thread EXCEPT ![t] = r], UNCHANGED <<ctx, cache, evicting>>,
           r.pc = "Unlock" => r.cached \/ r.c # cache,
           cache # None /\ ctx[cache].ended /\ ending(t, cache) =>
              r.pc \in {"Processed", "Unlock"} /\ r.c = cache
    PROVE  CacheOK'
<1>1. thread'[t] = r /\ \A u \in Threads : u # t => thread'[u] = thread[u]
  BY ZenonT(40) DEF IInv, Types
<1>2. \A u \in Threads : thread'[u].pc = "Unlock" => thread'[u].cached \/ thread'[u].c # cache
  BY <1>1, ZenonT(40) DEF CacheOK
<1>3. cache # None /\ ctx[cache].ended => \E u \in Threads : thread'[u].pc \in {"Processed", "Unlock"} /\ thread'[u].c = cache
  BY <1>1, ZenonT(40) DEF CacheOK, ending
<1>. QED
  BY <1>2, <1>3, ZenonT(40) DEF CacheOK, ending

\* A thread moves, and changes a context that stays fit for the cache if it is in it.
LEMMA ContextKeepsCache ==
    ASSUME IInv, CacheOK, NEW t \in Threads, NEW r, NEW c \in Contexts, NEW s,
           thread' = [thread EXCEPT ![t] = r], ctx' = [ctx EXCEPT ![c] = s],
           UNCHANGED <<cache, evicting>>,
           {"live", "ended"} \subseteq DOMAIN s,
           r.pc = "Unlock" => r.cached \/ r.c # cache,
           ending(t, cache) => c = cache,
           c = cache => s.live /\ (s.ended => r.pc \in {"Processed", "Unlock"} /\ r.c = c)
    PROVE  CacheOK'
<1>1. thread'[t] = r /\ \A u \in Threads : u # t => thread'[u] = thread[u]
  BY ZenonT(40) DEF IInv, Types
<1>2. ctx'[c] = s /\ \A d \in Contexts : d # c => ctx'[d] = ctx[d]
  BY ZenonT(40) DEF IInv, Types
<1>3. cache \in Contexts \cup {None}
  BY ZenonT(40) DEF IInv, Types
<1>4. \A d \in Contexts : {"live", "ended"} \subseteq DOMAIN ctx'[d]
  BY <1>2, ZenonT(40) DEF CacheOK
<1>5. cache # None => ctx'[cache].live /\ cache \notin evicting
  BY <1>2, <1>3, ZenonT(40) DEF CacheOK
<1>6. \A u \in Threads : thread'[u].pc = "Unlock" => thread'[u].cached \/ thread'[u].c # cache
  BY <1>1, ZenonT(40) DEF CacheOK
<1>7. ASSUME cache # None, ctx'[cache].ended
      PROVE  \E u \in Threads : thread'[u].pc \in {"Processed", "Unlock"} /\ thread'[u].c = cache
  <2>1. CASE c = cache
    BY <1>1, <1>2, <1>7, <2>1, ZenonT(40)
  <2>2. CASE c # cache
    <3>1. PICK u \in Threads : ending(u, cache)
      BY <1>2, <1>3, <1>7, <2>2, ZenonT(40) DEF CacheOK
    <3>2. u # t
      BY <2>2, <3>1
    <3>. QED
      BY <1>1, <3>1, <3>2, ZenonT(40) DEF ending
  <2>. QED
    BY <2>1, <2>2, ZenonT(40)
<1>. QED
  BY <1>4, <1>5, <1>6, <1>7, ZenonT(40) DEF CacheOK, ending

\* The cache loses its context.
LEMMA EmptyKeepsCache ==
    ASSUME IInv, IInv', cache' = None, \A c \in Contexts : {"live", "ended"} \subseteq DOMAIN ctx'[c]
    PROVE  CacheOK'
<1>1. \A t \in Threads : thread'[t].pc = "Unlock" => thread'[t].c # cache'
  BY WorkflowCacheAssumption, ZenonT(40) DEF IInv, Types, Referring
<1>. QED
  BY <1>1, ZenonT(40) DEF CacheOK

LEMMA LookupKeepsCache ==
    ASSUME IInv, CacheOK, NEW t \in Threads,
           \/ PollDecision(t) \/ PollQuery(t) \/ getWorkflowContext(t) \/ createFails(t)
           \/ RespondAccepted(t) \/ RespondRejected(t)
    PROVE  CacheOK'
<1>1. ASSUME NEW r, thread' = [thread EXCEPT ![t] = r], UNCHANGED <<cache, evicting, ctx>>,
             r.pc \in {"Idle", "Lookup", "Create", "Lock"},
             thread[t].pc \in {"Idle", "Lookup", "Create", "Respond"}
      PROVE  CacheOK'
  <2>1. r.pc # "Unlock" /\ ~ending(t, cache)
    BY <1>1 DEF ending
  <2>. QED
    BY <1>1, <2>1, ThreadKeepsCache, ZenonT(40)
<1>2. CASE PollDecision(t) \/ PollQuery(t)
  <2>1. PICK task : thread' = [thread EXCEPT ![t] = Lookup(task)]
    BY <1>2, ZenonT(40) DEF PollDecision, PollQuery
  <2>2. Lookup(task).pc = "Lookup"
    BY DEF Lookup
  <2>3. thread[t].pc = "Idle" /\ UNCHANGED <<cache, evicting, ctx>>
    BY <1>2, ZenonT(40) DEF PollDecision, PollQuery
  <2>. QED
    BY <1>1, <2>1, <2>2, <2>3, ZenonT(40)
<1>3. CASE getWorkflowContext(t)
  <2>. DEFINE r == [thread[t] EXCEPT !.pc = "Create"]
  <2>1. thread[t].pc = "Lookup" /\ UNCHANGED <<cache, evicting, ctx>>
    BY <1>3, ZenonT(40) DEF getWorkflowContext
  <2>2. locks(t, cache).pc = "Lock"
    BY DEF locks
  <2>3. r.pc = "Create"
    BY ZenonT(40) DEF IInv, Types
  <2>4. thread' = [thread EXCEPT ![t] = locks(t, cache)] \/ thread' = [thread EXCEPT ![t] = r]
    BY <1>3, ZenonT(40) DEF getWorkflowContext
  <2>. HIDE DEF r
  <2>. QED
    BY <1>1, <2>1, <2>2, <2>3, <2>4, ZenonT(40)
<1>4. CASE createFails(t) \/ RespondAccepted(t) \/ RespondRejected(t)
  <2>1. Idle.pc = "Idle"
    BY DEF Idle
  <2>2. /\ thread[t].pc \in {"Create", "Respond"} /\ UNCHANGED <<cache, evicting, ctx>>
        /\ thread' = [thread EXCEPT ![t] = Idle]
    BY <1>4, ZenonT(40) DEF createFails, RespondAccepted, RespondRejected
  <2>. QED
    BY <1>1, <2>1, <2>2, ZenonT(40)
<1>. QED
  BY <1>2, <1>3, <1>4

\* A context that is put into the cache is new, and no thread knows it.
LEMMA CreateKeepsCache ==
    ASSUME IInv, CacheOK, NEW t \in Threads, createWorkflowContext(t)
    PROVE  CacheOK'
<1>. DEFINE task == full(thread[t].task)
            r(c) == [locks(t, c) EXCEPT !.task = task]
<1>1. \A c : r(c).pc = "Lock"
  BY DEF locks
<1>2. thread[t].pc = "Create" /\ UNCHANGED evicting /\ ~ending(t, cache)
  BY ZenonT(40) DEF createWorkflowContext, ending
<1>3. ASSUME thread' = [thread EXCEPT ![t] = r(cache)], UNCHANGED <<ctx, cache>>
      PROVE  CacheOK'
  <2>. HIDE DEF r
  <2>1. r(cache).pc # "Unlock"
    BY <1>1
  <2>. QED
    BY <1>2, <1>3, <2>1, ThreadKeepsCache, ZenonT(40)
<1>4. ASSUME NEW c \in Contexts, unused(c), thread' = [thread EXCEPT ![t] = r(c)],
             ctx' = [ctx EXCEPT ![c] = New], cache' \in {cache, c}
      PROVE  CacheOK'
  <2>. HIDE DEF r
  <2>1. {"live", "ended"} \subseteq DOMAIN New /\ New.live /\ ~New.ended
    BY DEF New, Cleared
  <2>2. r(c).pc # "Unlock" /\ cache # c
    BY <1>1, <1>4 DEF unused
  <2>3. CASE cache' = cache
    BY <1>2, <1>4, <2>1, <2>2, <2>3, ContextKeepsCache, ZenonT(40)
  <2>4. CASE cache' = c
    <3>1. thread'[t] = r(c) /\ \A u \in Threads : u # t => thread'[u] = thread[u]
      BY <1>4, ZenonT(40) DEF IInv, Types
    <3>2. ctx'[c] = New /\ \A d \in Contexts : d # c => ctx'[d] = ctx[d]
      BY <1>4, ZenonT(40) DEF IInv, Types
    <3>3. \A u \in Threads : thread'[u].pc = "Unlock" => thread'[u].c # c
      BY <1>4, <2>2, <3>1, ZenonT(40) DEF unused
    <3>4. \A d \in Contexts : {"live", "ended"} \subseteq DOMAIN ctx'[d]
      BY <2>1, <3>2, ZenonT(40) DEF CacheOK
    <3>5. c \notin evicting'
      BY <1>2, <1>4 DEF unused
    <3>. QED
      BY <2>1, <2>4, <3>2, <3>3, <3>4, <3>5, ZenonT(40) DEF CacheOK
  <2>. QED
    BY <1>4, <2>3, <2>4
<1>. QED
  BY <1>3, <1>4, ZenonT(40) DEF createWorkflowContext

LEMMA LockKeepsCache ==
    ASSUME IInv, CacheOK, NEW t \in Threads, Lock(t)
    PROVE  CacheOK'
<1>. DEFINE c == thread[t].c
            r == [thread[t] EXCEPT !.pc = "Locked"]
            s == [ctx[c] EXCEPT !.lock = t]
<1>1. c \in Contexts /\ thread[t].pc = "Lock" /\ ~ending(t, cache) /\ UNCHANGED <<cache, evicting>>
  BY ZenonT(40) DEF Lock, IInv, Types, Referring, ending
<1>2. thread' = [thread EXCEPT ![t] = r] /\ ctx' = [ctx EXCEPT ![c] = s]
  BY <1>1, ZenonT(40) DEF Lock
<1>3. r.pc = "Locked"
  BY <1>1 DEF IInv, Types
<1>4. {"live", "ended"} \subseteq DOMAIN s /\ s.live = ctx[c].live /\ s.ended = ctx[c].ended
  BY <1>1, ZenonT(40) DEF CacheOK
<1>5. c = cache => c # None
  BY <1>1, WorkflowCacheAssumption
<1>. HIDE DEF c, r, s
<1>6. CASE c = cache /\ ctx[c].ended
  <2>1. PICK u \in Threads : ending(u, cache)
    BY <1>5, <1>6, ZenonT(40) DEF CacheOK
  <2>2. thread[u].pc \in Holding /\ thread[u].c = c
    BY <1>6, <2>1 DEF ending, Holding
  <2>. QED
    BY <2>2, WorkflowCacheAssumption, ZenonT(40) DEF Lock, c, IInv, HoldersHaveLock
<1>7. CASE c = cache => ~ctx[c].ended
  <2>1. c = cache => s.live /\ ~s.ended
    BY <1>4, <1>5, <1>7, ZenonT(40) DEF CacheOK
  <2>2. r.pc # "Unlock"
    BY <1>3
  <2>. QED
    BY <1>1, <1>2, <1>4, <2>1, <2>2, ContextKeepsCache, ZenonT(40)
<1>. QED
  BY <1>6, <1>7

\* A state is live when a task was processed on it.
LEMMA ProcessKeepsCache ==
    ASSUME IInv, CacheOK, NEW t \in Threads, ProcessWorkflowTask(t) \/ ResetFails(t)
    PROVE  CacheOK'
<1>. DEFINE c == thread[t].c
<1>1. thread[t].pc = "Locked" /\ UNCHANGED <<cache, evicting>>
  BY ZenonT(40) DEF ProcessWorkflowTask, ResetFails
<1>2. c \in Contexts /\ ~ending(t, cache)
  BY <1>1, ZenonT(40) DEF IInv, Types, Referring, ending
<1>3. ASSUME NEW task, NEW e, NEW s, {"live", "ended"} \subseteq DOMAIN s, s.live,
             thread' = [thread EXCEPT ![t] = processed(t, task, e)],
             ctx' = [ctx EXCEPT ![c] = s]
      PROVE  CacheOK'
  <2>. DEFINE r == processed(t, task, e)
  <2>1. r.pc = "Processed" /\ r.c = c
    BY DEF processed
  <2>2. thread' = [thread EXCEPT ![t] = r]
    BY <1>3
  <2>. HIDE DEF c, r
  <2>3. r.pc # "Unlock" /\ r.pc \in {"Processed", "Unlock"}
    BY <2>1
  <2>. QED
    BY <1>1, <1>2, <1>3, <2>1, <2>2, <2>3, ContextKeepsCache, ZenonT(40)
<1>4. {"live", "ended"} \subseteq DOMAIN rebuilt(t) /\ rebuilt(t).live
  BY ZenonT(40) DEF rebuilt, New, Cleared
<1>5. CASE ResetFails(t)
  BY <1>3, <1>4, <1>5, ZenonT(40) DEF ResetFails
<1>6. CASE ProcessWorkflowTask(t)
  <2>. DEFINE task == IF resets(t) THEN full(thread[t].task) ELSE thread[t].task
              s == IF resets(t) THEN rebuilt(t) ELSE ctx[c]
              end(b) == [applies(s, task) EXCEPT !.ended = @ \/ b]
  <2>1. {"live", "ended"} \subseteq DOMAIN s /\ s.live
    BY <1>2, <1>4, ZenonT(40) DEF CacheOK, resets
  <2>2. {"live", "ended"} \subseteq DOMAIN applies(s, task) /\ applies(s, task).live
    <3>. HIDE DEF s, task
    <3>. QED
      BY <2>1, ZenonT(40) DEF applies
  <2>3. ASSUME NEW b PROVE {"live", "ended"} \subseteq DOMAIN end(b) /\ end(b).live
    <3>. HIDE DEF s, task
    <3>. QED
      BY <2>2, ZenonT(40)
  <2>4. PICK b \in BOOLEAN, e \in BOOLEAN :
          /\ ctx' = [ctx EXCEPT ![c] = end(b)]
          /\ thread' = [thread EXCEPT ![t] = processed(t, task, e)]
    BY <1>6, ZenonT(40) DEF ProcessWorkflowTask
  <2>. HIDE DEF end, task
  <2>. QED
    BY <1>3, <2>3, <2>4, ZenonT(40)
<1>. QED
  BY <1>5, <1>6

\* A heartbeat goes on only with a workflow that has not ended.
LEMMA HeartbeatKeepsCache ==
    ASSUME IInv, CacheOK, NEW t \in Threads, Heartbeat(t) \/ HeartbeatEnds(t) \/ UnlockReadsCache(t)
    PROVE  CacheOK'
<1>1. /\ thread[t].pc = "Processed" /\ UNCHANGED <<cache, evicting, ctx>>
      /\ thread[t].c \in Contexts /\ "c" \in DOMAIN thread[t] /\ "pc" \in DOMAIN thread[t]
  BY ZenonT(40) DEF Heartbeat, HeartbeatEnds, UnlockReadsCache, IInv, Types, Referring
<1>2. ASSUME NEW r, thread' = [thread EXCEPT ![t] = r],
             r.pc = "Unlock" => r.cached \/ r.c # cache,
             ctx[thread[t].c].ended => r.pc \in {"Processed", "Unlock"} /\ r.c = thread[t].c
      PROVE  CacheOK'
  <2>1. cache # None /\ ctx[cache].ended /\ ending(t, cache) => r.pc \in {"Processed", "Unlock"} /\ r.c = cache
    BY <1>2, ZenonT(40) DEF ending
  <2>. QED
    BY <1>1, <1>2, <2>1, ThreadKeepsCache, ZenonT(40)
<1>3. CASE Heartbeat(t)
  <2>. DEFINE r == [pc |-> "Locked", c |-> thread[t].c,
                    task |-> [query |-> FALSE, full |-> FALSE, base |-> history',
                              n |-> started + 1, id |-> nextId']]
  <2>1. thread' = [thread EXCEPT ![t] = r] /\ ~ctx[thread[t].c].ended
    BY <1>3, ZenonT(40) DEF Heartbeat
  <2>2. r.pc # "Unlock"
    OBVIOUS
  <2>. HIDE DEF r
  <2>. QED
    BY <1>2, <2>1, <2>2, ZenonT(40)
<1>4. CASE HeartbeatEnds(t)
  <2>1. PICK e \in BOOLEAN : thread' = [thread EXCEPT ![t].err = e, ![t].n = 0]
    BY <1>4, ZenonT(40) DEF HeartbeatEnds
  <2>. DEFINE q == [thread[t] EXCEPT !.err = e]
              r == [q EXCEPT !.n = 0]
  <2>2. /\ "pc" \in DOMAIN q /\ "c" \in DOMAIN q
        /\ q.pc = thread[t].pc /\ q.c = thread[t].c
    BY <1>1, ZenonT(40)
  <2>3. r.pc = thread[t].pc /\ r.c = thread[t].c
    <3>. HIDE DEF q
    <3>. QED
      BY <2>2, ZenonT(40)
  <2>4. thread' = [thread EXCEPT ![t] = r]
    BY <2>1, ZenonT(40) DEF IInv, Types
  <2>. HIDE DEF r
  <2>5. r.pc # "Unlock" /\ r.pc \in {"Processed", "Unlock"}
    BY <1>1, <2>3
  <2>. QED
    BY <1>2, <2>3, <2>4, <2>5, ZenonT(40)
<1>5. CASE UnlockReadsCache(t)
  <2>. DEFINE r == [pc |-> "Unlock", c |-> thread[t].c, err |-> thread[t].err, n |-> thread[t].n,
                    cached |-> cache # None]
  <2>1. thread' = [thread EXCEPT ![t] = r]
    BY <1>5, ZenonT(40) DEF UnlockReadsCache
  <2>2. r.pc = "Unlock" /\ r.c = thread[t].c /\ (r.cached <=> cache # None)
    BY ZenonT(40)
  <2>. HIDE DEF r
  <2>3. r.cached \/ r.c # cache
    BY <1>1, <2>2, WorkflowCacheAssumption
  <2>. QED
    BY <1>2, <2>1, <2>2, <2>3, ZenonT(40)
<1>. QED
  BY <1>3, <1>4, <1>5

\* Unlock drops the context of a workflow that has ended, and it clears a context
\* only when the cache was empty, so that this one is not in it.
LEMMA UnlockKeepsCache ==
    ASSUME IInv, CacheOK, NEW t \in Threads, Unlock(t)
    PROVE  CacheOK'
<1>. DEFINE c == thread[t].c
            kept == [ctx[c] EXCEPT !.lock = None]
            s == IF thread[t].cached THEN kept ELSE Cleared
            r == IF thread[t].n # 0
                 THEN [pc |-> "Respond", n |-> thread[t].n, closes |-> ctx[c].ended] ELSE Idle
<1>1. thread[t].pc = "Unlock" /\ c \in Contexts
  BY ZenonT(40) DEF Unlock, IInv, Types, Referring
<1>2. thread' = [thread EXCEPT ![t] = r] /\ ctx' = [ctx EXCEPT ![c] = s]
  BY ZenonT(40) DEF Unlock
<1>3. r.pc \in {"Respond", "Idle"}
  BY DEF Idle
<1>4. {"live", "ended"} \subseteq DOMAIN kept /\ kept.live = ctx[c].live /\ kept.ended = ctx[c].ended
  BY <1>1, ZenonT(40) DEF CacheOK
<1>5. {"live", "ended"} \subseteq DOMAIN Cleared
  BY DEF Cleared
<1>6. {"live", "ended"} \subseteq DOMAIN s
  BY <1>4, <1>5, ZenonT(40)
<1>7. ending(t, cache) => c = cache
  BY DEF ending
<1>8. thread[t].cached \/ c # cache
  BY <1>1, ZenonT(40) DEF CacheOK
<1>9. CASE cache' = None
  <2>1. IInv'
    BY UnlockKeeps
  <2>2. ctx'[c] = s /\ \A d \in Contexts : d # c => ctx'[d] = ctx[d]
    BY <1>1, <1>2, ZenonT(40) DEF IInv, Types
  <2>3. \A d \in Contexts : {"live", "ended"} \subseteq DOMAIN ctx'[d]
    <3>. HIDE DEF s, c
    <3>. QED
      BY <1>6, <2>2, ZenonT(40) DEF CacheOK
  <2>. QED
    BY <1>9, <2>1, <2>3, EmptyKeepsCache, ZenonT(40)
<1>10. CASE cache' # None
  <2>1. UNCHANGED <<cache, evicting>> /\ (thread[t].cached => ~ctx[c].ended)
    BY <1>10, ZenonT(40) DEF Unlock
  <2>2. c = cache => s.live /\ ~s.ended
    <3>. SUFFICES ASSUME c = cache PROVE s.live /\ ~s.ended
      OBVIOUS
    <3>1. thread[t].cached /\ s = kept
      BY <1>8
    <3>2. ctx[c].live /\ ~ctx[c].ended
      BY <1>10, <2>1, <3>1, ZenonT(40) DEF CacheOK
    <3>. QED
      BY <1>4, <3>1, <3>2, ZenonT(40)
  <2>3. r.pc # "Unlock"
    BY <1>3, ZenonT(40)
  <2>. HIDE DEF c, r, s
  <2>. QED
    BY <1>1, <1>2, <1>6, <1>7, <2>1, <2>2, <2>3, ContextKeepsCache, ZenonT(40)
<1>. QED
  BY <1>9, <1>10

\* An eviction has a context that is not in the cache any more.
LEMMA EvictionKeepsCache ==
    ASSUME IInv, CacheOK, NEW c \in Contexts, onEviction(c) \/ queueResetStickinessTask(c)
    PROVE  CacheOK'
<1>1. UNCHANGED <<thread, cache>> /\ cache \in Contexts \cup {None}
  BY ZenonT(40) DEF onEviction, queueResetStickinessTask, IInv, Types
<1>2. c \in evicting
  <2>1. CASE onEviction(c)
    BY <2>1 DEF onEviction
  <2>2. CASE queueResetStickinessTask(c)
    BY <2>2, WorkflowCacheAssumption, ZenonT(40) DEF queueResetStickinessTask, IInv, LocksAreReleased, Evictor
  <2>. QED
    BY <2>1, <2>2
<1>3. cache # None => cache # c
  BY <1>2 DEF CacheOK
<1>4. PICK s : {"live", "ended"} \subseteq DOMAIN s /\ ctx' = [ctx EXCEPT ![c] = s] /\ evicting' \subseteq evicting
  <2>1. {"live", "ended"} \subseteq DOMAIN Cleared
    BY DEF Cleared
  <2>2. CASE cleared(c)
    <3>1. ctx' = [ctx EXCEPT ![c] = Cleared] /\ evicting' \subseteq evicting
      BY <2>2 DEF cleared
    <3>. HIDE DEF Cleared
    <3>. QED
      BY <2>1, <3>1, ZenonT(40)
  <2>3. CASE ctx' = [ctx EXCEPT ![c].lock = Evictor] /\ UNCHANGED evicting
    <3>. DEFINE s == [ctx[c] EXCEPT !.lock = Evictor]
    <3>1. {"live", "ended"} \subseteq DOMAIN s
      BY ZenonT(40) DEF CacheOK
    <3>2. ctx' = [ctx EXCEPT ![c] = s] /\ evicting' \subseteq evicting
      BY <2>3
    <3>. HIDE DEF s
    <3>. QED
      BY <3>1, <3>2, ZenonT(40)
  <2>. QED
    BY <2>2, <2>3, ZenonT(40) DEF onEviction, queueResetStickinessTask
<1>5. ctx'[c] = s /\ \A d \in Contexts : d # c => ctx'[d] = ctx[d]
  BY <1>4 DEF IInv, Types
<1>6. \A d \in Contexts : {"live", "ended"} \subseteq DOMAIN ctx'[d]
  BY <1>4, <1>5, ZenonT(40) DEF CacheOK
<1>7. cache # None => ctx'[cache] = ctx[cache] /\ cache \notin evicting'
  BY <1>1, <1>3, <1>4, <1>5, ZenonT(40) DEF CacheOK
<1>. QED
  BY <1>1, <1>6, <1>7, ZenonT(40) DEF CacheOK, ending

LEMMA NextKeepsCache == IInv /\ CacheOK /\ [Next]_vars => CacheOK'
<1>. SUFFICES ASSUME IInv, CacheOK, [Next]_vars PROVE CacheOK'
  OBVIOUS
<1>1. ASSUME NEW t \in Threads,
             \/ PollDecision(t) \/ PollQuery(t)
             \/ getWorkflowContext(t) \/ createWorkflowContext(t) \/ createFails(t)
             \/ Lock(t)
             \/ ProcessWorkflowTask(t) \/ ResetFails(t)
             \/ Heartbeat(t) \/ HeartbeatEnds(t)
             \/ UnlockReadsCache(t) \/ Unlock(t)
             \/ RespondAccepted(t) \/ RespondRejected(t)
      PROVE  CacheOK'
  BY <1>1, LookupKeepsCache, CreateKeepsCache, LockKeepsCache, ProcessKeepsCache,
     HeartbeatKeepsCache, UnlockKeepsCache
<1>2. ASSUME NEW c \in Contexts, onEviction(c) \/ queueResetStickinessTask(c)
      PROVE  CacheOK'
  BY <1>2, EvictionKeepsCache
<1>3. CASE Evict
  <2>1. cache' = None /\ UNCHANGED ctx /\ IInv'
    BY <1>3, NextKeeps, ZenonT(40) DEF Evict, Next
  <2>2. \A c \in Contexts : {"live", "ended"} \subseteq DOMAIN ctx'[c]
    BY <2>1, ZenonT(40) DEF CacheOK
  <2>. QED
    BY <2>1, <2>2, EmptyKeepsCache, ZenonT(40)
<1>4. CASE UNCHANGED <<cache, evicting, ctx, thread>>
  BY <1>4, ZenonT(40) DEF CacheOK, ending
<1>5. CASE DecisionTimesOut \/ OtherWorker \/ UNCHANGED vars
  BY <1>4, <1>5, ZenonT(40) DEF DecisionTimesOut, OtherWorker, vars
<1>. QED
  BY <1>1, <1>2, <1>3, <1>5, ZenonT(40) DEF Next

\* A cached context that no thread works on can be used by the next task: it was not
\* cleared, and its workflow has not ended (Unlock, onEviction), for any number of
\* threads and contexts.
THEOREM CachedIsAlwaysUsable == Spec => []CachedIsUsable
<1>1. Init => CacheOK
  BY DEF Init, CacheOK, Cleared, Idle
<1>2. CacheOK => CachedIsUsable
  BY ZenonT(40) DEF CacheOK, CachedIsUsable, referenced, ending
<1>. QED
  BY <1>1, <1>2, SpecIInv, NextKeepsCache, PTL DEF Spec
=============================================================================
