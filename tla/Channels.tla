------------------------------ MODULE Channels ------------------------------
(***************************************************************************)
(* The coroutines of a workflow and what they block on: dispatcherImpl,    *)
(* coroutineState, channelImpl and selectorImpl of internal_workflow.go.   *)
(*                                                                         *)
(* One coroutine runs at a time, from the dispatcher's call() to its next  *)
(* yield; a step is one round of a loop of Receive, Send or Select, or one *)
(* operation of the workflow code.  Between two runs of the dispatcher the *)
(* event handler sends signals and closes channels.  A future is a channel *)
(* that is closed when the future is set, and so is Context.Done().        *)
(***************************************************************************)
EXTENDS Integers, Sequences, FiniteSets

CONSTANTS None,
          Channels,
          Futures,       \* the channels that belong to futures
          size,          \* buffer size of each channel
          Corrupt,       \* the values that a Receive cannot decode
          Coroutines,    \* the coroutines in the order of their creation
          Cases,         \* the cases of the selector of each coroutine, in order
          HasDefault,    \* coroutines whose selector has a default branch
          ConsumesFirst, \* a Select callback for a channel starts with a Receive
          MaxOps,        \* bounds on the operations of each coroutine
          MaxValues      \* bound on the values that are sent

Procs == {Coroutines[i] : i \in 1..Len(Coroutines)}

CaseRecords == [kind : {"Receive", "Send", "Future"}, ch : Channels]

ASSUME ChannelsAssumption ==
    /\ size \in [Channels -> Nat]
    /\ Futures \subseteq Channels
    /\ \A p \in Procs : Cases[p] \in Seq(CaseRecords)
    /\ HasDefault \subseteq Procs
    /\ ConsumesFirst \in BOOLEAN
    /\ MaxOps \in [Procs -> Nat] /\ MaxValues \in Nat /\ Corrupt \subseteq 1..MaxValues

VARIABLES
    buffer, blockedSends, blockedReceives, closed, recValue, \* of each channel
    pc,          \* where each coroutine is: see Pcs
    target,      \* the channel and the value of its operation
    got,         \* what was given to the callback of its Receive or Send
    case,        \* the case that its Select looks at
    readyBranch, \* the branch of its Select that is ready
    inBranch,    \* coroutines that run a callback of Select
    fired,       \* the future cases whose futureFunc is nil
    coroutines,  \* the live coroutines, in the dispatcher's order
    index,       \* i of ExecuteUntilAllBlocked, 0 when it is not running
    allBlocked, keptBlocked,
    grown,       \* a coroutine was created in this pass
    running,     \* the coroutine that was called and has not yielded
    panicked,    \* a coroutine had an unhandled panic
    ops, values, \* used up of the bounds
    sent,        \* the values that a channel accepted
    consumed,    \* the values that were received, or dropped as corrupt
    last         \* the last value each coroutine received from each channel

channel == <<buffer, blockedSends, blockedReceives, closed, recValue>>
history == <<sent, consumed, last>>
dispatcher == <<coroutines, index, allBlocked, grown, running, panicked>>
vars == <<channel, pc, target, got, case, readyBranch, inBranch, fired, keptBlocked,
          dispatcher, ops, values, history>>

nil == 0

Init ==
    /\ buffer = [c \in Channels |-> <<>>]
    /\ blockedSends = [c \in Channels |-> <<>>]
    /\ blockedReceives = [c \in Channels |-> <<>>]
    /\ closed = [c \in Channels |-> FALSE]
    /\ recValue = [c \in Channels |-> None]
    /\ pc = [p \in Procs |-> IF p = Coroutines[1] THEN "Run" ELSE "Unborn"]
    /\ target = [p \in Procs |-> [ch |-> None, v |-> nil]]
    /\ got = [p \in Procs |-> None]
    /\ case = [p \in Procs |-> 0]
    /\ readyBranch = [p \in Procs |-> None]
    /\ inBranch = {}
    /\ fired = [p \in Procs |-> {}]
    /\ coroutines = <<Coroutines[1]>>
    /\ index = 0 /\ allBlocked = FALSE /\ grown = FALSE
    /\ keptBlocked = [p \in Procs |-> FALSE]
    /\ running = None /\ panicked = FALSE
    /\ ops = [p \in Procs |-> 0] /\ values = 0
    /\ sent = {} /\ consumed = {}
    /\ last = [p \in Procs |-> [c \in Channels |-> nil]]

-----------------------------------------------------------------------------
(* Callbacks.  The callback of a Receive or Send accepts; the one of a     *)
(* Select accepts while no branch is ready.                                *)

\* Mutant: the callback of a Select accepts although a branch is ready.
acceptsAlways(b) == b.co \in Procs

accepts(b) == ~b.sel \/ readyBranch[b.co] = None

\* The callbacks that the loops over a queue pop: the first that accepts and
\* those before it.
popped(q) ==
    IF \E i \in 1..Len(q) : accepts(q[i])
    THEN CHOOSE i \in 1..Len(q) : accepts(q[i]) /\ \A j \in 1..(i - 1) : ~accepts(q[j])
    ELSE Len(q)

acceptor(q) == {q[i] : i \in {j \in {popped(q)} \cap (1..Len(q)) : accepts(q[j])}}

rest(q) == SubSeq(q, popped(q) + 1, Len(q))

\* What the callbacks B leave when they are called with v (a sender's callback
\* with its own value) and more.
gotAfter(B, v, more) ==
    [p \in Procs |-> IF \E b \in B : b.co = p /\ ~b.sel
                     THEN [v |-> v, more |-> more] ELSE got[p]]

branchAfter(B, v, more) ==
    [p \in Procs |-> IF \E b \in B : b.co = p /\ b.sel /\ accepts(b)
                     THEN [k |-> (CHOOSE b \in B : b.co = p /\ b.sel).k, v |-> v, more |-> more]
                     ELSE readyBranch[p]]

receiveCallback(co, sel) == [co |-> co, v |-> nil, sel |-> sel, k |-> IF sel THEN case[co] ELSE 0]
sendCallback(co, v, sel) == [co |-> co, v |-> v, sel |-> sel, k |-> IF sel THEN case[co] ELSE 0]

-----------------------------------------------------------------------------
(* receiveAsyncImpl: its result, and what it does to the channel.          *)

\* The blocked sends are looked at when there is no pre-fetched value and the
\* channel is not both closed and empty.
looksAtSends(c) == recValue[c] = None /\ (buffer[c] # <<>> \/ ~closed[c])

sender(c) == IF looksAtSends(c) THEN acceptor(blockedSends[c]) ELSE {}

received(c) ==
    CASE recValue[c] # None -> [v |-> recValue[c], ok |-> TRUE, more |-> TRUE]
      [] recValue[c] = None /\ buffer[c] # <<>> ->
            [v |-> Head(buffer[c]), ok |-> TRUE, more |-> TRUE]
      [] recValue[c] = None /\ buffer[c] = <<>> /\ closed[c] ->
            [v |-> nil, ok |-> FALSE, more |-> FALSE]
      [] OTHER -> IF sender(c) # {}
                  THEN [v |-> (CHOOSE b \in sender(c) : TRUE).v, ok |-> TRUE, more |-> TRUE]
                  ELSE [v |-> nil, ok |-> FALSE, more |-> TRUE]

\* B is the receiver's callback, if it has one.
receiveAsyncImpl(c, B) ==
    LET r == received(c)
        S == sender(c)
    IN
    /\ buffer' = IF recValue[c] # None \/ buffer[c] = <<>> THEN buffer
                 ELSE [buffer EXCEPT ![c] = Tail(@) \o
                          (IF S = {} THEN <<>> ELSE <<(CHOOSE b \in S : TRUE).v>>)]
    /\ blockedSends' = IF looksAtSends(c) THEN [blockedSends EXCEPT ![c] = rest(@)]
                       ELSE blockedSends
    /\ blockedReceives' = IF r.ok \/ ~r.more \/ B = {} THEN blockedReceives
                          ELSE [blockedReceives EXCEPT ![c] = Append(@, CHOOSE b \in B : TRUE)]
    /\ sent' = sent \cup {b.v : b \in S}
    /\ UNCHANGED closed

\* sendAsyncImpl on an open channel; B is the sender's callback, if it has one.
sendOk(c) == acceptor(blockedReceives[c]) # {} \/ Len(buffer[c]) < size[c]

sendAsyncImpl(c, v, B) ==
    LET A == acceptor(blockedReceives[c]) IN
    /\ blockedReceives' = [blockedReceives EXCEPT ![c] = rest(@)]
    /\ buffer' = IF A = {} /\ sendOk(c) THEN [buffer EXCEPT ![c] = Append(@, v)] ELSE buffer
    /\ blockedSends' = IF sendOk(c) \/ B = {} THEN blockedSends
                       ELSE [blockedSends EXCEPT ![c] = Append(@, CHOOSE b \in B : TRUE)]
    /\ got' = gotAfter(A, v, TRUE)
    /\ sent' = IF sendOk(c) THEN sent \cup {v} ELSE sent
    /\ UNCHANGED <<closed, consumed, last>>

\* Mutant: Close does not call the blocked receives.
CloseSilently(c) ==
    /\ ~closed[c]
    /\ closed' = [closed EXCEPT ![c] = TRUE]
    /\ UNCHANGED <<buffer, blockedSends, blockedReceives, recValue, got, readyBranch, history>>

\* channelImpl.Close: every blocked receive is called.  Closing again changes
\* nothing that a coroutine can see.
Close(c) ==
    LET B == {blockedReceives[c][i] : i \in 1..Len(blockedReceives[c])} IN
    /\ ~closed[c]
    /\ closed' = [closed EXCEPT ![c] = TRUE]
    /\ got' = gotAfter(B, nil, FALSE)
    /\ readyBranch' = branchAfter(B, nil, FALSE)
    /\ UNCHANGED <<buffer, blockedSends, blockedReceives, recValue, history>>

-----------------------------------------------------------------------------
(* The dispatcher.                                                         *)

ExecuteUntilAllBlocked ==
    /\ index = 0 /\ ~panicked /\ coroutines # <<>>
    /\ index' = 1 /\ allBlocked' = TRUE /\ grown' = FALSE
    /\ UNCHANGED <<channel, pc, target, got, case, readyBranch, inBranch, fired, keptBlocked,
                   coroutines, running, panicked, ops, values, history>>

\* call(): a coroutine that had yielded finds keptBlocked set.
Call ==
    LET p == coroutines[index] IN
    /\ index \in 1..Len(coroutines) /\ running = None
    /\ running' = p
    /\ keptBlocked' = [keptBlocked EXCEPT ![p] = @ \/ pc[p] # "Run"]
    /\ UNCHANGED <<channel, pc, target, got, case, readyBranch, inBranch, fired,
                   coroutines, index, allBlocked, grown, panicked, ops, values, history>>

EndPass ==
    /\ index = Len(coroutines) + 1 /\ running = None
    /\ IF (allBlocked /\ ~grown) \/ coroutines = <<>>
       THEN index' = 0 /\ UNCHANGED <<allBlocked, grown>>
       ELSE index' = 1 /\ allBlocked' = TRUE /\ grown' = FALSE
    /\ UNCHANGED <<channel, pc, target, got, case, readyBranch, inBranch, fired, keptBlocked,
                   coroutines, running, panicked, ops, values, history>>

yield(p) ==
    /\ running' = None
    /\ allBlocked' = (allBlocked /\ keptBlocked[p])
    /\ index' = index + 1
    /\ UNCHANGED <<channel, pc, target, got, case, readyBranch, inBranch, fired, keptBlocked,
                   coroutines, grown, panicked, ops, values, history>>

\* The workflow code of the coroutine returns: it is taken out of the list.
Exit(p) ==
    /\ running = p /\ pc[p] = "Run" /\ p \notin inBranch
    /\ pc' = [pc EXCEPT ![p] = "Exited"]
    /\ coroutines' = SubSeq(coroutines, 1, index - 1) \o SubSeq(coroutines, index + 1, Len(coroutines))
    /\ allBlocked' = FALSE
    /\ running' = None
    /\ UNCHANGED <<channel, target, got, case, readyBranch, inBranch, fired, keptBlocked,
                   index, grown, panicked, ops, values, history>>

\* The cleanups that Select defers.
cleanups(p) ==
    LET without(q) == SelectSeq(q, LAMBDA b : ~(b.sel /\ b.co = p)) IN
    /\ blockedReceives' = [c \in Channels |-> without(blockedReceives[c])]
    /\ blockedSends' = [c \in Channels |-> without(blockedSends[c])]

\* An unhandled panic: ExecuteUntilAllBlocked returns its error.
Panic(p) ==
    /\ pc' = [pc EXCEPT ![p] = "Exited"]
    /\ coroutines' = SubSeq(coroutines, 1, index - 1) \o SubSeq(coroutines, index + 1, Len(coroutines))
    /\ panicked' = TRUE
    /\ running' = None
    /\ index' = 0
    /\ cleanups(p)
    /\ UNCHANGED <<buffer, closed, recValue, target, got, case, readyBranch, inBranch, fired, keptBlocked,
                   allBlocked, grown, values, history>>

-----------------------------------------------------------------------------
(* Operations of the running coroutine.                                    *)

Starts(p) ==
    /\ running = p /\ pc[p] = "Run" /\ ops[p] < MaxOps[p]
    /\ ops' = [ops EXCEPT ![p] = @ + 1]

unblocked(p) == keptBlocked' = [keptBlocked EXCEPT ![p] = FALSE]

newCoroutine(p) ==
    LET n == Cardinality({q \in Procs : pc[q] # "Unborn"}) + 1 IN
    /\ Starts(p)
    /\ n <= Len(Coroutines)
    /\ pc' = [pc EXCEPT ![Coroutines[n]] = "Run"]
    /\ coroutines' = Append(coroutines, Coroutines[n])
    /\ grown' = TRUE
    /\ UNCHANGED <<channel, target, got, case, readyBranch, inBranch, fired, keptBlocked,
                   index, allBlocked, running, panicked, values, history>>

\* Receive and ReceiveAsync up to the first round of their loops.
Receive(p, c, async) ==
    /\ Starts(p)
    /\ pc' = [pc EXCEPT ![p] = IF async THEN "ReceiveAsync" ELSE "Receive"]
    /\ target' = [target EXCEPT ![p].ch = c]
    /\ UNCHANGED <<channel, got, case, readyBranch, inBranch, fired, keptBlocked,
                   dispatcher, values, history>>

\* v reaches the caller, unless it is corrupt and dropped.
assignValue(p, c, v) ==
    /\ consumed' = consumed \cup ({v} \ {nil})
    /\ last' = IF v \in Corrupt \cup {nil} THEN last ELSE [last EXCEPT ![p][c] = v]

\* One round of the loop of Receive or of ReceiveAsync, which has no callback.
ReceiveLoop(p) ==
    LET c == target[p].ch
        r == received(c)
        B == IF pc[p] = "Receive" THEN {receiveCallback(p, FALSE)} ELSE {}
    IN
    /\ running = p /\ pc[p] \in {"Receive", "ReceiveAsync"}
    /\ receiveAsyncImpl(c, B)
    /\ recValue' = [recValue EXCEPT ![c] = None]
    /\ got' = gotAfter(sender(c), nil, TRUE)
    /\ readyBranch' = branchAfter(sender(c), nil, TRUE)
    /\ assignValue(p, c, r.v)
    /\ pc' = [pc EXCEPT ![p] = IF r.v \in Corrupt THEN @
                               ELSE IF ~r.ok /\ r.more /\ B # {} THEN "ReceiveWait" ELSE "Run"]
    /\ IF r.ok /\ r.v \notin Corrupt /\ B # {} THEN unblocked(p) ELSE UNCHANGED keptBlocked
    /\ UNCHANGED <<target, case, inBranch, fired, dispatcher, ops, values>>

\* The inner loop of Receive: a result, or yield again.
ReceiveWait(p) ==
    /\ running = p /\ pc[p] = "ReceiveWait"
    /\ \/ /\ got[p] = None
          /\ yield(p)
       \/ /\ got[p] # None
          /\ got' = [got EXCEPT ![p] = None]
          /\ assignValue(p, target[p].ch, got[p].v)
          /\ IF got[p].v \in Corrupt
             THEN pc' = [pc EXCEPT ![p] = "Receive"] /\ UNCHANGED keptBlocked
             ELSE pc' = [pc EXCEPT ![p] = "Run"] /\ unblocked(p)
          /\ UNCHANGED <<channel, target, case, readyBranch, inBranch, fired, dispatcher,
                         ops, values, sent>>

\* Send and SendAsync.  Sending to a closed channel panics.
Send(p, c, async) ==
    LET v == values + 1 IN
    /\ Starts(p)
    /\ values < MaxValues
    /\ \/ closed[c] /\ Panic(p)
       \/ /\ ~closed[c]
          /\ values' = v
          /\ target' = [target EXCEPT ![p] = [ch |-> c, v |-> v]]
          /\ sendAsyncImpl(c, v, IF async THEN {} ELSE {sendCallback(p, v, FALSE)})
          /\ readyBranch' = branchAfter(acceptor(blockedReceives[c]), v, TRUE)
          /\ pc' = [pc EXCEPT ![p] = IF sendOk(c) \/ async THEN "Run" ELSE "SendWait"]
          /\ IF sendOk(c) /\ ~async THEN unblocked(p) ELSE UNCHANGED keptBlocked
          /\ UNCHANGED <<recValue, case, inBranch, fired, dispatcher>>

SendWait(p) ==
    /\ running = p /\ pc[p] = "SendWait"
    /\ \/ /\ got[p] # None
          /\ got' = [got EXCEPT ![p] = None]
          /\ pc' = [pc EXCEPT ![p] = "Run"]
          /\ unblocked(p)
          /\ UNCHANGED <<channel, target, case, readyBranch, inBranch, fired, dispatcher,
                         ops, values, history>>
       \/ got[p] = None /\ closed[target[p].ch] /\ Panic(p) /\ UNCHANGED ops
       \/ got[p] = None /\ ~closed[target[p].ch] /\ yield(p)

\* The workflow code closes a channel, sets a future or cancels a context.
CloseChannel(p, c) ==
    /\ Starts(p)
    /\ Close(c)
    /\ UNCHANGED <<pc, target, case, inBranch, fired, keptBlocked, dispatcher, values>>

-----------------------------------------------------------------------------
(* Select: one step per case, then the default branch or the wait.         *)

sends(p) == \E i \in 1..Len(Cases[p]) : Cases[p][i].kind = "Send"

Select(p) ==
    /\ Starts(p)
    /\ p \notin inBranch
    /\ Cases[p] # <<>>
    /\ sends(p) => values < MaxValues
    /\ values' = IF sends(p) THEN values + 1 ELSE values
    /\ target' = [target EXCEPT ![p] = [ch |-> None, v |-> IF sends(p) THEN values + 1 ELSE nil]]
    /\ pc' = [pc EXCEPT ![p] = "Select"]
    /\ case' = [case EXCEPT ![p] = 1]
    /\ UNCHANGED <<channel, got, readyBranch, inBranch, fired, keptBlocked, dispatcher, history>>

\* The callback of case k starts to run.
callBranch(p, k) ==
    LET receives == Cases[p][k].kind = "Receive" /\ ConsumesFirst IN
    /\ inBranch' = inBranch \cup {p}
    /\ pc' = [pc EXCEPT ![p] = IF receives THEN "Receive" ELSE "Run"]
    /\ target' = IF receives THEN [target EXCEPT ![p].ch = Cases[p][k].ch] ELSE target
    /\ fired' = IF Cases[p][k].kind = "Future" THEN [fired EXCEPT ![p] = @ \cup {k}] ELSE fired

nextCase(p) ==
    /\ case' = [case EXCEPT ![p] = @ + 1]
    /\ UNCHANGED <<inBranch, pc, target, fired>>

\* A case that has data, or whose channel or future is closed, is taken at once;
\* otherwise its callback waits in the channel.
SelectReceive(p) ==
    LET k == case[p]
        c == Cases[p][k].ch
        r == received(c)
        after == branchAfter(sender(c), nil, TRUE)
    IN
    /\ running = p /\ pc[p] = "Select" /\ k <= Len(Cases[p])
    /\ Cases[p][k].kind \in {"Receive", "Future"} /\ k \notin fired[p]
    /\ receiveAsyncImpl(c, {receiveCallback(p, TRUE)})
    /\ got' = gotAfter(sender(c), nil, TRUE)
    /\ IF r.ok \/ ~r.more
       THEN /\ readyBranch' = [after EXCEPT ![p] = [k |-> k, v |-> r.v, more |-> r.more]]
            /\ recValue' = [recValue EXCEPT ![c] =
                               IF r.more THEN r.v ELSE None]
            /\ callBranch(p, k)
            /\ UNCHANGED case
       ELSE /\ readyBranch' = after
            /\ UNCHANGED recValue
            /\ nextCase(p)
    /\ UNCHANGED <<keptBlocked, dispatcher, ops, values, consumed, last>>

\* The branch of a future that already fired has no function any more.
SelectFired(p) ==
    /\ running = p /\ pc[p] = "Select" /\ case[p] <= Len(Cases[p])
    /\ case[p] \in fired[p]
    /\ nextCase(p)
    /\ UNCHANGED <<channel, got, readyBranch, keptBlocked, dispatcher, ops, values, history>>

SelectSend(p) ==
    LET k == case[p]
        c == Cases[p][k].ch
        v == target[p].v
        after == branchAfter(acceptor(blockedReceives[c]), v, TRUE)
    IN
    /\ running = p /\ pc[p] = "Select" /\ k <= Len(Cases[p])
    /\ Cases[p][k].kind = "Send"
    /\ \/ closed[c] /\ Panic(p) /\ UNCHANGED ops
       \/ /\ ~closed[c]
          /\ sendAsyncImpl(c, v, {sendCallback(p, v, TRUE)})
          /\ IF sendOk(c)
             THEN /\ readyBranch' = [after EXCEPT ![p] = [k |-> k, v |-> nil, more |-> TRUE]]
                  /\ callBranch(p, k)
                  /\ UNCHANGED case
             ELSE readyBranch' = after /\ nextCase(p)
          /\ UNCHANGED <<recValue, keptBlocked, dispatcher, ops, values>>

\* No case is ready.  The default branch runs while readyBranch is still nil.
SelectNone(p) ==
    /\ running = p /\ pc[p] = "Select" /\ case[p] > Len(Cases[p])
    /\ IF p \in HasDefault
       THEN inBranch' = inBranch \cup {p} /\ pc' = [pc EXCEPT ![p] = "Run"]
       ELSE pc' = [pc EXCEPT ![p] = "SelectWait"] /\ UNCHANGED inBranch
    /\ UNCHANGED <<channel, target, got, case, readyBranch, fired, keptBlocked, dispatcher,
                   ops, values, history>>

SelectWait(p) ==
    LET b == readyBranch[p] IN
    /\ running = p /\ pc[p] = "SelectWait"
    /\ \/ b = None /\ yield(p)
       \/ /\ b # None
          /\ recValue' = IF Cases[p][b.k].kind = "Receive"
                         THEN [recValue EXCEPT ![Cases[p][b.k].ch] = b.v]
                         ELSE recValue
          /\ callBranch(p, b.k)
          /\ UNCHANGED <<buffer, blockedSends, blockedReceives, closed, got, case, readyBranch,
                         keptBlocked, dispatcher, ops, values, history>>

\* The branch that ran was found by the wait, not by the loop over the cases.
waited(p) == case[p] > Len(Cases[p]) /\ p \notin HasDefault

\* The callback returns, and the deferred cleanups take the callbacks of the
\* other cases out of their channels.
EndSelect(p) ==
    /\ running = p /\ pc[p] = "Run" /\ p \in inBranch
    /\ inBranch' = inBranch \ {p}
    /\ readyBranch' = [readyBranch EXCEPT ![p] = None]
    /\ IF waited(p) THEN unblocked(p) ELSE UNCHANGED keptBlocked
    /\ cleanups(p)
    /\ UNCHANGED <<buffer, closed, recValue, pc, target, got, case, fired, dispatcher, ops,
                   values, history>>

-----------------------------------------------------------------------------
(* The event handler between two decision tasks: a signal, or the end of   *)
(* something that a future or a context waits for.                         *)

Signal(c) ==
    LET v == values + 1 IN
    /\ index = 0 /\ ~panicked /\ ~closed[c] /\ values < MaxValues
    /\ sendOk(c)
    /\ values' = v
    /\ sendAsyncImpl(c, v, {})
    /\ readyBranch' = branchAfter(acceptor(blockedReceives[c]), v, TRUE)
    /\ UNCHANGED <<recValue, pc, target, case, inBranch, fired, keptBlocked, dispatcher, ops>>

Resolve(c) ==
    /\ index = 0 /\ ~panicked
    /\ Close(c)
    /\ UNCHANGED <<pc, target, case, inBranch, fired, keptBlocked, dispatcher, ops, values>>

Step(p) ==
    \/ Exit(p) \/ newCoroutine(p)
    \/ \E c \in Channels, async \in BOOLEAN : Receive(p, c, async)
    \/ ReceiveLoop(p) \/ ReceiveWait(p)
    \/ \E c \in Channels \ Futures, async \in BOOLEAN : Send(p, c, async)
    \/ SendWait(p)
    \/ \E c \in Channels : CloseChannel(p, c)
    \/ Select(p) \/ SelectReceive(p) \/ SelectFired(p) \/ SelectSend(p) \/ SelectNone(p)
    \/ SelectWait(p) \/ EndSelect(p)

Dispatch == Call \/ EndPass \/ \E p \in Procs : Step(p)

Next ==
    \/ ExecuteUntilAllBlocked
    \/ Dispatch
    \/ \E c \in Channels \ Futures : Signal(c)
    \/ \E c \in Futures : Resolve(c)

Spec == Init /\ [][Next]_vars

\* Once called, ExecuteUntilAllBlocked runs on the caller's goroutine.
FairSpec == Spec /\ WF_vars(Dispatch)

-----------------------------------------------------------------------------
(* Properties.                                                             *)

\* The values that are on their way to a receiver.
held ==
    UNION {{buffer[c][i] : i \in 1..Len(buffer[c])} : c \in Channels}
      \cup {recValue[c] : c \in {d \in Channels : recValue[d] # None}}
      \cup {got[p].v : p \in {q \in Procs : pc[q] = "ReceiveWait" /\ got[q] # None}}
      \cup {readyBranch[p].v : p \in {q \in Procs : pc[q] = "SelectWait" /\ readyBranch[q] # None}}

\* A value that a channel accepted stays in the channel, or on its way to the
\* coroutine it was given to, until a Receive returns it or drops it as corrupt.
NoMessageLost == sent \ consumed \subseteq held

\* No step loses a value, and what a coroutine receives from one channel arrives in
\* the order in which it was sent: a channel delivers every value that it accepted,
\* once and in order, to whichever Receive or Select of whichever coroutine takes it
\* (receiveAsyncImpl, sendAsyncImpl).  This is claimed for selectors whose receive
\* callbacks start with the Receive of their value (ConsumesFirst), which have no
\* receive case beside a default branch, and no receive and send case for the same
\* channel: otherwise Select loses values (internal_workflow.go:1061, 1087, 1149).
DeliversInOrder ==
    [][/\ NoMessageLost'
       /\ \A p \in Procs, c \in Channels : last'[p][c] # last[p][c] => last'[p][c] > last[p][c]]_vars

registered(q, p) == \E i \in 1..Len(q) : q[i].co = p /\ accepts(q[i])

nothingToReceive(p, c) ==
    /\ recValue[c] = None /\ buffer[c] = <<>> /\ ~closed[c]
    /\ \A i \in 1..Len(blockedSends[c]) :
          blockedSends[c][i].co # p => ~accepts(blockedSends[c][i])
    /\ registered(blockedReceives[c], p)

noRoomToSend(p, c) ==
    /\ Len(buffer[c]) = size[c]
    /\ \A i \in 1..Len(blockedReceives[c]) :
          blockedReceives[c][i].co # p => ~accepts(blockedReceives[c][i])
    /\ registered(blockedSends[c], p)

\* The coroutine cannot go on, and what it waits for will wake it.
reallyBlocked(p) ==
    CASE pc[p] = "ReceiveWait" -> got[p] = None /\ nothingToReceive(p, target[p].ch)
      [] pc[p] = "SendWait" -> /\ got[p] = None /\ ~closed[target[p].ch]
                                 /\ noRoomToSend(p, target[p].ch)
      [] pc[p] = "SelectWait" ->
            /\ readyBranch[p] = None
            /\ \A k \in (1..Len(Cases[p])) \ fired[p] :
                  IF Cases[p][k].kind = "Send" THEN noRoomToSend(p, Cases[p][k].ch)
                  ELSE nothingToReceive(p, Cases[p][k].ch)
      [] OTHER -> FALSE

\* A coroutine is blocked in the callback of a Select that had waited: the Select
\* calls unblocked() only after the callback has returned.
blockedInCallback == \E p \in inBranch : waited(p) /\ keptBlocked[p]

\* ExecuteUntilAllBlocked returns only when every live coroutine is blocked, so that
\* no wake-up is lost and no coroutine that was created is left without a start,
\* unless a coroutine is blocked in the callback of a Select that had waited: what
\* that callback did before it blocked does not count as progress, and the
\* dispatcher returns although a coroutine that it woke could go on (Select,
\* internal_workflow.go:1156, calls unblocked() after the callback).
ReturnsWhenAllBlocked ==
    [][(index # 0 /\ index' = 0 /\ ~panicked' /\ ~blockedInCallback) =>
          \A i \in 1..Len(coroutines) : reallyBlocked(coroutines[i])]_vars

\* The same without the exception, which the code does not keep: the comment of
\* the dispatcher's interface says that ExecuteUntilAllBlocked executes coroutines
\* "until all of them are completed or blocked on Channel or Selector".
AlwaysReturnsWhenAllBlocked ==
    [][(index # 0 /\ index' = 0 /\ ~panicked') =>
          \A i \in 1..Len(coroutines) : reallyBlocked(coroutines[i])]_vars

\* Selector.AddReceive: the flag given to a callback is what Receive returns.
OkMatchesReceive ==
    \A p \in inBranch :
        (running = p /\ pc[p] = "Receive" /\ readyBranch[p] # None) =>
            received(target[p].ch).more = readyBranch[p].more
=============================================================================
