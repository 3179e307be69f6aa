------------------------------ MODULE Contexts ------------------------------
(***************************************************************************)
(* The cancelable contexts of context.go.  Workflow code cancels contexts  *)
(* from its coroutines; when a workflow is evicted its coroutines exit at  *)
(* the same time and run their deferred cancels on several goroutines, so  *)
(* a step here is one critical section of cancelLock or childrenLock.      *)
(* Contexts are numbered in the order of their creation, 1 is the root.    *)
(***************************************************************************)
EXTENDS Integers, Sequences

CONSTANTS MaxContexts, \* bound on the contexts that are created
          Goroutines

Contexts == 1..MaxContexts

ASSUME ContextsAssumption == MaxContexts \in Nat \ {0}

VARIABLES
    parent,     \* the context that the context was made from, 0 for the root
    connected,  \* contexts that are to be canceled with their parent
    err,        \* contexts whose err is set
    done,       \* contexts whose Done channel is closed
    children,   \* the list of each context
    created,    \* number of contexts
    stack       \* the calls of cancel that each goroutine is in, innermost first

contexts == <<parent, connected, err, done, children, created, stack>>

ContextsInit ==
    /\ parent = [c \in Contexts |-> 0]
    /\ connected = {} /\ err = {} /\ done = {}
    /\ children = [c \in Contexts |-> <<>>]
    /\ created = 1
    /\ stack = [g \in Goroutines |-> <<>>]

call(c, remove) == [ctx |-> c, at |-> "Mark", left |-> <<>>, removeFromParent |-> remove]

-----------------------------------------------------------------------------
\* Mutant: propagateCancel looks at err before it takes cancelLock; the parent
\* may be canceled in between.
WithCancelStaleErr(g, p) ==
    LET c == created + 1 IN
    /\ stack[g] = <<>> /\ created < MaxContexts
    /\ created' = c
    /\ parent' = [parent EXCEPT ![c] = p]
    /\ connected' = connected \cup {c}
    /\ children' = [children EXCEPT ![p] = Append(@, c)]
    /\ UNCHANGED <<err, done, stack>>

\* WithCancel and the critical section of propagateCancel: the new context is
\* registered, or canceled at once.
WithCancel(g, p) ==
    LET c == created + 1 IN
    /\ stack[g] = <<>> /\ created < MaxContexts
    /\ created' = c
    /\ parent' = [parent EXCEPT ![c] = p]
    /\ connected' = connected \cup {c}
    /\ IF p \in err
       THEN stack' = [stack EXCEPT ![g] = <<call(c, FALSE)>>] /\ UNCHANGED children
       ELSE children' = [children EXCEPT ![p] = Append(@, c)] /\ UNCHANGED stack
    /\ UNCHANGED <<err, done>>

NewDisconnectedContext(g, p) ==
    /\ stack[g] = <<>> /\ created < MaxContexts
    /\ created' = created + 1
    /\ parent' = [parent EXCEPT ![created + 1] = p]
    /\ UNCHANGED <<connected, err, done, children, stack>>

\* A CancelFunc is called.  (A call for a context that is done returns at once.)
CancelFunc(g, c) ==
    /\ stack[g] = <<>> /\ c \notin done
    /\ stack' = [stack EXCEPT ![g] = <<call(c, TRUE)>>]
    /\ UNCHANGED <<parent, connected, err, done, children, created>>

in(g, step) == stack[g] # <<>> /\ stack[g][1].at = step
top(g) == stack[g][1]
moveTo(g, step) == stack' = [stack EXCEPT ![g][1].at = step]
return(g) == stack' = [stack EXCEPT ![g] = Tail(@)]

\* Only the first call goes on.
MarkCanceled(g) ==
    /\ in(g, "Mark")
    /\ IF top(g).ctx \in err
       THEN return(g) /\ UNCHANGED err
       ELSE moveTo(g, "Close") /\ err' = err \cup {top(g).ctx}
    /\ UNCHANGED <<parent, connected, done, children, created>>

CloseDone(g) ==
    /\ in(g, "Close")
    /\ done' = done \cup {top(g).ctx}
    /\ moveTo(g, "Copy")
    /\ UNCHANGED <<parent, connected, err, children, created>>

getChildren(g) ==
    /\ in(g, "Copy")
    /\ stack' = [stack EXCEPT ![g][1] =
                    [top(g) EXCEPT !.left = children[top(g).ctx], !.at = "Children"]]
    /\ UNCHANGED <<parent, connected, err, done, children, created>>

\* The loop over the copy; after it the list is dropped.
CancelChild(g) ==
    LET f == top(g) IN
    /\ in(g, "Children")
    /\ IF f.left # <<>>
       THEN /\ stack' = [stack EXCEPT ![g] =
                  <<call(Head(f.left), FALSE), [f EXCEPT !.left = Tail(@)]>> \o Tail(@)]
            /\ UNCHANGED children
       ELSE /\ children' = [children EXCEPT ![f.ctx] = <<>>]
            /\ IF f.removeFromParent THEN moveTo(g, "Remove") ELSE return(g)
    /\ UNCHANGED <<parent, connected, err, done, created>>

\* removeChildFromSlice moves the children after c one place down.  removeChild
\* does not use the slice that it returns, so the length stays what it was.
removeChildFromSlice(s, c) ==
    IF \E i \in 1..Len(s) : s[i] = c
    THEN LET found == CHOOSE i \in 1..Len(s) : s[i] = c /\ \A j \in 1..(i - 1) : s[j] # c IN
         [i \in 1..Len(s) |-> IF i >= found /\ i < Len(s) THEN s[i + 1] ELSE s[i]]
    ELSE s

removeChild(g) ==
    LET c == top(g).ctx IN
    /\ in(g, "Remove")
    /\ children' = IF parent[c] = 0 THEN children
                   ELSE [children EXCEPT ![parent[c]] = removeChildFromSlice(@, c)]
    /\ return(g)
    /\ UNCHANGED <<parent, connected, err, done, created>>

Cancel(g) ==
    \/ MarkCanceled(g) \/ CloseDone(g) \/ getChildren(g) \/ CancelChild(g) \/ removeChild(g)

ContextsNext ==
    \E g \in Goroutines :
        \/ \E p \in 1..created : WithCancel(g, p) \/ NewDisconnectedContext(g, p)
        \/ \E c \in 1..created : CancelFunc(g, c)
        \/ Cancel(g)

ContextsSpec == ContextsInit /\ [][ContextsNext]_contexts

-----------------------------------------------------------------------------
(* Properties.                                                             *)

idle == \A g \in Goroutines : stack[g] = <<>>

\* Once no cancel is under way, a context that was canceled has canceled every
\* context that was derived from it with WithCancel, also the ones that were
\* made while the cancellation was going through the tree.
CancellationReachesAll ==
    idle => \A c \in connected : parent[c] \in err => c \in done

first(s, c) == CHOOSE i \in 1..Len(s) : s[i] = c /\ \A j \in 1..(i - 1) : s[j] # c

\* The comment on cancel: it removes c from its parent's children.
CancelRemoves ==
    idle => \A c \in connected : c \in done =>
                \A i \in 1..Len(children[parent[c]]) : children[parent[c]][i] # c
=============================================================================
