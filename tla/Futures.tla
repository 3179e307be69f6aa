------------------------------ MODULE Futures -------------------------------
(***************************************************************************)
(* futureImpl and waitGroupImpl of internal_workflow.go: the operations of *)
(* workflow code on futures and wait groups.  Coroutines run one at a time *)
(* and switch only where they block, so an operation is one step; an       *)
(* operation that blocks has a guard that says when it returns.            *)
(***************************************************************************)
EXTENDS Integers, Sequences, FiniteSets

CONSTANTS None, Futures, WaitGroups

VARIABLES
    ready,       \* the futures whose ready flag is set
    closed,      \* the futures whose channel is closed: Get returns
    value,       \* value or error of each future
    chained,     \* futures that take their value from this one
    n, waiting,  \* counter of each wait group, and whether Wait was called
    released,    \* the future of the wait group is set
    panicked     \* workflow code has panicked

futures == <<ready, closed, value, chained>>
waitGroups == <<n, waiting, released>>

FuturesInit(counters) ==
    /\ ready = {} /\ closed = {}
    /\ value = [f \in Futures |-> None]
    /\ chained = [f \in Futures |-> <<>>]
    /\ n = counters
    /\ waiting = [w \in WaitGroups |-> FALSE] /\ released = [w \in WaitGroups |-> FALSE]
    /\ panicked = FALSE

\* A panic of workflow code ends the workflow.
Panics == panicked' = TRUE /\ UNCHANGED <<futures, waitGroups>>

-----------------------------------------------------------------------------
(* Futures.                                                                *)

\* The futures that Set(f) reaches through the chains.
reached(f) ==
    {g \in Futures : \A S \in SUBSET Futures :
        (f \in S /\ \A h \in S : \A i \in 1..Len(chained[h]) : chained[h][i] \in S) => g \in S}

timesReached(f, g) ==
    Cardinality({link \in reached(f) \X (1..Cardinality(Futures)) :
                    LET h == link[1]
                        i == link[2]
                    IN  i <= Len(chained[h]) /\ chained[h][i] = g})

\* Set panics when it, or a Set further down the chains, meets a future that is
\* set.
Set(f, v) ==
    LET R == reached(f) IN
    IF R \cap ready # {} \/ \E g \in R \ {f} : timesReached(f, g) > 1
    THEN Panics
    ELSE /\ ready' = ready \cup R
         /\ closed' = closed \cup R
         /\ value' = [g \in Futures |-> IF g \in R THEN v ELSE value[g]]
         /\ UNCHANGED <<chained, waitGroups, panicked>>

\* f.Chain(g).  When g is ready its value is copied, and f's channel stays open.
Chain(f, g) ==
    CASE f \in ready -> Panics
      [] f \notin ready /\ g \notin ready ->
            /\ chained' = [chained EXCEPT ![g] = Append(@, f)]
            /\ UNCHANGED <<ready, closed, value, waitGroups, panicked>>
      [] OTHER ->
            /\ ready' = ready \cup {f}
            /\ value' = [value EXCEPT ![f] = value[g]]
            /\ UNCHANGED <<closed, chained, waitGroups, panicked>>

\* Get returns once the channel is closed.
Get(f) == f \in closed

-----------------------------------------------------------------------------
(* Wait groups.                                                            *)

\* Mutant: the counter reaches zero without releasing the waiter.
AddNeverReleases(w, delta) ==
    IF n[w] + delta < 0 THEN Panics
    ELSE n' = [n EXCEPT ![w] = @ + delta] /\ UNCHANGED <<waiting, released, futures, panicked>>

Add(w, delta) ==
    IF \/ n[w] + delta < 0
       \/ n[w] + delta = 0 /\ waiting[w] /\ released[w]
    THEN Panics
    ELSE /\ n' = [n EXCEPT ![w] = @ + delta]
         /\ released' = [released EXCEPT ![w] = @ \/ (n[w] + delta = 0 /\ waiting[w])]
         /\ UNCHANGED <<waiting, futures, panicked>>

\* Wait up to the point where it blocks.
WaitReturnsAtOnce(w) == n[w] <= 0

Wait(w) ==
    /\ ~WaitReturnsAtOnce(w)
    /\ IF waiting[w] THEN Panics
       ELSE waiting' = [waiting EXCEPT ![w] = TRUE] /\ UNCHANGED <<n, released, futures, panicked>>

\* The future's value resets waiting, and a new future takes its place.
WaitReturns(w) ==
    /\ released[w]
    /\ waiting' = [waiting EXCEPT ![w] = FALSE]
    /\ released' = [released EXCEPT ![w] = FALSE]
    /\ UNCHANGED <<n, futures, panicked>>
=============================================================================
