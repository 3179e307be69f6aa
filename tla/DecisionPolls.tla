--------------------------- MODULE DecisionPolls ---------------------------
(***************************************************************************)
(* How the pollers of a decision worker share their polls between the      *)
(* regular and the sticky task list: workflowTaskPoller.poll, its counters *)
(* of pending polls, and doPoll, which abandons a poll at the shutdown.    *)
(* Each use of requestLock is a step.                                      *)
(***************************************************************************)
EXTENDS Integers, FiniteSets

CONSTANTS DecisionPollers,
          MaxBacklog  \* bound on the hints of the service

ASSUME DecisionPollsAssumption == IsFiniteSet(DecisionPollers) /\ MaxBacklog \in Nat

VARIABLES
    disableSticky,   \* disableStickyExecution
    poll,            \* the poll of each poller
    pendingRegularPollCount, pendingStickyPollCount,
    stickyBacklog,
    pollsShutdown    \* shutdownC is closed

pollCounts == <<pendingRegularPollCount, pendingStickyPollCount>>
polls == <<disableSticky, poll, pollCounts, stickyBacklog, pollsShutdown>>

NoPoll == [at |-> "None", kind |-> "None", backlog |-> FALSE]

PollsInit ==
    /\ disableSticky \in BOOLEAN
    /\ poll = [p \in DecisionPollers |-> NoPoll]
    /\ pendingRegularPollCount = 0 /\ pendingStickyPollCount = 0
    /\ stickyBacklog = 0
    /\ pollsShutdown = FALSE

-----------------------------------------------------------------------------

prefersSticky == stickyBacklog > 0 \/ pendingStickyPollCount <= pendingRegularPollCount

\* doPoll, and the goroutine that it starts; what the request was based on is
\* recorded for BothListsArePolled.
getNextPollRequest(p) ==
    /\ poll[p] = NoPoll /\ ~pollsShutdown
    /\ LET sticky == ~disableSticky /\ prefersSticky
       IN  /\ poll' = [poll EXCEPT ![p] =
                         [at |-> "Poll", kind |-> IF sticky THEN "Sticky" ELSE "Normal",
                          backlog |-> stickyBacklog > 0]]
           /\ pendingStickyPollCount' = IF sticky THEN pendingStickyPollCount + 1 ELSE pendingStickyPollCount
           /\ pendingRegularPollCount' = IF sticky \/ disableSticky THEN pendingRegularPollCount
                                         ELSE pendingRegularPollCount + 1
    /\ UNCHANGED <<disableSticky, stickyBacklog, pollsShutdown>>

\* PollForDecisionTask fails or finds no task, a hint of 0, or a task with a hint.
\* A poll that the service tells to retry later pauses before it releases.
updateBacklog(p) ==
    /\ poll[p].at = "Poll"
    /\ poll' = [poll EXCEPT ![p].at = "Updated"]
    /\ \E hint \in 0..MaxBacklog :
         stickyBacklog' = IF poll[p].kind = "Sticky" THEN hint ELSE stickyBacklog
    /\ UNCHANGED <<disableSticky, pollCounts, pollsShutdown>>

\* Mutant: the kind of the poll is not looked at.
releasesSticky(p) ==
    /\ poll[p].at = "Updated"
    /\ poll' = [poll EXCEPT ![p] = NoPoll]
    /\ pendingStickyPollCount' = pendingStickyPollCount - 1
    /\ UNCHANGED <<disableSticky, pendingRegularPollCount, stickyBacklog, pollsShutdown>>

release(p) ==
    /\ poll[p].at = "Updated"
    /\ poll' = [poll EXCEPT ![p] = NoPoll]
    /\ pendingStickyPollCount' =
         IF poll[p].kind = "Sticky" THEN pendingStickyPollCount - 1 ELSE pendingStickyPollCount
    /\ pendingRegularPollCount' =
         IF poll[p].kind # "Sticky" /\ ~disableSticky THEN pendingRegularPollCount - 1
         ELSE pendingRegularPollCount
    /\ UNCHANGED <<disableSticky, stickyBacklog, pollsShutdown>>

\* The pollers return; their polls go on without them.
PollsShutdown ==
    /\ ~pollsShutdown
    /\ pollsShutdown' = TRUE
    /\ UNCHANGED <<disableSticky, poll, pollCounts, stickyBacklog>>

PollsNext ==
    \/ \E p \in DecisionPollers : getNextPollRequest(p) \/ updateBacklog(p) \/ release(p)
    \/ PollsShutdown

PollsSpec == PollsInit /\ [][PollsNext]_polls

-----------------------------------------------------------------------------
(* Properties                                                              *)

ofKind(k) == {p \in DecisionPollers : poll[p].kind = k}

\* Two pollers or more that all wait for a task wait on both lists, unless a
\* backlog of the sticky list drew one of them there: no decision task is left
\* without a poller, whichever polls failed or were abandoned before ("poll from
\* the task list that has less pending requests", getNextPollRequest).
BothListsArePolled ==
    ~disableSticky /\ Cardinality(DecisionPollers) > 1 /\ ofKind("None") = {} =>
        /\ ofKind("Sticky") # {}
        /\ ofKind("Normal") # {} \/ \E p \in DecisionPollers : poll[p].backlog
=============================================================================
