----------------------------- MODULE WorkerProofs -----------------------------
(***************************************************************************)
(* Three parts a worker is made of, for every value of their constants: the*)
(* tokens of a session environment are conserved, the pollers of decision  *)
(* tasks wait on both task lists, and the LRU cache implements the contract*)
(* of the interface Cache.                                                 *)
(***************************************************************************)
EXTENDS Sessions, DecisionPolls, LRU, FiniteSetTheorems, TLAPS

USE SMTT(40)

-----------------------------------------------------------------------------
(***************************************************************************)
(* Sessions.                                                               *)
(***************************************************************************)

Activity == {"None", "CreateSession", "Signal", "Loop"}

holders == {s \in SessionIDs : activity[s] \in {"Signal", "Loop"}}

\* The sessions that hold a token and the tokens that are left make up the bucket.
SessionsInv ==
    /\ activity \in [SessionIDs -> Activity]
    /\ availableToken \in Nat
    /\ TokensAreConserved

\* The sessions that hold a token are finitely many.
LEMMA HoldersFinite ==
    /\ IsFiniteSet(holders) /\ Cardinality(holders) \in Nat
    /\ TokensAreConserved <=> availableToken + Cardinality(holders) = MaxConcurrentSessionExecutionSize
<1>1. IsFiniteSet(holders)
  BY SessionsAssumption, FS_Subset DEF SessionsAssumption, holders
<1>2. Cardinality(holders) \in Nat
  BY <1>1, FS_CardinalityType
<1>. QED
  BY <1>1, <1>2 DEF TokensAreConserved, holders

\* A step that moves no token: the activity of s stays on the same side of getToken.
LEMMA KeepsTokens ==
    ASSUME SessionsInv, NEW s \in SessionIDs, NEW a \in Activity,
           activity' = [activity EXCEPT ![s] = a],
           a \in {"Signal", "Loop"} <=> activity[s] \in {"Signal", "Loop"},
           availableToken' = availableToken
    PROVE  SessionsInv'
<1>1. holders' = holders
  BY DEF holders, SessionsInv
<1>. QED
  BY <1>1, HoldersFinite, ZenonT(40) DEF SessionsInv, TokensAreConserved, holders

\* getToken: s did not hold a token, and takes one of those that are left.
LEMMA TakesToken ==
    ASSUME SessionsInv, NEW s \in SessionIDs, NEW a \in {"Signal", "Loop"},
           activity' = [activity EXCEPT ![s] = a], activity[s] \notin {"Signal", "Loop"},
           availableToken > 0, availableToken' = availableToken - 1
    PROVE  SessionsInv'
<1>1. holders' = holders \cup {s} /\ s \notin holders
  BY DEF holders, SessionsInv
<1>2. Cardinality(holders') = Cardinality(holders) + 1
  BY <1>1, HoldersFinite, FS_AddElement, ZenonT(40)
<1>3. availableToken' + Cardinality(holders') = MaxConcurrentSessionExecutionSize
  BY <1>2, HoldersFinite DEF SessionsInv
<1>4. TokensAreConserved'
  BY <1>3 DEF TokensAreConserved, holders
<1>. QED
  BY <1>4 DEF SessionsInv, Activity

\* The activity that held a token ends, and puts it back.
LEMMA ReturnsToken ==
    ASSUME SessionsInv, NEW s \in SessionIDs, activity[s] \in {"Signal", "Loop"},
           activity' = [activity EXCEPT ![s] = "None"],
           availableToken' = availableToken + 1
    PROVE  SessionsInv'
<1>1. holders' = holders \ {s} /\ s \in holders
  BY DEF holders, SessionsInv
<1>2. Cardinality(holders') = Cardinality(holders) - 1
  BY <1>1, HoldersFinite, FS_RemoveElement
<1>3. availableToken' + Cardinality(holders') = MaxConcurrentSessionExecutionSize
  BY <1>2, HoldersFinite DEF SessionsInv
<1>4. TokensAreConserved'
  BY <1>3 DEF TokensAreConserved, holders
<1>. QED
  BY <1>4 DEF SessionsInv, Activity

\* Without an activity all tokens are there: the first state, and a new worker.
LEMMA AllTokens ==
    ASSUME activity = [s \in SessionIDs |-> "None"],
           availableToken = MaxConcurrentSessionExecutionSize
    PROVE  SessionsInv
<1>1. holders = {}
  BY DEF holders
<1>2. Cardinality(holders) = 0
  BY <1>1, FS_EmptySet
<1>. QED
  BY <1>2, HoldersFinite, SessionsAssumption DEF SessionsInv, Activity, SessionsAssumption

\* Steps of the workflow and of the service leave the worker alone.
LEMMA SessionsInvUnchanged ==
    ASSUME SessionsInv, UNCHANGED <<availableToken, activity>>
    PROVE  SessionsInv'
BY DEF SessionsInv, TokensAreConserved

LEMMA NextKeepsSessionsInv == SessionsInv /\ [SessionsNext]_sessionVars => SessionsInv'
<1>. SUFFICES ASSUME SessionsInv, [SessionsNext]_sessionVars PROVE SessionsInv'
  OBVIOUS
<1>1. CASE UNCHANGED sessionVars
  BY <1>1, SessionsInvUnchanged DEF sessionVars, workerSide
<1>2. CASE waitForAvailableToken
  BY <1>2, SessionsInvUnchanged DEF waitForAvailableToken
<1>3. CASE Crash
  <2>1. activity' = [s \in SessionIDs |-> "None"] /\ availableToken' = MaxConcurrentSessionExecutionSize
    BY <1>3 DEF Crash
  <2>2. holders' = {}
    BY <2>1 DEF holders
  <2>3. Cardinality(holders') = 0
    BY <2>2, FS_EmptySet
  <2>4. TokensAreConserved'
    BY <2>1, <2>3, SessionsAssumption DEF TokensAreConserved, holders, SessionsAssumption
  <2>. QED
    BY <2>1, <2>4, SessionsAssumption DEF SessionsInv, Activity, SessionsAssumption
<1>4. ASSUME NEW s \in SessionIDs,
             \/ createSession(s) \/ CompleteSession(s) \/ TimeoutCreation(s) \/ TimeoutCompletion(s)
             \/ workflowSteps(s) \/ Heartbeat(s) \/ sessionCompletionActivity(s)
      PROVE  SessionsInv'
  BY <1>4, SessionsInvUnchanged, ZenonT(40)
     DEF createSession, CompleteSession, TimeoutCreation, TimeoutCompletion, workflowSteps,
         sessionCreated, sessionNotCreated, sessionFails, sessionCompleted,
         Heartbeat, sessionCompletionActivity, workerSide
<1>5. ASSUME NEW s \in SessionIDs, pollCreation(s) PROVE SessionsInv'
  BY <1>5, KeepsTokens, ZenonT(40) DEF pollCreation, Activity
<1>6. ASSUME NEW s \in SessionIDs, getToken(s) PROVE SessionsInv'
  <2>1. CASE availableToken > 0 /\ availableToken' = availableToken - 1
             /\ activity' = [activity EXCEPT ![s] = "Signal"]
    BY <1>6, <2>1, TakesToken, ZenonT(40) DEF getToken
  <2>2. CASE availableToken' = availableToken /\ activity' = [activity EXCEPT ![s] = "None"]
    BY <1>6, <2>2, KeepsTokens, ZenonT(40) DEF getToken, Activity
  <2>. QED
    BY <1>6, <2>1, <2>2, ZenonT(40) DEF getToken, reports, retried
<1>7. ASSUME NEW s \in SessionIDs, SignalCreationResponse(s) PROVE SessionsInv'
  <2>1. CASE availableToken' = availableToken /\ activity' = [activity EXCEPT ![s] = "Loop"]
    BY <1>7, <2>1, KeepsTokens, ZenonT(40) DEF SignalCreationResponse, Activity
  <2>2. CASE availableToken' = availableToken + 1 /\ activity' = [activity EXCEPT ![s] = "None"]
    BY <1>7, <2>2, ReturnsToken, ZenonT(40) DEF SignalCreationResponse
  <2>. QED
    BY <1>7, <2>1, <2>2, ZenonT(40) DEF SignalCreationResponse, reports
<1>8. ASSUME NEW s \in SessionIDs, sessionEnds(s) PROVE SessionsInv'
  BY <1>8, ReturnsToken, ZenonT(40) DEF sessionEnds, reports
<1>. QED
  BY <1>1, <1>2, <1>3, <1>4, <1>5, <1>6, <1>7, <1>8 DEF SessionsNext, workerSteps

\* However creations are retried, time out, fail or are cancelled, and however often
\* the worker crashes, the worker has a token less for each session that it runs,
\* and no other: MaxConcurrentSessionExecutionSize is never exceeded and no token
\* is lost.
THEOREM SessionTokensAreConserved == SessionsSpec => []TokensAreConserved
<1>1. SessionsInit => SessionsInv
  BY AllTokens DEF SessionsInit
<1>2. SessionsInv => TokensAreConserved
  BY DEF SessionsInv
<1>. QED
  BY <1>1, <1>2, NextKeepsSessionsInv, PTL DEF SessionsSpec

-----------------------------------------------------------------------------
(***************************************************************************)
(* The choice of decision polls.                                           *)
(***************************************************************************)

Poll == [at : {"None", "Poll", "Updated"}, kind : {"None", "Sticky", "Normal"}, backlog : BOOLEAN]

\* The counters are the numbers of polls of each kind.
PollsInv ==
    /\ disableSticky \in BOOLEAN
    /\ poll \in [DecisionPollers -> Poll]
    /\ \A p \in DecisionPollers : poll[p].kind = "None" <=> poll[p] = NoPoll
    /\ ~disableSticky => /\ pendingStickyPollCount = Cardinality(ofKind("Sticky"))
                         /\ pendingRegularPollCount = Cardinality(ofKind("Normal"))
    /\ disableSticky => ofKind("Sticky") = {}
    /\ BothListsArePolled

LEMMA KindsAreFinite ==
    \A k : /\ IsFiniteSet(ofKind(k)) /\ Cardinality(ofKind(k)) \in Nat
           /\ Cardinality(ofKind(k)) = 0 <=> ofKind(k) = {}
<1>. SUFFICES ASSUME NEW k
              PROVE  /\ IsFiniteSet(ofKind(k)) /\ Cardinality(ofKind(k)) \in Nat
                     /\ Cardinality(ofKind(k)) = 0 <=> ofKind(k) = {}
  OBVIOUS
<1>1. IsFiniteSet(ofKind(k))
  BY DecisionPollsAssumption, FS_Subset DEF DecisionPollsAssumption, ofKind
<1>. QED
  BY <1>1, FS_CardinalityType, FS_EmptySet

\* The pollers are those of the three kinds.
LEMMA Kinds ==
    ASSUME PollsInv
    PROVE  \A p \in DecisionPollers : p \in ofKind("None") \/ p \in ofKind("Sticky") \/ p \in ofKind("Normal")
BY DEF PollsInv, Poll, ofKind

LEMMA getNextPollRequestStep ==
    ASSUME PollsInv, NEW p \in DecisionPollers, getNextPollRequest(p)
    PROVE  PollsInv'
<1>. DEFINE sticky == ~disableSticky /\ prefersSticky
            q == [at |-> "Poll", kind |-> IF sticky THEN "Sticky" ELSE "Normal", backlog |-> stickyBacklog > 0]
            S == ofKind("Sticky")
            N == ofKind("Normal")
<1>1. /\ poll[p] = NoPoll /\ poll' = [poll EXCEPT ![p] = q] /\ disableSticky' = disableSticky
      /\ pendingStickyPollCount' = IF sticky THEN pendingStickyPollCount + 1 ELSE pendingStickyPollCount
      /\ pendingRegularPollCount' = IF sticky \/ disableSticky THEN pendingRegularPollCount
                                    ELSE pendingRegularPollCount + 1
  BY ZenonT(40) DEF getNextPollRequest
<1>2. poll \in [DecisionPollers -> Poll] /\ disableSticky \in BOOLEAN /\ poll[p].kind = "None"
  BY <1>1, ZenonT(40) DEF PollsInv, NoPoll
<1>3. q \in Poll
  <2>1. (stickyBacklog > 0) \in BOOLEAN
    OBVIOUS
  <2>. QED
    BY <2>1 DEF Poll
<1>4. q.kind = (IF sticky THEN "Sticky" ELSE "Normal") /\ q.backlog = (stickyBacklog > 0)
  BY ZenonT(40)
<1>. HIDE DEF q, sticky
<1>5. /\ poll' \in [DecisionPollers -> Poll] /\ poll'[p] = q
      /\ \A r \in DecisionPollers : r # p => poll'[r] = poll[r]
  BY <1>1, <1>2, <1>3
<1>6. \A r \in DecisionPollers : poll'[r].kind = "None" <=> poll'[r] = NoPoll
  BY <1>4, <1>5 DEF PollsInv, NoPoll
<1>7. p \notin S /\ p \notin N /\ p \in ofKind("None") /\ ofKind("None")' = ofKind("None") \ {p}
  BY <1>2, <1>4, <1>5 DEF ofKind
\* With one poller left to ask, the others are on the two lists.
<1>8. ASSUME Cardinality(DecisionPollers) > 1, ofKind("None")' = {}
      PROVE  S # {} \/ N # {}
  <2>1. SUFFICES ASSUME S = {}, N = {} PROVE FALSE
    OBVIOUS
  <2>2. DecisionPollers = {p}
    BY <1>7, <1>8, <2>1, Kinds
  <2>3. Cardinality({p}) = 1
    BY FS_Singleton, ZenonT(40)
  <2>. QED
    BY <1>8, <2>2, <2>3
<1>9. CASE disableSticky
  <2>1. ~sticky
    BY <1>9 DEF sticky
  <2>2. ofKind("Sticky")' = S
    BY <1>2, <1>4, <1>5, <2>1 DEF ofKind
  <2>. QED
    BY <1>1, <1>2, <1>5, <1>6, <1>9, <2>2, ZenonT(40) DEF PollsInv, BothListsArePolled
<1>10. CASE sticky
  <2>0. ~disableSticky /\ prefersSticky
    BY <1>10 DEF sticky
  <2>1. ofKind("Sticky")' = S \cup {p} /\ ofKind("Normal")' = N
    BY <1>2, <1>4, <1>5, <1>10 DEF ofKind
  <2>2. Cardinality(ofKind("Sticky")') = Cardinality(S) + 1
    BY <1>7, <2>1, KindsAreFinite, FS_AddElement
  <2>3. /\ pendingStickyPollCount = Cardinality(S) /\ pendingRegularPollCount = Cardinality(N)
        /\ pendingStickyPollCount' = pendingStickyPollCount + 1
        /\ pendingRegularPollCount' = pendingRegularPollCount
    BY <1>1, <1>10, <2>0 DEF PollsInv
  <2>4. ASSUME Cardinality(DecisionPollers) > 1, ofKind("None")' = {}
        PROVE  N # {} \/ poll'[p].backlog
    <3>1. CASE stickyBacklog > 0
      BY <1>4, <1>5, <3>1, ZenonT(40)
    <3>2. CASE ~(stickyBacklog > 0)
      <4>1. Cardinality(S) <= Cardinality(N)
        BY <2>0, <2>3, <3>2 DEF prefersSticky
      <4>. QED
        BY <1>8, <2>4, <4>1, KindsAreFinite
    <3>. QED
      BY <3>1, <3>2
  <2>5. BothListsArePolled'
    BY <2>1, <2>4 DEF BothListsArePolled
  <2>. QED
    BY <1>1, <1>2, <1>5, <1>6, <2>0, <2>1, <2>2, <2>3, <2>5 DEF PollsInv
<1>11. CASE ~disableSticky /\ ~sticky
  <2>0. ~prefersSticky
    BY <1>11 DEF sticky
  <2>1. ofKind("Normal")' = N \cup {p} /\ ofKind("Sticky")' = S
    BY <1>2, <1>4, <1>5, <1>11 DEF ofKind
  <2>2. Cardinality(ofKind("Normal")') = Cardinality(N) + 1
    BY <1>7, <2>1, KindsAreFinite, FS_AddElement
  <2>3. /\ pendingStickyPollCount = Cardinality(S) /\ pendingRegularPollCount = Cardinality(N)
        /\ pendingStickyPollCount' = pendingStickyPollCount
        /\ pendingRegularPollCount' = pendingRegularPollCount + 1
    BY <1>1, <1>11 DEF PollsInv
  <2>4. S # {}
    BY <2>0, <2>3, KindsAreFinite DEF prefersSticky
  <2>5. BothListsArePolled'
    BY <2>1, <2>4 DEF BothListsArePolled
  <2>. QED
    BY <1>1, <1>2, <1>5, <1>6, <1>11, <2>1, <2>2, <2>3, <2>5 DEF PollsInv
<1>. QED
  BY <1>2, <1>9, <1>10, <1>11

LEMMA releaseStep ==
    ASSUME PollsInv, NEW p \in DecisionPollers, release(p)
    PROVE  PollsInv'
<1>. DEFINE S == ofKind("Sticky")
            N == ofKind("Normal")
<1>1. /\ poll[p].at = "Updated" /\ poll' = [poll EXCEPT ![p] = NoPoll] /\ disableSticky' = disableSticky
      /\ poll[p].kind = "Sticky" => /\ pendingStickyPollCount' = pendingStickyPollCount - 1
                                    /\ pendingRegularPollCount' = pendingRegularPollCount
      /\ poll[p].kind # "Sticky" /\ ~disableSticky =>
            /\ pendingStickyPollCount' = pendingStickyPollCount
            /\ pendingRegularPollCount' = pendingRegularPollCount - 1
  BY ZenonT(40) DEF release
<1>2. /\ poll \in [DecisionPollers -> Poll] /\ disableSticky \in BOOLEAN
      /\ NoPoll \in Poll /\ NoPoll.kind = "None" /\ NoPoll.at = "None"
  BY ZenonT(40) DEF PollsInv, NoPoll, Poll
<1>3. poll[p].kind # "None"
  BY <1>1, <1>2 DEF PollsInv
<1>4. /\ poll' \in [DecisionPollers -> Poll] /\ poll'[p] = NoPoll
      /\ \A r \in DecisionPollers : r # p => poll'[r] = poll[r]
  BY <1>1, <1>2
<1>5. \A r \in DecisionPollers : poll'[r].kind = "None" <=> poll'[r] = NoPoll
  BY <1>2, <1>4 DEF PollsInv
<1>6. p \in ofKind("None")' /\ ofKind("Sticky")' = S \ {p} /\ ofKind("Normal")' = N \ {p}
  BY <1>2, <1>4 DEF ofKind
<1>7. BothListsArePolled'
  BY <1>6 DEF BothListsArePolled
<1>8. CASE disableSticky
  BY <1>1, <1>2, <1>4, <1>5, <1>6, <1>7, <1>8 DEF PollsInv
<1>9. CASE ~disableSticky /\ poll[p].kind = "Sticky"
  <2>1. p \in S /\ N \ {p} = N
    BY <1>9 DEF ofKind
  <2>2. Cardinality(S \ {p}) = Cardinality(S) - 1
    <3>1. IsFiniteSet(S)
      BY KindsAreFinite
    <3>. QED
      BY <2>1, <3>1, FS_RemoveElement
  <2>3. pendingStickyPollCount = Cardinality(S) /\ pendingRegularPollCount = Cardinality(N)
    BY <1>9 DEF PollsInv
  <2>4. /\ pendingStickyPollCount' = Cardinality(ofKind("Sticky")')
        /\ pendingRegularPollCount' = Cardinality(ofKind("Normal")')
    BY <1>1, <1>6, <1>9, <2>1, <2>2, <2>3
  <2>. QED
    BY <1>1, <1>2, <1>4, <1>5, <1>7, <1>9, <2>4 DEF PollsInv
<1>10. CASE ~disableSticky /\ poll[p].kind = "Normal"
  <2>1. p \in N /\ S \ {p} = S
    BY <1>10 DEF ofKind
  <2>2. Cardinality(N \ {p}) = Cardinality(N) - 1
    <3>1. IsFiniteSet(N)
      BY KindsAreFinite
    <3>. QED
      BY <2>1, <3>1, FS_RemoveElement
  <2>3. pendingStickyPollCount = Cardinality(S) /\ pendingRegularPollCount = Cardinality(N)
    BY <1>10 DEF PollsInv
  <2>4. /\ pendingStickyPollCount' = Cardinality(ofKind("Sticky")')
        /\ pendingRegularPollCount' = Cardinality(ofKind("Normal")')
    BY <1>1, <1>6, <1>10, <2>1, <2>2, <2>3
  <2>. QED
    BY <1>1, <1>2, <1>4, <1>5, <1>7, <1>10, <2>4 DEF PollsInv
<1>. QED
  BY <1>2, <1>3, <1>8, <1>9, <1>10 DEF Poll

\* The other steps change no kind of a poll.
LEMMA OtherPollsStep ==
    ASSUME PollsInv, \/ \E p \in DecisionPollers : updateBacklog(p)
                     \/ PollsShutdown \/ UNCHANGED polls
    PROVE  PollsInv'
<1>1. disableSticky' = disableSticky /\ UNCHANGED pollCounts
  BY DEF updateBacklog, PollsShutdown, polls
<1>2. poll \in [DecisionPollers -> Poll] /\ disableSticky \in BOOLEAN
  BY DEF PollsInv
<1>3. /\ poll' \in [DecisionPollers -> Poll]
      /\ \A r \in DecisionPollers : /\ poll'[r].kind = poll[r].kind /\ poll'[r].backlog = poll[r].backlog
                                    /\ poll'[r].kind = "None" <=> poll'[r] = NoPoll
  <2>1. CASE poll' = poll
    BY <1>2, <2>1 DEF PollsInv
  <2>2. ASSUME NEW p \in DecisionPollers, updateBacklog(p)
        PROVE  <1>3
    <3>. DEFINE q == [poll[p] EXCEPT !.at = "Updated"]
    <3>1. poll[p] \in Poll
      BY <1>2
    <3>2. q \in Poll /\ q.kind = poll[p].kind /\ q.backlog = poll[p].backlog /\ q.at = "Updated"
      BY <3>1 DEF Poll
    <3>3. poll' = [poll EXCEPT ![p] = q]
      BY <2>2, ZenonT(40) DEF updateBacklog
    <3>4. poll[p].kind # "None"
      BY <2>2 DEF updateBacklog, PollsInv, NoPoll
    <3>. HIDE DEF q
    <3>5. /\ poll' \in [DecisionPollers -> Poll] /\ poll'[p] = q
          /\ \A r \in DecisionPollers : r # p => poll'[r] = poll[r]
      BY <1>2, <3>2, <3>3
    <3>. QED
      BY <3>2, <3>4, <3>5 DEF PollsInv, NoPoll
  <2>. QED
    BY <2>1, <2>2, ZenonT(40) DEF PollsShutdown, polls
<1>4. \A k : ofKind(k)' = ofKind(k)
  BY <1>3 DEF ofKind
<1>5. BothListsArePolled'
  BY <1>1, <1>3, <1>4 DEF PollsInv, BothListsArePolled
<1>. QED
  BY <1>1, <1>2, <1>3, <1>4, <1>5 DEF PollsInv, pollCounts

\* With two pollers or more, however many, and whatever the service answers: when
\* all of them wait for a task and stickiness is on, both lists have one that waits, unless the backlog
\* of the sticky list drew one of them there.
THEOREM BothListsAreAlwaysPolled == PollsSpec => []BothListsArePolled
<1>1. PollsInit => PollsInv
  <2>. SUFFICES ASSUME PollsInit PROVE PollsInv
    OBVIOUS
  <2>1. disableSticky \in BOOLEAN
    BY DEF PollsInit
  <2>2. NoPoll \in Poll /\ NoPoll.kind = "None"
    BY DEF NoPoll, Poll
  <2>3. poll \in [DecisionPollers -> Poll] /\ \A p \in DecisionPollers : poll[p] = NoPoll
    BY <2>2 DEF PollsInit
  <2>4. ofKind("Sticky") = {} /\ ofKind("Normal") = {} /\ ofKind("None") = DecisionPollers
    BY <2>2, <2>3 DEF ofKind
  <2>5. BothListsArePolled
    <3>1. Cardinality(DecisionPollers) > 1 => DecisionPollers # {}
      BY FS_EmptySet
    <3>. QED
      BY <2>4, <3>1 DEF BothListsArePolled
  <2>. QED
    BY <2>1, <2>2, <2>3, <2>4, <2>5, FS_EmptySet DEF PollsInv, PollsInit
<1>2. PollsInv /\ [PollsNext]_polls => PollsInv'
  BY getNextPollRequestStep, releaseStep, OtherPollsStep DEF PollsNext
<1>3. PollsInv => BothListsArePolled
  BY DEF PollsInv
<1>. QED
  BY <1>1, <1>2, <1>3, PTL DEF PollsSpec

-----------------------------------------------------------------------------
(***************************************************************************)
(* The LRU cache, which holds the workflow contexts of the workers.        *)
(***************************************************************************)

\* The entries are finitely many and, in a bounded cache, fewer than maxSize; a
\* key without an entry has no references, and without pinning no key has any.
LRUInv ==
    /\ maxSize \in Nat /\ pin \in BOOLEAN
    /\ entry \in [Keys -> Values \cup {Nil}]
    /\ refCount \in [Keys -> Nat]
    /\ IsFiniteSet(byKey)
    /\ maxSize > 0 => Cardinality(byKey) < maxSize
    /\ \A k \in Keys : ~pin \/ entry[k] = Nil => refCount[k] = 0

\* What the calls do to the set of keys.
LEMMA KeysAdded ==
    ASSUME LRUInv, NEW k \in Keys, NEW v \in Values, entry[k] = Nil,
           entry' = [entry EXCEPT ![k] = v]
    PROVE  /\ byKey' = byKey \cup {k}
           /\ IsFiniteSet(byKey')
           /\ Cardinality(byKey') = Cardinality(byKey) + 1
  <1>1. byKey' = byKey \cup {k}
    BY LRUAssumption DEF LRUInv, byKey
  <1>2. k \notin byKey /\ IsFiniteSet(byKey)
    BY DEF LRUInv, byKey
  <1> QED
    BY <1>1, <1>2, FS_AddElement

LEMMA KeysRemoved ==
    ASSUME LRUInv, NEW k \in Keys, entry[k] # Nil,
           entry' = [entry EXCEPT ![k] = Nil]
    PROVE  /\ byKey' = byKey \ {k}
           /\ IsFiniteSet(byKey')
           /\ Cardinality(byKey') = Cardinality(byKey) - 1
           /\ Cardinality(byKey) \in Nat
  <1>1. byKey' = byKey \ {k}
    BY DEF LRUInv, byKey
  <1>2. k \in byKey /\ IsFiniteSet(byKey)
    BY DEF LRUInv, byKey
  <1> QED
    BY <1>1, <1>2, FS_RemoveElement, FS_CardinalityType

LEMMA KeysReplaced ==
    ASSUME LRUInv, NEW k \in Keys, NEW o \in Keys, NEW v \in Values,
           entry[k] = Nil, entry[o] # Nil,
           entry' = [entry EXCEPT ![k] = v, ![o] = Nil]
    PROVE  /\ IsFiniteSet(byKey')
           /\ Cardinality(byKey') = Cardinality(byKey)
  <1>1. byKey' = (byKey \ {o}) \cup {k}
    BY LRUAssumption DEF LRUInv, byKey
  <1>2. o \in byKey /\ k \notin byKey /\ IsFiniteSet(byKey)
    BY DEF LRUInv, byKey
  <1>3. IsFiniteSet(byKey \ {o}) /\ Cardinality(byKey \ {o}) = Cardinality(byKey) - 1
    BY <1>2, FS_RemoveElement
  <1>4. Cardinality(byKey) \in Nat
    BY <1>2, FS_CardinalityType
  <1>5. k \notin byKey \ {o}
    BY <1>2
  <1>6. /\ IsFiniteSet((byKey \ {o}) \cup {k})
        /\ Cardinality((byKey \ {o}) \cup {k}) = Cardinality(byKey \ {o}) + 1
    BY <1>3, <1>5, FS_AddElement
  <1> QED
    BY <1>1, <1>3, <1>4, <1>6

\* A key at the front of the list is its last element only when it is alone.
LEMMA FrontIsNotOldest ==
    ASSUME NEW k, k \notin byKey, isOldest(k, k)
    PROVE  byKey = {}
  BY ZenonT(40) DEF isOldest, MoveToFront, Remove

\* A cache that was just made is empty.
LEMMA LRUInvInit == LRUInit => LRUInv
  <1> SUFFICES ASSUME LRUInit PROVE LRUInv
    OBVIOUS
  <1>1. byKey = {}
    BY DEF LRUInit, byKey
  <1> QED
    BY <1>1, FS_EmptySet, LRUAssumption DEF LRUInit, LRUInv

\* The contract counts in the same way.
LEMMA SameCardinality == \A S : Promised!Cardinality(S) = Cardinality(S)
  BY ZenonT(40) DEF Promised!Cardinality, Cardinality

\* A call that leaves the entries and the options alone keeps the invariant.
LEMMA LRUInvUnchanged ==
    ASSUME LRUInv, UNCHANGED <<maxSize, pin, entry, refCount>>
    PROVE  LRUInv'
  BY DEF LRUInv, byKey

\* An entry that is dropped, by Delete or because it has expired.
LEMMA DeletedKeeps ==
    ASSUME LRUInv, NEW k \in Keys, entry[k] # Nil, deleted(k), UNCHANGED fields
    PROVE  LRUInv' /\ Promised!leaves(k)
  <1>1. /\ IsFiniteSet(byKey')
        /\ Cardinality(byKey') = Cardinality(byKey) - 1
        /\ Cardinality(byKey) \in Nat
    BY KeysRemoved, ZenonT(40) DEF deleted
  <1>2. LRUInv'
    BY <1>1 DEF LRUInv, deleted, fields
  <1>3. Promised!leaves(k)
    BY DEF Promised!leaves, deleted
  <1> QED
    BY <1>2, <1>3

\* An entry that is found stays, with one more reference in pin mode.
LEMMA FoundKeeps ==
    ASSUME LRUInv, NEW k \in Keys, NEW u \in Values, entry[k] # Nil,
           entry' = entry \/ entry' = [entry EXCEPT ![k] = u],
           refCount' = [refCount EXCEPT ![k] = @ + refs], UNCHANGED fields
    PROVE  LRUInv'
  <1>1. byKey' = byKey
    BY LRUAssumption DEF LRUInv, byKey
  <1>2. refs \in Nat /\ (~pin => refs = 0)
    BY DEF refs
  <1>3. entry' \in [Keys -> Values \cup {Nil}] /\ refCount' \in [Keys -> Nat]
    BY <1>2 DEF LRUInv
  <1>4. \A j \in Keys : ~pin' \/ entry'[j] = Nil => refCount'[j] = 0
    BY <1>2, LRUAssumption DEF LRUInv, fields
  <1> QED
    BY <1>1, <1>3, <1>4 DEF LRUInv, fields

\* A new entry keeps the cache below maxSize, and takes the room of an entry
\* that is not in use.
LEMMA NewEntryKeeps ==
    ASSUME LRUInv, NEW k \in Keys, NEW v \in Values, entry[k] = Nil,
           pushed(k, v) \/ evicts(k, v), UNCHANGED fields
    PROVE  LRUInv' /\ Promised!enters(k, v)
  <1> USE DEF fields
  <1>0. refs \in Nat /\ (~pin => refs = 0) /\ Promised!one = refs
    BY DEF refs, Promised!one
  <1>3. k \notin byKey /\ Promised!present = byKey
    BY DEF byKey, Promised!present
  <1>4. Promised!full <=> isFull
    BY <1>3, SameCardinality DEF Promised!full, isFull
  <1>1. CASE pushed(k, v)
    <2>1. /\ IsFiniteSet(byKey')
          /\ Cardinality(byKey') = Cardinality(byKey) + 1
      BY <1>1, KeysAdded, ZenonT(40) DEF pushed
    <2>2. Cardinality(byKey) \in Nat
      BY FS_CardinalityType DEF LRUInv
    <2>3. maxSize' > 0 => Cardinality(byKey') < maxSize'
      BY <1>1, <2>1, <2>2 DEF LRUInv, pushed, isFull
    <2>4. /\ entry' \in [Keys -> Values \cup {Nil}] /\ refCount' \in [Keys -> Nat]
          /\ \A j \in Keys : ~pin' \/ entry'[j] = Nil => refCount'[j] = 0
      BY <1>0, <1>1, LRUAssumption DEF LRUInv, pushed
    <2>5. LRUInv'
      BY <2>1, <2>3, <2>4 DEF LRUInv
    <2>6. Promised!enters(k, v)
      BY <1>0, <1>1, <1>4 DEF pushed, Promised!enters
    <2> QED
      BY <2>5, <2>6
  <1>2. CASE evicts(k, v)
    <2>1. PICK o \in byKey \cup {k} :
            /\ isFull /\ isOldest(k, o) /\ ~isPinned(k, o)
            /\ entry' = [entry EXCEPT ![k] = v, ![o] = Nil]
            /\ refCount' = [refCount EXCEPT ![k] = refs, ![o] = 0]
            /\ removed' = {IF o = k THEN v ELSE entry[o]}
      BY <1>2, ZenonT(40) DEF evicts
    <2>2. CASE o = k
      <3>1. byKey = {}
        BY <1>3, <2>1, <2>2, FrontIsNotOldest
      <3>2. maxSize = 1 /\ ~pin
        BY <2>1, <2>2, <3>1, FS_EmptySet DEF LRUInv, isFull, isPinned
      <3>3. entry' = entry /\ refCount' = refCount
        BY <2>1, <2>2 DEF LRUInv
      <3>4. LRUInv'
        BY <3>3, LRUInvUnchanged
      <3>5. Promised!enters(k, v)
        BY <1>4, <2>1, <2>2, <3>2, <3>3 DEF Promised!enters
      <3> QED
        BY <3>4, <3>5
    <2>3. CASE o # k
      <3>1. o \in Keys /\ o \in byKey /\ entry[o] # Nil
        BY <2>1, <2>3 DEF byKey
      <3>2. IsFiniteSet(byKey') /\ Cardinality(byKey') = Cardinality(byKey)
        BY <2>1, <3>1, KeysReplaced, ZenonT(40)
      <3>3. /\ entry' \in [Keys -> Values \cup {Nil}] /\ refCount' \in [Keys -> Nat]
            /\ \A j \in Keys : ~pin' \/ entry'[j] = Nil => refCount'[j] = 0
        BY <1>0, <2>1, <2>3, LRUAssumption, ZenonT(40) DEF LRUInv
      <3>4. LRUInv'
        BY <3>2, <3>3 DEF LRUInv
      <3>5. refCount[o] = 0
        BY <2>1, <2>3, <3>1 DEF isPinned, LRUInv
      <3>6. Promised!enters(k, v)
        BY <1>0, <1>3, <1>4, <2>1, <2>3, <3>1, <3>5, ZenonT(40) DEF Promised!enters
      <3> QED
        BY <3>4, <3>6
    <2> QED
      BY <2>2, <2>3
  <1> QED
    BY <1>1, <1>2

-----------------------------------------------------------------------------
(* One lemma for each call                                                 *)

LEMMA GetKeeps ==
    ASSUME LRUInv, NEW k \in Keys, lruGet(k)
    PROVE  LRUInv' /\ Promised!Get(k)
  <1>1. CASE entry[k] = Nil
    <2>1. UNCHANGED <<maxSize, pin, entry, refCount>> /\ result' = Nil /\ removed' = {}
      BY <1>1 DEF lruGet, entries, fields
    <2> QED
      BY <1>1, <2>1, LRUInvUnchanged DEF Promised!Get
  <1>2. CASE entry[k] # Nil /\ refCount[k] + refs = 0 /\ ttl # 0 /\ age[k] > ttl
    <2>1. deleted(k) /\ result' = Nil /\ UNCHANGED fields
      BY <1>2 DEF lruGet
    <2>2. refCount[k] = 0 /\ ~pin
      BY <1>2 DEF LRUInv, refs
    <2> QED
      BY <1>2, <2>1, <2>2, DeletedKeeps DEF Promised!Get
  <1>3. CASE entry[k] # Nil /\ ~(refCount[k] + refs = 0 /\ ttl # 0 /\ age[k] > ttl)
    <2>1. /\ refCount' = [refCount EXCEPT ![k] = @ + refs]
          /\ result' = entry[k] /\ removed' = {} /\ entry' = entry /\ UNCHANGED fields
      BY <1>3 DEF lruGet
    <2>2. entry[k] \in Values
      BY <1>3 DEF LRUInv
    <2>3. LRUInv'
      BY <1>3, <2>1, <2>2, FoundKeeps, ZenonT(40)
    <2>4. Promised!Get(k)
      BY <1>3, <2>1 DEF Promised!Get, Promised!finds, Promised!one, refs
    <2> QED
      BY <2>3, <2>4
  <1> QED
    BY <1>1, <1>2, <1>3

LEMMA PutKeeps ==
    ASSUME LRUInv, NEW k \in Keys, NEW v \in Values, Put(k, v)
    PROVE  LRUInv' /\ Promised!Put(k, v)
  <1>1. ~pin /\ UNCHANGED fields
    BY DEF Put
  <1>2. CASE found(k, v, TRUE) /\ result' = entry[k]
    <2>1. LRUInv'
      BY <1>1, <1>2, FoundKeeps, ZenonT(40) DEF found
    <2>2. Promised!Put(k, v)
      BY <1>1, <1>2 DEF found, refs, Promised!Put, Promised!finds, Promised!one
    <2> QED
      BY <2>1, <2>2
  <1>3. CASE entry[k] = Nil /\ (pushed(k, v) \/ evicts(k, v)) /\ result' = Nil
    BY <1>1, <1>3, NewEntryKeeps DEF Promised!Put
  <1> QED
    BY <1>2, <1>3, ZenonT(40) DEF Put

LEMMA PutIfNotExistKeeps ==
    ASSUME LRUInv, NEW k \in Keys, NEW v \in Values, PutIfNotExist(k, v)
    PROVE  LRUInv' /\ Promised!PutIfNotExist(k, v)
  <1>1. UNCHANGED fields
    BY DEF PutIfNotExist
  <1>2. CASE found(k, v, FALSE) /\ result' = entry[k]
    <2>1. LRUInv'
      BY <1>1, <1>2, FoundKeeps, ZenonT(40) DEF found
    <2>2. Promised!PutIfNotExist(k, v)
      BY <1>1, <1>2 DEF found, refs, Promised!PutIfNotExist, Promised!finds, Promised!one
    <2> QED
      BY <2>1, <2>2
  <1>3. CASE entry[k] = Nil /\ (pushed(k, v) \/ evicts(k, v)) /\ result' = v
    BY <1>1, <1>3, NewEntryKeeps DEF Promised!PutIfNotExist
  <1>4. CASE entry[k] = Nil /\ reverts(k) /\ result' = ErrCacheFull
    <2>1. PICK o \in byKey \cup {k} : isOldest(k, o) /\ isPinned(k, o)
      BY <1>4 DEF reverts
    <2>2. /\ isFull /\ removed' = {} /\ entry' = entry /\ refCount' = refCount
      BY <1>4 DEF reverts, entries
    <2>3. Promised!present = byKey /\ k \notin byKey
      BY <1>4 DEF Promised!present, byKey
    <2>4. Promised!full
      BY <2>2, <2>3, SameCardinality DEF Promised!full, isFull
    <2>5. pin /\ (maxSize = 1 \/ \E j \in byKey : refCount[j] > 0)
      <3>1. CASE o = k
        <4>1. byKey = {}
          BY <2>1, <2>3, <3>1, FrontIsNotOldest
        <4> QED
          BY <2>1, <2>2, <3>1, <4>1, FS_EmptySet DEF isPinned, isFull, LRUInv
      <3>2. CASE o # k
        <4>1. o \in byKey /\ refCount[o] > 0
          BY <2>1, <3>2 DEF isPinned
        <4> QED
          BY <4>1 DEF LRUInv, byKey
      <3> QED
        BY <3>1, <3>2
    <2>6. LRUInv'
      BY <1>1, <2>2, LRUInvUnchanged DEF fields
    <2>7. Promised!PutIfNotExist(k, v)
      BY <1>4, <2>2, <2>3, <2>4, <2>5 DEF Promised!PutIfNotExist
    <2> QED
      BY <2>6, <2>7
  <1> QED
    BY <1>2, <1>3, <1>4, ZenonT(40) DEF PutIfNotExist

LEMMA DeleteKeeps ==
    ASSUME LRUInv, NEW k \in Keys, Delete(k)
    PROVE  LRUInv' /\ Promised!Delete(k)
  <1>1. UNCHANGED fields /\ result' = Nil
    BY DEF Delete
  <1>2. CASE entry[k] # Nil /\ deleted(k)
    BY <1>1, <1>2, DeletedKeeps DEF Promised!Delete
  <1>3. CASE entry[k] = Nil /\ removed' = {} /\ UNCHANGED entries
    <2>1. UNCHANGED <<maxSize, pin, entry, refCount>>
      BY <1>1, <1>3 DEF entries, fields
    <2> QED
      BY <1>1, <1>3, <2>1, LRUInvUnchanged DEF Promised!Delete
  <1> QED
    BY <1>2, <1>3 DEF Delete

LEMMA ReleaseKeeps ==
    ASSUME LRUInv, NEW k \in Keys, Release(k)
    PROVE  LRUInv' /\ Promised!Release(k)
  <1>1. LRUInv'
    BY DEF LRUInv, Release, fields, byKey
  <1>2. Promised!Release(k)
    BY DEF Release, Promised!Release
  <1> QED
    BY <1>1, <1>2

-----------------------------------------------------------------------------

\* A step of the cache keeps the invariant, and is a call of the contract or
\* leaves everything that the contract speaks of alone.
LEMMA StepKeeps ==
    ASSUME LRUInv, [LRUNext]_lru
    PROVE  LRUInv' /\ [Promised!Next]_Promised!vars
  <1>1. ASSUME NEW k \in Keys, LRUInv', Promised!call(k), UNCHANGED fields
        PROVE  Promised!Next
    <2>1. Promised!present' = byKey'
      BY DEF Promised!present, byKey
    <2>2. maxSize > 0 => Promised!Cardinality(Promised!present') < maxSize
      BY <1>1, <2>1, SameCardinality DEF LRUInv, fields
    <2> QED
      BY <1>1, <2>2 DEF Promised!Next, fields
  <1>2. ASSUME NEW k \in Keys, lruGet(k) \/ Delete(k) \/ Release(k)
        PROVE  LRUInv' /\ Promised!Next
    <2>1. UNCHANGED fields
      BY <1>2, ZenonT(40) DEF lruGet, Delete, Release
    <2> QED
      BY <1>1, <1>2, <2>1, GetKeeps, DeleteKeeps, ReleaseKeeps DEF Promised!call
  <1>3. ASSUME NEW k \in Keys, NEW v \in Values, Put(k, v) \/ PutIfNotExist(k, v)
        PROVE  LRUInv' /\ Promised!Next
    <2>1. UNCHANGED fields
      BY <1>3, ZenonT(40) DEF Put, PutIfNotExist
    <2> QED
      BY <1>1, <1>3, <2>1, PutKeeps, PutIfNotExistKeeps DEF Promised!call
  <1>4. CASE Tick \/ UNCHANGED lru
    <2>1. UNCHANGED <<maxSize, pin, entry, refCount>> /\ UNCHANGED <<result, removed>>
      BY <1>4 DEF Tick, lru, fields, entries
    <2> QED
      BY <2>1, LRUInvUnchanged DEF Promised!vars
  <1> QED
    BY <1>2, <1>3, <1>4 DEF LRUNext

\* The cache of lru.go keeps the contract of the interface Cache, for every set
\* of keys and values, every size and time to live, with and without pinning.
THEOREM LRUKeepsContract == LRUSpec => KeepsContract
  <1>1. LRUInit => LRUInv
    BY LRUInvInit
  <1>2. LRUInit => Promised!Init
    BY LRUAssumption DEF LRUInit, Promised!Init
  <1>3. LRUInv /\ [LRUNext]_lru => LRUInv' /\ [Promised!Next]_Promised!vars
    BY StepKeeps
  <1> QED
    BY <1>1, <1>2, <1>3, PTL DEF LRUSpec, KeepsContract, Promised!Spec
=============================================================================
