-------------------------- MODULE BaseWorkerProofs --------------------------
(***************************************************************************)
(* The permits of a base worker are conserved, for any number of pollers   *)
(* and any MaxConcurrentTask, with and without the auto scaler, which      *)
(* resizes the poller permit while the pollers hold it; and the quota it   *)
(* sets follows the hints of the service.                                  *)
(***************************************************************************)
EXTENDS BaseWorker, FiniteSetTheorems, TLAPS

USE SMTT(40)

Holding == {"Token", "Waiting", "Permit", "Poll", "Offer"}
Polling == {"Poll", "Offer"}

at(S) == {p \in Pollers : poller[p] \in S}
offering == {p \in Pollers : channel[p] = "Offering"}

Types ==
    /\ poller \in [Pollers -> PollerStates]
    /\ channel \in [Pollers -> {"None", "Acquiring", "Offering"}]
    /\ taskPermits \in 0..MaxConcurrentTask
    /\ pollerPermits \in Int
    /\ dispatcher \in {"Select", "Limit", "Done"}
    /\ polled \in Nat /\ sessions \in 0..polled
    /\ stop \in {"Running", "Closing", "Canceled", "Awaiting", "Returned"}

\* Only a poller that selects, or waits for the goroutine of its channel, has one:
\* else AcquireChan could forget a channel that offers a permit.
ChannelHasPoller ==
    \A p \in Pollers : poller[p] \notin {"Select", "Closing"} => channel[p] = "None"

IInv == Types /\ ChannelHasPoller /\ PermitsConserved

-----------------------------------------------------------------------------
(* Counting pollers                                                        *)

inLimit == IF dispatcher = "Limit" THEN 1 ELSE 0

LEMMA HoldersSum ==
    /\ counted(Holding) = Cardinality(at(Holding))
    /\ counted(Polling) = Cardinality(at(Polling))
    /\ holders = Cardinality(at(Holding)) + Cardinality(offering) + inLimit + polled
  BY DEF counted, holders, Holding, Polling, at, offering, inLimit

LEMMA HoldersSumNext ==
    /\ counted(Polling)' = Cardinality(at(Polling)')
    /\ holders' = Cardinality(at(Holding)') + Cardinality(offering') + inLimit' + polled'
  BY DEF counted, holders, Holding, Polling, at, offering, inLimit

LEMMA Finite ==
    ASSUME NEW S
    PROVE  /\ IsFiniteSet(at(S)) /\ Cardinality(at(S)) \in Nat
           /\ IsFiniteSet(offering) /\ Cardinality(offering) \in Nat
  <1>1. at(S) \subseteq Pollers /\ offering \subseteq Pollers
    BY DEF at, offering
  <1>2. IsFiniteSet(at(S)) /\ IsFiniteSet(offering)
    BY <1>1, BaseWorkerAssumption, FS_Subset
  <1> QED
    BY <1>2, FS_CardinalityType

\* What a step of one poller does to the pollers in a set of states.
LEMMA CountMoved ==
    ASSUME poller \in [Pollers -> PollerStates], NEW p \in Pollers, NEW from, NEW to,
           moves(p, from, to), NEW S
    PROVE  Cardinality(at(S)') =
             Cardinality(at(S)) + (IF to \in S THEN 1 ELSE 0) - (IF from \in S THEN 1 ELSE 0)
  <1>1. IsFiniteSet(at(S)) /\ Cardinality(at(S)) \in Nat
    BY Finite
  <1>2. (p \in at(S)) <=> from \in S
    BY DEF at, moves
  <1>3. CASE to \in S
    <2>1. at(S)' = at(S) \cup {p}
      BY <1>3 DEF at, moves
    <2>2. Cardinality(at(S) \cup {p}) =
            IF p \in at(S) THEN Cardinality(at(S)) ELSE Cardinality(at(S)) + 1
      BY <1>1, FS_AddElement, ZenonT(40)
    <2> QED
      BY <1>1, <1>2, <1>3, <2>1, <2>2
  <1>4. CASE to \notin S
    <2>1. at(S)' = at(S) \ {p}
      BY <1>4 DEF at, moves
    <2>2. Cardinality(at(S) \ {p}) =
            IF p \in at(S) THEN Cardinality(at(S)) - 1 ELSE Cardinality(at(S))
      BY <1>1, FS_RemoveElement, ZenonT(40)
    <2> QED
      BY <1>1, <1>2, <1>4, <2>1, <2>2
  <1> QED
    BY <1>3, <1>4

LEMMA CountOffering ==
    ASSUME channel \in [Pollers -> {"None", "Acquiring", "Offering"}], NEW p \in Pollers,
           NEW to, channel' = [channel EXCEPT ![p] = to]
    PROVE  Cardinality(offering') =
             Cardinality(offering) + (IF to = "Offering" THEN 1 ELSE 0)
               - (IF channel[p] = "Offering" THEN 1 ELSE 0)
  <1>1. IsFiniteSet(offering) /\ Cardinality(offering) \in Nat
    BY Finite
  <1>2. (p \in offering) <=> channel[p] = "Offering"
    BY DEF offering
  <1>3. CASE to = "Offering"
    <2>1. offering' = offering \cup {p}
      BY <1>3 DEF offering
    <2>2. Cardinality(offering \cup {p}) =
            IF p \in offering THEN Cardinality(offering) ELSE Cardinality(offering) + 1
      BY <1>1, FS_AddElement, ZenonT(40)
    <2> QED
      BY <1>1, <1>2, <1>3, <2>1, <2>2
  <1>4. CASE to # "Offering"
    <2>1. offering' = offering \ {p}
      BY <1>4 DEF offering
    <2>2. Cardinality(offering \ {p}) =
            IF p \in offering THEN Cardinality(offering) - 1 ELSE Cardinality(offering)
      BY <1>1, FS_RemoveElement, ZenonT(40)
    <2> QED
      BY <1>1, <1>2, <1>4, <2>1, <2>2
  <1> QED
    BY <1>3, <1>4

\* The permits are conserved when the holders change as taskPermits does; a step
\* of the shutdown may lose some.
LEMMA Conserved ==
    ASSUME IInv, NEW dh \in Int, NEW dp \in Int,
           Cardinality(at(Holding)') + Cardinality(offering') + inLimit' + polled'
             = Cardinality(at(Holding)) + Cardinality(offering) + inLimit + polled + dh,
           Cardinality(at(Polling)') = Cardinality(at(Polling)) + dp,
           pollerPermits' = pollerPermits + dp,
           taskPermits' \in Int,
           taskPermits' >= taskPermits + dh,
           stop' = "Running" => stop = "Running" /\ taskPermits' = taskPermits + dh
    PROVE  PermitsConserved'
  <1>1. /\ Cardinality(at(Holding)) \in Nat /\ Cardinality(at(Polling)) \in Nat
        /\ Cardinality(offering) \in Nat /\ inLimit \in Nat /\ polled \in Nat
        /\ taskPermits \in Int /\ pollerPermits \in Int
    BY Finite DEF inLimit, IInv, Types
  <1>2. /\ taskPermits >= holders /\ (stop = "Running" => taskPermits = holders)
        /\ pollerPermits = Cardinality(at(Polling))
    BY HoldersSum, ZenonT(40) DEF IInv, PermitsConserved, Polling
  <1>3. holders \in Int /\ holders' = holders + dh
    BY <1>1, HoldersSum, HoldersSumNext
  <1>4. pollerPermits' = counted(Polling)'
    BY <1>1, <1>2, HoldersSumNext, ZenonT(40)
  <1>5. taskPermits' >= holders' /\ (stop' = "Running" => taskPermits' = holders')
    BY <1>1, <1>2, <1>3
  <1> QED
    BY <1>4, <1>5 DEF PermitsConserved, Polling

\* What holds a permit holds one of taskPermits.
LEMMA SomeoneHolds ==
    ASSUME IInv,
           \/ \E p \in Pollers : poller[p] \in Holding \/ channel[p] = "Offering"
           \/ polled > 0
    PROVE  taskPermits >= 1
  <1>1. /\ Cardinality(at(Holding)) \in Nat /\ Cardinality(offering) \in Nat
        /\ inLimit \in Nat /\ polled \in Nat /\ taskPermits \in Int
    BY Finite DEF inLimit, IInv, Types
  <1>2. taskPermits >= Cardinality(at(Holding)) + Cardinality(offering) + inLimit + polled
    BY HoldersSum DEF IInv, PermitsConserved
  <1>3. ASSUME NEW p \in Pollers, poller[p] \in Holding
        PROVE  Cardinality(at(Holding)) # 0
    <2>1. at(Holding) # {}
      BY <1>3 DEF at
    <2> QED
      BY <2>1, Finite, FS_EmptySet
  <1>4. ASSUME NEW p \in Pollers, channel[p] = "Offering"
        PROVE  Cardinality(offering) # 0
    <2>1. offering # {}
      BY <1>4 DEF offering
    <2> QED
      BY <2>1, Finite, FS_EmptySet
  <1>5. Cardinality(at(Holding)) # 0 \/ Cardinality(offering) # 0 \/ polled > 0
    BY <1>3, <1>4, ZenonT(40)
  <1> QED
    BY <1>1, <1>2, <1>5

-----------------------------------------------------------------------------
(* The steps of the goroutine of a permitChannel                           *)

\* A step of the channel's goroutine leaves the pollers alone.
LEMMA ChannelStepKeeps ==
    ASSUME IInv, NEW p \in Pollers, ChannelStep(p)
    PROVE  IInv'
  <1> USE DEF IInv, Types
  <1>1. /\ channel[p] \in {"Acquiring", "Offering"} /\ poller' = poller
        /\ \E to \in {"None", "Offering"} : channel' = [channel EXCEPT ![p] = to]
        /\ UNCHANGED <<pollerPermits, dispatcher, polled, sessions, stop>>
    BY ZenonT(40) DEF ChannelStep, ChannelAcquires, ChannelFails, ChannelReleases
  <1>2. ChannelHasPoller'
    BY <1>1 DEF ChannelHasPoller
  <1>3. at(Holding)' = at(Holding) /\ at(Polling)' = at(Polling) /\ inLimit' = inLimit
    BY <1>1 DEF at, inLimit
  <1>4. /\ Cardinality(at(Holding)) \in Nat /\ Cardinality(at(Polling)) \in Nat
        /\ Cardinality(offering) \in Nat /\ inLimit \in Nat
    BY Finite DEF inLimit
  <1>5. CASE ChannelAcquires(p)
    <2>1. /\ channel[p] # "Offering" /\ channel' = [channel EXCEPT ![p] = "Offering"]
          /\ taskPermits' = taskPermits + 1 /\ taskPermits < MaxConcurrentTask
      BY <1>5 DEF ChannelAcquires
    <2>2. Cardinality(offering') =
            Cardinality(offering) + (IF "Offering" = "Offering" THEN 1 ELSE 0)
              - (IF channel[p] = "Offering" THEN 1 ELSE 0)
      BY <2>1, CountOffering, ZenonT(40)
    <2>3. Cardinality(offering') = Cardinality(offering) + 1
      BY <1>4, <2>1, <2>2
    <2>4. PermitsConserved'
      BY <1>1, <1>3, <1>4, <2>1, <2>3, Conserved
    <2> QED
      BY <1>1, <1>2, <2>1, <2>4, BaseWorkerAssumption
  <1>6. CASE ChannelFails(p)
    <2>1. channel[p] # "Offering" /\ channel' = [channel EXCEPT ![p] = "None"] /\ taskPermits' = taskPermits
      BY <1>6 DEF ChannelFails
    <2>2. Cardinality(offering') =
            Cardinality(offering) + (IF "None" = "Offering" THEN 1 ELSE 0)
              - (IF channel[p] = "Offering" THEN 1 ELSE 0)
      BY <2>1, CountOffering, ZenonT(40)
    <2>3. Cardinality(offering') = Cardinality(offering)
      BY <1>4, <2>1, <2>2
    <2>4. PermitsConserved'
      BY <1>1, <1>3, <1>4, <2>1, <2>3, Conserved
    <2> QED
      BY <1>1, <1>2, <2>1, <2>4
  <1>7. CASE ChannelReleases(p)
    <2>1. /\ channel[p] = "Offering" /\ channel' = [channel EXCEPT ![p] = "None"]
          /\ taskPermits' = taskPermits - 1
      BY <1>7 DEF ChannelReleases
    <2>2. Cardinality(offering') =
            Cardinality(offering) + (IF "None" = "Offering" THEN 1 ELSE 0)
              - (IF channel[p] = "Offering" THEN 1 ELSE 0)
      BY <2>1, CountOffering, ZenonT(40)
    <2>3. Cardinality(offering') = Cardinality(offering) - 1
      BY <1>4, <2>1, <2>2
    <2>4. PermitsConserved'
      BY <1>1, <1>3, <1>4, <2>1, <2>3, Conserved
    <2>5. taskPermits >= 1
      BY <2>1, SomeoneHolds
    <2> QED
      BY <1>1, <1>2, <2>1, <2>4, <2>5, BaseWorkerAssumption
  <1> QED
    BY <1>5, <1>6, <1>7, ZenonT(40) DEF ChannelStep

-----------------------------------------------------------------------------
(* The steps of a poller                                                   *)

isIn(S, x) == IF x \in S THEN 1 ELSE 0

\* A step of a poller that leaves its channel alone.
LEMMA PollerMoves ==
    ASSUME IInv, NEW p \in Pollers, NEW from, NEW to \in PollerStates, moves(p, from, to),
           UNCHANGED <<channel, polled, sessions, stop>>,
           from \notin {"Select", "Closing"} \/ to = "Closing" \/ channel[p] = "None",
           dispatcher' \in {"Select", "Limit", "Done"},
           NEW dl \in Int, inLimit' = inLimit + dl,
           pollerPermits' = pollerPermits + isIn(Polling, to) - isIn(Polling, from),
           taskPermits' \in 0..MaxConcurrentTask,
           taskPermits' >= taskPermits + (isIn(Holding, to) - isIn(Holding, from) + dl),
           stop = "Running" =>
             taskPermits' = taskPermits + (isIn(Holding, to) - isIn(Holding, from) + dl)
    PROVE  IInv'
  <1>1. /\ Cardinality(at(Holding)) \in Nat /\ Cardinality(at(Polling)) \in Nat
        /\ Cardinality(offering) \in Nat /\ inLimit \in Nat /\ polled \in Nat
        /\ taskPermits \in Int /\ pollerPermits \in Int
    BY Finite DEF inLimit, IInv, Types
  <1>2. /\ isIn(Polling, to) \in Int /\ isIn(Polling, from) \in Int
        /\ isIn(Holding, to) \in Int /\ isIn(Holding, from) \in Int
    BY DEF isIn
  <1>3. ASSUME NEW S
        PROVE  Cardinality(at(S)') = Cardinality(at(S)) + isIn(S, to) - isIn(S, from)
    BY CountMoved DEF isIn, IInv, Types
  <1>4. offering' = offering
    BY ZenonT(40) DEF offering
  <1>5. /\ Cardinality(at(Holding)') + Cardinality(offering') + inLimit' + polled'
             = Cardinality(at(Holding)) + Cardinality(offering) + inLimit + polled
                 + (isIn(Holding, to) - isIn(Holding, from) + dl)
        /\ Cardinality(at(Polling)') = Cardinality(at(Polling)) + (isIn(Polling, to) - isIn(Polling, from))
    BY <1>1, <1>2, <1>3, <1>4
  <1>6. PermitsConserved'
    <2> DEFINE dh == isIn(Holding, to) - isIn(Holding, from) + dl
               dp == isIn(Polling, to) - isIn(Polling, from)
    <2>1. dh \in Int /\ dp \in Int
      BY <1>2
    <2>2. pollerPermits' = pollerPermits + dp /\ taskPermits' \in Int /\ stop' = stop
      BY <1>1, <1>2, BaseWorkerAssumption
    <2> HIDE DEF dh, dp
    <2> QED
      BY <1>5, <2>1, <2>2, Conserved, ZenonT(40) DEF dh, dp
  <1>7. ChannelHasPoller'
    BY ZenonT(40) DEF IInv, Types, ChannelHasPoller, moves
  <1>8. Types'
    BY <1>1, <1>2 DEF IInv, Types, moves
  <1> QED
    BY <1>6, <1>7, <1>8 DEF IInv

\* The first step of a poller's loop starts the goroutine of a new channel.
LEMMA AcquireChanKeeps ==
    ASSUME IInv, NEW p \in Pollers, AcquireChan(p)
    PROVE  IInv'
  <1>1. /\ moves(p, "Loop", "Select") /\ channel[p] = "None"
        /\ channel' = [channel EXCEPT ![p] = "Acquiring"]
        /\ UNCHANGED <<dispatcher, polled, sessions, taskPermits, pollerPermits, stop>>
    BY DEF AcquireChan, moves, IInv, ChannelHasPoller
  <1>2. at(Holding)' = at(Holding) /\ at(Polling)' = at(Polling) /\ offering' = offering
        /\ inLimit' = inLimit
    BY <1>1, ZenonT(40) DEF at, Holding, Polling, offering, inLimit, moves, IInv, Types
  <1>3. /\ Cardinality(at(Holding)) \in Nat /\ Cardinality(at(Polling)) \in Nat
        /\ Cardinality(offering) \in Nat /\ inLimit \in Nat /\ polled \in Nat
        /\ taskPermits \in Int /\ pollerPermits \in Int
    BY Finite DEF inLimit, IInv, Types
  <1>4. PermitsConserved'
    BY <1>1, <1>2, <1>3, Conserved
  <1>5. Types' /\ ChannelHasPoller'
    BY <1>1, ZenonT(40) DEF IInv, Types, ChannelHasPoller, moves, PollerStates
  <1> QED
    BY <1>4, <1>5 DEF IInv

\* The permit goes from the channel to the poller.
LEMMA SelectPermitKeeps ==
    ASSUME IInv, NEW p \in Pollers, SelectPermit(p)
    PROVE  IInv'
  <1>1. PICK to \in {"Permit", "Token"} : moves(p, "Select", to)
    BY DEF SelectPermit
  <1>2. /\ channel[p] = "Offering" /\ channel' = [channel EXCEPT ![p] = "None"]
        /\ UNCHANGED <<dispatcher, polled, sessions, taskPermits, pollerPermits, stop>>
    BY DEF SelectPermit
  <1>3. /\ Cardinality(at(Holding)) \in Nat /\ Cardinality(at(Polling)) \in Nat
        /\ Cardinality(offering) \in Nat /\ inLimit \in Nat /\ polled \in Nat
        /\ taskPermits \in Int /\ pollerPermits \in Int
    BY Finite DEF inLimit, IInv, Types
  <1>4. ASSUME NEW S
        PROVE  Cardinality(at(S)') = Cardinality(at(S)) + isIn(S, to) - isIn(S, "Select")
    BY <1>1, CountMoved DEF isIn, IInv, Types
  <1>5. /\ isIn(Holding, to) = 1 /\ isIn(Holding, "Select") = 0
        /\ isIn(Polling, to) = 0 /\ isIn(Polling, "Select") = 0
    BY DEF isIn, Holding, Polling
  <1>6. Cardinality(offering') =
          Cardinality(offering) + (IF "None" = "Offering" THEN 1 ELSE 0)
            - (IF channel[p] = "Offering" THEN 1 ELSE 0)
    BY <1>2, CountOffering, ZenonT(40) DEF IInv, Types
  <1>7. /\ Cardinality(at(Holding)') = Cardinality(at(Holding)) + 1
        /\ Cardinality(at(Polling)') = Cardinality(at(Polling))
        /\ Cardinality(offering') = Cardinality(offering) - 1
        /\ inLimit' = inLimit
    BY <1>2, <1>3, <1>4, <1>5, <1>6 DEF inLimit
  <1>8. PermitsConserved'
    BY <1>2, <1>3, <1>7, Conserved
  <1>9. Types' /\ ChannelHasPoller'
    BY <1>1, <1>2, ZenonT(40) DEF IInv, Types, ChannelHasPoller, moves, PollerStates
  <1> QED
    BY <1>8, <1>9 DEF IInv

\* The other steps of a poller.
LEMMA PollerStepKeeps ==
    ASSUME IInv, NEW p \in Pollers, PollerStep(p) \/ SelectShutdown(p)
    PROVE  IInv'
  <1> USE DEF isIn, Holding, Polling, PollerStates
  <1>0. /\ taskPermits \in 0..MaxConcurrentTask /\ pollerPermits \in Int
        /\ dispatcher \in {"Select", "Limit", "Done"} /\ MaxConcurrentTask \in Nat
    BY BaseWorkerAssumption DEF IInv, Types
  <1>1. CASE PollerReturns(p)
    <2>1. /\ moves(p, "Closing", "Done") /\ UNCHANGED <<channel, polled, sessions, stop, dispatcher, taskPermits>>
          /\ pollerPermits' = pollerPermits /\ channel[p] = "None"
      BY <1>1 DEF PollerReturns
    <2>2. inLimit' = inLimit + 0 /\ inLimit \in Int
      BY <2>1 DEF inLimit
    <2> QED
      BY <1>0, <2>1, <2>2, PollerMoves
  <1>2. CASE SelectShutdown(p)
    <2>1. /\ moves(p, "Select", "Closing") /\ UNCHANGED <<channel, polled, sessions, stop, dispatcher, taskPermits>>
          /\ pollerPermits' = pollerPermits
      BY <1>2 DEF SelectShutdown
    <2>2. inLimit' = inLimit + 0 /\ inLimit \in Int
      BY <2>1 DEF inLimit
    <2> QED
      BY <1>0, <2>1, <2>2, PollerMoves
  <1>3. CASE PollSucceeds(p)
    <2>1. /\ moves(p, "Poll", "Offer") /\ UNCHANGED <<channel, polled, sessions, stop, dispatcher, taskPermits>>
          /\ pollerPermits' = pollerPermits
      BY <1>3 DEF PollSucceeds
    <2>2. inLimit' = inLimit + 0 /\ inLimit \in Int
      BY <2>1 DEF inLimit
    <2> QED
      BY <1>0, <2>1, <2>2, PollerMoves
  <1>4. CASE AcquirePollerPermit(p)
    <2>1. /\ moves(p, "Permit", "Poll") /\ UNCHANGED <<channel, polled, sessions, stop, dispatcher, taskPermits>>
          /\ pollerPermits' = pollerPermits + 1
      BY <1>4 DEF AcquirePollerPermit
    <2>2. inLimit' = inLimit + 0 /\ inLimit \in Int
      BY <2>1 DEF inLimit
    <2> QED
      BY <1>0, <2>1, <2>2, PollerMoves
  <1>5. CASE waitForAvailableToken(p)
    <2>1. PICK to \in {"Waiting", "Permit"} : moves(p, "Token", to)
      BY <1>5 DEF waitForAvailableToken
    <2>2. UNCHANGED <<channel, polled, sessions, stop, dispatcher, taskPermits, pollerPermits>>
      BY <1>5 DEF waitForAvailableToken
    <2>3. inLimit' = inLimit + 0 /\ inLimit \in Int
      BY <2>2 DEF inLimit
    <2> QED
      BY <1>0, <2>1, <2>2, <2>3, PollerMoves
  <1>6. CASE PollerPermitFails(p)
    <2>1. /\ moves(p, "Permit", "Loop") /\ UNCHANGED <<channel, polled, sessions, stop, dispatcher>>
          /\ taskPermits' = taskPermits /\ pollerPermits' = pollerPermits /\ stop # "Running"
      BY <1>6 DEF PollerPermitFails, ctxDone
    <2>2. inLimit' = inLimit + 0 /\ inLimit \in Int
      BY <2>1 DEF inLimit
    <2> QED
      BY <1>0, <2>1, <2>2, PollerMoves
  <1>7. CASE DropTask(p)
    <2>1. /\ moves(p, "Offer", "Loop") /\ UNCHANGED <<channel, polled, sessions, stop, dispatcher>>
          /\ taskPermits' = taskPermits /\ pollerPermits' = pollerPermits - 1 /\ stop # "Running"
      BY <1>7 DEF DropTask, shutdown
    <2>2. inLimit' = inLimit + 0 /\ inLimit \in Int
      BY <2>1 DEF inLimit
    <2> QED
      BY <1>0, <2>1, <2>2, PollerMoves
  <1>8. CASE PollFails(p)
    <2>1. /\ moves(p, "Poll", "Loop") /\ UNCHANGED <<channel, polled, sessions, stop, dispatcher>>
          /\ taskPermits' = taskPermits - 1 /\ pollerPermits' = pollerPermits - 1
      BY <1>8 DEF PollFails
    <2>2. inLimit' = inLimit + 0 /\ inLimit \in Int
      BY <2>1 DEF inLimit
    <2>3. taskPermits >= 1
      BY <2>1, SomeoneHolds DEF moves
    <2> QED
      BY <1>0, <2>1, <2>2, <2>3, PollerMoves
  <1>9. CASE Enqueue(p)
    <2>1. /\ moves(p, "Offer", "Loop") /\ UNCHANGED <<channel, polled, sessions, stop, taskPermits>>
          /\ pollerPermits' = pollerPermits - 1 /\ dispatcher = "Select" /\ dispatcher' = "Limit"
      BY <1>9 DEF Enqueue
    <2>2. inLimit' = inLimit + 1 /\ inLimit \in Int
      BY <2>1 DEF inLimit
    <2> QED
      BY <1>0, <2>1, <2>2, PollerMoves
  <1> QED
    BY <1>1, <1>2, <1>3, <1>4, <1>5, <1>6, <1>7, <1>8, <1>9, AcquireChanKeeps, SelectPermitKeeps DEF PollerStep

-----------------------------------------------------------------------------
(* The dispatcher, the tasks in process, Stop and the ticker               *)

\* A step that leaves the sets of holding and polling pollers and the channels
\* alone.
LEMMA OthersMove ==
    ASSUME IInv, Types', at(Holding)' = at(Holding), at(Polling)' = at(Polling),
           ChannelHasPoller', channel' = channel, pollerPermits' = pollerPermits,
           NEW dl \in Int, NEW dn \in Int, inLimit' = inLimit + dl, polled' = polled + dn,
           taskPermits' >= taskPermits + (dl + dn),
           stop' = "Running" => stop = "Running" /\ taskPermits' = taskPermits + (dl + dn)
    PROVE  IInv'
  <1>1. /\ Cardinality(at(Holding)) \in Nat /\ Cardinality(at(Polling)) \in Nat
        /\ Cardinality(offering) \in Nat /\ inLimit \in Nat /\ polled \in Nat
        /\ taskPermits \in Int /\ pollerPermits \in Int /\ taskPermits' \in Int
        /\ inLimit' \in Nat /\ polled' \in Nat
    BY Finite, BaseWorkerAssumption DEF inLimit, IInv, Types
  <1>2. /\ Cardinality(offering') = Cardinality(offering)
        /\ Cardinality(at(Holding)') = Cardinality(at(Holding))
    BY DEF offering
  <1>3. Cardinality(at(Holding)') + Cardinality(offering') + inLimit' + polled'
          = Cardinality(at(Holding)) + Cardinality(offering) + inLimit + polled + (dl + dn)
    BY <1>1, <1>2
  <1>4. PermitsConserved'
    BY <1>1, <1>3, Conserved
  <1> QED
    BY <1>4 DEF IInv

\* A step that leaves all the pollers alone.
LEMMA OthersMoveAlone ==
    ASSUME IInv, Types', UNCHANGED <<poller, channel, pollerPermits>>,
           NEW dl \in Int, NEW dn \in Int, inLimit' = inLimit + dl, polled' = polled + dn,
           taskPermits' >= taskPermits + (dl + dn),
           stop' = "Running" => stop = "Running" /\ taskPermits' = taskPermits + (dl + dn)
    PROVE  IInv'
  <1>1. at(Holding)' = at(Holding) /\ at(Polling)' = at(Polling) /\ ChannelHasPoller'
    BY DEF at, IInv, ChannelHasPoller
  <1> QED
    BY <1>1, OthersMove

LEMMA EndSessionKeeps ==
    ASSUME IInv, EndSession
    PROVE  IInv'
  <1>1. /\ polled > 0 /\ sessions > 0 /\ sessions' = sessions - 1 /\ polled' = polled - 1
        /\ taskPermits' = taskPermits - 1
        /\ UNCHANGED <<channel, dispatcher, pollerPermits, stop>>
    BY DEF EndSession, IInv, Types
  <1>2. poller' = poller \/ \E p \in Pollers : moves(p, "Waiting", "Token")
    BY DEF EndSession, addToken
  <1>3. taskPermits >= 1
    BY <1>1, SomeoneHolds
  <1>4. Types'
    <2>1. poller' \in [Pollers -> PollerStates]
      BY <1>2 DEF IInv, Types, moves, PollerStates
    <2>2. taskPermits' \in 0..MaxConcurrentTask /\ polled' \in Nat /\ sessions' \in 0..polled'
      BY <1>1, <1>3, BaseWorkerAssumption DEF IInv, Types
    <2> QED
      BY <1>1, <2>1, <2>2 DEF IInv, Types
  <1>5. at(Holding)' = at(Holding) /\ at(Polling)' = at(Polling)
    BY <1>2 DEF at, Holding, Polling, moves, IInv, Types
  <1>6. ChannelHasPoller'
    BY <1>1, <1>2 DEF IInv, Types, ChannelHasPoller, moves
  <1>7. inLimit' = inLimit /\ inLimit \in Nat /\ polled \in Nat /\ taskPermits \in Int
    BY <1>1, BaseWorkerAssumption DEF inLimit, IInv, Types
  <1>8. inLimit' = inLimit + 0 /\ polled' = polled + (-1) /\ taskPermits' = taskPermits + (0 + (-1))
    BY <1>1, <1>7
  <1> QED
    BY <1>1, <1>4, <1>5, <1>6, <1>7, <1>8, OthersMove

\* The steps that are not a poller's.
LEMMA OtherStepKeeps ==
    ASSUME IInv,
           \/ DispatchResult \/ Dispatch \/ LimiterFails \/ DispatcherReturns
           \/ ResultProcessed \/ TaskProcessed \/ CreateSession
           \/ Tick \/ Clock \/ Stop \/ StopReturns \/ UNCHANGED vars
    PROVE  IInv'
  <1>0. /\ taskPermits \in 0..MaxConcurrentTask /\ MaxConcurrentTask \in Nat
        /\ inLimit \in Nat /\ polled \in Nat /\ sessions \in 0..polled
    BY BaseWorkerAssumption DEF IInv, Types, inLimit
  <1>1. CASE \/ DispatchResult \/ ResultProcessed \/ CreateSession
             \/ Tick \/ Clock \/ Stop \/ StopReturns \/ UNCHANGED vars
    <2>1. UNCHANGED <<poller, channel, dispatcher, polled, taskPermits, pollerPermits>>
      BY <1>1, ZenonT(40) DEF DispatchResult, ResultProcessed, CreateSession, Tick, Clock, Stop,
                  StopReturns, vars, goroutines
    <2>2. sessions' \in 0..polled
      <3>1. sessions' = sessions \/ (sessions < polled /\ sessions' = sessions + 1)
              \/ (sessions > 0 /\ sessions' = sessions - 1)
        BY <1>1, ZenonT(40) DEF DispatchResult, ResultProcessed, CreateSession, Tick, Clock, Stop,
                    StopReturns, vars, goroutines
      <3> QED
        BY <1>0, <3>1
    <2>3. /\ stop' \in {"Running", "Closing", "Canceled", "Awaiting", "Returned"}
          /\ stop' = "Running" => stop = "Running"
      <3>1. \/ stop' = stop \/ stop' = "Returned"
            \/ stop \in DOMAIN StopSteps /\ stop' = StopSteps[stop]
        BY <1>1, ZenonT(40) DEF DispatchResult, ResultProcessed, CreateSession, Tick, Clock, Stop,
                    StopReturns, vars, goroutines
      <3> QED
        BY <3>1 DEF StopSteps, IInv, Types
    <2>4. Types'
      BY <2>1, <2>2, <2>3 DEF IInv, Types
    <2>5. inLimit' = inLimit + 0 /\ polled' = polled + 0 /\ taskPermits' = taskPermits + (0 + 0)
      BY <1>0, <2>1 DEF inLimit
    <2> QED
      BY <1>0, <2>1, <2>3, <2>4, <2>5, OthersMoveAlone
  <1>2. CASE Dispatch
    <2>1. /\ UNCHANGED <<poller, channel, sessions, taskPermits, pollerPermits, stop>>
          /\ dispatcher = "Limit" /\ dispatcher' = "Select" /\ polled' = polled + 1
      BY <1>2 DEF Dispatch
    <2>2. Types'
      BY <2>1 DEF IInv, Types
    <2>3. inLimit' = inLimit + (-1) /\ polled' = polled + 1 /\ taskPermits' = taskPermits + (-1 + 1)
      BY <1>0, <2>1 DEF inLimit
    <2> QED
      BY <1>0, <2>1, <2>2, <2>3, OthersMoveAlone
  <1>3. CASE LimiterFails
    <2>1. /\ UNCHANGED <<poller, channel, sessions, polled, taskPermits, pollerPermits, stop>>
          /\ dispatcher = "Limit" /\ dispatcher' = "Done" /\ stop # "Running"
      BY <1>3 DEF LimiterFails, ctxDone
    <2>2. Types'
      BY <2>1 DEF IInv, Types
    <2>3. inLimit' = inLimit + (-1) /\ polled' = polled + 0 /\ taskPermits' >= taskPermits + (-1 + 0)
      BY <1>0, <2>1 DEF inLimit
    <2> QED
      BY <1>0, <2>1, <2>2, <2>3, OthersMoveAlone
  <1>4. CASE DispatcherReturns
    <2>1. /\ UNCHANGED <<poller, channel, sessions, polled, taskPermits, pollerPermits, stop>>
          /\ dispatcher = "Select" /\ dispatcher' = "Done"
      BY <1>4 DEF DispatcherReturns
    <2>2. Types'
      BY <2>1 DEF IInv, Types
    <2>3. inLimit' = inLimit + 0 /\ polled' = polled + 0 /\ taskPermits' = taskPermits + (0 + 0)
      BY <1>0, <2>1 DEF inLimit
    <2> QED
      BY <1>0, <2>1, <2>2, <2>3, OthersMoveAlone
  <1>5. CASE TaskProcessed
    <2>1. /\ UNCHANGED <<poller, channel, sessions, dispatcher, pollerPermits, stop>>
          /\ polled > sessions /\ polled' = polled - 1 /\ taskPermits' = taskPermits - 1
      BY <1>5 DEF TaskProcessed
    <2>2. taskPermits >= 1
      BY <1>0, <2>1, SomeoneHolds
    <2>3. Types'
      BY <1>0, <2>1, <2>2 DEF IInv, Types
    <2>4. inLimit' = inLimit
      BY <2>1 DEF inLimit
    <2>5. inLimit' = inLimit + 0 /\ polled' = polled + (-1) /\ taskPermits' = taskPermits + (0 + (-1))
      BY <1>0, <2>1, <2>4
    <2> QED
      BY <1>0, <2>1, <2>3, <2>5, OthersMoveAlone
  <1> QED
    BY <1>1, <1>2, <1>3, <1>4, <1>5

-----------------------------------------------------------------------------

LEMMA InitHolds == Init => IInv
  <1> SUFFICES ASSUME Init PROVE IInv
    OBVIOUS
  <1>1. at(Holding) = {} /\ at(Polling) = {} /\ offering = {} /\ inLimit = 0
    BY DEF Init, at, Holding, Polling, offering, inLimit
  <1>2. Cardinality(at(Holding)) = 0 /\ Cardinality(at(Polling)) = 0 /\ Cardinality(offering) = 0
    BY <1>1, FS_EmptySet
  <1>3. PermitsConserved
    BY <1>1, <1>2, HoldersSum DEF Init, PermitsConserved, Polling
  <1>4. Types
    BY BaseWorkerAssumption DEF Init, Types, PollerStates
  <1>5. ChannelHasPoller
    BY DEF Init, ChannelHasPoller
  <1> QED
    BY <1>3, <1>4, <1>5 DEF IInv

LEMMA NextKeeps == IInv /\ [Next]_vars => IInv'
  <1> SUFFICES ASSUME IInv, [Next]_vars PROVE IInv'
    OBVIOUS
  <1>1. CASE \E p \in Pollers : PollerStep(p) \/ ChannelStep(p) \/ SelectShutdown(p)
    BY <1>1, PollerStepKeeps, ChannelStepKeeps
  <1>2. CASE EndSession
    BY <1>2, EndSessionKeeps
  <1>3. CASE ~(\E p \in Pollers : PollerStep(p) \/ ChannelStep(p) \/ SelectShutdown(p)) /\ ~EndSession
    BY <1>3, OtherStepKeeps DEF Next
  <1> QED
    BY <1>1, <1>2, <1>3

\* No path of a poller, the dispatcher, a task or the shutdown loses a permit of
\* a running worker or invents one, for any number of pollers and permits.
THEOREM PermitsAreConserved == Spec => []PermitsConserved
  <1>1. IInv => PermitsConserved
    BY DEF IInv
  <1> QED
    BY <1>1, InitHolds, NextKeeps, PTL DEF Spec

\* A worker never processes more tasks at a time than MaxConcurrentTask, also
\* while it stops.
THEOREM WithinMaximum == Spec => [](polled <= MaxConcurrentTask)
  <1>1. IInv => polled <= MaxConcurrentTask
    <2> SUFFICES ASSUME IInv PROVE polled <= MaxConcurrentTask
      OBVIOUS
    <2>1. /\ Cardinality(at(Holding)) \in Nat /\ Cardinality(offering) \in Nat
          /\ inLimit \in Nat /\ polled \in Nat /\ taskPermits \in 0..MaxConcurrentTask
          /\ MaxConcurrentTask \in Nat
      BY Finite, BaseWorkerAssumption DEF inLimit, IInv, Types
    <2>2. taskPermits >= Cardinality(at(Holding)) + Cardinality(offering) + inLimit + polled
      BY HoldersSum DEF IInv, PermitsConserved
    <2> QED
      BY <2>1, <2>2
  <1> QED
    BY <1>1, InitHolds, NextKeeps, PTL DEF Spec

-----------------------------------------------------------------------------
(* The quota of the poller permit                                          *)

\* What the auto scaler and the pollers keep between them: the quota is one that
\* it may have, and no more permits are out than one of its quotas.
Quotas == {PollerInitCount} \cup PollerMinCount..PollerMaxCount

ScalerInv ==
    /\ enabled \in BOOLEAN
    /\ quota \in Quotas
    /\ QuotaFollowsHints
    /\ pollerPermits \in Int
    /\ pollerPermits <= PollerInitCount \/ pollerPermits <= PollerMaxCount

LEMMA Clamped ==
    ASSUME NEW q \in Int
    PROVE  clamp(q) \in PollerMinCount..PollerMaxCount
  BY AutoScalerAssumption DEF clamp

LEMMA HintKeepsQuota ==
    ASSUME ScalerInv, NEW hint \in Hints, ProcessPollerHint(hint), UNCHANGED pollerPermits
    PROVE  ScalerInv'
  <1>1. CASE hint = None
    BY <1>1 DEF ProcessPollerHint, scaler, ScalerInv, QuotaFollowsHints
  <1>2. CASE hint # None
    <2>1. hint.enable \in BOOLEAN
      BY <1>2 DEF Hints
    <2>2. enabled' = hint.enable
      BY <1>2 DEF ProcessPollerHint
    <2>3. quota' = quota \/ quota' = PollerInitCount
      BY <1>2 DEF ProcessPollerHint, resetConcurrency
    <2>4. ~enabled' => quota' = PollerInitCount
      <3>1. CASE enabled
        BY <1>2, <2>2, <3>1 DEF ProcessPollerHint, resetConcurrency
      <3>2. CASE ~enabled
        BY <2>3, <3>2 DEF ScalerInv, QuotaFollowsHints
      <3> QED
        BY <3>1, <3>2
    <2>5. enabled' \in BOOLEAN
      BY <2>1, <2>2, ZenonT(40)
    <2> QED
      BY <2>3, <2>4, <2>5 DEF ScalerInv, QuotaFollowsHints, Quotas
  <1> QED
    BY <1>1, <1>2

LEMMA TickKeepsQuota ==
    ASSUME ScalerInv, updatePollerPermit, UNCHANGED pollerPermits
    PROVE  ScalerInv'
  <1>1. quota \in Int
    BY AutoScalerAssumption DEF ScalerInv, Quotas
  <1>2. quota' \in PollerMinCount..PollerMaxCount
    <2>1. CASE quota' \in scaleUpPollerPermit
      BY <1>1, <2>1, Clamped, AutoScalerAssumption DEF scaleUpPollerPermit
    <2>2. CASE quota' \in scaleDownPollerPermit
      BY <1>1, <2>2, Clamped DEF scaleDownPollerPermit
    <2> QED
      BY <2>1, <2>2 DEF updatePollerPermit
  <1>3. enabled /\ enabled' = enabled
    BY DEF updatePollerPermit
  <1> QED
    BY <1>2, <1>3 DEF ScalerInv, QuotaFollowsHints, Quotas

\* The pollers take permits below the quota; the other steps take none.
LEMMA NextKeepsQuota == ScalerInv /\ [Next]_vars => ScalerInv'
  <1> SUFFICES ASSUME ScalerInv, [Next]_vars PROVE ScalerInv'
    OBVIOUS
  <1>1. CASE UNCHANGED <<quota, enabled>> /\ pollerPermits' \in {pollerPermits, pollerPermits - 1}
    BY <1>1, AutoScalerAssumption DEF ScalerInv, QuotaFollowsHints
  <1>2. ASSUME NEW p \in Pollers, PollerStep(p) PROVE ScalerInv'
    <2>1. CASE \/ AcquireChan(p) \/ SelectPermit(p) \/ PollerReturns(p) \/ waitForAvailableToken(p)
               \/ PollerPermitFails(p) \/ PollFails(p) \/ Enqueue(p) \/ DropTask(p)
      BY <1>1, <2>1, ZenonT(40) DEF AcquireChan, SelectPermit, PollerReturns, waitForAvailableToken,
                        PollerPermitFails, PollFails, Enqueue, DropTask, scaler
    <2>2. CASE AcquirePollerPermit(p)
      BY <2>2, AutoScalerAssumption
         DEF AcquirePollerPermit, scaler, ScalerInv, QuotaFollowsHints, Quotas
    <2>3. CASE PollSucceeds(p)
      <3>1. UNCHANGED pollerPermits
        BY <2>3 DEF PollSucceeds
      <3>2. CASE UNCHANGED scaler
        BY <1>1, <3>1, <3>2 DEF scaler
      <3>3. CASE \E hint \in Hints : ProcessPollerHint(hint)
        BY <3>1, <3>3, HintKeepsQuota
      <3> QED
        BY <2>3, <3>2, <3>3 DEF PollSucceeds
    <2> QED
      BY <1>2, <2>1, <2>2, <2>3 DEF PollerStep
  <1>3. ASSUME NEW p \in Pollers, ChannelStep(p) \/ SelectShutdown(p) PROVE ScalerInv'
    BY <1>1, <1>3, ZenonT(40) DEF ChannelStep, ChannelAcquires, ChannelFails, ChannelReleases, SelectShutdown, scaler
  <1>4. CASE \/ DispatchResult \/ Dispatch \/ LimiterFails \/ DispatcherReturns \/ ResultProcessed
             \/ TaskProcessed \/ CreateSession \/ EndSession
    BY <1>1, <1>4, ZenonT(40) DEF DispatchResult, Dispatch, LimiterFails, DispatcherReturns, ResultProcessed,
                      TaskProcessed, CreateSession, EndSession, scaler
  <1>5. CASE Tick
    BY <1>5, TickKeepsQuota DEF Tick
  <1>6. CASE Clock \/ Stop \/ StopReturns \/ UNCHANGED vars
    BY <1>1, <1>6, ZenonT(40) DEF Clock, CooldownEnds, Stop, StopReturns, vars, scaler
  <1> QED
    BY <1>2, <1>3, <1>4, <1>5, <1>6 DEF Next

LEMMA AlwaysScalerInv == Spec => []ScalerInv
  <1>1. Init => ScalerInv
    <2> SUFFICES ASSUME Init PROVE ScalerInv
      OBVIOUS
    <2>1. enabled \in BOOLEAN
      BY ZenonT(40) DEF Init, AutoScalerInit
    <2> QED
      BY <2>1, AutoScalerAssumption DEF Init, AutoScalerInit, ScalerInv, QuotaFollowsHints, Quotas
  <1> QED
    BY <1>1, NextKeepsQuota, PTL DEF Spec

\* While no hint has the auto scaler on, the quota is the initial one, and a quota
\* that updatePollerPermit has set is within its limits: whatever the hints say,
\* in whatever order they, the ticks and the pollers come.
THEOREM QuotaAlwaysFollowsHints == Spec => []QuotaFollowsHints
  <1>1. ScalerInv => QuotaFollowsHints
    BY DEF ScalerInv
  <1> QED
    BY <1>1, AlwaysScalerInv, PTL

\* No more pollers poll or offer a task at a time than the larger of the quotas,
\* though the auto scaler resizes the permit while they hold it.
THEOREM PollersWithinQuota ==
    Spec => [](counted({"Poll", "Offer"}) <= PollerInitCount \/ counted({"Poll", "Offer"}) <= PollerMaxCount)
  <1>1. IInv /\ ScalerInv =>
           counted({"Poll", "Offer"}) <= PollerInitCount \/ counted({"Poll", "Offer"}) <= PollerMaxCount
    BY DEF IInv, PermitsConserved, ScalerInv
  <1>2. Spec => []IInv
    BY InitHolds, NextKeeps, PTL DEF Spec
  <1> QED
    BY <1>1, <1>2, AlwaysScalerInv, PTL
=============================================================================
