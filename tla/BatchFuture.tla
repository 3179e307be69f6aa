---------------------------- MODULE BatchFuture -----------------------------
(***************************************************************************)
(* internal/batch/batch_future.go: a submitter, a processor and one        *)
(* coroutine per factory start the futures of the factories, at most       *)
(* batchSize at a time, and chain each to the future that the caller got.  *)
(* The coroutines are scheduled in any order here, which includes the      *)
(* dispatcher's.                                                           *)
(***************************************************************************)
EXTENDS Futures

CONSTANTS factories,     \* number of factories
          batchSize,
          Getters,       \* coroutines that call Get of the batch future
          ReadyAtOnce    \* factories whose future may be ready when it is returned

Index == 1..factories

ASSUME BatchAssumption ==
    /\ factories \in Nat /\ batchSize \in Nat \ {0}
    /\ ReadyAtOnce \subseteq Index
    /\ WaitGroups = {"wg", "wgForFutures"}
    /\ Futures = {"batch", "own"} \X Index

\* The future that NewBatchFuture made for factory i, and the factory's own.
batch(i) == <<"batch", i>>
own(i) == <<"own", i>>

VARIABLES
    submitter,   \* [at, i]: what the submitter does next, for factory i
    semaphore,   \* values in the buffered channel
    workChan,    \* the index that the submitter offers, 0 for none, or
                 \* factories + 1 when the channel is closed
    processor,   \* "Receive", "Waiting", "Waited" or "Done"
    worker,      \* one coroutine for each factory
    getter       \* the index of the Get that each caller is in, and its state

batchVars == <<futures, waitGroups, panicked, submitter, semaphore, workChan, processor, worker, getter>>

\* NewBatchFuture: start() adds both coroutines to the wait group.
BatchInit ==
    /\ FuturesInit([w \in WaitGroups |-> IF w = "wg" THEN 2 ELSE 0])
    /\ submitter = [at |-> "Semaphore", i |-> 1]
    /\ semaphore = 0
    /\ workChan = 0
    /\ processor = "Receive"
    /\ worker = [i \in Index |-> "None"]
    /\ getter = [g \in Getters |-> <<0, "Start">>]

-----------------------------------------------------------------------------
(* The submitter.                                                          *)

\* semaphore.Send
SubmitterSemaphore ==
    /\ submitter.at = "Semaphore" /\ submitter.i \in Index
    /\ semaphore < batchSize
    /\ semaphore' = semaphore + 1
    /\ submitter' = [submitter EXCEPT !.at = "Work"]
    /\ UNCHANGED <<futures, waitGroups, panicked, workChan, processor, worker, getter>>

\* workChan.Send, up to the point where it blocks: the channel has no buffer.
SubmitterOffer ==
    /\ submitter.at = "Work" /\ workChan = 0
    /\ workChan' = submitter.i
    /\ UNCHANGED <<futures, waitGroups, panicked, submitter, semaphore, processor, worker, getter>>

\* After the last factory: workChan.Close and the deferred wg.Done.
SubmitterClose ==
    /\ submitter.at = "Semaphore" /\ submitter.i = factories + 1
    /\ submitter' = [submitter EXCEPT !.at = "Done"]
    /\ workChan' = factories + 1
    /\ Add("wg", -1)
    /\ UNCHANGED <<semaphore, processor, worker, getter>>

-----------------------------------------------------------------------------
(* The processor.                                                          *)

\* workChan.Receive gets the offered index; a coroutine is created for it.
ProcessorReceive ==
    /\ processor = "Receive" /\ workChan \in Index
    /\ workChan' = 0
    /\ submitter' = [at |-> "Semaphore", i |-> submitter.i + 1]
    /\ Add("wgForFutures", 1)
    /\ worker' = [worker EXCEPT ![workChan] = "Start"]
    /\ UNCHANGED <<semaphore, processor, getter>>

\* Mutant: the processor does not wait for the coroutines it created.
ProcessorSkipsWait ==
    /\ processor = "Receive" /\ workChan = factories + 1
    /\ processor' = "Waited"
    /\ UNCHANGED <<futures, waitGroups, panicked, submitter, semaphore, workChan, worker, getter>>

\* The channel is closed: wgForFutures.Wait.
ProcessorClosed ==
    /\ processor = "Receive" /\ workChan = factories + 1
    /\ IF WaitReturnsAtOnce("wgForFutures")
       THEN processor' = "Waited" /\ UNCHANGED <<futures, waitGroups, panicked>>
       ELSE processor' = "Waiting" /\ Wait("wgForFutures")
    /\ UNCHANGED <<submitter, semaphore, workChan, worker, getter>>

ProcessorWaited ==
    /\ processor = "Waiting"
    /\ WaitReturns("wgForFutures")
    /\ processor' = "Waited"
    /\ UNCHANGED <<submitter, semaphore, workChan, worker, getter>>

\* The deferred wg.Done.
ProcessorDone ==
    /\ processor = "Waited"
    /\ processor' = "Done"
    /\ Add("wg", -1)
    /\ UNCHANGED <<submitter, semaphore, workChan, worker, getter>>

-----------------------------------------------------------------------------
(* The coroutine of factory i.                                             *)

\* The factory returns a future that is already set (as ExecuteActivity does
\* when it rejects its arguments): its value is there before it is chained.
FactoryReady(i) ==
    /\ worker[i] = "Start" /\ i \in ReadyAtOnce /\ own(i) \notin ready
    /\ Set(own(i), i)
    /\ UNCHANGED <<submitter, semaphore, workChan, processor, worker, getter>>

WorkerStart(i) ==
    /\ worker[i] = "Start"
    /\ Chain(batch(i), own(i))
    /\ worker' = [worker EXCEPT ![i] = "Get"]
    /\ UNCHANGED <<submitter, semaphore, workChan, processor, getter>>

\* f.Get, semaphore.Receive and the deferred wgForFutures.Done.
WorkerDone(i) ==
    /\ worker[i] = "Get" /\ Get(own(i)) /\ semaphore > 0
    /\ semaphore' = semaphore - 1
    /\ worker' = [worker EXCEPT ![i] = "Done"]
    /\ Add("wgForFutures", -1)
    /\ UNCHANGED <<submitter, workChan, processor, getter>>

\* What the factory started comes to its end.
Resolve(i) ==
    /\ worker[i] = "Get" /\ own(i) \notin ready
    /\ Set(own(i), i)
    /\ UNCHANGED <<submitter, semaphore, workChan, processor, worker, getter>>

-----------------------------------------------------------------------------
(* BatchFuture.Get: wait for the wait group, then Get every future in turn. *)

GetterWait(g) ==
    /\ getter[g][2] = "Start"
    /\ IF WaitReturnsAtOnce("wg")
       THEN getter' = [getter EXCEPT ![g] = <<1, "Get">>] /\ UNCHANGED <<futures, waitGroups, panicked>>
       ELSE getter' = [getter EXCEPT ![g] = <<0, "Waiting">>] /\ Wait("wg")
    /\ UNCHANGED <<submitter, semaphore, workChan, processor, worker>>

GetterWaited(g) ==
    /\ getter[g][2] = "Waiting"
    /\ WaitReturns("wg")
    /\ getter' = [getter EXCEPT ![g] = <<1, "Get">>]
    /\ UNCHANGED <<submitter, semaphore, workChan, processor, worker>>

GetterGet(g) ==
    LET i == getter[g][1] IN
    /\ getter[g][2] = "Get" /\ i \in Index /\ Get(batch(i))
    /\ getter' = [getter EXCEPT ![g] = <<i + 1, "Get">>]
    /\ UNCHANGED <<futures, waitGroups, panicked, submitter, semaphore, workChan, processor, worker>>

GetterDone(g) ==
    /\ getter[g] = <<factories + 1, "Get">>
    /\ getter' = [getter EXCEPT ![g] = <<0, "Done">>]
    /\ UNCHANGED <<futures, waitGroups, panicked, submitter, semaphore, workChan, processor, worker>>

Coroutines ==
    \/ SubmitterSemaphore \/ SubmitterOffer \/ SubmitterClose
    \/ ProcessorReceive \/ ProcessorClosed \/ ProcessorWaited \/ ProcessorDone
    \/ \E i \in Index : FactoryReady(i) \/ WorkerStart(i) \/ WorkerDone(i)
    \/ \E g \in Getters : GetterWait(g) \/ GetterWaited(g) \/ GetterGet(g) \/ GetterDone(g)

BatchNext == Coroutines \/ \E i \in Index : Resolve(i)

BatchSpec == BatchInit /\ [][BatchNext]_batchVars

\* A coroutine that can run is run, and what a factory started ends.
BatchFairness ==
    /\ WF_batchVars(Coroutines)
    /\ \A i \in Index : WF_batchVars(Resolve(i))

-----------------------------------------------------------------------------
(* Properties.                                                             *)

\* Each result appears in the future of its own index, and the batch is waited
\* for: when Get reads the futures, all the coroutines of the batch are done.
GetSeesResults ==
    /\ \A i \in Index : batch(i) \in ready => value[batch(i)] = value[own(i)]
    /\ \A g \in Getters : getter[g][2] = "Get" =>
          \A i \in Index : worker[i] = "Done" /\ batch(i) \in ready

\* The coroutines of a batch, and a caller of its Get, do not panic.
NeverPanics == ~panicked

\* IsReady tells that Get does not block.
ReadyMeansGet == \A f \in Futures : f \in ready => Get(f)

\* A factory has returned a future that is ready before it is chained.
returnedReady == \E i \in Index : worker[i] = "Start" /\ own(i) \in ready

\* Get of the batch returns once what the factories started has ended, unless a
\* factory's future was ready at once: Chain leaves the channel of the batch's
\* future open then.
GetReturns == \A g \in Getters : <>(getter[g][2] = "Done" \/ returnedReady)

\* The comment on BatchFuture.Get, without the exception.
GetAlwaysReturns == \A g \in Getters : <>(getter[g][2] = "Done")
=============================================================================
