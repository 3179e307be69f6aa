---------------------------- MODULE LibraryProofs ----------------------------
(***************************************************************************)
(* internal/batch/batch_future.go for every number of factories, every     *)
(* batch size and every set of callers: Get of a batch sees the results of *)
(* its factories.                                                          *)
(***************************************************************************)
EXTENDS BatchFuture, TLAPS

USE SMTT(40)

-----------------------------------------------------------------------------
(***************************************************************************)
(* The batch future.                                                       *)
(***************************************************************************)

running == {i \in Index : worker[i] \in {"Start", "Get"}}

\* The set S has k elements: a list of length k has each of them once.
lists(q, k, S) ==
    /\ q \in [1..k -> S]
    /\ \A a, b \in 1..k : q[a] = q[b] => a = b
    /\ \A x \in S : \E a \in 1..k : q[a] = x
HasSize(S, k) == k \in Nat /\ \E q : lists(q, k, S)

BatchTypeOK ==
    /\ ready \subseteq Futures /\ closed \subseteq ready
    /\ value \in [Futures -> Index \cup {None}]
    /\ chained \in [Futures -> Seq(Futures)]
    /\ n \in [WaitGroups -> Int]
    /\ waiting \in [WaitGroups -> BOOLEAN] /\ released \in [WaitGroups -> BOOLEAN]
    /\ submitter \in [at : {"Semaphore", "Work", "Done"}, i : 1..(factories + 1)]
    /\ workChan \in 0..(factories + 1)
    /\ worker \in [Index -> {"None", "Start", "Get", "Done"}]
    /\ getter \in [Getters -> (0..(factories + 1)) \X {"Start", "Waiting", "Get", "Done"}]

\* The future of the caller takes its value from the factory's, once both are ready.
Chained ==
    \A i \in Index :
        /\ chained[batch(i)] = <<>>
        /\ chained[own(i)] = <<>> \/ chained[own(i)] = <<batch(i)>>
        /\ worker[i] \in {"None", "Start"} => batch(i) \notin ready /\ chained[own(i)] = <<>>
        /\ worker[i] \in {"Get", "Done"} =>
              IF own(i) \in ready THEN batch(i) \in ready ELSE chained[own(i)] = <<batch(i)>>
        /\ worker[i] = "Done" => own(i) \in ready
        /\ batch(i) \in ready => value[batch(i)] = value[own(i)]

\* What the submitter and the processor have done.
Submitted ==
    /\ submitter.at = "Work" => submitter.i \in Index
    /\ submitter.at = "Done" => submitter.i = factories + 1
    /\ submitter.at = "Done" <=> workChan = factories + 1
    /\ workChan \in Index => submitter.at = "Work" /\ workChan = submitter.i
    /\ \A i \in Index : worker[i] = "None" <=> i >= submitter.i
    /\ processor # "Receive" => submitter.at = "Done"
    /\ processor \in {"Waited", "Done"} => \A i \in Index : worker[i] = "Done"
    /\ \A g \in Getters : getter[g][2] = "Get" => processor = "Done"

\* The wait groups count the coroutines that are not done.
Counts ==
    /\ n["wg"] = (IF submitter.at = "Done" THEN 0 ELSE 1) + (IF processor = "Done" THEN 0 ELSE 1)
    /\ HasSize(running, n["wgForFutures"])
    /\ released["wg"] => n["wg"] = 0
    /\ released["wgForFutures"] => n["wgForFutures"] = 0 /\ submitter.at = "Done"
    /\ waiting["wgForFutures"] => submitter.at = "Done"

BatchInv == BatchTypeOK /\ Chained /\ Submitted /\ Counts

LEMMA Names ==
    /\ \A i \in Index : own(i) \in Futures /\ batch(i) \in Futures
    /\ \A i, j \in Index : own(i) # batch(j)
    /\ \A i, j \in Index : (own(i) = own(j) => i = j) /\ (batch(i) = batch(j) => i = j)
    /\ WaitGroups = {"wg", "wgForFutures"} /\ factories \in Nat
BY BatchAssumption DEF BatchAssumption, own, batch

LEMMA Reaches ==
    ASSUME BatchTypeOK, Chained, NEW i \in Index
    PROVE  reached(own(i)) = {own(i)} \cup (IF chained[own(i)] = <<>> THEN {} ELSE {batch(i)})
<1>. DEFINE R == {own(i)} \cup (IF chained[own(i)] = <<>> THEN {} ELSE {batch(i)})
<1>1. R \subseteq Futures /\ own(i) \in R
  BY Names
<1>2. \A h \in R : \A j \in 1..Len(chained[h]) : chained[h][j] \in R
  <2>1. CASE chained[own(i)] = <<>>
    BY <2>1
  <2>2. CASE chained[own(i)] = <<batch(i)>>
    <3>1. R = {own(i), batch(i)}
      BY <2>2
    <3>2. chained[batch(i)] = <<>>
      BY DEF Chained
    <3>. QED
      BY <2>2, <3>1, <3>2
  <2>. QED
    BY <2>1, <2>2, ZenonT(40) DEF Chained
<1>3. reached(own(i)) \subseteq R
  BY <1>1, <1>2, ZenonT(40) DEF reached
<1>4. ASSUME NEW S \in SUBSET Futures, own(i) \in S,
             \A h \in S : \A j \in 1..Len(chained[h]) : chained[h][j] \in S
      PROVE  R \subseteq S
  <2>1. CASE chained[own(i)] = <<>>
    BY <1>4, <2>1
  <2>2. CASE chained[own(i)] = <<batch(i)>>
    <3>1. Len(chained[own(i)]) = 1 /\ chained[own(i)][1] = batch(i)
      BY <2>2
    <3>2. 1 \in 1..Len(chained[own(i)])
      BY <3>1
    <3>3. batch(i) \in S
      BY <1>4, <3>1, <3>2, ZenonT(40)
    <3>. QED
      BY <1>4, <3>3
  <2>. QED
    BY <2>1, <2>2, ZenonT(40) DEF Chained
<1>. HIDE DEF R
<1>5. R \subseteq reached(own(i))
  BY <1>1, <1>4, ZenonT(40) DEF reached
<1>6. reached(own(i)) = R
  BY <1>3, <1>5
<1>. QED
  BY <1>6 DEF R

\* What is left of BatchInv when a step changes no future.
LEMMA FuturesStay ==
    ASSUME Chained, UNCHANGED futures, worker' = worker
    PROVE  Chained'
BY ZenonT(40) DEF Chained, futures

\* The Set of the factory's future: Set may panic, and changes nothing then.
LEMMA SetStep ==
    ASSUME BatchInv, NEW i \in Index, Set(own(i), i), own(i) \notin ready,
           UNCHANGED <<submitter, workChan, processor, worker, getter>>
    PROVE  BatchInv'
<1>. DEFINE R == reached(own(i))
<1>0. BatchTypeOK /\ Chained /\ Submitted /\ Counts
  BY DEF BatchInv
<1>1. CASE Panics
  <2>1. UNCHANGED <<futures, waitGroups>>
    BY <1>1 DEF Panics
  <2>2. BatchTypeOK'
    BY <1>0, <2>1, ZenonT(40) DEF BatchTypeOK, futures, waitGroups
  <2>3. Chained'
    BY <1>0, <2>1, FuturesStay
  <2>4. Submitted'
    BY <1>0, ZenonT(40) DEF Submitted
  <2>5. Counts'
    BY <1>0, <2>1, ZenonT(40) DEF Counts, waitGroups, running
  <2>. QED
    BY <2>2, <2>3, <2>4, <2>5 DEF BatchInv
<1>2. CASE ~Panics
  <2>1. /\ ready' = ready \cup R /\ closed' = closed \cup R
        /\ value' = [g \in Futures |-> IF g \in R THEN i ELSE value[g]]
        /\ UNCHANGED <<chained, waitGroups, panicked>>
    BY <1>2, ZenonT(40) DEF Set
  <2>2. R = {own(i)} \cup (IF chained[own(i)] = <<>> THEN {} ELSE {batch(i)})
    BY <1>0, Reaches
  <2>. HIDE DEF R
  <2>3. R \subseteq Futures
    BY <2>2, Names
  <2>4. BatchTypeOK'
    BY <1>0, <2>1, <2>3, ZenonT(40) DEF BatchTypeOK, waitGroups
  <2>5. Submitted'
    BY <1>0, ZenonT(40) DEF Submitted
  <2>6. Counts'
    BY <1>0, <2>1, ZenonT(40) DEF Counts, waitGroups, running
  <2>7. Chained'
    <3>. SUFFICES ASSUME NEW j \in Index
                  PROVE  /\ chained[batch(j)] = <<>>
                         /\ chained[own(j)] = <<>> \/ chained[own(j)] = <<batch(j)>>
                         /\ worker[j] \in {"None", "Start"} => batch(j) \notin ready' /\ chained[own(j)] = <<>>
                         /\ worker[j] \in {"Get", "Done"} =>
                               IF own(j) \in ready' THEN batch(j) \in ready' ELSE chained[own(j)] = <<batch(j)>>
                         /\ worker[j] = "Done" => own(j) \in ready'
                         /\ batch(j) \in ready' => value'[batch(j)] = value'[own(j)]
      BY <2>1, ZenonT(40) DEF Chained
    <3>1. CASE j # i
      <4>1. own(j) \notin R /\ batch(j) \notin R
        BY <2>2, <3>1, Names, ZenonT(40)
      <4>2. value'[batch(j)] = value[batch(j)] /\ value'[own(j)] = value[own(j)]
        BY <2>1, <4>1, Names, ZenonT(40)
      <4>3. (own(j) \in ready' <=> own(j) \in ready) /\ (batch(j) \in ready' <=> batch(j) \in ready)
        BY <2>1, <4>1
      <4>. QED
        BY <1>0, <4>2, <4>3, ZenonT(40) DEF Chained
    <3>2. CASE j = i
      <4>0. worker[i] \in {"None", "Start", "Get", "Done"} /\ <<batch(i)>> # <<>>
        BY <1>0 DEF BatchTypeOK
      <4>1. own(i) \in ready' /\ value'[own(i)] = i
        BY <2>1, <2>2, Names, ZenonT(40)
      <4>2. CASE chained[own(i)] = <<>>
        <5>1. batch(i) \notin R
          BY <2>2, <4>2, Names, ZenonT(40)
        <5>2. worker[i] \in {"None", "Start"} /\ batch(i) \notin ready
          BY <1>0, <4>0, <4>2, ZenonT(40) DEF Chained
        <5>. QED
          BY <1>0, <2>1, <3>2, <4>1, <4>2, <5>1, <5>2, ZenonT(40) DEF Chained
      <4>3. CASE chained[own(i)] # <<>>
        <5>1. batch(i) \in ready' /\ value'[batch(i)] = i
          BY <2>1, <2>2, <4>3, Names, ZenonT(40)
        <5>2. worker[i] \in {"Get", "Done"}
          BY <1>0, <4>0, <4>3, ZenonT(40) DEF Chained
        <5>. QED
          BY <1>0, <3>2, <4>1, <4>3, <5>1, <5>2, ZenonT(40) DEF Chained
      <4>. QED
        BY <4>2, <4>3, ZenonT(40)
    <3>. QED
      BY <3>1, <3>2, ZenonT(40)
  <2>. QED
    BY <2>4, <2>5, <2>6, <2>7 DEF BatchInv
<1>. QED
  BY <1>1, <1>2

\* Add, when it does not panic.
LEMMA Adds ==
    ASSUME BatchTypeOK, NEW w \in WaitGroups, NEW d \in Int, Add(w, d),
           n[w] + d >= 0, released[w] => n[w] + d # 0
    PROVE  /\ n' \in [WaitGroups -> Int] /\ n'[w] = n[w] + d
           /\ released' \in [WaitGroups -> BOOLEAN]
           /\ released'[w] => released[w] \/ (n[w] + d = 0 /\ waiting[w])
           /\ \A v \in WaitGroups : v # w => n'[v] = n[v] /\ released'[v] = released[v]
           /\ waiting' = waiting /\ UNCHANGED futures
<1>1. /\ n' = [n EXCEPT ![w] = @ + d]
      /\ released' = [released EXCEPT ![w] = @ \/ (n[w] + d = 0 /\ waiting[w])]
      /\ UNCHANGED <<waiting, futures, panicked>>
  <2>1. n[w] \in Int
    BY DEF BatchTypeOK
  <2>2. ~(n[w] + d < 0) /\ ~(n[w] + d = 0 /\ waiting[w] /\ released[w])
    BY <2>1
  <2>. QED
    BY <2>2, ZenonT(40) DEF Add
<1>2. n' \in [WaitGroups -> Int] /\ n'[w] = n[w] + d /\ \A v \in WaitGroups : v # w => n'[v] = n[v]
  BY <1>1 DEF BatchTypeOK
<1>3. /\ released' \in [WaitGroups -> BOOLEAN]
      /\ released'[w] = (released[w] \/ (n[w] + d = 0 /\ waiting[w]))
      /\ \A v \in WaitGroups : v # w => released'[v] = released[v]
  BY <1>1, ZenonT(40) DEF BatchTypeOK
<1>. QED
  BY <1>1, <1>2, <1>3, ZenonT(40)

\* Counting: HasSize of the empty set, of a set with one more or one less.
LEMMA SizeOfEmpty ==
    /\ HasSize({}, 0)
    /\ \A S, k : HasSize(S, k) => k \in Nat /\ (k = 0 <=> S = {})
<1>1. HasSize({}, 0)
  <2>. DEFINE q == [a \in 1..0 |-> 0]
  <2>1. lists(q, 0, {}) /\ 0 \in Nat
    BY DEF lists
  <2>. QED
    BY <2>1, ZenonT(40) DEF HasSize
<1>2. ASSUME NEW S, NEW k, HasSize(S, k)
      PROVE  k \in Nat /\ (k = 0 <=> S = {})
  <2>1. PICK q : lists(q, k, S) /\ k \in Nat
    BY <1>2 DEF HasSize
  <2>. QED
    BY <2>1 DEF lists
<1>. QED
  BY <1>1, <1>2, ZenonT(40)

LEMMA SizeOfOneMore ==
    ASSUME NEW S, NEW k, HasSize(S, k), NEW x, x \notin S
    PROVE  HasSize(S \cup {x}, k + 1)
<1>1. PICK q : lists(q, k, S) /\ k \in Nat
  BY DEF HasSize
<1>. DEFINE r == [a \in 1..(k + 1) |-> IF a = k + 1 THEN x ELSE q[a]]
<1>2. r \in [1..(k + 1) -> S \cup {x}]
  BY <1>1 DEF lists
<1>3. \A a, b \in 1..(k + 1) : r[a] = r[b] => a = b
  BY <1>1 DEF lists
<1>4. \A y \in S \cup {x} : \E a \in 1..(k + 1) : r[a] = y
  <2>1. r[k + 1] = x /\ k + 1 \in 1..(k + 1)
    BY <1>1
  <2>2. \A a \in 1..k : r[a] = q[a] /\ a \in 1..(k + 1)
    BY <1>1
  <2>. QED
    BY <1>1, <2>1, <2>2, ZenonT(40) DEF lists
<1>. HIDE DEF r
<1>5. lists(r, k + 1, S \cup {x}) /\ k + 1 \in Nat
  BY <1>1, <1>2, <1>3, <1>4 DEF lists
<1>. QED
  BY <1>5, ZenonT(40) DEF HasSize

LEMMA SizeOfOneLess ==
    ASSUME NEW S, NEW k, HasSize(S, k), NEW x \in S
    PROVE  HasSize(S \ {x}, k - 1)
<1>1. PICK q : lists(q, k, S) /\ k \in Nat
  BY DEF HasSize
<1>2. PICK c \in 1..k : q[c] = x
  BY <1>1 DEF lists
<1>. DEFINE r == [a \in 1..(k - 1) |-> IF a = c THEN q[k] ELSE q[a]]
<1>3. r \in [1..(k - 1) -> S \ {x}]
  BY <1>1, <1>2 DEF lists
<1>4. \A a, b \in 1..(k - 1) : r[a] = r[b] => a = b
  BY <1>1, <1>2 DEF lists
<1>5. \A y \in S \ {x} : \E a \in 1..(k - 1) : r[a] = y
  <2>. SUFFICES ASSUME NEW y \in S \ {x}
                PROVE  \E a \in 1..(k - 1) : r[a] = y
    OBVIOUS
  <2>1. PICK b \in 1..k : q[b] = y
    BY <1>1 DEF lists
  <2>2. CASE b = k
    <3>1. c \in 1..(k - 1) /\ r[c] = y
      BY <1>1, <1>2, <2>1, <2>2
    <3>. QED
      BY <3>1
  <2>3. CASE b # k
    <3>1. b \in 1..(k - 1) /\ r[b] = y
      BY <1>1, <1>2, <2>1, <2>3
    <3>. QED
      BY <3>1
  <2>. QED
    BY <2>2, <2>3
<1>. HIDE DEF r
<1>6. lists(r, k - 1, S \ {x}) /\ k - 1 \in Nat
  BY <1>1, <1>2, <1>3, <1>4, <1>5 DEF lists
<1>. QED
  BY <1>6, ZenonT(40) DEF HasSize

\* The steps of a worker.
LEMMA WorkerStartStep ==
    ASSUME BatchInv, NEW i \in Index, WorkerStart(i)
    PROVE  BatchInv'
<1>0. BatchTypeOK /\ Chained /\ Submitted /\ Counts
  BY DEF BatchInv
<1>1. /\ worker[i] = "Start" /\ worker' = [worker EXCEPT ![i] = "Get"]
      /\ UNCHANGED <<submitter, semaphore, workChan, processor, getter>>
      /\ own(i) \in Futures /\ batch(i) \in Futures
      /\ batch(i) \notin ready /\ chained[own(i)] = <<>>
  BY <1>0, Names, ZenonT(40) DEF WorkerStart, Chained
<1>2. /\ worker' \in [Index -> {"None", "Start", "Get", "Done"}] /\ worker'[i] = "Get"
      /\ \A j \in Index : j # i => worker'[j] = worker[j]
      /\ running' = running
  BY <1>0, <1>1, ZenonT(40) DEF BatchTypeOK, running
<1>3. Submitted'
  BY <1>0, <1>1, <1>2, ZenonT(40) DEF Submitted
<1>4. CASE own(i) \notin ready
  <2>1. /\ chained' = [chained EXCEPT ![own(i)] = Append(@, batch(i))]
        /\ UNCHANGED <<ready, closed, value, waitGroups, panicked>>
    BY <1>1, <1>4 DEF WorkerStart, Chain
  <2>2. /\ chained' \in [Futures -> Seq(Futures)] /\ chained'[own(i)] = <<batch(i)>>
        /\ \A f \in Futures : f # own(i) => chained'[f] = chained[f]
    <3>1. chained \in [Futures -> Seq(Futures)] /\ Append(<<>>, batch(i)) = <<batch(i)>>
      BY <1>0 DEF BatchTypeOK
    <3>. QED
      BY <1>1, <2>1, <3>1
  <2>3. BatchTypeOK'
    BY <1>0, <1>1, <1>2, <2>1, <2>2, ZenonT(40) DEF BatchTypeOK, waitGroups
  <2>4. Counts'
    BY <1>0, <1>1, <1>2, <2>1, ZenonT(40) DEF Counts, waitGroups
  <2>5. Chained'
    BY <1>0, <1>1, <1>2, <1>4, <2>1, <2>2, Names DEF Chained
  <2>. QED
    BY <1>3, <2>3, <2>4, <2>5 DEF BatchInv
<1>5. CASE own(i) \in ready
  <2>1. /\ ready' = ready \cup {batch(i)} /\ value' = [value EXCEPT ![batch(i)] = value[own(i)]]
        /\ UNCHANGED <<closed, chained, waitGroups, panicked>>
    BY <1>1, <1>5 DEF WorkerStart, Chain
  <2>2. /\ value' \in [Futures -> Index \cup {None}] /\ value'[batch(i)] = value[own(i)]
        /\ \A f \in Futures : f # batch(i) => value'[f] = value[f]
    BY <1>0, <1>1, <2>1, ZenonT(40) DEF BatchTypeOK
  <2>3. BatchTypeOK'
    BY <1>0, <1>1, <1>2, <2>1, <2>2, ZenonT(40) DEF BatchTypeOK, waitGroups
  <2>4. Counts'
    BY <1>0, <1>1, <1>2, <2>1, ZenonT(40) DEF Counts, waitGroups
  <2>5. Chained'
    BY <1>0, <1>1, <1>2, <1>5, <2>1, <2>2, Names DEF Chained
  <2>. QED
    BY <1>3, <2>3, <2>4, <2>5 DEF BatchInv
<1>. QED
  BY <1>4, <1>5

LEMMA WorkerDoneStep ==
    ASSUME BatchInv, NEW i \in Index, WorkerDone(i)
    PROVE  BatchInv'
<1>. DEFINE w == "wgForFutures"
<1>0. BatchTypeOK /\ Chained /\ Submitted /\ Counts
  BY DEF BatchInv
<1>1. /\ worker[i] = "Get" /\ worker' = [worker EXCEPT ![i] = "Done"] /\ own(i) \in ready
      /\ UNCHANGED <<submitter, workChan, processor, getter>> /\ Add(w, -1)
  BY <1>0 DEF WorkerDone, BatchTypeOK, Get
<1>2. /\ worker' \in [Index -> {"None", "Start", "Get", "Done"}] /\ worker'[i] = "Done"
      /\ \A j \in Index : j # i => worker'[j] = worker[j]
      /\ running' = running \ {i} /\ i \in running
  BY <1>0, <1>1, ZenonT(40) DEF BatchTypeOK, running
<1>3. HasSize(running, n[w]) /\ n[w] \in Nat /\ n[w] # 0
  <2>1. HasSize(running, n[w])
    BY <1>0 DEF Counts
  <2>. QED
    BY <1>2, <2>1, SizeOfEmpty, ZenonT(40)
<1>4. HasSize(running', n[w] - 1) /\ ~released[w] /\ w \in WaitGroups /\ -1 \in Int
  <2>1. HasSize(running', n[w] - 1)
    BY <1>2, <1>3, SizeOfOneLess
  <2>. QED
    BY <1>0, <1>3, <2>1, Names DEF Counts
<1>5. /\ n' \in [WaitGroups -> Int] /\ n'[w] = n[w] + -1
      /\ released' \in [WaitGroups -> BOOLEAN]
      /\ released'[w] => released[w] \/ (n[w] + -1 = 0 /\ waiting[w])
      /\ \A v \in WaitGroups : v # w => n'[v] = n[v] /\ released'[v] = released[v]
      /\ waiting' = waiting /\ UNCHANGED futures
  <2>1. n[w] + -1 >= 0 /\ (released[w] => n[w] + -1 # 0)
    BY <1>3, <1>4
  <2>. QED
    BY <1>0, <1>1, <1>4, <2>1, Adds, ZenonT(40)
<1>6. BatchTypeOK'
  BY <1>0, <1>1, <1>2, <1>5, ZenonT(40) DEF BatchTypeOK, futures
<1>7. Chained'
  BY <1>0, <1>1, <1>2, <1>5, ZenonT(40) DEF Chained, futures
<1>8. Submitted'
  BY <1>0, <1>1, <1>2, ZenonT(40) DEF Submitted
<1>9. Counts'
  <2>1. n'[w] = n[w] - 1
    BY <1>3, <1>5
  <2>. QED
    BY <1>0, <1>1, <1>3, <1>4, <1>5, <2>1, Names, ZenonT(40) DEF Counts
<1>. QED
  BY <1>6, <1>7, <1>8, <1>9 DEF BatchInv

\* The steps of the submitter and of the processor.
LEMMA SubmitterStep ==
    ASSUME BatchInv, SubmitterSemaphore \/ SubmitterOffer
    PROVE  BatchInv'
<1>0. BatchTypeOK /\ Chained /\ Submitted /\ Counts
  BY DEF BatchInv
<1>1. /\ UNCHANGED <<futures, waitGroups, processor, worker, getter>>
      /\ submitter.at # "Done" /\ submitter.i \in Index /\ submitter'.at = "Work" /\ submitter'.i = submitter.i
      /\ submitter' \in [at : {"Semaphore", "Work", "Done"}, i : 1..(factories + 1)]
      /\ workChan' = workChan \/ workChan' = submitter.i
      /\ workChan' \in Index => workChan' = submitter.i
  <2>1. submitter \in [at : {"Semaphore", "Work", "Done"}, i : 1..(factories + 1)]
    BY <1>0 DEF BatchTypeOK
  <2>2. CASE SubmitterSemaphore
    BY <1>0, <2>1, <2>2, ZenonT(40) DEF SubmitterSemaphore, Submitted
  <2>3. CASE SubmitterOffer
    BY <1>0, <2>1, <2>3, ZenonT(40) DEF SubmitterOffer, Submitted
  <2>. QED
    BY <2>2, <2>3, ZenonT(40)
<1>2. BatchTypeOK'
  <2>1. workChan' \in 0..(factories + 1)
    BY <1>0, <1>1, Names DEF BatchTypeOK, Index
  <2>. QED
    BY <1>0, <1>1, <2>1, ZenonT(40) DEF BatchTypeOK, futures, waitGroups
<1>3. Chained'
  BY <1>0, <1>1, FuturesStay
<1>4. Submitted'
  BY <1>0, <1>1, Names DEF Submitted, BatchTypeOK, Index
<1>5. Counts'
  BY <1>0, <1>1, ZenonT(40) DEF Counts, waitGroups, running
<1>. QED
  BY <1>2, <1>3, <1>4, <1>5 DEF BatchInv

\* The submitter or the processor is done.
LEMMA DoneStep ==
    ASSUME BatchInv, SubmitterClose \/ ProcessorDone
    PROVE  BatchInv'
<1>. DEFINE w == "wg"
<1>0. BatchTypeOK /\ Chained /\ Submitted /\ Counts
  BY DEF BatchInv
<1>1. UNCHANGED <<worker, getter>> /\ Add(w, -1) /\ w \in WaitGroups /\ -1 \in Int
  BY Names DEF SubmitterClose, ProcessorDone
<1>2. n[w] \in {1, 2} /\ (n[w] + -1 >= 0) /\ (released[w] => n[w] + -1 # 0) /\ ~released[w]
  BY <1>0 DEF SubmitterClose, ProcessorDone, Counts
<1>3. /\ n' \in [WaitGroups -> Int] /\ n'[w] = n[w] + -1
      /\ released' \in [WaitGroups -> BOOLEAN]
      /\ released'[w] => released[w] \/ (n[w] + -1 = 0 /\ waiting[w])
      /\ \A v \in WaitGroups : v # w => n'[v] = n[v] /\ released'[v] = released[v]
      /\ waiting' = waiting /\ UNCHANGED futures
  BY <1>0, <1>1, <1>2, Adds, ZenonT(40)
<1>4. Chained'
  BY <1>0, <1>1, <1>3, FuturesStay
<1>5. CASE SubmitterClose
  <2>1. /\ submitter.at = "Semaphore" /\ submitter.i = factories + 1
        /\ submitter'.at = "Done" /\ submitter'.i = factories + 1
        /\ submitter' \in [at : {"Semaphore", "Work", "Done"}, i : 1..(factories + 1)]
        /\ workChan' = factories + 1 /\ processor' = processor
    <3>1. submitter \in [at : {"Semaphore", "Work", "Done"}, i : 1..(factories + 1)]
      BY <1>0 DEF BatchTypeOK
    <3>2. submitter' = [submitter EXCEPT !.at = "Done"]
      BY <1>5 DEF SubmitterClose
    <3>3. /\ submitter'.at = "Done" /\ submitter'.i = submitter.i
          /\ submitter' \in [at : {"Semaphore", "Work", "Done"}, i : 1..(factories + 1)]
      BY <3>1, <3>2
    <3>. QED
      BY <1>5, <3>3 DEF SubmitterClose
  <2>2. BatchTypeOK'
    BY <1>0, <1>1, <1>3, <2>1, Names DEF BatchTypeOK, futures
  <2>3. Submitted'
    BY <1>0, <1>1, <2>1, Names DEF Submitted, Index
  <2>4. Counts'
    BY <1>0, <1>1, <1>2, <1>3, <2>1, Names DEF Counts, running, Submitted
  <2>. QED
    BY <1>4, <2>2, <2>3, <2>4 DEF BatchInv
<1>6. CASE ProcessorDone
  <2>1. processor = "Waited" /\ processor' = "Done" /\ UNCHANGED <<submitter, workChan>>
    BY <1>6 DEF ProcessorDone
  <2>2. BatchTypeOK'
    BY <1>0, <1>1, <1>3, <2>1, ZenonT(40) DEF BatchTypeOK, futures
  <2>3. Submitted'
    BY <1>0, <1>1, <2>1, ZenonT(40) DEF Submitted
  <2>4. Counts'
    BY <1>0, <1>1, <1>2, <1>3, <2>1, Names DEF Counts, running
  <2>. QED
    BY <1>4, <2>2, <2>3, <2>4 DEF BatchInv
<1>. QED
  BY <1>5, <1>6

LEMMA ProcessorReceiveStep ==
    ASSUME BatchInv, ProcessorReceive
    PROVE  BatchInv'
<1>. DEFINE w == "wgForFutures"
            i == submitter.i
<1>0. BatchTypeOK /\ Chained /\ Submitted /\ Counts
  BY DEF BatchInv
<1>1. /\ processor = "Receive" /\ i \in Index /\ submitter.at = "Work" /\ workChan' = 0
      /\ submitter' = [at |-> "Semaphore", i |-> i + 1] /\ worker' = [worker EXCEPT ![i] = "Start"]
      /\ UNCHANGED <<processor, getter>> /\ Add(w, 1) /\ w \in WaitGroups /\ 1 \in Int
  <2>1. workChan = i /\ i \in Index /\ submitter.at = "Work"
    BY <1>0, ZenonT(40) DEF ProcessorReceive, Submitted
  <2>2. worker' = [worker EXCEPT ![workChan] = "Start"] /\ Add(w, 1)
    BY DEF ProcessorReceive
  <2>3. worker' = [worker EXCEPT ![i] = "Start"]
    BY <2>1, <2>2, ZenonT(40)
  <2>. QED
    BY <2>1, <2>2, <2>3, Names DEF ProcessorReceive
<1>2. worker[i] = "None"
  BY <1>0, <1>1, Names DEF Submitted, Index
<1>3. /\ worker' \in [Index -> {"None", "Start", "Get", "Done"}] /\ worker'[i] = "Start"
      /\ \A j \in Index : j # i => worker'[j] = worker[j]
      /\ running' = running \cup {i} /\ i \notin running
  BY <1>0, <1>1, <1>2 DEF BatchTypeOK, running
<1>4. HasSize(running, n[w]) /\ n[w] \in Nat
  <2>1. HasSize(running, n[w])
    BY <1>0 DEF Counts
  <2>. QED
    BY <2>1, SizeOfEmpty, ZenonT(40)
<1>5. HasSize(running', n[w] + 1) /\ ~released[w] /\ ~waiting[w]
  <2>1. HasSize(running', n[w] + 1)
    BY <1>3, <1>4, SizeOfOneMore
  <2>. QED
    BY <1>0, <1>1, <2>1, ZenonT(40) DEF Counts
<1>6. /\ n' \in [WaitGroups -> Int] /\ n'[w] = n[w] + 1
      /\ released' \in [WaitGroups -> BOOLEAN]
      /\ released'[w] => released[w] \/ (n[w] + 1 = 0 /\ waiting[w])
      /\ \A v \in WaitGroups : v # w => n'[v] = n[v] /\ released'[v] = released[v]
      /\ waiting' = waiting /\ UNCHANGED futures
  <2>1. n[w] + 1 >= 0 /\ (released[w] => n[w] + 1 # 0)
    BY <1>4, <1>5
  <2>. QED
    BY <1>0, <1>1, <2>1, Adds, ZenonT(40)
<1>7. BatchTypeOK'
  <2>1. workChan' \in 0..(factories + 1) /\ i + 1 \in 1..(factories + 1)
    BY <1>1, Names DEF Index
  <2>2. submitter' \in [at : {"Semaphore", "Work", "Done"}, i : 1..(factories + 1)]
    BY <1>1, <2>1
  <2>. QED
    BY <1>0, <1>1, <1>3, <1>6, <2>1, <2>2, ZenonT(40) DEF BatchTypeOK, futures
<1>8. Chained'
  BY <1>0, <1>2, <1>3, <1>6 DEF Chained, futures
<1>9. Submitted'
  BY <1>0, <1>1, <1>3, Names DEF Submitted, Index
<1>10. Counts'
  BY <1>0, <1>1, <1>4, <1>5, <1>6, Names, ZenonT(40) DEF Counts
<1>. QED
  BY <1>7, <1>8, <1>9, <1>10 DEF BatchInv

\* Once the channel is closed every worker was made; none of them is left when the
\* wait group is at zero.
LEMMA NoneRunning ==
    ASSUME BatchInv, submitter.at = "Done", n["wgForFutures"] <= 0
    PROVE  \A i \in Index : worker[i] = "Done"
<1>1. running = {}
  BY SizeOfEmpty DEF BatchInv, Counts
<1>2. \A i \in Index : worker[i] # "None"
  BY Names DEF BatchInv, Submitted, Index
<1>. QED
  BY <1>1, <1>2, ZenonT(40) DEF BatchInv, BatchTypeOK, running

LEMMA ProcessorWaitStep ==
    ASSUME BatchInv, ProcessorClosed \/ ProcessorWaited
    PROVE  BatchInv'
<1>. DEFINE w == "wgForFutures"
<1>0. BatchTypeOK /\ Chained /\ Submitted /\ Counts
  BY DEF BatchInv
<1>1. submitter.at = "Done" /\ processor \in {"Receive", "Waiting"} /\ w \in WaitGroups
  BY <1>0, Names, ZenonT(40) DEF ProcessorClosed, ProcessorWaited, Submitted
<1>2. /\ UNCHANGED <<submitter, workChan, worker, getter>>
      /\ UNCHANGED futures /\ n' = n
  BY DEF ProcessorClosed, ProcessorWaited, Wait, WaitReturns, Panics, waitGroups
<1>3. /\ waiting' \in [WaitGroups -> BOOLEAN] /\ released' \in [WaitGroups -> BOOLEAN]
      /\ released'["wg"] = released["wg"] /\ (released'[w] => released[w])
  <2>1. CASE UNCHANGED waitGroups
    BY <1>0, <2>1, ZenonT(40) DEF BatchTypeOK, waitGroups
  <2>2. CASE waiting' = [waiting EXCEPT ![w] = TRUE] /\ released' = released
    BY <1>0, <2>2, ZenonT(40) DEF BatchTypeOK
  <2>3. CASE waiting' = [waiting EXCEPT ![w] = FALSE] /\ released' = [released EXCEPT ![w] = FALSE]
    <3>1. released'["wg"] = released["wg"]
      BY <2>3, Names DEF BatchTypeOK
    <3>2. waiting' \in [WaitGroups -> BOOLEAN] /\ released' \in [WaitGroups -> BOOLEAN]
      BY <1>0, <2>3, ZenonT(40) DEF BatchTypeOK
    <3>3. ~released'[w]
      BY <1>0, <1>1, <2>3, ZenonT(40) DEF BatchTypeOK
    <3>. QED
      BY <3>1, <3>2, <3>3
  <2>. QED
    BY <2>1, <2>2, <2>3, ZenonT(40) DEF ProcessorClosed, ProcessorWaited, Wait, WaitReturns, Panics, waitGroups
<1>4. processor' \in {"Waiting", "Waited"} /\ (processor' = "Waited" => n[w] <= 0)
  BY <1>0 DEF ProcessorClosed, ProcessorWaited, WaitReturnsAtOnce, WaitReturns, Counts
<1>5. processor' = "Waited" => \A i \in Index : worker[i] = "Done"
  BY <1>1, <1>4, NoneRunning
<1>6. BatchTypeOK'
  BY <1>0, <1>2, <1>3, ZenonT(40) DEF BatchTypeOK, futures
<1>7. Chained'
  BY <1>0, <1>2, FuturesStay
<1>8. Submitted'
  BY <1>0, <1>1, <1>2, <1>4, <1>5, ZenonT(40) DEF Submitted
<1>9. Counts'
  BY <1>0, <1>1, <1>2, <1>3, <1>4, ZenonT(40) DEF Counts, running
<1>. QED
  BY <1>6, <1>7, <1>8, <1>9 DEF BatchInv

\* Get waits for the wait group.
LEMMA GetterStep ==
    ASSUME BatchInv, NEW g \in Getters, GetterWait(g) \/ GetterWaited(g) \/ GetterGet(g) \/ GetterDone(g)
    PROVE  BatchInv'
<1>. DEFINE w == "wg"
            States == (0..(factories + 1)) \X {"Start", "Waiting", "Get", "Done"}
<1>0. BatchTypeOK /\ Chained /\ Submitted /\ Counts /\ w \in WaitGroups /\ getter \in [Getters -> States]
  BY Names, ZenonT(40) DEF BatchInv, BatchTypeOK
<1>1. /\ UNCHANGED <<submitter, workChan, processor, worker>>
      /\ UNCHANGED futures /\ n' = n
  BY ZenonT(40) DEF GetterWait, GetterWaited, GetterGet, GetterDone, Wait, WaitReturns, Panics, waitGroups
<1>2. PICK st \in States : /\ getter' = [getter EXCEPT ![g] = st]
                           /\ st[2] = "Get" => processor = "Done"
  <2>1. CASE GetterWait(g)
    <3>1. CASE n[w] <= 0
      <4>1. processor = "Done"
        BY <1>0, <3>1 DEF Counts
      <4>2. <<1, "Get">> \in States
        BY Names
      <4>3. getter' = [getter EXCEPT ![g] = <<1, "Get">>]
        BY <2>1, <3>1, ZenonT(40) DEF GetterWait, WaitReturnsAtOnce
      <4>. QED
        BY <4>1, <4>2, <4>3, ZenonT(40)
    <3>2. CASE ~(n[w] <= 0)
      <4>1. <<0, "Waiting">> \in States /\ <<0, "Waiting">>[2] # "Get"
        BY Names
      <4>2. getter' = [getter EXCEPT ![g] = <<0, "Waiting">>]
        BY <2>1, <3>2, ZenonT(40) DEF GetterWait, WaitReturnsAtOnce
      <4>. QED
        BY <4>1, <4>2, ZenonT(40)
    <3>. QED
      BY <3>1, <3>2
  <2>2. CASE GetterWaited(g)
    <3>1. processor = "Done"
      BY <1>0, <2>2 DEF GetterWaited, WaitReturns, Counts
    <3>2. <<1, "Get">> \in States
      BY Names
    <3>3. getter' = [getter EXCEPT ![g] = <<1, "Get">>]
      BY <2>2 DEF GetterWaited
    <3>. QED
      BY <3>1, <3>2, <3>3, ZenonT(40)
  <2>3. CASE GetterGet(g)
    <3>. DEFINE i == getter[g][1]
    <3>1. i \in Index /\ getter[g][2] = "Get" /\ getter' = [getter EXCEPT ![g] = <<i + 1, "Get">>]
      BY <2>3, ZenonT(40) DEF GetterGet
    <3>2. processor = "Done"
      BY <1>0, <3>1, ZenonT(40) DEF Submitted
    <3>. HIDE DEF i
    <3>3. <<i + 1, "Get">> \in States
      BY <3>1, Names DEF Index
    <3>. QED
      BY <3>1, <3>2, <3>3, ZenonT(40)
  <2>4. CASE GetterDone(g)
    <3>1. <<0, "Done">> \in States /\ <<0, "Done">>[2] # "Get"
      BY Names
    <3>2. getter' = [getter EXCEPT ![g] = <<0, "Done">>]
      BY <2>4 DEF GetterDone
    <3>. QED
      BY <3>1, <3>2, ZenonT(40)
  <2>. QED
    BY <2>1, <2>2, <2>3, <2>4, ZenonT(40)
<1>3. getter' \in [Getters -> States] /\ \A h \in Getters : getter'[h][2] = "Get" => processor = "Done"
  <2>. HIDE DEF States
  <2>1. getter' \in [Getters -> States]
    BY <1>0, <1>2
  <2>2. ASSUME NEW h \in Getters, getter'[h][2] = "Get"
        PROVE  processor = "Done"
    <3>1. CASE h = g
      BY <1>0, <1>2, <2>2, <3>1
    <3>2. CASE h # g
      <4>1. getter'[h] = getter[h]
        BY <1>0, <1>2, <3>2
      <4>. QED
        BY <1>0, <2>2, <4>1, ZenonT(40) DEF Submitted
    <3>. QED
      BY <3>1, <3>2
  <2>. QED
    BY <2>1, <2>2
<1>4. /\ waiting' \in [WaitGroups -> BOOLEAN] /\ released' \in [WaitGroups -> BOOLEAN]
      /\ released'["wgForFutures"] = released["wgForFutures"] /\ (released'[w] => released[w])
      /\ waiting'["wgForFutures"] = waiting["wgForFutures"]
  <2>0. waiting \in [WaitGroups -> BOOLEAN] /\ released \in [WaitGroups -> BOOLEAN]
    BY <1>0, ZenonT(40) DEF BatchTypeOK
  <2>1. CASE UNCHANGED waitGroups
    BY <2>0, <2>1 DEF waitGroups
  <2>2. CASE waiting' = [waiting EXCEPT ![w] = TRUE] /\ released' = released
    <3>1. waiting'["wgForFutures"] = waiting["wgForFutures"]
      BY <2>0, <2>2, Names
    <3>2. waiting' \in [WaitGroups -> BOOLEAN]
      BY <2>0, <2>2, ZenonT(40)
    <3>. QED
      BY <2>0, <2>2, <3>1, <3>2
  <2>3. CASE waiting' = [waiting EXCEPT ![w] = FALSE] /\ released' = [released EXCEPT ![w] = FALSE]
    <3>1. released'["wgForFutures"] = released["wgForFutures"] /\ waiting'["wgForFutures"] = waiting["wgForFutures"]
      BY <2>0, <2>3, Names
    <3>2. waiting' \in [WaitGroups -> BOOLEAN] /\ released' \in [WaitGroups -> BOOLEAN]
      BY <2>0, <2>3, ZenonT(40)
    <3>3. ~released'[w]
      BY <1>0, <2>0, <2>3, ZenonT(40)
    <3>. QED
      BY <3>1, <3>2, <3>3
  <2>. QED
    BY <2>1, <2>2, <2>3, ZenonT(40) DEF GetterWait, GetterWaited, GetterGet, GetterDone, Wait, WaitReturns, Panics, waitGroups
<1>5. BatchTypeOK'
  BY <1>0, <1>1, <1>3, <1>4, ZenonT(40) DEF BatchTypeOK, futures
<1>6. Chained'
  BY <1>0, <1>1, FuturesStay
<1>7. Submitted'
  BY <1>0, <1>1, <1>3, ZenonT(40) DEF Submitted
<1>8. Counts'
  BY <1>0, <1>1, <1>4, ZenonT(40) DEF Counts, running
<1>. QED
  BY <1>5, <1>6, <1>7, <1>8 DEF BatchInv

LEMMA BatchInvInit == BatchInit => BatchInv
<1>. SUFFICES ASSUME BatchInit PROVE BatchInv
  OBVIOUS
<1>1. waiting \in [WaitGroups -> BOOLEAN] /\ released \in [WaitGroups -> BOOLEAN]
  BY ZenonT(40) DEF BatchInit, FuturesInit
<1>2. ~released["wg"] /\ ~released["wgForFutures"] /\ ~waiting["wgForFutures"]
  BY Names, ZenonT(40) DEF BatchInit, FuturesInit
<1>3. n \in [WaitGroups -> Int] /\ n["wg"] = 2 /\ n["wgForFutures"] = 0
  BY Names DEF BatchInit, FuturesInit
<1>4. /\ ready = {} /\ closed = {} /\ value \in [Futures -> Index \cup {None}]
      /\ chained \in [Futures -> Seq(Futures)] /\ \A f \in Futures : chained[f] = <<>>
  BY DEF BatchInit, FuturesInit
<1>5. /\ submitter = [at |-> "Semaphore", i |-> 1] /\ workChan = 0 /\ processor = "Receive"
      /\ worker = [i \in Index |-> "None"]
  BY DEF BatchInit
<1>6. getter \in [Getters -> (0..(factories + 1)) \X {"Start", "Waiting", "Get", "Done"}]
  <2>1. <<0, "Start">> \in (0..(factories + 1)) \X {"Start", "Waiting", "Get", "Done"}
    BY Names
  <2>. QED
    BY <2>1, ZenonT(40) DEF BatchInit
<1>7. \A g \in Getters : getter[g][2] = "Start"
  BY DEF BatchInit
<1>8. running = {}
  BY <1>5 DEF running
<1>9. BatchTypeOK
  BY <1>1, <1>3, <1>4, <1>5, <1>6, Names DEF BatchTypeOK
<1>10. Chained
  BY <1>4, <1>5, Names, ZenonT(40) DEF Chained
<1>11. Submitted
  BY <1>5, <1>7, Names DEF Submitted, Index
<1>12. Counts
  BY <1>2, <1>3, <1>5, <1>8, SizeOfEmpty DEF Counts
<1>. QED
  BY <1>9, <1>10, <1>11, <1>12 DEF BatchInv

LEMMA BatchInvStep == BatchInv /\ [BatchNext]_batchVars => BatchInv'
<1>. SUFFICES ASSUME BatchInv, [BatchNext]_batchVars PROVE BatchInv'
  OBVIOUS
<1>1. CASE UNCHANGED batchVars
  <2>1. UNCHANGED <<futures, waitGroups, submitter, workChan, processor, worker, getter>>
    BY <1>1 DEF batchVars
  <2>2. BatchTypeOK'
    BY <2>1, ZenonT(40) DEF BatchInv, BatchTypeOK, futures, waitGroups
  <2>3. Chained' /\ Submitted'
    BY <2>1, FuturesStay, ZenonT(40) DEF BatchInv, Submitted
  <2>4. Counts'
    BY <2>1, ZenonT(40) DEF BatchInv, Counts, waitGroups, running
  <2>. QED
    BY <2>2, <2>3, <2>4 DEF BatchInv
<1>2. ASSUME NEW i \in Index, FactoryReady(i) \/ Resolve(i)
      PROVE  BatchInv'
  BY <1>2, SetStep DEF FactoryReady, Resolve
<1>. QED
  BY <1>1, <1>2, SubmitterStep, DoneStep, ProcessorReceiveStep, ProcessorWaitStep, WorkerStartStep,
     WorkerDoneStep, GetterStep DEF BatchNext, Coroutines

\* For every number of factories, every batch size and every set of callers: each
\* future of the batch has the result of its own factory, and Get reads them when
\* all the coroutines of the batch are done.
THEOREM GetAlwaysSeesResults == BatchSpec => []GetSeesResults
<1>1. BatchInv => GetSeesResults
  BY ZenonT(40) DEF BatchInv, Chained, Submitted, GetSeesResults
<1>. QED
  BY <1>1, BatchInvInit, BatchInvStep, PTL DEF BatchSpec
=============================================================================
