-------------------------------- MODULE LRU --------------------------------
(***************************************************************************)
(* The cache of common/cache/lru.go.  Every method runs with the mutex, so *)
(* a call is one step.  The list byAccess has no element twice: it is      *)
(* modelled by the order that it stands for, <<a, b>> when a is nearer to  *)
(* the front than b.  The time of an entry is its age since its expiration *)
(* was set.                                                                *)
(***************************************************************************)
EXTENDS Integers, FiniteSets

CONSTANTS Keys, Values, Nil,
          ErrCacheFull,
          MaxSizes, TTLs,  \* the sizes and times to live that caches are made with
          MaxRefCount      \* bound on the references to an entry

ASSUME LRUAssumption ==
    /\ Nil \notin Values
    /\ MaxSizes \subseteq Nat /\ TTLs \subseteq Nat /\ MaxRefCount \in Nat

VARIABLES
    maxSize, ttl, pin,
    byAccess,
    entry,     \* the value of each key, Nil when byKey has no such key
    refCount,
    age,       \* greater than ttl when the entry has expired
    result,    \* what the last call returned
    removed    \* the values for which the last call started rmFunc

fields == <<maxSize, ttl, pin>>
entries == <<byAccess, entry, refCount, age>>
lru == <<fields, entries, result, removed>>

LRUInit ==
    /\ maxSize \in MaxSizes /\ ttl \in TTLs /\ pin \in BOOLEAN
    /\ byAccess = {}
    /\ entry = [k \in Keys |-> Nil]
    /\ refCount = [k \in Keys |-> 0]
    /\ age = [k \in Keys |-> 0]
    /\ result = Nil /\ removed = {}

byKey == {k \in Keys : entry[k] # Nil}

Remove(k) == {p \in byAccess : p[1] # k /\ p[2] # k}
MoveToFront(k) == Remove(k) \cup ({k} \X (byKey \ {k}))

\* The references that a call adds to an entry.
refs == IF pin THEN 1 ELSE 0
mayPin(k) == pin => refCount[k] < MaxRefCount

deleted(k) ==
    /\ byAccess' = Remove(k)
    /\ entry' = [entry EXCEPT ![k] = Nil]
    /\ refCount' = [refCount EXCEPT ![k] = 0]
    /\ age' = [age EXCEPT ![k] = 0]
    /\ removed' = {entry[k]}

\* The reference is taken before the age is looked at.
lruGet(k) ==
    /\ mayPin(k)
    /\ \/ entry[k] = Nil /\ result' = Nil /\ removed' = {} /\ UNCHANGED entries
       \/ /\ entry[k] # Nil
          /\ IF refCount[k] + refs = 0 /\ ttl # 0 /\ age[k] > ttl
             THEN deleted(k) /\ result' = Nil
             ELSE /\ byAccess' = MoveToFront(k)
                  /\ refCount' = [refCount EXCEPT ![k] = @ + refs]
                  /\ result' = entry[k] /\ removed' = {}
                  /\ UNCHANGED <<entry, age>>
    /\ UNCHANGED fields

-----------------------------------------------------------------------------
(* putInternal                                                             *)

found(k, v, allowUpdate) ==
    /\ entry[k] # Nil
    /\ entry' = IF allowUpdate THEN [entry EXCEPT ![k] = v] ELSE entry
    /\ age' = [age EXCEPT ![k] = 0]
    /\ byAccess' = MoveToFront(k)
    /\ refCount' = [refCount EXCEPT ![k] = @ + refs]
    /\ removed' = {}

isFull == Cardinality(byKey) + 1 = maxSize

\* The last element of byAccess, once k is at its front.
isOldest(k, o) ==
    /\ o \in byKey \cup {k}
    /\ \A b \in (byKey \cup {k}) \ {o} : <<b, o>> \in MoveToFront(k)

pushed(k, v) ==
    /\ ~isFull
    /\ byAccess' = MoveToFront(k)
    /\ entry' = [entry EXCEPT ![k] = v]
    /\ refCount' = [refCount EXCEPT ![k] = refs]
    /\ removed' = {}
    /\ UNCHANGED age

isPinned(k, o) == IF o = k THEN pin ELSE refCount[o] > 0

\* Mutant: the references to the oldest entry are not looked at.
evictsPinned(k, v) ==
    \E o \in byKey \cup {k} :
      /\ isFull /\ isOldest(k, o)
      /\ byAccess' = {p \in MoveToFront(k) : p[1] # o /\ p[2] # o}
      /\ entry' = [entry EXCEPT ![k] = v, ![o] = Nil]
      /\ refCount' = [refCount EXCEPT ![k] = refs, ![o] = 0]
      /\ age' = [age EXCEPT ![o] = 0]
      /\ removed' = {IF o = k THEN v ELSE entry[o]}

evicts(k, v) ==
    \E o \in byKey \cup {k} :
      /\ isFull /\ isOldest(k, o) /\ ~isPinned(k, o)
      /\ byAccess' = {p \in MoveToFront(k) : p[1] # o /\ p[2] # o}
      /\ entry' = [entry EXCEPT ![k] = v, ![o] = Nil]
      /\ refCount' = [refCount EXCEPT ![k] = refs, ![o] = 0]
      /\ age' = [age EXCEPT ![o] = 0]
      /\ removed' = {IF o = k THEN v ELSE entry[o]}

\* Only the oldest entry is looked at.
reverts(k) ==
    /\ isFull
    /\ \E o \in byKey \cup {k} : isOldest(k, o) /\ isPinned(k, o)
    /\ removed' = {}
    /\ UNCHANGED entries

\* In pin mode Put panics.
Put(k, v) ==
    /\ ~pin
    /\ \/ found(k, v, TRUE) /\ result' = entry[k]
       \/ entry[k] = Nil /\ (pushed(k, v) \/ evicts(k, v)) /\ result' = Nil
    /\ UNCHANGED fields

PutIfNotExist(k, v) ==
    /\ mayPin(k)
    /\ \/ found(k, v, FALSE) /\ result' = entry[k]
       \/ entry[k] = Nil /\ (pushed(k, v) \/ evicts(k, v)) /\ result' = v
       \/ entry[k] = Nil /\ reverts(k) /\ result' = ErrCacheFull
    /\ UNCHANGED fields

-----------------------------------------------------------------------------

Delete(k) ==
    /\ result' = Nil
    /\ \/ entry[k] # Nil /\ deleted(k)
       \/ entry[k] = Nil /\ removed' = {} /\ UNCHANGED entries
    /\ UNCHANGED fields

\* A caller releases what it holds.
Release(k) ==
    /\ refCount[k] > 0
    /\ refCount' = [refCount EXCEPT ![k] = @ - 1]
    /\ result' = Nil /\ removed' = {}
    /\ UNCHANGED <<fields, byAccess, entry, age>>

\* Time passes.
Tick ==
    /\ ttl # 0
    /\ \E k \in byKey : age[k] <= ttl
    /\ age' = [k \in Keys |-> IF k \in byKey /\ age[k] <= ttl THEN age[k] + 1 ELSE age[k]]
    /\ UNCHANGED <<fields, byAccess, entry, refCount, result, removed>>

LRUNext ==
    \/ \E k \in Keys :
         \/ lruGet(k) \/ Delete(k) \/ Release(k)
         \/ \E v \in Values : Put(k, v) \/ PutIfNotExist(k, v)
    \/ Tick

LRUSpec == LRUInit /\ [][LRUNext]_lru

-----------------------------------------------------------------------------
(* Properties                                                              *)

Promised == INSTANCE CacheContract WITH content <- entry, pins <- refCount

\* The cache does what its interface promises: a call returns what was put, an
\* element in use is dropped by Delete only, a new element takes the room of an
\* older one and only when it needs it, what leaves goes to RemovedFunc once, and
\* the cache stays below maxSize, whatever order and ages its entries have.
KeepsContract == Promised!Spec
=============================================================================
