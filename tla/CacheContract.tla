--------------------------- MODULE CacheContract ---------------------------
(***************************************************************************)
(* What the interface Cache of common/cache promises to its callers,       *)
(* without the access order and the ages by which an implementation        *)
(* chooses what to drop.                                                   *)
(***************************************************************************)
EXTENDS Integers, FiniteSets

CONSTANTS Keys, Values, Nil,
          ErrCacheFull

VARIABLES
    maxSize, pin,  \* the options of the cache
    content,       \* the value of each key, or Nil
    pins,          \* the references to the element of each key
    result,        \* what the last call returned
    removed        \* the values that the last call handed to RemovedFunc

vars == <<maxSize, pin, content, pins, result, removed>>

present == {k \in Keys : content[k] # Nil}
one == IF pin THEN 1 ELSE 0

Init ==
    /\ maxSize \in Nat /\ pin \in BOOLEAN
    /\ content = [k \in Keys |-> Nil]
    /\ pins = [k \in Keys |-> 0]
    /\ result = Nil /\ removed = {}

finds(k) ==
    /\ content[k] # Nil
    /\ result' = content[k]
    /\ pins' = [pins EXCEPT ![k] = @ + one]
    /\ removed' = {}

\* An element that leaves the cache is handed to RemovedFunc.
leaves(k) ==
    /\ content[k] # Nil
    /\ content' = [content EXCEPT ![k] = Nil]
    /\ pins' = [pins EXCEPT ![k] = 0]
    /\ removed' = {content[k]}

\* An element in use does not expire.
Get(k) ==
    \/ finds(k) /\ UNCHANGED content
    \/ content[k] = Nil /\ result' = Nil /\ removed' = {} /\ UNCHANGED <<content, pins>>
    \/ leaves(k) /\ result' = Nil /\ pins[k] = 0 /\ ~pin

full == Cardinality(present) + 1 = maxSize

\* A new element takes the room of one that is not in use, and only in a full
\* cache; a cache without room for any element drops the new one.
enters(k, v) ==
    /\ content[k] = Nil
    /\ \/ /\ ~full
          /\ content' = [content EXCEPT ![k] = v]
          /\ pins' = [pins EXCEPT ![k] = one]
          /\ removed' = {}
       \/ \E o \in present :
            /\ full /\ pins[o] = 0
            /\ content' = [content EXCEPT ![k] = v, ![o] = Nil]
            /\ pins' = [pins EXCEPT ![k] = one, ![o] = 0]
            /\ removed' = {content[o]}
       \/ /\ full /\ maxSize = 1 /\ ~pin
          /\ removed' = {v}
          /\ UNCHANGED <<content, pins>>

Put(k, v) ==
    /\ ~pin
    /\ \/ finds(k) /\ content' = [content EXCEPT ![k] = v]
       \/ enters(k, v) /\ result' = Nil

PutIfNotExist(k, v) ==
    \/ finds(k) /\ UNCHANGED content
    \/ enters(k, v) /\ result' = v
    \/ /\ full /\ content[k] = Nil
       /\ pin /\ (maxSize = 1 \/ \E o \in present : pins[o] > 0)
       /\ result' = ErrCacheFull /\ removed' = {}
       /\ UNCHANGED <<content, pins>>

Delete(k) ==
    /\ result' = Nil
    /\ \/ leaves(k)
       \/ content[k] = Nil /\ removed' = {} /\ UNCHANGED <<content, pins>>

Release(k) ==
    /\ pins[k] > 0
    /\ pins' = [pins EXCEPT ![k] = @ - 1]
    /\ result' = Nil /\ removed' = {}
    /\ UNCHANGED content

call(k) ==
    \/ Get(k) \/ Delete(k) \/ Release(k)
    \/ \E v \in Values : Put(k, v) \/ PutIfNotExist(k, v)

\* A bounded cache never holds maxSize elements after a call.
Next ==
    /\ \E k \in Keys : call(k)
    /\ UNCHANGED <<maxSize, pin>>
    /\ maxSize > 0 => Cardinality(present') < maxSize

Spec == Init /\ [][Next]_vars
=============================================================================
