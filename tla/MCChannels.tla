----------------------------- MODULE MCChannels -----------------------------
(***************************************************************************)
(* Small instances of module Channels.                                     *)
(***************************************************************************)
EXTENDS Channels

CONSTANTS p1, p2, p3, c1, c2, f1

TwoCoroutines == <<p1, p2>>
ThreeCoroutines == <<p1, p2, p3>>

Unbuffered == [c \in Channels |-> 0]
OneBuffered == [c \in Channels |-> IF c = c1 THEN 1 ELSE 0]
TwoBuffered == [c \in Channels |-> IF c = c1 THEN 2 ELSE 0]

ThreeEach == [p \in Procs |-> 3]
ThreeForSecond == [p \in Procs |-> IF p = p2 THEN 3 ELSE 2]

receive(c) == [kind |-> "Receive", ch |-> c]
send(c) == [kind |-> "Send", ch |-> c]
future(f) == [kind |-> "Future", ch |-> f]

\* p1 and p2 select over a signal channel and a future, p3 polls with a send.
ReceiveOrFuture ==
    [p \in Procs |-> IF p = p3 THEN <<send(c1)>> ELSE <<receive(c1), future(f1)>>]

\* p1 selects over one channel.
ReceiveFirst == [p \in Procs |-> IF p = p1 THEN <<receive(c1)>> ELSE <<>>]

\* Both coroutines select over the same channel.
ReceiveBoth == [p \in Procs |-> <<receive(c1)>>]

\* p1 selects with both directions of the same channel.
BothDirections == [p \in Procs |-> IF p = p1 THEN <<receive(c1), send(c1)>> ELSE <<>>]
=============================================================================
