--------------------------- MODULE ContextsProofs ---------------------------
(***************************************************************************)
(* A cancellation reaches every context derived from the canceled one, for *)
(* any number of contexts and goroutines, though cancel holds no lock from *)
(* setting err to the end of its loop over a copy of the children.         *)
(***************************************************************************)
EXTENDS Contexts, WellFoundedInduction, TLAPS

USE SMTT(40)

members(s) == {s[i] : i \in 1..Len(s)}

CancelSteps == {"Mark", "Close", "Copy", "Children", "Remove"}
Frame == [ctx : Contexts, at : CancelSteps, left : Seq(Contexts), removeFromParent : BOOLEAN]
Frames(g) == 1..Len(stack[g])

\* The call is the first one for its context.
past(f) == f.at # "Mark"

ContextsTypeOK ==
    /\ created \in Contexts
    /\ connected \subseteq 1..created
    /\ parent \in [Contexts -> 0..MaxContexts]
    /\ children \in [Contexts -> Seq(Contexts)]
    /\ stack \in [Goroutines -> Seq(Frame)]
    /\ \A c \in connected : parent[c] \in Contexts

\* One call cancels a context: the one that has set its err.
OneCanceler ==
    /\ \A g \in Goroutines : \A i \in Frames(g) : past(stack[g][i]) => stack[g][i].ctx \in err
    /\ \A g, h \in Goroutines : \A i \in Frames(g), j \in Frames(h) :
          past(stack[g][i]) /\ past(stack[h][j]) /\ stack[g][i].ctx = stack[h][j].ctx => g = h /\ i = j

\* The call f is going to close the Done channel of c.
closes(f, c) == f.ctx = c /\ f.at = "Close"

\* The call f is going to cancel c, whose parent p was canceled and has the list s.
cancels(f, c, p, s) ==
    \/ f.ctx = c /\ f.at = "Mark"
    \/ f.ctx = p /\ f.at \in {"Close", "Copy"} /\ c \in members(s)
    \/ f.at = "Children" /\ c \in members(f.left)

\* A context that is being canceled is about to be done; one that is not canceled
\* is registered with its parent, or somebody is about to cancel it.
ErrIsClosed ==
    \A c \in err : c \in done \/ \E g \in Goroutines : \E i \in Frames(g) : closes(stack[g][i], c)

Registered == \A c \in connected \ err : parent[c] \notin err => c \in members(children[parent[c]])

Reached ==
    \A c \in connected \ err : parent[c] \in err =>
        \E g \in Goroutines : \E i \in Frames(g) :
            cancels(stack[g][i], c, parent[c], children[parent[c]])

ContextsInv == ContextsTypeOK /\ OneCanceler /\ ErrIsClosed /\ Registered /\ Reached

-----------------------------------------------------------------------------
(* The stack of a goroutine: its first k calls are replaced by new.        *)

Replaces(g, k, new) ==
    /\ stack' \in [Goroutines -> Seq(Frame)]
    /\ k \in 0..1 /\ k <= Len(stack[g]) /\ new \in Seq(Frame)
    /\ Len(stack'[g]) = Len(stack[g]) - k + Len(new)
    /\ \A j \in 1..Len(new) : stack'[g][j] = new[j]
    /\ \A j \in Frames(g)' : j > Len(new) => stack'[g][j] = stack[g][j - Len(new) + k]
    /\ \A h \in Goroutines : h # g => stack'[h] = stack[h]

\* A goroutine that runs no cancel calls one.
LEMMA Begins ==
    ASSUME ContextsTypeOK, NEW g \in Goroutines, NEW f \in Frame,
           stack[g] = <<>>, stack' = [stack EXCEPT ![g] = <<f>>]
    PROVE  Replaces(g, 0, <<f>>)
<1>. HIDE DEF Frame
<1>1. stack'[g] = <<f>> /\ <<f>> \in Seq(Frame) /\ Len(<<f>>) = 1 /\ Len(stack[g]) = 0
  BY DEF ContextsTypeOK
<1>2. stack' \in [Goroutines -> Seq(Frame)] /\ \A h \in Goroutines : h # g => stack'[h] = stack[h]
  BY <1>1 DEF ContextsTypeOK
<1>. QED
  BY <1>1, <1>2 DEF Replaces, Frames

\* The innermost call returns.
LEMMA Returns ==
    ASSUME ContextsTypeOK, NEW g \in Goroutines, stack[g] # <<>>, return(g)
    PROVE  Replaces(g, 1, <<>>)
<1>1. stack[g] \in Seq(Frame)
  BY DEF ContextsTypeOK
<1>2. /\ stack'[g] = Tail(stack[g]) /\ stack' \in [Goroutines -> Seq(Frame)]
      /\ \A h \in Goroutines : h # g => stack'[h] = stack[h]
  BY <1>1 DEF ContextsTypeOK, return
<1>3. /\ Len(stack'[g]) = Len(stack[g]) - 1 /\ Len(stack[g]) > 0
      /\ \A j \in 1..Len(stack'[g]) : stack'[g][j] = stack[g][j + 1]
  BY <1>1, <1>2
<1>4. <<>> \in Seq(Frame) /\ Len(<<>>) = 0
  OBVIOUS
<1>. QED
  BY <1>1, <1>2, <1>3, <1>4 DEF Replaces, Frames

\* The innermost call goes on to its next step.
LEMMA TopMoves ==
    ASSUME ContextsTypeOK, NEW g \in Goroutines, stack[g] # <<>>, NEW f \in Frame,
           stack' = [stack EXCEPT ![g][1] = f]
    PROVE  Replaces(g, 1, <<f>>)
<1>1. stack[g] \in Seq(Frame) /\ stack \in [Goroutines -> Seq(Frame)] /\ Len(stack[g]) > 0
  BY DEF ContextsTypeOK
<1>. HIDE DEF Frame
<1>2. stack'[g] = [stack[g] EXCEPT ![1] = f] /\ \A h \in Goroutines : h # g => stack'[h] = stack[h]
  BY <1>1
<1>3. /\ stack'[g] \in Seq(Frame) /\ Len(stack'[g]) = Len(stack[g]) /\ stack'[g][1] = f
      /\ \A j \in 2..Len(stack[g]) : stack'[g][j] = stack[g][j]
  BY <1>1, <1>2
<1>4. stack' \in [Goroutines -> Seq(Frame)]
  BY <1>1, <1>3
<1>5. <<f>> \in Seq(Frame) /\ Len(<<f>>) = 1 /\ <<f>>[1] = f
  OBVIOUS
<1>. QED
  BY <1>1, <1>2, <1>3, <1>4, <1>5 DEF Replaces, Frames

\* The innermost call goes on and calls cancel.
LEMMA Calls ==
    ASSUME ContextsTypeOK, NEW g \in Goroutines, stack[g] # <<>>, NEW f \in Frame, NEW m \in Frame,
           stack' = [stack EXCEPT ![g] = <<m, f>> \o Tail(@)]
    PROVE  Replaces(g, 1, <<m, f>>)
<1>1. stack[g] \in Seq(Frame) /\ stack \in [Goroutines -> Seq(Frame)] /\ Len(stack[g]) > 0
  BY DEF ContextsTypeOK
<1>. HIDE DEF Frame
<1>2. stack'[g] = <<m, f>> \o Tail(stack[g]) /\ \A h \in Goroutines : h # g => stack'[h] = stack[h]
  BY <1>1, ZenonT(40)
<1>3. /\ stack'[g] \in Seq(Frame) /\ Len(stack'[g]) = Len(stack[g]) + 1
      /\ stack'[g][1] = m /\ stack'[g][2] = f
      /\ \A j \in 3..Len(stack'[g]) : stack'[g][j] = stack[g][j - 1]
  BY <1>1, <1>2
<1>4. stack' \in [Goroutines -> Seq(Frame)]
  BY <1>1, <1>2, <1>3, ZenonT(40)
<1>5. <<m, f>> \in Seq(Frame) /\ Len(<<m, f>>) = 2 /\ <<m, f>>[1] = m /\ <<m, f>>[2] = f
  OBVIOUS
<1>. QED
  BY <1>1, <1>2, <1>3, <1>4, <1>5 DEF Replaces, Frames

\* The calls further down stay.
LEMMA CallsStay ==
    ASSUME ContextsTypeOK, NEW g \in Goroutines, NEW k, NEW new, Replaces(g, k, new),
           NEW h \in Goroutines, NEW i \in Frames(h), ~(h = g /\ i <= k)
    PROVE  \E j \in Frames(h)' : stack'[h][j] = stack[h][i]
<1>1. stack[h] \in Seq(Frame) /\ stack[g] \in Seq(Frame)
  BY DEF ContextsTypeOK
<1>2. CASE h # g
  <2>1. stack'[h] = stack[h]
    BY <1>2, ZenonT(40) DEF Replaces
  <2>. QED
    BY <2>1, ZenonT(40) DEF Frames
<1>3. CASE h = g
  <2>1. Len(new) \in Nat /\ Len(stack[g]) \in Nat /\ k \in 0..1 /\ i \in 1..Len(stack[g]) /\ i > k
    BY <1>1, <1>3 DEF Replaces, Frames
  <2>. DEFINE j == i - k + Len(new)
  <2>2. j \in 1..Len(stack'[g]) /\ j > Len(new) /\ j - Len(new) + k = i
    BY <2>1 DEF Replaces
  <2>. QED
    BY <1>3, <2>2, ZenonT(40) DEF Replaces, Frames
<1>. QED
  BY <1>2, <1>3

\* A new call is on the stack.
LEMMA NewCallIsThere ==
    ASSUME ContextsTypeOK, NEW g \in Goroutines, NEW k, NEW new, Replaces(g, k, new), NEW j \in 1..Len(new)
    PROVE  j \in Frames(g)' /\ stack'[g][j] = new[j]
<1>1. stack[g] \in Seq(Frame)
  BY DEF ContextsTypeOK
<1>. QED
  BY <1>1 DEF Replaces, Frames

\* At most one of the new calls is past Mark, for the context that the call at the
\* top was canceling or for one that was not canceled.
LEMMA StaysOneCanceler ==
    ASSUME ContextsTypeOK, OneCanceler, NEW g \in Goroutines, NEW k, NEW new, Replaces(g, k, new),
           err \subseteq err',
           \A j \in 1..Len(new) : past(new[j]) =>
               /\ new[j].ctx \in err'
               /\ \A i \in 1..Len(new) : past(new[i]) => i = j
               /\ new[j].ctx \notin err
                    \/ (k = 1 /\ past(stack[g][1]) /\ stack[g][1].ctx = new[j].ctx)
    PROVE  OneCanceler'
<1>. DEFINE isNew(h, j) == h = g /\ j <= Len(new)
            from(h, j) == IF h = g THEN j - Len(new) + k ELSE j
<1>1. ASSUME NEW h \in Goroutines, NEW j \in Frames(h)', ~isNew(h, j)
      PROVE  /\ from(h, j) \in Frames(h) /\ stack'[h][j] = stack[h][from(h, j)]
             /\ ~(h = g /\ k = 1 /\ from(h, j) = 1)
  <2>1. stack[g] \in Seq(Frame)
    BY DEF ContextsTypeOK
  <2>2. CASE h # g
    <3>1. stack'[h] = stack[h] /\ from(h, j) = j
      BY <2>2, ZenonT(40) DEF Replaces
    <3>2. Frames(h)' = Frames(h)
      BY <3>1, ZenonT(40) DEF Frames
    <3>. QED
      BY <2>2, <3>1, <3>2
  <2>3. CASE h = g
    <3>1. /\ Len(stack[g]) \in Nat /\ Len(new) \in Nat /\ k \in 0..1 /\ k <= Len(stack[g])
          /\ Len(stack'[g]) = Len(stack[g]) - k + Len(new)
      BY <2>1 DEF Replaces
    <3>2. j \in 1..Len(stack'[g]) /\ j > Len(new) /\ from(h, j) = j - Len(new) + k
      BY <1>1, <2>3, <3>1 DEF Frames
    <3>3. stack'[g][j] = stack[g][j - Len(new) + k]
      BY <3>2, ZenonT(40) DEF Replaces, Frames
    <3>4. j - Len(new) + k \in 1..Len(stack[g]) /\ ~(k = 1 /\ j - Len(new) + k = 1)
      BY <3>1, <3>2
    <3>. QED
      BY <2>3, <3>2, <3>3, <3>4, ZenonT(40) DEF Frames
  <2>. QED
    BY <2>2, <2>3
<1>2. ASSUME NEW h \in Goroutines, NEW j \in Frames(h)', isNew(h, j)
      PROVE  h = g /\ j \in 1..Len(new) /\ stack'[h][j] = new[j]
  BY <1>2 DEF Replaces, Frames
<1>3. ASSUME NEW h \in Goroutines, NEW j \in Frames(h)', past(stack'[h][j])
      PROVE  stack'[h][j].ctx \in err'
  BY <1>1, <1>2, <1>3 DEF OneCanceler
<1>4. 1 \in Frames(g) \/ k = 0
  <2>1. stack[g] \in Seq(Frame)
    BY DEF ContextsTypeOK
  <2>. QED
    BY <2>1 DEF Replaces, Frames
<1>5. ASSUME NEW h \in Goroutines, NEW l \in Goroutines, NEW i \in Frames(h)', NEW j \in Frames(l)',
             past(stack'[h][i]), past(stack'[l][j]), stack'[h][i].ctx = stack'[l][j].ctx,
             isNew(h, i), ~isNew(l, j)
      PROVE  FALSE
  <2>1. /\ i \in 1..Len(new) /\ stack'[h][i] = new[i]
        /\ from(l, j) \in Frames(l) /\ stack'[l][j] = stack[l][from(l, j)]
        /\ ~(l = g /\ k = 1 /\ from(l, j) = 1)
    BY <1>1, <1>2, <1>5
  <2>. HIDE DEF from
  <2>2. new[i].ctx \in err /\ past(stack[l][from(l, j)])
    BY <1>5, <2>1 DEF OneCanceler
  <2>3. k = 1 /\ past(stack[g][1]) /\ stack[g][1].ctx = new[i].ctx
    BY <1>5, <2>1, <2>2, ZenonT(40)
  <2>4. 1 \in Frames(g) /\ stack[g][1].ctx = stack[l][from(l, j)].ctx
    BY <1>4, <1>5, <2>1, <2>3
  <2>. QED
    BY <2>1, <2>2, <2>3, <2>4 DEF OneCanceler
<1>6. ASSUME NEW h \in Goroutines, NEW l \in Goroutines, NEW i \in Frames(h)', NEW j \in Frames(l)',
             past(stack'[h][i]), past(stack'[l][j]), stack'[h][i].ctx = stack'[l][j].ctx
      PROVE  h = l /\ i = j
  <2>1. CASE isNew(h, i) /\ isNew(l, j)
    BY <1>2, <1>6, <2>1, ZenonT(40)
  <2>2. CASE isNew(h, i) /\ ~isNew(l, j)
    BY <1>5, <1>6, <2>2, ZenonT(40)
  <2>3. CASE ~isNew(h, i) /\ isNew(l, j)
    BY <1>5, <1>6, <2>3, ZenonT(40)
  <2>4. CASE ~isNew(h, i) /\ ~isNew(l, j)
    <3>1. h = l /\ from(h, i) = from(l, j)
      BY <1>1, <1>6, <2>4 DEF OneCanceler
    <3>2. i \in Int /\ j \in Int /\ Len(new) \in Int /\ k \in Int
      BY DEF Replaces, Frames
    <3>. QED
      BY <3>1, <3>2
  <2>. QED
    BY <2>1, <2>2, <2>3, <2>4, ZenonT(40)
<1>. HIDE DEF isNew, from
<1>. QED
  BY <1>3, <1>6 DEF OneCanceler

\* Calls that replace one which closes nothing leave ErrIsClosed as it was.
LEMMA StaysErrIsClosed ==
    ASSUME ContextsTypeOK, ErrIsClosed, NEW g \in Goroutines, NEW k, NEW new, Replaces(g, k, new),
           done \subseteq done',
           \A c \in err' \ err : \E j \in 1..Len(new) : closes(new[j], c),
           k = 1 /\ stack[g][1].at = "Close" => stack[g][1].ctx \in done'
    PROVE  ErrIsClosed'
<1>. SUFFICES ASSUME NEW c \in err', c \notin done'
              PROVE  \E h \in Goroutines : \E i \in Frames(h)' : closes(stack'[h][i], c)
  BY DEF ErrIsClosed
<1>1. CASE c \notin err
  <2>1. PICK j \in 1..Len(new) : closes(new[j], c)
    BY <1>1
  <2>. QED
    BY <2>1, NewCallIsThere
<1>2. CASE c \in err
  <2>0. PICK h \in Goroutines : \E i \in Frames(h) : closes(stack[h][i], c)
    BY <1>2, ZenonT(40) DEF ErrIsClosed
  <2>1. PICK i \in Frames(h) : closes(stack[h][i], c)
    BY <2>0, ZenonT(40)
  <2>2. ~(h = g /\ i <= k)
    BY <2>1 DEF closes, Replaces, Frames
  <2>. QED
    BY <2>1, <2>2, CallsStay
<1>. QED
  BY <1>1, <1>2, ZenonT(40)

\* A context that somebody is about to cancel stays so, unless it was the call that
\* went away.
LEMMA StillReached ==
    ASSUME ContextsTypeOK, NEW g \in Goroutines, NEW k, NEW new, Replaces(g, k, new),
           NEW c, NEW p, NEW s,
           \E h \in Goroutines : \E i \in Frames(h) : cancels(stack[h][i], c, p, s),
           k = 0 \/ ~cancels(stack[g][1], c, p, s)
    PROVE  \E h \in Goroutines : \E i \in Frames(h)' : cancels(stack'[h][i], c, p, s)
<1>0. PICK h \in Goroutines : \E i \in Frames(h) : cancels(stack[h][i], c, p, s)
  OBVIOUS
<1>1. PICK i \in Frames(h) : cancels(stack[h][i], c, p, s)
  BY <1>0
<1>2. ~(h = g /\ i <= k)
  BY <1>1 DEF Replaces, Frames
<1>. QED
  BY <1>1, <1>2, CallsStay

\* A new call that is going to cancel a context is on the stack.
LEMMA HandedOn ==
    ASSUME ContextsTypeOK, NEW g \in Goroutines, NEW k, NEW new, Replaces(g, k, new),
           NEW c, NEW p, NEW s, NEW j \in 1..Len(new), cancels(new[j], c, p, s)
    PROVE  \E h \in Goroutines : \E i \in Frames(h)' : cancels(stack'[h][i], c, p, s)
BY NewCallIsThere

-----------------------------------------------------------------------------
(* The steps.                                                              *)

\* The record of a new call is a frame.
LEMMA CallIsFrame ==
    ASSUME NEW c \in Contexts, NEW b \in BOOLEAN
    PROVE  /\ call(c, b) \in Frame /\ call(c, b).ctx = c /\ call(c, b).at = "Mark" /\ call(c, b).left = <<>>
           /\ ~past(call(c, b))
<1>1. <<>> \in Seq(Contexts)
  OBVIOUS
<1>. QED
  BY <1>1 DEF call, Frame, CancelSteps, past

\* So is the innermost call of a goroutine.
LEMMA TopIsFrame ==
    ASSUME ContextsTypeOK, NEW g \in Goroutines, stack[g] # <<>>
    PROVE  top(g) \in Frame /\ 1 \in Frames(g)
<1>1. stack[g] \in Seq(Frame)
  BY DEF ContextsTypeOK
<1>. HIDE DEF Frame
<1>. QED
  BY <1>1 DEF top, Frames

\* The frame f with another step and another list.
at(f, step, left) == [ctx |-> f.ctx, at |-> step, left |-> left, removeFromParent |-> f.removeFromParent]

LEMMA Moves ==
    ASSUME ContextsTypeOK, NEW g \in Goroutines, stack[g] # <<>>, NEW step \in CancelSteps, moveTo(g, step)
    PROVE  /\ at(top(g), step, top(g).left) \in Frame
           /\ Replaces(g, 1, <<at(top(g), step, top(g).left)>>)
<1>. DEFINE f == at(top(g), step, top(g).left)
<1>1. top(g) \in Frame
  BY TopIsFrame
<1>2. f \in Frame
  BY <1>1 DEF at, Frame
<1>3. [top(g) EXCEPT !.at = step] = f
  BY <1>1 DEF at, Frame
<1>4. stack' = [stack EXCEPT ![g][1] = [top(g) EXCEPT !.at = step]]
  BY DEF moveTo, top
<1>. HIDE DEF f
<1>5. stack' = [stack EXCEPT ![g][1] = f]
  BY <1>3, <1>4, ZenonT(40)
<1>6. Replaces(g, 1, <<f>>)
  BY <1>2, <1>5, TopMoves, ZenonT(40)
<1>. QED
  BY <1>2, <1>6 DEF f

LEMMA MarkCanceledStep ==
    ASSUME ContextsInv, NEW g \in Goroutines, MarkCanceled(g)
    PROVE  ContextsInv'
<1>. DEFINE x == top(g).ctx
<1>1. /\ ContextsTypeOK /\ OneCanceler /\ ErrIsClosed /\ Registered /\ Reached
      /\ stack[g] # <<>> /\ stack[g][1].at = "Mark" /\ top(g) = stack[g][1]
      /\ UNCHANGED <<parent, connected, done, children, created>>
  BY ZenonT(40) DEF ContextsInv, MarkCanceled, in, top
<1>2. top(g) \in Frame /\ x \in Contexts
  BY <1>1, TopIsFrame, ZenonT(40) DEF Frame
<1>3. CASE x \in err
  <2>1. err' = err /\ Replaces(g, 1, <<>>) /\ Len(<<>>) = 0
    BY <1>1, <1>3, Returns, ZenonT(40) DEF MarkCanceled
  <2>2. ContextsTypeOK'
    BY <1>1, <2>1, ZenonT(40) DEF ContextsTypeOK, Replaces
  <2>3. OneCanceler'
    BY <1>1, <2>1, StaysOneCanceler
  <2>4. ErrIsClosed'
    BY <1>1, <2>1, StaysErrIsClosed, ZenonT(40)
  <2>5. Registered'
    BY <1>1, <2>1, ZenonT(40) DEF Registered
  <2>6. Reached'
    <3>. SUFFICES ASSUME NEW c \in connected \ err, parent[c] \in err
                  PROVE  \E h \in Goroutines : \E i \in Frames(h)' :
                            cancels(stack'[h][i], c, parent[c], children[parent[c]])
      BY <1>1, <2>1, ZenonT(40) DEF Reached
    <3>1. ~cancels(stack[g][1], c, parent[c], children[parent[c]])
      BY <1>1, <1>3, ZenonT(40) DEF cancels
    <3>2. \E h \in Goroutines : \E i \in Frames(h) :
              cancels(stack[h][i], c, parent[c], children[parent[c]])
      BY <1>1, ZenonT(40) DEF Reached
    <3>. QED
      BY <1>1, <2>1, <3>1, <3>2, StillReached, ZenonT(40)
  <2>. QED
    BY <2>2, <2>3, <2>4, <2>5, <2>6 DEF ContextsInv
<1>4. CASE x \notin err
  <2>. DEFINE f == at(top(g), "Close", top(g).left)
              new == <<f>>
  <2>0. err' = err \cup {x} /\ moveTo(g, "Close") /\ "Close" \in CancelSteps
    BY <1>1, <1>4, ZenonT(40) DEF MarkCanceled, CancelSteps
  <2>1. f \in Frame /\ Replaces(g, 1, new)
    BY <1>1, <2>0, Moves, ZenonT(40)
  <2>9. Len(new) = 1 /\ new[1] = f
    OBVIOUS
  <2>2. f.ctx = x /\ f.at = "Close" /\ f.left = top(g).left
    BY DEF at
  <2>. HIDE DEF f, new
  <2>3. ContextsTypeOK'
    BY <1>1, <2>0, <2>1, ZenonT(40) DEF ContextsTypeOK, Replaces
  <2>4. OneCanceler'
    BY <1>1, <1>4, <2>0, <2>1, <2>2, <2>9, StaysOneCanceler
  <2>5. ErrIsClosed'
    <3>1. \A c \in err' \ err : \E j \in 1..Len(new) : closes(new[j], c)
      BY <2>0, <2>2, <2>9 DEF closes
    <3>. QED
      BY <1>1, <2>1, <3>1, StaysErrIsClosed, ZenonT(40)
  <2>6. Registered'
    BY <1>1, <2>0, <2>1, ZenonT(40) DEF Registered
  <2>7. Reached'
    <3>. SUFFICES ASSUME NEW c \in connected, c \notin err, c # x, parent[c] \in err \cup {x}
                  PROVE  \E h \in Goroutines : \E i \in Frames(h)' :
                            cancels(stack'[h][i], c, parent[c], children[parent[c]])
      BY <1>1, <2>0, <2>1, ZenonT(40) DEF Reached
    <3>1. CASE parent[c] \in err
      <4>1. ~cancels(stack[g][1], c, parent[c], children[parent[c]])
        BY <1>1, ZenonT(40) DEF cancels
      <4>2. \E h \in Goroutines : \E i \in Frames(h) :
                cancels(stack[h][i], c, parent[c], children[parent[c]])
        BY <1>1, <3>1, ZenonT(40) DEF Reached
      <4>. QED
        BY <1>1, <2>1, <4>1, <4>2, StillReached, ZenonT(40)
    <3>2. CASE parent[c] \notin err
      <4>1. c \in members(children[parent[c]]) /\ parent[c] = x
        BY <1>1, <3>2, ZenonT(40) DEF Registered
      <4>2. cancels(f, c, parent[c], children[parent[c]])
        BY <2>2, <4>1 DEF cancels
      <4>3. 1 \in Frames(g)' /\ stack'[g][1] = f
        BY <1>1, <2>1, <2>9, 1 \in 1..Len(new), NewCallIsThere
      <4>. QED
        BY <4>2, <4>3, ZenonT(40)
    <3>. QED
      BY <3>1, <3>2, ZenonT(40)
  <2>. QED
    BY <2>3, <2>4, <2>5, <2>6, <2>7 DEF ContextsInv
<1>. QED
  BY <1>3, <1>4

LEMMA CloseDoneStep ==
    ASSUME ContextsInv, NEW g \in Goroutines, CloseDone(g)
    PROVE  ContextsInv'
<1>. DEFINE f == at(top(g), "Copy", top(g).left)
            new == <<f>>
<1>1. /\ ContextsTypeOK /\ OneCanceler /\ ErrIsClosed /\ Registered /\ Reached
      /\ stack[g] # <<>> /\ stack[g][1].at = "Close" /\ top(g) = stack[g][1]
      /\ UNCHANGED <<parent, connected, err, children, created>>
      /\ done' = done \cup {top(g).ctx} /\ moveTo(g, "Copy") /\ "Copy" \in CancelSteps
  BY DEF ContextsInv, CloseDone, in, top, CancelSteps
<1>2. f \in Frame /\ Replaces(g, 1, new)
  BY <1>1, Moves, ZenonT(40)
<1>3. /\ Len(new) = 1 /\ new[1] = f
      /\ f.ctx = stack[g][1].ctx /\ f.at = "Copy" /\ f.left = stack[g][1].left
  BY <1>1, ZenonT(40) DEF at
<1>. HIDE DEF f, new
<1>4. ContextsTypeOK'
  BY <1>1, <1>2, ZenonT(40) DEF ContextsTypeOK, Replaces
<1>5. stack[g][1].ctx \in err /\ past(stack[g][1])
  BY <1>1, TopIsFrame, ZenonT(40) DEF OneCanceler, past
<1>6. OneCanceler'
  BY <1>1, <1>2, <1>3, <1>5, StaysOneCanceler
<1>7. ErrIsClosed'
  BY <1>1, <1>2, StaysErrIsClosed, ZenonT(40)
<1>8. Registered'
  BY <1>1, ZenonT(40) DEF Registered
<1>9. Reached'
  <2>. SUFFICES ASSUME NEW c \in connected \ err, parent[c] \in err
                PROVE  \E h \in Goroutines : \E i \in Frames(h)' :
                          cancels(stack'[h][i], c, parent[c], children[parent[c]])
    BY <1>1, ZenonT(40) DEF Reached
  <2>. DEFINE s == children[parent[c]]
  <2>1. \E h \in Goroutines : \E i \in Frames(h) : cancels(stack[h][i], c, parent[c], s)
    BY <1>1, ZenonT(40) DEF Reached
  <2>2. CASE cancels(stack[g][1], c, parent[c], s)
    <3>1. cancels(f, c, parent[c], s)
      BY <1>1, <1>3, <2>2, ZenonT(40) DEF cancels
    <3>2. 1 \in 1..Len(new) /\ new[1] = f
      BY <1>3
    <3>. QED
      BY <1>1, <1>2, <3>1, <3>2, HandedOn, ZenonT(40)
  <2>3. CASE ~cancels(stack[g][1], c, parent[c], s)
    BY <1>1, <1>2, <2>1, <2>3, StillReached, ZenonT(40)
  <2>. QED
    BY <2>2, <2>3, ZenonT(40)
<1>. QED
  BY <1>4, <1>6, <1>7, <1>8, <1>9 DEF ContextsInv

LEMMA getChildrenStep ==
    ASSUME ContextsInv, NEW g \in Goroutines, getChildren(g)
    PROVE  ContextsInv'
<1>. DEFINE x == top(g).ctx
            f == at(top(g), "Children", children[x])
            new == <<f>>
<1>1. /\ ContextsTypeOK /\ OneCanceler /\ ErrIsClosed /\ Registered /\ Reached
      /\ stack[g] # <<>> /\ stack[g][1].at = "Copy" /\ top(g) = stack[g][1]
      /\ UNCHANGED <<parent, connected, err, done, children, created>>
  BY DEF ContextsInv, getChildren, in, top
<1>2. top(g) \in Frame /\ x \in Contexts
  BY <1>1, TopIsFrame, ZenonT(40) DEF Frame
<1>3. f \in Frame
  BY <1>1, <1>2, ZenonT(40) DEF at, Frame, CancelSteps, ContextsTypeOK
<1>4. stack' = [stack EXCEPT ![g][1] = f]
  <2>0. "Children" \in CancelSteps /\ children[x] \in Seq(Contexts)
    BY <1>1, <1>2, ZenonT(40) DEF CancelSteps, ContextsTypeOK
  <2>1. [top(g) EXCEPT !.left = children[x], !.at = "Children"] = f
    <3>. DEFINE r == [top(g) EXCEPT !.left = children[x]]
    <3>1. [top(g) EXCEPT !.left = children[x], !.at = "Children"] = [r EXCEPT !.at = "Children"]
      BY ZenonT(40)
    <3>2. r = at(top(g), top(g).at, children[x])
      BY <1>2 DEF Frame, at
    <3>. HIDE DEF r
    <3>3. r \in Frame
      BY <1>2, <2>0, <3>2, ZenonT(40) DEF at, Frame
    <3>4. [r EXCEPT !.at = "Children"] = at(r, "Children", r.left)
      BY <2>0, <3>3 DEF Frame, at
    <3>5. at(r, "Children", r.left) = f
      BY <3>2, ZenonT(40) DEF at
    <3>. QED
      BY <3>1, <3>4, <3>5, ZenonT(40)
  <2>2. stack' = [stack EXCEPT ![g][1] = [top(g) EXCEPT !.left = children[x], !.at = "Children"]]
    BY DEF getChildren
  <2>. HIDE DEF f
  <2>. QED
    BY <2>1, <2>2, ZenonT(40)
<1>5. /\ Len(new) = 1 /\ new[1] = f
      /\ f.ctx = stack[g][1].ctx /\ f.at = "Children" /\ f.left = children[x]
  BY <1>1, ZenonT(40) DEF at
<1>. HIDE DEF f
<1>6. Replaces(g, 1, new)
  BY <1>1, <1>3, <1>4, TopMoves, ZenonT(40)
<1>. HIDE DEF new
<1>7. ContextsTypeOK'
  BY <1>1, <1>6, ZenonT(40) DEF ContextsTypeOK, Replaces
<1>8. stack[g][1].ctx \in err /\ past(stack[g][1])
  BY <1>1, TopIsFrame, ZenonT(40) DEF OneCanceler, past
<1>9. OneCanceler'
  BY <1>1, <1>5, <1>6, <1>8, StaysOneCanceler
<1>10. ErrIsClosed'
  BY <1>1, <1>6, StaysErrIsClosed, ZenonT(40)
<1>11. Registered'
  BY <1>1, ZenonT(40) DEF Registered
<1>12. Reached'
  <2>. SUFFICES ASSUME NEW c \in connected \ err, parent[c] \in err
                PROVE  \E h \in Goroutines : \E i \in Frames(h)' :
                          cancels(stack'[h][i], c, parent[c], children[parent[c]])
    BY <1>1, ZenonT(40) DEF Reached
  <2>. DEFINE s == children[parent[c]]
  <2>1. \E h \in Goroutines : \E i \in Frames(h) : cancels(stack[h][i], c, parent[c], s)
    BY <1>1, ZenonT(40) DEF Reached
  <2>2. CASE cancels(stack[g][1], c, parent[c], s)
    <3>1. cancels(f, c, parent[c], s)
      BY <1>1, <1>5, <2>2, ZenonT(40) DEF cancels
    <3>2. 1 \in 1..Len(new) /\ new[1] = f
      BY <1>5
    <3>. QED
      BY <1>1, <1>6, <3>1, <3>2, HandedOn, ZenonT(40)
  <2>3. CASE ~cancels(stack[g][1], c, parent[c], s)
    BY <1>1, <1>6, <2>1, <2>3, StillReached, ZenonT(40)
  <2>. QED
    BY <2>2, <2>3, ZenonT(40)
<1>. QED
  BY <1>7, <1>9, <1>10, <1>11, <1>12 DEF ContextsInv

LEMMA CancelChildStep ==
    ASSUME ContextsInv, NEW g \in Goroutines, CancelChild(g)
    PROVE  ContextsInv'
<1>. DEFINE x == top(g).ctx
<1>1. /\ ContextsTypeOK /\ OneCanceler /\ ErrIsClosed /\ Registered /\ Reached
      /\ stack[g] # <<>> /\ stack[g][1].at = "Children" /\ top(g) = stack[g][1]
      /\ UNCHANGED <<parent, connected, err, done, created>>
  BY ZenonT(40) DEF ContextsInv, CancelChild, in, top
<1>2. /\ top(g) \in Frame /\ x \in Contexts /\ top(g).left \in Seq(Contexts)
      /\ stack[g][1].ctx \in err /\ past(stack[g][1])
  BY <1>1, TopIsFrame, ZenonT(40) DEF Frame, OneCanceler, past
<1>3. CASE top(g).left # <<>>
  <2>. DEFINE left == top(g).left
              m == call(Head(left), FALSE)
              f == at(top(g), "Children", Tail(left))
              new == <<m, f>>
  <2>1. Head(left) \in Contexts /\ Tail(left) \in Seq(Contexts) /\ "Children" \in CancelSteps
    BY <1>2, <1>3 DEF CancelSteps
  <2>0. children' = children
    BY <1>3, ZenonT(40) DEF CancelChild
  <2>2. stack' = [stack EXCEPT ![g] = <<m, [top(g) EXCEPT !.left = Tail(left)]>> \o Tail(@)]
    BY <1>3, ZenonT(40) DEF CancelChild
  <2>3. [top(g) EXCEPT !.left = Tail(left)] = f
    <3>1. top(g).at = "Children"
      BY <1>1, ZenonT(40)
    <3>2. [top(g) EXCEPT !.left = Tail(left)]
            = [ctx |-> top(g).ctx, at |-> top(g).at, left |-> Tail(left),
               removeFromParent |-> top(g).removeFromParent]
      <4>. DEFINE r == top(g)
                  l == Tail(left)
      <4>1. r \in Frame
        BY <1>2
      <4>. HIDE DEF r, l
      <4>2. [r EXCEPT !.left = l]
              = [ctx |-> r.ctx, at |-> r.at, left |-> l, removeFromParent |-> r.removeFromParent]
        BY <4>1 DEF Frame
      <4>. QED
        BY <4>2, ZenonT(40) DEF r, l
    <3>. QED
      BY <3>1, <3>2, ZenonT(40) DEF at
  <2>4. m \in Frame /\ m.ctx = Head(left) /\ m.at = "Mark" /\ ~past(m)
    BY <2>1, FALSE \in BOOLEAN, CallIsFrame, ZenonT(40)
  <2>5. f \in Frame
    BY <1>2, <2>1, ZenonT(40) DEF Frame, at
  <2>6. f.ctx = stack[g][1].ctx /\ f.at = "Children" /\ f.left = Tail(left)
    BY <1>1, ZenonT(40) DEF at
  <2>. HIDE DEF m, f
  <2>7. Len(new) = 2 /\ new[1] = m /\ new[2] = f
    OBVIOUS
  <2>8. stack' = [stack EXCEPT ![g] = <<m, f>> \o Tail(@)]
    BY <2>2, <2>3, ZenonT(40)
  <2>9. Replaces(g, 1, new)
    BY <1>1, <2>4, <2>5, <2>8, Calls, ZenonT(40)
  <2>. HIDE DEF new
  <2>10. ContextsTypeOK'
    BY <1>1, <2>0, <2>9, ZenonT(40) DEF ContextsTypeOK, Replaces
  <2>11. OneCanceler'
    <3>1. \A j \in 1..Len(new) : past(new[j]) => j = 2
      BY <2>4, <2>7
    <3>. QED
      BY <1>1, <1>2, <2>6, <2>7, <2>9, <3>1, StaysOneCanceler, ZenonT(40)
  <2>12. ErrIsClosed'
    BY <1>1, <2>9, StaysErrIsClosed, ZenonT(40)
  <2>13. Registered'
    BY <1>1, <2>0, ZenonT(40) DEF Registered
  <2>14. Reached'
    <3>. SUFFICES ASSUME NEW c \in connected \ err, parent[c] \in err
                  PROVE  \E h \in Goroutines : \E i \in Frames(h)' :
                            cancels(stack'[h][i], c, parent[c], children[parent[c]])
      BY <1>1, <2>0, ZenonT(40) DEF Reached
    <3>. DEFINE s == children[parent[c]]
    <3>1. \E h \in Goroutines : \E i \in Frames(h) : cancels(stack[h][i], c, parent[c], s)
      BY <1>1, ZenonT(40) DEF Reached
    <3>2. CASE cancels(stack[g][1], c, parent[c], s)
      <4>1. c \in members(left)
        BY <1>1, <3>2, ZenonT(40) DEF cancels
      <4>2. c = Head(left) \/ c \in members(Tail(left))
        BY <1>2, <4>1 DEF members
      <4>3. CASE c = Head(left)
        <5>1. cancels(m, c, parent[c], s)
          BY <2>4, <4>3 DEF cancels
        <5>2. 1 \in 1..Len(new) /\ new[1] = m
          BY <2>7
        <5>. QED
          BY <1>1, <2>9, <5>1, <5>2, HandedOn, ZenonT(40)
      <4>4. CASE c \in members(Tail(left))
        <5>1. cancels(f, c, parent[c], s)
          BY <2>6, <4>4 DEF cancels
        <5>2. 2 \in 1..Len(new) /\ new[2] = f
          BY <2>7
        <5>. QED
          BY <1>1, <2>9, <5>1, <5>2, HandedOn, ZenonT(40)
      <4>. QED
        BY <4>2, <4>3, <4>4, ZenonT(40)
    <3>3. CASE ~cancels(stack[g][1], c, parent[c], s)
      BY <1>1, <2>9, <3>1, <3>3, StillReached, ZenonT(40)
    <3>. QED
      BY <3>2, <3>3, ZenonT(40)
  <2>. QED
    BY <2>10, <2>11, <2>12, <2>13, <2>14 DEF ContextsInv
<1>4. CASE top(g).left = <<>>
  <2>. DEFINE f == at(top(g), "Remove", top(g).left)
  <2>0. children' = [children EXCEPT ![x] = <<>>]
    BY <1>4 DEF CancelChild
  <2>1. /\ moveTo(g, "Remove") \/ return(g)
        /\ "Remove" \in CancelSteps
    BY <1>4 DEF CancelChild, CancelSteps
  <2>2. PICK new : /\ Replaces(g, 1, new)
                   /\ new = <<>> \/ (new = <<f>> /\ f \in Frame)
    <3>1. CASE return(g)
      BY <1>1, <3>1, Returns, ZenonT(40)
    <3>2. CASE moveTo(g, "Remove")
      BY <1>1, <2>1, <3>2, Moves, ZenonT(40)
    <3>. QED
      BY <2>1, <3>1, <3>2, ZenonT(40)
  <2>3. f.ctx = stack[g][1].ctx /\ f.at = "Remove"
    BY <1>1, ZenonT(40) DEF at
  <2>. HIDE DEF f
  <2>4. \A j \in 1..Len(new) : j = 1 /\ new[j] = f
    <3>1. CASE new = <<>>
      BY <3>1
    <3>2. CASE new = <<f>>
      BY <3>2
    <3>. QED
      BY <2>2, <3>1, <3>2
  <2>5. children' \in [Contexts -> Seq(Contexts)]
    BY <1>1, <1>2, <2>0 DEF ContextsTypeOK
  <2>6. ContextsTypeOK'
    BY <1>1, <2>2, <2>5, ZenonT(40) DEF ContextsTypeOK, Replaces
  <2>7. OneCanceler'
    BY <1>1, <1>2, <2>2, <2>3, <2>4, StaysOneCanceler, ZenonT(40)
  <2>8. ErrIsClosed'
    BY <1>1, <2>2, StaysErrIsClosed, ZenonT(40)
  <2>9. Registered'
    BY <1>1, <1>2, <2>0, ZenonT(40) DEF Registered, ContextsTypeOK
  <2>10. Reached'
    <3>. SUFFICES ASSUME NEW c \in connected \ err, parent[c] \in err
                  PROVE  \E h \in Goroutines : \E i \in Frames(h)' :
                            cancels(stack'[h][i], c, parent[c], children'[parent[c]])
      BY <1>1, ZenonT(40) DEF Reached
    <3>. DEFINE s == children[parent[c]]
                t == children'[parent[c]]
    <3>1. \E h \in Goroutines : \E i \in Frames(h) : cancels(stack[h][i], c, parent[c], s)
      BY <1>1, ZenonT(40) DEF Reached
    <3>2. ~cancels(stack[g][1], c, parent[c], s)
      BY <1>1, <1>4 DEF cancels, members
    <3>3. parent[c] # x => s = t
      BY <1>1, <1>2, <2>0, ZenonT(40) DEF ContextsTypeOK
    <3>4. ASSUME NEW h \in Goroutines, NEW i \in Frames(h), cancels(stack[h][i], c, parent[c], s),
                 ~(h = g /\ i <= 1)
          PROVE  cancels(stack[h][i], c, parent[c], t)
      <4>1. CASE parent[c] # x
        BY <3>3, <3>4, <4>1, ZenonT(40)
      <4>2. CASE parent[c] = x
        <5>1. ~(stack[h][i].ctx = x /\ past(stack[h][i]))
          BY <1>1, <1>2, <3>4, TopIsFrame DEF OneCanceler, Frames
        <5>. QED
          BY <3>4, <4>2, <5>1, ZenonT(40) DEF cancels, past
      <4>. QED
        BY <4>1, <4>2, ZenonT(40)
    <3>. HIDE DEF s, t
    <3>5. \E h \in Goroutines : \E i \in Frames(h)' : cancels(stack'[h][i], c, parent[c], t)
      <4>1. PICK h \in Goroutines : \E i \in Frames(h) : cancels(stack[h][i], c, parent[c], s)
        BY <3>1
      <4>2. PICK i \in Frames(h) : cancels(stack[h][i], c, parent[c], s)
        BY <4>1
      <4>3. ~(h = g /\ i <= 1)
        BY <3>2, <4>2 DEF Frames
      <4>4. cancels(stack[h][i], c, parent[c], t)
        BY <3>4, <4>2, <4>3
      <4>. QED
        BY <1>1, <2>2, <4>3, <4>4, CallsStay, ZenonT(40)
    <3>. QED
      BY <3>5, ZenonT(40) DEF t
  <2>. QED
    BY <2>6, <2>7, <2>8, <2>9, <2>10 DEF ContextsInv
<1>. QED
  BY <1>3, <1>4

\* A nonempty set of numbers has a least one.
LEMMA LeastExists ==
    ASSUME NEW T, T \subseteq Nat, T # {}
    PROVE  \E i \in T : \A j \in T : ~(j < i)
<1>1. PICK i \in T : \A j \in T : ~(<<j, i>> \in OpToRel(<, Nat))
  BY NatLessThanWellFounded, WFMin, ZenonT(40)
<1>2. ASSUME NEW j \in T, j < i
      PROVE  <<j, i>> \in OpToRel(<, Nat)
  BY <1>2, ZenonT(40) DEF OpToRel
<1>. QED
  BY <1>1, <1>2, ZenonT(40)

\* removeChildFromSlice loses no other child.
LEMMA OthersStay ==
    ASSUME NEW s \in Seq(Contexts), NEW c
    PROVE  /\ removeChildFromSlice(s, c) \in Seq(Contexts)
           /\ \A d \in members(s) : d # c => d \in members(removeChildFromSlice(s, c))
<1>1. CASE ~\E i \in 1..Len(s) : s[i] = c
  BY <1>1 DEF removeChildFromSlice
<1>2. CASE \E i \in 1..Len(s) : s[i] = c
  <2>. DEFINE n == Len(s)
              isFirst(i) == s[i] = c /\ \A j \in 1..(i - 1) : s[j] # c
              found == CHOOSE i \in 1..Len(s) : isFirst(i)
              r == [i \in 1..Len(s) |-> IF i >= found /\ i < Len(s) THEN s[i + 1] ELSE s[i]]
              At == {i \in 1..Len(s) : s[i] = c}
  <2>1. n \in Nat /\ \A i \in 1..n : s[i] \in Contexts
    OBVIOUS
  <2>2. \E i \in 1..Len(s) : isFirst(i)
    <3>1. At \subseteq Nat /\ At # {}
      BY <1>2
    <3>2. PICK i \in At : \A j \in At : ~(j < i)
      BY <3>1, LeastExists, ZenonT(40)
    <3>. QED
      BY <2>1, <3>2
  <2>3. found \in 1..n /\ s[found] = c
    BY <2>2
  <2>4. removeChildFromSlice(s, c) = r
    BY <1>2 DEF removeChildFromSlice
  <2>. HIDE DEF found
  <2>5. r \in Seq(Contexts) /\ Len(r) = n
    BY <2>1, <2>3
  <2>6. ASSUME NEW i \in 1..n, s[i] # c
        PROVE  \E j \in 1..n : r[j] = s[i]
    <3>1. CASE i < found
      BY <2>1, <2>3, <3>1
    <3>2. CASE i > found
      <4>1. i - 1 \in 1..n /\ r[i - 1] = s[i]
        BY <2>1, <2>3, <3>2
      <4>. QED
        BY <4>1
    <3>. QED
      BY <2>3, <2>6, <3>1, <3>2
  <2>. HIDE DEF r
  <2>7. \A d \in members(s) : d # c => d \in members(r)
    BY <2>5, <2>6 DEF members
  <2>. QED
    BY <2>4, <2>5, <2>7
<1>. QED
  BY <1>1, <1>2

LEMMA removeChildStep ==
    ASSUME ContextsInv, NEW g \in Goroutines, removeChild(g)
    PROVE  ContextsInv'
<1>. DEFINE x == top(g).ctx
<1>1. /\ ContextsTypeOK /\ OneCanceler /\ ErrIsClosed /\ Registered /\ Reached
      /\ stack[g] # <<>> /\ stack[g][1].at = "Remove" /\ top(g) = stack[g][1]
      /\ UNCHANGED <<parent, connected, err, done, created>>
  BY ZenonT(40) DEF ContextsInv, removeChild, in, top
<1>2. x \in Contexts /\ x \in err
  BY <1>1, TopIsFrame DEF Frame, OneCanceler, past
<1>3. Replaces(g, 1, <<>>) /\ Len(<<>>) = 0
  BY <1>1, Returns, ZenonT(40) DEF removeChild
<1>4. /\ children' \in [Contexts -> Seq(Contexts)]
      /\ \A p \in Contexts : \A d \in members(children[p]) : d # x => d \in members(children'[p])
  <2>1. CASE parent[x] = 0
    BY <1>1, <2>1, ZenonT(40) DEF removeChild, ContextsTypeOK
  <2>2. CASE parent[x] # 0
    <3>. DEFINE q == parent[x]
                s == children[q]
                r == removeChildFromSlice(s, x)
    <3>1. q \in Contexts /\ s \in Seq(Contexts)
      BY <1>1, <1>2, <2>2, ContextsAssumption DEF ContextsTypeOK, Contexts
    <3>2. children' = [children EXCEPT ![q] = r]
      BY <2>2, ZenonT(40) DEF removeChild
    <3>3. r \in Seq(Contexts) /\ \A d \in members(s) : d # x => d \in members(r)
      BY <3>1, OthersStay, ZenonT(40)
    <3>. HIDE DEF r
    <3>4. children \in [Contexts -> Seq(Contexts)]
      BY <1>1, ZenonT(40) DEF ContextsTypeOK
    <3>. QED
      BY <3>1, <3>2, <3>3, <3>4, ZenonT(40)
  <2>. QED
    BY <2>1, <2>2, ZenonT(40)
<1>5. ContextsTypeOK'
  BY <1>1, <1>3, <1>4, ZenonT(40) DEF ContextsTypeOK, Replaces
<1>6. OneCanceler'
  BY <1>1, <1>3, StaysOneCanceler
<1>7. ErrIsClosed'
  BY <1>1, <1>3, StaysErrIsClosed, ZenonT(40)
<1>8. Registered'
  BY <1>1, <1>2, <1>4, ZenonT(40) DEF Registered, ContextsTypeOK
<1>9. Reached'
  <2>. SUFFICES ASSUME NEW c \in connected \ err, parent[c] \in err
                PROVE  \E h \in Goroutines : \E i \in Frames(h)' :
                          cancels(stack'[h][i], c, parent[c], children'[parent[c]])
    BY <1>1, ZenonT(40) DEF Reached
  <2>. DEFINE s == children[parent[c]]
              t == children'[parent[c]]
  <2>1. \E h \in Goroutines : \E i \in Frames(h) : cancels(stack[h][i], c, parent[c], s)
    BY <1>1, ZenonT(40) DEF Reached
  <2>2. ~cancels(stack[g][1], c, parent[c], s)
    BY <1>1, ZenonT(40) DEF cancels
  <2>3. parent[c] \in Contexts /\ c # x
    <3>1. c \in connected /\ c \notin err
      OBVIOUS
    <3>2. \A d \in connected : parent[d] \in Contexts
      BY <1>1, ZenonT(40) DEF ContextsTypeOK
    <3>. QED
      BY <1>2, <3>1, <3>2
  <2>4. c \in members(s) => c \in members(t)
    BY <1>4, <2>3
  <2>. HIDE DEF s, t
  <2>5. PICK h \in Goroutines : \E i \in Frames(h)' : cancels(stack'[h][i], c, parent[c], s)
    BY <1>1, <1>3, <2>1, <2>2, StillReached, ZenonT(40)
  <2>6. PICK i \in Frames(h)' : cancels(stack'[h][i], c, parent[c], s)
    BY <2>5
  <2>7. cancels(stack'[h][i], c, parent[c], t)
    BY <2>4, <2>6, ZenonT(40) DEF cancels
  <2>. QED
    BY <2>7 DEF t
<1>. QED
  BY <1>5, <1>6, <1>7, <1>8, <1>9 DEF ContextsInv

LEMMA WithCancelStep ==
    ASSUME ContextsInv, NEW g \in Goroutines, NEW p \in 1..created, WithCancel(g, p)
    PROVE  ContextsInv'
<1>. DEFINE x == created + 1
<1>1. /\ ContextsTypeOK /\ OneCanceler /\ ErrIsClosed /\ Registered /\ Reached
      /\ stack[g] = <<>> /\ created' = x /\ parent' = [parent EXCEPT ![x] = p]
      /\ connected' = connected \cup {x} /\ err' = err /\ done' = done
  BY ZenonT(40) DEF ContextsInv, WithCancel
<1>2. x \in Contexts /\ p \in Contexts /\ x \notin connected
  BY <1>1, ContextsAssumption DEF ContextsTypeOK, Contexts, WithCancel
<1>3. /\ parent' \in [Contexts -> 0..MaxContexts] /\ parent'[x] = p
      /\ \A c \in connected : parent'[c] = parent[c] /\ parent[c] \in Contexts
      /\ connected' \subseteq 1..created' /\ created' \in Contexts
  <2>1. /\ created \in Contexts /\ connected \subseteq 1..created
        /\ parent \in [Contexts -> 0..MaxContexts]
        /\ \A c \in connected : parent[c] \in Contexts
    BY <1>1, ZenonT(40) DEF ContextsTypeOK
  <2>2. created \in Nat /\ p \in 0..MaxContexts /\ \A c \in connected : c \in Contexts /\ c # x
    BY <1>2, <2>1, ContextsAssumption DEF Contexts
  <2>3. parent' \in [Contexts -> 0..MaxContexts] /\ parent'[x] = p
    BY <1>1, <1>2, <2>1, <2>2
  <2>4. \A c \in connected : parent'[c] = parent[c]
    BY <1>1, <2>1, <2>2
  <2>5. connected' \subseteq 1..created'
    BY <1>1, <2>1, <2>2
  <2>. QED
    BY <1>1, <1>2, <2>1, <2>3, <2>4, <2>5
<1>9. err' = err /\ done' = done /\ connected' = connected \cup {x}
  BY <1>1
<1>4. CASE p \in err
  <2>. DEFINE f == call(x, FALSE)
              new == <<f>>
  <2>1. children' = children /\ stack' = [stack EXCEPT ![g] = <<f>>]
    BY <1>4, ZenonT(40) DEF WithCancel
  <2>2. f \in Frame /\ f.ctx = x /\ f.at = "Mark" /\ ~past(f)
    BY <1>2, FALSE \in BOOLEAN, CallIsFrame, ZenonT(40)
  <2>. HIDE DEF f
  <2>3. Replaces(g, 0, new)
    BY <1>1, <2>1, <2>2, Begins, ZenonT(40)
  <2>4. Len(new) = 1 /\ new[1] = f
    OBVIOUS
  <2>. HIDE DEF new
  <2>5. children' = children
    BY <2>1
  <2>6. ContextsTypeOK'
    <3>1. stack' \in [Goroutines -> Seq(Frame)]
      BY <2>3, ZenonT(40) DEF Replaces
    <3>2. \A c \in connected' : parent'[c] \in Contexts
      BY <1>2, <1>3, <1>9
    <3>. QED
      BY <1>1, <1>3, <2>5, <3>1, <3>2, ZenonT(40) DEF ContextsTypeOK
  <2>7. OneCanceler'
    BY <1>1, <2>2, <2>3, <2>4, StaysOneCanceler
  <2>8. ErrIsClosed'
    BY <1>1, <2>3, StaysErrIsClosed
  <2>9. Registered'
    BY <1>1, <1>3, <1>4, <2>5 DEF Registered
  <2>10. ASSUME NEW c \in connected' \ err, parent'[c] \in err
         PROVE  \E h \in Goroutines : \E i \in Frames(h)' :
                   cancels(stack'[h][i], c, parent'[c], children'[parent'[c]])
    <3>. DEFINE q == parent'[c]
                s == children'[q]
    <3>1. CASE c = x
      <4>1. cancels(f, c, q, s)
        BY <2>2, <3>1 DEF cancels
      <4>2. 1 \in 1..Len(new) /\ new[1] = f
        BY <2>4
      <4>. HIDE DEF q, s
      <4>3. \E h \in Goroutines : \E i \in Frames(h)' : cancels(stack'[h][i], c, q, s)
        BY <1>1, <2>3, <4>1, <4>2, HandedOn, ZenonT(40)
      <4>. QED
        BY <4>3 DEF q, s
    <3>2. CASE c # x
      <4>1. q = parent[c] /\ s = children[parent[c]] /\ c \in connected
        BY <1>1, <1>3, <2>5, <2>10, <3>2
      <4>2. \E h \in Goroutines : \E i \in Frames(h) : cancels(stack[h][i], c, q, s)
        BY <1>1, <2>10, <4>1, ZenonT(40) DEF Reached
      <4>. HIDE DEF q, s
      <4>3. \E h \in Goroutines : \E i \in Frames(h)' : cancels(stack'[h][i], c, q, s)
        BY <1>1, <2>3, <4>2, StillReached, ZenonT(40)
      <4>. QED
        BY <4>3 DEF q, s
    <3>. QED
      BY <3>1, <3>2, ZenonT(40)
  <2>11. Reached'
    BY <1>1, <2>10, ZenonT(40) DEF Reached
  <2>. QED
    BY <2>6, <2>7, <2>8, <2>9, <2>11 DEF ContextsInv
<1>5. CASE p \notin err
  <2>1. children' = [children EXCEPT ![p] = Append(@, x)] /\ stack' = stack
    BY <1>5, ZenonT(40) DEF WithCancel
  <2>2. /\ children' \in [Contexts -> Seq(Contexts)] /\ x \in members(children'[p])
        /\ \A q \in Contexts : \A d \in members(children[q]) : d \in members(children'[q])
    <3>1. children \in [Contexts -> Seq(Contexts)]
      BY <1>1 DEF ContextsTypeOK
    <3>2. /\ Append(children[p], x) \in Seq(Contexts) /\ x \in members(Append(children[p], x))
          /\ \A d \in members(children[p]) : d \in members(Append(children[p], x))
      BY <1>2, <3>1 DEF members
    <3>. QED
      BY <1>2, <2>1, <3>1, <3>2
  <2>0. stack' = stack /\ ContextsTypeOK /\ OneCanceler /\ ErrIsClosed /\ Registered /\ Reached
    BY <1>1, <2>1
  <2>3. ContextsTypeOK'
    <3>1. \A c \in connected' : parent'[c] \in Contexts
      BY <1>2, <1>3, <1>9
    <3>. QED
      BY <1>3, <2>0, <2>2, <3>1, ZenonT(40) DEF ContextsTypeOK
  <2>4. OneCanceler' /\ ErrIsClosed'
    BY <1>9, <2>0 DEF OneCanceler, ErrIsClosed, Frames
  <2>5. Registered'
    <3>. SUFFICES ASSUME NEW c \in connected' \ err, parent'[c] \notin err
                  PROVE  c \in members(children'[parent'[c]])
      BY <1>9 DEF Registered
    <3>1. CASE c = x
      BY <1>3, <2>2, <3>1
    <3>2. CASE c # x
      <4>1. c \in connected /\ parent'[c] = parent[c] /\ parent[c] \in Contexts /\ c \notin err
        BY <1>3, <1>9, <3>2
      <4>2. c \in members(children[parent[c]])
        BY <2>0, <4>1 DEF Registered
      <4>. QED
        BY <2>2, <4>1, <4>2
    <3>. QED
      BY <3>1, <3>2
  <2>6. Reached'
    <3>. SUFFICES ASSUME NEW c \in connected' \ err, parent'[c] \in err
                  PROVE  \E h \in Goroutines : \E i \in Frames(h) :
                            cancels(stack[h][i], c, parent'[c], children'[parent'[c]])
      BY <1>9, <2>0, ZenonT(40) DEF Reached, Frames
    <3>1. c \in connected /\ parent'[c] = parent[c] /\ parent[c] \in Contexts
      BY <1>3, <1>5, <1>9
    <3>2. PICK h \in Goroutines : \E i \in Frames(h) :
              cancels(stack[h][i], c, parent[c], children[parent[c]])
      BY <2>0, <3>1, ZenonT(40) DEF Reached
    <3>3. PICK i \in Frames(h) : cancels(stack[h][i], c, parent[c], children[parent[c]])
      BY <3>2, ZenonT(40)
    <3>4. c \in members(children[parent[c]]) => c \in members(children'[parent[c]])
      BY <2>2, <3>1
    <3>5. cancels(stack[h][i], c, parent[c], children'[parent[c]])
      BY <3>3, <3>4, ZenonT(40) DEF cancels
    <3>. QED
      BY <3>1, <3>5, ZenonT(40)
  <2>. QED
    BY <2>3, <2>4, <2>5, <2>6 DEF ContextsInv
<1>. QED
  BY <1>4, <1>5

LEMMA NewDisconnectedContextStep ==
    ASSUME ContextsInv, NEW g \in Goroutines, NEW p \in 1..created, NewDisconnectedContext(g, p)
    PROVE  ContextsInv'
<1>1. /\ created' = created + 1 /\ created < MaxContexts /\ parent' = [parent EXCEPT ![created + 1] = p]
      /\ UNCHANGED <<connected, err, done, children, stack>>
  BY DEF NewDisconnectedContext
<1>2. created \in Contexts /\ connected \subseteq 1..created /\ parent \in [Contexts -> 0..MaxContexts]
  BY DEF ContextsInv, ContextsTypeOK
<1>3. /\ parent' \in [Contexts -> 0..MaxContexts] /\ created' \in Contexts
      /\ \A c \in connected : parent'[c] = parent[c]
      /\ connected' \subseteq 1..created'
  BY <1>1, <1>2, ContextsAssumption DEF Contexts
<1>4. ContextsTypeOK'
  BY <1>1, <1>3, ZenonT(40) DEF ContextsInv, ContextsTypeOK
<1>5. OneCanceler' /\ ErrIsClosed'
  BY <1>1 DEF ContextsInv, OneCanceler, ErrIsClosed, Frames
<1>6. Registered'
  BY <1>1, <1>3 DEF ContextsInv, Registered
<1>7. Reached'
  BY <1>1, <1>3 DEF ContextsInv, Reached, Frames
<1>. QED
  BY <1>4, <1>5, <1>6, <1>7 DEF ContextsInv

LEMMA CancelFuncStep ==
    ASSUME ContextsInv, NEW g \in Goroutines, NEW x \in 1..created, CancelFunc(g, x)
    PROVE  ContextsInv'
<1>. DEFINE f == call(x, TRUE)
            new == <<f>>
<1>1. /\ ContextsTypeOK /\ OneCanceler /\ ErrIsClosed /\ Registered /\ Reached
      /\ stack[g] = <<>> /\ UNCHANGED <<parent, connected, err, done, children, created>>
  BY DEF ContextsInv, CancelFunc
<1>2. x \in Contexts
  BY <1>1, ContextsAssumption DEF ContextsTypeOK, Contexts
<1>3. f \in Frame /\ f.ctx = x /\ f.at = "Mark" /\ ~past(f)
  BY <1>2, TRUE \in BOOLEAN, CallIsFrame, ZenonT(40)
<1>4. stack' = [stack EXCEPT ![g] = <<f>>]
  BY DEF CancelFunc
<1>. HIDE DEF f
<1>5. Replaces(g, 0, new)
  BY <1>1, <1>3, <1>4, Begins, ZenonT(40)
<1>6. Len(new) = 1 /\ new[1] = f
  OBVIOUS
<1>. HIDE DEF new
<1>7. ContextsTypeOK'
  BY <1>1, <1>5, ZenonT(40) DEF ContextsTypeOK, Replaces
<1>8. OneCanceler'
  BY <1>1, <1>3, <1>5, <1>6, StaysOneCanceler
<1>9. ErrIsClosed'
  BY <1>1, <1>5, StaysErrIsClosed
<1>10. Registered'
  BY <1>1 DEF Registered
<1>11. Reached'
  <2>. SUFFICES ASSUME NEW c \in connected \ err, parent[c] \in err
                PROVE  \E h \in Goroutines : \E i \in Frames(h)' :
                          cancels(stack'[h][i], c, parent[c], children[parent[c]])
    BY <1>1, ZenonT(40) DEF Reached
  <2>1. \E h \in Goroutines : \E i \in Frames(h) : cancels(stack[h][i], c, parent[c], children[parent[c]])
    BY <1>1, ZenonT(40) DEF Reached
  <2>. QED
    BY <1>1, <1>5, <2>1, StillReached, ZenonT(40)
<1>. QED
  BY <1>7, <1>8, <1>9, <1>10, <1>11 DEF ContextsInv

LEMMA ContextsInvInit == ContextsInit => ContextsInv
<1>. SUFFICES ASSUME ContextsInit PROVE ContextsInv
  OBVIOUS
<1>. USE ContextsAssumption
<1>1. \A g \in Goroutines : stack[g] = <<>> /\ Frames(g) = {}
  BY DEF ContextsInit, Frames
<1>2. ContextsTypeOK
  BY DEF ContextsInit, ContextsTypeOK, Contexts
<1>3. OneCanceler
  BY <1>1, ZenonT(40) DEF OneCanceler
<1>. QED
  BY <1>2, <1>3 DEF ContextsInit, ContextsInv, ErrIsClosed, Registered, Reached

LEMMA ContextsInvStep == ContextsInv /\ [ContextsNext]_contexts => ContextsInv'
<1>. SUFFICES ASSUME ContextsInv, [ContextsNext]_contexts PROVE ContextsInv'
  OBVIOUS
<1>1. CASE UNCHANGED contexts
  <2>1. UNCHANGED <<parent, connected, err, done, children, created, stack>>
    BY <1>1 DEF contexts
  <2>2. ContextsTypeOK' /\ OneCanceler' /\ ErrIsClosed'
    BY <2>1 DEF ContextsInv, ContextsTypeOK, OneCanceler, ErrIsClosed, Frames
  <2>3. Registered' /\ Reached'
    BY <2>1, ZenonT(40) DEF ContextsInv, Registered, Reached, Frames
  <2>. QED
    BY <2>2, <2>3 DEF ContextsInv
<1>2. CASE ContextsNext
  BY <1>2, WithCancelStep, NewDisconnectedContextStep, CancelFuncStep, MarkCanceledStep,
     CloseDoneStep, getChildrenStep, CancelChildStep, removeChildStep DEF ContextsNext, Cancel
<1>. QED
  BY <1>1, <1>2

\* However cancels of several goroutines, and contexts that are made meanwhile, run
\* into each other: once no cancel is under way, what was derived with WithCancel
\* from a canceled context is done (propagateCancel registers a context, or cancels
\* it at once; cancel sets err before it reads the children).
THEOREM CancellationAlwaysReachesAll == ContextsSpec => []CancellationReachesAll
<1>1. ContextsInv => CancellationReachesAll
  <2>. SUFFICES ASSUME ContextsInv, idle, NEW c \in connected, parent[c] \in err
                PROVE  c \in done
    BY DEF CancellationReachesAll
  <2>1. \A g \in Goroutines : Frames(g) = {}
    BY DEF idle, Frames
  <2>2. c \in err
    BY <2>1 DEF ContextsInv, Reached
  <2>. QED
    BY <2>1, <2>2 DEF ContextsInv, ErrIsClosed
<1>. QED
  BY <1>1, ContextsInvInit, ContextsInvStep, PTL DEF ContextsSpec
=============================================================================
