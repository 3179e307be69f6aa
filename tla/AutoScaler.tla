----------------------------- MODULE AutoScaler -----------------------------
(***************************************************************************)
(* The ConcurrencyAutoScaler of internal/worker: the hints that arrive     *)
(* with polled tasks switch it on and off and feed a rolling average of    *)
(* the pollers' wait times; a ticker moves the quota of the poller permit  *)
(* by that average, at most once per cooldown.  Every method that changes  *)
(* state holds the lock, so it is one step.  The factor by which the quota *)
(* is scaled, a quotient of logarithms, is left open: only its direction   *)
(* and the clamping are kept.                                              *)
(***************************************************************************)
EXTENDS Integers, Sequences

CONSTANTS None,
          Window,          \* numberOfPollsInRollingAverage
          WaitTimes,       \* the wait times that hints carry, negative ones included
          PollerWaitTimeLowerBound, PollerWaitTimeUpperBound,
          PollerInitCount, PollerMinCount, PollerMaxCount

ASSUME AutoScalerAssumption ==
    /\ Window \in Nat \ {0}
    /\ WaitTimes \subseteq Int
    /\ {PollerInitCount, PollerMinCount, PollerMaxCount} \subseteq Nat \ {0}
    /\ PollerMinCount <= PollerMaxCount

VARIABLES
    quota,     \* the limit of the poller permit
    enabled,
    window, index, sum, count,  \* rollingAverage
    cooling   \* less than the cooldown has passed since pollerPermitLastUpdate

average == <<window, index, sum, count>>
scaler == <<quota, enabled, average, cooling>>

Added == {w \in WaitTimes : w >= 0}

AutoScalerTypeOK ==
    /\ quota \in 1..(PollerMaxCount + PollerInitCount)
    /\ enabled \in BOOLEAN /\ cooling \in BOOLEAN
    /\ window \in [0..(Window - 1) -> Added \cup {0}]
    /\ index \in 0..(Window - 1)
    /\ count \in 0..Window
    /\ sum \in Nat

\* NewConcurrencyAutoScaler: only a hint turns it on.
AutoScalerInit ==
    /\ quota = PollerInitCount
    /\ enabled = FALSE
    /\ window = [i \in 0..(Window - 1) |-> 0]
    /\ index = 0 /\ sum = 0 /\ count = 0
    /\ cooling = TRUE

-----------------------------------------------------------------------------

\* rollingAverage.Add
Add(w) ==
    /\ sum' = sum + w - window[index]
    /\ window' = [window EXCEPT ![index] = w]
    /\ index' = (index + 1) % Window
    /\ count' = IF count < Window THEN count + 1 ELSE count

Average == IF count = 0 THEN 0 ELSE sum \div count

\* A hint may be missing, and so may its wait time.
Hints == {None} \cup [wait : WaitTimes \cup {None}, enable : BOOLEAN]

\* Mutant: switching the scaler off leaves the quota where it was.
resetConcurrencyNever == UNCHANGED quota

resetConcurrency == quota' = PollerInitCount

ProcessPollerHint(hint) ==
    IF hint = None
    THEN UNCHANGED scaler
    ELSE /\ IF hint.wait \in Added THEN Add(hint.wait) ELSE UNCHANGED average
         /\ enabled' = hint.enable
         /\ IF enabled /\ ~hint.enable THEN resetConcurrency ELSE UNCHANGED quota
         /\ UNCHANGED cooling

clamp(q) ==
    IF q > PollerMaxCount THEN PollerMaxCount
    ELSE IF q < PollerMinCount THEN PollerMinCount ELSE q

scaleUpPollerPermit == {clamp(q) : q \in quota..(quota + PollerMaxCount)}

scaleDownPollerPermit == {clamp(q) : q \in 0..quota}

\* One tick; a tick that finds the scaler off, in its cooldown or the average
\* within its bounds changes nothing.
updatePollerPermit ==
    /\ enabled /\ ~cooling
    /\ \/ /\ Average < PollerWaitTimeLowerBound
          /\ quota' \in scaleUpPollerPermit
       \/ /\ Average > PollerWaitTimeUpperBound
          /\ quota' \in scaleDownPollerPermit
    /\ cooling' = TRUE
    /\ UNCHANGED <<enabled, average>>

\* The clock passes pollerPermitLastUpdate + cooldown.
CooldownEnds ==
    /\ cooling
    /\ cooling' = FALSE
    /\ UNCHANGED <<quota, enabled, average>>

-----------------------------------------------------------------------------
(* Properties                                                              *)

\* While no hint has the scaler on, the pollers run with their initial quota
\* ("gracefully switching the auto scaler off to avoid workers stuck in the
\* wrong state"), and a quota that the scaler has set respects its limits.
QuotaFollowsHints ==
    /\ ~enabled => quota = PollerInitCount
    /\ quota # PollerInitCount => quota \in PollerMinCount..PollerMaxCount
=============================================================================
