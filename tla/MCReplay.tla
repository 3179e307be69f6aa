------------------------------ MODULE MCReplay ------------------------------
(***************************************************************************)
(* Small workflows, each with its deployments and its bounds.              *)
(***************************************************************************)
EXTENDS Replay

CONSTANTS change, mutable, oldType, newType

S(op, id) == [op |-> op, id |-> id, when |-> None]
If(s, version) == [s EXCEPT !.when = <<change, version>>]
Ver(min, max, option) == [op |-> "Version", id |-> change, when |-> None, min |-> min,
                          max |-> max, option |-> option, custom |-> 1]
Timer == S("Timer", None)
Activity(type) == S("Activity", type)
Effect == S("SideEffect", None)
Mutable == S("MutableSideEffect", mutable)
Local == S("LocalActivity", None)
Upsert == S("Upsert", None)
Signaled == S("Await", None)
Ret(kind) == S("Return", kind)

Bounds == [codes |-> <<>>, signals |-> 2, faults |-> 1, tests |-> 1, pageSize |-> 3,
           policy |-> "BlockWorkflow", paced |-> FALSE, compatible |-> TRUE]

\* GetVersion is added to running workflows, as its documentation shows.
Upgrade ==
    [Bounds EXCEPT !.codes =
       <<<<Timer, Signaled, Activity(oldType), Signaled, Ret("Completed")>>,
         <<Timer, Signaled, Ver(-1, 1, "Max"), If(Activity(oldType), -1), If(Activity(newType), 1),
           Signaled, Ver(-1, 1, "Max"), If(Timer, -1), Ret("Completed")>>>>]

\* The versions that the options of GetVersion choose.
Options ==
    [Bounds EXCEPT !.codes =
       <<<<Upsert, Ver(-1, 2, "Custom"), Upsert, Signaled, Ver(-1, 2, "Min"), Upsert,
           Ret("ContinuedAsNew")>>,
         <<Upsert, Ver(1, 2, "Max"), Upsert, Signaled, Ver(1, 2, "Max"), Upsert,
           Ret("ContinuedAsNew")>>>>,
                   !.signals = 1]

MinVersion ==
    [Bounds EXCEPT !.codes =
       <<<<Ver(-1, 1, "Min"), Signaled, Ver(-1, 1, "Max"), If(Timer, 1), Ret("Failed")>>>>]

\* Values that are recorded.
Effects ==
    [Bounds EXCEPT !.codes =
       <<<<Effect, Mutable, Signaled, Effect, Signaled, Effect, Ret("Completed")>>>>]

\* A value that changes, read once in each decision task.
Changes ==
    [Bounds EXCEPT !.codes =
       <<<<Mutable, Effect, Signaled, Mutable, Signaled, Mutable, Ret("Completed")>>>>,
                   !.paced = TRUE]

\* The same, read in one decision task as often as signals are received.
OftenPlans == {[Changes EXCEPT !.paced = FALSE, !.faults = 0]}

\* Local activities, with decision heartbeats.
Locals ==
    [Bounds EXCEPT !.codes =
       <<<<Ver(-1, 1, "Max"), Local, Timer, Local, Signaled, Effect, Ret("Canceled")>>>>,
                   !.signals = 1, !.faults = 2, !.pageSize = 2]

\* Changes that are not guarded: a call is removed or renamed, the code returns early,
\* and a version is no longer supported.
Removed ==
    [Bounds EXCEPT !.codes =
       <<<<Timer, Signaled, Local, Signaled, Ret("Completed")>>,
         <<Signaled, Activity(oldType), Signaled, Ret("Completed")>>>>,
                   !.faults = 0, !.compatible = FALSE]

Renamed ==
    [Removed EXCEPT !.codes =
       <<<<Activity(oldType), Signaled, Signaled, Ret("Completed")>>,
         <<Activity(newType), Signaled, Signaled, Ret("Completed")>>>>,
                    !.policy = "FailWorkflow"]

Shortened ==
    [Removed EXCEPT !.codes = <<<<Effect, Signaled, Ret("Completed")>>,
                                <<Effect, Ret("Completed")>>>>]

Unsupported ==
    [Removed EXCEPT !.codes =
       <<<<Timer, Signaled, Local, Ret("Completed")>>,
         <<Timer, Ver(1, 1, "Max"), Signaled, Timer, Ret("Completed")>>>>]

\* No local activity is waited for where the history has the marker of one.
NoLonger ==
    [Removed EXCEPT !.codes =
       <<<<Effect, Local, Signaled, Ret("Completed")>>,
         <<Effect, Effect, Signaled, Signaled, Ret("Completed")>>>>]

MCPlans == {Upgrade, Options, MinVersion, Effects, Changes, Locals, Removed, Renamed,
            Shortened, Unsupported, NoLonger}
=============================================================================
