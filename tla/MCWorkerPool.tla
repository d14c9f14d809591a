----------------------------- MODULE MCWorkerPool -----------------------------
(* Instances of WorkerPool small enough for TLC. *)
EXTENDS WorkerPool

ScaleTo(n, delete, keep) == [kind |-> "scale_to", amount |-> n,
                             delete |-> delete, keep |-> keep]
ScaleConfig == [kind |-> "scale_config", amount |-> 0, delete |-> {}, keep |-> {}]

MCTerminators == {Scheduler}

\* Growing past the maximum, shrinking with and without hints, emptying,
\* contradictory hints that may be stale by then, a negative amount, and the status.
MixedRequests == { ScaleTo(-1, {}, {}), ScaleTo(4, {}, {}), ScaleTo(1, {}, {}),
                   ScaleTo(0, {}, {1}), ScaleTo(1, {0}, {0, 1}), ScaleConfig }

\* A pool of three with two to be left, of which the caller names one.
KeepRequests == { ScaleTo(2, {}, {0}) }
==============================================================================
