---------------------------- MODULE QueryDefaults ----------------------------
(* How many workers a query gets, and may get at most, when neither it nor the   *)
(* scheduler's settings say so (config.py). The binary is given both numbers.    *)
EXTENDS Integers

CONSTANTS NumWorkers, MinWorkers, MaxWorkers, NoMax,   \* of the cluster
          MaxWorkersPerQuery,                          \* of the scheduler; 0 if not given
          DefaultWorkersPerQuery,
          ScalingEnabled

Typed == /\ {NumWorkers, MinWorkers, MaxWorkersPerQuery, DefaultWorkersPerQuery} \subseteq Nat
         /\ MaxWorkers \in Nat \cup {NoMax}
         /\ NoMax \notin Nat
         /\ ScalingEnabled \in BOOLEAN

\* Python's "or": an explicit 0 is passed over like None.
Or(a, b) == IF a # 0 THEN a ELSE b

Bound == IF MaxWorkers = NoMax THEN 0 ELSE MaxWorkers

\* 0 is not handed on: no bound.
MaxPerQuery     == Or(MaxWorkersPerQuery, Or(Bound, NumWorkers))
DefaultPerQuery == LET sized == Or(DefaultWorkersPerQuery, Or(NumWorkers, MinWorkers))
                   IN  IF ScalingEnabled THEN Or(sized, 1) ELSE sized
==============================================================================
