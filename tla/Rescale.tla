------------------------------- MODULE Rescale -------------------------------
(***************************************************************************)
(* What PolarsSchedulerActor.rescale_worker_pool_to decides before it acts *)
(* on any worker: the target after clamping, the ids a larger pool takes,  *)
(* the workers a smaller pool loses.  Workers are named by their id: the   *)
(* namespace of a cluster only ever holds names worker-<id>, so the prefix *)
(* filter of list_actor_names and the regular expression of worker.py pick *)
(* the same actors.                                                        *)
(***************************************************************************)
EXTENDS Integers, FiniteSets

CONSTANTS MinWorkers, MaxWorkers

NoMax == -1                      \* max_workers = None

ASSUME BoundsAssumption == /\ MinWorkers \in Nat
                           /\ MaxWorkers \in Nat \cup {NoMax}

Larger(m, n)  == IF m < n THEN n ELSE m
Smaller(m, n) == IF n < m THEN n ELSE m

\* Mutant: max_workers is not looked at.
ClampForgetsMax(amount) == Larger(MinWorkers, amount)

\* The request, raised to min_workers first and lowered to max_workers last:
\* with max_workers below min_workers (nothing forbids it) max_workers wins.
Clamp(amount) == LET raised == Larger(MinWorkers, amount)
                 IN  IF MaxWorkers = NoMax THEN raised ELSE Smaller(MaxWorkers, raised)

\* Mutant: counts the workers instead of looking at their ids.
OffsetCounts(ids) == Cardinality(ids)

\* One above the highest id in use, 0 for an empty pool.
Offset(ids) == IF ids = {} THEN 0 ELSE 1 + CHOOSE i \in ids : \A j \in ids : j <= i

\* The ids _add_worker is called with: none unless the pool is too small.
NewIds(ids, n) == Offset(ids) .. (Offset(ids) + n - Cardinality(ids) - 1)

\* Mutant: delete and keep change places.
RemovalsSwapped(ids, n, delete, keep) ==
  { rem \in SUBSET ids :
      \/ n = 0 /\ rem = ids
      \/ n # 0 /\ (delete \cup keep) \cap ids = {} /\ Cardinality(rem) = Cardinality(ids) - n
      \/ n # 0 /\ delete \cap ids = {} /\ rem = keep \cap ids
      \/ n # 0 /\ delete \cap ids # {} /\ rem = keep \cup (ids \ delete) }

\* Mutant: without hints, one worker too few goes.
RemovalsOneShort(ids, n, delete, keep) ==
  { rem \in SUBSET ids :
      \/ n = 0 /\ rem = ids
      \/ n # 0 /\ (delete \cup keep) \cap ids = {} /\ Cardinality(rem) = Cardinality(ids) - n - 1
      \/ n # 0 /\ keep \cap ids = {} /\ delete \cap ids # {} /\ rem = delete \cap ids
      \/ n # 0 /\ keep \cap ids # {} /\ rem = ids \ keep }

\* The sets _remove_workers may be called with when the pool is too large. Hints
\* that name no present worker count as not given; without hints the order of a
\* Python set decides who goes.
Removals(ids, n, delete, keep) ==
  LET del  == delete \cap ids
      kept == keep \cap ids
  IN  { rem \in SUBSET ids :
          \/ n = 0 /\ rem = ids
          \/ n # 0 /\ del \cup kept = {} /\ Cardinality(rem) = Cardinality(ids) - n
          \/ n # 0 /\ del # {} /\ kept = {} /\ rem = del
          \/ n # 0 /\ kept # {} /\ rem = del \cup (ids \ kept) }
==============================================================================
