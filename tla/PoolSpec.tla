------------------------------- MODULE PoolSpec -------------------------------
(***************************************************************************)
(* What a worker pool promises to whoever asks it for another size, and    *)
(* all that the engine, which asks through the scaler, has to know of it   *)
(* (the docstring of rescale_worker_pool_to in actors/scheduler.py).       *)
(*                                                                         *)
(* One change is under way at a time.  It names the new workers and those  *)
(* to go when it begins; they come and go one by one; and it ends when all *)
(* of them have.  Workers also fail, and may be lost for it, at any time;  *)
(* but none is lost that neither failed nor had to go, none comes that no  *)
(* change called for, and the size wanted changes only when a change ends. *)
(***************************************************************************)
EXTENDS Integers, FiniteSets

CONSTANTS WorkerIds, NumWorkers, MinWorkers, MaxWorkers, NoMax

VARIABLES workers,   \* the workers there are
          sick,      \* those among them that failed
          change,    \* the change under way, if any
          desired,   \* the size wanted
          keeper,    \* whoever carries out changes is there
          faults     \* failures so far

vars == <<workers, sick, change, desired, keeper, faults>>

Init == /\ workers = 0..(NumWorkers - 1)
        /\ sick = {}
        /\ change = {}
        /\ desired = NumWorkers
        /\ keeper = TRUE
        /\ faults = 0

\* No more than the maximum, no less than the minimum, and if the minimum is above the
\* maximum, just the maximum.
InRange(n) == /\ MaxWorkers # NoMax => n <= MaxWorkers
              /\ n < MinWorkers => n = MaxWorkers

------------------------------------------------------------------------------

BeginToGrow(fresh) ==
  LET n == Cardinality(workers \cup fresh)
  IN  /\ keeper /\ change = {}
      /\ InRange(n)
      /\ change' = {[target |-> n, fresh |-> fresh, doomed |-> {}]}
      /\ UNCHANGED <<workers, sick, desired, keeper, faults>>

BeginToShrink(n, doomed) ==
  /\ keeper /\ change = {}
  /\ n < Cardinality(workers)
  /\ InRange(n)
  /\ n = 0 => doomed = workers
  /\ change' = {[target |-> n, fresh |-> {}, doomed |-> doomed]}
  /\ UNCHANGED <<workers, sick, desired, keeper, faults>>

Add(w) == /\ keeper
          /\ \E c \in change : /\ w \in c.fresh
                               /\ change' = {[c EXCEPT !.fresh = @ \ {w}]}
          /\ w \notin workers
          /\ workers' = workers \cup {w}
          /\ UNCHANGED <<sick, desired, keeper, faults>>

Remove(w) == /\ keeper
             /\ \E c \in change : w \in c.doomed
             /\ w \in workers
             /\ workers' = workers \ {w}
             /\ sick' = sick \ {w}
             /\ UNCHANGED <<change, desired, keeper, faults>>

End == /\ keeper
       /\ \E c \in change : /\ c.fresh = {}
                            /\ c.doomed \cap workers = {}
                            /\ desired' = c.target
       /\ change' = {}
       /\ UNCHANGED <<workers, sick, keeper, faults>>

------------------------------------------------------------------------------

\* A worker fails, and is lost at once or may be.
Fail(w) == /\ w \in workers
           /\ faults' = faults + 1
           /\ \/ sick' = sick \cup {w} /\ UNCHANGED workers
              \/ sick' = sick \ {w} /\ workers' = workers \ {w}
           /\ UNCHANGED <<change, desired, keeper>>

Recover(w) == /\ w \in sick
              /\ sick' = sick \ {w}
              /\ UNCHANGED <<workers, change, desired, keeper, faults>>

Lose(w) == /\ w \in sick
           /\ workers' = workers \ {w}
           /\ sick' = sick \ {w}
           /\ UNCHANGED <<change, desired, keeper, faults>>

\* The change under way ends undone.
KeeperFails == /\ keeper
               /\ keeper' = FALSE
               /\ change' = {}
               /\ faults' = faults + 1
               /\ UNCHANGED <<workers, sick, desired>>

OthersFail == faults' = faults + 1 /\ UNCHANGED <<workers, sick, change, desired, keeper>>

Next == \/ \E fresh \in SUBSET (WorkerIds \ workers) : BeginToGrow(fresh)
        \/ \E n \in 0..Cardinality(workers), doomed \in SUBSET workers : BeginToShrink(n, doomed)
        \/ \E w \in WorkerIds : Add(w) \/ Remove(w) \/ Fail(w) \/ Recover(w) \/ Lose(w)
        \/ End \/ KeeperFails \/ OthersFail

Spec == Init /\ [][Next]_vars
==============================================================================
