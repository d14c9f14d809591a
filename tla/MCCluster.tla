------------------------------ MODULE MCCluster ------------------------------
(* Instances of Cluster small enough for TLC. *)
EXTENDS Cluster, TLC

MCTerminators == Drivers \cup {Scheduler}

\* The scheduler only asks for the state of the pool.
StatusRequests == { [kind |-> "scale_config", amount |-> 0, delete |-> {}, keep |-> {}] }

\* It also has the pool grown and shrunk, ...
ScaleRequests == { [kind |-> "scale_to", amount |-> n, delete |-> {}, keep |-> {}] : n \in 0..2 }

\* ... past the maximum, and below the minimum, which the scaler refuses and a driver may ask for.
GrowRequests == { [kind |-> "scale_to", amount |-> n, delete |-> {}, keep |-> {}] : n \in {-1, 4} }

DriversAlike == Permutations(Drivers)
==============================================================================
