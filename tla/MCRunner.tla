------------------------------- MODULE MCRunner -------------------------------
(* Instances of Runner small enough for TLC: workers, by their ids. *)
EXTENDS Runner, Ports, TLC

MCPortsOf == [i \in Instances |-> WorkerPorts(i)]

ProcessesAlike == Permutations(Pids)
==============================================================================
