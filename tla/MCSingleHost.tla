----------------------------- MODULE MCSingleHost -----------------------------
(* Instances of SingleHost small enough for TLC. *)
EXTENDS SingleHost, Ports, TLC

SchedulerPorts == {5050, 5051}

MCInstances == {Scheduler, 0}
MCPortsOf   == [n \in Instances |-> IF n = Scheduler THEN SchedulerPorts ELSE WorkerPorts(n)]

ProcessesAlike == Permutations(Pids)
==============================================================================
