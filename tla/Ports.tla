-------------------------------- MODULE Ports --------------------------------
(* The ports a worker's binary is configured with (config.py). *)
EXTENDS Integers

CONSTANTS TaskPort, ShufflePort,     \* of worker 0, as configured
          SingleHost                 \* single_host_cluster

ASSUME PortsAssumption == TaskPort \in Nat /\ ShufflePort \in Nat /\ SingleHost \in BOOLEAN

WorkerPortOffset(w) == IF SingleHost THEN 2 * w ELSE 0
WorkerPorts(w)      == {TaskPort + WorkerPortOffset(w), ShufflePort + WorkerPortOffset(w)}
=============================================================================
