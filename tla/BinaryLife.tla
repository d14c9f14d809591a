------------------------------ MODULE BinaryLife ------------------------------
(***************************************************************************)
(* What an actor may expect of the runner of its binary, whichever it is   *)
(* (the methods of Runner in actors/runtimes/base.py, as start, stop and   *)
(* is_ready of the scheduler and worker actors use them).                  *)
(*                                                                         *)
(* An actor process that dies leaves its binary behind, as an orphan.  The *)
(* next one launches its own only when no orphan is left; what it stops is *)
(* its own; after stop() there is none; and it reports ready only while    *)
(* its own runs.                                                           *)
(***************************************************************************)
CONSTANT Instances

VARIABLES actor,      \* the actor process of each instance
          binary,     \* the binary of the instance, and whether its actor launched it
          ready       \* the last answer of is_ready

vars == <<actor, binary, ready>>

Init == /\ actor = [i \in Instances |-> "absent"]
        /\ binary = [i \in Instances |-> "none"]
        /\ ready = [i \in Instances |-> FALSE]

Start(i) == /\ actor[i] = "absent"
            /\ actor' = [actor EXCEPT ![i] = "starting"]
            /\ UNCHANGED <<binary, ready>>

\* stop_orphans: "Reclaim what a crashed previous instance left, before starting anew."
Reclaim(i) == /\ actor[i] = "starting"
              /\ binary[i] = "orphan"
              /\ binary' = [binary EXCEPT ![i] = "none"]
              /\ UNCHANGED <<actor, ready>>

\* start: "Launch the binary ..., without waiting for it."
Launch(i) == /\ actor[i] = "starting"
             /\ binary[i] = "none"
             /\ actor' = [actor EXCEPT ![i] = "running"]
             /\ binary' = [binary EXCEPT ![i] = "own"]
             /\ UNCHANGED ready

Fail(i) == /\ actor[i] = "starting"
           /\ actor' = [actor EXCEPT ![i] = "absent"]
           /\ UNCHANGED <<binary, ready>>

\* is_alive and is_listening, as is_ready of the actors combines them.
Report(i) == /\ actor[i] = "running"
             /\ \E yes \in {FALSE, binary[i] = "own"} : ready' = [ready EXCEPT ![i] = yes]
             /\ UNCHANGED <<actor, binary>>

Exit(i) == /\ binary[i] # "none"
           /\ binary' = [binary EXCEPT ![i] = "none"]
           /\ UNCHANGED <<actor, ready>>

\* stop: "Stop the binary, killing it if needed".
Stop(i) == /\ actor[i] = "running"
           /\ actor' = [actor EXCEPT ![i] = "stopped"]
           /\ binary' = [binary EXCEPT ![i] = "none"]
           /\ ready' = [ready EXCEPT ![i] = FALSE]

Die(i) == /\ actor[i] # "absent"
          /\ actor' = [actor EXCEPT ![i] = "absent"]
          /\ binary' = [binary EXCEPT ![i] = IF @ = "own" THEN "orphan" ELSE @]
          /\ ready' = [ready EXCEPT ![i] = FALSE]

Next == \E i \in Instances : \/ Start(i) \/ Reclaim(i) \/ Launch(i) \/ Fail(i)
                             \/ Report(i) \/ Exit(i) \/ Stop(i) \/ Die(i)

Spec == Init /\ [][Next]_vars
===============================================================================
