------------------------------ MODULE RayActors ------------------------------
(***************************************************************************)
(* Ray's registry of named actors, as far as the package relies on it.     *)
(* Ray is not under src/: this is what cluster.py, actors/scheduler.py and *)
(* actors/utils.py assume of get_actor, list_actors, ray.kill and          *)
(* max_restarts.                                                           *)
(*                                                                         *)
(* The workers are named by their ids; scheduler and scaler have one name  *)
(* each.  A name that is not "dead" is taken, resolves with get_actor and  *)
(* shows up in list_actors, whether or not a process runs behind it:       *)
(*                                                                         *)
(*   pending      created, __init__ has not returned                       *)
(*   alive        __init__ returned, calls are served                      *)
(*   zombie       the process is gone, Ray has not noticed                 *)
(*   restarting   Ray starts it again, __init__ has not returned           *)
(*   dead         no such actor                                            *)
(***************************************************************************)
EXTENDS Integers, FiniteSets

CONSTANTS MaxId,          \* bound: the highest worker id a run reaches
          MaxRestarts,    \* worker_max_restarts
          MaxFaults,      \* bound: failures of actor processes in a run
          Scheduler,      \* the name of the scheduler actor
          Scaler          \* the name of the scaler actor

WorkerIds == 0..MaxId
Unlimited == -1           \* of worker_max_restarts: no limit
Names     == WorkerIds \cup {Scheduler, Scaler}

ASSUME ActorsAssumption == /\ MaxId \in Nat
                           /\ MaxRestarts \in Nat \cup {Unlimited}
                           /\ MaxFaults \in Nat
                           /\ Scheduler \notin WorkerIds
                           /\ Scaler \notin WorkerIds
                           /\ Scaler # Scheduler

VARIABLES status,    \* what the registry says of each name
          gen,       \* how many actors bore the name so far
          restarts,  \* how often the present one was restarted
          faults     \* failures so far

rayVars == <<status, gen, restarts, faults>>

Status == {"dead", "pending", "alive", "zombie", "restarting"}

RayTypeOK == /\ status \in [Names -> Status]
             /\ gen \in [Names -> Nat]
             /\ restarts \in [Names -> Nat]
             /\ faults \in 0..MaxFaults

\* Only worker actors are created with max_restarts.
MayRestart(n) == /\ n \in WorkerIds
                 /\ MaxRestarts = Unlimited \/ restarts[n] < MaxRestarts

Registered(n) == status[n] # "dead"
Listed        == {w \in WorkerIds : Registered(w)}   \* state != DEAD

\* A handle stays bound to the actor it was resolved for: a later actor of the
\* same name is another one.
Handle(n)       == <<n, gen[n]>>
Resolves(h)     == Registered(h[1]) /\ gen[h[1]] = h[2]
Incarnation(n)  == <<n, gen[n], restarts[n]>>

------------------------------------------------------------------------------

\* .options(name=...).remote(...): Ray refuses a name that is taken.
Create(n) == /\ ~Registered(n)
             /\ status' = [status EXCEPT ![n] = "pending"]
             /\ gen'    = [gen EXCEPT ![n] = @ + 1]
             /\ restarts' = [restarts EXCEPT ![n] = 0]
             /\ UNCHANGED faults

\* ray.kill with its default no_restart=True; nothing happens to a successor.
Kill(h) == /\ status' = IF Resolves(h) THEN [status EXCEPT ![h[1]] = "dead"] ELSE status
           /\ UNCHANGED <<gen, restarts, faults>>

InitReturns(n) == /\ status[n] \in {"pending", "restarting"}
                  /\ status' = [status EXCEPT ![n] = "alive"]
                  /\ UNCHANGED <<gen, restarts, faults>>

\* An exception out of __init__ is final: the actor is not restarted.
InitRaises(n) == /\ status[n] \in {"pending", "restarting"}
                 /\ faults < MaxFaults
                 /\ faults' = faults + 1
                 /\ status' = [status EXCEPT ![n] = "dead"]
                 /\ UNCHANGED <<gen, restarts>>

ProcessDies(n) == /\ status[n] \in {"pending", "alive", "restarting"}
                  /\ faults < MaxFaults
                  /\ faults' = faults + 1
                  /\ status' = [status EXCEPT ![n] = "zombie"]
                  /\ UNCHANGED <<gen, restarts>>

\* Ray notices: it restarts the actor while restarts are left ...
IsRestarted(n) == /\ status[n] = "zombie"
                  /\ MayRestart(n)
                  /\ status' = [status EXCEPT ![n] = "restarting"]
                  /\ restarts' = [restarts EXCEPT ![n] = @ + 1]
                  /\ UNCHANGED <<gen, faults>>

\* ... and then gives the name free.
IsGivenUp(n) == /\ status[n] = "zombie"
                /\ ~MayRestart(n)
                /\ status' = [status EXCEPT ![n] = "dead"]
                /\ UNCHANGED <<gen, restarts, faults>>
==============================================================================
