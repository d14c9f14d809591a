------------------------------ MODULE SingleHost ------------------------------
(***************************************************************************)
(* A whole cluster on one host (single_host_cluster), without autoscaling: *)
(* a driver that starts and stops it again and again (cluster.py), the     *)
(* actors of Ray's registry, and the binary each runs with                 *)
(* SubprocessRunner.  Only on a single host does start() look first        *)
(* whether the ports of the actors it is about to create are free          *)
(* (config.py).                                                            *)
(*                                                                         *)
(* The driver and Ray step here as in Cluster, the actor processes and     *)
(* their binaries as in Runner; what they do at once, such as the death of *)
(* an actor process in Ray's books and on the host, is one step.           *)
(***************************************************************************)
EXTENDS RayActors, Runner

ASSUME SingleHostAssumption == /\ Scheduler \in Instances
                               /\ Instances \subseteq WorkerIds \cup {Scheduler}
                               /\ ~OrphansListen

VARIABLES driver,     \* how far start() or stop() is
          todo,       \* the actors it is checking the ports of, creating or terminating
          mishap      \* an actor process died, failed to start or did not stop in time

hostVars    == <<driver, todo, mishap>>
clusterVars == <<rayVars, vars, hostVars>>

Workers == Instances \ {Scheduler}

ClusterTypeOK ==
  /\ RayTypeOK
  /\ TypeOK
  /\ driver \in {"out", "check", "make", "host", "work", "wait", "up", "refused", "failed",
                 "stop workers", "kill workers", "stop scheduler", "kill scheduler"}
  /\ todo \subseteq Instances
  /\ mishap \in BOOLEAN

\* Nothing is there.
ClusterInit == /\ Init
               /\ status = [n \in Names |-> "dead"]
               /\ gen = [n \in Names |-> 0]
               /\ restarts = [n \in Names |-> 0]
               /\ faults = 0
               /\ driver = "out"
               /\ todo = {}
               /\ mishap = FALSE

Idle      == driver \in {"out", "up", "refused", "failed"}
To(where) == driver' = where

------------------------------------------------------------------------------
(* start() *)

\* The actors that have no name yet will need their ports ...
LookUp == /\ Idle
          /\ To("check")
          /\ todo' = {n \in Instances : ~Registered(n)}
          /\ UNCHANGED <<rayVars, vars, mishap>>

\* ... each of which must be free to bind.
Taken(n) == \E p \in Pids : InTheWay(p, n)

CheckPorts == /\ driver = "check"
              /\ \A n \in todo : ~Taken(n)
              /\ To("make")
              /\ UNCHANGED <<rayVars, vars, todo, mishap>>

\* Port(s) already in use, aborting.
Refuse == /\ driver = "check"
          /\ \E n \in todo : Taken(n)
          /\ To("refused")
          /\ UNCHANGED <<rayVars, vars, todo, mishap>>

\* Each actor is found, or created.
Obtain(n) == IF Registered(n) THEN UNCHANGED rayVars
             ELSE gen[n] < MaxIncarnations /\ Create(n)     \* bound

MakeScheduler == /\ driver = "make"
                 /\ Obtain(Scheduler)
                 /\ To("host")
                 /\ UNCHANGED <<vars, todo, mishap>>

GetHost == /\ driver = "host"
           /\ status[Scheduler] = "alive"
           /\ To("work")
           /\ todo' = Workers
           /\ UNCHANGED <<rayVars, vars, mishap>>

MakeWorker(w) == /\ driver = "work"
                 /\ w \in todo
                 /\ Obtain(w)
                 /\ todo' = todo \ {w}
                 /\ UNCHANGED <<vars, driver, mishap>>

AllMade == /\ driver = "work"
           /\ todo = {}
           /\ To("wait")
           /\ todo' = Instances
           /\ UNCHANGED <<rayVars, vars, mishap>>

SeesReady(n) == /\ driver = "wait"
                /\ n \in todo
                /\ status[n] = "alive"
                /\ ready[n]
                /\ todo' = todo \ {n}
                /\ UNCHANGED <<rayVars, vars, driver, mishap>>

AllReady == /\ driver = "wait"
            /\ todo = {}
            /\ To("up")
            /\ UNCHANGED <<rayVars, vars, todo, mishap>>

\* A timeout, or an actor died.
StartFails == /\ driver \in {"host", "wait"}
              /\ To("failed")
              /\ UNCHANGED <<rayVars, vars, todo, mishap>>

------------------------------------------------------------------------------
(* stop() *)

BeginStop == /\ Idle
             /\ To("stop workers")
             /\ todo' = {w \in Workers : Registered(w)}
             /\ UNCHANGED <<rayVars, vars, mishap>>

Asks == driver \in {"stop workers", "kill workers", "stop scheduler", "kill scheduler"}

\* An actor that is asked serves the call once it is between others.
ServeStop(n) == /\ Asks /\ n \in todo
                /\ status[n] = "alive"
                /\ Stop(n)
                /\ UNCHANGED <<rayVars, hostVars>>

Kills == IF driver = "stop workers" THEN "kill workers" ELSE "kill scheduler"

\* Mutant: stop() does not wait for the answers.
StopHastily == /\ driver \in {"stop workers", "stop scheduler"}
               /\ To(Kills)
               /\ UNCHANGED <<rayVars, vars, todo, mishap>>

AllStopped == /\ driver \in {"stop workers", "stop scheduler"}
              /\ \A n \in todo : pc[n] = "stopped"
              /\ To(Kills)
              /\ UNCHANGED <<rayVars, vars, todo, mishap>>

\* actor_response_timeout expired, or an actor died.
StopGivesUp == /\ driver \in {"stop workers", "stop scheduler"}
               /\ \E n \in todo : pc[n] # "stopped"
               /\ To(Kills)
               /\ mishap' = TRUE
               /\ UNCHANGED <<rayVars, vars, todo>>

\* ray.kill ends the process, too, if there is one.
KillActor(n) == /\ driver \in {"kill workers", "kill scheduler"}
                /\ n \in todo
                /\ Kill(Handle(n))
                /\ IF pc[n] \in {"down", "failed"} THEN UNCHANGED vars ELSE ActorDies(n)
                /\ todo' = todo \ {n}
                /\ UNCHANGED <<driver, mishap>>

WorkersKilled == /\ driver = "kill workers"
                 /\ todo = {}
                 /\ To("stop scheduler")
                 /\ todo' = {n \in {Scheduler} : Registered(n)}
                 /\ UNCHANGED <<rayVars, vars, mishap>>

StopEnds == /\ driver = "kill scheduler"
            /\ todo = {}
            /\ To("out")
            /\ UNCHANGED <<rayVars, vars, todo, mishap>>

------------------------------------------------------------------------------
(* The actors. *)

\* Ray runs __init__ in a new process.
ProcessStarts(n) == /\ status[n] \in {"pending", "restarting"}
                    /\ ActorStarts(n)
                    /\ UNCHANGED <<rayVars, hostVars>>

\* __init__ and the calls it makes.
Proceeds(n) == /\ \/ PassOver(n) \/ MeetOrphan(n) \/ TerminateOrphan(n) \/ OrphanReaped(n)
                  \/ ScanEnds(n) \/ WriteConfig(n) \/ Spawn(n)
                  \/ PollDead(n) \/ PollAlive(n) \/ Probe(n) \/ StopStep(n)
               /\ UNCHANGED <<rayVars, hostVars>>

IsUp(n) == /\ pc[n] = "up"
           /\ InitReturns(n)
           /\ UNCHANGED <<vars, hostVars>>

\* An exception out of __init__ ends the actor for good.
Raises(n) == /\ MeetForeign(n) \/ OrphanVanished(n) \/ SpawnFails(n)
             /\ status' = [status EXCEPT ![n] = "dead"]
             /\ mishap' = TRUE
             /\ UNCHANGED <<gen, restarts, faults, driver, todo>>

Dies(n) == /\ ActorDies(n)
           /\ ProcessDies(n)
           /\ mishap' = TRUE
           /\ UNCHANGED <<driver, todo>>

RayNotices(n) == /\ IsRestarted(n) \/ IsGivenUp(n)
                 /\ UNCHANGED <<vars, hostVars>>

BinaryStep(p) == /\ Binds(p) \/ Exits(p) \/ ClosesPorts(p)
                 /\ UNCHANGED <<rayVars, hostVars>>

ClusterNext == \/ LookUp \/ CheckPorts \/ Refuse \/ MakeScheduler \/ GetHost
               \/ AllMade \/ AllReady \/ StartFails
               \/ BeginStop \/ AllStopped \/ StopGivesUp \/ WorkersKilled \/ StopEnds
               \/ \E n \in Instances : \/ MakeWorker(n) \/ SeesReady(n)
                                       \/ ServeStop(n) \/ KillActor(n)
                                       \/ ProcessStarts(n) \/ Proceeds(n) \/ IsUp(n)
                                       \/ Raises(n) \/ Dies(n) \/ RayNotices(n)
               \/ \E p \in Pids : BinaryStep(p)

ClusterSpec == ClusterInit /\ [][ClusterNext]_clusterVars

------------------------------------------------------------------------------
(* What the cluster promises its host. *)

\* As long as nothing went wrong, no binary is ever without its actor, whatever start() and
\* stop() did, a start() that timed out included.
OrphansHaveCause == ~mishap => \A n \in Instances : Running(n) \subseteq handle[n]

\* ... and a stop() that returned has left neither a binary nor a configuration
\* (cluster.py:291-335, worker.py:104-108).
StopCleansHost ==
  driver = "out" /\ ~mishap => /\ \A p \in Pids : ~Live(p)
                               /\ files = {}

\* ... and start() finds all its ports free: it only ever refuses because of what a crash, a
\* failed start or a stop() cut short left behind (config.py:976-1023).
RefusalHasCause == driver = "refused" => mishap

\* ... and an actor that answers start() that it is ready speaks of its own binary
\* (worker.py:110-117: "alive and listening"), not of one an earlier start() left. After a
\* crash this need not be so: is_alive asks for the process that was launched and
\* is_listening for any that listens, which may be an orphan that stop_orphans passed over
\* while it was booting (subprocess.py:47-49).
ReadyMeansOwn ==
  [][\A n \in Instances : pc[n] = "probe" /\ pc'[n] = "up" /\ ready'[n] /\ ~mishap
       => \E p \in handle[n] : Bound(p)]_clusterVars

(* What the repository says, and the cluster does not keep. *)

\* actors/runtimes/base.py:79: "Reclaim what a crashed previous instance left, before
\* starting anew." All binaries here are of this cluster, so start() never has a reason to
\* refuse.
NeverRefused == driver # "refused"
===============================================================================
