------------------------------- MODULE Cluster -------------------------------
(***************************************************************************)
(* The drivers of a cluster (cluster.py) on top of its worker pool: each   *)
(* driver runs PolarsRayCluster.start(), which finds or creates the        *)
(* scaler, the scheduler and the workers and waits for them, and stop(),   *)
(* which terminates whatever it finds.  Nothing serialises two drivers, or *)
(* a driver and the scheduler actor: every look-up and every creation is a *)
(* step of its own.  A driver that starts again after its stop() is one    *)
(* more driver.                                                            *)
(***************************************************************************)
EXTENDS WorkerPool

CONSTANTS Drivers,
          ScalingEnabled     \* scheduler.scaling.enabled

ASSUME DriversAssumption == /\ Drivers \subseteq Terminators \ {Scheduler}
                            /\ Direct \subseteq Drivers
                            /\ ScalingEnabled \in BOOLEAN

VARIABLES pc,      \* how far each driver is
          at,      \* the actor it is looking up or creating
          held,    \* the actors it has yet to see ready
          mine     \* its handle of the scheduler actor, if any: _scheduler_actor

driverVars  == <<pc, at, held, mine>>
clusterVars == <<vars, driverVars>>

ClusterTypeOK ==
  /\ TypeOK
  /\ pc \in [Drivers -> {"out", "look", "make", "host", "wait", "addr", "bootstrap", "up",
                         "failed", "rescale", "unscale", "unwork", "unschedule", "down"}]
  /\ at \in [Drivers -> Names]
  /\ held \in [Drivers -> SUBSET Handles]
  /\ mine \in [Drivers -> SUBSET Handles]

First == IF ScalingEnabled THEN Scaler ELSE Scheduler

\* A cluster that is up, or none at all; no driver is connected.
ClusterInit == /\ \/ InitWith({First, Scheduler} \cup 0..(NumWorkers - 1))
                  \/ InitWith({})
               /\ pc = [d \in Drivers |-> "out"]
               /\ at = [d \in Drivers |-> First]
               /\ held = [d \in Drivers |-> {}]
               /\ mine = [d \in Drivers |-> {}]

Go(d, where) == pc' = [pc EXCEPT ![d] = where]

------------------------------------------------------------------------------
(* start() *)

\* One of the ports of the actors still to be created may be taken on this host: then
\* start() raises before it creates any.
Start(d) == /\ pc[d] = "out"
            /\ Go(d, "look") \/ Go(d, "failed")
            /\ UNCHANGED <<vars, at, held, mine>>

\* Mutant: one worker more than num_workers.
ObtainOneMore(d, h) ==
  /\ held' = [held EXCEPT ![d] = @ \cup {h}]
  /\ mine' = IF at[d] = Scheduler THEN [mine EXCEPT ![d] = {h}] ELSE mine
  /\ \/ at[d] = Scaler /\ Go(d, "wait") /\ UNCHANGED at
     \/ at[d] = Scheduler /\ Go(d, "host") /\ UNCHANGED at
     \/ at[d] = NumWorkers /\ Go(d, "wait") /\ UNCHANGED at
     \/ /\ at[d] \in 0..(NumWorkers - 1)
        /\ Go(d, "look")
        /\ at' = [at EXCEPT ![d] = @ + 1]

\* The handle of actor at[d] is h: on to the next actor, or to waiting for them.
Obtain(d, h) ==
  /\ held' = [held EXCEPT ![d] = @ \cup {h}]
  /\ mine' = IF at[d] = Scheduler THEN [mine EXCEPT ![d] = {h}] ELSE mine
  /\ \/ at[d] = Scaler /\ Go(d, "wait") /\ UNCHANGED at
     \/ at[d] = Scheduler /\ Go(d, "host") /\ UNCHANGED at
     \/ at[d] = NumWorkers - 1 /\ Go(d, "wait") /\ UNCHANGED at
     \/ /\ at[d] \in 0..(NumWorkers - 2)
        /\ Go(d, "look")
        /\ at' = [at EXCEPT ![d] = @ + 1]

\* get_actor finds the name ...
Reconnect(d) == /\ pc[d] = "look"
                /\ Registered(at[d])
                /\ Obtain(d, Handle(at[d]))
                /\ UNCHANGED vars

\* ... or raises ValueError, and the name is to be created.
FindNone(d) == /\ pc[d] = "look"
               /\ ~Registered(at[d])
               /\ Go(d, "make")
               /\ UNCHANGED <<vars, at, held, mine>>

Make(d) == /\ pc[d] = "make"
           /\ Create(at[d])
           /\ StartsOver(at[d])
           /\ Obtain(d, <<at[d], gen[at[d]] + 1>>)
           /\ UNCHANGED poolVars

\* Somebody else created it in between: ValueError, out of start().
MakeCollides(d) == /\ pc[d] = "make"
                   /\ Registered(at[d])
                   /\ Go(d, "failed")
                   /\ UNCHANGED <<vars, at, held, mine>>

\* The scheduler actor answers driver d, between the calls of others.
Answers(d) == Between /\ \E h \in mine[d] : Resolves(h)

GetHost(d) ==
  /\ pc[d] = "host"
  /\ Answers(d)
  /\ IF NumWorkers = 0 THEN Go(d, "wait") /\ UNCHANGED at
                       ELSE Go(d, "look") /\ at' = [at EXCEPT ![d] = 0]
  /\ UNCHANGED <<vars, held, mine>>

\* Mutant: what has a name is taken for ready.
IsNamed(h) == Resolves(h)

IsReady(h) == /\ Resolves(h)
              /\ status[h[1]] = "alive"
              /\ h[1] \notin halted
              /\ h[1] = Scheduler => Between

\* The workers are asked once the scheduler is ready, and none of them again that
\* reported ready.
OneReady(d) ==
  /\ pc[d] = "wait"
  /\ \E h \in held[d] :
       /\ IsReady(h)
       /\ h[1] \in WorkerIds => \A g \in held[d] : g[1] \in WorkerIds
       /\ held' = [held EXCEPT ![d] = @ \ {h}]
  /\ UNCHANGED <<vars, pc, at, mine>>

AllReady(d) ==
  /\ pc[d] = "wait"
  /\ held[d] = {}
  /\ IF at[d] = Scaler THEN Go(d, "look") /\ at' = [at EXCEPT ![d] = Scheduler]
                       ELSE Go(d, "addr") /\ UNCHANGED at
  /\ UNCHANGED <<vars, held, mine>>

\* start() asks for the scheduler's address to log it, ...
GetAddress(d) == /\ pc[d] = "addr"
                 /\ Answers(d)
                 /\ Go(d, "up") \/ Go(d, "bootstrap")
                 /\ UNCHANGED <<vars, at, held, mine>>

\* ... and where a RayClusterContext is started, again for its client.
Bootstrap(d) == /\ pc[d] = "bootstrap"
                /\ Answers(d)
                /\ Go(d, "up")
                /\ UNCHANGED <<vars, at, held, mine>>

\* Mutant: the waits have no timeout.
StartFailsByDeath(d) ==
  /\ pc[d] \in {"host", "wait", "addr", "bootstrap"}
  /\ \E h \in held[d] \cup mine[d] : ~Resolves(h)
  /\ Go(d, "failed")
  /\ UNCHANGED <<vars, at, held, mine>>

\* startup_timeout or actor_response_timeout expired, or the actor died: start() raises,
\* also out of the with statement of a RayClusterContext, which then does not stop().
StartFails(d) ==
  /\ pc[d] \in {"host", "wait", "addr", "bootstrap"}
  /\ pc[d] = "wait" => held[d] # {}
  /\ Go(d, "failed")
  /\ UNCHANGED <<vars, at, held, mine>>

------------------------------------------------------------------------------
(* _rescale_worker_pool_to(), which looks at no amount and at no scaler. *)

AskToRescale(d) ==
  /\ d \in Direct
  /\ pc[d] = "up"
  /\ client[d] = "idle"
  /\ \E r \in Requests : /\ r.kind = "scale_to"
                         /\ request' = [request EXCEPT ![d] = r]
  /\ Go(d, "rescale")
  /\ LET found == \E h \in mine[d] : Resolves(h)
     IN  /\ client' = [client EXCEPT ![d] = IF found THEN "waiting" ELSE "failed"]
         /\ inbox' = IF found /\ status[Scheduler] # "zombie" THEN Append(inbox, d) ELSE inbox
  /\ UNCHANGED <<rayVars, terminationVars, call, desired, at, held, mine>>

\* The answer, or an exception. (The timeout is GiveUp.)
RescaleReturns(d) == /\ pc[d] = "rescale"
                     /\ client[d] \in {"done", "failed"}
                     /\ Go(d, "up")
                     /\ UNCHANGED <<vars, at, held, mine>>

------------------------------------------------------------------------------
(* stop() *)

TerminateFor(d, names, handles) ==
  job' = [job EXCEPT ![d] = [Terminate(names) EXCEPT !.handles = handles]]

\* The scheduler's handle first, as it is now; then the scaler goes ...
Stop(d) ==
  /\ pc[d] \in {"out", "up", "failed"}
  /\ Go(d, "unscale")
  /\ held' = [held EXCEPT ![d] = {}]
  /\ mine' = [mine EXCEPT ![d] = IF Registered(Scheduler) THEN {Handle(Scheduler)} ELSE {}]
  /\ TerminateFor(d, IF ScalingEnabled THEN {Scaler} ELSE {}, {})
  /\ UNCHANGED <<rayVars, halted, poolVars, at>>

\* Mutant: only the workers that are alive.
StopAliveWorkers(d) ==
  /\ pc[d] = "unscale"
  /\ Terminated(d)
  /\ Go(d, "unwork")
  /\ TerminateFor(d, {w \in WorkerIds : status[w] = "alive"}, {})
  /\ UNCHANGED <<rayVars, halted, poolVars, at, held, mine>>

\* ... then the workers there are by now ...
StopWorkers(d) ==
  /\ pc[d] = "unscale"
  /\ Terminated(d)
  /\ Go(d, "unwork")
  /\ TerminateFor(d, Listed, {})
  /\ UNCHANGED <<rayVars, halted, poolVars, at, held, mine>>

\* ... then the scheduler that was there in the beginning.
StopScheduler(d) ==
  /\ pc[d] = "unwork"
  /\ Terminated(d)
  /\ Go(d, "unschedule")
  /\ TerminateFor(d, {}, mine[d])
  /\ UNCHANGED <<rayVars, halted, poolVars, at, held, mine>>

StopEnds(d) == /\ pc[d] = "unschedule"
               /\ Terminated(d)
               /\ Go(d, "down")
               /\ job' = [job EXCEPT ![d] = NoJob]
               /\ mine' = [mine EXCEPT ![d] = {}]
               /\ UNCHANGED <<rayVars, halted, poolVars, at, held>>

\* A killed scaler hangs up on those it served.
KillScaler(d) ==
  /\ pc[d] = "unscale"
  /\ job[d].phase = "kill"
  /\ \E h \in job[d].handles :
       /\ Kill(h)
       /\ job' = [job EXCEPT ![d].handles = @ \ {h}]
       /\ client' = IF Resolves(h) THEN HangUp ELSE client
  /\ UNCHANGED <<halted, request, inbox, call, desired, driverVars>>

\* A killed scheduler actor takes along the calls it holds and what it was doing.
KillScheduler(d) ==
  /\ pc[d] = "unschedule"
  /\ job[d].phase = "kill"
  /\ \E h \in job[d].handles :
       /\ Kill(h)
       /\ job' = [job EXCEPT ![d].handles = @ \ {h},
                             ![Scheduler] = IF Resolves(h) THEN NoJob ELSE @]
       /\ inbox' = IF Resolves(h) THEN <<>> ELSE inbox
       /\ call'  = IF Resolves(h) THEN NoCall ELSE call
  /\ UNCHANGED <<halted, client, request, desired, driverVars>>

Terminates(d) == /\ \/ ResolveName(d)
                    \/ AskToStop(d)
                    \/ AllStopped(d)
                    \/ StopGivesUp(d)
                    \/ pc[d] = "unwork" /\ KillNext(d)
                 /\ UNCHANGED <<poolVars, driverVars>>

StartStep(d) == \/ Reconnect(d) \/ FindNone(d) \/ Make(d) \/ MakeCollides(d)
                \/ GetHost(d) \/ OneReady(d) \/ AllReady(d) \/ GetAddress(d)
                \/ Bootstrap(d) \/ StartFails(d)

RescaleStep(d) == \/ RescaleReturns(d)
                  \/ d \in Direct /\ GiveUp(d) /\ UNCHANGED driverVars

StopStep(d) == \/ StopWorkers(d) \/ StopScheduler(d) \/ StopEnds(d)
               \/ KillScaler(d) \/ KillScheduler(d) \/ Terminates(d)

------------------------------------------------------------------------------
(* The actors. *)

\* A new scheduler actor knows of num_workers workers, whatever there are.
SchedulerStarts == /\ InitReturns(Scheduler)
                   /\ desired' = NumWorkers
                   /\ UNCHANGED <<terminationVars, client, request, inbox, call, driverVars>>

\* stop() is one more call to the scheduler actor, and served between others.
SchedulerHalts == Between /\ Halt(Scheduler) /\ UNCHANGED <<poolVars, driverVars>>

\* _add_worker when a driver made the worker meanwhile: the ValueError ends the call, and its caller gets it.
AddCollides ==
  /\ status[Scheduler] = "alive"
  /\ call.step = "add"
  /\ \E w \in WorkerIds : IsNext(w) /\ Registered(w)
  /\ Answer(call.client, "failed")
  /\ call' = NoCall
  /\ UNCHANGED <<rayVars, terminationVars, request, inbox, desired, driverVars>>

ScalerStep == /\ \/ Halt(Scaler)
                 \/ (InitReturns(Scaler) \/ InitRaises(Scaler))
                    /\ UNCHANGED terminationVars
              /\ UNCHANGED <<poolVars, driverVars>>

ClusterNext == \/ \E d \in Drivers : \/ Start(d) \/ StartStep(d)
                                     \/ AskToRescale(d) \/ RescaleReturns(d)
                                     \/ Stop(d) \/ StopStep(d)
               \/ SchedulerStarts \/ SchedulerHalts \/ AddCollides \/ ScalerStep
               \/ Next /\ UNCHANGED driverVars

\* A driver that called start(), stop() or for another size keeps running, and every wait
\* of it has a timeout. Nothing makes it call any, and nobody else need ever do anything.
ClusterSpec == /\ ClusterInit
               /\ [][ClusterNext]_clusterVars
               /\ \A d \in Drivers : /\ WF_clusterVars(StartStep(d))
                                     /\ WF_clusterVars(RescaleStep(d))
                                     /\ WF_clusterVars(StopStep(d))

------------------------------------------------------------------------------
(* What start() and stop() promise. *)

Starting(d) == pc[d] \in {"look", "make", "host", "wait", "addr", "bootstrap"}
Stopping(d) == pc[d] \in {"unscale", "unwork", "unschedule"}

\* start() and _rescale_worker_pool_to() return or raise, and stop() returns, whoever else
\* creates, rescales or terminates the same actors, dies or never answers
\* (cluster.py:243-335).
DriversGetThrough ==
  \A d \in Drivers : /\ Starting(d) ~> pc[d] \in {"up", "failed", "rescale", "unscale"}
                     /\ pc[d] = "rescale" ~> pc[d] \in {"up", "unscale"}
                     /\ Stopping(d) ~> pc[d] = "down"

\* While nothing failed, and nobody rescaled or stopped anything, a driver whose start()
\* returned has the whole cluster at its service, whoever created which part of it: the
\* scaler, the scheduler and every worker asked for run, each with its binary
\* (cluster.py:261-283).
UpMeansServing ==
  /\ \E d \in Drivers : pc[d] = "up"
  /\ faults = 0
  /\ \A c \in Clients : client[c] = "idle"
  /\ \A d \in Drivers : ~Stopping(d) /\ pc[d] # "down"
  => \A n \in {First, Scheduler} \cup 0..(NumWorkers - 1) : status[n] = "alive" /\ n \notin halted

\* A start() that finds workers of the first num_workers ids gone creates them anew, on
\* top of those the scheduler actor added in their stead; but no mix of starts, rescalings
\* and deaths makes more of it than that (cluster.py:124-138, scheduler.py:199-202).
OvershootBounded == MaxWorkers # NoMax => Cardinality(Listed) <= MaxWorkers + NumWorkers

\* An actor that was told to stop, and did, goes: as long as it is registered, somebody
\* has it on his list to kill. Else a later start() would find it, take it for a running
\* one and wait for its binary in vain (utils.py:74-82, cluster.py:127-129).
HaltedAreKilled ==
  \A n \in Names : n \in halted /\ Registered(n)
                   => \E p \in Terminators : Handle(n) \in job[p].handles

\* Once every driver has stopped its cluster, nothing of it is left, and nothing is
\* left over to bring it back (cluster.py:292: "Terminate all the actors (scaler,
\* scheduler, workers).").
StopLeavesNothing == (\A d \in Drivers : pc[d] = "down") => \A n \in Names : ~Registered(n)
=============================================================================
