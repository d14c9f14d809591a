----------------------------- MODULE ClusterProofs -----------------------------
(***************************************************************************)
(* Proofs about Cluster, for any number of drivers, workers, restarts and  *)
(* failures: the type of the state, how far the pool can overshoot, and    *)
(* that a driver whose start() returned has the cluster at its service.    *)
(* Where nobody rescales the pool: that no actor stays behind that was     *)
(* told to stop, and that nothing is left once every driver stopped.       *)
(***************************************************************************)
EXTENDS Cluster, WorkerPoolProofs

------------------------------------------------------------------------------
(* The invariants. *)

\* The ids only the scheduler actor gives to workers; drivers make the others.
Beyond(ids) == ids \ 0..(NumWorkers - 1)

\* There are never more of them than the pool may have workers, those a call is about to
\* add included.
BeyondBounded ==
  MaxWorkers # NoMax =>
    /\ Cardinality(Beyond(Listed)) <= MaxWorkers
    /\ call.step = "add" => Cardinality(Beyond(Listed \cup call.ids)) <= MaxWorkers

\* Nothing failed, and nobody rescaled or stopped anything.
Quiet == /\ faults = 0
         /\ \A c \in Clients : client[c] = "idle"
         /\ \A d \in Drivers : ~Stopping(d) /\ pc[d] # "down"

\* Then the actors only ever start.
Undisturbed == /\ inbox = <<>>
               /\ call = NoCall
               /\ halted = {}
               /\ \A p \in Terminators : job[p] = NoJob
               /\ \A n \in Names : status[n] \in {"dead", "pending", "alive"}

\* The order start() goes through the actors in.
Needed      == {First, Scheduler} \cup 0..(NumWorkers - 1)
Comes(n, m) == \/ n = Scaler /\ m # Scaler
               \/ n = Scheduler /\ m \in WorkerIds
               \/ n \in WorkerIds /\ m \in WorkerIds /\ n < m

\* The actors driver d has found or made so far.
Obtained(d) ==
  CASE pc[d] \in {"look", "make"}           -> {n \in Needed : Comes(n, at[d])}
    [] pc[d] = "host"                       -> {First, Scheduler}
    [] pc[d] = "wait" /\ at[d] = Scaler     -> Needed \cap {Scaler}
    [] pc[d] = "wait" /\ at[d] # Scaler     -> Needed
    [] pc[d] \in {"addr", "bootstrap", "up"} -> Needed
    [] OTHER                                -> {}

\* They are alive, or d has yet to see them ready, which it has once it is past the waiting.
\* A driver that has not begun has the first one in front of it.
Secured(d) == /\ \A n \in Obtained(d) : \/ status[n] = "alive"
                                        \/ Registered(n) /\ Handle(n) \in held[d]
              /\ pc[d] \in {"addr", "bootstrap", "up"} => held[d] = {}
              /\ pc[d] = "out" => at[d] = First
              /\ pc[d] # "rescale"

QuietInv == Quiet => Undisturbed /\ \A d \in Drivers : Secured(d)

\* Nobody has anything but the state of the pool reported.
OnlyStatus == \A r \in Requests : r.kind = "scale_config"

\* A job waits for the stop() only of what it is going to kill, and has looked up every name
\* by then. Only a driver in stop() has one.
JobSound(p) ==
  /\ \A x \in job[p].asked : <<x[1], x[2]>> \in job[p].handles
  /\ job[p].asked # {} => job[p].phase = "stop"
  /\ job[p].phase # "resolve" => job[p].names = {}
JobsSound ==
  \A p \in Terminators : /\ JobSound(p)
                         /\ (p \in Drivers => ~Stopping(p)) => job[p] = NoJob

\* Without scaling there is no scaler, and nobody makes one.
ScalerWanted == ~ScalingEnabled => /\ ~Registered(Scaler)
                                   /\ \A d \in Drivers : at[d] # Scaler

\* Driver d has actor n on its list.
OnList(d, n) == n \in job[d].names \/ Handle(n) \in job[d].handles

\* Once every driver is stopping, whatever is registered is on the list of a driver that is
\* about to terminate the actors of its kind, the scheduler by the handle of the beginning.
ScalerGoes ==
  (\A d \in Drivers : Stopping(d) \/ pc[d] = "down") /\ Registered(Scaler)
  => \E d \in Drivers : pc[d] = "unscale" /\ OnList(d, Scaler)
WorkersGo ==
  (\A d \in Drivers : pc[d] \in {"unwork", "unschedule", "down"})
  => \A w \in Listed : \E d \in Drivers : pc[d] = "unwork" /\ OnList(d, w)
SchedulerGoes ==
  (\A d \in Drivers : Stopping(d) \/ pc[d] = "down") /\ Registered(Scheduler)
  => \E d \in Drivers : \/ pc[d] \in {"unscale", "unwork"} /\ Handle(Scheduler) \in mine[d]
                        \/ pc[d] = "unschedule" /\ Handle(Scheduler) \in job[d].handles

\* What HaltedAreKilled rests on, and what StopLeavesNothing does.
HaltedInv == /\ OnlyStatus
             /\ ClusterTypeOK
             /\ call = NoCall
             /\ JobsSound
             /\ HaltedAreKilled

StopInv == /\ HaltedInv
           /\ ScalerWanted
           /\ ScalerGoes /\ WorkersGo /\ SchedulerGoes

------------------------------------------------------------------------------
(* The type. *)

\* What is known of the drivers alone.
DriversTypeOK ==
  /\ pc \in [Drivers -> {"out", "look", "make", "host", "wait", "addr", "bootstrap", "up",
                         "failed", "rescale", "unscale", "unwork", "unschedule", "down"}]
  /\ at \in [Drivers -> Names]
  /\ held \in [Drivers -> SUBSET Handles]
  /\ mine \in [Drivers -> SUBSET Handles]

LEMMA TypeParts == /\ ClusterTypeOK <=> TypeOK /\ DriversTypeOK
                   /\ ClusterTypeOK' <=> TypeOK' /\ DriversTypeOK'
  BY DEF ClusterTypeOK, DriversTypeOK

LEMMA DriversFrame == DriversTypeOK /\ UNCHANGED driverVars => DriversTypeOK'
  BY DEF DriversTypeOK, driverVars

\* Who the processes are.
LEMMA Parties == /\ Scheduler \in Names /\ Scaler \in Names /\ WorkerIds \subseteq Names
                 /\ Scheduler \in Terminators /\ Scheduler \notin Drivers
                 /\ Drivers \subseteq Terminators
                 /\ First \in Names
                 /\ 0..(NumWorkers - 1) \subseteq WorkerIds
                 /\ NumWorkers \in Nat
  BY ActorsAssumption, TerminatorsAssumption, PoolAssumption, DriversAssumption
     DEF Names, First, WorkerIds

\* What a driver obtains has the type of a handle, and so has the actor it goes on to.
LEMMA ObtainType ==
  ASSUME DriversTypeOK, NEW d \in Drivers, NEW h \in Handles, Obtain(d, h)
  PROVE  DriversTypeOK'
<1>1. held' \in [Drivers -> SUBSET Handles] /\ mine' \in [Drivers -> SUBSET Handles]
  BY DEF Obtain, DriversTypeOK
<1>2. at' \in [Drivers -> Names]
  <2>1. CASE at' = at
    BY <2>1 DEF DriversTypeOK
  <2>2. CASE at[d] \in 0..(NumWorkers - 2) /\ at' = [at EXCEPT ![d] = @ + 1]
    <3>1. at[d] + 1 \in 0..(NumWorkers - 1)
      BY <2>2, Parties
    <3>2. at[d] + 1 \in Names
      BY <3>1, Parties
    <3> QED BY <2>2, <3>2 DEF DriversTypeOK
  <2> QED BY <2>1, <2>2 DEF Obtain
<1>3. PICK where \in {"wait", "host", "look"} : Go(d, where)
  BY DEF Obtain
<1> QED
  BY <1>1, <1>2, <1>3 DEF DriversTypeOK, Go

\* A driver that is not terminating actors keeps the type.
LEMMA StartTypeStep ==
  ASSUME ClusterTypeOK, NEW d \in Drivers, Start(d) \/ StartStep(d) \/ RescaleReturns(d)
  PROVE  ClusterTypeOK'
<1> USE TypeParts
<1>0. TypeOK /\ DriversTypeOK /\ RayTypeOK /\ TerminationTypeOK /\ PoolTypeOK
  BY DEF TypeOK
<1>a. at[d] \in Names /\ gen[at[d]] \in Nat
  BY <1>0 DEF DriversTypeOK, RayTypeOK
<1>1. ASSUME UNCHANGED vars PROVE TypeOK'
  BY <1>0, <1>1, TypeStep
<1>2. CASE Reconnect(d)
  <2>1. Handle(at[d]) \in Handles
    BY <1>a DEF Handle, Handles
  <2> QED BY <1>0, <1>1, <1>2, <2>1, ObtainType DEF Reconnect
<1>3. CASE Make(d)
  <2>1. <<at[d], gen[at[d]] + 1>> \in Handles
    BY <1>a DEF Handles
  <2>2. DriversTypeOK'
    BY <1>0, <1>3, <2>1, ObtainType DEF Make
  <2>3. RayTypeOK'
    BY <1>0, <1>3, <1>a, RayTypeStep DEF Make
  <2>4. TerminationTypeOK'
    BY <1>0, <1>3 DEF Make, StartsOver, TerminationTypeOK
  <2>5. PoolTypeOK'
    BY <1>0, <1>3, Frames DEF Make
  <2> QED BY <2>2, <2>3, <2>4, <2>5 DEF TypeOK
<1>4. CASE GetHost(d)
  <2>1. NumWorkers # 0 => 0 \in Names
    BY Parties, ActorsAssumption DEF Names, WorkerIds
  <2>2. DriversTypeOK'
    BY <1>0, <1>4, <2>1 DEF GetHost, DriversTypeOK, Go
  <2> QED BY <1>1, <1>4, <2>2 DEF GetHost
<1>5. CASE AllReady(d)
  <2>1. DriversTypeOK'
    BY <1>0, <1>5, Parties DEF AllReady, DriversTypeOK, Go
  <2> QED BY <1>1, <1>5, <2>1 DEF AllReady
<1>6. CASE OneReady(d)
  <2>1. DriversTypeOK'
    BY <1>0, <1>6 DEF OneReady, DriversTypeOK
  <2> QED BY <1>1, <1>6, <2>1 DEF OneReady
<1>7. CASE \/ Start(d) \/ FindNone(d) \/ MakeCollides(d) \/ GetAddress(d) \/ Bootstrap(d)
           \/ StartFails(d) \/ RescaleReturns(d)
  <2>1. /\ \E where \in {"look", "failed", "make", "up", "bootstrap"} : Go(d, where)
        /\ UNCHANGED <<vars, at, held, mine>>
    BY <1>7 DEF Start, FindNone, MakeCollides, GetAddress, Bootstrap, StartFails, RescaleReturns
  <2>2. DriversTypeOK'
    BY <1>0, <2>1 DEF DriversTypeOK, Go
  <2> QED BY <1>1, <2>1, <2>2
<1> QED
  BY <1>2, <1>3, <1>4, <1>5, <1>6, <1>7 DEF StartStep

\* So does one that is.
LEMMA StopTypeStep ==
  ASSUME ClusterTypeOK, NEW d \in Drivers, Stop(d) \/ StopStep(d)
  PROVE  ClusterTypeOK'
<1> USE TypeParts
<1>0. TypeOK /\ DriversTypeOK /\ RayTypeOK /\ TerminationTypeOK /\ PoolTypeOK
  BY DEF TypeOK
<1>1. ASSUME NEW names \in SUBSET Names, NEW handles \in SUBSET Handles,
             TerminateFor(d, names, handles), halted' = halted
      PROVE  TerminationTypeOK'
  <2>1. [Terminate(names) EXCEPT !.handles = handles] \in Jobs
    BY DEF Terminate, NoJob, Jobs
  <2> QED BY <1>0, <1>1, <2>1, Parties DEF TerminateFor, TerminationTypeOK
<1>2. CASE Stop(d)
  <2>1. Handle(Scheduler) \in Handles
    BY <1>0, Parties DEF Handle, Handles, RayTypeOK
  <2>2. DriversTypeOK'
    BY <1>0, <1>2, <2>1 DEF Stop, DriversTypeOK, Go
  <2>3. TerminationTypeOK'
    BY <1>1, <1>2, Parties DEF Stop
  <2> QED BY <1>0, <1>2, <2>2, <2>3, Frames DEF Stop, TypeOK
<1>3. CASE StopWorkers(d)
  <2>1. DriversTypeOK'
    BY <1>0, <1>3 DEF StopWorkers, DriversTypeOK, Go
  <2>2. TerminationTypeOK'
    BY <1>1, <1>3, Parties DEF StopWorkers, Listed
  <2> QED BY <1>0, <1>3, <2>1, <2>2, Frames DEF StopWorkers, TypeOK
<1>4. CASE StopScheduler(d)
  <2>1. DriversTypeOK'
    BY <1>0, <1>4 DEF StopScheduler, DriversTypeOK, Go
  <2>2. TerminationTypeOK'
    BY <1>0, <1>1, <1>4 DEF StopScheduler, DriversTypeOK
  <2> QED BY <1>0, <1>4, <2>1, <2>2, Frames DEF StopScheduler, TypeOK
<1>5. CASE StopEnds(d)
  <2>1. DriversTypeOK'
    BY <1>0, <1>5 DEF StopEnds, DriversTypeOK, Go
  <2>2. TerminationTypeOK'
    BY <1>0, <1>5 DEF StopEnds, TerminationTypeOK, Jobs, NoJob
  <2> QED BY <1>0, <1>5, <2>1, <2>2, Frames DEF StopEnds, TypeOK
<1>6. ASSUME NEW h, Kill(h) PROVE RayTypeOK'
  BY <1>0, <1>6 DEF Kill, RayTypeOK, Status
<1>7. CASE KillScaler(d)
  <2>1. TerminationTypeOK'
    BY <1>0, <1>7, Parties DEF KillScaler, TerminationTypeOK, Jobs
  <2>2. PoolTypeOK'
    BY <1>0, <1>7 DEF KillScaler, HangUp, PoolTypeOK
  <2>3. RayTypeOK'
    BY <1>6, <1>7 DEF KillScaler
  <2> QED BY <1>0, <1>7, <2>1, <2>2, <2>3, DriversFrame DEF KillScaler, TypeOK
<1>8. CASE KillScheduler(d)
  <2>1. PICK h \in job[d].handles :
          job' = [job EXCEPT ![d].handles = @ \ {h},
                             ![Scheduler] = IF Resolves(h) THEN NoJob ELSE @]
    BY <1>8 DEF KillScheduler
  <2>2. NoJob \in Jobs
    BY DEF NoJob, Jobs
  <2>3. [job[d] EXCEPT !.handles = @ \ {h}] \in Jobs
    BY <1>0, Parties DEF TerminationTypeOK, Jobs
  <2>4. TerminationTypeOK'
    BY <1>0, <1>8, <2>1, <2>2, <2>3, Parties DEF KillScheduler, TerminationTypeOK
  <2>5. PoolTypeOK'
    BY <1>0, <1>8 DEF KillScheduler, PoolTypeOK
  <2>6. RayTypeOK'
    BY <1>6, <1>8 DEF KillScheduler
  <2> QED BY <1>0, <1>8, <2>4, <2>5, <2>6, DriversFrame DEF KillScheduler, TypeOK
<1>9. CASE Terminates(d)
  <2>1. RayTypeOK' /\ TerminationTypeOK'
    BY <1>0, <1>9, Parties, TerminationTypeStep DEF Terminates
  <2> QED BY <1>0, <1>9, <2>1, Frames, DriversFrame DEF Terminates, TypeOK
<1> QED
  BY <1>2, <1>3, <1>4, <1>5, <1>7, <1>8, <1>9 DEF StopStep

\* Every step of the cluster keeps the type.
LEMMA ClusterTypeStep == ClusterTypeOK /\ [ClusterNext]_clusterVars => ClusterTypeOK'
<1> SUFFICES ASSUME ClusterTypeOK, [ClusterNext]_clusterVars PROVE ClusterTypeOK'
  OBVIOUS
<1> USE TypeParts
<1>0. TypeOK /\ DriversTypeOK /\ RayTypeOK /\ TerminationTypeOK /\ PoolTypeOK
  BY DEF TypeOK
<1>1. ASSUME NEW d \in Drivers, Start(d) \/ StartStep(d) \/ RescaleReturns(d) PROVE ClusterTypeOK'
  BY <1>1, StartTypeStep
<1>2. ASSUME NEW d \in Drivers, Stop(d) \/ StopStep(d) PROVE ClusterTypeOK'
  BY <1>2, StopTypeStep
<1>3. ASSUME NEW d \in Drivers, AskToRescale(d) PROVE ClusterTypeOK'
  <2>1. d \in Clients
    BY <1>3, PoolAssumption DEF AskToRescale
  <2>2. inbox' = inbox \/ inbox' = Append(inbox, d)
    BY <1>3 DEF AskToRescale
  <2>3. inbox' \in Seq(Clients)
    BY <1>0, <2>1, <2>2 DEF PoolTypeOK
  <2>4. request' \in [Clients -> Requests \cup {NoRequest}]
    BY <1>0, <1>3 DEF AskToRescale, PoolTypeOK
  <2>5. client' \in [Clients -> {"idle", "accepted", "waiting", "done", "failed", "rejected"}]
    BY <1>0, <1>3 DEF AskToRescale, PoolTypeOK
  <2>6. PoolTypeOK'
    BY <1>0, <1>3, <2>3, <2>4, <2>5 DEF AskToRescale, PoolTypeOK
  <2>7. DriversTypeOK'
    BY <1>0, <1>3 DEF AskToRescale, DriversTypeOK, Go
  <2> QED BY <1>0, <1>3, <2>6, <2>7, Frames DEF AskToRescale, TypeOK
<1>4. CASE SchedulerStarts
  <2>1. RayTypeOK'
    BY <1>0, <1>4, Parties, RayTypeStep DEF SchedulerStarts
  <2>2. PoolTypeOK'
    BY <1>0, <1>4, Parties DEF SchedulerStarts, PoolTypeOK
  <2> QED BY <1>0, <1>4, <2>1, <2>2, Frames, DriversFrame DEF SchedulerStarts, TypeOK, driverVars
<1>5. CASE SchedulerHalts
  <2>1. TerminationTypeOK' /\ UNCHANGED rayVars
    BY <1>0, <1>5, Parties, HaltTypeStep DEF SchedulerHalts, Halt
  <2> QED BY <1>0, <1>5, <2>1, Frames, DriversFrame DEF SchedulerHalts, TypeOK
<1>6. CASE AddCollides
  <2>1. PoolTypeOK'
    BY <1>0, <1>6 DEF AddCollides, Answer, PoolTypeOK
  <2> QED BY <1>0, <1>6, <2>1, Frames, DriversFrame DEF AddCollides, TypeOK
<1>7. CASE ScalerStep
  <2>1. CASE Halt(Scaler)
    <3>1. TerminationTypeOK' /\ UNCHANGED rayVars
      BY <1>0, <2>1, Parties, HaltTypeStep DEF Halt
    <3> QED BY <1>0, <1>7, <3>1, Frames, DriversFrame DEF ScalerStep, TypeOK
  <2>2. CASE (InitReturns(Scaler) \/ InitRaises(Scaler)) /\ UNCHANGED terminationVars
    <3>1. RayTypeOK'
      BY <1>0, <2>2, Parties, RayTypeStep
    <3> QED BY <1>0, <1>7, <2>2, <3>1, Frames, DriversFrame DEF ScalerStep, TypeOK
  <2> QED BY <1>7, <2>1, <2>2 DEF ScalerStep
<1>8. CASE Next /\ UNCHANGED driverVars
  BY <1>0, <1>8, TypeStep, DriversFrame
<1>9. CASE UNCHANGED clusterVars
  BY <1>0, <1>9, TypeStep, DriversFrame DEF clusterVars
<1> QED
  BY <1>1, <1>2, <1>3, <1>4, <1>5, <1>6, <1>7, <1>8, <1>9 DEF ClusterNext

\* The state is what Cluster says it is.
LEMMA ClusterTypeInit == ClusterInit => ClusterTypeOK
<1> SUFFICES ASSUME ClusterInit PROVE ClusterTypeOK
  OBVIOUS
<1>1. TypeOK
  BY TypeInit DEF ClusterInit
<1>2. DriversTypeOK
  BY Parties DEF ClusterInit, DriversTypeOK
<1> QED
  BY <1>1, <1>2, TypeParts

THEOREM ClusterTypeCorrect == ClusterSpec => []ClusterTypeOK
  BY ClusterTypeInit, ClusterTypeStep, PTL DEF ClusterSpec

------------------------------------------------------------------------------
(* How far the pool overshoots. *)

\* A step makes an actor, adds a worker, or leaves the pool no larger; and a call to add
\* workers only ever comes of BeginToGrow.
LEMMA GrowthStep ==
  ASSUME ClusterTypeOK, [ClusterNext]_clusterVars
  PROVE  \/ \E d \in Drivers : Make(d)
         \/ AddWorker
         \/ BeginToGrow /\ Listed' = Listed
         \/ Listed' \subseteq Listed /\ (call' = call \/ call'.step # "add")
<1> DEFINE Goal == Listed' \subseteq Listed /\ (call' = call \/ call'.step # "add")
<1>0. TypeOK /\ RayTypeOK
  BY TypeParts DEF TypeOK
<1>1. UNCHANGED rayVars => Listed' = Listed
  BY DEF rayVars, Listed, Registered
<1>2. ASSUME NEW h, Kill(h) PROVE Listed' \subseteq Listed
  BY <1>0, <1>2 DEF Kill, Listed, Registered, RayTypeOK
<1>3. ASSUME NEW d \in Drivers, \/ Start(d) \/ RescaleReturns(d) \/ AskToRescale(d)
                                \/ StartStep(d) /\ ~Make(d)
      PROVE  Goal
  BY <1>1, <1>3
     DEF Start, RescaleReturns, AskToRescale, StartStep, Reconnect, FindNone, MakeCollides,
         GetHost, OneReady, AllReady, GetAddress, Bootstrap, StartFails, vars, poolVars
<1>4. ASSUME NEW d \in Drivers, Stop(d) \/ StopWorkers(d) \/ StopScheduler(d) \/ StopEnds(d)
      PROVE  Goal
  BY <1>1, <1>4 DEF Stop, StopWorkers, StopScheduler, StopEnds, poolVars
<1>5. ASSUME NEW d \in Drivers, KillScaler(d) \/ KillScheduler(d) PROVE Goal
  BY <1>2, <1>5 DEF KillScaler, KillScheduler, NoCall
<1>6. ASSUME NEW d \in Drivers, Terminates(d) PROVE Goal
  BY <1>1, <1>2, <1>6
     DEF Terminates, ResolveName, AskToStop, AllStopped, StopGivesUp, KillNext, poolVars
<1>7. CASE SchedulerStarts \/ ScalerStep
  <2>1. \/ UNCHANGED rayVars
        \/ \E n \in Names : InitReturns(n) \/ InitRaises(n)
    BY <1>7, Parties DEF SchedulerStarts, ScalerStep, Halt
  <2>2. Listed' \subseteq Listed
    BY <1>0, <1>1, <2>1, RegistryStep
  <2> QED BY <1>7, <2>2 DEF SchedulerStarts, ScalerStep, poolVars
<1>8. CASE SchedulerHalts \/ AddCollides
  BY <1>1, <1>8 DEF SchedulerHalts, Halt, AddCollides, NoCall, poolVars
<1>9. CASE UNCHANGED clusterVars
  BY <1>1, <1>9 DEF clusterVars, vars, poolVars
<1>10. CASE BeginToGrow
  BY <1>1, <1>10 DEF BeginToGrow
<1>11. ASSUME Next, ~AddWorker, ~BeginToGrow PROVE Goal
  <2>1. Listed' \subseteq Listed
    BY <1>0, <1>11, Leaving
  <2>2. CASE BeginToShrink
    <3>1. \E rem : call'.step = "remove"
      BY <2>2, Shrinking
    <3> QED BY <2>1, <3>1
  <2>3. CASE ReportStatus \/ Finish \/ Removing
    BY <2>1, <2>3 DEF ReportStatus, Finish, Removing, NoCall, poolVars
  <2>4. CASE SchedulerDies \/ SchedulerIsGivenUp \/ ScalerDies \/ ScalerIsGivenUp
    BY <2>1, <2>4
       DEF SchedulerDies, SchedulerIsGivenUp, ScalerDies, ScalerIsGivenUp, NoCall, poolVars
  <2>5. ASSUME NEW c \in Clients, Callers(c) PROVE Goal
    BY <2>1, <2>5 DEF Callers, Accept, Relay, Reject, FindNoScheduler, GiveUp
  <2>6. ASSUME NEW w \in WorkerIds, WorkerStep(w) PROVE Goal
    BY <2>1, <2>6 DEF WorkerStep, poolVars
  <2> QED
    BY <1>11, <2>2, <2>3, <2>4, <2>5, <2>6 DEF Next, SchedulerStep, Callers
<1> QED
  BY <1>3, <1>4, <1>5, <1>6, <1>7, <1>8, <1>9, <1>10, <1>11 DEF ClusterNext, StopStep

\* A driver makes no worker but those of the first num_workers ids, each with a binary of
\* its own, and does not interfere with a call.
LEMMA MakeStep ==
  ASSUME ClusterTypeOK, NEW d \in Drivers, Make(d)
  PROVE  /\ Beyond(Listed') \subseteq Beyond(Listed)
         /\ call' = call
         /\ at[d] \in Names
         /\ Create(at[d]) /\ StartsOver(at[d])
<1>1. at[d] \in {Scaler, Scheduler} \cup 0..(NumWorkers - 1) \cup {NumWorkers - 1}
  BY Parties DEF Make, Obtain
<1>2. \A w \in Listed' : w \in Listed \/ w = at[d]
  BY TypeParts DEF Make, Create, Listed, Registered, TypeOK, RayTypeOK
<1>3. \A w \in WorkerIds : w = at[d] => w \in 0..(NumWorkers - 1)
  BY <1>1, Parties, ActorsAssumption DEF WorkerIds
<1>4. Listed' \subseteq WorkerIds
  BY DEF Listed
<1>5. Beyond(Listed') \subseteq Beyond(Listed)
  BY <1>2, <1>3, <1>4 DEF Beyond
<1> QED
  BY <1>5 DEF Make, poolVars, ClusterTypeOK

\* Every step keeps the workers of other ids within bounds.
LEMMA BeyondStep ==
  ClusterTypeOK /\ ClusterTypeOK' /\ BeyondBounded /\ [ClusterNext]_clusterVars => BeyondBounded'
<1> SUFFICES ASSUME ClusterTypeOK, ClusterTypeOK', BeyondBounded, [ClusterNext]_clusterVars,
                    MaxWorkers # NoMax
             PROVE  /\ Cardinality(Beyond(Listed')) <= MaxWorkers
                    /\ call'.step = "add"
                       => Cardinality(Beyond(Listed' \cup call'.ids)) <= MaxWorkers
  BY DEF BeyondBounded, Beyond
<1>0. /\ Listed \subseteq WorkerIds /\ Listed' \subseteq WorkerIds
      /\ call.ids \subseteq WorkerIds /\ call'.ids \subseteq WorkerIds
      /\ TypeOK
      /\ MaxWorkers \in Int
  BY TypeParts, BoundsAssumption DEF Listed, TypeOK, PoolTypeOK, Calls, NoCall, NoMax
<1>1. ASSUME NEW S \in SUBSET WorkerIds, NEW T \in SUBSET WorkerIds,
             Beyond(S) \subseteq Beyond(T), Cardinality(Beyond(T)) <= MaxWorkers
      PROVE  Cardinality(Beyond(S)) <= MaxWorkers
  <2>1. Beyond(T) \in SUBSET WorkerIds
    BY DEF Beyond
  <2>2. /\ Cardinality(Beyond(S)) \in Nat /\ Cardinality(Beyond(T)) \in Nat
        /\ Cardinality(Beyond(S)) <= Cardinality(Beyond(T))
    BY <1>1, <2>1, Parts
  <2> QED BY <1>0, <1>1, <2>2
<1>2. ASSUME NEW d \in Drivers, Make(d)
      PROVE  /\ Cardinality(Beyond(Listed')) <= MaxWorkers
             /\ call'.step = "add" => Cardinality(Beyond(Listed' \cup call'.ids)) <= MaxWorkers
  <2>1. Beyond(Listed') \subseteq Beyond(Listed) /\ call' = call
    BY <1>2, MakeStep
  <2>2. Beyond(Listed' \cup call.ids) \subseteq Beyond(Listed \cup call.ids)
    BY <2>1 DEF Beyond
  <2> QED BY <1>0, <1>1, <2>1, <2>2 DEF BeyondBounded
<1>3. CASE AddWorker
  <2>1. PICK w \in call.ids : Create(w) /\ call' = [call EXCEPT !.ids = @ \ {w}]
    BY <1>3 DEF AddWorker, IsNext
  <2>2. call.step = "add" /\ call'.ids = call.ids \ {w}
    BY <1>0, <1>3, <2>1 DEF AddWorker, TypeOK, PoolTypeOK, Calls, NoCall
  <2>3. Listed' \subseteq Listed \cup {w}
    BY <1>0, <2>1 DEF Create, Listed, Registered, TypeOK, RayTypeOK
  <2>4. /\ Beyond(Listed') \subseteq Beyond(Listed \cup call.ids)
        /\ Beyond(Listed' \cup call'.ids) \subseteq Beyond(Listed \cup call.ids)
    BY <2>1, <2>2, <2>3 DEF Beyond
  <2> QED BY <1>0, <1>1, <2>2, <2>4 DEF BeyondBounded
<1>4. CASE BeginToGrow /\ Listed' = Listed
  <2> DEFINE n == Clamp(request[Head(inbox)].amount)
  <2>1. /\ Cardinality(Listed) <= n
        /\ call'.ids = NewIds(Listed, n)
    BY <1>4 DEF BeginToGrow
  <2>2. n \in Nat /\ n <= MaxWorkers
    BY <1>0, <1>4, ServedAmount, ClampBounds DEF BeginToGrow
  <2> HIDE DEF n
  <2>3. Cardinality(Listed \cup call'.ids) = n
    BY <1>0, <2>1, <2>2, ActorsAssumption, NewIdsFit DEF WorkerIds
  <2>4. /\ Listed \cup call'.ids \in SUBSET WorkerIds
        /\ Beyond(Listed \cup call'.ids) \in SUBSET (Listed \cup call'.ids)
    BY <1>0 DEF Beyond
  <2>5. /\ Cardinality(Beyond(Listed \cup call'.ids)) \in Nat
        /\ Cardinality(Beyond(Listed \cup call'.ids)) <= n
    BY <2>3, <2>4, Parts
  <2> QED BY <1>0, <1>4, <2>2, <2>5 DEF BeyondBounded
<1>5. CASE Listed' \subseteq Listed /\ (call' = call \/ call'.step # "add")
  <2>1. /\ Beyond(Listed') \subseteq Beyond(Listed)
        /\ Beyond(Listed' \cup call.ids) \subseteq Beyond(Listed \cup call.ids)
    BY <1>5 DEF Beyond
  <2> QED BY <1>0, <1>1, <1>5, <2>1 DEF BeyondBounded
<1> QED
  BY <1>2, <1>3, <1>4, <1>5, GrowthStep

\* In the beginning there are none.
LEMMA BeyondInit == ClusterInit => BeyondBounded
<1> SUFFICES ASSUME ClusterInit PROVE BeyondBounded
  OBVIOUS
<1>1. Beyond(Listed) = {} /\ call = NoCall
  BY ActorsAssumption, Parties
     DEF ClusterInit, InitWith, Listed, Registered, Names, WorkerIds, Beyond, First
<1> QED
  BY <1>1, FS_EmptySet, BoundsAssumption DEF BeyondBounded, NoCall, NoMax

\* However many drivers start and rescale the same cluster, and whatever dies meanwhile, the
\* pool never has more than num_workers workers beyond max_workers (cluster.py:124-138,
\* scheduler.py:199-202).
THEOREM Overshoot == ClusterSpec => []OvershootBounded
<1>1. ASSUME ClusterTypeOK, BeyondBounded PROVE OvershootBounded
  <2> SUFFICES ASSUME MaxWorkers # NoMax PROVE Cardinality(Listed) <= MaxWorkers + NumWorkers
    BY DEF OvershootBounded
  <2> DEFINE base == 0..(NumWorkers - 1)
             rest == Beyond(Listed)
  <2>1. IsFiniteSet(base) /\ Cardinality(base) = NumWorkers
    BY FS_Interval, Parties
  <2>2. rest \in SUBSET WorkerIds /\ Listed \in SUBSET (base \cup rest)
    BY DEF Beyond, Listed
  <2>3. IsFiniteSet(rest) /\ Cardinality(rest) \in Nat /\ Cardinality(rest) <= MaxWorkers
    BY <1>1, <2>2, ActorsAssumption, IdsFinite DEF WorkerIds, BeyondBounded
  <2>4. base \cap rest = {}
    BY DEF Beyond
  <2> HIDE DEF base, rest
  <2>5. /\ IsFiniteSet(base \cup rest)
        /\ Cardinality(base \cup rest) = Cardinality(base) + Cardinality(rest)
    BY <2>1, <2>3, <2>4, FS_Union, FS_EmptySet, Parties
  <2>6. Cardinality(Listed) <= Cardinality(base \cup rest) /\ Cardinality(Listed) \in Nat
    BY <2>2, <2>5, FS_Subset, FS_CardinalityType
  <2> QED BY <2>1, <2>3, <2>5, <2>6, Parties, BoundsAssumption DEF NoMax
<1> QED
  BY <1>1, ClusterTypeInit, ClusterTypeStep, BeyondInit, BeyondStep, PTL DEF ClusterSpec

------------------------------------------------------------------------------
(* A driver that is up. *)

\* What was not quiet does not become so again: failures are counted, callers have asked,
\* and drivers that stopped stay so.
LEMMA QuietBefore ==
  ASSUME ClusterTypeOK, [ClusterNext]_clusterVars, Quiet'
  PROVE  Quiet
<1> DEFINE Gone(d) == Stopping(d) \/ pc[d] = "down"
           Goal == /\ faults' >= faults
                   /\ \A c \in Clients : client'[c] = "idle" => client[c] = "idle"
                   /\ \A d \in Drivers : Gone(d) => Gone(d)'
<1>0. /\ TypeOK /\ DriversTypeOK /\ faults \in Nat
      /\ client \in [Clients -> {"idle", "accepted", "waiting", "done", "failed", "rejected"}]
      /\ pc \in [Drivers -> {"out", "look", "make", "host", "wait", "addr", "bootstrap", "up",
                             "failed", "rescale", "unscale", "unwork", "unschedule", "down"}]
  BY TypeParts, ActorsAssumption DEF TypeOK, PoolTypeOK, RayTypeOK, DriversTypeOK
<1>1. faults' = faults => faults' >= faults
  BY <1>0
<1>2. ASSUME NEW d \in Drivers, Start(d) \/ StartStep(d) \/ RescaleReturns(d) PROVE Goal
  <2>1. /\ faults' = faults /\ client' = client
        /\ ~Gone(d)
        /\ \A e \in Drivers \ {d} : pc'[e] = pc[e]
    BY <1>0, <1>2
       DEF Start, RescaleReturns, StartStep, Reconnect, FindNone, Make, MakeCollides, GetHost,
           OneReady, AllReady, GetAddress, Bootstrap, StartFails, Obtain, Go, Create, Stopping,
           vars, rayVars, poolVars
  <2>2. \A e \in Drivers : Gone(e) => Gone(e)'
    BY <2>1 DEF Stopping
  <2> QED BY <1>1, <2>1, <2>2
<1>3. ASSUME NEW d \in Drivers, AskToRescale(d) PROVE Goal
  <2>1. faults' = faults /\ pc[d] = "up" /\ pc' = [pc EXCEPT ![d] = "rescale"]
    BY <1>3 DEF AskToRescale, Go, rayVars
  <2>2. \A c \in Clients : client'[c] = "idle" => client[c] = "idle"
    BY <1>0, <1>3 DEF AskToRescale
  <2>3. \A e \in Drivers : Gone(e) => Gone(e)'
    BY <1>0, <2>1 DEF Stopping
  <2> QED BY <1>1, <2>1, <2>2, <2>3
<1>4. ASSUME NEW d \in Drivers,
             Stop(d) \/ StopWorkers(d) \/ StopScheduler(d) \/ StopEnds(d)
      PROVE  Goal
  <2>1. /\ faults' = faults /\ client' = client
        /\ \E where \in {"unscale", "unwork", "unschedule", "down"} : pc' = [pc EXCEPT ![d] = where]
    BY <1>4 DEF Stop, StopWorkers, StopScheduler, StopEnds, Go, rayVars, poolVars
  <2>2. \A e \in Drivers : Gone(e) => Gone(e)'
    BY <1>0, <2>1 DEF Stopping
  <2> QED BY <1>1, <2>1, <2>2
<1>5. ASSUME NEW d \in Drivers, KillScaler(d) \/ KillScheduler(d) \/ Terminates(d) PROVE Goal
  <2>1. faults' = faults /\ pc' = pc
    BY <1>5 DEF KillScaler, KillScheduler, Terminates, ResolveName, AskToStop, AllStopped,
                StopGivesUp, KillNext, Kill, driverVars, rayVars
  <2>2. client' = client \/ client' = HangUp
    BY <1>5 DEF KillScaler, KillScheduler, Terminates, poolVars
  <2>3. \A c \in Clients : client'[c] = "idle" => client[c] = "idle"
    BY <2>2 DEF HangUp
  <2> QED BY <1>1, <2>1, <2>3 DEF Stopping
<1>6. ASSUME SchedulerStarts \/ SchedulerHalts \/ AddCollides \/ ScalerStep PROVE Goal
  <2>1. pc' = pc /\ faults' >= faults
    BY <1>0, <1>6
       DEF SchedulerStarts, SchedulerHalts, AddCollides, ScalerStep, Halt, InitReturns, InitRaises,
           driverVars, rayVars
  <2>2. \A c \in Clients : client'[c] = "idle" => client[c] = "idle"
    BY <1>0, <1>6 DEF SchedulerStarts, SchedulerHalts, AddCollides, ScalerStep, Answer, poolVars
  <2> QED BY <2>1, <2>2 DEF Stopping
<1>7. ASSUME Next /\ UNCHANGED driverVars PROVE Goal
  <2>1. pc' = pc
    BY <1>7 DEF driverVars
  <2>2. ASSUME NEW c \in Clients, Callers(c)
        PROVE  /\ faults' = faults
               /\ \A b \in Clients : client'[b] = "idle" => client[b] = "idle"
    BY <1>0, <2>2 DEF Callers, Accept, Reject, Relay, FindNoScheduler, GiveUp, rayVars
  <2>3. ASSUME SchedulerStep PROVE Goal
    <3>1. faults' = faults
      BY <2>3 DEF SchedulerStep, ReportStatus, BeginToGrow, BeginToShrink, AddWorker, Finish,
                  Removing, ResolveName, AskToStop, AllStopped, StopGivesUp, KillNext, Kill, Create,
                  rayVars
    <3>2. client' = client \/ \E c : Answer(c, "done")
      BY <2>3 DEF SchedulerStep, ReportStatus, BeginToGrow, BeginToShrink, AddWorker, Finish,
                  Removing, poolVars
    <3>3. \A b \in Clients : client'[b] = "idle" => client[b] = "idle"
      BY <1>0, <3>2 DEF Answer
    <3> QED BY <1>1, <2>1, <3>1, <3>3 DEF Stopping
  <2>4. ASSUME NEW w \in WorkerIds, WorkerStep(w) PROVE faults' >= faults /\ client' = client
    BY <1>0, <2>4 DEF WorkerStep, Halt, InitReturns, InitRaises, ProcessDies, IsGivenUp,
                      IsRestarted, rayVars, poolVars
  <2>5. ASSUME SchedulerDies \/ SchedulerIsGivenUp \/ ScalerDies \/ ScalerIsGivenUp PROVE Goal
    <3>1. faults' >= faults
      BY <1>0, <2>5 DEF SchedulerDies, SchedulerIsGivenUp, ScalerDies, ScalerIsGivenUp, ProcessDies,
                        IsGivenUp
    <3>2. client' = client \/ client' = HangUp
      BY <2>5 DEF SchedulerDies, SchedulerIsGivenUp, ScalerDies, ScalerIsGivenUp, poolVars
    <3>3. \A c \in Clients : client'[c] = "idle" => client[c] = "idle"
      BY <3>2 DEF HangUp
    <3> QED BY <2>1, <3>1, <3>3 DEF Stopping
  <2> QED BY <1>1, <1>7, <2>1, <2>2, <2>3, <2>4, <2>5 DEF Next, Callers, Stopping
<1>8. ASSUME UNCHANGED clusterVars PROVE Goal
  BY <1>1, <1>8 DEF clusterVars, vars, rayVars, poolVars, driverVars, Stopping
<1>9. Goal
  BY <1>2, <1>3, <1>4, <1>5, <1>6, <1>7, <1>8 DEF ClusterNext, StopStep
<1> QED
  BY <1>0, <1>9 DEF Quiet

\* As long as all is quiet, drivers start and actors come up, and nothing else happens.
LEMMA QuietStep ==
  ASSUME ClusterTypeOK, [ClusterNext]_clusterVars, Quiet, Quiet', Undisturbed,
         \A d \in Drivers : Secured(d)
  PROVE  \/ \E d \in Drivers : Start(d) \/ StartStep(d)
         \/ /\ \E n \in Names : InitReturns(n)
            /\ UNCHANGED <<terminationVars, inbox, call, driverVars>>
         \/ UNCHANGED <<rayVars, terminationVars, inbox, call, driverVars>>
<1>0. /\ TypeOK /\ faults = 0 /\ faults' = 0
      /\ client \in [Clients -> {"idle", "accepted", "waiting", "done", "failed", "rejected"}]
      /\ \A c \in Clients : client[c] = "idle" /\ client'[c] = "idle"
      /\ pc \in [Drivers -> {"out", "look", "make", "host", "wait", "addr", "bootstrap", "up",
                             "failed", "rescale", "unscale", "unwork", "unschedule", "down"}]
  BY TypeParts DEF TypeOK, PoolTypeOK, DriversTypeOK, Quiet
<1>1. \A d \in Drivers : ~RescaleReturns(d)
  BY DEF RescaleReturns, Secured
<1>2. ASSUME NEW d \in Drivers, AskToRescale(d) PROVE FALSE
  <2>1. d \in Clients /\ client'[d] \in {"waiting", "failed"}
    BY <1>0, <1>2, PoolAssumption DEF AskToRescale
  <2> QED BY <1>0, <2>1
<1>3. ASSUME NEW d \in Drivers, Stop(d) PROVE FALSE
  BY <1>0, <1>3 DEF Stop, Go, Quiet, Stopping
<1>4. \A p \in Terminators : /\ job[p].phase = "none" /\ job[p].asked = {}
  BY DEF Undisturbed, NoJob
<1>5. ASSUME NEW d \in Drivers, StopStep(d) PROVE FALSE
  BY <1>4, <1>5, Parties
     DEF StopStep, StopWorkers, StopScheduler, StopEnds, KillScaler, KillScheduler, Terminates,
         Terminated, ResolveName, AskToStop, AllStopped, StopGivesUp, KillNext
<1>6. \A n \in Names : ~Halt(n) /\ ~ProcessDies(n) /\ ~InitRaises(n) /\ ~IsRestarted(n) /\ ~IsGivenUp(n)
  BY <1>0, <1>4 DEF Halt, ProcessDies, InitRaises, IsRestarted, IsGivenUp, Undisturbed
<1>7. ~SchedulerHalts /\ ~AddCollides
  BY <1>6, Parties DEF SchedulerHalts, AddCollides, Undisturbed, NoCall
<1>8. ASSUME NEW c \in Clients, Callers(c) PROVE FALSE
  BY <1>0, <1>8 DEF Callers, Accept, Reject, Relay, FindNoScheduler, GiveUp
<1>9. ~SchedulerStep
  BY <1>4, Parties
     DEF SchedulerStep, ReportStatus, BeginToGrow, BeginToShrink, AddWorker, Finish, Removing,
         Serves, Terminated, ResolveName, AskToStop, AllStopped, StopGivesUp, KillNext, Undisturbed,
         NoCall
<1>10. ~SchedulerDies /\ ~SchedulerIsGivenUp /\ ~ScalerDies /\ ~ScalerIsGivenUp
  BY <1>6, Parties DEF SchedulerDies, SchedulerIsGivenUp, ScalerDies, ScalerIsGivenUp
<1>11. CASE SchedulerStarts
  BY <1>11, Parties DEF SchedulerStarts
<1>12. CASE ScalerStep
  BY <1>6, <1>12, Parties DEF ScalerStep, poolVars
<1>13. ASSUME NEW w \in WorkerIds, WorkerStep(w)
       PROVE  InitReturns(w) /\ UNCHANGED <<terminationVars, poolVars>>
  BY <1>6, <1>13, Parties DEF WorkerStep
<1>14. CASE Next /\ UNCHANGED driverVars
  <2>1. PICK w \in WorkerIds : WorkerStep(w)
    BY <1>8, <1>9, <1>10, <1>14 DEF Next, Callers
  <2> QED BY <1>13, <1>14, <2>1, Parties DEF poolVars
<1>15. CASE UNCHANGED clusterVars
  BY <1>15 DEF clusterVars, vars, poolVars
<1> QED
  BY <1>1, <1>2, <1>3, <1>5, <1>7, <1>11, <1>12, <1>14, <1>15 DEF ClusterNext

\* Nothing driver e relies on goes away as long as the actors only come up.
Lasting == \A n \in Names : /\ status[n] = "alive" => status'[n] = "alive"
                            /\ Registered(n) => Registered(n)' /\ Handle(n)' = Handle(n)

\* A driver at rest stays where it is.
LEMMA SecuredFrame ==
  ASSUME Lasting, NEW e \in Drivers, Secured(e),
         pc'[e] = pc[e], at'[e] = at[e], held'[e] = held[e]
  PROVE  Secured(e)'
<1>1. Obtained(e)' = Obtained(e)
  BY DEF Obtained
<1>2. Obtained(e) \subseteq Names
  BY Parties DEF Obtained, Needed
<1> QED
  BY <1>1, <1>2 DEF Lasting, Secured

\* So does the handle of what it has already.
LEMMA SecuredMore ==
  ASSUME Lasting, NEW d \in Drivers, Secured(d), Obtained(d)' \subseteq Obtained(d),
         \A n \in Obtained(d) : Handle(n) \in held[d] /\ status[n] # "alive" => Handle(n) \in held'[d],
         pc'[d] \in {"addr", "bootstrap", "up"} => held'[d] = {},
         pc'[d] \notin {"out", "rescale"}
  PROVE  Secured(d)'
<1>1. Obtained(d) \subseteq Names
  BY Parties DEF Obtained, Needed
<1> QED
  BY <1>1 DEF Lasting, Secured

\* Obtaining an actor puts driver d past that one.
LEMMA ObtainedStep ==
  ASSUME ClusterTypeOK, NEW d \in Drivers, NEW h, pc[d] \in {"look", "make"}, Obtain(d, h)
  PROVE  Obtained(d)' \subseteq Obtained(d) \cup {at[d]}
<1>0. /\ pc \in [Drivers -> {"out", "look", "make", "host", "wait", "addr", "bootstrap", "up",
                             "failed", "rescale", "unscale", "unwork", "unschedule", "down"}]
      /\ at \in [Drivers -> Names] /\ at[d] \in Names
  BY TypeParts DEF DriversTypeOK
<1>1. Obtained(d) = {n \in Needed : Comes(n, at[d])}
  BY DEF Obtained
<1>2. /\ Needed \subseteq {Scaler, Scheduler} \cup 0..(NumWorkers - 1)
      /\ First \in {Scaler, Scheduler} \cap Needed /\ Scheduler \in Needed
      /\ Scheduler # Scaler
      /\ \A w \in WorkerIds : w \in Int /\ w # Scaler /\ w # Scheduler
  BY ActorsAssumption DEF Needed, First, WorkerIds
<1>3. CASE at[d] = Scaler /\ Go(d, "wait") /\ UNCHANGED at
  <2>1. Obtained(d)' = Needed \cap {Scaler}
    BY <1>0, <1>3 DEF Go, Obtained, Needed, First
  <2> QED BY <1>3, <2>1
<1>4. CASE at[d] = Scheduler /\ Go(d, "host") /\ UNCHANGED at
  <2>1. Obtained(d)' = {First, Scheduler}
    BY <1>0, <1>4 DEF Go, Obtained, First
  <2> QED BY <1>1, <1>2, <1>4, <2>1 DEF Comes
<1>5. CASE at[d] # Scaler /\ at[d] = NumWorkers - 1 /\ Go(d, "wait") /\ UNCHANGED at
  <2>1. Obtained(d)' = Needed
    BY <1>0, <1>5 DEF Go, Obtained, Needed, First
  <2>2. ASSUME NEW n \in Needed, n # at[d] PROVE Comes(n, at[d])
    <3>1. CASE at[d] \in WorkerIds
      <4>1. CASE n \in 0..(NumWorkers - 1)
        BY <1>2, <1>5, <2>2, <3>1, <4>1, Parties DEF Comes
      <4> QED BY <1>2, <1>5, <2>2, <3>1, <4>1 DEF Comes
    <3>2. CASE at[d] \notin WorkerIds
      <4>1. 0..(NumWorkers - 1) = {}
        BY <1>5, <3>2, Parties, ActorsAssumption, PoolAssumption DEF WorkerIds
      <4>2. n = Scaler
        BY <1>0, <1>2, <1>5, <2>2, <3>2, <4>1 DEF Names
      <4> QED BY <1>5, <4>2 DEF Comes
    <3> QED BY <3>1, <3>2
  <2> QED BY <1>1, <2>1, <2>2
<1>6. CASE /\ at[d] \in 0..(NumWorkers - 2)
           /\ Go(d, "look")
           /\ at' = [at EXCEPT ![d] = @ + 1]
  <2>1. Obtained(d)' = {n \in Needed : Comes(n, at[d] + 1)}
    BY <1>0, <1>6 DEF Go, Obtained, Needed, First, Comes
  <2>2. at[d] \in WorkerIds /\ at[d] + 1 \in WorkerIds /\ at[d] \in Int
    BY <1>6, Parties, ActorsAssumption, PoolAssumption DEF WorkerIds
  <2>3. ASSUME NEW n \in Needed, Comes(n, at[d] + 1), n # at[d] PROVE Comes(n, at[d])
    BY <1>2, <2>2, <2>3 DEF Comes
  <2> QED BY <1>1, <2>1, <2>3
<1> QED
  BY <1>3, <1>4, <1>5, <1>6 DEF Obtain

\* A driver that starts keeps what it obtained, and so do the others.
LEMMA SecuredStep ==
  ASSUME ClusterTypeOK, Quiet, Undisturbed, NEW d \in Drivers, Start(d) \/ StartStep(d),
         \A e \in Drivers : Secured(e)
  PROVE  Undisturbed' /\ \A e \in Drivers : Secured(e)'
<1>0. /\ pc \in [Drivers -> {"out", "look", "make", "host", "wait", "addr", "bootstrap", "up",
                             "failed", "rescale", "unscale", "unwork", "unschedule", "down"}]
      /\ at \in [Drivers -> Names] /\ at[d] \in Names
      /\ held \in [Drivers -> SUBSET Handles]
      /\ status \in [Names -> Status] /\ gen \in [Names -> Nat]
  BY TypeParts DEF DriversTypeOK, TypeOK, RayTypeOK
<1>a. /\ Scheduler # Scaler /\ Scheduler \notin WorkerIds /\ Scaler \notin WorkerIds
      /\ 0..(NumWorkers - 1) \subseteq WorkerIds
      /\ Needed = {First, Scheduler} \cup 0..(NumWorkers - 1)
  BY ActorsAssumption, Parties DEF Needed
<1>1. ASSUME UNCHANGED vars PROVE Lasting /\ Undisturbed'
  BY <1>1 DEF vars, rayVars, terminationVars, poolVars, Lasting, Registered, Handle, Undisturbed
<1>2. ASSUME Lasting, Secured(d)', Undisturbed',
             \A e \in Drivers \ {d} : pc'[e] = pc[e] /\ at'[e] = at[e] /\ held'[e] = held[e]
      PROVE  Undisturbed' /\ \A e \in Drivers : Secured(e)'
  BY <1>2, SecuredFrame
<1>3. CASE Start(d)
  <2>1. /\ UNCHANGED <<vars, at, held>> /\ pc[d] = "out"
        /\ pc'[d] \in {"look", "failed"}
        /\ \A e \in Drivers \ {d} : pc'[e] = pc[e]
    BY <1>0, <1>3 DEF Start, Go
  <2>2. at[d] = First
    BY <2>1 DEF Secured
  <2>3. \A n \in Needed : ~Comes(n, First)
    BY <1>a, Parties DEF Comes, First
  <2>4. Obtained(d)' = {}
    BY <2>1, <2>2, <2>3 DEF Obtained, Needed, Comes, First
  <2>5. Secured(d)'
    BY <2>1, <2>4 DEF Secured
  <2> QED BY <1>1, <1>2, <2>1, <2>5
<1>4. CASE Reconnect(d)
  <2>1. /\ UNCHANGED vars /\ pc[d] = "look" /\ Registered(at[d])
        /\ held'[d] = held[d] \cup {Handle(at[d])}
        /\ pc'[d] \in {"look", "host", "wait"}
        /\ \A e \in Drivers \ {d} : pc'[e] = pc[e] /\ at'[e] = at[e] /\ held'[e] = held[e]
    BY <1>0, <1>4 DEF Reconnect, Obtain, Go
  <2>2. Obtained(d)' \subseteq Obtained(d) \cup {at[d]}
    BY <1>4, <2>1, ObtainedStep DEF Reconnect
  <2>3. UNCHANGED <<status, gen>>
    BY <2>1 DEF vars, rayVars
  <2>4. Secured(d)'
    BY <2>1, <2>2, <2>3 DEF Secured, Registered, Handle
  <2> QED BY <1>1, <1>2, <2>1, <2>4
<1>5. CASE Make(d)
  <2>0. PICK a \in Names : a = at[d]
    BY <1>0
  <2>1. /\ pc[d] = "make" /\ Create(a) /\ StartsOver(a) /\ UNCHANGED poolVars
        /\ held'[d] = held[d] \cup {<<a, gen[a] + 1>>}
        /\ pc'[d] \in {"look", "host", "wait"}
        /\ \A e \in Drivers \ {d} : pc'[e] = pc[e] /\ at'[e] = at[e] /\ held'[e] = held[e]
    BY <1>0, <1>5, <2>0 DEF Make, Obtain, Go
  <2>2. Obtained(d)' \subseteq Obtained(d) \cup {a}
    BY <1>5, <2>0, <2>1, ObtainedStep DEF Make
  <2>3. /\ ~Registered(a)
        /\ status' = [status EXCEPT ![a] = "pending"]
        /\ gen' = [gen EXCEPT ![a] = @ + 1]
    BY <2>1 DEF Create
  <2>4. Lasting
    BY <1>0, <2>3 DEF Lasting, Registered, Handle
  <2>5. Registered(a)' /\ Handle(a)' = <<a, gen[a] + 1>>
    BY <1>0, <2>3 DEF Registered, Handle
  <2>6. \A n \in Obtained(d) : n \in Names
    BY Parties DEF Obtained, Needed
  <2>7. ASSUME NEW n \in Obtained(d)'
        PROVE  status'[n] = "alive" \/ (Registered(n)' /\ Handle(n)' \in held'[d])
    <3>1. CASE n = a
      BY <2>1, <2>5, <3>1
    <3>2. CASE n \in Obtained(d)
      <4>1. status[n] = "alive" \/ (Registered(n) /\ Handle(n) \in held[d])
        BY <3>2 DEF Secured
      <4>2. n \in Names
        BY <2>6, <3>2
      <4>3. held[d] \subseteq held'[d]
        BY <2>1
      <4> QED BY <2>4, <4>1, <4>2, <4>3 DEF Lasting
    <3> QED BY <2>2, <2>7, <3>1, <3>2
  <2>8. Undisturbed'
    BY <1>0, <2>1, <2>3 DEF Undisturbed, StartsOver, poolVars
  <2>9. Secured(d)'
    BY <2>1, <2>7 DEF Secured
  <2> QED BY <1>2, <2>1, <2>4, <2>8, <2>9
<1>6. CASE GetHost(d)
  <2>1. /\ UNCHANGED <<vars, held>> /\ pc[d] = "host" /\ pc'[d] \in {"wait", "look"}
        /\ NumWorkers = 0 => pc'[d] = "wait"
        /\ NumWorkers # 0 => pc'[d] = "look" /\ at'[d] = 0
        /\ \A e \in Drivers \ {d} : pc'[e] = pc[e] /\ at'[e] = at[e]
    BY <1>0, <1>6 DEF GetHost, Go
  <2>2. Obtained(d) = {First, Scheduler}
    BY <2>1 DEF Obtained
  <2>3. Obtained(d)' \subseteq {First, Scheduler}
    <3>1. CASE NumWorkers = 0
      <4>1. Needed = {First, Scheduler}
        BY <1>a, <3>1
      <4> QED BY <2>1, <3>1, <4>1 DEF Obtained, Needed, First
    <3>2. CASE NumWorkers # 0
      <4>1. Obtained(d)' = {n \in Needed : Comes(n, 0)}
        BY <2>1, <3>2 DEF Obtained, Needed, First, Comes
      <4>2. ASSUME NEW n \in 0..(NumWorkers - 1) PROVE ~Comes(n, 0)
        BY <1>a, <4>2, Parties DEF Comes
      <4> QED BY <1>a, <4>1, <4>2
    <3> QED BY <3>1, <3>2
  <2>4. Secured(d)'
    BY <1>1, <2>1, <2>2, <2>3, SecuredMore
  <2> QED BY <1>1, <1>2, <2>1, <2>4
<1>7. CASE OneReady(d)
  <2>1. PICK h \in held[d] : IsReady(h) /\ held' = [held EXCEPT ![d] = @ \ {h}]
    BY <1>7 DEF OneReady
  <2>2. UNCHANGED <<vars, pc, at>> /\ pc[d] = "wait"
    BY <1>7 DEF OneReady
  <2>3. Obtained(d)' = Obtained(d)
    BY <2>2 DEF Obtained
  <2>4. \A n : Handle(n) = h => status[n] = "alive"
    BY <2>1 DEF IsReady, Handle
  <2>5. held'[d] = held[d] \ {h} /\ \A e \in Drivers \ {d} : held'[e] = held[e]
    BY <1>0, <2>1
  <2>6. Secured(d)'
    BY <1>1, <2>2, <2>3, <2>4, <2>5, SecuredMore
  <2> QED BY <1>1, <1>2, <2>2, <2>5, <2>6
<1>8. CASE AllReady(d)
  <2>1. /\ UNCHANGED <<vars, held>> /\ pc[d] = "wait" /\ held[d] = {}
        /\ at[d] = Scaler => pc'[d] = "look" /\ at'[d] = Scheduler
        /\ at[d] # Scaler => pc'[d] = "addr" /\ at'[d] = at[d]
        /\ \A e \in Drivers \ {d} : pc'[e] = pc[e] /\ at'[e] = at[e]
    BY <1>0, <1>8 DEF AllReady, Go
  <2>2. CASE at[d] = Scaler
    <3>1. Obtained(d) = Needed \cap {Scaler}
      BY <2>1, <2>2 DEF Obtained
    <3>2. Obtained(d)' = {n \in Needed : Comes(n, Scheduler)}
      BY <2>1, <2>2 DEF Obtained, Needed, First, Comes
    <3>3. Obtained(d)' \subseteq Obtained(d)
      BY <1>a, <3>1, <3>2 DEF Comes
    <3> QED BY <1>1, <1>2, <2>1, <2>2, <3>3, SecuredMore
  <2>3. CASE at[d] # Scaler
    <3>1. Obtained(d)' \subseteq Obtained(d)
      BY <2>1, <2>3 DEF Obtained, Needed, First
    <3> QED BY <1>1, <1>2, <2>1, <2>3, <3>1, SecuredMore
  <2> QED BY <2>2, <2>3
<1>9. CASE GetAddress(d) \/ Bootstrap(d)
  <2>1. /\ UNCHANGED <<vars, at, held>> /\ pc[d] \in {"addr", "bootstrap"}
        /\ pc'[d] \in {"bootstrap", "up"}
        /\ \A e \in Drivers \ {d} : pc'[e] = pc[e]
    BY <1>0, <1>9 DEF GetAddress, Bootstrap, Go
  <2>2. Obtained(d)' = Obtained(d)
    BY <2>1 DEF Obtained, Needed, First
  <2>3. held[d] = {}
    BY <2>1 DEF Secured
  <2> QED BY <1>1, <1>2, <2>1, <2>2, <2>3, SecuredMore
<1>10. CASE FindNone(d) \/ MakeCollides(d) \/ StartFails(d)
  <2>a. /\ UNCHANGED <<vars, at, held>>
        /\ Go(d, "failed") \/ (pc[d] = "look" /\ Go(d, "make"))
    BY <1>10 DEF FindNone, MakeCollides, StartFails
  <2>1. /\ UNCHANGED <<vars, at, held>>
        /\ pc'[d] = "failed" \/ (pc[d] = "look" /\ pc'[d] = "make")
        /\ \A e \in Drivers \ {d} : pc'[e] = pc[e]
    BY <1>0, <2>a DEF Go
  <2>2. Obtained(d)' \subseteq Obtained(d)
    BY <2>1 DEF Obtained, Needed, First, Comes
  <2> QED BY <1>1, <1>2, <2>1, <2>2, SecuredMore
<1> QED
  BY <1>3, <1>4, <1>5, <1>6, <1>7, <1>8, <1>9, <1>10 DEF StartStep

\* Every step keeps the promise to the drivers.
LEMMA QuietInvStep == ClusterTypeOK /\ QuietInv /\ [ClusterNext]_clusterVars => QuietInv'
<1> SUFFICES ASSUME ClusterTypeOK, QuietInv, [ClusterNext]_clusterVars, Quiet'
             PROVE  Undisturbed' /\ \A d \in Drivers : Secured(d)'
  BY DEF QuietInv
<1>0. Quiet /\ Undisturbed /\ \A d \in Drivers : Secured(d)
  BY QuietBefore DEF QuietInv
<1>1. CASE \E d \in Drivers : Start(d) \/ StartStep(d)
  BY <1>0, <1>1, SecuredStep
<1>2. ASSUME NEW n \in Names, InitReturns(n), UNCHANGED <<terminationVars, inbox, call, driverVars>>
      PROVE  Undisturbed' /\ \A d \in Drivers : Secured(d)'
  <2>1. /\ status[n] \in {"pending", "restarting"}
        /\ status' = [status EXCEPT ![n] = "alive"] /\ gen' = gen
    BY <1>2 DEF InitReturns
  <2>2. Lasting
    BY <2>1, TypeParts DEF Lasting, Registered, Handle, TypeOK, RayTypeOK
  <2>3. Undisturbed'
    BY <1>0, <1>2, <2>1, TypeParts DEF Undisturbed, terminationVars, TypeOK, RayTypeOK
  <2>4. \A d \in Drivers : pc'[d] = pc[d] /\ at'[d] = at[d] /\ held'[d] = held[d]
    BY <1>2 DEF driverVars
  <2> QED BY <1>0, <2>2, <2>3, <2>4, SecuredFrame
<1>3. CASE UNCHANGED <<rayVars, terminationVars, inbox, call, driverVars>>
  <2>1. Lasting /\ Undisturbed'
    BY <1>0, <1>3 DEF Lasting, Registered, Handle, Undisturbed, rayVars, terminationVars
  <2>2. \A d \in Drivers : pc'[d] = pc[d] /\ at'[d] = at[d] /\ held'[d] = held[d]
    BY <1>3 DEF driverVars
  <2> QED BY <1>0, <2>1, <2>2, SecuredFrame
<1> QED
  BY <1>0, <1>1, <1>2, <1>3, QuietStep

\* In the beginning no driver has obtained anything.
LEMMA QuietInvInit == ClusterInit => QuietInv
<1> SUFFICES ASSUME ClusterInit PROVE QuietInv
  OBVIOUS
<1>1. Undisturbed
  BY DEF ClusterInit, InitWith, Undisturbed
<1>2. \A d \in Drivers : Secured(d)
  BY DEF ClusterInit, Secured, Obtained
<1> QED
  BY <1>1, <1>2 DEF QuietInv

\* Whoever created which part of the cluster, and in whatever order drivers looked up and
\* created the same names: while nothing failed, and nobody rescaled or stopped anything, a
\* driver whose start() returned has all of it at its service (cluster.py:261-283).
THEOREM UpServes == ClusterSpec => []UpMeansServing
<1>1. ASSUME QuietInv, NEW d \in Drivers, pc[d] = "up", Quiet, NEW n \in Needed
      PROVE  status[n] = "alive" /\ n \notin halted
  BY <1>1 DEF QuietInv, Undisturbed, Secured, Obtained
<1>2. QuietInv => UpMeansServing
  BY <1>1 DEF UpMeansServing, Quiet, Needed
<1> QED
  BY <1>2, ClusterTypeInit, ClusterTypeStep, QuietInvInit, QuietInvStep, PTL DEF ClusterSpec

------------------------------------------------------------------------------
(* Nothing stays behind, where nobody rescales. *)

\* No name becomes registered, and no handle stale.
Dwindling == gen' = gen /\ \A n \in Names : Registered(n)' => Registered(n)

\* What is on the list of process p stays on it while it is registered.
Kept(p) == \A n \in Names :
             Registered(n)' => /\ OnList(p, n) => OnList(p, n)'
                               /\ Handle(n) \in job[p].handles => Handle(n)' \in job'[p].handles

\* Where nothing moves, it does.
LEMMA KeptFrame ==
  ASSUME NEW p, gen' = gen, job'[p].names = job[p].names, job'[p].handles = job[p].handles
  PROVE  Kept(p)
  BY DEF Kept, OnList, Handle

\* Killing the actor of a handle takes it off the list, and off the registry.
LEMMA KillMoves ==
  ASSUME TypeOK, NEW p \in Terminators, JobSound(p), NEW h \in job[p].handles, Kill(h),
         job[p].phase = "kill", job'[p] = [job[p] EXCEPT !.handles = @ \ {h}]
  PROVE  Kept(p) /\ JobSound(p)' /\ Dwindling
<1>0. job[p] \in Jobs /\ status \in [Names -> Status] /\ gen \in [Names -> Nat]
  BY DEF TypeOK, TerminationTypeOK, RayTypeOK
<1>1. /\ job'[p].names = job[p].names /\ job'[p].phase = "kill"
      /\ job'[p].asked = job[p].asked /\ job'[p].handles = job[p].handles \ {h}
  BY <1>0 DEF Jobs
<1>2. job[p].asked = {}
  BY DEF JobSound
<1>3. JobSound(p)'
  BY <1>1, <1>2 DEF JobSound
<1>4. gen' = gen /\ (Resolves(h) => status' = [status EXCEPT ![h[1]] = "dead"])
      /\ (~Resolves(h) => status' = status)
  BY DEF Kill
<1>5. Dwindling
  BY <1>0, <1>4 DEF Dwindling, Registered
<1>6. ASSUME NEW n \in Names, Registered(n)' PROVE Handle(n) # h
  <2>1. SUFFICES ASSUME Handle(n) = h PROVE FALSE
    OBVIOUS
  <2>2. Registered(n)
    BY <1>5, <1>6 DEF Dwindling
  <2>3. h[1] = n /\ h[2] = gen[n]
    BY <2>1 DEF Handle
  <2>4. Resolves(h)
    BY <2>2, <2>3 DEF Resolves
  <2> QED BY <1>0, <1>4, <1>6, <2>3, <2>4 DEF Registered
<1>7. Kept(p)
  BY <1>1, <1>4, <1>6 DEF Kept, OnList, Handle
<1> QED
  BY <1>3, <1>5, <1>7

\* The steps of a terminating process keep its list, and its job in order.
LEMMA JobKeeps ==
  ASSUME TypeOK, NEW p \in Terminators, JobSound(p),
         \/ ResolveName(p) \/ AskToStop(p) \/ AllStopped(p) \/ StopGivesUp(p) \/ KillNext(p)
  PROVE  /\ Kept(p) /\ JobSound(p)' /\ Dwindling
         /\ halted' = halted
         /\ \A q \in Terminators \ {p} : job'[q] = job[q]
<1>0. job[p] \in Jobs /\ job \in [Terminators -> Jobs]
  BY DEF TypeOK, TerminationTypeOK
<1>1. ASSUME UNCHANGED rayVars PROVE Dwindling /\ gen' = gen
  BY <1>1 DEF Dwindling, Registered, rayVars
<1>2. CASE ResolveName(p)
  <2>1. PICK n \in job[p].names :
          job' = [job EXCEPT ![p].names = @ \ {n},
                             ![p].handles = @ \cup (IF Registered(n) THEN {Handle(n)} ELSE {})]
    BY <1>2 DEF ResolveName
  <2> DEFINE found == IF Registered(n) THEN {Handle(n)} ELSE {}
  <2>2. Registered(n) => Handle(n) \in found
    OBVIOUS
  <2>3. UNCHANGED rayVars /\ halted' = halted /\ job[p].phase = "resolve"
    BY <1>2 DEF ResolveName
  <2> HIDE DEF found
  <2>4. /\ job'[p] = [job[p] EXCEPT !.names = @ \ {n}, !.handles = @ \cup found]
        /\ \A q \in Terminators \ {p} : job'[q] = job[q]
    BY <1>0, <2>1 DEF found
  <2>5. /\ job'[p].names = job[p].names \ {n}
        /\ job'[p].handles = job[p].handles \cup found
        /\ job'[p].asked = job[p].asked
        /\ job'[p].phase = job[p].phase
    BY <1>0, <2>4 DEF Jobs
  <2>6. JobSound(p)'
    BY <2>3, <2>5 DEF JobSound
  <2>7. Kept(p)
    BY <1>1, <2>2, <2>3, <2>5 DEF Kept, OnList, Dwindling, Handle
  <2> QED BY <1>1, <2>3, <2>4, <2>6, <2>7
<1>3. CASE AskToStop(p)
  <2> DEFINE asked == {<<h[1], h[2], restarts[h[1]]>> : h \in job[p].handles}
  <2>1. \A x \in asked : <<x[1], x[2]>> \in job[p].handles
    BY <1>0 DEF Jobs, Handles
  <2>2. /\ job' = [job EXCEPT ![p].phase = "stop", ![p].asked = asked]
        /\ job[p].names = {} /\ UNCHANGED rayVars /\ halted' = halted
    BY <1>3 DEF AskToStop
  <2> HIDE DEF asked
  <2>3. /\ job'[p].names = job[p].names
        /\ job'[p].handles = job[p].handles
        /\ job'[p].asked = asked
        /\ job'[p].phase = "stop"
        /\ \A q \in Terminators \ {p} : job'[q] = job[q]
    BY <1>0, <2>2 DEF Jobs
  <2>4. JobSound(p)'
    BY <2>1, <2>2, <2>3 DEF JobSound
  <2> QED BY <1>1, <2>2, <2>3, <2>4, KeptFrame
<1>4. CASE AllStopped(p) \/ StopGivesUp(p)
  <2>1. /\ job'[p].names = job[p].names
        /\ job'[p].handles = job[p].handles
        /\ job'[p].asked = {}
        /\ job'[p].phase = "kill"
        /\ \A q \in Terminators \ {p} : job'[q] = job[q]
        /\ job[p].phase = "stop" /\ UNCHANGED rayVars /\ halted' = halted
    BY <1>0, <1>4 DEF Jobs, AllStopped, StopGivesUp
  <2>2. JobSound(p)'
    BY <2>1 DEF JobSound
  <2> QED BY <1>1, <2>1, <2>2, KeptFrame
<1>5. CASE KillNext(p)
  <2>1. PICK h \in job[p].handles : Kill(h) /\ job' = [job EXCEPT ![p].handles = @ \ {h}]
    BY <1>5 DEF KillNext
  <2>2. /\ job'[p] = [job[p] EXCEPT !.handles = @ \ {h}]
        /\ \A q \in Terminators \ {p} : job'[q] = job[q]
        /\ job[p].phase = "kill" /\ halted' = halted
    BY <1>0, <1>5, <2>1 DEF KillNext
  <2> QED BY <2>1, <2>2, KillMoves
<1> QED
  BY <1>2, <1>3, <1>4, <1>5

\* The scheduler actor is never in the middle of a rescaling.
LEMMA NeverRescaled ==
  ASSUME OnlyStatus, TypeOK, call = NoCall, JobsSound
  PROVE  /\ ~BeginToGrow /\ ~BeginToShrink /\ ~AddWorker /\ ~Finish /\ ~Removing /\ ~AddCollides
         /\ \A d \in Drivers : ~AskToRescale(d)
         /\ job[Scheduler] = NoJob
<1>1. ~Serves("scale_to")
  <2> SUFFICES ASSUME Serves("scale_to") PROVE FALSE
    OBVIOUS
  <2>1. Head(inbox) \in Clients
    BY ServedAmount
  <2>2. request[Head(inbox)] \in Requests \cup {NoRequest}
    BY <2>1 DEF TypeOK, PoolTypeOK
  <2>3. request[Head(inbox)].kind # "scale_to"
    BY <2>2 DEF OnlyStatus, NoRequest
  <2> QED BY <2>3 DEF Serves
<1>2. job[Scheduler] = NoJob
  BY Parties DEF JobsSound
<1>3. ~Removing /\ ~Finish /\ ~AddWorker /\ ~AddCollides
  BY <1>2 DEF Removing, Finish, AddWorker, AddCollides, ResolveName, AskToStop, AllStopped,
              StopGivesUp, KillNext, NoCall, NoJob
<1>4. \A d \in Drivers : ~AskToRescale(d)
  BY DEF AskToRescale, OnlyStatus
<1> QED
  BY <1>1, <1>2, <1>3, <1>4 DEF BeginToGrow, BeginToShrink

\* What is left of the steps of everybody but the drivers: an actor serves a stop() call,
\* or the registry loses what it loses.
LEMMA OthersKeep ==
  ASSUME OnlyStatus, ClusterTypeOK, call = NoCall, JobsSound,
         \/ SchedulerStarts \/ SchedulerHalts \/ AddCollides \/ ScalerStep
         \/ Next /\ UNCHANGED driverVars
         \/ UNCHANGED clusterVars
  PROVE  /\ call' = NoCall
         /\ UNCHANGED driverVars
         /\ Dwindling
         /\ \/ \E n \in Names : Halt(n)
            \/ job' = job /\ halted' \subseteq halted
<1> DEFINE Goal == /\ call' = NoCall /\ Dwindling
                   /\ \/ \E n \in Names : Halt(n)
                      \/ job' = job /\ halted' \subseteq halted
<1>0. /\ TypeOK /\ job[Scheduler] = NoJob
      /\ job \in [Terminators -> Jobs] /\ status \in [Names -> Status]
  BY NeverRescaled, TypeParts DEF TypeOK, TerminationTypeOK, RayTypeOK
<1>1. ASSUME UNCHANGED rayVars PROVE Dwindling
  BY <1>1 DEF Dwindling, Registered, rayVars
<1>2. ASSUME NEW n \in Names, \/ InitReturns(n) \/ InitRaises(n) \/ ProcessDies(n)
                              \/ IsRestarted(n) \/ IsGivenUp(n)
      PROVE  Dwindling
  <2>1. PICK new \in Status : /\ status[n] # "dead"
                              /\ status' = [status EXCEPT ![n] = new]
                              /\ gen' = gen
    BY <1>2 DEF Status, InitReturns, InitRaises, ProcessDies, IsRestarted, IsGivenUp
  <2> QED BY <1>0, <2>1 DEF Dwindling, Registered
<1>3. ASSUME NEW n \in Names, Halt(n) PROVE Dwindling
  BY <1>1, <1>3 DEF Halt
<1>4. ASSUME SchedulerStarts \/ SchedulerHalts \/ ScalerStep PROVE Goal
  BY <1>2, <1>3, <1>4, Parties DEF SchedulerStarts, SchedulerHalts, ScalerStep, terminationVars, poolVars
<1>5. ASSUME NEW c \in Clients, Callers(c) PROVE Goal
  BY <1>1, <1>5 DEF Callers, Accept, Reject, Relay, FindNoScheduler, GiveUp, terminationVars
<1>6. ASSUME ReportStatus PROVE Goal
  BY <1>1, <1>6 DEF ReportStatus, terminationVars
<1>7. ASSUME NEW w \in WorkerIds, WorkerStep(w) PROVE Goal
  <2>1. call' = NoCall /\ Dwindling
    BY <1>2, <1>3, <1>7, Parties DEF WorkerStep, poolVars
  <2> QED BY <1>7, <2>1, Parties DEF WorkerStep, StartsOver, terminationVars
<1>8. ASSUME SchedulerDies PROVE Goal
  <2>1. job' = job
    BY <1>0, <1>8, Parties DEF SchedulerDies
  <2> QED BY <1>2, <1>8, <2>1, Parties DEF SchedulerDies
<1>9. ASSUME SchedulerIsGivenUp \/ ScalerDies \/ ScalerIsGivenUp PROVE Goal
  BY <1>2, <1>9, Parties DEF SchedulerIsGivenUp, ScalerDies, ScalerIsGivenUp, terminationVars, poolVars
<1>10. ASSUME UNCHANGED clusterVars PROVE Goal
  BY <1>1, <1>10 DEF clusterVars, vars, terminationVars, poolVars
<1>11. ASSUME Next PROVE Goal
  BY <1>0, <1>5, <1>6, <1>7, <1>8, <1>9, <1>11, NeverRescaled DEF Next, SchedulerStep, Callers
<1>12. UNCHANGED driverVars
  BY DEF SchedulerStarts, SchedulerHalts, AddCollides, ScalerStep, clusterVars
<1> QED
  BY <1>0, <1>4, <1>10, <1>11, <1>12, NeverRescaled

\* A driver in start() touches no job, and is not stopping before or after.
LEMMA StartKeeps ==
  ASSUME ClusterTypeOK, NEW d \in Drivers, Start(d) \/ StartStep(d) \/ RescaleReturns(d)
  PROVE  /\ UNCHANGED <<job, call>>
         /\ ~Stopping(d)' /\ pc'[d] # "down" /\ ~Stopping(d) /\ pc[d] # "down"
         /\ \A e \in Drivers \ {d} : pc'[e] = pc[e] /\ at'[e] = at[e]
         /\ at'[d] = Scaler => at[d] = Scaler
         /\ \/ Make(d) /\ at[d] \in Names
            \/ UNCHANGED rayVars /\ halted' = halted
<1>0. /\ pc \in [Drivers -> {"out", "look", "make", "host", "wait", "addr", "bootstrap", "up",
                             "failed", "rescale", "unscale", "unwork", "unschedule", "down"}]
      /\ at \in [Drivers -> Names]
  BY TypeParts DEF DriversTypeOK
<1>a. Scaler \notin WorkerIds /\ Scaler # Scheduler
  BY ActorsAssumption
<1>1. UNCHANGED vars => UNCHANGED <<job, call>> /\ UNCHANGED rayVars /\ halted' = halted
  BY DEF vars, terminationVars, poolVars
<1>2. ASSUME NEW h, Obtain(d, h), pc[d] \in {"look", "make"}
      PROVE  /\ ~Stopping(d)' /\ pc'[d] # "down" /\ ~Stopping(d) /\ pc[d] # "down"
             /\ \A e \in Drivers \ {d} : pc'[e] = pc[e] /\ at'[e] = at[e]
             /\ at'[d] = Scaler => at[d] = Scaler
  <2>1. CASE UNCHANGED at
    <3>1. Go(d, "wait") \/ Go(d, "host") \/ Go(d, "look")
      BY <1>2 DEF Obtain
    <3> QED BY <1>0, <1>2, <2>1, <3>1 DEF Go, Stopping
  <2>2. CASE at[d] \in 0..(NumWorkers - 2) /\ Go(d, "look") /\ at' = [at EXCEPT ![d] = @ + 1]
    <3>1. at[d] + 1 \in WorkerIds
      BY <2>2, Parties, PoolAssumption, ActorsAssumption DEF WorkerIds
    <3> QED BY <1>0, <1>a, <1>2, <2>2, <3>1 DEF Go, Stopping
  <2> QED BY <1>2, <2>1, <2>2 DEF Obtain
<1>3. CASE Reconnect(d)
  BY <1>1, <1>2, <1>3 DEF Reconnect
<1>4. CASE Make(d)
  BY <1>0, <1>2, <1>4 DEF Make, StartsOver, poolVars
<1>5. CASE GetHost(d)
  <2>1. NumWorkers # 0 => 0 # Scaler
    BY <1>a, ActorsAssumption DEF WorkerIds
  <2> QED BY <1>0, <1>1, <1>5, <2>1 DEF GetHost, Go, Stopping
<1>6. CASE AllReady(d)
  BY <1>0, <1>a, <1>1, <1>6 DEF AllReady, Go, Stopping
<1>7. CASE OneReady(d)
  BY <1>0, <1>1, <1>7 DEF OneReady, Stopping
<1>8. CASE \/ Start(d) \/ FindNone(d) \/ MakeCollides(d) \/ GetAddress(d) \/ Bootstrap(d)
           \/ StartFails(d) \/ RescaleReturns(d)
  <2>1. /\ \E where \in {"look", "failed", "make", "up", "bootstrap"} : Go(d, where)
        /\ UNCHANGED <<vars, at>>
        /\ pc[d] \in {"out", "look", "make", "host", "wait", "addr", "bootstrap", "rescale"}
    BY <1>8 DEF Start, FindNone, MakeCollides, GetAddress, Bootstrap, StartFails, RescaleReturns
  <2> QED BY <1>0, <1>1, <2>1 DEF Go, Stopping
<1> QED
  BY <1>3, <1>4, <1>5, <1>6, <1>7, <1>8 DEF StartStep

\* From one part of stop() to the next a driver exchanges a list that is used up for another.
LEMMA StopMoves ==
  ASSUME ClusterTypeOK, JobsSound, NEW d \in Drivers,
         Stop(d) \/ StopWorkers(d) \/ StopScheduler(d) \/ StopEnds(d)
  PROVE  /\ UNCHANGED <<rayVars, call, halted, at>>
         /\ job[d].names = {} /\ job[d].handles = {}
         /\ JobSound(d)' /\ (~Stopping(d)' => job'[d] = NoJob)
         /\ \A p \in Terminators \ {d} : job'[p] = job[p]
         /\ \A e \in Drivers \ {d} : pc'[e] = pc[e] /\ mine'[e] = mine[e]
<1>0. /\ job \in [Terminators -> Jobs] /\ job[d] \in Jobs /\ d \in Terminators
      /\ pc \in [Drivers -> {"out", "look", "make", "host", "wait", "addr", "bootstrap", "up",
                             "failed", "rescale", "unscale", "unwork", "unschedule", "down"}]
      /\ mine \in [Drivers -> SUBSET Handles]
  BY TypeParts, Parties DEF DriversTypeOK, TypeOK, TerminationTypeOK
<1>1. ASSUME NEW names, NEW handles, TerminateFor(d, names, handles)
      PROVE  /\ job'[d].phase = "resolve" /\ job'[d].asked = {}
             /\ \A p \in Terminators \ {d} : job'[p] = job[p]
  BY <1>0, <1>1 DEF TerminateFor, Terminate, NoJob
<1>2. CASE Stop(d)
  <2>1. ~Stopping(d) /\ pc' = [pc EXCEPT ![d] = "unscale"]
    BY <1>2 DEF Stop, Stopping, Go
  <2>2. job[d].names = {} /\ job[d].handles = {}
    BY <1>0, <2>1 DEF JobsSound, NoJob
  <2>3. /\ job'[d].phase = "resolve" /\ job'[d].asked = {}
        /\ \A p \in Terminators \ {d} : job'[p] = job[p]
    BY <1>1, <1>2 DEF Stop
  <2> QED BY <1>0, <1>2, <2>1, <2>2, <2>3 DEF Stop, poolVars, JobSound, Stopping
<1>3. CASE StopWorkers(d) \/ StopScheduler(d)
  <2>1. /\ Terminated(d)
        /\ \E where \in {"unwork", "unschedule"} : pc' = [pc EXCEPT ![d] = where]
        /\ UNCHANGED <<rayVars, halted, poolVars, at, mine>>
    BY <1>3 DEF StopWorkers, StopScheduler, Go
  <2>2. job[d].names = {} /\ job[d].handles = {}
    BY <1>0, <2>1 DEF JobsSound, JobSound, Terminated
  <2>3. /\ job'[d].phase = "resolve" /\ job'[d].asked = {}
        /\ \A p \in Terminators \ {d} : job'[p] = job[p]
    BY <1>1, <1>3 DEF StopWorkers, StopScheduler
  <2> QED BY <1>0, <2>1, <2>2, <2>3 DEF poolVars, JobSound, Stopping
<1>4. CASE StopEnds(d)
  <2>1. job[d].names = {} /\ job[d].handles = {}
    BY <1>0, <1>4 DEF StopEnds, JobsSound, JobSound, Terminated
  <2>2. job'[d] = NoJob /\ \A p \in Terminators \ {d} : job'[p] = job[p]
    BY <1>0, <1>4 DEF StopEnds
  <2>3. JobSound(d)'
    BY <2>2 DEF JobSound, NoJob
  <2> QED BY <1>0, <1>4, <2>1, <2>2, <2>3 DEF StopEnds, Go, poolVars
<1> QED
  BY <1>2, <1>3, <1>4

\* A driver that is terminating actors takes none off its list that is still registered.
LEMMA StopKeeps ==
  ASSUME OnlyStatus, ClusterTypeOK, call = NoCall, JobsSound, NEW d \in Drivers,
         KillScaler(d) \/ KillScheduler(d) \/ Terminates(d)
  PROVE  /\ call' = NoCall
         /\ UNCHANGED <<driverVars, halted>>
         /\ Dwindling /\ Kept(d) /\ JobSound(d)'
         /\ Stopping(d)
         /\ \A p \in Terminators \ {d} : job'[p] = job[p]
<1>0. /\ TypeOK /\ job \in [Terminators -> Jobs] /\ d \in Terminators /\ d # Scheduler
      /\ JobSound(d) /\ Scheduler \in Terminators
      /\ ~Stopping(d) => job[d].phase = "none" /\ job[d].handles = {}
      /\ job[Scheduler] = NoJob
  BY TypeParts, Parties, NeverRescaled DEF TypeOK, TerminationTypeOK, JobsSound, NoJob
<1>1. CASE KillScaler(d)
  <2>1. PICK h \in job[d].handles : Kill(h) /\ job' = [job EXCEPT ![d].handles = @ \ {h}]
    BY <1>1 DEF KillScaler
  <2>2. /\ job'[d] = [job[d] EXCEPT !.handles = @ \ {h}]
        /\ \A p \in Terminators \ {d} : job'[p] = job[p]
    BY <1>0, <2>1
  <2>3. Kept(d) /\ JobSound(d)' /\ Dwindling
    BY <1>0, <1>1, <2>1, <2>2, KillMoves DEF KillScaler
  <2> QED BY <1>1, <2>2, <2>3 DEF KillScaler, Stopping
<1>2. CASE KillScheduler(d)
  <2>1. PICK h \in job[d].handles :
          /\ Kill(h)
          /\ job' = [job EXCEPT ![d].handles = @ \ {h},
                                ![Scheduler] = IF Resolves(h) THEN NoJob ELSE @]
    BY <1>2 DEF KillScheduler
  <2>2. job'[d] = [job[d] EXCEPT !.handles = @ \ {h}]
    BY <1>0, <2>1
  <2>3. \A p \in Terminators \ {d} : job'[p] = job[p]
    BY <1>0, <2>1
  <2>4. Kept(d) /\ JobSound(d)' /\ Dwindling
    BY <1>0, <1>2, <2>1, <2>2, KillMoves DEF KillScheduler
  <2> QED BY <1>2, <2>3, <2>4 DEF KillScheduler, Stopping
<1>3. CASE Terminates(d)
  <2>1. \/ ResolveName(d) \/ AskToStop(d) \/ AllStopped(d) \/ StopGivesUp(d) \/ KillNext(d)
    BY <1>3 DEF Terminates
  <2>2. Stopping(d)
    BY <1>0, <2>1 DEF ResolveName, AskToStop, AllStopped, StopGivesUp, KillNext
  <2> QED BY <1>0, <1>3, <2>1, <2>2, JobKeeps DEF Terminates, poolVars
<1> QED
  BY <1>1, <1>2, <1>3

\* An actor that serves a stop() is on the list of whoever asked it to.
LEMMA HaltKeeps ==
  ASSUME ClusterTypeOK, JobsSound, NEW n \in Names, Halt(n)
  PROVE  /\ \E p \in Terminators : Handle(n) \in job[p].handles
         /\ \A p \in Terminators : /\ Kept(p) /\ JobSound(p)'
                                   /\ job[p] = NoJob => job'[p] = NoJob
         /\ halted' = halted \cup {n}
<1>0. job \in [Terminators -> Jobs]
  BY TypeParts DEF TypeOK, TerminationTypeOK
<1>1. PICK p \in Terminators : /\ Incarnation(n) \in job[p].asked
                               /\ job' = [job EXCEPT ![p].asked = @ \ {Incarnation(n)}]
  BY DEF Halt
<1>2. /\ job'[p].names = job[p].names /\ job'[p].handles = job[p].handles
      /\ job'[p].phase = job[p].phase /\ job'[p].asked = job[p].asked \ {Incarnation(n)}
      /\ \A q \in Terminators \ {p} : job'[q] = job[q]
  BY <1>0, <1>1 DEF Jobs
<1>3. Handle(n) \in job[p].handles
  BY <1>1 DEF JobsSound, JobSound, Incarnation, Handle
<1>4. gen' = gen /\ halted' = halted \cup {n}
  BY DEF Halt, rayVars
<1>5. \A q \in Terminators : Kept(q)
  BY <1>2, <1>4, KeptFrame
<1>6. \A q \in Terminators : JobSound(q)'
  BY <1>2 DEF JobsSound, JobSound
<1>7. job[p] # NoJob
  BY <1>1 DEF NoJob
<1> QED
  BY <1>2, <1>3, <1>4, <1>5, <1>6, <1>7

\* A step of somebody who is not a driver, or of a driver that is terminating actors: nothing
\* new comes up, no list loses what is registered, and who stopped is on one.
LEMMA KeptStep ==
  ASSUME OnlyStatus, ClusterTypeOK, call = NoCall, JobsSound,
         \/ \E d \in Drivers : KillScaler(d) \/ KillScheduler(d) \/ Terminates(d)
         \/ SchedulerStarts \/ SchedulerHalts \/ AddCollides \/ ScalerStep
         \/ Next /\ UNCHANGED driverVars
         \/ UNCHANGED clusterVars
  PROVE  /\ call' = NoCall /\ JobsSound'
         /\ UNCHANGED <<pc, at, mine>>
         /\ Dwindling
         /\ \A p \in Terminators : Kept(p)
         /\ \A n \in halted' : \/ n \in halted
                               \/ \E p \in Terminators : Handle(n) \in job[p].handles
<1> DEFINE Goal == /\ call' = NoCall /\ JobsSound'
                   /\ UNCHANGED <<pc, at, mine>>
                   /\ Dwindling
                   /\ \A p \in Terminators : Kept(p)
                   /\ \A n \in halted' : \/ n \in halted
                                         \/ \E p \in Terminators : Handle(n) \in job[p].handles
<1>1. ASSUME NEW d \in Drivers, KillScaler(d) \/ KillScheduler(d) \/ Terminates(d) PROVE Goal
  <2>1. /\ call' = NoCall /\ UNCHANGED <<driverVars, halted>>
        /\ Dwindling /\ Kept(d) /\ JobSound(d)' /\ Stopping(d)
        /\ \A p \in Terminators \ {d} : job'[p] = job[p]
    BY <1>1, StopKeeps
  <2>2. \A p \in Terminators : Kept(p)
    BY <2>1, KeptFrame DEF Dwindling
  <2>3. JobsSound'
    BY <2>1 DEF JobsSound, JobSound, Stopping, driverVars
  <2> QED BY <2>1, <2>2, <2>3 DEF driverVars
<1>2. ASSUME \/ SchedulerStarts \/ SchedulerHalts \/ AddCollides \/ ScalerStep
             \/ Next /\ UNCHANGED driverVars
             \/ UNCHANGED clusterVars
      PROVE  Goal
  <2>1. /\ call' = NoCall /\ UNCHANGED driverVars /\ Dwindling
        /\ \/ \E n \in Names : Halt(n)
           \/ job' = job /\ halted' \subseteq halted
    BY <1>2, OthersKeep
  <2>2. CASE \E n \in Names : Halt(n)
    <3>1. PICK n \in Names : Halt(n)
      BY <2>2
    <3>2. /\ \E p \in Terminators : Handle(n) \in job[p].handles
          /\ \A p \in Terminators : /\ Kept(p) /\ JobSound(p)'
                                    /\ job[p] = NoJob => job'[p] = NoJob
          /\ halted' = halted \cup {n}
      BY <3>1, HaltKeeps
    <3>3. JobsSound'
      BY <2>1, <3>2 DEF JobsSound, Stopping, driverVars
    <3> QED BY <2>1, <3>2, <3>3 DEF driverVars
  <2>3. CASE job' = job /\ halted' \subseteq halted
    <3>1. \A p \in Terminators : Kept(p)
      BY <2>1, <2>3, KeptFrame DEF Dwindling
    <3>2. JobsSound'
      BY <2>1, <2>3 DEF JobsSound, JobSound, Stopping, driverVars
    <3> QED BY <2>1, <2>3, <3>1, <3>2 DEF driverVars
  <2> QED BY <2>1, <2>2, <2>3
<1> QED
  BY <1>1, <1>2

\* Where nobody rescales, a step is one of start(), one from a part of stop() to the next, or
\* one of those above.
LEMMA StepKinds ==
  ASSUME OnlyStatus, ClusterTypeOK, call = NoCall, JobsSound, [ClusterNext]_clusterVars
  PROVE  \/ \E d \in Drivers : Start(d) \/ StartStep(d) \/ RescaleReturns(d)
         \/ \E d \in Drivers : Stop(d) \/ StopWorkers(d) \/ StopScheduler(d) \/ StopEnds(d)
         \/ \E d \in Drivers : KillScaler(d) \/ KillScheduler(d) \/ Terminates(d)
         \/ SchedulerStarts \/ SchedulerHalts \/ AddCollides \/ ScalerStep
         \/ Next /\ UNCHANGED driverVars
         \/ UNCHANGED clusterVars
  BY NeverRescaled, TypeParts DEF ClusterNext, StopStep

\* What a driver makes in start() is a new actor, and everything else stays as it was.
LEMMA OnlyMade ==
  ASSUME ClusterTypeOK, NEW d \in Drivers, Start(d) \/ StartStep(d) \/ RescaleReturns(d),
         NEW n \in Names, n # at[d]
  PROVE  /\ Registered(n)' => Registered(n)
         /\ Handle(n)' = Handle(n)
         /\ n \in halted' => n \in halted
<1>1. status \in [Names -> Status] /\ gen \in [Names -> Nat]
  BY TypeParts DEF TypeOK, RayTypeOK
<1>2. CASE Make(d) /\ at[d] \in Names
  <2>1. PICK m \in Names : m = at[d]
    BY <1>2
  <2>2. Create(m) /\ StartsOver(m)
    BY <1>2, <2>1, MakeStep
  <2> QED BY <1>1, <2>1, <2>2 DEF Create, StartsOver, Registered, Handle
<1>3. CASE UNCHANGED rayVars /\ halted' = halted
  BY <1>3 DEF rayVars, Registered, Handle
<1> QED
  BY <1>2, <1>3, StartKeeps

\* The one it makes has its own binary, and is registered for the first time.
LEMMA MadeAnew ==
  ASSUME ClusterTypeOK, NEW d \in Drivers, Start(d) \/ StartStep(d) \/ RescaleReturns(d)
  PROVE  \/ at[d] \notin halted'
         \/ UNCHANGED rayVars /\ halted' = halted
<1>1. CASE Make(d)
  BY <1>1, MakeStep DEF StartsOver
<1> QED
  BY <1>1, StartKeeps

\* Every step keeps the jobs in order, and the actors that stopped on a list.
LEMMA HaltedInvStep ==
  ASSUME HaltedInv, [ClusterNext]_clusterVars
  PROVE  HaltedInv'
<1> USE DEF HaltedInv
<1>0. OnlyStatus' /\ ClusterTypeOK'
  BY ClusterTypeStep DEF OnlyStatus
<1>1. ASSUME NEW d \in Drivers, Start(d) \/ StartStep(d) \/ RescaleReturns(d) PROVE HaltedInv'
  <2>1. /\ UNCHANGED <<job, call>> /\ ~Stopping(d)' /\ ~Stopping(d)
        /\ \A e \in Drivers \ {d} : pc'[e] = pc[e]
    BY <1>1, StartKeeps
  <2>2. JobsSound'
    BY <2>1 DEF JobsSound, JobSound, Stopping
  <2>3. HaltedAreKilled'
    <3> SUFFICES ASSUME NEW n \in Names, n \in halted', Registered(n)'
                 PROVE  \E p \in Terminators : Handle(n)' \in job'[p].handles
      BY DEF HaltedAreKilled
    <3>1. n \in halted /\ Registered(n) /\ Handle(n)' = Handle(n)
      <4>1. CASE UNCHANGED rayVars /\ halted' = halted
        BY <4>1 DEF rayVars, Registered, Handle
      <4>2. CASE n # at[d]
        BY <1>1, <4>2, OnlyMade
      <4> QED BY <1>1, <4>1, <4>2, MadeAnew
    <3> QED BY <2>1, <3>1 DEF HaltedAreKilled
  <2> QED BY <1>0, <2>1, <2>2, <2>3
<1>2. ASSUME NEW d \in Drivers, Stop(d) \/ StopWorkers(d) \/ StopScheduler(d) \/ StopEnds(d)
      PROVE  HaltedInv'
  <2>1. /\ UNCHANGED <<rayVars, call, halted>>
        /\ job[d].handles = {}
        /\ JobSound(d)' /\ (~Stopping(d)' => job'[d] = NoJob)
        /\ \A p \in Terminators \ {d} : job'[p] = job[p]
        /\ \A e \in Drivers \ {d} : pc'[e] = pc[e]
    BY <1>2, StopMoves
  <2>2. JobsSound'
    BY <2>1 DEF JobsSound, JobSound, Stopping
  <2>3. HaltedAreKilled'
    BY <2>1 DEF HaltedAreKilled, rayVars, Registered, Handle
  <2> QED BY <1>0, <2>1, <2>2, <2>3
<1>3. ASSUME \/ \E d \in Drivers : KillScaler(d) \/ KillScheduler(d) \/ Terminates(d)
             \/ SchedulerStarts \/ SchedulerHalts \/ AddCollides \/ ScalerStep
             \/ Next /\ UNCHANGED driverVars
             \/ UNCHANGED clusterVars
      PROVE  HaltedInv'
  <2>1. /\ call' = NoCall /\ JobsSound' /\ Dwindling
        /\ \A p \in Terminators : Kept(p)
        /\ \A n \in halted' : \/ n \in halted
                              \/ \E p \in Terminators : Handle(n) \in job[p].handles
    BY <1>3, KeptStep
  <2>2. HaltedAreKilled'
    BY <2>1 DEF HaltedAreKilled, Dwindling, Kept
  <2> QED BY <1>0, <2>1, <2>2
<1> QED
  BY <1>1, <1>2, <1>3, StepKinds

\* In the beginning nobody terminates anything.
LEMMA HaltedInvInit == OnlyStatus /\ ClusterInit => HaltedInv
<1> SUFFICES ASSUME OnlyStatus, ClusterInit PROVE HaltedInv
  OBVIOUS
<1>1. /\ job = [p \in Terminators |-> NoJob]
      /\ halted = {} /\ call = NoCall
  BY DEF ClusterInit, InitWith
<1>2. JobsSound
  BY <1>1 DEF JobsSound, JobSound, NoJob
<1> QED
  BY <1>1, <1>2, ClusterTypeInit DEF HaltedInv, HaltedAreKilled

\* An actor that was told to stop, and did, is killed by whoever told it, or has gone before:
\* no later start() finds it. Nobody rescales: a scheduler actor that dies in the middle of
\* shrinking the pool leaves workers behind that have stopped (utils.py:74-82,
\* cluster.py:127-129).
THEOREM StoppedGo == OnlyStatus /\ ClusterSpec => []HaltedAreKilled
<1>1. HaltedInv /\ [ClusterNext]_clusterVars => HaltedInv'
  BY HaltedInvStep
<1>2. HaltedInv => HaltedAreKilled
  BY DEF HaltedInv
<1> QED
  BY <1>1, <1>2, HaltedInvInit, PTL DEF ClusterSpec

------------------------------------------------------------------------------
(* What stop() leaves. *)

\* A driver in start() is not one of those that stop, and makes no scaler nobody wants.
LEMMA GoingStart ==
  ASSUME StopInv, NEW d \in Drivers, Start(d) \/ StartStep(d) \/ RescaleReturns(d)
  PROVE  /\ ScalerWanted'
         /\ ScalerGoes' /\ WorkersGo' /\ SchedulerGoes'
<1>1. /\ ~Stopping(d)' /\ pc'[d] # "down"
      /\ \A e \in Drivers \ {d} : at'[e] = at[e]
      /\ at'[d] = Scaler => at[d] = Scaler
  BY StartKeeps DEF StopInv, HaltedInv
<1>2. ScalerWanted'
  <2>1. at[d] # Scaler => (Registered(Scaler)' => Registered(Scaler))
    BY OnlyMade, Parties DEF StopInv, HaltedInv
  <2> QED BY <1>1, <2>1 DEF StopInv, ScalerWanted
<1> QED
  BY <1>1, <1>2 DEF ScalerGoes, WorkersGo, SchedulerGoes, Stopping

\* A driver goes from one kind of actors to the next only when its list is used up, and then
\* has all of the next kind on it that are registered.
LEMMA GoingStop ==
  ASSUME StopInv, NEW d \in Drivers,
         Stop(d) \/ StopWorkers(d) \/ StopScheduler(d) \/ StopEnds(d)
  PROVE  /\ ScalerWanted'
         /\ ScalerGoes' /\ WorkersGo' /\ SchedulerGoes'
<1>0. /\ ClusterTypeOK /\ JobsSound /\ ScalerWanted
      /\ ScalerGoes /\ WorkersGo /\ SchedulerGoes
      /\ job \in [Terminators -> Jobs] /\ d \in Terminators
      /\ pc \in [Drivers -> {"out", "look", "make", "host", "wait", "addr", "bootstrap", "up",
                             "failed", "rescale", "unscale", "unwork", "unschedule", "down"}]
      /\ mine \in [Drivers -> SUBSET Handles]
      /\ Drivers \subseteq Terminators
  BY TypeParts, Parties DEF StopInv, HaltedInv, DriversTypeOK, TypeOK, TerminationTypeOK
<1>1. /\ UNCHANGED <<rayVars, at>>
      /\ job[d].names = {} /\ job[d].handles = {}
      /\ \A e \in Drivers \ {d} : job'[e] = job[e] /\ pc'[e] = pc[e] /\ mine'[e] = mine[e]
  BY <1>0, StopMoves
<1>2. \A n : Registered(n)' = Registered(n) /\ Handle(n)' = Handle(n)
  BY <1>1 DEF rayVars, Registered, Handle
<1>3. \A n : \A e \in Drivers \ {d} : OnList(e, n)' = OnList(e, n)
  BY <1>1, <1>2 DEF OnList
<1>4. \A n : ~OnList(d, n)
  BY <1>1 DEF OnList
<1>5. ScalerWanted'
  BY <1>0, <1>1, <1>2 DEF ScalerWanted
<1>6. Listed' = Listed
  BY <1>2 DEF Listed
<1>7. ASSUME NEW names, NEW handles, TerminateFor(d, names, handles)
      PROVE  job'[d].names = names /\ job'[d].handles = handles
  BY <1>0, <1>7 DEF TerminateFor, Terminate, NoJob
<1>8. CASE Stop(d)
  <2>1. /\ pc'[d] = "unscale"
        /\ Registered(Scheduler) => Handle(Scheduler) \in mine'[d]
        /\ job'[d].names = IF ScalingEnabled THEN {Scaler} ELSE {}
    BY <1>0, <1>7, <1>8 DEF Stop, Go
  <2>2. ScalerGoes'
    <3>1. Registered(Scaler) => Scaler \in job'[d].names
      BY <1>0, <2>1, DriversAssumption DEF ScalerWanted
    <3> QED BY <1>2, <2>1, <3>1 DEF ScalerGoes, OnList
  <2>3. WorkersGo'
    BY <2>1 DEF WorkersGo
  <2>4. SchedulerGoes'
    BY <1>2, <2>1 DEF SchedulerGoes
  <2> QED BY <1>5, <2>2, <2>3, <2>4
<1>9. ASSUME Stopping(d), Stopping(d)' \/ pc'[d] = "down" PROVE ScalerGoes'
  <2> SUFFICES ASSUME (\A e \in Drivers : Stopping(e) \/ pc[e] = "down")', Registered(Scaler)'
               PROVE  (\E e \in Drivers : pc[e] = "unscale" /\ OnList(e, Scaler))'
    BY DEF ScalerGoes
  <2>1. \A e \in Drivers : Stopping(e) \/ pc[e] = "down"
    BY <1>1, <1>9 DEF Stopping
  <2>2. PICK e \in Drivers : pc[e] = "unscale" /\ OnList(e, Scaler)
    BY <1>0, <1>2, <2>1 DEF ScalerGoes
  <2> QED BY <1>1, <1>3, <1>4, <2>2
<1>10. CASE StopWorkers(d)
  <2>1. /\ pc[d] = "unscale" /\ pc'[d] = "unwork" /\ mine' = mine
        /\ job'[d].names = Listed
    BY <1>0, <1>7, <1>10 DEF StopWorkers, Go
  <2>2. ScalerGoes'
    BY <1>9, <2>1 DEF Stopping
  <2>3. WorkersGo'
    BY <1>6, <2>1 DEF WorkersGo, OnList
  <2>4. SchedulerGoes'
    <3> SUFFICES ASSUME (\A e \in Drivers : Stopping(e) \/ pc[e] = "down")', Registered(Scheduler)'
                 PROVE  (\E e \in Drivers :
                           \/ pc[e] \in {"unscale", "unwork"} /\ Handle(Scheduler) \in mine[e]
                           \/ pc[e] = "unschedule" /\ Handle(Scheduler) \in job[e].handles)'
      BY DEF SchedulerGoes
    <3>1. \A e \in Drivers : Stopping(e) \/ pc[e] = "down"
      BY <1>1, <2>1 DEF Stopping
    <3>2. PICK e \in Drivers :
             \/ pc[e] \in {"unscale", "unwork"} /\ Handle(Scheduler) \in mine[e]
             \/ pc[e] = "unschedule" /\ Handle(Scheduler) \in job[e].handles
      BY <1>0, <1>2, <3>1 DEF SchedulerGoes
    <3> QED BY <1>1, <1>2, <2>1, <3>2
  <2> QED BY <1>5, <2>2, <2>3, <2>4
<1>11. ASSUME pc[d] \in {"unwork", "unschedule"}, pc'[d] \in {"unschedule", "down"}
       PROVE  WorkersGo'
  <2> SUFFICES ASSUME (\A e \in Drivers : pc[e] \in {"unwork", "unschedule", "down"})',
                      NEW w \in Listed
               PROVE  (\E e \in Drivers : pc[e] = "unwork" /\ OnList(e, w))'
    BY <1>6 DEF WorkersGo
  <2>1. \A e \in Drivers : pc[e] \in {"unwork", "unschedule", "down"}
    BY <1>1, <1>11
  <2>2. PICK e \in Drivers : pc[e] = "unwork" /\ OnList(e, w)
    BY <1>0, <2>1 DEF WorkersGo
  <2> QED BY <1>1, <1>3, <1>4, <2>2
<1>12. CASE StopScheduler(d)
  <2>1. /\ pc[d] = "unwork" /\ pc'[d] = "unschedule"
        /\ job'[d].handles = mine[d]
    BY <1>0, <1>7, <1>12 DEF StopScheduler, Go
  <2>2. ScalerGoes' /\ WorkersGo'
    BY <1>9, <1>11, <2>1 DEF Stopping
  <2>3. SchedulerGoes'
    <3> SUFFICES ASSUME (\A e \in Drivers : Stopping(e) \/ pc[e] = "down")', Registered(Scheduler)'
                 PROVE  (\E e \in Drivers :
                           \/ pc[e] \in {"unscale", "unwork"} /\ Handle(Scheduler) \in mine[e]
                           \/ pc[e] = "unschedule" /\ Handle(Scheduler) \in job[e].handles)'
      BY DEF SchedulerGoes
    <3>1. \A e \in Drivers : Stopping(e) \/ pc[e] = "down"
      BY <1>1, <2>1 DEF Stopping
    <3>2. PICK e \in Drivers :
             \/ pc[e] \in {"unscale", "unwork"} /\ Handle(Scheduler) \in mine[e]
             \/ pc[e] = "unschedule" /\ Handle(Scheduler) \in job[e].handles
      BY <1>0, <1>2, <3>1 DEF SchedulerGoes
    <3> QED BY <1>1, <1>2, <2>1, <3>2
  <2> QED BY <1>5, <2>2, <2>3
<1>13. CASE StopEnds(d)
  <2>1. pc[d] = "unschedule" /\ pc'[d] = "down"
    BY <1>0, <1>13 DEF StopEnds, Go
  <2>2. ScalerGoes' /\ WorkersGo'
    BY <1>9, <1>11, <2>1 DEF Stopping
  <2>3. SchedulerGoes'
    <3> SUFFICES ASSUME (\A e \in Drivers : Stopping(e) \/ pc[e] = "down")', Registered(Scheduler)'
                 PROVE  (\E e \in Drivers :
                           \/ pc[e] \in {"unscale", "unwork"} /\ Handle(Scheduler) \in mine[e]
                           \/ pc[e] = "unschedule" /\ Handle(Scheduler) \in job[e].handles)'
      BY DEF SchedulerGoes
    <3>1. \A e \in Drivers : Stopping(e) \/ pc[e] = "down"
      BY <1>1, <2>1 DEF Stopping
    <3>2. PICK e \in Drivers :
             \/ pc[e] \in {"unscale", "unwork"} /\ Handle(Scheduler) \in mine[e]
             \/ pc[e] = "unschedule" /\ Handle(Scheduler) \in job[e].handles
      BY <1>0, <1>2, <3>1 DEF SchedulerGoes
    <3> QED BY <1>1, <1>2, <2>1, <3>2
  <2> QED BY <1>5, <2>2, <2>3
<1> QED
  BY <1>8, <1>10, <1>12, <1>13

\* The steps that move no driver and bring nothing up take nothing off a list that is there.
LEMMA GoingKept ==
  ASSUME StopInv, UNCHANGED <<pc, at, mine>>, Dwindling, \A p \in Terminators : Kept(p)
  PROVE  /\ ScalerWanted'
         /\ ScalerGoes' /\ WorkersGo' /\ SchedulerGoes'
<1>0. /\ ScalerWanted /\ ScalerGoes /\ WorkersGo /\ SchedulerGoes
      /\ \A d \in Drivers : Kept(d)
      /\ \A n \in Names : Handle(n)' = Handle(n) /\ (Registered(n)' => Registered(n))
  BY Parties DEF StopInv, Dwindling, Handle
<1>1. ScalerWanted'
  BY <1>0, Parties DEF ScalerWanted
<1>2. ScalerGoes'
  BY <1>0, Parties DEF ScalerGoes, Stopping, Kept
<1>3. WorkersGo'
  <2> SUFFICES ASSUME (\A d \in Drivers : pc[d] \in {"unwork", "unschedule", "down"})',
                      NEW w \in Listed'
               PROVE  (\E d \in Drivers : pc[d] = "unwork" /\ OnList(d, w))'
    BY DEF WorkersGo
  <2>1. w \in Names /\ Registered(w)' /\ w \in Listed
    BY <1>0, Parties DEF Listed
  <2>2. PICK d \in Drivers : pc[d] = "unwork" /\ OnList(d, w)
    BY <1>0, <2>1 DEF WorkersGo
  <2>3. OnList(d, w)'
    BY <1>0, <2>1, <2>2 DEF Kept
  <2> QED BY <2>2, <2>3
<1>4. SchedulerGoes'
  BY <1>0, Parties DEF SchedulerGoes, Stopping, Kept
<1> QED
  BY <1>1, <1>2, <1>3, <1>4

\* Every step keeps whatever is registered on the list of a driver that stops.
LEMMA StopInvStep ==
  ASSUME StopInv, [ClusterNext]_clusterVars
  PROVE  StopInv'
<1>1. /\ OnlyStatus /\ ClusterTypeOK /\ call = NoCall /\ JobsSound
      /\ HaltedInv
  BY DEF StopInv, HaltedInv
<1>2. HaltedInv'
  BY <1>1, HaltedInvStep
<1>3. ScalerWanted' /\ ScalerGoes' /\ WorkersGo' /\ SchedulerGoes'
  BY <1>1, StepKinds, KeptStep, GoingStart, GoingStop, GoingKept
<1> QED
  BY <1>2, <1>3 DEF StopInv, HaltedInv

\* In the beginning no driver is stopping.
LEMMA StopInvInit == ASSUME OnlyStatus, Drivers # {}, ClusterInit PROVE StopInv
<1>1. HaltedInv
  BY HaltedInvInit
<1>2. /\ \A d \in Drivers : pc[d] = "out" /\ at[d] = First
      /\ \E up \in {{First, Scheduler} \cup 0..(NumWorkers - 1), {}} :
           status = [n \in Names |-> IF n \in up THEN "alive" ELSE "dead"]
  BY DEF ClusterInit, InitWith
<1>3. ScalerWanted
  <2>1. Scaler \notin WorkerIds /\ Scaler # Scheduler
    BY ActorsAssumption
  <2>2. ~ScalingEnabled => First = Scheduler /\ Scaler \notin {First, Scheduler} \cup 0..(NumWorkers - 1)
    BY <2>1, Parties DEF First
  <2> QED BY <1>2, <2>1, <2>2, Parties DEF ScalerWanted, Registered
<1>4. ScalerGoes /\ WorkersGo /\ SchedulerGoes
  BY <1>2 DEF ScalerGoes, WorkersGo, SchedulerGoes, Stopping
<1> QED
  BY <1>1, <1>3, <1>4 DEF StopInv, HaltedInv

\* Once every driver has stopped its cluster, in whatever order their look-ups, stop() calls
\* and kills came, and whatever died or was restarted meanwhile, no actor is left. Nobody
\* rescales: a call that is under way while the workers are terminated adds one that stays
\* (cluster.py:292).
THEOREM StopsAll == ASSUME Drivers # {} PROVE OnlyStatus /\ ClusterSpec => []StopLeavesNothing
<1>1. OnlyStatus /\ ClusterInit => StopInv
  BY StopInvInit
<1>2. StopInv /\ [ClusterNext]_clusterVars => StopInv'
  BY StopInvStep
<1>3. StopInv => StopLeavesNothing
  <2> SUFFICES ASSUME StopInv, \A d \in Drivers : pc[d] = "down", NEW n \in Names
               PROVE  ~Registered(n)
    BY DEF StopLeavesNothing
  <2>1. CASE n = Scaler
    BY <2>1 DEF StopInv, ScalerGoes
  <2>2. CASE n = Scheduler
    BY <2>2 DEF StopInv, SchedulerGoes
  <2>3. CASE n \in WorkerIds
    BY <2>3 DEF StopInv, WorkersGo, Listed
  <2> QED BY <2>1, <2>2, <2>3 DEF Names
<1> QED
  BY <1>1, <1>2, <1>3, PTL DEF ClusterSpec
==============================================================================
