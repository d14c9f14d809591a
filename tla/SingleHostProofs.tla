--------------------------- MODULE SingleHostProofs ---------------------------
(***************************************************************************)
(* Proofs about SingleHost, for any number of workers, actor processes,    *)
(* failures, starts and stops: its actors and binaries step as in Runner,  *)
(* whose theorems hold for them; and as long as nothing went wrong, no     *)
(* binary is without its actor, stop() leaves the host clean, start()      *)
(* finds its ports free, and ready means one's own binary.                 *)
(***************************************************************************)
EXTENDS SingleHost, RunnerProofs

\* Nothing is registered that stop() has not got, or has yet to get, on its list.
StopComplete ==
  /\ driver = "out" => \A n \in Instances : ~Registered(n)
  /\ driver \in {"stop workers", "kill workers"} => {w \in Workers : Registered(w)} \subseteq todo
  /\ driver \in {"stop scheduler", "kill scheduler"} => {n \in Instances : Registered(n)} \subseteq todo \cap {Scheduler}

\* The actors start() checks the ports of do not exist.
CheckedAbsent == driver = "check" => \A n \in todo : ~Registered(n)

\* Unless something went wrong: how far the process of an actor is by what Ray says of it, ...
InStep(n) ==
  /\ status[n] \in {"dead", "pending", "alive"}
  /\ status[n] = "dead" => pc[n] = "down"
  /\ status[n] = "pending" => pc[n] \in {"down", "scan", "write", "spawn", "up", "probe"}
  /\ status[n] = "alive" => pc[n] \in {"up", "probe", "stop", "clear", "stopped"}

\* ... the process has the binary there is, and its configuration is all there is, ...
Attended(n) == Running(n) \subseteq handle[n]
Files(n)    == {k \in 0..MaxIncarnations : <<n, k>> \in files}
InUse(n)    == \A k \in Files(n) : k = inc[n] /\ pc[n] \in {"spawn", "up", "probe", "stop", "clear"}
Fine(n)     == InStep(n) /\ Attended(n) /\ InUse(n)

\* ... and the driver only kills what has stopped.
KilledStopped == driver \in {"kill workers", "kill scheduler"} => \A n \in todo : pc[n] = "stopped"

Smooth == ~mishap => KilledStopped /\ \A n \in Instances : Fine(n)

\* Together with the invariant of the runner these are inductive.
HostInv == /\ ClusterTypeOK
           /\ ConfigInv
           /\ StopComplete
           /\ CheckedAbsent
           /\ Smooth

------------------------------------------------------------------------------
(* The actors and binaries of a cluster are those of Runner. *)

\* What an actor process or its binary does, it does in Runner; nothing else touches either.
LEMMA RunnerStep == ASSUME [ClusterNext]_clusterVars PROVE [Next]_vars
<1>1. ASSUME NEW n \in Instances, \/ MakeWorker(n) \/ SeesReady(n) \/ IsUp(n) \/ RayNotices(n)
      PROVE  UNCHANGED vars
  BY <1>1 DEF MakeWorker, SeesReady, IsUp, RayNotices
<1>2. ASSUME NEW n \in Instances,
             ServeStop(n) \/ KillActor(n) \/ ProcessStarts(n) \/ Proceeds(n) \/ Raises(n) \/ Dies(n)
      PROVE  [Next]_vars
  BY <1>2 DEF ServeStop, KillActor, ProcessStarts, Proceeds, Raises, Dies, Next, StartStep
<1>3. ASSUME NEW p \in Pids, BinaryStep(p) PROVE Next
  BY <1>3 DEF BinaryStep, Next
<1>4. CASE \/ LookUp \/ CheckPorts \/ Refuse \/ MakeScheduler \/ GetHost
           \/ AllMade \/ AllReady \/ StartFails
           \/ BeginStop \/ AllStopped \/ StopGivesUp \/ WorkersKilled \/ StopEnds
  BY <1>4 DEF LookUp, CheckPorts, Refuse, MakeScheduler, GetHost, AllMade, AllReady, StartFails,
              BeginStop, AllStopped, StopGivesUp, WorkersKilled, StopEnds
<1> QED
  BY <1>1, <1>2, <1>3, <1>4 DEF ClusterNext, clusterVars

\* Every behaviour of a cluster on one host is one of its actors and binaries by themselves,
\* so that what Runner promises for any interleaving (an orphan can be told by its
\* configuration, no neighbour is touched) holds under the driver and Ray as well.
THEOREM RunsAsRunner == ClusterSpec => Spec
<1>1. ClusterInit => Init
  BY DEF ClusterInit
<1> QED
  BY <1>1, RunnerStep, PTL DEF ClusterSpec, Spec

------------------------------------------------------------------------------
(* Ray's registry and the driver. *)

\* Every step keeps the type of what the cluster adds.
LEMMA HostTypeStep ==
  ASSUME ClusterTypeOK, TypeOK', [ClusterNext]_clusterVars
  PROVE  ClusterTypeOK'
<1> DEFINE HostTypeOK == /\ driver \in {"out", "check", "make", "host", "work", "wait", "up", "refused",
                                        "failed", "stop workers", "kill workers", "stop scheduler",
                                        "kill scheduler"}
                         /\ todo \subseteq Instances
                         /\ mishap \in BOOLEAN
<1>0. RayTypeOK /\ HostTypeOK /\ Scheduler \in Instances
  BY SingleHostAssumption DEF ClusterTypeOK
<1>a. ASSUME UNCHANGED rayVars PROVE RayTypeOK'
  BY <1>0, <1>a DEF RayTypeOK, rayVars
<1>b. \A n \in Instances : n \in Names
  BY SingleHostAssumption DEF Names
<1>1. CASE \/ LookUp \/ CheckPorts \/ Refuse \/ GetHost
           \/ AllMade \/ AllReady \/ StartFails
           \/ BeginStop \/ AllStopped \/ StopGivesUp \/ WorkersKilled \/ StopEnds
  <2>1. UNCHANGED rayVars /\ HostTypeOK'
    BY <1>0, <1>1 DEF LookUp, CheckPorts, Refuse, GetHost, AllMade, AllReady, StartFails,
              BeginStop, AllStopped, StopGivesUp, WorkersKilled, StopEnds, To, Kills, Workers
  <2> QED BY <1>a, <2>1 DEF ClusterTypeOK
<1>2. ASSUME NEW n \in Names, Create(n) \/ InitReturns(n) \/ ProcessDies(n) \/ IsRestarted(n) \/ IsGivenUp(n)
      PROVE  RayTypeOK'
  <2>0. RayTypeOK
    BY <1>0
  <2> USE <1>2, <2>0, ActorsAssumption DEF RayTypeOK, Status
  <2>1. CASE Create(n)
    BY <2>1 DEF Create
  <2>2. CASE InitReturns(n)
    BY <2>2 DEF InitReturns
  <2>3. CASE ProcessDies(n)
    BY <2>3 DEF ProcessDies
  <2>4. CASE IsRestarted(n) \/ IsGivenUp(n)
    BY <2>4 DEF IsRestarted, IsGivenUp
  <2> QED BY <1>2, <2>1, <2>2, <2>3, <2>4
<1>3. CASE MakeScheduler
  <2>1. HostTypeOK'
    BY <1>0, <1>3 DEF MakeScheduler, To
  <2> QED BY <1>0, <1>a, <1>b, <1>2, <1>3, <2>1 DEF MakeScheduler, Obtain, ClusterTypeOK
<1>4. ASSUME NEW n \in Instances, MakeWorker(n) \/ SeesReady(n) \/ IsUp(n) \/ Dies(n) \/ RayNotices(n)
      PROVE  ClusterTypeOK'
  <2>1. HostTypeOK'
    BY <1>0, <1>4 DEF MakeWorker, SeesReady, IsUp, Dies, RayNotices, hostVars
  <2> QED BY <1>0, <1>a, <1>b, <1>2, <1>4, <2>1
             DEF MakeWorker, SeesReady, IsUp, Dies, RayNotices, Obtain, ClusterTypeOK
<1>5. ASSUME NEW n \in Instances, ServeStop(n) \/ ProcessStarts(n) \/ Proceeds(n)
      PROVE  ClusterTypeOK'
  <2>1. UNCHANGED <<rayVars, hostVars>>
    BY <1>5 DEF ServeStop, ProcessStarts, Proceeds
  <2> QED BY <1>0, <1>a, <2>1 DEF hostVars, ClusterTypeOK
<1>6. ASSUME NEW n \in Instances, KillActor(n) \/ Raises(n)
      PROVE  ClusterTypeOK'
  <2>1. HostTypeOK'
    BY <1>0, <1>6 DEF KillActor, Raises
  <2>2. RayTypeOK'
    BY <1>0, <1>6 DEF KillActor, Raises, Kill, RayTypeOK, Status
  <2> QED BY <2>1, <2>2 DEF ClusterTypeOK
<1>7. ASSUME NEW p \in Pids, BinaryStep(p) PROVE ClusterTypeOK'
  BY <1>0, <1>7, <1>a DEF BinaryStep, hostVars, ClusterTypeOK
<1>8. CASE UNCHANGED clusterVars
  BY <1>0, <1>8, <1>a DEF clusterVars, hostVars, ClusterTypeOK
<1> QED
  BY <1>1, <1>3, <1>4, <1>5, <1>6, <1>7, <1>8 DEF ClusterNext

\* Only the driver has an actor created.
LEMMA OnlyDriverCreates ==
  ASSUME ClusterTypeOK, [ClusterNext]_clusterVars, ~MakeScheduler,
         \A n \in Instances : ~MakeWorker(n)
  PROVE  \A n \in Instances : Registered(n)' => Registered(n)
<1>0. status \in [Names -> Status]
  BY DEF ClusterTypeOK, RayTypeOK
<1>1. ASSUME UNCHANGED rayVars PROVE \A n \in Instances : Registered(n)' => Registered(n)
  BY <1>1 DEF rayVars, Registered
<1>2. ASSUME NEW n \in Instances, KillActor(n) \/ IsUp(n) \/ Raises(n) \/ Dies(n) \/ RayNotices(n)
      PROVE  \A m \in Instances : Registered(m)' => Registered(m)
  <2>1. \/ \E m \in Names : Kill(Handle(m))
        \/ \E st : status[n] # "dead" /\ status' = [status EXCEPT ![n] = st]
        \/ status' = [status EXCEPT ![n] = "dead"]
    BY <1>2, SingleHostAssumption
       DEF KillActor, IsUp, InitReturns, Raises, Dies, ProcessDies, RayNotices,
           IsRestarted, IsGivenUp, Names
  <2>2. ASSUME NEW m, Kill(Handle(m))
        PROVE  status' = status \/ status' = [status EXCEPT ![m] = "dead"]
    BY <2>2 DEF Kill, Handle
  <2> QED BY <1>0, <2>1, <2>2, SingleHostAssumption DEF Registered, Names
<1>3. ASSUME NEW n \in Instances, SeesReady(n) \/ ServeStop(n) \/ ProcessStarts(n) \/ Proceeds(n)
      PROVE  UNCHANGED rayVars
  BY <1>3 DEF SeesReady, ServeStop, ProcessStarts, Proceeds
<1>4. CASE \/ LookUp \/ CheckPorts \/ Refuse \/ GetHost
           \/ AllMade \/ AllReady \/ StartFails
           \/ BeginStop \/ AllStopped \/ StopGivesUp \/ WorkersKilled \/ StopEnds
           \/ UNCHANGED clusterVars \/ \E p \in Pids : BinaryStep(p)
  <2>1. UNCHANGED rayVars
    BY <1>4 DEF LookUp, CheckPorts, Refuse, GetHost, AllMade, AllReady, StartFails,
                BeginStop, AllStopped, StopGivesUp, WorkersKilled, StopEnds, BinaryStep, clusterVars
  <2> QED BY <1>1, <2>1
<1> QED
  BY <1>1, <1>2, <1>3, <1>4 DEF ClusterNext

\* A killed actor is gone from the registry.
LEMMA KilledIsDead ==
  ASSUME ClusterTypeOK, NEW n \in Instances, KillActor(n)
  PROVE  /\ status' = [status EXCEPT ![n] = "dead"]
         /\ ~Registered(n)'
<1>1. Handle(n)[1] = n /\ Handle(n)[2] = gen[n] /\ n \in Names /\ status \in [Names -> Status]
  BY SingleHostAssumption DEF Handle, Names, ClusterTypeOK, RayTypeOK
<1>2. status' = IF Registered(n) THEN [status EXCEPT ![n] = "dead"] ELSE status
  BY <1>1 DEF KillActor, Kill, Resolves
<1> QED
  BY <1>1, <1>2 DEF Registered

\* stop() loses sight of no actor it has to terminate.
LEMMA StopStepComplete ==
  ASSUME ClusterTypeOK, StopComplete, [ClusterNext]_clusterVars
  PROVE  StopComplete'
<1>1. CASE MakeScheduler
  BY <1>1 DEF MakeScheduler, To, StopComplete
<1>2. ASSUME NEW n \in Instances, MakeWorker(n) PROVE StopComplete'
  BY <1>2 DEF MakeWorker, StopComplete
<1>3. CASE ~MakeScheduler /\ \A n \in Instances : ~MakeWorker(n)
  <2>1. \A n \in Instances : Registered(n)' => Registered(n)
    BY <1>3, OnlyDriverCreates
  <2>2. Instances = Workers \cup {Scheduler} /\ Scheduler \notin Workers
    BY SingleHostAssumption DEF Workers
  <2>3. ASSUME UNCHANGED <<driver, todo>> PROVE StopComplete'
    BY <2>1, <2>2, <2>3 DEF StopComplete
  <2>4. CASE \/ LookUp \/ CheckPorts \/ Refuse \/ GetHost \/ AllMade \/ AllReady \/ StartFails
    <3>1. driver' \notin {"out", "stop workers", "kill workers", "stop scheduler", "kill scheduler"}
      BY <2>4 DEF LookUp, CheckPorts, Refuse, GetHost, AllMade, AllReady, StartFails, To
    <3> QED BY <3>1 DEF StopComplete
  <2>5. CASE BeginStop
    BY <2>1, <2>2, <2>5 DEF BeginStop, To, StopComplete
  <2>6. CASE AllStopped \/ StopGivesUp
    BY <2>1, <2>2, <2>6 DEF AllStopped, StopGivesUp, To, Kills, StopComplete
  <2>7. CASE WorkersKilled
    BY <2>1, <2>2, <2>7 DEF WorkersKilled, To, StopComplete
  <2>8. CASE StopEnds
    BY <2>1, <2>2, <2>8 DEF StopEnds, To, StopComplete
  <2>9. ASSUME NEW n \in Instances, KillActor(n) PROVE StopComplete'
    <3>1. ~Registered(n)'
      BY <2>9, KilledIsDead
    <3>2. driver' = driver /\ todo' = todo \ {n}
      BY <2>9 DEF KillActor
    <3>3. driver \in {"kill workers", "kill scheduler"}
      BY <2>9 DEF KillActor
    <3> QED BY <2>1, <2>2, <3>1, <3>2, <3>3 DEF StopComplete
  <2>10. ASSUME NEW n \in Instances, SeesReady(n) PROVE StopComplete'
    BY <2>10 DEF SeesReady, StopComplete
  <2>11. ASSUME NEW n \in Instances, \/ ServeStop(n) \/ ProcessStarts(n) \/ Proceeds(n) \/ IsUp(n)
                                     \/ Raises(n) \/ Dies(n) \/ RayNotices(n)
         PROVE  UNCHANGED <<driver, todo>>
    BY <2>11 DEF ServeStop, ProcessStarts, Proceeds, IsUp, Raises, Dies, RayNotices, hostVars
  <2>12. ASSUME NEW p \in Pids, BinaryStep(p) PROVE UNCHANGED <<driver, todo>>
    BY <2>12 DEF BinaryStep, hostVars
  <2>13. UNCHANGED clusterVars => UNCHANGED <<driver, todo>>
    BY DEF clusterVars, hostVars
  <2> QED BY <1>3, <2>3, <2>4, <2>5, <2>6, <2>7, <2>8, <2>9, <2>10, <2>11, <2>12, <2>13 DEF ClusterNext
<1> QED
  BY <1>1, <1>2, <1>3

\* Nobody creates an actor while start() checks ports.
LEMMA CheckStep ==
  ASSUME ClusterTypeOK, CheckedAbsent, [ClusterNext]_clusterVars
  PROVE  CheckedAbsent'
<1> SUFFICES ASSUME driver' = "check" PROVE \A n \in todo' : ~Registered(n)'
  BY DEF CheckedAbsent
<1>1. ~MakeScheduler /\ \A n \in Instances : ~MakeWorker(n)
  BY DEF MakeScheduler, MakeWorker, To
<1>2. \A n \in Instances : Registered(n)' => Registered(n)
  BY <1>1, OnlyDriverCreates
<1>3. todo \subseteq Instances
  BY DEF ClusterTypeOK
<1>4. CASE LookUp
  BY <1>2, <1>4 DEF LookUp
<1>5. ASSUME UNCHANGED <<driver, todo>> PROVE \A n \in todo' : ~Registered(n)'
  BY <1>2, <1>3, <1>5 DEF CheckedAbsent
<1>6. ~(\/ CheckPorts \/ Refuse \/ GetHost \/ AllMade \/ AllReady \/ StartFails
        \/ BeginStop \/ AllStopped \/ StopGivesUp \/ WorkersKilled \/ StopEnds)
  BY DEF CheckPorts, Refuse, GetHost, AllMade, AllReady, StartFails, BeginStop, AllStopped,
         StopGivesUp, WorkersKilled, StopEnds, To, Kills
<1>7. ASSUME NEW n \in Instances, SeesReady(n) \/ KillActor(n) PROVE FALSE
  BY <1>7 DEF SeesReady, KillActor
<1>8. ASSUME NEW n \in Instances, \/ ServeStop(n) \/ ProcessStarts(n) \/ Proceeds(n) \/ IsUp(n)
                                  \/ Raises(n) \/ Dies(n) \/ RayNotices(n)
      PROVE  UNCHANGED <<driver, todo>>
  BY <1>8 DEF ServeStop, ProcessStarts, Proceeds, IsUp, Raises, Dies, RayNotices, hostVars
<1>9. ASSUME NEW p \in Pids, BinaryStep(p) PROVE UNCHANGED <<driver, todo>>
  BY <1>9 DEF BinaryStep, hostVars
<1>10. UNCHANGED clusterVars => UNCHANGED <<driver, todo>>
  BY DEF clusterVars, hostVars
<1> QED
  BY <1>1, <1>4, <1>5, <1>6, <1>7, <1>8, <1>9, <1>10 DEF ClusterNext

------------------------------------------------------------------------------
(* As long as nothing went wrong. *)

\* The step concerns no actor but n, of which Ray takes no notice.
Alone(n) == /\ UNCHANGED rayVars
            /\ \A m \in Instances \ {n} : /\ pc'[m] = pc[m] /\ inc'[m] = inc[m] /\ handle'[m] = handle[m]
                                          /\ Running(m)' = Running(m)
                                          /\ Files(m)' = Files(m)

\* Then the others stay as fine as they were.
LEMMA OthersFine ==
  ASSUME NEW n \in Instances, Alone(n), \A m \in Instances : Fine(m), Fine(n)'
  PROVE  \A m \in Instances : Fine(m)'
<1> SUFFICES ASSUME NEW m \in Instances \ {n} PROVE Fine(m)'
  OBVIOUS
<1>1. Fine(m)
  OBVIOUS
<1>2. /\ pc'[m] = pc[m] /\ inc'[m] = inc[m] /\ handle'[m] = handle[m] /\ status'[m] = status[m]
      /\ Running(m)' = Running(m) /\ Files(m)' = Files(m)
  BY DEF Alone, rayVars
<1> QED
  BY <1>1, <1>2 DEF Fine, InStep, Attended, InUse

\* A step of an actor that touches no process and no configuration, and keeps its handle, may
\* only get it out of step.
LEMMA PhaseFine ==
  ASSUME TypeOK, NEW n \in Instances, Fine(n), NEW where, Go(n, where),
         UNCHANGED <<rayVars, inc, handle, proc, files>>
  PROVE  /\ Alone(n)
         /\ pc'[n] = where
         /\ Attended(n)'
         /\ Files(n)' = Files(n)
<1>1. \A m \in Instances : Running(m)' = Running(m) /\ Files(m)' = Files(m)
  BY DEF Running, Live, Files
<1>2. \A m \in Instances \ {n} : pc'[m] = pc[m] /\ inc'[m] = inc[m] /\ handle'[m] = handle[m]
  BY DEF Go, TypeOK
<1> QED
  BY <1>1, <1>2 DEF Alone, Go, TypeOK, Fine, Attended

\* A step of an actor or its binary that Ray takes no notice of keeps its actor in step, the
\* binary attended and the configurations in use.
LEMMA ActorFine ==
  ASSUME ClusterTypeOK, ConfigInv, \A m \in Instances : Fine(m), UNCHANGED rayVars,
         NEW n \in Instances, ServeStop(n) \/ Proceeds(n) \/ ProcessStarts(n)
  PROVE  /\ \A m \in Instances : Fine(m)'
         /\ \A m \in Instances : pc[m] = "stopped" => pc'[m] = "stopped"
<1> DEFINE Goal == Alone(n) /\ Fine(n)' /\ pc[n] # "stopped"
<1>0. TypeOK /\ Fine(n) /\ InStep(n) /\ Attended(n) /\ InUse(n) /\ status'[n] = status[n]
  BY DEF ClusterTypeOK, Fine, rayVars
<1>1. ASSUME ServeStop(n) PROVE Goal
  <2>1. PICK p \in handle[n] : Becomes(p, Terminated(p))
    BY <1>1 DEF ServeStop, Stop
  <2>2. p \in Pids
    BY <1>0, <2>1 DEF TypeOK
  <2>3. \A q \in Pids : proc'[q].owner = proc[q].owner /\ (Live(q)' <=> Live(q))
    BY <1>0, <2>1, <2>2 DEF Becomes, Terminated, Live, TypeOK
  <2>4. \A m \in Instances : Running(m)' = Running(m) /\ Files(m)' = Files(m)
    BY <1>1, <2>3 DEF Running, Files, ServeStop, Stop
  <2>5. /\ pc[n] \in {"up", "probe"} /\ status[n] = "alive"
        /\ pc' = [pc EXCEPT ![n] = "stop"] /\ inc' = inc /\ handle' = handle
    BY <1>1 DEF ServeStop, Stop, Go
  <2>6. Alone(n) /\ pc'[n] = "stop"
    BY <1>0, <2>4, <2>5 DEF Alone, TypeOK
  <2> QED BY <1>0, <2>4, <2>5, <2>6 DEF Fine, InStep, Attended, InUse
<1>2. ASSUME ProcessStarts(n) PROVE Goal
  <2>1. \A m \in Instances : Running(m)' = Running(m) /\ Files(m)' = Files(m)
    BY <1>2 DEF Running, Live, Files, ProcessStarts, ActorStarts
  <2>2. /\ status[n] \in {"pending", "restarting"} /\ pc[n] \in {"down", "failed"}
        /\ pc' = [pc EXCEPT ![n] = "scan"] /\ inc' = [inc EXCEPT ![n] = @ + 1] /\ handle' = handle
    BY <1>2 DEF ProcessStarts, ActorStarts, Go
  <2>3. Alone(n) /\ pc'[n] = "scan"
    BY <1>0, <2>1, <2>2 DEF Alone, TypeOK
  <2> QED BY <1>0, <2>1, <2>2, <2>3 DEF Fine, InStep, Attended, InUse
<1>3. ASSUME PassOver(n) PROVE Goal
  <2>1. pc' = pc /\ pc[n] = "scan" /\ UNCHANGED <<inc, handle, proc, files>>
    BY <1>3 DEF PassOver
  <2>2. Go(n, "scan")
    BY <1>0, <2>1 DEF Go, TypeOK
  <2> QED BY <1>0, <2>1, <2>2, PhaseFine DEF Fine, InStep, InUse
<1>4. ASSUME MeetOrphan(n) \/ TerminateOrphan(n) \/ OrphanReaped(n) PROVE FALSE
  <2>1. CASE MeetOrphan(n)
    <3>1. PICK p \in unseen[n] : InTheWay(p, n) /\ proc[p].owner = n
      BY <2>1 DEF MeetOrphan
    <3>2. p \in Pids
      BY <1>0 DEF TypeOK
    <3>3. p \in Running(n)
      BY <3>1, <3>2 DEF InTheWay, Bound, Running, Live
    <3>4. handle[n] = {}
      BY <2>1 DEF MeetOrphan, ConfigInv, Held
    <3> QED BY <1>0, <3>3, <3>4 DEF Attended
  <2>2. CASE TerminateOrphan(n) \/ OrphanReaped(n)
    BY <1>0, <2>2 DEF TerminateOrphan, OrphanReaped, InStep
  <2> QED BY <1>4, <2>1, <2>2
<1>5. ASSUME ScanEnds(n) PROVE Goal
  BY <1>0, <1>5, PhaseFine DEF ScanEnds, Fine, InStep, InUse
<1>6. ASSUME WriteConfig(n) PROVE Goal
  <2>1. /\ pc[n] = "write" /\ pc' = [pc EXCEPT ![n] = "spawn"]
        /\ files' = files \cup {<<n, inc[n]>>} /\ UNCHANGED <<inc, handle, proc>>
    BY <1>6 DEF WriteConfig, Go
  <2>2. \A m \in Instances : Running(m)' = Running(m)
    BY <2>1 DEF Running, Live
  <2>3. \A m \in Instances \ {n} : Files(m)' = Files(m)
    BY <2>1 DEF Files
  <2>4. Files(n)' \subseteq {inc[n]}
    BY <1>0, <2>1 DEF Files, InUse
  <2>5. Alone(n) /\ pc'[n] = "spawn"
    BY <1>0, <2>1, <2>2, <2>3 DEF Alone, TypeOK
  <2> QED BY <1>0, <2>1, <2>2, <2>4, <2>5 DEF Fine, InStep, Attended, InUse
<1>7. ASSUME Spawn(n) PROVE Goal
  <2>1. PICK p \in Pids : /\ proc[p] = Unused
                          /\ proc' = [proc EXCEPT ![p] = [owner |-> n, inc |-> inc[n], st |-> "booting"]]
                          /\ handle' = [handle EXCEPT ![n] = {p}]
    BY <1>7 DEF Spawn
  <2>2. pc[n] = "spawn" /\ pc' = [pc EXCEPT ![n] = "up"] /\ UNCHANGED <<inc, files>>
    BY <1>7 DEF Spawn, Go
  <2>3. \A m \in Instances \ {n} : Running(m)' = Running(m)
    BY <1>0, <2>1, RunnerAssumption DEF Running, Live, Unused, TypeOK
  <2>4. Running(n)' \subseteq Running(n) \cup {p}
    BY <1>0, <2>1 DEF Running, Live, TypeOK
  <2>5. Running(n) = {}
    BY <1>0, <2>2 DEF ConfigInv, Held, Attended
  <2>6. \A m \in Instances : Files(m)' = Files(m)
    BY <2>2 DEF Files
  <2>7. Alone(n) /\ pc'[n] = "up" /\ handle'[n] = {p}
    BY <1>0, <2>1, <2>2, <2>3, <2>6 DEF Alone, TypeOK
  <2> QED BY <1>0, <2>2, <2>4, <2>5, <2>6, <2>7 DEF Fine, InStep, Attended, InUse
<1>8. ASSUME PollDead(n) \/ PollAlive(n) \/ Probe(n) PROVE Goal
  <2>1. PICK where \in {"up", "probe"} : pc' = [pc EXCEPT ![n] = where]
    BY <1>0, <1>8 DEF PollDead, PollAlive, Probe, Go, TypeOK
  <2>2. pc[n] \in {"up", "probe"} /\ UNCHANGED <<inc, handle, proc, files>>
    BY <1>8 DEF PollDead, PollAlive, Probe
  <2>3. Go(n, where)
    BY <2>1 DEF Go
  <2> QED BY <1>0, <2>2, <2>3, PhaseFine DEF Fine, InStep, InUse
<1>9. ASSUME StopReaps(n) PROVE Goal
  <2>1. PICK p \in handle[n] : Becomes(p, "dead")
    BY <1>9 DEF StopReaps
  <2>2. /\ pc[n] = "stop" /\ pc' = [pc EXCEPT ![n] = "clear"] /\ UNCHANGED <<inc, files>>
        /\ handle' = [handle EXCEPT ![n] = {}]
    BY <1>9 DEF StopReaps, Go
  <2>3. proc[p].owner = n /\ p \in Pids /\ handle[n] = {p}
    BY <1>0, <2>1, <2>2 DEF ConfigInv, Owned, Held, TypeOK
  <2>4. Running(n)' = {}
    BY <1>0, <2>1, <2>3 DEF Attended, Becomes, Running, Live, TypeOK
  <2>5. \A m \in Instances \ {n} : Running(m)' = Running(m)
    BY <1>0, <2>1, <2>3 DEF Becomes, Running, Live, TypeOK
  <2>6. \A m \in Instances : Files(m)' = Files(m)
    BY <2>2 DEF Files
  <2>7. Alone(n) /\ pc'[n] = "clear"
    BY <1>0, <2>2, <2>5, <2>6 DEF Alone, TypeOK
  <2> QED BY <1>0, <2>2, <2>4, <2>6, <2>7 DEF Fine, InStep, Attended, InUse
<1>10. ASSUME RemoveConfig(n) PROVE Goal
  <2>1. /\ pc[n] = "clear" /\ pc' = [pc EXCEPT ![n] = "stopped"]
        /\ files' = files \ {<<n, inc[n]>>} /\ UNCHANGED <<inc, handle, proc>>
    BY <1>10 DEF RemoveConfig, Go
  <2>2. \A m \in Instances : Running(m)' = Running(m)
    BY <2>1 DEF Running, Live
  <2>3. \A m \in Instances \ {n} : Files(m)' = Files(m)
    BY <2>1 DEF Files
  <2>4. Files(n)' = {}
    BY <1>0, <2>1 DEF Files, InUse
  <2>5. Alone(n) /\ pc'[n] = "stopped"
    BY <1>0, <2>1, <2>2, <2>3 DEF Alone, TypeOK
  <2> QED BY <1>0, <2>1, <2>2, <2>4, <2>5 DEF Fine, InStep, Attended, InUse
<1>11. Goal
  BY <1>1, <1>2, <1>3, <1>4, <1>5, <1>6, <1>7, <1>8, <1>9, <1>10 DEF Proceeds, StopStep
<1> QED
  BY <1>11, OthersFine DEF Alone

\* Nor do the binaries do any harm by themselves.
LEMMA BinaryFine ==
  ASSUME ClusterTypeOK, \A m \in Instances : Fine(m), NEW p \in Pids, BinaryStep(p)
  PROVE  \A m \in Instances : Fine(m)'
<1>0. /\ Live(p)
      /\ \E st \in {"listening", "dead", "draining"} : Becomes(p, st)
      /\ UNCHANGED <<rayVars, actorVars, files>>
  BY DEF BinaryStep, Binds, Exits, ClosesPorts, Live
<1>1. \A q \in Pids : proc'[q].owner = proc[q].owner /\ (Live(q)' => Live(q))
  <2>1. PICK st : proc' = [proc EXCEPT ![p].st = st]
    BY <1>0 DEF Becomes
  <2>2. ASSUME NEW q \in Pids \ {p} PROVE proc'[q] = proc[q]
    BY <2>1 DEF ClusterTypeOK, TypeOK
  <2>3. proc'[p].owner = proc[p].owner
    BY <2>1 DEF ClusterTypeOK, TypeOK
  <2> QED BY <1>0, <2>2, <2>3 DEF Live
<1>2. \A m \in Instances : Running(m)' \subseteq Running(m) /\ Files(m)' = Files(m)
  BY <1>0, <1>1 DEF Running, Files
<1> QED
  BY <1>0, <1>2 DEF Fine, InStep, Attended, InUse, rayVars, actorVars

\* Nothing happens to the actors where neither Ray nor a process moves.
LEMMA StillFine ==
  ASSUME \A m \in Instances : Fine(m), UNCHANGED <<rayVars, vars>>
  PROVE  /\ \A m \in Instances : Fine(m)'
         /\ pc' = pc
  BY DEF Fine, InStep, Attended, InUse, Running, Live, Files, rayVars, vars, actorVars

\* A step of the registry alone, that of actor n.
LEMMA RegistryFine ==
  ASSUME \A m \in Instances : Fine(m), UNCHANGED vars, NEW n \in Instances, NEW st, ClusterTypeOK,
         status' = [status EXCEPT ![n] = st], InStep(n)'
  PROVE  \A m \in Instances : Fine(m)'
<1>1. \A m \in Instances : Attended(m)' /\ InUse(m)'
  BY DEF Fine, Attended, InUse, Running, Live, Files, vars, actorVars
<1>2. \A m \in Instances \ {n} : status'[m] = status[m]
  BY SingleHostAssumption DEF ClusterTypeOK, RayTypeOK, Names
<1>3. \A m \in Instances \ {n} : InStep(m)'
  BY <1>2 DEF Fine, InStep, vars, actorVars
<1> QED
  BY <1>1, <1>3 DEF Fine

\* Whatever happens as planned leaves everything in order.
LEMMA SmoothStep ==
  ASSUME ClusterTypeOK, ConfigInv, Smooth, [ClusterNext]_clusterVars
  PROVE  Smooth'
<1> DEFINE AllFine == \A m \in Instances : Fine(m)
<1> SUFFICES ASSUME ~mishap' PROVE KilledStopped' /\ AllFine'
  BY DEF Smooth
<1>0. ASSUME ~mishap PROVE AllFine /\ KilledStopped
  BY <1>0 DEF Smooth
<1>a. \A m \in Instances : m \in Names
  BY SingleHostAssumption DEF Names
<1>1. CASE \/ LookUp \/ CheckPorts \/ Refuse \/ GetHost \/ AllMade \/ AllReady \/ StartFails
           \/ BeginStop \/ WorkersKilled \/ StopEnds
  <2>1. /\ UNCHANGED <<rayVars, vars, mishap>>
        /\ driver' \notin {"kill workers", "kill scheduler"}
    BY <1>1 DEF LookUp, CheckPorts, Refuse, GetHost, AllMade, AllReady, StartFails, BeginStop,
                WorkersKilled, StopEnds, To
  <2> QED BY <1>0, <2>1, StillFine DEF KilledStopped
<1>2. CASE AllStopped
  <2>1. UNCHANGED <<rayVars, vars, todo, mishap>> /\ \A n \in todo : pc[n] = "stopped"
    BY <1>2 DEF AllStopped
  <2> QED BY <1>0, <2>1, StillFine DEF KilledStopped
<1>3. ~StopGivesUp /\ \A n \in Instances : ~Raises(n) /\ ~Dies(n)
  BY DEF StopGivesUp, Raises, Dies
<1>4. ASSUME NEW n \in Instances, Obtain(n), UNCHANGED <<vars, mishap>> PROVE AllFine'
  <2>1. CASE UNCHANGED rayVars
    BY <1>0, <1>4, <2>1, StillFine
  <2>2. CASE Create(n)
    <3>1. status[n] = "dead" /\ status' = [status EXCEPT ![n] = "pending"] /\ pc' = pc
      BY <2>2, <1>4 DEF Create, Registered, vars, actorVars
    <3>2. pc[n] = "down"
      BY <1>0, <1>4, <3>1 DEF Fine, InStep
    <3>3. InStep(n)'
      BY <1>4, <1>a, <3>1, <3>2 DEF InStep, ClusterTypeOK, RayTypeOK
    <3> QED BY <1>0, <1>4, <3>1, <3>3, RegistryFine
  <2> QED BY <1>4, <2>1, <2>2 DEF Obtain
<1>5. CASE MakeScheduler
  BY <1>4, <1>5, SingleHostAssumption DEF MakeScheduler, To, KilledStopped
<1>6. ASSUME NEW n \in Instances, MakeWorker(n) PROVE KilledStopped' /\ AllFine'
  <2>1. AllFine'
    BY <1>4, <1>6 DEF MakeWorker
  <2> QED BY <1>6, <2>1 DEF MakeWorker, KilledStopped
<1>7. ASSUME NEW n \in Instances, SeesReady(n) PROVE KilledStopped' /\ AllFine'
  <2>1. UNCHANGED <<rayVars, vars, driver, mishap>> /\ driver = "wait"
    BY <1>7 DEF SeesReady
  <2> QED BY <1>0, <2>1, StillFine DEF KilledStopped
<1>8. ASSUME NEW n \in Instances, ServeStop(n) \/ ProcessStarts(n) \/ Proceeds(n)
      PROVE  KilledStopped' /\ AllFine'
  <2>1. UNCHANGED <<rayVars, hostVars>>
    BY <1>8 DEF ServeStop, ProcessStarts, Proceeds
  <2>2. AllFine /\ KilledStopped
    BY <1>0, <2>1 DEF hostVars
  <2>3. AllFine' /\ \A m \in Instances : pc[m] = "stopped" => pc'[m] = "stopped"
    BY <1>8, <2>1, <2>2, ActorFine
  <2> QED BY <2>1, <2>2, <2>3 DEF KilledStopped, hostVars, ClusterTypeOK
<1>9. ASSUME NEW p \in Pids, BinaryStep(p) PROVE KilledStopped' /\ AllFine'
  <2>1. UNCHANGED <<driver, todo, mishap, pc>>
    BY <1>9 DEF BinaryStep, Binds, Exits, ClosesPorts, hostVars, actorVars
  <2> QED BY <1>0, <1>9, <2>1, BinaryFine DEF KilledStopped
<1>10. ASSUME NEW n \in Instances, KillActor(n) PROVE KilledStopped' /\ AllFine'
  <2>1. /\ driver \in {"kill workers", "kill scheduler"} /\ n \in todo
        /\ todo' = todo \ {n} /\ driver' = driver /\ mishap' = mishap
    BY <1>10 DEF KillActor
  <2>2. AllFine /\ pc[n] = "stopped" /\ KilledStopped
    BY <1>0, <2>1 DEF KilledStopped
  <2>3. ActorDies(n)
    BY <1>10, <2>2 DEF KillActor
  <2>4. status' = [status EXCEPT ![n] = "dead"]
    BY <1>10, KilledIsDead
  <2>5. TypeOK /\ status \in [Names -> Status]
    BY DEF ClusterTypeOK, RayTypeOK
  <2>6. /\ pc' = [pc EXCEPT ![n] = "down"] /\ handle' = [handle EXCEPT ![n] = {}]
        /\ UNCHANGED <<inc, proc, files>>
    BY <2>3 DEF ActorDies, Go
  <2>7. \A m \in Instances : Running(m)' = Running(m) /\ Files(m)' = Files(m)
    BY <2>6 DEF Running, Live, Files
  <2>8. Running(n) = {} /\ Files(n) = {}
    BY <1>10, <2>2 DEF ConfigInv, Held, Fine, Attended, InUse
  <2>9. Fine(n)'
    BY <1>10, <1>a, <2>4, <2>5, <2>6, <2>7, <2>8 DEF Fine, InStep, Attended, InUse, TypeOK
  <2>10. ASSUME NEW m \in Instances \ {n} PROVE Fine(m)' /\ pc'[m] = pc[m]
    <3>1. /\ pc'[m] = pc[m] /\ handle'[m] = handle[m] /\ inc'[m] = inc[m]
          /\ status'[m] = status[m]
      BY <1>10, <1>a, <2>4, <2>5, <2>6, <2>10 DEF TypeOK
    <3> QED BY <2>2, <2>7, <2>10, <3>1 DEF Fine, InStep, Attended, InUse
  <2> QED BY <1>10, <2>1, <2>2, <2>9, <2>10 DEF KilledStopped, ClusterTypeOK
<1>11. ASSUME NEW n \in Instances, IsUp(n) PROVE KilledStopped' /\ AllFine'
  <2>1. /\ UNCHANGED <<vars, hostVars>> /\ pc[n] = "up"
        /\ status' = [status EXCEPT ![n] = "alive"]
    BY <1>11 DEF IsUp, InitReturns
  <2>2. pc' = pc /\ UNCHANGED <<driver, todo, mishap>>
    BY <2>1 DEF vars, actorVars, hostVars
  <2>3. InStep(n)'
    BY <1>11, <1>a, <2>1, <2>2 DEF InStep, ClusterTypeOK, RayTypeOK
  <2>4. AllFine'
    BY <1>0, <1>11, <2>1, <2>2, <2>3, RegistryFine
  <2> QED BY <1>0, <2>2, <2>4 DEF KilledStopped
<1>12. ASSUME NEW n \in Instances, RayNotices(n) PROVE FALSE
  <2>1. status[n] = "zombie" /\ mishap' = mishap
    BY <1>12 DEF RayNotices, IsRestarted, IsGivenUp, hostVars
  <2> QED BY <1>0, <1>12, <2>1 DEF Fine, InStep
<1>13. CASE UNCHANGED clusterVars
  <2>1. UNCHANGED <<rayVars, vars, driver, todo, mishap>>
    BY <1>13 DEF clusterVars, hostVars
  <2> QED BY <1>0, <2>1, StillFine DEF KilledStopped
<1> QED
  BY <1>1, <1>2, <1>3, <1>5, <1>6, <1>7, <1>8, <1>9, <1>10, <1>11, <1>12, <1>13 DEF ClusterNext

------------------------------------------------------------------------------
(* The theorems. *)

\* The inductive invariant holds throughout.
LEMMA HostInvariant == ClusterSpec => []HostInv
<1>1. ClusterInit => HostInv
  <2> SUFFICES ASSUME ClusterInit PROVE HostInv
    OBVIOUS
  <2>1. ConfigInv
    BY ConfigInvInit DEF ClusterInit
  <2>2. TypeOK
    BY <2>1 DEF ConfigInv
  <2>5. RayTypeOK
    BY ActorsAssumption DEF ClusterInit, RayTypeOK, Status
  <2>6. ClusterTypeOK
    BY <2>2, <2>5 DEF ClusterInit, ClusterTypeOK
  <2>3. StopComplete /\ CheckedAbsent
    BY SingleHostAssumption DEF ClusterInit, StopComplete, CheckedAbsent, Registered, Names
  <2>4. Smooth
    BY SingleHostAssumption
       DEF ClusterInit, Init, Smooth, KilledStopped, Fine, InStep, Attended, InUse, Running, Live,
           Unused, Files, Names
  <2> QED BY <2>1, <2>3, <2>4, <2>6 DEF HostInv
<1>2. HostInv /\ [ClusterNext]_clusterVars => HostInv'
  <2> SUFFICES ASSUME HostInv, [ClusterNext]_clusterVars PROVE HostInv'
    OBVIOUS
  <2>1. ConfigInv'
    BY RunnerStep, ConfigInvStep DEF HostInv
  <2>2. ClusterTypeOK'
    BY <2>1, HostTypeStep DEF HostInv, ConfigInv
  <2> QED BY <2>1, <2>2, StopStepComplete, CheckStep, SmoothStep DEF HostInv
<1> QED
  BY <1>1, <1>2, PTL DEF ClusterSpec

\* The state of the cluster is what SingleHost says it is.
THEOREM HostTypeCorrect == ClusterSpec => []ClusterTypeOK
  BY HostInvariant, PTL DEF HostInv

\* Without a crash, a failed start or a stop() cut short, no binary is ever without its actor
\* (subprocess.py:54-92, base.py:66-95).
THEOREM OrphansCaused == ClusterSpec => []OrphansHaveCause
<1>1. HostInv => OrphansHaveCause
  BY DEF HostInv, Smooth, Fine, Attended, OrphansHaveCause
<1> QED
  BY <1>1, HostInvariant, PTL

\* ... and once stop() has returned, nothing of the cluster is left on the host
\* (cluster.py:291-335).
THEOREM StopCleansUp == ClusterSpec => []StopCleansHost
<1>1. ASSUME HostInv, driver = "out", ~mishap PROVE (\A p \in Pids : ~Live(p)) /\ files = {}
  <2>1. \A n \in Instances : pc[n] = "down" /\ Fine(n)
    BY <1>1 DEF HostInv, StopComplete, Smooth, Fine, InStep, Registered
  <2>2. \A n \in Instances : Running(n) = {} /\ Files(n) = {}
    BY <1>1, <2>1 DEF HostInv, ConfigInv, Held, Fine, Attended, InUse
  <2>3. files = {}
    BY <1>1, <2>2 DEF HostInv, ConfigInv, TypeOK, Files
  <2> QED BY <1>1, <2>3 DEF HostInv, ConfigInv, OrphansIdentifiable
<1>2. HostInv => StopCleansHost
  BY <1>1 DEF StopCleansHost
<1> QED
  BY <1>2, HostInvariant, PTL

\* If no two instances share a port, start() refuses only because of what something that
\* went wrong left behind (config.py:976-1023).
THEOREM RefusalCaused == ASSUME OwnPorts PROVE ClusterSpec => []RefusalHasCause
<1>1. ClusterInit => RefusalHasCause
  BY DEF ClusterInit, RefusalHasCause
<1>2. ASSUME HostInv, Refuse PROVE mishap
  <2>1. PICK n \in todo, p \in Pids : ~Registered(n) /\ InTheWay(p, n)
    BY <1>2 DEF Refuse, Taken, HostInv, CheckedAbsent
  <2>2. n \in Instances
    BY <1>2, <2>1 DEF HostInv, ClusterTypeOK
  <2>3. Live(p) /\ proc[p].owner \in Instances
    BY <1>2, <2>1 DEF HostInv, ConfigInv, OrphansIdentifiable, TypeOK, InTheWay, Bound, Live
  <2>4. p \in Running(n)
    BY <2>1, <2>2, <2>3 DEF OwnPorts, InTheWay, Clash, Running
  <2>5. ASSUME ~mishap PROVE FALSE
    <3>1. Fine(n)
      BY <1>2, <2>2, <2>5 DEF HostInv, Smooth
    <3>2. pc[n] = "down"
      BY <2>1, <3>1 DEF Fine, InStep, Registered
    <3>3. handle[n] = {}
      BY <1>2, <2>2, <3>2 DEF HostInv, ConfigInv, Held
    <3> QED BY <2>4, <3>1, <3>3 DEF Fine, Attended
  <2>6. mishap \in BOOLEAN
    BY <1>2 DEF HostInv, ClusterTypeOK
  <2> QED BY <2>5
<1>3. HostInv /\ RefusalHasCause /\ [ClusterNext]_clusterVars => RefusalHasCause'
  <2> SUFFICES ASSUME HostInv, RefusalHasCause, [ClusterNext]_clusterVars, driver' = "refused"
               PROVE  mishap'
    BY DEF RefusalHasCause
  <2>1. CASE Refuse
    BY <1>2, <2>1 DEF Refuse
  <2>2. ASSUME driver' = driver, mishap' = mishap PROVE mishap'
    BY <2>2 DEF RefusalHasCause
  <2>3. ~(\/ LookUp \/ CheckPorts \/ MakeScheduler \/ GetHost \/ AllMade \/ AllReady \/ StartFails
          \/ BeginStop \/ AllStopped \/ StopGivesUp \/ WorkersKilled \/ StopEnds)
    BY DEF LookUp, CheckPorts, MakeScheduler, GetHost, AllMade, AllReady, StartFails, BeginStop,
           AllStopped, StopGivesUp, WorkersKilled, StopEnds, To, Kills
  <2>4. ASSUME NEW n \in Instances, Raises(n) \/ Dies(n) PROVE mishap'
    BY <2>4 DEF Raises, Dies
  <2>5. ASSUME NEW n \in Instances, \/ MakeWorker(n) \/ SeesReady(n) \/ ServeStop(n) \/ KillActor(n)
                                    \/ ProcessStarts(n) \/ Proceeds(n) \/ IsUp(n) \/ RayNotices(n)
        PROVE  driver' = driver /\ mishap' = mishap
    BY <2>5 DEF MakeWorker, SeesReady, ServeStop, KillActor, ProcessStarts, Proceeds, IsUp,
                RayNotices, hostVars
  <2>6. ASSUME NEW p \in Pids, BinaryStep(p) PROVE driver' = driver /\ mishap' = mishap
    BY <2>6 DEF BinaryStep, hostVars
  <2>7. UNCHANGED clusterVars => driver' = driver /\ mishap' = mishap
    BY DEF clusterVars, hostVars
  <2> QED BY <2>1, <2>2, <2>3, <2>4, <2>5, <2>6, <2>7 DEF ClusterNext
<1> QED
  BY <1>1, <1>3, HostInvariant, PTL DEF ClusterSpec

\* ... and, as long as nothing of the kind happened, is_ready says yes only while the actor's
\* own binary listens (worker.py:110-117).
THEOREM ReadyIsOwn == ASSUME OwnPorts PROVE ClusterSpec => ReadyMeansOwn
<1>1. HostInv /\ [ClusterNext]_clusterVars
        => [\A n \in Instances : pc[n] = "probe" /\ pc'[n] = "up" /\ ready'[n] /\ ~mishap
              => \E p \in handle[n] : Bound(p)]_clusterVars
  <2> SUFFICES ASSUME HostInv, [ClusterNext]_clusterVars, NEW n \in Instances,
                      pc[n] = "probe", pc'[n] = "up", ready'[n], ~mishap
               PROVE  \E p \in handle[n] : Bound(p)
    OBVIOUS
  <2>1. TypeOK /\ OrphansIdentifiable
    BY DEF HostInv, ConfigInv
  <2>2. Next
    BY RunnerStep DEF vars, actorVars
  <2>3. Probe(n)
    BY <2>1, <2>2
       DEF Next, StartStep, StopStep, Binds, Exits, ClosesPorts, ActorStarts, PassOver, MeetForeign,
           MeetOrphan, TerminateOrphan, OrphanVanished, OrphanReaped, ScanEnds, WriteConfig, Spawn,
           SpawnFails, PollDead, PollAlive, Probe, Stop, StopAgain, StopReaps, RemoveConfig,
           ActorDies, Go, actorVars, TypeOK
  <2>4. PICK p \in Pids : InTheWay(p, n)
    BY <2>1, <2>3 DEF Probe, TypeOK
  <2>5. Live(p) /\ proc[p].owner \in Instances
    BY <2>1, <2>4 DEF InTheWay, Bound, Live, OrphansIdentifiable, TypeOK
  <2>6. p \in Running(n)
    BY <2>4, <2>5 DEF OwnPorts, InTheWay, Clash, Running
  <2>7. Attended(n)
    BY DEF HostInv, Smooth, Fine
  <2> QED BY <2>4, <2>6, <2>7 DEF Attended, InTheWay
<1> QED
  BY <1>1, HostInvariant, PTL DEF ClusterSpec, ReadyMeansOwn
===============================================================================
