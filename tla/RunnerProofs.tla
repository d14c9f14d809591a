----------------------------- MODULE RunnerProofs -----------------------------
(***************************************************************************)
(* Proofs about Runner: its type invariant, that an orphan can always be   *)
(* told by its configuration, that no actor touches a neighbour's binary,  *)
(* that stop() leaves only what earlier actors left, and, where actors die *)
(* only while their binary listens, that no instance ever has two binaries *)
(* and that the contract of BinaryLife is kept.                            *)
(***************************************************************************)
EXTENDS Runner, TLAPS

\* The actor process is in start() and has not launched its binary.
Before == {"scan", "signal", "reap", "write", "spawn"}

\* Its binary, if there is one, is the one in its handle.
After == {"up", "probe", "stop", "clear", "stopped"}

\* The handle and the orphan an actor holds are processes of its instance.
Owned == \A i \in Instances : \A p \in handle[i] \cup found[i] : proc[p].owner = i

\* How many of them it holds, by how far it is.
Held == \A i \in Instances :
          /\ pc[i] \in {"signal", "reap"} => \E p \in Pids : found[i] = {p}
          /\ pc[i] \in {"up", "probe", "stop"} => \E p \in Pids : handle[i] = {p}
          /\ pc[i] \notin {"up", "probe", "stop"} => handle[i] = {}

\* An incarnation launches one process at most, and after it has written its
\* configuration.
Numbered == \A i \in Instances : \A p \in Pids :
              proc[p].owner = i => /\ proc[p].inc <= inc[i]
                                   /\ pc[i] \in Before => proc[p].inc < inc[i]
Current == \A i \in Instances : \A p \in Pids :
             /\ proc[p].owner = i /\ proc[p].inc = inc[i]
             /\ pc[i] \in After /\ Live(p)
             => p \in handle[i]
Written == \A i \in Instances :
             /\ pc[i] = "spawn" => <<i, inc[i]>> \in files
             /\ pc[i] = "stopped" => <<i, inc[i]>> \notin files
             /\ \A k \in 0..MaxIncarnations : <<i, k>> \in files => k <= inc[i]

\* Together with the type these are inductive: the configuration of a live binary is
\* there because only the incarnation that wrote it removes it, and only once the
\* one process it launched is dead.
ConfigInv == TypeOK /\ Owned /\ Held /\ Numbered /\ Current /\ Written /\ OrphansIdentifiable

\* The invariant holds in the initial state.
LEMMA ConfigInvInit == Init => ConfigInv
  BY RunnerAssumption DEF Init, ConfigInv, TypeOK, Owned, Held, Numbered, Current, Written,
     OrphansIdentifiable, Live, Unused, Before, After

\* Every step keeps it, action by action.
LEMMA ConfigInvStep == ConfigInv /\ [Next]_vars => ConfigInv'
<1> SUFFICES ASSUME ConfigInv, [Next]_vars PROVE ConfigInv'
  OBVIOUS
<1> USE RunnerAssumption DEF ConfigInv, TypeOK, Owned, Held, Numbered, Current, Written,
        OrphansIdentifiable, Live, Bound, Becomes, Go, Unused, Before, After, actorVars
<1>1. ASSUME NEW p \in Pids, Binds(p) PROVE ConfigInv'
  BY <1>1 DEF Binds
<1>2. ASSUME NEW p \in Pids, Exits(p) PROVE ConfigInv'
  BY <1>2 DEF Exits
<1>3. ASSUME NEW p \in Pids, ClosesPorts(p) PROVE ConfigInv'
  BY <1>3 DEF ClosesPorts
<1>4. ASSUME NEW i \in Instances, ActorStarts(i) PROVE ConfigInv'
  BY <1>4 DEF ActorStarts
<1>5. ASSUME NEW i \in Instances, PassOver(i) PROVE ConfigInv'
  BY <1>5 DEF PassOver
<1>6. ASSUME NEW i \in Instances, MeetForeign(i) PROVE ConfigInv'
  BY <1>6 DEF MeetForeign
<1>7. ASSUME NEW i \in Instances, MeetOrphan(i) PROVE ConfigInv'
  BY <1>7 DEF MeetOrphan
<1>8. ASSUME NEW i \in Instances, TerminateOrphan(i) PROVE ConfigInv'
  BY <1>8 DEF TerminateOrphan, Terminated
<1>9. ASSUME NEW i \in Instances, OrphanVanished(i) PROVE ConfigInv'
  BY <1>9 DEF OrphanVanished
<1>10. ASSUME NEW i \in Instances, OrphanReaped(i) PROVE ConfigInv'
  BY <1>10 DEF OrphanReaped
<1>11. ASSUME NEW i \in Instances, ScanEnds(i) PROVE ConfigInv'
  BY <1>11 DEF ScanEnds
<1>12. ASSUME NEW i \in Instances, WriteConfig(i) PROVE ConfigInv'
  BY <1>12 DEF WriteConfig
<1>13. ASSUME NEW i \in Instances, Spawn(i) PROVE ConfigInv'
  BY <1>13 DEF Spawn
<1>14. ASSUME NEW i \in Instances, SpawnFails(i) PROVE ConfigInv'
  BY <1>14 DEF SpawnFails
<1>15. ASSUME NEW i \in Instances, PollDead(i) PROVE ConfigInv'
  BY <1>15 DEF PollDead
<1>16. ASSUME NEW i \in Instances, PollAlive(i) PROVE ConfigInv'
  BY <1>16 DEF PollAlive
<1>17. ASSUME NEW i \in Instances, Probe(i) PROVE ConfigInv'
  BY <1>17 DEF Probe
<1>18. ASSUME NEW i \in Instances, Stop(i) PROVE ConfigInv'
  BY <1>18 DEF Stop, Terminated
<1>19. ASSUME NEW i \in Instances, StopReaps(i) PROVE ConfigInv'
  <2>1. PICK p \in Pids : handle[i] = {p}
    BY <1>19 DEF StopReaps
  <2>2. proc' = [proc EXCEPT ![p].st = "dead"] /\ handle' = [handle EXCEPT ![i] = {}]
    BY <1>19, <2>1 DEF StopReaps
  <2>3. Current'
    BY <1>19, <2>1, <2>2 DEF StopReaps
  <2>4. TypeOK' /\ Owned' /\ Held' /\ Numbered' /\ Written' /\ OrphansIdentifiable'
    BY <1>19, <2>1, <2>2 DEF StopReaps
  <2> QED
    BY <2>3, <2>4
<1>20. ASSUME NEW i \in Instances, RemoveConfig(i) PROVE ConfigInv'
  BY <1>20 DEF RemoveConfig
<1>21. ASSUME NEW i \in Instances, ActorDies(i) PROVE ConfigInv'
  BY <1>21 DEF ActorDies
<1>22. CASE UNCHANGED vars
  BY <1>22 DEF vars
<1>23. ASSUME NEW i \in Instances, StopAgain(i) PROVE ConfigInv'
  BY <1>23 DEF StopAgain
<1> QED
  BY <1>1, <1>2, <1>3, <1>4, <1>5, <1>6, <1>7, <1>8, <1>9, <1>10, <1>11, <1>12, <1>13, <1>14, <1>15, <1>16, <1>17, <1>18, <1>19, <1>20, <1>21, <1>22, <1>23 DEF Next, StartStep, StopStep

\* So it holds throughout.
LEMMA ConfigInvariant == Spec => []ConfigInv
<1>1. Init => ConfigInv
  BY ConfigInvInit
<1>2. ConfigInv /\ [Next]_vars => ConfigInv'
  BY ConfigInvStep
<1> QED
  BY <1>1, <1>2, PTL DEF Spec

\* The state of the actors and processes is what Runner says it is.
THEOREM TypeCorrect == Spec => []TypeOK
  BY ConfigInvariant, PTL DEF ConfigInv

\* However many instances share a host and its ports, and wherever their actors die,
\* a binary without its actor can be told by its configuration file
\* (subprocess.py:60-64).
THEOREM Identifiable == Spec => []OrphansIdentifiable
  BY ConfigInvariant, PTL DEF ConfigInv

\* No actor ever changes a process of another instance, although they may have the
\* same ports (subprocess.py:66-84).
THEOREM NeighboursSafe == Spec => NeighboursLive
<1>1. ConfigInv /\ [Next]_vars
        => [\A i \in Instances, p \in Pids :
              pc'[i] # pc[i] /\ Live(p) /\ proc'[p] # proc[p] => proc[p].owner = i]_vars
  <2> SUFFICES ASSUME ConfigInv, Next,
                      NEW i \in Instances, NEW p \in Pids,
                      pc'[i] # pc[i], Live(p), proc'[p] # proc[p]
               PROVE  proc[p].owner = i
    OBVIOUS
  <2> USE DEF ConfigInv, TypeOK, Live, Becomes, Go
  <2>1. CASE \E q \in Pids : Binds(q) \/ Exits(q) \/ ClosesPorts(q)
    BY <2>1 DEF Binds, Exits, ClosesPorts, actorVars
  <2>2. ASSUME NEW j \in Instances, TerminateOrphan(j) \/ OrphanReaped(j)
        PROVE  proc[p].owner = i
    <3>1. p \in found[j] /\ j = i
      BY <2>2 DEF TerminateOrphan, OrphanReaped
    <3> QED
      BY <3>1 DEF Owned
  <2>3. ASSUME NEW j \in Instances, Stop(j) \/ StopReaps(j)
        PROVE  proc[p].owner = i
    <3>1. p \in handle[j] /\ j = i
      BY <2>3 DEF Stop, StopReaps
    <3> QED
      BY <3>1 DEF Owned
  <2>4. ASSUME NEW j \in Instances, Spawn(j)
        PROVE  FALSE
    BY <2>4 DEF Spawn, Unused
  <2>5. ASSUME proc' = proc
        PROVE  FALSE
    BY <2>5
  <2> QED
    BY <2>1, <2>2, <2>3, <2>4, <2>5
       DEF Next, StartStep, StopStep, ActorStarts, PassOver, MeetForeign, MeetOrphan,
           OrphanVanished, ScanEnds, WriteConfig, SpawnFails, PollDead, PollAlive, Probe,
           RemoveConfig, StopAgain, ActorDies
<1> QED
  BY ConfigInvariant, <1>1, PTL DEF Spec, NeighboursLive

\* Wherever actors died before, stop() leaves neither the binary its own actor process
\* launched nor its configuration: all that is left is of earlier ones (worker.py:104-108).
THEOREM StopCleans == Spec => []StoppedIsClean
<1>1. ConfigInv => StoppedIsClean
  <2> SUFFICES ASSUME ConfigInv, NEW i \in Instances, pc[i] = "stopped"
               PROVE  /\ \A p \in Running(i) : proc[p].inc < inc[i]
                      /\ \A k \in 0..MaxIncarnations : <<i, k>> \in files => k < inc[i]
    BY DEF StoppedIsClean
  <2> USE RunnerAssumption DEF ConfigInv, TypeOK
  <2>1. handle[i] = {}
    BY DEF Held
  <2>2. \A p \in Running(i) : proc[p].inc <= inc[i] /\ proc[p].inc # inc[i]
    BY <2>1 DEF Numbered, Current, Running, After
  <2>3. \A k \in 0..MaxIncarnations : <<i, k>> \in files => k <= inc[i] /\ k # inc[i]
    BY DEF Written
  <2>4. inc[i] \in Int /\ \A p \in Pids : proc[p].inc \in Int
    OBVIOUS
  <2>5. \A p \in Running(i) : proc[p].inc < inc[i]
    BY <2>2, <2>4 DEF Running
  <2> QED
    BY <2>3, <2>4, <2>5
<1> QED
  BY ConfigInvariant, <1>1, PTL

------------------------------------------------------------------------------
(* One binary per instance, where actors die only while their binary listens. *)

\* A start that has not met an orphan yet still has it in front of it.
InSight(i) == \A p \in Running(i) : p \in unseen[i] /\ proc[p].st = "listening"

\* Where the one binary of an instance is, by how far its actor is.
Located == \A i \in Instances :
  /\ pc[i] \in {"down", "failed"} => \A p \in Running(i) : proc[p].st = "listening"
  /\ pc[i] = "scan" => InSight(i)
  /\ pc[i] = "signal" => \A p \in Running(i) : p \in found[i] /\ proc[p].st = "listening"
  /\ pc[i] = "reap" => Running(i) \subseteq found[i]
  /\ pc[i] \in {"write", "spawn", "clear", "stopped"} => Running(i) = {}
  /\ pc[i] \in {"up", "probe", "stop"} => Running(i) \subseteq handle[i]

OneInv == ConfigInv /\ Located /\ AtMostOneLive

\* The phases keep the one binary in sight from one actor process to the next.
LEMMA OneInvStep == ASSUME OrphansListen, OneInv, [Next]_vars PROVE OneInv'
<1> USE RunnerAssumption DEF OneInv, Located, InSight, AtMostOneLive, Running, Live
<1>0. ConfigInv'
  BY ConfigInvStep
<1> USE DEF ConfigInv, TypeOK, Owned, Held, Bound, Becomes, Go, actorVars
<1>1. ASSUME NEW p \in Pids, Binds(p) PROVE Located' /\ AtMostOneLive'
  BY <1>1 DEF Binds
<1>2. ASSUME NEW p \in Pids, Exits(p) PROVE Located' /\ AtMostOneLive'
  BY <1>2 DEF Exits
<1>3. ASSUME NEW p \in Pids, ClosesPorts(p) PROVE Located' /\ AtMostOneLive'
  BY <1>3 DEF ClosesPorts
<1>4. ASSUME NEW i \in Instances, ActorStarts(i) PROVE Located' /\ AtMostOneLive'
  BY <1>4 DEF ActorStarts
<1>5. ASSUME NEW i \in Instances, PassOver(i) PROVE Located' /\ AtMostOneLive'
  BY <1>5 DEF PassOver, InTheWay, Clash
<1>6. ASSUME NEW i \in Instances, MeetForeign(i) PROVE Located' /\ AtMostOneLive'
  BY <1>6 DEF MeetForeign
<1>7. ASSUME NEW i \in Instances, MeetOrphan(i) PROVE Located' /\ AtMostOneLive'
  <2>1. PICK p \in unseen[i] : /\ Bound(p) /\ proc[p].owner = i
                               /\ found' = [found EXCEPT ![i] = {p}]
    BY <1>7 DEF MeetOrphan, InTheWay
  <2>2. p \in Running(i)
    BY <2>1
  <2>3. \A q \in Running(i) : q = p /\ proc[q].st = "listening"
    BY <1>7, <2>2 DEF MeetOrphan
  <2>4. proc' = proc /\ pc' = [pc EXCEPT ![i] = "signal"]
    BY <1>7 DEF MeetOrphan
  <2>5. AtMostOneLive'
    BY <2>4
  <2>6. ASSUME NEW j \in Instances, j # i
        PROVE  /\ pc'[j] = pc[j] /\ unseen'[j] = unseen[j]
               /\ found'[j] = found[j] /\ handle'[j] = handle[j]
    BY <1>7, <2>1, <2>6 DEF MeetOrphan
  <2>7. Located'
    BY <2>1, <2>3, <2>4, <2>6
  <2> QED
    BY <2>5, <2>7
<1>8. ASSUME NEW i \in Instances, TerminateOrphan(i) PROVE Located' /\ AtMostOneLive'
  BY <1>8 DEF TerminateOrphan, Terminated
<1>9. ASSUME NEW i \in Instances, OrphanVanished(i) PROVE Located' /\ AtMostOneLive'
  BY <1>9 DEF OrphanVanished
<1>10. ASSUME NEW i \in Instances, OrphanReaped(i) PROVE Located' /\ AtMostOneLive'
  BY <1>10 DEF OrphanReaped
<1>11. ASSUME NEW i \in Instances, ScanEnds(i) PROVE Located' /\ AtMostOneLive'
  BY <1>11 DEF ScanEnds
<1>12. ASSUME NEW i \in Instances, WriteConfig(i) PROVE Located' /\ AtMostOneLive'
  BY <1>12 DEF WriteConfig
<1>13. ASSUME NEW i \in Instances, Spawn(i) PROVE Located' /\ AtMostOneLive'
  BY <1>13 DEF Spawn, Unused
<1>14. ASSUME NEW i \in Instances, SpawnFails(i) PROVE Located' /\ AtMostOneLive'
  BY <1>14 DEF SpawnFails
<1>15. ASSUME NEW i \in Instances, PollDead(i) PROVE Located' /\ AtMostOneLive'
  BY <1>15 DEF PollDead
<1>16. ASSUME NEW i \in Instances, PollAlive(i) PROVE Located' /\ AtMostOneLive'
  BY <1>16 DEF PollAlive
<1>17. ASSUME NEW i \in Instances, Probe(i) PROVE Located' /\ AtMostOneLive'
  BY <1>17 DEF Probe
<1>18. ASSUME NEW i \in Instances, Stop(i) PROVE Located' /\ AtMostOneLive'
  BY <1>18 DEF Stop, Terminated
<1>19. ASSUME NEW i \in Instances, StopReaps(i) PROVE Located' /\ AtMostOneLive'
  BY <1>19 DEF StopReaps
<1>20. ASSUME NEW i \in Instances, RemoveConfig(i) PROVE Located' /\ AtMostOneLive'
  BY <1>20 DEF RemoveConfig
<1>21. ASSUME NEW i \in Instances, ActorDies(i) PROVE Located' /\ AtMostOneLive'
  BY <1>21 DEF ActorDies
<1>22. CASE UNCHANGED vars
  BY <1>0, <1>22 DEF vars
<1>23. ASSUME NEW i \in Instances, StopAgain(i) PROVE Located' /\ AtMostOneLive'
  BY <1>23 DEF StopAgain
<1> QED
  BY <1>0, <1>1, <1>2, <1>3, <1>4, <1>5, <1>6, <1>7, <1>8, <1>9, <1>10, <1>11, <1>12, <1>13, <1>14, <1>15, <1>16, <1>17, <1>18, <1>19, <1>20, <1>21, <1>22, <1>23 DEF Next, StartStep, StopStep

\* If actors die only while their binary listens, every start reclaims what a previous
\* one left before it launches a binary of its own (base.py:79).
THEOREM OneBinary == ASSUME OrphansListen PROVE Spec => []AtMostOneLive
<1>1. Init => OneInv
  BY ConfigInvInit DEF Init, OneInv, Located, AtMostOneLive, Running, Live, Unused
<1>2. OneInv /\ [Next]_vars => OneInv'
  BY OneInvStep
<1> QED
  BY <1>1, <1>2, PTL DEF Spec, OneInv

------------------------------------------------------------------------------
(* The contract. *)

\* Of ports of its own, an instance finds only its own binaries listening.
OwnPorts == \A i, j \in Instances : i # j => ~Clash(i, j)

\* The initial states are initial states of the contract.
LEMMA LifeInit == Init => Life!Init
  BY DEF Init, Life!Init, Actors, Binaries, ActorOf, BinaryOf, Running, Live, Unused

\* The step concerns no instance but i.
Concerns(i) == \A j \in Instances \ {i} : /\ pc'[j] = pc[j] /\ handle'[j] = handle[j]
                                         /\ Running(j)' = Running(j)

\* Then it is enough to know what becomes of i.
LEMMA OneConcerned ==
  ASSUME NEW i \in Instances, Concerns(i)
  PROVE  /\ Actors' = [Actors EXCEPT ![i] = ActorOf(i)']
         /\ Binaries' = [Binaries EXCEPT ![i] = BinaryOf(i)']
<1>1. \A j \in Instances \ {i} : ActorOf(j)' = ActorOf(j) /\ BinaryOf(j)' = BinaryOf(j)
  BY DEF Concerns, ActorOf, BinaryOf
<1> QED
  BY <1>1 DEF Actors, Binaries

\* An actor whose step touches neither a process nor its handle only enters a new phase.
LEMMA PhaseOnly ==
  ASSUME TypeOK, NEW i \in Instances, NEW where, Go(i, where), UNCHANGED <<handle, proc>>
  PROVE  /\ Concerns(i)
         /\ Running(i)' = Running(i)
         /\ BinaryOf(i)' = BinaryOf(i)
         /\ pc'[i] = where
<1>1. \A j \in Instances : Running(j)' = Running(j)
  BY DEF Running, Live
<1> QED
  BY <1>1 DEF Concerns, BinaryOf, Go, TypeOK

\* Every step is one of the contract, or is not seen.
LEMMA LifeStep == ASSUME OrphansListen, OwnPorts, OneInv, [Next]_vars PROVE [Life!Next]_(Life!vars)
<1> USE DEF OneInv, ConfigInv
<1>1. ASSUME NEW p \in Pids, Binds(p) \/ ClosesPorts(p) PROVE UNCHANGED Life!vars
  <2>1. \A j \in Instances : Running(j)' = Running(j)
    BY <1>1 DEF Binds, ClosesPorts, Becomes, Running, Live, TypeOK
  <2> QED
    BY <1>1, <2>1 DEF Binds, ClosesPorts, actorVars, Life!vars, Actors, Binaries, ActorOf, BinaryOf
<1>2. ASSUME NEW p \in Pids, Exits(p) PROVE \E i \in Instances : Life!Exit(i)
  <2>1. PICK i \in Instances : proc[p].owner = i
    BY <1>2 DEF Exits, OrphansIdentifiable, TypeOK
  <2>2. Running(i) = {p} /\ Running(i)' = {}
    BY <1>2, <2>1 DEF Exits, Becomes, AtMostOneLive, Running, Live, TypeOK
  <2>3. Concerns(i) /\ pc' = pc /\ ready' = ready
    BY <1>2, <2>1 DEF Exits, Becomes, Concerns, Running, Live, TypeOK, actorVars
  <2>4. ActorOf(i)' = ActorOf(i) /\ BinaryOf(i)' = "none" /\ BinaryOf(i) # "none"
    BY <2>2, <2>3 DEF ActorOf, BinaryOf
  <2> QED
    BY <2>3, <2>4, OneConcerned DEF Life!Exit, Actors, Binaries
<1>3. ASSUME NEW i \in Instances, ActorStarts(i) PROVE Life!Start(i)
  <2>1. /\ Concerns(i) /\ BinaryOf(i)' = BinaryOf(i) /\ pc'[i] = "scan"
    BY <1>3, PhaseOnly DEF ActorStarts
  <2>2. ActorOf(i) = "absent" /\ ActorOf(i)' = "starting" /\ ready' = ready
    BY <1>3, <2>1 DEF ActorStarts, ActorOf
  <2> QED
    BY <2>1, <2>2, OneConcerned DEF Life!Start, Actors, Binaries
<1>4. ASSUME NEW i \in Instances,
             PassOver(i) \/ MeetOrphan(i) \/ ScanEnds(i) \/ WriteConfig(i)
      PROVE  UNCHANGED Life!vars
  <2>1. \A j \in Instances : Running(j)' = Running(j) /\ handle'[j] = handle[j]
    BY <1>4 DEF PassOver, MeetOrphan, ScanEnds, WriteConfig, Running, Live
  <2>2. \A j \in Instances : ActorOf(j)' = ActorOf(j)
    BY <1>4 DEF PassOver, MeetOrphan, ScanEnds, WriteConfig, Go, ActorOf, TypeOK
  <2>3. ready' = ready
    BY <1>4 DEF PassOver, MeetOrphan, ScanEnds, WriteConfig
  <2> QED
    BY <2>1, <2>2, <2>3 DEF Life!vars, Actors, Binaries, BinaryOf
<1>5. ASSUME NEW i \in Instances, MeetForeign(i) \/ OrphanVanished(i) \/ SpawnFails(i)
      PROVE  Life!Fail(i)
  <2>1. Concerns(i) /\ BinaryOf(i)' = BinaryOf(i) /\ pc'[i] = "failed"
    BY <1>5, PhaseOnly DEF MeetForeign, OrphanVanished, SpawnFails
  <2>2. ActorOf(i) = "starting" /\ ActorOf(i)' = "absent" /\ ready' = ready
    BY <1>5, <2>1 DEF MeetForeign, OrphanVanished, SpawnFails, ActorOf
  <2> QED
    BY <2>1, <2>2, OneConcerned DEF Life!Fail, Actors, Binaries
<1>6. ASSUME NEW i \in Instances, TerminateOrphan(i) PROVE UNCHANGED Life!vars
  <2>1. \A j \in Instances : Running(j)' = Running(j)
    BY <1>6 DEF TerminateOrphan, Terminated, Becomes, Running, Live, TypeOK
  <2>2. \A j \in Instances : ActorOf(j)' = ActorOf(j)
    BY <1>6 DEF TerminateOrphan, Go, ActorOf, TypeOK
  <2> QED
    BY <1>6, <2>1, <2>2 DEF TerminateOrphan, Life!vars, Actors, Binaries, BinaryOf
<1>7. ASSUME NEW i \in Instances, OrphanReaped(i)
      PROVE  Life!Reclaim(i) \/ UNCHANGED Life!vars
  <2>1. PICK p \in Pids : found[i] = {p}
    BY <1>7 DEF OrphanReaped, Held
  <2>2. proc[p].owner = i /\ proc' = [proc EXCEPT ![p].st = "dead"]
    BY <1>7, <2>1 DEF OrphanReaped, Becomes, Owned
  <2>3. Running(i) \subseteq {p} /\ Running(i)' = {}
    BY <1>7, <2>1, <2>2 DEF OrphanReaped, Located, Running, Live, TypeOK
  <2>4. Concerns(i) /\ ready' = ready /\ pc[i] = "reap" /\ pc'[i] = "scan"
    BY <1>7, <2>1, <2>2 DEF OrphanReaped, Concerns, Running, Live, Go, TypeOK
  <2>5. ActorOf(i) = "starting" /\ ActorOf(i)' = "starting" /\ BinaryOf(i)' = "none"
    BY <2>3, <2>4 DEF ActorOf, BinaryOf
  <2>6. Actors' = Actors
    BY <2>4, <2>5, OneConcerned DEF Actors
  <2>7. CASE Running(i) = {}
    BY <2>4, <2>5, <2>6, <2>7, OneConcerned DEF Life!vars, Binaries, BinaryOf
  <2>8. CASE Running(i) = {p}
    <3>1. p \notin handle[i]
      BY <1>7, <2>2, <2>4, <2>8 DEF Held
    <3> QED
      BY <2>4, <2>5, <2>6, <2>8, <3>1, OneConcerned DEF Life!Reclaim, Actors, Binaries, BinaryOf
  <2> QED
    BY <2>3, <2>7, <2>8
<1>8. ASSUME NEW i \in Instances, Spawn(i) PROVE Life!Launch(i)
  <2>1. PICK p \in Pids :
          /\ proc[p] = Unused
          /\ proc' = [proc EXCEPT ![p] = [owner |-> i, inc |-> inc[i], st |-> "booting"]]
          /\ handle' = [handle EXCEPT ![i] = {p}]
    BY <1>8 DEF Spawn
  <2>2. Running(i) = {} /\ Running(i)' = {p}
    BY <1>8, <2>1 DEF Spawn, Located, Running, Live, Unused, TypeOK
  <2>3. Concerns(i) /\ ready' = ready /\ pc[i] = "spawn" /\ pc'[i] = "up" /\ handle'[i] = {p}
    BY <1>8, <2>1, RunnerAssumption DEF Spawn, Concerns, Running, Live, Unused, Go, TypeOK
  <2>4. /\ ActorOf(i) = "starting" /\ ActorOf(i)' = "running"
        /\ BinaryOf(i) = "none" /\ BinaryOf(i)' = "own"
    BY <2>2, <2>3 DEF ActorOf, BinaryOf
  <2> QED
    BY <2>3, <2>4, OneConcerned DEF Life!Launch, Actors, Binaries
<1>9. ASSUME NEW i \in Instances, PollDead(i) \/ Probe(i) PROVE Life!Report(i)
  <2>1. /\ proc' = proc /\ handle' = handle
        /\ pc[i] \in {"up", "probe"} /\ pc' = [pc EXCEPT ![i] = "up"]
    BY <1>9 DEF PollDead, Probe, Go, TypeOK
  <2>2. Concerns(i) /\ BinaryOf(i)' = BinaryOf(i) /\ pc'[i] = "up"
    BY <2>1, PhaseOnly DEF Go
  <2>3. ActorOf(i) = "running" /\ ActorOf(i)' = "running"
    BY <2>1, <2>2 DEF ActorOf
  <2>4. Actors' = Actors /\ Binaries' = Binaries
    BY <2>2, <2>3, OneConcerned DEF Actors, Binaries
  <2>5. \E yes \in {FALSE, Binaries[i] = "own"} : ready' = [ready EXCEPT ![i] = yes]
    <3>1. CASE PollDead(i)
      BY <3>1 DEF PollDead
    <3>2. CASE Probe(i) /\ ~\E p \in Pids : InTheWay(p, i)
      BY <3>2 DEF Probe
    <3>3. CASE Probe(i) /\ \E p \in Pids : InTheWay(p, i)
      <4>1. PICK p \in Pids : InTheWay(p, i)
        BY <3>3
      <4>2. Live(p) /\ proc[p].owner \in Instances
        BY <4>1 DEF InTheWay, Bound, Live, OrphansIdentifiable, TypeOK
      <4>3. p \in Running(i)
        BY <4>1, <4>2 DEF OwnPorts, InTheWay, Running, Clash
      <4>4. BinaryOf(i) = "own"
        BY <2>1, <4>3 DEF Located, BinaryOf
      <4> QED
        BY <3>3, <4>4 DEF Probe, Binaries
    <3> QED
      BY <1>9, <3>1, <3>2, <3>3
  <2> QED
    BY <2>3, <2>4, <2>5 DEF Life!Report, Actors
<1>10. ASSUME NEW i \in Instances, PollAlive(i) \/ RemoveConfig(i) \/ StopAgain(i)
       PROVE  UNCHANGED Life!vars
  <2>1. \A j \in Instances : Running(j)' = Running(j) /\ handle'[j] = handle[j]
    BY <1>10 DEF PollAlive, RemoveConfig, StopAgain, Running, Live
  <2>2. \A j \in Instances : ActorOf(j)' = ActorOf(j)
    BY <1>10 DEF PollAlive, RemoveConfig, StopAgain, Go, ActorOf, TypeOK
  <2> QED
    BY <1>10, <2>1, <2>2 DEF PollAlive, RemoveConfig, StopAgain, Life!vars, Actors, Binaries, BinaryOf
<1>11. ASSUME NEW i \in Instances, Stop(i) PROVE UNCHANGED Life!vars
  <2>1. \A j \in Instances : Running(j)' = Running(j)
    BY <1>11 DEF Stop, Terminated, Becomes, Running, Live, TypeOK
  <2>2. \A j \in Instances : ActorOf(j)' = ActorOf(j)
    BY <1>11 DEF Stop, Go, ActorOf, TypeOK
  <2> QED
    BY <1>11, <2>1, <2>2 DEF Stop, Life!vars, Actors, Binaries, BinaryOf
<1>12. ASSUME NEW i \in Instances, StopReaps(i) PROVE Life!Stop(i)
  <2>1. PICK p \in Pids : handle[i] = {p}
    BY <1>12 DEF StopReaps, Held
  <2>2. proc[p].owner = i /\ proc' = [proc EXCEPT ![p].st = "dead"]
    BY <1>12, <2>1 DEF StopReaps, Becomes, Owned
  <2>3. Running(i) \subseteq {p} /\ Running(i)' = {}
    BY <1>12, <2>1, <2>2 DEF StopReaps, Located, Running, Live, TypeOK
  <2>4. Concerns(i) /\ pc[i] = "stop" /\ pc'[i] = "clear"
    BY <1>12, <2>1, <2>2 DEF StopReaps, Concerns, Running, Live, Go, TypeOK
  <2>5. ActorOf(i) = "running" /\ ActorOf(i)' = "stopped" /\ BinaryOf(i)' = "none"
    BY <2>3, <2>4 DEF ActorOf, BinaryOf
  <2>6. ready' = [ready EXCEPT ![i] = FALSE]
    BY <1>12 DEF StopReaps
  <2> QED
    BY <2>4, <2>5, <2>6, OneConcerned DEF Life!Stop, Actors, Binaries
<1>13. ASSUME NEW i \in Instances, ActorDies(i) PROVE Life!Die(i)
  <2>1. \A j \in Instances : Running(j)' = Running(j)
    BY <1>13 DEF ActorDies, Running, Live
  <2>2. Concerns(i) /\ pc'[i] = "down" /\ handle'[i] = {}
    BY <1>13, <2>1 DEF ActorDies, Concerns, Go, TypeOK
  <2>3. /\ ActorOf(i) # "absent" /\ ActorOf(i)' = "absent"
        /\ BinaryOf(i)' = IF BinaryOf(i) = "own" THEN "orphan" ELSE BinaryOf(i)
    BY <1>13, <2>1, <2>2 DEF ActorDies, ActorOf, BinaryOf
  <2>4. ready' = [ready EXCEPT ![i] = FALSE]
    BY <1>13 DEF ActorDies
  <2> QED
    BY <2>2, <2>3, <2>4, OneConcerned DEF Life!Die, Actors, Binaries
<1>14. CASE UNCHANGED vars
  BY <1>14 DEF vars, actorVars, Life!vars, Actors, Binaries, ActorOf, BinaryOf, Running, Live
<1> QED
  BY <1>1, <1>2, <1>3, <1>4, <1>5, <1>6, <1>7, <1>8, <1>9, <1>10, <1>11, <1>12, <1>13, <1>14
     DEF Next, StartStep, StopStep, Life!Next

\* The subprocess runner keeps the contract of runners (base.py:66-95), if no two instances
\* of the host have a port in common and actors die only while their binary listens.
THEOREM ContractKept ==
  ASSUME OrphansListen, OwnPorts PROVE Spec => ImplementsBinaryLife
<1>1. Init => OneInv
  BY ConfigInvInit DEF Init, OneInv, Located, AtMostOneLive, Running, Live, Unused
<1>2. OneInv /\ [Next]_vars => OneInv'
  BY OneInvStep
<1>3. OneInv /\ [Next]_vars => [Life!Next]_(Life!vars)
  BY LifeStep
<1> QED
  BY <1>1, <1>2, <1>3, LifeInit, PTL DEF Spec, ImplementsBinaryLife, Life!Spec
==============================================================================
