----------------------------- MODULE DockerProofs -----------------------------
(***************************************************************************)
(* Proofs about DockerRunner: its invariants, for any number of actor      *)
(* processes.                                                              *)
(***************************************************************************)
EXTENDS DockerRunner, TLAPS

\* What is in the way of `docker create` was created by an earlier incarnation, and from
\* then on only this one's container can have the name.
Named == /\ box = NoBox \/ (box.by \in Incs /\ box.by <= inc)
         /\ OwnContainer
         /\ NameReclaimed

\* start() does not return before the container it created was started, or is gone.
Started == /\ pc = "await" /\ box.st = "created" => client[inc] = "starting"
           /\ pc \in {"up", "probe"} => box.st # "created"
           /\ pc \in {"reap", "clear", "stopped"} => box.st \in {"none", "exiting"}

\* The configuration is written before the container is created, and removed when the
\* container cannot be started any more.
Configured == /\ pc \in {"create", "attach", "await", "up", "probe", "reap"}
                   => inc \in files
              /\ pc = "stopped" => inc \notin files
              /\ box.st \notin {"none", "exiting"} => box.by \in files

\* Together these are inductive.
BoxInv == TypeOK /\ Named /\ Started /\ Configured

\* The invariant holds in the initial state.
LEMMA BoxInvInit == Init => BoxInv
<1> SUFFICES ASSUME Init PROVE BoxInv
  OBVIOUS
<1>1. TypeOK
  <2>1. box \in [st : {"none", "created", "running", "listening", "exiting"},
                by : 0..MaxIncarnations]
    BY DockerAssumption DEF Init, NoBox
  <2>2. inc \in 0..MaxIncarnations
    BY DockerAssumption DEF Init
  <2> QED BY <2>1, <2>2 DEF Init, TypeOK
<1>2. Named /\ Started /\ Configured
  BY DEF Init, Named, OwnContainer, NameReclaimed, Started, Configured, NoBox
<1> QED
  BY <1>1, <1>2 DEF BoxInv

\* Every step keeps it, action by action.
LEMMA BoxInvStep == BoxInv /\ [Next]_vars => BoxInv'
<1> SUFFICES ASSUME BoxInv, [Next]_vars PROVE BoxInv'
  OBVIOUS
<1> USE DockerAssumption DEF BoxInv, TypeOK, Named, OwnContainer, NameReclaimed, Started,
        Configured, Runs, NoBox, Incs, BoxBecomes
<1>1. ASSUME NEW k \in Incs, ClientStarts(k) PROVE BoxInv'
  BY <1>1 DEF ClientStarts
<1>2. ASSUME NEW k \in Incs, ClientFails(k) PROVE BoxInv'
  BY <1>2 DEF ClientFails
<1>3. ASSUME NEW k \in Incs, ClientExits(k) PROVE BoxInv'
  BY <1>3 DEF ClientExits
<1>4. CASE Listens \/ Exits \/ IsRemoved
  BY <1>4 DEF Listens, Exits, IsRemoved
<1>5. CASE ActorStarts
  BY <1>5 DEF ActorStarts
<1>6. CASE Reclaim
  BY <1>6 DEF Reclaim
<1>7. CASE WriteConfig
  BY <1>7 DEF WriteConfig
<1>8. CASE Create
  BY <1>8 DEF Create
<1>9. CASE CreateFails
  BY <1>9 DEF CreateFails
<1>10. CASE Attach
  BY <1>10 DEF Attach
<1>11. CASE AwaitEnds
  BY <1>11 DEF AwaitEnds
<1>12. CASE PollDead \/ PollAlive \/ Probe
  BY <1>12 DEF PollDead, PollAlive, Probe
<1>13. CASE Stop
  BY <1>13 DEF Stop
<1>14. CASE StopReaps
  BY <1>14 DEF StopReaps
<1>15. CASE RemoveConfig \/ StopAgain
  BY <1>15 DEF RemoveConfig, StopAgain
<1>16. CASE ActorDies
  BY <1>16 DEF ActorDies
<1>17. CASE UNCHANGED vars
  BY <1>17 DEF vars
<1> QED
  BY <1>1, <1>2, <1>3, <1>4, <1>5, <1>6, <1>7, <1>8, <1>9, <1>10, <1>11, <1>12, <1>13,
     <1>14, <1>15, <1>16, <1>17 DEF Next, ClientStep, StartStep, StopStep

\* BoxInv is an invariant of the specification.
LEMMA BoxInvariant == Spec => []BoxInv
  BY BoxInvInit, BoxInvStep, PTL DEF Spec

\* The state is what DockerRunner says it is.
THEOREM TypeCorrect == Spec => []TypeOK
<1>1. BoxInv => TypeOK
  BY DEF BoxInv
<1> QED
  BY <1>1, BoxInvariant, PTL

\* An actor never takes the container of an earlier one for its own.
THEOREM ContainerIsOwn == Spec => []OwnContainer
<1>1. BoxInv => OwnContainer
  BY DEF BoxInv, Named
<1> QED
  BY <1>1, BoxInvariant, PTL

\* Nothing but a removal in progress keeps the name of the instance taken.
THEOREM NameIsFree == Spec => []NameReclaimed
<1>1. BoxInv => NameReclaimed
  BY DEF BoxInv, Named
<1> QED
  BY <1>1, BoxInvariant, PTL

\* A stopped instance has neither a running container nor its configuration left.
THEOREM StopCleans == Spec => []StoppedIsClean
<1>1. BoxInv => StoppedIsClean
  BY DEF BoxInv, Started, Configured, StoppedIsClean
<1> QED
  BY <1>1, BoxInvariant, PTL

\* A container keeps its configuration for as long as it runs.
THEOREM ConfigKept == Spec => []ConfigStays
<1>1. BoxInv => ConfigStays
  BY DEF BoxInv, Configured, ConfigStays, Runs
<1> QED
  BY <1>1, BoxInvariant, PTL

------------------------------------------------------------------------------
(* The contract. *)

\* The initial states are initial states of the contract.
LEMMA LifeInit == Init => Life!Init
<1> SUFFICES ASSUME Init PROVE Life!Init
  OBVIOUS
<1>1. Actor = "absent" /\ Binary = "none"
  <2>1. pc = "down" /\ box = [st |-> "none", by |-> 0]
    BY Zenon DEF Init, NoBox
  <2>2. box.st = "none"
    BY <2>1
  <2> QED
    BY <2>1, <2>2 DEF Actor, Binary, Managing
<1>2. ready = FALSE
  BY Zenon DEF Init
<1> QED
  BY <1>1, <1>2, Zenon DEF Life!Init

\* Every step is one of the contract, or is not seen.
LEMMA LifeStep == BoxInv /\ [Next]_vars => [Life!Next]_(Life!vars)
<1> SUFFICES ASSUME BoxInv, [Next]_vars PROVE [Life!Next]_(Life!vars)
  OBVIOUS
<1> USE DEF BoxInv, TypeOK, Actor, Binary, Managing, NoBox, Runs, BoxBecomes
<1>1. ASSUME NEW k \in Incs, ClientStarts(k) \/ ClientExits(k) PROVE UNCHANGED Life!vars
  BY <1>1 DEF ClientStarts, ClientExits, Life!vars
<1>2. ASSUME NEW k \in Incs, ClientFails(k) PROVE Life!Exit("box") \/ UNCHANGED Life!vars
  BY <1>2 DEF ClientFails, Life!Exit, Life!vars
<1>3. CASE Listens \/ IsRemoved
  BY <1>3 DEF Listens, IsRemoved, Life!vars
<1>4. CASE Exits
  BY <1>4 DEF Exits, Life!Exit, Life!Next
<1>5. CASE ActorStarts
  BY <1>5 DEF ActorStarts, Life!Start, Life!Next
<1>6. CASE Reclaim
  BY <1>6 DEF Reclaim, Life!Reclaim, Life!Next, Life!vars
<1>7. CASE WriteConfig \/ Attach \/ AwaitEnds \/ PollAlive \/ RemoveConfig \/ StopAgain
  BY <1>7 DEF WriteConfig, Attach, AwaitEnds, PollAlive, RemoveConfig, StopAgain, Life!vars
<1>8. CASE Create
  BY <1>8 DEF Create, Life!Launch, Life!Next
<1>9. CASE CreateFails
  BY <1>9 DEF CreateFails, Life!Fail, Life!Next
<1>10. CASE PollDead \/ Probe
  <2>1. pc \in {"up", "probe"} /\ pc' = "up" /\ UNCHANGED <<inc, box>>
    BY <1>10, Zenon DEF PollDead, Probe
  <2>2. Actor = "running" /\ Actor' = "running" /\ Binary' = Binary
    BY <2>1
  <2>3. ready' = FALSE \/ ready' = (box.st = "listening")
    BY <1>10, Zenon DEF PollDead, Probe
  <2>4. (box.st = "listening") = (Binary = "own") \/ (box.st = "listening") = FALSE
    BY <2>1 DEF Named, OwnContainer
  <2> HIDE DEF Actor, Binary
  <2>5. PICK yes \in {FALSE, Binary = "own"} : ready' = yes
    BY <2>3, <2>4, Zenon
  <2>6. [i \in {"box"} |-> ready'] = [[i \in {"box"} |-> ready] EXCEPT !["box"] = yes]
    BY <2>5
  <2>7. yes \in {FALSE, [i \in {"box"} |-> Binary]["box"] = "own"}
    BY <2>5, Zenon
  <2>8. Life!Report("box")
    BY <2>2, <2>6, <2>7, Zenon DEF Life!Report
  <2> QED
    BY <2>8, Zenon DEF Life!Next
<1>11. CASE Stop
  BY <1>11 DEF Stop, Life!Exit, Life!Next, Life!vars
<1>12. CASE StopReaps
  BY <1>12 DEF StopReaps, Started, Life!Stop, Life!Next
<1>13. CASE ActorDies
  BY <1>13 DEF ActorDies, Life!Die, Life!Next
<1>14. CASE UNCHANGED vars
  BY <1>14 DEF vars, Life!vars
<1> QED
  BY <1>1, <1>2, <1>3, <1>4, <1>5, <1>6, <1>7, <1>8, <1>9, <1>10, <1>11, <1>12, <1>13, <1>14
     DEF Next, ClientStep, StartStep, StopStep, Life!Next

\* The docker runner keeps the contract of runners (base.py:66-95).
THEOREM ContractKept == Spec => ImplementsBinaryLife
  BY LifeInit, LifeStep, BoxInvariant, PTL DEF Spec, ImplementsBinaryLife, Life!Spec
==============================================================================
