--------------------------- MODULE WorkerPoolProofs ---------------------------
(***************************************************************************)
(* Proofs about WorkerPool, for any number of workers, restarts, failures, *)
(* callers and requests: what the decisions of Rescale amount to, the type *)
(* of the state, and the safety properties.  The pool stays within         *)
(* max_workers, new ids are free, removals are complete, spare what is to  *)
(* be kept and leave no worker behind without its binary.                  *)
(***************************************************************************)
EXTENDS WorkerPool, FiniteSetTheorems, SequenceTheorems, WellFoundedInduction, TLAPS

(* The decisions. *)

\* A target is never negative, and never above max_workers.
LEMMA ClampBounds ==
  ASSUME NEW amount \in Int
  PROVE  /\ Clamp(amount) \in Nat
         /\ MaxWorkers # NoMax => Clamp(amount) <= MaxWorkers
  BY BoundsAssumption DEF Clamp, Larger, Smaller, NoMax

\* What is above the maximum is lowered to it, and what is below the minimum is raised
\* to it, unless that is above the maximum.
LEMMA ClampInRange ==
  ASSUME NEW amount \in Int
  PROVE  Clamp(amount) < MinWorkers => Clamp(amount) = MaxWorkers
  BY BoundsAssumption DEF Clamp, Larger, Smaller, NoMax

\* A set of worker ids is finite.
LEMMA IdsFinite ==
  ASSUME NEW m \in Nat, NEW ids \in SUBSET (0..m)
  PROVE  IsFiniteSet(ids) /\ Cardinality(ids) \in Nat
<1>1. IsFiniteSet(0..m)
  BY FS_Interval
<1>2. IsFiniteSet(ids)
  BY <1>1, FS_Subset
<1> QED
  BY <1>2, FS_CardinalityType

\* A non-empty set of ids has a highest one.
LEMMA HighestId ==
  ASSUME NEW m \in Nat, NEW ids \in SUBSET (0..m), ids # {}
  PROVE  \E i \in ids : \A j \in ids : j <= i
<1> DEFINE Less  == {ss \in Nat \X Nat : ss[1] < ss[2]}
           Depth == {m - i : i \in ids}
<1>1. IsWellFoundedOn(Less, Nat)
  BY NatLessThanWellFounded DEF OpToRel
<1>2. Depth \subseteq Nat /\ Depth # {}
  <2>1. \A i \in ids : m - i \in Nat
    OBVIOUS
  <2> QED BY <2>1
<1>3. PICK d \in Depth : \A e \in Depth : <<e, d>> \notin Less
  <2> HIDE DEF Less, Depth
  <2> QED BY <1>1, <1>2, WFMin
<1>4. PICK i \in ids : d = m - i
  OBVIOUS
<1>5. ASSUME NEW j \in ids PROVE j <= i
  <2>1. <<m - j, m - i>> \notin Less
    BY <1>3, <1>4
  <2>2. ~(m - j < m - i)
    BY <2>1
  <2> QED BY <2>2
<1> QED
  BY <1>5

\* The offset lies above every id in use.
LEMMA OffsetAbove ==
  ASSUME NEW m \in Nat, NEW ids \in SUBSET (0..m)
  PROVE  Offset(ids) \in Nat /\ \A i \in ids : i < Offset(ids)
<1>1. CASE ids = {}
  BY <1>1 DEF Offset
<1>2. CASE ids # {}
  <2>1. PICK i \in ids : \A j \in ids : j <= i
    BY <1>2, HighestId
  <2> DEFINE top == CHOOSE k \in ids : \A j \in ids : j <= k
  <2>2. top \in ids /\ \A j \in ids : j <= top
    BY <2>1
  <2>3. Offset(ids) = 1 + top
    BY <1>2 DEF Offset
  <2> HIDE DEF top
  <2> QED BY <2>2, <2>3
<1> QED BY <1>1, <1>2

\* No new id is in use (scheduler.py:222).
LEMMA NewIdsFresh ==
  ASSUME NEW m \in Nat, NEW ids \in SUBSET (0..m), NEW n \in Nat
  PROVE  NewIds(ids, n) \cap ids = {} /\ NewIds(ids, n) \subseteq Nat
<1>1. IsFiniteSet(ids) /\ Cardinality(ids) \in Nat
  BY IdsFinite
<1>2. Offset(ids) \in Nat /\ \A i \in ids : i < Offset(ids)
  BY OffsetAbove
<1>3. \A k \in NewIds(ids, n) : k \in Nat /\ Offset(ids) <= k
  BY <1>1, <1>2 DEF NewIds
<1> QED
  BY <1>2, <1>3

\* There are as many as are missing (scheduler.py:238).
LEMMA NewIdsFit ==
  ASSUME NEW m \in Nat, NEW ids \in SUBSET (0..m), NEW n \in Nat, Cardinality(ids) <= n
  PROVE  /\ IsFiniteSet(ids \cup NewIds(ids, n))
         /\ Cardinality(ids \cup NewIds(ids, n)) = n
<1>1. IsFiniteSet(ids) /\ Cardinality(ids) \in Nat
  BY IdsFinite
<1>2. Offset(ids) \in Nat
  BY OffsetAbove
<1>3. IsFiniteSet(NewIds(ids, n)) /\ Cardinality(NewIds(ids, n)) = n - Cardinality(ids)
  <2> DEFINE a == Offset(ids)
             b == Offset(ids) + n - Cardinality(ids) - 1
  <2>1. a \in Int /\ b \in Int /\ b - a + 1 = n - Cardinality(ids)
    BY <1>1, <1>2
  <2>2. IsFiniteSet(a..b) /\ Cardinality(a..b) = IF a > b THEN 0 ELSE b - a + 1
    <3> HIDE DEF a, b
    <3> QED BY <2>1, FS_Interval
  <2>3. a > b => n - Cardinality(ids) = 0
    BY <1>1, <1>2
  <2> QED BY <2>1, <2>2, <2>3 DEF NewIds
<1>4. ids \cap NewIds(ids, n) = {}
  BY NewIdsFresh
<1> QED
  BY <1>1, <1>3, <1>4, FS_Union, FS_EmptySet

\* Without hints exactly the target is left (scheduler.py:242-245).
LEMMA RemovalsFit ==
  ASSUME NEW m \in Nat, NEW ids \in SUBSET (0..m), NEW n \in Nat, Cardinality(ids) > n,
         NEW rem \in Removals(ids, n, {}, {})
  PROVE  rem \subseteq ids /\ Cardinality(ids \ rem) = n
<1>1. IsFiniteSet(ids) /\ Cardinality(ids) \in Nat
  BY IdsFinite
<1>2. rem \subseteq ids /\ ids \cap rem = rem
  BY DEF Removals
<1>3. (n = 0 /\ rem = ids) \/ Cardinality(rem) = Cardinality(ids) - n
  BY DEF Removals
<1>4. Cardinality(ids \ rem) = Cardinality(ids) - Cardinality(rem)
  BY <1>1, <1>2, FS_Difference
<1>5. CASE n = 0 /\ rem = ids
  BY <1>1, <1>2, <1>4, <1>5
<1>6. CASE Cardinality(rem) = Cardinality(ids) - n
  BY <1>1, <1>2, <1>4, <1>6
<1> QED
  BY <1>3, <1>5, <1>6

\* A worker to keep, and not to delete, is not removed unless the pool is emptied
\* (scheduler.py:246-253).
LEMMA KeptSpared ==
  ASSUME NEW ids, NEW n \in Nat \ {0}, NEW delete, NEW keep,
         NEW rem \in Removals(ids, n, delete, keep)
  PROVE  rem \subseteq ids /\ rem \cap (keep \ delete) = {}
  BY DEF Removals

------------------------------------------------------------------------------
(* The type. *)

\* The state at the start is of the type, whoever is up in it.
LEMMA TypeInit == ASSUME NEW up, InitWith(up) PROVE TypeOK
  BY ActorsAssumption, TerminatorsAssumption, PoolAssumption
     DEF InitWith, TypeOK, RayTypeOK, TerminationTypeOK, PoolTypeOK, Names, WorkerIds,
         Status, Jobs, NoJob

\* What a step leaves alone keeps its type.
LEMMA Frames ==
  /\ RayTypeOK /\ UNCHANGED rayVars => RayTypeOK'
  /\ TerminationTypeOK /\ UNCHANGED terminationVars => TerminationTypeOK'
  /\ PoolTypeOK /\ UNCHANGED poolVars => PoolTypeOK'
  BY DEF RayTypeOK, rayVars, TerminationTypeOK, terminationVars, PoolTypeOK, poolVars

\* Ray's steps keep the type of the registry.
LEMMA RayTypeStep ==
  ASSUME RayTypeOK, NEW n \in Names,
         \/ Create(n) \/ InitReturns(n) \/ InitRaises(n) \/ ProcessDies(n)
         \/ IsRestarted(n) \/ IsGivenUp(n)
  PROVE  RayTypeOK'
<1> USE ActorsAssumption DEF RayTypeOK, Status
<1>1. CASE Create(n)
  BY <1>1 DEF Create
<1>2. CASE InitReturns(n)
  BY <1>2 DEF InitReturns
<1>3. CASE InitRaises(n)
  BY <1>3 DEF InitRaises
<1>4. CASE ProcessDies(n)
  BY <1>4 DEF ProcessDies
<1>5. CASE IsRestarted(n)
  BY <1>5 DEF IsRestarted
<1>6. CASE IsGivenUp(n)
  BY <1>6 DEF IsGivenUp
<1> QED
  BY <1>1, <1>2, <1>3, <1>4, <1>5, <1>6

\* The steps of terminating actors keep the types of the registry and of the jobs.
LEMMA TerminationTypeStep ==
  ASSUME RayTypeOK, TerminationTypeOK, NEW p \in Terminators,
         \/ ResolveName(p) \/ AskToStop(p) \/ AllStopped(p) \/ StopGivesUp(p) \/ KillNext(p)
  PROVE  RayTypeOK' /\ TerminationTypeOK'
<1>1. CASE ResolveName(p)
  <2>1. PICK n \in job[p].names :
          job' = [job EXCEPT ![p].names = @ \ {n},
                             ![p].handles = @ \cup (IF Registered(n) THEN {Handle(n)} ELSE {})]
    BY <1>1 DEF ResolveName
  <2>2. job[p] \in Jobs
    BY DEF TerminationTypeOK
  <2>3. Handle(n) \in Handles
    BY <2>2 DEF Jobs, RayTypeOK, Handle, Handles
  <2> DEFINE found == IF Registered(n) THEN {Handle(n)} ELSE {}
  <2>4. found \subseteq Handles
    BY <2>3
  <2> HIDE DEF found
  <2>5. job' \in [Terminators -> Jobs]
    BY <2>1, <2>2, <2>4 DEF found, TerminationTypeOK, Jobs
  <2> QED BY <1>1, <2>5, Frames DEF ResolveName, TerminationTypeOK
<1>2. CASE AskToStop(p)
  <2> DEFINE asked == {<<h[1], h[2], restarts[h[1]]>> : h \in job[p].handles}
  <2>1. asked \subseteq Incarnations
    BY DEF Handles, Incarnations, RayTypeOK, TerminationTypeOK, Jobs
  <2>2. job' = [job EXCEPT ![p].phase = "stop", ![p].asked = asked]
    BY <1>2 DEF AskToStop
  <2> HIDE DEF asked
  <2>3. job' \in [Terminators -> Jobs]
    BY <2>1, <2>2 DEF TerminationTypeOK, Jobs
  <2> QED BY <1>2, <2>3, Frames DEF AskToStop, TerminationTypeOK
<1>3. CASE AllStopped(p)
  <2>1. TerminationTypeOK'
    BY <1>3 DEF AllStopped, TerminationTypeOK, Jobs
  <2> QED BY <1>3, <2>1, Frames DEF AllStopped
<1>4. CASE StopGivesUp(p)
  <2>1. TerminationTypeOK'
    BY <1>4 DEF StopGivesUp, TerminationTypeOK, Jobs
  <2> QED BY <1>4, <2>1, Frames DEF StopGivesUp
<1>5. CASE KillNext(p)
  <2>1. PICK h \in job[p].handles : Kill(h) /\ job' = [job EXCEPT ![p].handles = @ \ {h}]
    BY <1>5 DEF KillNext
  <2>2. RayTypeOK'
    BY <2>1 DEF Kill, RayTypeOK, Status
  <2>3. TerminationTypeOK'
    BY <1>5, <2>1 DEF KillNext, TerminationTypeOK, Jobs
  <2> QED BY <2>2, <2>3
<1> QED
  BY <1>1, <1>2, <1>3, <1>4, <1>5

\* So does an actor that serves a stop() call.
LEMMA HaltTypeStep ==
  ASSUME TerminationTypeOK, NEW n \in Names, Halt(n)
  PROVE  TerminationTypeOK'
  BY DEF TerminationTypeOK, Jobs, Halt

\* The call served next is one of a client, for an integral amount.
LEMMA ServedAmount ==
  ASSUME TypeOK, NEW kind, Serves(kind)
  PROVE  Head(inbox) \in Clients /\ request[Head(inbox)].amount \in Int
<1>1. Head(inbox) \in Clients
  BY DEF Serves, TypeOK, PoolTypeOK
<1> QED
  BY <1>1, PoolAssumption DEF TypeOK, PoolTypeOK, NoRequest

\* Every step keeps the type, action by action.
LEMMA TypeStep == TypeOK /\ [Next]_vars => TypeOK'
<1> SUFFICES ASSUME TypeOK, [Next]_vars PROVE TypeOK'
  OBVIOUS
<1>0. RayTypeOK /\ TerminationTypeOK /\ PoolTypeOK
  BY DEF TypeOK
<1>a. /\ \A w \in WorkerIds : w \in Names
      /\ Scheduler \in Names /\ Scaler \in Names
      /\ Scheduler \in Terminators
  BY TerminatorsAssumption DEF Names
<1> USE <1>0 DEF TypeOK
<1>1. ASSUME NEW c \in Clients, Accept(c) \/ Relay(c) PROVE TypeOK'
  <2>1. CASE Accept(c)
    <3>1. PoolTypeOK'
      BY <2>1 DEF Accept, PoolTypeOK
    <3> QED BY <2>1, <3>1, Frames DEF Accept
  <2>2. CASE Relay(c)
    <3>1. inbox' \in Seq(Clients)
      BY <2>2 DEF Relay, PoolTypeOK
    <3>2. PoolTypeOK'
      BY <2>2, <3>1 DEF Relay, PoolTypeOK
    <3> QED BY <2>2, <3>2, Frames DEF Relay
  <2> QED BY <1>1, <2>1, <2>2
<1>2. ASSUME NEW c \in Clients, Reject(c) \/ FindNoScheduler(c) \/ GiveUp(c) PROVE TypeOK'
  <2>1. PoolTypeOK'
    BY <1>2 DEF Reject, FindNoScheduler, GiveUp, PoolTypeOK
  <2> QED BY <1>2, <2>1, Frames DEF Reject, FindNoScheduler, GiveUp
<1>3. ASSUME NEW kind, Serves(kind)
      PROVE  /\ Head(inbox) \in Clients
             /\ inbox' \in Seq(Clients)
             /\ Clamp(request[Head(inbox)].amount) \in Nat
  <2>1. inbox' \in Seq(Clients)
    BY <1>3 DEF Serves, PoolTypeOK
  <2> QED BY <1>3, <2>1, ServedAmount, ClampBounds
<1>4. CASE ReportStatus
  <2>1. PoolTypeOK'
    BY <1>3, <1>4 DEF ReportStatus, Answer, PoolTypeOK
  <2> QED BY <1>4, <2>1, Frames DEF ReportStatus
<1>5. CASE BeginToGrow
  <2>1. call' \in Calls
    BY <1>3, <1>5 DEF BeginToGrow, Calls
  <2>2. PoolTypeOK'
    BY <1>3, <1>5, <2>1 DEF BeginToGrow, PoolTypeOK
  <2> QED BY <1>5, <2>2, Frames DEF BeginToGrow
<1>6. CASE BeginToShrink
  <2> DEFINE r == request[Head(inbox)]
             n == Clamp(r.amount)
  <2>1. PICK rem \in Removals(Listed, n, r.delete, r.keep) :
          /\ call' = [client |-> Head(inbox), step |-> "remove", target |-> n, ids |-> rem]
          /\ job' = [job EXCEPT ![Scheduler] = Terminate(rem)]
    BY <1>6 DEF BeginToShrink
  <2>2. rem \subseteq WorkerIds
    BY DEF Removals, Listed
  <2>3. Head(inbox) \in Clients /\ inbox' \in Seq(Clients) /\ n \in Nat
    BY <1>3, <1>6 DEF BeginToShrink
  <2>4. call' \in Calls
    BY <2>1, <2>2, <2>3 DEF Calls
  <2>5. Terminate(rem) \in Jobs
    BY <2>2 DEF Terminate, NoJob, Jobs, Names
  <2>6. TerminationTypeOK'
    BY <1>6, <1>a, <2>1, <2>5 DEF BeginToShrink, TerminationTypeOK
  <2>7. PoolTypeOK'
    BY <1>6, <2>3, <2>4 DEF BeginToShrink, PoolTypeOK
  <2> QED BY <1>6, <2>6, <2>7, Frames DEF BeginToShrink
<1>7. CASE AddWorker
  <2>1. PICK w \in WorkerIds : /\ Create(w) /\ StartsOver(w)
                               /\ call' = [call EXCEPT !.ids = @ \ {w}]
    BY <1>7 DEF AddWorker
  <2>2. RayTypeOK'
    BY <1>a, <2>1, RayTypeStep
  <2>3. TerminationTypeOK'
    BY <2>1 DEF StartsOver, TerminationTypeOK
  <2>4. call \in Calls
    BY <1>7 DEF AddWorker, PoolTypeOK, NoCall
  <2>5. call' \in Calls
    BY <2>1, <2>4 DEF Calls
  <2>6. PoolTypeOK'
    BY <1>7, <2>5 DEF AddWorker, PoolTypeOK
  <2> QED BY <2>2, <2>3, <2>6
<1>9. CASE Finish
  <2>1. call \in Calls
    BY <1>9 DEF Finish, PoolTypeOK, NoCall
  <2>2. PoolTypeOK'
    BY <1>9, <2>1 DEF Finish, Answer, PoolTypeOK, Calls
  <2>3. TerminationTypeOK'
    BY <1>9, <1>a DEF Finish, TerminationTypeOK, Jobs, NoJob
  <2> QED BY <1>9, <2>2, <2>3, Frames DEF Finish
<1>10. CASE Removing
  BY <1>10, <1>a, TerminationTypeStep, Frames DEF Removing
<1>11. ASSUME NEW w \in WorkerIds, WorkerStep(w) PROVE TypeOK'
  <2>1. CASE Halt(w) /\ UNCHANGED poolVars
    <3>1. UNCHANGED rayVars
      BY <2>1 DEF Halt
    <3> QED BY <1>a, <2>1, <3>1, HaltTypeStep, Frames
  <2>2. CASE /\ InitReturns(w) \/ InitRaises(w) \/ ProcessDies(w) \/ IsGivenUp(w)
             /\ UNCHANGED <<terminationVars, poolVars>>
    <3>1. RayTypeOK'
      BY <1>a, <2>2, RayTypeStep
    <3> QED BY <2>2, <3>1, Frames
  <2>3. CASE IsRestarted(w) /\ StartsOver(w) /\ UNCHANGED poolVars
    <3>1. RayTypeOK'
      BY <1>a, <2>3, RayTypeStep
    <3>2. TerminationTypeOK'
      BY <2>3 DEF StartsOver, TerminationTypeOK
    <3> QED BY <2>3, <3>1, <3>2, Frames
  <2> QED BY <1>11, <2>1, <2>2, <2>3 DEF WorkerStep
<1>12. CASE SchedulerDies
  <2>1. RayTypeOK'
    BY <1>12, <1>a, RayTypeStep DEF SchedulerDies
  <2>2. TerminationTypeOK'
    BY <1>12, <1>a DEF SchedulerDies, TerminationTypeOK, Jobs, NoJob
  <2>3. PoolTypeOK'
    BY <1>12 DEF SchedulerDies, PoolTypeOK
  <2> QED BY <2>1, <2>2, <2>3
<1>13. CASE SchedulerIsGivenUp
  <2>1. RayTypeOK'
    BY <1>13, <1>a, RayTypeStep DEF SchedulerIsGivenUp
  <2> QED BY <1>13, <2>1, Frames DEF SchedulerIsGivenUp
<1>15. CASE ScalerDies \/ ScalerIsGivenUp
  <2>1. RayTypeOK'
    BY <1>15, <1>a, RayTypeStep DEF ScalerDies, ScalerIsGivenUp
  <2>2. PoolTypeOK'
    BY <1>15, Frames DEF ScalerDies, ScalerIsGivenUp, HangUp, PoolTypeOK
  <2> QED BY <1>15, <2>1, <2>2, Frames DEF ScalerDies, ScalerIsGivenUp
<1>14. CASE UNCHANGED vars
  BY <1>14, Frames DEF vars
<1> QED
  BY <1>1, <1>2, <1>4, <1>5, <1>6, <1>7, <1>9, <1>10, <1>11, <1>12, <1>13, <1>14, <1>15
     DEF Next, SchedulerStep

\* The state is what WorkerPool says it is.
THEOREM TypeCorrect == Spec => []TypeOK
<1>1. Init => TypeOK
  BY TypeInit DEF Init
<1> QED
  BY <1>1, TypeStep, PTL DEF Spec

------------------------------------------------------------------------------
(* The inductive invariant. *)

\* A request whose call is queued or under way was relayed, so what it asked for
\* does not change under the call.
CallersBusy == \A c \in Clients :
                 client[c] \in {"idle", "accepted"} => /\ call.client # c
                                       /\ \A i \in DOMAIN inbox : inbox[i] # c

\* A call in progress and the size of the pool: the workers there are and those
\* to come are not more than the target, and neither are those that are to stay.
Sizes == /\ call.step = "add" => /\ call.ids \cap Listed = {}
                                 /\ Cardinality(Listed \cup call.ids) <= call.target
         /\ call # NoCall /\ MaxWorkers # NoMax => call.target <= MaxWorkers
         /\ PoolBounded
         /\ call.step = "remove" /\ Hints = {} => Cardinality(Listed \ call.ids) <= call.target

\* The scheduler actor terminates workers only on behalf of a call, and only those
\* the call is to remove; nobody else terminates any. It waits for the stop() of no
\* worker but one it is going to kill, and has looked up every name by then.
JobInScope ==
  LET j == job[Scheduler]
  IN  /\ call.step # "remove" => j = NoJob
      /\ call.step = "remove" => /\ j.names \subseteq call.ids
                                 /\ \A h \in j.handles : h[1] \in call.ids
      /\ \A x \in j.asked : <<x[1], x[2]>> \in j.handles
      /\ j.asked # {} => j.phase = "stop"
      /\ j.phase # "resolve" => j.names = {}
      /\ \A p \in Terminators \ {Scheduler} : job[p] = NoJob

\* The workers a call removes are not among those it was told to keep.
RemovalSpares ==
  /\ call.step = "remove"
  /\ call.target # 0
  => call.ids \cap (request[call.client].keep \ request[call.client].delete) = {}

\* Together with the type, an inductive invariant.
PoolInv == TypeOK /\ CallersBusy /\ Sizes /\ JobInScope /\ RemovalSpares
           /\ RemovedAreGone /\ HaltedIsDoomed

------------------------------------------------------------------------------
(* Which steps change what. *)

\* Ray's steps never put a worker into the pool, and change no generation.
LEMMA RegistryStep ==
  ASSUME RayTypeOK, NEW n \in Names,
         \/ InitReturns(n) \/ InitRaises(n) \/ ProcessDies(n)
         \/ IsRestarted(n) \/ IsGivenUp(n)
  PROVE  Listed' \subseteq Listed /\ gen' = gen
<1>1. PICK new \in Status : /\ status[n] # "dead"
                            /\ status' = [status EXCEPT ![n] = new]
                            /\ gen' = gen
  BY DEF Status, InitReturns, InitRaises, ProcessDies, IsRestarted, IsGivenUp
<1> QED
  BY <1>1 DEF RayTypeOK, Listed, Registered

\* What the HTTP requests do.
Callers(c) == Accept(c) \/ Reject(c) \/ Relay(c) \/ FindNoScheduler(c) \/ GiveUp(c)

\* Only AddWorker does.
LEMMA Leaving ==
  ASSUME TypeOK, [Next]_vars, ~AddWorker
  PROVE  Listed' \subseteq Listed /\ gen' = gen
<1>1. UNCHANGED rayVars => Listed' \subseteq Listed /\ gen' = gen
  BY DEF rayVars, Listed, Registered
<1>2. CASE Removing
  <2>1. CASE KillNext(Scheduler)
    BY <2>1 DEF KillNext, Kill, Listed, Registered, TypeOK, RayTypeOK
  <2> QED BY <1>1, <1>2, <2>1 DEF Removing, ResolveName, AskToStop, AllStopped, StopGivesUp
<1>3. ASSUME NEW w \in WorkerIds, WorkerStep(w) PROVE Listed' \subseteq Listed /\ gen' = gen
  BY <1>1, <1>3, RegistryStep DEF WorkerStep, Halt, TypeOK, Names
<1>4. CASE SchedulerDies \/ SchedulerIsGivenUp \/ ScalerDies \/ ScalerIsGivenUp
  BY <1>4, RegistryStep
     DEF SchedulerDies, SchedulerIsGivenUp, ScalerDies, ScalerIsGivenUp, TypeOK, Names
<1>5. ASSUME NEW c \in Clients, Callers(c)
      PROVE  Listed' \subseteq Listed /\ gen' = gen
  BY <1>1, <1>5 DEF Callers, Accept, Relay, Reject, FindNoScheduler, GiveUp
<1>6. CASE \/ ReportStatus \/ BeginToGrow \/ BeginToShrink \/ Finish
           \/ UNCHANGED vars
  BY <1>1, <1>6 DEF ReportStatus, BeginToGrow, BeginToShrink, Finish, vars
<1> QED
  BY <1>2, <1>3, <1>4, <1>5, <1>6 DEF Next, SchedulerStep, Callers

\* A step begins a call, adds a worker, ends a call, or leaves it and what it was
\* asked for alone.
LEMMA CallStep ==
  ASSUME TypeOK, CallersBusy, [Next]_vars
  PROVE  \/ BeginToGrow \/ BeginToShrink \/ AddWorker
         \/ call' = NoCall
         \/ call' = call /\ request'[call.client] = request[call.client]
<1>1. ASSUME NEW c \in Clients, Accept(c)
      PROVE  call' = call /\ request'[call.client] = request[call.client]
  <2>1. call.client # c
    BY <1>1 DEF Accept, CallersBusy
  <2> QED BY <1>1, <2>1 DEF Accept, TypeOK, PoolTypeOK
<1>2. CASE Finish \/ SchedulerDies
  BY <1>2 DEF Finish, SchedulerDies
<1>3. CASE ReportStatus \/ Removing \/ SchedulerIsGivenUp \/ ScalerDies \/ ScalerIsGivenUp
           \/ UNCHANGED vars
  BY <1>3 DEF ReportStatus, Removing, SchedulerIsGivenUp, ScalerDies, ScalerIsGivenUp, vars, poolVars
<1>4. ASSUME NEW c \in Clients, Reject(c) \/ Relay(c) \/ FindNoScheduler(c) \/ GiveUp(c)
      PROVE  call' = call /\ request' = request
  BY <1>4 DEF Reject, Relay, FindNoScheduler, GiveUp
<1>5. ASSUME NEW w \in WorkerIds, WorkerStep(w) PROVE call' = call /\ request' = request
  BY <1>5 DEF WorkerStep, poolVars
<1> QED
  BY <1>1, <1>2, <1>3, <1>4, <1>5 DEF Next, SchedulerStep

------------------------------------------------------------------------------
(* The callers. *)

\* No step makes a caller idle again or queues a call of an idle one.
LEMMA CallersStep == TypeOK /\ CallersBusy /\ [Next]_vars => CallersBusy'
<1> SUFFICES ASSUME TypeOK, CallersBusy, [Next]_vars PROVE CallersBusy'
  OBVIOUS
<1>0. inbox \in Seq(Clients) /\ client \in [Clients -> {"idle", "accepted", "waiting", "done", "failed", "rejected"}]
  BY DEF TypeOK, PoolTypeOK
<1>1. ASSUME NEW c \in Clients, Relay(c) PROVE CallersBusy'
  <2>1. \A i \in DOMAIN inbox' : inbox'[i] = c \/ (i \in DOMAIN inbox /\ inbox'[i] = inbox[i])
    <3> DEFINE longer == Append(inbox, c)
    <3>1. inbox' = inbox \/ inbox' = longer
      BY <1>1 DEF Relay
    <3>2. /\ Len(inbox) \in Nat /\ DOMAIN inbox = 1..Len(inbox)
          /\ DOMAIN longer = 1..(Len(inbox) + 1)
          /\ longer[Len(inbox) + 1] = c
          /\ \A i \in 1..Len(inbox) : longer[i] = inbox[i]
      BY <1>0, AppendProperties, LenProperties
    <3> HIDE DEF longer
    <3> QED BY <3>1, <3>2
  <2>2. client' = [client EXCEPT ![c] = "waiting"] /\ call' = call
    BY <1>1 DEF Relay
  <2> QED BY <1>0, <2>1, <2>2 DEF CallersBusy
<1>2. ASSUME NEW c \in Clients, Accept(c) \/ Reject(c) \/ FindNoScheduler(c) \/ GiveUp(c)
      PROVE  CallersBusy'
  BY <1>0, <1>2 DEF Accept, Reject, FindNoScheduler, GiveUp, CallersBusy
<1>3. ASSUME NEW kind, Serves(kind)
      PROVE  /\ \A c \in Clients : client[c] \in {"idle", "accepted"} => Head(inbox) # c
             /\ \A i \in DOMAIN inbox' : \E j \in DOMAIN inbox : inbox'[i] = inbox[j]
  <2>1. inbox # <<>> /\ inbox' = Tail(inbox)
    BY <1>3 DEF Serves
  <2>2. Head(inbox) = inbox[1] /\ 1 \in DOMAIN inbox
    BY <1>0, <2>1
  <2>3. ASSUME NEW i \in DOMAIN inbox' PROVE i + 1 \in DOMAIN inbox /\ inbox'[i] = inbox[i + 1]
    BY <1>0, <2>1
  <2> QED BY <2>2, <2>3 DEF CallersBusy
<1>4. CASE ReportStatus
  <2>1. Serves("scale_config") /\ Answer(Head(inbox), "done") /\ call' = call
    BY <1>4 DEF ReportStatus
  <2>2. \A c \in Clients : client'[c] \in {"idle", "accepted"} => client'[c] = client[c]
    BY <1>0, <2>1 DEF Answer
  <2> QED BY <1>3, <2>1, <2>2 DEF CallersBusy
<1>5. CASE BeginToGrow \/ BeginToShrink
  <2>1. Serves("scale_to") /\ call'.client = Head(inbox) /\ client' = client
    BY <1>5 DEF BeginToGrow, BeginToShrink
  <2> QED BY <1>3, <2>1 DEF CallersBusy
<1>6. CASE Finish
  <2>1. \A c \in Clients : client'[c] \in {"idle", "accepted"} => client'[c] = client[c]
    BY <1>0, <1>6 DEF Finish, Answer
  <2> QED BY <1>6, <2>1, PoolAssumption DEF Finish, CallersBusy, NoCall
<1>7. CASE AddWorker
  <2>1. call'.client = call.client
    BY <1>7 DEF AddWorker, TypeOK, PoolTypeOK, Calls, NoCall
  <2> QED BY <1>7, <2>1 DEF AddWorker, CallersBusy
<1>8. CASE Removing \/ SchedulerIsGivenUp \/ ScalerIsGivenUp \/ UNCHANGED vars
  BY <1>8 DEF Removing, SchedulerIsGivenUp, ScalerIsGivenUp, vars, poolVars, CallersBusy
<1>9. ASSUME NEW w \in WorkerIds, WorkerStep(w) PROVE CallersBusy'
  BY <1>9 DEF WorkerStep, poolVars, CallersBusy
<1>10. CASE SchedulerDies
  BY <1>10, PoolAssumption DEF SchedulerDies, CallersBusy, NoCall
<1>11. CASE ScalerDies
  BY <1>0, <1>11 DEF ScalerDies, HangUp, CallersBusy
<1> QED
  BY <1>1, <1>2, <1>4, <1>5, <1>6, <1>7, <1>8, <1>9, <1>10, <1>11 DEF Next, SchedulerStep

------------------------------------------------------------------------------
(* The size of the pool. *)

\* A part of the pool is not larger than the whole.
LEMMA Parts ==
  ASSUME NEW S \in SUBSET WorkerIds, NEW T \in SUBSET S
  PROVE  /\ Cardinality(S) \in Nat
         /\ Cardinality(T) \in Nat
         /\ Cardinality(T) <= Cardinality(S)
  BY ActorsAssumption, IdsFinite, FS_Subset DEF WorkerIds

\* Every step keeps the call and the pool in proportion.
LEMMA SizesStep == TypeOK /\ TypeOK' /\ CallersBusy /\ Sizes /\ [Next]_vars => Sizes'
<1> SUFFICES ASSUME TypeOK, TypeOK', CallersBusy, Sizes, [Next]_vars PROVE Sizes'
  OBVIOUS
<1>0. /\ Listed \subseteq WorkerIds /\ Listed' \subseteq WorkerIds
      /\ MaxWorkers \in Int /\ Larger(NumWorkers, MaxWorkers) \in Int
      /\ MaxWorkers <= Larger(NumWorkers, MaxWorkers)
      /\ call \in Calls \cup {NoCall}
      /\ call.ids \subseteq WorkerIds /\ call.target \in Nat
      /\ call.step \in {"add", "remove"} <=> call # NoCall
  BY PoolAssumption, BoundsAssumption
     DEF Listed, Larger, NoMax, TypeOK, PoolTypeOK, Calls, NoCall
<1>1. ASSUME Listed' \subseteq Listed PROVE PoolBounded'
  <2>1. Cardinality(Listed') <= Cardinality(Listed)
        /\ Cardinality(Listed') \in Nat /\ Cardinality(Listed) \in Nat
    BY <1>0, <1>1, Parts
  <2> QED BY <1>0, <2>1 DEF Sizes, PoolBounded
<1>2. CASE BeginToGrow
  <2> DEFINE n == Clamp(request[Head(inbox)].amount)
  <2>1. /\ Cardinality(Listed) <= n
        /\ call' = [client |-> Head(inbox), step |-> "add", target |-> n,
                    ids |-> NewIds(Listed, n)]
        /\ Listed' = Listed
    BY <1>2 DEF BeginToGrow, rayVars, Listed, Registered
  <2>2. n \in Nat /\ (MaxWorkers # NoMax => n <= MaxWorkers)
    BY <1>2, ServedAmount, ClampBounds DEF BeginToGrow
  <2>3. NewIds(Listed, n) \cap Listed = {} /\ Cardinality(Listed \cup NewIds(Listed, n)) = n
    BY <1>0, <2>1, <2>2, ActorsAssumption, NewIdsFresh, NewIdsFit DEF WorkerIds
  <2> HIDE DEF n
  <2> QED BY <1>1, <2>1, <2>2, <2>3 DEF Sizes
<1>3. CASE BeginToShrink
  <2> DEFINE r == request[Head(inbox)]
             n == Clamp(r.amount)
  <2>1. PICK rem \in Removals(Listed, n, r.delete, r.keep) :
          call' = [client |-> Head(inbox), step |-> "remove", target |-> n, ids |-> rem]
    BY <1>3 DEF BeginToShrink
  <2>2. Cardinality(Listed) > n /\ Listed' = Listed /\ request' = request
    BY <1>3 DEF BeginToShrink, rayVars, Listed, Registered
  <2>3. n \in Nat /\ (MaxWorkers # NoMax => n <= MaxWorkers)
    BY <1>3, ServedAmount, ClampBounds DEF BeginToShrink
  <2>4. ASSUME Hints' = {} PROVE Cardinality(Listed \ rem) <= n
    <3>1. r.delete = {} /\ r.keep = {}
      BY <2>1, <2>2, <2>4 DEF Hints
    <3>2. rem \in Removals(Listed, n, {}, {})
      BY <2>1, <3>1
    <3> HIDE DEF n
    <3>3. Cardinality(Listed \ rem) = n
      BY <1>0, <2>2, <2>3, <3>2, ActorsAssumption, RemovalsFit DEF WorkerIds
    <3> QED BY <2>3, <3>3
  <2> HIDE DEF n, r
  <2> QED BY <1>1, <2>1, <2>2, <2>3, <2>4 DEF Sizes
<1>4. CASE AddWorker
  <2>1. PICK w \in call.ids : /\ Create(w)
                              /\ call' = [call EXCEPT !.ids = @ \ {w}]
    BY <1>4 DEF AddWorker, IsNext
  <2>2. w \in WorkerIds /\ w \in Names
    BY <1>0 DEF Names
  <2>3. Listed' = Listed \cup {w}
    BY <2>1, <2>2 DEF Create, Listed, Registered, TypeOK, RayTypeOK
  <2>4. call.step = "add" /\ call # NoCall
    BY <1>4 DEF AddWorker, NoCall
  <2>5. /\ call'.step = "add" /\ call'.ids = call.ids \ {w} /\ call'.target = call.target
        /\ call' # NoCall
    BY <1>0, <2>1, <2>4 DEF Calls, NoCall
  <2>6. Listed' \cup call'.ids = Listed \cup call.ids
    BY <2>1, <2>3, <2>5
  <2>7. call'.ids \cap Listed' = {}
    BY <2>3, <2>4, <2>5 DEF Sizes
  <2>8. Cardinality(Listed') <= Cardinality(Listed \cup call.ids)
        /\ Cardinality(Listed') \in Nat /\ Cardinality(Listed \cup call.ids) \in Nat
    <3>1. Listed' \subseteq Listed \cup call.ids /\ Listed \cup call.ids \subseteq WorkerIds
      BY <1>0, <2>1, <2>3
    <3> QED BY <3>1, Parts
  <2>9. PoolBounded'
    BY <1>0, <2>4, <2>8 DEF Sizes, PoolBounded
  <2> QED BY <2>4, <2>5, <2>6, <2>7, <2>9 DEF Sizes
<1>5. CASE call' = NoCall /\ ~AddWorker
  <2>1. PoolBounded'
    BY <1>1, <1>5, Leaving
  <2> QED BY <1>5, <2>1 DEF Sizes, NoCall
<1>6. CASE call' = call /\ request'[call.client] = request[call.client] /\ ~AddWorker
  <2>1. Listed' \subseteq Listed
    BY <1>6, Leaving
  <2>2. Hints' = Hints
    BY <1>6 DEF Hints
  <2>3. /\ Cardinality(Listed' \cup call.ids) <= Cardinality(Listed \cup call.ids)
        /\ Cardinality(Listed' \cup call.ids) \in Nat
        /\ Cardinality(Listed \cup call.ids) \in Nat
    BY <1>0, <2>1, Parts
  <2>4. /\ Cardinality(Listed' \ call.ids) <= Cardinality(Listed \ call.ids)
        /\ Cardinality(Listed' \ call.ids) \in Nat
        /\ Cardinality(Listed \ call.ids) \in Nat
    BY <1>0, <2>1, Parts
  <2> QED BY <1>0, <1>1, <1>6, <2>1, <2>2, <2>3, <2>4 DEF Sizes
<1> QED
  BY <1>2, <1>3, <1>4, <1>5, <1>6, CallStep

------------------------------------------------------------------------------
(* The removals. *)

\* What the steps of terminating actors make of a job.
JobMoves(p) ==
  /\ \A n \in job[p].names : \/ n \in job'[p].names
                             \/ ~Registered(n)
                             \/ Handle(n) \in job'[p].handles
  /\ \A h \in job[p].handles : \/ h \in job'[p].handles
                               \/ ~Resolves(h)
                               \/ job[p].phase = "kill" /\ status'[h[1]] = "dead"
  /\ job'[p].names \subseteq job[p].names
  /\ \A h \in job'[p].handles : h \in job[p].handles \/ h[1] \in job[p].names

\* A removal step works on the job of a call that removes workers, and loses neither
\* a name nor a handle before its actor is gone.
LEMMA RemovingStep ==
  ASSUME TypeOK, JobInScope, Removing
  PROVE  /\ call.step = "remove"
         /\ UNCHANGED <<poolVars, halted>>
         /\ JobMoves(Scheduler)
         /\ JobInScope'
<1> DEFINE j == job[Scheduler]
<1>0. j \in Jobs /\ job \in [Terminators -> Jobs] /\ Scheduler \in Terminators
  BY TerminatorsAssumption DEF TypeOK, TerminationTypeOK
<1>1. call.step = "remove"
  BY DEF Removing, ResolveName, AskToStop, AllStopped, StopGivesUp, KillNext, JobInScope, NoJob
<1>2. UNCHANGED <<poolVars, halted>>
  BY DEF Removing, ResolveName, AskToStop, AllStopped, StopGivesUp, KillNext
<1>3. call' = call
  BY <1>2 DEF poolVars
<1>4. CASE ResolveName(Scheduler)
  <2>1. PICK n \in j.names :
          job' = [job EXCEPT ![Scheduler].names = @ \ {n},
                             ![Scheduler].handles = @ \cup (IF Registered(n) THEN {Handle(n)} ELSE {})]
    BY <1>4 DEF ResolveName
  <2> DEFINE found == IF Registered(n) THEN {Handle(n)} ELSE {}
  <2>2. (Registered(n) => Handle(n) \in found) /\ \A h \in found : h[1] = n
    BY DEF Handle
  <2> HIDE DEF found
  <2>3. /\ job'[Scheduler] = [j EXCEPT !.names = @ \ {n}, !.handles = @ \cup found]
        /\ \A p \in Terminators \ {Scheduler} : job'[p] = job[p]
    BY <1>0, <2>1 DEF found
  <2>4. /\ job'[Scheduler].names = j.names \ {n}
        /\ job'[Scheduler].handles = j.handles \cup found
        /\ job'[Scheduler].asked = j.asked
        /\ job'[Scheduler].phase = j.phase
    BY <1>0, <2>3 DEF Jobs
  <2>5. JobMoves(Scheduler)
    BY <2>2, <2>4 DEF JobMoves
  <2>6. JobInScope'
    BY <1>1, <1>3, <1>4, <2>1, <2>2, <2>3, <2>4 DEF JobInScope, ResolveName
  <2> QED BY <1>1, <1>2, <2>5, <2>6
<1>5. CASE AskToStop(Scheduler)
  <2> DEFINE asked == {<<h[1], h[2], restarts[h[1]]>> : h \in j.handles}
  <2>1. \A x \in asked : <<x[1], x[2]>> \in j.handles
    BY <1>0 DEF Jobs, Handles
  <2>2. job' = [job EXCEPT ![Scheduler].phase = "stop", ![Scheduler].asked = asked]
    BY <1>5 DEF AskToStop
  <2> HIDE DEF asked
  <2>3. /\ job'[Scheduler].names = j.names
        /\ job'[Scheduler].handles = j.handles
        /\ job'[Scheduler].asked = asked
        /\ job'[Scheduler].phase = "stop"
        /\ \A p \in Terminators \ {Scheduler} : job'[p] = job[p]
    BY <1>0, <2>2 DEF Jobs
  <2>4. JobInScope'
    BY <1>1, <1>3, <1>5, <2>1, <2>3 DEF JobInScope, AskToStop
  <2> QED BY <1>1, <1>2, <2>3, <2>4 DEF JobMoves
<1>6. CASE AllStopped(Scheduler) \/ StopGivesUp(Scheduler)
  <2>1. /\ job'[Scheduler].names = j.names
        /\ job'[Scheduler].handles = j.handles
        /\ job'[Scheduler].asked = {}
        /\ job'[Scheduler].phase = "kill"
        /\ \A p \in Terminators \ {Scheduler} : job'[p] = job[p]
        /\ j.phase = "stop"
    BY <1>0, <1>6 DEF Jobs, AllStopped, StopGivesUp
  <2>2. JobInScope'
    BY <1>1, <1>3, <2>1 DEF JobInScope
  <2> QED BY <1>1, <1>2, <2>1, <2>2 DEF JobMoves
<1>7. CASE KillNext(Scheduler)
  <2>1. PICK h \in j.handles : Kill(h) /\ job' = [job EXCEPT ![Scheduler].handles = @ \ {h}]
    BY <1>7 DEF KillNext
  <2>2. /\ job'[Scheduler].names = j.names
        /\ job'[Scheduler].handles = j.handles \ {h}
        /\ job'[Scheduler].asked = j.asked
        /\ job'[Scheduler].phase = j.phase
        /\ \A p \in Terminators \ {Scheduler} : job'[p] = job[p]
        /\ j.phase = "kill"
    BY <1>0, <1>7, <2>1 DEF Jobs, KillNext
  <2>3. ~Resolves(h) \/ status'[h[1]] = "dead"
    BY <1>0, <2>1 DEF Kill, Jobs, Handles, TypeOK, RayTypeOK
  <2>4. JobMoves(Scheduler)
    BY <2>2, <2>3 DEF JobMoves
  <2>5. JobInScope'
    BY <1>1, <1>3, <2>2 DEF JobInScope
  <2> QED BY <1>1, <1>2, <2>4, <2>5
<1> QED
  BY <1>4, <1>5, <1>6, <1>7 DEF Removing

\* A worker that stops was asked to by the scheduler actor.
LEMMA HaltStep ==
  ASSUME TypeOK, JobInScope, NEW w \in WorkerIds, Halt(w), UNCHANGED poolVars
  PROVE  /\ call.step = "remove"
         /\ Handle(w) \in job[Scheduler].handles
         /\ job'[Scheduler].handles = job[Scheduler].handles
         /\ job'[Scheduler].names = job[Scheduler].names
         /\ JobInScope'
<1> DEFINE j == job[Scheduler]
<1>0. j \in Jobs /\ job \in [Terminators -> Jobs] /\ Scheduler \in Terminators
  BY TerminatorsAssumption DEF TypeOK, TerminationTypeOK
<1>1. PICK p \in Terminators : /\ Incarnation(w) \in job[p].asked
                               /\ job' = [job EXCEPT ![p].asked = @ \ {Incarnation(w)}]
  BY DEF Halt
<1>2. p = Scheduler
  BY <1>1 DEF JobInScope, NoJob
<1>3. call.step = "remove"
  BY <1>1, <1>2 DEF JobInScope, NoJob
<1>4. Handle(w) \in j.handles
  BY <1>1, <1>2 DEF JobInScope, Incarnation, Handle
<1>5. /\ job'[Scheduler].names = j.names
      /\ job'[Scheduler].handles = j.handles
      /\ job'[Scheduler].asked = j.asked \ {Incarnation(w)}
      /\ job'[Scheduler].phase = j.phase
      /\ \A q \in Terminators \ {Scheduler} : job'[q] = job[q]
  BY <1>0, <1>1, <1>2 DEF Jobs
<1>6. JobInScope'
  BY <1>3, <1>5 DEF JobInScope, poolVars
<1> QED
  BY <1>3, <1>4, <1>5, <1>6

\* The steps that are neither of the above, nor begin or end a call, leave job alone.
LEMMA JobStep ==
  ASSUME TypeOK, JobInScope, [Next]_vars
  PROVE  \/ Removing
         \/ \E w \in WorkerIds : Halt(w) /\ UNCHANGED poolVars
         \/ BeginToGrow \/ BeginToShrink \/ AddWorker \/ Finish \/ SchedulerDies
         \/ UNCHANGED <<job, call, gen>> /\ halted' \subseteq halted
<1>1. ASSUME NEW w \in WorkerIds, WorkerStep(w), ~(Halt(w) /\ UNCHANGED poolVars)
      PROVE  UNCHANGED <<job, call, gen>> /\ halted' \subseteq halted
  BY <1>1 DEF WorkerStep, InitReturns, InitRaises, ProcessDies, IsGivenUp, IsRestarted,
              StartsOver, terminationVars, poolVars
<1>2. ASSUME NEW c \in Clients, Callers(c)
      PROVE  UNCHANGED <<job, call, gen, halted>>
  BY <1>2 DEF Callers, Accept, Relay, Reject, FindNoScheduler, GiveUp, rayVars, terminationVars
<1>3. CASE ReportStatus \/ SchedulerIsGivenUp \/ ScalerDies \/ ScalerIsGivenUp \/ UNCHANGED vars
  BY <1>3 DEF ReportStatus, SchedulerIsGivenUp, ScalerDies, ScalerIsGivenUp, ProcessDies,
              IsGivenUp, vars, rayVars, terminationVars, poolVars
<1> QED
  BY <1>1, <1>2, <1>3 DEF Next, SchedulerStep, Callers

\* A call that is going to remove workers has just these to terminate.
LEMMA Shrinking ==
  ASSUME BeginToShrink
  PROVE  \E rem : /\ call'.step = "remove" /\ call'.ids = rem
                  /\ job' = [job EXCEPT ![Scheduler] = Terminate(rem)]
<1> DEFINE r == request[Head(inbox)]
           n == Clamp(r.amount)
<1>1. PICK rem \in Removals(Listed, n, r.delete, r.keep) :
        /\ call' = [client |-> Head(inbox), step |-> "remove", target |-> n, ids |-> rem]
        /\ job' = [job EXCEPT ![Scheduler] = Terminate(rem)]
  BY DEF BeginToShrink
<1>2. call'.step = "remove" /\ call'.ids = rem
  BY <1>1
<1> QED
  BY <1>1, <1>2

\* The scheduler actor keeps to what its call is about.
LEMMA ScopeStep == TypeOK /\ JobInScope /\ [Next]_vars => JobInScope'
<1> SUFFICES ASSUME TypeOK, JobInScope, [Next]_vars PROVE JobInScope'
  OBVIOUS
<1>0. job \in [Terminators -> Jobs] /\ Scheduler \in Terminators
  BY TerminatorsAssumption DEF TypeOK, TerminationTypeOK
<1>1. CASE Removing
  BY <1>1, RemovingStep
<1>2. CASE \E w \in WorkerIds : Halt(w) /\ UNCHANGED poolVars
  BY <1>2, HaltStep
<1>3. CASE BeginToGrow
  <2>1. call = NoCall /\ call'.step = "add" /\ job' = job
    BY <1>3 DEF BeginToGrow, Serves, Between, terminationVars
  <2> QED BY <2>1 DEF JobInScope, NoCall
<1>4. CASE BeginToShrink
  <2>1. PICK rem : /\ call'.step = "remove" /\ call'.ids = rem
                   /\ job' = [job EXCEPT ![Scheduler] = Terminate(rem)]
    BY <1>4, Shrinking
  <2>2. /\ job'[Scheduler] = [phase |-> "resolve", names |-> rem, handles |-> {}, asked |-> {}]
        /\ \A p \in Terminators \ {Scheduler} : job'[p] = job[p]
    BY <1>0, <2>1 DEF Terminate, NoJob
  <2> QED BY <2>1, <2>2 DEF JobInScope
<1>5. CASE AddWorker
  <2>1. call.step = "add" /\ call'.step # "remove" /\ job' = job
    BY <1>5 DEF AddWorker, StartsOver, terminationVars, NoCall, TypeOK, PoolTypeOK,
                Calls
  <2> QED BY <2>1 DEF JobInScope
<1>6. CASE Finish \/ SchedulerDies
  <2>1. call' = NoCall /\ job' = [job EXCEPT ![Scheduler] = NoJob]
    BY <1>6 DEF Finish, SchedulerDies
  <2>2. /\ job'[Scheduler] = NoJob
        /\ \A p \in Terminators \ {Scheduler} : job'[p] = job[p]
    BY <1>0, <2>1
  <2> QED BY <2>1, <2>2 DEF JobInScope, NoCall, NoJob
<1>7. CASE UNCHANGED <<job, call, gen>>
  BY <1>7 DEF JobInScope
<1> QED
  BY <1>1, <1>2, <1>3, <1>4, <1>5, <1>6, <1>7, JobStep

\* No worker to be removed is lost sight of.
LEMMA GoneStep ==
  TypeOK /\ CallersBusy /\ JobInScope /\ RemovedAreGone /\ [Next]_vars => RemovedAreGone'
<1> SUFFICES ASSUME TypeOK, CallersBusy, JobInScope, RemovedAreGone, [Next]_vars
             PROVE  RemovedAreGone'
  OBVIOUS
<1>0. job \in [Terminators -> Jobs] /\ Scheduler \in Terminators
  BY TerminatorsAssumption DEF TypeOK, TerminationTypeOK
<1>1. CASE Removing
  <2>0. call' = call
    BY <1>1, RemovingStep DEF poolVars
  <2>1. JobMoves(Scheduler) /\ call.step = "remove"
    BY <1>1, RemovingStep
  <2>2. Listed' \subseteq Listed /\ gen' = gen
    BY <2>1, Leaving DEF AddWorker
  <2>3. ASSUME NEW w \in call.ids \cap Listed'
        PROVE  w \in job'[Scheduler].names \/ Handle(w) \in job'[Scheduler].handles
    <3>1. w \in Listed /\ Registered(w) /\ status'[w] # "dead"
      BY <2>2, <2>3 DEF Listed, Registered
    <3>2. w \in job[Scheduler].names \/ Handle(w) \in job[Scheduler].handles
      BY <2>1, <2>3, <3>1 DEF RemovedAreGone
    <3>3. Resolves(Handle(w)) /\ Handle(w)[1] = w
      BY <3>1 DEF Resolves, Handle
    <3> QED BY <2>1, <3>1, <3>2, <3>3 DEF JobMoves
  <2>4. \A w : Handle(w)' = Handle(w)
    BY <2>2 DEF Handle
  <2> QED BY <2>0, <2>3, <2>4 DEF RemovedAreGone
<1>2. CASE \E w \in WorkerIds : Halt(w) /\ UNCHANGED poolVars
  <2>1. /\ job'[Scheduler].handles = job[Scheduler].handles
        /\ job'[Scheduler].names = job[Scheduler].names
    BY <1>2, HaltStep
  <2>2. call' = call /\ Listed' = Listed /\ \A w : Handle(w)' = Handle(w)
    BY <1>2 DEF Halt, rayVars, poolVars, Listed, Registered, Handle
  <2> QED BY <2>1, <2>2 DEF RemovedAreGone
<1>3. CASE BeginToShrink
  <2>1. PICK rem : /\ call'.ids = rem
                   /\ job' = [job EXCEPT ![Scheduler] = Terminate(rem)]
    BY <1>3, Shrinking
  <2>2. job'[Scheduler].names = rem
    BY <1>0, <2>1 DEF Terminate, NoJob
  <2> QED BY <2>1, <2>2 DEF RemovedAreGone
<1>4. CASE BeginToGrow \/ AddWorker \/ Finish \/ SchedulerDies
  <2>1. call'.step # "remove"
    BY <1>4 DEF BeginToGrow, AddWorker, Finish, SchedulerDies, NoCall, TypeOK,
                PoolTypeOK, Calls
  <2> QED BY <2>1 DEF RemovedAreGone
<1>5. CASE UNCHANGED <<job, call, gen>> /\ ~AddWorker
  <2>1. Listed' \subseteq Listed /\ \A w : Handle(w)' = Handle(w)
    BY <1>5, Leaving DEF Handle
  <2> QED BY <1>5, <2>1 DEF RemovedAreGone
<1> QED
  BY <1>1, <1>2, <1>3, <1>4, <1>5, JobStep

\* No call turns against the workers it is to keep.
LEMMA SparesStep ==
  TypeOK /\ CallersBusy /\ RemovalSpares /\ [Next]_vars => RemovalSpares'
<1> SUFFICES ASSUME TypeOK, CallersBusy, RemovalSpares, [Next]_vars PROVE RemovalSpares'
  OBVIOUS
<1>1. CASE BeginToShrink
  <2> DEFINE r == request[Head(inbox)]
             n == Clamp(r.amount)
  <2>1. PICK rem \in Removals(Listed, n, r.delete, r.keep) :
          call' = [client |-> Head(inbox), step |-> "remove", target |-> n, ids |-> rem]
    BY <1>1 DEF BeginToShrink
  <2>2. n \in Nat
    BY <1>1, ServedAmount, ClampBounds DEF BeginToShrink
  <2>3. request' = request
    BY <1>1 DEF BeginToShrink
  <2>4. CASE n = 0
    BY <2>1, <2>4 DEF RemovalSpares
  <2>5. CASE n # 0
    <3> HIDE DEF n, r
    <3>1. rem \in Removals(Listed, n, r.delete, r.keep) /\ n \in Nat \ {0}
      BY <2>1, <2>2, <2>5
    <3>2. rem \cap (r.keep \ r.delete) = {}
      BY <3>1, KeptSpared
    <3> QED BY <2>1, <2>3, <3>2 DEF RemovalSpares, r
  <2> QED BY <2>4, <2>5
<1>2. CASE BeginToGrow \/ AddWorker \/ call' = NoCall
  <2>1. call'.step # "remove"
    BY <1>2 DEF BeginToGrow, AddWorker, NoCall, TypeOK, PoolTypeOK, Calls
  <2> QED BY <2>1 DEF RemovalSpares
<1>3. CASE call' = call /\ request'[call.client] = request[call.client]
  BY <1>3 DEF RemovalSpares
<1> QED
  BY <1>1, <1>2, <1>3, CallStep

\* The scheduler actor of the cluster does not come back to life.
LEMMA SchedulerStaysDown ==
  ASSUME TypeOK, [Next]_vars, status'[Scheduler] = "alive"
  PROVE  status[Scheduler] = "alive"
<1>0. status \in [Names -> Status] /\ Scheduler \in Names
      /\ \A w \in WorkerIds : w \in Names /\ w # Scheduler
  BY ActorsAssumption DEF TypeOK, RayTypeOK, Names
<1>1. ASSUME NEW w \in WorkerIds, WorkerStep(w) \/ Create(w)
      PROVE  status'[Scheduler] = status[Scheduler]
  BY <1>0, <1>1 DEF WorkerStep, Halt, InitReturns, InitRaises, ProcessDies, IsGivenUp,
                    IsRestarted, Create, rayVars
<1>2. CASE Removing
  BY <1>2 DEF Removing
<1>3. CASE SchedulerDies \/ SchedulerIsGivenUp \/ ScalerDies \/ ScalerIsGivenUp
  BY <1>0, <1>3, ActorsAssumption
     DEF SchedulerDies, SchedulerIsGivenUp, ScalerDies, ScalerIsGivenUp, ProcessDies, IsGivenUp
<1>4. ASSUME NEW c \in Clients, Callers(c)
      PROVE  status' = status
  BY <1>4 DEF Callers, Accept, Relay, Reject, FindNoScheduler, GiveUp, rayVars
<1>5. CASE \/ ReportStatus \/ BeginToGrow \/ BeginToShrink \/ Finish
           \/ UNCHANGED vars
  BY <1>5 DEF ReportStatus, BeginToGrow, BeginToShrink, Finish, vars, rayVars
<1>6. CASE AddWorker
  BY <1>1, <1>6 DEF AddWorker
<1> QED
  BY <1>1, <1>2, <1>3, <1>4, <1>5, <1>6 DEF Next, SchedulerStep, Callers

\* Nobody but the scheduler actor makes a worker stop, and it goes on to kill it.
LEMMA DoomedStep ==
  TypeOK /\ JobInScope /\ RemovedAreGone /\ HaltedIsDoomed /\ [Next]_vars => HaltedIsDoomed'
<1> SUFFICES ASSUME TypeOK, JobInScope, HaltedIsDoomed, [Next]_vars,
                    status'[Scheduler] = "alive",
                    NEW w \in WorkerIds, w \in halted' \cap Listed'
             PROVE  Handle(w)' \in job'[Scheduler].handles
  BY DEF HaltedIsDoomed, Listed
<1>0. /\ job \in [Terminators -> Jobs] /\ Scheduler \in Terminators
      /\ gen \in [Names -> Nat] /\ status \in [Names -> Status]
      /\ WorkerIds \subseteq Names
  BY TerminatorsAssumption DEF TypeOK, TerminationTypeOK, RayTypeOK, Names
<1>1. w \in halted \cap Listed => Handle(w) \in job[Scheduler].handles
  BY SchedulerStaysDown DEF HaltedIsDoomed
<1>2. CASE Removing
  <2>1. halted' = halted /\ JobMoves(Scheduler) /\ call.step = "remove"
    BY <1>2, RemovingStep
  <2>2. Listed' \subseteq Listed /\ gen' = gen
    BY <2>1, Leaving DEF AddWorker
  <2>3. w \in Listed /\ Registered(w) /\ status'[w] # "dead"
    BY <2>2 DEF Listed, Registered
  <2>4. Resolves(Handle(w)) /\ Handle(w)[1] = w /\ Handle(w)' = Handle(w)
    BY <2>2, <2>3 DEF Resolves, Handle
  <2> QED BY <1>1, <2>1, <2>3, <2>4 DEF JobMoves
<1>3. ASSUME NEW v \in WorkerIds, Halt(v) /\ UNCHANGED poolVars
      PROVE  Handle(w)' \in job'[Scheduler].handles
  <2>1. /\ Handle(v) \in job[Scheduler].handles
        /\ job'[Scheduler].handles = job[Scheduler].handles
    BY <1>3, HaltStep
  <2>2. Listed' = Listed /\ Handle(w)' = Handle(w) /\ halted' = halted \cup {v}
    BY <1>3 DEF Halt, rayVars, Listed, Registered, Handle
  <2> QED BY <1>1, <2>1, <2>2
<1>4. CASE BeginToGrow
  BY <1>1, <1>4 DEF BeginToGrow, rayVars, terminationVars, Listed, Registered, Handle
<1>5. CASE BeginToShrink \/ (Finish /\ call.step = "add")
  <2>1. call.step # "remove" /\ halted' = halted /\ Listed' = Listed
    BY <1>5 DEF BeginToShrink, Finish, Serves, Between, NoCall, rayVars, Listed, Registered
  <2> QED BY <1>1, <2>1 DEF JobInScope, NoJob
<1>6. CASE Finish /\ call.step # "add"
  <2>1. job[Scheduler].handles = {} /\ halted' = halted /\ Listed' = Listed
    BY <1>6 DEF Finish, Terminated, rayVars, Listed, Registered
  <2> QED BY <1>1, <2>1
<1>7. CASE AddWorker
  <2>1. PICK v \in WorkerIds : Create(v) /\ halted' = halted \ {v} /\ job' = job
    BY <1>7 DEF AddWorker, StartsOver
  <2>2. w # v
    BY <2>1
  <2>3. Handle(w)' = Handle(w) /\ (w \in Listed' => w \in Listed)
    BY <1>0, <2>1, <2>2 DEF Create, Handle, Listed, Registered
  <2> QED BY <1>1, <2>1, <2>3
<1>9. CASE SchedulerDies
  BY <1>0, <1>9 DEF SchedulerDies, ProcessDies, Names
<1>10. CASE UNCHANGED <<job, call, gen>> /\ halted' \subseteq halted /\ ~AddWorker
  <2>1. Listed' \subseteq Listed /\ Handle(w)' = Handle(w)
    BY <1>10, Leaving DEF Handle
  <2> QED BY <1>1, <1>10, <2>1
<1> QED
  BY <1>2, <1>3, <1>4, <1>5, <1>6, <1>7, <1>9, <1>10, JobStep

------------------------------------------------------------------------------
(* The theorems. *)

\* The pool as it is started.
LEMMA PoolInit == Init => PoolInv
<1> SUFFICES ASSUME Init PROVE PoolInv
  OBVIOUS
<1>1. TypeOK
  BY TypeInit DEF Init
<1>2. Listed = 0..(NumWorkers - 1)
  BY ActorsAssumption, PoolAssumption DEF Init, InitWith, Listed, Registered, Names, WorkerIds
<1>3. Cardinality(Listed) = NumWorkers
  <2>1. NumWorkers \in Nat
    BY ActorsAssumption, PoolAssumption
  <2> QED BY <1>2, <2>1, FS_Interval
<1>4. PoolBounded
  BY <1>3, ActorsAssumption, PoolAssumption, BoundsAssumption DEF PoolBounded, Larger, NoMax
<1>5. CallersBusy /\ Sizes
  BY <1>4, PoolAssumption DEF Init, InitWith, CallersBusy, Sizes, NoCall
<1>6. JobInScope
  BY TerminatorsAssumption DEF Init, InitWith, JobInScope, NoCall, NoJob
<1>7. RemovalSpares /\ RemovedAreGone /\ HaltedIsDoomed
  BY DEF Init, InitWith, RemovalSpares, RemovedAreGone, HaltedIsDoomed, NoCall
<1> QED
  BY <1>1, <1>5, <1>6, <1>7 DEF PoolInv

\* Every step keeps the inductive invariant.
LEMMA PoolStep == PoolInv /\ [Next]_vars => PoolInv'
  BY TypeStep, CallersStep, SizesStep, ScopeStep, SparesStep, GoneStep, DoomedStep DEF PoolInv

\* The inductive invariant holds throughout.
LEMMA PoolInvariant == Spec => []PoolInv
  BY PoolInit, PoolStep, PTL DEF Spec

\* The pool stays within max_workers, or the size it was started with, for every
\* number of requests, deaths and restarts (scheduler.py:199-202, 221-239).
THEOREM StaysBounded == Spec => []PoolBounded
<1>1. PoolInv => PoolBounded
  BY DEF PoolInv, Sizes
<1> QED
  BY <1>1, PoolInvariant, PTL

\* No id picked for a new worker is ever taken before the worker is created: as long
\* as only the scheduler actor creates workers, _add_worker never collides.
THEOREM StayFresh == Spec => []FreshIds
<1>1. PoolInv => FreshIds
  BY DEF PoolInv, Sizes, FreshIds
<1> QED
  BY <1>1, PoolInvariant, PTL

\* A call that removes workers never loses sight of one before it is gone.
THEOREM RemovedGo == Spec => []RemovedAreGone
<1>1. PoolInv => RemovedAreGone
  BY DEF PoolInv
<1> QED
  BY <1>1, PoolInvariant, PTL

\* As long as the scheduler actor lives, a worker it stopped is one it will kill.
THEOREM HaltedGo == Spec => []HaltedIsDoomed
<1>1. PoolInv => HaltedIsDoomed
  BY DEF PoolInv
<1> QED
  BY <1>1, PoolInvariant, PTL

\* A worker the caller wants kept, and not deleted, survives its call unless the pool
\* is to be emptied, whatever the hints were.
THEOREM KeptAlways == Spec => KeptSurvive
<1>1. ASSUME PoolInv, NEW w \in WorkerIds, Kills(w), call.target # 0
      PROVE  w \notin request[call.client].keep \ request[call.client].delete
  <2>1. call.step = "remove"
    BY <1>1 DEF PoolInv, JobInScope, Kills, NoJob
  <2>2. Handle(w) \in job[Scheduler].handles /\ Handle(w)[1] = w
    BY <1>1 DEF Kills, Handle
  <2>3. w \in call.ids
    BY <1>1, <2>1, <2>2 DEF PoolInv, JobInScope
  <2> QED BY <1>1, <2>1, <2>3 DEF PoolInv, RemovalSpares
<1>2. PoolInv /\ [Next]_vars =>
        [\A w \in WorkerIds : Kills(w) /\ call.target # 0
           => w \notin request[call.client].keep \ request[call.client].delete]_vars
  BY <1>1
<1> QED
  BY <1>2, PoolInvariant, PTL DEF Spec, KeptSurvive

\* A call without hints leaves at most as many workers as it was asked for, whatever
\* died or timed out under it.
THEOREM DoneSized == Spec => DoneIsSized
<1>1. ASSUME PoolInv, [Next]_vars, Finishes, Hints = {}
      PROVE  Cardinality(Listed') <= call.target
  <2>0. /\ call \in Calls \cup {NoCall} /\ call # NoCall /\ call' = NoCall
        /\ status'[Scheduler] = "alive" /\ TypeOK
    BY <1>1 DEF PoolInv, TypeOK, PoolTypeOK, Finishes, NoCall
  <2>2. CASE Finish
    <3>1. Listed' = Listed
      BY <2>2 DEF Finish, rayVars, Listed, Registered
    <3>2. CASE call.step = "add" /\ call.ids = {}
      <4>1. Listed \cup call.ids = Listed
        BY <3>2
      <4> QED BY <1>1, <3>1, <3>2, <4>1 DEF PoolInv, Sizes
    <3>3. CASE call.step = "remove" /\ Terminated(Scheduler)
      <4>1. job[Scheduler].names = {} /\ job[Scheduler].handles = {}
        BY <1>1, <3>3 DEF PoolInv, JobInScope, Terminated
      <4>2. Listed \ call.ids = Listed
        BY <1>1, <3>3, <4>1 DEF PoolInv, RemovedAreGone
      <4> QED BY <1>1, <3>1, <3>3, <4>2 DEF PoolInv, Sizes
    <3> QED BY <2>2, <3>2, <3>3 DEF Finish
  <2>3. CASE SchedulerDies
    BY <2>0, <2>3 DEF SchedulerDies, ProcessDies, TypeOK, RayTypeOK, Names
  <2>4. CASE BeginToGrow \/ BeginToShrink
    BY <2>0, <2>4 DEF BeginToGrow, BeginToShrink, Serves, Between
  <2>5. CASE AddWorker
    BY <2>0, <2>5 DEF AddWorker, Calls, NoCall
  <2>6. CASE Removing
    BY <2>0, <2>6 DEF Removing, poolVars
  <2>7. CASE \E w \in WorkerIds : Halt(w) /\ UNCHANGED poolVars
    BY <2>0, <2>7 DEF poolVars
  <2>8. CASE UNCHANGED <<job, call, gen>>
    BY <2>0, <2>8
  <2> QED BY <1>1, <2>2, <2>3, <2>4, <2>5, <2>6, <2>7, <2>8, JobStep DEF PoolInv
<1>2. PoolInv /\ [Next]_vars => [Finishes /\ Hints = {} => Cardinality(Listed') <= call.target]_vars
  BY <1>1
<1> QED
  BY <1>2, PoolInvariant, PTL DEF Spec, DoneIsSized
==============================================================================
