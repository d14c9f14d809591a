----------------------------- MODULE PoolTheorems -----------------------------
(***************************************************************************)
(* WorkerPool implements PoolSpec, and a pool that nothing happened to has *)
(* the size it was last asked to have.                                     *)
(***************************************************************************)
EXTENDS WorkerPoolProofs

\* How a call of the scheduler actor looks from outside.
Change(c) == IF c = NoCall THEN {}
             ELSE {[target |-> c.target,
                    fresh  |-> IF c.step = "add" THEN c.ids ELSE {},
                    doomed |-> IF c.step = "remove" THEN c.ids ELSE {}]}

Sick == {w \in WorkerIds : status[w] = "zombie"}

\* Both modules count alike.
LEMMA SameCount == \A S : Pool!Cardinality(S) = Cardinality(S)
  BY DEF Pool!Cardinality, Cardinality

\* What a user of the pool sees is determined by four variables.
LEMMA Unseen ==
  UNCHANGED <<rayVars, call, desired>> => UNCHANGED Pool!vars
  BY DEF rayVars, Pool!vars, Listed, Registered

\* The pool as it is started is one that PoolSpec starts with.
LEMMA StartsAsPool == Init => Pool!Init
<1> SUFFICES ASSUME Init PROVE Pool!Init
  OBVIOUS
<1>1. Listed = 0..(NumWorkers - 1)
  BY ActorsAssumption, PoolAssumption DEF Init, InitWith, Listed, Registered, Names, WorkerIds
<1>2. Sick = {}
  BY DEF Init, InitWith, Sick, Names
<1>3. status[Scheduler] = "alive" /\ call = NoCall /\ desired = NumWorkers /\ faults = 0
  BY DEF Init, InitWith, Names
<1> QED
  BY <1>1, <1>2, <1>3 DEF Pool!Init, Sick

\* Steps of the registry about one worker are a failure, a recovery or a loss of it.
LEMMA WorkerSeen ==
  ASSUME TypeOK, NEW w \in WorkerIds, WorkerStep(w)
  PROVE  [Pool!Next]_Pool!vars
<1>0. /\ status \in [Names -> Status] /\ w \in Names /\ Scheduler \in Names
      /\ w # Scheduler /\ WorkerIds \subseteq Names
  BY ActorsAssumption DEF TypeOK, RayTypeOK, Names
<1>1. CASE Halt(w) /\ UNCHANGED poolVars
  BY <1>1, Unseen DEF Halt, poolVars
<1>2. CASE ProcessDies(w) /\ UNCHANGED poolVars
  <2>1. /\ status' = [status EXCEPT ![w] = "zombie"] /\ faults' = faults + 1
        /\ status[w] \in {"pending", "alive", "restarting"}
    BY <1>2 DEF ProcessDies
  <2>2. w \in Listed /\ Listed' = Listed /\ Sick' = Sick \cup {w}
    BY <1>0, <2>1 DEF Listed, Registered, Sick
  <2>3. status'[Scheduler] = status[Scheduler] /\ UNCHANGED <<call, desired>>
    BY <1>0, <1>2, <2>1 DEF poolVars
  <2>4. Pool!Fail(w)
    BY <2>1, <2>2, <2>3 DEF Pool!Fail, Sick
  <2> QED BY <2>4 DEF Pool!Next
<1>3. CASE InitRaises(w) /\ UNCHANGED poolVars
  <2>1. /\ status' = [status EXCEPT ![w] = "dead"] /\ faults' = faults + 1
        /\ status[w] \in {"pending", "restarting"}
    BY <1>3 DEF InitRaises
  <2>2. w \in Listed /\ Listed' = Listed \ {w} /\ Sick' = Sick \ {w}
    BY <1>0, <2>1 DEF Listed, Registered, Sick
  <2>3. status'[Scheduler] = status[Scheduler] /\ UNCHANGED <<call, desired>>
    BY <1>0, <1>3, <2>1 DEF poolVars
  <2>4. Pool!Fail(w)
    BY <2>1, <2>2, <2>3 DEF Pool!Fail, Sick
  <2> QED BY <2>4 DEF Pool!Next
<1>4. CASE InitReturns(w) /\ UNCHANGED poolVars
  <2>1. /\ status' = [status EXCEPT ![w] = "alive"] /\ faults' = faults
        /\ status[w] \in {"pending", "restarting"}
    BY <1>4 DEF InitReturns
  <2>2. Listed' = Listed /\ Sick' = Sick
    BY <1>0, <2>1 DEF Listed, Registered, Sick
  <2>3. status'[Scheduler] = status[Scheduler] /\ UNCHANGED <<call, desired>>
    BY <1>0, <1>4, <2>1 DEF poolVars
  <2> QED BY <2>1, <2>2, <2>3 DEF Pool!vars, Sick
<1>5. CASE IsRestarted(w) /\ UNCHANGED poolVars
  <2>1. /\ status' = [status EXCEPT ![w] = "restarting"] /\ faults' = faults
        /\ status[w] = "zombie"
    BY <1>5 DEF IsRestarted
  <2>2. w \in Sick /\ Listed' = Listed /\ Sick' = Sick \ {w}
    BY <1>0, <2>1 DEF Listed, Registered, Sick
  <2>3. status'[Scheduler] = status[Scheduler] /\ UNCHANGED <<call, desired>>
    BY <1>0, <1>5, <2>1 DEF poolVars
  <2>4. Pool!Recover(w)
    BY <2>1, <2>2, <2>3 DEF Pool!Recover, Sick
  <2> QED BY <2>4 DEF Pool!Next
<1>6. CASE IsGivenUp(w) /\ UNCHANGED poolVars
  <2>1. /\ status' = [status EXCEPT ![w] = "dead"] /\ faults' = faults
        /\ status[w] = "zombie"
    BY <1>6 DEF IsGivenUp
  <2>2. w \in Sick /\ Listed' = Listed \ {w} /\ Sick' = Sick \ {w}
    BY <1>0, <2>1 DEF Listed, Registered, Sick
  <2>3. status'[Scheduler] = status[Scheduler] /\ UNCHANGED <<call, desired>>
    BY <1>0, <1>6, <2>1 DEF poolVars
  <2>4. Pool!Lose(w)
    BY <2>1, <2>2, <2>3 DEF Pool!Lose, Sick
  <2> QED BY <2>4 DEF Pool!Next
<1> QED
  BY <1>1, <1>2, <1>3, <1>4, <1>5, <1>6 DEF WorkerStep

\* A scheduler actor that is not there carries out nothing.
KeeperAtWork == status[Scheduler] # "alive" => call = NoCall

\* It stays that way, because nobody restarts it.
LEMMA KeeperStep == PoolInv /\ KeeperAtWork /\ [Next]_vars => KeeperAtWork'
<1> SUFFICES ASSUME PoolInv, KeeperAtWork, [Next]_vars, status'[Scheduler] # "alive"
             PROVE  call' = NoCall
  BY DEF KeeperAtWork
<1>0. /\ status \in [Names -> Status] /\ Scheduler \in Names
      /\ \A n \in WorkerIds \cup {Scaler} : n \in Names /\ n # Scheduler
      /\ TypeOK /\ JobInScope
  BY ActorsAssumption DEF PoolInv, TypeOK, RayTypeOK, Names
<1>1. ASSUME NEW w \in WorkerIds, WorkerStep(w)
      PROVE  status'[Scheduler] = status[Scheduler] /\ call' = call
  BY <1>0, <1>1 DEF WorkerStep, Halt, InitReturns, InitRaises, ProcessDies, IsGivenUp,
                    IsRestarted, rayVars, poolVars
<1>2. CASE SchedulerStep
  <2>1. status[Scheduler] = "alive"
    BY <1>2 DEF SchedulerStep, ReportStatus, BeginToGrow, BeginToShrink, Serves, Between,
                AddWorker, Finish, Removing
  <2>2. CASE ReportStatus \/ BeginToGrow \/ BeginToShrink \/ Finish
    BY <2>1, <2>2 DEF ReportStatus, BeginToGrow, BeginToShrink, Finish, rayVars
  <2>3. CASE AddWorker
    <3>1. PICK w \in WorkerIds : Create(w)
      BY <2>3 DEF AddWorker
    <3> QED BY <1>0, <2>1, <3>1 DEF Create
  <2>4. CASE Removing
    <3>1. CASE KillNext(Scheduler)
      <4>1. PICK h \in job[Scheduler].handles : Kill(h)
        BY <3>1 DEF KillNext
      <4>2. h[1] \in call.ids /\ call.ids \subseteq WorkerIds
        BY <1>0, <2>4, <4>1, RemovingStep DEF JobInScope, TypeOK, PoolTypeOK, Calls, NoCall
      <4> QED BY <1>0, <2>1, <4>1, <4>2 DEF Kill
    <3> QED BY <2>1, <2>4, <3>1 DEF Removing, ResolveName, AskToStop, AllStopped, StopGivesUp, rayVars
  <2> QED BY <1>2, <2>2, <2>3, <2>4 DEF SchedulerStep
<1>3. CASE SchedulerDies
  BY <1>3 DEF SchedulerDies
<1>4. CASE SchedulerIsGivenUp \/ ScalerDies \/ ScalerIsGivenUp
  BY <1>0, <1>4 DEF SchedulerIsGivenUp, ScalerDies, ScalerIsGivenUp, ProcessDies, IsGivenUp,
                    KeeperAtWork, poolVars
<1>5. ASSUME NEW c \in Clients, Callers(c) PROVE status' = status /\ call' = call
  BY <1>5 DEF Callers, Accept, Reject, Relay, FindNoScheduler, GiveUp, rayVars
<1>6. CASE UNCHANGED vars
  BY <1>6 DEF vars, rayVars, poolVars, KeeperAtWork
<1> QED
  BY <1>1, <1>2, <1>3, <1>4, <1>5, <1>6 DEF Next, Callers, KeeperAtWork

\* The failures of scheduler and scaler.
LEMMA OthersSeen ==
  ASSUME TypeOK, KeeperAtWork,
         SchedulerDies \/ SchedulerIsGivenUp \/ ScalerDies \/ ScalerIsGivenUp
  PROVE  [Pool!Next]_Pool!vars
<1>0. /\ status \in [Names -> Status] /\ Scheduler \in Names /\ Scaler \in Names
      /\ Scheduler # Scaler /\ WorkerIds \subseteq Names
      /\ Scheduler \notin WorkerIds /\ Scaler \notin WorkerIds
  BY ActorsAssumption DEF TypeOK, RayTypeOK, Names
<1>1. PICK n \in {Scheduler, Scaler}, s \in Status :
        /\ status' = [status EXCEPT ![n] = s]
        /\ ProcessDies(n) \/ IsGivenUp(n)
  BY DEF SchedulerDies, SchedulerIsGivenUp, ScalerDies, ScalerIsGivenUp, ProcessDies,
         IsGivenUp, Status
<1>2. Listed' = Listed /\ Sick' = Sick
  BY <1>0, <1>1 DEF Listed, Registered, Sick
<1>3. CASE SchedulerDies
  <2>1. /\ faults' = faults + 1 /\ desired' = desired /\ call' = NoCall
        /\ status[Scheduler] \in {"pending", "alive", "restarting"}
        /\ status'[Scheduler] = "zombie"
    BY <1>0, <1>3 DEF SchedulerDies, ProcessDies
  <2>2. CASE status[Scheduler] = "alive"
    <3>1. Pool!KeeperFails
      BY <1>2, <2>1, <2>2 DEF Pool!KeeperFails, Sick
    <3> QED BY <3>1 DEF Pool!Next
  <2>3. CASE status[Scheduler] # "alive"
    <3>1. Pool!OthersFail
      BY <1>2, <2>1, <2>3 DEF Pool!OthersFail, Sick, KeeperAtWork
    <3> QED BY <3>1 DEF Pool!Next
  <2> QED BY <2>2, <2>3
<1>4. CASE ScalerDies
  <2>1. /\ faults' = faults + 1 /\ UNCHANGED <<desired, call>>
        /\ status'[Scheduler] = status[Scheduler]
    BY <1>0, <1>4 DEF ScalerDies, ProcessDies
  <2>2. Pool!OthersFail
    BY <1>2, <2>1 DEF Pool!OthersFail, Sick
  <2> QED BY <2>2 DEF Pool!Next
<1>5. CASE SchedulerIsGivenUp \/ ScalerIsGivenUp
  <2>1. /\ UNCHANGED <<faults, desired, call>>
        /\ (status'[Scheduler] = "alive") <=> (status[Scheduler] = "alive")
    BY <1>0, <1>5 DEF SchedulerIsGivenUp, ScalerIsGivenUp, IsGivenUp, poolVars
  <2> QED BY <1>2, <2>1 DEF Pool!vars, Sick
<1> QED
  BY <1>3, <1>4, <1>5

\* The steps of the scheduler actor begin a change, carry it out and end it.
LEMMA KeeperSeen ==
  ASSUME PoolInv, SchedulerStep
  PROVE  [Pool!Next]_Pool!vars
<1>0. /\ status \in [Names -> Status] /\ Scheduler \in Names
      /\ Scheduler \notin WorkerIds /\ WorkerIds \subseteq Names
      /\ TypeOK /\ JobInScope /\ Sizes /\ RemovedAreGone
      /\ Listed \subseteq WorkerIds
      /\ call \in Calls \cup {NoCall} /\ call.ids \subseteq WorkerIds
      /\ MaxWorkers \in Int /\ MinWorkers \in Int
  BY ActorsAssumption, BoundsAssumption
     DEF PoolInv, TypeOK, RayTypeOK, PoolTypeOK, Names, Listed, Calls, NoCall, NoMax
<1>a. status[Scheduler] = "alive"
  BY DEF SchedulerStep, ReportStatus, BeginToGrow, BeginToShrink, Serves, Between,
         AddWorker, Finish, Removing
<1>b. UNCHANGED rayVars => Listed' = Listed /\ Sick' = Sick /\ status' = status /\ faults' = faults
  BY DEF rayVars, Listed, Registered, Sick
<1>1. CASE ReportStatus
  BY <1>1, Unseen DEF ReportStatus
<1>2. CASE BeginToGrow
  <2> DEFINE n     == Clamp(request[Head(inbox)].amount)
             fresh == NewIds(Listed, n)
  <2>1. /\ call = NoCall /\ Cardinality(Listed) <= n /\ fresh \subseteq WorkerIds
        /\ call' = [client |-> Head(inbox), step |-> "add", target |-> n, ids |-> fresh]
        /\ UNCHANGED rayVars /\ desired' = desired
    BY <1>2 DEF BeginToGrow, Serves, Between
  <2>2. n \in Nat /\ Pool!InRange(n)
    BY <1>2, ServedAmount, ClampBounds, ClampInRange, <1>0 DEF BeginToGrow, Pool!InRange
  <2> HIDE DEF n
  <2>3. fresh \cap Listed = {} /\ Cardinality(Listed \cup fresh) = n
    BY <1>0, <2>1, <2>2, ActorsAssumption, NewIdsFresh, NewIdsFit DEF WorkerIds
  <2> HIDE DEF fresh
  <2>4. Change(call) = {} /\ Change(call') = {[target |-> n, fresh |-> fresh, doomed |-> {}]}
    <3>1. /\ call'.step = "add" /\ call' # NoCall
          /\ call'.target = n /\ call'.ids = fresh
      BY <2>1 DEF NoCall
    <3> QED BY <2>1, <3>1 DEF Change
  <2>5. Pool!BeginToGrow(fresh)
    BY <1>a, <1>b, <2>1, <2>2, <2>3, <2>4, SameCount DEF Pool!BeginToGrow, Sick, Change
  <2>6. fresh \in SUBSET (WorkerIds \ Listed)
    BY <2>1, <2>3
  <2> QED BY <2>5, <2>6 DEF Pool!Next
<1>3. CASE BeginToShrink
  <2> DEFINE r == request[Head(inbox)]
             n == Clamp(r.amount)
  <2>1. PICK rem \in Removals(Listed, n, r.delete, r.keep) :
          call' = [client |-> Head(inbox), step |-> "remove", target |-> n, ids |-> rem]
    BY <1>3 DEF BeginToShrink
  <2>2. call = NoCall /\ Cardinality(Listed) > n /\ UNCHANGED rayVars /\ desired' = desired
    BY <1>3 DEF BeginToShrink, Serves, Between
  <2>3. n \in Nat /\ Pool!InRange(n)
    BY <1>3, ServedAmount, ClampBounds, ClampInRange, <1>0 DEF BeginToShrink, Pool!InRange
  <2>4. rem \subseteq Listed /\ (n = 0 => rem = Listed)
    BY DEF Removals
  <2> HIDE DEF n, r
  <2>5. Change(call) = {} /\ Change(call') = {[target |-> n, fresh |-> {}, doomed |-> rem]}
    <3>1. /\ call'.step = "remove" /\ call' # NoCall
          /\ call'.target = n /\ call'.ids = rem
      BY <2>1 DEF NoCall
    <3> QED BY <2>2, <3>1 DEF Change
  <2>6. Pool!BeginToShrink(n, rem)
    <3>1. Cardinality(Listed) \in Nat /\ n < Cardinality(Listed)
      BY <1>0, <2>2, <2>3, Parts
    <3> QED BY <3>1, <1>a, <1>b, <2>2, <2>3, <2>4, <2>5, SameCount DEF Pool!BeginToShrink, Sick, Change
  <2>7. n \in 0..Cardinality(Listed)
    BY <1>0, <2>2, <2>3, Parts
  <2> QED BY <2>4, <2>6, <2>7, SameCount DEF Pool!Next
<1>4. CASE AddWorker
  <2>1. PICK w \in call.ids : /\ Create(w)
                              /\ call' = [call EXCEPT !.ids = @ \ {w}]
    BY <1>4 DEF AddWorker, IsNext
  <2>2. /\ w \in WorkerIds /\ w \in Names /\ w # Scheduler
        /\ status' = [status EXCEPT ![w] = "pending"] /\ faults' = faults /\ desired' = desired
        /\ w \notin Listed
    BY <1>0, <1>4, <2>1 DEF AddWorker, Create, Listed, Registered
  <2>3. Listed' = Listed \cup {w} /\ Sick' = Sick /\ status'[Scheduler] = status[Scheduler]
    BY <1>0, <2>2 DEF Listed, Registered, Sick
  <2>4. call.step = "add" /\ call \in Calls
    BY <1>0, <1>4 DEF AddWorker, NoCall
  <2>5. /\ call' # NoCall /\ call'.step = "add"
        /\ call'.ids = call.ids \ {w} /\ call'.target = call.target
    BY <2>1, <2>4 DEF Calls, NoCall
  <2> DEFINE c == [target |-> call.target, fresh |-> call.ids, doomed |-> {}]
  <2>6. Change(call) = {c} /\ Change(call') = {[c EXCEPT !.fresh = @ \ {w}]}
    BY <2>4, <2>5 DEF Change, NoCall, Calls
  <2>7. w \in c.fresh
    BY <2>1
  <2> HIDE DEF c
  <2>8. Pool!Add(w)
    BY <1>a, <2>2, <2>3, <2>6, <2>7 DEF Pool!Add, Sick, Change
  <2> QED BY <2>2, <2>8 DEF Pool!Next
<1>5. CASE Finish
  <2>1. /\ call # NoCall /\ call' = NoCall /\ desired' = call.target /\ UNCHANGED rayVars
        /\ \/ call.step = "add" /\ call.ids = {}
           \/ call.step = "remove" /\ Terminated(Scheduler)
    BY <1>5 DEF Finish, NoCall
  <2>2. call.step = "remove" => call.ids \cap Listed = {}
    BY <1>0, <2>1 DEF JobInScope, RemovedAreGone, Terminated
  <2> DEFINE c == [target |-> call.target,
                   fresh  |-> IF call.step = "add" THEN call.ids ELSE {},
                   doomed |-> IF call.step = "remove" THEN call.ids ELSE {}]
  <2>3. Change(call) = {c} /\ Change(call') = {}
    BY <2>1 DEF Change
  <2>4. c.fresh = {} /\ c.doomed \cap Listed = {} /\ c.target = call.target
    BY <2>1, <2>2
  <2> HIDE DEF c
  <2>5. Pool!End
    BY <1>a, <1>b, <2>1, <2>3, <2>4 DEF Pool!End, Sick, Change
  <2> QED BY <2>5 DEF Pool!Next
<1>6. CASE Removing
  <2>1. call.step = "remove" /\ UNCHANGED poolVars /\ JobInScope'
    BY <1>0, <1>6, RemovingStep
  <2>2. CASE UNCHANGED rayVars
    BY <2>1, <2>2, Unseen DEF poolVars
  <2>3. CASE KillNext(Scheduler)
    <3>1. PICK h \in job[Scheduler].handles : Kill(h)
      BY <2>3 DEF KillNext
    <3>2. h[1] \in call.ids /\ h[1] \in WorkerIds
      BY <1>0, <2>1, <3>1 DEF JobInScope
    <3>3. CASE ~Resolves(h)
      BY <2>1, <3>1, <3>3, Unseen DEF Kill, rayVars, poolVars
    <3>4. CASE Resolves(h)
      <4> DEFINE w == h[1]
      <4>1. status' = [status EXCEPT ![w] = "dead"] /\ faults' = faults /\ w \in Listed
        BY <3>1, <3>2, <3>4 DEF Kill, Resolves, Listed
      <4> HIDE DEF w
      <4>2. w \in call.ids /\ w \in WorkerIds
        BY <3>2 DEF w
      <4>3. /\ Listed' = Listed \ {w} /\ Sick' = Sick \ {w}
            /\ status'[Scheduler] = status[Scheduler] /\ call' = call /\ desired' = desired
        BY <1>0, <2>1, <4>1, <4>2 DEF Listed, Registered, Sick, poolVars
      <4> DEFINE c == [target |-> call.target, fresh |-> {}, doomed |-> call.ids]
      <4>4. Change(call) = {c} /\ w \in c.doomed
        BY <2>1, <4>2 DEF Change, NoCall
      <4> HIDE DEF c
      <4>5. Pool!Remove(w)
        BY <1>a, <4>1, <4>3, <4>4 DEF Pool!Remove, Sick, Change
      <4> QED BY <4>2, <4>5 DEF Pool!Next
    <3> QED BY <3>3, <3>4
  <2> QED BY <1>6, <2>2, <2>3 DEF Removing, ResolveName, AskToStop, AllStopped, StopGivesUp
<1> QED
  BY <1>1, <1>2, <1>3, <1>4, <1>5, <1>6 DEF SchedulerStep

\* Every step of the pool is a step of PoolSpec, or none that can be seen.
LEMMA StepSeen == PoolInv /\ KeeperAtWork /\ [Next]_vars => [Pool!Next]_Pool!vars
<1> SUFFICES ASSUME PoolInv, KeeperAtWork, [Next]_vars PROVE [Pool!Next]_Pool!vars
  OBVIOUS
<1>0. TypeOK
  BY DEF PoolInv
<1>1. ASSUME NEW c \in Clients, Callers(c) PROVE UNCHANGED Pool!vars
  BY <1>1, Unseen DEF Callers, Accept, Reject, Relay, FindNoScheduler, GiveUp
<1>2. CASE UNCHANGED vars
  BY <1>2, Unseen DEF vars, poolVars
<1> QED
  BY <1>0, <1>1, <1>2, WorkerSeen, OthersSeen, KeeperSeen DEF Next, Callers

\* The pool implements its specification, for any number of workers, failures, requests
\* and bounds: the steps of a rescaling add up to one change.
THEOREM PoolImplemented == Spec => ImplementsPoolSpec
<1>1. Init => KeeperAtWork
  BY DEF Init, InitWith, KeeperAtWork
<1> QED
  BY <1>1, StartsAsPool, KeeperStep, StepSeen, PoolInit, PoolStep, PTL
     DEF Spec, ImplementsPoolSpec, Pool!Spec

------------------------------------------------------------------------------
(* The size of a pool at rest. *)

NoHints == \A c \in Clients : request[c].delete \cup request[c].keep = {}

\* As long as nothing failed and nobody hinted at a worker, the workers there are, with
\* those to come and without those to go, are just as many as the call in progress, or
\* the last one, was to leave.
Settled ==
  /\ \A c \in Clients : client[c] = "idle" => request[c] = NoRequest
  /\ faults = 0 /\ NoHints =>
       /\ \A w \in WorkerIds : status[w] # "zombie"
       /\ call = NoCall      => Cardinality(Listed) = desired
       /\ call.step = "add"    => Cardinality(Listed \cup call.ids) = call.target
       /\ call.step = "remove" => Cardinality(Listed \ call.ids) = call.target

\* The first part: only accepting a request makes it ask for something.
LEMMA IdleStep ==
  ASSUME TypeOK, [Next]_vars, \A c \in Clients : client[c] = "idle" => request[c] = NoRequest
  PROVE  \A c \in Clients : client'[c] = "idle" => request'[c] = NoRequest
<1>0. client \in [Clients -> {"idle", "accepted", "waiting", "done", "failed", "rejected"}]
  BY DEF TypeOK, PoolTypeOK
<1>1. ASSUME NEW c \in Clients, Callers(c)
      PROVE  \A d \in Clients : client'[d] = "idle" => client[d] = "idle" /\ request'[d] = request[d]
  <2>1. CASE Accept(c)
    BY <1>0, <2>1 DEF Accept, TypeOK, PoolTypeOK
  <2>2. CASE ~Accept(c)
    BY <1>0, <1>1, <2>2 DEF Callers, Reject, Relay, FindNoScheduler, GiveUp
  <2> QED BY <2>1, <2>2
<1>2. CASE SchedulerStep \/ SchedulerDies \/ SchedulerIsGivenUp \/ ScalerIsGivenUp \/ UNCHANGED vars
  BY <1>0, <1>2 DEF SchedulerStep, ReportStatus, BeginToGrow, BeginToShrink, AddWorker, Finish,
                    Answer, Removing, SchedulerDies, SchedulerIsGivenUp, ScalerIsGivenUp,
                    vars, poolVars
<1>3. CASE ScalerDies
  BY <1>0, <1>3 DEF ScalerDies, HangUp
<1>4. ASSUME NEW w \in WorkerIds, WorkerStep(w) PROVE client' = client /\ request' = request
  BY <1>4 DEF WorkerStep, poolVars
<1> QED
  BY <1>1, <1>2, <1>3, <1>4 DEF Next, Callers

\* Requests that hint at nothing did not before.
LEMMA HintsStep ==
  ASSUME TypeOK, Settled, [Next]_vars, NoHints'
  PROVE  NoHints
<1>1. ASSUME NEW c \in Clients, Accept(c) PROVE NoHints
  <2>1. \A d \in Clients \ {c} : request'[d] = request[d]
    BY <1>1 DEF Accept, TypeOK, PoolTypeOK
  <2>2. request[c] = NoRequest
    BY <1>1 DEF Accept, Settled
  <2> QED BY <2>1, <2>2 DEF NoHints, NoRequest
<1>2. CASE request' = request
  BY <1>2 DEF NoHints
<1>3. ASSUME NEW c \in Clients, Reject(c) \/ Relay(c) \/ FindNoScheduler(c) \/ GiveUp(c)
      PROVE  request' = request
  BY <1>3 DEF Reject, Relay, FindNoScheduler, GiveUp
<1>4. CASE \/ SchedulerStep \/ SchedulerDies \/ SchedulerIsGivenUp \/ ScalerDies \/ ScalerIsGivenUp
           \/ UNCHANGED vars
  BY <1>4, <1>2 DEF SchedulerStep, ReportStatus, BeginToGrow, BeginToShrink, AddWorker, Finish,
                    Removing, SchedulerDies, SchedulerIsGivenUp, ScalerDies, ScalerIsGivenUp,
                    vars, poolVars
<1>5. ASSUME NEW w \in WorkerIds, WorkerStep(w) PROVE request' = request
  BY <1>5 DEF WorkerStep, poolVars
<1> QED
  BY <1>1, <1>2, <1>3, <1>4, <1>5 DEF Next

\* The second part, action by action.
LEMMA SettledStep == PoolInv /\ Settled /\ [Next]_vars => Settled'
<1> SUFFICES ASSUME PoolInv, Settled, [Next]_vars, faults' = 0, NoHints'
             PROVE  /\ \A w \in WorkerIds : status'[w] # "zombie"
                    /\ call' = NoCall      => Cardinality(Listed') = desired'
                    /\ call'.step = "add"    => Cardinality(Listed' \cup call'.ids) = call'.target
                    /\ call'.step = "remove" => Cardinality(Listed' \ call'.ids) = call'.target
  <2>1. ASSUME PoolInv, Settled, [Next]_vars
        PROVE  \A c \in Clients : client'[c] = "idle" => request'[c] = NoRequest
    BY <2>1, IdleStep DEF PoolInv, Settled
  <2> QED BY <2>1 DEF Settled
<1>0. /\ TypeOK /\ JobInScope /\ RemovedAreGone /\ Sizes
      /\ status \in [Names -> Status] /\ faults \in Nat
      /\ Listed \subseteq WorkerIds /\ WorkerIds \subseteq Names
      /\ Scheduler \notin WorkerIds /\ Scaler \notin WorkerIds
      /\ call \in Calls \cup {NoCall} /\ call.ids \subseteq WorkerIds
  BY ActorsAssumption DEF PoolInv, TypeOK, RayTypeOK, PoolTypeOK, Names, Listed, Calls, NoCall
<1>a. NoHints
  BY <1>0, HintsStep
<1> DEFINE Fits == /\ \A w \in WorkerIds : status[w] # "zombie"
                   /\ call = NoCall      => Cardinality(Listed) = desired
                   /\ call.step = "add"    => Cardinality(Listed \cup call.ids) = call.target
                   /\ call.step = "remove" => Cardinality(Listed \ call.ids) = call.target
<1>b. faults = 0 => Fits
  BY <1>a DEF Settled
<1> HIDE DEF Fits
<1>c. UNCHANGED rayVars => Listed' = Listed /\ status' = status /\ faults = 0
  BY DEF rayVars, Listed, Registered
<1>1. ASSUME UNCHANGED <<rayVars, call, desired>> PROVE Fits'
  BY <1>1, <1>b, <1>c DEF Fits
<1>2. ASSUME NEW c \in Clients, Callers(c) PROVE UNCHANGED <<rayVars, call, desired>>
  BY <1>2 DEF Callers, Accept, Reject, Relay, FindNoScheduler, GiveUp
<1>3. CASE ReportStatus \/ UNCHANGED vars
  BY <1>1, <1>3 DEF ReportStatus, vars, poolVars, Fits
<1>4. CASE BeginToGrow
  <2> DEFINE n == Clamp(request[Head(inbox)].amount)
  <2>1. /\ Cardinality(Listed) <= n /\ UNCHANGED rayVars
        /\ call' = [client |-> Head(inbox), step |-> "add", target |-> n,
                    ids |-> NewIds(Listed, n)]
    BY <1>4 DEF BeginToGrow
  <2>2. n \in Nat
    BY <1>0, <1>4, ServedAmount, ClampBounds DEF BeginToGrow
  <2>3. Cardinality(Listed \cup NewIds(Listed, n)) = n
    BY <1>0, <2>1, <2>2, ActorsAssumption, NewIdsFit DEF WorkerIds
  <2> HIDE DEF n
  <2>4. call'.step = "add" /\ call' # NoCall /\ call'.target = n /\ call'.ids = NewIds(Listed, n)
    BY <2>1 DEF NoCall
  <2> QED BY <1>b, <1>c, <2>1, <2>3, <2>4 DEF Fits
<1>5. CASE BeginToShrink
  <2> DEFINE r == request[Head(inbox)]
             n == Clamp(r.amount)
  <2>1. PICK rem \in Removals(Listed, n, r.delete, r.keep) :
          call' = [client |-> Head(inbox), step |-> "remove", target |-> n, ids |-> rem]
    BY <1>5 DEF BeginToShrink
  <2>2. Cardinality(Listed) > n /\ UNCHANGED rayVars /\ Head(inbox) \in Clients /\ n \in Nat
    BY <1>0, <1>5, ServedAmount, ClampBounds DEF BeginToShrink
  <2>3. r.delete = {} /\ r.keep = {}
    BY <1>a, <2>2 DEF NoHints
  <2>4. rem \in Removals(Listed, n, {}, {})
    BY <2>1, <2>3
  <2> HIDE DEF n, r
  <2>5. Cardinality(Listed \ rem) = n
    BY <1>0, <2>2, <2>4, ActorsAssumption, RemovalsFit DEF WorkerIds
  <2>6. call'.step = "remove" /\ call' # NoCall /\ call'.target = n /\ call'.ids = rem
    BY <2>1 DEF NoCall
  <2> QED BY <1>b, <1>c, <2>2, <2>5, <2>6 DEF Fits
<1>6. CASE AddWorker
  <2>1. PICK w \in call.ids : Create(w) /\ call' = [call EXCEPT !.ids = @ \ {w}]
    BY <1>6 DEF AddWorker, IsNext
  <2>2. call.step = "add" /\ call \in Calls /\ w \in WorkerIds /\ w \in Names
    BY <1>0, <1>6 DEF AddWorker, NoCall
  <2>3. /\ call'.step = "add" /\ call' # NoCall /\ call'.target = call.target
        /\ call'.ids = call.ids \ {w}
    BY <2>1, <2>2 DEF Calls, NoCall
  <2>4. faults = 0 /\ Listed' = Listed \cup {w}
    BY <1>0, <2>1, <2>2 DEF Create, Listed, Registered
  <2>6. \A v \in WorkerIds : status[v] # "zombie" => status'[v] # "zombie"
    BY <1>0, <2>1, <2>2 DEF Create
  <2>5. Listed' \cup call'.ids = Listed \cup call.ids
    BY <2>1, <2>3, <2>4
  <2> QED BY <1>b, <2>2, <2>3, <2>4, <2>5, <2>6 DEF Fits, NoCall
<1>7. CASE Finish
  <2>1. /\ call' = NoCall /\ desired' = call.target /\ UNCHANGED rayVars
        /\ \/ call.step = "add" /\ call.ids = {}
           \/ call.step = "remove" /\ Terminated(Scheduler)
    BY <1>7 DEF Finish
  <2>2. call.step = "remove" => Listed \ call.ids = Listed
    BY <1>0, <2>1 DEF JobInScope, RemovedAreGone, Terminated
  <2>3. call.step = "add" => Listed \cup call.ids = Listed
    BY <2>1
  <2>4. Cardinality(Listed) = desired' /\ \A w \in WorkerIds : status[w] # "zombie"
    BY <1>b, <1>c, <2>1, <2>2, <2>3 DEF Fits
  <2> QED BY <1>c, <2>1, <2>4 DEF NoCall
<1>8. CASE Removing
  <2>1. call.step = "remove" /\ UNCHANGED poolVars
    BY <1>0, <1>8, RemovingStep
  <2>2. CASE UNCHANGED rayVars
    BY <1>1, <2>1, <2>2 DEF poolVars, Fits
  <2>3. CASE KillNext(Scheduler)
    <3>1. PICK h \in job[Scheduler].handles : Kill(h)
      BY <2>3 DEF KillNext
    <3>2. h[1] \in call.ids
      BY <1>0, <2>1, <3>1 DEF JobInScope
    <3>3. /\ faults = 0 /\ Listed' \ call.ids = Listed \ call.ids
          /\ \A w \in WorkerIds : status[w] # "zombie" => status'[w] # "zombie"
      BY <1>0, <3>1, <3>2 DEF Kill, Listed, Registered
    <3> QED BY <1>b, <2>1, <3>3 DEF Fits, poolVars, NoCall
  <2> QED BY <1>8, <2>2, <2>3 DEF Removing, ResolveName, AskToStop, AllStopped, StopGivesUp
<1>9. ASSUME NEW w \in WorkerIds, WorkerStep(w) PROVE Fits'
  <2>1. UNCHANGED poolVars /\ w \in Names
    BY <1>0, <1>9 DEF WorkerStep
  <2>2. CASE Halt(w)
    BY <1>1, <2>1, <2>2 DEF Halt, poolVars
  <2>3. CASE InitReturns(w)
    <3>1. /\ faults = 0 /\ Listed' = Listed
          /\ \A v \in WorkerIds : status[v] # "zombie" => status'[v] # "zombie"
      BY <1>0, <2>1, <2>3 DEF InitReturns, Listed, Registered
    <3> QED BY <1>b, <2>1, <3>1 DEF Fits, poolVars
  <2>4. CASE InitRaises(w) \/ ProcessDies(w)
    BY <1>0, <2>4 DEF InitRaises, ProcessDies
  <2>5. CASE IsRestarted(w) \/ IsGivenUp(w)
    BY <1>b, <2>5 DEF IsRestarted, IsGivenUp, Fits
  <2> QED BY <1>9, <2>2, <2>3, <2>4, <2>5 DEF WorkerStep
<1>10. CASE SchedulerDies \/ ScalerDies
  BY <1>0, <1>10 DEF SchedulerDies, ScalerDies, ProcessDies
<1>11. CASE SchedulerIsGivenUp \/ ScalerIsGivenUp
  <2>1. /\ faults = 0 /\ UNCHANGED poolVars /\ Listed' = Listed
        /\ \A v \in WorkerIds : status[v] # "zombie" => status'[v] # "zombie"
    BY <1>0, <1>11 DEF SchedulerIsGivenUp, ScalerIsGivenUp, IsGivenUp, Listed, Registered
  <2> QED BY <1>b, <2>1 DEF Fits, poolVars
<1> QED
  BY <1>1, <1>2, <1>3, <1>4, <1>5, <1>6, <1>7, <1>8, <1>9, <1>10, <1>11
     DEF Next, SchedulerStep, Callers, Fits

\* Between calls there are as many workers as get_scaling_status calls desired, unless
\* something failed or hints decided, however the calls were interleaved, given up or
\* timed out.
THEOREM SettlesAtDesired == Spec => []SettledSize
<1>1. Init => Settled
  <2> SUFFICES ASSUME Init PROVE Settled
    OBVIOUS
  <2>1. NumWorkers \in Nat /\ Listed = 0..(NumWorkers - 1)
    BY ActorsAssumption, PoolAssumption DEF Init, InitWith, Listed, Registered, Names, WorkerIds
  <2>2. Cardinality(Listed) = NumWorkers
    BY <2>1, FS_Interval
  <2> QED BY <2>2 DEF Init, InitWith, Settled, NoCall, Names
<1>2. Settled => SettledSize
  BY DEF Settled, SettledSize, NoHints
<1> QED
  BY <1>1, <1>2, SettledStep, PoolInit, PoolStep, PTL DEF Spec
==============================================================================
