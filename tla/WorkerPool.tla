------------------------------ MODULE WorkerPool ------------------------------
(***************************************************************************)
(* The scheduler actor as the owner of the worker pool (actors/            *)
(* scheduler.py) and the HTTP requests the scaler actor relays to it       *)
(* (actors/scaler.py).                                                     *)
(*                                                                         *)
(* The scaler serves each HTTP request in a thread of its own, which calls *)
(* the scheduler actor and waits for actor_response_timeout.  The          *)
(* scheduler actor serves one call at a time, in the order they arrived,   *)
(* and finishes what it started even if nobody waits any more.             *)
(***************************************************************************)
EXTENDS Termination, Rescale, Sequences

CONSTANTS Clients,       \* the calls of a run: HTTP requests, ...
          Direct,        \* ... and those a driver makes itself (Cluster)
          NoClient,      \* not a caller
          Requests,      \* the calls they may make
          NumWorkers     \* num_workers of the configuration

ASSUME PoolAssumption == /\ NoClient \notin Clients
                         /\ Direct \subseteq Clients
                         /\ NumWorkers \in 0..(MaxId + 1)
                         /\ Requests \subseteq
                              [kind : {"scale_to", "scale_config"}, amount : Int,
                               delete : SUBSET WorkerIds, keep : SUBSET WorkerIds]

VARIABLES client,     \* how far each caller is
          request,    \* what it asked for
          inbox,      \* the calls the scheduler actor has not begun
          call,       \* the rescaling it is in the middle of
          desired     \* num_workers of the scheduler actor

poolVars == <<client, request, inbox, call, desired>>
vars     == <<rayVars, terminationVars, poolVars>>

NoRequest == [kind |-> "none", amount |-> 0, delete |-> {}, keep |-> {}]
NoCall    == [client |-> NoClient, step |-> "none", target |-> 0, ids |-> {}]
Calls     == [client : Clients, step : {"add", "remove"}, target : Nat,
              ids : SUBSET WorkerIds]

PoolTypeOK == /\ client \in [Clients -> {"idle", "accepted", "waiting", "done", "failed",
                                     "rejected"}]
              /\ request \in [Clients -> Requests \cup {NoRequest}]
              /\ inbox \in Seq(Clients)
              /\ call \in Calls \cup {NoCall}
              /\ desired \in Nat

TypeOK == RayTypeOK /\ TerminationTypeOK /\ PoolTypeOK

\* Nothing has been asked for yet; the actors named in up are running.
InitWith(up) ==
        /\ status = [n \in Names |-> IF n \in up THEN "alive" ELSE "dead"]
        /\ gen    = [n \in Names |-> IF n \in up THEN 1 ELSE 0]
        /\ restarts = [n \in Names |-> 0]
        /\ faults = 0
        /\ job = [p \in Terminators |-> NoJob]
        /\ halted = {}
        /\ client = [c \in Clients |-> "idle"]
        /\ request = [c \in Clients |-> NoRequest]
        /\ inbox = <<>>
        /\ call = NoCall
        /\ desired = NumWorkers

\* The cluster is up, with num_workers workers.
Init == InitWith({Scheduler, Scaler} \cup 0..(NumWorkers - 1))

------------------------------------------------------------------------------
(* The callers. *)

ScalerServes == status[Scaler] = "alive" /\ Scaler \notin halted

\* do_POST and do_GET, in a thread of the request's own: it is read and validated ...
Accept(c) ==
  /\ c \notin Direct
  /\ client[c] = "idle"
  /\ ScalerServes
  /\ \E r \in Requests : /\ r.amount >= 0
                         /\ request' = [request EXCEPT ![c] = r]
  /\ client' = [client EXCEPT ![c] = "accepted"]
  /\ UNCHANGED <<rayVars, terminationVars, inbox, call, desired>>

\* ... and handed to the scheduler actor of the day, also when the server was told to
\* stop meanwhile: it does not wait for its threads. A call to a zombie is lost.
Relay(c) ==
  /\ client[c] = "accepted"
  /\ status[Scaler] = "alive"
  /\ Registered(Scheduler)
  /\ client' = [client EXCEPT ![c] = "waiting"]
  /\ inbox' = IF status[Scheduler] = "zombie" THEN inbox ELSE Append(inbox, c)
  /\ UNCHANGED <<rayVars, terminationVars, request, call, desired>>

\* 400: a negative amount.
Reject(c) ==
  /\ c \notin Direct
  /\ client[c] = "idle"
  /\ ScalerServes
  /\ \E r \in Requests : r.kind = "scale_to" /\ r.amount < 0
  /\ client' = [client EXCEPT ![c] = "rejected"]
  /\ UNCHANGED <<rayVars, terminationVars, request, inbox, call, desired>>

\* 500: get_actor finds no scheduler.
FindNoScheduler(c) ==
  /\ client[c] = "accepted"
  /\ status[Scaler] = "alive"
  /\ ~Registered(Scheduler)
  /\ client' = [client EXCEPT ![c] = "failed"]
  /\ UNCHANGED <<rayVars, terminationVars, request, inbox, call, desired>>

\* 500: the timeout expired, or ray.get raised. The call itself stays queued.
GiveUp(c) ==
  /\ client[c] = "waiting"
  /\ client' = [client EXCEPT ![c] = "failed"]
  /\ UNCHANGED <<rayVars, terminationVars, request, inbox, call, desired>>

\* The process of the scaler is gone, and with it the connections it served.
HangUp == [c \in Clients |-> IF c \notin Direct /\ client[c] \in {"accepted", "waiting"}
                            THEN "failed" ELSE client[c]]

\* An answer reaches the caller if it is still there.
Answer(c, how) == client' = [client EXCEPT ![c] = IF @ = "waiting" THEN how ELSE @]

------------------------------------------------------------------------------
(* The scheduler actor. *)

Between == status[Scheduler] = "alive" /\ call = NoCall

Serves(kind) == /\ Between
                /\ inbox # <<>>
                /\ request[Head(inbox)].kind = kind
                /\ inbox' = Tail(inbox)

\* get_scaling_status.
ReportStatus ==
  /\ Serves("scale_config")
  /\ Answer(Head(inbox), "done")
  /\ UNCHANGED <<rayVars, terminationVars, request, call, desired>>

\* rescale_worker_pool_to lists the workers, and has more of them to create ...
BeginToGrow ==
  /\ Serves("scale_to")
  /\ LET n == Clamp(request[Head(inbox)].amount)
     IN  /\ Cardinality(Listed) <= n
         /\ NewIds(Listed, n) \subseteq WorkerIds          \* bound
         /\ call' = [client |-> Head(inbox), step |-> "add", target |-> n,
                     ids |-> NewIds(Listed, n)]
  /\ UNCHANGED <<rayVars, terminationVars, client, request, desired>>

\* ... or some to remove.
BeginToShrink ==
  /\ Serves("scale_to")
  /\ LET r == request[Head(inbox)]
         n == Clamp(r.amount)
     IN  /\ Cardinality(Listed) > n
         /\ \E rem \in Removals(Listed, n, r.delete, r.keep) :
              /\ call' = [client |-> Head(inbox), step |-> "remove", target |-> n,
                          ids |-> rem]
              /\ job' = [job EXCEPT ![Scheduler] = Terminate(rem)]
  /\ UNCHANGED <<rayVars, halted, client, request, desired>>

IsNext(w) == w \in call.ids /\ \A v \in call.ids : w <= v

\* _add_worker, for the lowest id left. Who else creates workers is in Cluster, and so
\* is the case that the name is taken by now.
AddWorker ==
  /\ status[Scheduler] = "alive"
  /\ call.step = "add"
  /\ \E w \in WorkerIds : /\ IsNext(w)
                          /\ Create(w)
                          /\ StartsOver(w)
                          /\ call' = [call EXCEPT !.ids = @ \ {w}]
  /\ UNCHANGED <<client, request, inbox, desired>>

\* Mutant: the change is taken for the new size.
FinishWithDelta ==
  /\ status[Scheduler] = "alive"
  /\ \/ call.step = "add" /\ call.ids = {}
     \/ call.step = "remove" /\ Terminated(Scheduler)
  /\ Answer(call.client, "done")
  /\ desired' = call.target - desired
  /\ call' = NoCall
  /\ job' = [job EXCEPT ![Scheduler] = NoJob]
  /\ UNCHANGED <<rayVars, halted, request, inbox>>

\* Mutant: the new size is not recorded.
FinishForgets ==
  /\ status[Scheduler] = "alive"
  /\ \/ call.step = "add" /\ call.ids = {}
     \/ call.step = "remove" /\ Terminated(Scheduler)
  /\ Answer(call.client, "done")
  /\ call' = NoCall
  /\ job' = [job EXCEPT ![Scheduler] = NoJob]
  /\ UNCHANGED <<rayVars, halted, request, inbox, desired>>

\* self.num_workers = num_workers, and the call returns.
Finish ==
  /\ status[Scheduler] = "alive"
  /\ \/ call.step = "add" /\ call.ids = {}
     \/ call.step = "remove" /\ Terminated(Scheduler)
  /\ Answer(call.client, "done")
  /\ desired' = call.target
  /\ call' = NoCall
  /\ job' = [job EXCEPT ![Scheduler] = NoJob]
  /\ UNCHANGED <<rayVars, halted, request, inbox>>

Removing == /\ status[Scheduler] = "alive"
            /\ \/ ResolveName(Scheduler)
               \/ AskToStop(Scheduler)
               \/ AllStopped(Scheduler)
               \/ StopGivesUp(Scheduler)
               \/ KillNext(Scheduler)
            /\ UNCHANGED poolVars

SchedulerStep == \/ ReportStatus \/ BeginToGrow \/ BeginToShrink
                 \/ AddWorker \/ Finish \/ Removing

------------------------------------------------------------------------------
(* The other actors, and Ray. *)

WorkerStep(w) ==
  \/ Halt(w) /\ UNCHANGED poolVars
  \/ (InitReturns(w) \/ InitRaises(w) \/ ProcessDies(w) \/ IsGivenUp(w))
     /\ UNCHANGED <<terminationVars, poolVars>>
  \/ IsRestarted(w) /\ StartsOver(w) /\ UNCHANGED poolVars

\* The process of the scheduler actor dies, and everything it had in mind with it.
SchedulerDies ==
  /\ ProcessDies(Scheduler)
  /\ inbox' = <<>>
  /\ call' = NoCall
  /\ job' = [job EXCEPT ![Scheduler] = NoJob]
  /\ UNCHANGED <<halted, client, request, desired>>

SchedulerIsGivenUp == IsGivenUp(Scheduler) /\ UNCHANGED <<terminationVars, poolVars>>

\* The process of the scaler dies. What it relayed stays relayed.
ScalerDies ==
  /\ ProcessDies(Scaler)
  /\ client' = HangUp
  /\ UNCHANGED <<terminationVars, request, inbox, call, desired>>

ScalerIsGivenUp == IsGivenUp(Scaler) /\ UNCHANGED <<terminationVars, poolVars>>

Next == \/ \E c \in Clients : Accept(c) \/ Reject(c) \/ Relay(c) \/ FindNoScheduler(c) \/ GiveUp(c)
        \/ SchedulerStep
        \/ \E w \in WorkerIds : WorkerStep(w)
        \/ SchedulerDies
        \/ SchedulerIsGivenUp
        \/ ScalerDies
        \/ ScalerIsGivenUp

\* The one thread of a living actor keeps running: none of its steps waits for
\* anything but an answer, and that wait has a timeout.
Fairness == WF_vars(SchedulerStep)

Spec     == Init /\ [][Next]_vars
FairSpec == Spec /\ Fairness

------------------------------------------------------------------------------
(* What the pool promises. *)

\* However calls, deaths and restarts interleave, the pool never grows beyond
\* max_workers (or the size it was started with): scheduler.py:199-202 clamps,
\* and the count of workers to add is taken before they are added one by one.
PoolBounded == MaxWorkers # NoMax =>
                 Cardinality(Listed) <= Larger(NumWorkers, MaxWorkers)

\* The ids picked for new workers stay free until each is created, so that no
\* _add_worker runs into a name that is taken (scheduler.py:222-239).
FreshIds == call.step = "add" => call.ids \cap Listed = {}

\* A worker chosen for removal is never forgotten: until it is gone the call still
\* has its name to look up or the handle of this very actor to kill
\* (scheduler.py:82-88, utils.py:62-82).
RemovedAreGone ==
  call.step = "remove" =>
    \A w \in call.ids \cap Listed : \/ w \in job[Scheduler].names
                                     \/ Handle(w) \in job[Scheduler].handles

\* A registered worker whose binary the scheduler actor stopped is about to be
\* killed: no worker stays in the pool, counted as available, without a binary.
\* Only the death of the scheduler actor between the two can leave one behind.
HaltedIsDoomed ==
  status[Scheduler] = "alive" =>
    \A w \in halted \cap Listed : Handle(w) \in job[Scheduler].handles

\* The call kills worker w in this step.
Kills(w) == /\ job[Scheduler].phase = "kill"
            /\ job'[Scheduler].phase = "kill"
            /\ Handle(w) \in job[Scheduler].handles \ job'[Scheduler].handles

Hints == request[call.client].delete \cup request[call.client].keep

\* A worker the caller asks to keep, and not to delete, survives its call, unless
\* the pool is to be emptied (scheduler.py:242-253).
KeptSurvive ==
  [][\A w \in WorkerIds : Kills(w) /\ call.target # 0
        => w \notin request[call.client].keep \ request[call.client].delete]_vars

Finishes == call.step # "none" /\ call' = NoCall /\ status'[Scheduler] = "alive"

\* When a call without hints returns, the pool is no larger than asked for,
\* whatever died, restarted or timed out meanwhile (scheduler.py:221-255).
DoneIsSized == [][Finishes /\ Hints = {} => Cardinality(Listed') <= call.target]_vars

\* At rest, and unless something died or hints decided, there are as many workers as
\* get_scaling_status calls desired (scheduler.py:163-172, 257).
SettledSize ==
  /\ call = NoCall
  /\ faults = 0
  /\ \A c \in Clients : request[c].delete \cup request[c].keep = {}
  => Cardinality(Listed) = desired

\* A call the scheduler actor has accepted comes to an end, also when a worker
\* never answers its stop() (utils.py:76-82).
AcceptedCallsEnd ==
  \A c \in Clients :
    (\E i \in DOMAIN inbox : inbox[i] = c) \/ call.client = c
      ~> ~(\E i \in DOMAIN inbox : inbox[i] = c) /\ call.client # c

(* What the pool implements. *)

\* The pool as whoever asks for its size sees it.
Pool == INSTANCE PoolSpec WITH
  workers <- Listed,
  sick    <- {w \in WorkerIds : status[w] = "zombie"},
  keeper  <- status[Scheduler] = "alive",
  change  <- IF call = NoCall THEN {}
             ELSE {[target |-> call.target,
                    fresh  |-> IF call.step = "add" THEN call.ids ELSE {},
                    doomed |-> IF call.step = "remove" THEN call.ids ELSE {}]}

\* Creating workers one by one, looking them up, asking them to stop, waiting and
\* killing amount to a change of the pool that comes and goes as a whole: nobody
\* appears or disappears whom it does not name, unless something failed
\* (scheduler.py:174-257, utils.py:62-82).
ImplementsPoolSpec == Pool!Spec

(* What the repository says, and the pool does not keep. *)

\* config.py:921: "Minimum number of worker replicas the scheduler may scale down
\* to." (Of a pool that starts above it and loses nothing.)
MinWorkersKept == Cardinality(Listed) >= MinWorkers
==============================================================================
