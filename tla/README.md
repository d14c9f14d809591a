# polars-cloud-ray: a TLA+ model, its checks and its proofs

`polars-cloud-ray` runs a Polars distributed cluster on Ray. Every part of the
cluster (scheduler, workers, scaler) is a detached, named Ray actor. A scheduler
or worker actor starts the `pc-cublet` binary and looks after it, as a
subprocess or a docker container. A driver process creates the actors and
terminates them by name. Nothing is stored: the only shared state is Ray's
registry of names, the processes of the hosts, and the configuration
directories.

Source paths below are relative to `src/polars_cloud_ray/` unless they start
with `src/`.

## 1. Inventory

| part | source | state it keeps | operations |
|---|---|---|---|
| cluster driver | `cluster.py` | handles of the actors it found or created | `start`, `stop`, `_start_scaler`, `_start_scheduler`, `_start_workers`, `_rescale_worker_pool_to`, `get_*` |
| scheduler actor: worker pool | `actors/scheduler.py` | `num_workers` (the desired size); the pool itself is what Ray lists | `rescale_worker_pool_to`, `_add_worker`, `_remove_workers`, `get_scaling_status`, `get_host` |
| scaler actor | `actors/scaler.py` | an HTTP server, one thread per request | `do_GET` (scale-config), `do_POST` (scale-to), `stop` |
| terminating actors | `actors/utils.py` | names, handles, `stop()` calls without an answer | `resolve_actor_handles`, `terminate_actors`, `terminate_actor`, the handler of SIGTERM |
| scheduler and worker actor: their binary | `actors/scheduler.py`, `actors/worker.py` | the runner's handle, a configuration directory | `start`, `stop`, `is_ready` |
| subprocess runtime | `actors/runtimes/subprocess.py`, `base.py` | the process launched | `stop_orphans`, `launch`, `stop`, `is_alive`, `probe` |
| docker runtime | `actors/runtimes/docker.py` | the process of `docker start --attach` | the same, on containers by name |
| license server | `actors/license_server.py`, `license_server.py` | as a worker actor; the driver's handle | `start`, `stop`, `is_ready` |
| configuration | `config.py` | none | port offsets, port availability, worker counts for queries, rendering |
| client context | `context.py` | client options | `start` (the driver's, then the address once more), `__enter__`, `__exit__` |
| Ray (external) | not under `src/` | names, handles, restarts | `get_actor`, `list_actors`, `.remote`, `ray.kill` |

How they interact:

- A driver calls the actors by handle (`get_host`, `is_ready`, `stop`), always
  with a timeout (`startup_timeout`, `actor_response_timeout`).
- The scaler looks up the scheduler actor for every request and calls it with
  the same `actor_response_timeout` the scheduler actor uses for its own waits.
- The scheduler actor lists, creates and terminates workers, one call at a time,
  while drivers may be doing the same. A driver may also ask it for another size
  itself (`_rescale_worker_pool_to`), past the scaler.
- An actor process can die without its binary. The next incarnation finds the
  orphan by the ports it listens on, and knows whose it is by its
  configuration file.

What is hard to test: two drivers, or a driver and the scheduler actor, between
a look-up and the creation that relies on it; a listing that is stale when used;
a caller that gave up on a call that goes on; a termination that ends early for
all because one actor failed; the death of an actor process between any two
steps of starting, stopping and reclaiming; ids reused; hints that contradict
the target. `PROJECT.json` lists each of these hazards at its line, and the
properties aimed at it.

What makes each part correct:

- *pool*: bounded by `max_workers`; ids fresh; removed workers really go; workers
  whose binary was stopped do not stay; workers to keep survive; a call ends with
  the size it was asked for; every accepted call ends.
- *driver*: `start`, `stop` and a rescaling always end; `stop` leaves nothing behind;
  after `start` everything runs; what was told to stop is killed.
- *binary*: one per instance; an orphan can always be told by its configuration;
  `stop` leaves nothing of its own actor process, only what crashed ones left; no step of an actor changes a
  process of a neighbour; starting and stopping end. One per instance, and "ready" only for one's own binary, need that orphans
  listen when the next actor looks for them.
- *one host*: without a crash (a failed start, a stop cut short) no orphan, no leftover, no refused `start`, and "ready" only
  for one's own binary.
- *license server*: no binary without its actor, no actor after the last `stop()`. Both need that
  nothing failed or timed out: the actor reclaims nothing, so a binary left behind keeps the ports, and its
  `/readyz` answers for the next actor.

## 2. Modules

| module | models | EXTENDS |
|---|---|---|
| `Rescale` | what `rescale_worker_pool_to` decides: `Clamp`, `NewIds`, `Removals` (pure operators) | |
| `RayActors` | Ray's registry: names, handles, kill, restarts, zombies | |
| `Termination` | `resolve_actor_handles` and `terminate_actors`, per terminating process | `RayActors` |
| `PoolSpec` | abstract: what a pool promises to whoever asks it for a size | |
| `WorkerPool` | the scheduler actor's calls on the pool, and the scaler's requests; implements `PoolSpec` | `Termination`, `Rescale` |
| `Cluster` | drivers in `start()`, `_rescale_worker_pool_to()` and `stop()`, composed with all of the above | `WorkerPool` |
| `BinaryLife` | abstract: the contract of a runner of binaries | |
| `Runner` | the life cycle of a binary run as a subprocess, under dying actor processes; implements `BinaryLife` | |
| `DockerRunner` | the same for a binary in a container; implements `BinaryLife`, too | |
| `SingleHost` | a driver, Ray's registry, and the actors with their binaries and ports on one host | `RayActors`, `Runner` |
| `LicenseServer` | drivers, actor and binary of the license server | |
| `Ports`, `QueryDefaults` | the ports of workers; the worker counts seeded for queries (pure operators) | |
| `MCWorkerPool`, `MCCluster`, `MCRunner`, `MCSingleHost` | instances for TLC; the last two give the instances of `Runner` the ports of `Ports` | |
| `WorkerPoolProofs`, `PoolTheorems`, `ClusterProofs`, `RunnerProofs`, `SingleHostProofs`, `DockerProofs`, `LicenseProofs`, `ConfigTheorems` | theorems | |

Two refinements connect them (`INSTANCE ... WITH`): `WorkerPool` implements `PoolSpec`, and
`Runner` and `DockerRunner` both implement `BinaryLife`. Two compositions put them
together: `Cluster` (registry, pool, scaler, drivers; binaries are abstracted to
`halted`) and `SingleHost` (registry, one driver, processes and ports; the pool keeps its size).

An operator with a comment that starts "Mutant:" is a wrong version of the
definition below it. No specification uses it; it stands for a plausible bug, and
exchanging it for the right version must make a property fail
(`PROJECT.json`, "mutants").

### RayActors

`status[n]` is what the registry says of a name: a name that is not `"dead"` is
taken, resolves and is listed, whether or not a process runs behind it
(`"zombie"`: the process is gone and Ray has not noticed). `gen[n]` counts the
actors that bore the name; a handle is the pair of name and generation, so killing
a stale handle does not touch a successor. `restarts[n]` counts how often the actor was
restarted; together with the generation it identifies a process (`Incarnation`), because the calls a
process holds die with it. `MaxRestarts` is `worker_max_restarts`, -1 (`Unlimited`)
included. Ray is external: the module says what the package relies
on, and nothing more.

### Termination

`job[p]` is what process `p` (the scheduler actor, or a driver) is terminating. The
names are resolved one at a time (`ResolveName`); a name that is gone is skipped;
then every actor found is asked to stop at once (`AskToStop`); the wait ends
with the last answer (`AllStopped`), with the first error or the timeout
(`StopGivesUp`, possible at any time); and then all of them are killed, one at a
time (`KillNext`), whatever the answers were. `halted` holds the actors whose
`stop()` ran, that is, whose binary is gone.

### WorkerPool

`client`, `request`: the HTTP requests, each in a thread of its own. `inbox`: the
calls the scheduler actor has not begun, in the order of their arrival (an actor
without concurrency groups is served in that order). `call`: the rescaling it is in.
`desired`: `num_workers`. `Direct` are calls that do not come through the scaler: they are
made by drivers in `Cluster`, and the set is empty in the runs of `WorkerPool` itself.

| action | code |
|---|---|
| `Accept`, `Reject` | `scaler.py`, `do_GET` and `do_POST` up to the look-up of the scheduler actor |
| `Relay`, `FindNoScheduler`, `GiveUp` | the look-up, the call, its timeout |
| `ReportStatus` | `scheduler.py`, `get_scaling_status` |
| `BeginToGrow`, `BeginToShrink` | `rescale_worker_pool_to` up to its first effect: one listing, `Clamp`, ids or removals |
| `AddWorker` | `_add_worker`, one worker at a time |
| `Removing` | `_remove_workers`, the steps of `Termination` |
| `Finish` | `self.num_workers = ...`, the return, the answer if somebody still waits |
| `WorkerStep`, `SchedulerDies`, `SchedulerIsGivenUp`, `ScalerDies`, `ScalerIsGivenUp` | failures, restarts and answers of the actors |

A request that was accepted is relayed even when the scaler was told to stop meanwhile,
because `stop()` does not wait for the threads; only the end of the scaler's process
hangs up on its callers (`HangUp`). The order in which a Python set gives out the
workers is a choice in `Removals`.

`PoolSpec` is the pool as its users see it: a set of workers, the sick ones among them, and at most
one change under way, which names who is to come and who is to go. Nobody comes or goes
whom the change does not name, unless something failed; `desired` moves only when
a change is complete. In the mapping (`Pool` in `WorkerPool`) a change is the call in
progress; `sick` are the zombies; the jobs, handles, queues and clients are hidden.

### Cluster

`pc`, `at`, `held`, `mine`: how far a driver is, the actor it is looking up or creating,
the actors it has yet to see ready, and its handle of the scheduler actor (`_scheduler_actor`). The actors are taken in the order of `start()`: the
scaler and its readiness, the scheduler and its host, the workers, the readiness
of them all. Look-up (`Reconnect`, `FindNone`) and creation (`Make`, `MakeCollides`)
are separate steps, as in the `try ... except ValueError` of the code. `stop()`
resolves the scheduler first, terminates the scaler, lists the workers once and
terminates those, and then the scheduler it had resolved. Killing the scheduler
actor takes its calls along (`KillScheduler`), killing the scaler hangs up on its
callers (`KillScaler`). Before `start()` returns it asks the scheduler actor for its address
(`GetAddress`), and a `RayClusterContext` does so again (`Bootstrap`, `context.py`): calls that queue behind a
rescaling. A driver in `Direct` may then call `_rescale_worker_pool_to()`
(`AskToRescale`, `RescaleReturns`) on the handle it has, whatever became of that actor. An `_add_worker` whose name a driver took
is `AddCollides`. `SchedulerStarts` gives a new
scheduler actor the configured `num_workers`, whatever the pool holds.

The initial states are a cluster that is up and no cluster at all, with any number
of drivers not yet connected. A driver may call `stop()` without a `start()`, or after
one that failed, which the code allows. A driver that starts again after its `stop()` is one more
driver: nothing it keeps matters by then.

### Runner

One host; `proc` are its processes, `files` the configuration files. An actor
process goes through `scan` (with `signal` and `reap` for each orphan), `write`,
`spawn`, `up` (with `probe` for `is_ready`), `stop`, `clear`, `stopped`, and can die
anywhere. A binary is `booting` until it binds its ports, `listening`,
`lingering` (told to stop, and still listening), `draining` (not listening any
more) or `dead`. The binary itself is external and free: it may exit at any time,
may never bind and may never react to SIGTERM. `stop()` can run again, on top of one that is under way
or after it (`StopAgain`), because the handler of SIGTERM and `__ray_shutdown__` both call it. What a crash leaves, a
process that its successors pass over and a configuration directory that nobody removes, stays in `proc` and `files`.

`BinaryLife` is the contract of the class `Runner` in `base.py`: an actor is absent, starting, running or stopped, and
its binary none, its own, or an orphan. A binary is launched only when there is none; `stop()` leaves
none; "ready" is said only of one's own. In the mappings everything between
`__init__` and the launch is "starting". A container that was created counts as a binary, one
that has exited does not.

### DockerRunner

One instance suffices: its container has a name of its own (`config.instance_name`), the
same for every incarnation of the actor. `box` is the container of that name, with the incarnation that
created it; `client` holds the `docker start --attach` process of every incarnation,
which outlives its actor and may only then look the name up. A container that
exits stays, with its name, in state `exiting` until Docker has removed it (`--rm`).
Every other `docker` command is one step, assumed to do what it is asked unless the container
is being removed or, for `create`, fails.

### SingleHost

With `single_host_cluster`, and only then, `start()` first checks that the ports of every actor without a
name can be bound (`LookUp`, `CheckPorts`, `Refuse`). The module is one driver that starts and stops a
cluster without autoscaling as often as it likes (`driver`, `todo`), Ray's registry, and the actors' processes
and binaries as in `Runner`. What happens in Ray's books and on the host at once is one step: a death, or an
exception out of `__init__`. An actor that Ray restarts passes no port check; one that is
created anew does. `mishap` remembers that a process died, an `__init__` raised or a `stop()` was not
answered in time, for the properties. `LookUp` reads all names in one step: the driver is the only one that
creates actors here, and a name that comes free a moment later comes free after
`LookUp` as well.

### LicenseServer

The registry has one name; `gen` counts its actors and `bin[g]` is the binary of the `g`-th, all on
one host because the actor is pinned to it. Drivers take turns at start, reconnect and stop
as often as they like. The actor has one thread: a `stop()` waits for a probe and the other
way round. `mishap` remembers whether an actor process died or a `stop()` timed
out; it is there for the properties only. The actor is modelled with the subprocess runtime.

## 3. Runs

| run | instance | shows |
|---|---|---|
| `pool` | 2 requests, ids 0..4, max 3, start 2, one restart each, 2 failures | all the pool promises, liveness and `PoolSpec` included |
| `cluster` | 2 drivers, 2 workers, 1 failure, restarts without limit, no rescaling | two drivers in `start()` and `stop()` in any order leave nothing behind; up means serving; what was told to stop is killed |
| `cluster_scaling` | 1 driver that also rescales by itself, 1 request through the scaler, 2 workers, min 1, max 2, ids 0..4, 1 failure | every call of the driver ends; the pool overshoots by no more than `start()` can add |
| `runner` | 2 instances with ports of their own, 2 incarnations each, 3 processes, orphans listen | one binary per instance; starting and stopping end; `BinaryLife`, that is, launch only what was reclaimed, none after `stop()`, ready only for one's own |
| `runner_shared` | 2 instances with the same ports, 2 incarnations each, 3 processes, actors die anywhere | no actor changes a process of its neighbour; a live binary keeps its configuration; `stop()` leaves only what crashed actor processes left |
| `docker` | 3 incarnations of one instance | an actor never manages another's container, names are reclaimed, stopping is clean and ends, `BinaryLife` included |
| `single_host` | scheduler and 1 worker, 1 restart, 1 failure, 2 incarnations each, 3 processes | without a crash: no orphan, a clean host after `stop()`, no refused `start()`, ready only for one's own binary |
| `license` | 2 drivers, 3 actors | nothing strays unless something failed; the last `stop()` clears; ready means one's own binary; nobody hangs |
| `min_workers_kept`, `stop_leaks_workers`, `orphans_escape`, `restart_refused` | see section 6 | what the repository says and the code does not do |

Why these bounds are enough for the cases to happen:

- `MaxId`: the ids a run may reach. In `pool` it is one more than `max_workers` needs
  for a full pool, so that ids move up after removals. A call that would need a higher id is not
  begun (guard marked *bound* in `BeginToGrow`).
- `MaxRestarts` is `worker_max_restarts`; 1 gives both a restart and the end of
  restarts, as the default of 3 does later. `cluster` has no limit (-1): then only `MaxFaults` ends the restarts.
- `MaxFaults`: failures of actor processes per run. 2 in `pool` are a worker's
  and the scheduler's, or a worker's twice, which exhausts its restarts.
- `Clients`: two requests are one in progress and one behind it, or one after
  it. The requests of `pool` (`MixedRequests`) include growth beyond the maximum, removal with and
  without hints, hints that are contradictory or stale, 0, a negative amount and the
  status.
- `Drivers`: two, for every pair of interleaved `start()` and `stop()`. With two
  configured workers a driver goes on from one worker to the next. In `cluster_scaling` the driver itself is
  one of the two callers (`Direct`), and the requests (`GrowRequests`) go past the maximum and, negative, below
  the minimum of 1: the scaler refuses these, the scheduler actor shrinks the pool for them when a driver asks directly.
- `Pids`, `MaxIncarnations`: three processes of three incarnations are two orphans
  and a successor. Starting one incarnation more, or a process when all have been used, is the only thing
  the bounds stop. In `single_host` a driver does not create an actor whose `MaxIncarnations` are used up.

`CHECK_DEADLOCK FALSE` stands in every configuration: requests are answered, drivers
are done, failures and incarnations used up, and then the system really is at rest.

- `MaxActors` (`license`): three actors let a driver hold a handle two generations old. A driver
  that would need a fourth does not call `start()`.
- `TaskPort`, `ShufflePort` are the defaults of `config.py`; `SingleHost` is FALSE in `runner_shared`, where
  the two workers clash, and TRUE in the others.

`runner_shared`, `single_host` and `restart_refused` use symmetry among process identifiers, `cluster` among the
drivers; they check invariants and `[][...]_vars` properties that treat all of these alike, and no liveness.

### Fairness

- *Pool*: weak fairness of `SchedulerStep`, the single thread of the living
  scheduler actor. It never waits for anything but answers, and that wait has a
  timeout (`StopGivesUp` stays enabled), so one action or another is always enabled
  while a call is in progress, and the thread takes it. No fairness of workers, Ray, callers: a
  worker may never answer and Ray may never notice a death.
- *Cluster*: weak fairness of `StartStep(d)`, `RescaleStep(d)` and `StopStep(d)` for each driver, which
  are what its thread does once it has called `start()`, `_rescale_worker_pool_to()` or `stop()`. Nothing makes it call
  any; and the scheduler actor may never answer.
- *Runner*: weak fairness of `StartStep(i)` and `StopStep(i)`; none of the binaries.
- *DockerRunner*: also weak fairness of the clients. The loop in `start()` that waits for the container has no
  timeout, and ends only because the client either starts the container or exits.
- *LicenseServer*: weak fairness of the drivers' steps, and of `GiveUp` by itself, because the
  deadline passes however often `is_ready` answers no. None of the actor.

`AcceptedCallsEnd` also counts the death of the scheduler actor, which
takes its calls along, as the end of a call.

## 4. Proofs

All theorems are proved with TLAPS for every value of the constants that meets the
named assumptions (`ActorsAssumption`, `TerminatorsAssumption`, `BoundsAssumption`,
`PoolAssumption`, `RunnerAssumption`, `DockerAssumption`, `LicenseAssumption`,
`PortsAssumption`, `DriversAssumption`, `SingleHostAssumption`; the theorems on `QueryDefaults` name `Typed`). These
only type the constants (`SingleHostAssumption` also lets actors die anywhere); for instance
`min_workers` may exceed `max_workers`, and any subset of the ids may be hinted at. Some
theorems need more, and say so in their statement: `OrphansListen`, `OwnPorts`, `OnlyStatus` or `Drivers # {}`, each
explained below, next to the run that shows what happens without it.

`WorkerPoolProofs` begins with the pure operators: new ids are in use by nobody
(`NewIdsFresh`) and bring the pool to exactly the target (`NewIdsFit`); removals without
hints leave exactly the target (`RemovalsFit`); workers to keep are spared unless the
target is 0 (`KeptSpared`). The arithmetic of ids rests on the highest id of a finite
non-empty set, which is found by induction over the interval (lemma `HighestId`).

It goes on with `TypeCorrect`, `StaysBounded`, `StayFresh`, `RemovedGo`, `HaltedGo`, `KeptAlways` and `DoneSized`. None of the
properties is inductive; the strengthening is

    PoolInv == TypeOK /\ CallersBusy /\ Sizes /\ JobInScope /\ RemovalSpares
               /\ RemovedAreGone /\ HaltedIsDoomed

- `CallersBusy`: whoever has a call queued or in progress has left "idle", so
  its request does not change under the call.
- `Sizes`: while workers are added, the workers listed plus those still to be added are
  at most the target, and the ids to be added lie above all that is listed. Deaths only make the
  pool smaller. While workers are removed, those listed and not chosen fit the target
  unless hints decide.
- `JobInScope`: what is being terminated are workers chosen by the call.
- `RemovalSpares`: the chosen workers leave out those to keep.

The last two conjuncts support each other: a worker is halted only after its
handle was taken, and the handle goes only with the kill. Each lemma `...Step` shows
that one part survives every action, and `PoolStep` puts them together.

`PoolTheorems` proves on top of it that `WorkerPool` implements `PoolSpec` (`PoolImplemented`): every action,
under `PoolInv`, maps to one action of `PoolSpec` or to a stutter, the failures included. Growing needs
`NewIdsFresh` and `NewIdsFit`, to see that a change names exactly the new workers; ending needs
`RemovedAreGone` with an empty job, to see that everyone doomed is gone. `SettlesAtDesired` (`SettledSize`) needs
an invariant of its own (`Settled`): while nothing failed and nobody gave hints, no actor is a zombie, and the
workers listed number `desired` between calls; during one, those listed together with those being added, or
without those being removed, number its target.

`ClusterProofs` is about any number of drivers on top of that pool. `ClusterTypeCorrect` is its type. The other four
theorems have an inductive invariant each:

- `Overshoot` (`OvershootBounded`) from `BeyondBounded`: `start()` only ever makes workers of the first
  `num_workers` ids, and those of other ids, which the scheduler actor alone makes, number at most
  `max_workers`, the ones a call is about to add included. The bound on all workers is not inductive by itself: a
  call counts what is listed when it begins, and a driver may add to that afterwards.
- `UpServes` (`UpMeansServing`) from `QuietInv`: while nothing failed and nobody rescaled or stopped anything,
  actors only ever come up (`Undisturbed`), and each driver has secured those that `start()` takes
  before the one it is at (`Comes`, `Obtained`, `Secured`): they are alive, or it has yet to see them ready, whoever made
  them. The lemma `QuietBefore` says that what was disturbed never becomes quiet again.
- `StoppedGo` (`HaltedAreKilled`) from `HaltedInv`: a `stop()` is only asked of actors whose handle the job still
  holds (`JobSound`), and only a driver between the parts of `stop()` has a job.
- `StopsAll` (`StopLeavesNothing`) from `StopInv`: once all drivers are stopping, whatever is registered is on the list
  of a driver that is terminating actors of this kind (`ScalerGoes`, `WorkersGo`), or, for the scheduler, was resolved
  when that driver's `stop()` began (`SchedulerGoes`). A driver moves on only with an empty list, so it cannot be
  the one these speak of; and actors are made only in `start()`, which such a driver is not in.

The last two are stated for `OnlyStatus` (no request asks for another size) because the code does not keep
them otherwise. `stop_leaks_workers` shows it for `StopLeavesNothing`: `WorkersGo` breaks when a call adds a worker
behind the list. And a scheduler actor that is killed while it shrinks the pool takes its list of stopped
workers along, and they stay registered without a binary: TLC finds this at once when `HaltedAreKilled` is added to
`cluster_scaling`. `StopsAll` also needs
a driver at all (`Drivers # {}`): without one nobody stops the cluster of the initial state.

`RunnerProofs` proves `TypeCorrect`, `Identifiable`, `NeighboursSafe` and `StopCleans` (`StoppedIsClean`) from
`ConfigInv`, wherever actors die: an incarnation launches at most one process, after it wrote its
configuration, and only this incarnation removes the file, when that process is
dead; the handle and the orphan an actor holds are of its instance (`Owned`). `StopCleans` says what is true without any
assumption: what is left after `stop()` is of earlier incarnations. `OneBinary` follows from the stronger `OneInv` under the
assumption `OrphansListen`: an actor process dies only while the binary of its
instance, if it has one, listens on its ports. The assumption is needed, and the code does not provide for it: without it the run
`orphans_escape` refutes the property. With it, and with ports of each instance's own (`OwnPorts`),
`ContractKept` proves that `Runner` implements `BinaryLife`; `OneConcerned` reduces a step to the one instance it
concerns.

`SingleHostProofs` first shows that a cluster on one host is a `Runner` (`RunsAsRunner`): whatever the driver and Ray do,
its actors and binaries take steps of `Runner` or none, so that `Identifiable` and `NeighboursSafe` hold there, too, and
`ConfigInv` can be used. On top of it stands

    HostInv == ClusterTypeOK /\ ConfigInv /\ StopComplete /\ CheckedAbsent /\ Smooth

- `StopComplete`: what is registered is on the list of the `stop()` in progress; after it nothing is.
- `CheckedAbsent`: the ports that `start()` checks are those of actors that do not exist.
- `Smooth`: without a mishap, the process of an actor is about as far as Ray says (`InStep`), holds
  the only binary of its instance (`Attended`), and has the only configuration (`InUse`); and the driver kills only what
  has stopped (`KilledStopped`), since only a mishap lets it go on without an answer.

From it follow `HostTypeCorrect`, `OrphansCaused`, `StopCleansUp` and, where no two instances share a port
(`OwnPorts`; `OffsetsSeparate` of `ConfigTheorems` gives it among workers for the default ports), `RefusalCaused` and `ReadyIsOwn`
(`ReadyMeansOwn`: whatever listens on the ports of an instance is of that instance, and so the process in the handle).
Without `OwnPorts` a `start()` that follows one which timed out half-way may find the ports of a worker it has yet
to make taken by an actor of its own cluster, with no mishap at all.

`DockerProofs` proves all invariants of `DockerRunner` from `BoxInv`: what `docker create`
finds was made by an earlier incarnation and is being removed (`Named`); `start()` does not return
before the container was started or is gone (`Started`), so that `docker stop` leaves nothing a late client
could start; the configuration spans the life of the container (`Configured`). Its `ContractKept` proves, with no
further assumption, that `DockerRunner` implements the same `BinaryLife`: container names reclaim what ports
cannot.

`LicenseProofs` proves the invariants and `ReadyMeansOwn` from `LicenseInv`, for any number of drivers.
`Answers` says that a driver about to kill an actor that is still the one it asked has seen its binary
stopped; `Watched` that an actor always has a driver who has not stopped it yet: its creator stays
responsible for it until somebody kills it.

`ConfigTheorems` says when workers on one host share ports, that autoscaling always comes with a default number of
workers per query (`AutoscalingHasDefault`), and when that default stays within the bound seeded for a query
(`DefaultFits`): not if the cluster is started above `max_workers` (`DefaultExceeds`).

## 5. Model-checked only

- Liveness: `AcceptedCallsEnd`, `DriversGetThrough` (both), `ActorsGetThrough`, `ActorGetsThrough`. TLAPS has no
  proof rule for it here.
- `StopLeavesNothing` and `HaltedAreKilled` of `Cluster` are checked and proved where nobody rescales. `FreshIds` is
  proved for `WorkerPool`, where the scheduler actor alone creates workers; in `Cluster` a driver does too, and `AddCollides` is what happens then.

## 6. Disagreements found

Each is a run whose one property says what the repository says, and which TLC refutes.

1. `stop_leaks_workers`: `stop()` (`cluster.py:292`, "Terminate all the
   actors") lists the workers once and terminates the scheduler last; a rescaling in
   progress, or queued, adds workers after the listing, and they outlive the
   cluster.
2. `min_workers_kept`: `config.py:921` calls `min_workers` the minimum the scheduler
   may scale down to; with workers to keep, all others go, however few remain.
3. `orphans_escape`: `base.py:79` says that what a crashed instance left is
   reclaimed; an orphan that does not listen yet, or no longer, is passed over. The consequence for `is_ready` (`worker.py:111`,
   "alive and listening for tasks"): when such an orphan binds the ports before the new binary does, the answer is yes, because
   `is_alive` asks for the one process and `is_listening` for the other. TLC finds this at once, too, when `ReadyMeansOwn` of
   `SingleHost` is stated without `~mishap`.
4. `restart_refused`: on a single host, an orphan of a crashed scheduler actor is never reclaimed, because the port
   check of `start()` (`cluster.py:263`) refuses before the actor that would do it is created. The
   run's `RefusalHasCause` counterpart in `single_host` shows that nothing but a mishap leads there.

## 7. Not modelled

- Hosts other than one: an instance of `Runner` is an actor on a host. A worker that Ray restarts on another host does
  not meet its orphan, nor its ports.
- The license server in a container, and command lines, mounts and networks of Docker
  beyond the failure of `docker create`.
- Docker commands interrupted by the death of their actor, apart from `docker start --attach`. A client of those that fails
  does so at the daemon, which removes the container (`ClientFails`); one that died before it got there would leave
  it created, and `docker stop` would not remove it.
- A SIGTERM that arrives while `stop()` waits in `Popen.wait()`. The inner `stop()` signals, reaps and removes the configuration, and the
  outer one finds it done, which amounts to `StopReaps`, `RemoveConfig`, `StopAgain`, `RemoveConfig`. Left out are the lock inside
  `Popen.wait()`, on which the inner wait could hang, and the exception in the outer one when its wait times out after
  the inner one has cleared `_handle` (`base.py:54-57`).
- Drivers that crash: a driver ends `start()` and `stop()` by returning or raising, never in the middle of either.
- In the port check of `SingleHost`: the observatory ports (`config.py:997-1004`); ports taken by anything but the listening
  binaries of the cluster, such as foreign processes and connections in TIME_WAIT; changes between one port and the
  next, as all are looked at in one step.
- Autoscaling in `SingleHost`: workers are created by the driver only, and the scaler's port is not checked.
- The rendering of settings, apart from ports and the worker counts for queries; the client object `context.py`
  builds; images and build files: no state or control the cluster depends on.
- HTTP answers 404 and 415, logging, metrics labels: they change no state.

## 8. Plan

In order of importance; the first ten are done.

1. `Rescale`, `RayActors`, `Termination`, `WorkerPool` and their proofs.
2. `Runner` and its proofs.
3. `Cluster` on top of `WorkerPool`.
4. The disagreements of section 6.
5. `DockerRunner`, `LicenseServer` and their proofs.
6. `Ports`, used by `Runner`; `QueryDefaults`.
7. `Cluster`, continued: `_rescale_worker_pool_to` by a driver, the scaler's death, the address calls, restarts without limit.
8. `PoolSpec` and `BinaryLife`, and the proofs that they are implemented.
9. `SingleHost`: the port check of `start()` together with the orphans of actors.
10. `ClusterProofs` and `SingleHostProofs`: every safety property a run checks is a theorem.
11. `SingleHost` with a second driver, and with workers the scheduler actor adds.
