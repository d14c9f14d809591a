----------------------------- MODULE DockerRunner -----------------------------
(***************************************************************************)
(* How scheduler and worker actors run their binary with DockerRunner      *)
(* (actors/runtimes/docker.py, base.py).  The container of an instance has *)
(* one name on the host, whatever actor process creates it, and no other   *)
(* instance uses it, so one instance is all there is to look at.           *)
(*                                                                         *)
(* Docker is not under src/.  A container created with --rm is removed     *)
(* some time after it exits, and until then its name is taken and cannot   *)
(* be removed by others.  The command `docker start --attach` is a process *)
(* of its own: it outlives the actor that spawned it, and may only then    *)
(* look for a container of that name.  Every other command is one step.    *)
(***************************************************************************)
EXTENDS Integers

CONSTANT MaxIncarnations     \* bound: the actor processes of the instance

ASSUME DockerAssumption == MaxIncarnations \in Nat

VARIABLES pc,        \* how far the actor process is
          inc,       \* its incarnation
          box,       \* the container of that name, and which incarnation created it
          client,    \* the `docker start --attach` of each incarnation (_handle)
          ready,     \* the last answer of is_ready
          files      \* the incarnations whose configuration is on the host

vars == <<pc, inc, box, client, ready, files>>

Incs  == 1..MaxIncarnations
NoBox == [st |-> "none", by |-> 0]

TypeOK ==
  /\ pc \in {"down", "reclaim", "write", "create", "attach", "await", "up", "probe",
             "reap", "clear", "stopped", "failed"}
  /\ inc \in 0..MaxIncarnations
  /\ pc \notin {"down", "failed"} => inc \in Incs
  /\ box \in [st : {"none", "created", "running", "listening", "exiting"},
              by : 0..MaxIncarnations]
  /\ client \in [Incs -> {"none", "starting", "attached", "exited"}]
  /\ ready \in BOOLEAN
  /\ files \subseteq Incs

Init == /\ pc = "down"
        /\ inc = 0
        /\ box = NoBox
        /\ client = [k \in Incs |-> "none"]
        /\ ready = FALSE
        /\ files = {}

Runs           == box.st \in {"running", "listening"}
BoxBecomes(st) == box' = [box EXCEPT !.st = st]

------------------------------------------------------------------------------
(* Docker. *)

\* The client finds the container, whoever created it, and starts it unless it runs.
ClientStarts(k) == /\ client[k] = "starting"
                   /\ box.st = "created" \/ Runs
                   /\ BoxBecomes(IF Runs THEN box.st ELSE "running")
                   /\ client' = [client EXCEPT ![k] = "attached"]
                   /\ UNCHANGED <<pc, inc, ready, files>>

\* There is none, or it cannot be started: Docker then removes it. (A client that dies before
\* it reaches Docker would leave it.)
ClientFails(k) == /\ client[k] = "starting"
                  /\ ~Runs
                  /\ box' = IF box.st = "created" THEN NoBox ELSE box
                  /\ client' = [client EXCEPT ![k] = "exited"]
                  /\ UNCHANGED <<pc, inc, ready, files>>

\* The client is attached for as long as its container runs.
ClientExits(k) == /\ client[k] = "attached"
                  /\ box.by # k \/ ~Runs
                  /\ client' = [client EXCEPT ![k] = "exited"]
                  /\ UNCHANGED <<pc, inc, box, ready, files>>

ClientStep(k) == ClientStarts(k) \/ ClientFails(k) \/ ClientExits(k)

Listens == /\ box.st = "running"
           /\ BoxBecomes("listening")
           /\ UNCHANGED <<pc, inc, client, ready, files>>

Exits == /\ Runs
         /\ BoxBecomes("exiting")
         /\ UNCHANGED <<pc, inc, client, ready, files>>

IsRemoved == /\ box.st = "exiting"
             /\ box' = NoBox
             /\ UNCHANGED <<pc, inc, client, ready, files>>

------------------------------------------------------------------------------
(* An actor process. *)

ActorStarts == /\ pc \in {"down", "failed"}
               /\ inc < MaxIncarnations
               /\ pc' = "reclaim"
               /\ inc' = inc + 1
               /\ UNCHANGED <<box, client, ready, files>>

\* Mutant: only a container that was never started is reclaimed.
ReclaimCreated == /\ pc = "reclaim"
                  /\ pc' = "write"
                  /\ box' = IF box.st = "created" THEN NoBox ELSE box
                  /\ UNCHANGED <<inc, client, ready, files>>

\* stop_orphans: docker rm --force, whose failure is ignored.
Reclaim == /\ pc = "reclaim"
           /\ pc' = "write"
           /\ box' = IF box.st = "exiting" THEN box ELSE NoBox
           /\ UNCHANGED <<inc, client, ready, files>>

\* Mutant: the configuration of the incarnation to come.
WriteConfigAhead == /\ pc = "write"
                    /\ pc' = "create"
                    /\ files' = files \cup {inc + 1}
                    /\ UNCHANGED <<inc, box, client, ready>>

WriteConfig == /\ pc = "write"
               /\ pc' = "create"
               /\ files' = files \cup {inc}
               /\ UNCHANGED <<inc, box, client, ready>>

\* Mutant: a name that is taken is taken for one's own.
CreateUnchecked == /\ pc = "create"
                   /\ pc' = "attach"
                   /\ box' = IF box = NoBox THEN [st |-> "created", by |-> inc] ELSE box
                   /\ UNCHANGED <<inc, client, ready, files>>

Create == /\ pc = "create"
          /\ box = NoBox
          /\ pc' = "attach"
          /\ box' = [st |-> "created", by |-> inc]
          /\ UNCHANGED <<inc, client, ready, files>>

\* The name is taken, or there is no such network, gateway or image: __init__ raises.
CreateFails == /\ pc = "create"
               /\ pc' = "failed"
               /\ UNCHANGED <<inc, box, client, ready, files>>

Attach == /\ pc = "attach"
          /\ pc' = "await"
          /\ client' = [client EXCEPT ![inc] = "starting"]
          /\ UNCHANGED <<inc, box, ready, files>>

\* Mutant: start() goes on waiting when the client has exited.
AwaitRunning == /\ pc = "await"
                /\ Runs
                /\ pc' = "up"
                /\ UNCHANGED <<inc, box, client, ready, files>>

\* The container was started, or the client has given up on it.
AwaitEnds == /\ pc = "await"
             /\ client[inc] = "exited" \/ box.st # "created"
             /\ pc' = "up"
             /\ UNCHANGED <<inc, box, client, ready, files>>

\* is_ready raises if the client has exited ...
PollDead == /\ pc = "up"
            /\ client[inc] = "exited"
            /\ ready' = FALSE
            /\ UNCHANGED <<pc, inc, box, client, files>>

PollAlive == /\ pc = "up"
             /\ client[inc] # "exited"
             /\ pc' = "probe"
             /\ UNCHANGED <<inc, box, client, ready, files>>

\* ... and then asks whether the port is open, within the container of that name.
Probe == /\ pc = "probe"
         /\ ready' = (box.st = "listening")
         /\ pc' = "up"
         /\ UNCHANGED <<inc, box, client, files>>

\* Mutant: stop() only waits for the client, or kills it.
StopClient == /\ pc \in {"up", "probe"}
              /\ pc' = "reap"
              /\ UNCHANGED <<inc, box, client, ready, files>>

\* docker stop: the container is told to stop, or killed after a while.
Stop == /\ pc \in {"up", "probe"}
        /\ pc' = "reap"
        /\ IF Runs THEN BoxBecomes("exiting") ELSE UNCHANGED box
        /\ UNCHANGED <<inc, client, ready, files>>

\* _wait_or_kill: the client exits, or is killed after ten seconds.
StopReaps == /\ pc = "reap"
             /\ pc' = "clear"
             /\ client' = [client EXCEPT ![inc] = "exited"]
             /\ ready' = FALSE
             /\ UNCHANGED <<inc, box, files>>

\* stop() once more, on top of the one that is under way or after it: there is no handle
\* any more. (While there is one, it only tells the container again.)
StopAgain == /\ pc \in {"clear", "stopped"}
             /\ pc' = "clear"
             /\ UNCHANGED <<inc, box, client, ready, files>>

RemoveConfig == /\ pc = "clear"
                /\ pc' = "stopped"
                /\ files' = files \ {inc}
                /\ UNCHANGED <<inc, box, client, ready>>

\* By a crash or by ray.kill: container, client and configuration stay.
ActorDies == /\ pc \notin {"down", "failed"}
             /\ pc' = "down"
             /\ ready' = FALSE
             /\ UNCHANGED <<inc, box, client, files>>

StartStep == Reclaim \/ WriteConfig \/ Create \/ CreateFails \/ Attach \/ AwaitEnds
StopStep  == StopReaps \/ RemoveConfig

Next == \/ \E k \in Incs : ClientStep(k)
        \/ Listens \/ Exits \/ IsRemoved
        \/ ActorStarts \/ StartStep \/ PollDead \/ PollAlive \/ Probe
        \/ Stop \/ StopAgain \/ StopStep \/ ActorDies

\* An actor process that is starting or stopping goes on until it is done or dies. The
\* loop that waits for the container has no timeout: it ends because the client does
\* start the container or exits.
Fairness == /\ WF_vars(StartStep) /\ WF_vars(StopStep)
            /\ \A k \in Incs : WF_vars(ClientStep(k))

Spec     == Init /\ [][Next]_vars
FairSpec == Spec /\ Fairness

------------------------------------------------------------------------------
(* What running a binary promises. *)

\* An actor that was started never manages, probes or stops the container of an
\* earlier one, whenever that one died and whatever its client does later
\* (docker.py:168-170, 217-223).
OwnContainer == pc \in {"attach", "await", "up", "probe"} /\ box # NoBox => box.by = inc

\* What an earlier actor left does not stand in the way of docker create, unless Docker
\* is removing it at that time (docker.py:217-223).
NameReclaimed == pc \in {"write", "create"} => box.st \in {"none", "exiting"}

\* After stop() no container runs and none can be started, also by the client of an
\* actor that died earlier, and the configuration is gone (docker.py:202-214).
StoppedIsClean == pc = "stopped" => box.st \in {"none", "exiting"} /\ inc \notin files

\* A running container does not lose the configuration mounted into it, whether or not
\* its actor lives (worker.py:104-108).
ConfigStays == Runs => box.by \in files

\* start() and stop() come to an end, also when the binary fails at boot and its
\* container is gone before the first look at it (docker.py:187-198).
ActorGetsThrough == /\ pc = "reclaim" ~> pc \in {"up", "failed", "down"}
                    /\ pc = "reap" ~> pc \in {"stopped", "down"}

(* What the runner implements. *)

Managing == pc \in {"attach", "await", "up", "probe", "reap"}

\* The instance as its actor sees it: a container that was created is there, whether or
\* not it was started yet, and one that has exited is not.
Actor  == CASE pc \in {"down", "failed"}            -> "absent"
            [] pc \in {"reclaim", "write", "create"} -> "starting"
            [] Managing                             -> "running"
            [] OTHER                                -> "stopped"
Binary == IF box.st \in {"none", "exiting"} THEN "none"
          ELSE IF Managing /\ box.by = inc THEN "own"
          ELSE "orphan"

Life == INSTANCE BinaryLife WITH
  Instances <- {"box"},
  actor  <- [i \in {"box"} |-> Actor],
  binary <- [i \in {"box"} |-> Binary],
  ready  <- [i \in {"box"} |-> ready]

\* Removing, creating, starting and stopping a container through clients that outlive
\* their actors amounts to the contract of Runner, the class both runtimes share
\* (base.py:66-95).
ImplementsBinaryLife == Life!Spec
=============================================================================
