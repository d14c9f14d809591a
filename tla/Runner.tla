-------------------------------- MODULE Runner --------------------------------
(***************************************************************************)
(* How scheduler and worker actors run their binary with SubprocessRunner  *)
(* (actors/runtimes/subprocess.py, base.py, and start, stop and is_ready   *)
(* of actors/worker.py and actors/scheduler.py), on one host: an actor     *)
(* process can die at any step without its binary, and the next one, in a  *)
(* new process with a new configuration directory, has to reclaim the      *)
(* orphan before it launches a binary of its own.                          *)
(*                                                                         *)
(* The binary is not under src/.  It binds its ports some time after it    *)
(* was spawned, and reacts to SIGTERM at its own pace: it may go on        *)
(* listening, and be alive for a while after it closed its ports.          *)
(***************************************************************************)
EXTENDS Integers, FiniteSets

CONSTANTS Instances,         \* worker-0, worker-1, scheduler, ...
          Nobody,            \* no instance
          PortsOf,           \* the ports the binary of each instance listens on
          Pids,              \* bound: the processes a run can have
          MaxIncarnations,   \* bound: the actor processes per instance
          OrphansListen      \* assume that actors only die while their binary listens

ASSUME RunnerAssumption == /\ Nobody \notin Instances
                           /\ \A i \in Instances : PortsOf[i] # {}
                           /\ MaxIncarnations \in Nat
                           /\ OrphansListen \in BOOLEAN

VARIABLES pc,        \* how far the actor process of each instance is
          inc,       \* its incarnation
          unseen,    \* the processes stop_orphans has not looked at
          found,     \* the orphan it is stopping
          handle,    \* the process the runner launched (_handle)
          ready,     \* the last answer of is_ready
          proc,      \* the processes of the host
          files      \* the configuration files on the host, by instance and incarnation

actorVars == <<pc, inc, unseen, found, handle, ready>>
vars      == <<actorVars, proc, files>>

Unused == [owner |-> Nobody, inc |-> 0, st |-> "unused"]

TypeOK ==
  /\ pc \in [Instances -> {"down", "scan", "signal", "reap", "write", "spawn", "up",
                           "probe", "stop", "clear", "stopped", "failed"}]
  /\ inc \in [Instances -> 0..MaxIncarnations]
  /\ unseen \in [Instances -> SUBSET Pids]
  /\ found \in [Instances -> SUBSET Pids]
  /\ handle \in [Instances -> SUBSET Pids]
  /\ ready \in [Instances -> BOOLEAN]
  /\ proc \in [Pids -> [owner : Instances \cup {Nobody}, inc : 0..MaxIncarnations,
                        st : {"unused", "booting", "listening", "lingering",
                              "draining", "dead"}]]
  /\ files \subseteq Instances \X (0..MaxIncarnations)

Init == /\ pc = [i \in Instances |-> "down"]
        /\ inc = [i \in Instances |-> 0]
        /\ unseen = [i \in Instances |-> {}]
        /\ found = [i \in Instances |-> {}]
        /\ handle = [i \in Instances |-> {}]
        /\ ready = [i \in Instances |-> FALSE]
        /\ proc = [p \in Pids |-> Unused]
        /\ files = {}

Live(p)     == proc[p].st \notin {"unused", "dead"}
Bound(p)    == proc[p].st \in {"listening", "lingering"}
Running(i)  == {p \in Pids : Live(p) /\ proc[p].owner = i}
Clash(i, j) == PortsOf[i] \cap PortsOf[j] # {}

\* A process that listens on one of the ports of instance i.
InTheWay(p, i) == Bound(p) /\ Clash(proc[p].owner, i)

Becomes(p, st) == proc' = [proc EXCEPT ![p].st = st]
Go(i, where)   == pc' = [pc EXCEPT ![i] = where]

------------------------------------------------------------------------------
(* The binaries. *)

Binds(p) == /\ proc[p].st = "booting"
            /\ \A q \in Pids : ~InTheWay(q, proc[p].owner)
            /\ Becomes(p, "listening")
            /\ UNCHANGED <<actorVars, files>>

\* A binary exits by itself: a crash, a port that is taken, a missing licence; or
\* because it was told to.
Exits(p) == /\ Live(p)
            /\ Becomes(p, "dead")
            /\ UNCHANGED <<actorVars, files>>

ClosesPorts(p) == /\ proc[p].st = "lingering"
                  /\ Becomes(p, "draining")
                  /\ UNCHANGED <<actorVars, files>>

\* SIGTERM.
Terminated(p) == CASE proc[p].st = "listening" -> "lingering"
                   [] proc[p].st = "booting"   -> "draining"
                   [] OTHER                    -> proc[p].st

------------------------------------------------------------------------------
(* An actor process. *)

\* __init__: a directory of its own for the configuration, then start(), whose
\* stop_orphans takes the process identifiers there are.
ActorStarts(i) ==
  /\ pc[i] \in {"down", "failed"}
  /\ inc[i] < MaxIncarnations
  /\ Go(i, "scan")
  /\ inc' = [inc EXCEPT ![i] = @ + 1]
  /\ unseen' = [unseen EXCEPT ![i] = {p \in Pids : Live(p)}]
  /\ UNCHANGED <<found, handle, ready, proc, files>>

\* A process that does not listen on our ports is none of our business.
PassOver(i) ==
  /\ pc[i] = "scan"
  /\ \E p \in unseen[i] : /\ ~InTheWay(p, i)
                          /\ unseen' = [unseen EXCEPT ![i] = @ \ {p}]
  /\ UNCHANGED <<pc, inc, found, handle, ready, proc, files>>

\* One that does, and whose configuration cannot be read or names another instance,
\* makes start() raise, and Ray gives the actor up.
MeetForeign(i) ==
  /\ pc[i] = "scan"
  /\ \E p \in unseen[i] :
       /\ InTheWay(p, i)
       /\ \/ <<proc[p].owner, proc[p].inc>> \notin files
          \/ proc[p].owner # i
  /\ Go(i, "failed")
  /\ unseen' = [unseen EXCEPT ![i] = {}]
  /\ UNCHANGED <<inc, found, handle, ready, proc, files>>

\* Mutant: the instance of the configuration is not compared.
MeetAny(i) ==
  /\ pc[i] = "scan"
  /\ \E p \in unseen[i] :
       /\ InTheWay(p, i)
       /\ <<proc[p].owner, proc[p].inc>> \in files
       /\ unseen' = [unseen EXCEPT ![i] = @ \ {p}]
       /\ found' = [found EXCEPT ![i] = {p}]
  /\ Go(i, "signal")
  /\ UNCHANGED <<inc, handle, ready, proc, files>>

\* One whose configuration names this instance is an orphan.
MeetOrphan(i) ==
  /\ pc[i] = "scan"
  /\ \E p \in unseen[i] :
       /\ InTheWay(p, i)
       /\ <<proc[p].owner, proc[p].inc>> \in files
       /\ proc[p].owner = i
       /\ unseen' = [unseen EXCEPT ![i] = @ \ {p}]
       /\ found' = [found EXCEPT ![i] = {p}]
  /\ Go(i, "signal")
  /\ UNCHANGED <<inc, handle, ready, proc, files>>

TerminateOrphan(i) ==
  /\ pc[i] = "signal"
  /\ \E p \in found[i] : Live(p) /\ Becomes(p, Terminated(p))
  /\ Go(i, "reap")
  /\ UNCHANGED <<inc, unseen, found, handle, ready, files>>

\* It went by itself just now: psutil.NoSuchProcess, which nothing catches.
OrphanVanished(i) ==
  /\ pc[i] = "signal"
  /\ \E p \in found[i] : ~Live(p)
  /\ Go(i, "failed")
  /\ unseen' = [unseen EXCEPT ![i] = {}]
  /\ found' = [found EXCEPT ![i] = {}]
  /\ UNCHANGED <<inc, handle, ready, proc, files>>

\* Mutant: no kill after the ten seconds.
OrphanLeft(i) ==
  /\ pc[i] = "reap"
  /\ found' = [found EXCEPT ![i] = {}]
  /\ Go(i, "scan")
  /\ UNCHANGED <<inc, unseen, handle, ready, proc, files>>

\* process.wait() returns, or its ten seconds are over and the orphan is killed.
OrphanReaped(i) ==
  /\ pc[i] = "reap"
  /\ \E p \in found[i] : Becomes(p, "dead")
  /\ found' = [found EXCEPT ![i] = {}]
  /\ Go(i, "scan")
  /\ UNCHANGED <<inc, unseen, handle, ready, files>>

ScanEnds(i) == /\ pc[i] = "scan"
               /\ unseen[i] = {}
               /\ Go(i, "write")
               /\ UNCHANGED <<inc, unseen, found, handle, ready, proc, files>>

\* Mutant: the configuration of the incarnation to come.
WriteConfigAhead(i) == /\ pc[i] = "write"
                       /\ files' = files \cup {<<i, inc[i] + 1>>}
                       /\ Go(i, "spawn")
                       /\ UNCHANGED <<inc, unseen, found, handle, ready, proc>>

WriteConfig(i) == /\ pc[i] = "write"
                  /\ files' = files \cup {<<i, inc[i]>>}
                  /\ Go(i, "spawn")
                  /\ UNCHANGED <<inc, unseen, found, handle, ready, proc>>

\* Popen; the binary is the runner's from here on.
Spawn(i) == /\ pc[i] = "spawn"
            /\ \E p \in Pids :
                 /\ proc[p] = Unused
                 /\ proc' = [proc EXCEPT ![p] = [owner |-> i, inc |-> inc[i], st |-> "booting"]]
                 /\ handle' = [handle EXCEPT ![i] = {p}]
            /\ Go(i, "up")
            /\ UNCHANGED <<inc, unseen, found, ready, files>>

\* There is no such binary; the configuration stays where it is.
SpawnFails(i) == /\ pc[i] = "spawn"
                 /\ Go(i, "failed")
                 /\ UNCHANGED <<inc, unseen, found, handle, ready, proc, files>>

\* is_ready: raises, or answers no, if the binary is gone ...
PollDead(i) == /\ pc[i] = "up"
               /\ \A p \in handle[i] : ~Live(p)
               /\ ready' = [ready EXCEPT ![i] = FALSE]
               /\ UNCHANGED <<pc, inc, unseen, found, handle, proc, files>>

PollAlive(i) == /\ pc[i] = "up"
                /\ \E p \in handle[i] : Live(p)
                /\ Go(i, "probe")
                /\ UNCHANGED <<inc, unseen, found, handle, ready, proc, files>>

\* ... and then whether anything accepts connections on the port.
Probe(i) == /\ pc[i] = "probe"
            /\ ready' = [ready EXCEPT ![i] = \E p \in Pids : InTheWay(p, i)]
            /\ Go(i, "up")
            /\ UNCHANGED <<inc, unseen, found, handle, proc, files>>

\* Mutant: the configuration goes before the binary.
StopForgetsFirst(i) == /\ pc[i] \in {"up", "probe"}
                       /\ \E p \in handle[i] : Becomes(p, Terminated(p))
                       /\ files' = files \ {<<i, inc[i]>>}
                       /\ Go(i, "stop")
                       /\ UNCHANGED <<inc, unseen, found, handle, ready>>

\* stop(), as a call of another actor or out of the handler of SIGTERM.
Stop(i) == /\ pc[i] \in {"up", "probe"}
           /\ \E p \in handle[i] : Becomes(p, Terminated(p))
           /\ Go(i, "stop")
           /\ UNCHANGED <<inc, unseen, found, handle, ready, files>>

\* Mutant: no kill after the ten seconds ...
StopLeaves(i) == /\ pc[i] = "stop"
                 /\ handle' = [handle EXCEPT ![i] = {}]
                 /\ ready' = [ready EXCEPT ![i] = FALSE]
                 /\ Go(i, "clear")
                 /\ UNCHANGED <<inc, unseen, found, proc, files>>

\* Mutant: ... or no end to the wait.
StopWaits(i) == /\ pc[i] = "stop"
                /\ \E p \in handle[i] : ~Live(p)
                /\ handle' = [handle EXCEPT ![i] = {}]
                /\ ready' = [ready EXCEPT ![i] = FALSE]
                /\ Go(i, "clear")
                /\ UNCHANGED <<inc, unseen, found, proc, files>>

\* _wait_or_kill: the binary is gone, or is killed after ten seconds.
StopReaps(i) == /\ pc[i] = "stop"
                /\ \E p \in handle[i] : Becomes(p, "dead")
                /\ handle' = [handle EXCEPT ![i] = {}]
                /\ ready' = [ready EXCEPT ![i] = FALSE]
                /\ Go(i, "clear")
                /\ UNCHANGED <<inc, unseen, found, files>>

\* stop() once more, out of the handler of SIGTERM on top of the one that is under way
\* or after it (utils.py:34-44): there is no handle any more, and only the configuration is
\* removed again. One that finds the handle reaps and clears first, and the one it interrupted
\* comes second; not modelled is that this may fail on the handle it was waiting for.
StopAgain(i) == /\ pc[i] \in {"clear", "stopped"}
                /\ Go(i, "clear")
                /\ UNCHANGED <<inc, unseen, found, handle, ready, proc, files>>

RemoveConfig(i) == /\ pc[i] = "clear"
                   /\ files' = files \ {<<i, inc[i]>>}
                   /\ Go(i, "stopped")
                   /\ UNCHANGED <<inc, unseen, found, handle, ready, proc>>

\* The actor process is gone, by a crash or by ray.kill, and all it knew: it takes
\* neither its binary nor its configuration along.
ActorDies(i) ==
  /\ pc[i] \notin {"down", "failed"}
  /\ OrphansListen => \A p \in Running(i) : proc[p].st = "listening"
  /\ Go(i, "down")
  /\ unseen' = [unseen EXCEPT ![i] = {}]
  /\ found' = [found EXCEPT ![i] = {}]
  /\ handle' = [handle EXCEPT ![i] = {}]
  /\ ready' = [ready EXCEPT ![i] = FALSE]
  /\ UNCHANGED <<inc, proc, files>>

StartStep(i) == \/ PassOver(i) \/ MeetForeign(i) \/ MeetOrphan(i) \/ TerminateOrphan(i)
                \/ OrphanVanished(i) \/ OrphanReaped(i) \/ ScanEnds(i)
                \/ WriteConfig(i) \/ Spawn(i) \/ SpawnFails(i)
StopStep(i)  == StopReaps(i) \/ RemoveConfig(i)

Next == \/ \E p \in Pids : Binds(p) \/ Exits(p) \/ ClosesPorts(p)
        \/ \E i \in Instances : \/ ActorStarts(i) \/ StartStep(i)
                                \/ PollDead(i) \/ PollAlive(i) \/ Probe(i)
                                \/ Stop(i) \/ StopAgain(i) \/ StopStep(i) \/ ActorDies(i)

\* An actor process that is starting or stopping goes on until it is done or dies.
Fairness == \A i \in Instances : WF_vars(StartStep(i)) /\ WF_vars(StopStep(i))

Spec     == Init /\ [][Next]_vars
FairSpec == Spec /\ Fairness

------------------------------------------------------------------------------
(* What running a binary promises. *)

\* Whenever a binary outlives its actor process, its configuration is still there to
\* tell whose it is: without it the next start() could not reclaim the orphan and
\* would raise for good (subprocess.py:60-64, worker.py:104-108).
OrphansIdentifiable ==
  \A p \in Pids : Live(p) => <<proc[p].owner, proc[p].inc>> \in files

\* No instance ever has two binaries, if its orphans listen (base.py:79: "Reclaim what a
\* crashed previous instance left, before starting anew.").
AtMostOneLive == \A i \in Instances : \A p, q \in Running(i) : p = q

\* After stop() neither the binary this actor process launched is left nor its
\* configuration (worker.py:104-108, utils.py:29-30). Whatever of the instance still is on
\* the host, a process or a configuration, is of an earlier actor process that crashed:
\* an orphan its start() passed over, and the directories nobody ever removes, those of
\* reclaimed orphans included (subprocess.py:79-84).
StoppedIsClean ==
  \A i \in Instances : pc[i] = "stopped" =>
    /\ \A p \in Running(i) : proc[p].inc < inc[i]
    /\ \A k \in 0..MaxIncarnations : <<i, k>> \in files => k < inc[i]

\* What the actor of one instance does, wherever others crash, changes no process of
\* another, although that may listen on the very ports the actor looks at: it signals and
\* kills what its handle or a configuration says is of its own instance
\* (subprocess.py:66-84). Every step of an actor that touches a process moves its pc.
NeighboursLive ==
  [][\A i \in Instances, p \in Pids :
       pc'[i] # pc[i] /\ Live(p) /\ proc'[p] # proc[p] => proc[p].owner = i]_vars

\* Reclaiming, launching and stopping come to an end, whatever the binaries do
\* (subprocess.py:79-84, base.py:48-57).
ActorsGetThrough ==
  \A i \in Instances :
    /\ pc[i] = "scan" ~> pc[i] \in {"up", "failed", "down"}
    /\ pc[i] = "stop" ~> pc[i] \in {"stopped", "down"}

(* What the runner implements. *)

\* An instance as its actor sees it.
ActorOf(i)  == CASE pc[i] \in {"down", "failed"}                           -> "absent"
                 [] pc[i] \in {"scan", "signal", "reap", "write", "spawn"} -> "starting"
                 [] pc[i] \in {"up", "probe", "stop"}                      -> "running"
                 [] OTHER                                                  -> "stopped"
BinaryOf(i) == IF Running(i) = {} THEN "none"
               ELSE IF Running(i) \subseteq handle[i] THEN "own"
               ELSE "orphan"

Actors   == [i \in Instances |-> ActorOf(i)]
Binaries == [i \in Instances |-> BinaryOf(i)]

Life == INSTANCE BinaryLife WITH actor <- Actors, binary <- Binaries

\* Looking at one process after the other, signalling, waiting and killing amount to the
\* contract of Runner, the class both runtimes share (base.py:66-95): a binary is launched
\* only when none of the instance runs, stop() leaves none, and "ready" is only said of
\* one's own. This takes ports of the instance's own, and orphans that listen on them: an
\* orphan that was passed over may bind the ports later, and answer for the new binary.
ImplementsBinaryLife == Life!Spec
==============================================================================
