---------------------------- MODULE LicenseServer ----------------------------
(***************************************************************************)
(* The license server: drivers (license_server.py) that start, reconnect   *)
(* to and stop one detached actor (actors/license_server.py), which runs   *)
(* the binary as a subprocess, always on the same host.  Unlike scheduler  *)
(* and workers the actor is never restarted, and it reclaims nothing when  *)
(* it starts: the binary of an earlier actor keeps the ports.              *)
(*                                                                         *)
(* Ray's registry is external, as in RayActors, with a single name.        *)
(***************************************************************************)
EXTENDS Integers, FiniteSets

CONSTANTS Drivers,
          MaxActors       \* bound: the actors that bear the name in a run

ASSUME LicenseAssumption == MaxActors \in Nat

VARIABLES status,     \* what the registry says of the name
          gen,        \* how many actors bore it
          bin,        \* the binary each of them launched
          halting,    \* whose stop() call the actor serves
          asked,      \* stop() calls of drivers to an actor, without an answer
          pc,         \* how far each driver is
          mine,       \* the actor its handle refers to, 0 for None
          mishap      \* an actor process died, or a stop() timed out

registryVars == <<status, gen>>
actorVars    == <<bin, halting, asked>>
driverVars   == <<pc, mine>>
vars         == <<registryVars, actorVars, driverVars, mishap>>

Gens == 1..MaxActors

\* A binary is "ended" if it exited, and "stopped" once its actor knows it is gone.
TypeOK == /\ status \in {"dead", "pending", "alive", "zombie"}
          /\ gen \in 0..MaxActors
          /\ bin \in [Gens -> {"none", "booting", "serving", "ended", "stopped"}]
          /\ halting \subseteq Drivers
          /\ asked \subseteq Drivers \X Gens
          /\ pc \in [Drivers -> {"out", "make", "wait", "probe", "addr", "up",
                                 "failed", "ask", "kill", "down"}]
          /\ mine \in [Drivers -> 0..MaxActors]
          /\ mishap \in BOOLEAN

Init == /\ status = "dead"
        /\ gen = 0
        /\ bin = [g \in Gens |-> "none"]
        /\ halting = {}
        /\ asked = {}
        /\ pc = [d \in Drivers |-> "out"]
        /\ mine = [d \in Drivers |-> 0]
        /\ mishap = FALSE

Registered  == status # "dead"
Resolves(g) == Registered /\ gen = g
Live(g)     == bin[g] \in {"booting", "serving"}
AtRest(d)   == pc[d] \in {"out", "up", "failed", "down"}
Go(d, where) == pc' = [pc EXCEPT ![d] = where]

\* The actor has one thread: is_ready and stop() take turns.
Free == status = "alive" /\ halting = {} /\ \A d \in Drivers : ~(pc[d] = "probe" /\ mine[d] = gen)

------------------------------------------------------------------------------
(* start() of a driver. *)

Reconnect(d) == /\ AtRest(d)
                /\ Registered
                /\ Go(d, "wait")
                /\ mine' = [mine EXCEPT ![d] = gen]
                /\ UNCHANGED <<registryVars, actorVars, mishap>>

FindNone(d) == /\ AtRest(d)
               /\ ~Registered
               /\ gen + Cardinality({e \in Drivers : pc[e] = "make"}) < MaxActors   \* bound
               /\ Go(d, "make")
               /\ UNCHANGED <<registryVars, actorVars, mine, mishap>>

Make(d) == /\ pc[d] = "make"
           /\ ~Registered
           /\ gen < MaxActors                                                     \* bound
           /\ status' = "pending"
           /\ gen' = gen + 1
           /\ Go(d, "wait")
           /\ mine' = [mine EXCEPT ![d] = gen + 1]
           /\ UNCHANGED <<actorVars, mishap>>

\* Somebody else made it in between: ValueError, out of start().
MakeCollides(d) == /\ pc[d] = "make"
                   /\ Registered
                   /\ Go(d, "failed")
                   /\ UNCHANGED <<registryVars, actorVars, mine, mishap>>

\* is_ready: an answer of no is asked again, an exception ends start() ...
PollAlive(d) == /\ pc[d] = "wait"
                /\ Free /\ gen = mine[d]
                /\ Live(gen)
                /\ Go(d, "probe")
                /\ UNCHANGED <<registryVars, actorVars, mine, mishap>>

PollEnded(d) == /\ pc[d] = "wait"
                /\ Free /\ gen = mine[d]
                /\ bin[gen] = "ended"
                /\ Go(d, "failed")
                /\ UNCHANGED <<registryVars, actorVars, mine, mishap>>

\* ... and /readyz is answered by whatever serves that port of the host.
Probe(d) == /\ pc[d] = "probe"
            /\ Resolves(mine[d]) /\ status = "alive"
            /\ Go(d, IF \E g \in Gens : bin[g] = "serving" THEN "addr" ELSE "wait")
            /\ UNCHANGED <<registryVars, actorVars, mine, mishap>>

\* start() ends with get_bind_addr, one more call to the actor.
GetAddr(d) == /\ pc[d] = "addr"
              /\ Free /\ gen = mine[d]
              /\ Go(d, "up")
              /\ UNCHANGED <<registryVars, actorVars, mine, mishap>>

\* A timeout is over, or the actor is gone. (A probe nobody waits for is left out.)
GiveUp(d) == /\ pc[d] \in {"wait", "probe", "addr"}
             /\ Go(d, "failed")
             /\ UNCHANGED <<registryVars, actorVars, mine, mishap>>

------------------------------------------------------------------------------
(* stop() of a driver: terminate_actors on the one actor there is, if any. *)

StopFindsNone(d) == /\ AtRest(d)
                    /\ ~Registered
                    /\ Go(d, "down")
                    /\ mine' = [mine EXCEPT ![d] = 0]
                    /\ UNCHANGED <<registryVars, actorVars, mishap>>

\* Mutant: the actor is killed at once.
StopKills(d) == /\ AtRest(d)
                /\ Registered
                /\ Go(d, "kill")
                /\ mine' = [mine EXCEPT ![d] = gen]
                /\ UNCHANGED <<registryVars, actorVars, mishap>>

\* Mutant: the handle of start() is used, if there is one.
StopAsksOwn(d) == /\ AtRest(d)
                  /\ Registered
                  /\ Go(d, "ask")
                  /\ asked' = asked \cup {<<d, mine[d]>>}
                  /\ UNCHANGED <<registryVars, bin, halting, mine, mishap>>

\* The actor of the day is looked up, whatever start() found.
StopAsks(d) == /\ AtRest(d)
               /\ Registered
               /\ Go(d, "ask")
               /\ mine' = [mine EXCEPT ![d] = gen]
               /\ asked' = asked \cup {<<d, gen>>}
               /\ UNCHANGED <<registryVars, bin, halting, mishap>>

Answered(d) == /\ pc[d] = "ask"
               /\ <<d, mine[d]>> \notin asked
               /\ Go(d, "kill")
               /\ UNCHANGED <<registryVars, actorVars, mine, mishap>>

\* ray.get raises: the actor is gone.
AskedInVain(d) == /\ pc[d] = "ask"
                  /\ ~Resolves(mine[d])
                  /\ Go(d, "kill")
                  /\ asked' = asked \ {<<d, mine[d]>>}
                  /\ UNCHANGED <<registryVars, bin, halting, mine, mishap>>

\* Mutant: a stop() that times out is not followed by the kill.
AskTimesOutForGood(d) == /\ pc[d] = "ask"
                         /\ Resolves(mine[d])
                         /\ mishap' = TRUE
                         /\ Go(d, "down")
                         /\ asked' = asked \ {<<d, mine[d]>>}
                         /\ UNCHANGED <<registryVars, bin, halting, mine>>

\* Mutant: ray.get without a timeout.
AskNeverTimesOut(d) == FALSE

\* actor_response_timeout is over before the actor has answered.
AskTimesOut(d) == /\ pc[d] = "ask"
                  /\ Resolves(mine[d])
                  /\ mishap' = TRUE
                  /\ Go(d, "kill")
                  /\ asked' = asked \ {<<d, mine[d]>>}
                  /\ UNCHANGED <<registryVars, bin, halting, mine>>

\* ray.kill, on the actor that was asked.
KillActor(d) == /\ pc[d] = "kill"
                /\ IF Resolves(mine[d])
                     THEN status' = "dead" /\ halting' = {}
                     ELSE UNCHANGED <<status, halting>>
                /\ Go(d, "down")
                /\ mine' = [mine EXCEPT ![d] = 0]
                /\ UNCHANGED <<gen, bin, asked, mishap>>

------------------------------------------------------------------------------
(* The actor, its binary, and Ray. *)

\* __init__ runs start(): the binary is launched, and nothing reclaimed before.
Launches == /\ status = "pending"
            /\ bin[gen] = "none"
            /\ bin' = [bin EXCEPT ![gen] = "booting"]
            /\ UNCHANGED <<registryVars, halting, asked, driverVars, mishap>>

InitReturns == /\ status = "pending"
               /\ bin[gen] # "none"
               /\ status' = "alive"
               /\ UNCHANGED <<gen, actorVars, driverVars, mishap>>

\* There is no such binary.
InitRaises == /\ status = "pending"
              /\ bin[gen] = "none"
              /\ status' = "dead"
              /\ UNCHANGED <<gen, actorVars, driverVars, mishap>>

BeginsToHalt == /\ Free
                /\ \E d \in Drivers : <<d, gen>> \in asked /\ halting' = {d}
                /\ UNCHANGED <<registryVars, bin, asked, driverVars, mishap>>

\* The binary has exited, or is killed after ten seconds.
Halts == /\ status = "alive"
         /\ halting # {}
         /\ halting' = {}
         /\ bin' = [bin EXCEPT ![gen] = "stopped"]
         /\ asked' = asked \ (halting \X {gen})
         /\ UNCHANGED <<registryVars, driverVars, mishap>>

ProcessDies == /\ status \in {"pending", "alive"}
               /\ mishap' = TRUE
               /\ status' = "zombie"
               /\ halting' = {}
               /\ UNCHANGED <<gen, bin, asked, driverVars>>

IsGivenUp == /\ status = "zombie"
             /\ status' = "dead"
             /\ UNCHANGED <<gen, actorVars, driverVars, mishap>>

Binds(g) == /\ bin[g] = "booting"
            /\ \A h \in Gens : bin[h] # "serving"
            /\ bin' = [bin EXCEPT ![g] = "serving"]
            /\ UNCHANGED <<registryVars, halting, asked, driverVars, mishap>>

\* By itself: a crash, no licence, ports that are taken, or told to by the actor.
Ends(g) == /\ Live(g)
           /\ bin' = [bin EXCEPT ![g] = "ended"]
           /\ UNCHANGED <<registryVars, halting, asked, driverVars, mishap>>

StartStep(d) == \/ Make(d) \/ MakeCollides(d)
                \/ PollAlive(d) \/ PollEnded(d) \/ Probe(d) \/ GetAddr(d) \/ GiveUp(d)
StopStep(d)  == Answered(d) \/ AskedInVain(d) \/ AskTimesOut(d) \/ KillActor(d)
ActorStep    == \/ Launches \/ InitReturns \/ InitRaises
                \/ BeginsToHalt \/ Halts

Next == \/ \E d \in Drivers : \/ Reconnect(d) \/ FindNone(d) \/ StartStep(d)
                              \/ StopFindsNone(d) \/ StopAsks(d) \/ StopStep(d)
        \/ ActorStep \/ ProcessDies \/ IsGivenUp
        \/ \E g \in Gens : Binds(g) \/ Ends(g)

\* A driver in start() or stop() keeps running. startup_timeout ends the waiting however
\* often is_ready answers no.
Fairness == \A d \in Drivers : /\ WF_vars(StartStep(d)) /\ WF_vars(GiveUp(d))
                               /\ WF_vars(StopStep(d))

Spec     == Init /\ [][Next]_vars
FairSpec == Spec /\ Fairness

------------------------------------------------------------------------------
(* What starting and stopping promise. *)

\* Unless an actor process died or a stop() timed out, no binary runs without its actor,
\* however many drivers start, reconnect and stop at the same time, and whichever of
\* them kills the actor another one is waiting for (license_server.py:94-106).
NoStray == ~mishap => \A g \in Gens : Live(g) => Resolves(g)

\* Once every driver has stopped the license server there is no actor left, not even one
\* that never answered its stop() (utils.py:80-82).
StopLeavesNothing == (\A d \in Drivers : pc[d] = "down") => status \in {"dead", "zombie"}

\* As long as nothing was left behind, a start() that returns has seen the binary of its
\* own actor serve, not that of another (actors/license_server.py:64-78).
ReadyMeansOwn ==
  [][\A d \in Drivers : pc[d] = "probe" /\ pc'[d] = "addr" /\ ~mishap
                        => bin[mine[d]] = "serving"]_vars

\* start() and stop() end, although the actor may be stuck in __init__ or be killed by
\* another driver (license_server.py:68-106).
DriversGetThrough ==
  \A d \in Drivers : /\ pc[d] \in {"make", "wait", "probe", "addr"} ~> AtRest(d)
                     /\ pc[d] \in {"ask", "kill"} ~> pc[d] = "down"
=============================================================================
