----------------------------- MODULE Termination -----------------------------
(***************************************************************************)
(* resolve_actor_handles and terminate_actors (actors/utils.py): how a     *)
(* process of the cluster, the scheduler actor or a driver, gets rid of    *)
(* actors it knows by name.  It looks up one name after the other, asks    *)
(* all the actors found to stop, waits for all the answers or until the    *)
(* first error or the timeout, and kills every one of them, whatever the   *)
(* answers were.                                                           *)
(***************************************************************************)
EXTENDS RayActors

CONSTANT Terminators      \* the processes that terminate actors

ASSUME TerminatorsAssumption == Scheduler \in Terminators

VARIABLES job,      \* what each of them is terminating
          halted    \* the actors whose stop() ran: their binary is gone

terminationVars == <<job, halted>>

Handles      == Names \X Nat
Incarnations == Names \X Nat \X Nat

Jobs == [phase   : {"none", "resolve", "stop", "kill"},
         names   : SUBSET Names,            \* still to look up
         handles : SUBSET Handles,          \* found, and not killed yet
         asked   : SUBSET Incarnations]     \* stop() calls without an answer

NoJob            == [phase |-> "none", names |-> {}, handles |-> {}, asked |-> {}]
Terminate(names) == [NoJob EXCEPT !.phase = "resolve", !.names = names]

TerminationTypeOK == /\ job \in [Terminators -> Jobs]
                     /\ halted \subseteq Names

\* Mutant: a name that is gone ends the look-up.
ResolveUntilGone(p) ==
  /\ job[p].phase = "resolve"
  /\ \E n \in job[p].names :
       job' = [job EXCEPT ![p].names = IF Registered(n) THEN @ \ {n} ELSE {},
                          ![p].handles = @ \cup (IF Registered(n) THEN {Handle(n)} ELSE {})]
  /\ UNCHANGED <<rayVars, halted>>

\* get_actor on the next name; one that is gone by now is skipped.
ResolveName(p) ==
  /\ job[p].phase = "resolve"
  /\ \E n \in job[p].names :
       job' = [job EXCEPT ![p].names = @ \ {n},
                          ![p].handles = @ \cup (IF Registered(n) THEN {Handle(n)} ELSE {})]
  /\ UNCHANGED <<rayVars, halted>>

\* actor.stop.remote() on every handle. The call reaches the process that runs
\* now, or starts next: a process that dies takes its calls along.
AskToStop(p) ==
  /\ job[p].phase = "resolve"
  /\ job[p].names = {}
  /\ job' = [job EXCEPT ![p].phase = "stop",
                        ![p].asked = {<<h[1], h[2], restarts[h[1]]>> : h \in job[p].handles}]
  /\ UNCHANGED <<rayVars, halted>>

\* The actor serves one stop() call.
Halt(n) ==
  /\ status[n] = "alive"
  /\ \E p \in Terminators :
       /\ Incarnation(n) \in job[p].asked
       /\ job' = [job EXCEPT ![p].asked = @ \ {Incarnation(n)}]
  /\ halted' = halted \cup {n}
  /\ UNCHANGED rayVars

AllStopped(p) ==
  /\ job[p].phase = "stop"
  /\ job[p].asked = {}
  /\ job' = [job EXCEPT ![p].phase = "kill"]
  /\ UNCHANGED <<rayVars, halted>>

\* Mutant: the timeout ends everything, the kills included.
StopGivesUpKilling(p) ==
  /\ job[p].phase = "stop"
  /\ job[p].asked # {}
  /\ job' = [job EXCEPT ![p].phase = "kill", ![p].asked = {}, ![p].handles = {}]
  /\ UNCHANGED <<rayVars, halted>>

\* Mutant: ray.get without a timeout, which only the death of an actor ends.
StopWaitsForAll(p) ==
  /\ job[p].phase = "stop"
  /\ \E h \in job[p].handles : ~Resolves(h)
  /\ job' = [job EXCEPT ![p].phase = "kill", ![p].asked = {}]
  /\ UNCHANGED <<rayVars, halted>>

\* actor_response_timeout expired, or ray.get raised for one of the actors.
StopGivesUp(p) ==
  /\ job[p].phase = "stop"
  /\ job[p].asked # {}
  /\ job' = [job EXCEPT ![p].phase = "kill", ![p].asked = {}]
  /\ UNCHANGED <<rayVars, halted>>

KillNext(p) ==
  /\ job[p].phase = "kill"
  /\ \E h \in job[p].handles : /\ Kill(h)
                               /\ job' = [job EXCEPT ![p].handles = @ \ {h}]
  /\ UNCHANGED halted

Terminated(p) == job[p].phase = "kill" /\ job[p].handles = {}

\* A new process behind a name runs its own binary.
StartsOver(n) == halted' = halted \ {n} /\ UNCHANGED job
==============================================================================
