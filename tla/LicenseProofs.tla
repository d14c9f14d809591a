---------------------------- MODULE LicenseProofs ----------------------------
(***************************************************************************)
(* Proofs about LicenseServer: for any number of drivers and actors,       *)
(* nothing is left behind unless something failed, the last stop() leaves  *)
(* no actor, and ready means the actor's own binary.                       *)
(***************************************************************************)
EXTENDS LicenseServer, TLAPS

\* Handles refer to actors there were, and a registered actor is one of them.
Counted == /\ Registered => gen \in Gens
           /\ \A d \in Drivers : mine[d] <= gen
           /\ \A d \in Drivers : pc[d] \in {"wait", "probe", "addr", "ask", "kill"} => mine[d] \in Gens
           /\ status = "zombie" => mishap

\* A driver that goes on to kill the actor in all order was answered after the binary
\* was gone; halting names calls still to be answered, or given up.
Answers == ~mishap =>
             \A d \in Drivers :
               /\ Resolves(mine[d])
               /\ \/ pc[d] = "kill"
                  \/ pc[d] = "ask" /\ <<d, mine[d]>> \notin asked
               => bin[mine[d]] = "stopped"

\* Somebody is left who has not stopped the actor there is: its creator, or whoever
\* connected to it, until that driver has killed it.
Watched == status \in {"pending", "alive"} =>
             \E d \in Drivers : \/ pc[d] \in {"wait", "probe", "addr", "up", "failed"}
                                \/ pc[d] \in {"ask", "kill"} /\ mine[d] = gen

\* Together these are inductive.
LicenseInv == TypeOK /\ Counted /\ Answers /\ Watched /\ NoStray

\* The invariant holds in the initial state.
LEMMA LicenseInvInit == Init => LicenseInv
<1> SUFFICES ASSUME Init PROVE LicenseInv
  OBVIOUS
<1>1. TypeOK
  <2>1. 0 \in 0..MaxActors
    BY LicenseAssumption
  <2> QED BY <2>1 DEF Init, TypeOK
<1>2. Counted /\ Answers /\ Watched /\ NoStray
  BY DEF Init, Counted, Answers, Watched, NoStray, Registered, Resolves, Live, Gens
<1> QED
  BY <1>1, <1>2 DEF LicenseInv

\* Every step of start() keeps it.
LEMMA StartKeeps ==
  ASSUME LicenseInv, NEW d \in Drivers, Reconnect(d) \/ FindNone(d) \/ StartStep(d)
  PROVE  LicenseInv'
<1> USE LicenseAssumption DEF LicenseInv, TypeOK, Counted, Answers, Watched, NoStray,
        Registered, Resolves, Live, Gens, AtRest, Go, registryVars, actorVars, driverVars
<1>1. CASE Reconnect(d)
  BY <1>1 DEF Reconnect
<1>2. CASE FindNone(d)
  BY <1>2 DEF FindNone
<1>3. CASE Make(d)
  BY <1>3 DEF Make
<1>4. CASE MakeCollides(d)
  BY <1>4 DEF MakeCollides
<1>5. CASE PollAlive(d)
  BY <1>5 DEF PollAlive, Free
<1>6. CASE PollEnded(d)
  BY <1>6 DEF PollEnded, Free
<1>7. CASE Probe(d)
  BY <1>7 DEF Probe
<1>8. CASE GetAddr(d)
  BY <1>8 DEF GetAddr
<1>9. CASE GiveUp(d)
  BY <1>9 DEF GiveUp
<1> QED
  BY <1>1, <1>2, <1>3, <1>4, <1>5, <1>6, <1>7, <1>8, <1>9 DEF StartStep

\* Every step of stop() keeps it.
LEMMA StopKeeps ==
  ASSUME LicenseInv, NEW d \in Drivers, StopFindsNone(d) \/ StopAsks(d) \/ StopStep(d)
  PROVE  LicenseInv'
<1> USE LicenseAssumption DEF LicenseInv, TypeOK, Counted, Answers, Watched, NoStray,
        Registered, Resolves, Live, Gens, AtRest, Go, registryVars, actorVars, driverVars
<1>1. CASE StopFindsNone(d)
  BY <1>1 DEF StopFindsNone
<1>2. CASE StopAsks(d)
  BY <1>2 DEF StopAsks
<1>3. CASE Answered(d)
  BY <1>3 DEF Answered
<1>4. CASE AskedInVain(d)
  BY <1>4 DEF AskedInVain
<1>5. CASE AskTimesOut(d)
  BY <1>5 DEF AskTimesOut
<1>6. CASE KillActor(d) /\ Resolves(mine[d])
  <2>1. /\ status' = "dead" /\ gen' = gen /\ bin' = bin /\ mishap' = mishap
        /\ halting' = {} /\ asked' = asked
        /\ pc' = [pc EXCEPT ![d] = "down"] /\ mine' = [mine EXCEPT ![d] = 0]
    BY <1>6 DEF KillActor
  <2>2. ~mishap => bin[gen] = "stopped"
    BY <1>6 DEF KillActor
  <2>3. TypeOK'
    BY <2>1
  <2>4. Counted' /\ Answers' /\ Watched'
    BY <2>1
  <2>5. NoStray'
    BY <2>1, <2>2
  <2> QED BY <2>3, <2>4, <2>5
<1>7. CASE KillActor(d) /\ ~Resolves(mine[d])
  <2>1. TypeOK' /\ Counted'
    BY <1>7 DEF KillActor
  <2>2. Answers' /\ NoStray'
    BY <1>7 DEF KillActor
  <2>3. Watched'
    <3>1. ASSUME NEW e \in Drivers, e # d PROVE pc'[e] = pc[e] /\ mine'[e] = mine[e]
      BY <1>7, <3>1 DEF KillActor
    <3>2. status' = status /\ gen' = gen /\ pc[d] = "kill" /\ (Registered => mine[d] # gen)
      BY <1>7 DEF KillActor
    <3> QED BY <3>1, <3>2
  <2> QED BY <2>1, <2>2, <2>3
<1> QED
  BY <1>1, <1>2, <1>3, <1>4, <1>5, <1>6, <1>7 DEF StopStep

\* Every other step keeps it.
LEMMA ActorKeeps ==
  ASSUME LicenseInv,
         \/ ActorStep \/ ProcessDies \/ IsGivenUp \/ UNCHANGED vars
         \/ \E g \in Gens : Binds(g) \/ Ends(g)
  PROVE  LicenseInv'
<1> USE LicenseAssumption DEF LicenseInv, TypeOK, Counted, Answers, Watched, NoStray,
        Registered, Resolves, Live, Gens, registryVars, actorVars, driverVars
<1>1. CASE Launches
  BY <1>1 DEF Launches
<1>2. CASE InitReturns
  BY <1>2 DEF InitReturns
<1>3. CASE InitRaises
  BY <1>3 DEF InitRaises
<1>4. CASE BeginsToHalt
  BY <1>4 DEF BeginsToHalt
<1>5. CASE Halts
  BY <1>5 DEF Halts
<1>6. CASE ProcessDies
  BY <1>6 DEF ProcessDies
<1>7. CASE IsGivenUp
  BY <1>7 DEF IsGivenUp
<1>8. ASSUME NEW g \in Gens, Binds(g) \/ Ends(g) PROVE LicenseInv'
  BY <1>8 DEF Binds, Ends
<1>9. CASE UNCHANGED vars
  BY <1>9 DEF vars
<1> QED
  BY <1>1, <1>2, <1>3, <1>4, <1>5, <1>6, <1>7, <1>8, <1>9 DEF ActorStep

\* LicenseInv is an invariant of the specification.
LEMMA LicenseInvariant == Spec => []LicenseInv
<1>1. LicenseInv /\ [Next]_vars => LicenseInv'
  BY StartKeeps, StopKeeps, ActorKeeps DEF Next
<1> QED
  BY <1>1, LicenseInvInit, PTL DEF Spec

\* The state is what LicenseServer says it is.
THEOREM TypeCorrect == Spec => []TypeOK
<1>1. LicenseInv => TypeOK
  BY DEF LicenseInv
<1> QED
  BY <1>1, LicenseInvariant, PTL

\* Where nothing died or timed out, every binary has its actor.
THEOREM NothingStrays == Spec => []NoStray
<1>1. LicenseInv => NoStray
  BY DEF LicenseInv
<1> QED
  BY <1>1, LicenseInvariant, PTL

\* When all drivers have stopped, the actor is gone.
THEOREM LastStopClears == Spec => []StopLeavesNothing
<1>1. LicenseInv => StopLeavesNothing
  BY DEF LicenseInv, TypeOK, Watched, StopLeavesNothing
<1> QED
  BY <1>1, LicenseInvariant, PTL

\* A start() that returns has seen its own binary, where nothing died or timed out before.
THEOREM ReadyIsOwn == Spec => ReadyMeansOwn
<1>1. ASSUME LicenseInv, [Next]_vars, NEW d \in Drivers,
             pc[d] = "probe", pc'[d] = "addr", ~mishap
      PROVE  bin[mine[d]] = "serving"
  <2>1. PICK e \in Drivers : Probe(e)
    BY <1>1 DEF LicenseInv, TypeOK, Next, StartStep, StopStep, ActorStep, Reconnect, FindNone,
       Make, MakeCollides, PollAlive, PollEnded, GetAddr, GiveUp, StopFindsNone, StopAsks, Answered,
       AskedInVain, AskTimesOut, KillActor, Launches, InitReturns, InitRaises, BeginsToHalt,
       Halts, ProcessDies, IsGivenUp, Binds, Ends, Go, driverVars, vars
  <2>2. d = e
    BY <1>1, <2>1 DEF Probe, Go, LicenseInv, TypeOK
  <2>3. PICK g \in Gens : bin[g] = "serving"
    BY <1>1, <2>1, <2>2 DEF Probe, Go, LicenseInv, TypeOK
  <2>4. Resolves(g) /\ Resolves(mine[d])
    BY <1>1, <2>1, <2>2, <2>3 DEF Probe, LicenseInv, NoStray, Live
  <2> QED BY <2>3, <2>4 DEF Resolves
<1>2. LicenseInv /\ [Next]_vars =>
        [\A d \in Drivers : pc[d] = "probe" /\ pc'[d] = "addr" /\ ~mishap
                            => bin[mine[d]] = "serving"]_vars
  BY <1>1
<1> QED
  BY <1>2, LicenseInvariant, PTL DEF Spec, ReadyMeansOwn
==============================================================================
