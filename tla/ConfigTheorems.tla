---------------------------- MODULE ConfigTheorems ----------------------------
(* What follows from a configuration: when workers that share a host share ports, and how *)
(* the numbers of workers seeded for queries relate. *)
EXTENDS Ports, QueryDefaults, TLAPS

\* With single_host_cluster, workers never share a port as long as no multiple of two
\* lies between the task port and the shuffle port (config.py:811-815: "without port
\* collisions").
THEOREM OffsetsSeparate ==
  ASSUME SingleHost, \A k \in Int : ShufflePort - TaskPort # 2 * k,
         NEW v \in Nat, NEW w \in Nat, v # w
  PROVE  WorkerPorts(v) \cap WorkerPorts(w) = {}
<1>1. TaskPort \in Int /\ ShufflePort \in Int
  BY PortsAssumption
<1>2. TaskPort + 2 * v # TaskPort + 2 * w /\ ShufflePort + 2 * v # ShufflePort + 2 * w
  BY <1>1
<1>3. v - w \in Int /\ w - v \in Int
  OBVIOUS
<1>4. ShufflePort - TaskPort # 2 * (v - w) /\ ShufflePort - TaskPort # 2 * (w - v)
  BY <1>3
<1>5. TaskPort + 2 * v # ShufflePort + 2 * w /\ ShufflePort + 2 * v # TaskPort + 2 * w
  BY <1>1, <1>4
<1> QED
  BY <1>2, <1>5 DEF WorkerPorts, WorkerPortOffset

\* Where 2 * k does lie between them, the task port of worker w + k is the shuffle port of
\* worker w: nothing in the configuration forbids it.
THEOREM OffsetsClash ==
  ASSUME SingleHost, NEW k \in Nat, ShufflePort = TaskPort + 2 * k, NEW w \in Nat
  PROVE  WorkerPorts(w) \cap WorkerPorts(w + k) # {}
<1>1. ShufflePort + 2 * w = TaskPort + 2 * (w + k)
  BY PortsAssumption
<1> QED
  BY <1>1 DEF WorkerPorts, WorkerPortOffset

\* With autoscaling the binary always gets a default number of workers per query
\* (config.py:602: "required by the binary when autoscaling is enabled"), be everything
\* else unset or 0.
THEOREM AutoscalingHasDefault == ASSUME Typed, ScalingEnabled PROVE DefaultPerQuery > 0
  BY DEF Typed, DefaultPerQuery, Or

\* The default seeded for a query stays within the bound seeded for it, if the cluster's
\* sizes stay within max_workers themselves.
THEOREM DefaultFits ==
  ASSUME Typed, MaxWorkersPerQuery = 0, DefaultWorkersPerQuery = 0,
         Bound # 0 => NumWorkers <= Bound /\ MinWorkers <= Bound
  PROVE  MaxPerQuery = 0 \/ DefaultPerQuery <= MaxPerQuery
<1>1. CASE Bound # 0
  <2>1. Bound \in Nat
    BY DEF Typed, Bound
  <2>2. MaxPerQuery = Bound
    BY <1>1 DEF MaxPerQuery, Or
  <2>3. DefaultPerQuery <= Bound
    BY <1>1, <2>1 DEF Typed, DefaultPerQuery, Or
  <2> QED
    BY <2>2, <2>3
<1>2. CASE Bound = 0 /\ NumWorkers # 0
  <2>1. MaxPerQuery = NumWorkers /\ DefaultPerQuery = NumWorkers
    BY <1>2 DEF MaxPerQuery, DefaultPerQuery, Or
  <2> QED
    BY <2>1 DEF Typed
<1>3. CASE Bound = 0 /\ NumWorkers = 0
  BY <1>3 DEF MaxPerQuery, Or
<1> QED
  BY <1>1, <1>2, <1>3

\* Else it does not: a cluster may start more workers than max_workers (src/README.md:169),
\* and then a query gets more of them by default than any query may use.
THEOREM DefaultExceeds ==
  ASSUME Typed, MaxWorkersPerQuery = 0, DefaultWorkersPerQuery = 0,
         Bound # 0, NumWorkers > Bound
  PROVE  DefaultPerQuery > MaxPerQuery
<1>1. Bound \in Nat /\ NumWorkers \in Nat /\ NumWorkers # 0
  BY DEF Typed, Bound
<1>2. MaxPerQuery = Bound /\ DefaultPerQuery = NumWorkers
  BY <1>1 DEF MaxPerQuery, DefaultPerQuery, Or
<1> QED
  BY <1>1, <1>2
==============================================================================
