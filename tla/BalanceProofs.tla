---------------------------- MODULE BalanceProofs ----------------------------
(***************************************************************************)
(* The load a dispatch pass puts on the nodes, for any registry and any    *)
(* tasks.  The counter of dispatch_pending_tasks numbers the tasks of a    *)
(* pass from 0 on, and the nodes capable of a task are numbered as well:   *)
(* where all tasks have the same k capable nodes, a node gets the tasks    *)
(* whose number leaves one remainder modulo k.                             *)
(***************************************************************************)
EXTENDS SchedulerProofs, FiniteSetTheorems

(* Division *)

LEMMA DivMod ==
  ASSUME NEW k \in Nat \ {0}, NEW i \in Nat
  PROVE  /\ i \div k \in Nat /\ i % k \in 0..(k - 1)
         /\ i = k * (i \div k) + (i % k)
OBVIOUS

LEMMA Multiple == ASSUME NEW k \in Nat, NEW d \in Nat \ {0} PROVE k * d >= k
OBVIOUS

(* Quotient and remainder are unique. *)
LEMMA UniqueDivision ==
  ASSUME NEW k \in Nat \ {0}, NEW q \in Nat, NEW p \in Nat,
         NEW r \in 0..(k - 1), NEW s \in 0..(k - 1), k * q + r = k * p + s
  PROVE  r = s
<1>1. ~ (q > p)
  <2> SUFFICES ASSUME q > p PROVE FALSE
    OBVIOUS
  <2>1. k * (q - p) >= k
    BY Multiple
  <2>2. k * (q - p) = k * q - k * p
    OBVIOUS
  <2> QED
    BY <2>1, <2>2
<1>2. ~ (p > q)
  <2> SUFFICES ASSUME p > q PROVE FALSE
    OBVIOUS
  <2>1. k * (p - q) >= k
    BY Multiple
  <2>2. k * (p - q) = k * p - k * q
    OBVIOUS
  <2> QED
    BY <2>1, <2>2
<1> QED
  BY <1>1, <1>2

(* The numbers of a pass of n tasks that leave remainder a *)
Residues(n, k, a) == {i \in 0..(n - 1) : i % k = a}

(* A number with remainder a but a itself has one with remainder b below. *)
LEMMA Shift ==
  ASSUME NEW n \in Nat, NEW k \in Nat \ {0}, NEW a \in 0..(k - 1), NEW b \in 0..(k - 1),
         NEW i \in Residues(n, k, a) \ {a}
  PROVE  i - a - k + b \in Residues(n, k, b)
<1>1. i \in 0..(n - 1) /\ i % k = a /\ i # a
  BY DEF Residues
<1>2. PICK q \in Nat : i = k * q + a
  <2>1. i \in Nat
    BY <1>1
  <2> QED
    BY <1>1, <2>1, DivMod
<1>3. q # 0
  BY <1>1, <1>2
<1>4. k * (q - 1) = k * q - k /\ k * (q - 1) \in Nat
  BY <1>2, <1>3
<1> DEFINE j == i - a - k + b
<1>5. j = k * (q - 1) + b /\ j \in Nat
  BY <1>2, <1>4
<1>6. j % k = b
  <2>1. j \div k \in Nat /\ j % k \in 0..(k - 1) /\ j = k * (j \div k) + (j % k)
    BY <1>5, DivMod
  <2>2. q - 1 \in Nat
    BY <1>2, <1>3
  <2> QED
    BY <1>5, <2>1, <2>2, UniqueDivision
<1>7. j \in 0..(n - 1)
  BY <1>1, <1>5
<1> QED
  BY <1>6, <1>7 DEF Residues

(* So any two remainders occur equally often, give or take one. *)
LEMMA EvenResidues ==
  ASSUME NEW n \in Nat, NEW k \in Nat \ {0}, NEW a \in 0..(k - 1), NEW b \in 0..(k - 1)
  PROVE  Cardinality(Residues(n, k, a)) <= Cardinality(Residues(n, k, b)) + 1
<1> DEFINE A == Residues(n, k, a)
           B == Residues(n, k, b)
           f == [i \in A \ {a} |-> i - a - k + b]
<1>1. IsFiniteSet(A) /\ IsFiniteSet(B)
  <2>1. IsFiniteSet(0..(n - 1))
    BY FS_Interval
  <2>2. A \subseteq 0..(n - 1) /\ B \subseteq 0..(n - 1)
    BY DEF Residues
  <2> QED
    BY <2>1, <2>2, FS_Subset
<1>2. f \in Injection(A \ {a}, B)
  <2>1. f \in [A \ {a} -> B]
    BY Shift
  <2>2. \A i \in A : i \in Int
    BY DEF Residues
  <2>3. \A i, j \in A \ {a} : f[i] = f[j] => i = j
    BY <2>2
  <2> HIDE DEF A, B, f
  <2> QED
    BY <2>1, <2>3 DEF Injection, IsInjective
<1>3. Cardinality(A \ {a}) <= Cardinality(B)
  <2> HIDE DEF A, B, f
  <2> QED
    BY <1>1, <1>2, FS_Injection
<1>4. Cardinality(A) <= Cardinality(A \ {a}) + 1 /\ Cardinality(A \ {a}) \in Nat
      /\ Cardinality(A) \in Nat /\ Cardinality(B) \in Nat
  <2> HIDE DEF A, B, f
  <2>1. Cardinality(A) \in Nat /\ Cardinality(B) \in Nat
    BY <1>1, FS_CardinalityType
  <2>2. Cardinality(A \ {a}) = IF a \in A THEN Cardinality(A) - 1 ELSE Cardinality(A)
    BY <1>1, FS_RemoveElement
  <2>3. IsFiniteSet(A \ {a})
    BY <1>1, FS_RemoveElement
  <2>4. Cardinality(A \ {a}) \in Nat
    BY <2>3, FS_CardinalityType
  <2> QED
    BY <2>1, <2>2, <2>4
<1> QED
  BY <1>3, <1>4
------------------------------------------------------------------------------
(* Orders *)

(* The tasks of a pass are numbered without a gap. *)
LEMMA OrderIsNumbering ==
  ASSUME NEW S, IsFiniteSet(S), NEW order \in Orders(S)
  PROVE  order \in Bijection(S, 0..(Cardinality(S) - 1))
<1> DEFINE n == Cardinality(S)
           T == 0..(n - 1)
<1>1. n \in Nat
  BY FS_CardinalityType
<1>2. IsFiniteSet(T) /\ Cardinality(T) = n
  BY <1>1, FS_Interval
<1>3. order \in Injection(S, T)
  BY DEF Orders, Injection, IsInjective
<1> HIDE DEF n, T
<1>4. order \in Surjection(S, T)
  BY <1>2, <1>3, FS_Injection DEF n
<1> QED
  BY <1>3, <1>4 DEF Bijection, n, T

(* So are the nodes capable of a task, from 0 on. *)
LEMMA RankFacts ==
  ASSUME NEW D, IsFiniteSet(D), NEW order \in Orders(D), NEW C \in SUBSET D, NEW x \in C
  PROVE  /\ Cardinality(C) \in Nat \ {0} /\ Rank(order, C, x) \in 0..(Cardinality(C) - 1)
         /\ \A y \in C : Rank(order, C, x) = Rank(order, C, y) => x = y
<1> DEFINE Below(y) == {z \in C : order[z] < order[y]}
<1>1. IsFiniteSet(C) /\ \A y \in C : IsFiniteSet(Below(y)) /\ Cardinality(Below(y)) \in Nat
  <2>1. IsFiniteSet(C)
    BY FS_Subset
  <2>2. ASSUME NEW y \in C PROVE IsFiniteSet(Below(y))
    BY <2>1, FS_Subset
  <2> QED
    BY <2>1, <2>2, FS_CardinalityType
<1>2. \A z \in D : order[z] \in Int
  <2>1. Cardinality(D) \in Nat
    BY FS_CardinalityType
  <2> QED
    BY <2>1 DEF Orders
<1>3. \A y, z \in C : order[y] = order[z] => y = z
  BY DEF Orders
<1>4. \A y \in C : Rank(order, C, y) = Cardinality(Below(y))
  BY DEF Rank
<1>5. ASSUME NEW y \in C, NEW z \in C, order[y] < order[z]
      PROVE  Cardinality(Below(y)) < Cardinality(Below(z))
  <2>1. Below(y) \cup {y} \subseteq Below(z) /\ y \notin Below(y)
    BY <1>2, <1>5
  <2>2. Cardinality(Below(y) \cup {y}) = Cardinality(Below(y)) + 1
    BY <1>1, <2>1, FS_AddElement
  <2>3. Cardinality(Below(y) \cup {y}) <= Cardinality(Below(z))
    BY <1>1, <2>1, FS_Subset
  <2> QED
    BY <1>1, <2>2, <2>3
<1>6. Cardinality(C) \in Nat \ {0} /\ Cardinality(Below(x)) \in 0..(Cardinality(C) - 1)
  <2>1. Below(x) \subseteq C \ {x}
    BY <1>2
  <2>2. IsFiniteSet(C \ {x}) /\ Cardinality(C \ {x}) = Cardinality(C) - 1
    BY <1>1, FS_RemoveElement
  <2>3. Cardinality(Below(x)) <= Cardinality(C \ {x})
    BY <2>1, <2>2, FS_Subset
  <2>4. Cardinality(C) \in Nat /\ Cardinality(Below(x)) \in Nat
    BY <1>1, FS_CardinalityType
  <2> QED
    BY <2>2, <2>3, <2>4
<1> HIDE DEF Below
<1>7. ASSUME NEW y \in C, Rank(order, C, x) = Rank(order, C, y) PROVE x = y
  <2>1. ~ (order[x] < order[y]) /\ ~ (order[y] < order[x])
    <3>1. /\ Cardinality(Below(x)) = Cardinality(Below(y))
          /\ Cardinality(Below(x)) \in Nat /\ Cardinality(Below(y)) \in Nat
      BY <1>1, <1>4, <1>7
    <3> QED
      BY <1>5, <3>1
  <2>2. order[x] = order[y]
    BY <1>2, <2>1
  <2> QED
    BY <1>3, <2>2
<1> QED
  BY <1>4, <1>6, <1>7

(* Each node of C gets as many tasks as have numbers with one remainder. *)
Share(target, n) == Cardinality({t \in DOMAIN target : target[t] = n})
Spread(target, C) ==
  \E rank \in [C -> 0..(Cardinality(C) - 1)] : \A n \in C :
    Share(target, n) = Cardinality(Residues(Cardinality(DOMAIN target), Cardinality(C), rank[n]))

(* Where all dispatchable tasks have the same capable nodes, a node is the *)
(* target of those whose number leaves its rank as remainder.              *)
LEMMA TargetsAreResidues ==
  ASSUME NEW seen, IsFiniteSet(DOMAIN seen), IsFiniteSet(Dispatchable(seen)),
         NEW target \in Targets(seen), NEW C \in SUBSET DOMAIN seen,
         \A t \in DOMAIN target : Capable(seen, tasks[t]) = C
  PROVE  Spread(target, C)
<1> DEFINE S == DOMAIN target
           N == Cardinality(S)
           k == Cardinality(C)
<1>1. S = Dispatchable(seen) /\ \A t \in S : target[t] \in C
  BY TargetFacts
<1>2. PICK index \in Orders(S), order \in Orders(DOMAIN seen) :
        RoundRobin(seen, target, index, order)
  BY <1>1 DEF Targets
<1> DEFINE rank == [n \in C |-> Rank(order, C, n)]
<1>3. rank \in [C -> 0..(k - 1)]
  BY RankFacts
<1>4. \A t \in S : Rank(order, C, target[t]) = index[t] % k
  BY <1>2 DEF RoundRobin
<1>5. index \in Bijection(S, 0..(N - 1))
  BY <1>1, OrderIsNumbering
<1>6. ASSUME NEW n \in C
      PROVE  Share(target, n) = Cardinality(Residues(N, k, rank[n]))
  <2> DEFINE L == {t \in S : target[t] = n}
             R == Residues(N, k, rank[n])
             f == [t \in L |-> index[t]]
  <2>1. \A t \in S : t \in L <=> index[t] % k = rank[n]
    BY <1>1, <1>4, RankFacts
  <2>2. /\ \A t \in S : index[t] \in 0..(N - 1)
        /\ \A s, t \in S : index[s] = index[t] => s = t
        /\ \A i \in 0..(N - 1) : \E t \in S : index[t] = i
    BY <1>5 DEF Bijection, Injection, IsInjective, Surjection
  <2>3. f \in [L -> R]
    BY <2>1, <2>2 DEF Residues
  <2>4. \A i \in R : \E t \in L : f[t] = i
    BY <2>1, <2>2 DEF Residues
  <2>5. \A s, t \in L : f[s] = f[t] => s = t
    BY <2>2
  <2>6. IsFiniteSet(L)
    BY <1>1, FS_Subset
  <2> HIDE DEF L, R, f
  <2>7. f \in Bijection(L, R)
    BY <2>3, <2>4, <2>5 DEF Bijection, Injection, IsInjective, Surjection
  <2>8. Cardinality(R) = Cardinality(L)
    BY <2>6, <2>7, FS_Bijection DEF ExistsBijection
  <2> QED
    BY <2>8 DEF L, R, Share
<1> HIDE DEF rank
<1> QED
  BY <1>3, <1>6 DEF Spread
------------------------------------------------------------------------------
(* The maps of the hub are finite at any time, whatever TaskId and NodeId. *)
FiniteMaps ==
  /\ IsFiniteSet(DOMAIN tasks) /\ IsFiniteSet(DOMAIN nodes)
  /\ \A d \in Dispatcher : IsFiniteSet(DOMAIN snapshot[d])

LEMMA FiniteInit == Init => FiniteMaps
BY FS_EmptySet DEF Init, EmptyMap, FiniteMaps

LEMMA FiniteStep == RegistryOK /\ FiniteMaps /\ [Next]_vars => FiniteMaps'
<1> SUFFICES ASSUME RegistryOK, FiniteMaps, [Next]_vars PROVE FiniteMaps'
  OBVIOUS
<1>1. IsFiniteSet(DOMAIN tasks')
  <2>1. (DOMAIN tasks' = DOMAIN tasks) \/ \E t \in TaskId : DOMAIN tasks' = DOMAIN tasks \cup {t}
    BY DEF Next, vars, Register, AuthenticateAndRegister, Unregister, EvictOffline, Retain, Submit,
           Put, Progress, HandleNodeFailure, ListNodes, AssignPending, Assign
  <2> QED
    BY <2>1, FS_AddElement DEF FiniteMaps
<1>2. IsFiniteSet(DOMAIN nodes')
  <2>1. DOMAIN nodes' \subseteq DOMAIN nodes
          \/ \E n \in NodeId : DOMAIN nodes' = DOMAIN nodes \cup {n}
    BY DEF Next, vars, Register, AuthenticateAndRegister, Unregister, EvictOffline, Retain, Submit,
           Put, Restrict, Progress, HandleNodeFailure, ListNodes, AssignPending, Assign
  <2> QED
    BY <2>1, FS_AddElement, FS_Subset DEF FiniteMaps
<1>3. ASSUME NEW d \in Dispatcher PROVE IsFiniteSet(DOMAIN snapshot'[d])
  <2>1. snapshot'[d] \in {snapshot[d], nodes, EmptyMap}
    BY DEF Next, vars, Register, AuthenticateAndRegister, Unregister, EvictOffline, Retain, Submit,
           Progress, HandleNodeFailure, ListNodes, AssignPending, Assign, RegistryOK
  <2> QED
    BY <2>1, FS_EmptySet DEF FiniteMaps, EmptyMap
<1> QED
  BY <1>1, <1>2, <1>3 DEF FiniteMaps

LEMMA FiniteAlways == Spec => []FiniteMaps
<1>1. IInv /\ FiniteMaps /\ [Next]_vars => FiniteMaps'
  BY FiniteStep, IInvParts
<1> QED
  BY <1>1, FiniteInit, Invariance, PTL DEF Spec
------------------------------------------------------------------------------
(* What a pass starts, and where *)
LEMMA PassStarts ==
  ASSUME TasksOK, NEW d \in Dispatcher, NEW target \in Targets(snapshot[d]), Assign(d, target)
  PROVE  /\ Started = DOMAIN target
         /\ \A n : Load(n) = Share(target, n)
<1>1. /\ DOMAIN target \subseteq DOMAIN tasks /\ DOMAIN tasks' = DOMAIN tasks
      /\ \A t \in DOMAIN target : tasks[t].state = "Pending"
  BY TargetFacts DEF Assign
<1>2. \A t \in DOMAIN tasks \ DOMAIN target : tasks'[t] = tasks[t]
  BY <1>1 DEF Assign
<1>3. ASSUME NEW t \in DOMAIN target
      PROVE  tasks'[t].state = "Running" /\ tasks'[t].node = target[t]
  <2>1. tasks'[t] = [tasks[t] EXCEPT !.state = "Running", !.node = target[t]]
    BY <1>1 DEF Assign
  <2>2. tasks[t] \in Task
    BY <1>1 DEF TasksOK, WellFormed
  <2> QED
    BY <2>1, <2>2 DEF Task
<1>4. Started = DOMAIN target
  BY <1>1, <1>2, <1>3 DEF Started
<1>5. ASSUME NEW n PROVE Load(n) = Share(target, n)
  <2>1. {t \in Started : tasks'[t].node = n} = {t \in DOMAIN target : target[t] = n}
    BY <1>3, <1>4
  <2> QED
    BY <2>1 DEF Load, Share
<1> QED
  BY <1>4, <1>5

(* Only a pass takes a node list and starts tasks. *)
LEMMA StartedByPass ==
  ASSUME RegistryOK, [Next]_vars, NEW d \in Dispatcher, snapshot'[d] # snapshot[d], Started # {}
  PROVE  AssignPending(d)
<1>1. tasks' # tasks
  BY DEF Started
<1>2. snapshot' # snapshot
  OBVIOUS
<1>3. PICK e \in Dispatcher : AssignPending(e)
  BY <1>1, <1>2 DEF Next, vars, Register, AuthenticateAndRegister, Unregister, EvictOffline, Retain,
                    Submit, Progress, HandleNodeFailure, ListNodes
<1>4. \A x \in Dispatcher \ {e} : snapshot'[x] = snapshot[x]
  BY <1>3 DEF AssignPending, Assign, RegistryOK
<1> QED
  BY <1>3, <1>4

LEMMA PassIsBalanced ==
  ASSUME TasksOK, RegistryOK, FiniteMaps, [Next]_vars,
         NEW d \in Dispatcher, snapshot'[d] # snapshot[d],
         NEW C, C = UNION {Capable(snapshot[d], tasks[t]) : t \in Started},
         \A t \in Started : Capable(snapshot[d], tasks[t]) = C,
         NEW m \in C, NEW n \in C
  PROVE  Load(m) <= Load(n) + 1
<1> DEFINE seen == snapshot[d]
<1>1. AssignPending(d)
  BY StartedByPass
<1>2. PICK target \in Targets(seen) : Assign(d, target)
  BY <1>1 DEF AssignPending
<1>3. /\ Started = DOMAIN target
      /\ Load(m) = Share(target, m) /\ Load(n) = Share(target, n)
  BY <1>2, PassStarts
<1>4. C \in SUBSET DOMAIN seen
  BY DEF Capable
<1>5. /\ DOMAIN target = Dispatchable(seen)
      /\ IsFiniteSet(DOMAIN target) /\ IsFiniteSet(DOMAIN seen) /\ IsFiniteSet(C)
  <2>1. DOMAIN target = Dispatchable(seen) /\ Dispatchable(seen) \subseteq DOMAIN tasks
    BY TargetFacts DEF Dispatchable
  <2> QED
    BY <1>4, <2>1, FS_Subset DEF FiniteMaps
<1> DEFINE N == Cardinality(DOMAIN target)
           k == Cardinality(C)
<1>6. N \in Nat /\ k \in Nat \ {0}
  BY <1>5, FS_CardinalityType, FS_EmptySet
<1>7. PICK rank \in [C -> 0..(k - 1)] :
        \A x \in C : Share(target, x) = Cardinality(Residues(N, k, rank[x]))
  <2>1. \A t \in DOMAIN target : Capable(seen, tasks[t]) = C
    BY <1>3
  <2>2. Spread(target, C)
    BY <1>2, <1>4, <1>5, <2>1, TargetsAreResidues
  <2> QED
    BY <2>2 DEF Spread
<1> HIDE DEF N, k
<1>8. Cardinality(Residues(N, k, rank[m])) <= Cardinality(Residues(N, k, rank[n])) + 1
  BY <1>6, EvenResidues
<1> QED
  BY <1>3, <1>7, <1>8

(* One pass over tasks that the same nodes can run spreads them evenly: no *)
(* node gets two tasks more than another, in whatever order the maps are   *)
(* walked.                                                                 *)
THEOREM PassesAreBalanced == Spec => BalancedPass
<1> DEFINE Even == \A d \in Dispatcher :
       LET seen == snapshot[d]
           C == UNION {Capable(seen, tasks[t]) : t \in Started}
       IN  (snapshot'[d] # seen /\ \A t \in Started : Capable(seen, tasks[t]) = C)
             => \A m, n \in C : Load(m) <= Load(n) + 1
<1>1. IInv /\ FiniteMaps /\ [Next]_vars => [Even]_vars
  BY PassIsBalanced, IInvParts
<1> QED
  BY <1>1, FiniteAlways, Invariance, PTL DEF Spec, BalancedPass
==============================================================================
