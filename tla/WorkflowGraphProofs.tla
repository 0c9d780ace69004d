------------------------ MODULE WorkflowGraphProofs ------------------------
(***************************************************************************)
(* Proofs about WorkflowGraph: compilation is exact, for every definition  *)
(* with finitely many nodes.                                               *)
(*                                                                         *)
(* The loop of the compiler is a recursive function on the sets of         *)
(* remaining nodes.  Both that it is well defined and what it computes are *)
(* shown by induction on these sets, in the form of a smallest             *)
(* counterexample: a set of counterexamples that is not empty has a member *)
(* none of whose proper subsets is in it.                                  *)
(***************************************************************************)
EXTENDS WorkflowGraph, FiniteSetTheorems, WellFoundedInduction, TLAPS

-----------------------------------------------------------------------------
(* Induction on the subsets of a finite set                                *)

\* Sets of subsets of a finite set that are not empty have a smallest member.
LEMMA Smallest ==
    ASSUME NEW N, IsFiniteSet(N), NEW B \in SUBSET SUBSET N, B # {}
    PROVE  \E T \in B : \A U \in B : ~(U \subseteq T /\ U # T)
<1>1. IsWellFoundedOn(StrictSubsetOrdering(N), SUBSET N)
  BY FS_StrictSubsetOrderingWellFounded, FS_FiniteSubsetsOfFinite
<1>2. \E T \in B : \A U \in B : ~(<<U, T>> \in StrictSubsetOrdering(N))
  BY <1>1, WFMin
<1>3. PICK T \in B : \A U \in B : ~(<<U, T>> \in StrictSubsetOrdering(N))
  BY <1>2
<1>4. ASSUME NEW U \in B PROVE ~(U \subseteq T /\ U # T)
  <2>1. U \in SUBSET N /\ T \in SUBSET N
    BY <1>3
  <2>2. <<U, T>> \notin StrictSubsetOrdering(N)
    BY <1>3
  <2> QED BY <2>1, <2>2 DEF StrictSubsetOrdering
<1> QED BY <1>3, <1>4

\* A set of subsets that holds every set whose proper subsets it holds is all of them.
LEMMA SubsetInduction ==
    ASSUME NEW N, IsFiniteSet(N), NEW G,
           \A T \in SUBSET N : (\A U \in SUBSET T : U # T => U \in G) => T \in G
    PROVE  \A T \in SUBSET N : T \in G
<1>1. SUFFICES ASSUME \E T \in SUBSET N : T \notin G PROVE FALSE
  OBVIOUS
<1>2. PICK B : B = {T \in SUBSET N : T \notin G}
  OBVIOUS
<1>3. B \in SUBSET SUBSET N /\ B # {}
  BY <1>1, <1>2
<1>4. PICK T \in B : \A U \in B : ~(U \subseteq T /\ U # T)
  BY <1>3, Smallest
<1>5. T \in SUBSET N /\ T \notin G
  BY <1>2, <1>4
<1>6. \A U \in SUBSET T : U # T => U \in G
  BY <1>2, <1>4, <1>5
<1> QED BY <1>5, <1>6

\* A finite set of numbers that is not empty has a first one.
LEMMA FirstIsLeast ==
    ASSUME NEW S \in SUBSET Nat, IsFiniteSet(S), S # {}
    PROVE  First(S) \in S /\ \A m \in S : First(S) <= m
<1>1. PICK G : G = {T \in SUBSET S : T # {} => \E n \in T : \A m \in T : n <= m}
  OBVIOUS
<1>2. ASSUME NEW T \in SUBSET S, \A U \in SUBSET T : U # T => U \in G, T # {}
      PROVE  \E n \in T : \A m \in T : n <= m
  <2>1. PICK x \in T : TRUE
    BY <1>2
  <2>2. PICK U : U = T \ {x}
    OBVIOUS
  <2>3. U \in G
    BY <1>2, <2>1, <2>2
  <2>4. CASE U = {}
    BY <2>1, <2>2, <2>4
  <2>5. CASE U # {}
    <3>1. PICK n \in U : \A m \in U : n <= m
      BY <1>1, <2>3, <2>5
    <3>2. n \in Nat /\ x \in Nat /\ T \subseteq Nat /\ n \in T
      BY <1>2, <2>1, <2>2, <3>1
    <3>3. CASE n <= x
      <4>1. \A m \in T : n <= m
        BY <2>2, <3>1, <3>3
      <4> QED BY <3>2, <4>1
    <3>4. CASE ~(n <= x)
      <4>1. \A m \in T : x <= m
        BY <2>2, <3>1, <3>2, <3>4
      <4> QED BY <2>1, <4>1
    <3> QED BY <3>3, <3>4
  <2> QED BY <2>4, <2>5
<1>3. \A T \in SUBSET S : (\A U \in SUBSET T : U # T => U \in G) => T \in G
  BY <1>1, <1>2
<1>4. \A T \in SUBSET S : T \in G
  BY <1>3, SubsetInduction
<1>5. \E n \in S : \A m \in S : n <= m
  BY <1>1, <1>4
<1> QED BY <1>5 DEF First

-----------------------------------------------------------------------------
(* The loop is well defined                                                *)

Picked(dependencies, remaining) == First(Ready(dependencies, remaining))
Rest(dependencies, remaining) == remaining \ {Picked(dependencies, remaining)}

\* f is the loop, on the subsets of N.
Loops(f, N, dependencies) ==
    f = [remaining \in SUBSET N |->
           IF Ready(dependencies, remaining) = {} THEN <<>>
           ELSE <<Picked(dependencies, remaining)>> \o f[Rest(dependencies, remaining)]]

Loop(N, dependencies) == CHOOSE f : Loops(f, N, dependencies)

\* The definition of the order, in these words.
LEMMA SortedIsLoop ==
    ASSUME NEW N, NEW dependencies
    PROVE  Sorted(N, dependencies) = Loop(N, dependencies)[N]
BY DEF Sorted, Loop, Loops, Picked, Rest

\* A node that is ready is picked, and the rest is smaller.
LEMMA PickedIsReady ==
    ASSUME NEW R \in SUBSET Nat, IsFiniteSet(R), NEW D, Ready(D, R) # {}
    PROVE  /\ Picked(D, R) \in Ready(D, R) /\ Picked(D, R) \in R
           /\ Rest(D, R) \in SUBSET R /\ Rest(D, R) # R
<1>1. Ready(D, R) \in SUBSET R
  BY DEF Ready
<1>2. IsFiniteSet(Ready(D, R)) /\ Ready(D, R) \in SUBSET Nat
  BY <1>1, FS_Subset
<1>3. Picked(D, R) \in Ready(D, R)
  BY <1>2, FirstIsLeast DEF Picked
<1> QED BY <1>1, <1>3 DEF Rest

\* What a loop does for one set of remaining nodes.
LEMMA LoopUnfolds ==
    ASSUME NEW f, NEW N, NEW D, Loops(f, N, D), NEW R \in SUBSET N
    PROVE  f[R] = IF Ready(D, R) = {} THEN <<>> ELSE <<Picked(D, R)>> \o f[Rest(D, R)]
<1>1. f = [remaining \in SUBSET N |->
             IF Ready(D, remaining) = {} THEN <<>>
             ELSE <<Picked(D, remaining)>> \o f[Rest(D, remaining)]]
  BY DEF Loops
<1> QED BY ONLY <1>1, R \in SUBSET N

\* Two loops agree where both are defined.
LEMMA LoopsAgree ==
    ASSUME NEW S \in SUBSET Nat, IsFiniteSet(S), NEW D, NEW N, NEW M, S \subseteq N, S \subseteq M,
           NEW f, Loops(f, N, D), NEW g, Loops(g, M, D)
    PROVE  f[S] = g[S]
<1>1. PICK G : G = {R \in SUBSET S : f[R] = g[R]}
  OBVIOUS
<1>2. ASSUME NEW T \in SUBSET S, \A U \in SUBSET T : U # T => U \in G
      PROVE  T \in G
  <2>1. T \in SUBSET N /\ T \in SUBSET M /\ T \in SUBSET Nat /\ IsFiniteSet(T)
    BY <1>2, FS_Subset
  <2>4. f[T] = IF Ready(D, T) = {} THEN <<>> ELSE <<Picked(D, T)>> \o f[Rest(D, T)]
    BY ONLY <2>1, Loops(f, N, D) DEF Loops
  <2>5. g[T] = IF Ready(D, T) = {} THEN <<>> ELSE <<Picked(D, T)>> \o g[Rest(D, T)]
    BY ONLY <2>1, Loops(g, M, D) DEF Loops
  <2>2. CASE Ready(D, T) = {}
    <3>1. f[T] = g[T]
      BY ONLY <2>2, <2>4, <2>5
    <3> QED BY <1>1, <3>1
  <2>3. CASE Ready(D, T) # {}
    <3>1. Rest(D, T) \in SUBSET T /\ Rest(D, T) # T
      BY <2>1, <2>3, PickedIsReady
    <3>2. f[Rest(D, T)] = g[Rest(D, T)]
      BY <1>1, <1>2, <3>1
    <3>3. f[T] = g[T]
      BY ONLY <2>3, <2>4, <2>5, <3>2
    <3> QED BY <1>1, <3>3
  <2> QED BY <2>2, <2>3
<1>3. \A T \in SUBSET S : T \in G
  BY <1>2, SubsetInduction
<1> QED BY <1>1, <1>3

\* The loop exists on the subsets of a set, if it exists on those of its proper subsets.
LEMMA LoopExtends ==
    ASSUME NEW T \in SUBSET Nat, IsFiniteSet(T), NEW D,
           \A U \in SUBSET T : U # T => \E f : Loops(f, U, D)
    PROVE  \E f : Loops(f, T, D)
<1>1. PICK last : last = IF Ready(D, T) = {} THEN <<>>
                         ELSE <<Picked(D, T)>> \o Loop(Rest(D, T), D)[Rest(D, T)]
  OBVIOUS
<1>2. PICK f : f = [R \in SUBSET T |-> IF R = T THEN last ELSE Loop(R, D)[R]]
  OBVIOUS
<1>3. f[T] = last /\ \A R \in SUBSET T : R # T => f[R] = Loop(R, D)[R]
  BY <1>2
<1>4. \A U \in SUBSET T : U # T => Loops(Loop(U, D), U, D)
  BY DEF Loop
<1>5. \A R \in SUBSET T : Ready(D, R) # {} => Rest(D, R) \in SUBSET R /\ Rest(D, R) # R
  BY FS_Subset, PickedIsReady
<1>6. ASSUME NEW R \in SUBSET T
      PROVE  f[R] = IF Ready(D, R) = {} THEN <<>> ELSE <<Picked(D, R)>> \o f[Rest(D, R)]
  <2>1. CASE R = T
    BY <1>1, <1>3, <1>5, <2>1
  <2>2. CASE R # T
    <3>1. f[R] = Loop(R, D)[R] /\ Loops(Loop(R, D), R, D)
      BY <1>3, <1>4, <2>2
    <3>2. PICK g : g = Loop(R, D)
      OBVIOUS
    <3>3. g[R] = IF Ready(D, R) = {} THEN <<>> ELSE <<Picked(D, R)>> \o g[Rest(D, R)]
      BY <3>1, <3>2, LoopUnfolds
    <3>4. CASE Ready(D, R) = {}
      BY ONLY <3>1, <3>2, <3>3, <3>4
    <3>5. CASE Ready(D, R) # {}
      <4>1. PICK U, h : U = Rest(D, R) /\ h = Loop(U, D)
        OBVIOUS
      <4>2. U \in SUBSET R /\ U # R /\ U \in SUBSET T /\ U # T
        BY <1>5, <3>5, <4>1
      <4>3. f[U] = h[U] /\ Loops(h, U, D)
        BY <1>3, <1>4, <4>1, <4>2
      <4>4. U \in SUBSET Nat /\ IsFiniteSet(U)
        BY <4>2, FS_Subset
      <4>5. g[U] = h[U]
        BY <3>1, <3>2, <4>2, <4>3, <4>4, LoopsAgree
      <4> QED BY ONLY <3>1, <3>2, <3>3, <3>5, <4>1, <4>3, <4>5
    <3> QED BY <3>4, <3>5
  <2> QED BY <2>1, <2>2
<1>7. f = [R \in SUBSET T |-> f[R]]
  BY <1>2
<1>8. Loops(f, T, D)
  BY <1>6, <1>7 DEF Loops
<1> QED BY <1>8

\* The loop exists for every finite set of nodes.
LEMMA LoopExists ==
    ASSUME NEW N \in SUBSET Nat, IsFiniteSet(N), NEW D
    PROVE  Loops(Loop(N, D), N, D)
<1>1. PICK G : G = {T \in SUBSET N : \E f : Loops(f, T, D)}
  OBVIOUS
<1>2. ASSUME NEW T \in SUBSET N, \A U \in SUBSET T : U # T => U \in G
      PROVE  T \in G
  <2>1. T \in SUBSET Nat /\ IsFiniteSet(T)
    BY FS_Subset
  <2>2. \A U \in SUBSET T : U # T => \E f : Loops(f, U, D)
    BY <1>1, <1>2
  <2>3. \E f : Loops(f, T, D)
    BY <2>1, <2>2, LoopExtends
  <2> QED BY <1>1, <2>3
<1>3. \A T \in SUBSET N : T \in G
  BY <1>2, SubsetInduction
<1>4. \E f : Loops(f, N, D)
  BY <1>1, <1>3
<1> QED BY <1>4 DEF Loop

-----------------------------------------------------------------------------
(* What the loop computes                                                  *)

\* order runs nodes of R, none before what it depends on, and all of them if it is as long.
Sorts(order, R, D) ==
    /\ order \in Seq(R)
    /\ Len(order) <= Cardinality(R)
    /\ \A i, j \in DOMAIN order : <<order[i], order[j]>> \in D => i < j
    /\ Len(order) = Cardinality(R) => {order[i] : i \in DOMAIN order} = R

\* A ready node in front of an order of the rest.
LEMMA SortsLonger ==
    ASSUME NEW R \in SUBSET Nat, IsFiniteSet(R), NEW D, Ready(D, R) # {},
           NEW rest, Sorts(rest, Rest(D, R), D)
    PROVE  Sorts(<<Picked(D, R)>> \o rest, R, D)
<1>1. PICK x, U : x = Picked(D, R) /\ U = Rest(D, R)
  OBVIOUS
<1>2. x \in R /\ x \in Ready(D, R) /\ U = R \ {x}
  BY <1>1, PickedIsReady DEF Rest
<1>3. \A e \in D : e[2] = x => e[1] \notin R
  BY <1>2 DEF Ready
<1>4. IsFiniteSet(U) /\ Cardinality(U) = Cardinality(R) - 1
  BY <1>2, FS_RemoveElement
<1>5. Cardinality(R) \in Nat /\ Cardinality(U) \in Nat
  BY <1>4, FS_CardinalityType
<1>6. /\ rest \in Seq(U) /\ Len(rest) <= Cardinality(U)
      /\ \A i, j \in DOMAIN rest : <<rest[i], rest[j]>> \in D => i < j
      /\ Len(rest) = Cardinality(U) => {rest[i] : i \in DOMAIN rest} = U
  BY <1>1 DEF Sorts
<1>7. PICK s : s = <<x>> \o rest
  OBVIOUS
<1>8. rest \in Seq(R)
  BY ONLY <1>2, <1>6
<1>9. /\ s \in Seq(R) /\ Len(s) = Len(rest) + 1 /\ s[1] = x /\ Len(rest) \in Nat
      /\ DOMAIN s = 1 .. Len(rest) + 1 /\ DOMAIN rest = 1 .. Len(rest)
      /\ \A i \in DOMAIN s : i # 1 => s[i] = rest[i - 1] /\ i - 1 \in DOMAIN rest
  BY ONLY <1>2, <1>7, <1>8
<1>10. Len(s) <= Cardinality(R)
  BY ONLY <1>4, <1>5, <1>6, <1>9
<1>11. ASSUME NEW i \in DOMAIN s, NEW j \in DOMAIN s, <<s[i], s[j]>> \in D
       PROVE  i < j
  <2>1. s[i] \in R /\ s[j] \in R /\ i \in Nat /\ j \in Nat /\ i >= 1 /\ j >= 1
    BY <1>9, <1>11
  <2>2. j # 1
    <3>1. <<s[i], s[j]>>[1] = s[i] /\ <<s[i], s[j]>>[2] = s[j]
      OBVIOUS
    <3>2. s[j] # x
      BY <1>3, <1>11, <2>1, <3>1
    <3> QED BY <1>9, <3>2
  <2>3. CASE i = 1
    BY ONLY <2>1, <2>2, <2>3
  <2>4. CASE i # 1
    <3>1. /\ s[i] = rest[i - 1] /\ s[j] = rest[j - 1]
          /\ i - 1 \in DOMAIN rest /\ j - 1 \in DOMAIN rest
      BY ONLY <1>9, <2>2, <2>4, i \in DOMAIN s, j \in DOMAIN s
    <3>2. i - 1 < j - 1
      BY ONLY <1>6, <1>11, <3>1
    <3> QED BY ONLY <2>1, <3>2
  <2> QED BY <2>3, <2>4
<1>12. ASSUME Len(s) = Cardinality(R)
       PROVE  {s[i] : i \in DOMAIN s} = R
  <2>1. {rest[i] : i \in DOMAIN rest} = U
    BY ONLY <1>4, <1>5, <1>6, <1>9, <1>12
  <2>2. ASSUME NEW y \in R PROVE \E i \in DOMAIN s : s[i] = y
    <3>1. CASE y = x
      BY ONLY <1>9, <3>1
    <3>2. CASE y # x
      <4>1. PICK i \in DOMAIN rest : rest[i] = y
        BY <1>2, <2>1, <2>2, <3>2
      <4>2. i + 1 \in DOMAIN s /\ i + 1 # 1 /\ (i + 1) - 1 = i
        BY ONLY <1>9, <4>1
      <4>3. s[i + 1] = rest[i]
        BY ONLY <1>9, <4>2
      <4> QED BY <4>1, <4>2, <4>3
    <3> QED BY <3>1, <3>2
  <2>3. \A i \in DOMAIN s : s[i] \in R
    BY ONLY <1>9
  <2> QED BY ONLY <2>2, <2>3
<1> QED BY <1>1, <1>7, <1>9, <1>10, <1>11, <1>12 DEF Sorts

\* The order of compilation.
LEMMA SortedSorts ==
    ASSUME NEW N \in SUBSET Nat, IsFiniteSet(N), NEW D
    PROVE  Sorts(Sorted(N, D), N, D)
<1>1. PICK f : f = Loop(N, D)
  OBVIOUS
<1>2. Loops(f, N, D)
  BY <1>1, LoopExists
<1>3. PICK G : G = {T \in SUBSET N : Sorts(f[T], T, D)}
  OBVIOUS
<1>4. ASSUME NEW T \in SUBSET N, \A U \in SUBSET T : U # T => U \in G
      PROVE  T \in G
  <2>1. T \in SUBSET Nat /\ IsFiniteSet(T)
    BY FS_Subset
  <2>2. f[T] = IF Ready(D, T) = {} THEN <<>> ELSE <<Picked(D, T)>> \o f[Rest(D, T)]
    BY ONLY <1>2, T \in SUBSET N DEF Loops
  <2>3. CASE Ready(D, T) = {}
    <3>1. f[T] = <<>>
      BY ONLY <2>2, <2>3
    <3>2. Cardinality(T) \in Nat /\ (Cardinality(T) = 0 => T = {})
      BY <2>1, FS_CardinalityType, FS_EmptySet
    <3>3. Sorts(<<>>, T, D)
      <4>1. PICK s : s = <<>>
        OBVIOUS
      <4>2. s \in Seq(T) /\ Len(s) = 0 /\ DOMAIN s = {}
        BY <4>1
      <4>3. {s[i] : i \in DOMAIN s} = {}
        BY <4>2
      <4>4. Sorts(s, T, D)
        <5>1. Len(s) = Cardinality(T) => {s[i] : i \in DOMAIN s} = T
          BY ONLY <3>2, <4>2, <4>3
        <5>2. \A i, j \in DOMAIN s : <<s[i], s[j]>> \in D => i < j
          BY ONLY <4>2
        <5>3. s \in Seq(T) /\ Len(s) <= Cardinality(T)
          BY ONLY <3>2, <4>2
        <5> QED BY <5>1, <5>2, <5>3 DEF Sorts
      <4> QED BY <4>1, <4>4
    <3> QED BY <1>3, <3>1, <3>3
  <2>4. CASE Ready(D, T) # {}
    <3>1. Rest(D, T) \in SUBSET T /\ Rest(D, T) # T
      BY <2>1, <2>4, PickedIsReady
    <3>2. Sorts(f[Rest(D, T)], Rest(D, T), D)
      BY <1>3, <1>4, <3>1
    <3>3. Sorts(<<Picked(D, T)>> \o f[Rest(D, T)], T, D)
      BY <2>1, <2>4, <3>2, SortsLonger
    <3>4. f[T] = <<Picked(D, T)>> \o f[Rest(D, T)]
      BY ONLY <2>2, <2>4
    <3> QED BY <1>3, <3>3, <3>4
  <2> QED BY <2>3, <2>4
<1>5. \A T \in SUBSET N : T \in G
  BY <1>4, SubsetInduction
<1>6. Sorts(f[N], N, D)
  BY <1>3, <1>5
<1> QED BY <1>1, <1>6, SortedIsLoop

\* Whatever compiles runs, in the order that compilation gives: each node once, and after
\* every node it depends on (the loop of compile over the remaining nodes).
THEOREM CompiledOrderRuns ==
    ASSUME NEW d \in Definitions, IsFiniteSet(d.nodes)
    PROVE  OrderRuns(d)
<1>1. d.nodes \in SUBSET Nat
  BY DEF Definitions
<1>2. PICK N, D, order : N = d.nodes /\ D = Dependencies(d) /\ order = Order(d)
  OBVIOUS
<1>3. Sorts(order, N, D)
  BY <1>1, <1>2, SortedSorts DEF Order
<1>4. SUFFICES ASSUME Compiles(d) PROVE Executable(d, Order(d))
  BY DEF OrderRuns
<1>5. Len(order) = Cardinality(N)
  BY <1>2, <1>4 DEF Compiles
<1>6. {order[i] : i \in DOMAIN order} = N
  BY <1>3, <1>5 DEF Sorts
<1>7. \A i, j \in DOMAIN order : <<order[i], order[j]>> \in D => i < j
  BY <1>3 DEF Sorts
<1> QED BY <1>2, <1>5, <1>6, <1>7 DEF Executable

-----------------------------------------------------------------------------
(* Compilation refuses nothing that could run                              *)

\* A loop that is never stuck goes through all nodes.
LEMMA NeverStuck ==
    ASSUME NEW N \in SUBSET Nat, IsFiniteSet(N), NEW D,
           \A R \in SUBSET N : R # {} => Ready(D, R) # {}
    PROVE  Len(Sorted(N, D)) = Cardinality(N)
<1>1. PICK f : f = Loop(N, D)
  OBVIOUS
<1>2. Loops(f, N, D)
  BY <1>1, LoopExists
<1>3. PICK G : G = {T \in SUBSET N : f[T] \in Seq(N) /\ Len(f[T]) = Cardinality(T)}
  OBVIOUS
<1>4. ASSUME NEW T \in SUBSET N, \A U \in SUBSET T : U # T => U \in G
      PROVE  T \in G
  <2>1. T \in SUBSET Nat /\ IsFiniteSet(T)
    BY FS_Subset
  <2>2. f[T] = IF Ready(D, T) = {} THEN <<>> ELSE <<Picked(D, T)>> \o f[Rest(D, T)]
    BY ONLY <1>2, T \in SUBSET N DEF Loops
  <2>3. CASE T = {}
    <3>1. Ready(D, T) = {} /\ Cardinality(T) = 0
      BY <2>3, FS_EmptySet DEF Ready
    <3>2. f[T] = <<>>
      BY ONLY <2>2, <3>1
    <3>3. f[T] \in Seq(N) /\ Len(f[T]) = 0
      BY ONLY <3>2
    <3> QED BY <1>3, <3>1, <3>3
  <2>4. CASE T # {}
    <3>1. Ready(D, T) # {}
      BY <2>4
    <3>2. PICK x, U : x = Picked(D, T) /\ U = Rest(D, T)
      OBVIOUS
    <3>3. U \in SUBSET T /\ U # T /\ x \in T /\ U = T \ {x} /\ x \in N
      BY <2>1, <3>1, <3>2, PickedIsReady DEF Rest
    <3>4. Cardinality(U) = Cardinality(T) - 1 /\ Cardinality(T) \in Nat
      BY <2>1, <3>3, FS_RemoveElement, FS_CardinalityType
    <3>5. PICK rest : rest = f[U]
      OBVIOUS
    <3>6. rest \in Seq(N) /\ Len(rest) = Cardinality(U)
      BY <1>3, <1>4, <3>3, <3>5
    <3>7. f[T] = <<x>> \o rest
      BY ONLY <2>2, <3>1, <3>2, <3>5
    <3>8. <<x>> \o rest \in Seq(N) /\ Len(<<x>> \o rest) = Len(rest) + 1
      BY ONLY <3>3, <3>6
    <3>9. f[T] \in Seq(N) /\ Len(f[T]) = Cardinality(T)
      BY ONLY <3>4, <3>6, <3>7, <3>8
    <3> QED BY <1>3, <3>9
  <2> QED BY <2>3, <2>4
<1>5. \A T \in SUBSET N : T \in G
  BY <1>4, SubsetInduction
<1>6. Len(f[N]) = Cardinality(N)
  BY <1>3, <1>5
<1> QED BY <1>1, <1>6, SortedIsLoop

\* Where some order can run the nodes, some remaining node is always ready: the first of the
\* order.
LEMMA RunnableIsNotStuck ==
    ASSUME NEW N \in SUBSET Nat, IsFiniteSet(N), NEW D \in SUBSET (Nat \X Nat),
           NEW n \in Nat, NEW p \in [1 .. n -> N], {p[i] : i \in 1 .. n} = N,
           \A i, j \in 1 .. n : <<p[i], p[j]>> \in D => i < j,
           NEW R \in SUBSET N, R # {}
    PROVE  Ready(D, R) # {}
<1>1. PICK places : places = {i \in 1 .. n : p[i] \in R}
  OBVIOUS
<1>2. PICK y \in R : TRUE
  OBVIOUS
<1>3. \A z \in N : \E i \in 1 .. n : p[i] = z
  OBVIOUS
<1>4. places # {}
  BY <1>1, <1>2, <1>3
<1>5. places \in SUBSET Nat /\ places \subseteq 1 .. n
  BY <1>1
<1>6. IsFiniteSet(1 .. n)
  BY FS_Interval
<1>7. IsFiniteSet(places)
  BY <1>5, <1>6, FS_Subset
<1>8. PICK i : i = First(places)
  OBVIOUS
<1>9. i \in places /\ \A j \in places : i <= j
  BY <1>4, <1>5, <1>7, <1>8, FirstIsLeast
<1>10. i \in 1 .. n /\ p[i] \in R
  BY <1>1, <1>9
<1>11. ASSUME NEW e \in D, e[2] = p[i], e[1] \in R PROVE FALSE
  <2>1. e = <<e[1], p[i]>>
    BY <1>11
  <2>2. PICK j \in 1 .. n : p[j] = e[1]
    BY <1>3, <1>11
  <2>3. <<p[j], p[i]>> \in D
    BY <2>1, <2>2
  <2>4. j < i
    BY <1>10, <2>3
  <2>5. i <= j
    BY <1>1, <1>9, <1>11, <2>2
  <2>6. i \in Nat /\ j \in Nat
    BY <1>10, <2>2
  <2> QED BY ONLY <2>4, <2>5, <2>6
<1>12. p[i] \in Ready(D, R)
  BY <1>10, <1>11 DEF Ready
<1> QED BY <1>12

\* Compilation accepts exactly the well-typed definitions that some order could run, and
\* gives such an order: a cycle, and only a cycle, stops the loop of compile early.
THEOREM CompilesExactlyWhatCanRun ==
    ASSUME NEW d \in Definitions, IsFiniteSet(d.nodes)
    PROVE  CompilesWhatCanRun(d)
<1>1. PICK N, D : N = d.nodes /\ D = Dependencies(d)
  OBVIOUS
<1>2. N \in SUBSET Nat /\ D \in SUBSET (Nat \X Nat) /\ IsFiniteSet(N) /\ Cardinality(N) \in Nat
  <2>1. d.edges \in SUBSET (Nat \X Nat) /\ d.outputs \in SUBSET (Nat \X Nat)
    BY DEF Definitions
  <2>2. D = d.edges \cup d.outputs
    BY <1>1 DEF Dependencies
  <2>3. D \in SUBSET (Nat \X Nat)
    BY ONLY <2>1, <2>2, Zenon
  <2> QED BY <1>1, <2>3, FS_CardinalityType DEF Definitions
<1>3. OrderRuns(d)
  BY CompiledOrderRuns
<1>4. ASSUME Compiles(d) PROVE \E p \in Orderings(d.nodes) : Executable(d, p)
  <2>1. PICK p : p = Order(d)
    OBVIOUS
  <2>2. Executable(d, p)
    BY <1>3, <1>4, <2>1 DEF OrderRuns
  <2>3. Sorts(p, N, D)
    BY <1>1, <1>2, <2>1, SortedSorts DEF Order
  <2>4. p \in Seq(N) /\ Len(p) = Cardinality(N) /\ {p[i] : i \in DOMAIN p} = N
    BY <1>1, <2>2, <2>3 DEF Sorts, Executable
  <2>5. p \in [1 .. Cardinality(N) -> N]
    BY ONLY <2>4
  <2>6. p \in Orderings(d.nodes)
    BY <1>1, <2>4, <2>5 DEF Orderings
  <2> QED BY <2>2, <2>6
<1>5. ASSUME NEW p \in Orderings(d.nodes), Executable(d, p)
      PROVE  Len(Order(d)) = Cardinality(d.nodes)
  <2>1. PICK n : n = Cardinality(N)
    OBVIOUS
  <2>2. n \in Nat /\ p \in [1 .. n -> N] /\ {p[i] : i \in DOMAIN p} = N
    BY <1>1, <1>2, <1>5, <2>1 DEF Orderings
  <2>3. DOMAIN p = 1 .. n
    BY <2>2
  <2>4. {p[i] : i \in 1 .. n} = N
    BY ONLY <2>2, <2>3
  <2>5. \A i, j \in 1 .. n : <<p[i], p[j]>> \in D => i < j
    BY <1>1, <1>5, <2>3 DEF Executable
  <2>6. \A R \in SUBSET N : R # {} => Ready(D, R) # {}
    BY <1>2, <2>2, <2>4, <2>5, RunnableIsNotStuck
  <2>7. Len(Sorted(N, D)) = Cardinality(N)
    BY <1>2, <2>6, NeverStuck
  <2> QED BY <1>1, <2>7 DEF Order
<1> QED BY <1>3, <1>4, <1>5 DEF CompilesWhatCanRun, Compiles
=============================================================================
