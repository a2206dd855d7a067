---------------------------- MODULE DataTheorems ----------------------------
(***************************************************************************)
(* Facts about data that the proofs share.  An induction is an argument    *)
(* from a smallest counterexample (SmallestMember), and a recursive        *)
(* function is what its equation says because some function is             *)
(* (TreeRecursion).  Then sums of a function over a finite set, as the     *)
(* balances of all accounts and the gas of the transactions of a block:    *)
(* SumFunctionOnSet takes the elements in an order that CHOOSE decides;    *)
(* these are the laws that do not depend on it.  Last, what the recursive  *)
(* functions of Bits compute, and arithmetic with remainders.              *)
(***************************************************************************)
EXTENDS Functions, FiniteSets, Bits, FiniteSetTheorems, WellFoundedInduction, TLAPS

LEMMA SmallestMember ==
    ASSUME NEW T \in SUBSET Nat, T # {}
    PROVE  \E n \in T : \A k \in T : n <= k
<1>1. \E n \in T : \A k \in T : ~(<<k, n>> \in OpToRel(<, Nat))
  BY NatLessThanWellFounded, WFMin
<1>2. PICK n \in T : \A k \in T : <<k, n>> \notin OpToRel(<, Nat)
  BY <1>1
<1>3. ASSUME NEW k \in T PROVE n <= k
  <2>1. k \in Nat /\ n \in Nat
    OBVIOUS
  <2>2. ~(k < n)
    BY <1>2, <1>3, <2>1 DEF OpToRel
  <2> QED BY <2>1, <2>2
<1> QED BY <1>2, <1>3

LEMMA GreatestMember ==
  ASSUME NEW n \in Nat, NEW T \in SUBSET (1 .. n), T # {}
  PROVE  \E k \in T : \A j \in T : j <= k
<1> DEFINE D == {n - k : k \in T}
<1>1. D \in SUBSET Nat /\ D # {}
  <2>1. \A k \in T : n - k \in Nat
    OBVIOUS
  <2> QED BY <2>1
<1>2. PICK d \in D : \A e \in D : d <= e
  <2> HIDE DEF D
  <2> QED BY <1>1, SmallestMember
<1>3. PICK k \in T : d = n - k
  BY <1>2
<1>4. \A j \in T : d <= n - j
  BY <1>2
<1> QED BY <1>3, <1>4

(***************************************************************************)
(* A function that is defined along the parents exists, as no node is its  *)
(* own ancestor: two partial ones agree where both are defined, and the    *)
(* smallest node without one would have one from that of its parent.       *)
(***************************************************************************)
Along(P, N, root, parent) ==
    /\ P \subseteq N
    /\ \A b \in P : b = root \/ parent[b] \notin N \/ parent[b] \in P

Follows(g, P, N, root, parent, base, step) ==
    \A b \in P : g[b] = IF b = root \/ parent[b] \notin N THEN base[b]
                        ELSE step[b][g[parent[b]]]

NoCycle(N, root, parent) ==
    \A S \in (SUBSET (N \ {root})) \ {{}} : \E b \in S : parent[b] \notin S

LEMMA PartsAgree ==
  ASSUME NEW N, NEW root, NEW parent, NEW base, NEW step, NoCycle(N, root, parent),
         NEW P, NEW Q, Along(P, N, root, parent), Along(Q, N, root, parent),
         NEW g, Follows(g, P, N, root, parent, base, step),
         NEW h, Follows(h, Q, N, root, parent, base, step)
  PROVE  \A b \in P \cap Q : g[b] = h[b]
<1> DEFINE S == {b \in P \cap Q : g[b] # h[b]}
<1>1. root \notin S
  BY DEF Follows
<1>2. S \in SUBSET (N \ {root})
  BY <1>1 DEF Along
<1>3. SUFFICES ASSUME S # {} PROVE FALSE
  OBVIOUS
<1>4. PICK b \in S : parent[b] \notin S
  <2> HIDE DEF S
  <2> QED BY <1>2, <1>3 DEF NoCycle
<1>5. b # root /\ parent[b] \in N
  BY <1>1, <1>4 DEF Follows
<1>6. parent[b] \in P \cap Q
  BY <1>5 DEF Along
<1>7. g[parent[b]] = h[parent[b]]
  BY <1>4, <1>6
<1> QED BY <1>5, <1>7 DEF Follows

LEMMA PartExtends ==
  ASSUME NEW N, NEW root \in N, NEW parent, NEW base, NEW step,
         NEW P, Along(P, N, root, parent), NEW g,
         Follows(g, P, N, root, parent, base, step),
         NEW b \in N, b = root \/ parent[b] \notin N \/ parent[b] \in P
  PROVE  \E Q, h : b \in Q /\ Along(Q, N, root, parent)
                           /\ Follows(h, Q, N, root, parent, base, step)
<1>1. CASE b \in P
  BY <1>1
<1>2. CASE b \notin P
  <2> DEFINE Q == P \cup {b}
             new == IF b = root \/ parent[b] \notin N THEN base[b] ELSE step[b][g[parent[b]]]
             h == [x \in Q |-> IF x = b THEN new ELSE g[x]]
  <2>1. b \in Q /\ Along(Q, N, root, parent)
    BY DEF Along
  <2>2. /\ h[b] = new
        /\ \A x \in P : h[x] = g[x] /\ x # b
    BY <1>2
  <2>3. Follows(h, Q, N, root, parent, base, step)
    <3> SUFFICES ASSUME NEW x \in Q
                 PROVE  h[x] = IF x = root \/ parent[x] \notin N THEN base[x]
                               ELSE step[x][h[parent[x]]]
      BY DEF Follows
    <3>1. CASE x = b
      <4> HIDE DEF h
      <4> QED BY <3>1, <2>2
    <3>2. CASE x \in P
      <4>1. h[x] = g[x]
        BY <2>2, <3>2
      <4>2. g[x] = IF x = root \/ parent[x] \notin N THEN base[x]
                   ELSE step[x][g[parent[x]]]
        BY <3>2 DEF Follows
      <4>3. ~(x = root \/ parent[x] \notin N) => h[parent[x]] = g[parent[x]]
        BY <2>2, <3>2 DEF Along
      <4> HIDE DEF h
      <4> QED BY <4>1, <4>2, <4>3
    <3> QED BY <3>1, <3>2
  <2> HIDE DEF Q, h
  <2> QED BY <2>1, <2>3
<1> QED BY <1>1, <1>2

IsAlong(g, N, root, parent, base, step) ==
    g = [b \in N |-> IF b = root \/ parent[b] \notin N THEN base[b]
                     ELSE step[b][g[parent[b]]]]

LEMMA TreeRecursion ==
  ASSUME NEW N, NEW root \in N, NEW parent, NoCycle(N, root, parent),
         NEW V, NEW base \in [N -> V], NEW step \in [N -> [V -> V]]
  PROVE  \E g \in [N -> V] : IsAlong(g, N, root, parent, base, step)
<1> DEFINE Part(P, g) == /\ Along(P, N, root, parent)
                         /\ Follows(g, P, N, root, parent, base, step)
           S == {b \in N : ~\E P, g : b \in P /\ Part(P, g)}
<1>1. ASSUME NEW b \in N, b = root \/ parent[b] \notin N \/ parent[b] \notin S
      PROVE  b \notin S
  <2>1. \E P, g : Part(P, g) /\ (b = root \/ parent[b] \notin N \/ parent[b] \in P)
    <3>1. CASE b = root \/ parent[b] \notin N
      <4>1. Part({}, [x \in {} |-> x])
        BY DEF Along, Follows
      <4> HIDE DEF Part
      <4> QED BY <3>1, <4>1
    <3>2. CASE parent[b] \in N /\ parent[b] \notin S
      BY <3>2
    <3> QED BY <1>1, <3>1, <3>2
  <2>2. PICK P, g : Part(P, g) /\ (b = root \/ parent[b] \notin N \/ parent[b] \in P)
    BY <2>1
  <2>3. \E Q, h : b \in Q /\ Part(Q, h)
    BY <2>2, PartExtends
  <2> HIDE DEF Part
  <2> QED BY <2>3
<1>2. S = {}
  <2>1. root \notin S
    BY <1>1
  <2>2. SUFFICES ASSUME S # {} PROVE FALSE
    OBVIOUS
  <2>3. S \in SUBSET (N \ {root})
    BY <2>1
  <2>4. \E b \in S : parent[b] \notin S
    <3> HIDE DEF S
    <3> QED BY <2>2, <2>3 DEF NoCycle
  <2>5. \A b \in S : b \in N
    OBVIOUS
  <2> HIDE DEF S
  <2> QED BY <1>1, <2>4, <2>5
<1> DEFINE Is(b, v) == \E P, g : b \in P /\ Part(P, g) /\ v = g[b]
           G == [b \in N |-> CHOOSE v : Is(b, v)]
<1>3. ASSUME NEW P, NEW g, Part(P, g), NEW b \in P PROVE G[b] = g[b]
  <2>1. b \in N
    BY <1>3 DEF Along
  <2>2. Is(b, g[b])
    BY <1>3
  <2>3. ASSUME NEW v, Is(b, v) PROVE v = g[b]
    BY <1>3, <2>3, PartsAgree
  <2> HIDE DEF Is
  <2> QED BY <2>1, <2>2, <2>3
<1>4. ASSUME NEW b \in N
      PROVE  G[b] = IF b = root \/ parent[b] \notin N THEN base[b] ELSE step[b][G[parent[b]]]
  <2>1. PICK P, g : b \in P /\ Part(P, g)
    BY <1>2
  <2>2. G[b] = g[b]
    BY <1>3, <2>1
  <2>3. b # root /\ parent[b] \in N => G[parent[b]] = g[parent[b]]
    <3> SUFFICES ASSUME b # root, parent[b] \in N PROVE G[parent[b]] = g[parent[b]]
      OBVIOUS
    <3>1. parent[b] \in P
      BY <2>1 DEF Along
    <3> HIDE DEF G, Part
    <3> QED BY <1>3, <2>1, <3>1
  <2>4. g[b] = IF b = root \/ parent[b] \notin N THEN base[b] ELSE step[b][g[parent[b]]]
    BY <2>1 DEF Follows
  <2> HIDE DEF G
  <2> QED BY <2>2, <2>3, <2>4
<1>5. G = [b \in N |-> G[b]]
  OBVIOUS
<1> HIDE DEF G
<1>6. G = [b \in N |-> IF b = root \/ parent[b] \notin N THEN base[b]
                       ELSE step[b][G[parent[b]]]]
  BY <1>4, <1>5
<1>7. G \in [N -> V]
  <2> DEFINE B == {b \in N : G[b] \notin V}
  <2>1. SUFFICES ASSUME B # {} PROVE FALSE
    BY <1>5
  <2>2. root \notin B
    BY <1>4
  <2>3. B \in SUBSET (N \ {root})
    BY <2>2
  <2>4. PICK b \in B : parent[b] \notin B
    <3> HIDE DEF B
    <3> QED BY <2>1, <2>3 DEF NoCycle
  <2>5. b # root /\ parent[b] \in N
    BY <1>4, <2>2, <2>4
  <2>6. G[b] = step[b][G[parent[b]]]
    BY <1>4, <2>5
  <2> QED BY <2>4, <2>5, <2>6
<1> QED BY <1>6, <1>7 DEF IsAlong

-----------------------------------------------------------------------------
\* A set that has 0 and each successor of its members has every natural number.
LEMMA Induction ==
  ASSUME NEW S, 0 \in S, \A n \in Nat : n \in S => n + 1 \in S
  PROVE  \A n \in Nat : n \in S
<1> DEFINE T == {n \in Nat : n \notin S}
<1> SUFFICES ASSUME T # {} PROVE FALSE
  OBVIOUS
<1>1. PICK n \in T : \A k \in T : n <= k
  <2>1. T \in SUBSET Nat
    OBVIOUS
  <2> HIDE DEF T
  <2> QED BY <2>1, SmallestMember
<1>2. n \in Nat /\ n # 0
  OBVIOUS
<1>3. n - 1 \in Nat /\ n - 1 \in S
  BY <1>1, <1>2
<1>4. (n - 1) + 1 = n
  BY <1>2
<1> QED BY <1>3, <1>4

\* The same along any way down: who has a lower number of n has n.
LEMMA DescentInduction ==
  ASSUME NEW S, NEW lower, \A n \in Nat \ {0} : lower[n] \in Nat /\ lower[n] < n,
         0 \in S, \A n \in Nat \ {0} : lower[n] \in S => n \in S
  PROVE  \A n \in Nat : n \in S
<1> DEFINE T == {n \in Nat : n \notin S}
<1> SUFFICES ASSUME T # {} PROVE FALSE
  OBVIOUS
<1>1. PICK n \in T : \A k \in T : n <= k
  <2>1. T \in SUBSET Nat
    OBVIOUS
  <2> HIDE DEF T
  <2> QED BY <2>1, SmallestMember
<1>2. n \in Nat \ {0} /\ n \notin S
  OBVIOUS
<1>3. PICK k \in Nat : k = lower[n] /\ k < n
  BY <1>2
<1>4. k \notin S
  BY <1>2, <1>3
<1>5. n <= k
  BY <1>1, <1>4
<1> QED BY <1>2, <1>3, <1>5

LEMMA HalvingInduction ==
  ASSUME NEW S, 0 \in S, \A n \in Nat \ {0} : n \div 2 \in S => n \in S
  PROVE  \A n \in Nat : n \in S
<1> DEFINE half == [n \in Nat |-> n \div 2]
<1>1. \A n \in Nat \ {0} : half[n] \in Nat /\ half[n] < n
  OBVIOUS
<1>2. \A n \in Nat \ {0} : half[n] \in S => n \in S
  OBVIOUS
<1> HIDE DEF half
<1> QED BY <1>1, <1>2, DescentInduction

\* A function that is defined by its value at a lower number.
FromLower(g, lower, base, step) ==
    \A n \in Nat : g[n] = IF n = 0 THEN base ELSE step[n][g[lower[n]]]

LEMMA DescentRecursion ==
  ASSUME NEW V, NEW base \in V, NEW step \in [Nat -> [V -> V]],
         NEW lower, \A n \in Nat \ {0} : lower[n] \in Nat /\ lower[n] < n
  PROVE  \E g \in [Nat -> V] : FromLower(g, lower, base, step)
<1> DEFINE first == [n \in Nat |-> base]
<1>1. NoCycle(Nat, 0, lower)
  <2> SUFFICES ASSUME NEW S \in (SUBSET (Nat \ {0})) \ {{}}
               PROVE  \E n \in S : lower[n] \notin S
    BY DEF NoCycle
  <2>1. PICK n \in S : \A k \in S : n <= k
    BY SmallestMember
  <2>2. n \in Nat \ {0}
    OBVIOUS
  <2>3. PICK k \in Nat : k = lower[n] /\ k < n
    BY <2>2
  <2> QED BY <2>1, <2>2, <2>3
<1>2. first \in [Nat -> V] /\ 0 \in Nat
  OBVIOUS
<1>3. PICK g \in [Nat -> V] : IsAlong(g, Nat, 0, lower, first, step)
  <2> HIDE DEF first
  <2> QED BY <1>1, <1>2, TreeRecursion
<1>4. ASSUME NEW n \in Nat
      PROVE  g[n] = IF n = 0 THEN base ELSE step[n][g[lower[n]]]
  <2>1. first[n] = base
    OBVIOUS
  <2>2. g[n] = IF n = 0 \/ lower[n] \notin Nat THEN first[n] ELSE step[n][g[lower[n]]]
    <3> HIDE DEF first
    <3> QED BY <1>3 DEF IsAlong
  <2> HIDE DEF first
  <2>3. n # 0 => lower[n] \in Nat
    OBVIOUS
  <2> QED BY <2>1, <2>2, <2>3
<1> QED BY <1>4 DEF FromLower

\* By its value at the predecessor.
FromBefore(g, base, step) ==
    \A n \in Nat : g[n] = IF n = 0 THEN base ELSE step[n][g[n - 1]]

LEMMA NatRecursion ==
  ASSUME NEW V, NEW base \in V, NEW step \in [Nat -> [V -> V]]
  PROVE  \E g \in [Nat -> V] : FromBefore(g, base, step)
<1> DEFINE before == [n \in Nat |-> n - 1]
<1>1. \A n \in Nat \ {0} : before[n] \in Nat /\ before[n] < n
  OBVIOUS
<1>2. PICK g \in [Nat -> V] : FromLower(g, before, base, step)
  <2> HIDE DEF before
  <2> QED BY <1>1, DescentRecursion
<1>3. \A n \in Nat : before[n] = n - 1
  OBVIOUS
<1> HIDE DEF before
<1> QED BY <1>2, <1>3 DEF FromLower, FromBefore

\* By its value at the half.
FromHalf(g, base, step) ==
    \A n \in Nat : g[n] = IF n = 0 THEN base ELSE step[n][g[n \div 2]]

LEMMA HalvingRecursion ==
  ASSUME NEW V, NEW base \in V, NEW step \in [Nat -> [V -> V]]
  PROVE  \E g \in [Nat -> V] : FromHalf(g, base, step)
<1> DEFINE half == [n \in Nat |-> n \div 2]
<1>1. \A n \in Nat \ {0} : half[n] \in Nat /\ half[n] < n
  OBVIOUS
<1>2. PICK g \in [Nat -> V] : FromLower(g, half, base, step)
  <2> HIDE DEF half
  <2> QED BY <1>1, DescentRecursion
<1>3. \A n \in Nat : half[n] = n \div 2
  OBVIOUS
<1> HIDE DEF half
<1> QED BY <1>2, <1>3 DEF FromLower, FromHalf

-----------------------------------------------------------------------------
\* The members of S that are counted first.
Choice(s) == CHOOSE x \in s : TRUE

\* g sums f over every subset of S.
SumsUp(g, f, S) ==
    g = [s \in SUBSET S |-> IF s = {} THEN 0 ELSE f[Choice(s)] + g[s \ {Choice(s)}]]

LEMMA SumExists ==
    ASSUME NEW S, IsFiniteSet(S), NEW f
    PROVE  \E g : SumsUp(g, f, S)
<1> DEFINE Small(n) == {s \in SUBSET S : Cardinality(s) <= n}
           Upto(g, n) == g = [s \in Small(n) |->
                                IF s = {} THEN 0 ELSE f[Choice(s)] + g[s \ {Choice(s)}]]
           Bad == {n \in Nat : ~\E g : Upto(g, n)}
<1>0. \A s \in SUBSET S : IsFiniteSet(s) /\ Cardinality(s) \in Nat
  BY FS_Subset, FS_CardinalityType
<1>1. 0 \notin Bad
  <2>1. Small(0) = {{}}
    BY <1>0, FS_EmptySet
  <2>2. Upto([s \in {{}} |-> 0], 0)
    BY <2>1
  <2> QED BY <2>2
<1>2. ASSUME NEW n \in Nat, n \notin Bad PROVE n + 1 \notin Bad
  <2>1. PICK g : Upto(g, n)
    BY <1>2
  <2> DEFINE h == [s \in Small(n + 1) |->
                     IF s \in Small(n) THEN g[s]
                     ELSE f[Choice(s)] + g[s \ {Choice(s)}]]
  <2>2. ASSUME NEW s \in Small(n + 1), s # {}
        PROVE  s \ {Choice(s)} \in Small(n)
    <3>1. Choice(s) \in s
      BY <2>2 DEF Choice
    <3>2. Cardinality(s \ {Choice(s)}) = Cardinality(s) - 1
      BY <3>1, <1>0, FS_RemoveElement
    <3>3. Cardinality(s) \in Nat /\ Cardinality(s) <= n + 1
      BY <1>0
    <3>4. Cardinality(s \ {Choice(s)}) <= n
      BY <3>2, <3>3
    <3> QED BY <3>4
  <2>3. ASSUME NEW s \in Small(n + 1)
        PROVE  h[s] = IF s = {} THEN 0 ELSE f[Choice(s)] + h[s \ {Choice(s)}]
    <3>1. {} \in Small(n)
      BY <1>0, FS_EmptySet
    <3>2. Small(n) \subseteq Small(n + 1)
      BY <1>0
    <3>3. CASE s = {}
      BY <2>1, <3>1, <3>2, <3>3
    <3>4. CASE s # {}
      <4>1. s \ {Choice(s)} \in Small(n)
        BY <3>4, <2>2
      <4>2. h[s \ {Choice(s)}] = g[s \ {Choice(s)}]
        BY <4>1, <3>2
      <4>3. s \in Small(n) => g[s] = f[Choice(s)] + g[s \ {Choice(s)}]
        BY <2>1, <3>4
      <4> QED BY <4>2, <4>3, <3>4
    <3> QED BY <3>3, <3>4
  <2> HIDE DEF h
  <2>4. h = [s \in Small(n + 1) |-> h[s]]
    BY DEF h
  <2>5. Upto(h, n + 1)
    BY <2>3, <2>4, Zenon
  <2> QED BY <2>5
<1>3. Bad = {}
  <2> SUFFICES ASSUME Bad # {} PROVE FALSE
    OBVIOUS
  <2>1. PICK n \in Bad : \A k \in Bad : n <= k
    BY SmallestMember, Bad \in SUBSET Nat
  <2>2. n \in Nat /\ n # 0
    BY <1>1, <2>1
  <2>3. n - 1 \in Nat /\ n - 1 \notin Bad
    <3>1. n - 1 \in Nat /\ ~(n <= n - 1)
      BY <2>2
    <3> QED BY <3>1, <2>1
  <2>4. (n - 1) + 1 \notin Bad
    BY <2>3, <1>2
  <2>5. (n - 1) + 1 = n
    BY <2>2
  <2> QED BY <2>1, <2>4, <2>5
<1>4. Cardinality(S) \in Nat
  BY FS_CardinalityType
<1>5. Small(Cardinality(S)) = SUBSET S
  BY FS_Subset
<1>6. PICK g : Upto(g, Cardinality(S))
  BY <1>3, <1>4
<1>7. SumsUp(g, f, S)
  BY <1>5, <1>6 DEF SumsUp
<1> QED BY <1>7

LEMMA SumIsOne ==
    ASSUME NEW S, IsFiniteSet(S), NEW f
    PROVE  \E g : SumsUp(g, f, S) /\ SumFunctionOnSet(f, S) = g[S]
<1> DEFINE G == CHOOSE g : SumsUp(g, f, S)
<1>1. SumsUp(G, f, S)
  BY SumExists
<1>2. SumFunctionOnSet(f, S) = G[S]
  BY Zenon DEF SumFunctionOnSet, FoldFunctionOnSet, MapThenFoldSet, SumsUp, Choice
<1> QED BY <1>1, <1>2

LEMMA SmallestSubset ==
    ASSUME NEW S, IsFiniteSet(S), NEW B \in SUBSET (SUBSET S), B # {}
    PROVE  \E U \in B : \A x \in U : U \ {x} \notin B
<1> DEFINE Sizes == {Cardinality(U) : U \in B}
<1>1. \A U \in SUBSET S : IsFiniteSet(U) /\ Cardinality(U) \in Nat
  BY FS_Subset, FS_CardinalityType
<1>2. PICK n \in Sizes : \A k \in Sizes : n <= k
  <2>1. Sizes \in SUBSET Nat /\ Sizes # {}
    BY <1>1
  <2> QED BY <2>1, SmallestMember
<1>3. PICK U \in B : n = Cardinality(U)
  BY <1>2
<1>4. ASSUME NEW x \in U, U \ {x} \in B PROVE FALSE
  <2>1. Cardinality(U \ {x}) = n - 1
    BY <1>1, <1>3, FS_RemoveElement
  <2>2. n \in Nat
    BY <1>1, <1>3
  <2>3. n <= n - 1
    BY <1>2, <1>4, <2>1
  <2> QED BY <2>2, <2>3
<1> QED BY <1>3, <1>4

LEMMA SumsAgree ==
    ASSUME NEW S, NEW T, NEW f, NEW g, NEW h, IsFiniteSet(S), T \subseteq S,
           SumsUp(g, f, S), SumsUp(h, f, T)
    PROVE  \A U \in SUBSET T : g[U] = h[U]
<1> DEFINE B == {U \in SUBSET T : g[U] # h[U]}
<1> SUFFICES ASSUME B # {} PROVE FALSE
  OBVIOUS
<1>1. IsFiniteSet(T)
  BY FS_Subset
<1>2. PICK U \in B : \A x \in U : U \ {x} \notin B
  BY <1>1, SmallestSubset
<1>3. CASE U = {}
  BY <1>2, <1>3 DEF SumsUp
<1>4. CASE U # {}
  <2>1. Choice(U) \in U
    BY <1>4 DEF Choice
  <2>2. g[U \ {Choice(U)}] = h[U \ {Choice(U)}]
    BY <1>2, <2>1
  <2>3. U \in SUBSET S /\ U \in SUBSET T
    BY <1>2
  <2>4. /\ g[U] = f[Choice(U)] + g[U \ {Choice(U)}]
        /\ h[U] = f[Choice(U)] + h[U \ {Choice(U)}]
    BY <1>4, <2>3 DEF SumsUp
  <2> QED BY <1>2, <2>2, <2>4
<1> QED BY <1>3, <1>4

-----------------------------------------------------------------------------
\* The sum over no element, and over the chosen one and the others.
LEMMA SumOfNone ==
    ASSUME NEW f
    PROVE  SumFunctionOnSet(f, {}) = 0
<1>1. PICK g : SumsUp(g, f, {}) /\ SumFunctionOnSet(f, {}) = g[{}]
  BY FS_EmptySet, SumIsOne
<1> QED BY <1>1 DEF SumsUp

LEMMA SumOfChosen ==
    ASSUME NEW S, IsFiniteSet(S), S # {}, NEW f
    PROVE  SumFunctionOnSet(f, S) =
               f[Choice(S)] + SumFunctionOnSet(f, S \ {Choice(S)})
<1> DEFINE T == S \ {Choice(S)}
<1>1. IsFiniteSet(T) /\ T \subseteq S
  BY FS_Subset
<1>2. PICK g : SumsUp(g, f, S) /\ SumFunctionOnSet(f, S) = g[S]
  BY SumIsOne
<1>3. PICK h : SumsUp(h, f, T) /\ SumFunctionOnSet(f, T) = h[T]
  BY <1>1, SumIsOne
<1>4. g[T] = h[T]
  BY <1>1, <1>2, <1>3, SumsAgree
<1>5. g[S] = f[Choice(S)] + g[T]
  BY <1>2 DEF SumsUp
<1> QED BY <1>2, <1>3, <1>4, <1>5

LEMMA SumIsNatural ==
    ASSUME NEW S, IsFiniteSet(S), NEW f, \A x \in S : f[x] \in Nat
    PROVE  SumFunctionOnSet(f, S) \in Nat
<1> DEFINE B == {T \in SUBSET S : SumFunctionOnSet(f, T) \notin Nat}
<1> SUFFICES ASSUME B # {} PROVE FALSE
  OBVIOUS
<1>1. PICK T \in B : \A x \in T : T \ {x} \notin B
  BY SmallestSubset
<1>2. T # {}
  BY <1>1, SumOfNone
<1>3. Choice(T) \in T
  BY <1>2 DEF Choice
<1>4. SumFunctionOnSet(f, T \ {Choice(T)}) \in Nat
  BY <1>1, <1>3
<1>5. SumFunctionOnSet(f, T) = f[Choice(T)] + SumFunctionOnSet(f, T \ {Choice(T)})
  BY <1>1, <1>2, FS_Subset, SumOfChosen
<1> QED BY <1>1, <1>3, <1>4, <1>5

\* Any member may be counted first.
LEMMA SumOfMember ==
    ASSUME NEW S, IsFiniteSet(S), NEW f, \A x \in S : f[x] \in Nat, NEW a \in S
    PROVE  SumFunctionOnSet(f, S) = f[a] + SumFunctionOnSet(f, S \ {a})
<1> DEFINE Sum(T) == SumFunctionOnSet(f, T)
           B == {T \in SUBSET S : \E x \in T : Sum(T) # f[x] + Sum(T \ {x})}
<1> SUFFICES ASSUME B # {} PROVE FALSE
  OBVIOUS
<1>0. \A T \in SUBSET S : IsFiniteSet(T) /\ Sum(T) \in Nat
  BY FS_Subset, SumIsNatural
<1>1. PICK T \in B : \A x \in T : T \ {x} \notin B
  BY SmallestSubset
<1>2. PICK x \in T : Sum(T) # f[x] + Sum(T \ {x})
  BY <1>1
<1> DEFINE c == Choice(T)
<1>3. c \in T
  BY <1>2 DEF Choice
<1>4. Sum(T) = f[c] + Sum(T \ {c})
  BY <1>0, <1>1, <1>2, SumOfChosen
<1>5. c # x
  BY <1>2, <1>4
<1> HIDE DEF c
<1>6. Sum(T \ {c}) = f[x] + Sum((T \ {c}) \ {x})
  BY <1>1, <1>3, <1>5
<1>7. Sum(T \ {x}) = f[c] + Sum((T \ {x}) \ {c})
  BY <1>1, <1>2, <1>3, <1>5
<1>8. (T \ {c}) \ {x} = (T \ {x}) \ {c}
  OBVIOUS
<1>9. f[x] \in Nat /\ f[c] \in Nat /\ Sum((T \ {x}) \ {c}) \in Nat
  BY <1>0, <1>1, <1>3
<1> HIDE DEF Sum, B
<1>10. Sum(T \ {c}) = f[x] + Sum((T \ {x}) \ {c})
  BY ONLY <1>6, <1>8
<1>11. \A p, q, r \in Nat : p + (q + r) = q + (p + r)
  OBVIOUS
<1>12. Sum(T) = f[x] + Sum(T \ {x})
  BY ONLY <1>4, <1>7, <1>9, <1>10, <1>11
<1> QED BY <1>2, <1>12

\* Only the values on the set count.
LEMMA SumOfSame ==
    ASSUME NEW S, IsFiniteSet(S), NEW f, NEW h, \A x \in S : f[x] = h[x]
    PROVE  SumFunctionOnSet(f, S) = SumFunctionOnSet(h, S)
<1> DEFINE B == {T \in SUBSET S : SumFunctionOnSet(f, T) # SumFunctionOnSet(h, T)}
<1> SUFFICES ASSUME B # {} PROVE FALSE
  OBVIOUS
<1>1. PICK T \in B : \A x \in T : T \ {x} \notin B
  BY SmallestSubset
<1>2. T # {}
  BY <1>1, SumOfNone
<1>3. Choice(T) \in T
  BY <1>2 DEF Choice
<1>4. SumFunctionOnSet(f, T \ {Choice(T)}) = SumFunctionOnSet(h, T \ {Choice(T)})
  BY <1>1, <1>3
<1>5. IsFiniteSet(T)
  BY FS_Subset
<1>6. /\ SumFunctionOnSet(f, T) = f[Choice(T)] + SumFunctionOnSet(f, T \ {Choice(T)})
      /\ SumFunctionOnSet(h, T) = h[Choice(T)] + SumFunctionOnSet(h, T \ {Choice(T)})
  BY <1>2, <1>5, SumOfChosen
<1> QED BY <1>1, <1>3, <1>4, <1>6

-----------------------------------------------------------------------------
(***************************************************************************)
(* A function of finite domain: what a change of one value does to its     *)
(* sum, and that one value is no more than the sum, nor are two.           *)
(***************************************************************************)
LEMMA SumWithout ==
    ASSUME NEW S, IsFiniteSet(S), NEW f \in [S -> Nat], NEW a \in S
    PROVE  /\ SumFunction(f) \in Nat
           /\ SumFunctionOnSet(f, S \ {a}) \in Nat
           /\ SumFunction(f) = f[a] + SumFunctionOnSet(f, S \ {a})
<1>1. DOMAIN f = S /\ \A x \in S : f[x] \in Nat
  OBVIOUS
<1>2. IsFiniteSet(S \ {a})
  BY FS_Subset
<1> QED BY <1>1, <1>2, SumOfMember, SumIsNatural DEF SumFunction

LEMMA SumOfChanged ==
    ASSUME NEW S, IsFiniteSet(S), NEW f \in [S -> Nat], NEW h \in [S -> Nat],
           NEW a \in S, \A x \in S \ {a} : f[x] = h[x]
    PROVE  SumFunction(f) + h[a] = SumFunction(h) + f[a]
<1>1. IsFiniteSet(S \ {a})
  BY FS_Subset
<1>2. SumFunctionOnSet(f, S \ {a}) = SumFunctionOnSet(h, S \ {a})
  BY <1>1, SumOfSame
<1>3. f[a] \in Nat /\ h[a] \in Nat
  OBVIOUS
<1> QED BY <1>2, <1>3, SumWithout

LEMMA SumBounds ==
    ASSUME NEW S, IsFiniteSet(S), NEW f \in [S -> Nat], NEW a \in S
    PROVE  /\ SumFunction(f) \in Nat
           /\ f[a] <= SumFunction(f)
           /\ \A b \in S \ {a} : f[a] + f[b] <= SumFunction(f)
<1>1. f[a] \in Nat /\ f[a] <= SumFunction(f) /\ SumFunction(f) \in Nat
  <2>1. f[a] \in Nat
    OBVIOUS
  <2>2. /\ SumFunctionOnSet(f, S \ {a}) \in Nat
        /\ SumFunction(f) = f[a] + SumFunctionOnSet(f, S \ {a})
    BY SumWithout
  <2> QED BY <2>1, <2>2
<1>2. ASSUME NEW b \in S \ {a} PROVE f[a] + f[b] <= SumFunction(f)
  <2>1. IsFiniteSet(S \ {a}) /\ IsFiniteSet((S \ {a}) \ {b})
    BY FS_Subset
  <2>2. SumFunctionOnSet(f, S \ {a}) = f[b] + SumFunctionOnSet(f, (S \ {a}) \ {b})
    BY <2>1, SumOfMember
  <2>3. SumFunctionOnSet(f, (S \ {a}) \ {b}) \in Nat
    BY <2>1, SumIsNatural
  <2> QED BY <2>2, <2>3, SumWithout
<1> QED BY <1>1, <1>2

\* Smaller values have a smaller sum.
LEMMA SumOfSmaller ==
    ASSUME NEW S, IsFiniteSet(S), NEW f \in [S -> Nat], NEW h \in [S -> Nat],
           \A x \in S : f[x] <= h[x]
    PROVE  SumFunction(f) <= SumFunction(h)
<1> DEFINE F(T) == SumFunctionOnSet(f, T)
           H(T) == SumFunctionOnSet(h, T)
           B == {T \in SUBSET S : ~(F(T) <= H(T))}
<1>1. \A T \in SUBSET S : IsFiniteSet(T) /\ F(T) \in Nat /\ H(T) \in Nat
  BY FS_Subset, SumIsNatural
<1>2. ASSUME B # {} PROVE FALSE
  <2>1. PICK T \in B : \A x \in T : T \ {x} \notin B
    BY <1>2, SmallestSubset
  <2>2. T # {}
    BY <2>1, SumOfNone
  <2>3. Choice(T) \in T
    BY <2>2 DEF Choice
  <2>4. F(T \ {Choice(T)}) <= H(T \ {Choice(T)})
    BY <2>1, <2>3
  <2>5. /\ F(T) = f[Choice(T)] + F(T \ {Choice(T)})
        /\ H(T) = h[Choice(T)] + H(T \ {Choice(T)})
    BY <1>1, <2>1, <2>2, SumOfChosen
  <2>6. /\ f[Choice(T)] \in Nat /\ h[Choice(T)] \in Nat
        /\ f[Choice(T)] <= h[Choice(T)]
        /\ F(T \ {Choice(T)}) \in Nat /\ H(T \ {Choice(T)}) \in Nat
    BY <1>1, <2>1, <2>3
  <2> HIDE DEF F, H
  <2>7. F(T) <= H(T)
    BY <2>4, <2>5, <2>6
  <2> QED BY <2>1, <2>7
<1>3. F(S) <= H(S)
  BY <1>2
<1>4. DOMAIN f = S /\ DOMAIN h = S
  OBVIOUS
<1> QED BY <1>3, <1>4 DEF SumFunction

-----------------------------------------------------------------------------
(***************************************************************************)
(* Numbers: powers, what digits write, bits, and remainders of integers.   *)
(***************************************************************************)

\* ToThe multiplies once more with each step of the exponent.
LEMMA PowerStep ==
  ASSUME NEW b \in Int
  PROVE  /\ ToThe(b, 0) = 1
         /\ \A n \in Nat : ToThe(b, n) \in Int /\ ToThe(b, n + 1) = b * ToThe(b, n)
<1> DEFINE Is(p) == p = [n \in Nat |-> IF n = 0 THEN 1 ELSE b * p[n - 1]]
           P == CHOOSE p : Is(p)
           times == [n \in Nat |-> [v \in Int |-> b * v]]
<1>1. PICK g \in [Nat -> Int] : FromBefore(g, 1, times)
  <2>1. times \in [Nat -> [Int -> Int]] /\ 1 \in Int
    OBVIOUS
  <2> HIDE DEF times
  <2> QED BY <2>1, NatRecursion
<1>2. \A n \in Nat : g[n] = IF n = 0 THEN 1 ELSE b * g[n - 1]
  <2> SUFFICES ASSUME NEW n \in Nat PROVE g[n] = IF n = 0 THEN 1 ELSE b * g[n - 1]
    OBVIOUS
  <2>1. g[n] = IF n = 0 THEN 1 ELSE times[n][g[n - 1]]
    BY <1>1 DEF FromBefore
  <2>2. n # 0 => n - 1 \in Nat
    OBVIOUS
  <2>3. n # 0 => g[n - 1] \in Int
    BY <2>2
  <2> QED BY <2>1, <2>3
<1>3. Is(g)
  <2>1. g = [n \in Nat |-> g[n]]
    OBVIOUS
  <2> QED BY <1>2, <2>1
<1>4. Is(P)
  <2> HIDE DEF Is
  <2> QED BY <1>3
<1>5. \A n : ToThe(b, n) = P[n]
  BY DEF ToThe
<1>6. \A n \in Nat : P[n] = IF n = 0 THEN 1 ELSE b * P[n - 1]
  <2> HIDE DEF P
  <2> QED BY <1>4
<1> HIDE DEF P, Is
<1>7. \A n \in Nat : P[n] \in Int
  <2> DEFINE S == {n \in Nat : P[n] \in Int}
  <2>1. 0 \in S
    BY <1>6
  <2>2. \A n \in Nat : n \in S => n + 1 \in S
    <3> SUFFICES ASSUME NEW n \in Nat, P[n] \in Int PROVE P[n + 1] \in Int
      OBVIOUS
    <3>1. n + 1 \in Nat /\ n + 1 # 0 /\ (n + 1) - 1 = n
      OBVIOUS
    <3> QED BY <1>6, <3>1
  <2> HIDE DEF S
  <2>3. \A n \in Nat : n \in S
    BY <2>1, <2>2, Induction
  <2> QED BY <2>3 DEF S
<1>8. \A n \in Nat : P[n + 1] = b * P[n]
  <2> SUFFICES ASSUME NEW n \in Nat PROVE P[n + 1] = b * P[n]
    OBVIOUS
  <2>1. n + 1 \in Nat /\ n + 1 # 0 /\ (n + 1) - 1 = n
    OBVIOUS
  <2> QED BY <1>6, <2>1
<1>9. P[0] = 1
  BY <1>6
<1> QED BY <1>5, <1>7, <1>8, <1>9

\* No power of a positive number is 0.
LEMMA PowerPositive ==
  ASSUME NEW b \in Nat \ {0}, NEW n \in Nat
  PROVE  ToThe(b, n) \in Nat \ {0}
<1> DEFINE S == {k \in Nat : ToThe(b, k) \in Nat \ {0}}
<1>1. 0 \in S
  <2>1. ToThe(b, 0) = 1
    BY PowerStep
  <2> QED BY <2>1
<1>2. \A k \in Nat : k \in S => k + 1 \in S
  <2> SUFFICES ASSUME NEW k \in Nat, ToThe(b, k) \in Nat \ {0}
               PROVE  ToThe(b, k + 1) \in Nat \ {0}
    OBVIOUS
  <2>1. ToThe(b, k + 1) = b * ToThe(b, k)
    BY PowerStep
  <2>2. \A x, y \in Nat \ {0} : x * y \in Nat \ {0}
    OBVIOUS
  <2> QED BY <2>1, <2>2
<1> HIDE DEF S
<1>3. \A k \in Nat : k \in S
  BY <1>1, <1>2, Induction
<1> QED BY <1>3 DEF S

\* The exponents of a product of powers add up.
LEMMA PowerOfSum ==
  ASSUME NEW b \in Int, NEW m \in Nat, NEW n \in Nat
  PROVE  ToThe(b, m + n) = ToThe(b, m) * ToThe(b, n)
<1> DEFINE S == {k \in Nat : ToThe(b, m + k) = ToThe(b, m) * ToThe(b, k)}
<1>1. 0 \in S
  <2>1. ToThe(b, m) \in Int /\ ToThe(b, 0) = 1 /\ m + 0 = m
    BY PowerStep
  <2> QED BY <2>1
<1>2. \A k \in Nat : k \in S => k + 1 \in S
  <2> SUFFICES ASSUME NEW k \in Nat, ToThe(b, m + k) = ToThe(b, m) * ToThe(b, k)
               PROVE  ToThe(b, m + (k + 1)) = ToThe(b, m) * ToThe(b, k + 1)
    OBVIOUS
  <2>1. m + (k + 1) = (m + k) + 1 /\ m + k \in Nat
    OBVIOUS
  <2>2. ToThe(b, m + (k + 1)) = b * ToThe(b, m + k)
    BY <2>1, PowerStep
  <2>3. ToThe(b, k + 1) = b * ToThe(b, k) /\ ToThe(b, k) \in Int /\ ToThe(b, m) \in Int
    BY PowerStep
  <2>4. \A x, y, z \in Int : x * (y * z) = y * (x * z)
    OBVIOUS
  <2> QED BY <2>2, <2>3, <2>4
<1> HIDE DEF S
<1>3. \A k \in Nat : k \in S
  BY <1>1, <1>2, Induction
<1> QED BY <1>3 DEF S

\* A greater exponent makes no smaller power, and splits off the smaller one.
LEMMA PowerSplits ==
  ASSUME NEW b \in Nat \ {0}, NEW n \in Nat, NEW m \in 0 .. n
  PROVE  /\ n - m \in Nat
         /\ ToThe(b, n) = ToThe(b, m) * ToThe(b, n - m)
         /\ ToThe(b, m) <= ToThe(b, n)
<1>1. m \in Nat /\ n - m \in Nat /\ m + (n - m) = n
  OBVIOUS
<1>2. ToThe(b, n) = ToThe(b, m) * ToThe(b, n - m)
  BY <1>1, PowerOfSum
<1>3. ToThe(b, m) \in Nat \ {0} /\ ToThe(b, n - m) \in Nat \ {0}
  BY <1>1, PowerPositive
<1>4. \A x, y \in Nat \ {0} : x <= x * y
  OBVIOUS
<1> QED BY <1>1, <1>2, <1>3, <1>4

\* A number is its upper bits and its last one.
LEMMA Halves ==
  ASSUME NEW x \in Nat
  PROVE  /\ x \div 2 \in Nat /\ x % 2 \in {0, 1} /\ x = 2 * (x \div 2) + (x % 2)
         /\ x % 2 \in Nat
<1>1. x \div 2 \in Nat
  OBVIOUS
<1>2. x % 2 \in Nat /\ x % 2 < 2
  OBVIOUS
<1>3. x = 2 * (x \div 2) + (x % 2)
  OBVIOUS
<1> QED BY <1>1, <1>2, <1>3

\* A number is made of its upper bits and its last one.
LEMMA HalvesOf ==
  ASSUME NEW q \in Nat, NEW r \in {0, 1}
  PROVE  (2 * q + r) \div 2 = q /\ (2 * q + r) % 2 = r
OBVIOUS

\* The recursive function And exists: it goes through the bits.
LEMMA AndHalves ==
  \A x, y \in Nat :
    /\ And[x][y] \in Nat
    /\ And[x][y] = 2 * And[x \div 2][y \div 2] + (x % 2) * (y % 2)
    /\ x = 0 \/ y = 0 => And[x][y] = 0
<1> DEFINE Row(h, x) == [y \in Nat |-> IF x = 0 \/ y = 0 THEN 0
                                      ELSE 2 * h[y \div 2] + (x % 2) * (y % 2)]
           V == [Nat -> Nat]
           none == [y \in Nat |-> 0]
           step == [x \in Nat |-> [h \in V |-> Row(h, x)]]
           Is(f) == f = [x \in Nat |-> [y \in Nat |->
                           IF x = 0 \/ y = 0 THEN 0
                           ELSE 2 * f[x \div 2][y \div 2] + (x % 2) * (y % 2)]]
<1>1. ASSUME NEW h \in V, NEW x \in Nat PROVE Row(h, x) \in V
  <2>1. \A y \in Nat : h[y \div 2] \in Nat /\ x % 2 \in Nat /\ y % 2 \in Nat
    OBVIOUS
  <2> QED BY <2>1
<1>2. none \in V /\ step \in [Nat -> [V -> V]]
  <2> HIDE DEF Row, V
  <2>1. step \in [Nat -> [V -> V]]
    BY <1>1
  <2> QED BY <2>1 DEF V
<1>3. PICK g \in [Nat -> V] : FromHalf(g, none, step)
  <2> HIDE DEF V, none, step
  <2> QED BY <1>2, HalvingRecursion
<1>4. ASSUME NEW x \in Nat PROVE g[x] = Row(g[x \div 2], x)
  <2>1. x \div 2 \in Nat /\ g[x \div 2] \in V
    <3> HIDE DEF V
    <3> QED OBVIOUS
  <2>2. step[x][g[x \div 2]] = Row(g[x \div 2], x)
    <3> HIDE DEF V, Row
    <3> QED BY <2>1
  <2>3. g[x] = IF x = 0 THEN none ELSE step[x][g[x \div 2]]
    <3> HIDE DEF step, none, V
    <3> QED BY <1>3 DEF FromHalf
  <2>4. \A h : none = Row(h, 0)
    OBVIOUS
  <2> HIDE DEF step, none, V, Row
  <2> QED BY <2>2, <2>3, <2>4
<1>5. Is(g)
  <2>1. g = [x \in Nat |-> g[x]]
    OBVIOUS
  <2> HIDE DEF V
  <2>2. g = [x \in Nat |-> Row(g[x \div 2], x)]
    <3> HIDE DEF Row
    <3> QED BY <1>4, <2>1
  <2> QED BY <2>2
<1>6. Is(And)
  <2>1. And = CHOOSE f : Is(f)
    BY DEF And
  <2> HIDE DEF Is
  <2> QED BY <1>5, <2>1
<1>7. ASSUME NEW x \in Nat, NEW y \in Nat
      PROVE  And[x][y] = IF x = 0 \/ y = 0 THEN 0
                         ELSE 2 * And[x \div 2][y \div 2] + (x % 2) * (y % 2)
  <2> DEFINE E(r, z, w) == IF z = 0 \/ w = 0 THEN 0 ELSE 2 * r[w \div 2] + (z % 2) * (w % 2)
  <2>1. And = [z \in Nat |-> [w \in Nat |-> E(And[z \div 2], z, w)]]
    BY <1>6
  <2> HIDE DEF E
  <2>2. And[x] = [w \in Nat |-> E(And[x \div 2], x, w)]
    BY <2>1
  <2>3. And[x][y] = E(And[x \div 2], x, y)
    BY ONLY <2>2, y \in Nat
  <2> QED BY <2>3 DEF E
<1> HIDE DEF Is
<1>8. \A x \in Nat : \A y \in Nat : And[x][y] \in Nat
  <2> DEFINE S == {x \in Nat : \A y \in Nat : And[x][y] \in Nat}
  <2>1. 0 \in S
    <3>1. \A y \in Nat : And[0][y] = 0
      BY <1>7
    <3> QED BY <3>1
  <2>2. \A x \in Nat \ {0} : x \div 2 \in S => x \in S
    <3> SUFFICES ASSUME NEW x \in Nat \ {0}, \A y \in Nat : And[x \div 2][y] \in Nat,
                        NEW y \in Nat
                 PROVE  And[x][y] \in Nat
      OBVIOUS
    <3>1. y \div 2 \in Nat /\ x % 2 \in Nat /\ y % 2 \in Nat
      OBVIOUS
    <3>2. \A a, b, c \in Nat : 2 * a + b * c \in Nat
      OBVIOUS
    <3>3. 2 * And[x \div 2][y \div 2] + (x % 2) * (y % 2) \in Nat
      BY <3>1, <3>2
    <3>4. And[x][y] = IF x = 0 \/ y = 0 THEN 0
                      ELSE 2 * And[x \div 2][y \div 2] + (x % 2) * (y % 2)
      BY <1>7
    <3> QED BY <3>3, <3>4
  <2> HIDE DEF S
  <2>3. \A x \in Nat : x \in S
    BY <2>1, <2>2, HalvingInduction
  <2> QED BY <2>3 DEF S
<1>9. ASSUME NEW x \in Nat, NEW y \in Nat
      PROVE  And[x][y] = 2 * And[x \div 2][y \div 2] + (x % 2) * (y % 2)
  <2>1. CASE x = 0
    <3>1. x \div 2 = 0 /\ x % 2 = 0 /\ y \div 2 \in Nat /\ y % 2 \in Nat
      BY <2>1
    <3>2. And[x][y] = 0 /\ And[x \div 2][y \div 2] = 0
      BY <1>7, <2>1, <3>1
    <3> QED BY <3>1, <3>2
  <2>2. CASE y = 0
    <3>1. y \div 2 = 0 /\ y % 2 = 0 /\ x \div 2 \in Nat /\ x % 2 \in Nat
      BY <2>2
    <3>2. And[x][y] = 0 /\ And[x \div 2][y \div 2] = 0
      BY <1>7, <2>2, <3>1
    <3> QED BY <3>1, <3>2
  <2> QED BY <1>7, <2>1, <2>2
<1> QED BY <1>7, <1>8, <1>9

\* And of two numbers is at most each of them.
LEMMA AndBounds ==
  \A x, y \in Nat : And[x][y] <= x /\ And[x][y] <= y
<1> DEFINE S == {x \in Nat : \A y \in Nat : And[x][y] <= x /\ And[x][y] <= y}
<1>1. 0 \in S
  <2>1. 0 \in Nat /\ \A y \in Nat : And[0][y] = 0 /\ And[y][0] = 0
    BY AndHalves
  <2> QED BY <2>1
<1>2. \A x \in Nat \ {0} : x \div 2 \in S => x \in S
  <2> SUFFICES ASSUME NEW x \in Nat \ {0}, x \div 2 \in S, NEW y \in Nat
               PROVE  And[x][y] <= x /\ And[x][y] <= y
    OBVIOUS
  <2> DEFINE a == x \div 2  b == y \div 2  p == x % 2  q == y % 2  c == And[a][b]
  <2>1. /\ a \in Nat /\ p \in {0, 1} /\ x = 2 * a + p
        /\ b \in Nat /\ q \in {0, 1} /\ y = 2 * b + q
    BY Halves
  <2>2. c \in Nat /\ c <= a /\ c <= b
    BY <2>1, AndHalves
  <2>3. And[x][y] = 2 * c + p * q
    BY AndHalves
  <2>4. p * q \in Nat /\ p * q <= p /\ p * q <= q
    <3> HIDE DEF p, q
    <3> QED BY <2>1
  <2> HIDE DEF a, b, p, q, c
  <2> QED BY <2>1, <2>2, <2>3, <2>4
<1> HIDE DEF S
<1>3. \A x \in Nat : x \in S
  BY <1>1, <1>2, HalvingInduction
<1> QED BY <1>3 DEF S

\* And does not depend on the order of its operands.
LEMMA AndCommutes ==
  \A x, y \in Nat : And[x][y] = And[y][x]
<1> DEFINE S == {x \in Nat : \A y \in Nat : And[x][y] = And[y][x]}
<1>1. 0 \in S
  <2>1. 0 \in Nat /\ \A y \in Nat : And[0][y] = 0 /\ And[y][0] = 0
    BY AndHalves
  <2> QED BY <2>1
<1>2. \A x \in Nat \ {0} : x \div 2 \in S => x \in S
  <2> SUFFICES ASSUME NEW x \in Nat \ {0}, x \div 2 \in S, NEW y \in Nat
               PROVE  And[x][y] = And[y][x]
    OBVIOUS
  <2>1. x \div 2 \in Nat /\ y \div 2 \in Nat
    OBVIOUS
  <2>2. And[x \div 2][y \div 2] = And[y \div 2][x \div 2]
    BY <2>1
  <2>3. (x % 2) * (y % 2) = (y % 2) * (x % 2)
    OBVIOUS
  <2>4. /\ And[x][y] = 2 * And[x \div 2][y \div 2] + (x % 2) * (y % 2)
        /\ And[y][x] = 2 * And[y \div 2][x \div 2] + (y % 2) * (x % 2)
    BY AndHalves
  <2> HIDE DEF S
  <2> QED BY <2>2, <2>3, <2>4
<1> HIDE DEF S
<1>3. \A x \in Nat : x \in S
  BY <1>1, <1>2, HalvingInduction
<1> QED BY <1>3 DEF S

\* Xor and Or go through the bits too, and are natural numbers.
LEMMA XorHalves ==
  ASSUME NEW x \in Nat, NEW y \in Nat
  PROVE  /\ Xor(x, y) \in Nat /\ Or(x, y) \in Nat
         /\ Xor(x, y) <= Or(x, y) /\ x <= Or(x, y)
         /\ Xor(x, y) = 2 * Xor(x \div 2, y \div 2) + ((x % 2) + (y % 2) - 2 * ((x % 2) * (y % 2)))
         /\ Or(x, y) = 2 * Or(x \div 2, y \div 2) + ((x % 2) + (y % 2) - (x % 2) * (y % 2))
         /\ (x % 2) + (y % 2) - 2 * ((x % 2) * (y % 2)) \in {0, 1}
         /\ (x % 2) + (y % 2) - (x % 2) * (y % 2) \in {0, 1}
<1> DEFINE a == x \div 2  b == y \div 2  p == x % 2  q == y % 2  c == And[a][b] d == And[x][y]
<1>1. /\ a \in Nat /\ p \in {0, 1} /\ x = 2 * a + p
      /\ b \in Nat /\ q \in {0, 1} /\ y = 2 * b + q
  BY Halves
<1>2. c \in Nat /\ d \in Nat /\ d = 2 * c + p * q /\ d <= x /\ d <= y
  BY <1>1, AndHalves, AndBounds
<1>3. Xor(x, y) = x + y - 2 * d /\ Or(x, y) = x + y - d /\ Xor(a, b) = a + b - 2 * c /\ Or(a, b) = a + b - c
  BY DEF Xor, Or
<1>4. p * q \in {0, 1} /\ p + q - 2 * (p * q) \in {0, 1} /\ p + q - p * q \in {0, 1}
  <2> HIDE DEF p, q
  <2> QED BY <1>1
<1> HIDE DEF a, b, c, d, p, q
<1>5. /\ Xor(x, y) \in Nat /\ Or(x, y) \in Nat
      /\ Xor(x, y) <= Or(x, y) /\ x <= Or(x, y)
  BY <1>2, <1>3
<1>6. /\ Xor(x, y) = 2 * Xor(a, b) + (p + q - 2 * (p * q))
      /\ Or(x, y) = 2 * Or(a, b) + (p + q - p * q)
  BY <1>1, <1>2, <1>3, <1>4
<1> QED BY <1>4, <1>5, <1>6 DEF a, b, p, q

\* The values of the first digits of a sequence, each from the one before.
LEMMA PrefixSteps ==
  ASSUME NEW base \in Nat, NEW s \in Seq(Nat)
  PROVE  /\ PrefixValues(base, s)[0] = 0
         /\ \A n \in 0 .. Len(s) : PrefixValues(base, s)[n] \in Nat
         /\ \A n \in 0 .. Len(s) - 1 :
              PrefixValues(base, s)[n + 1] = base * PrefixValues(base, s)[n] + s[n + 1]
<1> DEFINE N == Len(s)
           Is(p) == p = [n \in 0 .. N |-> IF n = 0 THEN 0 ELSE base * p[n - 1] + s[n]]
           P == CHOOSE p : Is(p)
           next == [n \in Nat |-> [v \in Nat |-> IF n \in 1 .. N THEN base * v + s[n] ELSE 0]]
<1>0. N \in Nat /\ base \in Nat /\ \A n \in 1 .. N : s[n] \in Nat
  OBVIOUS
<1>a. \A u, v, w \in Nat : u * v + w \in Nat
  OBVIOUS
<1> HIDE DEF N
<1>1. next \in [Nat -> [Nat -> Nat]] /\ 0 \in Nat
  <2>2. \A n, v \in Nat : (IF n \in 1 .. N THEN base * v + s[n] ELSE 0) \in Nat
    BY <1>0, <1>a
  <2> QED BY <2>2
<1>2. PICK g \in [Nat -> Nat] : FromBefore(g, 0, next)
  <2> HIDE DEF next
  <2> QED BY <1>1, NatRecursion
<1>3. \A n \in 0 .. N : g[n] = IF n = 0 THEN 0 ELSE base * g[n - 1] + s[n]
  <2> SUFFICES ASSUME NEW n \in 0 .. N
               PROVE  g[n] = IF n = 0 THEN 0 ELSE base * g[n - 1] + s[n]
    OBVIOUS
  <2>1. n \in Nat /\ (n # 0 => n - 1 \in Nat /\ n \in 1 .. N)
    BY <1>0
  <2>2. g[n] = IF n = 0 THEN 0 ELSE next[n][g[n - 1]]
    BY <1>2, <2>1 DEF FromBefore
  <2>3. n # 0 => g[n - 1] \in Nat
    BY <2>1
  <2> QED BY <2>1, <2>2, <2>3
<1>4. Is([n \in 0 .. N |-> g[n]])
  <2>1. \A n \in 0 .. N : n # 0 => n - 1 \in 0 .. N
    BY <1>0
  <2> QED BY <1>3, <2>1
<1>5. Is(P)
  <2> HIDE DEF Is
  <2> QED BY <1>4
<1>6. PrefixValues(base, s) = P
  BY DEF PrefixValues, N
<1>7. \A n \in 0 .. N : P[n] = IF n = 0 THEN 0 ELSE base * P[n - 1] + s[n]
  <2> HIDE DEF P
  <2> QED BY <1>5
<1> HIDE DEF P, Is
<1>8. P[0] = 0
  BY <1>0, <1>7
<1>9. ASSUME NEW n \in 0 .. N - 1 PROVE P[n + 1] = base * P[n] + s[n + 1]
  <2>1. n + 1 \in 0 .. N /\ n + 1 # 0 /\ (n + 1) - 1 = n
    BY <1>0
  <2> QED BY <1>7, <2>1
<1>10. \A n \in 0 .. N : P[n] \in Nat
  <2> DEFINE S == {n \in Nat : n <= N => P[n] \in Nat}
  <2>1. 0 \in S
    BY <1>8
  <2>2. \A n \in Nat : n \in S => n + 1 \in S
    <3> SUFFICES ASSUME NEW n \in Nat, n + 1 <= N, P[n] \in Nat PROVE P[n + 1] \in Nat
      BY <1>0
    <3>1. n \in 0 .. N - 1 /\ n + 1 \in 1 .. N
      BY <1>0
    <3>2. P[n + 1] = base * P[n] + s[n + 1] /\ s[n + 1] \in Nat
      BY <1>0, <1>9, <3>1
    <3> QED BY <1>0, <1>a, <3>2
  <2> HIDE DEF S
  <2>3. \A n \in Nat : n \in S
    BY <2>1, <2>2, Induction
  <2> QED BY <1>0, <2>3 DEF S
<1> QED BY <1>6, <1>8, <1>9, <1>10 DEF N

\* Digits are natural numbers.
LEMMA DigitsNatural ==
  ASSUME NEW base \in Nat \ {0}, NEW s \in Seq(0 .. base - 1)
  PROVE  /\ s \in Seq(Nat)
         /\ \A n \in 1 .. Len(s) : s[n] \in Nat /\ s[n] < base
<1> DEFINE Digits == 0 .. base - 1
<1>1. s \in Seq(Digits) /\ \A d \in Digits : d \in Nat /\ d < base
  OBVIOUS
<1> HIDE DEF Digits
<1>2. Seq(Digits) \subseteq Seq(Nat)
  BY <1>1
<1>3. \A n \in 1 .. Len(s) : s[n] \in Digits
  BY <1>1
<1> QED BY <1>1, <1>2, <1>3

\* What n digits can hold.
LEMMA ValueBound ==
  ASSUME NEW base \in Nat \ {0}, NEW s \in Seq(0 .. base - 1)
  PROVE  ValueOf(base, s) \in Nat /\ ValueOf(base, s) < ToThe(base, Len(s))
<1> DEFINE N == Len(s)
           B(n) == PrefixValues(base, s)[n]
           S == {n \in Nat : n <= N => B(n) < ToThe(base, n)}
<1>1. N \in Nat /\ base \in Nat \ {0}
  OBVIOUS
<1>2. /\ B(0) = 0 /\ \A n \in 0 .. N : B(n) \in Nat
      /\ \A n \in 0 .. N - 1 : B(n + 1) = base * B(n) + s[n + 1]
  BY DigitsNatural, PrefixSteps
<1>3. \A n \in 0 .. N - 1 : s[n + 1] \in Nat /\ s[n + 1] < base
  <2>1. \A n \in 1 .. N : s[n] \in Nat /\ s[n] < base
    BY DigitsNatural
  <2>2. \A n \in 0 .. N - 1 : n + 1 \in 1 .. N
    BY <1>1
  <2> HIDE DEF N
  <2> QED BY <1>1, <2>1, <2>2
<1> HIDE DEF N, B
<1>4. 0 \in S
  BY <1>2, <1>1, PowerStep
<1>5. \A n \in Nat : n \in S => n + 1 \in S
  <2> SUFFICES ASSUME NEW n \in Nat, n + 1 <= N, B(n) < ToThe(base, n)
               PROVE  B(n + 1) < ToThe(base, n + 1)
    BY <1>1
  <2>1. n \in 0 .. N - 1 /\ n \in 0 .. N
    BY <1>1
  <2>2. /\ B(n + 1) = base * B(n) + s[n + 1] /\ B(n) \in Nat
        /\ s[n + 1] \in Nat /\ s[n + 1] < base
    BY <1>2, <1>3, <2>1
  <2>3. ToThe(base, n + 1) = base * ToThe(base, n) /\ ToThe(base, n) \in Nat
    BY <1>1, PowerStep, PowerPositive
  <2>4. \A k, b, t, c \in Nat : b < t /\ c < k => k * b + c < k * t
    <3>1. \A k, b, t \in Nat : b < t => k * (b + 1) <= k * t
      OBVIOUS
    <3>2. \A k, b \in Nat : k * (b + 1) = k * b + k /\ k * b \in Nat
      OBVIOUS
    <3>3. \A k, t \in Nat : k * t \in Nat
      OBVIOUS
    <3> QED BY <3>1, <3>2, <3>3
  <2> QED BY <1>1, <2>2, <2>3, <2>4
<1> HIDE DEF S
<1>6. \A n \in Nat : n \in S
  BY <1>4, <1>5, Induction
<1>7. B(N) < ToThe(base, N) /\ B(N) \in Nat
  <2>1. N \in 0 .. N
    BY <1>1
  <2> QED BY <1>1, <1>2, <1>6, <2>1 DEF S
<1> QED BY <1>7 DEF ValueOf, B, N

\* The value of one digit is the digit.
LEMMA OneDigit ==
  ASSUME NEW base \in Nat \ {0}, NEW s \in Seq(0 .. base - 1), Len(s) = 1, s[1] \in Nat
  PROVE  ValueOf(base, s) = s[1]
<1>1. /\ PrefixValues(base, s)[0] = 0
      /\ PrefixValues(base, s)[0 + 1] = base * PrefixValues(base, s)[0] + s[0 + 1]
  <2>1. 0 \in 0 .. Len(s) - 1
    OBVIOUS
  <2> QED BY <2>1, DigitsNatural, PrefixSteps
<1>2. 0 + 1 = 1
  OBVIOUS
<1>3. PrefixValues(base, s)[1] = base * 0 + s[1]
  BY <1>1, <1>2
<1> QED BY <1>3 DEF ValueOf

\* The powers of 2 double.
LEMMA TwoPower ==
  ASSUME NEW n \in Nat
  PROVE  /\ ToThe(2, n) \in Nat \ {0} /\ ToThe(2, 0) = 1
         /\ ToThe(2, n + 1) = 2 * ToThe(2, n)
<1>1. 2 \in Int /\ 2 \in Nat \ {0}
  OBVIOUS
<1>2. ToThe(2, n) \in Nat \ {0}
  BY <1>1, PowerPositive
<1> QED BY <1>1, <1>2, PowerStep

\* The operations on words are operations within the words.
LEMMA OrBound ==
  \A n \in Nat : \A x, y \in Nat :
    x < ToThe(2, n) /\ y < ToThe(2, n) => Or(x, y) < ToThe(2, n) /\ Xor(x, y) < ToThe(2, n)
<1> DEFINE P(n) == \A x, y \in Nat : x < ToThe(2, n) /\ y < ToThe(2, n) => Or(x, y) < ToThe(2, n)
           S == {n \in Nat : P(n)}
<1>1. 0 \in S
  <2> SUFFICES ASSUME NEW x \in Nat, NEW y \in Nat, x < ToThe(2, 0), y < ToThe(2, 0)
               PROVE  Or(x, y) < ToThe(2, 0)
    OBVIOUS
  <2>1. ToThe(2, 0) = 1 /\ x = 0 /\ y = 0
    BY TwoPower
  <2> QED BY <2>1, AndHalves DEF Or
<1>2. \A n \in Nat : n \in S => n + 1 \in S
  <2> SUFFICES ASSUME NEW n \in Nat, P(n), NEW x \in Nat, NEW y \in Nat,
                      x < ToThe(2, n + 1), y < ToThe(2, n + 1)
               PROVE  Or(x, y) < ToThe(2, n + 1)
    OBVIOUS
  <2> DEFINE t == ToThe(2, n)  a == x \div 2  b == y \div 2  r == (x % 2) + (y % 2) - (x % 2) * (y % 2)
  <2>1. t \in Nat \ {0} /\ ToThe(2, n + 1) = 2 * t
    BY TwoPower
  <2>2. a \in Nat /\ b \in Nat /\ a < t /\ b < t
    <3> HIDE DEF t
    <3> QED BY <2>1
  <2>3. Or(a, b) < t /\ Or(a, b) \in Nat
    BY <2>2, XorHalves
  <2>4. Or(x, y) = 2 * Or(a, b) + r /\ r \in {0, 1}
    BY XorHalves
  <2> HIDE DEF t, a, b, r
  <2> QED BY <2>1, <2>3, <2>4
<1> HIDE DEF S
<1>3. \A n \in Nat : n \in S
  BY <1>1, <1>2, Induction
<1>4. ASSUME NEW n \in Nat, NEW x \in Nat, NEW y \in Nat, x < ToThe(2, n), y < ToThe(2, n)
      PROVE  Or(x, y) < ToThe(2, n) /\ Xor(x, y) < ToThe(2, n)
  <2>1. Or(x, y) < ToThe(2, n)
    BY <1>3, <1>4 DEF S
  <2>2. Xor(x, y) <= Or(x, y) /\ Or(x, y) \in Nat /\ Xor(x, y) \in Nat /\ ToThe(2, n) \in Nat
    BY XorHalves, TwoPower
  <2> QED BY <2>1, <2>2
<1> QED BY <1>4

\* Nor do Xor and Or depend on the order.
LEMMA XorCommutes ==
  ASSUME NEW x \in Nat, NEW y \in Nat
  PROVE  Xor(x, y) = Xor(y, x) /\ Or(x, y) = Or(y, x)
<1>1. And[x][y] = And[y][x] /\ And[x][y] \in Nat
  BY AndCommutes, AndHalves
<1> QED BY <1>1 DEF Xor, Or

\* Xor does not depend on how three operands are paired.
LEMMA XorAssociates ==
  \A x, y, z \in Nat : Xor(Xor(x, y), z) = Xor(x, Xor(y, z))
<1> DEFINE P(x) == \A y, z \in Nat : Xor(Xor(x, y), z) = Xor(x, Xor(y, z))
           S == {x \in Nat : P(x)}
<1>1. 0 \in S
  <2>1. \A y \in Nat : Xor(0, y) = y
    BY AndHalves DEF Xor
  <2>2. \A y, z \in Nat : Xor(y, z) \in Nat
    BY XorHalves
  <2> QED BY <2>1, <2>2
<1>2. \A x \in Nat \ {0} : x \div 2 \in S => x \in S
  <2> SUFFICES ASSUME NEW x \in Nat \ {0}, P(x \div 2), NEW y \in Nat, NEW z \in Nat
               PROVE  Xor(Xor(x, y), z) = Xor(x, Xor(y, z))
    OBVIOUS
  <2> DEFINE B(p, q) == p + q - 2 * (p * q)
             a == x \div 2  b == y \div 2  c == z \div 2
             p == x % 2  q == y % 2  r == z % 2
  <2>1. a \in Nat /\ b \in Nat /\ c \in Nat /\ p \in {0, 1} /\ q \in {0, 1} /\ r \in {0, 1}
    BY Halves
  <2>2. Xor(Xor(a, b), c) = Xor(a, Xor(b, c))
    BY <2>1
  <2>3. ASSUME NEW u \in Nat, NEW v \in Nat
        PROVE  /\ Xor(u, v) \in Nat
               /\ Xor(u, v) = 2 * Xor(u \div 2, v \div 2) + B(u % 2, v % 2)
               /\ Xor(u, v) \div 2 = Xor(u \div 2, v \div 2)
               /\ Xor(u, v) % 2 = B(u % 2, v % 2)
    <3>1. u \div 2 \in Nat /\ v \div 2 \in Nat
      OBVIOUS
    <3>2. Xor(u \div 2, v \div 2) \in Nat
      BY <3>1, XorHalves
    <3>3. Xor(u, v) \in Nat /\ Xor(u, v) = 2 * Xor(u \div 2, v \div 2) + B(u % 2, v % 2)
          /\ B(u % 2, v % 2) \in {0, 1}
      BY XorHalves
    <3> HIDE DEF B
    <3> QED BY <3>2, <3>3, HalvesOf
  <2>4. /\ Xor(x, y) \in Nat /\ Xor(y, z) \in Nat
        /\ Xor(x, y) \div 2 = Xor(a, b) /\ Xor(x, y) % 2 = B(p, q)
        /\ Xor(y, z) \div 2 = Xor(b, c) /\ Xor(y, z) % 2 = B(q, r)
    BY <2>3
  <2>5. /\ Xor(Xor(x, y), z) = 2 * Xor(Xor(a, b), c) + B(B(p, q), r)
        /\ Xor(x, Xor(y, z)) = 2 * Xor(a, Xor(b, c)) + B(p, B(q, r))
    <3> HIDE DEF B
    <3> QED BY <2>3, <2>4
  <2>6. B(B(p, q), r) = B(p, B(q, r))
    <3> HIDE DEF p, q, r
    <3> QED BY <2>1
  <2> HIDE DEF a, b, c, p, q, r, B
  <2> QED BY <2>2, <2>5, <2>6
<1> HIDE DEF S
<1>3. \A x \in Nat : x \in S
  BY <1>1, <1>2, HalvingInduction
<1> QED BY <1>3 DEF S

\* Bits that do not overlap.
LEMMA AndDisjoint ==
  \A k \in Nat : \A x, q \in Nat : x < ToThe(2, k) => And[x][ToThe(2, k) * q] = 0
<1> DEFINE P(k) == \A x, q \in Nat : x < ToThe(2, k) => And[x][ToThe(2, k) * q] = 0
           S == {k \in Nat : P(k)}
<1>1. 0 \in S
  <2>1. ToThe(2, 0) = 1
    BY TwoPower
  <2>2. \A x, q \in Nat : x < 1 => And[x][1 * q] = 0
    BY AndHalves
  <2> QED BY <2>1, <2>2
<1>2. ASSUME NEW k \in Nat, P(k) PROVE P(k + 1)
  <2> SUFFICES ASSUME NEW x \in Nat, NEW q \in Nat, x < ToThe(2, k + 1)
               PROVE  And[x][ToThe(2, k + 1) * q] = 0
    BY Zenon
  <2> DEFINE t == ToThe(2, k)  y == t * q
  <2>1. t \in Nat /\ ToThe(2, k + 1) = 2 * t
    BY TwoPower
  <2>2. y \in Nat /\ ToThe(2, k + 1) * q = 2 * y
    <3>1. \A u, v \in Nat : (2 * u) * v = 2 * (u * v) /\ u * v \in Nat
      OBVIOUS
    <3> HIDE DEF t
    <3> QED BY <2>1, <3>1
  <2>3. (2 * y) \div 2 = y /\ (2 * y) % 2 = 0 /\ 2 * y \in Nat
    <3> HIDE DEF y
    <3> QED BY <2>2
  <2>4. x \div 2 \in Nat /\ x \div 2 < t /\ x % 2 \in Nat
    <3> HIDE DEF t
    <3> QED BY <2>1
  <2>5. And[x \div 2][y] = 0
    BY <1>2, <2>4
  <2>6. And[x][2 * y] = 2 * And[x \div 2][y] + (x % 2) * 0
    <3>1. And[x][2 * y] = 2 * And[x \div 2][(2 * y) \div 2] + (x % 2) * ((2 * y) % 2)
      <4> HIDE DEF y
      <4> QED BY <2>3, AndHalves
    <3> HIDE DEF y
    <3> QED BY <2>3, <3>1
  <2> HIDE DEF y, t
  <2> QED BY <2>2, <2>4, <2>5, <2>6
<1>3. \A k \in Nat : k \in S => k + 1 \in S
  <2> HIDE DEF P
  <2> QED BY <1>2
<1> HIDE DEF S
<1>4. \A k \in Nat : k \in S
  BY <1>1, <1>3, Induction
<1> QED BY <1>4 DEF S

\* A mask of the k lowest bits leaves the rest after division.
LEMMA AndMask ==
  \A k \in Nat : \A x \in Nat : And[x][ToThe(2, k) - 1] = x % ToThe(2, k)
<1> DEFINE P(k) == \A x \in Nat : And[x][ToThe(2, k) - 1] = x % ToThe(2, k)
           S == {k \in Nat : P(k)}
<1>1. 0 \in S
  <2>1. ToThe(2, 0) = 1
    BY TwoPower
  <2>2. \A x \in Nat : And[x][0] = 0
    BY AndHalves
  <2>3. \A x \in Nat : x % 1 = 0
    OBVIOUS
  <2>4. 1 - 1 = 0
    OBVIOUS
  <2> QED BY <2>1, <2>2, <2>3, <2>4
<1>2. \A k \in Nat : k \in S => k + 1 \in S
  <2> SUFFICES ASSUME NEW k \in Nat, P(k), NEW x \in Nat
               PROVE  And[x][ToThe(2, k + 1) - 1] = x % ToThe(2, k + 1)
    OBVIOUS
  <2> DEFINE t == ToThe(2, k)  a == x \div 2  p == x % 2
  <2>1. t \in Nat \ {0} /\ ToThe(2, k + 1) = 2 * t
    BY TwoPower
  <2>2. a \in Nat /\ p \in {0, 1} /\ x = 2 * a + p
    BY Halves
  <2>3. 2 * t - 1 = 2 * (t - 1) + 1 /\ t - 1 \in Nat /\ 2 * t - 1 \in Nat
    <3> HIDE DEF t
    <3> QED BY <2>1
  <2>4. (2 * t - 1) \div 2 = t - 1 /\ (2 * t - 1) % 2 = 1
    <3> HIDE DEF t
    <3> QED BY <2>1, <2>3
  <2>5. And[a][t - 1] = a % t
    BY <2>2
  <2>6. And[x][2 * t - 1] = 2 * And[a][t - 1] + p * 1
    <3> HIDE DEF t
    <3> QED BY <2>3, <2>4, AndHalves
  <2>7. x % (2 * t) = 2 * (a % t) + p
    <3> DEFINE r == a % t  d == a \div t
    <3>1. r \in Nat /\ r < t /\ d \in Nat /\ a = t * d + r
      <4> HIDE DEF t, a
      <4> QED BY <2>1, <2>2
    <3>2. x = (2 * t) * d + (2 * r + p) /\ 2 * r + p < 2 * t /\ 2 * r + p \in Nat
      <4> HIDE DEF t, a, p, r, d
      <4> QED BY <2>1, <2>2, <3>1
    <3>3. \A n, u, v, m \in Nat : n = m * u + v /\ v < m => n % m = v
      OBVIOUS
    <3>4. 2 * t \in Nat
      <4> HIDE DEF t
      <4> QED BY <2>1
    <3> HIDE DEF t, a, p, r, d
    <3>5. x % (2 * t) = 2 * r + p
      BY ONLY <3>1, <3>2, <3>3, <3>4, x \in Nat
    <3> QED BY <3>5 DEF r
  <2> HIDE DEF t, a, p
  <2> QED BY <2>1, <2>2, <2>5, <2>6, <2>7
<1> HIDE DEF S
<1>3. \A k \in Nat : k \in S
  BY <1>1, <1>2, Induction
<1> QED BY <1>3 DEF S

\* Remainders of any integer.
LEMMA Remainders ==
  ASSUME NEW s \in Nat \ {0}, NEW a \in Int
  PROVE  /\ a % s \in 0 .. s - 1 /\ a % s \in Nat /\ a % s < s
         /\ a \div s \in Int /\ a = s * (a \div s) + (a % s)
         /\ a \in Nat /\ a < s => a % s = a
OBVIOUS

\* Quotient and remainder are unique.
LEMMA RemainderIs ==
  ASSUME NEW s \in Nat \ {0}, NEW q \in Int, NEW r \in Nat, r < s, NEW a \in Int, a = s * q + r
  PROVE  a % s = r
<1>1. a % s \in Nat /\ a % s < s /\ a \div s \in Int /\ a = s * (a \div s) + (a % s)
  BY Remainders
<1>2. ASSUME NEW p \in Int, NEW t \in Nat, t < s, s * q + r = s * p + t PROVE r = t
  <2>1. q = p
    <3>1. CASE q > p
      <4>1. q - p >= 1 /\ s * (q - p) = s * q - s * p
        BY <3>1
      <4>2. \A i \in Int : i >= 1 => s * i >= s
        OBVIOUS
      <4>3. s * (q - p) >= s
        BY <4>1, <4>2
      <4>4. s * q \in Int /\ s * p \in Int
        OBVIOUS
      <4> QED BY <1>2, <4>1, <4>3, <4>4
    <3>2. CASE p > q
      <4>1. p - q >= 1 /\ s * (p - q) = s * p - s * q
        BY <3>2
      <4>2. \A i \in Int : i >= 1 => s * i >= s
        OBVIOUS
      <4>3. s * (p - q) >= s
        BY <4>1, <4>2
      <4>4. s * q \in Int /\ s * p \in Int
        OBVIOUS
      <4> QED BY <1>2, <4>1, <4>3, <4>4
    <3> QED BY <3>1, <3>2
  <2>2. s * q \in Int
    OBVIOUS
  <2> QED BY <1>2, <2>1, <2>2
<1> QED BY <1>1, <1>2

\* A multiple of the divisor does not change the remainder.
LEMMA MultiplesVanish ==
  ASSUME NEW s \in Nat \ {0}, NEW q \in Int, NEW a \in Int
  PROVE  (s * q + a) % s = a % s
<1>1. a % s \in Nat /\ a % s < s /\ a \div s \in Int /\ a = s * (a \div s) + (a % s)
  BY Remainders
<1>2. s * q + a = s * (q + (a \div s)) + (a % s)
  <2>1. \A i \in Int : s * (q + i) = s * q + s * i
    OBVIOUS
  <2>2. s * q \in Int /\ s * (a \div s) \in Int
    BY <1>1
  <2> QED BY <1>1, <2>1, <2>2
<1>3. s * q + a \in Int /\ q + (a \div s) \in Int
  BY <1>1
<1>4. PICK p \in Int : p = q + (a \div s)
  BY <1>3
<1>5. PICK r \in Nat : r = a % s
  BY <1>1
<1>6. PICK t \in Int : t = s * q + a
  BY <1>3
<1>7. t = s * p + r /\ r < s
  BY <1>1, <1>2, <1>4, <1>5, <1>6
<1>8. t % s = r
  BY <1>7, RemainderIs
<1> QED BY <1>5, <1>6, <1>8

\* Numbers with one remainder differ by a multiple of the divisor.
LEMMA SameRemainder ==
  ASSUME NEW s \in Nat \ {0}, NEW a \in Int, NEW b \in Int, a % s = b % s
  PROVE  \E q \in Int : a = s * q + b
<1>1. /\ a \div s \in Int /\ a = s * (a \div s) + (a % s)
      /\ b \div s \in Int /\ b = s * (b \div s) + (b % s) /\ a % s \in Int
  BY Remainders
<1>2. \A i, j \in Int : s * (i - j) = s * i - s * j /\ s * i \in Int /\ i - j \in Int
  OBVIOUS
<1>3. a = s * ((a \div s) - (b \div s)) + b
  BY <1>1, <1>2
<1> QED BY <1>1, <1>2, <1>3

\* Numbers with one remainder have one after each operation of the ring.
LEMMA Congruent ==
  ASSUME NEW s \in Nat \ {0}, NEW a \in Int, NEW b \in Int, a % s = b % s, NEW x \in Int
  PROVE  /\ (a + x) % s = (b + x) % s /\ (a - x) % s = (b - x) % s
         /\ (x - a) % s = (x - b) % s /\ (a * x) % s = (b * x) % s /\ (x * a) % s = (x * b) % s
<1>1. PICK q \in Int : a = s * q + b
  BY SameRemainder
<1>2. s * q \in Int /\ q * x \in Int /\ -q \in Int
  OBVIOUS
<1>3. /\ a + x = s * q + (b + x) /\ a - x = s * q + (b - x)
  BY <1>1, <1>2
<1>4. x - a = s * (-q) + (x - b)
  <2>1. s * (-q) = -(s * q)
    OBVIOUS
  <2> QED BY <1>1, <1>2, <2>1
<1>5. a * x = s * (q * x) + b * x
  <2>1. \A i, j, k, l \in Int : (i * j + k) * l = i * (j * l) + k * l
    OBVIOUS
  <2> QED BY <1>1, <2>1
<1>6. x * a = a * x /\ x * b = b * x /\ b * x \in Int /\ b + x \in Int /\ b - x \in Int /\ x - b \in Int
  OBVIOUS
<1>7. /\ (s * q + (b + x)) % s = (b + x) % s
      /\ (s * q + (b - x)) % s = (b - x) % s
  BY <1>6, MultiplesVanish
<1>8. (s * (-q) + (x - b)) % s = (x - b) % s
  BY <1>2, <1>6, MultiplesVanish
<1>9. (s * (q * x) + b * x) % s = (b * x) % s
  BY <1>2, <1>6, MultiplesVanish
<1> QED BY <1>3, <1>4, <1>5, <1>6, <1>7, <1>8, <1>9

\* Nor do their complements differ in it.
LEMMA ComplementCongruent ==
  ASSUME NEW s \in Nat \ {0}, NEW a \in Int, NEW b \in Int, a % s = b % s
  PROVE  (-a - 1) % s = (-b - 1) % s
<1>1. PICK q \in Int : a = s * q + b
  BY SameRemainder
<1>2. s * q \in Int /\ -q \in Int /\ s * (-q) = -(s * q) /\ -b - 1 \in Int
  OBVIOUS
<1>3. -a - 1 = s * (-q) + (-b - 1)
  BY <1>1, <1>2
<1>4. (s * (-q) + (-b - 1)) % s = (-b - 1) % s
  BY <1>2, MultiplesVanish
<1> QED BY <1>3, <1>4

\* A remainder is its own remainder.
LEMMA RemainderCongruent ==
  ASSUME NEW s \in Nat \ {0}, NEW a \in Int
  PROVE  (a % s) % s = a % s /\ a % s \in Int
<1>1. PICK r \in Nat : r = a % s /\ r < s
  BY Remainders
<1>2. r \in Nat /\ s \in Nat \ {0} /\ r < s
  BY <1>1
<1>3. r % s = r
  BY ONLY <1>2
<1> QED BY <1>1, <1>3

\* Nor do powers of numbers with one remainder differ in it.
LEMMA PowersCongruent ==
  ASSUME NEW s \in Nat \ {0}, NEW a \in Int, NEW b \in Int, a % s = b % s
  PROVE  \A n \in Nat : ToThe(a, n) % s = ToThe(b, n) % s
<1> DEFINE S == {n \in Nat : ToThe(a, n) % s = ToThe(b, n) % s}
<1>1. 0 \in S
  <2>1. ToThe(a, 0) = 1 /\ ToThe(b, 0) = 1
    BY PowerStep
  <2> QED BY <2>1
<1>2. \A n \in Nat : n \in S => n + 1 \in S
  <2> SUFFICES ASSUME NEW n \in Nat, ToThe(a, n) % s = ToThe(b, n) % s
               PROVE  ToThe(a, n + 1) % s = ToThe(b, n + 1) % s
    OBVIOUS
  <2>1. PICK u : u = ToThe(a, n)
    OBVIOUS
  <2>2. PICK v : v = ToThe(b, n)
    OBVIOUS
  <2>3. u \in Int /\ v \in Int /\ ToThe(a, n + 1) = a * u /\ ToThe(b, n + 1) = b * v
    BY <2>1, <2>2, PowerStep
  <2>4. u % s = v % s
    BY <2>1, <2>2
  <2>5. (a * u) % s = (b * u) % s
    BY <2>3, Congruent, ZenonT(60)
  <2>6. (b * u) % s = (b * v) % s
    BY <2>3, <2>4, Congruent, ZenonT(60)
  <2> QED BY <2>3, <2>5, <2>6
<1> HIDE DEF S
<1>3. \A n \in Nat : n \in S
  BY <1>1, <1>2, Induction
<1> QED BY <1>3 DEF S

\* The exponents of a power of a power multiply.
LEMMA PowerOfPower ==
  ASSUME NEW b \in Int, NEW m \in Nat, NEW n \in Nat
  PROVE  ToThe(ToThe(b, m), n) = ToThe(b, m * n)
<1> DEFINE S == {k \in Nat : ToThe(ToThe(b, m), k) = ToThe(b, m * k)}
<1>0. ToThe(b, m) \in Int
  BY PowerStep
<1>1. 0 \in S
  <2>1. ToThe(b, 0) = 1 /\ ToThe(ToThe(b, m), 0) = 1 /\ m * 0 = 0
    BY <1>0, PowerStep
  <2> QED BY <2>1
<1>2. \A k \in Nat : k \in S => k + 1 \in S
  <2> SUFFICES ASSUME NEW k \in Nat, ToThe(ToThe(b, m), k) = ToThe(b, m * k)
               PROVE  ToThe(ToThe(b, m), k + 1) = ToThe(b, m * (k + 1))
    OBVIOUS
  <2>1. m * (k + 1) = m + m * k /\ m * k \in Nat
    OBVIOUS
  <2>2. ToThe(ToThe(b, m), k + 1) = ToThe(b, m) * ToThe(ToThe(b, m), k)
    BY <1>0, PowerStep
  <2>3. ToThe(b, m + m * k) = ToThe(b, m) * ToThe(b, m * k)
    BY <2>1, PowerOfSum
  <2> QED BY <2>1, <2>2, <2>3
<1> HIDE DEF S
<1>3. \A k \in Nat : k \in S
  BY <1>1, <1>2, Induction
<1> QED BY <1>3 DEF S
=============================================================================
