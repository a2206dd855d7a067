------------------------- MODULE BlockImportProofs --------------------------
(***************************************************************************)
(* Whatever blocks are imported in whatever order: those that are accepted *)
(* are valid on their own parents, those that are refused are not, and a   *)
(* test passes if and only if it should.                                   *)
(***************************************************************************)
EXTENDS BlockImportInvariants, DataTheorems, SequenceTheorems

-----------------------------------------------------------------------------
\* Transactions, headers and events.
LEMMA TxFacts ==
  ASSUME NEW b \in Known
  PROVE  /\ Content[b].number \in Nat /\ Content[b].gasLimit \in Nat
         /\ Content[b].txs \in Seq(DOMAIN TxOf)
         /\ Len(Content[b].txs) \in Nat
         /\ DOMAIN Content[b].txs = 1 .. Len(Content[b].txs)
         /\ \A i \in 1 .. Len(Content[b].txs) :
              LET T == TxOf[Content[b].txs[i]]
              IN  /\ Content[b].txs[i] \in DOMAIN TxOf
                  /\ T.nonce \in Nat /\ T.gasLimit \in Nat /\ T.blobs \in Nat
                  /\ T.gasUsed \in Nat /\ T.gasUsed <= T.gasLimit
                  /\ T.logs \in Logs
<1>1. /\ {Content[b].number, Content[b].gasLimit, Content[b].gasUsed} \subseteq Nat
      /\ Content[b].txs \in Seq(DOMAIN TxOf)
  BY ImportAssumption, ContentAssumption DEF ContentAssumption
<1>2. ASSUME NEW t \in DOMAIN TxOf
      PROVE  /\ TxOf[t].nonce \in Nat /\ TxOf[t].gasLimit \in Nat /\ TxOf[t].blobs \in Nat
             /\ TxOf[t].gasUsed \in Nat /\ TxOf[t].gasUsed <= TxOf[t].gasLimit
             /\ TxOf[t].logs \in Logs
  <2>1. /\ {TxOf[t].nonce, TxOf[t].gasLimit, TxOf[t].blobs} \subseteq Nat
        /\ TxOf[t].gasUsed \in 0 .. TxOf[t].gasLimit
    BY ContentAssumption DEF ContentAssumption
  <2>2. TxOf[t].logs \in Logs
    BY DEF Logs
  <2> QED BY <2>1, <2>2
<1>3. \A i \in 1 .. Len(Content[b].txs) : Content[b].txs[i] \in DOMAIN TxOf
  BY <1>1
<1> QED BY <1>1, <1>2, <1>3

LEMMA BlockFacts ==
  /\ Block \subseteq Known /\ Genesis \in Known /\ Genesis \notin Block
  /\ ZeroHash \notin Known /\ Content[Genesis].number = 0
  /\ HasBeaconRoots \in BOOLEAN
  BY ImportAssumption, ContentAssumption DEF ImportAssumption, ContentAssumption, Known, Content

\* The parent of each block.
ParentOf == [b \in Known |-> Content[b].parent]

LEMMA NoBlockIsItsAncestor == NoCycle(Known, Genesis, ParentOf)
<1> SUFFICES ASSUME NEW S \in (SUBSET (Known \ {Genesis})) \ {{}}
             PROVE  \E b \in S : ParentOf[b] \notin S
  BY DEF NoCycle
<1>1. S \in (SUBSET Block) \ {{}}
  BY DEF Known
<1>2. PICK b \in S : Content[b].parent \notin S
  BY <1>1, ContentAssumption DEF ContentAssumption
<1> QED BY <1>2 DEF ParentOf

LEMMA EventFacts ==
  ASSUME NEW b \in Block
  PROVE  /\ <<"beacon", b>> \in Event /\ <<"withdraw", b>> \in Event
         /\ \A t \in DOMAIN TxOf : <<"tx", t>> \in Event
  BY DEF Event

Beacons(b)   == IF HasBeaconRoots THEN << <<"beacon", b>> >> ELSE <<>>
Withdraws(b) == IF Content[b].withdraws THEN << <<"withdraw", b>> >> ELSE <<>>
TxEvents(b, n) == [i \in 1 .. n |-> <<"tx", Content[b].txs[i]>>]

LEMMA PiecesAreEvents ==
  ASSUME NEW b \in Block
  PROVE  /\ Beacons(b) \in Seq(Event) /\ Withdraws(b) \in Seq(Event)
         /\ \A n \in 0 .. Len(Content[b].txs) :
              TxEvents(b, n) \in Seq(Event) /\ Len(TxEvents(b, n)) = n
<1>1. Beacons(b) \in Seq(Event) /\ Withdraws(b) \in Seq(Event)
  BY EventFacts DEF Beacons, Withdraws
<1>2. ASSUME NEW n \in 0 .. Len(Content[b].txs)
      PROVE  TxEvents(b, n) \in Seq(Event) /\ Len(TxEvents(b, n)) = n
  <2>1. b \in Known /\ n \in Nat /\ 1 .. n \subseteq 1 .. Len(Content[b].txs)
    BY TxFacts, BlockFacts
  <2>2. \A i \in 1 .. n : <<"tx", Content[b].txs[i]>> \in Event
    BY <2>1, TxFacts, EventFacts
  <2> QED BY <2>1, <2>2 DEF TxEvents
<1> QED BY <1>1, <1>2

LEMMA StateOnIs ==
  ASSUME NEW b \in Block, NEW s \in Seq(Event)
  PROVE  /\ StateOn(s, b) =
              s \o Beacons(b) \o TxEvents(b, Len(Content[b].txs)) \o Withdraws(b)
         /\ StateOn(s, b) \in Seq(Event)
<1>1. StateOn(s, b) = s \o Beacons(b) \o TxEvents(b, Len(Content[b].txs)) \o Withdraws(b)
  BY TxFacts, BlockFacts DEF StateOn, Beacons, TxEvents, Withdraws
<1>2. Len(Content[b].txs) \in 0 .. Len(Content[b].txs)
  BY TxFacts, BlockFacts
<1> QED BY <1>1, <1>2, PiecesAreEvents

LEMMA TrueStateIs ==
  /\ TrueState \in [Known -> Seq(Event)]
  /\ TrueState[Genesis] = <<>>
  /\ \A b \in Block : Content[b].parent \in Known =>
       TrueState[b] = StateOn(TrueState[Content[b].parent], b)
<1> DEFINE base == [b \in Known |-> <<>>]
           step == [b \in Known |-> [s \in Seq(Event) |->
                      IF b = Genesis THEN <<>> ELSE StateOn(s, b)]]
<1>1. base \in [Known -> Seq(Event)]
  OBVIOUS
<1>2. step \in [Known -> [Seq(Event) -> Seq(Event)]]
  BY StateOnIs DEF Known
<1>3. PICK g \in [Known -> Seq(Event)] : IsAlong(g, Known, Genesis, ParentOf, base, step)
  <2> HIDE DEF base, step
  <2> QED BY ONLY <1>1, <1>2, NoBlockIsItsAncestor, BlockFacts, TreeRecursion
<1>4. g = [b \in Known |-> IF b = Genesis \/ Content[b].parent \notin Known THEN <<>>
                           ELSE StateOn(g[Content[b].parent], b)]
  <2> DEFINE R(b) == IF b = Genesis \/ Content[b].parent \notin Known THEN <<>>
                     ELSE StateOn(g[Content[b].parent], b)
  <2>1. ASSUME NEW b \in Known PROVE g[b] = R(b)
    BY <1>3 DEF IsAlong, ParentOf
  <2>2. g = [b \in Known |-> g[b]]
    OBVIOUS
  <2> HIDE DEF R
  <2>3. g = [b \in Known |-> R(b)]
    BY <2>1, <2>2
  <2> QED BY <2>3 DEF R
<1> DEFINE Is(f) == f = [b \in Known |-> IF b = Genesis \/ Content[b].parent \notin Known
                                         THEN <<>> ELSE StateOn(f[Content[b].parent], b)]
<1>5. Is(TrueState)
  <2>1. \E f : Is(f)
    BY <1>4
  <2>2. TrueState = CHOOSE f : Is(f)
    BY DEF TrueState
  <2> HIDE DEF Is
  <2> QED BY <2>1, <2>2
<1>6. \A f : Is(f) => \A b \in Known :
        f[b] = IF b = Genesis \/ Content[b].parent \notin Known THEN <<>>
               ELSE StateOn(f[Content[b].parent], b)
  OBVIOUS
<1>7. Is(g)
  BY <1>4
<1>8. \A f : Is(f) => f = [b \in Known |-> f[b]]
  OBVIOUS
<1> HIDE DEF Is
<1>9. \A b \in Known : TrueState[b] = g[b]
  <2> DEFINE B == {b \in Known : TrueState[b] # g[b]}
  <2>1. SUFFICES ASSUME B # {} PROVE FALSE
    OBVIOUS
  <2>2. Genesis \notin B
    BY <1>5, <1>6, <1>7
  <2>3. B \in SUBSET (Known \ {Genesis})
    BY <2>2
  <2>4. PICK b \in B : ParentOf[b] \notin B
    <3> HIDE DEF B
    <3> QED BY <2>1, <2>3, NoBlockIsItsAncestor DEF NoCycle
  <2>5. b \in Known /\ Content[b].parent \notin B
    BY <2>4 DEF ParentOf
  <2> QED BY <1>5, <1>6, <1>7, <2>4, <2>5
<1>10. TrueState = g
  BY <1>5, <1>7, <1>8, <1>9
<1> QED BY <1>5, <1>6, <1>10, BlockFacts

LEMMA ValidIs ==
  ASSUME NEW b \in Known
  PROVE  Valid[b] <=> \/ b = Genesis
                      \/ /\ Content[b].parent \in Known
                         /\ Valid[Content[b].parent]
                         /\ ValidOn(Content[Content[b].parent], Content[b].parent, b)
<1> DEFINE On(v, x) == v /\ ValidOn(Content[Content[x].parent], Content[x].parent, x)
           base == [x \in Known |-> x = Genesis]
           step == [x \in Known |-> [v \in BOOLEAN |-> x = Genesis \/ On(v, x)]]
           R(f, x) == x = Genesis \/ (Content[x].parent \in Known /\ On(f[Content[x].parent], x))
           Is(f) == f = [x \in Known |-> R(f, x)]
<1>1. base \in [Known -> BOOLEAN] /\ step \in [Known -> [BOOLEAN -> BOOLEAN]]
  <2>1. ASSUME NEW x \in Known PROVE (x = Genesis) \in BOOLEAN
    OBVIOUS
  <2>2. ASSUME NEW x \in Known, NEW v \in BOOLEAN PROVE (x = Genesis \/ On(v, x)) \in BOOLEAN
    OBVIOUS
  <2> HIDE DEF On
  <2> QED BY <2>1, <2>2
<1>2. PICK g \in [Known -> BOOLEAN] : IsAlong(g, Known, Genesis, ParentOf, base, step)
  <2> HIDE DEF base, step
  <2> QED BY ONLY <1>1, NoBlockIsItsAncestor, BlockFacts, TreeRecursion
<1>3. ASSUME NEW x \in Known PROVE g[x] = R(g, x)
  <2>1. g[x] = IF x = Genesis \/ Content[x].parent \notin Known THEN base[x]
               ELSE step[x][g[Content[x].parent]]
    BY <1>2 DEF IsAlong, ParentOf
  <2>2. base[x] = (x = Genesis)
    OBVIOUS
  <2>3. \A v \in BOOLEAN : step[x][v] = (x = Genesis \/ On(v, x))
    OBVIOUS
  <2>4. Content[x].parent \in Known => g[Content[x].parent] \in BOOLEAN
    OBVIOUS
  <2> HIDE DEF base, step, On
  <2>5. CASE x = Genesis
    BY <2>1, <2>2, <2>5
  <2>6. CASE x # Genesis /\ Content[x].parent \notin Known
    BY <2>1, <2>2, <2>6
  <2>7. CASE x # Genesis /\ Content[x].parent \in Known
    <3>1. g[x] = step[x][g[Content[x].parent]]
      BY <2>1, <2>7
    <3>2. step[x][g[Content[x].parent]] = (x = Genesis \/ On(g[Content[x].parent], x))
      BY <2>3, <2>4, <2>7
    <3> QED BY <2>7, <3>1, <3>2
  <2> QED BY <2>5, <2>6, <2>7
<1>4. Is(g)
  <2>1. g = [x \in Known |-> g[x]]
    OBVIOUS
  <2> HIDE DEF R
  <2> QED BY <1>3, <2>1
<1>5. Is(Valid)
  <2>1. Valid = CHOOSE f : Is(f)
    BY DEF Valid
  <2> HIDE DEF Is
  <2> QED BY <1>4, <2>1
<1>6. Valid[b] = R(Valid, b)
  <2> HIDE DEF R
  <2> QED BY <1>5
<1> QED BY <1>6

LEMMA AncestorIs ==
  ASSUME NEW b \in Known
  PROVE  Ancestor[b] = [n \in 0 .. Content[b].number |->
           IF n = Content[b].number \/ Content[b].parent \notin Known
                \/ n > Content[Content[b].parent].number
             THEN b ELSE Ancestor[Content[b].parent][n]]
<1> DEFINE To(x)     == 0 .. Content[x].number
           Last(x,n) == n = Content[x].number \/ Content[x].parent \notin Known
                          \/ n > Content[Content[x].parent].number
           V         == UNION {[To(x) -> Known] : x \in Known}
           base      == [x \in Known |-> [n \in To(x) |-> x]]
           step      == [x \in Known |-> [v \in V |->
                           [n \in To(x) |-> IF Last(x, n) \/ v[n] \notin Known
                                            THEN x ELSE v[n]]]]
           R(f, x)   == [n \in To(x) |-> IF Last(x, n) THEN x ELSE f[Content[x].parent][n]]
           Is(f)     == f = [x \in Known |-> R(f, x)]
<1>1. base \in [Known -> V]
  <2>1. ASSUME NEW x \in Known PROVE [n \in To(x) |-> x] \in [To(x) -> Known]
    OBVIOUS
  <2> HIDE DEF To
  <2> QED BY <2>1
<1>2. step \in [Known -> [V -> V]]
  <2>1. ASSUME NEW x \in Known, NEW v \in V
        PROVE  [n \in To(x) |-> IF Last(x, n) \/ v[n] \notin Known THEN x ELSE v[n]]
                 \in [To(x) -> Known]
    <3> HIDE DEF To, Last
    <3> QED OBVIOUS
  <2> HIDE DEF To, Last
  <2> QED BY <2>1
<1>3. PICK g \in [Known -> V] : IsAlong(g, Known, Genesis, ParentOf, base, step)
  <2> HIDE DEF base, step, V
  <2> QED BY ONLY <1>1, <1>2, NoBlockIsItsAncestor, BlockFacts, TreeRecursion
<1>4. ASSUME NEW x \in Known
      PROVE  /\ x = Genesis \/ Content[x].parent \notin Known => g[x] = base[x]
             /\ x # Genesis /\ Content[x].parent \in Known =>
                  g[x] = step[x][g[Content[x].parent]]
  <2> HIDE DEF base, step
  <2> QED BY <1>3 DEF IsAlong, ParentOf
<1>5. ASSUME NEW x \in Known PROVE g[x] \in [To(x) -> Known]
  <2>1. base[x] \in [To(x) -> Known]
    <3> HIDE DEF To
    <3> QED OBVIOUS
  <2>2. \A v \in V : step[x][v] \in [To(x) -> Known]
    <3> HIDE DEF To, Last, V
    <3> QED OBVIOUS
  <2> HIDE DEF base, step, To
  <2> QED BY <1>4, <2>1, <2>2
<1>6. ASSUME NEW x \in Known PROVE g[x] = R(g, x)
  <2>1. CASE x = Genesis \/ Content[x].parent \notin Known
    <3>1. \A n \in To(x) : Last(x, n)
      BY <2>1, BlockFacts
    <3>2. g[x] = base[x]
      BY <1>4, <2>1
    <3> HIDE DEF To, Last
    <3> QED BY <3>1, <3>2
  <2>2. CASE x # Genesis /\ Content[x].parent \in Known
    <3> DEFINE p == Content[x].parent
    <3>1. g[x] = step[x][g[p]]
      BY <1>4, <2>2
    <3>2. g[p] \in [To(p) -> Known] /\ g[p] \in V
      BY <1>5, <2>2
    <3>3. \A n \in To(x) : ~Last(x, n) => n \in To(p)
      <4>1. Content[p].number \in Nat /\ Content[x].number \in Nat
        BY TxFacts, <2>2
      <4> QED BY <4>1, <2>2
    <3>4. g[x] = [n \in To(x) |-> IF Last(x, n) \/ g[p][n] \notin Known THEN x ELSE g[p][n]]
      <4> HIDE DEF To, Last, V
      <4> QED BY <3>1, <3>2
    <3>5. \A n \in To(x) : ~Last(x, n) => g[p][n] \in Known
      <4> HIDE DEF To, Last
      <4> QED BY <3>2, <3>3
    <3> HIDE DEF To, Last
    <3> QED BY <3>4, <3>5
  <2> QED BY <2>1, <2>2
<1>7. Is(g)
  <2>1. g = [x \in Known |-> g[x]]
    OBVIOUS
  <2> HIDE DEF R
  <2> QED BY <1>6, <2>1
<1>8. Is(Ancestor)
  <2>1. Ancestor = CHOOSE f : Is(f)
    BY DEF Ancestor
  <2> HIDE DEF Is
  <2> QED BY <1>7, <2>1
<1>9. Ancestor[b] = R(Ancestor, b)
  <2> HIDE DEF R
  <2> QED BY <1>8
<1> QED BY <1>9

-----------------------------------------------------------------------------
\* The checks of a block, the nonces and the gas of its transactions.
LEMMA FirstFailureIs ==
  ASSUME NEW n \in Nat, NEW checks, DOMAIN checks = 1 .. n,
         \A i \in 1 .. n : checks[i][2] # "none"
  PROVE  FirstFailure(checks) = "none" <=> \A i \in 1 .. n : checks[i][1]
<1> DEFINE failed == {i \in DOMAIN checks : ~checks[i][1]}
           First(i) == \A j \in failed : i <= j
<1>1. CASE failed = {}
  BY <1>1 DEF FirstFailure
<1>2. CASE failed # {}
  <2>1. \E i \in failed : First(i)
    <3>1. failed \in SUBSET Nat
      OBVIOUS
    <3> HIDE DEF failed
    <3> QED BY <1>2, <3>1, SmallestMember
  <2>2. FirstFailure(checks) = checks[CHOOSE i \in failed : First(i)][2]
    BY <1>2 DEF FirstFailure
  <2>3. (CHOOSE i \in failed : First(i)) \in failed
    <3> HIDE DEF failed, First
    <3> QED BY <2>1
  <2>4. \A i \in failed : checks[i][2] # "none"
    OBVIOUS
  <2> QED BY <1>2, <2>2, <2>3, <2>4
<1> QED BY <1>1, <1>2

LEMMA NonceOfAppend ==
  ASSUME NEW s \in Seq(Event), NEW e \in Event
  PROVE  /\ NonceIn(s) \in Nat
         /\ NonceIn(Append(s, e)) = IF e[1] = "tx" THEN NonceIn(s) + 1 ELSE NonceIn(s)
<1> DEFINE Txs(r) == {k \in DOMAIN r : r[k][1] = "tx"}
           n == Len(s)
<1>1. n \in Nat /\ DOMAIN s = 1 .. n
  OBVIOUS
<1>2. IsFiniteSet(Txs(s)) /\ Cardinality(Txs(s)) \in Nat
  <2>1. IsFiniteSet(1 .. n)
    BY <1>1, FS_Interval
  <2>2. Txs(s) \subseteq 1 .. n
    BY <1>1
  <2> HIDE DEF Txs, n
  <2> QED BY <2>1, <2>2, FS_Subset, FS_CardinalityType
<1>3. /\ DOMAIN Append(s, e) = 1 .. n + 1
      /\ \A k \in 1 .. n : Append(s, e)[k] = s[k]
      /\ Append(s, e)[n + 1] = e
  OBVIOUS
<1>4. Txs(Append(s, e)) = IF e[1] = "tx" THEN Txs(s) \cup {n + 1} ELSE Txs(s)
  <2>1. 1 .. n + 1 = (1 .. n) \cup {n + 1} /\ n + 1 \notin 1 .. n
    BY <1>1
  <2> HIDE DEF n
  <2> QED BY <1>1, <1>3, <2>1
<1>5. n + 1 \notin Txs(s)
  BY <1>1
<1>6. Cardinality(Txs(s) \cup {n + 1}) = Cardinality(Txs(s)) + 1
  <2> HIDE DEF Txs, n
  <2> QED BY <1>2, <1>5, FS_AddElement
<1>7. NonceIn(s) = Cardinality(Txs(s)) /\ NonceIn(Append(s, e)) = Cardinality(Txs(Append(s, e)))
  BY DEF NonceIn
<1> HIDE DEF Txs, n
<1> QED BY <1>2, <1>4, <1>6, <1>7

LEMMA GasOfNext ==
  ASSUME NEW b \in Known, NEW i \in 1 .. Len(Content[b].txs)
  PROVE  /\ GasBefore(b, i) \in Nat
         /\ GasBefore(b, i + 1) = GasBefore(b, i) + TxOf[Content[b].txs[i]].gasUsed
<1> DEFINE Gas(j) == TxOf[Content[b].txs[j]].gasUsed
           f == [j \in 1 .. i |-> Gas(j)]
           h == [j \in 1 .. i - 1 |-> Gas(j)]
<1>1. /\ i \in Nat /\ i - 1 \in Nat /\ (i + 1) - 1 = i
      /\ (1 .. i) \ {i} = 1 .. i - 1 /\ i \in 1 .. i
      /\ 1 .. i \subseteq 1 .. Len(Content[b].txs)
  BY TxFacts
<1>2. \A j \in 1 .. i : Gas(j) \in Nat
  BY <1>1, TxFacts
<1>3. IsFiniteSet(1 .. i) /\ IsFiniteSet(1 .. i - 1)
  BY <1>1, FS_Interval
<1>4. /\ GasBefore(b, i + 1) = SumFunctionOnSet(f, 1 .. i)
      /\ GasBefore(b, i) = SumFunctionOnSet(h, 1 .. i - 1)
  BY <1>1 DEF GasBefore, SumOf, SumFunction, SumFunctionOnSet, FoldFunction
<1>5. f[i] = Gas(i) /\ \A j \in 1 .. i : f[j] \in Nat
  BY <1>1, <1>2
<1>6. (\A j \in 1 .. i - 1 : f[j] = h[j]) /\ (\A j \in 1 .. i - 1 : h[j] \in Nat)
  BY <1>1, <1>2
<1> HIDE DEF f, h
<1>7. SumFunctionOnSet(f, 1 .. i) = Gas(i) + SumFunctionOnSet(f, 1 .. i - 1)
  <2> DEFINE S == 1 .. i
  <2>1. IsFiniteSet(S) /\ i \in S /\ \A j \in S : f[j] \in Nat
    BY <1>1, <1>3, <1>5
  <2>2. SumFunctionOnSet(f, S) = f[i] + SumFunctionOnSet(f, S \ {i})
    <3> HIDE DEF S
    <3> QED BY <2>1, SumOfMember
  <2>3. S \ {i} = 1 .. i - 1
    BY <1>1
  <2> HIDE DEF S
  <2>4. SumFunctionOnSet(f, S) = Gas(i) + SumFunctionOnSet(f, 1 .. i - 1)
    BY <1>5, <2>2, <2>3
  <2> QED BY <2>4 DEF S
<1>8. SumFunctionOnSet(f, 1 .. i - 1) = SumFunctionOnSet(h, 1 .. i - 1)
  BY <1>3, <1>6, SumOfSame
<1>9. SumFunctionOnSet(h, 1 .. i - 1) \in Nat
  BY <1>3, <1>6, SumIsNatural
<1>10. Gas(i) \in Nat
  BY <1>1, <1>2
<1> HIDE DEF Gas
<1>11. GasBefore(b, i + 1) = GasBefore(b, i) + Gas(i)
  BY <1>4, <1>7, <1>8, <1>9, <1>10
<1> QED BY <1>4, <1>9, <1>11 DEF Gas

LEMMA GasOfNone ==
  ASSUME NEW b \in Known
  PROVE  GasBefore(b, 1) = 0
<1> DEFINE h == [j \in 1 .. 1 - 1 |-> TxOf[Content[b].txs[j]].gasUsed]
<1>1. DOMAIN h = {}
  OBVIOUS
<1>2. GasBefore(b, 1) = SumFunctionOnSet(h, {})
  BY <1>1 DEF GasBefore, SumOf, SumFunction
<1> QED BY <1>2, SumOfNone

-----------------------------------------------------------------------------
\* The state and the receipts of a block, transaction by transaction.
LEMMA TxEventsNext ==
  ASSUME NEW b \in Block, NEW i \in 1 .. Len(Content[b].txs)
  PROVE  TxEvents(b, (i + 1) - 1) = TxEvents(b, i - 1) \o << <<"tx", Content[b].txs[i]>> >>
<1> DEFINE e == <<"tx", Content[b].txs[i]>>
           s == TxEvents(b, i - 1)
           t == TxEvents(b, i)
<1>1. b \in Known /\ i \in Nat /\ i - 1 \in 0 .. Len(Content[b].txs) /\ (i + 1) - 1 = i
      /\ i \in 0 .. Len(Content[b].txs)
  BY TxFacts, BlockFacts
<1>2. e \in Event
  BY <1>1, TxFacts, EventFacts
<1>3. s \in Seq(Event) /\ Len(s) = i - 1 /\ t \in Seq(Event) /\ Len(t) = i
  BY <1>1, PiecesAreEvents
<1>4. \A j \in 1 .. i : t[j] = Append(s, e)[j]
  <2>1. \A j \in 1 .. i - 1 : s[j] = t[j]
    BY <1>1 DEF TxEvents
  <2>2. t[i] = e
    BY <1>1 DEF TxEvents
  <2>3. Append(s, e)[i] = e /\ \A j \in 1 .. i - 1 : Append(s, e)[j] = s[j]
    <3> HIDE DEF s, e
    <3> QED BY <1>1, <1>2, <1>3, AppendProperties
  <2>4. \A j \in 1 .. i : j = i \/ j \in 1 .. i - 1
    BY <1>1
  <2> HIDE DEF s, t, e
  <2> QED BY <2>1, <2>2, <2>3, <2>4
<1>5. Append(s, e) \in Seq(Event) /\ Len(Append(s, e)) = i /\ Append(s, e) = s \o <<e>>
  <2> HIDE DEF s, e
  <2> QED BY <1>1, <1>2, <1>3, AppendProperties, AppendIsConcat
<1>6. t = Append(s, e)
  <2> HIDE DEF s, t, e
  <2> QED BY <1>3, <1>4, <1>5, SeqEqual
<1> QED BY <1>1, <1>5, <1>6

LEMMA BeforeIsState ==
  ASSUME NEW b \in Block, Content[b].parent \in Known,
         NEW i \in 1 .. Len(Content[b].txs) + 1
  PROVE  /\ Before(b, i) = TrueState[Content[b].parent] \o Beacons(b) \o TxEvents(b, i - 1)
         /\ TrueState[Content[b].parent] \o Beacons(b) \in Seq(Event)
         /\ Before(b, i) \in Seq(Event)
<1>1. i - 1 \in 0 .. Len(Content[b].txs)
  BY TxFacts, BlockFacts
<1>2. TxEvents(b, i - 1) \in Seq(Event) /\ Beacons(b) \in Seq(Event)
  BY <1>1, PiecesAreEvents
<1>3. TrueState[Content[b].parent] \in Seq(Event)
  BY TrueStateIs
<1>4. Before(b, i) = TrueState[Content[b].parent] \o Beacons(b) \o TxEvents(b, i - 1)
  BY DEF Before, Beacons, TxEvents
<1>5. TrueState[Content[b].parent] \o Beacons(b) \in Seq(Event)
  BY <1>2, <1>3
<1>6. (TrueState[Content[b].parent] \o Beacons(b)) \o TxEvents(b, i - 1) \in Seq(Event)
  BY <1>2, <1>5
<1> QED BY <1>4, <1>5, <1>6

LEMMA BeforeFirst ==
  ASSUME NEW b \in Block, Content[b].parent \in Known
  PROVE  LET s == TrueState[Content[b].parent]
         IN  Before(b, 1) = IF HasBeaconRoots THEN Append(s, <<"beacon", b>>) ELSE s
<1> DEFINE s == TrueState[Content[b].parent]
<1>1. s \in Seq(Event) /\ <<"beacon", b>> \in Event
  BY TrueStateIs, EventFacts
<1>2. 1 \in 1 .. Len(Content[b].txs) + 1 /\ 1 - 1 = 0 /\ 0 \in 0 .. Len(Content[b].txs)
  BY TxFacts, BlockFacts
<1>3. TxEvents(b, 1 - 1) = <<>>
  <2>1. TxEvents(b, 0) \in Seq(Event) /\ Len(TxEvents(b, 0)) = 0
    BY <1>2, PiecesAreEvents
  <2> QED BY <1>2, <2>1, EmptySeq
<1>4. Before(b, 1) = (s \o Beacons(b)) \o <<>> /\ s \o Beacons(b) \in Seq(Event)
  <2> HIDE DEF s
  <2> QED BY <1>2, <1>3, BeforeIsState DEF s
<1>5. Before(b, 1) = s \o Beacons(b)
  <2> DEFINE r == s \o Beacons(b)
  <2>1. r \in Seq(Event) /\ Before(b, 1) = r \o <<>>
    BY <1>4
  <2> HIDE DEF r
  <2>2. Before(b, 1) = r
    BY <2>1, ConcatEmptySeq
  <2> QED BY <2>2 DEF r
<1>6. Append(s, <<"beacon", b>>) = s \o << <<"beacon", b>> >>
  <2> HIDE DEF s
  <2> QED BY <1>1, AppendIsConcat
<1>7. s \o <<>> = s
  <2> HIDE DEF s
  <2> QED BY <1>1, ConcatEmptySeq
<1> HIDE DEF s
<1>8. Before(b, 1) = IF HasBeaconRoots THEN Append(s, <<"beacon", b>>) ELSE s
  BY <1>5, <1>6, <1>7 DEF Beacons
<1> QED BY <1>8 DEF s

LEMMA BeforeNext ==
  ASSUME NEW b \in Block, Content[b].parent \in Known, NEW i \in 1 .. Len(Content[b].txs)
  PROVE  Before(b, i + 1) = Append(Before(b, i), <<"tx", Content[b].txs[i]>>)
<1> DEFINE r == TrueState[Content[b].parent] \o Beacons(b)
           u == TxEvents(b, i - 1)
           e == <<"tx", Content[b].txs[i]>>
<1>1. /\ i \in 1 .. Len(Content[b].txs) + 1 /\ i + 1 \in 1 .. Len(Content[b].txs) + 1
      /\ i - 1 \in 0 .. Len(Content[b].txs) /\ b \in Known
  BY TxFacts, BlockFacts
<1>2. r \in Seq(Event) /\ u \in Seq(Event) /\ e \in Event /\ <<e>> \in Seq(Event)
  <2>1. e \in Event
    BY <1>1, TxFacts, EventFacts
  <2>2. r \in Seq(Event) /\ u \in Seq(Event)
    BY <1>1, BeforeIsState, PiecesAreEvents
  <2> HIDE DEF e, r, u
  <2> QED BY <2>1, <2>2
<1>3. Before(b, i) = r \o u /\ Before(b, i + 1) = r \o (u \o <<e>>)
  <2>1. Before(b, i) = r \o u /\ Before(b, i + 1) = r \o TxEvents(b, (i + 1) - 1)
    BY <1>1, BeforeIsState
  <2>2. TxEvents(b, (i + 1) - 1) = u \o <<e>>
    BY TxEventsNext
  <2> HIDE DEF r, u, e
  <2> QED BY <2>1, <2>2
<1>4. (r \o u) \o <<e>> = r \o (u \o <<e>>)
  <2> HIDE DEF r, u, e
  <2> QED BY <1>2, ConcatAssociative
<1>5. r \o u \in Seq(Event) /\ Append(r \o u, e) = (r \o u) \o <<e>>
  <2> HIDE DEF r, u, e
  <2>1. r \o u \in Seq(Event)
    BY <1>2
  <2> QED BY <1>2, <2>1, AppendIsConcat
<1> HIDE DEF r, u, e
<1>6. Before(b, i + 1) = Append(Before(b, i), e)
  BY <1>3, <1>4, <1>5
<1> QED BY <1>6 DEF e

LEMMA BeforeLast ==
  ASSUME NEW b \in Block, Content[b].parent \in Known
  PROVE  LET s == Before(b, Len(Content[b].txs) + 1)
         IN  TrueState[b] = IF Content[b].withdraws THEN Append(s, <<"withdraw", b>>) ELSE s
<1> DEFINE n == Len(Content[b].txs)
           s == Before(b, n + 1)
<1>1. n \in Nat /\ n + 1 \in 1 .. n + 1 /\ (n + 1) - 1 = n
  BY TxFacts, BlockFacts
<1>2. s \in Seq(Event) /\ <<"withdraw", b>> \in Event
  BY <1>1, BeforeIsState, EventFacts
<1>3. TrueState[Content[b].parent] \in Seq(Event)
  BY TrueStateIs
<1>4. TrueState[b] = StateOn(TrueState[Content[b].parent], b)
  BY TrueStateIs
<1>5. StateOn(TrueState[Content[b].parent], b) =
        TrueState[Content[b].parent] \o Beacons(b) \o TxEvents(b, n) \o Withdraws(b)
  BY <1>3, StateOnIs
<1>6. s = TrueState[Content[b].parent] \o Beacons(b) \o TxEvents(b, n)
  BY <1>1, BeforeIsState
<1>7. TrueState[b] = s \o Withdraws(b)
  <2> HIDE DEF s, n
  <2> QED BY <1>4, <1>5, <1>6
<1>8. s \o << <<"withdraw", b>> >> = Append(s, <<"withdraw", b>>) /\ s \o <<>> = s
  <2> HIDE DEF s, n
  <2> QED BY <1>2, AppendIsConcat, ConcatEmptySeq
<1> HIDE DEF s
<1>9. TrueState[b] = IF Content[b].withdraws THEN Append(s, <<"withdraw", b>>) ELSE s
  BY <1>7, <1>8 DEF Withdraws
<1> QED BY <1>9 DEF s

LEMMA ReceiptsNext ==
  ASSUME NEW b \in Block, NEW i \in 1 .. Len(Content[b].txs)
  PROVE  LET T == TxOf[Content[b].txs[i]]
             R == [gas |-> GasBefore(b, i) + T.gasUsed, logs |-> T.logs]
         IN  /\ R \in Receipt
             /\ ReceiptsOf(b, i - 1) \in Seq(Receipt)
             /\ ReceiptsOf(b, (i + 1) - 1) = Append(ReceiptsOf(b, i - 1), R)
<1> DEFINE At(j) == [gas |-> GasBefore(b, j + 1), logs |-> TxOf[Content[b].txs[j]].logs]
           r == ReceiptsOf(b, i - 1)
           t == ReceiptsOf(b, i)
<1>1. /\ b \in Known /\ i \in Nat /\ i - 1 \in Nat /\ (i + 1) - 1 = i
      /\ 1 .. i \subseteq 1 .. Len(Content[b].txs)
  BY TxFacts, BlockFacts
<1>2. ASSUME NEW j \in 1 .. i PROVE At(j) \in Receipt
  <2>1. GasBefore(b, j) \in Nat /\ TxOf[Content[b].txs[j]].gasUsed \in Nat
        /\ GasBefore(b, j + 1) = GasBefore(b, j) + TxOf[Content[b].txs[j]].gasUsed
        /\ TxOf[Content[b].txs[j]].logs \in Logs
    BY <1>1, GasOfNext, TxFacts
  <2> QED BY <2>1 DEF Receipt
<1>3. r = [j \in 1 .. i - 1 |-> At(j)] /\ t = [j \in 1 .. i |-> At(j)]
  BY DEF ReceiptsOf
<1> HIDE DEF At, r, t
<1>4. r \in Seq(Receipt) /\ Len(r) = i - 1 /\ t \in Seq(Receipt) /\ Len(t) = i
  BY <1>1, <1>2, <1>3
<1>5. At(i) \in Receipt
  BY <1>1, <1>2
<1>6. /\ Append(r, At(i)) \in Seq(Receipt) /\ Len(Append(r, At(i))) = i
      /\ \A j \in 1 .. i - 1 : Append(r, At(i))[j] = r[j]
      /\ Append(r, At(i))[i] = At(i)
  BY <1>1, <1>4, <1>5, AppendProperties
<1>7. \A j \in 1 .. i : t[j] = Append(r, At(i))[j]
  BY <1>1, <1>3, <1>6
<1>8. t = Append(r, At(i))
  BY <1>4, <1>6, <1>7, SeqEqual
<1>9. At(i) = [gas |-> GasBefore(b, i) + TxOf[Content[b].txs[i]].gasUsed,
               logs |-> TxOf[Content[b].txs[i]].logs]
  BY <1>1, GasOfNext DEF At
<1> QED BY <1>1, <1>4, <1>5, <1>8, <1>9 DEF r, t

-----------------------------------------------------------------------------
\* The parent of a block, and the checks of its header and its body.
LEMMA ParentIs ==
  ASSUME ImportInv, Parents # {}
  PROVE  /\ Parent.hash = C.parent /\ Parent.state = TrueState[C.parent]
         /\ C.parent \in Known /\ C.parent # ZeroHash
<1>1. acc.blocks \in Seq(Processed) /\ DOMAIN acc.blocks = 1 .. Len(acc.blocks)
      /\ Len(acc.blocks) \in Nat
  BY DEF ImportInv, AccState
<1>2. \E k \in Parents : \A j \in Parents : j <= k
  <2>1. Parents \in SUBSET (1 .. Len(acc.blocks))
    BY <1>1 DEF Parents
  <2> QED BY <1>1, <2>1, GreatestMember
<1>3. PICK k \in Parents : Parent = acc.blocks[k]
  BY <1>2 DEF Parent
<1>4. k \in DOMAIN acc.blocks /\ acc.blocks[k].hash = C.parent
  BY DEF Parents
<1>5. acc.blocks[k].state = TrueState[acc.blocks[k].hash] /\ acc.blocks[k] \in Processed
  BY <1>1, <1>4 DEF ImportInv, BlocksInv
<1> QED BY <1>3, <1>4, <1>5, BlockFacts DEF Processed

HeaderIsGood ==
    LET P == Content[C.parent]
    IN  /\ GasLimitWithin(P, C)
        /\ C.baseFee = ExpectedBaseFee(P)
        /\ C.excessBlobGas = CalcExcessBlobGas(P)
        /\ C.gasUsed <= C.gasLimit

LEMMA HeaderChecks ==
  ASSUME ImportInv
  PROVE  HeaderFailure = "none" <=> C.parent # ZeroHash /\ Parents # {} /\ HeaderIsGood
<1>1. CASE C.parent = ZeroHash \/ Parents = {}
  BY <1>1 DEF HeaderFailure
<1>2. CASE C.parent # ZeroHash /\ Parents # {}
  <2> DEFINE P == Content[Parent.hash]
             a == GasLimitWithin(P, C)
             b == C.baseFee = ExpectedBaseFee(P)
             c == C.excessBlobGas = CalcExcessBlobGas(P)
             d == C.gasUsed <= C.gasLimit
             checks == << <<a, "INVALID_GASLIMIT">>, <<b, "INVALID_BASEFEE_PER_GAS">>,
                          <<c, "INCORRECT_EXCESS_BLOB_GAS">>, <<d, "GAS_USED_OVERFLOW">> >>
  <2>1. HeaderFailure = FirstFailure(checks)
    BY <1>2 DEF HeaderFailure
  <2>2. P = Content[C.parent]
    BY <1>2, ParentIs
  <2>3. HeaderIsGood <=> a /\ b /\ c /\ d
    BY <2>2 DEF HeaderIsGood
  <2> HIDE DEF a, b, c, d
  <2>4. DOMAIN checks = 1 .. 4 /\ \A i \in 1 .. 4 : checks[i][2] # "none"
    OBVIOUS
  <2>5. (\A i \in 1 .. 4 : checks[i][1]) <=> a /\ b /\ c /\ d
    <3>1. (checks[1][1] <=> a) /\ (checks[2][1] <=> b) /\ (checks[3][1] <=> c) /\ (checks[4][1] <=> d)
      OBVIOUS
    <3>2. 1 .. 4 = {1, 2, 3, 4}
      OBVIOUS
    <3> HIDE DEF checks
    <3> QED BY <3>1, <3>2
  <2> HIDE DEF checks
  <2>6. HeaderFailure = "none" <=> \A i \in 1 .. 4 : checks[i][1]
    BY <2>1, <2>4, FirstFailureIs
  <2> QED BY <1>2, <2>3, <2>5, <2>6
<1> QED BY <1>1, <1>2

LEMMA TransactionChecks ==
  ASSUME NEW T
  PROVE  TransactionFailure(T) = "none" <=>
           /\ T.gasLimit + cur.gasUsed <= C.gasLimit
           /\ T.blobs <= 6
           /\ T.nonce >= NonceIn(cur.state)
           /\ T.nonce <= NonceIn(cur.state)
<1> DEFINE a == T.gasLimit + cur.gasUsed <= C.gasLimit
           b == T.blobs <= 6
           c == T.nonce >= NonceIn(cur.state)
           d == T.nonce <= NonceIn(cur.state)
           checks == << <<a, "GAS_ALLOWANCE_EXCEEDED">>, <<b, "TYPE_3_TX_BLOB_COUNT_EXCEEDED">>,
                        <<c, "NONCE_MISMATCH_TOO_LOW">>, <<d, "NONCE_MISMATCH_TOO_HIGH">> >>
<1>1. TransactionFailure(T) = FirstFailure(checks)
  BY DEF TransactionFailure
<1> SUFFICES TransactionFailure(T) = "none" <=> a /\ b /\ c /\ d
  OBVIOUS
<1> HIDE DEF a, b, c, d
<1>2. DOMAIN checks = 1 .. 4 /\ \A i \in 1 .. 4 : checks[i][2] # "none"
  OBVIOUS
<1>3. (\A i \in 1 .. 4 : checks[i][1]) <=> a /\ b /\ c /\ d
  <2>1. (checks[1][1] <=> a) /\ (checks[2][1] <=> b) /\ (checks[3][1] <=> c) /\ (checks[4][1] <=> d)
    OBVIOUS
  <2>2. 1 .. 4 = {1, 2, 3, 4}
    OBVIOUS
  <2> HIDE DEF checks
  <2> QED BY <2>1, <2>2
<1> HIDE DEF checks
<1>4. FirstFailure(checks) = "none" <=> \A i \in 1 .. 4 : checks[i][1]
  BY <1>2, FirstFailureIs
<1> QED BY <1>1, <1>3, <1>4

BodyIsGood ==
    LET P == Content[C.parent]
    IN  /\ BlobGas(raw.block) <= MaxBlobGas /\ BlobGas(raw.block) = C.blobGasUsed
        /\ cur.gasUsed = C.gasUsed
        /\ C.timestamp > P.timestamp /\ C.number = P.number + 1
        /\ C.sealed /\ C.bodied
        /\ cur.state = C.stateRoot /\ cur.logs = C.logsBloom /\ cur.receipts = C.receipts

LEMMA BlockChecks ==
  ASSUME ImportInv, Parents # {}
  PROVE  BlockFailure = "none" <=> BodyIsGood
<1> DEFINE P == Content[Parent.hash]
           a == BlobGas(raw.block) <= MaxBlobGas
           b == cur.gasUsed = C.gasUsed
           c == C.timestamp > P.timestamp
           d == C.number = P.number + 1
           e == C.sealed
           f == BlobGas(raw.block) = C.blobGasUsed
           g == cur.state = C.stateRoot
           h == cur.logs = C.logsBloom
           j == C.bodied
           k == cur.receipts = C.receipts
           checks == <<
             <<a, "TYPE_3_TX_MAX_BLOB_GAS_ALLOWANCE_EXCEEDED">>,
             <<b, "INVALID_GAS_USED">>,
             <<c, "INVALID_BLOCK_TIMESTAMP_OLDER_THAN_PARENT">>,
             <<d, "INVALID_BLOCK_NUMBER">>,
             <<e, "EXTRA_DATA_TOO_BIG">>,
             <<f, "INCORRECT_BLOB_GAS_USED">>,
             <<g, "INVALID_STATE_ROOT">>,
             <<h, "INVALID_LOG_BLOOM">>,
             <<j, "INVALID_TRANSACTIONS_ROOT">>,
             <<k, "INVALID_RECEIPTS_ROOT">> >>
           All == a /\ b /\ c /\ d /\ e /\ f /\ g /\ h /\ j /\ k
<1>1. BlockFailure = FirstFailure(checks)
  BY DEF BlockFailure
<1>2. P = Content[C.parent]
  BY ParentIs
<1>3. BodyIsGood <=> All
  BY <1>2 DEF BodyIsGood
<1> HIDE DEF a, b, c, d, e, f, g, h, j, k
<1>4. DOMAIN checks = 1 .. 10 /\ \A i \in 1 .. 10 : checks[i][2] # "none"
  OBVIOUS
<1>5. (\A i \in 1 .. 10 : checks[i][1]) <=> All
  <2>1. /\ (checks[1][1] <=> a) /\ (checks[2][1] <=> b) /\ (checks[3][1] <=> c)
        /\ (checks[4][1] <=> d) /\ (checks[5][1] <=> e) /\ (checks[6][1] <=> f)
        /\ (checks[7][1] <=> g) /\ (checks[8][1] <=> h) /\ (checks[9][1] <=> j)
        /\ (checks[10][1] <=> k)
    OBVIOUS
  <2>2. 1 .. 10 = {1, 2, 3, 4, 5, 6, 7, 8, 9, 10}
    OBVIOUS
  <2> HIDE DEF checks
  <2> QED BY <2>1, <2>2
<1> HIDE DEF checks
<1>6. BlockFailure = "none" <=> \A i \in 1 .. 10 : checks[i][1]
  BY <1>1, <1>4, FirstFailureIs
<1> HIDE DEF All
<1> QED BY <1>3, <1>5, <1>6

-----------------------------------------------------------------------------
\* Every step keeps the invariant.
LEMMA ImportStarts == ASSUME Init PROVE ImportInv
<1>1. /\ acc = [state |-> <<>>, blocks |-> <<ToProcessed(Genesis, <<>>)>>,
                gasUsed |-> 0, receipts |-> <<>>, logs |-> {}]
      /\ cur = acc /\ pc = "next"
      /\ raw = [block |-> CHOOSE b \in Block : TRUE, exception |-> {}]
  BY DEF Init
<1>2. ToProcessed(Genesis, <<>>) \in Processed
  BY BlockFacts DEF ToProcessed, Processed
<1>3. acc \in AccState
  <2>1. {} \in Logs
    BY DEF Logs
  <2> QED BY <1>1, <1>2, <2>1 DEF AccState
<1>4. Len(acc.blocks) = 1 /\ DOMAIN acc.blocks = {1} /\ acc.blocks[1] = ToProcessed(Genesis, <<>>)
  BY <1>1
<1>5. BlocksInv
  BY <1>1, <1>4, TrueStateIs DEF BlocksInv, ParentsCome, ToProcessed
<1> QED BY <1>1, <1>3, <1>5 DEF ImportInv, ExecutingInv, StateInv, PassesOnLastBlock

LEMMA SameBlocks ==
  ASSUME UNCHANGED <<acc, raw>>
  PROVE  /\ C' = C /\ Parents' = Parents /\ HeaderFailure' = HeaderFailure
         /\ BlocksInv => BlocksInv'
<1>1. C' = C /\ Parents' = Parents
  BY DEF C, Parents
<1>2. HeaderFailure' = HeaderFailure
  BY DEF HeaderFailure, C, Parents, Parent
<1>3. BlocksInv => BlocksInv'
  BY DEF BlocksInv, ParentsCome
<1> QED BY <1>1, <1>2, <1>3

LEMMA OutsideKeeps ==
  ASSUME ImportInv, UNCHANGED <<acc, cur, post>>,
         pc' \in {"next", "error", "decode", "header"},
         pc' \in {"decode", "header"} => raw'.block \in Block,
         pc' = "header" => C'.wellFormed
  PROVE  ImportInv'
<1>1. BlocksInv'
  BY DEF ImportInv, BlocksInv, ParentsCome
<1>2. ExecutingInv' /\ StateInv' /\ PassesOnLastBlock'
  BY DEF ExecutingInv, StateInv, PassesOnLastBlock
<1> QED BY <1>1, <1>2 DEF ImportInv

LEMMA CatchKeeps ==
  ASSUME ImportInv, NEW e, Catch(e)
  PROVE  ImportInv' /\ UNCHANGED raw /\ thrown' = e
<1>1. UNCHANGED <<acc, cur, post, raw>> /\ pc' \in {"next", "error"} /\ thrown' = e
  BY DEF Catch
<1> QED BY <1>1, OutsideKeeps DEF ImportInv

LEMMA BeginKeeps == ASSUME ImportInv, Begin PROVE ImportInv'
<1>1. UNCHANGED <<acc, cur, post>> /\ pc' = "decode" /\ raw'.block \in Block
  BY DEF Begin
<1> QED BY <1>1, OutsideKeeps

LEMMA DecodeKeeps == ASSUME ImportInv, Decode PROVE ImportInv'
<1>1. CASE C.wellFormed /\ pc' = "header"
           /\ UNCHANGED <<acc, cur, raw, index, thrown, imports, post>>
  <2>1. C' = C /\ raw.block \in Block
    BY <1>1 DEF C, ImportInv, Decode
  <2> QED BY <1>1, <2>1, OutsideKeeps DEF ImportInv
<1>2. CASE Catch("RLP_STRUCTURES_ENCODING")
  BY <1>2, CatchKeeps
<1> QED BY <1>1, <1>2 DEF Decode

LEMMA ValidateHeaderKeeps == ASSUME ImportInv, ValidateHeader PROVE ImportInv'
<1>1. CASE HeaderFailure # "none" /\ Catch(HeaderFailure)
  BY <1>1, CatchKeeps
<1>2. CASE /\ HeaderFailure = "none" /\ cur' = OnParent /\ index' = 1 /\ pc' = "transact"
           /\ UNCHANGED <<acc, raw, thrown, imports, post>>
  <2> DEFINE b == raw.block
  <2>1. Parents # {} /\ b \in Block /\ b \in Known /\ acc \in AccState /\ C.wellFormed /\ BlocksInv
    BY <1>2, HeaderChecks, BlockFacts DEF ImportInv, ValidateHeader
  <2>2. Parent.state = TrueState[C.parent] /\ C.parent \in Known /\ C = Content[b]
    BY <2>1, ParentIs DEF C
  <2>3. Before(b, 1) = Beacon(Parent.state) /\ Before(b, 1) \in Seq(Event)
    <3>1. 1 \in 1 .. Len(Content[b].txs) + 1
      BY <2>1, TxFacts
    <3> QED BY <2>1, <2>2, <3>1, BeforeFirst, BeforeIsState DEF Beacon
  <2>4. /\ cur' \in AccState /\ cur'.blocks = acc.blocks /\ cur'.gasUsed = 0
        /\ cur'.receipts = <<>> /\ cur'.state = Before(b, 1)
    <3> DEFINE s == Before(b, 1)
    <3>1. cur' = [acc EXCEPT !.state = s, !.gasUsed = 0, !.receipts = <<>>]
      BY <1>2, <2>3 DEF OnParent
    <3>2. s \in Seq(Event)
      BY <2>3
    <3> HIDE DEF s
    <3>3. <<>> \in Seq(Receipt) /\ 0 \in Nat
      OBVIOUS
    <3>4. /\ cur' \in AccState /\ cur'.blocks = acc.blocks /\ cur'.gasUsed = 0
          /\ cur'.receipts = <<>> /\ cur'.state = s
      BY <2>1, <3>1, <3>2, <3>3 DEF AccState
    <3> QED BY <3>4 DEF s
  <2>5. NonceIn(Before(b, 1)) = NonceIn(TrueState[C.parent]) + 1 - 1
    <3> DEFINE s == TrueState[C.parent]
    <3>1. s \in Seq(Event) /\ <<"beacon", b>> \in Event
      BY <2>1, <2>2, TrueStateIs, EventFacts
    <3>2. Before(b, 1) = IF HasBeaconRoots THEN Append(s, <<"beacon", b>>) ELSE s
      BY <2>1, <2>2, BeforeFirst
    <3>3. <<"beacon", b>>[1] # "tx"
      OBVIOUS
    <3>4. NonceIn(s) \in Nat /\ NonceIn(Append(s, <<"beacon", b>>)) = NonceIn(s)
      <4> HIDE DEF s
      <4> QED BY <3>1, <3>3, NonceOfAppend
    <3> HIDE DEF s
    <3>5. NonceIn(Before(b, 1)) = NonceIn(s)
      BY <3>2, <3>4
    <3> QED BY <3>4, <3>5 DEF s
  <2>6. GasBefore(b, 1) = 0 /\ ReceiptsOf(b, 0) = <<>>
    BY <2>1, GasOfNone DEF ReceiptsOf
  <2>7. /\ C' = C /\ Parents' = Parents /\ HeaderFailure' = HeaderFailure /\ BlocksInv'
        /\ raw' = raw /\ acc' = acc
    BY <1>2, <2>1, SameBlocks
  <2>8. ExecutingInv'
    <3>1. index' \in 1 .. Len(C.txs) + 1 /\ index' = 1 /\ index' - 1 = 0 /\ 1 .. 0 = {}
      BY <1>2, <2>1, <2>2, TxFacts
    <3> QED BY <1>2, <2>1, <2>4, <2>6, <2>7, <3>1 DEF ExecutingInv
  <2>9. StateInv'
    BY <1>2, <2>2, <2>4, <2>5, <2>7 DEF StateInv
  <2>10. PassesOnLastBlock'
    BY <1>2 DEF PassesOnLastBlock
  <2> QED BY <2>1, <2>4, <2>7, <2>8, <2>9, <2>10 DEF ImportInv
<1> QED BY <1>1, <1>2 DEF ValidateHeader

LEMMA TransactKeeps == ASSUME ImportInv, Transact PROVE ImportInv'
<1> DEFINE b == raw.block
           i == index
           t == C.txs[index]
           T == TxOf[t]
<1>1. CASE Catch(TransactionFailure(T))
  BY <1>1, CatchKeeps
<1>2. CASE /\ TransactionFailure(T) = "none" /\ cur' = Executed(t) /\ index' = index + 1
           /\ UNCHANGED <<acc, raw, pc, thrown, imports, post>>
  <2>1. /\ b \in Block /\ b \in Known /\ acc \in AccState /\ cur \in AccState
        /\ C.wellFormed /\ BlocksInv /\ ExecutingInv /\ StateInv /\ pc = "transact"
        /\ index <= Len(C.txs) /\ C = Content[b]
    BY BlockFacts DEF ImportInv, Transact, C
  <2>2. /\ HeaderFailure = "none" /\ Parents # {} /\ index \in 1 .. Len(C.txs) + 1
        /\ cur.blocks = acc.blocks /\ cur.gasUsed = GasBefore(b, i)
        /\ cur.receipts = ReceiptsOf(b, i - 1)
        /\ \A j \in 1 .. i - 1 : TxIsValid(b, j)
        /\ cur.state = Before(b, i)
        /\ NonceIn(cur.state) = NonceIn(TrueState[C.parent]) + i - 1
    BY <2>1 DEF ExecutingInv, StateInv
  <2>3. /\ i \in 1 .. Len(C.txs) /\ i \in Nat /\ Len(C.txs) \in Nat
        /\ i + 1 \in 1 .. Len(C.txs) + 1 /\ (i + 1) - 1 = i
    BY <2>1, <2>2, TxFacts
  <2>4. C.parent \in Known
    BY <2>2, ParentIs
  <2>5. /\ t \in DOMAIN TxOf /\ T.nonce \in Nat /\ T.gasLimit \in Nat /\ T.gasUsed \in Nat
        /\ T.logs \in Logs /\ <<"tx", t>> \in Event
    BY <2>1, <2>3, TxFacts, EventFacts
  <2>6. /\ T.gasLimit + cur.gasUsed <= C.gasLimit /\ T.blobs <= 6
        /\ T.nonce >= NonceIn(cur.state) /\ T.nonce <= NonceIn(cur.state)
    BY <1>2, TransactionChecks
  <2>7. cur.state \in Seq(Event) /\ NonceIn(cur.state) \in Nat
        /\ NonceIn(Append(cur.state, <<"tx", t>>)) = NonceIn(cur.state) + 1
    <3>1. cur.state \in Seq(Event) /\ <<"tx", t>>[1] = "tx"
      BY <2>1 DEF AccState
    <3> DEFINE e == <<"tx", t>>
    <3>2. e \in Event /\ e[1] = "tx"
      BY <2>5, <3>1
    <3> HIDE DEF e
    <3>3. NonceIn(cur.state) \in Nat /\ NonceIn(Append(cur.state, e)) = NonceIn(cur.state) + 1
      BY <3>1, <3>2, NonceOfAppend
    <3> QED BY <3>1, <3>3 DEF e
  <2>8. GasBefore(b, i) \in Nat /\ GasBefore(b, i + 1) = GasBefore(b, i) + T.gasUsed
    BY <2>1, <2>3, GasOfNext
  <2>9. TxIsValid(b, i)
    <3>1. T.nonce = NonceIn(cur.state)
      BY <2>5, <2>6, <2>7
    <3>2. GasBefore(b, i) + T.gasLimit <= C.gasLimit
      BY <2>2, <2>5, <2>6, <2>8
    <3> QED BY <2>1, <2>2, <2>6, <3>1, <3>2 DEF TxIsValid
  <2> DEFINE R == [gas |-> cur.gasUsed + T.gasUsed, logs |-> T.logs]
  <2>10. R \in Receipt /\ ReceiptsOf(b, (i + 1) - 1) = Append(cur.receipts, R)
    BY <2>1, <2>2, <2>3, ReceiptsNext
  <2>11. /\ cur'.state = Append(cur.state, <<"tx", t>>)
         /\ cur'.gasUsed = cur.gasUsed + T.gasUsed
         /\ cur'.receipts = Append(cur.receipts, R)
         /\ cur'.logs = T.logs /\ cur'.blocks = cur.blocks
         /\ cur' \in AccState
    <3> HIDE DEF t
    <3>1. cur' = [cur EXCEPT !.state = Append(@, <<"tx", t>>), !.gasUsed = @ + T.gasUsed,
                             !.receipts = Append(@, R), !.logs = T.logs]
      BY <1>2 DEF Executed
    <3> HIDE DEF T, R
    <3>2. /\ cur.state \in Seq(Event) /\ cur.gasUsed \in Nat /\ cur.receipts \in Seq(Receipt)
      BY <2>1 DEF AccState
    <3>3. /\ Append(cur.state, <<"tx", t>>) \in Seq(Event)
          /\ Append(cur.receipts, R) \in Seq(Receipt) /\ cur.gasUsed + T.gasUsed \in Nat
      BY <2>5, <2>10, <3>2
    <3> QED BY <2>1, <2>5, <3>1, <3>3 DEF AccState
  <2>12. Before(b, i + 1) = Append(cur.state, <<"tx", t>>)
    BY <2>1, <2>2, <2>3, <2>4, BeforeNext
  <2>13. /\ C' = C /\ Parents' = Parents /\ HeaderFailure' = HeaderFailure /\ BlocksInv'
         /\ raw' = raw /\ acc' = acc /\ pc' = "transact" /\ index' = i + 1
    BY <1>2, <2>1, SameBlocks
  <2> HIDE DEF R
  <2>14. ExecutingInv'
    <3>1. \A j \in 1 .. (i + 1) - 1 : TxIsValid(b, j)
      BY <2>2, <2>3, <2>9
    <3>2. index' > 1 => cur'.logs = TxOf[C.txs[index' - 1]].logs
      BY <2>3, <2>11, <2>13
    <3> HIDE DEF t, T
    <3> QED BY <2>2, <2>3, <2>8, <2>10, <2>11, <2>13, <3>1, <3>2 DEF ExecutingInv
  <2>15. StateInv'
    <3>1. NonceIn(cur'.state) = NonceIn(TrueState[C.parent]) + (i + 1) - 1
      <4>1. NonceIn(TrueState[C.parent]) \in Nat
        <5>1. TrueState[C.parent] \in Seq(Event) /\ <<"tx", t>> \in Event
          BY <2>4, <2>5, TrueStateIs
        <5> QED BY <5>1, NonceOfAppend
      <4> HIDE DEF t, T
      <4>2. NonceIn(cur'.state) = NonceIn(cur.state) + 1
        BY <2>7, <2>11
      <4> QED BY <2>2, <2>3, <4>1, <4>2
    <3> QED BY <2>11, <2>12, <2>13, <3>1 DEF StateInv
  <2>16. PassesOnLastBlock'
    BY <2>13 DEF PassesOnLastBlock
  <2> QED BY <2>1, <2>11, <2>13, <2>14, <2>15, <2>16 DEF ImportInv
<1> QED BY <1>1, <1>2 DEF Transact

LEMMA WithdrawKeeps == ASSUME ImportInv, Withdraw PROVE ImportInv'
<1> DEFINE b == raw.block
<1>1. /\ b \in Block /\ b \in Known /\ acc \in AccState /\ cur \in AccState /\ C = Content[b]
      /\ C.wellFormed /\ BlocksInv /\ ExecutingInv /\ StateInv /\ pc = "transact"
      /\ index > Len(C.txs)
  BY BlockFacts DEF ImportInv, Withdraw, C
<1>2. /\ HeaderFailure = "none" /\ Parents # {} /\ index \in 1 .. Len(C.txs) + 1
      /\ cur.state = Before(b, index) /\ cur.state \in Seq(Event)
  BY <1>1 DEF ExecutingInv, StateInv, AccState
<1>3. index = Len(C.txs) + 1 /\ C.parent \in Known
  <2>1. Len(C.txs) \in Nat
    BY <1>1, TxFacts
  <2> QED BY <1>1, <1>2, <2>1, ParentIs
<1>4. TrueState[b] = IF C.withdraws THEN Append(cur.state, <<"withdraw", b>>) ELSE cur.state
  BY <1>1, <1>2, <1>3, BeforeLast
<1>5. /\ cur' = [cur EXCEPT !.state = TrueState[b]] /\ pc' = "validate"
      /\ UNCHANGED <<acc, raw, index, thrown, imports, post>>
  BY <1>4 DEF Withdraw
<1>6. TrueState[b] \in Seq(Event)
  BY <1>1, TrueStateIs
<1>7. /\ cur' \in AccState /\ cur'.state = TrueState[b] /\ cur'.blocks = cur.blocks
      /\ cur'.gasUsed = cur.gasUsed /\ cur'.receipts = cur.receipts /\ cur'.logs = cur.logs
  BY <1>1, <1>5, <1>6 DEF AccState
<1>8. /\ C' = C /\ Parents' = Parents /\ HeaderFailure' = HeaderFailure /\ BlocksInv'
      /\ raw' = raw /\ acc' = acc /\ index' = index
  BY <1>1, <1>5, SameBlocks
<1>9. ExecutingInv'
  BY <1>1, <1>5, <1>7, <1>8 DEF ExecutingInv
<1>10. StateInv' /\ PassesOnLastBlock'
  BY <1>1, <1>5, <1>7, <1>8 DEF StateInv, PassesOnLastBlock
<1> QED BY <1>1, <1>7, <1>8, <1>9, <1>10 DEF ImportInv

LEMMA AcceptKeeps ==
  ASSUME ImportInv, pc = "validate", BlockFailure = "none", Accept
  PROVE  ImportInv'
<1> DEFINE b == raw.block
           bs == acc.blocks
           new == ToProcessed(b, TrueState[b])
           n == Len(bs)
<1>1. /\ b \in Block /\ b \in Known /\ acc \in AccState /\ cur \in AccState /\ C = Content[b]
      /\ BlocksInv /\ ExecutingInv /\ StateInv
  BY BlockFacts DEF ImportInv, C
<1>2. Parents # {} /\ cur.blocks = bs /\ cur.state = TrueState[b]
  BY <1>1 DEF ExecutingInv, StateInv
<1>3. C.number = Content[C.parent].number + 1
  BY <1>2, BlockChecks DEF BodyIsGood
<1>4. new \in Processed /\ new.hash = b /\ new.state = TrueState[b]
  BY <1>1, TrueStateIs DEF Processed, ToProcessed
<1>5. bs \in Seq(Processed) /\ n \in Nat /\ n >= 1 /\ DOMAIN bs = 1 .. n
  BY <1>1 DEF AccState, BlocksInv
<1>6. /\ Append(bs, new) \in Seq(Processed) /\ Len(Append(bs, new)) = n + 1
      /\ \A k \in 1 .. n : Append(bs, new)[k] = bs[k]
      /\ Append(bs, new)[n + 1] = new
  <2> HIDE DEF bs, new
  <2> QED BY <1>4, <1>5, AppendProperties
<1>7. /\ acc' = [cur EXCEPT !.blocks = Append(bs, new)] /\ pc' = "next"
      /\ UNCHANGED <<cur, raw, index, thrown, imports, post>>
  BY <1>2 DEF Accept
<1>8. acc' \in AccState /\ acc'.blocks = Append(bs, new) /\ acc'.state = TrueState[b]
  <2> HIDE DEF bs, new
  <2> QED BY <1>1, <1>2, <1>6, <1>7 DEF AccState
<1>9. BlocksInv'
  <2> DEFINE bn == acc'.blocks
  <2>1. Len(bn) = n + 1 /\ DOMAIN bn = 1 .. n + 1
    BY <1>5, <1>6, <1>8
  <2>2. \A k \in 1 .. n : bn[k] = bs[k]
    BY <1>6, <1>8
  <2>3. bn[n + 1].hash = b /\ bn[n + 1].state = TrueState[b]
    BY <1>4, <1>6, <1>8
  <2>4. \E j \in 1 .. n : bs[j].hash = C.parent
    BY <1>2, <1>5 DEF Parents
  <2>5. bn # <<>> /\ bn[1].hash = Genesis
    BY <1>1, <1>5, <2>1, <2>2 DEF BlocksInv
  <2>6. \A k \in 1 .. n : bs[k].state = TrueState[bs[k].hash]
    BY <1>1, <1>5 DEF BlocksInv
  <2>7. ParentsCome(bs)
    BY <1>1 DEF BlocksInv
  <2> HIDE DEF bs, bn, b, new
  <2>8. \A k \in 1 .. n + 1 : bn[k].state = TrueState[bn[k].hash]
    BY <1>5, <2>2, <2>3, <2>6
  <2>9. ParentsCome(bn)
    <3> SUFFICES ASSUME NEW k \in 2 .. n + 1
                 PROVE  LET x == bn[k].hash
                            p == Content[x].parent
                        IN  /\ x \in Block
                            /\ \E j \in 1 .. k - 1 : bn[j].hash = p
                            /\ Content[x].number = Content[p].number + 1
      BY <2>1 DEF ParentsCome
    <3>1. CASE k = n + 1
      <4>1. \E j \in 1 .. n : bn[j].hash = C.parent
        BY <2>2, <2>4
      <4>2. k - 1 = n
        BY <1>5, <3>1
      <4> QED BY <1>1, <1>3, <2>3, <3>1, <4>1, <4>2
    <3>2. CASE k \in 2 .. n
      <4>1. bn[k] = bs[k] /\ \A j \in 1 .. k - 1 : bn[j] = bs[j]
        BY <1>5, <2>2, <3>2
      <4> QED BY <2>7, <3>2, <4>1 DEF ParentsCome, n
    <3> QED BY <1>5, <3>1, <3>2
  <2> QED BY <1>8, <2>1, <2>3, <2>5, <2>8, <2>9 DEF BlocksInv, bn
<1>10. ExecutingInv' /\ StateInv' /\ PassesOnLastBlock'
  BY <1>7 DEF ExecutingInv, StateInv, PassesOnLastBlock
<1> QED BY <1>1, <1>7, <1>8, <1>9, <1>10 DEF ImportInv

LEMMA ValidateBlockKeeps == ASSUME ImportInv, ValidateBlock PROVE ImportInv'
<1>1. CASE BlockFailure # "none" /\ Catch(BlockFailure)
  BY <1>1, CatchKeeps
<1>2. CASE Missed
  <2>1. UNCHANGED <<acc, cur, post, raw>> /\ pc' = "error"
    BY <1>2 DEF Missed
  <2> QED BY <2>1, OutsideKeeps DEF ImportInv
<1>3. CASE BlockFailure = "none" /\ Accept
  BY <1>3, AcceptKeeps DEF ValidateBlock
<1> QED BY <1>1, <1>2, <1>3 DEF ValidateBlock

LEMMA CompareKeeps == ASSUME ImportInv, Compare PROVE ImportInv'
<1>1. PICK p \in Posts :
        /\ post' = p
        /\ pc' = IF Result(p) = p.state THEN "passed" ELSE "mismatch"
        /\ UNCHANGED <<acc, cur, raw, index, thrown, imports>>
  BY DEF Compare
<1> DEFINE n == Len(acc.blocks)
<1>2. /\ acc.blocks \in Seq(Processed) /\ n \in Nat /\ n \in DOMAIN acc.blocks
      /\ DOMAIN acc.blocks = 1 .. n
      /\ \A k \in DOMAIN acc.blocks : acc.blocks[k].state = TrueState[acc.blocks[k].hash]
      /\ acc.state = acc.blocks[n].state
  BY DEF ImportInv, BlocksInv, AccState
<1>3. LastMatches(p) # {} => LastState(p) = TrueState[p.last]
  <2> SUFFICES ASSUME LastMatches(p) # {} PROVE LastState(p) = TrueState[p.last]
    OBVIOUS
  <2>1. LastMatches(p) \in SUBSET (1 .. n)
    BY <1>2 DEF LastMatches
  <2>2. \E k \in LastMatches(p) : \A j \in LastMatches(p) : j <= k
    BY <1>2, <2>1, GreatestMember
  <2>3. PICK k \in LastMatches(p) : LastState(p) = acc.blocks[k].state
    BY <2>2 DEF LastState
  <2>4. k \in DOMAIN acc.blocks /\ acc.blocks[k].hash = p.last
    BY DEF LastMatches
  <2> QED BY <1>2, <2>3, <2>4
<1>4. PassesOnLastBlock'
  <2> SUFFICES ASSUME Comparable' PROVE pc' = "passed" <=> post'.state = TrueState[post'.last]
    BY DEF PassesOnLastBlock
  <2>1. LastMatches(p) # {} /\ (p.kind = "Hash" => acc.blocks[n].hash = p.last)
    BY <1>1 DEF Comparable, LastMatches
  <2>2. p.kind \in {"Map", "Hash"}
    BY ImportAssumption DEF ImportAssumption, Posts
  <2>3. Result(p) = TrueState[p.last]
    BY <1>2, <1>3, <2>1, <2>2 DEF Result
  <2> QED BY <1>1, <2>3
<1>5. BlocksInv'
  BY <1>1 DEF ImportInv, BlocksInv, ParentsCome
<1>6. ExecutingInv' /\ StateInv' /\ pc' \notin {"decode", "header", "transact", "validate"}
  BY <1>1 DEF ExecutingInv, StateInv
<1> QED BY <1>1, <1>4, <1>5, <1>6 DEF ImportInv

LEMMA ImportStutters == ASSUME ImportInv, UNCHANGED vars PROVE ImportInv'
<1>1. /\ C' = C /\ Parents' = Parents /\ HeaderFailure' = HeaderFailure /\ BlocksInv'
      /\ UNCHANGED <<acc, cur, raw, pc, index, post>>
  BY SameBlocks DEF vars, ImportInv
<1>2. ExecutingInv' /\ StateInv'
  BY <1>1 DEF ImportInv, ExecutingInv, StateInv
<1>3. PassesOnLastBlock'
  BY <1>1 DEF ImportInv, PassesOnLastBlock, Comparable, LastMatches
<1> QED BY <1>1, <1>2, <1>3 DEF ImportInv

LEMMA ImportKept == ImportInv /\ [Next]_vars => ImportInv'
  BY BeginKeeps, DecodeKeeps, ValidateHeaderKeeps, TransactKeeps, WithdrawKeeps,
     ValidateBlockKeeps, CompareKeeps, ImportStutters DEF Next

(***************************************************************************)
(* Each processed block has the state of its own chain, whatever was       *)
(* imported between its parent and it, and what is executing has so far    *)
(* come to what its own chain says.                                        *)
(***************************************************************************)
THEOREM StatesAreOfChains == Spec => []ImportInv
  BY ImportStarts, ImportKept, PTL DEF Spec

(***************************************************************************)
(* A test passes if and only if it expects the state of its last block.    *)
(***************************************************************************)
THEOREM VerdictIsRight == Spec => []PassesOnLastBlock
<1>1. ImportInv => PassesOnLastBlock
  BY DEF ImportInv
<1> QED BY <1>1, StatesAreOfChains, PTL

-----------------------------------------------------------------------------
\* Validity: what the checks of the code find, block by block.
LEMMA GasIsPaid ==
  ASSUME NEW b \in Block, NEW P, NEW p, ValidOn(P, p, b), Content[b].txs # <<>>
  PROVE  Content[b].gasUsed <= Content[b].gasLimit
<1> DEFINE n == Len(Content[b].txs)
           T == TxOf[Content[b].txs[n]]
<1>1. b \in Known /\ n \in Nat /\ n \in 1 .. n /\ Content[b].gasLimit \in Nat
  BY TxFacts, BlockFacts, EmptySeq
<1>2. T.gasUsed \in Nat /\ T.gasLimit \in Nat /\ T.gasUsed <= T.gasLimit
  BY <1>1, TxFacts
<1>3. GasBefore(b, n) \in Nat /\ GasBefore(b, n + 1) = GasBefore(b, n) + T.gasUsed
  BY <1>1, GasOfNext
<1>4. GasBefore(b, n) + T.gasLimit <= Content[b].gasLimit
      /\ Content[b].gasUsed = GasBefore(b, n + 1)
  BY <1>1 DEF ValidOn
<1> HIDE DEF T, n
<1>5. \A x, y, z, l \in Nat : y <= z /\ x + z <= l => x + y <= l
  OBVIOUS
<1> QED BY <1>1, <1>2, <1>3, <1>4, <1>5

LEMMA ExecutedIsValid ==
  ASSUME Quiet, ImportInv, pc = "validate", BlockFailure = "none"
  PROVE  ValidOn(Content[C.parent], C.parent, raw.block)
<1> DEFINE b == raw.block
           n == Len(C.txs)
           P == Content[C.parent]
<1>1. /\ b \in Block /\ b \in Known /\ C = Content[b] /\ C.wellFormed
      /\ ExecutingInv /\ StateInv
  BY BlockFacts DEF ImportInv, C
<1>2. /\ HeaderFailure = "none" /\ Parents # {} /\ index \in 1 .. n + 1 /\ index > n
      /\ cur.gasUsed = GasBefore(b, index) /\ cur.receipts = ReceiptsOf(b, index - 1)
      /\ index > 1 => cur.logs = TxOf[C.txs[index - 1]].logs
      /\ \A i \in 1 .. index - 1 : TxIsValid(b, i)
      /\ cur.state = TrueState[b]
  BY <1>1 DEF ExecutingInv, StateInv
<1>3. n \in Nat /\ DOMAIN C.txs = 1 .. n /\ C.txs \in Seq(DOMAIN TxOf)
  BY <1>1, TxFacts
<1>4. n # 0 /\ \A i \in 1 .. n : TxOf[C.txs[i]].logs \subseteq TxOf[C.txs[n]].logs
  <2>1. C.txs # <<>> /\ \A i \in DOMAIN C.txs : TxOf[C.txs[i]].logs \subseteq TxOf[C.txs[n]].logs
    BY <1>1 DEF Quiet
  <2> HIDE DEF b, n
  <2> QED BY <1>3, <2>1 DEF n
<1>5. index = n + 1 /\ index - 1 = n /\ index > 1 /\ n \in 1 .. n
  BY <1>2, <1>3, <1>4
<1>6. UNION {TxOf[C.txs[i]].logs : i \in 1 .. n} = TxOf[C.txs[n]].logs
  <2> HIDE DEF n
  <2> QED BY <1>4, <1>5
<1>7. HeaderIsGood /\ BodyIsGood
  BY <1>2, HeaderChecks, BlockChecks
<1>8. cur.logs = UNION {TxOf[C.txs[i]].logs : i \in 1 .. n}
  BY <1>2, <1>5, <1>6
<1>9. cur.receipts = [i \in 1 .. n |-> [gas |-> GasBefore(b, i + 1), logs |-> TxOf[C.txs[i]].logs]]
  BY <1>1, <1>2, <1>5 DEF ReceiptsOf
<1>10. \A i \in 1 .. n :
         /\ TxOf[C.txs[i]].nonce = NonceIn(TrueState[C.parent]) + i - 1
         /\ GasBefore(b, i) + TxOf[C.txs[i]].gasLimit <= C.gasLimit
         /\ TxOf[C.txs[i]].blobs <= 6
  BY <1>1, <1>2, <1>5 DEF TxIsValid
<1>11. cur.gasUsed = GasBefore(b, n + 1)
  BY <1>2, <1>5
<1>12. /\ GasLimitWithin(P, C) /\ C.baseFee = ExpectedBaseFee(P)
       /\ C.excessBlobGas = CalcExcessBlobGas(P)
  BY <1>7 DEF HeaderIsGood
<1>13. /\ BlobGas(b) <= MaxBlobGas /\ BlobGas(b) = C.blobGasUsed
       /\ cur.gasUsed = C.gasUsed
       /\ C.timestamp > P.timestamp /\ C.number = P.number + 1
       /\ C.sealed /\ C.bodied
       /\ cur.state = C.stateRoot /\ cur.logs = C.logsBloom /\ cur.receipts = C.receipts
  BY <1>7 DEF BodyIsGood
<1> HIDE DEF P
<1>14. ValidOn(P, C.parent, b)
  BY <1>1, <1>2, <1>8, <1>9, <1>10, <1>11, <1>12, <1>13 DEF ValidOn, C
<1> QED BY <1>14 DEF P

LEMMA RefusedBeforeExecution ==
  ASSUME Quiet, ImportInv, raw.block \in Block,
         \/ ~C.wellFormed
         \/ C.parent = ZeroHash
         \/ Parents # {} /\ ~HeaderIsGood
  PROVE  raw.block \notin ValidBlocks
<1> DEFINE b == raw.block
<1>1. b \in Known /\ b # Genesis /\ C = Content[b]
  BY BlockFacts DEF C
<1> SUFFICES ASSUME C.parent \in Known, ValidOn(Content[C.parent], C.parent, b) PROVE FALSE
  BY <1>1, ValidIs DEF ValidBlocks
<1>2. C.wellFormed /\ C.parent # ZeroHash
  BY <1>1, BlockFacts DEF ValidOn
<1>3. C.gasUsed <= C.gasLimit
  <2>1. C.txs # <<>>
    BY <1>1 DEF Quiet
  <2> QED BY <1>1, <2>1, GasIsPaid
<1>4. HeaderIsGood
  BY <1>1, <1>3 DEF HeaderIsGood, ValidOn
<1> QED BY <1>2, <1>4

LEMMA RefusedTransaction ==
  ASSUME ImportInv, pc = "transact", index <= Len(C.txs),
         TransactionFailure(TxOf[C.txs[index]]) # "none"
  PROVE  raw.block \notin ValidBlocks
<1> DEFINE b == raw.block
           i == index
           T == TxOf[C.txs[i]]
           n == NonceIn(TrueState[C.parent]) + i - 1
<1>1. b \in Block /\ b \in Known /\ b # Genesis /\ C = Content[b] /\ ExecutingInv /\ StateInv
  BY BlockFacts DEF C, ImportInv
<1>2. /\ Parents # {} /\ i \in 1 .. Len(C.txs) + 1 /\ cur.gasUsed = GasBefore(b, i)
      /\ NonceIn(cur.state) = n
  BY <1>1 DEF ExecutingInv, StateInv
<1>3. i \in 1 .. Len(C.txs)
  BY <1>1, <1>2, TxFacts
<1> SUFFICES ASSUME ValidOn(Content[C.parent], C.parent, b) PROVE FALSE
  BY <1>1, ValidIs DEF ValidBlocks
<1>4. T.nonce = n /\ GasBefore(b, i) + T.gasLimit <= C.gasLimit /\ T.blobs <= 6
  BY <1>1, <1>3 DEF ValidOn
<1>5. T.nonce \in Nat /\ T.gasLimit \in Nat /\ GasBefore(b, i) \in Nat
  BY <1>1, <1>3, TxFacts, GasOfNext
<1> HIDE DEF T, n
<1>6. /\ T.gasLimit + cur.gasUsed <= C.gasLimit /\ T.blobs <= 6
      /\ T.nonce >= NonceIn(cur.state) /\ T.nonce <= NonceIn(cur.state)
  BY <1>2, <1>4, <1>5
<1>7. TransactionFailure(T) = "none"
  BY <1>6, TransactionChecks
<1> QED BY <1>7 DEF T

LEMMA RefusedBody ==
  ASSUME Quiet, ImportInv, pc = "validate", BlockFailure # "none"
  PROVE  raw.block \notin ValidBlocks
<1> DEFINE b == raw.block
           n == Len(C.txs)
<1>1. b \in Block /\ b \in Known /\ b # Genesis /\ C = Content[b] /\ ExecutingInv /\ StateInv
  BY BlockFacts DEF C, ImportInv
<1>2. /\ Parents # {} /\ index \in 1 .. n + 1 /\ index > n
      /\ cur.gasUsed = GasBefore(b, index) /\ cur.receipts = ReceiptsOf(b, index - 1)
      /\ index > 1 => cur.logs = TxOf[C.txs[index - 1]].logs
      /\ cur.state = TrueState[b]
  BY <1>1 DEF ExecutingInv, StateInv
<1>3. n \in Nat /\ DOMAIN C.txs = 1 .. n /\ C.txs \in Seq(DOMAIN TxOf)
  BY <1>1, TxFacts
<1>4. n # 0 /\ \A i \in 1 .. n : TxOf[C.txs[i]].logs \subseteq TxOf[C.txs[n]].logs
  <2>1. C.txs # <<>> /\ \A i \in DOMAIN C.txs : TxOf[C.txs[i]].logs \subseteq TxOf[C.txs[n]].logs
    BY <1>1 DEF Quiet
  <2> HIDE DEF b, n
  <2> QED BY <1>3, <2>1 DEF n
<1>5. index = n + 1 /\ index - 1 = n /\ index > 1 /\ n \in 1 .. n
  BY <1>2, <1>3, <1>4
<1>6. UNION {TxOf[C.txs[i]].logs : i \in 1 .. n} = TxOf[C.txs[n]].logs
  <2> HIDE DEF n
  <2> QED BY <1>4, <1>5
<1> SUFFICES ASSUME ValidOn(Content[C.parent], C.parent, b) PROVE FALSE
  BY <1>1, ValidIs DEF ValidBlocks
<1>7. /\ C.sealed /\ C.bodied
      /\ C.number = Content[C.parent].number + 1 /\ C.timestamp > Content[C.parent].timestamp
      /\ C.gasUsed = GasBefore(b, n + 1)
      /\ C.blobGasUsed = BlobGas(b) /\ BlobGas(b) <= MaxBlobGas
      /\ C.stateRoot = TrueState[b]
      /\ C.logsBloom = UNION {TxOf[C.txs[i]].logs : i \in 1 .. n}
      /\ C.receipts = ReceiptsOf(b, n)
  BY DEF ValidOn, ReceiptsOf, C
<1>8. /\ cur.gasUsed = GasBefore(b, n + 1) /\ cur.receipts = ReceiptsOf(b, n)
      /\ cur.logs = TxOf[C.txs[n]].logs
  BY <1>2, <1>5
<1>9. BodyIsGood
  BY <1>2, <1>6, <1>7, <1>8 DEF BodyIsGood
<1> QED BY <1>2, <1>9, BlockChecks

OnlyValid == \A k \in DOMAIN acc.blocks : Valid[acc.blocks[k].hash]

LEMMA OnlyValidKept ==
  ASSUME Quiet, ImportInv, OnlyValid, [Next]_vars
  PROVE  OnlyValid'
<1>1. CASE UNCHANGED acc
  BY <1>1 DEF OnlyValid
<1>2. CASE pc = "validate" /\ BlockFailure = "none" /\ Accept
  <2> DEFINE b == raw.block
             bs == acc.blocks
             n == Len(bs)
             new == ToProcessed(b, cur.state)
  <2>1. /\ b \in Block /\ b \in Known /\ b # Genesis /\ C = Content[b] /\ acc \in AccState
        /\ cur \in AccState /\ ExecutingInv
    BY <1>2, BlockFacts DEF ImportInv, C
  <2>2. Parents # {} /\ cur.blocks = bs
    BY <1>2, <2>1 DEF ExecutingInv
  <2>3. Valid[C.parent]
    <3>1. PICK k \in DOMAIN bs : bs[k].hash = C.parent
      BY <2>2 DEF Parents
    <3> QED BY <3>1 DEF OnlyValid
  <2>4. Valid[b]
    BY <1>2, <2>1, <2>2, <2>3, ParentIs, ExecutedIsValid, ValidIs
  <2>5. bs \in Seq(Processed) /\ new \in Processed /\ new.hash = b
    BY <2>1 DEF AccState, Processed, ToProcessed
  <2>6. acc' = [cur EXCEPT !.blocks = Append(bs, new)]
    BY <1>2, <2>2 DEF Accept
  <2> HIDE DEF bs, new, b, n
  <2>7. acc'.blocks = Append(bs, new)
    BY <2>1, <2>6 DEF AccState
  <2>8. /\ DOMAIN Append(bs, new) = 1 .. n + 1 /\ DOMAIN bs = 1 .. n /\ n \in Nat
        /\ \A k \in 1 .. n : Append(bs, new)[k] = bs[k]
        /\ Append(bs, new)[n + 1] = new
    BY <2>5 DEF n
  <2>9. \A k \in 1 .. n + 1 : k \in 1 .. n \/ k = n + 1
    BY <2>8
  <2>10. \A k \in 1 .. n : Valid[bs[k].hash]
    BY <2>8 DEF OnlyValid, bs
  <2>11. \A k \in 1 .. n + 1 : Valid[Append(bs, new)[k].hash]
    BY <2>4, <2>5, <2>8, <2>9, <2>10
  <2> QED BY <2>7, <2>8, <2>11 DEF OnlyValid
<1> QED BY <1>1, <1>2 DEF Next, vars, Begin, Decode, ValidateHeader, Transact, Withdraw,
           ValidateBlock, Missed, Compare, Catch

LEMMA OnlyValidIsEnough == ImportInv /\ OnlyValid => AcceptedAreValid
<1> SUFFICES ASSUME ImportInv, OnlyValid, NEW k \in DOMAIN acc.blocks
             PROVE  LET b == acc.blocks[k].hash
                    IN  /\ acc.blocks[k] \in TrueBlocks
                        /\ b # Genesis => \E j \in 1 .. k - 1 : acc.blocks[j].hash = Content[b].parent
  BY DEF AcceptedAreValid
<1> DEFINE b == acc.blocks[k].hash
           n == Len(acc.blocks)
<1>1. acc.blocks \in Seq(Processed) /\ n \in Nat /\ k \in 1 .. n /\ BlocksInv
  BY DEF ImportInv, AccState
<1>2. acc.blocks[k] \in Processed /\ acc.blocks[k].state = TrueState[b] /\ Valid[b]
  BY <1>1 DEF BlocksInv, OnlyValid
<1>3. acc.blocks[k] = ToProcessed(b, TrueState[b]) /\ b \in ValidBlocks
  BY <1>2 DEF ToProcessed, Processed, ValidBlocks
<1>4. b # Genesis => \E j \in 1 .. k - 1 : acc.blocks[j].hash = Content[b].parent
  <2>1. b # Genesis => k \in 2 .. n
    BY <1>1 DEF BlocksInv
  <2> QED BY <1>1, <2>1 DEF BlocksInv, ParentsCome
<1> QED BY <1>3, <1>4 DEF TrueBlocks

LEMMA OnlyInvalidKept ==
  ASSUME Quiet, ImportInv, OnlyInvalidRefused, [Next]_vars
  PROVE  OnlyInvalidRefused'
<1>1. CASE UNCHANGED <<raw, thrown>>
  BY <1>1 DEF OnlyInvalidRefused
<1>2. CASE thrown' = "none"
  BY <1>2 DEF OnlyInvalidRefused
<1>3. CASE \E e : Catch(e) /\ (e # "UNKNOWN_PARENT" => raw.block \notin ValidBlocks)
  BY <1>3 DEF OnlyInvalidRefused, Catch
<1>4. CASE pc = "decode" /\ ~C.wellFormed /\ Catch("RLP_STRUCTURES_ENCODING")
  BY <1>3, <1>4, RefusedBeforeExecution DEF ImportInv
<1>5. CASE pc = "header" /\ HeaderFailure # "none" /\ Catch(HeaderFailure)
  <2>1. CASE HeaderFailure = "UNKNOWN_PARENT"
    BY <1>3, <1>5, <2>1
  <2>2. CASE HeaderFailure # "UNKNOWN_PARENT"
    <3>1. C.parent = ZeroHash \/ Parents # {}
      BY <2>2 DEF HeaderFailure
    <3>2. raw.block \notin ValidBlocks
      BY <1>5, <3>1, HeaderChecks, RefusedBeforeExecution DEF ImportInv
    <3> QED BY <1>3, <1>5, <3>2
  <2> QED BY <2>1, <2>2
<1>6. CASE /\ pc = "transact" /\ index <= Len(C.txs)
           /\ TransactionFailure(TxOf[C.txs[index]]) # "none"
           /\ Catch(TransactionFailure(TxOf[C.txs[index]]))
  BY <1>3, <1>6, RefusedTransaction
<1>7. CASE pc = "validate" /\ BlockFailure # "none" /\ Catch(BlockFailure)
  BY <1>3, <1>7, RefusedBody
<1> QED BY <1>1, <1>2, <1>4, <1>5, <1>6, <1>7
        DEF Next, vars, Begin, Decode, ValidateHeader, Transact, Withdraw,
            ValidateBlock, Missed, Accept, Compare

(***************************************************************************)
(* Where the blooms of the code are right, a block that is accepted is     *)
(* valid on its own parent, which was accepted before it, in whatever      *)
(* order the blocks of whatever tree come.                                 *)
(***************************************************************************)
THEOREM AcceptedBlocksAreValid ==
  ASSUME Quiet
  PROVE  Spec => []AcceptedAreValid
<1>1. Init => ImportInv /\ OnlyValid
  <2> SUFFICES ASSUME Init PROVE OnlyValid
    BY ImportStarts
  <2>1. DOMAIN acc.blocks = {1} /\ acc.blocks[1].hash = Genesis
    BY DEF Init, ToProcessed
  <2> QED BY <2>1, ValidIs, BlockFacts DEF OnlyValid
<1>2. ImportInv /\ OnlyValid /\ [Next]_vars => (ImportInv /\ OnlyValid)'
  BY ImportKept, OnlyValidKept
<1>3. ImportInv /\ OnlyValid => AcceptedAreValid
  BY OnlyValidIsEnough
<1> QED BY <1>1, <1>2, <1>3, PTL DEF Spec

(***************************************************************************)
(* There too, only a block that is not valid causes an exception.          *)
(***************************************************************************)
THEOREM RefusedBlocksAreInvalid ==
  ASSUME Quiet
  PROVE  Spec => []OnlyInvalidRefused
<1>1. Init => ImportInv /\ OnlyInvalidRefused
  BY ImportStarts DEF Init, OnlyInvalidRefused
<1>2. ImportInv /\ OnlyInvalidRefused /\ [Next]_vars => (ImportInv /\ OnlyInvalidRefused)'
  BY ImportKept, OnlyInvalidKept
<1> QED BY <1>1, <1>2, PTL DEF Spec

-----------------------------------------------------------------------------
\* BLOCKHASH: on one chain the place of a block in the list is its number.
LEMMA NumbersAreOfPlaces ==
  ASSUME ImportInv, OneChain
  PROVE  \A k \in 1 .. Len(acc.blocks) : Content[acc.blocks[k].hash].number = k - 1
<1> DEFINE bs == acc.blocks
           Number(k) == Content[bs[k].hash].number
           B == {k \in 1 .. Len(bs) : Number(k) # k - 1}
<1>1. Len(bs) \in Nat /\ bs[1].hash = Genesis /\ ParentsCome(bs)
  BY DEF ImportInv, BlocksInv, AccState
<1>2. \A k \in 2 .. Len(bs) : Number(k) = Number(k - 1) + 1
  BY <1>1 DEF ParentsCome, OneChain
<1>3. Number(1) = 0
  BY <1>1, BlockFacts
<1> SUFFICES ASSUME B # {} PROVE FALSE
  OBVIOUS
<1>4. PICK k \in B : \A j \in B : k <= j
  <2>1. B \in SUBSET Nat
    BY <1>1
  <2> HIDE DEF B
  <2> QED BY <2>1, SmallestMember
<1> HIDE DEF Number, bs
<1>5. k \in 2 .. Len(bs) /\ k - 1 \in 1 .. Len(bs) /\ k - 1 < k /\ k \in Nat
  BY <1>1, <1>3, <1>4
<1>6. Number(k - 1) = (k - 1) - 1
  BY <1>4, <1>5
<1> QED BY <1>2, <1>4, <1>5, <1>6

LEMMA AncestorsAreInPlace ==
  ASSUME ImportInv, OneChain
  PROVE  \A k \in 1 .. Len(acc.blocks) : \A n \in 0 .. k - 1 :
            Ancestor[acc.blocks[k].hash][n] = acc.blocks[n + 1].hash
<1> DEFINE bs == acc.blocks
           Hash(k) == bs[k].hash
           Good(k) == \A n \in 0 .. k - 1 : Ancestor[Hash(k)][n] = Hash(n + 1)
           B == {k \in 1 .. Len(bs) : ~Good(k)}
<1>1. Len(bs) \in Nat /\ \A k \in 1 .. Len(bs) : Hash(k) \in Known
  <2>1. bs \in Seq(Processed)
    BY DEF ImportInv, AccState
  <2>2. \A k \in 1 .. Len(bs) : bs[k] \in Processed
    BY <2>1
  <2> QED BY <2>1, <2>2 DEF Processed
<1>2. \A k \in 2 .. Len(bs) : Content[Hash(k)].parent = Hash(k - 1)
  BY DEF OneChain
<1>3. \A k \in 1 .. Len(bs) : Content[Hash(k)].number = k - 1
  BY NumbersAreOfPlaces
<1> SUFFICES ASSUME B # {} PROVE FALSE
  OBVIOUS
<1>4. PICK k \in B : \A j \in B : k <= j
  <2>1. B \in SUBSET Nat
    BY <1>1
  <2> HIDE DEF B
  <2> QED BY <2>1, SmallestMember
<1>5. k \in 1 .. Len(bs) /\ k \in Nat /\ \A j \in 1 .. k - 1 : Good(j)
  <2>1. k \in 1 .. Len(bs) /\ k \in Nat
    BY <1>1
  <2>2. ASSUME NEW j \in 1 .. k - 1 PROVE Good(j)
    <3>1. j \in 1 .. Len(bs) /\ ~(k <= j)
      BY <1>1, <2>1
    <3> HIDE DEF Good
    <3> QED BY <1>4, <3>1
  <2> QED BY <2>1, <2>2
<1> HIDE DEF Hash, bs
<1>6. ASSUME NEW n \in 0 .. k - 1 PROVE Ancestor[Hash(k)][n] = Hash(n + 1)
  <2>1. Ancestor[Hash(k)][n] =
          IF n = k - 1 \/ Content[Hash(k)].parent \notin Known
               \/ n > Content[Content[Hash(k)].parent].number
            THEN Hash(k) ELSE Ancestor[Content[Hash(k)].parent][n]
    <3> DEFINE x == Hash(k)
    <3>1. x \in Known /\ Content[x].number = k - 1
      BY <1>1, <1>3, <1>5
    <3> HIDE DEF x
    <3>2. Ancestor[x] = [i \in 0 .. Content[x].number |->
             IF i = Content[x].number \/ Content[x].parent \notin Known
                  \/ i > Content[Content[x].parent].number
               THEN x ELSE Ancestor[Content[x].parent][i]]
      BY <3>1, AncestorIs
    <3>3. Ancestor[x][n] =
            IF n = k - 1 \/ Content[x].parent \notin Known
                 \/ n > Content[Content[x].parent].number
              THEN x ELSE Ancestor[Content[x].parent][n]
      BY <3>1, <3>2
    <3> QED BY <3>3 DEF x
  <2>2. CASE n = k - 1
    <3>1. n + 1 = k
      BY <1>5, <2>2
    <3> QED BY <2>1, <2>2, <3>1
  <2>3. CASE n # k - 1
    <3>1. k \in 2 .. Len(bs) /\ k - 1 \in 1 .. k - 1 /\ k - 1 \in 1 .. Len(bs)
          /\ n \in 0 .. (k - 1) - 1 /\ ~(n > (k - 1) - 1)
      BY <1>1, <1>5, <2>3
    <3>2. Content[Hash(k)].parent = Hash(k - 1) /\ Hash(k - 1) \in Known
          /\ Content[Hash(k - 1)].number = (k - 1) - 1
      BY <1>1, <1>2, <1>3, <3>1
    <3>3. Ancestor[Hash(k)][n] = Ancestor[Hash(k - 1)][n]
      BY <2>1, <2>3, <3>1, <3>2
    <3>4. Good(k - 1)
      <4> HIDE DEF Good
      <4> QED BY <1>5, <3>1
    <3> QED BY <3>1, <3>3, <3>4
  <2> QED BY <2>2, <2>3
<1> QED BY <1>4, <1>6

(***************************************************************************)
(* A transaction that asks for the hash of one of the 256 blocks before    *)
(* its own gets the ancestor with this number, as long as the processed    *)
(* blocks are one chain; the run block_forks shows it wrong where not.     *)
(***************************************************************************)
THEOREM BlockHashIsRight == Spec => []BlockHashOnOneChain
<1>1. ImportInv => BlockHashOnOneChain
  <2> SUFFICES ASSUME ImportInv, Executing, OneChain, NEW n \in 0 .. C.number - 1,
                      n + 256 >= C.number
               PROVE  BlockHash(n) = Ancestor[raw.block][n]
    BY DEF BlockHashOnOneChain
  <2> DEFINE bs == acc.blocks
             m == Len(bs)
             b == raw.block
  <2>1. /\ b \in Known /\ C = Content[b] /\ pc = "transact" /\ Parents # {}
        /\ C.number = Content[C.parent].number + 1
    BY BlockFacts DEF Executing, ImportInv, C
  <2>2. m \in Nat /\ m \in 1 .. m
    BY DEF ImportInv, AccState, BlocksInv
  <2>3. C.parent = bs[m].hash /\ C.parent \in Known
    BY <2>1, ParentIs DEF OneChain
  <2>4. Content[C.parent].number = m - 1 /\ C.number = m
    BY <2>1, <2>2, <2>3, NumbersAreOfPlaces
  <2>5. Ancestor[C.parent][n] = bs[n + 1].hash
    <3>1. n \in 0 .. m - 1
      BY <2>4
    <3> QED BY <2>2, <2>3, <3>1, AncestorsAreInPlace
  <2>6. Ancestor[b][n] = Ancestor[C.parent][n]
    <3>1. n \in 0 .. Content[b].number /\ n # Content[b].number
          /\ ~(n > Content[Content[b].parent].number)
      BY <2>1, <2>2, <2>4
    <3>2. Ancestor[b] = [i \in 0 .. Content[b].number |->
             IF i = Content[b].number \/ Content[b].parent \notin Known
                  \/ i > Content[Content[b].parent].number
               THEN b ELSE Ancestor[Content[b].parent][i]]
      BY <2>1, AncestorIs
    <3> QED BY <2>1, <2>3, <3>1, <3>2
  <2>7. BlockHash(n) = bs[n + 1].hash
    <3> HIDE DEF b
    <3> QED BY <2>2, <2>4 DEF BlockHash
  <2> QED BY <2>5, <2>6, <2>7
<1> QED BY <1>1, StatesAreOfChains, PTL
=============================================================================
