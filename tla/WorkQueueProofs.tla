--------------------------- MODULE WorkQueueProofs ---------------------------
(***************************************************************************)
(* The work queue: the units partition the selected tests, no test is run  *)
(* twice, and what main reports is complete.                               *)
(***************************************************************************)
EXTENDS WorkQueue, SequenceTheorems, FiniteSetTheorems, TLAPS

(***************************************************************************)
(* Splitting a file.                                                       *)
(***************************************************************************)
\* Division of natural numbers, rounded down.
LEMMA DivFacts ==
  ASSUME NEW a \in Nat, NEW b \in Nat \ {0}
  PROVE  /\ DivNat(a, b) \in Nat
         /\ b * DivNat(a, b) <= a
         /\ a < b * DivNat(a, b) + b
<1>1. DivNat(a, b) = a \div b
  BY DEF DivNat
<1> QED BY <1>1

\* Multiples of the size of a part are in order.
LEMMA MultiplesOrdered ==
  ASSUME NEW c \in Nat, NEW k \in Nat, NEW l \in Nat, k < l
  PROVE  (k + 1) * c <= l * c
<1>1. PICK d \in Nat : l = (k + 1) + d
  <2>1. l - (k + 1) \in Nat /\ l = (k + 1) + (l - (k + 1))
    OBVIOUS
  <2> QED BY <2>1
<1>2. l * c = (k + 1) * c + d * c
  BY <1>1
<1>3. d * c \in Nat /\ (k + 1) * c \in Nat
  OBVIOUS
<1> QED BY <1>2, <1>3

\* The types of the pieces of a file and of the size of a part.
LEMMA PiecesType ==
  ASSUME NEW f \in File, NEW n \in Nat \ {0}, NEW count \in Nat
  PROVE  /\ Pieces(f, n, count) \in Nat
         /\ Chunk(n, Pieces(f, n, count)) \in Nat
         /\ count # 0 => Pieces(f, n, count) # 0
<1>1. Pieces(f, n, count) \in Nat /\ (count # 0 => Pieces(f, n, count) # 0)
  BY DEF Pieces, SmallerOf
<1>2. ASSUME NEW p \in Nat PROVE Chunk(n, p) \in Nat
  <2>1. CASE p = 0
    BY <2>1 DEF Chunk, DivNat
  <2>2. CASE p # 0
    <3>1. n + p - 1 \in Nat
      BY <2>2
    <3> QED BY <2>2, <3>1, DivFacts DEF Chunk
  <2> QED BY <2>1, <2>2
<1> QED BY <1>1, <1>2

\* A part is a range of the selected tests of its file.
LEMMA UnitsOfFile ==
  ASSUME NEW f \in File, NEW n \in Nat, NEW count \in Nat,
         NEW u \in FileUnits(f, n, count)
  PROVE  /\ u \in WorkUnit
         /\ u.file = f
         /\ u.first \in 1 .. n /\ u.last \in 1 .. n /\ u.first <= u.last
<1>1. n \in Nat \ {0}
  BY DEF FileUnits
<1> DEFINE p == Pieces(f, n, count)
           c == Chunk(n, p)
<1>2. p \in Nat /\ c \in Nat
  BY <1>1, PiecesType
<1>3. PICK k \in 0 .. p - 1 : u = Part(f, n, c, k) /\ u.first <= u.last
  BY <1>1 DEF FileUnits
<1> HIDE DEF p, c
<1>4. k \in Nat /\ k * c \in Nat /\ (k + 1) * c \in Nat
  BY <1>2, <1>3
<1>5. u.file = f /\ u.first = k * c + 1 /\ u.last = SmallerOf((k + 1) * c, n)
  BY <1>3 DEF Part
<1>6. u.first \in Nat /\ u.first >= 1 /\ u.last \in Nat /\ u.last <= n
  BY <1>1, <1>4, <1>5 DEF SmallerOf
<1>7. u \in WorkUnit
  BY <1>3, <1>5, <1>6 DEF Part, WorkUnit
<1> QED BY <1>3, <1>5, <1>6, <1>7

\* Two parts of a file have no test in common.
LEMMA PartsApart ==
  ASSUME NEW f \in File, NEW n \in Nat, NEW count \in Nat,
         NEW u \in FileUnits(f, n, count), NEW v \in FileUnits(f, n, count), u # v
  PROVE  UnitTests(u) \cap UnitTests(v) = {}
<1>1. n \in Nat \ {0}
  BY DEF FileUnits
<1> DEFINE p == Pieces(f, n, count)
           c == Chunk(n, p)
<1>2. p \in Nat /\ c \in Nat
  BY <1>1, PiecesType
<1>3. PICK k \in 0 .. p - 1 : u = Part(f, n, c, k)
  BY <1>1 DEF FileUnits
<1>4. PICK l \in 0 .. p - 1 : v = Part(f, n, c, l)
  BY <1>1 DEF FileUnits
<1> HIDE DEF p, c
<1>5. ASSUME NEW i \in Nat, NEW j \in Nat, i < j
      PROVE  SmallerOf((i + 1) * c, n) < j * c + 1
  <2>1. (i + 1) * c <= j * c
    BY <1>2, <1>5, MultiplesOrdered
  <2>2. (i + 1) * c \in Nat /\ j * c \in Nat
    BY <1>2
  <2> QED BY <1>1, <2>1, <2>2 DEF SmallerOf
<1>6. k \in Nat /\ l \in Nat /\ (k < l \/ l < k)
  BY <1>2, <1>3, <1>4
<1>7. /\ u.first = k * c + 1 /\ u.last = SmallerOf((k + 1) * c, n)
      /\ v.first = l * c + 1 /\ v.last = SmallerOf((l + 1) * c, n)
  BY <1>3, <1>4 DEF Part
<1>8. u.last < v.first \/ v.last < u.first
  BY <1>5, <1>6, <1>7
<1>9. u \in WorkUnit /\ v \in WorkUnit
  BY UnitsOfFile
<1>10. (u.first .. u.last) \cap (v.first .. v.last) = {}
  BY <1>8, <1>9 DEF WorkUnit
<1> QED BY <1>10 DEF UnitTests

\* And together they have all of them, unless the file is cut in no pieces.
LEMMA PartsCover ==
  ASSUME NEW f \in File, NEW n \in Nat, NEW count \in Nat \ {0}, NEW i \in 1 .. n
  PROVE  \E u \in FileUnits(f, n, count) : i \in u.first .. u.last
<1>1. n \in Nat \ {0}
  OBVIOUS
<1> DEFINE p == Pieces(f, n, count)
           c == Chunk(n, p)
<1>2. p \in Nat \ {0} /\ c \in Nat
  BY <1>1, PiecesType
<1>3. n + p - 1 < p * c + p
  <2>1. n + p - 1 \in Nat
    BY <1>2
  <2> QED BY <1>2, <2>1, DivFacts DEF Chunk
<1>4. FileUnits(f, n, count) =
        {u \in {Part(f, n, c, k) : k \in 0 .. p - 1} : u.first <= u.last}
  BY <1>1 DEF FileUnits
<1> HIDE DEF p, c
<1>5. p * c \in Nat /\ n <= p * c
  BY <1>2, <1>3
<1>6. c # 0
  <2>1. c = 0 => p * c = 0
    BY <1>2
  <2> QED BY <1>1, <1>5, <2>1
<1> DEFINE k == DivNat(i - 1, c)
<1>7. k \in Nat /\ c * k <= i - 1 /\ i - 1 < c * k + c
  <2>1. i - 1 \in Nat
    OBVIOUS
  <2> QED BY <1>2, <1>6, <2>1, DivFacts
<1> HIDE DEF k
<1>8. k * c = c * k /\ (k + 1) * c = c * k + c /\ c * k \in Nat
  BY <1>2, <1>7
<1>9. k * c + 1 <= i /\ i <= (k + 1) * c
  BY <1>2, <1>7, <1>8
<1>10. k < p
  <2> SUFFICES ASSUME p <= k PROVE FALSE
    BY <1>2, <1>7
  <2>1. CASE p = k
    BY <1>2, <1>5, <1>7, <1>8, <2>1
  <2>2. CASE p < k
    <3>1. (p + 1) * c <= k * c
      BY <1>2, <1>7, <2>2, MultiplesOrdered
    <3>2. (p + 1) * c = p * c + c
      BY <1>2
    <3> QED BY <1>2, <1>5, <1>8, <1>9, <3>1, <3>2
  <2> QED BY <1>2, <1>7, <2>1, <2>2
<1> DEFINE u == Part(f, n, c, k)
<1>11. u.first = k * c + 1 /\ u.last = SmallerOf((k + 1) * c, n)
  BY DEF Part
<1> HIDE DEF u
<1>12. i \in u.first .. u.last /\ u.first <= u.last
  <2>1. PICK x \in Nat, y \in Nat : x = k * c /\ y = (k + 1) * c
    BY <1>2, <1>7
  <2>2. u.first = x + 1 /\ x + 1 <= i /\ i <= y /\ i <= n
    BY <1>9, <1>11, <2>1
  <2>3. u.last = y \/ u.last = n
    BY <1>11, <2>1 DEF SmallerOf
  <2> QED BY <2>1, <2>2, <2>3
<1>13. k \in 0 .. p - 1
  BY <1>2, <1>7, <1>10
<1>14. u \in FileUnits(f, n, count)
  BY <1>4, <1>12, <1>13 DEF u
<1> QED BY <1>12, <1>14

-----------------------------------------------------------------------------
(***************************************************************************)
(* The queue.                                                              *)
(***************************************************************************)
\* The parts of a file are finitely many.
LEMMA FileUnitsFinite ==
  ASSUME NEW f \in File, NEW n \in Nat, NEW count \in Nat
  PROVE  IsFiniteSet(FileUnits(f, n, count))
<1>1. CASE n = 0
  BY <1>1, FS_EmptySet DEF FileUnits
<1>2. CASE n # 0
  <2> DEFINE p == Pieces(f, n, count)
             c == Chunk(n, p)
             g == [k \in 0 .. p - 1 |-> Part(f, n, c, k)]
             S == {g[k] : k \in 0 .. p - 1}
  <2>1. p \in Nat
    BY <1>2, PiecesType
  <2>2. IsFiniteSet(0 .. p - 1)
    BY <2>1, FS_Interval
  <2>3. g \in Surjection(0 .. p - 1, S)
    BY DEF Surjection
  <2>4. IsFiniteSet(S)
    BY <2>2, <2>3, FS_Surjection
  <2>5. FileUnits(f, n, count) \subseteq S
    BY <1>2 DEF FileUnits
  <2> QED BY <2>4, <2>5, FS_Subset
<1> QED BY <1>1, <1>2

\* So are the units of all files, and each is one of its file.
LEMMA AllUnitsFinite ==
  ASSUME NEW sel \in [File -> Nat], NEW count \in Nat
  PROVE  /\ IsFiniteSet(AllUnits(sel, count))
         /\ AllUnits(sel, count) \subseteq WorkUnit
         /\ \A u \in AllUnits(sel, count) :
              u.file \in File /\ u \in FileUnits(u.file, sel[u.file], count)
<1> DEFINE g == [f \in File |-> FileUnits(f, sel[f], count)]
           S == {g[f] : f \in File}
<1>1. IsFiniteSet(File)
  BY QueueAssumption DEF QueueAssumption
<1>2. g \in Surjection(File, S)
  BY DEF Surjection
<1>3. IsFiniteSet(S)
  BY <1>1, <1>2, FS_Surjection
<1>4. \A T \in S : IsFiniteSet(T)
  BY FileUnitsFinite
<1>5. AllUnits(sel, count) = UNION S
  BY DEF AllUnits
<1>6. IsFiniteSet(AllUnits(sel, count))
  BY <1>3, <1>4, <1>5, FS_UNION
<1>7. ASSUME NEW u \in AllUnits(sel, count)
      PROVE  /\ u \in WorkUnit /\ u.file \in File
             /\ u \in FileUnits(u.file, sel[u.file], count)
  <2>1. PICK f \in File : u \in FileUnits(f, sel[f], count)
    BY DEF AllUnits
  <2>2. sel[f] \in Nat
    OBVIOUS
  <2> QED BY <2>1, <2>2, UnitsOfFile
<1> QED BY <1>6, <1>7

\* The queue has every unit once.
LEMMA QueueOfUnits ==
  ASSUME NEW sel \in [File -> Nat], NEW count \in Nat,
         NEW s \in SetToSeqs(AllUnits(sel, count))
  PROVE  /\ s \in Seq(WorkUnit)
         /\ \A i \in 1 .. Len(s) : s[i] \in AllUnits(sel, count)
         /\ \A i, j \in 1 .. Len(s) : i # j => s[i] # s[j]
         /\ \A u \in AllUnits(sel, count) : \E i \in 1 .. Len(s) : s[i] = u
<1> DEFINE S == AllUnits(sel, count)
           n == Cardinality(S)
<1>1. IsFiniteSet(S) /\ S \subseteq WorkUnit
  BY AllUnitsFinite
<1>2. n \in Nat
  BY <1>1, FS_CardinalityType
<1>3. s \in [1 .. n -> S] /\ \A i, j \in 1 .. n : i # j => s[i] # s[j]
  BY DEF SetToSeqs
<1> HIDE DEF S, n
<1>4. s \in Seq(WorkUnit) /\ Len(s) = n
  BY <1>1, <1>2, <1>3, SeqDef
<1>5. \A u \in S : \E i \in 1 .. n : s[i] = u
  <2>1. s \in Injection(1 .. n, S)
    BY <1>3 DEF Injection, IsInjective
  <2>2. Cardinality(1 .. n) = n
    BY <1>2, FS_Interval
  <2>3. s \in Surjection(1 .. n, S)
    BY <1>1, <2>1, <2>2, FS_Injection DEF n
  <2> QED BY <2>3 DEF Surjection
<1> QED BY <1>3, <1>4, <1>5 DEF S

\* The queue of an initial state partitions the tests.
LEMMA InitPartitions ==
  ASSUME Init
  PROVE  Partitioned /\ units \in Seq(WorkUnit)
<1>1. threads \in Nat /\ selected \in [File -> Nat]
  BY QueueAssumption DEF Init, QueueAssumption
<1>2. /\ units \in Seq(WorkUnit)
      /\ \A i \in 1 .. Len(units) : units[i] \in AllUnits(selected, threads)
      /\ \A i, j \in 1 .. Len(units) : i # j => units[i] # units[j]
      /\ \A u \in AllUnits(selected, threads) : \E i \in 1 .. Len(units) : units[i] = u
  BY <1>1, QueueOfUnits DEF Init
<1>3. ASSUME NEW i \in 1 .. Len(units)
      PROVE  /\ units[i] \in WorkUnit /\ units[i].file \in File
             /\ units[i] \in FileUnits(units[i].file, selected[units[i].file], threads)
  BY <1>1, <1>2, AllUnitsFinite
<1>4. ASSUME NEW i \in 1 .. Len(units), NEW j \in 1 .. Len(units), i # j
      PROVE  UnitTests(units[i]) \cap UnitTests(units[j]) = {}
  <2>1. CASE units[i].file = units[j].file
    <3>1. units[i] # units[j] /\ selected[units[i].file] \in Nat
      BY <1>1, <1>2, <1>3, <1>4
    <3> QED BY <1>1, <1>3, <2>1, <3>1, PartsApart
  <2>2. CASE units[i].file # units[j].file
    BY <2>2 DEF UnitTests
  <2> QED BY <2>1, <2>2
<1>5. ASSUME NEW i \in 1 .. Len(units)
      PROVE  UnitTests(units[i]) \subseteq Test /\ units[i].first <= units[i].last
  <2> DEFINE f == units[i].file
             n == selected[f]
  <2>1. f \in File /\ n \in Nat /\ units[i] \in FileUnits(f, n, threads)
    BY <1>1, <1>3
  <2>2. /\ units[i].first \in 1 .. n /\ units[i].last \in 1 .. n
        /\ units[i].first <= units[i].last
    BY <1>1, <2>1, UnitsOfFile
  <2>3. units[i].first .. units[i].last \subseteq 1 .. n
    BY <2>1, <2>2
  <2>4. UnitTests(units[i]) \subseteq {f} \X (1 .. n)
    BY <2>3 DEF UnitTests
  <2> QED BY <2>1, <2>2, <2>4 DEF Test
<1>6. ASSUME threads # 0, NEW t \in Test
      PROVE  \E i \in 1 .. Len(units) : t \in UnitTests(units[i])
  <2>0. PICK f \in File : t \in {f} \X (1 .. selected[f])
    BY DEF Test
  <2>1. PICK k \in 1 .. selected[f] : t = <<f, k>>
    BY <2>0
  <2>2. threads \in Nat \ {0} /\ selected[f] \in Nat
    BY <1>1, <1>6
  <2>3. PICK u \in FileUnits(f, selected[f], threads) : k \in u.first .. u.last
    BY <2>1, <2>2, PartsCover
  <2>4. u.file = f /\ u \in AllUnits(selected, threads)
    BY <2>2, <2>3, UnitsOfFile DEF AllUnits
  <2>5. PICK i \in 1 .. Len(units) : units[i] = u
    BY <1>2, <2>4
  <2> QED BY <2>1, <2>3, <2>4, <2>5 DEF UnitTests
<1>7. ASSUME threads # 0
      PROVE  Test \subseteq UNION {UnitTests(units[i]) : i \in 1 .. Len(units)}
  BY <1>6, <1>7
<1> QED BY <1>2, <1>4, <1>5, <1>7 DEF Partitioned

-----------------------------------------------------------------------------
(***************************************************************************)
(* Sequences of results.                                                   *)
(***************************************************************************)
\* The tests of a sequence of results, after one more.
LEMMA FirstsOfAppend ==
  ASSUME NEW S, NEW s \in Seq(S), NEW x \in S
  PROVE  LET t == Append(s, x)
         IN  /\ t \in Seq(S) /\ Len(t) = Len(s) + 1
             /\ {t[i][1] : i \in 1 .. Len(t)} = {s[i][1] : i \in 1 .. Len(s)} \cup {x[1]}
             /\ ToSet(t) = ToSet(s) \cup {x}
<1> DEFINE t == Append(s, x)
<1>1. /\ t \in Seq(S) /\ Len(t) = Len(s) + 1 /\ t[Len(s) + 1] = x
      /\ \A i \in 1 .. Len(s) : t[i] = s[i]
  BY AppendProperties
<1>2. Len(s) \in Nat /\ DOMAIN s = 1 .. Len(s) /\ DOMAIN t = 1 .. Len(t)
  BY <1>1
<1>3. 1 .. Len(t) = (1 .. Len(s)) \cup {Len(s) + 1}
  BY <1>1, <1>2
<1> HIDE DEF t
<1>4. {t[i][1] : i \in 1 .. Len(t)} = {s[i][1] : i \in 1 .. Len(s)} \cup {x[1]}
  BY <1>1, <1>3
<1>5. ToSet(t) = ToSet(s) \cup {x}
  BY <1>1, <1>2, <1>3 DEF ToSet
<1> QED BY <1>1, <1>4, <1>5 DEF t

Firsts(s) == {s[i][1] : i \in 1 .. Len(s)}

\* The tests of two sequences, one after the other.
LEMMA FirstsOfConcat ==
  ASSUME NEW S, NEW s \in Seq(S), NEW r \in Seq(S)
  PROVE  LET t == s \o r
         IN  /\ t \in Seq(S)
             /\ Firsts(t) = Firsts(s) \cup Firsts(r)
             /\ ToSet(t) = ToSet(s) \cup ToSet(r)
<1> DEFINE t == s \o r
<1>1. /\ t \in Seq(S) /\ Len(t) = Len(s) + Len(r)
      /\ \A i \in 1 .. Len(s) + Len(r) :
            t[i] = IF i <= Len(s) THEN s[i] ELSE r[i - Len(s)]
  BY ConcatProperties
<1>2. /\ Len(s) \in Nat /\ Len(r) \in Nat /\ DOMAIN s = 1 .. Len(s)
      /\ DOMAIN r = 1 .. Len(r) /\ DOMAIN t = 1 .. Len(t)
  BY <1>1
<1> HIDE DEF t
<1>3. \A i \in 1 .. Len(s) : i \in 1 .. Len(t) /\ t[i] = s[i]
  BY <1>1, <1>2
<1>4. ASSUME NEW i \in 1 .. Len(r)
      PROVE  Len(s) + i \in 1 .. Len(t) /\ t[Len(s) + i] = r[i]
  <2>1. /\ Len(s) + i \in 1 .. Len(s) + Len(r) /\ ~(Len(s) + i <= Len(s))
        /\ Len(s) + i - Len(s) = i
    BY <1>2
  <2> DEFINE j == Len(s) + i
  <2>2. t[j] = r[j - Len(s)]
    BY <1>1, <2>1
  <2> QED BY <1>1, <2>1, <2>2
<1>5. ASSUME NEW i \in 1 .. Len(t)
      PROVE  \/ i \in 1 .. Len(s) /\ t[i] = s[i]
             \/ \E j \in 1 .. Len(r) : t[i] = r[j]
  <2>1. i \in Nat /\ 1 <= i /\ i <= Len(s) + Len(r) /\ i \in 1 .. Len(s) + Len(r)
    BY <1>1, <1>2
  <2>2. CASE i <= Len(s)
    BY <1>1, <1>2, <2>1, <2>2
  <2>3. CASE ~(i <= Len(s))
    <3>1. i - Len(s) \in 1 .. Len(r)
      BY <1>2, <2>1, <2>3
    <3>2. t[i] = r[i - Len(s)]
      BY <1>1, <2>1, <2>3
    <3> QED BY <3>1, <3>2
  <2> QED BY <2>2, <2>3
<1>6. Firsts(t) = Firsts(s) \cup Firsts(r)
  <2>1. \A i \in 1 .. Len(t) : \/ \E j \in 1 .. Len(s) : t[i][1] = s[j][1]
                               \/ \E j \in 1 .. Len(r) : t[i][1] = r[j][1]
    BY <1>5
  <2>2. \A i \in 1 .. Len(s) : \E j \in 1 .. Len(t) : t[j][1] = s[i][1]
    BY <1>3
  <2>3. \A i \in 1 .. Len(r) : \E j \in 1 .. Len(t) : t[j][1] = r[i][1]
    BY <1>4
  <2> DEFINE A == {t[i][1] : i \in 1 .. Len(t)}
             B == {s[i][1] : i \in 1 .. Len(s)} \cup {r[i][1] : i \in 1 .. Len(r)}
  <2>4. A \subseteq B
    BY <2>1
  <2>5. /\ {s[i][1] : i \in 1 .. Len(s)} \subseteq A
        /\ {r[i][1] : i \in 1 .. Len(r)} \subseteq A
    <3>1. ASSUME NEW i \in 1 .. Len(s) PROVE s[i][1] \in A
      BY <2>2
    <3>2. ASSUME NEW i \in 1 .. Len(r) PROVE r[i][1] \in A
      BY <2>3
    <3> QED BY <3>1, <3>2
  <2> QED BY <2>4, <2>5 DEF Firsts
<1>7. ToSet(t) = ToSet(s) \cup ToSet(r)
  <2>1. \A i \in 1 .. Len(t) : \/ \E j \in 1 .. Len(s) : t[i] = s[j]
                               \/ \E j \in 1 .. Len(r) : t[i] = r[j]
    BY <1>5
  <2>2. \A i \in 1 .. Len(s) : \E j \in 1 .. Len(t) : t[j] = s[i]
    BY <1>3
  <2>3. \A i \in 1 .. Len(r) : \E j \in 1 .. Len(t) : t[j] = r[i]
    BY <1>4
  <2>4. /\ ToSet(t) = {t[i] : i \in 1 .. Len(t)}
        /\ ToSet(s) = {s[i] : i \in 1 .. Len(s)}
        /\ ToSet(r) = {r[i] : i \in 1 .. Len(r)}
    BY <1>2 DEF ToSet
  <2>5. ToSet(t) \subseteq ToSet(s) \cup ToSet(r)
    BY <2>1, <2>4
  <2>6. ToSet(s) \subseteq ToSet(t) /\ ToSet(r) \subseteq ToSet(t)
    BY <2>2, <2>3, <2>4
  <2> QED BY <2>5, <2>6
<1> QED BY <1>1, <1>6, <1>7 DEF t

\* A worker has reported finitely many tests.
LEMMA ReportedFinite ==
  ASSUME QueueTypes, NEW w \in Worker
  PROVE  IsFiniteSet(Reported(w))
<1> DEFINE s == results[w]
           d == discarded[w]
<1>1. Len(s) \in Nat /\ Len(d) \in Nat /\ DOMAIN d = 1 .. Len(d)
  BY DEF QueueTypes
<1>2. IsFiniteSet(1 .. Len(s)) /\ IsFiniteSet(1 .. Len(d))
  BY SMTT(40), <1>1, FS_Interval
<1>3. IsFiniteSet({s[i][1] : i \in 1 .. Len(s)})
  <2> DEFINE g == [i \in 1 .. Len(s) |-> s[i][1]]
  <2>1. g \in Surjection(1 .. Len(s), {s[i][1] : i \in 1 .. Len(s)})
    BY DEF Surjection
  <2> QED BY <1>2, <2>1, FS_Surjection
<1>4. IsFiniteSet(ToSet(d))
  <2>1. [i \in 1 .. Len(d) |-> d[i]] \in Surjection(1 .. Len(d), ToSet(d))
    BY <1>1 DEF Surjection, ToSet
  <2> QED BY <1>2, <2>1, FS_Surjection
<1> QED BY <1>3, <1>4, FS_Union DEF Reported

-----------------------------------------------------------------------------
(***************************************************************************)
(* The steps of the workers.                                               *)
(***************************************************************************)
\* A worker that runs has a unit and a test of it.
LEMMA Running ==
  ASSUME QueueTypes, Apart, NEW w \in Worker, pc[w] = "run"
  PROVE  LET u == units[unit[w]]
         IN  /\ u \in WorkUnit
             /\ unit[w] \in 1 .. Len(units)
             /\ pos[w] \in Nat /\ pos[w] \in u.first .. u.last
             /\ <<u.file, pos[w]>> \in File \X Nat
             /\ <<u.file, pos[w]>> \in TestsLeft(w)
             /\ TestsLeft(w) \subseteq UnitTests(u)
<1> DEFINE u == units[unit[w]]
<1>1. unit[w] \in 1 .. Len(units) /\ pos[w] \in u.first .. u.last
  BY DEF Apart
<1>2. u \in WorkUnit
  BY <1>1, ElementOfSeq DEF QueueTypes
<1>3. u.file \in File /\ u.first \in Nat /\ u.last \in Nat /\ pos[w] \in Nat
  BY <1>1, <1>2 DEF WorkUnit
<1>4. TestsLeft(w) = {u.file} \X (pos[w] .. u.last)
  BY DEF TestsLeft
<1> HIDE DEF u
<1>5. pos[w] \in pos[w] .. u.last /\ pos[w] .. u.last \subseteq u.first .. u.last
  BY <1>1, <1>3
<1> QED BY <1>1, <1>2, <1>3, <1>4, <1>5 DEF UnitTests, u

\* Running a test adds it to what its worker reports.
LEMMA ReportedRun ==
  ASSUME QueueTypes, Apart, NEW w \in Worker,
         NEW outcome \in {"passed", "failed", "unparsed"}, RunTest(w, outcome)
  PROVE  LET test == <<units[unit[w]].file, pos[w]>>
         IN  /\ \A v \in Worker : Reported(v)' = IF v = w THEN Reported(w) \cup {test}
                                                         ELSE Reported(v)
             /\ Len(results'[w]) + Len(discarded'[w])
                  = Len(results[w]) + Len(discarded[w]) + 1
             /\ \A v \in Worker : v # w => /\ results'[v] = results[v]
                                           /\ discarded'[v] = discarded[v]
             /\ results' \in [Worker -> Seq((File \X Nat) \X {"passed", "failed"})]
             /\ discarded' \in [Worker -> Seq(File \X Nat)]
<1> DEFINE test == <<units[unit[w]].file, pos[w]>>
<1>1. pc[w] = "run" /\ test \in File \X Nat
  BY Running DEF RunTest
<1>2. /\ results \in [Worker -> Seq((File \X Nat) \X {"passed", "failed"})]
      /\ discarded \in [Worker -> Seq(File \X Nat)]
      /\ Len(results[w]) \in Nat /\ Len(discarded[w]) \in Nat
  BY DEF QueueTypes
<1>3. CASE outcome = "unparsed"
  <2>1. /\ results' = results
        /\ discarded' = [discarded EXCEPT ![w] = Append(discarded[w], test)]
    BY <1>3 DEF RunTest
  <2> HIDE DEF test
  <2> DEFINE d == Append(discarded[w], test)
  <2>2. /\ d \in Seq(File \X Nat) /\ Len(d) = Len(discarded[w]) + 1
        /\ ToSet(d) = ToSet(discarded[w]) \cup {test}
    <3>1. discarded[w] \in Seq(File \X Nat)
      BY <1>2
    <3> QED BY <1>1, <3>1, FirstsOfAppend
  <2>3. /\ discarded' = [discarded EXCEPT ![w] = d]
        /\ discarded'[w] = d
        /\ \A v \in Worker : v # w => discarded'[v] = discarded[v]
    BY <1>2, <2>1
  <2> HIDE DEF d
  <2>4. discarded' \in [Worker -> Seq(File \X Nat)]
    BY <1>2, <2>2, <2>3
  <2>5. ASSUME NEW v \in Worker
        PROVE  Reported(v)' = IF v = w THEN Reported(w) \cup {test} ELSE Reported(v)
    <3>1. Reported(v)' = {results[v][i][1] : i \in 1 .. Len(results[v])}
                           \cup ToSet(discarded'[v])
      BY <2>1 DEF Reported
    <3>2. CASE v = w
      <4>1. Reported(w)' = {results[w][i][1] : i \in 1 .. Len(results[w])}
                             \cup (ToSet(discarded[w]) \cup {test})
        BY <2>2, <2>3, <3>1, <3>2
      <4> QED BY <3>2, <4>1 DEF Reported
    <3>3. CASE v # w
      <4>1. discarded'[v] = discarded[v]
        BY <2>3, <3>3
      <4> QED BY <3>1, <3>3, <4>1 DEF Reported
    <3> QED BY <3>2, <3>3
  <2>6. Len(results'[w]) + Len(discarded'[w])
          = Len(results[w]) + Len(discarded[w]) + 1
    BY <1>2, <2>1, <2>2, <2>3
  <2> QED BY <1>2, <2>1, <2>3, <2>4, <2>5, <2>6 DEF test
<1>4. CASE outcome # "unparsed"
  <2> DEFINE r == <<test, outcome>>
  <2>1. /\ discarded' = discarded
        /\ results' = [results EXCEPT ![w] = Append(results[w], r)]
    BY <1>4 DEF RunTest
  <2>2. r \in (File \X Nat) \X {"passed", "failed"} /\ r[1] = test
    BY <1>1, <1>4
  <2> HIDE DEF test, r
  <2>3. /\ results'[w] = Append(results[w], r)
        /\ results'[w] \in Seq((File \X Nat) \X {"passed", "failed"})
        /\ Len(results'[w]) = Len(results[w]) + 1
        /\ {results'[w][i][1] : i \in 1 .. Len(results'[w])}
             = {results[w][i][1] : i \in 1 .. Len(results[w])} \cup {test}
        /\ \A v \in Worker : v # w => results'[v] = results[v]
        /\ results' \in [Worker -> Seq((File \X Nat) \X {"passed", "failed"})]
    BY <1>2, <2>1, <2>2, FirstsOfAppend
  <2>4. ASSUME NEW v \in Worker
        PROVE  Reported(v)' = IF v = w THEN Reported(w) \cup {test} ELSE Reported(v)
    <3>1. Reported(v)' = {results'[v][i][1] : i \in 1 .. Len(results'[v])}
                           \cup ToSet(discarded[v])
      BY <2>1 DEF Reported
    <3>2. CASE v = w
      <4>1. Reported(w)' = ({results[w][i][1] : i \in 1 .. Len(results[w])} \cup {test})
                             \cup ToSet(discarded[w])
        BY <2>3, <3>1, <3>2
      <4> QED BY <3>2, <4>1 DEF Reported
    <3>3. CASE v # w
      <4>1. results'[v] = results[v]
        BY <2>3, <3>3
      <4> QED BY <3>1, <3>3, <4>1 DEF Reported
    <3> QED BY <3>2, <3>3
  <2> QED BY <1>2, <2>1, <2>3, <2>4 DEF test
<1> QED BY <1>3, <1>4

\* The workers, the selected tests and the units stay what they are.
LEMMA SameRun ==
  ASSUME UNCHANGED config
  PROVE  /\ WorkerCount' = WorkerCount /\ Worker' = Worker /\ Test' = Test
         /\ Partitioned => Partitioned'
<1>1. /\ WorkerCount' = WorkerCount /\ Worker' = Worker /\ Test' = Test
      /\ threads' = threads /\ units' = units
  BY DEF config, WorkerCount, Worker, Test
<1>2. Partitioned => Partitioned'
  BY <1>1 DEF Partitioned, UnitTests
<1> QED BY <1>1, <1>2

\* There is a worker, however few threads are asked for.
LEMMA WorkersCounted ==
  ASSUME QueueTypes
  PROVE  threads \in Nat /\ WorkerCount \in Nat /\ WorkerCount >= 1
<1>1. threads \in Nat
  BY QueueAssumption DEF QueueAssumption, QueueTypes
<1> QED BY <1>1 DEF WorkerCount, LargerOf

\* The invariant holds at the start.
LEMMA QueueInit ==
  ASSUME Init
  PROVE  QueueInv
<1>1. Partitioned /\ units \in Seq(WorkUnit)
  BY InitPartitions
<1>2. QueueTypes
  BY <1>1, QueueAssumption DEF Init, QueueTypes, QueueAssumption
<1>3. \A w \in Worker : /\ pc[w] = "unstarted" /\ results[w] = <<>>
                        /\ discarded[w] = <<>>
  BY DEF Init
<1>4. ASSUME NEW w \in Worker
      PROVE  Reported(w) = {} /\ TestsLeft(w) = {}
  BY <1>3 DEF Reported, TestsLeft, ToSet
<1>5. Apart
  BY <1>3 DEF Apart
<1>6. Fresh
  BY <1>4 DEF Fresh
<1>7. NoTestTwice
  <2>1. Cardinality({}) = 0
    BY FS_EmptySet
  <2>2. ASSUME NEW w \in Worker
        PROVE  Cardinality(Reported(w)) = Len(results[w]) + Len(discarded[w])
    <3>1. results[w] = <<>> /\ discarded[w] = <<>> /\ Reported(w) = {}
      BY <1>3, <1>4
    <3>2. Len(<<>>) = 0
      OBVIOUS
    <3> HIDE DEF Reported
    <3>3. Len(results[w]) = 0 /\ Len(discarded[w]) = 0
      BY <3>1, <3>2, Zenon
    <3>4. Cardinality(Reported(w)) = 0
      BY <2>1, <3>1, Zenon
    <3> QED BY <3>3, <3>4
  <2> QED BY <1>4, <2>2 DEF NoTestTwice
<1> QED BY <1>1, <1>2, <1>5, <1>6, <1>7 DEF QueueInv

\* A step that takes no unit and runs no test keeps it.
LEMMA NothingTaken ==
  ASSUME QueueInv, QueueTypes', UNCHANGED <<config, unit, pos, results, discarded>>,
         next <= next',
         \A v \in Worker : pc'[v] = "run" => pc[v] = "run"
  PROVE  QueueInv'
<1> USE DEF QueueInv
<1>1. UNCHANGED config /\ units' = units /\ unit' = unit /\ pos' = pos
  BY DEF config
<1>2. Worker' = Worker /\ Test' = Test /\ Partitioned'
  BY <1>1, SameRun
<1>3. next \in Nat /\ next' \in Nat /\ unit \in [Worker -> Nat]
      /\ Len(units) \in Nat
  BY DEF QueueTypes
<1>4. ASSUME NEW v \in Worker
      PROVE  Reported(v)' = Reported(v) /\ TestsLeft(v)' \subseteq TestsLeft(v)
  BY <1>1 DEF Reported, TestsLeft
<1>5. Apart'
  <2>1. \A v \in Worker : unit[v] <= next => unit[v] <= next'
    BY <1>3
  <2> QED BY <1>1, <1>2, <2>1 DEF Apart
<1>6. Fresh'
  <2> SUFFICES ASSUME NEW w \in Worker
               PROVE  /\ Reported(w)' \subseteq Test
                      /\ \A v \in Worker : Reported(w)' \cap TestsLeft(v)' = {}
                      /\ \A j \in 1 .. Len(units) :
                            j > next' => Reported(w)' \cap UnitTests(units[j]) = {}
    BY <1>1, <1>2 DEF Fresh, UnitTests
  <2>1. \A j \in 1 .. Len(units) : j > next' => j > next
    BY <1>3
  <2> QED BY <1>4, <2>1 DEF Fresh
<1>7. NoTestTwice'
  BY <1>2, <1>4 DEF NoTestTwice
<1> QED BY <1>2, <1>5, <1>6, <1>7

\* Taking a unit keeps it: no worker has this unit, and none of it is reported.
LEMMA QueueTake ==
  ASSUME QueueInv, NEW w \in Worker, Take(w)
  PROVE  QueueInv'
<1> USE DEF QueueInv
<1>1. /\ UNCHANGED config /\ units' = units
      /\ UNCHANGED <<results, discarded, task, total, dropped, exit>>
      /\ threads' = threads /\ selected' = selected
  BY DEF Take, config, main
<1>2. Worker' = Worker /\ Test' = Test /\ Partitioned'
  BY <1>1, SameRun
<1> DEFINE k == next + 1
<1>3. /\ next \in Nat /\ Len(units) \in Nat /\ k \in 1 .. Len(units)
      /\ next' = k
  BY DEF QueueTypes, Take, NextIndex
<1>4. units[k] \in WorkUnit
  BY <1>3, ElementOfSeq DEF QueueTypes
<1>5. /\ unit' = [unit EXCEPT ![w] = k] /\ pc' = [pc EXCEPT ![w] = "run"]
      /\ pos' = [pos EXCEPT ![w] = units[k].first]
  BY DEF Take
<1> HIDE DEF k
<1>6. QueueTypes'
  <2>1. k \in Nat /\ units[k].first \in Nat
    BY <1>3, <1>4 DEF WorkUnit
  <2>2. /\ unit' \in [Worker -> Nat] /\ pos' \in [Worker -> Nat]
        /\ pc' \in [Worker -> {"unstarted", "take", "run", "done", "failed"}]
    BY <1>5, <2>1 DEF QueueTypes
  <2> QED BY <1>1, <1>2, <1>3, <2>1, <2>2 DEF QueueTypes
<1>7. /\ pc'[w] = "run" /\ unit'[w] = k /\ pos'[w] = units[k].first
      /\ \A v \in Worker : v # w => /\ pc'[v] = pc[v] /\ unit'[v] = unit[v]
                                    /\ pos'[v] = pos[v]
  BY <1>5 DEF QueueTypes
<1>8. units[k].first \in units[k].first .. units[k].last
  BY <1>3, <1>4 DEF Partitioned, WorkUnit
<1>9. ASSUME NEW v \in Worker, v # w, pc[v] = "run"
      PROVE  unit[v] # k /\ unit[v] <= k
  BY <1>3, <1>9 DEF Apart, QueueTypes, k
<1>10. Apart'
  <2> SUFFICES ASSUME NEW x \in Worker, pc'[x] = "run"
               PROVE  /\ unit'[x] \in 1 .. Len(units)
                      /\ unit'[x] <= next'
                      /\ pos'[x] \in units[unit'[x]].first .. units[unit'[x]].last
                      /\ \A v \in Worker :
                            v # x /\ pc'[v] = "run" => unit'[v] # unit'[x]
    BY <1>1, <1>2 DEF Apart
  <2>1. CASE x = w
    <3>1. k <= k
      BY <1>3
    <3> QED BY <1>3, <1>7, <1>8, <1>9, <2>1, <3>1
  <2>2. CASE x # w
    <3>1. pc[x] = "run" /\ unit'[x] = unit[x] /\ pos'[x] = pos[x]
      BY <1>7, <2>2
    <3> QED BY <1>3, <1>7, <1>9, <2>2, <3>1 DEF Apart
  <2> QED BY <2>1, <2>2
<1>11. ASSUME NEW v \in Worker
       PROVE  /\ Reported(v)' = Reported(v)
              /\ TestsLeft(v)' = IF v = w THEN UnitTests(units[k]) ELSE TestsLeft(v)
  BY <1>1, <1>7 DEF Reported, TestsLeft, UnitTests
<1>12. Fresh'
  <2> SUFFICES ASSUME NEW x \in Worker
               PROVE  /\ Reported(x)' \subseteq Test
                      /\ \A v \in Worker : Reported(x)' \cap TestsLeft(v)' = {}
                      /\ \A j \in 1 .. Len(units) :
                            j > next' => Reported(x)' \cap UnitTests(units[j]) = {}
    BY <1>1, <1>2 DEF Fresh, UnitTests
  <2>1. k > next /\ \A j \in 1 .. Len(units) : j > k => j > next
    BY <1>3 DEF k
  <2>2. Reported(x) \cap UnitTests(units[k]) = {}
    BY <1>3, <2>1 DEF Fresh
  <2> QED BY <1>3, <1>11, <2>1, <2>2 DEF Fresh
<1>13. NoTestTwice'
  BY <1>1, <1>2, <1>11 DEF NoTestTwice
<1> QED BY <1>2, <1>6, <1>10, <1>12, <1>13

\* What a worker has left after a test.
LEMMA LeftAfterRun ==
  ASSUME QueueInv, NEW w \in Worker,
         NEW outcome \in {"passed", "failed", "unparsed"}, RunTest(w, outcome)
  PROVE  LET test == <<units[unit[w]].file, pos[w]>>
         IN  \A v \in Worker :
               TestsLeft(v)' = IF v = w THEN TestsLeft(w) \ {test} ELSE TestsLeft(v)
<1> USE DEF QueueInv
<1> DEFINE u == units[unit[w]]
           p == pos[w]
<1>1. /\ u \in WorkUnit /\ p \in Nat /\ p \in u.first .. u.last
      /\ pc[w] = "run"
  BY Running DEF RunTest
<1>2. /\ units' = units /\ unit' = unit
      /\ pos' = [pos EXCEPT ![w] = p + 1]
      /\ pc' = [pc EXCEPT ![w] = IF p = u.last THEN "take" ELSE "run"]
  BY DEF RunTest, config
<1>3. /\ pos'[w] = p + 1 /\ pc'[w] = IF p = u.last THEN "take" ELSE "run"
      /\ \A v \in Worker : v # w => pos'[v] = pos[v] /\ pc'[v] = pc[v]
  BY <1>2 DEF QueueTypes
<1>4. TestsLeft(w) = {u.file} \X (p .. u.last)
  BY <1>1 DEF TestsLeft
<1>5. TestsLeft(w)' = IF p = u.last THEN {} ELSE {u.file} \X (p + 1 .. u.last)
  BY SMTT(40), <1>2, <1>3 DEF TestsLeft
<1>6. \A v \in Worker : v # w => TestsLeft(v)' = TestsLeft(v)
  BY <1>2, <1>3 DEF TestsLeft
<1> HIDE DEF u, p
<1>7. TestsLeft(w)' = TestsLeft(w) \ {<<u.file, p>>}
  <2>1. u.last \in Nat
    BY <1>1 DEF WorkUnit
  <2>2. (p + 1 .. u.last) = (p .. u.last) \ {p}
    BY <1>1, <2>1
  <2>3. p = u.last => (p .. u.last) = {p}
    BY <1>1, <2>1
  <2> QED BY <1>4, <1>5, <2>2, <2>3
<1> QED BY <1>6, <1>7 DEF u, p

\* Running a test keeps it: the test is new to the worker and to all others.
LEMMA QueueRun ==
  ASSUME QueueInv, NEW w \in Worker,
         NEW outcome \in {"passed", "failed", "unparsed"}, RunTest(w, outcome)
  PROVE  QueueInv'
<1> USE DEF QueueInv
<1> DEFINE k == unit[w]
           u == units[k]
           test == <<u.file, pos[w]>>
<1>1. /\ UNCHANGED config /\ units' = units /\ threads' = threads
      /\ UNCHANGED <<next, unit, task, total, dropped, exit>>
  BY DEF RunTest, config, main
<1>2. Worker' = Worker /\ Test' = Test /\ Partitioned'
  BY <1>1, SameRun
<1>3. /\ u \in WorkUnit /\ k \in 1 .. Len(units) /\ pos[w] \in Nat
      /\ pos[w] \in u.first .. u.last /\ test \in File \X Nat
      /\ test \in TestsLeft(w) /\ TestsLeft(w) \subseteq UnitTests(u)
      /\ pc[w] = "run" /\ k <= next
  BY Running DEF RunTest, Apart
<1>4. /\ pos' = [pos EXCEPT ![w] = pos[w] + 1]
      /\ pc' = [pc EXCEPT ![w] = IF pos[w] = u.last THEN "take" ELSE "run"]
  BY DEF RunTest
<1>5. /\ \A v \in Worker : Reported(v)' = IF v = w THEN Reported(w) \cup {test}
                                                  ELSE Reported(v)
      /\ Len(results'[w]) + Len(discarded'[w])
           = Len(results[w]) + Len(discarded[w]) + 1
      /\ \A v \in Worker : v # w => /\ results'[v] = results[v]
                                    /\ discarded'[v] = discarded[v]
      /\ results' \in [Worker -> Seq((File \X Nat) \X {"passed", "failed"})]
      /\ discarded' \in [Worker -> Seq(File \X Nat)]
  BY ReportedRun
<1>6. \A v \in Worker :
        TestsLeft(v)' = IF v = w THEN TestsLeft(w) \ {test} ELSE TestsLeft(v)
  BY LeftAfterRun
<1> HIDE DEF test, u
<1>7. QueueTypes'
  <2>1. /\ pos' \in [Worker -> Nat]
        /\ pc' \in [Worker -> {"unstarted", "take", "run", "done", "failed"}]
    BY <1>3, <1>4 DEF QueueTypes
  <2> QED BY <1>1, <1>2, <1>5, <2>1 DEF QueueTypes, config
<1>8. /\ pos'[w] = pos[w] + 1 /\ pc'[w] = IF pos[w] = u.last THEN "take" ELSE "run"
      /\ \A v \in Worker : v # w => pos'[v] = pos[v] /\ pc'[v] = pc[v]
  BY <1>4 DEF QueueTypes
<1>9. Apart'
  <2> SUFFICES ASSUME NEW x \in Worker, pc'[x] = "run"
               PROVE  /\ unit[x] \in 1 .. Len(units)
                      /\ unit[x] <= next
                      /\ pos'[x] \in units[unit[x]].first .. units[unit[x]].last
                      /\ \A v \in Worker :
                            v # x /\ pc'[v] = "run" => unit[v] # unit[x]
    BY <1>1, <1>2 DEF Apart
  <2>1. \A v \in Worker : pc'[v] = "run" => pc[v] = "run"
    BY <1>3, <1>8
  <2>2. pos'[x] \in units[unit[x]].first .. units[unit[x]].last
    <3>1. CASE x = w
      <4>1. pos[w] # u.last /\ u.first \in Nat /\ u.last \in Nat
        BY <1>3, <1>8, <3>1 DEF WorkUnit
      <4>2. pos[w] + 1 \in u.first .. u.last
        BY <1>3, <4>1
      <4> QED BY <1>8, <3>1, <4>2 DEF u
    <3>2. CASE x # w
      BY <1>8, <2>1, <3>2 DEF Apart
    <3> QED BY <3>1, <3>2
  <2> QED BY <2>1, <2>2 DEF Apart
<1>10. \A v \in Worker : test \notin Reported(v)
  BY <1>3 DEF Fresh
<1>11. \A v \in Worker : test \notin TestsLeft(v)'
  <2> SUFFICES ASSUME NEW v \in Worker, v # w, test \in TestsLeft(v)
               PROVE  FALSE
    BY <1>6
  <2>1. pc[v] = "run"
    BY DEF TestsLeft
  <2>2. /\ unit[v] \in 1 .. Len(units) /\ unit[v] # k
        /\ TestsLeft(v) \subseteq UnitTests(units[unit[v]])
    BY <1>3, <2>1, Running DEF Apart
  <2>3. UnitTests(units[unit[v]]) \cap UnitTests(u) = {}
    BY <1>3, <2>2 DEF Partitioned, u
  <2> QED BY <1>3, <2>2, <2>3
<1>12. \A j \in 1 .. Len(units) : j > next => test \notin UnitTests(units[j])
  <2> SUFFICES ASSUME NEW j \in 1 .. Len(units), j > next
               PROVE  test \notin UnitTests(units[j])
    OBVIOUS
  <2>1. next \in Nat /\ Len(units) \in Nat
    BY DEF QueueTypes
  <2>2. j # k
    BY <1>3, <2>1
  <2>3. UnitTests(units[j]) \cap UnitTests(u) = {}
    BY <1>3, <2>2 DEF Partitioned, u
  <2> QED BY <1>3, <2>3
<1>13. Fresh'
  <2> SUFFICES ASSUME NEW x \in Worker
               PROVE  /\ Reported(x)' \subseteq Test
                      /\ \A v \in Worker : Reported(x)' \cap TestsLeft(v)' = {}
                      /\ \A j \in 1 .. Len(units) :
                            j > next => Reported(x)' \cap UnitTests(units[j]) = {}
    BY <1>1, <1>2 DEF Fresh, UnitTests
  <2>1. Reported(x)' \subseteq Reported(x) \cup {test}
    BY <1>5
  <2>2. test \in Test
    BY <1>3 DEF Partitioned, u
  <2>3. \A v \in Worker : TestsLeft(v)' \subseteq TestsLeft(v)
    BY <1>6
  <2>4. Reported(x)' \subseteq Test
    BY <2>1, <2>2 DEF Fresh
  <2>5. \A v \in Worker : Reported(x)' \cap TestsLeft(v)' = {}
    BY <1>11, <2>1, <2>3 DEF Fresh
  <2>6. \A j \in 1 .. Len(units) :
          j > next => Reported(x)' \cap UnitTests(units[j]) = {}
    BY <1>12, <2>1 DEF Fresh
  <2> QED BY <2>4, <2>5, <2>6
<1>14. NoTestTwice'
  <2>1. ASSUME NEW x \in Worker, NEW y \in Worker, x # y
        PROVE  Reported(x)' \cap Reported(y)' = {}
    <3>1. Reported(x) \cap Reported(y) = {}
      BY <2>1 DEF NoTestTwice
    <3> QED BY <1>5, <1>10, <2>1, <3>1
  <2>2. ASSUME NEW x \in Worker
        PROVE  Cardinality(Reported(x)') = Len(results'[x]) + Len(discarded'[x])
    <3>1. CASE x = w
      <4>1. IsFiniteSet(Reported(w))
        BY ReportedFinite
      <4>2. Cardinality(Reported(w) \cup {test}) = Cardinality(Reported(w)) + 1
        BY <1>10, <4>1, FS_AddElement
      <4>3. Cardinality(Reported(w)) = Len(results[w]) + Len(discarded[w])
        BY DEF NoTestTwice
      <4> QED BY <1>5, <3>1, <4>2, <4>3
    <3>2. CASE x # w
      BY <1>5, <3>2 DEF NoTestTwice
    <3> QED BY <3>1, <3>2
  <2> QED BY <1>2, <2>1, <2>2 DEF NoTestTwice
<1> QED BY <1>2, <1>7, <1>9, <1>13, <1>14

-----------------------------------------------------------------------------
(***************************************************************************)
(* The invariant.                                                          *)
(***************************************************************************)
\* The end of a worker keeps it.
LEMMA QueueLeave ==
  ASSUME QueueInv, NEW w \in Worker, Leave(w) \/ Fail(w)
  PROVE  QueueInv'
<1> USE DEF QueueInv
<1>1. /\ UNCHANGED <<config, unit, pos, results, discarded>>
      /\ UNCHANGED <<units, threads, selected, task, total, dropped, exit>>
      /\ next' \in {next, next + 1}
      /\ pc' \in {[pc EXCEPT ![w] = s] : s \in {"done", "failed"}}
  BY DEF Leave, Fail, NextIndex, config, main
<1>2. Worker' = Worker
  BY <1>1, SameRun
<1>3. next \in Nat
  BY DEF QueueTypes
<1>4. next' \in Nat /\ next <= next'
  BY <1>1, <1>3
<1>5. /\ pc' \in [Worker -> {"unstarted", "take", "run", "done", "failed"}]
      /\ \A v \in Worker : pc'[v] = "run" => pc[v] = "run"
  BY <1>1 DEF QueueTypes
<1>6. QueueTypes'
  BY <1>1, <1>2, <1>4, <1>5 DEF QueueTypes
<1> QED BY <1>1, <1>4, <1>5, <1>6, NothingTaken

\* The steps of main keep it.
LEMMA QueueMain ==
  ASSUME QueueInv, Main
  PROVE  QueueInv'
<1> USE DEF QueueInv
<1>1. next \in Nat /\ next <= next
  BY DEF QueueTypes
<1>2. CASE StartWorker
  <2>1. /\ UNCHANGED <<config, unit, pos, results, discarded>>
        /\ UNCHANGED <<units, threads, selected, next, total, dropped>>
        /\ pc' = [pc EXCEPT ![task] = "take"]
        /\ task' \in {1, task + 1}
        /\ exit' \in {exit, "collecting"}
    BY <1>2 DEF StartWorker, config
  <2>2. Worker' = Worker
    BY <2>1, SameRun
  <2>3. /\ pc' \in [Worker -> {"unstarted", "take", "run", "done", "failed"}]
        /\ \A v \in Worker : pc'[v] = "run" => pc[v] = "run"
    BY <2>1 DEF QueueTypes
  <2>4. /\ task' \in Nat \ {0}
        /\ exit' \in {"starting", "collecting", "zero", "one", "exception"}
    <3>1. task \in Nat
      BY DEF QueueTypes
    <3> QED BY <2>1, <3>1 DEF QueueTypes
  <2>5. /\ unit' = unit /\ pos' = pos /\ results' = results /\ total' = total
        /\ discarded' = discarded /\ next' = next /\ dropped' = dropped
    BY <2>1
  <2>6. QueueTypes'
    BY <2>1, <2>2, <2>3, <2>4, <2>5 DEF QueueTypes
  <2> QED BY <1>1, <2>1, <2>3, <2>6, NothingTaken
<1>3. CASE Collect
  <2>1. /\ UNCHANGED <<config, next, pc, unit, pos, results, discarded>>
        /\ UNCHANGED <<units, threads, selected>>
        /\ exit' \in {exit, "exception"}
        /\ \/ UNCHANGED <<task, total, dropped>>
           \/ /\ task <= WorkerCount
              /\ total' = total \o results[task]
              /\ dropped' = dropped \o discarded[task]
              /\ task' = task + 1
    BY <1>3 DEF Collect, config, workers
  <2>2. Worker' = Worker
    BY <2>1, SameRun
  <2>3. /\ total' \in Seq((File \X Nat) \X {"passed", "failed"})
        /\ dropped' \in Seq(File \X Nat)
        /\ task' \in Nat \ {0}
    <3>1. CASE UNCHANGED <<task, total, dropped>>
      BY <3>1 DEF QueueTypes
    <3>2. CASE /\ task <= WorkerCount
               /\ total' = total \o results[task]
               /\ dropped' = dropped \o discarded[task]
               /\ task' = task + 1
      <4>1. task \in Worker
        BY <3>2, WorkersCounted DEF Worker, QueueTypes
      <4>2. /\ results[task] \in Seq((File \X Nat) \X {"passed", "failed"})
            /\ discarded[task] \in Seq(File \X Nat)
            /\ total \in Seq((File \X Nat) \X {"passed", "failed"})
            /\ dropped \in Seq(File \X Nat) /\ task \in Nat
        BY <4>1 DEF QueueTypes
      <4> HIDE DEF QueueInv
      <4> QED BY <3>2, <4>2, ConcatProperties
    <3> QED BY <2>1, <3>1, <3>2
  <2>4. exit' \in {"starting", "collecting", "zero", "one", "exception"}
    BY <2>1 DEF QueueTypes
  <2>5. /\ pc' = pc /\ unit' = unit /\ pos' = pos /\ results' = results
        /\ discarded' = discarded /\ next' = next
    BY <2>1
  <2>6. QueueTypes'
    BY <2>1, <2>2, <2>3, <2>4, <2>5 DEF QueueTypes
  <2> QED BY <1>1, <2>1, <2>6, NothingTaken
<1>4. CASE Report
  <2>1. /\ UNCHANGED <<config, next, pc, unit, pos, results, discarded>>
        /\ UNCHANGED <<units, threads, selected, task, total, dropped>>
        /\ exit' \in {"one", "zero"}
    BY <1>4 DEF Report, config, workers
  <2>2. Worker' = Worker
    BY <2>1, SameRun
  <2>3. QueueTypes'
    BY <2>1, <2>2 DEF QueueTypes
  <2> QED BY <1>1, <2>1, <2>3, NothingTaken
<1> QED BY <1>2, <1>3, <1>4 DEF Main

\* So does every step.
LEMMA QueueNext ==
  ASSUME QueueInv, [Next]_vars
  PROVE  QueueInv'
<1>1. CASE UNCHANGED vars
  <2>1. /\ UNCHANGED <<threads, selected, units, next, pc, unit, pos, results>>
        /\ UNCHANGED <<discarded, task, total, dropped, exit>>
    BY <1>1 DEF vars
  <2>2. UNCHANGED config
    BY <2>1 DEF config
  <2>3. Worker' = Worker /\ next \in Nat /\ QueueTypes'
    BY <2>1, <2>2, SameRun DEF QueueTypes, QueueInv
  <2> QED BY <2>1, <2>2, <2>3, NothingTaken
<1>2. CASE \E w \in Worker : Work(w)
  <2>1. PICK w \in Worker : Work(w)
    BY <1>2
  <2> QED BY <2>1, QueueTake, QueueLeave, QueueRun DEF Work
<1>3. CASE Main
  BY <1>3, QueueMain
<1> QED BY <1>1, <1>2, <1>3 DEF Next

\* No test is run twice: the index that the workers share gives every unit to
\* one of them, and the units of a file have no test in common, for every number
\* of threads and files (runWorkUnits, workUnits).
THEOREM TestsRunOnce == Spec => []NoTestTwice
<1>1. Init => QueueInv
  BY QueueInit
<1>2. QueueInv /\ [Next]_vars => QueueInv'
  BY QueueNext
<1>3. QueueInv => NoTestTwice
  BY DEF QueueInv
<1> QED BY <1>1, <1>2, <1>3, PTL DEF Spec

-----------------------------------------------------------------------------
(***************************************************************************)
(* The report.                                                             *)
(***************************************************************************)
\* Every unit that was taken is reported or left to a worker: at the start.
LEMMA ReportInit ==
  ASSUME Init
  PROVE  ReportInv
<1>1. QueueTypes /\ Len(units) \in Nat /\ next = 0
  BY QueueInit DEF QueueInv, QueueTypes, Init
<1>2. WorkerCount \in Nat /\ WorkerCount >= 1
  BY <1>1, WorkersCounted
<1>3. NothingLost
  <2>1. \A j \in 1 .. Len(units) : ~(j <= next)
    BY <1>1
  <2> QED BY <2>1 DEF NothingLost
<1>4. Collected
  <2>1. /\ total = <<>> /\ dropped = <<>> /\ task = 1 /\ exit = "starting"
        /\ \A w \in Worker : pc[w] = "unstarted"
    BY DEF Init
  <2> QED BY <1>2, <2>1 DEF Collected
<1> QED BY <1>3, <1>4 DEF ReportInv

\* A step of a worker: nothing that was taken is lost.
LEMMA NothingLostWork ==
  ASSUME QueueInv, NothingLost, NEW w \in Worker, Work(w)
  PROVE  NothingLost'
<1> USE DEF QueueInv
<1>1. UNCHANGED config /\ units' = units
  BY DEF Work, Take, Leave, RunTest, Fail, config
<1>2. Worker' = Worker /\ next \in Nat /\ Len(units) \in Nat
  BY <1>1, SameRun DEF QueueTypes
<1>3. /\ pc[w] # "failed"
      /\ \A v \in Worker : v # w => pc'[v] = pc[v]
  BY DEF Work, Take, Leave, RunTest, Fail, QueueTypes
<1>4. CASE \E v \in Worker : pc[v] = "failed"
  BY <1>2, <1>3, <1>4 DEF NothingLost
<1>5. CASE \A j \in 1 .. Len(units) : j <= next =>
             \A t \in UnitTests(units[j]) :
                 \E v \in Worker : t \in Reported(v) \cup TestsLeft(v)
  <2>1. CASE Fail(w)
    <3>1. pc'[w] = "failed"
      BY <2>1 DEF Fail, QueueTypes
    <3> QED BY <1>2, <3>1 DEF NothingLost
  <2>2. ASSUME \A j \in 1 .. Len(units) : j <= next' =>
                 \A t \in UnitTests(units[j]) :
                     \E v \in Worker : t \in Reported(v)' \cup TestsLeft(v)'
        PROVE  NothingLost'
    BY <1>1, <1>2, <2>2 DEF NothingLost, UnitTests
  <2>3. CASE Take(w)
    <3> DEFINE k == next + 1
    <3>1. /\ next' = k /\ results' = results /\ discarded' = discarded
          /\ unit' = [unit EXCEPT ![w] = k] /\ pc' = [pc EXCEPT ![w] = "run"]
          /\ pos' = [pos EXCEPT ![w] = units[k].first] /\ pc[w] = "take"
      BY <2>3 DEF Take, NextIndex
    <3> HIDE DEF k
    <3>2. /\ pc'[w] = "run" /\ unit'[w] = k /\ pos'[w] = units[k].first
          /\ \A v \in Worker : v # w => /\ pc'[v] = pc[v] /\ unit'[v] = unit[v]
                                        /\ pos'[v] = pos[v]
      BY <3>1 DEF QueueTypes
    <3>3. /\ TestsLeft(w)' = UnitTests(units[k]) /\ TestsLeft(w) = {}
          /\ \A v \in Worker : /\ Reported(v)' = Reported(v)
                               /\ v # w => TestsLeft(v)' = TestsLeft(v)
      BY <1>1, <3>1, <3>2 DEF Reported, TestsLeft, UnitTests
    <3>4. ASSUME NEW j \in 1 .. Len(units), j <= next', NEW t \in UnitTests(units[j])
          PROVE  \E v \in Worker : t \in Reported(v)' \cup TestsLeft(v)'
      <4>1. j = k \/ j <= next
        BY <1>2, <3>1, <3>4 DEF k
      <4>2. CASE j = k
        BY <3>3, <3>4, <4>2
      <4>3. CASE j <= next
        <5>1. PICK v \in Worker : t \in Reported(v) \cup TestsLeft(v)
          BY <1>5, <3>4, <4>3
        <5> QED BY <3>3, <5>1
      <4> QED BY <4>1, <4>2, <4>3
    <3> QED BY <2>2, <3>4
  <2>4. CASE Leave(w)
    <3>1. /\ pc[w] = "take" /\ next >= Len(units) /\ pc' = [pc EXCEPT ![w] = "done"]
          /\ unit' = unit /\ pos' = pos /\ results' = results /\ discarded' = discarded
      BY <2>4 DEF Leave
    <3>2. \A v \in Worker : /\ Reported(v)' = Reported(v)
                            /\ TestsLeft(v)' = TestsLeft(v)
      <4>1. pc'[w] = "done" /\ \A v \in Worker : v # w => pc'[v] = pc[v]
        BY <3>1 DEF QueueTypes
      <4> QED BY <1>1, <3>1, <4>1 DEF Reported, TestsLeft
    <3>3. \A j \in 1 .. Len(units) : j <= next
      BY <1>2, <3>1
    <3> QED BY <1>5, <2>2, <3>2, <3>3
  <2>5. ASSUME NEW outcome \in {"passed", "failed", "unparsed"}, RunTest(w, outcome)
        PROVE  NothingLost'
    <3> DEFINE test == <<units[unit[w]].file, pos[w]>>
    <3>1. next' = next
      BY <2>5 DEF RunTest
    <3>2. \A v \in Worker : Reported(v)' = IF v = w THEN Reported(w) \cup {test}
                                                    ELSE Reported(v)
      BY <2>5, ReportedRun
    <3>3. \A v \in Worker :
            TestsLeft(v)' = IF v = w THEN TestsLeft(w) \ {test} ELSE TestsLeft(v)
      BY <2>5, LeftAfterRun
    <3> HIDE DEF test
    <3>4. \A v \in Worker :
            Reported(v) \cup TestsLeft(v) \subseteq Reported(v)' \cup TestsLeft(v)'
      BY <3>2, <3>3
    <3> QED BY <1>5, <2>2, <3>1, <3>4
  <2> QED BY <2>1, <2>3, <2>4, <2>5 DEF Work
<1> QED BY <1>4, <1>5 DEF NothingLost

\* A step of a worker leaves main with what it has collected.
LEMMA CollectedWork ==
  ASSUME QueueInv, Collected, NEW w \in Worker, Work(w)
  PROVE  Collected'
<1> USE DEF QueueInv
<1>1. /\ UNCHANGED config /\ units' = units
      /\ UNCHANGED <<task, total, dropped, exit>>
  BY DEF Work, Take, Leave, RunTest, Fail, config, main
<1>2. /\ Worker' = Worker /\ WorkerCount' = WorkerCount /\ next \in Nat
      /\ Len(units) \in Nat /\ task \in Nat
  BY <1>1, SameRun DEF QueueTypes
<1>3. /\ pc[w] \in {"take", "run"}
      /\ \A v \in Worker : v # w => /\ pc'[v] = pc[v]
                                    /\ results'[v] = results[v]
                                    /\ discarded'[v] = discarded[v]
  BY DEF Work, Take, Leave, RunTest, Fail, QueueTypes
<1>4. \A v \in Worker : v # w => Reported(v)' = Reported(v)
  BY <1>3 DEF Reported
<1>5. /\ exit = "starting" => ~(w >= task)
      /\ exit \in {"collecting", "zero", "one"} => ~(w < task)
  BY <1>3 DEF Collected
<1>6. exit = "starting" => /\ total = <<>> /\ dropped = <<>> /\ task <= WorkerCount
                           /\ \A v \in Worker : v >= task => pc'[v] = "unstarted"
  BY <1>3, <1>5 DEF Collected
<1>7. exit \in {"collecting", "zero", "one"} =>
        /\ \A v \in Worker : v < task => pc'[v] = "done"
        /\ TestsCollected' = ReportedBefore'
  <2> SUFFICES ASSUME exit \in {"collecting", "zero", "one"}
               PROVE  /\ \A v \in Worker : v < task => pc'[v] = "done"
                      /\ TestsCollected' = ReportedBefore'
    OBVIOUS
  <2>1. \A v \in Worker : v < task => v # w
    BY <1>5
  <2>2. \A v \in Worker : v < task => pc'[v] = "done"
    BY <1>3, <2>1 DEF Collected
  <2>3. TestsCollected' = TestsCollected
    BY <1>1 DEF TestsCollected
  <2>4. \A x \in {v \in Worker : v < task} : Reported(x)' = Reported(x)
    BY <1>4, <2>1
  <2>5. ReportedBefore' = ReportedBefore
    BY <1>1, <1>2, <2>4 DEF ReportedBefore
  <2> QED BY <2>2, <2>3, <2>5 DEF Collected
<1>8. \A v \in Worker : pc'[v] = "done" => next' >= Len(units)
  <2>1. CASE Take(w)
    <3>1. next < Len(units) /\ pc' = [pc EXCEPT ![w] = "run"]
      BY <2>1 DEF Take
    <3>2. \A v \in Worker : pc'[v] # "done"
      <4>1. \A v \in Worker : pc[v] # "done"
        BY <1>2, <3>1 DEF Collected
      <4> QED BY <3>1, <4>1 DEF QueueTypes
    <3> QED BY <3>2
  <2>2. CASE Leave(w)
    <3>1. next >= Len(units) /\ next' = next + 1
      BY <2>2 DEF Leave, NextIndex
    <3> QED BY <1>2, <3>1
  <2>3. CASE Fail(w) \/ \E o \in {"passed", "failed", "unparsed"} : RunTest(w, o)
    <3>1. next' = next /\ pc'[w] # "done"
      BY <2>3 DEF Fail, RunTest, QueueTypes
    <3> QED BY <1>3, <3>1 DEF Collected
  <2> QED BY <2>1, <2>2, <2>3 DEF Work
<1>9. exit \in {"zero", "one"} => task > WorkerCount
  BY DEF Collected
<1> QED BY <1>1, <1>2, <1>6, <1>7, <1>8, <1>9 DEF Collected

\* Starting a worker: it has nothing yet.
LEMMA ReportStart ==
  ASSUME QueueInv, ReportInv, StartWorker
  PROVE  ReportInv'
<1> USE DEF QueueInv, ReportInv
<1>1. /\ UNCHANGED config /\ units' = units
      /\ UNCHANGED <<next, unit, pos, results, discarded, total, dropped>>
      /\ pc' = [pc EXCEPT ![task] = "take"] /\ exit = "starting"
  BY DEF StartWorker, config
<1>2. /\ Worker' = Worker /\ WorkerCount' = WorkerCount /\ task \in Nat \ {0}
      /\ WorkerCount \in Nat /\ WorkerCount >= 1
  BY <1>1, SameRun, WorkersCounted DEF QueueTypes
<1>3. /\ total = <<>> /\ dropped = <<>> /\ task <= WorkerCount
      /\ \A v \in Worker : v >= task => pc[v] = "unstarted"
  BY <1>1 DEF Collected
<1>4. task \in Worker
  BY <1>2, <1>3 DEF Worker
<1>5. /\ pc[task] = "unstarted" /\ pc'[task] = "take"
      /\ \A v \in Worker : v # task => pc'[v] = pc[v]
  BY <1>1, <1>2, <1>3, <1>4 DEF QueueTypes
<1>6. \A v \in Worker : Reported(v)' = Reported(v) /\ TestsLeft(v)' = TestsLeft(v)
  BY <1>1, <1>5 DEF Reported, TestsLeft
<1>7. NothingLost'
  <2>1. CASE \E v \in Worker : pc[v] = "failed"
    BY <1>2, <1>5, <2>1 DEF NothingLost
  <2>2. CASE \A j \in 1 .. Len(units) : j <= next =>
               \A t \in UnitTests(units[j]) :
                   \E v \in Worker : t \in Reported(v) \cup TestsLeft(v)
    BY <1>1, <1>2, <1>6, <2>2 DEF NothingLost, UnitTests
  <2> QED BY <2>1, <2>2 DEF NothingLost
<1>8. \A v \in Worker : pc'[v] = "done" => next >= Len(units)
  BY <1>5 DEF Collected
<1>9. CASE task = WorkerCount
  <2>1. task' = 1 /\ exit' = "collecting"
    BY <1>9 DEF StartWorker
  <2>2. \A v \in Worker : ~(v < 1)
    BY DEF Worker
  <2>3. TestsCollected' = {}
    <3>1. Len(total) = 0 /\ DOMAIN dropped = {}
      BY <1>3
    <3> QED BY <1>1, <3>1 DEF TestsCollected, ToSet
  <2>4. ReportedBefore' = {}
    BY <1>2, <2>1, <2>2 DEF ReportedBefore
  <2>5. Collected'
    BY <1>1, <1>2, <1>8, <2>1, <2>2, <2>3, <2>4 DEF Collected
  <2> QED BY <1>7, <2>5
<1>10. CASE task # WorkerCount
  <2>1. task' = task + 1 /\ exit' = "starting"
    BY <1>1, <1>10 DEF StartWorker
  <2>2. task' <= WorkerCount
    BY <1>2, <1>3, <1>10, <2>1
  <2>3. \A v \in Worker : v >= task' => v >= task /\ v # task
    BY <1>2, <2>1 DEF Worker
  <2>4. \A v \in Worker : v >= task' => pc'[v] = "unstarted"
    BY <1>3, <1>5, <2>3
  <2>5. Collected'
    BY <1>1, <1>2, <1>3, <1>8, <2>1, <2>2, <2>4 DEF Collected
  <2> QED BY <1>7, <2>5
<1> QED BY <1>9, <1>10

\* Main adds what the next worker reports, or ends with its exception.
LEMMA ReportCollect ==
  ASSUME QueueInv, ReportInv, Collect
  PROVE  ReportInv'
<1> USE DEF QueueInv, ReportInv
<1>1. /\ UNCHANGED config /\ units' = units /\ UNCHANGED workers
      /\ UNCHANGED <<next, pc, unit, pos, results, discarded>>
      /\ exit = "collecting" /\ task <= WorkerCount
  BY DEF Collect, config, workers
<1>2. /\ Worker' = Worker /\ WorkerCount' = WorkerCount /\ task \in Nat \ {0}
      /\ WorkerCount \in Nat
  BY <1>1, SameRun, WorkersCounted DEF QueueTypes
<1>3. task \in Worker
  BY <1>1, <1>2 DEF Worker
<1>4. \A v \in Worker : Reported(v)' = Reported(v) /\ TestsLeft(v)' = TestsLeft(v)
  BY <1>1 DEF Reported, TestsLeft
<1>5. NothingLost'
  BY <1>1, <1>2, <1>4 DEF NothingLost, UnitTests
<1>6. \A v \in Worker : pc[v] = "done" => next >= Len(units)
  BY DEF Collected
<1>7. CASE pc[task] = "failed"
  <2>1. exit' = "exception"
    BY <1>7 DEF Collect
  <2>2. Collected'
    BY <1>1, <1>2, <1>6, <2>1 DEF Collected
  <2> QED BY <1>5, <2>2
<1>8. CASE pc[task] = "done"
  <2>1. /\ total' = total \o results[task] /\ dropped' = dropped \o discarded[task]
        /\ task' = task + 1 /\ exit' = "collecting"
    BY <1>1, <1>8 DEF Collect
  <2>2. \A v \in Worker : v < task' <=> v < task \/ v = task
    BY <1>2, <2>1 DEF Worker
  <2>3. \A v \in Worker : v < task' => pc'[v] = "done"
    BY <1>1, <1>8, <2>2 DEF Collected
  <2>4. TestsCollected' = TestsCollected \cup Reported(task)
    <3> DEFINE R == (File \X Nat) \X {"passed", "failed"}
               D == File \X Nat
    <3>1. /\ total \in Seq(R) /\ results[task] \in Seq(R)
          /\ dropped \in Seq(D) /\ discarded[task] \in Seq(D)
      BY <1>3 DEF QueueTypes
    <3> HIDE DEF R, D, QueueInv, ReportInv
    <3>2. {total'[i][1] : i \in 1 .. Len(total')}
            = {total[i][1] : i \in 1 .. Len(total)}
                \cup {results[task][i][1] : i \in 1 .. Len(results[task])}
      <4>1. Firsts(total \o results[task]) = Firsts(total) \cup Firsts(results[task])
        BY <3>1, FirstsOfConcat
      <4> QED BY <2>1, <4>1 DEF Firsts
    <3>3. ToSet(dropped') = ToSet(dropped) \cup ToSet(discarded[task])
      BY <2>1, <3>1, FirstsOfConcat
    <3> QED BY <3>2, <3>3 DEF TestsCollected, Reported
  <2>5. ReportedBefore' = ReportedBefore \cup Reported(task)
    <3>1. {v \in Worker : v < task}' = {v \in Worker : v < task} \cup {task}
      BY <1>2, <1>3, <2>2
    <3> QED BY <1>2, <1>3, <1>4, <2>2, <3>1 DEF ReportedBefore
  <2>6. TestsCollected = ReportedBefore
    BY <1>1 DEF Collected
  <2>7. Collected'
    BY <1>1, <1>2, <1>6, <2>1, <2>3, <2>4, <2>5, <2>6 DEF Collected
  <2> QED BY <1>5, <2>7
<1> QED BY <1>7, <1>8 DEF Collect

\* A report of main, and a step of something else.
LEMMA ReportReport ==
  ASSUME QueueInv, ReportInv, Report \/ UNCHANGED vars
  PROVE  ReportInv'
<1> USE DEF QueueInv, ReportInv
<1>1. /\ UNCHANGED <<config, next, pc, unit, pos, results, discarded>>
      /\ UNCHANGED <<units, threads, selected, task, total, dropped>>
      /\ \/ exit' = exit
         \/ exit = "collecting" /\ task > WorkerCount /\ exit' \in {"one", "zero"}
  BY DEF Report, vars, config, workers
<1>2. Worker' = Worker /\ WorkerCount' = WorkerCount
  BY <1>1, SameRun
<1>3. \A v \in Worker : Reported(v)' = Reported(v) /\ TestsLeft(v)' = TestsLeft(v)
  BY <1>1 DEF Reported, TestsLeft
<1>4. NothingLost'
  BY <1>1, <1>2, <1>3 DEF NothingLost, UnitTests
<1>5. TestsCollected' = TestsCollected /\ ReportedBefore' = ReportedBefore
  BY <1>1, <1>2, <1>3 DEF TestsCollected, ReportedBefore
<1>6. Collected'
  BY <1>1, <1>2, <1>5 DEF Collected
<1> QED BY <1>4, <1>6

\* So every step keeps what main relies on.
LEMMA ReportNext ==
  ASSUME QueueInv, ReportInv, [Next]_vars
  PROVE  ReportInv'
<1>1. CASE \E w \in Worker : Work(w)
  BY <1>1, NothingLostWork, CollectedWork DEF ReportInv
<1>2. CASE Main
  BY <1>2, ReportStart, ReportCollect, ReportReport DEF Main
<1>3. CASE UNCHANGED vars
  BY <1>3, ReportReport
<1> QED BY <1>1, <1>2, <1>3 DEF Next

\* When main reports, all workers are done, the queue is empty, and the tests
\* that main has are those of all units.
LEMMA ReportIsComplete ==
  ASSUME QueueInv, ReportInv, 0 \notin ThreadCounts
  PROVE  ReportComplete
<1> SUFFICES ASSUME exit \in {"zero", "one"}
             PROVE  Test = TestsCollected /\ \A w \in Worker : pc[w] = "done"
  BY DEF ReportComplete, AllAccounted
<1> USE DEF QueueInv, ReportInv
<1>1. /\ threads # 0 /\ WorkerCount \in Nat /\ WorkerCount >= 1
      /\ task \in Nat /\ task > WorkerCount /\ next \in Nat /\ Len(units) \in Nat
  BY WorkersCounted DEF QueueTypes, Collected
<1>2. 1 \in Worker /\ \A w \in Worker : w < task
  BY <1>1 DEF Worker
<1>3. \A w \in Worker : pc[w] = "done" /\ TestsLeft(w) = {}
  BY <1>2 DEF Collected, TestsLeft
<1>4. \A j \in 1 .. Len(units) : j <= next
  <2>1. next >= Len(units)
    BY <1>2, <1>3 DEF Collected
  <2> QED BY <1>1, <2>1
<1>5. TestsCollected = UNION {Reported(w) : w \in Worker}
  <2>1. {v \in Worker : v < task} = Worker
    BY <1>2
  <2> QED BY <2>1 DEF Collected, ReportedBefore
<1>6. ASSUME NEW t \in Test
      PROVE  \E w \in Worker : t \in Reported(w)
  <2>1. PICK j \in 1 .. Len(units) : t \in UnitTests(units[j])
    BY <1>1 DEF Partitioned
  <2> QED BY <1>3, <1>4, <2>1 DEF NothingLost
<1>7. UNION {Reported(w) : w \in Worker} \subseteq Test
  BY DEF Fresh
<1> QED BY <1>3, <1>5, <1>6, <1>7

\* What main reports is complete: it has waited for every worker, none of them has
\* thrown, and every selected test is among the results or the discarded ones
\* (main, runWorkUnits).  With an argument of 0, which cuts a large file in no
\* pieces, this does not hold.
THEOREM ReportsAreComplete ==
  ASSUME 0 \notin ThreadCounts
  PROVE  Spec => []ReportComplete
<1>1. Init => QueueInv /\ ReportInv
  BY QueueInit, ReportInit
<1>2. (QueueInv /\ ReportInv) /\ [Next]_vars => (QueueInv /\ ReportInv)'
  BY QueueNext, ReportNext
<1>3. QueueInv /\ ReportInv => ReportComplete
  BY ReportIsComplete
<1> QED BY <1>1, <1>2, <1>3, PTL DEF Spec
=============================================================================
