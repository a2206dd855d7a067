--------------------------- MODULE MCComputations ---------------------------
(***************************************************************************)
(* The scripts and the pure functions, each on small inputs, one           *)
(* computation after another.  Widths, primes and counts are small ones    *)
(* with the same shape as those of the source.                             *)
(***************************************************************************)
EXTENDS Words, BlobGasPrice, Trie, ModExp, MCFieldInverse, AltBn128, Blake2, Kzg

\* Words of two bytes of two bits.
WordOperands == {-1, 0, 1, 2, 3, 8, 15, 16}

Times(n, byte) == [k \in 1 .. n |-> byte]

\* Items on both sides of each limit of RLP: 127, 55 bytes and 255 bytes.
FlatItems ==
    {BytesItem(b) : b \in {<<>>, <<0>>, <<127>>, <<128>>, Times(55, 7),
                           Times(56, 7), Times(300, 7)}}
    \cup {UintItem(n) : n \in {0, 1, 128, 256}}
    \cup {BoolItem(TRUE), BoolItem(FALSE), DataclassItem(<<UintItem(1)>>), OtherItem}
RlpItems ==
    FlatItems
    \cup {ListItem(<<>>)}
    \cup {ListItem(<<x>>) : x \in FlatItems}
    \cup {ListItem(<<x, y>>) : x, y \in FlatItems}
    \cup {ListItem(<<ListItem(<<x>>), y, ListItem(<<>>)>>) : x, y \in FlatItems}
    \cup {ListItem(<<BytesItem(Times(n, 9))>>) : n \in 53 .. 56}

\* Keys that differ early, late or not at all up to the end of one; a value
\* that makes its node too long to stand in its parent.
Keys6   == {<<18>>, <<19>>, <<34>>, <<18, 52>>, <<18, 53>>, <<128>>}
Values3 == {<<>>, <<5>>, Times(30, 6)}

-----------------------------------------------------------------------------
(***************************************************************************)
(* The smallest Barreto-Naehrig curve, of u = 1: y^2 = x^3 + 5 over F_103  *)
(* has 97 points, its sextic twist by 2 + i has 97 * 109.  The Miller loop *)
(* would run for 6u + 2 = 8; 8 + 97 leads to the same point of order 97    *)
(* and has more bits set.                                                  *)
(***************************************************************************)
FinalBits == <<0, 0, 0, 0, 0, 1, 0, 1, 1, 1, 0, 1, 1, 0, 1, 0, 0, 1, 0, 0, 1, 0, 0,
               0, 1, 0, 1, 1, 0, 1, 1, 1, 0, 1, 0, 0, 1, 0, 0, 1, 0, 1, 1, 1, 0, 1,
               1, 1, 1, 1, 0, 0, 1, 0, 0, 1, 1, 1, 1, 1, 0, 0, 1, 1, 0, 0, 1, 1, 1,
               0, 0, 0, 1, 1>>
SmallG1 == <<2, 42>>
SmallG2 == << <<15, 84>>, <<98, 92>> >>
OutsideG2 == << <<3, 6>>, <<49, 11>> >>   \* on the curve, of the order 97 * 109
NoPoints  == {<<103, 0>>, <<0, 103>>, <<105, 42>>, <<1, 1>>, <<0, 1>>}
SmallCoordinates == Range(Multiples1) \cup NoPoints
SmallMultipliers == {0, 1, 2, 5, 96, 97, 98, 255}

SixWords(p, q) == <<p[1], p[2], q[1][2], q[1][1], q[2][2], q[2][1]>>
Whole(s)   == [pairs |-> s, rest |-> 0]
\* Pairs of multiples of the two generators, and others.
PairsOf(s, m1, m2) == [k \in DOMAIN s |-> SixWords(m1[s[k][1]], m2[s[k][2]])]
MultiplierPairs ==
    {<<>>, << <<1, 1>> >>, << <<1, 1>>, <<96, 1>> >>, << <<2, 3>>, <<1, 91>> >>,
     << <<2, 3>>, <<1, 92>> >>, << <<97, 1>> >>, << <<1, 97>>, <<5, 2>>, <<10, 96>> >>}
SmallPairings ==
    {Whole(PairsOf(s, Multiples1, Multiples2)) : s \in MultiplierPairs} \cup
    {[pairs |-> <<>>, rest |-> 5],
     Whole(<<SixWords(SmallG1, SmallG2), SixWords(<<1, 1>>, SmallG2)>>),
     Whole(<<SixWords(SmallG1, << <<1, 1>>, <<1, 1>> >>)>>),
     Whole(<<SixWords(SmallG1, OutsideG2)>>),
     Whole(<< <<2, 42, 0, 0, 0, 103>> >>)}

-----------------------------------------------------------------------------
\* Words of two bytes of four bits; 12 rounds go beyond the 10 of the table.
SmallIV == <<106, 187, 60, 165, 81, 155, 31, 91>>
Data(rounds, f, seed) ==
    <<0, 0, 0, rounds>> \o [k \in 1 .. 52 |-> (seed * k * k + 7 * k + seed) % 16] \o <<f>>
SmallData ==
    {Data(rounds, f, seed) : rounds \in {0, 1, 12}, f \in {0, 1}, seed \in 1 .. 4}
    \cup {Data(1, 2, 1), Tail(Data(1, 1, 1)), Append(Data(1, 1, 1), 0)}

\* Polynomials of degree 0 and 2 over F_5, points below and above the modulus.
SmallPolynomials == [1 .. 1 -> 0 .. 4] \cup [1 .. 3 -> {0, 1, 3}]

\* Lengths of up to 3 bytes, where a word has 2; data that is cut off.
Header(b, e, m) == <<0, Len(b), 0, Len(e), 0, Len(m)>>
FullExpMod ==
    {Header(b, e, m) \o b \o e \o m :
        b \in {<<>>, <<0>>, <<3>>, <<100>>, <<20, 3>>, <<1, 0, 3>>},
        e \in {<<>>, <<0>>, <<1>>, <<5>>, <<12>>, <<0, 9>>},
        m \in {<<>>, <<0>>, <<1>>, <<7>>, <<200>>, <<0, 100>>}}
SmallExpMod ==
    FullExpMod \cup {SubSeq(d, 1, Len(d) - 1) : d \in FullExpMod}
               \cup {SubSeq(d, 1, 5) : d \in FullExpMod} \cup {<<>>}

-----------------------------------------------------------------------------
Init == Idle
Next == \/ WordsNext \/ BlobNext \/ RlpNext \/ TrieNext \/ ModExpNext
        \/ FieldNext \/ AltBn128Next \/ Blake2Next \/ KzgNext
        \/ Respond

Spec == Init /\ [][Next]_computation

(***************************************************************************)
(* Each loop that is left on a condition comes to its end, for each round  *)
(* takes something off a natural number: the degrees of the remainders;    *)
(* what is left of the exponent or the multiplier; or, once the terms of   *)
(* the series begin to fall, the term, until it is rounded to nothing.     *)
(***************************************************************************)
Goes(name) == Running(name) /\ task' = name /\ answer' = NoAnswer /\ locals # <<>>
Falls(new, old) == new \in Nat /\ new < old
Degrees(e) == Galois!deg(e[1].x) + Galois!deg(e[2].x)
LoopsDescend ==
    [][/\ Goes("inverse") => Falls(Degrees(locals'[1]), Degrees(locals[1]))
       /\ Goes("power")  => Falls(Len(locals'[1].exponent), Len(locals[1].exponent))
       /\ Goes("bn_mul") => Falls(locals'[1].n, locals[1].n)
       /\ Goes("expmod") => Falls(locals'.n, locals.n)
       /\ Goes("blob") /\ locals.i * denominator > argv[1] =>
             Falls(locals'.numeratorAccum, locals.numeratorAccum)]_computation
=============================================================================
