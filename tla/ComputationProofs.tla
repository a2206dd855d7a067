-------------------------- MODULE ComputationProofs -------------------------
(***************************************************************************)
(* Proofs about six of the computations: the price of blob gas, the two    *)
(* implementations of BLAKE2, the numbers of base_types.py beside the      *)
(* words of the EVM, signed words and codings, the KZG point evaluation,   *)
(* and EXPMOD.  Each theorem is about the specification of its computation *)
(* alone; no state outlives a computation.                                 *)
(***************************************************************************)
EXTENDS Words, BlobGasPrice, Blake2, Kzg, ModExp, DataTheorems

(***************************************************************************)
(* The price of blob gas.                                                  *)
(***************************************************************************)

\* What the model assumes of the constants of the blob gas price.
LEMMA BlobConstants ==
  factor \in Nat /\ denominator \in Nat \ {0} /\ ExcessBlobGas \subseteq Nat /\ NoAnswer \notin Nat
BY BlobAssumption DEF factor, denominator

\* A power of a natural number is one.
LEMMA PowerNatural ==
  ASSUME NEW b \in Nat, NEW n \in Nat
  PROVE  ToThe(b, n) \in Nat
<1> DEFINE S == {k \in Nat : ToThe(b, k) \in Nat}
<1>1. 0 \in S
  <2>1. ToThe(b, 0) = 1
    BY PowerStep
  <2> QED BY <2>1
<1>2. \A k \in Nat : k \in S => k + 1 \in S
  <2> SUFFICES ASSUME NEW k \in Nat, ToThe(b, k) \in Nat PROVE ToThe(b, k + 1) \in Nat
    OBVIOUS
  <2>1. ToThe(b, k + 1) = b * ToThe(b, k)
    BY PowerStep
  <2>2. \A x, y \in Nat : x * y \in Nat
    OBVIOUS
  <2> QED BY <2>1, <2>2
<1> HIDE DEF S
<1>3. \A k \in Nat : k \in S
  BY <1>1, <1>2, Induction
<1> QED BY <1>3 DEF S

\* The denominators of the series, i! * denominator ^ i, step by step.
LEMMA ScaleStep ==
  /\ Scale[0] = 1
  /\ \A n \in Nat : Scale[n] \in Nat /\ Scale[n + 1] = denominator * (n + 1) * Scale[n]
<1> DEFINE Is(p) == p = [n \in Nat |-> IF n = 0 THEN 1 ELSE denominator * n * p[n - 1]]
           P == CHOOSE p : Is(p)
           next == [n \in Nat |-> [v \in Nat |-> IF n = 0 THEN 1 ELSE denominator * n * v]]
<1>0. next \in [Nat -> [Nat -> Nat]] /\ 1 \in Nat
  <2>1. \A u, v, w \in Nat : u * v * w \in Nat
    OBVIOUS
  <2> QED BY <2>1, BlobConstants
<1>1. PICK g \in [Nat -> Nat] : FromBefore(g, 1, next)
  <2> HIDE DEF next
  <2> QED BY <1>0, NatRecursion
<1>2. \A n \in Nat : g[n] = IF n = 0 THEN 1 ELSE denominator * n * g[n - 1]
  <2> SUFFICES ASSUME NEW n \in Nat
               PROVE  g[n] = IF n = 0 THEN 1 ELSE denominator * n * g[n - 1]
    OBVIOUS
  <2>1. g[n] = IF n = 0 THEN 1 ELSE next[n][g[n - 1]]
    BY <1>1 DEF FromBefore
  <2>2. n # 0 => n - 1 \in Nat
    OBVIOUS
  <2>3. n # 0 => g[n - 1] \in Nat
    BY <2>2
  <2> QED BY <2>1, <2>3
<1>3. Is(g)
  <2>1. g = [n \in Nat |-> g[n]]
    OBVIOUS
  <2> QED BY <1>2, <2>1
<1>4. Is(P)
  <2> HIDE DEF Is
  <2> QED BY <1>3
<1>5. Scale = P
  BY DEF Scale
<1>6. \A n \in Nat : P[n] = IF n = 0 THEN 1 ELSE denominator * n * P[n - 1]
  <2> HIDE DEF P
  <2> QED BY <1>4
<1> HIDE DEF P, Is
<1>7. \A n \in Nat : P[n] \in Nat
  <2> DEFINE S == {n \in Nat : P[n] \in Nat}
  <2>1. 0 \in S
    BY <1>0, <1>6
  <2>2. \A n \in Nat : n \in S => n + 1 \in S
    <3> SUFFICES ASSUME NEW n \in Nat, P[n] \in Nat PROVE P[n + 1] \in Nat
      OBVIOUS
    <3>1. n + 1 \in Nat /\ n + 1 # 0 /\ (n + 1) - 1 = n
      OBVIOUS
    <3>2. P[n + 1] = next[n + 1][P[n]]
      BY <1>6, <3>1
    <3> HIDE DEF next
    <3> QED BY <1>0, <3>1, <3>2
  <2> HIDE DEF S
  <2>3. \A n \in Nat : n \in S
    BY <2>1, <2>2, Induction
  <2> QED BY <2>3 DEF S
<1>8. ASSUME NEW n \in Nat PROVE P[n + 1] = denominator * (n + 1) * P[n]
  <2>1. n + 1 \in Nat /\ n + 1 # 0 /\ (n + 1) - 1 = n
    OBVIOUS
  <2> QED BY <1>6, <2>1
<1>9. P[0] = 1
  BY <1>6
<1> QED BY <1>5, <1>7, <1>8, <1>9

\* The sums of the first terms of the series, on their common denominator.
LEMMA TermsStep ==
  ASSUME NEW x \in Nat
  PROVE  /\ Terms(x)[0] = 0
         /\ \A n \in Nat : Terms(x)[n] \in Nat /\ Terms(x)[n + 1] = denominator * (n + 1) * (Terms(x)[n] + ToThe(x, n))
<1> DEFINE Is(p) == p = [n \in Nat |-> IF n = 0 THEN 0 ELSE denominator * n * (p[n - 1] + ToThe(x, n - 1))]
           P == CHOOSE p : Is(p)
           next == [n \in Nat |-> [v \in Nat |-> IF n = 0 THEN 0 ELSE denominator * n * (v + ToThe(x, n - 1))]]
<1>0. next \in [Nat -> [Nat -> Nat]] /\ 0 \in Nat
  <2>1. \A u, v, w, z \in Nat : u * v * (w + z) \in Nat
    OBVIOUS
  <2>2. \A n \in Nat \ {0} : n - 1 \in Nat /\ ToThe(x, n - 1) \in Nat
    BY PowerNatural
  <2>3. denominator \in Nat
    BY BlobConstants
  <2> QED BY <2>1, <2>2, <2>3
<1>1. PICK g \in [Nat -> Nat] : FromBefore(g, 0, next)
  <2> HIDE DEF next
  <2> QED BY <1>0, NatRecursion
<1>2. \A n \in Nat : g[n] = IF n = 0 THEN 0 ELSE denominator * n * (g[n - 1] + ToThe(x, n - 1))
  <2> SUFFICES ASSUME NEW n \in Nat
               PROVE  g[n] = IF n = 0 THEN 0 ELSE denominator * n * (g[n - 1] + ToThe(x, n - 1))
    OBVIOUS
  <2>1. g[n] = IF n = 0 THEN 0 ELSE next[n][g[n - 1]]
    BY <1>1 DEF FromBefore
  <2>2. n # 0 => n - 1 \in Nat
    OBVIOUS
  <2>3. n # 0 => g[n - 1] \in Nat
    BY <2>2
  <2> QED BY <2>1, <2>3
<1>3. Is(g)
  <2>1. g = [n \in Nat |-> g[n]]
    OBVIOUS
  <2> QED BY <1>2, <2>1
<1>4. Is(P)
  <2> HIDE DEF Is
  <2> QED BY <1>3
<1>5. Terms(x) = P
  BY DEF Terms
<1>6. \A n \in Nat : P[n] = IF n = 0 THEN 0 ELSE denominator * n * (P[n - 1] + ToThe(x, n - 1))
  <2> HIDE DEF P
  <2> QED BY <1>4
<1> HIDE DEF P, Is
<1>7. \A n \in Nat : P[n] \in Nat
  <2> DEFINE S == {n \in Nat : P[n] \in Nat}
  <2>1. 0 \in S
    BY <1>0, <1>6
  <2>2. \A n \in Nat : n \in S => n + 1 \in S
    <3> SUFFICES ASSUME NEW n \in Nat, P[n] \in Nat PROVE P[n + 1] \in Nat
      OBVIOUS
    <3>1. n + 1 \in Nat /\ n + 1 # 0 /\ (n + 1) - 1 = n
      OBVIOUS
    <3>2. P[n + 1] = next[n + 1][P[n]]
      BY <1>6, <3>1
    <3> HIDE DEF next
    <3> QED BY <1>0, <3>1, <3>2
  <2> HIDE DEF S
  <2>3. \A n \in Nat : n \in S
    BY <2>1, <2>2, Induction
  <2> QED BY <2>3 DEF S
<1>8. ASSUME NEW n \in Nat PROVE P[n + 1] = denominator * (n + 1) * (P[n] + ToThe(x, n))
  <2>1. n + 1 \in Nat /\ n + 1 # 0 /\ (n + 1) - 1 = n
    OBVIOUS
  <2> QED BY <1>6, <2>1
<1>9. P[0] = 0
  BY <1>6
<1> QED BY <1>5, <1>7, <1>8, <1>9

\* The variables of the loop, and the first two terms.
BlobInv ==
  /\ task \in {"none", "blob"}
  /\ task = "none" => answer = NoAnswer
  /\ task = "blob" =>
       /\ argv[1] \in Nat
       /\ locals.i \in Nat \ {0}
       /\ locals.output \in Nat
       /\ locals.numeratorAccum \in Nat
       /\ locals.i = 1 => locals.output = 0 /\ locals.numeratorAccum = factor * denominator
       /\ locals.i = 2 => /\ locals.output = factor * denominator
                          /\ locals.numeratorAccum = factor * argv[1]
       /\ locals.i > 2 => locals.output >= factor * denominator + factor * argv[1]
  /\ BlobPriceBracketed

\* getBlobGasprice starts the loop with the bounds in place.
LEMMA BlobStarts ==
  ASSUME BlobInv, getBlobGasprice
  PROVE  BlobInv'
<1>1. PICK excess \in ExcessBlobGas :
        /\ task = "none" /\ answer = NoAnswer
        /\ task' = "blob" /\ argv' = <<excess>> /\ answer' = answer
        /\ locals' = [i |-> 1, output |-> 0, numeratorAccum |-> factor * denominator]
  BY DEF getBlobGasprice, Idle, Start
<1>2. excess \in Nat /\ argv'[1] = excess /\ factor \in Nat /\ denominator \in Nat
  BY <1>1, BlobConstants
<1>3. /\ locals'.i = 1 /\ locals'.output = 0
      /\ locals'.numeratorAccum = factor * denominator
  BY <1>1
<1>4. factor * denominator \in Nat
  BY <1>2
<1>5. /\ Scale[0] = 1 /\ ToThe(excess, 0) = 1 /\ Terms(excess)[0] = 0
  BY <1>2, ScaleStep, PowerStep, TermsStep
<1>6. /\ (factor * denominator) * Scale[0] <= (factor * denominator) * ToThe(excess, 0)
      /\ 0 * Scale[0] <= factor * denominator * Terms(excess)[0]
  BY <1>4, <1>5
<1>7. 1 - 1 = 0
  OBVIOUS
<1>8. BlobPriceBracketed'
  BY <1>1, <1>2, <1>3, <1>6, <1>7 DEF BlobPriceBracketed, Answered
<1> QED BY <1>1, <1>2, <1>3, <1>4, <1>8 DEF BlobInv

\* A term that was rounded down is at most the next term of the series.
LEMMA NextTerm ==
  ASSUME NEW a \in Nat, NEW x \in Nat, NEW d \in Nat \ {0}, NEW i \in Nat \ {0}
  PROVE  /\ d * i \in Nat \ {0}
         /\ (a * x) \div (d * i) \in Nat
         /\ ((a * x) \div (d * i)) * (d * i) <= a * x
<1>1. \A u, v \in Nat \ {0} : u * v \in Nat \ {0}
  OBVIOUS
<1>2. \A u, v \in Nat : u * v \in Nat
  OBVIOUS
<1>3. \A n \in Nat : \A m \in Nat \ {0} : n \div m \in Nat /\ (n \div m) * m <= n
  OBVIOUS
<1>4. d * i \in Nat \ {0} /\ a * x \in Nat
  BY <1>1, <1>2
<1> QED BY <1>3, <1>4

\* The bounds of one term and of the sum, from those of the ones before.
LEMMA TermBounds ==
  ASSUME NEW F \in Nat, NEW d \in Nat \ {0}, NEW i \in Nat \ {0}, NEW x \in Nat,
         NEW a \in Nat, NEW o \in Nat, NEW s \in Nat, NEW p \in Nat, NEW t \in Nat,
         a * s <= F * p, o * s <= F * t,
         NEW n \in Nat, n * (d * i) <= a * x
  PROVE  /\ n * (d * i * s) <= F * (x * p)
         /\ (o + a) * (d * i * s) <= F * (d * i * (t + p))
<1> DEFINE e == d * i
<1>1. e \in Nat
  OBVIOUS
<1> HIDE DEF e
<1>2. \A u, v, w \in Nat : u <= v => u * w <= v * w
  OBVIOUS
<1>3. (n * e) * s <= (a * x) * s
  <2>1. n * e \in Nat /\ a * x \in Nat /\ n * e <= a * x
    BY <1>1 DEF e
  <2> QED BY <1>2, <2>1
<1>4. (a * s) * x <= (F * p) * x
  <2>1. a * s \in Nat /\ F * p \in Nat
    OBVIOUS
  <2> QED BY <1>2, <2>1
<1>5. n * (e * s) <= F * (x * p)
  <2>1. \A u, v, w \in Nat : (u * v) * w = u * (v * w) /\ (u * v) * w = (u * w) * v
                             /\ (u * v) * w = u * (w * v) /\ (u * v) * w \in Nat
    OBVIOUS
  <2>2. /\ (n * e) * s = n * (e * s) /\ (a * x) * s = (a * s) * x
        /\ (F * p) * x = F * (x * p)
    BY <1>1, <2>1
  <2>3. (n * e) * s \in Nat /\ (a * x) * s \in Nat /\ (F * p) * x \in Nat
    BY <1>1, <2>1
  <2> QED BY <1>3, <1>4, <2>2, <2>3
<1>6. (o + a) * s <= F * (t + p)
  <2>1. (o + a) * s = o * s + a * s /\ F * (t + p) = F * t + F * p
    OBVIOUS
  <2>2. o * s \in Nat /\ a * s \in Nat /\ F * t \in Nat /\ F * p \in Nat
    OBVIOUS
  <2> QED BY <2>1, <2>2
<1>7. ((o + a) * s) * e <= (F * (t + p)) * e
  <2>1. (o + a) * s \in Nat /\ F * (t + p) \in Nat
    OBVIOUS
  <2> QED BY <1>1, <1>2, <1>6, <2>1
<1>8. (o + a) * (e * s) <= F * (e * (t + p))
  <2>1. \A u, v, w \in Nat : (u * v) * w = u * (w * v)
    OBVIOUS
  <2>2. o + a \in Nat /\ t + p \in Nat
    OBVIOUS
  <2>3. ((o + a) * s) * e = (o + a) * (e * s) /\ (F * (t + p)) * e = F * (e * (t + p))
    BY <1>1, <2>1, <2>2
  <2> QED BY <1>7, <2>3
<1> QED BY <1>5, <1>8 DEF e

\* A round of fakeExponential0 keeps the bounds.
LEMMA BlobRounds ==
  ASSUME BlobInv, fakeExponential0, locals.numeratorAccum # 0
  PROVE  BlobInv'
<1> DEFINE x == argv[1]  i == locals.i  k == i - 1  o == locals.output
           a == locals.numeratorAccum  n == (a * x) \div (denominator * i)
           F == factor * denominator
<1>1. /\ task = "blob" /\ task' = "blob" /\ argv' = argv
      /\ answer = NoAnswer /\ answer' = NoAnswer
      /\ locals' = [i |-> i + 1, output |-> o + a, numeratorAccum |-> n]
  BY DEF fakeExponential0, Running, Continue, nextAccum
<1>2. /\ x \in Nat /\ i \in Nat \ {0} /\ o \in Nat /\ a \in Nat
      /\ i = 1 => o = 0 /\ a = F
      /\ i = 2 => o = F /\ a = factor * x
      /\ i > 2 => o >= F + factor * x
  BY <1>1 DEF BlobInv
<1>3. /\ a * Scale[k] <= F * ToThe(x, k) /\ o * Scale[k] <= F * Terms(x)[k]
  BY <1>1 DEF BlobInv, BlobPriceBracketed
<1>4. factor \in Nat /\ denominator \in Nat \ {0} /\ F \in Nat /\ factor * x \in Nat
  <2>1. \A u, v \in Nat : u * v \in Nat
    OBVIOUS
  <2> QED BY <1>2, <2>1, BlobConstants
<1>5. k \in Nat /\ k + 1 = i /\ (i + 1) - 1 = i
  BY <1>2
<1>6. /\ Scale[k] \in Nat /\ Scale[i] = denominator * i * Scale[k]
  BY <1>5, ScaleStep
<1>7. /\ Terms(x)[k] \in Nat /\ Terms(x)[i] = denominator * i * (Terms(x)[k] + ToThe(x, k))
  BY <1>2, <1>5, TermsStep
<1>8. /\ ToThe(x, k) \in Nat /\ ToThe(x, i) = x * ToThe(x, k)
  <2> HIDE DEF x, i, k
  <2>1. x \in Nat /\ x \in Int /\ k \in Nat
    BY <1>2, <1>5
  <2>2. ToThe(x, k) \in Nat
    BY <2>1, PowerNatural
  <2>3. ToThe(x, k + 1) = x * ToThe(x, k)
    BY <2>1, PowerStep
  <2> QED BY <1>5, <2>2, <2>3
<1>9. n \in Nat /\ n * (denominator * i) <= a * x
  BY <1>2, <1>4, NextTerm
<1>10. i = 1 => n = factor * x
  <2>1. ASSUME NEW f \in Nat, NEW d \in Nat \ {0}, NEW y \in Nat
        PROVE  ((f * d) * y) \div (d * 1) = f * y
    <3>1. (f * d) * y = d * (f * y) /\ d * 1 = d /\ f * y \in Nat
      OBVIOUS
    <3>2. \A q \in Nat : (d * q) \div d = q
      OBVIOUS
    <3> QED BY <3>1, <3>2
  <2> QED BY <1>2, <1>4, <2>1
<1> HIDE DEF x, i, k, o, a, n, F
<1>11. /\ n * Scale[i] <= F * ToThe(x, i) /\ (o + a) * Scale[i] <= F * Terms(x)[i]
  <2> DEFINE s == Scale[k]  p == ToThe(x, k)  t == Terms(x)[k]  d == denominator
  <2>1. /\ F \in Nat /\ d \in Nat \ {0} /\ s \in Nat /\ p \in Nat /\ t \in Nat
        /\ a * s <= F * p /\ o * s <= F * t /\ n * (d * i) <= a * x
    BY <1>3, <1>4, <1>6, <1>7, <1>8, <1>9
  <2>2. Scale[i] = d * i * s /\ ToThe(x, i) = x * p /\ Terms(x)[i] = d * i * (t + p)
    BY <1>6, <1>7, <1>8
  <2> HIDE DEF s, p, t, d
  <2>3. n * (d * i * s) <= F * (x * p) /\ (o + a) * (d * i * s) <= F * (d * i * (t + p))
    BY ONLY <1>2, <1>9, <2>1, TermBounds
  <2> QED BY <2>2, <2>3
<1>12. locals'.i = i + 1 /\ locals'.output = o + a /\ locals'.numeratorAccum = n
       /\ argv'[1] = x
  BY <1>1 DEF x
<1>13. BlobPriceBracketed'
  BY <1>1, <1>5, <1>11, <1>12 DEF BlobPriceBracketed, Answered, F
<1>14. /\ i + 1 \in Nat \ {0} /\ o + a \in Nat /\ i + 1 # 1
       /\ i + 1 = 2 => o + a = F /\ n = factor * x
       /\ i + 1 > 2 => o + a >= F + factor * x
  BY <1>2, <1>4, <1>10
<1> QED BY <1>1, <1>2, <1>9, <1>12, <1>13, <1>14 DEF BlobInv, F

\* The division that ends fakeExponential0 keeps the bounds.
LEMMA BlobAnswers ==
  ASSUME BlobInv, fakeExponential0, locals.numeratorAccum = 0
  PROVE  BlobInv'
<1> DEFINE x == argv[1]  i == locals.i  o == locals.output  F == factor * denominator
<1>1. /\ task = "blob" /\ task' = "blob" /\ argv' = argv /\ locals' = locals
      /\ answer' = o \div denominator
  BY DEF fakeExponential0, Running, Answer
<1>2. /\ x \in Nat /\ i \in Nat \ {0} /\ o \in Nat
      /\ i = 1 => o = 0 /\ F = 0
      /\ i = 2 => o = F /\ factor * x = 0
      /\ i > 2 => o >= F + factor * x
  BY <1>1 DEF BlobInv
<1>3. factor \in Nat /\ denominator \in Nat \ {0} /\ factor * x \in Nat
  <2>1. \A u, v \in Nat : u * v \in Nat
    OBVIOUS
  <2> QED BY <1>2, <2>1, BlobConstants
<1>4. o >= F + factor * x
  <2>1. ASSUME NEW f \in Nat, NEW d \in Nat \ {0}, f * d = 0 PROVE f = 0
    BY <2>1
  <2>2. CASE i = 1
    <3>1. factor = 0
      BY <1>2, <1>3, <2>1, <2>2
    <3>2. 0 * x = 0
      BY <1>2
    <3> HIDE DEF i, o, x, F
    <3> QED BY <1>2, <2>2, <3>1, <3>2
  <2>3. F \in Nat
    <3>1. \A u, v \in Nat : u * v \in Nat
      OBVIOUS
    <3> QED BY <1>3, <3>1
  <2>4. CASE i # 1
    <3> HIDE DEF i, o, x, F
    <3> QED BY <1>2, <1>3, <2>3, <2>4
  <2> QED BY <2>2, <2>4
<1>5. ASSUME NEW f \in Nat, NEW d \in Nat \ {0}, NEW g \in Nat, NEW p \in Nat, p >= f * d + g
      PROVE  p \div d >= f + (g \div d) /\ (p \div d) * d <= p /\ p \div d \in Nat
  <2>1. f * d \in Nat
    OBVIOUS
  <2>2. (f * d + g) \div d = f + (g \div d)
    <3>1. g = d * (g \div d) + (g % d) /\ g % d \in Nat /\ g % d < d /\ g \div d \in Nat
      OBVIOUS
    <3>2. f * d + g = d * (f + (g \div d)) + (g % d)
      <4>1. \A q \in Nat : d * (f + q) = f * d + d * q
        OBVIOUS
      <4>2. d * (f + (g \div d)) = f * d + d * (g \div d)
        BY <3>1, <4>1
      <4>3. d * (g \div d) \in Nat
        BY <3>1
      <4> QED BY <2>1, <3>1, <4>2, <4>3
    <3>3. \A n, q, r \in Nat : n = d * q + r /\ r < d => n \div d = q
      OBVIOUS
    <3>4. f * d + g \in Nat /\ f + (g \div d) \in Nat
      BY <2>1, <3>1
    <3> QED BY <3>1, <3>2, <3>3, <3>4
  <2>3. \A u, v \in Nat : u >= v => u \div d >= v \div d
    OBVIOUS
  <2>4. f * d + g \in Nat
    BY <2>1
  <2>5. p \div d >= (f * d + g) \div d
    BY <1>5, <2>3, <2>4
  <2>6. p \div d \in Nat /\ (p \div d) * d <= p
    OBVIOUS
  <2> QED BY <2>2, <2>5, <2>6
<1>6. /\ answer' >= factor + (factor * x) \div denominator
      /\ answer' * denominator <= o
      /\ answer' \in Nat
  <2> HIDE DEF x, o
  <2> QED BY <1>1, <1>2, <1>3, <1>4, <1>5 DEF F
<1>7. answer' # NoAnswer
  BY <1>6, BlobConstants
<1>8. BlobPriceBracketed'
  BY <1>1, <1>6 DEF BlobInv, BlobPriceBracketed, Answered
<1> QED BY <1>1, <1>8 DEF BlobInv

(***************************************************************************)
(* The loop of fakeExponential0 (BlockHeader.lean), whose terms are        *)
(* rounded down one after another, never exceeds the partial sums of the   *)
(* series, and the price it answers is at least the linear part of the     *)
(* series and never below the price's minimum: for all constants and every *)
(* excess of blob gas.                                                     *)
(***************************************************************************)
THEOREM BlobPriceIsBracketed == BlobSpec => []BlobPriceBracketed
<1>1. Idle => BlobInv
  BY DEF Idle, BlobInv, BlobPriceBracketed, Answered
<1>2. BlobInv /\ [BlobNext \/ Respond]_computation => BlobInv'
  <2> SUFFICES ASSUME BlobInv, [BlobNext \/ Respond]_computation PROVE BlobInv'
    OBVIOUS
  <2>1. CASE getBlobGasprice
    BY <2>1, BlobStarts
  <2>2. CASE fakeExponential0
    BY <2>2, BlobRounds, BlobAnswers
  <2>3. CASE Respond
    BY <2>3 DEF Respond, BlobInv, BlobPriceBracketed, Answered
  <2>4. CASE UNCHANGED computation
    BY <2>4 DEF computation, BlobInv, BlobPriceBracketed, Answered
  <2> QED BY <2>1, <2>2, <2>3, <2>4 DEF BlobNext
<1>3. BlobInv => BlobPriceBracketed
  BY DEF BlobInv
<1> QED BY <1>1, <1>2, <1>3, PTL DEF BlobSpec

-----------------------------------------------------------------------------
(***************************************************************************)
(* The two implementations of BLAKE2.                                      *)
(***************************************************************************)

\* What the model assumes of the widths, rotations and words of BLAKE2.
LEMMA BlakeConstants ==
  /\ W \in Nat /\ R1 \in 0 .. W /\ R2 \in 0 .. W /\ R3 \in 0 .. W /\ R4 \in 0 .. W
  /\ WORD_BYTES \in Nat /\ Octet \in Nat \ {0} /\ ToThe(Octet, WORD_BYTES) = ToThe(2, W)
  /\ IV \in [1 .. 8 -> BlakeWord] /\ BlakeData \subseteq Seq(0 .. Octet - 1)
BY BlakeAssumption

\* A word is a number below 2 ^ W.
LEMMA WordFacts ==
  /\ ToThe(2, W) \in Nat \ {0} /\ max_word = ToThe(2, W) /\ mask_bits = max_word - 1
  /\ \A x : x \in BlakeWord <=> x \in Nat /\ x < max_word
  /\ \A x \in Nat : x % max_word \in BlakeWord
<1>1. ToThe(2, W) \in Nat \ {0}
  BY BlakeConstants, TwoPower
<1>2. max_word = ToThe(2, W) /\ mask_bits = max_word - 1
  BY DEF max_word, mask_bits
<1>3. BlakeWord = 0 .. max_word - 1
  BY <1>2 DEF BlakeWord
<1>4. \A x : x \in BlakeWord <=> x \in Nat /\ x < max_word
  BY <1>1, <1>2, <1>3
<1>5. \A x \in Nat : x % max_word \in BlakeWord
  BY <1>1, <1>2, <1>4
<1> QED BY <1>1, <1>2, <1>4, <1>5

\* Xor of two words is a word.
LEMMA XorWord ==
  ASSUME NEW x \in BlakeWord, NEW y \in BlakeWord
  PROVE  Xor(x, y) \in BlakeWord
<1>1. x \in Nat /\ y \in Nat /\ x < ToThe(2, W) /\ y < ToThe(2, W) /\ max_word = ToThe(2, W)
  BY WordFacts
<1>2. Xor(x, y) < ToThe(2, W) /\ Xor(x, y) \in Nat
  BY <1>1, OrBound, XorHalves, BlakeConstants
<1> QED BY <1>1, <1>2, WordFacts

\* The two parts that a rotation puts together have no bit in common, so it is
\* the same whether they are added, joined by Or or by Xor.
LEMMA RotationsAgree ==
  ASSUME NEW x \in BlakeWord, NEW r \in 0 .. W
  PROVE  Rotated(x, r, W - r) = rotr64(x, r) /\ rotr64(x, r) \in BlakeWord
<1> DEFINE p == ToThe(2, r)  q == ToThe(2, W - r)  M == max_word
           u == x \div p  v == (x * q) % M
<1>1. W \in Nat /\ r \in Nat /\ W - r \in Nat
  BY BlakeConstants
<1>2. p \in Nat \ {0} /\ q \in Nat \ {0} /\ M = p * q /\ M = ToThe(2, W) /\ M \in Nat \ {0}
  <2>1. 2 \in Nat \ {0} /\ r \in 0 .. W
    OBVIOUS
  <2>2. ToThe(2, W) = ToThe(2, r) * ToThe(2, W - r)
    BY <1>1, <2>1, PowerSplits
  <2> QED BY <1>1, <2>2, TwoPower, WordFacts
<1>3. x \in Nat /\ x < M
  BY WordFacts
<1> HIDE DEF p, q, M
<1>4. x = p * (x \div p) + (x % p) /\ x \div p \in Nat /\ x % p \in Nat /\ x % p < p
  BY <1>2, <1>3
<1>5. u \in Nat /\ u < q
  <2>0. u \in Nat
    BY <1>4
  <2> SUFFICES ASSUME u >= q PROVE FALSE
    <3> HIDE DEF u
    <3> QED BY <1>2, <2>0
  <2>1. \A y, z \in Nat : y >= z => p * y >= p * z
    BY <1>2
  <2>2. p * u >= p * q
    BY <1>2, <1>4, <2>1
  <2>3. p * u \in Nat
    BY <1>2, <1>4
  <2> HIDE DEF u
  <2> QED BY <1>2, <1>3, <1>4, <2>2, <2>3 DEF u
<1>6. v = q * (x % p)
  <2> DEFINE y == x % p  z == x \div p
  <2>1. x * q = M * z + q * y
    <3>1. \A i, j, k, l \in Nat : (i * j + k) * l = (i * l) * j + l * k
      OBVIOUS
    <3>2. x = p * z + y /\ z \in Nat /\ y \in Nat
      BY <1>4
    <3> HIDE DEF z, y
    <3> QED BY <1>2, <3>1, <3>2
  <2>2. q * y \in Nat /\ q * y < M
    <3>1. \A i, j, k \in Nat : i < j /\ k # 0 => k * i < j * k /\ k * i \in Nat
      OBVIOUS
    <3>2. y \in Nat /\ y < p
      BY <1>4
    <3> HIDE DEF y
    <3> QED BY <1>2, <3>1, <3>2
  <2>3. \A n, i, j, k \in Nat : n = k * i + j /\ j < k => n % k = j
    OBVIOUS
  <2>4. x * q \in Nat /\ z \in Nat
    BY <1>2, <1>3, <1>4
  <2> HIDE DEF y, z
  <2>5. (x * q) % M = q * y
    BY ONLY <1>2, <2>1, <2>2, <2>3, <2>4, ZenonT(60)
  <2> QED BY <2>5 DEF y
<1>7. v \in Nat /\ And[u][v] = 0
  <2>1. x % p \in Nat /\ W - r \in Nat /\ u \in Nat /\ u < ToThe(2, W - r)
    BY <1>1, <1>4, <1>5 DEF q
  <2>2. And[u][ToThe(2, W - r) * (x % p)] = 0
    BY ONLY <2>1, AndDisjoint
  <2>3. q * (x % p) \in Nat
    BY <1>2, <2>1
  <2> HIDE DEF u, v
  <2> QED BY <1>6, <2>2, <2>3 DEF q
<1>8. Xor(u, v) = u + v /\ Or(u, v) = u + v
  <2> HIDE DEF u, v
  <2> QED BY <1>5, <1>7 DEF Xor, Or
<1>9. Or(u, v) \in BlakeWord
  <2>1. v < M /\ u < M
    <3>1. \A i, j \in Nat \ {0} : i <= j * i
      OBVIOUS
    <3>2. q <= M
      BY <1>2, <3>1
    <3>3. v < M
      BY <1>2, <1>3
    <3> HIDE DEF u, v
    <3> QED BY <1>2, <1>5, <3>2, <3>3
  <2> HIDE DEF u, v
  <2>2. Or(u, v) < ToThe(2, W)
    BY <1>1, <1>2, <1>5, <1>7, <2>1, OrBound
  <2> QED BY <1>5, <1>7, <1>8, <2>2, <1>2, WordFacts DEF M
<1>10. Rotated(x, r, W - r) = Xor(u, v) /\ rotr64(x, r) = Or(u, v)
  BY DEF Rotated, rotr64, p, q, M
<1> QED BY <1>8, <1>9, <1>10

Place == 1 .. 16
State == [Place -> BlakeWord]

\* Words that are written into a state leave it a state of words.
LEMMA WrittenWords ==
  ASSUME NEW v \in State, NEW a, NEW b, NEW c, NEW d,
         NEW va \in BlakeWord, NEW vb \in BlakeWord, NEW vc \in BlakeWord, NEW vd \in BlakeWord
  PROVE  Written(v, a, b, c, d, va, vb, vc, vd) \in State
BY DEF Written, State

\* A rotation by r bits one way is one by w_r bits the other way.
Turns(r, w_r) == r \in 0 .. W /\ w_r = W - r

\* Half of the macro of the library does to the words what half of G does.
LEMMA HalvesAgree ==
  ASSUME NEW v \in State, NEW word \in BlakeWord, NEW r, NEW w_r, Turns(r, w_r), NEW s, NEW w_s, Turns(s, w_s),
         NEW a \in Place, NEW b \in Place, NEW c \in Place, NEW d \in Place
  PROVE  /\ Half(v, a, b, c, d, word, r, w_r, s, w_s) = HalfMacro(v, a, b, c, d, word, r, s)
         /\ HalfMacro(v, a, b, c, d, word, r, s) \in State
<1>1. v[a] \in BlakeWord /\ v[b] \in BlakeWord /\ v[c] \in BlakeWord /\ v[d] \in BlakeWord
  BY DEF State
<1>2. ASSUME NEW i \in BlakeWord, NEW j \in BlakeWord, NEW k \in BlakeWord
      PROVE  (i + j) % max_word \in BlakeWord /\ (i + j + k) % max_word \in BlakeWord
  <2>1. i \in Nat /\ j \in Nat /\ k \in Nat
    BY WordFacts
  <2>2. i + j \in Nat /\ i + j + k \in Nat
    BY <2>1
  <2> QED BY <2>2, WordFacts
<1>3. ASSUME NEW i \in BlakeWord, NEW j \in BlakeWord, NEW n, NEW w_n, Turns(n, w_n)
      PROVE  /\ Rotated(Xor(i, j), n, w_n) = rotr64(Xor(i, j), n)
             /\ rotr64(Xor(i, j), n) \in BlakeWord
  <2>1. n \in 0 .. W /\ w_n = W - n
    BY <1>3 DEF Turns
  <2>2. Xor(i, j) \in BlakeWord
    BY XorWord
  <2>3. \A k \in BlakeWord : Rotated(k, n, W - n) = rotr64(k, n) /\ rotr64(k, n) \in BlakeWord
    BY <2>1, RotationsAgree
  <2> QED BY <2>1, <2>2, <2>3
<1>4. PICK va : va = (v[a] + v[b] + word) % max_word
  OBVIOUS
<1>5. PICK vd : vd = rotr64(Xor(v[d], va), r)
  OBVIOUS
<1>6. PICK vc : vc = (v[c] + vd) % max_word
  OBVIOUS
<1>7. PICK vb : vb = rotr64(Xor(v[b], vc), s)
  OBVIOUS
<1>8. va \in BlakeWord
  BY <1>1, <1>2, <1>4
<1>9. vd \in BlakeWord /\ vd = Rotated(Xor(v[d], va), r, w_r)
  <2>1. \A i, j \in BlakeWord : /\ Rotated(Xor(i, j), r, w_r) = rotr64(Xor(i, j), r)
                           /\ rotr64(Xor(i, j), r) \in BlakeWord
    BY <1>3
  <2> QED BY <1>1, <1>5, <1>8, <2>1
<1>10. vc \in BlakeWord
  BY <1>1, <1>2, <1>6, <1>9
<1>11. vb \in BlakeWord /\ vb = Rotated(Xor(v[b], vc), s, w_s)
  <2>1. \A i, j \in BlakeWord : /\ Rotated(Xor(i, j), s, w_s) = rotr64(Xor(i, j), s)
                           /\ rotr64(Xor(i, j), s) \in BlakeWord
    BY <1>3
  <2> QED BY <1>1, <1>7, <1>10, <2>1
<1>12. Half(v, a, b, c, d, word, r, w_r, s, w_s) = Written(v, a, b, c, d, va, vb, vc, vd)
  BY <1>4, <1>6, <1>9, <1>11 DEF Half
<1>13. HalfMacro(v, a, b, c, d, word, r, s) = Written(v, a, b, c, d, va, vb, vc, vd)
  BY <1>4, <1>5, <1>6, <1>7 DEF HalfMacro
<1>14. Written(v, a, b, c, d, va, vb, vc, vd) \in State
  BY <1>8, <1>9, <1>10, <1>11, WrittenWords
<1> QED BY <1>12, <1>13, <1>14

\* G of blake2.py and the macro of ffi.c do the same to a state.
LEMMA MixesAgree ==
  ASSUME NEW v \in State, NEW x \in BlakeWord, NEW y \in BlakeWord,
         NEW a \in Place, NEW b \in Place, NEW c \in Place, NEW d \in Place
  PROVE  /\ G(v, a, b, c, d, x, y) = GMacro(v, a, b, c, d, x, y)
         /\ GMacro(v, a, b, c, d, x, y) \in State
<1>1. Turns(R1, w_R1) /\ Turns(R2, w_R2) /\ Turns(R3, w_R3) /\ Turns(R4, w_R4)
  BY BlakeConstants DEF Turns, w_R1, w_R2, w_R3, w_R4
<1>2. PICK h : h = HalfMacro(v, a, b, c, d, x, R1, R2)
  OBVIOUS
<1>3. Half(v, a, b, c, d, x, R1, w_R1, R2, w_R2) = h /\ h \in State
  BY <1>1, <1>2, HalvesAgree
<1>4. /\ Half(h, a, b, c, d, y, R3, w_R3, R4, w_R4) = HalfMacro(h, a, b, c, d, y, R3, R4)
      /\ HalfMacro(h, a, b, c, d, y, R3, R4) \in State
  BY <1>1, <1>3, HalvesAgree
<1> QED BY <1>2, <1>3, <1>4 DEF G, GMacro

\* The table has 10 rows of 16 numbers of words.
LEMMA SigmaRows ==
  /\ sigma_len = 10
  /\ \A i \in 1 .. 10 : \A k \in 1 .. 16 : sigma[i][k] \in 0 .. 15
<1>1. sigma_len = 10
  BY DEF sigma_len, sigma
<1>2. \A k \in 1 .. 16 : sigma[1][k] \in 0 .. 15
  BY DEF sigma
<1>3. \A k \in 1 .. 16 : sigma[2][k] \in 0 .. 15
  BY DEF sigma
<1>4. \A k \in 1 .. 16 : sigma[3][k] \in 0 .. 15
  BY DEF sigma
<1>5. \A k \in 1 .. 16 : sigma[4][k] \in 0 .. 15
  BY DEF sigma
<1>6. \A k \in 1 .. 16 : sigma[5][k] \in 0 .. 15
  BY DEF sigma
<1>7. \A k \in 1 .. 16 : sigma[6][k] \in 0 .. 15
  BY DEF sigma
<1>8. \A k \in 1 .. 16 : sigma[7][k] \in 0 .. 15
  BY DEF sigma
<1>9. \A k \in 1 .. 16 : sigma[8][k] \in 0 .. 15
  BY DEF sigma
<1>10. \A k \in 1 .. 16 : sigma[9][k] \in 0 .. 15
  BY DEF sigma
<1>11. \A k \in 1 .. 16 : sigma[10][k] \in 0 .. 15
  BY DEF sigma
<1> QED BY <1>1, <1>2, <1>3, <1>4, <1>5, <1>6, <1>7, <1>8, <1>9, <1>10, <1>11, SMTT(30)

\* Each mixing works on four of the 16 words.
LEMMA MixesPlaces ==
  \A k \in 1 .. 8 : /\ Mixes[k][1] \in Place /\ Mixes[k][2] \in Place
                    /\ Mixes[k][3] \in Place /\ Mixes[k][4] \in Place
BY DEF Mixes, Place

EightWords == [1 .. 8 -> BlakeWord]

\* A state is made of two times eight words.
LEMMA JoinedWords ==
  ASSUME NEW s \in EightWords, NEW t \in EightWords
  PROVE  s \o t \in State /\ (s \o t)[13] = t[5] /\ (s \o t)[14] = t[6]
<1>1. PICK n \in Nat : n = 8
  OBVIOUS
<1>2. s \in [1 .. n -> BlakeWord] /\ t \in [1 .. n -> BlakeWord]
  BY <1>1 DEF EightWords
<1>3. s \in Seq(BlakeWord) /\ t \in Seq(BlakeWord) /\ Len(s) = n /\ Len(t) = n
  BY <1>2
<1>4. s \o t \in Seq(BlakeWord) /\ Len(s \o t) = Len(s) + Len(t)
      /\ \A k \in 1 .. Len(t) : (s \o t)[k + Len(s)] = t[k]
  <2>1. \A S : \A f, g \in Seq(S) :
          /\ f \o g \in Seq(S) /\ Len(f \o g) = Len(f) + Len(g)
          /\ \A k \in 1 .. Len(g) : (f \o g)[k + Len(f)] = g[k]
    OBVIOUS
  <2> QED BY <1>3, <2>1
<1>5. PICK q : q = s \o t
  OBVIOUS
<1>6. q \in State
  <2>1. \A S : \A m \in Nat : \A f \in Seq(S) : Len(f) = m => f \in [1 .. m -> S]
    OBVIOUS
  <2>2. n + n \in Nat /\ n + n = 16
    BY <1>1
  <2>3. q \in [1 .. n + n -> BlakeWord]
    BY <1>3, <1>4, <1>5, <2>1, <2>2
  <2> QED BY <2>2, <2>3 DEF State, Place
<1>7. \A k \in 1 .. n : q[k + n] = t[k]
  BY <1>3, <1>4, <1>5
<1>8. q[5 + n] = t[5] /\ q[6 + n] = t[6]
  <2>1. 5 \in 1 .. n /\ 6 \in 1 .. n
    BY <1>1
  <2> QED BY <1>7, <2>1
<1>9. 5 + n = 13 /\ 6 + n = 14
  BY <1>1
<1> QED BY <1>5, <1>6, <1>8, <1>9

\* A function on 1 .. n is a list of its values.
LEMMA ListedIs ==
  ASSUME NEW S, NEW n \in Nat, NEW f \in [1 .. n -> S]
  PROVE  Listed(f) = f
<1>1. f \in Seq(S) /\ Len(f) = n /\ DOMAIN f = 1 .. n
  OBVIOUS
<1>2. <<>> \o f \in Seq(S) /\ Len(<<>> \o f) = n /\ DOMAIN (<<>> \o f) = 1 .. n
  BY <1>1
<1>3. \A k \in 1 .. n : (<<>> \o f)[k] = f[k]
  BY <1>1
<1> QED BY <1>1, <1>2, <1>3 DEF Listed

\* A round of the one is a round of the other.
LEMMA RoundsAgree ==
  ASSUME NEW v \in State, NEW m \in [1 .. 16 -> BlakeWord], NEW r \in Nat
  PROVE  /\ compress_round(v, m, r) = compress_any_round(v, m, r)
         /\ compress_any_round(v, m, r) \in State
<1> DEFINE row == sigma[(r % 10) + 1]
           x(k) == m[row[2 * k - 1] + 1]
           y(k) == m[row[2 * k] + 1]
           gp(u, k) == G(u, Mixes[k][1], Mixes[k][2], Mixes[k][3], Mixes[k][4], x(k), y(k))
           gc(u, k) == GMacro(u, Mixes[k][1], Mixes[k][2], Mixes[k][3], Mixes[k][4], x(k), y(k))
<1>1. \A k \in 1 .. 16 : row[k] + 1 \in 1 .. 16
  <2>1. (r % 10) + 1 \in 1 .. 10
    OBVIOUS
  <2>2. \A k \in 1 .. 16 : row[k] \in 0 .. 15
    BY ONLY <2>1, SigmaRows
  <2> HIDE DEF row
  <2> QED BY <2>2
<1>2. ASSUME NEW k \in 1 .. 8 PROVE x(k) \in BlakeWord /\ y(k) \in BlakeWord
  <2>1. 2 * k - 1 \in 1 .. 16 /\ 2 * k \in 1 .. 16
    OBVIOUS
  <2>2. row[2 * k - 1] + 1 \in 1 .. 16 /\ row[2 * k] + 1 \in 1 .. 16
    BY ONLY <1>1, <2>1
  <2> HIDE DEF row
  <2> QED BY <2>2
<1>3. ASSUME NEW u \in State, NEW k \in 1 .. 8 PROVE gp(u, k) = gc(u, k) /\ gc(u, k) \in State
  <2>1. x(k) \in BlakeWord /\ y(k) \in BlakeWord
    BY <1>2
  <2>2. /\ Mixes[k][1] \in Place /\ Mixes[k][2] \in Place
        /\ Mixes[k][3] \in Place /\ Mixes[k][4] \in Place
    BY MixesPlaces, SMTT(30)
  <2> HIDE DEF x, y
  <2> QED BY <2>1, <2>2, MixesAgree
<1>4. compress_round(v, m, r) = gp(gp(gp(gp(gp(gp(gp(gp(v, 1), 2), 3), 4), 5), 6), 7), 8)
  BY SigmaRows DEF compress_round
<1>5. compress_any_round(v, m, r) = gc(gc(gc(gc(gc(gc(gc(gc(v, 1), 2), 3), 4), 5), 6), 7), 8)
  BY DEF compress_any_round
<1> HIDE DEF gp, gc
<1>6. PICK v1 : v1 = gc(v, 1)
  OBVIOUS
<1>7. PICK v2 : v2 = gc(v1, 2)
  OBVIOUS
<1>8. PICK v3 : v3 = gc(v2, 3)
  OBVIOUS
<1>9. PICK v4 : v4 = gc(v3, 4)
  OBVIOUS
<1>10. PICK v5 : v5 = gc(v4, 5)
  OBVIOUS
<1>11. PICK v6 : v6 = gc(v5, 6)
  OBVIOUS
<1>12. PICK v7 : v7 = gc(v6, 7)
  OBVIOUS
<1>13. v1 \in State /\ v1 = gp(v, 1)
  BY <1>3, <1>6
<1>14. v2 \in State /\ v2 = gp(v1, 2)
  BY <1>3, <1>7, <1>13
<1>15. v3 \in State /\ v3 = gp(v2, 3)
  BY <1>3, <1>8, <1>14
<1>16. v4 \in State /\ v4 = gp(v3, 4)
  BY <1>3, <1>9, <1>15
<1>17. v5 \in State /\ v5 = gp(v4, 5)
  BY <1>3, <1>10, <1>16
<1>18. v6 \in State /\ v6 = gp(v5, 6)
  BY <1>3, <1>11, <1>17
<1>19. v7 \in State /\ v7 = gp(v6, 7)
  BY <1>3, <1>12, <1>18
<1>20. gc(v7, 8) \in State /\ gc(v7, 8) = gp(v7, 8)
  BY <1>3, <1>19
<1> QED BY <1>4, <1>5, <1>6, <1>7, <1>8, <1>9, <1>10, <1>11, <1>12, <1>13, <1>14,
           <1>15, <1>16, <1>17, <1>18, <1>19, <1>20

\* What n bytes can hold.
LEMMA BigEndianBound ==
  ASSUME NEW s \in Seq(0 .. Octet - 1)
  PROVE  big_endian(s) \in Nat /\ big_endian(s) < ToThe(Octet, Len(s))
  BY ValueBound, BlakeConstants DEF big_endian

\* A single byte stands for itself.
LEMMA OneByte ==
  ASSUME NEW s \in Seq(0 .. Octet - 1), Len(s) = 1, s[1] \in Nat
  PROVE  big_endian(s) = s[1]
  BY OneDigit, BlakeConstants DEF big_endian

\* WORD_BYTES bytes anywhere in the data are a word.
LEMMA WordOfBytes ==
  ASSUME NEW data \in Seq(0 .. Octet - 1), NEW n \in Nat, n + WORD_BYTES <= Len(data)
  PROVE  little_endian(SubSeq(data, n + 1, n + WORD_BYTES)) \in BlakeWord
<1>1. PICK s : s = SubSeq(data, n + 1, n + WORD_BYTES)
  OBVIOUS
<1>2. s \in Seq(0 .. Octet - 1) /\ Len(s) = WORD_BYTES
  <2> DEFINE Bytes == 0 .. Octet - 1
  <2>1. data \in Seq(Bytes)
    OBVIOUS
  <2> HIDE DEF Bytes
  <2>2. PICK i \in Nat : i = n + 1
    OBVIOUS
  <2>3. PICK j \in Nat : j = n + WORD_BYTES
    BY BlakeConstants
  <2>4. i >= 1 /\ j <= Len(data) /\ (i <= j => j - i + 1 = WORD_BYTES)
        /\ (~ (i <= j) => WORD_BYTES = 0)
    BY <2>2, <2>3, BlakeConstants
  <2>5. SubSeq(data, i, j) \in Seq(Bytes) /\ Len(SubSeq(data, i, j)) = IF i <= j THEN j - i + 1 ELSE 0
    BY ONLY <2>1, <2>4, i \in Nat, j \in Nat
  <2>6. s \in Seq(Bytes) /\ Len(s) = WORD_BYTES
    BY <1>1, <2>2, <2>3, <2>4, <2>5
  <2> QED BY <2>6 DEF Bytes
<1>3. Reverse(s) \in Seq(0 .. Octet - 1) /\ Len(Reverse(s)) = WORD_BYTES
  <2> DEFINE Bytes == 0 .. Octet - 1
  <2>0. WORD_BYTES \in Nat
    BY BlakeConstants
  <2>1. s \in Seq(Bytes)
    BY <1>2
  <2> HIDE DEF Bytes
  <2>2. Reverse(s) = [i \in 1 .. WORD_BYTES |-> s[(WORD_BYTES - i) + 1]]
    BY <1>2 DEF Reverse
  <2>3. \A i \in 1 .. WORD_BYTES : s[(WORD_BYTES - i) + 1] \in Bytes
    <3>1. \A i \in 1 .. WORD_BYTES : (WORD_BYTES - i) + 1 \in 1 .. WORD_BYTES
      BY <2>0
    <3>2. \A i \in 1 .. WORD_BYTES : s[i] \in Bytes
      BY <1>2, <2>1
    <3> QED BY <3>1, <3>2
  <2>4. Reverse(s) \in [1 .. WORD_BYTES -> Bytes]
    BY <2>2, <2>3
  <2>5. Reverse(s) \in Seq(Bytes) /\ Len(Reverse(s)) = WORD_BYTES
    BY <2>0, <2>4
  <2> QED BY <2>5 DEF Bytes
<1>4. little_endian(s) \in Nat /\ little_endian(s) < ToThe(2, W)
  BY <1>3, BigEndianBound, BlakeConstants DEF little_endian
<1> QED BY <1>1, <1>4, WordFacts

Parameters == [rounds : Nat, h : [1 .. 8 -> BlakeWord], m : [1 .. 16 -> BlakeWord],
               t : [1 .. 2 -> BlakeWord], f : Nat]

\* The words of the data from start on.
LEMMA WordsFrom ==
  ASSUME NEW data \in Seq(0 .. Octet - 1), NEW start \in Nat, NEW n \in Nat,
         start + n * WORD_BYTES <= Len(data)
  PROVE  \A k \in 1 .. n :
           /\ start + (k - 1) * WORD_BYTES \in Nat
           /\ start + (k - 1) * WORD_BYTES + WORD_BYTES <= Len(data)
           /\ little_endian(SubSeq(data, start + (k - 1) * WORD_BYTES + 1,
                                   start + (k - 1) * WORD_BYTES + WORD_BYTES)) \in BlakeWord
<1> SUFFICES ASSUME NEW k \in 1 .. n
             PROVE  /\ start + (k - 1) * WORD_BYTES \in Nat
                    /\ start + (k - 1) * WORD_BYTES + WORD_BYTES <= Len(data)
                    /\ little_endian(SubSeq(data, start + (k - 1) * WORD_BYTES + 1,
                                            start + (k - 1) * WORD_BYTES + WORD_BYTES)) \in BlakeWord
  OBVIOUS
<1>1. WORD_BYTES \in Nat /\ Len(data) \in Nat /\ n * WORD_BYTES \in Nat
  BY BlakeConstants
<1>2. PICK at : at = start + (k - 1) * WORD_BYTES
  OBVIOUS
<1>3. (k - 1) * WORD_BYTES \in Nat /\ (k - 1) * WORD_BYTES + WORD_BYTES <= n * WORD_BYTES
  <2>1. \A i, w \in Nat : i * w \in Nat /\ i * w + w = (i + 1) * w
    OBVIOUS
  <2>2. \A i, j, w \in Nat : i <= j => i * w <= j * w
    OBVIOUS
  <2>3. k - 1 \in Nat /\ (k - 1) + 1 = k /\ k \in Nat /\ k <= n
    OBVIOUS
  <2>4. k * WORD_BYTES <= n * WORD_BYTES
    BY <1>1, <2>2, <2>3
  <2> QED BY <1>1, <2>1, <2>3, <2>4
<1>4. at \in Nat /\ at + WORD_BYTES <= Len(data)
  BY <1>1, <1>2, <1>3
<1>5. little_endian(SubSeq(data, at + 1, at + WORD_BYTES)) \in BlakeWord
  BY <1>4, WordOfBytes
<1> QED BY <1>2, <1>4, <1>5

\* The words that are split off the data are words.
LEMMA WordsSplit ==
  ASSUME NEW data \in Seq(0 .. Octet - 1), NEW start \in Nat, NEW n \in Nat,
         start + n * WORD_BYTES <= Len(data)
  PROVE  /\ spit_le_to_uint(data, start, n) =
              [k \in 1 .. n |->
                 little_endian(SubSeq(data, start + (k - 1) * WORD_BYTES + 1,
                                      start + (k - 1) * WORD_BYTES + WORD_BYTES))]
         /\ spit_le_to_uint(data, start, n) \in [1 .. n -> BlakeWord]
<1>1. PICK f : f = [k \in 1 .. n |->
                      little_endian(SubSeq(data, start + (k - 1) * WORD_BYTES + 1,
                                           start + (k - 1) * WORD_BYTES + WORD_BYTES))]
  OBVIOUS
<1>2. f \in [1 .. n -> BlakeWord]
  BY <1>1, WordsFrom
<1>3. spit_le_to_uint(data, start, n) = Listed(f)
  BY <1>1 DEF spit_le_to_uint
<1>4. Listed(f) = f
  BY <1>2, ListedIs
<1> QED BY <1>1, <1>2, <1>3, <1>4

\* Both read the same parameters from data of the right length.
LEMMA ParametersAgree ==
  ASSUME NEW data \in Seq(0 .. Octet - 1), Len(data) = length
  PROVE  /\ get_blake2_parameters(data) = blake2compressb64(data)
         /\ blake2compressb64(data) \in Parameters
         /\ blake2compressb64(data).f = data[length]
<1> DEFINE B == WORD_BYTES
           word(at) == little_endian(SubSeq(data, at + 1, at + WORD_BYTES))
<1>1. B \in Nat /\ length = 5 + 26 * B /\ Len(data) = 5 + 26 * B
  BY BlakeConstants DEF length
<1>2. /\ spit_le_to_uint(data, 4, 8) = [k \in 1 .. 8 |-> word(4 + (k - 1) * WORD_BYTES)]
      /\ spit_le_to_uint(data, 4, 8) \in [1 .. 8 -> BlakeWord]
  <2>1. 4 \in Nat /\ 8 \in Nat /\ 4 + 8 * WORD_BYTES <= Len(data)
    BY <1>1
  <2> QED BY <2>1, WordsSplit
<1>3. /\ spit_le_to_uint(data, 4 + 8 * WORD_BYTES, 16) =
           [k \in 1 .. 16 |-> word(4 + (7 + k) * WORD_BYTES)]
      /\ spit_le_to_uint(data, 4 + 8 * WORD_BYTES, 16) \in [1 .. 16 -> BlakeWord]
  <2>1. /\ 4 + 8 * WORD_BYTES \in Nat /\ 16 \in Nat
        /\ (4 + 8 * WORD_BYTES) + 16 * WORD_BYTES <= Len(data)
    BY <1>1
  <2>2. \A k \in 1 .. 16 : (4 + 8 * WORD_BYTES) + (k - 1) * WORD_BYTES = 4 + (7 + k) * WORD_BYTES
    BY <1>1
  <2>3. /\ spit_le_to_uint(data, 4 + 8 * WORD_BYTES, 16) =
             [k \in 1 .. 16 |-> word((4 + 8 * WORD_BYTES) + (k - 1) * WORD_BYTES)]
        /\ spit_le_to_uint(data, 4 + 8 * WORD_BYTES, 16) \in [1 .. 16 -> BlakeWord]
    BY <2>1, WordsSplit
  <2> HIDE DEF word
  <2> QED BY <2>2, <2>3
<1>4. /\ spit_le_to_uint(data, 4 + 24 * WORD_BYTES, 2) =
           [k \in 1 .. 2 |-> word(4 + (23 + k) * WORD_BYTES)]
      /\ spit_le_to_uint(data, 4 + 24 * WORD_BYTES, 2) \in [1 .. 2 -> BlakeWord]
  <2>1. /\ 4 + 24 * WORD_BYTES \in Nat /\ 2 \in Nat
        /\ (4 + 24 * WORD_BYTES) + 2 * WORD_BYTES <= Len(data)
    BY <1>1
  <2>2. \A k \in 1 .. 2 : (4 + 24 * WORD_BYTES) + (k - 1) * WORD_BYTES = 4 + (23 + k) * WORD_BYTES
    BY <1>1
  <2>3. /\ spit_le_to_uint(data, 4 + 24 * WORD_BYTES, 2) =
             [k \in 1 .. 2 |-> word((4 + 24 * WORD_BYTES) + (k - 1) * WORD_BYTES)]
        /\ spit_le_to_uint(data, 4 + 24 * WORD_BYTES, 2) \in [1 .. 2 -> BlakeWord]
    BY <2>1, WordsSplit
  <2> HIDE DEF word
  <2> QED BY <2>2, <2>3
<1>5. /\ Listed([k \in 1 .. 8 |-> word(4 + (k - 1) * WORD_BYTES)]) = spit_le_to_uint(data, 4, 8)
      /\ Listed([k \in 1 .. 16 |-> word(4 + (7 + k) * WORD_BYTES)]) =
           spit_le_to_uint(data, 4 + 8 * WORD_BYTES, 16)
      /\ Listed([k \in 1 .. 2 |-> word(4 + (23 + k) * WORD_BYTES)]) =
           spit_le_to_uint(data, 4 + 24 * WORD_BYTES, 2)
  <2> HIDE DEF word
  <2>1. 8 \in Nat /\ 16 \in Nat /\ 2 \in Nat
    OBVIOUS
  <2> QED BY <1>2, <1>3, <1>4, <2>1, ListedIs
<1>6. data[length] \in 0 .. Octet - 1
  <2>1. \A S, s : \A i \in 1 .. Len(s) : s \in Seq(S) => s[i] \in S
    OBVIOUS
  <2>2. length \in 1 .. Len(data)
    BY <1>1
  <2> QED BY <2>1, <2>2
<1>7. big_endian(SubSeq(data, 5 + 26 * WORD_BYTES, Len(data))) = data[length]
  <2> DEFINE Bytes == 0 .. Octet - 1
  <2>1. data \in Seq(Bytes) /\ data[length] \in Nat
    BY <1>6, BlakeConstants
  <2>2. length \in Nat /\ length \in 1 .. Len(data)
    BY <1>1
  <2> HIDE DEF Bytes
  <2>3. PICK s : s = SubSeq(data, length, length)
    OBVIOUS
  <2>4. s \in Seq(Bytes) /\ Len(s) = 1 /\ s[1] = data[length]
    BY <2>1, <2>2, <2>3
  <2>5. big_endian(s) = data[length]
    BY <2>1, <2>4, OneByte DEF Bytes
  <2> QED BY <1>1, <2>3, <2>5
<1>8. data[4 + 26 * WORD_BYTES + 1] = data[length]
  <2>1. 4 + 26 * WORD_BYTES + 1 = length
    BY <1>1
  <2> QED BY <2>1
<1>9. big_endian(SubSeq(data, 1, 4)) \in Nat
  <2> DEFINE Bytes == 0 .. Octet - 1
  <2>1. data \in Seq(Bytes) /\ Len(data) \in Nat /\ Len(data) >= 4
    BY <1>1
  <2> HIDE DEF Bytes
  <2>2. SubSeq(data, 1, 4) \in Seq(Bytes)
    BY <2>1
  <2> QED BY <2>2, BigEndianBound DEF Bytes
<1>10. blake2compressb64(data) =
         [rounds |-> big_endian(SubSeq(data, 1, 4)),
          h |-> Listed([k \in 1 .. 8 |-> word(4 + (k - 1) * WORD_BYTES)]),
          m |-> Listed([k \in 1 .. 16 |-> word(4 + (7 + k) * WORD_BYTES)]),
          t |-> Listed([k \in 1 .. 2 |-> word(4 + (23 + k) * WORD_BYTES)]),
          f |-> data[4 + 26 * WORD_BYTES + 1]]
  BY DEF blake2compressb64
<1> HIDE DEF word, B
<1>11. get_blake2_parameters(data) = blake2compressb64(data)
  BY <1>5, <1>7, <1>8, <1>10 DEF get_blake2_parameters
<1>12. data[length] \in Nat
  BY <1>6, BlakeConstants
<1>13. blake2compressb64(data) \in Parameters
  BY <1>2, <1>3, <1>4, <1>5, <1>8, <1>9, <1>10, <1>12 DEF Parameters
<1> QED BY <1>8, <1>10, <1>11, <1>13

\* To flip every bit of a word is to take it from the mask.
LEMMA Inverted ==
  ASSUME NEW x \in BlakeWord
  PROVE  Xor(x, mask_bits) = mask_bits - x /\ mask_bits \in BlakeWord
<1>1. /\ x \in Nat /\ x < max_word /\ max_word = ToThe(2, W) /\ max_word \in Nat \ {0}
      /\ mask_bits = max_word - 1 /\ W \in Nat
  BY WordFacts, BlakeConstants
<1>2. And[x][mask_bits] = x % max_word
  BY <1>1, AndMask
<1>3. x % max_word = x
  BY <1>1
<1>4. mask_bits \in Nat /\ mask_bits < max_word
  BY <1>1
<1>5. Xor(x, mask_bits) = x + mask_bits - 2 * x
  BY <1>2, <1>3 DEF Xor
<1>6. x + mask_bits - 2 * x = mask_bits - x
  BY <1>1, <1>4
<1> QED BY <1>4, <1>5, <1>6, WordFacts

\* Both start the rounds from the same 16 words.
LEMMA StartsAgree ==
  ASSUME NEW p \in Parameters
  PROVE  initial_v(p) = compress_any_start(p) /\ initial_v(p) \in State
<1>1. p.h \in [1 .. 8 -> BlakeWord] /\ p.t[1] \in BlakeWord /\ p.t[2] \in BlakeWord /\ IV \in [1 .. 8 -> BlakeWord]
  BY BlakeConstants, SMTT(30) DEF Parameters
<1>2. PICK v : v = p.h \o IV
  OBVIOUS
<1>3. v \in State /\ v[13] = IV[5] /\ v[14] = IV[6] /\ v[15] \in BlakeWord
  <2>1. p.h \in EightWords /\ IV \in EightWords
    BY <1>1 DEF EightWords
  <2>2. v \in State /\ v[13] = IV[5] /\ v[14] = IV[6]
    BY <1>2, <2>1, JoinedWords
  <2> QED BY <2>2 DEF State, Place
<1>4. /\ Xor(p.t[1], IV[5]) = Xor(IV[5], p.t[1]) /\ Xor(p.t[1], IV[5]) \in BlakeWord
      /\ Xor(p.t[2], IV[6]) = Xor(IV[6], p.t[2]) /\ Xor(p.t[2], IV[6]) \in BlakeWord
  <2>1. IV[5] \in BlakeWord /\ IV[6] \in BlakeWord
    BY <1>1
  <2>2. \A x \in BlakeWord : x \in Nat
    BY WordFacts
  <2> QED BY <1>1, <2>1, <2>2, XorCommutes, XorWord
<1>5. /\ Xor(v[15], mask_bits) = mask_bits - v[15]
      /\ Xor(v[15], mask_bits) \in BlakeWord
  BY <1>3, Inverted, XorWord
<1>6. initial_v(p) = [v EXCEPT ![13] = Xor(p.t[1], IV[5]), ![14] = Xor(p.t[2], IV[6]),
                               ![15] = IF p.f # 0 THEN Xor(v[15], mask_bits) ELSE v[15]]
  BY <1>2, <1>3 DEF initial_v, State, Place
<1>7. compress_any_start(p) =
        [v EXCEPT ![13] = Xor(IV[5], p.t[1]), ![14] = Xor(IV[6], p.t[2]),
                  ![15] = IF p.f # 0 THEN mask_bits - v[15] ELSE v[15]]
  BY <1>2, <1>3 DEF compress_any_start, State, Place
<1>8. initial_v(p) = compress_any_start(p)
  BY <1>4, <1>5, <1>6, <1>7
<1>9. initial_v(p) \in State
  BY <1>3, <1>4, <1>5, <1>6 DEF State, Place
<1> QED BY <1>8, <1>9

\* Both fold the words into the same result.
LEMMA ResultsAgree ==
  ASSUME NEW h \in [1 .. 8 -> BlakeWord], NEW v \in State
  PROVE  compress_result(h, v) = compress_any_result(h, v)
<1>1. \A k \in 1 .. 8 : h[k] \in Nat /\ v[k] \in Nat /\ v[k + 8] \in Nat
  <2>1. \A k \in 1 .. 8 : k \in 1 .. 16 /\ k + 8 \in 1 .. 16
    OBVIOUS
  <2>2. \A x \in BlakeWord : x \in Nat
    BY WordFacts
  <2> QED BY <2>1, <2>2 DEF State, Place
<1>2. \A k \in 1 .. 8 : Xor(Xor(h[k], v[k]), v[k + 8]) = Xor(h[k], Xor(v[k], v[k + 8]))
  BY <1>1, XorAssociates
<1> QED BY <1>2 DEF compress_result, compress_any_result

Rounds == [r : Nat, python : Parameters, v : State, c : Parameters, vc : State]

\* Two implementations that stand at the same round.
BlakeInv ==
  /\ task \in {"none", "blake2"}
  /\ task = "none" => answer = NoAnswer
  /\ task = "blake2" =>
       /\ argv \in BlakeData
       /\ locals # <<>> =>
            locals \in Rounds /\ locals.python = locals.c /\ locals.v = locals.vc
  /\ ImplementationsAgree

\* The check of the data refuses for both or starts both alike.
LEMMA BlakeChecks ==
  ASSUME BlakeInv, CheckBlakeData
  PROVE  BlakeInv'
<1>1. /\ task = "blake2" /\ task' = "blake2" /\ argv' = argv /\ argv \in BlakeData
      /\ locals = <<>>
  BY DEF BlakeInv, CheckBlakeData, Running, Answer, Continue
<1>2. argv \in Seq(0 .. Octet - 1)
  BY <1>1, BlakeConstants
<1>3. CASE Len(argv) # length
  <2>1. /\ answer' = [python |-> BlakeError, lean |-> BlakeError] /\ locals' = locals
    BY <1>3 DEF CheckBlakeData, Answer
  <2> QED BY <1>1, <2>1 DEF BlakeInv, ImplementationsAgree, Running, Answered
<1>4. CASE Len(argv) = length
  <2>1. /\ get_blake2_parameters(argv) = blake2compressb64(argv)
        /\ blake2compressb64(argv) \in Parameters
        /\ blake2compressb64(argv).f = argv[length]
    BY <1>2, <1>4, ParametersAgree
  <2>2. CASE argv[length] \notin {0, 1}
    <3>1. /\ answer' = [python |-> BlakeError, lean |-> BlakeError] /\ locals' = locals
      BY <1>4, <2>1, <2>2 DEF CheckBlakeData, Answer
    <3> QED BY <1>1, <3>1 DEF BlakeInv, ImplementationsAgree, Running, Answered
  <2>3. CASE argv[length] \in {0, 1}
    <3>1. PICK p : p = blake2compressb64(argv)
      OBVIOUS
    <3>2. /\ locals' = [r |-> 0, python |-> p, v |-> initial_v(p),
                        c |-> p, vc |-> compress_any_start(p)]
          /\ answer' = answer /\ answer = NoAnswer
      BY <1>4, <2>1, <2>3, <3>1 DEF CheckBlakeData, Continue, Running
    <3>3. p \in Parameters /\ initial_v(p) = compress_any_start(p) /\ initial_v(p) \in State
      BY <2>1, <3>1, StartsAgree
    <3>4. locals' \in Rounds /\ locals'.python = locals'.c /\ locals'.v = locals'.vc
      BY <3>2, <3>3, SMTT(30) DEF Rounds
    <3> QED BY <1>1, <3>2, <3>4 DEF BlakeInv, ImplementationsAgree, Running, Answered
  <2> QED BY <2>2, <2>3
<1> QED BY <1>3, <1>4

\* A round keeps both implementations in step.
LEMMA BlakeRounds ==
  ASSUME BlakeInv, Round
  PROVE  BlakeInv'
<1>1. /\ task = "blake2" /\ task' = "blake2" /\ argv' = argv /\ argv \in BlakeData
      /\ answer = NoAnswer /\ answer' = NoAnswer
      /\ locals \in Rounds /\ locals.python = locals.c /\ locals.v = locals.vc
      /\ locals' = [locals EXCEPT !.r = @ + 1,
                                  !.v = compress_round(@, locals.python.m, locals.r),
                                  !.vc = compress_any_round(@, locals.c.m, locals.r)]
  BY DEF BlakeInv, Round, Running, Continue
<1>2. locals.v \in State /\ locals.python.m \in [1 .. 16 -> BlakeWord] /\ locals.r \in Nat
  BY <1>1 DEF Rounds, Parameters
<1>3. PICK v : v = compress_any_round(locals.v, locals.python.m, locals.r)
  OBVIOUS
<1>4. v \in State /\ v = compress_round(locals.v, locals.python.m, locals.r)
  BY <1>2, <1>3, RoundsAgree
<1>5. locals' = [locals EXCEPT !.r = locals.r + 1, !.v = v, !.vc = v]
  BY <1>1, <1>3, <1>4 DEF Rounds
<1>6. locals' \in Rounds /\ locals'.python = locals'.c /\ locals'.v = locals'.vc
  <2>1. PICK q : q = locals
    OBVIOUS
  <2>2. q \in Rounds /\ q.python = q.c
    BY <1>1, <2>1
  <2>3. PICK n : n = q.r + 1
    OBVIOUS
  <2>4. n \in Nat
    BY <2>2, <2>3 DEF Rounds
  <2>5. PICK k : k = [q EXCEPT !.r = n, !.v = v, !.vc = v]
    OBVIOUS
  <2>6. k \in Rounds /\ k.python = k.c /\ k.v = k.vc
    BY <1>4, <2>2, <2>4, <2>5 DEF Rounds
  <2>7. locals' = k
    BY <1>5, <2>1, <2>3, <2>5
  <2> QED BY <2>6, <2>7
<1> QED BY <1>1, <1>6 DEF BlakeInv, ImplementationsAgree, Running, Answered

\* The result is the same for both.
LEMMA BlakePacks ==
  ASSUME BlakeInv, PackResult
  PROVE  BlakeInv'
<1>1. /\ task = "blake2" /\ task' = "blake2" /\ argv' = argv /\ argv \in BlakeData
      /\ locals \in Rounds /\ locals.python = locals.c /\ locals.v = locals.vc
      /\ locals' = locals
      /\ answer' = [python |-> compress_result(locals.python.h, locals.v),
                    lean   |-> compress_any_result(locals.c.h, locals.vc)]
  BY DEF BlakeInv, PackResult, Running, Answer
<1>2. locals.v \in State /\ locals.python.h \in [1 .. 8 -> BlakeWord]
  BY <1>1 DEF Rounds, Parameters
<1>3. compress_result(locals.python.h, locals.v) = compress_any_result(locals.c.h, locals.vc)
  BY <1>1, <1>2, ResultsAgree
<1>4. answer'.python = answer'.lean
  BY <1>1, <1>3
<1> QED BY <1>1, <1>4 DEF BlakeInv, ImplementationsAgree, Running, Answered

(***************************************************************************)
(* blake2.py and blake2b_compress_any of ffi.c hold the same parameters    *)
(* and the same 16 words after every round and answer the same result or   *)
(* both refuse, for any data, any width of the words and any distances of  *)
(* the rotations, though the one joins the parts of a rotation by Xor and  *)
(* the other by Or, and they invert the flag word and fold the result in   *)
(* different ways.                                                         *)
(***************************************************************************)
THEOREM BlakeImplementationsAgree == BlakeSpec => []ImplementationsAgree
<1>1. Idle => BlakeInv
  BY DEF Idle, BlakeInv, ImplementationsAgree, Running, Answered
<1>2. BlakeInv /\ [Blake2Next \/ Respond]_computation => BlakeInv'
  <2> SUFFICES ASSUME BlakeInv, [Blake2Next \/ Respond]_computation PROVE BlakeInv'
    OBVIOUS
  <2>1. CASE StartBlake2
    <3>1. /\ task' = "blake2" /\ argv' \in BlakeData /\ locals' = <<>>
          /\ answer = NoAnswer /\ answer' = answer
      BY <2>1 DEF StartBlake2, Idle, Start
    <3> QED BY <3>1 DEF BlakeInv, ImplementationsAgree, Running, Answered
  <2>2. CASE CheckBlakeData
    BY <2>2, BlakeChecks
  <2>3. CASE Round
    BY <2>3, BlakeRounds
  <2>4. CASE PackResult
    BY <2>4, BlakePacks
  <2>5. CASE Respond
    BY <2>5 DEF Respond, BlakeInv, ImplementationsAgree, Running, Answered
  <2>6. CASE UNCHANGED computation
    BY <2>6 DEF computation, BlakeInv, ImplementationsAgree, Running, Answered
  <2> QED BY <2>1, <2>2, <2>3, <2>4, <2>5, <2>6 DEF Blake2Next
<1>3. BlakeInv => ImplementationsAgree
  BY DEF BlakeInv
<1> QED BY <1>1, <1>2, <1>3, PTL DEF BlakeSpec

-----------------------------------------------------------------------------
(***************************************************************************)
(* The numbers of base_types.py and the words of the EVM.                  *)
(***************************************************************************)

Modulus == MAX_VALUE + 1

\* The instances of the word's modules compute with one arithmetic.
LEMMA OneArithmetic ==
  /\ Num!And = And /\ Fix!And = And /\ EVM!And = And
  /\ \A b, n : Num!ToThe(b, n) = ToThe(b, n) /\ Fix!ToThe(b, n) = ToThe(b, n)
               /\ EVM!ToThe(b, n) = ToThe(b, n)
  /\ \A x, y : Num!Xor(x, y) = Xor(x, y) /\ Fix!Xor(x, y) = Xor(x, y)
               /\ EVM!Xor(x, y) = Xor(x, y)
  /\ \A x, y : Fix!Or(x, y) = Or(x, y) /\ EVM!Or(x, y) = Or(x, y)
<1>1. Num!And = And /\ Fix!And = And /\ EVM!And = And
  BY DEF Num!And, Fix!And, EVM!And, And
<1>2. ASSUME NEW b, NEW n
      PROVE  Num!ToThe(b, n) = ToThe(b, n) /\ Fix!ToThe(b, n) = ToThe(b, n)
               /\ EVM!ToThe(b, n) = ToThe(b, n)
  BY DEF Num!ToThe, Fix!ToThe, EVM!ToThe, ToThe
<1>3. ASSUME NEW x, NEW y
      PROVE  Num!Xor(x, y) = Xor(x, y) /\ Fix!Xor(x, y) = Xor(x, y)
               /\ EVM!Xor(x, y) = Xor(x, y)
  BY <1>1 DEF Num!Xor, Fix!Xor, EVM!Xor, Xor
<1>4. ASSUME NEW x, NEW y
      PROVE  Fix!Or(x, y) = Or(x, y) /\ EVM!Or(x, y) = Or(x, y)
  BY <1>1 DEF Fix!Or, EVM!Or, Or
<1> QED BY <1>1, <1>2, <1>3, <1>4

\* The size of a word is the same for the EVM, U256 and its bits.
LEMMA WordConstants ==
  /\ MAX_VALUE \in Nat /\ Modulus \in Nat \ {0} /\ Modulus = MAX_VALUE + 1
  /\ EVM!size = Modulus
  /\ EVM!bits \in Nat /\ Modulus = ToThe(2, EVM!bits)
  /\ Word = 0 .. MAX_VALUE
<1>1. BitsOfByte \in Nat /\ WordBytes \in Nat /\ 2 \in Int /\ MAX_VALUE \in Nat
  BY WordAssumption
<1>2. EVM!size = Modulus
  BY OneArithmetic, WordAssumption DEF EVM!size, Modulus
<1>3. EVM!bits = BitsOfByte * WordBytes
  BY DEF EVM!bits
<1>4. BitsOfByte * WordBytes \in Nat
  BY <1>1
<1>5. Modulus = ToThe(2, BitsOfByte * WordBytes)
  BY <1>1, PowerOfPower, WordAssumption DEF Modulus
<1> QED BY <1>1, <1>2, <1>3, <1>4, <1>5 DEF Modulus, Word

\* The EVM's loop computes a power modulo the size of a word.
Collected(n, a, c) == IF n % 2 = 1 THEN (a * c) % Modulus ELSE a
Squared(c)         == (c * c) % Modulus

\* The recursive function powAux of UInt256.lean exists.
LEMMA PowAuxStep ==
  \A n, a, c \in Nat :
    EVM!powAux[n][a][c] =
      IF n = 0 THEN a ELSE EVM!powAux[n \div 2][Collected(n, a, c)][Squared(c)]
<1> DEFINE Next1(n, a, c) == IF n % 2 = 1 THEN EVM!mul(a, c) ELSE a
           Row(h, n) == [a \in Nat |-> [c \in Nat |-> h[Next1(n, a, c)][EVM!mul(c, c)]]]
           V == [Nat -> [Nat -> Nat]]
           given == [a \in Nat |-> [c \in Nat |-> a]]
           step == [n \in Nat |-> [h \in V |-> Row(h, n)]]
           Is(f) == f = [n \in Nat |-> [a \in Nat |-> [c \in Nat |->
                           IF n = 0 THEN a
                           ELSE f[n \div 2][IF n % 2 = 1 THEN EVM!mul(a, c) ELSE a][EVM!mul(c, c)]]]]
<1>1. \A a, c \in Nat : EVM!mul(a, c) = (a * c) % Modulus /\ EVM!mul(a, c) \in Nat
  <2>1. \A a, c \in Nat : a * c \in Int
    OBVIOUS
  <2>2. \A i \in Int : i % Modulus \in Nat
    BY WordConstants, Remainders
  <2> QED BY <2>1, <2>2, WordConstants DEF EVM!mul
<1>2. ASSUME NEW h \in V, NEW n \in Nat PROVE Row(h, n) \in V
  <2>1. \A a, c \in Nat : Next1(n, a, c) \in Nat /\ EVM!mul(c, c) \in Nat
    BY <1>1
  <2> HIDE DEF Next1
  <2>2. \A a, c \in Nat : h[Next1(n, a, c)][EVM!mul(c, c)] \in Nat
    BY <2>1
  <2> QED BY <2>2
<1>3. given \in V /\ step \in [Nat -> [V -> V]]
  <2> HIDE DEF Row
  <2>1. step \in [Nat -> [V -> V]]
    <3> HIDE DEF V
    <3> QED BY <1>2
  <2>2. given \in V
    OBVIOUS
  <2> QED BY <2>1, <2>2
<1>4. PICK g \in [Nat -> V] : FromHalf(g, given, step)
  <2> HIDE DEF V, given, step
  <2> QED BY <1>3, HalvingRecursion
<1>5. ASSUME NEW n \in Nat
      PROVE g[n] = [a \in Nat |-> [c \in Nat |->
                           IF n = 0 THEN a
                           ELSE g[n \div 2][IF n % 2 = 1 THEN EVM!mul(a, c) ELSE a][EVM!mul(c, c)]]]
  <2>1. n \div 2 \in Nat /\ g[n \div 2] \in V
    <3> HIDE DEF V
    <3> QED OBVIOUS
  <2>2. step[n][g[n \div 2]] = Row(g[n \div 2], n)
    <3> HIDE DEF V, Row
    <3> QED BY <2>1
  <2>3. g[n] = IF n = 0 THEN given ELSE step[n][g[n \div 2]]
    <3> HIDE DEF step, given, V
    <3> QED BY <1>4 DEF FromHalf
  <2>4. CASE n = 0
    <3>1. g[n] = [a \in Nat |-> [c \in Nat |-> a]]
      BY <2>3, <2>4
    <3> QED BY <3>1, <2>4
  <2>5. CASE n # 0
    <3>1. g[n] = Row(g[n \div 2], n)
      BY <2>2, <2>3, <2>5
    <3> QED BY <3>1, <2>5
  <2> QED BY <2>4, <2>5
<1>6. Is(g)
  <2>1. g = [x \in Nat |-> g[x]]
    OBVIOUS
  <2> HIDE DEF V
  <2> QED BY <1>5, <2>1
<1>7. Is(EVM!powAux)
  <2>1. EVM!powAux = CHOOSE f : Is(f)
    BY DEF EVM!powAux
  <2> HIDE DEF Is
  <2> QED BY <1>6, <2>1
<1>8. ASSUME NEW n \in Nat, NEW a \in Nat, NEW c \in Nat
      PROVE  EVM!powAux[n][a][c] =
               IF n = 0 THEN a ELSE EVM!powAux[n \div 2][Next1(n, a, c)][EVM!mul(c, c)]
  <2> DEFINE E(r, k, x, y) == IF k = 0 THEN x ELSE r[Next1(k, x, y)][EVM!mul(y, y)]
  <2>1. EVM!powAux = [k \in Nat |-> [x \in Nat |-> [y \in Nat |-> E(EVM!powAux[k \div 2], k, x, y)]]]
    BY <1>7
  <2> HIDE DEF E
  <2>2. EVM!powAux[n] = [x \in Nat |-> [y \in Nat |-> E(EVM!powAux[n \div 2], n, x, y)]]
    BY <2>1
  <2>3. EVM!powAux[n][a] = [y \in Nat |-> E(EVM!powAux[n \div 2], n, a, y)]
    BY ONLY <2>2, a \in Nat
  <2>4. EVM!powAux[n][a][c] = E(EVM!powAux[n \div 2], n, a, c)
    BY ONLY <2>3, c \in Nat
  <2> QED BY <2>4 DEF E
<1>9. ASSUME NEW n \in Nat, NEW a \in Nat, NEW c \in Nat
      PROVE  EVM!powAux[n][a][c] =
               IF n = 0 THEN a ELSE EVM!powAux[n \div 2][Collected(n, a, c)][Squared(c)]
  <2>1. EVM!mul(a, c) = (a * c) % Modulus /\ EVM!mul(c, c) = (c * c) % Modulus
    BY <1>1
  <2> QED BY ONLY <1>8, <2>1 DEF Next1, Collected, Squared
<1> QED BY ONLY <1>9

\* A power by squaring, from the lowest bit of the exponent.
LEMMA SquarePower ==
  ASSUME NEW c \in Int, NEW n \in Nat
  PROVE  /\ ToThe(c * c, n \div 2) \in Int
         /\ n % 2 = 1 => ToThe(c, n) = c * ToThe(c * c, n \div 2)
         /\ n % 2 # 1 => ToThe(c, n) = ToThe(c * c, n \div 2)
<1>1. PICK h \in Nat : h = n \div 2
  BY Halves
<1>2. (n % 2 = 1 => n = 2 * h + 1) /\ (n % 2 # 1 => n = 2 * h) /\ 2 * h \in Nat
  BY Halves, <1>1
<1>3. ToThe(c, 2) = c * c
  <2>1. ToThe(c, 0) = 1 /\ ToThe(c, 0 + 1) = c * ToThe(c, 0) /\ ToThe(c, 1 + 1) = c * ToThe(c, 1)
    BY PowerStep
  <2>2. 0 + 1 = 1 /\ 1 + 1 = 2 /\ c * 1 = c
    OBVIOUS
  <2> QED BY <2>1, <2>2
<1>4. ToThe(c * c, h) = ToThe(c, 2 * h)
  BY <1>3, PowerOfPower
<1>5. ToThe(c, 2 * h + 1) = c * ToThe(c, 2 * h) /\ ToThe(c, 2 * h) \in Int
  BY <1>2, PowerStep
<1> QED BY <1>1, <1>2, <1>4, <1>5

\* powAux computes a power modulo the size of a word.
LEMMA PowAuxIs ==
  \A n \in Nat : \A a \in Word, c \in Nat : EVM!powAux[n][a][c] = (a * ToThe(c, n)) % Modulus
<1> DEFINE S == {n \in Nat : \A a \in Word, c \in Nat :
                                EVM!powAux[n][a][c] = (a * ToThe(c, n)) % Modulus}
<1>0. \A a : a \in Word <=> a \in Nat /\ a < Modulus
  BY WordConstants
<1>00. Modulus \in Nat \ {0}
  BY WordConstants
<1>1. 0 \in S
  <2> SUFFICES ASSUME NEW a \in Word, NEW c \in Nat
               PROVE  EVM!powAux[0][a][c] = (a * ToThe(c, 0)) % Modulus
    OBVIOUS
  <2>1. EVM!powAux[0][a][c] = a
    BY <1>0, PowAuxStep
  <2>2. ToThe(c, 0) = 1 /\ a * 1 = a
    BY <1>0, PowerStep
  <2>3. a % Modulus = a
    BY <1>0, <1>00, Remainders
  <2> QED BY <2>1, <2>2, <2>3
<1>2. \A n \in Nat \ {0} : n \div 2 \in S => n \in S
  <2> SUFFICES ASSUME NEW n \in Nat \ {0}, n \div 2 \in S, NEW a \in Word, NEW c \in Nat
               PROVE  EVM!powAux[n][a][c] = (a * ToThe(c, n)) % Modulus
    OBVIOUS
  <2>1. PICK h \in Nat : h = n \div 2
    BY Halves
  <2>2. PICK s : s = (c * c) % Modulus
    OBVIOUS
  <2>3. PICK b : b = IF n % 2 = 1 THEN (a * c) % Modulus ELSE a
    OBVIOUS
  <2>4. PICK x : x = IF n % 2 = 1 THEN a * c ELSE a
    OBVIOUS
  <2>5. a \in Nat /\ a * c \in Int /\ c * c \in Int
    BY <1>0
  <2>6. s \in Nat /\ s % Modulus = (c * c) % Modulus
    <3>1. (c * c) % Modulus \in Nat
      BY <1>00, <2>5, Remainders
    <3> QED BY <1>00, <2>2, <2>5, <3>1, RemainderCongruent
  <2>7. b \in Word /\ b \in Nat /\ b % Modulus = x % Modulus /\ x \in Int
    <3>1. (a * c) % Modulus \in Nat /\ (a * c) % Modulus < Modulus
      BY <1>00, <2>5, Remainders
    <3>2. ((a * c) % Modulus) % Modulus = (a * c) % Modulus
      BY <1>00, <2>5, RemainderCongruent
    <3> QED BY <1>0, <2>3, <2>4, <2>5, <3>1, <3>2
  <2>8. EVM!powAux[n][a][c] = EVM!powAux[h][b][s]
    <3>1. n \in Nat /\ a \in Nat /\ c \in Nat /\ n # 0
      BY <2>5
    <3>2. EVM!powAux[n][a][c] = EVM!powAux[n \div 2][Collected(n, a, c)][Squared(c)]
      BY ONLY <3>1, PowAuxStep
    <3>3. b = Collected(n, a, c) /\ s = Squared(c)
      BY <2>2, <2>3 DEF Collected, Squared
    <3> QED BY ONLY <2>1, <3>2, <3>3
  <2>9. EVM!powAux[h][b][s] = (b * ToThe(s, h)) % Modulus
    BY <2>1, <2>6, <2>7
  <2>10. PICK u : u = ToThe(s, h)
    OBVIOUS
  <2>11. PICK t : t = ToThe(c * c, h)
    OBVIOUS
  <2>12. u \in Int /\ t \in Int
    BY <2>5, <2>6, <2>10, <2>11, PowerStep
  <2>13. u % Modulus = t % Modulus
    BY <1>00, <2>5, <2>6, <2>10, <2>11, PowersCongruent
  <2>14. (b * u) % Modulus = (x * u) % Modulus
    <3>1. b \in Int /\ x \in Int /\ u \in Int /\ b % Modulus = x % Modulus
      BY <2>7, <2>12
    <3> QED BY ONLY <1>00, <3>1, Congruent, ZenonT(60)
  <2>15. (x * u) % Modulus = (x * t) % Modulus
    BY <1>00, <2>7, <2>12, <2>13, Congruent, ZenonT(60)
  <2>16. x * t = a * ToThe(c, n)
    <3>1. CASE n % 2 = 1
      <4>1. x = a * c /\ ToThe(c, n) = c * t
        BY <2>1, <2>4, <2>11, <3>1, SquarePower
      <4>2. (a * c) * t = a * (c * t)
        BY <2>5, <2>12
      <4> QED BY <4>1, <4>2
    <3>2. CASE n % 2 # 1
      <4>1. x = a /\ ToThe(c, n) = t
        BY <2>1, <2>4, <2>11, <3>2, SquarePower
      <4> QED BY <4>1
    <3> QED BY <3>1, <3>2
  <2> QED BY <2>8, <2>9, <2>10, <2>14, <2>15, <2>16
<1> HIDE DEF S
<1>3. \A n \in Nat : n \in S
  BY <1>1, <1>2, HalvingInduction
<1> QED BY <1>3 DEF S

\* The EVM's EXP.
LEMMA ExpIs ==
  ASSUME NEW v \in Word, NEW k \in Nat
  PROVE  EVM!exp(v, k) = ToThe(v, k) % Modulus
<1>1. v \in Nat /\ 1 \in Word
  <2>1. Modulus = ToThe(2, EVM!bits) /\ EVM!bits = BitsOfByte * WordBytes
    BY WordConstants DEF EVM!bits
  <2>2. BitsOfByte \in Nat \ {0} /\ WordBytes \in Nat \ {0}
    BY WordAssumption
  <2>3. BitsOfByte * WordBytes \in Nat \ {0}
    BY <2>2
  <2>4. PICK n \in Nat : BitsOfByte * WordBytes = n + 1
    <3>1. \A i \in Nat \ {0} : i - 1 \in Nat /\ i = (i - 1) + 1
      OBVIOUS
    <3> QED BY <2>3, <3>1
  <2>5. Modulus = 2 * ToThe(2, n) /\ ToThe(2, n) \in Nat \ {0}
    BY <2>1, <2>4, TwoPower
  <2> QED BY <2>5, WordConstants
<1>2. ToThe(v, k) \in Int /\ 1 * ToThe(v, k) = ToThe(v, k)
  <2>1. v \in Int
    BY <1>1
  <2>2. PICK y \in Int : y = ToThe(v, k)
    BY <2>1, PowerStep
  <2> QED BY ONLY <2>2
<1>3. EVM!powAux[k][1][v] = (1 * ToThe(v, k)) % Modulus
  BY <1>1, PowAuxIs
<1> QED BY <1>2, <1>3 DEF EVM!exp

\* What a method of FixedUint has to make of the word w.
SoundWord(w, wrapped, operands, o) ==
    /\ o.got \notin Exceptions =>
         /\ o.got \in Word /\ o.exact \in Int
         /\ o.got = o.exact % Modulus /\ o.evm = o.got
         /\ o.wraps \in BOOLEAN
         /\ wrapped \/ o.wraps \/ o.got = o.exact
    /\ o.got = OverflowError /\ ~ wrapped =>
         \E y \in ({o.exact} \cap Int) \cup operands : y \notin Word
    /\ o.got = ZeroDivisionError => 0 \in operands \/ w = 0

\* ... and one of Uint of the number n.
SoundNumber(n, operands, o) ==
    /\ o.got \notin Exceptions =>
         o.got \in Nat /\ o.exact = o.got /\ o.evm = 0 /\ o.wraps = FALSE
    /\ o.got = OverflowError =>
         \E y \in ({o.exact} \cap Int) \cup operands : ~ (y >= 0)
    /\ o.got = ZeroDivisionError => 0 \in operands \/ n = 0

\* An exception is no number, and no two exceptions that matter are one.
LEMMA ExceptionsApart ==
  /\ \A i \in Int : i \notin Exceptions /\ i \notin {OverflowError, ZeroDivisionError, ValueError}
  /\ \A i, j \in Int : <<i, j>> \notin Exceptions
  /\ OverflowError \in Exceptions /\ ZeroDivisionError \in Exceptions /\ ValueError \in Exceptions
  /\ OverflowError # ZeroDivisionError /\ ValueError # OverflowError
  /\ ValueError # ZeroDivisionError
<1>1. OverflowError \in Exceptions /\ ZeroDivisionError \in Exceptions /\ ValueError \in Exceptions
  BY DEF Exceptions
<1>2. \A i \in Int : i \notin Exceptions
  BY NumbersAssumption
<1>3. \A i, j \in Int : <<i, j>> \notin Exceptions
  <2>1. \A i, j \in Int : <<i, j>> \in Seq(Int)
    OBVIOUS
  <2>2. \A e \in Exceptions : e \notin Seq(Int)
    BY NumbersAssumption
  <2> QED BY <2>1, <2>2
<1>4. /\ OverflowError # ZeroDivisionError /\ ValueError # OverflowError
      /\ ValueError # ZeroDivisionError
  BY NumbersAssumption
<1> QED BY <1>1, <1>2, <1>3, <1>4

\* What is a word, and that every remainder is one.
LEMMA WordIs ==
  /\ \A a : a \in Word <=> a \in Nat /\ a < Modulus
  /\ \A a : a \in Word <=> a \in Int /\ 0 <= a /\ a <= MAX_VALUE
  /\ \A a : a \in Word => a % Modulus = a
  /\ \A i \in Int : i % Modulus \in Word /\ (i % Modulus) % Modulus = i % Modulus
<1>1. Modulus \in Nat \ {0} /\ MAX_VALUE \in Nat /\ Modulus = MAX_VALUE + 1 /\ Word = 0 .. MAX_VALUE
  BY WordConstants
<1>2. \A a : a \in Word <=> a \in Nat /\ a < Modulus
  BY <1>1
<1>3. \A a : a \in Word <=> a \in Int /\ 0 <= a /\ a <= MAX_VALUE
  BY <1>1
<1>4. ASSUME NEW a \in Word PROVE a % Modulus = a
  <2>1. a \in Nat /\ Modulus \in Nat \ {0} /\ a < Modulus
    BY <1>1, <1>2
  <2> QED BY ONLY <2>1
<1>5. ASSUME NEW i \in Int PROVE i % Modulus \in Word /\ (i % Modulus) % Modulus = i % Modulus
  <2>1. i % Modulus \in Nat /\ i % Modulus < Modulus
    BY <1>1, Remainders
  <2>2. (i % Modulus) % Modulus = i % Modulus
    BY <1>1, RemainderCongruent
  <2> QED BY <1>2, <2>1, <2>2
<1> QED BY <1>2, <1>3, <1>4, <1>5

\* What a method needs to be sound that does not commute with wrapping.
LEMMA AnewWord ==
  ASSUME NEW w, NEW wrapped \in BOOLEAN, NEW operands, NEW got, NEW evm,
         \/ got \in Word /\ evm = got
         \/ got = OverflowError /\ \E y \in operands : y \notin Word
         \/ got = ZeroDivisionError /\ (0 \in operands \/ w = 0)
         \/ got = ValueError
  PROVE  SoundWord(w, wrapped, operands, Anew(got, evm))
<1>1. CASE got \in Word /\ evm = got
  <2>1. got \in Int /\ got % Modulus = got
    BY <1>1, WordIs
  <2>2. got \notin Exceptions /\ got # OverflowError /\ got # ZeroDivisionError
    BY <2>1, ExceptionsApart
  <2> QED BY <1>1, <2>1, <2>2 DEF SoundWord, Anew, Outcome
<1>2. CASE got \notin Word
  <2>1. CASE got = OverflowError /\ \E y \in operands : y \notin Word
    BY <2>1, ExceptionsApart DEF SoundWord, Anew, Outcome
  <2>2. CASE got = ZeroDivisionError /\ (0 \in operands \/ w = 0)
    BY <2>2, ExceptionsApart DEF SoundWord, Anew, Outcome
  <2>3. CASE got = ValueError
    BY <2>3, ExceptionsApart DEF SoundWord, Anew, Outcome
  <2> QED BY <1>2, <2>1, <2>2, <2>3
<1> QED BY <1>1, <1>2, ExceptionsApart, WordIs

\* What a checked sum, difference, product or power needs to be sound.
LEMMA RingWord ==
  ASSUME NEW w, NEW wrapped \in BOOLEAN, NEW operands, NEW got, NEW f \in Int, NEW evm,
         \/ got \in Word /\ evm = got /\ got = f % Modulus /\ (wrapped \/ got = f)
         \/ got = OverflowError /\ (~ wrapped => \E y \in {f} \cup operands : y \notin Word)
         \/ got = ValueError
  PROVE  SoundWord(w, wrapped, operands, Ring(got, f, evm))
<1>1. CASE got \in Word /\ evm = got /\ got = f % Modulus /\ (wrapped \/ got = f)
  <2>1. got \in Int
    BY <1>1, WordIs
  <2>2. got \notin Exceptions /\ got # OverflowError /\ got # ZeroDivisionError
    BY <2>1, ExceptionsApart
  <2> QED BY <1>1, <2>1, <2>2 DEF SoundWord, Ring, Outcome
<1>2. CASE got = OverflowError /\ (~ wrapped => \E y \in {f} \cup operands : y \notin Word)
  BY <1>2, ExceptionsApart DEF SoundWord, Ring, Outcome
<1>3. CASE got = ValueError
  BY <1>3, ExceptionsApart DEF SoundWord, Ring, Outcome
<1> QED BY <1>1, <1>2, <1>3

\* What a wrapping method needs to be sound.
LEMMA WrapWord ==
  ASSUME NEW w, NEW wrapped \in BOOLEAN, NEW operands, NEW got, NEW f \in Int, NEW evm,
         \/ got \in Word /\ evm = got /\ got = f % Modulus
         \/ got = OverflowError /\ \E y \in operands : y \notin Word
         \/ got = ValueError
  PROVE  SoundWord(w, wrapped, operands, Wrap(got, f, evm))
<1>1. CASE got \in Word /\ evm = got /\ got = f % Modulus
  <2>1. got \in Int
    BY <1>1, WordIs
  <2>2. got \notin Exceptions /\ got # OverflowError /\ got # ZeroDivisionError
    BY <2>1, ExceptionsApart
  <2> QED BY <1>1, <2>1, <2>2 DEF SoundWord, Wrap, Outcome
<1>2. CASE got = OverflowError /\ \E y \in operands : y \notin Word
  BY <1>2, ExceptionsApart DEF SoundWord, Wrap, Outcome
<1>3. CASE got = ValueError
  BY <1>3, ExceptionsApart DEF SoundWord, Wrap, Outcome
<1> QED BY <1>1, <1>2, <1>3

\* The EVM's ring of words.
LEMMA EvmRing ==
  ASSUME NEW w \in Word, NEW x \in Int
  PROVE  /\ EVM!add(w, EVM!ofNat(x)) = (w + x) % Modulus
         /\ EVM!sub(w, EVM!ofNat(x)) = (w - x) % Modulus
         /\ EVM!sub(EVM!ofNat(x), w) = (x - w) % Modulus
         /\ EVM!mul(w, EVM!ofNat(x)) = (w * x) % Modulus
         /\ EVM!lnot(w) = (-w - 1) % Modulus
         /\ x \in Word => EVM!ofNat(x) = x
<1>0. Modulus \in Nat \ {0} /\ w \in Int /\ EVM!size = Modulus
  BY WordConstants, WordIs
<1>1. PICK u \in Int : u = x % Modulus /\ u % Modulus = x % Modulus
  <2>1. x % Modulus \in Word /\ (x % Modulus) % Modulus = x % Modulus
    BY WordIs
  <2> QED BY <2>1, WordIs
<1>2. EVM!ofNat(x) = u
  BY <1>0, <1>1 DEF EVM!ofNat
<1>3. (u + w) % Modulus = (x + w) % Modulus /\ (u - w) % Modulus = (x - w) % Modulus
      /\ (w - u) % Modulus = (w - x) % Modulus /\ (w * u) % Modulus = (w * x) % Modulus
  <2>1. u % Modulus = x % Modulus
    BY <1>1
  <2>2. (u + w) % Modulus = (x + w) % Modulus
    BY ONLY <1>0, <2>1, u \in Int, x \in Int, Congruent, ZenonT(60)
  <2>3. (u - w) % Modulus = (x - w) % Modulus
    BY ONLY <1>0, <2>1, u \in Int, x \in Int, Congruent, ZenonT(60)
  <2>4. (w - u) % Modulus = (w - x) % Modulus
    BY ONLY <1>0, <2>1, u \in Int, x \in Int, Congruent, ZenonT(60)
  <2>5. (w * u) % Modulus = (w * x) % Modulus
    BY ONLY <1>0, <2>1, u \in Int, x \in Int, Congruent, ZenonT(60)
  <2> QED BY ONLY <2>2, <2>3, <2>4, <2>5
<1>4. u + w = w + u /\ x + w = w + x
  BY <1>0
<1>5. EVM!lnot(w) = (-w - 1) % Modulus
  <2>1. EVM!lnot(w) = (Modulus - 1 - w) % Modulus
    BY <1>0 DEF EVM!lnot, EVM!sub
  <2>2. -w - 1 = Modulus * (-1) + (Modulus - 1 - w) /\ Modulus - 1 - w \in Int /\ -1 \in Int
    BY <1>0
  <2>3. (Modulus * (-1) + (Modulus - 1 - w)) % Modulus = (Modulus - 1 - w) % Modulus
    BY <1>0, <2>2, MultiplesVanish
  <2> QED BY <2>1, <2>2, <2>3
<1>6. x \in Word => u = x
  BY <1>1, WordIs
<1> QED BY <1>0, <1>2, <1>3, <1>4, <1>5, <1>6 DEF EVM!add, EVM!sub, EVM!mul

\* Sums, differences and products, checked and wrapping.
LEMMA SumsSound ==
  ASSUME NEW w \in Word, NEW e \in Int, w = e % Modulus,
         NEW wrapped \in BOOLEAN, wrapped \/ w = e, NEW x \in Int, NEW u, u = EVM!ofNat(x)
  PROVE  /\ SoundWord(w, wrapped, {x}, Ring(Fix!add(w, x), e + x, EVM!add(w, u)))
         /\ SoundWord(w, wrapped, {x}, Ring(Fix!sub(w, x), e - x, EVM!sub(w, u)))
         /\ SoundWord(w, wrapped, {x}, Ring(Fix!rsub(w, x), x - e, EVM!sub(u, w)))
         /\ SoundWord(w, wrapped, {x}, Ring(Fix!mul(w, x), e * x, EVM!mul(w, u)))
         /\ SoundWord(w, wrapped, {x}, Wrap(Fix!wrapping_add(w, x), e + x, EVM!add(w, u)))
         /\ SoundWord(w, wrapped, {x}, Wrap(Fix!wrapping_sub(w, x), e - x, EVM!sub(w, u)))
         /\ SoundWord(w, wrapped, {x}, Wrap(Fix!wrapping_mul(w, x), e * x, EVM!mul(w, u)))
         /\ SoundWord(w, wrapped, {x}, Wrap(Fix!invert(w), -e - 1, EVM!lnot(w)))
<1>0. Modulus \in Nat \ {0} /\ w \in Int /\ MAX_VALUE \in Nat /\ Modulus = MAX_VALUE + 1
  BY WordConstants, WordIs
<1>1. w % Modulus = e % Modulus
  BY WordIs
<1>2. /\ (w + x) % Modulus = (e + x) % Modulus /\ (w - x) % Modulus = (e - x) % Modulus
      /\ (x - w) % Modulus = (x - e) % Modulus /\ (w * x) % Modulus = (e * x) % Modulus
  <2>1. (w + x) % Modulus = (e + x) % Modulus
    BY ONLY <1>0, <1>1, e \in Int, x \in Int, Congruent, ZenonT(60)
  <2>2. (w - x) % Modulus = (e - x) % Modulus
    BY ONLY <1>0, <1>1, e \in Int, x \in Int, Congruent, ZenonT(60)
  <2>3. (x - w) % Modulus = (x - e) % Modulus
    BY ONLY <1>0, <1>1, e \in Int, x \in Int, Congruent, ZenonT(60)
  <2>4. (w * x) % Modulus = (e * x) % Modulus
    BY ONLY <1>0, <1>1, e \in Int, x \in Int, Congruent, ZenonT(60)
  <2> QED BY ONLY <2>1, <2>2, <2>3, <2>4
<1>3. (-w - 1) % Modulus = (-e - 1) % Modulus
  BY ONLY <1>0, <1>1, e \in Int, ComplementCongruent
<1>4. \A i \in Int : i % Modulus \in Word
  BY WordIs
<1>5. /\ w + x \in Int /\ w - x \in Int /\ x - w \in Int /\ w * x \in Int /\ -w - 1 \in Int
      /\ e + x \in Int /\ e - x \in Int /\ x - e \in Int /\ e * x \in Int /\ -e - 1 \in Int
  BY <1>0
<1>6. /\ EVM!add(w, u) = (w + x) % Modulus /\ EVM!sub(w, u) = (w - x) % Modulus
      /\ EVM!sub(u, w) = (x - w) % Modulus /\ EVM!mul(w, u) = (w * x) % Modulus
      /\ EVM!lnot(w) = (-w - 1) % Modulus
  BY EvmRing
<1>7. SoundWord(w, wrapped, {x}, Ring(Fix!add(w, x), e + x, EVM!add(w, u)))
  <2>1. CASE x >= 0 /\ w + x <= MAX_VALUE
    <3>1. Fix!add(w, x) = w + x
      BY <2>1 DEF Fix!add, Fix!Checked
    <3>2. w + x \in Word /\ (w + x) % Modulus = w + x
      <4>1. 0 <= w + x /\ w + x <= MAX_VALUE
        BY <1>0, <2>1, WordIs
      <4> QED BY <1>5, <4>1, WordIs
    <3> QED BY <1>2, <1>5, <1>6, <3>1, <3>2, RingWord, ZenonT(60)
  <2>2. CASE ~ (x >= 0 /\ w + x <= MAX_VALUE)
    <3>1. Fix!add(w, x) = OverflowError
      BY <2>2 DEF Fix!add, Fix!Checked
    <3>2. ~ wrapped => \E y \in {e + x} \cup {x} : y \notin Word
      BY <1>0, <2>2, WordIs
    <3> QED BY <1>5, <3>1, <3>2, RingWord
  <2> QED BY <2>1, <2>2
<1>8. SoundWord(w, wrapped, {x}, Ring(Fix!sub(w, x), e - x, EVM!sub(w, u)))
  <2>1. CASE x \in 0 .. MAX_VALUE /\ w >= x
    <3>1. Fix!sub(w, x) = w - x
      BY <2>1 DEF Fix!sub, Fix!Checked, Fix!Fits
    <3>2. w - x \in Word /\ (w - x) % Modulus = w - x
      <4>1. 0 <= w - x /\ w - x <= MAX_VALUE
        BY <1>0, <2>1, WordIs
      <4> QED BY <1>5, <4>1, WordIs
    <3> QED BY <1>2, <1>5, <1>6, <3>1, <3>2, RingWord, ZenonT(60)
  <2>2. CASE ~ (x \in 0 .. MAX_VALUE /\ w >= x)
    <3>1. Fix!sub(w, x) = OverflowError
      BY <2>2 DEF Fix!sub, Fix!Checked, Fix!Fits
    <3>2. ~ wrapped => \E y \in {e - x} \cup {x} : y \notin Word
      BY <1>0, <2>2, WordIs
    <3> QED BY <1>5, <3>1, <3>2, RingWord
  <2> QED BY <2>1, <2>2
<1>9. SoundWord(w, wrapped, {x}, Ring(Fix!rsub(w, x), x - e, EVM!sub(u, w)))
  <2>1. CASE x \in 0 .. MAX_VALUE /\ w <= x
    <3>1. Fix!rsub(w, x) = x - w
      BY <2>1 DEF Fix!rsub, Fix!Checked, Fix!Fits
    <3>2. x - w \in Word /\ (x - w) % Modulus = x - w
      <4>1. 0 <= x - w /\ x - w <= MAX_VALUE
        BY <1>0, <2>1, WordIs
      <4> QED BY <1>5, <4>1, WordIs
    <3> QED BY <1>2, <1>5, <1>6, <3>1, <3>2, RingWord, ZenonT(60)
  <2>2. CASE ~ (x \in 0 .. MAX_VALUE /\ w <= x)
    <3>1. Fix!rsub(w, x) = OverflowError
      BY <2>2 DEF Fix!rsub, Fix!Checked, Fix!Fits
    <3>2. ~ wrapped => \E y \in {x - e} \cup {x} : y \notin Word
      BY <1>0, <2>2, WordIs
    <3> QED BY <1>5, <3>1, <3>2, RingWord
  <2> QED BY <2>1, <2>2
<1>10. SoundWord(w, wrapped, {x}, Ring(Fix!mul(w, x), e * x, EVM!mul(w, u)))
  <2>1. CASE x >= 0 /\ w * x <= MAX_VALUE
    <3>1. Fix!mul(w, x) = w * x
      BY <2>1 DEF Fix!mul, Fix!Checked
    <3>2. w * x \in Word /\ (w * x) % Modulus = w * x
      <4>1. w \in Nat /\ x \in Nat
        BY <2>1, WordIs
      <4>2. w * x \in Nat
        BY <4>1
      <4> QED BY <1>5, <2>1, <4>2, WordIs
    <3> QED BY <1>2, <1>5, <1>6, <3>1, <3>2, RingWord, ZenonT(60)
  <2>2. CASE ~ (x >= 0 /\ w * x <= MAX_VALUE)
    <3>1. Fix!mul(w, x) = OverflowError
      BY <2>2 DEF Fix!mul, Fix!Checked
    <3>2. ~ wrapped => \E y \in {e * x} \cup {x} : y \notin Word
      <4>1. CASE x >= 0
        BY <1>0, <1>5, <2>2, <4>1, WordIs
      <4>2. CASE ~ (x >= 0)
        BY <4>2, WordIs
      <4> QED BY <4>1, <4>2
    <3> QED BY <1>5, <3>1, <3>2, RingWord
  <2> QED BY <2>1, <2>2
<1>11. \A i : Fix!Fits(x) => Fix!Checked(Fix!Fits(x), i) = i
  BY DEF Fix!Checked
<1>12. ~ Fix!Fits(x) => /\ \A i : Fix!Checked(Fix!Fits(x), i) = OverflowError
                        /\ \E y \in {x} : y \notin Word
  BY WordConstants DEF Fix!Fits, Fix!Checked
<1>13. SoundWord(w, wrapped, {x}, Wrap(Fix!wrapping_add(w, x), e + x, EVM!add(w, u)))
  <2>1. Fix!wrapping_add(w, x) = Fix!Checked(Fix!Fits(x), (w + x) % Modulus)
    BY DEF Fix!wrapping_add, Fix!Masked, Modulus
  <2> QED BY <1>2, <1>4, <1>5, <1>6, <1>11, <1>12, <2>1, WrapWord, ZenonT(60)
<1>14. SoundWord(w, wrapped, {x}, Wrap(Fix!wrapping_sub(w, x), e - x, EVM!sub(w, u)))
  <2>1. Fix!wrapping_sub(w, x) = Fix!Checked(Fix!Fits(x), (w - x) % Modulus)
    BY DEF Fix!wrapping_sub, Fix!Masked, Modulus
  <2> QED BY <1>2, <1>4, <1>5, <1>6, <1>11, <1>12, <2>1, WrapWord, ZenonT(60)
<1>15. SoundWord(w, wrapped, {x}, Wrap(Fix!wrapping_mul(w, x), e * x, EVM!mul(w, u)))
  <2>1. Fix!wrapping_mul(w, x) = Fix!Checked(Fix!Fits(x), (w * x) % Modulus)
    BY DEF Fix!wrapping_mul, Fix!Masked, Modulus
  <2> QED BY <1>2, <1>4, <1>5, <1>6, <1>11, <1>12, <2>1, WrapWord, ZenonT(60)
<1>16. SoundWord(w, wrapped, {x}, Wrap(Fix!invert(w), -e - 1, EVM!lnot(w)))
  <2>1. Fix!invert(w) = (-w - 1) % Modulus
    BY DEF Fix!invert, Fix!Masked, Modulus
  <2> QED BY <1>3, <1>4, <1>5, <1>6, <2>1, WrapWord
<1> QED BY <1>7, <1>8, <1>9, <1>10, <1>13, <1>14, <1>15, <1>16

\* Quotient and remainder of words are words.
LEMMA QuotientWords ==
  ASSUME NEW a \in Word, NEW b \in Word, b # 0
  PROVE  a \div b \in Word /\ a % b \in Word
<1>1. a \in Nat /\ b \in Nat \ {0} /\ a <= MAX_VALUE /\ b <= MAX_VALUE /\ MAX_VALUE \in Nat
  BY WordIs, WordConstants
<1>2. a % b \in Nat /\ a % b < b /\ a \div b \in Int /\ a = b * (a \div b) + (a % b)
  BY <1>1, Remainders
<1>3. a \div b \in Nat
  BY ONLY <1>1
<1>4. PICK q \in Nat : q = a \div b
  BY <1>3
<1>5. PICK r \in Nat : r = a % b
  BY <1>2
<1>6. a = b * q + r /\ r < b
  BY <1>2, <1>4, <1>5
<1>7. \A i \in Nat \ {0} : \A j \in Nat : j <= i * j
  OBVIOUS
<1>8. q <= b * q /\ b * q \in Nat
  BY <1>1, <1>7
<1>9. q <= MAX_VALUE /\ r <= MAX_VALUE
  BY <1>1, <1>6, <1>8
<1> QED BY <1>4, <1>5, <1>9, WordIs

\* An operand that fits, or what comes of one that does not.
LEMMA FitsIs ==
  ASSUME NEW x
  PROVE  /\ Fix!Fits(x) <=> x \in Word
         /\ x \in Word => \A i : Fix!Checked(Fix!Fits(x), i) = i
         /\ x \notin Word => \A i : Fix!Checked(Fix!Fits(x), i) = OverflowError
<1>1. Fix!Fits(x) <=> x \in Word
  BY WordConstants DEF Fix!Fits
<1> QED BY <1>1 DEF Fix!Checked

\* Any quotient or remainder that FixedUint checks is sound.
LEMMA QuotientSound ==
  ASSUME NEW w \in Word, NEW wrapped \in BOOLEAN, NEW x \in Int, NEW d \in {w, x}, NEW q, NEW evm,
         x \in Word /\ d # 0 => q \in Word /\ evm = q
  PROVE  SoundWord(w, wrapped, {x}, Anew(Fix!Checked(Fix!Fits(x), Fix!Divided(d, q)), evm))
<1>0. PICK got : got = Fix!Checked(Fix!Fits(x), Fix!Divided(d, q))
  OBVIOUS
<1>1. CASE x \notin Word
  <2>1. got = OverflowError
    BY <1>0, <1>1, FitsIs
  <2> QED BY <1>0, <1>1, <2>1, AnewWord
<1>2. CASE x \in Word /\ d = 0
  <2>1. got = ZeroDivisionError
    BY <1>0, <1>2, FitsIs DEF Fix!Divided
  <2>2. 0 \in {x} \/ w = 0
    BY <1>2
  <2> QED BY <1>0, <2>1, <2>2, AnewWord
<1>3. CASE x \in Word /\ d # 0
  <2>1. got = q
    BY <1>0, <1>3, FitsIs DEF Fix!Divided
  <2> QED BY <1>0, <1>3, <2>1, AnewWord
<1> QED BY <1>1, <1>2, <1>3

\* Quotients and remainders, one by one or in pairs.
LEMMA QuotientsSound ==
  ASSUME NEW w \in Word, NEW wrapped \in BOOLEAN, NEW x \in Int, NEW u, u = EVM!ofNat(x)
  PROVE  /\ SoundWord(w, wrapped, {x}, Anew(Fix!floordiv(w, x), EVM!div(w, u)))
         /\ SoundWord(w, wrapped, {x}, Anew(Fix!rfloordiv(w, x), EVM!div(u, w)))
         /\ SoundWord(w, wrapped, {x}, Anew(Fix!mod(w, x), EVM!mod(w, u)))
         /\ SoundWord(w, wrapped, {x}, Anew(Fix!rmod(w, x), EVM!mod(u, w)))
         /\ SoundWord(w, wrapped, {x}, Anew(Part(1, Fix!divmod(w, x)), EVM!div(w, u)))
         /\ SoundWord(w, wrapped, {x}, Anew(Part(2, Fix!divmod(w, x)), EVM!mod(w, u)))
         /\ SoundWord(w, wrapped, {x}, Anew(Part(1, Fix!rdivmod(w, x)), EVM!div(u, w)))
         /\ SoundWord(w, wrapped, {x}, Anew(Part(2, Fix!rdivmod(w, x)), EVM!mod(u, w)))
<1>1. x \in Word => u = x
  BY EvmRing
<1>2. ASSUME x \in Word, x # 0
      PROVE  w \div x \in Word /\ w % x \in Word /\ EVM!div(w, u) = w \div x /\ EVM!mod(w, u) = w % x
  BY <1>1, <1>2, QuotientWords DEF EVM!div, EVM!mod
<1>3. ASSUME x \in Word, w # 0
      PROVE  x \div w \in Word /\ x % w \in Word /\ EVM!div(u, w) = x \div w /\ EVM!mod(u, w) = x % w
  BY <1>1, <1>3, QuotientWords DEF EVM!div, EVM!mod
<1>4. SoundWord(w, wrapped, {x}, Anew(Fix!Checked(Fix!Fits(x), Fix!Divided(x, w \div x)), EVM!div(w, u)))
  BY ONLY <1>2, w \in Word, wrapped \in BOOLEAN, x \in Int, QuotientSound
<1>5. SoundWord(w, wrapped, {x}, Anew(Fix!Checked(Fix!Fits(x), Fix!Divided(w, x \div w)), EVM!div(u, w)))
  BY ONLY <1>3, w \in Word, wrapped \in BOOLEAN, x \in Int, QuotientSound
<1>6. SoundWord(w, wrapped, {x}, Anew(Fix!Checked(Fix!Fits(x), Fix!Divided(x, w % x)), EVM!mod(w, u)))
  BY ONLY <1>2, w \in Word, wrapped \in BOOLEAN, x \in Int, QuotientSound
<1>7. SoundWord(w, wrapped, {x}, Anew(Fix!Checked(Fix!Fits(x), Fix!Divided(w, x % w)), EVM!mod(u, w)))
  BY ONLY <1>3, w \in Word, wrapped \in BOOLEAN, x \in Int, QuotientSound
<1>8. /\ Fix!floordiv(w, x)  = Fix!Checked(Fix!Fits(x), Fix!Divided(x, w \div x))
      /\ Fix!rfloordiv(w, x) = Fix!Checked(Fix!Fits(x), Fix!Divided(w, x \div w))
      /\ Fix!mod(w, x)       = Fix!Checked(Fix!Fits(x), Fix!Divided(x, w % x))
      /\ Fix!rmod(w, x)      = Fix!Checked(Fix!Fits(x), Fix!Divided(w, x % w))
  BY ONLY DEF Fix!floordiv, Fix!rfloordiv, Fix!mod, Fix!rmod
<1>9. ASSUME NEW fits \in BOOLEAN, NEW d, NEW q, NEW r, fits /\ d # 0 => q \in Int /\ r \in Int
      PROVE  LET pair == Fix!Checked(fits, Fix!Divided(d, <<q, r>>))
             IN  /\ Part(1, pair) = Fix!Checked(fits, Fix!Divided(d, q))
                 /\ Part(2, pair) = Fix!Checked(fits, Fix!Divided(d, r))
  <2>1. CASE ~ fits
    BY <2>1, ExceptionsApart DEF Part, Fix!Checked
  <2>2. CASE fits /\ d = 0
    BY <2>2, ExceptionsApart DEF Part, Fix!Checked, Fix!Divided
  <2>3. CASE fits /\ d # 0
    <3>1. q \in Int /\ r \in Int
      BY <1>9, <2>3
    <3>2. <<q, r>> \notin Exceptions /\ <<q, r>>[1] = q /\ <<q, r>>[2] = r
      BY <3>1, ExceptionsApart
    <3> QED BY <2>3, <3>2 DEF Part, Fix!Checked, Fix!Divided
  <2> QED BY <2>1, <2>2, <2>3
<1>10. /\ Part(1, Fix!divmod(w, x)) = Fix!Checked(Fix!Fits(x), Fix!Divided(x, w \div x))
       /\ Part(2, Fix!divmod(w, x)) = Fix!Checked(Fix!Fits(x), Fix!Divided(x, w % x))
  <2>1. Fix!divmod(w, x) = Fix!Checked(Fix!Fits(x), Fix!Divided(x, <<w \div x, w % x>>))
    BY ONLY DEF Fix!divmod
  <2>2. Fix!Fits(x) \in BOOLEAN /\ (Fix!Fits(x) /\ x # 0 => w \div x \in Int /\ w % x \in Int)
    <3>1. Fix!Fits(x) \in BOOLEAN
      BY DEF Fix!Fits
    <3> QED BY <1>2, <3>1, FitsIs, WordIs
  <2> QED BY ONLY <2>1, <2>2, <1>9
<1>11. /\ Part(1, Fix!rdivmod(w, x)) = Fix!Checked(Fix!Fits(x), Fix!Divided(w, x \div w))
       /\ Part(2, Fix!rdivmod(w, x)) = Fix!Checked(Fix!Fits(x), Fix!Divided(w, x % w))
  <2>1. Fix!rdivmod(w, x) = Fix!Checked(Fix!Fits(x), Fix!Divided(w, <<x \div w, x % w>>))
    BY ONLY DEF Fix!rdivmod
  <2>2. Fix!Fits(x) \in BOOLEAN /\ (Fix!Fits(x) /\ w # 0 => x \div w \in Int /\ x % w \in Int)
    <3>1. Fix!Fits(x) \in BOOLEAN
      BY DEF Fix!Fits
    <3> QED BY <1>3, <3>1, FitsIs, WordIs
  <2> QED BY ONLY <2>1, <2>2, <1>9
<1> QED BY <1>4, <1>5, <1>6, <1>7, <1>8, <1>10, <1>11

\* Bit by bit.
LEMMA BitsSound ==
  ASSUME NEW w \in Word, NEW wrapped \in BOOLEAN, NEW x \in Int, NEW u, u = EVM!ofNat(x)
  PROVE  /\ SoundWord(w, wrapped, {x}, Anew(Fix!and(w, x), EVM!land(w, u)))
         /\ SoundWord(w, wrapped, {x}, Anew(Fix!or(w, x), EVM!lor(w, u)))
         /\ SoundWord(w, wrapped, {x}, Anew(Fix!xor(w, x), EVM!xor(w, u)))
         /\ SoundWord(w, wrapped, {x}, Anew(Fix!rxor(w, x), EVM!xor(u, w)))
<1>1. x \in Word => u = x
  BY EvmRing
<1>2. /\ Fix!and(w, x) = Fix!Checked(Fix!Fits(x), And[w][x])
      /\ Fix!or(w, x) = Fix!Checked(Fix!Fits(x), Or(w, x))
      /\ Fix!xor(w, x) = Fix!Checked(Fix!Fits(x), Xor(w, x))
      /\ Fix!rxor(w, x) = Fix!Checked(Fix!Fits(x), Xor(x, w))
  BY OneArithmetic DEF Fix!and, Fix!or, Fix!xor, Fix!rxor
<1>3. /\ EVM!land(w, u) = And[w][u] /\ EVM!lor(w, u) = Or(w, u)
      /\ EVM!xor(w, u) = Xor(w, u) /\ EVM!xor(u, w) = Xor(u, w)
  BY OneArithmetic DEF EVM!land, EVM!lor, EVM!xor
<1>4. ASSUME x \in Word
      PROVE  And[w][x] \in Word /\ Or(w, x) \in Word /\ Xor(w, x) \in Word /\ Xor(x, w) \in Word
  <2>1. w \in Nat /\ x \in Nat /\ w < Modulus /\ x < Modulus /\ Modulus \in Nat
    BY <1>4, WordIs, WordConstants
  <2>2. Modulus = ToThe(2, EVM!bits) /\ EVM!bits \in Nat
    BY WordConstants
  <2>3. Or(w, x) < Modulus /\ Xor(w, x) < Modulus /\ Xor(x, w) < Modulus
    BY <2>1, <2>2, OrBound
  <2>4. And[w][x] \in Nat /\ Or(w, x) \in Nat /\ Xor(w, x) \in Nat /\ Xor(x, w) \in Nat
    BY <2>1, AndHalves, XorHalves
  <2>5. And[w][x] < Modulus
    <3>1. And[w][x] <= w
      BY <2>1, AndBounds
    <3> QED BY <2>1, <2>4, <3>1
  <2> QED BY <2>3, <2>4, <2>5, WordIs
<1>5. CASE x \in Word
  <2>1. /\ Fix!and(w, x) = And[w][x] /\ Fix!or(w, x) = Or(w, x)
        /\ Fix!xor(w, x) = Xor(w, x) /\ Fix!rxor(w, x) = Xor(x, w)
    BY <1>2, <1>5, FitsIs
  <2> QED BY <1>1, <1>3, <1>4, <1>5, <2>1, AnewWord
<1>6. CASE x \notin Word
  <2>1. /\ Fix!and(w, x) = OverflowError /\ Fix!or(w, x) = OverflowError
        /\ Fix!xor(w, x) = OverflowError /\ Fix!rxor(w, x) = OverflowError
    BY <1>2, <1>6, FitsIs
  <2>2. \E y \in {x} : y \notin Word
    BY <1>6
  <2> QED BY <2>1, <2>2, AnewWord
<1> QED BY <1>5, <1>6

\* A power without a modulo, and with one.
LEMMA PowerIs ==
  ASSUME NEW b \in Nat, NEW k \in Nat
  PROVE  /\ Fix!Power(b, k, Fix!None) = ToThe(b, k) /\ Fix!FitsModulo(Fix!None)
         /\ Num!Power(b, k, Num!None) = ToThe(b, k)
         /\ ToThe(b, k) \in Nat
         /\ \A m \in Nat :
              /\ Fix!Power(b, k, m) = IF m = 0 THEN ValueError ELSE ToThe(b, k) % m
              /\ Num!Power(b, k, m) = IF m = 0 THEN ValueError ELSE ToThe(b, k) % m
              /\ m # 0 => ToThe(b, k) % m \in Nat /\ ToThe(b, k) % m < m
              /\ Fix!FitsModulo(m) <=> m \in Word
<1>1. Fix!None = -1 /\ Num!None = -1 /\ \A m \in Nat : m # -1
  BY DEF Fix!None, Num!None
<1>2. /\ Fix!Power(b, k, Fix!None) = ToThe(b, k) /\ Fix!FitsModulo(Fix!None)
      /\ Num!Power(b, k, Num!None) = ToThe(b, k)
  BY OneArithmetic DEF Fix!Power, Num!Power, Fix!FitsModulo
<1>3. ToThe(b, k) \in Nat
  BY PowerNatural
<1>4. ASSUME NEW m \in Nat
      PROVE  /\ Fix!Power(b, k, m) = IF m = 0 THEN ValueError ELSE ToThe(b, k) % m
             /\ Num!Power(b, k, m) = IF m = 0 THEN ValueError ELSE ToThe(b, k) % m
             /\ m # 0 => ToThe(b, k) % m \in Nat /\ ToThe(b, k) % m < m
             /\ Fix!FitsModulo(m) <=> m \in Word
  <2>1. m # Fix!None /\ m # Num!None
    BY <1>1
  <2>2. Fix!Power(b, k, m) = IF m = 0 THEN ValueError ELSE ToThe(b, k) % m
    BY <2>1, OneArithmetic DEF Fix!Power
  <2>3. Num!Power(b, k, m) = IF m = 0 THEN ValueError ELSE ToThe(b, k) % m
    BY <2>1, OneArithmetic DEF Num!Power
  <2>4. m # 0 => ToThe(b, k) % m \in Nat /\ ToThe(b, k) % m < m
    BY <1>3, Remainders
  <2>5. Fix!FitsModulo(m) <=> m \in Word
    BY <2>1, FitsIs DEF Fix!FitsModulo
  <2> QED BY <2>2, <2>3, <2>4, <2>5
<1> QED BY <1>2, <1>3, <1>4

\* A shift to the right is the same for both, also by more bits than there are.
LEMMA ShiftIs ==
  ASSUME NEW w \in Word, NEW k \in Nat
  PROVE  Fix!rshift(w, k) \in Word /\ EVM!shiftRight(w, k) = Fix!rshift(w, k)
<1>1. ToThe(2, k) \in Nat \ {0} /\ 2 \in Nat \ {0}
  BY TwoPower
<1>2. PICK q : q = w \div ToThe(2, k)
  OBVIOUS
<1>3. w \in Nat /\ w < Modulus /\ Modulus \in Nat /\ EVM!bits \in Nat /\ Modulus = ToThe(2, EVM!bits)
  BY WordIs, WordConstants
<1>4. q \in Nat /\ q <= w
  <2>1. /\ w % ToThe(2, k) \in Nat /\ w \div ToThe(2, k) \in Int
        /\ w = ToThe(2, k) * (w \div ToThe(2, k)) + (w % ToThe(2, k))
    <3>1. PICK t \in Nat \ {0} : t = ToThe(2, k)
      BY <1>1
    <3>2. w % t \in Nat /\ w \div t \in Int /\ w = t * (w \div t) + (w % t)
      BY <1>3, Remainders
    <3> QED BY <3>1, <3>2
  <2>2. q \in Nat
    <3>1. \A i \in Nat : \A j \in Nat \ {0} : i \div j \in Nat
      OBVIOUS
    <3> QED BY <1>1, <1>2, <1>3, <3>1
  <2>3. \A i \in Nat \ {0} : \A j \in Nat : j <= i * j /\ i * j \in Nat
    OBVIOUS
  <2>4. q <= ToThe(2, k) * q /\ ToThe(2, k) * q \in Nat
    BY <1>1, <2>2, <2>3
  <2> QED BY <1>2, <1>3, <2>1, <2>2, <2>4
<1>5. q \in Word
  BY <1>3, <1>4, WordIs
<1>6. EVM!bits <= k => q = 0
  <2> SUFFICES ASSUME EVM!bits <= k PROVE q = 0
    OBVIOUS
  <2>1. EVM!bits \in 0 .. k
    BY <1>3
  <2>2. ToThe(2, EVM!bits) <= ToThe(2, k)
    BY <1>1, <2>1, PowerSplits
  <2>3. w < ToThe(2, k)
    BY <1>1, <1>3, <2>2
  <2>4. \A i \in Nat : \A j \in Nat \ {0} : i < j => i \div j = 0
    OBVIOUS
  <2> QED BY <1>1, <1>2, <1>3, <2>3, <2>4
<1>7. Fix!rshift(w, k) = q
  BY <1>2, OneArithmetic DEF Fix!rshift
<1>8. EVM!shiftRight(w, k) = IF k >= EVM!bits THEN 0 ELSE q
  BY <1>2, OneArithmetic DEF EVM!shiftRight
<1> QED BY <1>3, <1>5, <1>6, <1>7, <1>8

\* Powers and shifts of words.
LEMMA PowersSound ==
  ASSUME NEW w \in Word, NEW e \in Int, w = e % Modulus,
         NEW wrapped \in BOOLEAN, wrapped \/ w = e, NEW k \in Nat
  PROVE  /\ SoundWord(w, wrapped, {k}, Ring(Fix!pow(w, k, Fix!None), ToThe(e, k), EVM!exp(w, k)))
         /\ SoundWord(w, wrapped, {k}, Wrap(Fix!wrapping_pow(w, k, Fix!None), ToThe(e, k), EVM!exp(w, k)))
         /\ SoundWord(w, wrapped, {k}, Anew(Fix!rshift(w, k), EVM!shiftRight(w, k)))
<1>1. PICK p \in Nat : p = ToThe(w, k)
  BY PowerIs, WordIs
<1>2. PICK f \in Int : f = ToThe(e, k)
  BY PowerStep
<1>3. p % Modulus = f % Modulus /\ p % Modulus \in Word
  <2>1. w \in Int /\ e \in Int /\ Modulus \in Nat \ {0} /\ w % Modulus = e % Modulus
    BY WordIs, WordConstants
  <2>2. ToThe(w, k) % Modulus = ToThe(e, k) % Modulus
    BY ONLY <2>1, k \in Nat, PowersCongruent
  <2> QED BY <1>1, <1>2, <2>2, WordIs
<1>4. EVM!exp(w, k) = p % Modulus
  BY <1>1, ExpIs
<1>5. Fix!Power(w, k, Fix!None) = p /\ Fix!FitsModulo(Fix!None) /\ p # ValueError
  <2>1. w \in Nat
    BY WordIs
  <2> QED BY <1>1, <2>1, PowerIs, ExceptionsApart
<1>6. Fix!pow(w, k, Fix!None) = Fix!Checked(Fix!Fits(k) /\ p <= MAX_VALUE, p)
  BY <1>5 DEF Fix!pow
<1>7. Fix!wrapping_pow(w, k, Fix!None) = IF k \in Word THEN p % Modulus ELSE OverflowError
  BY <1>5, FitsIs DEF Fix!wrapping_pow, Fix!Masked, Modulus
<1>8. SoundWord(w, wrapped, {k}, Ring(Fix!pow(w, k, Fix!None), f, EVM!exp(w, k)))
  <2>1. CASE k \in Word /\ p <= MAX_VALUE
    <3>1. Fix!pow(w, k, Fix!None) = p
      BY <1>6, <2>1, FitsIs DEF Fix!Checked
    <3>2. p \in Word /\ p % Modulus = p
      BY <2>1, WordIs
    <3>3. wrapped \/ p = f
      BY <1>1, <1>2
    <3> QED BY <1>3, <1>4, <3>1, <3>2, <3>3, RingWord
  <2>2. CASE ~ (k \in Word /\ p <= MAX_VALUE)
    <3>1. Fix!pow(w, k, Fix!None) = OverflowError
      BY <1>6, <2>2, FitsIs DEF Fix!Checked
    <3>2. ~ wrapped => \E y \in {f} \cup {k} : y \notin Word
      BY <1>1, <1>2, <2>2, WordIs
    <3> QED BY <3>1, <3>2, RingWord
  <2> QED BY <2>1, <2>2
<1>9. SoundWord(w, wrapped, {k}, Wrap(Fix!wrapping_pow(w, k, Fix!None), f, EVM!exp(w, k)))
  <2>1. CASE k \in Word
    <3>1. Fix!wrapping_pow(w, k, Fix!None) = p % Modulus
      BY <1>7, <2>1
    <3> QED BY <1>3, <1>4, <3>1, WrapWord
  <2>2. CASE k \notin Word
    <3>1. Fix!wrapping_pow(w, k, Fix!None) = OverflowError /\ \E y \in {k} : y \notin Word
      BY <1>7, <2>2
    <3> QED BY <3>1, WrapWord
  <2> QED BY <2>1, <2>2
<1>10. SoundWord(w, wrapped, {k}, Anew(Fix!rshift(w, k), EVM!shiftRight(w, k)))
  BY ShiftIs, AnewWord
<1> QED BY <1>2, <1>8, <1>9, <1>10

\* A power with a modulo, which FixedUint computes twice.
LEMMA ModularPowersSound ==
  ASSUME NEW w \in Word, NEW wrapped \in BOOLEAN, NEW k \in Nat, NEW m \in Nat
  PROVE  SoundWord(w, wrapped, {k, m}, Anew(Fix!pow(w, k, m), Fix!wrapping_pow(w, k, m)))
<1>0. w \in Nat
  BY WordIs
<1>1. PICK p : p = Fix!Power(w, k, m)
  OBVIOUS
<1>2. /\ Fix!pow(w, k, m) = IF m \notin Word THEN OverflowError
                           ELSE IF p = ValueError THEN ValueError
                           ELSE Fix!Checked(Fix!Fits(k) /\ p <= MAX_VALUE, p)
      /\ Fix!wrapping_pow(w, k, m) = IF m \notin Word \/ k \notin Word THEN OverflowError
                                    ELSE IF p = ValueError THEN ValueError ELSE p % Modulus
  BY <1>0, <1>1, PowerIs, FitsIs DEF Fix!pow, Fix!wrapping_pow, Fix!Masked, Modulus
<1>3. CASE m \notin Word
  <2>1. Fix!pow(w, k, m) = OverflowError /\ \E y \in {k, m} : y \notin Word
    BY <1>2, <1>3
  <2> QED BY <2>1, AnewWord
<1>4. CASE m \in Word /\ m = 0
  <2>1. p = ValueError
    BY <1>0, <1>1, <1>4, PowerIs
  <2>2. Fix!pow(w, k, m) = ValueError
    BY <1>2, <1>4, <2>1
  <2> QED BY <2>2, AnewWord
<1>5. CASE m \in Word /\ m # 0
  <2>1. p \in Nat /\ p < m
    <3>1. p = ToThe(w, k) % m
      BY <1>0, <1>1, <1>5, PowerIs
    <3> QED BY <1>0, <1>5, <3>1, PowerIs
  <2>2. p <= MAX_VALUE /\ p \in Word /\ p % Modulus = p /\ p # ValueError
    <3>1. m \in Nat /\ m <= MAX_VALUE /\ MAX_VALUE \in Nat
      BY <1>5, WordIs, WordConstants
    <3>2. p <= MAX_VALUE
      BY <2>1, <3>1
    <3> QED BY <2>1, <3>2, WordIs, ExceptionsApart
  <2>3. CASE k \in Word
    <3>1. Fix!pow(w, k, m) = p /\ Fix!wrapping_pow(w, k, m) = p
      BY <1>2, <1>5, <2>2, <2>3, FitsIs DEF Fix!Checked
    <3> QED BY <2>2, <3>1, AnewWord
  <2>4. CASE k \notin Word
    <3>1. Fix!pow(w, k, m) = OverflowError /\ \E y \in {k, m} : y \notin Word
      BY <1>2, <1>5, <2>2, <2>4, FitsIs DEF Fix!Checked
    <3> QED BY <3>1, AnewWord
  <2> QED BY <2>3, <2>4
<1> QED BY <1>3, <1>4, <1>5

\* What a sum, difference, product or power of Uint needs to be sound.
LEMMA RingNumber ==
  ASSUME NEW n, NEW operands, NEW got, NEW f \in Int,
         \/ got \in Nat /\ f = got
         \/ got = OverflowError /\ \E y \in {f} \cup operands : ~ (y >= 0)
  PROVE  SoundNumber(n, operands, Ring(got, f, 0))
<1>1. CASE got \in Nat /\ f = got
  <2>1. got \notin Exceptions /\ got # OverflowError /\ got # ZeroDivisionError
    BY <1>1, ExceptionsApart
  <2> QED BY <1>1, <2>1 DEF SoundNumber, Ring, Outcome
<1>2. CASE got = OverflowError /\ \E y \in {f} \cup operands : ~ (y >= 0)
  BY <1>2, ExceptionsApart DEF SoundNumber, Ring, Outcome
<1> QED BY <1>1, <1>2

\* What the other methods of Uint need.
LEMMA AnewNumber ==
  ASSUME NEW n, NEW operands, NEW got,
         \/ got \in Nat
         \/ got = OverflowError /\ \E y \in operands : ~ (y >= 0)
         \/ got = ZeroDivisionError /\ (0 \in operands \/ n = 0)
         \/ got = ValueError
  PROVE  SoundNumber(n, operands, Anew(got, 0))
<1>1. CASE got \in Nat
  <2>1. got \notin Exceptions /\ got # OverflowError /\ got # ZeroDivisionError
    BY <1>1, ExceptionsApart
  <2> QED BY <1>1, <2>1 DEF SoundNumber, Anew, Outcome
<1>2. CASE got = OverflowError /\ \E y \in operands : ~ (y >= 0)
  BY <1>2, ExceptionsApart DEF SoundNumber, Anew, Outcome
<1>3. CASE got = ZeroDivisionError /\ (0 \in operands \/ n = 0)
  BY <1>3, ExceptionsApart DEF SoundNumber, Anew, Outcome
<1>4. CASE got = ValueError
  BY <1>4, ExceptionsApart DEF SoundNumber, Anew, Outcome
<1> QED BY <1>1, <1>2, <1>3, <1>4

\* Any quotient or remainder that Uint checks is sound.
LEMMA QuotientNumber ==
  ASSUME NEW n \in Nat, NEW x \in Int, NEW d \in {n, x}, NEW q, x >= 0 /\ d # 0 => q \in Nat
  PROVE  SoundNumber(n, {x}, Anew(Num!Checked(x >= 0, Num!Divided(d, q)), 0))
<1>0. PICK got : got = Num!Checked(x >= 0, Num!Divided(d, q))
  OBVIOUS
<1>1. CASE ~ (x >= 0)
  <2>1. got = OverflowError /\ \E y \in {x} : ~ (y >= 0)
    BY <1>0, <1>1 DEF Num!Checked
  <2> QED BY <1>0, <2>1, AnewNumber
<1>2. CASE x >= 0 /\ d = 0
  <2>1. got = ZeroDivisionError /\ (0 \in {x} \/ n = 0)
    BY <1>0, <1>2 DEF Num!Checked, Num!Divided
  <2> QED BY <1>0, <2>1, AnewNumber
<1>3. CASE x >= 0 /\ d # 0
  <2>1. got \in Nat
    BY <1>0, <1>3 DEF Num!Checked, Num!Divided
  <2> QED BY <1>0, <2>1, AnewNumber
<1> QED BY <1>1, <1>2, <1>3

\* Quotient and remainder of natural numbers are natural numbers.
LEMMA Quotients ==
  ASSUME NEW a \in Nat, NEW b \in Nat \ {0}
  PROVE  a \div b \in Nat /\ a % b \in Nat
OBVIOUS

\* The methods of Uint.
LEMMA NumbersSound ==
  ASSUME NEW n \in Nat, NEW x \in Int, NEW o \in UintMethods(n, n, x)
  PROVE  SoundNumber(n, {x}, o)
<1>0. n + x \in Int /\ n - x \in Int /\ x - n \in Int /\ n * x \in Int
  OBVIOUS
<1>1. SoundNumber(n, {x}, Ring(Num!add(n, x), n + x, 0))
  <2>1. CASE x >= 0
    <3>1. Num!add(n, x) = n + x /\ n + x \in Nat
      BY <2>1 DEF Num!add, Num!Checked
    <3> QED BY <1>0, <3>1, RingNumber
  <2>2. CASE ~ (x >= 0)
    <3>1. Num!add(n, x) = OverflowError /\ \E y \in {n + x} \cup {x} : ~ (y >= 0)
      BY <2>2 DEF Num!add, Num!Checked
    <3> QED BY <1>0, <3>1, RingNumber
  <2> QED BY <2>1, <2>2
<1>2. SoundNumber(n, {x}, Ring(Num!sub(n, x), n - x, 0))
  <2>1. CASE x >= 0 /\ n >= x
    <3>1. Num!sub(n, x) = n - x /\ n - x \in Nat
      BY <2>1 DEF Num!sub, Num!Checked
    <3> QED BY <1>0, <3>1, RingNumber
  <2>2. CASE ~ (x >= 0 /\ n >= x)
    <3>1. Num!sub(n, x) = OverflowError
      BY <2>2 DEF Num!sub, Num!Checked
    <3>2. ~ (n - x >= 0) \/ ~ (x >= 0)
      BY <2>2
    <3> QED BY <1>0, <3>1, <3>2, RingNumber
  <2> QED BY <2>1, <2>2
<1>3. SoundNumber(n, {x}, Ring(Num!rsub(n, x), x - n, 0))
  <2>1. CASE x >= 0 /\ n <= x
    <3>1. Num!rsub(n, x) = x - n /\ x - n \in Nat
      BY <2>1 DEF Num!rsub, Num!Checked
    <3> QED BY <1>0, <3>1, RingNumber
  <2>2. CASE ~ (x >= 0 /\ n <= x)
    <3>1. Num!rsub(n, x) = OverflowError
      BY <2>2 DEF Num!rsub, Num!Checked
    <3>2. ~ (x - n >= 0) \/ ~ (x >= 0)
      BY <2>2
    <3> QED BY <1>0, <3>1, <3>2, RingNumber
  <2> QED BY <2>1, <2>2
<1>4. SoundNumber(n, {x}, Ring(Num!mul(n, x), n * x, 0))
  <2>1. CASE x >= 0
    <3>1. Num!mul(n, x) = n * x /\ n * x \in Nat
      <4>1. x \in Nat
        BY <2>1
      <4>2. n * x \in Nat
        BY <4>1
      <4> QED BY <2>1, <4>2 DEF Num!mul, Num!Checked
    <3> QED BY <1>0, <3>1, RingNumber
  <2>2. CASE ~ (x >= 0)
    <3>1. Num!mul(n, x) = OverflowError /\ \E y \in {n * x} \cup {x} : ~ (y >= 0)
      BY <2>2 DEF Num!mul, Num!Checked
    <3> QED BY <1>0, <3>1, RingNumber
  <2> QED BY <2>1, <2>2
<1>5. x >= 0 => x \in Nat
  OBVIOUS
<1>6. ASSUME x >= 0, x # 0 PROVE n \div x \in Nat /\ n % x \in Nat
  BY <1>5, <1>6, Quotients
<1>7. ASSUME x >= 0, n # 0 PROVE x \div n \in Nat /\ x % n \in Nat
  BY <1>5, <1>7, Quotients
<1>8. SoundNumber(n, {x}, Anew(Num!Checked(x >= 0, Num!Divided(x, n \div x)), 0))
  BY ONLY <1>6, n \in Nat, x \in Int, QuotientNumber
<1>9. SoundNumber(n, {x}, Anew(Num!Checked(x >= 0, Num!Divided(x, n % x)), 0))
  BY ONLY <1>6, n \in Nat, x \in Int, QuotientNumber
<1>10. SoundNumber(n, {x}, Anew(Num!Checked(x >= 0, Num!Divided(n, x \div n)), 0))
  BY ONLY <1>7, n \in Nat, x \in Int, QuotientNumber
<1>11. SoundNumber(n, {x}, Anew(Num!Checked(x >= 0, Num!Divided(n, x % n)), 0))
  BY ONLY <1>7, n \in Nat, x \in Int, QuotientNumber
<1>12. /\ Num!floordiv(n, x)  = Num!Checked(x >= 0, Num!Divided(x, n \div x))
       /\ Num!rfloordiv(n, x) = Num!Checked(x >= 0, Num!Divided(n, x \div n))
       /\ Num!mod(n, x)       = Num!Checked(x >= 0, Num!Divided(x, n % x))
       /\ Num!rmod(n, x)      = Num!Checked(x >= 0, Num!Divided(n, x % n))
  BY ONLY DEF Num!floordiv, Num!rfloordiv, Num!mod, Num!rmod
<1>13. ASSUME NEW d, NEW q, NEW r, x >= 0 /\ d # 0 => q \in Nat /\ r \in Nat
      PROVE  LET pair == Num!Checked(x >= 0, Num!Divided(d, <<q, r>>))
             IN  /\ Part(1, pair) = Num!Checked(x >= 0, Num!Divided(d, q))
                 /\ Part(2, pair) = Num!Checked(x >= 0, Num!Divided(d, r))
  <2>1. CASE ~ (x >= 0)
    BY <2>1, ExceptionsApart DEF Part, Num!Checked
  <2>2. CASE x >= 0 /\ d = 0
    BY <2>2, ExceptionsApart DEF Part, Num!Checked, Num!Divided
  <2>3. CASE x >= 0 /\ d # 0
    <3>1. q \in Int /\ r \in Int
      BY <1>13, <2>3
    <3>2. <<q, r>> \notin Exceptions /\ <<q, r>>[1] = q /\ <<q, r>>[2] = r
      BY <3>1, ExceptionsApart
    <3> QED BY <2>3, <3>2 DEF Part, Num!Checked, Num!Divided
  <2> QED BY <2>1, <2>2, <2>3
<1>14. /\ Part(1, Num!divmod(n, x)) = Num!Checked(x >= 0, Num!Divided(x, n \div x))
       /\ Part(2, Num!divmod(n, x)) = Num!Checked(x >= 0, Num!Divided(x, n % x))
  <2>1. Num!divmod(n, x) = Num!Checked(x >= 0, Num!Divided(x, <<n \div x, n % x>>))
    BY ONLY DEF Num!divmod
  <2>2. x >= 0 /\ x # 0 => n \div x \in Nat /\ n % x \in Nat
    BY <1>6
  <2> QED BY ONLY <2>1, <2>2, <1>13
<1>15. /\ Part(1, Num!rdivmod(n, x)) = Num!Checked(x >= 0, Num!Divided(n, x \div n))
       /\ Part(2, Num!rdivmod(n, x)) = Num!Checked(x >= 0, Num!Divided(n, x % n))
  <2>1. Num!rdivmod(n, x) = Num!Checked(x >= 0, Num!Divided(n, <<x \div n, x % n>>))
    BY ONLY DEF Num!rdivmod
  <2>2. x >= 0 /\ n # 0 => x \div n \in Nat /\ x % n \in Nat
    BY <1>7
  <2> QED BY ONLY <2>1, <2>2, <1>13
<1>16. /\ SoundNumber(n, {x}, Anew(Num!xor(n, x), 0))
       /\ SoundNumber(n, {x}, Anew(Num!rxor(n, x), 0))
  <2>1. /\ Num!xor(n, x) = Num!Checked(x >= 0, Xor(n, x))
        /\ Num!rxor(n, x) = Num!Checked(x >= 0, Xor(x, n))
    BY OneArithmetic DEF Num!xor, Num!rxor
  <2>2. CASE x >= 0
    <3>1. Num!xor(n, x) \in Nat /\ Num!rxor(n, x) \in Nat
      BY <1>5, <2>1, <2>2, XorHalves DEF Num!Checked
    <3> QED BY <3>1, AnewNumber
  <2>3. CASE ~ (x >= 0)
    <3>1. Num!xor(n, x) = OverflowError /\ Num!rxor(n, x) = OverflowError
      BY <2>1, <2>3 DEF Num!Checked
    <3>2. \E y \in {x} : ~ (y >= 0)
      BY <2>3
    <3> QED BY <3>1, <3>2, AnewNumber
  <2> QED BY <2>2, <2>3
<1>17. \/ o = Ring(Num!add(n, x), n + x, 0) \/ o = Ring(Num!sub(n, x), n - x, 0)
       \/ o = Ring(Num!rsub(n, x), x - n, 0) \/ o = Ring(Num!mul(n, x), n * x, 0)
       \/ \E got \in {Num!floordiv(n, x), Num!rfloordiv(n, x), Num!mod(n, x), Num!rmod(n, x),
                      Num!xor(n, x), Num!rxor(n, x),
                      Part(1, Num!divmod(n, x)), Part(2, Num!divmod(n, x)),
                      Part(1, Num!rdivmod(n, x)), Part(2, Num!rdivmod(n, x))} : o = Anew(got, 0)
  <2>1. \A k \in 1 .. 2 : k = 1 \/ k = 2
    OBVIOUS
  <2> QED BY <2>1 DEF UintMethods
<1> QED BY <1>1, <1>2, <1>3, <1>4, <1>8, <1>9, <1>10, <1>11, <1>12, <1>14, <1>15, <1>16, <1>17

\* The powers of Uint.
LEMMA NumberPowersSound ==
  ASSUME NEW n \in Nat, NEW k \in Nat
  PROVE  /\ \A o \in UintPowers(n, n, k) : SoundNumber(n, {k}, o)
         /\ \A m \in Nat : \A o \in UintModularPowers(n, k, m) : SoundNumber(n, {k, m}, o)
<1>1. SoundNumber(n, {k}, Ring(Num!pow(n, k, Num!None), ToThe(n, k), 0))
  <2>1. Num!pow(n, k, Num!None) = ToThe(n, k) /\ ToThe(n, k) \in Nat
    BY PowerIs DEF Num!pow, Num!Checked
  <2> QED BY <2>1, RingNumber
<1>2. SoundNumber(n, {k}, Ring(Num!rpow(n, k, Num!None), ToThe(k, n), 0))
  <2>1. Num!rpow(n, k, Num!None) = ToThe(k, n) /\ ToThe(k, n) \in Nat
    BY PowerIs DEF Num!rpow, Num!Checked
  <2> QED BY <2>1, RingNumber
<1>3. ASSUME NEW m \in Nat
      PROVE  /\ SoundNumber(n, {k, m}, Anew(Num!pow(n, k, m), 0))
             /\ SoundNumber(n, {k, m}, Anew(Num!rpow(n, k, m), 0))
  <2>1. Num!pow(n, k, m) = Num!Power(n, k, m) /\ Num!rpow(n, k, m) = Num!Power(k, n, m)
    BY DEF Num!pow, Num!rpow, Num!Checked
  <2>2. Num!Power(n, k, m) = ValueError \/ Num!Power(n, k, m) \in Nat
    BY PowerIs
  <2>3. Num!Power(k, n, m) = ValueError \/ Num!Power(k, n, m) \in Nat
    BY PowerIs
  <2> QED BY <2>1, <2>2, <2>3, AnewNumber
<1>4. \A o \in UintPowers(n, n, k) : SoundNumber(n, {k}, o)
  BY <1>1, <1>2 DEF UintPowers
<1>5. ASSUME NEW m \in Nat, NEW o \in UintModularPowers(n, k, m) PROVE SoundNumber(n, {k, m}, o)
  BY <1>3, <1>5 DEF UintModularPowers
<1> QED BY <1>4, <1>5

NumberLocals == [number : Int, exact : Int, evm : Int, operands : SUBSET Int,
                 wrapped : BOOLEAN, methods : Int]

\* What is kept from one method to the next.
NumbersKept ==
    /\ argv \in {"Uint", "FixedUint"}
    /\ answer = NoAnswer =>
         /\ locals \in NumberLocals
         /\ argv = "Uint" => /\ locals.number \in Nat
                             /\ locals.exact = locals.number
                             /\ locals.wrapped = FALSE
         /\ argv = "FixedUint" => /\ locals.number \in Word
                                  /\ locals.number = locals.exact % Modulus
                                  /\ locals.evm = locals.number
                                  /\ locals.wrapped \/ locals.number = locals.exact
NumbersInv == (task = "number" => NumbersKept) /\ NumbersExact

\* Between two methods, what is kept implies NumbersExact.
LEMMA KeptIsExact ==
  answer = NoAnswer /\ (task = "number" => NumbersKept) => NumbersExact
<1> SUFFICES ASSUME answer = NoAnswer, task = "number" => NumbersKept, task = "number"
             PROVE  NumbersExact
  BY DEF NumbersExact, Running, Answered
<1>1. argv \in {"Uint", "FixedUint"} /\ locals \in NumberLocals
  BY DEF NumbersKept
<1>2. CASE argv = "Uint"
  <2>1. locals.number \in Nat /\ locals.number = locals.exact
    BY <1>2 DEF NumbersKept
  <2> QED BY <1>2, <2>1 DEF NumbersExact, Running, Answered, OfClass
<1>3. CASE argv = "FixedUint"
  <2>1. /\ locals.number \in Word /\ locals.number = locals.exact % (MAX_VALUE + 1)
        /\ locals.evm = locals.number /\ (locals.wrapped \/ locals.number = locals.exact)
    BY <1>3 DEF NumbersKept, Modulus
  <2> QED BY <1>3, <2>1 DEF NumbersExact, Running, Answered, OfClass
<1> QED BY <1>1, <1>2, <1>3

\* The same of the next state.
LEMMA KeptStaysExact ==
  answer' = NoAnswer /\ (task' = "number" => NumbersKept') => NumbersExact'
<1>1. (answer = NoAnswer /\ (task = "number" => NumbersKept) => NumbersExact)'
  BY KeptIsExact, PTL
<1> QED BY <1>1

\* A sound outcome keeps the invariant, whether it is a number or an exception.
LEMMA ApplyKeeps ==
  ASSUME NumbersInv, Running("number"), NEW o, NEW operands \in SUBSET Int,
         argv = "Uint" => SoundNumber(locals.number, operands, o),
         argv = "FixedUint" => SoundWord(locals.number, locals.wrapped, operands, o),
         Apply(o, operands)
  PROVE  NumbersInv'
<1>1. /\ task = "number" /\ answer = NoAnswer /\ argv \in {"Uint", "FixedUint"}
      /\ locals \in NumberLocals
      /\ argv = "Uint" => /\ locals.number \in Nat
                             /\ locals.exact = locals.number
                             /\ locals.wrapped = FALSE
      /\ argv = "FixedUint" => locals.number \in Word
  BY DEF NumbersInv, NumbersKept, Running
<1>2. CASE o.got \in Exceptions
  <2>1. answer' = o.got /\ task' = "number" /\ argv' = argv /\ answer' # NoAnswer
    BY <1>1, <1>2, NumbersAssumption DEF Apply
  <2>2. PICK e : e = IF o.exact \in Exceptions THEN 0 ELSE o.exact
    OBVIOUS
  <2>3. /\ locals'.exact = e /\ locals'.operands = operands
        /\ locals'.number = locals.number /\ locals'.wrapped = locals.wrapped
    <3>1. locals' = [locals EXCEPT !.exact = e, !.operands = operands]
      BY <1>2, <2>2 DEF Apply
    <3> QED BY <1>1, <3>1 DEF NumberLocals
  <2>4. \A y \in {o.exact} \cap Int : y = e
    BY <2>2, ExceptionsApart
  <2>5. NumbersKept'
    BY <1>1, <2>1 DEF NumbersKept
  <2>6. answer' = ZeroDivisionError => 0 \in locals'.operands \/ locals'.number = 0
    BY <1>1, <2>1, <2>3 DEF SoundNumber, SoundWord
  <2>7. ASSUME answer' = OverflowError /\ ~ locals'.wrapped
        PROVE  \E x \in {locals'.exact} \cup locals'.operands : ~ OfClass(x)'
    <3>1. CASE argv = "Uint"
      <4>1. PICK y \in ({o.exact} \cap Int) \cup operands : ~ (y >= 0)
        BY <2>1, <2>7, <3>1 DEF SoundNumber
      <4>2. y \in {locals'.exact} \cup locals'.operands
        BY <2>3, <2>4, <4>1
      <4> QED BY <2>1, <3>1, <4>1, <4>2 DEF OfClass
    <3>2. CASE argv = "FixedUint"
      <4>1. PICK y \in ({o.exact} \cap Int) \cup operands : y \notin Word
        BY <2>1, <2>3, <2>7, <3>2 DEF SoundWord
      <4>2. y \in {locals'.exact} \cup locals'.operands
        BY <2>3, <2>4, <4>1
      <4> QED BY <2>1, <3>2, <4>1, <4>2 DEF OfClass
    <3> QED BY <1>1, <3>1, <3>2
  <2>8. NumbersExact'
    BY <2>1, <2>6, <2>7 DEF NumbersExact, Running, Answered
  <2> QED BY <2>5, <2>8 DEF NumbersInv
<1>3. CASE o.got \notin Exceptions
  <2>1. /\ locals' = [number |-> o.got, exact |-> o.exact, evm |-> o.evm, operands |-> operands,
                      wrapped |-> locals.wrapped \/ o.wraps, methods |-> locals.methods + 1]
        /\ task' = "number" /\ argv' = argv /\ answer' = NoAnswer
    BY <1>1, <1>3 DEF Apply, Continue
  <2>2. NumbersKept'
    <3>1. locals.wrapped \in BOOLEAN /\ locals.methods + 1 \in Int
      BY <1>1 DEF NumberLocals
    <3>2. CASE argv = "Uint"
      <4>1. o.got \in Nat /\ o.exact = o.got /\ o.evm = 0 /\ o.wraps = FALSE
        BY <1>3, <3>2 DEF SoundNumber
      <4>2. locals' \in NumberLocals
        BY <2>1, <3>1, <4>1 DEF NumberLocals
      <4> QED BY <1>1, <2>1, <3>2, <4>1, <4>2 DEF NumbersKept
    <3>3. CASE argv = "FixedUint"
      <4>1. /\ o.got \in Word /\ o.exact \in Int
            /\ o.got = o.exact % Modulus /\ o.evm = o.got
            /\ o.wraps \in BOOLEAN
            /\ locals.wrapped \/ o.wraps \/ o.got = o.exact
        BY <1>3, <3>3 DEF SoundWord
      <4>2. o.got \in Int
        BY <4>1, WordIs
      <4>3. locals' \in NumberLocals
        BY <2>1, <3>1, <4>1, <4>2 DEF NumberLocals
      <4>4. (locals'.wrapped) \/ locals'.number = locals'.exact
        BY <2>1, <4>1
      <4> QED BY <2>1, <3>3, <4>1, <4>3, <4>4 DEF NumbersKept
    <3> QED BY <1>1, <3>2, <3>3
  <2>3. NumbersExact'
    BY <2>1, <2>2, KeptStaysExact
  <2> QED BY <2>2, <2>3 DEF NumbersInv
<1> QED BY <1>2, <1>3

\* A number starts as itself, in Python and in the EVM.
LEMMA StartKeeps ==
  ASSUME StartNumber PROVE NumbersInv'
<1>1. PICK class \in {"Uint", "FixedUint"}, x \in Operands :
        LET made == IF class = "Uint" THEN Num!init(x) ELSE Fix!init(x)
        IN  /\ made \notin Exceptions
            /\ Start("number", class,
                     [number |-> made, exact |-> x, evm |-> EVM!ofNat(x),
                      operands |-> {}, wrapped |-> FALSE, methods |-> 0])
  BY DEF StartNumber
<1>2. x \in Int
  BY NumbersAssumption
<1>3. answer' = NoAnswer /\ task' = "number" /\ argv' = class
  BY <1>1 DEF StartNumber, Idle, Start
<1>4. PICK u : u = EVM!ofNat(x)
  OBVIOUS
<1>5. u \in Word /\ u \in Int /\ u = x % Modulus
  BY <1>2, <1>4, WordConstants, WordIs DEF EVM!ofNat
<1>6. CASE class = "Uint"
  <2>1. Num!init(x) = x /\ x \in Nat
    BY <1>1, <1>2, <1>6, ExceptionsApart DEF Num!init, Num!Checked
  <2>2. locals' = [number |-> x, exact |-> x, evm |-> u,
                      operands |-> {}, wrapped |-> FALSE, methods |-> 0]
    BY <1>1, <1>4, <1>6, <2>1 DEF Start
  <2>3. NumbersKept'
    BY <1>2, <1>3, <1>5, <1>6, <2>1, <2>2 DEF NumbersKept, NumberLocals
  <2> QED BY <1>3, <2>3, KeptStaysExact DEF NumbersInv
<1>7. CASE class = "FixedUint"
  <2>1. Fix!init(x) = x /\ x \in Word
    BY <1>1, <1>2, <1>7, ExceptionsApart, FitsIs DEF Fix!init
  <2>2. locals' = [number |-> x, exact |-> x, evm |-> u,
                      operands |-> {}, wrapped |-> FALSE, methods |-> 0]
    BY <1>1, <1>4, <1>7, <2>1 DEF Start
  <2>3. u = x /\ x = x % Modulus
    BY <1>5, <2>1, WordIs
  <2>4. NumbersKept'
    BY <1>2, <1>3, <1>5, <1>7, <2>1, <2>2, <2>3 DEF NumbersKept, NumberLocals
  <2> QED BY <1>3, <2>4, KeptStaysExact DEF NumbersInv
<1> QED BY <1>6, <1>7

\* Each method of Uint and FixedUint keeps the invariant.
LEMMA MethodsKeep ==
  ASSUME NumbersInv, ApplyMethod PROVE NumbersInv'
<1>1. Running("number")
  BY DEF ApplyMethod
<1>20. PICK x \in Operands : \E outcome \in
            IF argv = "Uint"
              THEN UintMethods(locals.number, locals.exact, x)
              ELSE FixedMethods(locals.number, locals.exact, locals.evm, x) :
            Apply(outcome, {x})
  BY DEF ApplyMethod
<1>2. PICK o \in IF argv = "Uint"
                   THEN UintMethods(locals.number, locals.exact, x)
                   ELSE FixedMethods(locals.number, locals.exact, locals.evm, x) :
            Apply(o, {x})
  BY <1>20
<1>3. x \in Int /\ {x} \in SUBSET Int
  BY NumbersAssumption
<1>4. argv \in {"Uint", "FixedUint"}
  BY <1>1 DEF NumbersInv, NumbersKept, Running
<1>5. argv = "Uint" => SoundNumber(locals.number, {x}, o)
  <2> SUFFICES ASSUME argv = "Uint" PROVE SoundNumber(locals.number, {x}, o)
    OBVIOUS
  <2>1. locals.number \in Nat /\ locals.exact = locals.number
    BY <1>1 DEF NumbersInv, NumbersKept, Running
  <2>2. o \in UintMethods(locals.number, locals.number, x)
    BY <1>2, <2>1
  <2> QED BY <1>3, <2>1, <2>2, NumbersSound
<1>6. argv = "FixedUint" => SoundWord(locals.number, locals.wrapped, {x}, o)
  <2> SUFFICES ASSUME argv = "FixedUint" PROVE SoundWord(locals.number, locals.wrapped, {x}, o)
    OBVIOUS
  <2>1. /\ locals.number \in Word /\ locals.exact \in Int
        /\ locals.number = locals.exact % Modulus
        /\ locals.evm = locals.number
        /\ locals.wrapped \in BOOLEAN
        /\ locals.wrapped \/ locals.number = locals.exact
    BY <1>1 DEF NumbersInv, NumbersKept, NumberLocals, Running
  <2>2. o \in FixedMethods(locals.number, locals.exact, locals.number, x)
    BY <1>2, <2>1
  <2>3. PICK w : w = locals.number
    OBVIOUS
  <2>4. PICK e : e = locals.exact
    OBVIOUS
  <2>5. PICK r \in BOOLEAN : r = locals.wrapped
    BY <2>1
  <2>6. PICK u : u = EVM!ofNat(x)
    OBVIOUS
  <2>7. w \in Word /\ e \in Int /\ w = e % Modulus /\ (r \/ w = e)
    BY <2>1, <2>3, <2>4, <2>5
  <2>8. o \in FixedMethods(w, e, w, x)
    BY <2>2, <2>3, <2>4
  <2> DEFINE
        Sums == {Ring(Fix!add(w, x), e + x, EVM!add(w, u)),
                  Ring(Fix!sub(w, x), e - x, EVM!sub(w, u)),
                  Ring(Fix!rsub(w, x), x - e, EVM!sub(u, w)),
                  Ring(Fix!mul(w, x), e * x, EVM!mul(w, u)),
                  Wrap(Fix!wrapping_add(w, x), e + x, EVM!add(w, u)),
                  Wrap(Fix!wrapping_sub(w, x), e - x, EVM!sub(w, u)),
                  Wrap(Fix!wrapping_mul(w, x), e * x, EVM!mul(w, u)),
                  Wrap(Fix!invert(w), -e - 1, EVM!lnot(w))}
        Quotes == {Anew(Fix!floordiv(w, x), EVM!div(w, u)),
                  Anew(Fix!rfloordiv(w, x), EVM!div(u, w)),
                  Anew(Fix!mod(w, x), EVM!mod(w, u)),
                  Anew(Fix!rmod(w, x), EVM!mod(u, w)),
                  Anew(Part(1, Fix!divmod(w, x)), EVM!div(w, u)),
                  Anew(Part(2, Fix!divmod(w, x)), EVM!mod(w, u)),
                  Anew(Part(1, Fix!rdivmod(w, x)), EVM!div(u, w)),
                  Anew(Part(2, Fix!rdivmod(w, x)), EVM!mod(u, w))}
        Bitwise == {Anew(Fix!and(w, x), EVM!land(w, u)),
                  Anew(Fix!or(w, x), EVM!lor(w, u)),
                  Anew(Fix!xor(w, x), EVM!xor(w, u)),
                  Anew(Fix!rxor(w, x), EVM!xor(u, w))}
  <2>9. o \in Sums \/ o \in Quotes \/ o \in Bitwise
    BY ONLY <2>6, <2>8 DEF FixedMethods, Sums, Quotes, Bitwise
  <2> HIDE DEF Sums, Quotes, Bitwise
  <2>10. SoundWord(w, r, {x}, o)
    <3>1. CASE o \in Sums
      <4>1. w \in Word /\ e \in Int /\ w = e % Modulus /\ (r \/ w = e) /\ x \in Int
        BY <1>3, <2>7
      <4>2. \A s \in Sums : SoundWord(w, r, {x}, s)
        <5>1. /\ SoundWord(w, r, {x}, Ring(Fix!add(w, x), e + x, EVM!add(w, u)))
              /\ SoundWord(w, r, {x}, Ring(Fix!sub(w, x), e - x, EVM!sub(w, u)))
              /\ SoundWord(w, r, {x}, Ring(Fix!rsub(w, x), x - e, EVM!sub(u, w)))
              /\ SoundWord(w, r, {x}, Ring(Fix!mul(w, x), e * x, EVM!mul(w, u)))
              /\ SoundWord(w, r, {x}, Wrap(Fix!wrapping_add(w, x), e + x, EVM!add(w, u)))
              /\ SoundWord(w, r, {x}, Wrap(Fix!wrapping_sub(w, x), e - x, EVM!sub(w, u)))
              /\ SoundWord(w, r, {x}, Wrap(Fix!wrapping_mul(w, x), e * x, EVM!mul(w, u)))
              /\ SoundWord(w, r, {x}, Wrap(Fix!invert(w), -e - 1, EVM!lnot(w)))
          BY ONLY <2>6, <4>1, r \in BOOLEAN, SumsSound
        <5> QED BY ONLY <5>1 DEF Sums
      <4> QED BY <3>1, <4>2
    <3>2. CASE o \in Quotes
      BY ONLY <1>3, <2>6, <2>7, <3>2, r \in BOOLEAN, QuotientsSound DEF Quotes
    <3>3. CASE o \in Bitwise
      BY ONLY <1>3, <2>6, <2>7, <3>3, r \in BOOLEAN, BitsSound DEF Bitwise
    <3> QED BY <2>9, <3>1, <3>2, <3>3
  <2> QED BY <2>3, <2>5, <2>10
<1> QED BY <1>1, <1>2, <1>3, <1>5, <1>6, ApplyKeeps

\* So does each power and shift.
LEMMA PowersKeep ==
  ASSUME NumbersInv, ApplyPower PROVE NumbersInv'
<1>1. Running("number")
  BY DEF ApplyPower
<1>2. PICK k \in Exponents :
         \/ \E outcome \in
               IF argv = "Uint"
                 THEN UintPowers(locals.number, locals.exact, k)
                 ELSE FixedPowers(locals.number, locals.exact, locals.evm, k) :
               Apply(outcome, {k})
         \/ \E modulo \in Exponents : \E outcome \in
               IF argv = "Uint"
                 THEN UintModularPowers(locals.number, k, modulo)
                 ELSE FixedModularPowers(locals.number, k, modulo) :
               Apply(outcome, {k, modulo})
  BY DEF ApplyPower
<1>3. k \in Nat /\ {k} \in SUBSET Int /\ \A m \in Exponents : m \in Nat /\ {k, m} \in SUBSET Int
  BY NumbersAssumption
<1>4. argv = "Uint" => locals.number \in Nat /\ locals.exact = locals.number
  BY <1>1 DEF NumbersInv, NumbersKept, Running
<1>5. argv = "FixedUint" =>
        /\ locals.number \in Word /\ locals.exact \in Int
        /\ locals.number = locals.exact % Modulus
        /\ locals.evm = locals.number
        /\ locals.wrapped \in BOOLEAN
        /\ locals.wrapped \/ locals.number = locals.exact
  BY <1>1 DEF NumbersInv, NumbersKept, NumberLocals, Running
<1>6. argv \in {"Uint", "FixedUint"}
  BY <1>1 DEF NumbersInv, NumbersKept, Running
<1>7. ASSUME NEW o \in IF argv = "Uint"
                 THEN UintPowers(locals.number, locals.exact, k)
                 ELSE FixedPowers(locals.number, locals.exact, locals.evm, k),
             Apply(o, {k})
      PROVE  NumbersInv'
  <2>1. argv = "Uint" => SoundNumber(locals.number, {k}, o)
    BY <1>3, <1>4, <1>7, NumberPowersSound
  <2>2. argv = "FixedUint" => SoundWord(locals.number, locals.wrapped, {k}, o)
    <3> SUFFICES ASSUME argv = "FixedUint"
                 PROVE  SoundWord(locals.number, locals.wrapped, {k}, o)
      OBVIOUS
    <3>1. PICK w : w = locals.number
      OBVIOUS
    <3>2. PICK e : e = locals.exact
      OBVIOUS
    <3>3. PICK r \in BOOLEAN : r = locals.wrapped
      BY <1>5
    <3>4. w \in Word /\ e \in Int /\ w = e % Modulus /\ (r \/ w = e)
      BY <1>5, <3>1, <3>2, <3>3
    <3>5. o \in FixedPowers(w, e, w, k)
      BY <1>5, <1>7, <3>1, <3>2
    <3>6. SoundWord(w, r, {k}, o)
      BY ONLY <1>3, <3>4, <3>5, r \in BOOLEAN, PowersSound DEF FixedPowers
    <3> QED BY <3>1, <3>3, <3>6
  <2> QED BY <1>1, <1>3, <1>7, <2>1, <2>2, ApplyKeeps
<1>8. ASSUME NEW m \in Exponents,
             NEW o \in IF argv = "Uint"
                 THEN UintModularPowers(locals.number, k, m)
                 ELSE FixedModularPowers(locals.number, k, m),
             Apply(o, {k, m})
      PROVE  NumbersInv'
  <2>1. argv = "Uint" => SoundNumber(locals.number, {k, m}, o)
    BY <1>3, <1>4, <1>8, NumberPowersSound
  <2>2. argv = "FixedUint" => SoundWord(locals.number, locals.wrapped, {k, m}, o)
    BY <1>3, <1>5, <1>8, ModularPowersSound DEF FixedModularPowers
  <2>3. {k, m} \in SUBSET Int
    BY <1>3
  <2> QED BY <1>1, <1>8, <2>1, <2>2, <2>3, ApplyKeeps
<1> QED BY <1>2, <1>7, <1>8

\* So does the power of an int to a FixedUint, whose result is left.
LEMMA ReflectedPowersKeep ==
  ASSUME NumbersInv, ApplyReflectedPower PROVE NumbersInv'
<1>1. PICK k \in Exponents : /\ answer' = Fix!rpow(locals.number, k, Fix!None)
                             /\ locals' = [locals EXCEPT !.operands = {k}]
  BY DEF ApplyReflectedPower
<1>2. /\ task = "number" /\ answer = NoAnswer /\ argv = "FixedUint"
      /\ task' = "number" /\ argv' = "FixedUint"
      /\ locals \in NumberLocals /\ locals.number \in Word
  BY DEF ApplyReflectedPower, Running, NumbersInv, NumbersKept
<1>3. locals'.operands = {k} /\ k \in Nat
  BY <1>1, <1>2, NumbersAssumption DEF NumberLocals
<1>4. answer' \in Int \/ (answer' = OverflowError /\ k \notin Word)
  <2>1. locals.number \in Nat
    BY <1>2, WordIs
  <2>2. answer' = Fix!Checked(Fix!Fits(k), ToThe(k, locals.number))
    BY <1>1, <1>3, <2>1, PowerIs DEF Fix!rpow, Fix!Checked
  <2>3. ToThe(k, locals.number) \in Int
    <3>1. ToThe(k, locals.number) \in Nat
      BY <1>3, <2>1, PowerIs
    <3> QED BY <3>1
  <2> QED BY <2>2, <2>3, FitsIs
<1>5. answer' # NoAnswer /\ answer' # ZeroDivisionError
  BY <1>4, NumbersAssumption, ExceptionsApart
<1>6. answer' = OverflowError => \E x \in {locals'.exact} \cup locals'.operands : ~ OfClass(x)'
  <2>1. answer' = OverflowError => k \notin Word
    BY <1>4, ExceptionsApart
  <2> QED BY <1>2, <1>3, <2>1 DEF OfClass
<1>7. NumbersExact'
  BY <1>2, <1>5, <1>6 DEF NumbersExact, Running, Answered
<1>8. NumbersKept'
  BY <1>2, <1>5 DEF NumbersKept
<1> QED BY <1>7, <1>8 DEF NumbersInv

\* So does the end of a number.
LEMMA LeavingKeeps ==
  ASSUME NumbersInv, LeaveNumber PROVE NumbersInv'
<1>1. /\ task = "number" /\ answer = NoAnswer
      /\ answer' = locals.number /\ task' = task /\ argv' = argv /\ locals' = locals
  BY DEF LeaveNumber, Running, Answer
<1>2. argv \in {"Uint", "FixedUint"} /\ locals \in NumberLocals
  BY <1>1 DEF NumbersInv, NumbersKept
<1>3. answer' \in Int
  BY <1>1, <1>2 DEF NumberLocals
<1>4. answer' # NoAnswer /\ answer' # OverflowError /\ answer' # ZeroDivisionError
  BY <1>3, NumbersAssumption, ExceptionsApart
<1> QED BY <1>1, <1>2, <1>4 DEF NumbersInv, NumbersKept, NumbersExact, Running, Answered

\* What is not about numbers keeps the invariant too.
LEMMA OthersKeep ==
  ASSUME task' # "number" PROVE NumbersInv'
BY DEF NumbersInv, NumbersExact, Running, Answered

(***************************************************************************)
(* Any sequence of methods of Uint and FixedUint (base_types.py), with any *)
(* operands, leaves a number of its class that is the exact integer, or    *)
(* the exact integer modulo the size of a word once a method has wrapped,  *)
(* and the same word as the EVM's instructions (UInt256.lean); and a       *)
(* method refuses only operands or results that are no number of the       *)
(* class, or a division by zero.  For every size of a word and every       *)
(* number of methods.                                                      *)
(***************************************************************************)
THEOREM NumbersAreExact == WordsSpec => []NumbersExact
<1>1. Idle => NumbersInv
  BY DEF Idle, NumbersInv, NumbersExact, Running, Answered
<1>2. ASSUME NumbersInv, [WordsNext \/ Respond]_computation PROVE NumbersInv'
  <2>1. CASE StartNumber
    BY <2>1, StartKeeps
  <2>2. CASE ApplyMethod
    BY <1>2, <2>2, MethodsKeep
  <2>3. CASE ApplyPower
    BY <1>2, <2>3, PowersKeep
  <2>4. CASE ApplyReflectedPower
    BY <1>2, <2>4, ReflectedPowersKeep
  <2>5. CASE LeaveNumber
    BY <1>2, <2>5, LeavingKeeps
  <2>6. CASE StartCoding \/ StartSigned
    <3>1. task' # "number"
      BY <2>6 DEF StartCoding, StartSigned, Start
    <3> QED BY <3>1, OthersKeep
  <2>7. CASE Encode \/ Decode \/ ComputeSigned
    <3>1. task' = task /\ task # "number"
      BY <2>7 DEF Encode, Decode, ComputeSigned, Running, Answer, Continue
    <3> QED BY <3>1, OthersKeep
  <2>8. CASE Respond
    <3>1. task' # "number"
      BY <2>8 DEF Respond
    <3> QED BY <3>1, OthersKeep
  <2>9. CASE UNCHANGED computation
    BY <1>2, <2>9 DEF computation, NumbersInv, NumbersKept, NumbersExact, Running, Answered, OfClass
  <2> QED BY <1>2, <2>1, <2>2, <2>3, <2>4, <2>5, <2>6, <2>7, <2>8, <2>9 DEF WordsNext
<1>3. NumbersInv => NumbersExact
  BY DEF NumbersInv
<1> QED BY <1>1, <1>2, <1>3, PTL DEF WordsSpec

-----------------------------------------------------------------------------
(***************************************************************************)
(* Signed words, and what stands for a word or a number.                   *)
(***************************************************************************)

\* Quotient and remainder of natural numbers, each found from the other.
LEMMA QuotientIs ==
  ASSUME NEW s \in Nat \ {0}, NEW q \in Int, NEW r \in Nat, r < s, NEW a \in Int, a = s * q + r
  PROVE  a \div s = q /\ a % s = r
<1>1. a % s = r
  BY RemainderIs
<1>2. a \div s \in Int /\ a = s * (a \div s) + (a % s)
  BY Remainders
<1>3. s * (a \div s) = s * q
  <2>1. PICK d \in Int : d = a \div s
    BY <1>2
  <2>2. s * d \in Int /\ s * q \in Int
    BY <2>1
  <2> QED BY <1>1, <1>2, <2>1, <2>2
<1>4. \A d, p \in Int : s * d = s * p => d = p
  OBVIOUS
<1> QED BY <1>1, <1>2, <1>3, <1>4

\* The quotient of natural numbers is one, and no greater.
LEMMA NaturalQuotient ==
  ASSUME NEW s \in Nat \ {0}, NEW a \in Nat
  PROVE  a \div s \in Nat /\ a \div s <= a /\ (a < s => a \div s = 0)
<1>1. a \div s \in Int /\ a = s * (a \div s) + (a % s) /\ a % s \in Nat /\ a % s < s
  BY Remainders
<1>2. PICK d \in Int : d = a \div s
  BY <1>1
<1>3. PICK r \in Nat : r = a % s
  BY <1>1
<1>4. a = s * d + r /\ r < s
  BY <1>1, <1>2, <1>3
<1>5. \A e \in Int : e < 0 => s * e <= -s
  OBVIOUS
<1>6. d >= 0
  BY <1>4, <1>5
<1>7. \A e \in Nat : s * e >= e /\ (e # 0 => s * e >= s)
  OBVIOUS
<1>8. d \in Nat
  BY <1>6
<1>9. s * d >= d /\ (d # 0 => s * d >= s) /\ s * d \in Nat
  BY <1>7, <1>8
<1> QED BY <1>2, <1>4, <1>8, <1>9

\* A power exceeds its exponent.
LEMMA PowerExceeds ==
  ASSUME NEW b \in Nat, b >= 2
  PROVE  \A n \in Nat : n < ToThe(b, n)
<1> DEFINE S == {n \in Nat : n < ToThe(b, n)}
<1>1. 0 \in S
  BY PowerStep
<1>2. \A n \in Nat : n \in S => n + 1 \in S
  <2> SUFFICES ASSUME NEW n \in Nat, n < ToThe(b, n) PROVE n + 1 < ToThe(b, n + 1)
    OBVIOUS
  <2>1. PICK p \in Nat : p = ToThe(b, n)
    BY PowerPositive
  <2>2. ToThe(b, n + 1) = b * p
    BY <2>1, PowerStep
  <2>3. \A c \in Nat : c >= 1 => c + 1 <= b * c
    <3>1. \A c \in Nat : 2 * c <= b * c
      OBVIOUS
    <3> QED BY <3>1
  <2>4. p >= 1 /\ n < p
    BY <2>1
  <2> QED BY <2>2, <2>3, <2>4
<1> HIDE DEF S
<1>3. \A n \in Nat : n \in S
  BY <1>1, <1>2, Induction
<1> QED BY <1>3 DEF S

\* The sign bit is the upper half of a word.
LEMMA HalfIs ==
  /\ EVM!half \in Nat \ {0} /\ Modulus = 2 * EVM!half
  /\ EVM!bits \in Nat \ {0}
<1>1. EVM!bits \in Nat \ {0}
  <2>1. \A m, n \in Nat \ {0} : m * n \in Nat \ {0}
    OBVIOUS
  <2> QED BY <2>1, WordAssumption DEF EVM!bits
<1>2. PICK k \in Nat : EVM!bits = k + 1
  <2>1. EVM!bits - 1 \in Nat /\ EVM!bits = (EVM!bits - 1) + 1
    BY <1>1
  <2> QED BY <2>1
<1>3. PICK h \in Nat \ {0} : h = ToThe(2, k)
  BY TwoPower
<1>4. Modulus = 2 * h
  BY <1>2, <1>3, TwoPower, WordConstants
<1>5. EVM!half = h
  <2>1. (2 * h) \div 2 = h
    OBVIOUS
  <2> QED BY <1>4, <2>1, WordConstants DEF EVM!half
<1> QED BY <1>1, <1>3, <1>4, <1>5

\* A word as a signed integer, and the EVM's absolute value of it.
LEMMA SignedIs ==
  ASSUME NEW x \in Word
  PROVE  /\ Signed(x) \in Int /\ x \in Nat /\ x < Modulus
         /\ EVM!abs(x) \in Nat /\ EVM!abs(x) < Modulus
         /\ Abs(Signed(x)) = EVM!abs(x)
         /\ EVM!half <= x => Signed(x) = x - Modulus /\ Signed(x) < 0 /\ EVM!abs(x) = - Signed(x)
         /\ ~ (EVM!half <= x) => Signed(x) = x /\ EVM!abs(x) = x
<1>1. /\ x \in Nat /\ x < Modulus /\ Modulus = MAX_VALUE + 1 /\ MAX_VALUE \in Nat
      /\ EVM!half \in Nat \ {0} /\ Modulus = 2 * EVM!half /\ Modulus \in Nat
  BY HalfIs, WordIs, WordConstants
<1>2. Signed(x) = IF EVM!half <= x THEN x - Modulus ELSE x
  BY <1>1 DEF Signed
<1>3. CASE EVM!half <= x
  <2>1. (-x) % Modulus = Modulus - x
    <3>1. Modulus - x \in Nat /\ Modulus - x < Modulus /\ -x \in Int /\ Modulus \in Nat \ {0}
          /\ -x = Modulus * (-1) + (Modulus - x) /\ -1 \in Int
      BY <1>1, <1>3
    <3> QED BY ONLY <3>1, RemainderIs
  <2>2. EVM!abs(x) = Modulus - x
    BY <1>3, <2>1, WordConstants DEF EVM!abs, EVM!Negated
  <2>3. Signed(x) = x - Modulus
    BY <1>2, <1>3
  <2>4. Signed(x) < 0 /\ Signed(x) \in Int /\ Modulus - x = - Signed(x)
    BY <1>1, <2>3
  <2> QED BY <1>1, <1>3, <2>2, <2>3, <2>4 DEF Abs
<1>4. CASE ~ (EVM!half <= x)
  BY <1>1, <1>2, <1>4 DEF EVM!abs, Abs
<1> QED BY <1>3, <1>4

\* Wrapping goes once around for what is out by less than once.
LEMMA WrappedIs ==
  ASSUME NEW i \in Int
  PROVE  /\ Wrapped(i) = i % Modulus
         /\ i >= 0 /\ i < Modulus => Wrapped(i) = i
         /\ i < 0 /\ i >= - Modulus => Wrapped(i) = i + Modulus
<1>1. Modulus \in Nat \ {0}
  BY WordConstants
<1>2. Wrapped(i) = i % Modulus
  BY DEF Wrapped, Modulus
<1>3. i >= 0 /\ i < Modulus => i % Modulus = i
  BY <1>1, Remainders
<1>4. ASSUME i < 0, i >= - Modulus PROVE i % Modulus = i + Modulus
  <2>1. /\ i + Modulus \in Nat /\ i + Modulus < Modulus /\ -1 \in Int
        /\ i = Modulus * (-1) + (i + Modulus)
    BY <1>1, <1>4
  <2> QED BY ONLY <1>1, <2>1, i \in Int, RemainderIs
<1> QED BY <1>2, <1>3, <1>4

\* The sign of a product.
LEMMA ProductSign ==
  ASSUME NEW i \in Int, NEW j \in Int
  PROVE  i * j < 0 <=> (i < 0 /\ j > 0) \/ (i > 0 /\ j < 0)
<1>1. \A m, n \in Int : m > 0 /\ n > 0 => m * n > 0
  OBVIOUS
<1>2. i * j = (-i) * (-j) /\ i * j = -((-i) * j) /\ i * j = -(i * (-j))
  OBVIOUS
<1>3. i * j \in Int /\ (-i) * j \in Int /\ i * (-j) \in Int
  OBVIOUS
<1>4. CASE i = 0 \/ j = 0
  BY <1>4
<1>5. CASE i > 0 /\ j > 0
  BY <1>1, <1>5
<1>6. CASE i < 0 /\ j < 0
  BY <1>1, <1>2, <1>6
<1>7. CASE i < 0 /\ j > 0
  <2>1. (-i) * j > 0
    BY <1>1, <1>7
  <2> QED BY <1>2, <1>3, <1>7, <2>1
<1>8. CASE i > 0 /\ j < 0
  <2>1. i * (-j) > 0
    BY <1>1, <1>8
  <2> QED BY <1>2, <1>3, <1>8, <2>1
<1> QED BY <1>4, <1>5, <1>6, <1>7, <1>8

\* The EVM's signed quotient, by the quotient of the absolute values.
LEMMA SdivIs ==
  ASSUME NEW x \in Word, NEW y \in Word
  PROVE  EVM!sdiv(x, y) = IF Signed(y) = 0 THEN 0 ELSE Wrapped(Quotient(Signed(x), Signed(y)))
<1>1. PICK i \in Int : i = Signed(x)
  BY SignedIs
<1>2. PICK j \in Int : j = Signed(y)
  BY SignedIs
<1>3. PICK a \in Nat : a = EVM!abs(x)
  BY SignedIs
<1>4. PICK b \in Nat : b = EVM!abs(y)
  BY SignedIs
<1>5. /\ a < Modulus /\ Modulus \in Nat \ {0}
      /\ Abs(i) = a /\ Abs(j) = b
      /\ EVM!half <= x <=> i < 0
      /\ EVM!half <= y <=> j < 0
      /\ j = 0 <=> b = 0
      /\ i = 0 => a = 0
  <2>1. EVM!half \in Nat \ {0} /\ x \in Nat /\ y \in Nat
    BY HalfIs, WordIs
  <2>2. /\ Abs(i) = a /\ a < Modulus /\ (EVM!half <= x => i < 0 /\ a = -i)
        /\ (~ (EVM!half <= x) => i = x /\ a = x)
    BY <1>1, <1>3, SignedIs
  <2>3. /\ Abs(j) = b /\ (EVM!half <= y => j < 0 /\ b = -j)
        /\ (~ (EVM!half <= y) => j = y /\ b = y)
    BY <1>2, <1>4, SignedIs
  <2> QED BY <2>1, <2>2, <2>3, WordConstants
<1>6. EVM!sdiv(x, y) = IF (i < 0) = (j < 0) THEN EVM!div(a, b) ELSE EVM!Negated(EVM!div(a, b))
  BY <1>3, <1>4, <1>5 DEF EVM!sdiv
<1>7. CASE j = 0
  <2>1. EVM!div(a, b) = 0
    BY <1>5, <1>7 DEF EVM!div
  <2>2. EVM!Negated(0) = 0
    <3>1. (-0) % Modulus = 0
      BY <1>5, Remainders
    <3> QED BY <3>1, WordConstants DEF EVM!Negated
  <2> QED BY <1>2, <1>6, <1>7, <2>1, <2>2
<1>8. CASE j # 0
  <2>1. PICK q \in Nat : q = a \div b
    BY <1>5, <1>8, NaturalQuotient
  <2>2. EVM!div(a, b) = q /\ q < Modulus /\ (a = 0 => q = 0)
    <3>1. q <= a
      BY <1>5, <1>8, <2>1, NaturalQuotient
    <3> QED BY <1>5, <1>8, <2>1, <3>1 DEF EVM!div
  <2>3. Quotient(i, j) = IF (i < 0 /\ j > 0) \/ (i > 0 /\ j < 0) THEN -q ELSE q
    BY <1>5, <2>1, ProductSign DEF Quotient
  <2>4. Wrapped(q) = q /\ Wrapped(-q) = EVM!Negated(q)
    <3>1. Wrapped(-q) = (-q) % Modulus
      BY WrappedIs
    <3>2. Wrapped(q) = q
      BY <2>2, WrappedIs
    <3> QED BY <3>1, <3>2, WordConstants DEF EVM!Negated
  <2>5. EVM!sdiv(x, y) = Wrapped(Quotient(i, j))
    <3>1. CASE i = 0
      <4>0. a = 0 /\ ~ (i < 0) /\ ~ (i > 0)
        BY <1>5, <3>1
      <4>1. q = 0 /\ Quotient(i, j) = q
        BY <2>2, <2>3, <4>0
      <4>2. EVM!Negated(q) = q
        <5>1. EVM!Negated(0) = 0
          <6>1. (-0) % Modulus = 0
            BY <1>5, Remainders
          <6> QED BY <6>1, WordConstants DEF EVM!Negated
        <5> QED BY <4>1, <5>1
      <4> QED BY <1>6, <2>2, <2>4, <4>1, <4>2
    <3>2. CASE i # 0
      <4>1. Quotient(i, j) = IF (i < 0) = (j < 0) THEN q ELSE -q
        BY <1>8, <2>3, <3>2
      <4> QED BY <1>6, <2>2, <2>4, <4>1
    <3> QED BY <3>1, <3>2
  <2> QED BY <1>1, <1>2, <1>8, <2>5
<1> QED BY <1>7, <1>8

\* And its signed remainder.
LEMMA SmodIs ==
  ASSUME NEW x \in Word, NEW y \in Word
  PROVE  EVM!smod(x, y) =
           IF Signed(y) = 0 THEN 0
           ELSE Wrapped(Signed(x) - Signed(y) * Quotient(Signed(x), Signed(y)))
<1>1. PICK i \in Int : i = Signed(x)
  BY SignedIs
<1>2. PICK j \in Int : j = Signed(y)
  BY SignedIs
<1>3. PICK a \in Nat : a = EVM!abs(x)
  BY SignedIs
<1>4. PICK b \in Nat : b = EVM!abs(y)
  BY SignedIs
<1>5. /\ a < Modulus /\ b < Modulus /\ Modulus \in Nat \ {0}
      /\ Abs(i) = a /\ Abs(j) = b
      /\ EVM!half <= x <=> i < 0
      /\ i < 0 => a = -i
      /\ i >= 0 => a = i /\ x = i
      /\ j < 0 => b = -j
      /\ j >= 0 => b = j /\ y = j
      /\ y = 0 <=> j = 0
  <2>1. EVM!half \in Nat \ {0} /\ x \in Nat /\ y \in Nat
    BY HalfIs, WordIs
  <2>2. /\ Abs(i) = a /\ a < Modulus /\ (EVM!half <= x => i < 0 /\ a = -i)
        /\ (~ (EVM!half <= x) => i = x /\ a = x)
    BY <1>1, <1>3, SignedIs
  <2>3. /\ Abs(j) = b /\ b < Modulus /\ (EVM!half <= y => j < 0 /\ b = -j)
        /\ (~ (EVM!half <= y) => j = y /\ b = y)
    BY <1>2, <1>4, SignedIs
  <2> QED BY <2>1, <2>2, <2>3, WordConstants
<1>7. CASE j = 0
  BY <1>2, <1>5, <1>7 DEF EVM!smod
<1>8. CASE j # 0
  <2>1. b # 0
    BY <1>5, <1>8
  <2>2. PICK q \in Nat : q = a \div b
    BY <2>1, NaturalQuotient
  <2>3. PICK r \in Nat : r = a % b
    BY <2>1, Remainders
  <2>4. a = b * q + r /\ r < b /\ EVM!mod(a, b) = r
    BY <2>1, <2>2, <2>3, Remainders DEF EVM!mod
  <2>5. r < Modulus /\ (a = 0 => q = 0 /\ r = 0)
    BY <1>5, <2>1, <2>2, <2>3, <2>4, NaturalQuotient, Remainders
  <2>6. Quotient(i, j) = IF (i < 0 /\ j > 0) \/ (i > 0 /\ j < 0) THEN -q ELSE q
    BY <1>5, <2>2, ProductSign DEF Quotient
  <2>7. i - j * Quotient(i, j) = IF i < 0 THEN -r ELSE r
    <3>1. j * (-q) = -(j * q) /\ (-b) * q = -(b * q) /\ b * q \in Nat /\ j * q \in Int
      OBVIOUS
    <3>2. CASE i < 0 /\ j > 0
      <4>1. Quotient(i, j) = -q /\ j = b /\ i = -a
        BY <1>5, <2>6, <3>2
      <4>2. i - b * (-q) = -r
        BY <2>4, <3>1, <4>1
      <4> QED BY <3>2, <4>1, <4>2
    <3>3. CASE i < 0 /\ j < 0
      <4>1. Quotient(i, j) = q /\ j = -b /\ i = -a
        BY <1>5, <2>6, <3>3
      <4>2. i - (-b) * q = -r
        BY <2>4, <3>1, <4>1
      <4> QED BY <3>3, <4>1, <4>2
    <3>4. CASE i >= 0 /\ j > 0
      <4>1. Quotient(i, j) = q /\ j = b /\ i = a
        BY <1>5, <2>6, <3>4
      <4>2. i - b * q = r
        BY <2>4, <3>1, <4>1
      <4> QED BY <3>4, <4>1, <4>2
    <3>5. CASE i > 0 /\ j < 0
      <4>1. Quotient(i, j) = -q /\ j = -b /\ i = a
        BY <1>5, <2>6, <3>5
      <4>2. (-b) * (-q) = b * q
        OBVIOUS
      <4>3. i - (-b) * (-q) = r
        BY <2>4, <3>1, <4>1, <4>2
      <4> QED BY <3>5, <4>1, <4>3
    <3>6. CASE i = 0 /\ j < 0
      <4>1. Quotient(i, j) = q /\ q = 0 /\ r = 0
        BY <1>5, <2>5, <2>6, <3>6
      <4> QED BY <3>6, <4>1
    <3> QED BY <1>8, <3>2, <3>3, <3>4, <3>5, <3>6
  <2>8. EVM!smod(x, y) = EVM!toSigned(EVM!sgn(x) * r)
    BY <1>3, <1>4, <1>5, <1>8, <2>4 DEF EVM!smod
  <2>9. EVM!size = Modulus
    BY WordConstants
  <2>10. CASE i < 0
    <3>1. EVM!sgn(x) * r = -r
      BY <1>5, <2>10 DEF EVM!sgn
    <3>2. CASE r = 0
      <4>1. EVM!toSigned(-r) = 0 % Modulus
        BY <2>9, <3>2 DEF EVM!toSigned, EVM!ofNat
      <4>2. Wrapped(-r) = 0 % Modulus
        BY <3>2, WrappedIs
      <4> QED BY <1>1, <1>2, <1>8, <2>7, <2>8, <2>10, <3>1, <4>1, <4>2
    <3>3. CASE r # 0
      <4>1. EVM!toSigned(-r) = (Modulus - 1 - (-(-r) - 1)) % Modulus
        BY <2>9, <3>3 DEF EVM!toSigned, EVM!ofNat
      <4>2. Modulus - 1 - (-(-r) - 1) = Modulus + (-r)
        BY <1>5
      <4>3. Wrapped(-r) = Modulus + (-r) /\ Modulus + (-r) \in Nat /\ Modulus + (-r) < Modulus
        BY <1>5, <2>5, <3>3, WrappedIs
      <4>4. (Modulus + (-r)) % Modulus = Modulus + (-r)
        <5>1. PICK c \in Nat : c = Modulus + (-r)
          BY <4>3
        <5>2. c < Modulus /\ Modulus \in Nat \ {0}
          BY <1>5, <4>3, <5>1
        <5>3. c % Modulus = c
          BY ONLY <5>2, c \in Nat
        <5> QED BY <5>1, <5>3
      <4> QED BY <1>1, <1>2, <1>8, <2>7, <2>8, <2>10, <3>1, <4>1, <4>2, <4>3, <4>4
    <3> QED BY <3>2, <3>3
  <2>11. CASE i >= 0
    <3>1. EVM!sgn(x) * r = r
      BY <1>5, <2>5, <2>11 DEF EVM!sgn, EVM!fromBool
    <3>2. EVM!toSigned(r) = r % Modulus
      BY <2>9 DEF EVM!toSigned, EVM!ofNat
    <3>3. Wrapped(r) = r % Modulus
      BY WrappedIs
    <3>4. ~ (i < 0)
      BY <2>11
    <3> QED BY <1>1, <1>2, <1>8, <2>7, <2>8, <3>1, <3>2, <3>3, <3>4
  <2> QED BY <2>10, <2>11
<1> QED BY <1>7, <1>8

\* Comparing signed words through the sign bits compares the integers.
LEMMA ComparedAre ==
  ASSUME NEW x \in Word, NEW y \in Word
  PROVE  /\ EVM!slt(x, y) = IF Signed(x) < Signed(y) THEN 1 ELSE 0
         /\ EVM!sgt(x, y) = IF Signed(x) > Signed(y) THEN 1 ELSE 0
<1>1. EVM!half \in Nat \ {0} /\ x \in Nat /\ y \in Nat /\ Modulus \in Nat /\ Modulus = 2 * EVM!half
  BY HalfIs, WordIs, WordConstants
<1>2. /\ (EVM!half <= x => Signed(x) < 0 /\ Signed(x) = x - Modulus)
      /\ (~ (EVM!half <= x) => Signed(x) = x)
  BY SignedIs
<1>3. /\ (EVM!half <= y => Signed(y) < 0 /\ Signed(y) = y - Modulus)
      /\ (~ (EVM!half <= y) => Signed(y) = y)
  BY SignedIs
<1>4. EVM!sltBool(x, y) <=> Signed(x) < Signed(y)
  BY <1>1, <1>2, <1>3 DEF EVM!sltBool
<1>5. EVM!sgtBool(x, y) <=> Signed(x) > Signed(y)
  BY <1>1, <1>2, <1>3 DEF EVM!sgtBool
<1> QED BY <1>4, <1>5 DEF EVM!slt, EVM!sgt, EVM!fromBool

\* Dividing by a product is dividing by its factors one after another.
LEMMA QuotientOfQuotient ==
  ASSUME NEW s \in Nat \ {0}, NEW t \in Nat \ {0}, NEW a \in Nat
  PROVE  s * t \in Nat \ {0} /\ a \div (s * t) = (a \div s) \div t
<1>1. PICK d \in Nat : d = a \div s
  BY NaturalQuotient
<1>2. PICK e \in Nat : e = d \div t
  BY NaturalQuotient
<1>3. PICK r \in Nat : r = a % s
  BY Remainders
<1>4. PICK u \in Nat : u = d % t
  BY Remainders
<1>5. a = s * d + r /\ r < s
  BY <1>1, <1>3, Remainders
<1>6. d = t * e + u /\ u < t
  BY <1>2, <1>4, Remainders
<1>7. \A m, n \in Nat \ {0} : m * n \in Nat \ {0}
  OBVIOUS
<1>8. s * t \in Nat \ {0}
  BY <1>7
<1>9. a = (s * t) * e + (s * u + r)
  <2>1. s * (t * e + u) = (s * t) * e + s * u
    OBVIOUS
  <2>2. (s * t) * e \in Nat /\ s * u \in Nat
    <3>1. \A m, n \in Nat : m * n \in Nat
      OBVIOUS
    <3> QED BY <1>8, <3>1
  <2> QED BY <1>5, <1>6, <2>1, <2>2
<1>10. s * u + r \in Nat /\ s * u + r < s * t
  <2>1. \A m, n, k \in Nat : n < k => m * n + m <= m * k /\ m * n \in Nat /\ m * k \in Nat
    <3>1. \A m, n, k \in Nat : n + 1 <= k => m * (n + 1) <= m * k
      OBVIOUS
    <3>2. \A m, n \in Nat : m * (n + 1) = m * n + m /\ m * n \in Nat
      OBVIOUS
    <3> QED BY <3>1, <3>2
  <2>2. s * u + s <= s * t /\ s * u \in Nat /\ s * t \in Nat
    BY <1>6, <2>1
  <2> QED BY <1>5, <2>2
<1>11. PICK c \in Nat \ {0} : c = s * t
  BY <1>8
<1>12. PICK v \in Nat : v = s * u + r
  BY <1>10
<1>13. a = c * e + v /\ v < c
  BY <1>9, <1>10, <1>11, <1>12
<1>14. a \div c = e
  BY <1>13, QuotientIs
<1> QED BY <1>1, <1>2, <1>8, <1>11, <1>14

\* A multiple of a power of 2 has no bits below it.
LEMMA AndHigh ==
  \A t \in Nat : \A y, q \in Nat :
    And[y][ToThe(2, t) * q] = ToThe(2, t) * And[y \div ToThe(2, t)][q]
<1> DEFINE S == {t \in Nat : \A y, q \in Nat :
                   And[y][ToThe(2, t) * q] = ToThe(2, t) * And[y \div ToThe(2, t)][q]}
<1>1. 0 \in S
  <2> SUFFICES ASSUME NEW y \in Nat, NEW q \in Nat
               PROVE And[y][ToThe(2, 0) * q] = ToThe(2, 0) * And[y \div ToThe(2, 0)][q]
    OBVIOUS
  <2>1. ToThe(2, 0) = 1 /\ 1 * q = q /\ y \div 1 = y
    BY TwoPower
  <2>2. PICK a \in Nat : a = And[y][q]
    BY AndHalves
  <2>3. 1 * a = a
    OBVIOUS
  <2> QED BY <2>1, <2>2, <2>3
<1>2. \A t \in Nat : t \in S => t + 1 \in S
  <2> SUFFICES ASSUME NEW t \in Nat,
                      \A y, q \in Nat :
                        And[y][ToThe(2, t) * q] = ToThe(2, t) * And[y \div ToThe(2, t)][q],
                      NEW y \in Nat, NEW q \in Nat
               PROVE And[y][ToThe(2, t + 1) * q] = ToThe(2, t + 1) * And[y \div ToThe(2, t + 1)][q]
    OBVIOUS
  <2>1. PICK p \in Nat \ {0} : p = ToThe(2, t)
    BY TwoPower
  <2>2. ToThe(2, t + 1) = 2 * p
    BY <2>1, TwoPower
  <2>3. PICK m \in Nat : m = p * q
    <3>1. p * q \in Nat
      OBVIOUS
    <3> QED BY <3>1
  <2>4. (2 * p) * q = 2 * m + 0
    BY <2>3
  <2>5. (2 * m + 0) \div 2 = m /\ (2 * m + 0) % 2 = 0
    BY HalvesOf
  <2>6. PICK h \in Nat : h = y \div 2
    BY Halves
  <2>7. PICK b \in Nat : b = y % 2
    BY Halves
  <2>8. And[y][2 * m + 0] = 2 * And[h][m] + b * 0
    <3>1. 2 * m + 0 \in Nat
      OBVIOUS
    <3>2. And[y][2 * m + 0] = 2 * And[y \div 2][(2 * m + 0) \div 2] + (y % 2) * ((2 * m + 0) % 2)
      BY ONLY <3>1, AndHalves, y \in Nat
    <3> QED BY ONLY <3>2, <2>5, <2>6, <2>7
  <2>9. And[h][m] = p * And[h \div p][q] /\ h \div p \in Nat
    BY <2>1, <2>3, NaturalQuotient
  <2>10. y \div (2 * p) = h \div p
    BY <2>6, QuotientOfQuotient
  <2>11. PICK c \in Nat : c = And[h \div p][q]
    BY <2>9, AndHalves
  <2>12. And[y][2 * m + 0] = (2 * p) * c
    <3>1. 2 * (p * c) + b * 0 = (2 * p) * c
      OBVIOUS
    <3> QED BY <2>8, <2>9, <2>11, <3>1
  <2> QED BY <2>2, <2>4, <2>10, <2>11, <2>12
<1> HIDE DEF S
<1>3. \A t \in Nat : t \in S
  BY <1>1, <1>2, Induction
<1> QED BY <1>3 DEF S

\* Shifting beyond the word leaves nothing.
LEMMA ShiftedIs ==
  ASSUME NEW y \in Word, NEW k \in Nat
  PROVE  /\ EVM!shiftRight(y, k) = y \div ToThe(2, k)
         /\ EVM!shiftRight(y, k) \in Word
         /\ EVM!shiftLeft(y, k) = Wrapped(y * ToThe(2, k))
<1>1. PICK p \in Nat \ {0} : p = ToThe(2, k)
  BY TwoPower
<1>2. y \in Nat /\ y < Modulus /\ Modulus \in Nat \ {0}
  BY WordIs, WordConstants
<1>3. EVM!ToThe(2, k) = p
  BY <1>1, OneArithmetic
<1>4. y * p \in Nat
  BY <1>2
<1>5. CASE EVM!bits <= k
  <2>1. PICK m \in Nat : k = EVM!bits + m
    <3>1. k - EVM!bits \in Nat /\ k = EVM!bits + (k - EVM!bits)
      BY <1>5, WordConstants
    <3> QED BY <3>1
  <2>2. PICK o \in Nat \ {0} : o = ToThe(2, m)
    BY TwoPower
  <2>3. p = Modulus * o
    BY <1>1, <2>1, <2>2, PowerOfSum, WordConstants
  <2>4. y < p
    <3>1. \A a, b \in Nat \ {0} : a <= a * b
      OBVIOUS
    <3>2. Modulus <= Modulus * o
      BY <1>2, <3>1
    <3> QED BY <1>2, <2>3, <3>2
  <2>5. y \div p = 0
    BY <1>2, <2>4, NaturalQuotient
  <2>6. (y * p) % Modulus = 0
    <3>1. y * o \in Nat
      BY <1>2
    <3>2. PICK n \in Nat : n = y * o
      BY <3>1
    <3>3. y * p = Modulus * n + 0
      BY <1>2, <2>3, <3>2
    <3>4. PICK v \in Nat : v = y * p
      BY <1>4
    <3>5. v = Modulus * n + 0 /\ 0 < Modulus
      BY <1>2, <3>3, <3>4
    <3>6. v % Modulus = 0
      BY <1>2, <3>5, RemainderIs
    <3> QED BY <3>4, <3>6
  <2>7. EVM!bits \in Nat /\ k >= EVM!bits
    BY <1>5, WordConstants
  <2>8. EVM!shiftRight(y, k) = 0 /\ EVM!shiftLeft(y, k) = 0
    BY <2>7 DEF EVM!shiftRight, EVM!shiftLeft
  <2>9. Wrapped(y * p) = 0
    BY <1>4, <2>6, WrappedIs
  <2> QED BY <1>1, <1>2, <2>5, <2>8, <2>9, WordIs
<1>6. CASE ~ (EVM!bits <= k)
  <2>1. ~ (k >= EVM!bits)
    BY <1>6, WordConstants
  <2>2. EVM!shiftRight(y, k) = y \div p /\ EVM!shiftLeft(y, k) = (y * p) % Modulus
    BY <1>3, <2>1, WordConstants DEF EVM!shiftRight, EVM!shiftLeft
  <2>3. Wrapped(y * p) = (y * p) % Modulus
    BY <1>4, WrappedIs
  <2>4. y \div p \in Nat /\ y \div p < Modulus
    <3>1. PICK d \in Nat : d = y \div p
      BY <1>2, NaturalQuotient
    <3>2. d <= y
      BY <1>2, <3>1, NaturalQuotient
    <3> QED BY <1>2, <3>1, <3>2
  <2> QED BY <1>1, <2>2, <2>3, <2>4, WordIs
<1> QED BY <1>5, <1>6

\* Inverting the bits of a word takes it from the greatest word.
LEMMA ComplementIs ==
  ASSUME NEW y \in Word
  PROVE  EVM!complement(y) = MAX_VALUE - y /\ MAX_VALUE - y \in Word
<1>1. /\ y \in Nat /\ y < Modulus /\ Modulus = MAX_VALUE + 1 /\ MAX_VALUE \in Nat
      /\ Modulus \in Nat \ {0}
  BY WordIs, WordConstants
<1>2. EVM!complement(y) = (0 - ((y + 1) % Modulus)) % Modulus
  BY WordConstants DEF EVM!complement, EVM!sub, EVM!add
<1>3. CASE y = MAX_VALUE
  <2>1. (y + 1) % Modulus = 0
    <3>1. y + 1 = Modulus * 1 + 0 /\ y + 1 \in Int
      BY <1>1, <1>3
    <3> QED BY <1>1, <3>1, RemainderIs
  <2>2. (0 - 0) % Modulus = 0
    <3>1. 0 - 0 = 0 /\ 0 < Modulus
      BY <1>1
    <3> QED BY <1>1, <3>1, Remainders
  <2> QED BY <1>1, <1>2, <1>3, <2>1, <2>2, WordIs
<1>4. CASE y < MAX_VALUE
  <2>1. PICK z \in Nat : z = y + 1
    BY <1>1
  <2>2. z < Modulus
    BY <1>1, <1>4, <2>1
  <2>3. z % Modulus = z
    BY ONLY <1>1, <2>2, z \in Nat
  <2>4. (0 - z) % Modulus = Modulus - z
    <3>1. /\ 0 - z \in Int /\ Modulus - z \in Nat /\ Modulus - z < Modulus /\ -1 \in Int
          /\ 0 - z = Modulus * (-1) + (Modulus - z)
      BY <1>1, <2>1, <2>2
    <3> QED BY ONLY <1>1, <3>1, RemainderIs
  <2>5. Modulus - z = MAX_VALUE - y /\ MAX_VALUE - y \in Nat /\ MAX_VALUE - y < Modulus
    BY <1>1, <1>4, <2>1
  <2> QED BY <1>2, <2>1, <2>3, <2>4, <2>5, WordIs
<1> QED BY <1>1, <1>3, <1>4

\* Shifting a signed word rounds down, with ones from the left.
LEMMA SarIs ==
  ASSUME NEW x \in Word, NEW y \in Word
  PROVE  EVM!sar(x, y) = Wrapped(Signed(y) \div ToThe(2, x))
<1>1. x \in Nat /\ y \in Nat /\ y < Modulus /\ Modulus = MAX_VALUE + 1 /\ MAX_VALUE \in Nat
  BY WordIs, WordConstants
<1>2. PICK p \in Nat \ {0} : p = ToThe(2, x)
  BY <1>1, TwoPower
<1>3. EVM!half \in Nat \ {0}
  BY HalfIs
<1>4. EVM!sltBool(y, 0) <=> EVM!half <= y
  BY <1>1, <1>3 DEF EVM!sltBool
<1>5. CASE EVM!half <= y
  <2>1. PICK c \in Word : c = MAX_VALUE - y
    BY ComplementIs
  <2>2. EVM!complement(y) = c
    BY <2>1, ComplementIs
  <2>3. PICK d \in Word : d = c \div p
    BY <1>1, <1>2, ShiftedIs
  <2>4. EVM!shiftRight(c, x) = d
    BY <1>1, <1>2, <2>3, ShiftedIs
  <2>5. EVM!sar(x, y) = MAX_VALUE - d
    BY <1>4, <1>5, <2>2, <2>4, ComplementIs DEF EVM!sar
  <2>6. PICK r \in Nat : r = c % p
    BY <2>1, WordIs, Remainders
  <2>7. c = p * d + r /\ r < p /\ c \in Nat /\ d \in Nat
    BY <2>3, <2>6, WordIs, Remainders
  <2>8. Signed(y) = -1 - c
    BY <1>1, <1>5, <2>1, SignedIs
  <2>9. (-1 - c) \div p = -1 - d
    <3>1. p * (-1 - d) = -p - p * d /\ p * d \in Nat
      BY <2>7
    <3>2. -1 - c = p * (-1 - d) + (p - 1 - r)
      BY <2>7, <3>1
    <3>3. p - 1 - r \in Nat /\ p - 1 - r < p /\ -1 - c \in Int /\ -1 - d \in Int
      BY <2>7
    <3>4. PICK i \in Int : i = -1 - c
      BY <3>3
    <3>5. PICK q \in Int : q = -1 - d
      BY <3>3
    <3>6. PICK o \in Nat : o = p - 1 - r
      BY <3>3
    <3>7. i = p * q + o /\ o < p
      BY <3>2, <3>3, <3>4, <3>5, <3>6
    <3>8. i \div p = q
      BY <3>7, QuotientIs
    <3> QED BY <3>4, <3>5, <3>8
  <2>10. Wrapped(-1 - d) = MAX_VALUE - d
    <3>1. d < Modulus
      BY <2>3, WordIs
    <3>2. PICK q \in Int : q = -1 - d
      BY <2>7
    <3>3. q < 0 /\ q >= - Modulus
      BY <1>1, <2>7, <3>1, <3>2
    <3>4. Wrapped(q) = q + Modulus
      BY <3>3, WrappedIs
    <3>5. q + Modulus = MAX_VALUE - d
      BY <1>1, <2>7, <3>2
    <3> QED BY <3>2, <3>4, <3>5
  <2> QED BY <1>2, <2>5, <2>8, <2>9, <2>10
<1>6. CASE ~ (EVM!half <= y)
  <2>1. EVM!sar(x, y) = y \div p
    BY <1>1, <1>2, <1>4, <1>6, ShiftedIs DEF EVM!sar
  <2>2. PICK d \in Word : d = y \div p
    BY <1>1, <1>2, ShiftedIs
  <2>3. d \in Int /\ d >= 0 /\ d < Modulus
    BY <2>2, WordIs
  <2>4. Wrapped(d) = d
    BY <2>3, WrappedIs
  <2>5. Signed(y) = y
    BY <1>6, SignedIs
  <2> QED BY <1>2, <2>1, <2>2, <2>4, <2>5
<1> QED BY <1>5, <1>6

\* The size of a word in bits and in bytes.
LEMMA ByteConstants ==
  /\ BitsOfByte \in Nat \ {0} /\ WordBytes \in Nat \ {0}
  /\ Byte \in Nat \ {0} /\ Byte >= 2 /\ Byte = ToThe(2, BitsOfByte)
  /\ EVM!bits = BitsOfByte * WordBytes
  /\ \A n \in Nat : ToThe(Byte, n) = ToThe(2, BitsOfByte * n) /\ BitsOfByte * n \in Nat
<1>1. BitsOfByte \in Nat \ {0} /\ WordBytes \in Nat \ {0} /\ Byte = ToThe(2, BitsOfByte)
  BY WordAssumption
<1>2. \A n \in Nat : ToThe(Byte, n) = ToThe(2, BitsOfByte * n)
  BY <1>1, PowerOfPower
<1>3. \A n \in Nat : BitsOfByte * n \in Nat
  BY <1>1
<1>4. Byte \in Nat \ {0}
  BY <1>1, TwoPower
<1>5. BitsOfByte < Byte
  BY <1>1, PowerExceeds
<1>6. Byte >= 2
  BY <1>1, <1>4, <1>5
<1> QED BY <1>1, <1>2, <1>3, <1>4, <1>6 DEF EVM!bits

\* byteAt counts the bytes of a word from the highest.
LEMMA ByteAtIs ==
  ASSUME NEW x \in Word, NEW y \in Word
  PROVE  EVM!byteAt(x, y) =
           IF x < WordBytes THEN y \div ToThe(Byte, WordBytes - 1 - x) % Byte ELSE 0
<1>1. x \in Nat /\ y \in Nat /\ WordBytes \in Nat \ {0} /\ BitsOfByte \in Nat \ {0}
  BY WordIs, ByteConstants
<1>2. CASE x < WordBytes
  <2>1. PICK n \in Nat : n = WordBytes - 1 - x
    <3>1. WordBytes - 1 - x \in Nat
      BY <1>1, <1>2
    <3> QED BY <3>1
  <2>2. PICK k \in Nat : k = BitsOfByte * n
    <3>1. BitsOfByte * n \in Nat
      BY <1>1
    <3> QED BY <3>1
  <2>3. (WordBytes - 1 - x) * BitsOfByte = k
    <3>1. \A a, b \in Nat : a * b = b * a
      OBVIOUS
    <3> QED BY <1>1, <2>1, <2>2, <3>1
  <2>4. EVM!shiftRight(y, k) = y \div ToThe(Byte, n) /\ EVM!shiftRight(y, k) \in Nat
    BY <2>2, ByteConstants, ShiftedIs, WordIs, ZenonT(60)
  <2>5. PICK d \in Nat : d = EVM!shiftRight(y, k)
    BY <2>4
  <2>6. EVM!byteAt(x, y) = And[d][Byte - 1]
    <3>1. ~ (x > WordBytes - 1)
      BY <1>1, <1>2
    <3> QED BY <2>3, <2>5, <3>1, OneArithmetic DEF EVM!byteAt, EVM!land
  <2>7. And[d][Byte - 1] = d % Byte
    BY <1>1, AndMask, ByteConstants
  <2> QED BY <1>2, <2>1, <2>4, <2>5, <2>6, <2>7
<1>3. CASE ~ (x < WordBytes)
  <2>1. x > WordBytes - 1
    BY <1>1, <1>3
  <2> QED BY <1>3, <2>1 DEF EVM!byteAt
<1> QED BY <1>2, <1>3

\* The bit of y that s is, what is above it and what is below it.
SplitAt(y, s, q, r) ==
    /\ y = s * q + r /\ r < s
    /\ And[y][s] = s * (q % 2)
    /\ And[y][s - 1] = r
    /\ s < Modulus /\ Modulus - s \in Nat
    /\ And[y][Modulus - s] = s * q
    /\ y % (2 * s) = s * (q % 2) + r

\* A word is split by one of its bits.
LEMMA SignBit ==
  ASSUME NEW t \in Nat, t < EVM!bits, NEW y \in Word, NEW s \in Nat \ {0}, s = ToThe(2, t)
  PROVE  \E q, r \in Nat : SplitAt(y, s, q, r)
<1>1. y \in Nat /\ y < Modulus /\ Modulus \in Nat \ {0} /\ EVM!bits \in Nat \ {0}
  BY WordIs, WordConstants, HalfIs
<1>2. PICK q \in Nat : q = y \div s
  BY <1>1, NaturalQuotient
<1>3. PICK r \in Nat : r = y % s
  BY <1>1, Remainders
<1>4. y = s * q + r /\ r < s
  <2>1. y \in Int
    BY <1>1
  <2>2. y = s * (y \div s) + (y % s)
    BY <2>1, Remainders
  <2>3. y % s < s
    BY <2>1, Remainders
  <2> QED BY <1>2, <1>3, <2>2, <2>3
<1>5. PICK b \in {0, 1} : b = q % 2
  BY Halves
<1>6. And[y][s] = s * b
  <2>1. And[y][s * 1] = s * And[q][1]
    BY <1>1, <1>2, AndHigh
  <2>2. And[q][1] = b
    <3>1. ToThe(2, 1) = 2
      <4>1. 0 \in Nat /\ 0 + 1 = 1 /\ 2 * 1 = 2
        OBVIOUS
      <4> QED BY <4>1, TwoPower
    <3>2. And[q][ToThe(2, 1) - 1] = q % ToThe(2, 1)
      BY AndMask
    <3>3. 2 - 1 = 1
      OBVIOUS
    <3> QED BY <1>5, <3>1, <3>2, <3>3
  <2>3. s * 1 = s
    OBVIOUS
  <2> QED BY <2>1, <2>2, <2>3
<1>7. And[y][s - 1] = r
  BY <1>1, <1>3, AndMask
<1>8. PICK n \in Nat : EVM!bits = t + n /\ n # 0
  <2>1. EVM!bits - t \in Nat /\ EVM!bits = t + (EVM!bits - t) /\ EVM!bits - t # 0
    BY <1>1
  <2> QED BY <2>1
<1>9. PICK o \in Nat \ {0} : o = ToThe(2, n)
  BY TwoPower
<1>10. Modulus = s * o
  BY <1>8, <1>9, PowerOfSum, WordConstants
<1>11. o >= 2
  <2>1. n < o
    BY <1>9, PowerExceeds
  <2> QED BY <1>8, <2>1
<1>12. s < Modulus /\ Modulus - s \in Nat /\ Modulus - s = s * (o - 1)
  <2>1. \A a \in Nat : a >= 2 => s * a >= s * 2
    OBVIOUS
  <2>2. s * o >= s * 2 /\ s * o \in Nat /\ s * (o - 1) = s * o - s
    BY <1>11, <2>1
  <2> QED BY <1>10, <2>2
<1>13. And[y][Modulus - s] = s * q
  <2>1. o - 1 \in Nat
    BY <1>9
  <2>2. And[y][s * (o - 1)] = s * And[q][o - 1]
    BY <1>1, <1>2, <2>1, AndHigh
  <2>3. And[q][o - 1] = q % o
    BY <1>9, AndMask
  <2>4. q < o
    <3>1. \A a \in Nat : a >= o => s * a >= s * o
      OBVIOUS
    <3>2. s * q < s * o /\ s * q \in Nat /\ s * o \in Nat
      BY <1>1, <1>4, <1>10
    <3> QED BY <3>1, <3>2
  <2>5. q % o = q
    BY <2>4, Remainders
  <2> QED BY <1>12, <2>2, <2>3, <2>5
<1>14. y % (2 * s) = s * b + r
  <2>2. PICK h \in Nat : q = 2 * h + b
    BY <1>5, Halves
  <2>3. PICK k \in Nat \ {0} : k = 2 * s
    OBVIOUS
  <2>4. s * b + r \in Nat /\ s * b + r < k
    BY <1>4, <1>5, <2>3
  <2>5. PICK v \in Nat : v = s * b + r
    BY <2>4
  <2>6. y = k * h + v
    <3>1. s * (2 * h + b) = (2 * s) * h + s * b
      OBVIOUS
    <3>2. (2 * s) * h \in Nat /\ s * b \in Nat
      BY <1>5
    <3> QED BY <1>4, <2>2, <2>3, <2>5, <3>1, <3>2
  <2>7. y % k = v
    <3>1. v < k
      BY <2>4, <2>5
    <3>2. y \in Int /\ h \in Int
      BY <1>1
    <3> QED BY ONLY <2>6, <3>1, <3>2, v \in Nat, k \in Nat \ {0}, RemainderIs
  <2> QED BY <2>3, <2>5, <2>7
<1> QED BY <1>4, <1>5, <1>6, <1>7, <1>12, <1>13, <1>14 DEF SplitAt

\* Extending the sign of the lower bytes makes them a signed word.
LEMMA SignextendIs ==
  ASSUME NEW x \in Word, NEW y \in Word
  PROVE  EVM!signextend(x, y) =
           IF x < WordBytes THEN Wrapped(LowBytes(y, x + 1)) ELSE y
<1>1. /\ x \in Nat /\ y \in Nat /\ WordBytes \in Nat \ {0} /\ BitsOfByte \in Nat \ {0}
      /\ Modulus \in Nat \ {0} /\ EVM!bits \in Nat /\ EVM!bits = BitsOfByte * WordBytes
  BY WordIs, WordConstants, ByteConstants
<1>2. CASE x < WordBytes
  <2>1. PICK t \in Nat : /\ t = x * BitsOfByte + BitsOfByte - 1 /\ t < EVM!bits
                         /\ t + 1 = BitsOfByte * (x + 1)
    <3>1. \A n \in Nat : n + 1 <= WordBytes => BitsOfByte * (n + 1) <= BitsOfByte * WordBytes
      BY <1>1
    <3>2. BitsOfByte * (x + 1) <= EVM!bits
      BY <1>1, <1>2, <3>1
    <3>3. BitsOfByte * (x + 1) = x * BitsOfByte + BitsOfByte /\ x * BitsOfByte \in Nat
      BY <1>1
    <3>4. PICK n \in Nat : n = x * BitsOfByte
      BY <3>3
    <3>5. n + BitsOfByte - 1 \in Nat /\ (n + BitsOfByte - 1) + 1 = n + BitsOfByte
          /\ n + BitsOfByte - 1 < n + BitsOfByte
      BY <1>1
    <3> QED BY <1>1, <3>2, <3>3, <3>4, <3>5
  <2>2. PICK s \in Nat \ {0} : s = ToThe(2, t)
    BY TwoPower
  <2>20. PICK q, r \in Nat : SplitAt(y, s, q, r)
    BY <2>1, <2>2, SignBit
  <2>3. /\ y = s * q + r /\ r < s
        /\ And[y][s] = s * (q % 2)
        /\ And[y][s - 1] = r
        /\ s < Modulus /\ Modulus - s \in Nat
        /\ And[y][Modulus - s] = s * q
        /\ y % (2 * s) = s * (q % 2) + r
    BY <2>20 DEF SplitAt
  <2>4. t < Modulus
    <3>1. EVM!bits < Modulus
      BY <1>1, PowerExceeds, WordConstants
    <3> QED BY <1>1, <2>1, <3>1
  <2>5. EVM!add(EVM!mul(x, BitsOfByte), BitsOfByte - 1) = t
    <3>1. PICK n \in Nat : n = x * BitsOfByte
      <4>1. x * BitsOfByte \in Nat
        BY <1>1
      <4> QED BY <4>1
    <3>2. t = n + BitsOfByte - 1 /\ n < Modulus
      BY <1>1, <2>1, <2>4, <3>1
    <3>3. n % Modulus = n
      BY ONLY <1>1, <3>2, n \in Nat
    <3>4. t % Modulus = t
      BY ONLY <1>1, <2>4, t \in Nat
    <3>5. n + (BitsOfByte - 1) = t
      BY <1>1, <3>2
    <3> QED BY <3>1, <3>3, <3>4, <3>5, WordConstants DEF EVM!add, EVM!mul
  <2>6. EVM!shiftLeft(1, t) = s
    <3>1. (1 * s) % Modulus = s
      <4>1. 1 * s = s
        OBVIOUS
      <4>2. s < Modulus
        BY <2>3
      <4>3. s % Modulus = s
        BY ONLY <1>1, <4>2, s \in Nat \ {0}
      <4> QED BY <4>1, <4>3
    <3>2. ~ (t >= EVM!bits)
      BY <1>1, <2>1
    <3> QED BY <2>2, <3>1, <3>2, OneArithmetic, WordConstants DEF EVM!shiftLeft
  <2>7. EVM!signextend(x, y) =
          IF And[y][s] # 0 THEN Or(y, EVM!sub(EVM!ofNat(EVM!size), s))
          ELSE And[y][EVM!sub(s, 1)]
    <3>1. ~ (x > WordBytes - 1)
      BY <1>1, <1>2
    <3> QED BY <2>5, <2>6, <3>1, OneArithmetic DEF EVM!signextend, EVM!land, EVM!lor
  <2>8. PICK b \in {0, 1} : b = q % 2
    BY Halves
  <2>9. LowBytes(y, x + 1) = IF b = 1 THEN r - s ELSE r
    <3>1. ToThe(Byte, x + 1) = 2 * s
      <4>1. x + 1 \in Nat
        BY <1>1
      <4>2. ToThe(Byte, x + 1) = ToThe(2, BitsOfByte * (x + 1))
        BY <4>1, ByteConstants
      <4> QED BY <2>1, <2>2, <4>2, TwoPower
    <3>2. y % (2 * s) = s * b + r
      BY <2>3, <2>8
    <3>3. CASE b = 1
      <4>1. s * b = s
        BY <3>3
      <4>2. y % (2 * s) = s + r
        BY <3>2, <4>1
      <4>3. 2 * (s + r) >= 2 * s /\ (s + r) - 2 * s = r - s
        OBVIOUS
      <4> QED BY <3>1, <3>3, <4>2, <4>3 DEF LowBytes
    <3>4. CASE b = 0
      <4>1. s * b = 0 /\ 0 + r = r
        BY <3>4
      <4>2. y % (2 * s) = r
        BY <3>2, <4>1
      <4>3. ~ (2 * r >= 2 * s)
        BY <2>3
      <4> QED BY <3>1, <3>4, <4>2, <4>3 DEF LowBytes
    <3> QED BY <3>3, <3>4
  <2>10. CASE b = 1
    <3>1. And[y][s] # 0
      <4>1. s * b = s
        BY <2>10
      <4> QED BY <2>3, <2>8, <4>1
    <3>2. EVM!sub(EVM!ofNat(EVM!size), s) = Modulus - s
      <4>1. Modulus % Modulus = 0
        <5>1. Modulus = Modulus * 1 + 0 /\ 0 < Modulus
          BY <1>1
        <5> QED BY <1>1, <5>1, RemainderIs
      <4>2. Wrapped(0 - s) = (0 - s) + Modulus
        <5>1. PICK i \in Int : i = 0 - s
          OBVIOUS
        <5>2. i < 0 /\ i >= - Modulus
          BY <1>1, <2>3, <5>1
        <5>3. Wrapped(i) = i + Modulus
          BY <5>2, WrappedIs
        <5> QED BY <5>1, <5>3
      <4>3. Wrapped(0 - s) = (0 - s) % Modulus
        BY WrappedIs
      <4>4. (0 - s) + Modulus = Modulus - s
        BY <1>1
      <4> QED BY <4>1, <4>2, <4>3, <4>4, WordConstants DEF EVM!sub, EVM!ofNat
    <3>3. EVM!signextend(x, y) = y + (Modulus - s) - s * q
      BY <2>3, <2>7, <3>1, <3>2 DEF Or
    <3>4. s * q \in Nat
      OBVIOUS
    <3>5. y + (Modulus - s) - s * q = (r - s) + Modulus
      BY <1>1, <2>3, <3>4
    <3>6. Wrapped(r - s) = (r - s) + Modulus
      <4>1. PICK i \in Int : i = r - s
        OBVIOUS
      <4>2. i < 0 /\ i >= - Modulus
        BY <1>1, <2>3, <4>1
      <4>3. Wrapped(i) = i + Modulus
        BY <4>2, WrappedIs
      <4> QED BY <4>1, <4>3
    <3> QED BY <1>2, <2>9, <2>10, <3>3, <3>5, <3>6
  <2>11. CASE b = 0
    <3>1. And[y][s] = 0
      <4>1. s * b = 0
        BY <2>11
      <4> QED BY <2>3, <2>8, <4>1
    <3>2. EVM!sub(s, 1) = s - 1
      <4>1. PICK c \in Nat : c = s - 1
        OBVIOUS
      <4>2. c < Modulus
        BY <1>1, <2>3, <4>1
      <4>3. c % Modulus = c
        BY ONLY <1>1, <4>2, c \in Nat
      <4> QED BY <4>1, <4>3, WordConstants DEF EVM!sub
    <3>3. EVM!signextend(x, y) = r
      BY <2>3, <2>7, <3>1, <3>2
    <3>4. Wrapped(r) = r
      <4>1. r < Modulus
        BY <1>1, <2>3
      <4> QED BY <4>1, WrappedIs
    <3> QED BY <1>2, <2>9, <2>11, <3>3, <3>4
  <2> QED BY <2>8, <2>10, <2>11
<1>3. CASE ~ (x < WordBytes)
  <2>1. x > WordBytes - 1
    BY <1>1, <1>3
  <2> QED BY <1>3, <2>1 DEF EVM!signextend
<1> QED BY <1>2, <1>3

\* Sum and product modulo a word are computed without wrapping.
LEMMA ModularIs ==
  ASSUME NEW x \in Word, NEW y \in Word, NEW z \in Word, z # 0
  PROVE  EVM!addMod(x, y, z) = (x + y) % z /\ EVM!mulMod(x, y, z) = (x * y) % z
<1>1. x \in Nat /\ y \in Nat /\ z \in Nat \ {0} /\ z < Modulus /\ Modulus \in Nat \ {0}
  BY WordIs, WordConstants
<1>2. ASSUME NEW n \in Nat PROVE EVM!ofNat(n % z) = n % z
  <2>1. PICK r \in Nat : r = n % z
    <3>1. z \in Nat \ {0}
      BY <1>1
    <3>2. n % z \in Nat
      BY ONLY <3>1, n \in Nat
    <3> QED BY <3>2
  <2>2. n % z < z
    BY <1>1, Remainders
  <2>3. r < Modulus
    BY <1>1, <2>1, <2>2
  <2>4. r % Modulus = r
    BY ONLY <1>1, <2>3, r \in Nat
  <2> QED BY <2>1, <2>4, WordConstants DEF EVM!ofNat
<1>3. x + y \in Nat /\ x * y \in Nat
  BY <1>1
<1> QED BY <1>2, <1>3 DEF EVM!addMod, EVM!mulMod

\* The number of bytes that a value needs, the bytes, and their reversal.
Least(value) == CHOOSE n \in 0 .. value :
                    ToThe(Byte, n) > value /\ \A m \in 0 .. n - 1 : ToThe(Byte, m) <= value
BytesOf(value, many) == [k \in 1 .. many |-> value \div ToThe(Byte, many - k) % Byte]
Backwards(bytes) == [k \in 1 .. Len(bytes) |-> bytes[Len(bytes) + 1 - k]]

\* The instances of the classes encode with one arithmetic too.
LEMMA OneEncoding ==
  /\ \A v : Num!LeastBytes(v) = Least(v) /\ Fix!LeastBytes(v) = Least(v)
  /\ \A v, n : Num!to_bytes(v, n) = IF Least(v) <= n THEN BytesOf(v, n) ELSE OverflowError
  /\ \A v, n : Fix!to_bytes(v, n) = IF Least(v) <= n THEN BytesOf(v, n) ELSE OverflowError
  /\ \A b : Num!Value(b) = ValueOf(Byte, b) /\ Fix!Value(b) = ValueOf(Byte, b)
  /\ \A b : Num!little(b) = Backwards(b)
<1>1. ASSUME NEW v PROVE Num!LeastBytes(v) = Least(v) /\ Fix!LeastBytes(v) = Least(v)
  BY OneArithmetic DEF Num!LeastBytes, Fix!LeastBytes, Least
<1>2. ASSUME NEW v, NEW n
      PROVE  Num!to_bytes(v, n) = IF Least(v) <= n THEN BytesOf(v, n) ELSE OverflowError
  BY <1>1, OneArithmetic DEF Num!to_bytes, Num!Checked, BytesOf
<1>3. ASSUME NEW v, NEW n
      PROVE  Fix!to_bytes(v, n) = IF Least(v) <= n THEN BytesOf(v, n) ELSE OverflowError
  BY <1>1, OneArithmetic DEF Fix!to_bytes, Fix!Checked, BytesOf
<1>4. ASSUME NEW b, NEW s PROVE Num!PrefixValues(b, s) = PrefixValues(b, s) /\ Fix!PrefixValues(b, s) = PrefixValues(b, s)
  BY DEF Num!PrefixValues, Fix!PrefixValues, PrefixValues
<1>5. ASSUME NEW b PROVE Num!Value(b) = ValueOf(Byte, b) /\ Fix!Value(b) = ValueOf(Byte, b)
  BY <1>4 DEF Num!Value, Fix!Value, Num!ValueOf, Fix!ValueOf, ValueOf
<1>6. ASSUME NEW b PROVE Num!little(b) = Backwards(b)
  BY DEF Num!little, Backwards
<1> QED BY <1>1, <1>2, <1>3, <1>5, <1>6

\* The least number of bytes that hold a value.
LEMMA LeastIs ==
  ASSUME NEW v \in Nat
  PROVE  /\ Least(v) \in 0 .. v
         /\ \A n \in Nat : Least(v) <= n <=> v < ToThe(Byte, n)
<1> DEFINE Enough(n) == v < ToThe(Byte, n)
           S == {n \in Nat : \A m \in 0 .. n : ~ Enough(m)}
           Is(n) == ToThe(Byte, n) > v /\ \A m \in 0 .. n - 1 : ToThe(Byte, m) <= v
<1>1. Byte \in Nat \ {0} /\ Byte >= 2
  BY ByteConstants
<1>2. \A n \in Nat : ToThe(Byte, n) \in Nat
  BY <1>1, PowerPositive
<1>3. Enough(v)
  BY <1>1, PowerExceeds
<1>4. \E n \in 0 .. v : Is(n)
  <2> SUFFICES ASSUME \A n \in 0 .. v : ~ Is(n) PROVE FALSE
    OBVIOUS
  <2>1. 0 \in S
    <3>1. 0 \in 0 .. v /\ 0 .. 0 - 1 = {} /\ 0 .. 0 = {0}
      OBVIOUS
    <3>2. ~ Enough(0)
      BY <1>2, <3>1
    <3> QED BY <3>1, <3>2
  <2>2. \A n \in Nat : n \in S => n + 1 \in S
    <3> SUFFICES ASSUME NEW n \in Nat, \A m \in 0 .. n : ~ Enough(m) PROVE ~ Enough(n + 1)
      <4>1. \A n \in Nat : \A m \in 0 .. n + 1 : m \in 0 .. n \/ m = n + 1
        OBVIOUS
      <4> HIDE DEF Enough
      <4> QED BY <4>1
    <3> SUFFICES ASSUME Enough(n + 1) PROVE FALSE
      OBVIOUS
    <3>1. CASE n + 1 <= v
      <4>1. n + 1 \in 0 .. v /\ (n + 1) - 1 = n
        BY <3>1
      <4>2. \A m \in 0 .. n : m \in Nat
        OBVIOUS
      <4>3. \A m \in 0 .. n : ToThe(Byte, m) <= v
        BY <1>2, <4>2
      <4>4. ToThe(Byte, n + 1) > v
        BY <1>2
      <4>5. Is(n + 1)
        BY <4>1, <4>3, <4>4
      <4> HIDE DEF Is
      <4> QED BY <4>1, <4>5
    <3>2. CASE ~ (n + 1 <= v)
      <4>1. v \in 0 .. n
        BY <3>2
      <4> HIDE DEF Enough
      <4> QED BY <1>3, <4>1
    <3> QED BY <3>1, <3>2
  <2> HIDE DEF S
  <2>3. v \in S
    BY <2>1, <2>2, Induction
  <2>4. v \in 0 .. v
    OBVIOUS
  <2> HIDE DEF Enough
  <2> QED BY <1>3, <2>3, <2>4 DEF S
<1>5. Least(v) \in 0 .. v /\ Is(Least(v))
  <2>1. Least(v) = CHOOSE n \in 0 .. v : Is(n)
    BY DEF Least
  <2> HIDE DEF Is
  <2> QED BY <1>4, <2>1
<1>6. PICK l \in Nat : l = Least(v)
  BY <1>5
<1>7. ASSUME NEW n \in Nat PROVE l <= n <=> v < ToThe(Byte, n)
  <2>1. CASE l <= n
    <3>1. l \in 0 .. n
      BY <2>1
    <3>2. ToThe(Byte, l) <= ToThe(Byte, n)
      BY <1>1, <3>1, PowerSplits
    <3>3. v < ToThe(Byte, l)
      BY <1>2, <1>5, <1>6
    <3> QED BY <1>2, <2>1, <3>2, <3>3
  <2>2. CASE ~ (l <= n)
    <3>1. n \in 0 .. l - 1
      BY <2>2
    <3>2. ToThe(Byte, n) <= v
      BY <1>5, <1>6, <3>1
    <3> QED BY <1>2, <2>2, <3>2
  <2> QED BY <2>1, <2>2
<1> QED BY <1>5, <1>6, <1>7

\* Enough bytes of a value stand for it.
LEMMA BytesStandFor ==
  ASSUME NEW v \in Nat, NEW n \in Nat, v < ToThe(Byte, n)
  PROVE  /\ BytesOf(v, n) \in Seq(0 .. Byte - 1) /\ BytesOf(v, n) \in Seq(Int)
         /\ Len(BytesOf(v, n)) = n
         /\ ValueOf(Byte, BytesOf(v, n)) = v
<1>1. Byte \in Nat \ {0}
  BY ByteConstants
<1>2. PICK s : s = BytesOf(v, n)
  OBVIOUS
<1>3. s = [k \in 1 .. n |-> v \div ToThe(Byte, n - k) % Byte]
  BY <1>2 DEF BytesOf
<1> DEFINE Above(k) == v \div ToThe(Byte, n - k)
<1>4. \A k \in 0 .. n : n - k \in Nat /\ Above(k) \in Nat
  <2> SUFFICES ASSUME NEW k \in 0 .. n PROVE n - k \in Nat /\ Above(k) \in Nat
    OBVIOUS
  <2>1. PICK m \in Nat : m = n - k
    OBVIOUS
  <2>2. PICK p \in Nat \ {0} : p = ToThe(Byte, m)
    BY <1>1, PowerPositive
  <2> QED BY <2>1, <2>2, NaturalQuotient
<1>5. \A k \in 1 .. n : Above(k) % Byte \in 0 .. Byte - 1
  <2> SUFFICES ASSUME NEW k \in 1 .. n PROVE Above(k) % Byte \in 0 .. Byte - 1
    OBVIOUS
  <2>1. k \in 0 .. n
    OBVIOUS
  <2>2. Above(k) \in Nat
    BY <1>4, <2>1
  <2> HIDE DEF Above
  <2>3. PICK a \in Int : a = Above(k)
    BY <2>2
  <2>4. a % Byte \in 0 .. Byte - 1
    BY <1>1, Remainders
  <2> QED BY <2>3, <2>4
<1>6. s \in Seq(0 .. Byte - 1) /\ Len(s) = n
  <2> DEFINE Bytes == 0 .. Byte - 1
  <2>1. s = [k \in 1 .. n |-> Above(k) % Byte]
    BY <1>3
  <2>2. \A k \in 1 .. n : Above(k) % Byte \in Bytes
    BY <1>5
  <2> HIDE DEF Bytes, Above
  <2>3. s \in [1 .. n -> Bytes]
    BY <2>1, <2>2
  <2>4. s \in Seq(Bytes) /\ Len(s) = n
    BY <2>3
  <2> QED BY <2>4 DEF Bytes
<1>7. s \in Seq(Int)
  <2> DEFINE Bytes == 0 .. Byte - 1
  <2>1. s \in Seq(Bytes) /\ \A b \in Bytes : b \in Int
    BY <1>6
  <2> HIDE DEF Bytes
  <2>2. Seq(Bytes) \subseteq Seq(Int)
    BY <2>1
  <2> QED BY <2>1, <2>2
<1>8. Above(0) = 0
  <2>1. PICK p \in Nat \ {0} : p = ToThe(Byte, n)
    BY <1>1, PowerPositive
  <2>2. v \div p = 0
    BY <2>1, NaturalQuotient
  <2>3. n - 0 = n
    OBVIOUS
  <2> QED BY <2>1, <2>2, <2>3
<1>9. \A k \in 0 .. n - 1 : Above(k + 1) = Byte * Above(k) + (Above(k + 1) % Byte)
  <2> SUFFICES ASSUME NEW k \in 0 .. n - 1
               PROVE  Above(k + 1) = Byte * Above(k) + (Above(k + 1) % Byte)
    OBVIOUS
  <2>1. PICK m \in Nat : m = n - (k + 1)
    OBVIOUS
  <2>2. m + 1 = n - k
    BY <2>1
  <2>3. PICK p \in Nat \ {0} : p = ToThe(Byte, m)
    BY <1>1, PowerPositive
  <2>4. PICK u \in Nat : u = v \div p
    BY NaturalQuotient
  <2>5. v \div (p * Byte) = u \div Byte
    BY <1>1, <2>4, QuotientOfQuotient
  <2>6. ToThe(Byte, n - k) = p * Byte
    <3>1. ToThe(Byte, m + 1) = Byte * p
      BY <1>1, <2>3, PowerStep
    <3>2. Byte * p = p * Byte
      BY <1>1
    <3> QED BY <2>2, <3>1, <3>2
  <2>7. u = Byte * (u \div Byte) + (u % Byte)
    BY <1>1, Remainders
  <2>8. Above(k) = u \div Byte /\ Above(k + 1) = u
    BY <2>1, <2>3, <2>4, <2>5, <2>6
  <2> HIDE DEF Above
  <2> QED BY <2>7, <2>8
<1>10. \A k \in 1 .. n : s[k] = Above(k) % Byte
  BY <1>3
<1> DEFINE B(k) == PrefixValues(Byte, s)[k]
           S == {k \in Nat : k <= n => B(k) = Above(k)}
<1>11. B(0) = 0 /\ \A k \in 0 .. n - 1 : B(k + 1) = Byte * B(k) + s[k + 1]
  BY <1>1, <1>6, DigitsNatural, PrefixSteps
<1> HIDE DEF B, Above
<1>12. 0 \in S
  BY <1>8, <1>11
<1>13. \A k \in Nat : k \in S => k + 1 \in S
  <2> SUFFICES ASSUME NEW k \in Nat, k + 1 <= n, B(k) = Above(k)
               PROVE  B(k + 1) = Above(k + 1)
    BY <1>12
  <2>1. k \in 0 .. n - 1 /\ k + 1 \in 1 .. n
    OBVIOUS
  <2>2. B(k + 1) = Byte * B(k) + s[k + 1] /\ s[k + 1] = Above(k + 1) % Byte
    BY <1>10, <1>11, <2>1
  <2>3. Above(k + 1) = Byte * Above(k) + (Above(k + 1) % Byte)
    BY <1>9, <2>1
  <2> QED BY ONLY <2>2, <2>3, B(k) = Above(k)
<1> HIDE DEF S
<1>14. \A k \in Nat : k \in S
  BY <1>12, <1>13, Induction
<1>15. B(n) = Above(n)
  BY <1>14 DEF S
<1>16. Above(n) = v
  <2>1. ToThe(Byte, 0) = 1 /\ n - n = 0 /\ v \div 1 = v
    BY <1>1, PowerStep
  <2> QED BY <2>1 DEF Above
<1>17. ValueOf(Byte, s) = v
  BY <1>6, <1>15, <1>16 DEF ValueOf, B
<1> QED BY <1>2, <1>6, <1>7, <1>17

\* Bytes that are turned around twice are the bytes.
LEMMA BackwardsTwice ==
  ASSUME NEW s \in Seq(Int)
  PROVE  Backwards(s) \in Seq(Int) /\ Backwards(Backwards(s)) = s
<1>1. PICK n \in Nat : n = Len(s)
  OBVIOUS
<1>2. PICK r : r = Backwards(s)
  OBVIOUS
<1>3. r = [k \in 1 .. n |-> s[n + 1 - k]]
  BY <1>1, <1>2 DEF Backwards
<1>4. \A k \in 1 .. n : n + 1 - k \in 1 .. n /\ n + 1 - (n + 1 - k) = k
  OBVIOUS
<1>5. r \in Seq(Int) /\ Len(r) = n
  <2>1. \A k \in 1 .. n : s[k] \in Int
    BY <1>1
  <2>2. \A k \in 1 .. n : s[n + 1 - k] \in Int
    BY <1>4, <2>1
  <2>3. r \in [1 .. n -> Int]
    BY <1>3, <2>2
  <2> QED BY <2>3
<1>6. Backwards(r) = [k \in 1 .. n |-> r[n + 1 - k]]
  BY <1>5 DEF Backwards
<1>7. \A k \in 1 .. n : r[n + 1 - k] = s[k]
  <2>1. \A k \in 1 .. n : r[k] = s[n + 1 - k]
    BY <1>3
  <2> QED BY <1>4, <2>1
<1>8. s = [k \in 1 .. n |-> s[k]]
  BY <1>1
<1>9. Backwards(r) = s
  BY <1>6, <1>7, <1>8
<1> QED BY <1>2, <1>5, <1>9

\* What a coding may answer.
CodedWell(coding, x, a) ==
    \/ a = x
    \/ coding \in {"be32", "padded"} /\ x > MAX_VALUE /\ a = OverflowError
    \/ coding = "signed" /\ 2 * x \notin -(MAX_VALUE + 1) .. MAX_VALUE
CodesWell(coding, x) ==
    IF Encoded(coding, x) \in Exceptions THEN CodedWell(coding, x, Encoded(coding, x))
    ELSE CodedWell(coding, x, Decoded(coding, Encoded(coding, x)))

\* The bytes of a value, many or few, are no exception and stand for it.
LEMMA BytesDecode ==
  ASSUME NEW x \in Nat, NEW n \in Nat, Least(x) <= n
  PROVE  /\ BytesOf(x, n) \notin Exceptions /\ BytesOf(x, n) # OverflowError
         /\ Backwards(BytesOf(x, n)) \notin Exceptions
         /\ Len(BytesOf(x, n)) = n
         /\ ValueOf(Byte, BytesOf(x, n)) = x
         /\ Backwards(Backwards(BytesOf(x, n))) = BytesOf(x, n)
<1>1. x < ToThe(Byte, n)
  BY LeastIs
<1>2. PICK b : b = BytesOf(x, n)
  OBVIOUS
<1>3. b \in Seq(Int) /\ Len(b) = n /\ ValueOf(Byte, b) = x
  BY <1>1, <1>2, BytesStandFor
<1>4. Backwards(b) \in Seq(Int) /\ Backwards(Backwards(b)) = b
  BY <1>3, BackwardsTwice
<1>5. \A s \in Seq(Int) : s \notin Exceptions /\ s # OverflowError
  BY NumbersAssumption DEF Exceptions
<1> QED BY <1>2, <1>3, <1>4, <1>5

\* A natural number comes back from each coding of Uint, or is refused for its length.
LEMMA UintCoding ==
  ASSUME NEW coding \in {"be", "le", "padded", "be32"}, NEW x \in Nat
  PROVE  CodesWell(coding, x)
<1>0. WordBytes \in Nat /\ WordBytes # -1 /\ Least(x) \in Nat /\ Least(x) <= Least(x)
      /\ MAX_VALUE \in Nat
  <2>1. WordBytes \in Nat /\ MAX_VALUE \in Nat
    BY ByteConstants, WordConstants
  <2>2. Least(x) \in 0 .. x
    BY LeastIs
  <2>3. \A n \in 0 .. x : n \in Nat /\ n <= n
    OBVIOUS
  <2> QED BY <2>1, <2>2, <2>3
<1>1. \A v \in Nat : Num!init(v) = v
  BY DEF Num!init, Num!Checked
<1>2. CASE coding = "be"
  <2>1. Encoded(coding, x) = BytesOf(x, Least(x))
    BY <1>0, <1>2, OneEncoding DEF Encoded, Num!to_be_bytes
  <2>2. BytesOf(x, Least(x)) \notin Exceptions /\ ValueOf(Byte, BytesOf(x, Least(x))) = x
    BY <1>0, BytesDecode
  <2>3. Decoded(coding, BytesOf(x, Least(x))) = x
    BY <1>1, <1>2, <2>2, OneEncoding DEF Decoded, Num!from_be_bytes
  <2> QED BY <2>1, <2>2, <2>3 DEF CodesWell, CodedWell
<1>3. CASE coding = "le"
  <2>1. /\ BytesOf(x, Least(x)) # OverflowError
        /\ Backwards(BytesOf(x, Least(x))) \notin Exceptions
        /\ ValueOf(Byte, BytesOf(x, Least(x))) = x
        /\ Backwards(Backwards(BytesOf(x, Least(x)))) = BytesOf(x, Least(x))
    BY <1>0, BytesDecode
  <2>2. Encoded(coding, x) = Backwards(BytesOf(x, Least(x)))
    BY <1>0, <1>3, <2>1, OneEncoding DEF Encoded, Num!to_le_bytes, Num!None
  <2>3. Decoded(coding, Backwards(BytesOf(x, Least(x)))) = x
    BY <1>1, <1>3, <2>1, OneEncoding DEF Decoded, Num!from_le_bytes
  <2> QED BY <2>1, <2>2, <2>3 DEF CodesWell, CodedWell
<1>4. ASSUME ~ (Least(x) <= WordBytes) PROVE x > MAX_VALUE
  <2>1. ~ (x < ToThe(Byte, WordBytes)) /\ MAX_VALUE + 1 = ToThe(Byte, WordBytes)
    BY <1>0, <1>4, LeastIs, WordAssumption
  <2> QED BY <1>0, <2>1
<1>5. OverflowError \in Exceptions
  BY ExceptionsApart
<1>6. CASE coding = "padded"
  <2>1. CASE Least(x) <= WordBytes
    <3>1. /\ BytesOf(x, WordBytes) # OverflowError
          /\ Backwards(BytesOf(x, WordBytes)) \notin Exceptions
          /\ ValueOf(Byte, BytesOf(x, WordBytes)) = x
          /\ Backwards(Backwards(BytesOf(x, WordBytes))) = BytesOf(x, WordBytes)
      BY <1>0, <2>1, BytesDecode
    <3>2. Encoded(coding, x) = Backwards(BytesOf(x, WordBytes))
      BY <1>0, <1>6, <2>1, <3>1, OneEncoding DEF Encoded, Num!to_le_bytes, Num!None
    <3>3. Decoded(coding, Backwards(BytesOf(x, WordBytes))) = x
      BY <1>1, <1>6, <3>1, OneEncoding DEF Decoded, Num!from_le_bytes
    <3> QED BY <3>1, <3>2, <3>3 DEF CodesWell, CodedWell
  <2>2. CASE ~ (Least(x) <= WordBytes)
    <3>1. Encoded(coding, x) = OverflowError
      BY <1>0, <1>6, <2>2, OneEncoding DEF Encoded, Num!to_le_bytes, Num!None
    <3> QED BY <1>4, <1>5, <1>6, <2>2, <3>1 DEF CodesWell, CodedWell
  <2> QED BY <2>1, <2>2
<1>7. CASE coding = "be32"
  <2>1. CASE Least(x) <= WordBytes
    <3>1. BytesOf(x, WordBytes) \notin Exceptions /\ ValueOf(Byte, BytesOf(x, WordBytes)) = x
      BY <1>0, <2>1, BytesDecode
    <3>2. Encoded(coding, x) = BytesOf(x, WordBytes)
      BY <1>7, <2>1, OneEncoding DEF Encoded, Num!to_be_bytes32
    <3>3. Decoded(coding, BytesOf(x, WordBytes)) = x
      BY <1>1, <1>7, <3>1, OneEncoding DEF Decoded, Num!from_be_bytes
    <3> QED BY <3>1, <3>2, <3>3 DEF CodesWell, CodedWell
  <2>2. CASE ~ (Least(x) <= WordBytes)
    <3>1. Encoded(coding, x) = OverflowError
      BY <1>7, <2>2, OneEncoding DEF Encoded, Num!to_be_bytes32
    <3> QED BY <1>4, <1>5, <1>7, <2>2, <3>1 DEF CodesWell, CodedWell
  <2> QED BY <2>1, <2>2
<1> QED BY <1>2, <1>3, <1>6, <1>7

\* A word comes back from each coding of FixedUint.
LEMMA WordCoding ==
  ASSUME NEW coding \in {"word", "word32"}, NEW x \in Word
  PROVE  CodesWell(coding, x)
<1>1. WordBytes \in Nat /\ x \in Nat /\ x < Modulus /\ Modulus = ToThe(Byte, WordBytes)
  BY ByteConstants, WordIs, WordAssumption DEF Modulus
<1>2. Least(x) \in Nat /\ Least(x) <= Least(x) /\ Least(x) <= WordBytes
  BY <1>1, LeastIs
<1>3. Fix!init(x) = x
  BY DEF Fix!init, Fix!Checked, Fix!Fits, Word
<1>4. PICK n \in Nat : /\ n = IF coding = "word" THEN Least(x) ELSE WordBytes
                       /\ Least(x) <= n /\ n <= WordBytes
  BY <1>1, <1>2
<1>5. Encoded(coding, x) = BytesOf(x, n)
  BY <1>2, <1>4, OneEncoding DEF Encoded, Fix!to_be_bytes, Fix!to_be_bytes32
<1>6. /\ BytesOf(x, n) \notin Exceptions /\ Len(BytesOf(x, n)) = n
      /\ ValueOf(Byte, BytesOf(x, n)) = x
  BY <1>1, <1>4, BytesDecode
<1>7. ~ (Len(BytesOf(x, n)) > WordBytes)
  BY <1>1, <1>4, <1>6
<1>8. Decoded(coding, BytesOf(x, n)) = x
  BY <1>3, <1>6, <1>7, OneEncoding DEF Decoded, Fix!from_be_bytes
<1> QED BY <1>5, <1>6, <1>8 DEF CodesWell, CodedWell

\* A signed integer comes back from the two's complement, or is refused.
LEMMA SignedCoding ==
  ASSUME NEW x \in Int
  PROVE  CodesWell("signed", x)
<1>1. MAX_VALUE \in Nat /\ Modulus = MAX_VALUE + 1 /\ Modulus \in Nat \ {0}
  BY WordConstants
<1>2. SUFFICES ASSUME 2 * x \in -(MAX_VALUE + 1) .. MAX_VALUE
               PROVE  CodesWell("signed", x)
  BY DEF CodesWell, CodedWell
<1>3. 2 * x >= - Modulus /\ 2 * x <= MAX_VALUE
  BY <1>1, <1>2
<1>4. PICK w : w = Encoded("signed", x)
  OBVIOUS
<1>5. w = IF x >= 0 THEN Fix!init(x) ELSE Fix!init(x % Modulus)
  BY <1>4 DEF Encoded, Fix!from_signed, Fix!Masked, Modulus
<1>6. \A v \in Word : Fix!init(v) = v
  BY DEF Fix!init, Fix!Checked, Fix!Fits, Word
<1>7. CASE x >= 0
  <2>1. x \in Word
    <3>1. 0 <= x /\ x <= MAX_VALUE
      BY <1>1, <1>3, <1>7
    <3> QED BY <1>1, <3>1 DEF Word
  <2>2. w = x
    BY <1>5, <1>6, <1>7, <2>1
  <2>3. Decoded("signed", w) = x
    BY <1>3, <2>2 DEF Decoded, Fix!to_signed
  <2>4. w \notin Exceptions
    BY <2>2, ExceptionsApart
  <2> QED BY <1>4, <2>3, <2>4 DEF CodesWell, CodedWell
<1>8. CASE x < 0
  <2>1. x % Modulus = x + Modulus
    <3>1. x >= - Modulus
      BY <1>1, <1>3, <1>8
    <3> QED BY <1>8, <3>1, WrappedIs
  <2>2. x + Modulus \in Word
    <3>1. x + Modulus \in Int /\ 0 <= x + Modulus /\ x + Modulus <= MAX_VALUE
      BY <1>1, <1>3, <1>8
    <3> QED BY <1>1, <3>1 DEF Word
  <2>3. w = x + Modulus
    BY <1>5, <1>6, <1>8, <2>1, <2>2
  <2>4. ~ (2 * (x + Modulus) <= MAX_VALUE) /\ (x + Modulus) - (MAX_VALUE + 1) = x
    BY <1>1, <1>3
  <2>5. Decoded("signed", w) = x
    BY <2>3, <2>4 DEF Decoded, Fix!to_signed
  <2>6. w \notin Exceptions
    <3>1. w \in Int
      BY <1>1, <2>3
    <3> QED BY <3>1, ExceptionsApart
  <2> QED BY <1>4, <2>5, <2>6 DEF CodesWell, CodedWell
<1> QED BY <1>7, <1>8

\* All the codings.
LEMMA CodingIs ==
  ASSUME NEW coding \in Codings, NEW x \in Codable(coding)
  PROVE  CodesWell(coding, x)
<1>1. MAX_VALUE \in Nat
  BY WordConstants
<1>2. CASE coding \in {"be", "le", "padded", "be32"}
  <2>1. x \in 0 .. 2 * MAX_VALUE + 2
    BY <1>2 DEF Codable
  <2> QED BY <1>1, <1>2, <2>1, UintCoding
<1>3. CASE coding \in {"word", "word32"}
  <2>1. x \in Word
    BY <1>3 DEF Codable
  <2> QED BY <1>3, <2>1, WordCoding
<1>4. CASE coding = "signed"
  <2>1. x \in -(MAX_VALUE + 2) .. MAX_VALUE + 1
    BY <1>4 DEF Codable
  <2> QED BY <1>1, <1>4, <2>1, SignedCoding
<1> QED BY <1>2, <1>3, <1>4 DEF Codings

\* What a script of signed words or of a coding has in its variables.
SignedKept ==
    /\ task = "signed" =>
         \E x, y, z \in Word : argv = <<x, y, z>>
    /\ task = "coding" =>
         \E coding \in Codings : \E x \in Codable(coding) :
           /\ argv = <<coding, x>>
           /\ answer = NoAnswer =>
                \/ locals = <<>>
                \/ locals = <<Encoded(coding, x)>> /\ Encoded(coding, x) \notin Exceptions
SignedInv == SignedKept /\ SignedWords

\* Before there is an answer, there is nothing to be wrong.
LEMMA KeptIsSigned ==
  answer = NoAnswer => SignedWords
BY DEF SignedWords, Answered

\* The same of the next state.
LEMMA KeptStaysSigned ==
  answer' = NoAnswer => SignedWords'
<1>1. (answer = NoAnswer => SignedWords)'
  BY KeptIsSigned, PTL
<1> QED BY <1>1

\* The instructions on signed words answer as they should.
LEMMA ComputedSigned ==
  ASSUME SignedInv, ComputeSigned
  PROVE  SignedInv'
<1>1. task = "signed" /\ answer = NoAnswer
  BY DEF ComputeSigned, Running
<1>2. PICK x, y, z \in Word : argv = <<x, y, z>>
  BY <1>1 DEF SignedInv, SignedKept
<1>3. argv[1] = x /\ argv[2] = y /\ argv[3] = z
  BY <1>2
<1>4. task' = "signed" /\ argv' = <<x, y, z>>
  BY <1>1, <1>2 DEF ComputeSigned, Answer
<1>5. answer' = [sdiv       |-> EVM!sdiv(x, y),
                 smod       |-> EVM!smod(x, y),
                 slt        |-> EVM!slt(x, y),
                 sgt        |-> EVM!sgt(x, y),
                 sar        |-> EVM!sar(x, y),
                 signextend |-> EVM!signextend(x, y),
                 byteAt     |-> EVM!byteAt(x, y),
                 shiftLeft  |-> EVM!shiftLeft(y, x),
                 addMod     |-> EVM!addMod(x, y, z),
                 mulMod     |-> EVM!mulMod(x, y, z)]
  BY <1>3 DEF ComputeSigned, Answer
<1>6. SignedKept'
  BY <1>4 DEF SignedKept
<1>7. /\ answer'.sdiv = IF Signed(y) = 0 THEN 0 ELSE Wrapped(Quotient(Signed(x), Signed(y)))
      /\ answer'.smod = IF Signed(y) = 0 THEN 0
                        ELSE Wrapped(Signed(x) - Signed(y) * Quotient(Signed(x), Signed(y)))
  BY <1>5, SdivIs, SmodIs
<1>8. /\ answer'.slt = IF Signed(x) < Signed(y) THEN 1 ELSE 0
      /\ answer'.sgt = IF Signed(x) > Signed(y) THEN 1 ELSE 0
  BY <1>5, ComparedAre
<1>9. /\ answer'.sar = Wrapped(Signed(y) \div ToThe(2, x))
      /\ answer'.shiftLeft = Wrapped(y * ToThe(2, x))
  <2>1. x \in Nat
    BY WordIs
  <2> QED BY <1>5, <2>1, SarIs, ShiftedIs
<1>10. answer'.signextend = IF x < WordBytes THEN Wrapped(LowBytes(y, x + 1)) ELSE y
  BY <1>5, SignextendIs
<1>11. answer'.byteAt =
         IF x < WordBytes THEN y \div ToThe(Byte, WordBytes - 1 - x) % Byte ELSE 0
  BY <1>5, ByteAtIs
<1>12. z # 0 => answer'.addMod = (x + y) % z /\ answer'.mulMod = (x * y) % z
  BY <1>5, ModularIs
<1>13. argv'[1] = x /\ argv'[2] = y /\ argv'[3] = z
  BY <1>4
<1>14. SignedWords'
  BY <1>4, <1>7, <1>8, <1>9, <1>10, <1>11, <1>12, <1>13 DEF SignedWords, Answered
<1> QED BY <1>6, <1>14 DEF SignedInv

\* Encoding and decoding keep the invariant.
LEMMA CodedKept ==
  ASSUME SignedInv, Encode \/ Decode
  PROVE  SignedInv'
<1>1. task = "coding" /\ answer = NoAnswer
  BY DEF Encode, Decode, Running
<1>20. PICK coding \in Codings : \E x \in Codable(coding) :
        /\ argv = <<coding, x>>
        /\ \/ locals = <<>>
           \/ locals = <<Encoded(coding, x)>> /\ Encoded(coding, x) \notin Exceptions
  BY <1>1 DEF SignedInv, SignedKept
<1>2. PICK x \in Codable(coding) :
        /\ argv = <<coding, x>>
        /\ \/ locals = <<>>
           \/ locals = <<Encoded(coding, x)>> /\ Encoded(coding, x) \notin Exceptions
  BY <1>20
<1>3. argv[1] = coding /\ argv[2] = x
  BY <1>2
<1>4. PICK code : code = Encoded(coding, x)
  OBVIOUS
<1>5. CodesWell(coding, x)
  BY <1>2, CodingIs
<1>6. task' = "coding" /\ argv' = <<coding, x>>
  BY <1>1, <1>2 DEF Encode, Decode, Answer, Continue
<1>7. argv'[1] = coding /\ argv'[2] = x
  BY <1>6
<1>8. CodedWell(coding, x, answer') => SignedWords'
  BY <1>6, <1>7 DEF SignedWords, Answered, CodedWell
<1>9. CASE Encode
  <2>1. IF code \in Exceptions THEN Answer(code) ELSE Continue(<<code>>)
    BY <1>3, <1>4, <1>9 DEF Encode
  <2>2. CASE code \in Exceptions
    <3>1. answer' = code /\ answer' # NoAnswer
      BY <2>1, <2>2, NumbersAssumption DEF Answer
    <3>2. SignedKept'
      BY <1>2, <1>6, <3>1 DEF SignedKept
    <3>3. CodedWell(coding, x, answer')
      BY <1>4, <1>5, <2>2, <3>1 DEF CodesWell
    <3> QED BY <1>8, <3>2, <3>3 DEF SignedInv
  <2>3. CASE code \notin Exceptions
    <3>1. answer' = NoAnswer /\ locals' = <<code>>
      BY <1>1, <2>1, <2>3 DEF Continue
    <3>2. SignedKept'
      BY <1>2, <1>4, <1>6, <2>3, <3>1 DEF SignedKept
    <3> QED BY <3>1, <3>2, KeptStaysSigned DEF SignedInv
  <2> QED BY <2>2, <2>3
<1>10. CASE Decode
  <2>1. locals = <<code>> /\ code \notin Exceptions
    BY <1>2, <1>4, <1>10 DEF Decode
  <2>2. answer' = Decoded(coding, code) /\ locals' = <<code>>
    BY <1>3, <1>10, <2>1 DEF Decode, Answer
  <2>3. SignedKept'
    BY <1>2, <1>4, <1>6, <2>1, <2>2 DEF SignedKept
  <2>4. CodedWell(coding, x, answer')
    BY <1>4, <1>5, <2>1, <2>2 DEF CodesWell
  <2> QED BY <1>8, <2>3, <2>4 DEF SignedInv
<1> QED BY <1>9, <1>10

(***************************************************************************)
(* SDIV, SMOD, SLT, SGT, SAR, SIGNEXTEND, BYTE, SHL, ADDMOD and MULMOD     *)
(* (UInt256.lean), which work on absolute values, sign bits and masks,     *)
(* compute what they mean for signed integers and bytes, for all words of  *)
(* any width; and to_bytes and from_bytes of base_types.py, to_signed and  *)
(* from_signed invert each other.                                          *)
(***************************************************************************)
THEOREM SignedWordsAreIntegers == WordsSpec => []SignedWords
<1>1. Idle => SignedInv
  BY KeptIsSigned DEF Idle, SignedInv, SignedKept
<1>2. ASSUME SignedInv, [WordsNext \/ Respond]_computation PROVE SignedInv'
  <2>1. CASE StartNumber
    <3>1. answer' = NoAnswer /\ task' = "number"
      BY <2>1 DEF StartNumber, Idle, Start
    <3> QED BY <3>1, KeptStaysSigned DEF SignedInv, SignedKept
  <2>2. CASE ApplyMethod \/ ApplyPower \/ ApplyReflectedPower \/ LeaveNumber
    <3>1. task = "number" /\ task' = task
      BY <2>2 DEF ApplyMethod, ApplyPower, ApplyReflectedPower, LeaveNumber, Running,
                  Apply, Continue, Answer
    <3>2. SignedWords'
      BY <3>1 DEF SignedWords, Answered
    <3> QED BY <3>1, <3>2 DEF SignedInv, SignedKept
  <2>3. CASE StartCoding
    <3>1. PICK coding \in Codings : \E x \in Codable(coding) :
            Start("coding", <<coding, x>>, <<>>)
      BY <2>3 DEF StartCoding
    <3>2. PICK x \in Codable(coding) : Start("coding", <<coding, x>>, <<>>)
      BY <3>1
    <3>3. answer' = NoAnswer /\ task' = "coding" /\ argv' = <<coding, x>> /\ locals' = <<>>
      BY <2>3, <3>2 DEF StartCoding, Idle, Start
    <3>4. SignedKept'
      BY <3>3 DEF SignedKept
    <3> QED BY <3>3, <3>4, KeptStaysSigned DEF SignedInv
  <2>4. CASE Encode \/ Decode
    BY <1>2, <2>4, CodedKept
  <2>5. CASE StartSigned
    <3>1. PICK x, y \in Word, z \in Operands \cap Word : Start("signed", <<x, y, z>>, <<>>)
      BY <2>5 DEF StartSigned
    <3>2. answer' = NoAnswer /\ task' = "signed" /\ argv' = <<x, y, z>>
      BY <2>5, <3>1 DEF StartSigned, Idle, Start
    <3>3. SignedKept'
      BY <3>1, <3>2 DEF SignedKept
    <3> QED BY <3>2, <3>3, KeptStaysSigned DEF SignedInv
  <2>6. CASE ComputeSigned
    BY <1>2, <2>6, ComputedSigned
  <2>7. CASE Respond
    <3>1. answer' = NoAnswer /\ task' = "none"
      BY <2>7 DEF Respond
    <3> QED BY <3>1, KeptStaysSigned DEF SignedInv, SignedKept
  <2>8. CASE UNCHANGED computation
    BY <1>2, <2>8 DEF computation, SignedInv, SignedKept, SignedWords, Answered
  <2> QED BY <1>2, <2>1, <2>2, <2>3, <2>4, <2>5, <2>6, <2>7, <2>8 DEF WordsNext
<1> QED BY <1>1, <1>2, PTL DEF WordsSpec, SignedInv

-----------------------------------------------------------------------------
(***************************************************************************)
(* The KZG point evaluation.                                               *)
(***************************************************************************)

\* The coefficients of a polynomial from the highest on, and of its quotient.
Falling(p) == Reverse(p)
Sums(p, z) == [k \in 1 .. Len(p) |-> PrefixValues(z, Falling(p))[k - 1]]
Value(p, x) == ValueOf(x, Falling(p))
QuotientValue(p, z, x) == ValueOf(x, Sums(p, z))

\* The coefficients from the highest on are numbers too.
LEMMA FallingIs ==
  ASSUME NEW p \in Seq(Nat)
  PROVE  Falling(p) \in Seq(Nat) /\ Len(Falling(p)) = Len(p)
<1>1. PICK n \in Nat : n = Len(p)
  OBVIOUS
<1>2. Falling(p) = [k \in 1 .. n |-> p[(n - k) + 1]]
  BY <1>1 DEF Falling, Reverse
<1>3. \A k \in 1 .. n : p[(n - k) + 1] \in Nat
  <2>1. \A k \in 1 .. n : (n - k) + 1 \in 1 .. n
    OBVIOUS
  <2>2. \A k \in 1 .. n : p[k] \in Nat
    BY <1>1
  <2> QED BY <2>1, <2>2
<1>4. Falling(p) \in [1 .. n -> Nat]
  BY <1>2, <1>3
<1> QED BY <1>1, <1>4

\* The quotient times x - z is the value at x less that at z.
LEMMA SyntheticDivision ==
  ASSUME NEW p \in Seq(Nat), NEW z \in Nat, NEW x \in Nat
  PROVE  /\ Value(p, x) \in Nat /\ Value(p, z) \in Nat /\ QuotientValue(p, z, x) \in Nat
         /\ QuotientValue(p, z, x) * (x - z) = Value(p, x) - Value(p, z)
<1>1. PICK d \in Seq(Nat) : d = Falling(p) /\ Len(d) = Len(p)
  BY FallingIs
<1>2. PICK n \in Nat : n = Len(d)
  OBVIOUS
<1>3. PICK q : q = Sums(p, z)
  OBVIOUS
<1> DEFINE X(k) == PrefixValues(x, d)[k]
           Z(k) == PrefixValues(z, d)[k]
           Q(k) == PrefixValues(x, q)[k]
           S == {k \in Nat : k <= n => Q(k) * (x - z) = X(k) - Z(k)}
<1>4. /\ X(0) = 0 /\ \A k \in 0 .. n : X(k) \in Nat
      /\ \A k \in 0 .. n - 1 : X(k + 1) = x * X(k) + d[k + 1]
  BY <1>2, PrefixSteps
<1>5. /\ Z(0) = 0 /\ \A k \in 0 .. n : Z(k) \in Nat
      /\ \A k \in 0 .. n - 1 : Z(k + 1) = z * Z(k) + d[k + 1]
  BY <1>2, PrefixSteps
<1>6. q = [k \in 1 .. n |-> Z(k - 1)]
  BY <1>1, <1>2, <1>3 DEF Sums
<1> HIDE DEF X, Z
<1>7. q \in Seq(Nat) /\ Len(q) = n /\ \A k \in 0 .. n - 1 : q[k + 1] = Z(k)
  <2>1. \A k \in 1 .. n : k - 1 \in 0 .. n
    OBVIOUS
  <2>2. q \in [1 .. n -> Nat]
    BY <1>5, <1>6, <2>1
  <2>3. \A k \in 0 .. n - 1 : k + 1 \in 1 .. n /\ (k + 1) - 1 = k
    OBVIOUS
  <2>4. \A k \in 1 .. n : q[k] = Z(k - 1)
    BY <1>6
  <2> QED BY <2>2, <2>3, <2>4
<1>8. /\ Q(0) = 0 /\ \A k \in 0 .. n : Q(k) \in Nat
      /\ \A k \in 0 .. n - 1 : Q(k + 1) = x * Q(k) + q[k + 1]
  BY <1>7, PrefixSteps
<1> HIDE DEF Q
<1>9. 0 \in S
  BY <1>4, <1>5, <1>8
<1>10. \A k \in Nat : k \in S => k + 1 \in S
  <2> SUFFICES ASSUME NEW k \in Nat, k + 1 <= n, Q(k) * (x - z) = X(k) - Z(k)
               PROVE  Q(k + 1) * (x - z) = X(k + 1) - Z(k + 1)
    OBVIOUS
  <2>1. k \in 0 .. n - 1 /\ k \in 0 .. n /\ k + 1 \in 1 .. n
    OBVIOUS
  <2>2. PICK u \in Nat : u = X(k)
    BY <1>4, <2>1
  <2>3. PICK v \in Nat : v = Z(k)
    BY <1>5, <2>1
  <2>4. PICK w \in Nat : w = Q(k)
    BY <1>8, <2>1
  <2>5. PICK c \in Nat : c = d[k + 1]
    BY <1>2, <2>1
  <2>6. X(k + 1) = x * u + c /\ Z(k + 1) = z * v + c /\ Q(k + 1) = x * w + v
    BY <1>4, <1>5, <1>7, <1>8, <2>1, <2>2, <2>3, <2>4, <2>5
  <2>7. w * (x - z) = u - v
    BY <2>2, <2>3, <2>4
  <2>8. (x * w + v) * (x - z) = x * (w * (x - z)) + v * (x - z)
    OBVIOUS
  <2>9. x * (u - v) + v * (x - z) = (x * u + c) - (z * v + c)
    OBVIOUS
  <2> QED BY <2>6, <2>7, <2>8, <2>9
<1> HIDE DEF S
<1>11. \A k \in Nat : k \in S
  BY <1>9, <1>10, Induction
<1>12. Q(n) * (x - z) = X(n) - Z(n) /\ Q(n) \in Nat /\ X(n) \in Nat /\ Z(n) \in Nat
  <2>1. n \in 0 .. n
    OBVIOUS
  <2>2. n \in S
    BY <1>11
  <2>3. n <= n => Q(n) * (x - z) = X(n) - Z(n)
    BY ONLY <2>2 DEF S
  <2>4. n <= n
    OBVIOUS
  <2> QED BY <1>4, <1>5, <1>8, <2>1, <2>3, <2>4
<1>13. Value(p, x) = X(n) /\ Value(p, z) = Z(n) /\ QuotientValue(p, z, x) = Q(n)
  BY <1>1, <1>2, <1>3, <1>7 DEF Value, QuotientValue, ValueOf, X, Z, Q
<1> QED BY <1>12, <1>13

\* Numbers that leave the same remainder.
Same(m, a, b) == a % m = b % m

\* To leave the same remainder goes with sums and products.
LEMMA SameRules ==
  ASSUME NEW m \in Nat \ {0}
  PROVE  /\ \A a \in Int : Same(m, a, a)
         /\ \A a, b \in Int : Same(m, a, b) => Same(m, b, a)
         /\ \A a, b, c \in Int : Same(m, a, b) /\ Same(m, b, c) => Same(m, a, c)
         /\ \A a, b, c \in Int : Same(m, a, b) => Same(m, a + c, b + c) /\ Same(m, c + a, c + b)
         /\ \A a, b, c \in Int : Same(m, a, b) => Same(m, a * c, b * c) /\ Same(m, c * a, c * b)
<1>1. \A a \in Int : Same(m, a, a)
  BY DEF Same
<1>2. \A a, b \in Int : Same(m, a, b) => Same(m, b, a)
  BY DEF Same
<1>3. \A a, b, c \in Int : Same(m, a, b) /\ Same(m, b, c) => Same(m, a, c)
  BY Zenon DEF Same
<1>4. \A a, b, c \in Int : Same(m, a, b) => Same(m, a + c, b + c) /\ Same(m, c + a, c + b)
  <2> SUFFICES ASSUME NEW a \in Int, NEW b \in Int, NEW c \in Int, Same(m, a, b)
               PROVE  Same(m, a + c, b + c) /\ Same(m, c + a, c + b)
    OBVIOUS
  <2>1. a % m = b % m
    BY DEF Same
  <2>2. (a + c) % m = (b + c) % m
    BY <2>1, Congruent
  <2>3. c + a = a + c /\ c + b = b + c
    OBVIOUS
  <2>4. Same(m, a + c, b + c)
    BY ONLY <2>2 DEF Same
  <2> HIDE DEF Same
  <2> QED BY ONLY <2>3, <2>4
<1>5. \A a, b, c \in Int : Same(m, a, b) => Same(m, a * c, b * c) /\ Same(m, c * a, c * b)
  <2> SUFFICES ASSUME NEW a \in Int, NEW b \in Int, NEW c \in Int, Same(m, a, b)
               PROVE  Same(m, a * c, b * c) /\ Same(m, c * a, c * b)
    OBVIOUS
  <2>1. a % m = b % m
    BY DEF Same
  <2>2. (a * c) % m = (b * c) % m
    BY <2>1, Congruent
  <2>3. c * a = a * c /\ c * b = b * c
    OBVIOUS
  <2>4. Same(m, a * c, b * c)
    BY ONLY <2>2 DEF Same
  <2> QED BY ONLY <2>3, <2>4
<1> QED BY <1>1, <1>2, <1>3, <1>4, <1>5

\* A remainder, and a number less the modulus, are the same as the number.
LEMMA SameNumbers ==
  ASSUME NEW m \in Nat \ {0}, NEW a \in Int
  PROVE  /\ \E r \in Nat : r = a % m /\ r < m /\ Same(m, r, a)
         /\ Same(m, m - a, -a)
<1>1. a % m \in Nat /\ a % m < m
  BY Remainders
<1>2. (a % m) % m = a % m
  BY RemainderCongruent
<1>3. (m * 1 + (-a)) % m = (-a) % m
  <2>1. -a \in Int /\ 1 \in Int
    OBVIOUS
  <2> QED BY <2>1, MultiplesVanish
<1>4. m * 1 + (-a) = m - a
  OBVIOUS
<1>5. (m - a) % m = (-a) % m
  BY ONLY <1>3, <1>4
<1> QED BY <1>1, <1>2, <1>5, Zenon DEF Same

\* Numbers below the modulus that are the same are equal.
LEMMA SameIsEqual ==
  ASSUME NEW m \in Nat \ {0}, NEW a \in Nat, NEW b \in Nat, a < m, b < m
  PROVE  Same(m, a, b) => a = b
<1>1. a % m = a
  BY Remainders
<1>2. b % m = b
  BY Remainders
<1> QED BY ONLY <1>1, <1>2 DEF Same

\* What is proved, Q (X - z) = P - y, holds for the value of the polynomial only.
LEMMA PairingIs ==
  ASSUME NEW p \in Polynomials, NEW z \in Points, NEW y \in Points,
         z < BLS_MODULUS, y < BLS_MODULUS
  PROVE  verify_kzg_proof_impl(ValueAt(p, Secret), z, y, QuotientAt(p, z, Secret))
           <=> y = ValueAt(p, z)
<1>1. PICK M \in Nat \ {0} : M = BLS_MODULUS
  BY KzgAssumption
<1>2. PICK s \in Nat : s = Secret
  BY KzgAssumption
<1>3. p \in Seq(Nat) /\ z \in Nat /\ y \in Nat /\ z < M /\ y < M
  BY <1>1, KzgAssumption
<1>4. PICK q \in Nat : q = QuotientValue(p, z, s)
  BY <1>3, SyntheticDivision
<1>5. PICK u \in Nat : u = Value(p, s)
  BY <1>3, SyntheticDivision
<1>6. PICK v \in Nat : v = Value(p, z)
  BY <1>3, SyntheticDivision
<1>7. q * (s - z) = u - v
  BY <1>3, <1>4, <1>5, <1>6, SyntheticDivision
<1>8. /\ ValueAt(p, Secret) = u % M /\ ValueAt(p, z) = v % M
      /\ QuotientAt(p, z, Secret) = q % M
  BY <1>1, <1>2, <1>4, <1>5, <1>6 DEF ValueAt, QuotientAt, Value, QuotientValue, Sums, Falling
<1>i. u \in Int /\ q \in Int /\ v \in Int
  OBVIOUS
<1>9. PICK h \in Nat : h = u % M /\ h < M /\ Same(M, h, u)
  BY <1>i, SameNumbers, Zenon
<1>10. PICK k \in Nat : k = q % M /\ k < M /\ Same(M, k, q)
  BY <1>i, SameNumbers, Zenon
<1>11. PICK w \in Nat : w = v % M /\ w < M /\ Same(M, w, v)
  BY <1>i, SameNumbers, Zenon
<1>12. M - z \in Int /\ M - y \in Int /\ -z \in Int /\ -y \in Int /\ -1 \in Int
  BY <1>3
<1>13. PICK f \in Nat : f = (M - z) % M /\ Same(M, f, M - z)
  BY <1>12, SameNumbers
<1>14. PICK g \in Nat : g = (M - y) % M /\ Same(M, g, M - y)
  BY <1>12, SameNumbers
<1>15. PICK xx \in Nat : xx = (s + f) % M /\ Same(M, xx, s + f)
  <2>1. s + f \in Int
    OBVIOUS
  <2> QED BY <2>1, SameNumbers
<1>16. PICK pp \in Nat : pp = (h + g) % M /\ Same(M, pp, h + g)
  <2>1. h + g \in Int
    OBVIOUS
  <2> QED BY <2>1, SameNumbers
<1>17. PICK n \in Nat : n = (-1) % M /\ Same(M, n, -1)
  BY <1>12, SameNumbers
<1>18. PICK t \in Nat : t = (pp * n + k * xx) % M /\ t < M /\ Same(M, t, pp * n + k * xx)
  <2>1. pp * n + k * xx \in Int
    OBVIOUS
  <2> QED BY <2>1, SameNumbers
<1>19. verify_kzg_proof_impl(ValueAt(p, Secret), z, y, QuotientAt(p, z, Secret)) <=> t = 0
  BY ONLY <1>1, <1>2, <1>8, <1>9, <1>10, <1>13, <1>14, <1>15, <1>16, <1>17, <1>18
     DEF verify_kzg_proof_impl, plusPoint, negPoint, pairing_check
<1> DEFINE R(a, b) == Same(M, a, b)
<1>20. /\ \A a, b \in Int : R(a, b) => R(b, a)
       /\ \A a, b, c \in Int : R(a, b) /\ R(b, c) => R(a, c)
  BY SameRules
<1>21. \A a, b, c \in Int : R(a, b) => R(a + c, b + c) /\ R(c + a, c + b)
  BY SameRules
<1>22. \A a, b, c \in Int : R(a, b) => R(a * c, b * c) /\ R(c * a, c * b)
  BY SameRules
<1>23. R(f, -z) /\ R(g, -y)
  <2>0. z \in Int /\ y \in Int
    BY <1>3
  <2>1. R(M - z, -z) /\ R(M - y, -y)
    BY <2>0, SameNumbers, Zenon
  <2>2. R(f, M - z) /\ R(g, M - y)
    BY <1>13, <1>14
  <2> HIDE DEF R
  <2> QED BY <1>12, <1>20, <2>1, <2>2
<1>j. /\ h \in Int /\ k \in Int /\ w \in Int /\ f \in Int /\ g \in Int /\ n \in Int
      /\ xx \in Int /\ pp \in Int /\ t \in Int /\ u \in Int /\ q \in Int /\ v \in Int /\ 0 \in Int
  OBVIOUS
<1>24. R(h, u) /\ R(k, q) /\ R(w, v) /\ R(xx, s + f) /\ R(pp, h + g) /\ R(n, -1)
  BY <1>9, <1>10, <1>11, <1>15, <1>16, <1>17
<1>25. R(t, pp * n + k * xx)
  BY <1>18
<1> HIDE DEF R
<1>26. PICK a \in Int : a = s - z
  BY <1>3
<1>27. PICK b \in Int : b = u - y
  BY <1>3
<1>28. R(xx, a)
  <2>1. R(s + f, s + (-z)) /\ s + f \in Int /\ s + (-z) \in Int
    BY <1>3, <1>12, <1>21, <1>23
  <2>2. s + (-z) = a
    BY <1>3, <1>26
  <2> QED BY <1>20, <1>24, <2>1, <2>2
<1>29. R(pp, b)
  <2>1. R(h + g, u + g) /\ R(u + g, u + (-y))
    BY <1>j, <1>12, <1>21, <1>23, <1>24, Zenon
  <2>3. h + g \in Int /\ u + g \in Int /\ u + (-y) \in Int
    BY <1>12
  <2>2. u + (-y) = b
    BY <1>3, <1>27
  <2> QED BY <1>20, <1>24, <2>1, <2>2, <2>3
<1>30. PICK c \in Int : c = pp * n /\ R(c, b * (-1))
  <2>1. R(pp * n, b * n) /\ R(b * n, b * (-1))
    BY <1>j, <1>12, <1>22, <1>24, <1>29, Zenon
  <2>2. pp * n \in Int /\ b * n \in Int /\ b * (-1) \in Int
    OBVIOUS
  <2> QED BY <1>20, <2>1, <2>2
<1>31. PICK d \in Int : d = k * xx /\ R(d, q * a)
  <2>1. R(k * xx, q * xx) /\ R(q * xx, q * a)
    BY <1>j, <1>22, <1>24, <1>28, Zenon
  <2>2. k * xx \in Int /\ q * xx \in Int /\ q * a \in Int
    OBVIOUS
  <2> QED BY <1>20, <2>1, <2>2
<1>32. R(t, y - v)
  <2>1. PICK i \in Int : i = b * (-1) /\ i = y - u
    <3>1. b * (-1) = y - u
      BY <1>3, <1>27
    <3> QED BY <3>1
  <2>2. PICK j \in Int : j = q * a /\ j = u - v
    BY <1>7, <1>26
  <2>0. R(c, i) /\ R(d, j)
    BY <1>30, <1>31, <2>1, <2>2
  <2>3. R(c + d, i + d) /\ R(i + d, i + j)
    BY <1>21, <2>0, Zenon
  <2>6. c + d \in Int /\ i + d \in Int /\ i + j \in Int
    OBVIOUS
  <2>4. i + j = y - v
    BY <1>3, <2>1, <2>2
  <2>5. R(t, c + d)
    BY <1>25, <1>30, <1>31
  <2> QED BY <1>20, <2>3, <2>4, <2>5, <2>6
<1>33. t = 0 => y = w
  <2> SUFFICES ASSUME t = 0 PROVE y = w
    OBVIOUS
  <2>1. R(0, y - v) /\ y - v \in Int
    BY <1>3, <1>32
  <2>2. R(0 + v, (y - v) + v)
    BY <1>j, <1>21, <2>1, Zenon
  <2>3. 0 + v = v /\ (y - v) + v = y
    BY <1>3
  <2>4. R(v, y)
    BY ONLY <2>2, <2>3
  <2>5. R(w, y)
    BY <1>3, <1>20, <1>24, <2>4
  <2> QED BY <1>3, <1>11, <2>5, SameIsEqual DEF R
<1>34. y = w => t = 0
  <2> SUFFICES ASSUME y = w PROVE t = 0
    OBVIOUS
  <2>1. PICK j \in Int : j = -v
    OBVIOUS
  <2>0. R(y, v) /\ y \in Int
    BY <1>3, <1>24
  <2>2. R(y + j, v + j)
    BY <1>j, <1>21, <2>0, Zenon
  <2>3. y + j = y - v /\ v + j = 0 /\ y - v \in Int
    BY <1>3, <2>1
  <2>4. R(y - v, 0)
    BY ONLY <2>2, <2>3
  <2>5. R(t, 0)
    BY <1>20, <1>32, <2>3, <2>4
  <2>6. 0 < M /\ 0 \in Nat
    OBVIOUS
  <2> QED BY <1>18, <2>5, <2>6, SameIsEqual DEF R
<1> QED BY <1>8, <1>11, <1>19, <1>33, <1>34

\* An input whose parts fit together.
Fits(data) ==
    /\ data.length = 192
    /\ kzg_commitment_to_versioned_hash(data.commitment) = data.versioned_hash

\* What verify_kzg_proof has of an input: no point of the group, or the input as it was made.
Presented(data) ==
    /\ data.polynomial \in Polynomials /\ data.z \in Points /\ data.y \in Points
    /\ Fits(data) => \/ data.commitment = NotOnCurve
                     \/ data.proof = NotOnCurve
                     \/ data = Honest(data.polynomial, data.z, data.y)

\* An input as it was made fits together, and its points are numbers.
LEMMA HonestFits ==
  ASSUME NEW p \in Polynomials, NEW z \in Points, NEW y \in Points
  PROVE  /\ Fits(Honest(p, z, y))
         /\ Honest(p, z, y).commitment = ValueAt(p, Secret)
         /\ Honest(p, z, y).proof = QuotientAt(p, z, Secret)
         /\ ValueAt(p, Secret) \in Nat /\ ValueAt(p, z) \in Nat /\ ValueAt(p, z) < BLS_MODULUS
         /\ QuotientAt(p, z, Secret) \in Nat
<1>1. BLS_MODULUS \in Nat \ {0} /\ Secret \in Nat /\ p \in Seq(Nat) /\ z \in Nat
  BY KzgAssumption
<1>2. Value(p, Secret) \in Int /\ Value(p, z) \in Int /\ QuotientValue(p, z, Secret) \in Int
  <2>1. Value(p, Secret) \in Nat /\ Value(p, z) \in Nat /\ QuotientValue(p, z, Secret) \in Nat
    BY <1>1, SyntheticDivision, Zenon
  <2> QED BY ONLY <2>1
<1>3. /\ ValueAt(p, Secret) = Value(p, Secret) % BLS_MODULUS
      /\ ValueAt(p, z) = Value(p, z) % BLS_MODULUS
      /\ QuotientAt(p, z, Secret) = QuotientValue(p, z, Secret) % BLS_MODULUS
  BY DEF ValueAt, QuotientAt, Value, QuotientValue, Sums, Falling
<1>4. /\ Value(p, Secret) % BLS_MODULUS \in Nat /\ QuotientValue(p, z, Secret) % BLS_MODULUS \in Nat
      /\ Value(p, z) % BLS_MODULUS \in Nat /\ Value(p, z) % BLS_MODULUS < BLS_MODULUS
  BY <1>1, <1>2, Remainders
<1>5. /\ ValueAt(p, Secret) \in Nat /\ QuotientAt(p, z, Secret) \in Nat
      /\ ValueAt(p, z) \in Nat /\ ValueAt(p, z) < BLS_MODULUS
  BY ONLY <1>3, <1>4
<1>6. /\ Honest(p, z, y).commitment = ValueAt(p, Secret) /\ Honest(p, z, y).length = 192
      /\ Honest(p, z, y).proof = QuotientAt(p, z, Secret)
      /\ Honest(p, z, y).versioned_hash = kzg_commitment_to_versioned_hash(ValueAt(p, Secret))
  BY DEF Honest
<1>7. Fits(Honest(p, z, y))
  BY ONLY <1>6 DEF Fits
<1> QED BY <1>5, <1>6, <1>7

\* One alteration makes an input that does not fit, has no point, or is the input.
LEMMA AlteredIs ==
  ASSUME NEW p \in Polynomials, NEW z \in Points, NEW y \in Points,
         NEW data \in Altered(Honest(p, z, y))
  PROVE  Presented(data)
<1>1. PICK H : H = Honest(p, z, y)
  OBVIOUS
<1>2. PICK c : c = ValueAt(p, Secret)
  OBVIOUS
<1>3. PICK q : q = QuotientAt(p, z, Secret)
  OBVIOUS
<1>4. H = [polynomial |-> p, length |-> 192, z |-> z, y |-> y, versioned_hash |-> <<1, c>>,
           commitment |-> c, proof |-> q]
  BY <1>1, <1>2, <1>3 DEF Honest, kzg_commitment_to_versioned_hash
<1>5. H.polynomial = p /\ H.z = z /\ H.y = y /\ H.versioned_hash = <<1, c>> /\ H.commitment = c
  BY ONLY <1>4
<1>6. CASE data = H
  BY <1>1, <1>5, <1>6 DEF Presented
<1>7. CASE data = [H EXCEPT !.length = 191]
  <2>1. data.polynomial = p /\ data.z = z /\ data.y = y /\ data.length = 191
    BY ONLY <1>4, <1>7
  <2>2. ~Fits(data)
    BY <2>1 DEF Fits
  <2> QED BY <2>1, <2>2 DEF Presented
<1>8. CASE data = [H EXCEPT !.versioned_hash[1] = 2]
  <2>1. data.polynomial = p /\ data.z = z /\ data.y = y
    BY ONLY <1>4, <1>8
  <2>2. data.versioned_hash = [<<1, c>> EXCEPT ![1] = 2] /\ data.commitment = c
    BY ONLY <1>4, <1>8
  <2>3. [<<1, c>> EXCEPT ![1] = 2] # <<1, c>>
    OBVIOUS
  <2>4. ~Fits(data)
    BY <2>2, <2>3 DEF Fits, kzg_commitment_to_versioned_hash
  <2> QED BY <2>1, <2>4 DEF Presented
<1>9. CASE data = [H EXCEPT !.proof = NotOnCurve]
  <2>1. data.polynomial = p /\ data.z = z /\ data.y = y /\ data.proof = NotOnCurve
    BY ONLY <1>4, <1>9
  <2> QED BY <2>1 DEF Presented
<1>10. CASE data = [H EXCEPT !.commitment = NotOnCurve,
                             !.versioned_hash = kzg_commitment_to_versioned_hash(NotOnCurve)]
  <2>1. data.polynomial = p /\ data.z = z /\ data.y = y /\ data.commitment = NotOnCurve
    BY ONLY <1>4, <1>10
  <2> QED BY <2>1 DEF Presented
<1>11. CASE \E d \in 0 .. BLS_MODULUS - 1 : data = [H EXCEPT !.commitment = d]
  <2>1. PICK d : data = [H EXCEPT !.commitment = d]
    BY <1>11
  <2>2. /\ data.polynomial = p /\ data.z = z /\ data.y = y /\ data.commitment = d
        /\ data.versioned_hash = <<1, c>>
    BY ONLY <1>4, <2>1
  <2>3. Fits(data) => d = c
    BY <2>2 DEF Fits, kzg_commitment_to_versioned_hash
  <2>4. d = c => data = H
    BY ONLY <1>4, <2>1
  <2> QED BY <1>1, <2>2, <2>3, <2>4 DEF Presented
<1> QED BY <1>1, <1>6, <1>7, <1>8, <1>9, <1>10, <1>11 DEF Altered

\* What is paid out for an input that fits.
Inputs(data) ==
    <<bytes_to_kzg_commitment(data.commitment), bytes_to_bls_field(data.z),
      bytes_to_bls_field(data.y), bytes_to_kzg_proof(data.proof)>>
Verified(data) ==
    IF AssertionError \in Range(Inputs(data)) THEN Refused
    ELSE IF verify_kzg_proof_impl(Inputs(data)[1], Inputs(data)[2], Inputs(data)[3], Inputs(data)[4])
      THEN Accepted
    ELSE Refused

\* The keys are all the points of the group, the one at infinity too.
LEMMA PointsAre ==
  ASSUME NEW b
  PROVE  /\ b = NotOnCurve => bytes_to_kzg_commitment(b) = AssertionError
         /\ b = NotOnCurve => bytes_to_kzg_proof(b) = AssertionError
         /\ b # NotOnCurve => bytes_to_kzg_commitment(b) = b
         /\ b # NotOnCurve => bytes_to_kzg_proof(b) = b
<1>1. NotOnCurve # 0
  BY KzgAssumption
<1> QED BY <1>1 DEF bytes_to_kzg_commitment, bytes_to_kzg_proof, validate_kzg_g1, KeyValidate,
                   G1_POINT_AT_INFINITY

\* The members of a list of four.
LEMMA RangeOfFour ==
  ASSUME NEW a, NEW b, NEW c, NEW d
  PROVE  Range(<<a, b, c, d>>) = {a, b, c, d}
<1>1. DOMAIN <<a, b, c, d>> = 1 .. 4
  OBVIOUS
<1>2. 1 .. 4 = {1, 2, 3, 4}
  OBVIOUS
<1> QED BY <1>1, <1>2 DEF Range

\* An input that fits is accepted only as it was made, for the value at z.
LEMMA VerifiedIs ==
  ASSUME NEW data, Presented(data), Fits(data)
  PROVE  Verified(data) = Accepted <=>
           /\ data = Honest(data.polynomial, data.z, data.y)
           /\ data.z < BLS_MODULUS
           /\ data.y = ValueAt(data.polynomial, data.z)
<1>1. PICK p \in Polynomials : p = data.polynomial
  BY DEF Presented
<1>2. PICK z \in Points : z = data.z
  BY DEF Presented
<1>3. PICK y \in Points : y = data.y
  BY DEF Presented
<1>4. PICK c : c = data.commitment
  OBVIOUS
<1>5. PICK q : q = data.proof
  OBVIOUS
<1>6. PICK i : i = bytes_to_kzg_commitment(c)
  OBVIOUS
<1>7. PICK j : j = bytes_to_bls_field(z)
  OBVIOUS
<1>8. PICK k : k = bytes_to_bls_field(y)
  OBVIOUS
<1>9. PICK l : l = bytes_to_kzg_proof(q)
  OBVIOUS
<1>10. Inputs(data) = <<i, j, k, l>>
  BY <1>2, <1>3, <1>4, <1>5, <1>6, <1>7, <1>8, <1>9 DEF Inputs
<1>11. Verified(data) = IF AssertionError \in {i, j, k, l} THEN Refused
                        ELSE IF verify_kzg_proof_impl(i, j, k, l) THEN Accepted ELSE Refused
  <2>1. /\ Inputs(data)[1] = i /\ Inputs(data)[2] = j
        /\ Inputs(data)[3] = k /\ Inputs(data)[4] = l
    BY ONLY <1>10
  <2>2. Range(Inputs(data)) = {i, j, k, l}
    BY <1>10, RangeOfFour
  <2> QED BY <2>1, <2>2 DEF Verified
<1>12. /\ c = NotOnCurve => i = AssertionError
       /\ c # NotOnCurve => i = c
       /\ q = NotOnCurve => l = AssertionError
       /\ q # NotOnCurve => l = q
  BY <1>6, <1>9, PointsAre
<1>13. /\ z \in Nat /\ y \in Nat /\ BLS_MODULUS \in Nat /\ AssertionError \notin Nat
       /\ NotOnCurve \notin Nat /\ Accepted # Refused
  BY KzgAssumption
<1>14. /\ z < BLS_MODULUS => j = z
       /\ ~(z < BLS_MODULUS) => j = AssertionError
       /\ y < BLS_MODULUS => k = y
       /\ ~(y < BLS_MODULUS) => k = AssertionError
  BY <1>7, <1>8 DEF bytes_to_bls_field
<1>15. /\ Honest(p, z, y).commitment = ValueAt(p, Secret)
       /\ Honest(p, z, y).proof = QuotientAt(p, z, Secret)
       /\ ValueAt(p, Secret) \in Nat /\ ValueAt(p, z) \in Nat /\ ValueAt(p, z) < BLS_MODULUS
       /\ QuotientAt(p, z, Secret) \in Nat
  BY HonestFits
<1>16. c = NotOnCurve \/ q = NotOnCurve \/ data = Honest(p, z, y)
  BY <1>1, <1>2, <1>3, <1>4, <1>5 DEF Presented
<1>17. CASE c = NotOnCurve \/ q = NotOnCurve
  <2>1. Verified(data) = Refused
    BY <1>11, <1>12, <1>17
  <2>2. data # Honest(p, z, y)
    BY <1>4, <1>5, <1>13, <1>15, <1>17
  <2> QED BY <1>1, <1>2, <1>3, <1>13, <2>1, <2>2
<1>18. CASE data = Honest(p, z, y)
  <2>1. i = ValueAt(p, Secret) /\ l = QuotientAt(p, z, Secret)
    BY <1>4, <1>5, <1>12, <1>13, <1>15, <1>18
  <2>2. i # AssertionError /\ l # AssertionError
    BY <1>13, <1>15, <2>1
  <2>3. CASE z < BLS_MODULUS /\ y < BLS_MODULUS
    <3>1. j = z /\ k = y /\ j # AssertionError /\ k # AssertionError
      BY <1>13, <1>14, <2>3
    <3>2. verify_kzg_proof_impl(i, j, k, l) <=> y = ValueAt(p, z)
      BY <2>1, <2>3, <3>1, PairingIs
    <3>3. AssertionError \notin {i, j, k, l}
      BY <2>2, <3>1
    <3> QED BY <1>1, <1>2, <1>3, <1>11, <1>13, <1>18, <2>3, <3>2, <3>3, Zenon
  <2>4. CASE ~(z < BLS_MODULUS /\ y < BLS_MODULUS)
    <3>1. Verified(data) = Refused
      BY <1>11, <1>14, <2>4
    <3>2. ~(z < BLS_MODULUS /\ y = ValueAt(p, z))
      BY <1>15, <2>4
    <3> QED BY <1>1, <1>2, <1>3, <1>13, <3>1, <3>2
  <2> QED BY <2>3, <2>4
<1> QED BY <1>16, <1>17, <1>18

\* The script of an input, once it is known to fit, has what is to be verified in its variables.
KzgKept ==
    task = "kzg" =>
        /\ Presented(argv)
        /\ answer = NoAnswer =>
             \/ locals = <<>>
             \/ Fits(argv) /\ locals = <<argv.commitment, argv.z, argv.y, argv.proof>>
KzgInv == KzgKept /\ OneValuePerProof

\* Before there is an answer, nothing is accepted.
LEMMA UnansweredIsValued ==
  answer = NoAnswer => OneValuePerProof
BY DEF OneValuePerProof, Answered

\* The same of the next state.
LEMMA UnansweredStaysValued ==
  answer' = NoAnswer => OneValuePerProof'
<1>1. (answer = NoAnswer => OneValuePerProof)'
  BY UnansweredIsValued, PTL
<1> QED BY <1>1

(***************************************************************************)
(* The script accepts an input (point_evaluation.py) only as the one who   *)
(* has the polynomial made it, with a point below the modulus and the      *)
(* value of the polynomial there, and then always: for polynomials of      *)
(* every degree, every secret of the setup and every modulus, prime or     *)
(* not.                                                                    *)
(***************************************************************************)
THEOREM OneValueIsProved == KzgSpec => []OneValuePerProof
<1>1. Idle => KzgInv
  BY UnansweredIsValued DEF Idle, KzgInv, KzgKept
<1>2. ASSUME KzgInv, [KzgNext \/ Respond]_computation PROVE KzgInv'
  <2>1. CASE StartKzg
    <3>1. PICK p \in Polynomials, z \in Points, y \in Points :
            \E data \in Altered(Honest(p, z, y)) : Start("kzg", data, <<>>)
      BY <2>1 DEF StartKzg
    <3>2. PICK data \in Altered(Honest(p, z, y)) : Start("kzg", data, <<>>)
      BY <3>1
    <3>3. task' = "kzg" /\ argv' = data /\ locals' = <<>> /\ answer' = NoAnswer
      BY <2>1, <3>2 DEF StartKzg, Idle, Start
    <3>4. Presented(argv')
      BY <3>3, AlteredIs
    <3> QED BY <3>3, <3>4, UnansweredStaysValued DEF KzgInv, KzgKept
  <2>2. CASE CheckHash
    <3>1. task = "kzg" /\ answer = NoAnswer /\ task' = "kzg" /\ argv' = argv
      BY <2>2 DEF CheckHash, Running, Answer, Continue
    <3>2. Presented(argv)
      BY <1>2, <3>1 DEF KzgInv, KzgKept
    <3>3. CASE Fits(argv)
      <4>1. /\ locals' = <<argv.commitment, argv.z, argv.y, argv.proof>>
            /\ answer' = NoAnswer
        BY <2>2, <3>1, <3>3 DEF CheckHash, Fits, Continue
      <4> QED BY <3>1, <3>2, <3>3, <4>1, UnansweredStaysValued DEF KzgInv, KzgKept
    <3>4. CASE ~Fits(argv)
      <4>1. answer' = Refused /\ locals' = <<>>
        BY <2>2, <3>4 DEF CheckHash, Fits, Answer
      <4>2. argv # Honest(argv.polynomial, argv.z, argv.y)
        BY <3>2, <3>4, HonestFits DEF Presented
      <4>3. OneValuePerProof'
        BY <3>1, <4>1, <4>2, KzgAssumption DEF OneValuePerProof
      <4> QED BY <3>1, <3>2, <4>1, <4>3 DEF KzgInv, KzgKept
    <3> QED BY <3>3, <3>4
  <2>3. CASE verify_kzg_proof
    <3>1. task = "kzg" /\ answer = NoAnswer /\ locals # <<>>
      BY <2>3 DEF verify_kzg_proof, Running
    <3>2. /\ Presented(argv) /\ Fits(argv)
          /\ locals = <<argv.commitment, argv.z, argv.y, argv.proof>>
      BY <1>2, <3>1 DEF KzgInv, KzgKept
    <3>3. answer' = Verified(argv) /\ task' = "kzg" /\ argv' = argv /\ locals' = locals
      <4>1. /\ locals[1] = argv.commitment /\ locals[2] = argv.z
            /\ locals[3] = argv.y /\ locals[4] = argv.proof
        BY <3>2
      <4> QED BY <2>3, <3>1, <4>1 DEF verify_kzg_proof, Answer, Verified, Inputs
    <3>4. OneValuePerProof'
      BY <3>2, <3>3, VerifiedIs DEF OneValuePerProof
    <3>5. KzgKept'
      BY <3>2, <3>3 DEF KzgKept
    <3> QED BY <3>4, <3>5 DEF KzgInv
  <2>4. CASE Respond
    <3>1. answer' = NoAnswer /\ task' = "none"
      BY <2>4 DEF Respond
    <3> QED BY <3>1, UnansweredStaysValued DEF KzgInv, KzgKept
  <2>5. CASE UNCHANGED computation
    BY <1>2, <2>5 DEF computation, KzgInv, KzgKept, OneValuePerProof, Answered
  <2> QED BY <1>2, <2>1, <2>2, <2>3, <2>4, <2>5 DEF KzgNext
<1> QED BY <1>1, <1>2, PTL DEF KzgSpec, KzgInv

-----------------------------------------------------------------------------
(***************************************************************************)
(* The precompiled contract EXPMOD.                                        *)
(***************************************************************************)

\* A digit more multiplies what stands before it.
LEMMA ValueOfAppend ==
  ASSUME NEW base \in Nat, NEW s \in Seq(Nat), NEW d \in Nat
  PROVE  ValueOf(base, Append(s, d)) = base * ValueOf(base, s) + d /\ ValueOf(base, s) \in Nat
<1>1. PICK N \in Nat : N = Len(s)
  OBVIOUS
<1>2. PICK t \in Seq(Nat) : t = Append(s, d)
  <2>1. Append(s, d) \in Seq(Nat)
    OBVIOUS
  <2> QED BY <2>1
<1>3. Len(t) = N + 1 /\ t[N + 1] = d /\ \A k \in 1 .. N : t[k] = s[k]
  BY <1>1, <1>2
<1> DEFINE B(n) == PrefixValues(base, s)[n]
           C(n) == PrefixValues(base, t)[n]
           S == {n \in Nat : n <= N => C(n) = B(n)}
<1>4. /\ B(0) = 0 /\ \A n \in 0 .. N : B(n) \in Nat
      /\ \A n \in 0 .. N - 1 : B(n + 1) = base * B(n) + s[n + 1]
  BY <1>1, PrefixSteps
<1>5. /\ C(0) = 0 /\ \A n \in 0 .. (N + 1) - 1 : C(n + 1) = base * C(n) + t[n + 1]
  BY <1>3, PrefixSteps
<1>6. ValueOf(base, s) = B(N) /\ ValueOf(base, t) = C(N + 1)
  BY <1>1, <1>3 DEF ValueOf
<1> HIDE DEF B, C
<1>7. 0 \in S
  BY <1>4, <1>5
<1>8. \A n \in Nat : n \in S => n + 1 \in S
  <2> SUFFICES ASSUME NEW n \in Nat, n + 1 <= N, C(n) = B(n) PROVE C(n + 1) = B(n + 1)
    OBVIOUS
  <2>1. n \in 0 .. N - 1 /\ n \in 0 .. (N + 1) - 1 /\ n + 1 \in 1 .. N
    OBVIOUS
  <2> QED BY <1>3, <1>4, <1>5, <2>1
<1> HIDE DEF S
<1>9. N \in S
  BY <1>7, <1>8, Induction
<1>10. C(N) = B(N)
  <2>1. N <= N => C(N) = B(N)
    BY ONLY <1>9 DEF S
  <2> QED BY <2>1
<1>11. C(N + 1) = base * C(N) + d /\ B(N) \in Nat
  <2>1. N \in 0 .. (N + 1) - 1 /\ N \in 0 .. N
    OBVIOUS
  <2> QED BY <1>3, <1>4, <1>5, <2>1
<1> QED BY ONLY <1>2, <1>6, <1>10, <1>11

\* Zeroes before a number do not change it.
LEMMA LeadingZeroes ==
  ASSUME NEW base \in Nat, NEW k \in Nat, NEW s \in Seq(Nat)
  PROVE  /\ Len(zeroes(k) \o s) = k + Len(s)
         /\ ValueOf(base, zeroes(k) \o s) = ValueOf(base, s)
<1>1. PICK N \in Nat : N = Len(s)
  OBVIOUS
<1>2. PICK z \in Seq(Nat) : z = zeroes(k) /\ Len(z) = k /\ \A n \in 1 .. k : z[n] = 0
  <2>1. zeroes(k) \in [1 .. k -> Nat]
    BY DEF zeroes
  <2>2. \A n \in 1 .. k : zeroes(k)[n] = 0
    BY DEF zeroes
  <2>3. zeroes(k) \in Seq(Nat) /\ Len(zeroes(k)) = k
    BY <2>1
  <2> QED BY <2>2, <2>3
<1>3. PICK t \in Seq(Nat) : t = z \o s
  <2>1. z \o s \in Seq(Nat)
    OBVIOUS
  <2> QED BY <2>1
<1>4. /\ Len(t) = k + N /\ \A n \in 1 .. k : t[n] = 0
      /\ \A n \in 1 .. N : t[k + n] = s[n]
  <2>1. Len(t) = k + N
    BY <1>1, <1>2, <1>3
  <2>2. \A n \in 1 .. k : t[n] = z[n]
    BY <1>1, <1>2, <1>3
  <2>3. ASSUME NEW n \in 1 .. N PROVE t[k + n] = s[n]
    <3>1. n \in 1 .. Len(s)
      BY <1>1
    <3>2. (z \o s)[Len(z) + n] = s[n]
      BY ONLY <3>1, z \in Seq(Nat), s \in Seq(Nat), SMTT(30)
    <3> QED BY <1>2, <1>3, <3>2
  <2> QED BY <1>2, <2>1, <2>2, <2>3
<1> DEFINE B(n) == PrefixValues(base, s)[n]
           C(n) == PrefixValues(base, t)[n]
           Z == {n \in Nat : n <= k => C(n) = 0}
           S == {n \in Nat : n <= N => C(k + n) = B(n)}
<1>5. /\ B(0) = 0 /\ \A n \in 0 .. N : B(n) \in Nat
      /\ \A n \in 0 .. N - 1 : B(n + 1) = base * B(n) + s[n + 1]
  BY <1>1, PrefixSteps
<1>6. /\ C(0) = 0 /\ \A n \in 0 .. (k + N) - 1 : C(n + 1) = base * C(n) + t[n + 1]
  BY <1>4, PrefixSteps
<1>7. ValueOf(base, s) = B(N) /\ ValueOf(base, t) = C(k + N)
  BY <1>1, <1>4 DEF ValueOf
<1> HIDE DEF B, C
<1>8. 0 \in Z
  BY <1>6
<1>9. \A n \in Nat : n \in Z => n + 1 \in Z
  <2> SUFFICES ASSUME NEW n \in Nat, n + 1 <= k, C(n) = 0 PROVE C(n + 1) = 0
    OBVIOUS
  <2>1. n \in 0 .. (k + N) - 1 /\ n + 1 \in 1 .. k
    OBVIOUS
  <2>2. C(n + 1) = base * 0 + 0
    BY <1>4, <1>6, <2>1
  <2> QED BY <2>2
<1>10. C(k) = 0
  <2> HIDE DEF Z
  <2>1. k \in Z
    BY <1>8, <1>9, Induction
  <2>2. k <= k => C(k) = 0
    BY ONLY <2>1 DEF Z
  <2> QED BY <2>2
<1>11. 0 \in S
  <2>1. k + 0 = k
    OBVIOUS
  <2> QED BY <1>5, <1>10, <2>1
<1>12. \A n \in Nat : n \in S => n + 1 \in S
  <2> SUFFICES ASSUME NEW n \in Nat, n + 1 <= N, C(k + n) = B(n) PROVE C(k + (n + 1)) = B(n + 1)
    OBVIOUS
  <2>1. n \in 0 .. N - 1 /\ k + n \in 0 .. (k + N) - 1 /\ n + 1 \in 1 .. N
        /\ (k + n) + 1 = k + (n + 1)
    OBVIOUS
  <2>2. C(k + (n + 1)) = base * C(k + n) + t[k + (n + 1)]
    BY <1>6, <2>1
  <2>3. t[k + (n + 1)] = s[n + 1]
    BY <1>4, <2>1
  <2> QED BY <1>5, <2>1, <2>2, <2>3
<1>13. C(k + N) = B(N)
  <2> HIDE DEF S
  <2>1. N \in S
    BY <1>11, <1>12, Induction
  <2>2. N <= N => C(k + N) = B(N)
    BY ONLY <2>1 DEF S
  <2> QED BY <2>2
<1> QED BY ONLY <1>1, <1>2, <1>3, <1>4, <1>7, <1>13

-----------------------------------------------------------------------------
Upper(n) == n \div 256
Lowest(n) == n % 256

\* Quotient and remainder by the size of a byte.
LEMMA ByteQuotient ==
  \A n \in Nat : /\ n # 0 => Upper(n) \in Nat /\ Upper(n) < n
                 /\ Lowest(n) \in 0 .. 255 /\ Lowest(n) \in Nat
                 /\ n = 256 * Upper(n) + Lowest(n)
BY DEF Upper, Lowest

\* The bytes of a number, from the bytes of its quotient.
LEMMA BytesFrom ==
  /\ BE(0) = <<>>
  /\ \A n \in Nat : BE(n) \in Seq(0 .. 255)
  /\ \A n \in Nat : n # 0 => BE(n) = Append(BE(Upper(n)), Lowest(n))
<1> DEFINE Is(f) == f = [m \in Nat |-> IF m = 0 THEN <<>> ELSE Append(f[m \div 256], m % 256)]
           Makes(f) == f = [m \in Nat |-> IF m = 0 THEN <<>> ELSE Append(f[Upper(m)], Lowest(m))]
           F == CHOOSE f : Is(f)
           lower == [n \in Nat |-> Upper(n)]
           Octets == 0 .. 255
           append == [n \in Nat |-> [s \in Seq(Octets) |-> Append(s, Lowest(n))]]
<1>a. \A n \in Nat : Lowest(n) \in Octets
  BY ByteQuotient
<1>b. \A f : Makes(f) <=> Is(f)
  BY DEF Upper, Lowest
<1>c. \A n : BE(n) = F[n]
  BY DEF BE
<1>d. Is(F) => \A n \in Nat : F[n] = IF n = 0 THEN <<>> ELSE Append(F[Upper(n)], Lowest(n))
  <2> HIDE DEF F
  <2> QED BY DEF Upper, Lowest
<1>e. <<>> \in Seq(Octets)
  <2> HIDE DEF Octets
  <2> QED OBVIOUS
<1>f. F = CHOOSE f : Is(f)
  OBVIOUS
<1> HIDE DEF Octets, Is, F
<1>1. \A n \in Nat \ {0} : lower[n] \in Nat /\ lower[n] < n
  BY ByteQuotient
<1>2. append \in [Nat -> [Seq(Octets) -> Seq(Octets)]]
  BY <1>a
<1>3. PICK g \in [Nat -> Seq(Octets)] : FromLower(g, lower, <<>>, append)
  <2> HIDE DEF append, lower
  <2> QED BY <1>1, <1>2, <1>e, DescentRecursion
<1>4. \A n \in Nat : g[n] = IF n = 0 THEN <<>> ELSE Append(g[Upper(n)], Lowest(n))
  <2> SUFFICES ASSUME NEW n \in Nat
               PROVE  g[n] = IF n = 0 THEN <<>> ELSE Append(g[Upper(n)], Lowest(n))
    OBVIOUS
  <2>1. lower[n] = Upper(n)
    OBVIOUS
  <2>2. \A s \in Seq(Octets) : append[n][s] = Append(s, Lowest(n))
    OBVIOUS
  <2> HIDE DEF append, lower
  <2>3. g[n] = IF n = 0 THEN <<>> ELSE append[n][g[lower[n]]]
    BY <1>3 DEF FromLower
  <2>4. n # 0 => lower[n] \in Nat
    BY <1>1
  <2>5. n # 0 => g[lower[n]] \in Seq(Octets)
    BY <2>4
  <2> QED BY <2>1, <2>2, <2>3, <2>5
<1>5. Makes(g)
  <2>1. g = [n \in Nat |-> g[n]]
    OBVIOUS
  <2> QED BY <1>4, <2>1, Zenon
<1>6. Is(F)
  <2> HIDE DEF Makes
  <2>1. Is(g)
    BY <1>5, <1>b
  <2> QED BY <1>f, <2>1
<1>7. \A n \in Nat : F[n] = IF n = 0 THEN <<>> ELSE Append(F[Upper(n)], Lowest(n))
  BY <1>6, <1>d
<1>8. \A n \in Nat : F[n] \in Seq(Octets)
  <2> DEFINE S == {n \in Nat : F[n] \in Seq(Octets)}
  <2>1. 0 \in S
    BY <1>7, <1>e
  <2>2. \A n \in Nat \ {0} : lower[n] \in S => n \in S
    <3> SUFFICES ASSUME NEW n \in Nat \ {0}, F[Upper(n)] \in Seq(Octets)
                 PROVE  F[n] \in Seq(Octets)
      OBVIOUS
    <3>1. F[n] = Append(F[Upper(n)], Lowest(n))
      BY <1>7
    <3> QED BY <1>a, <3>1
  <2> HIDE DEF S, lower
  <2>3. \A n \in Nat : n \in S
    BY <1>1, <2>1, <2>2, DescentInduction
  <2> QED BY <2>3 DEF S
<1>9. BE(0) = <<>>
  BY <1>7, <1>c
<1>10. \A n \in Nat : BE(n) \in Seq(0 .. 255)
  BY <1>8, <1>c DEF Octets
<1>11. \A n \in Nat : n # 0 => BE(n) = Append(BE(Upper(n)), Lowest(n))
  BY <1>7, <1>c
<1> QED BY <1>9, <1>10, <1>11

\* Bytes are natural numbers.
LEMMA BytesNatural == Seq(0 .. 255) \subseteq Seq(Nat)
<1> DEFINE Octets == 0 .. 255
<1>1. \A d \in Octets : d \in Nat
  OBVIOUS
<1> HIDE DEF Octets
<1>2. Seq(Octets) \subseteq Seq(Nat)
  BY <1>1
<1> QED BY <1>2 DEF Octets

\* The bytes of a number write it.
LEMMA BytesWrite ==
  \A n \in Nat : ValueOf(256, BE(n)) = n
<1> DEFINE S == {n \in Nat : ValueOf(256, BE(n)) = n}
           lower == [n \in Nat |-> Upper(n)]
<1>1. \A n \in Nat \ {0} : lower[n] \in Nat /\ lower[n] < n
  BY ByteQuotient
<1>2. 0 \in S
  <2>1. PICK e \in Seq(Nat) : e = <<>>
    <3>1. <<>> \in Seq(Nat)
      OBVIOUS
    <3> QED BY <3>1
  <2>2. PICK base \in Nat : base = 256
    OBVIOUS
  <2>3. PrefixValues(base, e)[0] = 0
    BY PrefixSteps
  <2>4. Len(e) = 0
    BY <2>1
  <2>5. ValueOf(256, <<>>) = 0
    BY ONLY <2>1, <2>2, <2>3, <2>4 DEF ValueOf
  <2> QED BY <2>5, BytesFrom
<1>3. \A n \in Nat \ {0} : lower[n] \in S => n \in S
  <2> SUFFICES ASSUME NEW n \in Nat \ {0}, ValueOf(256, BE(Upper(n))) = Upper(n)
               PROVE  ValueOf(256, BE(n)) = n
    OBVIOUS
  <2>1. PICK q \in Nat : q = Upper(n)
    BY ByteQuotient
  <2>2. PICK r \in Nat : r = Lowest(n) /\ n = 256 * q + r
    BY <2>1, ByteQuotient
  <2>3. BE(n) = Append(BE(q), r)
    BY <2>1, <2>2, BytesFrom
  <2>4. BE(q) \in Seq(Nat)
    BY BytesFrom, BytesNatural
  <2>5. ValueOf(256, Append(BE(q), r)) = 256 * ValueOf(256, BE(q)) + r
    BY <2>4, ValueOfAppend
  <2>6. ValueOf(256, BE(q)) = q
    BY <2>1
  <2>7. ValueOf(256, BE(n)) = 256 * ValueOf(256, BE(q)) + r
    BY ONLY <2>3, <2>5
  <2> QED BY ONLY <2>2, <2>6, <2>7
<1> HIDE DEF S, lower
<1>4. \A n \in Nat : n \in S
  BY <1>1, <1>2, <1>3, DescentInduction
<1> QED BY <1>4 DEF S

\* And are no more than it needs.
LEMMA BytesFew ==
  \A w \in Nat : \A n \in Nat : n < ToThe(256, w) => Len(BE(n)) <= w
<1> DEFINE S == {w \in Nat : \A n \in Nat : n < ToThe(256, w) => Len(BE(n)) <= w}
<1>1. 0 \in S
  <2>1. ToThe(256, 0) = 1
    BY PowerStep
  <2>2. Len(BE(0)) = 0
    BY BytesFrom
  <2> SUFFICES ASSUME NEW n \in Nat, n < 1 PROVE Len(BE(n)) <= 0
    BY <2>1
  <2>3. n = 0
    OBVIOUS
  <2> QED BY <2>2, <2>3
<1>2. \A w \in Nat : w \in S => w + 1 \in S
  <2> SUFFICES ASSUME NEW w \in Nat, \A n \in Nat : n < ToThe(256, w) => Len(BE(n)) <= w,
                      NEW n \in Nat, n < ToThe(256, w + 1)
               PROVE  Len(BE(n)) <= w + 1
    OBVIOUS
  <2>1. CASE n = 0
    BY <2>1, BytesFrom
  <2>2. CASE n # 0
    <3>1. PICK q \in Nat : q = Upper(n)
      BY <2>2, ByteQuotient
    <3>2. PICK r \in Nat : r = Lowest(n) /\ n = 256 * q + r
      BY <2>2, <3>1, ByteQuotient
    <3>3. PICK t \in Nat : t = ToThe(256, w)
      BY PowerPositive
    <3>4. ToThe(256, w + 1) = 256 * t
      BY <3>3, PowerStep
    <3>5. q < t
      BY <3>2, <3>4
    <3>6. Len(BE(q)) <= w
      BY <3>3, <3>5
    <3>7. BE(n) = Append(BE(q), r)
      BY <2>2, <3>1, <3>2, BytesFrom
    <3>8. BE(q) \in Seq(Nat)
      BY BytesFrom, BytesNatural
    <3>9. Len(Append(BE(q), r)) = Len(BE(q)) + 1 /\ Len(BE(q)) \in Nat
      BY <3>8
    <3> QED BY ONLY <3>6, <3>7, <3>9, w \in Nat
  <2> QED BY <2>1, <2>2
<1> HIDE DEF S
<1>3. \A w \in Nat : w \in S
  BY <1>1, <1>2, Induction
<1> QED BY <1>3 DEF S

\* What there is of the bytes from a place on.
LEMMA SliceIs ==
  ASSUME NEW B \in Seq(0 .. 255), NEW start \in Nat, NEW width \in Nat
  PROVE  Slice(B, start, width) \in Seq(0 .. 255) /\ Len(Slice(B, start, width)) <= width
<1> DEFINE Octets == 0 .. 255
<1> HIDE DEF Octets
<1>1. B \in Seq(Octets)
  BY DEF Octets
<1>2. PICK n \in Nat : n = IF start + width < Len(B) THEN start + width ELSE Len(B)
  BY <1>1
<1>3. PICK m \in Nat : m = start + 1
  OBVIOUS
<1>4. n <= Len(B) /\ n <= start + width /\ Len(B) \in Nat
  BY <1>1, <1>2
<1>5. Slice(B, start, width) = SubSeq(B, m, n)
  BY <1>2, <1>3 DEF Slice
<1>6. \A i \in m .. n : B[i] \in Octets
  <2>1. \A i \in 1 .. Len(B) : B[i] \in Octets
    BY <1>1
  <2> QED BY <1>3, <1>4, <2>1
<1>7. m \in Int /\ n \in Int
  OBVIOUS
<1>8. /\ SubSeq(B, m, n) \in Seq(Octets)
      /\ Len(SubSeq(B, m, n)) = IF m <= n THEN (n - m) + 1 ELSE 0
  BY <1>6, <1>7
<1>9. Len(SubSeq(B, m, n)) <= width
  BY <1>3, <1>4, <1>8
<1> QED BY <1>5, <1>8, <1>9 DEF Octets

\* A number of so many bytes is less than what they can hold.
LEMMA NatOfSliceIs ==
  ASSUME NEW B \in Seq(0 .. 255), NEW start \in Nat, NEW width \in Nat
  PROVE  /\ nat_of_slice(B, start, width) \in Nat
         /\ nat_of_slice(B, start, width) < ToThe(256, width)
<1>1. PICK s \in Seq(0 .. 255) : s = Slice(B, start, width) /\ Len(s) <= width
  BY SliceIs
<1>2. PICK l \in Nat : l = Len(s) /\ l <= width
  BY <1>1
<1>3. 256 \in Nat \ {0} /\ l \in 0 .. width
  BY <1>2
<1>4. ValueOf(256, s) \in Nat /\ ValueOf(256, s) < ToThe(256, l)
  <2>1. PICK base \in Nat \ {0} : base = 256
    OBVIOUS
  <2>2. base - 1 = 255
    BY <2>1
  <2>3. s \in Seq(0 .. base - 1)
    BY <1>1, <2>2, Zenon
  <2>4. ValueOf(base, s) \in Nat /\ ValueOf(base, s) < ToThe(base, Len(s))
    BY ONLY <2>3, base \in Nat \ {0}, ValueBound
  <2> QED BY ONLY <1>2, <2>1, <2>4
<1>5. width - l \in Nat /\ ToThe(256, width) = ToThe(256, l) * ToThe(256, width - l)
  BY <1>3, PowerSplits
<1>6. PICK v \in Nat : v = ValueOf(256, s)
  BY <1>4
<1>7. PICK t \in Nat : t = ToThe(256, l)
  BY <1>3, PowerPositive
<1>8. PICK u \in Nat \ {0} : u = ToThe(256, width - l)
  BY <1>3, <1>5, PowerPositive
<1>9. nat_of_slice(B, start, width) = v * u
  BY <1>1, <1>2, <1>6, <1>8 DEF nat_of_slice, fromByteArrayBigEndian
<1>10. v < t
  BY <1>4, <1>6, <1>7
<1>11. \A i, j \in Nat, k \in Nat \ {0} : i < j => i * k \in Nat /\ i * k < j * k
  <2>1. \A i, j \in Nat, k \in Nat \ {0} : i < j => (i + 1) * k <= j * k
    OBVIOUS
  <2>2. \A i \in Nat, k \in Nat \ {0} : (i + 1) * k = i * k + k /\ i * k \in Nat
    OBVIOUS
  <2>3. \A j \in Nat, k \in Nat \ {0} : j * k \in Nat
    OBVIOUS
  <2> QED BY <2>1, <2>2, <2>3
<1> QED BY <1>5, <1>7, <1>8, <1>9, <1>10, <1>11, SMTT(30)

\* The lengths and numbers of any data; each number is less than its bytes can hold.
LEMMA NumbersAre ==
  ASSUME NEW data \in ExpModData
  PROVE  /\ Lengths(data).base \in Nat /\ Lengths(data).exp \in Nat /\ Lengths(data).modulus \in Nat
         /\ Numbers(data).base \in Nat /\ Numbers(data).exp \in Nat
         /\ Numbers(data).modulus \in Nat
         /\ Numbers(data).base < ToThe(256, Lengths(data).base)
         /\ Numbers(data).modulus < ToThe(256, Lengths(data).modulus)
<1>1. PICK w \in Nat : w = EvmWordBytes
  BY ExpModAssumption
<1>2. data \in Seq(0 .. 255)
  BY ExpModAssumption
<1>3. PICK b : b = nat_of_slice(data, 0, w)
  OBVIOUS
<1>4. PICK e : e = nat_of_slice(data, w, w)
  OBVIOUS
<1>5. PICK m : m = nat_of_slice(data, 2 * w, w)
  OBVIOUS
<1>6. 2 * w \in Nat /\ 3 * w \in Nat
  OBVIOUS
<1>7. b \in Nat /\ e \in Nat /\ m \in Nat
  BY <1>2, <1>3, <1>4, <1>5, <1>6, NatOfSliceIs
<1>8. Lengths(data).base = b /\ Lengths(data).exp = e /\ Lengths(data).modulus = m
  BY ONLY <1>1, <1>3, <1>4, <1>5 DEF Lengths
<1>9. 3 * w + b \in Nat /\ (3 * w + b) + e \in Nat
  BY <1>7
<1>10. /\ Numbers(data).base = nat_of_slice(data, 3 * w, b)
       /\ Numbers(data).exp = nat_of_slice(data, 3 * w + b, e)
       /\ Numbers(data).modulus = nat_of_slice(data, (3 * w + b) + e, m)
  BY ONLY <1>1, <1>8 DEF Numbers
<1>11. /\ nat_of_slice(data, 3 * w, b) \in Nat /\ nat_of_slice(data, 3 * w, b) < ToThe(256, b)
  BY <1>2, <1>6, <1>7, NatOfSliceIs
<1>12. nat_of_slice(data, 3 * w + b, e) \in Nat
  BY <1>2, <1>7, <1>9, NatOfSliceIs
<1>13. /\ nat_of_slice(data, (3 * w + b) + e, m) \in Nat
       /\ nat_of_slice(data, (3 * w + b) + e, m) < ToThe(256, m)
  BY <1>2, <1>7, <1>9, NatOfSliceIs
<1> QED BY ONLY <1>7, <1>8, <1>10, <1>11, <1>12, <1>13

-----------------------------------------------------------------------------
\* The power that is wanted is the remainder of the power.
LEMMA PowerModIs ==
  ASSUME NEW b \in Nat, NEW m \in Nat \ {0}
  PROVE  \A n \in Nat : PowerMod(b, n, m) = ToThe(b, n) % m
<1> DEFINE Is(p) == p = [k \in Nat |-> IF k = 0 THEN 1 % m ELSE (p[k - 1] * (b % m)) % m]
           P == CHOOSE p : Is(p)
           times == [n \in Nat |-> [v \in Nat |-> (v * (b % m)) % m]]
<1>0. \A v \in Nat : (v * (b % m)) % m \in Nat
  <2> SUFFICES ASSUME NEW v \in Nat PROVE (v * (b % m)) % m \in Nat
    OBVIOUS
  <2>1. PICK c \in Nat : c = b % m
    BY Remainders
  <2>2. PICK d \in Int : d = v * c
    OBVIOUS
  <2>3. d % m \in Nat
    BY Remainders
  <2> QED BY <2>1, <2>2, <2>3
<1>1. times \in [Nat -> [Nat -> Nat]] /\ 1 % m \in Nat
  <2>1. 1 % m \in Nat
    BY Remainders
  <2> QED BY <1>0, <2>1
<1>2. PICK g \in [Nat -> Nat] : FromBefore(g, 1 % m, times)
  <2> HIDE DEF times
  <2> QED BY <1>1, NatRecursion
<1>3. \A n \in Nat : g[n] = IF n = 0 THEN 1 % m ELSE (g[n - 1] * (b % m)) % m
  <2> SUFFICES ASSUME NEW n \in Nat
               PROVE  g[n] = IF n = 0 THEN 1 % m ELSE (g[n - 1] * (b % m)) % m
    OBVIOUS
  <2>1. g[n] = IF n = 0 THEN 1 % m ELSE times[n][g[n - 1]]
    BY <1>2 DEF FromBefore
  <2>2. n # 0 => n - 1 \in Nat
    OBVIOUS
  <2>3. n # 0 => g[n - 1] \in Nat
    BY <2>2
  <2>4. \A v \in Nat : times[n][v] = (v * (b % m)) % m
    OBVIOUS
  <2> HIDE DEF times
  <2> QED BY <2>1, <2>3, <2>4
<1>4. Is(g)
  <2>1. g = [n \in Nat |-> g[n]]
    OBVIOUS
  <2> QED BY <1>3, <2>1, Zenon
<1>5. Is(P)
  <2> HIDE DEF Is
  <2> QED BY <1>4
<1>6. \A n : PowerMod(b, n, m) = P[n]
  BY DEF PowerMod
<1>7. \A n \in Nat : P[n] = IF n = 0 THEN 1 % m ELSE (P[n - 1] * (b % m)) % m
  <2> HIDE DEF P
  <2> QED BY <1>5
<1> HIDE DEF P, Is
<1> DEFINE S == {n \in Nat : P[n] = ToThe(b, n) % m}
<1>8. 0 \in S
  <2>1. ToThe(b, 0) = 1
    BY PowerStep
  <2> QED BY <1>7, <2>1
<1>9. \A n \in Nat : n \in S => n + 1 \in S
  <2> SUFFICES ASSUME NEW n \in Nat, P[n] = ToThe(b, n) % m
               PROVE  P[n + 1] = ToThe(b, n + 1) % m
    OBVIOUS
  <2>1. PICK t \in Int : t = ToThe(b, n)
    BY PowerStep
  <2>2. ToThe(b, n + 1) = b * t
    BY <2>1, PowerStep
  <2>3. PICK c \in Nat : c = b % m /\ Same(m, c, b)
    BY SameNumbers
  <2>4. PICK r \in Nat : r = t % m /\ Same(m, r, t)
    BY SameNumbers
  <2>5. n + 1 \in Nat /\ n + 1 # 0 /\ (n + 1) - 1 = n
    OBVIOUS
  <2>6. P[n + 1] = (r * c) % m
    BY <1>7, <2>1, <2>3, <2>4, <2>5
  <2>7. c \in Int /\ r \in Int /\ b \in Int
    OBVIOUS
  <2>8. Same(m, r * c, t * c) /\ Same(m, t * c, t * b)
    BY <2>3, <2>4, <2>7, SameRules, Zenon
  <2>9. r * c \in Int /\ t * c \in Int /\ t * b \in Int
    OBVIOUS
  <2>10. Same(m, r * c, t * b)
    BY <2>8, <2>9, SameRules, Zenon
  <2>11. (r * c) % m = (t * b) % m
    BY ONLY <2>10 DEF Same
  <2>12. t * b = b * t
    OBVIOUS
  <2> QED BY ONLY <2>2, <2>6, <2>11, <2>12
<1> HIDE DEF S
<1>10. \A n \in Nat : n \in S
  BY <1>8, <1>9, Induction
<1> QED BY <1>6, <1>10 DEF S

\* What is left of the power: a times the n-th power of c is the power that is wanted.
ModExpKept ==
    task = "expmod" =>
        /\ argv \in ExpModData
        /\ answer = NoAnswer /\ locals # <<>> =>
             /\ Numbers(argv).modulus # 0
             /\ locals.a \in Nat /\ locals.c \in Nat /\ locals.n \in Nat
             /\ Lengths(argv).base <= EvmWordBytes =>
                  Same(Numbers(argv).modulus, locals.a * ToThe(locals.c, locals.n),
                       ToThe(Numbers(argv).base, Numbers(argv).exp))
ModExpInv == ModExpKept /\ PowerOfBase

\* A round of squaring leaves the power as it is.
LEMMA NextPowerIs ==
  ASSUME NEW m \in Nat \ {0}, NEW a \in Nat, NEW c \in Nat, NEW n \in Nat,
         NEW l, l.a = a, l.c = c, l.n = n
  PROVE  /\ nextPower(m, l).a \in Nat /\ nextPower(m, l).c \in Nat /\ nextPower(m, l).n \in Nat
         /\ Same(m, nextPower(m, l).a * ToThe(nextPower(m, l).c, nextPower(m, l).n),
                 a * ToThe(c, n))
<1>1. PICK d \in Nat : d = (c * c) % m /\ Same(m, d, c * c)
  <2>1. c * c \in Int
    OBVIOUS
  <2> QED BY <2>1, SameNumbers
<1>2. PICK h \in Nat : h = n \div 2
  OBVIOUS
<1>3. PICK p \in Int : p = ToThe(c * c, h)
  <2>1. c * c \in Int
    OBVIOUS
  <2> QED BY <2>1, PowerStep
<1>4. PICK q \in Int : q = ToThe(d, h)
  BY PowerStep
<1>5. Same(m, q, p)
  <2>1. d % m = (c * c) % m /\ d \in Int /\ c * c \in Int
    BY <1>1 DEF Same
  <2>2. ToThe(d, h) % m = ToThe(c * c, h) % m
    <3>1. \A k \in Nat : ToThe(d, k) % m = ToThe(c * c, k) % m
      BY <2>1, PowersCongruent
    <3> QED BY <3>1
  <2>3. Same(m, ToThe(d, h), ToThe(c * c, h))
    BY ONLY <2>2 DEF Same
  <2> QED BY ONLY <1>3, <1>4, <2>3
<1>6. nextPower(m, l).c = d /\ nextPower(m, l).n = h
  BY <1>1, <1>2 DEF nextPower
<1>7. /\ n % 2 = 1 => ToThe(c, n) = c * p
      /\ n % 2 # 1 => ToThe(c, n) = p
  <2>1. c \in Int
    OBVIOUS
  <2>2. /\ n % 2 = 1 => ToThe(c, n) = c * ToThe(c * c, n \div 2)
        /\ n % 2 # 1 => ToThe(c, n) = ToThe(c * c, n \div 2)
    BY <2>1, SquarePower, Zenon
  <2> QED BY ONLY <1>2, <1>3, <2>2
<1>8. PICK e \in Nat : /\ nextPower(m, l).a = e
                       /\ \E f \in Int : Same(m, e, f) /\ f * p = a * ToThe(c, n)
  <2>1. CASE n % 2 = 1
    <3>1. PICK f \in Int : f = a * c
      OBVIOUS
    <3>2. PICK e \in Nat : e = f % m /\ Same(m, e, f)
      BY SameNumbers
    <3>3. f * p = a * (c * p)
      BY <3>1
    <3>4. nextPower(m, l).a = e
      BY <2>1, <3>1, <3>2 DEF nextPower
    <3> QED BY <1>7, <2>1, <3>2, <3>3, <3>4
  <2>2. CASE n % 2 # 1
    <3>1. PICK f \in Int : f = a
      OBVIOUS
    <3>2. PICK e \in Nat : e = f % m /\ Same(m, e, f)
      BY SameNumbers
    <3>3. nextPower(m, l).a = e
      BY <2>2, <3>1, <3>2 DEF nextPower
    <3> QED BY <1>7, <2>2, <3>1, <3>2, <3>3
  <2> QED BY <2>1, <2>2
<1>9. PICK f \in Int : Same(m, e, f) /\ f * p = a * ToThe(c, n)
  BY <1>8
<1>10. Same(m, e * q, f * p)
  <2>1. e \in Int /\ Same(m, e, f)
    BY <1>9
  <2>2. Same(m, e * q, f * q) /\ Same(m, f * q, f * p)
    BY <1>5, <2>1, SameRules, Zenon
  <2>3. e * q \in Int /\ f * q \in Int /\ f * p \in Int
    OBVIOUS
  <2> QED BY <2>2, <2>3, SameRules, Zenon
<1> QED BY ONLY <1>1, <1>2, <1>4, <1>6, <1>8, <1>9, <1>10

\* While the loop runs, what is kept implies PowerOfBase.
LEMMA UnansweredPower ==
  ModExpKept /\ answer = NoAnswer => PowerOfBase
<1> SUFFICES ASSUME ModExpKept, answer = NoAnswer,
                    Running("expmod"), locals # <<>>, Lengths(argv).base <= EvmWordBytes
             PROVE  (locals.a * PowerMod(locals.c, locals.n, Numbers(argv).modulus))
                        % Numbers(argv).modulus
                      = PowerMod(Numbers(argv).base, Numbers(argv).exp, Numbers(argv).modulus)
  BY DEF PowerOfBase, Answered
<1>1. task = "expmod" /\ argv \in ExpModData
  BY DEF Running, ModExpKept
<1>2. PICK m \in Nat \ {0} : m = Numbers(argv).modulus
  BY <1>1, NumbersAre DEF ModExpKept
<1>3. PICK b \in Nat : b = Numbers(argv).base
  BY <1>1, NumbersAre
<1>4. PICK e \in Nat : e = Numbers(argv).exp
  BY <1>1, NumbersAre
<1>5. PICK a \in Nat : a = locals.a
  BY <1>1 DEF ModExpKept
<1>6. PICK c \in Nat : c = locals.c
  BY <1>1 DEF ModExpKept
<1>7. PICK n \in Nat : n = locals.n
  BY <1>1 DEF ModExpKept
<1>8. Same(m, a * ToThe(c, n), ToThe(b, e))
  BY <1>1, <1>2, <1>3, <1>4, <1>5, <1>6, <1>7 DEF ModExpKept
<1>9. PICK t \in Int : t = ToThe(c, n)
  <2>1. c \in Int
    OBVIOUS
  <2>2. ToThe(c, n) \in Int
    BY <2>1, PowerStep, Zenon
  <2> QED BY <2>2
<1>10. PICK w \in Int : w = ToThe(b, e)
  <2>1. b \in Int
    OBVIOUS
  <2>2. ToThe(b, e) \in Int
    BY <2>1, PowerStep, Zenon
  <2> QED BY <2>2
<1>11. PICK r \in Nat : r = t % m /\ Same(m, r, t)
  BY SameNumbers
<1>12. PowerMod(c, n, m) = r /\ PowerMod(b, e, m) = w % m
  BY <1>9, <1>10, <1>11, PowerModIs
<1>13. Same(m, a * r, w)
  <2>1. r \in Int /\ a \in Int
    OBVIOUS
  <2>2. Same(m, a * r, a * t)
    BY <1>11, <2>1, SameRules, Zenon
  <2>3. a * r \in Int /\ a * t \in Int
    OBVIOUS
  <2>4. Same(m, a * t, w)
    BY ONLY <1>8, <1>9, <1>10
  <2> QED BY <2>2, <2>3, <2>4, SameRules, Zenon
<1>14. (a * r) % m = w % m
  BY ONLY <1>13 DEF Same
<1> QED BY ONLY <1>2, <1>3, <1>4, <1>5, <1>6, <1>7, <1>12, <1>14

\* The same of the next state.
LEMMA UnansweredStaysPower ==
  ASSUME ModExpKept', answer' = NoAnswer
  PROVE  PowerOfBase'
<1>1. (ModExpKept /\ answer = NoAnswer => PowerOfBase)'
  BY UnansweredPower, PTL
<1> QED BY <1>1

\* So many zeroes.
LEMMA ZeroesAre ==
  ASSUME NEW n \in Nat PROVE Len(zeroes(n)) = n
<1>1. zeroes(n) \in [1 .. n -> Nat]
  BY DEF zeroes
<1> QED BY <1>1

\* The base is a word when it is no longer than one.
LEMMA ExpModStarts ==
  ASSUME ModExpInv, expMod
  PROVE  ModExpInv'
<1>1. task = "expmod" /\ answer = NoAnswer /\ task' = "expmod" /\ argv' = argv
  BY DEF expMod, Running, Answer, Continue
<1>2. argv \in ExpModData
  BY <1>1 DEF ModExpInv, ModExpKept
<1>3. PICK m \in Nat : m = Numbers(argv).modulus
  BY <1>2, NumbersAre
<1>4. PICK b \in Nat : b = Numbers(argv).base /\ b < ToThe(256, Lengths(argv).base)
  BY <1>2, NumbersAre
<1>5. PICK e \in Nat : e = Numbers(argv).exp
  BY <1>2, NumbersAre
<1>6. PICK lb \in Nat : lb = Lengths(argv).base
  BY <1>2, NumbersAre
<1>7. PICK lm \in Nat : lm = Lengths(argv).modulus
  BY <1>2, NumbersAre
<1>8. PICK width \in Nat : width = EvmWordBytes
  BY ExpModAssumption
<1>9. CASE m = 0
  <2>1. answer' = zeroes(lm) /\ locals' = locals /\ locals = <<>>
    BY <1>3, <1>7, <1>9 DEF expMod, Answer
  <2>2. ModExpKept'
    BY <1>1, <1>2, <2>1 DEF ModExpKept
  <2>3. PowerOfBase'
    <3>1. Len(zeroes(lm)) = lm
      BY ZeroesAre
    <3>2. Numbers(argv').modulus = 0 /\ Lengths(argv').modulus = lm
      BY <1>1, <1>3, <1>7, <1>9
    <3> QED BY <1>1, <2>1, <3>1, <3>2 DEF PowerOfBase, Running
  <2> QED BY <2>2, <2>3 DEF ModExpInv
<1>10. CASE m # 0
  <2>1. PICK M \in Nat \ {0} : M = ToThe(256, width)
    BY PowerPositive
  <2>0. b \in Int
    OBVIOUS
  <2>2. PICK c \in Nat : c = b % M
    <3>1. b % M \in Nat
      BY <2>0, Remainders, Zenon
    <3> QED BY <3>1
  <2>3. answer' = NoAnswer /\ locals' = [a |-> 1, c |-> c, n |-> e]
    BY <1>1, <1>3, <1>4, <1>5, <1>8, <1>10, <2>1, <2>2 DEF expMod, Continue
  <2>4. locals'.a = 1 /\ locals'.c = c /\ locals'.n = e
    BY ONLY <2>3
  <2>5. lb <= width => c = b
    <3> SUFFICES ASSUME lb <= width PROVE c = b
      OBVIOUS
    <3>1. lb \in 0 .. width /\ 256 \in Nat \ {0}
      OBVIOUS
    <3>2. ToThe(256, lb) <= M
      BY <2>1, <3>1, PowerSplits
    <3>3. PICK L \in Nat : L = ToThe(256, lb)
      BY PowerPositive
    <3>4. b < L /\ L <= M
      BY <1>4, <1>6, <3>2, <3>3
    <3>5. b < M
      BY <3>4
    <3>6. b % M = b
      BY <2>0, <3>5, Remainders, Zenon
    <3> QED BY <2>2, <3>6
  <2>6. lb <= width => Same(m, 1 * ToThe(c, e), ToThe(b, e))
    <3> SUFFICES ASSUME lb <= width PROVE Same(m, 1 * ToThe(c, e), ToThe(b, e))
      OBVIOUS
    <3>1. PICK t \in Int : t = ToThe(b, e)
      BY PowerStep
    <3>2. 1 * t = t /\ ToThe(c, e) = t
      BY <2>5, <3>1
    <3> QED BY ONLY <3>1, <3>2 DEF Same
  <2>7. ModExpKept'
    <3>1. /\ Numbers(argv').modulus = m /\ Numbers(argv').base = b /\ Numbers(argv').exp = e
          /\ Lengths(argv').base = lb
      BY <1>1, <1>3, <1>4, <1>5, <1>6
    <3> QED BY <1>1, <1>2, <1>8, <1>10, <2>4, <2>6, <3>1 DEF ModExpKept
  <2> QED BY <2>3, <2>7, UnansweredStaysPower DEF ModExpInv
<1> QED BY <1>9, <1>10

\* A round keeps the invariant, and the last one answers the power in enough bytes.
LEMMA ExpModGoesOn ==
  ASSUME ModExpInv, expModAux
  PROVE  ModExpInv'
<1>1. /\ task = "expmod" /\ answer = NoAnswer /\ task' = "expmod" /\ argv' = argv
      /\ locals # <<>>
  BY DEF expModAux, Running, Answer, Continue
<1>2. argv \in ExpModData
  BY <1>1 DEF ModExpInv, ModExpKept
<1>3. PICK m \in Nat \ {0} : m = Numbers(argv).modulus
  BY <1>1, <1>2, NumbersAre DEF ModExpInv, ModExpKept
<1>4. PICK b \in Nat : b = Numbers(argv).base
  BY <1>2, NumbersAre
<1>5. PICK e \in Nat : e = Numbers(argv).exp
  BY <1>2, NumbersAre
<1>6. PICK a \in Nat : a = locals.a
  BY <1>1 DEF ModExpInv, ModExpKept
<1>7. PICK c \in Nat : c = locals.c
  BY <1>1 DEF ModExpInv, ModExpKept
<1>8. PICK n \in Nat : n = locals.n
  BY <1>1 DEF ModExpInv, ModExpKept
<1>9. PICK lm \in Nat : lm = Lengths(argv).modulus /\ m < ToThe(256, lm)
  BY <1>2, <1>3, NumbersAre
<1>10. PICK t \in Int : t = ToThe(c, n)
  BY PowerStep
<1>11. PICK w \in Int : w = ToThe(b, e)
  BY PowerStep
<1>12. Lengths(argv).base <= EvmWordBytes => Same(m, a * t, w)
  <2>1. Lengths(argv).base <= EvmWordBytes =>
          Same(Numbers(argv).modulus, locals.a * ToThe(locals.c, locals.n),
               ToThe(Numbers(argv).base, Numbers(argv).exp))
    BY <1>1 DEF ModExpInv, ModExpKept
  <2> QED BY ONLY <1>3, <1>4, <1>5, <1>6, <1>7, <1>8, <1>10, <1>11, <2>1
<1>13. CASE n > 0
  <2>1. answer' = NoAnswer /\ locals' = nextPower(m, locals)
    BY <1>1, <1>3, <1>8, <1>13 DEF expModAux, Continue
  <2>2. PICK a1 \in Nat : a1 = locals'.a
    BY <1>6, <1>7, <1>8, <2>1, NextPowerIs
  <2>3. PICK c1 \in Nat : c1 = locals'.c
    BY <1>6, <1>7, <1>8, <2>1, NextPowerIs
  <2>4. PICK n1 \in Nat : n1 = locals'.n
    BY <1>6, <1>7, <1>8, <2>1, NextPowerIs
  <2>5. Same(m, a1 * ToThe(c1, n1), a * t)
    <3>1. Same(m, nextPower(m, locals).a * ToThe(nextPower(m, locals).c, nextPower(m, locals).n),
               a * ToThe(c, n))
      BY <1>6, <1>7, <1>8, NextPowerIs
    <3> QED BY ONLY <1>10, <2>1, <2>2, <2>3, <2>4, <3>1
  <2>6. PICK t1 \in Int : t1 = ToThe(c1, n1)
    BY PowerStep
  <2>7. Lengths(argv).base <= EvmWordBytes => Same(m, a1 * ToThe(c1, n1), ToThe(b, e))
    <3>1. a1 * t1 \in Int /\ a * t \in Int
      OBVIOUS
    <3>2. Same(m, a1 * t1, a * t)
      BY ONLY <2>5, <2>6
    <3>3. Lengths(argv).base <= EvmWordBytes => Same(m, a1 * t1, w)
      BY <1>12, <3>1, <3>2, SameRules, Zenon
    <3> QED BY ONLY <1>11, <2>6, <3>3
  <2>8. ModExpKept'
    <3>1. /\ Numbers(argv').modulus = m /\ Numbers(argv').base = b /\ Numbers(argv').exp = e
          /\ Lengths(argv').base = Lengths(argv).base /\ argv' \in ExpModData
      BY <1>1, <1>2, <1>3, <1>4, <1>5
    <3>2. Lengths(argv').base <= EvmWordBytes =>
            Same(Numbers(argv').modulus, locals'.a * ToThe(locals'.c, locals'.n),
                 ToThe(Numbers(argv').base, Numbers(argv').exp))
      BY ONLY <2>2, <2>3, <2>4, <2>7, <3>1
    <3> QED BY <2>2, <2>3, <2>4, <3>1, <3>2 DEF ModExpKept
  <2> QED BY <2>1, <2>8, UnansweredStaysPower DEF ModExpInv
<1>14. CASE ~(n > 0)
  <2>1. n = 0
    BY <1>14
  <2>2. PICK r \in Nat : r = a % m /\ r < m
    BY Remainders
  <2>3. PICK l \in Nat : l = Len(BE(r))
    <3>1. BE(r) \in Seq(0 .. 255)
      BY BytesFrom
    <3>2. Len(BE(r)) \in Nat
      BY ONLY <3>1
    <3> QED BY <3>2
  <2>4. l <= lm
    <3>1. PICK T \in Nat : T = ToThe(256, lm)
      BY PowerPositive
    <3>2. r < T
      BY <1>9, <2>2, <3>1
    <3> QED BY <2>3, <3>1, <3>2, BytesFew
  <2>5. answer' = zeroes(lm - l) \o BE(r) /\ locals' = locals
    BY <1>3, <1>6, <1>8, <1>9, <2>1, <2>2, <2>3, SMTT(30) DEF expModAux, Answer
  <2>6. lm - l \in Nat /\ (lm - l) + l = lm
    BY <2>4
  <2>7. Len(answer') = lm /\ ValueOf(256, answer') = r
    <3>1. BE(r) \in Seq(Nat)
      BY BytesFrom, BytesNatural
    <3>2. /\ Len(zeroes(lm - l) \o BE(r)) = (lm - l) + Len(BE(r))
          /\ ValueOf(256, zeroes(lm - l) \o BE(r)) = ValueOf(256, BE(r))
      <4>1. PICK k \in Nat : k = lm - l
        BY <2>6
      <4>2. /\ Len(zeroes(k) \o BE(r)) = k + Len(BE(r))
            /\ ValueOf(256, zeroes(k) \o BE(r)) = ValueOf(256, BE(r))
        <5>1. PICK s \in Seq(Nat) : s = BE(r)
          BY <3>1
        <5>2. PICK base \in Nat : base = 256
          OBVIOUS
        <5>3. Len(zeroes(k) \o s) = k + Len(s)
          BY ONLY k \in Nat, s \in Seq(Nat), base \in Nat, LeadingZeroes
        <5>4. ValueOf(base, zeroes(k) \o s) = ValueOf(base, s)
          BY ONLY k \in Nat, s \in Seq(Nat), base \in Nat, LeadingZeroes
        <5> QED BY ONLY <5>1, <5>2, <5>3, <5>4
      <4> QED BY ONLY <4>1, <4>2
    <3>3. ValueOf(256, BE(r)) = r
      BY BytesWrite
    <3> QED BY ONLY <2>3, <2>5, <2>6, <3>2, <3>3
  <2>8. Lengths(argv).base <= EvmWordBytes => r = PowerMod(b, e, m)
    <3> SUFFICES ASSUME Lengths(argv).base <= EvmWordBytes PROVE r = PowerMod(b, e, m)
      OBVIOUS
    <3>1. ToThe(c, 0) = 1
      BY PowerStep
    <3>2. t = 1
      BY ONLY <1>10, <2>1, <3>1
    <3>3. a * t = a
      BY <3>2
    <3>4. Same(m, a, w)
      BY ONLY <1>12, <3>3, Lengths(argv).base <= EvmWordBytes
    <3>5. a % m = w % m
      BY ONLY <3>4 DEF Same
    <3>6. PowerMod(b, e, m) = w % m
      BY <1>11, PowerModIs
    <3> QED BY ONLY <2>2, <3>5, <3>6
  <2>9. ModExpKept'
    <3>1. /\ argv' \in ExpModData
          /\ answer' = NoAnswer => ModExpKept'
      BY <1>1, <1>2, <2>5 DEF ModExpInv, ModExpKept
    <3> QED BY <3>1 DEF ModExpKept
  <2>10. CASE answer' = NoAnswer
    BY <2>9, <2>10, UnansweredStaysPower DEF ModExpInv
  <2>11. CASE answer' # NoAnswer
    <3>1. /\ Numbers(argv').modulus = m /\ Numbers(argv').base = b /\ Numbers(argv').exp = e
          /\ Lengths(argv').base = Lengths(argv).base /\ Lengths(argv').modulus = lm
      BY <1>1, <1>3, <1>4, <1>5, <1>9
    <3>2. Lengths(argv').base <= EvmWordBytes =>
            fromByteArrayBigEndian(answer') = PowerMod(b, e, m)
      BY ONLY <2>7, <2>8, <3>1 DEF fromByteArrayBigEndian
    <3>3. PowerOfBase'
      BY <2>7, <2>11, <3>1, <3>2 DEF PowerOfBase, Running
    <3> QED BY <2>9, <3>3 DEF ModExpInv
  <2> QED BY <2>10, <2>11
<1> QED BY <1>13, <1>14

(***************************************************************************)
(* EXPMOD (PrecompiledContracts.lean) answers the base to the exponent     *)
(* modulo the modulus, if the base is no longer than a word and the        *)
(* modulus is not 0, and always has as many bytes as the modulus; and each *)
(* round of squaring leaves what is still to be computed the same: for any *)
(* call data and any width of a word.                                      *)
(***************************************************************************)
THEOREM PowerOfBaseIsComputed == ModExpSpec => []PowerOfBase
<1>1. Idle => ModExpInv
  BY DEF Idle, ModExpInv, ModExpKept, PowerOfBase, Running, Answered
<1>2. ASSUME ModExpInv, [ModExpNext \/ Respond]_computation PROVE ModExpInv'
  <2>1. CASE StartExpMod
    <3>1. PICK data \in ExpModData : Start("expmod", data, <<>>)
      BY <2>1 DEF StartExpMod
    <3>2. task' = "expmod" /\ argv' = data /\ locals' = <<>> /\ answer' = NoAnswer
      BY <2>1, <3>1 DEF StartExpMod, Idle, Start
    <3>3. ModExpKept'
      BY <3>2 DEF ModExpKept
    <3> QED BY <3>2, <3>3, UnansweredStaysPower DEF ModExpInv
  <2>2. CASE expMod
    BY <1>2, <2>2, ExpModStarts
  <2>3. CASE expModAux
    BY <1>2, <2>3, ExpModGoesOn
  <2>4. CASE Respond
    <3>1. answer' = NoAnswer /\ task' = "none"
      BY <2>4 DEF Respond
    <3>2. ModExpKept'
      BY <3>1 DEF ModExpKept
    <3> QED BY <3>1, <3>2, UnansweredStaysPower DEF ModExpInv
  <2>5. CASE UNCHANGED computation
    BY <1>2, <2>5 DEF computation, ModExpInv, ModExpKept, PowerOfBase, Running, Answered
  <2> QED BY <1>2, <2>1, <2>2, <2>3, <2>4, <2>5 DEF ModExpNext
<1> QED BY <1>1, <1>2, PTL DEF ModExpSpec, ModExpInv
=============================================================================
