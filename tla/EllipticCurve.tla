---------------------------- MODULE EllipticCurve ---------------------------
(***************************************************************************)
(* EllipticCurve of elliptic_curve.py: points (x, y) of y^2 = x^3 + A x + B*)
(* over a field.  C is the class of a point, with FIELD, A and B.  A       *)
(* method that divides may raise.                                          *)
(***************************************************************************)
EXTENDS Field

point_at_infinity(C) == <<zero(C.FIELD), zero(C.FIELD)>>

\* y ** 2 - x ** 3 - A * x - B
Defect(C, x, y) ==
    LET F == C.FIELD
        cubic == sub(F, pow(F, y, 2), pow(F, x, 3))
    IN  sub(F, sub(F, cubic, mul(F, C.A, x)), C.B)
init(C, x, y) ==
    IF <<x, y>> # point_at_infinity(C) /\ Defect(C, x, y) # zero(C.FIELD)
      THEN ValueError
      ELSE <<x, y>>

\* The third point of the line through the two, with its slope lam, mirrored.
\* The slope may have raised.
ChordX(F, lam, self, other) == sub(F, sub(F, pow(F, lam, 2), self[1]), other[1])
Mirrored(F, lam, self, x) == <<x, sub(F, mul(F, lam, sub(F, self[1], x)), self[2])>>
Chord(C, lam, self, other) ==
    IF Raised(lam) THEN lam
    ELSE Mirrored(C.FIELD, lam, self, ChordX(C.FIELD, lam, self, other))

ChordSlope(C, self, other) ==
    LET F == C.FIELD
    IN  truediv(F, sub(F, other[2], self[2]), sub(F, other[1], self[1]))
TangentSlope(C, self) ==
    LET F == C.FIELD
    IN  truediv(F, add(F, mul(F, from_int(F, 3), pow(F, self[1], 2)), C.A),
                   mul(F, from_int(F, 2), self[2]))
\* No GaloisField equals the int 0 that the coordinates are compared with.
double(C, self) ==
    IF IsPrime(C.FIELD) /\ self = <<0, 0>> THEN self
    ELSE Chord(C, TangentSlope(C, self), self, self)

\* Mutant: points with the same x are always doubled.
plusDoubles(C, self, other) ==
    IF self = point_at_infinity(C) THEN other
    ELSE IF other = point_at_infinity(C) THEN self
    ELSE IF self[1] = other[1] THEN double(C, self)
    ELSE Chord(C, ChordSlope(C, self, other), self, other)
plus(C, self, other) ==
    IF self = point_at_infinity(C) THEN other
    ELSE IF other = point_at_infinity(C) THEN self
    ELSE IF self[1] = other[1]
      THEN IF self[2] = other[2] THEN double(C, self) ELSE point_at_infinity(C)
    ELSE Chord(C, ChordSlope(C, self, other), self, other)

\* Double and add.  m has res, s and what is left of the multiplier.
MulStart(C, self, n) == [res |-> point_at_infinity(C), s |-> self, n |-> n]
MulStep(C, m) ==
    [res |-> IF m.n % 2 = 1 THEN plus(C, m.res, m.s) ELSE m.res,
     s   |-> plus(C, m.s, m.s),
     n   |-> m.n \div 2]
MulRaised(m) == Raised(m.res) \/ Raised(m.s)
MulAnswer(m) == IF Raised(m.s) THEN m.s ELSE m.res

RECURSIVE MulEnd(_, _)
MulEnd(C, m) ==
    IF MulRaised(m) \/ m.n = 0 THEN MulAnswer(m) ELSE MulEnd(C, MulStep(C, m))
mul_by(C, self, n) == MulEnd(C, MulStart(C, self, n))
=============================================================================
