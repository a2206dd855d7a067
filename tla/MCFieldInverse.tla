--------------------------- MODULE MCFieldInverse ---------------------------
(***************************************************************************)
(* The inverses and powers of a quadratic and a cubic field, on their own. *)
(***************************************************************************)
EXTENDS FieldArithmetic

\* F_7[x] modulo x^2 + 1, the shape of BNF2, and modulo x^3 + 5.
Class7(modulus) == [class |-> "galois", prime |-> 7, modulus |-> modulus]
WithFrobenius(F) == [class     |-> F.class,
                     prime     |-> F.prime,
                     modulus   |-> F.modulus,
                     frobenius |-> Galois!calculate_frobenius_coefficients(F)]
Quadratic == WithFrobenius(Class7(<<1, 0>>))
Cubic     == WithFrobenius(Class7(<<5, 0, 0>>))
SmallFields == <<Quadratic, Cubic>>
SmallExponents == {-2, 0, 1, 6, 7}

FieldSpec == Idle /\ [][FieldNext \/ Respond]_computation
=============================================================================
