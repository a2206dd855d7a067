--------------------------------- MODULE Kzg --------------------------------
(***************************************************************************)
(* The script point_evaluation.py with kzg.py: a KZG proof that the        *)
(* polynomial behind a commitment has the value y at z.  A point of a      *)
(* group is written as its multiplier of the generator, and the pairing of *)
(* two points as the product of theirs; the encoding of a point is its     *)
(* multiplier, or one of those below that is no valid key.                 *)
(***************************************************************************)
EXTENDS Computation, SequencesExt, Bits

CONSTANTS BLS_MODULUS,   \* the order of the groups, a prime
          Secret,        \* the multiplier of KZG_SETUP_G2_MONOMIAL_1
          Polynomials,   \* what is committed to: the coefficients
          Points,        \* the z and y of an input, words
          Accepted, Refused,
          NotOnCurve     \* bytes that are no point of the group

ASSUME KzgAssumption ==
    /\ BLS_MODULUS \in Nat \ {0} /\ Secret \in Nat
    /\ Polynomials \subseteq Seq(Nat) /\ Points \subseteq Nat
    /\ NotOnCurve \notin Nat
    /\ AssertionError \notin Nat /\ AssertionError # NotOnCurve
    /\ Accepted # Refused

G1_POINT_AT_INFINITY == 0

\* The digest of bytes stands for itself.
kzg_commitment_to_versioned_hash(commitment) == <<1, commitment>>

\* G2ProofOfPossession.KeyValidate refuses the point at infinity.
KeyValidate(b) == b # NotOnCurve /\ b # 0
\* Mutant: the point at infinity is left to KeyValidate.
validate_kzg_g1Finite(b) == KeyValidate(b)
validate_kzg_g1(b) == b = G1_POINT_AT_INFINITY \/ KeyValidate(b)
bytes_to_kzg_commitment(b) == IF validate_kzg_g1(b) THEN b ELSE AssertionError
bytes_to_kzg_proof(b)      == IF validate_kzg_g1(b) THEN b ELSE AssertionError
bytes_to_bls_field(b)      == IF b < BLS_MODULUS THEN b ELSE AssertionError

plusPoint(a, b) == (a + b) % BLS_MODULUS
negPoint(a)     == (-a) % BLS_MODULUS
pairing_check(values) ==
    (values[1][1] * values[1][2] + values[2][1] * values[2][2]) % BLS_MODULUS = 0

\* P - y = Q * (X - z), with the generators as 1
verify_kzg_proof_impl(commitment, z, y, proof) ==
    LET X_minus_z == plusPoint(Secret, (BLS_MODULUS - z) % BLS_MODULUS)
        P_minus_y == plusPoint(commitment, (BLS_MODULUS - y) % BLS_MODULUS)
    IN  pairing_check(<< <<P_minus_y, negPoint(1)>>, <<proof, X_minus_z>> >>)

-----------------------------------------------------------------------------
\* The value at x of a polynomial, whose highest coefficient comes last.
ValueAt(p, x) == ValueOf(x, Reverse(p)) % BLS_MODULUS
\* Its quotient by X - z: synthetic division has the coefficients on the way
\* to the value at z.
QuotientAt(p, z, x) ==
    LET sums == PrefixValues(z, Reverse(p))
    IN  ValueOf(x, [k \in 1 .. Len(p) |-> sums[k - 1]]) % BLS_MODULUS

(***************************************************************************)
(* An input is made by one who has the polynomial, and then altered in at  *)
(* most one place.  polynomial is remembered beside it.                    *)
(***************************************************************************)
Honest(p, z, y) ==
    [polynomial |-> p, length |-> 192, z |-> z, y |-> y,
     versioned_hash |-> kzg_commitment_to_versioned_hash(ValueAt(p, Secret)),
     commitment     |-> ValueAt(p, Secret),
     proof          |-> QuotientAt(p, z, Secret)]
Altered(data) ==
    {data, [data EXCEPT !.length = 191], [data EXCEPT !.versioned_hash[1] = 2],
     [data EXCEPT !.proof = NotOnCurve],
     [data EXCEPT !.commitment = NotOnCurve,
                  !.versioned_hash = kzg_commitment_to_versioned_hash(NotOnCurve)]}
    \cup {[data EXCEPT !.commitment = c] : c \in 0 .. BLS_MODULUS - 1}

StartKzg ==
    Idle /\ \E p \in Polynomials, z, y \in Points :
        \E data \in Altered(Honest(p, z, y)) :
            Start("kzg", data, <<>>)

CheckHash ==
    /\ Running("kzg")
    /\ locals = <<>>
    /\ IF \/ argv.length # 192
          \/ kzg_commitment_to_versioned_hash(argv.commitment) # argv.versioned_hash
         THEN Answer(Refused)
         ELSE Continue(<<argv.commitment, argv.z, argv.y, argv.proof>>)

\* Whatever verify_kzg_proof raises is caught.
verify_kzg_proof ==
    /\ Running("kzg")
    /\ locals # <<>>
    /\ LET inputs == <<bytes_to_kzg_commitment(locals[1]), bytes_to_bls_field(locals[2]),
                       bytes_to_bls_field(locals[3]), bytes_to_kzg_proof(locals[4])>>
       IN  Answer(IF AssertionError \in Range(inputs) THEN Refused
                  ELSE IF verify_kzg_proof_impl(inputs[1], inputs[2], inputs[3], inputs[4])
                    THEN Accepted
                  ELSE Refused)

KzgNext == StartKzg \/ CheckHash \/ verify_kzg_proof
KzgSpec == Idle /\ [][KzgNext \/ Respond]_computation

-----------------------------------------------------------------------------
(***************************************************************************)
(* An honest proof is accepted, for constant polynomials too, whose proof  *)
(* is the point at infinity; with the same proof no other value of the     *)
(* polynomial is, nor the same value or point written with another number; *)
(* and an input whose parts do not fit together is refused.                *)
(***************************************************************************)
OneValuePerProof ==
    Answered("kzg") =>
        answer = Accepted <=>
            /\ argv = Honest(argv.polynomial, argv.z, argv.y)
            /\ argv.z < BLS_MODULUS
            /\ argv.y = ValueAt(argv.polynomial, argv.z)
=============================================================================
