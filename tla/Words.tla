------------------------------- MODULE Words --------------------------------
(***************************************************************************)
(* Computations on words.  A number is worked on by one method after       *)
(* another: a Uint of base_types.py; or a FixedUint of base_types.py and,  *)
(* in step with it, a UInt256 of the EVM.  Beside them runs the exact      *)
(* integer result, which no code computes.  A value is also encoded as     *)
(* bytes or as a signed integer and decoded again, and the EVM's           *)
(* operations on signed words are applied to words.                        *)
(***************************************************************************)
EXTENDS Computation, Bits

CONSTANTS MAX_VALUE, Byte, BitsOfByte, WordBytes,
          Operands,   \* the other operand of a method, any integer
          Exponents,  \* the exponents, moduli and shifts tried
          MaxMethods  \* a bound on the methods applied to one number

\* A U256 and a UInt256 are words of the same size, of whole bytes of bits.
ASSUME WordAssumption ==
    /\ BitsOfByte \in Nat \ {0} /\ WordBytes \in Nat \ {0}
    /\ Byte = ToThe(2, BitsOfByte)
    /\ MAX_VALUE \in Nat /\ MAX_VALUE + 1 = ToThe(Byte, WordBytes)

\* An exception is neither a number nor a sequence of numbers.
ASSUME NumbersAssumption ==
    /\ Operands \subseteq Int /\ Exponents \subseteq Nat
    /\ \A e \in Exceptions : e \notin Int /\ e \notin Seq(Int)
    /\ ZeroDivisionError # OverflowError
    /\ ValueError \notin {OverflowError, ZeroDivisionError}
    /\ NoAnswer \notin Exceptions /\ NoAnswer \notin Int

Num == INSTANCE Uint
Fix == INSTANCE FixedUint
EVM == INSTANCE UInt256

Word == 0 .. MAX_VALUE

(***************************************************************************)
(* What one method makes of the number, of the exact integer and of the    *)
(* word of the EVM; and whether it may wrap.  A method that does not       *)
(* commute with wrapping starts the exact integer anew.                    *)
(***************************************************************************)
Outcome(got, exact, evm, wraps) ==
    [got |-> got, exact |-> exact, evm |-> evm, wraps |-> wraps]
Ring(got, exact, evm) == Outcome(got, exact, evm, FALSE)
Wrap(got, exact, evm) == Outcome(got, exact, evm, TRUE)
Anew(got, evm)        == Outcome(got, got, evm, FALSE)
Part(k, pair)         == IF pair \in Exceptions THEN pair ELSE pair[k]

UintMethods(n, e, x) ==
    {Ring(Num!add(n, x), e + x, 0),
     Ring(Num!sub(n, x), e - x, 0),
     Ring(Num!rsub(n, x), x - e, 0),
     Ring(Num!mul(n, x), e * x, 0)} \cup
    {Anew(got, 0) : got \in
       {Num!floordiv(n, x), Num!rfloordiv(n, x), Num!mod(n, x), Num!rmod(n, x),
        Num!xor(n, x), Num!rxor(n, x)} \cup
       {Part(k, Num!divmod(n, x)) : k \in 1 .. 2} \cup
       {Part(k, Num!rdivmod(n, x)) : k \in 1 .. 2}}

FixedMethods(w, e, v, x) ==
    LET u == EVM!ofNat(x)
    IN  {Ring(Fix!add(w, x), e + x, EVM!add(v, u)),
         Ring(Fix!sub(w, x), e - x, EVM!sub(v, u)),
         Ring(Fix!rsub(w, x), x - e, EVM!sub(u, v)),
         Ring(Fix!mul(w, x), e * x, EVM!mul(v, u)),
         Wrap(Fix!wrapping_add(w, x), e + x, EVM!add(v, u)),
         Wrap(Fix!wrapping_sub(w, x), e - x, EVM!sub(v, u)),
         Wrap(Fix!wrapping_mul(w, x), e * x, EVM!mul(v, u)),
         Wrap(Fix!invert(w), -e - 1, EVM!lnot(v)),
         Anew(Fix!floordiv(w, x), EVM!div(v, u)),
         Anew(Fix!rfloordiv(w, x), EVM!div(u, v)),
         Anew(Fix!mod(w, x), EVM!mod(v, u)),
         Anew(Fix!rmod(w, x), EVM!mod(u, v)),
         Anew(Part(1, Fix!divmod(w, x)), EVM!div(v, u)),
         Anew(Part(2, Fix!divmod(w, x)), EVM!mod(v, u)),
         Anew(Part(1, Fix!rdivmod(w, x)), EVM!div(u, v)),
         Anew(Part(2, Fix!rdivmod(w, x)), EVM!mod(u, v)),
         Anew(Fix!and(w, x), EVM!land(v, u)),
         Anew(Fix!or(w, x), EVM!lor(v, u)),
         Anew(Fix!xor(w, x), EVM!xor(v, u)),
         Anew(Fix!rxor(w, x), EVM!xor(u, v))}

UintPowers(n, e, k) ==
    {Ring(Num!pow(n, k, Num!None), ToThe(e, k), 0),
     Ring(Num!rpow(n, k, Num!None), ToThe(k, e), 0)}
FixedPowers(w, e, v, k) ==
    {Ring(Fix!pow(w, k, Fix!None), ToThe(e, k), EVM!exp(v, k)),
     Wrap(Fix!wrapping_pow(w, k, Fix!None), ToThe(e, k), EVM!exp(v, k)),
     Anew(Fix!rshift(w, k), EVM!shiftRight(v, k))}
\* With a modulo, a power of the one kind stands beside one of the other.
UintModularPowers(n, k, m) == {Anew(Num!pow(n, k, m), 0), Anew(Num!rpow(n, k, m), 0)}
FixedModularPowers(w, k, m) == {Anew(Fix!pow(w, k, m), Fix!wrapping_pow(w, k, m))}

-----------------------------------------------------------------------------
StartNumber ==
    Idle /\ \E class \in {"Uint", "FixedUint"}, x \in Operands :
        LET made == IF class = "Uint" THEN Num!init(x) ELSE Fix!init(x)
        IN  /\ made \notin Exceptions
            /\ Start("number", class,
                     [number |-> made, exact |-> x, evm |-> EVM!ofNat(x),
                      operands |-> {}, wrapped |-> FALSE, methods |-> 0])

\* A method goes on with the new number or raises an exception.
Apply(outcome, operands) ==
    IF outcome.got \in Exceptions
      THEN /\ answer' = outcome.got
           /\ locals' = [locals EXCEPT
                !.exact    = IF outcome.exact \in Exceptions THEN 0 ELSE outcome.exact,
                !.operands = operands]
           /\ UNCHANGED <<task, argv>>
      ELSE Continue([number   |-> outcome.got,
                     exact    |-> outcome.exact,
                     evm      |-> outcome.evm,
                     operands |-> operands,
                     wrapped  |-> locals.wrapped \/ outcome.wraps,
                     methods  |-> locals.methods + 1])

ApplyMethod ==
    /\ Running("number")
    /\ locals.methods < MaxMethods
    /\ \E x \in Operands :
         \E outcome \in
            IF argv = "Uint"
              THEN UintMethods(locals.number, locals.exact, x)
              ELSE FixedMethods(locals.number, locals.exact, locals.evm, x) :
            Apply(outcome, {x})

\* Powers grow fast, so a power is the first method applied to a number.
ApplyPower ==
    /\ Running("number")
    /\ locals.methods = 0
    /\ \E k \in Exponents :
         \/ \E outcome \in
               IF argv = "Uint"
                 THEN UintPowers(locals.number, locals.exact, k)
                 ELSE FixedPowers(locals.number, locals.exact, locals.evm, k) :
               Apply(outcome, {k})
         \/ \E modulo \in Exponents : \E outcome \in
               IF argv = "Uint"
                 THEN UintModularPowers(locals.number, k, modulo)
                 ELSE FixedModularPowers(locals.number, k, modulo) :
               Apply(outcome, {k, modulo})

\* k ** word makes what may be no word, and the number is left there.
ApplyReflectedPower ==
    /\ Running("number")
    /\ argv = "FixedUint"
    /\ \E k \in Exponents :
         /\ answer' = Fix!rpow(locals.number, k, Fix!None)
         /\ locals' = [locals EXCEPT !.operands = {k}]
    /\ UNCHANGED <<task, argv>>

LeaveNumber ==
    /\ Running("number")
    /\ locals.methods = MaxMethods
    /\ Answer(locals.number)

-----------------------------------------------------------------------------
(***************************************************************************)
(* Encoding and decoding.  A coding is a way of turning a value into bytes *)
(* or an integer and back.                                                 *)
(***************************************************************************)
Encoded(coding, x) ==
    CASE coding = "be"       -> Num!to_be_bytes(x)
      [] coding = "le"       -> Num!to_le_bytes(x, Num!None)
      [] coding = "padded"   -> Num!to_le_bytes(x, WordBytes)
      [] coding = "be32"     -> Num!to_be_bytes32(x)
      [] coding = "word"     -> Fix!to_be_bytes(x)
      [] coding = "word32"   -> Fix!to_be_bytes32(x)
      [] coding = "signed"   -> Fix!from_signed(x)
Decoded(coding, code) ==
    CASE coding \in {"be", "be32"}     -> Num!from_be_bytes(code)
      [] coding \in {"le", "padded"}   -> Num!from_le_bytes(code)
      [] coding \in {"word", "word32"} -> Fix!from_be_bytes(code)
      [] coding = "signed"             -> Fix!to_signed(code)

\* The values of the class that has the coding.
Codable(coding) ==
    CASE coding \in {"be", "le", "padded", "be32"} -> 0 .. 2 * MAX_VALUE + 2
      [] coding \in {"word", "word32"} -> Word
      [] coding = "signed" -> -(MAX_VALUE + 2) .. MAX_VALUE + 1
Codings == {"be", "le", "padded", "be32", "word", "word32", "signed"}

StartCoding ==
    Idle /\ \E coding \in Codings : \E x \in Codable(coding) :
        Start("coding", <<coding, x>>, <<>>)
Encode ==
    /\ Running("coding")
    /\ locals = <<>>
    /\ LET code == Encoded(argv[1], argv[2])
       IN  IF code \in Exceptions THEN Answer(code) ELSE Continue(<<code>>)
Decode ==
    /\ Running("coding")
    /\ locals # <<>>
    /\ Answer(Decoded(argv[1], locals[1]))

-----------------------------------------------------------------------------
(***************************************************************************)
(* The EVM's operations on signed words, and those with three operands.    *)
(***************************************************************************)
StartSigned ==
    Idle /\ \E x, y \in Word, z \in Operands \cap Word :
                Start("signed", <<x, y, z>>, <<>>)
ComputeSigned ==
    /\ Running("signed")
    /\ LET x == argv[1]
           y == argv[2]
       IN  Answer([sdiv       |-> EVM!sdiv(x, y),
                   smod       |-> EVM!smod(x, y),
                   slt        |-> EVM!slt(x, y),
                   sgt        |-> EVM!sgt(x, y),
                   sar        |-> EVM!sar(x, y),
                   signextend |-> EVM!signextend(x, y),
                   byteAt     |-> EVM!byteAt(x, y),
                   shiftLeft  |-> EVM!shiftLeft(y, x),
                   addMod     |-> EVM!addMod(x, y, argv[3]),
                   mulMod     |-> EVM!mulMod(x, y, argv[3])])

WordsNext == \/ StartNumber \/ ApplyMethod \/ ApplyPower
             \/ ApplyReflectedPower \/ LeaveNumber
             \/ StartCoding \/ Encode \/ Decode
             \/ StartSigned \/ ComputeSigned
WordsSpec == Idle /\ [][WordsNext \/ Respond]_computation

-----------------------------------------------------------------------------
(***************************************************************************)
(* A sequence of methods gives the exact integer, and one with wrapping    *)
(* methods in it the exact integer modulo 2^256; then the EVM, with the    *)
(* same instructions, has the same word.  It is a number of its class,     *)
(* whatever methods have made it, though int.__new__ checks nothing (the   *)
(* power of an int to a FixedUint, which is no number that is worked on,   *)
(* is the exception); and a method raises only if its exact result or its  *)
(* operand is none, or it divides by zero, so that no script fails on a    *)
(* valid input.                                                            *)
(***************************************************************************)
OfClass(x) == IF argv = "Uint" THEN x >= 0 ELSE x \in Word
NumbersExact ==
    /\ Running("number") =>
         /\ OfClass(locals.number)
         /\ locals.wrapped \/ locals.number = locals.exact
         /\ argv = "FixedUint" =>
              /\ locals.number = locals.exact % (MAX_VALUE + 1)
              /\ locals.number = locals.evm
    /\ Answered("number") =>
         /\ answer = OverflowError /\ ~ locals.wrapped =>
              \E x \in {locals.exact} \cup locals.operands : ~ OfClass(x)
         /\ answer = ZeroDivisionError =>
              0 \in locals.operands \/ locals.number = 0

Signed(x)  == IF 2 * x > MAX_VALUE THEN x - (MAX_VALUE + 1) ELSE x
Wrapped(i) == i % (MAX_VALUE + 1)
Abs(i)     == IF i < 0 THEN -i ELSE i
Quotient(i, j) == IF i * j < 0 THEN -(Abs(i) \div Abs(j)) ELSE Abs(i) \div Abs(j)
LowBytes(y, n) ==
    LET low == y % ToThe(Byte, n)
    IN  IF 2 * low >= ToThe(Byte, n) THEN low - ToThe(Byte, n) ELSE low

(***************************************************************************)
(* The EVM's signed operations, made of unsigned ones, are those of the    *)
(* integers that the words stand for in two's complement; and what the     *)
(* scripts encode, as signed words or as bytes, decodes to itself, unless  *)
(* it has been refused because it does not fit.                            *)
(***************************************************************************)
SignedWords ==
    /\ Answered("signed") =>
         LET x == argv[1]  i == Signed(x)
             y == argv[2]  j == Signed(y)
             z == argv[3]
         IN  /\ answer.sdiv = IF j = 0 THEN 0 ELSE Wrapped(Quotient(i, j))
             /\ answer.smod = IF j = 0 THEN 0 ELSE Wrapped(i - j * Quotient(i, j))
             /\ answer.slt  = IF i < j THEN 1 ELSE 0
             /\ answer.sgt  = IF i > j THEN 1 ELSE 0
             /\ answer.sar  = Wrapped(j \div ToThe(2, x))
             /\ answer.shiftLeft  = Wrapped(y * ToThe(2, x))
             /\ answer.signextend =
                   IF x < WordBytes THEN Wrapped(LowBytes(y, x + 1)) ELSE y
             /\ answer.byteAt =
                   IF x < WordBytes THEN y \div ToThe(Byte, WordBytes - 1 - x) % Byte ELSE 0
             /\ z # 0 => /\ answer.addMod = (x + y) % z
                         /\ answer.mulMod = (x * y) % z
    /\ Answered("coding") =>
         LET coding == argv[1]
             x      == argv[2]
         IN  \/ answer = x
             \/ coding \in {"be32", "padded"} /\ x > MAX_VALUE /\ answer = OverflowError
             \/ coding = "signed" /\ 2 * x \notin -(MAX_VALUE + 1) .. MAX_VALUE
=============================================================================
