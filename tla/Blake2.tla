------------------------------- MODULE Blake2 -------------------------------
(***************************************************************************)
(* The two implementations of the BLAKE2 compression, blake2.py with its   *)
(* script blake2_f.py and blake2b_compress_any of ffi.c with its check in  *)
(* ffi.lean, run in lockstep on the same data.  A word has WORD_BYTES      *)
(* bytes of Octet values; the offsets 68, 196 and 212 and the length 213   *)
(* of the source are those of words of 8 bytes.                            *)
(***************************************************************************)
EXTENDS Computation, SequencesExt, Bits

CONSTANTS WORD_BYTES, Octet,
          W,                 \* the bits of a word
          R1, R2, R3, R4,    \* the distances of the rotations
          IV,                \* eight words
          BlakeData,         \* the data tried
          BlakeError

BlakeWord == 0 .. ToThe(2, W) - 1

ASSUME BlakeAssumption ==
    /\ W \in Nat
    /\ {R1, R2, R3, R4} \subseteq 0 .. W
    /\ WORD_BYTES \in Nat
    /\ Octet \in Nat \ {0}
    /\ ToThe(Octet, WORD_BYTES) = ToThe(2, W)
    /\ IV \in [1 .. 8 -> BlakeWord]
    /\ BlakeData \subseteq Seq(0 .. Octet - 1)

max_word  == ToThe(2, W)
mask_bits == max_word - 1
w_R1 == W - R1
w_R2 == W - R2
w_R3 == W - R3
w_R4 == W - R4

\* Both have the same table, with 10 rows that are gone through in turns.
sigma == <<
    <<0, 1, 2, 3, 4, 5, 6, 7, 8, 9, 10, 11, 12, 13, 14, 15>>,
    <<14, 10, 4, 8, 9, 15, 13, 6, 1, 12, 0, 2, 11, 7, 5, 3>>,
    <<11, 8, 12, 0, 5, 2, 15, 13, 10, 14, 3, 6, 7, 1, 9, 4>>,
    <<7, 9, 3, 1, 13, 12, 11, 14, 2, 6, 5, 10, 4, 0, 15, 8>>,
    <<9, 0, 5, 7, 2, 4, 10, 15, 14, 1, 11, 12, 6, 8, 3, 13>>,
    <<2, 12, 6, 10, 0, 11, 8, 3, 4, 13, 7, 5, 15, 14, 1, 9>>,
    <<12, 5, 1, 15, 14, 13, 4, 10, 0, 7, 6, 3, 9, 2, 8, 11>>,
    <<13, 11, 7, 14, 12, 1, 3, 9, 5, 0, 15, 4, 8, 6, 2, 10>>,
    <<6, 15, 14, 9, 11, 3, 0, 8, 12, 2, 13, 7, 1, 4, 10, 5>>,
    <<10, 2, 8, 4, 7, 6, 1, 5, 15, 11, 9, 14, 3, 12, 13, 0>> >>
sigma_len == Len(sigma)

big_endian(bytes)    == ValueOf(Octet, bytes)
little_endian(bytes) == big_endian(Reverse(bytes))
\* The values of a function on 1 .. n, as a list.
Listed(f) == <<>> \o f
length == 5 + 26 * WORD_BYTES

-----------------------------------------------------------------------------
(***************************************************************************)
(* blake2.py                                                               *)
(***************************************************************************)
spit_le_to_uint(data, start, num_words) ==
    Listed([k \in 1 .. num_words |->
        LET start_position == start + (k - 1) * WORD_BYTES
        IN  little_endian(SubSeq(data, start_position + 1, start_position + WORD_BYTES))])

get_blake2_parameters(data) ==
    [rounds |-> big_endian(SubSeq(data, 1, 4)),
     h |-> spit_le_to_uint(data, 4, 8),
     m |-> spit_le_to_uint(data, 4 + 8 * WORD_BYTES, 16),
     t |-> spit_le_to_uint(data, 4 + 24 * WORD_BYTES, 2),
     f |-> big_endian(SubSeq(data, 5 + 26 * WORD_BYTES, Len(data)))]

\* v[8:15] = IV sets eight words: the last is in its place and one too many.
initial_v(p) ==
    [p.h \o IV EXCEPT ![13] = Xor(p.t[1], IV[5]),
                      ![14] = Xor(p.t[2], IV[6]),
                      ![15] = IF p.f # 0 THEN Xor(@, mask_bits) ELSE @]

Written(v, a, b, c, d, va, vb, vc, vd) ==
    [v EXCEPT ![a] = va, ![b] = vb, ![c] = vc, ![d] = vd]
\* Half of G: its addition of word, its two rotations by distances r and s.
Rotated(x, r, w_r) == Xor(x \div ToThe(2, r), (x * ToThe(2, w_r)) % max_word)
Half(v, a, b, c, d, word, r, w_r, s, w_s) ==
    LET va == (v[a] + v[b] + word) % max_word
        vd == Rotated(Xor(v[d], va), r, w_r)
        vc == (v[c] + vd) % max_word
        vb == Rotated(Xor(v[b], vc), s, w_s)
    IN  Written(v, a, b, c, d, va, vb, vc, vd)
G(v, a, b, c, d, x, y) ==
    Half(Half(v, a, b, c, d, x, R1, w_R1, R2, w_R2), a, b, c, d, y, R3, w_R3, R4, w_R4)

\* The words of v that one round mixes, in their order: a, b, c and d of each G.
Mixes == << <<1, 5, 9, 13>>,  <<2, 6, 10, 14>>, <<3, 7, 11, 15>>, <<4, 8, 12, 16>>,
            <<1, 6, 11, 16>>, <<2, 7, 12, 13>>, <<3, 8, 9, 14>>,  <<4, 5, 10, 15>> >>
\* Mutant: the message words of the schedule's last row are used from there on.
compress_roundLast(v, m, r) ==
    LET s == sigma[(IF r < sigma_len THEN r ELSE sigma_len - 1) + 1]
        g(u, k) == G(u, Mixes[k][1], Mixes[k][2], Mixes[k][3], Mixes[k][4],
                     m[s[2 * k - 1] + 1], m[s[2 * k] + 1])
    IN  g(g(g(g(g(g(g(g(v, 1), 2), 3), 4), 5), 6), 7), 8)
compress_round(v, m, r) ==
    LET s == sigma[(r % sigma_len) + 1]
        g(u, k) == G(u, Mixes[k][1], Mixes[k][2], Mixes[k][3], Mixes[k][4],
                     m[s[2 * k - 1] + 1], m[s[2 * k] + 1])
    IN  g(g(g(g(g(g(g(g(v, 1), 2), 3), 4), 5), 6), 7), 8)

compress_result(h, v) == Listed([k \in 1 .. 8 |-> Xor(Xor(h[k], v[k]), v[k + 8])])

-----------------------------------------------------------------------------
(***************************************************************************)
(* ffi.c, whose words wrap by themselves                                   *)
(***************************************************************************)
rotr64(word, c) == Or(word \div ToThe(2, c), (word * ToThe(2, W - c)) % max_word)
\* Half of the macro.
HalfMacro(v, a, b, c, d, word, r, s) ==
    LET va == (v[a] + v[b] + word) % max_word
        vd == rotr64(Xor(v[d], va), r)
        vc == (v[c] + vd) % max_word
        vb == rotr64(Xor(v[b], vc), s)
    IN  Written(v, a, b, c, d, va, vb, vc, vd)
GMacro(v, a, b, c, d, e, f) ==
    HalfMacro(HalfMacro(v, a, b, c, d, e, R1, R2), a, b, c, d, f, R3, R4)

\* in moves along the input.
blake2compressb64(in) ==
    LET word(at) == little_endian(SubSeq(in, at + 1, at + WORD_BYTES))
    IN  [rounds |-> big_endian(SubSeq(in, 1, 4)),
         h |-> Listed([k \in 1 .. 8 |-> word(4 + (k - 1) * WORD_BYTES)]),
         m |-> Listed([k \in 1 .. 16 |-> word(4 + (7 + k) * WORD_BYTES)]),
         t |-> Listed([k \in 1 .. 2 |-> word(4 + (23 + k) * WORD_BYTES)]),
         f |-> in[4 + 26 * WORD_BYTES + 1]]

compress_any_start(p) ==
    LET v == p.h \o IV
    IN  [v EXCEPT ![13] = Xor(@, p.t[1]),
                  ![14] = Xor(@, p.t[2]),
                  ![15] = IF p.f # 0 THEN mask_bits - @ ELSE @]
compress_any_round(v, m, i) ==
    LET row == sigma[(i % 10) + 1]
        g(u, k) == GMacro(u, Mixes[k][1], Mixes[k][2], Mixes[k][3], Mixes[k][4],
                          m[row[2 * k - 1] + 1], m[row[2 * k] + 1])
    IN  g(g(g(g(g(g(g(g(v, 1), 2), 3), 4), 5), 6), 7), 8)
compress_any_result(h, v) ==
    Listed([k \in 1 .. 8 |-> Xor(h[k], Xor(v[k], v[k + 8]))])

-----------------------------------------------------------------------------
StartBlake2 == Idle /\ \E data \in BlakeData : Start("blake2", data, <<>>)

\* blake2_f.py and ffi.lean check the data before and after it is split up.
CheckBlakeData ==
    /\ Running("blake2")
    /\ locals = <<>>
    /\ LET python == get_blake2_parameters(argv)
           lean   == blake2compressb64(argv)
       IN  IF Len(argv) # length
             THEN Answer([python |-> BlakeError, lean |-> BlakeError])
           ELSE IF argv[length] \notin {0, 1}
             THEN Answer([python |-> IF python.f \notin {0, 1} THEN BlakeError ELSE <<>>,
                          lean   |-> BlakeError])
           ELSE Continue([r |-> 0,
                          python |-> python, v  |-> initial_v(python),
                          c |-> lean,        vc |-> compress_any_start(lean)])

Round ==
    /\ Running("blake2")
    /\ locals # <<>>
    /\ locals.r < locals.python.rounds
    /\ Continue([locals EXCEPT
          !.r  = @ + 1,
          !.v  = compress_round(@, locals.python.m, locals.r),
          !.vc = compress_any_round(@, locals.c.m, locals.r)])

PackResult ==
    /\ Running("blake2")
    /\ locals # <<>>
    /\ locals.r = locals.python.rounds
    /\ Answer([python |-> compress_result(locals.python.h, locals.v),
               lean   |-> compress_any_result(locals.c.h, locals.vc)])

Blake2Next == StartBlake2 \/ CheckBlakeData \/ Round \/ PackResult
BlakeSpec  == Idle /\ [][Blake2Next \/ Respond]_computation

-----------------------------------------------------------------------------
(***************************************************************************)
(* The code of the helper and that of the library agree word by word after *)
(* every round, and in what they refuse and answer.                        *)
(***************************************************************************)
ImplementationsAgree ==
    /\ Running("blake2") /\ locals # <<>> =>
         /\ locals.python = locals.c
         /\ locals.v = locals.vc
    /\ Answered("blake2") => answer.python = answer.lean
=============================================================================
