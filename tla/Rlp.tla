-------------------------------- MODULE Rlp ---------------------------------
(***************************************************************************)
(* The two RLP encoders, rlp.py of the trie scripts and RLP of Wheels.lean,*)
(* and the decoder of Wheels.lean.  An item is a record of its kind and    *)
(* its contents: bytes (or a string, which is its bytes), a natural number,*)
(* a truth value, a list of items, a dataclass with items for its fields,  *)
(* or anything else.  Lean's items are bytes and lists only.               *)
(***************************************************************************)
EXTENDS Computation, SequencesExt, Bits

CONSTANTS Items,            \* the items that are encoded
          Undecodable       \* the none of the decoder

BytesItem(b)     == [bytes |-> b]
UintItem(n)      == [uint |-> n]
BoolItem(b)      == [bool |-> b]
ListItem(s)      == [list |-> s]
DataclassItem(s) == [dataclass |-> s]
OtherItem        == [other |-> 0]
Is(kind, item) == kind \in DOMAIN item

-----------------------------------------------------------------------------
(***************************************************************************)
(* rlp.py                                                                  *)
(***************************************************************************)
encode_bytes(raw_bytes) ==
    LET length == Len(raw_bytes)
    IN  IF length = 1 /\ raw_bytes[1] < 128 THEN raw_bytes
        ELSE IF length < 56 THEN <<128 + length>> \o raw_bytes
        ELSE <<183 + Len(BE(length))>> \o BE(length) \o raw_bytes

\* Mutant: a list of 56 bytes gets the short form.
encode_sequenceShort(joined_encodings) ==
    LET length == Len(joined_encodings)
    IN  IF length <= 56 THEN <<192 + length>> \o joined_encodings
        ELSE <<247 + Len(BE(length))>> \o BE(length) \o joined_encodings
encode_sequence(joined_encodings) ==
    LET length == Len(joined_encodings)
    IN  IF length < 56 THEN <<192 + length>> \o joined_encodings
        ELSE <<247 + Len(BE(length))>> \o BE(length) \o joined_encodings

(***************************************************************************)
(* An item of a sequence that cannot be encoded fails the whole sequence.  *)
(* is_dataclass is imported nowhere, so every item that is none of the     *)
(* first kinds ends at the name: a dataclass is not encoded, and the       *)
(* RLPEncodingError of the last branch is not reached.                     *)
(***************************************************************************)
RECURSIVE encode(_)
encode(raw_data) ==
    CASE Is("bytes", raw_data) -> encode_bytes(raw_data.bytes)
      [] Is("uint", raw_data)  -> encode_bytes(BE(raw_data.uint))
      [] Is("bool", raw_data)  -> encode_bytes(IF raw_data.bool THEN <<1>> ELSE <<>>)
      [] Is("list", raw_data)  ->
           LET encodings == [k \in DOMAIN raw_data.list |-> encode(raw_data.list[k])]
           IN  IF NameError \in Range(encodings) THEN NameError
               ELSE encode_sequence(FlattenSeq(encodings))
      [] OTHER -> NameError

-----------------------------------------------------------------------------
(***************************************************************************)
(* Wheels.lean                                                             *)
(***************************************************************************)
R_b(x) ==
    IF Len(x) = 1 /\ x[1] < 128 THEN x
    ELSE IF Len(x) < 56 THEN <<128 + Len(x)>> \o x
    ELSE <<183 + Len(BE(Len(x)))>> \o BE(Len(x)) \o x

RECURSIVE RLP(_)
RLP(t) ==
    IF Is("bytes", t) THEN R_b(t.bytes)
    ELSE LET s_x == FlattenSeq([k \in DOMAIN t.list |-> RLP(t.list[k])])
         IN  IF Len(s_x) < 56 THEN <<192 + Len(s_x)>> \o s_x
             ELSE <<247 + Len(BE(Len(s_x)))>> \o BE(Len(s_x)) \o s_x

Monus(m, n) == IF m < n THEN 0 ELSE m - n

(***************************************************************************)
(* How the first item of rlp is laid out: where its contents start, how    *)
(* long they are, and whether it is a list.  lengthRLP and oneStepRLP      *)
(* branch alike; what fails a branch falls through to those of the lists.  *)
(***************************************************************************)
Layout(kind, start, length) == [kind |-> kind, start |-> start, length |-> length]
FirstItem(rlp) ==
    LET r == rlp[1]
        strLen       == Monus(r, 128)
        lenOfStrLen  == Monus(r, 183)
        listLen      == Monus(r, 192)
        lenOfListLen == Monus(r, 247)
        longLen      == fromByteArrayBigEndian(Slice(rlp, 1, lenOfListLen))
    IN  IF rlp = <<>> THEN Undecodable
        ELSE IF r <= 127 THEN Layout("bytes", 0, 1)
        ELSE IF r <= 183 /\ Len(rlp) > strLen THEN Layout("bytes", 1, strLen)
        ELSE IF r <= 191 /\ Len(rlp) > lenOfStrLen + strLen
          THEN Layout("bytes", 1 + lenOfStrLen,
                      fromByteArrayBigEndian(Slice(rlp, 1, lenOfStrLen)))
        ELSE IF r <= 247 /\ Len(rlp) > listLen THEN Layout("list", 1, listLen)
        ELSE IF Len(rlp) > lenOfListLen + longLen
          THEN Layout("list", 1 + lenOfListLen, longLen)
        ELSE Undecodable

RECURSIVE separateListRLP(_)
separateListRLP(rlp) ==
    IF rlp = <<>> THEN <<>>
    ELSE LET first == FirstItem(rlp)
             headLen == first.start + first.length
             tail == separateListRLP(Slice(rlp, headLen, Len(rlp)))
         IN  IF first = Undecodable \/ tail = Undecodable THEN Undecodable
             ELSE <<Slice(rlp, 0, headLen)>> \o tail

RECURSIVE deserializeRLP(_)
deserializeRLP(rlp) ==
    LET first    == FirstItem(rlp)
        contents == Slice(rlp, first.start, first.length)
        parts    == separateListRLP(contents)
        items    == [k \in DOMAIN parts |-> deserializeRLP(parts[k])]
    IN  IF first = Undecodable THEN Undecodable
        ELSE IF first.kind = "bytes" THEN BytesItem(contents)
        ELSE IF parts = Undecodable \/ Undecodable \in Range(items) THEN Undecodable
        ELSE ListItem(items)

-----------------------------------------------------------------------------
StartRlp == Idle /\ \E item \in Items : Start("rlp", item, <<>>)

EncodeItem ==
    /\ Running("rlp")
    /\ locals = <<>>
    /\ LET code == encode(argv)
       IN  IF code = NameError THEN Answer(code) ELSE Continue(code)

DecodeItem ==
    /\ Running("rlp")
    /\ locals # <<>>
    /\ Answer(deserializeRLP(locals))

RlpNext == StartRlp \/ EncodeItem \/ DecodeItem

-----------------------------------------------------------------------------
\* Every part of the item is of a kind that is encoded.
RECURSIVE Encodable(_)
Encodable(item) ==
    \/ \E kind \in {"bytes", "uint", "bool"} : Is(kind, item)
    \/ Is("list", item) /\ \A k \in DOMAIN item.list : Encodable(item.list[k])
\* The item as Lean has it.
RECURSIVE Plain(_)
Plain(item) ==
    CASE Is("uint", item) -> BytesItem(BE(item.uint))
      [] Is("bool", item) -> BytesItem(IF item.bool THEN <<1>> ELSE <<>>)
      [] Is("list", item) -> ListItem([k \in DOMAIN item.list |-> Plain(item.list[k])])
      [] OTHER -> item

(***************************************************************************)
(* Python and Lean encode an item to the same bytes: roots are hashes of   *)
(* what Python encodes, and transactions and blocks of what Lean encodes.  *)
(* The decoder, which finds the end of an item from its first bytes, has   *)
(* the item back from them, however deep it lies.  An item fails exactly   *)
(* if some part of it, at any depth, is of a kind that is not encoded; it  *)
(* is never encoded without that part.                                     *)
(***************************************************************************)
EncodingInverts ==
    /\ Running("rlp") /\ locals # <<>> => Encodable(argv) /\ locals = RLP(Plain(argv))
    /\ Answered("rlp") =>
         answer = IF Encodable(argv) THEN Plain(argv) ELSE NameError
=============================================================================
