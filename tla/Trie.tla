-------------------------------- MODULE Trie --------------------------------
(***************************************************************************)
(* The script trie_root.py with trie.py: the root of the Merkle Patricia   *)
(* trie of a list of keys and values.  A dict is the sequence of its items *)
(* in the order they were inserted, which patricialize goes through.  The  *)
(* hash of bytes is 32 bytes that tell what was hashed.                    *)
(***************************************************************************)
EXTENDS Rlp

CONSTANTS TrieKeys,     \* the keys, sequences of bytes
          TrieValues,   \* the values, sequences of bytes
          MaxEntries,   \* a bound on the entries of one list
          NoValue       \* None, the default of the script's trie

keccak256(bytes) == [k \in 1 .. 32 |-> IF k = 1 THEN <<bytes>> ELSE 0]

-----------------------------------------------------------------------------
Keys(data) == {data[k][1] : k \in DOMAIN data}
Lookup(data, key) == data[CHOOSE k \in DOMAIN data : data[k][1] = key][2]

\* Setting a key again leaves it at its place in the dict.
trie_set(data, key, value) ==
    IF value = NoValue THEN SelectSeq(data, LAMBDA item : item[1] # key)
    ELSE IF key \in Keys(data)
      THEN [k \in DOMAIN data |-> IF data[k][1] = key THEN <<key, value>> ELSE data[k]]
      ELSE Append(data, <<key, value>>)

\* Mutant: the parity flag is dropped.
nibble_list_to_compactEven(x, is_leaf) ==
    LET flag == IF is_leaf THEN 2 ELSE 0
        odd  == Len(x) % 2
    IN  <<IF odd = 0 THEN 16 * flag ELSE 16 * flag + x[1]>>
          \o [k \in 1 .. Len(x) \div 2 |-> 16 * x[odd + 2 * k - 1] + x[odd + 2 * k]]
nibble_list_to_compact(x, is_leaf) ==
    LET flag == IF is_leaf THEN 2 ELSE 0
        odd  == Len(x) % 2
        pair(k) == 16 * x[odd + 2 * k - 1] + x[odd + 2 * k]
    IN  <<IF odd = 0 THEN 16 * flag ELSE 16 * (flag + 1) + x[1]>>
          \o [k \in 1 .. Len(x) \div 2 |-> pair(k)]

bytes_to_nibble_list(bytes) ==
    [k \in 1 .. 2 * Len(bytes) |->
       IF k % 2 = 1 THEN bytes[(k + 1) \div 2] \div 16 ELSE bytes[k \div 2] % 16]

common_prefix_length(a, b) == Len(LongestCommonPrefix({a, b}))
From(key, level) == SubSeq(key, level + 1, Len(key))

\* A node whose encoding is short stands in its parent as it is.
encode_internal_node(unencoded) ==
    LET encoded == encode(unencoded)
    IN  IF Len(encoded) < 32 THEN unencoded ELSE BytesItem(keccak256(encoded))

Leaf(rest_of_key, value) ==
    ListItem(<<BytesItem(nibble_list_to_compact(rest_of_key, TRUE)), BytesItem(value)>>)
Extension(key_segment, subnode) ==
    ListItem(<<BytesItem(nibble_list_to_compact(key_segment, FALSE)), subnode>>)

(***************************************************************************)
(* The node of the items of obj below level, or the exception of its       *)
(* construction: a key that ends in a branch is looked up among the names  *)
(* Account and Receipt, which trie.py does not define.                     *)
(***************************************************************************)
RECURSIVE patricialize(_, _)
patricialize(obj, level) ==
    LET key == obj[1][1]
        substring == From(key, level)
        prefix_length ==
            Min({common_prefix_length(substring, From(k, level)) : k \in Keys(obj)})
        below == patricialize(obj, level + prefix_length)
        branch(nibble) ==
            patricialize(SelectSeq(obj, LAMBDA item : item[1][level + 1] = nibble),
                         level + 1)
        branches == [k \in 1 .. 16 |-> branch(k - 1)]
    IN  IF obj = <<>> THEN BytesItem(<<>>)
        ELSE IF Len(obj) = 1 THEN Leaf(substring, obj[1][2])
        ELSE IF prefix_length > 0
          THEN IF below = NameError THEN NameError
               ELSE Extension(SubSeq(substring, 1, prefix_length),
                              encode_internal_node(below))
        ELSE IF \E k \in Keys(obj) : Len(k) = level THEN NameError
        ELSE IF \E k \in 1 .. 16 : branches[k] = NameError THEN NameError
        ELSE ListItem(Append([k \in 1 .. 16 |-> encode_internal_node(branches[k])],
                             BytesItem(<<>>)))

_prepare_trie(data) ==
    IF \E k \in DOMAIN data : data[k][2] = <<>> THEN AssertionError
    ELSE [k \in DOMAIN data |-> <<bytes_to_nibble_list(data[k][1]), data[k][2]>>]

root(data) ==
    LET obj       == _prepare_trie(data)
        node      == patricialize(obj, 0)
        root_node == encode_internal_node(node)
    IN  IF obj = AssertionError THEN AssertionError
        ELSE IF node = NameError THEN NameError
        ELSE IF Len(encode(root_node)) < 32 THEN keccak256(encode(root_node))
        ELSE root_node.bytes

-----------------------------------------------------------------------------
\* trie_root.py sets one entry after another, then makes the root.
StartTrie == Idle /\ Start("trie", <<>>, <<>>)

ReadEntry ==
    /\ Running("trie")
    /\ Len(argv) < MaxEntries
    /\ \E key \in TrieKeys, value \in TrieValues :
         /\ argv' = Append(argv, <<key, value>>)
         /\ locals' = trie_set(locals, key, value)
    /\ UNCHANGED <<task, answer>>

MakeRoot == Running("trie") /\ Answer(root(locals))

TrieNext == StartTrie \/ ReadEntry \/ MakeRoot

-----------------------------------------------------------------------------
(***************************************************************************)
(* How a value is found from a root, by whoever has the nodes: what a hash *)
(* stands for is decoded, and the path of a leaf or extension is expanded. *)
(***************************************************************************)
Node(ref) ==
    IF Is("bytes", ref) /\ Len(ref.bytes) = 32 THEN deserializeRLP(ref.bytes[1][1])
    ELSE ref
Path(compact) ==
    (IF (compact[1] \div 16) % 2 = 1 THEN <<compact[1] % 16>> ELSE <<>>)
      \o bytes_to_nibble_list(Tail(compact))

RECURSIVE Find(_, _)
Find(node, nibbles) ==
    CASE node = BytesItem(<<>>) -> <<>>
      [] Is("list", node) /\ Len(node.list) = 17 ->
           IF nibbles = <<>> THEN node.list[17].bytes
           ELSE Find(Node(node.list[nibbles[1] + 1]), Tail(nibbles))
      [] OTHER ->
           LET path == Path(node.list[1].bytes)
           IN  IF node.list[1].bytes[1] >= 32
                 THEN IF path = nibbles THEN node.list[2].bytes ELSE <<>>
                 ELSE IF IsPrefix(path, nibbles)
                   THEN Find(Node(node.list[2]), From(nibbles, Len(path)))
                   ELSE <<>>

(***************************************************************************)
(* The root commits to the entries: from the root each key has the value   *)
(* that was set for it last, and a key that was not set has none, so that  *)
(* two lists with the same root have the same entries; and lists with the  *)
(* same entries have the same root, whatever the order of the dict they    *)
(* are gone through in.  There is none only of entries with an empty       *)
(* value, or with a key that is the beginning of another one: the keys of  *)
(* the callers, hashes or encoded indices, never are.                      *)
(***************************************************************************)
RootCommits ==
    Answered("trie") =>
        /\ answer \notin Exceptions => \A key \in TrieKeys :
             Find(Node(BytesItem(answer)), bytes_to_nibble_list(key)) =
                 IF key \in Keys(locals) THEN Lookup(locals, key) ELSE <<>>
        /\ answer = root(SetToSeq(ToSet(locals)))
        /\ answer = AssertionError <=> \E k \in DOMAIN locals : locals[k][2] = <<>>
        /\ answer = NameError =>
             \E key, longer \in Keys(locals) : key # longer /\ IsPrefix(key, longer)
=============================================================================
