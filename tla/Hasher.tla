------------------------------- MODULE Hasher -------------------------------
(* The hash of a prepared transaction the agent computes for itself          *)
(* (tx-verifier/src/hasher.rs).  Bytes are gathered in an accumulator and     *)
(* hashed; the hash function is ideal: the hash of a sequence is a token of   *)
(* its own.  A token is <<b>> for a byte or a whole integer, <<0, s>> for the *)
(* hash of s, and Fault for what makes the computation fail.  A dotted name   *)
(* is the sequence of its parts, a string the sequence of its bytes, an       *)
(* optional part a sequence of at most one.                                  *)
EXTENDS Integers, Sequences, SequencesExt, FiniteSets

CONSTANTS
    MaxNodeDepth,     \* MAX_NODE_DEPTH
    MaxValueDepth     \* MAX_VALUE_DEPTH

ASSUME HasherAssumption == {MaxNodeDepth, MaxValueDepth} \subseteq Nat \ {0}

Fault == <<-1>>
Failed(acc) == Contains(acc, Fault)
NotHex == 9           \* a byte that is no hexadecimal digit

\* Acc: the ways bytes are added, and what finish() makes of them.
Byte(b) == <<<<b>>>>
StrVal(s) == Byte(Len(s)) \o [i \in 1 .. Len(s) |-> <<s[i]>>]
HexBytes(s) == IF Contains(s, NotHex) THEN <<Fault>> ELSE StrVal(s)
HashOf(acc) == IF Failed(acc) THEN Fault ELSE <<0, acc>>

\* Something repeated: its count, then each.
Repeated(seq, Enc(_)) == Byte(Len(seq)) \o FlattenSeq([i \in 1 .. Len(seq) |-> Enc(seq[i])])
Optional(part, Enc(_)) == IF part = << >> THEN Byte(0) ELSE Byte(1) \o Enc(part[1])

\* string_set: the parties, sorted
StringSet(parties) == Repeated(SortSeq(parties, <), LAMBDA p : StrVal(<<p>>))

\* Mutant: the parts of the two names run into each other.
IdentifierUncounted(id) == StrVal(id.pkg) \o Repeated(id.module \o id.entity, StrVal)

\* encode_identifier
EncodeIdentifier(id) == StrVal(id.pkg) \o Repeated(id.module, StrVal) \o Repeated(id.entity, StrVal)

\* encode_value_at: a tag for each of the types, and what is inside one level deeper.
RECURSIVE EncodeValueAt(_, _)
EncodeValueAt(v, depth) ==
    LET In(w) == EncodeValueAt(w, depth + 1)
        Field(f) == (IF f.label = << >> THEN Byte(0) ELSE Byte(1) \o StrVal(f.label)) \o In(f.value)
        Entry(e) == StrVal(e.key) \o In(e.value)
        Pair(e) == In(e.key) \o In(e.value)
    IN  IF depth > MaxValueDepth THEN <<Fault>>
        ELSE CASE v.sum = "unset" -> <<Fault>>
               [] v.sum = "unit" -> Byte(0)
               [] v.sum = "int64" -> Byte(2) \o Byte(v.int)
               [] v.sum = "party" -> Byte(6) \o StrVal(v.str)
               [] v.sum = "text" -> Byte(7) \o StrVal(v.str)
               [] v.sum = "contractId" -> Byte(8) \o HexBytes(v.str)
               [] v.sum = "optional" -> Byte(9) \o Optional(v.part, In)
               [] v.sum = "list" -> Byte(10) \o Repeated(v.elements, In)
               [] v.sum = "textMap" -> Byte(11) \o Repeated(v.entries, Entry)
               [] v.sum = "record" -> Byte(12) \o Optional(v.id, EncodeIdentifier) \o Repeated(v.fields, Field)
               [] v.sum = "variant" -> Byte(13) \o Optional(v.id, EncodeIdentifier) \o StrVal(v.str) \o In(v.value)
               [] v.sum = "enum" -> Byte(14) \o Optional(v.id, EncodeIdentifier) \o StrVal(v.str)
               [] v.sum = "genMap" -> Byte(15) \o Repeated(v.entries, Pair)

EncodeValue(v) == EncodeValueAt(v, 1)

\* encode_create_node; a part that must be there and is not fails.
Required(part, Enc(_)) == IF part = << >> THEN <<Fault>> ELSE Enc(part[1])
EncodeCreateNode(n, seed) ==
    StrVal(n.lfVersion) \o Byte(0) \o Optional(seed, Byte) \o HexBytes(n.contractId)
        \o Required(n.template, EncodeIdentifier) \o Required(n.argument, EncodeValue)
        \o StringSet(n.signatories)

\* encode_fetch_node
EncodeFetchNode(n) ==
    StrVal(n.lfVersion) \o Byte(2) \o HexBytes(n.contractId)
        \o Required(n.template, EncodeIdentifier) \o StringSet(n.signatories)

\* encode_exercise_node, but for the children
EncodeExerciseNode(n, seed) ==
    StrVal(n.lfVersion) \o Byte(1) \o Required(seed, Byte) \o HexBytes(n.contractId)
        \o Required(n.template, EncodeIdentifier) \o StringSet(n.signatories)
        \o Required(n.argument, EncodeValue) \o Optional(n.result, EncodeValue)

\* hash_node and encode_node_ids walk the tree, keeping the ids already seen: a
\* node is referenced once.  The last node of an id is the one (build_nodes_dict),
\* the first seed of an id is the one (build_seed_map).
NodeOf(t, id) ==
    LET at == {i \in DOMAIN t.nodes : t.nodes[i].id = id} IN IF at = {} THEN << >> ELSE <<t.nodes[Max(at)]>>
SeedOf(t, id) ==
    LET at == {i \in DOMAIN t.seeds : t.seeds[i].id = id} IN IF at = {} THEN << >> ELSE <<t.seeds[Min(at)].seed>>

RECURSIVE EncodeNodeIds(_, _, _, _)
EncodeNodeIds(t, ids, seen, depth) ==
    LET HashNode(n, after) ==
          CASE n.kind = "create" -> [out |-> <<HashOf(Byte(1) \o EncodeCreateNode(n, SeedOf(t, n.id)))>>, seen |-> after]
            [] n.kind = "fetch" -> [out |-> <<HashOf(Byte(1) \o EncodeFetchNode(n))>>, seen |-> after]
            [] n.kind = "exercise" ->
                 LET below == EncodeNodeIds(t, n.children, after, depth + 1)
                 IN  [out |-> <<HashOf(Byte(1) \o EncodeExerciseNode(n, SeedOf(t, n.id)) \o below.out)>>,
                      seen |-> below.seen]
            [] n.kind = "rollback" ->
                 LET below == EncodeNodeIds(t, n.children, after, depth + 1)
                 IN  [out |-> <<HashOf(Byte(1) \o Byte(3) \o below.out)>>, seen |-> below.seen]
        Step(acc, id) ==
          IF Failed(acc.out) \/ id \in acc.seen \/ NodeOf(t, id) = << >>
          THEN [out |-> <<Fault>>, seen |-> acc.seen]
          ELSE LET one == HashNode(NodeOf(t, id)[1], acc.seen \cup {id})
               IN  [out |-> acc.out \o one.out, seen |-> one.seen]
    IN  IF depth > MaxNodeDepth /\ ids # << >> THEN [out |-> <<Fault>>, seen |-> seen]
        ELSE LET all == FoldLeft(Step, [out |-> << >>, seen |-> seen], ids)
             IN  [out |-> Repeated(all.out, LAMBDA h : <<h>>), seen |-> all.seen]

\* hash_transaction
HashTransaction(t) == HashOf(StrVal(t.version) \o EncodeNodeIds(t, t.roots, {}, 1).out)

\* hash_metadata: the latest record time is in the third scheme only.
HashMetadata(meta, v3) ==
    HashOf(StringSet(meta.actAs) \o StrVal(meta.commandId) \o Optional(meta.minTime, Byte)
             \o Optional(meta.maxTime, Byte)
             \o Repeated(meta.inputs, LAMBDA n : <<HashOf(Byte(1) \o EncodeCreateNode(n, << >>))>>)
             \o (IF v3 THEN Optional(meta.maxRecord, Byte) ELSE << >>))

\* compute_final_hash and compute_hash: the sentinel where a layer fails.
ComputeHash(p) == HashOf(Byte(2) \o <<HashTransaction(p.tx)>> \o <<HashMetadata(p.meta, p.v3)>>)

-----------------------------------------------------------------------------
\* What a prepared transaction is, apart from how its nodes are numbered and the
\* order parties are listed in: the reference the hash is held against.
RECURSIVE Tree(_, _)
Tree(t, ids) ==
    [i \in 1 .. Len(ids) |->
        LET n == NodeOf(t, ids[i])[1] IN
        IF n.kind = "rollback" THEN <<n.kind, Tree(t, n.children)>>
        ELSE <<n.kind, n.lfVersion, n.contractId, n.template, SortSeq(n.signatories, <),
               IF n.kind = "fetch" THEN << >> ELSE n.argument,
               IF n.kind = "fetch" THEN << >> ELSE SeedOf(t, n.id),
               IF n.kind = "exercise" THEN n.result ELSE << >>,
               IF n.kind = "exercise" THEN Tree(t, n.children) ELSE << >> >>]

Meaning(p) ==
    <<p.tx.version, Tree(p.tx, p.tx.roots), SortSeq(p.meta.actAs, <), p.meta.commandId, p.meta.minTime,
      p.meta.maxTime, [i \in 1 .. Len(p.meta.inputs) |-> [p.meta.inputs[i] EXCEPT !.id = 0]],
      IF p.v3 THEN p.meta.maxRecord ELSE << >> >>

=============================================================================
