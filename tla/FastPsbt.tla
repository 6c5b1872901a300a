------------------------------ MODULE FastPsbt ------------------------------
(***************************************************************************)
(* The PSBT parser of the bitcoin V-App (common/src/fastpsbt.rs) and the   *)
(* conversion of version 0 that feeds it (common/src/psbt/mod.rs). The raw *)
(* bytes are a sequence of pairs, [end |-> FALSE, type, data, len, v], and *)
(* map separators, [end |-> TRUE]; a cut between two of them stands for    *)
(* any truncation. Lookups are std's binary searches, step by step. Only   *)
(* success and failure of the parser are told apart: failure is <<>>.      *)
(***************************************************************************)
EXTENDS Integers, Sequences, FiniteSets, SequencesExt, FiniteSetsExt

Pair(type, data, len, v) == [end |-> FALSE, type |-> type, data |-> data, len |-> len, v |-> v]

End == [end |-> TRUE]

\* The order of byte strings.
DataLess(a, b) ==
  \/ IsStrictPrefix(a, b)
  \/ \E i \in 1 .. Min({Len(a), Len(b)}) : a[i] < b[i] /\ \A j \in 1 .. i - 1 : a[j] = b[j]

KeyLess(p, q) == p.type < q.type \/ (p.type = q.type /\ DataLess(p.data, q.data))

KeysDistinct(pairs) == \A i \in 1 .. Len(pairs) - 1 : pairs[i] # pairs[i+1]

\* No pair is below or equal to the one read before it.
KeysSorted(pairs) == \A i \in 1 .. Len(pairs) - 1 : KeyLess(pairs[i], pairs[i+1])

\* What the callbacks of the maps refuse: values of the wrong length, in the
\* fields that have no key data.
GlobalPairOk(p) ==
  p.data = <<>> =>
    /\ p.type # 0
    /\ p.type \in {2, 3, 251} => p.len = 4
    /\ p.type \in {4, 5, 6} => p.len = 1

InputPairOk(p) ==
  p.data = <<>> =>
    /\ p.type \in {3, 15, 16, 17, 18} => p.len = 4
    /\ p.type = 14 => p.len = 32

OutputPairOk(p) == p.data = <<>> /\ p.type = 3 => p.len = 8

PairOk(kind, p) ==
  CASE kind = "global" -> GlobalPairOk(p)
    [] kind = "input" -> InputPairOk(p)
    [] kind = "output" -> OutputPairOk(p)

\* ParsedMap::from_cursor, from position pos: the pairs up to the separator,
\* each checked as it is read, and the position behind it.
FromCursor(raw, pos, kind) ==
  LET ends == {i \in pos .. Len(raw) : raw[i].end}
      stop == Min(ends)
      pairs == SubSeq(raw, pos, stop - 1)
  IN IF ends = {} THEN <<>>
     ELSE IF KeysSorted(pairs) /\ \A i \in 1 .. Len(pairs) : PairOk(kind, pairs[i]) THEN <<[pairs |-> pairs, next |-> stop + 1]>>
     ELSE <<>>

\* The fields a callback picks out while the map is read: the last one wins.
Field(pairs, type) ==
  LET found == SelectSeq(pairs, LAMBDA p : p.type = type /\ p.data = <<>>)
  IN IF found = <<>> THEN <<>> ELSE <<Last(found).v>>

\* Read k maps with from_cursor from the end of the last one in acc.
ReadMaps(raw, acc, k, kind) ==
  FoldLeft(LAMBDA a, i :
             IF a = <<>> THEN <<>>
             ELSE LET m == FromCursor(raw, a[1].next, kind)
                  IN IF m = <<>> THEN <<>>
                     ELSE <<[maps |-> Append(a[1].maps, m[1].pairs), next |-> m[1].next]>>,
           acc, [i \in 1 .. k |-> i])

Parse(raw) ==
  LET global == ReadMaps(raw, <<[maps |-> <<>>, next |-> 1]>>, 1, "global")
      pairs == global[1].maps[1]
      present == \A type \in {2, 4, 5, 251} : Field(pairs, type) # <<>>
      inputs == ReadMaps(raw, global, Field(pairs, 4)[1], "input")
      outputs == ReadMaps(raw, inputs, Field(pairs, 5)[1], "output")
  IN IF global = <<>> THEN <<>>
     ELSE IF ~ present THEN <<>>
     ELSE IF Field(pairs, 251)[1] # 2 \/ outputs = <<>> THEN <<>>
     ELSE IF outputs[1].next <= Len(raw) THEN <<>>
     ELSE <<[global  |-> pairs,
             inputs  |-> SubSeq(outputs[1].maps, 2, 1 + Field(pairs, 4)[1]),
             outputs |-> SubSeq(outputs[1].maps, 2 + Field(pairs, 4)[1], Len(outputs[1].maps))]>>

-----------------------------------------------------------------------------
\* Lookups.

\* slice::binary_search_by: halve the range, keep the side of the key.
SearchBase(pairs, key) ==
  LET search[size \in 1 .. Len(pairs), base \in 0 .. Len(pairs) - 1] ==
        IF size = 1 THEN base
        ELSE LET half == size \div 2
             IN search[size - half, IF KeyLess(key, pairs[base + half + 1]) THEN base ELSE base + half]
  IN search[Len(pairs), 0] + 1

Get(pairs, type, data) ==
  LET key == Pair(type, data, 0, 0)
      i == SearchBase(pairs, key)
  IN IF pairs = <<>> THEN <<>>
     ELSE IF pairs[i].type = type /\ pairs[i].data = data THEN <<pairs[i].v>> ELSE <<>>

\* slice::partition_point: the number of pairs before the first of another type.
PartitionPoint(pairs, types) ==
  LET search[size \in 0 .. Len(pairs), base \in 0 .. Len(pairs)] ==
        IF size = 0 THEN base
        ELSE LET half == size \div 2
             IN IF pairs[base + half + 1].type \in types THEN search[size - half - 1, base + half + 1]
                ELSE search[half, base]
  IN search[Len(pairs), 0]

IterKeys(pairs, type) ==
  LET start == PartitionPoint(pairs, 0 .. type - 1)
      rest == SubSeq(pairs, start + 1, Len(pairs))
  IN SubSeq(rest, 1, PartitionPoint(rest, {type}))

\* The key data of the MuSig2 fields; leaf is <<>> or a leaf hash.
Musig2InputKey(participant, agg, leaf) == participant \o agg \o leaf

\* get_fixed_value: [ok, value], where value is <<>> if there is none.
GetFixedValue(pairs, type, participant, agg, leaf, len) ==
  LET data == Musig2InputKey(participant, agg, leaf)
      v == Get(pairs, type, data)
      sized == \A p \in Range(pairs) : p.type = type /\ p.data = data => p.len = len
  IN IF v = <<>> THEN [ok |-> TRUE, value |-> <<>>] ELSE [ok |-> sized, value |-> IF sized THEN v ELSE <<>>]

-----------------------------------------------------------------------------
\* psbt_v0_to_v2.

Transaction(psbt) ==
  [version |-> Field(psbt.global, 2)[1],
   locktime |-> Field(psbt.global, 3),
   inputs |-> [i \in DOMAIN psbt.inputs |->
                 <<Field(psbt.inputs[i], 14)[1], Field(psbt.inputs[i], 15)[1], Field(psbt.inputs[i], 16)[1]>>],
   outputs |-> [i \in DOMAIN psbt.outputs |-> <<Field(psbt.outputs[i], 3)[1], Field(psbt.outputs[i], 4)[1]>>]]

WriteMapSorted(pairs) == Append(SortSeq(pairs, KeyLess), End)

\* old = [global, inputs, outputs] are the maps of version 0, tx its unsigned
\* transaction, which is the value of the global field 0.
V0ToV2(old, tx) ==
  LET passed == SelectSeq(old.global, LAMBDA p : p.type # 0)
      global == passed \o <<Pair(251, <<>>, 4, 2), Pair(2, <<>>, 4, tx.version), Pair(3, <<>>, 4, tx.locktime),
                            Pair(4, <<>>, 1, Len(tx.inputs)), Pair(5, <<>>, 1, Len(tx.outputs))>>
      input(i) == old.inputs[i] \o <<Pair(14, <<>>, 32, tx.inputs[i][1]), Pair(15, <<>>, 4, tx.inputs[i][2]),
                                     Pair(16, <<>>, 4, tx.inputs[i][3])>>
      output(i) == old.outputs[i] \o <<Pair(3, <<>>, 8, tx.outputs[i][1]), Pair(4, <<>>, 9, tx.outputs[i][2])>>
  IN IF \/ \E p \in Range(old.global) : p.type \in {2, 3, 4, 5, 251}
        \/ \A p \in Range(old.global) : p.type # 0
     THEN <<>>
     ELSE WriteMapSorted(global)
          \o FlattenSeq([i \in 1 .. Len(tx.inputs) |-> WriteMapSorted(input(i))])
          \o FlattenSeq([i \in 1 .. Len(tx.outputs) |-> WriteMapSorted(output(i))])

-----------------------------------------------------------------------------
\* What the V-App relies on.

\* Every byte of an accepted PSBT is in one of its maps (fastpsbt.rs:410), and
\* in each map a lookup finds the pair with that key and no other: the binary
\* searches agree with a search through all pairs, and with the fields that
\* were picked out while the map was read (fastpsbt.rs:295, fastpsbt.rs:307).
\* A public nonce is found only under its own keys and leaf (fastpsbt.rs:990).
LookupsAreExact(raw) ==
  LET psbt == Parse(raw)[1]
      maps == <<psbt.global>> \o psbt.inputs \o psbt.outputs
      keys == {<<p.type, p.data>> : p \in {q \in Range(raw) : ~ q.end}} \cup {<<1, <<>>>>, <<27, <<9>>>>}
      exact(pairs) ==
        /\ \A k \in keys :
             /\ Get(pairs, k[1], k[2])
                  = LET found == SelectSeq(pairs, LAMBDA p : p.type = k[1] /\ p.data = k[2])
                    IN IF found = <<>> THEN <<>> ELSE <<found[1].v>>
             /\ IterKeys(pairs, k[1]) = SelectSeq(pairs, LAMBDA p : p.type = k[1])
             /\ k[2] = <<>> => Field(pairs, k[1]) = Get(pairs, k[1], <<>>)
        /\ \A participant, agg \in {<<1>>, <<2>>}, leaf \in {<<>>, <<3>>} :
             LET nonces == {p \in Range(pairs) : p.type = 27 /\ p.data = participant \o agg \o leaf}
                 answer == GetFixedValue(pairs, 27, participant, agg, leaf, 66)
             IN /\ answer.ok <=> \A p \in nonces : p.len = 66
                /\ answer.value # <<>> => \E p \in nonces : answer.value = <<p.v>>
  IN Parse(raw) # <<>> =>
       /\ raw = FlattenSeq([i \in 1 .. Len(maps) |-> Append(maps[i], End)])
       /\ \A i \in 1 .. Len(maps) : exact(maps[i])

\* A PSBT of version 0 is accepted after its conversion, describes the same
\* transaction, and its maps still hold every field they held
\* (psbt/mod.rs:194).
ConversionIsFaithful(old, tx) ==
  LET raw == V0ToV2(old, tx)
      psbt == Parse(raw)[1]
      kept(before, after) == Range(before) \subseteq Range(after)
  IN /\ Parse(raw) # <<>>
     /\ Transaction(psbt) = [tx EXCEPT !.locktime = <<@>>]
     /\ kept(SelectSeq(old.global, LAMBDA p : p.type # 0), psbt.global)
     /\ \A i \in DOMAIN old.inputs : kept(old.inputs[i], psbt.inputs[i])
     /\ \A i \in DOMAIN old.outputs : kept(old.outputs[i], psbt.outputs[i])
=============================================================================
