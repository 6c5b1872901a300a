------------------------------- MODULE Bip388 -------------------------------
(***************************************************************************)
(* Wallet policies: the parser of descriptor templates, their two printers *)
(* (Display and to_descriptor), the iterators over their key placeholders  *)
(* and the two encodings of a policy.  A text is a sequence of tokens: a   *)
(* fragment name with its "(", a wrapper letter, a digit, a hash in        *)
(* hexadecimal or punctuation.                                             *)
(***************************************************************************)
EXTENDS SequencesExt, FiniteSetsExt, Integers

CONSTANTS
  HardenedIndex,   \* HARDENED_INDEX, scaled down from 2^31
  MaxNumber,       \* the largest u32 of the model; no text of it has more than 9 digits
  MaxParseDepth, MaxKeysMulti, MaxKeysMultiA,
  MaxTemplateLen, MaxKeyCount, MaxPathLen

MaxOlderAfter == MaxNumber - 1

Tok(t, s, n) == [t |-> t, s |-> s, n |-> n]
Open(name) == Tok("open", name, 0)
Letter(c) == Tok("letter", c, 0)
Digit(d) == Tok("digit", "", d)
Hex(len, v) == Tok(len, "", v)
Mark(s) == Tok("mark", s, 0)

Good(rest, val) == [ok |-> TRUE, err |-> "", rest |-> rest, val |-> val]
Bad(err) == [ok |-> FALSE, err |-> err, rest |-> <<>>, val |-> <<>>]

\* A template: its fragment, number (threshold, lock or hash), keys and
\* sub-templates.  The tree of a "tr" is its only sub-template, a branch of
\* it is "{}".
Fragment(f, num, keys, subs) == [f |-> f, num |-> num, keys |-> keys, subs |-> subs]
Plain(i, n1, n2) == [musig |-> FALSE, idx |-> <<i>>, num1 |-> n1, num2 |-> n2]
MusigOf(idx, n1, n2) == [musig |-> TRUE, idx |-> idx, num1 |-> n1, num2 |-> n2]

Wrappers == {"a", "s", "c", "t", "d", "v", "j", "n", "l", "u"}
KeyFragments == {"pkh", "wpkh", "pk", "pk_k", "pk_h"}
MultiFragments == {"multi", "sortedmulti", "multi_a", "sortedmulti_a"}
LockFragments == {"older", "after"}
HashText == [sha256 |-> "64 hex", hash256 |-> "64 hex", ripemd160 |-> "40 hex", hash160 |-> "40 hex"]
Arity == [sh |-> 1, wsh |-> 1, andor |-> 3, and_v |-> 2, and_b |-> 2, and_n |-> 2,
          or_b |-> 2, or_c |-> 2, or_d |-> 2, or_i |-> 2]

is_wrapper(t) == t.f \in Wrappers

-----------------------------------------------------------------------------
\* The parser.

starts_with(in, s) == in # <<>> /\ Head(in) = Mark(s)

DigitRun(in) == LET stops == {i \in DOMAIN in : in[i].t # "digit"}
                IN IF stops = {} THEN Len(in) ELSE Min(stops) - 1

parse_number_up_to(in, max) ==
  LET end == DigitRun(in)
      num == FoldLeft(LAMBDA acc, tok : 10 * acc + tok.n, 0, SubSeq(in, 1, end))
  IN IF end = 0 THEN Bad("InvalidSyntax")
     ELSE IF (in[1].n = 0 /\ end > 1) \/ end > 9 \/ num > max THEN Bad("NumberOutOfRange")
     ELSE Good(SubSeq(in, end + 1, Len(in)), num)

parse_derivation_step_number(in) ==
  LET r == parse_number_up_to(in, HardenedIndex - 1)
  IN IF r.ok /\ starts_with(r.rest, "'") THEN Good(Tail(r.rest), r.val + HardenedIndex) ELSE r

parse_derivation_suffix(in) ==
  IF starts_with(in, "/**") THEN Good(Tail(in), <<0, 1>>)
  ELSE IF ~starts_with(in, "/<") THEN Bad("InvalidSyntax")
  ELSE LET one == parse_derivation_step_number(Tail(in))
           two == IF starts_with(one.rest, ";") THEN parse_derivation_step_number(Tail(one.rest))
                                                ELSE Bad("InvalidSyntax")
       IN IF ~one.ok THEN one
          ELSE IF ~two.ok THEN two
          ELSE IF ~starts_with(two.rest, ">/*") THEN Bad("InvalidSyntax")
          ELSE Good(Tail(two.rest), <<one.val, two.val>>)

RECURSIVE MusigIndices(_, _)
MusigIndices(in, indices) ==
  LET r == IF starts_with(in, "@") THEN parse_number_up_to(Tail(in), MaxNumber) ELSE Bad("InvalidSyntax")
  IN IF ~r.ok THEN r
     ELSE IF r.val \in ToSet(indices) THEN Bad("InvalidKey")
     ELSE IF starts_with(r.rest, ",") THEN MusigIndices(Tail(r.rest), Append(indices, r.val))
     ELSE Good(r.rest, Append(indices, r.val))

parse_musig_key_expression(in) ==
  LET r == MusigIndices(Tail(in), <<>>)
      suffix == parse_derivation_suffix(Tail(r.rest))
  IN IF ~r.ok THEN r
     ELSE IF Len(r.val) < 2 THEN Bad("TooFewKeyExpressions")
     ELSE IF ~starts_with(r.rest, ")") THEN Bad("InvalidSyntax")
     ELSE IF ~suffix.ok THEN suffix
     ELSE Good(suffix.rest, MusigOf(r.val, suffix.val[1], suffix.val[2]))

parse_key_expression(in, ctx) ==
  IF in # <<>> /\ Head(in) = Open("musig")
  THEN IF ctx # "Taproot" THEN Bad("InvalidScriptContext") ELSE parse_musig_key_expression(in)
  ELSE IF ~starts_with(in, "@") THEN Bad("InvalidSyntax")
  ELSE LET r == parse_number_up_to(Tail(in), MaxNumber)
           suffix == parse_derivation_suffix(r.rest)
       IN IF ~r.ok THEN r ELSE IF ~suffix.ok THEN suffix
          ELSE Good(suffix.rest, Plain(r.val, suffix.val[1], suffix.val[2]))

\* Closes a fragment whose arguments have been read.
Close(r, t) ==
  IF ~r.ok THEN r ELSE IF ~starts_with(r.rest, ")") THEN Bad("InvalidSyntax") ELSE Good(Tail(r.rest), t)

parse_kp_fragment(in, name, ctx) ==
  LET r == parse_key_expression(in, ctx) IN Close(r, Fragment(name, 0, <<r.val>>, <<>>))

parse_num_fragment(in, name, max) ==
  LET r == parse_number_up_to(in, max) IN Close(r, Fragment(name, r.val, <<>>, <<>>))

parse_hex_fragment(in, name) ==
  IF in = <<>> \/ Head(in).t # HashText[name] THEN Bad("InvalidHex")
  ELSE Close(Good(Tail(in), 0), Fragment(name, Head(in).n, <<>>, <<>>))

RECURSIVE ThresholdKeys(_, _, _, _)
ThresholdKeys(in, keys, ctx, max_keys) ==
  IF ~starts_with(in, ",") THEN Good(in, keys)
  ELSE IF Len(keys) >= max_keys THEN Bad("TooManyKeys")
  ELSE LET r == parse_key_expression(Tail(in), ctx)
       IN IF r.ok THEN ThresholdKeys(r.rest, Append(keys, r.val), ctx, max_keys)
          ELSE IF r.err = "InvalidScriptContext" THEN r ELSE Good(in, keys)

parse_threshold_kp_fragment(in, name, ctx) ==
  LET k == parse_number_up_to(in, MaxNumber)
      r == ThresholdKeys(k.rest, <<>>, ctx,
                         IF name \in {"multi_a", "sortedmulti_a"} THEN MaxKeysMultiA ELSE MaxKeysMulti)
  IN IF ~k.ok THEN k
     ELSE IF ~r.ok THEN r
     ELSE IF Len(r.val) < 2 THEN Bad("TooFewKeyExpressions")
     ELSE IF k.val = 0 \/ k.val > Len(r.val) THEN Bad("InvalidMultisigQuorum")
     ELSE Close(r, Fragment(name, k.val, r.val, <<>>))

Allowed(name, ctx) ==
  /\ name \in {"sh", "tr"} => ctx = "TopLevel"
  /\ name \in {"wpkh", "wsh"} => ctx \in {"TopLevel", "Legacy"}

InnerContext(name, ctx) ==
  CASE name = "sh" -> "Legacy"
    [] name = "wsh" /\ ctx = "TopLevel" -> "Segwit"
    [] name = "wsh" /\ ctx = "Legacy" -> "WrappedSegwit"
    [] OTHER -> ctx

RECURSIVE parse_descriptor(_, _, _), parse_inner_descriptor(_, _, _), parse_n_subscripts(_, _, _, _, _),
          parse_thresh(_, _, _), ThreshScripts(_, _, _, _), parse_tap_tree(_, _)

parse_n_subscripts(in, n, scripts, ctx, depth) ==
  LET r == parse_descriptor(in, ctx, depth)
      all == Append(scripts, r.val)
  IN IF ~r.ok THEN r
     ELSE IF Len(all) = n THEN Close(r, all)
     ELSE IF ~starts_with(r.rest, ",") THEN Bad("InvalidSyntax")
     ELSE parse_n_subscripts(Tail(r.rest), n, all, ctx, depth)

ThreshScripts(in, scripts, ctx, depth) ==
  IF ~starts_with(in, ",") THEN Good(in, scripts)
  ELSE LET r == parse_descriptor(Tail(in), ctx, depth)
       IN IF r.ok THEN ThreshScripts(r.rest, Append(scripts, r.val), ctx, depth)
          ELSE IF r.err = "NestingTooDeep" THEN r ELSE Good(in, scripts)

parse_thresh(in, ctx, depth) ==
  LET k == parse_number_up_to(in, MaxNumber)
      first == IF starts_with(k.rest, ",") THEN parse_descriptor(Tail(k.rest), ctx, depth) ELSE Bad("InvalidSyntax")
      r == ThreshScripts(first.rest, <<first.val>>, ctx, depth)
  IN IF ~k.ok THEN k
     ELSE IF ~first.ok THEN first
     ELSE IF ~r.ok THEN r
     ELSE IF k.val = 0 THEN Bad("InvalidMultisigQuorum")
     ELSE IF k.val > Len(r.val) THEN Bad("ThreshExceedsScripts")
     ELSE Close(r, Fragment("thresh", k.val, <<>>, r.val))

parse_tap_tree(in, depth) ==
  IF depth >= MaxParseDepth THEN Bad("NestingTooDeep")
  ELSE IF ~starts_with(in, "{") THEN parse_descriptor(in, "Taproot", depth + 1)
  ELSE LET left == parse_tap_tree(Tail(in), depth + 1)
           right == IF starts_with(left.rest, ",") THEN parse_tap_tree(Tail(left.rest), depth + 1)
                                                   ELSE Bad("InvalidSyntax")
       IN IF ~left.ok THEN left
          ELSE IF ~right.ok THEN right
          ELSE IF ~starts_with(right.rest, "}") THEN Bad("InvalidSyntax")
          ELSE Good(Tail(right.rest), Fragment("{}", 0, <<>>, <<left.val, right.val>>))

parse_tr(in, depth) ==
  LET key == parse_key_expression(in, "Taproot")
      tree == parse_tap_tree(Tail(key.rest), depth)
  IN IF key.ok /\ starts_with(key.rest, ",")
     THEN Close(tree, Fragment("tr", 0, <<key.val>>, <<tree.val>>))
     ELSE Close(key, Fragment("tr", 0, <<key.val>>, <<>>))

parse_inner_descriptor(in, ctx, depth) ==
  LET name == Head(in).s
      args == Tail(in)
      subs == parse_n_subscripts(args, Arity[name], <<>>, InnerContext(name, ctx), depth)
  IN CASE in = <<>> -> Bad("UnrecognizedFragment")
       [] in # <<>> /\ Head(in) \in {Digit(0), Digit(1)} ->
            Good(args, Fragment(IF Head(in).n = 0 THEN "0" ELSE "1", 0, <<>>, <<>>))
       [] in # <<>> /\ Head(in).t = "open" /\ ~Allowed(name, ctx) -> Bad("InvalidScriptContext")
       [] in # <<>> /\ Head(in).t = "open" /\ Allowed(name, ctx) ->
            (CASE name \in MultiFragments -> parse_threshold_kp_fragment(args, name, ctx)
               [] name = "thresh" -> parse_thresh(args, ctx, depth)
               [] name \in KeyFragments -> parse_kp_fragment(args, name, ctx)
               [] name = "tr" -> parse_tr(args, depth)
               [] name \in LockFragments -> parse_num_fragment(args, name, MaxOlderAfter)
               [] name \in DOMAIN HashText -> parse_hex_fragment(args, name)
               [] name \in DOMAIN Arity ->
                    IF subs.ok THEN Good(subs.rest, Fragment(name, 0, <<>>, subs.val)) ELSE subs
               [] OTHER -> Bad("UnrecognizedFragment"))
       [] OTHER -> Bad("UnrecognizedFragment")

\* A run of letters is a wrapper prefix when a colon follows it.
parse_descriptor(in, ctx, depth) ==
  LET stops == {i \in DOMAIN in : in[i].t # "letter"}
      end == IF stops = {} THEN Len(in) ELSE Min(stops) - 1
      wrapped == end > 0 /\ starts_with(SubSeq(in, end + 1, Len(in)), ":")
      letters == IF wrapped THEN SubSeq(in, 1, end) ELSE <<>>
      r == parse_inner_descriptor(IF wrapped THEN SubSeq(in, end + 2, Len(in)) ELSE in, ctx, depth + 1)
  IN IF depth >= MaxParseDepth THEN Bad("NestingTooDeep")
     ELSE IF ~r.ok THEN r
     ELSE IF \E c \in ToSet(letters) : c.s \notin Wrappers THEN Bad("InvalidSyntax")
     ELSE Good(r.rest, FoldRight(LAMBDA c, t : Fragment(c.s, 0, <<>>, <<t>>), letters, r.val))

parse_descriptor_template(in) ==
  LET r == parse_descriptor(in, "TopLevel", 0)
  IN IF r.ok /\ r.rest # <<>> THEN Bad("TrailingInput") ELSE r

-----------------------------------------------------------------------------
\* Display: the text of a template.

RECURSIVE NumberText(_)
NumberText(n) == IF n < 10 THEN <<Digit(n)>> ELSE Append(NumberText(n \div 10), Digit(n % 10))

Joined(texts) ==  \* the texts with commas between them
  FoldLeft(LAMBDA acc, text : IF acc = <<>> THEN text ELSE acc \o <<Mark(",")>> \o text, <<>>, texts)

Map(Op(_), seq) == [i \in DOMAIN seq |-> Op(seq[i])]

IndexText(i) == <<Mark("@")>> \o NumberText(i)

SuffixText(k) ==
  IF k.num1 = 0 /\ k.num2 = 1 THEN <<Mark("/**")>>
  ELSE <<Mark("/<")>> \o NumberText(k.num1) \o <<Mark(";")>> \o NumberText(k.num2) \o <<Mark(">/*")>>

KeyText(k) ==
  (IF k.musig THEN <<Open("musig")>> \o Joined(Map(IndexText, k.idx)) \o <<Mark(")")>> ELSE IndexText(k.idx[1]))
  \o SuffixText(k)

write_display_wrapper(t, inner) ==
  <<Letter(t.f)>> \o (IF is_wrapper(t.subs[1]) THEN <<>> ELSE <<Mark(":")>>) \o inner

RECURSIVE Display(_)
Display(t) ==
  LET subs == Map(Display, t.subs)
      args == CASE t.f \in MultiFragments -> <<NumberText(t.num)>> \o Map(KeyText, t.keys)
                [] t.f = "thresh" -> <<NumberText(t.num)>> \o subs
                [] t.f \in LockFragments -> <<NumberText(t.num)>>
                [] t.f \in DOMAIN HashText -> <<<<Hex(HashText[t.f], t.num)>>>>
                [] OTHER -> Map(KeyText, t.keys) \o subs
  IN CASE t.f \in {"0", "1"} -> <<Digit(IF t.f = "0" THEN 0 ELSE 1)>>
       [] t.f = "{}" -> <<Mark("{")>> \o Joined(subs) \o <<Mark("}")>>
       [] is_wrapper(t) -> write_display_wrapper(t, subs[1])
       [] OTHER -> <<Open(t.f)>> \o Joined(args) \o <<Mark(")")>>

-----------------------------------------------------------------------------
\* Keys: an extended public key and, perhaps, where it comes from.

StepText(n) == <<Mark("/")>> \o (IF n < HardenedIndex THEN NumberText(n)
                                ELSE NumberText(n - HardenedIndex) \o <<Mark("'")>>)

OriginText(o) == <<Tok("8 hex", "", o.fingerprint)>> \o FlattenSeq(Map(StepText, o.path))

KeyInformationText(k) ==
  (IF k.origin = <<>> THEN <<>> ELSE <<Mark("[")>> \o OriginText(k.origin[1]) \o <<Mark("]")>>)
  \o <<Tok("xpub", "", k.pubkey)>>

RECURSIVE PathFrom(_, _)
PathFrom(in, path) ==
  LET r == parse_derivation_step_number(Tail(in))
  IN IF in = <<>> THEN Good(<<>>, path)
     ELSE IF ~starts_with(in, "/") \/ ~r.ok THEN Bad("InvalidKey")
     ELSE PathFrom(r.rest, Append(path, r.val))

KeyOriginFrom(in) ==
  LET path == PathFrom(Tail(in), <<>>)
  IN IF in = <<>> THEN Bad("EmptyInput")
     ELSE IF Head(in).t # "8 hex" THEN Bad("InvalidLength")
     ELSE IF ~path.ok THEN path
     ELSE Good(<<>>, [fingerprint |-> Head(in).n, path |-> path.val])

KeyInformationFrom(in) ==
  LET ends == {i \in DOMAIN in : in[i] = Mark("]")}
      origin == IF ~starts_with(in, "[") THEN Good(<<>>, <<>>)
                ELSE IF ends = {} THEN Bad("InvalidKey")
                ELSE KeyOriginFrom(SubSeq(in, 2, Min(ends) - 1))
      key == IF starts_with(in, "[") THEN SubSeq(in, Min(ends) + 1, Len(in)) ELSE in
  IN IF in = <<>> THEN Bad("EmptyInput")
     ELSE IF ~origin.ok THEN origin
     ELSE IF Len(key) # 1 \/ Head(key).t # "xpub" THEN Bad("InvalidKey")
     ELSE Good(<<>>, [pubkey |-> Head(key).n,
                      origin |-> IF starts_with(in, "[") THEN <<origin.val>> ELSE <<>>])

-----------------------------------------------------------------------------
\* to_descriptor: the descriptor of one address.  A key that is not there
\* makes the whole of it fail.

Missing == Mark("InvalidKeyIndex")

KeyAt(infos, i) == IF i < Len(infos) THEN KeyInformationText(infos[i + 1]) ELSE <<Missing>>

write_key_expression(infos, k, change, index) ==
  LET Info(i) == KeyAt(infos, i)
      step == IF change THEN k.num2 ELSE k.num1
  IN (IF k.musig THEN <<Open("musig")>> \o Joined(Map(Info, k.idx)) \o <<Mark(")")>> ELSE Info(k.idx[1]))
     \o <<Mark("/")>> \o NumberText(step) \o <<Mark("/")>> \o NumberText(index)

write_key_expressions(infos, keys, change, index) ==
  Joined([i \in DOMAIN keys |-> write_key_expression(infos, keys[i], change, index)])

\* What stands between the brackets of a fragment.
WriteArguments(t, keys, inner) ==
  CASE t.f \in MultiFragments -> NumberText(t.num) \o <<Mark(",")>> \o keys
    [] t.f = "thresh" -> NumberText(t.num) \o <<Mark(",")>> \o Joined(inner)
    [] t.f \in LockFragments -> NumberText(t.num)
    [] t.f \in DOMAIN HashText -> <<Hex(HashText[t.f], t.num)>>
    [] t.f \in KeyFragments -> keys
    [] t.f = "tr" -> keys \o (IF inner = <<>> THEN <<>> ELSE <<Mark(",")>> \o inner[1])
    [] OTHER -> Joined(inner)

write_wrapper(t, inner) ==
  <<Letter(t.f)>> \o (IF is_wrapper(t.subs[1]) THEN <<>> ELSE <<Mark(":")>>) \o inner

RECURSIVE write_to(_, _, _, _)
write_to(t, infos, change, index) ==
  LET inner == [i \in DOMAIN t.subs |-> write_to(t.subs[i], infos, change, index)]
      keys == write_key_expressions(infos, t.keys, change, index)
  IN CASE t.f = "0" -> <<Digit(0)>>
       [] t.f = "1" -> <<Digit(1)>>
       [] t.f = "{}" -> <<Mark("{")>> \o inner[1] \o <<Mark(",")>> \o inner[2] \o <<Mark("}")>>
       [] is_wrapper(t) -> write_wrapper(t, inner[1])
       [] OTHER -> <<Open(t.f)>> \o WriteArguments(t, keys, inner) \o <<Mark(")")>>

to_descriptor(t, infos, change, index) ==
  LET w == write_to(t, infos, change, index)
  IN IF Missing \in ToSet(w) THEN Bad("InvalidKeyIndex") ELSE Good(<<>>, w)

-----------------------------------------------------------------------------
\* The iterators: stacks of trees, of fragments and of keys, read from the
\* end.  A key comes with the tap leaf it belongs to, if any.

RECURSIVE LeavesFrom(_)
\* Mutant: the right side of a branch first.
LeavesFromRight(stack) ==
  LET node == Last(stack)
  IN IF stack = <<>> THEN <<>>
     ELSE IF node.f = "{}" THEN LeavesFrom(Front(stack) \o node.subs)
     ELSE <<node>> \o LeavesFrom(Front(stack))

LeavesFrom(stack) ==
  LET node == Last(stack)
  IN IF stack = <<>> THEN <<>>
     ELSE IF node.f = "{}" THEN LeavesFrom(Front(stack) \o <<node.subs[2], node.subs[1]>>)
     ELSE <<node>> \o LeavesFrom(Front(stack))

tapleaves(tree) == LeavesFrom(<<tree>>)

InLeaf(seq, leaf) == [i \in DOMAIN seq |-> [item |-> seq[i], leaf |-> leaf]]

RECURSIVE PlaceholdersFrom(_, _)
PlaceholdersFrom(fragments, pending) ==
  LET frag == Last(fragments).item
      leaf == Last(fragments).leaf
      rest == Front(fragments)
      leaves == IF frag.subs = <<>> THEN <<>> ELSE Reverse(tapleaves(frag.subs[1]))
  IN CASE pending # <<>> -> <<Last(pending)>> \o PlaceholdersFrom(fragments, Front(pending))
       [] pending = <<>> /\ fragments = <<>> -> <<>>
       [] pending = <<>> /\ fragments # <<>> ->
            (CASE frag.f = "tr" ->
                    PlaceholdersFrom(rest \o [i \in DOMAIN leaves |-> [item |-> leaves[i], leaf |-> <<leaves[i]>>]],
                                     InLeaf(frag.keys, <<>>))
               [] frag.f \in KeyFragments -> InLeaf(frag.keys, leaf) \o PlaceholdersFrom(rest, <<>>)
               [] frag.f \in MultiFragments -> PlaceholdersFrom(rest, InLeaf(Reverse(frag.keys), leaf))
               [] OTHER -> PlaceholdersFrom(rest \o InLeaf(Reverse(frag.subs), leaf), <<>>))

placeholders(t) == PlaceholdersFrom(<<[item |-> t, leaf |-> <<>>]>>, <<>>)

\* placeholders_mut walks with pointers: a pointer is the path to a fragment
\* and, for a key, its place there.
RECURSIVE At(_, _), WriteTo(_, _, _), LeafPointers(_, _), PointersFrom(_, _, _)
At(t, path) == IF path = <<>> THEN t ELSE At(t.subs[Head(path)], Tail(path))

WriteTo(t, ptr, pair) ==
  IF ptr.path = <<>> THEN [t EXCEPT !.keys[ptr.k].num1 = pair[1], !.keys[ptr.k].num2 = pair[2]]
  ELSE [t EXCEPT !.subs[Head(ptr.path)] = WriteTo(@, [ptr EXCEPT !.path = Tail(@)], pair)]

LeafPointers(t, stack) ==
  LET node == Last(stack)
  IN IF stack = <<>> THEN <<>>
     ELSE IF At(t, node).f = "{}" THEN LeafPointers(t, Front(stack) \o <<Append(node, 2), Append(node, 1)>>)
     ELSE <<node>> \o LeafPointers(t, Front(stack))

PointersFrom(t, fragments, pending) ==
  LET path == Last(fragments)
      frag == At(t, path)
      rest == Front(fragments)
      keys == [k \in DOMAIN frag.keys |-> [path |-> path, k |-> k]]
      subs == [i \in DOMAIN frag.subs |-> Append(path, i)]
  IN CASE pending # <<>> -> <<Last(pending)>> \o PointersFrom(t, fragments, Front(pending))
       [] pending = <<>> /\ fragments = <<>> -> <<>>
       [] pending = <<>> /\ fragments # <<>> ->
            (CASE frag.f = "tr" -> PointersFrom(t, rest \o Reverse(LeafPointers(t, subs)), keys)
               [] frag.f \in KeyFragments -> keys \o PointersFrom(t, rest, <<>>)
               [] frag.f \in MultiFragments -> PointersFrom(t, rest, Reverse(keys))
               [] OTHER -> PointersFrom(t, rest \o Reverse(subs), <<>>))

placeholders_mut(t) == PointersFrom(t, <<<<>>>>, <<>>)

\* The template with a pair of derivation numbers written to each key.
WithPairs(t, pairs) ==
  LET ptrs == placeholders_mut(t)
  IN FoldLeft(LAMBDA acc, i : WriteTo(acc, ptrs[i], pairs[i]), t, [i \in DOMAIN ptrs |-> i])

-----------------------------------------------------------------------------
\* Policies, and their two encodings: the items of a byte string, and the
\* maps of CBOR.  The text a policy was made from is kept.

WalletPolicy(text, infos) ==
  LET r == parse_descriptor_template(text)
  IN IF ~r.ok THEN r ELSE Good(<<>>, [template |-> r.val, infos |-> infos, raw |-> text])

Item(t, v) == [t |-> t, v |-> v]

SerializedKey(k) ==
  (IF k.origin = <<>> THEN <<Item("byte", <<0>>)>>
   ELSE <<Item("byte", <<1>>), Item("fingerprint", <<k.origin[1].fingerprint>>),
          Item("varint", <<Len(k.origin[1].path)>>)>>
        \o [i \in DOMAIN k.origin[1].path |-> Item("step", <<k.origin[1].path[i]>>)])
  \o <<Item("xpub", <<k.pubkey>>)>>

serialize(p) ==
  <<Item("varint", <<Len(p.raw)>>), Item("text", p.raw), Item("varint", <<Len(p.infos)>>)>>
  \o FlattenSeq(Map(SerializedKey, p.infos))

\* Reads one item of a kind.
Read(in, t) == IF in = <<>> \/ Head(in).t # t THEN Bad("Io") ELSE Good(Tail(in), Head(in).v)

RECURSIVE ReadSteps(_, _, _)
ReadSteps(in, n, path) ==
  LET r == Read(in, "step")
  IN IF n = 0 THEN Good(in, path) ELSE IF ~r.ok THEN r ELSE ReadSteps(r.rest, n - 1, path \o r.val)

ReadOrigin(in) ==
  LET flag == Read(in, "byte")
      fingerprint == Read(flag.rest, "fingerprint")
      len == Read(fingerprint.rest, "varint")
      path == ReadSteps(len.rest, len.val[1], <<>>)
  IN IF ~flag.ok THEN flag
     ELSE IF flag.val = <<0>> THEN Good(flag.rest, <<>>)
     ELSE IF flag.val # <<1>> THEN Bad("Invalid key information flag")
     ELSE IF ~fingerprint.ok THEN fingerprint
     ELSE IF ~len.ok THEN len
     ELSE IF len.val[1] > MaxPathLen - 2 THEN Bad("Derivation path too long")
     ELSE IF ~path.ok THEN path
     ELSE Good(path.rest, <<[fingerprint |-> fingerprint.val[1], path |-> path.val]>>)

RECURSIVE ReadKeys(_, _, _)
ReadKeys(in, n, keys) ==
  LET origin == ReadOrigin(in)
      xpub == Read(origin.rest, "xpub")
  IN IF n = 0 THEN Good(in, keys)
     ELSE IF ~origin.ok THEN origin
     ELSE IF ~xpub.ok THEN xpub
     ELSE ReadKeys(xpub.rest, n - 1, Append(keys, [pubkey |-> xpub.val[1], origin |-> origin.val]))

deserialize(in) ==
  LET len == Read(in, "varint")
      text == Read(len.rest, "text")
      count == Read(text.rest, "varint")
      keys == ReadKeys(count.rest, count.val[1], <<>>)
  IN IF ~len.ok THEN len
     ELSE IF len.val[1] > MaxTemplateLen THEN Bad("Descriptor template too long")
     ELSE IF ~text.ok \/ Len(text.val) # len.val[1] THEN Bad("Io")
     ELSE IF ~count.ok THEN count
     ELSE IF count.val[1] > MaxKeyCount THEN Bad("Too many keys")
     ELSE IF ~keys.ok THEN keys
     ELSE IF keys.rest # <<>> THEN Bad("Extra data after deserializing WalletPolicy")
     ELSE WalletPolicy(text.val, keys.val)

\* The CBOR maps of bip388_codec, as sequences of entries; an origin is a
\* map within the map of its key.
encode_key_origin(o) == <<Item(0, o.fingerprint), Item(1, o.path)>>
encode_key_information(k) ==
  <<[t |-> 0, pubkey |-> k.pubkey, origin |-> <<>>]>>
  \o (IF k.origin = <<>> THEN <<>>
      ELSE <<[t |-> 1, pubkey |-> 0, origin |-> encode_key_origin(k.origin[1])]>>)
encode(p) ==
  <<[t |-> 0, text |-> p.raw, keys |-> <<>>],
    [t |-> 1, text |-> <<>>, keys |-> Map(encode_key_information, p.infos)]>>

\* The last entry of a map with a number; other entries are skipped.
LastEntry(map, n) == SelectLastInSeq(map, LAMBDA e : e.t = n)

decode_key_origin(map) ==
  LET f == LastEntry(map, 0)
      p == LastEntry(map, 1)
  IN IF f = 0 \/ p = 0 THEN Bad("missing") ELSE Good(<<>>, [fingerprint |-> map[f].v, path |-> map[p].v])

decode_key_information(map) ==
  LET k == LastEntry(map, 0)
      o == LastEntry(map, 1)
      origin == decode_key_origin(map[o].origin)
  IN IF k = 0 THEN Bad("missing pubkey")
     ELSE IF o = 0 THEN Good(<<>>, [pubkey |-> map[k].pubkey, origin |-> <<>>])
     ELSE IF ~origin.ok THEN origin
     ELSE Good(<<>>, [pubkey |-> map[k].pubkey, origin |-> <<origin.val>>])

decode(map) ==
  LET t == LastEntry(map, 0)
      k == LastEntry(map, 1)
      keys == Map(decode_key_information, map[k].keys)
  IN IF t = 0 \/ k = 0 THEN Bad("missing")
     ELSE IF \E i \in DOMAIN keys : ~keys[i].ok THEN Bad("invalid")
     ELSE WalletPolicy(map[t].text, [i \in DOMAIN keys |-> keys[i].val])

get_segwit_version(t) ==
  CASE t.f = "tr" -> "Taproot"
    [] t.f \in {"wpkh", "wsh"} -> "SegwitV0"
    [] t.f = "pkh" -> "Legacy"
    [] t.f = "sh" -> IF t.subs[1].f \in {"wpkh", "wsh"} THEN "SegwitV0" ELSE "Legacy"
    [] OTHER -> "InvalidTopLevelPolicy"

-----------------------------------------------------------------------------
\* What the parser promises.  The grammar of templates, by itself.
RECURSIVE IsTemplate(_, _), Depth(_)
IsKey(k, ctx) ==
  /\ k.musig => ctx = "Taproot" /\ Len(k.idx) > 1 /\ IsInjective(k.idx)
  /\ ~k.musig => Len(k.idx) = 1
IsTemplate(t, ctx) ==
  /\ Allowed(t.f, ctx)
  /\ \A i \in DOMAIN t.keys : IsKey(t.keys[i], IF t.f = "tr" THEN "Taproot" ELSE ctx)
  /\ \A i \in DOMAIN t.subs : IsTemplate(t.subs[i], IF t.f = "tr" THEN "Taproot" ELSE InnerContext(t.f, ctx))
  /\ t.f \in MultiFragments => /\ t.num \in 1 .. Len(t.keys)
                               /\ Len(t.keys) \in 2 .. (IF t.f \in {"multi", "sortedmulti"} THEN MaxKeysMulti
                                                                                          ELSE MaxKeysMultiA)
  /\ t.f = "thresh" => t.num \in 1 .. Len(t.subs)
  /\ t.f \in LockFragments => t.num <= MaxOlderAfter
  /\ t.f = "{}" => ctx = "Taproot"
Depth(t) ==  \* nested fragments; wrappers cost nothing
  LET below == Max({0} \cup {Depth(t.subs[i]) : i \in DOMAIN t.subs})
  IN CASE is_wrapper(t) -> below
       [] t.f = "tr" /\ t.subs # <<>> -> 1 + below + 1
       [] OTHER -> 1 + below

IsLegal(t) == IsTemplate(t, "TopLevel") /\ Depth(t) <= MaxParseDepth

\* The canonical text: a pair 0;1 written out is written "/**".
RECURSIVE Canonical(_)
Canonical(text) ==
  LET pair == <<Mark("/<"), Digit(0), Mark(";"), Digit(1), Mark(">/*")>>
  IN IF text = <<>> THEN <<>>
     ELSE IF IsPrefix(pair, text) THEN <<Mark("/**")>> \o Canonical(SubSeq(text, 6, Len(text)))
     ELSE <<Head(text)>> \o Canonical(Tail(text))

\* A text is accepted as what it says, and only as that: hardened steps
\* aside, printing gives the text back.
ParsedExactly(text) ==
  LET r == parse_descriptor_template(text)
      hardened == Mark("'") \in ToSet(text)
  IN r.ok => IsLegal(r.val) /\ (hardened \/ Display(r.val) = Canonical(text))

\* Every legal template is printed as a text that is read as the template,
\* but for hardened steps: these are printed as raw numbers, which the parser
\* refuses.
PrintedExactly(t) ==
  LET r == parse_descriptor_template(Display(t))
      hardened == \E ph \in ToSet(placeholders(t)) : ph.item.num1 >= HardenedIndex \/ ph.item.num2 >= HardenedIndex
  IN IF IsLegal(t) /\ ~hardened THEN r.ok /\ r.val = t ELSE ~r.ok

\* The keys of a text, in its order.
KeyNumbers(text) ==
  LET starts == SetToSortSeq({i \in DOMAIN text : text[i] = Mark("@")}, <)
  IN [i \in DOMAIN starts |-> parse_number_up_to(SubSeq(text, starts[i] + 1, Len(text)), MaxNumber).val]

\* Both iterators give the keys in the order of the text, each with the leaf
\* it is part of, and what is written through the pointers lands there.
KeysInOrder(t) ==
  LET phs == placeholders(t)
      ptrs == placeholders_mut(t)
      fresh == WithPairs(t, [i \in DOMAIN phs |-> <<100 + i, 200 + i>>])
  IN /\ FlattenSeq([i \in DOMAIN phs |-> phs[i].item.idx]) = KeyNumbers(Display(t))
     /\ [i \in DOMAIN ptrs |-> At(t, ptrs[i].path).keys[ptrs[i].k]] = [i \in DOMAIN phs |-> phs[i].item]
     /\ [i \in DOMAIN phs |-> placeholders(fresh)[i].item.num1] = [i \in DOMAIN phs |-> 100 + i]
     /\ WithPairs(fresh, [i \in DOMAIN phs |-> <<phs[i].item.num1, phs[i].item.num2>>]) = t
     /\ \A i \in DOMAIN phs :
          IF t.f # "tr" \/ i = 1 THEN phs[i].leaf = <<>>
          ELSE \E j \in DOMAIN placeholders(phs[i].leaf[1]) : placeholders(phs[i].leaf[1])[j].item = phs[i].item

\* A text with its key expressions replaced, one by one.
RECURSIVE Replaced(_, _)
Replaced(text, by) ==
  LET end == Min({i \in DOMAIN text : text[i] \in {Mark("/**"), Mark(">/*")}})
  IN IF text = <<>> THEN <<>>
     ELSE IF Head(text) \in {Mark("@"), Open("musig")}
     THEN Head(by) \o Replaced(SubSeq(text, end + 1, Len(text)), Tail(by))
     ELSE <<Head(text)>> \o Replaced(Tail(text), by)

\* The descriptor of an address is the text of the template with its key
\* expressions replaced by derived keys, or there is none because a key is
\* missing.
DescriptorExact(t, infos, change, index) ==
  LET phs == placeholders(t)
      r == to_descriptor(t, infos, change, index)
      complete == \A i \in DOMAIN phs : ToSet(phs[i].item.idx) \subseteq 0 .. Len(infos) - 1
      by == [i \in DOMAIN phs |-> write_key_expression(infos, phs[i].item, change, index)]
  IN IF complete THEN r.ok /\ r.val = Replaced(Display(t), by) ELSE r.err = "InvalidKeyIndex"

\* A policy comes back from either encoding, whatever the order of the
\* entries of its map, and never from a part of its bytes or from more.
PolicyEncoded(text, infos) ==
  LET p == WalletPolicy(text, infos).val
      bytes == serialize(p)
      fits == /\ Len(text) <= MaxTemplateLen /\ Len(infos) <= MaxKeyCount
              /\ \A i \in DOMAIN infos : infos[i].origin = <<>> \/ Len(infos[i].origin[1].path) <= MaxPathLen - 2
  IN /\ IF fits THEN deserialize(bytes).ok /\ deserialize(bytes).val = p ELSE ~deserialize(bytes).ok
     /\ \A n \in 0 .. Len(bytes) - 1 : ~deserialize(SubSeq(bytes, 1, n)).ok
     /\ \A i \in DOMAIN bytes : ~deserialize(Append(bytes, bytes[i])).ok
     /\ \A map \in {encode(p), Reverse(encode(p)), Append(encode(p), [t |-> 2, text |-> <<>>, keys |-> <<>>])} :
          decode(map).ok /\ decode(map).val = p
     /\ \A n \in 0 .. 1 : ~decode(SubSeq(encode(p), 1, n)).ok
     /\ \A i \in DOMAIN infos : KeyInformationFrom(KeyInformationText(infos[i])).val = infos[i]
=============================================================================
