---------------------------- MODULE PolicyScript ----------------------------
(***************************************************************************)
(* The Bitcoin scripts of a wallet policy: to_script and the hash of a tap *)
(* tree, and what it takes to spend such a script; and the policies,       *)
(* texts, locks and scripts on which these algorithms, and those of Bip388 *)
(* and Cleartext, are tried.                                               *)
(*                                                                         *)
(* A script is a sequence of opcodes and pushes.  A derived key is the     *)
(* keys it comes from and its path; a hash is a term that names what was   *)
(* hashed, so that different inputs have different hashes.                 *)
(***************************************************************************)
EXTENDS Cleartext

Op(name) == <<"op", name>>
Num(n) == <<"num", n>>
KeyPush(key) == <<"key", key>>
HashOf(fn, what) == <<"hash", fn, what>>

MapOk(Of(_), seq) ==  \* the results of all, or the first error
  LET all == Map(Of, seq)
      bad == {i \in DOMAIN all : ~all[i].ok}
  IN IF bad # {} THEN all[Min(bad)] ELSE Good(<<>>, [i \in DOMAIN all |-> all[i].val])

\* A derived key has a place in the order of the serialized keys.
Rank(key) == (FoldLeft(LAMBDA acc, p : acc + 37 * p, 0, key.pubs) + 29 * key.path[1] + 11 * key.path[2]) % 101

Swapped(s, j) == [s EXCEPT ![j] = s[j + 1], ![j + 1] = s[j]]
BubblePass(s, i) ==
  FoldLeft(LAMBDA acc, j : IF Rank(acc[j]) > Rank(acc[j + 1]) THEN Swapped(acc, j) ELSE acc,
           s, [j \in 1 .. Len(s) - 1 - i |-> j])
RECURSIVE BubbleFrom(_, _)
BubbleFrom(s, i) ==
  LET next == BubblePass(s, i) IN IF i = Len(s) \/ next = s THEN next ELSE BubbleFrom(next, i + 1)
bubble_sort(s) == IF Len(s) < 2 THEN s ELSE BubbleFrom(s, 0)

aggregate_xpub(pubs) == SortSeq(pubs, <)

derive(infos, kp, change, index, ctx) ==
  LET step == IF change THEN kp.num2 ELSE kp.num1
      pubs == [i \in DOMAIN kp.idx |-> infos[kp.idx[i] + 1].pubkey]
  IN IF \E i \in DOMAIN kp.idx : kp.idx[i] >= Len(infos) THEN Bad("InvalidKeyIndex")
     ELSE IF step >= HardenedIndex \/ index >= HardenedIndex THEN Bad("InvalidKey")
     ELSE Good(<<>>, [pubs |-> IF kp.musig THEN aggregate_xpub(pubs) ELSE pubs,
                      path |-> <<step, index>>, xonly |-> ctx = "Tr"])

\* Mutant: the opcode is dropped with the VERIFY it stands for.
VerifyLost(s) ==
  IF s # <<>> /\ Last(s) = Op("CHECKMULTISIG") THEN s ELSE Append(s, Op("VERIFY"))

\* push_verify folds OP_VERIFY into the last opcode when that has such a form.
Verified == [EQUAL |-> "EQUALVERIFY", NUMEQUAL |-> "NUMEQUALVERIFY",
             CHECKSIG |-> "CHECKSIGVERIFY", CHECKMULTISIG |-> "CHECKMULTISIGVERIFY"]
push_verify(s) ==
  LET last == Last(s)
  IN IF s # <<>> /\ last[1] = "op" /\ last[2] \in DOMAIN Verified
     THEN Append(Front(s), Op(Verified[last[2]])) ELSE Append(s, Op("VERIFY"))

PkhScript(key) == <<Op("DUP"), Op("HASH160"), HashOf("hash160", KeyPush(key)), Op("EQUALVERIFY")>>

\* Thresholds of keys: CHECKMULTISIG before taproot, CHECKSIGADD in it.
MultiScript(t, keys, ctx) ==
  LET tap == t.f \in {"multi_a", "sortedmulti_a"}
      sorted == IF t.f \in {"sortedmulti", "sortedmulti_a"} THEN bubble_sort(keys.val) ELSE keys.val
      checks == [i \in DOMAIN sorted |-> <<KeyPush(sorted[i]), Op(IF i = 1 THEN "CHECKSIG" ELSE "CHECKSIGADD")>>]
  IN IF tap # (ctx = "Tr") THEN Bad("InvalidScriptContext")
     ELSE IF Len(t.keys) > (IF tap THEN MaxKeysMultiA ELSE MaxKeysMulti) THEN Bad("TooManyKeys")
     ELSE IF t.num = 0 \/ t.num > Len(t.keys) THEN Bad("InvalidMultisigQuorum")
     ELSE IF ~keys.ok THEN keys
     ELSE Good(<<>>, IF tap THEN FlattenSeq(checks) \o <<Num(t.num), Op("NUMEQUAL")>>
                     ELSE <<Num(t.num)>> \o Map(KeyPush, sorted) \o <<Num(Len(t.keys)), Op("CHECKMULTISIG")>>)

\* The scripts that commit to others or to keys by a hash.
OutputScript(t, inner, key, root, ctx) ==
  CASE t.f = "sh" /\ ctx \notin {"None", "Wsh"} -> Bad("InvalidScriptContext")
    [] t.f = "wsh" /\ ctx # "None" -> Bad("InvalidScriptContext")
    [] t.f = "wpkh" /\ ctx \notin {"None", "Sh"} -> Bad("InvalidScriptContext")
    [] t.f \in {"sh", "wsh"} /\ ~inner.ok -> inner
    [] t.f \in {"wpkh", "tr"} /\ ~key.ok -> key
    [] t.f = "tr" /\ ~root.ok -> Bad("InvalidKey")
    [] t.f = "sh" -> Good(<<>>, <<Op("HASH160"), HashOf("hash160", <<"script", inner.val>>), Op("EQUAL")>>)
    [] t.f = "wsh" -> Good(<<>>, <<Num(0), HashOf("sha256", <<"script", inner.val>>)>>)
    [] t.f = "wpkh" -> Good(<<>>, <<Num(0), HashOf("hash160", KeyPush(key.val))>>)
    [] t.f = "tr" -> Good(<<>>, <<Num(1), <<"tweaked", key.val, root.val>>>>)

HashOp == [sha256 |-> "SHA256", hash256 |-> "HASH256", ripemd160 |-> "RIPEMD160", hash160 |-> "HASH160"]

\* Keys, constants, locks and hashes.
LeafScript(t, key) ==
  CASE t.f = "0" -> <<Num(0)>>
    [] t.f = "1" -> <<Num(1)>>
    [] t.f = "pk" -> <<KeyPush(key), Op("CHECKSIG")>>
    [] t.f = "pk_k" -> <<KeyPush(key)>>
    [] t.f = "pk_h" -> PkhScript(key)
    [] t.f = "pkh" -> Append(PkhScript(key), Op("CHECKSIG"))
    [] t.f = "older" -> <<Num(t.num), Op("CSV")>>
    [] t.f = "after" -> <<Num(t.num), Op("CLTV")>>
    [] OTHER -> <<Op("SIZE"), Num(32), Op("EQUALVERIFY"),
                  Op(HashOp[t.f]), HashOf(t.f, <<"preimage", t.num>>), Op("EQUAL")>>

Combinator(t, s) ==  \* s: the scripts of the sub-templates
  CASE t.f = "andor" -> s[1] \o <<Op("NOTIF")>> \o s[2] \o <<Op("ELSE")>> \o s[3] \o <<Op("ENDIF")>>
    [] t.f = "and_v" -> s[1] \o s[2]
    [] t.f = "and_b" -> s[1] \o s[2] \o <<Op("BOOLAND")>>
    [] t.f = "and_n" -> s[1] \o <<Op("NOTIF"), Num(0), Op("ELSE")>> \o s[2] \o <<Op("ENDIF")>>
    [] t.f = "or_b" -> s[1] \o s[2] \o <<Op("BOOLOR")>>
    [] t.f = "or_c" -> s[1] \o <<Op("NOTIF")>> \o s[2] \o <<Op("ENDIF")>>
    [] t.f = "or_d" -> s[1] \o <<Op("IFDUP"), Op("NOTIF")>> \o s[2] \o <<Op("ENDIF")>>
    [] t.f = "or_i" -> <<Op("IF")>> \o s[1] \o <<Op("ELSE")>> \o s[2] \o <<Op("ENDIF")>>
    [] t.f = "thresh" -> FlattenSeq([i \in DOMAIN s |-> IF i = 1 THEN s[i] ELSE Append(s[i], Op("ADD"))])
                         \o <<Num(t.num), Op("EQUAL")>>

Wrapped(t, x) ==
  CASE t.f = "a" -> <<Op("TOALTSTACK")>> \o x \o <<Op("FROMALTSTACK")>>
    [] t.f = "s" -> <<Op("SWAP")>> \o x
    [] t.f = "c" -> Append(x, Op("CHECKSIG"))
    [] t.f = "t" -> Append(x, Num(1))
    [] t.f = "d" -> <<Op("DUP"), Op("IF")>> \o x \o <<Op("ENDIF")>>
    [] t.f = "v" -> push_verify(x)
    [] t.f = "j" -> <<Op("SIZE"), Op("0NOTEQUAL"), Op("IF")>> \o x \o <<Op("ENDIF")>>
    [] t.f = "n" -> Append(x, Op("0NOTEQUAL"))
    [] t.f = "l" -> <<Op("IF"), Num(0), Op("ELSE")>> \o x \o <<Op("ENDIF")>>
    [] t.f = "u" -> <<Op("IF")>> \o x \o <<Op("ELSE"), Num(0), Op("ENDIF")>>

RECURSIVE to_script_inner(_, _, _, _, _), get_taptree_hash(_, _, _, _)
to_script_inner(t, infos, change, index, ctx) ==
  LET keyOf(kp) == derive(infos, kp, change, index, ctx)
      keys == MapOk(keyOf, t.keys)
      inner == CASE t.f = "sh" -> "Sh" [] t.f = "wsh" -> "Wsh" [] OTHER -> ctx
      subs == MapOk(LAMBDA u : to_script_inner(u, infos, change, index, inner), t.subs)
      root == IF t.subs = <<>> THEN Good(<<>>, <<"no tree">>) ELSE get_taptree_hash(t.subs[1], infos, change, index)
  IN CASE t.f \in MultiFragments -> MultiScript(t, keys, ctx)
       [] t.f = "wpkh" -> OutputScript(t, keys, IF keys.ok THEN Good(<<>>, keys.val[1]) ELSE keys, keys, ctx)
       [] t.f = "tr" -> OutputScript(t, keys, IF keys.ok THEN Good(<<>>, [keys.val[1] EXCEPT !.xonly = TRUE]) ELSE keys, root, ctx)
       [] t.f \in {"sh", "wsh"} ->
            OutputScript(t, IF subs.ok THEN Good(<<>>, subs.val[1]) ELSE subs, keys, keys, ctx)
       [] ~keys.ok -> keys
       [] t.f \in DOMAIN Arity \cup {"thresh"} \cup Wrappers ->
            IF ~subs.ok THEN subs
            ELSE Good(<<>>, IF is_wrapper(t) THEN Wrapped(t, subs.val[1]) ELSE Combinator(t, subs.val))
       [] OTHER -> Good(<<>>, LeafScript(t, IF t.keys = <<>> THEN <<>> ELSE keys.val[1]))

to_script(p, change, index) == to_script_inner(p.template, p.infos, change, index, "None")

\* The hash of a leaf is that of its script, the hash of a branch does not
\* tell its sides apart (TapNodeHash::from_node_hashes sorts them).
get_tapleaf_hash(t, infos, change, index) == to_script_inner(t, infos, change, index, "Tr")

get_taptree_hash(tree, infos, change, index) ==
  IF tree.f # "{}"
  THEN LET leaf == get_tapleaf_hash(tree, infos, change, index)
       IN IF leaf.ok THEN Good(<<>>, HashOf("leaf", leaf.val)) ELSE leaf
  ELSE LET sides == MapOk(LAMBDA u : get_taptree_hash(u, infos, change, index), tree.subs)
       IN IF sides.ok THEN Good(<<>>, HashOf("branch", <<{sides.val[1], sides.val[2]}>>)) ELSE sides

-----------------------------------------------------------------------------
\* Spending: the rules of Bitcoin script as far as these scripts go.  The
\* stack has its top first; what the witness holds is guessed when an opcode
\* reaches below the stack.  env: the keys that sign, the preimages known and
\* the locks that have passed.

IsTrue(x) == x # Num(0)
Bool(b) == IF b THEN Num(1) ELSE Num(0)
Size(x) == CASE x[1] = "num" -> IF x[2] = 0 THEN 0 ELSE 1
             [] x[1] = "key" -> IF x[2].xonly THEN 32 ELSE 33
             [] x[1] = "sig" -> 71
             [] OTHER -> 32

Witness(env) ==
  {Num(0), Num(1), <<"junk">>} \cup {<<"sig", k>> : k \in env.signs} \cup {KeyPush(k) : k \in env.known}
  \cup {<<"preimage", h>> : h \in env.preimages}

\* The top n elements, and what is left.
Popped(stack, n, env) ==
  IF n <= Len(stack) THEN {[top |-> SubSeq(stack, 1, n), rest |-> SubSeq(stack, n + 1, Len(stack))]}
  ELSE {[top |-> stack \o w, rest |-> <<>>] : w \in [1 .. n - Len(stack) -> Witness(env)]}

\* A signature is good, empty, or the end of the script.
Checked(key, sig) ==
  IF sig = Num(0) THEN {0} ELSE IF sig = <<"sig", key[2]>> THEN {1} ELSE {}

\* Signatures in the order of the keys (both with the last one on top).
RECURSIVE InKeyOrder(_, _)
InKeyOrder(keys, sigs) ==
  IF sigs = <<>> THEN TRUE
  ELSE keys # <<>> /\ IF sigs[1] = <<"sig", keys[1][2]>> THEN InKeyOrder(Tail(keys), Tail(sigs))
                      ELSE InKeyOrder(Tail(keys), sigs)

Takes(name, stack) ==
  CASE name \in {"DUP", "IFDUP", "SIZE", "VERIFY", "0NOTEQUAL", "CSV", "CLTV"} \cup Range(HashOp) -> 1
    [] name \in {"EQUAL", "NUMEQUAL", "SWAP", "BOOLAND", "BOOLOR", "ADD", "CHECKSIG"} -> 2
    [] name = "CHECKSIGADD" -> 3
    [] name = "CHECKMULTISIG" -> stack[1][2] + stack[stack[1][2] + 2][2] + 3

\* What an opcode may push for x, the elements it takes; nothing: it fails.
Pushes(name, x, env) ==
  LET numbers == \A i \in DOMAIN x : x[i][1] = "num"
      Numeric(r) == IF numbers THEN {<<r>>} ELSE {}
      n == x[1][2]
      k == x[n + 2][2]
      keys == SubSeq(x, 2, n + 1)
      sigs == SubSeq(x, n + 3, n + 2 + k)
  IN CASE name \in {"DUP", "IFDUP"} -> {IF name = "DUP" \/ IsTrue(x[1]) THEN <<x[1], x[1]>> ELSE x}
       [] name = "SIZE" -> {<<Num(Size(x[1])), x[1]>>}
       [] name = "VERIFY" -> IF IsTrue(x[1]) THEN {<<>>} ELSE {}
       [] name = "SWAP" -> {<<x[2], x[1]>>}
       [] name = "EQUAL" -> {<<Bool(x[1] = x[2])>>}
       [] name = "0NOTEQUAL" -> Numeric(Bool(IsTrue(x[1])))
       [] name = "NUMEQUAL" -> Numeric(Bool(x[1] = x[2]))
       [] name = "BOOLAND" -> Numeric(Bool(IsTrue(x[1]) /\ IsTrue(x[2])))
       [] name = "BOOLOR" -> Numeric(Bool(IsTrue(x[1]) \/ IsTrue(x[2])))
       [] name = "ADD" -> Numeric(Num(x[1][2] + x[2][2]))
       [] name \in {"CSV", "CLTV"} -> IF x[1] \in env.passed[name] THEN {x} ELSE {}
       [] name \in Range(HashOp) -> {<<HashOf(CHOOSE f \in DOMAIN HashOp : HashOp[f] = name, x[1])>>}
       [] name = "CHECKSIG" -> {<<Num(c)>> : c \in IF x[1][1] = "key" THEN Checked(x[1], x[2]) ELSE {}}
       [] name = "CHECKSIGADD" ->
            {<<Num(x[2][2] + c)>> : c \in IF x[1][1] = "key" /\ x[2][1] = "num" THEN Checked(x[1], x[3]) ELSE {}}
       [] name = "CHECKMULTISIG" ->
            IF x[Len(x)] # Num(0) THEN {}
            ELSE IF \A i \in DOMAIN sigs : sigs[i] = Num(0) THEN {<<Num(0)>>}
            ELSE IF InKeyOrder(keys, sigs) THEN {<<Num(1)>>} ELSE {}

Applied(s, name, env) ==
  UNION {{[s EXCEPT !.stack = out \o p.rest] : out \in Pushes(name, p.top, env)} :
           p \in Popped(s.stack, Takes(name, s.stack), env)}

\* One item of a script; a state has the stack, the other stack and, for
\* every IF around the item, whether its branch is taken (innermost first).
ScriptStep(s, item, env) ==
  LET name == IF item[1] = "op" THEN item[2] ELSE ""
      runs == \A i \in DOMAIN s.branches : s.branches[i]
      plain == {n \in DOMAIN Verified : Verified[n] = name}
  IN CASE name \in {"IF", "NOTIF"} ->
            IF ~runs THEN {[s EXCEPT !.branches = <<FALSE>> \o @]}
            ELSE {[s EXCEPT !.stack = p.rest, !.branches = <<(p.top[1] = Num(1)) = (name = "IF")>> \o @] :
                    p \in {q \in Popped(s.stack, 1, env) : q.top[1] \in {Num(0), Num(1)}}}
       [] name = "ELSE" -> {[s EXCEPT !.branches[1] = ~@]}
       [] name = "ENDIF" -> {[s EXCEPT !.branches = Tail(@)]}
       [] ~runs -> {s}
       [] name = "" -> {[s EXCEPT !.stack = <<item>> \o @]}
       [] name = "TOALTSTACK" ->
            {[s EXCEPT !.stack = p.rest, !.alt = p.top \o @] : p \in Popped(s.stack, 1, env)}
       [] name = "FROMALTSTACK" -> {[s EXCEPT !.stack = <<Head(s.alt)>> \o @, !.alt = Tail(@)]}
       [] plain # {} -> UNION {Applied(r, "VERIFY", env) : r \in Applied(s, CHOOSE n \in plain : TRUE, env)}
       [] OTHER -> Applied(s, name, env)

\* Some witness makes the script end with one true element.
Spendable(script, env) ==
  LET ends == FoldLeft(LAMBDA S, item : UNION {ScriptStep(s, item, env) : s \in S},
                       {[stack |-> <<>>, alt |-> <<>>, branches |-> <<>>]}, script)
  IN \E s \in ends : \E p \in Popped(s.stack, 1, env) : p.rest = <<>> /\ IsTrue(p.top[1])

\* What a policy says: who signs, and what else is known or has passed.
RECURSIVE Satisfied(_, _, _)
Satisfied(t, env, keyOf) ==
  LET sub(i) == Satisfied(t.subs[i], env, keyOf)
      signing == {i \in DOMAIN t.keys : keyOf[t.keys[i]] \in env.signs}
  IN CASE t.f = "0" -> FALSE
       [] t.f = "1" -> TRUE
       [] t.f \in KeyFragments -> signing # {}
       [] t.f \in MultiFragments -> Cardinality(signing) >= t.num
       [] t.f = "older" -> Num(t.num) \in env.passed["CSV"]
       [] t.f = "after" -> Num(t.num) \in env.passed["CLTV"]
       [] t.f \in DOMAIN HashOp -> t.num \in env.preimages
       [] t.f = "andor" -> (sub(1) /\ sub(2)) \/ sub(3)
       [] t.f \in {"and_v", "and_b", "and_n"} -> sub(1) /\ sub(2)
       [] t.f \in {"or_b", "or_c", "or_d", "or_i"} -> sub(1) \/ sub(2)
       [] t.f = "thresh" -> Cardinality({i \in DOMAIN t.subs : sub(i)}) >= t.num
       [] is_wrapper(t) -> sub(1)

Env(signs, known, preimages, locks) ==
  [signs |-> signs, known |-> known, preimages |-> preimages, passed |-> [CSV |-> locks, CLTV |-> locks]]

\* The script of a policy can be spent by those, and only by those, the
\* policy names.
ScriptMeansPolicy(t, infos, change, index, ctx) ==
  LET script == to_script_inner(t, infos, change, index, ctx)
      phs == placeholders(t)
      keyOf == [kp \in {phs[i].item : i \in DOMAIN phs} |-> derive(infos, kp, change, index, ctx).val]
      known == Range(keyOf)
  IN script.ok /\ \A signs \in SUBSET known, pre \in {{}, {1}}, locks \in {{}, {Num(10)}} :
       LET env == Env(signs, known, pre, locks)
       IN Spendable(script.val, env) = Satisfied(t, env, keyOf)

\* Sorted keys may be written in any order, and the sides of a branch too;
\* otherwise another order is another script.
OrderInScript(t, infos, change, index) ==
  LET script(u) == to_script_inner(u, infos, change, index, "None")
      multi == t.subs[1]
      reordered == {[t EXCEPT !.subs[1].keys = [i \in DOMAIN multi.keys |-> multi.keys[p[i]]]] :
                      p \in Permutations(DOMAIN multi.keys)}
  IN IF t.f = "tr" THEN \A u \in Mirrors(t) : script(u) = script(t)
     ELSE /\ script(t).ok
          /\ \A u \in reordered : (script(u) = script(t)) = (multi.f = "sortedmulti" \/ u = t)

---------------------------------------------------------------------------
(* The samples.                                                            *)
Key(i) == Plain(i, 0, 1)
Key2(i) == Plain(i, 2, 3)
Frag1(f, t) == Fragment(f, 0, <<>>, <<t>>)
Frag2(f, t, u) == Fragment(f, 0, <<>>, <<t, u>>)
KeyFrag(f, k) == Fragment(f, 0, <<k>>, <<>>)
Pk(i) == KeyFrag("pk", Key(i))
PkMusig == KeyFrag("pk", MusigOf(<<0, 1>>, 0, 1))
MultiFrag(f, k, keys) == Fragment(f, k, keys, <<>>)
Lock(f, n) == Fragment(f, n, <<>>, <<>>)
Tr(k, trees) == Fragment("tr", 0, <<k>>, trees)
Branch(t, u) == Frag2("{}", t, u)

RECURSIVE Nest(_, _)
Nest(n, t) == IF n = 0 THEN t ELSE Frag2("and_v", Frag1("v", Nest(n - 1, t)), Pk(3))

Keys(n) == [i \in 1 .. n |-> Key(i - 1)]

\* Scripts of one key, some keys, a lock or a hash, wrapped or combined.
SmallScripts ==
  {Pk(0), KeyFrag("pk_k", Key2(1)), KeyFrag("pk_h", Plain(12, 0, 7)), KeyFrag("pkh", Key(0)), PkMusig,
   KeyFrag("pk", Plain(0, HardenedIndex, 1)), Fragment("0", 0, <<>>, <<>>), Fragment("1", 0, <<>>, <<>>),
   Lock("older", 10), Lock("after", 0), Lock("after", MaxOlderAfter), Lock("older", MaxNumber),
   Fragment("sha256", 1, <<>>, <<>>), Fragment("hash160", 2, <<>>, <<>>)}
  \cup {MultiFrag(f, k, Keys(n)) : f \in MultiFragments, k \in 0 .. 2, n \in 1 .. 5}

Scripts ==
  SmallScripts
  \cup {Frag1(w, s) : w \in {"a", "v"}, s \in {Pk(0), PkMusig, Frag1("s", Pk(1)), Frag1("j", Frag1("n", Lock("older", 1)))}}
  \cup {Frag2(f, s, Frag1("c", Pk(3))) : f \in {"and_v", "or_i"}, s \in {Pk(0), PkMusig, Frag1("v", Pk(2))}}
  \cup {Fragment("andor", 0, <<>>, <<Pk(0), s, Pk(1)>>) : s \in {Lock("older", 1), Nest(1, Pk(2))}}
  \cup {Fragment("thresh", k, <<>>, ss) : k \in 0 .. 3, ss \in {<<Pk(0), Frag1("s", Pk(1))>>, <<Nest(1, Pk(0)), PkMusig>>}}
  \cup {Nest(n, Pk(0)) : n \in 1 .. MaxParseDepth}

Trees ==
  {<<>>} \cup {<<s>> : s \in Scripts}
  \cup {<<Branch(s, Pk(1))>> : s \in {Pk(0), PkMusig, Nest(2, Pk(2)), MultiFrag("multi_a", 2, Keys(3))}}
  \cup {<<Branch(Branch(Pk(0), Pk(2)), Branch(PkMusig, Lock("older", 3)))>>,
        <<Branch(Pk(0), Branch(Pk(1), Branch(Pk(2), Branch(Pk(3), Pk(4)))))>>}

Templates ==
  Scripts
  \cup {Frag1(f, s) : f \in {"sh", "wsh"}, s \in Scripts \cup {KeyFrag("wpkh", Key(0)), Tr(Key(0), <<>>)}}
  \cup {Frag1("sh", Frag1("wsh", s)) : s \in Scripts} \cup {Frag1("wsh", Frag1("wsh", Pk(0)))}
  \cup {KeyFrag("wpkh", Key(3)), Tr(Key(0), <<Tr(Key(0), <<>>)>>)}
  \cup {Tr(k, tree) : k \in {Key(7), MusigOf(<<2, 0>>, 0, 1), MusigOf(<<1, 1>>, 0, 1), MusigOf(<<3>>, 0, 1)}, tree \in Trees}

\* What a slip makes of a text: a token lost, doubled, swapped or changed.
TextSlips(text) ==
  {RemoveAt(text, i) : i \in DOMAIN text}
  \cup {InsertAt(text, i, text[i]) : i \in DOMAIN text}
  \cup {[text EXCEPT ![i] = text[i + 1], ![i + 1] = text[i]] : i \in 1 .. Len(text) - 1}
  \cup {[text EXCEPT ![i] = tok] : i \in DOMAIN text,
          tok \in {Digit(0), Digit(1), Mark(","), Mark(":"), Mark("'"), Mark(")"), Letter("v"), Letter("h"),
                   Open("pk"), Open("wsh"), Open("foo")}}

SlippedTemplates ==
  {Frag1("wsh", Fragment("thresh", 2, <<>>, <<Pk(0), Frag1("s", Pk(1)), Frag1("a", Lock("older", 10))>>)),
   Frag1("sh", Frag1("wsh", Frag2("or_d", MultiFrag("multi", 2, Keys(3)), Nest(1, KeyFrag("pkh", Key2(4)))))),
   Tr(MusigOf(<<0, 1>>, 0, 1), <<Branch(Pk(0), Fragment("sha256", 5, <<>>, <<>>))>>),
   Frag1("wsh", Fragment("andor", 0, <<>>, <<Pk(0), Lock("after", 1), Fragment("0", 0, <<>>, <<>>)>>)),
   KeyFrag("wpkh", Plain(0, 0, 12))}

Texts == UNION {TextSlips(Display(t)) : t \in SlippedTemplates}

Infos ==
  {[i \in 1 .. n |-> [pubkey |-> 40 + i,
                      origin |-> IF i \in with THEN <<[fingerprint |-> 9, path |-> [j \in 1 .. len |-> j * 30]]>> ELSE <<>>]] :
     n \in {0, 1, 2, 5}, with \in SUBSET {1, 2}, len \in {0, 2, 3, 4}}

PolicyCases ==
  {[kind |-> "template", t |-> t] : t \in Templates}
  \cup {[kind |-> "text", text |-> text] : text \in Texts}
  \cup {[kind |-> "policy", t |-> t, infos |-> infos, change |-> c] :
          t \in {u \in SlippedTemplates \cup {Tr(Key(0), <<>>), Frag1("wsh", Pk(1))} : TRUE},
          infos \in Infos, c \in BOOLEAN}

\* Policies with a description: leaves of each shape, alone and together.
Leaves ==
  {Pk(0), KeyFrag("pk", Key2(0)), Nest(0, Pk(1)), PkMusig, Frag2("and_v", Frag1("v", Pk(1)), Pk(2)),
   MultiFrag("sortedmulti_a", 2, Keys(2)), MultiFrag("multi_a", 2, <<Key(2), Key(3)>>), MultiFrag("multi_a", 1, <<Key(3), Key(2)>>),
   Frag2("and_v", Frag1("v", Pk(2)), Lock("older", 10)), Frag2("and_v", Frag1("v", PkMusig), Lock("after", 7)),
   Frag2("and_v", Frag1("v", PkMusig), MultiFrag("multi_a", 2, <<Key(3), Key(4)>>)),
   Frag2("and_v", Frag1("v", Pk(1)), Lock("older", 0)), KeyFrag("pk_h", Key(3))}

DescribedTemplates ==
  {KeyFrag(f, k) : f \in {"pkh", "wpkh"}, k \in {Key(0), Key2(0)}}
  \cup {Frag1("sh", KeyFrag("wpkh", Key(2)))}
  \cup {Frag1("wsh", MultiFrag(f, k, keys)) :
          f \in {"multi", "sortedmulti"}, k \in 1 .. 2, keys \in {Keys(2), Keys(3), <<Key(1), Key2(1)>>}}
  \cup {Frag1("sh", Frag1("wsh", MultiFrag("multi", 1, Keys(3))))}
  \cup {Tr(k, tree) : k \in {Key(9), MusigOf(<<8, 9>>, 0, 1)}, tree \in {<<>>} \cup {<<s>> : s \in Leaves}}
  \cup {Tr(Key(9), tree) :
          tree \in {<<Branch(s, r)>> : s, r \in Leaves}
                   \cup {<<Branch(Branch(Pk(5), s), r)>> : s, r \in {Pk(6), PkMusig, KeyFrag("pk_h", Key(3)),
                                                                     Frag2("and_v", Frag1("v", Pk(2)), Lock("older", 10))}}}
  \cup {Tr(Key(9), <<Branch(MultiFrag("multi_a", 2, <<Key(0), Key(1)>>), Branch(Pk(5), Branch(Pk(6), Pk(7))))>>),
        Tr(Key(0), <<Branch(KeyFrag("pk", Key2(0)), KeyFrag("pk", Plain(0, 4, 5)))>>),
        Tr(Key2(0), <<Branch(Pk(0), KeyFrag("pk", Plain(0, 4, 5)))>>),
        Tr(MusigOf(<<0, 1>>, 2, 3), <<PkMusig>>)}

Locks ==
  {Relative(n) : n \in {1, 2, 144, 4095, 65535} \cup {TypeFlag + i : i \in {1, 2, 7, 168, 169, 337, 5062, 65535}}}
  \cup {Absolute(n) : n \in {1, 2, 800000, 499999999, 500000000, 500000001, 951782399, 951782400, 951868799, 951868800,
                             978307199, 978307200, 567993600, 583891200, 999999999}}
  \cup {Absolute(500083200 + 86400 * i) : i \in 0 .. 1500}

CleartextCases ==
  {[kind |-> "description", t |-> t] : t \in DescribedTemplates}
  \cup {[kind |-> "lock", lock |-> lock] : lock \in Locks}

\* Well-typed miniscripts.  An expression of Dissat leaves 1 or 0 as the
\* witness chooses; one behind "a" or "s" finds its arguments under a result.
Sha == Fragment("sha256", 1, <<>>, <<>>)
Older == Lock("older", 10)
KeyHash(i) == KeyFrag("pkh", Key(i))
MultiOf(ctx, k) == MultiFrag(IF ctx = "Tr" THEN "multi_a" ELSE "multi", k, Keys(3))
V(x) == Frag1("v", x)

Dissat(ctx) == {Pk(0), KeyHash(0), MultiOf(ctx, 2), Sha, Frag1("j", Pk(0)), Frag1("u", Pk(0)), Frag1("n", Frag1("l", Older))}
BaseScripts(ctx) == {Pk(1), Older, Lock("after", 10), Frag1("n", Fragment("hash160", 1, <<>>, <<>>)), MultiOf(ctx, 1),
             Frag1("t", V(KeyHash(1))), Frag1("c", KeyFrag("pk_h", Key(2))), Fragment("0", 0, <<>>, <<>>)}
Second(ctx) == {Frag1("s", Pk(1)), Frag1("a", KeyHash(1)), Frag1("a", MultiOf(ctx, 2)), Frag1("a", Frag1("d", V(Older))),
                Frag1("s", Fragment("hash256", 1, <<>>, <<>>))}

Combined(xs, ws, ys) ==
  {Frag2("and_v", V(x), y) : x \in xs \cup ys, y \in ys} \cup {Frag2(f, x, w) : f \in {"and_b", "or_b"}, x \in xs, w \in ws}
  \cup {Frag2(f, x, y) : f \in {"and_n", "or_d", "or_i"}, x \in xs, y \in ys}
  \cup {Frag1("t", Frag2("or_c", x, V(y))) : x \in xs, y \in ys}

Miniscripts(ctx) ==
  LET thresh == {Fragment("thresh", k, <<>>, <<x, w, Frag1("s", Pk(2))>>) :
                   k \in 1 .. 3, x \in {Pk(0), Sha}, w \in Second(ctx)}
      deep == {Frag2("and_b", Pk(0), Frag1("a", Frag1("u", Sha))),
               Frag2("or_b", Sha, Frag1("a", Frag2("and_n", Pk(0), Pk(1)))), Frag2("or_i", Fragment("0", 0, <<>>, <<>>), Older)}
  IN Dissat(ctx) \cup thresh \cup Combined(Dissat(ctx), Second(ctx), BaseScripts(ctx))
     \cup Combined({Frag2("and_n", Pk(0), Pk(1)), Frag2("or_b", Sha, Frag1("s", Pk(1)))}, {Frag1("a", d) : d \in deep}, deep \cup {Frag2("or_d", Pk(2), Frag2("and_v", V(Pk(0)), Older))})

AndorCases ==
  {[t |-> Fragment("andor", 0, <<>>, <<x, y, z>>), ctx |-> ctx] :
     x \in {Pk(0), Sha}, y \in {Pk(1), Older}, z \in {Pk(2), Fragment("0", 0, <<>>, <<>>)}, ctx \in {"Wsh", "Tr"}}

\* A wallet policy without a cleartext description, with a hardened step or not.
StepCases ==
  {<<Open("wpkh"), Mark("@"), Digit(0), Mark("/<"), Digit(0)>> \o h \o <<Mark(";"), Digit(5), Mark(">/*"), Mark(")")>> :
     h \in {<<>>, <<Mark("'")>>}}

\* Two cosigners of the spending condition are also a leaf of their own.
ScoreCases == {Tr(Key(9), <<Branch(PkMusig, Pk(i))>>) : i \in {0, 3}}

ThreeInfos == [i \in 1 .. 3 |-> [pubkey |-> 40 + i, origin |-> <<>>]]

ScriptCases ==
  UNION {{[kind |-> "script", t |-> t, ctx |-> ctx] : t \in Miniscripts(ctx)} : ctx \in {"Wsh", "Tr"}}
  \cup {[kind |-> "order", t |-> Frag1("wsh", MultiFrag(f, 2, keys))] :
          f \in {"multi", "sortedmulti"}, keys \in {<<Key(0), Key(1)>>, Keys(3), <<Key(2), Key2(2), Key(1)>>}}
  \cup {[kind |-> "order", t |-> Tr(Key(0), <<Branch(Branch(Pk(0), s), Branch(PkMusig, r))>>)] :
          s, r \in {Pk(1), Pk(2), Sha, MultiFrag("sortedmulti_a", 2, Keys(3)), MultiFrag("multi", 2, Keys(3))}}

-----------------------------------------------------------------------------
TextIsExact(s) ==
  /\ s.kind = "template" => PrintedExactly(s.t) /\ (IsLegal(s.t) => KeysInOrder(s.t))
  /\ s.kind = "text" => ParsedExactly(s.text)

EncodingIsExact(s) ==
  s.kind = "policy" => DescriptorExact(s.t, s.infos, s.change, 5) /\ PolicyEncoded(Display(s.t), s.infos)

DescriptionIsFaithful(s) ==
  /\ s.kind = "description" => DescriptionFaithful(s.t)
  /\ s.kind = "lock" => LockFaithful(s.lock)

\* "Work for any kind of spending conditions, including using miniscript"
\* (docs/README.md:13 of the Bitcoin app).
AndorIsRight(s) == ScriptMeansPolicy(s.t, ThreeInfos, FALSE, 5, s.ctx)

ScriptIsRight(s) ==
  /\ s.kind = "script" => ScriptMeansPolicy(s.t, ThreeInfos, FALSE, 5, s.ctx)
  /\ s.kind = "order" => OrderInScript(s.t, ThreeInfos, TRUE, 6)
=============================================================================
