----------------------------- MODULE Cleartext ------------------------------
(***************************************************************************)
(* The plain-language description of a wallet policy, the search for all   *)
(* templates that a description may stand for, and the score that bounds   *)
(* how many there are.  The shapes that have a description are those of    *)
(* cleartext.toml; build.rs compiles each into a matcher, a printer, a     *)
(* parser and a constructor, which are operators on the shapes here.       *)
(***************************************************************************)
EXTENDS Bip388

\* Text: the tokens of Bip388, words, and single spaces.
Words(ws) == [i \in DOMAIN ws |-> Mark(ws[i])]
Space == Mark(" ")

-----------------------------------------------------------------------------
\* Shapes.  An argument of a pattern binds a field, is a pattern of its own
\* (below wrappers), or is a sub-policy (below wrappers).
Arg(a, wrappers, sub) == [a |-> a, w |-> wrappers, sub |-> sub]
Bind(kind) == Arg(kind, <<>>, <<>>)
Pattern(f, args) == [f |-> f, args |-> args]
Nested(f, args) == Arg("pattern", <<>>, <<Pattern(f, args)>>)
Under(w, f, args) == Arg("pattern", <<w>>, <<Pattern(f, args)>>)
Policy(wrappers) == Arg("sub", wrappers, <<>>)

\* Parts of a description: words, or the i-th field of a kind.
Lit(ws) == [p |-> "literal", text |-> Words(ws), i |-> 0]
Field(kind, i) == [p |-> kind, text |-> <<>>, i |-> i]

Entry(name, patterns, parts) == [name |-> name, patterns |-> patterns, parts |-> parts]

Quorum == <<Bind("threshold"), Bind("keys")>>

TOP_LEVEL_SPECS == <<
  Entry("LegacySingleSig", <<Pattern("pkh", <<Bind("key")>>)>>,
        <<Lit(<<"Legacy", " ", "single-signature", " ", "(">>), Field("key", 1), Lit(<<")">>)>>),
  Entry("SegwitSingleSig",
        <<Pattern("wpkh", <<Bind("key")>>), Pattern("sh", <<Nested("wpkh", <<Bind("key")>>)>>)>>,
        <<Lit(<<"Segwit", " ", "single-signature", " ", "(">>), Field("key", 1), Lit(<<")">>)>>),
  Entry("SegwitMultisig",
        <<Pattern("wsh", <<Nested("multi", Quorum)>>), Pattern("wsh", <<Nested("sortedmulti", Quorum)>>),
          Pattern("sh", <<Nested("wsh", <<Nested("multi", Quorum)>>)>>),
          Pattern("sh", <<Nested("wsh", <<Nested("sortedmulti", Quorum)>>)>>)>>,
        <<Field("threshold", 1), Lit(<<" ", "of", " ">>), Field("keys", 1), Lit(<<" ", "(SegWit)">>)>>),
  Entry("Taproot", <<Pattern("tr", <<Bind("key"), Bind("leaves")>>)>>,
        <<Lit(<<"Primary", " ", "path:", " ">>), Field("key", 1)>>),
  Entry("TaprootMusig", <<Pattern("tr", <<Bind("musig"), Bind("leaves")>>)>>,
        <<Lit(<<"Primary", " ", "path:", " ">>), Field("threshold", 1), Lit(<<" ", "of", " ">>), Field("keys", 1)>>)>>

TAPLEAF_SPECS == <<
  Entry("SingleSig", <<Pattern("pk", <<Bind("key")>>)>>,
        <<Lit(<<"Single-signature", " ", "(">>), Field("key", 1), Lit(<<")">>)>>),
  Entry("BothMustSign", <<Pattern("and_v", <<Under("v", "pk", <<Bind("key")>>), Nested("pk", <<Bind("key")>>)>>)>>,
        <<Lit(<<"Both", " ">>), Field("key", 1), Lit(<<" ", "and", " ">>), Field("key", 2),
          Lit(<<" ", "must", " ", "sign">>)>>),
  Entry("SortedMultisig", <<Pattern("sortedmulti_a", Quorum)>>,
        <<Field("threshold", 1), Lit(<<" ", "of", " ">>), Field("keys", 1), Lit(<<" ", "(sorted)">>)>>),
  Entry("Multisig", <<Pattern("multi_a", Quorum), Pattern("pk", <<Bind("musig")>>)>>,
        <<Field("threshold", 1), Lit(<<" ", "of", " ">>), Field("keys", 1)>>),
  Entry("Timelocked", <<Pattern("and_v", <<Policy(<<"v">>), Bind("timelock")>>)>>,
        <<Field("sub", 1), Lit(<<" ", "after", " ">>), Field("timelock", 1)>>),
  Entry("AndV", <<Pattern("and_v", <<Policy(<<"v">>), Policy(<<>>)>>)>>,
        <<Field("sub", 1), Lit(<<",", " ", "and", " ">>), Field("sub", 2)>>)>>

\* What a match has bound; a class is such a record with a name.
Nothing == [keys |-> <<>>, n |-> 0, lock |-> <<>>, subs |-> <<>>, leaves |-> <<>>]
Both(b, c) == [keys |-> b.keys \o c.keys, n |-> b.n + c.n, lock |-> b.lock \o c.lock,
               subs |-> b.subs \o c.subs, leaves |-> b.leaves \o c.leaves]
Class(name, b) == [name |-> name, b |-> b, raw |-> <<>>]
Other(raw) == [name |-> "Other", b |-> Nothing, raw |-> raw]

IsCombinator(entry) == \E i \in DOMAIN entry.parts : entry.parts[i].p = "sub"
CombinatorNames == {TAPLEAF_SPECS[i].name : i \in {j \in DOMAIN TAPLEAF_SPECS : IsCombinator(TAPLEAF_SPECS[j])}}
EntryOf(specs, name) == specs[SelectInSeq(specs, LAMBDA e : e.name = name)]

uses_musig(pat) == \E i \in DOMAIN pat.args : pat.args[i].a = "musig"

-----------------------------------------------------------------------------
\* Locks, and their words.
TypeFlag == 4194304          \* SEQUENCE_LOCKTIME_TYPE_FLAG
LocktimeThreshold == 500000000
RelativeLockLimit == 65536

Relative(n) == [relative |-> TRUE, n |-> n]
Absolute(n) == [relative |-> FALSE, n |-> n]

is_valid_relative_locktime(n) ==
  n \in 1 .. RelativeLockLimit - 1 \/ n \in TypeFlag + 1 .. TypeFlag + RelativeLockLimit - 1

is_valid_absolute_locktime(n) == n >= 1

Padded(n, width) == LET text == NumberText(n) IN [i \in 1 .. width - Len(text) |-> Digit(0)] \o text

TimeText(time) ==
  <<Space>> \o Padded(time \div 3600, 2) \o <<Mark(":")>> \o Padded((time % 3600) \div 60, 2)
  \o <<Mark(":")>> \o Padded(time % 60, 2)

\* Howard Hinnant's algorithm, for dates after the year 0.
CivilFromDays(days) ==
  LET z == days + 719468
      doe == z % 146097
      yoe == (doe - (doe \div 1460) + (doe \div 36524) - (doe \div 146096)) \div 365
      doy == doe - (365 * yoe + (yoe \div 4) - (yoe \div 100))
      mp == (5 * doy + 2) \div 153
      m == IF mp < 10 THEN mp + 3 ELSE mp - 9
  IN <<yoe + (z \div 146097) * 400 + (IF m <= 2 THEN 1 ELSE 0), m, doy - ((153 * mp + 2) \div 5) + 1>>

format_utc_date(timestamp) ==
  LET c == CivilFromDays(timestamp \div 86400)
      time == timestamp % 86400
  IN Padded(c[1], 4) \o <<Mark("-")>> \o Padded(c[2], 2) \o <<Mark("-")>> \o Padded(c[3], 2)
     \o (IF time = 0 THEN <<>> ELSE TimeText(time))

days_from_civil(year, m, d) ==
  LET y == IF m <= 2 THEN year - 1 ELSE year
      yoe == y % 400
      doy == ((153 * (IF m > 2 THEN m - 3 ELSE m + 9) + 2) \div 5) + d - 1
  IN (y \div 400) * 146097 + (yoe * 365 + (yoe \div 4) - (yoe \div 100) + doy) - 719468

\* str::parse::<u32>: <<>> or <<n>>.
Number(text) ==
  IF text = <<>> \/ Len(text) > 9 \/ \E i \in DOMAIN text : text[i].t # "digit" THEN <<>>
  ELSE <<FoldLeft(LAMBDA acc, tok : 10 * acc + tok.n, 0, text)>>

\* The pieces of a text between single marks; the last of "limit" pieces
\* takes all the rest (splitn).
RECURSIVE Split(_, _, _)
Split(text, mark, limit) ==
  LET at == {i \in DOMAIN text : text[i] = mark}
  IN IF at = {} \/ limit = 1 THEN <<text>>
     ELSE <<SubSeq(text, 1, Min(at) - 1)>> \o Split(SubSeq(text, Min(at) + 1, Len(text)), mark, limit - 1)

Numbers(texts) == FlattenSeq(Map(Number, texts))  \* fewer than texts if one is no number

parse_utc_date_to_timestamp(text) ==
  LET halves == Split(text, Space, 2)
      ymd == Numbers(Split(halves[1], Mark("-"), 3))
      hms == IF Len(halves) = 1 THEN <<0, 0, 0>> ELSE Numbers(Split(halves[2], Mark(":"), 3))
      stamp == days_from_civil(ymd[1], ymd[2], ymd[3]) * 86400 + hms[1] * 3600 + hms[2] * 60 + hms[3]
  IN IF /\ Len(ymd) = 3 /\ Len(hms) = 3
        /\ ymd[2] \in 1 .. 12 /\ ymd[3] \in 1 .. 31
        /\ hms[1] < 24 /\ hms[2] < 60 /\ hms[3] < 60
        /\ stamp >= 0 /\ format_utc_date(stamp) = text
     THEN <<stamp>> ELSE <<>>

Units == <<[unit |-> Mark("d"), secs |-> 86400], [unit |-> Mark("h"), secs |-> 3600],
           [unit |-> Mark("m"), secs |-> 60], [unit |-> Mark("s"), secs |-> 1]>>

format_seconds(secs) ==
  LET count == <<secs \div 86400, (secs % 86400) \div 3600, (secs % 3600) \div 60, secs % 60>>
      shown == SetToSortSeq({u \in 1 .. 4 : count[u] > 0}, <)
      part(u) == NumberText(count[u]) \o <<Units[u].unit>>
  IN IF shown = <<>> THEN <<Digit(0), Mark("s")>>
     ELSE FoldLeft(LAMBDA acc, u : IF acc = <<>> THEN part(u) ELSE acc \o <<Space>> \o part(u), <<>>, shown)

parse_relative_time_to_seconds(text) ==
  LET tokens == SelectSeq(Split(text, Space, Len(text) + 1), LAMBDA tok : tok # <<>>)
      unit(i) == {u \in 1 .. 4 : Units[u].unit = Last(tokens[i])}
      n(i) == Number(Front(tokens[i]))
  IN IF \/ tokens = <<>>
        \/ \E i \in DOMAIN tokens : unit(i) = {} \/ n(i) = <<>>
        \/ \E i \in 1 .. Len(tokens) - 1 : Max(unit(i)) >= Max(unit(i + 1))
     THEN <<>>
     ELSE <<FoldLeft(LAMBDA acc, i : acc + n(i)[1] * Units[Max(unit(i))].secs, 0, [i \in DOMAIN tokens |-> i])>>

format_timelock(lock) ==
  CASE lock.relative /\ lock.n >= TypeFlag -> format_seconds((lock.n - TypeFlag) * 512)
    [] lock.relative /\ lock.n < TypeFlag -> NumberText(lock.n) \o <<Space, Mark("blocks")>>
    [] ~lock.relative /\ lock.n < LocktimeThreshold -> Words(<<"block", " ", "height", " ">>) \o NumberText(lock.n)
    [] OTHER -> Words(<<"date", " ">>) \o format_utc_date(lock.n)

Dropped(text, n) == SubSeq(text, n + 1, Len(text))
Within(ns, low, high) == ns # <<>> /\ ns[1] \in low .. high

parse_timelock(text) ==
  LET blocks == Number(SubSeq(text, 1, Len(text) - 2))
      height == Number(Dropped(text, 4))
      date == parse_utc_date_to_timestamp(Dropped(text, 2))
      secs == parse_relative_time_to_seconds(text)
  IN CASE IsSuffix(<<Space, Mark("blocks")>>, text) ->
            IF Within(blocks, 1, RelativeLockLimit - 1) THEN <<Relative(blocks[1])>> ELSE <<>>
       [] IsPrefix(Words(<<"block", " ", "height", " ">>), text) ->
            IF Within(height, 1, LocktimeThreshold - 1) THEN <<Absolute(height[1])>> ELSE <<>>
       [] IsPrefix(Words(<<"date", " ">>), text) ->
            IF Within(date, LocktimeThreshold, MaxNumber) THEN <<Absolute(date[1])>> ELSE <<>>
       [] OTHER -> IF secs # <<>> /\ secs[1] % 512 = 0 /\ secs[1] \div 512 \in 1 .. RelativeLockLimit - 1
                   THEN <<Relative(secs[1] \div 512 + TypeFlag)>> ELSE <<>>

TimelockTemplate(lock) == Fragment(IF lock.relative THEN "older" ELSE "after", lock.n, <<>>, <<>>)

-----------------------------------------------------------------------------
\* Classification.  A match is <<>> or <<what it bound>>.

RECURSIVE Unwrapped(_, _)
Unwrapped(t, wrappers) ==  \* <<>> or <<the template below the wrappers>>
  IF wrappers = <<>> THEN <<t>>
  ELSE IF t.f # Head(wrappers) THEN <<>> ELSE Unwrapped(t.subs[1], Tail(wrappers))

TimelockOf(t) ==
  CASE t.f = "older" /\ is_valid_relative_locktime(t.num) -> <<[Nothing EXCEPT !.lock = <<Relative(t.num)>>]>>
    [] t.f = "after" /\ is_valid_absolute_locktime(t.num) -> <<[Nothing EXCEPT !.lock = <<Absolute(t.num)>>]>>
    [] OTHER -> <<>>

IsPlain(k) == ~k.musig
AllPlain(keys) == \A i \in DOMAIN keys : IsPlain(keys[i])

RECURSIVE MatchArg(_, _, _), Match(_, _), classify_as_tapleaf(_)

MatchArg(arg, t, i) ==
  LET key == t.keys[1]
      inner == Unwrapped(t.subs[i], arg.w)
      class == classify_as_tapleaf(inner[1])
      leaves == tapleaves(t.subs[1])
  IN CASE arg.a = "key" -> IF IsPlain(key) THEN <<[Nothing EXCEPT !.keys = <<key>>]>> ELSE <<>>
       [] arg.a = "musig" ->
            IF ~key.musig THEN <<>>
            ELSE <<[Nothing EXCEPT !.keys = [j \in DOMAIN key.idx |-> Plain(key.idx[j], key.num1, key.num2)],
                                   !.n = Len(key.idx)]>>
       [] arg.a = "threshold" -> <<[Nothing EXCEPT !.n = t.num]>>
       [] arg.a = "keys" -> IF AllPlain(t.keys) THEN <<[Nothing EXCEPT !.keys = t.keys]>> ELSE <<>>
       [] arg.a = "leaves" ->
            IF t.subs = <<>> THEN <<Nothing>>
            ELSE <<[Nothing EXCEPT !.leaves = Map(classify_as_tapleaf, leaves)]>>
       [] arg.a = "timelock" -> TimelockOf(t.subs[i])
       [] arg.a = "pattern" -> IF inner = <<>> THEN <<>> ELSE Match(arg.sub[1], inner[1])
       [] arg.a = "sub" ->
            IF inner = <<>> THEN <<>>
            ELSE IF class.name \in {"Other"} \cup CombinatorNames THEN <<>>
            ELSE <<[Nothing EXCEPT !.subs = <<class>>]>>

Match(pat, t) ==
  LET args == [i \in DOMAIN pat.args |-> MatchArg(pat.args[i], t, i)]
  IN IF t.f # pat.f \/ \E i \in DOMAIN args : args[i] = <<>> THEN <<>>
     ELSE <<FoldLeft(LAMBDA acc, m : Both(acc, m[1]), Nothing, args)>>

\* Every pattern with the name of its entry, in the order they are tried.
Rules(specs) ==
  FlattenSeq([e \in DOMAIN specs |->
    [p \in DOMAIN specs[e].patterns |-> [name |-> specs[e].name, pat |-> specs[e].patterns[p]]]])
TopRules == Rules(TOP_LEVEL_SPECS)
LeafRules == Rules(TAPLEAF_SPECS)

FirstMatch(rules, t, other) ==
  LET i == SelectInSeq(rules, LAMBDA r : Match(r.pat, t) # <<>>)
  IN IF i = 0 THEN other ELSE Class(rules[i].name, Match(rules[i].pat, t)[1])

classify_as_tapleaf(t) == FirstMatch(LeafRules, t, Other(Display(t)))
classify(t) == FirstMatch(TopRules, t, Other(<<>>))

-----------------------------------------------------------------------------
\* The description.

SpelledPair(k) == <<Mark("/<")>> \o NumberText(k.num1) \o <<Mark(";")>> \o NumberText(k.num2) \o <<Mark(">/*")>>

format_key(k, canonical) ==
  (IF k.musig THEN <<Open("musig")>> \o Joined(Map(IndexText, k.idx)) \o <<Mark(")")>> ELSE IndexText(k.idx[1]))
  \o (IF canonical THEN <<>> ELSE SpelledPair(k))

format_key_indices(keys, canonical) ==
  LET text(i) == format_key(keys[i], canonical)
      init == FoldLeft(LAMBDA acc, i : IF acc = <<>> THEN text(i) ELSE acc \o <<Mark(","), Space>> \o text(i),
                       <<>>, [i \in 1 .. Len(keys) - 1 |-> i])
  IN IF keys = <<>> THEN <<>>
     ELSE IF Len(keys) = 1 THEN text(1)
     ELSE init \o Words(<<" ", "and", " ">>) \o text(Len(keys))

RECURSIVE LeafText(_, _)
format_cleartext_value(part, b, canonical) ==
  CASE part.p = "threshold" -> NumberText(b.n)
    [] part.p = "key" -> format_key(b.keys[part.i], canonical)
    [] part.p = "keys" -> format_key_indices(b.keys, canonical)
    [] part.p = "timelock" -> format_timelock(b.lock[1])
    [] part.p = "sub" -> LeafText(b.subs[part.i], canonical)

format_with_spec(spec, b, canonical) ==
  FlattenSeq([i \in DOMAIN spec.parts |->
    IF spec.parts[i].p = "literal" THEN spec.parts[i].text ELSE format_cleartext_value(spec.parts[i], b, canonical)])

LeafText(class, canonical) == format_with_spec(EntryOf(TAPLEAF_SPECS, class.name), class.b, canonical)
TopText(class, canonical) == format_with_spec(EntryOf(TOP_LEVEL_SPECS, class.name), class.b, canonical)

\* Orders: -1, 0 or 1.
Cmp(a, b) == IF a < b THEN -1 ELSE IF a = b THEN 0 ELSE 1
ThenCmp(c, d) == IF c # 0 THEN c ELSE d

RECURSIVE CmpSeq(_, _)
CmpSeq(a, b) ==
  IF a = <<>> \/ b = <<>> THEN Cmp(Len(a), Len(b)) ELSE ThenCmp(Cmp(Head(a), Head(b)), CmpSeq(Tail(a), Tail(b)))

\* Raw texts are compared byte by byte; the alphabet stands for that order.
Alphabet == <<"'", ")", ",", "/**", "/<", ":", ";", ">/*", "@", "after", "and_v", "musig", "older", "pk", "pk_h",
              "pkh", "s", "thresh", "v">>
TokenRank(tok) == IF tok.t = "digit" THEN 50 + tok.n
                  ELSE LET i == SelectInSeq(Alphabet, LAMBDA s : s = tok.s) IN IF i <= 5 THEN i ELSE 60 + i
CmpText(a, b) == CmpSeq(Map(TokenRank, a), Map(TokenRank, b))

KeyTypeOf(k) == <<k.musig, k.idx>>

cmp_key(a, b) ==
  IF a.musig # b.musig THEN (IF b.musig THEN -1 ELSE 1)
  ELSE IF ~a.musig THEN Cmp(a.idx[1], b.idx[1])
  ELSE ThenCmp(Cmp(Len(a.idx), Len(b.idx)), CmpSeq(a.idx, b.idx))

order(class) == IF class.name = "Other" THEN Len(TAPLEAF_SPECS)
                ELSE SelectInSeq(TAPLEAF_SPECS, LAMBDA e : e.name = class.name) - 1

RECURSIVE display_cmp(_, _)
display_cmp(c, d) ==
  LET k == c.b.keys
      l == d.b.keys
  IN CASE order(c) # order(d) -> Cmp(order(c), order(d))
       [] c.name = d.name /\ c.name \in {"SingleSig", "BothMustSign"} ->
            FoldRight(LAMBDA i, rest : ThenCmp(cmp_key(k[i], l[i]), rest), [i \in DOMAIN k |-> i], 0)
       [] c.name = d.name /\ c.name \in {"SortedMultisig", "Multisig"} ->
            ThenCmp(Cmp(Len(k), Len(l)), Cmp(c.b.n, d.b.n))
       [] c.name = d.name /\ c.name = "Timelocked" ->
            ThenCmp(display_cmp(c.b.subs[1], d.b.subs[1]),
                    ThenCmp(IF c.b.lock[1].relative = d.b.lock[1].relative THEN 0
                            ELSE IF c.b.lock[1].relative THEN -1 ELSE 1,
                            Cmp(c.b.lock[1].n, d.b.lock[1].n)))
       [] c.name = d.name /\ c.name = "AndV" ->
            ThenCmp(display_cmp(c.b.subs[1], d.b.subs[1]), display_cmp(c.b.subs[2], d.b.subs[2]))
       [] c.name = d.name /\ c.name = "Other" -> CmpText(c.raw, d.raw)

\* sort_by is stable.
Sorted(leaves) ==
  FoldLeft(LAMBDA acc, c : LET n == Cardinality({i \in DOMAIN acc : display_cmp(acc[i], c) <= 0})
                           IN InsertAt(acc, n + 1, c),
           <<>>, leaves)

KeyTypes(t) == {KeyTypeOf(placeholders(t)[i].item) : i \in DOMAIN placeholders(t)}
PairsOf(t, type) ==  \* the pairs of derivation numbers of a key, in the order of the text
  LET mine == SelectSeq(placeholders(t), LAMBDA ph : KeyTypeOf(ph.item) = type)
  IN [i \in DOMAIN mine |-> <<mine[i].item.num1, mine[i].item.num2>>]

are_key_derivations_canonical(t) ==
  \A type \in KeyTypes(t) :
    LET sorted == SortSeq(PairsOf(t, type), LAMBDA p, q : CmpSeq(p, q) < 0)
    IN \A i \in DOMAIN sorted : sorted[i] = <<2 * (i - 1), 2 * (i - 1) + 1>>

to_cleartext(t) ==
  LET class == classify(t)
      leaves == Sorted(class.b.leaves)
      line(c) == IF c.name = "Other" THEN c.raw ELSE LeafText(c, TRUE)
  IN IF ~are_key_derivations_canonical(t) \/ class.name = "Other"
     THEN [lines |-> <<Display(t)>>, all |-> FALSE]
     ELSE [lines |-> <<TopText(class, TRUE)>> \o Map(line, leaves),
           all |-> \A i \in DOMAIN leaves : leaves[i].name # "Other"]

-----------------------------------------------------------------------------
\* The score.

Factorial(n) == FoldLeft(LAMBDA acc, i : acc * i, 1, [i \in 1 .. n |-> i])
ProductOf(ns) == FoldLeft(LAMBDA acc, n : acc * n, 1, ns)

key_derivation_orderings_count(t) ==
  LET types == SetToSeq(KeyTypes(t))
  IN ProductOf([i \in DOMAIN types |-> Factorial(Len(PairsOf(t, types[i])))])

RECURSIVE Score(_, _)
Score(specs, class) ==
  LET entry == EntryOf(specs, class.name)
      fits(pat) == uses_musig(pat) => class.b.n = Len(class.b.keys)
      subs == class.b.subs
  IN IF class.name = "Other" THEN 1
     ELSE IF IsCombinator(entry) THEN ProductOf([i \in DOMAIN subs |-> Score(TAPLEAF_SPECS, subs[i])])
     ELSE Len(SelectSeq(entry.patterns, fits))

outer_score(class) == Score(TOP_LEVEL_SPECS, class)
per_leaf_score(class) == Score(TAPLEAF_SPECS, class)

\* T(n) = (2n - 3)!!, the unordered trees with n leaves.
TreeShapes(n) == ProductOf([i \in 1 .. n - 1 |-> 2 * i - 1])

\* Mutant: one tree for every set of leaves.
ScoreOfOneTree(t) ==
  LET class == classify(t)
      leaves == class.b.leaves
      base == IF class.name \in {"Taproot", "TaprootMusig"}
              THEN outer_score(class) * ProductOf(Map(per_leaf_score, leaves)) ELSE outer_score(class)
  IN base * key_derivation_orderings_count(t)

confusion_score(t) ==
  LET class == classify(t)
      leaves == class.b.leaves
      base == IF class.name \in {"Taproot", "TaprootMusig"}
              THEN outer_score(class) * ProductOf(Map(per_leaf_score, leaves)) * TreeShapes(Len(leaves))
              ELSE outer_score(class)
  IN base * key_derivation_orderings_count(t)

-----------------------------------------------------------------------------
\* Reading a description: every way to read it, each <<>> or <<value>>.

RECURSIVE Trim(_)
Trim(text) ==
  IF text # <<>> /\ Head(text) = Space THEN Trim(Tail(text))
  ELSE IF text # <<>> /\ Last(text) = Space THEN Trim(Front(text)) ELSE text

parse_key_index(text) ==
  LET rest == Dropped(text, 1)
      plain == Number(rest)
      halves == Split(rest, Mark("/<"), 2)
      pair == Split(Front(halves[2]), Mark(";"), 2)
      ns == Numbers(<<halves[1]>> \o pair)
  IN IF ~starts_with(text, "@") THEN <<>>
     ELSE IF plain # <<>> THEN <<Plain(plain[1], 0, 1)>>
     ELSE IF Len(halves) = 1 \/ halves[2] = <<>> \/ Last(halves[2]) # Mark(">/*") \/ Len(ns) # 3 THEN <<>>
     ELSE <<Plain(ns[1], ns[2], ns[3])>>

\* Where a text holds a piece, the places not overlapping.
RECURSIVE Occurrences(_, _, _)
Occurrences(text, piece, from) ==
  LET at == {i \in from .. Len(text) - Len(piece) + 1 : SubSeq(text, i, i + Len(piece) - 1) = piece}
  IN IF at = {} THEN <<>> ELSE <<Min(at)>> \o Occurrences(text, piece, Min(at) + Len(piece))

RECURSIVE SplitBy(_, _)
SplitBy(text, piece) ==
  LET at == Occurrences(text, piece, 1)
  IN IF at = <<>> THEN <<text>>
     ELSE <<SubSeq(text, 1, at[1] - 1)>> \o SplitBy(Dropped(text, at[1] + Len(piece) - 1), piece)

parse_key_indices(text) ==
  LET sep == Words(<<" ", "and", " ">>)
      at == Occurrences(text, sep, 1)
      pieces == IF at = <<>> THEN <<text>>
                ELSE SplitBy(SubSeq(text, 1, Last(at) - 1), <<Mark(","), Space>>)
                     \o <<Dropped(text, Last(at) + Len(sep) - 1)>>
      keys == [i \in DOMAIN pieces |-> parse_key_index(Trim(pieces[i]))]
  IN IF \E i \in DOMAIN keys : keys[i] = <<>> THEN <<>> ELSE <<FlattenSeq(keys)>>

RECURSIVE parse_spec_parts(_, _, _), parse_cleartext_value(_, _), parse_tapleaf_cleartext(_)

parse_tapleaf_cleartext(text) ==
  LET found == FlattenSeq([e \in DOMAIN TAPLEAF_SPECS |->
                 IF IsCombinator(TAPLEAF_SPECS[e]) THEN <<>>
                 ELSE LET ms == parse_spec_parts(TAPLEAF_SPECS[e].parts, text, Nothing)
                      IN [i \in DOMAIN ms |-> Class(TAPLEAF_SPECS[e].name, ms[i])]])
  IN IF found = <<>> THEN <<>> ELSE <<found[1]>>

parse_cleartext_value(part, text) ==
  LET key == parse_key_index(text)
      keys == parse_key_indices(text)
      lock == parse_timelock(text)
      sub == parse_tapleaf_cleartext(text)
  IN CASE part.p = "threshold" -> IF Number(text) = <<>> THEN <<>> ELSE <<[Nothing EXCEPT !.n = Number(text)[1]]>>
       [] part.p = "key" -> IF key = <<>> THEN <<>> ELSE <<[Nothing EXCEPT !.keys = key]>>
       [] part.p = "keys" -> IF keys = <<>> THEN <<>> ELSE <<[Nothing EXCEPT !.keys = keys[1]]>>
       [] part.p = "timelock" -> IF lock = <<>> THEN <<>> ELSE <<[Nothing EXCEPT !.lock = lock]>>
       [] part.p = "sub" -> IF sub = <<>> THEN <<>> ELSE <<[Nothing EXCEPT !.subs = sub]>>

\* The sequence of all that the parts of a description can bind in a text.
parse_spec_parts(parts, text, values) ==
  LET part == Head(parts)
      more == Tail(parts)
      splits == Occurrences(text, more[1].text, 1)
      whole == parse_cleartext_value(part, text)
  IN CASE parts = <<>> -> IF text = <<>> THEN <<values>> ELSE <<>>
       [] parts # <<>> /\ part.p = "literal" ->
            IF IsPrefix(part.text, text) THEN parse_spec_parts(more, Dropped(text, Len(part.text)), values) ELSE <<>>
       [] parts # <<>> /\ part.p # "literal" /\ more # <<>> ->
            FlattenSeq([s \in DOMAIN splits |->
              LET value == parse_cleartext_value(part, SubSeq(text, 1, splits[s] - 1))
              IN IF value = <<>> THEN <<>>
                 ELSE parse_spec_parts(more, Dropped(text, splits[s] - 1), Both(values, value[1]))])
       [] parts # <<>> /\ part.p # "literal" /\ more = <<>> ->
            IF whole = <<>> THEN <<>> ELSE <<Both(values, whole[1])>>

Distinct(seq) == FoldLeft(LAMBDA acc, x : IF x \in ToSet(acc) THEN acc ELSE Append(acc, x), <<>>, seq)

parse_with_specs(specs, text) ==
  Distinct(FlattenSeq([e \in DOMAIN specs |->
    LET ms == parse_spec_parts(specs[e].parts, text, Nothing)
    IN [i \in DOMAIN ms |-> Class(specs[e].name, ms[i])]]))

parse_leaf_candidates(text) ==
  LET found == parse_with_specs(TAPLEAF_SPECS, text) IN IF found = <<>> THEN <<Other(text)>> ELSE found

\* All ways to take one of each sequence, the last varying fastest.
RECURSIVE Combinations(_)
Combinations(seqs) ==
  IF seqs = <<>> THEN <<<<>>>>
  ELSE LET rest == Combinations(Tail(seqs))
       IN FlattenSeq([i \in DOMAIN Head(seqs) |-> [j \in DOMAIN rest |-> <<Head(seqs)[i]>> \o rest[j]]])

parse_top_level_candidates(lines) ==
  LET tops == parse_with_specs(TOP_LEVEL_SPECS, lines[1])
      combos == Combinations(Map(parse_leaf_candidates, Tail(lines)))
      withLeaves(class) == [c \in DOMAIN combos |-> [class EXCEPT !.b.leaves = combos[c]]]
      taproot == SelectSeq(tops, LAMBDA class : class.name \in {"Taproot", "TaprootMusig"})
  IN IF lines = <<>> THEN Bad("EmptyInput")
     ELSE IF Len(lines) = 1 THEN (IF tops = <<>> THEN Bad("UnrecognizedPattern") ELSE Good(<<>>, tops))
     ELSE IF taproot = <<>> THEN Bad("UnrecognizedPattern")
     ELSE Good(<<>>, Distinct(FlattenSeq(Map(withLeaves, taproot))))

-----------------------------------------------------------------------------
\* Building the templates of a class.

Wrap(wrappers, t) == FoldRight(LAMBDA w, acc : Fragment(w, 0, <<>>, <<acc>>), wrappers, t)
MusigOfPlain(keys) == MusigOf([i \in DOMAIN keys |-> keys[i].idx[1]], keys[1].num1, keys[1].num2)

\* The template of a pattern; its keys and sub-policies are used up from the
\* left.  "subs" are the templates chosen for the sub-policies.
RECURSIVE Construct(_, _, _)
Construct(pat, b, subs) ==
  LET has(a) == \E i \in DOMAIN pat.args : pat.args[i].a = a
      keyOf(i) == IF i = 1 THEN b ELSE [b EXCEPT !.keys = Tail(@)]
      sub(i) == CASE pat.args[i].a = "pattern" -> Wrap(pat.args[i].w, Construct(pat.args[i].sub[1], keyOf(i), subs))
                  [] pat.args[i].a = "sub" -> Wrap(pat.args[i].w, subs[i])
                  [] pat.args[i].a = "timelock" -> TimelockTemplate(b.lock[1])
      keys == CASE has("keys") -> b.keys
                [] has("musig") -> <<MusigOfPlain(b.keys)>>
                [] has("key") -> <<b.keys[1]>>
                [] OTHER -> <<>>
  IN Fragment(pat.f, IF has("threshold") THEN b.n ELSE 0, keys,
              IF keys = <<>> THEN [i \in DOMAIN pat.args |-> sub(i)] ELSE <<>>)

Applies(pat, b) == uses_musig(pat) => b.n = Len(b.keys) /\ AllPlain(b.keys)

\* One template for each pattern of the entry that applies.
Constructed(entry, b) ==
  LET pats == SelectSeq(entry.patterns, LAMBDA pat : Applies(pat, b))
  IN [i \in DOMAIN pats |-> Construct(pats[i], b, <<>>)]

\* <<>> stands for a raw leaf that does not parse at the top level.
RECURSIVE tapleaf_to_descriptors(_)
tapleaf_to_descriptors(class) ==
  LET entry == EntryOf(TAPLEAF_SPECS, class.name)
      raw == parse_descriptor_template(class.raw)
      choices == Combinations(Map(tapleaf_to_descriptors, class.b.subs))
  IN IF class.name = "Other" THEN (IF raw.ok THEN <<raw.val>> ELSE <<>>)
     ELSE IF IsCombinator(entry)
     THEN [c \in DOMAIN choices |-> Construct(entry.patterns[1], class.b, choices[c])]
     ELSE Constructed(entry, class.b)

\* All unordered trees over the leaves numbered "indices", the first of them
\* on the left.
RECURSIVE enumerate_taptrees_indices(_, _)
enumerate_taptrees_indices(indices, variants) ==
  LET rest == Tail(indices)
      masks == [m \in 1 .. 2 ^ Len(rest) - 1 |-> m - 1]
      side(mask, bit) == SelectSeq([i \in DOMAIN rest |-> <<i, rest[i]>>],
                                   LAMBDA ir : (mask \div (2 ^ (ir[1] - 1))) % 2 = bit)
      trees(mask, bit, first) ==
        enumerate_taptrees_indices(first \o [i \in DOMAIN side(mask, bit) |-> side(mask, bit)[i][2]], variants)
  IN IF Len(indices) = 1 THEN variants[indices[1]]
     ELSE FlattenSeq([m \in DOMAIN masks |->
            LET pairs == Combinations(<<trees(masks[m], 1, <<indices[1]>>), trees(masks[m], 0, <<>>)>>)
            IN [p \in DOMAIN pairs |-> Fragment("{}", 0, <<>>, pairs[p])]])

enumerate_taptrees(variants) == enumerate_taptrees_indices([i \in DOMAIN variants |-> i], variants)

\* Pairs 0;1, 2;3, ... in the order of the text, for each key by itself.
canonicalize_derivations(t) ==
  LET phs == placeholders(t)
      earlier(i) == Cardinality({j \in 1 .. i - 1 : KeyTypeOf(phs[j].item) = KeyTypeOf(phs[i].item)})
  IN WithPairs(t, [i \in DOMAIN phs |-> <<2 * earlier(i), 2 * earlier(i) + 1>>])

InternalKey(class) == IF class.name = "Taproot" THEN class.b.keys[1] ELSE MusigOfPlain(class.b.keys)

top_level_variants(class) ==
  LET per_leaf == Map(tapleaf_to_descriptors, class.b.leaves)
      trees == enumerate_taptrees(per_leaf)
      tr(subs) == Fragment("tr", 0, <<InternalKey(class)>>, subs)
  IN IF class.name \notin {"Taproot", "TaprootMusig"} THEN Constructed(EntryOf(TOP_LEVEL_SPECS, class.name), class.b)
     ELSE IF \E i \in DOMAIN per_leaf : per_leaf[i] = <<>> THEN <<>>
     ELSE IF per_leaf = <<>> THEN <<tr(<<>>)>>
     ELSE [i \in DOMAIN trees |-> canonicalize_derivations(tr(<<trees[i]>>))]

\* PermutationIter: the next permutation in lexicographic order, if any.
NextPermutation(p) ==
  LET rises == {k \in 1 .. Len(p) - 1 : p[k] < p[k + 1]}
      i == Max(rises)
      j == Max({k \in DOMAIN p : p[i] < p[k]})
      swapped == [p EXCEPT ![i] = p[j], ![j] = p[i]]
  IN IF rises = {} THEN <<>>
     ELSE <<SubSeq(swapped, 1, i) \o Reverse(SubSeq(swapped, i + 1, Len(p)))>>

RECURSIVE PermutationsFrom(_)
PermutationsFrom(p) ==
  LET next == NextPermutation(p) IN <<p>> \o (IF next = <<>> THEN <<>> ELSE PermutationsFrom(next[1]))

\* Every assignment of the canonical pairs to the occurrences of each key.
expand_derivation_orderings(base) ==
  LET phs == placeholders(base)
      types == SetToSeq(KeyTypes(base))
      places == [g \in DOMAIN types |-> SetToSortSeq({i \in DOMAIN phs : KeyTypeOf(phs[i].item) = types[g]}, <)]
      chosen == Combinations([g \in DOMAIN types |-> PermutationsFrom([i \in DOMAIN places[g] |-> i - 1])])
      pairs(perms) == [i \in DOMAIN phs |->
        LET g == CHOOSE h \in DOMAIN types : types[h] = KeyTypeOf(phs[i].item)
            slot == SelectInSeq(places[g], LAMBDA p : p = i)
        IN <<2 * perms[g][slot], 2 * perms[g][slot] + 1>>]
  IN [c \in DOMAIN chosen |-> WithPairs(base, pairs(chosen[c]))]

from_cleartext(lines) ==
  LET classes == parse_top_level_candidates(lines)
      bases == FlattenSeq(Map(top_level_variants, classes.val))
  IN IF ~classes.ok THEN classes ELSE Good(<<>>, FlattenSeq(Map(expand_derivation_orderings, bases)))

-----------------------------------------------------------------------------
\* What the description promises.

\* The template with the branches of its tree in any order, which no Merkle
\* root tells apart.
RECURSIVE Mirrors(_)
Mirrors(t) ==
  IF t.f \notin {"tr", "{}"} \/ t.subs = <<>> THEN {t}
  ELSE LET trees == [i \in DOMAIN t.subs |-> Mirrors(t.subs[i])]
       IN IF t.f = "tr" THEN {[t EXCEPT !.subs = <<m>>] : m \in trees[1]}
          ELSE UNION {{[t EXCEPT !.subs = <<l, r>>], [t EXCEPT !.subs = <<r, l>>]} : l \in trees[1], r \in trees[2]}

\* A raw leaf is read back by the parser of whole templates, which knows no
\* musig there.
ReadableLeaves(t) ==
  LET leaves == classify(t).b.leaves
  IN \A i \in DOMAIN leaves : leaves[i].name = "Other" => parse_descriptor_template(leaves[i].raw).ok

Instances(t) == from_cleartext(to_cleartext(t).lines)

\* A template with a description is among those the description stands for.
\* All of these have the same lines and the score counts them, when every
\* one has the keys of the template as often as the template: where a musig
\* and a multisig of the same description share keys with another leaf, the
\* steps of a raw leaf, and the score, are those of one of the two.
DescriptionFaithful(t) ==
  LET d == to_cleartext(t)
      instances == Instances(t)
      all == instances.val
      same == \A i \in DOMAIN all : key_derivation_orderings_count(all[i]) = key_derivation_orderings_count(t)
  IN (are_key_derivations_canonical(t) /\ classify(t).name # "Other" /\ ReadableLeaves(t)) =>
       /\ instances.ok
       /\ Mirrors(t) \cap ToSet(all) # {}
       /\ (same \/ d.all) => \A i \in DOMAIN all : ToSet(to_cleartext(all[i]).lines) = ToSet(d.lines)
       /\ Cardinality(ToSet(all)) = Len(all)
       /\ same => Len(all) = confusion_score(t)

\* "An upper bound on the number of different descriptor templates that would
\* be mapped to the same cleartext description" (mod.rs:322-323), which is
\* "the number of yielded instances" of that description (mod.rs:335-336).
ScoreBounds(t) ==
  LET lines(u) == ToSet(to_cleartext(u).lines)
      alike == {u \in ToSet(Instances(t).val) : lines(u) = lines(t)}
  IN Instances(t).ok => Cardinality(alike) <= confusion_score(t)

\* "Any spending condition that doesn't have a cleartext description is shown
\* as the unchanged descriptor template" (mod.rs:329-330).
ShownUnchanged(text) ==
  LET r == parse_descriptor_template(text)
  IN r.ok /\ ~are_key_derivations_canonical(r.val) => to_cleartext(r.val).lines = <<Canonical(text)>>

\* Every lock is written as words that mean it alone.
LockFaithful(lock) == parse_timelock(format_timelock(lock)) = <<lock>>
=============================================================================
