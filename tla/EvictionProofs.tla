--------------------------- MODULE EvictionProofs ---------------------------
(***************************************************************************)
(* Proofs about the eviction strategies, for any number of slots and       *)
(* pages: the queues of 2Q, what it remembers and whether it finds a       *)
(* victim, however often the counter wraps around; the victim of LRU, and  *)
(* that the stamps keep the queues of the 2Q algorithm, until it does.     *)
(***************************************************************************)
EXTENDS MCEviction, SequenceTheorems, FiniteSetTheorems, WellFoundedInduction, TLAPS

\* The cache: a page is in one slot at most, and recency lists the slots in use.
CacheInv ==
  /\ held \in [Slots -> PageIds \cup {NoPageId}]
  /\ \A i, j \in Slots : held[i] = held[j] /\ held[i] # NoPageId => i = j
  /\ recency \in Seq(Slots) /\ IsInjective(recency)
  /\ \A i \in Slots : held[i] # NoPageId <=> i \in ToSet(recency)
  /\ strategy \in {"LRU", "2Q"}

\* The slots of 2Q: every slot in use is in a queue.
QueueInv ==
  /\ globalCounter \in 0 .. Never /\ wraps \in Nat /\ usageCounters \in [Slots -> Nat]
  /\ states \in [Slots -> [queue : {"Free", "A1", "Am"}, time : Nat]]
  /\ strategy = "2Q" => \A i \in Slots : states[i].queue = "Free" <=> held[i] = NoPageId
  /\ a1out \in Seq(PageIds) /\ (strategy = "LRU" => a1out = <<>>)
  /\ TwoQBookkeeping

Increasing(list, stamps) ==
  \A j, k \in 1 .. Len(list) : j < k => stamps[list[j]] < stamps[list[k]]

\* Until the counter wraps around, the stamps are in the order of use.
StampInv ==
  wraps = 0 =>
    /\ strategy = "LRU" =>
         /\ \A i \in Slots : usageCounters[i] <= globalCounter
         /\ Increasing(recency, usageCounters)
    /\ strategy = "2Q" =>
         /\ \A i \in Slots : states[i].time <= globalCounter
         /\ \A i, j \in Slots : states[i].queue # "Free" /\ states[j].queue # "Free"
                                /\ states[i].time = states[j].time => i = j

\* The slots that the scans skip, at most one more in every lap of the counter.
Skipped == {i \in Slots : states[i].queue # "Free" /\ states[i].time = Never}

SkippedInv ==
  strategy = "2Q" =>
    /\ \A i \in Slots : states[i].time <= Never
    /\ Cardinality(Skipped) <= wraps + (IF globalCounter = Never THEN 1 ELSE 0)
-----------------------------------------------------------------------------
(* Lists.                                                                      *)
LEMMA ListFacts ==
  ASSUME NEW S, NEW s \in Seq(S)
  PROVE  /\ Len(s) \in Nat /\ DOMAIN s = 1 .. Len(s) /\ \A k \in 1 .. Len(s) : s[k] \in S
         /\ ToSet(s) \subseteq S
         /\ \A x : x \in ToSet(s) <=> \E k \in 1 .. Len(s) : s[k] = x
<1>1. Len(s) \in Nat /\ DOMAIN s = 1 .. Len(s) /\ \A k \in 1 .. Len(s) : s[k] \in S
  OBVIOUS
<1> QED
  BY <1>1 DEF ToSet

LEMMA RemoveAtFacts ==
  ASSUME NEW S, NEW s \in Seq(S), NEW k \in 1 .. Len(s)
  PROVE  /\ RemoveAt(s, k) \in Seq(S) /\ Len(RemoveAt(s, k)) = Len(s) - 1
         /\ \A j \in 1 .. Len(s) - 1 : RemoveAt(s, k)[j] = IF j < k THEN s[j] ELSE s[j + 1]
<1> DEFINE a == SubSeq(s, 1, k - 1)
           b == SubSeq(s, k + 1, Len(s))
<1>1. Len(s) \in Nat /\ k \in Nat /\ k >= 1 /\ k <= Len(s)
  OBVIOUS
<1>2. a \in Seq(S) /\ Len(a) = k - 1 /\ \A j \in 1 .. k - 1 : a[j] = s[j]
  <2>1. 1 \in 1 .. Len(s) + 1 /\ k - 1 \in 0 .. Len(s)
    BY <1>1
  <2> QED
    BY <1>1, <2>1, SubSeqProperties
<1>3. b \in Seq(S) /\ Len(b) = Len(s) - k /\ \A j \in 1 .. Len(s) - k : b[j] = s[k + j]
  <2>1. k + 1 \in 1 .. Len(s) + 1 /\ Len(s) \in 0 .. Len(s)
    BY <1>1
  <2> QED
    BY <1>1, <2>1, SubSeqProperties
<1> HIDE DEF a, b
<1>4. /\ a \o b \in Seq(S) /\ Len(a \o b) = Len(a) + Len(b)
      /\ \A j \in 1 .. Len(a) + Len(b) : (a \o b)[j] = IF j <= Len(a) THEN a[j] ELSE b[j - Len(a)]
  BY <1>2, <1>3, ConcatProperties
<1>5. RemoveAt(s, k) = a \o b
  BY DEF RemoveAt, a, b
<1>6. ASSUME NEW j \in 1 .. Len(s) - 1 PROVE (a \o b)[j] = IF j < k THEN s[j] ELSE s[j + 1]
  <2>1. CASE j < k
    BY <1>1, <1>2, <1>3, <1>4, <2>1
  <2>2. CASE ~(j < k)
    <3>1. j - (k - 1) \in 1 .. Len(s) - k /\ k + (j - (k - 1)) = j + 1 /\ ~(j <= Len(a)) /\ j \in 1 .. Len(a) + Len(b)
      BY <1>1, <1>2, <1>3, <2>2
    <3>2. (a \o b)[j] = b[j - (k - 1)]
      BY <1>2, <1>4, <3>1
    <3>3. b[j - (k - 1)] = s[k + (j - (k - 1))]
      BY <1>3, <3>1
    <3> QED
      BY <2>2, <3>1, <3>2, <3>3
  <2> QED
    BY <2>1, <2>2
<1>7. Len(a \o b) = Len(s) - 1
  BY <1>1, <1>2, <1>3, <1>4
<1> QED
  BY <1>4, <1>5, <1>6, <1>7, Zenon

\* Without takes the element away, and keeps the order of the others.
LEMMA WithoutFacts ==
  ASSUME NEW S, NEW s \in Seq(S), IsInjective(s), NEW x
  PROVE  /\ Without(s, x) \in Seq(S) /\ Len(Without(s, x)) <= Len(s)
         /\ ToSet(Without(s, x)) = ToSet(s) \ {x}
         /\ \A j, k \in 1 .. Len(Without(s, x)) : j < k =>
              \E m, n \in 1 .. Len(s) : m < n /\ Without(s, x)[j] = s[m] /\ Without(s, x)[k] = s[n]
<1> DEFINE r == Without(s, x)
<1>1. /\ Len(s) \in Nat /\ DOMAIN s = 1 .. Len(s)
      /\ \A y : y \in ToSet(s) <=> \E k \in 1 .. Len(s) : s[k] = y
  BY ListFacts
<1>2. CASE x \notin ToSet(s)
  <2>1. r = s
    BY <1>2 DEF Without
  <2> HIDE DEF r
  <2>2. \A j, k \in 1 .. Len(r) : j < k => \E m, n \in 1 .. Len(s) : m < n /\ r[j] = s[m] /\ r[k] = s[n]
    BY <2>1
  <2> QED
    BY <1>1, <1>2, <2>1, <2>2 DEF r
<1>3. CASE x \in ToSet(s)
  <2> DEFINE p == CHOOSE k \in DOMAIN s : s[k] = x
  <2>1. p \in 1 .. Len(s) /\ s[p] = x
    BY <1>1, <1>3
  <2>2. r = RemoveAt(s, p)
    BY <1>3 DEF Without
  <2> HIDE DEF p, r
  <2>3. /\ r \in Seq(S) /\ Len(r) = Len(s) - 1
        /\ \A j \in 1 .. Len(s) - 1 : r[j] = IF j < p THEN s[j] ELSE s[j + 1]
    BY <2>1, <2>2, RemoveAtFacts
  <2>4. \A y : y \in ToSet(r) <=> \E k \in 1 .. Len(r) : r[k] = y
    BY <2>3, ListFacts
  <2>5. ASSUME NEW j \in 1 .. Len(r)
        PROVE  \E m \in 1 .. Len(s) : m = (IF j < p THEN j ELSE j + 1) /\ m # p /\ r[j] = s[m]
    <3>1. CASE j < p
      BY <1>1, <2>1, <2>3, <2>5, <3>1
    <3>2. CASE ~(j < p)
      <4>1. j + 1 \in 1 .. Len(s) /\ j + 1 # p /\ r[j] = s[j + 1]
        BY <1>1, <2>1, <2>3, <2>5, <3>2
      <4> QED
        BY <3>2, <4>1
    <3> QED
      BY <3>1, <3>2
  <2>6. ASSUME NEW m \in 1 .. Len(s), m # p PROVE \E j \in 1 .. Len(r) : r[j] = s[m]
    <3>1. CASE m < p
      <4>1. m \in 1 .. Len(r) /\ r[m] = s[m]
        BY <1>1, <2>1, <2>3, <2>6, <3>1
      <4> QED
        BY <4>1
    <3>2. CASE ~(m < p)
      <4>1. m - 1 \in 1 .. Len(r) /\ ~(m - 1 < p) /\ m - 1 + 1 = m
        BY <1>1, <2>1, <2>3, <2>6, <3>2
      <4>2. r[m - 1] = s[m - 1 + 1]
        BY <2>3, <4>1
      <4> QED
        BY <4>1, <4>2
    <3> QED
      BY <3>1, <3>2
  <2>7. ToSet(r) = ToSet(s) \ {x}
    <3>1. ASSUME NEW y \in ToSet(r) PROVE y \in ToSet(s) \ {x}
      <4>1. PICK j \in 1 .. Len(r) : r[j] = y
        BY <2>4
      <4>2. PICK m \in 1 .. Len(s) : m # p /\ r[j] = s[m]
        BY <2>5
      <4>3. s[m] # x
        BY <1>1, <2>1, <4>2 DEF IsInjective
      <4> QED
        BY <1>1, <4>1, <4>2, <4>3
    <3>2. ASSUME NEW y \in ToSet(s) \ {x} PROVE y \in ToSet(r)
      <4>1. PICK m \in 1 .. Len(s) : s[m] = y
        BY <1>1
      <4>2. m # p
        BY <2>1, <4>1
      <4> QED
        BY <2>4, <2>6, <4>1, <4>2
    <3> QED
      BY <3>1, <3>2
  <2>8. ASSUME NEW j \in 1 .. Len(r), NEW k \in 1 .. Len(r), j < k
        PROVE  \E m, n \in 1 .. Len(s) : m < n /\ r[j] = s[m] /\ r[k] = s[n]
    <3>1. PICK m \in 1 .. Len(s) : m = (IF j < p THEN j ELSE j + 1) /\ r[j] = s[m]
      BY <2>5
    <3>2. PICK n \in 1 .. Len(s) : n = (IF k < p THEN k ELSE k + 1) /\ r[k] = s[n]
      BY <2>5
    <3>3. m < n
      BY <1>1, <2>1, <2>3, <2>8, <3>1, <3>2
    <3> QED
      BY <3>1, <3>2, <3>3
  <2> QED
    BY <1>1, <2>3, <2>7, <2>8 DEF r
<1> QED
  BY <1>2, <1>3

LEMMA IncreasingInjective ==
  ASSUME NEW S, NEW s \in Seq(S),
         \A j, k \in 1 .. Len(s) : j < k => s[j] # s[k]
  PROVE  IsInjective(s)
<1>1. Len(s) \in Nat /\ DOMAIN s = 1 .. Len(s)
  BY ListFacts
<1>2. ASSUME NEW j \in 1 .. Len(s), NEW k \in 1 .. Len(s), s[j] = s[k] PROVE j = k
  <2>1. j < k \/ k < j \/ j = k
    BY <1>1
  <2> QED
    BY <1>2, <2>1
<1> QED
  BY <1>1, <1>2 DEF IsInjective

LEMMA WithoutInjective ==
  ASSUME NEW S, NEW s \in Seq(S), IsInjective(s), NEW x
  PROVE  IsInjective(Without(s, x))
<1> DEFINE r == Without(s, x)
<1>1. DOMAIN s = 1 .. Len(s) /\ Len(s) \in Nat
  BY ListFacts
<1>2. /\ r \in Seq(S)
      /\ \A j, k \in 1 .. Len(r) : j < k => \E m, n \in 1 .. Len(s) : m < n /\ r[j] = s[m] /\ r[k] = s[n]
  BY WithoutFacts
<1> HIDE DEF r
<1>3. ASSUME NEW j \in 1 .. Len(r), NEW k \in 1 .. Len(r), j < k PROVE r[j] # r[k]
  <2>1. PICK m \in 1 .. Len(s), n \in 1 .. Len(s) : m < n /\ r[j] = s[m] /\ r[k] = s[n]
    BY <1>2, <1>3
  <2>2. m # n
    BY <1>1, <2>1
  <2> QED
    BY <1>1, <2>1, <2>2 DEF IsInjective
<1> QED
  BY <1>2, <1>3, IncreasingInjective DEF r

LEMMA AppendFacts ==
  ASSUME NEW S, NEW s \in Seq(S), NEW x \in S, x \notin ToSet(s)
  PROVE  /\ Append(s, x) \in Seq(S) /\ Len(Append(s, x)) = Len(s) + 1
         /\ ToSet(Append(s, x)) = ToSet(s) \cup {x}
         /\ Append(s, x)[Len(s) + 1] = x /\ \A k \in 1 .. Len(s) : Append(s, x)[k] = s[k]
         /\ IsInjective(s) => IsInjective(Append(s, x))
<1> DEFINE r == Append(s, x)
<1>1. /\ r \in Seq(S) /\ Len(r) = Len(s) + 1 /\ r[Len(s) + 1] = x
      /\ \A k \in 1 .. Len(s) : r[k] = s[k]
  BY AppendProperties
<1> HIDE DEF r
<1>2. /\ Len(s) \in Nat /\ \A y : y \in ToSet(s) <=> \E k \in 1 .. Len(s) : s[k] = y
      /\ \A y : y \in ToSet(r) <=> \E k \in 1 .. Len(r) : r[k] = y
      /\ DOMAIN s = 1 .. Len(s)
  BY <1>1, ListFacts
<1>3. ToSet(r) = ToSet(s) \cup {x}
  <2>1. ASSUME NEW y \in ToSet(r) PROVE y \in ToSet(s) \cup {x}
    BY <1>1, <1>2
  <2>2. ASSUME NEW y \in ToSet(s) \cup {x} PROVE y \in ToSet(r)
    BY <1>1, <1>2
  <2> QED
    BY <2>1, <2>2
<1>4. ASSUME IsInjective(s), NEW j \in 1 .. Len(r), NEW k \in 1 .. Len(r), j < k PROVE r[j] # r[k]
  <2>1. j \in 1 .. Len(s) /\ r[j] = s[j] /\ s[j] # x
    BY <1>1, <1>2, <1>4
  <2>2. CASE k = Len(s) + 1
    BY <1>1, <2>1, <2>2
  <2>3. CASE k # Len(s) + 1
    <3>1. k \in 1 .. Len(s) /\ r[k] = s[k] /\ j # k
      BY <1>1, <1>2, <1>4, <2>3
    <3> QED
      BY <1>2, <1>4, <2>1, <3>1 DEF IsInjective
  <2> QED
    BY <2>2, <2>3
<1>5. IsInjective(s) => IsInjective(r)
  BY <1>1, <1>4, IncreasingInjective
<1> QED
  BY <1>1, <1>3, <1>5 DEF r

\* The slot that was used is moved to the end of recency, and its stamp is the largest.
LEMMA MoveToEnd ==
  ASSUME NEW S, NEW s \in Seq(S), IsInjective(s), NEW x \in S
  PROVE  /\ Append(Without(s, x), x) \in Seq(S) /\ IsInjective(Append(Without(s, x), x))
         /\ ToSet(Append(Without(s, x), x)) = ToSet(s) \cup {x}
<1>1. /\ Without(s, x) \in Seq(S) /\ ToSet(Without(s, x)) = ToSet(s) \ {x}
      /\ IsInjective(Without(s, x))
  BY WithoutFacts, WithoutInjective
<1> QED
  BY <1>1, AppendFacts

LEMMA StampAtEnd ==
  ASSUME NEW S, NEW s \in Seq(S), IsInjective(s), NEW x \in S,
         NEW f \in [S -> Nat], NEW g \in [S -> Nat], Increasing(s, f),
         \A y \in S : y # x => g[y] = f[y] /\ f[y] < g[x]
  PROVE  Increasing(Append(Without(s, x), x), g)
<1> DEFINE w == Without(s, x)
           r == Append(w, x)
<1>1. /\ w \in Seq(S) /\ ToSet(w) = ToSet(s) \ {x}
      /\ \A j, k \in 1 .. Len(w) : j < k => \E m, n \in 1 .. Len(s) : m < n /\ w[j] = s[m] /\ w[k] = s[n]
  BY WithoutFacts
<1> HIDE DEF w
<1>2. Len(r) = Len(w) + 1 /\ r[Len(w) + 1] = x /\ \A k \in 1 .. Len(w) : r[k] = w[k]
  BY <1>1, AppendFacts
<1>3. Len(w) \in Nat /\ \A k \in 1 .. Len(w) : w[k] \in S /\ w[k] # x
  BY <1>1, ListFacts
<1> HIDE DEF r
<1>4. ASSUME NEW j \in 1 .. Len(r), NEW k \in 1 .. Len(r), j < k PROVE g[r[j]] < g[r[k]]
  <2>1. j \in 1 .. Len(w) /\ r[j] = w[j] /\ w[j] \in S /\ w[j] # x
    BY <1>2, <1>3, <1>4
  <2>2. CASE k = Len(w) + 1
    BY <1>2, <2>1, <2>2
  <2>3. CASE k # Len(w) + 1
    <3>1. k \in 1 .. Len(w) /\ r[k] = w[k] /\ w[k] \in S /\ w[k] # x
      BY <1>2, <1>3, <1>4, <2>3
    <3>2. PICK m \in 1 .. Len(s), n \in 1 .. Len(s) : m < n /\ w[j] = s[m] /\ w[k] = s[n]
      BY <1>1, <1>4, <2>1, <3>1
    <3>3. f[w[j]] < f[w[k]]
      BY <3>2 DEF Increasing
    <3> QED
      BY <2>1, <3>1, <3>3
  <2> QED
    BY <2>2, <2>3
<1>5. Increasing(r, g)
  BY <1>4 DEF Increasing
<1> QED
  BY <1>5 DEF r, w
-----------------------------------------------------------------------------
(* Both strategies use the same cache.                                         *)
LEMMA MinExists ==
  ASSUME NEW S, S \subseteq Nat, S # {}
  PROVE  \E x \in S : \A y \in S : x <= y
<1>1. PICK x \in S : \A y \in S : ~ (<<y, x>> \in OpToRel(<, Nat))
  BY NatLessThanWellFounded, WFMin
<1>2. ASSUME NEW y \in S PROVE x <= y
  <2>1. <<y, x>> \notin {ss \in Nat \X Nat : ss[1] < ss[2]}
    BY <1>1, <1>2, Zenon DEF OpToRel
  <2> QED
    BY <1>2, <2>1, SMT
<1> QED
  BY <1>2

LEMMA SlotFacts == Slots \subseteq Nat /\ IsFiniteSet(Slots) /\ 0 \in Slots /\ \A i \in Slots : i < NSlots
<1>1. NSlots \in Nat \ {0}
  BY EvictionAssumption
<1>2. Slots \subseteq Nat /\ 0 \in Slots /\ \A i \in Slots : i < NSlots
  BY <1>1 DEF Slots
<1>3. IsFiniteSet(Slots)
  BY <1>1, FS_Interval DEF Slots
<1> QED
  BY <1>2, <1>3

LEMMA FirstFreeIsFree ==
  ASSUME FreeSlots # {}
  PROVE  FirstFree \in FreeSlots
<1>1. FreeSlots \subseteq Nat
  BY SlotFacts DEF FreeSlots
<1>2. \E x \in FreeSlots : \A y \in FreeSlots : x <= y
  BY <1>1, MinExists
<1> QED
  BY <1>2 DEF FirstFree

\* The scan of choose_victim finds one of the slots that it looks at.
LEMMA OldestIsCandidate ==
  ASSUME NEW S, S \subseteq Slots, NEW time, \A i \in S : time[i] \in Nat, Candidates(S, time) # {}
  PROVE  /\ Oldest(S, time) \in Candidates(S, time)
         /\ \A j \in Candidates(S, time) : time[Oldest(S, time)] <= time[j]
<1> DEFINE C == Candidates(S, time)
           T == {time[i] : i \in C}
<1>1. C \subseteq S /\ C \subseteq Nat
  BY SlotFacts DEF Candidates
<1> HIDE DEF C
<1>2. T \subseteq Nat /\ T # {}
  BY <1>1 DEF C
<1>3. PICK least \in T : \A t \in T : least <= t
  BY <1>2, MinExists
<1> DEFINE F == {i \in C : time[i] = least}
<1>4. F \subseteq Nat /\ F # {}
  BY <1>1, <1>3
<1>5. PICK x \in F : \A y \in F : x <= y
  BY <1>4, MinExists
<1>6. ASSUME NEW j \in C PROVE time[x] < time[j] \/ (time[x] = time[j] /\ x <= j)
  <2>1. time[x] = least /\ time[x] <= time[j] /\ time[x] \in Nat /\ time[j] \in Nat
    BY <1>1, <1>2, <1>3, <1>5
  <2>2. CASE time[x] = time[j]
    BY <1>5, <2>1, <2>2
  <2> QED
    BY <2>1, <2>2
<1>7. \E i \in C : \A j \in C : time[i] < time[j] \/ (time[i] = time[j] /\ i <= j)
  BY <1>5, <1>6
<1> DEFINE v == Oldest(S, time)
<1>8. v \in C /\ \A j \in C : time[v] < time[j] \/ (time[v] = time[j] /\ v <= j)
  BY <1>7 DEF Oldest, C
<1> HIDE DEF v
<1>9. ASSUME NEW j \in C PROVE time[v] <= time[j]
  BY <1>1, <1>8
<1> QED
  BY <1>8, <1>9 DEF v, C

\* What Hit and Load do with the cache, both of them for slot i and page p.
LEMMA HitStep ==
  ASSUME CacheInv, NEW p \in PageIds, NEW i \in Slots, Hit(p, i), strategy' = strategy
  PROVE  CacheInv' /\ held' = held
<1>1. held' = held /\ recency' = Append(Without(recency, i), i) /\ held[i] = p
  BY DEF Hit
<1>2. recency' \in Seq(Slots) /\ IsInjective(recency') /\ ToSet(recency') = ToSet(recency) \cup {i}
  BY <1>1, MoveToEnd DEF CacheInv
<1>3. i \in ToSet(recency)
  BY <1>1, EvictionAssumption DEF CacheInv
<1> QED
  BY <1>1, <1>2, <1>3 DEF CacheInv

LEMMA LoadStep ==
  ASSUME CacheInv, NEW p \in PageIds, NEW i \in Slots, Load(p, i), strategy' = strategy
  PROVE  CacheInv' /\ \A j \in Slots : held'[j] = IF j = i THEN p ELSE held[j]
<1>1. /\ held' = [held EXCEPT ![i] = p] /\ recency' = Append(Without(recency, i), i)
      /\ \A j \in Slots : held[j] # p
  BY DEF Load
<1>2. recency' \in Seq(Slots) /\ IsInjective(recency') /\ ToSet(recency') = ToSet(recency) \cup {i}
  BY <1>1, MoveToEnd DEF CacheInv
<1>3. p # NoPageId
  BY EvictionAssumption
<1>4. /\ held' \in [Slots -> PageIds \cup {NoPageId}]
      /\ \A j \in Slots : held'[j] = IF j = i THEN p ELSE held[j]
  BY <1>1 DEF CacheInv
<1> QED
  BY <1>1, <1>2, <1>3, <1>4 DEF CacheInv
-----------------------------------------------------------------------------
(* What a step of either strategy is, whichever slot it chooses.               *)
LEMMA CounterFacts ==
  ASSUME QueueInv, Count
  PROVE  /\ globalCounter' = Wrapping(globalCounter) /\ globalCounter' \in 0 .. Never
         /\ globalCounter' \in Nat /\ wraps' \in Nat
         /\ globalCounter = Never => globalCounter' = 0 /\ wraps' = wraps + 1
         /\ globalCounter # Never => globalCounter' = globalCounter + 1 /\ wraps' = wraps
<1>1. /\ globalCounter \in 0 .. Modulus - 1 /\ wraps \in Nat /\ Modulus \in Nat \ {0, 1}
      /\ globalCounter' = (globalCounter + 1) % Modulus
      /\ wraps' = IF globalCounter' = 0 THEN wraps + 1 ELSE wraps
  BY EvictionAssumption DEF QueueInv, Never, Count, Wrapping
<1>2. CASE globalCounter = Modulus - 1
  <2>1. globalCounter + 1 = Modulus /\ Modulus % Modulus = 0
    BY <1>1, <1>2
  <2> QED
    BY <1>1, <1>2, <2>1 DEF Never, Count
<1>3. CASE globalCounter # Modulus - 1
  <2>1. (globalCounter + 1) % Modulus = globalCounter + 1 /\ globalCounter + 1 # 0
    BY <1>1, <1>3
  <2> QED
    BY <1>1, <1>3, <2>1 DEF Never, Count
<1> QED
  BY <1>2, <1>3

\* The cache that LRU uses is the one that 2Q uses.
LEMMA LruCache ==
  /\ Lru!Slots = Slots /\ Lru!FreeSlots = FreeSlots /\ Lru!FirstFree = FirstFree
  /\ Lru!Candidates(Slots, usageCounters) = Candidates(Slots, usageCounters)
  /\ Lru!Oldest(Slots, usageCounters) = Oldest(Slots, usageCounters)
  /\ \A p \in PageIds, i \in Slots : (Lru!Hit(p, i) <=> Hit(p, i)) /\ (Lru!Load(p, i) <=> Load(p, i))
<1>1. Lru!Slots = Slots
  BY DEF Slots, Lru!Slots
<1>2. Lru!FreeSlots = FreeSlots
  BY <1>1 DEF FreeSlots, Lru!FreeSlots
<1>3. Lru!FirstFree = FirstFree
  BY <1>2 DEF FirstFree, Lru!FirstFree
<1>4. Lru!Candidates(Slots, usageCounters) = Candidates(Slots, usageCounters)
  BY DEF Candidates, Lru!Candidates, Never, Lru!Never
<1>5. Lru!Oldest(Slots, usageCounters) = Oldest(Slots, usageCounters)
  BY <1>4 DEF Oldest, Lru!Oldest
<1>6. ASSUME NEW p \in PageIds, NEW i \in Slots
      PROVE  (Lru!Hit(p, i) <=> Hit(p, i)) /\ (Lru!Load(p, i) <=> Load(p, i))
  <2>1. Lru!Without(recency, i) = Without(recency, i)
    BY DEF Without, Lru!Without, ToSet, Lru!ToSet, RemoveAt, Lru!RemoveAt
  <2>2. Lru!Count <=> Count
    BY DEF Count, Lru!Count, Wrapping, Lru!Wrapping
  <2>3. Lru!Hit(p, i) <=> Hit(p, i)
    BY <2>1, <2>2 DEF Hit, Lru!Hit
  <2>4. Lru!Load(p, i) <=> Load(p, i)
    BY <1>1, <2>1, <2>2 DEF Load, Lru!Load
  <2> QED
    BY <2>3, <2>4
<1> QED
  BY <1>1, <1>2, <1>3, <1>4, <1>5, <1>6

LEMMA LruStep ==
  ASSUME QueueInv, Lru!Next
  PROVE  \E p \in PageIds, i \in Slots :
           /\ Hit(p, i) \/ Load(p, i)
           /\ usageCounters' = [usageCounters EXCEPT ![i] = globalCounter']
<1>1. PICK p \in PageIds : (\E i \in Slots : Lru!OnAccess(p, i)) \/ Lru!LoadFree(p) \/ Lru!Evict(p)
  BY LruCache DEF Lru!Next
<1>2. ASSUME NEW i \in Slots, Lru!Touch(i)
      PROVE  usageCounters' = [usageCounters EXCEPT ![i] = globalCounter']
  BY <1>2 DEF Lru!Touch
<1>3. CASE \E i \in Slots : Lru!OnAccess(p, i)
  BY <1>2, <1>3, LruCache DEF Lru!OnAccess
<1>4. CASE Lru!LoadFree(p)
  <2>1. FirstFree \in Slots
    BY <1>4, LruCache, FirstFreeIsFree DEF Lru!LoadFree, FreeSlots
  <2>2. Load(p, FirstFree) /\ Lru!Touch(FirstFree)
    BY <1>4, <2>1, LruCache DEF Lru!LoadFree
  <2> QED
    BY <1>2, <2>1, <2>2
<1>5. CASE Lru!Evict(p)
  <2>1. Lru!ChooseVictim \in Slots
    <3>1. CASE Candidates(Slots, usageCounters) = {}
      BY <3>1, LruCache, SlotFacts DEF Lru!ChooseVictim
    <3>2. CASE Candidates(Slots, usageCounters) # {}
      <4>1. Oldest(Slots, usageCounters) \in Candidates(Slots, usageCounters)
        BY <3>2, OldestIsCandidate DEF QueueInv
      <4> QED
        BY <3>2, <4>1, LruCache DEF Lru!ChooseVictim, Candidates
    <3> QED
      BY <3>1, <3>2
  <2>2. Load(p, Lru!ChooseVictim) /\ Lru!Touch(Lru!ChooseVictim)
    BY <1>5, <2>1, LruCache DEF Lru!Evict
  <2> QED
    BY <1>2, <2>1, <2>2
<1> QED
  BY <1>1, <1>3, <1>4, <1>5

\* A slot that is loaded leaves its queue, if it was in one.
LEMMA TwoQStep ==
  ASSUME QueueInv, strategy = "2Q", Next
  PROVE  \E p \in PageIds, i \in Slots :
           OnAccess(p, i) \/ (Load(p, i) /\ OnLoad(p, i, SizeWithout(i), Remembered(i)))
<1>1. PICK p \in PageIds : (\E i \in Slots : OnAccess(p, i)) \/ LoadFree(p) \/ Evict(p)
  BY DEF Next
<1>2. CASE LoadFree(p)
  <2>1. FirstFree \in Slots /\ states[FirstFree].queue = "Free"
    BY <1>2, FirstFreeIsFree DEF LoadFree, FreeSlots, QueueInv
  <2>2. SizeWithout(FirstFree) = a1Size /\ Remembered(FirstFree) = a1out
    BY <2>1 DEF SizeWithout, Remembered
  <2> QED
    BY <1>2, <2>1, <2>2 DEF LoadFree
<1>3. CASE Evict(p)
  <2>1. /\ In("A1") \subseteq Slots /\ In("Am") \subseteq Slots
        /\ \A i \in Slots : Time[i] \in Nat
    BY DEF In, Time, QueueInv
  <2>2. ASSUME NEW q \in {"A1", "Am"}, VictimIn(q) # {} PROVE Oldest(In(q), Time) \in Slots
    <3>1. In(q) \subseteq Slots /\ \A i \in In(q) : Time[i] \in Nat
      BY <2>1, <2>2
    <3>2. Oldest(In(q), Time) \in Candidates(In(q), Time)
      BY <2>2, <3>1, OldestIsCandidate DEF VictimIn
    <3> QED
      BY <3>1, <3>2 DEF Candidates
  <2>3. ChooseVictim \in Slots
    BY <1>3, <2>2, SlotFacts DEF Evict, Unreachable, ChooseVictim
  <2> QED
    BY <1>3, <2>3 DEF Evict
<1> QED
  BY <1>1, <1>2, <1>3
-----------------------------------------------------------------------------
(* The bookkeeping of 2Q, whatever its counter does.                           *)
LEMMA EmptyList == ToSet(<<>>) = {} /\ IsInjective(<<>>) /\ Len(<<>>) = 0
BY DEF ToSet, IsInjective

LEMMA TailFacts ==
  ASSUME NEW S, NEW s \in Seq(S), IsInjective(s), s # <<>>
  PROVE  /\ Tail(s) \in Seq(S) /\ Len(Tail(s)) = Len(s) - 1
         /\ ToSet(Tail(s)) \subseteq ToSet(s) /\ IsInjective(Tail(s))
<1> DEFINE t == Tail(s)
<1>1. /\ t \in Seq(S) /\ Len(t) = Len(s) - 1 /\ Len(s) \in Nat
      /\ \A k \in 1 .. Len(s) - 1 : t[k] = s[k + 1]
  OBVIOUS
<1> HIDE DEF t
<1>2. /\ DOMAIN s = 1 .. Len(s)
      /\ \A y : y \in ToSet(s) <=> \E k \in 1 .. Len(s) : s[k] = y
      /\ \A y : y \in ToSet(t) <=> \E k \in 1 .. Len(t) : t[k] = y
  BY <1>1, ListFacts
<1>3. ASSUME NEW y \in ToSet(t) PROVE y \in ToSet(s)
  <2>1. PICK k \in 1 .. Len(t) : t[k] = y
    BY <1>2
  <2>2. k + 1 \in 1 .. Len(s) /\ s[k + 1] = y
    BY <1>1, <2>1
  <2> QED
    BY <1>2, <2>2
<1>4. ASSUME NEW j \in 1 .. Len(t), NEW k \in 1 .. Len(t), j < k PROVE t[j] # t[k]
  <2>1. /\ j + 1 \in 1 .. Len(s) /\ k + 1 \in 1 .. Len(s) /\ j + 1 # k + 1
        /\ t[j] = s[j + 1] /\ t[k] = s[k + 1]
    BY <1>1, <1>4
  <2> QED
    BY <1>2, <2>1 DEF IsInjective
<1> QED
  BY <1>1, <1>3, <1>4, IncreasingInjective DEF t

LEMMA A1Finite ==
  /\ IsFiniteSet(In("A1")) /\ IsFiniteSet(In("A1"))'
<1>1. In("A1") \subseteq Slots /\ In("A1")' \subseteq Slots
  BY DEF In
<1> QED
  BY <1>1, SlotFacts, FS_Subset

\* What on_invalidate leaves of the size of A1 is the size without slot i.
LEMMA SizeWithoutSlot ==
  ASSUME QueueInv, NEW i \in Slots
  PROVE  /\ SizeWithout(i) = Cardinality(In("A1") \ {i}) /\ SizeWithout(i) \in Nat
<1>1. IsFiniteSet(In("A1")) /\ a1Size = Cardinality(In("A1"))
  BY A1Finite DEF QueueInv, TwoQBookkeeping, A1SizeExact
<1>2. /\ IsFiniteSet(In("A1") \ {i})
      /\ Cardinality(In("A1") \ {i}) = IF i \in In("A1") THEN Cardinality(In("A1")) - 1 ELSE Cardinality(In("A1"))
  BY <1>1, FS_RemoveElement
<1>3. i \in In("A1") <=> states[i].queue = "A1"
  BY DEF In
<1>4. Cardinality(In("A1") \ {i}) \in Nat
  BY <1>2, FS_CardinalityType
<1> QED
  BY <1>1, <1>2, <1>3, <1>4 DEF SizeWithout

\* What on_invalidate remembers is not in the other slots.
LEMMA RememberedFacts ==
  ASSUME CacheInv, QueueInv, strategy = "2Q", NEW i \in Slots
  PROVE  /\ Remembered(i) \in Seq(PageIds) /\ IsInjective(Remembered(i))
         /\ Len(Remembered(i)) <= A1OutMaxSize
         /\ \A j \in Slots : j # i => held[j] \notin ToSet(Remembered(i))
<1>1. /\ a1out \in Seq(PageIds) /\ IsInjective(a1out) /\ Len(a1out) <= A1OutMaxSize
      /\ Len(a1out) \in Nat /\ A1OutMaxSize \in Nat \ {0}
      /\ \A j \in Slots : held[j] \notin ToSet(a1out)
  BY TwoQAssumption DEF QueueInv, TwoQBookkeeping, GhostsAreAbsent
<1>2. CASE states[i].queue # "A1"
  BY <1>1, <1>2 DEF Remembered
<1>3. CASE states[i].queue = "A1"
  <2> DEFINE g == IF Len(a1out) = A1OutMaxSize THEN Tail(a1out) ELSE a1out
  <2>1. held[i] \in PageIds /\ \A j \in Slots : j # i => held[j] # held[i]
    BY <1>3 DEF QueueInv, CacheInv
  <2>2. /\ g \in Seq(PageIds) /\ IsInjective(g) /\ Len(g) < A1OutMaxSize
        /\ ToSet(g) \subseteq ToSet(a1out)
    <3>1. CASE Len(a1out) = A1OutMaxSize
      <4>1. a1out # <<>>
        BY <1>1, <3>1
      <4> QED
        BY <1>1, <3>1, <4>1, TailFacts
    <3> QED
      BY <1>1, <3>1
  <2> HIDE DEF g
  <2>3. Remembered(i) = Append(g, held[i])
    BY <1>3 DEF Remembered, g
  <2>4. Len(g) \in Nat /\ held[i] \notin ToSet(g)
    BY <1>1, <2>2
  <2>5. /\ Append(g, held[i]) \in Seq(PageIds) /\ Len(Append(g, held[i])) = Len(g) + 1
        /\ ToSet(Append(g, held[i])) = ToSet(g) \cup {held[i]} /\ IsInjective(Append(g, held[i]))
    BY <2>1, <2>2, <2>4, AppendFacts
  <2> QED
    BY <1>1, <2>1, <2>2, <2>3, <2>4, <2>5
<1> QED
  BY <1>2, <1>3

LEMMA InvInit ==
  ASSUME MCInit
  PROVE  CacheInv /\ QueueInv
<1>1. /\ held = [i \in Slots |-> NoPageId] /\ recency = <<>> /\ states = [i \in Slots |-> Free]
      /\ globalCounter = 0 /\ wraps = 0 /\ a1Size = 0 /\ a1out = <<>>
      /\ usageCounters = [i \in Slots |-> 0] /\ strategy \in {"LRU", "2Q"}
  BY LruCache DEF MCInit, Init, CacheInit, Lru!Init
<1>2. Free \in [queue : {"Free", "A1", "Am"}, time : Nat] /\ Free.queue = "Free"
  BY DEF Free
<1> HIDE DEF Free
<1>3. /\ states \in [Slots -> [queue : {"Free", "A1", "Am"}, time : Nat]]
      /\ \A i \in Slots : states[i].queue = "Free"
  BY <1>1, <1>2
<1>4. In("A1") = {}
  BY <1>3 DEF In
<1>5. A1SizeExact
  BY <1>1, <1>4, FS_EmptySet DEF A1SizeExact
<1>6. GhostsAreAbsent
  BY <1>1, EmptyList, TwoQAssumption DEF GhostsAreAbsent
<1>7. CacheInv
  BY <1>1, EmptyList DEF CacheInv
<1>8. globalCounter \in 0 .. Never
  BY <1>1, EvictionAssumption DEF Never
<1> QED
  BY <1>1, <1>3, <1>5, <1>6, <1>7, <1>8 DEF QueueInv, TwoQBookkeeping

LEMMA StampFacts ==
  ASSUME NEW t \in Nat
  PROVE  /\ A1(t) \in [queue : {"Free", "A1", "Am"}, time : Nat] /\ A1(t).queue = "A1" /\ A1(t).time = t
         /\ Am(t) \in [queue : {"Free", "A1", "Am"}, time : Nat] /\ Am(t).queue = "Am" /\ Am(t).time = t
BY DEF A1, Am

\* on_access stamps the slot only when it is in Am.
LEMMA AccessStates ==
  ASSUME QueueInv, NEW p \in PageIds, NEW i \in Slots, OnAccess(p, i)
  PROVE  /\ globalCounter' \in 0 .. Never /\ globalCounter' \in Nat /\ wraps' \in Nat
         /\ states' \in [Slots -> [queue : {"Free", "A1", "Am"}, time : Nat]]
         /\ \A j \in Slots : states'[j].queue = states[j].queue
         /\ \A j \in Slots : states'[j].time = IF j = i /\ states[i].queue = "Am" THEN globalCounter' ELSE states[j].time
<1>1. globalCounter' \in 0 .. Never /\ globalCounter' \in Nat /\ wraps' \in Nat
  BY CounterFacts DEF OnAccess, Hit
<1>2. PICK new : new = IF states[i].queue = "Am" THEN Am(globalCounter') ELSE states[i]
  OBVIOUS
<1>3. states' = [states EXCEPT ![i] = new]
  BY <1>2 DEF OnAccess
<1>4. /\ new \in [queue : {"Free", "A1", "Am"}, time : Nat] /\ new.queue = states[i].queue
      /\ new.time = IF states[i].queue = "Am" THEN globalCounter' ELSE states[i].time
  BY <1>1, <1>2, StampFacts DEF QueueInv
<1>5. \A j \in Slots : states'[j] = IF j = i THEN new ELSE states[j]
  BY <1>3 DEF QueueInv
<1>6. states' \in [Slots -> [queue : {"Free", "A1", "Am"}, time : Nat]]
  BY <1>3, <1>4 DEF QueueInv
<1>7. ASSUME NEW j \in Slots
      PROVE  /\ states'[j].queue = states[j].queue
             /\ states'[j].time = IF j = i /\ states[i].queue = "Am" THEN globalCounter' ELSE states[j].time
  <2>1. CASE j = i
    BY <1>4, <1>5, <2>1
  <2>2. CASE j # i
    BY <1>5, <2>2
  <2> QED
    BY <2>1, <2>2
<1> QED
  BY <1>1, <1>6, <1>7

\* on_load puts the slot into a queue, with a new stamp.
LEMMA LoadStates ==
  ASSUME QueueInv, Count, NEW p, NEW i \in Slots, NEW size, NEW ghosts, OnLoad(p, i, size, ghosts)
  PROVE  /\ globalCounter' \in 0 .. Never /\ globalCounter' \in Nat /\ wraps' \in Nat
         /\ states' \in [Slots -> [queue : {"Free", "A1", "Am"}, time : Nat]]
         /\ states'[i].queue = (IF p \in ToSet(ghosts) THEN "Am" ELSE "A1") /\ states'[i].time = globalCounter'
         /\ \A j \in Slots : j # i => states'[j] = states[j]
<1>1. globalCounter' \in 0 .. Never /\ globalCounter' \in Nat /\ wraps' \in Nat
  BY CounterFacts
<1>2. PICK new : new = IF p \in ToSet(ghosts) THEN Am(globalCounter') ELSE A1(globalCounter')
  OBVIOUS
<1>3. states' = [states EXCEPT ![i] = new]
  BY <1>2 DEF OnLoad
<1>4. /\ new \in [queue : {"Free", "A1", "Am"}, time : Nat]
      /\ new.queue = (IF p \in ToSet(ghosts) THEN "Am" ELSE "A1") /\ new.time = globalCounter'
  BY <1>1, <1>2, StampFacts
<1>5. states'[i] = new /\ \A j \in Slots : j # i => states'[j] = states[j]
  BY <1>3 DEF QueueInv
<1>6. states' \in [Slots -> [queue : {"Free", "A1", "Am"}, time : Nat]]
  BY <1>3, <1>4 DEF QueueInv
<1> QED
  BY <1>1, <1>4, <1>5, <1>6

LEMMA AccessNext ==
  ASSUME CacheInv, QueueInv, strategy = "2Q", UNCHANGED <<usageCounters, strategy>>,
         NEW p \in PageIds, NEW i \in Slots, OnAccess(p, i)
  PROVE  CacheInv' /\ QueueInv'
<1>1. CacheInv' /\ held' = held
  BY HitStep DEF OnAccess
<1>2. a1Size' = a1Size /\ a1out' = a1out
  BY DEF OnAccess
<1>3. /\ globalCounter' \in 0 .. Never /\ wraps' \in Nat /\ states' \in [Slots -> [queue : {"Free", "A1", "Am"}, time : Nat]]
      /\ \A j \in Slots : states'[j].queue = states[j].queue
  BY AccessStates
<1>4. In("A1")' = In("A1")
  BY <1>3 DEF In
<1>5. A1SizeExact'
  BY <1>2, <1>4 DEF A1SizeExact, QueueInv, TwoQBookkeeping
<1>6. GhostsAreAbsent'
  BY <1>1, <1>2 DEF GhostsAreAbsent, QueueInv, TwoQBookkeeping
<1> QED
  BY <1>1, <1>2, <1>3, <1>5, <1>6 DEF QueueInv, TwoQBookkeeping

LEMMA LoadNext ==
  ASSUME CacheInv, QueueInv, strategy = "2Q", UNCHANGED <<usageCounters, strategy>>,
         NEW p \in PageIds, NEW i \in Slots, Load(p, i), OnLoad(p, i, SizeWithout(i), Remembered(i))
  PROVE  CacheInv' /\ QueueInv'
<1>1. CacheInv' /\ \A j \in Slots : held'[j] = IF j = i THEN p ELSE held[j]
  BY LoadStep
<1>2. PICK size, ghosts : size = SizeWithout(i) /\ ghosts = Remembered(i)
  OBVIOUS
<1>3. OnLoad(p, i, size, ghosts)
  BY <1>2
<1>4. size \in Nat /\ size = Cardinality(In("A1") \ {i})
  BY <1>2, SizeWithoutSlot
<1>5. /\ ghosts \in Seq(PageIds) /\ IsInjective(ghosts) /\ Len(ghosts) <= A1OutMaxSize
      /\ \A j \in Slots : j # i => held[j] \notin ToSet(ghosts)
  BY <1>2, RememberedFacts
<1>6. /\ globalCounter' \in 0 .. Never /\ wraps' \in Nat /\ states' \in [Slots -> [queue : {"Free", "A1", "Am"}, time : Nat]]
      /\ states'[i].queue = (IF p \in ToSet(ghosts) THEN "Am" ELSE "A1")
      /\ \A j \in Slots : j # i => states'[j] = states[j]
  BY <1>3, LoadStates DEF Load
<1>7. A1SizeExact'
  <2>1. CASE p \in ToSet(ghosts)
    <3>1. In("A1")' = In("A1") \ {i}
      BY <1>6, <2>1 DEF In
    <3> QED
      BY <1>3, <1>4, <2>1, <3>1 DEF A1SizeExact, OnLoad
  <2>2. CASE p \notin ToSet(ghosts)
    <3>1. In("A1")' = (In("A1") \ {i}) \cup {i}
      BY <1>6, <2>2 DEF In
    <3>2. IsFiniteSet(In("A1") \ {i}) /\ i \notin In("A1") \ {i}
      BY A1Finite, FS_RemoveElement
    <3>3. Cardinality((In("A1") \ {i}) \cup {i}) = Cardinality(In("A1") \ {i}) + 1
      BY <3>2, FS_AddElement
    <3>4. a1Size' = size + 1
      BY <1>3, <2>2 DEF OnLoad
    <3> QED
      BY <1>4, <3>1, <3>3, <3>4 DEF A1SizeExact
  <2> QED
    BY <2>1, <2>2
<1>8. a1out' \in Seq(PageIds) /\ GhostsAreAbsent'
  <2>1. /\ a1out' \in Seq(PageIds) /\ IsInjective(a1out') /\ Len(a1out') <= A1OutMaxSize
        /\ ToSet(a1out') = ToSet(ghosts) \ {p}
    <3>1. CASE p \in ToSet(ghosts)
      <4>1. a1out' = Without(ghosts, p)
        BY <1>3, <3>1 DEF OnLoad
      <4>2. /\ Without(ghosts, p) \in Seq(PageIds) /\ Len(Without(ghosts, p)) <= Len(ghosts)
            /\ ToSet(Without(ghosts, p)) = ToSet(ghosts) \ {p} /\ IsInjective(Without(ghosts, p))
        BY <1>5, WithoutFacts, WithoutInjective
      <4>3. Len(Without(ghosts, p)) \in Nat /\ Len(ghosts) \in Nat /\ A1OutMaxSize \in Nat
        BY <1>5, <4>2, TwoQAssumption
      <4>4. Len(Without(ghosts, p)) <= A1OutMaxSize
        BY <1>5, <4>2, <4>3
      <4> QED
        BY <4>1, <4>2, <4>4
    <3>2. CASE p \notin ToSet(ghosts)
      <4>1. a1out' = ghosts
        BY <1>3, <3>2 DEF OnLoad
      <4> QED
        BY <1>5, <3>2, <4>1
    <3> QED
      BY <3>1, <3>2
  <2>2. \A j \in Slots : held'[j] \notin ToSet(a1out')
    BY <1>1, <1>5, <2>1
  <2> QED
    BY <2>1, <2>2 DEF GhostsAreAbsent
<1>9. \A j \in Slots : states'[j].queue = "Free" <=> held'[j] = NoPageId
  BY <1>1, <1>6, EvictionAssumption DEF QueueInv
<1> QED
  BY <1>1, <1>6, <1>7, <1>8, <1>9 DEF QueueInv, TwoQBookkeeping

LEMMA LruNext ==
  ASSUME CacheInv, QueueInv, strategy = "LRU", Lru!Next,
         UNCHANGED <<states, a1Size, a1out, strategy>>
  PROVE  CacheInv' /\ QueueInv'
<1>1. PICK p \in PageIds, i \in Slots :
        /\ Hit(p, i) \/ Load(p, i)
        /\ usageCounters' = [usageCounters EXCEPT ![i] = globalCounter']
  BY LruStep
<1>2. CacheInv'
  BY <1>1, HitStep, LoadStep
<1>3. /\ globalCounter' \in 0 .. Never /\ wraps' \in Nat
      /\ usageCounters' \in [Slots -> Nat]
  <2>1. globalCounter' \in 0 .. Never /\ globalCounter' \in Nat /\ wraps' \in Nat
    BY <1>1, CounterFacts DEF Hit, Load
  <2> QED
    BY <1>1, <2>1 DEF QueueInv
<1>4. In("A1")' = In("A1")
  BY DEF In
<1>5. A1SizeExact'
  BY <1>4 DEF A1SizeExact, QueueInv, TwoQBookkeeping
<1>6. a1out' = <<>> /\ GhostsAreAbsent'
  <2>1. a1out' = <<>>
    BY DEF QueueInv
  <2> QED
    BY <2>1, EmptyList, TwoQAssumption DEF GhostsAreAbsent
<1>7. strategy' = "LRU" /\ strategy' # "2Q"
  OBVIOUS
<1> QED
  BY <1>2, <1>3, <1>5, <1>6, <1>7 DEF QueueInv, TwoQBookkeeping

LEMMA InvNext ==
  ASSUME CacheInv, QueueInv, [MCNext]_<<vars, usageCounters, strategy>>
  PROVE  CacheInv' /\ QueueInv'
<1>1. CASE strategy = "LRU" /\ Lru!Next /\ UNCHANGED <<states, a1Size, a1out, strategy>>
  BY <1>1, LruNext
<1>2. CASE strategy = "2Q" /\ Next /\ UNCHANGED <<usageCounters, strategy>>
  <2>1. PICK p \in PageIds, i \in Slots :
          OnAccess(p, i) \/ (Load(p, i) /\ OnLoad(p, i, SizeWithout(i), Remembered(i)))
    BY <1>2, TwoQStep
  <2> QED
    BY <1>2, <2>1, AccessNext, LoadNext
<1>3. CASE UNCHANGED <<vars, usageCounters, strategy>>
  <2>1. UNCHANGED <<held, recency, states, globalCounter, wraps, a1Size, a1out, usageCounters, strategy>>
    BY <1>3 DEF vars, cacheVars
  <2>2. CacheInv'
    BY <2>1 DEF CacheInv
  <2>3. In("A1")' = In("A1")
    BY <2>1 DEF In
  <2> QED
    BY <2>1, <2>2, <2>3 DEF QueueInv, TwoQBookkeeping, A1SizeExact, GhostsAreAbsent
<1> QED
  BY <1>1, <1>2, <1>3 DEF MCNext

\* The size that 2Q keeps of A1 is exact, and a1out remembers pages that are absent,
\* each once and within its capacity (on_invalidate and on_load of evict.rs): for any
\* number of slots and pages and any size of the queues, and also after the counter
\* has wrapped around.
THEOREM BookkeepingSafety == MCSpec => []TwoQBookkeeping
<1>1. MCInit => CacheInv /\ QueueInv
  BY InvInit
<1>2. CacheInv /\ QueueInv /\ [MCNext]_<<vars, usageCounters, strategy>> => (CacheInv /\ QueueInv)'
  BY InvNext
<1>3. QueueInv => TwoQBookkeeping
  BY DEF QueueInv
<1> QED
  BY <1>1, <1>2, <1>3, PTL DEF MCSpec
-----------------------------------------------------------------------------
(* The victims, as long as the counter has not wrapped around.                 *)
LEMMA CounterStep ==
  ASSUME QueueInv, Count, wraps' = 0
  PROVE  /\ wraps = 0 /\ globalCounter' = globalCounter + 1
         /\ globalCounter \in Nat /\ globalCounter < Never
<1>1. wraps \in Nat /\ globalCounter \in 0 .. Never /\ Never \in Nat
  BY EvictionAssumption DEF QueueInv, Never
<1>2. globalCounter # Never
  BY <1>1, CounterFacts
<1> QED
  BY <1>1, <1>2, CounterFacts

LEMMA StampInit == MCInit => StampInv
<1> SUFFICES ASSUME MCInit PROVE StampInv
  OBVIOUS
<1>1. /\ recency = <<>> /\ globalCounter = 0
      /\ states = [i \in Slots |-> Free] /\ usageCounters = [i \in Slots |-> 0]
  BY LruCache DEF MCInit, Init, CacheInit, Lru!Init
<1>2. Free.queue = "Free" /\ Free.time = 0
  BY DEF Free
<1>3. \A i \in Slots : states[i].queue = "Free" /\ states[i].time = 0 /\ usageCounters[i] = 0
  BY <1>1, <1>2
<1>4. Increasing(recency, usageCounters)
  BY <1>1, EmptyList DEF Increasing
<1> QED
  BY <1>1, <1>3, <1>4 DEF StampInv

LEMMA LruStamps ==
  ASSUME wraps' = 0, CacheInv, QueueInv, StampInv, strategy = "LRU", Lru!Next,
         UNCHANGED <<states, a1Size, a1out, strategy>>
  PROVE  StampInv'
<1>1. PICK p \in PageIds, i \in Slots :
        /\ Hit(p, i) \/ Load(p, i)
        /\ usageCounters' = [usageCounters EXCEPT ![i] = globalCounter']
  BY LruStep
<1>2. Count /\ recency' = Append(Without(recency, i), i)
  BY <1>1 DEF Hit, Load
<1>3. wraps = 0 /\ globalCounter' = globalCounter + 1 /\ globalCounter \in Nat
  BY <1>1, <1>2, CounterStep
<1>4. /\ usageCounters \in [Slots -> Nat] /\ usageCounters' \in [Slots -> Nat]
      /\ usageCounters'[i] = globalCounter'
      /\ \A j \in Slots : j # i => usageCounters'[j] = usageCounters[j]
  BY <1>1, <1>3 DEF QueueInv
<1>5. \A j \in Slots : usageCounters[j] <= globalCounter
  BY <1>3 DEF StampInv
<1>6. \A j \in Slots : j # i => usageCounters'[j] = usageCounters[j] /\ usageCounters[j] < usageCounters'[i]
  BY <1>3, <1>4, <1>5
<1>7. Increasing(recency, usageCounters) /\ recency \in Seq(Slots) /\ IsInjective(recency)
  BY <1>3 DEF StampInv, CacheInv
<1>8. Increasing(recency', usageCounters')
  BY <1>2, <1>4, <1>6, <1>7, StampAtEnd
<1>9. \A j \in Slots : usageCounters'[j] <= globalCounter'
  BY <1>3, <1>4, <1>5
<1> QED
  BY <1>3, <1>8, <1>9 DEF StampInv, Increasing

LEMMA TwoQStamps ==
  ASSUME wraps' = 0, CacheInv, QueueInv, StampInv, strategy = "2Q", Next,
         UNCHANGED <<usageCounters, strategy>>
  PROVE  StampInv'
<1>1. PICK p \in PageIds, i \in Slots :
        OnAccess(p, i) \/ (Load(p, i) /\ OnLoad(p, i, SizeWithout(i), Remembered(i)))
  BY TwoQStep
<1>2. Count
  BY <1>1 DEF OnAccess, Hit, Load
<1>3. wraps = 0 /\ globalCounter' = globalCounter + 1 /\ globalCounter \in Nat
  BY <1>2, CounterStep
<1>4. /\ \A j \in Slots : states[j].time \in Nat /\ states[j].time <= globalCounter
      /\ \A j, k \in Slots : states[j].queue # "Free" /\ states[k].queue # "Free"
                             /\ states[j].time = states[k].time => j = k
  BY <1>3 DEF StampInv, QueueInv
<1>5. /\ \A j \in Slots : j # i => states'[j].queue = states[j].queue /\ states'[j].time = states[j].time
      /\ states'[i].time = globalCounter' \/ (states'[i].queue = states[i].queue /\ states'[i].time = states[i].time)
  <2>1. CASE OnAccess(p, i)
    <3>1. /\ \A j \in Slots : states'[j].queue = states[j].queue
          /\ \A j \in Slots : states'[j].time = IF j = i /\ states[i].queue = "Am" THEN globalCounter' ELSE states[j].time
      BY <2>1, AccessStates
    <3> QED
      BY <1>3, <3>1
  <2>2. CASE Load(p, i) /\ OnLoad(p, i, SizeWithout(i), Remembered(i))
    <3>1. /\ states'[i].time = globalCounter'
          /\ \A j \in Slots : j # i => states'[j] = states[j]
      BY <1>2, <2>2, LoadStates
    <3> QED
      BY <1>3, <3>1
  <2> QED
    BY <1>1, <2>1, <2>2
<1>6. \A j \in Slots : states'[j].time <= globalCounter'
  BY <1>3, <1>4, <1>5
<1>7. ASSUME NEW j \in Slots, NEW k \in Slots, states'[j].queue # "Free", states'[k].queue # "Free",
             states'[j].time = states'[k].time
      PROVE  j = k
  <2>1. \A m \in Slots : m # i => states'[m].time # globalCounter'
    BY <1>3, <1>4, <1>5
  <2>2. CASE states'[i].time = globalCounter'
    <3>1. CASE j = i \/ k = i
      BY <1>7, <2>1, <2>2, <3>1
    <3>2. CASE j # i /\ k # i
      BY <1>4, <1>5, <1>7, <3>2
    <3> QED
      BY <3>1, <3>2
  <2>3. CASE states'[i].queue = states[i].queue /\ states'[i].time = states[i].time
    BY <1>4, <1>5, <1>7, <2>3
  <2> QED
    BY <1>5, <2>2, <2>3
<1>8. strategy' # "LRU"
  OBVIOUS
<1> QED
  BY <1>3, <1>6, <1>7, <1>8 DEF StampInv

LEMMA StampNext ==
  ASSUME CacheInv, QueueInv, StampInv, [MCNext]_<<vars, usageCounters, strategy>>
  PROVE  StampInv'
<1> SUFFICES ASSUME wraps' = 0 PROVE StampInv'
  BY DEF StampInv
<1>1. CASE strategy = "LRU" /\ Lru!Next /\ UNCHANGED <<states, a1Size, a1out, strategy>>
  BY <1>1, LruStamps
<1>2. CASE strategy = "2Q" /\ Next /\ UNCHANGED <<usageCounters, strategy>>
  BY <1>2, TwoQStamps
<1>3. CASE UNCHANGED <<vars, usageCounters, strategy>>
  BY <1>3 DEF vars, cacheVars, StampInv, Increasing
<1> QED
  BY <1>1, <1>2, <1>3 DEF MCNext

LEMMA TwoSlots == 0 \in Slots /\ 1 \in Slots /\ Modulus \in Nat
BY EvictionAssumption, TwoQAssumption DEF Slots

\* A full cache has the least recently used slot first in recency, with the smallest stamp.
LEMMA LruVictim ==
  ASSUME CacheInv, QueueInv, StampInv
  PROVE  LruVictimIsOldest
<1> SUFFICES ASSUME strategy = "LRU", wraps = 0, FreeSlots = {} PROVE Lru!ChooseVictim = recency[1]
  BY LruCache DEF LruVictimIsOldest, Lru!VictimIsLeastRecentlyUsed
<1>1. /\ recency \in Seq(Slots) /\ Len(recency) \in Nat
      /\ \A i \in Slots : \E k \in 1 .. Len(recency) : recency[k] = i
  BY ListFacts DEF CacheInv, FreeSlots
<1>2. /\ usageCounters \in [Slots -> Nat] /\ globalCounter \in 0 .. Modulus - 1
      /\ \A i \in Slots : usageCounters[i] <= globalCounter
      /\ \A j, k \in 1 .. Len(recency) : j < k => usageCounters[recency[j]] < usageCounters[recency[k]]
  BY DEF StampInv, QueueInv, Increasing, Never
<1> DEFINE x == recency[1]
           C == Candidates(Slots, usageCounters)
<1>3. x \in Slots /\ 1 \in 1 .. Len(recency)
  <2>1. PICK i \in Slots : TRUE
    BY TwoSlots
  <2>2. PICK k \in 1 .. Len(recency) : recency[k] = i
    BY <1>1, <2>1
  <2>3. 1 \in 1 .. Len(recency)
    BY <1>1, <2>2
  <2> QED
    BY <1>1, <2>3
<1>4. ASSUME NEW i \in Slots, i # x PROVE usageCounters[x] < usageCounters[i]
  <2>1. PICK k \in 1 .. Len(recency) : recency[k] = i
    BY <1>1
  <2>2. 1 < k
    BY <1>1, <1>4, <2>1
  <2> QED
    BY <1>2, <1>3, <2>1, <2>2
<1> HIDE DEF x
<1>5. PICK i \in Slots : i # x
  BY TwoSlots
<1>6. usageCounters[x] < Modulus - 1
  <2>1. usageCounters[x] \in Nat /\ usageCounters[i] \in Nat /\ usageCounters[x] < usageCounters[i] /\ usageCounters[i] <= globalCounter
    BY <1>2, <1>3, <1>4, <1>5
  <2> QED
    BY <1>2, <2>1, TwoSlots
<1>7. x \in C
  BY <1>3, <1>6 DEF Candidates, Never
<1>8. Oldest(Slots, usageCounters) \in C /\ usageCounters[Oldest(Slots, usageCounters)] <= usageCounters[x]
  BY <1>2, <1>7, OldestIsCandidate
<1>9. PICK v : v = Oldest(Slots, usageCounters)
  OBVIOUS
<1>10. v \in Slots /\ usageCounters[v] <= usageCounters[x] /\ usageCounters[v] \in Nat /\ usageCounters[x] \in Nat
  BY <1>2, <1>3, <1>8, <1>9 DEF Candidates
<1>11. v = x
  BY <1>4, <1>10
<1> QED
  BY <1>7, <1>9, <1>11, LruCache DEF Lru!ChooseVictim, x

-----------------------------------------------------------------------------
(* The slots that the scans of 2Q skip.                                        *)
LEMMA SkippedFacts ==
  /\ Skipped \subseteq Slots /\ IsFiniteSet(Skipped) /\ Cardinality(Skipped) \in Nat
  /\ Skipped' \subseteq Slots /\ IsFiniteSet(Skipped') /\ Cardinality(Skipped') \in Nat
<1>1. Skipped \subseteq Slots /\ Skipped' \subseteq Slots
  BY DEF Skipped
<1> QED
  BY <1>1, SlotFacts, FS_Subset, FS_CardinalityType

LEMMA SkippedInit == MCInit => SkippedInv
<1> SUFFICES ASSUME MCInit PROVE SkippedInv
  OBVIOUS
<1>1. /\ states = [i \in Slots |-> Free] /\ globalCounter = 0 /\ wraps = 0
      /\ Free.queue = "Free" /\ Free.time = 0 /\ Never \in Nat
  BY EvictionAssumption DEF MCInit, Init, CacheInit, Free, Never
<1> HIDE DEF Free
<1>2. Skipped = {} /\ \A i \in Slots : states[i].time <= Never
  BY <1>1 DEF Skipped
<1>3. Cardinality(Skipped) = 0
  BY <1>2, FS_EmptySet
<1> QED
  BY <1>1, <1>2, <1>3 DEF SkippedInv

\* A step stamps one slot at most, with u32::MAX only when the counter arrives there:
\* the step after it begins the next lap.
LEMMA SkippedStep ==
  ASSUME CacheInv, QueueInv, SkippedInv, strategy = "2Q", Next, UNCHANGED <<usageCounters, strategy>>
  PROVE  SkippedInv'
<1>1. PICK p \in PageIds, i \in Slots :
        OnAccess(p, i) \/ (Load(p, i) /\ OnLoad(p, i, SizeWithout(i), Remembered(i)))
  BY TwoQStep
<1>2. Count
  BY <1>1 DEF OnAccess, Hit, Load
<1>3. \A j \in Slots : \/ states'[j].time = globalCounter'
                       \/ states'[j].time = states[j].time /\ states'[j].queue = states[j].queue
  BY <1>1, <1>2, AccessStates, LoadStates
<1>4. /\ \A j \in Slots : j # i => states'[j].time = states[j].time /\ states'[j].queue = states[j].queue
  BY <1>1, <1>2, AccessStates, LoadStates
<1>5. Skipped' \subseteq Skipped \cup {i}
  BY <1>4 DEF Skipped, Never
<1>6. globalCounter' # Never => Skipped' \subseteq Skipped
  BY <1>3 DEF Skipped, Never
<1>7. /\ \A j \in Slots : states[j].time <= Never
      /\ Cardinality(Skipped) <= wraps + (IF globalCounter = Never THEN 1 ELSE 0)
      /\ wraps \in Nat /\ globalCounter \in 0 .. Never /\ Never \in Nat /\ Never # 0
  BY EvictionAssumption DEF SkippedInv, QueueInv, Never
<1>8. \A j \in Slots : states'[j].time <= Never
  BY <1>2, <1>3, <1>7, CounterFacts DEF Never
<1>9. CASE globalCounter' = Never
  <2>1. globalCounter # Never /\ wraps' = wraps
    BY <1>2, <1>7, <1>9, CounterFacts DEF Never
  <2>2. IsFiniteSet(Skipped \cup {i}) /\ Cardinality(Skipped \cup {i}) <= Cardinality(Skipped) + 1
    <3>1. /\ IsFiniteSet(Skipped \cup {i})
          /\ Cardinality(Skipped \cup {i}) =
               IF i \in Skipped THEN Cardinality(Skipped) ELSE Cardinality(Skipped) + 1
      BY SkippedFacts, FS_AddElement
    <3> QED
      BY <3>1, SkippedFacts
  <2>3. Cardinality(Skipped') <= Cardinality(Skipped \cup {i})
    BY <1>5, <2>2, FS_Subset
  <2>4. Cardinality(Skipped \cup {i}) \in Nat
    BY <2>2, FS_CardinalityType
  <2>5. Cardinality(Skipped') <= wraps' + 1
    BY <1>7, <2>1, <2>2, <2>3, <2>4, SkippedFacts
  <2> QED
    BY <1>8, <1>9, <2>5 DEF SkippedInv, Never
<1>10. CASE globalCounter' # Never
  <2>1. wraps' \in Nat /\ wraps + (IF globalCounter = Never THEN 1 ELSE 0) <= wraps'
    BY <1>2, <1>7, CounterFacts
  <2>2. Cardinality(Skipped') <= Cardinality(Skipped)
    BY <1>6, <1>10, SkippedFacts, FS_Subset
  <2>3. Cardinality(Skipped') <= wraps'
    BY <1>7, <2>1, <2>2, SkippedFacts
  <2> QED
    BY <1>8, <1>10, <2>1, <2>3, SkippedFacts DEF SkippedInv, Never
<1> QED
  BY <1>9, <1>10

LEMMA SkippedNext ==
  ASSUME CacheInv, QueueInv, SkippedInv, [MCNext]_<<vars, usageCounters, strategy>>
  PROVE  SkippedInv'
<1>1. CASE strategy = "LRU" /\ Lru!Next /\ UNCHANGED <<states, a1Size, a1out, strategy>>
  BY <1>1 DEF SkippedInv
<1>2. CASE strategy = "2Q" /\ Next /\ UNCHANGED <<usageCounters, strategy>>
  BY <1>2, SkippedStep
<1>3. CASE UNCHANGED <<vars, usageCounters, strategy>>
  <2>1. UNCHANGED <<states, globalCounter, wraps, strategy>>
    BY <1>3 DEF vars, cacheVars
  <2>2. Skipped' = Skipped
    BY <2>1 DEF Skipped
  <2> QED
    BY <2>1, <2>2 DEF SkippedInv, Never
<1> QED
  BY <1>1, <1>2, <1>3 DEF MCNext

LEMMA SlotCount == Cardinality(Slots) = NSlots /\ NSlots \in Nat
<1>1. NSlots \in Nat \ {0} /\ 0 \in Int /\ NSlots - 1 \in Int
  BY EvictionAssumption
<1>2. Cardinality(0 .. NSlots - 1) = IF 0 > NSlots - 1 THEN 0 ELSE NSlots - 1 - 0 + 1
  BY <1>1, FS_Interval
<1> QED
  BY <1>1, <1>2 DEF Slots

\* Where a full cache has no victim, the scans skip every slot.
LEMMA TwoQVictim ==
  ASSUME CacheInv, QueueInv, SkippedInv
  PROVE  TwoQHasAVictim
<1> SUFFICES ASSUME strategy = "2Q", FreeSlots = {}, VictimIn("Am") = {}, VictimIn("A1") = {}
             PROVE  wraps >= NSlots - 1
  BY DEF TwoQHasAVictim, VictimUntilWraps, Unreachable
<1>1. \A i \in Slots : /\ states[i].queue \in {"A1", "Am"}
                       /\ states[i].time \in Nat /\ ~(states[i].time < Never)
  <2>1. \A i \in Slots : states[i].queue \in {"A1", "Am"} /\ states[i].time \in Nat
    BY DEF QueueInv, FreeSlots
  <2>2. ASSUME NEW i \in Slots PROVE ~(states[i].time < Never)
    <3>1. i \notin VictimIn("Am") /\ i \notin VictimIn("A1") /\ (i \in In("Am") \/ i \in In("A1"))
      BY <2>1 DEF In
    <3> QED
      BY <3>1 DEF VictimIn, Candidates, Time
  <2> QED
    BY <2>1, <2>2
<1>2. \A i \in Slots : states[i].time <= Never
  BY DEF SkippedInv
<1>3. Never \in Nat
  BY EvictionAssumption DEF Never
<1>4. \A i \in Slots : states[i].time = Never
  BY <1>1, <1>2, <1>3
<1>5. Skipped = Slots
  BY <1>1, <1>4 DEF Skipped
<1>6. NSlots <= wraps + 1 /\ wraps \in Nat
  <2>1. NSlots <= wraps + (IF globalCounter = Never THEN 1 ELSE 0) /\ wraps \in Nat
    BY <1>5, SlotCount DEF SkippedInv, QueueInv
  <2> QED
    BY <2>1, SlotCount
<1> QED
  BY <1>6, SlotCount

\* Until the counter of LruEvictionStrategy wraps around (after 2^32 - 1 calls in the
\* code), choose_victim names the slot that was used least recently, for any number of
\* slots and pages.
THEOREM LruSafety == MCSpec => []LruVictimIsOldest
<1>1. MCInit => CacheInv /\ QueueInv /\ StampInv
  BY InvInit, StampInit
<1>2. CacheInv /\ QueueInv /\ StampInv /\ [MCNext]_<<vars, usageCounters, strategy>>
        => (CacheInv /\ QueueInv /\ StampInv)'
  BY InvNext, StampNext
<1>3. CacheInv /\ QueueInv /\ StampInv => LruVictimIsOldest
  BY LruVictim
<1> QED
  BY <1>1, <1>2, <1>3, PTL DEF MCSpec

\* However often the counter of TwoQEvictionStrategy wraps around, choose_victim does
\* not reach its unreachable! (evict.rs:205) before it has done so once for all slots
\* but one: for any number of slots and pages, any sizes of the queues and any width of
\* the counter. In every lap one slot at most gets the stamp that the scans skip.
THEOREM TwoQSafety == MCSpec => []TwoQHasAVictim
<1>1. MCInit => CacheInv /\ QueueInv /\ SkippedInv
  BY InvInit, SkippedInit
<1>2. CacheInv /\ QueueInv /\ SkippedInv /\ [MCNext]_<<vars, usageCounters, strategy>>
        => (CacheInv /\ QueueInv /\ SkippedInv)'
  BY InvNext, SkippedNext
<1>3. CacheInv /\ QueueInv /\ SkippedInv => TwoQHasAVictim
  BY TwoQVictim
<1> QED
  BY <1>1, <1>2, <1>3, PTL DEF MCSpec
-----------------------------------------------------------------------------
(* The queues that the time stamps imply, as long as the counter has not wrapped *)
(* around: lists of slots in the order of their stamps.                         *)
\* A list of the slots S in the order of their time stamps.
IsOrder(s, S, time) == s \in Seq(Slots) /\ ToSet(s) = S /\ Increasing(s, time)

\* There is one such list, and it is the one that Queue lists.
LEMMA OrderUnique ==
  ASSUME NEW S, S \subseteq Slots, NEW time \in [Slots -> Nat],
         NEW s, IsOrder(s, S, time), NEW t, IsOrder(t, S, time), Len(s) = Len(t)
  PROVE  s = t
<1>1. /\ s \in Seq(Slots) /\ t \in Seq(Slots) /\ Len(s) \in Nat
      /\ \A k \in 1 .. Len(s) : s[k] \in S /\ time[s[k]] \in Nat
      /\ \A k \in 1 .. Len(s) : t[k] \in S /\ time[t[k]] \in Nat
      /\ \A x \in S : \E k \in 1 .. Len(s) : s[k] = x
      /\ \A x \in S : \E k \in 1 .. Len(s) : t[k] = x
  BY ListFacts DEF IsOrder
<1>2. /\ \A j, k \in 1 .. Len(s) : j < k => time[s[j]] < time[s[k]]
      /\ \A j, k \in 1 .. Len(s) : j < k => time[t[j]] < time[t[k]]
  BY DEF IsOrder, Increasing
<1> DEFINE D == {k \in 1 .. Len(s) : s[k] # t[k]}
<1>3. D = {}
  <2> SUFFICES ASSUME D # {} PROVE FALSE
    OBVIOUS
  <2>1. D \subseteq Nat
    BY <1>1
  <2>2. PICK k \in D : \A j \in D : k <= j
    BY <2>1, MinExists
  <2>3. /\ k \in 1 .. Len(s) /\ s[k] # t[k]
        /\ \A j \in 1 .. Len(s) : j < k => s[j] = t[j]
    BY <1>1, <2>2
  <2> HIDE DEF D
  <2>4. PICK m \in 1 .. Len(s) : s[m] = t[k]
    BY <1>1, <2>3
  <2>5. PICK n \in 1 .. Len(s) : t[n] = s[k]
    BY <1>1, <2>3
  <2>6. ~ (m < k)
    <3> SUFFICES ASSUME m < k PROVE FALSE
      OBVIOUS
    <3>1. time[t[m]] < time[t[k]] /\ t[m] = t[k]
      BY <1>2, <2>3, <2>4
    <3>2. time[t[m]] \in Nat
      BY <1>1
    <3> QED
      BY <3>1, <3>2
  <2>7. ~ (n < k)
    <3> SUFFICES ASSUME n < k PROVE FALSE
      OBVIOUS
    <3>1. time[s[n]] < time[s[k]] /\ s[n] = s[k]
      BY <1>2, <2>3, <2>5
    <3>2. time[s[n]] \in Nat
      BY <1>1
    <3> QED
      BY <3>1, <3>2
  <2>8. m # k /\ n # k
    BY <2>3, <2>4, <2>5
  <2>9. k < m /\ k < n
    BY <1>1, <2>3, <2>6, <2>7, <2>8
  <2>10. time[s[k]] < time[t[k]] /\ time[t[k]] < time[s[k]]
    BY <1>2, <2>3, <2>4, <2>5, <2>9
  <2>11. time[s[k]] \in Nat /\ time[t[k]] \in Nat
    BY <1>1, <2>3
  <2> QED
    BY <2>10, <2>11
<1>4. \A k \in 1 .. Len(s) : s[k] = t[k]
  BY <1>3
<1> QED
  BY <1>1, <1>4, SeqEqual

LEMMA OrderLength ==
  ASSUME NEW S, S \subseteq Slots, NEW time \in [Slots -> Nat], NEW s, IsOrder(s, S, time)
  PROVE  /\ s \in [1 .. Cardinality(S) -> S] /\ Len(s) = Cardinality(S) /\ Len(s) \in Nat
         /\ IsInjective(s)
         /\ \A j, k \in 1 .. Len(s) : j # k => s[j] # s[k]
<1>1. /\ s \in Seq(Slots) /\ Len(s) \in Nat /\ DOMAIN s = 1 .. Len(s) /\ s \in [1 .. Len(s) -> S]
      /\ \A k \in 1 .. Len(s) : s[k] \in S /\ time[s[k]] \in Nat
      /\ \A x \in S : \E k \in 1 .. Len(s) : s[k] = x
  BY ListFacts DEF IsOrder
<1>2. ASSUME NEW j \in 1 .. Len(s), NEW k \in 1 .. Len(s), j < k PROVE s[j] # s[k]
  BY <1>1, <1>2 DEF IsOrder, Increasing
<1>3. IsInjective(s)
  BY <1>1, <1>2, IncreasingInjective
<1>4. \A j, k \in 1 .. Len(s) : j # k => s[j] # s[k]
  BY <1>1, <1>3 DEF IsInjective
<1>5. s \in Bijection(1 .. Len(s), S)
  BY <1>1, <1>3 DEF Bijection, Injection, Surjection
<1>6. ExistsBijection(1 .. Len(s), S)
  BY <1>5 DEF ExistsBijection
<1>7. Cardinality(S) = Len(s)
  BY <1>1, <1>6, FS_CountingElements
<1> QED
  BY <1>1, <1>3, <1>4, <1>7

LEMMA OrderedIs ==
  ASSUME NEW S, S \subseteq Slots, NEW time \in [Slots -> Nat], NEW s, IsOrder(s, S, time)
  PROVE  Ordered(S, time) = s
<1>1. /\ s \in [1 .. Cardinality(S) -> S] /\ Len(s) = Cardinality(S) /\ Len(s) \in Nat
      /\ \A j, k \in 1 .. Len(s) : j # k => s[j] # s[k]
  BY OrderLength
<1>2. s \in SetToSeqs(S)
  BY <1>1 DEF SetToSeqs
<1>3. \A j, k \in DOMAIN s : j < k => time[s[j]] < time[s[k]]
  BY <1>1 DEF IsOrder, Increasing
<1>4. PICK t : t = Ordered(S, time)
  OBVIOUS
<1>5. t \in SetToSeqs(S) /\ \A j, k \in DOMAIN t : j < k => time[t[j]] < time[t[k]]
  BY <1>2, <1>3, <1>4 DEF Ordered
<1>6. t \in [1 .. Len(s) -> S] /\ \A j, k \in 1 .. Len(s) : j # k => t[j] # t[k]
  BY <1>1, <1>5 DEF SetToSeqs
<1>7. t \in Seq(Slots) /\ Len(t) = Len(s)
  BY <1>1, <1>6
<1>8. ToSet(t) = S
  <2>1. t \in Injection(1 .. Len(s), S)
    <3>1. IsInjective(t)
      BY <1>6 DEF IsInjective
    <3> QED
      BY <1>6, <3>1 DEF Injection
  <2>2. IsFiniteSet(S) /\ IsFiniteSet(1 .. Len(s)) /\ Cardinality(1 .. Len(s)) = Len(s)
    <3>1. IsFiniteSet(S)
      BY SlotFacts, FS_Subset
    <3>2. 1 \in Int /\ Len(s) \in Int
      BY <1>1
    <3>3. IsFiniteSet(1 .. Len(s)) /\ Cardinality(1 .. Len(s)) = IF 1 > Len(s) THEN 0 ELSE Len(s) - 1 + 1
      BY <3>2, FS_Interval
    <3> QED
      BY <1>1, <3>1, <3>3
  <2>3. t \in Surjection(1 .. Len(s), S)
    BY <1>1, <2>1, <2>2, FS_Injection
  <2> QED
    BY <1>6, <2>3 DEF Surjection, ToSet
<1>9. IsOrder(t, S, time)
  BY <1>5, <1>6, <1>7, <1>8 DEF IsOrder, Increasing
<1> QED
  BY <1>4, <1>7, <1>9, OrderUnique

\* A slot with the latest stamp comes last.
LEMMA OrderAppend ==
  ASSUME NEW S, S \subseteq Slots, NEW time \in [Slots -> Nat], NEW s, IsOrder(s, S, time),
         NEW x \in Slots \ S, NEW later \in [Slots -> Nat],
         \A y \in S : later[y] = time[y] /\ time[y] < later[x]
  PROVE  IsOrder(Append(s, x), S \cup {x}, later)
<1>1. s \in Seq(Slots) /\ ToSet(s) = S /\ x \notin ToSet(s)
  BY DEF IsOrder
<1>2. PICK r : r = Append(s, x)
  OBVIOUS
<1>3. /\ r \in Seq(Slots) /\ Len(r) = Len(s) + 1 /\ ToSet(r) = ToSet(s) \cup {x}
      /\ r[Len(s) + 1] = x /\ \A k \in 1 .. Len(s) : r[k] = s[k]
  BY <1>1, <1>2, AppendFacts
<1>4. Len(s) \in Nat /\ \A k \in 1 .. Len(s) : s[k] \in S
  BY <1>1, ListFacts
<1>5. ASSUME NEW j \in 1 .. Len(r), NEW k \in 1 .. Len(r), j < k PROVE later[r[j]] < later[r[k]]
  <2>0. j \in 1 .. Len(s)
    <3>1. PICK n \in Nat : n = Len(s) /\ Len(r) = n + 1
      BY <1>3, <1>4
    <3>2. j \in 1 .. n + 1 /\ k \in 1 .. n + 1 /\ j < k
      BY <1>5, <3>1
    <3>3. j \in 1 .. n
      BY <3>2
    <3> QED
      BY <3>1, <3>3
  <2>1. j \in 1 .. Len(s) /\ r[j] = s[j] /\ s[j] \in S
    BY <1>3, <1>4, <2>0
  <2>2. CASE k = Len(s) + 1
    BY <1>3, <2>1, <2>2
  <2>3. CASE k # Len(s) + 1
    <3>0. k \in 1 .. Len(s)
      BY <1>3, <1>4, <2>3
    <3>1. k \in 1 .. Len(s) /\ r[k] = s[k] /\ s[k] \in S
      BY <1>3, <1>4, <3>0
    <3>2. time[s[j]] < time[s[k]]
      BY <1>5, <2>1, <3>1 DEF IsOrder, Increasing
    <3> QED
      BY <2>1, <3>1, <3>2
  <2> QED
    BY <2>2, <2>3
<1> QED
  BY <1>1, <1>2, <1>3, <1>5 DEF IsOrder, Increasing

\* Stamps of other slots do not matter.
LEMMA OrderKeep ==
  ASSUME NEW S, S \subseteq Slots, NEW time, NEW s, IsOrder(s, S, time), NEW later,
         \A y \in S : later[y] = time[y]
  PROVE  IsOrder(s, S, later)
<1>1. s \in Seq(Slots) /\ ToSet(s) = S /\ \A k \in 1 .. Len(s) : s[k] \in S
  BY ListFacts DEF IsOrder
<1> QED
  BY <1>1 DEF IsOrder, Increasing

\* A slot that is used moves from its place to the end.
LEMMA OrderMove ==
  ASSUME NEW S, S \subseteq Slots, NEW time \in [Slots -> Nat], NEW s, IsOrder(s, S, time),
         NEW x \in S, NEW later \in [Slots -> Nat],
         \A y \in Slots : y # x => later[y] = time[y] /\ time[y] < later[x]
  PROVE  IsOrder(Append(Without(s, x), x), S, later)
<1>1. s \in Seq(Slots) /\ ToSet(s) = S /\ IsInjective(s) /\ Increasing(s, time) /\ x \in Slots
  BY OrderLength DEF IsOrder
<1>2. Increasing(Append(Without(s, x), x), later)
  BY <1>1, StampAtEnd
<1>3. /\ Append(Without(s, x), x) \in Seq(Slots)
      /\ ToSet(Append(Without(s, x), x)) = ToSet(s) \cup {x}
  BY <1>1, MoveToEnd
<1> QED
  BY <1>1, <1>2, <1>3 DEF IsOrder

\* The first slot has the earliest stamp.
LEMMA OrderTail ==
  ASSUME NEW S, S \subseteq Slots, NEW time \in [Slots -> Nat], NEW s, IsOrder(s, S, time), S # {}
  PROVE  /\ s # <<>> /\ s[1] \in S /\ \A y \in S \ {s[1]} : time[s[1]] < time[y]
         /\ IsOrder(Tail(s), S \ {s[1]}, time)
<1>1. /\ s \in Seq(Slots) /\ ToSet(s) = S /\ Len(s) \in Nat /\ IsInjective(s)
      /\ DOMAIN s = 1 .. Len(s)
      /\ \A k \in 1 .. Len(s) : s[k] \in S
      /\ \A x \in S : \E k \in 1 .. Len(s) : s[k] = x
      /\ \A j, k \in 1 .. Len(s) : j < k => time[s[j]] < time[s[k]]
  BY OrderLength, ListFacts DEF IsOrder, Increasing
<1>2. 1 \in 1 .. Len(s) /\ s # <<>> /\ s[1] \in S
  BY <1>1
<1>3. ASSUME NEW y \in S \ {s[1]} PROVE time[s[1]] < time[y]
  <2>1. PICK k \in 1 .. Len(s) : s[k] = y
    BY <1>1
  <2>2. 1 < k
    BY <1>1, <2>1
  <2> QED
    BY <1>1, <1>2, <2>1, <2>2
<1>4. PICK t : t = Tail(s)
  OBVIOUS
<1>5. t \in Seq(Slots) /\ Len(t) = Len(s) - 1 /\ \A k \in 1 .. Len(t) : t[k] = s[k + 1]
  BY <1>1, <1>2, <1>4
<1>6. \A x : x \in ToSet(t) <=> \E k \in 1 .. Len(t) : t[k] = x
  BY <1>5, ListFacts
<1>7. ToSet(t) = S \ {s[1]}
  <2>1. ASSUME NEW x \in ToSet(t) PROVE x \in S \ {s[1]}
    <3>1. PICK k \in 1 .. Len(t) : t[k] = x
      BY <1>6
    <3>2. k + 1 \in 1 .. Len(s) /\ s[k + 1] = x /\ k + 1 # 1
      <4>1. k \in Nat /\ 1 <= k /\ k <= Len(s) - 1
        BY <1>1, <1>5, <3>1
      <4>2. s[k + 1] = x
        BY <1>5, <3>1
      <4> QED
        BY <1>1, <4>1, <4>2
    <3>3. x # s[1]
      BY <1>1, <1>2, <3>2 DEF IsInjective
    <3>4. x \in S
      BY <1>1, <3>2
    <3> QED
      BY <3>3, <3>4
  <2>2. ASSUME NEW x \in S \ {s[1]} PROVE x \in ToSet(t)
    <3>1. PICK k \in 1 .. Len(s) : s[k] = x
      BY <1>1
    <3>2. k # 1
      BY <3>1
    <3>3. k - 1 \in 1 .. Len(t) /\ k - 1 + 1 = k
      BY <1>1, <1>5, <3>1, <3>2
    <3>4. t[k - 1] = s[k - 1 + 1]
      BY <1>5, <3>3
    <3> QED
      BY <1>6, <3>1, <3>3, <3>4
  <2> QED
    BY <2>1, <2>2
<1>8. ASSUME NEW j \in 1 .. Len(t), NEW k \in 1 .. Len(t), j < k PROVE time[t[j]] < time[t[k]]
  <2>1. j + 1 \in 1 .. Len(s) /\ k + 1 \in 1 .. Len(s) /\ j + 1 < k + 1
    BY <1>1, <1>5, <1>8
  <2>2. time[s[j + 1]] < time[s[k + 1]]
    BY <1>1, <2>1
  <2> QED
    BY <1>5, <2>2
<1> QED
  BY <1>2, <1>3, <1>4, <1>5, <1>7, <1>8 DEF IsOrder, Increasing

-----------------------------------------------------------------------------
\* The pages in a list of slots, where slot i holds page h[i].
PagesIn(s, h) == [n \in DOMAIN s |-> h[s[n]]]

LEMMA PagesInFacts ==
  ASSUME NEW T, NEW s \in Seq(Slots), NEW h \in [Slots -> T]
  PROVE  /\ PagesIn(s, h) \in Seq(T) /\ Len(PagesIn(s, h)) = Len(s)
         /\ \A k \in 1 .. Len(s) : PagesIn(s, h)[k] = h[s[k]]
         /\ ToSet(PagesIn(s, h)) = {h[i] : i \in ToSet(s)}
<1>1. Len(s) \in Nat /\ DOMAIN s = 1 .. Len(s) /\ \A k \in 1 .. Len(s) : s[k] \in Slots
  BY ListFacts
<1>2. PICK r : r = PagesIn(s, h)
  OBVIOUS
<1>3. r = [n \in 1 .. Len(s) |-> h[s[n]]]
  BY <1>1, <1>2 DEF PagesIn
<1>4. r \in [1 .. Len(s) -> T]
  BY <1>1, <1>3
<1>5. r \in Seq(T) /\ Len(r) = Len(s)
  BY <1>1, <1>4
<1>6. \A k \in 1 .. Len(s) : r[k] = h[s[k]]
  BY <1>3
<1>7. ToSet(r) = {h[i] : i \in ToSet(s)}
  BY <1>1, <1>3 DEF ToSet
<1> QED
  BY <1>2, <1>5, <1>6, <1>7

LEMMA PagesInAppend ==
  ASSUME NEW T, NEW s \in Seq(Slots), NEW h \in [Slots -> T], NEW i \in Slots
  PROVE  PagesIn(Append(s, i), h) = Append(PagesIn(s, h), h[i])
<1>1. PICK r, u, v : r = Append(s, i) /\ u = PagesIn(r, h) /\ v = PagesIn(s, h)
  OBVIOUS
<1>2. /\ r \in Seq(Slots) /\ Len(r) = Len(s) + 1 /\ r[Len(s) + 1] = i /\ Len(s) \in Nat
      /\ \A k \in 1 .. Len(s) : r[k] = s[k]
  BY <1>1, AppendProperties
<1>30. r \in Seq(Slots)
  BY <1>2
<1>31. u \in Seq(T) /\ Len(u) = Len(r) /\ \A k \in 1 .. Len(r) : u[k] = h[r[k]]
  BY ZenonT(30), <1>1, <1>30, PagesInFacts
<1>32. v \in Seq(T) /\ Len(v) = Len(s) /\ \A k \in 1 .. Len(s) : v[k] = h[s[k]]
  BY ZenonT(30), <1>1, PagesInFacts
<1>3. /\ u \in Seq(T) /\ Len(u) = Len(r) /\ \A k \in 1 .. Len(r) : u[k] = h[r[k]]
      /\ v \in Seq(T) /\ Len(v) = Len(s) /\ \A k \in 1 .. Len(s) : v[k] = h[s[k]]
  BY <1>31, <1>32
<1>4. h[i] \in T
  OBVIOUS
<1>5. /\ Append(v, h[i]) \in Seq(T) /\ Len(Append(v, h[i])) = Len(v) + 1
      /\ Append(v, h[i])[Len(v) + 1] = h[i] /\ \A k \in 1 .. Len(v) : Append(v, h[i])[k] = v[k]
  BY <1>3, <1>4, AppendProperties
<1>6. ASSUME NEW k \in 1 .. Len(u) PROVE u[k] = Append(v, h[i])[k]
  <2>1. CASE k = Len(s) + 1
    BY <1>2, <1>3, <1>5, <2>1
  <2>2. CASE k # Len(s) + 1
    <3>1. k \in 1 .. Len(s)
      BY <1>2, <1>3, <2>2
    <3> QED
      BY <1>2, <1>3, <1>5, <3>1
  <2> QED
    BY <2>1, <2>2
<1>7. u = Append(v, h[i])
  BY <1>2, <1>3, <1>5, <1>6, SeqEqual
<1> QED
  BY <1>1, <1>7

LEMMA PagesInTail ==
  ASSUME NEW T, NEW s \in Seq(Slots), s # <<>>, NEW h \in [Slots -> T]
  PROVE  /\ PagesIn(s, h) # <<>> /\ Head(PagesIn(s, h)) = h[s[1]]
         /\ PagesIn(Tail(s), h) = Tail(PagesIn(s, h))
<1>1. PICK r, u, v : r = Tail(s) /\ u = PagesIn(r, h) /\ v = PagesIn(s, h)
  OBVIOUS
<1>2. /\ r \in Seq(Slots) /\ Len(r) = Len(s) - 1 /\ Len(s) \in Nat /\ Len(s) > 0
      /\ \A k \in 1 .. Len(s) - 1 : r[k] = s[k + 1]
  BY <1>1
<1>30. r \in Seq(Slots)
  BY <1>2
<1>31. u \in Seq(T) /\ Len(u) = Len(r) /\ \A k \in 1 .. Len(r) : u[k] = h[r[k]]
  BY ZenonT(30), <1>1, <1>30, PagesInFacts
<1>32. v \in Seq(T) /\ Len(v) = Len(s) /\ \A k \in 1 .. Len(s) : v[k] = h[s[k]]
  BY ZenonT(30), <1>1, PagesInFacts
<1>3. /\ u \in Seq(T) /\ Len(u) = Len(r) /\ \A k \in 1 .. Len(r) : u[k] = h[r[k]]
      /\ v \in Seq(T) /\ Len(v) = Len(s) /\ \A k \in 1 .. Len(s) : v[k] = h[s[k]]
  BY <1>31, <1>32
<1>4. v # <<>> /\ Head(v) = v[1] /\ v[1] = h[s[1]]
  <2>1. 1 \in 1 .. Len(s) /\ Len(v) > 0
    BY <1>2, <1>3
  <2>2. v # <<>>
    BY <2>1
  <2> QED
    BY <1>3, <2>1, <2>2
<1>5. PICK w : w = Tail(v)
  OBVIOUS
<1>6. w \in Seq(T) /\ Len(w) = Len(v) - 1 /\ \A k \in 1 .. Len(v) - 1 : w[k] = v[k + 1]
  BY <1>3, <1>4, <1>5
<1>7. ASSUME NEW k \in 1 .. Len(u) PROVE u[k] = w[k]
  <2>1. k \in 1 .. Len(r) /\ k + 1 \in 1 .. Len(s) /\ k \in 1 .. Len(s) - 1 /\ k \in 1 .. Len(v) - 1
    BY <1>2, <1>3
  <2>2. u[k] = h[s[k + 1]] /\ w[k] = v[k + 1] /\ v[k + 1] = h[s[k + 1]]
    BY <1>2, <1>3, <1>6, <2>1
  <2> QED
    BY <2>2
<1>8. Len(u) = Len(w)
  BY <1>2, <1>3, <1>6
<1>9. u = w
  BY <1>3, <1>6, <1>7, <1>8, SeqEqual
<1> QED
  BY <1>1, <1>4, <1>5, <1>9

LEMMA PagesInKeep ==
  ASSUME NEW s \in Seq(Slots), NEW h, NEW g, \A i \in ToSet(s) : h[i] = g[i]
  PROVE  PagesIn(s, h) = PagesIn(s, g)
<1>1. \A n \in DOMAIN s : s[n] \in ToSet(s)
  BY DEF ToSet
<1> QED
  BY <1>1 DEF PagesIn

\* Where an element is listed once, RemoveFirst and Without take it from the same place.
LEMMA RemoveFirstIs ==
  ASSUME NEW S, NEW s \in Seq(S), IsInjective(s), NEW m \in 1 .. Len(s)
  PROVE  RemoveFirst(s, s[m]) = RemoveAt(s, m) /\ Without(s, s[m]) = RemoveAt(s, m)
<1>1. Len(s) \in Nat /\ DOMAIN s = 1 .. Len(s) /\ \A k \in 1 .. Len(s) : s[k] = s[m] => k = m
  BY ListFacts DEF IsInjective
<1>2. s[m] \in ToSet(s)
  BY <1>1 DEF ToSet
<1>3. (CHOOSE k \in DOMAIN s : s[k] = s[m]) = m
  BY <1>1
<1>4. Without(s, s[m]) = RemoveAt(s, m)
  BY <1>2, <1>3 DEF Without
<1> DEFINE I == {i \in 1 .. Len(s) : s[i] = s[m]}
<1>5. I = {m}
  BY <1>1
<1>6. Min(I) = m
  <2>1. m \in Nat
    BY <1>1
  <2> HIDE DEF I
  <2> QED
    BY <1>5, <2>1 DEF Min
<1>7. RemoveFirst(s, s[m]) = RemoveAt(s, Min(I))
  BY <1>5 DEF RemoveFirst, SelectInSeq
<1> QED
  BY <1>4, <1>6, <1>7

LEMMA PagesInWithout ==
  ASSUME NEW T, NEW s \in Seq(Slots), IsInjective(s), NEW h \in [Slots -> T], NEW i \in ToSet(s),
         \A j, k \in ToSet(s) : h[j] = h[k] => j = k
  PROVE  PagesIn(Without(s, i), h) = RemoveFirst(PagesIn(s, h), h[i])
<1>1. /\ Len(s) \in Nat /\ DOMAIN s = 1 .. Len(s) /\ \A k \in 1 .. Len(s) : s[k] \in ToSet(s)
      /\ \A x : x \in ToSet(s) <=> \E k \in 1 .. Len(s) : s[k] = x
  BY ListFacts
<1>2. PICK m \in 1 .. Len(s) : s[m] = i
  BY <1>1
<1>3. PICK r, u, v : r = RemoveAt(s, m) /\ u = PagesIn(r, h) /\ v = PagesIn(s, h)
  OBVIOUS
<1>4. Without(s, i) = r
  BY <1>2, <1>3, RemoveFirstIs
<1>5. /\ r \in Seq(Slots) /\ Len(r) = Len(s) - 1
      /\ \A j \in 1 .. Len(s) - 1 : r[j] = IF j < m THEN s[j] ELSE s[j + 1]
  BY <1>3, RemoveAtFacts
<1>60. r \in Seq(Slots) /\ u = PagesIn(r, h)
  BY <1>3, <1>5
<1>61. u \in Seq(T) /\ Len(u) = Len(r) /\ \A k \in 1 .. Len(r) : u[k] = h[r[k]]
  BY SMTT(30), <1>60, PagesInFacts
<1>62. v \in Seq(T) /\ Len(v) = Len(s) /\ \A k \in 1 .. Len(s) : v[k] = h[s[k]]
  BY SMTT(30), <1>3, PagesInFacts
<1>6. /\ u \in Seq(T) /\ Len(u) = Len(r) /\ \A k \in 1 .. Len(r) : u[k] = h[r[k]]
      /\ v \in Seq(T) /\ Len(v) = Len(s) /\ \A k \in 1 .. Len(s) : v[k] = h[s[k]]
  BY <1>61, <1>62
<1>7. IsInjective(v)
  <2>1. ASSUME NEW j \in 1 .. Len(v), NEW k \in 1 .. Len(v), j < k PROVE v[j] # v[k]
    <3>0. j \in DOMAIN s /\ k \in DOMAIN s /\ j # k
      BY <1>6, <2>1
    <3>1. s[j] # s[k]
      BY <3>0 DEF IsInjective
    <3> QED
      BY <1>1, <1>6, <3>1
  <2> QED
    BY <1>6, <2>1, IncreasingInjective
<1>8. PICK w : w = RemoveAt(v, m)
  OBVIOUS
<1>9. /\ w \in Seq(T) /\ Len(w) = Len(v) - 1
      /\ \A j \in 1 .. Len(v) - 1 : w[j] = IF j < m THEN v[j] ELSE v[j + 1]
  <2>1. v \in Seq(T) /\ m \in 1 .. Len(v)
    BY <1>6
  <2>2. /\ RemoveAt(v, m) \in Seq(T) /\ Len(RemoveAt(v, m)) = Len(v) - 1
        /\ \A j \in 1 .. Len(v) - 1 : RemoveAt(v, m)[j] = IF j < m THEN v[j] ELSE v[j + 1]
    BY <2>1, RemoveAtFacts
  <2> QED
    BY <1>8, <2>2
<1>10. RemoveFirst(v, h[i]) = w
  <2>1. v[m] = h[i] /\ m \in 1 .. Len(v)
    BY <1>2, <1>6
  <2> QED
    BY <1>6, <1>7, <1>8, <2>1, RemoveFirstIs
<1>11. ASSUME NEW k \in 1 .. Len(u) PROVE u[k] = w[k]
  <2>1. /\ k \in 1 .. Len(r) /\ k \in 1 .. Len(s) - 1 /\ k \in 1 .. Len(v) - 1
        /\ k \in 1 .. Len(s) /\ k + 1 \in 1 .. Len(s)
    BY <1>1, <1>5, <1>6
  <2>2. CASE k < m
    BY <1>5, <1>6, <1>9, <2>1, <2>2
  <2>3. CASE ~ (k < m)
    <3>1. r[k] = s[k + 1] /\ w[k] = v[k + 1]
      BY <1>5, <1>9, <2>1, <2>3
    <3> QED
      BY <1>6, <2>1, <3>1
  <2> QED
    BY <2>2, <2>3
<1>12. u = w
  <2>1. Len(u) = Len(w)
    BY <1>5, <1>6, <1>9
  <2> QED
    BY <1>6, <1>9, <1>11, <2>1, SeqEqual
<1> QED
  BY <1>3, <1>4, <1>10, <1>12

\* The victim of a scan that skips no slot is the first in the order of the stamps.
LEMMA VictimIsFirst ==
  ASSUME NEW S, S \subseteq Slots, NEW time \in [Slots -> Nat], NEW s, IsOrder(s, S, time), S # {},
         \A i \in S : time[i] < Never
  PROVE  Candidates(S, time) = S /\ Oldest(S, time) = s[1]
<1>1. Candidates(S, time) = S /\ \A i \in S : time[i] \in Nat
  BY DEF Candidates
<1>2. PICK v : v = Oldest(S, time)
  OBVIOUS
<1>3. v \in S /\ \A j \in S : time[v] <= time[j]
  BY <1>1, <1>2, OldestIsCandidate
<1>4. s[1] \in S /\ \A y \in S \ {s[1]} : time[s[1]] < time[y]
  BY OrderTail
<1>5. v = s[1]
  <2>1. time[v] \in Nat /\ time[s[1]] \in Nat /\ time[v] <= time[s[1]]
    BY <1>1, <1>3, <1>4
  <2> QED
    BY <1>3, <1>4, <2>1
<1> QED
  BY <1>1, <1>2, <1>5

-----------------------------------------------------------------------------
(* The slots of the queues of 2Q, in their order.                              *)
OrderInv ==
  /\ \A q \in {"A1", "Am"} : IsOrder(Ordered(In(q), Time), In(q), Time)
  /\ strategy = "LRU" => \A i \in Slots : states[i].queue = "Free"

LEMMA QueueIs ==
  QueueInv => \A q, s : IsOrder(s, In(q), Time)
                => /\ Queue(q) = PagesIn(s, held)
                   /\ IsOrder(Ordered(In(q), Time), In(q), Time)
<1> SUFFICES ASSUME QueueInv, NEW q, NEW s, IsOrder(s, In(q), Time)
             PROVE  Queue(q) = PagesIn(s, held) /\ IsOrder(Ordered(In(q), Time), In(q), Time)
  OBVIOUS
<1>1. In(q) \subseteq Slots /\ Time \in [Slots -> Nat]
  BY DEF In, Time, QueueInv
<1>2. Ordered(In(q), Time) = s
  BY <1>1, OrderedIs
<1> QED
  BY <1>2 DEF Queue, PagesIn

LEMMA QueueIsNext ==
  QueueInv' => \A q, s : IsOrder(s, In(q)', Time')
                => /\ Queue(q)' = PagesIn(s, held')
                   /\ IsOrder(Ordered(In(q)', Time'), In(q)', Time')
<1>1. (QueueInv => \A q, s : IsOrder(s, In(q), Time)
                => /\ Queue(q) = PagesIn(s, held)
                   /\ IsOrder(Ordered(In(q), Time), In(q), Time))'
  BY QueueIs, PTL
<1> QED
  BY <1>1

\* An empty queue.
LEMMA EmptyOrder ==
  ASSUME NEW time
  PROVE  IsOrder(<<>>, {}, time) /\ \A h : PagesIn(<<>>, h) = <<>>
<1>1. <<>> \in Seq(Slots) /\ ToSet(<<>>) = {} /\ Len(<<>>) = 0
  BY EmptyList
<1>2. \A h : PagesIn(<<>>, h) = <<>>
  BY DEF PagesIn
<1> QED
  BY <1>1, <1>2 DEF IsOrder, Increasing

LEMMA OrderInit ==
  ASSUME MCInit
  PROVE  OrderInv /\ \A q \in {"A1", "Am"} : Queue(q) = <<>>
<1>1. states = [i \in Slots |-> Free] /\ Free.queue = "Free"
  BY DEF MCInit, Init, Free
<1> HIDE DEF Free
<1>2. \A i \in Slots : states[i].queue = "Free"
  BY <1>1
<1>3. \A q \in {"A1", "Am"} : In(q) = {}
  BY <1>2 DEF In
<1>4. \A q \in {"A1", "Am"} : IsOrder(<<>>, In(q), Time)
  BY <1>3, EmptyOrder
<1>5. QueueInv
  BY InvInit
<1> QED
  BY <1>2, <1>4, <1>5, QueueIs, EmptyOrder DEF OrderInv

\* LRU leaves the queues of 2Q empty.
LEMMA LruQueues ==
  ASSUME OrderInv, QueueInv, QueueInv', strategy = "LRU", UNCHANGED <<states, a1Size, a1out, strategy>>
  PROVE  OrderInv' /\ a1out' = a1out /\ \A q \in {"A1", "Am"} : Queue(q)' = Queue(q)
<1>1. \A q \in {"A1", "Am"} : In(q) = {} /\ In(q)' = {}
  BY DEF In, OrderInv
<1>2. \A q \in {"A1", "Am"} : IsOrder(<<>>, In(q), Time) /\ IsOrder(<<>>, In(q)', Time')
  BY <1>1, EmptyOrder
<1>3. \A q \in {"A1", "Am"} : Queue(q) = <<>> /\ Queue(q)' = <<>> /\ IsOrder(Ordered(In(q)', Time'), In(q)', Time')
  BY <1>2, QueueIs, QueueIsNext, EmptyOrder
<1> QED
  BY <1>3 DEF OrderInv

\* What OrderInv says of a queue of 2Q.
LEMMA QueueFacts ==
  ASSUME CacheInv, QueueInv, OrderInv, NEW q \in {"A1", "Am"}
  PROVE  \E s : /\ IsOrder(s, In(q), Time) /\ s \in Seq(Slots) /\ ToSet(s) = In(q) /\ IsInjective(s)
                /\ Len(s) = Cardinality(In(q)) /\ Len(s) \in Nat
                /\ Queue(q) = PagesIn(s, held) /\ Queue(q) \in Seq(PageIds \cup {NoPageId})
                /\ Len(Queue(q)) = Len(s)
                /\ ToSet(Queue(q)) = {held[j] : j \in In(q)}
<1>1. PICK s : s = Ordered(In(q), Time)
  OBVIOUS
<1>2. IsOrder(s, In(q), Time) /\ s \in Seq(Slots) /\ ToSet(s) = In(q)
  BY <1>1 DEF OrderInv, IsOrder
<1>3. In(q) \subseteq Slots /\ Time \in [Slots -> Nat]
  BY DEF In, Time, QueueInv
<1>4. Len(s) = Cardinality(In(q)) /\ Len(s) \in Nat /\ IsInjective(s)
  BY <1>2, <1>3, OrderLength
<1>5. Queue(q) = PagesIn(s, held)
  BY <1>2, QueueIs
<1>6. held \in [Slots -> PageIds \cup {NoPageId}]
  BY DEF CacheInv
<1>7. /\ PagesIn(s, held) \in Seq(PageIds \cup {NoPageId}) /\ Len(PagesIn(s, held)) = Len(s)
      /\ ToSet(PagesIn(s, held)) = {held[j] : j \in ToSet(s)}
  BY <1>2, <1>6, PagesInFacts
<1> QED
  BY <1>2, <1>4, <1>5, <1>7

\* The abstract queues: the operators of TwoQueues are those of this project.
LEMMA SameQueues ==
  /\ Queues!queues = <<Queue("A1"), Queue("Am"), a1out>>
  /\ \A s : Queues!ToSet(s) = ToSet(s)
  /\ \A s, x : Queues!RemoveFirst(s, x) = RemoveFirst(s, x)
<1>1. Queues!queues = <<Queue("A1"), Queue("Am"), a1out>>
  BY DEF Queues!queues
<1>2. \A s : Queues!ToSet(s) = ToSet(s)
  BY DEF Queues!ToSet, ToSet
<1>3. ASSUME NEW s, NEW x PROVE Queues!RemoveFirst(s, x) = RemoveFirst(s, x)
  BY DEF RemoveFirst, Queues!RemoveFirst, RemoveAt, Queues!RemoveAt, SelectInSeq, Queues!SelectInSeq, Min, Queues!Min
<1> QED
  BY <1>1, <1>2, <1>3

LEMMA SimulatesUse ==
  ASSUME NEW p \in PageIds, p \in ToSet(Queue("Am")),
         Queue("Am")' = Append(RemoveFirst(Queue("Am"), p), p),
         Queue("A1")' = Queue("A1"), a1out' = a1out
  PROVE  Queues!Next
<1>1. Queues!Use(p)
  BY SameQueues DEF Queues!Use
<1> QED
  BY <1>1 DEF Queues!Next

LEMMA SimulatesFetch ==
  ASSUME NEW p \in PageIds, p \notin ToSet(Queue("A1")) \cup ToSet(Queue("Am")),
         NEW v1, NEW v2, NEW v3, Queues!Victimless = <<v1, v2, v3>>,
         IF p \in ToSet(v3)
         THEN /\ Queue("A1")' = v1 /\ Queue("Am")' = Append(v2, p) /\ a1out' = RemoveFirst(v3, p)
         ELSE /\ Queue("A1")' = Append(v1, p) /\ Queue("Am")' = v2 /\ a1out' = v3
  PROVE  Queues!Next
<1>1. PICK v : v = Queues!Victimless
  OBVIOUS
<1>2. v[1] = v1 /\ v[2] = v2 /\ v[3] = v3
  BY <1>1
<1>3. p \notin Queues!Cached
  BY SameQueues DEF Queues!Cached
<1>4. (Queues!queues)' = <<Queue("A1")', Queue("Am")', a1out'>>
  BY DEF Queues!queues
<1>5. IF p \in Queues!ToSet(v[3])
      THEN (Queues!queues)' = <<v[1], Append(v[2], p), Queues!RemoveFirst(v[3], p)>>
      ELSE (Queues!queues)' = <<Append(v[1], p), v[2], v[3]>>
  BY <1>2, <1>4, SameQueues
<1>6. Queues!Fetch(p)
  BY <1>1, <1>3, <1>5 DEF Queues!Fetch
<1> QED
  BY <1>6 DEF Queues!Next

\* on_access moves a page of Am to the end of its queue, and leaves A1 as it is.
LEMMA AccessQueues ==
  ASSUME wraps' = 0, CacheInv, QueueInv, StampInv, OrderInv, strategy = "2Q",
         QueueInv', UNCHANGED <<usageCounters, strategy>>,
         NEW p \in PageIds, NEW i \in Slots, OnAccess(p, i)
  PROVE  OrderInv' /\ [Queues!Next]_(Queues!queues)
<1>1. held' = held /\ held[i] = p /\ Count /\ a1out' = a1out
  BY DEF OnAccess, Hit
<1>2. wraps = 0 /\ globalCounter' = globalCounter + 1 /\ globalCounter \in Nat
  BY <1>1, CounterStep
<1>3. /\ states' \in [Slots -> [queue : {"Free", "A1", "Am"}, time : Nat]]
      /\ \A j \in Slots : states'[j].queue = states[j].queue
      /\ \A j \in Slots : states'[j].time = IF j = i /\ states[i].queue = "Am" THEN globalCounter' ELSE states[j].time
  BY AccessStates
<1>4. \A q : In(q)' = In(q) /\ In(q) \subseteq Slots
  BY <1>3 DEF In
<1>5. PICK time, later : time = Time /\ later = Time'
  OBVIOUS
<1>6. /\ time \in [Slots -> Nat] /\ later \in [Slots -> Nat]
      /\ \A j \in Slots : time[j] = states[j].time /\ later[j] = states'[j].time
  BY <1>3, <1>5 DEF Time, QueueInv
<1>7. \A j \in Slots : time[j] <= globalCounter
  BY <1>2, <1>6 DEF StampInv
<1>8. PICK s : /\ IsOrder(s, In("A1"), Time) /\ s \in Seq(Slots)
               /\ Queue("A1") = PagesIn(s, held)
  BY QueueFacts
<1>9. PICK t : /\ IsOrder(t, In("Am"), Time) /\ t \in Seq(Slots) /\ ToSet(t) = In("Am") /\ IsInjective(t)
               /\ Queue("Am") = PagesIn(t, held) /\ ToSet(Queue("Am")) = {held[j] : j \in In("Am")}
  BY QueueFacts
<1>10. \A j \in Slots : j \notin In("Am") \/ j # i => later[j] = time[j]
  BY <1>3, <1>6 DEF In
<1>11. IsOrder(s, In("A1"), later)
  <2>1. \A j \in In("A1") : later[j] = time[j]
    BY <1>10 DEF In
  <2>2. IsOrder(s, In("A1"), time)
    BY <1>5, <1>8
  <2> QED
    BY <1>4, <2>1, <2>2, OrderKeep
<1>12. IsOrder(s, In("A1")', Time')
  BY <1>4, <1>5, <1>11
<1>13. Queue("A1")' = Queue("A1") /\ IsOrder(Ordered(In("A1")', Time'), In("A1")', Time')
  BY <1>1, <1>8, <1>12, QueueIsNext
<1>14. CASE i \in In("Am")
  <2>1. later[i] = globalCounter + 1
    BY <1>2, <1>3, <1>6, <1>14 DEF In
  <2>2. \A y \in Slots : y # i => later[y] = time[y] /\ time[y] < later[i]
    BY <1>2, <1>6, <1>7, <1>10, <2>1
  <2>3. IsOrder(t, In("Am"), time)
    BY <1>5, <1>9
  <2>4. IsOrder(Append(Without(t, i), i), In("Am"), later)
    BY <1>4, <1>6, <1>14, <2>2, <2>3, OrderMove
  <2>5. IsOrder(Append(Without(t, i), i), In("Am")', Time')
    BY <1>4, <1>5, <2>4
  <2>6. /\ Queue("Am")' = PagesIn(Append(Without(t, i), i), held)
        /\ IsOrder(Ordered(In("Am")', Time'), In("Am")', Time')
    BY <1>1, <2>5, QueueIsNext
  <2>7. held \in [Slots -> PageIds \cup {NoPageId}]
    BY DEF CacheInv
  <2>8. Without(t, i) \in Seq(Slots)
    BY <1>9, WithoutFacts
  <2>9. PagesIn(Append(Without(t, i), i), held) = Append(PagesIn(Without(t, i), held), held[i])
    BY <2>7, <2>8, PagesInAppend
  <2>10. \A j, k \in ToSet(t) : held[j] = held[k] => j = k
    <3>1. \A j \in ToSet(t) : j \in Slots /\ held[j] # NoPageId
      BY <1>9 DEF In, QueueInv
    <3> QED
      BY <3>1 DEF CacheInv
  <2>11. PagesIn(Without(t, i), held) = RemoveFirst(PagesIn(t, held), held[i])
    <3>1. t \in Seq(Slots) /\ IsInjective(t)
      BY <1>9
    <3>2. i \in ToSet(t)
      BY <1>9, <1>14
    <3>3. PICK T, h : h = held /\ h \in [Slots -> T]
      BY <2>7
    <3>4. \A j, k \in ToSet(t) : h[j] = h[k] => j = k
      BY <2>10, <3>3
    <3>5. PagesIn(Without(t, i), h) = RemoveFirst(PagesIn(t, h), h[i])
      BY ZenonT(90), <3>1, <3>2, <3>3, <3>4, PagesInWithout
    <3> QED
      BY <3>3, <3>5
  <2>12. Queue("Am")' = Append(RemoveFirst(Queue("Am"), p), p)
    BY <1>1, <1>9, <2>6, <2>9, <2>11
  <2>13. p \in ToSet(Queue("Am"))
    BY <1>1, <1>9, <1>14
  <2>14. Queues!Next
    BY <1>1, <1>13, <2>12, <2>13, SimulatesUse
  <2>15. OrderInv'
    BY <1>13, <2>6 DEF OrderInv
  <2> QED
    BY <2>14, <2>15
<1>15. CASE i \notin In("Am")
  <2>1. \A j \in In("Am") : later[j] = time[j]
    BY <1>10, <1>15 DEF In
  <2>2. IsOrder(t, In("Am"), time)
    BY <1>5, <1>9
  <2>3. IsOrder(t, In("Am"), later)
    BY <1>4, <2>1, <2>2, OrderKeep
  <2>4. IsOrder(t, In("Am")', Time')
    BY <1>4, <1>5, <2>3
  <2>5. Queue("Am")' = Queue("Am") /\ IsOrder(Ordered(In("Am")', Time'), In("Am")', Time')
    BY <1>1, <1>9, <2>4, QueueIsNext
  <2>6. OrderInv'
    BY <1>13, <2>5 DEF OrderInv
  <2> QED
    BY <1>1, <1>13, <2>5, <2>6 DEF Queues!queues
<1> QED
  BY <1>14, <1>15

\* on_load appends the slot to one queue; r1 and rm are the queues without it.
LEMMA LoadQueues ==
  ASSUME wraps' = 0, CacheInv, QueueInv, StampInv, OrderInv, strategy = "2Q",
         QueueInv', UNCHANGED <<usageCounters, strategy>>,
         NEW p \in PageIds, NEW i \in Slots, Load(p, i), NEW size, NEW ghosts, OnLoad(p, i, size, ghosts),
         ghosts \in Seq(PageIds), IsInjective(ghosts),
         NEW r1, IsOrder(r1, In("A1") \ {i}, Time), NEW rm, IsOrder(rm, In("Am") \ {i}, Time)
  PROVE  /\ OrderInv'
         /\ IF p \in ToSet(ghosts)
            THEN /\ Queue("A1")' = PagesIn(r1, held) /\ Queue("Am")' = Append(PagesIn(rm, held), p)
                 /\ a1out' = RemoveFirst(ghosts, p)
            ELSE /\ Queue("A1")' = Append(PagesIn(r1, held), p) /\ Queue("Am")' = PagesIn(rm, held)
                 /\ a1out' = ghosts
<1>1. /\ held \in [Slots -> PageIds \cup {NoPageId}] /\ held' \in [Slots -> PageIds \cup {NoPageId}]
      /\ held'[i] = p /\ \A j \in Slots : j # i => held'[j] = held[j]
  BY LoadStep DEF CacheInv
<1>2. wraps = 0 /\ globalCounter' = globalCounter + 1 /\ globalCounter \in Nat
  BY CounterStep DEF Load
<1>3. /\ states' \in [Slots -> [queue : {"Free", "A1", "Am"}, time : Nat]]
      /\ states'[i].queue = (IF p \in ToSet(ghosts) THEN "Am" ELSE "A1") /\ states'[i].time = globalCounter'
      /\ \A j \in Slots : j # i => states'[j] = states[j]
  BY LoadStates DEF Load
<1>4. PICK time, later, h : time = Time /\ later = Time' /\ h = held'
  OBVIOUS
<1>5. /\ time \in [Slots -> Nat] /\ later \in [Slots -> Nat]
      /\ \A j \in Slots : time[j] = states[j].time /\ later[j] = states'[j].time
  BY <1>3, <1>4 DEF Time, QueueInv
<1>6. \A j \in Slots : time[j] <= globalCounter
  BY <1>2, <1>5 DEF StampInv
<1>7. \A j \in Slots \ {i} : later[j] = time[j] /\ time[j] < later[i]
  <2>1. later[i] = globalCounter + 1
    BY <1>2, <1>3, <1>5
  <2>2. ASSUME NEW j \in Slots \ {i} PROVE later[j] = time[j] /\ time[j] < later[i]
    <3>1. later[j] = time[j]
      BY <1>3, <1>5
    <3>2. time[j] \in Nat /\ time[j] <= globalCounter
      BY <1>5, <1>6
    <3> QED
      BY <1>2, <2>1, <3>1, <3>2
  <2> QED
    BY <2>2
\* A queue that the slot does not enter, and the one that it enters.
<1>8. ASSUME NEW q, NEW r, IsOrder(r, In(q) \ {i}, Time), In(q)' = In(q) \ {i}
      PROVE  Queue(q)' = PagesIn(r, held) /\ IsOrder(Ordered(In(q)', Time'), In(q)', Time')
  <2>1. In(q) \ {i} \subseteq Slots \ {i} /\ IsOrder(r, In(q) \ {i}, time)
    BY <1>4, <1>8 DEF In
  <2>2. IsOrder(r, In(q) \ {i}, later)
    BY <1>7, <2>1, OrderKeep
  <2>3. Queue(q)' = PagesIn(r, held') /\ IsOrder(Ordered(In(q)', Time'), In(q)', Time')
    BY <1>4, <1>8, <2>2, QueueIsNext
  <2>4. r \in Seq(Slots) /\ \A j \in ToSet(r) : held'[j] = held[j]
    BY <1>1, <2>1 DEF IsOrder
  <2>5. PagesIn(r, held') = PagesIn(r, held)
    BY <2>4, PagesInKeep
  <2> QED
    BY <2>3, <2>5
<1>9. ASSUME NEW q, NEW r, IsOrder(r, In(q) \ {i}, Time), In(q)' = (In(q) \ {i}) \cup {i}
      PROVE  Queue(q)' = Append(PagesIn(r, held), p) /\ IsOrder(Ordered(In(q)', Time'), In(q)', Time')
  <2>1. PICK S : S = In(q) \ {i}
    OBVIOUS
  <2>2. S \subseteq Slots /\ S \subseteq Slots \ {i} /\ i \in Slots \ S /\ IsOrder(r, S, time)
    BY <1>4, <1>9, <2>1 DEF In
  <2>3. \A y \in S : later[y] = time[y] /\ time[y] < later[i]
    BY <1>7, <2>2
  <2>4. IsOrder(Append(r, i), S \cup {i}, later)
    BY <1>5, <2>2, <2>3, OrderAppend
  <2>5. IsOrder(Append(r, i), In(q)', Time')
    BY <1>4, <1>9, <2>1, <2>4
  <2>6. Queue(q)' = PagesIn(Append(r, i), held') /\ IsOrder(Ordered(In(q)', Time'), In(q)', Time')
    BY <2>5, QueueIsNext
  <2>7. r \in Seq(Slots) /\ \A j \in ToSet(r) : held'[j] = held[j]
    BY <1>1, <2>2 DEF IsOrder
  <2>8. PagesIn(Append(r, i), h) = Append(PagesIn(r, h), h[i])
    BY <1>1, <1>4, <2>7, PagesInAppend
  <2>9. PagesIn(r, h) = PagesIn(r, held)
    BY <1>4, <2>7, PagesInKeep
  <2> QED
    BY <1>1, <1>4, <2>6, <2>8, <2>9
<1>10. CASE p \in ToSet(ghosts)
  <2>1. In("A1")' = In("A1") \ {i} /\ In("Am")' = (In("Am") \ {i}) \cup {i}
    BY <1>3, <1>10 DEF In
  <2>2. Queue("A1")' = PagesIn(r1, held) /\ IsOrder(Ordered(In("A1")', Time'), In("A1")', Time')
    BY <1>8, <2>1
  <2>3. Queue("Am")' = Append(PagesIn(rm, held), p) /\ IsOrder(Ordered(In("Am")', Time'), In("Am")', Time')
    BY <1>9, <2>1
  <2>4. a1out' = Without(ghosts, p)
    BY <1>10 DEF OnLoad
  <2>5. PICK m \in 1 .. Len(ghosts) : ghosts[m] = p
    BY <1>10, ListFacts
  <2>6. Without(ghosts, p) = RemoveFirst(ghosts, p)
    BY <2>5, RemoveFirstIs
  <2>7. OrderInv'
    BY <2>2, <2>3 DEF OrderInv
  <2> QED
    BY <1>10, <2>2, <2>3, <2>4, <2>6, <2>7
<1>11. CASE p \notin ToSet(ghosts)
  <2>1. In("Am")' = In("Am") \ {i} /\ In("A1")' = (In("A1") \ {i}) \cup {i}
    BY <1>3, <1>11 DEF In
  <2>2. Queue("Am")' = PagesIn(rm, held) /\ IsOrder(Ordered(In("Am")', Time'), In("Am")', Time')
    BY <1>8, <2>1
  <2>3. Queue("A1")' = Append(PagesIn(r1, held), p) /\ IsOrder(Ordered(In("A1")', Time'), In("A1")', Time')
    BY <1>9, <2>1
  <2>4. a1out' = ghosts
    BY <1>11 DEF OnLoad
  <2>5. OrderInv'
    BY <2>2, <2>3 DEF OrderInv
  <2> QED
    BY <1>11, <2>2, <2>3, <2>4, <2>5
<1> QED
  BY <1>10, <1>11

\* The queues fill the cache when no slot is free.
LEMMA QueueSizes ==
  ASSUME CacheInv, QueueInv, OrderInv, strategy = "2Q"
  PROVE  /\ Cardinality(In("A1")) \in Nat /\ Cardinality(In("Am")) \in Nat
         /\ FreeSlots = {} <=> ~(Cardinality(In("A1")) + Cardinality(In("Am")) < NSlots)
<1>1. /\ IsFiniteSet(In("A1")) /\ IsFiniteSet(In("Am")) /\ IsFiniteSet(Slots)
      /\ In("A1") \cap In("Am") = {} /\ In("A1") \cup In("Am") \subseteq Slots
  <2>1. In("A1") \subseteq Slots /\ In("Am") \subseteq Slots /\ In("A1") \cap In("Am") = {}
    BY DEF In
  <2> QED
    BY <2>1, SlotFacts, FS_Subset
<1>2. /\ Cardinality(In("A1")) \in Nat /\ Cardinality(In("Am")) \in Nat
      /\ Cardinality(In("A1") \cap In("Am")) = 0
  BY <1>1, FS_CardinalityType, FS_EmptySet
<1>3. Cardinality(In("A1") \cup In("Am")) = Cardinality(In("A1")) + Cardinality(In("Am"))
  <2>1. Cardinality(In("A1") \cup In("Am")) =
          Cardinality(In("A1")) + Cardinality(In("Am")) - Cardinality(In("A1") \cap In("Am"))
    BY <1>1, FS_Union
  <2> QED
    BY <1>2, <2>1
<1>4. Cardinality(Slots) = NSlots
  <2>1. NSlots \in Nat \ {0} /\ 0 \in Int /\ NSlots - 1 \in Int
    BY EvictionAssumption
  <2>2. Cardinality(0 .. NSlots - 1) = IF 0 > NSlots - 1 THEN 0 ELSE NSlots - 1 - 0 + 1
    BY <2>1, FS_Interval
  <2> QED
    BY <2>1, <2>2 DEF Slots
<1>5. FreeSlots = Slots \ (In("A1") \cup In("Am"))
  <2>1. \A j \in Slots : states[j].queue \in {"Free", "A1", "Am"}
    BY DEF QueueInv
  <2> QED
    BY <2>1 DEF FreeSlots, In, QueueInv
<1>6. CASE FreeSlots = {}
  <2>1. In("A1") \cup In("Am") = Slots
    BY <1>1, <1>5, <1>6
  <2>2. Cardinality(In("A1")) + Cardinality(In("Am")) = NSlots /\ NSlots \in Nat
    BY <1>3, <1>4, <2>1, EvictionAssumption
  <2> QED
    BY <1>2, <1>6, <2>2
<1>7. CASE FreeSlots # {}
  <2>1. In("A1") \cup In("Am") # Slots
    BY <1>5, <1>7
  <2>2. PICK T : T = In("A1") \cup In("Am")
    OBVIOUS
  <2>3. T \in SUBSET Slots /\ T # Slots
    BY <1>1, <2>1, <2>2
  <2>4. Cardinality(T) <= NSlots /\ Cardinality(T) # NSlots
    BY <1>1, <1>4, <2>3, FS_Subset
  <2>5. Cardinality(T) = Cardinality(In("A1")) + Cardinality(In("Am")) /\ Cardinality(T) \in Nat /\ NSlots \in Nat
    BY <1>2, <1>3, <2>2, EvictionAssumption
  <2>6. Cardinality(T) < NSlots
    BY <2>4, <2>5
  <2> QED
    BY <1>2, <1>7, <2>5, <2>6
<1> QED
  BY <1>2, <1>6, <1>7

\* A load into a free slot is a Fetch of queues that do not fill the cache.
LEMMA LoadFreeQueues ==
  ASSUME wraps' = 0, CacheInv, QueueInv, StampInv, OrderInv, strategy = "2Q",
         QueueInv', UNCHANGED <<usageCounters, strategy>>, NEW p \in PageIds, LoadFree(p)
  PROVE  OrderInv' /\ Queues!Next
<1>1. PICK i : i = FirstFree
  OBVIOUS
<1>2. i \in Slots /\ states[i].queue = "Free" /\ FreeSlots # {}
  BY <1>1, FirstFreeIsFree DEF LoadFree, FreeSlots, QueueInv
<1>3. Load(p, i) /\ OnLoad(p, i, a1Size, a1out)
  BY <1>1 DEF LoadFree
<1>4. PICK s : /\ IsOrder(s, In("A1"), Time) /\ Len(s) = Cardinality(In("A1")) /\ Queue("A1") = PagesIn(s, held)
               /\ Len(Queue("A1")) = Len(s) /\ ToSet(Queue("A1")) = {held[j] : j \in In("A1")}
  BY QueueFacts
<1>5. PICK t : /\ IsOrder(t, In("Am"), Time) /\ Len(t) = Cardinality(In("Am")) /\ Queue("Am") = PagesIn(t, held)
               /\ Len(Queue("Am")) = Len(t) /\ ToSet(Queue("Am")) = {held[j] : j \in In("Am")}
  BY QueueFacts
<1>6. In("A1") \ {i} = In("A1") /\ In("Am") \ {i} = In("Am") /\ In("A1") \subseteq Slots /\ In("Am") \subseteq Slots
  BY <1>2 DEF In
<1>7. IsOrder(s, In("A1") \ {i}, Time) /\ IsOrder(t, In("Am") \ {i}, Time)
  BY <1>4, <1>5, <1>6
<1>8. a1out \in Seq(PageIds) /\ IsInjective(a1out)
  BY DEF QueueInv, TwoQBookkeeping, GhostsAreAbsent
<1>9. /\ OrderInv'
      /\ IF p \in ToSet(a1out)
         THEN /\ Queue("A1")' = PagesIn(s, held) /\ Queue("Am")' = Append(PagesIn(t, held), p)
              /\ a1out' = RemoveFirst(a1out, p)
         ELSE /\ Queue("A1")' = Append(PagesIn(s, held), p) /\ Queue("Am")' = PagesIn(t, held)
              /\ a1out' = a1out
  BY <1>2, <1>3, <1>7, <1>8, LoadQueues
<1>10. Len(Queue("A1")) + Len(Queue("Am")) < NSlots
  BY <1>2, <1>4, <1>5, QueueSizes
<1>11. Queues!Victimless = <<Queue("A1"), Queue("Am"), a1out>>
  BY <1>10 DEF Queues!Victimless, Queues!queues
<1>12. p \notin ToSet(Queue("A1")) \cup ToSet(Queue("Am"))
  BY <1>3, <1>4, <1>5, <1>6 DEF Load
<1> QED
  BY <1>4, <1>5, <1>9, <1>11, <1>12, SimulatesFetch

\* The victim of 2Q: the first page of A1 when A1 has its share or Am is empty,
\* otherwise the first page of Am.
LEMMA VictimQueue ==
  ASSUME wraps' = 0, CacheInv, QueueInv, StampInv, OrderInv, strategy = "2Q", Count,
         ~Unreachable, NEW s, IsOrder(s, In("A1"), Time), NEW t, IsOrder(t, In("Am"), Time)
  PROVE  IF Cardinality(In("A1")) >= A1MaxSize \/ In("Am") = {}
         THEN In("A1") # {} /\ ChooseVictim = s[1]
         ELSE In("Am") # {} /\ ChooseVictim = t[1]
<1>1. In("A1") \subseteq Slots /\ In("Am") \subseteq Slots /\ Time \in [Slots -> Nat]
  BY DEF In, Time, QueueInv
<1>2. \A j \in Slots : Time[j] < Never
  <2>1. wraps = 0 /\ globalCounter \in Nat /\ globalCounter < Never /\ Never \in Nat
    BY CounterStep, EvictionAssumption DEF Never
  <2>2. \A j \in Slots : Time[j] \in Nat /\ Time[j] <= globalCounter
    BY <1>1, <2>1 DEF StampInv, Time
  <2> QED
    BY <2>1, <2>2 DEF Never
<1>3. VictimIn("A1") = In("A1") /\ VictimIn("Am") = In("Am")
  BY <1>1, <1>2 DEF VictimIn, Candidates
<1>4. In("A1") # {} => Oldest(In("A1"), Time) = s[1]
  BY <1>1, <1>2, VictimIsFirst
<1>5. In("Am") # {} => Oldest(In("Am"), Time) = t[1]
  BY <1>1, <1>2, VictimIsFirst
<1>6. A1HasItsShare <=> Cardinality(In("A1")) >= A1MaxSize
  BY DEF A1HasItsShare, QueueInv, TwoQBookkeeping, A1SizeExact
<1>7. A1HasItsShare => In("A1") # {}
  <2>1. A1MaxSize \in Nat /\ A1MaxSize > 0
    BY TwoQAssumption, EvictionAssumption
  <2>2. Cardinality({}) = 0
    BY FS_EmptySet
  <2> QED
    BY <1>6, <2>1, <2>2
<1>8. CASE A1HasItsShare
  BY <1>3, <1>4, <1>6, <1>7, <1>8 DEF ChooseVictim
<1>9. CASE ~A1HasItsShare /\ In("Am") = {}
  BY <1>3, <1>4, <1>9 DEF ChooseVictim, Unreachable
<1>10. CASE ~A1HasItsShare /\ In("Am") # {}
  BY <1>3, <1>5, <1>6, <1>10 DEF ChooseVictim
<1> QED
  BY <1>8, <1>9, <1>10

\* The abstract victim, when the cache is full.
LEMMA VictimlessFull ==
  ASSUME ~(Len(Queue("A1")) + Len(Queue("Am")) < NSlots)
  PROVE  Queues!Victimless =
           IF Len(Queue("A1")) >= A1MaxSize \/ Queue("Am") = <<>>
           THEN <<Tail(Queue("A1")), Queue("Am"),
                  Append(IF Len(a1out) = A1OutMaxSize THEN Tail(a1out) ELSE a1out, Head(Queue("A1")))>>
           ELSE <<Queue("A1"), Tail(Queue("Am")), a1out>>
BY DEF Queues!Victimless

\* An eviction is a Fetch of queues that fill the cache.
LEMMA EvictQueues ==
  ASSUME wraps' = 0, CacheInv, QueueInv, StampInv, OrderInv, strategy = "2Q",
         QueueInv', UNCHANGED <<usageCounters, strategy>>, NEW p \in PageIds, Evict(p)
  PROVE  OrderInv' /\ Queues!Next
<1>1. PICK i : i = ChooseVictim
  OBVIOUS
<1>2. Load(p, i) /\ OnLoad(p, i, SizeWithout(i), Remembered(i)) /\ FreeSlots = {} /\ ~Unreachable /\ Count
  BY <1>1 DEF Evict, Load
<1>3. PICK s : /\ IsOrder(s, In("A1"), Time) /\ s \in Seq(Slots) /\ Len(s) = Cardinality(In("A1"))
               /\ Queue("A1") = PagesIn(s, held)
               /\ Len(Queue("A1")) = Len(s) /\ ToSet(Queue("A1")) = {held[j] : j \in In("A1")}
  BY QueueFacts
<1>4. PICK t : /\ IsOrder(t, In("Am"), Time) /\ t \in Seq(Slots) /\ Len(t) = Cardinality(In("Am"))
               /\ ToSet(t) = In("Am") /\ Queue("Am") = PagesIn(t, held)
               /\ Queue("Am") \in Seq(PageIds \cup {NoPageId})
               /\ Len(Queue("Am")) = Len(t) /\ ToSet(Queue("Am")) = {held[j] : j \in In("Am")}
  BY QueueFacts
<1>5. In("A1") \subseteq Slots /\ In("Am") \subseteq Slots /\ Time \in [Slots -> Nat] /\ In("A1") \cap In("Am") = {}
  BY DEF In, Time, QueueInv
<1>6. ~(Len(Queue("A1")) + Len(Queue("Am")) < NSlots)
  BY <1>2, <1>3, <1>4, QueueSizes
<1>7. p \notin ToSet(Queue("A1")) \cup ToSet(Queue("Am"))
  BY <1>2, <1>3, <1>4, <1>5 DEF Load
<1>8. Queue("Am") = <<>> <=> In("Am") = {}
  <2>1. t = <<>> => In("Am") = {}
    BY <1>4, EmptyList
  <2>2. In("Am") = {} => t = <<>>
    <3>1. In("Am") = {} => Len(t) = 0
      BY <1>4, FS_EmptySet
    <3>2. t \in Seq(Slots)
      BY <1>4
    <3> QED
      BY <3>1, <3>2
  <2>3. Queue("Am") = <<>> <=> t = <<>>
    <3>1. PICK u : u = Queue("Am")
      OBVIOUS
    <3>2. u \in Seq(PageIds \cup {NoPageId}) /\ Len(u) = Len(t)
      BY <1>4, <3>1
    <3>3. u = <<>> <=> t = <<>>
      BY <1>4, <3>2
    <3> QED
      BY <3>1, <3>3
  <2> QED
    BY <2>1, <2>2, <2>3
<1>9. PICK ghosts, size : ghosts = Remembered(i) /\ size = SizeWithout(i)
  OBVIOUS
<1>10. held \in [Slots -> PageIds \cup {NoPageId}]
  BY DEF CacheInv
<1>11. CASE Cardinality(In("A1")) >= A1MaxSize \/ In("Am") = {}
  <2>1. In("A1") # {} /\ i = s[1]
    BY <1>1, <1>2, <1>3, <1>4, <1>11, VictimQueue
  <2>2. s # <<>> /\ s[1] \in In("A1") /\ IsOrder(Tail(s), In("A1") \ {s[1]}, Time)
    BY <1>3, <1>5, <2>1, OrderTail
  <2>3. i \in Slots /\ In("Am") \ {i} = In("Am") /\ states[i].queue = "A1"
    BY <1>5, <2>1, <2>2 DEF In
  <2>4. ghosts \in Seq(PageIds) /\ IsInjective(ghosts)
    BY <1>9, <2>3, RememberedFacts
  <2>5. IsOrder(Tail(s), In("A1") \ {i}, Time) /\ IsOrder(t, In("Am") \ {i}, Time)
    BY <1>4, <2>1, <2>2, <2>3
  <2>6. OnLoad(p, i, size, ghosts)
    BY <1>2, <1>9
  <2>7. /\ OrderInv'
        /\ IF p \in ToSet(ghosts)
           THEN /\ Queue("A1")' = PagesIn(Tail(s), held) /\ Queue("Am")' = Append(PagesIn(t, held), p)
                /\ a1out' = RemoveFirst(ghosts, p)
           ELSE /\ Queue("A1")' = Append(PagesIn(Tail(s), held), p) /\ Queue("Am")' = PagesIn(t, held)
                /\ a1out' = ghosts
    BY <1>2, <2>3, <2>4, <2>5, <2>6, LoadQueues
  <2>8. PagesIn(Tail(s), held) = Tail(Queue("A1")) /\ Head(Queue("A1")) = held[i]
    BY <1>3, <1>10, <2>1, <2>2, PagesInTail
  <2>9. ghosts = Append(IF Len(a1out) = A1OutMaxSize THEN Tail(a1out) ELSE a1out, Head(Queue("A1")))
    BY <1>9, <2>3, <2>8 DEF Remembered
  <2>10. Queues!Victimless = <<PagesIn(Tail(s), held), PagesIn(t, held), ghosts>>
    BY <1>3, <1>4, <1>6, <1>8, <1>11, <2>8, <2>9, VictimlessFull
  <2> QED
    BY <1>7, <2>7, <2>10, SimulatesFetch
<1>12. CASE ~(Cardinality(In("A1")) >= A1MaxSize \/ In("Am") = {})
  <2>1. In("Am") # {} /\ i = t[1]
    BY <1>1, <1>2, <1>3, <1>4, <1>12, VictimQueue
  <2>2. t # <<>> /\ t[1] \in In("Am") /\ IsOrder(Tail(t), In("Am") \ {t[1]}, Time)
    BY <1>4, <1>5, <2>1, OrderTail
  <2>3. i \in Slots /\ In("A1") \ {i} = In("A1") /\ states[i].queue # "A1"
    BY <1>5, <2>1, <2>2 DEF In
  <2>4. ghosts \in Seq(PageIds) /\ IsInjective(ghosts)
    BY <1>9, <2>3, RememberedFacts
  <2>5. IsOrder(s, In("A1") \ {i}, Time) /\ IsOrder(Tail(t), In("Am") \ {i}, Time)
    BY <1>3, <2>1, <2>2, <2>3
  <2>6. OnLoad(p, i, size, ghosts)
    BY <1>2, <1>9
  <2>7. /\ OrderInv'
        /\ IF p \in ToSet(ghosts)
           THEN /\ Queue("A1")' = PagesIn(s, held) /\ Queue("Am")' = Append(PagesIn(Tail(t), held), p)
                /\ a1out' = RemoveFirst(ghosts, p)
           ELSE /\ Queue("A1")' = Append(PagesIn(s, held), p) /\ Queue("Am")' = PagesIn(Tail(t), held)
                /\ a1out' = ghosts
    BY <1>2, <2>3, <2>4, <2>5, <2>6, LoadQueues
  <2>8. PagesIn(Tail(t), held) = Tail(Queue("Am"))
    BY <1>4, <1>10, <2>2, PagesInTail
  <2>9. ghosts = a1out
    BY <1>9, <2>3 DEF Remembered
  <2>10. Queues!Victimless = <<PagesIn(s, held), PagesIn(Tail(t), held), ghosts>>
    BY <1>3, <1>4, <1>6, <1>8, <1>12, <2>8, <2>9, VictimlessFull
  <2> QED
    BY <1>7, <2>7, <2>10, SimulatesFetch
<1> QED
  BY <1>11, <1>12

\* The counter does not go back to its first lap.
LEMMA FirstLap ==
  ASSUME QueueInv, [MCNext]_<<vars, usageCounters, strategy>>, wraps' = 0
  PROVE  wraps = 0
<1>1. CASE strategy = "LRU" /\ Lru!Next /\ UNCHANGED <<states, a1Size, a1out, strategy>>
  <2>1. Count
    BY <1>1, LruStep DEF Hit, Load
  <2> QED
    BY <2>1, CounterStep
<1>2. CASE strategy = "2Q" /\ Next /\ UNCHANGED <<usageCounters, strategy>>
  <2>1. Count
    BY <1>2, TwoQStep DEF OnAccess, Hit, Load
  <2> QED
    BY <2>1, CounterStep
<1>3. CASE UNCHANGED <<vars, usageCounters, strategy>>
  BY <1>3 DEF vars, cacheVars
<1> QED
  BY <1>1, <1>2, <1>3 DEF MCNext

LEMMA QueuesNext ==
  ASSUME wraps' = 0, CacheInv, QueueInv, StampInv, OrderInv, QueueInv',
         [MCNext]_<<vars, usageCounters, strategy>>
  PROVE  OrderInv' /\ [Queues!Next]_(Queues!queues)
<1>1. CASE strategy = "LRU" /\ Lru!Next /\ UNCHANGED <<states, a1Size, a1out, strategy>>
  <2>1. OrderInv' /\ a1out' = a1out /\ Queue("A1")' = Queue("A1") /\ Queue("Am")' = Queue("Am")
    BY <1>1, LruQueues
  <2> QED
    BY <2>1 DEF Queues!queues
<1>2. CASE strategy = "2Q" /\ Next /\ UNCHANGED <<usageCounters, strategy>>
  <2>1. PICK p \in PageIds : (\E i \in Slots : OnAccess(p, i)) \/ LoadFree(p) \/ Evict(p)
    BY <1>2 DEF Next
  <2>2. CASE \E i \in Slots : OnAccess(p, i)
    BY <1>2, <2>2, AccessQueues
  <2>3. CASE LoadFree(p)
    BY <1>2, <2>3, LoadFreeQueues
  <2>4. CASE Evict(p)
    BY <1>2, <2>4, EvictQueues
  <2> QED
    BY <2>1, <2>2, <2>3, <2>4
<1>3. CASE UNCHANGED <<vars, usageCounters, strategy>>
  <2>1. held' = held /\ states' = states /\ a1out' = a1out /\ strategy' = strategy
    BY <1>3 DEF vars, cacheVars
  <2>2. Time' = Time /\ \A q : In(q)' = In(q)
    BY <2>1 DEF Time, In
  <2>3. \A q : Queue(q)' = Queue(q)
    BY <2>1, <2>2 DEF Queue
  <2>4. OrderInv'
    BY <2>1, <2>2 DEF OrderInv
  <2> QED
    BY <2>1, <2>3, <2>4 DEF Queues!queues
<1> QED
  BY <1>1, <1>2, <1>3 DEF MCNext

\* As long as the counter has not wrapped around, the slots and time stamps of
\* TwoQEvictionStrategy (evict.rs: on_access, on_load, choose_victim, on_invalidate) do
\* what the queues of the 2Q algorithm do, which the code keeps "implied": for any
\* number of slots and pages and any sizes of the queues.
THEOREM TwoQRefinement == MCSpec => KeepsTheQueues
<1> DEFINE Inv == CacheInv /\ QueueInv /\ StampInv /\ (wraps = 0 => OrderInv)
<1>1. MCInit => Inv
  BY InvInit, StampInit, OrderInit
<1>2. Inv /\ [MCNext]_<<vars, usageCounters, strategy>> => Inv'
  <2> SUFFICES ASSUME Inv, [MCNext]_<<vars, usageCounters, strategy>> PROVE Inv'
    OBVIOUS
  <2>1. CacheInv' /\ QueueInv' /\ StampInv'
    BY InvNext, StampNext
  <2>2. wraps' = 0 => OrderInv'
    BY <2>1, FirstLap, QueuesNext
  <2> QED
    BY <2>1, <2>2
<1>3. MCInit => Queues!Init
  BY OrderInit DEF Queues!Init, MCInit, Init
<1>4. Inv /\ [MCNext]_<<vars, usageCounters, strategy>>
        => [wraps' = 0 => [Queues!Next]_(Queues!queues)]_vars
  BY FirstLap, InvNext, QueuesNext
<1> HIDE DEF Inv
<1> QED
  BY <1>1, <1>2, <1>3, <1>4, PTL DEF MCSpec, KeepsTheQueues
=============================================================================
