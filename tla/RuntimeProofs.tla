---------------------------- MODULE RuntimeProofs ---------------------------
(***************************************************************************)
(* Proofs about VAppRuntime: the executor's lists, the handles of tasks,   *)
(* and the screen that the loop waits on, for any number of tasks, polls   *)
(* and calls.                                                              *)
(***************************************************************************)
EXTENDS VAppRuntime, SequenceTheorems, TLAPS

All == Tasks \cup Children

Distinct(s) == \A j, k \in 1 .. Len(s) : s[j] = s[k] => j = k

\* The lists of the executor hold the tasks that need polls, each of them once.
ListInv ==
  /\ tasks \in Seq(All) /\ taken \in Seq(All)
  /\ i \in 1 .. Len(taken) + 1
  /\ left \in [All -> Nat]
  /\ Distinct(tasks) /\ Distinct(taken) /\ ToSet(tasks) \cap ToSet(taken) = {}
  /\ \A t \in All : left[t] > 0 <=> t \in ToSet(tasks) \cup ToSet(taken)
  /\ pc # "poll" => taken = <<>>

\* A handle that is gone, or was never made, has no task, and neither has one with a result;
\* only a handle that is held has one.
HandleInv ==
  /\ handle \in [Tasks -> {"none", "held", "gone"}]
  /\ result \subseteq Tasks /\ cancelled \subseteq Tasks
  /\ \A t \in Tasks : handle[t] # "held" => left[t] = 0
  /\ \A t \in result : left[t] = 0 /\ handle[t] = "held"
  /\ spin \in Tasks \cup {"all", Nobody} /\ (pc = "spin" => spin # Nobody)

\* In a round, the tasks before i have been polled, and the others not yet.
PollInv ==
  /\ polls \in [All -> Nat]
  /\ pc = "poll" =>
       /\ \A t \in All : polls[t] <= 1
       /\ \A k \in 1 .. Len(taken) : polls[taken[k]] = IF k < i THEN 1 ELSE 0

\* A screen other than the dashboard's is shown only while the dashboard is due again.
ScreenInv ==
  /\ dirty \in BOOLEAN
  /\ ~dirty => screen = view
  /\ flow[1] \in {"review", "confirmReject"} => dirty

TaskInv == ListInv /\ HandleInv /\ PollInv
-----------------------------------------------------------------------------
(* The sequences of the executor.                                              *)
LEMMA ToSetFacts ==
  ASSUME NEW S, NEW s \in Seq(S)
  PROVE  /\ Len(s) \in Nat /\ DOMAIN s = 1 .. Len(s) /\ ToSet(s) \subseteq S
         /\ \A x : x \in ToSet(s) <=> \E k \in 1 .. Len(s) : s[k] = x
<1>1. Len(s) \in Nat /\ DOMAIN s = 1 .. Len(s) /\ \A k \in 1 .. Len(s) : s[k] \in S
  OBVIOUS
<1> QED
  BY <1>1 DEF ToSet

LEMMA AppendFacts ==
  ASSUME NEW S, NEW s \in Seq(S), NEW x \in S
  PROVE  /\ Append(s, x) \in Seq(S) /\ ToSet(Append(s, x)) = ToSet(s) \cup {x}
         /\ Distinct(s) /\ x \notin ToSet(s) => Distinct(Append(s, x))
<1> DEFINE r == Append(s, x)
<1>1. /\ r \in Seq(S) /\ Len(r) = Len(s) + 1 /\ r[Len(s) + 1] = x
      /\ \A k \in 1 .. Len(s) : r[k] = s[k]
  BY AppendProperties
<1> HIDE DEF r
<1>2. /\ Len(s) \in Nat /\ \A y : y \in ToSet(s) <=> \E k \in 1 .. Len(s) : s[k] = y
      /\ \A y : y \in ToSet(r) <=> \E k \in 1 .. Len(r) : r[k] = y
  BY <1>1, ToSetFacts
<1>3. ToSet(r) = ToSet(s) \cup {x}
  <2>1. ASSUME NEW y \in ToSet(r) PROVE y \in ToSet(s) \cup {x}
    BY <1>1, <1>2
  <2>2. ASSUME NEW y \in ToSet(s) \cup {x} PROVE y \in ToSet(r)
    BY <1>1, <1>2
  <2> QED
    BY <2>1, <2>2
<1>4. ASSUME Distinct(s), x \notin ToSet(s), NEW j \in 1 .. Len(r), NEW k \in 1 .. Len(r), r[j] = r[k]
      PROVE  j = k
  <2>1. CASE j \in 1 .. Len(s) /\ k \in 1 .. Len(s)
    BY <1>1, <1>4, <2>1 DEF Distinct
  <2>2. CASE j = Len(s) + 1 \/ k = Len(s) + 1
    BY <1>1, <1>2, <1>4, <2>2
  <2> QED
    BY <1>1, <1>2, <2>1, <2>2
<1>5. Distinct(s) /\ x \notin ToSet(s) => Distinct(r)
  BY <1>4 DEF Distinct
<1> QED
  BY <1>1, <1>3, <1>5 DEF r

LEMMA ConcatFacts ==
  ASSUME NEW S, NEW s \in Seq(S), NEW r \in Seq(S)
  PROVE  /\ s \o r \in Seq(S) /\ ToSet(s \o r) = ToSet(s) \cup ToSet(r)
         /\ Distinct(s) /\ Distinct(r) /\ ToSet(s) \cap ToSet(r) = {} => Distinct(s \o r)
<1> DEFINE c == s \o r
<1>1. /\ c \in Seq(S) /\ Len(c) = Len(s) + Len(r) /\ Len(s) \in Nat /\ Len(r) \in Nat
      /\ \A k \in 1 .. Len(c) : c[k] = IF k <= Len(s) THEN s[k] ELSE r[k - Len(s)]
  BY ConcatProperties
<1> HIDE DEF c
<1>2. /\ \A y : y \in ToSet(s) <=> \E k \in 1 .. Len(s) : s[k] = y
      /\ \A y : y \in ToSet(r) <=> \E k \in 1 .. Len(r) : r[k] = y
      /\ \A y : y \in ToSet(c) <=> \E k \in 1 .. Len(c) : c[k] = y
  BY <1>1, ToSetFacts
<1>3. ToSet(c) = ToSet(s) \cup ToSet(r)
  <2>1. ASSUME NEW y \in ToSet(c) PROVE y \in ToSet(s) \cup ToSet(r)
    <3>1. PICK k \in 1 .. Len(c) : c[k] = y
      BY <1>2
    <3>2. CASE k <= Len(s)
      BY <1>1, <1>2, <3>1, <3>2
    <3>3. CASE ~(k <= Len(s))
      <4>1. k - Len(s) \in 1 .. Len(r) /\ y = r[k - Len(s)]
        BY <1>1, <3>1, <3>3
      <4> QED
        BY <1>2, <4>1
    <3> QED
      BY <3>2, <3>3
  <2>2. ASSUME NEW y \in ToSet(s) PROVE y \in ToSet(c)
    BY <1>1, <1>2
  <2>3. ASSUME NEW y \in ToSet(r) PROVE y \in ToSet(c)
    <3>1. PICK k \in 1 .. Len(r) : r[k] = y
      BY <1>2
    <3>2. k + Len(s) \in 1 .. Len(c) /\ ~(k + Len(s) <= Len(s)) /\ k + Len(s) - Len(s) = k
      BY <1>1
    <3>3. c[k + Len(s)] = y
      BY <1>1, <3>1, <3>2
    <3> QED
      BY <1>2, <3>2, <3>3
  <2> QED
    BY <2>1, <2>2, <2>3
<1>4. ASSUME Distinct(s), Distinct(r), ToSet(s) \cap ToSet(r) = {},
             NEW j \in 1 .. Len(c), NEW k \in 1 .. Len(c), c[j] = c[k]
      PROVE  j = k
  <2>1. CASE j <= Len(s) /\ k <= Len(s)
    BY <1>1, <1>4, <2>1 DEF Distinct
  <2>2. CASE ~(j <= Len(s)) /\ ~(k <= Len(s))
    <3>1. /\ j - Len(s) \in 1 .. Len(r) /\ k - Len(s) \in 1 .. Len(r)
          /\ r[j - Len(s)] = r[k - Len(s)]
      BY <1>1, <1>4, <2>2
    <3>2. j - Len(s) = k - Len(s)
      BY <1>4, <3>1 DEF Distinct
    <3> QED
      BY <1>1, <3>2
  <2>3. ASSUME NEW m \in 1 .. Len(c), NEW n \in 1 .. Len(c), m <= Len(s), ~(n <= Len(s)), c[m] = c[n] PROVE FALSE
    <3>1. m \in 1 .. Len(s) /\ n - Len(s) \in 1 .. Len(r) /\ s[m] = c[m] /\ r[n - Len(s)] = c[m]
      BY <1>1, <2>3
    <3>2. c[m] \in ToSet(s) /\ c[m] \in ToSet(r)
      BY <1>2, <3>1
    <3> QED
      BY <1>4, <3>2
  <2> QED
    BY <1>4, <2>1, <2>2, <2>3
<1>5. Distinct(s) /\ Distinct(r) /\ ToSet(s) \cap ToSet(r) = {} => Distinct(c)
  BY <1>4 DEF Distinct
<1> QED
  BY <1>1, <1>3, <1>5 DEF c

\* swap_remove of Vec.
LEMMA SwapRemoveFacts ==
  ASSUME NEW S, NEW s \in Seq(S), NEW k \in 1 .. Len(s)
  PROVE  /\ SwapRemove(s, k) \in Seq(S) /\ Len(SwapRemove(s, k)) = Len(s) - 1
         /\ \A j \in 1 .. Len(s) - 1 : SwapRemove(s, k)[j] = IF j = k THEN s[Len(s)] ELSE s[j]
<1> DEFINE e == [s EXCEPT ![k] = s[Len(s)]]
           n == Len(s) - 1
<1>1. Len(s) \in Nat /\ Len(s) >= 1 /\ n \in Nat
  OBVIOUS
<1>2. e \in Seq(S) /\ Len(e) = Len(s) /\ \A j \in 1 .. Len(s) : e[j] = IF j = k THEN s[Len(s)] ELSE s[j]
  BY <1>1, ExceptSeq
<1> HIDE DEF e
<1>3. SubSeq(e, 1, n) \in Seq(S) /\ Len(SubSeq(e, 1, n)) = n
      /\ \A j \in 1 .. n : SubSeq(e, 1, n)[j] = e[j]
  <2>1. 1 \in 1 .. Len(e) + 1 /\ n \in 0 .. Len(e)
    BY <1>1, <1>2
  <2> QED
    BY <1>1, <1>2, <2>1, SubSeqProperties
<1>4. SwapRemove(s, k) = SubSeq(e, 1, n)
  BY DEF SwapRemove, e
<1> QED
  BY <1>1, <1>2, <1>3, <1>4
-----------------------------------------------------------------------------
(* The tasks.                                                                  *)
LEMMA TaskInvInit == Init => TaskInv
<1> SUFFICES ASSUME Init PROVE TaskInv
  OBVIOUS
<1>1. /\ tasks = <<>> /\ taken = <<>> /\ i = 1 /\ pc = "loop" /\ result = {} /\ cancelled = {} /\ spin = Nobody
      /\ left = [t \in All |-> 0] /\ handle = [t \in Tasks |-> "none"] /\ polls = [t \in All |-> 0]
  BY DEF Init, All
<1>2. ToSet(<<>>) = {} /\ Distinct(<<>>) /\ <<>> \in Seq(All) /\ Len(<<>>) = 0
  BY DEF ToSet, Distinct
<1>3. ListInv
  BY <1>1, <1>2 DEF ListInv
<1>4. \A t \in Tasks : left[t] = 0
  BY <1>1 DEF All
<1> QED
  BY <1>1, <1>3, <1>4 DEF TaskInv, HandleInv, PollInv

\* A step that leaves tasks and handles alone.
LEMMA QuietStep ==
  ASSUME TaskInv, UNCHANGED taskVars, pc' = pc \/ (pc # "poll" /\ pc' \notin {"poll", "spin"})
  PROVE  TaskInv'
BY DEF TaskInv, ListInv, HandleInv, PollInv, taskVars

LEMMA BeginRoundStep ==
  ASSUME TaskInv, BeginRound, pc # "poll", UNCHANGED <<left, handle, result, cancelled, spin>>
  PROVE  TaskInv'
<1>1. /\ taken = <<>> /\ taken' = tasks /\ tasks' = <<>> /\ i' = 1 /\ pc' = "poll"
      /\ polls' = [t \in All |-> 0]
  BY DEF TaskInv, ListInv, PollInv, BeginRound
<1>2. ToSet(<<>>) = {} /\ Distinct(<<>>) /\ <<>> \in Seq(All) /\ Len(<<>>) = 0
  BY DEF ToSet, Distinct
<1>3. tasks \in Seq(All) /\ Len(tasks) \in Nat /\ \A k \in 1 .. Len(tasks) : tasks[k] \in All
  BY DEF TaskInv, ListInv
<1>4. ListInv'
  BY <1>1, <1>2, <1>3 DEF TaskInv, ListInv
<1>5. PollInv'
  BY <1>1, <1>3 DEF PollInv
<1> QED
  BY <1>1, <1>4, <1>5 DEF TaskInv, HandleInv

LEMMA EndRoundStep ==
  ASSUME TaskInv, EndRound
  PROVE  TaskInv'
<1>1. /\ tasks' = tasks \o taken /\ taken' = <<>> /\ i' = 1
      /\ pc' = IF spin = Nobody THEN "ticker" ELSE "spin"
      /\ UNCHANGED <<left, handle, result, cancelled, spin, polls>>
  BY DEF EndRound, Merge
<1>2. ToSet(<<>>) = {} /\ Distinct(<<>>) /\ <<>> \in Seq(All) /\ Len(<<>>) = 0
  BY DEF ToSet, Distinct
<1>3. /\ tasks' \in Seq(All) /\ Distinct(tasks') /\ ToSet(tasks') = ToSet(tasks) \cup ToSet(taken)
  BY <1>1, ConcatFacts DEF TaskInv, ListInv
<1>4. ListInv'
  BY <1>1, <1>2, <1>3 DEF TaskInv, ListInv
<1>5. pc' # "poll" /\ (pc' = "spin" => spin' # Nobody)
  BY <1>1
<1> QED
  BY <1>1, <1>4, <1>5 DEF TaskInv, HandleInv, PollInv

\* The task at i is still to be polled in this round.
LEMMA AtIndex ==
  ASSUME TaskInv, pc = "poll", i <= Len(taken)
  PROVE  /\ i \in 1 .. Len(taken) /\ taken[i] \in All /\ left[taken[i]] > 0 /\ left[taken[i]] \in Nat
         /\ polls[taken[i]] = 0
<1>1. Len(taken) \in Nat /\ i \in 1 .. Len(taken)
  BY DEF TaskInv, ListInv
<1>2. taken[i] \in All /\ taken[i] \in ToSet(taken)
  BY <1>1, ToSetFacts DEF TaskInv, ListInv
<1>3. left[taken[i]] > 0 /\ left[taken[i]] \in Nat
  BY <1>2 DEF TaskInv, ListInv
<1>4. polls[taken[i]] = 0
  BY <1>1 DEF TaskInv, PollInv
<1> QED
  BY <1>1, <1>2, <1>3, <1>4

\* A task that finishes is swapped away.
LEMMA PollReadyStep ==
  ASSUME TaskInv, pc = "poll", pc' = "poll", i <= Len(taken), PollReady,
         polls' = [polls EXCEPT ![taken[i]] = @ + 1], UNCHANGED <<handle, cancelled, spin>>
  PROVE  TaskInv'
<1> DEFINE t == taken[i]
           r == SwapRemove(taken, i)
<1>1. /\ i \in 1 .. Len(taken) /\ t \in All /\ left[t] > 0 /\ left[t] \in Nat /\ polls[t] = 0
  BY AtIndex
<1>2. /\ r \in Seq(All) /\ Len(r) = Len(taken) - 1 /\ Len(taken) \in Nat
      /\ \A j \in 1 .. Len(taken) - 1 : r[j] = IF j = i THEN taken[Len(taken)] ELSE taken[j]
  BY <1>1, SwapRemoveFacts DEF TaskInv, ListInv
<1>3. taken' = r /\ i' = i /\ tasks' = tasks /\ left' = [left EXCEPT ![t] = 0]
  BY DEF PollReady
<1>4. result' \subseteq result \cup {t} /\ result' \subseteq Tasks
  BY DEF PollReady, TaskInv, HandleInv
<1>5. /\ taken \in Seq(All) /\ tasks \in Seq(All) /\ Distinct(taken)
      /\ left \in [All -> Nat] /\ polls \in [All -> Nat]
  BY DEF TaskInv, ListInv, PollInv
<1> HIDE DEF r
\* Where the elements of r come from, and go to.
<1>6. ASSUME NEW j \in 1 .. Len(r)
      PROVE  \E k \in 1 .. Len(taken) : /\ r[j] = taken[k] /\ k # i /\ (j < i <=> k < i)
                                        /\ k = IF j = i THEN Len(taken) ELSE j
  <2>1. CASE j = i
    <3>1. Len(taken) \in 1 .. Len(taken) /\ Len(taken) # i /\ r[j] = taken[Len(taken)] /\ ~(Len(taken) < i)
      BY <1>1, <1>2, <1>6, <2>1
    <3> QED
      BY <2>1, <3>1
  <2>2. CASE j # i
    <3>1. j \in 1 .. Len(taken) /\ r[j] = taken[j]
      BY <1>1, <1>2, <1>6, <2>2
    <3> QED
      BY <2>2, <3>1
  <2> QED
    BY <2>1, <2>2
<1>7. ASSUME NEW k \in 1 .. Len(taken), k # i
      PROVE  \E j \in 1 .. Len(r) : r[j] = taken[k]
  <2>1. CASE k = Len(taken)
    <3>1. i \in 1 .. Len(r) /\ r[i] = taken[k]
      BY <1>1, <1>2, <1>7, <2>1
    <3> QED
      BY <3>1
  <2>2. CASE k # Len(taken)
    <3>1. k \in 1 .. Len(r) /\ r[k] = taken[k]
      BY <1>1, <1>2, <1>7, <2>2
    <3> QED
      BY <3>1
  <2> QED
    BY <2>1, <2>2
<1>8. ToSet(r) = ToSet(taken) \ {t}
  <2>1. /\ \A x : x \in ToSet(r) <=> \E k \in 1 .. Len(r) : r[k] = x
        /\ \A x : x \in ToSet(taken) <=> \E k \in 1 .. Len(taken) : taken[k] = x
    BY <1>2, <1>5, ToSetFacts
  <2>2. ASSUME NEW x \in ToSet(r) PROVE x \in ToSet(taken) \ {t}
    <3>1. PICK j \in 1 .. Len(r) : r[j] = x
      BY <2>1
    <3>2. PICK k \in 1 .. Len(taken) : r[j] = taken[k] /\ k # i
      BY <1>6
    <3>3. taken[k] # t
      BY <1>1, <1>5, <3>2 DEF Distinct
    <3> QED
      BY <2>1, <3>1, <3>2, <3>3
  <2>3. ASSUME NEW x \in ToSet(taken) \ {t} PROVE x \in ToSet(r)
    BY <1>7, <2>1
  <2> QED
    BY <2>2, <2>3
<1>9. Distinct(r)
  <2>1. ASSUME NEW j \in 1 .. Len(r), NEW k \in 1 .. Len(r), r[j] = r[k] PROVE j = k
    <3>1. PICK m \in 1 .. Len(taken) : r[j] = taken[m] /\ m = (IF j = i THEN Len(taken) ELSE j)
      BY <1>6
    <3>2. PICK n \in 1 .. Len(taken) : r[k] = taken[n] /\ n = (IF k = i THEN Len(taken) ELSE k)
      BY <1>6
    <3>3. m = n
      BY <1>5, <2>1, <3>1, <3>2 DEF Distinct
    <3> QED
      BY <1>2, <3>1, <3>2, <3>3
  <2> QED
    BY <2>1 DEF Distinct
<1>10. t \notin ToSet(tasks)
  <2>1. t \in ToSet(taken)
    BY <1>1, <1>5, ToSetFacts
  <2> QED
    BY <2>1 DEF TaskInv, ListInv
<1>11. \A x \in All : left'[x] = IF x = t THEN 0 ELSE left[x]
  BY <1>1, <1>3, <1>5
<1>12. left' \in [All -> Nat] /\ polls' \in [All -> Nat]
  BY <1>1, <1>3, <1>5
<1>13. \A x \in All : polls'[x] = IF x = t THEN 1 ELSE polls[x]
  BY <1>1, <1>5
<1>14. ListInv'
  <2>1. \A x \in All : left'[x] > 0 <=> x \in ToSet(tasks) \cup ToSet(r)
    BY <1>8, <1>10, <1>11 DEF TaskInv, ListInv
  <2>2. i \in 1 .. Len(r) + 1 /\ ToSet(tasks) \cap ToSet(r) = {}
    BY <1>1, <1>2, <1>8 DEF TaskInv, ListInv
  <2> QED
    BY <1>2, <1>3, <1>5, <1>9, <1>12, <2>1, <2>2 DEF TaskInv, ListInv
<1>15. HandleInv'
  <2>1. t \in Tasks => handle[t] = "held"
    BY <1>1 DEF TaskInv, HandleInv
  <2>2. \A x \in Tasks : left[x] = 0 => left'[x] = 0
    BY <1>11 DEF All
  <2>3. \A x \in result' : left'[x] = 0 /\ handle[x] = "held"
    BY <1>4, <1>11, <2>1, <2>2 DEF TaskInv, HandleInv, All
  <2> QED
    BY <1>4, <2>2, <2>3 DEF TaskInv, HandleInv
<1>16. PollInv'
  <2>1. ASSUME NEW j \in 1 .. Len(r) PROVE polls'[r[j]] = IF j < i THEN 1 ELSE 0
    <3>1. PICK k \in 1 .. Len(taken) : r[j] = taken[k] /\ k # i /\ (j < i <=> k < i)
      BY <1>6
    <3>2. taken[k] # t /\ taken[k] \in All
      BY <1>1, <1>5, <3>1 DEF Distinct
    <3>3. polls[taken[k]] = IF k < i THEN 1 ELSE 0
      BY DEF TaskInv, PollInv
    <3> QED
      BY <1>13, <3>1, <3>2, <3>3
  <2>2. \A x \in All : polls'[x] <= 1
    BY <1>13 DEF TaskInv, PollInv
  <2> QED
    BY <1>3, <1>12, <2>1, <2>2 DEF PollInv
<1> QED
  BY <1>14, <1>15, <1>16 DEF TaskInv

\* A task that goes on stays where it is; a child that it spawns is new to the lists.
LEMMA PollPendingStep ==
  ASSUME TaskInv, pc = "poll", pc' = "poll", i <= Len(taken), ~IsReady(taken[i]), PollPending,
         polls' = [polls EXCEPT ![taken[i]] = @ + 1], UNCHANGED <<handle, cancelled, spin>>
  PROVE  TaskInv'
<1> DEFINE t == taken[i]
<1>1. /\ i \in 1 .. Len(taken) /\ t \in All /\ left[t] > 0 /\ left[t] \in Nat /\ polls[t] = 0
  BY AtIndex
<1>2. left[t] - 1 \in Nat /\ left[t] - 1 > 0
  BY <1>1 DEF IsReady
<1>3. /\ taken \in Seq(All) /\ tasks \in Seq(All) /\ Distinct(taken) /\ Distinct(tasks) /\ Len(taken) \in Nat
      /\ left \in [All -> Nat] /\ polls \in [All -> Nat]
  BY DEF TaskInv, ListInv, PollInv
<1>4. /\ taken' = taken /\ i' = i + 1 /\ result' = result
  BY DEF PollPending
<1>5. \A x \in All : polls'[x] = IF x = t THEN 1 ELSE polls[x]
  BY <1>1, <1>3
<1>6. PollInv'
  <2>1. ASSUME NEW k \in 1 .. Len(taken) PROVE polls'[taken[k]] = IF k < i + 1 THEN 1 ELSE 0
    <3>1. taken[k] \in All /\ (k = i <=> taken[k] = t)
      BY <1>1, <1>3 DEF Distinct
    <3>2. polls[taken[k]] = IF k < i THEN 1 ELSE 0
      BY DEF TaskInv, PollInv
    <3> QED
      BY <1>1, <1>3, <1>5, <3>1, <3>2
  <2>2. polls' \in [All -> Nat]
    BY <1>1, <1>3
  <2>3. \A x \in All : polls'[x] <= 1
    BY <1>5 DEF TaskInv, PollInv
  <2> QED
    BY <1>4, <2>1, <2>2, <2>3 DEF PollInv
<1>7. i + 1 \in 1 .. Len(taken) + 1
  BY <1>1, <1>3
<1>8. CASE left' = [left EXCEPT ![t] = @ - 1] /\ tasks' = tasks
  <2>1. left' \in [All -> Nat] /\ \A x \in All : (left'[x] > 0 <=> left[x] > 0) /\ (left[x] = 0 => left'[x] = 0)
    BY <1>1, <1>2, <1>3, <1>8
  <2>2. ListInv'
    BY <1>3, <1>4, <1>7, <1>8, <2>1 DEF TaskInv, ListInv
  <2>3. HandleInv'
    BY <1>4, <2>1 DEF TaskInv, HandleInv, All
  <2> QED
    BY <1>6, <2>2, <2>3 DEF TaskInv
<1>9. CASE \E c \in {c \in Children : left[c] = 0} :
             /\ t \in Tasks
             /\ left' = [left EXCEPT ![t] = @ - 1, ![c] = 1]
             /\ tasks' = Append(tasks, c)
  <2>1. PICK c \in Children : left[c] = 0 /\ left' = [left EXCEPT ![t] = @ - 1, ![c] = 1]
                              /\ tasks' = Append(tasks, c)
    BY <1>9
  <2>2. c \in All /\ c # t /\ c \notin Tasks
    BY <1>1, <2>1, VAppRuntimeAssumption DEF All
  <2>3. left' \in [All -> Nat]
    BY <1>1, <1>2, <1>3, <2>1, <2>2
  <2>4. \A x \in All : (left'[x] > 0 <=> left[x] > 0 \/ x = c) /\ (x # c /\ left[x] = 0 => left'[x] = 0)
    <3>1. \A x \in All : left'[x] = IF x = c THEN 1 ELSE IF x = t THEN left[t] - 1 ELSE left[x]
      BY <1>1, <1>3, <2>1, <2>2
    <3>2. ASSUME NEW x \in All
          PROVE  (left'[x] > 0 <=> left[x] > 0 \/ x = c) /\ (x # c /\ left[x] = 0 => left'[x] = 0)
      <4>1. CASE x = c
        BY <3>1, <4>1
      <4>2. CASE x # c /\ x = t
        BY <1>1, <1>2, <3>1, <4>2
      <4>3. CASE x # c /\ x # t
        BY <3>1, <4>3
      <4> QED
        BY <4>1, <4>2, <4>3
    <3> QED
      BY <3>2
  <2>5. c \notin ToSet(tasks) \cup ToSet(taken)
    BY <2>1, <2>2 DEF TaskInv, ListInv
  <2>6. tasks' \in Seq(All) /\ ToSet(tasks') = ToSet(tasks) \cup {c} /\ Distinct(tasks')
    BY <1>3, <2>1, <2>2, <2>5, AppendFacts
  <2>7. ListInv'
    BY <1>3, <1>4, <1>7, <2>3, <2>4, <2>5, <2>6 DEF TaskInv, ListInv
  <2>8. HandleInv'
    BY <1>4, <2>2, <2>4 DEF TaskInv, HandleInv, All
  <2> QED
    BY <1>6, <2>7, <2>8 DEF TaskInv
<1> QED
  BY <1>8, <1>9 DEF PollPending

LEMMA PollTaskStep ==
  ASSUME TaskInv, PollTask
  PROVE  TaskInv'
BY PollReadyStep, PollPendingStep DEF PollTask

LEMMA SpawnStep ==
  ASSUME TaskInv, NEW t \in Tasks, NEW n \in 1 .. MaxPolls, SpawnTask(t, n)
  PROVE  TaskInv'
<1>1. /\ pc = "handler" /\ pc' = pc /\ handle[t] = "none" /\ handle' = [handle EXCEPT ![t] = "held"]
      /\ tasks' = Append(tasks, t) /\ left' = [left EXCEPT ![t] = n]
      /\ UNCHANGED <<taken, i, result, cancelled, spin, polls>>
  BY DEF SpawnTask, Called
<1>2. t \in All /\ n \in Nat /\ n > 0 /\ left[t] = 0 /\ left \in [All -> Nat] /\ tasks \in Seq(All)
  BY <1>1, VAppRuntimeAssumption DEF TaskInv, HandleInv, ListInv, All
<1>3. t \notin ToSet(tasks) \cup ToSet(taken)
  BY <1>2 DEF TaskInv, ListInv
<1>4. tasks' \in Seq(All) /\ ToSet(tasks') = ToSet(tasks) \cup {t} /\ Distinct(tasks')
  BY <1>1, <1>2, <1>3, AppendFacts DEF TaskInv, ListInv
<1>5. left' \in [All -> Nat] /\ \A x \in All : left'[x] = IF x = t THEN n ELSE left[x]
  BY <1>1, <1>2
<1>6. ListInv'
  BY <1>1, <1>2, <1>3, <1>4, <1>5 DEF TaskInv, ListInv
<1>7. HandleInv'
  <2>1. t \notin result
    BY <1>1 DEF TaskInv, HandleInv
  <2>2. /\ handle' \in [Tasks -> {"none", "held", "gone"}]
        /\ \A x \in Tasks : handle'[x] = IF x = t THEN "held" ELSE handle[x]
    BY <1>1 DEF TaskInv, HandleInv
  <2>3. \A x \in Tasks : handle'[x] # "held" => left'[x] = 0
    BY <1>5, <2>2 DEF TaskInv, HandleInv, All
  <2>4. \A x \in result : left'[x] = 0 /\ handle'[x] = "held"
    BY <1>5, <2>1, <2>2 DEF TaskInv, HandleInv, All
  <2> QED
    BY <1>1, <2>2, <2>3, <2>4 DEF TaskInv, HandleInv
<1>8. PollInv'
  BY <1>1 DEF TaskInv, PollInv
<1> QED
  BY <1>6, <1>7, <1>8 DEF TaskInv
\* take and drop begin to poll; what they wait for stays as it is.
LEMMA BeginSpinStep ==
  ASSUME TaskInv, pc = "handler", pc' = "spin", spin' \in Tasks \cup {"all"},
         cancelled' \subseteq Tasks,
         UNCHANGED <<tasks, taken, i, left, handle, result, polls>>
  PROVE  TaskInv'
<1>1. spin' \in Tasks \cup {"all", Nobody} /\ spin' # Nobody
  BY VAppRuntimeAssumption
<1>2. ListInv' /\ PollInv'
  BY DEF TaskInv, ListInv, PollInv
<1> QED
  BY <1>1, <1>2 DEF TaskInv, HandleInv

\* A handle that has spun enough has no task any more: it has a result, or it is cancelled
\* and the executor has dropped its future.
LEMMA SpunTasks ==
  ASSUME TaskInv, pc = "spin", spin \in Tasks, SpunEnough(spin)
  PROVE  left[spin] = 0
<1>1. taken = <<>> /\ ToSet(<<>>) = {} /\ spin \in All /\ left[spin] \in Nat /\ spin # "all"
  BY VAppRuntimeAssumption DEF TaskInv, ListInv, ToSet, All
<1>2. spin \notin ToSet(tasks) \/ spin \in result
  BY <1>1 DEF SpunEnough
<1>3. CASE spin \notin ToSet(tasks)
  BY <1>1, <1>3 DEF TaskInv, ListInv
<1>4. CASE spin \in result
  BY <1>4 DEF TaskInv, HandleInv
<1> QED
  BY <1>2, <1>3, <1>4

LEMMA SpinStep ==
  ASSUME TaskInv, Spin
  PROVE  TaskInv'
<1>1. pc = "spin" /\ UNCHANGED <<left, cancelled>>
  BY DEF Spin
<1>2. CASE BeginRound /\ UNCHANGED <<handle, result, spin>>
  BY <1>1, <1>2, BeginRoundStep
<1>3. CASE /\ SpunEnough(spin)
           /\ handle' = [t \in Tasks |-> IF t = spin THEN "gone" ELSE handle[t]]
           /\ result' = result \ {spin}
           /\ pc' = "handler" /\ spin' = Nobody
           /\ UNCHANGED <<tasks, taken, i, polls>>
  <2>1. ListInv' /\ PollInv'
    BY <1>1, <1>3 DEF TaskInv, ListInv, PollInv
  <2>2. /\ handle' \in [Tasks -> {"none", "held", "gone"}]
        /\ \A t \in Tasks : handle'[t] = IF t = spin THEN "gone" ELSE handle[t]
    BY <1>3 DEF TaskInv, HandleInv
  <2>3. \A t \in Tasks : handle'[t] # "held" => left[t] = 0
    BY <1>1, <1>3, <2>2, SpunTasks DEF TaskInv, HandleInv
  <2>4. result' \subseteq Tasks /\ \A t \in result' : left[t] = 0 /\ handle'[t] = "held"
    BY <1>3, <2>2 DEF TaskInv, HandleInv
  <2> QED
    BY <1>1, <1>3, <2>1, <2>2, <2>3, <2>4 DEF TaskInv, HandleInv
<1> QED
  BY <1>2, <1>3 DEF Spin

LEMMA TaskInvNext == TaskInv /\ [Next]_vars => TaskInv'
<1> SUFFICES ASSUME TaskInv, [Next]_vars PROVE TaskInv'
  OBVIOUS
<1>1. CASE UNCHANGED vars
  BY <1>1, QuietStep DEF vars
<1>2. CASE User
  BY <1>2, QuietStep DEF User
<1>3. CASE Spinner \/ ShowInfo \/ Exchange \/ Return \/ \E kind \in {"review", "confirmReject"} : Ask(kind)
  BY <1>3, QuietStep DEF Spinner, ShowInfo, Exchange, Return, Ask, Called
<1>4. CASE AwaitAll
  <2>1. /\ pc = "handler" /\ pc' = "spin" /\ spin' = "all"
        /\ UNCHANGED <<tasks, taken, i, left, handle, result, cancelled, polls>>
    BY <1>4 DEF AwaitAll, Called
  <2>2. cancelled' \subseteq Tasks
    BY <2>1 DEF TaskInv, HandleInv
  <2> QED
    BY <2>1, <2>2, BeginSpinStep
<1>5. ASSUME NEW t \in Tasks, AwaitTask(t) PROVE TaskInv'
  <2>1. /\ pc = "handler" /\ pc' = "spin" /\ spin' = t
        /\ UNCHANGED <<tasks, taken, i, left, handle, result, cancelled, polls>>
    BY <1>5 DEF AwaitTask
  <2>2. cancelled' \subseteq Tasks
    BY <2>1 DEF TaskInv, HandleInv
  <2> QED
    BY <2>1, <2>2, BeginSpinStep
<1>6. ASSUME NEW t \in Tasks, DropTask(t) PROVE TaskInv'
  <2>1. /\ pc = "handler" /\ pc' = "spin" /\ spin' = t /\ cancelled' = cancelled \cup {t}
        /\ UNCHANGED <<tasks, taken, i, left, handle, result, polls>>
    BY <1>6 DEF DropTask
  <2>2. cancelled' \subseteq Tasks
    BY <2>1 DEF TaskInv, HandleInv
  <2> QED
    BY <2>1, <2>2, BeginSpinStep
<1>7. ASSUME NEW t \in Tasks, NEW n \in 1 .. MaxPolls, SpawnTask(t, n) PROVE TaskInv'
  BY <1>7, SpawnStep
<1>8. CASE ShowDashboard
  BY <1>8, QuietStep DEF ShowDashboard
<1>9. CASE OnLoopEvent
  <2>1. UNCHANGED taskVars /\ pc = "event" /\ pc' \in {"receive", "exited"}
    BY <1>9 DEF OnLoopEvent, Navigate
  <2> QED
    BY <2>1, QuietStep
<1>10. CASE OnFlowEvent
  <2>1. UNCHANGED taskVars /\ pc = "event" /\ pc' \in {"event", "handler"}
    BY <1>10 DEF OnFlowEvent
  <2> QED
    BY <2>1, QuietStep
<1>11. CASE GetTicker
  BY <1>11, BeginRoundStep DEF GetTicker
<1>12. CASE OnTicker
  BY <1>12, QuietStep DEF OnTicker
<1>13. CASE Receive
  BY <1>13, QuietStep DEF Receive
<1> QED
  BY <1>1, <1>2, <1>3, <1>4, <1>5, <1>6, <1>7, <1>8, <1>9, <1>10, <1>11, <1>12, <1>13,
     SpinStep, PollTaskStep, EndRoundStep DEF Next, Handler, Root
-----------------------------------------------------------------------------
(* The screen.                                                                 *)
LEMMA ScreenInvInit == Init => ScreenInv
BY DEF Init, ScreenInv

\* Show replaces the screen by one that is not the dashboard's only in a step that makes the
\* dashboard due.
LEMMA ScreenInvNext == ScreenInv /\ [Next]_vars => ScreenInv'
<1> SUFFICES ASSUME ScreenInv, [Next]_vars PROVE ScreenInv'
  OBVIOUS
<1>1. ASSUME UNCHANGED <<screen, view, dirty, flow>> PROVE ScreenInv'
  BY <1>1 DEF ScreenInv
<1>2. CASE UNCHANGED vars
  BY <1>1, <1>2 DEF vars, uxVars, appVars
<1>3. CASE User
  BY <1>1, <1>3 DEF User, Press, appVars
<1>4. CASE Spinner \/ ShowInfo
  BY <1>4 DEF Spinner, ShowInfo, ShowSpinner, SetUxDirty, ScreenInv
<1>5. CASE \E kind \in {"review", "confirmReject"} : Ask(kind)
  BY <1>5 DEF Ask, SetUxDirty, ScreenInv
<1>6. CASE Exchange
  BY <1>6 DEF Exchange, uxVars, ScreenInv
<1>7. ASSUME UNCHANGED <<flow, view>>, ShowSpinner \/ UNCHANGED <<uxVars, dirty, ticks>> PROVE ScreenInv'
  BY <1>7 DEF ShowSpinner, SetUxDirty, uxVars, ScreenInv
<1>8. CASE AwaitAll \/ \E t \in Tasks : AwaitTask(t)
  BY <1>7, <1>8 DEF AwaitAll, AwaitTask
<1>9. CASE Return \/ GetTicker \/ Receive \/ Spin \/ PollTask \/ EndRound
           \/ \E t \in Tasks : DropTask(t) \/ \E n \in 1 .. MaxPolls : SpawnTask(t, n)
  BY <1>1, <1>9 DEF Return, GetTicker, Receive, Spin, PollTask, EndRound, DropTask, SpawnTask,
                    uxVars, appVars
<1>10. CASE OnTicker
  BY <1>1, <1>10 DEF OnTicker, uxVars
<1>11. CASE ShowDashboard
  <2>1. flow'[1] = "loop"
    BY <1>11 DEF ShowDashboard
  <2> QED
    BY <1>11, <2>1 DEF ShowDashboard, Show, uxVars, ScreenInv
<1>12. CASE OnLoopEvent
  <2>1. /\ UNCHANGED <<dirty, flow>>
        /\ screen' = view' \/ UNCHANGED <<screen, view>>
    BY <1>12 DEF OnLoopEvent, Navigate
  <2> QED
    BY <2>1 DEF ScreenInv
<1>13. CASE OnFlowEvent
  <2>1. flow[1] \in {"review", "confirmReject"} /\ UNCHANGED <<view, dirty>>
    BY <1>13 DEF OnFlowEvent
  <2> QED
    BY <2>1 DEF ScreenInv
<1> QED
  BY <1>2, <1>3, <1>4, <1>5, <1>6, <1>8, <1>9, <1>10, <1>11, <1>12, <1>13 DEF Next, Handler, Root
-----------------------------------------------------------------------------
\* A task whose handle is gone is in no list of the executor, so that nothing polls what
\* its handler owned (spawn_task and Drop for TaskHandle, app.rs), whatever handlers do.
THEOREM BorrowsSafety == Spec => []BorrowsRespected
<1>1. TaskInv => BorrowsRespected
  <2> SUFFICES ASSUME TaskInv, NEW t \in Tasks, handle[t] = "gone"
               PROVE  t \notin ToSet(tasks) \cup ToSet(taken)
    BY DEF BorrowsRespected
  <2>1. left[t] = 0 /\ t \in All
    BY DEF TaskInv, HandleInv, All
  <2> QED
    BY <2>1 DEF TaskInv, ListInv
<1> QED
  BY <1>1, TaskInvInit, TaskInvNext, PTL DEF Spec

\* poll_once (executor.rs) polls each of the tasks that it took once, whichever of them
\* finish and are swapped away, and none that was spawned meanwhile.
THEOREM PollSafety == Spec => []EachPolledOnce
<1>1. TaskInv => EachPolledOnce
  <2> SUFFICES ASSUME TaskInv, pc = "poll", i > Len(taken)
               PROVE  /\ \A t \in ToSet(taken) : polls[t] = 1
                      /\ \A t \in Tasks \cup Children : polls[t] <= 1
                      /\ ToSet(taken) \cap ToSet(tasks) = {}
    BY DEF EachPolledOnce
  <2>1. taken \in Seq(All) /\ i \in 1 .. Len(taken) + 1 /\ Len(taken) \in Nat
    BY DEF TaskInv, ListInv
  <2>2. ASSUME NEW t \in ToSet(taken) PROVE polls[t] = 1
    <3>1. PICK k \in 1 .. Len(taken) : taken[k] = t
      BY <2>1, ToSetFacts
    <3>2. k < i
      BY <2>1
    <3> QED
      BY <3>1, <3>2 DEF TaskInv, PollInv
  <2> QED
    BY <2>2 DEF TaskInv, ListInv, PollInv, All
<1> QED
  BY <1>1, TaskInvInit, TaskInvNext, PTL DEF Spec

\* When the loop waits for an event and no dashboard is due, the screen is the one that
\* process_ux_events (app.rs) takes the event for.
THEOREM ScreenSafety == Spec => []ScreenMatchesView
<1>1. ScreenInv => ScreenMatchesView
  BY DEF ScreenInv, ScreenMatchesView
<1> QED
  BY <1>1, ScreenInvInit, ScreenInvNext, PTL DEF Spec
=============================================================================
