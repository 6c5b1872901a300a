--------------------------- MODULE HostCommProofs ---------------------------
(***************************************************************************)
(* The conversation of a request: where the host and the V-App are in it,  *)
(* and what each does with the other's next message. The proofs about the  *)
(* two clients rest on these facts.                                        *)
(***************************************************************************)
EXTENDS HostComm, SequenceTheorems, TLAPS

\* A request of n chunks, of which k were sent, and got chunks of a response of total ones.
Talks ==
  {p \in [req : Requests, n : Nat, k : Nat, total : Nat, got : Nat] :
     p.k \in 1 .. p.n /\ p.got < p.total /\ (p.got > 0 => p.k = p.n)}

Prefix(p, k) == [i \in 1 .. k |-> RequestChunk(p.req, i, p.n)]

Replies(p, j) == [i \in 1 .. j |-> ResponseChunk(Prefix(p, p.n), i, p.total)]

CallOf(p) == Request(p.req, p.n, p.k, Replies(p, p.got))

\* What the host sent last, and the V-App that waits for it.
PostOf(p) == IF p.got = 0 THEN RequestChunk(p.req, p.k, p.n) ELSE ACK

Expects(v, p) ==
  \/ p.got = 0 /\ p.k = 1 /\ v = Idle
  \/ p.got = 0 /\ p.k > 1 /\ v = At("more", Prefix(p, p.k - 1), 0, p.n)
  \/ p.got > 0 /\ v = At("ackWait", Prefix(p, p.n), p.got, p.total)
\* The V-App that has taken it.
Serving(v, p) ==
  \/ p.k < p.n /\ v = At("acking", Prefix(p, p.k), 0, p.n)
  \/ p.k = p.n /\ v = At("replying", Prefix(p, p.n), p.got + 1, p.total)
  \/ p.k = p.n /\ p.got = 0 /\ v = At("printing", Prefix(p, p.n), 1, p.total)

\* Its answer, and the V-App that has sent it.
Reply(p) == IF p.k < p.n THEN ACK ELSE ResponseChunk(Prefix(p, p.n), p.got + 1, p.total)

Replied(p) ==
  IF p.k < p.n THEN At("more", Prefix(p, p.k), 0, p.n)
  ELSE IF p.got + 1 < p.total THEN At("ackWait", Prefix(p, p.n), p.got + 1, p.total) ELSE Idle

-----------------------------------------------------------------------------
LEMMA TalkFields ==
  ASSUME NEW p \in Talks
  PROVE  /\ p.req \in Requests /\ p.n \in Nat /\ p.k \in Nat /\ p.total \in Nat /\ p.got \in Nat
         /\ 1 <= p.k /\ p.k <= p.n /\ p.got < p.total /\ (p.got > 0 => p.k = p.n)
BY DEF Talks

LEMMA PrefixIsSeq ==
  ASSUME NEW p, NEW k \in Nat
  PROVE  /\ Prefix(p, k) \in Seq({RequestChunk(p.req, i, p.n) : i \in Nat}) /\ Len(Prefix(p, k)) = k
         /\ Append(Prefix(p, k), RequestChunk(p.req, k + 1, p.n)) = Prefix(p, k + 1)
         /\ <<RequestChunk(p.req, 1, p.n)>> = Prefix(p, 1)
<1> DEFINE C == {RequestChunk(p.req, i, p.n) : i \in Nat}
<1>1. \A j \in Nat : Prefix(p, j) \in Seq(C) /\ Len(Prefix(p, j)) = j
  BY DEF Prefix
<1>2. RequestChunk(p.req, k + 1, p.n) \in C /\ RequestChunk(p.req, 1, p.n) \in C
  OBVIOUS
<1>3. \A j \in Nat : \A i \in 1 .. j : Prefix(p, j)[i] = RequestChunk(p.req, i, p.n)
  BY DEF Prefix
<1> HIDE DEF C
<1>4. Append(Prefix(p, k), RequestChunk(p.req, k + 1, p.n)) = Prefix(p, k + 1)
  <2> DEFINE s == Append(Prefix(p, k), RequestChunk(p.req, k + 1, p.n))
  <2>1. s \in Seq(C) /\ Len(s) = k + 1
    BY <1>1, <1>2
  <2>2. \A i \in 1 .. k + 1 : s[i] = RequestChunk(p.req, i, p.n)
    BY <1>1, <1>2, <1>3
  <2>3. Prefix(p, k + 1) \in Seq(C) /\ Len(Prefix(p, k + 1)) = k + 1
        /\ \A i \in 1 .. k + 1 : Prefix(p, k + 1)[i] = RequestChunk(p.req, i, p.n)
    BY <1>1, <1>3
  <2> HIDE DEF s
  <2>4. s = Prefix(p, k + 1)
    BY <2>1, <2>2, <2>3, SeqEqual
  <2> QED
    BY <2>4 DEF s
<1>5. <<RequestChunk(p.req, 1, p.n)>> = Prefix(p, 1)
  BY DEF Prefix
<1> QED
  BY <1>1, <1>4, <1>5 DEF C
LEMMA AtFields ==
  ASSUME NEW a, NEW parts, NEW sent, NEW total
  PROVE  /\ At(a, parts, sent, total).at = a /\ At(a, parts, sent, total).parts = parts
         /\ At(a, parts, sent, total).sent = sent /\ At(a, parts, sent, total).total = total
BY DEF At

LEMMA AtMoved ==
  ASSUME NEW a, NEW parts, NEW sent, NEW total, NEW b
  PROVE  [At(a, parts, sent, total) EXCEPT !.at = b] = At(b, parts, sent, total)
BY DEF At

LEMMA ResumeCases ==
  ASSUME NEW v, NEW data
  PROVE  /\ v.at = "idle" => Resume(v, data) = FirstChunk(data)
         /\ v.at = "acking" => Resume(v, data) = {Interrupted([v EXCEPT !.at = "more"])}
         /\ v.at = "more" => Resume(v, data) = NextChunk(v, data)
         /\ v.at = "printing" => Resume(v, data) = {Interrupted([v EXCEPT !.at = "replying"])}
         /\ v.at = "replying" =>
              Resume(v, data) = {Interrupted(IF v.sent < v.total THEN [v EXCEPT !.at = "ackWait"] ELSE Idle)}
         /\ v.at = "ackWait" => Resume(v, data) = AwaitAck(v, data)
         /\ v.at \in PanicMessages => Resume(v, data) = {Done("VAppPanic")}
BY DEF Resume, PanicMessages

LEMMA ChunkCases ==
  ASSUME NEW v, NEW data
  PROVE  /\ data.kind = "empty" =>
              FirstChunk(data) = {Interrupted(Idle)} \cup IF VappMayStop THEN {Done("OK")} ELSE {}
         /\ data.kind = "ACK" => FirstChunk(data) = {Interrupted(CommError)}
         /\ data.kind = "request" => FirstChunk(data) = Took(<<data>>, data.n)
         /\ data.kind = "ACK" =>
              AwaitAck(v, data) = {Interrupted(At("replying", v.parts, v.sent + 1, v.total))}
         /\ data.kind = "empty" => AwaitAck(v, data) = {Interrupted(CommError)}
         /\ data.kind \in {"nothing", "request"} => AwaitAck(v, data) = {Done("VMRuntimeError")}
BY DEF FirstChunk, AwaitAck

LEMMA ChunkFields ==
  ASSUME NEW r, NEW k, NEW n, NEW parts
  PROVE  /\ RequestChunk(r, k, n).kind = "request" /\ RequestChunk(r, k, n).req = r
         /\ RequestChunk(r, k, n).n = n
         /\ ACK.kind = "ACK" /\ Empty.kind = "empty"
         /\ ResponseChunk(parts, k, n).n = n /\ ResponseChunk(parts, k, n) # ACK
BY DEF RequestChunk, ResponseChunk, ACK, Empty

LEMMA HandleCases ==
  ASSUME NEW parts, NEW a \in Handle(parts)
  PROVE  \/ a = Done("OK") \/ a = Interrupted(Panicking("handler failed"))
         \/ \E place \in {"printing", "replying"}, n \in 1 .. MaxRespChunks :
              a = Interrupted(At(place, parts, 1, n))
BY GuestCommAssumption DEF Handle

\* receive_message and the handler: a chunk is acknowledged, or the request is served.
LEMMA ResumeExpected ==
  ASSUME NEW p \in Talks, NEW v, Expects(v, p), NEW a \in Resume(v, PostOf(p))
  PROVE  \/ a = Done("OK")
         \/ a = Interrupted(Panicking("handler failed"))
         \/ \E q \in Talks : CallOf(q) = CallOf(p) /\ Serving(a.vapp, q) /\ a = Interrupted(a.vapp)
<1>1. /\ p.req \in Requests /\ p.n \in Nat /\ p.k \in Nat /\ p.total \in Nat /\ p.got \in Nat
      /\ 1 <= p.k /\ p.k <= p.n /\ p.got < p.total /\ (p.got > 0 => p.k = p.n)
  BY TalkFields
<1>2. \A u : Interrupted(u).vapp = u
  BY DEF Interrupted
<1>3. CASE p.got = 0
  <2>1. PostOf(p) = RequestChunk(p.req, p.k, p.n) /\ PostOf(p).kind = "request"
    BY <1>3, ChunkFields DEF PostOf
  <2>2. a \in Took(Prefix(p, p.k), p.n)
    <3>1. CASE p.k = 1 /\ v = Idle
      <4>1. Resume(v, PostOf(p)) = FirstChunk(PostOf(p))
        <5>1. v.at = "idle"
          BY <3>1, AtFields DEF Idle
        <5> QED
          BY <5>1, ResumeCases
      <4>2. FirstChunk(PostOf(p)) = Took(<<PostOf(p)>>, PostOf(p).n)
        BY <2>1, ChunkCases, Zenon
      <4>3. 0 \in Nat /\ PostOf(p) = RequestChunk(p.req, 1, p.n) /\ PostOf(p).n = p.n
        BY <2>1, <3>1, <1>1, ChunkFields
      <4>4. <<PostOf(p)>> = Prefix(p, 1)
        BY <4>3, PrefixIsSeq, Zenon
      <4> QED
        BY <3>1, <4>1, <4>2, <4>3, <4>4, Zenon
    <3>2. CASE p.k > 1 /\ v = At("more", Prefix(p, p.k - 1), 0, p.n)
      <4>1. v.at = "more" /\ v.parts = Prefix(p, p.k - 1) /\ v.total = p.n
        BY <3>2, AtFields
      <4>2. Resume(v, PostOf(p)) = NextChunk(v, PostOf(p))
        BY <4>1, ResumeCases, Zenon
      <4>3. NextChunk(v, PostOf(p)) = Took(Append(v.parts, PostOf(p)), v.total) \cup Strange(v, PostOf(p))
        BY <2>1 DEF NextChunk
      <4>4. p.k - 1 \in Nat /\ p.k - 1 + 1 = p.k /\ p.k - 1 >= 1
        BY <1>1, <3>2
      <4>5. Append(v.parts, PostOf(p)) = Prefix(p, p.k) /\ Len(v.parts) + 1 = p.k
        BY <2>1, <4>1, <4>4, PrefixIsSeq
      <4>6. v.parts[1].req = p.req
        <5>1. v.parts[1] = RequestChunk(p.req, 1, p.n)
          BY <4>1, <4>4 DEF Prefix
        <5> QED
          BY <5>1, ChunkFields
      <4>7. Strange(v, PostOf(p)) = {}
        BY <2>1, <4>1, <4>5, <4>6 DEF Strange
      <4> QED
        BY <4>1, <4>2, <4>3, <4>5, <4>7
    <3> QED
      BY <1>3, <3>1, <3>2 DEF Expects
  <2>3. Len(Prefix(p, p.k)) = p.k
    BY <1>1, PrefixIsSeq
  <2>4. CASE p.k < p.n
    <3>1. a = Interrupted(At("acking", Prefix(p, p.k), 0, p.n))
      BY <2>2, <2>3, <2>4 DEF Took
    <3> QED
      BY <1>2, <2>4, <3>1 DEF Serving
  <2>5. CASE p.k = p.n
    <3>1. a \in Handle(Prefix(p, p.n))
      BY <1>1, <2>2, <2>3, <2>5 DEF Took
    <3>2. CASE a = Done("OK") \/ a = Interrupted(Panicking("handler failed"))
      BY <3>2
    <3>3. CASE \E place \in {"printing", "replying"}, n \in 1 .. MaxRespChunks :
                 a = Interrupted(At(place, Prefix(p, p.n), 1, n))
      <4>1. PICK place \in {"printing", "replying"}, n \in 1 .. MaxRespChunks :
              a = Interrupted(At(place, Prefix(p, p.n), 1, n))
        BY <3>3
      <4> DEFINE q == [p EXCEPT !.total = n]
      <4>2. /\ q \in Talks /\ q.req = p.req /\ q.n = p.n /\ q.k = p.k /\ q.total = n /\ q.got = 0
        BY <1>1, <1>3, GuestCommAssumption DEF Talks
      <4> HIDE DEF q
      <4>3. Prefix(q, q.n) = Prefix(p, p.n)
        BY <4>2 DEF Prefix
      <4>4. Replies(q, 0) = <<>> /\ Replies(p, 0) = <<>>
        BY DEF Replies
      <4>5. CallOf(q) = CallOf(p)
        BY <1>3, <4>2, <4>4 DEF CallOf
      <4>6. Serving(a.vapp, q)
        BY <1>2, <2>5, <4>1, <4>2, <4>3 DEF Serving
      <4> QED
        BY <1>2, <4>1, <4>2, <4>5, <4>6
    <3>4. \/ a = Done("OK") \/ a = Interrupted(Panicking("handler failed"))
          \/ \E place \in {"printing", "replying"}, n \in 1 .. MaxRespChunks :
               a = Interrupted(At(place, Prefix(p, p.n), 1, n))
      BY <3>1, HandleCases
    <3> QED
      BY <3>2, <3>3, <3>4, Zenon
  <2>6. p.k < p.n \/ p.k = p.n
    BY <1>1
  <2> QED
    BY <2>4, <2>5, <2>6, Zenon
<1>4. CASE p.got > 0
  <2>1. PostOf(p) = ACK /\ v = At("ackWait", Prefix(p, p.n), p.got, p.total)
    BY <1>1, <1>4 DEF PostOf, Expects
  <2>2. Resume(v, ACK) = AwaitAck(v, ACK)
    <3>1. v.at = "ackWait"
      BY <2>1, AtFields
    <3> QED
      BY <3>1, ResumeCases, Zenon
  <2>3. AwaitAck(v, ACK) = {Interrupted(At("replying", v.parts, v.sent + 1, v.total))}
    BY ChunkFields, ChunkCases, ZenonT(40)
  <2>4. v.parts = Prefix(p, p.n) /\ v.sent = p.got /\ v.total = p.total
    BY <2>1, AtFields
  <2>5. a = Interrupted(At("replying", Prefix(p, p.n), p.got + 1, p.total))
    BY <2>1, <2>2, <2>3, <2>4
  <2>6. Serving(a.vapp, p)
    BY <1>1, <1>2, <1>4, <2>5 DEF Serving
  <2> QED
    BY <1>2, <2>5, <2>6
<1>5. p.got = 0 \/ p.got > 0
  BY <1>1
<1> QED
  BY <1>3, <1>4, <1>5, Zenon
LEMMA CommandCases ==
  ASSUME NEW v
  PROVE  /\ v.at \in {"idle", "more", "ackWait"} => Command(v) = ReceiveBuffer
         /\ v.at = "acking" => Command(v) = SendBuffer("VAppMessage", ACK)
         /\ v.at = "printing" => Command(v) = SendBuffer("Print", Empty)
         /\ v.at = "replying" =>
              Command(v) = SendBuffer("VAppMessage", ResponseChunk(v.parts, v.sent, v.total))
         /\ v.at \in PanicMessages => Command(v) = SendBuffer("Panic", [kind |-> "panic", text |-> v.at])
BY DEF Command, PanicMessages

LEMMA ExpectsAt ==
  ASSUME NEW v, NEW p, Expects(v, p)
  PROVE  v.at \in {"idle", "more", "ackWait"}
BY AtFields DEF Expects, Idle

\* An empty buffer, when the V-App waits for the host's next message: it goes on waiting, may
\* exit if it waits for a request, and takes the missing ACK for an error.
LEMMA ResumeEmpty ==
  ASSUME NEW p \in Talks, NEW v, Expects(v, p), NEW a \in Resume(v, Empty)
  PROVE  a = Interrupted(v) \/ a = Done("OK") \/ a = Interrupted(CommError)
<1>1. Empty.kind = "empty"
  BY DEF Empty
<1>2. CASE v = Idle
  <2>1. v.at = "idle"
    BY <1>2, AtFields DEF Idle
  <2>2. a \in FirstChunk(Empty)
    BY <2>1, ResumeCases
  <2> QED
    BY <1>1, <1>2, <2>2, ChunkCases, GuestCommAssumption
<1>3. CASE v.at = "more"
  BY <1>1, <1>3, ResumeCases DEF NextChunk
<1>4. CASE v.at = "ackWait"
  <2>1. Resume(v, Empty) = AwaitAck(v, Empty)
    BY <1>4, ResumeCases, Zenon
  <2>2. AwaitAck(v, Empty) = {Interrupted(CommError)}
    BY <1>1, ChunkCases, Zenon
  <2> QED
    BY <2>1, <2>2, Zenon
<1>5. v = Idle \/ v.at = "more" \/ v.at = "ackWait"
  BY AtFields DEF Expects
<1> QED
  BY <1>2, <1>3, <1>4, <1>5, Zenon

\* The V-App that was served goes on: after a print it replies; what it sends is the answer.
LEMMA ResumeServing ==
  ASSUME NEW p \in Talks, NEW v, Serving(v, p), NEW data, NEW a \in Resume(v, data)
  PROVE  \/ /\ Command(v) = SendBuffer("Print", Empty)
            /\ Serving(a.vapp, p) /\ a = Interrupted(a.vapp)
         \/ /\ Command(v) = SendBuffer("VAppMessage", Reply(p))
            /\ a = Interrupted(Replied(p))
<1>1. /\ p.n \in Nat /\ p.k \in Nat /\ p.total \in Nat /\ p.got \in Nat
      /\ 1 <= p.k /\ p.k <= p.n /\ p.got < p.total /\ (p.got > 0 => p.k = p.n)
  BY TalkFields
<1>2. \A u : Interrupted(u).vapp = u
  BY DEF Interrupted
<1>3. CASE p.k < p.n /\ v = At("acking", Prefix(p, p.k), 0, p.n)
  <2>1. v.at = "acking"
    BY <1>3, AtFields
  <2>2. a = Interrupted([v EXCEPT !.at = "more"])
    BY <2>1, ResumeCases
  <2>3. [v EXCEPT !.at = "more"] = Replied(p)
    BY <1>1, <1>3, AtMoved DEF Replied
  <2>4. Command(v) = SendBuffer("VAppMessage", Reply(p))
    BY <1>1, <1>3, <2>1, CommandCases DEF Reply
  <2> QED
    BY <2>2, <2>3, <2>4, Zenon
<1>4. CASE p.k = p.n /\ v = At("replying", Prefix(p, p.n), p.got + 1, p.total)
  <2>1. v.at = "replying" /\ v.parts = Prefix(p, p.n) /\ v.sent = p.got + 1 /\ v.total = p.total
    BY <1>4, AtFields
  <2>2. a = Interrupted(IF v.sent < v.total THEN [v EXCEPT !.at = "ackWait"] ELSE Idle)
    BY <2>1, ResumeCases
  <2>3. ~(p.k < p.n)
    BY <1>1, <1>4
  <2>4. Command(v) = SendBuffer("VAppMessage", Reply(p))
    BY <2>1, <2>3, CommandCases, Zenon DEF Reply
  <2>5. [v EXCEPT !.at = "ackWait"] = At("ackWait", Prefix(p, p.n), p.got + 1, p.total)
    BY <1>4, AtMoved
  <2>6. a = Interrupted(Replied(p))
    BY <2>1, <2>2, <2>3, <2>5 DEF Replied
  <2> QED
    BY <2>4, <2>6, Zenon
<1>5. CASE p.k = p.n /\ p.got = 0 /\ v = At("printing", Prefix(p, p.n), 1, p.total)
  <2>1. v.at = "printing"
    BY <1>5, AtFields
  <2>2. a = Interrupted([v EXCEPT !.at = "replying"])
    BY <2>1, ResumeCases
  <2>3. [v EXCEPT !.at = "replying"] = At("replying", Prefix(p, p.n), p.got + 1, p.total)
    BY <1>5, AtMoved
  <2>4. Serving(a.vapp, p) /\ a = Interrupted(a.vapp)
    BY <1>2, <1>5, <2>2, <2>3 DEF Serving
  <2>5. Command(v) = SendBuffer("Print", Empty)
    BY <2>1, CommandCases
  <2> QED
    BY <2>4, <2>5, Zenon
<1> QED
  BY <1>3, <1>4, <1>5, Zenon DEF Serving

LEMMA RepliesGrow ==
  ASSUME NEW p, NEW j \in Nat
  PROVE  /\ Len(Replies(p, j)) = j
         /\ Append(Replies(p, j), ResponseChunk(Prefix(p, p.n), j + 1, p.total)) = Replies(p, j + 1)
         /\ Replies(p, j + 1)[1].n = p.total
         /\ Replies(p, j) = <<>> <=> j = 0
<1> DEFINE R(i) == ResponseChunk(Prefix(p, p.n), i, p.total)
           C == {R(i) : i \in Nat}
           s == Append(Replies(p, j), R(j + 1))
<1>1. \A i \in Nat : Replies(p, i) \in Seq(C) /\ Len(Replies(p, i)) = i
  BY DEF Replies
<1>2. \A i \in Nat : R(i) \in C
  OBVIOUS
<1>3. \A i \in Nat : \A h \in 1 .. i : Replies(p, i)[h] = R(h)
  BY DEF Replies
<1>4. R(1).n = p.total
  BY ChunkFields
<1> HIDE DEF C, R
<1>5. s \in Seq(C) /\ Len(s) = j + 1 /\ \A i \in 1 .. j + 1 : s[i] = R(i)
  BY <1>1, <1>2, <1>3
<1>6. /\ Replies(p, j + 1) \in Seq(C) /\ Len(Replies(p, j + 1)) = j + 1
      /\ \A i \in 1 .. j + 1 : Replies(p, j + 1)[i] = R(i)
  BY <1>1, <1>3
<1> HIDE DEF s
<1>7. s = Replies(p, j + 1)
  BY <1>5, <1>6, SeqEqual
<1>8. Replies(p, j + 1)[1].n = p.total
  BY <1>4, <1>6
<1>9. Replies(p, j) = <<>> <=> j = 0
  BY <1>1
<1> QED
  BY <1>1, <1>7, <1>8, <1>9 DEF s, R

\* send_message of the host goes on with the conversation, or has the whole response.
LEMMA AfterReply ==
  ASSUME NEW p \in Talks, call = CallOf(p)
  PROVE  \/ \E q \in Talks : /\ After(Message(Reply(p))) = Continue(CallOf(q), PostOf(q))
                             /\ Expects(Replied(p), q)
         \/ /\ After(Message(Reply(p))) = Return(Message(Replies(p, p.total)))
            /\ p.k = p.n /\ Replied(p) = Idle
<1>1. /\ p.req \in Requests /\ p.n \in Nat /\ p.k \in Nat /\ p.total \in Nat /\ p.got \in Nat
      /\ 1 <= p.k /\ p.k <= p.n /\ p.got < p.total /\ (p.got > 0 => p.k = p.n)
  BY TalkFields
<1>2. /\ call.op = "send" /\ call.req = p.req /\ call.n = p.n /\ call.k = p.k
      /\ call.got = Replies(p, p.got)
      /\ \A x : [call EXCEPT !.k = x] = Request(p.req, p.n, x, Replies(p, p.got))
      /\ \A x : [call EXCEPT !.got = x] = Request(p.req, p.n, p.k, x)
  BY DEF CallOf, Request
<1>3. After(Message(Reply(p))) = AfterMessage(Reply(p))
  BY <1>2 DEF After, Message
<1>4. CASE p.k < p.n
  <2>1. Reply(p) = ACK /\ p.got = 0 /\ PostOf(p) = RequestChunk(p.req, p.k, p.n)
    BY <1>1, <1>4 DEF Reply, PostOf
  <2>2. AfterMessage(ACK) = Continue([call EXCEPT !.k = @ + 1], RequestChunk(p.req, p.k + 1, p.n))
    BY <1>2, <1>4 DEF AfterMessage
  <2> DEFINE q == [p EXCEPT !.k = p.k + 1]
  <2>3. /\ q \in Talks /\ q.req = p.req /\ q.n = p.n /\ q.k = p.k + 1 /\ q.total = p.total /\ q.got = p.got
    BY <1>1, <1>4, <2>1 DEF Talks
  <2> HIDE DEF q
  <2>4. Prefix(q, p.k) = Prefix(p, p.k) /\ Replies(q, 0) = <<>> /\ Replies(p, 0) = <<>>
    BY <2>3 DEF Prefix, Replies
  <2>5. [call EXCEPT !.k = @ + 1] = CallOf(q)
    BY <1>2, <2>1, <2>3, <2>4 DEF CallOf
  <2>6. RequestChunk(p.req, p.k + 1, p.n) = PostOf(q)
    BY <2>1, <2>3 DEF PostOf
  <2>7. Replied(p) = At("more", Prefix(p, p.k), 0, p.n)
    BY <1>4 DEF Replied
  <2>8. Expects(Replied(p), q)
    <3>1. q.k > 1 /\ q.k - 1 = p.k
      BY <1>1, <2>3
    <3> QED
      BY <2>1, <2>3, <2>4, <2>7, <3>1 DEF Expects
  <2> QED
    BY <1>3, <2>1, <2>2, <2>3, <2>5, <2>6, <2>8, Zenon
<1>5. CASE p.k = p.n
  <2> DEFINE d == ResponseChunk(Prefix(p, p.n), p.got + 1, p.total)
  <2>1. ~(p.k < p.n) /\ Reply(p) = d /\ d # ACK
    BY <1>1, <1>5, ChunkFields DEF Reply
  <2>2. AfterMessage(d) = OnResponse(d)
    BY <1>2, <2>1, Zenon DEF AfterMessage
  <2>3. Append(call.got, d) = Replies(p, p.got + 1)
    BY <1>1, <1>2, RepliesGrow
  <2>4. Len(Replies(p, p.got + 1)) = p.got + 1 /\ Replies(p, p.got + 1)[1].n = p.total
    <3>1. p.got \in Nat /\ p.got + 1 \in Nat
      BY <1>1
    <3> QED
      BY <3>1, RepliesGrow, Zenon
  <2>5. OnResponse(d) = IF p.got + 1 < p.total
                        THEN Continue([call EXCEPT !.got = Replies(p, p.got + 1)], ACK)
                        ELSE Return(Message(Replies(p, p.got + 1)))
    BY <2>3, <2>4, Zenon DEF OnResponse
  <2>6. CASE p.got + 1 < p.total
    <3> DEFINE q == [p EXCEPT !.got = p.got + 1]
    <3>1. /\ q \in Talks /\ q.req = p.req /\ q.n = p.n /\ q.k = p.k /\ q.total = p.total /\ q.got = p.got + 1
      BY <1>1, <1>5, <2>6 DEF Talks
    <3> HIDE DEF q
    <3>2. Prefix(q, q.n) = Prefix(p, p.n) /\ Replies(q, q.got) = Replies(p, p.got + 1)
      BY <3>1 DEF Prefix, Replies
    <3>3. [call EXCEPT !.got = Replies(p, p.got + 1)] = CallOf(q)
      BY <1>2, <3>1, <3>2 DEF CallOf
    <3>4. PostOf(q) = ACK /\ q.got > 0
      BY <1>1, <3>1 DEF PostOf
    <3>5. Expects(Replied(p), q)
      BY <2>1, <2>6, <3>1, <3>2, <3>4 DEF Expects, Replied
    <3>6. After(Message(Reply(p))) = Continue(CallOf(q), PostOf(q))
      BY <1>3, <2>1, <2>2, <2>5, <2>6, <3>3, <3>4
    <3> QED
      BY <3>1, <3>5, <3>6, Zenon
  <2>7. CASE ~(p.got + 1 < p.total)
    <3>1. p.got + 1 = p.total
      BY <1>1, <2>7
    <3>2. After(Message(Reply(p))) = Return(Message(Replies(p, p.total)))
      BY <1>3, <2>1, <2>2, <2>5, <3>1, <2>7, Zenon
    <3>3. Replied(p) = Idle
      BY <2>1, <2>7, Zenon DEF Replied
    <3> QED
      BY <1>5, <3>2, <3>3, Zenon
  <2> QED
    BY <2>6, <2>7, Zenon
<1>6. p.k < p.n \/ p.k = p.n
  BY <1>1
<1> QED
  BY <1>4, <1>5, <1>6, Zenon
-----------------------------------------------------------------------------
(* What the engine does with the VM's answers.                                 *)

LEMMA Answers ==
  ASSUME NEW v, NEW s, NEW b
  PROVE  /\ Interrupted(v).vapp = v /\ Done(s).vapp = NotRunning
         /\ Engine(Interrupted(v), b) = [status |-> "InterruptedExecution", command |-> Command(v), buffer |-> b]
         /\ Engine(Done(s), b) = [status |-> s, command |-> ReceiveBuffer, buffer |-> b]
BY DEF Interrupted, Done, Engine

LEMMA EngineFields ==
  ASSUME NEW s, NEW c, NEW b, NEW e, e = [status |-> s, command |-> c, buffer |-> b]
  PROVE  /\ e.status = s /\ e.command = c /\ e.buffer = b /\ e = Engine(e, e.buffer)
         /\ \A x : [e EXCEPT !.buffer = x] = [status |-> s, command |-> c, buffer |-> x]
BY DEF Engine

LEMMA NoEngineFields ==
  /\ NoEngine.status = "no engine" /\ NoEngine.buffer = NoBuffer /\ NoEngine.command = ReceiveBuffer
  /\ NoEngine = Engine(NoEngine, NoEngine.buffer)
BY DEF NoEngine, Engine

LEMMA NotRunningFields ==
  ASSUME NEW text
  PROVE  /\ Idle # NotRunning /\ Idle.at = "idle"
         /\ Panicking(text).at = text /\ (text # "none" => Panicking(text) # NotRunning)
         /\ NotRunning.at = "none"
BY DEF Idle, NotRunning, Panicking, At

LEMMA StartCases ==
  ASSUME NEW o \in StartOutcomes
  PROVE  \/ /\ o.engine = Engine(Interrupted(Idle), NoBuffer) /\ o.vapp = Idle /\ o.result = None
         \/ /\ o.engine = NoEngine /\ o.vapp = NotRunning
            /\ o.result = Failure("UnexpectedStatusWord")
<1>1. PICK a \in OnStartVApp :
        o = IF a.status \in {"OK", "InterruptedExecution"}
            THEN [engine |-> Engine(a, NoBuffer), vapp |-> a.vapp, result |-> None]
            ELSE [engine |-> NoEngine, vapp |-> a.vapp, result |-> Failure("UnexpectedStatusWord")]
  BY DEF StartOutcomes
<1>2. a = Interrupted(Idle) \/ a = Done("VMRuntimeError")
  BY DEF OnStartVApp
<1>3. Interrupted(Idle).status = "InterruptedExecution" /\ Done("VMRuntimeError").status = "VMRuntimeError"
  BY DEF Interrupted, Done
<1>4. CASE a = Interrupted(Idle)
  <2>1. o = [engine |-> Engine(a, NoBuffer), vapp |-> a.vapp, result |-> None]
    BY <1>1, <1>3, <1>4
  <2> QED
    BY <1>4, <2>1, Answers
<1>5. CASE a = Done("VMRuntimeError")
  <2>1. o = [engine |-> NoEngine, vapp |-> a.vapp, result |-> Failure("UnexpectedStatusWord")]
    BY <1>1, <1>3, <1>5
  <2> QED
    BY <1>5, <2>1, Answers
<1> QED
  BY <1>2, <1>4, <1>5

LEMMA OtherCommandCases ==
  ASSUME NEW a \in OnOtherCommand
  PROVE  a.vapp = NotRunning
BY DEF OnOtherCommand, Done

LEMMA AppInfoCases ==
  ASSUME NEW o \in AppInfoOutcomes
  PROVE  o.vapp = NotRunning /\ (o.result = None \/ o.result = Failure("AppInfoParsingError"))
<1>1. PICK a \in OnOtherCommand :
        o = [vapp |-> a.vapp, result |-> IF a.status = "OK" THEN None ELSE Failure("AppInfoParsingError")]
  BY DEF AppInfoOutcomes
<1> QED
  BY <1>1, OtherCommandCases

LEMMA StepCases ==
  ASSUME engine.status = "InterruptedExecution", NEW o \in StepOutcomes
  PROVE  \/ /\ engine.command.code = "SendBuffer"
            /\ \E a \in OnContinue(Nothing) : o.vapp = a.vapp /\ o.engine = Engine(a, engine.buffer)
         \/ /\ engine.command.code # "SendBuffer"
            /\ \E a \in OnContinue(IF engine.buffer = NoBuffer THEN Empty ELSE engine.buffer) :
                 o.vapp = a.vapp /\ o.engine = Engine(a, NoBuffer)
<1>1. CASE engine.command.code = "SendBuffer"
  <2>1. o \in Exchanged(Nothing, engine.buffer)
    BY <1>1 DEF StepOutcomes
  <2> QED
    BY <1>1, <2>1 DEF Exchanged
<1>2. CASE engine.command.code # "SendBuffer"
  <2>1. o \in Exchanged(IF engine.buffer = NoBuffer THEN Empty ELSE engine.buffer, NoBuffer)
    BY <1>2 DEF StepOutcomes
  <2> QED
    BY <1>2, <2>1 DEF Exchanged
<1> QED
  BY <1>1, <1>2

LEMMA ResultCases ==
  ASSUME engine.status = "InterruptedExecution", NEW data
  PROVE  /\ engine.command = ReceiveBuffer => StepResult = None
         /\ engine.command = SendBuffer("Print", data) => StepResult = None
         /\ engine.command = SendBuffer("Panic", data) => StepResult = Failure(data.text)
         /\ engine.command = SendBuffer("VAppMessage", data) => StepResult = Message(data)
BY DEF StepResult, ReceiveBuffer, SendBuffer

LEMMA ResultFields ==
  ASSUME NEW x
  PROVE  /\ None.kind = "none" /\ Failure(x).kind = "error" /\ Failure(x).why = x
         /\ Message(x).kind = "message" /\ Message(x).data = x
         /\ None # Failure(x) /\ None # Message(x)
         /\ NoCall.op = "none" /\ Other(x).op = x
BY DEF None, Failure, Message, NoCall, Other
LEMMA ServingFields ==
  ASSUME NEW p, NEW v, NEW q
  PROVE  /\ Serving(v, p) => v # NotRunning
         /\ Expects(v, p) => v # NotRunning
         /\ Replied(p) # NotRunning
         /\ PostOf(p) # NoBuffer
         /\ CallOf(p).op = "send" /\ CallOf(p) # NoCall
         /\ CallOf(p).req = p.req /\ CallOf(p).n = p.n
<1>1. Serving(v, p) => v # NotRunning
  BY AtFields DEF Serving, NotRunning
<1>2. Expects(v, p) => v # NotRunning
  BY AtFields DEF Expects, NotRunning, Idle
<1>3. Replied(p) # NotRunning
  BY AtFields DEF Replied, NotRunning, Idle
<1>4. PostOf(p) # NoBuffer
  BY DEF PostOf, RequestChunk, ACK, NoBuffer
<1>5. CallOf(p).op = "send" /\ CallOf(p).req = p.req /\ CallOf(p).n = p.n
  BY DEF CallOf, Request
<1>6. CallOf(p) # NoCall
  BY <1>5 DEF NoCall, Other
<1> QED
  BY <1>1, <1>2, <1>3, <1>4, <1>5, <1>6

\* The whole response, made from the whole request.
LEMMA WholeResponse ==
  ASSUME NEW p \in Talks
  PROVE  /\ Len(Replies(p, p.total)) = p.total
         /\ \A k \in 1 .. Len(Replies(p, p.total)) :
              Replies(p, p.total)[k] = ResponseChunk(WholeRequest(p.req, p.n), k, Len(Replies(p, p.total)))
<1>1. p.total \in Nat
  BY TalkFields
<1>2. Len(Replies(p, p.total)) = p.total
  BY <1>1, RepliesGrow
<1>3. WholeRequest(p.req, p.n) = Prefix(p, p.n)
  BY DEF WholeRequest, Prefix
<1> QED
  BY <1>2, <1>3 DEF Replies
LEMMA NewTalk ==
  ASSUME NEW r \in Requests, NEW n \in 1 .. MaxReqChunks
  PROVE  \E p \in Talks : /\ CallOf(p) = Request(r, n, 1, <<>>)
                          /\ PostOf(p) = RequestChunk(r, 1, n) /\ Expects(Idle, p)
<1> DEFINE p == [req |-> r, n |-> n, k |-> 1, total |-> 1, got |-> 0]
<1>1. p \in Talks /\ p.req = r /\ p.n = n /\ p.k = 1 /\ p.got = 0
  BY GuestCommAssumption DEF Talks
<1> HIDE DEF p
<1>2. Replies(p, 0) = <<>>
  BY DEF Replies
<1> QED
  BY <1>1, <1>2 DEF CallOf, PostOf, Expects
=============================================================================
