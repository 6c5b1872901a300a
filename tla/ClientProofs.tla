---------------------------- MODULE ClientProofs ----------------------------
(***************************************************************************)
(* Proofs about the asynchronous client, and about both clients as         *)
(* MCClients puts them side by side.                                       *)
(***************************************************************************)
EXTENDS MCClients, HostCommProofs

Places == {"idle", "more", "ackWait", "acking", "printing", "replying"} \cup PanicMessages

IsApp(v) == v = At(v.at, v.parts, v.sent, v.total) /\ v.at \in Places

Posts(q) == {q[i] : i \in DOMAIN q}

\* The queue of worker_loop, and what a "send" in it may carry.
QueueInv ==
  /\ queue \in Seq(Posts(queue))
  /\ \A m \in Posts(queue) : m.tag \in Nat /\ (m.op = "send" => m.data.kind \in {"ACK", "request"})

\* The V-App tells the host something that is for a call.
Speaks == engine.command # ReceiveBuffer /\ engine.command.type # "Panic"

\* What worker_loop relies on, whatever was given up.
WorkerInv ==
  /\ cancels \in Nat
  /\ QueueInv
  /\ vapp = NotRunning \/ IsApp(vapp)
  /\ engine = Engine(engine, engine.buffer)
  /\ engine.status = "no engine" => engine = NoEngine
  /\ engine.buffer = NoBuffer \/ engine.buffer.kind \in {"ACK", "request"}
  /\ engine.command = ReceiveBuffer \/ engine.command.code = "SendBuffer"
  /\ InLockstep
  /\ engine.status = "InterruptedExecution" /\ Speaks => engine.buffer = NoBuffer /\ pending # NoTag
  /\ NothingReplaced

\* A V-App that the engine can still talk to.
Alive == engine # NoEngine /\ vapp # NotRunning

Queued(op, data) == queue = <<[op |-> op, data |-> data, tag |-> 0]>>

\* A message of a request is on its way to the V-App, with the V-App, or answered.
Posted(p) ==
  /\ Queued("send", PostOf(p)) /\ pending = NoTag /\ mail = NoMail
  /\ Alive => Expects(vapp, p) \/ vapp = CommError

Waiting(p) ==
  /\ queue = <<>> /\ pending = 0 /\ mail = NoMail
  /\ Alive => \/ engine.buffer = PostOf(p) /\ (Expects(vapp, p) \/ vapp = CommError)
              \/ engine.buffer = NoBuffer /\ (Serving(vapp, p) \/ vapp = Panicking("handler failed"))

Answered(p) ==
  /\ queue = <<>> /\ pending = NoTag
  /\ \/ mail.kind = "error" /\ engine = NoEngine
     \/ /\ mail = Message(Reply(p))
        /\ Alive => vapp = Replied(p) \/ (vapp = CommError /\ Replied(p) # Idle)

\* Where a call is, as long as none was given up.
CallInv ==
  \/ /\ call = NoCall /\ queue = <<>> /\ pending = NoTag /\ mail = NoMail
     /\ Alive => vapp = Idle
  \/ \E op \in Calls :
       /\ call = Other(op) /\ pending = NoTag
       /\ \/ Queued(op, Empty) /\ mail = NoMail
          \/ queue = <<>> /\ mail.kind \in {"none", "error"}
       /\ Alive => vapp = Idle
  \/ \E p \in Talks : call = CallOf(p) /\ (Posted(p) \/ Waiting(p) \/ Answered(p))

\* An engine that the VM has taken the V-App from was about to receive.
CutInv == engine.status = "InterruptedExecution" /\ vapp = NotRunning => engine.command = ReceiveBuffer

AsyncInv ==
  /\ WorkerInv
  /\ AnswersMatch
  /\ cancels = 0 => CallInv /\ CutInv
-----------------------------------------------------------------------------
LEMMA SeqOfItsOwn ==
  ASSUME NEW S, NEW s \in Seq(S)
  PROVE  s \in Seq(Posts(s))
<1> DEFINE T == Posts(s)
<1>1. Len(s) \in Nat /\ DOMAIN s = 1 .. Len(s) /\ s \in [1 .. Len(s) -> S]
  OBVIOUS
<1>2. \A i \in 1 .. Len(s) : s[i] \in T
  BY <1>1 DEF Posts
<1> HIDE DEF T
<1>3. s \in [1 .. Len(s) -> T]
  BY <1>1, <1>2
<1>4. s \in Seq(T)
  BY <1>1, <1>3
<1> QED
  BY <1>4 DEF T

LEMMA AppendPost ==
  ASSUME NEW q, q \in Seq(Posts(q)), NEW m
  PROVE  Append(q, m) \in Seq(Posts(Append(q, m))) /\ Posts(Append(q, m)) = Posts(q) \cup {m}
<1> DEFINE S == Posts(q) \cup {m}
<1>1. q \in Seq(S) /\ m \in S
  OBVIOUS
<1>2. /\ Append(q, m) \in Seq(S) /\ Len(Append(q, m)) = Len(q) + 1
      /\ \A i \in 1 .. Len(q) : Append(q, m)[i] = q[i]
      /\ Append(q, m)[Len(q) + 1] = m
  BY <1>1, AppendProperties
<1>3. DOMAIN q = 1 .. Len(q) /\ DOMAIN Append(q, m) = 1 .. Len(q) + 1 /\ Len(q) \in Nat
  BY <1>1, <1>2
<1>4. \A i : i \in DOMAIN Append(q, m) <=> i \in DOMAIN q \/ i = Len(q) + 1
  BY <1>3
<1>5. \A i \in DOMAIN q : Append(q, m)[i] = q[i]
  BY <1>2, <1>3
<1>6. Posts(Append(q, m)) = S
  <2> HIDE DEF S
  <2>1. ASSUME NEW x \in Posts(Append(q, m)) PROVE x \in S
    BY <1>2, <1>4, <1>5 DEF Posts, S
  <2>2. ASSUME NEW x \in S PROVE x \in Posts(Append(q, m))
    BY <1>2, <1>4, <1>5 DEF Posts, S
  <2> QED
    BY <2>1, <2>2
<1> HIDE DEF S
<1>7. Append(q, m) \in Seq(Posts(Append(q, m)))
  BY <1>2, <1>6
<1> QED
  BY <1>6, <1>7 DEF S

LEMMA TailPost ==
  ASSUME NEW q, q \in Seq(Posts(q)), q # <<>>
  PROVE  /\ Head(q) \in Posts(q)
         /\ Tail(q) \in Seq(Posts(Tail(q))) /\ Posts(Tail(q)) \subseteq Posts(q)
<1> DEFINE S == Posts(q)
<1> HIDE DEF S
<1>1. q \in Seq(S)
  BY DEF S
<1>2. /\ Head(q) \in S /\ Tail(q) \in Seq(S) /\ Len(Tail(q)) = Len(q) - 1
      /\ \A i \in 1 .. Len(Tail(q)) : Tail(q)[i] = q[i + 1]
  BY <1>1, HeadTailProperties
<1>3. DOMAIN Tail(q) = 1 .. Len(Tail(q)) /\ Len(Tail(q)) \in Nat
  BY <1>2
<1>4. Tail(q) \in Seq(Posts(Tail(q)))
  BY <1>2, SeqOfItsOwn
<1>5. Posts(Tail(q)) \subseteq S
  <2>1. ASSUME NEW i \in 1 .. Len(Tail(q)) PROVE Tail(q)[i] \in S
    BY <1>2
  <2> QED
    BY <1>3, <2>1 DEF Posts
<1> QED
  BY <1>2, <1>4, <1>5 DEF S

LEMMA PostKeeps ==
  ASSUME WorkerInv, NEW op, NEW data, Post(op, data), op = "send" => data.kind \in {"ACK", "request"}
  PROVE  QueueInv'
<1> DEFINE m == [op |-> op, data |-> data, tag |-> cancels]
<1>1. queue' = Append(queue, m) /\ queue \in Seq(Posts(queue))
  BY DEF Post, WorkerInv, QueueInv
<1>2. m.tag \in Nat /\ (m.op = "send" => m.data.kind \in {"ACK", "request"})
  BY DEF WorkerInv
<1> HIDE DEF m
<1>3. queue' \in Seq(Posts(queue')) /\ Posts(queue') = Posts(queue) \cup {m}
  BY <1>1, AppendPost
<1> QED
  BY <1>2, <1>3 DEF QueueInv, WorkerInv

LEMMA PolledKeeps ==
  ASSUME WorkerInv, Polled
  PROVE  /\ QueueInv'
         /\ Head(queue).tag \in Nat
         /\ Head(queue).op = "send" => Head(queue).data.kind \in {"ACK", "request"}
<1>1. queue \in Seq(Posts(queue)) /\ queue # <<>> /\ queue' = Tail(queue)
  BY DEF Polled, WorkerInv, QueueInv
<1>2. /\ Head(queue) \in Posts(queue)
      /\ queue' \in Seq(Posts(queue')) /\ Posts(queue') \subseteq Posts(queue)
  BY <1>1, TailPost
<1> QED
  BY <1>2 DEF QueueInv, WorkerInv

\* What a step of the host's changes leaves the worker and its V-App alone.
LEMMA HostKeeps ==
  ASSUME WorkerInv, UNCHANGED <<vapp, engine, pending>>, cancels' \in Nat, QueueInv'
  PROVE  WorkerInv'
BY DEF WorkerInv, Speaks, InLockstep, NothingReplaced
-----------------------------------------------------------------------------
Speaking == {"acking", "printing", "replying"}

LEMMA AtIsApp ==
  ASSUME NEW a \in Places, NEW parts, NEW sent, NEW total
  PROVE  IsApp(At(a, parts, sent, total)) /\ At(a, parts, sent, total).at = a
BY DEF IsApp, At

LEMMA MovedIsApp ==
  ASSUME NEW v, IsApp(v), NEW a \in Places
  PROVE  IsApp([v EXCEPT !.at = a]) /\ [v EXCEPT !.at = a].at = a
<1>1. v = At(v.at, v.parts, v.sent, v.total)
  BY DEF IsApp
<1>2. [v EXCEPT !.at = a] = At(a, v.parts, v.sent, v.total)
  BY <1>1, AtMoved
<1> QED
  BY <1>2, AtIsApp

\* The V-App of an answer, and whether it speaks.
Shape(a, w) ==
  \/ \E s : s \notin {"no engine", "InterruptedExecution"} /\ a = Done(s)
  \/ a = Interrupted(a.vapp) /\ IsApp(a.vapp) /\ (a.vapp.at \in Speaking => w = "speaks")

LEMMA ShapeIntro ==
  ASSUME NEW v, IsApp(v), NEW w, v.at \in Speaking => w = "speaks"
  PROVE  Shape(Interrupted(v), w)
BY Answers DEF Shape

LEMMA FixedShapes ==
  ASSUME NEW w
  PROVE  Shape(Interrupted(Idle), w) /\ Shape(Interrupted(CommError), w)
         /\ Shape(Interrupted(Panicking("handler failed")), w)
         /\ Shape(Done("OK"), w) /\ Shape(Done("VAppPanic"), w) /\ Shape(Done("VMRuntimeError"), w)
         /\ Shape(Done("InsNotSupported"), w)
<1>1. "idle" \in Places /\ "communication error" \in Places /\ "handler failed" \in Places
  BY DEF Places, PanicMessages
<1>2. /\ IsApp(Idle) /\ Idle.at = "idle"
      /\ IsApp(CommError) /\ CommError.at = "communication error"
      /\ IsApp(Panicking("handler failed")) /\ Panicking("handler failed").at = "handler failed"
  BY ZenonT(40), <1>1, AtIsApp DEF Idle, CommError, Panicking
<1>3. \A s \in {"OK", "VAppPanic", "VMRuntimeError", "InsNotSupported"} : Shape(Done(s), w)
  BY DEF Shape
<1> QED
  BY <1>2, <1>3, ShapeIntro DEF Speaking

LEMMA HandleShape ==
  ASSUME NEW parts, NEW a \in Handle(parts)
  PROVE  Shape(a, "speaks")
<1>1. CASE a = Done("OK")
  BY <1>1, FixedShapes
<1>2. CASE a = Interrupted(Panicking("handler failed"))
  BY <1>2, FixedShapes
<1>3. CASE \E place \in {"printing", "replying"}, n \in 1 .. MaxRespChunks :
             a = Interrupted(At(place, parts, 1, n))
  <2>1. PICK place \in {"printing", "replying"}, n \in 1 .. MaxRespChunks :
          a = Interrupted(At(place, parts, 1, n))
    BY <1>3
  <2>2. place \in Places
    BY DEF Places
  <2>3. IsApp(At(place, parts, 1, n))
    BY <2>2, AtIsApp
  <2> QED
    BY <2>1, <2>3, ShapeIntro
<1> QED
  BY <1>1, <1>2, <1>3, HandleCases

LEMMA TookShape ==
  ASSUME NEW parts, NEW total, NEW a \in Took(parts, total)
  PROVE  Shape(a, "speaks")
<1>1. CASE a = Interrupted(At("acking", parts, 0, total))
  <2>1. "acking" \in Places
    BY DEF Places
  <2> QED
    BY <1>1, <2>1, AtIsApp, ShapeIntro
<1>2. CASE a \in Handle(parts)
  BY <1>2, HandleShape
<1> QED
  BY <1>1, <1>2 DEF Took

LEMMA ResumeShape ==
  ASSUME NEW v, IsApp(v), NEW data, data.kind \in {"empty", "nothing", "ACK", "request"}, NEW a \in Resume(v, data)
  PROVE  \E w : /\ Shape(a, w)
                /\ w = "speaks" <=> \/ v.at = "printing"
                                    \/ v.at \in {"idle", "more", "ackWait"} /\ data.kind \in {"ACK", "request"}
<1> PICK w : w = "speaks" <=> \/ v.at = "printing"
                              \/ v.at \in {"idle", "more", "ackWait"} /\ data.kind \in {"ACK", "request"}
  <2>1. "listens" # "speaks"
    OBVIOUS
  <2> QED
    BY <2>1
<1> SUFFICES Shape(a, w)
  OBVIOUS
<1>0. /\ "more" \in Places /\ "ackWait" \in Places /\ "replying" \in Places /\ "acking" \in Places
      /\ v.at \in Places
  BY DEF Places, IsApp
<1>1. CASE v.at = "idle"
  <2>1. a \in FirstChunk(data)
    BY <1>1, ResumeCases
  <2>2. CASE data.kind = "empty"
    <3>1. a = Interrupted(Idle) \/ a = Done("OK")
      <4>1. FirstChunk(data) = {Interrupted(Idle)} \cup IF VappMayStop THEN {Done("OK")} ELSE {}
        BY <2>2, ChunkCases, Zenon
      <4> QED
        BY <2>1, <4>1, GuestCommAssumption
    <3> QED
      BY <3>1, FixedShapes, Zenon
  <2>3. CASE data.kind = "ACK"
    <3>1. a = Interrupted(CommError)
      <4>1. FirstChunk(data) = {Interrupted(CommError)}
        BY <2>3, ChunkCases, Zenon
      <4> QED
        BY <2>1, <4>1, Zenon
    <3> QED
      BY <3>1, FixedShapes, Zenon
  <2>4. CASE data.kind = "request"
    <3>1. a \in Took(<<data>>, data.n)
      BY <2>1, <2>4, ChunkCases, Zenon
    <3>2. Shape(a, "speaks") /\ w = "speaks"
      BY <1>1, <2>4, <3>1, TookShape
    <3> QED
      BY <3>2 DEF Shape
  <2>5. CASE data.kind = "nothing"
    <3>1. a = Done("VMRuntimeError")
      BY <2>1, <2>5 DEF FirstChunk
    <3> QED
      BY <3>1, FixedShapes, Zenon
  <2> QED
    BY <2>2, <2>3, <2>4, <2>5
<1>2. CASE v.at = "acking"
  <2>1. a = Interrupted([v EXCEPT !.at = "more"])
    BY <1>2, ResumeCases
  <2> QED
    BY <1>0, <2>1, MovedIsApp, ShapeIntro DEF Speaking
<1>3. CASE v.at = "more"
  <2>1. a \in NextChunk(v, data)
    BY <1>3, ResumeCases
  <2>2. CASE data.kind = "empty"
    <3>1. a = Interrupted(v)
      BY <2>1, <2>2 DEF NextChunk
    <3> QED
      BY <1>3, <3>1, ShapeIntro DEF Speaking
  <2>3. CASE data.kind \in {"ACK", "request"}
    <3>1. a \in Took(Append(v.parts, data), v.total) \/ a \in Strange(v, data)
      BY <2>1, <2>3 DEF NextChunk
    <3>2. CASE a \in Took(Append(v.parts, data), v.total)
      <4>1. Shape(a, "speaks") /\ w = "speaks"
        BY <1>3, <2>3, <3>2, TookShape
      <4> QED
        BY <4>1 DEF Shape
    <3>3. CASE a \in Strange(v, data)
      <4>1. a = Interrupted(CommError) \/ a = Interrupted([v EXCEPT !.at = "acking"])
        BY <3>3 DEF Strange
      <4>2. IsApp([v EXCEPT !.at = "acking"]) /\ w = "speaks"
        BY <1>0, <1>3, <2>3, MovedIsApp
      <4> QED
        BY <4>1, <4>2, FixedShapes, ShapeIntro
    <3> QED
      BY <3>1, <3>2, <3>3
  <2>4. CASE data.kind = "nothing"
    <3>1. a = Done("VMRuntimeError")
      BY <2>1, <2>4 DEF NextChunk
    <3> QED
      BY <3>1, FixedShapes, Zenon
  <2> QED
    BY <2>2, <2>3, <2>4
<1>4. CASE v.at = "printing"
  <2>1. a = Interrupted([v EXCEPT !.at = "replying"])
    BY <1>4, ResumeCases
  <2> QED
    BY <1>0, <1>4, <2>1, MovedIsApp, ShapeIntro
<1>5. CASE v.at = "replying"
  <2>1. a = Interrupted([v EXCEPT !.at = "ackWait"]) \/ a = Interrupted(Idle)
    BY ZenonT(40), <1>5, ResumeCases
  <2>2. Shape(Interrupted([v EXCEPT !.at = "ackWait"]), w)
    BY <1>0, MovedIsApp, ShapeIntro DEF Speaking
  <2> QED
    BY <2>1, <2>2, FixedShapes, Zenon
<1>6. CASE v.at = "ackWait"
  <2>1. a \in AwaitAck(v, data)
    BY <1>6, ResumeCases
  <2>2. \/ data.kind = "ACK" /\ a = Interrupted(At("replying", v.parts, v.sent + 1, v.total))
        \/ a = Interrupted(CommError) \/ a = Done("VMRuntimeError")
    BY <2>1, ChunkCases
  <2>3. CASE data.kind = "ACK" /\ a = Interrupted(At("replying", v.parts, v.sent + 1, v.total))
    <3>1. IsApp(At("replying", v.parts, v.sent + 1, v.total)) /\ w = "speaks"
      BY <1>0, <1>6, <2>3, AtIsApp
    <3> QED
      BY <2>3, <3>1, ShapeIntro
  <2> QED
    BY <2>2, <2>3, FixedShapes, Zenon
<1>7. CASE v.at \in PanicMessages
  <2>1. Resume(v, data) = {Done("VAppPanic")}
    BY <1>7, ResumeCases, Zenon
  <2> QED
    BY <2>1, FixedShapes
<1> QED
  BY <1>0, <1>1, <1>2, <1>3, <1>4, <1>5, <1>6, <1>7 DEF Places
LEMMA StepShape ==
  ASSUME WorkerInv, engine # NoEngine, engine.status = "InterruptedExecution", NEW o \in StepOutcomes
  PROVE  \E a, b, w :
           /\ o.vapp = a.vapp /\ o.engine = Engine(a, b)
           /\ b = NoBuffer \/ (b = engine.buffer /\ engine.command # ReceiveBuffer)
           /\ Shape(a, w)
           /\ w = "speaks" => /\ engine.command = Command(vapp)
                              /\ \/ vapp.at = "printing"
                                 \/ vapp.at \in {"idle", "more", "ackWait"} /\ engine.buffer # NoBuffer
<1>1. ReceiveBuffer.code # "SendBuffer" /\ Empty.kind = "empty" /\ Nothing.kind = "nothing"
  BY DEF ReceiveBuffer, Empty, Nothing
<1>2. PICK data, a, b :
        /\ a \in OnContinue(data)
        /\ o.vapp = a.vapp /\ o.engine = Engine(a, b)
        /\ b = NoBuffer \/ (b = engine.buffer /\ engine.command # ReceiveBuffer)
        /\ data.kind \in {"empty", "nothing", "ACK", "request"}
        /\ data.kind \in {"ACK", "request"} => engine.buffer # NoBuffer
  <2>1. CASE engine.command.code = "SendBuffer"
    BY <1>1, <2>1, StepCases
  <2>2. CASE engine.command.code # "SendBuffer"
    <3> DEFINE data == IF engine.buffer = NoBuffer THEN Empty ELSE engine.buffer
    <3>1. /\ data.kind \in {"empty", "ACK", "request"}
          /\ data.kind \in {"ACK", "request"} => engine.buffer # NoBuffer
      BY <1>1 DEF WorkerInv
    <3>2. \E a \in OnContinue(data) : o.vapp = a.vapp /\ o.engine = Engine(a, NoBuffer)
      BY <2>2, StepCases
    <3> HIDE DEF data
    <3> QED
      BY <3>1, <3>2
  <2> QED
    BY <2>1, <2>2
<1>3. CASE vapp = NotRunning
  <2>1. a = Done("InsNotSupported")
    BY <1>2, <1>3 DEF OnContinue
  <2>2. PICK w : w = "listens"
    OBVIOUS
  <2>3. Shape(a, w) /\ w # "speaks"
    BY <2>1, <2>2, FixedShapes
  <2> QED
    BY <1>2, <2>3, Zenon
<1>4. CASE vapp # NotRunning
  <2>1. IsApp(vapp) /\ engine.command = Command(vapp) /\ a \in Resume(vapp, data)
    BY <1>2, <1>4 DEF WorkerInv, InLockstep, OnContinue
  <2>2. PICK v : v = vapp
    OBVIOUS
  <2>3. PICK w : /\ Shape(a, w)
                 /\ w = "speaks" <=> \/ v.at = "printing"
                                     \/ v.at \in {"idle", "more", "ackWait"} /\ data.kind \in {"ACK", "request"}
    <3>1. IsApp(v) /\ data.kind \in {"empty", "nothing", "ACK", "request"} /\ a \in Resume(v, data)
      BY <1>2, <2>1, <2>2
    <3> QED
      BY <3>1, ResumeShape
  <2>4. w = "speaks" => \/ vapp.at = "printing"
                        \/ vapp.at \in {"idle", "more", "ackWait"} /\ engine.buffer # NoBuffer
    BY <1>2, <2>2, <2>3
  <2> QED
    BY <1>2, <2>1, <2>3, <2>4, Zenon
<1> QED
  BY <1>3, <1>4

\* What a running V-App makes the engine say.
LEMMA SpeakCases ==
  ASSUME NEW v, IsApp(v)
  PROVE  /\ v.at \in Speaking \/ Command(v) = ReceiveBuffer \/ Command(v).type = "Panic"
         /\ v.at \in Speaking => Command(v) # ReceiveBuffer /\ Command(v).type # "Panic"
         /\ v.at = "printing" => Command(v).type = "Print" /\ Command(v) = SendBuffer("Print", Empty)
         /\ Command(v) = ReceiveBuffer \/ Command(v).code = "SendBuffer"
<1>1. \A t, d : SendBuffer(t, d).type = t /\ SendBuffer(t, d).code = "SendBuffer" /\ SendBuffer(t, d) # ReceiveBuffer
  BY DEF SendBuffer, ReceiveBuffer
<1>2. v.at \in Places
  BY DEF IsApp
<1>3. CASE v.at \in {"idle", "more", "ackWait"}
  BY <1>3, CommandCases DEF Speaking
<1>4. CASE v.at = "acking"
  <2>1. Command(v) = SendBuffer("VAppMessage", ACK)
    BY <1>4, CommandCases, Zenon
  <2> QED
    BY <1>1, <1>4, <2>1 DEF Speaking
<1>5. CASE v.at = "printing"
  <2>1. Command(v) = SendBuffer("Print", Empty)
    BY <1>5, CommandCases, Zenon
  <2> QED
    BY <1>1, <1>5, <2>1 DEF Speaking
<1>6. CASE v.at = "replying"
  <2>1. Command(v) = SendBuffer("VAppMessage", ResponseChunk(v.parts, v.sent, v.total))
    BY <1>6, CommandCases, Zenon
  <2> QED
    BY <1>1, <1>6, <2>1 DEF Speaking
<1>7. CASE v.at \in PanicMessages
  <2>1. Command(v) = SendBuffer("Panic", [kind |-> "panic", text |-> v.at])
    BY <1>7, CommandCases, Zenon
  <2>2. Command(v).type = "Panic" /\ Command(v).code = "SendBuffer"
    BY <2>1 DEF SendBuffer
  <2>3. v.at \notin Speaking /\ v.at # "printing"
    BY <1>7 DEF Speaking, PanicMessages
  <2> QED
    BY <2>2, <2>3
<1> QED
  BY <1>2, <1>3, <1>4, <1>5, <1>6, <1>7 DEF Places
LEMMA StepWorker ==
  ASSUME WorkerInv, StepEngine
  PROVE  WorkerInv'
<1>1. PICK o \in StepOutcomes :
        vapp' = o.vapp /\ engine' = IF StepResult.kind = "error" THEN NoEngine ELSE o.engine
  BY DEF StepEngine
<1>2. /\ engine # NoEngine /\ cancels' = cancels /\ queue' = queue /\ QueueInv /\ cancels \in Nat
      /\ (StepResult = None => pending' = pending)
  BY DEF StepEngine, WorkerInv, AnswerPending
<1>3. QueueInv' /\ cancels' \in Nat
  BY <1>2 DEF QueueInv
<1>4. CASE engine.status # "InterruptedExecution"
  <2>1. StepResult.kind = "error" /\ vapp' = vapp
    BY <1>1, <1>4, ResultFields DEF StepResult, StepOutcomes
  <2>2. engine' = NoEngine
    BY <1>1, <2>1
  <2> QED
    BY <1>3, <2>1, <2>2, NoEngineFields DEF WorkerInv, InLockstep, NothingReplaced, Speaks
<1>5. CASE engine.status = "InterruptedExecution"
  <2>1. PICK a, b, w :
           /\ o.vapp = a.vapp /\ o.engine = Engine(a, b)
           /\ b = NoBuffer \/ (b = engine.buffer /\ engine.command # ReceiveBuffer)
           /\ Shape(a, w)
           /\ w = "speaks" => /\ engine.command = Command(vapp)
                              /\ \/ vapp.at = "printing"
                                 \/ vapp.at \in {"idle", "more", "ackWait"} /\ engine.buffer # NoBuffer
    BY <1>2, <1>5, StepShape
  <2>2. vapp' = NotRunning \/ IsApp(vapp')
    BY <1>1, <2>1, Answers DEF Shape
  <2>3. CASE StepResult.kind = "error"
    BY <1>1, <1>3, <2>2, <2>3, NoEngineFields DEF WorkerInv, InLockstep, NothingReplaced, Speaks
  <2>4. CASE StepResult.kind # "error"
    <3>1. engine' = Engine(a, b) /\ vapp' = a.vapp
      BY <1>1, <2>1, <2>4
    <3>2. StepResult = None \/ Speaks
      BY <1>5, <2>4, ResultFields DEF StepResult, Speaks, ReceiveBuffer
    <3>3. b # NoBuffer => b = engine.buffer /\ StepResult = None /\ pending' # NoTag
      BY <1>2, <1>5, <2>1, <3>2 DEF WorkerInv, NothingReplaced
    <3>4. b = NoBuffer \/ b.kind \in {"ACK", "request"}
      BY <2>1 DEF WorkerInv
    <3>5. CASE \E s : s \notin {"no engine", "InterruptedExecution"} /\ a = Done(s)
      <4>1. PICK s : s \notin {"no engine", "InterruptedExecution"} /\ a = Done(s)
        BY <3>5
      <4>2. engine' = [status |-> s, command |-> ReceiveBuffer, buffer |-> b] /\ vapp' = NotRunning
        BY <3>1, <4>1, Answers
      <4>3. /\ engine'.status = s /\ engine'.command = ReceiveBuffer /\ engine'.buffer = b
            /\ engine' = Engine(engine', engine'.buffer)
        BY <4>2, EngineFields
      <4> QED
        BY <1>3, <3>3, <3>4, <4>1, <4>2, <4>3 DEF WorkerInv, InLockstep, NothingReplaced, Speaks
    <3>6. CASE a = Interrupted(a.vapp) /\ IsApp(a.vapp) /\ (a.vapp.at \in Speaking => w = "speaks")
      <4>1. engine' = [status |-> "InterruptedExecution", command |-> Command(vapp'), buffer |-> b]
        BY <3>1, <3>6, Answers
      <4>2. /\ engine'.status = "InterruptedExecution" /\ engine'.command = Command(vapp') /\ engine'.buffer = b
            /\ engine' = Engine(engine', engine'.buffer)
        BY <4>1, EngineFields
      <4>3. ASSUME Speaks' PROVE b = NoBuffer /\ pending' # NoTag
        <5>1. vapp'.at \in Speaking /\ w = "speaks"
          BY <3>1, <3>6, <4>2, <4>3, SpeakCases DEF Speaks
        <5>2. CASE vapp.at = "printing"
          <6>1. engine.command = SendBuffer("Print", Empty)
            BY <2>1, <5>1, <5>2, CommandCases
          <6>2. StepResult = None
            BY <1>5, <6>1, ResultCases
          <6>3. Speaks
            BY <6>1 DEF Speaks, SendBuffer, ReceiveBuffer
          <6> QED
            BY <1>2, <1>5, <3>3, <6>2, <6>3 DEF WorkerInv
        <5>3. CASE vapp.at \in {"idle", "more", "ackWait"} /\ engine.buffer # NoBuffer
          <6>1. engine.command = ReceiveBuffer
            BY <2>1, <5>1, <5>3, CommandCases
          <6>2. StepResult = None /\ b = NoBuffer
            BY <1>5, <2>1, <6>1, ResultCases
          <6> QED
            BY <1>2, <5>3, <6>2 DEF WorkerInv, NothingReplaced
        <5> QED
          BY <2>1, <5>1, <5>2, <5>3
      <4>4. engine'.command = ReceiveBuffer \/ engine'.command.code = "SendBuffer"
        BY <3>1, <3>6, <4>2, SpeakCases
      <4>5. IsApp(vapp')
        BY <3>1, <3>6
      <4>6. NothingReplaced'
        BY <3>3, <4>2 DEF NothingReplaced
      <4> QED
        BY <1>3, <3>4, <4>2, <4>3, <4>4, <4>5, <4>6 DEF WorkerInv, InLockstep
    <3> QED
      BY <2>1, <3>5, <3>6 DEF Shape
  <2> QED
    BY <2>3, <2>4
<1> QED
  BY <1>4, <1>5
LEMMA WorkerInit == Init => WorkerInv
<1> SUFFICES ASSUME Init PROVE WorkerInv
  OBVIOUS
<1>1. engine = NoEngine /\ vapp = NotRunning /\ queue = <<>> /\ cancels = 0
  BY DEF Init, EngineInit, HostInit
<1>2. QueueInv
  BY <1>1 DEF QueueInv, Posts
<1> QED
  BY <1>1, <1>2, NoEngineFields DEF WorkerInv, InLockstep, NothingReplaced, Speaks

\* The VM has lost its V-App to another command.
LEMMA LostWorker ==
  ASSUME WorkerInv, vapp' = NotRunning, UNCHANGED <<engine, pending, cancels>>, QueueInv'
  PROVE  WorkerInv'
BY DEF WorkerInv, Speaks, InLockstep, NothingReplaced

LEMMA PollSendWorker ==
  ASSUME WorkerInv, PollSend
  PROVE  WorkerInv'
<1> DEFINE msg == Head(queue)
<1>1. QueueInv' /\ msg.tag \in Nat /\ msg.data.kind \in {"ACK", "request"}
  BY PolledKeeps DEF PollSend
<1>2. UNCHANGED <<vapp, cancels>> /\ cancels \in Nat
  BY DEF PollSend, WorkerInv
<1>3. CASE UNCHANGED <<engine, pending>>
  BY <1>1, <1>2, <1>3, HostKeeps
<1>4. CASE /\ pending = NoTag /\ engine # NoEngine
           /\ engine' = [engine EXCEPT !.buffer = msg.data] /\ pending' = msg.tag
  <2> HIDE DEF msg
  <2>1. engine = [status |-> engine.status, command |-> engine.command, buffer |-> engine.buffer]
    BY DEF WorkerInv, Engine
  <2>2. engine' = [status |-> engine.status, command |-> engine.command, buffer |-> msg.data]
    BY <1>4, <2>1, EngineFields
  <2>3. /\ engine'.status = engine.status /\ engine'.command = engine.command
        /\ engine'.buffer = msg.data /\ engine' = Engine(engine', engine'.buffer)
    BY <2>2, EngineFields
  <2>4. pending' # NoTag
    BY <1>1, <1>4, NoTagAssumption
  <2>5. engine.status # "no engine"
    BY <1>4 DEF WorkerInv
  <2>6. engine.status = "InterruptedExecution" => ~Speaks
    BY <1>4 DEF WorkerInv
  <2>7. engine' # NoEngine
    BY <2>3, <2>5, NoEngineFields
  <2>8. InLockstep'
    BY <1>2, <1>4, <2>3 DEF WorkerInv, InLockstep
  <2>9. Speaks' <=> Speaks
    BY <2>3 DEF Speaks
  <2>10. engine'.status # "no engine" /\ NothingReplaced'
    BY <2>3, <2>4, <2>5 DEF NothingReplaced
  <2>11. vapp' = NotRunning \/ IsApp(vapp')
    BY <1>2 DEF WorkerInv
  <2> QED
    BY <1>1, <1>2, <2>3, <2>6, <2>8, <2>9, <2>10, <2>11 DEF WorkerInv
<1> QED
  BY <1>3, <1>4 DEF PollSend

LEMMA PollStartWorker ==
  ASSUME WorkerInv, PollStart
  PROVE  WorkerInv'
<1>1. QueueInv' /\ UNCHANGED <<pending, cancels>> /\ cancels \in Nat
  BY PolledKeeps DEF PollStart, WorkerInv
<1>2. CASE engine # NoEngine
  BY <1>1, <1>2, HostKeeps DEF PollStart
<1>3. CASE engine = NoEngine
  <2>1. PICK o \in StartOutcomes : engine' = o.engine /\ vapp' = o.vapp
    BY <1>3 DEF PollStart
  <2>2. CASE o.engine = NoEngine /\ o.vapp = NotRunning
    BY <1>1, <2>1, <2>2, NoEngineFields DEF WorkerInv, InLockstep, NothingReplaced, Speaks
  <2>3. CASE o.engine = Engine(Interrupted(Idle), NoBuffer) /\ o.vapp = Idle
    <3>1. engine' = [status |-> "InterruptedExecution", command |-> Command(Idle), buffer |-> NoBuffer]
      BY <2>1, <2>3, Answers
    <3>2. /\ engine'.status = "InterruptedExecution" /\ engine'.command = Command(Idle) /\ engine'.buffer = NoBuffer
          /\ engine' = Engine(engine', engine'.buffer)
      BY <3>1, EngineFields
    <3>3. "idle" \in Places /\ Idle.at = "idle"
      BY NotRunningFields DEF Places
    <3>4. Command(Idle) = ReceiveBuffer /\ IsApp(Idle)
      BY <3>3, CommandCases, AtIsApp DEF Idle
    <3> QED
      BY <1>1, <2>1, <2>3, <3>2, <3>4 DEF WorkerInv, InLockstep, NothingReplaced, Speaks
  <2> QED
    BY <2>2, <2>3, StartCases
<1> QED
  BY <1>2, <1>3

LEMMA PollStopWorker ==
  ASSUME WorkerInv, PollStop
  PROVE  WorkerInv'
<1>1. QueueInv' /\ UNCHANGED <<vapp, cancels>> /\ engine' = NoEngine
  BY PolledKeeps DEF PollStop
<1> QED
  BY <1>1, NoEngineFields DEF WorkerInv, InLockstep, NothingReplaced, Speaks

LEMMA ReceivePosts ==
  ASSUME Receive, After(mail).call # NoCall
  PROVE  After(mail).post.kind \in {"ACK", "request"}
<1>1. \A c, d : Continue(c, d).post = d
  BY DEF Continue
<1>2. \A r : Return(r).call = NoCall
  BY DEF Return
<1>3. After(mail) = AfterMessage(mail.data)
  BY <1>2 DEF After
<1>4. \E c, d : AfterMessage(mail.data) = Continue(c, d) /\ d.kind \in {"ACK", "request"}
  BY <1>2, <1>3, ChunkFields DEF AfterMessage, OnResponse
<1> QED
  BY <1>1, <1>3, <1>4

LEMMA WorkerNext ==
  ASSUME WorkerInv, Next
  PROVE  WorkerInv'
<1>1. QueueInv /\ cancels \in Nat
  BY DEF WorkerInv
<1>2. ASSUME NEW op \in Calls \ {"metrics"}, Call(op) PROVE WorkerInv'
  <2>1. op # "send"
    BY HostCommAssumption
  <2> QED
    BY <1>1, <1>2, <2>1, PostKeeps, HostKeeps DEF Call
<1>3. ASSUME NEW r \in Requests, NEW n \in 1 .. MaxReqChunks, SendRequest(r, n) PROVE WorkerInv'
  BY <1>1, <1>3, PostKeeps, HostKeeps, ChunkFields DEF SendRequest
<1>4. CASE GetMetricsMeanwhile
  <2>1. vapp' = NotRunning /\ UNCHANGED <<engine, queue, pending, cancels>>
    BY <1>4, OtherCommandCases DEF GetMetricsMeanwhile, GetMetrics, Immediate
  <2> QED
    BY <1>1, <2>1, LostWorker DEF QueueInv
<1>5. CASE Receive
  <2>1. UNCHANGED <<vapp, engine, pending, cancels>>
    BY <1>5 DEF Receive
  <2>2. CASE After(mail).call = NoCall
    BY <1>1, <1>5, <2>1, <2>2, HostKeeps DEF Receive, QueueInv
  <2>3. CASE After(mail).call # NoCall
    <3>1. QueueInv'
      BY <1>5, <2>3, ReceivePosts, PostKeeps DEF Receive
    <3> QED
      BY <1>1, <2>1, <3>1, HostKeeps
  <2> QED
    BY <2>2, <2>3
<1>6. CASE GiveUp
  BY <1>1, <1>6, HostKeeps DEF GiveUp, QueueInv
<1>7. CASE PollNothing \/ StepNothing
  BY <1>1, <1>7, HostKeeps DEF PollNothing, StepNothing, hostVars, QueueInv
<1>8. CASE PollInfo
  <2>1. vapp' = NotRunning /\ UNCHANGED <<engine, pending, cancels>>
    BY <1>8, AppInfoCases DEF PollInfo
  <2> QED
    BY <1>8, <2>1, PolledKeeps, LostWorker DEF PollInfo
<1> QED
  BY <1>2, <1>3, <1>4, <1>5, <1>6, <1>7, <1>8, PollSendWorker, PollStartWorker, PollStopWorker,
     StepWorker DEF Next, Work, Poll
-----------------------------------------------------------------------------
(* The calls, as long as none is given up.                                     *)
Idling == Alive => vapp = Idle

LEMMA CallFields ==
  ASSUME NEW op \in Calls, NEW p
  PROVE  /\ Other(op).op = op /\ op # "send" /\ op # "none" /\ Other(op) # NoCall /\ Other(op) # CallOf(p)
         /\ CallOf(p) # NoCall /\ CallOf(p).op = "send"
         /\ NoMail.kind = "no mail"
BY HostCommAssumption, ServingFields, ResultFields DEF NoMail

LEMMA HeadOfOne ==
  ASSUME NEW op, NEW data, Queued(op, data)
  PROVE  /\ queue # <<>> /\ Tail(queue) = <<>>
         /\ Head(queue).op = op /\ Head(queue).data = data /\ Head(queue).tag = 0
<1> DEFINE m == [op |-> op, data |-> data, tag |-> 0]
<1>1. m.op = op /\ m.data = data /\ m.tag = 0
  OBVIOUS
<1> HIDE DEF m
<1>2. queue = <<m>>
  BY DEF Queued, m
<1>3. queue # <<>> /\ Tail(queue) = <<>> /\ Head(queue) = m
  BY <1>2
<1> QED
  BY <1>1, <1>3

LEMMA PostOne ==
  ASSUME NEW op, NEW data, Post(op, data), queue = <<>>, cancels = 0
  PROVE  Queued(op, data)'
<1>1. PICK m : m = [op |-> op, data |-> data, tag |-> 0]
  OBVIOUS
<1>2. queue' = Append(queue, m)
  BY <1>1 DEF Post
<1>3. queue' = <<m>>
  BY <1>2
<1> QED
  BY <1>1, <1>3 DEF Queued

\* Which call it is that waits in the queue, or has an answer.
LEMMA QueuedCall ==
  ASSUME CallInv, queue # <<>>
  PROVE  \/ /\ \E op \in Calls : call = Other(op) /\ Queued(op, Empty)
            /\ pending = NoTag /\ mail = NoMail /\ Idling
         \/ \E p \in Talks : call = CallOf(p) /\ Posted(p)
BY DEF CallInv, Waiting, Answered, Idling

LEMMA AnsweredCall ==
  ASSUME CallInv, mail # NoMail
  PROVE  \/ /\ \E op \in Calls : call = Other(op)
            /\ queue = <<>> /\ pending = NoTag /\ mail.kind \in {"none", "error"} /\ Idling
         \/ \E p \in Talks : call = CallOf(p) /\ Answered(p)
BY DEF CallInv, Waiting, Posted, Idling

\* A result that is not a message answers no request.
LEMMA OutcomeKeeps ==
  ASSUME outcome'.result.kind # "message"
  PROVE  AnswersMatch'
BY DEF AnswersMatch

LEMMA SameOutcome ==
  ASSUME AnswersMatch, UNCHANGED <<outcome, cancels>>
  PROVE  AnswersMatch'
BY DEF AnswersMatch

LEMMA ReceiveCalls ==
  ASSUME CallInv, CutInv, AnswersMatch, Receive, cancels = 0
  PROVE  CallInv' /\ AnswersMatch' /\ CutInv'
<1>1. /\ mail # NoMail /\ mail' = NoMail /\ UNCHANGED <<vapp, engine, pending, cancels>>
      /\ call' = After(mail).call
      /\ After(mail).call = NoCall => outcome' = Returned(After(mail).result) /\ queue' = queue
      /\ After(mail).call # NoCall => Post("send", After(mail).post) /\ outcome' = outcome
  BY DEF Receive
<1>2. CutInv' /\ (Alive' <=> Alive)
  BY <1>1 DEF CutInv, Alive
<1>3. \A r : Return(r).call = NoCall /\ Return(r).result = r /\ (r.kind = "message" <=> Return(r).result.kind = "message")
  BY DEF Return
<1>4. ASSUME mail.kind # "message", queue = <<>>, pending = NoTag, Idling
      PROVE  CallInv' /\ AnswersMatch'
  <2>1. After(mail).call = NoCall /\ After(mail).result = mail
    BY <1>3, <1>4 DEF After
  <2>2. outcome' = Returned(mail) /\ queue' = <<>> /\ call' = NoCall
    BY <1>1, <1>4, <2>1
  <2>3. outcome'.result = mail
    BY <2>2 DEF Returned
  <2>4. AnswersMatch'
    BY <1>4, <2>3, OutcomeKeeps
  <2> QED
    BY <1>1, <1>2, <1>4, <2>2, <2>4 DEF CallInv, Idling
<1>5. ASSUME NEW p \in Talks, call = CallOf(p), Answered(p), mail = Message(Reply(p))
      PROVE  CallInv' /\ AnswersMatch'
  <2> DEFINE next == After(Message(Reply(p)))
  <2>1. /\ queue = <<>> /\ pending = NoTag
        /\ Alive => vapp = Replied(p) \/ (vapp = CommError /\ Replied(p) # Idle)
    BY <1>5, ResultFields DEF Answered
  <2>2. CASE \E q \in Talks : next = Continue(CallOf(q), PostOf(q)) /\ Expects(Replied(p), q)
    <3>1. PICK q \in Talks : next = Continue(CallOf(q), PostOf(q)) /\ Expects(Replied(p), q)
      BY <2>2
    <3>2. next.call = CallOf(q) /\ next.post = PostOf(q)
      BY <3>1 DEF Continue
    <3>3. next.call # NoCall
      BY <3>2, ServingFields
    <3>4. call' = CallOf(q) /\ Post("send", PostOf(q)) /\ outcome' = outcome
      BY <1>1, <1>5, <3>2, <3>3
    <3>5. Queued("send", PostOf(q))'
      BY <2>1, <3>4, PostOne
    <3>6. Posted(q)'
      BY <1>1, <1>2, <2>1, <3>1, <3>5 DEF Posted, Queued
    <3>7. AnswersMatch'
      BY <1>1, <3>4, SameOutcome
    <3> QED
      BY <3>4, <3>6, <3>7 DEF CallInv
  <2>3. CASE next = Return(Message(Replies(p, p.total))) /\ p.k = p.n /\ Replied(p) = Idle
    <3>1. next.call = NoCall /\ next.result = Message(Replies(p, p.total))
      BY <1>3, <2>3
    <3>2. call' = NoCall /\ outcome' = Returned(Message(Replies(p, p.total))) /\ queue' = <<>>
      BY <1>1, <1>5, <2>1, <3>1
    <3>3. outcome'.call = CallOf(p) /\ outcome'.result = Message(Replies(p, p.total))
      BY <1>5, <3>2 DEF Returned
    <3>4. outcome'.result.kind = "message" /\ outcome'.result.data = Replies(p, p.total)
      BY <3>3, ResultFields
    <3>5. outcome'.call.req = p.req /\ outcome'.call.n = p.n
      BY <3>3, ServingFields
    <3>6. AnswersMatch'
      BY <3>4, <3>5, WholeResponse DEF AnswersMatch
    <3>7. Alive => vapp = Idle
      BY <2>1, <2>3
    <3> QED
      BY <1>1, <1>2, <2>1, <3>2, <3>6, <3>7 DEF CallInv
  <2> QED
    BY <1>5, <2>2, <2>3, AfterReply, Zenon
<1>6. ASSUME NEW p \in Talks, Answered(p), mail.kind = "error", mail # Message(Reply(p))
      PROVE  mail.kind # "message" /\ queue = <<>> /\ pending = NoTag /\ Idling
  BY <1>6 DEF Answered, Idling, Alive
<1>7. ASSUME NEW p \in Talks, Answered(p) PROVE mail.kind = "error" \/ mail = Message(Reply(p))
  BY <1>7 DEF Answered
<1> QED
  BY <1>1, <1>2, <1>4, <1>5, <1>6, <1>7, AnsweredCall
LEMMA NoCallCalls ==
  ASSUME CallInv, call = NoCall
  PROVE  queue = <<>> /\ pending = NoTag /\ mail = NoMail /\ Idling
<1>1. ASSUME NEW op \in Calls PROVE call # Other(op)
  BY CallFields
<1>2. ASSUME NEW p \in Talks PROVE call # CallOf(p)
  BY ServingFields
<1> QED
  BY <1>1, <1>2 DEF CallInv, Idling

LEMMA CallCalls ==
  ASSUME CallInv, CutInv, AnswersMatch, cancels = 0, NEW op \in Calls, Call(op)
  PROVE  CallInv' /\ AnswersMatch' /\ CutInv'
<1>1. queue = <<>> /\ pending = NoTag /\ mail = NoMail /\ Idling
  BY NoCallCalls DEF Call
<1>2. call' = Other(op) /\ Post(op, Empty) /\ UNCHANGED <<vapp, engine, mail, outcome, cancels, pending>>
  BY DEF Call
<1>3. Queued(op, Empty)'
  BY <1>1, <1>2, PostOne
<1>4. CallInv'
  BY <1>1, <1>2, <1>3 DEF CallInv, Idling, Alive, Queued
<1>5. AnswersMatch' /\ CutInv'
  BY <1>2, SameOutcome DEF CutInv
<1> QED
  BY <1>4, <1>5

LEMMA SendCalls ==
  ASSUME CallInv, CutInv, AnswersMatch, cancels = 0,
         NEW r \in Requests, NEW n \in 1 .. MaxReqChunks, SendRequest(r, n)
  PROVE  CallInv' /\ AnswersMatch' /\ CutInv'
<1>1. queue = <<>> /\ pending = NoTag /\ mail = NoMail /\ Idling
  BY NoCallCalls DEF SendRequest
<1>2. /\ call' = Request(r, n, 1, <<>>) /\ Post("send", RequestChunk(r, 1, n))
      /\ UNCHANGED <<vapp, engine, mail, outcome, cancels, pending>>
  BY DEF SendRequest
<1>3. PICK p \in Talks : /\ CallOf(p) = Request(r, n, 1, <<>>)
                         /\ PostOf(p) = RequestChunk(r, 1, n) /\ Expects(Idle, p)
  BY NewTalk
<1>4. Queued("send", PostOf(p))'
  BY <1>1, <1>2, <1>3, PostOne
<1>5. Posted(p)'
  BY <1>1, <1>2, <1>3, <1>4 DEF Posted, Queued, Idling, Alive
<1>6. CallInv'
  BY <1>2, <1>3, <1>5 DEF CallInv
<1>7. AnswersMatch' /\ CutInv'
  BY <1>2, SameOutcome DEF CutInv
<1> QED
  BY <1>6, <1>7

\* The V-App that another command takes away was idle.
LEMMA CutIdle ==
  ASSUME WorkerInv, CutInv, Idling, engine' = engine, vapp' = NotRunning
  PROVE  CutInv' /\ ~Alive'
<1>1. NoEngine.status # "InterruptedExecution" /\ Command(Idle) = ReceiveBuffer
  BY NoEngineFields, NotRunningFields, CommandCases
<1> QED
  BY <1>1 DEF WorkerInv, CutInv, Idling, Alive, InLockstep

LEMMA MetricsCalls ==
  ASSUME WorkerInv, CallInv, CutInv, AnswersMatch, GetMetricsMeanwhile
  PROVE  CallInv' /\ AnswersMatch' /\ CutInv'
<1>1. PICK answer \in OnOtherCommand, result \in MetricsResults :
        Immediate("metrics", result) /\ vapp' = answer.vapp /\ UNCHANGED engine
  BY DEF GetMetricsMeanwhile, GetMetrics
<1>2. /\ call = NoCall /\ call' = NoCall /\ mail' = mail /\ UNCHANGED <<queue, pending, cancels>>
      /\ outcome' = [call |-> Other("metrics"), result |-> result] /\ vapp' = NotRunning
  BY <1>1, OtherCommandCases DEF Immediate, GetMetricsMeanwhile
<1>3. queue = <<>> /\ pending = NoTag /\ mail = NoMail /\ Idling
  BY <1>2, NoCallCalls
<1>4. result.kind # "message" /\ outcome'.result = result
  BY <1>2, ResultFields DEF MetricsResults
<1>5. AnswersMatch' /\ CutInv' /\ ~Alive'
  BY <1>1, <1>2, <1>3, <1>4, OutcomeKeeps, CutIdle
<1> QED
  BY <1>2, <1>3, <1>5 DEF CallInv

-----------------------------------------------------------------------------
\* A call that the worker answers in the turn in which it takes it.
LEMMA AnsweredInTurn ==
  ASSUME CallInv, CutInv', Idling', AnswersMatch, cancels = 0, Polled, Head(queue).op # "send",
         NEW result, result.kind \in {"none", "error"}, Answer(Head(queue).tag, result),
         pending' = NoTag, UNCHANGED <<call, outcome, cancels>>
  PROVE  CallInv' /\ AnswersMatch' /\ CutInv'
<1>1. queue # <<>> /\ queue' = Tail(queue)
  BY DEF Polled
<1>2. PICK op \in Calls : call = Other(op) /\ Queued(op, Empty)
  <2>1. ASSUME NEW p PROVE ~Posted(p)
    BY HeadOfOne DEF Posted
  <2> QED
    BY <1>1, <2>1, QueuedCall
<1>3. Head(queue).tag = 0 /\ queue' = <<>>
  BY <1>1, <1>2, HeadOfOne
<1>4. call # NoCall
  BY <1>2, CallFields
<1>5. mail' = result
  BY <1>3, <1>4 DEF Answer
<1>6. AnswersMatch'
  BY SameOutcome
<1> QED
  BY <1>2, <1>3, <1>5, <1>6 DEF CallInv, Idling

LEMMA QueuedIdles ==
  ASSUME CallInv, Polled, Head(queue).op # "send"
  PROVE  Idling /\ pending = NoTag
<1>1. queue # <<>>
  BY DEF Polled
<1>2. ASSUME NEW p PROVE ~Posted(p)
  BY HeadOfOne DEF Posted
<1> QED
  BY <1>1, <1>2, QueuedCall

LEMMA PollStartCalls ==
  ASSUME WorkerInv, CallInv, CutInv, AnswersMatch, cancels = 0, PollStart
  PROVE  CallInv' /\ AnswersMatch' /\ CutInv'
<1>1. Polled /\ Head(queue).op # "send" /\ UNCHANGED <<call, outcome, cancels, pending>>
  BY DEF PollStart
<1>2. Idling /\ pending = NoTag
  BY <1>1, QueuedIdles
<1>3. CASE engine # NoEngine
  <2>1. Answer(Head(queue).tag, Failure("VAppAlreadyRunning")) /\ UNCHANGED <<vapp, engine>>
    BY <1>3 DEF PollStart
  <2>2. Idling' /\ CutInv' /\ Failure("VAppAlreadyRunning").kind = "error"
    BY <1>2, <2>1, ResultFields DEF Idling, Alive, CutInv
  <2> QED
    BY <1>1, <1>2, <2>1, <2>2, AnsweredInTurn
<1>4. CASE engine = NoEngine
  <2>1. PICK o \in StartOutcomes : engine' = o.engine /\ vapp' = o.vapp /\ Answer(Head(queue).tag, o.result)
    BY <1>4 DEF PollStart
  <2>2. o.result.kind \in {"none", "error"}
    BY StartCases, ResultFields
  <2>3. Idling' /\ CutInv'
    BY <2>1, StartCases, NotRunningFields, NoEngineFields DEF Idling, Alive, CutInv
  <2> QED
    BY <1>1, <1>2, <2>1, <2>2, <2>3, AnsweredInTurn
<1> QED
  BY <1>3, <1>4

LEMMA PollInfoCalls ==
  ASSUME WorkerInv, CallInv, CutInv, AnswersMatch, cancels = 0, PollInfo
  PROVE  CallInv' /\ AnswersMatch' /\ CutInv'
<1>1. Polled /\ Head(queue).op # "send" /\ UNCHANGED <<engine, call, outcome, cancels, pending>>
  BY DEF PollInfo
<1>2. Idling /\ pending = NoTag
  BY <1>1, QueuedIdles
<1>3. PICK o \in AppInfoOutcomes : vapp' = o.vapp /\ Answer(Head(queue).tag, o.result)
  BY DEF PollInfo
<1>4. o.result.kind \in {"none", "error"} /\ o.vapp = NotRunning
  BY AppInfoCases, ResultFields
<1>5. CutInv' /\ Idling'
  BY <1>1, <1>2, <1>3, <1>4, CutIdle DEF Idling
<1> QED
  BY <1>1, <1>2, <1>3, <1>4, <1>5, AnsweredInTurn

LEMMA PollStopCalls ==
  ASSUME CallInv, CutInv, AnswersMatch, cancels = 0, PollStop
  PROVE  CallInv' /\ AnswersMatch' /\ CutInv'
<1>1. /\ Polled /\ Head(queue).op # "send" /\ UNCHANGED <<vapp, call, outcome, cancels>>
      /\ engine' = NoEngine /\ pending' = NoTag /\ Answer(Head(queue).tag, None)
  BY DEF PollStop
<1>2. None.kind = "none"
  BY ResultFields
<1>3. CutInv' /\ Idling'
  BY <1>1, NoEngineFields DEF CutInv, Idling, Alive
<1> QED
  BY <1>1, <1>2, <1>3, AnsweredInTurn

LEMMA PollSendCalls ==
  ASSUME WorkerInv, CallInv, CutInv, AnswersMatch, cancels = 0, PollSend
  PROVE  CallInv' /\ AnswersMatch' /\ CutInv'
<1>1. /\ queue # <<>> /\ queue' = Tail(queue) /\ Head(queue).op = "send"
      /\ UNCHANGED <<vapp, call, outcome, cancels>>
  BY DEF PollSend, Polled
<1>2. PICK p \in Talks : call = CallOf(p) /\ Posted(p)
  <2>1. ASSUME NEW op \in Calls PROVE ~Queued(op, Empty)
    BY <1>1, HeadOfOne, CallFields
  <2> QED
    BY <1>1, <2>1, QueuedCall
<1>3. /\ Head(queue).data = PostOf(p) /\ Head(queue).tag = 0 /\ queue' = <<>>
      /\ pending = NoTag /\ mail = NoMail
      /\ Alive => Expects(vapp, p) \/ vapp = CommError
  BY <1>1, <1>2, HeadOfOne DEF Posted
<1>4. AnswersMatch' /\ call # NoCall
  BY <1>1, <1>2, SameOutcome, ServingFields
<1>5. CASE engine # NoEngine
  <2>1. engine' = [engine EXCEPT !.buffer = PostOf(p)] /\ pending' = 0 /\ mail' = NoMail
    BY <1>3, <1>5 DEF PollSend
  <2>2. engine = [status |-> engine.status, command |-> engine.command, buffer |-> engine.buffer]
    BY DEF WorkerInv, Engine
  <2>3. engine' = [status |-> engine.status, command |-> engine.command, buffer |-> PostOf(p)]
    BY <2>1, <2>2, EngineFields
  <2>4. engine'.status = engine.status /\ engine'.command = engine.command /\ engine'.buffer = PostOf(p)
    BY <2>3, EngineFields
  <2>5. CutInv' /\ (Alive' => Alive)
    BY <1>1, <1>5, <2>4 DEF CutInv, Alive
  <2>6. Waiting(p)'
    BY <1>1, <1>3, <2>1, <2>4, <2>5 DEF Waiting
  <2> QED
    BY <1>1, <1>2, <1>4, <2>5, <2>6 DEF CallInv
<1>6. CASE engine = NoEngine
  <2>1. Answer(0, Failure("VAppNotRunning")) /\ UNCHANGED <<engine, pending>>
    BY <1>3, <1>6 DEF PollSend
  <2>2. mail' = Failure("VAppNotRunning")
    BY <1>4, <2>1 DEF Answer
  <2>3. mail'.kind = "error"
    BY <2>2, ResultFields
  <2>4. Answered(p)' /\ CutInv'
    BY <1>1, <1>3, <1>6, <2>1, <2>3 DEF Answered, CutInv
  <2> QED
    BY <1>1, <1>2, <1>4, <2>4 DEF CallInv
<1> QED
  BY <1>5, <1>6
-----------------------------------------------------------------------------
(* A turn of the worker steps the engine.                                      *)
LEMMA StepCut ==
  ASSUME WorkerInv, StepEngine
  PROVE  CutInv'
<1>1. PICK o \in StepOutcomes :
        vapp' = o.vapp /\ engine' = IF StepResult.kind = "error" THEN NoEngine ELSE o.engine
  BY DEF StepEngine
<1>2. CASE StepResult.kind = "error"
  BY <1>1, <1>2, NoEngineFields DEF CutInv
<1>3. CASE StepResult.kind # "error"
  <2>1. engine.status = "InterruptedExecution" /\ engine # NoEngine
    BY <1>3, ResultFields DEF StepResult, StepEngine
  <2>2. PICK a, b, w : o.vapp = a.vapp /\ o.engine = Engine(a, b) /\ Shape(a, w)
    BY <2>1, StepShape
  <2>3. engine' = Engine(a, b) /\ vapp' = a.vapp
    BY <1>1, <1>3, <2>2
  <2>4. CASE \E s : s \notin {"no engine", "InterruptedExecution"} /\ a = Done(s)
    <3>1. PICK s : s \notin {"no engine", "InterruptedExecution"} /\ a = Done(s)
      BY <2>4
    <3>2. engine'.status = s
      BY <2>3, <3>1 DEF Engine, Done
    <3> QED
      BY <3>1, <3>2 DEF CutInv
  <2>5. CASE a = Interrupted(a.vapp) /\ IsApp(a.vapp)
    <3>1. NotRunning.at \notin Places
      BY NotRunningFields DEF Places, PanicMessages
    <3> QED
      BY <2>3, <2>5, <3>1 DEF CutInv, IsApp
  <2> QED
    BY <2>2, <2>4, <2>5 DEF Shape
<1> QED
  BY <1>2, <1>3

LEMMA NotPending ==
  ASSUME NEW result, AnswerPending(result), pending = NoTag
  PROVE  pending' = NoTag /\ mail' = mail
BY DEF AnswerPending

LEMMA Pending ==
  ASSUME NEW result, AnswerPending(result), result # None, pending = 0, cancels = 0, call # NoCall
  PROVE  pending' = NoTag /\ mail' = result
<1>1. pending # NoTag
  BY NoTagAssumption
<1> QED
  BY <1>1 DEF AnswerPending, Answer

\* The V-App waits for a message.
LEMMA StepListens ==
  ASSUME WorkerInv, StepEngine, Alive, vapp.at \in {"idle", "more", "ackWait"}
  PROVE  /\ \E a \in Resume(vapp, IF engine.buffer = NoBuffer THEN Empty ELSE engine.buffer) :
              vapp' = a.vapp /\ engine' = Engine(a, NoBuffer)
         /\ UNCHANGED <<mail, pending>>
<1>1. engine.status = "InterruptedExecution" /\ engine.command = Command(vapp)
  BY DEF WorkerInv, InLockstep, Alive
<1>2. engine.command = ReceiveBuffer /\ engine.command.code # "SendBuffer"
  <2>1. engine.command = ReceiveBuffer
    BY <1>1, CommandCases
  <2> QED
    BY <2>1 DEF ReceiveBuffer
<1>3. StepResult = None /\ StepResult.kind # "error"
  <2>1. StepResult = None
    BY <1>1, <1>2, ResultCases
  <2> QED
    BY <2>1, ResultFields
<1>4. PICK o \in StepOutcomes : vapp' = o.vapp /\ engine' = o.engine
  BY <1>3 DEF StepEngine
<1>5. UNCHANGED <<mail, pending>>
  BY <1>3 DEF StepEngine, AnswerPending
<1> QED
  BY <1>1, <1>2, <1>4, <1>5, StepCases DEF OnContinue, Alive

\* The V-App panics.
LEMMA StepPanics ==
  ASSUME WorkerInv, StepEngine, Alive, vapp.at \in PanicMessages
  PROVE  engine' = NoEngine /\ \E why : AnswerPending(Failure(why))
<1>1. engine.status = "InterruptedExecution" /\ engine.command = Command(vapp)
  BY DEF WorkerInv, InLockstep, Alive
<1>2. PICK text : text = [kind |-> "panic", text |-> vapp.at]
  OBVIOUS
<1>3. engine.command = SendBuffer("Panic", text)
  BY <1>1, <1>2, CommandCases, Zenon
<1>4. StepResult = Failure(text.text)
  BY <1>1, <1>3, ResultCases
<1>5. StepResult.kind = "error"
  BY <1>4, ResultFields
<1> QED
  BY <1>4, <1>5 DEF StepEngine

\* The V-App speaks.
LEMMA StepSpeaks ==
  ASSUME WorkerInv, StepEngine, Alive, NEW t, NEW data, t # "Panic",
         engine.command = SendBuffer(t, data), StepResult.kind # "error"
  PROVE  /\ \E a \in Resume(vapp, Nothing) : vapp' = a.vapp /\ engine' = Engine(a, NoBuffer)
         /\ AnswerPending(StepResult)
<1>1. engine.status = "InterruptedExecution"
  BY DEF WorkerInv, InLockstep, Alive
<1>2. engine.command.code = "SendBuffer" /\ Speaks
  BY DEF SendBuffer, ReceiveBuffer, Speaks
<1>3. engine.buffer = NoBuffer
  BY <1>1, <1>2 DEF WorkerInv
<1>4. PICK o \in StepOutcomes : vapp' = o.vapp /\ engine' = o.engine
  BY DEF StepEngine
<1>5. \E a \in Resume(vapp, Nothing) : o.vapp = a.vapp /\ o.engine = Engine(a, NoBuffer)
  BY <1>1, <1>2, <1>3, StepCases DEF OnContinue, Alive
<1> QED
  BY <1>4, <1>5 DEF StepEngine

\* The V-App is gone.
LEMMA StepGone ==
  ASSUME WorkerInv, CutInv, StepEngine, ~Alive
  PROVE  /\ ~Alive'
         /\ \/ UNCHANGED <<mail, pending>>
            \/ engine' = NoEngine /\ \E why : AnswerPending(Failure(why))
<1>1. engine # NoEngine /\ vapp = NotRunning
  BY DEF Alive, StepEngine
<1>2. CASE engine.status = "InterruptedExecution"
  <2>1. engine.command = ReceiveBuffer
    BY <1>1, <1>2 DEF CutInv
  <2>2. StepResult = None /\ engine.command.code # "SendBuffer"
    BY <1>2, <2>1, ResultCases DEF ReceiveBuffer
  <2>3. UNCHANGED <<mail, pending>>
    BY <2>2 DEF StepEngine, AnswerPending
  <2>4. PICK o \in StepOutcomes : vapp' = o.vapp
    BY DEF StepEngine
  <2>5. vapp' = NotRunning
    BY <1>1, <1>2, <2>2, <2>4, StepCases, Answers DEF OnContinue
  <2> QED
    BY <2>3, <2>5 DEF Alive
<1>3. CASE engine.status # "InterruptedExecution"
  <2>1. \E why : StepResult = Failure(why)
    BY <1>3 DEF StepResult
  <2>2. StepResult.kind = "error"
    BY <2>1, ResultFields
  <2> QED
    BY <2>1, <2>2 DEF StepEngine, Alive
<1> QED
  BY <1>2, <1>3
\* Without a call for the V-App, it stays idle or exits.
LEMMA IdleStep ==
  ASSUME WorkerInv, CutInv, StepEngine, Idling, pending = NoTag
  PROVE  Idling' /\ UNCHANGED <<mail, pending>>
<1>1. UNCHANGED <<mail, pending>>
  BY NotPending DEF StepEngine
<1>2. CASE ~Alive
  BY <1>1, <1>2, StepGone DEF Idling
<1>3. CASE Alive
  <2>1. vapp = Idle /\ vapp.at = "idle" /\ engine.buffer = NoBuffer
    BY <1>3, NotRunningFields DEF Idling, WorkerInv, NothingReplaced, Alive
  <2>2. PICK a \in Resume(vapp, Empty) : vapp' = a.vapp
    BY <1>3, <2>1, StepListens
  <2>3. FirstChunk(Empty) = {Interrupted(Idle)} \cup IF VappMayStop THEN {Done("OK")} ELSE {}
    BY ChunkFields, ChunkCases, Zenon
  <2>4. a = Interrupted(Idle) \/ a = Done("OK")
    BY <2>1, <2>2, <2>3, ResumeCases, GuestCommAssumption
  <2>5. vapp' = Idle \/ vapp' = NotRunning
    BY <2>2, <2>4, Answers
  <2> QED
    BY <1>1, <2>5 DEF Idling, Alive
<1> QED
  BY <1>2, <1>3

LEMMA PostedStep ==
  ASSUME WorkerInv, CutInv, StepEngine, NEW p \in Talks, Posted(p)
  PROVE  Posted(p)'
<1>1. pending = NoTag /\ mail = NoMail /\ queue' = queue /\ (Alive => Expects(vapp, p) \/ vapp = CommError)
  BY DEF Posted, StepEngine
<1>2. UNCHANGED <<mail, pending>>
  BY <1>1, NotPending DEF StepEngine
<1> SUFFICES Alive' => Expects(vapp', p) \/ vapp' = CommError
  BY <1>1, <1>2 DEF Posted, Queued
<1>3. CASE ~Alive
  BY <1>3, StepGone
<1>4. CASE Alive /\ Expects(vapp, p)
  <2>1. engine.buffer = NoBuffer /\ vapp.at \in {"idle", "more", "ackWait"}
    BY <1>1, <1>4, ExpectsAt DEF WorkerInv, NothingReplaced, Alive
  <2>2. PICK a \in Resume(vapp, Empty) : vapp' = a.vapp
    BY <1>4, <2>1, StepListens
  <2>3. a = Interrupted(vapp) \/ a = Done("OK") \/ a = Interrupted(CommError)
    BY <1>4, <2>2, ResumeEmpty
  <2>4. vapp' = vapp \/ vapp' = NotRunning \/ vapp' = CommError
    BY <2>2, <2>3, Answers
  <2> QED
    BY <1>4, <2>4 DEF Alive
<1>5. CASE Alive /\ vapp = CommError
  <2>1. vapp.at \in PanicMessages
    BY <1>5, NotRunningFields DEF CommError, PanicMessages
  <2> QED
    BY <1>5, <2>1, StepPanics DEF Alive
<1> QED
  BY <1>1, <1>3, <1>4, <1>5

LEMMA AnsweredStep ==
  ASSUME WorkerInv, CutInv, StepEngine, NEW p \in Talks, call = CallOf(p), Answered(p)
  PROVE  Answered(p)'
<1>1. /\ queue = <<>> /\ pending = NoTag /\ queue' = queue /\ mail = Message(Reply(p))
      /\ Alive => vapp = Replied(p) \/ (vapp = CommError /\ Replied(p) # Idle)
  BY DEF Answered, StepEngine
<1>2. UNCHANGED <<mail, pending>>
  BY <1>1, NotPending DEF StepEngine
<1> SUFFICES Alive' => vapp' = Replied(p) \/ (vapp' = CommError /\ Replied(p) # Idle)
  BY <1>1, <1>2 DEF Answered
<1>3. CASE ~Alive
  BY <1>3, StepGone
<1>4. CASE Alive /\ vapp = Idle /\ Replied(p) = Idle
  BY <1>1, <1>4, IdleStep DEF Idling
<1>5. CASE Alive /\ vapp = Replied(p) /\ Replied(p) # Idle
  <2>1. PICK q \in Talks : Expects(vapp, q)
    BY <1>5, AfterReply
  <2>2. engine.buffer = NoBuffer /\ vapp.at \in {"idle", "more", "ackWait"}
    BY <1>1, <1>5, <2>1, ExpectsAt DEF WorkerInv, NothingReplaced, Alive
  <2>3. PICK a \in Resume(vapp, Empty) : vapp' = a.vapp
    BY <1>5, <2>2, StepListens
  <2>4. a = Interrupted(vapp) \/ a = Done("OK") \/ a = Interrupted(CommError)
    BY <2>1, <2>3, ResumeEmpty
  <2>5. vapp' = vapp \/ vapp' = NotRunning \/ vapp' = CommError
    BY <2>3, <2>4, Answers
  <2> QED
    BY <1>5, <2>5 DEF Alive
<1>6. CASE Alive /\ vapp = CommError
  <2>1. vapp.at \in PanicMessages
    BY <1>6, NotRunningFields DEF CommError, PanicMessages
  <2> QED
    BY <1>6, <2>1, StepPanics DEF Alive
<1> QED
  BY <1>1, <1>3, <1>4, <1>5, <1>6

\* A panic, or a V-App that is gone, is the answer to the message that waits.
LEMMA FailedAnswer ==
  ASSUME NEW p, Waiting(p), cancels = 0, call = CallOf(p), queue' = queue,
         engine' = NoEngine, \E why : AnswerPending(Failure(why))
  PROVE  Answered(p)'
<1>1. queue = <<>> /\ pending = 0 /\ call # NoCall
  BY ServingFields DEF Waiting
<1>2. PICK why : AnswerPending(Failure(why))
  OBVIOUS
<1>3. Failure(why) # None /\ Failure(why).kind = "error"
  BY ResultFields
<1>4. pending' = NoTag /\ mail' = Failure(why)
  BY <1>1, <1>2, <1>3, Pending
<1> QED
  BY <1>1, <1>3, <1>4 DEF Answered

LEMMA WaitingStep ==
  ASSUME WorkerInv, CutInv, StepEngine, cancels = 0, NEW p \in Talks, call = CallOf(p), Waiting(p)
  PROVE  \E q \in Talks : call = CallOf(q) /\ (Waiting(q)' \/ Answered(q)')
<1>1. /\ queue = <<>> /\ pending = 0 /\ mail = NoMail /\ queue' = queue /\ call # NoCall
      /\ Alive => \/ engine.buffer = PostOf(p) /\ (Expects(vapp, p) \/ vapp = CommError)
                  \/ engine.buffer = NoBuffer /\ (Serving(vapp, p) \/ vapp = Panicking("handler failed"))
  BY ServingFields DEF Waiting, StepEngine
<1>2. CASE ~Alive
  <2>1. CASE UNCHANGED <<mail, pending>>
    <3>1. Waiting(p)'
      BY <1>1, <1>2, <2>1, StepGone DEF Waiting
    <3> QED
      BY <3>1
  <2>2. CASE engine' = NoEngine /\ \E why : AnswerPending(Failure(why))
    BY <1>1, <2>2, FailedAnswer
  <2> QED
    BY <1>2, <2>1, <2>2, StepGone
<1>3. CASE Alive /\ (vapp = CommError \/ vapp = Panicking("handler failed"))
  <2>1. vapp.at \in PanicMessages
    BY <1>3, NotRunningFields DEF CommError, PanicMessages
  <2>2. engine' = NoEngine /\ \E why : AnswerPending(Failure(why))
    BY <1>3, <2>1, StepPanics
  <2> QED
    BY <1>1, <2>2, FailedAnswer
<1>4. CASE Alive /\ engine.buffer = PostOf(p) /\ Expects(vapp, p)
  <2>1. engine.buffer # NoBuffer /\ vapp.at \in {"idle", "more", "ackWait"}
    BY <1>4, ExpectsAt, ServingFields
  <2>2. PICK a \in Resume(vapp, PostOf(p)) :
          vapp' = a.vapp /\ engine' = Engine(a, NoBuffer) /\ UNCHANGED <<mail, pending>>
    BY <1>4, <2>1, StepListens
  <2>3. engine'.buffer = NoBuffer
    BY <2>2 DEF Engine
  <2>4. CASE a = Done("OK")
    <3>1. ~Alive'
      BY <2>2, <2>4, Answers DEF Alive
    <3>2. Waiting(p)'
      BY <1>1, <2>2, <3>1 DEF Waiting
    <3> QED
      BY <3>2
  <2>5. CASE a = Interrupted(Panicking("handler failed"))
    <3>1. vapp' = Panicking("handler failed")
      BY <2>2, <2>5, Answers
    <3>2. Waiting(p)'
      BY <1>1, <2>2, <2>3, <3>1 DEF Waiting
    <3> QED
      BY <3>2
  <2>6. CASE \E q \in Talks : CallOf(q) = CallOf(p) /\ Serving(a.vapp, q) /\ a = Interrupted(a.vapp)
    <3>1. PICK q \in Talks : CallOf(q) = CallOf(p) /\ Serving(a.vapp, q)
      BY <2>6
    <3>2. Waiting(q)'
      BY <1>1, <2>2, <2>3, <3>1 DEF Waiting
    <3> QED
      BY <3>1, <3>2
  <2> QED
    BY <1>4, <2>4, <2>5, <2>6, ResumeExpected, Zenon
<1>5. CASE Alive /\ engine.buffer = NoBuffer /\ Serving(vapp, p)
  <2>1. engine.status = "InterruptedExecution" /\ engine.command = Command(vapp)
    BY <1>5 DEF WorkerInv, InLockstep, Alive
  <2>2. CASE engine.command = SendBuffer("Print", Empty)
    <3>1. StepResult = None /\ StepResult.kind # "error"
      <4>1. StepResult = None
        BY <2>1, <2>2, ResultCases
      <4> QED
        BY <4>1, ResultFields
    <3>2. PICK a \in Resume(vapp, Nothing) : vapp' = a.vapp /\ engine' = Engine(a, NoBuffer)
      BY <1>5, <2>2, <3>1, StepSpeaks
    <3>3. SendBuffer("Print", Empty) # SendBuffer("VAppMessage", Reply(p))
      BY DEF SendBuffer
    <3>4. Serving(a.vapp, p)
      BY <1>5, <2>1, <2>2, <3>2, <3>3, ResumeServing
    <3>5. UNCHANGED <<mail, pending>> /\ engine'.buffer = NoBuffer
      BY <3>1, <3>2 DEF StepEngine, AnswerPending, Engine
    <3>6. Waiting(p)'
      BY <1>1, <3>2, <3>4, <3>5 DEF Waiting
    <3> QED
      BY <3>6
  <2>3. CASE engine.command = SendBuffer("VAppMessage", Reply(p))
    <3>1. StepResult = Message(Reply(p)) /\ StepResult.kind # "error" /\ StepResult # None
      <4>1. StepResult = Message(Reply(p))
        BY <2>1, <2>3, ResultCases
      <4> QED
        BY <4>1, ResultFields
    <3>2. PICK a \in Resume(vapp, Nothing) : vapp' = a.vapp /\ engine' = Engine(a, NoBuffer)
      BY <1>5, <2>3, <3>1, StepSpeaks
    <3>3. SendBuffer("Print", Empty) # SendBuffer("VAppMessage", Reply(p))
      BY DEF SendBuffer
    <3>4. a = Interrupted(Replied(p))
      BY <1>5, <2>1, <2>3, <3>2, <3>3, ResumeServing
    <3>5. vapp' = Replied(p)
      BY <3>2, <3>4, Answers
    <3>6. pending' = NoTag /\ mail' = Message(Reply(p))
      BY <1>1, <3>1, Pending DEF StepEngine
    <3>7. Answered(p)'
      BY <1>1, <3>5, <3>6 DEF Answered
    <3> QED
      BY <3>7
  <2>4. \E a : a \in Resume(vapp, Nothing)
    <3>1. vapp.at \in {"acking", "printing", "replying"}
      BY <1>5, AtFields DEF Serving
    <3> QED
      BY <3>1, ResumeCases
  <2> QED
    BY <1>5, <2>1, <2>2, <2>3, <2>4, ResumeServing
<1> QED
  BY <1>1, <1>2, <1>3, <1>4, <1>5
LEMMA StepCalls ==
  ASSUME WorkerInv, CallInv, CutInv, AnswersMatch, cancels = 0, StepEngine
  PROVE  CallInv' /\ AnswersMatch' /\ CutInv'
<1>1. CutInv' /\ UNCHANGED <<call, outcome, cancels, queue>>
  BY StepCut DEF StepEngine
<1>2. AnswersMatch'
  BY <1>1, SameOutcome
<1>3. CASE call = NoCall /\ queue = <<>> /\ pending = NoTag /\ mail = NoMail /\ Idling
  <2>1. Idling' /\ UNCHANGED <<mail, pending>>
    BY <1>3, IdleStep
  <2> QED
    BY <1>1, <1>2, <1>3, <2>1 DEF CallInv, Idling
<1>4. CASE \E op \in Calls :
             /\ call = Other(op) /\ pending = NoTag
             /\ \/ Queued(op, Empty) /\ mail = NoMail
                \/ queue = <<>> /\ mail.kind \in {"none", "error"}
             /\ Idling
  <2>1. Idling' /\ UNCHANGED <<mail, pending>>
    BY <1>4, IdleStep
  <2> QED
    BY <1>1, <1>2, <1>4, <2>1 DEF CallInv, Idling, Queued
<1>5. CASE \E p \in Talks : call = CallOf(p) /\ (Posted(p) \/ Waiting(p) \/ Answered(p))
  <2>1. \E p \in Talks : call = CallOf(p) /\ (Posted(p)' \/ Waiting(p)' \/ Answered(p)')
    BY <1>5, PostedStep, WaitingStep, AnsweredStep
  <2> QED
    BY <1>1, <1>2, <2>1 DEF CallInv
<1> QED
  BY <1>3, <1>4, <1>5 DEF CallInv, Idling

LEMMA AsyncInvInit == Init => AsyncInv
<1> SUFFICES ASSUME Init PROVE AsyncInv
  OBVIOUS
<1>1. /\ engine = NoEngine /\ call = NoCall /\ mail = NoMail /\ outcome = NoOutcome
      /\ queue = <<>> /\ pending = NoTag
  BY DEF Init, EngineInit, HostInit
<1>2. CallInv /\ CutInv /\ AnswersMatch
  BY <1>1, NoEngineFields DEF CallInv, CutInv, AnswersMatch, Alive
<1> QED
  BY <1>2, WorkerInit DEF AsyncInv

LEMMA AsyncInvNext ==
  ASSUME AsyncInv, Next
  PROVE  AsyncInv'
<1>1. WorkerInv' /\ cancels \in Nat
  BY WorkerNext DEF AsyncInv, WorkerInv
<1>2. CASE cancels' # 0
  BY <1>1, <1>2 DEF AsyncInv, AnswersMatch
<1>3. CASE cancels' = 0
  <2>1. cancels' = cancels \/ (GiveUp /\ cancels' = cancels + 1)
    BY DEF Next, Call, SendRequest, GetMetricsMeanwhile, GetMetrics, Immediate, Receive, GiveUp, Work, Poll,
           PollNothing, PollSend, PollStart, PollInfo, PollStop, StepNothing, StepEngine, hostVars
  <2>2. cancels = 0 /\ ~GiveUp
    BY <1>1, <1>3, <2>1 DEF GiveUp
  <2>3. WorkerInv /\ CallInv /\ CutInv /\ AnswersMatch
    BY <2>2 DEF AsyncInv
  <2>4. CASE PollNothing \/ StepNothing
    <3>1. UNCHANGED <<vapp, engine, call, mail, outcome, cancels, queue, pending>>
      BY <2>4 DEF PollNothing, StepNothing, hostVars
    <3> QED
      BY <1>1, <2>3, <3>1 DEF AsyncInv, CallInv, CutInv, AnswersMatch, Alive, Queued, Posted, Waiting, Answered
  <2>5. CASE ~(PollNothing \/ StepNothing)
    <3>1. CallInv' /\ AnswersMatch' /\ CutInv'
      BY <2>2, <2>3, <2>5, CallCalls, SendCalls, MetricsCalls, ReceiveCalls, PollSendCalls, PollStartCalls,
         PollInfoCalls, PollStopCalls, StepCalls DEF Next, Work, Poll
    <3> QED
      BY <1>1, <3>1 DEF AsyncInv
  <2> QED
    BY <2>4, <2>5
<1> QED
  BY <1>2, <1>3

-----------------------------------------------------------------------------
(* Both clients.                                                               *)
S == INSTANCE SyncClientProofs
       WITH MaxReqChunks <- SyncChunks, MaxRespChunks <- SyncChunks, MaxCalls <- SyncCalls

ClientInv ==
  /\ kind \in {"sync", "async"}
  /\ kind = "sync" => S!UntilGivenUp
  /\ kind = "async" => AsyncInv

LEMMA ClientInvInit == MCInit => ClientInv
<1> SUFFICES ASSUME MCInit PROVE ClientInv
  OBVIOUS
<1>1. AsyncInv
  BY AsyncInvInit DEF MCInit
<1>2. S!Init
  BY DEF MCInit, Init, S!Init, EngineInit, S!EngineInit, HostInit, S!HostInit, NoEngine, S!NoEngine,
         NotRunning, S!NotRunning, At, S!At, ReceiveBuffer, S!ReceiveBuffer, NoBuffer, S!NoBuffer,
         NoCall, S!NoCall, Other, S!Other, NoMail, S!NoMail, NoOutcome, S!NoOutcome, None, S!None
<1>3. S!UntilGivenUp
  BY <1>2, S!UntilGivenUpInit, GuestCommAssumption, HostCommAssumption, SyncAssumption
<1> QED
  BY <1>1, <1>3 DEF ClientInv, MCInit
\* MCClients and SyncClientProofs use the same module, each with an instance of its own.
LEMMA SameNext == Sync!Next => S!Next
BY DEF Sync!Empty, S!Empty, Sync!Nothing, S!Nothing, Sync!ACK, S!ACK, Sync!RequestChunk, S!RequestChunk,
       Sync!ResponseChunk, S!ResponseChunk, Sync!WholeRequest, S!WholeRequest,
       Sync!ReceiveBuffer, S!ReceiveBuffer, Sync!SendBuffer, S!SendBuffer, Sync!At, S!At,
       Sync!NotRunning, S!NotRunning, Sync!Idle, S!Idle, Sync!PanicMessages, S!PanicMessages,
       Sync!Panicking, S!Panicking, Sync!CommError, S!CommError, Sync!Command, S!Command,
       Sync!Interrupted, S!Interrupted, Sync!Done, S!Done, Sync!Handle, S!Handle, Sync!Took,
       S!Took, Sync!FirstChunk, S!FirstChunk, Sync!Strange, S!Strange, Sync!NextChunk,
       S!NextChunk, Sync!AwaitAck, S!AwaitAck, Sync!Resume, S!Resume, Sync!OnContinue,
       S!OnContinue, Sync!OnStartVApp, S!OnStartVApp, Sync!OnOtherCommand, S!OnOtherCommand,
       Sync!Engine, S!Engine, Sync!NoBuffer, S!NoBuffer, Sync!NoEngine, S!NoEngine, Sync!None,
       S!None, Sync!Message, S!Message, Sync!Failure, S!Failure, Sync!StepResult, S!StepResult,
       Sync!Exchanged, S!Exchanged, Sync!StepOutcomes, S!StepOutcomes, Sync!StartOutcomes,
       S!StartOutcomes, Sync!AppInfoOutcomes, S!AppInfoOutcomes, Sync!MetricsResults,
       S!MetricsResults, Sync!Request, S!Request, Sync!Other, S!Other, Sync!NoCall, S!NoCall,
       Sync!NoMail, S!NoMail, Sync!NoOutcome, S!NoOutcome, Sync!Returned, S!Returned,
       Sync!Immediate, S!Immediate, Sync!GetMetrics, S!GetMetrics, Sync!Continue, S!Continue,
       Sync!Return, S!Return, Sync!OnResponse, S!OnResponse, Sync!AfterMessage, S!AfterMessage,
       Sync!After, S!After, Sync!StartVApp, S!StartVApp, Sync!StopVApp, S!StopVApp,
       Sync!GetAppInfo, S!GetAppInfo, Sync!GiveUp, S!GiveUp, Sync!GiveUpOther, S!GiveUpOther, Sync!SendRequest, S!SendRequest, Sync!Respond, S!Respond,
       Sync!StepEngine, S!StepEngine, Sync!Next, S!Next

LEMMA SameProperties ==
  /\ S!InLockstepUntilGivenUp /\ cancels = 0 => InLockstep
  /\ S!AnswersMatch => AnswersMatch
  /\ S!TransmittedFully => TransmittedFully
BY DEF S!InLockstepUntilGivenUp, InLockstep, S!InLockstep, AnswersMatch, S!AnswersMatch, TransmittedFully,
       S!TransmittedFully, NoEngine, S!NoEngine, NoBuffer, S!NoBuffer, NotRunning, S!NotRunning,
       At, S!At, Command, S!Command, ReceiveBuffer, S!ReceiveBuffer, SendBuffer, S!SendBuffer,
       ACK, S!ACK, Empty, S!Empty, RequestChunk, S!RequestChunk, ResponseChunk, S!ResponseChunk,
       WholeRequest, S!WholeRequest, PanicMessages, S!PanicMessages, NoOutcome, S!NoOutcome,
       NoCall, S!NoCall, Other, S!Other, None, S!None

LEMMA ClientInvNext ==
  ASSUME ClientInv, [AsyncNext \/ SyncNext]_mcVars
  PROVE  ClientInv'
<1>1. CASE AsyncNext
  BY <1>1, AsyncInvNext DEF AsyncNext, ClientInv
<1>2. CASE SyncNext
  <2>1. S!UntilGivenUp /\ S!Next /\ kind = "sync" /\ kind' = kind
    BY <1>2, SameNext DEF SyncNext, ClientInv
  <2>2. S!UntilGivenUp'
    BY <2>1, S!UntilGivenUpNext, GuestCommAssumption, HostCommAssumption, SyncAssumption
  <2> QED
    BY <2>1, <2>2 DEF ClientInv
<1>3. CASE UNCHANGED mcVars
  <2>1. /\ kind' = kind /\ UNCHANGED S!vars
        /\ UNCHANGED <<vapp, engine, call, mail, outcome, cancels, queue, pending>>
    BY <1>3 DEF mcVars, vars, hostVars, S!vars, S!hostVars
  <2>2. S!UntilGivenUp => S!UntilGivenUp'
    BY <2>1, S!UntilGivenUpNext, GuestCommAssumption, HostCommAssumption, SyncAssumption
  <2>3. WorkerInv => WorkerInv'
    BY <2>1 DEF WorkerInv, QueueInv, Speaks, InLockstep, NothingReplaced
  <2>4. CallInv /\ CutInv => CallInv' /\ CutInv'
    BY <2>1 DEF CallInv, CutInv, Alive, Queued, Posted, Waiting, Answered
  <2>5. AsyncInv => AsyncInv'
    BY <2>1, <2>3, <2>4, SameOutcome DEF AsyncInv
  <2> QED
    BY <2>1, <2>2, <2>5 DEF ClientInv
<1> QED
  BY <1>1, <1>2, <1>3

LEMMA ClientInvImplies ==
  ClientInv => EngineInLockstep /\ AnswersMatch /\ WorkerReplacesNothing /\ SyncTransmitsFully
<1> SUFFICES ASSUME ClientInv PROVE EngineInLockstep /\ AnswersMatch /\ WorkerReplacesNothing /\ SyncTransmitsFully
  OBVIOUS
<1>1. CASE kind = "sync"
  <2>1. S!UntilGivenUp
    BY <1>1 DEF ClientInv
  <2>2. S!InLockstepUntilGivenUp /\ S!AnswersMatch /\ S!TransmittedFully
    BY <2>1, S!UntilGivenUpImplies, GuestCommAssumption, HostCommAssumption, SyncAssumption
  <2> QED
    BY <1>1, <2>2, SameProperties DEF WorkerReplacesNothing, SyncTransmitsFully, EngineInLockstep, Unbroken
<1>2. CASE kind = "async"
  BY <1>2 DEF ClientInv, AsyncInv, WorkerInv, WorkerReplacesNothing, SyncTransmitsFully, EngineInLockstep
<1> QED
  BY <1>1, <1>2 DEF ClientInv

\* In both clients (client-sdk/src/vanadium_client.rs), with any number of requests, chunks and
\* calls: the engine's idea of what the V-App waits for is right. With a worker it stays so
\* whatever calls are given up; without one, until the first call is given up, which drops
\* step's future in the middle of its exchange.
THEOREM ClientsInLockstep == MCSpec => []EngineInLockstep
BY ClientInvInit, ClientInvNext, ClientInvImplies, PTL DEF MCSpec

\* As long as no call is given up, a response that send_message of client-sdk/src/comm.rs
\* returns was made by the V-App from exactly the chunks of that request, also when the worker
\* steps the V-App between the host's messages.
THEOREM ClientsAnswersMatch == MCSpec => []AnswersMatch
BY ClientInvInit, ClientInvNext, ClientInvImplies, PTL DEF MCSpec

\* worker_loop never replaces a message that it accepted before the V-App has received it,
\* whatever was given up, stopped and started again.
THEOREM WorkerSafety == MCSpec => []WorkerReplacesNothing
BY ClientInvInit, ClientInvNext, ClientInvImplies, PTL DEF MCSpec

\* Without a worker and until a call is given up, no request fails for the protocol's sake, of any number of chunks.
THEOREM SyncTransmission == MCSpec => []SyncTransmitsFully
BY ClientInvInit, ClientInvNext, ClientInvImplies, PTL DEF MCSpec
=============================================================================
