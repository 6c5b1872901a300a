-------------------------- MODULE SyncClientProofs --------------------------
(***************************************************************************)
(* Proofs about SyncClient: its engine moves only while a request waits,   *)
(* so host and V-App stay at the same point of the conversation, for any   *)
(* number of requests, calls and chunks.                                   *)
(***************************************************************************)
EXTENDS SyncClient, HostCommProofs

\* Where engine and V-App are, while the VM waits for a Continue or has lost its V-App.
Conversing ==
  \/ vapp = NotRunning /\ engine.command = ReceiveBuffer
  \/ /\ vapp # NotRunning /\ engine.command = Command(vapp)
     /\ \/ call = NoCall /\ vapp = Idle /\ engine.buffer = NoBuffer
        \/ call # NoCall /\ vapp = Panicking("handler failed")
        \/ \E p \in Talks :
             /\ call = CallOf(p)
             /\ \/ engine.buffer = PostOf(p) /\ Expects(vapp, p)
                \/ engine.buffer = NoBuffer /\ Serving(vapp, p)

SyncInv ==
  /\ engine = Engine(engine, engine.buffer)
  /\ engine.status \in {"no engine", "InterruptedExecution", "OK", "VAppPanic", "InsNotSupported"}
  /\ engine.status = "no engine" => engine = NoEngine /\ call = NoCall
  /\ engine.status \in {"OK", "VAppPanic", "InsNotSupported"} => vapp = NotRunning
  /\ engine.status = "InterruptedExecution" => Conversing
  /\ call # NoCall => call.op = "send"
  /\ AnswersMatch
  /\ TransmittedFully

\* As far as the proofs go: until a call is given up.
UntilGivenUp == cancels \in Nat /\ (cancels = 0 => SyncInv)

LEMMA SyncInvInit == Init => SyncInv
<1> SUFFICES ASSUME Init PROVE SyncInv
  OBVIOUS
<1>1. engine = NoEngine /\ call = NoCall /\ outcome = NoOutcome
  BY DEF Init, EngineInit, HostInit
<1> QED
  BY <1>1, NoEngineFields DEF SyncInv, AnswersMatch, TransmittedFully

\* A call that returns at once says nothing about requests.
LEMMA ImmediateKeeps ==
  ASSUME SyncInv, NEW op, NEW result, Immediate(op, result), result.kind # "message"
  PROVE  AnswersMatch' /\ TransmittedFully' /\ call = NoCall /\ call' = NoCall
<1>1. outcome' = [call |-> Other(op), result |-> result] /\ op # "send" /\ call = NoCall /\ call' = NoCall
  BY HostCommAssumption DEF Immediate
<1>2. outcome'.call.op = op /\ outcome'.result = result
  BY <1>1, ResultFields
<1>3. AnswersMatch' /\ TransmittedFully'
  BY <1>1, <1>2 DEF AnswersMatch, TransmittedFully
<1> QED
  BY <1>1, <1>3

LEMMA StartKeeps ==
  ASSUME SyncInv, StartVApp
  PROVE  SyncInv'
<1>1. CASE /\ engine # NoEngine /\ Immediate("start", Failure("VAppAlreadyRunning"))
           /\ UNCHANGED <<engine, vapp>>
  <2>1. AnswersMatch' /\ TransmittedFully' /\ call = NoCall /\ call' = NoCall
    BY <1>1, ImmediateKeeps, ResultFields
  <2>2. Conversing => Conversing'
    BY <1>1, <2>1 DEF Conversing
  <2> QED
    BY <1>1, <2>1, <2>2 DEF SyncInv
<1>2. CASE /\ engine = NoEngine
           /\ \E o \in StartOutcomes :
                Immediate("start", o.result) /\ engine' = o.engine /\ vapp' = o.vapp
  <2>1. PICK o \in StartOutcomes :
          Immediate("start", o.result) /\ engine' = o.engine /\ vapp' = o.vapp
    BY <1>2
  <2>2. o.result.kind # "message"
    BY StartCases, ResultFields
  <2>3. AnswersMatch' /\ TransmittedFully' /\ call = NoCall /\ call' = NoCall
    BY <2>1, <2>2, ImmediateKeeps
  <2>4. CASE engine' = Engine(Interrupted(Idle), NoBuffer) /\ vapp' = Idle
    <3>1. engine' = [status |-> "InterruptedExecution", command |-> Command(Idle), buffer |-> NoBuffer]
      BY <2>4, Answers
    <3>2. /\ engine'.status = "InterruptedExecution" /\ engine'.command = Command(Idle)
          /\ engine'.buffer = NoBuffer /\ engine' = Engine(engine', engine'.buffer)
      BY <3>1, EngineFields
    <3>3. Conversing'
      BY <2>3, <2>4, <3>2, NotRunningFields DEF Conversing
    <3> QED
      BY <2>3, <3>2, <3>3 DEF SyncInv
  <2>5. CASE engine' = NoEngine /\ vapp' = NotRunning
    BY <2>3, <2>5, NoEngineFields DEF SyncInv
  <2> QED
    BY <2>1, <2>4, <2>5, StartCases
<1> QED
  BY <1>1, <1>2 DEF StartVApp

LEMMA StopKeeps ==
  ASSUME SyncInv, StopVApp
  PROVE  SyncInv'
<1>1. AnswersMatch' /\ TransmittedFully' /\ call = NoCall /\ call' = NoCall /\ engine' = NoEngine
  BY ImmediateKeeps, ResultFields DEF StopVApp
<1> QED
  BY <1>1, NoEngineFields DEF SyncInv

\* The VM gives up its V-App for another command; the engine finds out later.
LEMMA OtherCommandKeeps ==
  ASSUME SyncInv, NEW op, NEW result, Immediate(op, result), result.kind # "message",
         vapp' = NotRunning, UNCHANGED engine
  PROVE  SyncInv'
<1>1. AnswersMatch' /\ TransmittedFully' /\ call = NoCall /\ call' = NoCall
  BY ImmediateKeeps
<1>2. ASSUME engine.status = "InterruptedExecution" PROVE Conversing'
  <2>1. ASSUME NEW p PROVE call # CallOf(p)
    BY <1>1, ResultFields DEF CallOf, Request
  <2>2. engine.command = ReceiveBuffer
    <3>1. CASE vapp = NotRunning
      BY <1>2, <3>1 DEF SyncInv, Conversing
    <3>2. CASE vapp # NotRunning
      <4>1. vapp = Idle /\ engine.command = Command(vapp)
        BY <1>1, <1>2, <2>1, <3>2 DEF SyncInv, Conversing
      <4> QED
        BY <4>1, CommandCases, NotRunningFields
    <3> QED
      BY <3>1, <3>2
  <2> QED
    BY <2>2 DEF Conversing
<1> QED
  BY <1>1, <1>2 DEF SyncInv

LEMMA GetKeeps ==
  ASSUME SyncInv, GetMetrics \/ \E op \in {"info", "preload"} : GetAppInfo(op)
  PROVE  SyncInv'
<1>1. CASE GetMetrics
  <2>1. PICK answer \in OnOtherCommand, result \in MetricsResults :
          Immediate("metrics", result) /\ vapp' = answer.vapp /\ UNCHANGED engine
    BY <1>1 DEF GetMetrics
  <2>2. result.kind # "message"
    BY <2>1, ResultFields DEF MetricsResults
  <2> QED
    BY <2>1, <2>2, OtherCommandCases, OtherCommandKeeps
<1>2. ASSUME NEW op, GetAppInfo(op) PROVE SyncInv'
  <2>1. PICK o \in AppInfoOutcomes : Immediate(op, o.result) /\ vapp' = o.vapp /\ UNCHANGED engine
    BY <1>2 DEF GetAppInfo
  <2>2. o.result.kind # "message" /\ o.vapp = NotRunning
    BY AppInfoCases, ResultFields
  <2> QED
    BY <2>1, <2>2, OtherCommandKeeps
<1> QED
  BY <1>1, <1>2
LEMMA SendKeeps ==
  ASSUME SyncInv, NEW r \in Requests, NEW n \in 1 .. MaxReqChunks, SendRequest(r, n)
  PROVE  SyncInv'
<1>1. call = NoCall /\ UNCHANGED <<vapp, cancels>>
  BY DEF SendRequest
<1>2. CASE /\ engine = NoEngine
           /\ outcome' = [call |-> Request(r, n, 1, <<>>), result |-> Failure("VAppNotRunning")]
           /\ UNCHANGED <<call, engine>>
  <2>1. outcome'.result = Failure("VAppNotRunning")
    BY <1>2
  <2>2. outcome'.result.kind = "error" /\ outcome'.result.why = "VAppNotRunning"
    BY <2>1, ResultFields
  <2>3. AnswersMatch' /\ TransmittedFully'
    BY <2>2 DEF AnswersMatch, TransmittedFully
  <2> QED
    BY <1>1, <1>2, <2>3, NoEngineFields DEF SyncInv
<1>3. CASE /\ engine # NoEngine
           /\ call' = Request(r, n, 1, <<>>)
           /\ engine' = [engine EXCEPT !.buffer = RequestChunk(r, 1, n)]
           /\ UNCHANGED outcome
  <2>1. engine = [status |-> engine.status, command |-> engine.command, buffer |-> engine.buffer]
    BY DEF SyncInv, Engine
  <2>2. engine' = [status |-> engine.status, command |-> engine.command, buffer |-> RequestChunk(r, 1, n)]
    BY <1>3, <2>1, EngineFields
  <2>3. /\ engine'.status = engine.status /\ engine'.command = engine.command
        /\ engine'.buffer = RequestChunk(r, 1, n) /\ engine' = Engine(engine', engine'.buffer)
    BY <2>2, EngineFields
  <2>4. call'.op = "send" /\ call' # NoCall
    BY <1>3, ResultFields DEF Request
  <2>5. ASSUME engine.status = "InterruptedExecution" PROVE Conversing'
    <3>1. CASE vapp = NotRunning
      BY <1>1, <2>3, <2>5, <3>1 DEF SyncInv, Conversing
    <3>2. CASE vapp # NotRunning
      <4>1. ASSUME NEW p PROVE call # CallOf(p)
        BY <1>1, ResultFields DEF CallOf, Request
      <4>2. vapp = Idle /\ engine.command = Command(vapp)
        BY <1>1, <2>5, <3>2, <4>1 DEF SyncInv, Conversing
      <4>3. PICK p \in Talks : /\ CallOf(p) = Request(r, n, 1, <<>>)
                               /\ PostOf(p) = RequestChunk(r, 1, n) /\ Expects(Idle, p)
        BY NewTalk
      <4>4. call' = CallOf(p) /\ engine'.buffer = PostOf(p) /\ Expects(vapp', p)
        BY <1>1, <1>3, <2>3, <4>2, <4>3
      <4> QED
        BY <1>1, <2>3, <3>2, <4>2, <4>4 DEF Conversing
    <3> QED
      BY <3>1, <3>2
  <2>6. AnswersMatch' /\ TransmittedFully'
    BY <1>1, <1>3 DEF SyncInv, AnswersMatch, TransmittedFully
  <2>7. engine.status # "no engine"
    BY <1>3 DEF SyncInv
  <2> QED
    BY <1>1, <2>3, <2>4, <2>5, <2>6, <2>7 DEF SyncInv
<1> QED
  BY <1>2, <1>3 DEF SendRequest

\* A step that returns an error of the V-App's or of the VM's.
LEMMA ReturnKeeps ==
  ASSUME SyncInv, NEW why, call' = NoCall, outcome' = Returned(Failure(why)),
         why \notin {"communication error", "NotAckReceived", "ResponseTooShort", "VMRuntimeError"}
  PROVE  AnswersMatch' /\ TransmittedFully'
<1>1. outcome'.result.kind = "error" /\ outcome'.result.why = why
  BY ResultFields DEF Returned
<1> QED
  BY <1>1 DEF AnswersMatch, TransmittedFully

\* A step whose result is an error ends the call.
LEMMA FailedStep ==
  ASSUME NEW why, StepResult = Failure(why), StepEngine
  PROVE  call' = NoCall /\ outcome' = Returned(Failure(why)) /\
         \E o \in StepOutcomes : engine' = o.engine /\ vapp' = o.vapp
<1>1. StepResult # None /\ StepResult.kind # "message"
  BY ResultFields
<1>2. After(StepResult) = Return(StepResult)
  BY <1>1 DEF After
<1>3. PICK o \in StepOutcomes :
        /\ vapp' = o.vapp
        /\ call' = After(StepResult).call /\ Respond(After(StepResult), o.engine)
  BY <1>1 DEF StepEngine
<1>4. After(StepResult).call = NoCall /\ After(StepResult).result = Failure(why)
  BY <1>2 DEF Return
<1>5. outcome' = Returned(Failure(why)) /\ engine' = o.engine
  BY <1>3, <1>4 DEF Respond
<1> QED
  BY <1>3, <1>4, <1>5

LEMMA QuietStep ==
  ASSUME StepResult = None, StepEngine
  PROVE  UNCHANGED <<call, outcome>> /\ \E o \in StepOutcomes : engine' = o.engine /\ vapp' = o.vapp
BY DEF StepEngine

\* The VM has ended the V-App.
LEMMA DoneStep ==
  ASSUME NEW s \in {"OK", "VAppPanic", "InsNotSupported"}, NEW b,
         vapp' = Done(s).vapp, engine' = Engine(Done(s), b),
         call' # NoCall => call'.op = "send", AnswersMatch', TransmittedFully'
  PROVE  SyncInv'
<1>1. engine' = [status |-> s, command |-> ReceiveBuffer, buffer |-> b] /\ vapp' = NotRunning
  BY Answers
<1>2. engine'.status = s /\ engine' = Engine(engine', engine'.buffer)
  BY <1>1, EngineFields
<1> QED
  BY <1>1, <1>2 DEF SyncInv

\* The V-App waits again.
LEMMA InterruptedStep ==
  ASSUME NEW v, v # NotRunning, NEW b,
         vapp' = v, engine' = Engine(Interrupted(v), b),
         call' # NoCall => call'.op = "send", AnswersMatch', TransmittedFully',
         \/ call' = NoCall /\ v = Idle /\ b = NoBuffer
         \/ call' # NoCall /\ v = Panicking("handler failed")
         \/ \E p \in Talks : /\ call' = CallOf(p)
                             /\ \/ b = PostOf(p) /\ Expects(v, p)
                                \/ b = NoBuffer /\ Serving(v, p)
  PROVE  SyncInv'
<1>1. /\ engine'.status = "InterruptedExecution" /\ engine'.command = Command(v)
      /\ engine'.buffer = b /\ engine' = Engine(engine', engine'.buffer)
  BY DEF Engine, Interrupted
<1>2. Conversing'
  BY <1>1 DEF Conversing
<1> QED
  BY <1>1, <1>2 DEF SyncInv
\* The V-App has taken the host's message, and lets the engine know what it does.
LEMMA ServingStep ==
  ASSUME SyncInv, StepEngine, engine.status = "InterruptedExecution", vapp # NotRunning,
         engine.command = Command(vapp), engine.buffer = NoBuffer,
         NEW p \in Talks, call = CallOf(p), Serving(vapp, p)
  PROVE  SyncInv'
<1>1. AnswersMatch /\ TransmittedFully /\ cancels' = cancels
  BY DEF SyncInv, StepEngine
<1>2. PICK a \in Resume(vapp, Nothing), o \in StepOutcomes :
        /\ o.vapp = a.vapp /\ o.engine = Engine(a, NoBuffer) /\ vapp' = o.vapp
        /\ IF StepResult = None
           THEN engine' = o.engine /\ UNCHANGED <<call, outcome>>
           ELSE call' = After(StepResult).call /\ Respond(After(StepResult), o.engine)
  <2>1. PICK o \in StepOutcomes :
          /\ vapp' = o.vapp
          /\ IF StepResult = None
             THEN engine' = o.engine /\ UNCHANGED <<call, outcome>>
             ELSE call' = After(StepResult).call /\ Respond(After(StepResult), o.engine)
    BY DEF StepEngine
  <2>2. OnContinue(Nothing) = Resume(vapp, Nothing)
    BY DEF OnContinue
  <2>3. engine.command.code = "SendBuffer"
    <3>1. vapp.at \in {"acking", "printing", "replying"}
      BY AtFields DEF Serving
    <3>2. \E t, d : Command(vapp) = SendBuffer(t, d)
      BY <3>1, CommandCases, Zenon
    <3> QED
      BY <3>2 DEF SendBuffer
  <2>4. \E a \in OnContinue(Nothing) : o.vapp = a.vapp /\ o.engine = Engine(a, NoBuffer)
    BY <2>3, StepCases
  <2> QED
    BY <2>1, <2>2, <2>4, Zenon
<1>3. CASE /\ Command(vapp) = SendBuffer("Print", Empty)
           /\ Serving(a.vapp, p) /\ a = Interrupted(a.vapp)
  <2>1. StepResult = None
    BY <1>3, ResultCases
  <2>2. engine' = Engine(Interrupted(a.vapp), NoBuffer) /\ vapp' = a.vapp /\ UNCHANGED <<call, outcome>>
    BY <1>2, <1>3, <2>1
  <2>3. AnswersMatch' /\ TransmittedFully'
    BY <1>1, <2>2 DEF AnswersMatch, TransmittedFully
  <2>4. a.vapp # NotRunning /\ call' = CallOf(p) /\ call'.op = "send"
    BY <1>3, <2>2, ServingFields
  <2> QED
    BY <1>3, <2>2, <2>3, <2>4, InterruptedStep
<1>4. CASE /\ Command(vapp) = SendBuffer("VAppMessage", Reply(p))
           /\ a = Interrupted(Replied(p))
  <2>1. StepResult = Message(Reply(p)) /\ StepResult # None
    <3>1. StepResult = Message(Reply(p))
      BY <1>4, ResultCases
    <3> QED
      BY <3>1, ResultFields
  <2> DEFINE next == After(Message(Reply(p)))
  <2>2. /\ call' = next.call /\ Respond(next, o.engine)
        /\ vapp' = Replied(p) /\ o.engine = Engine(Interrupted(Replied(p)), NoBuffer)
    BY <1>2, <1>4, <2>1, Answers
  <2>3. CASE \E q \in Talks : next = Continue(CallOf(q), PostOf(q)) /\ Expects(Replied(p), q)
    <3>1. PICK q \in Talks : next = Continue(CallOf(q), PostOf(q)) /\ Expects(Replied(p), q)
      BY <2>3
    <3>2. next.call = CallOf(q) /\ next.post = PostOf(q)
      BY <3>1 DEF Continue
    <3>3. next.call # NoCall /\ call'.op = "send"
      BY <2>2, <3>2, ServingFields
    <3>4. outcome' = outcome /\ engine' = [o.engine EXCEPT !.buffer = PostOf(q)]
      BY <2>2, <3>2, <3>3 DEF Respond
    <3>5. engine' = Engine(Interrupted(Replied(p)), PostOf(q))
      BY <2>2, <3>4 DEF Engine
    <3>6. AnswersMatch' /\ TransmittedFully'
      BY <1>1, <3>4 DEF AnswersMatch, TransmittedFully
    <3>7. Replied(p) # NotRunning /\ call' = CallOf(q)
      BY <2>2, <3>2, ServingFields
    <3> HIDE DEF next
    <3> QED
      BY <2>2, <3>1, <3>3, <3>5, <3>6, <3>7, InterruptedStep
  <2>4. CASE next = Return(Message(Replies(p, p.total))) /\ p.k = p.n /\ Replied(p) = Idle
    <3>1. next.call = NoCall /\ next.result = Message(Replies(p, p.total))
      BY <2>4 DEF Return
    <3>2. call' = NoCall /\ outcome' = Returned(Message(Replies(p, p.total))) /\ engine' = o.engine
      BY <2>2, <3>1 DEF Respond
    <3>3. outcome'.call = CallOf(p) /\ outcome'.result = Message(Replies(p, p.total))
      BY <3>2 DEF Returned
    <3>4. outcome'.result.kind = "message" /\ outcome'.result.data = Replies(p, p.total)
      BY <3>3, ResultFields
    <3>5. outcome'.call.req = p.req /\ outcome'.call.n = p.n
      BY <3>3, ServingFields
    <3>6. AnswersMatch'
      BY <3>4, <3>5, WholeResponse DEF AnswersMatch
    <3>7. TransmittedFully'
      BY <3>4 DEF TransmittedFully
    <3>8. Idle # NotRunning /\ vapp' = Idle /\ engine' = Engine(Interrupted(Idle), NoBuffer)
      BY <2>2, <2>4, <3>2, NotRunningFields
    <3> HIDE DEF next
    <3> QED
      BY <3>2, <3>6, <3>7, <3>8, InterruptedStep
  <2> QED
    BY <2>3, <2>4, AfterReply, Zenon
<1> QED
  BY <1>3, <1>4, ResumeServing, Zenon
\* The V-App receives the host's message.
LEMMA ExpectedStep ==
  ASSUME SyncInv, StepEngine, engine.status = "InterruptedExecution", vapp # NotRunning,
         engine.command = Command(vapp),
         NEW p \in Talks, call = CallOf(p), engine.buffer = PostOf(p), Expects(vapp, p)
  PROVE  SyncInv'
<1>1. AnswersMatch /\ TransmittedFully /\ cancels' = cancels /\ call # NoCall
  BY DEF SyncInv, StepEngine
<1>2. engine.command = ReceiveBuffer /\ engine.command.code # "SendBuffer" /\ engine.buffer # NoBuffer
  <2>1. engine.command = ReceiveBuffer
    BY ExpectsAt, CommandCases
  <2> QED
    BY <2>1, ServingFields DEF ReceiveBuffer
<1>3. StepResult = None
  BY <1>2, ResultCases
<1>4. PICK o \in StepOutcomes : engine' = o.engine /\ vapp' = o.vapp /\ UNCHANGED <<call, outcome>>
  BY <1>3, QuietStep
<1>5. PICK a \in Resume(vapp, PostOf(p)) : o.vapp = a.vapp /\ o.engine = Engine(a, NoBuffer)
  <2>1. \E a \in OnContinue(PostOf(p)) : o.vapp = a.vapp /\ o.engine = Engine(a, NoBuffer)
    BY <1>2, StepCases
  <2> QED
    BY <2>1 DEF OnContinue
<1>6. AnswersMatch' /\ TransmittedFully' /\ call' = CallOf(p) /\ call' # NoCall /\ call'.op = "send"
  BY <1>1, <1>4, ServingFields DEF AnswersMatch, TransmittedFully
<1>7. CASE a = Done("OK")
  <2>1. vapp' = Done("OK").vapp /\ engine' = Engine(Done("OK"), NoBuffer)
    BY <1>4, <1>5, <1>7
  <2> QED
    BY <1>6, <2>1, DoneStep
<1>8. CASE a = Interrupted(Panicking("handler failed"))
  <2> DEFINE v == Panicking("handler failed")
  <2>1. vapp' = v /\ engine' = Engine(Interrupted(v), NoBuffer) /\ v # NotRunning
    BY <1>4, <1>5, <1>8, Answers, NotRunningFields
  <2> QED
    BY <1>6, <2>1, InterruptedStep
<1>9. CASE \E q \in Talks : CallOf(q) = CallOf(p) /\ Serving(a.vapp, q) /\ a = Interrupted(a.vapp)
  <2>1. PICK q \in Talks : CallOf(q) = CallOf(p) /\ Serving(a.vapp, q) /\ a = Interrupted(a.vapp)
    BY <1>9
  <2>2. vapp' = a.vapp /\ engine' = Engine(Interrupted(a.vapp), NoBuffer) /\ call' = CallOf(q)
    BY <1>4, <1>5, <1>6, <2>1
  <2>3. a.vapp # NotRunning
    BY <2>1, ServingFields
  <2> QED
    BY <1>6, <2>1, <2>2, <2>3, InterruptedStep
<1> QED
  BY <1>7, <1>8, <1>9, ResumeExpected, Zenon

LEMMA StepKeeps ==
  ASSUME SyncInv, StepEngine
  PROVE  SyncInv'
<1>1. call # NoCall /\ AnswersMatch /\ TransmittedFully /\ cancels' = cancels
  BY DEF SyncInv, StepEngine
<1>2. CASE engine.status \in {"OK", "VAppPanic", "InsNotSupported"}
  <2>1. PICK why \in {"AppExited", "VAppPanic", "InsNotSupported"} : StepResult = Failure(why)
    BY <1>2 DEF StepResult
  <2>2. PICK o \in StepOutcomes :
          call' = NoCall /\ outcome' = Returned(Failure(why)) /\ engine' = o.engine /\ vapp' = o.vapp
    BY <2>1, FailedStep
  <2>3. engine' = engine /\ vapp' = vapp
    BY <1>2, <2>2 DEF StepOutcomes
  <2>4. AnswersMatch' /\ TransmittedFully'
    BY <2>2, ReturnKeeps
  <2> QED
    BY <1>2, <2>2, <2>3, <2>4 DEF SyncInv
<1>3. CASE engine.status = "InterruptedExecution" /\ vapp = NotRunning
  <2>1. engine.command = ReceiveBuffer
    BY <1>3 DEF SyncInv, Conversing
  <2>2. StepResult = None /\ engine.command.code # "SendBuffer"
    BY <1>3, <2>1, ResultCases DEF ReceiveBuffer
  <2>3. PICK o \in StepOutcomes : engine' = o.engine /\ vapp' = o.vapp /\ UNCHANGED <<call, outcome>>
    BY <2>2, QuietStep
  <2>4. vapp' = Done("InsNotSupported").vapp /\ engine' = Engine(Done("InsNotSupported"), NoBuffer)
    BY <1>3, <2>2, <2>3, StepCases DEF OnContinue
  <2>5. AnswersMatch' /\ TransmittedFully' /\ (call' # NoCall => call'.op = "send")
    BY <1>1, <2>3 DEF AnswersMatch, TransmittedFully, SyncInv
  <2> QED
    BY <2>4, <2>5, DoneStep
<1>4. CASE /\ engine.status = "InterruptedExecution" /\ vapp # NotRunning
           /\ engine.command = Command(vapp) /\ vapp = Panicking("handler failed")
  <2>1. vapp.at = "handler failed" /\ vapp.at \in PanicMessages
    BY <1>4, NotRunningFields DEF PanicMessages
  <2>2. engine.command = SendBuffer("Panic", [kind |-> "panic", text |-> "handler failed"])
    BY <1>4, <2>1, CommandCases
  <2>3. StepResult = Failure("handler failed") /\ engine.command.code = "SendBuffer"
    <3>1. PICK text : text = [kind |-> "panic", text |-> "handler failed"]
      OBVIOUS
    <3>2. text.text = "handler failed" /\ engine.command = SendBuffer("Panic", text)
      BY <2>2, <3>1
    <3>3. SendBuffer("Panic", text).code = "SendBuffer"
      BY DEF SendBuffer
    <3> QED
      BY <1>4, <3>2, <3>3, ResultCases
  <2>4. PICK o \in StepOutcomes : /\ call' = NoCall /\ outcome' = Returned(Failure("handler failed"))
                                  /\ engine' = o.engine /\ vapp' = o.vapp
    BY <2>3, FailedStep
  <2>5. PICK a \in OnContinue(Nothing) : o.vapp = a.vapp /\ o.engine = Engine(a, engine.buffer)
    BY <1>4, <2>3, StepCases
  <2>6. a = Done("VAppPanic")
    <3>1. a \in Resume(vapp, Nothing)
      BY <1>4, <2>5 DEF OnContinue
    <3>2. Resume(vapp, Nothing) = {Done("VAppPanic")}
      BY <2>1, ResumeCases
    <3> QED
      BY <3>1, <3>2
  <2>7. AnswersMatch' /\ TransmittedFully'
    BY <2>4, ReturnKeeps
  <2>8. vapp' = Done("VAppPanic").vapp /\ engine' = Engine(Done("VAppPanic"), engine.buffer)
    BY <2>4, <2>5, <2>6
  <2> QED
    BY <2>4, <2>7, <2>8, DoneStep
<1>5. CASE engine.status = "InterruptedExecution" /\ vapp # NotRunning /\ vapp # Panicking("handler failed")
  <2>1. /\ engine.command = Command(vapp)
        /\ \E p \in Talks : /\ call = CallOf(p)
                             /\ \/ engine.buffer = PostOf(p) /\ Expects(vapp, p)
                                \/ engine.buffer = NoBuffer /\ Serving(vapp, p)
    BY <1>1, <1>5 DEF SyncInv, Conversing
  <2> QED
    BY <1>5, <2>1, ExpectedStep, ServingStep
<1>6. /\ engine.status \in {"OK", "VAppPanic", "InsNotSupported", "InterruptedExecution"}
      /\ engine.status = "InterruptedExecution" /\ vapp # NotRunning => engine.command = Command(vapp)
  BY <1>1 DEF SyncInv, Conversing
<1> QED
  BY <1>2, <1>3, <1>4, <1>5, <1>6

LEMMA SyncInvNext ==
  ASSUME SyncInv, [Next]_vars, ~GiveUp, \A op \in Calls : ~GiveUpOther(op)
  PROVE  SyncInv'
<1>1. CASE UNCHANGED vars
  BY <1>1 DEF vars, hostVars, SyncInv, Conversing, AnswersMatch, TransmittedFully
<1>2. CASE Next
  <2>1. CASE \E op \in {"info", "preload"} : GetAppInfo(op)
    BY <2>1, GetKeeps
  <2>2. CASE \E r \in Requests : \E n \in 1 .. MaxReqChunks : SendRequest(r, n)
    BY <2>2, SendKeeps
  <2> QED
    BY <1>2, <2>1, <2>2, StartKeeps, StopKeeps, GetKeeps, StepKeeps DEF Next
<1> QED
  BY <1>1, <1>2

LEMMA UntilGivenUpInit == Init => UntilGivenUp
BY SyncInvInit DEF UntilGivenUp, Init, HostInit

LEMMA UntilGivenUpNext ==
  ASSUME UntilGivenUp, [Next]_vars
  PROVE  UntilGivenUp'
<1>1. CASE GiveUp \/ \E op \in Calls : GiveUpOther(op)
  BY <1>1 DEF UntilGivenUp, GiveUp, GiveUpOther
<1>2. CASE ~GiveUp /\ \A op \in Calls : ~GiveUpOther(op)
  <2>1. cancels' = cancels
    BY <1>2 DEF Next, vars, hostVars, StartVApp, StopVApp, GetMetrics, GetAppInfo, Immediate, SendRequest, StepEngine
  <2> QED
    BY <1>2, <2>1, SyncInvNext DEF UntilGivenUp
<1> QED
  BY <1>1, <1>2

LEMMA SyncInvLockstep == SyncInv => InLockstep
BY DEF SyncInv, Conversing, InLockstep, Engine, NoEngine

LEMMA UntilGivenUpImplies ==
  UntilGivenUp => InLockstepUntilGivenUp /\ AnswersMatch /\ TransmittedFully
BY SyncInvLockstep DEF UntilGivenUp, SyncInv, InLockstepUntilGivenUp, AnswersMatch, TransmittedFully

\* Until a call is given up, SyncVanadiumAppClient keeps in step with its V-App, a response
\* belongs to its request, and no request fails for the protocol's sake, for any number of
\* requests, calls and chunks:
\* send_message of VAppEngine (client-sdk/src/vanadium_client.rs) steps the V-App only while
\* a request waits, so every message of the conversation finds the V-App that expects it.
THEOREM SyncSafety == Spec => [](InLockstepUntilGivenUp /\ AnswersMatch /\ TransmittedFully)
<1>1. UntilGivenUp => InLockstepUntilGivenUp /\ AnswersMatch /\ TransmittedFully
  BY UntilGivenUpImplies
<1> QED
  BY <1>1, UntilGivenUpInit, UntilGivenUpNext, PTL DEF Spec
=============================================================================
