----------------------------- MODULE AsyncClient ----------------------------
(***************************************************************************)
(* VanadiumAppClient (client-sdk/src/vanadium_client.rs): a worker task    *)
(* takes the program's calls from a queue, one per turn of its loop, and   *)
(* steps the engine in every turn, "preventing the device from appearing   *)
(* frozen when waiting for messages from the host".                        *)
(***************************************************************************)
EXTENDS HostComm

CONSTANT NoTag

ASSUME NoTagAssumption == NoTag \notin Nat

VARIABLES
  queue,     \* message_rx
  worker,    \* Where the loop is: "poll" or "step".
  pending    \* pending_response: the call that waits for a message of the V-App.

vars == <<vapp, engine, hostVars, queue, worker, pending>>

Init ==
  /\ EngineInit
  /\ HostInit
  /\ queue = <<>>
  /\ worker = "poll"
  /\ pending = NoTag

Post(what, data) == queue' = Append(queue, [op |-> what, data |-> data, tag |-> cancels])

-----------------------------------------------------------------------------
(* The program.                                                                 *)
Call(op) ==
  /\ call = NoCall
  /\ calls < MaxCalls
  /\ calls' = calls + 1
  /\ call' = Other(op)
  /\ Post(op, Empty)
  /\ UNCHANGED <<vapp, engine, mail, outcome, requested, cancels, worker, pending>>

\* The worker may be anywhere between two of its own exchanges.
GetMetricsMeanwhile ==
  /\ GetMetrics
  /\ UNCHANGED <<queue, worker, pending>>

SendRequest(r, n) ==
  /\ call = NoCall
  /\ r \notin requested
  /\ requested' = requested \cup {r}
  /\ call' = Request(r, n, 1, <<>>)
  /\ Post("send", RequestChunk(r, 1, n))
  /\ UNCHANGED <<vapp, engine, mail, outcome, calls, cancels, worker, pending>>

Receive ==
  /\ mail # NoMail
  /\ LET next == After(mail) IN
     /\ call' = next.call
     /\ IF next.call = NoCall
        THEN outcome' = Returned(next.result) /\ UNCHANGED queue
        ELSE Post("send", next.post) /\ UNCHANGED outcome
  /\ mail' = NoMail
  /\ UNCHANGED <<vapp, engine, requested, calls, cancels, worker, pending>>

GiveUp ==
  /\ call # NoCall
  /\ cancels < MaxCancels
  /\ cancels' = cancels + 1
  /\ call' = NoCall
  /\ mail' = NoMail
  /\ UNCHANGED <<vapp, engine, outcome, requested, calls, queue, worker, pending>>

-----------------------------------------------------------------------------
(* worker_loop.                                                                 *)
\* resp_tx.send: nobody receives the answer to a call that was given up.
Answer(tag, result) ==
  mail' = IF tag = cancels /\ call # NoCall THEN result ELSE mail

Polled ==
  /\ worker = "poll"
  /\ queue # <<>>
  /\ queue' = Tail(queue)
  /\ worker' = "step"

PollNothing ==
  /\ worker = "poll"
  /\ queue = <<>>
  /\ worker' = "step"
  /\ UNCHANGED <<vapp, engine, hostVars, queue, pending>>

PollSend ==
  LET msg == Head(queue) IN
  /\ Polled
  /\ msg.op = "send"
  /\ \/ /\ pending # NoTag
        /\ Answer(msg.tag, Failure("Another message is already pending"))
        /\ UNCHANGED <<engine, pending>>
     \/ /\ pending = NoTag
        /\ engine # NoEngine
        /\ engine' = [engine EXCEPT !.buffer = msg.data]
        /\ pending' = msg.tag
        /\ UNCHANGED mail
     \/ /\ pending = NoTag
        /\ engine = NoEngine
        /\ Answer(msg.tag, Failure("VAppNotRunning"))
        /\ UNCHANGED <<engine, pending>>
  /\ UNCHANGED <<vapp, call, outcome, requested, calls, cancels>>

PollStart ==
  LET msg == Head(queue) IN
  /\ Polled
  /\ msg.op = "start"
  /\ \/ /\ engine # NoEngine
        /\ Answer(msg.tag, Failure("VAppAlreadyRunning"))
        /\ UNCHANGED <<vapp, engine>>
     \/ /\ engine = NoEngine
        /\ \E o \in StartOutcomes :
             engine' = o.engine /\ vapp' = o.vapp /\ Answer(msg.tag, o.result)
  /\ UNCHANGED <<call, outcome, requested, calls, cancels, pending>>

PollInfo ==
  LET msg == Head(queue) IN
  /\ Polled
  /\ msg.op \in {"info", "preload"}
  /\ \E o \in AppInfoOutcomes : vapp' = o.vapp /\ Answer(msg.tag, o.result)
  /\ UNCHANGED <<engine, call, outcome, requested, calls, cancels, pending>>

\* The pending call, if there is one, was given up: whoever stops the V-App makes no other call.
PollStop ==
  LET msg == Head(queue) IN
  /\ Polled
  /\ msg.op = "stop"
  /\ engine' = NoEngine
  /\ pending' = NoTag
  /\ Answer(msg.tag, None)
  /\ UNCHANGED <<vapp, call, outcome, requested, calls, cancels>>

StepNothing ==
  /\ worker = "step"
  /\ engine = NoEngine
  /\ worker' = "poll"
  /\ UNCHANGED <<vapp, engine, hostVars, queue, pending>>

AnswerPendingOnMessages(result) ==
  IF result.kind # "message" THEN UNCHANGED <<mail, pending>>
  ELSE pending' = NoTag /\ (IF pending = NoTag THEN UNCHANGED mail ELSE Answer(pending, result))

AnswerPending(result) ==
  IF result = None THEN UNCHANGED <<mail, pending>>
  ELSE pending' = NoTag /\ (IF pending = NoTag THEN UNCHANGED mail ELSE Answer(pending, result))

StepEngine ==
  /\ worker = "step"
  /\ engine # NoEngine
  /\ worker' = "poll"
  /\ \E o \in StepOutcomes :
       /\ vapp' = o.vapp
       /\ engine' = IF StepResult.kind = "error" THEN NoEngine ELSE o.engine
  /\ AnswerPending(StepResult)
  /\ UNCHANGED <<call, outcome, requested, calls, cancels, queue>>

-----------------------------------------------------------------------------
Poll == PollNothing \/ PollSend \/ PollStart \/ PollInfo \/ PollStop

Work == Poll \/ StepNothing \/ StepEngine

Next ==
  \/ \E op \in Calls \ {"metrics"} : Call(op)
  \/ \E r \in Requests : \E n \in 1 .. MaxReqChunks : SendRequest(r, n)
  \/ GetMetricsMeanwhile
  \/ Receive
  \/ GiveUp
  \/ Work

Spec == Init /\ [][Next]_vars /\ WF_vars(Receive) /\ WF_vars(Work)

-----------------------------------------------------------------------------
\* A buffer that waits for the V-App's xrecv has a call that waits for the response:
\* the next accepted message never replaces it ("previous queued message will be lost",
\* a warning of worker_loop), whatever was given up, stopped and started again.
NothingReplaced == engine # NoEngine /\ engine.buffer # NoBuffer => pending # NoTag
=============================================================================
