------------------------------ MODULE HostComm ------------------------------
(***************************************************************************)
(* A program of the host that uses the client: one call at a time, as the  *)
(* methods' &mut self demands, each of them start_vapp, stop_vapp,         *)
(* get_app_info, preload_vapp, get_metrics or a request with the protocol  *)
(* of client-sdk/src/comm.rs.                                              *)
(* The program may give up a call (its future is dropped, by a timeout for *)
(* instance), and make the next one.                                       *)
(***************************************************************************)
EXTENDS VAppEngine

CONSTANTS
  MaxCalls,      \* Bound of the model: calls of start_vapp, stop_vapp, get_app_info.
  MaxCancels,    \* Bound of the model: calls that the program gives up.
  Calls          \* The calls that the program makes, besides requests.

ASSUME HostCommAssumption ==
  /\ MaxCalls \in Nat
  /\ MaxCancels \in Nat
  /\ Calls \subseteq {"start", "stop", "info", "preload", "metrics"}

VARIABLES
  call,       \* The call under way.
  mail,       \* The answer to its last message, once there is one.
  outcome,    \* History: the last call that returned, with what.
  requested,  \* Requests made so far.
  calls,      \* Other calls made so far.
  cancels     \* Calls given up so far; it names the calls that are still wanted.

hostVars == <<call, mail, outcome, requested, calls, cancels>>

\* A request of n chunks, of which k were sent, and what came back.
Request(r, n, k, got) == [op |-> "send", req |-> r, n |-> n, k |-> k, got |-> got]
Other(op) == [op |-> op]

NoCall == Other("none")
NoMail == [kind |-> "no mail"]
NoOutcome == [call |-> NoCall, result |-> None]

HostInit ==
  /\ call = NoCall
  /\ mail = NoMail
  /\ outcome = NoOutcome
  /\ requested = {}
  /\ calls = 0
  /\ cancels = 0

Returned(result) == [call |-> call, result |-> result]

\* A call that returns at once.
Immediate(op, result) ==
  /\ op \in Calls
  /\ call = NoCall
  /\ calls < MaxCalls
  /\ calls' = calls + 1
  /\ outcome' = [call |-> Other(op), result |-> result]
  /\ UNCHANGED <<call, mail, requested, cancels>>

GetMetrics ==
  \E answer \in OnOtherCommand, result \in MetricsResults :
    Immediate("metrics", result) /\ vapp' = answer.vapp /\ UNCHANGED engine

-----------------------------------------------------------------------------
\* send_message of comm.rs: what it does with the message data that came back. It
\* goes on with another message, or returns.
Continue(c, data) == [call |-> c, post |-> data, result |-> None]
Return(result) == [call |-> NoCall, post |-> NoBuffer, result |-> result]

OnResponseOneMore(data) ==
  LET got == Append(call.got, data) IN
  IF Len(got) <= got[1].n THEN Continue([call EXCEPT !.got = got], ACK) ELSE Return(Message(got))

OnResponseNewestFirst(data) ==
  LET got == <<data>> \o call.got IN
  IF Len(got) < got[1].n THEN Continue([call EXCEPT !.got = got], ACK) ELSE Return(Message(got))

OnResponse(data) ==
  LET got == Append(call.got, data) IN
  IF Len(got) < got[1].n THEN Continue([call EXCEPT !.got = got], ACK) ELSE Return(Message(got))

AfterMessage(data) ==
  IF call.k < call.n
  THEN IF data = ACK
       THEN Continue([call EXCEPT !.k = @ + 1], RequestChunk(call.req, call.k + 1, call.n))
       ELSE Return(Failure("NotAckReceived"))
  ELSE IF data = ACK /\ call.got = <<>> THEN Return(Failure("ResponseTooShort"))
  ELSE OnResponse(data)

After(result) ==
  IF call.op = "send" /\ result.kind = "message" THEN AfterMessage(result.data) ELSE Return(result)

-----------------------------------------------------------------------------
\* As long as no call was given up, a response belongs to the request it is returned for:
\* the V-App made all of its chunks, in order, from exactly the chunks of that request,
\* whatever was stopped, started and aborted before.
AnswersMatch ==
  cancels = 0 /\ outcome # NoOutcome /\ outcome.result.kind = "message" =>
    LET c == outcome.call
        got == outcome.result.data
    IN \A k \in 1 .. Len(got) :
         got[k] = ResponseChunk(WholeRequest(c.req, c.n), k, Len(got))

\* The engine's idea of what the V-App waits for is right whenever a V-App runs,
\* although engines and V-Apps come and go separately.
InLockstep ==
  engine # NoEngine /\ vapp # NotRunning =>
    engine.status = "InterruptedExecution" /\ engine.command = Command(vapp)

\* "The process ensures that messages are transmitted sequentially and fully"
\* (app-sdk/src/comm.rs:140): when no call is given up, a request fails only because the
\* V-App is not there, exits, panics in its handler or is aborted.
TransmittedFully ==
  cancels = 0 /\ outcome # NoOutcome /\ outcome.call.op = "send" /\ outcome.result.kind = "error" =>
    outcome.result.why \notin
      {"communication error", "NotAckReceived", "ResponseTooShort", "VMRuntimeError"}
=============================================================================
