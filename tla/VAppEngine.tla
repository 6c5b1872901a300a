----------------------------- MODULE VAppEngine -----------------------------
(***************************************************************************)
(* VAppEngine and GenericVanadiumClient (client-sdk/src/vanadium_client.rs): *)
(* the host's end of a running V-App. It keeps the answer to its last APDU *)
(* and, step by step, does what that answer asks for.                      *)
(***************************************************************************)
EXTENDS GuestComm

VARIABLE
  engine    \* current_status, current_result and pending_receive_buffer, or NoEngine.

Engine(answer, buffer) ==
  [status |-> answer.status, command |-> answer.command, buffer |-> buffer]

NoBuffer == [kind |-> "no buffer"]
NoEngine == [status |-> "no engine", command |-> ReceiveBuffer, buffer |-> NoBuffer]

\* What step returns; None when it has nothing for its caller.
None == [kind |-> "none"]
Message(data) == [kind |-> "message", data |-> data]
Failure(why) == [kind |-> "error", why |-> why]

StepResult ==
  IF engine.status = "OK" THEN Failure("AppExited")
  ELSE IF engine.status # "InterruptedExecution" THEN Failure(engine.status)
  ELSE IF engine.command.code = "ReceiveBuffer" \/ engine.command.type = "Print" THEN None
  ELSE IF engine.command.type = "Panic" THEN Failure(engine.command.data.text)
  ELSE Message(engine.command.data)

\* The exchange of a step: process_receive_buffer hands over the pending buffer, if
\* there is one; process_send_buffer lets the V-App go on.
ExchangedForgettingAnswer(data, buffer) ==
  {[engine |-> [engine EXCEPT !.buffer = buffer], vapp |-> answer.vapp] : answer \in OnContinue(data)}

Exchanged(data, buffer) ==
  {[engine |-> Engine(answer, buffer), vapp |-> answer.vapp] : answer \in OnContinue(data)}

StepOutcomesKeepingBuffer ==
  IF engine.status # "InterruptedExecution" THEN {[engine |-> engine, vapp |-> vapp]}
  ELSE IF engine.command.code = "SendBuffer" THEN Exchanged(Nothing, engine.buffer)
  ELSE Exchanged(IF engine.buffer = NoBuffer THEN Empty ELSE engine.buffer, engine.buffer)

StepOutcomes ==
  IF engine.status # "InterruptedExecution" THEN {[engine |-> engine, vapp |-> vapp]}
  ELSE IF engine.command.code = "SendBuffer" THEN Exchanged(Nothing, engine.buffer)
  ELSE Exchanged(IF engine.buffer = NoBuffer THEN Empty ELSE engine.buffer, NoBuffer)

\* start_vapp without a V-App: run_vapp, which makes an engine if the VM runs it.
StartOutcomes ==
  {IF answer.status \in {"OK", "InterruptedExecution"}
   THEN [engine |-> Engine(answer, NoBuffer), vapp |-> answer.vapp, result |-> None]
   ELSE [engine |-> NoEngine, vapp |-> answer.vapp, result |-> Failure("UnexpectedStatusWord")]
   : answer \in OnStartVApp}

\* get_app_info, which preload_vapp also begins with.
AppInfoOutcomes ==
  {[vapp |-> answer.vapp,
    result |-> IF answer.status = "OK" THEN None ELSE Failure("AppInfoParsingError")]
   : answer \in OnOtherCommand}

\* get_metrics, "directly on the transport". Without a V-App, the VM has the metrics of the
\* last one, if there was one: which of the two is not seen here.
MetricsResults ==
  {Failure("Failed to get metrics")} \cup IF vapp = NotRunning THEN {None} ELSE {}

EngineInit == engine = NoEngine /\ vapp = NotRunning
=============================================================================
