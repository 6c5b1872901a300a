----------------------------- MODULE GuestComm ------------------------------
(***************************************************************************)
(* A V-App that serves requests (App::run_loop, app-sdk/src/app.rs), with  *)
(* the message protocol of app-sdk/src/comm.rs, as the host sees it: the   *)
(* VM (vm/src/handlers) runs the V-App until it needs the host, answers    *)
(* the host's APDU with a client command, and waits for a Continue APDU.   *)
(* The chunks of a message are its unit here: that the VM splits a buffer  *)
(* into APDUs, and asks for pages meanwhile, is not seen at this level.    *)
(***************************************************************************)
EXTENDS Naturals, Sequences

CONSTANTS
  Requests,        \* The requests that the host makes.
  MaxReqChunks,    \* Chunks of a request, and of a response, of the
  MaxRespChunks,   \*   host's and of the V-App's choice.
  VappMayStop      \* Whether the V-App may exit or panic on its own.

ASSUME GuestCommAssumption ==
  /\ MaxReqChunks \in Nat \ {0}
  /\ MaxRespChunks \in Nat \ {0}
  /\ VappMayStop \in BOOLEAN

VARIABLE
  vapp   \* Where the V-App waits, and its message so far.

(***************************************************************************)
(* What travels. A chunk of a request names it; a chunk of a response      *)
(* names the chunks that the V-App took for its request. The first chunk   *)
(* has the length of the message: here, its number of chunks.              *)
(***************************************************************************)
Empty == [kind |-> "empty"]        \* A buffer of no bytes,
Nothing == [kind |-> "nothing"]    \* and an APDU without any data.
ACK == [kind |-> "ACK"]
RequestChunk(r, k, n) == [kind |-> "request", req |-> r, k |-> k, n |-> n]
ResponseChunk(parts, k, n) == [kind |-> "response", parts |-> parts, k |-> k, n |-> n]

WholeRequest(r, n) == [k \in 1 .. n |-> RequestChunk(r, k, n)]

\* The client commands that the VM interrupts its execution with.
ReceiveBuffer == [code |-> "ReceiveBuffer"]
SendBuffer(type, data) == [code |-> "SendBuffer", type |-> type, data |-> data]

-----------------------------------------------------------------------------
At(place, parts, sent, total) == [at |-> place, parts |-> parts, sent |-> sent, total |-> total]

NotRunning == At("none", <<>>, 0, 0)
Idle == At("idle", <<>>, 0, 0)

\* A V-App that panics first sends a message: of its handler, or of comm.rs and run_loop.
PanicMessages == {"handler failed", "communication error"}
Panicking(text) == At(text, <<>>, 0, 0)
CommError == Panicking("communication error")

Command(v) ==
  CASE v.at \in {"idle", "more", "ackWait"} -> ReceiveBuffer
    [] v.at = "acking"    -> SendBuffer("VAppMessage", ACK)
    [] v.at = "printing"  -> SendBuffer("Print", Empty)
    [] v.at = "replying"  -> SendBuffer("VAppMessage", ResponseChunk(v.parts, v.sent, v.total))
    [] v.at \in PanicMessages -> SendBuffer("Panic", [kind |-> "panic", text |-> v.at])

\* The VM's answer to an APDU: a status word and, if it was interrupted, a command.
Interrupted(v) == [vapp |-> v, status |-> "InterruptedExecution", command |-> Command(v)]
Done(status) == [vapp |-> NotRunning, status |-> status, command |-> ReceiveBuffer]

-----------------------------------------------------------------------------
\* The handler answers a request: it may print before.
Handle(parts) ==
  {Interrupted(At("replying", parts, 1, n)) : n \in 1 .. MaxRespChunks}
  \cup {Interrupted(At("printing", parts, 1, n)) : n \in 1 .. MaxRespChunks}
  \cup IF VappMayStop THEN {Done("OK"), Interrupted(Panicking("handler failed"))} ELSE {}

\* receive_message after it took one more chunk.
Took(parts, total) ==
  IF Len(parts) < total THEN {Interrupted(At("acking", parts, 0, total))} ELSE Handle(parts)

\* receive_message's first xrecv: without a message, run_loop turns to the screen and
\* tries again. Less than a length is a communication error.
FirstChunk(data) ==
  CASE data.kind = "empty"   -> {Interrupted(Idle)} \cup IF VappMayStop THEN {Done("OK")} ELSE {}
    [] data.kind = "nothing" -> {Done("VMRuntimeError")}
    [] data.kind = "ACK"     -> {Interrupted(CommError)}
    [] data.kind = "request" -> Took(<<data>>, data.n)

\* A chunk that is not the next one of this request may also be longer than what is
\* missing (TooManyBytesReceived), or shorter than a chunk.
Strange(v, data) ==
  IF data = RequestChunk(v.parts[1].req, Len(v.parts) + 1, v.total) THEN {}
  ELSE {Interrupted(CommError), Interrupted([v EXCEPT !.at = "acking"])}

\* The xrecv of receive_message's loop tolerates empty buffers.
NextChunk(v, data) ==
  CASE data.kind = "empty"   -> {Interrupted(v)}
    [] data.kind = "nothing" -> {Done("VMRuntimeError")}
    [] data.kind \in {"ACK", "request"} -> Took(Append(v.parts, data), v.total) \cup Strange(v, data)

\* send_message waits for an ACK; a longer message does not fit its one-byte buffer,
\* and xrecv fails.
AwaitAck(v, data) ==
  CASE data.kind = "ACK"     -> {Interrupted(At("replying", v.parts, v.sent + 1, v.total))}
    [] data.kind = "empty"   -> {Interrupted(CommError)}
    [] data.kind \in {"nothing", "request"} -> {Done("VMRuntimeError")}

\* The answers of the VM to Continue(data), when V-App v waits.
Resume(v, data) ==
  CASE v.at = "idle"      -> FirstChunk(data)
    [] v.at = "acking"    -> {Interrupted([v EXCEPT !.at = "more"])}
    [] v.at = "more"      -> NextChunk(v, data)
    [] v.at = "printing"  -> {Interrupted([v EXCEPT !.at = "replying"])}
    [] v.at = "replying"  -> {Interrupted(IF v.sent < v.total THEN [v EXCEPT !.at = "ackWait"] ELSE Idle)}
    [] v.at = "ackWait"   -> AwaitAck(v, data)
    [] v.at \in PanicMessages -> {Done("VAppPanic")}

-----------------------------------------------------------------------------
(* The VM's main loop (handle_apdu) and interrupt: a waiting VM takes no APDU but  *)
(* Continue, and gives up its V-App for any other one.                            *)
OnContinue(data) == IF vapp = NotRunning THEN {Done("InsNotSupported")} ELSE Resume(vapp, data)

OnStartVApp == IF vapp = NotRunning THEN {Interrupted(Idle)} ELSE {Done("VMRuntimeError")}

\* GetAppInfo and PreloadVApp. What they do for an idle VM is not seen here.
OnOtherCommand == IF vapp = NotRunning THEN {Done("OK")} ELSE {Done("VMRuntimeError")}
=============================================================================
