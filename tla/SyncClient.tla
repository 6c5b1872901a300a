----------------------------- MODULE SyncClient -----------------------------
(***************************************************************************)
(* SyncVanadiumAppClient (client-sdk/src/vanadium_client.rs): the engine   *)
(* moves only while a request waits for its response, and stays when the   *)
(* V-App has stopped.                                                      *)
(***************************************************************************)
EXTENDS HostComm

vars == <<vapp, engine, hostVars>>

Init == EngineInit /\ HostInit

StartVApp ==
  \/ /\ engine # NoEngine
     /\ Immediate("start", Failure("VAppAlreadyRunning"))
     /\ UNCHANGED <<engine, vapp>>
  \/ /\ engine = NoEngine
     /\ \E o \in StartOutcomes :
          Immediate("start", o.result) /\ engine' = o.engine /\ vapp' = o.vapp

StopVApp ==
  /\ Immediate("stop", None)
  /\ engine' = NoEngine
  /\ UNCHANGED vapp

GetAppInfo(op) ==
  \E o \in AppInfoOutcomes :
    Immediate(op, o.result) /\ vapp' = o.vapp /\ UNCHANGED engine

SendRequest(r, n) ==
  /\ call = NoCall
  /\ r \notin requested
  /\ requested' = requested \cup {r}
  /\ \/ /\ engine = NoEngine
        /\ outcome' = [call |-> Request(r, n, 1, <<>>), result |-> Failure("VAppNotRunning")]
        /\ UNCHANGED <<call, engine>>
     \/ /\ engine # NoEngine
        /\ call' = Request(r, n, 1, <<>>)
        /\ engine' = [engine EXCEPT !.buffer = RequestChunk(r, 1, n)]
        /\ UNCHANGED outcome
  /\ UNCHANGED <<vapp, mail, calls, cancels>>

\* A turn of send_message's loop: it goes on, or hands the result over to the protocol
\* of comm.rs, which returns it or sends the next message.
Respond(next, e) ==
  IF next.call = NoCall THEN outcome' = Returned(next.result) /\ engine' = e
  ELSE UNCHANGED outcome /\ engine' = [e EXCEPT !.buffer = next.post]

StepEngine ==
  /\ call # NoCall
  /\ \E o \in StepOutcomes :
       /\ vapp' = o.vapp
       /\ IF StepResult = None
          THEN engine' = o.engine /\ UNCHANGED <<call, outcome>>
          ELSE LET next == After(StepResult) IN
               call' = next.call /\ Respond(next, o.engine)
  /\ UNCHANGED <<mail, requested, calls, cancels>>

-----------------------------------------------------------------------------
(* The program drops a call's future, which can only be waiting for an exchange: its APDU *)
(* has reached the device or not, and nobody takes the answer.                            *)

\* process_receive_buffer has taken the buffer already; what the engine knows of the
\* V-App is what it knew before.
GiveUp ==
  /\ call # NoCall /\ engine.status = "InterruptedExecution"
  /\ cancels < MaxCancels
  /\ cancels' = cancels + 1
  /\ call' = NoCall
  /\ engine' = IF engine.command.code = "ReceiveBuffer" THEN [engine EXCEPT !.buffer = NoBuffer] ELSE engine
  /\ vapp' \in {vapp} \cup {o.vapp : o \in StepOutcomes}
  /\ UNCHANGED <<mail, outcome, requested, calls>>

\* A start_vapp that is given up has no engine for the V-App that it may have started.
GiveUpOther(op) ==
  /\ op \in Calls \ {"stop"}
  /\ call = NoCall
  /\ calls < MaxCalls /\ cancels < MaxCancels
  /\ calls' = calls + 1 /\ cancels' = cancels + 1
  /\ \/ /\ op = "start" /\ engine = NoEngine
        /\ vapp' \in {vapp} \cup {o.vapp : o \in StartOutcomes}
     \/ /\ op # "start"
        /\ vapp' \in {vapp} \cup {answer.vapp : answer \in OnOtherCommand}
  /\ UNCHANGED <<engine, call, mail, outcome, requested>>

-----------------------------------------------------------------------------
Next ==
  \/ StartVApp \/ StopVApp \/ GetMetrics
  \/ \E op \in {"info", "preload"} : GetAppInfo(op)
  \/ \E r \in Requests : \E n \in 1 .. MaxReqChunks : SendRequest(r, n)
  \/ StepEngine
  \/ GiveUp \/ \E op \in Calls : GiveUpOther(op)

Spec == Init /\ [][Next]_vars /\ WF_vars(StepEngine)

-----------------------------------------------------------------------------
\* Until a call is given up, step's idea of what the V-App waits for is right. A future
\* that is dropped in an exchange leaves the engine behind the device: the next message may
\* then go to a V-App that waits for something else, and is lost.
InLockstepUntilGivenUp == cancels = 0 => InLockstep
=============================================================================
