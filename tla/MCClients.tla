------------------------------ MODULE MCClients -----------------------------
(***************************************************************************)
(* The two clients, side by side: a behaviour is of one of them. Without a *)
(* worker there are fewer interleavings, and room for longer messages and  *)
(* more calls.                                                             *)
(***************************************************************************)
EXTENDS AsyncClient

CONSTANTS
  SyncChunks,    \* Chunks of a request or a response, without a worker.
  SyncCalls      \* Bound of the model: other calls, without a worker.

ASSUME SyncAssumption == SyncChunks \in Nat \ {0} /\ SyncCalls \in Nat

VARIABLE kind

Sync ==
  INSTANCE SyncClient WITH MaxReqChunks <- SyncChunks, MaxRespChunks <- SyncChunks,
                           MaxCalls <- SyncCalls

mcVars == <<vars, kind>>

MCInit == kind \in {"sync", "async"} /\ Init

AsyncNext == kind = "async" /\ Next /\ UNCHANGED kind
SyncNext == kind = "sync" /\ Sync!Next /\ UNCHANGED <<queue, worker, pending, kind>>

MCSpec ==
  /\ MCInit
  /\ [][AsyncNext \/ SyncNext]_mcVars
  /\ WF_mcVars(kind = "async" /\ Receive /\ UNCHANGED kind)
  /\ WF_mcVars(kind = "async" /\ Work /\ UNCHANGED kind)
  /\ WF_mcVars(kind = "sync" /\ Sync!StepEngine /\ UNCHANGED <<queue, worker, pending, kind>>)

\* Without a worker, what follows a call that was given up in an exchange is undefined.
Unbroken == kind = "async" \/ cancels = 0

\* The engine's idea of what the V-App waits for is right: with a worker, whose exchanges
\* nobody can break off, whatever calls are given up; without one, until a call is given up,
\* because step's future is then dropped in the middle of its exchange.
EngineInLockstep == Unbroken => InLockstep

\* Every call returns, or is given up, also when the V-App is stopped, exits, panics or is
\* aborted meanwhile: worker_loop answers each message that it takes, and send_message
\* of VAppEngine steps until there is a response. After a call that was given up without
\* a worker it may step for ever: the V-App can have missed the message.
EveryCallReturns == Unbroken /\ call # NoCall ~> call = NoCall

\* TransmittedFully without a worker: send_message of VAppEngine steps the V-App only while a
\* request waits, so its xrecv never comes before the host has sent what it is for, and no
\* message of several chunks fails for the protocol's sake.
SyncTransmitsFully == kind = "sync" => TransmittedFully

\* NothingReplaced of the worker: no message that worker_loop accepted is replaced in the
\* engine by the next one before the V-App has received it.
WorkerReplacesNothing == kind = "async" => NothingReplaced
=============================================================================
