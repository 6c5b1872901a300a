----------------------------- MODULE VAppRuntime ----------------------------
(***************************************************************************)
(* The runtime of a V-App: App::run_loop and the flows that a handler may  *)
(* use (app-sdk/src/app.rs, app-sdk/src/ux.rs), over the cooperative       *)
(* executor (app-sdk/src/executor.rs). The root future is the loop; tasks  *)
(* that a handler spawned are polled while it waits for an event, or while *)
(* it takes or drops their handles. What a handler calls, and in which     *)
(* order, is its own choice; tasks do not wait for each other.             *)
(***************************************************************************)
EXTENDS UxScreens, SequencesExt

CONSTANTS
  Tasks,        \* Tasks of spawn_task: the handler has a handle.
  Children,     \* Tasks that other tasks spawn, with executor::spawn.
  MaxPolls,     \* Bound of the model: polls that a task needs.
  InfoTicks,    \* Tickers that show_info's screen stays (30 in the code).
  MaxCalls,     \* Bound of the model: flows, spawned tasks and screens.
  Nobody

ASSUME VAppRuntimeAssumption ==
  /\ Tasks \cap Children = {} /\ Nobody \notin Tasks /\ "all" \notin Tasks \cup {Nobody}
  /\ MaxPolls \in Nat \ {0} /\ InfoTicks \in Nat \ {0} /\ MaxCalls \in Nat

VARIABLES
  pc,        \* Where the root future is.
  flow,      \* Who waits for an event, and at which place of its flow.
  view, dirty, ticks,     \* current_view, ux_dirty, cleanup_ticks
  tasks, taken, i,        \* The executor's list; poll_once's own list and its index.
  left,      \* Polls that each task still needs.
  handle,    \* Its handle: "none", "held" or "gone".
  result, cancelled,      \* What handle and task share.
  spin,      \* What polls the executor: a handle, or nobody (block_on).
  polls,     \* History: polls of each task in this round.
  verdict,   \* History: where the last approval of a review was pressed.
  calls

appVars == <<flow, view, dirty, ticks, verdict>>
taskVars == <<tasks, taken, i, left, handle, result, cancelled, spin, polls>>
vars == <<uxVars, pc, appVars, taskVars, calls>>

HomePage == <<"HomePage", 0>>
HomeIntroStep == <<"HomeIntroStep", 0>>
Home == IF HasPageApi THEN HomePage ELSE HomeIntroStep

Init ==
  /\ api \in {"page", "step", "native"}
  /\ screen = <<"vm", 0>> /\ event = NoEvent
  /\ pc = "loop" /\ flow = <<"loop", 0>>
  /\ view = <<"None", 0>> /\ dirty = TRUE /\ ticks = 0
  /\ tasks = <<>> /\ taken = <<>> /\ i = 1
  /\ left = [t \in Tasks \cup Children |-> 0]
  /\ handle = [t \in Tasks |-> "none"]
  /\ result = {} /\ cancelled = {} /\ spin = Nobody
  /\ polls = [t \in Tasks \cup Children |-> 0]
  /\ verdict = "none" /\ calls = 0

-----------------------------------------------------------------------------
(* poll_once.                                                                  *)

\* It takes the list away, so that tasks can spawn others meanwhile.
BeginRound ==
  /\ taken' = tasks /\ tasks' = <<>> /\ i' = 1
  /\ pc' = "poll"
  /\ polls' = [t \in DOMAIN polls |-> 0]

SwapRemove(s, k) == SubSeq([s EXCEPT ![k] = s[Len(s)]], 1, Len(s) - 1)

\* CancellableFuture, and the future of the task.
IsReady(t) == t \in cancelled \/ left[t] = 1

PollReadySkipping ==
  /\ taken' = SwapRemove(taken, i) /\ i' = i + 1
  /\ result' = IF taken[i] \in Tasks \ cancelled THEN result \cup {taken[i]} ELSE result
  /\ left' = [left EXCEPT ![taken[i]] = 0]
  /\ UNCHANGED tasks

PollReady ==
  /\ taken' = SwapRemove(taken, i) /\ i' = i
  /\ result' = IF taken[i] \in Tasks \ cancelled THEN result \cup {taken[i]} ELSE result
  /\ left' = [left EXCEPT ![taken[i]] = 0]
  /\ UNCHANGED tasks

\* A task that goes on; it may spawn another one.
PollPending ==
  /\ i' = i + 1
  /\ \/ /\ left' = [left EXCEPT ![taken[i]] = @ - 1]
        /\ UNCHANGED tasks
     \/ \E c \in {c \in Children : left[c] = 0} :
          /\ taken[i] \in Tasks
          /\ left' = [left EXCEPT ![taken[i]] = @ - 1, ![c] = 1]
          /\ tasks' = Append(tasks, c)
  /\ UNCHANGED <<taken, result>>

PollTask ==
  /\ pc = "poll" /\ i <= Len(taken)
  /\ IF IsReady(taken[i]) THEN PollReady ELSE PollPending
  /\ polls' = [polls EXCEPT ![taken[i]] = @ + 1]
  /\ UNCHANGED <<uxVars, pc, appVars, handle, cancelled, spin, calls>>

MergeLosingSurvivors == IF tasks = <<>> THEN taken ELSE tasks

Merge == tasks \o taken

EndRound ==
  /\ pc = "poll" /\ i > Len(taken)
  /\ tasks' = Merge /\ taken' = <<>> /\ i' = 1
  /\ pc' = IF spin = Nobody THEN "ticker" ELSE "spin"
  /\ UNCHANGED <<uxVars, appVars, left, handle, result, cancelled, spin, polls, calls>>

-----------------------------------------------------------------------------
(* process_ux_events, run_loop and exchange.                                   *)

AppInfoPage == <<"AppInfoPage", 0>>
HomeAppInfoStep == <<"HomeAppInfoStep", 0>>
HomeQuitStep == <<"HomeQuitStep", 0>>
AppInfoStep(n) == <<"AppInfoStep", n>>

Navigation ==
  {<<HomePage, "TopRight", AppInfoPage>>, <<AppInfoPage, "Quit", HomePage>>,
   <<HomeIntroStep, "NextPage", HomeAppInfoStep>>,
   <<HomeAppInfoStep, "PreviousPage", HomeIntroStep>>,
   <<HomeAppInfoStep, "Confirm", AppInfoStep(0)>>,
   <<HomeAppInfoStep, "NextPage", HomeQuitStep>>,
   <<HomeQuitStep, "PreviousPage", HomeAppInfoStep>>,
   <<AppInfoStep(NAppInfoSteps - 1), "Confirm", HomeAppInfoStep>>}
  \cup {<<AppInfoStep(n - 1), "NextPage", AppInfoStep(n)>> : n \in 1 .. NAppInfoSteps - 1}
  \cup {<<AppInfoStep(n), "PreviousPage", AppInfoStep(n - 1)>> : n \in 1 .. NAppInfoSteps - 1}

Quits == {<<HomePage, "Quit">>, <<HomeQuitStep, "Confirm">>}

ShowDashboard ==
  /\ pc = "loop"
  /\ pc' = "event" /\ flow' = <<"loop", 0>>
  /\ IF dirty /\ ticks = 0
     THEN Show(Home) /\ view' = Home /\ dirty' = FALSE
     ELSE UNCHANGED <<uxVars, view, dirty>>
  /\ UNCHANGED <<ticks, verdict, taskVars, calls>>

\* An event without a meaning in this view is printed and forgotten.
Navigate ==
  /\ event # NoEvent
  /\ \/ \E to \in {n[3] : n \in {n \in Navigation : n[1] = view /\ n[2] = event.action}} :
          /\ screen' = to /\ view' = to
          /\ pc' = "receive"
     \/ /\ \A n \in Navigation : <<n[1], n[2]>> # <<view, event.action>>
        /\ pc' = IF <<view, event.action>> \in Quits THEN "exited" ELSE "receive"
        /\ UNCHANGED <<screen, view>>
  /\ event' = NoEvent
  /\ UNCHANGED <<api, flow, verdict>>

OnLoopEvent ==
  /\ pc = "event" /\ flow[1] \in {"loop", "exchange"}
  /\ Navigate
  /\ UNCHANGED <<dirty, ticks, taskVars, calls>>

\* get_event without an event: the VM waits for the next ticker, and the root yields.
GetTicker ==
  /\ pc = "event" /\ event = NoEvent
  /\ BeginRound
  /\ UNCHANGED <<uxVars, appVars, left, handle, result, cancelled, spin, calls>>

OnTicker ==
  /\ pc = "ticker"
  /\ IF flow[1] \in {"loop", "exchange"}
     THEN pc' = "receive" /\ ticks' = IF ticks > 0 THEN ticks - 1 ELSE 0
     ELSE pc' = "event" /\ UNCHANGED ticks
  /\ UNCHANGED <<uxVars, flow, view, dirty, verdict, taskVars, calls>>

\* receive_message: there is a message, or there is none.
Receive ==
  /\ pc = "receive"
  /\ \/ pc' = "handler"
     \/ pc' = IF flow[1] = "loop" THEN "loop" ELSE "event"
  /\ UNCHANGED <<uxVars, appVars, taskVars, calls>>

-----------------------------------------------------------------------------
(* What a handler may call.                                                    *)

Called == pc = "handler" /\ calls < MaxCalls /\ calls' = calls + 1

SetUxDirty == dirty' = TRUE /\ ticks' = 0

ShowSpinnerQuietly ==
  /\ Show(<<"spinner", 0>>)
  /\ UNCHANGED <<dirty, ticks>>

ShowSpinner ==
  /\ SetUxDirty
  /\ Show(<<"spinner", 0>>)

Spinner ==
  /\ Called /\ ShowSpinner
  /\ UNCHANGED <<pc, flow, view, verdict, taskVars>>

ShowInfo ==
  /\ Called
  /\ dirty' = TRUE /\ ticks' = InfoTicks
  /\ Show(<<"info", 0>>)
  /\ UNCHANGED <<pc, flow, view, verdict, taskVars>>

\* review_pairs and show_confirm_reject begin with their first screen.
Ask(kind) ==
  /\ Called /\ SetUxDirty
  /\ pc' = "event" /\ flow' = <<kind, 0>>
  /\ Show(<<kind, 0>>)
  /\ UNCHANGED <<view, verdict, taskVars>>

\* Exchange sends a message to the host, and serves the screen until the answer comes.
Exchange ==
  /\ Called
  /\ pc' = "event" /\ flow' = <<"exchange", 0>>
  /\ UNCHANGED <<uxVars, view, dirty, ticks, verdict, taskVars>>

SpawnTask(t, n) ==
  /\ Called /\ handle[t] = "none"
  /\ handle' = [handle EXCEPT ![t] = "held"]
  /\ tasks' = Append(tasks, t)
  /\ left' = [left EXCEPT ![t] = n]
  /\ UNCHANGED <<uxVars, pc, appVars, taken, i, result, cancelled, spin, polls>>

\* await_task shows a spinner while it waits; take alone does not.
AwaitTask(t) ==
  /\ pc = "handler" /\ handle[t] = "held"
  /\ \/ t \notin result /\ ShowSpinner
     \/ UNCHANGED <<uxVars, dirty, ticks>>
  /\ pc' = "spin" /\ spin' = t
  /\ UNCHANGED <<flow, view, verdict, tasks, taken, i, left, handle, result, cancelled, polls, calls>>

\* Drop for TaskHandle, also of the handles that the handler still has when it returns.
DropTask(t) ==
  /\ pc = "handler" /\ handle[t] = "held"
  /\ cancelled' = cancelled \cup {t}
  /\ pc' = "spin" /\ spin' = t
  /\ UNCHANGED <<uxVars, appVars, tasks, taken, i, left, handle, result, polls, calls>>

\* take waits for the result, drop for the future's end: its Rc has one owner left.
SpunEnoughAtOnce(t) == t \in cancelled \/ t \in result

SpunEnough(t) ==
  CASE t = "all"       -> \A h \in Tasks : handle[h] = "held" => h \in result
    [] t \in cancelled -> t \notin ToSet(tasks)
    [] OTHER           -> t \in result

\* await_all waits for the tasks of all handles, which the handler keeps.
AwaitAll ==
  /\ Called
  /\ \E t \in Tasks : handle[t] = "held"
  /\ IF SpunEnough("all") THEN UNCHANGED <<uxVars, dirty, ticks>> ELSE ShowSpinner
  /\ pc' = "spin" /\ spin' = "all"
  /\ UNCHANGED <<flow, view, verdict, tasks, taken, i, left, handle, result, cancelled, polls>>

Spin ==
  /\ pc = "spin"
  /\ \/ /\ SpunEnough(spin)
        /\ handle' = [t \in Tasks |-> IF t = spin THEN "gone" ELSE handle[t]]
        /\ result' = result \ {spin}
        /\ pc' = "handler" /\ spin' = Nobody
        /\ UNCHANGED <<tasks, taken, i, polls>>
     \/ /\ ~SpunEnough(spin)
        /\ BeginRound
        /\ UNCHANGED <<handle, result, spin>>
  /\ UNCHANGED <<uxVars, appVars, left, cancelled, calls>>

\* The handler's future ends and its response is sent.
Return ==
  /\ pc = "handler"
  /\ \A t \in Tasks : handle[t] # "held"
  /\ pc' = "loop"
  /\ UNCHANGED <<uxVars, appVars, taskVars, calls>>

-----------------------------------------------------------------------------
(* review_pairs and show_confirm_reject, for pages and for steps.              *)

LastPlace(kind) ==
  IF HasPageApi THEN (IF kind = "review" THEN LastPage ELSE 0)
  ELSE IF kind = "review" THEN RejectStep ELSE 2

FinalPlace(kind) == IF HasPageApi THEN LastPlace(kind) ELSE LastPlace(kind) - 1

Moves(kind, at, a) ==
  {p \in 0 .. LastPlace(kind) :
     (a = "NextPage" /\ p = at + 1) \/ (a = "PreviousPage" /\ p + 1 = at)}

Answers(kind, at, a) ==
  IF HasPageApi
  THEN {b \in BOOLEAN : a = (IF b THEN "Confirm" ELSE IF kind = "review" THEN "Quit" ELSE "Reject")}
  ELSE {b \in BOOLEAN : a = "Confirm" /\ at = LastPlace(kind) - (IF b THEN 1 ELSE 0)}

OnFlowEvent ==
  LET kind == flow[1]
      at == flow[2]
  IN /\ pc = "event" /\ kind \in {"review", "confirmReject"}
     /\ event # NoEvent
     /\ \/ \E p \in Moves(kind, at, event.action) :
             /\ flow' = <<kind, p>> /\ screen' = flow' /\ UNCHANGED pc
             /\ \/ api # "native" /\ event' = NoEvent
                \/ /\ api = "native"
                   /\ \E a \in NativeOffers(flow') : event' = [action |-> a, fresh |-> TRUE]
             /\ UNCHANGED <<api, verdict>>
        \/ \E b \in Answers(kind, at, event.action) :
             /\ pc' = "handler" /\ flow' = <<"loop", 0>>
             /\ verdict' = IF kind = "review" /\ b
                           THEN IF event.fresh /\ at = FinalPlace(kind) THEN "final" ELSE "elsewhere"
                           ELSE verdict
             /\ TakeEvent
        \/ /\ Moves(kind, at, event.action) = {} /\ Answers(kind, at, event.action) = {}
           /\ TakeEvent /\ UNCHANGED <<pc, flow, verdict>>
     /\ UNCHANGED <<view, dirty, ticks, taskVars, calls>>

-----------------------------------------------------------------------------
Actions == {"Confirm", "Reject", "Quit", "PreviousPage", "NextPage", "TopRight"}

User == \E a \in Actions : Press(a) /\ UNCHANGED <<pc, appVars, taskVars, calls>>

Handler ==
  \/ Spinner \/ ShowInfo \/ Exchange \/ AwaitAll \/ Return
  \/ \E kind \in {"review", "confirmReject"} : Ask(kind)
  \/ \E t \in Tasks : AwaitTask(t) \/ DropTask(t) \/ \E n \in 1 .. MaxPolls : SpawnTask(t, n)

Root ==
  \/ ShowDashboard \/ OnLoopEvent \/ OnFlowEvent \/ GetTicker \/ OnTicker \/ Receive
  \/ Spin \/ PollTask \/ EndRound

Next == User \/ Handler \/ Root

\* The V-App runs, tickers keep coming, and a handler does not stop in the middle; that
\* the user presses anything is not assumed.
Spec == Init /\ [][Next]_vars /\ WF_vars(Root) /\ WF_vars(Handler)

-----------------------------------------------------------------------------
\* A task borrows what its handler owns, with its lifetime erased (app.rs:496, "SAFETY"):
\* once its handle is gone, taken or dropped, its future is gone too.
BorrowsRespected ==
  \A t \in Tasks : handle[t] = "gone" => t \notin ToSet(tasks) \cup ToSet(taken)

\* "Polls every pending task once" (executor.rs:56): each task that poll_once took is polled
\* once in the round, whichever others finish and are swapped away, or are spawned, meanwhile.
\* A task that is spawned during the round is not among these: its first poll is in the next.
EachPolledOnce ==
  pc = "poll" /\ i > Len(taken) =>
    /\ \A t \in ToSet(taken) : polls[t] = 1
    /\ \A t \in Tasks \cup Children : polls[t] <= 1
    /\ ToSet(taken) \cap ToSet(tasks) = {}

\* When the loop waits for an event and no dashboard is due, the screen is the one that
\* process_ux_events takes the event for, whatever flows, spinners, exchanges and tickers
\* came before.
ScreenMatchesView ==
  pc = "event" /\ flow[1] = "loop" /\ ~dirty => screen = view

\* The V-App always comes back to wait for an event, unless the user quits: no take and
\* no drop polls the executor for ever, and no task is lost with a handle that waits for it.
NeverSpins == []<>(pc \in {"event", "exited"})

\* "Returns `true` if the user confirms/approves on the final screen" (app.rs:586): the press
\* that approves a review was made while its final screen was shown.
ConfirmedOnFinalScreen == verdict # "elsewhere"

\* "Tasks that call [`spawn`] during polling are picked up in the same round"
\* (executor.rs:112): when a round ends, what was spawned in it has been polled.
SpawnedPolledInRound ==
  pc = "poll" /\ i > Len(taken) => \A t \in ToSet(tasks) : polls[t] > 0

\* Two comments of the code. The run shows a state at which both are false, and so refutes
\* each of them.
SomeDocumentHolds == ConfirmedOnFinalScreen \/ SpawnedPolledInRound
=============================================================================
