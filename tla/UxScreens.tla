------------------------------ MODULE UxScreens -----------------------------
(***************************************************************************)
(* The screen of a device and its one-place store of events: UxHandler     *)
(* (vm/src/handlers/lib/ecall/ux_handler.rs), the get_event and show_page  *)
(* or show_step ECALLs, and their emulation for native execution           *)
(* (app-sdk/src/ecalls_native.rs). A screen is its name and its place in   *)
(* its flow. The VM handles a touch or a button whenever it waits, for a   *)
(* page of memory for instance, so the user can press at any time.         *)
(***************************************************************************)
EXTENDS Naturals, Sequences, FiniteSets

CONSTANTS
  PairHeights,    \* estimate_pair_height of the pairs that are reviewed.
  ContentHeight,  \* content_height_px
  NAppInfoSteps   \* n_appinfo_steps

ASSUME UxScreensAssumption ==
  /\ PairHeights \in Seq(Nat) /\ ContentHeight \in Nat
  /\ NAppInfoSteps \in {3, 4}

VARIABLES
  api,       \* What has_page_api finds: "page", "step", or "native", which has pages.
  screen,
  event      \* LAST_EVENT, and whether it was made on the screen that is shown now.

uxVars == <<api, screen, event>>

NoEvent == [action |-> "None", fresh |-> FALSE]
HasPageApi == api # "step"

-----------------------------------------------------------------------------
\* compute_pair_page_ranges: as many pairs on a page as fit, and at least one.
PageFrom(start) ==
  CHOOSE end \in start .. Len(PairHeights) :
    LET Height[k \in start .. Len(PairHeights)] ==
          PairHeights[k] + (IF k = start THEN 0 ELSE Height[k - 1])
    IN /\ end > start => Height[end] <= ContentHeight
       /\ end < Len(PairHeights) => Height[end + 1] > ContentHeight

PairPages ==
  LET PagesFrom[start \in 1 .. Len(PairHeights) + 1] ==
        IF start > Len(PairHeights) THEN 0 ELSE 1 + PagesFrom[PageFrom(start) + 1]
  IN PagesFrom[1]

\* Places of a review: an introduction, the pairs, and where it ends.
LastPage == PairPages + 1
ConfirmStep == Len(PairHeights) + 1
RejectStep == Len(PairHeights) + 2

-----------------------------------------------------------------------------
\* What the pages that the V-App makes let the user do: quit_text, has_back_button and
\* the page's content.
PageOffers(s) ==
  CASE s[1] = "HomePage" -> {"TopRight", "Quit"}
    [] s[1] = "AppInfoPage" -> {"Quit"}
    [] s[1] = "confirmReject" -> {"Confirm", "Reject"}
    [] s[1] = "review" -> {"Quit"} \cup (IF s[2] > 0 THEN {"PreviousPage"} ELSE {})
                          \cup (IF s[2] < LastPage THEN {"NextPage"} ELSE {"Confirm"})
    [] OTHER -> {}

\* Steps report the buttons wherever they are.
StepOffers(s) == IF s[1] = "vm" THEN {} ELSE {"PreviousPage", "NextPage", "Confirm"}

\* The native emulation prompts while it shows the page; it never offers the previous
\* page, and nothing at home.
NativeOffers(s) == IF s[1] = "HomePage" THEN {} ELSE PageOffers(s) \ {"PreviousPage"}

\* store_new_event: an event that waits is kept, the new one is dropped. Nobody stores tickers.
StoreNewEvent(a) == IF event = NoEvent THEN [action |-> a, fresh |-> TRUE] ELSE event

\* layout_touch_callback, step_button_callback.
Press(a) ==
  /\ api # "native"
  /\ a \in (IF HasPageApi THEN PageOffers(screen) ELSE StepOffers(screen))
  /\ event = NoEvent
  /\ event' = StoreNewEvent(a)
  /\ UNCHANGED <<api, screen>>

\* The ECALLs show_page and show_step: neither touches an event that waits.
Show(s) ==
  /\ screen' = s
  /\ \/ /\ api # "native" \/ NativeOffers(s) = {}
        /\ event' = [event EXCEPT !.fresh = FALSE]
     \/ /\ api = "native"
        /\ \E a \in NativeOffers(s) : event' = StoreNewEvent(a)
  /\ UNCHANGED api

TakeEvent == event' = NoEvent /\ UNCHANGED <<api, screen>>
=============================================================================
