----------------------------- MODULE FocusTimer -----------------------------
(***************************************************************************)
(* The focus timer (screens/FocusTimer): a countdown and a count-up timer  *)
(* on two tabs of one page.  A finished session is paid with addMoney and  *)
(* reported to saveFocusTime from the builder of a dialog.  Dialogs cannot *)
(* be closed by a touch outside, but the back button of an Android device  *)
(* closes any dialog without running a handler of the app.                 *)
(***************************************************************************)
EXTENDS Integers

CONSTANTS
  Minute,         \* seconds in a minute, minutes in an hour: 60 in the program
  Threshold,      \* the shortest session that can be finished: 10 in the program
  DefaultLength,  \* the countdown a new page shows: 1500 in the program
  Lengths,        \* the countdowns the three sliders can be set to
  InitMoney,      \* the balance of the account
  OtherChanges,   \* changes to it by other devices and purchases in flight
  MaxOther,       \* bound: how many of those
  MaxStarts,      \* bound: how often startTimer runs
  MaxCount,       \* bound: how far the count-up timer runs
  MaxDismissals,  \* bound: uses of the back button on a dialog; 0 on iOS
  MaxCrashes      \* bound: how often the app is killed

ASSUME ClockAssumption ==
  /\ Minute \in Nat \ {0}
  /\ Threshold \in Nat \ {0}
  /\ Lengths \subseteq Nat
  /\ DefaultLength \in Lengths
  /\ MaxCount \in Nat

ASSUME LedgerAssumption == InitMoney \in Int /\ OtherChanges \subseteq Int

ASSUME BoundsAssumption ==
  /\ MaxOther \in Nat
  /\ MaxStarts \in Nat
  /\ MaxDismissals \in Nat
  /\ MaxCrashes \in Nat

VARIABLES
  money,       \* field "money" of the user's document
  homeMoney,   \* _HomeScreenState.fishMoney
  page,        \* the home screen, or the tab of FocusTimerScreen that is shown
  read,        \* getMarMoney of the tab: asked, answered, or continued
  answer,      \* the balance that answered it, until it continues
  fishMoney,   \* the tab's copy of the balance
  hvStarted,   \* of the tab and, always alike, of FocusTimerScreen
  running,     \* the periodic timer is active
  duration,    \* the seconds shown: left to go, or counted so far
  initialDur,  \* the length of the countdown since its last startTimer
  dialog,      \* the dialog on top of the page
  saved,       \* saved[t]: history, the seconds tab t passed to saveFocusTime
  ticks,       \* ticks[t]: history, the ticks of tab t's timer
  overtaken,   \* history, the coins the tab paid while its read was answered only
  used         \* how much of each bound is used up

accountVars == <<money, homeMoney>>
readVars == <<read, answer, overtaken>>
tabVars == <<page, readVars, initialDur>>
vars == <<money, homeMoney, page, read, answer, fishMoney, hvStarted, running,
          duration, initialDur, dialog, saved, ticks, overtaken, used>>

Tabs == {"countdown", "countup"}
Bounds == [other : 0 .. MaxOther, starts : 0 .. MaxStarts,
           dismissals : 0 .. MaxDismissals, crashes : 0 .. MaxCrashes]

TypeOK ==
  /\ money \in Int
  /\ homeMoney \in Int
  /\ page \in Tabs \union {"home"}
  /\ read \in {"asked", "answered", "continued"}
  /\ answer \in Int
  /\ fishMoney \in Int
  /\ hvStarted \in BOOLEAN
  /\ running \in BOOLEAN
  /\ duration \in Nat
  /\ initialDur \in Nat
  /\ dialog \in {"none", "cancel", "complete"}
  /\ saved \in [Tabs -> Nat]
  /\ ticks \in [Tabs -> Nat]
  /\ overtaken \in Nat
  /\ used \in Bounds

Init ==
  /\ money = InitMoney
  /\ homeMoney = InitMoney
  /\ page = "home"
  /\ read = "asked"
  /\ answer = 0
  /\ fishMoney = 0
  /\ hvStarted = FALSE
  /\ running = FALSE
  /\ duration = 0
  /\ initialDur = 0
  /\ dialog = "none"
  /\ saved = [t \in Tabs |-> 0]
  /\ ticks = [t \in Tabs |-> 0]
  /\ overtaken = 0
  /\ used = [other |-> 0, starts |-> 0, dismissals |-> 0, crashes |-> 0]

\* timeString, whose three fields are the two-digit texts on the screen; and the
\* coins for a session, computed back from them: an hour counts as a minute.
TimeString(seconds) ==
  LET hour == Minute * Minute
  IN  [h |-> seconds \div hour,
       m |-> (seconds % hour) \div Minute,
       s |-> (seconds % hour) % Minute]

MoneyEarned(seconds) ==
  LET t == TimeString(seconds) IN t.s + t.m * Minute + t.h * Minute

-----------------------------------------------------------------------------
(* The page. *)

loading == read # "continued"

\* No State, or the State of a tab before getMarMoney has answered.
Fresh(shown, length) ==
  /\ page' = shown
  /\ read' = "asked"
  /\ answer' = 0
  /\ overtaken' = 0
  /\ fishMoney' = 0
  /\ hvStarted' = FALSE
  /\ running' = FALSE
  /\ duration' = length
  /\ initialDur' = length
  /\ dialog' = "none"

ShowTab(t) == Fresh(t, IF t = "countdown" THEN DefaultLength ELSE 0)

OpenTimer ==
  /\ page = "home"
  /\ ShowTab("countdown")
  /\ UNCHANGED <<accountVars, saved, ticks, used>>

\* The tabs can be chosen only while nothing is started.
SwitchTab ==
  /\ page # "home"
  /\ ~ hvStarted
  /\ \E t \in Tabs \ {page} : ShowTab(t)
  /\ UNCHANGED <<accountVars, saved, ticks, used>>

\* getMarMoney, suspended until its read is answered.  The countdown tab shows nothing
\* but a sign of loading until it continues, the count-up tab can be used meanwhile.
AnswerMoney ==
  /\ page # "home"
  /\ read = "asked"
  /\ read' = "answered"
  /\ answer' = money
  /\ UNCHANGED <<accountVars, page, overtaken, fishMoney, hvStarted, running, duration,
                 initialDur, dialog, saved, ticks, used>>

Load ==
  /\ page # "home"
  /\ read = "answered"
  /\ read' = "continued"
  /\ fishMoney' = answer
  /\ answer' = 0
  /\ UNCHANGED <<accountVars, page, overtaken, hvStarted, running, duration,
                 initialDur, dialog, saved, ticks, used>>

SetLength ==
  /\ page = "countdown"
  /\ ~ loading
  /\ ~ hvStarted
  /\ duration' \in Lengths
  /\ UNCHANGED <<accountVars, tabVars, fishMoney, hvStarted, running, dialog,
                 saved, ticks, used>>

\* The page is popped and its State disposed of, with the timer.
Close == Fresh("home", 0)

LeaveTimer ==
  /\ page # "home"
  /\ dialog = "none"
  /\ Close
  /\ UNCHANGED <<accountVars, saved, ticks, used>>

-----------------------------------------------------------------------------
(* The timer. *)

\* Mutant: the old timer is cancelled after the new one is assigned.
startTimerMutant ==
  /\ used.starts < MaxStarts
  /\ used' = [used EXCEPT !.starts = @ + 1]
  /\ hvStarted' = TRUE
  /\ running' = FALSE
  /\ initialDur' = IF page = "countdown" THEN duration ELSE initialDur

startTimer ==
  /\ used.starts < MaxStarts
  /\ used' = [used EXCEPT !.starts = @ + 1]
  /\ hvStarted' = TRUE
  /\ running' = TRUE
  /\ initialDur' = IF page = "countdown" THEN duration ELSE initialDur

\* Mutant: the seconds are not reset.
stopTimerMutant ==
  /\ hvStarted' = FALSE
  /\ running' = FALSE
  /\ UNCHANGED duration

stopTimer ==
  /\ hvStarted' = FALSE
  /\ running' = FALSE
  /\ duration' = IF page = "countdown" THEN initialDur ELSE 0

Start ==
  /\ page # "home"
  /\ ~ hvStarted
  /\ page = "countdown" => ~ loading /\ duration >= Threshold
  /\ startTimer
  /\ UNCHANGED <<accountVars, page, readVars, fishMoney, duration, dialog, saved, ticks>>

\* Mutant: the timer is not cancelled.
CompleteTaskRunningMutant(seconds) ==
  /\ dialog' = "complete"
  /\ money' = money + MoneyEarned(seconds)
  /\ fishMoney' = fishMoney + MoneyEarned(seconds)
  /\ saved' = [saved EXCEPT ![page] = @ + MoneyEarned(seconds)]
  /\ UNCHANGED running

\* Mutant: the tab's copy of the balance is left alone.
CompleteTaskUncachedMutant(seconds) ==
  /\ dialog' = "complete"
  /\ running' = FALSE
  /\ money' = money + MoneyEarned(seconds)
  /\ saved' = [saved EXCEPT ![page] = @ + MoneyEarned(seconds)]
  /\ UNCHANGED fishMoney

\* _completeTaskDialog of either tab: paying is done by the builder of the dialog.
CompleteTask(seconds) ==
  /\ dialog' = "complete"
  /\ running' = FALSE
  /\ money' = money + MoneyEarned(seconds)
  /\ fishMoney' = fishMoney + MoneyEarned(seconds)
  /\ saved' = [saved EXCEPT ![page] = @ + MoneyEarned(seconds)]

\* Mutant: the timer stops at zero, but nothing happens there.
setCountDownSilentMutant ==
  /\ page = "countdown"
  /\ running
  /\ duration > 0
  /\ duration' = duration - 1
  /\ ticks' = [ticks EXCEPT ![page] = @ + 1]
  /\ UNCHANGED <<money, fishMoney, saved, running, dialog>>
  /\ UNCHANGED <<homeMoney, tabVars, hvStarted, used>>

setCountDown ==
  /\ page = "countdown"
  /\ running
  /\ ticks' = [ticks EXCEPT ![page] = @ + 1]
  /\ \/ /\ duration = 0
        /\ CompleteTask(initialDur)
        /\ UNCHANGED duration
     \/ /\ duration > 0
        /\ duration' = duration - 1
        /\ UNCHANGED <<money, fishMoney, saved, running, dialog>>
  /\ UNCHANGED <<homeMoney, tabVars, hvStarted, used>>

setCountUp ==
  /\ page = "countup"
  /\ running
  /\ duration < MaxCount
  /\ duration' = duration + 1
  /\ ticks' = [ticks EXCEPT ![page] = @ + 1]
  /\ UNCHANGED <<accountVars, tabVars, fishMoney, hvStarted, running, dialog, saved, used>>

\* The button under a started timer: Cancel, or Done once the count is long enough.
PressCancel ==
  /\ page # "home"
  /\ hvStarted
  /\ dialog = "none"
  /\ IF page = "countdown" THEN duration # 0 ELSE duration < Threshold
  /\ dialog' = "cancel"
  /\ running' = FALSE
  /\ UNCHANGED <<accountVars, tabVars, fishMoney, hvStarted, duration, saved, ticks, used>>

PressDone ==
  /\ page = "countup"
  /\ hvStarted
  /\ dialog = "none"
  /\ duration >= Threshold
  /\ CompleteTask(duration)
  /\ overtaken' = IF read = "answered" THEN overtaken + MoneyEarned(duration) ELSE overtaken
  /\ UNCHANGED <<homeMoney, page, read, answer, initialDur, hvStarted, duration, ticks, used>>

-----------------------------------------------------------------------------
(* The dialogs. *)

\* "No" on the count-up tab, "Cancel" on the countdown tab.
KeepGoing ==
  /\ dialog = "cancel"
  /\ dialog' = "none"
  /\ startTimer
  /\ UNCHANGED <<accountVars, page, readVars, fishMoney, duration, saved, ticks>>

ConfirmCancel ==
  /\ dialog = "cancel"
  /\ dialog' = "none"
  /\ stopTimer
  /\ UNCHANGED <<accountVars, tabVars, fishMoney, saved, ticks, used>>

\* "Back" of the congratulations.
LeaveCongrats ==
  /\ dialog = "complete"
  /\ dialog' = "none"
  /\ homeMoney' = fishMoney
  /\ stopTimer
  /\ UNCHANGED <<money, tabVars, fishMoney, saved, ticks, used>>

\* The back button of the device.
DismissDialog ==
  /\ used.dismissals < MaxDismissals
  /\ dialog # "none"
  /\ dialog' = "none"
  /\ used' = [used EXCEPT !.dismissals = @ + 1]
  /\ UNCHANGED <<accountVars, tabVars, fishMoney, hvStarted, running, duration, saved, ticks>>

-----------------------------------------------------------------------------
(* The environment. *)

OtherChange ==
  /\ used.other < MaxOther
  /\ \E x \in OtherChanges : money' = money + x
  /\ used' = [used EXCEPT !.other = @ + 1]
  /\ UNCHANGED <<homeMoney, tabVars, fishMoney, hvStarted, running, duration,
                 dialog, saved, ticks>>

\* The app is killed and started again: the home screen reads the balance.
Crash ==
  /\ used.crashes < MaxCrashes
  /\ used' = [used EXCEPT !.crashes = @ + 1]
  /\ Close
  /\ homeMoney' = money
  /\ UNCHANGED <<money, saved, ticks>>

Tick == setCountDown \/ setCountUp

Next ==
  \/ OpenTimer
  \/ SwitchTab
  \/ AnswerMoney
  \/ Load
  \/ SetLength
  \/ LeaveTimer
  \/ Start
  \/ Tick
  \/ PressCancel
  \/ PressDone
  \/ KeepGoing
  \/ ConfirmCancel
  \/ LeaveCongrats
  \/ DismissDialog
  \/ OtherChange
  \/ Crash

Spec == Init /\ [][Next]_vars

\* Timer.periodic keeps firing while it is active.
FairSpec == Spec /\ WF_vars(Tick)

-----------------------------------------------------------------------------
(* Properties. *)

\* The total that the statistics screen calls the focus time of the day never exceeds
\* the time focused.
PaidOnce(t) == saved[t] <= ticks[t]
TotalIsFocusTime == \A t \in Tabs : PaidOnce(t)

\* It is so until the back button dismisses a dialog: a second of focus is paid at
\* most once, over any sequence of sessions that are finished, cancelled, resumed,
\* left, or cut off by a crash.
PaidOnceIfAnswered == used.dismissals = 0 => TotalIsFocusTime

\* The countdown keeps to that whatever the back button does to its dialogs: one that
\* was paid and dismissed leaves no button that could pay it again.
CountdownPaidOnce == PaidOnce("countdown")

\* Until the back button dismisses a dialog a started timer never strands the user:
\* either it runs or a dialog waits for an answer.
Live == hvStarted => running \/ dialog # "none"
StartedIsLive == used.dismissals = 0 => Live

\* As long as the device has the account to itself: whenever the balance on the home screen
\* changes once the tab is loaded, it becomes the one in the database, short of exactly the
\* coins that the tab paid between the answer to its read and the continuation, which puts
\* the older answer in the place of a cache that knew of them.
HomeShowsBalance ==
  [][used.other = 0 /\ homeMoney' # homeMoney /\ ~ loading
       => homeMoney' = money' - overtaken']_vars

\* A countdown left alone reaches its end.
CountdownEnds == page = "countdown" /\ running ~> ~ running
=============================================================================
