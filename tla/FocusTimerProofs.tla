-------------------------- MODULE FocusTimerProofs --------------------------
(***************************************************************************)
(* Proofs about FocusTimer.                                                *)
(***************************************************************************)
EXTENDS FocusTimer, TLAPS

-----------------------------------------------------------------------------
(* The coins for a session. *)

\* Division with remainder, by a divisor that is not a numeral.
LEMMA DivMod ==
  ASSUME NEW a \in Nat, NEW b \in Nat \ {0}
  PROVE  /\ a \div b \in Nat
         /\ a % b \in 0 .. (b - 1)
         /\ a = b * (a \div b) + (a % b)
OBVIOUS

\* A session is never paid more coins than it has seconds.
LEMMA MoneyEarnedBounds ==
  ASSUME NEW seconds \in Nat
  PROVE  MoneyEarned(seconds) \in 0 .. seconds
<1> DEFINE hour == Minute * Minute
           h == seconds \div hour
           r == seconds % hour
           m == r \div Minute
           s == r % Minute
<1>1. Minute \in Nat \ {0} /\ hour \in Nat \ {0} /\ Minute <= hour
  BY ClockAssumption
<1>0. MoneyEarned(seconds) = s + m * Minute + h * Minute
  BY DEF MoneyEarned, TimeString
<1> HIDE DEF hour
<1>2. h \in Nat /\ r \in 0 .. (hour - 1) /\ seconds = hour * h + r
  BY <1>1, DivMod
<1> HIDE DEF h, r
<1>3. m \in Nat /\ s \in Nat /\ r = Minute * m + s
  <2>1. r \in Nat
    BY <1>1, <1>2
  <2> QED
    BY <1>1, <2>1, DivMod
<1> HIDE DEF m, s
<1>4. MoneyEarned(seconds) = r + h * Minute
  BY <1>0, <1>1, <1>2, <1>3
<1>5. h * Minute \in Nat /\ hour * h \in Nat /\ h * Minute <= hour * h
  BY <1>1, <1>2
<1>6. QED
  BY <1>1, <1>2, <1>4, <1>5

-----------------------------------------------------------------------------
(* Types. *)

\* Paying a session keeps the account and the records well typed.
LEMMA CompleteTaskType ==
  ASSUME TypeOK, page \in Tabs, NEW seconds \in Nat, CompleteTask(seconds)
  PROVE  /\ money' \in Int
         /\ fishMoney' \in Int
         /\ saved' \in [Tabs -> Nat]
<1>1. MoneyEarned(seconds) \in Nat
  BY MoneyEarnedBounds
<1> QED
  BY <1>1 DEF TypeOK, CompleteTask

\* So does showing or closing a tab.
LEMMA FreshType ==
  ASSUME NEW shown \in Tabs \union {"home"}, NEW length \in Nat, Fresh(shown, length)
  PROVE  /\ page' \in Tabs \union {"home"}
         /\ read' \in {"asked", "answered", "continued"}
         /\ answer' \in Int
         /\ overtaken' \in Nat
         /\ fishMoney' \in Int
         /\ hvStarted' \in BOOLEAN
         /\ running' \in BOOLEAN
         /\ duration' \in Nat
         /\ initialDur' \in Nat
         /\ dialog' \in {"none", "cancel", "complete"}
<1>1. /\ fishMoney' \in Int
      /\ answer' \in Int
      /\ overtaken' \in Nat
      /\ duration' \in Nat
      /\ initialDur' \in Nat
  BY DEF Fresh
<1> QED
  BY <1>1, Zenon DEF Fresh

\* The variables keep their types.
THEOREM TypeCorrect == Spec => []TypeOK
<1>1. Init => TypeOK
  <2>1. Init => used \in Bounds
    BY BoundsAssumption DEF Init, Bounds
  <2>2. Init => money \in Int /\ homeMoney \in Int /\ fishMoney \in Int /\ answer \in Int
    BY LedgerAssumption DEF Init
  <2>3. Init => /\ duration \in Nat /\ initialDur \in Nat
               /\ saved \in [Tabs -> Nat] /\ ticks \in [Tabs -> Nat] /\ overtaken \in Nat
    BY DEF Init
  <2>4. Init => read \in {"asked", "answered", "continued"} /\ hvStarted \in BOOLEAN /\ running \in BOOLEAN
    BY Zenon DEF Init
  <2> QED
    BY <2>1, <2>2, <2>3, <2>4, Zenon DEF Init, TypeOK
<1>2. TypeOK /\ [Next]_vars => TypeOK'
  <2> SUFFICES ASSUME TypeOK, [Next]_vars PROVE TypeOK'
    OBVIOUS
  <2> USE DEF TypeOK, accountVars, tabVars, readVars
  <2>1. ASSUME NEW t \in Tabs, ShowTab(t), UNCHANGED <<accountVars, saved, ticks, used>>
        PROVE  TypeOK'
    <3>1. (IF t = "countdown" THEN DefaultLength ELSE 0) \in Nat
      BY ClockAssumption
    <3> QED
      BY <2>1, <3>1, FreshType DEF ShowTab
  <2>2. CASE OpenTimer
    BY <2>1, <2>2 DEF OpenTimer, Tabs
  <2>3. CASE SwitchTab
    BY <2>1, <2>3 DEF SwitchTab
  <2>4. CASE AnswerMoney \/ Load
    BY <2>4 DEF AnswerMoney, Load
  <2>5. CASE SetLength
    BY <2>5, ClockAssumption DEF SetLength
  <2>6. CASE LeaveTimer
    BY <2>6, FreshType DEF LeaveTimer, Close
  <2>7. CASE Start
    BY <2>7, BoundsAssumption DEF Start, startTimer, Bounds
  <2>8. CASE setCountDown
    <3>1. page \in Tabs /\ ticks' \in [Tabs -> Nat]
      BY <2>8 DEF setCountDown, Tabs
    <3>2. CASE duration = 0
      <4>1. CompleteTask(initialDur) /\ UNCHANGED duration
        BY <2>8, <3>2 DEF setCountDown
      <4> QED
        BY <2>8, <3>1, <4>1, CompleteTaskType DEF setCountDown, CompleteTask
    <3>3. CASE duration > 0
      <4>1. /\ duration' = duration - 1
            /\ UNCHANGED <<money, fishMoney, saved, running, dialog>>
        <5>1. duration # 0
          BY <3>3
        <5> QED
          BY <2>8, <5>1, Zenon DEF setCountDown
      <4> QED
        BY <2>8, <3>1, <3>3, <4>1 DEF setCountDown
    <3> QED
      BY <3>2, <3>3
  <2>9. CASE setCountUp
    BY <2>9 DEF setCountUp, Tabs
  <2>10. CASE PressCancel
    BY <2>10 DEF PressCancel
  <2>11. CASE PressDone
    <3>1. page \in Tabs /\ CompleteTask(duration)
      BY <2>11 DEF PressDone, Tabs
    <3>2. overtaken' \in Nat
      BY <2>11, MoneyEarnedBounds DEF PressDone
    <3> QED
      BY <2>11, <3>1, <3>2, CompleteTaskType DEF PressDone, CompleteTask
  <2>12. CASE KeepGoing
    BY <2>12, BoundsAssumption DEF KeepGoing, startTimer, Bounds
  <2>13. CASE ConfirmCancel
    BY <2>13 DEF ConfirmCancel, stopTimer
  <2>14. CASE LeaveCongrats
    BY <2>14 DEF LeaveCongrats, stopTimer
  <2>15. CASE DismissDialog
    BY <2>15, BoundsAssumption DEF DismissDialog, Bounds
  <2>16. CASE OtherChange
    BY <2>16, LedgerAssumption, BoundsAssumption DEF OtherChange, Bounds
  <2>17. CASE Crash
    <3>1. used' \in Bounds
      BY <2>17, BoundsAssumption DEF Crash, Bounds
    <3> QED
      BY <2>17, <3>1, FreshType DEF Crash, Close
  <2>18. CASE UNCHANGED vars
    BY <2>18 DEF vars
  <2> QED
    BY <2>2, <2>3, <2>4, <2>5, <2>6, <2>7, <2>8, <2>9, <2>10, <2>11, <2>12, <2>13,
       <2>14, <2>15, <2>16, <2>17, <2>18 DEF Next, Tick
<1> QED
  BY <1>1, <1>2, PTL DEF Spec

-----------------------------------------------------------------------------
(* What a session is still owed. *)

\* The seconds a started countdown has run and was not paid for: none when it is at
\* zero with its timer cancelled, for then the congratulations have been built.
CountdownInv ==
  /\ running => hvStarted
  /\ saved["countdown"] <= ticks["countdown"]
  /\ page = "countdown" /\ hvStarted => duration <= initialDur
  /\ page = "countdown" /\ hvStarted /\ (running \/ duration > 0) =>
       saved["countdown"] + (initialDur - duration) <= ticks["countdown"]

\* A tab that was just created owes nothing.
LEMMA FreshCountdown ==
  ASSUME CountdownInv, NEW shown, NEW length, Fresh(shown, length), UNCHANGED <<saved, ticks>>
  PROVE  CountdownInv'
BY DEF CountdownInv, Fresh

LEMMA CountdownStep == TypeOK /\ CountdownInv /\ [Next]_vars => CountdownInv'
<1> SUFFICES ASSUME TypeOK, CountdownInv, [Next]_vars PROVE CountdownInv'
  OBVIOUS
<1> USE DEF accountVars, tabVars, readVars
<1>1. CASE OpenTimer
  BY <1>1, FreshCountdown DEF OpenTimer, ShowTab
<1>2. CASE SwitchTab
  BY <1>2, FreshCountdown DEF SwitchTab, ShowTab
<1>3. CASE AnswerMoney \/ Load
  BY <1>3 DEF AnswerMoney, Load, CountdownInv
<1>4. CASE SetLength
  BY <1>4 DEF SetLength, CountdownInv
<1>5. CASE LeaveTimer
  BY <1>5, FreshCountdown DEF LeaveTimer, Close
<1>6. CASE Start
  BY <1>6 DEF Start, startTimer, CountdownInv, TypeOK
<1>7. CASE setCountDown
  <2>1. /\ page = "countdown" /\ page' = page /\ running /\ hvStarted /\ hvStarted' = hvStarted
        /\ initialDur' = initialDur
        /\ ticks'["countdown"] = ticks["countdown"] + 1
    BY <1>7 DEF setCountDown, CountdownInv, TypeOK, Tabs
  <2>2. /\ saved["countdown"] + (initialDur - duration) <= ticks["countdown"]
        /\ duration <= initialDur
    BY <2>1 DEF CountdownInv
  <2>3. /\ saved["countdown"] \in Nat /\ ticks["countdown"] \in Nat
        /\ duration \in Nat /\ initialDur \in Nat
    BY DEF TypeOK, Tabs
  <2>4. CASE duration = 0
    <3>1. CompleteTask(initialDur) /\ UNCHANGED duration
      BY <1>7, <2>4 DEF setCountDown
    <3>2. saved'["countdown"] = saved["countdown"] + MoneyEarned(initialDur)
      BY <2>1, <3>1 DEF CompleteTask, TypeOK, Tabs
    <3>3. MoneyEarned(initialDur) \in Int /\ MoneyEarned(initialDur) <= initialDur
      BY <2>3, MoneyEarnedBounds
    <3>4. running' = FALSE /\ duration' = 0
      BY <2>4, <3>1 DEF CompleteTask
    <3>5. saved'["countdown"] <= ticks'["countdown"]
      BY <2>1, <2>2, <2>3, <2>4, <3>2, <3>3
    <3>6. duration' <= initialDur' /\ ~ (duration' > 0)
      BY <2>1, <2>3, <3>4
    <3> QED
      BY <3>4, <3>5, <3>6, Zenon DEF CountdownInv
  <2>5. CASE duration > 0
    <3>1. duration # 0
      BY <2>5
    <3>2. duration' = duration - 1 /\ saved' = saved /\ running' = running
      BY <1>7, <3>1, Zenon DEF setCountDown
    <3>3. /\ saved'["countdown"] <= ticks'["countdown"]
          /\ duration' <= initialDur'
          /\ saved'["countdown"] + (initialDur' - duration') <= ticks'["countdown"]
      BY <2>1, <2>2, <2>3, <2>5, <3>2
    <3> QED
      BY <2>1, <3>3, Zenon DEF CountdownInv
  <2> QED
    BY <2>3, <2>4, <2>5
<1>8. CASE setCountUp
  BY <1>8 DEF setCountUp, CountdownInv, TypeOK, Tabs
<1>9. CASE PressCancel
  BY <1>9 DEF PressCancel, CountdownInv, TypeOK
<1>10. CASE PressDone
  BY <1>10 DEF PressDone, CompleteTask, CountdownInv, TypeOK, Tabs
<1>11. CASE KeepGoing
  BY <1>11 DEF KeepGoing, startTimer, CountdownInv, TypeOK
<1>12. CASE ConfirmCancel
  BY <1>12 DEF ConfirmCancel, stopTimer, CountdownInv
<1>13. CASE LeaveCongrats
  BY <1>13 DEF LeaveCongrats, stopTimer, CountdownInv
<1>14. CASE DismissDialog
  BY <1>14 DEF DismissDialog, CountdownInv
<1>15. CASE OtherChange
  BY <1>15 DEF OtherChange, CountdownInv
<1>16. CASE Crash
  BY <1>16, FreshCountdown DEF Crash, Close
<1>17. CASE UNCHANGED vars
  BY <1>17 DEF vars, CountdownInv
<1> QED
  BY <1>1, <1>2, <1>3, <1>4, <1>5, <1>6, <1>7, <1>8, <1>9, <1>10, <1>11, <1>12, <1>13,
     <1>14, <1>15, <1>16, <1>17 DEF Next, Tick

\* A countdown pays each of its seconds at most once, whatever the back button, other
\* devices and crashes do.
THEOREM CountdownIsPaidOnce == Spec => []CountdownPaidOnce
<1>1. Init => CountdownInv
  BY DEF Init, CountdownInv, Tabs
<1>2. CountdownInv => CountdownPaidOnce
  BY DEF CountdownInv, CountdownPaidOnce, PaidOnce
<1> QED
  BY <1>1, <1>2, CountdownStep, TypeCorrect, PTL DEF Spec

-----------------------------------------------------------------------------
(* As long as dialogs are answered. *)

\* Timer, dialog and session exclude and imply each other as the handlers intend.
OrderInv ==
  /\ Live
  /\ running => hvStarted /\ dialog = "none"
  /\ dialog # "none" => hvStarted

LEMMA OrderStep ==
  TypeOK /\ OrderInv /\ [Next]_vars /\ used.dismissals' = 0 => OrderInv'
<1> SUFFICES ASSUME TypeOK, OrderInv, [Next]_vars, used.dismissals' = 0 PROVE OrderInv'
  OBVIOUS
<1> USE DEF accountVars, tabVars, readVars, OrderInv, Live
<1>1. ASSUME NEW shown, NEW length, Fresh(shown, length) PROVE OrderInv'
  BY <1>1, Zenon DEF Fresh
<1>2. CASE OpenTimer
  BY <1>1, <1>2 DEF OpenTimer, ShowTab
<1>3. CASE SwitchTab
  BY <1>1, <1>3 DEF SwitchTab, ShowTab
<1>4. CASE AnswerMoney \/ Load
  BY <1>4 DEF AnswerMoney, Load
<1>5. CASE SetLength
  BY <1>5 DEF SetLength
<1>6. CASE LeaveTimer
  BY <1>1, <1>6 DEF LeaveTimer, Close
<1>7. CASE Start
  BY <1>7, Zenon DEF Start, startTimer
<1>8. CASE setCountDown
  <2>1. running /\ hvStarted' = hvStarted
    BY <1>8, Zenon DEF setCountDown
  <2>2. hvStarted
    BY <2>1, Zenon
  <2>3. CASE duration = 0 /\ CompleteTask(initialDur)
    BY <2>1, <2>2, <2>3, Zenon DEF CompleteTask
  <2>4. CASE UNCHANGED <<running, dialog>>
    BY <2>1, <2>4, Zenon
  <2> QED
    BY <1>8, <2>3, <2>4, Zenon DEF setCountDown
<1>9. CASE setCountUp
  BY <1>9 DEF setCountUp
<1>10. CASE PressCancel
  BY <1>10, Zenon DEF PressCancel
<1>11. CASE PressDone
  BY <1>11, Zenon DEF PressDone, CompleteTask
<1>12. CASE KeepGoing
  BY <1>12, Zenon DEF KeepGoing, startTimer
<1>13. CASE ConfirmCancel
  BY <1>13, Zenon DEF ConfirmCancel, stopTimer
<1>14. CASE LeaveCongrats
  BY <1>14, Zenon DEF LeaveCongrats, stopTimer
<1>15. CASE DismissDialog
  BY <1>15 DEF DismissDialog, TypeOK, Bounds
<1>16. CASE OtherChange
  BY <1>16 DEF OtherChange
<1>17. CASE Crash
  BY <1>1, <1>17 DEF Crash, Close
<1>18. CASE UNCHANGED vars
  BY <1>18 DEF vars
<1> QED
  BY <1>2, <1>3, <1>4, <1>5, <1>6, <1>7, <1>8, <1>9, <1>10, <1>11, <1>12, <1>13, <1>14,
     <1>15, <1>16, <1>17, <1>18 DEF Next, Tick

\* The count of dismissed dialogs never falls.
LEMMA DismissalsStay ==
  TypeOK /\ [Next]_vars /\ used.dismissals' = 0 => used.dismissals = 0
<1> SUFFICES ASSUME TypeOK, [Next]_vars, used.dismissals' = 0, used.dismissals # 0
             PROVE  FALSE
  OBVIOUS
<1>1. used.dismissals \in Nat
  BY DEF TypeOK, Bounds
<1>2. used' # used
  BY <1>1
<1> QED
  BY <1>1, <1>2 DEF Next, Tick, vars, accountVars, tabVars, readVars, OpenTimer, SwitchTab, AnswerMoney, Load,
     SetLength, LeaveTimer, Start, startTimer, setCountDown, setCountUp, PressCancel, PressDone, KeepGoing,
     ConfirmCancel, LeaveCongrats, DismissDialog, OtherChange, Crash, TypeOK, Bounds

\* A started timer never strands its user.
THEOREM StartedStaysLive == Spec => []StartedIsLive
<1> DEFINE I == used.dismissals = 0 => OrderInv
<1>1. Init => I
  BY DEF Init, OrderInv, Live
<1>2. TypeOK /\ I /\ [Next]_vars => I'
  BY OrderStep, DismissalsStay
<1>3. I => StartedIsLive
  BY DEF OrderInv, StartedIsLive
<1> QED
  BY <1>1, <1>2, <1>3, TypeCorrect, PTL DEF Spec

\* The seconds on the count-up page are not paid yet, until the congratulations.
CountupInv ==
  /\ saved["countup"] <= ticks["countup"]
  /\ page = "countup" /\ dialog # "complete" =>
       saved["countup"] + duration <= ticks["countup"]

LEMMA CountupStep ==
  TypeOK /\ OrderInv /\ CountupInv /\ [Next]_vars /\ used.dismissals' = 0 => CountupInv'
<1> SUFFICES ASSUME TypeOK, OrderInv, CountupInv, [Next]_vars, used.dismissals' = 0
             PROVE  CountupInv'
  OBVIOUS
<1> USE DEF accountVars, tabVars, readVars, CountupInv
<1>0. saved["countup"] \in Nat /\ ticks["countup"] \in Nat /\ duration \in Nat
  BY DEF TypeOK, Tabs
<1>1. ASSUME NEW shown, NEW length, Fresh(shown, length), shown = "countup" => length = 0,
             UNCHANGED <<saved, ticks>>
      PROVE  CountupInv'
  BY <1>0, <1>1 DEF Fresh
<1>2. CASE OpenTimer
  BY <1>1, <1>2 DEF OpenTimer, ShowTab
<1>3. CASE SwitchTab
  BY <1>1, <1>3 DEF SwitchTab, ShowTab
<1>4. CASE AnswerMoney \/ Load
  BY <1>4 DEF AnswerMoney, Load
<1>5. CASE SetLength
  BY <1>5 DEF SetLength
<1>6. CASE LeaveTimer
  BY <1>1, <1>6 DEF LeaveTimer, Close
<1>7. CASE Start
  BY <1>7 DEF Start, startTimer
<1>8. CASE setCountDown
  <2>1. page = "countdown" /\ page' = page /\ ticks' = [ticks EXCEPT !["countdown"] = @ + 1]
    BY <1>8 DEF setCountDown
  <2>2. saved'["countup"] = saved["countup"]
    BY <1>8, <2>1 DEF setCountDown, CompleteTask, TypeOK, Tabs
  <2>3. ticks'["countup"] = ticks["countup"]
    BY <2>1 DEF TypeOK, Tabs
  <2> QED
    BY <2>1, <2>2, <2>3
<1>9. CASE setCountUp
  BY <1>9 DEF setCountUp, TypeOK, Tabs
<1>10. CASE PressCancel
  BY <1>10 DEF PressCancel
<1>11. CASE PressDone
  <2>1. page = "countup" /\ dialog = "none" /\ ticks' = ticks /\ CompleteTask(duration)
    BY <1>11 DEF PressDone
  <2>2. saved'["countup"] = saved["countup"] + MoneyEarned(duration) /\ dialog' = "complete"
    BY <2>1 DEF CompleteTask, TypeOK, Tabs
  <2>3. MoneyEarned(duration) \in Int /\ MoneyEarned(duration) <= duration
    BY <1>0, MoneyEarnedBounds
  <2> QED
    BY <1>0, <2>1, <2>2, <2>3
<1>12. CASE KeepGoing
  BY <1>12 DEF KeepGoing, startTimer
<1>13. CASE ConfirmCancel
  BY <1>0, <1>13 DEF ConfirmCancel, stopTimer
<1>14. CASE LeaveCongrats
  BY <1>0, <1>14 DEF LeaveCongrats, stopTimer
<1>15. CASE DismissDialog
  BY <1>15 DEF DismissDialog, TypeOK, Bounds
<1>16. CASE OtherChange
  BY <1>16 DEF OtherChange
<1>17. CASE Crash
  BY <1>1, <1>17 DEF Crash, Close
<1>18. CASE UNCHANGED vars
  BY <1>18 DEF vars
<1> QED
  BY <1>2, <1>3, <1>4, <1>5, <1>6, <1>7, <1>8, <1>9, <1>10, <1>11, <1>12, <1>13, <1>14,
     <1>15, <1>16, <1>17, <1>18 DEF Next, Tick

\* Where dialogs can only be answered, neither timer pays a second twice: for every
\* threshold, length, and sequence of sessions.
THEOREM FocusTimeIsPaidOnce == Spec => []PaidOnceIfAnswered
<1> DEFINE I == used.dismissals = 0 => OrderInv /\ CountupInv
<1>1. Init => I
  BY DEF Init, OrderInv, Live, CountupInv, Tabs
<1>2. TypeOK /\ I /\ [Next]_vars => I'
  BY OrderStep, CountupStep, DismissalsStay
<1>3. CountdownPaidOnce /\ I => PaidOnceIfAnswered
  BY DEF CountupInv, CountdownPaidOnce, PaidOnceIfAnswered, TotalIsFocusTime, PaidOnce, Tabs
<1> QED
  BY <1>1, <1>2, <1>3, CountdownIsPaidOnce, TypeCorrect, PTL DEF Spec

-----------------------------------------------------------------------------
(* The balance on the home screen. *)

\* The countdown tab is not started before its read is continued.
ReadyInv ==
  /\ running \/ dialog # "none" => hvStarted
  /\ page = "countdown" /\ hvStarted => ~ loading

LEMMA ReadyStep == ReadyInv /\ [Next]_vars => ReadyInv'
<1> SUFFICES ASSUME ReadyInv, [Next]_vars PROVE ReadyInv'
  OBVIOUS
<1> USE DEF accountVars, tabVars, readVars, ReadyInv, loading
<1>1. CASE OpenTimer \/ SwitchTab \/ LeaveTimer \/ Crash
  BY <1>1, Zenon DEF OpenTimer, SwitchTab, LeaveTimer, Crash, ShowTab, Close, Fresh
<1>2. CASE AnswerMoney \/ Load
  BY <1>2 DEF AnswerMoney, Load
<1>3. CASE SetLength \/ OtherChange
  <2>1. UNCHANGED <<page, read, hvStarted, running, dialog>>
    BY <1>3 DEF SetLength, OtherChange
  <2> QED
    BY <2>1, Zenon
<1>4. CASE Start \/ KeepGoing
  BY <1>4 DEF Start, KeepGoing, startTimer
<1>5. CASE setCountDown
  <2>1. hvStarted /\ UNCHANGED <<page, read, hvStarted>>
    BY <1>5, Zenon DEF setCountDown
  <2> QED
    BY <2>1, Zenon
<1>6. CASE setCountUp \/ PressCancel
  BY <1>6, Zenon DEF setCountUp, PressCancel
<1>7. CASE PressDone
  BY <1>7, Zenon DEF PressDone
<1>8. CASE ConfirmCancel \/ LeaveCongrats
  BY <1>8 DEF ConfirmCancel, LeaveCongrats, stopTimer
<1>9. CASE DismissDialog
  BY <1>9 DEF DismissDialog
<1>10. CASE UNCHANGED vars
  BY <1>10, Zenon DEF vars
<1> QED
  BY <1>1, <1>2, <1>3, <1>4, <1>5, <1>6, <1>7, <1>8, <1>9, <1>10 DEF Next, Tick

\* What the tab knows of the balance: until its read is answered nothing is missing that the
\* answer will not bring; once it is continued the copy lacks what has overtaken the answer.
CacheInv ==
  /\ read = "asked" => overtaken = 0
  /\ read = "answered" => answer = money - overtaken
  /\ read = "continued" => fishMoney = money - overtaken

LEMMA CacheStep ==
  TypeOK /\ ReadyInv /\ CacheInv /\ [Next]_vars =>
    /\ used.other' = 0 => CacheInv'
    /\ homeMoney' # homeMoney /\ ~ loading => homeMoney' = money' - overtaken'
<1> DEFINE InStep == homeMoney' # homeMoney /\ ~ loading => homeMoney' = money' - overtaken'
<1> SUFFICES ASSUME TypeOK, ReadyInv, CacheInv, [Next]_vars
             PROVE  (used.other' = 0 => CacheInv') /\ InStep
  OBVIOUS
<1> USE DEF accountVars, tabVars, readVars, CacheInv, loading
<1>0. /\ money \in Int /\ fishMoney \in Int /\ answer \in Int /\ overtaken \in Nat
      /\ read \in {"asked", "answered", "continued"}
  BY DEF TypeOK
<1>1. CASE OpenTimer \/ SwitchTab \/ LeaveTimer
  BY <1>1, Zenon DEF OpenTimer, SwitchTab, LeaveTimer, ShowTab, Close, Fresh
<1>2. CASE AnswerMoney \/ Load
  BY <1>0, <1>2 DEF AnswerMoney, Load
<1>3. CASE SetLength \/ PressCancel
  BY <1>3, Zenon DEF SetLength, PressCancel
<1>4. CASE Start \/ KeepGoing
  BY <1>4, Zenon DEF Start, KeepGoing
<1>6. CASE setCountDown
  <2>1. CASE UNCHANGED <<money, fishMoney>>
    BY <1>6, <2>1, Zenon DEF setCountDown
  <2>2. CASE CompleteTask(initialDur)
    <3>1. money' = money + MoneyEarned(initialDur) /\ fishMoney' = fishMoney + MoneyEarned(initialDur)
      BY <2>2 DEF CompleteTask
    <3>2. MoneyEarned(initialDur) \in Nat
      BY MoneyEarnedBounds DEF TypeOK
    <3>3. UNCHANGED <<read, answer, overtaken, homeMoney>>
      BY <1>6 DEF setCountDown
    <3>4. read = "continued"
      BY <1>6 DEF setCountDown, ReadyInv
    <3> QED
      BY <1>0, <3>1, <3>2, <3>3, <3>4
  <2> QED
    BY <1>6, <2>1, <2>2, Zenon DEF setCountDown
<1>7. CASE setCountUp
  BY <1>7, Zenon DEF setCountUp
<1>8. CASE PressDone
  <2>1. /\ money' = money + MoneyEarned(duration)
        /\ fishMoney' = fishMoney + MoneyEarned(duration)
        /\ overtaken' = IF read = "answered" THEN overtaken + MoneyEarned(duration) ELSE overtaken
        /\ UNCHANGED <<read, answer, homeMoney>>
    BY <1>8 DEF PressDone, CompleteTask
  <2>2. MoneyEarned(duration) \in Nat
    BY MoneyEarnedBounds DEF TypeOK
  <2> QED
    BY <1>0, <2>1, <2>2
<1>9. CASE ConfirmCancel \/ DismissDialog
  BY <1>9, Zenon DEF ConfirmCancel, DismissDialog
<1>10. CASE LeaveCongrats
  BY <1>10, Zenon DEF LeaveCongrats
<1>11. CASE OtherChange
  <2>1. used.other' # 0
    BY <1>11 DEF OtherChange, TypeOK, Bounds
  <2> QED
    BY <1>11, <2>1, Zenon DEF OtherChange
<1>12. CASE Crash
  <2>1. homeMoney' = money /\ money' = money /\ read' = "asked" /\ overtaken' = 0
    BY <1>12, Zenon DEF Crash, Close, Fresh
  <2> QED
    BY <1>0, <2>1
<1>13. CASE UNCHANGED vars
  BY <1>13, Zenon DEF vars
<1> QED
  BY <1>1, <1>2, <1>3, <1>4, <1>6, <1>7, <1>8, <1>9, <1>10, <1>11, <1>12, <1>13, Zenon
  DEF Next, Tick

\* On a device that has the account to itself every finished session and every start of the
\* app brings the home screen in step, but for the coins that a payment took past the answer
\* to the tab's read.
THEOREM HomeIsBroughtInStep == Spec => HomeShowsBalance
<1> DEFINE I == ReadyInv /\ (used.other = 0 => CacheInv)
<1>1. Init => I
  BY DEF Init, CacheInv, ReadyInv
<1>2. TypeOK /\ [Next]_vars /\ used.other' = 0 => used.other = 0
  <2> SUFFICES ASSUME TypeOK, [Next]_vars, used.other' = 0, used.other # 0
               PROVE  FALSE
    OBVIOUS
  <2>1. used.other \in Nat
    BY DEF TypeOK, Bounds
  <2>2. used' # used
    BY <2>1
  <2> QED
    BY <2>1, <2>2 DEF Next, Tick, vars, accountVars, tabVars, readVars, OpenTimer, SwitchTab, AnswerMoney, Load,
       SetLength, LeaveTimer, Start, startTimer, setCountDown, setCountUp, PressCancel,
       PressDone, KeepGoing, ConfirmCancel, LeaveCongrats, DismissDialog, OtherChange, Crash,
       TypeOK, Bounds
<1>3. TypeOK /\ I /\ [Next]_vars => I'
  BY <1>2, CacheStep, ReadyStep
<1>4. TypeOK /\ I /\ [Next]_vars =>
        (used.other = 0 /\ homeMoney' # homeMoney /\ ~ loading
           => homeMoney' = money' - overtaken')
  BY CacheStep
<1> QED
  BY <1>1, <1>3, <1>4, TypeCorrect, PTL DEF Spec, HomeShowsBalance
=============================================================================
