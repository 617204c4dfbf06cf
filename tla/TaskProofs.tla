----------------------------- MODULE TaskProofs -----------------------------
(***************************************************************************)
(* Theorems about TaskCompletion, for every calendar that satisfies        *)
(* DatesAssumption (a next date is after the date, a task that is not      *)
(* repeated is always rewarded): types, streaks, what becomes of a         *)
(* completed task and coins, for any user; and for one who waits, that     *)
(* completions are those of Occurrences, and that coins, home screen and   *)
(* reminder agree with it.                                                 *)
(***************************************************************************)
EXTENDS TaskCompletion, DataTheorems, SequenceTheorems, TLAPS

-----------------------------------------------------------------------------
(* Type correctness. *)

Calling == [pc : Pcs, task : Tasks, from : Screens \union {"list"}, here : BOOLEAN,
            paid : BOOLEAN, balance : Int, event : SUBSET Tasks]
Reading == [state : {"idle", "asked", "answered"}, list : SUBSET Tasks]

\* The counts of what is bounded.
Counts == [taps : 0 .. MaxTaps, awake : 0 .. MaxAwake, dismissals : 0 .. MaxDismissals,
           crashes : 0 .. MaxCrashes]

\* Only a task with a date of the calendar is being completed, so that it has a
\* next date.
DatedCalls ==
  \A c \in Calls : call[c].pc \in {"fade", "cancel", "mark", "balance"} =>
                     call[c].task.date \in Days

TypeInv == TypeOK /\ DatedCalls

LEMMA NewTaskType ==
  ASSUME NEW date \in Days, NEW timed \in BOOLEAN
  PROVE  NewTask(date, timed) \in Tasks
<1>1. date \in Nat
  BY DatesAssumption DEF Days
<1> QED
  BY <1>1, Zenon DEF NewTask, Tasks

LEMMA IdleType == Idle \in Calling
<1>1. NewTask(FirstDay, FALSE) \in Tasks
  <2>1. FirstDay \in Days
    BY DatesAssumption DEF Days
  <2> QED
    BY <2>1, NewTaskType, Zenon
<1>2. 0 \in Int
  OBVIOUS
<1> QED
  BY <1>1, <1>2, Zenon DEF Idle, Calling, Pcs

\* A task that is rescheduled.
LEMMA RescheduledType ==
  ASSUME NEW k \in Kinds, k.repeat # "never",
         NEW date \in Days, NEW timed \in BOOLEAN, NEW day \in Days, NEW streak \in Nat
  PROVE  [isCompleted |-> FALSE, streak |-> streak, prev |-> day,
          date |-> NextDate(k.repeat, date, timed, day), timed |-> FALSE] \in Tasks
<1>1. NextDate(k.repeat, date, timed, day) \in Nat
  BY DatesAssumption
<1> QED
  BY <1>1, Zenon DEF Tasks

LEMMA CompletedType ==
  ASSUME NEW t \in Tasks
  PROVE  [t EXCEPT !.isCompleted = TRUE] \in Tasks
BY DEF Tasks

LEMMA InitTypes == Init => TypeInv
<1> SUFFICES ASSUME Init PROVE TypeInv
  OBVIOUS
<1>1. FirstDay \in Days /\ Days \subseteq Nat
  BY DatesAssumption DEF Days
<1>2. PICK date \in Days : doc = {NewTask(date, kind.timed)} /\ reminder = IF Ahead(date) THEN {date} ELSE {}
  BY DEF Init
<1>t. kind.timed \in BOOLEAN
  BY TaskAssumption DEF Init
<1>3. doc \subseteq Tasks /\ reminder \subseteq Nat
  BY <1>1, <1>2, <1>t, NewTaskType
<1>4. call \in [Calls -> Calling] /\ read \in [Readers -> Reading]
  BY IdleType DEF Init, NoRead, Reading
<1>5. used \in Counts
  BY BoundsAssumption DEF Init, Counts
<1>6. today \in Days /\ now \in [day : Days, early : BOOLEAN]
  <2>1. (IF kind.hasReminder THEN BOOLEAN ELSE {FALSE}) \subseteq BOOLEAN
    OBVIOUS
  <2> QED BY <1>1, <2>1, Zenon DEF Init
<1>7. money \in Int /\ homeMoney \in Int /\ awards \in Nat /\ squares \in Nat
  BY TaskAssumption DEF Init
<1>8. TypeOK
  BY <1>3, <1>4, <1>5, <1>6, <1>7 DEF TypeOK, Init, Calling, Reading, Counts
<1>9. DatedCalls
  BY DEF Init, DatedCalls, Idle
<1> QED
  BY <1>8, <1>9 DEF TypeInv

\* What the steps of the invocations and of the lists leave to be checked.
LEMMA CallStepTypes ==
  ASSUME TypeInv, NEW c \in Calls, NEW next \in Calling,
         next.pc \in {"fade", "cancel", "mark", "balance"} => next.task.date \in Days,
         call' = [call EXCEPT ![c] = next]
  PROVE  call' \in [Calls -> Calling] /\ DatedCalls'
<1>1. call \in [Calls -> Calling]
  BY DEF TypeInv, TypeOK, Calling
<1>2. call' \in [Calls -> Calling]
  BY <1>1
<1>3. DatedCalls'
  <2> SUFFICES ASSUME NEW e \in Calls, call'[e].pc \in {"fade", "cancel", "mark", "balance"}
               PROVE  call'[e].task.date \in Days
    BY DEF DatedCalls, Days
  <2>1. CASE e = c
    BY <1>1, <2>1
  <2>2. CASE e # c
    BY <1>1, <2>2 DEF TypeInv, DatedCalls
  <2> QED BY <2>1, <2>2
<1> QED
  BY <1>2, <1>3

\* An invocation that ends, or goes on with the task that it has.
LEMMA CallPcTypes ==
  ASSUME TypeInv, NEW c \in Calls, NEW pc \in Pcs
  PROVE  /\ [call[c] EXCEPT !.pc = pc] \in Calling
         /\ [call[c] EXCEPT !.pc = pc].pc = pc
         /\ [call[c] EXCEPT !.pc = pc].task = call[c].task
BY DEF TypeInv, TypeOK, Calling

LEMMA AnswerTypes ==
  ASSUME TypeInv, NEW r \in Readers, NEW next \in Reading
  PROVE  [read EXCEPT ![r] = next] \in [Readers -> Reading]
BY DEF TypeInv, TypeOK, Reading

LEMMA RescheduleTypes ==
  ASSUME TypeInv, NEW c \in Calls, NEW streak \in Nat, NEW next \in Calling,
         Repeats, call[c].pc \in {"mark", "balance"},
         next.pc = "write", next.task = call[c].task,
         Reschedule(c, streak, next)
  PROVE  doc' \subseteq Tasks /\ call' \in [Calls -> Calling] /\ DatedCalls'
<1>1. /\ call[c].task.date \in Days /\ now.day \in Days
      /\ kind \in Kinds /\ kind.repeat # "never"
  BY DEF TypeInv, TypeOK, DatedCalls, Repeats
<1>2. [isCompleted |-> FALSE, streak |-> streak, prev |-> now.day,
       date |-> NextDate(kind.repeat, call[c].task.date, call[c].task.timed, now.day),
       timed |-> FALSE] \in Tasks
  <2>1. call[c].task.timed \in BOOLEAN
    BY DEF TypeInv, TypeOK, Tasks
  <2> QED
    BY <1>1, <2>1, RescheduledType
<1>3. doc' \subseteq Tasks
  BY <1>2 DEF Reschedule
<1> DEFINE end == IF doc = {} THEN Idle ELSE next
<1>4. end \in Calling /\ end.pc \in {"idle", "write"}
  BY IdleType DEF Idle
<1>5. call' = [call EXCEPT ![c] = end]
  BY DEF Reschedule
<1> HIDE DEF end
<1>6. call' \in [Calls -> Calling] /\ DatedCalls'
  BY <1>4, <1>5, CallStepTypes
<1> QED
  BY <1>3, <1>6

LEMMA CountTypes ==
  ASSUME TypeInv
  PROVE  /\ used \in Counts
         /\ used.taps < MaxTaps => [used EXCEPT !.taps = @ + 1] \in Counts
         /\ used.awake < MaxAwake => [used EXCEPT !.awake = @ + 1] \in Counts
         /\ used.dismissals < MaxDismissals => [used EXCEPT !.dismissals = @ + 1] \in Counts
         /\ used.crashes < MaxCrashes => [used EXCEPT !.crashes = @ + 1] \in Counts
<1>1. used \in Counts
  BY DEF TypeInv, TypeOK, Counts
<1> QED
  BY <1>1, BoundsAssumption DEF Counts

LEMMA NextTypes == TypeInv /\ [Next]_vars => TypeInv'
<1> SUFFICES ASSUME TypeInv, [Next]_vars PROVE TypeInv'
  OBVIOUS
<1> USE DEF clock, history
<1>t. /\ TypeOK /\ DatedCalls
      /\ call \in [Calls -> Calling] /\ read \in [Readers -> Reading]
      /\ Days \subseteq Nat /\ used \in Counts
  BY DatesAssumption DEF TypeInv, TypeOK, Calling, Reading, Counts, Days
<1>n. NoRead \in Reading /\ [state |-> "asked", list |-> {}] \in Reading
  BY DEF NoRead, Reading
<1>s. "screen" \in Readers /\ Calls \subseteq Readers
  BY DEF Readers
\* It is enough to look at what a step may change.
<1>k. ASSUME kind' \in Kinds, doc' \subseteq Tasks, reminder' \subseteq Nat, money' \in Int, homeMoney' \in Int,
             screen' \in Screens \union {"none"}, shown' \subseteq Tasks,
             read' \in [Readers -> Reading], call' \in [Calls -> Calling], DatedCalls',
             dialogs' \in Seq(Calls), used' \in Counts,
             today' \in Days, now' \in [day : Days, early : BOOLEAN],
             awards' \in Nat, squares' \in Nat, last' \in Days \union {Epoch}
      PROVE  TypeInv'
  BY <1>k DEF TypeInv, TypeOK, Calling, Reading, Counts, Days, Tasks, Readers
<1>1. CASE Open
  <2>1. read' \in [Readers -> Reading] /\ screen' \in Screens \union {"none"}
    BY <1>1, <1>t, <1>n, <1>s DEF Open
  <2> QED BY <1>1, <1>t, <1>k, <2>1 DEF Open, TypeOK, DatedCalls
<1>2. CASE Leave
  <2>1. \A c \in Calls : /\ [call[c] EXCEPT !.here = FALSE] \in Calling
                         /\ [call[c] EXCEPT !.here = FALSE].pc = call[c].pc
                         /\ [call[c] EXCEPT !.here = FALSE].task = call[c].task
    BY <1>t DEF Calling
  <2>2. call' \in [Calls -> Calling]
    BY <1>2, <1>t, <2>1, IdleType DEF Leave
  <2>3. \A c \in Calls : call'[c].pc = call[c].pc /\ call'[c].task = call[c].task
    BY <1>2, <1>t, <2>1 DEF Leave
  <2>4. DatedCalls'
    BY <1>t, <2>3 DEF DatedCalls, Days
  <2>5. read' \in [Readers -> Reading] /\ shown' \subseteq Tasks
    BY <1>2, <1>n DEF Leave
  <2>6. screen' \in Screens \union {"none"}
    BY <1>2 DEF Leave
  <2> QED BY <1>2, <1>t, <1>k, <2>2, <2>4, <2>5, <2>6 DEF Leave, TypeOK
<1>3. CASE Refresh
  <2>1. read' \in [Readers -> Reading]
    BY <1>3, <1>t, <1>n, <1>s DEF Refresh
  <2> QED BY <1>3, <1>t, <1>k, <2>1 DEF Refresh, TypeOK, DatedCalls
<1>4. ASSUME NEW r \in Readers, Answer(r) PROVE TypeInv'
  <2>1. [state |-> "answered", list |-> {t \in doc : ShowCompleted \/ ~ t.isCompleted}] \in Reading
    BY <1>t DEF Reading, TypeOK
  <2>2. read' \in [Readers -> Reading]
    BY <1>4, <1>t, <2>1, AnswerTypes DEF Answer
  <2> QED BY <1>4, <1>t, <1>k, <2>2 DEF Answer, TypeOK, DatedCalls
<1>5. ASSUME NEW r \in Readers, Deliver(r) PROVE TypeInv'
  <2>1. read' \in [Readers -> Reading]
    BY <1>5, <1>t, <1>n DEF Deliver
  <2>2. shown' \subseteq Tasks
    BY <1>5, <1>t DEF Deliver, Reading
  <2> QED BY <1>5, <1>t, <1>k, <2>1, <2>2 DEF Deliver, TypeOK, DatedCalls
<1>6. ASSUME NEW c \in Calls, Tap(c) PROVE TypeInv'
  <2>1. PICK task \in shown :
          LET tapped == [task EXCEPT !.isCompleted = TRUE]
              fades  == screen = "list" /\ ~ ShowCompleted /\ ~ Repeats
          IN  /\ task.date \in Days
              /\ shown' = {tapped}
              /\ call' = [call EXCEPT ![c] =
                   [Idle EXCEPT !.pc = IF fades THEN "fade" ELSE "cancel",
                                !.task = tapped, !.from = screen]]
              /\ IF fades THEN UNCHANGED reminder ELSE Cancelled(tapped)
    BY <1>6 DEF Tap
  <2> DEFINE tapped == [task EXCEPT !.isCompleted = TRUE]
             pc == IF screen = "list" /\ ~ ShowCompleted /\ ~ Repeats THEN "fade" ELSE "cancel"
             next == [Idle EXCEPT !.pc = pc, !.task = tapped, !.from = screen]
  <2>2. task \in Tasks /\ screen \in Screens
    BY <1>6, <1>t DEF TypeOK, Tap
  <2>3. tapped \in Tasks /\ tapped.date = task.date
    BY <2>2, CompletedType DEF Tasks
  <2>4. shown' \subseteq Tasks /\ call' = [call EXCEPT ![c] = next]
    BY <2>1, <2>3
  <2>5. pc \in Pcs
    BY DEF Pcs
  <2> HIDE DEF pc, tapped
  <2>6. next \in Calling /\ next.task = tapped
    BY <2>2, <2>3, <2>5, IdleType DEF Calling
  <2>7. call' \in [Calls -> Calling] /\ DatedCalls'
    <3>1. next.task.date \in Days
      BY <2>1, <2>3, <2>6
    <3> HIDE DEF next
    <3> QED BY <2>4, <2>6, <3>1, CallStepTypes
  <2>8. reminder' \subseteq Nat
    BY <2>1, <1>t DEF Cancelled, TypeOK
  <2>9. used' \in Counts
    BY <1>6, CountTypes DEF Tap
  <2> QED BY <1>6, <1>t, <1>k, <2>4, <2>7, <2>8, <2>9 DEF Tap, TypeOK
<1>7. ASSUME NEW c \in Calls, Fade(c) PROVE TypeInv'
  <2>1. [call[c] EXCEPT !.pc = "cancel"] \in Calling /\ Idle \in Calling
    BY CallPcTypes, IdleType DEF Pcs
  <2>2. call' \in [Calls -> Calling] /\ DatedCalls'
    <3>1. CASE call[c].here
      <4>1. call' = [call EXCEPT ![c] = [call[c] EXCEPT !.pc = "cancel"]]
        BY <1>7, <1>t, <3>1 DEF Fade
      <4>2. [call[c] EXCEPT !.pc = "cancel"].task.date \in Days
        BY <1>7, <1>t, CallPcTypes DEF Fade, DatedCalls, Pcs
      <4> QED BY <2>1, <4>1, <4>2, CallStepTypes
    <3>2. CASE ~ call[c].here
      BY <1>7, <2>1, <3>2, CallStepTypes DEF Fade, Idle
    <3> QED BY <3>1, <3>2
  <2>3. shown' \subseteq Tasks /\ reminder' \subseteq Nat
    BY <1>7, <1>t DEF Fade, Cancelled, TypeOK
  <2> QED BY <1>7, <1>t, <1>k, <2>2, <2>3 DEF Fade, TypeOK
<1>8. ASSUME NEW c \in Calls, Mark(c) PROVE TypeInv'
  <2> DEFINE next == IF doc = {} THEN Idle ELSE [call[c] EXCEPT !.pc = "mark"]
  <2>1. next \in Calling
    BY CallPcTypes, IdleType DEF Pcs
  <2>2. next.pc \in {"fade", "cancel", "mark", "balance"} => next.task.date \in Days
    BY <1>8, <1>t, CallPcTypes DEF Mark, DatedCalls, Pcs, Idle
  <2>3. call' = [call EXCEPT ![c] = next]
    BY <1>8, <1>t DEF Mark
  <2> HIDE DEF next
  <2>4. call' \in [Calls -> Calling] /\ DatedCalls'
    BY <2>1, <2>2, <2>3, CallStepTypes
  <2>5. doc' \subseteq Tasks
    <3>1. \A t \in doc : [t EXCEPT !.isCompleted = TRUE] \in Tasks
      BY <1>t, CompletedType DEF TypeOK
    <3> QED BY <1>8, <3>1 DEF Mark
  <2> QED BY <1>8, <1>t, <1>k, <2>4, <2>5 DEF Mark, TypeOK
<1>9. ASSUME NEW c \in Calls, Award(c) PROVE TypeInv'
  <2> DEFINE next == [call[c] EXCEPT !.pc = "balance", !.paid = TRUE]
  <2>1. next \in Calling /\ next.task = call[c].task
    BY <1>t DEF Calling, Pcs
  <2>2. next.task.date \in Days
    BY <1>9, <1>t, <2>1 DEF Award, DatedCalls
  <2>3. call' = [call EXCEPT ![c] = next]
    BY <1>9, <1>t DEF Award, Calling
  <2> HIDE DEF next
  <2>4. call' \in [Calls -> Calling] /\ DatedCalls'
    BY <2>1, <2>2, <2>3, CallStepTypes
  <2>5. awards' \in Nat /\ squares' \in Nat
    <3>0. \A n \in Nat : (n + 1) * (n + 1) \in Nat
      OBVIOUS
    <3>1. (awards + 1) * (awards + 1) \in Nat
      BY <1>t, <3>0 DEF TypeOK
    <3>2. awards \in Nat /\ squares \in Nat
      BY <1>t DEF TypeOK
    <3>3. awards' = awards + 1 /\ squares' = squares + (awards + 1) * (awards + 1)
      BY <1>9 DEF Award
    <3> DEFINE square == (awards + 1) * (awards + 1)
    <3> HIDE DEF square
    <3>4. square \in Nat /\ squares' = squares + square
      BY <3>1, <3>3 DEF square
    <3> QED BY <3>2, <3>3, <3>4
  <2>6. last' \in Days \union {Epoch}
    BY <1>9, <1>t DEF Award, TypeOK
  <2> QED BY <1>9, <1>t, <1>k, <2>4, <2>5, <2>6 DEF Award, TypeOK
<1>10. ASSUME NEW c \in Calls, Refuse(c) PROVE TypeInv'
  <2>1. call[c].task.streak \in Nat
    BY <1>t DEF Calling, Tasks
  <2>2. doc' \subseteq Tasks /\ call' \in [Calls -> Calling] /\ DatedCalls'
    <3>1. [call[c] EXCEPT !.pc = "write"] \in Calling
      BY CallPcTypes DEF Pcs
    <3>2. [call[c] EXCEPT !.pc = "write"].pc = "write" /\ [call[c] EXCEPT !.pc = "write"].task = call[c].task
      BY <1>t DEF Calling
    <3>3. Repeats
      BY <1>10, <1>t, DatesAssumption DEF Refuse, TypeOK, Calling, Tasks, Repeats
    <3> QED BY <1>10, <2>1, <3>1, <3>2, <3>3, RescheduleTypes DEF Refuse
  <2>3. last' \in Days \union {Epoch}
    BY <1>10, <1>t DEF Refuse, TypeOK
  <2> QED BY <1>10, <1>t, <1>k, <2>2, <2>3 DEF Refuse, TypeOK
<1>11. ASSUME NEW c \in Calls, Balance(c) PROVE TypeInv'
  <2> DEFINE next == [call[c] EXCEPT !.balance = money, !.pc = "write"]
  <2>1. next \in Calling /\ next.task = call[c].task /\ next.pc = "write"
    BY <1>t DEF Calling, Pcs, TypeOK
  <2>2. call[c].task.streak + 1 \in Nat
    BY <1>t DEF Calling, Tasks
  <2>3. doc' \subseteq Tasks /\ call' \in [Calls -> Calling] /\ DatedCalls'
    <3>1. CASE Repeats
      <4>1. Reschedule(c, call[c].task.streak + 1, next)
        BY <1>11, <3>1 DEF Balance
      <4> HIDE DEF next
      <4> QED BY <1>11, <2>1, <2>2, <3>1, <4>1, RescheduleTypes DEF Balance
    <3>2. CASE ~ Repeats
      <4>1. call' = [call EXCEPT ![c] = next] /\ doc' = doc
        BY <1>11, <3>2 DEF Balance
      <4> HIDE DEF next
      <4> QED BY <1>t, <2>1, <4>1, CallStepTypes DEF TypeOK
    <3> QED BY <3>1, <3>2
  <2> QED BY <1>11, <1>t, <1>k, <2>3 DEF Balance, TypeOK
<1>12. ASSUME NEW c \in Calls, Fetch(c) PROVE TypeInv'
  <2> DEFINE next == IF doc = {} THEN Idle ELSE [call[c] EXCEPT !.pc = "event", !.event = doc]
  <2>1. next \in Calling /\ next.pc \in {"idle", "event"}
    BY <1>t, IdleType DEF Calling, Pcs, TypeOK, Idle
  <2>2. call' = [call EXCEPT ![c] = next]
    BY <1>12, <1>t DEF Fetch, Calling
  <2> HIDE DEF next
  <2>3. call' \in [Calls -> Calling] /\ DatedCalls'
    BY <2>1, <2>2, CallStepTypes
  <2> QED BY <1>12, <1>t, <1>k, <2>3 DEF Fetch, TypeOK
<1>13. ASSUME NEW c \in Calls, Remind(c) PROVE TypeInv'
  <2>1. call' = [call EXCEPT ![c] = [call[c] EXCEPT !.pc = "remind"]]
    BY <1>13, <1>t DEF Remind, Calling
  <2>2. call' \in [Calls -> Calling] /\ DatedCalls'
    BY <2>1, CallPcTypes, CallStepTypes DEF Pcs
  <2>3. reminder' \subseteq Nat
    <3>1. \A t \in call[c].event : t.date \in Nat
      BY <1>t DEF Calling, Tasks
    <3> QED BY <1>13, <1>t, <3>1 DEF Remind, TypeOK
  <2> QED BY <1>13, <1>t, <1>k, <2>2, <2>3 DEF Remind, TypeOK
<1>14. ASSUME NEW c \in Calls, ShowDialog(c) PROVE TypeInv'
  <2> DEFINE next == IF call[c].here THEN [call[c] EXCEPT !.pc = "dialog"] ELSE Idle
  <2>1. next \in Calling /\ next.pc \in {"dialog", "idle"}
    BY CallPcTypes, IdleType DEF Pcs, Idle
  <2>2. call' = [call EXCEPT ![c] = next]
    BY <1>14, <1>t DEF ShowDialog, Calling
  <2> HIDE DEF next
  <2>3. call' \in [Calls -> Calling] /\ DatedCalls'
    BY <2>1, <2>2, CallStepTypes
  <2>4. dialogs' \in Seq(Calls)
    <3>1. dialogs \in Seq(Calls) /\ <<c>> \in Seq(Calls)
      BY <1>t DEF TypeOK
    <3>2. <<c>> \o dialogs \in Seq(Calls)
      BY <3>1, ConcatProperties
    <3> QED BY <1>14, <3>1, <3>2 DEF ShowDialog
  <2>5. read' \in [Readers -> Reading]
    BY <1>14, <1>t, <1>n, <1>s DEF ShowDialog
  <2> QED BY <1>14, <1>t, <1>k, <2>3, <2>4, <2>5 DEF ShowDialog, TypeOK
<1>15. CASE PressBack
  <2>1. Head(dialogs) \in Calls /\ dialogs' \in Seq(Calls)
    BY <1>15, <1>t DEF PressBack, TypeOK
  <2>2. call' \in [Calls -> Calling] /\ DatedCalls'
    <3>1. call' = [call EXCEPT ![Head(dialogs)] = Idle]
      BY <1>15 DEF PressBack
    <3> QED BY <2>1, <3>1, IdleType, CallStepTypes DEF Idle
  <2>3. call[Head(dialogs)].balance \in Int /\ Reward(call[Head(dialogs)].task) \in Int
    <3>1. call[Head(dialogs)].task.streak \in Nat
      BY <1>t, <2>1 DEF Calling, Tasks
    <3>2. call[Head(dialogs)].balance \in Int
      BY <1>t, <2>1 DEF Calling
    <3>3. \A n \in Nat : (n + 1) * (n + 1) \in Int
      OBVIOUS
    <3> QED BY <3>1, <3>2, <3>3 DEF Reward
  <2>4. money' \in Int /\ homeMoney' \in Int
    <3>1. CASE call[Head(dialogs)].paid
      BY <1>15, <1>t, <2>3, <3>1 DEF PressBack, TypeOK
    <3>2. CASE ~ call[Head(dialogs)].paid
      BY <1>15, <1>t, <3>2 DEF PressBack, TypeOK
    <3> QED BY <3>1, <3>2
  <2> QED BY <1>15, <1>t, <1>k, <2>1, <2>2, <2>4 DEF PressBack, TypeOK
<1>16. CASE DismissDialog
  <2>1. Head(dialogs) \in Calls /\ dialogs' \in Seq(Calls)
    BY <1>16, <1>t DEF DismissDialog, TypeOK
  <2>2. call' \in [Calls -> Calling] /\ DatedCalls'
    <3>1. call' = [call EXCEPT ![Head(dialogs)] = Idle]
      BY <1>16 DEF DismissDialog
    <3> QED BY <2>1, <3>1, IdleType, CallStepTypes DEF Idle
  <2>3. used' \in Counts
    BY <1>16, CountTypes DEF DismissDialog
  <2> QED BY <1>16, <1>t, <1>k, <2>1, <2>2, <2>3 DEF DismissDialog, TypeOK
<1>17. ASSUME NEW c \in Calls, Delete(c) PROVE TypeInv'
  <2>1. PICK task \in shown : call' = [call EXCEPT ![c] =
                  [Idle EXCEPT !.pc = "delete", !.task = task, !.from = screen]]
    BY <1>17 DEF Delete
  <2> DEFINE next == [Idle EXCEPT !.pc = "delete", !.task = task, !.from = screen]
  <2>2. next \in Calling /\ next.pc = "delete"
    BY <1>17, <1>t, <2>1, IdleType DEF Delete, Calling, Pcs, TypeOK
  <2>3. call' = [call EXCEPT ![c] = next]
    BY <2>1
  <2> HIDE DEF next
  <2>4. call' \in [Calls -> Calling] /\ DatedCalls'
    BY <2>2, <2>3, CallStepTypes
  <2>5. shown' \subseteq Tasks /\ doc' \subseteq Tasks
    BY <1>17, <1>t DEF Delete, TypeOK
  <2> QED BY <1>17, <1>t, <1>k, <2>4, <2>5 DEF Delete, TypeOK
<1>18. ASSUME NEW c \in Calls, CancelDeleted(c) PROVE TypeInv'
  <2>1. call' \in [Calls -> Calling] /\ DatedCalls'
    BY <1>18, IdleType, CallStepTypes DEF CancelDeleted, Idle
  <2>2. reminder' \subseteq Nat
    BY <1>18, <1>t DEF CancelDeleted, Cancelled, TypeOK
  <2> QED BY <1>18, <1>t, <1>k, <2>1, <2>2 DEF CancelDeleted, TypeOK
<1>19. CASE Midnight
  <2>1. today' \in Days
    BY <1>19, <1>t, DatesAssumption DEF Midnight, TypeOK, Days
  <2>2. used' \in Counts
    BY <1>19, CountTypes DEF Midnight
  <2> QED BY <1>19, <1>t, <1>k, <2>1, <2>2 DEF Midnight, TypeOK, DatedCalls
<1>20. CASE Restart
  <2>1. today' \in Days
    BY <1>20, <1>t, DatesAssumption DEF Restart, TypeOK, Days
  <2>2. now' \in [day : Days, early : BOOLEAN]
    <3>1. (IF kind.hasReminder THEN BOOLEAN ELSE {FALSE}) \subseteq BOOLEAN
      OBVIOUS
    <3>2. now' \in [day : {today'}, early : IF kind.hasReminder THEN BOOLEAN ELSE {FALSE}]
      BY <1>20 DEF Restart
    <3> QED BY <2>1, <3>1, <3>2, Zenon
  <2>3. used' \in Counts
    BY <1>20, CountTypes DEF Restart
  <2>4. call' \in [Calls -> Calling] /\ DatedCalls'
    BY <1>20, IdleType DEF Restart, DatedCalls, Idle
  <2>5. /\ read' \in [Readers -> Reading] /\ shown' \subseteq Tasks /\ dialogs' \in Seq(Calls)
        /\ screen' \in Screens \union {"none"}
    BY <1>20, <1>n DEF Restart
  <2> QED BY <1>20, <1>t, <1>k, <2>1, <2>2, <2>3, <2>4, <2>5 DEF Restart, TypeOK
<1>21. CASE UNCHANGED vars
  BY <1>21, <1>t, <1>k DEF vars, TypeOK, DatedCalls
<1> QED
  BY <1>1, <1>2, <1>3, <1>4, <1>5, <1>6, <1>7, <1>8, <1>9, <1>10, <1>11, <1>12, <1>13, <1>14,
     <1>15, <1>16, <1>17, <1>18, <1>19, <1>20, <1>21 DEF Next, Resume

\* Every variable keeps its type.
THEOREM TypeCorrect == Spec => []TypeOK
<1>1. TypeInv => TypeOK
  BY DEF TypeInv
<1> QED
  BY InitTypes, NextTypes, <1>1, PTL DEF Spec

-----------------------------------------------------------------------------
(* The streak. *)

\* A copy of the task is never ahead of the rewards, wherever it is, and the copy
\* of an invocation that was found worth a reward is one behind.
CopiesEarned ==
  /\ \A t \in shown : t.streak <= awards
  /\ \A r \in Readers : \A t \in read[r].list : t.streak <= awards

CallsEarned ==
  \A c \in Calls : /\ call[c].task.streak <= awards
                   /\ call[c].pc = "balance" => call[c].task.streak + 1 <= awards

StreakInv == StreakIsEarned /\ CopiesEarned /\ CallsEarned

LEMMA InitStreak == Init => StreakInv
<1> SUFFICES ASSUME Init PROVE StreakInv
  OBVIOUS
<1>1. \A date, timed : NewTask(date, timed).streak = 0
  BY DEF NewTask
<1>2. \A t \in doc : t.streak = 0
  BY <1>1 DEF Init
<1>3. \A c \in Calls : call[c].pc = "idle" /\ call[c].task.streak = 0
  BY <1>1 DEF Init, Idle
<1>4. shown = {} /\ (\A r \in Readers : read[r].list = {}) /\ awards = 0
  BY DEF Init, NoRead
<1> QED
  BY <1>2, <1>3, <1>4 DEF StreakInv, StreakIsEarned, CopiesEarned, CallsEarned

\* An invocation that keeps its task, or takes one that is not ahead.
LEMMA CallStepEarned ==
  ASSUME TypeInv, CallsEarned, NEW c \in Calls, NEW next,
         call' = [call EXCEPT ![c] = next],
         awards' \in Nat, awards' >= awards,
         next.task.streak <= awards',
         next.pc = "balance" => next.task.streak + 1 <= awards'
  PROVE  CallsEarned'
<1>1. call \in [Calls -> Calling] /\ awards \in Nat
  BY DEF TypeInv, TypeOK, Calling
<1>2. ASSUME NEW e \in Calls
      PROVE  /\ call'[e].task.streak <= awards'
             /\ call'[e].pc = "balance" => call'[e].task.streak + 1 <= awards'
  <2>1. CASE e = c
    BY <1>1, <2>1
  <2>2. CASE e # c
    <3>1. call'[e] = call[e] /\ call[e].task.streak \in Nat
      BY <1>1, <2>2 DEF Calling, Tasks
    <3>2. /\ call[e].task.streak <= awards
          /\ call[e].pc = "balance" => call[e].task.streak + 1 <= awards
      BY DEF CallsEarned
    <3> QED BY <1>1, <3>1, <3>2
  <2> QED BY <2>1, <2>2
<1> QED
  BY <1>2 DEF CallsEarned

\* A list that is replaced by one that is not ahead.
LEMMA ReadStepEarned ==
  ASSUME TypeInv, CopiesEarned, NEW r \in Readers, NEW next,
         read' = [read EXCEPT ![r] = next],
         \A t \in next.list : t.streak <= awards, awards' = awards
  PROVE  \A e \in Readers : \A t \in read'[e].list : t.streak <= awards'
<1>1. read \in [Readers -> Reading]
  BY DEF TypeInv, TypeOK, Reading
<1> QED
  BY <1>1 DEF CopiesEarned

LEMMA NextStreak == TypeInv /\ StreakInv /\ [Next]_vars => StreakInv'
<1> SUFFICES ASSUME TypeInv, StreakInv, [Next]_vars PROVE StreakInv'
  OBVIOUS
<1> USE DEF clock, history
<1>t. /\ TypeOK /\ awards \in Nat
      /\ call \in [Calls -> Calling] /\ read \in [Readers -> Reading]
      /\ doc \subseteq Tasks /\ shown \subseteq Tasks
      /\ "screen" \in Readers /\ Calls \subseteq Readers
  BY DEF TypeInv, TypeOK, Calling, Reading, Readers
<1>h. StreakIsEarned /\ CopiesEarned /\ CallsEarned
  BY DEF StreakInv
<1>i. Idle.task.streak = 0 /\ Idle.pc = "idle" /\ NoRead.list = {} /\ 0 <= awards
  BY <1>t DEF Idle, NewTask, NoRead
\* The parts that a step leaves alone.
<1>d. UNCHANGED <<doc, awards>> => StreakIsEarned'
  BY <1>h DEF StreakIsEarned
<1>s. UNCHANGED <<shown, awards>> => \A t \in shown' : t.streak <= awards'
  BY <1>h DEF CopiesEarned
<1>r. UNCHANGED <<read, awards>> => \A r \in Readers : \A t \in read'[r].list : t.streak <= awards'
  BY <1>h DEF CopiesEarned
<1>c. UNCHANGED <<call, awards>> => CallsEarned'
  BY <1>h DEF CallsEarned
<1>k. ASSUME StreakIsEarned', CallsEarned', \A t \in shown' : t.streak <= awards',
             \A r \in Readers : \A t \in read'[r].list : t.streak <= awards'
      PROVE  StreakInv'
  BY <1>k DEF StreakInv, CopiesEarned, Readers
\* An invocation that goes on with its task, or ends.
<1>e. ASSUME NEW c \in Calls, NEW next, call' = [call EXCEPT ![c] = next],
             next.task = call[c].task \/ next = Idle, next.pc # "balance",
             awards' = awards
      PROVE  CallsEarned'
  <2>1. next.task.streak <= awards
    BY <1>e, <1>h, <1>i DEF CallsEarned
  <2>2. awards' \in Nat /\ awards' >= awards /\ next.task.streak <= awards'
    BY <1>e, <1>t, <2>1
  <2>3. next.pc = "balance" => next.task.streak + 1 <= awards'
    BY <1>e
  <2> QED BY <1>e, <1>h, <2>2, <2>3, CallStepEarned
<1>1. CASE Open \/ Refresh
  <2>1. \A r \in Readers : \A t \in read'[r].list : t.streak <= awards'
    <3> DEFINE next == [state |-> "asked", list |-> {}]
    <3>1. next.list = {} /\ read' = [read EXCEPT !["screen"] = next] /\ awards' = awards
      BY <1>1 DEF Open, Refresh
    <3> HIDE DEF next
    <3> QED BY <1>h, <1>t, <3>1, ReadStepEarned
  <2> QED BY <1>1, <1>k, <1>d, <1>c, <1>s, <2>1 DEF Open, Refresh
<1>2. CASE Leave
  <2>1. shown' = {} /\ (\A r \in Readers : read'[r].list = {})
    BY <1>2, <1>i DEF Leave
  <2>2. \A c \in Calls : call'[c].task = call[c].task /\ call'[c].pc = call[c].pc
    BY <1>2, <1>t DEF Leave, Calling
  <2>3. CallsEarned'
    BY <1>2, <1>h, <2>2 DEF Leave, CallsEarned
  <2> QED BY <1>2, <1>k, <1>d, <2>1, <2>3 DEF Leave
<1>3. ASSUME NEW r \in Readers, Answer(r) PROVE StreakInv'
  <2> DEFINE next == [state |-> "answered", list |-> {t \in doc : ShowCompleted \/ ~ t.isCompleted}]
  <2>1. next.list \subseteq doc /\ read' = [read EXCEPT ![r] = next] /\ awards' = awards
    BY <1>3 DEF Answer
  <2> HIDE DEF next
  <2>2. \A t \in next.list : t.streak <= awards
    BY <1>h, <2>1 DEF StreakIsEarned
  <2>3. \A e \in Readers : \A t \in read'[e].list : t.streak <= awards'
    BY <1>h, <2>1, <2>2, ReadStepEarned
  <2> QED BY <1>3, <1>k, <1>d, <1>c, <1>s, <2>3 DEF Answer
<1>4. ASSUME NEW r \in Readers, Deliver(r) PROVE StreakInv'
  <2>1. \A t \in shown' : t.streak <= awards'
    BY <1>4, <1>h DEF Deliver, CopiesEarned
  <2>2. \A e \in Readers : \A t \in read'[e].list : t.streak <= awards'
    BY <1>4, <1>h, <1>i, ReadStepEarned DEF Deliver
  <2> QED BY <1>4, <1>k, <1>d, <1>c, <2>1, <2>2 DEF Deliver
<1>5. ASSUME NEW c \in Calls, Tap(c) PROVE StreakInv'
  <2>1. PICK task \in shown :
          LET tapped == [task EXCEPT !.isCompleted = TRUE]
              fades  == screen = "list" /\ ~ ShowCompleted /\ ~ Repeats
          IN  /\ shown' = {tapped}
              /\ call' = [call EXCEPT ![c] =
                   [Idle EXCEPT !.pc = IF fades THEN "fade" ELSE "cancel",
                                !.task = tapped, !.from = screen]]
    BY <1>5 DEF Tap
  <2> DEFINE tapped == [task EXCEPT !.isCompleted = TRUE]
             pc == IF screen = "list" /\ ~ ShowCompleted /\ ~ Repeats THEN "fade" ELSE "cancel"
             next == [Idle EXCEPT !.pc = pc, !.task = tapped, !.from = screen]
  <2>2. tapped.streak = task.streak
    BY <1>t DEF Tasks
  <2>3. task.streak <= awards
    BY <1>h DEF CopiesEarned
  <2>4. next.task = tapped /\ next.pc # "balance"
    BY DEF Idle
  <2>5. shown' = {tapped} /\ call' = [call EXCEPT ![c] = next] /\ awards' = awards
    BY <1>5, <2>1 DEF Tap
  <2> HIDE DEF next, tapped
  <2>6. CallsEarned'
    <3>1. awards' \in Nat /\ awards' >= awards /\ next.task.streak <= awards'
      BY <1>t, <2>2, <2>3, <2>4, <2>5
    <3>2. next.pc = "balance" => next.task.streak + 1 <= awards'
      BY <2>4
    <3> QED BY <1>h, <2>5, <3>1, <3>2, CallStepEarned
  <2>7. \A t \in shown' : t.streak <= awards'
    BY <2>2, <2>3, <2>5
  <2> QED BY <1>5, <1>k, <1>d, <1>r, <2>6, <2>7 DEF Tap
<1>6. ASSUME NEW c \in Calls, Fade(c) PROVE StreakInv'
  <2> DEFINE next == IF call[c].here THEN [call[c] EXCEPT !.pc = "cancel"] ELSE Idle
  <2>1. /\ call' = [call EXCEPT ![c] = next] /\ awards' = awards
        /\ next.task = call[c].task \/ next = Idle
        /\ next.pc # "balance"
    BY <1>6, <1>t, <1>i DEF Fade, Calling
  <2> HIDE DEF next
  <2>2. CallsEarned'
    BY <1>e, <2>1
  <2>3. \A t \in shown' : t.streak <= awards'
    BY <1>6, <1>h DEF Fade, CopiesEarned
  <2> QED BY <1>6, <1>k, <1>d, <1>r, <2>2, <2>3 DEF Fade
<1>7. ASSUME NEW c \in Calls, Mark(c) PROVE StreakInv'
  <2> DEFINE next == IF doc = {} THEN Idle ELSE [call[c] EXCEPT !.pc = "mark"]
  <2>1. /\ call' = [call EXCEPT ![c] = next] /\ awards' = awards
        /\ next.task = call[c].task \/ next = Idle
        /\ next.pc # "balance"
    BY <1>7, <1>t, <1>i DEF Mark, Calling
  <2> HIDE DEF next
  <2>2. CallsEarned'
    BY <1>e, <2>1
  <2>3. \A t \in doc : [t EXCEPT !.isCompleted = TRUE].streak = t.streak
    BY <1>t DEF Tasks
  <2>4. StreakIsEarned'
    BY <1>7, <1>h, <2>3 DEF Mark, StreakIsEarned
  <2> QED BY <1>7, <1>k, <1>s, <1>r, <2>2, <2>4 DEF Mark
<1>8. ASSUME NEW c \in Calls, Award(c) PROVE StreakInv'
  <2> DEFINE next == [call[c] EXCEPT !.pc = "balance", !.paid = TRUE]
  <2>1. call' = [call EXCEPT ![c] = next] /\ next.task = call[c].task
    BY <1>8, <1>t DEF Award, Calling
  <2>2. awards' = awards + 1
    BY <1>8 DEF Award
  <2>3. call[c].task.streak \in Nat /\ call[c].task.streak <= awards
    BY <1>t, <1>h DEF CallsEarned, Calling, Tasks
  <2> HIDE DEF next
  <2>4. CallsEarned'
    <3>1. awards' \in Nat /\ awards' >= awards /\ next.task.streak <= awards'
      BY <1>t, <2>1, <2>2, <2>3
    <3>2. next.task.streak + 1 <= awards'
      BY <1>t, <2>1, <2>2, <2>3
    <3> QED BY <1>h, <2>1, <3>1, <3>2, CallStepEarned
  <2>5. \A n \in Nat : n <= awards => n <= awards'
    BY <1>t, <2>2
  <2>6. StreakIsEarned'
    <3>1. \A t \in doc : t.streak \in Nat
      BY <1>t DEF Tasks
    <3> QED BY <1>8, <1>h, <2>5, <3>1 DEF Award, StreakIsEarned
  <2>7. /\ \A t \in shown' : t.streak <= awards'
        /\ \A r \in Readers : \A t \in read'[r].list : t.streak <= awards'
    <3>1. /\ \A t \in shown : t.streak \in Nat
          /\ \A r \in Readers : \A t \in read[r].list : t.streak \in Nat
      BY <1>t DEF Tasks, Reading
    <3> QED BY <1>8, <1>h, <2>5, <3>1 DEF Award, CopiesEarned
  <2> QED BY <1>k, <2>4, <2>6, <2>7
<1>9. ASSUME NEW c \in Calls, NEW streak \in Nat, NEW next, streak <= awards,
             next.task = call[c].task, next.pc = "write", Reschedule(c, streak, next),
             UNCHANGED <<shown, read, awards>>
      PROVE  StreakInv'
  <2> DEFINE end == IF doc = {} THEN Idle ELSE next
  <2>1. /\ call' = [call EXCEPT ![c] = end] /\ awards' = awards
        /\ end.task = call[c].task \/ end = Idle
        /\ end.pc # "balance"
    BY <1>9, <1>i DEF Reschedule
  <2> HIDE DEF end
  <2>2. CallsEarned'
    BY <1>e, <2>1
  <2>3. \A t \in doc' : t.streak = streak
    BY <1>9 DEF Reschedule
  <2>4. StreakIsEarned'
    BY <1>9, <2>3 DEF StreakIsEarned
  <2> QED BY <1>9, <1>k, <1>s, <1>r, <2>2, <2>4
<1>10. ASSUME NEW c \in Calls, Refuse(c) PROVE StreakInv'
  <2> DEFINE next == [call[c] EXCEPT !.pc = "write"]
  <2>1. next.task = call[c].task /\ next.pc = "write"
    BY <1>t DEF Calling
  <2>2. call[c].task.streak \in Nat /\ call[c].task.streak <= awards
    BY <1>t, <1>h DEF CallsEarned, Calling, Tasks
  <2>3. Reschedule(c, call[c].task.streak, next) /\ UNCHANGED <<shown, read, awards>>
    BY <1>10 DEF Refuse
  <2> HIDE DEF next
  <2> QED BY <1>9, <2>1, <2>2, <2>3
<1>11. ASSUME NEW c \in Calls, Balance(c) PROVE StreakInv'
  <2> DEFINE next == [call[c] EXCEPT !.balance = money, !.pc = "write"]
  <2>1. next.task = call[c].task /\ next.pc = "write"
    BY <1>t DEF Calling
  <2>2. call[c].task.streak + 1 \in Nat /\ call[c].task.streak + 1 <= awards
    BY <1>11, <1>t, <1>h DEF Balance, CallsEarned, Calling, Tasks
  <2>3. CASE Repeats
    <3>1. Reschedule(c, call[c].task.streak + 1, next) /\ UNCHANGED <<shown, read, awards>>
      BY <1>11, <2>3 DEF Balance
    <3> HIDE DEF next
    <3> QED BY <1>9, <2>1, <2>2, <3>1
  <2>4. CASE ~ Repeats
    <3>1. call' = [call EXCEPT ![c] = next] /\ UNCHANGED <<doc, shown, read, awards>>
      BY <1>11, <2>4 DEF Balance
    <3> HIDE DEF next
    <3>2. CallsEarned'
      BY <1>e, <2>1, <3>1
    <3> QED BY <1>k, <1>d, <1>s, <1>r, <3>1, <3>2
  <2> QED BY <2>3, <2>4
<1>12. ASSUME NEW c \in Calls, Fetch(c) PROVE StreakInv'
  <2> DEFINE next == IF doc = {} THEN Idle ELSE [call[c] EXCEPT !.pc = "event", !.event = doc]
  <2>1. /\ call' = [call EXCEPT ![c] = next] /\ awards' = awards
        /\ next.task = call[c].task \/ next = Idle
        /\ next.pc # "balance"
    BY <1>12, <1>t, <1>i DEF Fetch, Calling
  <2> HIDE DEF next
  <2> QED BY <1>12, <1>e, <1>k, <1>d, <1>s, <1>r, <2>1 DEF Fetch
<1>13. ASSUME NEW c \in Calls, Remind(c) PROVE StreakInv'
  <2> DEFINE next == [call[c] EXCEPT !.pc = "remind"]
  <2>1. /\ call' = [call EXCEPT ![c] = next] /\ awards' = awards
        /\ next.task = call[c].task /\ next.pc # "balance"
    BY <1>13, <1>t DEF Remind, Calling
  <2> HIDE DEF next
  <2> QED BY <1>13, <1>e, <1>k, <1>d, <1>s, <1>r, <2>1 DEF Remind
<1>14. ASSUME NEW c \in Calls, ShowDialog(c) PROVE StreakInv'
  <2> DEFINE next == IF call[c].here THEN [call[c] EXCEPT !.pc = "dialog"] ELSE Idle
             list == [state |-> "asked", list |-> {}]
  <2>1. /\ call' = [call EXCEPT ![c] = next] /\ awards' = awards
        /\ next.task = call[c].task \/ next = Idle
        /\ next.pc # "balance"
    BY <1>14, <1>t, <1>i DEF ShowDialog, Calling
  <2>2. list.list = {} /\ (read' = read \/ read' = [read EXCEPT ![c] = list])
    BY <1>14 DEF ShowDialog
  <2> HIDE DEF next, list
  <2>3. CallsEarned'
    BY <1>e, <2>1
  <2>4. \A r \in Readers : \A t \in read'[r].list : t.streak <= awards'
    BY <1>h, <1>t, <1>r, <2>1, <2>2, ReadStepEarned
  <2> QED BY <1>14, <1>k, <1>d, <1>s, <2>3, <2>4 DEF ShowDialog
<1>15. CASE PressBack \/ DismissDialog
  <2>1. Head(dialogs) \in Calls
    BY <1>15, <1>t DEF PressBack, DismissDialog, TypeOK
  <2>2. call' = [call EXCEPT ![Head(dialogs)] = Idle] /\ awards' = awards
    BY <1>15 DEF PressBack, DismissDialog
  <2>3. CallsEarned'
    BY <1>e, <1>i, <2>1, <2>2
  <2> QED BY <1>15, <1>k, <1>d, <1>s, <1>r, <2>3 DEF PressBack, DismissDialog
<1>16. ASSUME NEW c \in Calls, Delete(c) PROVE StreakInv'
  <2>1. PICK task \in shown : call' = [call EXCEPT ![c] =
                  [Idle EXCEPT !.pc = "delete", !.task = task, !.from = screen]]
    BY <1>16 DEF Delete
  <2> DEFINE next == [Idle EXCEPT !.pc = "delete", !.task = task, !.from = screen]
  <2>2. next.task = task /\ next.pc = "delete"
    BY DEF Idle
  <2>3. call' = [call EXCEPT ![c] = next] /\ awards' = awards
    BY <1>16, <2>1 DEF Delete
  <2> HIDE DEF next
  <2>4. CallsEarned'
    <3>1. awards' \in Nat /\ awards' >= awards /\ next.task.streak <= awards'
      BY <1>h, <1>t, <2>2, <2>3 DEF CopiesEarned
    <3>2. next.pc = "balance" => next.task.streak + 1 <= awards'
      BY <2>2
    <3> QED BY <1>h, <2>3, <3>1, <3>2, CallStepEarned
  <2>5. StreakIsEarned' /\ \A t \in shown' : t.streak <= awards'
    BY <1>16, <1>h DEF Delete, StreakIsEarned, CopiesEarned
  <2> QED BY <1>16, <1>k, <1>r, <2>4, <2>5 DEF Delete
<1>17. ASSUME NEW c \in Calls, CancelDeleted(c) PROVE StreakInv'
  <2>1. CallsEarned'
    BY <1>17, <1>e, <1>i DEF CancelDeleted
  <2> QED BY <1>17, <1>k, <1>d, <1>s, <1>r, <2>1 DEF CancelDeleted
<1>18. CASE Midnight \/ UNCHANGED vars
  BY <1>18, <1>k, <1>d, <1>s, <1>r, <1>c DEF Midnight, vars
<1>19. CASE Restart
  <2>1. CallsEarned'
    BY <1>19, <1>i DEF Restart, CallsEarned
  <2>2. /\ \A t \in shown' : t.streak <= awards'
        /\ \A r \in Readers : \A t \in read'[r].list : t.streak <= awards'
    BY <1>19, <1>i DEF Restart
  <2> QED BY <1>19, <1>k, <1>d, <2>1, <2>2 DEF Restart
<1> QED
  BY <1>1, <1>2, <1>3, <1>4, <1>5, <1>6, <1>7, <1>8, <1>10, <1>11, <1>12, <1>13, <1>14,
     <1>15, <1>16, <1>17, <1>18, <1>19 DEF Next, Resume

\* Whatever the interleaving of completions, stale lists, deletions and kills, the
\* streak in the database never exceeds the completions that earned a reward.
THEOREM StreaksAreEarned == Spec => []StreakIsEarned
<1>1. StreakInv => StreakIsEarned
  BY DEF StreakInv
<1> QED
  BY InitTypes, NextTypes, InitStreak, NextStreak, <1>1, PTL DEF Spec

-----------------------------------------------------------------------------
(* A completed repeated task is in hand. *)

\* The dialogs belong to different invocations, which wait for them, so that closing
\* one ends no invocation that is still to reschedule the task.
DialogsWait ==
  \A i \in 1 .. Len(dialogs) :
    /\ call[dialogs[i]].pc = "dialog"
    /\ \A j \in 1 .. Len(dialogs) : dialogs[i] = dialogs[j] => i = j

HandInv == CompletedIsInHand /\ DialogsWait

LEMMA InitHand == Init => HandInv
<1> SUFFICES ASSUME Init PROVE HandInv
  OBVIOUS
<1>1. \A t \in doc : ~ t.isCompleted
  BY DEF Init, NewTask
<1>2. Len(dialogs) = 0
  BY DEF Init
<1> QED
  BY <1>1, <1>2 DEF HandInv, CompletedIsInHand, DialogsWait

\* A step of an invocation that is not about to reschedule the task.
LEMMA HandStep ==
  ASSUME TypeInv, CompletedIsInHand, NEW c \in Calls, NEW next,
         call[c].pc \notin {"mark", "balance"},
         call' = [call EXCEPT ![c] = next],
         UNCHANGED <<kind, doc>>, used'.crashes = used.crashes
  PROVE  CompletedIsInHand'
<1> SUFFICES ASSUME Repeats, used.crashes = 0, \E t \in doc : t.isCompleted
             PROVE  \E e \in Calls : call'[e].pc \in {"mark", "balance"}
  BY DEF CompletedIsInHand, Repeats
<1>1. PICK e \in Calls : call[e].pc \in {"mark", "balance"}
  BY DEF CompletedIsInHand
<1>2. e # c
  BY <1>1
<1>3. call'[e] = call[e]
  BY <1>2 DEF TypeInv, TypeOK
<1> QED
  BY <1>1, <1>3

\* A step of an invocation that waits for no dialog.
LEMMA DialogStep ==
  ASSUME TypeInv, DialogsWait, NEW c \in Calls, NEW next,
         call[c].pc # "dialog",
         call' = [call EXCEPT ![c] = next],
         dialogs' = dialogs
  PROVE  DialogsWait'
<1> SUFFICES ASSUME NEW i \in 1 .. Len(dialogs)
             PROVE  /\ call'[dialogs[i]].pc = "dialog"
                    /\ \A j \in 1 .. Len(dialogs) : dialogs[i] = dialogs[j] => i = j
  BY DEF DialogsWait
<1>1. call[dialogs[i]].pc = "dialog" /\ \A j \in 1 .. Len(dialogs) : dialogs[i] = dialogs[j] => i = j
  BY DEF DialogsWait
<1>2. dialogs[i] \in Calls /\ dialogs[i] # c
  BY <1>1 DEF TypeInv, TypeOK
<1>3. call'[dialogs[i]] = call[dialogs[i]]
  BY <1>2 DEF TypeInv, TypeOK
<1> QED
  BY <1>1, <1>3

\* The top dialog is closed, and its invocation ends.
LEMMA CloseStep ==
  ASSUME TypeInv, HandInv, dialogs # <<>>,
         call' = [call EXCEPT ![Head(dialogs)] = Idle],
         dialogs' = Tail(dialogs),
         UNCHANGED <<kind, doc>>, used'.crashes = used.crashes
  PROVE  HandInv'
<1> DEFINE c == Head(dialogs)
<1>1. /\ dialogs \in Seq(Calls) /\ Len(dialogs) \in Nat /\ Len(dialogs) >= 1
      /\ c = dialogs[1] /\ c \in Calls
  BY DEF TypeInv, TypeOK
<1>2. call[c].pc = "dialog"
  BY <1>1 DEF HandInv, DialogsWait
<1>3. CompletedIsInHand'
  BY <1>1, <1>2, HandStep DEF HandInv
<1>4. DialogsWait'
  <2>1. /\ Len(dialogs') = Len(dialogs) - 1
        /\ \A i \in 1 .. Len(dialogs') : dialogs'[i] = dialogs[i + 1]
    BY <1>1
  <2>2. ASSUME NEW i \in 1 .. Len(dialogs')
        PROVE  /\ call'[dialogs'[i]].pc = "dialog"
               /\ \A j \in 1 .. Len(dialogs') : dialogs'[i] = dialogs'[j] => i = j
    <3>1. i + 1 \in 1 .. Len(dialogs) /\ i + 1 # 1 /\ 1 \in 1 .. Len(dialogs)
      BY <1>1, <2>1
    <3>2. dialogs[i + 1] # c /\ dialogs[i + 1] \in Calls /\ call[dialogs[i + 1]].pc = "dialog"
      BY <1>1, <3>1 DEF HandInv, DialogsWait
    <3>3. call'[dialogs[i + 1]] = call[dialogs[i + 1]]
      BY <3>2 DEF TypeInv, TypeOK
    <3>4. \A j \in 1 .. Len(dialogs') : dialogs[i + 1] = dialogs[j + 1] => i = j
      <4>1. \A j \in 1 .. Len(dialogs') : j + 1 \in 1 .. Len(dialogs)
        BY <1>1, <2>1
      <4>2. \A j \in 1 .. Len(dialogs') : dialogs[i + 1] = dialogs[j + 1] => i + 1 = j + 1
        BY <3>1, <4>1 DEF HandInv, DialogsWait
      <4> QED BY <1>1, <2>1, <4>2
    <3> QED BY <2>1, <3>2, <3>3, <3>4
  <2> QED BY <2>2 DEF DialogsWait
<1> QED
  BY <1>3, <1>4 DEF HandInv

LEMMA NextHand == TypeInv /\ HandInv /\ [Next]_vars => HandInv'
<1> SUFFICES ASSUME TypeInv, HandInv, [Next]_vars PROVE HandInv'
  OBVIOUS
<1> USE DEF clock, history
<1>t. /\ call \in [Calls -> Calling] /\ used \in Counts
      /\ CompletedIsInHand /\ DialogsWait
      /\ dialogs \in Seq(Calls)
  BY DEF TypeInv, TypeOK, Calling, Counts, HandInv
\* Steps that leave the invocations, the task and the dialogs alone.
<1>u. ASSUME UNCHANGED <<kind, doc, call, dialogs>>, used'.crashes = used.crashes
      PROVE  HandInv'
  BY <1>u, <1>t DEF HandInv, CompletedIsInHand, DialogsWait, Repeats
\* Steps of an invocation that neither reschedules nor shows a dialog.
<1>v. ASSUME NEW c \in Calls, NEW next, call' = [call EXCEPT ![c] = next],
             call[c].pc \notin {"mark", "balance", "dialog"},
             UNCHANGED <<kind, doc, dialogs>>, used'.crashes = used.crashes
      PROVE  HandInv'
  BY <1>v, <1>t, HandStep, DialogStep DEF HandInv
\* Steps after which the task is open, or gone.
<1>w. ASSUME NEW c \in Calls, NEW next, call' = [call EXCEPT ![c] = next],
             call[c].pc # "dialog", UNCHANGED dialogs, \A t \in doc' : ~ t.isCompleted
      PROVE  HandInv'
  <2>1. CompletedIsInHand'
    BY <1>w DEF CompletedIsInHand
  <2>2. DialogsWait'
    BY <1>w, <1>t, DialogStep
  <2> QED BY <2>1, <2>2 DEF HandInv
<1>1. CASE Open \/ Refresh \/ \E r \in Readers : Answer(r) \/ Deliver(r)
  BY <1>1, <1>u DEF Open, Refresh, Answer, Deliver
<1>2. CASE Leave
  <2>1. \A c \in Calls : call'[c].pc = call[c].pc
    BY <1>2, <1>t DEF Leave, Calling
  <2>2. UNCHANGED <<kind, doc, dialogs, used>>
    BY <1>2 DEF Leave
  <2>3. CompletedIsInHand'
    BY <1>t, <2>1, <2>2 DEF CompletedIsInHand, Repeats
  <2>4. \A i \in 1 .. Len(dialogs) : dialogs[i] \in Calls
    BY <1>t
  <2>5. DialogsWait'
    BY <1>t, <2>1, <2>2, <2>4 DEF DialogsWait
  <2> QED BY <2>3, <2>5 DEF HandInv
<1>3. ASSUME NEW c \in Calls, Tap(c) PROVE HandInv'
  <2>1. PICK next : call' = [call EXCEPT ![c] = next]
    BY <1>3 DEF Tap
  <2>2. call[c].pc = "idle" /\ UNCHANGED <<kind, doc, dialogs>>
    BY <1>3 DEF Tap, Idle
  <2>3. used'.crashes = used.crashes
    BY <1>3, <1>t DEF Tap, Counts
  <2> QED BY <1>v, <2>1, <2>2, <2>3
<1>4. ASSUME NEW c \in Calls, Fade(c) PROVE HandInv'
  <2>1. PICK next : call' = [call EXCEPT ![c] = next]
    BY <1>4 DEF Fade
  <2>2. call[c].pc = "fade" /\ UNCHANGED <<kind, doc, dialogs, used>>
    BY <1>4 DEF Fade
  <2> QED BY <1>v, <2>1, <2>2
<1>5. ASSUME NEW c \in Calls, Mark(c) PROVE HandInv'
  <2> DEFINE next == IF doc = {} THEN Idle ELSE [call[c] EXCEPT !.pc = "mark"]
  <2>1. call' = [call EXCEPT ![c] = next] /\ call[c].pc = "cancel" /\ UNCHANGED <<kind, dialogs, used>>
    BY <1>5 DEF Mark
  <2>2. DialogsWait'
    BY <1>t, <2>1, DialogStep
  <2>3. CASE doc = {}
    <3>1. doc' = {}
      BY <1>5, <2>3 DEF Mark
    <3> QED BY <2>2, <3>1 DEF HandInv, CompletedIsInHand
  <2>4. CASE doc # {}
    <3>1. call'[c].pc = "mark"
      BY <1>t, <2>1, <2>4 DEF Calling
    <3> QED BY <2>2, <3>1 DEF HandInv, CompletedIsInHand
  <2> QED BY <2>3, <2>4
<1>6. ASSUME NEW c \in Calls, Award(c) PROVE HandInv'
  <2> DEFINE next == [call[c] EXCEPT !.pc = "balance", !.paid = TRUE]
  <2>1. call' = [call EXCEPT ![c] = next] /\ call[c].pc = "mark" /\ UNCHANGED <<kind, dialogs, used>>
    BY <1>6, <1>t DEF Award, Calling
  <2>2. call'[c].pc = "balance"
    BY <1>t, <2>1 DEF Calling
  <2> HIDE DEF next
  <2>3. DialogsWait'
    BY <1>t, <2>1, DialogStep
  <2> QED BY <2>2, <2>3 DEF HandInv, CompletedIsInHand
\* Both continuations of a repeated task open it again.
<1>r. ASSUME NEW c \in Calls, NEW streak, NEW next, Reschedule(c, streak, next),
             call[c].pc # "dialog", UNCHANGED dialogs
      PROVE  HandInv'
  <2>1. \A t \in doc' : ~ t.isCompleted
    BY <1>r DEF Reschedule
  <2>2. PICK end : call' = [call EXCEPT ![c] = end]
    BY <1>r DEF Reschedule
  <2> QED BY <1>r, <1>w, <2>1, <2>2
<1>7. ASSUME NEW c \in Calls, Refuse(c) PROVE HandInv'
  BY <1>7, <1>r DEF Refuse
<1>8. ASSUME NEW c \in Calls, Balance(c) PROVE HandInv'
  <2>1. call[c].pc = "balance" /\ UNCHANGED dialogs
    BY <1>8 DEF Balance
  <2>2. CASE Repeats
    BY <1>8, <1>r, <2>1, <2>2 DEF Balance
  <2>3. CASE ~ Repeats
    <3> DEFINE next == [call[c] EXCEPT !.balance = money, !.pc = "write"]
    <3>1. call' = [call EXCEPT ![c] = next] /\ UNCHANGED kind
      BY <1>8, <2>3 DEF Balance
    <3> HIDE DEF next
    <3>2. DialogsWait'
      BY <1>t, <2>1, <3>1, DialogStep
    <3>3. CompletedIsInHand'
      BY <2>3, <3>1 DEF CompletedIsInHand, Repeats
    <3> QED BY <3>2, <3>3 DEF HandInv
  <2> QED BY <2>2, <2>3
<1>9. ASSUME NEW c \in Calls, Fetch(c) \/ Remind(c) PROVE HandInv'
  <2>1. PICK next : call' = [call EXCEPT ![c] = next]
    BY <1>9, <1>t DEF Fetch, Remind, Calling
  <2>2. call[c].pc \in {"write", "event"} /\ UNCHANGED <<kind, doc, dialogs, used>>
    BY <1>9 DEF Fetch, Remind
  <2> QED BY <1>v, <2>1, <2>2
<1>10. ASSUME NEW c \in Calls, ShowDialog(c) PROVE HandInv'
  <2>1. call[c].pc \in {"remind", "write"} /\ UNCHANGED <<kind, doc, used>>
    BY <1>10 DEF ShowDialog
  <2>2. CASE ~ call[c].here
    <3>1. call' = [call EXCEPT ![c] = Idle] /\ UNCHANGED dialogs
      BY <1>10, <2>2 DEF ShowDialog
    <3> QED BY <1>v, <2>1, <3>1
  <2>3. CASE call[c].here
    <3> DEFINE next == [call[c] EXCEPT !.pc = "dialog"]
    <3>1. call' = [call EXCEPT ![c] = next] /\ dialogs' = <<c>> \o dialogs
      BY <1>10, <1>t, <2>3 DEF ShowDialog, Calling
    <3>2. call'[c].pc = "dialog"
      BY <1>t, <3>1 DEF Calling
    <3> HIDE DEF next
    <3>3. CompletedIsInHand'
      BY <1>t, <2>1, <3>1, HandStep
    <3>4. /\ Len(dialogs) \in Nat /\ Len(dialogs') = Len(dialogs) + 1
          /\ dialogs'[1] = c
          /\ \A i \in 1 .. Len(dialogs') : i # 1 => /\ i - 1 \in 1 .. Len(dialogs)
                                                    /\ dialogs'[i] = dialogs[i - 1]
      BY <1>t, <3>1
    <3>5. \A i \in 1 .. Len(dialogs) : /\ dialogs[i] \in Calls /\ dialogs[i] # c
                                       /\ call'[dialogs[i]].pc = "dialog"
      <4>1. ASSUME NEW i \in 1 .. Len(dialogs)
            PROVE  dialogs[i] \in Calls /\ dialogs[i] # c /\ call[dialogs[i]].pc = "dialog"
        BY <1>t, <2>1 DEF DialogsWait
      <4> QED BY <1>t, <3>1, <4>1
    <3>6. DialogsWait'
      <4>1. ASSUME NEW i \in 1 .. Len(dialogs')
            PROVE  /\ call'[dialogs'[i]].pc = "dialog"
                   /\ \A j \in 1 .. Len(dialogs') : dialogs'[i] = dialogs'[j] => i = j
        <5>1. CASE i = 1
          BY <3>2, <3>4, <3>5, <5>1
        <5>2. CASE i # 1
          <6>1. call'[dialogs'[i]].pc = "dialog" /\ dialogs'[i] # c
            BY <3>4, <3>5, <5>2
          <6>2. ASSUME NEW j \in 1 .. Len(dialogs'), dialogs'[i] = dialogs'[j] PROVE i = j
            <7>1. j # 1
              BY <3>4, <6>1, <6>2
            <7>2. i - 1 = j - 1
              BY <1>t, <3>4, <5>2, <6>2, <7>1 DEF DialogsWait
            <7> QED BY <3>4, <7>2
          <6> QED BY <6>1, <6>2
        <5> QED BY <5>1, <5>2
      <4> QED BY <4>1 DEF DialogsWait
    <3> QED BY <3>3, <3>6 DEF HandInv
  <2> QED BY <2>2, <2>3
<1>11. CASE PressBack
  BY <1>11, CloseStep DEF PressBack
<1>12. CASE DismissDialog
  <2>1. used'.crashes = used.crashes
    BY <1>12, <1>t DEF DismissDialog, Counts
  <2> QED BY <1>12, <2>1, CloseStep DEF DismissDialog
<1>13. ASSUME NEW c \in Calls, Delete(c) PROVE HandInv'
  <2>1. PICK next : call' = [call EXCEPT ![c] = next]
    BY <1>13 DEF Delete
  <2>2. call[c].pc = "idle" /\ doc' = {} /\ UNCHANGED dialogs
    BY <1>13 DEF Delete, Idle
  <2> QED BY <1>w, <2>1, <2>2
<1>14. ASSUME NEW c \in Calls, CancelDeleted(c) PROVE HandInv'
  BY <1>14, <1>v DEF CancelDeleted
<1>15. CASE Midnight
  <2>1. used'.crashes = used.crashes
    BY <1>15, <1>t DEF Midnight, Counts
  <2> QED BY <1>15, <1>u, <2>1 DEF Midnight
<1>16. CASE Restart
  <2>1. DialogsWait'
    BY <1>16 DEF Restart, DialogsWait
  <2>2. CASE Suspended = {}
    <3>1. UNCHANGED <<kind, doc, used>>
      BY <1>16, <2>2 DEF Restart
    <3>2. \A c \in Calls : call[c].pc \notin {"mark", "balance"}
      BY <2>2 DEF Suspended
    <3> QED BY <1>t, <2>1, <3>1, <3>2 DEF HandInv, CompletedIsInHand, Repeats
  <2>3. CASE Suspended # {}
    <3>1. used'.crashes > 0
      BY <1>16, <1>t, <2>3, BoundsAssumption DEF Restart, Counts
    <3> QED BY <2>1, <3>1 DEF HandInv, CompletedIsInHand
  <2> QED BY <2>2, <2>3
<1>17. CASE UNCHANGED vars
  BY <1>17, <1>u DEF vars
<1> QED
  BY <1>1, <1>2, <1>3, <1>4, <1>5, <1>6, <1>7, <1>8, <1>9, <1>10, <1>11, <1>12, <1>13, <1>14,
     <1>15, <1>16, <1>17 DEF Next, Resume

\* Unless the app was killed, a repeated task that is marked completed has an
\* invocation under way that reschedules it, whatever else is tapped meanwhile.
THEOREM CompletedStaysInHand == Spec => []CompletedIsInHand
<1>1. HandInv => CompletedIsInHand
  BY DEF HandInv
<1> QED
  BY InitTypes, NextTypes, InitHand, NextHand, <1>1, PTL DEF Spec

-----------------------------------------------------------------------------
(* The coins. *)

\* What an invocation may still pay.
Pending == [c \in Calls |-> IF call[c].paid THEN Reward(call[c].task) ELSE 0]

\* The balance alone is not enough: an award must pay for the dialog to come.
CoinsInv == Repeats => money + Total(Pending) <= InitMoney + squares

LEMMA SquaresGrow ==
  ASSUME NEW m \in Nat, NEW n \in Nat, m <= n
  PROVE  /\ (m + 1) * (m + 1) \in Nat
         /\ (n + 1) * (n + 1) \in Nat
         /\ (m + 1) * (m + 1) <= (n + 1) * (n + 1)
OBVIOUS

LEMMA RewardType ==
  ASSUME NEW task \in Tasks
  PROVE  Reward(task) \in Nat
<1>1. task.streak \in Nat
  BY DEF Tasks
<1>2. (task.streak + 1) * (task.streak + 1) \in Nat
  BY <1>1, SquaresGrow
<1> QED
  BY <1>2 DEF Reward

LEMMA PendingType == TypeInv => Pending \in [Calls -> Nat] /\ Pending \in [Calls -> Int]
<1> SUFFICES ASSUME TypeInv, NEW c \in Calls PROVE (IF call[c].paid THEN Reward(call[c].task) ELSE 0) \in Nat
  BY DEF Pending
<1>1. call[c].task \in Tasks
  BY DEF TypeInv, TypeOK
<1> QED
  BY <1>1, RewardType

LEMMA PendingNextType == TypeInv' => Pending' \in [Calls -> Nat] /\ Pending' \in [Calls -> Int]
<1> SUFFICES ASSUME TypeInv', NEW c \in Calls
             PROVE  (IF call'[c].paid THEN (Reward(call[c].task))' ELSE 0) \in Nat
  BY DEF Pending
<1>1. call'[c].task \in Tasks
  BY DEF TypeInv, TypeOK
<1>2. call'[c].task.streak \in Nat
  BY <1>1 DEF Tasks
<1>3. (call'[c].task.streak + 1) * (call'[c].task.streak + 1) \in Nat
  BY <1>2, SquaresGrow
<1> QED
  BY <1>3 DEF Reward

LEMMA InitCoins == Init => CoinsInv
<1> SUFFICES ASSUME Init PROVE CoinsInv
  OBVIOUS
<1>1. Pending \in [Calls -> Int] /\ \A c \in Calls : Pending[c] <= 0
  BY DEF Init, Pending, Idle
<1>2. Total(Pending) <= Cardinality(Calls) * 0
  BY <1>1, SumOnBounded, TaskAssumption DEF Total
<1>3. Cardinality(Calls) * 0 = 0
  BY FS_CardinalityType, TaskAssumption
<1>4. Total(Pending) \in Int
  BY <1>1, SumOnType, TaskAssumption DEF Total
<1> QED
  BY <1>2, <1>3, <1>4, TaskAssumption DEF Init, CoinsInv

\* A step of one invocation: what it pays, and may still pay, comes from what it
\* might have paid and from the squares.
LEMMA CoinsStep ==
  ASSUME TypeInv, TypeInv', CoinsInv, NEW c \in Calls, NEW next,
         call' = [call EXCEPT ![c] = next], kind' = kind,
         money' + Pending'[c] - squares' <= money + Pending[c] - squares
  PROVE  CoinsInv'
<1>1. /\ Pending \in [Calls -> Int] /\ Pending' \in [Calls -> Int]
      /\ money \in Int /\ money' \in Int /\ squares \in Int /\ squares' \in Int
      /\ InitMoney \in Int /\ IsFiniteSet(Calls)
  <2>1. Pending \in [Calls -> Int] /\ Pending' \in [Calls -> Int]
    BY PendingType, PendingNextType
  <2>2. money \in Int /\ money' \in Int /\ squares \in Int /\ squares' \in Int
    BY DEF TypeInv, TypeOK
  <2> QED BY <2>1, <2>2, TaskAssumption
<1>2. \A e \in Calls \ {c} : Pending'[e] = Pending[e]
  <2>1. \A e \in Calls \ {c} : call'[e] = call[e]
    BY DEF TypeInv, TypeOK
  <2> QED BY <2>1 DEF Pending, Reward, Repeats
<1>3. Total(Pending') = Total(Pending) - Pending[c] + Pending'[c]
  BY <1>1, <1>2, TotalUpdate
<1>4. Total(Pending) \in Int /\ Pending[c] \in Int /\ Pending'[c] \in Int
  BY <1>1, SumOnType DEF Total
<1>5. Repeats' <=> Repeats
  BY DEF Repeats
<1>6. CASE ~ Repeats
  BY <1>5, <1>6 DEF CoinsInv
<1>7. CASE Repeats
  <2>1. money + Total(Pending) <= InitMoney + squares
    BY <1>7 DEF CoinsInv
  <2>2. money' + Total(Pending') <= InitMoney + squares'
    BY <1>1, <1>3, <1>4, <2>1
  <2> QED BY <2>2 DEF CoinsInv
<1> QED
  BY <1>6, <1>7

\* A step of an invocation that pays nothing and keeps what it may pay, or gives it up.
LEMMA CoinsKept ==
  ASSUME TypeInv, TypeInv', CoinsInv, NEW c \in Calls, NEW next,
         call' = [call EXCEPT ![c] = next], UNCHANGED <<kind, money, squares>>,
         (next.paid = call[c].paid /\ next.task = call[c].task) \/ next.paid = FALSE
  PROVE  CoinsInv'
<1>1. call'[c] = next
  BY DEF TypeInv, TypeOK
<1>2. Pending'[c] = Pending[c] \/ Pending'[c] = 0
  BY <1>1 DEF Pending, Reward, Repeats
<1>3. Pending[c] \in Nat /\ money \in Int /\ squares \in Int
  <2>1. Pending[c] \in Nat
    BY PendingType
  <2> QED BY <2>1 DEF TypeInv, TypeOK
<1>4. money' + Pending'[c] - squares' <= money + Pending[c] - squares
  BY <1>2, <1>3
<1> QED
  BY <1>4, CoinsStep

LEMMA NextCoins == TypeInv /\ TypeInv' /\ StreakInv /\ CoinsInv /\ [Next]_vars => CoinsInv'
<1> SUFFICES ASSUME TypeInv, TypeInv', StreakInv, CoinsInv, [Next]_vars PROVE CoinsInv'
  OBVIOUS
<1> USE DEF clock, history
<1>t. /\ call \in [Calls -> Calling] /\ dialogs \in Seq(Calls)
      /\ money \in Int /\ squares \in Nat /\ awards \in Nat
  BY DEF TypeInv, TypeOK, Calling
<1>i. Idle.paid = FALSE
  BY DEF Idle
\* Steps that leave what may be paid alone.
<1>u. ASSUME UNCHANGED <<kind, money, squares>>,
             \A c \in Calls : call'[c].paid = call[c].paid /\ call'[c].task = call[c].task
      PROVE  CoinsInv'
  <2>1. Pending' = Pending
    BY <1>u DEF Pending, Reward, Repeats
  <2> QED BY <1>u, <2>1 DEF CoinsInv, Repeats
<1>1. CASE Open \/ Refresh \/ Midnight \/ UNCHANGED vars \/ \E r \in Readers : Answer(r) \/ Deliver(r)
  <2>1. UNCHANGED <<kind, money, squares, call>>
    BY <1>1 DEF Open, Refresh, Midnight, vars, Answer, Deliver
  <2> QED BY <1>u, <2>1
<1>2. CASE Leave
  <2>1. UNCHANGED <<kind, money, squares>>
    BY <1>2 DEF Leave
  <2>2. \A c \in Calls : call'[c] = call[c] \/ call'[c] = [call[c] EXCEPT !.here = FALSE]
    BY <1>2, <1>t DEF Leave
  <2>3. \A c \in Calls : call'[c].paid = call[c].paid /\ call'[c].task = call[c].task
    BY <1>t, <2>2 DEF Calling
  <2> QED BY <1>u, <2>1, <2>3
<1>3. ASSUME NEW c \in Calls, Tap(c) \/ Delete(c) PROVE CoinsInv'
  <2>1. PICK pc, task : call' = [call EXCEPT ![c] = [Idle EXCEPT !.pc = pc, !.task = task, !.from = screen]]
    BY <1>3 DEF Tap, Delete
  <2> DEFINE next == [Idle EXCEPT !.pc = pc, !.task = task, !.from = screen]
  <2>2. next.paid = FALSE
    BY DEF Idle
  <2>3. call' = [call EXCEPT ![c] = next] /\ UNCHANGED <<kind, money, squares>>
    BY <1>3, <2>1 DEF Tap, Delete
  <2> HIDE DEF next
  <2> QED BY <2>2, <2>3, CoinsKept
\* An invocation that ends, or goes on.
<1>e. ASSUME NEW c \in Calls, NEW pc, UNCHANGED <<kind, money, squares>>,
             call' = [call EXCEPT ![c] = [call[c] EXCEPT !.pc = pc]]
             \/ call' = [call EXCEPT ![c] = Idle]
      PROVE  CoinsInv'
  <2> DEFINE next == [call[c] EXCEPT !.pc = pc]
  <2>1. next.paid = call[c].paid /\ next.task = call[c].task
    BY <1>t DEF Calling
  <2>2. call' = [call EXCEPT ![c] = next] \/ call' = [call EXCEPT ![c] = Idle]
    BY <1>e
  <2> HIDE DEF next
  <2> QED BY <1>e, <1>i, <2>1, <2>2, CoinsKept
<1>4. ASSUME NEW c \in Calls, Fade(c) \/ Mark(c) \/ Remind(c) \/ ShowDialog(c) \/ CancelDeleted(c)
      PROVE CoinsInv'
  <2>1. UNCHANGED <<kind, money, squares>>
    BY <1>4 DEF Fade, Mark, Remind, ShowDialog, CancelDeleted
  <2>2. CASE Fade(c)
    BY <1>e, <2>1, <2>2 DEF Fade
  <2>3. CASE Mark(c)
    BY <1>e, <2>1, <2>3 DEF Mark
  <2>4. CASE Remind(c)
    BY <1>e, <2>1, <2>4 DEF Remind
  <2>5. CASE ShowDialog(c)
    BY <1>e, <2>1, <2>5 DEF ShowDialog
  <2>6. CASE CancelDeleted(c)
    BY <1>e, <2>1, <2>6 DEF CancelDeleted
  <2> QED BY <1>4, <2>2, <2>3, <2>4, <2>5, <2>6
<1>5. ASSUME NEW c \in Calls, Fetch(c) PROVE CoinsInv'
  <2> DEFINE next == IF doc = {} THEN Idle ELSE [call[c] EXCEPT !.pc = "event", !.event = doc]
  <2>1. /\ call' = [call EXCEPT ![c] = next] /\ UNCHANGED <<kind, money, squares>>
        /\ (next.paid = call[c].paid /\ next.task = call[c].task) \/ next.paid = FALSE
    BY <1>5, <1>t, <1>i DEF Fetch, Calling
  <2> HIDE DEF next
  <2> QED BY <2>1, CoinsKept
<1>6. ASSUME NEW c \in Calls, Award(c) PROVE CoinsInv'
  <2> DEFINE next == [call[c] EXCEPT !.pc = "balance", !.paid = TRUE]
             square == (awards + 1) * (awards + 1)
  <2>1. call' = [call EXCEPT ![c] = next] /\ next.task = call[c].task /\ next.paid = TRUE
    BY <1>6, <1>t DEF Award, Calling
  <2>2. squares' = squares + square /\ UNCHANGED <<kind, money>>
    BY <1>6 DEF Award
  <2>3. call[c].task.streak \in Nat /\ call[c].task.streak <= awards
    BY <1>t DEF StreakInv, CallsEarned, Calling, Tasks
  <2>4. CASE ~ Repeats
    BY <2>2, <2>4 DEF CoinsInv, Repeats
  <2>5. CASE Repeats
    <3>1. Pending'[c] = (call[c].task.streak + 1) * (call[c].task.streak + 1)
      BY <1>t, <2>1, <2>2, <2>5 DEF Pending, Reward, Repeats
    <3>2. square \in Nat /\ Pending'[c] \in Nat /\ Pending'[c] <= square
      BY <1>t, <2>3, <3>1, SquaresGrow
    <3>3. Pending[c] \in Nat
      BY PendingType
    <3> HIDE DEF square, next
    <3>4. money' + Pending'[c] - squares' <= money + Pending[c] - squares
      BY <1>t, <2>2, <3>2, <3>3
    <3> QED BY <2>1, <2>2, <3>4, CoinsStep
  <2> QED BY <2>4, <2>5
<1>r. ASSUME NEW c \in Calls, NEW streak, NEW next, Reschedule(c, streak, next),
             UNCHANGED <<kind, money, squares>>,
             next.paid = call[c].paid, next.task = call[c].task
      PROVE  CoinsInv'
  <2> DEFINE end == IF doc = {} THEN Idle ELSE next
  <2>1. /\ call' = [call EXCEPT ![c] = end]
        /\ (end.paid = call[c].paid /\ end.task = call[c].task) \/ end.paid = FALSE
    BY <1>r, <1>i DEF Reschedule
  <2> HIDE DEF end
  <2> QED BY <1>r, <2>1, CoinsKept
<1>7. ASSUME NEW c \in Calls, Refuse(c) PROVE CoinsInv'
  <2> DEFINE next == [call[c] EXCEPT !.pc = "write"]
  <2>1. next.paid = call[c].paid /\ next.task = call[c].task
    BY <1>t DEF Calling
  <2>2. Reschedule(c, call[c].task.streak, next) /\ UNCHANGED <<kind, money, squares>>
    BY <1>7 DEF Refuse
  <2> HIDE DEF next
  <2> QED BY <1>r, <2>1, <2>2
<1>8. ASSUME NEW c \in Calls, Balance(c) PROVE CoinsInv'
  <2> DEFINE next == [call[c] EXCEPT !.balance = money, !.pc = "write"]
  <2>1. next.paid = call[c].paid /\ next.task = call[c].task
    BY <1>t DEF Calling
  <2>2. UNCHANGED <<kind, money, squares>>
    BY <1>8 DEF Balance
  <2>3. \/ Reschedule(c, call[c].task.streak + 1, next)
        \/ call' = [call EXCEPT ![c] = next]
    BY <1>8 DEF Balance
  <2> HIDE DEF next
  <2> QED BY <1>r, <2>1, <2>2, <2>3, CoinsKept
<1>9. CASE PressBack
  <2> DEFINE c == Head(dialogs)
  <2>1. c \in Calls
    BY <1>9, <1>t DEF PressBack
  <2>2. call' = [call EXCEPT ![c] = Idle] /\ UNCHANGED <<kind, squares>>
    BY <1>9 DEF PressBack
  <2>3. Pending'[c] = 0
    BY <1>t, <1>i, <2>1, <2>2 DEF Pending
  <2>4. money' = money + Pending[c]
    <3>1. CASE call[c].paid
      BY <1>9, <2>1, <3>1 DEF PressBack, Pending
    <3>2. CASE ~ call[c].paid
      BY <1>9, <1>t, <2>1, <3>2 DEF PressBack, Pending
    <3> QED BY <3>1, <3>2
  <2>5. Pending[c] \in Nat
    BY <2>1, PendingType
  <2> HIDE DEF c
  <2>6. money' + Pending'[c] - squares' <= money + Pending[c] - squares
    BY <1>t, <2>2, <2>3, <2>4, <2>5
  <2> QED BY <2>1, <2>2, <2>6, CoinsStep
<1>10. CASE DismissDialog
  <2>1. Head(dialogs) \in Calls
    BY <1>10, <1>t DEF DismissDialog
  <2>2. call' = [call EXCEPT ![Head(dialogs)] = Idle] /\ UNCHANGED <<kind, money, squares>>
    BY <1>10 DEF DismissDialog
  <2> QED BY <1>i, <2>1, <2>2, CoinsKept
<1>11. CASE Restart
  <2>1. UNCHANGED <<kind, money, squares>> /\ \A c \in Calls : ~ call'[c].paid
    BY <1>11, <1>i DEF Restart
  <2>2. /\ Pending \in [Calls -> Int] /\ Pending' \in [Calls -> Int]
        /\ \A c \in Calls : Pending'[c] <= Pending[c]
    <3>1. \A c \in Calls : Pending'[c] = 0
      BY <2>1 DEF Pending
    <3> QED BY <3>1, PendingType, PendingNextType
  <2>3. Total(Pending') <= Total(Pending) /\ Total(Pending) \in Int /\ Total(Pending') \in Int
    BY <2>2, SumOnMonotone, SumOnType, TaskAssumption DEF Total
  <2> QED BY <1>t, <2>1, <2>3, TaskAssumption DEF CoinsInv, Repeats
<1> QED
  BY <1>1, <1>2, <1>3, <1>4, <1>5, <1>6, <1>7, <1>8, <1>9, <1>10, <1>11 DEF Next, Resume

\* However stale the copies and however many the taps, the coins of a repeated task
\* never exceed the squares that its rewarded completions earn in a row.
THEOREM CoinsStayBounded == Spec => []CoinsAreBounded
<1>1. TypeInv /\ CoinsInv => CoinsAreBounded
  <2> SUFFICES ASSUME TypeInv, CoinsInv, Repeats PROVE money <= InitMoney + squares
    BY DEF CoinsAreBounded
  <2>1. Pending \in [Calls -> Int] /\ \A c \in Calls : Pending[c] >= 0
    BY PendingType
  <2>2. Total(Pending) >= 0 /\ Total(Pending) \in Int
    BY <2>1, SumOnNonNegative, SumOnType, TaskAssumption DEF Total
  <2>3. money \in Int /\ squares \in Int /\ InitMoney \in Int
    BY TaskAssumption DEF TypeInv, TypeOK
  <2> QED BY <2>2, <2>3 DEF CoinsInv
<1> QED
  BY InitTypes, NextTypes, InitStreak, NextStreak, InitCoins, NextCoins, <1>1, PTL DEF Spec

-----------------------------------------------------------------------------
(***************************************************************************)
(* A user who waits: there is at most one invocation under way, and what   *)
(* it has read is still so when it uses it.  This holds in the calendar as *)
(* well, which may read and show the task again meanwhile.                 *)
(***************************************************************************)
\* What is under way: the invocation in state k, or nothing if k is Idle.
UnderWay(k) ==
  \/ k = Idle /\ \A c \in Calls : call[c] = Idle
  \/ /\ k.pc # "idle"
     /\ \E c \in Calls : call[c] = k /\ \A e \in Calls \ {c} : call[e] = Idle

\* Away from the awaits between a completion and its new notification, the
\* notification is the one for the current date.
RingsBut(k) ==
  /\ now.day <= today
  /\ used.crashes = 0 /\ (kind.hasTime => k.pc \in {"idle", "remind", "dialog", "delete"}) =>
       \A t \in doc : Repeats /\ ~ t.isCompleted /\ Ahead(t.date) => reminder = {t.date}

\* The coins that the dialog will add to are those of the account, and getSingle has
\* found the document as it still is.
Informed(k) ==
  /\ \A t, u \in doc : t = u
  /\ k.pc # "idle" => k.here
  /\ k.pc \in {"fade", "cancel", "mark"} => ~ k.paid
  /\ k.paid /\ k.pc \in {"write", "event", "remind", "dialog"} => k.balance = money
  /\ k.pc = "event" => k.event = doc
  /\ k.pc = "delete" => doc = {}

WaitsIn(k) == UnderWay(k) /\ Informed(k) /\ RingsBut(k) /\ HomeInStep

WaitInv == \E k \in Calling : WaitsIn(k)

LEMMA IdleFields ==
  /\ Idle \in Calling /\ Idle.pc = "idle" /\ ~ Idle.paid
BY IdleType DEF Idle

\* The invocation that is under way, and the moment when none is.
LEMMA UnderWayOne ==
  ASSUME TypeInv, NEW k \in Calling, UnderWay(k), NEW c \in Calls, call[c].pc # "idle"
  PROVE  call[c] = k /\ \A e \in Calls \ {c} : call[e] = Idle
BY IdleFields DEF UnderWay

LEMMA UnderWayIdle ==
  ASSUME NEW k \in Calling, UnderWay(k), Quiet
  PROVE  k = Idle /\ (\A c \in Calls : call[c] = Idle) /\ \A r \in Readers : read[r].state = "idle"
BY DEF UnderWay, Quiet, Suspended

\* A step of the invocation that is under way, or that begins.
LEMMA UnderWayStep ==
  ASSUME TypeInv, NEW k \in Calling, UnderWay(k), NEW c \in Calls, NEW next \in Calling,
         call[c].pc # "idle" \/ k = Idle,
         call' = [call EXCEPT ![c] = next], next.pc # "idle" \/ next = Idle
  PROVE  UnderWay(next)'
<1>1. \A e \in Calls \ {c} : call[e] = Idle
  BY UnderWayOne, IdleFields DEF UnderWay
<1>2. call'[c] = next /\ \A e \in Calls \ {c} : call'[e] = Idle
  BY <1>1 DEF TypeInv, TypeOK
<1> QED
  BY <1>2 DEF UnderWay

\* The end of the invocation that is under way.
LEMMA EndsUnderWay ==
  ASSUME TypeInv, NEW k \in Calling, UnderWay(k), NEW c \in Calls, call[c].pc # "idle",
         call' = [call EXCEPT ![c] = Idle]
  PROVE  UnderWay(Idle)'
BY IdleFields, UnderWayStep

LEMMA PcFields ==
  ASSUME NEW k \in Calling, NEW pc \in Pcs
  PROVE  LET next == [k EXCEPT !.pc = pc]
         IN  /\ next \in Calling /\ next.pc = pc
             /\ next.task = k.task /\ next.here = k.here /\ next.from = k.from
             /\ next.paid = k.paid /\ next.balance = k.balance /\ next.event = k.event
BY DEF Calling

\* A step that leaves the invocation as it is.
LEMMA WaitKept ==
  ASSUME NEW k \in Calling, WaitsIn(k),
         UNCHANGED <<kind, clock, doc, reminder, money, homeMoney, call>>,
         used'.crashes = used.crashes
  PROVE  WaitInv'
<1>1. UnderWay(k)' /\ Informed(k)' /\ HomeInStep'
  BY DEF WaitsIn, UnderWay, Informed, HomeInStep
<1>2. RingsBut(k)'
  BY DEF WaitsIn, RingsBut, Repeats, Ahead, clock
<1> QED
  BY <1>1, <1>2 DEF WaitsIn, WaitInv

\* A step of the invocation under way, or of one that begins.
LEMMA WaitContinues ==
  ASSUME TypeInv, NEW k \in Calling, WaitsIn(k), NEW c \in Calls,
         call[c] = k, NEW next \in Calling,
         call' = [call EXCEPT ![c] = next], next.pc # "idle" \/ next = Idle,
         UNCHANGED <<kind, clock, money, homeMoney>>, used'.crashes = used.crashes,
         Informed(next)', RingsBut(next)'
  PROVE  WaitInv'
<1>1. UnderWay(k)
  BY DEF WaitsIn
<1>2. call[c].pc # "idle" \/ k = Idle
  BY <1>1 DEF UnderWay
<1>3. UnderWay(next)'
  BY <1>1, <1>2, UnderWayStep
<1>4. HomeInStep'
  BY DEF WaitsIn, HomeInStep
<1> QED
  BY <1>3, <1>4 DEF WaitsIn, WaitInv

\* No promise about the notification is made of a task without a time, or before
\* addNotification is called.
LEMMA NoPromise ==
  ASSUME TypeInv, NEW k \in Calling, WaitsIn(k), NEW next \in Calling,
         UNCHANGED <<kind, clock>>, used'.crashes = used.crashes,
         \/ next.pc \notin {"idle", "remind", "dialog", "delete"}
         \/ ~ kind.hasTime
         \/ ~ Repeats
         \/ doc' = {}
  PROVE  RingsBut(next)'
<1>1. now'.day <= today'
  BY DEF WaitsIn, RingsBut, clock
<1>2. kind \in Kinds /\ (kind.hasReminder => kind.hasTime)
  BY TaskAssumption DEF TypeInv, TypeOK
<1> QED
  BY <1>1, <1>2 DEF RingsBut, Ahead, Repeats, clock

\* What changes when it moves on is its pc.
LEMMA Moved ==
  ASSUME NEW k \in Calling, NEW pc \in Pcs
  PROVE  \E next \in Calling :
           /\ next = [k EXCEPT !.pc = pc]
           /\ next.pc = pc /\ next.here = k.here /\ next.paid = k.paid
           /\ next.balance = k.balance
<1> DEFINE next == [k EXCEPT !.pc = pc]
<1>1. /\ next \in Calling /\ next.pc = pc /\ next.here = k.here
      /\ next.paid = k.paid /\ next.balance = k.balance
  BY PcFields
<1> QED
  BY <1>1

\* The user only acts when nothing is under way.
LEMMA WaitScreens ==
  ASSUME ~ Hasty, TypeInv, NEW k \in Calling, WaitsIn(k),
         \/ Open \/ Leave \/ Refresh
         \/ \E r \in Readers : Answer(r) \/ Deliver(r)
  PROVE  WaitInv'
<1>1. CASE Leave
  <2>1. \A c \in Calls : call[c] = Idle
    BY <1>1, UnderWayIdle DEF WaitsIn, Leave
  <2>2. call' = call
    BY <1>1, <2>1 DEF Leave, TypeInv, TypeOK
  <2> QED
    BY <1>1, <2>2, WaitKept DEF Leave
<1>2. CASE Open \/ Refresh \/ \E r \in Readers : Answer(r) \/ Deliver(r)
  BY <1>2, WaitKept DEF Open, Refresh, Answer, Deliver
<1> QED
  BY <1>1, <1>2

LEMMA WaitBegins ==
  ASSUME ~ Hasty, TypeInv, NEW k \in Calling, WaitsIn(k), NEW c \in Calls, Tap(c) \/ Delete(c)
  PROVE  WaitInv'
<1>1. k = Idle /\ call[c] = k
  BY UnderWayIdle DEF WaitsIn, Tap, Delete
<1>2. PICK task \in Tasks, from \in Screens, pc \in {"fade", "cancel", "delete"} :
        /\ call' = [call EXCEPT ![c] = [Idle EXCEPT !.pc = pc, !.task = task, !.from = from]]
        /\ pc = "delete" => doc' = {}
        /\ pc # "delete" => UNCHANGED doc
  <2>1. screen \in Screens /\ shown \subseteq Tasks
    BY DEF Tap, Delete, TypeInv, TypeOK
  <2>2. CASE Tap(c)
    <3>1. PICK shown1 \in shown :
            LET tapped == [shown1 EXCEPT !.isCompleted = TRUE]
                fades  == screen = "list" /\ ~ ShowCompleted /\ ~ Repeats
            IN  call' = [call EXCEPT ![c] =
                  [Idle EXCEPT !.pc = IF fades THEN "fade" ELSE "cancel",
                               !.task = tapped, !.from = screen]]
      BY <2>2 DEF Tap
    <3>2. PICK tapped \in Tasks : tapped = [shown1 EXCEPT !.isCompleted = TRUE]
      BY <2>1 DEF Tasks
    <3>3. PICK pc \in {"fade", "cancel"} :
            call' = [call EXCEPT ![c] = [Idle EXCEPT !.pc = pc, !.task = tapped, !.from = screen]]
      BY <3>1, <3>2
    <3>4. UNCHANGED doc
      BY <2>2 DEF Tap
    <3> QED
      BY <2>1, <3>3, <3>4
  <2>3. CASE Delete(c)
    BY <2>1, <2>3 DEF Delete
  <2> QED
    BY <2>2, <2>3
<1> DEFINE next == [Idle EXCEPT !.pc = pc, !.task = task, !.from = from]
<1>3. next \in Calling /\ next.pc = pc /\ next.here /\ ~ next.paid
  BY IdleType DEF Calling, Pcs, Idle
<1>4. call' = [call EXCEPT ![c] = next]
  BY <1>2
<1>5. UNCHANGED <<kind, clock, money, homeMoney>> /\ used'.crashes = used.crashes
  BY DEF Tap, Delete, TypeInv, TypeOK
<1> HIDE DEF next
<1>6. Informed(next)'
  BY <1>2, <1>3 DEF WaitsIn, Informed
<1>7. RingsBut(next)'
  BY <1>2, <1>3, <1>5, NoPromise
<1> QED
  BY <1>1, <1>3, <1>4, <1>5, <1>6, <1>7, WaitContinues

\* The invocation ends, or changes the document, before addNotification is called.
LEMMA WaitChanges ==
  ASSUME TypeInv, NEW k \in Calling, WaitsIn(k), NEW c \in Calls,
         Mark(c) \/ Award(c) \/ Refuse(c) \/ Balance(c)
  PROVE  WaitInv'
<1>0. {"mark", "write"} \subseteq Pcs
  BY DEF Pcs
<1>1. call[c] = k /\ k.pc \in {"cancel", "mark", "balance"} /\ k.here
  BY UnderWayOne DEF WaitsIn, Informed, Mark, Award, Refuse, Balance
<1>2. UNCHANGED <<kind, clock, money, homeMoney, used>>
  BY DEF Mark, Award, Refuse, Balance
<1>3. PICK balance \in Int : balance = money
  BY DEF TypeInv, TypeOK
<1>4. PICK marked \in Calling :
        /\ marked = [k EXCEPT !.pc = "mark"]
        /\ marked.pc = "mark" /\ marked.here = k.here /\ marked.paid = k.paid
        /\ marked.balance = k.balance
  BY <1>0, Moved
<1>5. PICK awarded \in Calling :
        /\ awarded = [k EXCEPT !.pc = "balance", !.paid = TRUE]
        /\ awarded.pc = "balance" /\ awarded.here = k.here
  <2> DEFINE n == [k EXCEPT !.pc = "balance", !.paid = TRUE]
  <2>1. n \in Calling /\ n.pc = "balance" /\ n.here = k.here
    BY DEF Calling, Pcs
  <2> QED
    BY <2>1
<1>6. PICK refused \in Calling :
        /\ refused = [k EXCEPT !.pc = "write"]
        /\ refused.pc = "write" /\ refused.here = k.here /\ refused.paid = k.paid
        /\ refused.balance = k.balance
  BY <1>0, Moved
<1>7. PICK answered \in Calling :
        /\ answered = [k EXCEPT !.balance = balance, !.pc = "write"]
        /\ answered.pc = "write" /\ answered.here = k.here /\ answered.balance = money
  <2> DEFINE n == [k EXCEPT !.balance = balance, !.pc = "write"]
  <2>1. n \in Calling /\ n.pc = "write" /\ n.here = k.here /\ n.balance = money
    BY <1>3 DEF Calling, Pcs
  <2> QED
    BY <2>1
<1>8. PICK next \in Calling :
        /\ call' = [call EXCEPT ![c] = next]
        /\ \A t, u \in doc' : t = u
        /\ \/ next = Idle /\ doc' = {}
           \/ next.pc \in {"mark", "balance", "write"} /\ next.here
        /\ next.pc = "mark" => ~ next.paid
        /\ next.pc = "write" /\ next.paid => next.balance = money
  <2>0. Idle \in Calling /\ Idle.pc = "idle" /\ \A t, u \in doc : t = u
    BY IdleFields DEF WaitsIn, Informed
  <2>1. CASE Mark(c)
    <3>1. /\ doc' = {[t EXCEPT !.isCompleted = TRUE] : t \in doc} /\ k.pc = "cancel"
          /\ call' = [call EXCEPT ![c] = IF doc = {} THEN Idle ELSE marked]
      BY <1>1, <1>4, <2>1 DEF Mark
    <3>2. ~ k.paid
      BY <3>1 DEF WaitsIn, Informed
    <3>3. CASE doc = {}
      BY <2>0, <3>1, <3>3
    <3>4. CASE doc # {}
      <4>1. call' = [call EXCEPT ![c] = marked] /\ \A t, u \in doc' : t = u
        BY <2>0, <3>1, <3>4
      <4> QED BY <1>1, <1>4, <3>2, <4>1
    <3> QED BY <3>3, <3>4
  <2>2. CASE Award(c)
    <3>1. call' = [call EXCEPT ![c] = awarded] /\ UNCHANGED doc
      BY <1>1, <1>5, <2>2 DEF Award, TypeInv, TypeOK
    <3> QED BY <1>1, <1>5, <2>0, <3>1
  <2>3. ASSUME NEW streak, NEW next \in Calling, Reschedule(c, streak, next),
               next.pc = "write", next.here, next.paid => next.balance = money
        PROVE  \E n \in Calling :
                 /\ call' = [call EXCEPT ![c] = n]
                 /\ \A t, u \in doc' : t = u
                 /\ \/ n = Idle /\ doc' = {}
                    \/ n.pc \in {"mark", "balance", "write"} /\ n.here
                 /\ n.pc = "mark" => ~ n.paid
                 /\ n.pc = "write" /\ n.paid => n.balance = money
    <3>1. (\A t, u \in doc' : t = u) /\ (doc = {} => doc' = {})
      BY <2>0, <2>3 DEF Reschedule
    <3>2. call' = [call EXCEPT ![c] = IF doc = {} THEN Idle ELSE next]
      BY <2>3 DEF Reschedule
    <3>3. CASE doc = {}
      <4>1. call' = [call EXCEPT ![c] = Idle] /\ doc' = {}
        BY <3>1, <3>2, <3>3
      <4> QED BY <2>0, <4>1
    <3>4. CASE doc # {}
      <4>1. call' = [call EXCEPT ![c] = next]
        BY <3>2, <3>4
      <4> QED BY <2>3, <3>1, <4>1
    <3> QED BY <3>3, <3>4
  <2>4. CASE Refuse(c)
    <3>1. Reschedule(c, call[c].task.streak, refused) /\ k.pc = "mark"
      BY <1>1, <1>6, <2>4 DEF Refuse
    <3>2. ~ k.paid
      BY <3>1 DEF WaitsIn, Informed
    <3> QED BY <1>1, <1>6, <2>3, <3>1, <3>2
  <2>5. CASE Balance(c)
    <3>1. CASE Repeats
      <4>1. Reschedule(c, call[c].task.streak + 1, answered)
        BY <1>1, <1>3, <1>7, <2>5, <3>1 DEF Balance
      <4> QED BY <1>1, <1>7, <2>3, <4>1
    <3>2. CASE ~ Repeats
      <4>1. call' = [call EXCEPT ![c] = answered] /\ UNCHANGED doc
        BY <1>1, <1>3, <1>7, <2>5, <3>2 DEF Balance
      <4> QED BY <1>1, <1>7, <2>0, <4>1
    <3> QED BY <3>1, <3>2
  <2> QED
    BY <2>1, <2>2, <2>4, <2>5
<1>9. Informed(next)'
  BY <1>2, <1>8, IdleFields DEF Informed
<1>10. RingsBut(next)'
  BY <1>2, <1>8, NoPromise
<1> QED
  BY <1>1, <1>2, <1>8, <1>9, <1>10, IdleFields, WaitContinues

\* It goes on, with the document as it is.
LEMMA WaitGoesOn ==
  ASSUME TypeInv, NEW k \in Calling, WaitsIn(k), NEW c \in Calls,
         Fade(c) \/ Fetch(c) \/ Remind(c) \/ ShowDialog(c)
  PROVE  WaitInv'
<1>0. {"cancel", "remind", "dialog"} \subseteq Pcs
  BY DEF Pcs
<1>1. call[c] = k /\ k.pc \in {"fade", "write", "event", "remind"} /\ k.here
  BY UnderWayOne DEF WaitsIn, Informed, Fade, Fetch, Remind, ShowDialog
<1>2. UNCHANGED <<kind, clock, doc, money, homeMoney, used>>
  BY DEF Fade, Fetch, Remind, ShowDialog
<1>3. ASSUME NEW next \in Calling, call' = [call EXCEPT ![c] = next],
             next.pc \in {"cancel", "event", "remind", "dialog"},
             next.here = k.here, next.paid = k.paid,
             next.pc = "cancel" => k.pc = "fade",
             next.pc # "cancel" => k.pc # "fade" /\ next.balance = k.balance,
             next.pc = "event" => next.event = doc,
             RingsBut(next)'
      PROVE  WaitInv'
  <2>1. Informed(next)'
    BY <1>1, <1>2, <1>3 DEF WaitsIn, Informed
  <2> QED
    BY <1>1, <1>2, <1>3, <2>1, WaitContinues
<1>4. CASE Fade(c)
  <2>1. PICK next \in Calling :
          /\ next = [k EXCEPT !.pc = "cancel"]
          /\ next.pc = "cancel" /\ next.here = k.here /\ next.paid = k.paid
          /\ next.balance = k.balance
    BY <1>0, Moved
  <2>2. call' = [call EXCEPT ![c] = next] /\ k.pc = "fade"
    BY <1>1, <1>4, <2>1 DEF Fade
  <2>3. RingsBut(next)'
    BY <1>2, <2>1, NoPromise
  <2> QED
    BY <1>3, <2>1, <2>2, <2>3
<1>5. CASE Fetch(c)
  <2>0. PICK event \in SUBSET Tasks : event = doc
    BY DEF TypeInv, TypeOK
  <2>1. PICK next \in Calling :
          /\ next = [k EXCEPT !.pc = "event", !.event = event]
          /\ next.pc = "event" /\ next.here = k.here /\ next.paid = k.paid
          /\ next.balance = k.balance /\ next.event = event
    <3> DEFINE n == [k EXCEPT !.pc = "event", !.event = event]
    <3>1. /\ n \in Calling /\ n.pc = "event" /\ n.here = k.here /\ n.paid = k.paid
          /\ n.balance = k.balance /\ n.event = event
      BY DEF Calling, Pcs
    <3> QED
      BY <3>1
  <2>2. call' = [call EXCEPT ![c] = IF doc = {} THEN Idle ELSE next] /\ k.pc = "write"
    BY <1>1, <1>5, <2>0, <2>1 DEF Fetch
  <2>3. CASE doc = {}
    <3>1. call' = [call EXCEPT ![c] = Idle] /\ doc' = {}
      BY <1>2, <2>2, <2>3
    <3>2. Informed(Idle)' /\ RingsBut(Idle)'
      BY <1>2, <3>1, IdleFields, NoPromise DEF Informed
    <3> QED
      BY <1>1, <1>2, <3>1, <3>2, IdleFields, WaitContinues
  <2>4. CASE doc # {}
    <3>1. call' = [call EXCEPT ![c] = next]
      BY <2>2, <2>4
    <3>2. RingsBut(next)'
      BY <1>2, <2>1, NoPromise
    <3> QED
      BY <1>3, <2>0, <2>1, <2>2, <3>1, <3>2
  <2> QED
    BY <2>3, <2>4
<1>6. CASE Remind(c)
  <2>1. PICK next \in Calling :
          /\ next = [k EXCEPT !.pc = "remind"]
          /\ next.pc = "remind" /\ next.here = k.here /\ next.paid = k.paid
          /\ next.balance = k.balance
    BY <1>0, Moved
  <2>2. call' = [call EXCEPT ![c] = next] /\ k.pc = "event" /\ k.event = doc
    BY <1>1, <1>6, <2>1 DEF Remind, WaitsIn, Informed
  <2>3. \A t \in doc : Ahead(t.date) => reminder' = {t.date}
    <3> SUFFICES ASSUME NEW t \in doc, Ahead(t.date) PROVE reminder' = {t.date}
      OBVIOUS
    <3>1. doc = {t}
      BY DEF WaitsIn, Informed
    <3>2. reminder' = {u.date : u \in doc}
      BY <1>1, <1>6, <2>2 DEF Remind
    <3> QED BY <3>1, <3>2
  <2>4. RingsBut(next)'
    BY <1>2, <2>3 DEF WaitsIn, RingsBut, Ahead, clock
  <2> QED
    BY <1>3, <2>1, <2>2, <2>4
<1>7. CASE ShowDialog(c)
  <2>1. PICK next \in Calling :
          /\ next = [k EXCEPT !.pc = "dialog"]
          /\ next.pc = "dialog" /\ next.here = k.here /\ next.paid = k.paid
          /\ next.balance = k.balance
    BY <1>0, Moved
  <2>2. /\ call' = [call EXCEPT ![c] = next] /\ UNCHANGED reminder
        /\ k.pc = "remind" \/ (k.pc = "write" /\ ~ (Repeats /\ kind.hasTime))
    BY <1>1, <1>7, <2>1 DEF ShowDialog
  <2>3. RingsBut(next)'
    <3>1. CASE k.pc = "remind"
      BY <1>2, <2>1, <2>2, <3>1 DEF WaitsIn, RingsBut, Repeats, Ahead, clock
    <3>2. CASE ~ (Repeats /\ kind.hasTime)
      BY <1>2, <3>2, NoPromise
    <3> QED BY <2>2, <3>1, <3>2
  <2> QED
    BY <1>3, <2>1, <2>2, <2>3
<1> QED
  BY <1>4, <1>5, <1>6, <1>7

\* It ends.
LEMMA WaitEnds ==
  ASSUME TypeInv, HandInv, NEW k \in Calling, WaitsIn(k),
         PressBack \/ DismissDialog \/ \E c \in Calls : CancelDeleted(c)
  PROVE  WaitInv'
<1>1. UNCHANGED <<kind, clock, doc>> /\ used'.crashes = used.crashes
  BY DEF PressBack, DismissDialog, CancelDeleted, TypeInv, TypeOK
<1>2. ASSUME HomeInStep', NEW c \in Calls, call[c].pc # "idle", call' = [call EXCEPT ![c] = Idle],
             (k.pc = "dialog" /\ UNCHANGED reminder) \/ doc = {}
      PROVE  WaitInv'
  <2>1. UnderWay(Idle)'
    BY <1>2, EndsUnderWay DEF WaitsIn
  <2>2. Informed(Idle)'
    BY <1>1, IdleFields DEF WaitsIn, Informed
  <2>3. RingsBut(Idle)'
    BY <1>1, <1>2, IdleFields DEF WaitsIn, RingsBut, Repeats, Ahead, clock
  <2> QED
    BY <1>2, <2>1, <2>2, <2>3, IdleFields DEF WaitsIn, WaitInv
<1>3. CASE PressBack \/ DismissDialog
  <2>1. PICK c : c = Head(dialogs)
    OBVIOUS
  <2>2. dialogs # <<>> /\ call' = [call EXCEPT ![c] = Idle] /\ UNCHANGED reminder
    BY <1>3, <2>1 DEF PressBack, DismissDialog
  <2>3. c \in Calls /\ call[c] = k /\ k.pc = "dialog"
    <3>1. dialogs \in Seq(Calls)
      BY DEF TypeInv, TypeOK
    <3>2. c \in Calls /\ c = dialogs[1] /\ 1 \in 1 .. Len(dialogs)
      BY <2>1, <2>2, <3>1
    <3>3. call[c].pc = "dialog"
      BY <3>2 DEF HandInv, DialogsWait
    <3> QED BY <3>2, <3>3, UnderWayOne DEF WaitsIn
  <2>4. HomeInStep'
    <3>1. CASE PressBack /\ k.paid
      <4>1. k.balance = money
        BY <2>3, <3>1 DEF WaitsIn, Informed
      <4> QED BY <2>1, <2>3, <3>1, <4>1 DEF PressBack, HomeInStep
    <3>2. CASE UNCHANGED <<money, homeMoney>>
      BY <3>2 DEF WaitsIn, HomeInStep
    <3> QED BY <1>3, <2>1, <2>3, <3>1, <3>2 DEF PressBack, DismissDialog
  <2> QED
    BY <1>2, <2>2, <2>3, <2>4
<1>4. ASSUME NEW c \in Calls, CancelDeleted(c) PROVE WaitInv'
  <2>1. call[c] = k /\ k.pc = "delete" /\ call' = [call EXCEPT ![c] = Idle]
    BY <1>4, UnderWayOne DEF WaitsIn, CancelDeleted
  <2>2. HomeInStep' /\ doc = {}
    BY <1>4, <2>1 DEF CancelDeleted, WaitsIn, Informed, HomeInStep
  <2> QED
    BY <1>2, <2>1, <2>2
<1> QED
  BY <1>3, <1>4

LEMMA WaitEnvironment ==
  ASSUME TypeInv, NEW k \in Calling, WaitsIn(k), Midnight \/ Restart
  PROVE  WaitInv'
<1>1. /\ now.day \in Nat /\ today \in Nat /\ today' \in Nat /\ used \in Counts
      /\ \A t \in doc : t.date \in Nat
  <2>1. now.day \in Days /\ today \in Days
    BY DEF TypeInv, TypeOK
  <2>2. today' \in today .. LastDay
    <3>1. CASE Midnight
      <4>1. today' = today + 1 /\ today < LastDay
        BY <3>1 DEF Midnight
      <4> QED BY <2>1, <4>1, DatesAssumption DEF Days
    <3>2. CASE Restart
      BY <3>2 DEF Restart
    <3> QED BY <3>1, <3>2
  <2> QED
    BY <2>1, <2>2, DatesAssumption DEF Days, TypeInv, TypeOK, Counts, Tasks
<1>2. CASE Midnight
  <2>1. UnderWay(k)' /\ Informed(k)' /\ HomeInStep'
    BY <1>2 DEF Midnight, WaitsIn, UnderWay, Informed, HomeInStep
  <2>2. RingsBut(k)'
    BY <1>1, <1>2 DEF Midnight, WaitsIn, RingsBut, Ahead, Repeats, Counts
  <2> QED
    BY <2>1, <2>2 DEF WaitsIn, WaitInv
<1>3. CASE Restart
  <2>1. UnderWay(Idle)' /\ Informed(Idle)' /\ HomeInStep'
    BY <1>3, IdleFields DEF Restart, WaitsIn, UnderWay, Informed, HomeInStep
  <2>2. now'.day = today' /\ now.day <= today'
    <3>1. now'.day \in {today'} /\ today' >= today
      BY <1>1, <1>3 DEF Restart
    <3> QED
      BY <1>1, <3>1 DEF WaitsIn, RingsBut
  <2>3. CASE Suspended = {}
    <3>1. k.pc = "idle" /\ UNCHANGED <<kind, doc, reminder, used>>
      BY <1>3, <2>3, IdleFields DEF Restart, WaitsIn, UnderWay, Suspended
    <3>2. \A date \in Nat : Ahead(date)' => Ahead(date)
      BY <1>1, <1>3, <2>2, <3>1 DEF Restart, Ahead
    <3>3. RingsBut(Idle)'
      BY <1>1, <2>2, <3>1, <3>2 DEF WaitsIn, RingsBut, Repeats
    <3> QED
      BY <2>1, <3>3, IdleFields DEF WaitsIn, WaitInv
  <2>4. CASE Suspended # {}
    <3>1. used'.crashes # 0
      BY <1>1, <1>3, <2>4, BoundsAssumption DEF Restart, Counts
    <3>2. RingsBut(Idle)'
      BY <1>1, <2>2, <3>1 DEF RingsBut
    <3> QED
      BY <2>1, <3>2, IdleFields DEF WaitsIn, WaitInv
  <2> QED
    BY <2>3, <2>4
<1> QED
  BY <1>2, <1>3

LEMMA InitWaits == Init => WaitInv
<1> SUFFICES ASSUME Init PROVE WaitInv
  OBVIOUS
<1>1. PICK date \in Days : doc = {NewTask(date, kind.timed)} /\ reminder = IF Ahead(date) THEN {date} ELSE {}
  BY DEF Init
<1>2. UnderWay(Idle) /\ Informed(Idle) /\ HomeInStep
  BY <1>1, IdleFields DEF Init, UnderWay, Informed, HomeInStep
<1>3. now.day <= today
  BY DatesAssumption DEF Init
<1>4. RingsBut(Idle)
  BY <1>1, <1>3 DEF RingsBut, NewTask
<1> QED
  BY <1>2, <1>4, IdleFields DEF WaitsIn, WaitInv

LEMMA NextWaits ==
  ASSUME ~ Hasty, TypeInv, HandInv, WaitInv, [Next]_vars
  PROVE  WaitInv'
<1>1. PICK k \in Calling : WaitsIn(k)
  BY DEF WaitInv
<1>2. CASE UNCHANGED vars
  BY <1>1, <1>2, WaitKept DEF vars, clock
<1>3. CASE Next
  BY <1>1, <1>3, WaitScreens, WaitBegins, WaitChanges, WaitGoesOn, WaitEnds, WaitEnvironment
     DEF Next, Resume
<1> QED
  BY <1>2, <1>3

LEMMA WaitStays ==
  ASSUME ~ Hasty
  PROVE  Spec => []WaitInv
<1>1. TypeInv /\ HandInv /\ WaitInv /\ [Next]_vars => WaitInv'
  BY NextWaits
<1> QED
  BY InitTypes, NextTypes, InitHand, NextHand, InitWaits, <1>1, PTL DEF Spec

\* For a user who waits the home screen shows the balance, although the dialog writes
\* a sum that was read several awaits earlier.
THEOREM HomeStaysInStep ==
  ASSUME ~ Hasty
  PROVE  Spec => []HomeInStep
<1>1. WaitInv => HomeInStep
  BY DEF WaitInv, WaitsIn
<1> QED
  BY WaitStays, <1>1, PTL

\* For a user who waits an open repeated task whose reminder is ahead has its
\* notification, for its current date, unless a completion was killed; also when the
\* calendar shows the task open while it is being completed.
THEOREM OpenTasksRing ==
  ASSUME ~ Hasty
  PROVE  Spec => []OpenTaskRings
<1>1. WaitInv => OpenTaskRings
  BY IdleFields DEF WaitInv, WaitsIn, UnderWay, RingsBut, OpenTaskRings, Suspended
<1> QED
  BY WaitStays, <1>1, PTL

-----------------------------------------------------------------------------
(***************************************************************************)
(* A user who waits and who taps in lists only.  The calendar may show a   *)
(* task that is being completed as open, and so let it be completed again; *)
(* in a list an invocation finds the document as it was tapped.            *)
(***************************************************************************)
Patient == ~ Hasty /\ Screens \subseteq {"list"}

\* What is shown as open, or about to be, is the document, and nothing is while an
\* invocation may yet change it.
CopiesAgree(k) ==
  /\ \A t, u \in doc : t = u
  /\ \A t \in shown : ~ t.isCompleted => t \in doc
  /\ \A r \in Readers : read[r].state = "answered" => read[r].list \subseteq doc
  /\ k.pc \notin {"idle", "dialog"} =>
       /\ \A t \in shown : t.isCompleted
       /\ \A r \in Readers : read[r].state = "idle"

Opened(t) == [t EXCEPT !.isCompleted = FALSE]

\* A completion that has rescheduled a repeated task and counted its streak, or
\* completed one that is not repeated.
Judged(k) ==
  /\ doc # {}
  /\ \A t \in doc :
       IF Repeats THEN ~ t.isCompleted /\ t.streak = k.task.streak + (IF k.paid THEN 1 ELSE 0)
                  ELSE t.isCompleted

\* What the invocation relies on at each of its awaits.
Relies(k) ==
  /\ k.pc # "idle" => k.here
  /\ k.pc \in {"fade", "cancel"} => ~ k.paid /\ k.task.isCompleted /\ doc = {Opened(k.task)}
  /\ k.pc \in {"mark", "balance"} =>
       k.task.isCompleted /\ doc = {k.task} /\ (k.paid <=> k.pc = "balance")
  /\ k.pc = "balance" => Rewarded(kind.repeat, k.task.prev, now.day)
  /\ k.pc \in {"write", "event", "remind", "dialog"} => Judged(k)
  /\ k.pc = "delete" => ~ k.paid /\ doc = {}

\* The account has the squares, or will have them once the dialog is closed.
SquaresAddUp(k) ==
  Repeats /\ used.crashes = 0 /\ used.dismissals = 0 =>
    \A t \in doc :
      /\ t.streak + (IF k.pc = "balance" THEN 1 ELSE 0) = awards
      /\ money + (IF k.paid THEN Reward(k.task) ELSE 0) = InitMoney + squares

\* An open task was last judged on the day of its previous completion.
PeriodKept(k) ==
  used.awake = 0 =>
    /\ now.day = today
    /\ \A t \in doc : ~ t.isCompleted => t.prev = last
    /\ k.pc = "mark" => k.task.prev = last
    /\ k.pc = "balance" => last = today

AllOf(k) ==
  UnderWay(k) /\ CopiesAgree(k) /\ Relies(k) /\ SquaresAddUp(k) /\ PeriodKept(k)

PatientInv == \E k \in Calling : AllOf(k)

\* The parts of the refinement mapping, by what is under way.
OwedBy(k) == IF k.paid /\ k.pc # "balance" THEN Reward(k.task) ELSE 0

Occurrence(t) == [streak |-> t.streak, prev |-> t.prev, date |-> t.date, timed |-> t.timed]

DueBy(k) ==
  {Occurrence(t) : t \in {u \in doc : Repeats \/ ~ u.isCompleted \/ k.pc \in {"mark", "balance"}}}

Mapped == {[streak |-> t.streak, prev |-> t.prev, date |-> t.date, timed |-> t.timed] : t \in Due}

\* A step, or a stutter, of Occurrences.
Implements == [O!Next]_<<kind.repeat, Mapped, Owed, money>>

\* The refinement mapping, when the invocation in state k is under way.
MapsBy ==
  TypeInv => \A k \in Calling : UnderWay(k) => Owed = OwedBy(k) /\ Mapped = DueBy(k)

LEMMA MappedBy == MapsBy
<1> SUFFICES ASSUME TypeInv, NEW k \in Calling, UnderWay(k)
             PROVE  Owed = OwedBy(k) /\ Mapped = DueBy(k)
  BY DEF MapsBy
<1> DEFINE owes == [c \in Calls |->
                      IF call[c].paid /\ call[c].pc # "balance" THEN Reward(call[c].task) ELSE 0]
<1>1. \A c \in Calls : call[c].task \in Tasks
  BY DEF TypeInv, TypeOK
<1>2. owes \in [Calls -> Int]
  BY <1>1, RewardType
<1>3. Owed = OwedBy(k)
  <2>1. CASE k = Idle /\ \A c \in Calls : call[c] = Idle
    <3>1. \A c \in Calls : owes[c] = 0
      BY <2>1, IdleFields
    <3>2. Total(owes) = 0
      <4> HIDE DEF owes
      <4> QED BY <1>2, <3>1, TotalZero, TaskAssumption
    <3> QED BY <2>1, <3>2, IdleFields DEF Owed, OwedBy
  <2>2. ASSUME NEW c \in Calls, call[c] = k, \A e \in Calls \ {c} : call[e] = Idle
        PROVE  Owed = OwedBy(k)
    <3>1. \A e \in Calls \ {c} : owes[e] = 0
      BY <2>2, IdleFields
    <3>2. owes[c] = OwedBy(k)
      BY <2>2 DEF OwedBy
    <3>3. Total(owes) = owes[c]
      <4> HIDE DEF owes
      <4> QED BY <1>2, <3>1, TotalOne, TaskAssumption
    <3> QED BY <3>2, <3>3 DEF Owed
  <2> QED BY <2>1, <2>2 DEF UnderWay
<1>4. Due = {u \in doc : Repeats \/ ~ u.isCompleted \/ k.pc \in {"mark", "balance"}}
  <2>1. (\E c \in Calls : call[c].pc \in {"mark", "balance"}) <=> k.pc \in {"mark", "balance"}
    BY IdleFields DEF UnderWay
  <2> QED BY <2>1 DEF Due
<1> QED
  BY <1>3, <1>4 DEF Mapped, DueBy, Occurrence

\* A step of the invocation under way, in the terms of the refinement.
LEMMA MappedStep ==
  ASSUME TypeInv, TypeInv', NEW k \in Calling, NEW next \in Calling,
         UnderWay(k), UnderWay(next)'
  PROVE  /\ Owed = OwedBy(k) /\ Mapped = DueBy(k)
         /\ Owed' = OwedBy(next)' /\ Mapped' = DueBy(next)'
<1>1. MapsBy'
  BY MappedBy, PTL
<1> QED
  BY <1>1, MappedBy DEF MapsBy

LEMMA Stutters ==
  ASSUME TypeInv, TypeInv', NEW k \in Calling, NEW next \in Calling,
         UnderWay(k), UnderWay(next)', UNCHANGED <<kind, money>>,
         OwedBy(next)' = OwedBy(k), DueBy(next)' = DueBy(k)
  PROVE  Implements
<1>1. Owed' = Owed /\ Mapped' = Mapped
  BY MappedStep
<1> QED
  BY <1>1 DEF Implements

\* Steps that concern the screen only.
LEMMA ScreenStep ==
  ASSUME TypeInv, TypeInv', NEW k \in Calling, AllOf(k), CopiesAgree(k)',
         UNCHANGED <<kind, clock, doc, money, call, history, used>>
  PROVE  PatientInv' /\ Implements
<1> USE DEF clock, history
<1>1. UnderWay(k)' /\ Relies(k)'
  BY DEF AllOf, UnderWay, Relies, Judged, Repeats
<1>2. SquaresAddUp(k)' /\ PeriodKept(k)'
  BY DEF AllOf, SquaresAddUp, PeriodKept, Repeats, Reward
<1>3. PatientInv'
  BY <1>1, <1>2 DEF AllOf, PatientInv
<1>4. OwedBy(k)' = OwedBy(k) /\ DueBy(k)' = DueBy(k)
  BY DEF OwedBy, DueBy, Reward, Repeats
<1> QED
  BY <1>1, <1>3, <1>4, Stutters DEF AllOf

LEMMA OpenPatient ==
  ASSUME Patient, TypeInv, TypeInv', NEW k \in Calling, AllOf(k), Open \/ Refresh
  PROVE  PatientInv' /\ Implements
<1>1. Quiet /\ UNCHANGED <<doc, shown>>
  BY DEF Open, Refresh, Patient, TypeInv, TypeOK
<1>2. k = Idle
  BY <1>1, UnderWayIdle DEF AllOf
<1>3. /\ read' = [read EXCEPT !["screen"] = [state |-> "asked", list |-> {}]]
      /\ UNCHANGED <<kind, clock, doc, reminder, money, homeMoney, call, history, used>>
  BY DEF Open, Refresh
<1>4. \A r \in Readers : read'[r].state = "answered" => read'[r] = read[r]
  BY <1>3 DEF TypeInv, TypeOK
<1>5. CopiesAgree(k)'
  BY <1>1, <1>2, <1>4, IdleFields DEF AllOf, CopiesAgree, Readers
<1> QED
  BY <1>3, <1>5, ScreenStep

LEMMA LeavePatient ==
  ASSUME Patient, TypeInv, TypeInv', NEW k \in Calling, AllOf(k), Leave
  PROVE  PatientInv' /\ Implements
<1>1. k = Idle /\ \A c \in Calls : call[c] = Idle
  BY UnderWayIdle DEF AllOf, Leave, Patient
<1>2. call' = call
  BY <1>1 DEF Leave, TypeInv, TypeOK
<1>3. CopiesAgree(k)'
  BY <1>1, IdleFields DEF Leave, AllOf, CopiesAgree, NoRead
<1> QED
  BY <1>2, <1>3, ScreenStep DEF Leave

LEMMA AnswerPatient ==
  ASSUME TypeInv, TypeInv', NEW k \in Calling, AllOf(k), NEW r \in Readers, Answer(r)
  PROVE  PatientInv' /\ Implements
<1>1. /\ \A e \in Readers : e # r => read'[e] = read[e]
      /\ read'[r] = [state |-> "answered", list |-> {t \in doc : ShowCompleted \/ ~ t.isCompleted}]
  BY DEF Answer, TypeInv, TypeOK
<1>2. read'[r].list \subseteq doc
  BY <1>1
<1>3. k.pc \in {"idle", "dialog"}
  BY DEF Answer, AllOf, CopiesAgree
<1>4. UNCHANGED <<doc, shown>>
  BY DEF Answer
<1>5. CopiesAgree(k)'
  BY <1>1, <1>2, <1>3, <1>4 DEF AllOf, CopiesAgree, Readers
<1> QED
  BY <1>5, ScreenStep DEF Answer

LEMMA DeliverPatient ==
  ASSUME TypeInv, TypeInv', NEW k \in Calling, AllOf(k), NEW r \in Readers, Deliver(r)
  PROVE  PatientInv' /\ Implements
<1>1. read'[r] = NoRead /\ \A e \in Readers : e # r => read'[e] = read[e]
  BY DEF Deliver, TypeInv, TypeOK
<1>2. read'[r].state = "idle"
  BY <1>1 DEF NoRead
<1>3. k.pc \in {"idle", "dialog"}
  BY DEF Deliver, AllOf, CopiesAgree
<1>4. UNCHANGED doc /\ shown' \subseteq doc
  BY DEF Deliver, AllOf, CopiesAgree
<1>5. CopiesAgree(k)'
  BY <1>1, <1>2, <1>3, <1>4 DEF AllOf, CopiesAgree, Readers
<1> QED
  BY <1>5, ScreenStep DEF Deliver

LEMMA MidnightPatient ==
  ASSUME TypeInv, TypeInv', NEW k \in Calling, AllOf(k), Midnight
  PROVE  PatientInv' /\ Implements
<1> USE DEF clock, history
<1>1. UnderWay(k)' /\ Relies(k)' /\ CopiesAgree(k)'
  BY DEF Midnight, AllOf, UnderWay, Relies, Judged, Repeats, CopiesAgree
<1>2. /\ used'.crashes = used.crashes /\ used'.dismissals = used.dismissals
      /\ used'.awake = used.awake + 1 /\ used.awake \in Nat
  BY BoundsAssumption DEF Midnight, TypeInv, TypeOK
<1>3. SquaresAddUp(k)' /\ PeriodKept(k)'
  BY <1>2 DEF Midnight, AllOf, SquaresAddUp, PeriodKept, Repeats, Reward
<1>4. PatientInv'
  BY <1>1, <1>3 DEF AllOf, PatientInv
<1>5. OwedBy(k)' = OwedBy(k) /\ DueBy(k)' = DueBy(k) /\ UNCHANGED <<kind, money>>
  BY DEF Midnight, OwedBy, DueBy, Reward, Repeats
<1> QED
  BY <1>1, <1>4, <1>5, Stutters DEF AllOf

LEMMA TapPatient ==
  ASSUME Patient, TypeInv, TypeInv', NEW k \in Calling, AllOf(k), NEW c \in Calls, Tap(c)
  PROVE  PatientInv' /\ Implements
<1> USE DEF clock, history
<1>1. k = Idle /\ \A r \in Readers : read[r].state = "idle"
  BY UnderWayIdle DEF AllOf, Tap, Patient
<1>2. PICK task \in shown :
        LET tapped == [task EXCEPT !.isCompleted = TRUE]
            fades  == screen = "list" /\ ~ ShowCompleted /\ ~ Repeats
        IN  /\ ~ task.isCompleted
            /\ shown' = {tapped}
            /\ call' = [call EXCEPT ![c] =
                 [Idle EXCEPT !.pc = IF fades THEN "fade" ELSE "cancel",
                              !.task = tapped, !.from = screen]]
  BY DEF Tap
<1> DEFINE tapped == [task EXCEPT !.isCompleted = TRUE]
<1>3. PICK pc \in {"fade", "cancel"} :
        call' = [call EXCEPT ![c] = [Idle EXCEPT !.pc = pc, !.task = tapped, !.from = screen]]
  BY <1>2
<1>4. PICK from \in Screens : from = screen
  BY DEF Tap, TypeInv, TypeOK
<1> DEFINE next == [Idle EXCEPT !.pc = pc, !.task = tapped, !.from = from]
<1>5. doc = {task} /\ task \in Tasks
  <2>1. task \in Tasks /\ ~ task.isCompleted
    BY <1>2 DEF TypeInv, TypeOK
  <2>2. task \in doc
    BY <2>1 DEF AllOf, CopiesAgree
  <2>3. \A t \in doc : t = task
    BY <2>2 DEF AllOf, CopiesAgree
  <2> QED BY <2>1, <2>2, <2>3
<1>6. /\ tapped.isCompleted /\ Opened(tapped) = task
      /\ next \in Calling /\ next.pc = pc /\ next.task = tapped /\ next.here /\ ~ next.paid
  <2>1. pc \in Pcs /\ ~ task.isCompleted
    BY <1>2 DEF Pcs
  <2>2. /\ tapped = [task EXCEPT !.isCompleted = TRUE]
        /\ next = [Idle EXCEPT !.pc = pc, !.task = tapped, !.from = from]
    OBVIOUS
  <2>3. tapped.isCompleted /\ Opened(tapped) = task /\ tapped \in Tasks
    BY <1>5, <2>1 DEF Tasks, Opened
  <2> HIDE DEF tapped
  <2>4. next \in Calling /\ next.pc = pc /\ next.task = tapped /\ next.here /\ ~ next.paid
    BY <2>1, <2>3, IdleType DEF Calling, Idle
  <2> QED BY <2>3, <2>4
<1>7. call' = [call EXCEPT ![c] = next] /\ shown' = {tapped}
  BY <1>2, <1>3, <1>4
<1>8. /\ used'.crashes = used.crashes /\ used'.dismissals = used.dismissals
      /\ used'.awake = used.awake
  BY DEF Tap, TypeInv, TypeOK
<1>9. UNCHANGED <<kind, clock, doc, money, homeMoney, read, history>>
  BY DEF Tap
<1> HIDE DEF next, tapped
<1>10. UnderWay(next)'
  BY <1>1, <1>6, <1>7, UnderWayStep DEF AllOf
<1>11. CopiesAgree(next)'
  BY <1>1, <1>5, <1>6, <1>7, <1>9 DEF AllOf, CopiesAgree
<1>12. Relies(next)'
  BY <1>5, <1>6, <1>9 DEF Relies
<1>13. SquaresAddUp(next)' /\ PeriodKept(next)'
  BY <1>1, <1>6, <1>8, <1>9, IdleFields DEF AllOf, SquaresAddUp, PeriodKept, Repeats
<1>14. OwedBy(next)' = OwedBy(k) /\ DueBy(next)' = DueBy(k)
  BY <1>1, <1>5, <1>6, <1>9, IdleFields DEF OwedBy, DueBy, Repeats
<1> QED
  BY <1>6, <1>9, <1>10, <1>11, <1>12, <1>13, <1>14, Stutters DEF AllOf, PatientInv

LEMMA FadePatient ==
  ASSUME TypeInv, TypeInv', NEW k \in Calling, AllOf(k), NEW c \in Calls, Fade(c)
  PROVE  PatientInv' /\ Implements
<1> USE DEF clock, history
<1>1. call[c] = k /\ k.pc = "fade" /\ k.here
  BY UnderWayOne DEF AllOf, Fade, Relies
<1> DEFINE next == [k EXCEPT !.pc = "cancel"]
<1>2. /\ next \in Calling /\ next.pc = "cancel" /\ next.task = k.task /\ next.here = k.here
      /\ next.paid = k.paid
  BY PcFields DEF Pcs
<1>3. call' = [call EXCEPT ![c] = next] /\ shown' \subseteq shown
  BY <1>1 DEF Fade
<1>4. UNCHANGED <<kind, clock, doc, money, homeMoney, read, history, used>>
  BY DEF Fade
<1> HIDE DEF next
<1>5. UnderWay(next)'
  BY <1>1, <1>2, <1>3, UnderWayStep DEF AllOf
<1>6. CopiesAgree(next)' /\ Relies(next)'
  BY <1>1, <1>2, <1>3, <1>4 DEF AllOf, CopiesAgree, Relies
<1>7. SquaresAddUp(next)' /\ PeriodKept(next)'
  BY <1>1, <1>2, <1>4 DEF AllOf, SquaresAddUp, PeriodKept, Repeats, Reward
<1>8. OwedBy(next)' = OwedBy(k) /\ DueBy(next)' = DueBy(k)
  BY <1>1, <1>2, <1>4 DEF OwedBy, DueBy, Repeats, Reward
<1> QED
  BY <1>2, <1>4, <1>5, <1>6, <1>7, <1>8, Stutters DEF AllOf, PatientInv

LEMMA MarkPatient ==
  ASSUME TypeInv, TypeInv', NEW k \in Calling, AllOf(k), NEW c \in Calls, Mark(c)
  PROVE  PatientInv' /\ Implements
<1> USE DEF clock, history
<1>1. call[c] = k /\ k.pc = "cancel"
  BY UnderWayOne DEF AllOf, Mark
<1> DEFINE next == [k EXCEPT !.pc = "mark"]
<1>2. /\ next \in Calling /\ next.pc = "mark" /\ next.task = k.task /\ next.here = k.here
      /\ next.paid = k.paid
  BY PcFields DEF Pcs
<1>3. doc = {Opened(k.task)} /\ k.task \in Tasks /\ k.task.isCompleted /\ k.here /\ ~ k.paid
  BY <1>1 DEF AllOf, Relies, Calling
<1>4. [Opened(k.task) EXCEPT !.isCompleted = TRUE] = k.task
  BY <1>3 DEF Opened, Tasks
<1>5. /\ Opened(k.task).streak = k.task.streak /\ Opened(k.task).prev = k.task.prev
      /\ Opened(k.task).date = k.task.date /\ ~ Opened(k.task).isCompleted
  BY <1>3 DEF Opened, Tasks
<1>t. Opened(k.task).timed = k.task.timed
  BY <1>3, Zenon DEF Opened, Tasks
<1>6. doc' = {k.task} /\ call' = [call EXCEPT ![c] = next]
  <2>1. doc' = {k.task}
    BY <1>3, <1>4 DEF Mark
  <2>2. doc # {}
    BY <1>3
  <2> QED BY <1>1, <2>1, <2>2 DEF Mark
<1>7. UNCHANGED <<kind, clock, money, homeMoney, shown, read, history, used>>
  BY DEF Mark
<1> HIDE DEF next
<1>8. UnderWay(next)'
  BY <1>1, <1>2, <1>6, UnderWayStep DEF AllOf
<1>9. CopiesAgree(next)' /\ Relies(next)'
  BY <1>1, <1>2, <1>3, <1>6, <1>7 DEF AllOf, CopiesAgree, Relies
<1>10. SquaresAddUp(next)' /\ PeriodKept(next)'
  BY <1>1, <1>2, <1>3, <1>5, <1>6, <1>7 DEF AllOf, SquaresAddUp, PeriodKept, Repeats
<1>11. OwedBy(next)' = OwedBy(k) /\ DueBy(next)' = DueBy(k)
  <2>1. Occurrence(k.task) = Occurrence(Opened(k.task))
    BY <1>5, <1>t, Zenon DEF Occurrence
  <2>2. DueBy(k) = {Occurrence(Opened(k.task))}
    BY <1>3, <1>5 DEF DueBy
  <2>3. DueBy(next)' = {Occurrence(k.task)}
    BY <1>2, <1>6 DEF DueBy
  <2>4. OwedBy(next)' = 0 /\ OwedBy(k) = 0
    BY <1>2, <1>3 DEF OwedBy
  <2> QED BY <2>1, <2>2, <2>3, <2>4
<1> QED
  BY <1>2, <1>7, <1>8, <1>9, <1>10, <1>11, Stutters DEF AllOf, PatientInv

LEMMA AwardPatient ==
  ASSUME TypeInv, TypeInv', NEW k \in Calling, AllOf(k), NEW c \in Calls, Award(c)
  PROVE  PatientInv' /\ Implements
<1> USE DEF clock, history
<1>1. call[c] = k /\ k.pc = "mark"
  BY UnderWayOne DEF AllOf, Award
<1> DEFINE next == [k EXCEPT !.pc = "balance", !.paid = TRUE]
<1>2. /\ next \in Calling /\ next.pc = "balance" /\ next.task = k.task /\ next.here = k.here
      /\ next.paid
  BY DEF Calling, Pcs
<1>3. doc = {k.task} /\ k.task \in Tasks /\ k.task.isCompleted /\ k.here /\ ~ k.paid
  BY <1>1 DEF AllOf, Relies, Calling
<1>4. call' = [call EXCEPT ![c] = next]
  BY <1>1 DEF Award, TypeInv, TypeOK
<1>5. UNCHANGED <<kind, clock, doc, reminder, money, homeMoney, shown, read, used>>
  BY DEF Award
<1>6. Rewarded(kind.repeat, k.task.prev, now.day) /\ last' = today
  BY <1>1 DEF Award
<1> DEFINE square == (awards + 1) * (awards + 1)
<1>7. awards' = awards + 1 /\ squares' = squares + square
  BY DEF Award
<1> HIDE DEF next
<1>8. UnderWay(next)'
  BY <1>1, <1>2, <1>4, UnderWayStep DEF AllOf
<1>9. CopiesAgree(next)' /\ Relies(next)'
  BY <1>1, <1>2, <1>3, <1>5, <1>6 DEF AllOf, CopiesAgree, Relies
<1>10. SquaresAddUp(next)'
  <2> SUFFICES ASSUME Repeats, used.crashes = 0, used.dismissals = 0
               PROVE  /\ k.task.streak + 1 = awards'
                      /\ money + Reward(k.task) = InitMoney + squares'
    BY <1>2, <1>3, <1>5 DEF SquaresAddUp, Repeats, Reward
  <2>1. k.task.streak = awards /\ money = InitMoney + squares
    <3>1. k.task.streak \in Nat /\ money \in Int
      BY <1>3 DEF Tasks, TypeInv, TypeOK
    <3> QED BY <1>1, <1>3, <3>1 DEF AllOf, SquaresAddUp
  <2>2. Reward(k.task) = square
    BY <2>1 DEF Reward
  <2>3. square \in Nat /\ squares \in Int
    <3>1. awards \in Nat /\ squares \in Int
      BY DEF TypeInv, TypeOK
    <3> QED BY <3>1, SquaresGrow
  <2> HIDE DEF square
  <2> QED BY <1>7, <2>1, <2>2, <2>3, TaskAssumption
<1>11. PeriodKept(next)'
  BY <1>2, <1>3, <1>5, <1>6 DEF AllOf, PeriodKept
<1>12. OwedBy(next)' = OwedBy(k) /\ DueBy(next)' = DueBy(k)
  BY <1>1, <1>2, <1>3, <1>5 DEF OwedBy, DueBy
<1> QED
  BY <1>2, <1>5, <1>8, <1>9, <1>10, <1>11, <1>12, Stutters DEF AllOf, PatientInv

\* The step that reschedules a repeated task ends its occurrence.
LEMMA CompletesRepeated ==
  ASSUME TypeInv, TypeInv', NEW k \in Calling, NEW next \in Calling,
         UnderWay(k), UnderWay(next)', Repeats, UNCHANGED <<kind, now, money>>,
         k.pc \in {"mark", "balance"}, doc = {k.task}, k.pc = "mark" => ~ k.paid,
         next.pc = "write", next.task = k.task,
         next.paid <=> Rewarded(kind.repeat, k.task.prev, now.day),
         NEW t, doc' = {t},
         t = [isCompleted |-> FALSE, streak |-> k.task.streak + (IF next.paid THEN 1 ELSE 0),
              prev |-> now.day, date |-> NextDate(kind.repeat, k.task.date, k.task.timed, now.day),
              timed |-> FALSE]
  PROVE  Implements
<1>1. /\ Owed = OwedBy(k) /\ Mapped = DueBy(k)
      /\ Owed' = OwedBy(next)' /\ Mapped' = DueBy(next)'
  BY MappedStep
<1>2. k.task.streak \in Nat /\ now.day \in Days
  BY DEF Calling, Tasks, TypeInv, TypeOK
<1> DEFINE before == Occurrence(k.task)
           after == [streak |-> IF next.paid THEN k.task.streak + 1 ELSE k.task.streak,
                     prev |-> now.day, date |-> NextDate(kind.repeat, k.task.date, k.task.timed, now.day),
                     timed |-> FALSE]
<1>3. Mapped = {before} /\ Mapped' = {after}
  <2>1. DueBy(k) = {before}
    BY DEF DueBy
  <2>2. Occurrence(t) = after
    <3>1. t.streak = after.streak
      BY <1>2
    <3>2. t.streak = IF next.paid THEN k.task.streak + 1 ELSE k.task.streak
      BY <3>1
    <3>3. /\ t.prev = now.day /\ t.timed = FALSE
          /\ t.date = NextDate(kind.repeat, k.task.date, k.task.timed, now.day)
      BY Zenon
    <3> QED
      BY <3>2, <3>3, Zenon DEF Occurrence
  <2>3. DueBy(next)' = {Occurrence(t)}
    BY DEF DueBy, Repeats
  <2> QED BY <1>1, <2>1, <2>2, <2>3
<1>4. /\ Owed = 0
      /\ Owed' = IF next.paid THEN (k.task.streak + 1) * (k.task.streak + 1) ELSE 0
  BY <1>1 DEF OwedBy, Reward, Repeats
<1>5. /\ before.streak = k.task.streak /\ before.prev = k.task.prev /\ before.date = k.task.date
      /\ before.timed = k.task.timed
  BY DEF Occurrence
<1>6. kind.repeat # "never"
  BY DEF Repeats
<1> HIDE DEF before
<1>7. PICK day \in Days : day = now.day
  BY <1>2
<1>8. O!Complete(day)
  BY <1>3, <1>4, <1>5, <1>6, <1>7 DEF O!Complete, Mapped
<1> QED
  BY <1>8 DEF Implements, O!Next

LEMMA RefusePatient ==
  ASSUME TypeInv, TypeInv', NEW k \in Calling, AllOf(k), NEW c \in Calls, Refuse(c)
  PROVE  PatientInv' /\ Implements
<1> USE DEF clock, history
<1>1. call[c] = k /\ k.pc = "mark"
  BY UnderWayOne DEF AllOf, Refuse
<1> DEFINE next == [k EXCEPT !.pc = "write"]
<1>2. /\ next \in Calling /\ next.pc = "write" /\ next.task = k.task /\ next.here = k.here
      /\ next.paid = k.paid
  BY PcFields DEF Pcs
<1>3. doc = {k.task} /\ k.task \in Tasks /\ k.task.isCompleted /\ k.here /\ ~ k.paid
  BY <1>1 DEF AllOf, Relies, Calling
<1>4. ~ Rewarded(kind.repeat, k.task.prev, now.day) /\ last' = today
  BY <1>1 DEF Refuse
<1>5. Repeats
  BY <1>3, <1>4, DatesAssumption DEF TypeInv, TypeOK, Tasks, Repeats
<1>6. PICK t : t = [isCompleted |-> FALSE, streak |-> k.task.streak, prev |-> now.day,
                    date |-> NextDate(kind.repeat, k.task.date, k.task.timed, now.day),
                    timed |-> FALSE]
  OBVIOUS
<1>7. doc' = {t} /\ call' = [call EXCEPT ![c] = next]
  <2>1. Reschedule(c, k.task.streak, next)
    BY <1>1 DEF Refuse
  <2> HIDE DEF next
  <2> QED BY <1>1, <1>3, <1>6, <2>1 DEF Reschedule
<1>8. UNCHANGED <<kind, clock, reminder, money, homeMoney, shown, read, awards, squares, used>>
  BY DEF Refuse
<1>9. ~ t.isCompleted /\ t.streak = k.task.streak /\ t.prev = now.day
  BY <1>6
<1> HIDE DEF next
<1>10. UnderWay(next)'
  BY <1>1, <1>2, <1>7, UnderWayStep DEF AllOf
<1>11. k.task.streak + 0 = k.task.streak
  BY <1>3 DEF Tasks
<1>12. CopiesAgree(next)' /\ Relies(next)'
  BY <1>1, <1>2, <1>3, <1>5, <1>7, <1>8, <1>9, <1>11
     DEF AllOf, CopiesAgree, Relies, Judged, Repeats
<1>13. SquaresAddUp(next)'
  BY <1>1, <1>2, <1>3, <1>7, <1>8, <1>9, <1>11 DEF AllOf, SquaresAddUp, Repeats
<1>14. PeriodKept(next)'
  BY <1>2, <1>4, <1>7, <1>8, <1>9 DEF AllOf, PeriodKept
<1>15. Implements
  BY <1>1, <1>2, <1>3, <1>4, <1>5, <1>6, <1>7, <1>8, <1>10, <1>11, CompletesRepeated DEF AllOf
<1> QED
  BY <1>2, <1>10, <1>12, <1>13, <1>14, <1>15 DEF AllOf, PatientInv

LEMMA BalancePatient ==
  ASSUME TypeInv, TypeInv', NEW k \in Calling, AllOf(k), NEW c \in Calls, Balance(c)
  PROVE  PatientInv' /\ Implements
<1> USE DEF clock, history
<1>1. call[c] = k /\ k.pc = "balance"
  BY UnderWayOne DEF AllOf, Balance
<1>0. PICK balance \in Int : balance = money
  BY DEF TypeInv, TypeOK
<1> DEFINE next == [k EXCEPT !.balance = balance, !.pc = "write"]
<1>2. /\ next \in Calling /\ next.pc = "write" /\ next.task = k.task /\ next.here = k.here
      /\ next.paid = k.paid /\ next.balance = money
  BY <1>0 DEF Calling, Pcs
<1>3. /\ doc = {k.task} /\ k.task \in Tasks /\ k.task.isCompleted /\ k.here /\ k.paid
      /\ Rewarded(kind.repeat, k.task.prev, now.day)
  BY <1>1 DEF AllOf, Relies, Calling
<1>4. UNCHANGED <<kind, clock, reminder, money, homeMoney, shown, read, history, used>>
  BY DEF Balance
<1>5. /\ Repeats => Reschedule(c, k.task.streak + 1, next)
      /\ ~ Repeats => call' = [call EXCEPT ![c] = next] /\ UNCHANGED doc
  BY <1>0, <1>1 DEF Balance
<1> HIDE DEF next
<1>6. call' = [call EXCEPT ![c] = next]
  BY <1>3, <1>5 DEF Reschedule
<1>7. UnderWay(next)'
  BY <1>1, <1>2, <1>6, UnderWayStep DEF AllOf
<1>8. CASE Repeats
  <2>1. PICK t : t = [isCompleted |-> FALSE, streak |-> k.task.streak + 1, prev |-> now.day,
                      date |-> NextDate(kind.repeat, k.task.date, k.task.timed, now.day),
                      timed |-> FALSE]
    OBVIOUS
  <2>2. doc' = {t}
    BY <1>1, <1>3, <1>5, <1>8, <2>1 DEF Reschedule
  <2>3. ~ t.isCompleted /\ t.streak = k.task.streak + 1 /\ t.prev = now.day
    BY <2>1
  <2>4. k.task.streak \in Nat /\ t.streak + 0 = k.task.streak + 1
    BY <1>3, <2>3 DEF Tasks
  <2>5. CopiesAgree(next)' /\ Relies(next)'
    BY <1>1, <1>2, <1>3, <1>4, <1>8, <2>2, <2>3
       DEF AllOf, CopiesAgree, Relies, Judged, Repeats
  <2>6. SquaresAddUp(next)'
    BY <1>1, <1>2, <1>3, <1>4, <2>2, <2>3, <2>4 DEF AllOf, SquaresAddUp, Repeats, Reward
  <2>7. PeriodKept(next)'
    BY <1>1, <1>2, <1>4, <2>2, <2>3 DEF AllOf, PeriodKept
  <2>8. Implements
    BY <1>1, <1>2, <1>3, <1>4, <1>7, <1>8, <2>1, <2>2, CompletesRepeated DEF AllOf
  <2> QED
    BY <1>2, <1>7, <2>5, <2>6, <2>7, <2>8 DEF AllOf, PatientInv
<1>9. CASE ~ Repeats
  <2>1. doc' = {k.task} /\ ~ Repeats'
    BY <1>3, <1>4, <1>5, <1>9 DEF Repeats
  <2>2. CopiesAgree(next)' /\ Relies(next)'
    BY <1>1, <1>2, <1>3, <1>4, <2>1 DEF AllOf, CopiesAgree, Relies, Judged
  <2>3. SquaresAddUp(next)' /\ PeriodKept(next)'
    BY <1>2, <1>3, <1>4, <2>1 DEF AllOf, SquaresAddUp, PeriodKept
  <2>4. /\ Owed = OwedBy(k) /\ Mapped = DueBy(k)
        /\ Owed' = OwedBy(next)' /\ Mapped' = DueBy(next)'
    BY <1>2, <1>7, MappedStep DEF AllOf
  <2>5. Owed = 0 /\ Owed' = 5
    BY <1>1, <1>2, <1>3, <2>1, <2>4 DEF OwedBy, Reward
  <2>6. Mapped = {Occurrence(k.task)} /\ Mapped' = {}
    BY <1>1, <1>2, <1>3, <2>1, <2>4 DEF DueBy
  <2>7. kind.repeat = "never"
    BY <1>9 DEF Repeats
  <2>8. PICK day \in Days : day = now.day
    BY DEF TypeInv, TypeOK
  <2>9. O!Complete(day)
    BY <1>4, <2>5, <2>6, <2>7 DEF O!Complete, Mapped
  <2> QED
    BY <1>2, <1>7, <2>2, <2>3, <2>9 DEF AllOf, PatientInv, Implements, O!Next
<1> QED
  BY <1>8, <1>9

\* A judged invocation that goes on towards its dialog.
LEMMA GoesOn ==
  ASSUME TypeInv, TypeInv', NEW k \in Calling, AllOf(k), NEW c \in Calls, call[c] = k,
         NEW next \in Calling, call' = [call EXCEPT ![c] = next],
         k.pc \in {"write", "event", "remind"}, next.pc \in {"event", "remind", "dialog"},
         next.task = k.task, next.here = k.here, next.paid = k.paid,
         UNCHANGED <<kind, clock, doc, money, shown, history, used>>,
         \A r \in Readers : read'[r].state = "answered" => read'[r] = read[r],
         next.pc = "dialog" \/ UNCHANGED read
  PROVE  PatientInv' /\ Implements
<1> USE DEF clock, history
<1>1. UnderWay(next)'
  BY IdleFields, UnderWayStep DEF AllOf
<1>2. CopiesAgree(next)'
  BY DEF AllOf, CopiesAgree, Readers
<1>3. Relies(next)'
  BY DEF AllOf, Relies, Judged, Repeats
<1>4. SquaresAddUp(next)' /\ PeriodKept(next)'
  BY DEF AllOf, SquaresAddUp, PeriodKept, Repeats, Reward
<1>5. OwedBy(next)' = OwedBy(k) /\ DueBy(next)' = DueBy(k)
  BY DEF OwedBy, DueBy, Repeats, Reward
<1> QED
  BY <1>1, <1>2, <1>3, <1>4, <1>5, Stutters DEF AllOf, PatientInv

LEMMA FetchPatient ==
  ASSUME TypeInv, TypeInv', NEW k \in Calling, AllOf(k), NEW c \in Calls, Fetch(c)
  PROVE  PatientInv' /\ Implements
<1> USE DEF clock, history
<1>1. call[c] = k /\ k.pc = "write" /\ doc # {} /\ kind.hasTime
  BY UnderWayOne DEF AllOf, Fetch, Relies, Judged
<1>2. PICK event \in SUBSET Tasks : event = doc
  BY DEF TypeInv, TypeOK
<1> DEFINE next == [k EXCEPT !.pc = "event", !.event = event]
<1>3. /\ next \in Calling /\ next.pc = "event" /\ next.task = k.task /\ next.here = k.here
      /\ next.paid = k.paid
  BY <1>2 DEF Calling, Pcs
<1>4. call' = [call EXCEPT ![c] = next]
  BY <1>1, <1>2 DEF Fetch
<1>5. UNCHANGED <<kind, clock, doc, money, shown, read, history, used>>
  BY DEF Fetch
<1> HIDE DEF next
<1> QED
  BY <1>1, <1>3, <1>4, <1>5, GoesOn

LEMMA RemindPatient ==
  ASSUME TypeInv, TypeInv', NEW k \in Calling, AllOf(k), NEW c \in Calls, Remind(c)
  PROVE  PatientInv' /\ Implements
<1>1. call[c] = k /\ k.pc = "event"
  BY UnderWayOne DEF AllOf, Remind
<1> DEFINE next == [k EXCEPT !.pc = "remind"]
<1>2. /\ next \in Calling /\ next.pc = "remind" /\ next.task = k.task /\ next.here = k.here
      /\ next.paid = k.paid
  BY PcFields DEF Pcs
<1>3. call' = [call EXCEPT ![c] = next]
  BY <1>1 DEF Remind
<1>4. UNCHANGED <<kind, clock, doc, money, shown, read, history, used>>
  BY DEF Remind
<1> HIDE DEF next
<1> QED
  BY <1>1, <1>2, <1>3, <1>4, GoesOn

LEMMA ShowDialogPatient ==
  ASSUME TypeInv, TypeInv', NEW k \in Calling, AllOf(k), NEW c \in Calls, ShowDialog(c)
  PROVE  PatientInv' /\ Implements
<1> USE DEF clock, history
<1>1. /\ call[c] = k /\ k.here
      /\ k.pc = "remind" \/ (k.pc = "write" /\ ~ (Repeats /\ kind.hasTime))
  BY UnderWayOne DEF AllOf, ShowDialog, Relies
<1> DEFINE next == [k EXCEPT !.pc = "dialog"]
<1>2. /\ next \in Calling /\ next.pc = "dialog" /\ next.task = k.task /\ next.here = k.here
      /\ next.paid = k.paid
  BY PcFields DEF Pcs
<1>3. call' = [call EXCEPT ![c] = next]
  BY <1>1 DEF ShowDialog
<1>4. UNCHANGED <<kind, clock, doc, money, shown, history, used>>
  BY DEF ShowDialog
<1>5. \A r \in Readers : read'[r].state = "answered" => read'[r] = read[r]
  <2> DEFINE asked == [state |-> "asked", list |-> {}]
  <2>1. read' = read \/ read' = [read EXCEPT ![c] = asked]
    BY <1>1 DEF ShowDialog
  <2>2. asked.state # "answered"
    OBVIOUS
  <2> HIDE DEF asked
  <2> QED BY <2>1, <2>2 DEF TypeInv, TypeOK
<1> HIDE DEF next
<1> QED
  BY <1>1, <1>2, <1>3, <1>4, <1>5, GoesOn

LEMMA TopDialog ==
  ASSUME TypeInv, HandInv, NEW k \in Calling, AllOf(k), dialogs # <<>>
  PROVE  /\ Head(dialogs) \in Calls /\ call[Head(dialogs)] = k /\ k.pc = "dialog"
<1>1. dialogs \in Seq(Calls)
  BY DEF TypeInv, TypeOK
<1>2. Head(dialogs) \in Calls /\ Head(dialogs) = dialogs[1] /\ 1 \in 1 .. Len(dialogs)
  BY <1>1
<1>3. call[Head(dialogs)].pc = "dialog"
  BY <1>2 DEF HandInv, DialogsWait
<1> QED
  BY <1>2, <1>3, UnderWayOne DEF AllOf

\* A dialog is closed: what was owed is collected or lost.
LEMMA ClosePatient ==
  ASSUME TypeInv, TypeInv', HandInv, NEW k \in Calling, AllOf(k), PressBack \/ DismissDialog
  PROVE  PatientInv' /\ Implements
<1> USE DEF clock, history
<1> DEFINE c == Head(dialogs)
<1>1. c \in Calls /\ call[c] = k /\ k.pc = "dialog"
  BY TopDialog DEF PressBack, DismissDialog
<1>2. call' = [call EXCEPT ![c] = Idle]
  BY DEF PressBack, DismissDialog
<1>3. UNCHANGED <<kind, clock, doc, shown, read, history>>
  BY DEF PressBack, DismissDialog
<1>4. /\ used'.crashes = used.crashes /\ used'.awake = used.awake
      /\ used.dismissals \in Nat /\ used'.dismissals \in Nat
      /\ DismissDialog => used'.dismissals # 0
  <2>1. used \in Counts
    BY DEF TypeInv, TypeOK, Counts
  <2>2. used' = used \/ (DismissDialog /\ used' = [used EXCEPT !.dismissals = @ + 1])
    BY DEF PressBack, DismissDialog
  <2>3. DismissDialog => used' = [used EXCEPT !.dismissals = @ + 1]
    BY DEF DismissDialog
  <2> QED BY <2>1, <2>2, <2>3, BoundsAssumption DEF Counts
<1>5. UnderWay(Idle)'
  <2> HIDE DEF c
  <2> QED BY <1>1, <1>2, EndsUnderWay DEF AllOf
<1>6. Judged(k)
  BY <1>1 DEF AllOf, Relies
<1>7. PICK owes : owes = Reward(k.task)
  OBVIOUS
<1>8. /\ PressBack => money' = money + (IF k.paid THEN owes ELSE 0)
      /\ PressBack => used' = used
      /\ DismissDialog => UNCHANGED money
  <2>1. money \in Int
    BY DEF TypeInv, TypeOK
  <2> QED BY <1>1, <1>7, <2>1 DEF PressBack, DismissDialog
<1>9. CopiesAgree(Idle)' /\ Relies(Idle)'
  BY <1>3, IdleFields DEF AllOf, CopiesAgree, Relies
<1>10. SquaresAddUp(Idle)'
  <2>1. CASE DismissDialog
    BY <1>4, <2>1 DEF SquaresAddUp
  <2>2. CASE PressBack
    <3>0. money' \in Int
      BY DEF TypeInv, TypeOK
    <3>1. \A n \in Int : n + 0 = n
      OBVIOUS
    <3> HIDE DEF c
    <3> QED BY <1>1, <1>3, <1>7, <1>8, <2>2, <3>0, <3>1, IdleFields DEF AllOf, SquaresAddUp, Repeats
  <2> QED BY <2>1, <2>2
<1>11. PeriodKept(Idle)'
  BY <1>1, <1>3, <1>4, IdleFields DEF AllOf, PeriodKept
<1>12. PatientInv'
  BY <1>5, <1>9, <1>10, <1>11, IdleFields DEF AllOf, PatientInv
<1>13. Implements
  <2>1. /\ Owed = OwedBy(k) /\ Mapped = DueBy(k)
        /\ Owed' = OwedBy(Idle)' /\ Mapped' = DueBy(Idle)'
    BY <1>5, IdleFields, MappedStep DEF AllOf
  <2>2. Owed = (IF k.paid THEN owes ELSE 0) /\ Owed' = 0
    BY <1>1, <1>7, <2>1, IdleFields DEF OwedBy
  <2>3. Mapped' = Mapped
    BY <1>1, <1>3, <2>1, IdleFields DEF DueBy, Repeats
  <2>4. O!Collect \/ O!Forfeit
    BY <1>3, <1>8, <2>2, <2>3 DEF O!Collect, O!Forfeit, Mapped
  <2> QED BY <2>4 DEF Implements, O!Next
<1> QED
  BY <1>12, <1>13

LEMMA DeletePatient ==
  ASSUME Patient, TypeInv, TypeInv', NEW k \in Calling, AllOf(k), NEW c \in Calls, Delete(c)
  PROVE  PatientInv' /\ Implements
<1> USE DEF clock, history
<1>1. k = Idle /\ \A r \in Readers : read[r].state = "idle"
  BY UnderWayIdle DEF AllOf, Delete, Patient
<1>2. PICK task \in Tasks, from \in Screens :
        call' = [call EXCEPT ![c] = [Idle EXCEPT !.pc = "delete", !.task = task, !.from = from]]
  <2>1. PICK task \in shown :
          call' = [call EXCEPT ![c] = [Idle EXCEPT !.pc = "delete", !.task = task, !.from = screen]]
    BY DEF Delete
  <2>2. task \in Tasks /\ screen \in Screens
    BY DEF Delete, TypeInv, TypeOK
  <2> QED BY <2>1, <2>2
<1> DEFINE next == [Idle EXCEPT !.pc = "delete", !.task = task, !.from = from]
<1>3. next \in Calling /\ next.pc = "delete" /\ next.here /\ ~ next.paid
  BY IdleType DEF Calling, Pcs, Idle
<1>4. call' = [call EXCEPT ![c] = next]
  BY <1>2
<1>5. doc' = {} /\ shown' = {} /\ UNCHANGED <<kind, clock, money, homeMoney, read, history, used>>
  BY DEF Delete, Patient, TypeInv, TypeOK
<1> HIDE DEF next
<1>6. UnderWay(next)'
  BY <1>1, <1>3, <1>4, UnderWayStep DEF AllOf
<1>7. CopiesAgree(next)' /\ Relies(next)' /\ SquaresAddUp(next)'
  BY <1>1, <1>3, <1>5 DEF AllOf, CopiesAgree, Relies, SquaresAddUp
<1>8. PeriodKept(next)'
  BY <1>3, <1>5 DEF AllOf, PeriodKept
<1>9. Implements
  <2>1. /\ Owed = OwedBy(k) /\ Mapped = DueBy(k)
        /\ Owed' = OwedBy(next)' /\ Mapped' = DueBy(next)'
    BY <1>3, <1>6, MappedStep DEF AllOf
  <2>2. Owed' = Owed /\ Mapped' = {}
    BY <1>1, <1>3, <1>5, <2>1, IdleFields DEF OwedBy, DueBy
  <2>3. O!Remove
    BY <1>5, <2>2 DEF O!Remove, Mapped
  <2> QED BY <2>3 DEF Implements, O!Next
<1> QED
  BY <1>3, <1>6, <1>7, <1>8, <1>9 DEF AllOf, PatientInv

LEMMA CancelDeletedPatient ==
  ASSUME TypeInv, TypeInv', NEW k \in Calling, AllOf(k), NEW c \in Calls, CancelDeleted(c)
  PROVE  PatientInv' /\ Implements
<1> USE DEF clock, history
<1>1. call[c] = k /\ k.pc = "delete" /\ ~ k.paid /\ doc = {}
  BY UnderWayOne DEF AllOf, CancelDeleted, Relies
<1>2. UNCHANGED <<kind, clock, doc, money, homeMoney, shown, read, history, used>>
  BY DEF CancelDeleted
<1>3. UnderWay(Idle)'
  BY <1>1, EndsUnderWay DEF AllOf, CancelDeleted
<1>4. CopiesAgree(Idle)' /\ Relies(Idle)' /\ SquaresAddUp(Idle)'
  BY <1>1, <1>2, IdleFields DEF AllOf, CopiesAgree, Relies, SquaresAddUp
<1>5. PeriodKept(Idle)'
  BY <1>1, <1>2, IdleFields DEF AllOf, PeriodKept
<1>6. OwedBy(Idle)' = OwedBy(k) /\ DueBy(Idle)' = DueBy(k)
  BY <1>1, <1>2, IdleFields DEF OwedBy, DueBy
<1> QED
  BY <1>2, <1>3, <1>4, <1>5, <1>6, IdleFields, Stutters DEF AllOf, PatientInv

\* A kill forfeits what is owed, and removes a task that is completed and not repeated.
LEMMA RestartPatient ==
  ASSUME TypeInv, TypeInv', NEW k \in Calling, AllOf(k), Restart
  PROVE  PatientInv' /\ Implements
<1> USE DEF clock, history
<1>1. \A c \in Calls : call'[c] = Idle
  BY DEF Restart
<1>2. UnderWay(Idle)'
  BY <1>1 DEF UnderWay
<1>3. UNCHANGED <<kind, doc, money, history>>
  BY DEF Restart
<1>4. CopiesAgree(Idle)' /\ Relies(Idle)'
  <2>1. shown' = {} /\ \A r \in Readers : read'[r].state = "idle"
    BY DEF Restart, NoRead
  <2>2. \A t, u \in doc' : t = u
    BY <1>3 DEF AllOf, CopiesAgree
  <2> QED BY <1>3, <2>1, <2>2, IdleFields DEF CopiesAgree, Relies, Readers
<1>5. \/ k = Idle /\ UNCHANGED used
      \/ used'.crashes # 0
  <2>1. CASE Suspended = {}
    <3>1. k.pc = "idle"
      BY <2>1, IdleFields DEF AllOf, UnderWay, Suspended
    <3> QED BY <2>1, <3>1 DEF Restart, AllOf, UnderWay
  <2>2. CASE Suspended # {}
    <3>1. used \in Counts /\ used' = [used EXCEPT !.crashes = @ + 1]
      BY <2>2 DEF Restart, TypeInv, TypeOK, Counts
    <3> QED BY <3>1, BoundsAssumption DEF Counts
  <2> QED BY <2>1, <2>2
<1>6. used'.awake = used.awake
  BY DEF Restart, TypeInv, TypeOK
<1>7. /\ today' \in Nat /\ today \in Nat /\ today' >= today /\ now.day \in Nat
      /\ now'.day = today'
      /\ today' = now.day /\ now'.early => now.early
  <2>1. today' \in Nat /\ today \in Nat /\ now.day \in Nat
    <3>1. today' \in Days /\ today \in Days /\ now.day \in Days
      BY DEF TypeInv, TypeOK
    <3> QED BY <3>1, DatesAssumption DEF Days
  <2>2. today' >= today
    BY <2>1 DEF Restart
  <2>3. now'.day \in {today'}
    BY DEF Restart
  <2> QED BY <2>1, <2>2, <2>3 DEF Restart
<1>8. SquaresAddUp(Idle)'
  BY <1>3, <1>5, IdleFields DEF AllOf, SquaresAddUp, Repeats
<1>9. PeriodKept(Idle)'
  BY <1>3, <1>6, <1>7, IdleFields DEF AllOf, PeriodKept
<1>10. PatientInv'
  BY <1>2, <1>4, <1>8, <1>9, IdleFields DEF AllOf, PatientInv
<1>11. Implements
  <2>1. /\ Owed = OwedBy(k) /\ Mapped = DueBy(k)
        /\ Owed' = OwedBy(Idle)' /\ Mapped' = DueBy(Idle)'
    BY <1>2, IdleFields, MappedStep DEF AllOf
  <2>2. Owed' = 0
    BY <2>1, IdleFields DEF OwedBy
  <2>3. CASE Repeats \/ k.pc \notin {"mark", "balance"}
    <3>1. Mapped' = Mapped
      BY <1>3, <2>1, <2>3, IdleFields DEF DueBy, Repeats
    <3>2. O!Forfeit
      BY <1>3, <2>2, <3>1 DEF O!Forfeit, Mapped
    <3> QED BY <3>2 DEF Implements, O!Next
  <2>4. CASE ~ Repeats /\ k.pc \in {"mark", "balance"}
    <3>1. Owed = 0 /\ doc = {k.task} /\ k.task.isCompleted
      BY <2>1, <2>4 DEF AllOf, Relies, OwedBy
    <3>2. Mapped' = {}
      BY <1>3, <2>1, <2>4, <3>1, IdleFields DEF DueBy, Repeats
    <3>3. O!Remove
      BY <1>3, <2>2, <3>1, <3>2 DEF O!Remove, Mapped
    <3> QED BY <3>3 DEF Implements, O!Next
  <2> QED BY <2>3, <2>4
<1> QED
  BY <1>10, <1>11

LEMMA InitPatient == Init => PatientInv /\ O!Init
<1> SUFFICES ASSUME Init PROVE PatientInv /\ O!Init
  OBVIOUS
<1>1. TypeInv
  BY InitTypes
<1>2. PICK date \in Days : doc = {NewTask(date, kind.timed)}
  BY DEF Init
<1>3. /\ ~ NewTask(date, kind.timed).isCompleted /\ NewTask(date, kind.timed).streak = 0
      /\ NewTask(date, kind.timed).prev = Epoch /\ NewTask(date, kind.timed).date = date
      /\ NewTask(date, kind.timed).timed = kind.timed /\ kind.timed \in BOOLEAN
  BY TaskAssumption DEF NewTask, Init
<1>4. UnderWay(Idle)
  BY DEF Init, UnderWay
<1>5. CopiesAgree(Idle) /\ Relies(Idle)
  BY <1>2, IdleFields DEF Init, CopiesAgree, Relies, NoRead
<1>6. SquaresAddUp(Idle)
  <2>1. money = InitMoney /\ squares = 0 /\ awards = 0 /\ money + 0 = InitMoney + 0
    BY DEF Init
  <2>2. \A t \in doc : t.streak = 0
    BY <1>2, <1>3
  <2> QED BY <2>1, <2>2, IdleFields DEF SquaresAddUp
<1>7. PeriodKept(Idle)
  BY <1>2, <1>3, IdleFields DEF Init, PeriodKept
<1>8. PatientInv
  BY <1>4, <1>5, <1>6, <1>7, IdleFields DEF AllOf, PatientInv
<1>9. O!Init
  <2>1. Owed = OwedBy(Idle) /\ Mapped = DueBy(Idle)
    BY <1>1, <1>4, IdleFields, MappedBy DEF MapsBy
  <2>2. Owed = 0
    BY <2>1, IdleFields DEF OwedBy
  <2>3. Mapped = {[streak |-> 0, prev |-> Epoch, date |-> date, timed |-> kind.timed]}
    <3>1. DueBy(Idle) = {Occurrence(NewTask(date, kind.timed))}
      BY <1>2, <1>3 DEF DueBy
    <3>2. Occurrence(NewTask(date, kind.timed))
            = [streak |-> 0, prev |-> Epoch, date |-> date, timed |-> kind.timed]
      BY <1>3, Zenon DEF Occurrence
    <3> QED
      BY <2>1, <3>1, <3>2
  <2>4. kind.timed \in BOOLEAN
    BY <1>3
  <2>5. [streak |-> 0, prev |-> Epoch, date |-> date, timed |-> kind.timed]
          \in [streak : {0}, prev : {Epoch}, date : Days, timed : BOOLEAN]
    BY <2>4, Zenon
  <2>6. \E t \in [streak : {0}, prev : {Epoch}, date : Days, timed : BOOLEAN] : Mapped = {t}
    BY <2>3, <2>5, Zenon
  <2> QED BY <2>2, <2>6 DEF O!Init, Mapped, Init
<1> QED
  BY <1>8, <1>9

LEMMA NextPatient ==
  Patient /\ TypeInv /\ TypeInv' /\ HandInv /\ PatientInv /\ [Next]_vars => PatientInv' /\ Implements
<1> SUFFICES ASSUME Patient, TypeInv, TypeInv', HandInv, PatientInv, [Next]_vars
             PROVE  PatientInv' /\ Implements
  OBVIOUS
<1>1. PICK k \in Calling : AllOf(k)
  BY DEF PatientInv
<1>2. CASE UNCHANGED vars
  <2>1. CopiesAgree(k)'
    BY <1>1, <1>2 DEF vars, AllOf, CopiesAgree, Readers
  <2>2. UNCHANGED <<kind, clock, doc, money, call, history, used>>
    BY <1>2 DEF vars, clock, history
  <2> QED BY <1>1, <2>1, <2>2, ScreenStep
<1>3. CASE Next
  BY <1>1, <1>3, OpenPatient, LeavePatient, AnswerPatient, DeliverPatient, MidnightPatient,
     TapPatient, FadePatient, MarkPatient, AwardPatient, RefusePatient, BalancePatient,
     FetchPatient, RemindPatient, ShowDialogPatient, ClosePatient, DeletePatient,
     CancelDeletedPatient, RestartPatient
     DEF Next, Resume
<1> QED
  BY <1>2, <1>3


LEMMA PatientStays ==
  ASSUME Patient
  PROVE  Spec => [](TypeInv /\ HandInv /\ PatientInv)
<1>1. TypeInv /\ TypeInv' /\ HandInv /\ PatientInv /\ [Next]_vars => PatientInv'
  BY NextPatient
<1> QED
  BY InitTypes, NextTypes, InitHand, NextHand, InitPatient, <1>1, PTL DEF Spec

\* For a user who waits completions, with all their awaits, kills and dialogs that
\* are dismissed, are the indivisible ones of Occurrences.
THEOREM CompletionsAreAtomic ==
  ASSUME Patient
  PROVE  Spec => ImplementsOccurrences
<1>1. TypeInv /\ TypeInv' /\ HandInv /\ PatientInv /\ [Next]_vars => Implements
  BY NextPatient
<1>2. TypeInv /\ TypeInv' /\ HandInv /\ PatientInv /\ [Next]_vars
        => [O!Next]_<<kind.repeat, Mapped, Owed, money>>
  BY <1>1 DEF Implements
<1>3. Spec => O!Init /\ [][O!Next]_<<kind.repeat, Mapped, Owed, money>>
  BY InitPatient, PatientStays, <1>2, PTL DEF Spec
<1> QED
  BY <1>3, PTL DEF ImplementsOccurrences, O!Spec, Mapped

\* For a user who waits, and who loses no reward to a kill or the back button, the
\* account has the squares up to the streak between completions.
THEOREM CoinsStaySquares ==
  ASSUME Patient
  PROVE  Spec => []CoinsAreSquares
<1>1. TypeInv /\ PatientInv => CoinsAreSquares
  <2> SUFFICES ASSUME TypeInv, PatientInv, Repeats, Suspended = {}, used.crashes = 0,
                      used.dismissals = 0, NEW t \in doc
               PROVE  t.streak = awards /\ money = InitMoney + squares
    BY DEF CoinsAreSquares
  <2>1. PICK k \in Calling : AllOf(k)
    BY DEF PatientInv
  <2>2. k.pc = "idle" /\ ~ k.paid
    BY <2>1, IdleFields DEF AllOf, UnderWay, Suspended
  <2>3. t.streak + 0 = awards /\ money + 0 = InitMoney + squares
    BY <2>1, <2>2 DEF AllOf, SquaresAddUp
  <2>4. t.streak \in Nat /\ money \in Int
    BY DEF TypeInv, TypeOK, Tasks
  <2> QED BY <2>3, <2>4
<1> QED
  BY PatientStays, <1>1, PTL

\* A user who waits, in an app that is restarted every day, is rewarded for a
\* completion only if it is in another period than the one judged before.
THEOREM RewardsAreOncePerPeriod ==
  ASSUME Patient
  PROVE  Spec => OneRewardPerPeriod
<1>1. ASSUME TypeInv, PatientInv, [Next]_vars, awards' > awards, Repeats, used.awake = 0
      PROVE  Rewarded(kind.repeat, last, today)
  <2> USE DEF clock, history
  <2>1. awards' # awards
    BY <1>1 DEF TypeInv, TypeOK
  <2>2. PICK c \in Calls : Award(c)
    BY <1>1, <2>1 DEF vars, Next, Resume, Open, Leave, Refresh, Answer, Deliver, Tap, Fade, Mark,
       Refuse, Balance, Fetch, Remind, ShowDialog, PressBack, DismissDialog, Delete,
       CancelDeleted, Midnight, Restart
  <2>3. PICK k \in Calling : AllOf(k)
    BY <1>1 DEF PatientInv
  <2>4. call[c] = k /\ k.pc = "mark"
    BY <1>1, <2>2, <2>3, UnderWayOne DEF AllOf, Award
  <2>5. k.task.prev = last /\ now.day = today
    BY <1>1, <2>3, <2>4 DEF AllOf, PeriodKept
  <2>6. Rewarded(kind.repeat, k.task.prev, now.day)
    BY <2>2, <2>4 DEF Award
  <2> QED BY <2>5, <2>6
<1>2. TypeInv /\ PatientInv /\ [Next]_vars
        => [awards' > awards /\ Repeats /\ used.awake = 0 => Rewarded(kind.repeat, last, today)]_vars
  BY <1>1
<1> QED
  BY PatientStays, <1>2, PTL DEF OneRewardPerPeriod, Spec
=============================================================================
