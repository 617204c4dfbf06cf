--------------------------- MODULE TaskCompletion ---------------------------
(***************************************************************************)
(* The completion and deletion of one task (screens/Tasks): the list or    *)
(* calendar that shows a copy of it, processCompletion suspended at each   *)
(* of its awaits, the reward dialog, the reminder, kills of the app, and a *)
(* clock that the app reads only once.  A write takes effect where it is   *)
(* called, a read where it is answered; the answer is delivered later.     *)
(***************************************************************************)
EXTENDS Integers, Sequences, FiniteSets, Sums

CONSTANTS
  Calls,                 \* invocations of ifEventCompleted and _onDelete
  Kinds,                 \* the repetition of the task, has it a time, a reminder, and
                         \*   is the date it is created with timed, as Repeat has it
  ShowCompleted,         \* the lists show completed tasks
  Screens,               \* the screens in use: "list", "calendar"
  Hasty,                 \* the user does not wait for suspended functions
  NextDate(_, _, _, _),  \* findNextTime, of the repetition, the date, whether that is
                         \*   timed, and today
  Rewarded(_, _, _),     \* giveMoney, of the repetition, the previous completion
                         \*   and today
  FirstDay,              \* the day it begins
  LastDay,               \* bound: the last day, and the last date completed
  Epoch,                 \* 1970, the previous completion of a new task
  InitMoney,             \* the balance of the account
  MaxTaps,               \* bound: completions begun
  MaxAwake,              \* bound: midnights that the app is awake at
  MaxDismissals,         \* bound: dialogs closed by the device's back button
  MaxCrashes             \* bound: kills while a function is suspended

Days == FirstDay .. LastDay

ASSUME TaskAssumption ==
  /\ Screens \subseteq {"list", "calendar"}
  /\ Kinds \subseteq [repeat : STRING, timed : BOOLEAN, hasTime : BOOLEAN,
                     hasReminder : BOOLEAN]
  /\ \A k \in Kinds : k.hasReminder => k.hasTime
  /\ ShowCompleted \in BOOLEAN
  /\ Hasty \in BOOLEAN
  /\ InitMoney \in Int
  /\ IsFiniteSet(Calls)

ASSUME DatesAssumption ==
  /\ FirstDay \in Nat
  /\ LastDay \in Nat
  /\ FirstDay <= LastDay
  /\ Epoch \in 0 .. FirstDay - 1
  /\ \A k \in Kinds : \A date, day \in Days, timed \in BOOLEAN :
       k.repeat # "never" =>
         /\ NextDate(k.repeat, date, timed, day) \in Nat
         /\ NextDate(k.repeat, date, timed, day) >= day
         /\ NextDate(k.repeat, date, timed, day) > date
  /\ \A k \in Kinds : \A previous \in Days \union {Epoch}, day \in Days :
       /\ Rewarded(k.repeat, previous, day) \in BOOLEAN
       /\ k.repeat = "never" => Rewarded(k.repeat, previous, day)

ASSUME BoundsAssumption ==
  /\ MaxTaps \in Nat
  /\ MaxAwake \in Nat
  /\ MaxDismissals \in Nat
  /\ MaxCrashes \in Nat

VARIABLES
  kind,       \* the task's fields repeat, hasTime, reminder, which stay as they are
  today,      \* the day
  now,        \* now: its day, and whether the task's time of day was still to come
  doc,        \* the task's document: empty once it is deleted
  reminder,   \* the date for which a notification is scheduled, if any
  money,      \* field "money" of the user's document
  homeMoney,  \* _HomeScreenState.fishMoney
  screen,     \* the screen that is shown
  shown,      \* the copy of the task in its list, if any
  read,       \* read[r]: the getEventList of r, and its answer
  call,       \* call[c]: the state of the invocation c
  dialogs,    \* the dialogs shown, each by its invocation, the top one first
  awards,     \* history: how many completions giveMoney found worth a reward
  squares,    \* history: 1 + 4 + ... + awards * awards
  last,       \* history: the day on which giveMoney was last asked
  used        \* how much of each bound is used up

clock == <<today, now>>
history == <<awards, squares, last>>
vars == <<kind, today, now, doc, reminder, money, homeMoney, screen, shown, read, call,
          dialogs, awards, squares, last, used>>

Repeats == kind.repeat # "never"

Tasks == [isCompleted : BOOLEAN, streak : Nat, prev : Days \union {Epoch}, date : Nat,
          timed : BOOLEAN]

\* Lists are read for the screen, and for each invocation when it is done.
Readers == Calls \union {"screen"}

NoRead == [state |-> "idle", list |-> {}]

\* The task that a user creates, for the given date.
NewTask(date, timed) ==
  [isCompleted |-> FALSE, streak |-> 0, prev |-> Epoch, date |-> date, timed |-> timed]

Idle == [pc    |-> "idle",
         task  |-> NewTask(FirstDay, FALSE),   \* the copy that was tapped
         from  |-> "list",              \* the screen it was tapped on,
         here  |-> TRUE,                \*   which is still there
         paid  |-> FALSE,               \* giveMoney
         balance |-> 0,                 \* currMoney
         event |-> {}]                  \* the answer of getSingle

Pcs == {"idle", "fade", "cancel", "mark", "balance", "write", "event", "remind",
        "dialog", "delete"}

TypeOK ==
  /\ kind \in Kinds
  /\ today \in Days
  /\ now \in [day : Days, early : BOOLEAN]
  /\ doc \subseteq Tasks
  /\ reminder \subseteq Nat
  /\ money \in Int
  /\ homeMoney \in Int
  /\ screen \in Screens \union {"none"}
  /\ shown \subseteq Tasks
  /\ read \in [Readers -> [state : {"idle", "asked", "answered"}, list : SUBSET Tasks]]
  /\ call \in [Calls -> [pc : Pcs, task : Tasks, from : Screens \union {"list"},
                         here : BOOLEAN, paid : BOOLEAN, balance : Int,
                         event : SUBSET Tasks]]
  /\ dialogs \in Seq(Calls)
  /\ awards \in Nat
  /\ squares \in Nat
  /\ last \in Days \union {Epoch}
  /\ used \in [taps : 0 .. MaxTaps, awake : 0 .. MaxAwake,
               dismissals : 0 .. MaxDismissals, crashes : 0 .. MaxCrashes]

\* isScheduledEvent: the reminder for that date is ahead of the app's now.
Ahead(date) ==
  kind.hasReminder /\ (date > now.day \/ (date = now.day /\ now.early))

Suspended == {c \in Calls : call[c].pc # "idle"}

\* Nothing is under way that the user could wait for.
Quiet == Suspended = {} /\ \A r \in Readers : read[r].state = "idle"

Init ==
  /\ kind \in Kinds
  /\ today = FirstDay
  /\ now \in [day : {FirstDay}, early : IF kind.hasReminder THEN BOOLEAN ELSE {FALSE}]
  /\ \E date \in Days :
       /\ doc = {NewTask(date, kind.timed)}
       /\ reminder = IF Ahead(date) THEN {date} ELSE {}
  /\ money = InitMoney
  /\ homeMoney = InitMoney
  /\ screen = "none"
  /\ shown = {}
  /\ read = [r \in Readers |-> NoRead]
  /\ call = [c \in Calls |-> Idle]
  /\ dialogs = <<>>
  /\ awards = 0
  /\ squares = 0
  /\ last = Epoch
  /\ used = [taps |-> 0, awake |-> 0, dismissals |-> 0, crashes |-> 0]

-----------------------------------------------------------------------------
(* The screens and their lists. *)

Open ==
  /\ screen = "none"
  /\ Hasty \/ Quiet
  /\ dialogs = <<>>
  /\ screen' \in Screens
  /\ read' = [read EXCEPT !["screen"] = [state |-> "asked", list |-> {}]]
  /\ UNCHANGED <<kind, clock, doc, reminder, money, homeMoney, shown, call, dialogs, history, used>>

\* The State is disposed of: what it read is dropped, and a suspended invocation
\* has a context that is no longer mounted.
Leave ==
  /\ screen # "none"
  /\ Hasty \/ Quiet
  /\ dialogs = <<>>
  /\ screen' = "none"
  /\ shown' = {}
  /\ read' = [r \in Readers |-> NoRead]
  /\ call' = [c \in Calls |-> IF call[c] = Idle THEN Idle ELSE [call[c] EXCEPT !.here = FALSE]]
  /\ UNCHANGED <<kind, clock, doc, reminder, money, homeMoney, dialogs, history, used>>

\* The calendar reads the tasks again whenever it is built, a list when the user
\* comes back from the details of a task.
Refresh ==
  /\ \/ screen = "calendar"
     \/ screen = "list" /\ dialogs = <<>> /\ (Hasty \/ Quiet)
  /\ read["screen"].state = "idle"
  /\ read' = [read EXCEPT !["screen"] = [state |-> "asked", list |-> {}]]
  /\ UNCHANGED <<kind, clock, doc, reminder, money, homeMoney, screen, shown, call, dialogs,
                 history, used>>

\* The query of getEventList.
Answer(r) ==
  /\ read[r].state = "asked"
  /\ read' = [read EXCEPT ![r] =
       [state |-> "answered", list |-> {t \in doc : ShowCompleted \/ ~ t.isCompleted}]]
  /\ UNCHANGED <<kind, clock, doc, reminder, money, homeMoney, screen, shown, call, dialogs,
                 history, used>>

Deliver(r) ==
  /\ read[r].state = "answered"
  /\ shown' = read[r].list
  /\ read' = [read EXCEPT ![r] = NoRead]
  /\ UNCHANGED <<kind, clock, doc, reminder, money, homeMoney, screen, call, dialogs,
                 history, used>>

-----------------------------------------------------------------------------
(* Completion. *)

\* processCompletion up to its first await: removeNotification.
Cancelled(task) == reminder' = IF Ahead(task.date) THEN {} ELSE reminder

\* ifEventCompleted: the cached copy is marked.  A list that hides completed tasks
\* lets one that is not repeated fade away first.
Tap(c) ==
  /\ call[c] = Idle /\ read[c] = NoRead
  /\ screen # "none"
  /\ dialogs = <<>>
  /\ Hasty \/ Quiet
  /\ used.taps < MaxTaps
  /\ \E task \in shown :
       LET tapped == [task EXCEPT !.isCompleted = TRUE]
           fades  == screen = "list" /\ ~ ShowCompleted /\ ~ Repeats
       IN  /\ ~ task.isCompleted
           /\ task.date \in Days
           /\ shown' = {tapped}
           /\ call' = [call EXCEPT ![c] =
                [Idle EXCEPT !.pc = IF fades THEN "fade" ELSE "cancel",
                             !.task = tapped, !.from = screen]]
           /\ IF fades THEN UNCHANGED reminder ELSE Cancelled(tapped)
  /\ used' = [used EXCEPT !.taps = @ + 1]
  /\ UNCHANGED <<kind, clock, doc, money, homeMoney, screen, read, dialogs, history>>

\* After 400 ms; setState throws when the list was left.
Fade(c) ==
  /\ call[c].pc = "fade"
  /\ IF call[c].here
       THEN /\ shown' = shown \ {call[c].task}
            /\ call' = [call EXCEPT ![c].pc = "cancel"]
            /\ Cancelled(call[c].task)
       ELSE /\ call' = [call EXCEPT ![c] = Idle]
            /\ UNCHANGED <<shown, reminder>>
  /\ UNCHANGED <<kind, clock, doc, money, homeMoney, screen, read, dialogs, history, used>>

\* An update of the document throws when it is deleted.
Mark(c) ==
  /\ call[c].pc = "cancel"
  /\ doc' = {[t EXCEPT !.isCompleted = TRUE] : t \in doc}
  /\ call' = [call EXCEPT ![c] = IF doc = {} THEN Idle ELSE [@ EXCEPT !.pc = "mark"]]
  /\ UNCHANGED <<kind, clock, reminder, money, homeMoney, screen, shown, read, dialogs,
                 history, used>>

\* Mutants: isCompleted is not reset; prevCompletionTime is not updated.
RescheduleMutantOpen(c, streak, next) ==
  LET task == call[c].task
  IN  /\ doc' = {[isCompleted |-> t.isCompleted, streak |-> streak, prev |-> now.day,
                  date |-> NextDate(kind.repeat, task.date, task.timed, now.day),
                  timed |-> FALSE] : t \in doc}
      /\ call' = [call EXCEPT ![c] = IF doc = {} THEN Idle ELSE next]

RescheduleMutantPrev(c, streak, next) ==
  LET task == call[c].task
  IN  /\ doc' = {[isCompleted |-> FALSE, streak |-> streak, prev |-> t.prev,
                  date |-> NextDate(kind.repeat, task.date, task.timed, now.day),
                  timed |-> FALSE] : t \in doc}
      /\ call' = [call EXCEPT ![c] = IF doc = {} THEN Idle ELSE next]

\* The update that reschedules a repeated task, with the values of the tapped copy (the
\* date is stored as a midnight); next is the state of the invocation when it is done.
Reschedule(c, streak, next) ==
  LET task == call[c].task
  IN  /\ doc' = {[isCompleted |-> FALSE, streak |-> streak, prev |-> now.day,
                  date |-> NextDate(kind.repeat, task.date, task.timed, now.day),
                  timed |-> FALSE] : t \in doc}
      /\ call' = [call EXCEPT ![c] = IF doc = {} THEN Idle ELSE next]

\* giveMoney finds a reward: getMoney is called.
Award(c) ==
  /\ call[c].pc = "mark"
  /\ Rewarded(kind.repeat, call[c].task.prev, now.day)
  /\ call' = [call EXCEPT ![c].pc = "balance", ![c].paid = TRUE]
  /\ awards' = awards + 1
  /\ squares' = squares + (awards + 1) * (awards + 1)
  /\ last' = today
  /\ UNCHANGED <<kind, clock, doc, reminder, money, homeMoney, screen, shown, read, dialogs, used>>

\* Mutant: the streak advances without a reward.
RefuseMutant(c) ==
  /\ call[c].pc = "mark"
  /\ ~ Rewarded(kind.repeat, call[c].task.prev, now.day)
  /\ Reschedule(c, call[c].task.streak + 1, [call[c] EXCEPT !.pc = "write"])
  /\ last' = today
  /\ UNCHANGED <<kind, clock, reminder, money, homeMoney, screen, shown, read, dialogs, awards,
                 squares, used>>

\* It finds none, which happens to repeated tasks only.
Refuse(c) ==
  /\ call[c].pc = "mark"
  /\ ~ Rewarded(kind.repeat, call[c].task.prev, now.day)
  /\ Reschedule(c, call[c].task.streak, [call[c] EXCEPT !.pc = "write"])
  /\ last' = today
  /\ UNCHANGED <<kind, clock, reminder, money, homeMoney, screen, shown, read, dialogs, awards,
                 squares, used>>

\* Mutant: the streak does not advance.
BalanceMutant(c) ==
  LET answered == [call[c] EXCEPT !.balance = money, !.pc = "write"]
  IN  /\ call[c].pc = "balance"
      /\ IF Repeats
           THEN Reschedule(c, call[c].task.streak, answered)
           ELSE call' = [call EXCEPT ![c] = answered] /\ UNCHANGED doc
      /\ UNCHANGED <<kind, clock, reminder, money, homeMoney, screen, shown, read, dialogs,
                     history, used>>

Balance(c) ==
  LET answered == [call[c] EXCEPT !.balance = money, !.pc = "write"]
  IN  /\ call[c].pc = "balance"
      /\ IF Repeats
           THEN Reschedule(c, call[c].task.streak + 1, answered)
           ELSE call' = [call EXCEPT ![c] = answered] /\ UNCHANGED doc
      /\ UNCHANGED <<kind, clock, reminder, money, homeMoney, screen, shown, read, dialogs,
                     history, used>>

\* getSingle, of a rescheduled task with a time; there is none once it is deleted.
Fetch(c) ==
  /\ call[c].pc = "write"
  /\ Repeats /\ kind.hasTime
  /\ call' = [call EXCEPT ![c] =
       IF doc = {} THEN Idle ELSE [@ EXCEPT !.pc = "event", !.event = doc]]
  /\ UNCHANGED <<kind, clock, doc, reminder, money, homeMoney, screen, shown, read, dialogs,
                 history, used>>

\* Mutant: the notification is for the tapped copy.
RemindMutant(c) ==
  /\ call[c].pc = "event"
  /\ reminder' = IF Ahead(call[c].task.date) THEN {call[c].task.date} ELSE reminder
  /\ call' = [call EXCEPT ![c].pc = "remind"]
  /\ UNCHANGED <<kind, clock, doc, money, homeMoney, screen, shown, read, dialogs, history, used>>

\* addNotification replaces the notification of the task, whose id is its hash.
Remind(c) ==
  /\ call[c].pc = "event"
  /\ reminder' = IF \E t \in call[c].event : Ahead(t.date)
                   THEN {t.date : t \in call[c].event} ELSE reminder
  /\ call' = [call EXCEPT ![c].pc = "remind"]
  /\ UNCHANGED <<kind, clock, doc, money, homeMoney, screen, shown, read, dialogs, history, used>>

\* The dialog, and then updateTaskDetails of a list; they need the context.
ShowDialog(c) ==
  /\ \/ call[c].pc = "remind"
     \/ call[c].pc = "write" /\ ~ (Repeats /\ kind.hasTime)
  /\ IF call[c].here
       THEN /\ dialogs' = <<c>> \o dialogs
            /\ call' = [call EXCEPT ![c].pc = "dialog"]
            /\ read' = IF call[c].from = "list"
                         THEN [read EXCEPT ![c] = [state |-> "asked", list |-> {}]]
                         ELSE read
       ELSE /\ call' = [call EXCEPT ![c] = Idle]
            /\ UNCHANGED <<dialogs, read>>
  /\ UNCHANGED <<kind, clock, doc, reminder, money, homeMoney, screen, shown, history, used>>

\* Mutant: the streak that the dialog shows is one ahead already.
RewardMutant(task) == IF Repeats THEN (task.streak + 2) * (task.streak + 2) ELSE 5

Reward(task) == IF Repeats THEN (task.streak + 1) * (task.streak + 1) ELSE 5

\* Mutant: the home screen is sent the reward only.
PressBackMutant ==
  /\ dialogs # <<>>
  /\ LET c == Head(dialogs)
     IN  /\ IF call[c].paid
              THEN /\ money' = money + Reward(call[c].task)
                   /\ homeMoney' = Reward(call[c].task)
              ELSE UNCHANGED <<money, homeMoney>>
         /\ call' = [call EXCEPT ![c] = Idle]
  /\ dialogs' = Tail(dialogs)
  /\ UNCHANGED <<kind, clock, doc, reminder, screen, shown, read, history, used>>

\* The Back button of the top dialog.
PressBack ==
  /\ dialogs # <<>>
  /\ LET c == Head(dialogs)
     IN  /\ IF call[c].paid
              THEN /\ money' = money + Reward(call[c].task)
                   /\ homeMoney' = call[c].balance + Reward(call[c].task)
              ELSE UNCHANGED <<money, homeMoney>>
         /\ call' = [call EXCEPT ![c] = Idle]
  /\ dialogs' = Tail(dialogs)
  /\ UNCHANGED <<kind, clock, doc, reminder, screen, shown, read, history, used>>

\* The back button of an Android device.
DismissDialog ==
  /\ dialogs # <<>>
  /\ used.dismissals < MaxDismissals
  /\ call' = [call EXCEPT ![Head(dialogs)] = Idle]
  /\ dialogs' = Tail(dialogs)
  /\ used' = [used EXCEPT !.dismissals = @ + 1]
  /\ UNCHANGED <<kind, clock, doc, reminder, money, homeMoney, screen, shown, read, history>>

-----------------------------------------------------------------------------
(* Deletion. *)

\* _onDelete: the calendar, built again, shows its cached task until it is read.
Delete(c) ==
  /\ call[c] = Idle /\ read[c] = NoRead
  /\ screen # "none"
  /\ dialogs = <<>>
  /\ Hasty \/ Quiet
  /\ \E task \in shown :
       call' = [call EXCEPT ![c] =
                  [Idle EXCEPT !.pc = "delete", !.task = task, !.from = screen]]
  /\ shown' = IF screen = "list" THEN {} ELSE shown
  /\ doc' = {}
  /\ UNCHANGED <<kind, clock, reminder, money, homeMoney, screen, read, dialogs, history, used>>

CancelDeleted(c) ==
  /\ call[c].pc = "delete"
  /\ Cancelled(call[c].task)
  /\ call' = [call EXCEPT ![c] = Idle]
  /\ UNCHANGED <<kind, clock, doc, money, homeMoney, screen, shown, read, dialogs, history, used>>

-----------------------------------------------------------------------------
(* The clock and the app. *)

Midnight ==
  /\ today < LastDay
  /\ used.awake < MaxAwake
  /\ today' = today + 1
  /\ used' = [used EXCEPT !.awake = @ + 1]
  /\ UNCHANGED <<kind, now, doc, reminder, money, homeMoney, screen, shown, read, call, dialogs,
                 history>>

\* The app ends, is started again later and reads the clock and the balance.
Restart ==
  /\ IF Suspended = {} THEN UNCHANGED used
       ELSE used.crashes < MaxCrashes /\ used' = [used EXCEPT !.crashes = @ + 1]
  /\ today' \in today .. LastDay
  /\ now' \in [day : {today'}, early : IF kind.hasReminder THEN BOOLEAN ELSE {FALSE}]
  /\ today' = now.day /\ now'.early => now.early
  /\ homeMoney' = money
  /\ screen' = "none"
  /\ shown' = {}
  /\ read' = [r \in Readers |-> NoRead]
  /\ call' = [c \in Calls |-> Idle]
  /\ dialogs' = <<>>
  /\ UNCHANGED <<kind, doc, reminder, money, history>>

-----------------------------------------------------------------------------

\* The continuations of a suspended invocation, which need no user.
Resume(c) ==
  \/ Fade(c) \/ Mark(c) \/ Award(c) \/ Refuse(c) \/ Balance(c) \/ Fetch(c) \/ Remind(c)
  \/ ShowDialog(c) \/ CancelDeleted(c)

Next ==
  \/ Open \/ Leave \/ Refresh
  \/ \E r \in Readers : Answer(r) \/ Deliver(r)
  \/ \E c \in Calls : Tap(c) \/ Resume(c) \/ Delete(c)
  \/ PressBack \/ DismissDialog \/ Midnight \/ Restart

Spec == Init /\ [][Next]_vars

\* An await completes once the network and the device answer; nothing obliges the
\* user, or a crash, to act.
FairSpec == Spec /\ \A c \in Calls : WF_vars(Resume(c))

-----------------------------------------------------------------------------
(* Properties. *)

\* Every step of the streak was a completion that giveMoney found worth a reward:
\* no stale copy of the task, double tap or kill between two updates raises it.
StreakIsEarned == \A t \in doc : t.streak <= awards

\* The coins paid never exceed the squares that as many completions in a row earn,
\* however stale the streak that a dialog pays for, and however often the task is
\* tapped: rewards are lost by this program, never invented.
CoinsAreBounded == Repeats => money <= InitMoney + squares

\* processCompletion marks a repeated task completed first and reschedules it some
\* awaits later.  Unless the app was killed a completed one is always about to be
\* rescheduled, so it does not drop out of the lists for good.
CompletedIsInHand ==
  Repeats /\ used.crashes = 0 /\ (\E t \in doc : t.isCompleted)
    => \E c \in Calls : call[c].pc \in {"mark", "balance"}

\* task_utils:120: "two completion within a day/week/month so no reward", for an
\* app that is restarted every day.
OneRewardPerPeriod ==
  [][awards' > awards /\ Repeats /\ used.awake = 0
       => Rewarded(kind.repeat, last, today)]_vars

\* task_utils:39: no reward is a completion "within the same repeated duration as
\* the previous task".  The days are those of the world, not those of the app's now.
RefusedOnlyInPeriod ==
  [][\A c \in Calls : Refuse(c) => ~ Rewarded(kind.repeat, last, today)]_vars

\* Between completions the streak of the task counts the rewards, and the account
\* has received the squares up to it, for a user who waits for each completion and
\* loses none to a kill or the device's back button.
CoinsAreSquares ==
  Repeats /\ Suspended = {} /\ used.crashes = 0 /\ used.dismissals = 0 =>
    \A t \in doc : t.streak = awards /\ money = InitMoney + squares

\* For a user who waits the home screen shows the balance, although the dialog sets
\* it to a sum that was read several awaits earlier.
HomeInStep == homeMoney = money

\* Between completions that were not killed an open repeated task whose reminder is
\* ahead has its notification, and it is the one for the task's current date.
OpenTaskRings ==
  Suspended = {} /\ used.crashes = 0 =>
    \A t \in doc : Repeats /\ ~ t.isCompleted /\ Ahead(t.date) => reminder = {t.date}

\* For a user who waits, completions, with all their awaits, kills of the app and
\* dialogs that are dismissed, are what Occurrences says.
Owed ==
  Total([c \in Calls |->
    IF call[c].paid /\ call[c].pc # "balance" THEN Reward(call[c].task) ELSE 0])

\* A task that is not repeated is there until its completion is judged.
Due ==
  {t \in doc : \/ Repeats \/ ~ t.isCompleted
               \/ \E c \in Calls : call[c].pc \in {"mark", "balance"}}

O == INSTANCE Occurrences WITH
       repeat <- kind.repeat,
       task <- {[streak |-> t.streak, prev |-> t.prev, date |-> t.date,
                 timed |-> t.timed] : t \in Due},
       owed <- Owed,
       InitTasks <- [streak : {0}, prev : {Epoch}, date : Days, timed : BOOLEAN]

ImplementsOccurrences == O!Spec

\* A repeated task that is marked completed is eventually open again.
ComesBack ==
  (Repeats /\ \E t \in doc : t.isCompleted) ~> (\A t \in doc : ~ t.isCompleted)

\* The same, as long as the app is not killed.
ComesBackUnlessKilled ==
  (Repeats /\ \E t \in doc : t.isCompleted)
    ~> (used.crashes > 0 \/ \A t \in doc : ~ t.isCompleted)
=============================================================================
