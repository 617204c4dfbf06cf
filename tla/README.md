# AquaFocus in TLA+

AquaFocus is a Flutter app over Firebase: a focus timer, a to-do list with repeated
tasks, tags and reminders, statistics, and an aquarium whose creatures are bought with
the coins that focus and tasks earn. These modules model the parts of it that keep
state, TLC checks them on small instances, and TLAPS proves the main results for every
instance. All paths below are under `src/lib/` unless they say otherwise. Of the
repository only these 9000 lines of Dart are the program's own; `ios/Pods` (some 900 000
lines of vendored C and C++), `android`, the Firebase configuration and the assets are
vendored, generated or data, and none of them is modelled.

## 1. The system

Everything durable is in Firestore: one document per user (`money`, `marlives`, three
switches, the name), and under it the collections `tasks`, `Tags` and `FocusTime`
(one document per day). The screens hold copies of it in their widget states. There is
one Dart thread; an `async` function is suspended at every `await`, and meanwhile
taps, timers and other suspended functions run. The same account may be open on
several devices, and a device may kill the app at any moment.

| component | state | operations | interacts with |
|---|---|---|---|
| Shop (`screens/UserPages/Shop`) | cached balance and creatures per `_ShopScreenState`, `isBought` per details page, dialogs | open, load, `_purchase`, `_update`, dialog buttons | document (`money`, `marlives`), home screen |
| Focus timer (`screens/FocusTimer`) | tab, `hvStarted`, `duration`, `initialDur`, timer, dialog, cached balance | sliders, start, tick, cancel, resume, done, congratulations | document (`money`), focus record, home screen |
| Home screen (`home_screen.dart`) | cached balance, name | `_updateHomeScreen`, load | called back by shop, timer and tasks |
| Focus record (`saveFocusTime` and its readers) | `totalTime`, `Hours` per day | save a session, read a day | statistics |
| Task completion (`task_utils.dart`) | task: date, time, streak, previous completion, `isCompleted` | `processCompletion`, reward dialog | task collection, document, home screen, reminders |
| Repetition (`giveMoney`, `findNextTime`) | none: functions of the task and the global `now` | | task completion |
| Task lists, calendar | cached event lists, index of a task | complete, delete, refresh | task completion, reminders |
| Task editing (`add_task`, `task_details`) | form | create, edit, delete | task collection, reminders |
| Tags (`tag_list`, `addTags`, `removeTag`) | rows of tags and of tagged tasks, selected tag | create, select, remove by dragging, refresh | `Tags`, task collection, completion, form |
| Reminders (`notification_services`) | scheduled notifications by task hash | schedule, cancel | tasks, settings |
| Session (`main`, `firebase_services`, sign-in, sign-up) | global `user`, two subscriptions, `initScreen`, path captured by `taskDBS` | sign in by three means, sign up and out, delete account, clear records | everything |
| Settings | three switches | toggle | document, reminders |
| Aquarium, statistics, onboarding | what they read | none that writes | |

What is hard in it, and what correctness means for each part:

- *Shop.* The balance is checked before an await and charged after it, the charge and
  the creature are two writes, `addMarLives` is a read followed by a write of the whole
  list, `isBought` is as old as the page, and a purchase may outlive its pages.
  Correct: never pay more than one has; own what one paid for and nothing else; the
  balances on the screens are the one in the database.
- *Focus timer.* Paying is done by building a dialog, stopping by its button, and the
  back button of Android separates the two. Correct: a second of focus is paid once;
  a started timer can always be stopped; a countdown ends.
- *Focus record.* A save is a read of the hours, a split, another read that chooses
  between set and increment, and a write, and nobody awaits it. Correct: what is recorded
  for a day is what was paid for its sessions, and no hour has more than the sessions that
  were saved span in it.
- *Task completion.* Four awaits in a row with a crash, a deletion or a second
  completion between any two; the reward depends on a dialog being answered. Correct:
  one completion of an occurrence gives one reward, one step of the streak and one
  next occurrence.
- *Repetition.* Dates over ends of months and years, and a clock read once. Correct:
  the next date is the first of the right kind after today and the task's date.
- *Reminders.* Every handler that changes a task cancels and schedules around awaits, and
  only what is later than a clock read once. Correct: exactly the open tasks with a
  reminder ahead have a notification, for the date they have now.
- *Tags.* Rows are known by index while 400 ms pass or a query is out; the page, its
  selection and a running loop may share one list. Correct: the page shows what the
  database has; only what was tapped is completed; no task keeps a tag that is gone.
- *Session.* Firebase's user changes at once and the app's global `user` later, when one of
  two subscriptions delivers; meanwhile screens are built and documents written for
  either. Correct: nobody reads, resets or deletes what is another's, and whoever is
  signed in reaches a home screen that works.

`PROJECT.json` lists these hazards with the lines where they bite.

## 2. The modules

| module | models | extends |
|---|---|---|
| `Shop` | the shop, the user's document, the home screen's balance | `Sums` |
| `Wallet` | abstract: a purchase as one step | |
| `FocusTimer` | both timers | |
| `FocusRecord` | `saveFocusTime`, several at a time, and the documents of the days | |
| `TaskCompletion` | one task: lists, completion, dialogs, reminder, deletion | `Sums` |
| `Occurrences` | abstract: a completion as one step | |
| `Repeat` | `giveMoney` and `findNextTime` over a calendar | |
| `RepeatDays` | a task completed on various days | `Repeat` |
| `Reminders` | notifications against tasks: form, completion, deletions, settings, restarts | |
| `TagList` | the page of tagged tasks, tags and their removal | `Ranks` |
| `Session` | accounts, the app's user, the screens that depend on it, `taskDBS` | |
| `Sums` | the sum of a function over a finite set | |
| `Ranks` | the members of a finite set of numbers, in order | |
| `DataTheorems` | the laws of sums, of ranks and of the calendar, without any state | `Sums`, `Ranks`, `Repeat`, `TLAPS` |
| `ShopProofs`, `FocusTimerProofs`, `FocusRecordProofs`, `TaskProofs`, `RemindersProofs`, `SessionProofs` | theorems | the module, `TLAPS` |
| `ListProofs` | theorems | `TagList`, `RepeatDays`, `DataTheorems` |
| `MCShop`, `MCFocusTimer`, `MCFocusRecord`, `MCTaskCompletion`, `MCRepeatDays`, `MCReminders`, `MCTagList`, `MCSession` | instances for TLC | the module |

The components meet in the documents of the store. Each module has the whole of its own
component and a few outside actions for the others: `Earn` in `Shop`, `OtherChange` in
`FocusTimer`, sessions in outline in `FocusRecord`, completions without rewards in
`Reminders` and `TagList`.

### Shop

A device has a stack of pages (`page[d]`), with `dialogs[d]` purchase dialogs on top. An
instance of `_ShopScreenState` is an element of `Shops`; it stays in use while it is
shown or while a suspended `_purchase` holds its `_update`, and is reset when it is
not. An invocation of `_purchase` is an element of `Calls`, and its `pc` names the
await it is suspended at:

| action | code |
|---|---|
| `Buy` | `_purchase` up to the await of `hasEnoughMoney` |
| `Answer` | the read in `hasEnoughMoney` takes effect |
| `Charge` | the true branch: `_update`, `addMoney(-price)`, `addMarLives` up to its await, the dialog |
| `ChargeAfterLeaving` | the same when the shop was popped: in a release build `setState` runs the body of `_update`, which changes the copies and calls the home screen, and then throws, so nothing is charged |
| `Refuse` | the false branch |
| `ReadLives`, `WriteLives` | the read and the write of `addMarLives` |
| `PressOk` | both `pop`s of the Ok button: with one dialog on the page the second one pops the page |
| `DismissDialog` | a touch outside the dialog, or the back button |

A write takes effect, durably, where it is called: Firestore applies it to its
persistent local cache at once and sends it later. A read takes effect when it is
answered. `InitMoney` stands for an account that has earned something (a new one has
nothing to spend), `Earn` for the timers and tasks.

### FocusTimer

`page` is the home screen or the tab that is shown; a tab's `State` is new whenever it
is shown, as `Fresh` says. `hvStarted` is kept by the tab's widget and by the page, and
both are always set together, so it is one variable. `CompleteTask` is the builder of
the congratulations, which pays. `DismissDialog` is the back button of Android,
which `barrierDismissible: false` does not stop; `MaxDismissals = 0` is a device
without one. `saved` counts the seconds given to `saveFocusTime`, and `ticks` the
seconds the timer ran, both per tab. The read of the balance when a tab is shown is in
three stages (`read`): asked, answered by the database (`AnswerMoney`), and continued
(`Load`), for the count-up tab does not wait for it and may pay in between; `overtaken`
is what it paid so, which the older answer does not have. The wall clock (`startTime`, `endTime`) matters to
the focus record only and is left to `FocusRecord`.

### FocusRecord

Both timers call `saveFocusTime` without awaiting it. An element of `Calls` is an
invocation; its `pc` names what it waits for.

| action | code |
|---|---|
| `Begin` | `startTimer`, of a new session or of one that goes on |
| `Done`, `AtZero` | the congratulations of the count-up and of the countdown (`Congratulate`): payment, and `saveFocusTime` up to the await of `getHoursList` |
| `Dismiss` | Android's back button: the session is not stopped, and Done saves it again from the same `startTime` |
| `Stop` | `stopTimer`, by the button of a dialog; or the tab is left |
| `AnswerHours` | the read of the day's `Hours` takes effect |
| `SplitHours` | the session is split over hours, or added to the list that was read |
| `AnswerExists` | the second read takes effect |
| `Write` | `set` or `update`, as that read said |
| `AnswerClear`, `Clear` | the last part of `clearRecord`: what a query found is deleted |
| `Advance`, `Kill` | the clock; a kill forgets the session and every suspended function |

The clock counts seconds through days of `HoursOfDay` hours. A countdown ends when it was
due and is noticed later, a count-up session ends now (`endTime`). `Seconds`
keeps the slip of the code that an hour counts like a minute. `paid` (the coins of
sessions finished on a day) and `spanned` (the seconds from `startTime` to `endTime` that each
save was given, in each hour: again for each time that congratulations were built again)
are histories to compare the documents with; `disturbed` says that a save met another
one, a kill or a clearing, `acrossDay` that a session was split on another day than it
began or ended.

### TaskCompletion

One task, its document `doc` (empty once it is deleted) and the copy that a list or the
calendar shows. An element of `Calls` is an invocation of `ifEventCompleted` or
`_onDelete`; its `pc` names the await it is suspended at, and it keeps the copy that was
tapped, so it may judge and pay for an occurrence that is no longer the current one.

| action | code |
|---|---|
| `Open`, `Leave`, `Refresh` | a list or the calendar is shown, left, and asks `getEventList` |
| `Answer`, `Deliver` | the query takes effect; its answer replaces the list, later |
| `Tap` | `ifEventCompleted` up to the first await: the copy is marked, and `removeNotification` is called unless the task fades away first |
| `Fade` | after 400 ms; `setState` throws on a list that was left |
| `Mark` | the update of `isCompleted`; it throws when the document is gone |
| `Award`, `Refuse` | `giveMoney`; the first calls `getMoney`, the second reschedules |
| `Balance` | the answer of `getMoney`, and `Reschedule`: streak, `prevCompletionTime`, next date, `isCompleted = false` |
| `Fetch`, `Remind` | `getSingle`, `addNotification` |
| `ShowDialog` | the dialog, then `updateTaskDetails` of a list; without a mounted context neither |
| `PressBack` | the only payment: the home screen gets the balance that was read plus the reward, the document an increment |
| `Delete`, `CancelDeleted` | `_onDelete` |
| `Midnight`, `Restart` | the day changes but `now` does not; a new run reads `now`, and forgets every suspended function |

Dart evaluates the global `now` at its first use and never again: `today` is the day of
the world, `now` that of the app (and whether the task's time of day was still to come,
which is all that the reminder compares). With `Hasty = FALSE` the user lets every
function end and every list arrive before the next tap; with `TRUE` anything may overlap.
The calendar asks for its events whenever it is built, so it may refresh at any time.
`kind` holds the fields of the task that never change here (repetition, time, reminder).
The date of a new task may have a time of day (`timed`), which a completion resets.
`NextDate` and `Rewarded` are parameters with an assumption; `MCTaskCompletion` gives
them `FindNextTime` and `GiveMoney` of `Repeat`. `taskDBS` is of a type of the package `firebase_helpers`,
which is not in the repository: create, update, remove and query of one document, as they
are used here. `awards`, `squares` and `last` are history variables.

### Occurrences

What a completion promises: one step judges the reward, advances the streak and sets
the next date, or ends a task that is not repeated; the reward is owed until it is collected or forfeited, and none is owed
twice. `TaskCompletion` maps `owed` to the rewards of the invocations past their update.

### Repeat, RepeatDays

`Repeat` is the code's date arithmetic on day numbers; `DateTime(y, m, d)` normalises a
month 13 or a day 31 of February as Dart does. Loops are recursive functions. The form
stores the date of a new task with the time of day at which it was opened, unless the
user picks a day (`add_task.dart:169`, `:397`). Of that time no more matters than whether there is one
(`timed`), and to the weekly loop only, which adds weeks to the date as it is and compares the
sum with midnight (`task_utils.dart:252`-`255`): today at 15:00 is after it, today is not
(`Passed`). The other loops compare midnights, or a midnight with the date, and a completion
stores a midnight.

`RepeatDays` runs a task over weeks, completed on any days, and compares each answer with
the kind of repetition: the first suitable day after the task's date and after today (for a
weekly task that is timed, from today on), and one reward per day, week or month. Of a
monthly task on day 29, 30 or 31 it says that the next date has the same day or slid by no
more than the month is too short for it.

### Reminders

A task is a document (`task[t]`), a notification the date for which the device has it
(`scheduled[i]`, repeated daily and kept over a kill). A handler that was started is an
element of `Calls` with the copy it was given; one that concerns a task has it *in hand*.

| action | code |
|---|---|
| `Create`, `Created` | Save of a new task: the document, then the notification |
| `Edit`, `UpdateEdited`, `Fetch`, `Remind` | Save of an existing one: cancel, update, `getSingle`, schedule |
| `Complete`, `Mark`, `Renew`, `Fetch`, `Remind` | `processCompletion` as far as the notification goes |
| `Delete`, `CancelDeleted` | `_onDelete` of the lists |
| `DeleteDetails` | Delete of the details page, which leaves the task |
| `Disable`, `Enable`, `AnswerEnable`, `ScheduleAll` | the switch of the settings |
| `ClearRecord`, `AnswerClear`, `Erase` | the first part of `clearRecord`: tasks, but not their notifications |
| `Tick`, `Restart` | time passes but `now` does not; a new run reads `now` |

The code knows a notification by the hash of the task's id. A new task is scheduled under
the id in its data, later handlers use that of the document; whether `create`
of `firebase_helpers` keeps the one as the other is not in the repository, so `keepsId`
is either, for a whole behaviour. `silent` and `left` collect the tasks of which nothing
is promised until they are scheduled again: those that two handlers, a kill, the details
page or Clear Record touched. A date is the moment of the reminder; the next one of a repeated task
is later than the one completed, but not always than `now`.

### TagList

The lists of the page are objects in `heap`: `eventTagList`, `selectedEvents` (the same
object while "All" is selected) and the list that the loop of a removed tag walks. A row
has the `load` it came with, because two answers of a query give different Dart objects for
one task.

| action | code |
|---|---|
| `Tap`, `Fade`, `Mark`, `Refresh` | `ifEventCompleted`: the copy is marked, 400 ms later the row at the *index* is removed, the task is marked, `_updateTask` |
| `Delete` | `_onDelete` |
| `AnswerTasks`, `AnswerTags` | `_updateTask` after each of its awaits; the answer is added to the list the page has by then |
| `Select` | a tap on a tag |
| `Drop`, `RemoveTagTask`, `EndDrop` | a tag on the bin: `removeTag`, one update per listed task, message and refresh |
| `AddTag`, `Add`, `Retag` | the form on top of the page, and the refresh when it is left |
| `Reopen` | the page is left and shown again, with or without completed tasks |

Where the code filters a list or sorts the names of tags, `Ordered` (of `Ranks`) lists the indices
or names that qualify. `Objects` and `Loads` are as many lists and answers as TLC may need; a list
that nothing refers to any more is emptied (`Collected`), so that it can stand for a new one.
Between the two awaits of a refresh the page still shows the rows of before it, while the list behind
them is empty or refilled: a tap then completes the task of the row that is shown, and marks whatever object has
its index in the list. The model reads both from the list; the task that is completed is the same.
A loop over a list that changes its length throws, as in Dart. A task is open or done and
never comes back here: repetition is `TaskCompletion`'s. Tags have names, and a user may
give one the name "All", which the page takes for every task.

### Session

`auth` is Firebase's current user, `user` the global of `main.dart`; `events` is what the
stream `userChanges()` has not yet delivered, `greeting` the first event of the sign-in
screen's own subscription to it. An element of `Calls` is an invocation that signs
in or out (`Doors`) or that deletes an account or clears its records (`Cleaners`).

| action | code |
|---|---|
| `Deliver`, `Build` | an event: `setState` of `MyApp` rebuilds the whole app from its `FutureBuilder`, which goes to the initial route (`main.dart:45-62`) |
| `Greet` | the sign-in screen's listener sets `user` |
| `LoadHome`, and `NewHome` in others | `getNameAndMoney`; a home screen built without a user never loads or fails on a late field |
| `SignIn`, `Authenticate`, `Reject`, `Signed`, `Joined`, `Registered` | the three means of signing in, and signing up, with the document of a new account |
| `SignOut`, `SignedOut` | Log out, whose `signOut` is not awaited |
| `DeleteAccount`, `DeleteUser`, `Dismiss`, `Dismissed` | `deleteAccount` and the dialog after it; `AcceptDeletion` and `RefuseDeletion` are Firebase's |
| `ClearRecord`, `ClearStep` | `clearRecord`, which reads `currentUser` again after each await |
| `OpenTasks`, `ShowTasks`, `CreateTask` | a list, its query, and a new task, under the path that `taskDBS` was built with |
| `RefreshToken`, `Restart`, `EndOnboarding`, `GoBack`, `OpenSettings` | a second event of the same user, a new run, navigation |

`initScreen` is read once per run, so the first run after the installation goes back to the
introduction with every event (`first`). A continuation that runs before the event of its
own sign-in finds no `user`: `_register` and the providers' branch for new accounts then
throw and leave the account without a document. `deleteAccount` leaves what is below the
document. No rules of the store are in the repository, so it is taken to accept every
write of whoever is signed in. A user acts *in a hurry* when an event or a function
is still under way, or by signing in over somebody else; `MaxHurries` bounds how often.

### Wallet

What a purchase promises: one step that needs the price, takes it and hands over the
creature; creatures stay. `Shop` maps `owned` to the creatures in the list or on their
way to it.

## 3. The runs

| run | instance | shows |
|---|---|---|
| `shop_overlap` | 1 device, 2 purchases at a time, 3 shop instances, 5 coins for prices 2 and 3, a crash; 135 000 states | `BoundedOverdraft`: of `n` purchases in flight at most `n-1` are in the red. `OnlyPaidOwned`: nothing unpaid is owned, or labelled owned. `ShopShowsBalance`: the shop's balance is the database's at every moment. `HomeStaysInStep`: so is the home screen's, except after a purchase that finds its shop gone |
| `shop_serial` | 2 devices, 1 purchase at a time, a reward from elsewhere, fairness, no crash; 930 000 states | `ImplementsWallet`, `PaidComesToStay`: what was paid for arrives and stays |
| `focus` | 3 starts of lengths below and above an hour, 2 uses of the back button, a crash, a purchase elsewhere, fairness; 2.3 million states | `PaidOnceIfAnswered`: until the back button dismisses a dialog no second is paid twice. `CountdownPaidOnce`: by a countdown never. `StartedIsLive`: where dialogs are answered a started timer runs or a dialog waits. `HomeShowsBalance`: an update of the home screen, by a tab that has read the balance, shows it, but for coins that were paid between the answer and its arrival. `CountdownEnds` |
| `focus_record` | 2 sessions, resumptions or dismissed dialogs, saved in 2 invocations, over 2 days of 3 hours of 4 seconds, a kill, a clearing; 3.6 million states | `RecordedWasPaid`: a day's total is never more than was paid. `RecordIsComplete`: it is all of it when no save was disturbed. `HoursAreSpanned`: no hour has more seconds than the saved sessions span in it, midnights apart |
| `task_hasty` | a daily task with a reminder; 2 invocations at a time, 2 taps, 2 days, list and calendar, a dismissed dialog, a kill, a midnight; 1.5 million states | `StreakIsEarned`, `CoinsAreBounded`: stale copies and double taps lose rewards, they never invent any. `CompletedIsInHand`: only a kill leaves a completed task that nothing will reschedule |
| `task_patient` | a daily task with a reminder, one for weekends without, one that is not repeated; 1 invocation, 3 taps, 4 days, a kill, a dismissed dialog, a midnight, fairness; 115 000 states | `ImplementsOccurrences`, `ComesBackUnlessKilled`, `HomeInStep`; without what interrupts also `CoinsAreSquares`, `OpenTaskRings`, `OneRewardPerPeriod` |
| `task_new_day` | the app open over midnight | violated: `RefusedOnlyInPeriod` |
| `repeat_periods` | every repetition, tasks created on 3 days and with a time of day or none, followed for 40; 220 000 states | `NextIsFirst`, `RewardOncePerPeriod` |
| `reminders` | 1 task, 2 handlers, 3 moments, an edit, a restart, 2 uses of the settings, a hurry; 1.7 million states | `OpenTasksRing`: an open task with a reminder ahead that nobody has in hand has its notification. `AheadIsWanted`: a notification that is ahead belongs to such a task |
| `reminders_disabled` | 1 task, 1 handler, the switch | violated: `DisabledIsSilent` |
| `tag_list` | 2 tasks, a tag and one named All, 2 handlers, a hurry, 2 uses of the form, the page shown twice; 1.9 million states | `ListIsWhole`, `SelectionExists`, `DanglingIsDone`, `CompletedOnce`: for a user who waits, the page at rest is the database, the selection is one of the tags, only hidden completed tasks keep a removed tag. `CompletedWasTapped`: hasty users, too, complete only what they tapped |
| `session` | 2 accounts, 1 invocation that signs in or out and 1 that deletes or clears, 1 task, 1 sign-in, a hurry, a token refresh or a restart, fairness; 920 000 states | `UserIsCurrent`, `BadHomeIsBrief`, `ShownAreOwn`, `TasksAreFiled`; `DocumentsAreNotReset` and `NobodyIsWronged` for a user who waits; `ComesHome` |

*Bounds.* Two purchases in flight are enough for every conflict between them, since
each step of a purchase reads and writes the document and its own shop; three shop
instances are one on the screen and one held by each of two older purchases. Two
creatures with a balance for either but not both distinguish a purchase repeated
from one of another creature. The timers' clocks are scaled: a minute has two seconds and
an hour two minutes, and a session needs two seconds, so that a count of five reaches
sessions of nearly, exactly and more than an hour; with three hours to a day, thirteen
seconds of `focus_record` reach every hour of a day, and one midnight. Three starts allow a session, a
resumption of it and another session. Two invocations of a completion meet in every order of their
steps. Two days let a completion be refused and a `now` be stale; day 1 is a Friday, so
that four days lead from it over a weekend. The three starts of `repeat_periods` lead over a turn of the year, a 29 February
and a 28 February, with tasks on days 28 to 31. In `reminders`
three moments are one before, one between and one after a notification and an edit or a `now`; a second
task would only add itself, for the handlers of a task touch no other (the theorems
hold for any number). In `tag_list` five list objects and four answers are as many as can be in
use at a time, and two tasks are the fewest whose rows can change places. In `session`
one invocation that signs in or out and one that deletes or clears are one each of what can
meet: a second sign-in needs the sign-in screen, which is left by the first.

All bounds are guards of the environment's
actions (`Earn`, `Crash`, `Kill`, `Restart`, `Midnight`, `Advance`, `Tick`, taps, `OtherChange`, the back button,
`startTimer`, the length of a count, forms, switches, sign-ins); none cuts off a step of a
handler that has begun. Where they let the environment stop, in `focus_record`, `reminders`,
`session` and `repeat_periods`, an end is no deadlock and is not reported as one.

*Symmetry.* Shop instances and invocations are interchangeable, and the runs that
check only safety use it (where there are several).

*Fairness.* `shop_serial` assumes that an await completes and its continuation runs,
which is what the event loop does once the network answers; the user and crashes are
never obliged to act. `focus` assumes that a periodic timer that was not
cancelled fires. `task_patient` assumes that every await of a
completion is answered; taps, dialogs and kills are never obliged. `session` assumes that
streams deliver, frames are drawn and awaits are answered, with an acceptance or
a rejection.

*Guards.* Where a run holds a kill, a dismissed dialog, a midnight or a hurry, a property that
needs their absence says so by a history (`used.crashes = 0`, `~ disturbed`, `silent`), so that the
same run also explores what follows them. The exceptions of a task end: it leaves
`silent` when it is scheduled anew.

*Violations.* They are what the code does. `task_new_day`: `now` is of the day before, so
the first completion of a new day is refused its reward as one "within the same repeated
duration" (`screens/Tasks/task_utils.dart:39`). `reminders_disabled`: "No reminders or any form of
notification will be sent upon disabling" (`setting_screen.dart:64`), but the button writes the field of another switch
and cancels nothing: a task is created, its notification scheduled, and when notifications
are disabled it stays so. The models keep this
behaviour, and the properties of the passing runs say what holds in spite of it.

Six more configurations are counterexamples to be replayed by hand, with a
property each that is stronger than what holds:

| configuration, module | property | what the trace shows |
|---|---|---|
| `ShopLost.cfg`, `MCShop` | `PurchasedIsInAquarium` | two purchases overlap, the second `addMarLives` writes back a list without the first creature |
| `FocusTwice.cfg`, `MCFocusTimer` | `TotalIsFocusTime` | the count-up congratulations are closed by the back button, and Done pays again |
| `TaskTwice.cfg`, `MCTaskCompletion` | `OneRewardPerPeriod` | a refresh between the tap and `Mark` shows the task open again |
| `TaskStuck.cfg`, `MCTaskCompletion` | `ComesBack` | nothing resumes a completion after a kill |
| `TagMessage.cfg`, `MCTagList` | `SaidIsDone` | "has been removed from all the related tasks" (`tag_list.dart:349`), but not from completed tasks that are hidden |
| `SessionDeleted.cfg`, `MCSession` | `DeletedIsDeleted` | "You can no longer use this account." (`setting_screen.dart:562`) although Firebase refused the deletion, which nobody awaits (`firebase_services.dart:92`) |

Other divergences need no run. `moneyEarned` adds `h * 60` instead of `h * 3600`, so a
session of an hour pays and records 3540 seconds less. A session that crosses an hour is
added to no hour of a day that already has some (`HoursAreSpanned` bounds hours from above
only); one that is saved again after its dismissed congratulations counts its hours again.
A weekly task that was created with a time of day and is completed a week late is dated today again. A monthly task is refused its
reward in the same month of another year and, its previous completion being in January
1970, for the first time in any January (`RewardOncePerPeriod` leaves monthly refusals
out). A notification that is overdue is not cancelled and repeats daily, after its task
is gone as well. Tasks created after a change of accounts are stored under the path of the
account that opened its tasks first in this run, where `ShownAreOwn` still hides them from it. Both timers announce "Must be more than 10
seconds" and accept exactly 10; and a home screen that is updated while the
count-up tab has not read the balance (`loading`) shows the coins of the session only,
which is why `HomeShowsBalance` excludes it. A payment that falls between the answer of that
read and its arrival is missing from the tab's balance as long as the tab is shown, and from the home screen
at each of its updates: `HomeShowsBalance` subtracts it (`overtaken`).

## 4. The proofs

Every theorem is for arbitrary constants under the named assumptions of its module
(prices are natural numbers below `MaxPrice`, sets of invocations are finite, a
minute is at least one second, ...).

*ShopProofs.*
- `TypeCorrect`.
- `OverdraftIsBounded`. The inductive invariant `OverdraftInv` says that the balance
  less the prices of all approved and not yet charged purchases (`Total(Held(call))`)
  stays above minus `(|Calls| - 1) * MaxPrice`. `BoundedOverdraft` alone is not
  inductive, because an approval changes nothing that it mentions. The sums need
  `DataTheorems`.
- `OwnedWerePaid`. `PaidInv` adds that an invocation past its charge delivers a creature
  that was paid for, and that the list it is about to write back was read from the
  document, so a stale list cannot bring in a creature.
- `AlonePurchasesAreAtomic`: with one purchase at a time and no crash `Shop`
  implements `Wallet`; `AloneInv` says that the list a purchase has read is still the
  one in the database, and that an approved purchase is still affordable.
- `ShopStaysInStep` and `HomeStepsAlong`, for a device `d` that has the account to itself
  (`Devices = {d}`, `MaxEarned = 0`), with any number of shops, purchases and crashes. With a
  second device or a reward the shop's copy is stale, which the code does nothing about.
  `Screen(d)` says that at most one shop is on the screen and, once loaded, has the balance of
  the document; `CallsUnder(d)` that an invocation that finds its shop there finds it
  loaded. Hence `_update`, which subtracts from the copies, and `addMoney`, which subtracts from the
  document, do so by the same amount from the same number, however many purchases were approved in between.

*DataTheorems*, which other proofs cite. The prover cannot use the induction theorems of its
library, so everything here rests on counting and on well-foundedness: a set of counterexamples
would have a smallest member (`SmallestSubset`, among finite sets; `LeastNatural`, among numbers).
- Sums: `TotalUpdate` and the other laws of `Total`.
- Ranks: `OrderedMembers`, for any finite set of integers: `Ordered` lists every member, and each once.
- The calendar, for all days from 1970 on. `NextDateIsLater`: `FindNextTime` of any two days is a day
  later than the task's date and not before today, which it is only for a weekly task whose
  date has a time of day. `DatesAssumption` asks no more of `NextDate`, so the theorems of `TaskProofs`
  apply to the code's own calendar. `FindNextTime` is a loop, written as a recursive function:
  among the days from which it would not end, or would end elsewhere, there would
  be one with the fewest steps to go. `WalkExists` and `StepAdvances` show that the function
  exists, `FirstAfterIn` that it stops at the first day of the walk that is late
  enough, `StepFollows` that no suitable day lies between two days of the walk. The calendar needs years and
  months to be found uniquely from a day number (`YearUnique`, `MonthUnique`), a day up to 28 to
  come back in each next month (`MonthlyAgain`) and one after it to come back or to slide
  by at most three days (`MonthlySlides`).

*FocusTimerProofs.*
- `TypeCorrect`, for both tabs. Also `MoneyEarnedBounds`: a session never pays more than its seconds,
  whatever the lengths of a minute and an hour.
- `CountdownIsPaidOnce`, with any number of dismissed dialogs: `CountdownInv` says that a
  started countdown owes the seconds it has run, and nothing once it is at zero with
  its timer cancelled, which is how a paid session is recognised.
- `StartedStaysLive` and `FocusTimeIsPaidOnce`, until a dialog is dismissed: `OrderInv` ties
  the timer and the dialogs to the session, and `CountupInv` says that the seconds shown
  by the count-up tab are unpaid until its congratulations.
- `HomeIsBroughtInStep`, without changes from elsewhere: `CacheInv` says for each stage of the
  read what is known. While it is asked nothing was overtaken; once it is answered the
  document has the answer and the coins overtaken; once it has continued the cached balance
  is the document's less what was overtaken.

*TaskProofs*, for any `NextDate` that is later than the date and not before the day it is given and any
`Rewarded` that always rewards a task that is not repeated (`DatesAssumption`).
- `TypeCorrect`. `TypeInv` adds `DatedCalls`: an invocation that will compute a next date
  holds a copy whose date is one of the days.
- `StreaksAreEarned`. `StreakInv` follows every copy of the task (shown, read, held by an
  invocation): none is ahead of the rewards, and the copy of an invocation that was found
  worth a reward is one behind.
- `CompletedStaysInHand`. `HandInv` adds `DialogsWait`: the dialogs belong to different
  invocations, each of which waits for its own. Without it, closing a dialog could end
  the one invocation that has yet to reschedule the task.
- `CoinsStayBounded`. `CoinsInv` says that the balance and all rewards that invocations may
  still pay (`Total(Pending)`) stay within the initial balance and the squares of the
  rewarded completions. `CoinsAreBounded` alone is not inductive: a dialog pays what an
  earlier step promised. The proof uses `StreakInv` (a reward is the square of a streak
  that was earned) and `DataTheorems`.
- `HomeStaysInStep` and `OpenTasksRing`, for a user who waits (`~ Hasty`), in lists and in the
  calendar. `WaitInv`: there is at most one invocation under way, in some state `k`.
  `Informed(k)` says that the balance it has read is still the account's, so that the home screen gets
  the right sum, and that what `getSingle` found is the document. `RingsBut(k)` says that the notification is
  the right one away from the awaits between a completion and its new notification. The calendar may show the task
  open meanwhile, but a tap has to wait.
- `CompletionsAreAtomic` (`TaskCompletion` implements `Occurrences`), `CoinsStaySquares` and
  `RewardsAreOncePerPeriod`, for a user who waits and has lists only (`Patient`). With the calendar TLC
  finds all three violated: it reads the tasks again while a completion is under way, goes on showing the
  task open, and lets the same occurrence be completed once more. They follow from `PatientInv`: `Relies(k)` says for each
  await what it will find (`doc` is the task it was given until it has marked it, and that marked
  until the balance is answered); `CopiesAgree(k)` that what is shown as open, or about to be,
  is the document, and nothing is while `k` may change it; `SquaresAddUp(k)` and `PeriodKept(k)` what the
  coins and the last completion are at each await, of which the properties speak only between
  completions. `Balance` and `Refuse` are the step `Complete` of `Occurrences`, `PressBack` is
  `Collect`, `DismissDialog` `Forfeit`, `Delete` `Remove`, and `Restart` a `Forfeit`, a `Remove` (of a
  task that is not repeated and was marked) or a stutter; all others stutter.

*ListProofs.* `NextDateIsFirst` and `RewardedOncePerPeriod`, of `RepeatDays`, need of the state only that
the previous completion is not after today (`RepeatInv`); the rest is arithmetic, in `DataTheorems`.
The other theorems are about `TagList`, for any finite set of tasks and handlers, any names of tags, and any
number of forms and visits. They assume `Unbounded`, that there are infinitely many objects and loads: these two bounds
are for TLC, and a program that needs a new list gets one.
- `TagTypesCorrect`. `TypeInv` adds what a handler knows (`CallOK`): a completion a task that was tapped, the loop that
  removes a tag a list object.
- `OnlyTappedAreCompleted`, for users in any hurry. Rows move and lists are replaced, but
  `Mark` takes the task from its handler, and `TypeInv` says where that came from.
- `ListsAreWhole`, `SelectionsExist`, `DanglingAreDone` and `CompletionsHappenOnce`, for a user who waits, follow
  from `CalmInv`. All but the last speak only of a page at rest, and none of the four is inductive:
  the list is torn down and filled again in three steps. `CallCalm(k)` says for each await what its handler will find: a
  row at the index it was given, an open task, an empty list to fill, a page that shows a tag already.
  `Shows(tag, rows)` is the refined form of `ListIsWhole` (and of the checks of `isCompleted`);
  `Matching` keeps it (`MatchingShows`), for which `OrderedMembers` is needed, and so does what the database answers (`FoundShows`).
  `TasksCalm` says of a task that keeps a removed tag that it is done or still to come in the loop
  (`InLoop`): each round of the loop takes one task out of it, and the list cannot change below it.

*FocusRecordProofs.* `TypeCorrect`, `NothingIsCountedTwice`, `UndisturbedSavesAreComplete` and
`HoursAreWithinSpans` follow from one invariant, `RecordInv`, for any length of hours and
days and any finite set of invocations:
- `PaidInv`: a day's total plus what all invocations of that day still owe it
  (`Total(Owing(call, d))`) is at most what was paid. `RecordedWasPaid` alone says nothing of an
  invocation that has yet to write.
- `CompleteInv`: while nothing was disturbed there is at most one invocation, what it has
  read is still so, and the total and what it owes are exactly what was paid.
- `HoursInv`: each list in play, in a document or in an invocation, has in every hour no
  more than the seconds spanned in it, less those that invocations have yet to add.
  The arithmetic is in lemmas of their own: `SplitWithin` (a split puts into each hour at
  most its overlap with the session), `AddWithin` (so does an addition to a list that was
  read) and `SecondsType` (a difference never counts more than its seconds).

*RemindersProofs.* `TypeCorrect`, `OpenTasksAreReminded` and `NotificationsAreWanted` follow from
`ReminderInv`, for any tasks and handlers. `OpenTasksRing` and `AheadIsWanted` say nothing of a task
that a handler has in hand, and so cannot be inductive: the invariant says for
every task outside `silent` that at most one handler has it, that it rings if none
has, and for each place at which one may be suspended what it will find and schedule
(`RingsAfter`); likewise for tasks outside `left` and wanted notifications (`WantedAfter`).
`TaskStep` and `SettingStep` reduce a step to the tasks it concerns; `Untouched` is about
all others.

*SessionProofs.* `TypeCorrect`, `UserBecomesCurrent`, `BadHomesAreBrief`, `ListsShowOwnTasks` and
`TasksStayFiled` follow from `SessionInv`, for any accounts and invocations:
- `CurrentInv`: the last undelivered event is the current user, and when none is left
  neither `user` nor a greeting is anybody else.
- `ScreenInv` and `EarlyInv`: an invocation that still has its screen came from the screen
  on top, and if it has just signed in, the event is still on its way. This is why a
  home screen built too early is always replaced.
- `ListInv`: a list is on its screen only, asks for `user` only and shows its tasks only;
  every event empties it.
- `PathInv`: the path of `taskDBS` is of somebody who opened tasks in this run.

`DocumentsAreKept` and `OwnersGiveUp` add `CalmInv`, for a user who has not been in a hurry: one invocation at a
time; while it signs somebody in, the app, Firebase and every event on its way know of nobody else
(`Within`), so that the event that ends it cannot be another account's; who is about to
get a new document has none (`WritesDoc`); and what is erased step by step is that of the
account which asked, because the current user, read again after each await, can have become nobody but not
somebody else.

*Only model-checked:* the violations and the liveness properties
`PaidComesToStay`, `CountdownEnds`, `ComesBackUnlessKilled` and `ComesHome`, for liveness under
fairness is out of the prover's reach. Every invariant and every refinement that a run checks is proved.
`ShopShowsBalance` and the properties of `TaskCompletion` for a user who waits are proved
under the hypotheses named above, where each fails
without them: a second device or a reward for the shop, overlapping taps for the tasks.

## 5. Plan

1. `Shop`, `Wallet`, `Sums`: done.
2. `FocusTimer`: done.
3. `TaskCompletion`, `Occurrences`: done for one task, with every safety property proved.
4. `Repeat`, `RepeatDays`: done, with both properties proved for the code's calendar.
5. `FocusRecord`: done.
6. `Reminders`: done.
7. `TagList`, `Ranks`: done, with every safety property proved.
8. `Session`: done, with every safety property proved.
9. Left: a composition of shop, timer and task completion around one document and one home
   screen, whose three caches of the balance each overwrite it.

## 6. Not modelled

- Layout, wording, images, animations, the validators of forms, the feedback form, the
  display switches and the name, which are single writes.
- Aquarium, statistics, onboarding and the reset of a password, which only read or only
  navigate. The choice of a day in the calendar, and the lists of today and of all tasks
  where they differ from the list of tags: they remove by index and refresh as it does,
  without tags.
- `firebase_helpers` (the type of `taskDBS`) is not in the repository: it is modelled from
  its use, as operations on one document. So are Firebase's store and authentication:
  a write takes effect where it is called, a read when it is answered, an event of
  `userChanges()` comes later than the change it tells of; failures are a rejected
  sign-in, a refused deletion and an update of a document that is gone.
- Daylight saving: `findNextTime` adds 24 hours at a time, which `Repeat` takes for days.
- Vendored and generated code: the libraries under `ios/Pods`, of which the app's own code
  calls none directly, and the build files of every platform.
