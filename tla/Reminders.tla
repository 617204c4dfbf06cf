----------------------------- MODULE Reminders -----------------------------
(***************************************************************************)
(* The notifications that remind of tasks, against the documents of the    *)
(* tasks: creating, editing, completing and deleting a task, the switch of *)
(* the settings, and the clearing of the records.  Notifications are kept  *)
(* by the device, repeat daily, and go on when the app is killed.  Every   *)
(* handler cancels and schedules around awaits, and decides by the global  *)
(* now of the app.                                                         *)
(***************************************************************************)
EXTENDS Integers

CONSTANTS
  Tasks,        \* tasks that may be created
  Calls,        \* suspended handlers
  MaxTime,      \* bound: the last moment
  MaxEdits,     \* bound: edits saved
  MaxRestarts,  \* bound: restarts of the app
  MaxSwitches,  \* bound: uses of the switch of the settings, and of "Clear Record"
  MaxHurries    \* bound: times that the user does not wait for a handler

ASSUME BoundsAssumption ==
  /\ MaxTime \in Nat \ {0}
  /\ MaxEdits \in Nat
  /\ MaxRestarts \in Nat
  /\ MaxSwitches \in Nat
  /\ MaxHurries \in Nat

VARIABLES
  clock,      \* the time
  now,        \* the global now: the time at which the app was started
  task,       \* task[t]: the document of task t
  scheduled,  \* scheduled[i]: when the notification with id i is due first, or None
  keepsId,    \* whether a created document has the id that its data holds
  call,       \* call[c]: the state of the handler c
  disabled,   \* whether the user disabled notifications last
  silent,     \* history: open tasks that may lack their notification
  left,       \* history: tasks whose notification may outlast them
  used        \* how much of each bound is used up

vars == <<clock, now, task, scheduled, keepsId, call, disabled, silent, left, used>>

Times == 1 .. MaxTime
None == 0

\* A notification is known by the hash of the id in the data of a new task, or of
\* the id of the document once the task has been read.
Ids == {"data", "document"} \X Tasks
IdOfNew(t) == IF keepsId THEN <<"document", t>> ELSE <<"data", t>>
IdOf(t) == <<"document", t>>

NoTask == [stage |-> "none", date |-> 1, remind |-> FALSE, repeats |-> FALSE]
Gone == [NoTask EXCEPT !.stage = "gone"]
Idle == [pc |-> "idle", task |-> "none", copy |-> NoTask, found |-> <<>>]

TaskStates == [stage : {"none", "open", "done", "gone"}, date : Times,
               remind : BOOLEAN, repeats : BOOLEAN]

OfTasks == {"created", "edit", "edited", "remove", "removed", "marked", "renewed", "fetched"}
OfSettings == {"enable", "schedule", "clear", "erase"}

TypeOK ==
  /\ clock \in 0 .. MaxTime
  /\ now \in 0 .. clock
  /\ task \in [Tasks -> TaskStates]
  /\ scheduled \in [Ids -> Times \union {None}]
  /\ keepsId \in BOOLEAN
  /\ call \in [Calls -> [pc : {"idle"} \union OfTasks \union OfSettings,
                         task : Tasks \union {"none"}, copy : TaskStates,
                         found : UNION {[S -> TaskStates] : S \in SUBSET Tasks}]]
  /\ disabled \in BOOLEAN
  /\ silent \subseteq Tasks
  /\ left \subseteq Tasks
  /\ used \in [edits : 0 .. MaxEdits, restarts : 0 .. MaxRestarts,
               switches : 0 .. MaxSwitches, hurries : 0 .. MaxHurries]

Exists(t) == task[t].stage \in {"open", "done"}

\* The tasks that a handler is about to change something of.
Concerns(c) == IF call[c].pc = "idle" THEN {}
               ELSE IF call[c].pc \in OfTasks THEN {call[c].task}
               ELSE Tasks
InHand == UNION {Concerns(c) : c \in Calls}
InHandOfOthers(c) == UNION {Concerns(b) : b \in Calls \ {c}}

Init ==
  /\ clock = 0
  /\ now = 0
  /\ task = [t \in Tasks |-> NoTask]
  /\ scheduled = [i \in Ids |-> None]
  /\ keepsId \in BOOLEAN
  /\ call = [c \in Calls |-> Idle]
  /\ disabled = FALSE
  /\ silent = {}
  /\ left = {}
  /\ used = [edits |-> 0, restarts |-> 0, switches |-> 0, hurries |-> 0]

-----------------------------------------------------------------------------
(* task_utils. *)

isScheduledEvent(copy) == copy.remind /\ copy.date > now

\* Mutant: nothing is cancelled.
removeNotificationMutant(id, copy) == UNCHANGED scheduled

removeNotification(id, copy) ==
  scheduled' = IF isScheduledEvent(copy) THEN [scheduled EXCEPT ![id] = None] ELSE scheduled

\* Mutant: a notification that exists is kept.
addNotificationMutant(id, copy) ==
  scheduled' = IF isScheduledEvent(copy) /\ scheduled[id] = None
                 THEN [scheduled EXCEPT ![id] = copy.date] ELSE scheduled

\* Scheduling replaces the notification with the same id, and repeats it daily.
addNotification(id, copy) ==
  scheduled' = IF isScheduledEvent(copy) THEN [scheduled EXCEPT ![id] = copy.date]
                                         ELSE scheduled

\* The user starts a handler of the tasks ts.  If one of them is in the hands of
\* another handler nothing can be said of it until it is scheduled anew.
Overtakes(ts) ==
  /\ ts \intersect InHand # {} => used.hurries < MaxHurries
  /\ silent' = silent \union (ts \intersect InHand)
  /\ left' = left \union (ts \intersect InHand)

Counted(ts) ==
  [used EXCEPT !.hurries = IF ts \intersect InHand = {} THEN @ ELSE @ + 1]

Starts(c, pc, t) ==
  /\ call[c] = Idle
  /\ call' = [call EXCEPT ![c] = [Idle EXCEPT !.pc = pc, !.task = t, !.copy = task[t]]]
  /\ Overtakes({t})

Ends(c, pc) ==
  /\ call[c].pc = pc
  /\ call' = [call EXCEPT ![c] = Idle]

-----------------------------------------------------------------------------
(* The form of a task. *)

\* Save of a new task up to its first await.
Create(c, t) ==
  /\ task[t] = NoTask
  /\ call[c] = Idle
  /\ \E date \in Times, remind, repeats \in BOOLEAN :
       LET new == [stage |-> "open", date |-> date, remind |-> remind, repeats |-> repeats]
       IN  /\ task' = [task EXCEPT ![t] = new]
           /\ call' = [call EXCEPT ![c] = [Idle EXCEPT !.pc = "created", !.task = t,
                                                       !.copy = new]]
  /\ Overtakes({t})
  /\ used' = Counted({t})
  /\ UNCHANGED <<clock, now, scheduled, keepsId, disabled>>

Created(c) ==
  /\ Ends(c, "created")
  /\ addNotification(IdOfNew(call[c].task), call[c].copy)
  /\ UNCHANGED <<clock, now, task, keepsId, disabled, silent, left, used>>

\* Save of a task that exists, up to its first await.
Edit(c, t) ==
  /\ Exists(t)
  /\ used.edits < MaxEdits
  /\ used' = [Counted({t}) EXCEPT !.edits = @ + 1]
  /\ Starts(c, "edit", t)
  /\ removeNotification(IdOf(t), task[t])
  /\ UNCHANGED <<clock, now, task, keepsId, disabled>>

\* The update with the fields of the form: completion is not one of them, so that
\* a completed task may be given a notification again.  It throws if the document
\* has gone.
UpdateEdited(c) ==
  LET t == call[c].task
  IN  /\ call[c].pc = "edit"
      /\ \/ /\ Exists(t)
            /\ call' = [call EXCEPT ![c].pc = "edited"]
            /\ \E date \in Times, remind, repeats \in BOOLEAN :
                 task' = [task EXCEPT ![t] = [stage |-> @.stage, date |-> date,
                                              remind |-> remind, repeats |-> repeats]]
            /\ left' = IF task[t].stage = "done" THEN left \union {t} ELSE left
         \/ /\ ~ Exists(t)
            /\ call' = [call EXCEPT ![c] = Idle]
            /\ UNCHANGED <<task, left>>
      /\ UNCHANGED <<clock, now, scheduled, keepsId, disabled, silent, used>>

\* getSingle, of an edit or of a completion; a task that has gone ends the handler.
Fetch(c) ==
  LET t == call[c].task
  IN  /\ call[c].pc \in {"edited", "renewed"}
      /\ call' = [call EXCEPT ![c] =
           IF Exists(t) THEN [@ EXCEPT !.pc = "fetched", !.copy = task[t]] ELSE Idle]
      /\ UNCHANGED <<clock, now, task, scheduled, keepsId, disabled, silent, left, used>>

Remind(c) ==
  LET t == call[c].task
  IN  /\ Ends(c, "fetched")
      /\ addNotification(IdOf(t), call[c].copy)
      /\ silent' = IF call[c].copy = task[t] THEN silent \ ({t} \ InHandOfOthers(c)) ELSE silent
      /\ UNCHANGED <<clock, now, task, keepsId, disabled, left, used>>

-----------------------------------------------------------------------------
(* Completion and deletion. *)

\* processCompletion up to its first await.
Complete(c, t) ==
  /\ task[t].stage = "open"
  /\ Starts(c, "removed", t)
  /\ used' = Counted({t})
  /\ removeNotification(IdOf(t), task[t])
  /\ UNCHANGED <<clock, now, task, keepsId, disabled>>

Mark(c) ==
  LET t == call[c].task
  IN  /\ call[c].pc = "removed"
      /\ task' = IF Exists(t) THEN [task EXCEPT ![t].stage = "done"] ELSE task
      /\ call' = [call EXCEPT ![c] =
           IF Exists(t) /\ call[c].copy.repeats THEN [@ EXCEPT !.pc = "marked"] ELSE Idle]
      /\ UNCHANGED <<clock, now, scheduled, keepsId, disabled, silent, left, used>>

\* The update with the next date: later than the one completed, but not always than now
\* (a weekly task that is dated today, a reminder before midnight of a time after it).  The
\* reads and writes of the balance, and the dialog, are TaskCompletion's.
Renew(c) ==
  LET t == call[c].task
  IN  /\ call[c].pc = "marked"
      /\ \/ /\ Exists(t)
            /\ call' = [call EXCEPT ![c].pc = "renewed"]
            /\ \E next \in Times :
                 /\ next > call[c].copy.date
                 /\ task' = [task EXCEPT ![t].stage = "open", ![t].date = next]
         \/ /\ ~ Exists(t)
            /\ call' = [call EXCEPT ![c] = Idle]
            /\ UNCHANGED task
      /\ UNCHANGED <<clock, now, scheduled, keepsId, disabled, silent, left, used>>

\* _onDelete.
Delete(c, t) ==
  /\ Exists(t)
  /\ Starts(c, "remove", t)
  /\ used' = Counted({t})
  /\ task' = [task EXCEPT ![t] = Gone]
  /\ UNCHANGED <<clock, now, scheduled, keepsId, disabled>>

CancelDeleted(c) ==
  /\ Ends(c, "remove")
  /\ removeNotification(IdOf(call[c].task), call[c].copy)
  /\ UNCHANGED <<clock, now, task, keepsId, disabled, silent, left, used>>

\* Delete of the details page: the task stays.
DeleteDetails(t) ==
  /\ Exists(t)
  /\ t \notin InHand
  /\ removeNotification(IdOf(t), task[t])
  /\ silent' = silent \union {t}
  /\ UNCHANGED <<clock, now, task, keepsId, call, disabled, left, used>>

-----------------------------------------------------------------------------
(* The settings. *)

\* "Disable Anyway": updateNotif writes the field of another switch, and nothing is
\* cancelled.
Disable ==
  /\ used.switches < MaxSwitches
  /\ ~ disabled
  /\ disabled' = TRUE
  /\ used' = [used EXCEPT !.switches = @ + 1]
  /\ UNCHANGED <<clock, now, task, scheduled, keepsId, call, silent, left>>

StartsSetting(c, pc) ==
  /\ used.switches < MaxSwitches
  /\ call[c] = Idle
  /\ call' = [call EXCEPT ![c] = [Idle EXCEPT !.pc = pc]]
  /\ Overtakes(Tasks)
  /\ used' = [Counted(Tasks) EXCEPT !.switches = @ + 1]

Enable(c) ==
  /\ disabled
  /\ disabled' = FALSE
  /\ StartsSetting(c, "enable")
  /\ UNCHANGED <<clock, now, task, scheduled, keepsId>>

\* The query for open tasks takes effect; the loop over its answer comes later.
AnswerEnable(c) ==
  /\ call[c].pc = "enable"
  /\ call' = [call EXCEPT ![c].pc = "schedule",
                          ![c].found = [t \in {u \in Tasks : task[u].stage = "open"} |-> task[t]]]
  /\ UNCHANGED <<clock, now, task, scheduled, keepsId, disabled, silent, left, used>>

ScheduleAll(c) ==
  LET found == call[c].found
      current == {t \in DOMAIN found : found[t] = task[t]}
  IN  /\ Ends(c, "schedule")
      /\ scheduled' = [i \in Ids |->
           IF i[1] = "document" /\ i[2] \in DOMAIN found /\ isScheduledEvent(found[i[2]])
             THEN found[i[2]].date ELSE scheduled[i]]
      /\ silent' = silent \ (current \ InHandOfOthers(c))
      /\ UNCHANGED <<clock, now, task, keepsId, disabled, left, used>>

\* "Clear Record": the query of its first part, and the removal of what it found.
ClearRecord(c) ==
  /\ StartsSetting(c, "clear")
  /\ UNCHANGED <<clock, now, task, scheduled, keepsId, disabled>>

AnswerClear(c) ==
  /\ call[c].pc = "clear"
  /\ call' = [call EXCEPT ![c].pc = "erase",
                          ![c].found = [t \in {u \in Tasks : Exists(u)} |-> task[t]]]
  /\ UNCHANGED <<clock, now, task, scheduled, keepsId, disabled, silent, left, used>>

Erase(c) ==
  LET found == DOMAIN call[c].found
  IN  /\ Ends(c, "erase")
      /\ task' = [t \in Tasks |-> IF t \in found THEN Gone ELSE task[t]]
      /\ left' = left \union found
      /\ UNCHANGED <<clock, now, scheduled, keepsId, disabled, silent, used>>

-----------------------------------------------------------------------------
(* Time, and the app. *)

Tick ==
  /\ clock < MaxTime
  /\ clock' = clock + 1
  /\ UNCHANGED <<now, task, scheduled, keepsId, call, disabled, silent, left, used>>

\* The app is killed, with its suspended handlers, and started again.
Restart ==
  /\ used.restarts < MaxRestarts
  /\ used' = [used EXCEPT !.restarts = @ + 1]
  /\ now' = clock
  /\ call' = [c \in Calls |-> Idle]
  /\ silent' = silent \union InHand
  /\ left' = left \union InHand
  /\ UNCHANGED <<clock, task, scheduled, keepsId, disabled>>

-----------------------------------------------------------------------------

Next ==
  \/ \E c \in Calls, t \in Tasks : Create(c, t) \/ Edit(c, t) \/ Complete(c, t) \/ Delete(c, t)
  \/ \E c \in Calls :
       \/ Created(c) \/ UpdateEdited(c) \/ Fetch(c) \/ Remind(c)
       \/ Mark(c) \/ Renew(c) \/ CancelDeleted(c)
       \/ Enable(c) \/ AnswerEnable(c) \/ ScheduleAll(c)
       \/ ClearRecord(c) \/ AnswerClear(c) \/ Erase(c)
  \/ \E t \in Tasks : DeleteDetails(t)
  \/ Disable \/ Tick \/ Restart

Spec == Init /\ [][Next]_vars

-----------------------------------------------------------------------------
(* Properties. *)

\* Each open task whose reminder is ahead of the app's now has its notification,
\* for the date that it has now, as soon as no handler has it in hand: whatever
\* edits, completions, restarts and switchings came before, of this task and,
\* meanwhile, of others, and whichever id create gave the document.  "Delete" of the
\* details page, a kill in a handler and two handlers at once may silence a task;
\* after an edit, a completion or the switch, off and on, it rings again.
OpenTasksRing ==
  \A t \in Tasks \ (silent \union InHand) :
    task[t].stage = "open" /\ isScheduledEvent(task[t]) =>
      \E i \in {IdOf(t), IdOfNew(t)} : scheduled[i] = task[t].date

\* A notification that is still ahead belongs to an open task and has its date: what
\* deletions, completions and edits leave over was overdue before.  The exceptions
\* are a task cleared with the records, one that was edited after its completion,
\* and one that two handlers or a kill left.  It holds if create keeps the id in
\* the data: otherwise nothing can cancel the notification of a new task.
AheadIsWanted ==
  keepsId =>
    \A t \in Tasks \ (left \union InHand) :
      scheduled[IdOf(t)] > now =>
        /\ task[t].stage = "open"
        /\ task[t].remind
        /\ scheduled[IdOf(t)] = task[t].date

\* "No reminders or any form of notification will be sent upon disabling": once the user
\* has disabled notifications, and nothing is under way, none is left that was scheduled.
DisabledIsSilent ==
  [][~ disabled /\ disabled' /\ InHand' = {} => \A i \in Ids : scheduled'[i] = None]_vars
=============================================================================
