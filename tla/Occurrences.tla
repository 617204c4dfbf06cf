---------------------------- MODULE Occurrences -----------------------------
(***************************************************************************)
(* What the completion of a task promises: one indivisible step ends an    *)
(* occurrence, judges the reward, counts the streak and sets the next      *)
(* date; its reward is owed until it is collected or forfeited.            *)
(***************************************************************************)
EXTENDS Integers

CONSTANTS NextDate(_, _, _, _), Rewarded(_, _, _), Days, InitTasks, InitMoney

VARIABLES
  repeat,  \* the repetition of the task
  task,    \* the task: empty once it is deleted, or done and not repeated
  owed,    \* the reward that waits to be collected
  money    \* the account

Init ==
  /\ \E t \in InitTasks : task = {t}
  /\ owed = 0
  /\ money = InitMoney

\* At most one reward is owed at a time, so it is never added to another.
Complete(day) ==
  /\ owed = 0
  /\ \E t \in task :
       LET paid   == Rewarded(repeat, t.prev, day)
           streak == IF paid THEN t.streak + 1 ELSE t.streak
       IN  IF repeat = "never"
             THEN task' = {} /\ owed' = 5
             ELSE /\ task' = {[streak |-> streak, prev |-> day,
                               date |-> NextDate(repeat, t.date, t.timed, day),
                               timed |-> FALSE]}
                  /\ owed' = IF paid THEN streak * streak ELSE 0
  /\ UNCHANGED <<repeat, money>>

Collect == money' = money + owed /\ owed' = 0 /\ UNCHANGED <<repeat, task>>

Forfeit == owed' = 0 /\ UNCHANGED <<repeat, task, money>>

Remove == task' = {} /\ UNCHANGED <<repeat, owed, money>>

Next == (\E day \in Days : Complete(day)) \/ Collect \/ Forfeit \/ Remove

Spec == Init /\ [][Next]_<<repeat, task, owed, money>>
=============================================================================
