------------------------------- MODULE Repeat -------------------------------
(***************************************************************************)
(* The dates of a repeated task (screens/Tasks/task_utils.dart): when it   *)
(* is due next, and whether a completion earns a reward.  A date is its    *)
(* number of days since 1 January 1970, in a time zone without daylight    *)
(* saving: a day has 24 hours.  The date that the form stores may have a   *)
(* time of day as well, which is not midnight: it is timed then.           *)
(***************************************************************************)
EXTENDS Integers

Monday == 1
Friday == 5
Saturday == 6

\* DateTime.weekday: 1 to 7, from Monday.  Day 0 was a Thursday.
Weekday(d) == ((d + 3) % 7) + 1

-----------------------------------------------------------------------------
(* The constructor and the fields of DateTime, over the Gregorian calendar. *)

IsLeap(y) == (y % 4 = 0 /\ y % 100 # 0) \/ y % 400 = 0

LeapDaysBefore(y) == ((y - 1) \div 4) - ((y - 1) \div 100) + ((y - 1) \div 400)

NewYear(y) == 365 * (y - 1970) + LeapDaysBefore(y) - LeapDaysBefore(1970)

FirstOfMonth(y, m) ==
  NewYear(y) + <<0, 31, 59, 90, 120, 151, 181, 212, 243, 273, 304, 334>>[m]
             + (IF m > 2 /\ IsLeap(y) THEN 1 ELSE 0)

\* A month after December is one of the next year, and a day after the last of
\* the month one of the next month.
DateTime(y, m, d) ==
  FirstOfMonth(y + ((m - 1) \div 12), ((m - 1) % 12) + 1) + d - 1

Year(d) == CHOOSE y \in 1970 + (d \div 366) .. 1970 + (d \div 365) :
             NewYear(y) <= d /\ d < NewYear(y + 1)

Month(d) == CHOOSE m \in 1 .. 12 :
              /\ FirstOfMonth(Year(d), m) <= d
              /\ d < DateTime(Year(d), m + 1, 1)

DayOfMonth(d) == d - FirstOfMonth(Year(d), Month(d)) + 1

-----------------------------------------------------------------------------
(* findNextTime. *)

\* DateTimeExtension.next: the first day from d on with that weekday.
NextWeekday(d, weekday) == d + ((weekday - Weekday(d)) % 7)

\* Mutant: Friday is followed by Saturday.
StepMutant(repeat, d) ==
  CASE repeat = "daily"    -> d + 1
    [] repeat = "weekdays" ->
         IF Weekday(d) > Friday THEN NextWeekday(d, Monday) ELSE d + 1
    [] repeat = "weekends" ->
         IF Weekday(d) # Saturday THEN NextWeekday(d, Saturday) ELSE d + 1
    [] repeat = "weekly"   -> d + 7
    [] repeat = "monthly"  -> DateTime(Year(d), Month(d) + 1, DayOfMonth(d))

\* One turn of the loop of each kind of repetition.
Step(repeat, d) ==
  CASE repeat = "daily"    -> d + 1
    [] repeat = "weekdays" ->
         IF Weekday(d) >= Friday THEN NextWeekday(d, Monday) ELSE d + 1
    [] repeat = "weekends" ->
         IF Weekday(d) # Saturday THEN NextWeekday(d, Saturday) ELSE d + 1
    [] repeat = "weekly"   -> d + 7
    [] repeat = "monthly"  -> DateTime(Year(d), Month(d) + 1, DayOfMonth(d))

\* The loops: from start on, until the day is after limit.  Midnights are compared as
\* days are, and a midnight is after a timed date if its day is after the date's.
FirstAfter(repeat, start, limit) ==
  LET walk[d \in Nat] == IF d > limit THEN d ELSE walk[Step(repeat, d)]
  IN  walk[start]

\* The last day that is not after the midnight with which today begins.  Weeks are
\* added to the date with its time, so of a timed one today itself is after it; months
\* are added to the day only.
Passed(repeat, timed, today) == IF repeat = "weekly" /\ timed THEN today - 1 ELSE today

\* Days of a kind are counted from today, intervals from the task's own date.
FindNextTime(repeat, date, timed, today) ==
  IF repeat \in {"daily", "weekdays", "weekends"}
    THEN FirstAfter(repeat, Step(repeat, today), date)
    ELSE FirstAfter(repeat, Step(repeat, date), Passed(repeat, timed, today))

-----------------------------------------------------------------------------
(* giveMoney. *)

\* Mutant: without the comparison of weekdays.
GiveMoneyMutant(repeat, previous, today) ==
  \/ repeat = "never"
  \/ repeat \in {"daily", "weekdays", "weekends"} /\ previous < today
  \/ repeat = "weekly" /\ today - previous >= 7
  \/ repeat = "monthly" /\ Month(previous) # Month(today)

\* For the day of the previous completion, and today.
GiveMoney(repeat, previous, today) ==
  \/ repeat = "never"
  \/ repeat \in {"daily", "weekdays", "weekends"} /\ previous < today
  \/ /\ repeat = "weekly"
     /\ Weekday(today) < Weekday(previous) \/ today - previous >= 7
  \/ repeat = "monthly" /\ Month(previous) # Month(today)

-----------------------------------------------------------------------------
(* What the kinds of repetition mean. *)

\* The days that suit a task with that date.
Suits(repeat, date, d) ==
  CASE repeat = "daily"    -> TRUE
    [] repeat = "weekdays" -> Weekday(d) \in Monday .. Friday
    [] repeat = "weekends" -> Weekday(d) \notin Monday .. Friday
    [] repeat = "weekly"   -> (d - date) % 7 = 0
    [] repeat = "monthly"  -> DayOfMonth(d) = DayOfMonth(date)

\* next is the first suitable day after the date and after today, from today on if it is
\* a timed weekly task.  A month may have no day 29, 30 or 31: a date with such a day may
\* slide into the next month, by no more days than the month is too short, and is still
\* at most 31 days after the day it follows.
FirstSuitable(repeat, date, timed, today, next) ==
  LET since == Passed(repeat, timed, today)
      after == IF date > since THEN date ELSE since
  IN  IF repeat = "monthly" /\ DayOfMonth(date) > 28
        THEN /\ next \in after + 1 .. after + 31
             /\ \/ Suits(repeat, date, next)
                \/ DayOfMonth(next) \in 1 .. DayOfMonth(date) - 28
        ELSE /\ next > after
             /\ Suits(repeat, date, next)
             /\ \A d \in after + 1 .. next - 1 : ~ Suits(repeat, date, d)

\* The period in which at most one completion is rewarded.  Weeks begin on Monday.
Period(repeat, d) ==
  CASE repeat = "weekly"  -> (d + 3) \div 7
    [] repeat = "monthly" -> <<Year(d), Month(d)>>
    [] OTHER              -> d

\* At most one reward in a period, and but for monthly tasks the first completion in it.
OncePerPeriod(repeat, previous, today, rewarded) ==
  LET same == Period(repeat, previous) = Period(repeat, today)
  IN  /\ rewarded => ~ same
      /\ repeat # "monthly" /\ ~ same => rewarded
=============================================================================
