----------------------------- MODULE RepeatDays -----------------------------
(***************************************************************************)
(* A repeated task that is completed now and then, one completion at a     *)
(* time, by an app that is restarted every day: what findNextTime and      *)
(* giveMoney say then, compared with what the kinds of repetition mean.    *)
(***************************************************************************)
EXTENDS Repeat

CONSTANTS
  Repeats,   \* the kinds of repetition
  Starts,    \* days on which the task may be created
  DaysAhead, \* bound: how far ahead its first date may lie
  Length     \* bound: for how many days it is followed

ASSUME RepeatDaysAssumption ==
  /\ Repeats \subseteq {"daily", "weekdays", "weekends", "weekly", "monthly"}
  /\ Starts \subseteq Nat \ {0}
  /\ DaysAhead \in Nat
  /\ Length \in Nat

VARIABLES
  repeat,    \* the task's repetition
  last,      \* the last day it is followed
  today,     \* the day
  date,      \* the task's date
  timed,     \* it has a time of day
  prev       \* its prevCompletionTime: 1970 before the first completion

days == <<repeat, last, today, date, timed, prev>>

InitDays ==
  /\ repeat \in Repeats
  /\ \E start \in Starts : today = start /\ last = start + Length
  /\ date \in today .. today + DaysAhead
  /\ timed \in BOOLEAN
  /\ prev = 0

Tomorrow ==
  /\ today < last
  /\ today' = today + 1
  /\ UNCHANGED <<repeat, last, date, timed, prev>>

\* The dates that a completion writes: the next one is stored as a midnight.
Complete ==
  /\ date <= last
  /\ date' = FindNextTime(repeat, date, timed, today)
  /\ timed' = FALSE
  /\ prev' = today
  /\ UNCHANGED <<repeat, last, today>>

NextDays == Tomorrow \/ Complete

DaysSpec == InitDays /\ [][NextDays]_days

-----------------------------------------------------------------------------
(* Properties. *)

\* After any completions findNextTime returns the first suitable day after both today
\* and the date of the task, so that no occurrence is skipped and none comes twice; only
\* a weekly task that was never completed may be dated today.
NextIsFirst ==
  FirstSuitable(repeat, date, timed, today, FindNextTime(repeat, date, timed, today))

\* Two completions in the same day, week or month are not both rewarded, although
\* giveMoney compares weekdays and months only; and but for monthly tasks, a
\* completion in a new period is rewarded.
RewardOncePerPeriod ==
  OncePerPeriod(repeat, prev, today, GiveMoney(repeat, prev, today))
=============================================================================
