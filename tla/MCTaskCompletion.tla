-------------------------- MODULE MCTaskCompletion --------------------------
(***************************************************************************)
(* TaskCompletion with the calendar of module Repeat.                      *)
(***************************************************************************)
EXTENDS TaskCompletion, TLC

R == INSTANCE Repeat

MCNextDate(repeat, date, timed, day) == R!FindNextTime(repeat, date, timed, day)
MCRewarded(repeat, previous, day) == R!GiveMoney(repeat, previous, day)

Kind(repeat, timed, hasTime, hasReminder) ==
  [repeat |-> repeat, timed |-> timed, hasTime |-> hasTime, hasReminder |-> hasReminder]

MCReminded == {Kind("daily", FALSE, TRUE, TRUE)}
MCKinds == {Kind("daily", FALSE, TRUE, TRUE), Kind("weekends", TRUE, FALSE, FALSE),
            Kind("never", TRUE, TRUE, TRUE)}

Interchangeable == Permutations(Calls)
=============================================================================
