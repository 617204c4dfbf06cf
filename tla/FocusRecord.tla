---------------------------- MODULE FocusRecord ----------------------------
(***************************************************************************)
(* The focus record: saveFocusTime, called without an await by the         *)
(* congratulations of both timers, splits a session over the hours of the  *)
(* day and writes one document per day.  It reads twice before it writes,  *)
(* so sessions that are saved, midnights, kills and a clearing of the      *)
(* records fall between its steps.  A read takes effect where it is        *)
(* answered and its continuation runs later.                               *)
(***************************************************************************)
EXTENDS Integers, FiniteSets

CONSTANTS
  Calls,        \* invocations of saveFocusTime
  Minute,       \* seconds in a minute, minutes in an hour: 60 in the program
  HoursOfDay,   \* 24 in the program
  MinSession,   \* the shortest session that can be finished: 10 in the program
  MaxClock,     \* bound: the last second
  MaxSessions,  \* bound: sessions begun or resumed, and congratulations dismissed
  MaxKills,     \* bound: kills of the app
  MaxClears     \* bound: uses of "Clear Record"

ASSUME ClockAssumption ==
  /\ Minute \in Nat \ {0}
  /\ HoursOfDay \in Nat \ {0}
  /\ MinSession \in Nat
  /\ MaxClock \in Nat

ASSUME CallsAssumption == IsFiniteSet(Calls)

ASSUME BoundsAssumption == MaxSessions \in Nat /\ MaxKills \in Nat /\ MaxClears \in Nat

VARIABLES
  clock,      \* DateTime.now(), in seconds
  session,    \* the timer's startTime, and the seconds counted when it last stood still
  doc,        \* doc[d]: the document of day d in the collection FocusTime
  call,       \* call[c]: the state of the invocation c
  clearing,   \* the days that a suspended clearRecord has found
  paid,       \* paid[d]: history, the coins that sessions finished on day d earned
  spanned,    \* spanned[d][h]: history, the seconds of saved sessions in hour h of day d
  disturbed,  \* history: a save met another one, a kill or a clearing
  acrossDay,  \* history: a session was split on another day than it began or ended
  used        \* how much of each bound is used up

history == <<paid, spanned, disturbed, acrossDay>>
vars == <<clock, session, doc, call, clearing, paid, spanned, disturbed, acrossDay, used>>

Hour == Minute * Minute
Day == HoursOfDay * Hour
Hours == 0 .. HoursOfDay - 1
Days == 0 .. MaxClock \div Day

DayOf(t) == t \div Day
HourOf(t) == (t % Day) \div Hour
HourStart(d, h) == d * Day + h * Hour

NoDoc == [exists |-> FALSE, total |-> 0, hours |-> <<>>, date |-> 0]
\* A session runs; its congratulations are shown; they were dismissed and Done is there
\* again (count-up); or nothing is left but to leave (a countdown at zero).
Stages == {"off", "running", "congratulated", "dismissed", "over"}

NoSession == [stage |-> "off", startTime |-> 0, counted |-> 0]
Idle == [pc |-> "idle", duration |-> 0, date |-> 0, startTime |-> 0, endTime |-> 0,
         hours |-> <<>>, found |-> FALSE]

HourLists == [Hours -> Int] \union {<<>>}

TypeOK ==
  /\ clock \in 0 .. MaxClock
  /\ session \in [stage : Stages, startTime : 0 .. MaxClock, counted : Nat]
  /\ doc \in [Days -> [exists : BOOLEAN, total : Int, hours : HourLists, date : Days]]
  /\ call \in [Calls -> [pc : {"idle", "hours", "split", "exists", "write"},
                         duration : Nat, date : Days, startTime : 0 .. MaxClock,
                         endTime : 0 .. MaxClock, hours : HourLists, found : BOOLEAN]]
  /\ clearing \subseteq Days
  /\ paid \in [Days -> Nat]
  /\ spanned \in [Days -> [Hours -> Nat]]
  /\ disturbed \in BOOLEAN
  /\ acrossDay \in BOOLEAN
  /\ used \in [sessions : 0 .. MaxSessions, kills : 0 .. MaxKills, clears : 0 .. MaxClears]

Saving == {c \in Calls : call[c].pc # "idle"}

Init ==
  /\ clock = 0
  /\ session = NoSession
  /\ doc = [d \in Days |-> NoDoc]
  /\ call = [c \in Calls |-> Idle]
  /\ clearing = {}
  /\ paid = [d \in Days |-> 0]
  /\ spanned = [d \in Days |-> [h \in Hours |-> 0]]
  /\ disturbed = FALSE
  /\ acrossDay = FALSE
  /\ used = [sessions |-> 0, kills |-> 0, clears |-> 0]

-----------------------------------------------------------------------------
(* The arithmetic. *)

\* The three fields of timeString, added up again as seconds, with an hour that
\* counts as a minute.  Dart truncates a quotient and has no negative remainder.
Seconds(difference) ==
  LET hours == IF difference >= 0 THEN difference \div Hour ELSE - ((- difference) \div Hour)
      rest  == difference % Hour
  IN  rest + hours * Minute

\* Mutant: the hour of the start is counted from its beginning.
SplitMutant(today, startTime, endTime) ==
  LET first == HourOf(startTime)
      last  == HourOf(endTime)
  IN  [h \in Hours |->
        IF h = first /\ h = last THEN Seconds(endTime - startTime)
        ELSE IF h = first THEN Seconds(startTime - HourStart(today, h))
        ELSE IF h = last THEN Seconds(endTime - HourStart(today, h))
        ELSE IF h \in first .. last THEN Minute
        ELSE 0]

\* The first session of a day is split at the ends of its hours, which are those
\* of the day on which it is split; an hour between them counts 60.
Split(today, startTime, endTime) ==
  LET first == HourOf(startTime)
      last  == HourOf(endTime)
  IN  [h \in Hours |->
        IF h = first /\ h = last THEN Seconds(endTime - startTime)
        ELSE IF h = first THEN Seconds(HourStart(today, h + 1) - startTime)
        ELSE IF h = last THEN Seconds(endTime - HourStart(today, h))
        ELSE IF h \in first .. last THEN Minute
        ELSE 0]

\* A later session counts only if it ends in the hour in which it began.
AddWithinHour(hours, startTime, endTime) ==
  [h \in Hours |->
    IF h = HourOf(startTime) /\ h = HourOf(endTime)
      THEN hours[h] + Seconds(endTime - startTime) ELSE hours[h]]

-----------------------------------------------------------------------------
(* Sessions of the timers: module FocusTimer in outline. *)

Advance ==
  /\ clock < MaxClock
  /\ clock' = clock + 1
  /\ UNCHANGED <<session, doc, call, clearing, history, used>>

\* startTimer: of a new session, or of a count-up session that goes on after its
\* cancel dialog, which is shown for short counts only and during which nothing is
\* counted.  A countdown that goes on is a session of the rest.
Begin ==
  /\ used.sessions < MaxSessions
  /\ \/ /\ session.stage = "off"
        /\ session' = [stage |-> "running", startTime |-> clock, counted |-> 0]
     \/ /\ session.stage = "running"
        /\ \E n \in 0 .. clock - session.startTime :
             /\ session.counted + n < MinSession
             /\ session' = [session EXCEPT !.startTime = clock, !.counted = @ + n]
  /\ used' = [used EXCEPT !.sessions = @ + 1]
  /\ UNCHANGED <<clock, doc, call, clearing, history>>

\* stopTimer, by "Yes" of the cancel dialog or "Back" of the congratulations; or the page
\* is left.
Stop ==
  /\ session.stage # "off"
  /\ session' = NoSession
  /\ UNCHANGED <<clock, doc, call, clearing, history, used>>

\* The seconds of startTime .. endTime in hour h of day d.
Overlap(d, h, startTime, endTime) ==
  LET from == IF startTime > HourStart(d, h) THEN startTime ELSE HourStart(d, h)
      to   == IF endTime < HourStart(d, h + 1) THEN endTime ELSE HourStart(d, h + 1)
  IN  IF from < to THEN to - from ELSE 0

\* The builder of the congratulations: saveFocusTime runs up to its first await.
Congratulate(c, seconds, endTime) ==
  LET start    == session.startTime
      duration == Seconds(seconds)
      today    == DayOf(clock)
  IN  /\ call[c] = Idle
      /\ call' = [call EXCEPT ![c] =
           [Idle EXCEPT !.pc = "hours", !.duration = duration, !.date = today,
                        !.startTime = start, !.endTime = endTime]]
      /\ paid' = [paid EXCEPT ![today] = @ + duration]
      /\ spanned' = [d \in Days |-> [h \in Hours |->
           spanned[d][h] + Overlap(d, h, start, endTime)]]
      /\ disturbed' = (disturbed \/ Saving # {} \/ clearing # {})
      /\ UNCHANGED <<clock, doc, clearing, acrossDay, used>>

\* A count-up session ends now.  Dismissed congratulations leave it as it stood: Done
\* builds them again, for the same count and startTime and a later endTime.
Done(c) ==
  LET seconds == IF session.stage = "running"
                   THEN session.counted + clock - session.startTime ELSE session.counted
  IN  /\ session.stage \in {"running", "dismissed"}
      /\ seconds >= MinSession
      /\ Congratulate(c, seconds, clock)
      /\ session' = [session EXCEPT !.stage = "congratulated", !.counted = seconds]

\* A countdown ended when it was due, which is noticed later.
AtZero(c) ==
  /\ session.stage = "running"
  /\ session.counted = 0
  /\ \E endTime \in session.startTime .. clock :
       /\ endTime - session.startTime >= MinSession
       /\ Congratulate(c, endTime - session.startTime, endTime)
  /\ session' = [NoSession EXCEPT !.stage = "over"]

Finish(c) == Done(c) \/ AtZero(c)

\* The device's back button closes the congratulations, and stops nothing.
Dismiss ==
  /\ used.sessions < MaxSessions
  /\ session.stage = "congratulated"
  /\ session' = [session EXCEPT !.stage = "dismissed"]
  /\ used' = [used EXCEPT !.sessions = @ + 1]
  /\ UNCHANGED <<clock, doc, call, clearing, history>>

-----------------------------------------------------------------------------
(* saveFocusTime. *)

\* The query of getHoursList.
AnswerHours(c) ==
  /\ call[c].pc = "hours"
  /\ call' = [call EXCEPT ![c].pc = "split", ![c].hours = doc[call[c].date].hours]
  /\ UNCHANGED <<clock, session, doc, clearing, history, used>>

\* Its continuation, up to the second await.
SplitHours(c) ==
  LET today == DayOf(clock)
      start == call[c].startTime
      end   == call[c].endTime
      hours == call[c].hours
  IN  /\ call[c].pc = "split"
      /\ call' = [call EXCEPT ![c].pc = "exists",
           ![c].hours = IF hours = <<>> THEN Split(today, start, end)
                        ELSE AddWithinHour(hours, start, end)]
      /\ acrossDay' = (acrossDay \/ DayOf(start) # today \/ DayOf(end) # today)
      /\ UNCHANGED <<clock, session, doc, clearing, paid, spanned, disturbed, used>>

AnswerExists(c) ==
  /\ call[c].pc = "exists"
  /\ call' = [call EXCEPT ![c].pc = "write", ![c].found = doc[call[c].date].exists]
  /\ UNCHANGED <<clock, session, doc, clearing, history, used>>

\* Mutant: the document is always set.
WriteSetMutant(c) ==
  LET date == call[c].date
  IN  /\ call[c].pc = "write"
      /\ doc' = [doc EXCEPT ![date] =
           [exists |-> TRUE, total |-> call[c].duration, hours |-> call[c].hours,
            date |-> DayOf(clock)]]
      /\ call' = [call EXCEPT ![c] = Idle]
      /\ UNCHANGED <<clock, session, clearing, history, used>>

\* Mutant: the document of the day on which it is written.
WriteTodayMutant(c) ==
  LET date == DayOf(clock)
      old  == doc[date]
  IN  /\ call[c].pc = "write"
      /\ doc' = [doc EXCEPT ![date] =
           IF ~ call[c].found
             THEN [exists |-> TRUE, total |-> call[c].duration, hours |-> call[c].hours,
                   date |-> DayOf(clock)]
           ELSE IF old.exists
             THEN [old EXCEPT !.total = @ + call[c].duration, !.hours = call[c].hours]
           ELSE old]
      /\ call' = [call EXCEPT ![c] = Idle]
      /\ UNCHANGED <<clock, session, clearing, history, used>>

\* An update increments the total, and throws when the document has gone; set
\* replaces whatever is there by now.
Write(c) ==
  LET date == call[c].date
      old  == doc[date]
  IN  /\ call[c].pc = "write"
      /\ doc' = [doc EXCEPT ![date] =
           IF ~ call[c].found
             THEN [exists |-> TRUE, total |-> call[c].duration, hours |-> call[c].hours,
                   date |-> DayOf(clock)]
           ELSE IF old.exists
             THEN [old EXCEPT !.total = @ + call[c].duration, !.hours = call[c].hours]
           ELSE old]
      /\ call' = [call EXCEPT ![c] = Idle]
      /\ UNCHANGED <<clock, session, clearing, history, used>>

-----------------------------------------------------------------------------
(* Clearing, and kills. *)

\* The last part of clearRecord: the documents that its query finds are deleted
\* when the answer arrives.
AnswerClear ==
  /\ used.clears < MaxClears
  /\ clearing = {}
  /\ clearing' = {d \in Days : doc[d].exists}
  /\ used' = [used EXCEPT !.clears = @ + 1]
  /\ disturbed' = TRUE
  /\ UNCHANGED <<clock, session, doc, call, paid, spanned, acrossDay>>

Clear ==
  /\ clearing # {}
  /\ doc' = [d \in Days |-> IF d \in clearing THEN NoDoc ELSE doc[d]]
  /\ clearing' = {}
  /\ UNCHANGED <<clock, session, call, history, used>>

Kill ==
  /\ used.kills < MaxKills
  /\ session' = NoSession
  /\ call' = [c \in Calls |-> Idle]
  /\ clearing' = {}
  /\ disturbed' = (disturbed \/ Saving # {})
  /\ used' = [used EXCEPT !.kills = @ + 1]
  /\ UNCHANGED <<clock, doc, paid, spanned, acrossDay>>

-----------------------------------------------------------------------------

Next ==
  \/ Advance \/ Begin \/ Stop \/ Dismiss
  \/ \E c \in Calls : Finish(c) \/ AnswerHours(c) \/ SplitHours(c) \/ AnswerExists(c) \/ Write(c)
  \/ AnswerClear \/ Clear \/ Kill

Spec == Init /\ [][Next]_vars

-----------------------------------------------------------------------------
(* Properties. *)

\* Whatever saves, clearings and kills overlap, the focus time recorded for a day
\* (line_chart, heatmap) is never more than the coins its sessions earned: a set
\* or an increment chosen by an old read may lose a session, never count it twice.
RecordedWasPaid == \A d \in Days : doc[d].total <= paid[d]

\* Saves that run to their end, one after the other, lose nothing: although the
\* coins are credited at once and the record two awaits later, between sessions
\* both agree.
RecordIsComplete ==
  ~ disturbed /\ Saving = {} => \A d \in Days : doc[d].total = paid[d]

\* The bar chart of a day shows no hour with more seconds than the sessions saved had in
\* it, from startTime to endTime, whatever hour boundaries they cross and whatever lists
\* the saves overwrite, unless midnight passed before a session was split.  A session
\* counts once, but as often as its dismissed congratulations are built again.
HoursAreSpanned ==
  ~ acrossDay =>
    \A d \in Days : doc[d].exists =>
      \A h \in Hours : doc[d].hours[h] <= spanned[d][h]
=============================================================================
