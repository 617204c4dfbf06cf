------------------------ MODULE FocusRecordProofs --------------------------
(***************************************************************************)
(* Theorems about FocusRecord, for every length of the hours and days and  *)
(* any number of overlapping saves, clearings and kills.                   *)
(***************************************************************************)
EXTENDS FocusRecord, DataTheorems, TLAPS

-----------------------------------------------------------------------------
(* Hours and days. *)

LEMMA Lengths ==
  /\ Minute \in Nat \ {0}
  /\ Hour \in Nat \ {0}
  /\ Day \in Nat \ {0}
  /\ Minute <= Hour
BY ClockAssumption DEF Hour, Day

\* Division with remainder, by a divisor that is not a numeral.
LEMMA Divide ==
  ASSUME NEW a \in Nat, NEW b \in Nat \ {0}
  PROVE  /\ a \div b \in Nat
         /\ a % b \in 0 .. (b - 1)
         /\ a = b * (a \div b) + (a % b)
OBVIOUS

LEMMA TimesMonotone ==
  ASSUME NEW a \in Nat, NEW b \in Nat, NEW c \in Nat, a <= b
  PROVE  a * c <= b * c
OBVIOUS

\* Later seconds are not of earlier days.
LEMMA DaysInOrder ==
  ASSUME NEW t \in Nat, NEW u \in Nat, t <= u
  PROVE  DayOf(t) \in Nat /\ DayOf(u) \in Nat /\ DayOf(t) <= DayOf(u)
<1> DEFINE q == t \div Day
           p == u \div Day
<1>1. q \in Nat /\ p \in Nat
  BY Lengths, Divide
<1>2. t = Day * q + (t % Day) /\ u = Day * p + (u % Day)
  BY Lengths, Divide
<1>3. t % Day \in 0 .. (Day - 1) /\ u % Day \in 0 .. (Day - 1)
  BY Lengths, Divide
<1> HIDE DEF q, p
<1>4. ASSUME p < q PROVE FALSE
  <2>1. (p + 1) * Day <= q * Day
    BY <1>1, <1>4, Lengths, TimesMonotone
  <2>2. (p + 1) * Day = p * Day + Day /\ p * Day \in Nat /\ q * Day \in Nat
    BY <1>1, Lengths
  <2>3. Day * q = q * Day /\ Day * p = p * Day
    BY <1>1, Lengths
  <2> HIDE DEF q, p
  <2> QED
    BY <1>2, <1>3, <2>1, <2>2, <2>3, Lengths
<1> QED
  BY <1>1, <1>4 DEF q, p, DayOf

\* The days of the clock.
LEMMA DayType ==
  ASSUME NEW t \in 0 .. MaxClock
  PROVE  DayOf(t) \in Days
<1>1. t \in Nat /\ MaxClock \in Nat /\ t <= MaxClock
  BY ClockAssumption
<1> QED
  BY <1>1, DaysInOrder DEF DayOf, Days

\* The beginnings of the hours of a day.
LEMMA HourStarts ==
  ASSUME NEW d \in Nat, NEW h \in Nat, NEW k \in Nat
  PROVE  /\ HourStart(d, h) \in Nat
         /\ HourStart(d, h + 1) = HourStart(d, h) + Hour
         /\ h < k => HourStart(d, h + 1) <= HourStart(d, k)
<1>1. d * Day \in Nat /\ h * Hour \in Nat /\ k * Hour \in Nat /\ Hour \in Nat
  BY Lengths
<1>2. (h + 1) * Hour = h * Hour + Hour
  BY Lengths
<1>3. h < k => (h + 1) * Hour <= k * Hour
  BY Lengths, TimesMonotone
<1> QED
  BY <1>1, <1>2, <1>3 DEF HourStart

\* A second lies between the beginning and the end of its hour.
LEMMA InItsHour ==
  ASSUME NEW t \in Nat
  PROVE  /\ DayOf(t) \in Nat
         /\ HourOf(t) \in Nat
         /\ HourStart(DayOf(t), HourOf(t)) <= t
         /\ t < HourStart(DayOf(t), HourOf(t) + 1)
<1> DEFINE q == t \div Day
           r == t % Day
           f == r \div Hour
           s == r % Hour
<1>1. q \in Nat /\ r \in 0 .. (Day - 1) /\ t = Day * q + r
  BY Lengths, Divide
<1>2. r \in Nat
  BY <1>1, Lengths
<1> HIDE DEF q, r
<1>3. f \in Nat /\ s \in 0 .. (Hour - 1) /\ r = Hour * f + s
  BY <1>2, Lengths, Divide
<1> HIDE DEF f, s
<1>4. HourStart(q, f) = Day * q + Hour * f
  BY <1>1, <1>3, Lengths DEF HourStart
<1>5. HourStart(q, f + 1) = HourStart(q, f) + Hour /\ HourStart(q, f) \in Nat
  BY <1>1, <1>3, HourStarts
<1>6. HourStart(q, f) <= t /\ t < HourStart(q, f + 1)
  <2>1. Day * q \in Nat /\ Hour * f \in Nat
    BY <1>1, <1>3, Lengths
  <2>2. t = HourStart(q, f) + s
    BY <1>1, <1>3, <1>4, <2>1, <1>2, Lengths
  <2> QED
    BY <2>2, <1>3, <1>5, Lengths
<1>7. DayOf(t) = q /\ HourOf(t) = f
  BY DEF DayOf, HourOf, q, f, r
<1> QED
  BY <1>1, <1>3, <1>6, <1>7

-----------------------------------------------------------------------------
(* The arithmetic of the record. *)

\* A difference that counts an hour as a minute is never more than the seconds.
LEMMA SecondsType ==
  ASSUME NEW difference \in Int
  PROVE  /\ Seconds(difference) \in Int
         /\ difference >= 0 => Seconds(difference) \in 0 .. difference
<1> DEFINE h == difference \div Hour
           r == difference % Hour
<1>1. r \in 0 .. (Hour - 1) /\ (- difference) \div Hour \in Int /\ h \in Int
  BY Lengths
<1>2. CASE difference >= 0
  <2>1. h \in Nat /\ difference = Hour * h + r
    BY <1>2, Lengths, Divide
  <2>2. Seconds(difference) = r + h * Minute
    BY <1>2 DEF Seconds
  <2> HIDE DEF h, r
  <2>3. h * Minute \in Nat /\ Hour * h \in Nat /\ Minute * h <= Hour * h /\ h * Minute = Minute * h
    BY <2>1, Lengths, TimesMonotone
  <2> QED
    BY <1>1, <2>1, <2>2, <2>3, Lengths
<1>3. CASE difference < 0
  <2>1. Seconds(difference) = r + (- ((- difference) \div Hour)) * Minute
    BY <1>3 DEF Seconds
  <2> QED
    BY <1>1, <1>3, <2>1, Lengths
<1> QED
  BY <1>2, <1>3

LEMMA OverlapType ==
  ASSUME NEW d \in Nat, NEW h \in Nat, NEW startTime \in Nat, NEW endTime \in Nat
  PROVE  Overlap(d, h, startTime, endTime) \in Nat
<1>1. HourStart(d, h) \in Nat /\ HourStart(d, h + 1) \in Nat
  BY HourStarts
<1> QED
  BY <1>1 DEF Overlap

LEMMA SplitType ==
  ASSUME NEW d \in Nat, NEW startTime \in Nat, NEW endTime \in Nat
  PROVE  Split(d, startTime, endTime) \in [Hours -> Int]
<1> SUFFICES ASSUME NEW h \in Hours PROVE Split(d, startTime, endTime)[h] \in Int
  BY DEF Split
<1>1. h \in Nat /\ h + 1 \in Nat
  BY ClockAssumption DEF Hours
<1>2. HourStart(d, h) \in Nat /\ HourStart(d, h + 1) \in Nat
  BY <1>1, HourStarts
<1>3. /\ Seconds(endTime - startTime) \in Int
      /\ Seconds(HourStart(d, h + 1) - startTime) \in Int
      /\ Seconds(endTime - HourStart(d, h)) \in Int
  BY <1>2, SecondsType
<1> QED
  BY <1>3, Lengths DEF Split

LEMMA AddType ==
  ASSUME NEW hours \in [Hours -> Int], NEW startTime \in Nat, NEW endTime \in Nat
  PROVE  AddWithinHour(hours, startTime, endTime) \in [Hours -> Int]
<1>1. Seconds(endTime - startTime) \in Int
  BY SecondsType
<1> QED
  BY <1>1 DEF AddWithinHour

\* A bound on a sum with total carries over to one with next, if there is as much room.
LEMMA Shifted ==
  ASSUME NEW x \in Int, NEW total \in Nat, NEW next \in Nat,
         NEW f \in Nat, NEW g \in Nat, g - next >= f - total
  PROVE  /\ x + total <= f => x + next <= g
         /\ \A s \in Nat : x + total - s <= f => x + next - s <= g
OBVIOUS

\* An hour of the list gets no more seconds of a session than the session spent in
\* it, if the list is split on the day of the session.
LEMMA SplitWithin ==
  ASSUME NEW start \in Nat, NEW end \in Nat, start <= end,
         NEW d \in Nat, DayOf(start) = d, DayOf(end) = d, NEW h \in Hours
  PROVE  Split(d, start, end)[h] <= Overlap(d, h, start, end)
<1> DEFINE f == HourOf(start)
           l == HourOf(end)
<1>1. h \in Nat
  BY ClockAssumption DEF Hours
<1>2. f \in Nat /\ HourStart(d, f) <= start /\ start < HourStart(d, f + 1)
  BY InItsHour
<1>3. l \in Nat /\ HourStart(d, l) <= end /\ end < HourStart(d, l + 1)
  BY InItsHour
<1> HIDE DEF f, l
<1>4. /\ HourStart(d, h) \in Nat /\ HourStart(d, h + 1) \in Nat
      /\ HourStart(d, f) \in Nat /\ HourStart(d, f + 1) \in Nat
      /\ HourStart(d, l) \in Nat /\ HourStart(d, l + 1) \in Nat
      /\ HourStart(d, h + 1) = HourStart(d, h) + Hour
  BY <1>1, <1>2, <1>3, HourStarts
<1>5. /\ f < l => HourStart(d, f + 1) <= HourStart(d, l)
      /\ l < f => HourStart(d, l + 1) <= HourStart(d, f)
      /\ f < h => HourStart(d, f + 1) <= HourStart(d, h)
      /\ h < l => HourStart(d, h + 1) <= HourStart(d, l)
  BY <1>1, <1>2, <1>3, HourStarts
<1>6. f <= l
  BY <1>2, <1>3, <1>4, <1>5
<1>7. Split(d, start, end)[h] =
        IF h = f /\ h = l THEN Seconds(end - start)
        ELSE IF h = f THEN Seconds(HourStart(d, h + 1) - start)
        ELSE IF h = l THEN Seconds(end - HourStart(d, h))
        ELSE IF h \in f .. l THEN Minute
        ELSE 0
  BY DEF Split, f, l
<1>8. CASE h = f /\ h = l
  <2>1. Seconds(end - start) \in 0 .. (end - start)
    BY SecondsType
  <2> QED
    BY <1>2, <1>3, <1>4, <1>7, <1>8, <2>1 DEF Overlap
<1>9. CASE h = f /\ h # l
  <2>1. HourStart(d, h + 1) <= end
    BY <1>1, <1>2, <1>3, <1>4, <1>5, <1>6, <1>9
  <2>2. Seconds(HourStart(d, h + 1) - start) \in 0 .. (HourStart(d, h + 1) - start)
    BY <1>2, <1>4, <1>9, SecondsType
  <2> QED
    BY <1>2, <1>3, <1>4, <1>7, <1>9, <2>1, <2>2 DEF Overlap
<1>10. CASE h # f /\ h = l
  <2>1. start < HourStart(d, h)
    BY <1>1, <1>2, <1>3, <1>4, <1>5, <1>6, <1>10
  <2>2. Seconds(end - HourStart(d, h)) \in 0 .. (end - HourStart(d, h))
    BY <1>3, <1>4, <1>10, SecondsType
  <2> QED
    BY <1>2, <1>3, <1>4, <1>7, <1>10, <2>1, <2>2 DEF Overlap
<1>11. CASE h # f /\ h # l /\ h \in f .. l
  <2>1. start < HourStart(d, h) /\ HourStart(d, h + 1) <= end
    BY <1>1, <1>2, <1>3, <1>4, <1>5, <1>11
  <2>2. Overlap(d, h, start, end) = Hour
    BY <1>4, <2>1, Lengths DEF Overlap
  <2> QED
    BY <1>7, <1>11, <2>2, Lengths
<1>12. CASE h \notin f .. l
  <2>1. Split(d, start, end)[h] = 0
    BY <1>1, <1>2, <1>3, <1>6, <1>7, <1>12
  <2> QED
    BY <1>1, <2>1, OverlapType
<1> QED
  BY <1>8, <1>9, <1>10, <1>11, <1>12

\* So does an hour of a list to which a later session is added.
LEMMA AddWithin ==
  ASSUME NEW hours \in [Hours -> Int],
         NEW start \in Nat, NEW end \in Nat, start <= end,
         NEW d \in Nat, DayOf(start) = d, DayOf(end) = d, NEW h \in Hours
  PROVE  AddWithinHour(hours, start, end)[h] <= hours[h] + Overlap(d, h, start, end)
<1>1. h \in Nat
  BY ClockAssumption DEF Hours
<1>2. Overlap(d, h, start, end) \in Nat
  BY <1>1, OverlapType
<1>3. CASE h = HourOf(start) /\ h = HourOf(end)
  <2>1. Split(d, start, end)[h] = Seconds(end - start)
    BY <1>3 DEF Split
  <2>2. Seconds(end - start) \in Int
    BY SecondsType
  <2> QED
    BY <1>2, <1>3, <2>1, <2>2, SplitWithin DEF AddWithinHour
<1>4. CASE ~ (h = HourOf(start) /\ h = HourOf(end))
  BY <1>2, <1>4 DEF AddWithinHour
<1> QED
  BY <1>3, <1>4

-----------------------------------------------------------------------------
(* Types. *)

SessionStates == [stage : Stages, startTime : 0 .. MaxClock, counted : Nat]
Docs == [exists : BOOLEAN, total : Int, hours : HourLists, date : Days]
CallStates == [pc : {"idle", "hours", "split", "exists", "write"}, duration : Nat,
               date : Days, startTime : 0 .. MaxClock, endTime : 0 .. MaxClock,
               hours : HourLists, found : BOOLEAN]
Uses == [sessions : 0 .. MaxSessions, kills : 0 .. MaxKills, clears : 0 .. MaxClears]

\* An invocation on its way has a session that lies behind, and once it has split
\* it a list.
CallsInOrder ==
  \A c \in Calls : call[c].pc # "idle" =>
    /\ call[c].startTime <= call[c].endTime
    /\ call[c].endTime <= clock
    /\ DayOf(call[c].endTime) <= call[c].date
    /\ call[c].date <= DayOf(clock)
    /\ call[c].pc \in {"exists", "write"} => call[c].hours \in [Hours -> Int]

\* A document that exists has a list, and one that does not counts nothing.
DocsInOrder ==
  \A d \in Days :
    /\ doc[d].exists => doc[d].hours \in [Hours -> Int]
    /\ ~ doc[d].exists => doc[d].hours = <<>> /\ doc[d].total = 0
    /\ doc[d].total >= 0

TypeInv ==
  /\ TypeOK
  /\ session.stage # "off" => session.startTime <= clock
  /\ CallsInOrder
  /\ DocsInOrder

LEMMA Constants ==
  /\ 0 \in 0 .. MaxClock
  /\ 0 \in Days
  /\ Days \subseteq Nat
  /\ Hours \subseteq Nat
  /\ Hours # {}
  /\ MaxClock \in Nat
  /\ MaxSessions \in Nat /\ MaxKills \in Nat /\ MaxClears \in Nat
<1>1. MaxClock \in Nat /\ MaxClock \div Day \in Nat
  BY ClockAssumption, Lengths, Divide
<1> QED
  BY <1>1, ClockAssumption, BoundsAssumption DEF Days, Hours

LEMMA DaysAreNatural == Days \subseteq Nat
BY Constants

LEMMA NothingTypes == NoSession \in SessionStates /\ NoDoc \in Docs /\ Idle \in CallStates
BY Constants DEF NoSession, SessionStates, Stages, NoDoc, Docs, Idle, CallStates, HourLists

\* A list is not the missing one.
LEMMA ListIsNotEmpty ==
  ASSUME NEW hours \in [Hours -> Int]
  PROVE  hours # <<>>
BY Constants

LEMMA InitType == Init => TypeInv
<1> SUFFICES ASSUME Init PROVE TypeInv
  OBVIOUS
<1>1. TypeOK
  <2>1. session \in SessionStates /\ doc \in [Days -> Docs] /\ call \in [Calls -> CallStates]
    BY NothingTypes DEF Init
  <2>2. used \in Uses /\ clock \in 0 .. MaxClock
    BY Constants DEF Init, Uses
  <2>3. paid \in [Days -> Nat] /\ spanned \in [Days -> [Hours -> Nat]]
    BY DEF Init
  <2>4. clearing \subseteq Days /\ disturbed \in BOOLEAN /\ acrossDay \in BOOLEAN
    BY DEF Init
  <2> QED
    BY <2>1, <2>2, <2>3, <2>4 DEF TypeOK, SessionStates, Docs, CallStates, Uses
<1>2. session.stage = "off"
  BY DEF Init, NoSession
<1>3. CallsInOrder
  BY DEF Init, CallsInOrder, Idle
<1>4. DocsInOrder
  BY DEF Init, DocsInOrder, NoDoc
<1> QED
  BY <1>1, <1>2, <1>3, <1>4 DEF TypeInv

LEMMA AdvanceType == ASSUME TypeInv, Advance PROVE TypeInv'
<1>1. TypeOK'
  BY ClockAssumption DEF TypeInv, TypeOK, Advance, history
<1>2. clock \in Nat /\ clock' \in Nat /\ clock <= clock'
  BY ClockAssumption DEF TypeInv, TypeOK, Advance
<1>3. DayOf(clock) \in Nat /\ DayOf(clock') \in Nat /\ DayOf(clock) <= DayOf(clock')
  BY <1>2, DaysInOrder
<1>4. UNCHANGED <<session, doc, call>>
  BY DEF Advance
<1>5. session.startTime \in Nat
  BY DEF TypeInv, TypeOK
<1>6. session'.stage # "off" => session'.startTime <= clock'
  BY <1>2, <1>4, <1>5 DEF TypeInv
<1>7. CallsInOrder'
  <2> SUFFICES ASSUME NEW c \in Calls, call[c].pc # "idle"
               PROVE  call[c].endTime <= clock' /\ call[c].date <= DayOf(clock')
    BY <1>4 DEF TypeInv, CallsInOrder
  <2>1. call[c].endTime \in Nat /\ call[c].date \in Nat
    <3>1. call[c] \in CallStates
      BY DEF TypeInv, TypeOK, CallStates
    <3>2. call[c].endTime \in 0 .. MaxClock /\ call[c].date \in Days
      BY <3>1 DEF CallStates
    <3>3. call[c].endTime \in Nat
      BY <3>2, ClockAssumption
    <3>4. call[c].date \in Nat
      BY <3>2, DaysAreNatural
    <3> QED
      BY <3>3, <3>4
  <2> QED
    BY <1>2, <1>3, <2>1 DEF TypeInv, CallsInOrder
<1>8. DocsInOrder'
  BY <1>4 DEF TypeInv, DocsInOrder
<1> QED
  BY <1>1, <1>6, <1>7, <1>8 DEF TypeInv

LEMMA BeginType == ASSUME TypeInv, Begin PROVE TypeInv'
<1>1. clock \in 0 .. MaxClock /\ clock \in Nat
  BY DEF TypeInv, TypeOK
<1>2. session' \in SessionStates /\ session'.startTime = clock
  <2>1. CASE session' = [stage |-> "running", startTime |-> clock, counted |-> 0]
    BY <1>1, <2>1 DEF SessionStates, Stages
  <2>2. CASE \E n \in 0 .. clock - session.startTime :
               session' = [session EXCEPT !.startTime = clock, !.counted = @ + n]
    <3>1. PICK n \in 0 .. clock - session.startTime :
            session' = [session EXCEPT !.startTime = clock, !.counted = @ + n]
      BY <2>2
    <3>2. session \in SessionStates
      BY DEF TypeInv, TypeOK, SessionStates
    <3>3. session.counted + n \in Nat /\ session.counted \in Nat
      BY <1>1, <3>2 DEF SessionStates
    <3> QED
      BY <1>1, <3>1, <3>2, <3>3 DEF SessionStates
  <2> QED
    BY <2>1, <2>2 DEF Begin
<1>3. UNCHANGED <<clock, doc, call, clearing, paid, spanned, disturbed, acrossDay>>
  BY DEF Begin, history
<1>4. used' \in Uses
  <2>1. used \in Uses
    BY DEF TypeInv, TypeOK, Uses
  <2>2. used.sessions + 1 \in 0 .. MaxSessions
    <3>1. used.sessions < MaxSessions
      BY DEF Begin
    <3>2. used.sessions \in 0 .. MaxSessions
      BY <2>1 DEF Uses
    <3> QED
      BY <3>1, <3>2, BoundsAssumption
  <2>3. used' = [used EXCEPT !.sessions = @ + 1]
    BY DEF Begin
  <2> QED
    BY <2>1, <2>2, <2>3 DEF Uses
<1>5. TypeOK'
  BY <1>2, <1>3, <1>4 DEF TypeInv, TypeOK, SessionStates, Uses
<1>6. session'.stage # "off" => session'.startTime <= clock'
  BY <1>1, <1>2, <1>3
<1> QED
  BY <1>3, <1>5, <1>6 DEF TypeInv, CallsInOrder, DocsInOrder

LEMMA StopType == ASSUME TypeInv, Stop PROVE TypeInv'
<1>1. session' = NoSession /\ UNCHANGED <<clock, doc, call, clearing, paid, spanned, disturbed, acrossDay, used>>
  BY DEF Stop, history
<1>2. TypeOK' /\ session'.stage = "off"
  BY <1>1, NothingTypes DEF TypeInv, TypeOK, NoSession, SessionStates
<1> QED
  BY <1>1, <1>2 DEF TypeInv, CallsInOrder, DocsInOrder

LEMMA DismissType == ASSUME TypeInv, Dismiss PROVE TypeInv'
<1>1. /\ session.stage # "off"
      /\ session' = [session EXCEPT !.stage = "dismissed"]
      /\ UNCHANGED <<clock, doc, call, clearing, paid, spanned, disturbed, acrossDay>>
  BY DEF Dismiss, history
<1>2. session \in SessionStates
  BY DEF TypeInv, TypeOK, SessionStates
<1>3. session' \in SessionStates /\ session'.startTime = session.startTime
  BY <1>1, <1>2 DEF SessionStates, Stages
<1>4. used' \in Uses
  <2>1. used \in Uses
    BY DEF TypeInv, TypeOK, Uses
  <2>2. used.sessions < MaxSessions /\ used.sessions \in 0 .. MaxSessions
    BY <2>1 DEF Dismiss, Uses
  <2>3. used.sessions + 1 \in 0 .. MaxSessions
    BY <2>2, BoundsAssumption
  <2>4. used' = [used EXCEPT !.sessions = @ + 1]
    BY DEF Dismiss
  <2> QED
    BY <2>1, <2>3, <2>4 DEF Uses
<1>5. TypeOK'
  BY <1>1, <1>3, <1>4 DEF TypeInv, TypeOK, SessionStates, Uses
<1> QED
  BY <1>1, <1>3, <1>5 DEF TypeInv, CallsInOrder, DocsInOrder

\* What the congratulations hand over to saveFocusTime, which they also pay.
HandsOver(c) ==
  /\ doc' = doc /\ acrossDay' = acrossDay
  /\ call[c].pc = "idle" /\ call'[c].pc = "hours"
  /\ \A k \in Calls \ {c} : call'[k] = call[k]
  /\ paid' = [paid EXCEPT ![call'[c].date] = @ + call'[c].duration]
  /\ spanned' = [d \in Days |-> [h \in Hours |->
       spanned[d][h] + Overlap(d, h, call'[c].startTime, call'[c].endTime)]]

\* Building the congratulations, whatever becomes of the session.
LEMMA CongratulateType ==
  ASSUME TypeInv, NEW c \in Calls, NEW seconds \in Nat, NEW endTime \in Nat,
         session.startTime <= endTime, endTime <= clock, Congratulate(c, seconds, endTime),
         session' \in SessionStates, session'.stage # "off" => session'.startTime <= clock
  PROVE  TypeInv' /\ HandsOver(c)
<1>1. /\ clock \in 0 .. MaxClock /\ clock \in Nat /\ DayOf(clock) \in Days
      /\ session.startTime \in Nat /\ session.counted \in Nat
  BY DayType DEF TypeInv, TypeOK
<1>2. /\ call' = [call EXCEPT ![c] =
           [Idle EXCEPT !.pc = "hours", !.duration = Seconds(seconds), !.date = DayOf(clock),
                        !.startTime = session.startTime, !.endTime = endTime]]
      /\ paid' = [paid EXCEPT ![DayOf(clock)] = @ + Seconds(seconds)]
      /\ spanned' = [d \in Days |-> [h \in Hours |->
           spanned[d][h] + Overlap(d, h, session.startTime, endTime)]]
  BY DEF Congratulate
<1>3. endTime \in Nat /\ session.startTime <= endTime /\ endTime <= clock
  OBVIOUS
<1>4. Seconds(seconds) \in Nat
  BY SecondsType
<1>5. call'[c] \in CallStates /\ call' \in [Calls -> CallStates]
  <2>1. session.startTime \in 0 .. MaxClock /\ endTime \in 0 .. MaxClock
    BY <1>1, <1>3, ClockAssumption DEF TypeInv, TypeOK
  <2>2. call \in [Calls -> CallStates]
    BY DEF TypeInv, TypeOK, CallStates
  <2> DEFINE k == [Idle EXCEPT !.pc = "hours", !.date = DayOf(clock),
                     !.duration = Seconds(seconds),
                     !.startTime = session.startTime, !.endTime = endTime]
  <2>3. k \in CallStates
    BY <1>1, <1>4, <2>1, NothingTypes DEF CallStates
  <2> HIDE DEF k
  <2>4. call' = [call EXCEPT ![c] = k]
    BY <1>2 DEF k, Idle
  <2> QED
    BY <2>2, <2>3, <2>4
<1>6. paid' \in [Days -> Nat]
  BY <1>1, <1>2, <1>4 DEF TypeInv, TypeOK
<1>7. spanned' \in [Days -> [Hours -> Nat]]
  <2>1. ASSUME NEW d \in Days, NEW h \in Hours
        PROVE  spanned[d][h] + Overlap(d, h, session.startTime, endTime) \in Nat
    <3>1. Overlap(d, h, session.startTime, endTime) \in Nat
      BY <1>1, <1>3, Constants, OverlapType
    <3> QED
      BY <3>1 DEF TypeInv, TypeOK
  <2> QED
    BY <1>2, <2>1
<1>8. TypeOK'
  BY <1>5, <1>6, <1>7, NothingTypes DEF TypeInv, TypeOK, Congratulate, CallStates, SessionStates
<1>9. /\ call'[c].pc = "hours" /\ call'[c].startTime = session.startTime
      /\ call'[c].endTime = endTime /\ call'[c].date = DayOf(clock)
      /\ \A k \in Calls \ {c} : call'[k] = call[k]
  BY <1>2 DEF TypeInv, TypeOK, Idle
<1>10. DayOf(endTime) <= DayOf(clock) /\ DayOf(clock) \in Nat
  BY <1>1, <1>3, DaysInOrder
<1>11. clock' = clock /\ doc' = doc
  BY DEF Congratulate
<1>12. CallsInOrder'
  <2> SUFFICES ASSUME NEW k \in Calls, call'[k].pc # "idle"
               PROVE  /\ call'[k].startTime <= call'[k].endTime
                      /\ call'[k].endTime <= clock'
                      /\ DayOf(call'[k].endTime) <= call'[k].date
                      /\ call'[k].date <= DayOf(clock')
                      /\ call'[k].pc \in {"exists", "write"} => call'[k].hours \in [Hours -> Int]
    BY DEF CallsInOrder
  <2>1. CASE k = c
    BY <1>3, <1>9, <1>10, <1>11, <2>1
  <2>2. CASE k # c
    BY <1>9, <1>11, <2>2 DEF TypeInv, CallsInOrder
  <2> QED
    BY <2>1, <2>2
<1>13. TypeInv'
  BY <1>8, <1>11, <1>12 DEF TypeInv, DocsInOrder
<1>14. call'[c].duration = Seconds(seconds)
  BY <1>2 DEF TypeInv, TypeOK, Idle
<1>15. acrossDay' = acrossDay /\ call[c].pc = "idle"
  BY DEF Congratulate, Idle
<1> QED
  BY <1>2, <1>9, <1>11, <1>13, <1>14, <1>15 DEF HandsOver

LEMMA FinishType == ASSUME TypeInv, NEW c \in Calls, Finish(c) PROVE TypeInv' /\ HandsOver(c)
<1>1. /\ session \in SessionStates /\ clock \in Nat /\ session.startTime \in Nat
      /\ session.counted \in Nat
      /\ session.stage # "off" => session.startTime <= clock
  BY DEF TypeInv, TypeOK, SessionStates
<1>2. CASE Done(c)
  <2>1. PICK seconds : seconds = IF session.stage = "running"
                           THEN session.counted + clock - session.startTime ELSE session.counted
    OBVIOUS
  <2>2. /\ session.stage # "off"
        /\ Congratulate(c, seconds, clock)
        /\ session' = [session EXCEPT !.stage = "congratulated", !.counted = seconds]
    BY <1>2, <2>1 DEF Done
  <2>3. session.startTime <= clock /\ seconds \in Nat
    BY <1>1, <2>1, <2>2
  <2>4. session' \in SessionStates /\ session'.startTime = session.startTime
    BY <1>1, <2>2, <2>3 DEF SessionStates, Stages
  <2> QED
    BY <1>1, <2>2, <2>3, <2>4, CongratulateType
<1>3. CASE AtZero(c)
  <2>1. PICK endTime \in session.startTime .. clock :
          Congratulate(c, endTime - session.startTime, endTime)
    BY <1>3 DEF AtZero
  <2>2. session' = [NoSession EXCEPT !.stage = "over"]
    BY <1>3 DEF AtZero
  <2>3. session' \in SessionStates /\ session'.startTime = 0
    BY <2>2, NothingTypes DEF SessionStates, Stages, NoSession
  <2>4. /\ endTime \in Nat /\ endTime - session.startTime \in Nat
        /\ session.startTime <= endTime /\ endTime <= clock
    BY <1>1, <2>1
  <2> QED
    BY <1>1, <2>1, <2>3, <2>4, CongratulateType
<1> QED
  BY <1>2, <1>3 DEF Finish

\* A step of an invocation that keeps its session.
StaysOnItsWay(c, pcs) ==
  /\ UNCHANGED <<clock, session, doc>>
  /\ call' \in [Calls -> CallStates]
  /\ \A k \in Calls \ {c} : call'[k] = call[k]
  /\ call[c].pc # "idle" /\ call'[c].pc \in pcs
  /\ call'[c].duration = call[c].duration /\ call'[c].date = call[c].date
  /\ call'[c].startTime = call[c].startTime /\ call'[c].endTime = call[c].endTime

LEMMA WayType ==
  ASSUME TypeInv, NEW c \in Calls, NEW pcs, StaysOnItsWay(c, pcs), TypeOK',
         call'[c].pc \in {"exists", "write"} => call'[c].hours \in [Hours -> Int]
  PROVE  TypeInv'
<1>1. UNCHANGED <<clock, session, doc>>
  BY DEF StaysOnItsWay
<1>2. CallsInOrder'
  BY <1>1 DEF TypeInv, CallsInOrder, StaysOnItsWay
<1> QED
  BY <1>1, <1>2 DEF TypeInv, DocsInOrder

LEMMA AnswerHoursType ==
  ASSUME TypeInv, NEW c \in Calls, AnswerHours(c)
  PROVE  /\ TypeInv'
         /\ StaysOnItsWay(c, {"split"})
         /\ call'[c].hours = doc[call[c].date].hours
<1>1. call \in [Calls -> CallStates] /\ doc \in [Days -> Docs]
  BY DEF TypeInv, TypeOK, CallStates, Docs
<1>2. call[c] \in CallStates /\ call[c].date \in Days /\ doc[call[c].date].hours \in HourLists
  BY <1>1 DEF CallStates, Docs
<1>3. call' = [call EXCEPT ![c] = [call[c] EXCEPT !.pc = "split", !.hours = doc[call[c].date].hours]]
  BY <1>1 DEF AnswerHours
<1>4. [call[c] EXCEPT !.pc = "split", !.hours = doc[call[c].date].hours] \in CallStates
  BY <1>2 DEF CallStates
<1>5. StaysOnItsWay(c, {"split"}) /\ call'[c].hours = doc[call[c].date].hours
  BY <1>1, <1>2, <1>3, <1>4 DEF StaysOnItsWay, AnswerHours, CallStates
<1>6. TypeOK'
  BY <1>5 DEF TypeInv, TypeOK, AnswerHours, history, StaysOnItsWay, CallStates
<1> QED
  BY <1>5, <1>6, WayType DEF StaysOnItsWay

LEMMA SplitHoursType ==
  ASSUME TypeInv, NEW c \in Calls, SplitHours(c)
  PROVE  /\ TypeInv'
         /\ StaysOnItsWay(c, {"exists"})
         /\ call'[c].hours = IF call[c].hours = <<>>
                               THEN Split(DayOf(clock), call[c].startTime, call[c].endTime)
                               ELSE AddWithinHour(call[c].hours, call[c].startTime, call[c].endTime)
<1> DEFINE list == IF call[c].hours = <<>>
                     THEN Split(DayOf(clock), call[c].startTime, call[c].endTime)
                     ELSE AddWithinHour(call[c].hours, call[c].startTime, call[c].endTime)
<1>1. call \in [Calls -> CallStates] /\ clock \in 0 .. MaxClock
  BY DEF TypeInv, TypeOK, CallStates
<1>2. call[c] \in CallStates
  BY <1>1
<1>3. /\ call[c].startTime \in Nat /\ call[c].endTime \in Nat /\ call[c].hours \in HourLists
      /\ DayOf(clock) \in Nat
  <2>1. DayOf(clock) \in Days
    BY <1>1, DayType
  <2>2. /\ call[c].startTime \in 0 .. MaxClock /\ call[c].endTime \in 0 .. MaxClock
        /\ call[c].hours \in HourLists
    BY <1>2 DEF CallStates
  <2>3. call[c].startTime \in Nat /\ call[c].endTime \in Nat
    BY <2>2, ClockAssumption
  <2>4. DayOf(clock) \in Nat
    BY <2>1, DaysAreNatural
  <2> QED
    BY <2>2, <2>3, <2>4
<1>4. list \in [Hours -> Int]
  BY <1>3, SplitType, AddType DEF HourLists
<1>5. /\ call[c].pc = "split"
      /\ call' = [call EXCEPT ![c] = [call[c] EXCEPT !.pc = "exists", !.hours = list]]
      /\ UNCHANGED <<clock, session, doc, clearing, paid, spanned, disturbed, used>>
  BY <1>1 DEF SplitHours
<1> HIDE DEF list
<1>6. [call[c] EXCEPT !.pc = "exists", !.hours = list] \in CallStates
  BY <1>2, <1>4 DEF CallStates, HourLists
<1>7. StaysOnItsWay(c, {"exists"}) /\ call'[c].hours = list
  BY <1>1, <1>2, <1>5, <1>6 DEF StaysOnItsWay, CallStates
<1>8. acrossDay' \in BOOLEAN
  BY DEF SplitHours
<1>9. TypeOK'
  BY <1>5, <1>7, <1>8 DEF TypeInv, TypeOK, StaysOnItsWay, CallStates
<1>10. TypeInv'
  BY <1>4, <1>7, <1>9, WayType
<1> QED
  BY <1>7, <1>10 DEF list

LEMMA AnswerExistsType ==
  ASSUME TypeInv, NEW c \in Calls, AnswerExists(c)
  PROVE  /\ TypeInv'
         /\ StaysOnItsWay(c, {"write"})
         /\ call'[c].hours = call[c].hours
         /\ call'[c].found = doc[call[c].date].exists
<1>1. call \in [Calls -> CallStates] /\ doc \in [Days -> Docs]
  BY DEF TypeInv, TypeOK, CallStates, Docs
<1>2. call[c] \in CallStates /\ call[c].date \in Days /\ doc[call[c].date].exists \in BOOLEAN
  BY <1>1 DEF CallStates, Docs
<1>3. call' = [call EXCEPT ![c] = [call[c] EXCEPT !.pc = "write", !.found = doc[call[c].date].exists]]
  BY <1>1 DEF AnswerExists
<1>4. [call[c] EXCEPT !.pc = "write", !.found = doc[call[c].date].exists] \in CallStates
  BY <1>2 DEF CallStates
<1>5. /\ StaysOnItsWay(c, {"write"})
      /\ call'[c].hours = call[c].hours
      /\ call'[c].found = doc[call[c].date].exists
  BY <1>1, <1>2, <1>3, <1>4 DEF StaysOnItsWay, AnswerExists, CallStates
<1>6. TypeOK'
  BY <1>5 DEF TypeInv, TypeOK, AnswerExists, history, StaysOnItsWay, CallStates
<1>7. call'[c].hours \in [Hours -> Int]
  BY <1>5 DEF TypeInv, CallsInOrder, AnswerExists
<1> QED
  BY <1>5, <1>6, <1>7, WayType

\* What the last step of a save does, to the document of its date only.
LEMMA WriteType ==
  ASSUME TypeInv, NEW c \in Calls, Write(c)
  PROVE  /\ TypeInv'
         /\ call' = [call EXCEPT ![c] = Idle]
         /\ \A d \in Days \ {call[c].date} : doc'[d] = doc[d]
         /\ doc'[call[c].date].exists => doc'[call[c].date].hours = call[c].hours
         /\ doc'[call[c].date].total =
              IF ~ call[c].found THEN call[c].duration
              ELSE IF doc[call[c].date].exists THEN doc[call[c].date].total + call[c].duration
              ELSE doc[call[c].date].total
         /\ doc'[call[c].date].exists <=> ~ call[c].found \/ doc[call[c].date].exists
<1> DEFINE date == call[c].date
           new  == IF ~ call[c].found
                     THEN [exists |-> TRUE, total |-> call[c].duration,
                           hours |-> call[c].hours, date |-> DayOf(clock)]
                   ELSE IF doc[date].exists
                     THEN [doc[date] EXCEPT !.total = @ + call[c].duration, !.hours = call[c].hours]
                   ELSE doc[date]
<1>1. call[c] \in CallStates /\ doc \in [Days -> Docs] /\ DayOf(clock) \in Days
  BY DayType DEF TypeInv, TypeOK, CallStates, Docs
<1>2. /\ date \in Days /\ call[c].duration \in Nat /\ call[c].found \in BOOLEAN
      /\ call[c].hours \in [Hours -> Int]
  BY <1>1 DEF TypeInv, CallsInOrder, Write, CallStates
<1>3. doc' = [doc EXCEPT ![date] = new] /\ call' = [call EXCEPT ![c] = Idle]
  <2>1. call' = [call EXCEPT ![c] = Idle]
    BY DEF Write
  <2>2. doc' = [doc EXCEPT ![date] = new]
    BY DEF Write
  <2> QED
    BY <2>1, <2>2
<1>4. doc[date] \in Docs
  BY <1>1, <1>2
<1>5. new \in Docs
  <2>1. CASE ~ call[c].found
    BY <1>1, <1>2, <2>1 DEF Docs, HourLists
  <2>2. CASE call[c].found /\ doc[date].exists
    <3>1. doc[date].total + call[c].duration \in Int
      BY <1>2, <1>4 DEF Docs
    <3> QED
      BY <1>2, <1>4, <2>2, <3>1 DEF Docs, HourLists
  <2>3. CASE call[c].found /\ ~ doc[date].exists
    BY <1>4, <2>3
  <2> QED
    BY <2>1, <2>2, <2>3
<1>6. /\ new.exists => new.hours = call[c].hours
      /\ ~ new.exists => new = doc[date]
      /\ new.total = IF ~ call[c].found THEN call[c].duration
                     ELSE IF doc[date].exists THEN doc[date].total + call[c].duration
                     ELSE doc[date].total
      /\ new.exists <=> ~ call[c].found \/ doc[date].exists
  BY <1>2, <1>4 DEF Docs
<1>7. new.total >= 0 /\ new.total \in Int
  <2>1. doc[date].total >= 0 /\ doc[date].total \in Int
    BY <1>2, <1>4 DEF TypeInv, DocsInOrder, Docs
  <2> QED
    BY <1>2, <1>6, <2>1
<1> HIDE DEF new
<1>8. doc' \in [Days -> Docs] /\ doc'[date] = new /\ \A d \in Days \ {date} : doc'[d] = doc[d]
  BY <1>1, <1>2, <1>3, <1>5
<1>9. UNCHANGED <<clock, session, clearing, paid, spanned, disturbed, acrossDay, used>>
  BY DEF Write, history
<1>10. TypeOK'
  BY <1>3, <1>8, <1>9, NothingTypes DEF TypeInv, TypeOK, Docs, CallStates
<1>11. CallsInOrder'
  BY <1>3, <1>9 DEF TypeInv, TypeOK, CallsInOrder, Idle
<1>12. DocsInOrder'
  <2> SUFFICES ASSUME NEW d \in Days
               PROVE  /\ doc'[d].exists => doc'[d].hours \in [Hours -> Int]
                      /\ ~ doc'[d].exists => doc'[d].hours = <<>> /\ doc'[d].total = 0
                      /\ doc'[d].total >= 0
    BY DEF DocsInOrder
  <2>1. CASE d = date
    BY <1>2, <1>6, <1>7, <1>8, <2>1 DEF TypeInv, DocsInOrder
  <2>2. CASE d # date
    BY <1>8, <2>2 DEF TypeInv, DocsInOrder
  <2> QED
    BY <2>1, <2>2
<1>13. TypeInv'
  BY <1>9, <1>10, <1>11, <1>12 DEF TypeInv
<1> QED
  BY <1>3, <1>6, <1>8, <1>13

LEMMA AnswerClearType == ASSUME TypeInv, AnswerClear PROVE TypeInv'
<1>1. UNCHANGED <<clock, session, doc, call, paid, spanned, acrossDay>> /\ disturbed' = TRUE
  BY DEF AnswerClear
<1>2. clearing' \subseteq Days
  BY DEF AnswerClear
<1>3. used' \in Uses
  <2>1. used \in Uses
    BY DEF TypeInv, TypeOK, Uses
  <2> QED
    BY <2>1, Constants DEF AnswerClear, Uses
<1> QED
  BY <1>1, <1>2, <1>3 DEF TypeInv, TypeOK, CallsInOrder, DocsInOrder, Uses

LEMMA ClearType == ASSUME TypeInv, Clear PROVE TypeInv'
<1>1. UNCHANGED <<clock, session, call, paid, spanned, disturbed, acrossDay, used>>
  BY DEF Clear, history
<1>2. clearing' = {} /\ doc' = [d \in Days |-> IF d \in clearing THEN NoDoc ELSE doc[d]]
  BY DEF Clear
<1>3. doc' \in [Days -> Docs]
  BY <1>2, NothingTypes DEF TypeInv, TypeOK, Docs
<1>4. DocsInOrder'
  BY <1>2 DEF TypeInv, DocsInOrder, NoDoc
<1> QED
  BY <1>1, <1>2, <1>3, <1>4 DEF TypeInv, TypeOK, CallsInOrder, Docs

LEMMA KillType == ASSUME TypeInv, Kill PROVE TypeInv'
<1>1. UNCHANGED <<clock, doc, paid, spanned, acrossDay>> /\ session' = NoSession /\ clearing' = {}
  BY DEF Kill
<1>2. call' = [c \in Calls |-> Idle]
  BY DEF Kill
<1>3. used' \in Uses
  <2>1. used \in Uses
    BY DEF TypeInv, TypeOK, Uses
  <2> QED
    BY <2>1, Constants DEF Kill, Uses
<1>4. disturbed' \in BOOLEAN
  BY DEF Kill
<1>5. TypeOK'
  BY <1>1, <1>2, <1>3, <1>4, NothingTypes DEF TypeInv, TypeOK, SessionStates, CallStates, Uses
<1>6. CallsInOrder' /\ session'.stage = "off"
  BY <1>1, <1>2 DEF CallsInOrder, Idle, NoSession
<1> QED
  BY <1>1, <1>5, <1>6 DEF TypeInv, DocsInOrder

LEMMA StutterType == ASSUME TypeInv, UNCHANGED vars PROVE TypeInv'
BY DEF vars, TypeInv, TypeOK, CallsInOrder, DocsInOrder

LEMMA StepType == ASSUME TypeInv, [Next]_vars PROVE TypeInv'
BY AdvanceType, BeginType, StopType, DismissType, FinishType, AnswerHoursType, SplitHoursType,
   AnswerExistsType, WriteType, AnswerClearType, ClearType, KillType, StutterType DEF Next

-----------------------------------------------------------------------------
(* Sums over the invocations. *)

\* The seconds that an invocation still has to add to the total of day d.
Due(k, d) == IF k.pc # "idle" /\ k.date = d THEN k.duration ELSE 0
Owing(calls, d) == [c \in Calls |-> Due(calls[c], d)]

\* The seconds in hour h of day d that the session of an invocation has spent and
\* the list of the day need not show yet.
Spent(k, d, h) == IF k.pc # "idle" /\ k.date = d THEN Overlap(d, h, k.startTime, k.endTime) ELSE 0
Spending(calls, d, h) == [c \in Calls |-> Spent(calls[c], d, h)]

LEMMA CallFields ==
  ASSUME NEW k \in CallStates
  PROVE  /\ k.duration \in Nat /\ k.startTime \in Nat /\ k.endTime \in Nat
         /\ k.date \in Days /\ k.date \in Nat
<1>1. /\ k.duration \in Nat /\ k.startTime \in 0 .. MaxClock
      /\ k.endTime \in 0 .. MaxClock /\ k.date \in Days
  BY DEF CallStates
<1>2. k.startTime \in Nat /\ k.endTime \in Nat
  BY <1>1, ClockAssumption
<1> QED
  BY <1>1, <1>2, DaysAreNatural

LEMMA TermTypes ==
  ASSUME NEW calls \in [Calls -> CallStates]
  PROVE  /\ \A d \in Days : Owing(calls, d) \in [Calls -> Nat]
         /\ \A d \in Days, h \in Hours : Spending(calls, d, h) \in [Calls -> Nat]
<1>1. ASSUME NEW d \in Days, NEW c \in Calls PROVE Due(calls[c], d) \in Nat
  BY CallFields DEF Due
<1>2. ASSUME NEW d \in Days, NEW h \in Hours, NEW c \in Calls PROVE Spent(calls[c], d, h) \in Nat
  <2>1. d \in Nat /\ h \in Nat
    BY Constants
  <2>2. calls[c].startTime \in Nat /\ calls[c].endTime \in Nat
    BY CallFields
  <2> QED
    BY <2>1, <2>2, OverlapType DEF Spent
<1> QED
  BY <1>1, <1>2 DEF Owing, Spending

LEMMA Sum ==
  ASSUME NEW f \in [Calls -> Nat]
  PROVE  /\ Total(f) \in Nat
         /\ (\A c \in Calls : f[c] = 0) => Total(f) = 0
<1>1. f \in [Calls -> Int] /\ DOMAIN f = Calls /\ IsFiniteSet(Calls)
  BY CallsAssumption
<1>2. Total(f) \in Int /\ Total(f) >= 0
  <2>1. \A c \in Calls : f[c] >= 0
    OBVIOUS
  <2> QED
    BY <1>1, <2>1, SumOnType, SumOnNonNegative DEF Total
<1>3. ASSUME \A c \in Calls : f[c] = 0 PROVE Total(f) <= 0
  <2>1. \A c \in Calls : f[c] <= 0
    BY <1>3
  <2>2. SumOn(f, Calls) <= Cardinality(Calls) * 0
    BY <1>1, <2>1, SumOnBounded
  <2>3. Cardinality(Calls) \in Nat
    BY <1>1, FS_CardinalityType
  <2> QED
    BY <1>1, <2>2, <2>3 DEF Total
<1> QED
  BY <1>2, <1>3

LEMMA SumChange ==
  ASSUME NEW f \in [Calls -> Nat], NEW g \in [Calls -> Nat], NEW c \in Calls,
         \A k \in Calls \ {c} : g[k] = f[k]
  PROVE  Total(g) = Total(f) - f[c] + g[c]
<1>1. f \in [Calls -> Int] /\ g \in [Calls -> Int] /\ IsFiniteSet(Calls)
  BY CallsAssumption
<1> QED
  BY <1>1, TotalUpdate

\* The sums when one invocation changes its state.
LEMMA OneCall ==
  ASSUME NEW calls \in [Calls -> CallStates], NEW next \in [Calls -> CallStates],
         NEW c \in Calls, \A k \in Calls \ {c} : next[k] = calls[k]
  PROVE  /\ \A d \in Days :
              Total(Owing(next, d)) = Total(Owing(calls, d)) - Due(calls[c], d) + Due(next[c], d)
         /\ \A d \in Days, h \in Hours :
              Total(Spending(next, d, h)) =
                Total(Spending(calls, d, h)) - Spent(calls[c], d, h) + Spent(next[c], d, h)
<1>1. ASSUME NEW d \in Days
      PROVE  Total(Owing(next, d)) = Total(Owing(calls, d)) - Due(calls[c], d) + Due(next[c], d)
  <2>1. Owing(next, d) \in [Calls -> Nat] /\ Owing(calls, d) \in [Calls -> Nat]
    BY TermTypes
  <2>2. \A k \in Calls : Owing(next, d)[k] = Due(next[k], d) /\ Owing(calls, d)[k] = Due(calls[k], d)
    BY DEF Owing
  <2>3. \A k \in Calls \ {c} : Owing(next, d)[k] = Owing(calls, d)[k]
    BY <2>2
  <2>4. Total(Owing(next, d)) = Total(Owing(calls, d)) - Owing(calls, d)[c] + Owing(next, d)[c]
    BY <2>1, <2>3, SumChange
  <2> QED
    BY <2>2, <2>4
<1>2. ASSUME NEW d \in Days, NEW h \in Hours
      PROVE  Total(Spending(next, d, h)) =
               Total(Spending(calls, d, h)) - Spent(calls[c], d, h) + Spent(next[c], d, h)
  <2>1. Spending(next, d, h) \in [Calls -> Nat] /\ Spending(calls, d, h) \in [Calls -> Nat]
    BY TermTypes
  <2>2. \A k \in Calls : /\ Spending(next, d, h)[k] = Spent(next[k], d, h)
                         /\ Spending(calls, d, h)[k] = Spent(calls[k], d, h)
    BY DEF Spending
  <2>3. \A k \in Calls \ {c} : Spending(next, d, h)[k] = Spending(calls, d, h)[k]
    BY <2>2
  <2>4. Total(Spending(next, d, h)) =
          Total(Spending(calls, d, h)) - Spending(calls, d, h)[c] + Spending(next, d, h)[c]
    BY <2>1, <2>3, SumChange
  <2> QED
    BY <2>2, <2>4
<1> QED
  BY <1>1, <1>2

\* A step of an invocation that keeps its session keeps the sums.
LEMMA OnItsWay ==
  ASSUME TypeInv, NEW c \in Calls, NEW pcs, StaysOnItsWay(c, pcs), "idle" \notin pcs
  PROVE  /\ \A d \in Days : Total(Owing(call', d)) = Total(Owing(call, d))
         /\ \A d \in Days, h \in Hours : Total(Spending(call', d, h)) = Total(Spending(call, d, h))
<1>1. \A k \in Calls : \A d \in Days : Due(call'[k], d) = Due(call[k], d)
  BY DEF StaysOnItsWay, Due
<1>2. \A k \in Calls : \A d \in Days, h \in Hours : Spent(call'[k], d, h) = Spent(call[k], d, h)
  BY DEF StaysOnItsWay, Spent
<1>3. \A d \in Days : Owing(call', d) = Owing(call, d)
  BY <1>1 DEF Owing
<1>4. \A d \in Days, h \in Hours : Spending(call', d, h) = Spending(call, d, h)
  BY <1>2 DEF Spending
<1> QED
  BY <1>3, <1>4

\* Without invocations nothing is owed.
LEMMA NoCalls ==
  ASSUME NEW calls \in [Calls -> CallStates], \A c \in Calls : calls[c].pc = "idle"
  PROVE  /\ \A d \in Days : Total(Owing(calls, d)) = 0
         /\ \A d \in Days, h \in Hours : Total(Spending(calls, d, h)) = 0
<1>1. ASSUME NEW d \in Days PROVE Total(Owing(calls, d)) = 0
  <2>1. \A c \in Calls : Owing(calls, d)[c] = 0
    BY DEF Owing, Due
  <2> QED
    BY <2>1, TermTypes, Sum
<1>2. ASSUME NEW d \in Days, NEW h \in Hours PROVE Total(Spending(calls, d, h)) = 0
  <2>1. \A c \in Calls : Spending(calls, d, h)[c] = 0
    BY DEF Spending, Spent
  <2>2. Spending(calls, d, h) \in [Calls -> Nat]
    BY TermTypes
  <2> QED
    BY <2>1, <2>2, Sum
<1> QED
  BY <1>1, <1>2

\* What the sums and their neighbours are.
LEMMA StateTypes ==
  ASSUME TypeInv
  PROVE  /\ call \in [Calls -> CallStates]
         /\ \A d \in Days : doc[d].total \in Nat /\ paid[d] \in Nat
         /\ \A d \in Days : Total(Owing(call, d)) \in Nat
         /\ \A d \in Days, h \in Hours :
              Total(Spending(call, d, h)) \in Nat /\ spanned[d][h] \in Nat
<1>1. call \in [Calls -> CallStates] /\ doc \in [Days -> Docs]
  BY DEF TypeInv, TypeOK, CallStates, Docs
<1>2. \A d \in Days : doc[d].total \in Int /\ doc[d].total >= 0
  BY <1>1 DEF Docs, TypeInv, DocsInOrder
<1>3. paid \in [Days -> Nat] /\ spanned \in [Days -> [Hours -> Nat]]
  BY DEF TypeInv, TypeOK
<1>4. \A d \in Days : Total(Owing(call, d)) \in Nat
  BY <1>1, TermTypes, Sum
<1>5. \A d \in Days, h \in Hours : Total(Spending(call, d, h)) \in Nat
  BY <1>1, TermTypes, Sum
<1> QED
  BY <1>1, <1>2, <1>3, <1>4, <1>5

-----------------------------------------------------------------------------
(* Totals. *)

\* What is recorded, and what invocations have yet to record, was paid.
PaidInv == \A d \in Days : doc[d].total + Total(Owing(call, d)) <= paid[d]

LEMMA FinishPaid ==
  ASSUME TypeInv, TypeInv', NEW c \in Calls, HandsOver(c), NEW d \in Days
  PROVE  /\ doc'[d].total = doc[d].total
         /\ paid'[d] - paid[d] = Total(Owing(call', d)) - Total(Owing(call, d))
         /\ paid'[d] \in Nat /\ Total(Owing(call', d)) \in Nat
<1>0. /\ call \in [Calls -> CallStates] /\ call' \in [Calls -> CallStates]
      /\ \A k \in Calls \ {c} : call'[k] = call[k]
  BY DEF HandsOver, TypeInv, TypeOK, CallStates
<1>1. Total(Owing(call', d)) = Total(Owing(call, d)) - Due(call[c], d) + Due(call'[c], d)
  BY <1>0, OneCall
<1>2. call'[c] \in CallStates
  BY DEF TypeInv, TypeOK, CallStates
<1>3. call'[c].duration \in Nat
  BY <1>2, CallFields
<1>4. Due(call[c], d) = 0 /\ Due(call'[c], d) = IF call'[c].date = d THEN call'[c].duration ELSE 0
  BY DEF HandsOver, Due
<1>5. paid'[d] = IF call'[c].date = d THEN paid[d] + call'[c].duration ELSE paid[d]
  BY DEF HandsOver, TypeInv, TypeOK
<1>6. paid[d] \in Nat /\ Total(Owing(call, d)) \in Nat
  BY StateTypes
<1>7. Total(Owing(call', d)) \in Nat
  BY <1>1, <1>3, <1>4, <1>6, <1>0, TermTypes, Sum
<1> QED
  BY <1>1, <1>3, <1>4, <1>5, <1>6, <1>7 DEF HandsOver

LEMMA WritePaid ==
  ASSUME TypeInv, TypeInv', NEW c \in Calls, Write(c), NEW d \in Days
  PROVE  /\ Total(Owing(call', d)) = Total(Owing(call, d)) - Due(call[c], d)
         /\ Due(call[c], d) = IF call[c].date = d THEN call[c].duration ELSE 0
         /\ call[c].duration \in Nat
         /\ call[c].date \in Days
<1>1. call' = [call EXCEPT ![c] = Idle]
  BY WriteType
<1>2. call \in [Calls -> CallStates] /\ call' \in [Calls -> CallStates]
  BY DEF TypeInv, TypeOK, CallStates
<1>3. Total(Owing(call', d)) = Total(Owing(call, d)) - Due(call[c], d) + Due(call'[c], d)
  <2>1. \A k \in Calls \ {c} : call'[k] = call[k]
    BY <1>1, <1>2
  <2> QED
    BY <1>2, <2>1, OneCall
<1>4. Due(call'[c], d) = 0
  BY <1>1, <1>2 DEF Due, Idle
<1>5. Due(call[c], d) = IF call[c].date = d THEN call[c].duration ELSE 0
  BY DEF Due, Write
<1>6. call[c].duration \in Nat /\ call[c].date \in Days
  BY <1>2, CallFields
<1>7. Total(Owing(call, d)) \in Nat
  BY StateTypes
<1> QED
  BY <1>3, <1>4, <1>5, <1>6, <1>7

LEMMA PaidStep ==
  ASSUME TypeInv, TypeInv', PaidInv, [Next]_vars
  PROVE  PaidInv'
<1> USE DEF PaidInv
<1>1. CASE UNCHANGED <<doc, call, paid>>
  BY <1>1
<1>2. ASSUME NEW c \in Calls, NEW pcs, StaysOnItsWay(c, pcs), "idle" \notin pcs, UNCHANGED paid
      PROVE  PaidInv'
  BY <1>2, OnItsWay DEF StaysOnItsWay
<1>3. ASSUME NEW c \in Calls, Finish(c) PROVE PaidInv'
  <2> SUFFICES ASSUME NEW d \in Days
               PROVE  doc'[d].total + Total(Owing(call', d)) <= paid'[d]
    OBVIOUS
  <2>1. /\ doc'[d].total = doc[d].total
        /\ paid'[d] - paid[d] = Total(Owing(call', d)) - Total(Owing(call, d))
        /\ paid'[d] \in Nat /\ Total(Owing(call', d)) \in Nat
    BY <1>3, FinishType, FinishPaid
  <2>2. doc[d].total \in Nat /\ paid[d] \in Nat /\ Total(Owing(call, d)) \in Nat
    BY StateTypes
  <2> QED
    BY <2>1, <2>2
<1>4. ASSUME NEW c \in Calls, Write(c) PROVE PaidInv'
  <2> SUFFICES ASSUME NEW d \in Days
               PROVE  doc'[d].total + Total(Owing(call', d)) <= paid'[d]
    OBVIOUS
  <2>1. /\ Total(Owing(call', d)) = Total(Owing(call, d)) - Due(call[c], d)
        /\ Due(call[c], d) = IF call[c].date = d THEN call[c].duration ELSE 0
        /\ call[c].duration \in Nat
    BY <1>4, WritePaid
  <2>2. /\ doc[d].total \in Nat /\ paid[d] \in Nat /\ Total(Owing(call, d)) \in Nat
        /\ doc[d].total + Total(Owing(call, d)) <= paid[d]
    BY StateTypes
  <2>3. doc'[d].total <= doc[d].total + Due(call[c], d) /\ doc'[d].total \in Int
    <3>1. CASE d = call[c].date
      <4>1. doc'[d].total = IF ~ call[c].found THEN call[c].duration
                            ELSE IF doc[d].exists THEN doc[d].total + call[c].duration
                            ELSE doc[d].total
        BY <1>4, <3>1, WriteType
      <4> QED
        BY <2>1, <2>2, <3>1, <4>1
    <3>2. CASE d # call[c].date
      <4>1. doc'[d] = doc[d]
        BY <1>4, <3>2, WriteType
      <4> QED
        BY <2>1, <2>2, <3>2, <4>1
    <3> QED
      BY <3>1, <3>2
  <2>4. paid' = paid
    BY <1>4 DEF Write, history
  <2> QED
    BY <2>1, <2>2, <2>3, <2>4
<1>5. CASE Clear
  <2> SUFFICES ASSUME NEW d \in Days
               PROVE  doc'[d].total + Total(Owing(call', d)) <= paid'[d]
    OBVIOUS
  <2>1. doc'[d].total \in {0, doc[d].total} /\ call' = call /\ paid' = paid
    BY <1>5 DEF Clear, NoDoc, history
  <2> QED
    BY <2>1, StateTypes
<1>6. CASE Kill
  <2> SUFFICES ASSUME NEW d \in Days
               PROVE  doc'[d].total + Total(Owing(call', d)) <= paid'[d]
    OBVIOUS
  <2>1. doc' = doc /\ paid' = paid
    BY <1>6 DEF Kill
  <2>2. Total(Owing(call', d)) = 0
    <3>1. call' \in [Calls -> CallStates] /\ \A c \in Calls : call'[c].pc = "idle"
      BY <1>6 DEF Kill, Idle, TypeInv, TypeOK, CallStates
    <3> QED
      BY <3>1, NoCalls
  <2> QED
    BY <2>1, <2>2, StateTypes
<1>7. CASE Advance \/ Begin \/ Stop \/ Dismiss \/ AnswerClear \/ UNCHANGED vars
  BY <1>1, <1>7 DEF Advance, Begin, Stop, Dismiss, AnswerClear, vars, history
<1>8. ASSUME NEW c \in Calls, AnswerHours(c) PROVE PaidInv'
  BY <1>2, <1>8, AnswerHoursType DEF AnswerHours, history
<1>9. ASSUME NEW c \in Calls, SplitHours(c) PROVE PaidInv'
  <2>1. UNCHANGED paid
    BY <1>9 DEF SplitHours
  <2> QED
    BY <1>2, <1>9, <2>1, SplitHoursType
<1>10. ASSUME NEW c \in Calls, AnswerExists(c) PROVE PaidInv'
  BY <1>2, <1>10, AnswerExistsType DEF AnswerExists, history
<1> QED
  BY <1>3, <1>4, <1>5, <1>6, <1>7, <1>8, <1>9, <1>10 DEF Next

\* As long as nothing disturbs a save, it is the only one, what it found out about
\* the document is still true, and what is not recorded yet is what it has to record.
CompleteInv ==
  ~ disturbed =>
    /\ clearing = {}
    /\ \A b, c \in Saving : b = c
    /\ \A c \in Calls : call[c].pc = "write" => call[c].found = doc[call[c].date].exists
    /\ \A d \in Days : doc[d].total + Total(Owing(call, d)) = paid[d]

LEMMA CompleteStep ==
  ASSUME TypeInv, TypeInv', CompleteInv, [Next]_vars
  PROVE  CompleteInv'
<1>1. CASE UNCHANGED <<doc, call, paid, clearing, disturbed>>
  BY <1>1 DEF CompleteInv, Saving
<1>2. ASSUME NEW c \in Calls, NEW pcs, StaysOnItsWay(c, pcs), "idle" \notin pcs,
             call'[c].pc = "write" => call'[c].found = doc[call[c].date].exists,
             UNCHANGED <<paid, clearing, disturbed>>
      PROVE  CompleteInv'
  <2>1. Saving' = Saving
    BY <1>2 DEF Saving, StaysOnItsWay
  <2>2. \A d \in Days : Total(Owing(call', d)) = Total(Owing(call, d))
    BY <1>2, OnItsWay
  <2>3. doc' = doc /\ \A k \in Calls \ {c} : call'[k] = call[k]
    BY <1>2 DEF StaysOnItsWay
  <2>4. call'[c].date = call[c].date
    BY <1>2 DEF StaysOnItsWay
  <2>5. ~ disturbed => \A k \in Calls : call'[k].pc = "write" => call'[k].found = doc'[call'[k].date].exists
    BY <1>2, <2>3, <2>4 DEF CompleteInv
  <2> QED
    BY <1>2, <2>1, <2>2, <2>3, <2>5 DEF CompleteInv
<1>3. ASSUME NEW c \in Calls, Finish(c) PROVE CompleteInv'
  <2> SUFFICES ASSUME ~ disturbed'
               PROVE  /\ clearing' = {}
                      /\ \A a, b \in Saving' : a = b
                      /\ \A k \in Calls : call'[k].pc = "write" => call'[k].found = doc'[call'[k].date].exists
                      /\ \A d \in Days : doc'[d].total + Total(Owing(call', d)) = paid'[d]
    BY DEF CompleteInv
  <2>1. ~ disturbed /\ Saving = {} /\ clearing = {} /\ clearing' = clearing
    BY <1>3 DEF Finish, Done, AtZero, Congratulate
  <2>2. HandsOver(c)
    BY <1>3, FinishType
  <2>3. \A k \in Saving' : k = c
    BY <2>1, <2>2 DEF HandsOver, Saving
  <2>4. \A k \in Calls : call'[k].pc # "write"
    BY <2>1, <2>2 DEF HandsOver, Saving
  <2>5. ASSUME NEW d \in Days PROVE doc'[d].total + Total(Owing(call', d)) = paid'[d]
    <3>1. /\ doc'[d].total = doc[d].total
          /\ paid'[d] - paid[d] = Total(Owing(call', d)) - Total(Owing(call, d))
          /\ paid'[d] \in Nat /\ Total(Owing(call', d)) \in Nat
      BY <2>2, FinishPaid
    <3>2. doc[d].total \in Nat /\ paid[d] \in Nat /\ Total(Owing(call, d)) \in Nat
      BY StateTypes
    <3>3. doc[d].total + Total(Owing(call, d)) = paid[d]
      BY <2>1 DEF CompleteInv
    <3> QED
      BY <3>1, <3>2, <3>3
  <2> QED
    BY <2>1, <2>3, <2>4, <2>5
<1>4. ASSUME NEW c \in Calls, Write(c) PROVE CompleteInv'
  <2> SUFFICES ASSUME ~ disturbed'
               PROVE  /\ clearing' = {}
                      /\ \A a, b \in Saving' : a = b
                      /\ \A k \in Calls : call'[k].pc = "write" => call'[k].found = doc'[call'[k].date].exists
                      /\ \A d \in Days : doc'[d].total + Total(Owing(call', d)) = paid'[d]
    BY DEF CompleteInv
  <2>1. ~ disturbed /\ clearing' = clearing /\ paid' = paid
    BY <1>4 DEF Write, history
  <2>2. call' = [call EXCEPT ![c] = Idle] /\ call[c].pc = "write" /\ call \in [Calls -> CallStates]
    BY <1>4, WriteType DEF Write, TypeInv, TypeOK, CallStates
  <2>3. c \in Saving
    BY <2>2 DEF Saving
  <2>4. \A k \in Calls : call'[k].pc = "idle"
    BY <2>1, <2>2, <2>3 DEF CompleteInv, Saving, Idle
  <2>5. ASSUME NEW d \in Days PROVE doc'[d].total + Total(Owing(call', d)) = paid'[d]
    <3>1. /\ Total(Owing(call', d)) = Total(Owing(call, d)) - Due(call[c], d)
          /\ Due(call[c], d) = IF call[c].date = d THEN call[c].duration ELSE 0
          /\ call[c].duration \in Nat
          /\ call[c].date \in Days
      BY <1>4, WritePaid
    <3>2. /\ doc[d].total \in Nat /\ paid[d] \in Nat /\ Total(Owing(call, d)) \in Nat
          /\ doc[d].total + Total(Owing(call, d)) = paid[d]
      BY <2>1, StateTypes DEF CompleteInv
    <3>3. call[c].found = doc[call[c].date].exists
      BY <2>1, <2>2 DEF CompleteInv
    <3>4. CASE d = call[c].date
      <4>1. doc'[d].total = IF ~ call[c].found THEN call[c].duration
                            ELSE IF doc[d].exists THEN doc[d].total + call[c].duration
                            ELSE doc[d].total
        BY <1>4, <3>4, WriteType
      <4>2. ~ doc[d].exists => doc[d].total = 0
        BY DEF TypeInv, DocsInOrder
      <4> QED
        BY <2>1, <3>1, <3>2, <3>3, <3>4, <4>1, <4>2
    <3>5. CASE d # call[c].date
      <4>1. doc'[d] = doc[d]
        BY <1>4, <3>5, WriteType
      <4> QED
        BY <2>1, <3>1, <3>2, <3>5, <4>1
    <3> QED
      BY <3>4, <3>5
  <2>6. Saving' = {}
    BY <2>4 DEF Saving
  <2> QED
    BY <2>1, <2>4, <2>5, <2>6 DEF CompleteInv
<1>5. CASE Clear
  BY <1>5 DEF Clear, CompleteInv, history
<1>6. CASE Kill
  <2>1. disturbed' = (disturbed \/ Saving # {}) /\ doc' = doc /\ paid' = paid /\ clearing' = {}
    BY <1>6 DEF Kill
  <2>2. call' \in [Calls -> CallStates] /\ \A c \in Calls : call'[c].pc = "idle"
    BY <1>6 DEF Kill, Idle, TypeInv, TypeOK, CallStates
  <2>3. \A d \in Days : Total(Owing(call', d)) = 0
    BY <2>2, NoCalls
  <2>4. Saving = {} => \A d \in Days : Total(Owing(call, d)) = 0
    BY StateTypes, NoCalls DEF Saving
  <2>5. Saving' = {}
    BY <2>2 DEF Saving
  <2> QED
    BY <2>1, <2>2, <2>3, <2>4, <2>5 DEF CompleteInv
<1>7. CASE Advance \/ Begin \/ Stop \/ Dismiss \/ UNCHANGED vars
  BY <1>1, <1>7 DEF Advance, Begin, Stop, Dismiss, vars, history
<1>8. CASE AnswerClear
  BY <1>8 DEF AnswerClear, CompleteInv
<1>9. ASSUME NEW c \in Calls, AnswerHours(c) PROVE CompleteInv'
  <2>1. StaysOnItsWay(c, {"split"}) /\ call'[c].pc = "split"
    BY <1>9, AnswerHoursType DEF StaysOnItsWay
  <2>2. UNCHANGED <<paid, clearing, disturbed>>
    BY <1>9 DEF AnswerHours, history
  <2> QED
    BY <1>2, <2>1, <2>2
<1>10. ASSUME NEW c \in Calls, SplitHours(c) PROVE CompleteInv'
  <2>1. StaysOnItsWay(c, {"exists"}) /\ call'[c].pc = "exists"
    BY <1>10, SplitHoursType DEF StaysOnItsWay
  <2>2. UNCHANGED <<paid, clearing, disturbed>>
    BY <1>10 DEF SplitHours
  <2> QED
    BY <1>2, <2>1, <2>2
<1>11. ASSUME NEW c \in Calls, AnswerExists(c) PROVE CompleteInv'
  <2>1. StaysOnItsWay(c, {"write"}) /\ call'[c].found = doc[call[c].date].exists
    BY <1>11, AnswerExistsType
  <2>2. UNCHANGED <<paid, clearing, disturbed>>
    BY <1>11 DEF AnswerExists, history
  <2> QED
    BY <1>2, <2>1, <2>2
<1> QED
  BY <1>3, <1>4, <1>5, <1>6, <1>7, <1>8, <1>9, <1>10, <1>11 DEF Next

-----------------------------------------------------------------------------
(* Hours. *)

\* The list of a day, and every list that an invocation holds, may still receive the
\* seconds of all sessions that are not in it, and does not exceed what was spent.
HoursInv ==
  ~ acrossDay =>
    \A d \in Days, h \in Hours :
      /\ Total(Spending(call, d, h)) <= spanned[d][h]
      /\ doc[d].exists => doc[d].hours[h] + Total(Spending(call, d, h)) <= spanned[d][h]
      /\ \A c \in Calls : call[c].date = d =>
           /\ call[c].pc = "split" /\ call[c].hours # <<>> =>
                call[c].hours[h] + Total(Spending(call, d, h)) <= spanned[d][h]
           /\ call[c].pc \in {"exists", "write"} =>
                call[c].hours[h] + Total(Spending(call, d, h)) - Spent(call[c], d, h)
                  <= spanned[d][h]

\* Lists of integers.
LEMMA ListTypes ==
  ASSUME TypeInv, NEW h \in Hours
  PROVE  /\ \A d \in Days : doc[d].exists => doc[d].hours[h] \in Int
         /\ \A c \in Calls :
              /\ call[c].hours # <<>> => call[c].hours[h] \in Int
              /\ call[c].pc \in {"exists", "write"} => call[c].hours[h] \in Int
<1>1. \A d \in Days : doc[d].exists => doc[d].hours[h] \in Int
  BY DEF TypeInv, DocsInOrder
<1>2. \A c \in Calls : call[c].hours \in [Hours -> Int] \union {<<>>}
  BY DEF TypeInv, TypeOK, HourLists
<1>3. \A c \in Calls : call[c].pc \in {"exists", "write"} => call[c].hours \in [Hours -> Int]
  BY DEF TypeInv, CallsInOrder
<1> QED
  BY <1>1, <1>2, <1>3

\* The seconds that an invocation spent, as numbers.
LEMMA SpentType ==
  ASSUME NEW k \in CallStates, NEW d \in Days, NEW h \in Hours
  PROVE  Spent(k, d, h) \in Nat
<1>1. d \in Nat /\ h \in Nat
  BY Constants
<1>2. k.startTime \in Nat /\ k.endTime \in Nat
  BY CallFields
<1> QED
  BY <1>1, <1>2, OverlapType DEF Spent

\* A split list keeps within what was spent when the list it was made from did.
LEMMA SplitHoursWithin ==
  ASSUME TypeInv, TypeInv', HoursInv, NEW c \in Calls, SplitHours(c), ~ acrossDay',
         NEW h \in Hours
  PROVE  call'[c].hours[h] + Total(Spending(call, call[c].date, h)) - Spent(call[c], call[c].date, h)
           <= spanned[call[c].date][h]
<1> DEFINE d     == call[c].date
           start == call[c].startTime
           end   == call[c].endTime
           total == Total(Spending(call, d, h))
<1>1. call[c] \in CallStates /\ call'[c].hours \in [Hours -> Int]
  BY SplitHoursType DEF TypeInv, TypeOK, CallStates, CallsInOrder, StaysOnItsWay
<1>2. d \in Days /\ d \in Nat /\ start \in Nat /\ end \in Nat
  BY <1>1, CallFields
<1>3. /\ start <= end /\ end <= clock /\ DayOf(end) <= d /\ d <= DayOf(clock)
      /\ DayOf(start) = DayOf(clock) /\ DayOf(end) = DayOf(clock) /\ ~ acrossDay
  BY DEF SplitHours, TypeInv, CallsInOrder
<1>4. DayOf(end) \in Nat
  BY <1>2, DaysInOrder
<1>5. DayOf(start) = d /\ DayOf(end) = d /\ DayOf(clock) = d
  BY <1>2, <1>3, <1>4
<1>6. Spent(call[c], d, h) = Overlap(d, h, start, end) /\ Overlap(d, h, start, end) \in Nat
  BY <1>1, <1>2, SpentType DEF Spent, SplitHours
<1>7. total \in Nat /\ spanned[d][h] \in Nat
  BY <1>2, StateTypes
<1>8. total <= spanned[d][h]
  BY <1>2, <1>3 DEF HoursInv
<1>9. CASE call[c].hours = <<>>
  <2>1. call'[c].hours = Split(d, start, end)
    BY <1>5, <1>9, SplitHoursType
  <2>2. call'[c].hours[h] <= Overlap(d, h, start, end)
    BY <1>2, <1>3, <1>5, <2>1, SplitWithin
  <2>3. call'[c].hours[h] \in Int
    BY <1>1
  <2> QED
    BY <1>6, <1>7, <1>8, <2>2, <2>3
<1>10. CASE call[c].hours # <<>>
  <2>1. call'[c].hours = AddWithinHour(call[c].hours, start, end)
    BY <1>10, SplitHoursType
  <2>2. call[c].hours \in [Hours -> Int]
    BY <1>1, <1>10 DEF CallStates, HourLists
  <2>3. call'[c].hours[h] <= call[c].hours[h] + Overlap(d, h, start, end)
    BY <1>2, <1>3, <1>5, <2>1, <2>2, AddWithin
  <2>4. call[c].hours[h] + total <= spanned[d][h]
    BY <1>2, <1>3, <1>10 DEF HoursInv, SplitHours
  <2>5. call'[c].hours[h] \in Int /\ call[c].hours[h] \in Int
    BY <1>1, <2>2
  <2> QED
    BY <1>6, <1>7, <2>3, <2>4, <2>5
<1> QED
  BY <1>9, <1>10

LEMMA HoursStep ==
  ASSUME TypeInv, TypeInv', HoursInv, [Next]_vars
  PROVE  HoursInv'
<1> SUFFICES ASSUME ~ acrossDay', NEW d \in Days, NEW h \in Hours
    PROVE  /\ Total(Spending(call', d, h)) <= spanned'[d][h]
           /\ doc'[d].exists => doc'[d].hours[h] + Total(Spending(call', d, h)) <= spanned'[d][h]
           /\ \A k \in Calls : call'[k].date = d =>
                /\ call'[k].pc = "split" /\ call'[k].hours # <<>> =>
                     call'[k].hours[h] + Total(Spending(call', d, h)) <= spanned'[d][h]
                /\ call'[k].pc \in {"exists", "write"} =>
                     call'[k].hours[h] + Total(Spending(call', d, h)) - Spent(call'[k], d, h)
                       <= spanned'[d][h]
  BY DEF HoursInv
<1> DEFINE Goal == /\ Total(Spending(call', d, h)) <= spanned'[d][h]
                   /\ doc'[d].exists =>
                        doc'[d].hours[h] + Total(Spending(call', d, h)) <= spanned'[d][h]
                   /\ \A k \in Calls : call'[k].date = d =>
                        /\ call'[k].pc = "split" /\ call'[k].hours # <<>> =>
                             call'[k].hours[h] + Total(Spending(call', d, h)) <= spanned'[d][h]
                        /\ call'[k].pc \in {"exists", "write"} =>
                             call'[k].hours[h] + Total(Spending(call', d, h)) - Spent(call'[k], d, h)
                               <= spanned'[d][h]
           total == Total(Spending(call, d, h))
           next  == Total(Spending(call', d, h))
<1>1. call \in [Calls -> CallStates] /\ call' \in [Calls -> CallStates]
  BY DEF TypeInv, TypeOK, CallStates
<1>2. total \in Nat /\ next \in Nat /\ spanned[d][h] \in Nat
  BY <1>1, StateTypes, TermTypes, Sum
<1>3. ~ acrossDay => /\ total <= spanned[d][h]
                     /\ doc[d].exists => doc[d].hours[h] + total <= spanned[d][h]
                     /\ \A k \in Calls : call[k].date = d =>
                          /\ call[k].pc = "split" /\ call[k].hours # <<>> =>
                               call[k].hours[h] + total <= spanned[d][h]
                          /\ call[k].pc \in {"exists", "write"} =>
                               call[k].hours[h] + total - Spent(call[k], d, h) <= spanned[d][h]
  BY DEF HoursInv
<1>4. /\ doc[d].exists => doc[d].hours[h] \in Int
      /\ \A k \in Calls :
           /\ call[k].hours # <<>> => call[k].hours[h] \in Int
           /\ call[k].pc \in {"exists", "write"} => call[k].hours[h] \in Int
  BY ListTypes
<1>5. \A k \in Calls : Spent(call[k], d, h) \in Nat /\ Spent(call'[k], d, h) \in Nat
  BY <1>1, SpentType
<1>6. CASE UNCHANGED <<doc, call, spanned, acrossDay>>
  BY <1>3, <1>6
<1>7. ASSUME NEW c \in Calls, NEW pcs, StaysOnItsWay(c, pcs), "idle" \notin pcs
      PROVE  /\ next = total
             /\ doc' = doc
             /\ \A k \in Calls \ {c} : call'[k] = call[k]
             /\ call'[c].date = call[c].date
             /\ Spent(call'[c], d, h) = Spent(call[c], d, h)
  BY <1>7, OnItsWay DEF StaysOnItsWay, Spent
<1>8. ASSUME NEW c \in Calls, Finish(c) PROVE Goal
  <2>1. HandsOver(c) /\ ~ acrossDay
    BY <1>8, FinishType DEF HandsOver
  <2>2. \A k \in Calls \ {c} : call'[k] = call[k]
    BY <2>1 DEF HandsOver
  <2>3. next = total - Spent(call[c], d, h) + Spent(call'[c], d, h)
    BY <1>1, <2>2, OneCall
  <2>4. Spent(call[c], d, h) = 0
    BY <2>1 DEF HandsOver, Spent
  <2>5. /\ spanned'[d][h] = spanned[d][h] + Overlap(d, h, call'[c].startTime, call'[c].endTime)
        /\ Overlap(d, h, call'[c].startTime, call'[c].endTime) \in Nat
    <3>1. d \in Nat /\ h \in Nat /\ call'[c].startTime \in Nat /\ call'[c].endTime \in Nat
      BY <1>1, CallFields, Constants
    <3> QED
      BY <2>1, <3>1, OverlapType DEF HandsOver
  <2>6. Spent(call'[c], d, h) <= Overlap(d, h, call'[c].startTime, call'[c].endTime)
    BY <2>5 DEF Spent
  <2>7. spanned'[d][h] - next >= spanned[d][h] - total /\ spanned'[d][h] \in Nat
    BY <1>2, <1>5, <2>3, <2>4, <2>5, <2>6
  <2>8. doc' = doc /\ call'[c].pc = "hours"
    BY <2>1 DEF HandsOver
  <2> HIDE DEF total, next
  <2>9. next <= spanned'[d][h]
    BY <1>2, <1>3, <2>1, <2>7
  <2>10. doc'[d].exists => doc'[d].hours[h] + next <= spanned'[d][h]
    <3>1. doc[d].exists => doc[d].hours[h] \in Int /\ doc[d].hours[h] + total <= spanned[d][h]
      BY <1>3, <1>4, <2>1
    <3> QED
      BY <1>2, <2>7, <2>8, <3>1, Shifted
  <2>11. ASSUME NEW k \in Calls, call'[k].date = d
         PROVE  /\ call'[k].pc = "split" /\ call'[k].hours # <<>> =>
                     call'[k].hours[h] + next <= spanned'[d][h]
                /\ call'[k].pc \in {"exists", "write"} =>
                     call'[k].hours[h] + next - Spent(call'[k], d, h) <= spanned'[d][h]
    <3>1. CASE k = c
      BY <2>8, <3>1
    <3>2. CASE k # c
      <4>1. call'[k] = call[k] /\ call[k].date = d
        BY <2>2, <2>11, <3>2
      <4>2. /\ call[k].pc = "split" /\ call[k].hours # <<>> =>
                 call[k].hours[h] + total <= spanned[d][h] /\ call[k].hours[h] \in Int
            /\ call[k].pc \in {"exists", "write"} =>
                 /\ call[k].hours[h] + total - Spent(call[k], d, h) <= spanned[d][h]
                 /\ call[k].hours[h] \in Int
        BY <1>3, <1>4, <2>1, <4>1
      <4>3. Spent(call[k], d, h) \in Nat
        BY <1>5
      <4>4. ASSUME call[k].pc = "split", call[k].hours # <<>>
            PROVE  call[k].hours[h] + next <= spanned'[d][h]
        <5>1. call[k].hours[h] \in Int /\ call[k].hours[h] + total <= spanned[d][h]
          BY <4>2, <4>4
        <5> QED
          BY <1>2, <2>7, <5>1, Shifted
      <4>5. ASSUME call[k].pc \in {"exists", "write"}
            PROVE  call[k].hours[h] + next - Spent(call[k], d, h) <= spanned'[d][h]
        <5>1. /\ call[k].hours[h] \in Int
              /\ call[k].hours[h] + total - Spent(call[k], d, h) <= spanned[d][h]
          BY <4>2, <4>5
        <5> QED
          BY <1>2, <2>7, <4>3, <5>1, Shifted
      <4> QED
        BY <4>1, <4>4, <4>5
    <3> QED
      BY <3>1, <3>2
  <2> QED
    BY <2>9, <2>10, <2>11 DEF next
<1>9. ASSUME NEW c \in Calls, AnswerHours(c) PROVE Goal
  <2>1. StaysOnItsWay(c, {"split"}) /\ call'[c].hours = doc[call[c].date].hours
    BY <1>9, AnswerHoursType
  <2>2. /\ next = total /\ doc' = doc /\ \A k \in Calls \ {c} : call'[k] = call[k]
        /\ call'[c].date = call[c].date /\ call'[c].pc = "split"
    BY <1>7, <2>1 DEF StaysOnItsWay
  <2>3. acrossDay' = acrossDay /\ spanned' = spanned
    BY <1>9 DEF AnswerHours, history
  <2>4. call'[c].date = d /\ call'[c].hours # <<>> => doc[d].exists /\ call'[c].hours = doc[d].hours
    BY <2>1, <2>2 DEF TypeInv, DocsInOrder
  <2> HIDE DEF total, next
  <2>5. \A k \in Calls : call'[k].date = d =>
          /\ call'[k].pc = "split" /\ call'[k].hours # <<>> =>
               call'[k].hours[h] + next <= spanned'[d][h]
          /\ call'[k].pc \in {"exists", "write"} =>
               call'[k].hours[h] + next - Spent(call'[k], d, h) <= spanned'[d][h]
    BY <1>3, <2>2, <2>3, <2>4
  <2> QED
    BY <1>3, <2>2, <2>3, <2>5 DEF next
<1>10. ASSUME NEW c \in Calls, SplitHours(c) PROVE Goal
  <2>1. StaysOnItsWay(c, {"exists"}) /\ ~ acrossDay /\ spanned' = spanned
    BY <1>10, SplitHoursType DEF SplitHours
  <2>2. /\ next = total /\ doc' = doc /\ \A k \in Calls \ {c} : call'[k] = call[k]
        /\ call'[c].date = call[c].date /\ Spent(call'[c], d, h) = Spent(call[c], d, h)
        /\ call'[c].pc = "exists"
    BY <1>7, <2>1 DEF StaysOnItsWay
  <2>3. call[c].date = d => call'[c].hours[h] + total - Spent(call[c], d, h) <= spanned[d][h]
    BY <1>10, SplitHoursWithin
  <2> HIDE DEF total, next
  <2>4. \A k \in Calls : call'[k].date = d =>
          /\ call'[k].pc = "split" /\ call'[k].hours # <<>> =>
               call'[k].hours[h] + next <= spanned'[d][h]
          /\ call'[k].pc \in {"exists", "write"} =>
               call'[k].hours[h] + next - Spent(call'[k], d, h) <= spanned'[d][h]
    BY <1>3, <2>1, <2>2, <2>3
  <2> QED
    BY <1>3, <2>1, <2>2, <2>4 DEF next
<1>11. ASSUME NEW c \in Calls, AnswerExists(c) PROVE Goal
  <2>1. StaysOnItsWay(c, {"write"}) /\ call'[c].hours = call[c].hours /\ call[c].pc = "exists"
    BY <1>11, AnswerExistsType DEF AnswerExists
  <2>2. /\ next = total /\ doc' = doc /\ \A k \in Calls \ {c} : call'[k] = call[k]
        /\ call'[c].date = call[c].date /\ Spent(call'[c], d, h) = Spent(call[c], d, h)
        /\ call'[c].pc = "write"
    BY <1>7, <2>1 DEF StaysOnItsWay
  <2>3. acrossDay' = acrossDay /\ spanned' = spanned
    BY <1>11 DEF AnswerExists, history
  <2> HIDE DEF total, next
  <2>4. \A k \in Calls : call'[k].date = d =>
          /\ call'[k].pc = "split" /\ call'[k].hours # <<>> =>
               call'[k].hours[h] + next <= spanned'[d][h]
          /\ call'[k].pc \in {"exists", "write"} =>
               call'[k].hours[h] + next - Spent(call'[k], d, h) <= spanned'[d][h]
    BY <1>3, <2>1, <2>2, <2>3
  <2> QED
    BY <1>3, <2>2, <2>3, <2>4 DEF next
<1>12. ASSUME NEW c \in Calls, Write(c) PROVE Goal
  <2>1. acrossDay' = acrossDay /\ spanned' = spanned /\ call[c].pc = "write"
    BY <1>12 DEF Write, history
  <2>2. call' = [call EXCEPT ![c] = Idle]
    BY <1>12, WriteType
  <2>3. (\A k \in Calls \ {c} : call'[k] = call[k]) /\ call'[c].pc = "idle"
    BY <1>1, <2>2 DEF Idle
  <2>4. next = total - Spent(call[c], d, h) + Spent(call'[c], d, h)
    BY <1>1, <2>3, OneCall
  <2>5. Spent(call'[c], d, h) = 0 /\ (call[c].date # d => Spent(call[c], d, h) = 0)
    BY <2>3 DEF Spent
  <2>6. next = total - Spent(call[c], d, h) /\ Spent(call[c], d, h) \in Nat
    BY <1>2, <1>5, <2>4, <2>5
  <2> HIDE DEF total, next
  <2>7. next <= spanned'[d][h]
    BY <1>2, <1>3, <2>1, <2>6
  <2>8. doc'[d].exists => doc'[d].hours[h] + next <= spanned'[d][h]
    <3>1. CASE d = call[c].date
      <4>1. doc'[d].exists => doc'[d].hours = call[c].hours
        BY <1>12, <3>1, WriteType
      <4>2. call[c].hours[h] + total - Spent(call[c], d, h) <= spanned[d][h] /\ call[c].hours[h] \in Int
        BY <1>3, <1>4, <2>1, <3>1
      <4> QED
        BY <1>2, <2>1, <2>6, <4>1, <4>2
    <3>2. CASE d # call[c].date
      <4>1. doc'[d] = doc[d]
        BY <1>12, <3>2, WriteType
      <4> QED
        BY <1>2, <1>3, <1>4, <2>1, <2>6, <4>1
    <3> QED
      BY <3>1, <3>2
  <2>9. ASSUME NEW k \in Calls, call'[k].date = d
        PROVE  /\ call'[k].pc = "split" /\ call'[k].hours # <<>> =>
                    call'[k].hours[h] + next <= spanned'[d][h]
               /\ call'[k].pc \in {"exists", "write"} =>
                    call'[k].hours[h] + next - Spent(call'[k], d, h) <= spanned'[d][h]
    <3>1. CASE k = c
      BY <2>3, <3>1
    <3>2. CASE k # c
      <4>1. call'[k] = call[k] /\ call[k].date = d
        BY <2>3, <2>9, <3>2
      <4>2. /\ call[k].pc = "split" /\ call[k].hours # <<>> =>
                 call[k].hours[h] + total <= spanned[d][h] /\ call[k].hours[h] \in Int
            /\ call[k].pc \in {"exists", "write"} =>
                 /\ call[k].hours[h] + total - Spent(call[k], d, h) <= spanned[d][h]
                 /\ call[k].hours[h] \in Int
        BY <1>3, <1>4, <2>1, <4>1
      <4>3. Spent(call[k], d, h) \in Nat
        BY <1>5
      <4> QED
        BY <1>2, <2>1, <2>6, <4>1, <4>2, <4>3
    <3> QED
      BY <3>1, <3>2
  <2> QED
    BY <2>7, <2>8, <2>9 DEF next
<1>13. CASE Clear
  <2>1. UNCHANGED <<call, spanned, acrossDay>> /\ (doc'[d].exists => doc'[d] = doc[d])
    BY <1>13 DEF Clear, history, NoDoc
  <2> QED
    BY <1>3, <2>1
<1>14. CASE Kill
  <2>1. UNCHANGED <<doc, spanned, acrossDay>> /\ \A c \in Calls : call'[c].pc = "idle"
    BY <1>14 DEF Kill, Idle
  <2>2. next = 0
    BY <1>1, <2>1, NoCalls
  <2> QED
    BY <1>2, <1>3, <1>4, <2>1, <2>2
<1>15. CASE Advance \/ Begin \/ Stop \/ Dismiss \/ AnswerClear \/ UNCHANGED vars
  BY <1>6, <1>15 DEF Advance, Begin, Stop, Dismiss, AnswerClear, vars, history
<1> QED
  BY <1>8, <1>9, <1>10, <1>11, <1>12, <1>13, <1>14, <1>15 DEF Next

-----------------------------------------------------------------------------
(* The theorems. *)

RecordInv == TypeInv /\ PaidInv /\ CompleteInv /\ HoursInv

\* The inductive invariant: types and documents in order, and the three ledgers.
THEOREM Invariance == Spec => []RecordInv
<1>1. ASSUME Init PROVE RecordInv
  <2>1. TypeInv
    BY <1>1, InitType
  <2>2. call \in [Calls -> CallStates] /\ \A c \in Calls : call[c].pc = "idle"
    BY <1>1, NothingTypes DEF Init, Idle
  <2>3. /\ \A d \in Days : Total(Owing(call, d)) = 0
        /\ \A d \in Days, h \in Hours : Total(Spending(call, d, h)) = 0
    BY <2>2, NoCalls
  <2>4. PaidInv
    BY <1>1, <2>3 DEF Init, PaidInv, NoDoc
  <2>5. CompleteInv
    <3>1. Saving = {} /\ \A c \in Calls : call[c].pc # "write"
      BY <2>2 DEF Saving
    <3>2. clearing = {} /\ \A d \in Days : doc[d].total = 0 /\ paid[d] = 0
      BY <1>1 DEF Init, NoDoc
    <3> QED
      BY <2>3, <3>1, <3>2 DEF CompleteInv
  <2>6. HoursInv
    BY <1>1, <2>2, <2>3 DEF Init, HoursInv, NoDoc
  <2> QED
    BY <2>1, <2>4, <2>5, <2>6 DEF RecordInv
<1>2. RecordInv /\ [Next]_vars => RecordInv'
  BY StepType, PaidStep, CompleteStep, HoursStep DEF RecordInv
<1> QED
  BY <1>1, <1>2, PTL DEF Spec

\* Every variable keeps its type.
THEOREM TypeCorrect == Spec => []TypeOK
<1>1. RecordInv => TypeOK
  BY DEF RecordInv, TypeInv
<1> QED
  BY <1>1, Invariance, PTL

\* Whatever saves, clearings and kills overlap, no more is recorded for a day than
\* its sessions were paid.
THEOREM NothingIsCountedTwice == Spec => []RecordedWasPaid
<1>1. RecordInv => RecordedWasPaid
  <2> SUFFICES ASSUME RecordInv, NEW d \in Days PROVE doc[d].total <= paid[d]
    BY DEF RecordedWasPaid
  <2>1. doc[d].total \in Nat /\ Total(Owing(call, d)) \in Nat /\ paid[d] \in Nat
    BY StateTypes DEF RecordInv
  <2> QED
    BY <2>1 DEF RecordInv, PaidInv
<1> QED
  BY <1>1, Invariance, PTL

\* Saves that nothing disturbs lose nothing.
THEOREM UndisturbedSavesAreComplete == Spec => []RecordIsComplete
<1>1. RecordInv => RecordIsComplete
  <2> SUFFICES ASSUME RecordInv, ~ disturbed, Saving = {}, NEW d \in Days
               PROVE  doc[d].total = paid[d]
    BY DEF RecordIsComplete
  <2>1. call \in [Calls -> CallStates] /\ doc[d].total \in Nat
    BY StateTypes DEF RecordInv
  <2>2. Total(Owing(call, d)) = 0
    BY <2>1, NoCalls DEF Saving
  <2> QED
    BY <2>1, <2>2 DEF RecordInv, CompleteInv
<1> QED
  BY <1>1, Invariance, PTL

\* No hour of a day shows more seconds than sessions spent in it, unless one was
\* split on another day.
THEOREM HoursAreWithinSpans == Spec => []HoursAreSpanned
<1>1. RecordInv => HoursAreSpanned
  <2> SUFFICES ASSUME RecordInv, ~ acrossDay, NEW d \in Days, doc[d].exists, NEW h \in Hours
               PROVE  doc[d].hours[h] <= spanned[d][h]
    BY DEF HoursAreSpanned
  <2>1. Total(Spending(call, d, h)) \in Nat /\ spanned[d][h] \in Nat
    BY StateTypes DEF RecordInv
  <2>2. doc[d].hours[h] \in Int
    BY ListTypes DEF RecordInv
  <2>3. doc[d].hours[h] + Total(Spending(call, d, h)) <= spanned[d][h]
    BY DEF RecordInv, HoursInv
  <2> QED
    BY <2>1, <2>2, <2>3
<1> QED
  BY <1>1, Invariance, PTL
=============================================================================
