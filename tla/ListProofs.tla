----------------------------- MODULE ListProofs -----------------------------
(***************************************************************************)
(* Theorems about the page of tagged tasks (TagList), with any number of   *)
(* tasks, tags and handlers, and about repeated tasks that are completed   *)
(* now and then (RepeatDays), with the code's own calendar.                *)
(***************************************************************************)
EXTENDS TagList, RepeatDays, DataTheorems, SequenceTheorems

-----------------------------------------------------------------------------
(* RepeatDays.  All it takes is in DataTheorems. *)

RepeatInv ==
  /\ repeat \in Repetitions
  /\ today \in Nat \ {0}
  /\ date \in Nat
  /\ timed \in BOOLEAN
  /\ prev \in 0 .. today

LEMMA RepeatInvStays == DaysSpec => []RepeatInv
<1>1. InitDays => RepeatInv
  BY RepeatDaysAssumption DEF InitDays, RepeatInv, Repetitions
<1>2. RepeatInv /\ [NextDays]_days => RepeatInv'
  <2> SUFFICES ASSUME RepeatInv, [NextDays]_days PROVE RepeatInv'
    OBVIOUS
  <2>1. CASE Tomorrow
    BY <2>1 DEF Tomorrow, RepeatInv
  <2>2. CASE Complete
    <3>1. FindNextTime(repeat, date, timed, today) \in Nat
      BY NextDateIsLater DEF RepeatInv, Repetitions
    <3>2. timed' \in BOOLEAN
      BY <2>2, Zenon DEF Complete
    <3>3. repeat' \in Repetitions /\ today' \in Nat \ {0} /\ date' \in Nat /\ prev' \in 0 .. today'
      BY <2>2, <3>1 DEF Complete, RepeatInv
    <3> QED
      BY <3>2, <3>3, Zenon DEF RepeatInv
  <2>3. CASE UNCHANGED days
    BY <2>3 DEF days, RepeatInv
  <2> QED
    BY <2>1, <2>2, <2>3 DEF NextDays
<1> QED
  BY <1>1, <1>2, PTL DEF DaysSpec

\* Whatever the kind of repetition, the calendar and the way the task was completed so
\* far, findNextTime answers the first suitable day after today and the task's date (from today
\* on if the date is that of a weekly task, with a time of day).
THEOREM NextDateIsFirst == DaysSpec => []NextIsFirst
<1>1. RepeatInv => NextIsFirst
  BY FirstSuitableDay DEF RepeatInv, NextIsFirst
<1> QED
  BY RepeatInvStays, <1>1, PTL

\* giveMoney rewards at most one completion in a day, week or month, and but for monthly
\* tasks the first one in each.
THEOREM RewardedOncePerPeriod == DaysSpec => []RewardOncePerPeriod
<1>1. RepeatInv => RewardOncePerPeriod
  BY OneRewardAPeriod DEF RepeatInv, RewardOncePerPeriod
<1> QED
  BY RepeatInvStays, <1>1, PTL

-----------------------------------------------------------------------------
(* TagList.  Objects and Loads bound what TLC explores: here there is always *)
(* another list object, and another answer.                                  *)

Unbounded == ~ IsFiniteSet(Objects) /\ ~ IsFiniteSet(Loads)

\* What a handler knows: a completion its task, which was tapped, and the loop that
\* removes a tag its list.
CallOK(k) ==
  /\ k \in [pc : {"idle", "fade", "mark", "loop", "refresh", "query", "tags"},
            task : Tasks \union {"none"}, index : Nat, tag : Titles \union {NoTag},
            list : Objects \union {0}, length : Nat]
  /\ k.pc \in {"fade", "mark"} => k.task \in Tasks /\ k.task \in tapped
  /\ k.pc = "loop" => k.list \in Objects /\ k.tag \in Titles
  /\ k.pc # "loop" => k.list = 0

CallsOK == /\ call = [c \in Calls |-> call[c]]
           /\ \A c \in Calls : CallOK(call[c])

PageOK ==
  /\ heap \in [Objects -> Seq(Rows)]
  /\ eventTagList \in Objects
  /\ selectedEvents \in Objects
  /\ shownTags \in Seq(Titles) /\ shownTags # <<>> /\ Head(shownTags) = All
  /\ selectedIndex \in Nat
  /\ showCompleted \in BOOLEAN

DocumentsOK ==
  /\ task \in [Tasks -> [stage : {"none", "open", "done", "gone"}, tag : Titles \union {NoTag}]]
  /\ tags \subseteq Titles /\ IsFiniteSet(tags)
  /\ said \subseteq Titles

HistoryOK ==
  /\ tapped \subseteq Tasks
  /\ marks \in [Tasks -> 0 .. 2]
  /\ used \in [hurries : 0 .. MaxHurries, forms : 0 .. MaxForms, opens : 1 .. MaxOpens]

TypeInv == CallsOK /\ PageOK /\ DocumentsOK /\ HistoryOK

\* What getEventList finds, and what of it belongs to a tag.
Listed(t) == task[t].tag # NoTag /\ (task[t].stage = "open" \/ (showCompleted /\ Exists(t)))
InTag(tag, t) == Listed(t) /\ (tag = All \/ task[t].tag = tag)

\* The rows are those of a tag, each once and as in the database.
Shows(tag, rows) ==
  /\ \A i, j \in DOMAIN rows : rows[i].task = rows[j].task => i = j
  /\ \A i \in DOMAIN rows : /\ InTag(tag, rows[i].task)
                            /\ rows[i].tag = task[rows[i].task].tag
                            /\ rows[i].done = (task[rows[i].task].stage = "done")
  /\ \A t \in Tasks : InTag(tag, t) => \E i \in DOMAIN rows : rows[i].task = t

-----------------------------------------------------------------------------
(* What the operators on lists return. *)

LEMMA Sequence ==
  ASSUME NEW S, NEW n \in Nat, NEW f \in [1 .. n -> S]
  PROVE  f \in Seq(S) /\ Len(f) = n
BY SMT

LEMMA RowsOfSequence ==
  ASSUME NEW rows \in Seq(Rows)
  PROVE  /\ Len(rows) \in Nat
         /\ DOMAIN rows = 1 .. Len(rows)
         /\ \A i \in DOMAIN rows : rows[i] \in Rows
BY LenProperties, ElementOfSeq

LEMMA InUseIsFinite == IsFiniteSet(InUse)
<1> DEFINE lists == {call[c].list : c \in Calls}
<1>1. IsFiniteSet(lists)
  <2> DEFINE listOf == [c \in Calls |-> call[c].list]
  <2>1. listOf \in Surjection(Calls, lists)
    BY DEF Surjection
  <2> HIDE DEF listOf, lists
  <2> QED
    BY <2>1, FS_Surjection, TasksAssumption
<1> QED
  <2> HIDE DEF lists
  <2>1. IsFiniteSet({eventTagList} \union {selectedEvents})
    BY FS_Singleton, FS_Union
  <2>2. IsFiniteSet(({eventTagList} \union {selectedEvents}) \union lists)
    BY <1>1, <2>1, FS_Union
  <2>3. InUse = ({eventTagList} \union {selectedEvents}) \union lists
    BY DEF InUse, lists
  <2> QED
    BY <2>2, <2>3

LEMMA FreshObjectIs ==
  ASSUME Unbounded, TypeInv
  PROVE  FreshObject \in Objects \ InUse
<1> DEFINE free == Objects \ InUse
<1>3. free # {}
  <2> SUFFICES ASSUME free = {} PROVE FALSE
    OBVIOUS
  <2>1. Objects \in SUBSET InUse
    OBVIOUS
  <2> QED
    BY <2>1, InUseIsFinite, FS_Subset DEF Unbounded
<1>4. PICK l \in free : \A k \in free : l <= k
  BY <1>3, LeastNatural, ObjectsAssumption
<1> QED
  BY <1>4 DEF FreshObject

LEMMA FreshLoadIs ==
  ASSUME Unbounded, TypeInv
  PROVE  FreshLoad \in Loads
<1> DEFINE held     == InUse \ {0}
           load(l)  == {heap[l][i].load : i \in DOMAIN heap[l]}
           free     == Loads \ UsedLoads
<1>1. IsFiniteSet(held)
  BY InUseIsFinite, FS_Subset
<1>2. ASSUME NEW l \in held PROVE IsFiniteSet(load(l))
  <2> DEFINE loadOf == [i \in DOMAIN heap[l] |-> heap[l][i].load]
  <2>1. l \in Objects
    BY DEF InUse, TypeInv, CallsOK, CallOK, PageOK
  <2>2. IsFiniteSet(DOMAIN heap[l])
    BY <2>1, RowsOfSequence, FS_Interval DEF TypeInv, PageOK
  <2>3. loadOf \in Surjection(DOMAIN heap[l], load(l))
    BY DEF Surjection
  <2> HIDE DEF loadOf, load
  <2> QED
    BY <2>2, <2>3, FS_Surjection
<1>3. IsFiniteSet({load(l) : l \in held})
  <2> DEFINE loadsOf == [l \in held |-> load(l)]
  <2> HIDE DEF held, load
  <2>1. loadsOf \in Surjection(held, {load(l) : l \in held})
    BY DEF Surjection
  <2> HIDE DEF loadsOf
  <2> QED
    BY <1>1, <2>1, FS_Surjection
<1>4. IsFiniteSet(UsedLoads)
  <2>1. \A S \in {load(l) : l \in held} : IsFiniteSet(S)
    BY <1>2
  <2> QED
    BY <1>3, <2>1, FS_UNION DEF UsedLoads
<1>5. free # {}
  <2> SUFFICES ASSUME free = {} PROVE FALSE
    OBVIOUS
  <2>1. Loads \in SUBSET UsedLoads
    OBVIOUS
  <2> QED
    BY <2>1, <1>4, FS_Subset DEF Unbounded
<1>6. PICK n \in free : \A m \in free : n <= m
  BY <1>5, LeastNatural, ObjectsAssumption
<1> QED
  BY <1>6 DEF FreshLoad

LEMMA FoundShows ==
  ASSUME TypeInv, NEW show \in BOOLEAN, NEW load \in Loads
  PROVE  LET rows == Found(show, load)
             wanted == {t \in Tasks : /\ task[t].tag # NoTag
                                      /\ task[t].stage = "open" \/ (show /\ Exists(t))}
         IN  /\ rows \in Seq(Rows)
             /\ \A i \in DOMAIN rows :
                  /\ rows[i].task \in wanted
                  /\ rows[i].tag = task[rows[i].task].tag
                  /\ rows[i].done = (task[rows[i].task].stage = "done")
             /\ \A i, j \in DOMAIN rows : rows[i].task = rows[j].task => i = j
             /\ \A t \in wanted : \E i \in DOMAIN rows : rows[i].task = t
<1> DEFINE wanted == {t \in Tasks : /\ task[t].tag # NoTag
                                    /\ task[t].stage = "open" \/ (show /\ Exists(t))}
           n      == Cardinality(wanted)
           order  == SetToSeq(wanted)
           row(t) == [task |-> t, tag |-> task[t].tag, done |-> task[t].stage = "done",
                      load |-> load]
           rows   == Found(show, load)
<1>1. n \in Nat /\ ExistsBijection(1 .. n, wanted)
  <2>1. IsFiniteSet(wanted)
    BY TasksAssumption, FS_Subset
  <2> HIDE DEF wanted
  <2> QED
    BY <2>1, FS_CardinalityType
<1>2. \E f \in [1 .. n -> wanted] : IsInjective(f)
  <2> HIDE DEF wanted, n
  <2> QED
    BY <1>1 DEF ExistsBijection, Bijection, Injection
<1>3. order \in [1 .. n -> wanted] /\ IsInjective(order)
  <2> HIDE DEF wanted
  <2> QED
    BY <1>2 DEF SetToSeq
<1>4. \A t \in wanted : \E i \in 1 .. n : order[i] = t
  <2>1. IsFiniteSet(1 .. n) /\ Cardinality(1 .. n) = n
    BY <1>1, FS_Interval
  <2>2. IsFiniteSet(wanted)
    BY TasksAssumption, FS_Subset
  <2>3. order \in Injection(1 .. n, wanted)
    BY <1>3 DEF Injection
  <2>4. order \in Surjection(1 .. n, wanted)
    <3> HIDE DEF wanted, order
    <3> QED
      BY <2>1, <2>2, <2>3, FS_Injection
  <2> QED
    BY <2>4 DEF Surjection
<1>5. DOMAIN rows = 1 .. n /\ \A i \in 1 .. n : rows[i] = row(order[i])
  <2>1. rows = [i \in DOMAIN order |-> row(order[i])]
    BY DEF Found
  <2> HIDE DEF rows, order, wanted, row
  <2> QED
    BY <2>1, <1>3
<1>6. \A t \in wanted : row(t) \in Rows
  BY DEF TypeInv, DocumentsOK, Rows
<1>7. rows \in [1 .. n -> Rows]
  <2>1. rows = [i \in DOMAIN order |-> row(order[i])]
    BY DEF Found
  <2> HIDE DEF rows, order, wanted, row
  <2> QED
    BY <2>1, <1>3, <1>6
<1>8. rows \in Seq(Rows)
  <2> HIDE DEF rows, n
  <2> QED
    BY <1>1, <1>7, Sequence
<1>9. \A i \in 1 .. n : rows[i].task = order[i] /\ rows[i].tag = task[order[i]].tag
                        /\ rows[i].done = (task[order[i]].stage = "done")
  <2> HIDE DEF rows, order, wanted, n
  <2> QED
    BY <1>5
<1> HIDE DEF rows, order, n
<1>10. \A i, j \in 1 .. n : rows[i].task = rows[j].task => i = j
  BY <1>3, <1>9 DEF IsInjective
<1>11. \A i \in 1 .. n : order[i] \in wanted
  <2> HIDE DEF wanted
  <2> QED
    BY <1>3
<1>12. \A t \in wanted : \E i \in 1 .. n : rows[i].task = t
  <2> HIDE DEF wanted
  <2> QED
    BY <1>4, <1>9
<1> HIDE DEF wanted
<1>13. \A i \in DOMAIN rows :
         /\ rows[i].task \in wanted
         /\ rows[i].tag = task[rows[i].task].tag
         /\ rows[i].done = (task[rows[i].task].stage = "done")
  BY <1>5, <1>9, <1>11
<1> QED
  BY <1>5, <1>8, <1>10, <1>12, <1>13 DEF rows, wanted

LEMMA FoundShowsAll ==
  ASSUME TypeInv, NEW load \in Loads
  PROVE  Found(showCompleted, load) \in Seq(Rows) /\ Shows(All, Found(showCompleted, load))
<1> DEFINE rows   == Found(showCompleted, load)
           wanted == {t \in Tasks : /\ task[t].tag # NoTag
                                    /\ task[t].stage = "open" \/ (showCompleted /\ Exists(t))}
<1>1. \A t \in Tasks : t \in wanted <=> InTag(All, t)
  BY DEF InTag, Listed
<1>2. /\ rows \in Seq(Rows)
      /\ \A i \in DOMAIN rows :
           /\ rows[i].task \in wanted
           /\ rows[i].tag = task[rows[i].task].tag
           /\ rows[i].done = (task[rows[i].task].stage = "done")
      /\ \A i, j \in DOMAIN rows : rows[i].task = rows[j].task => i = j
      /\ \A t \in wanted : \E i \in DOMAIN rows : rows[i].task = t
  <2>1. showCompleted \in BOOLEAN
    BY DEF TypeInv, PageOK
  <2> QED
    BY <2>1, FoundShows
<1>3. \A t \in wanted : t \in Tasks
  OBVIOUS
<1> HIDE DEF rows, wanted
<1>4. Shows(All, rows)
  BY <1>1, <1>2, <1>3 DEF Shows
<1> QED
  BY <1>2, <1>4 DEF rows

LEMMA MatchingRows ==
  ASSUME NEW rows \in Seq(Rows), NEW tag
  PROVE  LET kept == Matching(tag, rows)
         IN  /\ kept \in Seq(Rows)
             /\ tag = All => kept = rows
             /\ tag # All =>
                  \E at \in [DOMAIN kept -> DOMAIN rows] :
                    /\ \A k \in DOMAIN kept : kept[k] = rows[at[k]] /\ kept[k].tag = tag
                    /\ \A j, k \in DOMAIN kept : at[j] = at[k] => j = k
                    /\ \A i \in DOMAIN rows :
                         rows[i].tag = tag => \E k \in DOMAIN kept : at[k] = i
<1> DEFINE those == {i \in DOMAIN rows : rows[i].tag = tag}
           n     == Cardinality(those)
           at    == Ordered(those)
           kept  == Matching(tag, rows)
<1>1. CASE tag = All
  BY <1>1 DEF Matching
<1>2. CASE tag # All
  <2>1. those \subseteq Int /\ IsFiniteSet(those)
    <3>1. Len(rows) \in Nat /\ those \in SUBSET (1 .. Len(rows))
      BY RowsOfSequence
    <3>2. IsFiniteSet(1 .. Len(rows))
      BY <3>1, FS_Interval
    <3>3. IsFiniteSet(those)
      BY <3>1, <3>2, FS_Subset
    <3> QED
      BY <3>1, <3>3
  <2>2. /\ n \in Nat
        /\ at \in [1 .. n -> those]
        /\ \A i \in those : \E k \in 1 .. n : at[k] = i
        /\ \A j, k \in 1 .. n : at[j] = at[k] => j = k
    <3> HIDE DEF those
    <3> QED
      BY <2>1, OrderedMembers
  <2>3. kept = [k \in 1 .. n |-> rows[at[k]]]
    <3>1. kept = [k \in DOMAIN at |-> rows[at[k]]]
      BY <1>2 DEF Matching
    <3> HIDE DEF kept, at, those, n
    <3> QED
      BY <3>1, <2>2
  <2> HIDE DEF kept, at, n
  <2>4. \A k \in 1 .. n : at[k] \in DOMAIN rows /\ rows[at[k]].tag = tag /\ rows[at[k]] \in Rows
    BY <2>2, RowsOfSequence
  <2>5. kept \in Seq(Rows)
    <3>1. kept \in [1 .. n -> Rows]
      BY <2>3, <2>4
    <3> QED
      BY <2>2, <3>1, Sequence
  <2>6. DOMAIN kept = 1 .. n /\ \A k \in 1 .. n : kept[k] = rows[at[k]]
    BY <2>3
  <2>7. at \in [DOMAIN kept -> DOMAIN rows]
    BY <2>2, <2>6
  <2>8. \A i \in DOMAIN rows : rows[i].tag = tag => \E k \in DOMAIN kept : at[k] = i
    BY <2>2, <2>6
  <2> HIDE DEF those
  <2>9. /\ \A k \in DOMAIN kept : kept[k] = rows[at[k]] /\ kept[k].tag = tag
        /\ \A j, k \in DOMAIN kept : at[j] = at[k] => j = k
    BY <2>2, <2>4, <2>6
  <2> QED
    BY <1>2, <2>5, <2>7, <2>8, <2>9 DEF kept
<1> QED
  BY <1>1, <1>2

LEMMA MatchingShows ==
  ASSUME NEW rows \in Seq(Rows), NEW tag, Shows(All, rows)
  PROVE  Shows(tag, Matching(tag, rows))
<1> DEFINE kept == Matching(tag, rows)
<1>1. CASE tag = All
  BY <1>1, MatchingRows
<1>2. CASE tag # All
  <2>1. PICK at \in [DOMAIN kept -> DOMAIN rows] :
          /\ \A k \in DOMAIN kept : kept[k] = rows[at[k]] /\ kept[k].tag = tag
          /\ \A j, k \in DOMAIN kept : at[j] = at[k] => j = k
          /\ \A i \in DOMAIN rows : rows[i].tag = tag => \E k \in DOMAIN kept : at[k] = i
    BY <1>2, MatchingRows
  <2> HIDE DEF kept
  <2>2. \A k \in DOMAIN kept : at[k] \in DOMAIN rows
    BY <2>1
  <2>3. \A j, k \in DOMAIN kept : kept[j].task = kept[k].task => j = k
    BY <2>1, <2>2 DEF Shows
  <2>4. ASSUME NEW k \in DOMAIN kept
        PROVE  /\ InTag(tag, kept[k].task)
               /\ kept[k].tag = task[kept[k].task].tag
               /\ kept[k].done = (task[kept[k].task].stage = "done")
    BY <2>1, <2>2 DEF Shows, InTag
  <2>5. ASSUME NEW t \in Tasks, InTag(tag, t) PROVE \E k \in DOMAIN kept : kept[k].task = t
    <3>1. PICK i \in DOMAIN rows : rows[i].task = t
      BY <2>5 DEF Shows, InTag
    <3>2. rows[i].tag = tag
      BY <1>2, <2>5, <3>1 DEF Shows, InTag
    <3> QED
      BY <2>1, <3>1, <3>2
  <2>6. Shows(tag, kept)
    BY <2>3, <2>4, <2>5 DEF Shows
  <2> QED
    BY <2>6 DEF kept
<1> QED
  BY <1>1, <1>2

LEMMA WithoutRowType ==
  ASSUME NEW rows \in Seq(Rows), NEW row
  PROVE  WithoutRow(rows, row) \in Seq(Rows)
<1> DEFINE same(r) == r.task = row.task /\ r.tag = row.tag /\ r.done = row.done
           at      == {i \in 1 .. Len(rows) : same(rows[i])}
<1>1. CASE ~ \E i \in 1 .. Len(rows) : same(rows[i])
  BY <1>1 DEF WithoutRow, RemoveFirstMatch
<1>2. CASE \E i \in 1 .. Len(rows) : same(rows[i])
  <2>1. WithoutRow(rows, row) = RemoveAt(rows, Min(at))
    BY <1>2 DEF WithoutRow, RemoveFirstMatch, SelectInSeq
  <2>2. Min(at) \in at
    <3>1. at # {} /\ at \subseteq Nat
      BY <1>2, RowsOfSequence
    <3> HIDE DEF at
    <3> QED
      BY <3>1, LeastNatural DEF Min
  <2>3. PICK k \in 1 .. Len(rows) : k = Min(at)
    BY <2>2
  <2>4. SubSeq(rows, 1, k - 1) \in Seq(Rows) /\ SubSeq(rows, k + 1, Len(rows)) \in Seq(Rows)
    BY RowsOfSequence, SubSeqProperties
  <2> HIDE DEF at
  <2>5. RemoveAt(rows, Min(at)) \in Seq(Rows)
    BY <2>3, <2>4, ConcatProperties DEF RemoveAt
  <2> QED
    BY <2>1, <2>5
<1> QED
  BY <1>1, <1>2

LEMMA CollectedType ==
  ASSUME NEW objects \in [Objects -> Seq(Rows)], NEW roots
  PROVE  /\ Collected(objects, roots) \in [Objects -> Seq(Rows)]
         /\ \A l \in Objects : l \in roots => Collected(objects, roots)[l] = objects[l]
BY EmptySeq DEF Collected

LEMMA TagRowIs ==
  ASSUME TypeInv
  PROVE  /\ TagRow \in Seq(Titles)
         /\ Len(TagRow) = 1 + Cardinality(tags)
         /\ TagRow # <<>>
         /\ Head(TagRow) = All
         /\ Cardinality(tags) \in Nat
<1>1. tags \subseteq Titles /\ tags \subseteq Int /\ IsFiniteSet(tags)
  BY TitlesAssumption DEF TypeInv, DocumentsOK
<1>2. Cardinality(tags) \in Nat /\ Ordered(tags) \in [1 .. Cardinality(tags) -> tags]
  BY <1>1, OrderedMembers
<1>3. Ordered(tags) \in Seq(Titles) /\ Len(Ordered(tags)) = Cardinality(tags)
  <2>1. Ordered(tags) \in [1 .. Cardinality(tags) -> Titles]
    BY <1>1, <1>2
  <2> QED
    BY <1>2, <2>1, Sequence
<1>4. <<All>> \in Seq(Titles) /\ Len(<<All>>) = 1
  BY TitlesAssumption
<1>5. TagRow \in Seq(Titles) /\ Len(TagRow) = 1 + Cardinality(tags)
      /\ TagRow[1] = All
  BY <1>2, <1>3, <1>4, ConcatProperties DEF TagRow
<1> QED
  BY <1>2, <1>5

\* TypeInv is more than the type invariant that TLC checks.
LEMMA TypeInvSuffices == TypeInv => TypeOK
<1> SUFFICES ASSUME TypeInv PROVE TypeOK
  OBVIOUS
<1>1. \A l \in Objects : \A i \in DOMAIN heap[l] : heap[l][i] \in Rows
  BY RowsOfSequence DEF TypeInv, PageOK
<1>2. DOMAIN heap = Objects
  BY DEF TypeInv, PageOK
<1> USE DEF TypeInv
<1>3. call \in [Calls ->
       [pc : {"idle", "fade", "mark", "loop", "refresh", "query", "tags"},
        task : Tasks \union {"none"}, index : Nat, tag : Titles \union {NoTag},
        list : Objects \union {0}, length : Nat]]
  BY DEF CallsOK, CallOK
<1> QED
  BY <1>1, <1>2, <1>3 DEF TypeOK, PageOK, DocumentsOK, HistoryOK

-----------------------------------------------------------------------------
(* TypeInv is inductive: what the actions do to the parts of it. *)

LEMMA CallsStay ==
  ASSUME CallsOK, NEW c \in Calls, NEW k, CallOK(k)', tapped \subseteq tapped',
         call' = [call EXCEPT ![c] = k]
  PROVE  CallsOK'
<1>1. call' = [d \in Calls |-> call'[d]]
  BY DEF CallsOK
<1>2. ASSUME NEW d \in Calls PROVE CallOK(call[d])'
  <2>1. CASE d = c
    <3>1. call'[c] = k
      BY DEF CallsOK
    <3> QED
      BY <2>1, <3>1 DEF CallOK
  <2>2. CASE d # c
    <3>1. call'[d] = call[d] /\ CallOK(call[d])
      BY <2>2 DEF CallsOK
    <3> QED
      BY <3>1 DEF CallOK
  <2> QED
    BY <2>1, <2>2
<1> QED
  BY <1>1, <1>2 DEF CallsOK

LEMMA CallsUnchanged ==
  ASSUME CallsOK, UNCHANGED call, tapped \subseteq tapped'
  PROVE  CallsOK'
BY DEF CallsOK, CallOK

LEMMA IdleOK == CallOK(Idle) /\ (\A tag \in Titles \union {NoTag} : CallOK([Idle EXCEPT !.pc = "query", !.tag = tag]))
BY DEF CallOK, Idle, NoTag

LEMMA PageUnchanged ==
  ASSUME PageOK, UNCHANGED <<page, showCompleted>>
  PROVE  PageOK'
BY DEF PageOK, page

LEMMA DocumentsUnchanged ==
  ASSUME DocumentsOK, UNCHANGED <<task, tags, said>>
  PROVE  DocumentsOK'
BY DEF DocumentsOK

LEMMA HistoryUnchanged ==
  ASSUME HistoryOK, UNCHANGED <<tapped, marks, used>>
  PROVE  HistoryOK'
BY DEF HistoryOK

LEMMA ActsType ==
  ASSUME HistoryOK, NEW forms \in {0, 1}, Acts(forms)
  PROVE  used' \in [hurries : 0 .. MaxHurries, forms : 0 .. MaxForms, opens : 1 .. MaxOpens]
<1>1. used.hurries \in 0 .. MaxHurries /\ used.forms \in 0 .. MaxForms
      /\ used.opens \in 1 .. MaxOpens
  BY DEF HistoryOK
<1>2. used.forms + forms \in 0 .. MaxForms
  BY <1>1, BoundsAssumption DEF Acts
<1>3. (IF Busy = {} THEN used.hurries ELSE used.hurries + 1) \in 0 .. MaxHurries
  BY <1>1, BoundsAssumption DEF Acts
<1> QED
  BY <1>1, <1>2, <1>3 DEF Acts, HistoryOK

LEMMA SelectedTagType ==
  ASSUME PageOK, TagIsSelected
  PROVE  SelectedTag \in Titles
BY DEF PageOK, TagIsSelected, SelectedTag

LEMMA UpdateTaskType ==
  ASSUME Unbounded, TypeInv, NEW c \in Calls, NEW tag \in Titles \union {NoTag},
         UpdateTask(c, tag), tapped \subseteq tapped'
  PROVE  /\ CallsOK'
         /\ heap' \in [Objects -> Seq(Rows)]
         /\ eventTagList' \in Objects
         /\ UNCHANGED <<selectedEvents, shownTags>>
<1> DEFINE l == FreshObject
           objects == [heap EXCEPT ![l] = <<>>]
           roots == {l, selectedEvents} \union {call[b].list : b \in Calls \ {c}}
<1>1. l \in Objects
  BY FreshObjectIs
<1>2. objects \in [Objects -> Seq(Rows)]
  BY EmptySeq DEF TypeInv, PageOK
<1>3. heap' = Collected(objects, roots) /\ eventTagList' = l
  BY DEF UpdateTask
<1>4. heap' \in [Objects -> Seq(Rows)]
  <2> HIDE DEF objects, roots
  <2> QED
    BY <1>2, <1>3, CollectedType
<1>5. CallsOK'
  <2>1. CallOK([Idle EXCEPT !.pc = "query", !.tag = tag])'
    BY IdleOK DEF CallOK, Idle
  <2> QED
    BY <2>1, CallsStay DEF UpdateTask, TypeInv
<1> QED
  BY <1>1, <1>3, <1>4, <1>5 DEF UpdateTask

LEMMA RefreshType ==
  ASSUME Unbounded, TypeInv, NEW c \in Calls, Refresh(c)
  PROVE  TypeInv'
<1>1. call[c].tag \in Titles \union {NoTag}
  BY DEF TypeInv, CallsOK, CallOK
<1>2. UpdateTask(c, call[c].tag) /\ UNCHANGED <<task, tags, selectedIndex, showCompleted, said, tapped, marks, used>>
  BY DEF Refresh
<1>3. /\ CallsOK'
      /\ heap' \in [Objects -> Seq(Rows)]
      /\ eventTagList' \in Objects
      /\ UNCHANGED <<selectedEvents, shownTags>>
  BY <1>1, <1>2, UpdateTaskType
<1>4. PageOK'
  BY <1>2, <1>3 DEF PageOK, TypeInv
<1> QED
  BY <1>2, <1>3, <1>4, DocumentsUnchanged, HistoryUnchanged DEF TypeInv

LEMMA AnswerTasksType ==
  ASSUME Unbounded, TypeInv, NEW c \in Calls, AnswerTasks(c)
  PROVE  TypeInv'
<1> DEFINE rows   == heap[eventTagList] \o Found(showCompleted, FreshLoad)
           filled == [heap EXCEPT ![eventTagList] = rows]
           shown  == IF call[c].tag = All THEN eventTagList ELSE FreshObject
           kept   == Matching(call[c].tag, rows)
           roots  == {shown, eventTagList} \union {call[b].list : b \in Calls}
<1>1. rows \in Seq(Rows)
  <2>1. Found(showCompleted, FreshLoad) \in Seq(Rows)
    BY FreshLoadIs, FoundShowsAll
  <2>2. heap[eventTagList] \in Seq(Rows)
    BY DEF TypeInv, PageOK
  <2> QED
    BY <2>1, <2>2, ConcatProperties
<1>2. shown \in Objects
  BY FreshObjectIs DEF TypeInv, PageOK
<1>3. kept \in Seq(Rows)
  <2> HIDE DEF rows
  <2> QED
    BY <1>1, MatchingRows
<1>4. [filled EXCEPT ![shown] = kept] \in [Objects -> Seq(Rows)]
  <2> HIDE DEF rows, kept, shown
  <2> QED
    BY <1>1, <1>2, <1>3 DEF TypeInv, PageOK
<1>5. heap' = Collected([filled EXCEPT ![shown] = kept], roots) /\ selectedEvents' = shown
  BY DEF AnswerTasks
<1>6. heap' \in [Objects -> Seq(Rows)]
  <2> HIDE DEF filled, kept, shown, roots
  <2> QED
    BY <1>4, <1>5, CollectedType
<1>7. UNCHANGED <<task, tags, eventTagList, shownTags, selectedIndex, showCompleted, said,
                  tapped, marks, used>>
  BY DEF AnswerTasks
<1>8. CallsOK'
  <2> PICK k : k = [call[c] EXCEPT !.pc = "tags"]
    OBVIOUS
  <2>1. call' = [call EXCEPT ![c] = k]
    BY DEF AnswerTasks
  <2>2. CallOK(k)'
    <3>1. CallOK(call[c]) /\ call[c].pc = "query"
      BY DEF TypeInv, CallsOK, AnswerTasks
    <3> QED
      BY <1>7, <3>1 DEF CallOK
  <2> QED
    BY <1>7, <2>1, <2>2, CallsStay DEF TypeInv
<1>9. PageOK'
  <2> HIDE DEF shown
  <2> QED
    BY <1>2, <1>5, <1>6, <1>7 DEF PageOK, TypeInv
<1> QED
  BY <1>7, <1>8, <1>9, DocumentsUnchanged, HistoryUnchanged DEF TypeInv

LEMMA AnswerTagsType ==
  ASSUME Unbounded, TypeInv, NEW c \in Calls, AnswerTags(c)
  PROVE  TypeInv'
<1>1. /\ shownTags' = TagRow
      /\ call' = [call EXCEPT ![c] = Idle]
      /\ UNCHANGED <<task, tags, heap, eventTagList, selectedEvents, selectedIndex,
                     showCompleted, said, tapped, marks, used>>
  BY DEF AnswerTags
<1>2. CallsOK'
  <2>1. CallOK(Idle)'
    BY IdleOK, <1>1 DEF CallOK, Idle
  <2> QED
    BY <1>1, <2>1, CallsStay DEF TypeInv
<1>3. PageOK'
  BY <1>1, TagRowIs DEF PageOK, TypeInv
<1> QED
  BY <1>1, <1>2, <1>3, DocumentsUnchanged, HistoryUnchanged DEF TypeInv

LEMMA FadeType ==
  ASSUME Unbounded, TypeInv, NEW c \in Calls, Fade(c)
  PROVE  TypeInv'
<1> DEFINE rows == heap[selectedEvents]
           i    == call[c].index
<1>1. UNCHANGED <<task, tags, eventTagList, selectedEvents, shownTags, selectedIndex,
                  showCompleted, said, tapped, marks, used>>
  BY DEF Fade
<1>2. CASE i \in DOMAIN rows
  <2>1. PICK kept : kept = WithoutRow(rows, rows[i])
    OBVIOUS
  <2>2. heap' = [heap EXCEPT ![selectedEvents] = kept]
    BY <1>2, <2>1 DEF Fade
  <2>3. kept \in Seq(Rows)
    BY <2>1, WithoutRowType DEF TypeInv, PageOK
  <2>4. PageOK'
    BY <1>1, <2>2, <2>3 DEF TypeInv, PageOK
  <2>5. PICK k : k = [call[c] EXCEPT !.pc = "mark"]
    OBVIOUS
  <2>6. call' = [call EXCEPT ![c] = k]
    BY <1>2, <2>5 DEF Fade
  <2>7. CallOK(k)'
    <3>1. CallOK(call[c]) /\ call[c].pc = "fade"
      BY DEF TypeInv, CallsOK, Fade
    <3> QED
      BY <1>1, <2>5, <3>1 DEF CallOK
  <2>8. CallsOK'
    BY <1>1, <2>6, <2>7, CallsStay DEF TypeInv
  <2> QED
    BY <1>1, <2>4, <2>8, DocumentsUnchanged, HistoryUnchanged DEF TypeInv
<1>3. CASE i \notin DOMAIN rows
  <2>1. call' = [call EXCEPT ![c] = Idle] /\ UNCHANGED heap
    BY <1>3 DEF Fade
  <2>2. CallsOK'
    <3>1. CallOK(Idle)'
      BY IdleOK, <1>1 DEF CallOK, Idle
    <3> QED
      BY <1>1, <2>1, <3>1, CallsStay DEF TypeInv
  <2>3. PageOK'
    BY <1>1, <2>1 DEF TypeInv, PageOK
  <2> QED
    BY <1>1, <2>2, <2>3, DocumentsUnchanged, HistoryUnchanged DEF TypeInv
<1> QED
  BY <1>2, <1>3

LEMMA MarkType ==
  ASSUME Unbounded, TypeInv, NEW c \in Calls, Mark(c)
  PROVE  TypeInv'
<1> DEFINE t == call[c].task
<1>1. UNCHANGED <<tags, page, showCompleted, said, tapped, used>>
  BY DEF Mark
<1>2. CallOK(call[c]) /\ call[c].pc = "mark"
  BY DEF TypeInv, CallsOK, Mark
<1>3. t \in Tasks
  BY <1>2 DEF CallOK
<1>4. PageOK'
  BY <1>1, PageUnchanged DEF TypeInv
<1>5. CASE Exists(t)
  <2>1. PICK k : k = [call[c] EXCEPT !.pc = "refresh"]
    OBVIOUS
  <2>2. /\ task' = [task EXCEPT ![t].stage = "done"]
        /\ marks' = [marks EXCEPT ![t] = IF @ < 2 THEN @ + 1 ELSE @]
        /\ call' = [call EXCEPT ![c] = k]
    BY <1>5, <2>1 DEF Mark
  <2>3. CallOK(k)'
    BY <1>1, <1>2, <2>1 DEF CallOK
  <2>4. CallsOK'
    BY <1>1, <2>2, <2>3, CallsStay DEF TypeInv
  <2>5. DocumentsOK'
    BY <1>1, <1>3, <2>2 DEF DocumentsOK, TypeInv
  <2>6. HistoryOK'
    BY <1>1, <1>3, <2>2 DEF HistoryOK, TypeInv
  <2> QED
    BY <1>4, <2>4, <2>5, <2>6 DEF TypeInv
<1>6. CASE ~ Exists(t)
  <2>1. call' = [call EXCEPT ![c] = Idle] /\ UNCHANGED <<task, marks>>
    BY <1>6 DEF Mark
  <2>2. CallOK(Idle)'
    BY IdleOK, <1>1 DEF CallOK, Idle
  <2>3. CallsOK'
    BY <1>1, <2>1, <2>2, CallsStay DEF TypeInv
  <2> QED
    BY <1>1, <1>4, <2>1, <2>3, DocumentsUnchanged, HistoryUnchanged DEF TypeInv
<1> QED
  BY <1>5, <1>6

LEMMA RemoveTagTaskType ==
  ASSUME Unbounded, TypeInv, NEW c \in Calls, RemoveTagTask(c)
  PROVE  TypeInv'
<1> DEFINE rows == heap[call[c].list]
           i    == call[c].index
<1>1. UNCHANGED <<tags, page, showCompleted, said, tapped, marks, used>> /\ i \in DOMAIN rows
  BY DEF RemoveTagTask
<1>2. CallOK(call[c]) /\ call[c].pc = "loop"
  BY DEF TypeInv, CallsOK, RemoveTagTask
<1>3. rows \in Seq(Rows) /\ Len(rows) \in Nat /\ rows[i] \in Rows /\ i \in Nat
  BY <1>1, <1>2, RowsOfSequence DEF TypeInv, PageOK, CallOK
<1>4. PICK t : t = rows[i].task /\ t \in Tasks
  BY <1>3 DEF Rows
<1>5. PageOK'
  BY <1>1, PageUnchanged DEF TypeInv
<1>6. HistoryOK'
  BY <1>1, HistoryUnchanged DEF TypeInv
<1>7. CASE (i > 1 => Len(rows) = call[c].length) /\ Exists(t)
  <2>1. PICK k : k = [call[c] EXCEPT !.index = i + 1, !.length = Len(rows)]
    OBVIOUS
  <2>2. task' = [task EXCEPT ![t].tag = NoTag] /\ call' = [call EXCEPT ![c] = k]
    BY <1>4, <1>7, <2>1 DEF RemoveTagTask
  <2>3. CallOK(k)'
    <3>1. PICK j \in Nat, n \in Nat : j = i + 1 /\ n = Len(rows)
      BY <1>3
    <3>2. k = [call[c] EXCEPT !.index = j, !.length = n]
      BY <2>1, <3>1
    <3>3. tapped' = tapped
      BY <1>1
    <3> HIDE DEF rows, i
    <3> QED
      BY <1>2, <3>2, <3>3 DEF CallOK
  <2>4. CallsOK'
    BY <1>1, <2>2, <2>3, CallsStay DEF TypeInv
  <2>5. DocumentsOK'
    BY <1>1, <1>4, <2>2 DEF DocumentsOK, TypeInv
  <2> QED
    BY <1>5, <1>6, <2>4, <2>5 DEF TypeInv
<1>8. CASE ~ ((i > 1 => Len(rows) = call[c].length) /\ Exists(t))
  <2>1. call' = [call EXCEPT ![c] = Idle] /\ UNCHANGED task
    BY <1>4, <1>8 DEF RemoveTagTask
  <2>2. CallOK(Idle)'
    BY IdleOK, <1>1 DEF CallOK, Idle
  <2>3. CallsOK'
    BY <1>1, <2>1, <2>2, CallsStay DEF TypeInv
  <2> QED
    BY <1>1, <1>5, <1>6, <2>1, <2>3, DocumentsUnchanged DEF TypeInv
<1> QED
  BY <1>7, <1>8

LEMMA EndDropType ==
  ASSUME Unbounded, TypeInv, NEW c \in Calls, EndDrop(c)
  PROVE  TypeInv'
<1> DEFINE rows == heap[call[c].list]
           aborted == call[c].index > 1 /\ Len(rows) # call[c].length
<1>1. UNCHANGED <<task, tags, showCompleted, tapped, marks, used>>
  BY DEF EndDrop
<1>2. CASE aborted
  <2>1. call' = [call EXCEPT ![c] = Idle] /\ UNCHANGED <<said, page>>
    BY <1>2 DEF EndDrop
  <2>2. CallOK(Idle)'
    BY IdleOK, <1>1 DEF CallOK, Idle
  <2>3. CallsOK'
    BY <1>1, <2>1, <2>2, CallsStay DEF TypeInv
  <2> QED
    BY <1>1, <2>1, <2>3, DocumentsUnchanged, HistoryUnchanged, PageUnchanged DEF TypeInv
<1>3. CASE ~ aborted
  <2>1. /\ said' = IF rows = <<>> THEN said ELSE said \union ({call[c].tag} \ tags)
        /\ UpdateTask(c, All)
        /\ UNCHANGED selectedIndex
    BY <1>3 DEF EndDrop
  <2>2. All \in Titles
    BY TitlesAssumption
  <2>3. /\ CallsOK'
        /\ heap' \in [Objects -> Seq(Rows)]
        /\ eventTagList' \in Objects
        /\ UNCHANGED <<selectedEvents, shownTags>>
    BY <1>1, <2>1, <2>2, UpdateTaskType
  <2>4. PageOK'
    BY <1>1, <2>1, <2>3 DEF PageOK, TypeInv
  <2>5. call[c].tag \in Titles
    BY DEF EndDrop, TypeInv, CallsOK, CallOK
  <2>6. DocumentsOK'
    <3> HIDE DEF rows
    <3> QED
      BY <1>1, <2>1, <2>5 DEF DocumentsOK, TypeInv
  <2> QED
    BY <1>1, <2>3, <2>4, <2>6, HistoryUnchanged DEF TypeInv
<1> QED
  BY <1>2, <1>3

\* Marking a row wherever it is listed leaves the lists as they are.
LEMMA MarkedLists ==
  ASSUME heap \in [Objects -> Seq(Rows)], NEW row \in Rows,
         heap' = [l \in Objects |-> [j \in DOMAIN heap[l] |->
                    IF heap[l][j] = row THEN [row EXCEPT !.done = TRUE] ELSE heap[l][j]]]
  PROVE  /\ heap' \in [Objects -> Seq(Rows)]
         /\ \A l \in Objects : Len(heap'[l]) = Len(heap[l])
<1> DEFINE marked(l) == [j \in DOMAIN heap[l] |->
             IF heap[l][j] = row THEN [row EXCEPT !.done = TRUE] ELSE heap[l][j]]
<1>1. ASSUME NEW l \in Objects
      PROVE  marked(l) \in Seq(Rows) /\ Len(marked(l)) = Len(heap[l])
  <2>1. Len(heap[l]) \in Nat /\ DOMAIN heap[l] = 1 .. Len(heap[l])
        /\ \A j \in DOMAIN heap[l] : heap[l][j] \in Rows
    BY RowsOfSequence
  <2>2. [row EXCEPT !.done = TRUE] \in Rows
    BY DEF Rows
  <2>3. PICK f : f = marked(l)
    OBVIOUS
  <2>4. f \in [1 .. Len(heap[l]) -> Rows]
    BY <2>1, <2>2, <2>3
  <2>5. f \in Seq(Rows) /\ Len(f) = Len(heap[l])
    BY <2>1, <2>4, Sequence
  <2> QED
    BY <2>3, <2>5
<1>2. heap' = [l \in Objects |-> marked(l)]
  OBVIOUS
<1> HIDE DEF marked
<1> QED
  BY <1>1, <1>2

LEMMA TapType ==
  ASSUME Unbounded, TypeInv, NEW c \in Calls, NEW i \in DOMAIN heap[selectedEvents], Tap(c, i)
  PROVE  TypeInv'
<1>1. PICK row : row = heap[selectedEvents][i]
  OBVIOUS
<1>2. row \in Rows /\ i \in Nat
  BY <1>1, RowsOfSequence DEF TypeInv, PageOK
<1>3. /\ TagIsSelected
      /\ heap' = [l \in Objects |-> [j \in DOMAIN heap[l] |->
                    IF heap[l][j] = row THEN [row EXCEPT !.done = TRUE] ELSE heap[l][j]]]
      /\ tapped' = tapped \union {row.task}
      /\ Acts(0)
      /\ UNCHANGED <<task, tags, eventTagList, selectedEvents, shownTags, selectedIndex,
                     showCompleted, said, marks>>
  BY <1>1 DEF Tap
<1>4. PageOK'
  <2>1. heap' \in [Objects -> Seq(Rows)]
    BY <1>2, <1>3, MarkedLists DEF TypeInv, PageOK
  <2> QED
    BY <1>3, <2>1 DEF PageOK, TypeInv
<1>5. row.task \in Tasks
  BY <1>2 DEF Rows
<1>6. CallsOK'
  <2>1. PICK k : k = [Idle EXCEPT !.pc = IF showCompleted THEN "mark" ELSE "fade",
                                  !.task = row.task, !.index = i, !.tag = SelectedTag]
    OBVIOUS
  <2>2. call' = [call EXCEPT ![c] = k]
    BY <1>1, <2>1 DEF Tap
  <2>3. SelectedTag \in Titles
    BY <1>3, SelectedTagType DEF TypeInv
  <2>4. CallOK(k)'
    BY <1>2, <1>3, <1>5, <2>1, <2>3 DEF CallOK, Idle
  <2> QED
    BY <1>3, <2>2, <2>4, CallsStay DEF TypeInv
<1>7. HistoryOK'
  <2>1. used' \in [hurries : 0 .. MaxHurries, forms : 0 .. MaxForms, opens : 1 .. MaxOpens]
    BY <1>3, ActsType DEF TypeInv
  <2> QED
    BY <1>3, <1>5, <2>1 DEF HistoryOK, TypeInv
<1> QED
  BY <1>3, <1>4, <1>6, <1>7, DocumentsUnchanged DEF TypeInv

LEMMA DeleteType ==
  ASSUME Unbounded, TypeInv, NEW c \in Calls, NEW i \in DOMAIN heap[selectedEvents], Delete(c, i)
  PROVE  TypeInv'
<1>1. PICK row : row = heap[selectedEvents][i]
  OBVIOUS
<1>2. row \in Rows
  BY <1>1, RowsOfSequence DEF TypeInv, PageOK
<1>3. PICK kept : kept = WithoutRow(heap[selectedEvents], row)
  OBVIOUS
<1>4. /\ TagIsSelected
      /\ heap' = [heap EXCEPT ![selectedEvents] = kept]
      /\ task' = [task EXCEPT ![row.task] = Gone]
      /\ Acts(0)
      /\ UNCHANGED <<tags, eventTagList, selectedEvents, shownTags, selectedIndex,
                     showCompleted, said, tapped, marks>>
  BY <1>1, <1>3 DEF Delete
<1>5. PageOK'
  <2>1. kept \in Seq(Rows)
    BY <1>3, WithoutRowType DEF TypeInv, PageOK
  <2> QED
    BY <1>4, <2>1 DEF PageOK, TypeInv
<1>6. CallsOK'
  <2>1. PICK k : k = [Idle EXCEPT !.pc = "refresh", !.tag = SelectedTag]
    OBVIOUS
  <2>2. call' = [call EXCEPT ![c] = k]
    BY <2>1 DEF Delete
  <2>3. SelectedTag \in Titles
    BY <1>4, SelectedTagType DEF TypeInv
  <2>4. CallOK(k)'
    BY <2>1, <2>3 DEF CallOK, Idle
  <2> QED
    BY <1>4, <2>2, <2>4, CallsStay DEF TypeInv
<1>7. HistoryOK'
  <2>1. used' \in [hurries : 0 .. MaxHurries, forms : 0 .. MaxForms, opens : 1 .. MaxOpens]
    BY <1>4, ActsType DEF TypeInv
  <2> QED
    BY <1>4, <2>1 DEF HistoryOK, TypeInv
<1>8. DocumentsOK'
  <2>1. row.task \in Tasks
    BY <1>2 DEF Rows
  <2> QED
    BY <1>4, <2>1 DEF DocumentsOK, TypeInv, Gone
<1> QED
  BY <1>5, <1>6, <1>7, <1>8 DEF TypeInv

\* The form, whatever it saved.
LEMMA FormType ==
  ASSUME Unbounded, TypeInv, NEW c \in Calls, NEW tag \in Titles \union {NoTag},
         NEW forms \in {0, 1}, UpdateTask(c, tag), Acts(forms), DocumentsOK',
         UNCHANGED <<selectedIndex, showCompleted, tapped, marks>>
  PROVE  TypeInv'
<1>1. /\ CallsOK'
      /\ heap' \in [Objects -> Seq(Rows)]
      /\ eventTagList' \in Objects
      /\ UNCHANGED <<selectedEvents, shownTags>>
  BY UpdateTaskType
<1>2. PageOK'
  BY <1>1 DEF PageOK, TypeInv
<1>3. HistoryOK'
  <2>1. used' \in [hurries : 0 .. MaxHurries, forms : 0 .. MaxForms, opens : 1 .. MaxOpens]
    BY ActsType DEF TypeInv
  <2> QED
    BY <2>1 DEF HistoryOK, TypeInv
<1> QED
  BY <1>1, <1>2, <1>3 DEF TypeInv

LEMMA AddTagType ==
  ASSUME Unbounded, TypeInv, NEW c \in Calls, NEW title \in Titles, AddTag(c, title)
  PROVE  TypeInv'
<1>1. /\ TagIsSelected
      /\ tags' = tags \union {title}
      /\ said' = said \ {title}
      /\ UpdateTask(c, SelectedTag)
      /\ Acts(1)
      /\ UNCHANGED <<task, selectedIndex, showCompleted, tapped, marks>>
  BY DEF AddTag
<1>2. SelectedTag \in Titles
  BY <1>1, SelectedTagType DEF TypeInv
<1>3. DocumentsOK'
  BY <1>1, FS_AddElement DEF DocumentsOK, TypeInv
<1> QED
  BY <1>1, <1>2, <1>3, FormType

LEMMA AddType ==
  ASSUME Unbounded, TypeInv, NEW c \in Calls, NEW t \in Tasks, Add(c, t)
  PROVE  TypeInv'
<1>1. PICK tag \in tags : task' = [task EXCEPT ![t] = [stage |-> "open", tag |-> tag]]
  BY DEF Add
<1>2. /\ TagIsSelected
      /\ UpdateTask(c, SelectedTag)
      /\ Acts(0)
      /\ UNCHANGED <<tags, selectedIndex, showCompleted, said, tapped, marks>>
  BY DEF Add
<1>3. SelectedTag \in Titles
  BY <1>2, SelectedTagType DEF TypeInv
<1>4. DocumentsOK'
  BY <1>1, <1>2 DEF DocumentsOK, TypeInv
<1> QED
  BY <1>2, <1>3, <1>4, FormType

LEMMA RetagType ==
  ASSUME Unbounded, TypeInv, NEW c \in Calls, NEW i \in DOMAIN heap[selectedEvents], Retag(c, i)
  PROVE  TypeInv'
<1>1. PICK row : row = heap[selectedEvents][i]
  OBVIOUS
<1>2. row.task \in Tasks /\ row.tag \in Titles
  <2>1. row \in Rows
    BY <1>1, RowsOfSequence DEF TypeInv, PageOK
  <2> QED
    BY <2>1 DEF Rows
<1>3. PICK new \in tags \union {row.tag, NoTag} : task' = [task EXCEPT ![row.task].tag = new]
  BY <1>1 DEF Retag
<1>4. PICK tag \in {All, SelectedTag} : UpdateTask(c, tag)
  BY DEF Retag
<1>5. TagIsSelected /\ Acts(1) /\ UNCHANGED <<tags, selectedIndex, showCompleted, said, tapped, marks>>
  BY DEF Retag
<1>6. tag \in Titles
  BY <1>4, <1>5, SelectedTagType, TitlesAssumption DEF TypeInv
<1>7. DocumentsOK'
  BY <1>2, <1>3, <1>5 DEF DocumentsOK, TypeInv
<1> QED
  BY <1>4, <1>5, <1>6, <1>7, FormType

LEMMA SelectType ==
  ASSUME Unbounded, TypeInv, NEW i \in DOMAIN shownTags, Select(i)
  PROVE  TypeInv'
<1>1. PICK tag : tag = shownTags[i]
  OBVIOUS
<1>2. PICK shown : shown = IF tag = All THEN eventTagList ELSE FreshObject
  OBVIOUS
<1>3. PICK kept : kept = Matching(tag, heap[eventTagList])
  OBVIOUS
<1>4. shown \in Objects /\ kept \in Seq(Rows) /\ i - 1 \in Nat
  BY <1>2, <1>3, FreshObjectIs, MatchingRows, LenProperties DEF TypeInv, PageOK
<1>5. PICK roots : heap' = Collected([heap EXCEPT ![shown] = kept], roots)
  BY <1>1, <1>2, <1>3 DEF Select
<1>6. selectedEvents' = shown
  BY <1>1, <1>2 DEF Select
<1>7. /\ selectedIndex' = i - 1
      /\ Acts(0)
      /\ UNCHANGED <<task, tags, eventTagList, shownTags, showCompleted, call, said, tapped, marks>>
  BY DEF Select
<1>8. PageOK'
  <2>1. [heap EXCEPT ![shown] = kept] \in [Objects -> Seq(Rows)]
    BY <1>4 DEF TypeInv, PageOK
  <2>2. heap' \in [Objects -> Seq(Rows)]
    BY <1>5, <2>1, CollectedType
  <2> QED
    BY <1>4, <1>6, <1>7, <2>2 DEF PageOK, TypeInv
<1>9. HistoryOK'
  <2>1. used' \in [hurries : 0 .. MaxHurries, forms : 0 .. MaxForms, opens : 1 .. MaxOpens]
    BY <1>7, ActsType DEF TypeInv
  <2> QED
    BY <1>7, <2>1 DEF HistoryOK, TypeInv
<1> QED
  BY <1>7, <1>8, <1>9, CallsUnchanged, DocumentsUnchanged DEF TypeInv

LEMMA DropType ==
  ASSUME Unbounded, TypeInv, NEW c \in Calls, NEW i \in DOMAIN shownTags, Drop(c, i)
  PROVE  TypeInv'
<1>1. PICK tag : tag = shownTags[i] /\ tag \in Titles
  BY ElementOfSeq, LenProperties DEF TypeInv, PageOK
<1>2. PICK list : list = IF tag = All THEN eventTagList ELSE FreshObject
  OBVIOUS
<1>3. PICK kept : kept = Matching(tag, heap[eventTagList])
  OBVIOUS
<1>4. list \in Objects /\ kept \in Seq(Rows)
  BY <1>2, <1>3, FreshObjectIs, MatchingRows DEF TypeInv, PageOK
<1>5. PICK k : k = [Idle EXCEPT !.pc = "loop", !.tag = tag, !.list = list, !.index = 1]
  OBVIOUS
<1>6. /\ tags' = tags \ {tag}
      /\ heap' = [heap EXCEPT ![list] = kept]
      /\ call' = [call EXCEPT ![c] = k]
  BY <1>1, <1>2, <1>3, <1>5 DEF Drop
<1>7. /\ selectedIndex' = 0
      /\ Acts(0)
      /\ UNCHANGED <<task, eventTagList, selectedEvents, shownTags, showCompleted, said,
                     tapped, marks>>
  BY DEF Drop
<1>8. PageOK'
  BY <1>4, <1>6, <1>7 DEF PageOK, TypeInv
<1>9. CallsOK'
  <2>1. CallOK(k)'
    BY <1>1, <1>4, <1>5, <1>7 DEF CallOK, Idle
  <2> QED
    BY <1>6, <1>7, <2>1, CallsStay DEF TypeInv
<1>10. HistoryOK'
  <2>1. used' \in [hurries : 0 .. MaxHurries, forms : 0 .. MaxForms, opens : 1 .. MaxOpens]
    BY <1>7, ActsType DEF TypeInv
  <2> QED
    BY <1>7, <2>1 DEF HistoryOK, TypeInv
<1>11. DocumentsOK'
  BY <1>6, <1>7, FS_RemoveElement DEF DocumentsOK, TypeInv
<1> QED
  BY <1>8, <1>9, <1>10, <1>11 DEF TypeInv

LEMMA ReopenType ==
  ASSUME Unbounded, TypeInv, Reopen
  PROVE  TypeInv'
<1>1. PICK show \in BOOLEAN : InitPage(show)
  BY DEF Reopen
<1>2. UNCHANGED <<task, tags, call, said, tapped, marks>> /\ used' = [used EXCEPT !.opens = @ + 1]
      /\ used.opens < MaxOpens
  BY DEF Reopen
<1>3. PICK rows : rows = Found(show, 1)
  OBVIOUS
<1>4. rows \in Seq(Rows)
  BY <1>3, FoundShows, ObjectsAssumption
<1>5. heap' = [l \in Objects |-> IF l = 1 THEN rows ELSE <<>>]
  BY <1>1, <1>3 DEF InitPage
<1>6. heap' \in [Objects -> Seq(Rows)]
  BY <1>4, <1>5, EmptySeq
<1>7. PageOK'
  BY <1>1, <1>6, TagRowIs, ObjectsAssumption DEF InitPage, PageOK
<1>8. HistoryOK'
  BY <1>2, BoundsAssumption DEF HistoryOK, TypeInv
<1> QED
  BY <1>2, <1>7, <1>8, CallsUnchanged, DocumentsUnchanged DEF TypeInv

LEMMA TypeInvHolds == ASSUME Unbounded PROVE Spec => []TypeInv
<1>1. Init => TypeInv
  <2> SUFFICES ASSUME Init PROVE TypeInv
    OBVIOUS
  <2>1. CallsOK
    BY IdleOK DEF Init, CallsOK
  <2>2. PageOK
    BY EmptySeq, ObjectsAssumption, TitlesAssumption DEF Init, PageOK
  <2>3. DocumentsOK
    BY FS_EmptySet DEF Init, DocumentsOK, NoTask
  <2>4. HistoryOK
    BY BoundsAssumption DEF Init, HistoryOK
  <2> QED
    BY <2>1, <2>2, <2>3, <2>4 DEF TypeInv
<1>2. TypeInv /\ [Next]_vars => TypeInv'
  <2> SUFFICES ASSUME TypeInv, [Next]_vars PROVE TypeInv'
    OBVIOUS
  <2>1. CASE UNCHANGED vars
    BY <2>1, CallsUnchanged, PageUnchanged, DocumentsUnchanged, HistoryUnchanged DEF vars, TypeInv
  <2>2. ASSUME NEW i \in DOMAIN shownTags, Select(i) PROVE TypeInv'
    BY <2>2, SelectType
  <2>3. CASE Reopen
    BY <2>3, ReopenType
  <2>4. ASSUME NEW c \in Calls,
               \/ Refresh(c) \/ AnswerTasks(c) \/ AnswerTags(c)
               \/ Fade(c) \/ Mark(c) \/ RemoveTagTask(c) \/ EndDrop(c)
        PROVE  TypeInv'
    BY <2>4, RefreshType, AnswerTasksType, AnswerTagsType, FadeType, MarkType,
       RemoveTagTaskType, EndDropType
  <2>5. ASSUME NEW c \in Calls, NEW i \in DOMAIN heap[selectedEvents],
               Tap(c, i) \/ Delete(c, i) \/ Retag(c, i)
        PROVE  TypeInv'
    BY <2>5, TapType, DeleteType, RetagType
  <2>6. ASSUME NEW c \in Calls, NEW title \in Titles, AddTag(c, title) PROVE TypeInv'
    BY <2>6, AddTagType
  <2>7. ASSUME NEW c \in Calls, NEW t \in Tasks, Add(c, t) PROVE TypeInv'
    BY <2>7, AddType
  <2>8. ASSUME NEW c \in Calls, NEW i \in DOMAIN shownTags, Drop(c, i) PROVE TypeInv'
    BY <2>8, DropType
  <2> QED
    BY <2>1, <2>2, <2>3, <2>4, <2>5, <2>6, <2>7, <2>8 DEF Next
<1> QED
  BY <1>1, <1>2, PTL DEF Spec

\* TypeOK, without the bounds on lists and answers.
THEOREM TagTypesCorrect == ASSUME Unbounded PROVE Spec => []TypeOK
BY TypeInvHolds, TypeInvSuffices, PTL

\* A handler that waits, marks or refreshes has a task that was tapped, wherever the
\* rows have moved meanwhile: no other task is ever completed on this page.
THEOREM OnlyTappedAreCompleted == ASSUME Unbounded PROVE Spec => []CompletedWasTapped
<1>1. Init => CompletedWasTapped
  BY DEF Init, CompletedWasTapped
<1>2. TypeInv /\ CompletedWasTapped /\ [Next]_vars => CompletedWasTapped'
  <2> SUFFICES ASSUME TypeInv, CompletedWasTapped, [Next]_vars PROVE CompletedWasTapped'
    OBVIOUS
  <2>1. CASE UNCHANGED <<marks, tapped>>
    BY <2>1 DEF CompletedWasTapped
  <2>2. ASSUME NEW c \in Calls, NEW i \in DOMAIN heap[selectedEvents], Tap(c, i)
        PROVE  CompletedWasTapped'
    BY <2>2 DEF Tap, CompletedWasTapped
  <2>3. ASSUME NEW c \in Calls, Mark(c) PROVE CompletedWasTapped'
    <3>1. call[c].task \in Tasks /\ call[c].task \in tapped
      BY <2>3 DEF Mark, TypeInv, CallsOK, CallOK
    <3>2. UNCHANGED tapped
          /\ \A t \in Tasks : t # call[c].task => marks'[t] = marks[t]
      BY <2>3 DEF Mark, TypeInv, HistoryOK
    <3> QED
      BY <3>1, <3>2 DEF CompletedWasTapped
  <2>4. ASSUME NEW c \in Calls,
               \/ Refresh(c) \/ AnswerTasks(c) \/ AnswerTags(c)
               \/ Fade(c) \/ RemoveTagTask(c) \/ EndDrop(c)
        PROVE  UNCHANGED <<marks, tapped>>
    BY <2>4 DEF Refresh, AnswerTasks, AnswerTags, Fade, RemoveTagTask, EndDrop
  <2>5. ASSUME NEW c \in Calls,
               \/ \E i \in DOMAIN heap[selectedEvents] : Delete(c, i) \/ Retag(c, i)
               \/ \E title \in Titles : AddTag(c, title)
               \/ \E t \in Tasks : Add(c, t)
               \/ \E i \in DOMAIN shownTags : Drop(c, i)
        PROVE  UNCHANGED <<marks, tapped>>
    BY <2>5 DEF Delete, Retag, AddTag, Add, Drop
  <2>6. Reopen \/ (\E i \in DOMAIN shownTags : Select(i)) \/ UNCHANGED vars
        => UNCHANGED <<marks, tapped>>
    BY DEF Reopen, Select, vars
  <2> QED
    BY <2>1, <2>2, <2>3, <2>4, <2>5, <2>6 DEF Next
<1> QED
  BY <1>1, <1>2, TypeInvHolds, PTL DEF Spec

-----------------------------------------------------------------------------
(* The user who waits.  What holds in each moment of the one handler that may *)
(* be suspended, so that the page is whole when it has ended.                 *)

PageShows == /\ Shows(All, heap[eventTagList])
             /\ \E tag \in Titles : Shows(tag, heap[selectedEvents])

CallCalm(k) ==
  /\ k.pc \in {"fade", "mark", "refresh", "query"} => k.tag \in Titles
  /\ k.pc \in {"fade", "mark"} => k.task \in Tasks /\ task[k.task].stage = "open"
  /\ k.pc = "fade" => k.index \in DOMAIN heap[selectedEvents]
  /\ k.pc = "loop" => /\ k.index \in 1 .. Len(heap[k.list]) + 1
                      /\ k.index > 1 => k.length = Len(heap[k.list])
                      /\ \A j \in DOMAIN heap[k.list] : Exists(heap[k.list][j].task)
  /\ k.pc = "query" => heap[eventTagList] = <<>>
  /\ k.pc = "tags" => PageShows

CallsCalm ==
  /\ \A c, d \in Busy : c = d
  /\ \A c \in Calls : CallCalm(call[c])
  /\ Busy = {} => PageShows /\ shownTags = TagRow

\* The task is still to come in the loop that removes a tag.
InLoop(t) ==
  \E c \in Calls : /\ call[c].pc = "loop"
                   /\ \E j \in DOMAIN heap[call[c].list] :
                        j >= call[c].index /\ heap[call[c].list][j].task = t

TasksCalm ==
  \A t \in Tasks :
    /\ task[t].tag \notin tags \union {NoTag} => task[t].stage = "done" \/ InLoop(t)
    /\ task[t].stage \in {"none", "gone"} => task[t].tag = NoTag
    /\ marks[t] > 0 => marks[t] = 1 /\ task[t].stage \in {"done", "gone"}

Calm == CallsCalm /\ TasksCalm /\ selectedIndex <= Cardinality(tags)

CalmInv == Waited => Calm

LEMMA ShowsStays ==
  ASSUME UNCHANGED <<task, showCompleted>>, NEW tag, NEW rows, Shows(tag, rows)
  PROVE  Shows(tag, rows)'
BY DEF Shows, InTag, Listed, Exists

LEMMA PageShowsNow ==
  ASSUME NEW rows, NEW shown, NEW tag \in Titles,
         heap'[eventTagList'] = rows, heap'[selectedEvents'] = shown,
         Shows(All, rows)', Shows(tag, shown)'
  PROVE  PageShows'
BY DEF PageShows, Shows

\* One handler is busy at most.
LEMMA OneCall ==
  ASSUME TypeInv, CallsCalm, NEW c \in Calls, Busy \subseteq {c}
  PROVE  \A d \in Calls : d # c => call[d].pc = "idle"
BY DEF Busy

LEMMA OneCallNext ==
  ASSUME TypeInv, NEW c \in Calls, NEW k, Busy \subseteq {c},
         call' = [call EXCEPT ![c] = k], CallCalm(k)',
         k.pc = "idle" => (PageShows /\ shownTags = TagRow)'
  PROVE  CallsCalm'
<1>1. call'[c] = k /\ \A d \in Calls : d # c => call'[d].pc = "idle"
  BY DEF TypeInv, CallsOK, Busy
<1>2. \A d, e \in Busy' : d = e
  BY <1>1 DEF Busy
<1>3. ASSUME NEW d \in Calls PROVE CallCalm(call[d])'
  <2>1. CASE d = c
    BY <1>1, <2>1 DEF CallCalm
  <2>2. CASE d # c
    BY <1>1, <2>2 DEF CallCalm
  <2> QED
    BY <2>1, <2>2
<1>4. Busy' = {} => (PageShows /\ shownTags = TagRow)'
  <2>1. Busy' = {} => k.pc = "idle"
    BY <1>1 DEF Busy
  <2> QED
    BY <2>1
<1> QED
  BY <1>2, <1>3, <1>4 DEF CallsCalm

\* While the user waits, no handler but this one is busy.
LEMMA BusyIs ==
  ASSUME CallsCalm, NEW c \in Calls, call[c].pc # "idle"
  PROVE  Busy = {c}
BY DEF CallsCalm, Busy

LEMMA ActsCalm ==
  ASSUME TypeInv, NEW forms \in {0, 1}, Acts(forms), Waited'
  PROVE  Waited /\ Busy = {}
<1>1. used.hurries \in Nat /\ used'.hurries = (IF Busy = {} THEN used.hurries ELSE used.hurries + 1)
  BY DEF Acts, TypeInv, HistoryOK
<1> QED
  BY <1>1 DEF Waited

LEMMA UpdateTaskCalm ==
  ASSUME Unbounded, TypeInv, NEW c \in Calls, NEW tag \in Titles, Busy \subseteq {c},
         UpdateTask(c, tag)
  PROVE  CallsCalm'
<1>1. PICK l : l = FreshObject /\ l \in Objects
  BY FreshObjectIs
<1>2. PICK objects : objects = [heap EXCEPT ![l] = <<>>]
  OBVIOUS
<1>3. PICK roots : roots = {l, selectedEvents} \union {call[b].list : b \in Calls \ {c}}
  OBVIOUS
<1>4. PICK k : k = [Idle EXCEPT !.pc = "query", !.tag = tag]
  OBVIOUS
<1>5. eventTagList' = l /\ heap' = Collected(objects, roots) /\ call' = [call EXCEPT ![c] = k]
  BY <1>1, <1>2, <1>3, <1>4 DEF UpdateTask
<1>6. objects \in [Objects -> Seq(Rows)] /\ objects[l] = <<>>
  BY <1>1, <1>2, EmptySeq DEF TypeInv, PageOK
<1>7. heap'[eventTagList'] = <<>>
  BY <1>1, <1>3, <1>5, <1>6, CollectedType
<1>8. k.pc = "query" /\ k.tag = tag
  BY <1>4 DEF Idle
<1>9. CallCalm(k)'
  BY <1>7, <1>8 DEF CallCalm
<1> QED
  BY <1>5, <1>8, <1>9, OneCallNext

LEMMA RefreshCalm ==
  ASSUME Unbounded, TypeInv, Calm, NEW c \in Calls, Refresh(c)
  PROVE  Calm'
<1>1. /\ call[c].pc = "refresh"
      /\ UpdateTask(c, call[c].tag)
      /\ UNCHANGED <<task, tags, selectedIndex, marks>>
  BY DEF Refresh
<1>2. Busy = {c}
  BY <1>1, BusyIs DEF Calm
<1>3. PICK tag \in Titles : tag = call[c].tag
  BY <1>1 DEF Calm, CallsCalm, CallCalm
<1>4. CallsCalm'
  BY <1>1, <1>2, <1>3, UpdateTaskCalm
<1>5. \A t \in Tasks : ~ InLoop(t)
  BY <1>1, <1>2 DEF InLoop, Busy
<1>6. TasksCalm'
  BY <1>1, <1>5 DEF TasksCalm, Calm
<1> QED
  BY <1>1, <1>4, <1>6 DEF Calm

LEMMA AnswerTasksCalm ==
  ASSUME Unbounded, TypeInv, Calm, NEW c \in Calls, AnswerTasks(c)
  PROVE  Calm'
<1>1. /\ call[c].pc = "query"
      /\ UNCHANGED <<task, tags, eventTagList, selectedIndex, showCompleted, marks>>
  BY DEF AnswerTasks
<1>2. Busy = {c}
  BY <1>1, BusyIs DEF Calm
<1>3. PICK tag \in Titles : tag = call[c].tag
  BY <1>1 DEF Calm, CallsCalm, CallCalm
<1>4. PICK rows \in Seq(Rows) : rows = heap[eventTagList] \o Found(showCompleted, FreshLoad)
                                /\ Shows(All, rows)
  <2>1. PICK found : found = Found(showCompleted, FreshLoad)
    OBVIOUS
  <2>2. found \in Seq(Rows) /\ Shows(All, found)
    BY <2>1, FreshLoadIs, FoundShowsAll
  <2>3. heap[eventTagList] = <<>>
    BY <1>1 DEF Calm, CallsCalm, CallCalm
  <2>4. <<>> \o found = found
    BY <2>2, ConcatEmptySeq
  <2> QED
    BY <2>1, <2>2, <2>3, <2>4
<1>5. PICK shown : shown = IF tag = All THEN eventTagList ELSE FreshObject
  OBVIOUS
<1>6. PICK kept : kept = Matching(tag, rows)
  OBVIOUS
<1>7. kept \in Seq(Rows) /\ (tag = All => kept = rows)
  BY <1>6, MatchingRows
<1>8. Shows(tag, kept)
  BY <1>4, <1>6, MatchingShows
<1>9. PICK roots : roots = {shown, eventTagList} \union {call[b].list : b \in Calls}
  OBVIOUS
<1>10. PICK objects : objects = [[heap EXCEPT ![eventTagList] = rows] EXCEPT ![shown] = kept]
  OBVIOUS
<1>11. selectedEvents' = shown /\ heap' = Collected(objects, roots)
  BY <1>3, <1>4, <1>5, <1>6, <1>9, <1>10 DEF AnswerTasks
<1>12. eventTagList \in Objects /\ shown \in Objects /\ (tag # All => shown # eventTagList)
  BY <1>5, FreshObjectIs DEF TypeInv, PageOK, InUse
<1>13. /\ objects \in [Objects -> Seq(Rows)]
       /\ objects[shown] = kept
       /\ objects[eventTagList] = rows
  BY <1>5, <1>7, <1>10, <1>12 DEF TypeInv, PageOK
<1>14. heap'[selectedEvents'] = kept /\ heap'[eventTagList'] = rows
  BY <1>1, <1>9, <1>11, <1>12, <1>13, CollectedType
<1>15. Shows(All, rows)' /\ Shows(tag, kept)'
  BY <1>1, <1>4, <1>8, ShowsStays
<1>16. PageShows'
  BY <1>14, <1>15, PageShowsNow
<1>17. PICK k : k = [call[c] EXCEPT !.pc = "tags"]
  OBVIOUS
<1>18. call' = [call EXCEPT ![c] = k] /\ k.pc = "tags"
  BY <1>17 DEF AnswerTasks, TypeInv, CallsOK, CallOK
<1>19. CallCalm(k)'
  BY <1>16, <1>18 DEF CallCalm
<1>20. CallsCalm'
  BY <1>2, <1>18, <1>19, OneCallNext
<1>21. \A t \in Tasks : ~ InLoop(t)
  BY <1>1, <1>2 DEF InLoop, Busy
<1>22. TasksCalm'
  BY <1>1, <1>21 DEF TasksCalm, Calm
<1> QED
  BY <1>1, <1>20, <1>22 DEF Calm

LEMMA AnswerTagsCalm ==
  ASSUME Unbounded, TypeInv, Calm, NEW c \in Calls, AnswerTags(c)
  PROVE  Calm'
<1>1. /\ call[c].pc = "tags"
      /\ shownTags' = TagRow
      /\ call' = [call EXCEPT ![c] = Idle]
      /\ UNCHANGED <<task, tags, heap, eventTagList, selectedEvents, selectedIndex,
                     showCompleted, marks>>
  BY DEF AnswerTags
<1>2. Busy = {c}
  BY <1>1, BusyIs DEF Calm
<1>3. PageShows
  BY <1>1 DEF Calm, CallsCalm, CallCalm
<1>4. PageShows'
  BY <1>1, <1>3 DEF PageShows, Shows, InTag, Listed, Exists
<1>5. (shownTags = TagRow)'
  BY <1>1 DEF TagRow
<1>6. CallCalm(Idle)'
  BY DEF CallCalm, Idle
<1>7. CallsCalm'
  BY <1>1, <1>2, <1>4, <1>5, <1>6, OneCallNext
<1>8. \A t \in Tasks : ~ InLoop(t)
  BY <1>1, <1>2 DEF InLoop, Busy
<1>9. TasksCalm'
  BY <1>1, <1>8 DEF TasksCalm, Calm
<1> QED
  BY <1>1, <1>7, <1>9 DEF Calm

LEMMA FadeCalm ==
  ASSUME Unbounded, TypeInv, Calm, NEW c \in Calls, Fade(c)
  PROVE  Calm'
<1>1. /\ call[c].pc = "fade"
      /\ UNCHANGED <<task, tags, selectedIndex, marks>>
  BY DEF Fade
<1>2. Busy = {c}
  BY <1>1, BusyIs DEF Calm
<1>3. CallCalm(call[c])
  BY DEF Calm, CallsCalm
<1>4. PICK k : k = [call[c] EXCEPT !.pc = "mark"]
  OBVIOUS
<1>5. call' = [call EXCEPT ![c] = k]
  BY <1>1, <1>3, <1>4 DEF Fade, CallCalm
<1>6. k.pc = "mark" /\ k.tag = call[c].tag /\ k.task = call[c].task
  BY <1>4 DEF TypeInv, CallsOK, CallOK
<1>7. CallCalm(k)'
  BY <1>1, <1>3, <1>6 DEF CallCalm
<1>8. CallsCalm'
  BY <1>2, <1>5, <1>6, <1>7, OneCallNext DEF Calm
<1>9. \A t \in Tasks : ~ InLoop(t)
  BY <1>1, <1>2 DEF InLoop, Busy
<1>10. TasksCalm'
  BY <1>1, <1>9 DEF TasksCalm, Calm
<1> QED
  BY <1>1, <1>8, <1>10 DEF Calm

LEMMA MarkCalm ==
  ASSUME Unbounded, TypeInv, Calm, NEW c \in Calls, Mark(c)
  PROVE  Calm'
<1>1. PICK t : t = call[c].task
  OBVIOUS
<1>2. call[c].pc = "mark" /\ UNCHANGED <<tags, page>>
  BY DEF Mark
<1>3. Busy = {c}
  BY <1>2, BusyIs DEF Calm
<1>4. CallCalm(call[c])
  BY DEF Calm, CallsCalm
<1>5. t \in Tasks /\ task[t].stage = "open" /\ call[c].tag \in Titles
  BY <1>1, <1>2, <1>4 DEF CallCalm
<1>6. PICK k : k = [call[c] EXCEPT !.pc = "refresh"]
  OBVIOUS
<1>7. /\ task' = [task EXCEPT ![t].stage = "done"]
      /\ marks' = [marks EXCEPT ![t] = IF @ < 2 THEN @ + 1 ELSE @]
      /\ call' = [call EXCEPT ![c] = k]
  BY <1>1, <1>5, <1>6 DEF Mark, Exists
<1>8. k.pc = "refresh" /\ k.tag = call[c].tag
  BY <1>6 DEF TypeInv, CallsOK, CallOK
<1>9. CallCalm(k)'
  BY <1>5, <1>8 DEF CallCalm
<1>10. CallsCalm'
  BY <1>3, <1>7, <1>8, <1>9, OneCallNext DEF Calm
<1>11. \A u \in Tasks : ~ InLoop(u)
  BY <1>2, <1>3 DEF InLoop, Busy
<1>12. TasksCalm'
  <2>1. ASSUME NEW u \in Tasks
        PROVE  /\ (task[u].tag \notin tags \union {NoTag} => task[u].stage = "done" \/ InLoop(u))'
               /\ (task[u].stage \in {"none", "gone"} => task[u].tag = NoTag)'
               /\ (marks[u] > 0 => marks[u] = 1 /\ task[u].stage \in {"done", "gone"})'
    <3>1. CASE u = t
      <4>1. task'[u].stage = "done"
        BY <1>7, <3>1 DEF TypeInv, DocumentsOK
      <4>2. marks[u] = 0
        BY <1>5, <3>1 DEF Calm, TasksCalm, TypeInv, HistoryOK
      <4>3. marks'[u] = 1
        BY <1>7, <3>1, <4>2 DEF TypeInv, HistoryOK
      <4> QED
        BY <4>1, <4>3
    <3>2. CASE u # t
      <4>1. task'[u] = task[u] /\ marks'[u] = marks[u]
        BY <1>7, <3>2 DEF TypeInv, HistoryOK, DocumentsOK
      <4> QED
        BY <1>2, <1>11, <4>1 DEF Calm, TasksCalm
    <3> QED
      BY <3>1, <3>2
  <2> QED
    BY <2>1 DEF TasksCalm
<1> QED
  BY <1>2, <1>10, <1>12 DEF Calm, page

LEMMA RemoveTagTaskCalm ==
  ASSUME Unbounded, TypeInv, Calm, NEW c \in Calls, RemoveTagTask(c)
  PROVE  Calm'
<1>1. PICK rows : rows = heap[call[c].list]
  OBVIOUS
<1>2. PICK i : i = call[c].index
  OBVIOUS
<1>3. call[c].pc = "loop" /\ i \in DOMAIN rows /\ UNCHANGED <<tags, page, showCompleted, marks>>
  BY <1>1, <1>2 DEF RemoveTagTask
<1>4. Busy = {c}
  BY <1>3, BusyIs DEF Calm
<1>5. CallCalm(call[c]) /\ CallOK(call[c])
  BY DEF Calm, CallsCalm, TypeInv, CallsOK
<1>6. rows \in Seq(Rows) /\ Len(rows) \in Nat /\ DOMAIN rows = 1 .. Len(rows) /\ i \in Nat
  BY <1>1, <1>2, <1>3, <1>5, RowsOfSequence DEF TypeInv, PageOK, CallOK
<1>7. PICK t : t = rows[i].task /\ t \in Tasks
  BY <1>3, <1>6, RowsOfSequence DEF Rows
<1>8. Exists(t) /\ (i > 1 => Len(rows) = call[c].length)
  BY <1>1, <1>2, <1>3, <1>5, <1>7 DEF CallCalm
<1>9. PICK k : k = [call[c] EXCEPT !.index = i + 1, !.length = Len(rows)]
  OBVIOUS
<1>10. task' = [task EXCEPT ![t].tag = NoTag] /\ call' = [call EXCEPT ![c] = k]
  BY <1>1, <1>2, <1>7, <1>8, <1>9 DEF RemoveTagTask
<1>11. /\ k.pc = "loop" /\ k.list = call[c].list
       /\ k.index = i + 1 /\ k.length = Len(rows)
  BY <1>3, <1>5, <1>9 DEF CallOK
<1>12. heap'[k.list] = rows
  BY <1>1, <1>3, <1>11 DEF page
<1>13. \A u \in Tasks : task'[u].stage = task[u].stage
  BY <1>7, <1>10 DEF TypeInv, DocumentsOK
<1>14. \A j \in DOMAIN rows : Exists(rows[j].task)'
  <2>1. ASSUME NEW j \in DOMAIN rows PROVE rows[j].task \in Tasks /\ Exists(rows[j].task)
    BY <1>1, <1>3, <1>5, <1>6, RowsOfSequence DEF CallCalm, Rows
  <2> QED
    BY <1>13, <2>1 DEF Exists
<1>15. CallCalm(k)'
  <2>1. k.index \in 1 .. Len(rows) + 1
    BY <1>3, <1>6, <1>11
  <2> QED
    BY <1>11, <1>12, <1>14, <2>1 DEF CallCalm
<1>16. CallsCalm'
  BY <1>4, <1>10, <1>11, <1>15, OneCallNext DEF Calm
<1>17. ASSUME NEW u \in Tasks, u # t, InLoop(u) PROVE InLoop(u)'
  <2>1. PICK j \in DOMAIN rows : j >= i /\ rows[j].task = u
    BY <1>1, <1>2, <1>4, <1>17 DEF InLoop, Busy
  <2>2. j >= i + 1
    BY <1>6, <1>7, <1>17, <2>1
  <2>3. call'[c] = k
    BY <1>10 DEF TypeInv, CallsOK
  <2> QED
    BY <1>11, <1>12, <2>1, <2>2, <2>3 DEF InLoop
<1>18. TasksCalm'
  <2>1. ASSUME NEW u \in Tasks
        PROVE  /\ (task[u].tag \notin tags \union {NoTag} => task[u].stage = "done" \/ InLoop(u))'
               /\ (task[u].stage \in {"none", "gone"} => task[u].tag = NoTag)'
               /\ (marks[u] > 0 => marks[u] = 1 /\ task[u].stage \in {"done", "gone"})'
    <3>1. CASE u = t
      <4>1. task'[u].tag = NoTag
        BY <1>10, <3>1 DEF TypeInv, DocumentsOK
      <4> QED
        BY <1>3, <1>13, <4>1 DEF Calm, TasksCalm
    <3>2. CASE u # t
      <4>1. task'[u] = task[u]
        BY <1>10, <3>2 DEF TypeInv, DocumentsOK
      <4> QED
        BY <1>3, <1>17, <3>2, <4>1 DEF Calm, TasksCalm
    <3> QED
      BY <3>1, <3>2
  <2> QED
    BY <2>1 DEF TasksCalm
<1> QED
  BY <1>3, <1>16, <1>18 DEF Calm, page

LEMMA EndDropCalm ==
  ASSUME Unbounded, TypeInv, Calm, NEW c \in Calls, EndDrop(c)
  PROVE  Calm'
<1>1. PICK rows : rows = heap[call[c].list]
  OBVIOUS
<1>2. PICK i : i = call[c].index
  OBVIOUS
<1>3. call[c].pc = "loop" /\ i > Len(rows) /\ UNCHANGED <<task, tags, marks>>
  BY <1>1, <1>2 DEF EndDrop
<1>4. Busy = {c}
  BY <1>3, BusyIs DEF Calm
<1>5. CallCalm(call[c]) /\ CallOK(call[c])
  BY DEF Calm, CallsCalm, TypeInv, CallsOK
<1>6. rows \in Seq(Rows) /\ Len(rows) \in Nat /\ DOMAIN rows = 1 .. Len(rows) /\ i \in Nat
  BY <1>1, <1>2, <1>3, <1>5, RowsOfSequence DEF TypeInv, PageOK, CallOK
<1>7. ~ (i > 1 /\ Len(rows) # call[c].length)
  BY <1>1, <1>2, <1>3, <1>5 DEF CallCalm
<1>8. UpdateTask(c, All) /\ UNCHANGED selectedIndex
  BY <1>1, <1>2, <1>7 DEF EndDrop
<1>9. CallsCalm'
  BY <1>4, <1>8, UpdateTaskCalm, TitlesAssumption
<1>10. \A t \in Tasks : ~ InLoop(t)
  <2> SUFFICES ASSUME NEW t \in Tasks, InLoop(t) PROVE FALSE
    OBVIOUS
  <2>1. PICK j \in DOMAIN rows : j >= i
    BY <1>1, <1>2, <1>4 DEF InLoop, Busy
  <2> QED
    BY <1>3, <1>6, <2>1
<1>11. TasksCalm'
  BY <1>3, <1>10 DEF TasksCalm, Calm
<1> QED
  BY <1>3, <1>8, <1>9, <1>11 DEF Calm

\* When no handler is busy, the row at an index is a task that the page may show.
LEMMA ShownRow ==
  ASSUME TypeInv, CallsCalm, Busy = {}, NEW i \in DOMAIN heap[selectedEvents],
         NEW row, row = heap[selectedEvents][i]
  PROVE  /\ row \in Rows
         /\ row.task \in Tasks
         /\ Listed(row.task)
         /\ Exists(row.task)
         /\ row.tag = task[row.task].tag
         /\ row.done = (task[row.task].stage = "done")
<1>1. PICK tag \in Titles : Shows(tag, heap[selectedEvents])
  BY DEF CallsCalm, PageShows
<1>2. row \in Rows /\ row.task \in Tasks
  BY RowsOfSequence DEF TypeInv, PageOK, Rows
<1> QED
  BY <1>1, <1>2 DEF Shows, InTag, Listed, Exists

LEMMA TapCalm ==
  ASSUME Unbounded, TypeInv, Calm, Busy = {}, NEW c \in Calls,
         NEW i \in DOMAIN heap[selectedEvents], Tap(c, i)
  PROVE  Calm'
<1>1. PICK row : row = heap[selectedEvents][i]
  OBVIOUS
<1>2. /\ TagIsSelected
      /\ ~ row.done
      /\ heap' = [l \in Objects |-> [j \in DOMAIN heap[l] |->
                    IF heap[l][j] = row THEN [row EXCEPT !.done = TRUE] ELSE heap[l][j]]]
      /\ UNCHANGED <<task, tags, selectedEvents, selectedIndex, marks>>
  BY <1>1 DEF Tap
<1>3. row \in Rows /\ row.task \in Tasks /\ task[row.task].stage = "open"
  BY <1>1, <1>2, ShownRow DEF Calm, Listed, Exists
<1>4. PICK k : k = [Idle EXCEPT !.pc = IF showCompleted THEN "mark" ELSE "fade",
                                !.task = row.task, !.index = i, !.tag = SelectedTag]
  OBVIOUS
<1>5. call' = [call EXCEPT ![c] = k]
  BY <1>1, <1>4 DEF Tap
<1>6. /\ k.pc \in {"mark", "fade"} /\ k.tag = SelectedTag
      /\ k.task = row.task /\ k.index = i
  BY <1>4 DEF Idle
<1>7. SelectedTag \in Titles
  BY <1>2, SelectedTagType DEF TypeInv
<1>8. i \in DOMAIN heap'[selectedEvents']
  <2>1. /\ heap' \in [Objects -> Seq(Rows)]
        /\ \A l \in Objects : Len(heap'[l]) = Len(heap[l])
    BY <1>2, <1>3, MarkedLists DEF TypeInv, PageOK
  <2>2. selectedEvents \in Objects /\ selectedEvents' = selectedEvents
    BY <1>2 DEF TypeInv, PageOK
  <2>3. DOMAIN heap[selectedEvents] = DOMAIN heap'[selectedEvents]
    BY <2>1, <2>2, LenProperties DEF TypeInv, PageOK
  <2> QED
    BY <2>2, <2>3
<1>9. CallCalm(k)'
  BY <1>2, <1>3, <1>6, <1>7, <1>8 DEF CallCalm
<1>10. CallsCalm'
  BY <1>5, <1>6, <1>9, OneCallNext
<1>11. \A t \in Tasks : ~ InLoop(t)
  BY DEF InLoop, Busy
<1>12. TasksCalm'
  BY <1>2, <1>11 DEF TasksCalm, Calm
<1> QED
  BY <1>2, <1>10, <1>12 DEF Calm

LEMMA DeleteCalm ==
  ASSUME Unbounded, TypeInv, Calm, Busy = {}, NEW c \in Calls,
         NEW i \in DOMAIN heap[selectedEvents], Delete(c, i)
  PROVE  Calm'
<1>1. PICK t : t = heap[selectedEvents][i].task /\ t \in Tasks
  BY RowsOfSequence DEF TypeInv, PageOK, Rows
<1>2. /\ TagIsSelected
      /\ task' = [task EXCEPT ![t] = Gone]
      /\ UNCHANGED <<tags, selectedIndex, marks>>
  BY <1>1 DEF Delete
<1>3. PICK k : k = [Idle EXCEPT !.pc = "refresh", !.tag = SelectedTag]
  OBVIOUS
<1>4. call' = [call EXCEPT ![c] = k]
  BY <1>3 DEF Delete
<1>5. k.pc = "refresh" /\ k.tag = SelectedTag
  BY <1>3 DEF Idle
<1>6. SelectedTag \in Titles
  BY <1>2, SelectedTagType DEF TypeInv
<1>7. CallCalm(k)'
  BY <1>5, <1>6 DEF CallCalm
<1>8. CallsCalm'
  BY <1>4, <1>5, <1>7, OneCallNext
<1>9. \A u \in Tasks : ~ InLoop(u)
  BY DEF InLoop, Busy
<1>10. TasksCalm'
  BY <1>1, <1>2, <1>9 DEF TasksCalm, Calm, Gone, TypeInv, DocumentsOK
<1> QED
  BY <1>2, <1>8, <1>10 DEF Calm

LEMMA AddTagCalm ==
  ASSUME Unbounded, TypeInv, Calm, Busy = {}, NEW c \in Calls,
         NEW title \in Titles, AddTag(c, title)
  PROVE  Calm'
<1>1. /\ TagIsSelected
      /\ tags' = tags \union {title}
      /\ UpdateTask(c, SelectedTag)
      /\ UNCHANGED <<task, selectedIndex, marks>>
  BY DEF AddTag
<1>2. PICK tag \in Titles : tag = SelectedTag
  BY <1>1, SelectedTagType DEF TypeInv
<1>3. CallsCalm'
  BY <1>1, <1>2, UpdateTaskCalm
<1>4. \A t \in Tasks : ~ InLoop(t)
  BY DEF InLoop, Busy
<1>5. TasksCalm'
  BY <1>1, <1>4 DEF TasksCalm, Calm
<1>6. (selectedIndex <= Cardinality(tags))'
  <2>1. IsFiniteSet(tags) /\ Cardinality(tags) \in Nat /\ selectedIndex \in Nat
    BY TagRowIs DEF TypeInv, DocumentsOK, PageOK
  <2>2. Cardinality(tags') \in {Cardinality(tags), Cardinality(tags) + 1}
    BY <1>1, <2>1, FS_AddElement
  <2> QED
    BY <1>1, <2>1, <2>2 DEF Calm
<1> QED
  BY <1>3, <1>5, <1>6 DEF Calm

LEMMA AddCalm ==
  ASSUME Unbounded, TypeInv, Calm, Busy = {}, NEW c \in Calls, NEW t \in Tasks, Add(c, t)
  PROVE  Calm'
<1>1. PICK new \in tags : task' = [task EXCEPT ![t] = [stage |-> "open", tag |-> new]]
  BY DEF Add
<1>2. /\ TagIsSelected
      /\ task[t] = NoTask
      /\ UpdateTask(c, SelectedTag)
      /\ UNCHANGED <<tags, selectedIndex, marks>>
  BY DEF Add
<1>3. PICK tag \in Titles : tag = SelectedTag
  BY <1>2, SelectedTagType DEF TypeInv
<1>4. CallsCalm'
  BY <1>2, <1>3, UpdateTaskCalm
<1>5. \A u \in Tasks : ~ InLoop(u)
  BY DEF InLoop, Busy
<1>6. marks[t] = 0
  BY <1>2 DEF Calm, TasksCalm, NoTask, TypeInv, HistoryOK
<1>7. TasksCalm'
  BY <1>1, <1>2, <1>5, <1>6 DEF TasksCalm, Calm, TypeInv, DocumentsOK
<1> QED
  BY <1>2, <1>4, <1>7 DEF Calm

LEMMA RetagCalm ==
  ASSUME Unbounded, TypeInv, Calm, Busy = {}, NEW c \in Calls,
         NEW i \in DOMAIN heap[selectedEvents], Retag(c, i)
  PROVE  Calm'
<1>1. PICK row : row = heap[selectedEvents][i]
  OBVIOUS
<1>2. PICK t : t = row.task
  OBVIOUS
<1>3. /\ t \in Tasks
      /\ Exists(t)
      /\ row.tag = task[t].tag
  BY <1>1, <1>2, ShownRow DEF Calm
<1>4. PICK new \in tags \union {row.tag, NoTag} : task' = [task EXCEPT ![t].tag = new]
  BY <1>1, <1>2 DEF Retag
<1>5. PICK tag \in {All, SelectedTag} : UpdateTask(c, tag)
  BY DEF Retag
<1>6. TagIsSelected /\ UNCHANGED <<tags, selectedIndex, marks>>
  BY DEF Retag
<1>7. tag \in Titles
  BY <1>5, <1>6, SelectedTagType, TitlesAssumption DEF TypeInv
<1>8. CallsCalm'
  BY <1>5, <1>7, UpdateTaskCalm
<1>9. \A u \in Tasks : ~ InLoop(u)
  BY DEF InLoop, Busy
<1>10. TasksCalm'
  <2>1. ASSUME NEW u \in Tasks
        PROVE  /\ (task[u].tag \notin tags \union {NoTag} => task[u].stage = "done" \/ InLoop(u))'
               /\ (task[u].stage \in {"none", "gone"} => task[u].tag = NoTag)'
               /\ (marks[u] > 0 => marks[u] = 1 /\ task[u].stage \in {"done", "gone"})'
    <3>1. CASE u = t
      <4>1. task'[t].tag = new /\ task'[t].stage = task[t].stage
        BY <1>3, <1>4 DEF TypeInv, DocumentsOK
      <4>2. task[t].stage \in {"open", "done"}
        BY <1>3 DEF Exists
      <4> QED
        BY <1>3, <1>4, <1>6, <1>9, <3>1, <4>1, <4>2 DEF Calm, TasksCalm
    <3>2. CASE u # t
      <4>1. task'[u] = task[u]
        BY <1>4, <3>2 DEF TypeInv, DocumentsOK
      <4> QED
        BY <1>6, <1>9, <4>1 DEF Calm, TasksCalm
    <3> QED
      BY <3>1, <3>2
  <2> QED
    BY <2>1 DEF TasksCalm
<1> QED
  BY <1>6, <1>8, <1>10 DEF Calm

LEMMA SelectCalm ==
  ASSUME Unbounded, TypeInv, Calm, Busy = {}, NEW i \in DOMAIN shownTags, Select(i)
  PROVE  Calm'
<1>1. PICK tag \in Titles : tag = shownTags[i]
  BY ElementOfSeq, LenProperties DEF TypeInv, PageOK
<1>2. PICK shown : shown = IF tag = All THEN eventTagList ELSE FreshObject
  OBVIOUS
<1>3. PICK rows \in Seq(Rows) : rows = heap[eventTagList] /\ Shows(All, rows)
  BY DEF Calm, CallsCalm, PageShows, TypeInv, PageOK
<1>4. PICK kept : kept = Matching(tag, rows)
  OBVIOUS
<1>5. kept \in Seq(Rows) /\ (tag = All => kept = rows) /\ Shows(tag, kept)
  BY <1>3, <1>4, MatchingRows, MatchingShows
<1>6. PICK roots : roots = {shown, eventTagList} \union {call[b].list : b \in Calls}
  OBVIOUS
<1>7. PICK objects : objects = [heap EXCEPT ![shown] = kept]
  OBVIOUS
<1>8. selectedEvents' = shown /\ heap' = Collected(objects, roots)
  BY <1>1, <1>2, <1>3, <1>4, <1>6, <1>7 DEF Select
<1>9. /\ selectedIndex' = i - 1
      /\ UNCHANGED <<task, tags, eventTagList, shownTags, showCompleted, call, marks>>
  BY DEF Select
<1>10. eventTagList \in Objects /\ shown \in Objects /\ (tag # All => shown # eventTagList)
  BY <1>2, FreshObjectIs DEF TypeInv, PageOK, InUse
<1>11. /\ objects \in [Objects -> Seq(Rows)]
       /\ objects[shown] = kept
       /\ objects[eventTagList] = rows
  BY <1>2, <1>3, <1>5, <1>7, <1>10 DEF TypeInv, PageOK
<1>12. heap'[selectedEvents'] = kept /\ heap'[eventTagList'] = rows
  BY <1>6, <1>8, <1>9, <1>10, <1>11, CollectedType
<1>13. PageShows'
  <2>1. Shows(All, rows)' /\ Shows(tag, kept)'
    BY <1>3, <1>5, <1>9, ShowsStays
  <2> QED
    BY <1>12, <2>1, PageShowsNow
<1>14. CallsCalm'
  <2>1. Busy' = {}
    BY <1>9 DEF Busy
  <2>2. (shownTags = TagRow)'
    BY <1>9 DEF Calm, CallsCalm, TagRow
  <2>3. \A d \in Calls : call'[d].pc = "idle"
    BY <2>1 DEF Busy
  <2>4. \A d \in Calls : CallCalm(call[d])'
    BY <2>3 DEF CallCalm
  <2> QED
    BY <1>13, <2>1, <2>2, <2>4 DEF CallsCalm
<1>15. \A u \in Tasks : ~ InLoop(u)
  BY DEF InLoop, Busy
<1>16. TasksCalm'
  BY <1>9, <1>15 DEF TasksCalm, Calm
<1>17. (selectedIndex <= Cardinality(tags))'
  <2>1. i \in 1 .. 1 + Cardinality(tags) /\ Cardinality(tags) \in Nat
    BY TagRowIs, LenProperties DEF Calm, CallsCalm
  <2> QED
    BY <1>9, <2>1
<1> QED
  BY <1>14, <1>16, <1>17 DEF Calm

LEMMA DropCalm ==
  ASSUME Unbounded, TypeInv, Calm, Busy = {}, NEW c \in Calls,
         NEW i \in DOMAIN shownTags, Drop(c, i)
  PROVE  Calm'
<1>1. PICK tag \in Titles : tag = shownTags[i]
  BY ElementOfSeq, LenProperties DEF TypeInv, PageOK
<1>2. PICK list : list = IF tag = All THEN eventTagList ELSE FreshObject
  OBVIOUS
<1>3. PICK rows \in Seq(Rows) : rows = heap[eventTagList] /\ Shows(All, rows)
  BY DEF Calm, CallsCalm, PageShows, TypeInv, PageOK
<1>4. PICK kept : kept = Matching(tag, rows)
  OBVIOUS
<1>5. kept \in Seq(Rows) /\ Shows(tag, kept)
  BY <1>3, <1>4, MatchingRows, MatchingShows
<1>6. PICK k : k = [Idle EXCEPT !.pc = "loop", !.tag = tag, !.list = list, !.index = 1]
  OBVIOUS
<1>7. /\ tags' = tags \ {tag}
      /\ heap' = [heap EXCEPT ![list] = kept]
      /\ call' = [call EXCEPT ![c] = k]
      /\ selectedIndex' = 0
      /\ UNCHANGED <<task, showCompleted, marks>>
  BY <1>1, <1>2, <1>3, <1>4, <1>6 DEF Drop
<1>8. k.pc = "loop" /\ k.list = list /\ k.index = 1
  BY <1>6 DEF Idle
<1>9. heap'[list] = kept
  BY <1>2, <1>7, FreshObjectIs DEF TypeInv, PageOK
<1>10. CallCalm(k)'
  <2>1. \A j \in DOMAIN kept : Exists(kept[j].task)'
    BY <1>5, <1>7 DEF Shows, InTag, Listed, Exists
  <2>2. 1 \in 1 .. Len(kept) + 1
    BY <1>5, RowsOfSequence
  <2> QED
    BY <1>8, <1>9, <2>1, <2>2 DEF CallCalm
<1>11. CallsCalm'
  BY <1>7, <1>8, <1>10, OneCallNext
<1>12. ASSUME NEW t \in Tasks, task[t].tag = tag, task[t].stage # "done" PROVE InLoop(t)'
  <2>1. task[t].tag # NoTag
    BY <1>1, <1>12, TitlesAssumption DEF NoTag
  <2>2. task[t].stage = "open"
    BY <1>12, <2>1 DEF Calm, TasksCalm, TypeInv, DocumentsOK
  <2>3. InTag(tag, t)
    BY <1>12, <2>1, <2>2 DEF InTag, Listed
  <2>4. PICK j \in DOMAIN kept : kept[j].task = t
    BY <1>5, <2>3 DEF Shows
  <2>5. call'[c] = k
    BY <1>7 DEF TypeInv, CallsOK
  <2>6. j >= 1
    BY <1>5, <2>4, RowsOfSequence
  <2> QED
    BY <1>8, <1>9, <2>4, <2>5, <2>6 DEF InLoop
<1>13. \A u \in Tasks : ~ InLoop(u)
  BY DEF InLoop, Busy
<1>14. TasksCalm'
  <2>1. ASSUME NEW u \in Tasks
        PROVE  /\ (task[u].tag \notin tags \union {NoTag} => task[u].stage = "done" \/ InLoop(u))'
               /\ (task[u].stage \in {"none", "gone"} => task[u].tag = NoTag)'
               /\ (marks[u] > 0 => marks[u] = 1 /\ task[u].stage \in {"done", "gone"})'
    <3>1. CASE task[u].tag = tag
      BY <1>7, <1>12, <3>1 DEF Calm, TasksCalm
    <3>2. CASE task[u].tag # tag
      BY <1>7, <1>13, <3>2 DEF Calm, TasksCalm
    <3> QED
      BY <3>1, <3>2
  <2> QED
    BY <2>1 DEF TasksCalm
<1>15. (selectedIndex <= Cardinality(tags))'
  <2>1. IsFiniteSet(tags')
    BY <1>7, FS_RemoveElement DEF TypeInv, DocumentsOK
  <2>2. Cardinality(tags') \in Nat
    BY <2>1, FS_CardinalityType
  <2> QED
    BY <1>7, <2>2
<1> QED
  BY <1>11, <1>14, <1>15 DEF Calm

LEMMA ReopenCalm ==
  ASSUME Unbounded, TypeInv, Calm, Reopen
  PROVE  Calm'
<1>1. PICK show \in BOOLEAN : InitPage(show)
  BY DEF Reopen
<1>2. Busy = {} /\ UNCHANGED <<task, tags, call, marks>>
  BY DEF Reopen
<1>3. PICK rows : rows = Found(show, 1)
  OBVIOUS
<1>4. /\ eventTagList' = 1
      /\ selectedEvents' = 1
      /\ heap' = [l \in Objects |-> IF l = 1 THEN rows ELSE <<>>]
      /\ shownTags' = TagRow
      /\ selectedIndex' = 0
      /\ showCompleted' = show
  BY <1>1, <1>3 DEF InitPage
<1>5. PICK wanted : wanted = {t \in Tasks : /\ task[t].tag # NoTag
                                            /\ task[t].stage = "open" \/ (show /\ Exists(t))}
  OBVIOUS
<1>6. /\ \A i \in DOMAIN rows :
           /\ rows[i].task \in wanted
           /\ rows[i].tag = task[rows[i].task].tag
           /\ rows[i].done = (task[rows[i].task].stage = "done")
      /\ \A i, j \in DOMAIN rows : rows[i].task = rows[j].task => i = j
      /\ \A t \in wanted : \E i \in DOMAIN rows : rows[i].task = t
  BY <1>3, <1>5, FoundShows, ObjectsAssumption
<1>7. \A t \in Tasks : InTag(All, t)' <=> t \in wanted
  BY <1>2, <1>4, <1>5 DEF InTag, Listed, Exists
<1>8. wanted \subseteq Tasks
  BY <1>5
<1>9. Shows(All, rows)'
  <2>1. \A i \in DOMAIN rows : InTag(All, rows[i].task)'
    BY <1>6, <1>7, <1>8
  <2>2. \A t \in Tasks : InTag(All, t)' => \E i \in DOMAIN rows : rows[i].task = t
    BY <1>6, <1>7
  <2> QED
    BY <1>2, <1>6, <2>1, <2>2 DEF Shows
<1>10. PageShows'
  <2>1. heap'[eventTagList'] = rows /\ heap'[selectedEvents'] = rows
    BY <1>4, ObjectsAssumption
  <2> QED
    BY <1>9, <2>1, PageShowsNow, TitlesAssumption
<1>11. CallsCalm'
  <2>1. Busy' = {}
    BY <1>2 DEF Busy
  <2>2. (shownTags = TagRow)'
    BY <1>2, <1>4 DEF TagRow
  <2>3. \A d \in Calls : call'[d].pc = "idle"
    BY <2>1 DEF Busy
  <2>4. \A d \in Calls : CallCalm(call[d])'
    BY <2>3 DEF CallCalm
  <2> QED
    BY <1>10, <2>1, <2>2, <2>4 DEF CallsCalm
<1>12. \A u \in Tasks : ~ InLoop(u)
  BY <1>2 DEF InLoop, Busy
<1>13. TasksCalm'
  BY <1>2, <1>12 DEF TasksCalm, Calm
<1>14. (selectedIndex <= Cardinality(tags))'
  BY <1>2, <1>4, TagRowIs
<1> QED
  BY <1>11, <1>13, <1>14 DEF Calm

LEMMA InitCalm == Init => Calm
<1> SUFFICES ASSUME Init PROVE Calm
  OBVIOUS
<1>1. \A tag : Shows(tag, <<>>)
  <2>1. DOMAIN <<>> = {}
    OBVIOUS
  <2>2. \A t \in Tasks : task[t].tag = NoTag
    BY DEF Init, NoTask
  <2>3. \A tag : \A t \in Tasks : ~ InTag(tag, t)
    BY <2>2 DEF InTag, Listed
  <2> QED
    BY <2>1, <2>3 DEF Shows
<1>2. heap[eventTagList] = <<>> /\ heap[selectedEvents] = <<>>
  BY ObjectsAssumption DEF Init
<1>3. PageShows
  BY <1>1, <1>2, TitlesAssumption DEF PageShows
<1>4. shownTags = TagRow /\ Cardinality(tags) = 0
  <2>1. tags = {} /\ IsFiniteSet({}) /\ Cardinality({}) = 0 /\ {} \subseteq Int
    BY FS_EmptySet DEF Init
  <2>2. PICK none : none = Ordered({})
    OBVIOUS
  <2>3. none \in [1 .. 0 -> {}]
    BY <2>1, <2>2, OrderedMembers
  <2>4. none = <<>>
    BY <2>3
  <2>5. <<All>> \o <<>> = <<All>>
    BY ConcatEmptySeq, TitlesAssumption
  <2> QED
    BY <2>1, <2>2, <2>4, <2>5 DEF Init, TagRow
<1>5. \A c \in Calls : call[c].pc = "idle"
  BY DEF Init, Idle
<1>6. CallsCalm
  BY <1>3, <1>4, <1>5 DEF CallsCalm, CallCalm, Busy
<1>7. TasksCalm
  BY DEF Init, TasksCalm, NoTask
<1> QED
  BY <1>4, <1>6, <1>7 DEF Calm, Init

LEMMA CalmInvHolds == ASSUME Unbounded PROVE Spec => []CalmInv
<1>1. Init => CalmInv
  BY InitCalm DEF CalmInv
<1>2. TypeInv /\ CalmInv /\ [Next]_vars => CalmInv'
  <2> SUFFICES ASSUME TypeInv, CalmInv, [Next]_vars, Waited' PROVE Calm'
    BY DEF CalmInv
  <2>1. CASE UNCHANGED vars
    <3>1. Calm
      BY <2>1 DEF CalmInv, Waited, vars
    <3>2. UNCHANGED <<task, tags, heap, eventTagList, selectedEvents, shownTags,
                      selectedIndex, showCompleted, call, marks>>
      BY <2>1 DEF vars, page
    <3>3. PageShows' <=> PageShows
      BY <3>2 DEF PageShows, Shows, InTag, Listed, Exists
    <3>4. \A c \in Calls : CallCalm(call[c]) => CallCalm(call[c])'
      BY <3>2, <3>3 DEF CallCalm, Exists
    <3>5. Busy' = Busy /\ TagRow' = TagRow
      BY <3>2 DEF Busy, TagRow
    <3>6. CallsCalm'
      BY <3>1, <3>2, <3>3, <3>4, <3>5 DEF Calm, CallsCalm
    <3>7. TasksCalm'
      BY <3>1, <3>2 DEF Calm, TasksCalm, InLoop
    <3> QED
      BY <3>1, <3>2, <3>6, <3>7 DEF Calm
  <2>2. ASSUME NEW c \in Calls,
               \/ Refresh(c) \/ AnswerTasks(c) \/ AnswerTags(c)
               \/ Fade(c) \/ Mark(c) \/ RemoveTagTask(c) \/ EndDrop(c)
        PROVE  Calm'
    <3>1. used' = used
      BY <2>2 DEF Refresh, AnswerTasks, AnswerTags, Fade, Mark, RemoveTagTask, EndDrop
    <3>2. Calm
      BY <3>1 DEF CalmInv, Waited
    <3> QED
      BY <2>2, <3>2, RefreshCalm, AnswerTasksCalm, AnswerTagsCalm, FadeCalm, MarkCalm,
         RemoveTagTaskCalm, EndDropCalm
  <2>3. ASSUME NEW forms \in {0, 1}, Acts(forms) PROVE Calm /\ Busy = {}
    BY <2>3, ActsCalm DEF CalmInv
  <2>4. ASSUME NEW c \in Calls, NEW i \in DOMAIN heap[selectedEvents],
               Tap(c, i) \/ Delete(c, i) \/ Retag(c, i)
        PROVE  Calm'
    <3>1. Acts(0) \/ Acts(1)
      BY <2>4 DEF Tap, Delete, Retag
    <3> QED
      BY <2>3, <2>4, <3>1, TapCalm, DeleteCalm, RetagCalm
  <2>5. ASSUME NEW c \in Calls, NEW title \in Titles, AddTag(c, title) PROVE Calm'
    <3>1. Acts(1)
      BY <2>5 DEF AddTag
    <3> QED
      BY <2>3, <2>5, <3>1, AddTagCalm
  <2>6. ASSUME NEW c \in Calls, NEW t \in Tasks, Add(c, t) PROVE Calm'
    <3>1. Acts(0)
      BY <2>6 DEF Add
    <3> QED
      BY <2>3, <2>6, <3>1, AddCalm
  <2>7. ASSUME NEW c \in Calls, NEW i \in DOMAIN shownTags, Drop(c, i) PROVE Calm'
    <3>1. Acts(0)
      BY <2>7 DEF Drop
    <3> QED
      BY <2>3, <2>7, <3>1, DropCalm
  <2>8. ASSUME NEW i \in DOMAIN shownTags, Select(i) PROVE Calm'
    <3>1. Acts(0)
      BY <2>8 DEF Select
    <3> QED
      BY <2>3, <2>8, <3>1, SelectCalm
  <2>9. CASE Reopen
    <3>1. used'.hurries = used.hurries
      BY <2>9 DEF Reopen, TypeInv, HistoryOK
    <3> QED
      BY <2>9, <3>1, ReopenCalm DEF CalmInv, Waited
  <2> QED
    BY <2>1, <2>2, <2>4, <2>5, <2>6, <2>7, <2>8, <2>9 DEF Next
<1> QED
  BY <1>1, <1>2, TypeInvHolds, PTL DEF Spec

\* After any sequence of completions, deletions, edits and removals of tags by a user who
\* waits, the page shows each task of its tag once, as it is in the database.
THEOREM ListsAreWhole == ASSUME Unbounded PROVE Spec => []ListIsWhole
<1>1. TypeInv /\ CalmInv => ListIsWhole
  <2> SUFFICES ASSUME TypeInv, Calm, Rests PROVE ListIsWhole
    BY DEF CalmInv, Rests, ListIsWhole
  <2>1. PICK tag \in Titles : Shows(tag, heap[selectedEvents])
    BY DEF Calm, CallsCalm, PageShows, Rests
  <2>2. PICK rows \in Seq(Rows) : rows = heap[selectedEvents]
    BY DEF TypeInv, PageOK
  <2>3. \A i \in DOMAIN rows : rows[i].task \in Tasks
    BY RowsOfSequence DEF Rows
  <2> DEFINE listed == {[task |-> rows[i].task, tag |-> rows[i].tag] : i \in DOMAIN rows}
             those  == {u \in Tasks : /\ task[u].tag # NoTag
                                      /\ tag = All \/ task[u].tag = tag
                                      /\ task[u].stage = "open" \/ (showCompleted /\ Exists(u))}
  <2>4. \A u \in Tasks : u \in those <=> InTag(tag, u)
    BY DEF InTag, Listed
  <2>5. listed = {[task |-> t, tag |-> task[t].tag] : t \in those}
    <3>1. ASSUME NEW i \in DOMAIN rows
          PROVE  \E t \in those : [task |-> rows[i].task, tag |-> rows[i].tag]
                                  = [task |-> t, tag |-> task[t].tag]
      <4>1. rows[i].task \in those /\ rows[i].tag = task[rows[i].task].tag
        <5> HIDE DEF those
        <5> QED
          BY <2>1, <2>2, <2>3, <2>4 DEF Shows
      <4> QED
        BY <4>1
    <3>2. ASSUME NEW t \in those
          PROVE  \E i \in DOMAIN rows : [task |-> rows[i].task, tag |-> rows[i].tag]
                                        = [task |-> t, tag |-> task[t].tag]
      <4>1. t \in Tasks /\ InTag(tag, t)
        BY <2>4
      <4>2. PICK i \in DOMAIN rows : rows[i].task = t
        BY <2>1, <2>2, <4>1 DEF Shows
      <4>3. rows[i].tag = task[t].tag
        BY <2>1, <2>2, <4>2 DEF Shows
      <4> QED
        BY <4>2, <4>3
    <3> HIDE DEF those
    <3>3. ASSUME NEW x \in listed PROVE x \in {[task |-> t, tag |-> task[t].tag] : t \in those}
      <4>1. PICK i \in DOMAIN rows : x = [task |-> rows[i].task, tag |-> rows[i].tag]
        OBVIOUS
      <4> QED
        BY <3>1, <4>1
    <3>4. ASSUME NEW x \in {[task |-> t, tag |-> task[t].tag] : t \in those} PROVE x \in listed
      <4>1. PICK t \in those : x = [task |-> t, tag |-> task[t].tag]
        OBVIOUS
      <4> QED
        BY <3>2, <4>1
    <3> HIDE DEF listed
    <3> QED
      BY <3>3, <3>4
  <2>6. \A i, j \in DOMAIN rows : rows[i].task = rows[j].task => i = j
    BY <2>1, <2>2 DEF Shows
  <2> QED
    BY <2>2, <2>5, <2>6 DEF ListIsWhole
<1> QED
  BY <1>1, TypeInvHolds, CalmInvHolds, PTL

\* The selected tag is one of the row of tags whenever the page rests.
THEOREM SelectionsExist == ASSUME Unbounded PROVE Spec => []SelectionExists
<1>1. TypeInv /\ CalmInv => SelectionExists
  <2> SUFFICES ASSUME TypeInv, Calm, Rests PROVE TagIsSelected
    BY DEF CalmInv, Rests, SelectionExists
  <2>1. /\ Len(TagRow) = 1 + Cardinality(tags) /\ Cardinality(tags) \in Nat
        /\ DOMAIN TagRow = 1 .. Len(TagRow)
    BY TagRowIs, LenProperties
  <2>2. shownTags = TagRow /\ selectedIndex <= Cardinality(tags) /\ selectedIndex \in Nat
    BY DEF Calm, CallsCalm, Rests, TypeInv, PageOK
  <2> QED
    BY <2>1, <2>2 DEF TagIsSelected
<1> QED
  BY <1>1, TypeInvHolds, CalmInvHolds, PTL

\* Removing a tag reaches every task that has it, but for the completed ones that the
\* page hides: the loop goes over the tasks that are left.
THEOREM DanglingAreDone == ASSUME Unbounded PROVE Spec => []DanglingIsDone
<1>1. CalmInv => DanglingIsDone
  <2> SUFFICES ASSUME Calm, Rests PROVE DanglingIsDone
    BY DEF CalmInv, Rests, DanglingIsDone
  <2>1. \A t \in Tasks : ~ InLoop(t)
    BY DEF InLoop, Busy, Rests
  <2> QED
    BY <2>1 DEF Calm, TasksCalm, DanglingIsDone
<1> QED
  BY <1>1, CalmInvHolds, PTL

\* A user who waits completes a task once.
THEOREM CompletionsHappenOnce == ASSUME Unbounded PROVE Spec => []CompletedOnce
<1>1. TypeInv /\ CalmInv => CompletedOnce
  BY DEF CalmInv, Calm, TasksCalm, CompletedOnce, TypeInv, HistoryOK
<1> QED
  BY <1>1, TypeInvHolds, CalmInvHolds, PTL
=============================================================================
