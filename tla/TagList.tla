------------------------------ MODULE TagList ------------------------------
(***************************************************************************)
(* The page of tagged tasks, ListTag: a row of tags, of which the first is *)
(* "All", and the tasks of the selected one.  Lists are objects that the   *)
(* page, its selection and the loop that removes a tag share, and rows are *)
(* known by index, while taps, refreshes and loops wait for the database.  *)
(* Tasks are not repeated here; rewards are TaskCompletion's.              *)
(***************************************************************************)
EXTENDS Integers, Sequences, SequencesExt, Ranks

CONSTANTS
  Tasks,       \* tasks that may be created
  Titles,      \* names of tags: All is a name like any other
  Calls,       \* suspended handlers
  Objects,     \* bound: list objects in use at a time
  Loads,       \* bound: answers whose rows are in use at a time
  MaxHurries,  \* bound: actions of the user while a handler is suspended
  MaxForms,    \* bound: tags created and tasks edited with the form
  MaxOpens     \* bound: times that the page is shown

All == 0
NoTag == -1

ASSUME TitlesAssumption == Titles \subseteq Nat /\ All \in Titles
ASSUME TasksAssumption == IsFiniteSet(Tasks) /\ IsFiniteSet(Calls) /\ "none" \notin Tasks
ASSUME ObjectsAssumption ==
  /\ Objects \subseteq Nat \ {0} /\ 1 \in Objects
  /\ Loads \subseteq Nat /\ 1 \in Loads
ASSUME BoundsAssumption == MaxHurries \in Nat /\ MaxForms \in Nat /\ MaxOpens \in Nat \ {0}

VARIABLES
  task,            \* task[t]: the document of task t
  tags,            \* the documents of the collection Tags
  heap,            \* heap[l]: the rows of the list object l
  eventTagList,    \* the list of all tagged tasks
  selectedEvents,  \* the list that is shown, possibly the same object
  shownTags,       \* the row of tags
  selectedIndex,   \* the tag that is selected in it, from 0
  showCompleted,   \* whether the page shows completed tasks
  call,            \* call[c]: the state of handler c
  said,            \* tags of which the page said that no task has them any more
  tapped,          \* history: tasks of which a completion was tapped
  marks,           \* history: marks[t]: how often t was marked as completed
  used             \* how much of each bound is used up

page == <<heap, eventTagList, selectedEvents, shownTags, selectedIndex>>
vars == <<task, tags, page, showCompleted, call, said, tapped, marks, used>>

NoTask == [stage |-> "none", tag |-> NoTag]
Gone == [stage |-> "gone", tag |-> NoTag]
Idle == [pc |-> "idle", task |-> "none", index |-> 0, tag |-> NoTag, list |-> 0, length |-> 0]

Rows == [task : Tasks, tag : Titles, done : BOOLEAN, load : Loads]
Exists(t) == task[t].stage \in {"open", "done"}
Busy == {c \in Calls : call[c].pc # "idle"}
Waited == used.hurries = 0

TypeOK ==
  /\ task \in [Tasks -> [stage : {"none", "open", "done", "gone"}, tag : Titles \union {NoTag}]]
  /\ tags \subseteq Titles
  /\ DOMAIN heap = Objects
  /\ \A l \in Objects : \A i \in DOMAIN heap[l] : heap[l][i] \in Rows
  /\ eventTagList \in Objects
  /\ selectedEvents \in Objects
  /\ shownTags \in Seq(Titles) /\ shownTags # <<>> /\ Head(shownTags) = All
  /\ selectedIndex \in Nat
  /\ showCompleted \in BOOLEAN
  /\ call \in [Calls ->
       [pc : {"idle", "fade", "mark", "loop", "refresh", "query", "tags"},
        task : Tasks \union {"none"}, index : Nat, tag : Titles \union {NoTag},
        list : Objects \union {0}, length : Nat]]
  /\ said \subseteq Titles
  /\ tapped \subseteq Tasks
  /\ marks \in [Tasks -> 0 .. 2]
  /\ used \in [hurries : 0 .. MaxHurries, forms : 0 .. MaxForms, opens : 1 .. MaxOpens]

-----------------------------------------------------------------------------
(* Lists. *)

\* The objects in use, and one that is not.
InUse == {eventTagList, selectedEvents} \union {call[c].list : c \in Calls}
FreshObject == CHOOSE l \in Objects \ InUse : \A k \in Objects \ InUse : l <= k

Collected(objects, roots) == [l \in Objects |-> IF l \in roots THEN objects[l] ELSE <<>>]

UsedLoads == UNION {{heap[l][i].load : i \in DOMAIN heap[l]} : l \in InUse \ {0}}
FreshLoad == CHOOSE n \in Loads \ UsedLoads : \A m \in Loads \ UsedLoads : n <= m

\* The tagged tasks that getEventList finds, as new rows.
Found(show, load) ==
  LET order == SetToSeq({t \in Tasks : /\ task[t].tag # NoTag
                                       /\ task[t].stage = "open" \/ (show /\ Exists(t))})
  IN  [i \in DOMAIN order |->
        [task |-> order[i], tag |-> task[order[i]].tag, done |-> task[order[i]].stage = "done",
         load |-> load]]

Matching(tag, rows) ==
  IF tag = All
    THEN rows
    ELSE LET kept == Ordered({i \in DOMAIN rows : rows[i].tag = tag})
         IN  [k \in DOMAIN kept |-> rows[kept[k]]]

\* List.remove: the first row that equals this one as a task.
WithoutRow(rows, row) ==
  RemoveFirstMatch(rows, LAMBDA r : r.task = row.task /\ r.tag = row.tag /\ r.done = row.done)

\* Mutant: "All" is not put back.
TagRowMutant == Ordered(tags)

\* getUserTags, with "All" in front.
TagRow == <<All>> \o Ordered(tags)

InitPage(show) ==
  /\ eventTagList' = 1
  /\ selectedEvents' = 1
  /\ heap' = [l \in Objects |-> IF l = 1 THEN Found(show, 1) ELSE <<>>]
  /\ shownTags' = TagRow
  /\ selectedIndex' = 0
  /\ showCompleted' = show

Init ==
  /\ task = [t \in Tasks |-> NoTask]
  /\ tags = {}
  /\ heap = [l \in Objects |-> <<>>]
  /\ eventTagList = 1
  /\ selectedEvents = 1
  /\ shownTags = <<All>>
  /\ selectedIndex = 0
  /\ showCompleted \in BOOLEAN
  /\ call = [c \in Calls |-> Idle]
  /\ said = {}
  /\ tapped = {}
  /\ marks = [t \in Tasks |-> 0]
  /\ used = [hurries |-> 0, forms |-> 0, opens |-> 1]

-----------------------------------------------------------------------------
(* Refreshing. *)

\* The user does something; while a handler is suspended that is a hurry.
Acts(forms) ==
  /\ Busy # {} => used.hurries < MaxHurries
  /\ used.forms + forms <= MaxForms
  /\ used' = [used EXCEPT !.hurries = IF Busy = {} THEN @ ELSE @ + 1, !.forms = @ + forms]

SelectedTag == shownTags[selectedIndex + 1]
TagIsSelected == selectedIndex + 1 \in DOMAIN shownTags

\* _updateTask up to its first await: the list of all tagged tasks is a new one.
UpdateTask(c, tag) ==
  LET l == FreshObject
  IN  /\ eventTagList' = l
      /\ heap' = Collected([heap EXCEPT ![l] = <<>>],
                           {l, selectedEvents} \union {call[b].list : b \in Calls \ {c}})
      /\ call' = [call EXCEPT ![c] = [Idle EXCEPT !.pc = "query", !.tag = tag]]
      /\ UNCHANGED <<selectedEvents, shownTags>>

\* After a completion or a deletion.
Refresh(c) ==
  /\ call[c].pc = "refresh"
  /\ UpdateTask(c, call[c].tag)
  /\ UNCHANGED <<task, tags, selectedIndex, showCompleted, said, tapped, marks, used>>

\* The answer of getEventList is added to the list that the page has by now.
AnswerTasks(c) ==
  /\ call[c].pc = "query"
  /\ LET rows   == heap[eventTagList] \o Found(showCompleted, FreshLoad)
         filled == [heap EXCEPT ![eventTagList] = rows]
         l      == FreshObject
         shown  == IF call[c].tag = All THEN eventTagList ELSE l
     IN  /\ selectedEvents' = shown
         /\ heap' = Collected([filled EXCEPT ![shown] = Matching(call[c].tag, rows)],
                              {shown, eventTagList} \union {call[b].list : b \in Calls})
  /\ call' = [call EXCEPT ![c].pc = "tags"]
  /\ UNCHANGED <<task, tags, eventTagList, shownTags, selectedIndex, showCompleted, said,
                 tapped, marks, used>>

AnswerTags(c) ==
  /\ call[c].pc = "tags"
  /\ shownTags' = TagRow
  /\ call' = [call EXCEPT ![c] = Idle]
  /\ UNCHANGED <<task, tags, heap, eventTagList, selectedEvents, selectedIndex,
                 showCompleted, said, tapped, marks, used>>

-----------------------------------------------------------------------------
(* Completion and deletion. *)

\* Mutant: a completed row can be completed.
TapMutant(c, i) ==
  /\ call[c] = Idle
  /\ TagIsSelected
  /\ i \in DOMAIN heap[selectedEvents]
  /\ LET row == heap[selectedEvents][i]
     IN  /\ heap' = [l \in Objects |-> [j \in DOMAIN heap[l] |->
              IF heap[l][j] = row THEN [row EXCEPT !.done = TRUE] ELSE heap[l][j]]]
         /\ call' = [call EXCEPT ![c] =
              [Idle EXCEPT !.pc = IF showCompleted THEN "mark" ELSE "fade",
                           !.task = row.task, !.index = i, !.tag = SelectedTag]]
         /\ tapped' = tapped \union {row.task}
  /\ Acts(0)
  /\ UNCHANGED <<task, tags, eventTagList, selectedEvents, shownTags, selectedIndex,
                 showCompleted, said, marks>>

\* ifEventCompleted up to its first await: the row is marked wherever it is listed.
Tap(c, i) ==
  /\ call[c] = Idle
  /\ TagIsSelected
  /\ i \in DOMAIN heap[selectedEvents]
  /\ LET row == heap[selectedEvents][i]
     IN  /\ ~ row.done
         /\ heap' = [l \in Objects |-> [j \in DOMAIN heap[l] |->
              IF heap[l][j] = row THEN [row EXCEPT !.done = TRUE] ELSE heap[l][j]]]
         /\ call' = [call EXCEPT ![c] =
              [Idle EXCEPT !.pc = IF showCompleted THEN "mark" ELSE "fade",
                           !.task = row.task, !.index = i, !.tag = SelectedTag]]
         /\ tapped' = tapped \union {row.task}
  /\ Acts(0)
  /\ UNCHANGED <<task, tags, eventTagList, selectedEvents, shownTags, selectedIndex,
                 showCompleted, said, marks>>

\* Mutant: what is marked is the row that is at the index by now.
FadeMutant(c) ==
  LET rows == heap[selectedEvents]
      i    == call[c].index
  IN  /\ call[c].pc = "fade"
      /\ IF i \in DOMAIN rows
           THEN /\ heap' = [heap EXCEPT ![selectedEvents] = WithoutRow(rows, rows[i])]
                /\ call' = [call EXCEPT ![c].pc = "mark", ![c].task = rows[i].task]
           ELSE /\ call' = [call EXCEPT ![c] = Idle]
                /\ UNCHANGED heap
      /\ UNCHANGED <<task, tags, eventTagList, selectedEvents, shownTags, selectedIndex,
                     showCompleted, said, tapped, marks, used>>

\* After 400 ms the row that is at the index by now is removed; if there is none the
\* handler ends with an exception, and the task is never marked.
Fade(c) ==
  LET rows == heap[selectedEvents]
      i    == call[c].index
  IN  /\ call[c].pc = "fade"
      /\ IF i \in DOMAIN rows
           THEN /\ heap' = [heap EXCEPT ![selectedEvents] = WithoutRow(rows, rows[i])]
                /\ call' = [call EXCEPT ![c].pc = "mark"]
           ELSE /\ call' = [call EXCEPT ![c] = Idle]
                /\ UNCHANGED heap
      /\ UNCHANGED <<task, tags, eventTagList, selectedEvents, shownTags, selectedIndex,
                     showCompleted, said, tapped, marks, used>>

\* Mutant: the list is not loaded again.
MarkMutant(c) ==
  LET t == call[c].task
  IN  /\ call[c].pc = "mark"
      /\ Exists(t)
      /\ task' = [task EXCEPT ![t].stage = "done"]
      /\ marks' = [marks EXCEPT ![t] = IF @ < 2 THEN @ + 1 ELSE @]
      /\ call' = [call EXCEPT ![c] = Idle]
      /\ UNCHANGED <<tags, page, showCompleted, said, tapped, used>>

\* processCompletion: the update of isCompleted, which throws if the task has gone.
Mark(c) ==
  LET t == call[c].task
  IN  /\ call[c].pc = "mark"
      /\ IF Exists(t)
           THEN /\ task' = [task EXCEPT ![t].stage = "done"]
                /\ marks' = [marks EXCEPT ![t] = IF @ < 2 THEN @ + 1 ELSE @]
                /\ call' = [call EXCEPT ![c].pc = "refresh"]
           ELSE /\ call' = [call EXCEPT ![c] = Idle]
                /\ UNCHANGED <<task, marks>>
      /\ UNCHANGED <<tags, page, showCompleted, said, tapped, used>>

\* _onDelete.
Delete(c, i) ==
  /\ call[c] = Idle
  /\ TagIsSelected
  /\ i \in DOMAIN heap[selectedEvents]
  /\ LET row == heap[selectedEvents][i]
     IN  /\ heap' = [heap EXCEPT ![selectedEvents] = WithoutRow(@, row)]
         /\ task' = [task EXCEPT ![row.task] = Gone]
  /\ call' = [call EXCEPT ![c] = [Idle EXCEPT !.pc = "refresh", !.tag = SelectedTag]]
  /\ Acts(0)
  /\ UNCHANGED <<tags, eventTagList, selectedEvents, shownTags, selectedIndex,
                 showCompleted, said, tapped, marks>>

-----------------------------------------------------------------------------
(* The form, as a page on top of this one: what it saves, and the refresh when *)
(* it is left. *)

AddTag(c, title) ==
  /\ call[c] = Idle
  /\ TagIsSelected
  /\ title \in Titles \ tags
  /\ tags' = tags \union {title}
  /\ said' = said \ {title}
  /\ UpdateTask(c, SelectedTag)
  /\ Acts(1)
  /\ UNCHANGED <<task, selectedIndex, showCompleted, tapped, marks>>

Add(c, t) ==
  /\ call[c] = Idle
  /\ TagIsSelected
  /\ task[t] = NoTask
  /\ \E tag \in tags : task' = [task EXCEPT ![t] = [stage |-> "open", tag |-> tag]]
  /\ UpdateTask(c, SelectedTag)
  /\ Acts(0)
  /\ UNCHANGED <<tags, selectedIndex, showCompleted, said, tapped, marks>>

\* The form offers the tags that exist, and keeps the tag that the row had.  "Edit"
\* shows all tasks afterwards, whatever is selected; the details page does not.
Retag(c, i) ==
  /\ call[c] = Idle
  /\ TagIsSelected
  /\ i \in DOMAIN heap[selectedEvents]
  /\ LET row == heap[selectedEvents][i]
     IN  /\ Exists(row.task)
         /\ \E tag \in tags \union {row.tag, NoTag} :
              task' = [task EXCEPT ![row.task].tag = tag]
  /\ \E tag \in {All, SelectedTag} : UpdateTask(c, tag)
  /\ Acts(1)
  /\ UNCHANGED <<tags, selectedIndex, showCompleted, said, tapped, marks>>

-----------------------------------------------------------------------------
(* Tags. *)

Select(i) ==
  /\ i \in DOMAIN shownTags
  /\ selectedIndex' = i - 1
  /\ LET tag   == shownTags[i]
         shown == IF tag = All THEN eventTagList ELSE FreshObject
     IN  /\ selectedEvents' = shown
         /\ heap' = Collected([heap EXCEPT ![shown] = Matching(tag, heap[eventTagList])],
                              {shown, eventTagList} \union {call[b].list : b \in Calls})
  /\ Acts(0)
  /\ UNCHANGED <<task, tags, eventTagList, shownTags, showCompleted, call, said, tapped, marks>>

\* Mutant: the selection is kept.
DropMutant(c, i) ==
  /\ call[c] = Idle
  /\ i \in DOMAIN shownTags
  /\ LET tag  == shownTags[i]
         list == IF tag = All THEN eventTagList ELSE FreshObject
     IN  /\ tags' = tags \ {tag}
         /\ heap' = [heap EXCEPT ![list] = Matching(tag, heap[eventTagList])]
         /\ call' = [call EXCEPT ![c] = [Idle EXCEPT !.pc = "loop", !.tag = tag,
                                                     !.list = list, !.index = 1]]
  /\ Acts(0)
  /\ UNCHANGED <<task, eventTagList, selectedEvents, shownTags, selectedIndex, showCompleted, said,
                 tapped, marks>>

\* A tag is dropped on the bin, up to the await of removeTag: its tasks are those
\* that the page knows, for "All" every one of them, in the very list of the page.
Drop(c, i) ==
  /\ call[c] = Idle
  /\ i \in DOMAIN shownTags
  /\ selectedIndex' = 0
  /\ LET tag  == shownTags[i]
         list == IF tag = All THEN eventTagList ELSE FreshObject
     IN  /\ tags' = tags \ {tag}
         /\ heap' = [heap EXCEPT ![list] = Matching(tag, heap[eventTagList])]
         /\ call' = [call EXCEPT ![c] = [Idle EXCEPT !.pc = "loop", !.tag = tag,
                                                     !.list = list, !.index = 1]]
  /\ Acts(0)
  /\ UNCHANGED <<task, eventTagList, selectedEvents, shownTags, showCompleted, said,
                 tapped, marks>>

\* Mutant: the loop begins with its second task.
RemoveTagTaskMutant(c) ==
  LET rows == heap[call[c].list]
      i    == call[c].index
  IN  /\ call[c].pc = "loop"
      /\ i \in DOMAIN rows
      /\ task' = IF i = 1 THEN task ELSE [task EXCEPT ![rows[i].task].tag = NoTag]
      /\ call' = [call EXCEPT ![c].index = i + 1, ![c].length = Len(rows)]
      /\ UNCHANGED <<tags, page, showCompleted, said, tapped, marks, used>>

\* One round of the loop over them: an exception if the list has changed its length
\* meanwhile or the task has gone.
RemoveTagTask(c) ==
  LET rows == heap[call[c].list]
      i    == call[c].index
  IN  /\ call[c].pc = "loop"
      /\ i \in DOMAIN rows
      /\ IF (i > 1 => Len(rows) = call[c].length) /\ Exists(rows[i].task)
           THEN /\ task' = [task EXCEPT ![rows[i].task].tag = NoTag]
                /\ call' = [call EXCEPT ![c].index = i + 1, ![c].length = Len(rows)]
           ELSE /\ call' = [call EXCEPT ![c] = Idle]
                /\ UNCHANGED task
      /\ UNCHANGED <<tags, page, showCompleted, said, tapped, marks, used>>

\* The end of the loop: the message, if there were tasks, and a refresh with "All".
EndDrop(c) ==
  LET rows == heap[call[c].list]
  IN  /\ call[c].pc = "loop"
      /\ call[c].index > Len(rows)
      /\ IF call[c].index > 1 /\ Len(rows) # call[c].length
           THEN /\ call' = [call EXCEPT ![c] = Idle]
                /\ UNCHANGED <<said, page>>
           ELSE /\ said' = IF rows = <<>> THEN said ELSE said \union ({call[c].tag} \ tags)
                /\ UpdateTask(c, All)
                /\ UNCHANGED selectedIndex
      /\ UNCHANGED <<task, tags, showCompleted, tapped, marks, used>>

-----------------------------------------------------------------------------

\* The page is left and shown again, by a user who waits for its handlers.
Reopen ==
  /\ Busy = {}
  /\ used.opens < MaxOpens
  /\ used' = [used EXCEPT !.opens = @ + 1]
  /\ \E show \in BOOLEAN : InitPage(show)
  /\ UNCHANGED <<task, tags, call, said, tapped, marks>>

Next ==
  \/ \E c \in Calls :
       \/ Refresh(c) \/ AnswerTasks(c) \/ AnswerTags(c)
       \/ Fade(c) \/ Mark(c) \/ RemoveTagTask(c) \/ EndDrop(c)
       \/ \E i \in DOMAIN heap[selectedEvents] : Tap(c, i) \/ Delete(c, i) \/ Retag(c, i)
       \/ \E title \in Titles : AddTag(c, title)
       \/ \E t \in Tasks : Add(c, t)
       \/ \E i \in DOMAIN shownTags : Drop(c, i)
  \/ \E i \in DOMAIN shownTags : Select(i)
  \/ Reopen

Spec == Init /\ [][Next]_vars

-----------------------------------------------------------------------------
(* Properties. *)

Rests == Busy = {} /\ Waited

\* For a user who waits, the page shows the open tagged tasks (and the completed
\* ones if it is to) of one tag or of all, each of them once and as it is in the
\* database, after any sequence of completions, edits, removals of tags and
\* refreshes.
ListIsWhole ==
  Rests =>
    LET rows == heap[selectedEvents]
    IN  /\ \A i, j \in DOMAIN rows : rows[i].task = rows[j].task => i = j
        /\ \E tag \in Titles :
             {[task |-> rows[i].task, tag |-> rows[i].tag] : i \in DOMAIN rows} =
             {[task |-> t, tag |-> task[t].tag] :
                t \in {u \in Tasks : /\ task[u].tag # NoTag
                                     /\ tag = All \/ task[u].tag = tag
                                     /\ task[u].stage = "open" \/ (showCompleted /\ Exists(u))}}

\* For a user who waits, the selected tag is one of the row, after tags were removed,
\* created and selected: otherwise every tap on a task throws.
SelectionExists == Rests => TagIsSelected

\* For a user who waits, only a completed task may have a tag that does not exist:
\* one that was hidden when the tag was removed.
DanglingIsDone ==
  Rests => \A t \in Tasks : task[t].tag \notin tags \union {NoTag} => task[t].stage = "done"

\* Rows are known by index and move while a tap waits, yet whatever the user does
\* meanwhile no other task than a tapped one is completed.
CompletedWasTapped == \A t \in Tasks : marks[t] > 0 => t \in tapped

\* A user who waits completes a task once, although it stays in lists and loops.
CompletedOnce == Waited => \A t \in Tasks : marks[t] <= 1

\* "Tag ... has been removed from all the related tasks."
SaidIsDone == \A t \in Tasks : task[t].tag \notin said
=============================================================================
