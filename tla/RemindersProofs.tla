-------------------------- MODULE RemindersProofs --------------------------
(***************************************************************************)
(* Theorems about Reminders, for any tasks, handlers and bounds.           *)
(***************************************************************************)
EXTENDS Reminders, TLAPS

Founds == UNION {[S -> TaskStates] : S \in SUBSET Tasks}
CallStates == [pc : {"idle"} \union OfTasks \union OfSettings,
               task : Tasks \union {"none"}, copy : TaskStates, found : Founds]
Uses == [edits : 0 .. MaxEdits, restarts : 0 .. MaxRestarts,
         switches : 0 .. MaxSwitches, hurries : 0 .. MaxHurries]

\* The stage of a task once it is created: it never becomes "none" again, and "gone"
\* is for good.
OnceCreated(c) ==
  /\ call[c].pc \in OfTasks =>
       call[c].task \in Tasks /\ task[call[c].task].stage # "none"
  /\ call[c].pc = "remove" => task[call[c].task].stage = "gone"
  /\ call[c].pc \in {"schedule", "erase"} =>
       \A t \in DOMAIN call[c].found : t \in Tasks /\ task[t].stage # "none"

TypeInv ==
  /\ TypeOK
  /\ \A c \in Calls : OnceCreated(c)

LEMMA Constants ==
  /\ 1 \in Times
  /\ Times \subseteq Nat
  /\ MaxTime \in Nat
  /\ MaxEdits \in Nat /\ MaxRestarts \in Nat /\ MaxSwitches \in Nat /\ MaxHurries \in Nat
BY BoundsAssumption DEF Times

LEMMA NothingTypes ==
  /\ NoTask \in TaskStates
  /\ Gone \in TaskStates
  /\ Idle \in CallStates
  /\ Idle.pc = "idle"
<1>1. NoTask \in TaskStates /\ Gone \in TaskStates
  BY Constants DEF NoTask, Gone, TaskStates
<1>2. <<>> \in [{} -> TaskStates]
  OBVIOUS
<1>3. <<>> \in Founds
  BY <1>2 DEF Founds
<1> QED
  BY <1>1, <1>3 DEF Idle, CallStates

\* TypeOK with the sets named.
LEMMA Typed ==
  TypeOK <=> /\ clock \in 0 .. MaxTime
             /\ now \in 0 .. clock
             /\ task \in [Tasks -> TaskStates]
             /\ scheduled \in [Ids -> Times \union {None}]
             /\ keepsId \in BOOLEAN
             /\ call \in [Calls -> CallStates]
             /\ disabled \in BOOLEAN
             /\ silent \subseteq Tasks
             /\ left \subseteq Tasks
             /\ used \in Uses
BY DEF TypeOK, CallStates, Founds, Uses

LEMMA IdTypes ==
  /\ \A t \in Tasks : IdOf(t) \in Ids /\ IdOfNew(t) \in Ids
  /\ \A t, u \in Tasks : t # u => /\ IdOf(t) # IdOf(u) /\ IdOf(t) # IdOfNew(u)
                                  /\ IdOfNew(t) # IdOfNew(u)
  /\ keepsId => \A t \in Tasks : IdOfNew(t) = IdOf(t)
BY DEF IdOf, IdOfNew, Ids

-----------------------------------------------------------------------------
(* Types. *)

LEMMA InitType == Init => TypeInv
<1> SUFFICES ASSUME Init PROVE TypeInv
  OBVIOUS
<1>1. clock \in 0 .. MaxTime /\ now \in 0 .. clock
  BY Constants DEF Init
<1>2. task \in [Tasks -> TaskStates] /\ call \in [Calls -> CallStates]
  BY NothingTypes DEF Init
<1>3. scheduled \in [Ids -> Times \union {None}] /\ keepsId \in BOOLEAN
  BY DEF Init
<1>4. used \in Uses
  BY Constants DEF Init, Uses
<1>5. disabled \in BOOLEAN /\ silent \subseteq Tasks /\ left \subseteq Tasks
  BY DEF Init
<1>6. \A c \in Calls : OnceCreated(c)
  BY NothingTypes DEF Init, OnceCreated, OfTasks
<1> QED
  BY <1>1, <1>2, <1>3, <1>4, <1>5, <1>6, Typed DEF TypeInv

\* Notifications stay times.
LEMMA NotificationTypes ==
  ASSUME TypeOK, NEW id \in Ids, NEW copy \in TaskStates
  PROVE  /\ removeNotification(id, copy) => scheduled' \in [Ids -> Times \union {None}]
         /\ addNotification(id, copy) => scheduled' \in [Ids -> Times \union {None}]
<1>1. scheduled \in [Ids -> Times \union {None}] /\ copy.date \in Times
  BY Typed DEF TaskStates
<1> QED
  BY <1>1 DEF removeNotification, addNotification

LEMMA CountedType ==
  ASSUME TypeOK, NEW ts, Overtakes(ts), ts \subseteq Tasks
  PROVE  /\ Counted(ts) \in Uses
         /\ Counted(ts).edits = used.edits
         /\ Counted(ts).switches = used.switches
         /\ silent' \subseteq Tasks /\ left' \subseteq Tasks
<1>1. used \in Uses /\ silent \subseteq Tasks /\ left \subseteq Tasks
  BY Typed
<1>2. CASE ts \intersect InHand = {}
  BY <1>1, <1>2 DEF Counted, Uses, Overtakes
<1>3. CASE ts \intersect InHand # {}
  <2>1. used.hurries < MaxHurries /\ used.hurries \in 0 .. MaxHurries
    BY <1>1, <1>3 DEF Overtakes, Uses
  <2>2. used.hurries + 1 \in 0 .. MaxHurries
    BY <2>1, Constants
  <2>3. Counted(ts) = [used EXCEPT !.hurries = used.hurries + 1]
    BY <1>3 DEF Counted
  <2> QED
    BY <1>1, <2>2, <2>3 DEF Uses, Overtakes
<1> QED
  BY <1>2, <1>3

\* The stages of the tasks only go on.
StagesGoOn ==
  \A t \in Tasks : /\ task[t].stage # "none" => task'[t].stage # "none"
                   /\ task[t].stage = "gone" => task'[t].stage = "gone"

\* An action that sets the state of one handler.
LEMMA OneHandler ==
  ASSUME TypeInv, NEW c \in Calls, NEW k \in CallStates, call' = [call EXCEPT ![c] = k],
         clock' = clock, now' = now, keepsId' = keepsId, task' \in [Tasks -> TaskStates],
         scheduled' \in [Ids -> Times \union {None}], disabled' \in BOOLEAN,
         silent' \subseteq Tasks, left' \subseteq Tasks, used' \in Uses,
         StagesGoOn,
         OnceCreated(c)'
  PROVE  TypeInv'
<1>1. TypeOK
  BY DEF TypeInv
<1>2. TypeOK'
  <2>1. call' \in [Calls -> CallStates]
    BY <1>1, Typed
  <2>2. clock \in 0 .. MaxTime /\ now \in 0 .. clock /\ keepsId \in BOOLEAN
    BY <1>1, Typed
  <2> QED
    BY <2>1, <2>2 DEF TypeOK, CallStates, Founds, Uses
<1>3. \A b \in Calls \ {c} : call'[b] = call[b]
  BY <1>1, Typed
<1>4. ASSUME NEW b \in Calls \ {c} PROVE OnceCreated(b)'
  <2>1. OnceCreated(b)
    BY DEF TypeInv
  <2> QED
    BY <1>3, <2>1 DEF OnceCreated, StagesGoOn, OfTasks
<1> QED
  BY <1>2, <1>4 DEF TypeInv

\* The handlers that are started with a task.
LEMMA StartsType ==
  ASSUME TypeInv, NEW c \in Calls, NEW t \in Tasks, NEW pc \in OfTasks, Starts(c, pc, t),
         task[t].stage # "none",
         task' \in [Tasks -> TaskStates], StagesGoOn, pc = "remove" => task'[t].stage = "gone",
         scheduled' \in [Ids -> Times \union {None}],
         used' \in Uses, UNCHANGED <<clock, now, keepsId, disabled>>
  PROVE  TypeInv'
<1> DEFINE k == [Idle EXCEPT !.pc = pc, !.task = t, !.copy = task[t]]
<1>1. TypeOK
  BY DEF TypeInv
<1>2. k \in CallStates
  BY <1>1, Typed, NothingTypes DEF CallStates
<1>3. k.pc = pc /\ k.task = t
  BY DEF Idle
<1>4. call' = [call EXCEPT ![c] = k]
  BY DEF Starts
<1> HIDE DEF k
<1>5. call'[c] = k
  BY <1>1, <1>4, Typed
<1>6. OnceCreated(c)'
  BY <1>3, <1>5 DEF OnceCreated, OfTasks, StagesGoOn
<1>7. silent' \subseteq Tasks /\ left' \subseteq Tasks /\ disabled' \in BOOLEAN
  BY <1>1, CountedType, Typed DEF Starts
<1> QED
  BY <1>2, <1>4, <1>6, <1>7, OneHandler

\* The handlers that end.
LEMMA EndsType ==
  ASSUME TypeInv, NEW c \in Calls, call' = [call EXCEPT ![c] = Idle],
         task' \in [Tasks -> TaskStates], StagesGoOn,
         scheduled' \in [Ids -> Times \union {None}],
         silent' \subseteq Tasks, left' \subseteq Tasks,
         UNCHANGED <<clock, now, keepsId, disabled, used>>
  PROVE  TypeInv'
<1>1. TypeOK
  BY DEF TypeInv
<1>2. call'[c] = Idle
  BY <1>1, Typed
<1>3. OnceCreated(c)'
  BY <1>2, NothingTypes DEF OnceCreated, OfTasks
<1>4. disabled' \in BOOLEAN /\ used' \in Uses
  BY <1>1, Typed
<1> QED
  BY <1>3, <1>4, NothingTypes, OneHandler

\* The handlers that go on with the task that they have in hand.
LEMMA GoesOnType ==
  ASSUME TypeInv, NEW c \in Calls, NEW k \in CallStates, call' = [call EXCEPT ![c] = k],
         call[c].pc \in OfTasks, k.pc \in OfTasks \ {"remove"}, k.task = call[c].task,
         task' \in [Tasks -> TaskStates], StagesGoOn,
         silent' \subseteq Tasks, left' \subseteq Tasks,
         UNCHANGED <<clock, now, keepsId, disabled, scheduled, used>>
  PROVE  TypeInv'
<1>1. TypeOK
  BY DEF TypeInv
<1>2. call'[c] = k
  BY <1>1, Typed
<1>3. k.task \in Tasks /\ task[k.task].stage # "none"
  BY DEF TypeInv, OnceCreated
<1>4. OnceCreated(c)'
  BY <1>2, <1>3 DEF OnceCreated, StagesGoOn, OfTasks
<1>5. disabled' \in BOOLEAN /\ used' \in Uses /\ scheduled' \in [Ids -> Times \union {None}]
  BY <1>1, Typed
<1> QED
  BY <1>4, <1>5, OneHandler

LEMMA StagesStay == ASSUME UNCHANGED task PROVE StagesGoOn
BY DEF StagesGoOn

LEMMA CreateType == ASSUME TypeInv, NEW c \in Calls, NEW t \in Tasks, Create(c, t) PROVE TypeInv'
<1>1. TypeOK
  BY DEF TypeInv
<1>2. PICK date \in Times, remind \in BOOLEAN, repeats \in BOOLEAN :
        LET new == [stage |-> "open", date |-> date, remind |-> remind, repeats |-> repeats]
        IN  /\ task' = [task EXCEPT ![t] = new]
            /\ call' = [call EXCEPT ![c] = [Idle EXCEPT !.pc = "created", !.task = t, !.copy = new]]
  BY DEF Create
<1> DEFINE new == [stage |-> "open", date |-> date, remind |-> remind, repeats |-> repeats]
           k   == [Idle EXCEPT !.pc = "created", !.task = t, !.copy = new]
<1>3. new \in TaskStates /\ new.stage = "open"
  BY DEF TaskStates
<1>4. task' = [task EXCEPT ![t] = new]
  BY <1>2
<1> HIDE DEF new
<1>5. k \in CallStates /\ k.pc = "created" /\ k.task = t
  BY <1>3, NothingTypes DEF CallStates, OfTasks, Idle
<1>6. call' = [call EXCEPT ![c] = k]
  BY <1>2 DEF new
<1> HIDE DEF k
<1>7. task[t].stage = "none"
  BY DEF Create, NoTask
<1>8. task' \in [Tasks -> TaskStates] /\ StagesGoOn /\ task'[t].stage # "none"
  BY <1>1, <1>3, <1>4, <1>7, Typed DEF StagesGoOn
<1>9. OnceCreated(c)'
  <2>1. call'[c] = k
    BY <1>1, <1>6, Typed
  <2> QED
    BY <1>5, <1>8, <2>1 DEF OnceCreated, OfTasks
<1>10. used' \in Uses /\ silent' \subseteq Tasks /\ left' \subseteq Tasks
  BY <1>1, CountedType DEF Create
<1>11. /\ clock' = clock /\ now' = now /\ keepsId' = keepsId
       /\ scheduled' \in [Ids -> Times \union {None}] /\ disabled' \in BOOLEAN
  BY <1>1, Typed DEF Create
<1> QED
  BY <1>5, <1>6, <1>8, <1>9, <1>10, <1>11, OneHandler

LEMMA CreatedType == ASSUME TypeInv, NEW c \in Calls, Created(c) PROVE TypeInv'
<1>1. TypeOK
  BY DEF TypeInv
<1>2. call[c].pc = "created" /\ call' = [call EXCEPT ![c] = Idle]
  BY DEF Created, Ends
<1>3. call[c].task \in Tasks /\ call[c].copy \in TaskStates
  BY <1>1, <1>2, Typed DEF TypeInv, OnceCreated, OfTasks, CallStates
<1>4. scheduled' \in [Ids -> Times \union {None}]
  BY <1>1, <1>3, IdTypes, NotificationTypes DEF Created
<1>5. /\ task' \in [Tasks -> TaskStates] /\ silent' \subseteq Tasks /\ left' \subseteq Tasks
      /\ UNCHANGED <<clock, now, keepsId, disabled, used, task>>
  BY <1>1, Typed DEF Created
<1> QED
  BY <1>2, <1>4, <1>5, StagesStay, EndsType

LEMMA EditType == ASSUME TypeInv, NEW c \in Calls, NEW t \in Tasks, Edit(c, t) PROVE TypeInv'
<1>1. TypeOK
  BY DEF TypeInv
<1>2. task[t].stage # "none" /\ Starts(c, "edit", t) /\ Overtakes({t})
  BY DEF Edit, Exists, Starts
<1>3. task[t] \in TaskStates /\ task' = task
  BY <1>1, Typed DEF Edit
<1>4. scheduled' \in [Ids -> Times \union {None}]
  BY <1>1, <1>3, IdTypes, NotificationTypes DEF Edit
<1>5. used' \in Uses
  <2>1. Counted({t}) \in Uses /\ Counted({t}).edits = used.edits /\ used \in Uses
    BY <1>1, <1>2, CountedType, Typed
  <2>2. used.edits < MaxEdits /\ used' = [Counted({t}) EXCEPT !.edits = @ + 1]
    BY DEF Edit
  <2>3. used.edits + 1 \in 0 .. MaxEdits
    <3>1. used.edits \in 0 .. MaxEdits
      BY <2>1 DEF Uses
    <3> QED
      BY <2>2, <3>1, Constants
  <2> HIDE DEF Counted
  <2> QED
    BY <2>1, <2>2, <2>3 DEF Uses
<1>6. task' \in [Tasks -> TaskStates] /\ UNCHANGED <<clock, now, keepsId, disabled>>
  BY <1>1, <1>3, Typed DEF Edit
<1>7. "edit" \in OfTasks
  BY DEF OfTasks
<1> QED
  BY <1>2, <1>3, <1>4, <1>5, <1>6, <1>7, StagesStay, StartsType

LEMMA UpdateEditedType == ASSUME TypeInv, NEW c \in Calls, UpdateEdited(c) PROVE TypeInv'
<1> DEFINE t == call[c].task
<1>1. TypeOK
  BY DEF TypeInv
<1>2. call[c] \in CallStates /\ call[c].pc = "edit" /\ t \in Tasks
  BY <1>1, Typed DEF UpdateEdited, TypeInv, OnceCreated, OfTasks
<1>3. silent' \subseteq Tasks /\ left' \subseteq Tasks
  BY <1>1, <1>2, Typed DEF UpdateEdited
<1>4. UNCHANGED <<clock, now, scheduled, keepsId, disabled, used>>
  BY DEF UpdateEdited
<1>5. CASE Exists(t) /\ call' = [call EXCEPT ![c].pc = "edited"]
           /\ \E date \in Times, remind, repeats \in BOOLEAN :
                 task' = [task EXCEPT ![t] = [stage |-> @.stage, date |-> date,
                                              remind |-> remind, repeats |-> repeats]]
  <2>1. PICK date \in Times, remind \in BOOLEAN, repeats \in BOOLEAN :
          task' = [task EXCEPT ![t] = [stage |-> task[t].stage, date |-> date,
                                       remind |-> remind, repeats |-> repeats]]
    BY <1>5
  <2>2. task' \in [Tasks -> TaskStates] /\ StagesGoOn
    BY <1>1, <1>2, <2>1, Typed DEF TaskStates, StagesGoOn
  <2> DEFINE k == [call[c] EXCEPT !.pc = "edited"]
  <2>3. /\ k \in CallStates /\ k.pc \in OfTasks \ {"remove"} /\ k.task = call[c].task
        /\ call[c].pc \in OfTasks
    BY <1>2 DEF CallStates, OfTasks
  <2>4. call' = [call EXCEPT ![c] = k]
    BY <1>1, <1>5, Typed
  <2> HIDE DEF k
  <2> QED
    BY <1>3, <1>4, <2>2, <2>3, <2>4, GoesOnType
<1>6. CASE call' = [call EXCEPT ![c] = Idle] /\ UNCHANGED task
  <2>1. task' \in [Tasks -> TaskStates] /\ scheduled' \in [Ids -> Times \union {None}]
    BY <1>1, <1>4, <1>6, Typed
  <2> QED
    BY <1>3, <1>4, <1>6, <2>1, StagesStay, EndsType
<1> QED
  BY <1>5, <1>6 DEF UpdateEdited

LEMMA FetchType == ASSUME TypeInv, NEW c \in Calls, Fetch(c) PROVE TypeInv'
<1> DEFINE t == call[c].task
<1>1. TypeOK
  BY DEF TypeInv
<1>2. call[c] \in CallStates /\ call[c].pc \in {"edited", "renewed"} /\ t \in Tasks
  BY <1>1, Typed DEF Fetch, TypeInv, OnceCreated, OfTasks
<1>3. UNCHANGED <<clock, now, task, scheduled, keepsId, disabled, silent, left, used>>
  BY DEF Fetch
<1>4. /\ task' \in [Tasks -> TaskStates] /\ scheduled' \in [Ids -> Times \union {None}]
      /\ silent' \subseteq Tasks /\ left' \subseteq Tasks /\ task[t] \in TaskStates
  BY <1>1, <1>2, <1>3, Typed
<1>5. CASE Exists(t)
  <2> DEFINE k == [call[c] EXCEPT !.pc = "fetched", !.copy = task[t]]
  <2>1. /\ k \in CallStates /\ k.pc \in OfTasks \ {"remove"} /\ k.task = call[c].task
        /\ call[c].pc \in OfTasks
    BY <1>2, <1>4 DEF CallStates, OfTasks
  <2>2. call' = [call EXCEPT ![c] = k]
    BY <1>5 DEF Fetch
  <2> HIDE DEF k
  <2> QED
    BY <1>3, <1>4, <2>1, <2>2, StagesStay, GoesOnType
<1>6. CASE ~ Exists(t)
  <2>1. call' = [call EXCEPT ![c] = Idle]
    BY <1>6 DEF Fetch
  <2> QED
    BY <1>3, <1>4, <2>1, StagesStay, EndsType
<1> QED
  BY <1>5, <1>6

LEMMA RemindType == ASSUME TypeInv, NEW c \in Calls, Remind(c) PROVE TypeInv'
<1>1. TypeOK
  BY DEF TypeInv
<1>2. call[c].pc = "fetched" /\ call' = [call EXCEPT ![c] = Idle]
  BY DEF Remind, Ends
<1>3. call[c].task \in Tasks /\ call[c].copy \in TaskStates
  BY <1>1, <1>2, Typed DEF TypeInv, OnceCreated, OfTasks, CallStates
<1>4. scheduled' \in [Ids -> Times \union {None}]
  BY <1>1, <1>3, IdTypes, NotificationTypes DEF Remind
<1>5. /\ task' \in [Tasks -> TaskStates] /\ silent' \subseteq Tasks /\ left' \subseteq Tasks
      /\ UNCHANGED <<clock, now, keepsId, disabled, used, task>>
  BY <1>1, Typed DEF Remind
<1> QED
  BY <1>2, <1>4, <1>5, StagesStay, EndsType

LEMMA CompleteType == ASSUME TypeInv, NEW c \in Calls, NEW t \in Tasks, Complete(c, t) PROVE TypeInv'
<1>1. TypeOK
  BY DEF TypeInv
<1>2. task[t].stage # "none" /\ Starts(c, "removed", t) /\ Overtakes({t})
  BY DEF Complete, Starts
<1>3. task[t] \in TaskStates /\ task' = task
  BY <1>1, Typed DEF Complete
<1>4. scheduled' \in [Ids -> Times \union {None}]
  BY <1>1, <1>3, IdTypes, NotificationTypes DEF Complete
<1>5. used' \in Uses
  BY <1>1, <1>2, CountedType DEF Complete
<1>6. task' \in [Tasks -> TaskStates] /\ UNCHANGED <<clock, now, keepsId, disabled>>
  BY <1>1, <1>3, Typed DEF Complete
<1>7. "removed" \in OfTasks
  BY DEF OfTasks
<1> QED
  BY <1>2, <1>3, <1>4, <1>5, <1>6, <1>7, StagesStay, StartsType

LEMMA MarkType == ASSUME TypeInv, NEW c \in Calls, Mark(c) PROVE TypeInv'
<1> DEFINE t == call[c].task
<1>1. TypeOK
  BY DEF TypeInv
<1>2. call[c] \in CallStates /\ call[c].pc = "removed" /\ t \in Tasks
  BY <1>1, Typed DEF Mark, TypeInv, OnceCreated, OfTasks
<1>3. UNCHANGED <<clock, now, scheduled, keepsId, disabled, silent, left, used>>
  BY DEF Mark
<1>4. task' = IF Exists(t) THEN [task EXCEPT ![t].stage = "done"] ELSE task
  BY DEF Mark
<1>5. /\ task' \in [Tasks -> TaskStates] /\ scheduled' \in [Ids -> Times \union {None}]
      /\ silent' \subseteq Tasks /\ left' \subseteq Tasks /\ StagesGoOn
  BY <1>1, <1>2, <1>3, <1>4, Typed DEF TaskStates, StagesGoOn, Exists
<1>6. CASE Exists(t) /\ call[c].copy.repeats
  <2> DEFINE k == [call[c] EXCEPT !.pc = "marked"]
  <2>1. /\ k \in CallStates /\ k.pc \in OfTasks \ {"remove"} /\ k.task = call[c].task
        /\ call[c].pc \in OfTasks
    BY <1>2 DEF CallStates, OfTasks
  <2>2. call' = [call EXCEPT ![c] = k]
    BY <1>6 DEF Mark
  <2> HIDE DEF k
  <2> QED
    BY <1>3, <1>5, <2>1, <2>2, GoesOnType
<1>7. CASE ~ (Exists(t) /\ call[c].copy.repeats)
  <2>1. call' = [call EXCEPT ![c] = Idle]
    BY <1>7 DEF Mark
  <2> QED
    BY <1>3, <1>5, <2>1, EndsType
<1> QED
  BY <1>6, <1>7

LEMMA RenewType == ASSUME TypeInv, NEW c \in Calls, Renew(c) PROVE TypeInv'
<1> DEFINE t == call[c].task
<1>1. TypeOK
  BY DEF TypeInv
<1>2. call[c] \in CallStates /\ call[c].pc = "marked" /\ t \in Tasks
  BY <1>1, Typed DEF Renew, TypeInv, OnceCreated, OfTasks
<1>3. UNCHANGED <<clock, now, scheduled, keepsId, disabled, silent, left, used>>
  BY DEF Renew
<1>4. silent' \subseteq Tasks /\ left' \subseteq Tasks /\ scheduled' \in [Ids -> Times \union {None}]
  BY <1>1, <1>3, Typed
<1>5. CASE Exists(t) /\ call' = [call EXCEPT ![c].pc = "renewed"]
           /\ \E next \in Times : task' = [task EXCEPT ![t].stage = "open", ![t].date = next]
  <2>1. PICK next \in Times : task' = [task EXCEPT ![t].stage = "open", ![t].date = next]
    BY <1>5
  <2>2. task' = [task EXCEPT ![t] = [task[t] EXCEPT !.stage = "open", !.date = next]]
    BY <1>1, <1>2, <2>1, Typed
  <2>3. task' \in [Tasks -> TaskStates] /\ StagesGoOn
    BY <1>1, <1>2, <1>5, <2>2, Typed DEF TaskStates, StagesGoOn, Exists
  <2> DEFINE k == [call[c] EXCEPT !.pc = "renewed"]
  <2>4. /\ k \in CallStates /\ k.pc \in OfTasks \ {"remove"} /\ k.task = call[c].task
        /\ call[c].pc \in OfTasks
    BY <1>2 DEF CallStates, OfTasks
  <2>5. call' = [call EXCEPT ![c] = k]
    BY <1>1, <1>5, Typed
  <2> HIDE DEF k
  <2> QED
    BY <1>3, <1>4, <2>3, <2>4, <2>5, GoesOnType
<1>6. CASE call' = [call EXCEPT ![c] = Idle] /\ UNCHANGED task
  <2>1. task' \in [Tasks -> TaskStates]
    BY <1>1, <1>6, Typed
  <2> QED
    BY <1>3, <1>4, <1>6, <2>1, StagesStay, EndsType
<1> QED
  BY <1>5, <1>6 DEF Renew

LEMMA DeleteType == ASSUME TypeInv, NEW c \in Calls, NEW t \in Tasks, Delete(c, t) PROVE TypeInv'
<1>1. TypeOK
  BY DEF TypeInv
<1>2. task[t].stage # "none" /\ Starts(c, "remove", t) /\ Overtakes({t})
  BY DEF Delete, Exists, Starts
<1>3. task' = [task EXCEPT ![t] = Gone] /\ Gone.stage = "gone"
  BY DEF Delete, Gone, NoTask
<1>4. scheduled' \in [Ids -> Times \union {None}]
  BY <1>1, Typed DEF Delete
<1>5. used' \in Uses
  BY <1>1, <1>2, CountedType DEF Delete
<1>6. task' \in [Tasks -> TaskStates] /\ StagesGoOn /\ task'[t].stage = "gone"
  BY <1>1, <1>2, <1>3, Typed, NothingTypes DEF StagesGoOn
<1>7. "remove" \in OfTasks /\ UNCHANGED <<clock, now, keepsId, disabled>>
  BY DEF OfTasks, Delete
<1> QED
  BY <1>2, <1>4, <1>5, <1>6, <1>7, StartsType

LEMMA CancelDeletedType == ASSUME TypeInv, NEW c \in Calls, CancelDeleted(c) PROVE TypeInv'
<1>1. TypeOK
  BY DEF TypeInv
<1>2. call[c].pc = "remove" /\ call' = [call EXCEPT ![c] = Idle]
  BY DEF CancelDeleted, Ends
<1>3. call[c].task \in Tasks /\ call[c].copy \in TaskStates
  BY <1>1, <1>2, Typed DEF TypeInv, OnceCreated, OfTasks, CallStates
<1>4. scheduled' \in [Ids -> Times \union {None}]
  BY <1>1, <1>3, IdTypes, NotificationTypes DEF CancelDeleted
<1>5. /\ task' \in [Tasks -> TaskStates] /\ silent' \subseteq Tasks /\ left' \subseteq Tasks
      /\ UNCHANGED <<clock, now, keepsId, disabled, used, task>>
  BY <1>1, Typed DEF CancelDeleted
<1> QED
  BY <1>2, <1>4, <1>5, StagesStay, EndsType

LEMMA DeleteDetailsType == ASSUME TypeInv, NEW t \in Tasks, DeleteDetails(t) PROVE TypeInv'
<1>1. TypeOK
  BY DEF TypeInv
<1>2. task[t] \in TaskStates
  BY <1>1, Typed
<1>3. scheduled' \in [Ids -> Times \union {None}]
  BY <1>1, <1>2, IdTypes, NotificationTypes DEF DeleteDetails
<1>4. silent' \subseteq Tasks /\ UNCHANGED <<clock, now, task, keepsId, call, disabled, left, used>>
  BY <1>1, Typed DEF DeleteDetails
<1>5. TypeOK'
  BY <1>1, <1>3, <1>4 DEF TypeOK
<1> QED
  BY <1>4, <1>5 DEF TypeInv, OnceCreated

LEMMA DisableType == ASSUME TypeInv, Disable PROVE TypeInv'
<1>1. TypeOK
  BY DEF TypeInv
<1>2. used' \in Uses
  <2>1. used \in Uses
    BY <1>1, Typed
  <2>2. used.switches < MaxSwitches /\ used' = [used EXCEPT !.switches = @ + 1]
    BY DEF Disable
  <2>3. used.switches + 1 \in 0 .. MaxSwitches
    <3>1. used.switches \in 0 .. MaxSwitches
      BY <2>1 DEF Uses
    <3> QED
      BY <2>2, <3>1, Constants
  <2> QED
    BY <2>1, <2>2, <2>3 DEF Uses
<1>3. disabled' = TRUE /\ UNCHANGED <<clock, now, task, scheduled, keepsId, call, silent, left>>
  BY DEF Disable
<1>4. TypeOK'
  BY <1>1, <1>2, <1>3 DEF TypeOK, Uses
<1> QED
  BY <1>3, <1>4 DEF TypeInv, OnceCreated

\* The handlers of the settings, when they start.
LEMMA StartsSettingType ==
  ASSUME TypeInv, NEW c \in Calls, NEW pc \in {"enable", "clear"}, StartsSetting(c, pc),
         disabled' \in BOOLEAN, UNCHANGED <<clock, now, task, scheduled, keepsId>>
  PROVE  TypeInv'
<1> DEFINE k == [Idle EXCEPT !.pc = pc]
<1>1. TypeOK
  BY DEF TypeInv
<1>2. k \in CallStates /\ k.pc = pc
  BY NothingTypes DEF CallStates, OfSettings, Idle
<1>3. call' = [call EXCEPT ![c] = k]
  BY DEF StartsSetting
<1> HIDE DEF k
<1>4. call'[c] = k
  BY <1>1, <1>3, Typed
<1>5. OnceCreated(c)'
  BY <1>2, <1>4 DEF OnceCreated, OfTasks
<1>6. used' \in Uses /\ silent' \subseteq Tasks /\ left' \subseteq Tasks
  <2>1. /\ Counted(Tasks) \in Uses /\ Counted(Tasks).switches = used.switches /\ used \in Uses
        /\ silent' \subseteq Tasks /\ left' \subseteq Tasks
    BY <1>1, CountedType, Typed DEF StartsSetting
  <2>2. used.switches < MaxSwitches /\ used' = [Counted(Tasks) EXCEPT !.switches = @ + 1]
    BY DEF StartsSetting
  <2>3. used.switches + 1 \in 0 .. MaxSwitches
    <3>1. used.switches \in 0 .. MaxSwitches
      BY <2>1 DEF Uses
    <3> QED
      BY <2>2, <3>1, Constants
  <2> QED
    BY <2>1, <2>2, <2>3 DEF Uses
<1>7. task' \in [Tasks -> TaskStates] /\ scheduled' \in [Ids -> Times \union {None}] /\ task' = task
  BY <1>1, Typed
<1> QED
  BY <1>2, <1>3, <1>5, <1>6, <1>7, StagesStay, OneHandler

LEMMA EnableType == ASSUME TypeInv, NEW c \in Calls, Enable(c) PROVE TypeInv'
BY StartsSettingType DEF Enable

LEMMA ClearRecordType == ASSUME TypeInv, NEW c \in Calls, ClearRecord(c) PROVE TypeInv'
<1>1. disabled' \in BOOLEAN
  BY Typed DEF TypeInv, ClearRecord
<1> QED
  BY <1>1, StartsSettingType DEF ClearRecord

\* Their queries.
LEMMA AnswersType ==
  ASSUME TypeInv, NEW c \in Calls, NEW pc \in {"schedule", "erase"}, NEW S \in SUBSET Tasks,
         call' = [call EXCEPT ![c].pc = pc, ![c].found = [t \in S |-> task[t]]],
         \A t \in S : task[t].stage # "none",
         UNCHANGED <<clock, now, task, scheduled, keepsId, disabled, silent, left, used>>
  PROVE  TypeInv'
<1> DEFINE found == [t \in S |-> task[t]]
           k     == [call[c] EXCEPT !.pc = pc, !.found = found]
<1>1. TypeOK
  BY DEF TypeInv
<1>2. found \in [S -> TaskStates] /\ DOMAIN found = S
  BY <1>1, Typed
<1>3. found \in Founds
  BY <1>2 DEF Founds
<1> HIDE DEF found
<1>4. k \in CallStates /\ k.pc = pc /\ k.found = found
  BY <1>1, <1>3, Typed DEF CallStates, OfSettings
<1>5. call' = [call EXCEPT ![c] = k]
  BY <1>1, Typed DEF found
<1> HIDE DEF k
<1>6. call'[c] = k
  BY <1>1, <1>5, Typed
<1>7. OnceCreated(c)'
  BY <1>2, <1>4, <1>6 DEF OnceCreated, OfTasks
<1>8. /\ task' \in [Tasks -> TaskStates] /\ scheduled' \in [Ids -> Times \union {None}]
      /\ disabled' \in BOOLEAN /\ used' \in Uses /\ silent' \subseteq Tasks /\ left' \subseteq Tasks
  BY <1>1, Typed
<1> QED
  BY <1>4, <1>5, <1>7, <1>8, StagesStay, OneHandler

LEMMA AnswerEnableType == ASSUME TypeInv, NEW c \in Calls, AnswerEnable(c) PROVE TypeInv'
<1> DEFINE S == {u \in Tasks : task[u].stage = "open"}
<1>1. S \in SUBSET Tasks /\ \A t \in S : task[t].stage # "none"
  OBVIOUS
<1> QED
  BY <1>1, AnswersType DEF AnswerEnable

LEMMA AnswerClearType == ASSUME TypeInv, NEW c \in Calls, AnswerClear(c) PROVE TypeInv'
<1> DEFINE S == {u \in Tasks : Exists(u)}
<1>1. S \in SUBSET Tasks /\ \A t \in S : task[t].stage # "none"
  BY DEF Exists
<1> QED
  BY <1>1, AnswersType DEF AnswerClear

LEMMA FoundTypes ==
  ASSUME TypeOK, NEW c \in Calls, NEW t \in DOMAIN call[c].found
  PROVE  t \in Tasks /\ call[c].found[t] \in TaskStates
<1>1. call[c].found \in Founds
  BY Typed DEF CallStates
<1>2. PICK S \in SUBSET Tasks : call[c].found \in [S -> TaskStates]
  BY <1>1 DEF Founds
<1> QED
  BY <1>2

LEMMA ScheduleAllType == ASSUME TypeInv, NEW c \in Calls, ScheduleAll(c) PROVE TypeInv'
<1>1. TypeOK
  BY DEF TypeInv
<1>2. call' = [call EXCEPT ![c] = Idle]
  BY DEF ScheduleAll, Ends
<1>3. scheduled' \in [Ids -> Times \union {None}]
  <2>1. \A t \in DOMAIN call[c].found : call[c].found[t].date \in Times
    BY <1>1, FoundTypes DEF TaskStates
  <2>2. \A i \in Ids : scheduled[i] \in Times \union {None}
    BY <1>1, Typed
  <2> QED
    BY <2>1, <2>2 DEF ScheduleAll
<1>4. /\ task' \in [Tasks -> TaskStates] /\ silent' \subseteq Tasks /\ left' \subseteq Tasks
      /\ UNCHANGED <<clock, now, keepsId, disabled, used, task>>
  BY <1>1, Typed DEF ScheduleAll
<1> QED
  BY <1>2, <1>3, <1>4, StagesStay, EndsType

LEMMA EraseType == ASSUME TypeInv, NEW c \in Calls, Erase(c) PROVE TypeInv'
<1> DEFINE found == DOMAIN call[c].found
<1>1. TypeOK
  BY DEF TypeInv
<1>2. call' = [call EXCEPT ![c] = Idle] /\ call[c].pc = "erase"
  BY DEF Erase, Ends
<1>3. found \subseteq Tasks
  BY <1>1, FoundTypes
<1>4. task' = [t \in Tasks |-> IF t \in found THEN Gone ELSE task[t]]
  BY DEF Erase
<1> HIDE DEF found
<1>5. task' \in [Tasks -> TaskStates] /\ StagesGoOn
  BY <1>1, <1>4, Typed, NothingTypes DEF StagesGoOn, Gone, NoTask
<1>6. silent' \subseteq Tasks /\ left' \subseteq Tasks
  BY <1>1, <1>3, Typed DEF Erase, found
<1>7. UNCHANGED <<clock, now, keepsId, disabled, used, scheduled>>
  BY DEF Erase
<1>8. scheduled' \in [Ids -> Times \union {None}]
  BY <1>1, <1>7, Typed
<1> QED
  BY <1>2, <1>5, <1>6, <1>7, <1>8, EndsType

LEMMA TickType == ASSUME TypeInv, Tick PROVE TypeInv'
<1>1. UNCHANGED <<now, task, scheduled, keepsId, call, disabled, silent, left, used>>
  BY DEF Tick
<1>2. clock' \in 0 .. MaxTime /\ now \in 0 .. clock'
  BY Constants, Typed DEF TypeInv, Tick
<1>3. TypeOK'
  BY <1>1, <1>2 DEF TypeOK, TypeInv
<1> QED
  BY <1>1, <1>3 DEF TypeInv, OnceCreated

LEMMA RestartType == ASSUME TypeInv, Restart PROVE TypeInv'
<1>1. TypeOK
  BY DEF TypeInv
<1>2. call' = [c \in Calls |-> Idle] /\ UNCHANGED <<clock, task, scheduled, keepsId, disabled>>
  BY DEF Restart
<1>3. now' \in 0 .. clock /\ now' = clock
  BY <1>1, Typed DEF Restart
<1>4. used' \in Uses
  <2>1. used \in Uses
    BY <1>1, Typed
  <2>2. used.restarts < MaxRestarts /\ used' = [used EXCEPT !.restarts = @ + 1]
    BY DEF Restart
  <2>3. used.restarts + 1 \in 0 .. MaxRestarts
    <3>1. used.restarts \in 0 .. MaxRestarts
      BY <2>1 DEF Uses
    <3> QED
      BY <2>2, <3>1, Constants
  <2> QED
    BY <2>1, <2>2, <2>3 DEF Uses
<1>5. InHand \subseteq Tasks
  <2> SUFFICES ASSUME NEW c \in Calls, NEW t \in Concerns(c) PROVE t \in Tasks
    BY DEF InHand
  <2>1. call[c].pc \in OfTasks => call[c].task \in Tasks
    BY DEF TypeInv, OnceCreated
  <2> QED
    BY <2>1 DEF Concerns
<1>6. silent' \subseteq Tasks /\ left' \subseteq Tasks
  BY <1>1, <1>5, Typed DEF Restart
<1>7. TypeOK'
  <2>1. call' \in [Calls -> CallStates]
    BY <1>2, NothingTypes
  <2> QED
    BY <1>1, <1>2, <1>3, <1>4, <1>6, <2>1 DEF TypeOK, CallStates, Founds, Uses
<1>8. \A c \in Calls : OnceCreated(c)'
  BY <1>2, NothingTypes DEF OnceCreated, OfTasks
<1> QED
  BY <1>7, <1>8 DEF TypeInv

LEMMA StutterType == ASSUME TypeInv, UNCHANGED vars PROVE TypeInv'
BY DEF vars, TypeInv, TypeOK, OnceCreated

LEMMA StepType == ASSUME TypeInv, [Next]_vars PROVE TypeInv'
BY CreateType, EditType, CompleteType, DeleteType, CreatedType, UpdateEditedType, FetchType,
   RemindType, MarkType, RenewType, CancelDeletedType, EnableType, AnswerEnableType,
   ScheduleAllType, ClearRecordType, AnswerClearType, EraseType, DeleteDetailsType,
   DisableType, TickType, RestartType, StutterType DEF Next

-----------------------------------------------------------------------------
(* The notifications. *)

\* A handler of the tasks has task t.
Holds(c, t) == call[c].pc \in OfTasks /\ call[c].task = t
Free(t) == \A c \in Calls : ~ Holds(c, t)

\* No other handler than c is about to change something of task t.
Others(c, t) == \A b \in Calls \ {c} : t \notin Concerns(b)
AloneFor(t) == \A c \in Calls : t \in Concerns(c) => Others(c, t)

Due(t) == scheduled[IdOf(t)]
Quiet(t) == ~ Due(t) > now

Rings(t) ==
  task[t].stage = "open" /\ isScheduledEvent(task[t]) =>
    \E i \in {IdOf(t), IdOfNew(t)} : scheduled[i] = task[t].date

Wanted(t) ==
  Due(t) > now => task[t].stage = "open" /\ task[t].remind /\ Due(t) = task[t].date

\* The loop of the switch has the current document of task t.
FoundCurrent(c, t) ==
  call[c].pc = "schedule" /\ t \in DOMAIN call[c].found => call[c].found[t] = task[t]

\* What handler c is about to schedule for task t is what its document says.
RingsAfter(c, t) ==
  /\ Holds(c, t) /\ call[c].pc \in {"created", "fetched"} => call[c].copy = task[t]
  /\ FoundCurrent(c, t)

\* A handler that has the task has cancelled its notification, or still can.
WantedAfter(c, t) ==
  /\ Holds(c, t) =>
       /\ call[c].pc # "remove" => Quiet(t)
       /\ call[c].pc \in {"created", "edited", "renewed", "fetched"} => task[t].stage = "open"
       /\ call[c].pc \in {"created", "fetched"} => call[c].copy = task[t]
       /\ call[c].pc = "remove" =>
            (Due(t) > now => call[c].copy.remind /\ Due(t) = call[c].copy.date)
  /\ FoundCurrent(c, t)
  /\ call[c].pc = "schedule" /\ t \in DOMAIN call[c].found => task[t].stage = "open"

\* A task that is not silent is in the hands of one handler at a time; when none of
\* the tasks' handlers has it, it rings.
RingFor(t) ==
  /\ AloneFor(t)
  /\ Free(t) => Rings(t)
  /\ \A c \in Calls : RingsAfter(c, t)

WantedFor(t) ==
  /\ AloneFor(t)
  /\ Free(t) => Wanted(t)
  /\ \A c \in Calls : WantedAfter(c, t)

ReminderInv ==
  /\ TypeInv
  /\ \A t \in Tasks \ silent : RingFor(t)
  /\ keepsId => \A t \in Tasks \ left : WantedFor(t)

-----------------------------------------------------------------------------
(* What a step leaves alone, and what it has to show. *)

LEMMA TimeTypes ==
  ASSUME TypeOK
  PROVE  /\ now \in Nat /\ clock \in Nat /\ now <= clock
         /\ \A t \in Tasks : Due(t) \in Nat /\ scheduled[IdOfNew(t)] \in Nat
         /\ \A t \in Tasks : task[t] \in TaskStates /\ task[t].date \in Nat
<1>1. clock \in 0 .. MaxTime /\ now \in 0 .. clock
  BY Typed
<1>2. now \in Nat /\ clock \in Nat /\ now <= clock
  BY <1>1, Constants
<1>3. scheduled \in [Ids -> Times \union {None}] /\ Times \union {None} \subseteq Nat
  BY Typed, Constants DEF None
<1>4. \A t \in Tasks : task[t] \in TaskStates /\ task[t].date \in Times
  BY Typed DEF TaskStates
<1> QED
  BY <1>2, <1>3, <1>4, IdTypes, Constants DEF Due

\* The tasks that a step does not touch.
LEMMA Untouched ==
  ASSUME NEW t \in Tasks,
         \A b \in Calls : \/ call'[b] = call[b]
                          \/ t \notin Concerns(b) /\ t \notin Concerns(b)',
         task'[t] = task[t], now' = now, keepsId' = keepsId,
         scheduled'[IdOf(t)] = scheduled[IdOf(t)],
         scheduled'[IdOfNew(t)] = scheduled[IdOfNew(t)]
  PROVE  /\ RingFor(t) => RingFor(t)'
         /\ WantedFor(t) => WantedFor(t)'
<1>1. \A b \in Calls : t \in Concerns(b)' <=> t \in Concerns(b)
  BY DEF Concerns
<1>2. AloneFor(t) => AloneFor(t)'
  BY <1>1 DEF AloneFor, Others
<1>3. \A b \in Calls : t \notin Concerns(b) => ~ Holds(b, t)
  BY DEF Concerns, Holds, OfTasks
<1>4. \A b \in Calls : t \notin Concerns(b)' => ~ Holds(b, t)'
  BY DEF Concerns, Holds, OfTasks
<1>5. \A b \in Calls : Holds(b, t)' <=> Holds(b, t)
  BY <1>3, <1>4 DEF Holds
<1>6. Free(t)' <=> Free(t)
  BY <1>5 DEF Free
<1>7. (Rings(t) => Rings(t)') /\ (Wanted(t) => Wanted(t)') /\ (Quiet(t) => Quiet(t)')
  BY DEF Rings, Wanted, Quiet, Due, IdOf, IdOfNew, isScheduledEvent
<1>8. ASSUME NEW b \in Calls
      PROVE  (RingsAfter(b, t) => RingsAfter(b, t)') /\ (WantedAfter(b, t) => WantedAfter(b, t)')
  <2>1. CASE call'[b] = call[b]
    BY <2>1 DEF RingsAfter, WantedAfter, Holds, FoundCurrent, Quiet, Due, IdOf
  <2>2. CASE t \notin Concerns(b)'
    <3>1. ~ Holds(b, t)' /\ ((call[b].pc)' = "schedule" => FALSE)
      BY <1>4, <2>2 DEF Concerns, OfTasks
    <3> QED
      BY <3>1 DEF RingsAfter, WantedAfter, FoundCurrent
  <2> QED
    BY <2>1, <2>2
<1> QED
  BY <1>2, <1>6, <1>7, <1>8 DEF RingFor, WantedFor

\* The task that only the handler of the step has in hand.
LEMMA Own ==
  ASSUME NEW c \in Calls, NEW t \in Tasks, Others(c, t),
         \A b \in Calls \ {c} : call'[b] = call[b]
  PROVE  /\ (~ Holds(c, t)' => Rings(t)') /\ RingsAfter(c, t)' => RingFor(t)'
         /\ (~ Holds(c, t)' => Wanted(t)') /\ WantedAfter(c, t)' => WantedFor(t)'
<1>1. \A b \in Calls \ {c} : t \notin Concerns(b)'
  BY DEF Others, Concerns
<1>2. AloneFor(t)'
  BY <1>1 DEF AloneFor, Others
<1>3. \A b \in Calls \ {c} : ~ Holds(b, t)' /\ (call[b].pc)' # "schedule"
  BY <1>1 DEF Concerns, Holds, OfTasks
<1>4. \A b \in Calls \ {c} : RingsAfter(b, t)' /\ WantedAfter(b, t)'
  BY <1>3 DEF RingsAfter, WantedAfter, FoundCurrent
<1>5. Free(t)' => ~ Holds(c, t)'
  BY DEF Free
<1> QED
  BY <1>2, <1>4, <1>5 DEF RingFor, WantedFor

\* What a step of handler c has to show of a task that it touches.
Kept(c, t) ==
  /\ t \notin silent' => /\ Others(c, t)
                         /\ ~ Holds(c, t)' => Rings(t)'
                         /\ RingsAfter(c, t)'
  /\ keepsId /\ t \notin left' => /\ Others(c, t)
                                  /\ ~ Holds(c, t)' => Wanted(t)'
                                  /\ WantedAfter(c, t)'

\* A step that changes nothing of the other tasks than u, whose histories grow.
OnlyOf(u) ==
  /\ now' = now /\ keepsId' = keepsId
  /\ \A t \in Tasks : t \in left => t \in left'
  /\ \A t \in Tasks \ {u} : /\ task'[t] = task[t]
                            /\ scheduled'[IdOf(t)] = scheduled[IdOf(t)]
                            /\ scheduled'[IdOfNew(t)] = scheduled[IdOfNew(t)]
                            /\ t \in silent => t \in silent'

\* Handler state k is idle, or has task u.
NoneBut(k, u) ==
  \/ k.pc = "idle"
  \/ k.pc \in OfTasks /\ k.task = u

\* The step of a handler of task u.
LEMMA TaskStep ==
  ASSUME ReminderInv, TypeInv', NEW c \in Calls, NEW u \in Tasks, NEW k \in CallStates,
         call' = [call EXCEPT ![c] = k],
         NoneBut(call[c], u), NoneBut(k, u),
         OnlyOf(u), Kept(c, u)
  PROVE  ReminderInv'
<1>1. call'[c] = k /\ \A b \in Calls \ {c} : call'[b] = call[b]
  BY Typed DEF ReminderInv, TypeInv
<1>2. ASSUME NEW t \in Tasks \ {u} PROVE t \notin Concerns(c) /\ t \notin Concerns(c)'
  BY <1>1 DEF Concerns, NoneBut
<1>3. ASSUME NEW t \in Tasks \ {u}
      PROVE  (RingFor(t) => RingFor(t)') /\ (WantedFor(t) => WantedFor(t)')
  <2>1. \A b \in Calls : \/ call'[b] = call[b]
                         \/ t \notin Concerns(b) /\ t \notin Concerns(b)'
    BY <1>1, <1>2
  <2> QED
    BY <2>1, Untouched DEF OnlyOf
<1>4. u \notin silent' => RingFor(u)'
  BY <1>1, Own DEF Kept
<1>5. keepsId /\ u \notin left' => WantedFor(u)'
  BY <1>1, Own DEF Kept
<1>6. \A t \in Tasks \ silent' : RingFor(t)'
  BY <1>3, <1>4 DEF ReminderInv, OnlyOf
<1>7. keepsId => \A t \in Tasks \ left' : WantedFor(t)'
  BY <1>3, <1>5 DEF ReminderInv, OnlyOf
<1> QED
  BY <1>6, <1>7 DEF ReminderInv, OnlyOf

\* The step of a handler of all tasks.
LEMMA SettingStep ==
  ASSUME ReminderInv, TypeInv', NEW c \in Calls, NEW k \in CallStates, call' = [call EXCEPT ![c] = k],
         keepsId' = keepsId, \A t \in Tasks : Kept(c, t)
  PROVE  ReminderInv'
<1>1. \A b \in Calls \ {c} : call'[b] = call[b]
  BY Typed DEF ReminderInv, TypeInv
<1>2. \A t \in Tasks \ silent' : RingFor(t)'
  BY <1>1, Own DEF Kept
<1>3. keepsId => \A t \in Tasks \ left' : WantedFor(t)'
  BY <1>1, Own DEF Kept
<1> QED
  BY <1>2, <1>3 DEF ReminderInv

-----------------------------------------------------------------------------
(* What a handler finds. *)

\* A handler that starts: the tasks that nobody has in hand are in order.
LEMMA Starting ==
  ASSUME ReminderInv, NEW c \in Calls, NEW ts \in SUBSET Tasks, Overtakes(ts), NEW t \in ts
  PROVE  /\ t \notin silent' => t \notin silent /\ Others(c, t) /\ Rings(t)
         /\ keepsId /\ t \notin left' => t \notin left /\ Others(c, t) /\ Wanted(t)
         /\ silent \subseteq silent' /\ left \subseteq left'
<1>1. /\ silent' = silent \union (ts \intersect InHand)
      /\ left' = left \union (ts \intersect InHand)
  BY DEF Overtakes
<1>2. t \notin InHand => Others(c, t) /\ Free(t)
  BY DEF InHand, Others, Free, Holds, Concerns, OfTasks
<1> QED
  BY <1>1, <1>2 DEF ReminderInv, RingFor, WantedFor

\* A handler that goes on: nobody else has the tasks that it concerns in hand.
LEMMA GoingOn ==
  ASSUME ReminderInv, NEW c \in Calls, NEW t \in Concerns(c), t \in Tasks
  PROVE  /\ t \notin silent => Others(c, t) /\ RingsAfter(c, t)
         /\ keepsId /\ t \notin left => Others(c, t) /\ WantedAfter(c, t)
BY DEF ReminderInv, RingFor, WantedFor, AloneFor

\* The task of a handler.
LEMMA Held ==
  ASSUME TypeInv, NEW c \in Calls, call[c].pc \in OfTasks
  PROVE  /\ call[c].task \in Tasks /\ call[c].task \in Concerns(c)
         /\ Holds(c, call[c].task) /\ call[c].copy \in TaskStates
<1>1. call[c].copy \in TaskStates
  BY Typed DEF TypeInv, CallStates
<1> QED
  BY <1>1 DEF TypeInv, OnceCreated, Concerns, Holds, OfTasks

\* Cancelling a notification that is due as its document says.
LEMMA Cancels ==
  ASSUME TypeOK, NEW t \in Tasks, NEW copy \in TaskStates, removeNotification(IdOf(t), copy),
         now' = now
  PROVE  /\ (Due(t) > now => copy.remind /\ Due(t) = copy.date) => Quiet(t)'
         /\ \A u \in Tasks \ {t} : /\ scheduled'[IdOf(u)] = scheduled[IdOf(u)]
                                   /\ scheduled'[IdOfNew(u)] = scheduled[IdOfNew(u)]
<1>1. scheduled \in [Ids -> Times \union {None}] /\ now \in Nat /\ Due(t) \in Nat
  BY Typed, TimeTypes
<1>2. CASE isScheduledEvent(copy)
  <2>1. scheduled' = [scheduled EXCEPT ![IdOf(t)] = None]
    BY <1>2 DEF removeNotification
  <2>2. scheduled'[IdOf(t)] = 0
    BY <1>1, <2>1, IdTypes DEF None
  <2>3. Quiet(t)'
    BY <1>1, <2>2 DEF Quiet, Due, IdOf
  <2> QED
    BY <1>1, <2>1, <2>3, IdTypes
<1>3. CASE ~ isScheduledEvent(copy)
  <2>1. scheduled' = scheduled
    BY <1>3 DEF removeNotification
  <2> QED
    BY <1>3, <2>1 DEF isScheduledEvent, Quiet, Due, IdOf
<1> QED
  BY <1>2, <1>3

\* Scheduling what the document of an open task says.
LEMMA Schedules ==
  ASSUME TypeOK, NEW t \in Tasks, NEW i \in {IdOf(t), IdOfNew(t)}, addNotification(i, task[t]),
         task' = task, now' = now, keepsId' = keepsId
  PROVE  /\ Rings(t)'
         /\ keepsId /\ Quiet(t) /\ task[t].stage = "open" => Wanted(t)'
         /\ \A u \in Tasks \ {t} : /\ scheduled'[IdOf(u)] = scheduled[IdOf(u)]
                                   /\ scheduled'[IdOfNew(u)] = scheduled[IdOfNew(u)]
<1>1. scheduled \in [Ids -> Times \union {None}] /\ i \in Ids
  BY Typed, IdTypes
<1>2. CASE isScheduledEvent(task[t])
  <2>1. scheduled' = [scheduled EXCEPT ![i] = task[t].date]
    BY <1>2 DEF addNotification
  <2>2. scheduled'[i] = task[t].date
    BY <1>1, <2>1
  <2>3. Rings(t)'
    BY <2>2 DEF Rings, IdOf, IdOfNew
  <2>4. keepsId /\ task[t].stage = "open" => Wanted(t)'
    BY <1>2, <2>2, IdTypes DEF Wanted, Due, IdOf, IdOfNew, isScheduledEvent
  <2> QED
    BY <1>1, <2>1, <2>3, <2>4, IdTypes
<1>3. CASE ~ isScheduledEvent(task[t])
  <2>1. scheduled' = scheduled
    BY <1>3 DEF addNotification
  <2> QED
    BY <1>3, <2>1 DEF Rings, Wanted, Quiet, Due, IdOf, isScheduledEvent
<1> QED
  BY <1>2, <1>3

-----------------------------------------------------------------------------
(* The steps. *)

LEMMA InitReminds == Init => ReminderInv
<1> SUFFICES ASSUME Init PROVE ReminderInv
  OBVIOUS
<1>1. TypeInv
  BY InitType
<1>2. \A c \in Calls : call[c].pc = "idle" /\ call[c] = Idle
  BY NothingTypes DEF Init
<1>3. \A c \in Calls, t \in Tasks : /\ t \notin Concerns(c) /\ ~ Holds(c, t)
                                    /\ RingsAfter(c, t) /\ WantedAfter(c, t)
  BY <1>2 DEF Concerns, Holds, OfTasks, RingsAfter, WantedAfter, FoundCurrent
<1>4. \A t \in Tasks : AloneFor(t)
  BY <1>3 DEF AloneFor
<1>5. \A t \in Tasks : Rings(t)
  BY DEF Init, Rings, NoTask
<1>6. \A t \in Tasks : Wanted(t)
  BY IdTypes DEF Init, Wanted, Due, None
<1> QED
  BY <1>1, <1>3, <1>4, <1>5, <1>6 DEF ReminderInv, RingFor, WantedFor

\* The handlers that are started with a task.
LEMMA StartsReminds ==
  ASSUME ReminderInv, TypeInv', NEW c \in Calls, NEW t \in Tasks,
         NEW pc \in OfTasks \ {"created", "fetched", "edited", "renewed"},
         Starts(c, pc, t), OnlyOf(t),
         Wanted(t) /\ pc # "remove" => Quiet(t)',
         Wanted(t) /\ pc = "remove" =>
           (Due(t)' > now => task[t].remind /\ Due(t)' = task[t].date)
  PROVE  ReminderInv'
<1> DEFINE k == [Idle EXCEPT !.pc = pc, !.task = t, !.copy = task[t]]
<1>1. k.pc = pc /\ k.task = t /\ k.copy = task[t]
  BY DEF Idle
<1>11. k \in CallStates
  BY Typed, NothingTypes DEF CallStates, ReminderInv, TypeInv
<1>2. call' = [call EXCEPT ![c] = k] /\ call[c].pc = "idle"
  BY NothingTypes DEF Starts
<1> HIDE DEF k
<1>3. call'[c] = k
  BY <1>2, Typed DEF ReminderInv, TypeInv
<1>4. /\ t \notin silent' => t \notin silent /\ Others(c, t) /\ Rings(t)
      /\ keepsId /\ t \notin left' => t \notin left /\ Others(c, t) /\ Wanted(t)
      /\ silent \subseteq silent' /\ left \subseteq left'
  BY Starting DEF Starts
<1>5. Holds(c, t)'
  BY <1>1, <1>3 DEF Holds
<1>6. RingsAfter(c, t)' /\ FoundCurrent(c, t)' /\ (call[c].pc)' # "schedule"
  BY <1>1, <1>3 DEF RingsAfter, FoundCurrent, OfTasks
<1>7. Wanted(t) => WantedAfter(c, t)'
  BY <1>1, <1>3, <1>6 DEF WantedAfter, Due, OnlyOf
<1>8. Kept(c, t)
  BY <1>4, <1>5, <1>6, <1>7 DEF Kept
<1>10. NoneBut(call[c], t)
  BY <1>2 DEF NoneBut
<1>12. k.pc \in OfTasks
  BY <1>1
<1>13. NoneBut(k, t)
  BY <1>1, <1>12 DEF NoneBut
<1> QED
  BY <1>2, <1>8, <1>10, <1>11, <1>13, TaskStep

\* The handlers that end with a task.
LEMMA EndsReminds ==
  ASSUME ReminderInv, TypeInv', NEW c \in Calls, call' = [call EXCEPT ![c] = Idle],
         NEW t \in Tasks, t = call[c].task, call[c].pc \in OfTasks,
         OnlyOf(t),
         t \notin silent' => Others(c, t) /\ Rings(t)',
         keepsId /\ t \notin left' => Wanted(t)'
  PROVE  ReminderInv'
<1>1. call'[c] = Idle
  BY Typed DEF ReminderInv, TypeInv
<1>2. RingsAfter(c, t)' /\ WantedAfter(c, t)'
  BY <1>1, NothingTypes DEF RingsAfter, WantedAfter, FoundCurrent, Holds, OfTasks
<1>3. keepsId /\ t \notin left' => Others(c, t)
  BY Held, GoingOn DEF ReminderInv, OnlyOf
<1>4. Kept(c, t)
  BY <1>2, <1>3 DEF Kept
<1>5. NoneBut(call[c], t) /\ Idle \in CallStates
  BY NothingTypes DEF NoneBut
<1>6. Idle.pc = "idle"
  BY NothingTypes
<1>7. NoneBut(Idle, t)
  BY <1>6 DEF NoneBut
<1> QED
  BY <1>4, <1>5, <1>7, TaskStep

\* The handlers that go on with a task that they have in hand.
LEMMA GoesOnReminds ==
  ASSUME ReminderInv, TypeInv', NEW c \in Calls, NEW k \in CallStates, call' = [call EXCEPT ![c] = k],
         NEW t \in Tasks, t = call[c].task, call[c].pc \in OfTasks,
         k.pc \in OfTasks \ {"remove", "created"}, k.task = t,
         \A u \in Tasks \ {t} : task'[u] = task[u],
         UNCHANGED <<now, scheduled, keepsId, silent>>, left \subseteq left',
         call[c].pc # "remove",
         k.pc = "fetched" => k.copy = task'[t],
         keepsId /\ t \notin left' /\ WantedAfter(c, t) =>
           (k.pc \in {"edited", "renewed", "fetched"} => task'[t].stage = "open")
  PROVE  ReminderInv'
<1>1. call'[c] = k
  BY Typed DEF ReminderInv, TypeInv
<1>2. /\ t \notin silent => Others(c, t)
      /\ keepsId /\ t \notin left => Others(c, t) /\ WantedAfter(c, t)
  BY Held, GoingOn DEF ReminderInv
<1>3. Holds(c, t) /\ Holds(c, t)'
  BY <1>1 DEF Holds
<1>4. RingsAfter(c, t)' /\ FoundCurrent(c, t)' /\ (call[c].pc)' # "schedule"
  BY <1>1 DEF RingsAfter, FoundCurrent, OfTasks
<1>5. WantedAfter(c, t) => Quiet(t)'
  BY <1>3 DEF WantedAfter, Quiet, Due, IdOf
<1>6. keepsId /\ t \notin left' => WantedAfter(c, t)'
  BY <1>1, <1>2, <1>4, <1>5 DEF WantedAfter
<1>7. Kept(c, t)
  BY <1>2, <1>3, <1>4, <1>6 DEF Kept
<1>8. OnlyOf(t)
  BY DEF OnlyOf, IdOf, IdOfNew
<1>9. NoneBut(call[c], t) /\ NoneBut(k, t)
  BY DEF NoneBut
<1> QED
  BY <1>7, <1>8, <1>9, TaskStep

LEMMA CreateReminds ==
  ASSUME ReminderInv, NEW c \in Calls, NEW t \in Tasks, Create(c, t) PROVE ReminderInv'
<1>1. TypeInv /\ TypeOK /\ TypeInv'
  BY CreateType DEF ReminderInv, TypeInv
<1>2. PICK date \in Times, remind \in BOOLEAN, repeats \in BOOLEAN :
        LET new == [stage |-> "open", date |-> date, remind |-> remind, repeats |-> repeats]
        IN  /\ task' = [task EXCEPT ![t] = new]
            /\ call' = [call EXCEPT ![c] = [Idle EXCEPT !.pc = "created", !.task = t, !.copy = new]]
  BY DEF Create
<1> DEFINE new == [stage |-> "open", date |-> date, remind |-> remind, repeats |-> repeats]
           k   == [Idle EXCEPT !.pc = "created", !.task = t, !.copy = new]
<1>3. new \in TaskStates /\ new.stage = "open"
  BY DEF TaskStates
<1>4. task' = [task EXCEPT ![t] = new]
  BY <1>2
<1> HIDE DEF new
<1>5. k \in CallStates /\ k.pc = "created" /\ k.task = t /\ k.copy = new /\ k.pc \in OfTasks
  BY <1>3, NothingTypes DEF CallStates, OfTasks, Idle
<1>6. call' = [call EXCEPT ![c] = k]
  BY <1>2 DEF new
<1> HIDE DEF k
<1>7. call'[c] = k /\ task'[t] = new
  BY <1>1, <1>4, <1>6, Typed
<1>8. UNCHANGED <<now, scheduled, keepsId>>
  BY DEF Create
<1>9. /\ t \notin silent' => Others(c, t)
      /\ keepsId /\ t \notin left' => Others(c, t) /\ Wanted(t)
      /\ silent \subseteq silent' /\ left \subseteq left'
  BY Starting DEF Create
<1>10. OnlyOf(t)
  BY <1>1, <1>4, <1>8, <1>9, Typed DEF OnlyOf, IdOf, IdOfNew
<1>11. Holds(c, t)' /\ RingsAfter(c, t)'
  BY <1>5, <1>7 DEF Holds, RingsAfter, FoundCurrent
<1>12. Wanted(t) => WantedAfter(c, t)'
  <2>1. task[t].stage = "none"
    BY DEF Create, NoTask
  <2>2. Wanted(t) => Quiet(t)'
    BY <1>8, <2>1 DEF Wanted, Quiet, Due, IdOf
  <2> QED
    BY <1>3, <1>5, <1>7, <2>2 DEF WantedAfter, FoundCurrent
<1>13. Kept(c, t)
  BY <1>9, <1>11, <1>12 DEF Kept
<1>14. NoneBut(call[c], t) /\ NoneBut(k, t)
  BY <1>5, NothingTypes DEF NoneBut, Create
<1> QED
  BY <1>1, <1>5, <1>6, <1>10, <1>13, <1>14, TaskStep

LEMMA CreatedReminds ==
  ASSUME ReminderInv, NEW c \in Calls, Created(c) PROVE ReminderInv'
<1>1. TypeInv /\ TypeOK /\ TypeInv'
  BY CreatedType DEF ReminderInv, TypeInv
<1>2. call[c].pc = "created" /\ call' = [call EXCEPT ![c] = Idle] /\ call[c].pc \in OfTasks
  BY DEF Created, Ends, OfTasks
<1>3. PICK t \in Tasks : /\ t = call[c].task /\ t \in Concerns(c) /\ Holds(c, t)
                         /\ call[c].copy \in TaskStates
  BY <1>1, <1>2, Held
<1>4. /\ t \notin silent => Others(c, t) /\ RingsAfter(c, t)
      /\ keepsId /\ t \notin left => Others(c, t) /\ WantedAfter(c, t)
  BY <1>3, GoingOn
<1>5. UNCHANGED <<now, task, keepsId, silent, left>>
  BY DEF Created
<1>6. \A u \in Tasks \ {t} : /\ scheduled'[IdOf(u)] = scheduled[IdOf(u)]
                             /\ scheduled'[IdOfNew(u)] = scheduled[IdOfNew(u)]
  <2>1. scheduled \in [Ids -> Times \union {None}]
    BY <1>1, Typed
  <2> QED
    BY <1>3, <2>1, IdTypes DEF Created, addNotification
<1>7. call[c].copy = task[t] => Rings(t)' /\ (keepsId /\ Quiet(t) /\ task[t].stage = "open" => Wanted(t)')
  BY <1>1, <1>3, <1>5, Schedules DEF Created
<1>8. OnlyOf(t)
  BY <1>5, <1>6 DEF OnlyOf
<1>9. t \notin silent' => Others(c, t) /\ Rings(t)'
  BY <1>2, <1>3, <1>4, <1>5, <1>7 DEF RingsAfter
<1>10. keepsId /\ t \notin left' => Wanted(t)'
  BY <1>2, <1>3, <1>4, <1>5, <1>7 DEF WantedAfter
<1> QED
  BY <1>1, <1>2, <1>3, <1>5, <1>8, <1>9, <1>10, EndsReminds

LEMMA EditReminds ==
  ASSUME ReminderInv, NEW c \in Calls, NEW t \in Tasks, Edit(c, t) PROVE ReminderInv'
<1>1. TypeInv /\ TypeOK /\ TypeInv' /\ task[t] \in TaskStates
  BY EditType, Typed DEF ReminderInv, TypeInv
<1>2. Starts(c, "edit", t) /\ UNCHANGED <<now, task, keepsId>>
  BY DEF Edit
<1>3. /\ (Due(t) > now => task[t].remind /\ Due(t) = task[t].date) => Quiet(t)'
      /\ \A u \in Tasks \ {t} : /\ scheduled'[IdOf(u)] = scheduled[IdOf(u)]
                                /\ scheduled'[IdOfNew(u)] = scheduled[IdOfNew(u)]
  BY <1>1, <1>2, Cancels DEF Edit
<1>4. OnlyOf(t)
  <2>1. silent \subseteq silent' /\ left \subseteq left'
    BY <1>2 DEF Starts, Overtakes
  <2> QED
    BY <1>2, <1>3, <2>1 DEF OnlyOf
<1>5. Wanted(t) => Quiet(t)'
  BY <1>3 DEF Wanted
<1>6. "edit" \in OfTasks \ {"created", "fetched", "edited", "renewed"} /\ "edit" # "remove"
  BY DEF OfTasks
<1> QED
  BY <1>1, <1>2, <1>4, <1>5, <1>6, StartsReminds

LEMMA UpdateEditedReminds ==
  ASSUME ReminderInv, NEW c \in Calls, UpdateEdited(c) PROVE ReminderInv'
<1>1. TypeInv /\ TypeOK /\ TypeInv'
  BY UpdateEditedType DEF ReminderInv, TypeInv
<1>2. call[c].pc = "edit" /\ call[c].pc \in OfTasks /\ call[c] \in CallStates
  BY <1>1, Typed DEF UpdateEdited, OfTasks
<1>3. PICK t \in Tasks : /\ t = call[c].task /\ t \in Concerns(c) /\ Holds(c, t)
  BY <1>1, <1>2, Held
<1>4. UNCHANGED <<now, scheduled, keepsId, silent>>
  BY DEF UpdateEdited
<1>5. CASE /\ Exists(t) /\ call' = [call EXCEPT ![c].pc = "edited"]
           /\ \E date \in Times, remind, repeats \in BOOLEAN :
                 task' = [task EXCEPT ![t] = [stage |-> @.stage, date |-> date,
                                              remind |-> remind, repeats |-> repeats]]
           /\ left' = IF task[t].stage = "done" THEN left \union {t} ELSE left
  <2>1. PICK date \in Times, remind \in BOOLEAN, repeats \in BOOLEAN :
          task' = [task EXCEPT ![t] = [stage |-> task[t].stage, date |-> date,
                                       remind |-> remind, repeats |-> repeats]]
    BY <1>5
  <2>2. (\A u \in Tasks \ {t} : task'[u] = task[u]) /\ task'[t].stage = task[t].stage
    BY <1>1, <1>3, <2>1, Typed
  <2> DEFINE k == [call[c] EXCEPT !.pc = "edited"]
  <2>3. k \in CallStates /\ k.pc = "edited" /\ k.task = t
    BY <1>2, <1>3 DEF CallStates, OfTasks
  <2>4. call' = [call EXCEPT ![c] = k]
    BY <1>1, <1>5, Typed
  <2> HIDE DEF k
  <2>5. left \subseteq left' /\ (t \notin left' => task'[t].stage = "open")
    BY <1>5, <2>2 DEF Exists
  <2>6. k.pc \in OfTasks \ {"remove", "created"} /\ k.pc # "fetched" /\ call[c].pc # "remove"
    BY <1>2, <2>3 DEF OfTasks
  <2> QED
    BY <1>1, <1>2, <1>3, <1>4, <2>2, <2>3, <2>4, <2>5, <2>6, GoesOnReminds
<1>6. CASE ~ Exists(t) /\ call' = [call EXCEPT ![c] = Idle] /\ UNCHANGED <<task, left>>
  <2>1. OnlyOf(t)
    BY <1>4, <1>6 DEF OnlyOf, IdOf, IdOfNew
  <2>2. t \notin silent' => Others(c, t) /\ Rings(t)'
    BY <1>3, <1>4, <1>6, GoingOn DEF Rings, Exists
  <2>3. keepsId /\ t \notin left' => Quiet(t)
    BY <1>2, <1>3, <1>6, GoingOn DEF WantedAfter
  <2>4. keepsId /\ t \notin left' => Wanted(t)'
    BY <1>4, <2>3 DEF Quiet, Wanted, Due, IdOf
  <2> QED
    BY <1>1, <1>2, <1>3, <1>6, <2>1, <2>2, <2>4, EndsReminds
<1> QED
  BY <1>3, <1>5, <1>6 DEF UpdateEdited

LEMMA FetchReminds ==
  ASSUME ReminderInv, NEW c \in Calls, Fetch(c) PROVE ReminderInv'
<1>1. TypeInv /\ TypeOK /\ TypeInv'
  BY FetchType DEF ReminderInv, TypeInv
<1>2. call[c].pc \in {"edited", "renewed"} /\ call[c].pc \in OfTasks /\ call[c] \in CallStates
  BY <1>1, Typed DEF Fetch, OfTasks
<1>3. PICK t \in Tasks : /\ t = call[c].task /\ t \in Concerns(c) /\ Holds(c, t)
  BY <1>1, <1>2, Held
<1>4. UNCHANGED <<now, scheduled, keepsId, silent, left, task>>
  BY DEF Fetch
<1>5. CASE Exists(t)
  <2> DEFINE k == [call[c] EXCEPT !.pc = "fetched", !.copy = task[t]]
  <2>1. task[t] \in TaskStates
    BY <1>1, <1>3, Typed
  <2>2. k \in CallStates /\ k.pc = "fetched" /\ k.task = t /\ k.copy = task[t]
    BY <1>2, <1>3, <2>1 DEF CallStates, OfTasks
  <2>3. call' = [call EXCEPT ![c] = k]
    BY <1>3, <1>5 DEF Fetch
  <2> HIDE DEF k
  <2>4. k.pc \in OfTasks \ {"remove", "created"} /\ call[c].pc # "remove"
    BY <1>2, <2>2 DEF OfTasks
  <2>5. WantedAfter(c, t) => task[t].stage = "open"
    BY <1>2, <1>3 DEF WantedAfter
  <2>6. task'[t] = task[t] /\ \A u \in Tasks \ {t} : task'[u] = task[u]
    BY <1>4
  <2> QED
    BY <1>1, <1>2, <1>3, <1>4, <2>2, <2>3, <2>4, <2>5, <2>6, GoesOnReminds
<1>6. CASE ~ Exists(t)
  <2>1. OnlyOf(t)
    BY <1>4 DEF OnlyOf, IdOf, IdOfNew
  <2>2. t \notin silent' => Others(c, t) /\ Rings(t)'
    BY <1>3, <1>4, <1>6, GoingOn DEF Rings, Exists
  <2>3. keepsId /\ t \notin left' => Quiet(t)
    BY <1>2, <1>3, <1>4, GoingOn DEF WantedAfter
  <2>4. keepsId /\ t \notin left' => Wanted(t)'
    BY <1>4, <2>3 DEF Quiet, Wanted, Due, IdOf
  <2>5. call' = [call EXCEPT ![c] = Idle]
    BY <1>3, <1>6 DEF Fetch
  <2> QED
    BY <1>1, <1>2, <1>3, <2>1, <2>2, <2>4, <2>5, EndsReminds
<1> QED
  BY <1>5, <1>6

LEMMA RemindReminds ==
  ASSUME ReminderInv, NEW c \in Calls, Remind(c) PROVE ReminderInv'
<1>1. TypeInv /\ TypeOK /\ TypeInv'
  BY RemindType DEF ReminderInv, TypeInv
<1>2. call[c].pc = "fetched" /\ call' = [call EXCEPT ![c] = Idle] /\ call[c].pc \in OfTasks
  BY DEF Remind, Ends, OfTasks
<1>3. PICK t \in Tasks : /\ t = call[c].task /\ t \in Concerns(c) /\ Holds(c, t)
                         /\ call[c].copy \in TaskStates
  BY <1>1, <1>2, Held
<1>4. /\ t \notin silent => Others(c, t) /\ RingsAfter(c, t)
      /\ keepsId /\ t \notin left => Others(c, t) /\ WantedAfter(c, t)
  BY <1>3, GoingOn
<1>5. /\ UNCHANGED <<now, task, keepsId, left>>
      /\ silent' = IF call[c].copy = task[t] THEN silent \ ({t} \ InHandOfOthers(c)) ELSE silent
  BY <1>3 DEF Remind
<1>6. \A u \in Tasks \ {t} : /\ scheduled'[IdOf(u)] = scheduled[IdOf(u)]
                             /\ scheduled'[IdOfNew(u)] = scheduled[IdOfNew(u)]
  <2>1. scheduled \in [Ids -> Times \union {None}]
    BY <1>1, Typed
  <2> QED
    BY <1>3, <2>1, IdTypes DEF Remind, addNotification
<1>7. call[c].copy = task[t] => Rings(t)' /\ (keepsId /\ Quiet(t) /\ task[t].stage = "open" => Wanted(t)')
  BY <1>1, <1>3, <1>5, Schedules DEF Remind
<1>8. OnlyOf(t)
  BY <1>5, <1>6 DEF OnlyOf
<1>9. t \notin silent' => Others(c, t) /\ Rings(t)'
  <2>1. CASE t \in silent
    <3>1. t \notin silent' => call[c].copy = task[t] /\ t \notin InHandOfOthers(c)
      BY <1>5, <2>1
    <3>2. t \notin InHandOfOthers(c) => Others(c, t)
      BY DEF InHandOfOthers, Others
    <3> QED
      BY <1>7, <3>1, <3>2
  <2>2. CASE t \notin silent
    BY <1>2, <1>3, <1>4, <1>7, <2>2 DEF RingsAfter
  <2> QED
    BY <2>1, <2>2
<1>10. keepsId /\ t \notin left' => Wanted(t)'
  BY <1>2, <1>3, <1>4, <1>5, <1>7 DEF WantedAfter
<1> QED
  BY <1>1, <1>2, <1>3, <1>5, <1>8, <1>9, <1>10, EndsReminds

LEMMA CompleteReminds ==
  ASSUME ReminderInv, NEW c \in Calls, NEW t \in Tasks, Complete(c, t) PROVE ReminderInv'
<1>1. TypeInv /\ TypeOK /\ TypeInv' /\ task[t] \in TaskStates
  BY CompleteType, Typed DEF ReminderInv, TypeInv
<1>2. Starts(c, "removed", t) /\ UNCHANGED <<now, task, keepsId>>
  BY DEF Complete
<1>3. /\ (Due(t) > now => task[t].remind /\ Due(t) = task[t].date) => Quiet(t)'
      /\ \A u \in Tasks \ {t} : /\ scheduled'[IdOf(u)] = scheduled[IdOf(u)]
                                /\ scheduled'[IdOfNew(u)] = scheduled[IdOfNew(u)]
  BY <1>1, <1>2, Cancels DEF Complete
<1>4. OnlyOf(t)
  <2>1. silent \subseteq silent' /\ left \subseteq left'
    BY <1>2 DEF Starts, Overtakes
  <2> QED
    BY <1>2, <1>3, <2>1 DEF OnlyOf
<1>5. Wanted(t) => Quiet(t)'
  BY <1>3 DEF Wanted
<1>6. "removed" \in OfTasks \ {"created", "fetched", "edited", "renewed"} /\ "removed" # "remove"
  BY DEF OfTasks
<1> QED
  BY <1>1, <1>2, <1>4, <1>5, <1>6, StartsReminds

LEMMA MarkReminds ==
  ASSUME ReminderInv, NEW c \in Calls, Mark(c) PROVE ReminderInv'
<1>1. TypeInv /\ TypeOK /\ TypeInv'
  BY MarkType DEF ReminderInv, TypeInv
<1>2. call[c].pc = "removed" /\ call[c].pc \in OfTasks /\ call[c] \in CallStates
  BY <1>1, Typed DEF Mark, OfTasks
<1>3. PICK t \in Tasks : t = call[c].task /\ t \in Concerns(c) /\ Holds(c, t)
  BY <1>1, <1>2, Held
<1>4. /\ UNCHANGED <<now, scheduled, keepsId, silent, left>>
      /\ task' = IF Exists(t) THEN [task EXCEPT ![t].stage = "done"] ELSE task
  BY <1>3 DEF Mark
<1>5. (\A u \in Tasks \ {t} : task'[u] = task[u]) /\ task'[t].stage # "open"
  BY <1>1, <1>4, Typed DEF Exists, TaskStates
<1>6. CASE Exists(t) /\ call[c].copy.repeats
  <2> DEFINE k == [call[c] EXCEPT !.pc = "marked"]
  <2>1. k \in CallStates /\ k.pc = "marked" /\ k.task = t
    BY <1>2, <1>3 DEF CallStates, OfTasks
  <2>2. call' = [call EXCEPT ![c] = k]
    BY <1>3, <1>6 DEF Mark
  <2> HIDE DEF k
  <2>3. /\ k.pc \in OfTasks \ {"remove", "created"} /\ call[c].pc # "remove"
        /\ k.pc \notin {"edited", "renewed", "fetched"}
    BY <1>2, <2>1 DEF OfTasks
  <2> QED
    BY <1>1, <1>2, <1>3, <1>4, <1>5, <2>1, <2>2, <2>3, GoesOnReminds
<1>7. CASE ~ (Exists(t) /\ call[c].copy.repeats)
  <2>1. OnlyOf(t)
    BY <1>4, <1>5 DEF OnlyOf, IdOf, IdOfNew
  <2>2. t \notin silent' => Others(c, t) /\ Rings(t)'
    BY <1>3, <1>4, <1>5, GoingOn DEF Rings
  <2>3. keepsId /\ t \notin left' => Quiet(t)
    BY <1>2, <1>3, <1>4, GoingOn DEF WantedAfter
  <2>4. keepsId /\ t \notin left' => Wanted(t)'
    BY <1>4, <2>3 DEF Quiet, Wanted, Due, IdOf
  <2>5. call' = [call EXCEPT ![c] = Idle]
    BY <1>3, <1>7 DEF Mark
  <2> QED
    BY <1>1, <1>2, <1>3, <2>1, <2>2, <2>4, <2>5, EndsReminds
<1> QED
  BY <1>6, <1>7

LEMMA RenewReminds ==
  ASSUME ReminderInv, NEW c \in Calls, Renew(c) PROVE ReminderInv'
<1>1. TypeInv /\ TypeOK /\ TypeInv'
  BY RenewType DEF ReminderInv, TypeInv
<1>2. call[c].pc = "marked" /\ call[c].pc \in OfTasks /\ call[c] \in CallStates
  BY <1>1, Typed DEF Renew, OfTasks
<1>3. PICK t \in Tasks : t = call[c].task /\ t \in Concerns(c) /\ Holds(c, t)
  BY <1>1, <1>2, Held
<1>4. UNCHANGED <<now, scheduled, keepsId, silent, left>>
  BY DEF Renew
<1>5. CASE Exists(t) /\ call' = [call EXCEPT ![c].pc = "renewed"]
           /\ \E next \in Times : task' = [task EXCEPT ![t].stage = "open", ![t].date = next]
  <2>1. PICK next \in Times : task' = [task EXCEPT ![t].stage = "open", ![t].date = next]
    BY <1>5
  <2>2. task' = [task EXCEPT ![t] = [task[t] EXCEPT !.stage = "open", !.date = next]]
    BY <1>1, <2>1, Typed
  <2>3. (\A u \in Tasks \ {t} : task'[u] = task[u]) /\ task'[t].stage = "open"
    BY <1>1, <2>2, Typed DEF TaskStates
  <2> DEFINE k == [call[c] EXCEPT !.pc = "renewed"]
  <2>4. k \in CallStates /\ k.pc = "renewed" /\ k.task = t
    BY <1>2, <1>3 DEF CallStates, OfTasks
  <2>5. call' = [call EXCEPT ![c] = k]
    BY <1>1, <1>5, Typed
  <2> HIDE DEF k
  <2>6. k.pc \in OfTasks \ {"remove", "created"} /\ k.pc # "fetched" /\ call[c].pc # "remove"
    BY <1>2, <2>4 DEF OfTasks
  <2> QED
    BY <1>1, <1>2, <1>3, <1>4, <2>3, <2>4, <2>5, <2>6, GoesOnReminds
<1>6. CASE ~ Exists(t) /\ call' = [call EXCEPT ![c] = Idle] /\ UNCHANGED task
  <2>1. OnlyOf(t)
    BY <1>4, <1>6 DEF OnlyOf, IdOf, IdOfNew
  <2>2. t \notin silent' => Others(c, t) /\ Rings(t)'
    BY <1>3, <1>4, <1>6, GoingOn DEF Rings, Exists
  <2>3. keepsId /\ t \notin left' => Quiet(t)
    BY <1>2, <1>3, <1>4, GoingOn DEF WantedAfter
  <2>4. keepsId /\ t \notin left' => Wanted(t)'
    BY <1>4, <2>3 DEF Quiet, Wanted, Due, IdOf
  <2> QED
    BY <1>1, <1>2, <1>3, <1>6, <2>1, <2>2, <2>4, EndsReminds
<1> QED
  BY <1>3, <1>5, <1>6 DEF Renew

LEMMA DeleteReminds ==
  ASSUME ReminderInv, NEW c \in Calls, NEW t \in Tasks, Delete(c, t) PROVE ReminderInv'
<1>1. TypeInv /\ TypeOK /\ TypeInv'
  BY DeleteType DEF ReminderInv, TypeInv
<1>2. Starts(c, "remove", t) /\ UNCHANGED <<now, scheduled, keepsId>>
  BY DEF Delete
<1>3. OnlyOf(t)
  <2>1. silent \subseteq silent' /\ left \subseteq left'
    BY <1>2 DEF Starts, Overtakes
  <2>2. task \in [Tasks -> TaskStates] /\ task' = [task EXCEPT ![t] = Gone]
    BY <1>1, Typed DEF Delete
  <2> QED
    BY <1>2, <2>1, <2>2 DEF OnlyOf, IdOf, IdOfNew
<1>4. Wanted(t) => (Due(t)' > now => task[t].remind /\ Due(t)' = task[t].date)
  BY <1>2 DEF Wanted, Due, IdOf
<1>5. "remove" \in OfTasks \ {"created", "fetched", "edited", "renewed"}
  BY DEF OfTasks
<1> QED
  BY <1>1, <1>2, <1>3, <1>4, <1>5, StartsReminds

LEMMA CancelDeletedReminds ==
  ASSUME ReminderInv, NEW c \in Calls, CancelDeleted(c) PROVE ReminderInv'
<1>1. TypeInv /\ TypeOK /\ TypeInv'
  BY CancelDeletedType DEF ReminderInv, TypeInv
<1>2. call[c].pc = "remove" /\ call' = [call EXCEPT ![c] = Idle] /\ call[c].pc \in OfTasks
  BY DEF CancelDeleted, Ends, OfTasks
<1>3. PICK t \in Tasks : /\ t = call[c].task /\ t \in Concerns(c) /\ Holds(c, t)
                         /\ call[c].copy \in TaskStates
  BY <1>1, <1>2, Held
<1>4. /\ t \notin silent => Others(c, t)
      /\ keepsId /\ t \notin left => WantedAfter(c, t)
  BY <1>3, GoingOn
<1>5. UNCHANGED <<now, task, keepsId, silent, left>>
  BY DEF CancelDeleted
<1>6. /\ (Due(t) > now => call[c].copy.remind /\ Due(t) = call[c].copy.date) => Quiet(t)'
      /\ \A u \in Tasks \ {t} : /\ scheduled'[IdOf(u)] = scheduled[IdOf(u)]
                                /\ scheduled'[IdOfNew(u)] = scheduled[IdOfNew(u)]
  BY <1>1, <1>3, <1>5, Cancels DEF CancelDeleted
<1>7. OnlyOf(t)
  BY <1>5, <1>6 DEF OnlyOf
<1>8. Rings(t)'
  BY <1>1, <1>2, <1>3, <1>5 DEF TypeInv, OnceCreated, Rings
<1>9. keepsId /\ t \notin left' => Wanted(t)'
  BY <1>2, <1>3, <1>4, <1>5, <1>6 DEF WantedAfter, Quiet, Wanted
<1> QED
  BY <1>1, <1>2, <1>3, <1>4, <1>5, <1>7, <1>8, <1>9, EndsReminds

LEMMA DeleteDetailsReminds ==
  ASSUME ReminderInv, NEW t \in Tasks, DeleteDetails(t) PROVE ReminderInv'
<1>1. TypeInv /\ TypeOK /\ TypeInv' /\ task[t] \in TaskStates
  BY DeleteDetailsType, Typed DEF ReminderInv, TypeInv
<1>2. UNCHANGED <<now, task, keepsId, call, left>> /\ t \notin InHand /\ silent' = silent \union {t}
  BY DEF DeleteDetails
<1>3. /\ (Due(t) > now => task[t].remind /\ Due(t) = task[t].date) => Quiet(t)'
      /\ \A u \in Tasks \ {t} : /\ scheduled'[IdOf(u)] = scheduled[IdOf(u)]
                                /\ scheduled'[IdOfNew(u)] = scheduled[IdOfNew(u)]
  BY <1>1, <1>2, Cancels DEF DeleteDetails
<1>4. ASSUME NEW u \in Tasks \ {t}
      PROVE  (RingFor(u) => RingFor(u)') /\ (WantedFor(u) => WantedFor(u)')
  BY <1>2, <1>3, Untouched
<1>5. WantedFor(t) => WantedFor(t)'
  <2>1. \A c \in Calls : t \notin Concerns(c) /\ t \notin Concerns(c)'
    BY <1>2 DEF InHand, Concerns
  <2>2. \A c \in Calls : ~ Holds(c, t) /\ ~ Holds(c, t)' /\ (call[c].pc)' # "schedule"
    BY <1>2, <2>1 DEF Concerns, Holds, OfTasks
  <2>3. WantedFor(t) => Wanted(t)'
    BY <1>3, <2>2 DEF WantedFor, Free, Wanted, Quiet
  <2> QED
    BY <2>1, <2>2, <2>3 DEF WantedFor, WantedAfter, FoundCurrent, AloneFor
<1> QED
  BY <1>1, <1>2, <1>4, <1>5 DEF ReminderInv

\* Handlers of the settings, which have none of the tasks.
LEMMA SettingHolds ==
  ASSUME NEW c \in Calls, call[c].pc \in OfSettings, NEW t
  PROVE  ~ Holds(c, t)
BY DEF Holds, OfSettings, OfTasks

LEMMA SettingGoesOn ==
  ASSUME ReminderInv, NEW c \in Calls, call[c].pc \in OfSettings, NEW t \in Tasks
  PROVE  /\ t \notin silent => Others(c, t) /\ RingsAfter(c, t) /\ Rings(t)
         /\ keepsId /\ t \notin left => Others(c, t) /\ WantedAfter(c, t) /\ Wanted(t)
<1>1. t \in Concerns(c)
  BY DEF Concerns, OfSettings, OfTasks
<1>2. Others(c, t) => Free(t)
  BY SettingHolds DEF Others, Free, Holds, Concerns, OfTasks
<1>3. /\ t \notin silent => Others(c, t) /\ RingsAfter(c, t)
      /\ keepsId /\ t \notin left => Others(c, t) /\ WantedAfter(c, t)
  BY <1>1, GoingOn
<1> QED
  BY <1>2, <1>3 DEF ReminderInv, RingFor, WantedFor

\* The tasks that nothing happens to.
LEMMA NothingHappens ==
  ASSUME NEW t \in Tasks, task'[t] = task[t], UNCHANGED <<now, scheduled, keepsId>>
  PROVE  (Rings(t) => Rings(t)') /\ (Wanted(t) => Wanted(t)')
BY DEF Rings, Wanted, Due, IdOf, IdOfNew, isScheduledEvent

LEMMA StartsSettingReminds ==
  ASSUME ReminderInv, TypeInv', NEW c \in Calls, NEW pc \in {"enable", "clear"},
         StartsSetting(c, pc), UNCHANGED <<now, task, scheduled, keepsId>>
  PROVE  ReminderInv'
<1> DEFINE k == [Idle EXCEPT !.pc = pc]
<1>1. k \in CallStates /\ k.pc = pc
  BY NothingTypes DEF CallStates, OfSettings, Idle
<1>2. call' = [call EXCEPT ![c] = k] /\ Overtakes(Tasks)
  BY DEF StartsSetting
<1> HIDE DEF k
<1>3. call'[c] = k
  BY <1>2, Typed DEF ReminderInv, TypeInv
<1>4. ASSUME NEW t \in Tasks PROVE Kept(c, t)
  <2>1. /\ t \notin silent' => Others(c, t) /\ Rings(t)
        /\ keepsId /\ t \notin left' => Others(c, t) /\ Wanted(t)
    BY <1>2, Starting
  <2>2. (Rings(t) => Rings(t)') /\ (Wanted(t) => Wanted(t)')
    BY NothingHappens
  <2>3. RingsAfter(c, t)' /\ WantedAfter(c, t)'
    BY <1>1, <1>3 DEF RingsAfter, WantedAfter, FoundCurrent, Holds, OfTasks
  <2> QED
    BY <2>1, <2>2, <2>3 DEF Kept
<1> QED
  BY <1>1, <1>2, <1>4, SettingStep

LEMMA EnableReminds ==
  ASSUME ReminderInv, NEW c \in Calls, Enable(c) PROVE ReminderInv'
<1>1. TypeInv'
  BY EnableType DEF ReminderInv
<1> QED
  BY <1>1, StartsSettingReminds DEF Enable

LEMMA ClearRecordReminds ==
  ASSUME ReminderInv, NEW c \in Calls, ClearRecord(c) PROVE ReminderInv'
<1>1. TypeInv'
  BY ClearRecordType DEF ReminderInv
<1> QED
  BY <1>1, StartsSettingReminds DEF ClearRecord

\* Their queries.
LEMMA AnswersReminds ==
  ASSUME ReminderInv, TypeInv', NEW c \in Calls, NEW pc \in {"schedule", "erase"},
         NEW S \in SUBSET Tasks, call[c].pc \in OfSettings,
         call' = [call EXCEPT ![c].pc = pc, ![c].found = [t \in S |-> task[t]]],
         pc = "schedule" => \A t \in S : task[t].stage = "open",
         UNCHANGED <<now, task, scheduled, keepsId, silent, left>>
  PROVE  ReminderInv'
<1> DEFINE found == [t \in S |-> task[t]]
           k     == [call[c] EXCEPT !.pc = pc, !.found = found]
<1>1. TypeOK
  BY DEF ReminderInv, TypeInv
<1>2. DOMAIN found = S /\ \A t \in S : found[t] = task[t]
  OBVIOUS
<1>3. found \in Founds
  <2>1. found \in [S -> TaskStates]
    BY <1>1, Typed
  <2> QED
    BY <2>1 DEF Founds
<1> HIDE DEF found
<1>4. k \in CallStates /\ k.pc = pc /\ k.found = found
  BY <1>1, <1>3, Typed DEF CallStates, OfSettings
<1>5. call' = [call EXCEPT ![c] = k]
  BY <1>1, Typed DEF found
<1> HIDE DEF k
<1>6. call'[c] = k
  BY <1>1, <1>5, Typed
<1>7. ASSUME NEW t \in Tasks PROVE Kept(c, t)
  <2>1. /\ t \notin silent' => Others(c, t) /\ Rings(t)
        /\ keepsId /\ t \notin left' => Others(c, t) /\ Wanted(t)
    BY SettingGoesOn
  <2>2. (Rings(t) => Rings(t)') /\ (Wanted(t) => Wanted(t)')
    BY NothingHappens
  <2>3. ~ Holds(c, t)'
    BY <1>4, <1>6 DEF Holds, OfTasks
  <2>4. FoundCurrent(c, t)'
    BY <1>2, <1>4, <1>6 DEF FoundCurrent
  <2>5. (call[c].pc)' = "schedule" /\ t \in DOMAIN (call[c].found)' => task'[t].stage = "open"
    BY <1>2, <1>4, <1>6
  <2>6. RingsAfter(c, t)' /\ WantedAfter(c, t)'
    BY <2>3, <2>4, <2>5 DEF RingsAfter, WantedAfter
  <2> QED
    BY <2>1, <2>2, <2>6 DEF Kept
<1> QED
  BY <1>4, <1>5, <1>7, SettingStep

LEMMA AnswerEnableReminds ==
  ASSUME ReminderInv, NEW c \in Calls, AnswerEnable(c) PROVE ReminderInv'
<1> DEFINE S == {u \in Tasks : task[u].stage = "open"}
<1>1. TypeInv' /\ call[c].pc \in OfSettings
  BY AnswerEnableType DEF ReminderInv, AnswerEnable, OfSettings
<1>2. S \in SUBSET Tasks /\ \A t \in S : task[t].stage = "open"
  OBVIOUS
<1> QED
  BY <1>1, <1>2, AnswersReminds DEF AnswerEnable

LEMMA AnswerClearReminds ==
  ASSUME ReminderInv, NEW c \in Calls, AnswerClear(c) PROVE ReminderInv'
<1> DEFINE S == {u \in Tasks : Exists(u)}
<1>1. TypeInv' /\ call[c].pc \in OfSettings
  BY AnswerClearType DEF ReminderInv, AnswerClear, OfSettings
<1>2. S \in SUBSET Tasks /\ "erase" # "schedule"
  OBVIOUS
<1> QED
  BY <1>1, <1>2, AnswersReminds DEF AnswerClear

LEMMA ScheduleAllReminds ==
  ASSUME ReminderInv, NEW c \in Calls, ScheduleAll(c) PROVE ReminderInv'
<1> DEFINE found == call[c].found
<1>1. TypeInv /\ TypeOK /\ TypeInv'
  BY ScheduleAllType DEF ReminderInv, TypeInv
<1>2. /\ call[c].pc = "schedule" /\ call[c].pc \in OfSettings
      /\ call' = [call EXCEPT ![c] = Idle]
  BY DEF ScheduleAll, Ends, OfSettings
<1>3. call'[c] = Idle
  BY <1>1, <1>2, Typed
<1>4. UNCHANGED <<now, task, keepsId, left>>
  BY DEF ScheduleAll
<1>5. silent' = silent \ ({t \in DOMAIN found : found[t] = task[t]} \ InHandOfOthers(c))
  BY DEF ScheduleAll
<1>6. ASSUME NEW t \in Tasks
      PROVE  /\ scheduled'[IdOf(t)] = IF t \in DOMAIN found /\ isScheduledEvent(found[t])
                                        THEN found[t].date ELSE scheduled[IdOf(t)]
             /\ scheduled'[<<"data", t>>] = scheduled[<<"data", t>>]
  <2>1. IdOf(t) \in Ids /\ <<"data", t>> \in Ids
    BY DEF IdOf, Ids
  <2> QED
    BY <2>1 DEF ScheduleAll, IdOf
<1>7. ASSUME NEW t \in Tasks PROVE Kept(c, t)
  <2>1. /\ t \notin silent => Others(c, t) /\ RingsAfter(c, t) /\ Rings(t)
        /\ keepsId /\ t \notin left => Others(c, t) /\ WantedAfter(c, t) /\ Wanted(t)
    BY <1>2, SettingGoesOn
  <2>2. RingsAfter(c, t)' /\ WantedAfter(c, t)'
    BY <1>3, NothingTypes DEF RingsAfter, WantedAfter, FoundCurrent, Holds, OfTasks
  <2>3. t \in DOMAIN found /\ found[t] = task[t] => Rings(t)'
    <3> SUFFICES ASSUME t \in DOMAIN found, found[t] = task[t], isScheduledEvent(task[t])
                 PROVE  scheduled'[IdOf(t)] = task[t].date
      BY <1>4 DEF Rings, IdOf, IdOfNew, isScheduledEvent
    <3> QED
      BY <1>6
  <2>4. t \notin DOMAIN found => (Rings(t) => Rings(t)')
    <3> SUFFICES ASSUME t \notin DOMAIN found PROVE Rings(t) => Rings(t)'
      OBVIOUS
    <3>1. scheduled'[IdOf(t)] = scheduled[IdOf(t)] /\ scheduled'[IdOfNew(t)] = scheduled[IdOfNew(t)]
      BY <1>6 DEF IdOf, IdOfNew
    <3> QED
      BY <1>4, <3>1 DEF Rings, IdOf, IdOfNew, isScheduledEvent
  <2>5. t \notin silent' => Others(c, t) /\ Rings(t)'
    <3>1. CASE t \in silent
      <4>1. t \notin silent' => t \in DOMAIN found /\ found[t] = task[t] /\ t \notin InHandOfOthers(c)
        BY <1>5, <3>1
      <4>2. t \notin InHandOfOthers(c) => Others(c, t)
        BY DEF InHandOfOthers, Others
      <4> QED
        BY <2>3, <4>1, <4>2
    <3>2. CASE t \notin silent
      BY <1>2, <2>1, <2>3, <2>4, <3>2 DEF RingsAfter, FoundCurrent
    <3> QED
      BY <3>1, <3>2
  <2>6. keepsId /\ t \notin left' => Others(c, t) /\ Wanted(t)'
    <3> SUFFICES ASSUME keepsId, t \notin left' PROVE Others(c, t) /\ Wanted(t)'
      OBVIOUS
    <3>1. Others(c, t) /\ WantedAfter(c, t) /\ Wanted(t)
      BY <1>4, <2>1
    <3>2. CASE t \in DOMAIN found /\ isScheduledEvent(found[t])
      <4>1. found[t] = task[t] /\ task[t].stage = "open"
        BY <1>2, <3>1, <3>2 DEF WantedAfter, FoundCurrent
      <4>2. scheduled'[IdOf(t)] = task[t].date
        BY <1>6, <3>2, <4>1
      <4> QED
        BY <1>4, <3>1, <3>2, <4>1, <4>2 DEF Wanted, Due, IdOf, isScheduledEvent
    <3>3. CASE ~ (t \in DOMAIN found /\ isScheduledEvent(found[t]))
      <4>1. scheduled'[IdOf(t)] = scheduled[IdOf(t)]
        BY <1>6, <3>3
      <4> QED
        BY <1>4, <3>1, <4>1 DEF Wanted, Due, IdOf
    <3> QED
      BY <3>2, <3>3
  <2> QED
    BY <2>2, <2>5, <2>6 DEF Kept
<1> QED
  BY <1>1, <1>2, <1>4, <1>7, NothingTypes, SettingStep

LEMMA EraseReminds ==
  ASSUME ReminderInv, NEW c \in Calls, Erase(c) PROVE ReminderInv'
<1>1. TypeInv /\ TypeOK /\ TypeInv'
  BY EraseType DEF ReminderInv, TypeInv
<1>2. /\ call[c].pc \in OfSettings /\ call' = [call EXCEPT ![c] = Idle]
  BY DEF Erase, Ends, OfSettings
<1>3. call'[c] = Idle
  BY <1>1, <1>2, Typed
<1>4. PICK found : found = DOMAIN call[c].found
  OBVIOUS
<1>5. /\ task' = [t \in Tasks |-> IF t \in found THEN Gone ELSE task[t]]
      /\ left' = left \union found
      /\ UNCHANGED <<now, scheduled, keepsId, silent>>
  BY <1>4 DEF Erase
<1>6. ASSUME NEW t \in Tasks PROVE Kept(c, t)
  <2>1. /\ t \notin silent => Others(c, t) /\ Rings(t)
        /\ keepsId /\ t \notin left => Others(c, t) /\ Wanted(t)
    BY <1>2, SettingGoesOn
  <2>2. RingsAfter(c, t)' /\ WantedAfter(c, t)'
    BY <1>3, NothingTypes DEF RingsAfter, WantedAfter, FoundCurrent, Holds, OfTasks
  <2>3. CASE t \in found
    <3>1. task'[t] = Gone /\ t \in left'
      BY <1>5, <2>3
    <3>2. Rings(t)'
      BY <3>1 DEF Rings, Gone, NoTask
    <3> QED
      BY <1>5, <2>1, <2>2, <3>1, <3>2 DEF Kept
  <2>4. CASE t \notin found
    <3>1. task'[t] = task[t] /\ (t \notin left' => t \notin left)
      BY <1>5, <2>4
    <3>2. (Rings(t) => Rings(t)') /\ (Wanted(t) => Wanted(t)')
      BY <1>5, <3>1, NothingHappens
    <3> QED
      BY <1>5, <2>1, <2>2, <3>1, <3>2 DEF Kept
  <2> QED
    BY <2>3, <2>4
<1> QED
  BY <1>1, <1>2, <1>5, <1>6, NothingTypes, SettingStep

\* Steps that change none of what the notifications depend on.
LEMMA Aside ==
  ASSUME ReminderInv, TypeInv', UNCHANGED <<now, task, scheduled, keepsId, call, silent, left>>
  PROVE  ReminderInv'
<1>1. ASSUME NEW t \in Tasks
      PROVE  (RingFor(t) => RingFor(t)') /\ (WantedFor(t) => WantedFor(t)')
  BY Untouched
<1> QED
  BY <1>1 DEF ReminderInv

LEMMA DisableReminds == ASSUME ReminderInv, Disable PROVE ReminderInv'
<1>1. TypeInv'
  BY DisableType DEF ReminderInv
<1> QED
  BY <1>1, Aside DEF Disable

LEMMA TickReminds == ASSUME ReminderInv, Tick PROVE ReminderInv'
<1>1. TypeInv'
  BY TickType DEF ReminderInv
<1> QED
  BY <1>1, Aside DEF Tick

LEMMA StutterReminds == ASSUME ReminderInv, UNCHANGED vars PROVE ReminderInv'
<1>1. TypeInv'
  BY StutterType DEF ReminderInv
<1> QED
  BY <1>1, Aside DEF vars

LEMMA RestartReminds == ASSUME ReminderInv, Restart PROVE ReminderInv'
<1>1. TypeInv /\ TypeOK /\ TypeInv'
  BY RestartType DEF ReminderInv, TypeInv
<1>2. /\ call' = [c \in Calls |-> Idle] /\ UNCHANGED <<task, scheduled, keepsId>>
      /\ now' = clock /\ silent' = silent \union InHand /\ left' = left \union InHand
  BY DEF Restart
<1>3. now \in Nat /\ now' \in Nat /\ now <= now'
  BY <1>1, <1>2, TimeTypes
<1>4. \A c \in Calls : call'[c] = Idle
  BY <1>2
<1>5. \A c \in Calls, t \in Tasks : /\ t \notin Concerns(c)' /\ ~ Holds(c, t)'
                                    /\ RingsAfter(c, t)' /\ WantedAfter(c, t)'
  BY <1>4, NothingTypes DEF Concerns, Holds, OfTasks, RingsAfter, WantedAfter, FoundCurrent
<1>6. ASSUME NEW t \in Tasks, t \notin InHand
      PROVE  (RingFor(t) => RingFor(t)') /\ (WantedFor(t) => WantedFor(t)')
  <2>1. Free(t)
    BY <1>6 DEF InHand, Free, Holds, Concerns, OfTasks
  <2>2. Due(t) \in Nat /\ task[t].date \in Nat
    BY <1>1, TimeTypes
  <2>3. isScheduledEvent(task[t])' => isScheduledEvent(task[t])
    BY <1>2, <1>3, <2>2 DEF isScheduledEvent
  <2>4. Rings(t) => Rings(t)'
    BY <1>2, <2>3 DEF Rings, IdOf, IdOfNew
  <2>5. Wanted(t) => Wanted(t)'
    BY <1>2, <1>3, <2>2 DEF Wanted, Due, IdOf
  <2> QED
    BY <1>5, <2>1, <2>4, <2>5 DEF RingFor, WantedFor, AloneFor
<1> QED
  BY <1>1, <1>2, <1>6 DEF ReminderInv

LEMMA StepReminds == ASSUME ReminderInv, [Next]_vars PROVE ReminderInv'
BY CreateReminds, EditReminds, CompleteReminds, DeleteReminds, CreatedReminds,
   UpdateEditedReminds, FetchReminds, RemindReminds, MarkReminds, RenewReminds,
   CancelDeletedReminds, EnableReminds, AnswerEnableReminds, ScheduleAllReminds,
   ClearRecordReminds, AnswerClearReminds, EraseReminds, DeleteDetailsReminds,
   DisableReminds, TickReminds, RestartReminds, StutterReminds DEF Next

-----------------------------------------------------------------------------
(* Theorems. *)

\* What is due, and what the handlers are about to do, agree in every state with the
\* documents of the tasks, but for those noted as silent or left.
THEOREM Invariance == Spec => []ReminderInv
<1>1. Init => ReminderInv
  BY InitReminds
<1>2. ReminderInv /\ [Next]_vars => ReminderInv'
  BY StepReminds
<1> QED
  BY <1>1, <1>2, PTL DEF Spec

\* The state has its types: no notification without a time, no count over its bound.
THEOREM TypeCorrect == Spec => []TypeOK
<1>1. ReminderInv => TypeOK
  BY DEF ReminderInv, TypeInv
<1> QED
  BY <1>1, Invariance, PTL

\* Nothing that the form, the completion, the deletion, the settings and a kill do in
\* any order makes an open task that no handler has in hand miss its notification,
\* unless it is noted as silent.
THEOREM OpenTasksAreReminded == Spec => []OpenTasksRing
<1>1. ReminderInv => OpenTasksRing
  <2> SUFFICES ASSUME ReminderInv, NEW t \in Tasks \ (silent \union InHand) PROVE Rings(t)
    BY DEF OpenTasksRing, Rings
  <2>1. Free(t)
    BY DEF InHand, Free, Holds, Concerns, OfTasks
  <2> QED
    BY <2>1 DEF ReminderInv, RingFor
<1> QED
  BY <1>1, Invariance, PTL

\* If create keeps the id in the data, a notification that is ahead is for an open
\* task with a reminder and has its date, unless the task is noted as left.
THEOREM NotificationsAreWanted == Spec => []AheadIsWanted
<1>1. ReminderInv => AheadIsWanted
  <2> SUFFICES ASSUME ReminderInv, keepsId, NEW t \in Tasks \ (left \union InHand)
               PROVE  Wanted(t)
    BY DEF AheadIsWanted, Wanted, Due
  <2>1. Free(t)
    BY DEF InHand, Free, Holds, Concerns, OfTasks
  <2> QED
    BY <2>1 DEF ReminderInv, WantedFor
<1> QED
  BY <1>1, Invariance, PTL
=============================================================================
