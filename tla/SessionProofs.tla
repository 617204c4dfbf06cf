--------------------------- MODULE SessionProofs ---------------------------
(* Theorems about Session, for any accounts, tasks and invocations. *)
EXTENDS Session, SequenceTheorems, TLAPS

SignInSteps == Asking \cup {"signed", "joinedGoogle", "joinedFacebook", "registered"}
DeletionSteps == {"erasing", "dismissing", "dismissed"}

(* The last event on its way, and without one `user` and the greeting, show *)
(* the current user.                                                        *)
CurrentInv == /\ events = <<>> => user = auth /\ greeting \subseteq {auth}
              /\ events # <<>> => events[Len(events)] = auth

(* An invocation that still has its screen has the one that it came from. *)
ScreenInv ==
  \A c \in Calls : calls[c].mounted =>
    /\ calls[c].pc \in SignInSteps => screen = "login"
    /\ calls[c].pc \in DeletionSteps => screen = "settings"

(* One that was signed in and still has its screen precedes the event. *)
EarlyInv ==
  \A c \in Calls : calls[c].mounted /\ calls[c].pc \in SignInSteps \ Asking => events # <<>>

(* Whoever signs in or up, deletes an account or clears it, is somebody. *)
WhoInv == \A c \in Calls : calls[c].pc \notin {"idle", "leaving"} =>
            calls[c].who \in Accounts /\ calls[c].at \in Accounts

(* Lists are shown on their screen, for the user. *)
ListInv == /\ screen # "tasks" => shown = {} /\ asked = None
           /\ asked \in {None, user}
           /\ ShownAreOwn

(* taskDBS has the path of somebody who has opened tasks in this run. *)
PathInv == /\ path # Unset => path \in seen
           /\ screen = "tasks" => path # Unset
           /\ TasksAreFiled

SessionInv == /\ TypeOK /\ WhoInv /\ CurrentInv /\ ScreenInv /\ EarlyInv
              /\ BadHomeIsBrief /\ ListInv /\ PathInv

LEMMA InitInv == Init => SessionInv
  <1> SUFFICES ASSUME Init PROVE SessionInv
    OBVIOUS
  <1> USE NamesAssumption, BoundsAssumption DEF Init
  <1>1. TypeOK
    BY DEF TypeOK, Users, Steps, Idle, NoTask
  <1>2. CurrentInv
    BY DEF CurrentInv
  <1>3. ScreenInv /\ EarlyInv /\ WhoInv
    BY DEF ScreenInv, EarlyInv, WhoInv, Idle
  <1>4. BadHomeIsBrief /\ ListInv
    BY DEF BadHomeIsBrief, ListInv, ShownAreOwn
  <1>5. PathInv
    BY DEF PathInv, TasksAreFiled, NoTask
  <1> QED
    BY <1>1, <1>2, <1>3, <1>4, <1>5 DEF SessionInv

(* What appending an event, and delivering the first one, do. *)
LEMMA AppendLast ==
  ASSUME NEW s \in Seq(Users), NEW e \in Users
  PROVE  LET t == Append(s, e) IN t \in Seq(Users) /\ t # <<>> /\ t[Len(t)] = e
  OBVIOUS

LEMMA TailLast ==
  ASSUME NEW s \in Seq(Users), s # <<>>
  PROVE  /\ Head(s) \in Users /\ Tail(s) \in Seq(Users)
         /\ Tail(s) = <<>> => Head(s) = s[Len(s)]
         /\ Tail(s) # <<>> => Tail(s)[Len(Tail(s))] = s[Len(s)]
  <1>1. /\ Head(s) \in Users /\ Tail(s) \in Seq(Users)
        /\ Len(Tail(s)) = Len(s) - 1
        /\ \A i \in 1 .. Len(Tail(s)) : Tail(s)[i] = s[i + 1]
    BY HeadTailProperties
  <1>2. Len(s) \in Nat \ {0}
    BY EmptySeq
  <1>3. ASSUME Tail(s) = <<>> PROVE Head(s) = s[Len(s)]
    <2>1. Len(Tail(s)) = 0
      BY <1>3, EmptySeq
    <2>2. Len(s) - 1 = 0
      BY <1>1, <2>1, Zenon
    <2>4. \A n \in Nat : n - 1 = 0 => n = 1
      OBVIOUS
    <2>5. Len(s) = 1
      BY <1>2, <2>2, <2>4, Zenon
    <2>3. Head(s) = s[1]
      OBVIOUS
    <2> QED
      BY <2>3, <2>5, Zenon
  <1>4. ASSUME Tail(s) # <<>> PROVE Tail(s)[Len(Tail(s))] = s[Len(s)]
    <2>1. Len(Tail(s)) \in Nat \ {0}
      BY <1>1, <1>4, EmptySeq
    <2> QED
      BY <1>1, <1>2, <2>1
  <1> QED
    BY <1>1, <1>3, <1>4

-----------------------------------------------------------------------------
(* Types. *)

Call == [pc : Steps, who : Users, at : Users, new : BOOLEAN, mounted : BOOLEAN]
CallsType == calls \in [Calls -> Call]
UsedType == used \in [signIns : 0..MaxSignIns, hurries : 0..MaxHurries,
                      interrupts : 0..MaxInterrupts]
StreamType == auth \in Users /\ events \in Seq(Users)
RestType ==
  /\ user \in Users
  /\ account \in [Accounts -> {"unborn", "alive", "deleted"}]
  /\ doomed \subseteq Accounts
  /\ greeting \subseteq Users
  /\ first \in BOOLEAN
  /\ screen \in {"start", "onboard", "login", "home", "tasks", "settings"}
  /\ home \in {"none", "loading", "stuck", "broken", "loaded"}
  /\ path \in Users \cup {Unset}
  /\ docs \subseteq Accounts
  /\ filed \in [Tasks -> [owner : Users, path : Users, alone : BOOLEAN]]
  /\ asked \in Users
  /\ shown \subseteq [task : Tasks, owner : Users]
  /\ seen \subseteq Accounts
  /\ reset \subseteq Accounts
  /\ wronged \subseteq Accounts
  /\ farewell \subseteq Accounts

LEMMA TypeParts == TypeOK <=> CallsType /\ UsedType /\ StreamType /\ RestType
  BY DEF TypeOK, CallsType, Call, UsedType, StreamType, RestType

(* What the handlers do to an invocation gives an invocation. *)
LEMMA IdleIsCall == Idle \in Call
  BY DEF Idle, Call, Steps, Users

LEMMA SetCall ==
  ASSUME CallsType, NEW c \in Calls, NEW r \in Call, calls' = [calls EXCEPT ![c] = r]
  PROVE  CallsType'
  BY DEF CallsType

LEMMA StepCall ==
  ASSUME CallsType, NEW c \in Calls, NEW pc \in Steps, NEW at \in Users, NEW new \in BOOLEAN
  PROVE  /\ [calls[c] EXCEPT !.pc = pc] \in Call
         /\ [calls[c] EXCEPT !.pc = pc, !.new = new] \in Call
         /\ [calls[c] EXCEPT !.pc = pc, !.at = at] \in Call
         /\ [calls[c] EXCEPT !.mounted = FALSE] \in Call
         /\ calls[c] \in Call
  <1>1. calls[c] \in Call
    BY DEF CallsType
  <1> QED
    BY <1>1 DEF Call

LEMMA BeginCall ==
  ASSUME CallsType, NEW c \in Calls, NEW step \in Steps, NEW who \in Users, Begin(c, step, who)
  PROVE  CallsType'
  <1>1. [pc |-> step, who |-> who, at |-> who, new |-> FALSE, mounted |-> TRUE] \in Call
    BY DEF Call
  <1> QED
    BY <1>1, SetCall DEF Begin

LEMMA EndCall ==
  ASSUME CallsType, NEW c \in Calls, calls' = [calls EXCEPT ![c] = Idle]
  PROVE  CallsType'
  BY IdleIsCall, SetCall

LEMMA LeaveCall ==
  ASSUME CallsType, NEW c \in Calls, Leave(c)
  PROVE  CallsType'
  <1>1. \A d \in Calls : [calls[d] EXCEPT !.mounted = FALSE] \in Call
    BY StepCall, "signed" \in Steps, None \in Users, FALSE \in BOOLEAN
      DEF Steps, Users
  <1> QED
    BY <1>1, IdleIsCall DEF Leave, CallsType

LEMMA UnmountCalls ==
  ASSUME CallsType, calls' = [c \in Calls |-> [calls[c] EXCEPT !.mounted = FALSE]]
  PROVE  CallsType'
  <1>1. \A d \in Calls : [calls[d] EXCEPT !.mounted = FALSE] \in Call
    BY StepCall, "signed" \in Steps, None \in Users, FALSE \in BOOLEAN
      DEF Steps, Users
  <1> QED
    BY <1>1 DEF CallsType

LEMMA ActUsed ==
  ASSUME UsedType, NEW n \in {0, 1}, Act(n)
  PROVE  UsedType'
  <1>1. DEFINE h == IF Hurried THEN used.hurries + 1 ELSE used.hurries
  <1>2. h \in 0..MaxHurries /\ used.signIns + n \in 0..MaxSignIns
    BY BoundsAssumption DEF UsedType, Act
  <1>3. used' = [used EXCEPT !.signIns = used.signIns + n, !.hurries = h]
    BY DEF Act
  <1> QED
    BY <1>2, <1>3 DEF UsedType

LEMMA InterruptUsed ==
  ASSUME UsedType, Interrupt
  PROVE  UsedType'
  BY BoundsAssumption DEF UsedType, Interrupt

LEMMA TellStream ==
  ASSUME StreamType, NEW who \in Users, Tell(who)
  PROVE  /\ StreamType'
         /\ events' # <<>>
         /\ events'[Len(events')] = who /\ auth' = who
  BY AppendLast DEF StreamType, Tell

LEMMA QuitStream ==
  ASSUME StreamType, Quit
  PROVE  StreamType' /\ auth' = None
  <1>1. CASE auth = None
    BY <1>1 DEF Quit, StreamType
  <1>2. CASE auth # None
    BY <1>2, TellStream DEF Quit, Users
  <1> QED
    BY <1>1, <1>2

LEMMA TypeStep == SessionInv /\ [Next]_vars => TypeOK'
  <1> SUFFICES ASSUME SessionInv, [Next]_vars PROVE TypeOK'
    OBVIOUS
  <1> USE NamesAssumption, BoundsAssumption
  <1>0. TypeOK
    BY DEF SessionInv
  <1>1. CallsType /\ UsedType /\ StreamType /\ RestType
    BY TypeParts DEF SessionInv
  <1>2. PathInv /\ ListInv /\ WhoInv
    BY DEF SessionInv
  <1>3. Doors \subseteq Calls /\ Cleaners \subseteq Calls /\ None \in Users /\ Accounts \subseteq Users
    BY DEF Calls, Users
  <1>4. CASE Build
    BY <1>0, <1>2, <1>4, AppendLast
      DEF Build, TypeOK, Users, Steps, fire, app, history, NewHome, NewSignIn
  <1>5. CASE Deliver
    <2>1. CallsType'
      BY <1>1, <1>5, UnmountCalls DEF Deliver
    <2>2. UsedType'
      BY <1>1, <1>5 DEF Deliver, UsedType, fire, app
    <2>3. StreamType'
      BY <1>1, <1>5, TailLast DEF Deliver, StreamType, fire
    <2>4. RestType'
      BY <1>1, <1>2, <1>3, <1>5
        DEF Deliver, RestType, fire, app, history, Users, StreamType
    <2> QED
      BY <2>1, <2>2, <2>3, <2>4
        DEF TypeOK, CallsType, Call, UsedType, StreamType, RestType
  <1>6. CASE Greet
    BY <1>0, <1>2, <1>6, AppendLast
      DEF Greet, TypeOK, Users, Steps, fire, app, history
  <1>7. CASE LoadHome
    BY <1>0, <1>2, <1>7, AppendLast
      DEF LoadHome, TypeOK, Users, Steps, fire, app, history
  <1>8. CASE ShowTasks
    BY <1>0, <1>2, <1>8, AppendLast
      DEF ShowTasks, TypeOK, Users, Steps, fire, app, history
  <1>9. CASE EndOnboarding
    BY <1>0, <1>2, <1>9, AppendLast
      DEF EndOnboarding, TypeOK, Users, Steps, fire, app, history, NewSignIn
  <1>10. CASE OpenTasks
    BY <1>0, <1>2, <1>10, AppendLast
      DEF OpenTasks, TypeOK, Users, Steps, fire, app, history
  <1>11. CASE OpenSettings
    BY <1>0, <1>2, <1>11, AppendLast
      DEF OpenSettings, TypeOK, Users, Steps, fire, app, history
  <1>12. CASE GoBack
    <2>1. CallsType'
      BY <1>1, <1>12, UnmountCalls DEF GoBack
    <2>2. UsedType'
      BY <1>1, <1>12 DEF GoBack, UsedType, fire, app
    <2>3. StreamType'
      BY <1>1, <1>12 DEF GoBack, StreamType, fire, app
    <2>4. RestType'
      BY <1>1, <1>2, <1>3, <1>12 DEF GoBack, RestType, fire, app, history, Users
    <2> QED
      BY <2>1, <2>2, <2>3, <2>4
        DEF TypeOK, CallsType, Call, UsedType, StreamType, RestType
  <1>13. CASE RefreshToken
    <2>1. CallsType'
      BY <1>1, <1>13 DEF RefreshToken, CallsType, fire, app
    <2>2. UsedType'
      BY <1>1, <1>13, InterruptUsed DEF RefreshToken
    <2>3. StreamType'
      BY <1>1, <1>13, TellStream DEF RefreshToken, StreamType
    <2>4. RestType'
      BY <1>1, <1>2, <1>3, <1>13 DEF RefreshToken, RestType, fire, app, history, Tell
    <2> QED
      BY <2>1, <2>2, <2>3, <2>4
        DEF TypeOK, CallsType, Call, UsedType, StreamType, RestType
  <1>14. CASE Restart
    <2>1. CallsType'
      BY <1>1, <1>14, IdleIsCall DEF Restart, CallsType
    <2>2. UsedType'
      BY <1>1, <1>14, InterruptUsed DEF Restart
    <2>3. StreamType'
      BY <1>1, <1>14 DEF Restart, StreamType, fire
    <2>4. RestType'
      BY <1>1, <1>2, <1>3, <1>14 DEF Restart, RestType, fire, app, history, Users
    <2> QED
      BY <2>1, <2>2, <2>3, <2>4
        DEF TypeOK, CallsType, Call, UsedType, StreamType, RestType
  <1>15. ASSUME NEW c \in Calls, Authenticate(c) PROVE TypeOK'
    <2>1. CallsType'
      <3>1. Answered[calls[c].pc] \in Steps /\ (account[calls[c].who] = "unborn") \in BOOLEAN
        BY <1>15 DEF Authenticate, Answered, Asking, Steps
      <3>2. /\ calls[c].who \in Users
            /\ calls' = [calls EXCEPT ![c] = [calls[c] EXCEPT
                 !.pc = Answered[calls[c].pc], !.new = (account[calls[c].who] = "unborn")]]
        BY <1>1, <1>15 DEF Authenticate, CallsType, Call
      <3>3. [calls[c] EXCEPT !.pc = Answered[calls[c].pc],
                             !.new = (account[calls[c].who] = "unborn")] \in Call
        BY <1>1, <3>1, <3>2, StepCall
      <3> QED
        BY <1>1, <3>2, <3>3, SetCall
    <2>2. UsedType'
      BY <1>1, <1>15 DEF Authenticate, UsedType, fire, app
    <2>3. StreamType'
      <3>1. calls[c].who \in Users
        BY <1>1 DEF CallsType, Call
      <3> QED
        BY <1>1, <1>15, <3>1, TellStream DEF Authenticate
    <2>4. RestType'
      BY <1>1, <1>2, <1>3, <1>15 DEF Authenticate, RestType, fire, app, history, Tell
    <2> QED
      BY <2>1, <2>2, <2>3, <2>4
        DEF TypeOK, CallsType, Call, UsedType, StreamType, RestType
  <1>16. ASSUME NEW c \in Calls, Reject(c) PROVE TypeOK'
    BY <1>0, <1>2, <1>16, AppendLast
      DEF Reject, TypeOK, Users, Steps, fire, app, history, Idle
  <1>17. ASSUME NEW c \in Calls, Signed(c) PROVE TypeOK'
    <2>1. CallsType'
      BY <1>1, <1>17, EndCall, LeaveCall DEF Signed, EnterHome
    <2>2. UsedType'
      BY <1>1, <1>17 DEF Signed, UsedType, fire, app
    <2>3. StreamType'
      BY <1>1, <1>17 DEF Signed, StreamType, fire, app
    <2>4. RestType'
      BY <1>1, <1>2, <1>3, <1>17
        DEF Signed, RestType, fire, app, history, EnterHome, NewHome, Users
    <2> QED
      BY <2>1, <2>2, <2>3, <2>4
        DEF TypeOK, CallsType, Call, UsedType, StreamType, RestType
  <1>18. ASSUME NEW c \in Calls, Joined(c) PROVE TypeOK'
    <2>1. CallsType'
      <3>1. "signing" \in Steps
        BY DEF Steps
      <3>2. [calls[c] EXCEPT !.pc = "signing", !.new = FALSE] \in Call
        BY <1>1, <1>3, <3>1, StepCall
      <3>3. CASE calls' = [calls EXCEPT ![c] = [calls[c] EXCEPT !.pc = "signing", !.new = FALSE]]
        BY <1>1, <3>2, <3>3, SetCall
      <3>4. \/ calls' = [calls EXCEPT ![c] = [calls[c] EXCEPT !.pc = "signing", !.new = FALSE]]
            \/ calls' = [calls EXCEPT ![c] = Idle]
            \/ Leave(c)
        BY <1>1, <1>18 DEF Joined, EnterHome, CallsType
      <3> QED
        BY <1>1, <3>3, <3>4, EndCall, LeaveCall
    <2>2. UsedType'
      BY <1>1, <1>18 DEF Joined, UsedType, fire, app
    <2>3. StreamType'
      BY <1>1, <1>18 DEF Joined, StreamType, fire, app
    <2>4. RestType'
      BY <1>1, <1>2, <1>3, <1>18
        DEF Joined, RestType, fire, app, history, EnterHome, NewHome, addUser, Users
    <2> QED
      BY <2>1, <2>2, <2>3, <2>4
        DEF TypeOK, CallsType, Call, UsedType, StreamType, RestType
  <1>19. ASSUME NEW c \in Calls, Registered(c) PROVE TypeOK'
    <2>1. CallsType'
      BY <1>1, <1>19, EndCall DEF Registered
    <2>2. UsedType'
      BY <1>1, <1>19 DEF Registered, UsedType, fire, app
    <2>3. StreamType'
      BY <1>1, <1>19 DEF Registered, StreamType, fire, app
    <2>4. RestType'
      BY <1>1, <1>2, <1>3, <1>19
        DEF Registered, RestType, fire, app, history, addUser, NewSignIn, Users,
            WhoInv, StreamType
    <2> QED
      BY <2>1, <2>2, <2>3, <2>4
        DEF TypeOK, CallsType, Call, UsedType, StreamType, RestType
  <1>20. ASSUME NEW c \in Calls, SignedOut(c) PROVE TypeOK'
    <2>1. CallsType'
      BY <1>1, <1>20, EndCall DEF SignedOut
    <2>2. UsedType'
      BY <1>1, <1>20 DEF SignedOut, UsedType, fire, app
    <2>3. StreamType'
      BY <1>1, <1>20, QuitStream DEF SignedOut
    <2>4. RestType'
      BY <1>1, <1>2, <1>3, <1>20 DEF SignedOut, RestType, fire, app, history
    <2> QED
      BY <2>1, <2>2, <2>3, <2>4
        DEF TypeOK, CallsType, Call, UsedType, StreamType, RestType
  <1>21. ASSUME NEW c \in Calls, DeleteUser(c) PROVE TypeOK'
    <2>1. CallsType'
      <3>1. "dismissing" \in Steps
        BY DEF Steps
      <3> QED
        BY <1>1, <1>3, <1>21, <3>1, EndCall, StepCall, SetCall DEF DeleteUser
    <2>2. UsedType'
      BY <1>1, <1>21 DEF DeleteUser, UsedType, fire, app
    <2>3. StreamType'
      BY <1>1, <1>21 DEF DeleteUser, StreamType, fire, app
    <2>4. RestType'
      BY <1>1, <1>2, <1>3, <1>21
        DEF DeleteUser, RestType, fire, app, history, StreamType, Users
    <2> QED
      BY <2>1, <2>2, <2>3, <2>4
        DEF TypeOK, CallsType, Call, UsedType, StreamType, RestType
  <1>22. ASSUME NEW c \in Calls, Dismiss(c) PROVE TypeOK'
    <2>1. CallsType'
      <3>1. "dismissed" \in Steps
        BY DEF Steps
      <3> QED
        BY <1>1, <1>3, <1>22, <3>1, StepCall, SetCall DEF Dismiss
    <2>2. UsedType'
      BY <1>1, <1>22 DEF Dismiss, UsedType, fire, app
    <2>3. StreamType'
      BY <1>1, <1>22, QuitStream DEF Dismiss
    <2>4. RestType'
      BY <1>1, <1>2, <1>3, <1>22 DEF Dismiss, RestType, fire, app, history
    <2> QED
      BY <2>1, <2>2, <2>3, <2>4
        DEF TypeOK, CallsType, Call, UsedType, StreamType, RestType
  <1>23. ASSUME NEW c \in Calls, Dismissed(c) PROVE TypeOK'
    <2>1. CallsType'
      BY <1>1, <1>23, EndCall, LeaveCall DEF Dismissed
    <2>2. UsedType'
      BY <1>1, <1>23 DEF Dismissed, UsedType, fire, app
    <2>3. StreamType'
      BY <1>1, <1>23 DEF Dismissed, StreamType, fire, app
    <2>4. RestType'
      BY <1>1, <1>2, <1>3, <1>23
        DEF Dismissed, RestType, fire, app, history, NewSignIn, StreamType, WhoInv,
            Users
    <2> QED
      BY <2>1, <2>2, <2>3, <2>4
        DEF TypeOK, CallsType, Call, UsedType, StreamType, RestType
  <1>24. ASSUME NEW c \in Calls, ClearStep(c) PROVE TypeOK'
    <2>1. CallsType'
      <3>1. After[calls[c].pc] \in Steps
        BY <1>24 DEF ClearStep, After, Clearing, Steps
      <3>2. [calls[c] EXCEPT !.pc = After[calls[c].pc], !.at = auth] \in Call
        BY <1>1, <1>3, <3>1, StepCall DEF StreamType
      <3>3. CASE calls' = [calls EXCEPT ![c] = [calls[c] EXCEPT !.pc = After[calls[c].pc], !.at = auth]]
        BY <1>1, <3>2, <3>3, SetCall
      <3>4. \/ calls' = [calls EXCEPT ![c] = [calls[c] EXCEPT !.pc = After[calls[c].pc], !.at = auth]]
            \/ calls' = [calls EXCEPT ![c] = Idle]
        BY <1>1, <1>24 DEF ClearStep, CallsType
      <3> QED
        BY <1>1, <3>3, <3>4, EndCall
    <2>2. UsedType'
      BY <1>1, <1>24 DEF ClearStep, UsedType, fire, app
    <2>3. StreamType'
      BY <1>1, <1>24 DEF ClearStep, StreamType, fire, app
    <2>4. RestType'
      BY <1>1, <1>2, <1>3, <1>24
        DEF ClearStep, RestType, fire, app, history, WhoInv, Users, NoTask, Clearing
    <2> QED
      BY <2>1, <2>2, <2>3, <2>4
        DEF TypeOK, CallsType, Call, UsedType, StreamType, RestType
  <1>25. ASSUME NEW c \in Doors, SignOut(c) PROVE TypeOK'
    <2>1. CallsType'
      <3>1. "leaving" \in Steps /\ user \in Users
        BY <1>1 DEF Steps, Clearing, RestType, StreamType
      <3> QED
        BY <1>1, <1>3, <1>25, <3>1, BeginCall DEF SignOut
    <2>2. UsedType'
      BY <1>1, <1>25, ActUsed DEF SignOut
    <2>3. StreamType'
      BY <1>1, <1>25 DEF SignOut, StreamType, fire, app
    <2>4. RestType'
      BY <1>1, <1>2, <1>3, <1>25
        DEF SignOut, RestType, fire, app, history, NewSignIn, StreamType
    <2> QED
      BY <2>1, <2>2, <2>3, <2>4
        DEF TypeOK, CallsType, Call, UsedType, StreamType, RestType
  <1>26. ASSUME NEW c \in Cleaners, DeleteAccount(c) PROVE TypeOK'
    <2>1. CallsType'
      <3>1. "erasing" \in Steps /\ auth \in Users
        BY <1>1 DEF Steps, Clearing, RestType, StreamType
      <3> QED
        BY <1>1, <1>3, <1>26, <3>1, BeginCall DEF DeleteAccount
    <2>2. UsedType'
      BY <1>1, <1>26, ActUsed DEF DeleteAccount
    <2>3. StreamType'
      BY <1>1, <1>26 DEF DeleteAccount, StreamType, fire, app
    <2>4. RestType'
      BY <1>1, <1>2, <1>3, <1>26 DEF DeleteAccount, RestType, fire, app, history
    <2> QED
      BY <2>1, <2>2, <2>3, <2>4
        DEF TypeOK, CallsType, Call, UsedType, StreamType, RestType
  <1>27. ASSUME NEW c \in Cleaners, ClearRecord(c) PROVE TypeOK'
    <2>1. CallsType'
      <3>1. "tasks" \in Steps /\ auth \in Users
        BY <1>1 DEF Steps, Clearing, RestType, StreamType
      <3> QED
        BY <1>1, <1>3, <1>27, <3>1, BeginCall DEF ClearRecord
    <2>2. UsedType'
      BY <1>1, <1>27, ActUsed DEF ClearRecord
    <2>3. StreamType'
      BY <1>1, <1>27 DEF ClearRecord, StreamType, fire, app
    <2>4. RestType'
      BY <1>1, <1>2, <1>3, <1>27 DEF ClearRecord, RestType, fire, app, history
    <2> QED
      BY <2>1, <2>2, <2>3, <2>4
        DEF TypeOK, CallsType, Call, UsedType, StreamType, RestType
  <1>28. ASSUME NEW c \in Doors, NEW a \in Accounts, NEW step \in Asking, SignIn(c, a, step)
        PROVE  TypeOK'
    <2>1. CallsType'
      <3>1. step \in Steps
        BY DEF Steps, Asking
      <3> QED
        BY <1>1, <1>3, <1>28, <3>1, BeginCall DEF SignIn
    <2>2. UsedType'
      BY <1>1, <1>28, ActUsed DEF SignIn
    <2>3. StreamType'
      BY <1>1, <1>28 DEF SignIn, StreamType, fire, app
    <2>4. RestType'
      BY <1>1, <1>2, <1>3, <1>28 DEF SignIn, RestType, fire, app, history
    <2> QED
      BY <2>1, <2>2, <2>3, <2>4
        DEF TypeOK, CallsType, Call, UsedType, StreamType, RestType
  <1>29. ASSUME NEW t \in Tasks, CreateTask(t) PROVE TypeOK'
    BY <1>0, <1>2, <1>29, AppendLast
      DEF CreateTask, TypeOK, Users, Steps, fire, app, history, PathInv
  <1>30. ASSUME NEW a \in Accounts, AcceptDeletion(a) PROVE TypeOK'
    <2>1. CallsType'
      BY <1>1, <1>30 DEF AcceptDeletion, CallsType, fire, app
    <2>2. UsedType'
      BY <1>1, <1>30 DEF AcceptDeletion, UsedType, fire, app
    <2>3. StreamType'
      BY <1>1, <1>3, <1>30, TellStream DEF AcceptDeletion, StreamType
    <2>4. RestType'
      BY <1>1, <1>2, <1>3, <1>30 DEF AcceptDeletion, RestType, fire, app, history
    <2> QED
      BY <2>1, <2>2, <2>3, <2>4
        DEF TypeOK, CallsType, Call, UsedType, StreamType, RestType
  <1>31. ASSUME NEW a \in Accounts, RefuseDeletion(a) PROVE TypeOK'
    BY <1>0, <1>2, <1>31, AppendLast
      DEF RefuseDeletion, TypeOK, Users, Steps, fire, app, history
  <1>32. CASE UNCHANGED vars
    BY <1>0, <1>32 DEF vars, fire, app, history, TypeOK
  <1> QED
    BY <1>4, <1>5, <1>6, <1>7, <1>8, <1>9, <1>10, <1>11, <1>12, <1>13, <1>14, <1>15,
       <1>16, <1>17, <1>18, <1>19, <1>20, <1>21, <1>22, <1>23, <1>24, <1>25, <1>26,
       <1>27, <1>28, <1>29, <1>30, <1>31, <1>32
      DEF Next, SystemStep, UserStep, Continue

-----------------------------------------------------------------------------
(* What becomes of an invocation that is not the one that takes the step. *)

Unmounted(r) == [r EXCEPT !.mounted = FALSE]
Kept(d) == calls'[d] \in {calls[d], Idle, Unmounted(calls[d])}

LEMMA Keeping ==
  ASSUME CallsType
  PROVE  /\ \A c \in Calls : Leave(c) => \A d \in Calls : Kept(d)
         /\ \A c \in Calls : calls' = [calls EXCEPT ![c] = Idle] => \A d \in Calls : Kept(d)
         /\ calls' = [c \in Calls |-> [calls[c] EXCEPT !.mounted = FALSE]]
              => \A d \in Calls : Kept(d)
         /\ UNCHANGED calls => \A d \in Calls : Kept(d)
  <1>1. ASSUME NEW c \in Calls, Leave(c), NEW d \in Calls PROVE Kept(d)
    <2>1. calls'[d] = IF d = c THEN Idle ELSE [calls[d] EXCEPT !.mounted = FALSE]
      BY <1>1 DEF Leave
    <2> QED
      BY <2>1 DEF Kept, Unmounted
  <1>2. ASSUME NEW c \in Calls, calls' = [calls EXCEPT ![c] = Idle], NEW d \in Calls PROVE Kept(d)
    <2>1. calls'[d] = IF d = c THEN Idle ELSE calls[d]
      BY <1>2 DEF CallsType
    <2> QED
      BY <2>1 DEF Kept
  <1>3. ASSUME calls' = [c \in Calls |-> [calls[c] EXCEPT !.mounted = FALSE]], NEW d \in Calls
        PROVE  Kept(d)
    BY <1>3 DEF Kept, Unmounted
  <1>4. ASSUME UNCHANGED calls, NEW d \in Calls PROVE Kept(d)
    BY <1>4 DEF Kept
  <1> QED
    BY <1>1, <1>2, <1>3, <1>4

LEMMA UnmountedFields ==
  ASSUME NEW r \in Call
  PROVE  /\ Unmounted(r).pc = r.pc /\ Unmounted(r).who = r.who /\ Unmounted(r).at = r.at
         /\ ~Unmounted(r).mounted
  <1>1. /\ Unmounted(r).pc = r.pc /\ Unmounted(r).who = r.who /\ Unmounted(r).at = r.at
    BY DEF Call, Unmounted
  <1>2. ~Unmounted(r).mounted
    BY DEF Call, Unmounted
  <1> QED
    BY <1>1, <1>2

LEMMA Unmounting ==
  ASSUME CallsType
  PROVE  /\ \A c \in Calls : Leave(c) => \A d \in Calls : calls'[d].mounted = FALSE
         /\ calls' = [c \in Calls |-> [calls[c] EXCEPT !.mounted = FALSE]]
              => \A d \in Calls : calls'[d].mounted = FALSE
         /\ calls' = [c \in Calls |-> Idle] => \A d \in Calls : calls'[d].mounted = FALSE
  BY DEF CallsType, Call, Leave, Idle

LEMMA KeptScreen ==
  ASSUME CallsType, ScreenInv, EarlyInv, \A d \in Calls : Kept(d),
         screen' = screen, events # <<>> => events' # <<>>
  PROVE  ScreenInv' /\ EarlyInv'
  <1>1. ASSUME NEW d \in Calls, calls'[d].mounted PROVE calls'[d] = calls[d]
    <2>1. ~Idle.mounted
      BY DEF Idle
    <2>2. ~Unmounted(calls[d]).mounted
      BY UnmountedFields DEF CallsType
    <2> QED
      BY <1>1, <2>1, <2>2 DEF Kept
  <1> QED
    BY <1>1 DEF ScreenInv, EarlyInv

LEMMA KeptWho ==
  ASSUME CallsType, WhoInv, \A d \in Calls : Kept(d)
  PROVE  WhoInv'
  <1> SUFFICES ASSUME NEW d \in Calls, calls'[d].pc \notin {"idle", "leaving"}
               PROVE  calls'[d].who \in Accounts /\ calls'[d].at \in Accounts
    BY DEF WhoInv
  <1>1. calls[d] \in Call
    BY DEF CallsType
  <1>2. calls'[d] \in {calls[d], Unmounted(calls[d])}
    BY DEF Kept, Idle
  <1>3. /\ calls'[d].pc = calls[d].pc
        /\ calls'[d].who = calls[d].who /\ calls'[d].at = calls[d].at
    BY <1>1, <1>2, UnmountedFields
  <1> QED
    BY <1>3 DEF WhoInv

-----------------------------------------------------------------------------
(* Whoever signs in or up, deletes or clears, is somebody. *)

LEMMA WhoStep == SessionInv /\ [Next]_vars => WhoInv'
  <1> SUFFICES ASSUME SessionInv, [Next]_vars PROVE WhoInv'
    OBVIOUS
  <1> USE NamesAssumption
  <1>1. WhoInv
    BY DEF SessionInv
  <1>2. CallsType /\ StreamType
    BY TypeParts DEF SessionInv
  <1>3. Doors \subseteq Calls /\ Cleaners \subseteq Calls
    BY DEF Calls
  <1>4. ASSUME Build \/ Greet \/ LoadHome \/ ShowTasks \/ EndOnboarding \/ OpenTasks
             \/ OpenSettings \/ RefreshToken \/ UNCHANGED vars
        PROVE  WhoInv'
    <2>1. UNCHANGED calls
      BY <1>4
        DEF Build, fire, history, NewHome, NewSignIn, Greet, LoadHome, ShowTasks,
           EndOnboarding, OpenTasks, OpenSettings, RefreshToken, Tell, vars, app
    <2> QED
      BY <1>1, <2>1 DEF WhoInv
  <1>5. CASE Deliver
    BY <1>1, <1>2, <1>5, Keeping, KeptWho DEF Deliver
  <1>6. CASE GoBack
    BY <1>1, <1>2, <1>6, Keeping, KeptWho DEF GoBack
  <1>7. CASE Restart
    BY <1>7 DEF Restart, WhoInv, Idle
  <1>8. ASSUME NEW c \in Calls, Authenticate(c) PROVE WhoInv'
    BY <1>1, <1>2, <1>8 DEF Authenticate, WhoInv, CallsType, Asking, Answered
  <1>9. ASSUME NEW c \in Calls, Reject(c) PROVE WhoInv'
    BY <1>1, <1>2, <1>9, Keeping, KeptWho DEF Reject
  <1>10. ASSUME NEW c \in Calls, Signed(c) PROVE WhoInv'
    BY <1>1, <1>2, <1>10, Keeping, KeptWho DEF Signed, EnterHome
  <1>11. ASSUME NEW c \in Calls, Joined(c) PROVE WhoInv'
    <2>1. CASE calls' = [calls EXCEPT ![c].pc = "signing", ![c].new = FALSE]
      BY <1>1, <1>2, <1>11, <2>1 DEF Joined, WhoInv, CallsType, Call
    <2>2. calls' = [calls EXCEPT ![c] = Idle] \/ Leave(c)
            \/ calls' = [calls EXCEPT ![c].pc = "signing", ![c].new = FALSE]
      BY <1>11 DEF Joined, EnterHome
    <2> QED
      BY <1>1, <1>2, <2>1, <2>2, Keeping, KeptWho
  <1>12. ASSUME NEW c \in Calls, Registered(c) PROVE WhoInv'
    BY <1>1, <1>2, <1>12, Keeping, KeptWho DEF Registered
  <1>13. ASSUME NEW c \in Calls, SignedOut(c) PROVE WhoInv'
    BY <1>1, <1>2, <1>13, Keeping, KeptWho DEF SignedOut
  <1>14. ASSUME NEW c \in Calls, DeleteUser(c) PROVE WhoInv'
    BY <1>1, <1>2, <1>14 DEF DeleteUser, WhoInv, CallsType, Call, Idle
  <1>15. ASSUME NEW c \in Calls, Dismiss(c) PROVE WhoInv'
    BY <1>1, <1>2, <1>15 DEF Dismiss, WhoInv, CallsType, Call
  <1>16. ASSUME NEW c \in Calls, Dismissed(c) PROVE WhoInv'
    BY <1>1, <1>2, <1>16, Keeping, KeptWho DEF Dismissed
  <1>17. ASSUME NEW c \in Calls, ClearStep(c) PROVE WhoInv'
    BY <1>1, <1>2, <1>17
      DEF ClearStep, WhoInv, CallsType, Call, StreamType, Users, After, Clearing,
         Idle
  <1>18. ASSUME NEW c \in Doors, SignOut(c) PROVE WhoInv'
    BY <1>1, <1>2, <1>3, <1>18 DEF SignOut, Begin, WhoInv, CallsType, Call
  <1>19. ASSUME NEW c \in Cleaners, DeleteAccount(c) PROVE WhoInv'
    BY <1>1, <1>2, <1>3, <1>19
      DEF DeleteAccount, Begin, WhoInv, CallsType, Call, StreamType, Users
  <1>20. ASSUME NEW c \in Cleaners, ClearRecord(c) PROVE WhoInv'
    BY <1>1, <1>2, <1>3, <1>20
      DEF ClearRecord, Begin, WhoInv, CallsType, Call, StreamType, Users
  <1>21. ASSUME NEW c \in Doors, NEW a \in Accounts, NEW step \in Asking, SignIn(c, a, step)
        PROVE  WhoInv'
    BY <1>1, <1>2, <1>3, <1>21 DEF SignIn, Begin, WhoInv, CallsType, Call
  <1>22. ASSUME NEW t \in Tasks,
             CreateTask(t)
        PROVE  WhoInv'
    <2>1. UNCHANGED calls
      BY <1>22 DEF CreateTask, history, NoTask
    <2> QED
      BY <1>1, <2>1 DEF WhoInv
  <1>23. ASSUME NEW a \in Accounts,
             AcceptDeletion(a) \/ RefuseDeletion(a)
        PROVE  WhoInv'
    <2>1. UNCHANGED calls
      BY <1>23 DEF AcceptDeletion, history, Tell, RefuseDeletion, app
    <2> QED
      BY <1>1, <2>1 DEF WhoInv
  <1> QED
    BY <1>4, <1>5, <1>6, <1>7, <1>8, <1>9, <1>10, <1>11, <1>12, <1>13, <1>14, <1>15,
         <1>16, <1>17, <1>18, <1>19, <1>20, <1>21, <1>22, <1>23
      DEF Next, SystemStep, UserStep, Continue

-----------------------------------------------------------------------------
(* The stream and the current user. *)

LEMMA CurrentStep == SessionInv /\ [Next]_vars => CurrentInv'
  <1> SUFFICES ASSUME SessionInv, [Next]_vars PROVE CurrentInv'
    OBVIOUS
  <1> USE NamesAssumption
  <1>1. CurrentInv
    BY DEF SessionInv
  <1>2. CallsType /\ StreamType
    BY TypeParts DEF SessionInv
  <1>3. Doors \subseteq Calls /\ Cleaners \subseteq Calls
    BY DEF Calls
  <1>4. ASSUME LoadHome \/ ShowTasks \/ OpenTasks \/ OpenSettings \/ GoBack
             \/ UNCHANGED vars
        PROVE  CurrentInv'
    <2>1. UNCHANGED <<auth, events, user>> /\ greeting' \in {greeting, {}}
      BY <1>4
        DEF LoadHome, fire, history, ShowTasks, OpenTasks, OpenSettings, GoBack,
           vars, app
    <2> QED
      BY <1>1, <2>1 DEF CurrentInv
  <1>5. CASE Build
    BY <1>1, <1>2, <1>5 DEF Build, CurrentInv, NewHome, NewSignIn, fire
  <1>6. CASE Deliver
    BY <1>1, <1>2, <1>6, TailLast DEF Deliver, CurrentInv, StreamType, fire
  <1>7. CASE Greet
    BY <1>1, <1>2, <1>7 DEF Greet, CurrentInv, fire
  <1>8. CASE EndOnboarding
    BY <1>1, <1>2, <1>8 DEF EndOnboarding, CurrentInv, NewSignIn, fire
  <1>9. CASE RefreshToken
    BY <1>1, <1>2, <1>9, TellStream DEF RefreshToken, CurrentInv, StreamType, Tell
  <1>10. CASE Restart
    BY <1>1, <1>2, <1>10 DEF Restart, CurrentInv, fire
  <1>11. ASSUME NEW c \in Calls,
             Reject(c) \/ Signed(c) \/ Joined(c) \/ DeleteUser(c) \/ ClearStep(c)
        PROVE  CurrentInv'
    <2>1. UNCHANGED <<auth, events, user>> /\ greeting' \in {greeting, {}}
      BY <1>11
        DEF Reject, fire, app, history, Asking, Idle, Signed, EnterHome, Leave,
           NewHome, Joined, DeleteUser, ClearStep, After, Clearing, NoTask
    <2> QED
      BY <1>1, <2>1 DEF CurrentInv
  <1>12. ASSUME NEW c \in Calls, Authenticate(c) PROVE CurrentInv'
    BY <1>1, <1>2, <1>12, TellStream
      DEF Authenticate, CurrentInv, Tell, CallsType, Call
  <1>13. ASSUME NEW c \in Calls, Registered(c) PROVE CurrentInv'
    BY <1>1, <1>2, <1>13 DEF Registered, CurrentInv, NewSignIn, fire
  <1>14. ASSUME NEW c \in Calls, SignedOut(c) PROVE CurrentInv'
    BY <1>1, <1>2, <1>14, TellStream DEF SignedOut, CurrentInv, Quit, Tell
  <1>15. ASSUME NEW c \in Calls, Dismiss(c) PROVE CurrentInv'
    BY <1>1, <1>2, <1>15, TellStream DEF Dismiss, CurrentInv, Quit, Tell
  <1>16. ASSUME NEW c \in Calls, Dismissed(c) PROVE CurrentInv'
    BY <1>1, <1>2, <1>16 DEF Dismissed, CurrentInv, NewSignIn, fire
  <1>17. ASSUME NEW c \in Doors, SignOut(c) PROVE CurrentInv'
    BY <1>1, <1>2, <1>17 DEF SignOut, CurrentInv, NewSignIn, fire
  <1>18. ASSUME NEW c \in Cleaners,
             DeleteAccount(c) \/ ClearRecord(c)
        PROVE  CurrentInv'
    <2>1. UNCHANGED <<auth, events, user>> /\ greeting' \in {greeting, {}}
      BY <1>18 DEF DeleteAccount, app, history, Begin, ClearRecord, fire
    <2> QED
      BY <1>1, <2>1 DEF CurrentInv
  <1>19. ASSUME NEW c \in Doors, NEW a \in Accounts, NEW step \in Asking,
             SignIn(c, a, step)
        PROVE  CurrentInv'
    <2>1. UNCHANGED <<auth, events, user>> /\ greeting' \in {greeting, {}}
      BY <1>19 DEF SignIn, fire, app, history, Begin
    <2> QED
      BY <1>1, <2>1 DEF CurrentInv
  <1>20. ASSUME NEW t \in Tasks,
             CreateTask(t)
        PROVE  CurrentInv'
    <2>1. UNCHANGED <<auth, events, user>> /\ greeting' \in {greeting, {}}
      BY <1>20 DEF CreateTask, history, NoTask
    <2> QED
      BY <1>1, <2>1 DEF CurrentInv
  <1>21. ASSUME NEW a \in Accounts,
             RefuseDeletion(a)
        PROVE  CurrentInv'
    <2>1. UNCHANGED <<auth, events, user>> /\ greeting' \in {greeting, {}}
      BY <1>21 DEF RefuseDeletion, app, history
    <2> QED
      BY <1>1, <2>1 DEF CurrentInv
  <1>22. ASSUME NEW a \in Accounts, AcceptDeletion(a) PROVE CurrentInv'
    BY <1>1, <1>2, <1>22, TellStream DEF AcceptDeletion, CurrentInv, Tell
  <1> QED
    BY <1>4, <1>5, <1>6, <1>7, <1>8, <1>9, <1>10, <1>11, <1>12, <1>13, <1>14, <1>15,
         <1>16, <1>17, <1>18, <1>19, <1>20, <1>21, <1>22
      DEF Next, SystemStep, UserStep, Continue

-----------------------------------------------------------------------------
(* Invocations and the screens they came from. *)

LEMMA ScreenStep == SessionInv /\ [Next]_vars => (ScreenInv /\ EarlyInv)'
  <1> SUFFICES ASSUME SessionInv, [Next]_vars PROVE (ScreenInv /\ EarlyInv)'
    OBVIOUS
  <1> USE NamesAssumption
  <1>1. ScreenInv /\ EarlyInv
    BY DEF SessionInv
  <1>2. CallsType /\ StreamType
    BY TypeParts DEF SessionInv
  <1>3. Doors \subseteq Calls /\ Cleaners \subseteq Calls
    BY DEF Calls
  <1>4. ASSUME Greet \/ LoadHome \/ ShowTasks \/ UNCHANGED vars
        PROVE  (ScreenInv /\ EarlyInv)'
    <2>1. UNCHANGED <<calls, screen>> /\ (events # <<>> => events' # <<>>)
      BY <1>4 DEF Greet, fire, history, LoadHome, ShowTasks, vars, app
    <2> QED
      BY <1>1, <2>1 DEF ScreenInv, EarlyInv
  <1>5. CASE Build
    BY <1>1, <1>2, <1>5
      DEF Build, ScreenInv, EarlyInv, CallsType, Call, SignInSteps, DeletionSteps,
         Asking, fire, NewHome, NewSignIn
  <1>6. CASE Deliver
    BY <1>2, <1>6, Unmounting DEF Deliver, ScreenInv, EarlyInv
  <1>7. CASE EndOnboarding
    BY <1>1, <1>2, <1>7
      DEF EndOnboarding, ScreenInv, EarlyInv, CallsType, Call, SignInSteps,
         DeletionSteps, Asking, fire, NewSignIn
  <1>8. CASE OpenTasks
    BY <1>1, <1>2, <1>8
      DEF OpenTasks, ScreenInv, EarlyInv, CallsType, Call, SignInSteps,
         DeletionSteps, Asking, fire
  <1>9. CASE OpenSettings
    BY <1>1, <1>2, <1>9
      DEF OpenSettings, ScreenInv, EarlyInv, CallsType, Call, SignInSteps,
         DeletionSteps, Asking, fire
  <1>10. CASE GoBack
    BY <1>2, <1>10, Unmounting DEF GoBack, ScreenInv, EarlyInv
  <1>11. CASE RefreshToken
    BY <1>1, <1>2, <1>11, TellStream DEF RefreshToken, ScreenInv, EarlyInv, StreamType
  <1>12. CASE Restart
    BY <1>2, <1>12, Unmounting DEF Restart, ScreenInv, EarlyInv
  <1>13. ASSUME NEW c \in Calls, Authenticate(c) PROVE (ScreenInv /\ EarlyInv)'
    <2>1. events' # <<>> /\ screen' = screen
      BY <1>1, <1>2, <1>13, TellStream DEF Authenticate, CallsType, Call
    <2>2. \A d \in Calls : calls'[d].mounted = calls[d].mounted
      BY <1>2, <1>13 DEF Authenticate, CallsType, Call
    <2>3. \A d \in Calls \ {c} : calls'[d] = calls[d]
      BY <1>2, <1>13 DEF Authenticate, CallsType
    <2>4. /\ calls[c].pc \in SignInSteps /\ calls'[c].pc \in SignInSteps
          /\ calls'[c].pc \notin DeletionSteps
      BY <1>2, <1>13
        DEF Authenticate, CallsType, Answered, Asking, SignInSteps, DeletionSteps
    <2> QED
      BY <1>1, <2>1, <2>2, <2>3, <2>4 DEF ScreenInv, EarlyInv
  <1>14. ASSUME NEW c \in Calls, Reject(c) PROVE (ScreenInv /\ EarlyInv)'
    BY <1>1, <1>2, <1>14, Keeping, KeptScreen DEF Reject, app
  <1>15. ASSUME NEW c \in Calls, Signed(c) PROVE (ScreenInv /\ EarlyInv)'
    BY <1>1, <1>2, <1>15, Keeping, KeptScreen, Unmounting
      DEF Signed, EnterHome, ScreenInv, EarlyInv
  <1>16. ASSUME NEW c \in Calls, Joined(c) PROVE (ScreenInv /\ EarlyInv)'
    <2>1. CASE Leave(c)
      BY <1>2, <2>1, Unmounting DEF ScreenInv, EarlyInv
    <2>2. CASE calls' = [calls EXCEPT ![c] = Idle] /\ screen' = screen
      BY <1>1, <1>2, <1>16, <2>2, Keeping, KeptScreen DEF Joined
    <2>3. CASE calls' = [calls EXCEPT ![c].pc = "signing", ![c].new = FALSE] /\ screen' = screen
      BY <1>1, <1>2, <1>16, <2>3 DEF Joined, CallsType, ScreenInv, EarlyInv,
           SignInSteps, DeletionSteps, Asking
    <2> QED
      BY <1>16, <2>1, <2>2, <2>3 DEF Joined, EnterHome
  <1>17. ASSUME NEW c \in Calls, Registered(c) PROVE (ScreenInv /\ EarlyInv)'
    BY <1>1, <1>2, <1>17, Keeping, KeptScreen
      DEF Registered, NewSignIn, Idle, ScreenInv, EarlyInv, CallsType, SignInSteps,
         DeletionSteps, Asking
  <1>18. ASSUME NEW c \in Calls, SignedOut(c) PROVE (ScreenInv /\ EarlyInv)'
    BY <1>1, <1>2, <1>18, Keeping, KeptScreen, TellStream DEF SignedOut, Quit, Users
  <1>19. ASSUME NEW c \in Calls, DeleteUser(c) PROVE (ScreenInv /\ EarlyInv)'
    BY <1>1, <1>2, <1>19
      DEF DeleteUser, ScreenInv, EarlyInv, CallsType, Call, SignInSteps,
         DeletionSteps, Asking, Idle, app
  <1>20. ASSUME NEW c \in Calls, Dismiss(c) PROVE (ScreenInv /\ EarlyInv)'
    BY <1>1, <1>2, <1>20
      DEF Dismiss, ScreenInv, EarlyInv, CallsType, Call, SignInSteps, DeletionSteps,
         Asking, Quit, Tell
  <1>21. ASSUME NEW c \in Calls, Dismissed(c) PROVE (ScreenInv /\ EarlyInv)'
    BY <1>1, <1>2, <1>21, Keeping, KeptScreen, Unmounting
      DEF Dismissed, ScreenInv, EarlyInv
  <1>22. ASSUME NEW c \in Calls, ClearStep(c) PROVE (ScreenInv /\ EarlyInv)'
    <2>1. CASE ~(After[calls[c].pc] # "idle" /\ auth # None)
      BY <1>1, <1>2, <1>22, <2>1, Keeping, KeptScreen DEF ClearStep, app
    <2>2. CASE After[calls[c].pc] # "idle" /\ auth # None
      BY <1>1, <1>2, <1>22, <2>2 DEF ClearStep, app, CallsType, ScreenInv, EarlyInv,
           After, Clearing, SignInSteps, DeletionSteps, Asking
    <2> QED
      BY <2>1, <2>2
  <1>23. ASSUME NEW c \in Doors, SignOut(c) PROVE (ScreenInv /\ EarlyInv)'
    BY <1>1, <1>2, <1>3, <1>23
      DEF SignOut, ScreenInv, EarlyInv, CallsType, Call, SignInSteps, DeletionSteps,
         Asking, Begin, NewSignIn
  <1>24. ASSUME NEW c \in Cleaners, DeleteAccount(c) PROVE (ScreenInv /\ EarlyInv)'
    BY <1>1, <1>2, <1>3, <1>24
      DEF DeleteAccount, ScreenInv, EarlyInv, CallsType, Call, SignInSteps,
         DeletionSteps, Asking, Begin, app
  <1>25. ASSUME NEW c \in Cleaners, ClearRecord(c) PROVE (ScreenInv /\ EarlyInv)'
    BY <1>1, <1>2, <1>3, <1>25
      DEF ClearRecord, ScreenInv, EarlyInv, CallsType, Call, SignInSteps,
         DeletionSteps, Asking, Begin, app
  <1>26. ASSUME NEW c \in Doors, NEW a \in Accounts, NEW step \in Asking, SignIn(c, a, step)
        PROVE  (ScreenInv /\ EarlyInv)'
    BY <1>1, <1>2, <1>3, <1>26
      DEF SignIn, ScreenInv, EarlyInv, CallsType, Call, SignInSteps, DeletionSteps,
         Asking, Begin, app
  <1>27. ASSUME NEW t \in Tasks,
             CreateTask(t)
        PROVE  (ScreenInv /\ EarlyInv)'
    <2>1. UNCHANGED <<calls, screen>> /\ (events # <<>> => events' # <<>>)
      BY <1>27 DEF CreateTask, history, NoTask
    <2> QED
      BY <1>1, <2>1 DEF ScreenInv, EarlyInv
  <1>28. ASSUME NEW a \in Accounts,
             RefuseDeletion(a)
        PROVE  (ScreenInv /\ EarlyInv)'
    <2>1. UNCHANGED <<calls, screen>> /\ (events # <<>> => events' # <<>>)
      BY <1>28 DEF RefuseDeletion, app, history
    <2> QED
      BY <1>1, <2>1 DEF ScreenInv, EarlyInv
  <1>29. ASSUME NEW a \in Accounts, AcceptDeletion(a) PROVE (ScreenInv /\ EarlyInv)'
    BY <1>1, <1>2, <1>29, TellStream DEF AcceptDeletion, ScreenInv, EarlyInv, Users
  <1> QED
    BY <1>4, <1>5, <1>6, <1>7, <1>8, <1>9, <1>10, <1>11, <1>12, <1>13, <1>14, <1>15,
         <1>16, <1>17, <1>18, <1>19, <1>20, <1>21, <1>22, <1>23, <1>24, <1>25,
         <1>26, <1>27, <1>28, <1>29
      DEF Next, SystemStep, UserStep, Continue

-----------------------------------------------------------------------------
(* Home screens that were built too early. *)

LEMMA HomeStep == SessionInv /\ [Next]_vars => BadHomeIsBrief'
  <1> SUFFICES ASSUME SessionInv, [Next]_vars PROVE BadHomeIsBrief'
    OBVIOUS
  <1> USE NamesAssumption
  <1>1. BadHomeIsBrief /\ CurrentInv /\ EarlyInv
    BY DEF SessionInv
  <1>2. CallsType /\ StreamType
    BY TypeParts DEF SessionInv
  <1>3. Doors \subseteq Calls /\ Cleaners \subseteq Calls
    BY DEF Calls
  <1>4. ASSUME Greet \/ LoadHome \/ ShowTasks \/ EndOnboarding \/ OpenTasks
             \/ OpenSettings \/ GoBack \/ UNCHANGED vars
        PROVE  BadHomeIsBrief'
    <2>1. home' \in {home, "none", "loaded"} /\ UNCHANGED events
      BY <1>4
        DEF Greet, fire, history, LoadHome, ShowTasks, EndOnboarding, NewSignIn,
           OpenTasks, OpenSettings, GoBack, vars, app
    <2> QED
      BY <1>1, <2>1 DEF BadHomeIsBrief
  <1>5. CASE Build
    BY <1>1, <1>5 DEF Build, BadHomeIsBrief, NewHome, NewSignIn, CurrentInv, fire
  <1>6. CASE Deliver
    BY <1>6 DEF Deliver, BadHomeIsBrief
  <1>7. CASE RefreshToken
    BY <1>1, <1>2, <1>7, TellStream DEF RefreshToken, BadHomeIsBrief, StreamType
  <1>8. CASE Restart
    BY <1>8 DEF Restart, BadHomeIsBrief
  <1>9. ASSUME NEW c \in Calls,
             Reject(c) \/ Registered(c) \/ DeleteUser(c) \/ Dismissed(c)
             \/ ClearStep(c)
        PROVE  BadHomeIsBrief'
    <2>1. home' \in {home, "none", "loaded"} /\ UNCHANGED events
      BY <1>9
        DEF Reject, fire, app, history, Asking, Idle, Registered, NewSignIn,
           DeleteUser, Dismissed, Leave, ClearStep, After, Clearing, NoTask
    <2> QED
      BY <1>1, <2>1 DEF BadHomeIsBrief
  <1>10. ASSUME NEW c \in Calls, Authenticate(c) PROVE BadHomeIsBrief'
    BY <1>1, <1>2, <1>10, TellStream DEF Authenticate, BadHomeIsBrief, CallsType, Call
  <1>11. ASSUME NEW c \in Calls, Signed(c) PROVE BadHomeIsBrief'
    BY <1>1, <1>11
      DEF Signed, BadHomeIsBrief, EnterHome, NewHome, CurrentInv, EarlyInv,
         SignInSteps, Asking, fire
  <1>12. ASSUME NEW c \in Calls, Joined(c) PROVE BadHomeIsBrief'
    BY <1>1, <1>12
      DEF Joined, BadHomeIsBrief, EnterHome, NewHome, CurrentInv, EarlyInv,
         SignInSteps, Asking, fire
  <1>13. ASSUME NEW c \in Calls, SignedOut(c) PROVE BadHomeIsBrief'
    BY <1>1, <1>2, <1>13, TellStream DEF SignedOut, BadHomeIsBrief, Quit, Users
  <1>14. ASSUME NEW c \in Calls, Dismiss(c) PROVE BadHomeIsBrief'
    BY <1>1, <1>2, <1>14, TellStream DEF Dismiss, BadHomeIsBrief, Quit, Users
  <1>15. ASSUME NEW c \in Doors,
             SignOut(c)
        PROVE  BadHomeIsBrief'
    <2>1. home' \in {home, "none", "loaded"} /\ UNCHANGED events
      BY <1>15 DEF SignOut, fire, history, NewSignIn, Begin
    <2> QED
      BY <1>1, <2>1 DEF BadHomeIsBrief
  <1>16. ASSUME NEW c \in Cleaners,
             DeleteAccount(c) \/ ClearRecord(c)
        PROVE  BadHomeIsBrief'
    <2>1. home' \in {home, "none", "loaded"} /\ UNCHANGED events
      BY <1>16 DEF DeleteAccount, app, history, Begin, ClearRecord, fire
    <2> QED
      BY <1>1, <2>1 DEF BadHomeIsBrief
  <1>17. ASSUME NEW c \in Doors, NEW a \in Accounts, NEW step \in Asking,
             SignIn(c, a, step)
        PROVE  BadHomeIsBrief'
    <2>1. home' \in {home, "none", "loaded"} /\ UNCHANGED events
      BY <1>17 DEF SignIn, fire, app, history, Begin
    <2> QED
      BY <1>1, <2>1 DEF BadHomeIsBrief
  <1>18. ASSUME NEW t \in Tasks,
             CreateTask(t)
        PROVE  BadHomeIsBrief'
    <2>1. home' \in {home, "none", "loaded"} /\ UNCHANGED events
      BY <1>18 DEF CreateTask, history, NoTask
    <2> QED
      BY <1>1, <2>1 DEF BadHomeIsBrief
  <1>19. ASSUME NEW a \in Accounts,
             RefuseDeletion(a)
        PROVE  BadHomeIsBrief'
    <2>1. home' \in {home, "none", "loaded"} /\ UNCHANGED events
      BY <1>19 DEF RefuseDeletion, app, history
    <2> QED
      BY <1>1, <2>1 DEF BadHomeIsBrief
  <1>20. ASSUME NEW a \in Accounts, AcceptDeletion(a) PROVE BadHomeIsBrief'
    BY <1>1, <1>2, <1>20, TellStream DEF AcceptDeletion, BadHomeIsBrief, Users
  <1> QED
    BY <1>4, <1>5, <1>6, <1>7, <1>8, <1>9, <1>10, <1>11, <1>12, <1>13, <1>14, <1>15,
         <1>16, <1>17, <1>18, <1>19, <1>20
      DEF Next, SystemStep, UserStep, Continue

-----------------------------------------------------------------------------
(* What the lists show. *)

LEMMA ListStep == SessionInv /\ [Next]_vars => ListInv'
  <1> SUFFICES ASSUME SessionInv, [Next]_vars PROVE ListInv'
    OBVIOUS
  <1> USE NamesAssumption
  <1>1. ListInv /\ ScreenInv
    BY DEF SessionInv
  <1>2. CallsType /\ StreamType
    BY TypeParts DEF SessionInv
  <1>3. Doors \subseteq Calls /\ Cleaners \subseteq Calls
    BY DEF Calls
  <1>4. ASSUME LoadHome \/ RefreshToken \/ UNCHANGED vars
        PROVE  ListInv'
    <2>1. UNCHANGED <<asked, shown, user, screen>>
      BY <1>4 DEF LoadHome, fire, history, RefreshToken, Tell, vars, app
    <2> QED
      BY <1>1, <2>1 DEF ListInv, ShownAreOwn
  <1>5. CASE Build
    BY <1>1, <1>5 DEF Build, ListInv, ShownAreOwn, NewHome, NewSignIn
  <1>6. CASE Deliver
    BY <1>1, <1>6 DEF Deliver, ListInv, ShownAreOwn
  <1>7. CASE Greet
    BY <1>1, <1>7 DEF Greet, ListInv, ShownAreOwn
  <1>8. CASE ShowTasks
    BY <1>1, <1>8 DEF ShowTasks, ListInv, ShownAreOwn
  <1>9. CASE EndOnboarding
    BY <1>1, <1>9 DEF EndOnboarding, ListInv, ShownAreOwn, NewSignIn
  <1>10. CASE OpenTasks
    BY <1>1, <1>10 DEF OpenTasks, ListInv, ShownAreOwn
  <1>11. CASE OpenSettings
    BY <1>1, <1>11 DEF OpenSettings, ListInv, ShownAreOwn
  <1>12. CASE GoBack
    BY <1>1, <1>12 DEF GoBack, ListInv, ShownAreOwn
  <1>13. CASE Restart
    BY <1>1, <1>13 DEF Restart, ListInv, ShownAreOwn
  <1>14. ASSUME NEW c \in Calls,
             Authenticate(c) \/ Reject(c) \/ SignedOut(c) \/ DeleteUser(c)
             \/ Dismiss(c) \/ ClearStep(c)
        PROVE  ListInv'
    <2>1. UNCHANGED <<asked, shown, user, screen>>
      BY <1>14
        DEF Authenticate, history, Tell, Asking, Answered, Reject, fire, app, Idle,
           SignedOut, Quit, DeleteUser, Dismiss, ClearStep, After, Clearing, NoTask
    <2> QED
      BY <1>1, <2>1 DEF ListInv, ShownAreOwn
  <1>15. ASSUME NEW c \in Calls, Signed(c) PROVE ListInv'
    BY <1>1, <1>15
      DEF Signed, ListInv, ShownAreOwn, EnterHome, NewHome, ScreenInv, SignInSteps
  <1>16. ASSUME NEW c \in Calls, Joined(c) PROVE ListInv'
    BY <1>1, <1>16
      DEF Joined, ListInv, ShownAreOwn, EnterHome, NewHome, ScreenInv, SignInSteps
  <1>17. ASSUME NEW c \in Calls, Registered(c) PROVE ListInv'
    BY <1>1, <1>17
      DEF Registered, ListInv, ShownAreOwn, NewSignIn, ScreenInv, SignInSteps
  <1>18. ASSUME NEW c \in Calls, Dismissed(c) PROVE ListInv'
    BY <1>1, <1>18
      DEF Dismissed, ListInv, ShownAreOwn, NewSignIn, ScreenInv, DeletionSteps
  <1>19. ASSUME NEW c \in Doors, SignOut(c) PROVE ListInv'
    BY <1>1, <1>19 DEF SignOut, ListInv, ShownAreOwn, NewSignIn
  <1>20. ASSUME NEW c \in Cleaners,
             DeleteAccount(c) \/ ClearRecord(c)
        PROVE  ListInv'
    <2>1. UNCHANGED <<asked, shown, user, screen>>
      BY <1>20 DEF DeleteAccount, app, history, Begin, ClearRecord, fire
    <2> QED
      BY <1>1, <2>1 DEF ListInv, ShownAreOwn
  <1>21. ASSUME NEW c \in Doors, NEW a \in Accounts, NEW step \in Asking,
             SignIn(c, a, step)
        PROVE  ListInv'
    <2>1. UNCHANGED <<asked, shown, user, screen>>
      BY <1>21 DEF SignIn, fire, app, history, Begin
    <2> QED
      BY <1>1, <2>1 DEF ListInv, ShownAreOwn
  <1>22. ASSUME NEW t \in Tasks, CreateTask(t) PROVE ListInv'
    BY <1>1, <1>22 DEF CreateTask, ListInv, ShownAreOwn
  <1>23. ASSUME NEW a \in Accounts,
             AcceptDeletion(a) \/ RefuseDeletion(a)
        PROVE  ListInv'
    <2>1. UNCHANGED <<asked, shown, user, screen>>
      BY <1>23 DEF AcceptDeletion, history, Tell, RefuseDeletion, app
    <2> QED
      BY <1>1, <2>1 DEF ListInv, ShownAreOwn
  <1> QED
    BY <1>4, <1>5, <1>6, <1>7, <1>8, <1>9, <1>10, <1>11, <1>12, <1>13, <1>14, <1>15,
         <1>16, <1>17, <1>18, <1>19, <1>20, <1>21, <1>22, <1>23
      DEF Next, SystemStep, UserStep, Continue

-----------------------------------------------------------------------------
(* The path of taskDBS. *)

LEMMA PathStep == SessionInv /\ [Next]_vars => PathInv'
  <1> SUFFICES ASSUME SessionInv, [Next]_vars PROVE PathInv'
    OBVIOUS
  <1> USE NamesAssumption
  <1>1. PathInv /\ RestType
    BY TypeParts DEF SessionInv
  <1>4. ASSUME Build \/ Deliver \/ Greet \/ LoadHome \/ ShowTasks \/ EndOnboarding
             \/ OpenSettings \/ GoBack \/ RefreshToken \/ UNCHANGED vars
        PROVE  PathInv'
    <2>1. UNCHANGED <<path, seen, filed>> /\ (screen' = "tasks" => screen = "tasks")
      BY <1>4
        DEF Build, fire, history, NewHome, NewSignIn, Deliver, Greet, LoadHome,
           ShowTasks, EndOnboarding, OpenSettings, GoBack, RefreshToken, Tell, vars,
           app
    <2> QED
      BY <1>1, <2>1 DEF PathInv, TasksAreFiled
  <1>5. CASE OpenTasks
    <2>1. user \in seen' /\ user # Unset
      BY <1>1, <1>5 DEF OpenTasks, RestType, Users
    <2>2. path' # Unset /\ path' \in seen'
      BY <1>1, <1>5, <2>1 DEF OpenTasks, PathInv
    <2>3. TasksAreFiled'
      BY <1>1, <1>5 DEF OpenTasks, PathInv, TasksAreFiled, fire
    <2> QED
      BY <2>2, <2>3 DEF PathInv
  <1>6. CASE Restart
    BY <1>1, <1>6 DEF Restart, PathInv, TasksAreFiled, fire
  <1>7. ASSUME NEW c \in Calls,
             Authenticate(c) \/ Reject(c) \/ Signed(c) \/ Joined(c)
             \/ Registered(c) \/ SignedOut(c) \/ DeleteUser(c) \/ Dismiss(c)
             \/ Dismissed(c)
        PROVE  PathInv'
    <2>1. UNCHANGED <<path, seen, filed>> /\ (screen' = "tasks" => screen = "tasks")
      BY <1>7
        DEF Authenticate, history, Tell, Asking, Answered, Reject, fire, app, Idle,
           Signed, EnterHome, Leave, NewHome, Joined, Registered, NewSignIn,
           SignedOut, Quit, DeleteUser, Dismiss, Dismissed
    <2> QED
      BY <1>1, <2>1 DEF PathInv, TasksAreFiled
  <1>8. ASSUME NEW c \in Calls, ClearStep(c) PROVE PathInv'
    BY <1>1, <1>8 DEF ClearStep, PathInv, TasksAreFiled, RestType, NoTask, app
  <1>9. ASSUME NEW c \in Doors,
             SignOut(c)
        PROVE  PathInv'
    <2>1. UNCHANGED <<path, seen, filed>> /\ (screen' = "tasks" => screen = "tasks")
      BY <1>9 DEF SignOut, fire, history, NewSignIn, Begin
    <2> QED
      BY <1>1, <2>1 DEF PathInv, TasksAreFiled
  <1>10. ASSUME NEW c \in Cleaners,
             DeleteAccount(c) \/ ClearRecord(c)
        PROVE  PathInv'
    <2>1. UNCHANGED <<path, seen, filed>> /\ (screen' = "tasks" => screen = "tasks")
      BY <1>10 DEF DeleteAccount, app, history, Begin, ClearRecord, fire
    <2> QED
      BY <1>1, <2>1 DEF PathInv, TasksAreFiled
  <1>11. ASSUME NEW c \in Doors, NEW a \in Accounts, NEW step \in Asking,
             SignIn(c, a, step)
        PROVE  PathInv'
    <2>1. UNCHANGED <<path, seen, filed>> /\ (screen' = "tasks" => screen = "tasks")
      BY <1>11 DEF SignIn, fire, app, history, Begin
    <2> QED
      BY <1>1, <2>1 DEF PathInv, TasksAreFiled
  <1>12. ASSUME NEW t \in Tasks, CreateTask(t) PROVE PathInv'
    <2>1. path \in seen /\ UNCHANGED <<path, screen, seen>>
      BY <1>1, <1>12 DEF CreateTask, PathInv, history
    <2>2. TasksAreFiled'
      <3> SUFFICES ASSUME NEW s \in Tasks, filed'[s].alone
                   PROVE  filed'[s].path = filed'[s].owner
        BY DEF TasksAreFiled
      <3>1. CASE s = t
        BY <1>1, <1>12, <2>1, <3>1 DEF CreateTask, RestType
      <3>2. CASE s # t
        BY <1>1, <1>12, <3>2 DEF CreateTask, RestType, PathInv, TasksAreFiled
      <3> QED
        BY <3>1, <3>2
    <2> QED
      BY <1>1, <2>1, <2>2 DEF PathInv
  <1>13. ASSUME NEW a \in Accounts,
             AcceptDeletion(a) \/ RefuseDeletion(a)
        PROVE  PathInv'
    <2>1. UNCHANGED <<path, seen, filed>> /\ (screen' = "tasks" => screen = "tasks")
      BY <1>13 DEF AcceptDeletion, history, Tell, RefuseDeletion, app
    <2> QED
      BY <1>1, <2>1 DEF PathInv, TasksAreFiled
  <1> QED
    BY <1>4, <1>5, <1>6, <1>7, <1>8, <1>9, <1>10, <1>11, <1>12, <1>13
      DEF Next, SystemStep, UserStep, Continue

-----------------------------------------------------------------------------
(* The theorems. *)

THEOREM Invariance == Spec => []SessionInv
  <1>1. SessionInv /\ [Next]_vars => SessionInv'
    BY TypeStep, WhoStep, CurrentStep, ScreenStep, HomeStep, ListStep, PathStep
      DEF SessionInv
  <1> QED
    BY InitInv, <1>1, PTL DEF Spec

(* Every variable keeps its type. *)
THEOREM TypeCorrect == Spec => []TypeOK
  BY Invariance, PTL DEF SessionInv

(* With no event on its way `user` is Firebase's current user. *)
THEOREM UserBecomesCurrent == Spec => []UserIsCurrent
  <1>1. SessionInv => UserIsCurrent
    BY DEF SessionInv, CurrentInv, UserIsCurrent
  <1> QED
    BY <1>1, Invariance, PTL

(* A home screen that cannot load is replaced by the event on its way. *)
THEOREM BadHomesAreBrief == Spec => []BadHomeIsBrief
  BY Invariance, PTL DEF SessionInv

(* No list ever shows a task of another account. *)
THEOREM ListsShowOwnTasks == Spec => []ShownAreOwn
  <1>1. SessionInv => ShownAreOwn
    BY DEF SessionInv, ListInv
  <1> QED
    BY <1>1, Invariance, PTL

(* Tasks created while only their owner had opened tasks are the owner's. *)
THEOREM TasksStayFiled == Spec => []TasksAreFiled
  <1>1. SessionInv => TasksAreFiled
    BY DEF SessionInv, PathInv
  <1> QED
    BY <1>1, Invariance, PTL

-----------------------------------------------------------------------------
(***************************************************************************)
(* A user who is not in a hurry: one invocation at a time, and none before *)
(* the app has heard of what the last one did.  While somebody is signing  *)
(* in, the app and Firebase know of nobody else, so the document that      *)
(* addUser makes is that of the account that was just created, which has   *)
(* none; and what is deleted or cleared is what its owner gave up.         *)
(***************************************************************************)
\* Everything the app has heard of, or will hear of, is account w or nobody.
Within(w) == /\ {user, auth} \cup greeting \subseteq {None, w}
             /\ events \in Seq({None, w})

\* Firebase has answered: the account exists.
Born == {"signed", "joinedGoogle", "joinedFacebook", "registered"}

\* The invocation in state k is about to write the document of a new account.
WritesDoc(k) == \/ k.pc = "registered"
                \/ k.pc \in {"joinedGoogle", "joinedFacebook"} /\ k.new

CalmCall(k) ==
  /\ k.pc \in SignInSteps => Within(k.who)
  /\ k.pc \in Born => account[k.who] # "unborn"
  /\ WritesDoc(k) => k.who \notin docs
  /\ k.pc \in {"erasing"} \cup Clearing => auth \in {None, k.who} /\ k.at = k.who

Calm ==
  /\ \A c, d \in Calls : calls[c].pc # "idle" /\ calls[d].pc # "idle" => c = d
  /\ \A a \in docs : account[a] # "unborn"
  /\ \A c \in Calls : CalmCall(calls[c])
  /\ reset = {} /\ wronged = {}

CalmInv == used.hurries = 0 => Calm

\* What CalmCall reads of an invocation.
Same(k, j) == k.pc = j.pc /\ k.who = j.who /\ k.at = j.at /\ k.new = j.new

\* A step that no invocation takes.
LEMMA CalmKept ==
  ASSUME SessionInv, Calm,
         \A c \in Calls : Same(calls'[c], calls[c]),
         \A w \in Accounts : Within(w) => Within(w)',
         auth' \in {auth, None},
         UNCHANGED <<docs, reset, wronged>>,
         \A a \in Accounts : account'[a] = "unborn" => account[a] = "unborn"
  PROVE  Calm'
<1>1. docs \subseteq Accounts /\ WhoInv
  BY TypeParts DEF SessionInv, RestType
<1>2. ASSUME NEW c \in Calls PROVE CalmCall(calls[c])'
  <2>1. PICK k : k = calls[c]
    OBVIOUS
  <2>2. CalmCall(k) /\ Same(calls'[c], k)
    BY <2>1 DEF Calm
  <2>3. k.pc \in SignInSteps \cup Born => k.who \in Accounts
    BY <1>1, <2>1 DEF WhoInv, SignInSteps, Asking, Born
  <2>4. CalmCall(k)'
    BY <2>2, <2>3 DEF CalmCall, WritesDoc
  <2> QED
    BY <2>2, <2>4 DEF CalmCall, Same, WritesDoc, Within
<1>3. \A c, d \in Calls : calls'[c].pc # "idle" /\ calls'[d].pc # "idle" => c = d
  BY DEF Calm, Same
<1> QED
  BY <1>1, <1>2, <1>3 DEF Calm

\* A step of invocation c, which is the only one under way or the first to be.
LEMMA CalmResumes ==
  ASSUME SessionInv, Calm, NEW c \in Calls,
         \A d \in Calls \ {c} : calls[d].pc = "idle" /\ calls'[d].pc = "idle",
         CalmCall(calls[c])',
         \A a \in docs' : account'[a] # "unborn",
         reset' = {}, wronged' = {}
  PROVE  Calm'
<1>1. ASSUME NEW d \in Calls PROVE CalmCall(calls[d])'
  <2>1. CASE d = c
    BY <2>1
  <2>2. CASE d # c
    <3>1. calls'[d].pc = "idle"
      BY <2>2
    <3> QED
      BY <3>1 DEF CalmCall, SignInSteps, Asking, Born, WritesDoc, Clearing
  <2> QED
    BY <2>1, <2>2
<1> QED
  BY <1>1 DEF Calm

\* What a delivery and a new event do to the events of one account.
LEMMA WithinTail ==
  ASSUME NEW S, NEW s \in Seq(S), s # <<>>
  PROVE  Head(s) \in S /\ Tail(s) \in Seq(S)
OBVIOUS

LEMMA WithinTell ==
  ASSUME NEW w, Within(w), NEW who \in {None, w}, Tell(who), UNCHANGED <<user, greeting>>
  PROVE  Within(w)'
<1>1. Append(events, who) \in Seq({None, w})
  BY DEF Within
<1> QED
  BY <1>1 DEF Within, Tell

\* The screens, the streams and the environment.
LEMMA CalmScreens ==
  ASSUME SessionInv, Calm,
         \/ Build \/ Deliver \/ Greet \/ LoadHome \/ ShowTasks \/ EndOnboarding \/ OpenTasks
         \/ OpenSettings \/ GoBack \/ RefreshToken \/ Restart \/ UNCHANGED vars
         \/ (\E t \in Tasks : CreateTask(t))
         \/ (\E a \in Accounts : AcceptDeletion(a) \/ RefuseDeletion(a))
  PROVE  Calm'
<1> USE DEF fire, app, history
<1>1. CallsType /\ auth \in Users /\ user \in Users /\ StreamType
      /\ (events = <<>> => user = auth /\ greeting \subseteq {auth})
      /\ account \in [Accounts -> {"unborn", "alive", "deleted"}]
  BY TypeParts DEF SessionInv, StreamType, RestType, CurrentInv
<1>2. ASSUME UNCHANGED <<auth, account, docs, events, reset, wronged>>,
             user' \in {user} \cup greeting, greeting' \subseteq greeting \cup {auth},
             \/ calls' = calls
             \/ calls' = [c \in Calls |-> [calls[c] EXCEPT !.mounted = FALSE]]
      PROVE  Calm'
  <2>1. \A c \in Calls : Same(calls'[c], calls[c])
    BY <1>1, <1>2 DEF Same, CallsType, Call
  <2>2. \A w \in Accounts : Within(w) => Within(w)'
    BY <1>2 DEF Within
  <2> QED
    BY <1>2, <2>1, <2>2, CalmKept
<1>3. CASE \/ Build \/ Greet \/ LoadHome \/ ShowTasks \/ EndOnboarding \/ OpenTasks
           \/ OpenSettings \/ GoBack \/ UNCHANGED vars
  <2>1. UNCHANGED <<auth, account, docs, events, reset, wronged>>
    BY <1>3 DEF Build, Greet, LoadHome, ShowTasks, EndOnboarding, OpenTasks, OpenSettings,
                GoBack, vars
  <2>2. user' \in {user} \cup greeting
    BY <1>3 DEF Build, Greet, LoadHome, ShowTasks, EndOnboarding, OpenTasks, OpenSettings,
                GoBack, vars
  <2>3. greeting' \subseteq greeting \cup {auth}
    BY <1>3 DEF Build, Greet, LoadHome, ShowTasks, EndOnboarding, OpenTasks, OpenSettings,
                GoBack, vars, NewSignIn, NewHome
  <2>4. \/ calls' = calls
        \/ calls' = [c \in Calls |-> [calls[c] EXCEPT !.mounted = FALSE]]
    BY <1>3 DEF Build, Greet, LoadHome, ShowTasks, EndOnboarding, OpenTasks, OpenSettings,
                GoBack, vars
  <2> QED
    BY <1>2, <2>1, <2>2, <2>3, <2>4
<1>4. CASE Deliver
  <2>1. /\ events # <<>> /\ user' = Head(events) /\ events' = Tail(events) /\ greeting' = {}
        /\ calls' = [c \in Calls |-> [calls[c] EXCEPT !.mounted = FALSE]]
        /\ UNCHANGED <<auth, account, docs, reset, wronged>>
    BY <1>4 DEF Deliver
  <2>2. \A c \in Calls : Same(calls'[c], calls[c])
    BY <1>1, <2>1 DEF Same, CallsType, Call
  <2>3. ASSUME NEW w \in Accounts, Within(w) PROVE Within(w)'
    <3>1. Head(events) \in {None, w} /\ Tail(events) \in Seq({None, w})
      BY <2>1, <2>3, WithinTail DEF Within
    <3> QED
      BY <2>1, <2>3, <3>1 DEF Within
  <2> QED
    BY <2>1, <2>2, <2>3, CalmKept
<1>5. CASE RefreshToken
  <2>1. /\ Tell(auth) /\ UNCHANGED <<user, greeting, calls, account, docs, reset, wronged>>
    BY <1>5 DEF RefreshToken
  <2>2. \A c \in Calls : Same(calls'[c], calls[c])
    BY <2>1 DEF Same
  <2>3. ASSUME NEW w \in Accounts, Within(w) PROVE Within(w)'
    <3>1. PICK who : who = auth
      OBVIOUS
    <3> QED
      BY <2>1, <2>3, <3>1, WithinTell DEF Within
  <2> QED
    BY <2>1, <2>2, <2>3, CalmKept DEF Tell
<1>6. CASE \E a \in Accounts : AcceptDeletion(a) \/ RefuseDeletion(a)
  <2>1. UNCHANGED <<user, greeting, calls, docs, reset, wronged>>
    BY <1>6 DEF AcceptDeletion, RefuseDeletion
  <2>2. Tell(None) \/ UNCHANGED <<auth, events>>
    BY <1>6 DEF AcceptDeletion, RefuseDeletion
  <2>3. \A a \in Accounts : account'[a] = "unborn" => account[a] = "unborn"
    BY <1>1, <1>6 DEF AcceptDeletion, RefuseDeletion
  <2>4. \A c \in Calls : Same(calls'[c], calls[c])
    BY <2>1 DEF Same
  <2>5. ASSUME NEW w \in Accounts, Within(w) PROVE Within(w)'
    BY <2>1, <2>2, <2>5, WithinTell DEF Within
  <2>6. auth' \in {auth, None}
    BY <2>2 DEF Tell
  <2> QED
    BY <2>1, <2>3, <2>4, <2>5, <2>6, CalmKept
<1>7. CASE Restart
  <2>1. /\ UNCHANGED <<account, docs, reset, wronged>>
        /\ calls' = [c \in Calls |-> Idle]
    BY <1>7 DEF Restart
  <2>2. \A c \in Calls : calls'[c].pc = "idle"
    BY <2>1 DEF Idle
  <2> QED
    BY <2>1, <2>2 DEF Calm, CalmCall, SignInSteps, Asking, Born, WritesDoc, Clearing
<1>8. CASE \E t \in Tasks : CreateTask(t)
  <2>1. /\ UNCHANGED <<auth, account, docs, events, reset, wronged, user, greeting, calls>>
    BY <1>8 DEF CreateTask
  <2> QED
    BY <1>2, <2>1
<1> QED
  BY <1>3, <1>4, <1>5, <1>6, <1>7, <1>8

\* An invocation begins: nothing is under way, and the app has heard of everything.
LEMMA CalmBegins ==
  ASSUME SessionInv, Calm, NEW c \in Calls, NEW step, NEW who,
         Begin(c, step, who), ~ Hurried,
         UNCHANGED <<auth, account, user, events, reset, wronged>>,
         docs' \subseteq docs,
         \/ /\ step \in Asking /\ screen = "login" /\ greeting' = greeting
         \/ step = "leaving"
         \/ step \in {"erasing", "tasks"} /\ who = auth
  PROVE  Calm'
<1>1. /\ events = <<>> /\ \A d \in Calls : calls[d].pc = "idle"
      /\ screen = "login" => user = None
  BY DEF Hurried
<1>2. /\ user = auth /\ greeting \subseteq {auth} /\ CallsType
  BY <1>1, TypeParts DEF SessionInv, CurrentInv
<1>3. calls' = [calls EXCEPT ![c] =
                  [pc |-> step, who |-> who, at |-> who, new |-> FALSE, mounted |-> TRUE]]
  BY DEF Begin
<1>4. /\ \A d \in Calls \ {c} : calls[d].pc = "idle" /\ calls'[d].pc = "idle"
      /\ calls'[c] = [pc |-> step, who |-> who, at |-> who, new |-> FALSE, mounted |-> TRUE]
  BY <1>1, <1>2, <1>3 DEF CallsType
<1>5. step \in Asking => Within(who)'
  <2>1. <<>> \in Seq({None, who})
    OBVIOUS
  <2> QED
    BY <1>1, <1>2, <2>1 DEF Within, Asking
<1>6. /\ step \in SignInSteps => step \in Asking
      /\ step \notin Born
      /\ step \in {"erasing"} \cup Clearing => who = auth
  BY DEF SignInSteps, Asking, Born, Clearing
<1>7. CalmCall(calls[c])'
  BY <1>4, <1>5, <1>6 DEF CalmCall, WritesDoc, Born, Within
<1>8. \A a \in docs' : account'[a] # "unborn"
  BY DEF Calm
<1> QED
  BY <1>4, <1>7, <1>8, CalmResumes DEF Calm

\* What a step of invocation c does to the invocations: r is what becomes of it.
LEMMA OneMoves ==
  ASSUME CallsType, NEW c \in Calls, NEW r,
         calls' = [calls EXCEPT ![c] = r] \/ (Leave(c) /\ r = Idle)
  PROVE  calls'[c] = r /\ \A d \in Calls \ {c} : calls'[d].pc = calls[d].pc
<1>1. CASE calls' = [calls EXCEPT ![c] = r]
  BY <1>1 DEF CallsType
<1>2. CASE Leave(c) /\ r = Idle
  BY <1>2 DEF Leave, CallsType, Call
<1> QED
  BY <1>1, <1>2

\* Nothing is asked of an invocation in one of these states.
AtRest == {"idle", "leaving", "dismissing", "dismissed"}

LEMMA RestCalm ==
  ASSUME NEW k, k.pc \in AtRest
  PROVE  CalmCall(k)'
BY DEF CalmCall, AtRest, SignInSteps, Asking, Born, WritesDoc, Clearing

LEMMA CalmContinues ==
  ASSUME SessionInv, Calm, NEW c \in Calls, Continue(c)
  PROVE  Calm'
<1> USE DEF fire, app, history
<1>1. PICK k : k = calls[c]
  OBVIOUS
<1>2. /\ CallsType /\ k \in Call /\ StreamType
      /\ account \in [Accounts -> {"unborn", "alive", "deleted"}]
      /\ docs \subseteq Accounts /\ user \in Users
  BY <1>1, TypeParts DEF SessionInv, CallsType, RestType
<1>3. /\ CalmCall(k) /\ reset = {} /\ wronged = {}
      /\ \A a \in docs : account[a] # "unborn"
  BY <1>1 DEF Calm
<1>4. k.pc # "idle"
  BY <1>1 DEF Continue, Authenticate, Reject, Signed, Joined, Registered, SignedOut, DeleteUser,
              Dismiss, Dismissed, ClearStep, Asking, Clearing
<1>5. \A d \in Calls \ {c} : calls[d].pc = "idle"
  BY <1>1, <1>4 DEF Calm
<1>6. k.pc # "leaving" => k.who \in Accounts
  BY <1>1, <1>4 DEF SessionInv, WhoInv
<1>7. "idle" \in AtRest /\ Idle.pc = "idle"
  BY DEF AtRest, Idle
<1>8. ASSUME NEW r, calls' = [calls EXCEPT ![c] = r] \/ (Leave(c) /\ r = Idle),
             CalmCall(r)',
             \A a \in docs' : account'[a] # "unborn",
             reset' = {}, wronged' = {}
      PROVE  Calm'
  <2>1. calls'[c] = r /\ \A d \in Calls \ {c} : calls'[d].pc = "idle"
    BY <1>2, <1>5, <1>8, OneMoves
  <2>2. CalmCall(calls[c])'
    BY <1>8, <2>1 DEF CalmCall, WritesDoc, Within
  <2> QED
    BY <1>5, <1>8, <2>1, <2>2, CalmResumes
<1>9. CASE Authenticate(c)
  <2>1. PICK new \in BOOLEAN : new = (account[k.who] = "unborn")
    OBVIOUS
  <2>2. /\ k.pc \in Asking
        /\ k.pc = "registering" => new
        /\ Tell(k.who)
        /\ account' = [account EXCEPT ![k.who] = "alive"]
        /\ calls' = [calls EXCEPT ![c].pc = Answered[k.pc], ![c].new = new]
        /\ UNCHANGED <<docs, greeting, user, reset, wronged>>
    BY <1>1, <1>9, <2>1 DEF Authenticate
  <2>3. k.who \in Accounts /\ Within(k.who)
    BY <1>3, <1>6, <2>2 DEF CalmCall, SignInSteps, Asking
  <2>4. Within(k.who)'
    BY <2>2, <2>3, WithinTell
  <2>5. PICK r : r = [k EXCEPT !.pc = Answered[k.pc], !.new = new]
    OBVIOUS
  <2>6. /\ calls' = [calls EXCEPT ![c] = r]
        /\ r.pc = Answered[k.pc] /\ r.new = new /\ r.who = k.who
    BY <1>1, <1>2, <2>2, <2>5 DEF CallsType, Call
  <2>7. /\ r.pc \in Born \ Clearing /\ r.pc # "erasing"
        /\ r.pc = "registered" => k.pc = "registering"
    BY <2>2, <2>6 DEF Answered, Asking, Born, Clearing
  <2>8. WritesDoc(r) => k.who \notin docs
    BY <1>3, <2>1, <2>2, <2>6, <2>7 DEF WritesDoc
  <2>9. account'[k.who] = "alive" /\ \A a \in docs' : account'[a] # "unborn"
    BY <1>2, <1>3, <2>2, <2>3
  <2>10. CalmCall(r)'
    BY <2>2, <2>4, <2>6, <2>7, <2>8, <2>9 DEF CalmCall, WritesDoc, Within
  <2> QED
    BY <1>3, <1>8, <2>2, <2>6, <2>9, <2>10
<1>10. CASE Reject(c) \/ Signed(c) \/ SignedOut(c) \/ Dismissed(c)
  <2>1. calls' = [calls EXCEPT ![c] = Idle] \/ Leave(c)
    BY <1>10 DEF Reject, Signed, EnterHome, SignedOut, Dismissed
  <2>2. UNCHANGED <<account, docs, reset, wronged>>
    BY <1>10 DEF Reject, Signed, SignedOut, Dismissed
  <2> QED
    BY <1>3, <1>7, <1>8, <2>1, <2>2, RestCalm
<1>11. CASE Joined(c)
  <2>1. k.pc \in {"joinedGoogle", "joinedFacebook"} /\ Within(k.who) /\ k.who \in Accounts
        /\ account[k.who] # "unborn"
    BY <1>1, <1>3, <1>6, <1>11 DEF Joined, CalmCall, SignInSteps, Born
  <2>2. UNCHANGED <<auth, account, events, user, wronged>>
    BY <1>11 DEF Joined
  <2>3. (k.new /\ user # None /\ addUser(user)) \/ UNCHANGED <<docs, reset>>
    BY <1>1, <1>11 DEF Joined
  <2>4. k.new /\ user # None => user = k.who /\ k.who \notin docs
    BY <1>3, <2>1 DEF Within, CalmCall, WritesDoc
  <2>5. reset' = {} /\ docs' \subseteq docs \cup {k.who}
    BY <1>3, <2>3, <2>4 DEF addUser
  <2>6. \A a \in docs' : account'[a] # "unborn"
    BY <1>3, <2>1, <2>2, <2>5
  <2>7. CASE calls' = [calls EXCEPT ![c] = Idle] \/ Leave(c)
    BY <1>3, <1>7, <1>8, <2>2, <2>5, <2>6, <2>7, RestCalm
  <2>8. CASE /\ calls' = [calls EXCEPT ![c].pc = "signing", ![c].new = FALSE]
             /\ UNCHANGED greeting
    <3>1. PICK r : r = [k EXCEPT !.pc = "signing", !.new = FALSE]
      OBVIOUS
    <3>2. calls' = [calls EXCEPT ![c] = r] /\ r.pc = "signing" /\ r.who = k.who
      BY <1>1, <1>2, <2>8, <3>1 DEF CallsType, Call
    <3>3. CalmCall(r)'
      BY <2>1, <2>2, <2>8, <3>2 DEF CalmCall, WritesDoc, Born, Clearing, Within
    <3> QED
      BY <1>3, <1>8, <2>2, <2>5, <2>6, <3>2, <3>3
  <2> QED
    BY <1>11, <2>7, <2>8 DEF Joined, EnterHome
<1>12. CASE Registered(c)
  <2>1. k.pc = "registered" /\ k.who \in Accounts /\ k.who \notin docs
        /\ account[k.who] # "unborn"
    BY <1>1, <1>3, <1>6, <1>12 DEF Registered, CalmCall, Born, WritesDoc
  <2>2. calls' = [calls EXCEPT ![c] = Idle] /\ UNCHANGED <<account, wronged>>
    BY <1>12 DEF Registered
  <2>3. addUser(k.who) \/ UNCHANGED <<docs, reset>>
    BY <1>1, <1>12 DEF Registered
  <2>4. reset' = {} /\ docs' \subseteq docs \cup {k.who}
    BY <1>3, <2>1, <2>3 DEF addUser
  <2> QED
    BY <1>3, <1>7, <1>8, <2>1, <2>2, <2>4, RestCalm
<1>13. CASE DeleteUser(c)
  <2>1. k.pc = "erasing" /\ auth \in {None, k.who}
    BY <1>1, <1>3, <1>13 DEF DeleteUser, CalmCall
  <2>2. UNCHANGED <<account, docs, reset>>
    BY <1>13 DEF DeleteUser
  <2>3. wronged' = {}
    BY <1>1, <1>3, <1>13, <2>1 DEF DeleteUser
  <2>4. CASE calls' = [calls EXCEPT ![c] = Idle]
    BY <1>3, <1>7, <1>8, <2>2, <2>3, <2>4, RestCalm
  <2>5. CASE calls' = [calls EXCEPT ![c].pc = "dismissing"]
    <3>1. PICK r : r = [k EXCEPT !.pc = "dismissing"]
      OBVIOUS
    <3>2. calls' = [calls EXCEPT ![c] = r] /\ r.pc \in AtRest
      BY <1>1, <1>2, <2>5, <3>1 DEF CallsType, Call, AtRest
    <3> QED
      BY <1>3, <1>8, <2>2, <2>3, <3>2, RestCalm
  <2> QED
    BY <1>13, <2>4, <2>5 DEF DeleteUser
<1>14. CASE Dismiss(c)
  <2>1. PICK r : r = [k EXCEPT !.pc = "dismissed"]
    OBVIOUS
  <2>2. calls' = [calls EXCEPT ![c] = r] /\ r.pc \in AtRest
    BY <1>1, <1>2, <1>14, <2>1 DEF CallsType, Call, AtRest, Dismiss
  <2>3. UNCHANGED <<account, docs, reset, wronged>>
    BY <1>14 DEF Dismiss
  <2> QED
    BY <1>3, <1>8, <2>2, <2>3, RestCalm
<1>15. CASE ClearStep(c)
  <2>1. k.pc \in Clearing /\ auth \in {None, k.who} /\ k.at = k.who
    BY <1>1, <1>3, <1>15 DEF ClearStep, CalmCall
  <2>2. UNCHANGED <<auth, account, docs, reset>> /\ wronged' = {}
    BY <1>1, <1>3, <1>15, <2>1 DEF ClearStep
  <2>3. CASE calls' = [calls EXCEPT ![c] = Idle]
    BY <1>3, <1>7, <1>8, <2>2, <2>3, RestCalm
  <2>4. CASE After[k.pc] # "idle" /\ auth # None
             /\ calls' = [calls EXCEPT ![c] = [k EXCEPT !.pc = After[k.pc], !.at = auth]]
    <3>1. PICK r : r = [k EXCEPT !.pc = After[k.pc], !.at = auth]
      OBVIOUS
    <3>2. /\ calls' = [calls EXCEPT ![c] = r] /\ r.pc = After[k.pc]
          /\ r.at = auth /\ r.who = k.who
      BY <1>2, <2>4, <3>1 DEF Call
    <3>3. r.pc \in Clearing
      BY <2>1, <2>4, <3>2 DEF After, Clearing
    <3>4. CalmCall(r)'
      BY <2>1, <2>2, <2>4, <3>2, <3>3
        DEF CalmCall, WritesDoc, Born, Clearing, SignInSteps, Asking
    <3> QED
      BY <1>3, <1>8, <2>2, <3>2, <3>4
  <2> QED
    BY <1>1, <1>15, <2>3, <2>4 DEF ClearStep
<1> QED
  BY <1>9, <1>10, <1>11, <1>12, <1>13, <1>14, <1>15 DEF Continue

\* The hurries are only counted up.
LEMMA HurriesStay ==
  ASSUME UsedType, NEW n \in {0, 1}, Act(n), used'.hurries = 0
  PROVE  used.hurries = 0 /\ ~ Hurried
<1>1. used' = [used EXCEPT !.signIns = @ + n,
                           !.hurries = IF Hurried THEN used.hurries + 1 ELSE used.hurries]
  BY DEF Act
<1>2. used'.hurries = IF Hurried THEN used.hurries + 1 ELSE used.hurries
  BY <1>1 DEF UsedType
<1> QED
  BY <1>2 DEF UsedType

LEMMA CalmStep == SessionInv /\ CalmInv /\ [Next]_vars => CalmInv'
<1> SUFFICES ASSUME SessionInv, CalmInv, [Next]_vars, used'.hurries = 0
             PROVE  Calm'
  BY DEF CalmInv
<1> USE DEF fire, app, history
<1>1. UsedType /\ Doors \subseteq Calls /\ Cleaners \subseteq Calls
  BY TypeParts DEF SessionInv, Calls
<1>2. CASE \/ Build \/ Deliver \/ Greet \/ LoadHome \/ ShowTasks \/ EndOnboarding \/ OpenTasks
           \/ OpenSettings \/ GoBack \/ UNCHANGED vars
           \/ (\E t \in Tasks : CreateTask(t))
           \/ (\E a \in Accounts : AcceptDeletion(a) \/ RefuseDeletion(a))
  <2>1. used' = used
    BY <1>2 DEF Build, Deliver, Greet, LoadHome, ShowTasks, EndOnboarding, OpenTasks,
                OpenSettings, GoBack, vars, CreateTask, AcceptDeletion, RefuseDeletion
  <2> QED
    BY <1>2, <2>1, CalmScreens DEF CalmInv
<1>3. CASE RefreshToken \/ Restart
  <2>1. used'.hurries = used.hurries
    BY <1>1, <1>3 DEF RefreshToken, Restart, Interrupt, UsedType
  <2> QED
    BY <1>3, <2>1, CalmScreens DEF CalmInv
<1>4. ASSUME NEW c \in Calls, Continue(c) PROVE Calm'
  <2>1. used' = used
    BY <1>4 DEF Continue, Authenticate, Reject, Signed, Joined, Registered, SignedOut, DeleteUser,
                Dismiss, Dismissed, ClearStep
  <2> QED
    BY <1>4, <2>1, CalmContinues DEF CalmInv
<1>5. ASSUME NEW c \in Doors, NEW a \in Accounts, NEW step \in Asking, SignIn(c, a, step)
      PROVE  Calm'
  <2>1. used.hurries = 0 /\ ~ Hurried
    BY <1>1, <1>5, HurriesStay DEF SignIn
  <2>2. /\ Begin(c, step, a) /\ screen = "login" /\ c \in Calls
        /\ UNCHANGED <<auth, account, user, events, reset, wronged, docs, greeting>>
    BY <1>1, <1>5 DEF SignIn
  <2> QED
    BY <2>1, <2>2, CalmBegins DEF CalmInv
<1>6. ASSUME NEW c \in Doors, SignOut(c) PROVE Calm'
  <2>1. used.hurries = 0 /\ ~ Hurried
    BY <1>1, <1>6, HurriesStay DEF SignOut
  <2>2. /\ Begin(c, "leaving", user) /\ c \in Calls
        /\ UNCHANGED <<auth, account, user, events, reset, wronged, docs>>
    BY <1>1, <1>6 DEF SignOut
  <2> QED
    BY <2>1, <2>2, CalmBegins DEF CalmInv
<1>7. ASSUME NEW c \in Cleaners, DeleteAccount(c) \/ ClearRecord(c) PROVE Calm'
  <2>1. used.hurries = 0 /\ ~ Hurried
    BY <1>1, <1>7, HurriesStay DEF DeleteAccount, ClearRecord
  <2>2. /\ Begin(c, "erasing", auth) \/ Begin(c, "tasks", auth)
        /\ docs' \subseteq docs /\ c \in Calls
        /\ UNCHANGED <<auth, account, user, events, reset, wronged>>
    BY <1>1, <1>7 DEF DeleteAccount, ClearRecord
  <2> QED
    BY <2>1, <2>2, CalmBegins DEF CalmInv
<1> QED
  BY <1>2, <1>3, <1>4, <1>5, <1>6, <1>7 DEF Next, SystemStep, UserStep

LEMMA InitCalm == Init => CalmInv
<1> SUFFICES ASSUME Init PROVE Calm
  BY DEF CalmInv
<1>1. \A c \in Calls : calls[c].pc = "idle"
  BY DEF Init, Idle
<1> QED
  BY <1>1 DEF Init, Calm, CalmCall, SignInSteps, Asking, Born, WritesDoc, Clearing

LEMMA CalmStays == Spec => []CalmInv
  BY InitInv, InitCalm, Invariance, CalmStep, PTL DEF Spec

(* Without hurry addUser only ever makes the document of a new account. *)
THEOREM DocumentsAreKept == Spec => []DocumentsAreNotReset
  <1>1. CalmInv => DocumentsAreNotReset
    BY DEF CalmInv, Calm, DocumentsAreNotReset
  <1> QED
    BY <1>1, CalmStays, PTL

(* Without hurry only the account that gave something up loses it. *)
THEOREM OwnersGiveUp == Spec => []NobodyIsWronged
  <1>1. CalmInv => NobodyIsWronged
    BY DEF CalmInv, Calm, NobodyIsWronged
  <1> QED
    BY <1>1, CalmStays, PTL
=============================================================================
