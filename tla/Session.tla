------------------------------ MODULE Session ------------------------------
(* Who uses the app: the global `user` of main.dart, the screens that depend *)
(* on it, signing in, up and out, deleting an account and clearing its       *)
(* records, and the path that taskDBS keeps for the rest of a run.           *)
(* Firebase's current user changes at once; the app hears of it later, from  *)
(* a stream, and then rebuilds everything: MyApp.build makes a new future    *)
(* for its FutureBuilder, which shows Loading and then another MaterialApp.  *)
EXTENDS Sequences, Naturals, FiniteSets

CONSTANTS Accounts, Doors, Cleaners, Tasks, None, Unset,
          MaxSignIns, MaxHurries, MaxInterrupts

ASSUME NamesAssumption == None \notin Accounts /\ Unset \notin Accounts \cup {None}
ASSUME BoundsAssumption == {MaxSignIns, MaxHurries, MaxInterrupts} \subseteq Nat

VARIABLES
  auth,      \* the current user of FirebaseAuth
  account,   \* the state of every account
  doomed,    \* accounts whose deletion was requested and not answered
  events,    \* what userChanges() has not yet delivered to MyApp
  greeting,  \* the first event of the sign-in screen's own subscription
  user,      \* the global of main.dart
  first,     \* this run shows the introduction (initScreen)
  screen,    \* the screen on top
  home,      \* the state of the home screen
  path,      \* the account in the path of taskDBS
  docs,      \* accounts that have a user document
  filed,     \* where each task was created, and whose it is
  asked,     \* whose tasks the list has asked for
  shown,     \* the tasks on the list
  calls,     \* the invocations of asynchronous functions
  used,      \* how much of each bound was used
  seen,      \* history: accounts that have opened their tasks in this run
  reset,     \* history: accounts whose document was written over by addUser
  wronged,   \* history: accounts that lost what another one gave up
  farewell   \* history: accounts that deleteAccount has finished with

fire == <<auth, account, doomed, docs, filed>>
app == <<events, greeting, user, first, screen, home, path, asked, shown>>
history == <<seen, reset, wronged, farewell>>
vars == <<fire, app, calls, used, history>>

Users == Accounts \cup {None}

(* Invocations that sign in or out, and that delete an account or clear it. *)
Calls == Doors \cup Cleaners
Idle == [pc |-> "idle", who |-> None, at |-> None, new |-> FALSE, mounted |-> FALSE]
NoTask == [owner |-> None, path |-> None, alone |-> FALSE]

(* clearRecord awaits one collection after the other. *)
Clearing == {"tasks", "tags", "fields", "times"}
After == [step \in Clearing |-> IF step = "tasks" THEN "tags" ELSE
                               IF step = "tags" THEN "fields" ELSE
                               IF step = "fields" THEN "times" ELSE "idle"]

Steps == {"idle", "signing", "signed", "google", "facebook", "joinedGoogle",
          "joinedFacebook", "registering", "registered", "leaving",
          "erasing", "dismissing", "dismissed"} \cup Clearing

TypeOK ==
  /\ auth \in Users
  /\ user \in Users
  /\ account \in [Accounts -> {"unborn", "alive", "deleted"}]
  /\ doomed \subseteq Accounts
  /\ events \in Seq(Users)
  /\ greeting \subseteq Users
  /\ first \in BOOLEAN
  /\ screen \in {"start", "onboard", "login", "home", "tasks", "settings"}
  /\ home \in {"none", "loading", "stuck", "broken", "loaded"}
  /\ path \in Users \cup {Unset}
  /\ docs \subseteq Accounts
  /\ filed \in [Tasks -> [owner : Users, path : Users, alone : BOOLEAN]]
  /\ asked \in Users
  /\ shown \subseteq [task : Tasks, owner : Users]
  /\ calls \in [Calls -> [pc : Steps, who : Users, at : Users,
                          new : BOOLEAN, mounted : BOOLEAN]]
  /\ used \in [signIns : 0..MaxSignIns, hurries : 0..MaxHurries,
               interrupts : 0..MaxInterrupts]
  /\ seen \subseteq Accounts
  /\ reset \subseteq Accounts
  /\ wronged \subseteq Accounts
  /\ farewell \subseteq Accounts

(* The first run of the app, or a later one in which somebody may still be *)
(* signed in. userChanges() begins with the current user.                  *)
Init ==
  /\ auth \in Users
  /\ account \in [Accounts -> {"unborn", "alive"}]
  /\ auth # None => account[auth] = "alive"
  /\ docs = {a \in Accounts : account[a] = "alive"}
  /\ doomed = {}
  /\ first \in BOOLEAN
  /\ first => auth = None
  /\ events = <<auth>>
  /\ greeting = {}
  /\ user = None
  /\ screen = "start"
  /\ home = "none"
  /\ path = Unset
  /\ filed = [t \in Tasks |-> NoTask]
  /\ asked = None
  /\ shown = {}
  /\ calls = [c \in Calls |-> Idle]
  /\ used = [signIns |-> 0, hurries |-> 0, interrupts |-> 0]
  /\ seen = {} /\ reset = {} /\ wronged = {} /\ farewell = {}

-----------------------------------------------------------------------------
(* The screens. *)

(* The user is in a hurry: he acts before the last thing he did has come    *)
(* to its end and the app has heard of it, or signs in over somebody else.  *)
Hurried == \/ events # <<>>
           \/ \E c \in Calls : calls[c].pc # "idle"
           \/ screen = "login" /\ user # None
Act(signIns) ==
  /\ Hurried => used.hurries < MaxHurries
  /\ used.signIns + signIns <= MaxSignIns
  /\ used' = [used EXCEPT !.signIns = @ + signIns,
                          !.hurries = IF Hurried THEN @ + 1 ELSE @]

(* A new home screen: getNameAndMoney in initState. Without a current user  *)
(* it loads nothing, and build reads `late` fields that were never set;     *)
(* with one that `user` does not show yet DatabaseServices() throws, and    *)
(* `loading` stays true.                                                    *)
NewHome ==
  /\ screen' = "home"
  /\ home' = IF auth = None THEN "broken" ELSE IF user = None THEN "stuck" ELSE "loading"
  /\ greeting' = {}

(* A new sign-in screen, which subscribes to userChanges() as well. *)
NewSignIn == screen' = "login" /\ home' = "none" /\ greeting' = {auth}

\* Mutant: the initial route does not look at `user`.
BuildMutant ==
  /\ screen = "start"
  /\ \/ first /\ screen' = "onboard" /\ home' = "none" /\ greeting' = {}
     \/ ~first /\ NewHome
  /\ UNCHANGED <<fire, events, user, first, path, asked, shown, calls, used, history>>

(* The first frame after Loading: the initial route of the new MaterialApp. *)
Build ==
  /\ screen = "start"
  /\ \/ first /\ screen' = "onboard" /\ home' = "none" /\ greeting' = {}
     \/ ~first /\ user = None /\ NewSignIn
     \/ ~first /\ user # None /\ NewHome
  /\ UNCHANGED <<fire, events, user, first, path, asked, shown, calls, used, history>>

\* Mutant: an event that comes while Loading is shown is dropped.
DeliverUnmountedMutant ==
  /\ events # <<>>
  /\ user' = IF screen = "start" THEN user ELSE Head(events)
  /\ events' = Tail(events)
  /\ screen' = "start" /\ home' = "none" /\ greeting' = {}
  /\ asked' = None /\ shown' = {}
  /\ calls' = [c \in Calls |-> [calls[c] EXCEPT !.mounted = FALSE]]
  /\ UNCHANGED <<fire, first, path, used, history>>

\* Mutant: the screens stay as they are.
DeliverInPlaceMutant ==
  /\ events # <<>>
  /\ user' = Head(events)
  /\ events' = Tail(events)
  /\ UNCHANGED <<fire, greeting, first, screen, home, path, asked, shown, calls, used, history>>

(* MyApp hears of a user: setState, and everything below it is rebuilt. The *)
(* functions that are suspended have lost their screens.                    *)
Deliver ==
  /\ events # <<>>
  /\ user' = Head(events)
  /\ events' = Tail(events)
  /\ screen' = "start" /\ home' = "none" /\ greeting' = {}
  /\ asked' = None /\ shown' = {}
  /\ calls' = [c \in Calls |-> [calls[c] EXCEPT !.mounted = FALSE]]
  /\ UNCHANGED <<fire, first, path, used, history>>

(* The sign-in screen hears of the user that was current when it was shown. *)
Greet ==
  /\ screen = "login"
  /\ \E who \in greeting : user' = who
  /\ greeting' = {}
  /\ UNCHANGED <<fire, events, first, screen, home, path, asked, shown, calls, used, history>>

EndOnboarding ==
  /\ screen = "onboard"
  /\ NewSignIn
  /\ UNCHANGED <<fire, events, user, first, path, asked, shown, calls, used, history>>

LoadHome ==
  /\ home = "loading"
  /\ home' = "loaded"
  /\ UNCHANGED <<fire, events, greeting, user, first, screen, path, asked, shown,
                 calls, used, history>>

\* Mutant: the path is that of Firebase's current user.
OpenTasksAuthMutant ==
  /\ screen = "home" /\ home = "loaded" /\ user # None
  /\ screen' = "tasks"
  /\ path' = IF path = Unset THEN auth ELSE path
  /\ asked' = user
  /\ seen' = seen \cup {user}
  /\ UNCHANGED <<fire, events, greeting, user, first, home, shown, calls, used,
                 reset, wronged, farewell>>

(* A list is opened: getEventList of `user`. taskDBS is made at its first   *)
(* use, with the path of the user of that moment.                           *)
OpenTasks ==
  /\ screen = "home" /\ home = "loaded" /\ user # None
  /\ screen' = "tasks"
  /\ path' = IF path = Unset THEN user ELSE path
  /\ asked' = user
  /\ seen' = seen \cup {user}
  /\ UNCHANGED <<fire, events, greeting, user, first, home, shown, calls, used,
                 reset, wronged, farewell>>

\* Mutant: the query has no userId.
ShowTasksMutant ==
  /\ asked # None
  /\ shown' = {[task |-> t, owner |-> filed[t].owner] :
                 t \in {t \in Tasks : filed[t].path = path}}
  /\ asked' = None
  /\ UNCHANGED <<fire, events, greeting, user, first, screen, home, path, calls, used, history>>

(* The answer: the tasks under the path with the userId that was asked for. *)
ShowTasks ==
  /\ asked # None
  /\ shown' = {[task |-> t, owner |-> filed[t].owner] :
                 t \in {t \in Tasks : filed[t].path = path /\ filed[t].owner = asked}}
  /\ asked' = None
  /\ UNCHANGED <<fire, events, greeting, user, first, screen, home, path, calls, used, history>>

(* The form of a new task: userId is `user`, the path that of taskDBS. *)
CreateTask(t) ==
  /\ screen = "tasks" /\ user # None /\ filed[t] = NoTask
  /\ filed' = [filed EXCEPT ![t] = [owner |-> user, path |-> path, alone |-> seen = {user}]]
  /\ asked' = user
  /\ UNCHANGED <<auth, account, doomed, docs, events, greeting, user, first, screen,
                 home, path, shown, calls, used, history>>

OpenSettings ==
  /\ screen = "home" /\ home = "loaded"
  /\ screen' = "settings"
  /\ UNCHANGED <<fire, events, greeting, user, first, home, path, asked, shown,
                 calls, used, history>>

(* Back to the home screen. What deleteAccount does next needs the settings. *)
GoBack ==
  /\ screen \in {"tasks", "settings"}
  /\ screen' = "home"
  /\ asked' = None /\ shown' = {}
  /\ calls' = [c \in Calls |-> [calls[c] EXCEPT !.mounted = FALSE]]
  /\ UNCHANGED <<fire, events, greeting, user, first, home, path, used, history>>

-----------------------------------------------------------------------------
(* Signing in and up. *)

Begin(c, step, who) ==
  /\ calls[c].pc = "idle"
  /\ calls' = [calls EXCEPT ![c] =
                 [pc |-> step, who |-> who, at |-> who, new |-> FALSE, mounted |-> TRUE]]

SignIn(c, a, step) ==
  /\ screen = "login"
  /\ Act(1)
  /\ Begin(c, step, a)
  /\ step \in {"signing", "registering"} \/ account[a] # "deleted"
  /\ UNCHANGED <<fire, app, history>>

Tell(who) == auth' = who /\ events' = Append(events, who)

Asking == {"signing", "google", "facebook", "registering"}
Answered == [step \in Asking |-> IF step = "signing" THEN "signed" ELSE
                                IF step = "google" THEN "joinedGoogle" ELSE
                                IF step = "facebook" THEN "joinedFacebook" ELSE "registered"]

(* Firebase has signed the account in; with a provider, or by signing up,   *)
(* the account may be new.                                                  *)
Authenticate(c) ==
  LET call == calls[c]
      new == account[call.who] = "unborn"
  IN /\ call.pc \in Asking
     /\ call.pc = "signing" => account[call.who] = "alive"
     /\ call.pc = "registering" => new
     /\ account[call.who] # "deleted"
     /\ Tell(call.who)
     /\ account' = [account EXCEPT ![call.who] = "alive"]
     /\ calls' = [calls EXCEPT ![c].pc = Answered[call.pc], ![c].new = new]
     /\ UNCHANGED <<doomed, docs, filed, greeting, user, first, screen, home, path,
                    asked, shown, used, history>>

(* A wrong password, an email already in use, no network: a message at most. *)
Reject(c) ==
  /\ calls[c].pc \in Asking
  /\ calls' = [calls EXCEPT ![c] = Idle]
  /\ UNCHANGED <<fire, app, used, history>>

(* pushReplacement, at the end of c: it throws without the screen that c    *)
(* came from, and takes that screen from every other invocation.            *)
Leave(c) == calls' = [d \in Calls |-> IF d = c THEN Idle ELSE [calls[d] EXCEPT !.mounted = FALSE]]

EnterHome(c) ==
  IF calls[c].mounted
    THEN NewHome /\ Leave(c)
    ELSE /\ calls' = [calls EXCEPT ![c] = Idle]
         /\ UNCHANGED <<screen, home, greeting>>

addUser(a) == docs' = docs \cup {a} /\ reset' = reset \cup (docs \cap {a})

(* _signin after its await. *)
Signed(c) ==
  /\ calls[c].pc = "signed"
  /\ EnterHome(c)
  /\ UNCHANGED <<fire, events, user, first, path, asked, shown, used, history>>

\* Mutant: every sign-in with a provider adds a document.
JoinedMutant(c) ==
  /\ calls[c].pc \in {"joinedGoogle", "joinedFacebook"}
  /\ IF user = None THEN UNCHANGED <<docs, reset>> ELSE addUser(user)
  /\ EnterHome(c)
  /\ UNCHANGED <<auth, account, doomed, filed, events, user, first, path, asked,
                 shown, used, seen, wronged, farewell>>

(* signInWithGoogle and signInWithFacebook after theirs: a new account gets *)
(* a document, that of `user`; without one nothing more happens. Facebook   *)
(* signs in once more.                                                      *)
Joined(c) ==
  LET call == calls[c] IN
  /\ call.pc \in {"joinedGoogle", "joinedFacebook"}
  /\ \/ /\ call.new /\ user = None
        /\ calls' = [calls EXCEPT ![c] = Idle]
        /\ UNCHANGED <<docs, reset, screen, home, greeting>>
     \/ /\ call.new => user # None
        /\ IF call.new THEN addUser(user) ELSE UNCHANGED <<docs, reset>>
        /\ \/ /\ call.pc = "joinedGoogle"
              /\ EnterHome(c)
           \/ /\ call.pc = "joinedFacebook"
              /\ calls' = [calls EXCEPT ![c].pc = "signing", ![c].new = FALSE]
              /\ UNCHANGED <<screen, home, greeting>>
  /\ UNCHANGED <<auth, account, doomed, filed, events, user, first, path, asked,
                 shown, used, seen, wronged, farewell>>

(* _register after its await: the document is that of the new account, but  *)
(* DatabaseServices() needs `user`.                                         *)
Registered(c) ==
  /\ calls[c].pc = "registered"
  /\ calls' = [calls EXCEPT ![c] = Idle]
  /\ \/ user = None /\ UNCHANGED <<docs, reset, screen, home, greeting>>
     \/ /\ user # None
        /\ addUser(calls[c].who)
        /\ IF calls[c].mounted THEN NewSignIn ELSE UNCHANGED <<screen, home, greeting>>
  /\ UNCHANGED <<auth, account, doomed, filed, events, user, first, path, asked,
                 shown, used, seen, wronged, farewell>>

-----------------------------------------------------------------------------
(* Leaving. *)

(* Log out: signOut is not awaited, the sign-in screen is there at once. *)
SignOut(c) ==
  /\ screen = "home" /\ home = "loaded"
  /\ Act(0)
  /\ Begin(c, "leaving", user)
  /\ NewSignIn
  /\ UNCHANGED <<fire, events, user, first, path, asked, shown, history>>

Quit == IF auth = None THEN UNCHANGED <<auth, events>> ELSE Tell(None)

SignedOut(c) ==
  /\ calls[c].pc = "leaving"
  /\ Quit
  /\ calls' = [calls EXCEPT ![c] = Idle]
  /\ UNCHANGED <<account, doomed, docs, filed, greeting, user, first, screen, home,
                 path, asked, shown, used, history>>

(* deleteAccount: the document of the current user, and nothing below it. *)
DeleteAccount(c) ==
  /\ screen = "settings" /\ auth # None
  /\ Act(0)
  /\ Begin(c, "erasing", auth)
  /\ docs' = docs \ {auth}
  /\ UNCHANGED <<auth, account, doomed, filed, app, history>>

(* The account, which is not awaited, and then signOut, which is. The       *)
(* current user is read again.                                              *)
DeleteUser(c) ==
  /\ calls[c].pc = "erasing"
  /\ \/ auth = None /\ calls' = [calls EXCEPT ![c] = Idle] /\ UNCHANGED <<doomed, wronged>>
     \/ /\ auth # None
        /\ doomed' = doomed \cup {auth}
        /\ wronged' = wronged \cup ({auth} \ {calls[c].who})
        /\ calls' = [calls EXCEPT ![c].pc = "dismissing"]
  /\ UNCHANGED <<auth, account, docs, filed, app, used, seen, reset, farewell>>

(* Firebase deletes the account, or refuses: the sign-in is too long ago. *)
AcceptDeletion(a) ==
  /\ a \in doomed
  /\ doomed' = doomed \ {a}
  /\ account' = [account EXCEPT ![a] = "deleted"]
  /\ IF auth = a THEN Tell(None) ELSE UNCHANGED <<auth, events>>
  /\ UNCHANGED <<docs, filed, greeting, user, first, screen, home, path, asked,
                 shown, calls, used, history>>
RefuseDeletion(a) ==
  /\ a \in doomed
  /\ doomed' = doomed \ {a}
  /\ UNCHANGED <<auth, account, docs, filed, app, calls, used, history>>

Dismiss(c) ==
  /\ calls[c].pc = "dismissing"
  /\ Quit
  /\ calls' = [calls EXCEPT ![c].pc = "dismissed"]
  /\ UNCHANGED <<account, doomed, docs, filed, greeting, user, first, screen, home,
                 path, asked, shown, used, history>>

Dismissed(c) ==
  /\ calls[c].pc = "dismissed"
  /\ IF calls[c].mounted
       THEN NewSignIn /\ Leave(c)
       ELSE calls' = [calls EXCEPT ![c] = Idle] /\ UNCHANGED <<screen, home, greeting>>
  /\ farewell' = farewell \cup {calls[c].who}
  /\ UNCHANGED <<fire, events, user, first, path, asked, shown, used, seen, reset, wronged>>

\* Mutant: the tasks are those of taskDBS.
ClearRecordMutant(c) ==
  /\ screen = "settings" /\ auth # None
  /\ Act(0)
  /\ calls[c].pc = "idle"
  /\ calls' = [calls EXCEPT ![c] =
                 [pc |-> "tasks", who |-> auth, new |-> FALSE, mounted |-> TRUE,
                  at |-> IF path = Unset THEN auth ELSE path]]
  /\ UNCHANGED <<fire, app, history>>

(* clearRecord: every collection is that of the current user of the moment. *)
ClearRecord(c) ==
  /\ screen = "settings" /\ auth # None
  /\ Act(0)
  /\ Begin(c, "tasks", auth)
  /\ UNCHANGED <<fire, app, history>>

ClearStep(c) ==
  LET call == calls[c]
      goesOn == After[call.pc] # "idle" /\ auth # None
  IN /\ call.pc \in Clearing
     /\ filed' = IF call.pc = "tasks"
                   THEN [t \in Tasks |-> IF filed[t].path = call.at THEN NoTask ELSE filed[t]]
                   ELSE filed
     /\ wronged' = wronged \cup ({call.at} \ {call.who})
     /\ calls' = [calls EXCEPT ![c] =
                 IF goesOn THEN [call EXCEPT !.pc = After[call.pc], !.at = auth] ELSE Idle]
     /\ UNCHANGED <<auth, account, doomed, docs, app, used, seen, reset, farewell>>

-----------------------------------------------------------------------------
(* The environment. *)

Interrupt == /\ used.interrupts < MaxInterrupts
             /\ used' = [used EXCEPT !.interrupts = @ + 1]

(* userChanges() also tells of a new token of the same user. *)
RefreshToken ==
  /\ auth # None
  /\ Interrupt
  /\ Tell(auth)
  /\ UNCHANGED <<account, doomed, docs, filed, greeting, user, first, screen, home, path,
                 asked, shown, calls, history>>

Restart ==
  /\ Interrupt
  /\ events' = <<auth>> /\ greeting' = {} /\ user' = None /\ first' = FALSE
  /\ screen' = "start" /\ home' = "none" /\ path' = Unset
  /\ asked' = None /\ shown' = {}
  /\ calls' = [c \in Calls |-> Idle]
  /\ seen' = {}
  /\ UNCHANGED <<fire, reset, wronged, farewell>>

Continue(c) ==
  \/ Authenticate(c) \/ Reject(c) \/ Signed(c) \/ Joined(c) \/ Registered(c)
  \/ SignedOut(c) \/ DeleteUser(c) \/ Dismiss(c) \/ Dismissed(c) \/ ClearStep(c)

SystemStep ==
  \/ Build \/ Deliver \/ Greet \/ LoadHome \/ ShowTasks
  \/ \E c \in Calls : Continue(c)

UserStep ==
  \/ EndOnboarding \/ OpenTasks \/ OpenSettings \/ GoBack
  \/ \E t \in Tasks : CreateTask(t)
  \/ \E c \in Doors :
       \/ \E a \in Accounts, step \in Asking :
            SignIn(c, a, step)
       \/ SignOut(c)
  \/ \E c \in Cleaners : DeleteAccount(c) \/ ClearRecord(c)

Next ==
  \/ SystemStep \/ UserStep
  \/ \E a \in Accounts : AcceptDeletion(a) \/ RefuseDeletion(a)
  \/ RefreshToken \/ Restart

Spec == Init /\ [][Next]_vars

(* The streams deliver, the frames are drawn, the home screen's reads and   *)
(* every await are answered; nobody is obliged to act.                      *)
FairSpec == /\ Spec
            /\ WF_vars(Deliver) /\ WF_vars(Build) /\ WF_vars(LoadHome)
            /\ \A c \in Calls : WF_vars(Continue(c))

-----------------------------------------------------------------------------
(* Once every event is delivered the app's `user` is Firebase's, although   *)
(* two subscriptions of different age write it.                             *)
UserIsCurrent == events = <<>> => user = auth

(* A home screen that was built too early, and can only load forever or     *)
(* show an error, lasts no longer than the event on its way.                *)
BadHomeIsBrief == home \in {"stuck", "broken"} => events # <<>>

(* A list shows tasks of the user only, whatever path taskDBS still has. *)
ShownAreOwn == \A row \in shown : row.owner = user

(* A task that is created while only its owner has opened tasks in this run *)
(* of the app is stored under the owner's path.                             *)
TasksAreFiled == \A t \in Tasks : filed[t].alone => filed[t].path = filed[t].owner

(* A document with its coins and creatures is not written over by addUser,  *)
(* unless the user acts faster than the app hears of it.                    *)
DocumentsAreNotReset == used.hurries = 0 => reset = {}

(* Only the account that asked loses its records or is deleted. *)
NobodyIsWronged == used.hurries = 0 => wronged = {}

(* Who is signed in comes home, after the first run of the app. *)
ComesHome == (auth # None /\ ~first) ~> (home = "loaded" \/ auth = None)

(* The dialog says "You can no longer use this account." *)
DeletedIsDeleted == \A a \in farewell : account[a] = "deleted" \/ a \in doomed
=============================================================================
