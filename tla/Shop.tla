-------------------------------- MODULE Shop --------------------------------
(***************************************************************************)
(* Buying marine creatures (screens/UserPages/Shop, and the money and      *)
(* marlives fields that services/database_services.dart keeps in the       *)
(* user's Firestore document).                                             *)
(*                                                                         *)
(* One account is used from several devices.  Each device shows a stack of *)
(* pages (home, shop, details of one creature, dialogs).  _purchase is an  *)
(* asynchronous function: it is suspended at every await, the user can go  *)
(* on navigating, and other invocations of it can run in between.  The     *)
(* document is the only state the devices share.                           *)
(***************************************************************************)
EXTENDS Integers, FiniteSets, Sums

CONSTANTS
  Devices,     \* the devices signed in to the account
  Creatures,   \* the ids in marinesCreatures
  Price,       \* Price[x]: the price of creature x
  MaxPrice,    \* no creature costs more
  Calls,       \* the invocations of _purchase that may be in flight together
  Shops,       \* the instances of _ShopScreenState that may exist together
  InitMoney,   \* the balance the account starts with
  Rewards,     \* amounts the other screens credit with addMoney
  MaxEarned,   \* bound: how often they do
  MaxCrashes   \* bound: how often a device is killed

ASSUME CreaturesAssumption ==
  /\ Price \in [Creatures -> Nat]
  /\ MaxPrice \in Nat
  /\ \A x \in Creatures : Price[x] <= MaxPrice

ASSUME CallsAssumption == IsFiniteSet(Calls) /\ Calls # {}

ASSUME AccountAssumption ==
  /\ InitMoney \in Nat
  /\ Rewards \subseteq Nat
  /\ MaxEarned \in Nat
  /\ MaxCrashes \in Nat

VARIABLES
  money,       \* field "money" of the user's document
  marlives,    \* field "marlives": the list never repeats an id, so it is a set
  page,        \* page[d]: the page of device d under any dialogs
  dialogs,     \* dialogs[d]: the purchase dialogs stacked on that page
  homeMoney,   \* homeMoney[d]: _HomeScreenState.fishMoney
  shopOf,      \* shopOf[d]: the _ShopScreenState that device d shows
  shop,        \* shop[s]: the fields of _ShopScreenState instance s
  details,     \* details[d]: the fields of the DetailScreen that d shows
  call,        \* call[c]: where invocation c of _purchase is suspended
  earned,      \* how many rewards have been credited
  crashes,     \* how many times a device has been killed
  paid         \* history: the creatures that were paid for at least once

navVars == <<page, dialogs, shopOf, details>>
docVars == <<money, marlives>>
boundVars == <<earned, crashes>>
vars == <<money, marlives, page, dialogs, homeMoney, shopOf, shop, details,
          call, earned, crashes, paid>>

Pages == {"starting", "home", "loadingMoney", "loadingLives", "shop", "details"}
ShopPages == {"loadingMoney", "loadingLives", "shop", "details"}

ShopState == [mounted : BOOLEAN, fishMoney : Int, marLives : SUBSET Creatures]

\* A new _ShopScreenState, before getMarMoney has answered; and a collected one.
NewShop == [mounted |-> TRUE, fishMoney |-> 0, marLives |-> {}]
NoShop == [mounted |-> FALSE, fishMoney |-> 0, marLives |-> {}]

DetailsState == [marLife : Creatures, isBought : BOOLEAN]
NoDetails == [isBought |-> TRUE]

(***************************************************************************)
(* An invocation of _purchase awaits the balance ("asking"), resumes with  *)
(* hasEnough ("approved" or "refused"), and after the charge awaits the    *)
(* list of creatures inside addMarLives ("reading") and resumes with it    *)
(* ("writing").  pageUp says whether the BuildContext it captured is still *)
(* in the tree.                                                            *)
(***************************************************************************)
Idle == [pc |-> "idle"]
InFlight ==
  [pc : {"asking", "approved", "refused", "reading", "writing"},
   device : Devices, shop : Shops, marLife : Creatures, pageUp : BOOLEAN,
   marList : SUBSET Creatures]

TypeOK ==
  /\ money \in Int
  /\ marlives \subseteq Creatures
  /\ page \in [Devices -> Pages]
  /\ dialogs \in [Devices -> Nat]
  /\ homeMoney \in [Devices -> Int]
  /\ shopOf \in [Devices -> Shops]
  /\ shop \in [Shops -> ShopState]
  /\ details \in [Devices -> DetailsState \union {NoDetails}]
  /\ call \in [Calls -> InFlight \union {Idle}]
  /\ earned \in 0 .. MaxEarned
  /\ crashes \in 0 .. MaxCrashes
  /\ paid \subseteq Creatures

Init ==
  /\ money = InitMoney
  /\ marlives = {}
  /\ page = [d \in Devices |-> "starting"]
  /\ dialogs = [d \in Devices |-> 0]
  /\ homeMoney = [d \in Devices |-> 0]
  /\ shopOf \in [Devices -> Shops]
  /\ shop = [s \in Shops |-> NoShop]
  /\ details = [d \in Devices |-> NoDetails]
  /\ call = [c \in Calls |-> Idle]
  /\ earned = 0
  /\ crashes = 0
  /\ paid = {}

-----------------------------------------------------------------------------
(* Pages. *)

\* The home screen appears once getNameAndMoney has read the balance.
Launch(d) ==
  /\ page[d] = "starting"
  /\ page' = [page EXCEPT ![d] = "home"]
  /\ homeMoney' = [homeMoney EXCEPT ![d] = money]
  /\ UNCHANGED <<docVars, dialogs, shopOf, shop, details, call, boundVars, paid>>

\* An instance is in use while a page shows it or a suspended invocation holds its
\* _update.  The fields of one that is not are garbage.
InUse(s, shops, calls) ==
  \/ shops[s].mounted
  \/ \E c \in Calls : calls[c] # Idle /\ calls[c].shop = s

ShopsAndCallsBecome(shops, calls) ==
  /\ call' = calls
  /\ shop' = [s \in Shops |-> IF InUse(s, shops, calls) THEN shops[s] ELSE NoShop]

OpenShop(d) ==
  /\ page[d] = "home"
  /\ \E s \in Shops :
       /\ ~ InUse(s, shop, call)
       /\ shopOf' = [shopOf EXCEPT ![d] = s]
       /\ shop' = [shop EXCEPT ![s] = NewShop]
  /\ page' = [page EXCEPT ![d] = "loadingMoney"]
  /\ UNCHANGED <<docVars, dialogs, homeMoney, details, call, boundVars, paid>>

\* getMarMoney awaits the balance, then the creatures.
LoadMoney(d) ==
  /\ page[d] = "loadingMoney"
  /\ shop' = [shop EXCEPT ![shopOf[d]].fishMoney = money]
  /\ page' = [page EXCEPT ![d] = "loadingLives"]
  /\ UNCHANGED <<docVars, dialogs, homeMoney, shopOf, details, call, boundVars, paid>>

LoadLives(d) ==
  /\ page[d] = "loadingLives"
  /\ shop' = [shop EXCEPT ![shopOf[d]].marLives = marlives]
  /\ page' = [page EXCEPT ![d] = "shop"]
  /\ UNCHANGED <<docVars, dialogs, homeMoney, shopOf, details, call, boundVars, paid>>

\* isBought is computed when the page is pushed and never again.
OpenDetails(d, x) ==
  /\ page[d] = "shop"
  /\ dialogs[d] = 0
  /\ details' = [details EXCEPT ![d] =
                   [marLife |-> x, isBought |-> x \in shop[shopOf[d]].marLives]]
  /\ page' = [page EXCEPT ![d] = "details"]
  /\ UNCHANGED <<docVars, dialogs, homeMoney, shopOf, shop, call, boundVars, paid>>

\* The suspended invocations of device d lose their BuildContext.
ContextsGone(d) ==
  [c \in Calls |-> IF call[c] # Idle /\ call[c].device = d
                   THEN [call[c] EXCEPT !.pageUp = FALSE]
                   ELSE call[c]]

\* Navigator.pop on the details page: by the back button or by a dialog's Ok.
PopDetails(d) ==
  /\ page' = [page EXCEPT ![d] = "shop"]
  /\ details' = [details EXCEPT ![d] = NoDetails]
  /\ call' = ContextsGone(d)

LeaveDetails(d) ==
  /\ page[d] = "details"
  /\ dialogs[d] = 0
  /\ PopDetails(d)
  /\ UNCHANGED <<docVars, dialogs, homeMoney, shopOf, shop, boundVars, paid>>

LeaveShop(d) ==
  /\ page[d] \in {"loadingMoney", "loadingLives", "shop"}
  /\ page' = [page EXCEPT ![d] = "home"]
  /\ ShopsAndCallsBecome([shop EXCEPT ![shopOf[d]].mounted = FALSE], call)
  /\ UNCHANGED <<docVars, dialogs, homeMoney, shopOf, details, boundVars, paid>>

\* A dialog closed by a touch outside it or by the back button.
DismissDialog(d) ==
  /\ dialogs[d] > 0
  /\ dialogs' = [dialogs EXCEPT ![d] = @ - 1]
  /\ UNCHANGED <<docVars, page, homeMoney, shopOf, shop, details, call, boundVars, paid>>

\* Ok pops twice: the dialog, and whatever is under it.
PressOk(d) ==
  /\ dialogs[d] > 0
  /\ \/ /\ dialogs[d] = 1
        /\ dialogs' = [dialogs EXCEPT ![d] = 0]
        /\ PopDetails(d)
     \/ /\ dialogs[d] > 1
        /\ dialogs' = [dialogs EXCEPT ![d] = @ - 2]
        /\ UNCHANGED <<page, details, call>>
  /\ UNCHANGED <<docVars, homeMoney, shopOf, shop, boundVars, paid>>

-----------------------------------------------------------------------------
(* _purchase. *)

\* BUY NOW: _purchase runs up to the await of hasEnoughMoney.
Buy(d) ==
  /\ page[d] = "details"
  /\ dialogs[d] = 0
  /\ ~ details[d].isBought
  /\ \E c \in Calls :
       /\ call[c] = Idle
       /\ call' = [call EXCEPT ![c] =
                     [pc |-> "asking", device |-> d, shop |-> shopOf[d],
                      marLife |-> details[d].marLife, pageUp |-> TRUE, marList |-> {}]]
  /\ UNCHANGED <<docVars, navVars, homeMoney, shop, boundVars, paid>>

\* Mutant: the balance is compared with nothing.
AnswerMutant(c) ==
  /\ call[c].pc = "asking"
  /\ call' = [call EXCEPT ![c].pc = "approved"]
  /\ UNCHANGED <<docVars, navVars, homeMoney, shop, boundVars, paid>>

\* The read of hasEnoughMoney takes effect at the server.
Answer(c) ==
  /\ call[c].pc = "asking"
  /\ call' = [call EXCEPT ![c].pc =
                IF money >= Price[call[c].marLife] THEN "approved" ELSE "refused"]
  /\ UNCHANGED <<docVars, navVars, homeMoney, shop, boundVars, paid>>

\* showAlertDialog needs its BuildContext; without it, it throws.
ShowDialog(c) ==
  dialogs' = IF call[c].pageUp
             THEN [dialogs EXCEPT ![call[c].device] = @ + 1]
             ELSE dialogs

\* Mutant: no early return after the refusal, so addMarLives is called.
RefuseMutant(c) ==
  /\ call[c].pc = "refused"
  /\ ShowDialog(c)
  /\ ShopsAndCallsBecome(shop, [call EXCEPT ![c].pc = "reading"])
  /\ UNCHANGED <<docVars, page, homeMoney, shopOf, details, boundVars, paid>>

Refuse(c) ==
  /\ call[c].pc = "refused"
  /\ ShowDialog(c)
  /\ ShopsAndCallsBecome(shop, [call EXCEPT ![c] = Idle])
  /\ UNCHANGED <<docVars, page, homeMoney, shopOf, details, boundVars, paid>>

\* Mutant: only the home screen's copy of the balance is brought up to date.
UpdateHomeOnlyMutant(c, next) ==
  LET s == call[c].shop
  IN  /\ homeMoney' = [homeMoney EXCEPT ![call[c].device] =
                         shop[s].fishMoney - Price[call[c].marLife]]
      /\ ShopsAndCallsBecome(
           [shop EXCEPT ![s].marLives = @ \union {call[c].marLife}],
           [call EXCEPT ![c] = next])

\* Mutant: the home screen is told the balance from before the purchase.
UpdateHomeFirstMutant(c, next) ==
  LET s == call[c].shop
      left == shop[s].fishMoney - Price[call[c].marLife]
  IN  /\ homeMoney' = [homeMoney EXCEPT ![call[c].device] = shop[s].fishMoney]
      /\ ShopsAndCallsBecome(
           [shop EXCEPT ![s].marLives = @ \union {call[c].marLife}, ![s].fishMoney = left],
           [call EXCEPT ![c] = next])

\* _update: the shop's own copies, and its balance copied to the home screen.
UpdateShopState(c, next) ==
  LET s == call[c].shop
      left == shop[s].fishMoney - Price[call[c].marLife]
  IN  /\ homeMoney' = [homeMoney EXCEPT ![call[c].device] = left]
      /\ ShopsAndCallsBecome(
           [shop EXCEPT ![s].marLives = @ \union {call[c].marLife}, ![s].fishMoney = left],
           [call EXCEPT ![c] = next])

\* hasEnough was true: charge, start addMarLives, announce.
Charge(c) ==
  /\ call[c].pc = "approved"
  /\ shop[call[c].shop].mounted
  /\ UpdateShopState(c, [call[c] EXCEPT !.pc = "reading"])
  /\ money' = money - Price[call[c].marLife]
  /\ paid' = paid \union {call[c].marLife}
  /\ ShowDialog(c)
  /\ UNCHANGED <<marlives, page, shopOf, details, boundVars>>

\* The shop was left meanwhile: setState runs _update's body, which changes the
\* disposed copies and the home screen, and then throws.  Nothing is charged.
ChargeAfterLeaving(c) ==
  /\ call[c].pc = "approved"
  /\ ~ shop[call[c].shop].mounted
  /\ UpdateShopState(c, Idle)
  /\ UNCHANGED <<docVars, navVars, boundVars, paid>>

\* addMarLives reads the list, and later writes the whole list back.
ReadLives(c) ==
  /\ call[c].pc = "reading"
  /\ call' = [call EXCEPT ![c].pc = "writing", ![c].marList = marlives]
  /\ UNCHANGED <<docVars, navVars, homeMoney, shop, boundVars, paid>>

\* Mutant: the new creature replaces the list.
WriteNewOnlyMutant(c) ==
  /\ call[c].pc = "writing"
  /\ marlives' = {call[c].marLife}
  /\ ShopsAndCallsBecome(shop, [call EXCEPT ![c] = Idle])
  /\ UNCHANGED <<money, navVars, homeMoney, boundVars, paid>>

\* Mutant: the list is written back as it was read.
WriteReadOnlyMutant(c) ==
  /\ call[c].pc = "writing"
  /\ marlives' = call[c].marList
  /\ ShopsAndCallsBecome(shop, [call EXCEPT ![c] = Idle])
  /\ UNCHANGED <<money, navVars, homeMoney, boundVars, paid>>

WriteLives(c) ==
  /\ call[c].pc = "writing"
  /\ marlives' = call[c].marList \union {call[c].marLife}
  /\ ShopsAndCallsBecome(shop, [call EXCEPT ![c] = Idle])
  /\ UNCHANGED <<money, navVars, homeMoney, boundVars, paid>>

-----------------------------------------------------------------------------
(* The environment. *)

\* A timer, or a task completed on some device, credits a reward.
Earn(r) ==
  /\ earned < MaxEarned
  /\ earned' = earned + 1
  /\ money' = money + r
  /\ UNCHANGED <<marlives, navVars, homeMoney, shop, call, crashes, paid>>

\* The app is killed: its pages and its suspended invocations are gone, what it
\* has written is not.
Crash(d) ==
  /\ crashes < MaxCrashes
  /\ page[d] # "starting"
  /\ crashes' = crashes + 1
  /\ page' = [page EXCEPT ![d] = "starting"]
  /\ dialogs' = [dialogs EXCEPT ![d] = 0]
  /\ details' = [details EXCEPT ![d] = NoDetails]
  /\ homeMoney' = [homeMoney EXCEPT ![d] = 0]
  /\ ShopsAndCallsBecome(
       [s \in Shops |-> IF page[d] \in ShopPages /\ s = shopOf[d] THEN NoShop ELSE shop[s]],
       [c \in Calls |-> IF call[c] # Idle /\ call[c].device = d THEN Idle ELSE call[c]])
  /\ UNCHANGED <<docVars, shopOf, earned, paid>>

Navigate(d) ==
  \/ Launch(d)
  \/ OpenShop(d)
  \/ LoadMoney(d)
  \/ LoadLives(d)
  \/ \E x \in Creatures : OpenDetails(d, x)
  \/ LeaveDetails(d)
  \/ LeaveShop(d)
  \/ DismissDialog(d)
  \/ PressOk(d)

\* The steps of a suspended invocation, once the await it is suspended at completes.
Resume(c) ==
  \/ Answer(c)
  \/ Refuse(c)
  \/ Charge(c)
  \/ ChargeAfterLeaving(c)
  \/ ReadLives(c)
  \/ WriteLives(c)

Next ==
  \/ \E d \in Devices : Navigate(d) \/ Buy(d) \/ Crash(d)
  \/ \E c \in Calls : Resume(c)
  \/ \E r \in Rewards : Earn(r)

Spec == Init /\ [][Next]_vars

\* An await completes once the network answers: the event loop then resumes the
\* invocation.  Nothing obliges the user, or a crash, to act.
FairSpec == Spec /\ \A c \in Calls : WF_vars(Resume(c))

-----------------------------------------------------------------------------
(* Properties. *)

\* The balance is checked before an await and charged after it, so invocations
\* that overlap can each be approved on the same coins.  The overdraft is bounded:
\* of the invocations in flight together, all but one can be in the red.  In
\* particular a balance never goes negative while purchases do not overlap.
BoundedOverdraft == money >= - (Cardinality(Calls) - 1) * MaxPrice

\* Nobody owns a creature that was not paid for, and no shop on the screen labels
\* one "Owned", whatever a crash interrupts, however the unserialised writes of
\* addMarLives fall, and whichever continuations run after their shop was left.
OnlyPaidOwned ==
  /\ marlives \subseteq paid
  /\ \A s \in Shops : shop[s].mounted => shop[s].marLives \subseteq paid

\* On a device that has the account to itself the balance in the shop is the one in
\* the database at every moment, in spite of purchases in flight, of crashes and of
\* invocations that outlive the shop they were started from.
ShopShowsBalance ==
  \A d \in Devices :
    page[d] \in {"loadingLives", "shop", "details"} => shop[shopOf[d]].fishMoney = money

\* On such a device the balance on the home screen stays in step too, except when
\* _update runs on a shop that was left: that subtracts a price nobody paid.
HomeKeepsStep ==
  \A d \in Devices :
    page[d] # "starting" /\ page'[d] # "starting" /\ homeMoney[d] = money
      => homeMoney'[d] = money' \/ \E c \in Calls : ChargeAfterLeaving(c)

HomeStaysInStep == [][HomeKeepsStep]_vars

\* Purchases that do not overlap and are not cut off by a crash are what Wallet
\* says: check, charge and hand over are one step, whatever the user and the other
\* screens do between the awaits.  A creature is owned from the charge on.
Delivering == {call[c].marLife : c \in {e \in Calls : call[e].pc \in {"reading", "writing"}}}

W == INSTANCE Wallet WITH balance <- money, owned <- marlives \union Delivering

ImplementsWallet == W!Spec

\* Under the same conditions every creature that was paid for comes to be in the
\* aquarium, and stays there.
PaidComesToStay == \A x \in Creatures : (x \in paid) ~> [](x \in marlives)

\* What the README promises of a purchase (users purchase creatures "and put them
\* into their own aquarium"), once nothing is in flight any more.
PurchasedIsInAquarium ==
  (\A c \in Calls : call[c] = Idle) => paid \subseteq marlives
=============================================================================
