---------------------------- MODULE ShopProofs ------------------------------
(***************************************************************************)
(* Theorems about Shop, for every set of devices, creatures, prices,       *)
(* overlapping invocations of _purchase, rewards and crashes.              *)
(***************************************************************************)
EXTENDS Shop, DataTheorems, TLAPS

\* What garbage collection makes of well-typed instances and invocations is well typed.
LEMMA BecomeType ==
  ASSUME NEW shops \in [Shops -> ShopState], NEW calls \in [Calls -> InFlight \union {Idle}],
         ShopsAndCallsBecome(shops, calls)
  PROVE  /\ shop' \in [Shops -> ShopState]
         /\ call' \in [Calls -> InFlight \union {Idle}]
         /\ call' = calls
         /\ \A s \in Shops : shop'[s].mounted => shop'[s] = shops[s]
<1>1. NoShop \in ShopState /\ NoShop.mounted = FALSE
  BY DEF NoShop, NewShop, ShopState
<1> QED
  BY <1>1 DEF ShopsAndCallsBecome

LEMMA CallType ==
  ASSUME NEW k \in InFlight \union {Idle}, k.pc # "idle"
  PROVE  /\ k \in InFlight
         /\ k # Idle
         /\ k.device \in Devices
         /\ k.shop \in Shops
         /\ k.marLife \in Creatures
         /\ k.marList \subseteq Creatures
BY DEF InFlight, Idle

\* The variables keep their types.
THEOREM TypeCorrect == Spec => []TypeOK
<1>1. Init => TypeOK
  BY AccountAssumption DEF Init, TypeOK, Pages, ShopState, NoShop, NewShop, DetailsState
<1>2. TypeOK /\ [Next]_vars => TypeOK'
  <2> SUFFICES ASSUME TypeOK, [Next]_vars PROVE TypeOK'
    OBVIOUS
  <2> USE DEF TypeOK, docVars, navVars, boundVars
  <2>1. ASSUME NEW d \in Devices, Launch(d) PROVE TypeOK'
    BY <2>1 DEF Launch, Pages
  <2>2. ASSUME NEW d \in Devices, OpenShop(d) PROVE TypeOK'
    BY <2>2 DEF OpenShop, Pages, NewShop, ShopState
  <2>3. ASSUME NEW d \in Devices, LoadMoney(d) PROVE TypeOK'
    BY <2>3 DEF LoadMoney, Pages, ShopState
  <2>4. ASSUME NEW d \in Devices, LoadLives(d) PROVE TypeOK'
    BY <2>4 DEF LoadLives, Pages, ShopState
  <2>5. ASSUME NEW d \in Devices, NEW x \in Creatures, OpenDetails(d, x) PROVE TypeOK'
    BY <2>5 DEF OpenDetails, Pages, DetailsState
  <2>6. ASSUME NEW d \in Devices
        PROVE  ContextsGone(d) \in [Calls -> InFlight \union {Idle}]
    BY DEF ContextsGone, InFlight
  <2>7. ASSUME NEW d \in Devices, LeaveDetails(d) PROVE TypeOK'
    BY <2>6, <2>7 DEF LeaveDetails, PopDetails, Pages
  <2>8. ASSUME NEW d \in Devices, LeaveShop(d) PROVE TypeOK'
    <3>1. [shop EXCEPT ![shopOf[d]].mounted = FALSE] \in [Shops -> ShopState]
      BY DEF ShopState
    <3> QED
      BY <2>8, <3>1, BecomeType DEF LeaveShop, Pages
  <2>9. ASSUME NEW d \in Devices, DismissDialog(d) PROVE TypeOK'
    BY <2>9 DEF DismissDialog
  <2>10. ASSUME NEW d \in Devices, PressOk(d) PROVE TypeOK'
    <3>1. CASE dialogs[d] = 1
      <4>1. PopDetails(d) /\ dialogs' = [dialogs EXCEPT ![d] = 0]
        BY <2>10, <3>1 DEF PressOk
      <4>2. UNCHANGED <<docVars, homeMoney, shopOf, shop, boundVars, paid>>
        BY <2>10 DEF PressOk
      <4> QED
        BY <2>6, <4>1, <4>2 DEF PopDetails, Pages
    <3>2. CASE dialogs[d] > 1
      BY <2>10, <3>2 DEF PressOk
    <3> QED
      BY <2>10, <3>1, <3>2 DEF PressOk
  <2>11. ASSUME NEW d \in Devices, Buy(d) PROVE TypeOK'
    <3>1. details[d] \in DetailsState
      BY <2>11 DEF Buy, NoDetails
    <3> QED
      BY <2>11, <3>1 DEF Buy, InFlight, DetailsState
  <2>12. ASSUME NEW d \in Devices, Crash(d) PROVE TypeOK'
    <3> DEFINE shops == [s \in Shops |-> IF page[d] \in ShopPages /\ s = shopOf[d]
                                          THEN NoShop ELSE shop[s]]
               calls == [c \in Calls |-> IF call[c] # Idle /\ call[c].device = d
                                          THEN Idle ELSE call[c]]
    <3>1. shops \in [Shops -> ShopState]
      BY DEF NoShop, NewShop, ShopState
    <3>2. calls \in [Calls -> InFlight \union {Idle}]
      OBVIOUS
    <3>3. ShopsAndCallsBecome(shops, calls)
      BY <2>12 DEF Crash
    <3>4. shop' \in [Shops -> ShopState] /\ call' \in [Calls -> InFlight \union {Idle}]
      BY <3>1, <3>2, <3>3, BecomeType
    <3> HIDE DEF shops, calls
    <3> QED
      BY <2>12, <3>4, AccountAssumption DEF Crash, Pages
  <2>13. ASSUME NEW c \in Calls, ShowDialog(c), call[c].pc # "idle"
         PROVE  dialogs' \in [Devices -> Nat]
    BY <2>13, CallType DEF ShowDialog
  <2>14. ASSUME NEW c \in Calls PROVE [call EXCEPT ![c] = Idle] \in [Calls -> InFlight \union {Idle}]
    OBVIOUS
  <2>15. ASSUME NEW c \in Calls, Answer(c) PROVE TypeOK'
    <3>1. call[c] \in InFlight
      BY <2>15, CallType DEF Answer
    <3> QED
      BY <2>15, <3>1 DEF Answer, InFlight
  <2>16. ASSUME NEW c \in Calls, Refuse(c) PROVE TypeOK'
    <3>1. call[c].pc # "idle"
      BY <2>16 DEF Refuse
    <3> QED
      BY <2>13, <2>14, <2>16, <3>1, BecomeType DEF Refuse
  <2>17. ASSUME NEW c \in Calls, NEW next \in InFlight \union {Idle},
                call[c].pc = "approved", UpdateShopState(c, next)
         PROVE  /\ shop' \in [Shops -> ShopState]
                /\ call' \in [Calls -> InFlight \union {Idle}]
                /\ homeMoney' \in [Devices -> Int]
    <3>1. call[c].shop \in Shops /\ call[c].marLife \in Creatures /\ call[c].device \in Devices
      BY <2>17, CallType
    <3> DEFINE left == shop[call[c].shop].fishMoney - Price[call[c].marLife]
               shops == [shop EXCEPT ![call[c].shop].marLives = @ \union {call[c].marLife},
                                     ![call[c].shop].fishMoney = left]
    <3>2. left \in Int
      BY <3>1, CreaturesAssumption DEF ShopState
    <3>3. shops \in [Shops -> ShopState]
      BY <3>1, <3>2 DEF ShopState
    <3>4. ShopsAndCallsBecome(shops, [call EXCEPT ![c] = next])
      BY <2>17 DEF UpdateShopState
    <3> HIDE DEF left, shops
    <3>5. homeMoney' \in [Devices -> Int]
      BY <2>17, <3>1, <3>2 DEF UpdateShopState, left
    <3> QED
      BY <3>3, <3>4, <3>5, BecomeType
  <2>18. ASSUME NEW c \in Calls, Charge(c) PROVE TypeOK'
    <3>1. call[c] \in InFlight /\ call[c].marLife \in Creatures /\ call[c].pc = "approved"
      BY <2>18, CallType DEF Charge
    <3>2. [call[c] EXCEPT !.pc = "reading"] \in InFlight
      BY <3>1 DEF InFlight
    <3>3. money' \in Int /\ paid' \subseteq Creatures
      BY <2>18, <3>1, CreaturesAssumption DEF Charge
    <3>4. UpdateShopState(c, [call[c] EXCEPT !.pc = "reading"])
      BY <2>18 DEF Charge
    <3> QED
      BY <2>13, <2>17, <2>18, <3>1, <3>2, <3>3, <3>4 DEF Charge
  <2>19. ASSUME NEW c \in Calls, ChargeAfterLeaving(c) PROVE TypeOK'
    BY <2>17, <2>19 DEF ChargeAfterLeaving
  <2>20. ASSUME NEW c \in Calls, ReadLives(c) PROVE TypeOK'
    <3>1. call[c] \in InFlight
      BY <2>20, CallType DEF ReadLives
    <3> QED
      BY <2>20, <3>1 DEF ReadLives, InFlight
  <2>21. ASSUME NEW c \in Calls, WriteLives(c) PROVE TypeOK'
    <3>1. call[c].marList \subseteq Creatures /\ call[c].marLife \in Creatures
      BY <2>21, CallType DEF WriteLives
    <3> QED
      BY <2>14, <2>21, <3>1, BecomeType DEF WriteLives
  <2>22. ASSUME NEW r \in Rewards, Earn(r) PROVE TypeOK'
    BY <2>22, AccountAssumption DEF Earn
  <2>23. CASE UNCHANGED vars
    BY <2>23 DEF vars
  <2> QED
    BY <2>1, <2>2, <2>3, <2>4, <2>5, <2>7, <2>8, <2>9, <2>10, <2>11, <2>12, <2>15, <2>16,
       <2>18, <2>19, <2>20, <2>21, <2>22, <2>23 DEF Next, Navigate, Resume
<1> QED
  BY <1>1, <1>2, PTL DEF Spec

-----------------------------------------------------------------------------
(***************************************************************************)
(* The overdraft is bounded.  Each approved invocation may still spend a   *)
(* price; the invariant subtracts all of these at once.  An approval is    *)
(* the only step that lowers the difference, and it is granted against the *)
(* whole balance, so then the others hold at most (n - 1) * MaxPrice.      *)
(***************************************************************************)
Credit == (Cardinality(Calls) - 1) * MaxPrice

\* What each of the invocations k has been allowed to spend and has not spent yet.
Held(k) == [c \in Calls |-> IF k[c].pc = "approved" THEN Price[k[c].marLife] ELSE 0]

OverdraftInv == money - Total(Held(call)) >= - Credit

LEMMA CreditType == Credit \in Int
<1>1. Cardinality(Calls) \in Nat
  BY CallsAssumption, FS_CardinalityType
<1> QED
  BY <1>1, CreaturesAssumption DEF Credit

LEMMA HeldType ==
  ASSUME NEW k \in [Calls -> InFlight \union {Idle}]
  PROVE  /\ Held(k) \in [Calls -> Int]
         /\ \A c \in Calls : 0 <= Held(k)[c] /\ Held(k)[c] <= MaxPrice
         /\ Total(Held(k)) \in Int
         /\ Total(Held(k)) >= 0
         /\ \A c \in Calls : k[c].pc # "approved" => Total(Held(k)) <= Credit
<1>1. ASSUME NEW c \in Calls
      PROVE  Held(k)[c] \in Int /\ 0 <= Held(k)[c] /\ Held(k)[c] <= MaxPrice
  <2>1. CASE k[c].pc = "approved"
    <3>1. k[c].marLife \in Creatures
      BY <2>1, CallType
    <3> QED
      BY <2>1, <3>1, CreaturesAssumption DEF Held
  <2>2. CASE k[c].pc # "approved"
    BY <2>2, CreaturesAssumption DEF Held
  <2> QED
    BY <2>1, <2>2
<1>2. Held(k) \in [Calls -> Int]
  BY <1>1 DEF Held
<1>3. MaxPrice \in Int /\ IsFiniteSet(Calls)
  BY CallsAssumption, CreaturesAssumption
<1> DEFINE h == Held(k)
<1>4. \A c \in Calls : k[c].pc # "approved" => h[c] = 0
  BY DEF Held
<1>5. h \in [Calls -> Int] /\ \A c \in Calls : 0 <= h[c] /\ h[c] <= MaxPrice
  BY <1>1, <1>2
<1> HIDE DEF h
<1>6. /\ Total(h) \in Int
      /\ Total(h) >= 0
      /\ \A c \in Calls : h[c] = 0 => Total(h) <= (Cardinality(Calls) - 1) * MaxPrice
  BY <1>3, <1>5, TotalBounds
<1> QED
  BY <1>4, <1>5, <1>6 DEF Credit, h

\* Every invocation approved after a step was approved before it, for the same creature.
NoNewApproval ==
  \A c \in Calls :
    call'[c].pc = "approved" => /\ call[c].pc = "approved"
                                /\ call'[c].marLife = call[c].marLife

\* A step that approves nobody and takes no coin keeps the invariant.
LEMMA NoNewHold ==
  ASSUME TypeOK, TypeOK', OverdraftInv, money' >= money, NoNewApproval
  PROVE  OverdraftInv'
<1>1. ASSUME NEW c \in Calls PROVE Held(call')[c] <= Held(call)[c]
  <2>1. /\ Held(call)[c] \in Int /\ 0 <= Held(call)[c]
    BY HeldType DEF TypeOK
  <2>2. CASE call'[c].pc = "approved"
    <3>1. Held(call')[c] = Held(call)[c]
      BY <2>2 DEF Held, NoNewApproval
    <3> QED BY <2>1, <3>1
  <2>3. CASE call'[c].pc # "approved"
    <3>1. Held(call')[c] = 0
      BY <2>3 DEF Held
    <3> QED BY <2>1, <3>1
  <2> QED
    BY <2>2, <2>3
<1>2. Held(call) \in [Calls -> Int] /\ Total(Held(call)) \in Int
  BY HeldType DEF TypeOK
<1>3. Held(call') \in [Calls -> Int] /\ Total(Held(call')) \in Int
  BY HeldType DEF TypeOK
<1>4. Total(Held(call')) <= Total(Held(call))
  BY <1>1, <1>2, <1>3, TotalMonotone, CallsAssumption
<1>5. money \in Int /\ money' \in Int
  BY DEF TypeOK
<1> QED
  BY <1>2, <1>3, <1>4, <1>5, CreditType DEF OverdraftInv

\* No step but Answer approves, and no step but Charge takes coins.
LEMMA QuietSteps ==
  ASSUME TypeOK, [Next]_vars,
         ~ \E c \in Calls : Answer(c) \/ Charge(c)
  PROVE  money' >= money /\ NoNewApproval
<1> USE DEF docVars, navVars, boundVars
<1>1. money \in Int /\ call \in [Calls -> InFlight \union {Idle}]
  BY DEF TypeOK
<1>2. Idle.pc # "approved"
  BY DEF Idle
<1>3. ASSUME NEW c \in Calls, NEW next, next.pc # "approved",
             call' = [call EXCEPT ![c] = next]
      PROVE  NoNewApproval
  BY <1>1, <1>3 DEF NoNewApproval
<1>4. ASSUME NEW d \in Devices, call' = ContextsGone(d)
      PROVE  NoNewApproval
  <2>1. ASSUME NEW c \in Calls
        PROVE  call'[c].pc = call[c].pc /\ (call[c] # Idle => call'[c].marLife = call[c].marLife)
    BY <1>1, <1>4 DEF ContextsGone, InFlight
  <2> QED
    BY <1>2, <2>1 DEF NoNewApproval
<1>5. ASSUME NEW d \in Devices, Navigate(d)
      PROVE  money' >= money /\ NoNewApproval
  <2>1. CASE Launch(d) \/ OpenShop(d) \/ LoadMoney(d) \/ LoadLives(d)
             \/ (\E x \in Creatures : OpenDetails(d, x)) \/ DismissDialog(d)
    <3>1. money' = money /\ call' = call
      BY <2>1 DEF Launch, OpenShop, LoadMoney, LoadLives, OpenDetails, DismissDialog
    <3> QED
      BY <1>1, <3>1 DEF NoNewApproval
  <2>2. CASE LeaveShop(d)
    <3>1. money' = money /\ call' = call
      BY <2>2 DEF LeaveShop, ShopsAndCallsBecome
    <3> QED
      BY <1>1, <3>1 DEF NoNewApproval
  <2>3. CASE LeaveDetails(d) \/ PressOk(d)
    <3>1. money' = money
      BY <2>3 DEF LeaveDetails, PressOk
    <3>2. call' = call \/ call' = ContextsGone(d)
      BY <2>3 DEF LeaveDetails, PressOk, PopDetails
    <3>3. call' = call => NoNewApproval
      BY DEF NoNewApproval
    <3> QED
      BY <1>1, <1>4, <3>1, <3>2, <3>3
  <2> QED
    BY <1>5, <2>1, <2>2, <2>3 DEF Navigate
<1>6. ASSUME NEW d \in Devices, Buy(d)
      PROVE  money' >= money /\ NoNewApproval
  <2>1. PICK c \in Calls :
          call' = [call EXCEPT ![c] =
                     [pc |-> "asking", device |-> d, shop |-> shopOf[d],
                      marLife |-> details[d].marLife, pageUp |-> TRUE, marList |-> {}]]
    BY <1>6 DEF Buy
  <2> DEFINE next == [pc |-> "asking", device |-> d, shop |-> shopOf[d],
                      marLife |-> details[d].marLife, pageUp |-> TRUE, marList |-> {}]
  <2>2. next.pc # "approved" /\ call' = [call EXCEPT ![c] = next]
    BY <2>1
  <2>3. money' = money
    BY <1>6 DEF Buy
  <2> HIDE DEF next
  <2>4. NoNewApproval
    BY <1>3, <2>2
  <2> QED
    BY <1>1, <2>3, <2>4
<1>7. ASSUME NEW d \in Devices, Crash(d)
      PROVE  money' >= money /\ NoNewApproval
  <2>1. call' = [c \in Calls |-> IF call[c] # Idle /\ call[c].device = d
                                 THEN Idle ELSE call[c]]
    BY <1>7 DEF Crash, ShopsAndCallsBecome
  <2>2. money' = money
    BY <1>7 DEF Crash
  <2> QED
    BY <1>1, <1>2, <2>1, <2>2 DEF NoNewApproval
<1>8. ASSUME NEW c \in Calls, Refuse(c) \/ ChargeAfterLeaving(c) \/ WriteLives(c)
      PROVE  money' >= money /\ NoNewApproval
  <2>1. call' = [call EXCEPT ![c] = Idle]
    BY <1>8 DEF Refuse, ChargeAfterLeaving, UpdateShopState, WriteLives, ShopsAndCallsBecome
  <2>2. money' = money
    BY <1>8 DEF Refuse, ChargeAfterLeaving, WriteLives
  <2>3. NoNewApproval
    BY <1>2, <1>3, <2>1
  <2> QED
    BY <1>1, <2>2, <2>3
<1>9. ASSUME NEW c \in Calls, ReadLives(c)
      PROVE  money' >= money /\ NoNewApproval
  <2>1. call[c] \in InFlight
    BY <1>1, <1>9, CallType DEF ReadLives
  <2>2. call' = [call EXCEPT ![c] = [call[c] EXCEPT !.pc = "writing", !.marList = marlives]]
    BY <1>9 DEF ReadLives
  <2>3. [call[c] EXCEPT !.pc = "writing", !.marList = marlives].pc # "approved"
    BY <2>1 DEF InFlight
  <2>4. money' = money
    BY <1>9 DEF ReadLives
  <2>5. NoNewApproval
    BY <1>3, <2>2, <2>3
  <2> QED
    BY <1>1, <2>4, <2>5
<1>10. ASSUME NEW r \in Rewards, Earn(r)
       PROVE  money' >= money /\ NoNewApproval
  BY <1>1, <1>10, AccountAssumption DEF Earn, NoNewApproval
<1>11. ASSUME UNCHANGED vars
       PROVE  money' >= money /\ NoNewApproval
  BY <1>1, <1>11 DEF vars, NoNewApproval
<1> QED
  BY <1>5, <1>6, <1>7, <1>8, <1>9, <1>10, <1>11 DEF Next, Resume

LEMMA OverdraftStep ==
  ASSUME TypeOK, TypeOK', OverdraftInv, [Next]_vars
  PROVE  OverdraftInv'
<1>1. /\ money \in Int /\ money' \in Int
      /\ call \in [Calls -> InFlight \union {Idle}]
      /\ call' \in [Calls -> InFlight \union {Idle}]
      /\ Total(Held(call)) \in Int /\ Total(Held(call')) \in Int
      /\ Held(call) \in [Calls -> Int] /\ Held(call') \in [Calls -> Int]
  BY HeldType DEF TypeOK
<1>2. ASSUME NEW c \in Calls, Answer(c) PROVE OverdraftInv'
  <2>1. /\ call[c].pc = "asking" /\ call[c] \in InFlight /\ call[c].marLife \in Creatures
        /\ money' = money
    BY <1>1, <1>2, CallType DEF Answer, docVars
  <2>2. Total(Held(call)) <= Credit
    BY <1>1, <2>1, HeldType
  <2>3. CASE money >= Price[call[c].marLife]
    <3>1. call' = [call EXCEPT ![c] = [call[c] EXCEPT !.pc = "approved"]]
      BY <1>2, <2>3 DEF Answer
    <3>2. /\ Held(call)[c] = 0
          /\ Held(call')[c] = Price[call[c].marLife]
          /\ \A e \in Calls \ {c} : Held(call')[e] = Held(call)[e]
      BY <1>1, <2>1, <3>1 DEF Held, InFlight
    <3>3. Total(Held(call')) = Total(Held(call)) - Held(call)[c] + Held(call')[c]
      BY <1>1, <3>2, TotalUpdate, CallsAssumption
    <3>4. Price[call[c].marLife] \in Int
      BY <2>1, CreaturesAssumption
    <3> QED
      BY <1>1, <2>1, <2>2, <2>3, <3>2, <3>3, <3>4, CreditType DEF OverdraftInv
  <2>4. CASE ~ (money >= Price[call[c].marLife])
    <3>1. call' = [call EXCEPT ![c] = [call[c] EXCEPT !.pc = "refused"]]
      BY <1>2, <2>4 DEF Answer
    <3>2. NoNewApproval
      BY <1>1, <2>1, <3>1 DEF NoNewApproval, InFlight
    <3> QED
      BY <1>1, <2>1, <3>2, NoNewHold
  <2> QED
    BY <2>3, <2>4
<1>3. ASSUME NEW c \in Calls, Charge(c) PROVE OverdraftInv'
  <2>1. call[c].pc = "approved" /\ call[c] \in InFlight /\ call[c].marLife \in Creatures
    BY <1>1, <1>3, CallType DEF Charge
  <2>2. call' = [call EXCEPT ![c] = [call[c] EXCEPT !.pc = "reading"]]
    BY <1>3 DEF Charge, UpdateShopState, ShopsAndCallsBecome
  <2>3. money' = money - Price[call[c].marLife]
    BY <1>3 DEF Charge
  <2>4. /\ Held(call)[c] = Price[call[c].marLife]
        /\ Held(call')[c] = 0
        /\ \A e \in Calls \ {c} : Held(call')[e] = Held(call)[e]
    BY <1>1, <2>1, <2>2 DEF Held, InFlight
  <2>5. Total(Held(call')) = Total(Held(call)) - Held(call)[c] + Held(call')[c]
    BY <1>1, <2>4, TotalUpdate, CallsAssumption
  <2>6. Price[call[c].marLife] \in Int
    BY <2>1, CreaturesAssumption
  <2> QED
    BY <1>1, <2>3, <2>4, <2>5, <2>6, CreditType DEF OverdraftInv
<1>4. CASE ~ \E c \in Calls : Answer(c) \/ Charge(c)
  BY <1>4, QuietSteps, NoNewHold
<1> QED
  BY <1>2, <1>3, <1>4

\* The overdraft that overlapping purchases can run up is at most the price of all
\* of them but one: with purchases one at a time the balance is never negative.
THEOREM OverdraftIsBounded == Spec => []BoundedOverdraft
<1>1. Init => OverdraftInv
  <2> SUFFICES ASSUME Init PROVE OverdraftInv
    OBVIOUS
  <2>1. call \in [Calls -> InFlight \union {Idle}] /\ \A c \in Calls : call[c].pc = "idle"
    BY DEF Init, Idle
  <2>2. Total(Held(call)) \in Int /\ Total(Held(call)) <= Credit
    BY <2>1, HeldType, CallsAssumption
  <2>3. money \in Int /\ money >= 0
    BY AccountAssumption DEF Init
  <2> QED
    BY <2>2, <2>3, CreditType DEF OverdraftInv
<1>2. TypeOK /\ TypeOK' /\ OverdraftInv /\ [Next]_vars => OverdraftInv'
  BY OverdraftStep
<1>3. TypeOK /\ OverdraftInv => BoundedOverdraft
  <2> SUFFICES ASSUME TypeOK, OverdraftInv PROVE BoundedOverdraft
    OBVIOUS
  <2>1. Total(Held(call)) \in Int /\ Total(Held(call)) >= 0 /\ money \in Int
    BY HeldType DEF TypeOK
  <2>2. money >= - Credit
    BY <2>1, CreditType DEF OverdraftInv
  <2> QED
    BY <2>2 DEF BoundedOverdraft, Credit
<1> QED
  BY <1>1, <1>2, <1>3, TypeCorrect, PTL DEF Spec

-----------------------------------------------------------------------------
(***************************************************************************)
(* Only creatures that were paid for are owned.  An invocation past its    *)
(* charge delivers a creature that was paid for, and the list it is about  *)
(* to write back was read from the document, where only such creatures     *)
(* are.  Shops that were left may show others, so they are not in it.      *)
(***************************************************************************)
PaidInv ==
  /\ OnlyPaidOwned
  /\ \A c \in Calls : call[c].pc \in {"reading", "writing"} => call[c].marLife \in paid
  /\ \A c \in Calls : call[c].pc = "writing" => call[c].marList \subseteq paid

\* Nothing changes for the creatures that are owned, shown or about to be written,
\* when invocations only end or lose their context and shops are only closed or opened.
LEMMA PaidKept ==
  ASSUME PaidInv, TypeOK, marlives' = marlives, paid' = paid,
         \A s \in Shops : shop'[s].mounted =>
           \/ shop[s].mounted /\ shop'[s].marLives = shop[s].marLives
           \/ shop'[s].marLives \subseteq paid,
         \A c \in Calls : call'[c].pc \in {"reading", "writing"} =>
           /\ call'[c].pc = call[c].pc
           /\ call'[c].marLife = call[c].marLife
           /\ call'[c].marList = call[c].marList
  PROVE  PaidInv'
BY DEF PaidInv, OnlyPaidOwned

LEMMA PaidStep ==
  ASSUME TypeOK, TypeOK', PaidInv, [Next]_vars
  PROVE  PaidInv'
<1> USE DEF docVars, navVars, boundVars
<1>1. /\ call \in [Calls -> InFlight \union {Idle}]
      /\ shop \in [Shops -> ShopState]
      /\ shopOf \in [Devices -> Shops]
      /\ Idle.pc = "idle" /\ NoShop.mounted = FALSE
  BY DEF TypeOK, Idle, NoShop
<1>2. ASSUME NEW d \in Devices, Navigate(d) PROVE PaidInv'
  <2>1. CASE Launch(d) \/ (\E x \in Creatures : OpenDetails(d, x)) \/ DismissDialog(d)
    <3>1. UNCHANGED <<marlives, paid, shop, call>>
      BY <2>1 DEF Launch, OpenDetails, DismissDialog
    <3> QED
      BY <1>1, <3>1, PaidKept
  <2>2. CASE OpenShop(d)
    <3>1. PICK s \in Shops : shop' = [shop EXCEPT ![s] = NewShop]
      BY <2>2 DEF OpenShop
    <3>2. UNCHANGED <<marlives, paid, call>>
      BY <2>2 DEF OpenShop
    <3>3. NewShop.marLives = {}
      BY DEF NewShop
    <3> QED
      BY <1>1, <3>1, <3>2, <3>3, PaidKept
  <2>3. CASE LoadMoney(d)
    <3>1. UNCHANGED <<marlives, paid, call>> /\ shop' = [shop EXCEPT ![shopOf[d]].fishMoney = money]
      BY <2>3 DEF LoadMoney
    <3>2. \A s \in Shops : shop'[s].mounted = shop[s].mounted /\ shop'[s].marLives = shop[s].marLives
      BY <1>1, <3>1 DEF ShopState
    <3> QED
      BY <1>1, <3>1, <3>2, PaidKept
  <2>4. CASE LoadLives(d)
    <3>1. UNCHANGED <<marlives, paid, call>> /\ shop' = [shop EXCEPT ![shopOf[d]].marLives = marlives]
      BY <2>4 DEF LoadLives
    <3>2. \A s \in Shops : /\ shop'[s].mounted = shop[s].mounted
                           /\ \/ shop'[s].marLives = shop[s].marLives
                              \/ shop'[s].marLives = marlives
      BY <1>1, <3>1 DEF ShopState
    <3>3. marlives \subseteq paid
      BY DEF PaidInv, OnlyPaidOwned
    <3> QED
      BY <1>1, <3>1, <3>2, <3>3, PaidKept
  <2>5. CASE LeaveDetails(d) \/ PressOk(d)
    <3>1. UNCHANGED <<marlives, paid, shop>>
      BY <2>5 DEF LeaveDetails, PressOk
    <3>2. call' = call \/ call' = ContextsGone(d)
      BY <2>5 DEF LeaveDetails, PressOk, PopDetails
    <3>3. \A c \in Calls : /\ call'[c].pc = call[c].pc
                           /\ call[c] # Idle => /\ call'[c].marLife = call[c].marLife
                                                /\ call'[c].marList = call[c].marList
      BY <1>1, <3>2 DEF ContextsGone, InFlight
    <3> QED
      BY <1>1, <3>1, <3>3, PaidKept
  <2>6. CASE LeaveShop(d)
    <3> DEFINE shops == [shop EXCEPT ![shopOf[d]].mounted = FALSE]
    <3>1. UNCHANGED <<marlives, paid>> /\ ShopsAndCallsBecome(shops, call)
      BY <2>6 DEF LeaveShop
    <3>2. /\ shops \in [Shops -> ShopState]
          /\ \A s \in Shops : shops[s].mounted => shops[s] = shop[s]
      BY <1>1 DEF ShopState
    <3> HIDE DEF shops
    <3>3. call' = call /\ \A s \in Shops : shop'[s].mounted => shop'[s] = shops[s]
      BY <1>1, <3>1, <3>2, BecomeType
    <3>4. \A s \in Shops : shop'[s].mounted => shop'[s] = shop[s]
      BY <3>2, <3>3
    <3> QED
      BY <1>1, <3>1, <3>3, <3>4, PaidKept
  <2> QED
    BY <1>2, <2>1, <2>2, <2>3, <2>4, <2>5, <2>6 DEF Navigate
<1>3. ASSUME NEW c \in Calls, NEW next \in InFlight \union {Idle},
             next.pc \notin {"reading", "writing"}, call' = [call EXCEPT ![c] = next],
             shop' = shop \/ ShopsAndCallsBecome(shop, [call EXCEPT ![c] = next]),
             marlives' = marlives, paid' = paid
      PROVE  PaidInv'
  <2>1. \A s \in Shops : shop'[s].mounted => shop'[s] = shop[s]
    BY <1>1, <1>3, BecomeType
  <2>2. \A e \in Calls : call'[e].pc \in {"reading", "writing"} => call'[e] = call[e]
    BY <1>1, <1>3
  <2> QED
    BY <1>3, <2>1, <2>2, PaidKept
<1>4. ASSUME NEW d \in Devices, Buy(d) PROVE PaidInv'
  <2>1. PICK c \in Calls :
          call' = [call EXCEPT ![c] =
                     [pc |-> "asking", device |-> d, shop |-> shopOf[d],
                      marLife |-> details[d].marLife, pageUp |-> TRUE, marList |-> {}]]
    BY <1>4 DEF Buy
  <2>2. details[d] \in DetailsState
    BY <1>4 DEF Buy, NoDetails, TypeOK
  <2> DEFINE next == [pc |-> "asking", device |-> d, shop |-> shopOf[d],
                      marLife |-> details[d].marLife, pageUp |-> TRUE, marList |-> {}]
  <2>3. next \in InFlight /\ next.pc = "asking"
    BY <1>1, <2>2 DEF InFlight, DetailsState
  <2>4. UNCHANGED <<marlives, paid, shop>> /\ call' = [call EXCEPT ![c] = next]
    BY <1>4, <2>1 DEF Buy
  <2> HIDE DEF next
  <2> QED
    BY <1>3, <2>3, <2>4
<1>5. ASSUME NEW d \in Devices, Crash(d) PROVE PaidInv'
  <2> DEFINE shops == [s \in Shops |-> IF page[d] \in ShopPages /\ s = shopOf[d]
                                       THEN NoShop ELSE shop[s]]
             calls == [c \in Calls |-> IF call[c] # Idle /\ call[c].device = d
                                       THEN Idle ELSE call[c]]
  <2>1. UNCHANGED <<marlives, paid>> /\ ShopsAndCallsBecome(shops, calls)
    BY <1>5 DEF Crash
  <2>2. /\ shops \in [Shops -> ShopState]
        /\ \A s \in Shops : shops[s].mounted => shops[s] = shop[s]
    BY <1>1 DEF ShopState, NoShop
  <2>3. /\ calls \in [Calls -> InFlight \union {Idle}]
        /\ \A c \in Calls : calls[c].pc # "idle" => calls[c] = call[c]
    BY <1>1
  <2> HIDE DEF shops, calls
  <2>4. call' = calls /\ \A s \in Shops : shop'[s].mounted => shop'[s] = shops[s]
    BY <2>1, <2>2, <2>3, BecomeType
  <2>5. \A s \in Shops : shop'[s].mounted => shop'[s] = shop[s]
    BY <2>2, <2>4
  <2>6. \A c \in Calls : call'[c].pc \in {"reading", "writing"} => call'[c] = call[c]
    BY <2>3, <2>4
  <2> QED
    BY <2>1, <2>5, <2>6, PaidKept
<1>6. ASSUME NEW c \in Calls, Answer(c) PROVE PaidInv'
  <2>1. call[c] \in InFlight
    BY <1>1, <1>6, CallType DEF Answer
  <2>2. PICK p \in {"approved", "refused"} : call' = [call EXCEPT ![c] = [call[c] EXCEPT !.pc = p]]
    BY <1>6 DEF Answer
  <2>3. /\ [call[c] EXCEPT !.pc = p] \in InFlight
        /\ [call[c] EXCEPT !.pc = p].pc \notin {"reading", "writing"}
    BY <2>1 DEF InFlight
  <2>4. UNCHANGED <<marlives, paid, shop>>
    BY <1>6 DEF Answer
  <2> QED
    BY <1>3, <2>2, <2>3, <2>4
<1>7. ASSUME NEW c \in Calls, Refuse(c) PROVE PaidInv'
  BY <1>1, <1>3, <1>7 DEF Refuse, ShopsAndCallsBecome
<1>8. ASSUME NEW c \in Calls, NEW next \in InFlight \union {Idle},
             call[c].pc = "approved", UpdateShopState(c, next)
      PROVE  /\ call' = [call EXCEPT ![c] = next]
             /\ \A s \in Shops : shop'[s].mounted =>
                  /\ shop[s].mounted
                  /\ \/ shop'[s].marLives = shop[s].marLives
                     \/ /\ s = call[c].shop
                        /\ shop'[s].marLives = shop[s].marLives \union {call[c].marLife}
  <2>1. call[c].shop \in Shops /\ call[c].marLife \in Creatures
    BY <1>1, <1>8, CallType
  <2> DEFINE left == shop[call[c].shop].fishMoney - Price[call[c].marLife]
             shops == [shop EXCEPT ![call[c].shop].marLives = @ \union {call[c].marLife},
                                   ![call[c].shop].fishMoney = left]
  <2>2. left \in Int
    BY <1>1, <2>1, CreaturesAssumption DEF ShopState
  <2>3. ShopsAndCallsBecome(shops, [call EXCEPT ![c] = next])
    BY <1>8 DEF UpdateShopState
  <2> HIDE DEF left
  <2>4. shops \in [Shops -> ShopState]
    BY <1>1, <2>1, <2>2 DEF ShopState
  <2>5. \A s \in Shops :
          /\ shops[s].mounted = shop[s].mounted
          /\ \/ shops[s].marLives = shop[s].marLives
             \/ s = call[c].shop /\ shops[s].marLives = shop[s].marLives \union {call[c].marLife}
    BY <1>1, <2>1 DEF ShopState
  <2> HIDE DEF shops
  <2>6. /\ call' = [call EXCEPT ![c] = next]
        /\ \A s \in Shops : shop'[s].mounted => shop'[s] = shops[s]
    BY <1>1, <2>3, <2>4, BecomeType
  <2> QED
    BY <2>5, <2>6
<1>9. ASSUME NEW c \in Calls, Charge(c) PROVE PaidInv'
  <2>1. call[c].pc = "approved" /\ call[c] \in InFlight
    BY <1>1, <1>9, CallType DEF Charge
  <2> DEFINE next == [call[c] EXCEPT !.pc = "reading"]
  <2>2. next \in InFlight /\ next.pc = "reading" /\ next.marLife = call[c].marLife
    BY <2>1 DEF InFlight
  <2>3. /\ marlives' = marlives
        /\ paid' = paid \union {call[c].marLife}
        /\ UpdateShopState(c, next)
    BY <1>9 DEF Charge
  <2> HIDE DEF next
  <2>4. /\ call' = [call EXCEPT ![c] = next]
        /\ \A s \in Shops : shop'[s].mounted =>
             /\ shop[s].mounted
             /\ \/ shop'[s].marLives = shop[s].marLives
                \/ shop'[s].marLives = shop[s].marLives \union {call[c].marLife}
    BY <1>8, <2>1, <2>2, <2>3
  <2>5. OnlyPaidOwned'
    BY <2>3, <2>4 DEF PaidInv, OnlyPaidOwned
  <2>6. ASSUME NEW e \in Calls, call'[e].pc \in {"reading", "writing"}
        PROVE  /\ call'[e].marLife \in paid'
               /\ call'[e].pc = "writing" => call'[e].marList \subseteq paid'
    <3>1. CASE e = c
      BY <1>1, <2>2, <2>3, <2>4, <3>1
    <3>2. CASE e # c
      BY <1>1, <2>3, <2>4, <2>6, <3>2 DEF PaidInv
    <3> QED BY <3>1, <3>2
  <2> QED
    BY <2>5, <2>6 DEF PaidInv
<1>10. ASSUME NEW c \in Calls, ChargeAfterLeaving(c) PROVE PaidInv'
  <2>1. /\ call' = [call EXCEPT ![c] = Idle]
        /\ \A s \in Shops : shop'[s].mounted =>
             /\ shop[s].mounted
             /\ \/ shop'[s].marLives = shop[s].marLives
                \/ s = call[c].shop
    BY <1>8, <1>10 DEF ChargeAfterLeaving
  <2>2. UNCHANGED <<marlives, paid>> /\ ~ shop[call[c].shop].mounted
    BY <1>10 DEF ChargeAfterLeaving
  <2>3. \A e \in Calls : call'[e].pc \in {"reading", "writing"} => call'[e] = call[e]
    BY <1>1, <2>1
  <2> QED
    BY <2>1, <2>2, <2>3, PaidKept
<1>11. ASSUME NEW c \in Calls, ReadLives(c) PROVE PaidInv'
  <2>1. call[c].pc = "reading" /\ call[c] \in InFlight /\ UNCHANGED <<marlives, paid, shop>>
    BY <1>1, <1>11, CallType DEF ReadLives
  <2>2. /\ call'[c].pc = "writing"
        /\ call'[c].marLife = call[c].marLife
        /\ call'[c].marList = marlives
        /\ \A e \in Calls \ {c} : call'[e] = call[e]
    BY <1>1, <1>11, <2>1 DEF ReadLives, InFlight
  <2>3. call[c].marLife \in paid /\ marlives \subseteq paid
    BY <2>1 DEF PaidInv, OnlyPaidOwned
  <2>4. ASSUME NEW e \in Calls, call'[e].pc \in {"reading", "writing"}
        PROVE  /\ call'[e].marLife \in paid
               /\ call'[e].pc = "writing" => call'[e].marList \subseteq paid
    BY <2>2, <2>3, <2>4 DEF PaidInv
  <2> QED
    BY <2>1, <2>4 DEF PaidInv, OnlyPaidOwned
<1>12. ASSUME NEW c \in Calls, WriteLives(c) PROVE PaidInv'
  <2>1. call[c].pc = "writing" /\ call' = [call EXCEPT ![c] = Idle] /\ paid' = paid
    BY <1>12 DEF WriteLives, ShopsAndCallsBecome
  <2>2. marlives' \subseteq paid
    BY <1>12, <2>1 DEF WriteLives, PaidInv
  <2>3. \A s \in Shops : shop'[s].mounted => shop'[s] = shop[s]
    BY <1>1, <1>12, BecomeType DEF WriteLives
  <2>4. \A e \in Calls : call'[e].pc \in {"reading", "writing"} => call'[e] = call[e]
    BY <1>1, <2>1
  <2> QED
    BY <2>1, <2>2, <2>3, <2>4 DEF PaidInv, OnlyPaidOwned
<1>13. ASSUME NEW r \in Rewards, Earn(r) PROVE PaidInv'
  BY <1>1, <1>13, PaidKept DEF Earn
<1>14. CASE UNCHANGED vars
  BY <1>1, <1>14, PaidKept DEF vars
<1> QED
  BY <1>2, <1>4, <1>5, <1>6, <1>7, <1>9, <1>10, <1>11, <1>12, <1>13, <1>14 DEF Next, Resume

\* A creature is in the aquarium, or labelled "Owned" in a shop on the screen, only
\* if it was paid for.
THEOREM OwnedWerePaid == Spec => []OnlyPaidOwned
<1>1. Init => PaidInv
  BY DEF Init, PaidInv, OnlyPaidOwned, NoShop, Idle
<1>2. TypeOK /\ TypeOK' /\ PaidInv /\ [Next]_vars => PaidInv'
  BY PaidStep
<1>3. PaidInv => OnlyPaidOwned
  BY DEF PaidInv
<1> QED
  BY <1>1, <1>2, <1>3, TypeCorrect, PTL DEF Spec

-----------------------------------------------------------------------------
(***************************************************************************)
(* Purchases that do not overlap, on devices that are not killed, are the  *)
(* indivisible purchases of Wallet.  Alone in flight, an approved          *)
(* invocation still finds the coins it was approved on, and the list it    *)
(* writes back is still the one in the document.                           *)
(***************************************************************************)
AloneInv ==
  \A c \in Calls :
    /\ call[c].pc = "approved" => money >= Price[call[c].marLife]
    /\ call[c].pc = "writing" => call[c].marList = marlives

\* What the only invocation c, in state k, has charged and not delivered yet.
DeliveredBy(k) == IF k.pc \in {"reading", "writing"} THEN {k.marLife} ELSE {}

LEMMA AloneStep ==
  ASSUME NEW a, Calls = {a}, MaxCrashes = 0,
         TypeOK, TypeOK', AloneInv, [Next]_vars
  PROVE  AloneInv' /\ [W!Next]_<<money, marlives \union Delivering>>
<1> USE DEF docVars, navVars, boundVars
<1>1. /\ a \in Calls /\ \A c \in Calls : c = a
      /\ call \in [Calls -> InFlight \union {Idle}]
      /\ call' \in [Calls -> InFlight \union {Idle}]
      /\ money \in Int
      /\ Idle.pc = "idle"
  BY DEF TypeOK, Idle
<1>2. Delivering = DeliveredBy(call[a]) /\ Delivering' = DeliveredBy(call'[a])
  BY <1>1 DEF Delivering, DeliveredBy
<1>3. ASSUME UNCHANGED <<money, marlives>>,
             call'[a].pc = call[a].pc,
             call[a] # Idle => /\ call'[a].marLife = call[a].marLife
                               /\ call'[a].marList = call[a].marList
      PROVE  AloneInv' /\ [W!Next]_<<money, marlives \union Delivering>>
  BY <1>1, <1>2, <1>3 DEF AloneInv, DeliveredBy
<1>4. ASSUME NEW next, call' = [call EXCEPT ![a] = next],
             UNCHANGED <<money, marlives>>,
             call[a].pc \notin {"reading", "writing"},
             next.pc \notin {"reading", "writing", "approved"}
      PROVE  AloneInv' /\ [W!Next]_<<money, marlives \union Delivering>>
  <2>1. call'[a] = next
    BY <1>1, <1>4
  <2>2. Delivering' = {} /\ Delivering = {}
    BY <1>2, <1>4, <2>1 DEF DeliveredBy
  <2> QED
    BY <1>1, <1>4, <2>1, <2>2 DEF AloneInv
<1>5. ASSUME NEW d \in Devices, Navigate(d)
      PROVE  AloneInv' /\ [W!Next]_<<money, marlives \union Delivering>>
  <2>1. UNCHANGED <<money, marlives>>
    BY <1>5 DEF Navigate, Launch, OpenShop, LoadMoney, LoadLives, OpenDetails, LeaveDetails,
                LeaveShop, DismissDialog, PressOk
  <2>2. call' = call \/ call' = ContextsGone(d)
    BY <1>5 DEF Navigate, Launch, OpenShop, LoadMoney, LoadLives, OpenDetails, LeaveDetails,
                LeaveShop, DismissDialog, PressOk, PopDetails, ShopsAndCallsBecome
  <2>3. /\ call'[a].pc = call[a].pc
        /\ call[a] # Idle => /\ call'[a].marLife = call[a].marLife
                             /\ call'[a].marList = call[a].marList
    BY <1>1, <2>2 DEF ContextsGone, InFlight
  <2> QED
    BY <1>3, <2>1, <2>3
<1>6. ASSUME NEW d \in Devices, Buy(d)
      PROVE  AloneInv' /\ [W!Next]_<<money, marlives \union Delivering>>
  <2> DEFINE next == [pc |-> "asking", device |-> d, shop |-> shopOf[d],
                      marLife |-> details[d].marLife, pageUp |-> TRUE, marList |-> {}]
  <2>1. call[a] = Idle /\ call' = [call EXCEPT ![a] = next]
    BY <1>1, <1>6 DEF Buy
  <2>2. next.pc = "asking" /\ UNCHANGED <<money, marlives>>
    BY <1>6 DEF Buy
  <2> HIDE DEF next
  <2> QED
    BY <1>1, <1>4, <2>1, <2>2
<1>7. ASSUME NEW d \in Devices, Crash(d) PROVE FALSE
  BY <1>7 DEF Crash, TypeOK
<1>8. ASSUME Answer(a)
      PROVE  AloneInv' /\ [W!Next]_<<money, marlives \union Delivering>>
  <2>1. call[a].pc = "asking" /\ call[a] \in InFlight /\ UNCHANGED <<money, marlives>>
    BY <1>1, <1>8, CallType DEF Answer
  <2>2. /\ call'[a].pc = IF money >= Price[call[a].marLife] THEN "approved" ELSE "refused"
        /\ call'[a].marLife = call[a].marLife
    BY <1>1, <1>8, <2>1 DEF Answer, InFlight
  <2>3. Delivering = {} /\ Delivering' = {}
    BY <1>2, <2>1, <2>2 DEF DeliveredBy
  <2> QED
    BY <1>1, <2>1, <2>2, <2>3 DEF AloneInv
<1>9. ASSUME Refuse(a) \/ ChargeAfterLeaving(a)
      PROVE  AloneInv' /\ [W!Next]_<<money, marlives \union Delivering>>
  <2>1. /\ call' = [call EXCEPT ![a] = Idle] /\ UNCHANGED <<money, marlives>>
        /\ call[a].pc \in {"refused", "approved"}
    BY <1>9 DEF Refuse, ChargeAfterLeaving, UpdateShopState, ShopsAndCallsBecome
  <2> QED
    BY <1>1, <1>4, <2>1
<1>10. ASSUME Charge(a)
       PROVE  AloneInv' /\ [W!Next]_<<money, marlives \union Delivering>>
  <2> DEFINE x == call[a].marLife
  <2>1. call[a].pc = "approved" /\ call[a] \in InFlight /\ x \in Creatures
    BY <1>1, <1>10, CallType DEF Charge
  <2>2. call'[a].pc = "reading" /\ call'[a].marLife = x
    <3>1. call' = [call EXCEPT ![a] = [call[a] EXCEPT !.pc = "reading"]]
      BY <1>10 DEF Charge, UpdateShopState, ShopsAndCallsBecome
    <3> QED
      BY <1>1, <2>1, <3>1 DEF InFlight
  <2>3. money >= Price[x] /\ money' = money - Price[x] /\ marlives' = marlives
    BY <1>1, <1>10, <2>1 DEF AloneInv, Charge
  <2>4. Delivering = {} /\ Delivering' = {x}
    BY <1>2, <2>1, <2>2 DEF DeliveredBy
  <2>5. (marlives \union Delivering)' = (marlives \union Delivering) \union {x}
    BY <2>3, <2>4
  <2>6. W!Next
    BY <2>1, <2>3, <2>5 DEF W!Next, W!Buy
  <2>7. AloneInv'
    BY <1>1, <2>2 DEF AloneInv
  <2> QED
    BY <2>6, <2>7
<1>11. ASSUME ReadLives(a)
       PROVE  AloneInv' /\ [W!Next]_<<money, marlives \union Delivering>>
  <2>1. call[a].pc = "reading" /\ call[a] \in InFlight /\ UNCHANGED <<money, marlives>>
    BY <1>1, <1>11, CallType DEF ReadLives
  <2>2. /\ call'[a].pc = "writing"
        /\ call'[a].marLife = call[a].marLife
        /\ call'[a].marList = marlives
    BY <1>1, <1>11, <2>1 DEF ReadLives, InFlight
  <2>3. Delivering' = Delivering
    BY <1>2, <2>1, <2>2 DEF DeliveredBy
  <2> QED
    BY <1>1, <2>1, <2>2, <2>3 DEF AloneInv
<1>12. ASSUME WriteLives(a)
       PROVE  AloneInv' /\ [W!Next]_<<money, marlives \union Delivering>>
  <2>1. call[a].pc = "writing" /\ call' = [call EXCEPT ![a] = Idle] /\ money' = money
    BY <1>12 DEF WriteLives, ShopsAndCallsBecome
  <2>2. marlives' = marlives \union {call[a].marLife}
    BY <1>1, <1>12, <2>1 DEF WriteLives, AloneInv
  <2>3. call'[a] = Idle
    BY <1>1, <2>1
  <2>4. Delivering = {call[a].marLife} /\ Delivering' = {}
    BY <1>1, <1>2, <2>1, <2>3 DEF DeliveredBy
  <2> QED
    BY <1>1, <2>1, <2>2, <2>3, <2>4 DEF AloneInv
<1>13. ASSUME NEW r \in Rewards, Earn(r)
       PROVE  AloneInv' /\ [W!Next]_<<money, marlives \union Delivering>>
  <2>1. money' = money + r /\ UNCHANGED <<marlives, call>>
    BY <1>13 DEF Earn
  <2>2. Delivering' = Delivering
    BY <1>2, <2>1
  <2>3. W!Next
    BY <2>1, <2>2 DEF W!Next, W!Earn
  <2>4. ASSUME call[a].pc = "approved" PROVE money' >= Price[call[a].marLife]
    <3>1. call[a].marLife \in Creatures
      BY <1>1, <2>4, CallType
    <3> QED
      BY <1>1, <2>1, <2>4, <3>1, CreaturesAssumption, AccountAssumption DEF AloneInv
  <2> QED
    BY <1>1, <2>1, <2>3, <2>4 DEF AloneInv
<1>14. CASE UNCHANGED vars
  BY <1>1, <1>3, <1>14 DEF vars
<1> QED
  BY <1>1, <1>5, <1>6, <1>7, <1>8, <1>9, <1>10, <1>11, <1>12, <1>13, <1>14 DEF Next, Resume

\* Without overlap and crashes a purchase is one indivisible step that needs the
\* price, takes it, and hands over a creature that is never lost again.
THEOREM AlonePurchasesAreAtomic ==
  ASSUME NEW a, Calls = {a}, MaxCrashes = 0
  PROVE  Spec => ImplementsWallet
<1>1. Init => AloneInv /\ W!Init
  BY DEF Init, AloneInv, Idle, Delivering, W!Init
<1>2. TypeOK /\ TypeOK' /\ AloneInv /\ [Next]_vars
        => AloneInv' /\ [W!Next]_<<money, marlives \union Delivering>>
  BY AloneStep
<1> QED
  BY <1>1, <1>2, TypeCorrect, PTL DEF Spec, ImplementsWallet, W!Spec

-----------------------------------------------------------------------------
(***************************************************************************)
(* One device that has the account to itself: no other device, and no      *)
(* other screen that credits a reward.  At most one shop is on the screen, *)
(* and an invocation that still finds its shop there was started from it;  *)
(* so _update subtracts from the balance in the document, and a charge     *)
(* keeps the shop, the home screen and the document together.              *)
(***************************************************************************)
\* What device d shows: the pages of at most one shop, dialogs only over its details.
Screen(d) ==
  /\ \A s \in Shops : shop[s].mounted => s = shopOf[d] /\ page[d] \in ShopPages
  /\ page[d] \in ShopPages => shop[shopOf[d]].mounted
  /\ dialogs[d] > 0 => page[d] = "details"
  /\ page[d] \in {"loadingLives", "shop", "details"} => shop[shopOf[d]].fishMoney = money

\* An invocation whose shop is on the screen finds it loaded, and one whose context is
\* in the tree finds the details page open.
CallsUnder(d) ==
  \A c \in Calls : call[c] # Idle =>
    /\ shop[call[c].shop].mounted => page[d] \in {"shop", "details"}
    /\ call[c].pageUp => page[d] = "details"

\* What HomeStaysInStep says of device d.
HomeKept(d) ==
  page[d] # "starting" /\ page'[d] # "starting" /\ homeMoney[d] = money
    => homeMoney'[d] = money' \/ \E c \in Calls : ChargeAfterLeaving(c)

\* Garbage collection takes no shop off the screen and puts none on it.
LEMMA BecomeMounted ==
  ASSUME NEW shops \in [Shops -> ShopState], NEW calls \in [Calls -> InFlight \union {Idle}],
         ShopsAndCallsBecome(shops, calls)
  PROVE  /\ call' = calls
         /\ \A s \in Shops : /\ shop'[s].mounted = shops[s].mounted
                             /\ shops[s].mounted => shop'[s] = shops[s]
<1>1. NoShop.mounted = FALSE
  BY DEF NoShop
<1>2. ASSUME NEW s \in Shops
      PROVE  /\ shop'[s].mounted = shops[s].mounted
             /\ shops[s].mounted => shop'[s] = shops[s]
  <2>1. CASE InUse(s, shops, calls)
    BY <2>1 DEF ShopsAndCallsBecome
  <2>2. CASE ~ InUse(s, shops, calls)
    <3>1. shops[s].mounted = FALSE
      BY <2>2 DEF InUse, ShopState
    <3> QED
      BY <1>1, <2>2, <3>1 DEF ShopsAndCallsBecome
  <2> QED
    BY <2>1, <2>2
<1> QED
  BY <1>2 DEF ShopsAndCallsBecome

\* The pages of the only device, while no invocation resumes.
LEMMA NavigateAlone ==
  ASSUME NEW d, Devices = {d}, TypeOK, TypeOK', Screen(d), CallsUnder(d), Navigate(d)
  PROVE  Screen(d)' /\ CallsUnder(d)' /\ HomeKept(d)
<1> USE DEF docVars, navVars, boundVars
<1>1. /\ call \in [Calls -> InFlight \union {Idle}]
      /\ shop \in [Shops -> ShopState]
      /\ shopOf \in [Devices -> Shops] /\ shopOf[d] \in Shops
      /\ page \in [Devices -> Pages] /\ dialogs \in [Devices -> Nat] /\ dialogs[d] \in Nat
      /\ d \in Devices /\ NoShop.mounted = FALSE
      /\ \A c \in Calls : call[c] # Idle => call[c] \in InFlight /\ call[c].shop \in Shops
                                            /\ call[c].device = d
  BY DEF TypeOK, NoShop, InFlight
<1>2. CASE Launch(d)
  <2>1. /\ page[d] = "starting" /\ page'[d] = "home"
        /\ UNCHANGED <<money, dialogs, shopOf, shop, call>>
    BY <1>1, <1>2 DEF Launch
  <2> QED
    BY <1>1, <2>1 DEF Screen, CallsUnder, HomeKept, ShopPages
<1>3. CASE OpenShop(d)
  <2>1. PICK s \in Shops : /\ ~ InUse(s, shop, call)
                           /\ shopOf' = [shopOf EXCEPT ![d] = s]
                           /\ shop' = [shop EXCEPT ![s] = NewShop]
    BY <1>3 DEF OpenShop
  <2>2. /\ page[d] = "home" /\ page'[d] = "loadingMoney"
        /\ UNCHANGED <<money, dialogs, homeMoney, call>>
    BY <1>1, <1>3 DEF OpenShop
  <2>3. shopOf'[d] = s /\ shop'[s] = NewShop /\ \A t \in Shops \ {s} : shop'[t] = shop[t]
    BY <1>1, <2>1
  <2>4. \A t \in Shops : ~ shop[t].mounted
    BY <2>2 DEF Screen, ShopPages
  <2>5. \A c \in Calls : call[c] # Idle => call[c].shop # s
    BY <2>1 DEF InUse
  <2>6. Screen(d)'
    BY <1>1, <2>2, <2>3, <2>4 DEF Screen, ShopPages, NewShop
  <2>7. CallsUnder(d)'
    BY <1>1, <2>2, <2>3, <2>4, <2>5 DEF CallsUnder
  <2> QED
    BY <2>2, <2>6, <2>7 DEF HomeKept
<1>4. CASE LoadMoney(d) \/ LoadLives(d)
  <2>1. /\ UNCHANGED <<money, dialogs, homeMoney, shopOf, call>>
        /\ page[d] \in ShopPages /\ page[d] \notin {"shop", "details"}
        /\ page'[d] \in {"loadingLives", "shop"}
    BY <1>1, <1>4 DEF LoadMoney, LoadLives, ShopPages
  <2>2. /\ \A s \in Shops : shop'[s].mounted = shop[s].mounted
        /\ shop'[shopOf[d]].fishMoney = money
    BY <1>1, <1>4 DEF LoadMoney, LoadLives, ShopState, Screen
  <2>3. Screen(d)'
    BY <1>1, <2>1, <2>2 DEF Screen, ShopPages
  <2>4. CallsUnder(d)'
    BY <1>1, <2>1, <2>2 DEF CallsUnder
  <2> QED
    BY <2>1, <2>3, <2>4 DEF HomeKept
<1>5. CASE \E x \in Creatures : OpenDetails(d, x)
  <2>1. /\ UNCHANGED <<money, dialogs, homeMoney, shopOf, shop, call>>
        /\ page[d] = "shop" /\ page'[d] = "details"
    BY <1>1, <1>5 DEF OpenDetails
  <2>2. Screen(d)' /\ CallsUnder(d)'
    BY <1>1, <2>1 DEF Screen, CallsUnder, ShopPages
  <2> QED
    BY <2>1, <2>2 DEF HomeKept
<1>6. CASE LeaveShop(d)
  <2> DEFINE shops == [shop EXCEPT ![shopOf[d]].mounted = FALSE]
  <2>1. /\ ShopsAndCallsBecome(shops, call)
        /\ UNCHANGED <<money, dialogs, homeMoney, shopOf>>
        /\ page[d] \in {"loadingMoney", "loadingLives", "shop"} /\ page'[d] = "home"
    BY <1>1, <1>6 DEF LeaveShop
  <2>2. /\ shops \in [Shops -> ShopState]
        /\ \A s \in Shops : ~ shops[s].mounted
    BY <1>1 DEF ShopState, Screen
  <2> HIDE DEF shops
  <2>3. call' = call /\ \A s \in Shops : ~ shop'[s].mounted
    BY <1>1, <2>1, <2>2, BecomeMounted
  <2>4. Screen(d)' /\ CallsUnder(d)'
    BY <1>1, <2>1, <2>3 DEF Screen, CallsUnder, ShopPages
  <2> QED
    BY <2>1, <2>4 DEF HomeKept
<1>7. ASSUME PopDetails(d), page[d] = "details", dialogs'[d] = 0,
             UNCHANGED <<money, homeMoney, shopOf, shop>>
      PROVE  Screen(d)' /\ CallsUnder(d)' /\ HomeKept(d)
  <2>1. page'[d] = "shop"
    BY <1>1, <1>7 DEF PopDetails
  <2>2. \A c \in Calls : call'[c] # Idle => /\ call[c] # Idle
                                            /\ call'[c].shop = call[c].shop
                                            /\ ~ call'[c].pageUp
    BY <1>1, <1>7 DEF PopDetails, ContextsGone, InFlight
  <2>3. Screen(d)'
    BY <1>1, <1>7, <2>1 DEF Screen, ShopPages
  <2>4. CallsUnder(d)'
    BY <1>7, <2>1, <2>2 DEF CallsUnder
  <2> QED
    BY <1>7, <2>3, <2>4 DEF HomeKept
<1>8. ASSUME dialogs[d] > 0,
             UNCHANGED <<money, homeMoney, shopOf, shop, page, call>>
      PROVE  Screen(d)' /\ CallsUnder(d)' /\ HomeKept(d)
  BY <1>8 DEF Screen, CallsUnder, HomeKept
<1>9. CASE LeaveDetails(d)
  BY <1>7, <1>9 DEF LeaveDetails
<1>10. CASE DismissDialog(d)
  BY <1>8, <1>10 DEF DismissDialog
<1>11. CASE PressOk(d)
  <2>1. dialogs[d] > 0 /\ page[d] = "details" /\ UNCHANGED <<money, homeMoney, shopOf, shop>>
    BY <1>11 DEF PressOk, Screen
  <2>2. CASE PopDetails(d) /\ dialogs' = [dialogs EXCEPT ![d] = 0]
    BY <1>1, <1>7, <2>1, <2>2
  <2>3. CASE UNCHANGED <<page, details, call>>
    BY <1>8, <2>1, <2>3
  <2> QED
    BY <1>11, <2>2, <2>3 DEF PressOk
<1> QED
  BY <1>2, <1>3, <1>4, <1>5, <1>6, <1>9, <1>10, <1>11 DEF Navigate

\* A dialog opens over the details page only.
LEMMA DialogAlone ==
  ASSUME NEW d, Devices = {d}, TypeOK, CallsUnder(d), Screen(d),
         NEW c \in Calls, call[c].pc # "idle", ShowDialog(c), page' = page
  PROVE  dialogs'[d] > 0 => page'[d] = "details"
<1>1. call[c] # Idle /\ call[c].device = d /\ d \in Devices /\ dialogs \in [Devices -> Nat]
  BY CallType DEF TypeOK
<1>2. CASE call[c].pageUp
  BY <1>1, <1>2 DEF CallsUnder
<1>3. CASE ~ call[c].pageUp
  BY <1>1, <1>3 DEF ShowDialog, Screen
<1> QED
  BY <1>2, <1>3

\* The invocations on the only device.
LEMMA ResumeAlone ==
  ASSUME NEW d, Devices = {d}, TypeOK, TypeOK', Screen(d), CallsUnder(d),
         NEW c \in Calls, Resume(c)
  PROVE  Screen(d)' /\ CallsUnder(d)' /\ HomeKept(d)
<1> USE DEF docVars, navVars, boundVars
<1>1. /\ call \in [Calls -> InFlight \union {Idle}]
      /\ shop \in [Shops -> ShopState]
      /\ shopOf[d] \in Shops /\ d \in Devices
      /\ homeMoney \in [Devices -> Int] /\ money \in Int
      /\ Idle.pc = "idle"
      /\ Idle \in InFlight \union {Idle}
  BY DEF TypeOK, Idle
<1>2. call[c].pc # "idle"
  BY DEF Resume, Answer, Refuse, Charge, ChargeAfterLeaving, ReadLives, WriteLives
<1>3. /\ call[c] \in InFlight /\ call[c] # Idle
      /\ call[c].shop \in Shops /\ call[c].device = d /\ call[c].marLife \in Creatures
  BY <1>1, <1>2, CallType
<1>4. ASSUME NEW next \in InFlight \union {Idle},
             next # Idle => next.shop = call[c].shop /\ next.pageUp = call[c].pageUp,
             call' = [call EXCEPT ![c] = next], page' = page, shopOf' = shopOf,
             dialogs'[d] > 0 => page'[d] = "details",
             \A s \in Shops : /\ shop'[s].mounted = shop[s].mounted
                              /\ shop[s].mounted => shop'[s] = shop[s],
             money' = money, homeMoney' = homeMoney
      PROVE  Screen(d)' /\ CallsUnder(d)' /\ HomeKept(d)
  <2>1. \A e \in Calls : call'[e] # Idle => /\ call[e] # Idle
                                            /\ call'[e].shop = call[e].shop
                                            /\ call'[e].pageUp = call[e].pageUp
    BY <1>1, <1>3, <1>4
  <2>2. \A e \in Calls : call[e] # Idle => call[e].shop \in Shops
    BY <1>1 DEF InFlight
  <2>3. CallsUnder(d)'
    BY <1>4, <2>1, <2>2 DEF CallsUnder
  <2>4. Screen(d)'
    BY <1>1, <1>4 DEF Screen, ShopPages
  <2> QED
    BY <1>4, <2>3, <2>4 DEF HomeKept
<1>5. ASSUME NEW next \in InFlight \union {Idle},
             next # Idle => next.shop = call[c].shop /\ next.pageUp = call[c].pageUp,
             call' = [call EXCEPT ![c] = next],
             UNCHANGED <<money, page, dialogs, shopOf, homeMoney, shop>>
      PROVE  Screen(d)' /\ CallsUnder(d)' /\ HomeKept(d)
  <2>1. dialogs'[d] > 0 => page'[d] = "details"
    BY <1>5 DEF Screen
  <2> QED
    BY <1>4, <1>5, <2>1
<1>6. CASE Answer(c)
  <2>1. PICK p \in {"approved", "refused"} : call' = [call EXCEPT ![c] = [call[c] EXCEPT !.pc = p]]
    BY <1>6 DEF Answer
  <2> DEFINE next == [call[c] EXCEPT !.pc = p]
  <2>2. next \in InFlight /\ next.shop = call[c].shop /\ next.pageUp = call[c].pageUp
    BY <1>3 DEF InFlight
  <2>3. call' = [call EXCEPT ![c] = next]
    BY <2>1
  <2>4. UNCHANGED <<money, page, dialogs, shopOf, homeMoney, shop>>
    BY <1>6 DEF Answer
  <2> HIDE DEF next
  <2> QED
    BY <1>5, <2>2, <2>3, <2>4
<1>7. CASE ReadLives(c)
  <2> DEFINE next == [call[c] EXCEPT !.pc = "writing", !.marList = marlives]
  <2>1. next \in InFlight /\ next.shop = call[c].shop /\ next.pageUp = call[c].pageUp
    BY <1>3 DEF InFlight, TypeOK
  <2>2. call' = [call EXCEPT ![c] = next]
    BY <1>7 DEF ReadLives
  <2>3. UNCHANGED <<money, page, dialogs, shopOf, homeMoney, shop>>
    BY <1>7 DEF ReadLives
  <2> HIDE DEF next
  <2> QED
    BY <1>5, <2>1, <2>2, <2>3
<1>8. CASE Refuse(c) \/ WriteLives(c)
  <2>1. /\ ShopsAndCallsBecome(shop, [call EXCEPT ![c] = Idle])
        /\ UNCHANGED <<money, page, shopOf, homeMoney>>
    BY <1>8 DEF Refuse, WriteLives
  <2>2. /\ call' = [call EXCEPT ![c] = Idle]
        /\ \A s \in Shops : /\ shop'[s].mounted = shop[s].mounted
                            /\ shop[s].mounted => shop'[s] = shop[s]
    BY <1>1, <2>1, BecomeMounted
  <2>3. dialogs' = dialogs \/ ShowDialog(c)
    BY <1>8 DEF Refuse, WriteLives
  <2>4. dialogs'[d] > 0 => page'[d] = "details"
    BY <1>2, <2>1, <2>3, DialogAlone DEF Screen
  <2> QED
    BY <1>1, <1>4, <2>1, <2>2, <2>4
<1> DEFINE left == shop[call[c].shop].fishMoney - Price[call[c].marLife]
           shops == [shop EXCEPT ![call[c].shop].marLives = @ \union {call[c].marLife},
                                 ![call[c].shop].fishMoney = left]
<1>9. left \in Int /\ Price[call[c].marLife] \in Int
  BY <1>1, <1>3, CreaturesAssumption DEF ShopState
<1>10. /\ shops \in [Shops -> ShopState]
       /\ \A s \in Shops : shops[s].mounted = shop[s].mounted
       /\ shops[call[c].shop].fishMoney = left
       /\ \A s \in Shops \ {call[c].shop} : shops[s] = shop[s]
  BY <1>1, <1>3, <1>9 DEF ShopState
<1>11. ASSUME NEW next \in InFlight \union {Idle}, UpdateShopState(c, next)
       PROVE  /\ homeMoney'[d] = left
              /\ call' = [call EXCEPT ![c] = next]
              /\ \A s \in Shops : /\ shop'[s].mounted = shops[s].mounted
                                  /\ shops[s].mounted => shop'[s] = shops[s]
  <2>1. ShopsAndCallsBecome(shops, [call EXCEPT ![c] = next])
    BY <1>11 DEF UpdateShopState
  <2>2. homeMoney'[d] = left
    BY <1>1, <1>3, <1>11 DEF UpdateShopState
  <2> HIDE DEF shops
  <2>3. [call EXCEPT ![c] = next] \in [Calls -> InFlight \union {Idle}]
    BY <1>1, <1>11
  <2> QED
    BY <1>10, <2>1, <2>2, <2>3, BecomeMounted
<1> HIDE DEF shops
<1>12. CASE Charge(c)
  <2> DEFINE next == [call[c] EXCEPT !.pc = "reading"]
  <2>1. next \in InFlight /\ next # Idle
        /\ next.shop = call[c].shop /\ next.pageUp = call[c].pageUp
    BY <1>3 DEF InFlight, Idle
  <2>2. /\ UpdateShopState(c, next)
        /\ shop[call[c].shop].mounted
        /\ money' = money - Price[call[c].marLife]
        /\ ShowDialog(c) /\ UNCHANGED <<page, shopOf>>
    BY <1>12 DEF Charge
  <2> HIDE DEF next
  <2>3. /\ homeMoney'[d] = left
        /\ call' = [call EXCEPT ![c] = next]
        /\ \A s \in Shops : /\ shop'[s].mounted = shops[s].mounted
                            /\ shops[s].mounted => shop'[s] = shops[s]
    BY <1>11, <2>1, <2>2
  <2>4. call[c].shop = shopOf[d] /\ page[d] \in {"shop", "details"}
    BY <1>3, <2>2 DEF Screen, CallsUnder
  <2>5. left = money'
    BY <2>2, <2>4 DEF Screen
  <2>6. dialogs'[d] > 0 => page'[d] = "details"
    BY <1>2, <2>2, DialogAlone
  <2>7. shop'[shopOf[d]].fishMoney = left
    BY <1>1, <1>3, <1>10, <2>2, <2>3, <2>4
  <2> HIDE DEF left
  <2>8. Screen(d)'
    BY <1>1, <1>10, <2>2, <2>3, <2>5, <2>6, <2>7 DEF Screen
  <2>9. \A e \in Calls : call'[e] # Idle => /\ call[e] # Idle
                                            /\ call'[e].shop = call[e].shop
                                            /\ call'[e].pageUp = call[e].pageUp
    BY <1>1, <1>3, <2>1, <2>3
  <2>10. \A e \in Calls : call[e] # Idle => call[e].shop \in Shops
    BY <1>1 DEF InFlight
  <2>11. CallsUnder(d)'
    BY <1>10, <2>2, <2>3, <2>9, <2>10 DEF CallsUnder
  <2> QED
    BY <2>3, <2>5, <2>8, <2>11 DEF HomeKept
<1>13. CASE ChargeAfterLeaving(c)
  <2>1. /\ UpdateShopState(c, Idle)
        /\ ~ shop[call[c].shop].mounted
        /\ UNCHANGED <<money, page, dialogs, shopOf>>
    BY <1>13 DEF ChargeAfterLeaving
  <2>2. /\ call' = [call EXCEPT ![c] = Idle]
        /\ \A s \in Shops : /\ shop'[s].mounted = shops[s].mounted
                            /\ shops[s].mounted => shop'[s] = shops[s]
    BY <1>1, <1>11, <2>1
  <2>3. \A s \in Shops : /\ shop'[s].mounted = shop[s].mounted
                         /\ shop[s].mounted => shop'[s] = shop[s]
    BY <1>3, <1>10, <2>1, <2>2
  <2>4. \A e \in Calls : call'[e] # Idle => call[e] # Idle /\ call'[e] = call[e]
    BY <1>1, <2>2
  <2>5. \A e \in Calls : call[e] # Idle => call[e].shop \in Shops
    BY <1>1 DEF InFlight
  <2>6. CallsUnder(d)'
    BY <2>1, <2>3, <2>4, <2>5 DEF CallsUnder
  <2>7. Screen(d)'
    BY <1>1, <2>1, <2>3 DEF Screen, ShopPages
  <2> QED
    BY <1>13, <2>6, <2>7 DEF HomeKept
<1> QED
  BY <1>6, <1>7, <1>8, <1>12, <1>13 DEF Resume

LEMMA NextAlone ==
  ASSUME NEW d, Devices = {d}, MaxEarned = 0, TypeOK, TypeOK', Screen(d), CallsUnder(d),
         [Next]_vars
  PROVE  Screen(d)' /\ CallsUnder(d)' /\ (Next => HomeKept(d))
<1> USE DEF docVars, navVars, boundVars
<1>1. /\ call \in [Calls -> InFlight \union {Idle}]
      /\ shop \in [Shops -> ShopState]
      /\ shopOf \in [Devices -> Shops] /\ shopOf[d] \in Shops
      /\ page \in [Devices -> Pages] /\ dialogs \in [Devices -> Nat]
      /\ d \in Devices /\ NoShop.mounted = FALSE
      /\ \A c \in Calls : call[c] # Idle => call[c].shop \in Shops /\ call[c].device = d
  BY DEF TypeOK, NoShop, InFlight
<1>2. CASE Buy(d)
  <2>1. PICK c \in Calls :
          call' = [call EXCEPT ![c] =
                     [pc |-> "asking", device |-> d, shop |-> shopOf[d],
                      marLife |-> details[d].marLife, pageUp |-> TRUE, marList |-> {}]]
    BY <1>2 DEF Buy
  <2>2. page[d] = "details" /\ UNCHANGED <<money, page, dialogs, shopOf, homeMoney, shop>>
    BY <1>2 DEF Buy
  <2>3. Screen(d)' /\ CallsUnder(d)'
    BY <2>1, <2>2 DEF Screen, CallsUnder
  <2> QED
    BY <2>2, <2>3 DEF HomeKept
<1>3. CASE Crash(d)
  <2> DEFINE shops == [s \in Shops |-> IF page[d] \in ShopPages /\ s = shopOf[d]
                                       THEN NoShop ELSE shop[s]]
             calls == [c \in Calls |-> IF call[c] # Idle /\ call[c].device = d
                                       THEN Idle ELSE call[c]]
  <2>1. /\ ShopsAndCallsBecome(shops, calls)
        /\ page'[d] = "starting" /\ dialogs'[d] = 0 /\ shopOf' = shopOf
    BY <1>1, <1>3 DEF Crash
  <2>2. shops \in [Shops -> ShopState] /\ \A s \in Shops : ~ shops[s].mounted
    BY <1>1 DEF ShopState, NoShop, NewShop, Screen
  <2>3. calls \in [Calls -> InFlight \union {Idle}] /\ \A c \in Calls : calls[c] = Idle
    BY <1>1
  <2> HIDE DEF shops, calls
  <2>4. (\A c \in Calls : call'[c] = Idle) /\ \A s \in Shops : ~ shop'[s].mounted
    BY <2>1, <2>2, <2>3, BecomeMounted
  <2> QED
    BY <2>1, <2>4 DEF Screen, CallsUnder, HomeKept, ShopPages
<1>4. CASE UNCHANGED vars
  <2>1. UNCHANGED <<money, page, dialogs, shopOf, homeMoney, shop, call>>
    BY <1>4 DEF vars
  <2> QED
    BY <2>1 DEF Screen, CallsUnder, HomeKept
<1>5. ~ \E r \in Rewards : Earn(r)
  BY DEF Earn, TypeOK
<1> QED
  BY <1>2, <1>3, <1>4, <1>5, NavigateAlone, ResumeAlone DEF Next

LEMMA InitAlone ==
  ASSUME NEW d, Devices = {d}, Init
  PROVE  Screen(d) /\ CallsUnder(d)
BY DEF Init, Screen, CallsUnder, ShopPages, NoShop

\* On a device that has the account to itself the balance in the shop is the one in
\* the document, whatever purchases overlap, outlive their shop or are cut off by a crash.
THEOREM ShopStaysInStep ==
  ASSUME NEW d, Devices = {d}, MaxEarned = 0
  PROVE  Spec => []ShopShowsBalance
<1>1. Init => Screen(d) /\ CallsUnder(d)
  BY InitAlone
<1>2. TypeOK /\ TypeOK' /\ (Screen(d) /\ CallsUnder(d)) /\ [Next]_vars
        => (Screen(d) /\ CallsUnder(d))'
  BY NextAlone
<1>3. Screen(d) /\ CallsUnder(d) => ShopShowsBalance
  BY DEF Screen, ShopShowsBalance
<1> QED
  BY <1>1, <1>2, <1>3, TypeCorrect, PTL DEF Spec

\* On such a device the home screen stays in step with the document too, as long as
\* no purchase is approved after its shop was left.
THEOREM HomeStepsAlong ==
  ASSUME NEW a, Devices = {a}, MaxEarned = 0
  PROVE  Spec => HomeStaysInStep
<1>1. Init => Screen(a) /\ CallsUnder(a)
  BY InitAlone
<1>2. TypeOK /\ TypeOK' /\ (Screen(a) /\ CallsUnder(a)) /\ [Next]_vars
        => (Screen(a) /\ CallsUnder(a))' /\ [HomeKeepsStep]_vars
  BY NextAlone DEF HomeKept, HomeKeepsStep
<1> QED
  BY <1>1, <1>2, TypeCorrect, PTL DEF Spec, HomeStaysInStep
=============================================================================
