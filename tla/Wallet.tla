------------------------------- MODULE Wallet -------------------------------
(***************************************************************************)
(* What the shop promises its user: a purchase is one indivisible step     *)
(* that needs the price, takes the price and hands over the creature, and  *)
(* a creature once handed over stays.  Rewards are the only income.        *)
(***************************************************************************)
EXTENDS Integers

CONSTANTS Creatures, Price, Rewards, InitMoney

VARIABLES balance, owned

Init == balance = InitMoney /\ owned = {}

Earn(r) ==
  /\ balance' = balance + r
  /\ UNCHANGED owned

Buy(x) ==
  /\ balance >= Price[x]
  /\ balance' = balance - Price[x]
  /\ owned' = owned \union {x}

Next ==
  \/ \E r \in Rewards : Earn(r)
  \/ \E x \in Creatures : Buy(x)

Spec == Init /\ [][Next]_<<balance, owned>>
=============================================================================
