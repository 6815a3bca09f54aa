----------------------------- MODULE MobileCart -----------------------------
(***************************************************************************)
(* Orders from the customer app (taqnix_restaurant, controllers cart and   *)
(* pos_promotions), those of one customer.  A request is a transaction: it *)
(* reads a snapshot, computes the order's lines and its total beside them, *)
(* and takes what is paid by wallet from the customer's first card.  The   *)
(* app's prices and amounts are taken as they come, negative ones too.     *)
(* Amounts include taxes and are whole numbers, a percentage rounded down. *)
(***************************************************************************)
EXTENDS Integers, SequencesExt

CONSTANTS
    Apps,       \* requests, each from one of the customer's devices
    Cards,      \* the customer's wallets, in one or several programs
    FirstCard,  \* the one a search finds first
    TopUpCard,  \* the one of the first program
    Opening,    \* the points of a card at the start
    Carts,      \* what the lines in the cart come to, as the app says
    Coupons,    \* rewards: a mode and a discount
    Fees,
    TopUps      \* amounts to add to the wallet

ASSUME CartAssumption ==
    /\ IsFiniteSet(Apps) /\ IsFiniteSet(Cards) /\ {FirstCard, TopUpCard} \subseteq Cards
    /\ Opening \in [Cards -> Nat] /\ Carts \subseteq Seq(Int) /\ Fees \subseteq Int
    /\ Coupons \subseteq [mode : {"percent", "per_order", "none"}, discount : Int]
    /\ TopUps \subseteq Int

VARIABLES
    points,     \* the points of a card
    register,   \* whether the shop's session is open
    ask         \* the request: what it wants, its snapshot of the cards, how far it is

cartVars == <<points, register, ask>>

NoCoupon == [mode |-> "none", discount |-> 0]

Wants == [cart : Carts, fee : Fees, coupon : Coupons \cup {NoCoupon}, wallet : BOOLEAN]

Asleep == [phase |-> "new"]

Request ==
    {Asleep, [phase |-> "refused"]}
        \cup [phase : {"topup", "added"}, amount : TopUps, base : [Cards -> Int]]
        \cup [phase : {"order", "placed", "failed"}, want : Wants, base : [Cards -> Int]]

CartTypeOK ==
    /\ points \in [Cards -> Int]
    /\ register \in {"opened", "closed"}
    /\ ask \in [Apps -> Request]

CartInit ==
    /\ points = Opening
    /\ register = "opened"
    /\ ask = [a \in Apps |-> Asleep]
-----------------------------------------------------------------------------
(* The lines of an order                                                   *)

Smaller(x, y) == IF x < y THEN x ELSE y

Total(lines) == FoldSeq(+, 0, lines)

Balance(cards) == FoldFunction(+, 0, cards)

Items(want) == want.cart

Delivery(want) == Items(want) \o (IF want.fee > 0 THEN <<want.fee>> ELSE <<>>)

BeforeCoupon(want) == Total(Items(want)) + (IF want.fee > 0 THEN want.fee ELSE 0)

Reward(want) ==
    CASE want.coupon.mode = "percent" -> (BeforeCoupon(want) * want.coupon.discount) \div 100
      [] want.coupon.mode = "per_order" -> want.coupon.discount
      [] want.coupon.mode = "none" -> 0

(* A coupon takes off no more than the total.                              *)
Discount(want) ==
    IF Reward(want) > 0 THEN Smaller(Reward(want), BeforeCoupon(want)) ELSE 0

AfterCoupon(want) == BeforeCoupon(want) - Discount(want)

(* Mutant: the cap is put on the total only, the line has the whole coupon. *)
UncappedLines(want) ==
    Delivery(want) \o (IF Reward(want) > 0 THEN <<-Reward(want)>> ELSE <<>>)

DiscountLines(want) ==
    Delivery(want) \o (IF Reward(want) > 0 THEN <<-Discount(want)>> ELSE <<>>)

(* What the cards hold together pays, as far as it goes.                   *)
WalletPays(want, cards) == want.wallet /\ Balance(cards) > 0

(* Mutant: the wallet pays all of it.                                      *)
WalletPaysAll(want, cards) == IF WalletPays(want, cards) THEN AfterCoupon(want) ELSE 0

WalletUsed(want, cards) ==
    IF WalletPays(want, cards) THEN Smaller(Balance(cards), AfterCoupon(want)) ELSE 0

OrderLines(want, cards) ==
    DiscountLines(want) \o
        (IF WalletPays(want, cards) THEN <<-WalletUsed(want, cards)>> ELSE <<>>)

AmountTotal(want, cards) == AfterCoupon(want) - WalletUsed(want, cards)
-----------------------------------------------------------------------------
(* Requests                                                                *)

(* An order is refused for an empty cart, a closed session, or a product   *)
(* of the cart that is not there.                                          *)
place_pos_order(a, want) ==
    /\ ask[a].phase = "new"
    /\ \/ ask' = [ask EXCEPT ![a] = [phase |-> "refused"]]
       \/ /\ want.cart # <<>> /\ register = "opened"
          /\ ask' = [ask EXCEPT ![a] = [phase |-> "order", want |-> want, base |-> points]]
    /\ UNCHANGED <<points, register>>

test_add_wallet_balance(a, amount) ==
    /\ ask[a].phase = "new"
    /\ ask' = [ask EXCEPT ![a] = [phase |-> "topup", amount |-> amount, base |-> points]]
    /\ UNCHANGED <<points, register>>

Writes(a) ==
    CASE ask[a].phase = "topup" -> {TopUpCard}
      [] ask[a].phase = "order" /\ WalletPays(ask[a].want, ask[a].base) -> {FirstCard}
      [] OTHER -> {}

(* Another transaction has written the card since the snapshot.            *)
CardChanged(a) == \E c \in Writes(a) : points[c] # ask[a].base[c]

(* What a request writes is the points it read and its own amount.         *)
Put(a, card, amount) == points' = [points EXCEPT ![card] = ask[a].base[card] + amount]

Charge(a) ==
    IF WalletPays(ask[a].want, ask[a].base)
    THEN Put(a, FirstCard, -WalletUsed(ask[a].want, ask[a].base))
    ELSE UNCHANGED points

(* Mutant: the order is written over what another request did to the card. *)
CreateOver(a) ==
    /\ ask[a].phase = "order"
    /\ Charge(a)
    /\ \E end \in {"placed", "failed"} : ask' = [ask EXCEPT ![a].phase = end]
    /\ UNCHANGED register

(* The order is there, and the points are gone.  If a rule of the order    *)
(* refuses it, the error is caught and answered: the points are gone all   *)
(* the same.                                                               *)
CreateOrder(a) ==
    /\ ask[a].phase = "order" /\ ~CardChanged(a)
    /\ Charge(a)
    /\ \E end \in {"placed", "failed"} : ask' = [ask EXCEPT ![a].phase = end]
    /\ UNCHANGED register

AddFunds(a) ==
    /\ ask[a].phase = "topup" /\ ~CardChanged(a)
    /\ Put(a, TopUpCard, ask[a].amount)
    /\ ask' = [ask EXCEPT ![a].phase = "added"]
    /\ UNCHANGED register

(* The database refuses a statement of the request, the second of two      *)
(* writes that overlap above all.  The request runs again, with a new      *)
(* snapshot, or it ends with nothing done: what it did is rolled back,     *)
(* where the error is caught (CREATE ORDER) too.                           *)
Refuse(a) ==
    /\ ask[a].phase \in {"topup", "order"}
    /\ \/ ask' = [ask EXCEPT ![a].base = points]
       \/ ask' = [ask EXCEPT ![a] = [phase |-> "refused"]]
    /\ UNCHANGED <<points, register>>

TurnRegister ==
    /\ register' = IF register = "opened" THEN "closed" ELSE "opened"
    /\ UNCHANGED <<points, ask>>

CartNext ==
    \/ \E a \in Apps :
         \/ \E want \in Wants : place_pos_order(a, want)
         \/ \E amount \in TopUps : test_add_wallet_balance(a, amount)
         \/ CreateOrder(a) \/ AddFunds(a) \/ Refuse(a)
    \/ TurnRegister

CartSpec == CartInit /\ [][CartNext]_cartVars
-----------------------------------------------------------------------------
(* Properties                                                              *)

Ended(phase) == {a \in Apps : ask[a].phase = phase}

(* What the wallet's line of an order says it paid, if it has one.         *)
WalletLine(a) ==
    IF WalletPays(ask[a].want, ask[a].base)
    THEN -Last(OrderLines(ask[a].want, ask[a].base)) ELSE 0

(* However many orders overlap, they never take more than the customer's   *)
(* cards hold together, while one card may well be overdrawn (APPLY WALLET *)
(* PAYMENT): below zero they are by no more than what came off them by     *)
(* adding a negative amount (test_add_wallet_balance).                     *)
NeverOverdrawn ==
    Balance(points) >= Balance([a \in Ended("added") |-> Smaller(ask[a].amount, 0)])

(* The total the request computes beside the lines of an order, with its   *)
(* own caps and conditions, is what the lines add up to, whatever the app  *)
(* sent; and nobody is paid for an order that has no negative line.        *)
LinesAddUp ==
    \A a \in Ended("placed") : LET want == ask[a].want  base == ask[a].base IN
        /\ Total(OrderLines(want, base)) = AmountTotal(want, base)
        /\ want.cart \in Seq(Nat) => AmountTotal(want, base) >= 0

(* No point is lost or spent twice, however requests overlap and run       *)
(* again: what is missing on the cards is what the orders' wallet lines    *)
(* say, what went with orders that failed, and what was not added.         *)
PointsAccounted ==
    Balance(points) = Balance(Opening)
        + Balance([a \in Ended("added") |-> ask[a].amount])
        - Balance([a \in Ended("placed") |-> WalletLine(a)])
        - Balance([a \in Ended("failed") |-> WalletUsed(ask[a].want, ask[a].base)])
=============================================================================
