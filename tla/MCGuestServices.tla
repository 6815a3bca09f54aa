-------------------------- MODULE MCGuestServices ---------------------------
(***************************************************************************)
(* Three services around a stay for TLC: cleaning and maintenance          *)
(* requests, restaurant orders charged to the room, orders from the        *)
(* customer app.  They share no state and no property relates one to       *)
(* another, so one of them moves in a behaviour, chosen at the start; and  *)
(* a cleaning touches a repair only when it creates it, so that each kind  *)
(* of request moves on its own too.                                        *)
(***************************************************************************)
EXTENDS ServiceRequests, HotelPos, MobileCart, TLC

CONSTANTS c1, c2    \* two wallets

VARIABLE part

guestVars == <<part, serviceVars, posVars, cartVars>>

TwoCards == c1 :> 3 @@ c2 :> 1
EmptyTwoOrBack == {<<>>, <<2, 2>>, <<2, -5>>}
InOrOut == {2, -3}
HalfOrAll == {[mode |-> "percent", discount |-> 50], [mode |-> "per_order", discount |-> 9]}

Alike == Permutations(Tills) \cup Permutations(Folios)

GuestInit ==
    /\ part \in {"cleaning", "repair", "pos", "cart"}
    /\ ServiceInit /\ PosInit /\ CartInit

GuestNext ==
    /\ UNCHANGED part
    /\ \/ /\ part = "cleaning" /\ \E u \in Staff, k \in Cleanings : CleaningStep(u, k)
          /\ UNCHANGED <<posVars, cartVars>>
       \/ /\ part = "repair"
          /\ \E m \in Repairs : create(m) \/ \E u \in Staff : RepairStep(u, m)
          /\ UNCHANGED <<posVars, cartVars>>
       \/ part = "pos" /\ PosNext /\ UNCHANGED <<serviceVars, cartVars>>
       \/ part = "cart" /\ CartNext /\ UNCHANGED <<serviceVars, posVars>>

GuestSpec == GuestInit /\ [][GuestNext]_guestVars

(* What each service stores has its type.                                  *)
GuestTypeOK == ServiceTypeOK /\ PosTypeOK /\ CartTypeOK
=============================================================================
