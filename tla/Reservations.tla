---------------------------- MODULE Reservations ----------------------------
(***************************************************************************)
(* What a store promises about its stock (src/lib/src/store.rs): per       *)
(* product an available and a reserved quantity, changed only by holding   *)
(* part of the free stock for an online order, releasing a hold (taking    *)
(* it out of the available stock when the order is approved) and selling   *)
(* over the counter out of the free stock.  Store.tla is shown to          *)
(* implement it.                                                           *)
(***************************************************************************)
EXTENDS Naturals

CONSTANTS Products, InitialStock, Quantities

VARIABLES available, reserved

Init ==
    /\ available = InitialStock
    /\ reserved = [p \in Products |-> 0]

Free(p) == available[p] - reserved[p]

\* ReserveProduct: hold q of the free stock.
Hold(p, q) ==
    /\ Free(p) >= q
    /\ reserved' = [reserved EXCEPT ![p] = @ + q]
    /\ UNCHANGED available

\* DispatchProduct: give back a hold of q, selling it when approved.
Release(p, q, approved) ==
    /\ reserved[p] >= q
    /\ reserved' = [reserved EXCEPT ![p] = @ - q]
    /\ available' = [available EXCEPT ![p] = IF approved THEN @ - q ELSE @]

\* LocalProductOrder: sell q of the free stock.
Sell(p, q) ==
    /\ Free(p) >= q
    /\ available' = [available EXCEPT ![p] = @ - q]
    /\ UNCHANGED reserved

Next ==
    \E p \in Products, q \in Quantities :
        Hold(p, q) \/ Sell(p, q) \/ \E a \in BOOLEAN : Release(p, q, a)

Spec == Init /\ [][Next]_<<available, reserved>>

=============================================================================
