------------------------------- MODULE MC_Store -------------------------------
(* One store with one product and two ecommerces.  The reserves channel     *)
(* holds one reservation (RESERVE_CHANNEL_SIZE is 10) so that three online  *)
(* orders are enough to find it full; the seconds are {1, 2} because the    *)
(* reserves manager only compares a deadline with a hold time.              *)
EXTENDS Store

CONSTANTS p1

MC_Products == {p1}
MC_Ecoms == {0, 1}
MC_InitialStock == [p \in MC_Products |-> 2]
MC_Quantities == {1}
MC_Secs == {1, 2}
=============================================================================
