------------------------------ MODULE MC_Routing ------------------------------
(* Two stores and the leading ecommerce.  Stock and order counts are chosen *)
(* per run in the cfg files.                                                *)
EXTENDS Routing

CONSTANTS s1, s2

MC_Stores == {s1, s2}
MC_Stock == [s \in MC_Stores |-> 1]
MC_Stock3 == [s \in MC_Stores |-> 3]
=============================================================================
