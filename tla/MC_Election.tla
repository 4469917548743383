------------------------------ MODULE MC_Election ------------------------------
(* Three ecommerces with ids 0, 1 and 2, as the ecommerce binary is        *)
(* started with two peers.  curr_leader = None is a model value.  The      *)
(* cfgs choose the start (all down, or already booted and connected), the  *)
(* crashes and the restarts.                                                *)
EXTENDS Election

CONSTANTS None

\* The state without the store's view of the leader.  No guard or
\* assignment of the coordinators, links or processes reads toStore or
\* storeLeader, so runs whose properties do not mention them may merge
\* states that differ only there.
LeadershipView ==
    <<up, inc, listening, toConnect, conn, toAcc, toIni, dead, leader, peers,
      mbox, notes, crashes, stores, fate>>
=============================================================================
