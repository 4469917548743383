-------------------------------- MODULE Store --------------------------------
(***************************************************************************)
(* The store process: the Store actor (src/lib/src/store.rs), the          *)
(* reserves manager and the dispatch tasks it spawns, the physical-sales   *)
(* feeder and the online_sales connection loops (src/store/src/main.rs),   *)
(* and the EcomHandler links that turn the lines an ecommerce writes into  *)
(* Store messages (src/lib/src/ecom_handler.rs).  The operator console's   *)
(* K and C, which act on the links and not on the stock, are modelled     *)
(* with the links in Routing.tla.                                          *)
(*                                                                         *)
(* The Store actor handles one message at a time, taken either from its   *)
(* mailbox (FIFO over every sender) or from the messages it sent itself    *)
(* with ctx.notify; actix may run either first, so both are heads the      *)
(* model may take.  A reservation carries a ghost id so that its way       *)
(* through the reserves channel, the manager and the sleeping task can be  *)
(* followed; the code has no such id.                                      *)
(***************************************************************************)
EXTENDS Naturals, Sequences, FiniteSets, SequencesExt

CONSTANTS
    Products,           \* product keys of the stock file
    Ecoms,              \* ids of the ecommerces the store connects to
    InitialStock,       \* [Products -> Nat]: the stock file
    Quantities,         \* quantities an order line may ask for
    Secs,               \* deadlines and sampled hold times (gen_range(1, 10))
    InitialLeader,      \* the leader a fresh Store starts with (0)
    ReserveChannelSize, \* capacity of the reserves channel (RESERVE_CHANNEL_SIZE)
    MaxOnline,          \* online orders that reach the store
    MaxPhysical,        \* lines of the physical orders file
    MaxLeaderMsgs       \* LEADER records the ecommerces write to the store

ASSUME /\ InitialStock \in [Products -> Nat]
       /\ Quantities \subseteq Nat \ {0}
       /\ Secs \subseteq Nat \ {0} /\ Secs # {}
       /\ ReserveChannelSize \in Nat \ {0}

MaxStock == CHOOSE m \in {InitialStock[p] : p \in Products} :
                \A p \in Products : InitialStock[p] <= m
OrderIds == 1..MaxOnline

VARIABLES
    stock,        \* Store.stock: product -> [available, reserved]
    leader,       \* Store.leader
    activeEcoms,  \* keys of Store.active_ecoms (EcomHandlers alive)
    mailbox,      \* the Store actor's mailbox
    notified,     \* messages the Store sent itself with ctx.notify
    reserveCh,    \* the reserves channel, Store -> reserves_manager
    timers,       \* spawned tasks sleeping before they send DispatchProduct
    pendingConn,  \* ecoms whose online_sales loop is about to connect
    nOnline,      \* online orders sent so far (also the last ghost id)
    nPhysical,    \* physical order lines read so far
    nLeaderMsgs,  \* LEADER records written by ecoms so far
    released      \* ghost: ids whose hold the Store released on dispatch

vars == <<stock, leader, activeEcoms, mailbox, notified, reserveCh,
          timers, pendingConn, nOnline, nPhysical,
          nLeaderMsgs, released>>

-----------------------------------------------------------------------------
(* Messages and records.                                                   *)

ReserveMsg(id, p, q, d) == [kind |-> "Reserve", id |-> id, p |-> p, q |-> q, d |-> d]
DispatchMsg(id, p, q, c) == [kind |-> "Dispatch", id |-> id, p |-> p, q |-> q, cancel |-> c]
LocalMsg(p, q) == [kind |-> "Local", p |-> p, q |-> q]
NewLeaderMsg(e) == [kind |-> "NewLeader", e |-> e]
NewEcomHandlerMsg(e) == [kind |-> "NewEcomHandler", e |-> e]

\* AnswerEcom and ShareStock, sent with ctx.notify
AnswerMsg(r) == [kind |-> "Answer", rec |-> r]
ShareMsg == [kind |-> "Share"]

\* The lines a store writes to an ecommerce
Rec(verb, p, q) == [verb |-> verb, p |-> p, q |-> q]
LeaderQuery == [verb |-> "LEADER"]

Msg == {ReserveMsg(i, p, q, d) : i \in OrderIds, p \in Products, q \in Quantities, d \in Secs}
       \cup {DispatchMsg(i, p, q, c) : i \in OrderIds, p \in Products, q \in Quantities, c \in BOOLEAN}
       \cup {LocalMsg(p, q) : p \in Products, q \in Quantities}
       \cup {NewLeaderMsg(e) : e \in Ecoms} \cup {NewEcomHandlerMsg(e) : e \in Ecoms}
UpRec == {Rec(v, p, q) : v \in {"APPROVED", "CANCELLED", "STOCK"}, p \in Products, q \in 0..MaxStock}
         \cup {LeaderQuery}
SelfMsg == {AnswerMsg(r) : r \in UpRec} \cup {ShareMsg}
Reservation == [id : OrderIds, p : Products, q : Quantities, d : Secs]
Task == [id : OrderIds, p : Products, q : Quantities, cancel : BOOLEAN]

-----------------------------------------------------------------------------
(* Where a reserved quantity is on its way back to the Store: in the       *)
(* reserves channel, in a sleeping task, or as a DispatchProduct waiting   *)
(* in the mailbox.                                                         *)

DispatchesQueued == {m \in ToSet(mailbox) : m.kind = "Dispatch"}
Pipeline == ToSet(reserveCh) \cup timers \cup DispatchesQueued
InPipeline(id) == \E r \in Pipeline : r.id = id
InFlight(p) == MapThenSumSet(LAMBDA r : r.q, {r \in Pipeline : r.p = p})
Free(p) == stock[p].available - stock[p].reserved

-----------------------------------------------------------------------------
Init ==
    /\ stock = [p \in Products |-> [available |-> InitialStock[p], reserved |-> 0]]
    /\ leader = InitialLeader
    /\ activeEcoms = {}
    /\ mailbox = <<>>
    /\ notified = <<>>
    /\ reserveCh = <<>>
    /\ timers = {}
    /\ pendingConn = Ecoms
    /\ nOnline = 0
    /\ nPhysical = 0
    /\ nLeaderMsgs = 0
    /\ released = {}

-----------------------------------------------------------------------------
(* Store handlers (src/lib/src/store.rs).  Each takes the head of the      *)
(* mailbox; the ones reached by ctx.notify take the head of notified.      *)

Recv(kind) == mailbox # <<>> /\ Head(mailbox).kind = kind
Notify(m) == notified' = Append(notified, m)

\* Variant that checks the available quantity instead of the free one.
LocalProductOrderIgnoringReserved ==
    /\ Recv("Local")
    /\ LET m == Head(mailbox) IN
       IF stock[m.p].available >= m.q
       THEN /\ stock' = [stock EXCEPT ![m.p].available = @ - m.q]
            /\ Notify(AnswerMsg(Rec("APPROVED", m.p, m.q)))
       ELSE UNCHANGED <<stock, notified>>
    /\ mailbox' = Tail(mailbox)
    /\ UNCHANGED <<leader, activeEcoms, reserveCh, timers,
                   pendingConn, nOnline, nPhysical, nLeaderMsgs,
                   released>>

\* Handler<LocalProductOrder>: sell over the counter if the free stock allows.
LocalProductOrder ==
    /\ Recv("Local")
    /\ LET m == Head(mailbox) IN
       IF Free(m.p) >= m.q
       THEN /\ stock' = [stock EXCEPT ![m.p].available = @ - m.q]
            /\ Notify(AnswerMsg(Rec("APPROVED", m.p, m.q)))
       ELSE UNCHANGED <<stock, notified>>     \* NotEnoughStockError
    /\ mailbox' = Tail(mailbox)
    /\ UNCHANGED <<leader, activeEcoms, reserveCh, timers,
                   pendingConn, nOnline, nPhysical, nLeaderMsgs,
                   released>>

\* Variant that forgets to hold the quantity it hands to the manager.
ReserveProductNoIncrement ==
    /\ Recv("Reserve")
    /\ LET m == Head(mailbox) IN
       IF Free(m.p) >= m.q
       THEN IF Len(reserveCh) < ReserveChannelSize
            THEN reserveCh' = Append(reserveCh, [id |-> m.id, p |-> m.p, q |-> m.q, d |-> m.d])
            ELSE UNCHANGED reserveCh
       ELSE UNCHANGED reserveCh
    /\ mailbox' = Tail(mailbox)
    /\ UNCHANGED <<stock, leader, activeEcoms, notified, timers,
                   pendingConn, nOnline, nPhysical, nLeaderMsgs,
                   released>>

\* Handler<ReserveProduct>: hold the quantity, then hand the reservation to
\* the reserves manager with try_send.  A full channel only logs an error:
\* the quantity stays reserved.
ReserveProduct ==
    /\ Recv("Reserve")
    /\ LET m == Head(mailbox) IN
       IF Free(m.p) >= m.q
       THEN /\ stock' = [stock EXCEPT ![m.p].reserved = @ + m.q]
            /\ IF Len(reserveCh) < ReserveChannelSize
               THEN reserveCh' = Append(reserveCh, [id |-> m.id, p |-> m.p, q |-> m.q, d |-> m.d])
               ELSE UNCHANGED reserveCh
       ELSE UNCHANGED <<stock, reserveCh>>    \* NotEnoughStockError
    /\ mailbox' = Tail(mailbox)
    /\ UNCHANGED <<leader, activeEcoms, notified, timers,
                   pendingConn, nOnline, nPhysical, nLeaderMsgs,
                   released>>

\* Variant that releases a dispatched hold twice.
DispatchProductDoubleRelease ==
    /\ Recv("Dispatch")
    /\ LET m == Head(mailbox) IN
       /\ stock' = [stock EXCEPT ![m.p].reserved = @ - 2 * m.q,
                                 ![m.p].available = IF m.cancel THEN @ ELSE @ - m.q]
       /\ Notify(AnswerMsg(Rec(IF m.cancel THEN "CANCELLED" ELSE "APPROVED", m.p, m.q)))
       /\ released' = released \cup {m.id}
    /\ mailbox' = Tail(mailbox)
    /\ UNCHANGED <<leader, activeEcoms, reserveCh, timers,
                   pendingConn, nOnline, nPhysical, nLeaderMsgs>>

\* Handler<DispatchProduct>: release the hold; on approval also take the
\* quantity out of the available stock.  Every product of a reservation is
\* a key of stock, so the ProductNotFoundError branch is never taken.
DispatchProduct ==
    /\ Recv("Dispatch")
    /\ LET m == Head(mailbox) IN
       /\ stock' = [stock EXCEPT ![m.p].reserved = @ - m.q,
                                 ![m.p].available = IF m.cancel THEN @ ELSE @ - m.q]
       /\ Notify(AnswerMsg(Rec(IF m.cancel THEN "CANCELLED" ELSE "APPROVED", m.p, m.q)))
       /\ released' = released \cup {m.id}
    /\ mailbox' = Tail(mailbox)
    /\ UNCHANGED <<leader, activeEcoms, reserveCh, timers,
                   pendingConn, nOnline, nPhysical, nLeaderMsgs>>

\* Handler<NewLeader>: adopt the leader and share the whole stock with it.
NewLeader ==
    /\ Recv("NewLeader")
    /\ leader' = Head(mailbox).e
    /\ Notify(ShareMsg)
    /\ mailbox' = Tail(mailbox)
    /\ UNCHANGED <<stock, activeEcoms, reserveCh, timers,
                   pendingConn, nOnline, nPhysical, nLeaderMsgs,
                   released>>

\* Handler<NewEcomHandler>: a fresh EcomHandler for the connected ecom.
NewEcomHandler ==
    /\ Recv("NewEcomHandler")
    /\ activeEcoms' = activeEcoms \cup {Head(mailbox).e}
    /\ mailbox' = Tail(mailbox)
    /\ UNCHANGED <<stock, leader, notified, reserveCh, timers,
                   pendingConn, nOnline, nPhysical, nLeaderMsgs,
                   released>>

\* Handler<ShareStock>: one STOCK line per product, with its available quantity.
ShareStock ==
    /\ notified # <<>> /\ Head(notified) = ShareMsg
    /\ notified' = Tail(notified)
                   \o SetToSeq({AnswerMsg(Rec("STOCK", p, stock[p].available)) : p \in Products})
    /\ UNCHANGED <<stock, leader, activeEcoms, mailbox, reserveCh,
                   timers, pendingConn, nOnline, nPhysical,
                   nLeaderMsgs, released>>

\* Handler<AnswerEcom>: the line goes to the leader's EcomHandler if the
\* store has one and is dropped otherwise; what reaches the ecommerce is
\* modelled with the ecommerce side, so here the line only leaves.
AnswerEcom ==
    /\ notified # <<>> /\ Head(notified).kind = "Answer"
    /\ notified' = Tail(notified)
    /\ UNCHANGED <<stock, leader, activeEcoms, mailbox, reserveCh,
                   timers, pendingConn, nOnline, nPhysical,
                   nLeaderMsgs, released>>

-----------------------------------------------------------------------------
(* The reserves manager and its tasks (reserves_manager, main.rs).         *)

\* Variant of the manager that drops a reservation it decides to cancel.
ReservesManagerDropCancel ==
    /\ reserveCh # <<>>
    /\ \E s \in Secs :
         LET r == Head(reserveCh) IN
         timers' = IF r.d < s THEN timers
                   ELSE timers \cup {[id |-> r.id, p |-> r.p, q |-> r.q, cancel |-> FALSE]}
    /\ reserveCh' = Tail(reserveCh)
    /\ UNCHANGED <<stock, leader, activeEcoms, mailbox, notified,
                   pendingConn, nOnline, nPhysical, nLeaderMsgs,
                   released>>

\* Receive a reservation, sample the hold time, decide cancel_order =
\* time_limit < seconds and spawn a task that sleeps that long.
ReservesManager ==
    /\ reserveCh # <<>>
    /\ \E s \in Secs :
         LET r == Head(reserveCh) IN
         timers' = timers \cup {[id |-> r.id, p |-> r.p, q |-> r.q, cancel |-> r.d < s]}
    /\ reserveCh' = Tail(reserveCh)
    /\ UNCHANGED <<stock, leader, activeEcoms, mailbox, notified,
                   pendingConn, nOnline, nPhysical, nLeaderMsgs,
                   released>>

\* A task wakes up and sends DispatchProduct with try_send on its own clone
\* of the Store's address, which never finds the mailbox full.
DispatchTimer(t) ==
    /\ timers' = timers \ {t}
    /\ mailbox' = Append(mailbox, DispatchMsg(t.id, t.p, t.q, t.cancel))
    /\ UNCHANGED <<stock, leader, activeEcoms, notified, reserveCh,
                   pendingConn, nOnline, nPhysical, nLeaderMsgs,
                   released>>

-----------------------------------------------------------------------------
(* The store's environment: ecommerces writing lines to the EcomHandlers,  *)
(* the physical feeder and the connection loops.                          *)

\* EcomHandler::handle on an order line "<product>,<qty>,<secs>": ReserveProduct.
EcomOrder(e) ==
    /\ e \in activeEcoms
    /\ nOnline < MaxOnline
    /\ \E p \in Products, q \in Quantities, d \in Secs :
         mailbox' = Append(mailbox, ReserveMsg(nOnline + 1, p, q, d))
    /\ nOnline' = nOnline + 1
    /\ UNCHANGED <<stock, leader, activeEcoms, notified, reserveCh,
                   timers, pendingConn, nPhysical, nLeaderMsgs,
                   released>>

\* EcomHandler::handle on "LEADER,<id>": NewLeader.
EcomLeader(e) ==
    /\ e \in activeEcoms
    /\ nLeaderMsgs < MaxLeaderMsgs
    /\ \E l \in Ecoms : mailbox' = Append(mailbox, NewLeaderMsg(l))
    /\ nLeaderMsgs' = nLeaderMsgs + 1
    /\ UNCHANGED <<stock, leader, activeEcoms, notified, reserveCh,
                   timers, pendingConn, nOnline, nPhysical, 
                   released>>

\* receive_clients: the next line of the physical orders file, sent with
\* send().await, so one at a time.
PhysicalSale ==
    /\ nPhysical < MaxPhysical
    /\ ~\E i \in 1..Len(mailbox) : mailbox[i].kind = "Local"
    /\ \E p \in Products, q \in Quantities : mailbox' = Append(mailbox, LocalMsg(p, q))
    /\ nPhysical' = nPhysical + 1
    /\ UNCHANGED <<stock, leader, activeEcoms, notified, reserveCh,
                   timers, pendingConn, nOnline, nLeaderMsgs,
                   released>>

\* online_sales: a successful connect registers a new EcomHandler, then the
\* loop waits for the console to ask for a reconnection (Routing.tla).
OnlineSalesConnect(e) ==
    /\ e \in pendingConn
    /\ mailbox' = Append(mailbox, NewEcomHandlerMsg(e))
    /\ pendingConn' = pendingConn \ {e}
    /\ UNCHANGED <<stock, leader, activeEcoms, notified, reserveCh,
                   timers, nOnline, nPhysical, nLeaderMsgs, 
                   released>>

-----------------------------------------------------------------------------
StoreStep ==
    \/ LocalProductOrder \/ ReserveProduct \/ DispatchProduct \/ NewLeader
    \/ NewEcomHandler \/ ShareStock \/ AnswerEcom

Environment ==
    \/ \E e \in Ecoms : EcomOrder(e) \/ EcomLeader(e) \/ OnlineSalesConnect(e)
    \/ PhysicalSale

Next ==
    \/ StoreStep
    \/ ReservesManager
    \/ \E t \in timers : DispatchTimer(t)
    \/ Environment

\* The actix runtime keeps polling the Store actor and the reserves manager,
\* a sleeping task always wakes up and a connection loop whose ecommerce
\* listens connects.  Orders, LEADER lines and physical sales are not
\* assumed to come.
Fairness ==
    /\ WF_vars(StoreStep)
    /\ WF_vars(ReservesManager)
    /\ \A id \in OrderIds : WF_vars(\E t \in timers : t.id = id /\ DispatchTimer(t))
    /\ \A e \in Ecoms : WF_vars(OnlineSalesConnect(e))

Spec == Init /\ [][Next]_vars /\ Fairness

-----------------------------------------------------------------------------
(* Properties.                                                             *)

TypeOK ==
    /\ stock \in [Products -> [available : 0..MaxStock, reserved : 0..MaxStock]]
    /\ leader \in Ecoms \cup {InitialLeader}
    /\ activeEcoms \subseteq Ecoms
    /\ mailbox \in Seq(Msg)
    /\ notified \in Seq(SelfMsg)
    /\ reserveCh \in Seq(Reservation) /\ Len(reserveCh) <= ReserveChannelSize
    /\ timers \subseteq Task
    /\ released \subseteq OrderIds

\* Store invariant 1: reserved never exceeds available, whatever the order
\* of reservations, physical sales and dispatches (LocalProductOrder and
\* ReserveProduct both check available - reserved, which would underflow).
ReservedWithinAvailable ==
    \A p \in Products : stock[p].reserved <= stock[p].available

\* Every quantity still on its way back to the Store (in the reserves
\* channel, a sleeping task or a queued DispatchProduct) is covered by
\* reserved, so the reserved_quantity -= quantity of DispatchProduct never
\* underflows.
InFlightCovered ==
    \A p \in Products : InFlight(p) <= stock[p].reserved

\* The converse: every reserved unit is on its way back to the Store, so
\* that reserved returns to zero once the orders stop.  ReserveProduct
\* increments reserved before the try_send that may fail on a full channel.
NoOrphanReservation ==
    \A p \in Products : stock[p].reserved = InFlight(p)

\* A reservation handed to the reserves manager is eventually resolved:
\* the Store releases its hold, whether the task approves or cancels it.
HandedReservationResolved ==
    \A id \in OrderIds :
        (\E r \in ToSet(reserveCh) : r.id = id) ~> id \in released

-----------------------------------------------------------------------------
(* Refinement: the Store's stock moves only as Reservations allows.        *)

Abstract == INSTANCE Reservations
              WITH available <- [p \in Products |-> stock[p].available],
                   reserved <- [p \in Products |-> stock[p].reserved]

\* Whatever the interleaving of mailbox, notify queue, reserves channel,
\* tasks and connection loops, every change of the Store's stock
\* is a hold of free stock, a release of a held quantity or a sale of free
\* stock (the abstract promise of Reservations).
ImplementsReservations == Abstract!Spec

=============================================================================
