------------------------------- MODULE Routing -------------------------------
(***************************************************************************)
(* Online-order routing at the leading ecommerce: the Coordinator's store  *)
(* handlers (NewStore, NewOrder, StoreDisconnected, GetLeader in           *)
(* src/lib/src/coordinator.rs), one AbstractStore link per store           *)
(* connection with its stock mirror (src/lib/src/abstract_store.rs), the   *)
(* order_manager and discover_stores tasks (src/ecommerce/src/main.rs),    *)
(* and the stores at the level of the lines they read and write.           *)
(*                                                                         *)
(* The coordinator is the leader (curr_leader = Some(id) from main), so     *)
(* NewOrder routes locally; forwarding to another leader is Election's.    *)
(* It is the ecommerce with id 0: a store starts with leader 0 and its     *)
(* LEADER lines name this ecommerce, so the store's lookup of              *)
(* active_ecoms[leader] is its entry for the one link it has here.         *)
(* The store side keeps the Store's handlers that read and write lines     *)
(* (ReserveProduct, DispatchProduct, LocalProductOrder, NewLeader,         *)
(* ShareStock, AnswerEcom, KillConnection, Connect) but collapses the      *)
(* reserves pipeline into one Dispatch step and hands a line read by an    *)
(* EcomHandler to the Store at once: Store.tla checks those parts.  One    *)
(* product, and every order and sale asks for Unit of it.  Orders carry    *)
(* their line of the orders file as a ghost id.                            *)
(***************************************************************************)
EXTENDS Naturals, Sequences, FiniteSets, SequencesExt

CONSTANTS
    Stores,         \* store ids (the byte discover_stores reads)
    InitialStock,   \* [Stores -> Nat]: each store's stock file
    MaxOrders,      \* lines of the ecommerce's orders file
    MaxLinks,       \* connections one store opens over the run
    MaxPhysical,    \* physical sales, over all stores
    MaxConsole,     \* console commands (K or C), over all stores
    ConsoleAt       \* the stores whose operator types commands

ASSUME InitialStock \in [Stores -> Nat] /\ MaxLinks \in Nat \ {0}

Unit == 1                       \* quantity of every order and sale
Absent == -1                    \* the mirror has no entry for the product
NoOrder == 0                    \* APPROVED of a physical sale
Orders == 1..MaxOrders
Links == 1..MaxLinks
Conns == Stores \X Links        \* <<s, k>>: the k-th connection of store s
Settled == {"approved", "cancelled", "dropped", "refused", "lost"}

VARIABLES
    active,      \* Coordinator.active_stores: s -> link of its AbstractStore, 0 if none
    cmbox,       \* the Coordinator's mailbox
    cnotes,      \* NewOrders the Coordinator sent itself with ctx.notify
    nextOrder,   \* order_manager: index of the order it is submitting
    feederBusy,  \* order_manager awaits the answer to send(NewOrder)
    astate,      \* c -> "none" | "live" | "stopped": its AbstractStore actor
    mirror,      \* AbstractStore.stock for the product, or Absent
    buffer,      \* AbstractStore.orders_buffer: quantities of UpdateStock
    amail,       \* the AbstractStore's mailbox (Order, NewLeader)
    anotes,      \* its ctx.notify queue (AddStock, UpdateStock)
    down,        \* lines written by the ecommerce on c, not yet read
    up,          \* lines written by the store on c, not yet read
    avail,       \* the store's available_quantity
    holds,       \* orders the store holds reserved (reserved = Unit * |holds|)
    link,        \* the link of the store's active_ecoms entry, 0 if none
    nLinks,      \* connections the store opened so far
    open,        \* c -> the store's EcomHandler of c is alive
    stopping,    \* connections whose EcomHandler was sent Stop
    goes,        \* signals the online_sales loop of s has to (re)connect
    snotes,      \* the store's ctx.notify queue (ShareStock, AnswerEcom)
    nPhysical,   \* physical sales so far
    nConsole,    \* console commands so far
    ostate       \* ghost: where each order is

coord == <<active, cmbox, cnotes, nextOrder, feederBusy>>
absStore == <<astate, mirror, buffer, amail, anotes>>
wire == <<down, up>>
store == <<avail, holds, link, nLinks, open, stopping, goes, snotes>>
vars == <<coord, absStore, wire, store, nPhysical, nConsole, ostate>>

-----------------------------------------------------------------------------
(* Messages and lines.                                                     *)

NewStoreMsg(c) == [kind |-> "NewStore", c |-> c]
NewOrderMsg(o, v, f) == [kind |-> "NewOrder", o |-> o, v |-> v, f |-> f]
StoreDisconnectedMsg(s) == [kind |-> "StoreDisconnected", s |-> s]
GetLeaderMsg(s) == [kind |-> "GetLeader", s |-> s]
OrderMsg(o, v) == [kind |-> "Order", o |-> o, v |-> v]
NewLeaderMsg == [kind |-> "NewLeader"]
AddStockMsg(q) == [kind |-> "AddStock", q |-> q]
UpdateStockMsg(q) == [kind |-> "UpdateStock", q |-> q]
OrderLine(o) == [kind |-> "order", o |-> o]
LeaderLine == [kind |-> "LEADER"]
StockLine(q) == [kind |-> "STOCK", q |-> q]
ApprovedLine(o) == [kind |-> "APPROVED", q |-> Unit, o |-> o]
CancelledLine(o) == [kind |-> "CANCELLED", q |-> Unit, o |-> o]
LeaderQuery == [kind |-> "LEADER?"]
ShareMsg == [kind |-> "Share"]
AnswerMsg(l) == [kind |-> "Answer", line |-> l]

ActiveKeys == {s \in Stores : active[s] # 0}
\* Variant of the test with > for >=.
AllVisitedStrict(m) == Len(m.v) > Cardinality(ActiveKeys)
\* NewOrder's test visited_stores.len() >= active_stores.len()
AllVisited(m) == Len(m.v) >= Cardinality(ActiveKeys)
Lose(o) == [ostate EXCEPT ![o] = "lost"]
\* ostate after the orders among the lines or messages of q are lost
LoseAll(q) == [o \in Orders |-> IF \E i \in 1..Len(q) : q[i].kind \in {"order", "Order"}
                                                         /\ q[i].o = o
                                   THEN "lost" ELSE ostate[o]]

-----------------------------------------------------------------------------
Init ==
    /\ active = [s \in Stores |-> 0]
    /\ cmbox = <<>> /\ cnotes = <<>>
    /\ nextOrder = 1 /\ feederBusy = FALSE
    /\ astate = [c \in Conns |-> "none"]
    /\ mirror = [c \in Conns |-> Absent]
    /\ buffer = [c \in Conns |-> <<>>]
    /\ amail = [c \in Conns |-> <<>>] /\ anotes = [c \in Conns |-> <<>>]
    /\ down = [c \in Conns |-> <<>>] /\ up = [c \in Conns |-> <<>>]
    /\ avail = InitialStock
    /\ holds = [s \in Stores |-> {}]
    /\ link = [s \in Stores |-> 0] /\ nLinks = [s \in Stores |-> 0]
    /\ open = [c \in Conns |-> FALSE] /\ stopping = {}
    /\ goes = [s \in Stores |-> 1]
    /\ snotes = [s \in Stores |-> <<>>]
    /\ nPhysical = 0 /\ nConsole = 0
    /\ ostate = [o \in Orders |-> "new"]

-----------------------------------------------------------------------------
(* Coordinator handlers.  Each takes a message m and the notify queue ns   *)
(* left once m is taken; cmbox is set by the caller.                       *)

\* The answer order_manager awaits, for the NewOrder it sent itself (f).
Reply(m, ok) ==
    IF m.f THEN /\ feederBusy' = FALSE
                /\ nextOrder' = IF ok THEN nextOrder + 1 ELSE nextOrder
           ELSE UNCHANGED <<feederBusy, nextOrder>>

\* Handler<NewStore>: create the AbstractStore on the stream, tell it the
\* leader (always known here), then register it, replacing an older link.
NewStore(m, ns) ==
    /\ m.kind = "NewStore"
    /\ astate' = [astate EXCEPT ![m.c] = "live"]
    /\ amail' = [amail EXCEPT ![m.c] = Append(@, NewLeaderMsg)]
    /\ active' = [active EXCEPT ![m.c[1]] = m.c[2]]
    /\ cnotes' = ns
    /\ UNCHANGED <<nextOrder, feederBusy, mirror, buffer, anotes, wire, store,
                   ostate>>

\* Handler<NewOrder>, no store registered: NoActiveStoresError.  Only
\* order_manager sees it, and retries.
NewOrderNoStores(m, ns) ==
    /\ m.kind = "NewOrder" /\ ActiveKeys = {}
    /\ Reply(m, FALSE)
    /\ ostate' = IF m.f THEN ostate ELSE Lose(m.o)   \* a bounce's error is unseen
    /\ cnotes' = ns
    /\ UNCHANGED <<active, absStore, wire, store>>

\* Handler<NewOrder>: as many stores visited as are registered, so the
\* order is dropped (Ok).
NewOrderDrop(m, ns) ==
    /\ m.kind = "NewOrder" /\ ActiveKeys # {}
    /\ AllVisited(m)
    /\ ostate' = [ostate EXCEPT ![m.o] = "dropped"]
    /\ Reply(m, TRUE)
    /\ cnotes' = ns
    /\ UNCHANGED <<active, absStore, wire, store>>

\* Handler<NewOrder>: the random draw picked a visited store, so the order
\* goes back to the Coordinator with ctx.notify.
NewOrderRedraw(m, ns, id) ==
    /\ m.kind = "NewOrder" /\ ActiveKeys # {}
    /\ ~AllVisited(m)
    /\ id \in ActiveKeys /\ id \in ToSet(m.v)
    /\ cnotes' = Append(ns, NewOrderMsg(m.o, m.v, FALSE))
    /\ ostate' = [ostate EXCEPT ![m.o] = "routing"]
    /\ Reply(m, TRUE)
    /\ UNCHANGED <<active, absStore, wire, store>>

\* Handler<NewOrder>: the draw picked an unvisited store; the order, with a
\* fresh deadline, goes to its AbstractStore with try_send, which fails
\* (and is only logged) once that actor has stopped.
NewOrderRoute(m, ns, id) ==
    /\ m.kind = "NewOrder" /\ ActiveKeys # {}
    /\ ~AllVisited(m)
    /\ id \in ActiveKeys /\ id \notin ToSet(m.v)
    /\ LET c == <<id, active[id]>> IN
       IF astate[c] = "live"
       THEN /\ amail' = [amail EXCEPT ![c] = Append(@, OrderMsg(m.o, m.v))]
            /\ ostate' = [ostate EXCEPT ![m.o] = "routing"]
       ELSE /\ ostate' = Lose(m.o)
            /\ UNCHANGED amail
    /\ Reply(m, TRUE)
    /\ cnotes' = ns
    /\ UNCHANGED <<active, astate, mirror, buffer, anotes, wire, store>>

NewOrder(m, ns) ==
    \/ NewOrderNoStores(m, ns)
    \/ NewOrderDrop(m, ns)
    \/ \E id \in Stores : NewOrderRedraw(m, ns, id) \/ NewOrderRoute(m, ns, id)

\* Handler<StoreDisconnected>: forget the store by id (Err if unknown).
StoreDisconnected(m, ns) ==
    /\ m.kind = "StoreDisconnected"
    /\ active' = [active EXCEPT ![m.s] = 0]
    /\ cnotes' = ns
    /\ UNCHANGED <<nextOrder, feederBusy, absStore, wire, store, ostate>>

\* Handler<GetLeader>: a registered store is told the leader again.
GetLeader(m, ns) ==
    /\ m.kind = "GetLeader"
    /\ LET c == <<m.s, active[m.s]>> IN
       amail' = IF active[m.s] # 0 /\ astate[c] = "live"
                THEN [amail EXCEPT ![c] = Append(@, NewLeaderMsg)]
                ELSE amail
    /\ cnotes' = ns
    /\ UNCHANGED <<active, nextOrder, feederBusy, astate, mirror, buffer,
                   anotes, wire, store, ostate>>

Handle(m, ns) ==
    \/ NewStore(m, ns) \/ NewOrder(m, ns)
    \/ StoreDisconnected(m, ns) \/ GetLeader(m, ns)

CoordinatorMailbox ==
    /\ cmbox # <<>>
    /\ cmbox' = Tail(cmbox)
    /\ Handle(Head(cmbox), cnotes)
    /\ UNCHANGED <<nPhysical, nConsole>>

CoordinatorNotified ==
    /\ cnotes # <<>>
    /\ Handle(Head(cnotes), Tail(cnotes))
    /\ UNCHANGED <<cmbox, nPhysical, nConsole>>

-----------------------------------------------------------------------------
(* AbstractStore c = <<s, k>> (abstract_store.rs).                         *)

Live(c) == astate[c] = "live"
Writable(c) == open[c]      \* a write to a closed stream is lost

\* StreamHandler::handle: a line from the store.  STOCK and APPROVED are
\* sent on to the actor itself, LEADER,?,? asks the Coordinator.
StoreLine(c) ==
    /\ Live(c) /\ up[c] # <<>>
    /\ LET l == Head(up[c]) IN
       /\ anotes' = CASE l.kind = "STOCK"    -> [anotes EXCEPT ![c] = Append(@, AddStockMsg(l.q))]
                      [] l.kind = "APPROVED" -> [anotes EXCEPT ![c] = Append(@, UpdateStockMsg(l.q))]
                      [] OTHER               -> anotes
       /\ cmbox' = IF l.kind = "LEADER?" THEN Append(cmbox, GetLeaderMsg(c[1])) ELSE cmbox
    /\ up' = [up EXCEPT ![c] = Tail(@)]
    /\ UNCHANGED <<active, cnotes, nextOrder, feederBusy, astate, mirror, buffer,
                   amail, down, store, nPhysical, nConsole, ostate>>

\* StreamHandler::finished: the store closed the stream.  StoreDisconnected
\* goes to the Coordinator and the actor stops; what waits in its mailbox
\* is never handled.
StoreFinished(c) ==
    /\ Live(c) /\ up[c] = <<>> /\ ~open[c]
    /\ cmbox' = Append(cmbox, StoreDisconnectedMsg(c[1]))
    /\ astate' = [astate EXCEPT ![c] = "stopped"]
    /\ ostate' = LoseAll(amail[c])
    /\ amail' = [amail EXCEPT ![c] = <<>>]
    /\ anotes' = [anotes EXCEPT ![c] = <<>>]
    /\ UNCHANGED <<active, cnotes, nextOrder, feederBusy, mirror, buffer, wire,
                   store, nPhysical, nConsole>>

\* Variant without the return after the bounce: the order is also written.
OrderBounceAndWrite(c) ==
    /\ Live(c) /\ amail[c] # <<>> /\ Head(amail[c]).kind = "Order"
    /\ LET m == Head(amail[c]) IN
       /\ cmbox' = IF mirror[c] # Absent /\ mirror[c] < Unit
                   THEN Append(cmbox, NewOrderMsg(m.o, Append(m.v, c[1]), FALSE))
                   ELSE cmbox
       /\ IF Writable(c)
          THEN /\ down' = [down EXCEPT ![c] = Append(@, OrderLine(m.o))]
               /\ UNCHANGED ostate
          ELSE /\ ostate' = Lose(m.o)
               /\ UNCHANGED down
    /\ amail' = [amail EXCEPT ![c] = Tail(@)]
    /\ UNCHANGED <<active, cnotes, nextOrder, feederBusy, astate, mirror, buffer,
                   anotes, up, store, nPhysical, nConsole>>

\* Handler<Order>: a mirror known to lack the quantity bounces the order to
\* the Coordinator with this store added to visited; otherwise (also when
\* the product is not in the mirror) the order line is written.
Order(c) ==
    /\ Live(c) /\ amail[c] # <<>> /\ Head(amail[c]).kind = "Order"
    /\ LET m == Head(amail[c]) IN
       IF mirror[c] # Absent /\ mirror[c] < Unit
       THEN /\ cmbox' = Append(cmbox, NewOrderMsg(m.o, Append(m.v, c[1]), FALSE))
            /\ UNCHANGED <<down, ostate>>
       ELSE /\ IF Writable(c)
               THEN /\ down' = [down EXCEPT ![c] = Append(@, OrderLine(m.o))]
                    /\ UNCHANGED ostate
               ELSE /\ ostate' = Lose(m.o)
                    /\ UNCHANGED down
            /\ UNCHANGED cmbox
    /\ amail' = [amail EXCEPT ![c] = Tail(@)]
    /\ UNCHANGED <<active, cnotes, nextOrder, feederBusy, astate, mirror, buffer,
                   anotes, up, store, nPhysical, nConsole>>

\* Handler<NewLeader>: write LEADER,<id>.
NewLeader(c) ==
    /\ Live(c) /\ amail[c] # <<>> /\ Head(amail[c]) = NewLeaderMsg
    /\ down' = IF Writable(c) THEN [down EXCEPT ![c] = Append(@, LeaderLine)] ELSE down
    /\ amail' = [amail EXCEPT ![c] = Tail(@)]
    /\ UNCHANGED <<coord, astate, mirror, buffer, anotes, up, store, nPhysical,
                   nConsole, ostate>>

\* Handler<AddStock>: overwrite the mirror; the buffer is left alone.
AddStock(c) ==
    /\ Live(c) /\ anotes[c] # <<>> /\ Head(anotes[c]).kind = "AddStock"
    /\ mirror' = [mirror EXCEPT ![c] = Head(anotes[c]).q]
    /\ anotes' = [anotes EXCEPT ![c] = Tail(@)]
    /\ UNCHANGED <<coord, astate, buffer, amail, wire, store, nPhysical,
                   nConsole, ostate>>

\* The replay loop of UpdateStock over a buffer, the product being in the
\* mirror: subtract each quantity in turn; one larger than what is left
\* stops the loop with NoStockError, the earlier subtractions kept.
RECURSIVE Replay(_, _)
Replay(m, b) ==
    IF b = <<>> THEN [m |-> m, ok |-> TRUE]
    ELSE IF Head(b) > m THEN [m |-> m, ok |-> FALSE]
    ELSE Replay(m - Head(b), Tail(b))

\* Handler<UpdateStock>.  With the product absent every buffered update
\* stays and the new one joins them.  With it present the buffer is
\* replayed and emptied, unless the replay fails; then the update itself
\* is subtracted unless that underflows (NoStockError).
UpdateStock(c) ==
    /\ Live(c) /\ anotes[c] # <<>> /\ Head(anotes[c]).kind = "UpdateStock"
    /\ LET q == Head(anotes[c]).q
           r == Replay(mirror[c], buffer[c])
       IN IF mirror[c] = Absent
          THEN /\ buffer' = [buffer EXCEPT ![c] = Append(@, q)]
               /\ UNCHANGED mirror
          ELSE /\ buffer' = IF r.ok THEN [buffer EXCEPT ![c] = <<>>] ELSE buffer
               /\ mirror' = [mirror EXCEPT ![c] = IF r.ok /\ q <= r.m THEN r.m - q ELSE r.m]
    /\ anotes' = [anotes EXCEPT ![c] = Tail(@)]
    /\ UNCHANGED <<coord, astate, amail, wire, store, nPhysical, nConsole,
                   ostate>>

-----------------------------------------------------------------------------
(* The store side of each connection (src/store/src/main.rs, store.rs,    *)
(* ecom_handler.rs).  The store's leader is this ecommerce throughout, so  *)
(* AnswerEcom writes to the link of its active_ecoms entry.                *)

Free(s) == avail[s] - Unit * Cardinality(holds[s])
SAnswer(s, l) == snotes' = [snotes EXCEPT ![s] = Append(@, AnswerMsg(l))]

\* online_sales connects, writes its id and registers an EcomHandler;
\* discover_stores reads the id and sends NewStore with try_send.
OnlineSalesConnect(s) ==
    /\ goes[s] > 0 /\ nLinks[s] < MaxLinks
    /\ LET c == <<s, nLinks[s] + 1>> IN
       /\ open' = [open EXCEPT ![c] = TRUE]
       /\ link' = [link EXCEPT ![s] = c[2]]
       /\ cmbox' = Append(cmbox, NewStoreMsg(c))
    /\ nLinks' = [nLinks EXCEPT ![s] = @ + 1]
    /\ goes' = [goes EXCEPT ![s] = @ - 1]
    /\ UNCHANGED <<active, cnotes, nextOrder, feederBusy, absStore, wire, avail,
                   holds, stopping, snotes, nPhysical, nConsole, ostate>>

\* EcomHandler::handle: LEADER,<id> becomes Store NewLeader (notify
\* ShareStock); an order line becomes ReserveProduct, whose
\* NotEnoughStockError the try_send never sees.
EcomLine(c) ==
    /\ open[c] /\ down[c] # <<>>
    /\ LET l == Head(down[c]) IN
       IF l = LeaderLine
       THEN /\ snotes' = [snotes EXCEPT ![c[1]] = Append(@, ShareMsg)]
            /\ UNCHANGED <<holds, ostate>>
       ELSE /\ IF Free(c[1]) >= Unit
               THEN /\ holds' = [holds EXCEPT ![c[1]] = @ \cup {l.o}]
                    /\ ostate' = [ostate EXCEPT ![l.o] = "held"]
               ELSE /\ ostate' = [ostate EXCEPT ![l.o] = "refused"]
                    /\ UNCHANGED holds
            /\ UNCHANGED snotes
    /\ down' = [down EXCEPT ![c] = Tail(@)]
    /\ UNCHANGED <<coord, absStore, up, avail, link, nLinks, open, stopping,
                   goes, nPhysical, nConsole>>

\* Handler<Stop> of EcomHandler: the actor stops and its stream closes;
\* lines not yet read are lost.
HandlerStop(c) ==
    /\ c \in stopping /\ open[c]
    /\ open' = [open EXCEPT ![c] = FALSE]
    /\ stopping' = stopping \ {c}
    /\ ostate' = LoseAll(down[c])
    /\ down' = [down EXCEPT ![c] = <<>>]
    /\ UNCHANGED <<coord, absStore, up, avail, holds, link, nLinks, goes,
                   snotes, nPhysical, nConsole>>

\* A reservation's task wakes up and the Store handles DispatchProduct:
\* release the hold, take the unit on approval, queue the answer.
Dispatch(s, o) ==
    /\ o \in holds[s]
    /\ \E approve \in BOOLEAN :
         /\ avail' = [avail EXCEPT ![s] = IF approve THEN @ - Unit ELSE @]
         /\ SAnswer(s, IF approve THEN ApprovedLine(o) ELSE CancelledLine(o))
         /\ ostate' = [ostate EXCEPT ![o] = IF approve THEN "approved" ELSE "cancelled"]
    /\ holds' = [holds EXCEPT ![s] = @ \ {o}]
    /\ UNCHANGED <<coord, absStore, wire, link, nLinks, open, stopping, goes,
                   nPhysical, nConsole>>

\* Variant that checks the available quantity instead of the free one.
LocalProductOrderIgnoringReserved(s) ==
    /\ nPhysical < MaxPhysical
    /\ IF avail[s] >= Unit
       THEN /\ avail' = [avail EXCEPT ![s] = @ - Unit]
            /\ SAnswer(s, ApprovedLine(NoOrder))
       ELSE UNCHANGED <<avail, snotes>>
    /\ nPhysical' = nPhysical + 1
    /\ UNCHANGED <<coord, absStore, wire, holds, link, nLinks, open, stopping,
                   goes, nConsole, ostate>>

\* receive_clients and Handler<LocalProductOrder>.
LocalProductOrder(s) ==
    /\ nPhysical < MaxPhysical
    /\ IF Free(s) >= Unit
       THEN /\ avail' = [avail EXCEPT ![s] = @ - Unit]
            /\ SAnswer(s, ApprovedLine(NoOrder))
       ELSE UNCHANGED <<avail, snotes>>
    /\ nPhysical' = nPhysical + 1
    /\ UNCHANGED <<coord, absStore, wire, holds, link, nLinks, open, stopping,
                   goes, nConsole, ostate>>

\* Handler<ShareStock>: STOCK with the available quantity now.
ShareStock(s) ==
    /\ snotes[s] # <<>> /\ Head(snotes[s]) = ShareMsg
    /\ snotes' = [snotes EXCEPT ![s] = Append(Tail(@), AnswerMsg(StockLine(avail[s])))]
    /\ UNCHANGED <<coord, absStore, wire, avail, holds, link, nLinks, open,
                   stopping, goes, nPhysical, nConsole, ostate>>

\* Handler<AnswerEcom> with the EcomHandler's Answer: the line goes out on
\* the entry of the leader, which is this ecommerce (id 0), and is dropped
\* when there is none.
AnswerEcom(s) ==
    /\ snotes[s] # <<>> /\ Head(snotes[s]).kind = "Answer"
    /\ up' = IF link[s] # 0
             THEN [up EXCEPT ![<<s, link[s]>>] = Append(@, Head(snotes[s]).line)]
             ELSE up
    /\ snotes' = [snotes EXCEPT ![s] = Tail(@)]
    /\ UNCHANGED <<coord, absStore, down, avail, holds, link, nLinks, open,
                   stopping, goes, nPhysical, nConsole, ostate>>

\* Console K, Handler<KillConnection>: Stop to the registered EcomHandler,
\* and active_ecoms cleared.
KillConnection(s) ==
    /\ nConsole < MaxConsole
    /\ stopping' = IF link[s] # 0 THEN stopping \cup {<<s, link[s]>>} ELSE stopping
    /\ link' = [link EXCEPT ![s] = 0]
    /\ nConsole' = nConsole + 1
    /\ UNCHANGED <<coord, absStore, wire, avail, holds, nLinks, open, goes,
                   snotes, nPhysical, ostate>>

\* Console C, Handler<Connect>: ask for the leader with LEADER,?,?; then
\* user_input tells the online_sales loop to connect again.
Connect(s) ==
    /\ nConsole < MaxConsole
    /\ SAnswer(s, LeaderQuery)
    /\ goes' = [goes EXCEPT ![s] = @ + 1]
    /\ nConsole' = nConsole + 1
    /\ UNCHANGED <<coord, absStore, wire, avail, holds, link, nLinks, open,
                   stopping, nPhysical, ostate>>

\* order_manager: submit the next order with send().await; an error
\* answer makes it submit the same order again.
OrderManager ==
    /\ ~feederBusy /\ nextOrder <= MaxOrders
    /\ cmbox' = Append(cmbox, NewOrderMsg(nextOrder, <<>>, TRUE))
    /\ feederBusy' = TRUE
    /\ UNCHANGED <<active, cnotes, nextOrder, absStore, wire, store, nPhysical,
                   nConsole, ostate>>

-----------------------------------------------------------------------------
AbstractStoreStep(c) ==
    \/ StoreLine(c) \/ StoreFinished(c) \/ Order(c) \/ NewLeader(c)
    \/ AddStock(c) \/ UpdateStock(c)

StoreSide(s) ==
    \/ ShareStock(s) \/ AnswerEcom(s) \/ OnlineSalesConnect(s)
    \/ \E o \in holds[s] : Dispatch(s, o)

Environment(s) ==
    \/ LocalProductOrder(s)
    \/ s \in ConsoleAt /\ (KillConnection(s) \/ Connect(s))

Next ==
    \/ CoordinatorMailbox \/ CoordinatorNotified \/ OrderManager
    \/ \E c \in Conns : AbstractStoreStep(c) \/ EcomLine(c) \/ HandlerStop(c)
    \/ \E s \in Stores : StoreSide(s) \/ Environment(s)

\* A NewOrder redrawn from the notify queue that picks an unvisited store.
RouteFromNotes ==
    /\ cnotes # <<>>
    /\ \E id \in Stores : NewOrderRoute(Head(cnotes), Tail(cnotes), id)
    /\ UNCHANGED <<cmbox, nPhysical, nConsole>>

\* Every actor is polled, every task and stream makes progress.  The store
\* drawn by NewOrder is uniform, so a draw that keeps coming back finds an
\* unvisited store when there is one: strong fairness on RouteFromNotes.
\* Physical sales and console commands are not assumed to come.
Fairness ==
    /\ WF_vars(CoordinatorMailbox) /\ WF_vars(CoordinatorNotified)
    /\ SF_vars(RouteFromNotes)
    /\ WF_vars(OrderManager)
    /\ \A c \in Conns : WF_vars(AbstractStoreStep(c)) /\ WF_vars(EcomLine(c))
                        /\ WF_vars(HandlerStop(c))
    /\ \A s \in Stores : WF_vars(StoreSide(s))

Spec == Init /\ [][Next]_vars /\ Fairness

-----------------------------------------------------------------------------
(* Properties.                                                             *)

OrderKinds == {"NewOrder", "Order", "order"}
CountIn(q, o) == Cardinality({i \in DOMAIN q : q[i].kind \in OrderKinds /\ q[i].o = o})
\* The places order o is in: a Coordinator queue, an AbstractStore
\* mailbox, a stream to a store, or a store's holds.
Copies(o) ==
    CountIn(cmbox, o) + CountIn(cnotes, o)
    + MapThenSumSet(LAMBDA c : CountIn(amail[c], o) + CountIn(down[c], o), Conns)
    + Cardinality({s \in Stores : o \in holds[s]})
OrderMsgs == {m \in ToSet(cmbox) \cup ToSet(cnotes) \cup UNION {ToSet(amail[c]) : c \in Conns} :
                 m.kind \in {"NewOrder", "Order"}}
\* The visited list of the NewOrder for o that a Coordinator queue holds
VisitedOf(o) == UNION {ToSet(m.v) : m \in {n \in OrderMsgs : n.kind = "NewOrder" /\ n.o = o}}

TypeOK ==
    /\ active \in [Stores -> 0..MaxLinks]
    /\ astate \in [Conns -> {"none", "live", "stopped"}]
    /\ mirror \in [Conns -> {Absent} \cup Nat]
    /\ avail \in [Stores -> Nat] /\ holds \in [Stores -> SUBSET Orders]
    /\ link \in [Stores -> 0..MaxLinks] /\ nLinks \in [Stores -> 0..MaxLinks]
    /\ ostate \in [Orders -> {"new", "routing", "held"} \cup Settled]
    /\ nextOrder \in 1..MaxOrders + 1

\* An order is never served twice: once the Coordinator took it, it is in
\* exactly one place (a queue, a mailbox, a stream or a store's holds)
\* until it settles, and nowhere after.  A bounce and a write of the same
\* Order, or a redraw that also routes, would make two copies.
OrderInOnePlace ==
    \A o \in Orders :
        /\ ostate[o] \in {"routing", "held"} => Copies(o) = 1
        /\ ostate[o] \in Settled => Copies(o) = 0
        /\ ostate[o] = "new" => Copies(o) <= 1

\* Every order the Coordinator took settles: it is approved, cancelled,
\* dropped, refused by the store, or lost with a closed link, and never
\* bounces or is redrawn for ever.
OrderTerminates ==
    \A o \in Orders : ostate[o] # "new" ~> ostate[o] \in Settled

\* The spec's outcome of an order: it is approved or cancelled by a store,
\* or dropped because every store refused it.  A store that refuses an
\* order (NotEnoughStockError in ReserveProduct) answers nothing.
OrderAnswered ==
    \A o \in Orders : ostate[o] # "new" ~> ostate[o] \in {"approved", "cancelled", "dropped"}

\* Once the store and its link are quiet, the mirror of the registered
\* link equals the store's available quantity (spec, Mirror replay).
MirrorExact ==
    \A s \in Stores :
        LET c == <<s, link[s]>> IN
        (/\ link[s] # 0 /\ Live(c) /\ mirror[c] # Absent
         /\ snotes[s] = <<>> /\ up[c] = <<>> /\ anotes[c] = <<>>)
            => mirror[c] = avail[s]

\* NewOrder drops an order only when every registered store is in its
\* visited list (spec: visited_stores contains keys(active_stores)).
DroppedOnlyWhenAllVisited ==
    [][\A o \in Orders :
         (ostate'[o] = "dropped" /\ ostate[o] # "dropped") => ActiveKeys \subseteq VisitedOf(o)
      ]_vars

=============================================================================
