------------------------------- MODULE Election -------------------------------
(***************************************************************************)
(* Leadership among the ecommerce processes: the leadership handlers of    *)
(* the Coordinator actor (NewEcom, EcomDisconnected, CoordElection,        *)
(* ChangeLeader in src/lib/src/coordinator.rs), the AbstractEcom link      *)
(* actors that carry LEADER and ELECTION lines between coordinators        *)
(* (src/lib/src/abstract_ecom.rs), the election line format                *)
(* (src/lib/src/ecom.rs), the connection set-up (ecom_network and          *)
(* ecom_connection_listener) and the crash and restart of a process        *)
(* (src/ecommerce/src/main.rs).                                            *)
(*                                                                         *)
(* A TCP connection between a and b is open while conn[a][b]; the lines a  *)
(* wrote to it and b has not read are wire[a][b].  When a process dies,    *)
(* each peer reads what was already written and then EOF.  A write through *)
(* a map entry whose connection is gone is lost, as the try_send to a      *)
(* stopped AbstractEcom and the write to a closed socket are.  The         *)
(* incarnation of a process tells a map entry of its old connection from   *)
(* one of the new.  One store is connected to every process; each        *)
(* coordinator announces its leader to it (NewStore, NewEcom,              *)
(* ChangeLeader) through its AbstractStore, and the store sends its        *)
(* answers to the ecom it last heard named; the rest of the store is       *)
(* modelled in Store.tla.                                                  *)
(***************************************************************************)
EXTENDS Naturals, Sequences, FiniteSets, SequencesExt

CONSTANTS
    Ecoms,       \* ids of the ecommerce processes (my_id of each)
    NoLeader,    \* curr_leader = None
    MaxCrashes,  \* process crashes in a behaviour
    MaxInc,      \* starts of one process in a behaviour
    Booted,      \* processes already started, listener bound, in Init
    Settled,     \* TRUE: in Init the Booted processes are also connected
    Submitters   \* processes whose orders file holds one online order

ASSUME /\ Ecoms \subseteq Nat /\ Ecoms # {} /\ NoLeader \notin Nat
       /\ Booted \subseteq Ecoms /\ MaxInc \in Nat \ {0} /\ Settled \in BOOLEAN
       /\ Submitters \subseteq Ecoms
       \* a restarted order_manager submits its file again; not modelled
       /\ Submitters # {} => MaxInc = 1

VARIABLES
    up,          \* the process is running
    inc,         \* incarnation: how many times the process was started
    listening,   \* ecom_connection_listener has bound its port
    toConnect,   \* peers whose ecom_network connect task has not run yet
    conn,        \* conn[i][j]: the connection i opened to j is open
    toAcc,       \* toAcc[i][j]: lines i wrote on the connection it opened to j
    toIni,       \* toIni[i][j]: lines j wrote on the connection i opened to j
    dead,        \* dead[a][b]: lines of closed connections of b that a has
                 \* still to read, each connection's followed by EOF
    leader,      \* Coordinator.curr_leader
    peers,       \* peers[a][b]: the connection a's active_ecoms entry for b
                 \* reads and writes (who opened it, b's incarnation then)
    mbox,        \* the Coordinator's mailbox
    notes,       \* messages a Coordinator sent itself with ctx.notify
    crashes,     \* crashes so far
    stores,      \* whether this coordinator's active_stores holds the store
    toStore,     \* toStore[e]: leader ids e's AbstractStore still has to get
                 \* to the store (its mailbox, the TCP stream, EcomHandler)
    storeLeader, \* Store.leader
    fate         \* fate[o]: where the order of submitter o is (ghost)

vars == <<up, inc, listening, toConnect, conn, toAcc, toIni, dead, leader,
          peers, mbox, notes, crashes, stores, toStore, storeLeader, fate>>

-----------------------------------------------------------------------------
(* Lines on the wire and Coordinator messages.                             *)

LeaderLine(l) == [verb |-> "LEADER", id |-> l]
ElectionLine(v) == [verb |-> "ELECTION", ids |-> v]
EOF == [verb |-> "EOF"]
\* ORDER,<product>,<qty>, for the order of submitter o.
OrderLine(o) == [verb |-> "ORDER", o |-> o]

NewEcomMsg(id, by, i) == [kind |-> "NewEcom", id |-> id, by |-> by, inc |-> i]
DisconnectedMsg(id) == [kind |-> "EcomDisconnected", id |-> id]
ElectionMsg(v, hop) == [kind |-> "CoordElection", visited |-> v, hop |-> hop]
ChangeLeaderMsg(l) == [kind |-> "ChangeLeader", id |-> l]
\* f: sent by order_manager, which awaits the answer (a forwarded order's
\* NewOrder is sent with try_send by the AbstractEcom).
NewOrderMsg(o, f) == [kind |-> "NewOrder", o |-> o, f |-> f]

\* No active_ecoms entry (incarnations start at 1).
NoEntry == [by |-> 0, inc |-> 0]

MaxOf(S) == CHOOSE m \in S : \A x \in S : x <= m
MinOf(S) == CHOOSE m \in S : \A x \in S : m <= x

Peers(a) == {b \in Ecoms : peers[a][b] # NoEntry}

\* The connection a's entry for b was made for is still open.
LiveEntry(a, b) ==
    LET by == peers[a][b].by IN
    /\ peers[a][b] # NoEntry
    /\ peers[a][b].inc = inc[b]
    /\ IF by = a THEN conn[a][b] ELSE conn[b][a]

\* The AbstractEcom behind a's entry for each peer in B writes a line; it
\* reaches the peer only over a connection that is still open.
WriteTo(a, B, line) ==
    LET out(b) == b \in B /\ LiveEntry(a, b)
    IN /\ toAcc' = [i \in Ecoms |-> [j \in Ecoms |->
                      IF i = a /\ out(j) /\ peers[a][j].by = a
                      THEN Append(toAcc[i][j], line) ELSE toAcc[i][j]]]
       /\ toIni' = [i \in Ecoms |-> [j \in Ecoms |->
                      IF j = a /\ out(i) /\ peers[a][i].by = i
                      THEN Append(toIni[i][j], line) ELSE toIni[i][j]]]

\* NewOrder (coordinator.rs 106-115) hands an order to the leader's
\* AbstractEcom when the leader is another process with an entry in
\* active_ecoms; otherwise the coordinator routes it to a store itself.
Forwards(a) == leader[a] \notin {a, NoLeader} /\ peers[a][leader[a]] # NoEntry

\* The orders a crash of e loses: those in its mailbox, those written to it
\* and not read, and one its order_manager has not submitted yet.
HeldBy(e) ==
    LET carriers == ToSet(mbox[e]) \cup
                    UNION {ToSet(toAcc[a][e]) \cup ToSet(toIni[e][a]) \cup ToSet(dead[e][a])
                           : a \in Ecoms}
    IN {x.o : x \in {y \in carriers : "o" \in DOMAIN y}}
       \cup {o \in Submitters : o = e /\ fate[o] = "queued"}

\* vec_from_election_msg(election_from_vec(v, dest)): the line carries the
\* visited ids followed by the id of the peer it is written to.
ElectionIds(v, dest) == Append(v, dest)

-----------------------------------------------------------------------------
\* The processes of Booted have run main up to the join: coordinator
\* started, listener bound, connect tasks spawned but not yet run.
InitBooted ==
    /\ toConnect = [e \in Ecoms |-> IF e \in Booted THEN Ecoms \ {e} ELSE {}]
    /\ conn = [i \in Ecoms |-> [j \in Ecoms |-> FALSE]]
    /\ leader = [e \in Ecoms |-> IF e \in Booted THEN e ELSE NoLeader]
    /\ peers = [a \in Ecoms |-> [b \in Ecoms |-> NoEntry]]

\* ... and every connect task has run and every NewEcom has been handled:
\* two connections per pair, each entry on the one whose NewEcom came last,
\* all following the greatest id.
InitSettled ==
    /\ toConnect = [e \in Ecoms |-> {}]
    /\ conn = [i \in Ecoms |-> [j \in Ecoms |-> i # j /\ {i, j} \subseteq Booted]]
    /\ leader = [e \in Ecoms |-> IF e \in Booted THEN MaxOf(Booted) ELSE NoLeader]
    /\ \E mine \in [Ecoms \X Ecoms -> BOOLEAN] :
          peers = [a \in Ecoms |-> [b \in Ecoms |->
                     IF a # b /\ {a, b} \subseteq Booted
                     THEN [by |-> IF mine[a, b] THEN a ELSE b, inc |-> 1]
                     ELSE NoEntry]]

Init ==
    /\ up = [e \in Ecoms |-> e \in Booted]
    /\ inc = [e \in Ecoms |-> IF e \in Booted THEN 1 ELSE 0]
    /\ listening = [e \in Ecoms |-> e \in Booted]
    /\ IF Settled THEN InitSettled ELSE InitBooted
    /\ toAcc = [i \in Ecoms |-> [j \in Ecoms |-> <<>>]]
    /\ toIni = [i \in Ecoms |-> [j \in Ecoms |-> <<>>]]
    /\ dead = [a \in Ecoms |-> [b \in Ecoms |-> <<>>]]
    /\ mbox = [e \in Ecoms |-> <<>>]
    /\ notes = [e \in Ecoms |-> <<>>]
    /\ crashes = 0
    /\ stores = [e \in Ecoms |-> IF Settled /\ e \in Booted THEN "registered" ELSE "awaited"]
    /\ fate = [o \in Submitters |-> "queued"]
    \* store main starts with leader 0; in a settled start the store has
    \* read the announcements NewStore made
    /\ toStore = [e \in Ecoms |-> <<>>]
    /\ storeLeader = IF Settled /\ Booted # {} THEN MaxOf(Booted) ELSE 0

-----------------------------------------------------------------------------
(* Process life cycle (main.rs, ecom.rs).                                  *)

\* main: a fresh Coordinator with curr_leader = Some(my_id); ecom_network
\* spawns a connect task per configured peer and the listener starts.
Start(e) ==
    /\ ~up[e] /\ inc[e] < MaxInc
    /\ up' = [up EXCEPT ![e] = TRUE]
    /\ inc' = [inc EXCEPT ![e] = @ + 1]
    /\ toConnect' = [toConnect EXCEPT ![e] = Ecoms \ {e}]
    /\ leader' = [leader EXCEPT ![e] = e]
    /\ peers' = [peers EXCEPT ![e] = [b \in Ecoms |-> NoEntry]]
    /\ mbox' = [mbox EXCEPT ![e] = <<>>]
    /\ notes' = [notes EXCEPT ![e] = <<>>]
    /\ stores' = [stores EXCEPT ![e] = "awaited"]
    /\ UNCHANGED <<listening, conn, toAcc, toIni, dead, crashes, toStore,
                   storeLeader, fate>>

\* ecom_connection_listener binds its port.
Listen(e) ==
    /\ up[e] /\ ~listening[e]
    /\ listening' = [listening EXCEPT ![e] = TRUE]
    /\ UNCHANGED <<up, inc, toConnect, conn, toAcc, toIni, dead, leader, peers,
                   mbox, notes, crashes, stores, toStore, storeLeader, fate>>

\* Mutant: the connect tasks run before the process's own listener is bound.
ConnectPeerBeforeListen(e, d) ==
    /\ up[e] /\ d \in toConnect[e]
    /\ toConnect' = [toConnect EXCEPT ![e] = @ \ {d}]
    /\ IF up[d] /\ listening[d]
       THEN /\ conn' = [conn EXCEPT ![e][d] = TRUE]
            /\ mbox' = [mbox EXCEPT ![e] = Append(@, NewEcomMsg(d, e, inc[d])),
                                    ![d] = Append(@, NewEcomMsg(e, e, inc[e]))]
       ELSE UNCHANGED <<conn, mbox>>
    /\ UNCHANGED <<up, inc, listening, toAcc, toIni, dead, leader, peers, notes,
                   crashes, stores, toStore, storeLeader, fate>>

\* The connect task of e for d runs once.  The tasks are spawned on the
\* System's single thread in the same poll of join! in which the listener
\* binds, so they run only once e is listening.  If d is up and listening,
\* a new connection opens: e's coordinator gets NewEcom for d, and d's
\* listener reads e's id line and gives its coordinator NewEcom for e.  A
\* refused connect is not retried.
ConnectPeer(e, d) ==
    /\ up[e] /\ listening[e] /\ d \in toConnect[e]
    /\ toConnect' = [toConnect EXCEPT ![e] = @ \ {d}]
    /\ IF up[d] /\ listening[d]
       THEN /\ conn' = [conn EXCEPT ![e][d] = TRUE]
            /\ mbox' = [mbox EXCEPT ![e] = Append(@, NewEcomMsg(d, e, inc[d])),
                                    ![d] = Append(@, NewEcomMsg(e, e, inc[e]))]
       ELSE UNCHANGED <<conn, mbox>>
    /\ UNCHANGED <<up, inc, listening, toAcc, toIni, dead, leader, peers, notes,
                   crashes, stores, toStore, storeLeader, fate>>

\* The process dies: its connections close; each peer still reads what the
\* process wrote on them, then EOF; what was written to it is lost.
Crash(e) ==
    /\ up[e] /\ crashes < MaxCrashes
    /\ up' = [up EXCEPT ![e] = FALSE]
    /\ listening' = [listening EXCEPT ![e] = FALSE]
    /\ toConnect' = [toConnect EXCEPT ![e] = {}]
    /\ conn' = [i \in Ecoms |-> [j \in Ecoms |->
                  IF i = e \/ j = e THEN FALSE ELSE conn[i][j]]]
    /\ toAcc' = [i \in Ecoms |-> [j \in Ecoms |->
                   IF i = e \/ j = e THEN <<>> ELSE toAcc[i][j]]]
    /\ toIni' = [i \in Ecoms |-> [j \in Ecoms |->
                   IF i = e \/ j = e THEN <<>> ELSE toIni[i][j]]]
    /\ dead' = [a \in Ecoms |-> [b \in Ecoms |->
                  IF a = e THEN <<>>
                  ELSE IF b = e
                  THEN dead[a][e]
                       \o (IF conn[e][a] THEN Append(toAcc[e][a], EOF) ELSE <<>>)
                       \o (IF conn[a][e] THEN Append(toIni[a][e], EOF) ELSE <<>>)
                  ELSE dead[a][b]]]
    /\ crashes' = crashes + 1
    /\ fate' = [o \in Submitters |-> IF o \in HeldBy(e) THEN "lost" ELSE fate[o]]
    \* the LEADER lines its AbstractStore already wrote still reach the store
    /\ \E k \in 0..Len(toStore[e]) : toStore' = [toStore EXCEPT ![e] = SubSeq(@, 1, k)]
    /\ UNCHANGED <<inc, leader, peers, mbox, notes, stores, storeLeader>>

-----------------------------------------------------------------------------
(* AbstractEcom: the StreamHandler at b reading the lines a wrote.         *)

\* ELECTION: the coordinator is told to go on with the election, the next
\* hop being the sender's id plus one; LEADER: ChangeLeader; end of the
\* stream: EcomDisconnected, and the actor stops; ORDER: NewOrder with no
\* store visited, through try_send, whose Err nobody reads.
Received(b, a, line) ==
    mbox' = [mbox EXCEPT ![b] = Append(@,
               CASE line.verb = "ELECTION" -> ElectionMsg(line.ids, a + 1)
                 [] line.verb = "LEADER"   -> ChangeLeaderMsg(line.id)
                 [] line.verb = "ORDER"    -> NewOrderMsg(line.o, FALSE)
                 [] line.verb = "EOF"      -> DisconnectedMsg(a))]

\* The acceptor j reads a line of the connection i opened to it.
ReadAccepted(j, i) ==
    /\ up[j] /\ toAcc[i][j] # <<>>
    /\ Received(j, i, Head(toAcc[i][j]))
    /\ toAcc' = [toAcc EXCEPT ![i][j] = Tail(@)]
    /\ UNCHANGED <<up, inc, listening, toConnect, conn, toIni, dead, leader,
                   peers, notes, crashes, stores, toStore, storeLeader, fate>>

\* The initiator i reads a line of the connection it opened to j.
ReadInitiated(i, j) ==
    /\ up[i] /\ toIni[i][j] # <<>>
    /\ Received(i, j, Head(toIni[i][j]))
    /\ toIni' = [toIni EXCEPT ![i][j] = Tail(@)]
    /\ UNCHANGED <<up, inc, listening, toConnect, conn, toAcc, dead, leader,
                   peers, notes, crashes, stores, toStore, storeLeader, fate>>

\* a reads a line of a connection closed by b's crash.
ReadClosed(a, b) ==
    /\ up[a] /\ dead[a][b] # <<>>
    /\ Received(a, b, Head(dead[a][b]))
    /\ dead' = [dead EXCEPT ![a][b] = Tail(@)]
    /\ UNCHANGED <<up, inc, listening, toConnect, conn, toAcc, toIni, leader,
                   peers, notes, crashes, stores, toStore, storeLeader, fate>>

-----------------------------------------------------------------------------
(* Coordinator handlers.  A handler takes the head of the mailbox, or the  *)
(* head of what the coordinator notified itself; ns is the coordinator's   *)
(* notify queue once that head is taken.                                   *)

SetNotes(e, ns) == notes' = [notes EXCEPT ![e] = ns]

NoWrite == UNCHANGED <<toAcc, toIni>>

\* NewLeader to the AbstractStore of a registered store, which writes
\* LEADER,id on the store's stream; without a store nothing is sent.
Announce(e, id) ==
    toStore' = IF stores[e] = "registered"
               THEN [toStore EXCEPT ![e] = Append(@, id)] ELSE toStore

\* Handler<NewEcom>: an AbstractEcom for the connection replaces any entry
\* for that id; an id greater than the known leader becomes the leader,
\* and the store is told.
NewEcom(e, m, ns) ==
    /\ leader' = IF leader[e] # NoLeader /\ m.id > leader[e]
                 THEN [leader EXCEPT ![e] = m.id] ELSE leader
    /\ IF leader[e] # NoLeader /\ m.id > leader[e]
       THEN Announce(e, m.id) ELSE UNCHANGED toStore
    /\ peers' = [peers EXCEPT ![e][m.id] = [by |-> m.by, inc |-> m.inc]]
    /\ SetNotes(e, ns)
    /\ NoWrite

\* Mutant: the departed leader is kept.
EcomDisconnectedKeepLeader(e, m, ns) ==
    /\ IF peers[e][m.id] = NoEntry
       THEN /\ SetNotes(e, ns)
            /\ UNCHANGED <<peers, leader>>
       ELSE /\ peers' = [peers EXCEPT ![e][m.id] = NoEntry]
            /\ IF leader[e] = m.id
               THEN /\ SetNotes(e, Append(ns, ElectionMsg(<<>>, e + 1)))
                    /\ UNCHANGED leader
               ELSE /\ SetNotes(e, ns)
                    /\ UNCHANGED leader
    /\ NoWrite

\* Mutant: the leader is forgotten but no election is started.
EcomDisconnectedNoElection(e, m, ns) ==
    /\ IF peers[e][m.id] = NoEntry
       THEN /\ SetNotes(e, ns)
            /\ UNCHANGED <<peers, leader>>
       ELSE /\ peers' = [peers EXCEPT ![e][m.id] = NoEntry]
            /\ SetNotes(e, ns)
            /\ IF leader[e] = m.id
               THEN leader' = [leader EXCEPT ![e] = NoLeader]
               ELSE UNCHANGED leader
    /\ NoWrite

\* Handler<EcomDisconnected>: forget the peer; if it was the leader, start
\* an election at id + 1 and forget the leader.
EcomDisconnected(e, m, ns) ==
    /\ IF peers[e][m.id] = NoEntry
       THEN /\ SetNotes(e, ns)                  \* StoreNotConnectedError
            /\ UNCHANGED <<peers, leader>>
       ELSE /\ peers' = [peers EXCEPT ![e][m.id] = NoEntry]
            /\ IF leader[e] = m.id
               THEN /\ SetNotes(e, Append(ns, ElectionMsg(<<>>, e + 1)))
                    /\ leader' = [leader EXCEPT ![e] = NoLeader]
               ELSE /\ SetNotes(e, ns)
                    /\ UNCHANGED leader
    /\ NoWrite

\* Mutant: a token whose hop is gone is dropped instead of going to the
\* smallest peer.
CoordElectionNoFallback(e, m, ns) ==
    /\ IF e \in ToSet(m.visited)
       THEN /\ WriteTo(e, Ecoms, LeaderLine(MaxOf(ToSet(m.visited))))
            /\ SetNotes(e, ns)
       ELSE LET v == Append(m.visited, e) IN
            IF m.hop \in Peers(e)
            THEN /\ WriteTo(e, {m.hop}, ElectionLine(ElectionIds(v, m.hop)))
                 /\ SetNotes(e, ns)
            ELSE IF Peers(e) # {}
            THEN /\ SetNotes(e, ns)
                 /\ NoWrite
            ELSE /\ SetNotes(e, Append(ns, ChangeLeaderMsg(e)))
                 /\ NoWrite
    /\ UNCHANGED <<leader, peers>>

\* Handler<CoordElection>: a token that already holds this id names the
\* greatest id in it as leader to every peer; otherwise the id is appended
\* and the token goes to the hop, or to the smallest peer, or, with no peer
\* left, the coordinator makes itself leader.
CoordElection(e, m, ns) ==
    /\ IF e \in ToSet(m.visited)
       THEN /\ WriteTo(e, Ecoms, LeaderLine(MaxOf(ToSet(m.visited))))
            /\ SetNotes(e, ns)
       ELSE LET v == Append(m.visited, e) IN
            IF m.hop \in Peers(e)
            THEN /\ WriteTo(e, {m.hop}, ElectionLine(ElectionIds(v, m.hop)))
                 /\ SetNotes(e, ns)
            ELSE IF Peers(e) # {}
            THEN LET low == MinOf(Peers(e)) IN
                 /\ WriteTo(e, {low}, ElectionLine(ElectionIds(v, low)))
                 /\ SetNotes(e, ns)
            ELSE /\ SetNotes(e, Append(ns, ChangeLeaderMsg(e)))
                 /\ NoWrite
    /\ UNCHANGED <<leader, peers>>

\* Handler<ChangeLeader>: adopt the leader and announce it to the store.
ChangeLeader(e, m, ns) ==
    /\ leader' = [leader EXCEPT ![e] = m.id]
    /\ Announce(e, m.id)
    /\ SetNotes(e, ns)
    /\ UNCHANGED peers
    /\ NoWrite

\* Handler<NewOrder> up to the choice of a store: with no store registered
\* (NoActiveStoresError) or no leader (NoActiveLeader) the order is refused,
\* which order_manager answers by submitting it again and an AbstractEcom
\* ignores; an order for another leader with an entry goes to that entry's
\* AbstractEcom, whose SendOrder writes ORDER (a stopped actor or a closed
\* stream loses it); otherwise it is routed to a store here (Routing.tla).
NewOrder(e, m, ns) ==
    LET l == leader[e] IN
    /\ CASE stores[e] # "registered" \/ l = NoLeader ->
              /\ fate' = [fate EXCEPT ![m.o] = IF m.f THEN "queued" ELSE "lost"]
              /\ NoWrite
         [] Forwards(e) /\ LiveEntry(e, l) ->
              /\ WriteTo(e, {l}, OrderLine(m.o))
              /\ UNCHANGED fate
         [] Forwards(e) ->
              /\ fate' = [fate EXCEPT ![m.o] = "lost"]
              /\ NoWrite
         [] OTHER ->
              /\ fate' = [fate EXCEPT ![m.o] = "routed"]
              /\ NoWrite
    /\ SetNotes(e, ns)
    /\ UNCHANGED <<leader, peers>>

Handle(e, m, ns) ==
    CASE m.kind = "NewOrder"         -> NewOrder(e, m, ns) /\ UNCHANGED toStore
      [] m.kind = "NewEcom"          -> NewEcom(e, m, ns) /\ UNCHANGED fate
      [] m.kind = "EcomDisconnected" -> EcomDisconnected(e, m, ns)
                                        /\ UNCHANGED <<fate, toStore>>
      [] m.kind = "CoordElection"    -> CoordElection(e, m, ns)
                                        /\ UNCHANGED <<fate, toStore>>
      [] m.kind = "ChangeLeader"     -> ChangeLeader(e, m, ns) /\ UNCHANGED fate

\* The coordinator handles the next message of its mailbox.
CoordinatorMailbox(e) ==
    /\ up[e] /\ mbox[e] # <<>>
    /\ mbox' = [mbox EXCEPT ![e] = Tail(@)]
    /\ Handle(e, Head(mbox[e]), notes[e])
    /\ UNCHANGED <<up, inc, listening, toConnect, conn, dead, crashes, stores,
                   storeLeader>>

\* The coordinator handles the next message it notified itself.
CoordinatorNotified(e) ==
    /\ up[e] /\ notes[e] # <<>>
    /\ Handle(e, Head(notes[e]), Tail(notes[e]))
    /\ UNCHANGED <<up, inc, listening, toConnect, conn, dead, mbox, crashes,
                   stores, storeLeader>>

\* order_manager submits its order with send().await and waits for the
\* answer; an Err answer makes it submit the order again.
OrderManager(o) ==
    /\ o \in Submitters /\ up[o] /\ fate[o] = "queued"
    /\ mbox' = [mbox EXCEPT ![o] = Append(@, NewOrderMsg(o, TRUE))]
    /\ fate' = [fate EXCEPT ![o] = "inflight"]
    /\ UNCHANGED <<up, inc, listening, toConnect, conn, toAcc, toIni, dead,
                   leader, peers, notes, crashes, stores, toStore, storeLeader>>

\* discover_stores accepts the store's connection and sends NewStore;
\* Handler<NewStore> registers it only while a leader is known
\* (NoActiveLeader otherwise, and the store is not offered again) and
\* sends the new AbstractStore the leader.  The store's online_sales loop
\* connects until it succeeds and then waits for a console C, so a
\* restarted process does not get the store back.
StoreJoin(e) ==
    /\ up[e] /\ inc[e] = 1 /\ stores[e] = "awaited"
    /\ IF leader[e] # NoLeader
       THEN /\ stores' = [stores EXCEPT ![e] = "registered"]
            /\ toStore' = [toStore EXCEPT ![e] = Append(@, leader[e])]
       ELSE /\ stores' = [stores EXCEPT ![e] = "refused"]
            /\ UNCHANGED toStore
    /\ UNCHANGED <<up, inc, listening, toConnect, conn, toAcc, toIni, dead,
                   leader, peers, mbox, notes, crashes, storeLeader, fate>>

\* Handler<NewLeader> of the Store: the leader is the ecom its answers go
\* to (ShareStock, which it notifies, is modelled in Store.tla).
StoreNewLeader(id) == storeLeader' = id

\* The store's EcomHandler for e reads a LEADER line and try_sends
\* NewLeader to the store, which handles it.
StoreReadsLeader(e) ==
    /\ toStore[e] # <<>>
    /\ StoreNewLeader(Head(toStore[e]))
    /\ toStore' = [toStore EXCEPT ![e] = Tail(@)]
    /\ UNCHANGED <<up, inc, listening, toConnect, conn, toAcc, toIni, dead,
                   leader, peers, mbox, notes, crashes, stores, fate>>

-----------------------------------------------------------------------------
Next ==
    \E e \in Ecoms :
        \/ Start(e) \/ Listen(e) \/ Crash(e)
        \/ CoordinatorMailbox(e) \/ CoordinatorNotified(e)
        \/ OrderManager(e) \/ StoreJoin(e) \/ StoreReadsLeader(e)
        \/ \E d \in Ecoms :
              \/ ConnectPeer(e, d)
              \/ ReadAccepted(e, d) \/ ReadInitiated(e, d) \/ ReadClosed(e, d)

\* The actix runtime keeps polling every actor and task of a running
\* process, order_manager included, and a store started with this process's
\* address connects to it.  Starting and crashing a process are not
\* assumed to happen.
Fairness ==
    \A e \in Ecoms :
        /\ WF_vars(Listen(e)) /\ WF_vars(OrderManager(e)) /\ WF_vars(StoreJoin(e))
        /\ WF_vars(StoreReadsLeader(e))
        /\ WF_vars(CoordinatorMailbox(e)) /\ WF_vars(CoordinatorNotified(e))
        /\ \A d \in Ecoms :
              /\ WF_vars(ConnectPeer(e, d))
              /\ WF_vars(ReadAccepted(e, d)) /\ WF_vars(ReadInitiated(e, d))
              /\ WF_vars(ReadClosed(e, d))

Spec == Init /\ [][Next]_vars /\ Fairness

-----------------------------------------------------------------------------
(* Properties.                                                             *)

\* Nothing is left to do: every connect was tried, every line read, every
\* message handled.
Quiet ==
    \A a \in Ecoms :
        /\ toConnect[a] = {} /\ mbox[a] = <<>> /\ notes[a] = <<>>
        /\ (up[a] => listening[a])
        /\ \A b \in Ecoms : toAcc[a][b] = <<>> /\ toIni[a][b] = <<>> /\ dead[a][b] = <<>>

Linked(a, b) == up[a] /\ up[b] /\ LiveEntry(a, b) /\ LiveEntry(b, a)

\* Spec invariant 4 (coordinator.rs EcomDisconnected, CoordElection,
\* ChangeLeader): a coordinator that follows another one has a link to it.
LeaderIsPeer ==
    \A e \in Ecoms :
        up[e] /\ leader[e] \notin {e, NoLeader} => peers[e][leader[e]] # NoEntry

\* Once the network is quiet, two linked coordinators follow the same
\* leader, so orders of both are routed by one process (NewEcom adoption,
\* the ring election and the LEADER broadcast together).
AgreedWhenQuiet ==
    Quiet => \A a, b \in Ecoms : Linked(a, b) => leader[a] = leader[b]

\* The process that routes an order submitted at a, following at most n
\* forwards; NoLeader if the order is still being forwarded after n.
RECURSIVE RouterOf(_, _)
RouterOf(a, n) ==
    IF ~Forwards(a) THEN a
    ELSE IF n = 0 THEN NoLeader
    ELSE RouterOf(leader[a], n - 1)

LeaderRestored ==
    \A e \in Ecoms : (up[e] /\ leader[e] = NoLeader) ~> (~up[e] \/ leader[e] # NoLeader)

\* A submitted order is eventually routed to a store by some coordinator or
\* lost: forwarding ends, and order_manager's resubmission after an Err
\* (no store, no leader) ends too.
OrderSettles ==
    \A o \in Submitters : fate[o] = "inflight" ~> fate[o] \in {"routed", "lost"}

\* Once every coordinator and the store are done, the store answers
\* (Store.leader, store.rs Answer) go to the leader every running
\* coordinator with the store registered follows: the LEADER lines of
\* NewStore, NewEcom and ChangeLeader, read from several streams in any
\* order, leave the store on the current leader.
StoreFollowsLeader ==
    (Quiet /\ \A e \in Ecoms : toStore[e] = <<>>) =>
        \A e \in Ecoms :
            up[e] /\ stores[e] = "registered" /\ leader[e] # NoLeader
                => storeLeader = leader[e]

=============================================================================
