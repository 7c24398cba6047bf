------------------------------ MODULE IbkrDesk ------------------------------
(***************************************************************************)
(* The IBKR side: the approval desk (services/ibkr/orders.py) and the sync *)
(* loop (sync.py) on top of the connection that probes four local ports    *)
(* (connection.py), with the tables of db.py and routes/live_ibkr.py.      *)
(*                                                                         *)
(* A Gateway or TWS accepts one connection per client id.  Approvals all   *)
(* use the id KUBERA_CLIENT_ID_ORDER, connect before they read the pending *)
(* signals and disconnect after their commit; what keeps two approvals     *)
(* from submitting one signal twice is this and nothing else.              *)
(*                                                                         *)
(* Unlike AlpacaDesk, the tick is one action: ib_insync serves its reads   *)
(* from what the session has received.  The database lock only delays; a   *)
(* wait that times out is AbortBatch or TickFails.                         *)
(***************************************************************************)
EXTENDS Integers, FiniteSets, Sequences, FiniteSetsExt

CONSTANTS
    Users,        \* dashboard sessions that approve batches
    Sync,         \* the sync process
    Signals,      \* ids of kubera_signals
    Opens,        \* those whose intended_action is OPEN_LONG
    Available,    \* ports of PROBE_PORTS on which somebody may log in
    MaxOrders,    \* bound: entry orders accepted
    MaxFaults     \* bound: logins and logouts, failed calls, lost batches

Ports == 1..4     \* PROBE_PORTS, in the order they are tried

ASSUME IbkrAssumption ==
    /\ Available \subseteq Ports
    /\ Opens \subseteq Signals
    /\ Sync \notin Users /\ IsFiniteSet(Users)
    /\ {MaxOrders, MaxFaults} \subseteq Nat

VARIABLES
    up,       \* ports where a Gateway or TWS is logged in
    links,    \* established connections: <<port, client>>
    client,   \* one KuberaIB per client, with its batch
    signal,   \* kubera_signals, committed
    orders,   \* what the brokers accepted
    lost,     \* batches that sent the signal and then lost their session or
              \* were rolled back
    table,    \* ibkr_account_meta's newest account, ibkr_orders
    faults

vars == <<up, links, client, signal, orders, lost, table, faults>>

Clients == Users \cup {Sync}
None == 0
Done == 5                           \* the port after the last one

\* DU accounts are paper.  A login has an account of its own, so the port
\* stands for the account too.
Mode(p) == IF p \in {1, 3} THEN "paper" ELSE "live"
ClientId(c) == IF c = Sync THEN "sync" ELSE "order"

Idle == [pc |-> "idle", port |-> 1, found |-> {}, at |-> None, confirm |-> None,
         ids |-> {}, todo |-> {}, sig |-> {}, marks |-> {}]

Init ==
    /\ up \in (SUBSET Available) \ {{}}
    /\ links = {}
    /\ client = [c \in Clients |-> Idle]
    /\ signal = [s \in Signals |-> "PENDING_APPROVAL"]
    /\ orders = <<>>
    /\ lost = [s \in Signals |-> 0]
    /\ table = [account |-> None, orders |-> {}]
    /\ faults = 0

Fault == faults < MaxFaults /\ faults' = faults + 1

Linked(c) == <<client[c].at, c>> \in links

\* The batch of u has an order of s out, and no commit yet.
Sent(u, s) == s \in client[u].sig \/ <<s, "PLACED">> \in client[u].marks

\* The batches of U lose what makes them the only ones at their account.
Loses(U) == lost' = [s \in Signals |-> lost[s] + Cardinality({u \in U : Sent(u, s)})]

(***************************************************************************)
(* connect() and disconnect().                                             *)
(***************************************************************************)

\* Logins change: the connections of a port that is left are gone.
Login(S) ==
    /\ S # up
    /\ Fault
    /\ up' = S
    /\ links' = {l \in links : l[1] \in S}
    /\ Loses({u \in Users : Linked(u) /\ client[u].at \notin S})
    /\ UNCHANGED <<client, signal, orders, table>>

\* POST /signals/approve: the batch and, maybe, the account that the page
\* shows, echoed back.
Approve(u, ids, confirm) ==
    /\ client[u].pc = "idle"
    /\ ids # {}
    /\ client' = [client EXCEPT ![u] = [Idle EXCEPT !.pc = "probe", !.ids = ids,
                                                    !.confirm = confirm]]
    /\ UNCHANGED <<up, links, signal, orders, lost, table, faults>>

SyncConnects ==
    /\ client[Sync].pc = "idle"
    /\ client' = [client EXCEPT ![Sync] = [Idle EXCEPT !.pc = "probe"]]
    /\ UNCHANGED <<up, links, signal, orders, lost, table, faults>>

\* A port answers when it is up and the client id is not in use there.
Answers(p, c) ==
    p \in up /\ ~ \E d \in Clients : ClientId(d) = ClientId(c) /\ <<p, d>> \in links

NextPort(p) == Min({q \in Available \cup {Done} : q > p})

Probe(c) ==
    /\ client[c].pc = "probe"
    /\ client[c].port # Done
    /\ LET p == client[c].port
           found == IF Answers(p, c) THEN {p} ELSE {}
       IN  /\ links' = links \cup (found \X {c})
           /\ client' = [client EXCEPT ![c].port = NextPort(p), ![c].found = @ \cup found]
    /\ UNCHANGED <<up, signal, orders, lost, table, faults>>

\* The session that connect() keeps: the first one, unless two modes answered.
Chosen(found) ==
    IF found = {} \/ Cardinality({Mode(p) : p \in found}) > 1 THEN None ELSE Min(found)

\* Mutant: any id from the page will do.
LiveRefused_AnyId(at, confirm) == Mode(at) = "live" /\ confirm = None

\* Live orders need the connected account's own id from the page.
LiveRefused(at, confirm) == Mode(at) = "live" /\ confirm # at

Connected(c) ==
    /\ client[c].pc = "probe"
    /\ client[c].port = Done
    /\ LET at == Chosen(client[c].found)
           stay == at # None /\ (c \in Users => ~ LiveRefused(at, client[c].confirm))
       IN  /\ links' = {l \in links : l[2] = c => stay /\ l[1] = at}
           /\ client' = [client EXCEPT ![c] = IF stay
                            THEN [@ EXCEPT !.pc = "connected", !.at = at, !.found = {}]
                            ELSE Idle]
    /\ UNCHANGED <<up, signal, orders, lost, table, faults>>

Disconnect(u) ==
    /\ client[u].pc = "closing"
    /\ links' = {l \in links : l[2] # u}
    /\ client' = [client EXCEPT ![u] = Idle]
    /\ UNCHANGED <<up, signal, orders, lost, table, faults>>

(***************************************************************************)
(* approve_and_submit().                                                   *)
(***************************************************************************)

Pending == {s \in Signals : signal[s] = "PENDING_APPROVAL"}

ListPending(u) ==
    /\ client[u].pc = "connected"
    /\ client' = [client EXCEPT ![u].pc = "work", ![u].todo = client[u].ids \cap Pending]
    /\ UNCHANGED <<up, links, signal, orders, lost, table, faults>>

\* A risk cap (OPEN_LONG only) or placeOrder refuses.
Refuse(u, s) ==
    /\ client[u].pc = "work"
    /\ s \in client[u].todo
    /\ Fault
    /\ client' = [client EXCEPT ![u].todo = @ \ {s}, ![u].marks = @ \cup {<<s, "REJECTED">>}]
    /\ UNCHANGED <<up, links, signal, orders, lost, table>>

PlaceOrder(u, s) ==
    /\ client[u].pc = "work"
    /\ s \in client[u].todo
    /\ Linked(u)
    /\ Len(orders) < MaxOrders
    /\ orders' = Append(orders, [signal |-> s, at |-> client[u].at, by |-> ClientId(u),
                                 stop |-> FALSE, confirm |-> client[u].confirm])
    /\ client' = [client EXCEPT ![u].pc = "sent", ![u].sig = {s}]
    /\ UNCHANGED <<up, links, signal, lost, table, faults>>

MarkPlaced(u) ==
    /\ client[u].pc = "sent"
    /\ client' = [client EXCEPT
            ![u].pc = IF client[u].sig \subseteq Opens THEN "stop" ELSE "work",
            ![u].todo = @ \ client[u].sig,
            ![u].marks = @ \cup (client[u].sig \X {"PLACED"})]
    /\ UNCHANGED <<up, links, signal, orders, lost, table, faults>>

\* The protective stop is best effort: whatever becomes of it, the batch goes
\* on and the signal is PLACED.
PlaceStop(u) ==
    /\ client[u].pc = "stop"
    /\ \E placed \in {FALSE, Linked(u)} :
        orders' = [o \in DOMAIN orders |->
                    IF {orders[o].signal} = client[u].sig /\ orders[o].at = client[u].at
                    THEN [orders[o] EXCEPT !.stop = @ \/ placed] ELSE orders[o]]
    /\ client' = [client EXCEPT ![u].pc = "work"]
    /\ UNCHANGED <<up, links, signal, lost, table, faults>>

Marked(u, s) == {m[2] : m \in {n \in client[u].marks : n[1] = s}}

\* Mutant: the connection is closed before the commit.
CommitBatch_ClosesFirst(u) ==
    /\ client[u].pc = "work"
    /\ client[u].todo = {}
    /\ IF Linked(u)
       THEN links' = {l \in links : l[2] # u} /\ UNCHANGED <<client, signal>>
       ELSE /\ signal' = [s \in Signals |-> IF Marked(u, s) = {} THEN signal[s]
                                              ELSE CHOOSE m \in Marked(u, s) : TRUE]
            /\ client' = [client EXCEPT ![u] = [Idle EXCEPT !.pc = "closing"]]
            /\ UNCHANGED links
    /\ UNCHANGED <<up, orders, lost, table, faults>>

CommitBatch(u) ==
    /\ client[u].pc = "work"
    /\ client[u].todo = {}
    /\ signal' = [s \in Signals |-> IF Marked(u, s) = {} THEN signal[s]
                                    ELSE CHOOSE m \in Marked(u, s) : TRUE]
    /\ client' = [client EXCEPT ![u] = [Idle EXCEPT !.pc = "closing"]]
    /\ UNCHANGED <<up, links, orders, lost, table, faults>>

\* A call raises or the API dies: finally closes the connection without a
\* commit.  A logout of the port raises in the next call that needs it.
AbortBatch(u) ==
    /\ client[u].pc \in {"connected", "work", "sent", "stop"}
    /\ Linked(u) => faults < MaxFaults
    /\ faults' = IF Linked(u) THEN faults + 1 ELSE faults
    /\ Loses({v \in {u} : Linked(v)})
    /\ client' = [client EXCEPT ![u] = [Idle EXCEPT !.pc = "closing"]]
    /\ UNCHANGED <<up, links, signal, orders, table>>

\* reject() looks at no status; it waits while a batch has written marks.
Reject(s) ==
    /\ \A u \in Users : client[u].marks = {}
    /\ signal[s] # "REJECTED"
    /\ signal' = [signal EXCEPT ![s] = "REJECTED"]
    /\ UNCHANGED <<up, links, client, orders, lost, table, faults>>

(***************************************************************************)
(* The sync loop.                                                          *)
(***************************************************************************)

\* Mutant: the account is recorded when it is first seen.
LastSeen_First(at) == IF table.account = None THEN at ELSE table.account

\* upsert_account_meta: the account's row, now the one seen last.
LastSeen(at) == at

\* ib.trades(): a session is sent the orders of its own client id only, so
\* the sync loop never sees what approve_and_submit ordered.
Trades(c) == {o \in DOMAIN orders : orders[o].at = client[c].at /\ orders[o].by = ClientId(c)}

Tick ==
    /\ client[Sync].pc = "connected"
    /\ Linked(Sync)
    /\ LET at == client[Sync].at
       IN  table' = [account |-> LastSeen(at),
                     orders |-> table.orders \cup Trades(Sync)]
    /\ UNCHANGED <<up, links, client, signal, orders, lost, faults>>

\* A tick raises, at the latest when its session is gone: disconnect, and a
\* new connect at the next one.
TickFails ==
    /\ client[Sync].pc = "connected"
    /\ Linked(Sync) => faults < MaxFaults
    /\ faults' = IF Linked(Sync) THEN faults + 1 ELSE faults
    /\ links' = {l \in links : l[2] # Sync}
    /\ client' = [client EXCEPT ![Sync] = Idle]
    /\ UNCHANGED <<up, signal, orders, lost, table>>

(***************************************************************************)
(* Next, Spec.                                                             *)
(***************************************************************************)

ConnectStep(c) == Probe(c) \/ Connected(c)

BatchStep(u) ==
    \/ ListPending(u)
    \/ MarkPlaced(u)
    \/ PlaceStop(u)
    \/ CommitBatch(u)
    \/ Disconnect(u)
    \/ \E s \in Signals : PlaceOrder(u, s)

SyncStep == SyncConnects \/ ConnectStep(Sync) \/ Tick \/ (~ Linked(Sync) /\ TickFails)

Next ==
    \/ \E S \in SUBSET Available : Login(S)
    \/ \E u \in Users :
        \/ ConnectStep(u)
        \/ BatchStep(u)
        \/ AbortBatch(u)
        \/ \E s \in Signals : Refuse(u, s)
        \/ \E ids \in SUBSET Signals, confirm \in {None, table.account} : Approve(u, ids, confirm)
    \/ \E s \in Signals : Reject(s)
    \/ SyncStep
    \/ TickFails

\* The sync process loops for ever; so does every call once it is made.
Fairness == WF_vars(SyncStep) /\ \A u \in Users : WF_vars(ConnectStep(u)) /\ WF_vars(BatchStep(u))

Spec == Init /\ [][Next]_vars /\ Fairness

(***************************************************************************)
(* Properties.                                                             *)
(***************************************************************************)

\* Types, and what a broker guarantees: one connection per client id.
TypeOK ==
    /\ up \subseteq Available
    /\ links \subseteq up \X Clients
    /\ \A l, m \in links : l[1] = m[1] /\ ClientId(l[2]) = ClientId(m[2]) => l = m
    /\ signal \in [Signals -> {"PENDING_APPROVAL", "PLACED", "REJECTED"}]
    /\ table.account \in Available \cup {None}
    /\ \A c \in Clients : client[c].pc = "idle" => \A l \in links : l[2] # c

\* Whoever approves at the same time, a signal is ordered once per account,
\* and once more for each batch that sent it and then lost its session or was
\* rolled back: the next batch finds the client id free and the signal pending.
OrderedOncePerAccount ==
    \A s \in Signals, p \in Available :
        Cardinality({o \in DOMAIN orders : orders[o].signal = s /\ orders[o].at = p}) <= 1 + lost[s]

\* An approval that finds the paper port taken by another approval may end
\* on the live one: no live order without that very account's id.
LiveOrdersConfirmed ==
    \A o \in DOMAIN orders : Mode(orders[o].at) = "live" => orders[o].confirm = orders[o].at

\* Logins come and go; in the end, what the dashboard shows as the account
\* is the one the sync loop is connected to.
SyncFollows ==
    <>[](client[Sync].pc = "connected" /\ Linked(Sync) => table.account = client[Sync].at)

(***************************************************************************)
(* What sync.py says of itself and does not keep.                          *)
(***************************************************************************)

\* "The sync loop is the source of truth for the dashboard": in the end the
\* orders table has every order of the connected account.  It has none that
\* was approved here: those carry another client id than the loop's.
DashboardShowsOrders ==
    <>[](client[Sync].pc = "connected" /\ Linked(Sync) =>
            \A o \in DOMAIN orders : orders[o].at = client[Sync].at => o \in table.orders)
=============================================================================
