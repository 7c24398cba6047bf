----------------------------- MODULE AlpacaDesk -----------------------------
(***************************************************************************)
(* Everything around the Alpaca daemon that people drive: the approval     *)
(* desk (services/alpaca/orders.py), the sync loop that copies the broker  *)
(* into alpaca_live.sqlite (sync.py, db.py), the start / stop / status     *)
(* bookkeeping of the two detached processes (engine_state.py) and the     *)
(* dashboard routes that read the tables (routes/live_alpaca.py).          *)
(*                                                                         *)
(* All of them write one SQLite file, which has one writer at a time: a    *)
(* connection takes the file at its first write and gives it back at its   *)
(* commit or rollback.  `writer` is that connection.  What a connection    *)
(* has written and not committed is its own (`desk[u].marks`, `tick[p]`).  *)
(* One symbol and one account are modelled; an order is for Qty shares.    *)
(***************************************************************************)
EXTENDS Integers, FiniteSets, Sequences, FiniteSetsExt

CONSTANTS
    Signals,      \* ids of kubera_alpaca_signals
    Opens,        \* those whose intended_action is OPEN_LONG
    Users,        \* dashboard sessions that approve batches
    Operators,    \* dashboard sessions that start and stop the engine
    Pollers,      \* dashboard sessions that only ask for the engine's status
    Qty,          \* shares of an order
    MaxOrders,    \* bound: orders accepted by the broker
    MaxStarts,    \* bound: processes of each kind ever spawned
    MaxFaults     \* bound: failed calls, timeouts and deaths of a process

VARIABLES
    signal,    \* kubera_alpaca_signals, committed
    orders,    \* the broker's orders in the order of their acceptance
    writer,    \* the connection that holds the write lock of the file
    desk,      \* approve_and_submit of each user
    row,       \* the singleton of alpaca_engine_state
    live,      \* pids of the detached processes that exist
    spawned,   \* how many of each kind were ever spawned
    oper,      \* start() and stop() of each operator
    poll,      \* status() of each poller
    tick,      \* one iteration of the sync loop of each sync process
    table,     \* alpaca_orders, alpaca_fills, the newest rows of alpaca_positions
    faults

deskVars == <<signal, orders, desk>>
procVars == <<row, live, spawned, oper, poll>>
syncVars == <<tick, table>>
vars == <<signal, orders, writer, desk, row, live, spawned, oper, poll,
          tick, table, faults>>

Free == 0                          \* nobody; users are model values, processes pids
NoOrder == 0
NoPid == 0
Pids == 1..MaxStarts
OrderIds == 1..MaxOrders

ASSUME DeskAssumption ==
    /\ Opens \subseteq Signals
    /\ IsFiniteSet(Signals)
    /\ Users \cap ({Free} \cup Pids) = {}
    /\ Qty \in Nat \ {0}
    /\ {MaxOrders, MaxStarts, MaxFaults} \subseteq Nat

NoRow == -1                        \* the table has no row for this order
NoMarks == [s \in {} |-> NoOrder]
Blank == [o \in OrderIds |-> NoRow]
Idle == [pc |-> "idle", todo |-> {}, sig |-> {}, order |-> NoOrder, marks |-> NoMarks]
NoTick == [pc |-> "wait", held |-> NoRow, rows |-> Blank]

Init ==
    /\ signal = [s \in Signals |-> [status |-> "PENDING_APPROVAL", order |-> NoOrder]]
    /\ orders = <<>>
    /\ writer = Free
    /\ desk = [u \in Users |-> Idle]
    /\ row = [status |-> "stopped", pid |-> NoPid, sync |-> NoPid]
    /\ live = [engine |-> {}, sync |-> {}]
    /\ spawned = [engine |-> 0, sync |-> 0]
    /\ oper = [c \in Operators |-> [pc |-> "idle", pid |-> NoPid, sync |-> NoPid]]
    /\ poll = [c \in Pollers |-> "idle"]
    /\ tick = [p \in Pids |-> NoTick]
    /\ table = [rows |-> Blank, fills |-> Blank, held |-> NoRow]
    /\ faults = 0

Fault == faults < MaxFaults /\ faults' = faults + 1

\* A write needs the file: free, or already this connection's.
Holds(c) == writer \in {Free, c}

(***************************************************************************)
(* The approval desk.                                                      *)
(***************************************************************************)

Pending == {s \in Signals : signal[s].status = "PENDING_APPROVAL"}

\* approve_and_submit connects, then reads every pending row.  Ids that are
\* not in the list are answered NOT_PENDING and change nothing.
ListPending(u, ids) ==
    /\ desk[u].pc = "idle"
    /\ ids # {}
    /\ Len(orders) + SumSet({Cardinality(desk[v].todo) : v \in Users}) + Cardinality(ids) <= MaxOrders
    /\ desk' = [desk EXCEPT ![u] = [Idle EXCEPT !.pc = "work", !.todo = ids \cap Pending]]
    /\ UNCHANGED <<signal, orders, writer, faults, procVars, syncVars>>

\* One UPDATE of the batch's transaction.
Marks(u, S, status, order) ==
    LET m == [status |-> status, order |-> order]
    IN  [k \in DOMAIN desk[u].marks \cup S |-> IF k \in S THEN m ELSE desk[u].marks[k]]

\* A risk cap (OPEN_LONG only) or the broker says no.
Refuse(u, s) ==
    /\ desk[u].pc = "work"
    /\ s \in desk[u].todo
    /\ Holds(u)
    /\ Fault
    /\ writer' = u
    /\ desk' = [desk EXCEPT ![u].todo = @ \ {s},
                            ![u].marks = Marks(u, {s}, "REJECTED", NoOrder)]
    /\ UNCHANGED <<signal, orders, procVars, syncVars>>

Submit(u, s) ==
    /\ desk[u].pc = "work"
    /\ s \in desk[u].todo
    /\ orders' = Append(orders, [signal |-> s, filled |-> 0, open |-> TRUE])
    /\ desk' = [desk EXCEPT ![u].pc = "sent", ![u].sig = {s}, ![u].order = Len(orders) + 1]
    /\ UNCHANGED <<signal, writer, faults, procVars, syncVars>>

MarkPlaced(u) ==
    /\ desk[u].pc = "sent"
    /\ Holds(u)
    /\ writer' = u
    /\ desk' = [desk EXCEPT ![u].pc = "work", ![u].todo = @ \ desk[u].sig,
                            ![u].marks = Marks(u, desk[u].sig, "PLACED", desk[u].order),
                            ![u].sig = {}, ![u].order = NoOrder]
    /\ UNCHANGED <<signal, orders, faults, procVars, syncVars>>

\* Mutant: the UPDATE sets the order id to whatever it was given.
Stored_NoCoalesce(s, m) == m

\* COALESCE keeps an order id that the statement does not set.
Stored(s, m) == [m EXCEPT !.order = IF @ = NoOrder THEN signal[s].order ELSE @]

CommitBatch(u) ==
    /\ desk[u].pc = "work"
    /\ desk[u].todo = {}
    /\ Holds(u)
    /\ signal' = [s \in Signals |-> IF s \in DOMAIN desk[u].marks
                                    THEN Stored(s, desk[u].marks[s]) ELSE signal[s]]
    /\ desk' = [desk EXCEPT ![u] = Idle]
    /\ writer' = Free
    /\ UNCHANGED <<orders, faults, procVars, syncVars>>

\* Another connection keeps the file for more than 30 s, or the API dies:
\* the transaction is rolled back, orders already sent stay sent.
AbortBatch(u) ==
    /\ desk[u].pc # "idle"
    /\ Fault
    /\ desk' = [desk EXCEPT ![u] = Idle]
    /\ writer' = IF writer = u THEN Free ELSE writer
    /\ UNCHANGED <<signal, orders, procVars, syncVars>>

\* reject() marks whatever ids the page sent, also those that have been
\* placed since the page was loaded.
Reject(s) ==
    /\ writer = Free
    /\ signal[s].status # "REJECTED"
    /\ signal' = [signal EXCEPT ![s] = Stored(s, [status |-> "REJECTED", order |-> NoOrder])]
    /\ UNCHANGED <<orders, desk, writer, faults, procVars, syncVars>>

(***************************************************************************)
(* The broker.                                                             *)
(***************************************************************************)

BrokerFills(o) ==
    /\ orders[o].open
    /\ orders' = [orders EXCEPT ![o].filled = @ + 1, ![o].open = orders[o].filled + 1 < Qty]
    /\ UNCHANGED <<signal, desk, writer, faults, procVars, syncVars>>

BrokerExpires(o) ==
    /\ orders[o].open
    /\ Fault
    /\ orders' = [orders EXCEPT ![o].open = FALSE]
    /\ UNCHANGED <<signal, desk, writer, procVars, syncVars>>

\* Net shares of the account.
Signed(o) == IF orders[o].signal \in Opens THEN orders[o].filled ELSE -orders[o].filled
Held == MapThenSumSet(Signed, DOMAIN orders)

(***************************************************************************)
(* Start, stop and status of the two detached processes.                   *)
(***************************************************************************)

\* _spawn_detached: a pid nobody had before.
Spawn(kind) ==
    /\ spawned[kind] < MaxStarts
    /\ spawned' = [spawned EXCEPT ![kind] = @ + 1]
    /\ live' = [live EXCEPT ![kind] = @ \cup {spawned[kind] + 1}]

\* Mutant: a stale row is cleared as stop() clears it.
Reconciled_ClearsPids(r) == [r EXCEPT !.status = "stopped", !.pid = NoPid]

\* The row status() writes back when it says running and its pid is dead.
Reconciled(r) == [r EXCEPT !.status = "stopped"]

\* start(): status(), a refusal when the recorded engine is alive, and the
\* recorded sync process when that is alive.
StartReads(c) ==
    /\ oper[c].pc = "idle"
    /\ row.pid \notin live.engine
    /\ oper' = [oper EXCEPT ![c] = [pc |-> "sync", pid |-> NoPid,
                    sync |-> IF row.sync \in live.sync THEN row.sync ELSE NoPid]]
    /\ row' = IF row.status = "running" THEN Reconciled(row) ELSE row
    /\ writer = Free
    /\ UNCHANGED <<deskVars, writer, faults, live, spawned, poll, syncVars>>

StartSync(c) ==
    /\ oper[c].pc = "sync"
    /\ IF oper[c].sync = NoPid
       THEN /\ Spawn("sync")
            /\ oper' = [oper EXCEPT ![c].pc = "engine", ![c].sync = spawned["sync"] + 1]
       ELSE /\ oper' = [oper EXCEPT ![c].pc = "engine"]
            /\ UNCHANGED <<live, spawned>>
    /\ UNCHANGED <<deskVars, writer, faults, row, poll, syncVars>>

StartEngine(c) ==
    /\ oper[c].pc = "engine"
    /\ Spawn("engine")
    /\ oper' = [oper EXCEPT ![c].pc = "record", ![c].pid = spawned["engine"] + 1]
    /\ UNCHANGED <<deskVars, writer, faults, row, poll, syncVars>>

StartRecords(c) ==
    /\ oper[c].pc = "record"
    /\ writer = Free
    /\ row' = [status |-> "running", pid |-> oper[c].pid, sync |-> oper[c].sync]
    /\ oper' = [oper EXCEPT ![c] = [pc |-> "idle", pid |-> NoPid, sync |-> NoPid]]
    /\ UNCHANGED <<deskVars, writer, faults, live, spawned, poll, syncVars>>

StopReads(c) ==
    /\ oper[c].pc = "idle"
    /\ {row.pid, row.sync} # {NoPid}      \* a stop of nothing changes no process
    /\ writer = Free
    /\ oper' = [oper EXCEPT ![c] = [pc |-> "kill", pid |-> row.pid, sync |-> row.sync]]
    /\ row' = IF row.pid \notin live.engine THEN Reconciled(row) ELSE row
    /\ UNCHANGED <<deskVars, writer, faults, live, spawned, poll, syncVars>>

\* A sync process that dies takes its connection with it.
SyncGone(P) ==
    /\ tick' = [p \in Pids |-> IF p \in P THEN NoTick ELSE tick[p]]
    /\ writer' = IF writer \in P THEN Free ELSE writer

StopKills(c) ==
    /\ oper[c].pc = "kill"
    /\ live' = [engine |-> live.engine \ {oper[c].pid}, sync |-> live.sync \ {oper[c].sync}]
    /\ SyncGone({oper[c].sync})
    /\ oper' = [oper EXCEPT ![c].pc = "clear"]
    /\ UNCHANGED <<deskVars, faults, row, spawned, poll, table>>

StopRecords(c) ==
    /\ oper[c].pc = "clear"
    /\ writer = Free
    /\ row' = [status |-> "stopped", pid |-> NoPid, sync |-> NoPid]
    /\ oper' = [oper EXCEPT ![c] = [pc |-> "idle", pid |-> NoPid, sync |-> NoPid]]
    /\ UNCHANGED <<deskVars, writer, faults, live, spawned, poll, syncVars>>

\* GET /engine/status: the row is read, and corrected in a second statement.
PollReads(c) ==
    /\ poll[c] = "idle"
    /\ row.status = "running" /\ row.pid \notin live.engine
    /\ poll' = [poll EXCEPT ![c] = "update"]
    /\ UNCHANGED <<deskVars, writer, faults, row, live, spawned, oper, syncVars>>

PollUpdates(c) ==
    /\ poll[c] = "update"
    /\ writer = Free
    /\ row' = Reconciled(row)
    /\ poll' = [poll EXCEPT ![c] = "idle"]
    /\ UNCHANGED <<deskVars, writer, faults, live, spawned, oper, syncVars>>

\* The daemon leaves its loop on a signal and says so in the row, or it dies.
EngineEnds(p, clean) ==
    /\ p \in live.engine
    /\ Fault
    /\ clean => writer = Free
    /\ live' = [live EXCEPT !.engine = @ \ {p}]
    /\ row' = IF clean THEN [row EXCEPT !.status = "stopped"] ELSE row
    /\ UNCHANGED <<deskVars, writer, spawned, oper, poll, syncVars>>

SyncDies(p) ==
    /\ p \in live.sync
    /\ Fault
    /\ live' = [live EXCEPT !.sync = @ \ {p}]
    /\ SyncGone({p})
    /\ UNCHANGED <<deskVars, row, spawned, oper, poll, table>>

(***************************************************************************)
(* The sync loop.                                                          *)
(***************************************************************************)

\* The module can also be run by hand, beside the process of start().
SyncByHand ==
    /\ Fault
    /\ Spawn("sync")
    /\ UNCHANGED <<deskVars, writer, row, oper, poll, syncVars>>

\* Mutant: the account row is written last, so the reads take no lock.
TickBegins_ReadsFirst(p) ==
    /\ p \in live.sync
    /\ tick[p].pc = "wait"
    /\ tick' = [tick EXCEPT ![p].pc = "positions"]
    /\ UNCHANGED <<deskVars, writer, procVars, table, faults>>

\* The account row is written first: the file is this process's from here
\* to the commit, while the broker is asked for the rest.
TickBegins(p) ==
    /\ p \in live.sync
    /\ tick[p].pc = "wait"
    /\ writer = Free
    /\ writer' = p
    /\ tick' = [tick EXCEPT ![p].pc = "positions"]
    /\ UNCHANGED <<deskVars, procVars, table, faults>>

TickPositions(p) ==
    /\ tick[p].pc = "positions"
    /\ tick' = [tick EXCEPT ![p].pc = "orders", ![p].held = Held]
    /\ UNCHANGED <<deskVars, writer, procVars, table, faults>>

TickOrders(p) ==
    /\ tick[p].pc = "orders"
    /\ tick' = [tick EXCEPT ![p].pc = "commit", ![p].rows =
                    [o \in OrderIds |-> IF o \in DOMAIN orders THEN orders[o].filled ELSE NoRow]]
    /\ UNCHANGED <<deskVars, writer, procVars, table, faults>>

\* Mutant: INSERT OR IGNORE, as for the fills.
UpsertOrder_Ignore(o, seen) == IF table.rows[o] = NoRow THEN seen ELSE table.rows[o]

\* upsert_order: what the broker says replaces what the row said.
UpsertOrder(o, seen) == IF seen = NoRow THEN table.rows[o] ELSE seen

\* insert_fill: one row per order, under an id made of the order's; the
\* first one stays.
InsertFill(o, seen) ==
    IF table.fills[o] = NoRow /\ seen > 0 THEN seen ELSE table.fills[o]

\* replace_positions_snapshot: a flat account writes no row.
InsertPositions(seen) == IF seen = 0 THEN table.held ELSE seen

TickCommits(p) ==
    /\ tick[p].pc = "commit"
    /\ Holds(p)
    /\ table' = [rows  |-> [o \in OrderIds |-> UpsertOrder(o, tick[p].rows[o])],
                 fills |-> [o \in OrderIds |-> InsertFill(o, tick[p].rows[o])],
                 held  |-> InsertPositions(tick[p].held)]
    /\ tick' = [tick EXCEPT ![p] = NoTick]
    /\ writer' = Free
    /\ UNCHANGED <<deskVars, procVars, faults>>

\* A call to the broker fails: rollback, and a new session at the next tick.
TickFails(p) ==
    /\ tick[p].pc # "wait"
    /\ Fault
    /\ SyncGone({p})
    /\ UNCHANGED <<deskVars, procVars, table>>

\* What the dashboard shows: the order rows, and the position rows of the
\* newest snapshot that has any.
GetOrders == table.rows
GetPositions == table.held

(***************************************************************************)
(* Next, Spec.                                                             *)
(***************************************************************************)

DeskStep(u) ==
    \/ MarkPlaced(u)
    \/ CommitBatch(u)
    \/ \E s \in Signals : Submit(u, s)

SyncStep(p) == TickBegins(p) \/ TickPositions(p) \/ TickOrders(p) \/ TickCommits(p)

OperatorStep(c) == StartSync(c) \/ StartEngine(c) \/ StartRecords(c) \/ StopKills(c) \/ StopRecords(c)

Next ==
    \/ \E u \in Users : \/ DeskStep(u)
                         \/ AbortBatch(u)
                         \/ \E ids \in SUBSET Signals : ListPending(u, ids)
                         \/ \E s \in Signals : Refuse(u, s)
    \/ \E s \in Signals : Reject(s)
    \/ \E o \in DOMAIN orders : BrokerFills(o) \/ BrokerExpires(o)
    \/ \E c \in Operators : OperatorStep(c) \/ StartReads(c) \/ StopReads(c)
    \/ \E c \in Pollers : PollReads(c) \/ PollUpdates(c)
    \/ \E p \in Pids : \/ SyncStep(p)
                        \/ TickFails(p)
                        \/ SyncDies(p)
                        \/ \E clean \in BOOLEAN : EngineEnds(p, clean)
    \/ SyncByHand

\* The processes run on, so do calls that were made; people, the broker's
\* fills and failures are free to come or not.
Fairness ==
    /\ \A u \in Users : WF_vars(DeskStep(u))
    /\ \A c \in Operators : WF_vars(OperatorStep(c))
    /\ \A c \in Pollers : WF_vars(PollUpdates(c))
    /\ \A p \in Pids : SF_vars(TickBegins(p)) /\ WF_vars(SyncStep(p))

Spec == Init /\ [][Next]_vars /\ Fairness

(***************************************************************************)
(* Properties.                                                             *)
(***************************************************************************)

\* Types, and the write lock: who holds the file has a transaction open.
Filled == NoRow..Qty
TypeOK ==
    /\ signal \in [Signals -> [status : {"PENDING_APPROVAL", "PLACED", "REJECTED"},
                               order : {NoOrder} \cup OrderIds]]
    /\ \A o \in DOMAIN orders : o \in OrderIds /\ orders[o].filled \in 0..Qty
    /\ row \in [status : {"stopped", "running"}, pid : {NoPid} \cup Pids, sync : {NoPid} \cup Pids]
    /\ live \in [engine : SUBSET Pids, sync : SUBSET Pids]
    /\ table.rows \in [OrderIds -> Filled] /\ table.fills \in [OrderIds -> Filled]
    /\ writer \in Users => desk[writer].pc # "idle"
    /\ writer \in Pids => writer \in live.sync /\ tick[writer].pc # "wait"
    /\ \A u \in Users : desk[u].marks # NoMarks => writer = u
    /\ \A p \in Pids : tick[p].pc # "wait" => writer = p

\* An engine that exists is the recorded one, or its start() is about to
\* record it: stop() finds it, and start() will not spawn a second one.
\* Pollers that correct a stale row come at any moment in between.
EnginesAreRecorded ==
    \A p \in live.engine : row.pid = p \/ \E c \in Operators : oper[c].pid = p

\* The row of an order never goes back and never runs ahead of the broker,
\* and the fill recorded for it never exceeds it, whichever sync processes
\* poll at the same time.
RowsTrailBroker ==
    [][\A o \in OrderIds :
        /\ table'.rows[o] >= table.rows[o]
        /\ table'.rows[o] # NoRow => table'.rows[o] <= orders'[o].filled
        /\ table'.fills[o] <= table'.rows[o]]_vars

\* A signal that has been linked to an order stays linked to one: what a
\* later reject() or a rolled back batch does, the order can be found.
LinksStay ==
    [][\A s \in Signals : signal[s].order # NoOrder => signal'[s].order # NoOrder]_vars

\* As long as some sync process runs, the dashboard ends up showing the
\* broker's orders and, unless the account is flat, its position.
DashboardCatchesUp ==
    <>[](live.sync = {} \/ /\ \A o \in DOMAIN orders : GetOrders[o] = orders[o].filled
                           /\ Held # 0 => GetPositions = Held)
=============================================================================
