-------------------------- MODULE AlpacaDeskProofs --------------------------
(***************************************************************************)
(* Three promises of the Alpaca desk, for any number of approvers,         *)
(* signals, orders, sync processes, faults and polls: the order rows trail *)
(* the broker, a running engine is on record if one person at a time       *)
(* starts and stops it, and a signal keeps the order it is linked to.      *)
(*                                                                         *)
(* The first one rests on the write lock: a tick holds it from its first   *)
(* write to its commit, so what it has seen of the orders is never older   *)
(* than the rows it replaces.  The second follows where start and stop     *)
(* stand, whatever pollers write into the row in between.                  *)
(***************************************************************************)
EXTENDS AlpacaDesk, TLAPS

Order == [signal : Signals, filled : Nat, open : BOOLEAN]

\* A number of filled shares that order o once had, or no row.
Trails(n, o) == n = NoRow \/ (n \in Nat /\ o \in DOMAIN orders /\ n <= orders[o].filled)

TickOK(t) ==
    /\ t = [pc |-> t.pc, held |-> t.held, rows |-> t.rows]
    /\ t.pc \in {"wait", "positions", "orders", "commit"} /\ t.rows \in [OrderIds -> Int]

StateOK ==
    /\ orders \in Seq(Order)
    /\ tick = [p \in Pids |-> tick[p]] /\ \A p \in Pids : TickOK(tick[p])
    /\ table = [rows |-> table.rows, fills |-> table.fills, held |-> table.held]
    /\ table.rows \in [OrderIds -> Int] /\ table.fills \in [OrderIds -> Int]

Locked == \A p \in Pids : tick[p].pc # "wait" => writer = p

TableTrails ==
    \A o \in OrderIds : /\ Trails(table.rows[o], o)
                        /\ NoRow <= table.fills[o] /\ table.fills[o] <= table.rows[o]

\* What a tick is about to commit is as new as what is there.
SeenTrails ==
    \A p \in Pids : tick[p].pc = "commit" =>
        \A o \in OrderIds : Trails(tick[p].rows[o], o) /\ table.rows[o] <= tick[p].rows[o]

RowsInv == StateOK /\ Locked /\ TableTrails /\ SeenTrails

-----------------------------------------------------------------------------
(***************************************************************************)
(* The rows.                                                               *)
(***************************************************************************)
LEMMA PidsAreNaturals == Pids \subseteq Nat \ {0} /\ OrderIds \subseteq Nat
BY DeskAssumption DEF Pids, OrderIds

LEMMA FilledIsNatural ==
  ASSUME NEW os \in Seq(Order), NEW i \in DOMAIN os
  PROVE  os[i] \in Order /\ os[i].filled \in Nat
<1>1. os[i] \in Order
  OBVIOUS
<1> QED
  BY <1>1 DEF Order

\* Orders are only added and filled.
Grows ==
    /\ orders' \in Seq(Order)
    /\ \A o \in DOMAIN orders : o \in DOMAIN orders' /\ orders'[o].filled >= orders[o].filled

LEMMA TrailsStays ==
  ASSUME Grows, orders \in Seq(Order), NEW n, NEW o, Trails(n, o)
  PROVE  n = NoRow \/ (n \in Nat /\ o \in DOMAIN orders' /\ n <= orders'[o].filled)
<1>1. CASE n = NoRow
  BY <1>1
<1>2. CASE n \in Nat /\ o \in DOMAIN orders /\ n <= orders[o].filled
  <2>1. o \in DOMAIN orders' /\ orders'[o].filled >= orders[o].filled
    BY <1>2 DEF Grows
  <2>2. orders[o].filled \in Nat /\ orders'[o].filled \in Nat
    BY <1>2, <2>1, FilledIsNatural DEF Grows
  <2> QED
    BY <1>2, <2>1, <2>2
<1> QED
  BY <1>1, <1>2 DEF Trails

\* A step of somebody who is not a sync process.
LEMMA Bystander ==
  ASSUME RowsInv, UNCHANGED syncVars, Grows, writer' = writer \/ writer \notin Pids
  PROVE  RowsInv'
<1>1. UNCHANGED <<tick, table>>
  BY DEF syncVars
<1>2. StateOK'
  BY <1>1 DEF RowsInv, StateOK, Grows, TickOK
<1>3. Locked'
  BY <1>1 DEF RowsInv, Locked
<1>4. ASSUME NEW n, NEW o, Trails(n, o)
      PROVE  n = NoRow \/ (n \in Nat /\ o \in DOMAIN orders' /\ n <= orders'[o].filled)
  BY <1>4, TrailsStays DEF RowsInv, StateOK
<1>5. TableTrails' /\ SeenTrails'
  BY <1>1, <1>4 DEF RowsInv, TableTrails, SeenTrails, Trails
<1> QED
  BY <1>2, <1>3, <1>5 DEF RowsInv

LEMMA SameOrders ==
  ASSUME orders \in Seq(Order), UNCHANGED orders
  PROVE  Grows
<1>1. ASSUME NEW o \in DOMAIN orders PROVE orders[o].filled \in Nat
  BY FilledIsNatural
<1> QED
  BY <1>1 DEF Grows

\* The steps of the approvers.
LEMMA DeskKeepsRows ==
  ASSUME RowsInv, NEW u \in Users,
         \/ DeskStep(u) \/ AbortBatch(u)
         \/ \E ids \in SUBSET Signals : ListPending(u, ids)
         \/ \E s \in Signals : Refuse(u, s)
  PROVE  RowsInv' /\ table' = table
<1>1. UNCHANGED syncVars
  BY DEF DeskStep, MarkPlaced, CommitBatch, Submit, AbortBatch, ListPending, Refuse
<1>2. orders \in Seq(Order) /\ u \notin {Free} \cup Pids /\ Free \notin Pids
  BY DeskAssumption, PidsAreNaturals DEF RowsInv, StateOK, Free
<1>3. writer' = writer \/ writer \notin Pids
  BY <1>2 DEF DeskStep, MarkPlaced, CommitBatch, Submit, AbortBatch, ListPending, Refuse, Holds
<1>4. Grows
  <2>1. ASSUME NEW s \in Signals, Submit(u, s) PROVE Grows
    <3>1. PICK new \in Order : new = [signal |-> s, filled |-> 0, open |-> TRUE]
      BY DEF Order
    <3>2. orders' = Append(orders, new)
      BY <2>1, <3>1 DEF Submit
    <3>3. orders' \in Seq(Order) /\ \A o \in DOMAIN orders : o \in DOMAIN orders' /\ orders'[o] = orders[o]
      BY <1>2, <3>2
    <3>4. \A o \in DOMAIN orders : orders[o].filled \in Nat
      BY <1>2, FilledIsNatural
    <3> QED
      BY <3>3, <3>4 DEF Grows
  <2>2. CASE UNCHANGED orders
    BY <1>2, <2>2, SameOrders
  <2> QED
    BY <2>1, <2>2 DEF DeskStep, MarkPlaced, CommitBatch, AbortBatch, ListPending, Refuse
<1> QED
  BY <1>1, <1>3, <1>4, Bystander DEF syncVars

LEMMA RejectKeepsRows ==
  ASSUME RowsInv, NEW s \in Signals, Reject(s)
  PROVE  RowsInv' /\ table' = table
<1>1. UNCHANGED syncVars /\ UNCHANGED orders /\ writer' = writer
  BY DEF Reject
<1> QED
  BY <1>1, SameOrders, Bystander DEF syncVars, RowsInv, StateOK

LEMMA BrokerKeepsRows ==
  ASSUME RowsInv, NEW o \in DOMAIN orders, BrokerFills(o) \/ BrokerExpires(o)
  PROVE  RowsInv' /\ table' = table
<1>1. UNCHANGED syncVars /\ writer' = writer
  BY DEF BrokerFills, BrokerExpires
<1>2. orders \in Seq(Order) /\ orders[o] \in Order
  BY DEF RowsInv, StateOK
<1>3. PICK r : r = orders[o] /\ r \in Order /\ r.filled \in Nat
  BY <1>2, FilledIsNatural
<1>4. PICK n \in Nat, b \in BOOLEAN :
        n >= r.filled /\ orders' = [orders EXCEPT ![o] = [r EXCEPT !.filled = n, !.open = b]]
  <2>1. CASE BrokerFills(o)
    <3>1. PICK n, b : n = r.filled + 1 /\ b = (n < Qty)
      OBVIOUS
    <3>2. orders' = [orders EXCEPT ![o] = [r EXCEPT !.filled = n, !.open = b]]
      BY <1>3, <2>1, <3>1 DEF BrokerFills
    <3>3. n \in Nat /\ n >= r.filled
      BY <1>3, <3>1
    <3>4. b \in BOOLEAN
      <4>1. (n < Qty) \in BOOLEAN
        OBVIOUS
      <4> QED
        BY <3>1, <4>1, Zenon
    <3> QED
      BY <3>2, <3>3, <3>4
  <2>2. CASE BrokerExpires(o)
    <3>1. [r EXCEPT !.open = FALSE] = [r EXCEPT !.filled = r.filled, !.open = FALSE]
      BY <1>3 DEF Order
    <3>2. orders' = [orders EXCEPT ![o] = [r EXCEPT !.open = FALSE]]
      BY <1>3, <2>2 DEF BrokerExpires
    <3>3. r.filled \in Nat /\ FALSE \in BOOLEAN /\ r.filled >= r.filled
      BY <1>3
    <3>4. orders' = [orders EXCEPT ![o] = [r EXCEPT !.filled = r.filled, !.open = FALSE]]
      BY <3>1, <3>2
    <3> QED
      BY <3>3, <3>4, Zenon
  <2> QED
    BY <2>1, <2>2
<1>5. PICK new \in Order : new.filled >= orders[o].filled /\ orders' = [orders EXCEPT ![o] = new]
  <2>1. [r EXCEPT !.filled = n, !.open = b] \in Order
    BY <1>3, <1>4 DEF Order
  <2>2. [r EXCEPT !.filled = n, !.open = b].filled = n
    BY <1>3 DEF Order
  <2> QED
    BY <1>3, <1>4, <2>1, <2>2
<1>6. ASSUME NEW x \in DOMAIN orders PROVE orders[x].filled \in Nat
  BY <1>2, FilledIsNatural
<1>7. orders' \in Seq(Order) /\ DOMAIN orders' = DOMAIN orders
  BY <1>2, <1>5
<1>8. Grows
  <2>1. \A x \in DOMAIN orders : orders'[x] = IF x = o THEN new ELSE orders[x]
    BY <1>2, <1>5
  <2> QED
    BY <1>5, <1>6, <1>7, <2>1 DEF Grows
<1> QED
  BY <1>1, <1>8, Bystander DEF syncVars

-----------------------------------------------------------------------------
\* Sync processes that end, or fail, lose their transaction and the lock.
LEMMA SyncGoneKeepsRows ==
  ASSUME RowsInv, NEW P, SyncGone(P), UNCHANGED <<orders, table>>
  PROVE  RowsInv'
<1>1. /\ tick' = [p \in Pids |-> IF p \in P THEN NoTick ELSE tick[p]]
      /\ writer' = IF writer \in P THEN Free ELSE writer
  BY DEF SyncGone
<1>2. TickOK(NoTick) /\ NoTick.pc = "wait"
  BY DEF TickOK, NoTick, Blank, NoRow
<1>3. \A p \in Pids : tick'[p] = (IF p \in P THEN NoTick ELSE tick[p])
  BY <1>1
<1>4. StateOK'
  <2>1. \A p \in Pids : TickOK(tick'[p])
    BY <1>2, <1>3 DEF RowsInv, StateOK
  <2>2. tick' = [p \in Pids |-> tick'[p]]
    BY <1>1
  <2> QED
    BY <2>1, <2>2 DEF RowsInv, StateOK, TickOK
<1>5. Locked'
  BY <1>1, <1>2, <1>3 DEF RowsInv, Locked
<1>6. TableTrails'
  BY DEF RowsInv, TableTrails, Trails
<1>7. SeenTrails'
  BY <1>2, <1>3 DEF RowsInv, SeenTrails, Trails
<1> QED
  BY <1>4, <1>5, <1>6, <1>7 DEF RowsInv

\* The steps of the people who start, stop and look, and of the processes
\* they do not control.
LEMMA ProcessesKeepRows ==
  ASSUME RowsInv,
         \/ \E c \in Operators : OperatorStep(c) \/ StartReads(c) \/ StopReads(c)
         \/ \E c \in Pollers : PollReads(c) \/ PollUpdates(c)
         \/ \E p \in Pids, clean \in BOOLEAN : EngineEnds(p, clean)
         \/ SyncByHand
         \/ \E p \in Pids : TickFails(p) \/ SyncDies(p)
  PROVE  RowsInv' /\ table' = table
<1>1. CASE \E P : SyncGone(P) /\ UNCHANGED <<orders, table>>
  BY <1>1, SyncGoneKeepsRows
<1>2. CASE UNCHANGED <<syncVars, orders, writer>>
  BY <1>2, SameOrders, Bystander DEF syncVars, RowsInv, StateOK
<1> QED
  BY <1>1, <1>2 DEF OperatorStep, StartSync, StartEngine, StartRecords, StopKills, StopRecords,
     StartReads, StopReads, PollReads, PollUpdates, EngineEnds, SyncByHand, TickFails, SyncDies, deskVars

-----------------------------------------------------------------------------
(***************************************************************************)
(* The tick.                                                               *)
(***************************************************************************)
\* A tick that starts, or goes on, before it has seen the orders.
LEMMA TickMoves ==
  ASSUME RowsInv, NEW p \in Pids, NEW t, TickOK(t), tick' = [tick EXCEPT ![p] = t],
         UNCHANGED <<orders, table>>, writer' = p, writer \in {Free, p},
         t.pc = "commit" => \A o \in OrderIds : Trails(t.rows[o], o) /\ table.rows[o] <= t.rows[o]
  PROVE  RowsInv'
<1>1. tick = [q \in Pids |-> tick[q]]
  BY DEF RowsInv, StateOK
<1>2. /\ tick' = [q \in Pids |-> tick'[q]]
      /\ \A q \in Pids : tick'[q] = IF q = p THEN t ELSE tick[q]
  BY <1>1
<1>3. StateOK'
  <2>1. \A q \in Pids : TickOK(tick'[q])
    BY <1>2 DEF RowsInv, StateOK
  <2> QED
    BY <1>2, <2>1 DEF RowsInv, StateOK, TickOK
<1>4. Locked'
  <2>1. \A q \in Pids \ {p} : tick[q].pc = "wait"
    BY PidsAreNaturals DEF RowsInv, Locked, Free
  <2> QED
    BY <1>2, <2>1 DEF Locked
<1>5. TableTrails'
  BY DEF RowsInv, TableTrails, Trails
<1>6. SeenTrails'
  BY <1>2 DEF RowsInv, SeenTrails, Trails
<1> QED
  BY <1>3, <1>4, <1>5, <1>6 DEF RowsInv

LEMMA TickBeginsKeepsRows ==
  ASSUME RowsInv, NEW p \in Pids, TickBegins(p)
  PROVE  RowsInv' /\ table' = table
<1>1. PICK t : t = [tick[p] EXCEPT !.pc = "positions"]
  OBVIOUS
<1>2. TickOK(tick[p])
  BY DEF RowsInv, StateOK
<1>3. TickOK(t) /\ t.pc = "positions"
  BY <1>1, <1>2 DEF TickOK
<1>4. tick' = [tick EXCEPT ![p] = t] /\ writer' = p /\ writer = Free /\ UNCHANGED <<orders, table>>
  BY <1>1 DEF TickBegins, deskVars
<1> QED
  BY <1>3, <1>4, TickMoves

LEMMA TickPositionsKeepsRows ==
  ASSUME RowsInv, NEW p \in Pids, TickPositions(p)
  PROVE  RowsInv' /\ table' = table
<1>1. PICK t, held : held = Held /\ t = [tick[p] EXCEPT !.pc = "orders", !.held = held]
  OBVIOUS
<1>2. TickOK(tick[p]) /\ writer = p
  BY DEF RowsInv, StateOK, Locked, TickPositions
<1>3. TickOK(t) /\ t.pc = "orders"
  BY <1>1, <1>2 DEF TickOK
<1>4. tick' = [tick EXCEPT ![p] = t] /\ writer' = p /\ UNCHANGED <<orders, table>>
  BY <1>1, <1>2 DEF TickPositions, deskVars
<1> QED
  BY <1>2, <1>3, <1>4, TickMoves

\* What the broker answers is at least what it answered before.
LEMMA TickOrdersKeepsRows ==
  ASSUME RowsInv, NEW p \in Pids, TickOrders(p)
  PROVE  RowsInv' /\ table' = table
<1>1. PICK t, seen : /\ seen = [o \in OrderIds |-> IF o \in DOMAIN orders THEN orders[o].filled ELSE NoRow]
                     /\ t = [tick[p] EXCEPT !.pc = "commit", !.rows = seen]
  OBVIOUS
<1>2. TickOK(tick[p]) /\ writer = p /\ orders \in Seq(Order)
  BY DEF RowsInv, StateOK, Locked, TickOrders
<1>3. \A o \in DOMAIN orders : orders[o].filled \in Nat
  BY <1>2, FilledIsNatural
<1>4. seen \in [OrderIds -> Int]
  BY <1>1, <1>3 DEF NoRow
<1>5. TickOK(t) /\ t.pc = "commit" /\ t.rows = seen
  BY <1>1, <1>2, <1>4 DEF TickOK
<1>6. tick' = [tick EXCEPT ![p] = t] /\ writer' = p /\ UNCHANGED <<orders, table>>
  BY <1>1, <1>2 DEF TickOrders, deskVars
<1>7. ASSUME NEW o \in OrderIds PROVE Trails(seen[o], o) /\ table.rows[o] <= seen[o]
  <2>1. Trails(table.rows[o], o)
    BY DEF RowsInv, TableTrails
  <2>2. seen[o] = IF o \in DOMAIN orders THEN orders[o].filled ELSE NoRow
    BY <1>1
  <2> QED
    BY <1>3, <2>1, <2>2 DEF Trails, NoRow
<1> QED
  BY <1>2, <1>5, <1>6, <1>7, TickMoves

LEMMA TickCommitsKeepsRows ==
  ASSUME RowsInv, NEW p \in Pids, TickCommits(p)
  PROVE  RowsInv' /\ \A o \in OrderIds : table'.rows[o] >= table.rows[o]
<1>1. PICK seen : seen = tick[p].rows
  OBVIOUS
<1>2. /\ tick = [q \in Pids |-> tick[q]] /\ \A q \in Pids : TickOK(tick[q])
      /\ writer = p /\ tick[p].pc = "commit" /\ seen \in [OrderIds -> Int]
      /\ table.rows \in [OrderIds -> Int] /\ table.fills \in [OrderIds -> Int]
      /\ \A o \in OrderIds : Trails(seen[o], o) /\ table.rows[o] <= seen[o]
      /\ TableTrails
  BY <1>1 DEF RowsInv, StateOK, Locked, SeenTrails, TickOK, TickCommits
<1>3. /\ table' = [rows  |-> [o \in OrderIds |-> UpsertOrder(o, seen[o])],
                   fills |-> [o \in OrderIds |-> InsertFill(o, seen[o])],
                   held  |-> InsertPositions(tick[p].held)]
      /\ tick' = [tick EXCEPT ![p] = NoTick] /\ writer' = Free /\ orders' = orders
  BY <1>1 DEF TickCommits, deskVars
<1>4. ASSUME NEW o \in OrderIds
      PROVE  /\ UpsertOrder(o, seen[o]) \in Int /\ InsertFill(o, seen[o]) \in Int
             /\ table.rows[o] <= UpsertOrder(o, seen[o]) /\ Trails(UpsertOrder(o, seen[o]), o)
             /\ NoRow <= InsertFill(o, seen[o]) /\ InsertFill(o, seen[o]) <= UpsertOrder(o, seen[o])
  <2>1. /\ Trails(seen[o], o) /\ table.rows[o] <= seen[o] /\ seen[o] \in Int
        /\ table.rows[o] \in Int /\ table.fills[o] \in Int
        /\ Trails(table.rows[o], o) /\ NoRow <= table.fills[o] /\ table.fills[o] <= table.rows[o]
    BY <1>2 DEF TableTrails
  <2>2. NoRow = -1
    BY DEF NoRow
  <2>3. UpsertOrder(o, seen[o]) = seen[o]
    BY <2>1, <2>2 DEF UpsertOrder, Trails
  <2> QED
    BY <2>1, <2>2, <2>3 DEF InsertFill
<1>5. /\ table'.rows \in [OrderIds -> Int] /\ table'.fills \in [OrderIds -> Int]
      /\ table' = [rows |-> table'.rows, fills |-> table'.fills, held |-> table'.held]
      /\ \A o \in OrderIds : table'.rows[o] = UpsertOrder(o, seen[o]) /\ table'.fills[o] = InsertFill(o, seen[o])
  BY <1>3, <1>4
<1>6. TickOK(NoTick) /\ NoTick.pc = "wait"
  BY DEF TickOK, NoTick, Blank, NoRow
<1>7. /\ tick' = [q \in Pids |-> tick'[q]]
      /\ \A q \in Pids : tick'[q] = IF q = p THEN NoTick ELSE tick[q]
  BY <1>2, <1>3
<1>8. \A q \in Pids : tick'[q].pc = "wait"
  BY <1>2, <1>6, <1>7 DEF RowsInv, Locked
<1>9. StateOK'
  <2>1. \A q \in Pids : TickOK(tick'[q])
    BY <1>2, <1>6, <1>7
  <2> QED
    BY <1>3, <1>5, <1>7, <2>1 DEF RowsInv, StateOK, TickOK
<1>10. Locked' /\ SeenTrails'
  BY <1>8 DEF Locked, SeenTrails
<1>11. TableTrails'
  BY <1>3, <1>4, <1>5 DEF TableTrails, Trails
<1>12. \A o \in OrderIds : table'.rows[o] >= table.rows[o]
  <2>1. SUFFICES ASSUME NEW o \in OrderIds PROVE table'.rows[o] >= table.rows[o]
    OBVIOUS
  <2>2. table'.rows[o] \in Int /\ table.rows[o] \in Int /\ table.rows[o] <= table'.rows[o]
    BY <1>2, <1>4, <1>5
  <2> QED
    BY <2>2
<1> QED
  BY <1>9, <1>10, <1>11, <1>12 DEF RowsInv

-----------------------------------------------------------------------------
LEMMA StartRows == Init => RowsInv
<1> SUFFICES ASSUME Init PROVE RowsInv
  OBVIOUS
<1>1. orders \in Seq(Order) /\ tick = [p \in Pids |-> NoTick] /\ table = [rows |-> Blank, fills |-> Blank, held |-> NoRow]
  BY DEF Init
<1>2. TickOK(NoTick) /\ NoTick.pc = "wait" /\ Blank \in [OrderIds -> Int] /\ \A o \in OrderIds : Blank[o] = NoRow
  BY DEF TickOK, NoTick, Blank, NoRow
<1>3. StateOK
  BY <1>1, <1>2 DEF StateOK
<1>4. Locked /\ SeenTrails
  BY <1>1, <1>2 DEF Locked, SeenTrails
<1>5. TableTrails
  BY <1>1, <1>2 DEF TableTrails, Trails, NoRow
<1> QED
  BY <1>3, <1>4, <1>5 DEF RowsInv

LEMMA RowsStep ==
  ASSUME RowsInv, [Next]_vars
  PROVE  RowsInv' /\ (table' = table \/ \A o \in OrderIds : table'.rows[o] >= table.rows[o])
<1>1. ASSUME NEW u \in Users,
             \/ DeskStep(u) \/ AbortBatch(u)
             \/ \E ids \in SUBSET Signals : ListPending(u, ids)
             \/ \E s \in Signals : Refuse(u, s)
      PROVE  RowsInv' /\ table' = table
  BY <1>1, DeskKeepsRows
<1>2. ASSUME NEW s \in Signals, Reject(s) PROVE RowsInv' /\ table' = table
  BY <1>2, RejectKeepsRows
<1>3. ASSUME NEW o \in DOMAIN orders, BrokerFills(o) \/ BrokerExpires(o) PROVE RowsInv' /\ table' = table
  BY <1>3, BrokerKeepsRows
<1>4. ASSUME \/ \E c \in Operators : OperatorStep(c) \/ StartReads(c) \/ StopReads(c)
             \/ \E c \in Pollers : PollReads(c) \/ PollUpdates(c)
             \/ \E p \in Pids, clean \in BOOLEAN : EngineEnds(p, clean)
             \/ SyncByHand
             \/ \E p \in Pids : TickFails(p) \/ SyncDies(p)
      PROVE  RowsInv' /\ table' = table
  BY <1>4, ProcessesKeepRows
<1>5. ASSUME NEW p \in Pids, TickBegins(p) \/ TickPositions(p) \/ TickOrders(p)
      PROVE  RowsInv' /\ table' = table
  BY <1>5, TickBeginsKeepsRows, TickPositionsKeepsRows, TickOrdersKeepsRows
<1>6. ASSUME NEW p \in Pids, TickCommits(p)
      PROVE  RowsInv' /\ \A o \in OrderIds : table'.rows[o] >= table.rows[o]
  BY <1>6, TickCommitsKeepsRows
<1>7. CASE UNCHANGED vars
  BY <1>7, SameOrders, Bystander DEF vars, syncVars, RowsInv, StateOK
<1> QED
  BY <1>1, <1>2, <1>3, <1>4, <1>5, <1>6, <1>7 DEF Next, SyncStep

\* The rows of the dashboard never go back and never run ahead of the broker,
\* nor the fills of the rows, however many sync processes poll (sync.py, tick,
\* with the account row written first; db.py, upsert_order and insert_fill).
THEOREM RowsTrailBrokerHolds == Spec => RowsTrailBroker
<1>1. Init => RowsInv
  BY StartRows
<1>2. RowsInv /\ [Next]_vars => RowsInv'
  BY RowsStep
<1>3. RowsInv /\ RowsInv' /\ [Next]_vars =>
        [\A o \in OrderIds :
            /\ table'.rows[o] >= table.rows[o]
            /\ table'.rows[o] # NoRow => table'.rows[o] <= orders'[o].filled
            /\ table'.fills[o] <= table'.rows[o]]_vars
  <2>1. SUFFICES ASSUME RowsInv, RowsInv', [Next]_vars, NEW o \in OrderIds
                 PROVE  /\ table'.rows[o] >= table.rows[o]
                        /\ table'.rows[o] # NoRow => table'.rows[o] <= orders'[o].filled
                        /\ table'.fills[o] <= table'.rows[o]
    OBVIOUS
  <2>2. table.rows[o] \in Int
    BY <2>1 DEF RowsInv, StateOK
  <2>3. table'.rows[o] >= table.rows[o]
    BY <2>1, <2>2, RowsStep
  <2> QED
    BY <2>1, <2>3 DEF RowsInv, TableTrails, Trails
<1> QED
  BY <1>1, <1>2, <1>3, PTL DEF Spec, RowsTrailBroker

-----------------------------------------------------------------------------
(***************************************************************************)
(* The engines.                                                            *)
(***************************************************************************)
OneOperator == \A c, d \in Operators : c = d

Pid == Nat

PidsOK ==
    /\ spawned \in [{"engine", "sync"} -> Nat]
    /\ live \in [{"engine", "sync"} -> SUBSET (Nat \ {0})]
    /\ row \in [status : {"stopped", "running"}, pid : Pid, sync : Pid]
    /\ oper \in [Operators -> [pc : {"idle", "sync", "engine", "record", "kill", "clear"},
                               pid : Pid, sync : Pid]]

\* What is known of the engines at each place of start and stop.
Known(c) ==
    /\ oper[c].pc = "idle" => oper[c].pid = NoPid
    /\ oper[c].pc \in {"sync", "engine", "clear"} => live.engine = {}
    /\ oper[c].pc \in {"record", "kill"} => live.engine \subseteq {oper[c].pid}

PidInv == PidsOK /\ EnginesAreRecorded /\ \A c \in Operators : Known(c)

\* Steps that start no engine and touch neither an operator nor the pid.
LEMMA NoNewEngine ==
  ASSUME PidInv, PidsOK', UNCHANGED oper, row'.pid = row.pid, live'.engine \subseteq live.engine
  PROVE  PidInv'
BY DEF PidInv, EnginesAreRecorded, Known

LEMMA OthersKeepPids ==
  ASSUME PidInv,
         \/ UNCHANGED procVars
         \/ \E c \in Pollers : PollReads(c) \/ PollUpdates(c)
         \/ \E p \in Pids, clean \in BOOLEAN : EngineEnds(p, clean)
         \/ \E p \in Pids : SyncDies(p)
         \/ SyncByHand
  PROVE  PidInv'
<1>1. CASE UNCHANGED procVars
  BY <1>1, NoNewEngine DEF PidInv, PidsOK, procVars
<1>2. ASSUME NEW c \in Pollers, PollReads(c) \/ PollUpdates(c) PROVE PidInv'
  BY <1>2, NoNewEngine DEF PidInv, PidsOK, PollReads, PollUpdates, Reconciled
<1>3. ASSUME NEW p \in Pids, NEW clean \in BOOLEAN, EngineEnds(p, clean) PROVE PidInv'
  BY <1>3, NoNewEngine DEF PidInv, PidsOK, EngineEnds
<1>4. ASSUME NEW p \in Pids, SyncDies(p) PROVE PidInv'
  BY <1>4, NoNewEngine DEF PidInv, PidsOK, SyncDies
<1>5. CASE SyncByHand
  BY <1>5, NoNewEngine DEF PidInv, PidsOK, SyncByHand, Spawn
<1> QED
  BY <1>1, <1>2, <1>3, <1>4, <1>5

LEMMA OperatorKeepsPids ==
  ASSUME PidInv, OneOperator, NEW c \in Operators, OperatorStep(c) \/ StartReads(c) \/ StopReads(c)
  PROVE  PidInv'
<1>1. Operators = {c}
  BY DEF OneOperator
<1>2. /\ oper[c] \in [pc : {"idle", "sync", "engine", "record", "kill", "clear"}, pid : Pid, sync : Pid]
      /\ Known(c) /\ PidsOK /\ \A p \in live.engine : row.pid = p \/ oper[c].pid = p
      /\ NoPid \notin live.engine
  BY <1>1 DEF PidInv, PidsOK, EnginesAreRecorded, NoPid
<1>3. SUFFICES PidsOK' /\ Known(c)' /\ \A p \in live'.engine : row'.pid = p \/ oper'[c].pid = p
  BY <1>1 DEF PidInv, EnginesAreRecorded
<1>4. CASE StartReads(c)
  BY <1>2, <1>4 DEF StartReads, Known, PidsOK, Reconciled, NoPid, Pid
<1>5. CASE StartSync(c)
  BY <1>2, <1>5 DEF StartSync, Spawn, Known, PidsOK, Pid
<1>6. CASE StartEngine(c)
  <2>1. PICK new \in Nat \ {0} : new = spawned["engine"] + 1
    BY <1>2 DEF PidsOK
  <2>2. /\ live' = [live EXCEPT !["engine"] = {new}] /\ UNCHANGED row
        /\ oper' = [oper EXCEPT ![c].pc = "record", ![c].pid = new]
    BY <1>2, <1>6, <2>1 DEF StartEngine, Spawn, Known
  <2>3. live'.engine = {new} /\ oper'[c].pc = "record" /\ oper'[c].pid = new
    BY <1>2, <2>2 DEF PidsOK
  <2>4. spawned' \in [{"engine", "sync"} -> Nat]
    BY <1>2, <1>6 DEF StartEngine, Spawn, PidsOK
  <2>5. live' \in [{"engine", "sync"} -> SUBSET (Nat \ {0})]
    BY <1>2, <2>2 DEF PidsOK
  <2>6. oper' \in [Operators -> [pc : {"idle", "sync", "engine", "record", "kill", "clear"},
                                 pid : Pid, sync : Pid]]
    BY <1>2, <2>2 DEF PidsOK, Pid
  <2>7. PidsOK'
    BY <1>2, <2>2, <2>4, <2>5, <2>6 DEF PidsOK
  <2> QED
    BY <2>3, <2>7 DEF Known
<1>7. CASE StartRecords(c)
  BY <1>2, <1>7 DEF StartRecords, Known, PidsOK, NoPid, Pid
<1>8. CASE StopReads(c)
  BY <1>2, <1>8 DEF StopReads, Known, PidsOK, Reconciled, NoPid, Pid
<1>9. CASE StopKills(c)
  BY <1>2, <1>9 DEF StopKills, Known, PidsOK, Pid
<1>10. CASE StopRecords(c)
  BY <1>2, <1>10 DEF StopRecords, Known, PidsOK, NoPid, Pid
<1> QED
  BY <1>4, <1>5, <1>6, <1>7, <1>8, <1>9, <1>10 DEF OperatorStep

LEMMA PidStep ==
  ASSUME PidInv, OneOperator, [Next]_vars
  PROVE  PidInv'
<1>1. ASSUME NEW c \in Operators, OperatorStep(c) \/ StartReads(c) \/ StopReads(c) PROVE PidInv'
  BY <1>1, OperatorKeepsPids
<1>2. CASE \/ UNCHANGED procVars
           \/ \E c \in Pollers : PollReads(c) \/ PollUpdates(c)
           \/ \E p \in Pids, clean \in BOOLEAN : EngineEnds(p, clean)
           \/ \E p \in Pids : SyncDies(p)
           \/ SyncByHand
  BY <1>2, OthersKeepPids
<1>3. CASE UNCHANGED vars
  BY <1>2, <1>3 DEF vars, procVars
<1>4. ASSUME NEW u \in Users,
             \/ DeskStep(u) \/ AbortBatch(u)
             \/ \E ids \in SUBSET Signals : ListPending(u, ids)
             \/ \E s \in Signals : Refuse(u, s)
      PROVE  UNCHANGED procVars
  BY <1>4 DEF DeskStep, MarkPlaced, CommitBatch, Submit, AbortBatch, ListPending, Refuse
<1>5. ASSUME NEW p \in Pids, SyncStep(p) \/ TickFails(p) PROVE UNCHANGED procVars
  BY <1>5 DEF SyncStep, TickBegins, TickPositions, TickOrders, TickCommits, TickFails
<1>6. ASSUME NEW s \in Signals, Reject(s) PROVE UNCHANGED procVars
  BY <1>6 DEF Reject
<1>7. ASSUME NEW o \in DOMAIN orders, BrokerFills(o) \/ BrokerExpires(o) PROVE UNCHANGED procVars
  BY <1>7 DEF BrokerFills, BrokerExpires
<1> QED
  BY <1>1, <1>2, <1>3, <1>4, <1>5, <1>6, <1>7 DEF Next

\* With one person starting and stopping, an engine that runs can be stopped:
\* its pid is in the row, or about to be (engine_state.py, start and stop; the
\* pollers' status corrects the row's status and never its pid).
THEOREM EnginesAreRecordedHolds ==
  ASSUME OneOperator
  PROVE  Spec => []EnginesAreRecorded
<1>1. Init => PidInv
  BY DEF Init, PidInv, PidsOK, EnginesAreRecorded, Known, NoPid, Pid
<1>2. PidInv /\ [Next]_vars => PidInv'
  BY PidStep
<1>3. PidInv => EnginesAreRecorded
  BY DEF PidInv
<1> QED
  BY <1>1, <1>2, <1>3, PTL DEF Spec

-----------------------------------------------------------------------------
(***************************************************************************)
(* The links of signals to orders.                                         *)
(***************************************************************************)

\* A row of kubera_alpaca_signals, and what a batch would set of one.
Mark == [status : {"PENDING_APPROVAL", "PLACED", "REJECTED"}, order : Nat]

Session == [pc : {"idle", "work", "sent"}, todo : SUBSET Signals, sig : SUBSET Signals,
            order : Nat, marks : UNION {[S -> Mark] : S \in SUBSET Signals}]

LinkInv == signal \in [Signals -> Mark] /\ desk \in [Users -> Session]

\* COALESCE: the statement can set the order of a signal, not take it away.
LEMMA CoalesceKeepsOrder ==
  ASSUME LinkInv, NEW s \in Signals, NEW m \in Mark
  PROVE  /\ Stored(s, m) \in Mark
         /\ signal[s].order # NoOrder => Stored(s, m).order # NoOrder
<1>1. signal[s] \in Mark
  BY DEF LinkInv
<1> QED
  BY <1>1 DEF Stored, Mark, NoOrder

LEMMA MarksOfABatch ==
  ASSUME LinkInv, NEW u \in Users, NEW S \in SUBSET Signals,
         NEW status \in {"PLACED", "REJECTED"}, NEW order \in Nat
  PROVE  Marks(u, S, status, order) \in UNION {[T -> Mark] : T \in SUBSET Signals}
<1>1. PICK T \in SUBSET Signals : desk[u].marks \in [T -> Mark]
  <2>1. PICK marks : marks = desk[u].marks
    OBVIOUS
  <2>2. desk[u] \in Session
    BY DEF LinkInv
  <2>3. marks \in UNION {[S1 -> Mark] : S1 \in SUBSET Signals}
    BY <2>1, <2>2 DEF Session
  <2> QED
    BY <2>1, <2>3
<1>2. [status |-> status, order |-> order] \in Mark
  BY DEF Mark
<1>3. Marks(u, S, status, order) \in [T \cup S -> Mark]
  BY <1>1, <1>2 DEF Marks
<1> QED
  BY <1>3

\* A step of the approval desk, and no other, writes signals and sessions.
LEMMA DeskLinks ==
  ASSUME RowsInv, LinkInv, NEW u \in Users,
         \/ DeskStep(u) \/ AbortBatch(u)
         \/ \E ids \in SUBSET Signals : ListPending(u, ids)
         \/ \E s \in Signals : Refuse(u, s)
  PROVE  /\ LinkInv'
         /\ \A s \in Signals : signal[s].order # NoOrder => signal'[s].order # NoOrder
<1>1. /\ signal \in [Signals -> Mark] /\ desk \in [Users -> Session] /\ desk[u] \in Session
      /\ Len(orders) \in Nat
  BY DEF LinkInv, RowsInv, StateOK
<1>2. Idle \in Session
  BY DEF Idle, Session, NoMarks, NoOrder
<1>3. CASE AbortBatch(u)
  BY <1>1, <1>2, <1>3 DEF AbortBatch, LinkInv
<1>4. ASSUME NEW ids \in SUBSET Signals, ListPending(u, ids)
      PROVE  LinkInv' /\ UNCHANGED signal
  <2>1. PICK d : d = [Idle EXCEPT !.pc = "work", !.todo = ids \cap Pending]
    OBVIOUS
  <2>2. d \in Session
    BY <1>2, <2>1 DEF Idle, Session
  <2> QED
    BY <1>1, <1>4, <2>1, <2>2 DEF ListPending, LinkInv
<1>5. ASSUME NEW s \in Signals, Refuse(u, s)
      PROVE  LinkInv' /\ UNCHANGED signal
  <2>1. PICK marks : marks = Marks(u, {s}, "REJECTED", NoOrder)
    OBVIOUS
  <2>2. marks \in UNION {[S -> Mark] : S \in SUBSET Signals}
    BY <2>1, MarksOfABatch DEF NoOrder
  <2>3. desk' = [desk EXCEPT ![u] = [desk[u] EXCEPT !.todo = @ \ {s}, !.marks = marks]]
    BY <1>1, <1>5, <2>1 DEF Refuse, Session
  <2>4. PICK d : d = [desk[u] EXCEPT !.todo = @ \ {s}, !.marks = marks]
    OBVIOUS
  <2>5. d \in Session
    BY <1>1, <2>2, <2>4 DEF Session
  <2> QED
    BY <1>1, <1>5, <2>3, <2>4, <2>5 DEF Refuse, LinkInv
<1>6. ASSUME NEW s \in Signals, Submit(u, s)
      PROVE  LinkInv' /\ UNCHANGED signal
  <2>1. PICK d : d = [desk[u] EXCEPT !.pc = "sent", !.sig = {s}, !.order = Len(orders) + 1]
    OBVIOUS
  <2>2. d \in Session
    <3>1. Len(orders) + 1 \in Nat /\ {s} \in SUBSET Signals
      BY <1>1
    <3> QED
      BY <1>1, <2>1, <3>1 DEF Session
  <2>3. desk' = [desk EXCEPT ![u] = d]
    BY <1>1, <1>6, <2>1 DEF Submit, Session
  <2> QED
    BY <1>1, <1>6, <2>2, <2>3 DEF Submit, LinkInv
<1>7. CASE MarkPlaced(u)
  <2>1. PICK marks : marks = Marks(u, desk[u].sig, "PLACED", desk[u].order)
    OBVIOUS
  <2>2. desk[u].sig \in SUBSET Signals /\ desk[u].order \in Nat
    BY <1>1 DEF Session
  <2>3. marks \in UNION {[S -> Mark] : S \in SUBSET Signals}
    BY <2>1, <2>2, MarksOfABatch
  <2>4. PICK d : d = [desk[u] EXCEPT !.pc = "work", !.todo = @ \ desk[u].sig, !.marks = marks,
                                     !.sig = {}, !.order = NoOrder]
    OBVIOUS
  <2>5. d \in Session
    BY <1>1, <2>3, <2>4 DEF Session, NoOrder
  <2>6. desk' = [desk EXCEPT ![u] = d]
    BY <1>1, <1>7, <2>1, <2>4 DEF MarkPlaced, Session
  <2>7. desk' \in [Users -> Session]
    BY <1>1, <2>5, <2>6
  <2>8. UNCHANGED signal
    BY <1>7 DEF MarkPlaced
  <2> QED
    BY <1>1, <2>7, <2>8 DEF LinkInv
<1>8. CASE CommitBatch(u)
  <2>1. PICK T \in SUBSET Signals : desk[u].marks \in [T -> Mark]
    BY <1>1 DEF Session
  <2>2. \A s \in T : /\ Stored(s, desk[u].marks[s]) \in Mark
                     /\ signal[s].order # NoOrder => Stored(s, desk[u].marks[s]).order # NoOrder
    BY <2>1, CoalesceKeepsOrder
  <2>3. /\ signal' = [s \in Signals |-> IF s \in T THEN Stored(s, desk[u].marks[s]) ELSE signal[s]]
        /\ desk' = [desk EXCEPT ![u] = Idle]
    BY <1>8, <2>1 DEF CommitBatch
  <2>4. signal' \in [Signals -> Mark] /\ desk' \in [Users -> Session]
    BY <1>1, <1>2, <2>2, <2>3
  <2>5. \A s \in Signals : signal[s].order # NoOrder => signal'[s].order # NoOrder
    BY <2>2, <2>3
  <2> QED
    BY <1>1, <2>3, <2>4, <2>5 DEF LinkInv
<1> QED
  BY <1>3, <1>4, <1>5, <1>6, <1>7, <1>8 DEF DeskStep, AbortBatch

LEMMA LinkStep ==
  ASSUME RowsInv, LinkInv, [Next]_vars
  PROVE  /\ LinkInv'
         /\ \A s \in Signals : signal[s].order # NoOrder => signal'[s].order # NoOrder
<1>1. ASSUME NEW u \in Users,
             \/ DeskStep(u) \/ AbortBatch(u)
             \/ \E ids \in SUBSET Signals : ListPending(u, ids)
             \/ \E s \in Signals : Refuse(u, s)
      PROVE  /\ LinkInv'
             /\ \A s \in Signals : signal[s].order # NoOrder => signal'[s].order # NoOrder
  BY <1>1, DeskLinks
<1>2. ASSUME NEW t \in Signals, Reject(t)
      PROVE  /\ LinkInv'
             /\ \A s \in Signals : signal[s].order # NoOrder => signal'[s].order # NoOrder
  <2>1. PICK m : m = [status |-> "REJECTED", order |-> NoOrder]
    OBVIOUS
  <2>2. m \in Mark
    BY <2>1 DEF Mark, NoOrder
  <2>3. signal' = [signal EXCEPT ![t] = Stored(t, m)] /\ UNCHANGED desk
    BY <1>2, <2>1 DEF Reject
  <2>4. Stored(t, m) \in Mark /\ (signal[t].order # NoOrder => Stored(t, m).order # NoOrder)
    BY <2>2, CoalesceKeepsOrder
  <2> QED
    BY <2>3, <2>4 DEF LinkInv
<1>3. ASSUME NEW o \in DOMAIN orders, BrokerFills(o) \/ BrokerExpires(o)
      PROVE  UNCHANGED <<signal, desk>>
  BY <1>3 DEF BrokerFills, BrokerExpires
<1>4. ASSUME NEW c \in Operators, OperatorStep(c) \/ StartReads(c) \/ StopReads(c) PROVE UNCHANGED <<signal, desk>>
  BY <1>4 DEF OperatorStep, StartReads, StopReads, StartSync, StartEngine, StartRecords, StopKills, StopRecords, deskVars
<1>5. ASSUME NEW c \in Pollers, PollReads(c) \/ PollUpdates(c) PROVE UNCHANGED <<signal, desk>>
  BY <1>5 DEF PollReads, PollUpdates, deskVars
<1>6. ASSUME NEW p \in Pids,
             SyncStep(p) \/ TickFails(p) \/ SyncDies(p) \/ \E clean \in BOOLEAN : EngineEnds(p, clean)
      PROVE  UNCHANGED <<signal, desk>>
  BY <1>6 DEF SyncStep, TickBegins, TickPositions, TickOrders, TickCommits, TickFails, SyncDies, EngineEnds, deskVars
<1>7. CASE SyncByHand
  BY <1>7 DEF SyncByHand, deskVars, LinkInv
<1>8. CASE UNCHANGED vars
  BY <1>8 DEF vars, LinkInv
<1>9. UNCHANGED <<signal, desk>> => LinkInv' /\ UNCHANGED signal
  BY DEF LinkInv
<1> QED
  BY <1>1, <1>2, <1>3, <1>4, <1>5, <1>6, <1>7, <1>8, <1>9 DEF Next

\* A signal that has an order keeps one, through later batches, batches that
\* are rolled back and reject() of a placed signal (db.py, update_signal_status;
\* orders.py, approve_and_submit and reject).
THEOREM LinksStayHolds == Spec => LinksStay
<1>1. Init => LinkInv
  <2>1. Idle \in Session
    BY DEF Idle, Session, NoMarks, NoOrder
  <2> QED
    BY <2>1 DEF Init, LinkInv, Mark, NoOrder
<1>2. RowsInv /\ LinkInv /\ [Next]_vars =>
        LinkInv' /\ [\A s \in Signals : signal[s].order # NoOrder => signal'[s].order # NoOrder]_vars
  BY LinkStep
<1>3. Init => RowsInv
  BY StartRows
<1>4. RowsInv /\ [Next]_vars => RowsInv'
  BY RowsStep
<1> QED
  BY <1>1, <1>2, <1>3, <1>4, PTL DEF Spec, LinksStay

=============================================================================
