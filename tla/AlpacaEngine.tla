---------------------------- MODULE AlpacaEngine ----------------------------
(***************************************************************************)
(* The trading daemon services/alpaca/engine.py with the order helpers of  *)
(* services/alpaca/orders.py it calls, its SQLite tables and the broker.   *)
(*                                                                         *)
(* A session day has three phases: "pre" is the pre-open window in which   *)
(* daily_open_run submits on-the-open orders, "open" the regular session   *)
(* in which protective stops may fire, "post" the rest of the day.  A lot  *)
(* is a <<date, symbol>> pair: it names its OPEN_LONG row and, through     *)
(* _stop_client_id, its stop order.  Share counts are lots: one unit each. *)
(* A row's run number tells apart the rows that repeated runs of one day   *)
(* stage; it stands for the AUTOINCREMENT id.                              *)
(***************************************************************************)
EXTENDS Integers, FiniteSets

CONSTANTS
    Symbols,      \* tickers that can be picked
    TopN,         \* TOP_N_PICKS
    HoldingDays,  \* HOLDING_DAYS
    MaxDay,       \* bound: sessions explored
    MaxAborts,    \* bound: crashes, exceptions, restarts and lost heartbeats
    Faults        \* which of FaultNames the environment may produce

FaultNames ==
    { "restart",      \* SIGTERM while idle, operator starts the engine again
      "missed",       \* a pre-open window passes without a successful run
      "crash",        \* SIGKILL or power loss inside a routine
      "exception",    \* daily_open_run raises; run() retries on the next tick
      "sweep",        \* post_open_stop_arming or daily_close_mark raises
      "heartbeat",    \* the state row is not written after a routine
      "reconcile",    \* the closed-order sweep fails and returns 0
      "calendar",     \* _trading_day_n_back returns None
      "cancel",       \* a stop is not found or not cancelled
      "reject_open",  \* the broker or a risk cap refuses a BUY
      "reject_close", \* the broker refuses a SELL
      "timeout",      \* submit_order raises although the order was accepted
      "unfilled" }    \* an on-the-open limit order expires unmatched

ASSUME EngineAssumption ==
    /\ Symbols # {}
    /\ IsFiniteSet(Symbols)
    /\ TopN \in Nat \ {0}
    /\ HoldingDays \in Nat \ {0}
    /\ MaxDay \in Nat \ {0}
    /\ MaxAborts \in Nat
    /\ Faults \subseteq FaultNames

Days == 1..MaxDay
Lots == Days \X Symbols
RunNumbers == 0..MaxAborts

\* Rows of kubera_alpaca_signals.  `entry` is the run that staged the lot's
\* OPEN_LONG row, `run` the run that staged this row; a CLOSE_LONG row is
\* staged HoldingDays sessions after its lot's date.
OpenRows == {[action |-> "OPEN_LONG", lot |-> l, entry |-> n, run |-> n] :
                l \in Lots, n \in RunNumbers}
CloseRows == {[action |-> "CLOSE_LONG", lot |-> l, entry |-> n, run |-> m] :
                l \in {k \in Lots : k[1] + HoldingDays <= MaxDay},
                n \in RunNumbers, m \in RunNumbers}
Rows == OpenRows \cup CloseRows

OpenRow(l, n) == [action |-> "OPEN_LONG", lot |-> l, entry |-> n, run |-> n]
CloseRow(r, n) == [action |-> "CLOSE_LONG", lot |-> r.lot, entry |-> r.entry, run |-> n]

RowStatus == {"NONE", "PENDING_APPROVAL", "PLACED", "REJECTED", "CLOSED"}
OrderState == {"none", "working", "filled", "expired"}
Routines == {"cancel", "submit_close", "submit_open", "expire", "record", "arm", "refresh"}
OpenRunSteps == {"cancel", "submit_close", "submit_open", "expire"}

\* The three last_*_date columns; 0 is NULL.
NoDates == [run |-> 0, arm |-> 0, mark |-> 0]

VARIABLES
    day, phase,   \* the exchange calendar and clock
    status,       \* durable: status column of every row
    last,         \* durable: last_run_date, last_stop_arming_date, last_close_mark_date
    order,        \* broker: the order submitted for a row
    stops,        \* broker: lots with a working kubera-stop-* order
    fired,        \* broker: lots whose kubera-stop-* order has filled
    pos,          \* broker: position per symbol
    pc,           \* engine: "down", "idle" or where it is in a routine
    mem,          \* engine: run()'s local copies of `last`
    closing,      \* engine: closes_to_submit
    todo,         \* engine: rows left in the loop of the current step
    txnPlaced, txnRejected, \* engine: _mark calls not yet committed
    aborts        \* bound counter, also the next run's number

dbVars == <<status, last>>
brokerVars == <<order, stops, fired, pos>>
txnVars == <<txnPlaced, txnRejected>>
engineVars == <<pc, mem, closing, todo, txnPlaced, txnRejected>>
clockVars == <<day, phase>>
vars == <<day, phase, status, last, order, stops, fired, pos,
          pc, mem, closing, todo, txnPlaced, txnRejected, aborts>>

TypeOK ==
    /\ day \in Days
    /\ phase \in {"pre", "open", "post"}
    /\ status \in [Rows -> RowStatus]
    /\ last \in [run : 0..MaxDay, arm : 0..MaxDay, mark : 0..MaxDay]
    /\ order \in [Rows -> OrderState]
    /\ stops \subseteq Lots
    /\ fired \subseteq Lots
    /\ pos \in [Symbols -> Int]
    /\ pc \in Routines \cup {"down", "idle"}
    /\ mem \in [run : 0..MaxDay, arm : 0..MaxDay, mark : 0..MaxDay]
    /\ closing \subseteq OpenRows
    /\ todo \subseteq Rows
    /\ txnPlaced \subseteq Rows
    /\ txnRejected \subseteq Rows
    /\ aborts \in RunNumbers

Init ==
    /\ day = 1
    /\ phase = "pre"
    /\ status = [r \in Rows |-> "NONE"]
    /\ last = NoDates
    /\ order = [r \in Rows |-> "none"]
    /\ stops = {}
    /\ fired = {}
    /\ pos = [s \in Symbols |-> 0]
    /\ pc = "down"
    /\ mem = NoDates
    /\ closing = {}
    /\ todo = {}
    /\ txnPlaced = {}
    /\ txnRejected = {}
    /\ aborts = 0

-----------------------------------------------------------------------------
(* Helpers *)

Date(r) == r.lot[1]
Symbol(r) == r.lot[2]

\* The ways a call can go that fails only under fault f.
Succeeds(f) == IF f \in Faults THEN BOOLEAN ELSE {TRUE}

\* Mutants: the sweep does nothing; it writes a status of its own; it forgets
\* the status = 'PLACED' condition.
Reconciled_Never(ok) == status
Reconciled_Mistyped(ok) ==
    [r \in Rows |-> IF ok /\ r \in OpenRows /\ r.lot \in fired THEN "STOPPED" ELSE status[r]]
\* reconcile_stopped_out_lots: every PLACED lot whose stop filled is CLOSED.
Reconciled(ok) ==
    [r \in Rows |->
        IF ok /\ r \in OpenRows /\ r.lot \in fired /\ status[r] = "PLACED"
        THEN "CLOSED" ELSE status[r]]

\* Mutant: the status filter is forgotten.
PlacedLots_Ever(st) == {r \in OpenRows : st[r] \in {"PLACED", "CLOSED"}}

\* The OPEN_LONG rows a query on status = 'PLACED' returns.
PlacedLots(st) == {r \in OpenRows : st[r] = "PLACED"}

\* Mutants: off by one session either way.
ExpiryDate_Late == day - HoldingDays - 1
ExpiryDate_Early == day - HoldingDays + 1

\* _trading_day_n_back: sessions strictly before today, HOLDING_DAYS from the end.
ExpiryDate == day - HoldingDays

\* What the two sweeps select: the lots of today, and those not yet due.
LotsToArm == {r \in PlacedLots(status) : Date(r) = day}
LotsToRefresh(st, cal) == {r \in PlacedLots(st) : cal => Date(r) > ExpiryDate}

\* A bounded budget of disturbances.
Abort == aborts < MaxAborts /\ aborts' = aborts + 1

-----------------------------------------------------------------------------
(* Process lifecycle: run() from its first line, and how it ends *)

\* Mutant: a restarted process does not read the state row.
Start_Forgetful ==
    /\ pc = "down"
    /\ pc' = "idle"
    /\ UNCHANGED <<clockVars, dbVars, brokerVars, mem, closing, todo, txnVars, aborts>>

Start ==
    /\ pc = "down"
    /\ pc' = "idle"
    /\ mem' = last
    /\ UNCHANGED <<clockVars, dbVars, brokerVars, closing, todo, txnVars, aborts>>

Halt ==
    /\ pc' = "down"
    /\ mem' = NoDates
    /\ closing' = {} /\ todo' = {} /\ txnPlaced' = {} /\ txnRejected' = {}
    /\ Abort
    /\ UNCHANGED <<clockVars, dbVars, brokerVars>>

Shutdown == "restart" \in Faults /\ pc = "idle" /\ Halt

Crash == "crash" \in Faults /\ pc \in Routines /\ Halt

\* daily_open_run raises: the batch's uncommitted marks are rolled back, the
\* day stays unrecorded, and the next tick calls it again.
RunRaises ==
    /\ "exception" \in Faults
    /\ pc \in OpenRunSteps
    /\ pc' = "idle"
    /\ closing' = {} /\ todo' = {} /\ txnPlaced' = {} /\ txnRejected' = {}
    /\ Abort
    /\ UNCHANGED <<clockVars, dbVars, brokerVars, mem>>

\* A sweep raises: its date stays unrecorded and the next tick calls it again.
\* It reads its tables and bars first; its loop catches what its calls raise.
SweepRaises ==
    /\ "sweep" \in Faults
    /\ \/ pc = "arm" /\ todo = LotsToArm
       \/ pc = "refresh" /\ \E cal \in Succeeds("calendar") : todo = LotsToRefresh(status, cal)
    /\ pc' = "idle"
    /\ todo' = {}
    /\ Abort
    /\ UNCHANGED <<clockVars, dbVars, brokerVars, mem, closing, txnVars>>

\* A routine is over: run() notes the date in memory and in the state row.
Record(field) ==
    /\ pc' = "idle"
    /\ mem' = [mem EXCEPT ![field] = day]
    /\ \/ last' = [last EXCEPT ![field] = day] /\ UNCHANGED aborts
       \/ "heartbeat" \in Faults /\ Abort /\ UNCHANGED last
    /\ UNCHANGED <<clockVars, status, brokerVars, closing, todo, txnVars>>

-----------------------------------------------------------------------------
(* daily_open_run *)

\* The tick's pre-open trigger: once a day, retried until a run returns.
OpenRunGate == phase = "pre" /\ mem.run # day

\* What the pick query, the bar and ATR checks and the broken-support guard can
\* leave of the day's top predictions.
Picks == {p \in SUBSET Symbols : Cardinality(p) <= TopN}

\* Steps 0 and 1: reconcile, then select the lots opened HOLDING_DAYS ago.
OpenRunBegins ==
    /\ pc = "idle"
    /\ OpenRunGate
    /\ \E ok \in Succeeds("reconcile"), cal \in Succeeds("calendar") :
         /\ status' = Reconciled(ok)
         /\ closing' = {r \in PlacedLots(status') : cal /\ Date(r) = ExpiryDate}
    /\ todo' = closing'
    /\ pc' = "cancel"
    /\ UNCHANGED <<clockVars, last, brokerVars, mem, txnVars, aborts>>

CancelStop(r) ==
    /\ pc = "cancel"
    /\ r \in todo
    /\ \E ok \in Succeeds("cancel") : stops' = IF ok THEN stops \ {r.lot} ELSE stops
    /\ todo' = todo \ {r}
    /\ UNCHANGED <<clockVars, dbVars, order, fired, pos, pc, mem, closing, txnVars, aborts>>

\* Steps 3 and 4: one CLOSE_LONG row per closing lot, one OPEN_LONG per pick.
StageSignals ==
    /\ pc = "cancel"
    /\ todo = {}
    /\ \E picks \in Picks :
         /\ LET closes == {CloseRow(r, aborts) : r \in closing}
                opens == {OpenRow(<<day, s>>, aborts) : s \in picks}
            IN  /\ status' = [r \in Rows |-> IF r \in closes \cup opens
                                             THEN "PENDING_APPROVAL" ELSE status[r]]
                /\ todo' = closes
         /\ pc' = IF picks = {} /\ closing = {} THEN "record" ELSE "submit_close"
    /\ UNCHANGED <<clockVars, last, brokerVars, mem, closing, txnVars, aborts>>

\* One turn of approve_and_submit's loop.
SubmitAccepted(r) ==
    /\ order' = [order EXCEPT ![r] = "working"]
    /\ txnPlaced' = txnPlaced \cup {r}
    /\ UNCHANGED txnRejected

\* Mutant: the row is marked before the broker answers.
SubmitRefused_MarkedFirst(r) ==
    /\ txnPlaced' = txnPlaced \cup {r}
    /\ UNCHANGED <<order, txnRejected>>

SubmitRefused(r) ==
    /\ IF r \in OpenRows THEN "reject_open" \in Faults ELSE "reject_close" \in Faults
    /\ txnRejected' = txnRejected \cup {r}
    /\ UNCHANGED <<order, txnPlaced>>

SubmitTimesOut(r) ==
    /\ "timeout" \in Faults
    /\ order' = [order EXCEPT ![r] = "working"]
    /\ txnRejected' = txnRejected \cup {r}
    /\ UNCHANGED txnPlaced

SubmitOrder(r) ==
    /\ pc \in {"submit_close", "submit_open"}
    /\ r \in todo
    /\ SubmitAccepted(r) \/ SubmitRefused(r) \/ SubmitTimesOut(r)
    /\ todo' = todo \ {r}
    /\ UNCHANGED <<clockVars, dbVars, stops, fired, pos, pc, mem, closing, aborts>>

\* approve_and_submit commits its marks once, after the loop.  The CLOSE_LONG
\* batch goes first, then the OPEN_LONG batch of the same run.
CommitBatch ==
    /\ pc \in {"submit_close", "submit_open"}
    /\ todo = {}
    /\ status' = [r \in Rows |-> IF r \in txnPlaced THEN "PLACED"
                                 ELSE IF r \in txnRejected THEN "REJECTED"
                                 ELSE status[r]]
    /\ txnPlaced' = {} /\ txnRejected' = {}
    /\ \/ /\ pc = "submit_close"
          /\ pc' = "submit_open"
          /\ todo' = {r \in OpenRows : /\ Date(r) = day /\ r.run = aborts
                                       /\ status[r] = "PENDING_APPROVAL"}
       \/ /\ pc = "submit_open"
          /\ pc' = "expire"
          /\ UNCHANGED todo
    /\ UNCHANGED <<clockVars, last, brokerVars, mem, closing, aborts>>

\* Mutants: the expired lots are not marked; the signal_date condition is lost.
MarkExpired_Never ==
    /\ pc = "expire"
    /\ closing' = {}
    /\ pc' = "record"
    /\ UNCHANGED <<clockVars, dbVars, brokerVars, mem, todo, txnVars, aborts>>

MarkExpired_AnyDate ==
    /\ pc = "expire"
    /\ status' = [r \in Rows |->
                    IF status[r] = "PLACED" /\ \E c \in closing : r \in OpenRows /\ Symbol(r) = Symbol(c)
                    THEN "CLOSED" ELSE status[r]]
    /\ closing' = {}
    /\ pc' = "record"
    /\ UNCHANGED <<clockVars, last, brokerVars, mem, todo, txnVars, aborts>>

\* Step 6: _mark_lots_closed_by_expiry, whatever became of the CLOSE_LONG rows.
MarkExpired ==
    /\ pc = "expire"
    /\ status' = [r \in Rows |->
                    IF status[r] = "PLACED" /\ \E c \in closing : r \in OpenRows /\ r.lot = c.lot
                    THEN "CLOSED" ELSE status[r]]
    /\ closing' = {}
    /\ pc' = "record"
    /\ UNCHANGED <<clockVars, last, brokerVars, mem, todo, txnVars, aborts>>

RecordRun == pc = "record" /\ Record("run")

-----------------------------------------------------------------------------
(* post_open_stop_arming *)

ArmBegins ==
    /\ pc = "idle"
    /\ phase = "open"
    /\ mem.run = day
    /\ mem.arm # day
    /\ todo' = LotsToArm
    /\ pc' = "arm"
    /\ UNCHANGED <<clockVars, dbVars, brokerVars, mem, closing, txnVars, aborts>>

\* A lot whose stop is still open at the broker is skipped, and so is one
\* without bars or below its support; a placement may also be refused.  The
\* client order id of a working stop cannot be used a second time.
ArmLot(r) ==
    /\ pc = "arm"
    /\ r \in todo
    /\ stops' \in {stops, stops \cup {r.lot}}
    /\ todo' = todo \ {r}
    /\ UNCHANGED <<clockVars, dbVars, order, fired, pos, pc, mem, closing, txnVars, aborts>>

ArmEnds == pc = "arm" /\ todo = {} /\ Record("arm")

-----------------------------------------------------------------------------
(* daily_close_mark *)

\* Mutant: the earlier gate, which only asked that the market is not open.
RefreshGate_NotOpen == phase # "open" /\ mem.run = day /\ mem.mark # day

\* The trigger's market_opened_today is the arming date: the clock is also
\* not open in the morning, right after the submissions.
RefreshGate ==
    /\ phase # "open"
    /\ mem.run = day
    /\ mem.arm = day
    /\ mem.mark # day

RefreshBegins ==
    /\ pc = "idle"
    /\ RefreshGate
    /\ \E ok \in Succeeds("reconcile"), cal \in Succeeds("calendar") :
         /\ status' = Reconciled(ok)
         /\ todo' = LotsToRefresh(status', cal)
    /\ pc' = "refresh"
    /\ UNCHANGED <<clockVars, last, brokerVars, mem, closing, txnVars, aborts>>

\* No rolling low: keep the stop.  Stop level not below the price: cancel and
\* leave the lot without a stop.  Otherwise cancel and place again, either of
\* which may fail.
RefreshLot(r) ==
    /\ pc = "refresh"
    /\ r \in todo
    /\ stops' \in {stops, stops \ {r.lot}, stops \cup {r.lot}}
    /\ todo' = todo \ {r}
    /\ UNCHANGED <<clockVars, dbVars, order, fired, pos, pc, mem, closing, txnVars, aborts>>

RefreshEnds == pc = "refresh" /\ todo = {} /\ Record("mark")

-----------------------------------------------------------------------------
(* The exchange and the broker.  The routines take seconds and the window is *)
(* half an hour wide, so the phase changes only between routines.            *)

Quiet == pc \in {"idle", "down"}

Traded(rows, s) == Cardinality({r \in rows : Symbol(r) = s})

OpeningAuction ==
    /\ phase = "pre"
    /\ Quiet
    /\ "missed" \in Faults \/ mem.run = day \/ last.run = day
    /\ LET working == {r \in Rows : order[r] = "working"}
       IN  \E filled \in IF "unfilled" \in Faults THEN SUBSET working ELSE {working} :
             /\ order' = [r \in Rows |-> IF r \in filled THEN "filled"
                                         ELSE IF r \in working THEN "expired"
                                         ELSE order[r]]
             /\ pos' = [s \in Symbols |-> pos[s] + Traded(filled \cap OpenRows, s)
                                                 - Traded(filled \cap CloseRows, s)]
    /\ phase' = "open"
    /\ UNCHANGED <<day, dbVars, stops, fired, engineVars, aborts>>

StopFires(l) ==
    /\ phase = "open"
    /\ l \in stops
    /\ stops' = stops \ {l}
    /\ fired' = fired \cup {l}
    /\ pos' = [pos EXCEPT ![l[2]] = @ - 1]
    /\ UNCHANGED <<clockVars, dbVars, order, engineVars, aborts>>

MarketCloses ==
    /\ phase = "open"
    /\ Quiet
    /\ phase' = "post"
    /\ UNCHANGED <<day, dbVars, brokerVars, engineVars, aborts>>

NextDay ==
    /\ phase = "post"
    /\ Quiet
    /\ day < MaxDay
    /\ day' = day + 1
    /\ phase' = "pre"
    /\ UNCHANGED <<dbVars, brokerVars, engineVars, aborts>>

\* The last modelled session is over.
EndOfHorizon == phase = "post" /\ day = MaxDay /\ Quiet /\ UNCHANGED vars

-----------------------------------------------------------------------------
EngineStep ==
    \/ OpenRunBegins
    \/ \E r \in todo : CancelStop(r)
    \/ StageSignals
    \/ \E r \in todo : SubmitOrder(r)
    \/ CommitBatch
    \/ MarkExpired
    \/ RecordRun
    \/ ArmBegins
    \/ \E r \in todo : ArmLot(r)
    \/ ArmEnds
    \/ RefreshBegins
    \/ \E r \in todo : RefreshLot(r)
    \/ RefreshEnds

ClockStep == OpeningAuction \/ MarketCloses \/ NextDay

Next ==
    \/ Start
    \/ Shutdown
    \/ Crash
    \/ RunRaises
    \/ SweepRaises
    \/ EngineStep
    \/ ClockStep
    \/ \E l \in stops : StopFires(l)
    \/ EndOfHorizon

Spec == Init /\ [][Next]_vars

\* The loop ticks every minute and its calls return or raise; time passes; the
\* operator who stopped the engine starts it again.
LiveSpec == Spec /\ WF_vars(EngineStep) /\ WF_vars(ClockStep) /\ WF_vars(Start)

-----------------------------------------------------------------------------
(* Properties that hold while the environment is benign: see README.md for   *)
(* the fault set of each.                                                    *)

\* A lot the database manages, whose shares the broker holds.
Managed(r) == status[r] = "PLACED" /\ order[r] = "filled" /\ r.lot \notin fired

\* From the opening auction to the end of the day the broker's position in a
\* symbol is the number of lots the signals table still manages in it: nothing
\* is held that no later run will sell, and nothing is managed that was sold.
BooksMatchBroker ==
    phase # "pre" =>
        \A s \in Symbols :
            pos[s] = Cardinality({r \in OpenRows : Managed(r) /\ Symbol(r) = s})

\* A working kubera-stop-* order guards a lot that is still managed, so that no
\* stop outlives its lot and sells shares of another lot of the symbol (the
\* cancel loop of daily_open_run comes before the CLOSE_LONG submissions).
NoOrphanStops ==
    \A l \in stops : \E r \in OpenRows : r.lot = l /\ status[r] = "PLACED"

\* Once the market has opened no managed lot is HOLDING_DAYS old or older: the
\* exact-date selection of daily_open_run finds each lot on its one day.
NoOverdueLot ==
    phase # "pre" => \A r \in OpenRows : Managed(r) => Date(r) + HoldingDays > day

\* A lot is bought by at most one order, and at most one of its stop and its
\* CLOSE_LONG orders reaches the broker as a sale.
Bought(l) == {r \in OpenRows : r.lot = l /\ order[r] # "none"}
SoldBy(l) == {r \in CloseRows : r.lot = l /\ order[r] # "none"}

EachLotTradedOnce ==
    \A l \in Lots :
        /\ Cardinality(Bought(l)) <= 1
        /\ Cardinality(SoldBy(l)) + (IF l \in fired THEN 1 ELSE 0) <= 1

\* No BUY is working while a SELL stop works on the same symbol: the broker
\* rejects the pair as a wash trade (comment after step 6 of daily_open_run).
NoOpposingOrders ==
    \A r \in OpenRows : order[r] = "working" => \A l \in stops : l[2] # Symbol(r)

\* Every lot old enough to expire inside the horizon is eventually closed.
EveryLotExits ==
    \A r \in OpenRows :
        Date(r) + HoldingDays <= MaxDay =>
            (status[r] = "PLACED" ~> status[r] = "CLOSED")

\* The daemon implements the book of lots: what the broker knows of a lot's
\* orders, read as the lot's abstract state.
LotState(l) ==
    IF l \in fired \/ \E r \in SoldBy(l) : order[r] = "filled" THEN "sold"
    ELSE IF \E r \in Bought(l) : order[r] = "filled" THEN "held"
    ELSE IF Bought(l) # {} THEN "ordered"
    ELSE "none"

Book == INSTANCE LotBook WITH
            today <- day,
            trading <- phase # "pre",
            lot <- [l \in Lots |-> LotState(l)]

ImplementsLotBook == Book!BookSpec

-----------------------------------------------------------------------------
(* Properties that hold under every fault.                                   *)

\* A row says PLACED only if the broker has accepted its order: marks follow
\* submissions and a lost transaction loses marks, never orders.
PlacedHasOrder ==
    \A r \in Rows : status[r] = "PLACED" => order[r] # "none"

\* A lot is CLOSED only because its stop fired or because a CLOSE_LONG row was
\* put to the broker on its expiry day.
ClosedIsExplained ==
    \A r \in OpenRows : status[r] = "CLOSED" =>
        \/ r.lot \in fired
        \/ \E c \in CloseRows : c.lot = r.lot /\ status[c] \in {"PLACED", "REJECTED"}

\* A lot that the table has CLOSED is given no stop, however often the sweeps are
\* cut short, restarted and repeated: a stop of shares that are gone would sell
\* those of another lot of the symbol.
ClosedGetsNoStop ==
    [][\A l \in stops' \ stops : \A r \in OpenRows : r.lot = l => status[r] # "CLOSED"]_vars

\* No stop exists for a lot before its opening auction is over: the close mark
\* of the same date cannot run in the morning.
NoStopInAuction == \A l \in stops : l[1] = day => phase # "pre"

\* Once the state row holds today's date no further order of the open run goes
\* out today, whatever restarts follow.
RunNotRepeated ==
    [][last.run = day => \A r \in Rows : order[r] = "none" => order'[r] = "none"]_vars

\* Rows only move forward: what is PLACED can only be CLOSED, and CLOSED and
\* REJECTED are final.
RowsMoveForward ==
    [][\A r \in Rows :
        /\ status[r] = "PLACED" => status'[r] \in {"PLACED", "CLOSED"}
        /\ status[r] \in {"CLOSED", "REJECTED"} => status'[r] = status[r]]_vars

-----------------------------------------------------------------------------
(* What a comment promises and a crash breaks: see README.md.                *)

\* A stop that has fired is not placed again: post_open_stop_arming says that it
\* is idempotent and safe to re-run.
NoStopAfterFire == stops \cap fired = {}
=============================================================================
