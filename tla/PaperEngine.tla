---------------------------- MODULE PaperEngine ----------------------------
(***************************************************************************)
(* The simulated account: packages/paper_trading/engine.py replays the     *)
(* predictions log against the bar store and rewrites paper.sqlite, at     *)
(* 08:35 and at 17:00 CT from the scheduler's pipeline and whenever a      *)
(* dashboard user asks for a rebuild; routes/paper.py reads the tables.    *)
(*                                                                         *)
(* A replay reads its inputs (Load) and then writes one transaction, a     *)
(* trade date after the other; readers keep the old tables until it        *)
(* commits, and another writer waits.  The arithmetic is the code's with   *)
(* whole units instead of floats, rounded down.  Days are sessions; those  *)
(* before day 1 only supply the look-back windows.                         *)
(***************************************************************************)
EXTENDS Integers, FiniteSets, FiniteSetsExt

CONSTANTS
    Symbols,      \* the universe
    Moving,       \* those whose bars vary; the others trade flat
    NLong,        \* n_long
    Holding,      \* holding_days
    Lookback,     \* support_lookback_days
    AtrDays,      \* atr_lookback_days
    Cash,         \* LIVE_PAPER_STARTING_CASH
    RebuildCash,  \* starting_cash of POST /paper/rebuild
    Favourites,   \* symbols that a prediction may rank first
    LastDay,      \* bound: sessions explored
    MaxUpsets     \* bound: rebuilds and steps that raise, taken together

ASSUME PaperAssumption ==
    /\ IsFiniteSet(Symbols) /\ Moving \subseteq Symbols /\ Favourites \subseteq Symbols
    /\ {NLong, Holding, Lookback, AtrDays, LastDay} \subseteq Nat \ {0}
    /\ {Cash, RebuildCash, MaxUpsets} \subseteq Nat

VARIABLES
    day, phase,  \* the clock: "morning" from 08:35 CT, "evening" from 17:00 CT
    market,      \* the bars as the exchange would quote them now
    bars,        \* ohlcv_daily: what the refreshes have stored of them
    picks,       \* predictions_log: combined_score per row
    at,          \* where the tick, and a rebuild, is
    input,       \* what each of the two has read
    book,        \* the replay whose transaction is open, if any
    tables,      \* paper.sqlite, run "default", as committed
    upsets

clockVars == <<day, phase, market>>
vars == <<day, phase, market, bars, picks, at, input, book, tables, upsets>>

Days == 1..LastDay
Writers == {"tick", "rebuild"}
NoRow == -1        \* no prediction is logged
NoStop == 0
Unit == 20         \* stop_buffer_pct is 1/Unit, a combined_score is in Units

Bar(o, h, l, c) == [open |-> o, high |-> h, low |-> l, close |-> c]
NoBar == Bar(0, 0, 0, 0)
Flat == Bar(20, 22, 18, 20)
Dip == Bar(20, 20, 10, 10)
Bounce == Bar(20, 22, 10, 20)

\* What a session can look like five minutes into it (halted, quiet, falling,
\* gapped down, gapped up), and once it is over.
Early(s) ==
    IF s \in Moving
    THEN {NoBar, Bar(20, 20, 20, 20), Bar(20, 20, 15, 15), Bar(10, 10, 10, 10), Bar(40, 40, 40, 40)}
    ELSE {Bar(20, 20, 20, 20)}
Full(s) ==
    IF s \in Moving THEN {NoBar, Dip, Bounce, Bar(10, 12, 8, 10), Bar(40, 44, 36, 40)}
    ELSE {Flat}
Extends(b, e) == b.open = e.open /\ b.high >= e.high /\ b.low <= e.low

(***************************************************************************)
(* The engine's view of the bars: in.bars, with flat days before day 1.    *)
(***************************************************************************)

BarOf(in, s, d) == IF d < 1 THEN Flat ELSE in.bars[s][d]
HasBar(in, s, d) == BarOf(in, s, d) # NoBar

\* The n last days of S.
Newest(S, n) == {d \in S : Cardinality({e \in S : e > d}) < n}

Before(in, s, d) == {e \in (0 - AtrDays)..(d - 1) : HasBar(in, s, e)}

\* The same over the entry day's own bar too: the look-ahead fixed 2026-05-21.
RollingLow_EntryDay(in, s, d) ==
    Min({BarOf(in, s, e).low : e \in Newest(Before(in, s, d + 1), Lookback)})

RollingLow(in, s, d) ==
    Min({BarOf(in, s, e).low : e \in Newest(Before(in, s, d), Lookback)})

Abs(x) == IF x < 0 THEN -x ELSE x

TrueRange(b, previous) ==
    Max({b.high - b.low, Abs(b.high - previous.close), Abs(b.low - previous.close)})

\* Mean true range of the last bars; 0 when there is none to take.
RollingATR(in, s, d) ==
    LET W == Newest(Before(in, s, d), AtrDays + 1)
        Prior(e) == Max({p \in W : p < e})
        ranges == [e \in W \ {Min(W)} |-> TrueRange(BarOf(in, s, e), BarOf(in, s, Prior(e)))]
    IN  IF Cardinality(W) < 2 THEN 0 ELSE SumFunction(ranges) \div (Cardinality(W) - 1)

(***************************************************************************)
(* The replay.  A book is the state of backtest's loop: the last trade     *)
(* date done, cash and realized profit, the open lots, the rows written.   *)
(***************************************************************************)

TradeDates(in) == {d \in Days : \E s \in Symbols : in.picks[d][s] # NoRow}
Index(in, d) == Cardinality({e \in TradeDates(in) : e < d})

NoBook == [by |-> "nobody", done |-> 0, step |-> "mark", budget |-> 0, weights |-> [s \in {} |-> 0],
           cash |-> 0, realized |-> 0, next |-> 0, lots |-> {},
           trades |-> {}, positions |-> {}, equity |-> {}]

\* A missing bar is marked, and closed, at the entry price.
Price(in, lot, d, field) ==
    IF HasBar(in, lot.symbol, d) THEN BarOf(in, lot.symbol, d)[field] ELSE lot.entry

Value(in, lots, d, field) ==
    SumFunction([lot \in lots |-> lot.qty * Price(in, lot, d, field)])

Basis(lots) == SumFunction([lot \in lots |-> lot.qty * lot.entry])

\* A row of paper_equity.
Mark(in, lots, cash, realized, d, kind, field) ==
    LET mv == Value(in, lots, d, field)
    IN  [day |-> d, kind |-> kind, equity |-> cash + mv, cash |-> cash,
         realized |-> realized, unrealized |-> mv - Basis(lots)]

CloseCost(qty, price) == (qty * price) \div 100

\* The cost charged to cash and left out of the profit.
CloseRow_Gross(lot, d, side, price) ==
    [day |-> d, lot |-> lot.lot, symbol |-> lot.symbol, side |-> side, qty |-> lot.qty,
     price |-> price, pnl |-> lot.qty * (price - lot.entry)]

\* The row of paper_trades that closes a lot.
CloseRow(lot, d, side, price) ==
    [day |-> d, lot |-> lot.lot, symbol |-> lot.symbol, side |-> side, qty |-> lot.qty,
     price |-> price, pnl |-> lot.qty * (price - lot.entry) - CloseCost(lot.qty, price)]

Proceeds(rows) == SumFunction([t \in rows |-> t.qty * t.price - CloseCost(t.qty, t.price)])
Profits(rows) == SumFunction([t \in rows |-> t.pnl])

Expired_OneLate(in, lots, d) == {lot \in lots : Index(in, d) - Index(in, lot.day) > Holding}

\* Lots held for Holding trade dates leave at the open.
Expired(in, lots, d) == {lot \in lots : Index(in, d) - Index(in, lot.day) >= Holding}

\* Conviction over volatility; a name without a range keeps its raw score.
RawWeight(in, s, d) ==
    LET atr == RollingATR(in, s, d) IN
    IF atr > 0 THEN (Unit * in.picks[d][s]) \div atr ELSE Unit * in.picks[d][s]

TopLongs(in, d) ==
    LET rows == {s \in Symbols : in.picks[d][s] # NoRow}
    IN  {s \in rows : Cardinality({t \in rows : in.picks[d][t] > in.picks[d][s]}) < NLong}

\* Shares of one name: its part of the slice, equal parts when all weigh 0.
Shares(in, s, d, b) ==
    LET total == SumFunction(b.weights)
        dollars == IF total > 0 THEN (b.budget * b.weights[s]) \div total
                   ELSE b.budget \div Cardinality(DOMAIN b.weights)
    IN  dollars \div BarOf(in, s, d).open

\* The stop below the support, or none when the open is through it already.
StopLevel(in, s, d, price) ==
    LET level == (RollingLow(in, s, d) * (Unit - 1)) \div Unit
    IN  IF level >= price THEN NoStop ELSE level

\* The slice bought at the open of d, nothing without a budget.
Slice(in, d, b) ==
    {[lot |-> b.next, symbol |-> s, qty |-> Shares(in, s, d, b), entry |-> BarOf(in, s, d).open,
      day |-> d, stop |-> StopLevel(in, s, d, BarOf(in, s, d).open)] :
        s \in {t \in DOMAIN b.weights : b.budget > 0 /\ HasBar(in, t, d) /\ Shares(in, t, d, b) > 0}}

OpenRow(lot) ==
    [day |-> lot.day, lot |-> lot.lot, symbol |-> lot.symbol, side |-> "long_open",
     qty |-> lot.qty, price |-> lot.entry, pnl |-> 0]

\* The next trade date of a book.
IsNext(in, d, b) == d \in TradeDates(in) /\ d > b.done /\ \A e \in TradeDates(in) : e > b.done => d <= e

\* Step 1: the mark before trading, and the part of it that a slice may cost.
MarkAtOpen(in, d, b) ==
    LET mark == Mark(in, b.lots, b.cash, b.realized, d, "open_8am_ct", "open")
    IN  [b EXCEPT !.step = "expire", !.equity = @ \cup {mark},
                  !.budget = Max({0, mark.equity \div Holding})]

\* The rows, the cash and the profit of closing some lots.
Closing(b, closes, leaving) ==
    [b EXCEPT !.cash = @ + Proceeds(closes), !.realized = @ + Profits(closes),
              !.lots = @ \ leaving, !.trades = @ \cup closes]

\* Step 2.
Expire(in, d, b) ==
    LET leaving == Expired(in, b.lots, d)
        closes == {CloseRow(lot, d, "long_close", Price(in, lot, d, "open")) : lot \in leaving}
    IN  [Closing(b, closes, leaving) EXCEPT !.step = "weigh"]

\* Step 3: the picks and their weights, then the slice.
Weigh(in, d, b) ==
    [b EXCEPT !.step = "buy", !.weights = [s \in TopLongs(in, d) |-> RawWeight(in, s, d)]]

Buy(in, d, b) ==
    LET slice == Slice(in, d, b)
    IN  [b EXCEPT !.step = "stop", !.weights = NoBook.weights,
                  !.next = IF b.budget > 0 THEN @ + 1 ELSE @,
                  !.cash = @ - Basis(slice),
                  !.lots = @ \cup slice,
                  !.trades = @ \cup {OpenRow(lot) : lot \in slice}]

\* Lots whose stop the day's close, as the store has it, has reached.
StoppedOut(in, d, lots) ==
    {lot \in lots : /\ lot.stop # NoStop
                    /\ HasBar(in, lot.symbol, d)
                    /\ BarOf(in, lot.symbol, d).close <= lot.stop}

Snapshot_All(lots, stopped) == lots

\* The position rows of the day: those of the stopped lots are deleted again.
Snapshot(lots, stopped) == lots \ stopped

\* Steps 4 and 5.
StopOut(in, d, b) ==
    LET stopped == StoppedOut(in, d, b.lots)
        closes == {CloseRow(lot, d, "stop_close", lot.stop) : lot \in stopped}
    IN  [Closing(b, closes, stopped) EXCEPT !.step = "close",
            !.positions = @ \cup {[day |-> d, held |-> lot] : lot \in Snapshot(b.lots, stopped)}]

\* A debit balance is charged a day of margin interest.
Interest(cash) == IF cash < 0 THEN cash \div 100 ELSE 0

\* Steps 6 and 7: the interest, and the closing mark unless it is that of a
\* session still going on.
MarkAtClose(in, d, b) ==
    LET cash == b.cash + Interest(b.cash)
        realized == b.realized + Interest(b.cash)
        skipped == in.skip /\ d = Max(TradeDates(in))
    IN  [b EXCEPT !.step = "mark", !.done = d, !.cash = cash, !.realized = realized,
                  !.equity = IF skipped THEN @
                             ELSE @ \cup {Mark(in, b.lots, cash, realized, d, "close_5pm_ct", "close")}]

\* The body of the loop over the trade dates, step by step.
Body(in, d, b, after) ==
    \/ b.step = "mark" /\ after = MarkAtOpen(in, d, b)
    \/ b.step = "expire" /\ after = Expire(in, d, b)
    \/ b.step = "weigh" /\ after = Weigh(in, d, b)
    \/ b.step = "buy" /\ after = Buy(in, d, b)
    \/ b.step = "stop" /\ after = StopOut(in, d, b)
    \/ b.step = "close" /\ after = MarkAtClose(in, d, b)

\* The headline of paper_runs.
FinalEquity(in, b) ==
    b.cash + Value(in, b.lots, Max(TradeDates(in)), IF in.skip THEN "open" ELSE "close")

\* The tables of the run after the commit, with the input they rest on.
Committed(in, b) ==
    [in |-> in, first |-> Min(TradeDates(in)), last |-> Max(TradeDates(in)),
     final |-> FinalEquity(in, b),
     trades |-> b.trades, positions |-> b.positions, equity |-> b.equity]

\* Without predictions: a flat curve at the starting cash.
Seeded(in) ==
    LET rowOf(kind) == [day |-> in.from, kind |-> kind, equity |-> in.cash, cash |-> in.cash,
                        realized |-> 0, unrealized |-> 0]
    IN  [in |-> in, first |-> in.from, last |-> in.from, final |-> in.cash,
         trades |-> {}, positions |-> {},
         equity |-> {rowOf("open_8am_ct"), rowOf("close_5pm_ct")}]

(***************************************************************************)
(* The clock, the pipeline and the rebuilds.                               *)
(***************************************************************************)

NoBars == [s \in Symbols |-> [d \in Days |-> NoBar]]
NoPicks == [d \in Days |-> [s \in Symbols |-> NoRow]]
NoInput == [picks |-> NoPicks, bars |-> NoBars, skip |-> FALSE, cash |-> Cash, from |-> 1]
\* paper.sqlite without a run row; nothing can be read of it.
NoTables == [in |-> NoInput, first |-> 0, last |-> 0, final |-> 0,
             trades |-> {}, positions |-> {}, equity |-> {}]

Init ==
    /\ day = 1 /\ phase = "morning"
    /\ \E early \in [Symbols -> UNION {Early(s) : s \in Symbols}] :
          /\ \A s \in Symbols : early[s] \in Early(s)
          /\ market = [s \in Symbols |-> [NoBars[s] EXCEPT ![1] = early[s]]]
    /\ bars = NoBars
    /\ picks = NoPicks
    /\ at = [w \in Writers |-> IF w = "tick" THEN "refresh" ELSE "idle"]
    /\ input = [w \in Writers |-> NoInput]
    /\ book = NoBook
    /\ tables = NoTables
    /\ upsets = 0

\* The steps of a tick are each run under _safe_run: one that raises is logged
\* and the next one runs.
Upset == upsets < MaxUpsets /\ upsets' = upsets + 1

Fetched_TodayOnly == [s \in Symbols |-> [bars[s] EXCEPT ![day] = market[s][day]]]

\* us_yfinance_refresh stores the bars of the last sessions.  With no data for
\* today the symbol has no bar; a partial bar is replaced by a later refresh.
Fetched == market

Refresh ==
    /\ at["tick"] = "refresh"
    /\ at' = [at EXCEPT !["tick"] = "predict"]
    /\ \/ bars' = Fetched /\ UNCHANGED upsets
       \/ Upset /\ UNCHANGED bars
    /\ UNCHANGED <<clockVars, picks, input, book, tables>>

\* daily_predict logs a row for each symbol that has a bar today, over those
\* of an earlier tick; one of them is the favourite.
Predict ==
    /\ at["tick"] = "predict"
    /\ at' = [at EXCEPT !["tick"] = "replay"]
    /\ \/ /\ \E best \in Favourites :
                picks' = [picks EXCEPT ![day] =
                    [s \in Symbols |-> IF bars[s][day] = NoBar THEN picks[day][s]
                                       ELSE IF s = best THEN 2 ELSE 1]]
          /\ UNCHANGED upsets
       \/ Upset /\ UNCHANGED picks
    /\ UNCHANGED <<clockVars, bars, input, book, tables>>

\* What backtest reads before its transaction: the predictions, the clock, the
\* bars.  Only the scheduler asks for skip_incomplete_last_close.
Loaded(w) ==
    LET dates == TradeDates([picks |-> picks])
    IN  [picks |-> picks, bars |-> bars,
         skip |-> w = "tick" /\ phase = "morning" /\ dates # {} /\ Max(dates) = day,
         cash |-> IF w = "tick" THEN Cash ELSE RebuildCash,
         from |-> IF w = "tick" THEN 1 ELSE day]

Load(w) ==
    /\ at[w] = IF w = "tick" THEN "replay" ELSE "idle"
    /\ IF w = "rebuild" THEN Upset ELSE UNCHANGED upsets
    /\ input' = [input EXCEPT ![w] = Loaded(w)]
    /\ at' = [at EXCEPT ![w] = "save"]
    /\ UNCHANGED <<clockVars, bars, picks, book, tables>>

Rests(w) == IF w = "tick" THEN "done" ELSE "idle"

Ends(w) ==
    /\ at' = [at EXCEPT ![w] = Rests(w)]
    /\ input' = [input EXCEPT ![w] = NoInput]
    /\ book' = NoBook

\* BEGIN and the first INSERT: the run's old rows are deleted.
Begin(w) ==
    /\ at[w] = "save"
    /\ book.by = "nobody"
    /\ TradeDates(input[w]) # {}
    /\ book' = [NoBook EXCEPT !.by = w, !.cash = input[w].cash]
    /\ UNCHANGED <<clockVars, bars, picks, at, input, tables, upsets>>

Trade(w) ==
    /\ book.by = w
    /\ \E d \in Days : IsNext(input[w], d, book) /\ Body(input[w], d, book, book')
    /\ UNCHANGED <<clockVars, bars, picks, at, input, tables, upsets>>

Commit(w) ==
    /\ book.by = w
    /\ book.done = Max(TradeDates(input[w]))
    /\ tables' = Committed(input[w], book)
    /\ Ends(w)
    /\ UNCHANGED <<clockVars, bars, picks, upsets>>

\* Any exception rolls back, and so does a wait of 5 s for the other writer.
Rollback(w) ==
    /\ at[w] = "save"
    /\ Upset
    /\ at' = [at EXCEPT ![w] = Rests(w)]
    /\ input' = [input EXCEPT ![w] = NoInput]
    /\ book' = IF book.by = w THEN NoBook ELSE book
    /\ UNCHANGED <<clockVars, bars, picks, tables>>

Seed(w) ==
    /\ at[w] = "save"
    /\ book.by = "nobody"
    /\ TradeDates(input[w]) = {}
    /\ tables' = Seeded(input[w])
    /\ Ends(w)
    /\ UNCHANGED <<clockVars, bars, picks, upsets>>

\* The session ends, then the next one opens; no request lasts that long.
Quiet == at["tick"] = "done" /\ at["rebuild"] = "idle"

Close ==
    /\ Quiet /\ phase = "morning"
    /\ phase' = "evening"
    /\ \E full \in [Symbols -> UNION {Full(s) : s \in Symbols}] :
          /\ \A s \in Symbols : full[s] \in Full(s) /\ Extends(full[s], market[s][day])
          /\ market' = [s \in Symbols |-> [market[s] EXCEPT ![day] = full[s]]]
    /\ at' = [at EXCEPT !["tick"] = "refresh"]
    /\ UNCHANGED <<day, bars, picks, input, book, tables, upsets>>

Open ==
    /\ Quiet /\ phase = "evening" /\ day < LastDay
    /\ day' = day + 1
    /\ phase' = "morning"
    /\ \E early \in [Symbols -> UNION {Early(s) : s \in Symbols}] :
          /\ \A s \in Symbols : early[s] \in Early(s)
          /\ market' = [s \in Symbols |-> [market[s] EXCEPT ![day + 1] = early[s]]]
    /\ at' = [at EXCEPT !["tick"] = "refresh"]
    /\ UNCHANGED <<bars, picks, input, book, tables, upsets>>

Next ==
    \/ Refresh \/ Predict \/ Close \/ Open
    \/ \E w \in Writers :
          Load(w) \/ Begin(w) \/ Trade(w) \/ Commit(w) \/ Rollback(w) \/ Seed(w)

Spec == Init /\ [][Next]_vars

-----------------------------------------------------------------------------
(***************************************************************************)
(* What the dashboard derives from the tables (routes/paper.py).           *)
(***************************************************************************)

Opened == {t \in tables.trades : t.side = "long_open"}
Closed == tables.trades \ Opened
Profit == Profits(Closed)

\* The closing rows of an opening row: GET /paper/trades joins on these.
ClosesOf(t) ==
    {c \in tables.trades : c.side # "long_open" /\ c.lot = t.lot /\ c.symbol = t.symbol}

\* GET /paper/snapshot counts Holding sessions of the exchange's calendar.
PlannedExit(entry) == entry + Holding

\* Both routes take the newest day that has a position row.
HeldRows ==
    LET dates == {p.day : p \in tables.positions}
    IN  {p.held : p \in {q \in tables.positions : q.day = Max(dates)}}

\* GET /paper/intraday-mark does not read the cash, it derives it.
IntradayCash == tables.in.cash + Profit - Basis(HeldRows)

-----------------------------------------------------------------------------
(* Correctness *)

TypeOK ==
    /\ day \in Days /\ phase \in {"morning", "evening"}
    /\ \A s \in Symbols, d \in Days : d > day => bars[s][d] = NoBar /\ market[s][d] = NoBar
    /\ \A d \in TradeDates([picks |-> picks]) : d <= day
    /\ at["tick"] \in {"refresh", "predict", "replay", "save", "done"}
    /\ at["rebuild"] \in {"idle", "save"}
    /\ \A e \in tables.equity : e.day \in Days /\ e.equity \in Int
    /\ \A t \in tables.trades : t.qty > 0 /\ t.price > 0
    /\ upsets \in 0..MaxUpsets

\* The account balances: every mark is the starting cash plus what was realized
\* and what is not yet (engine.py:942-952, 1148-1162), and, no interest having
\* been charged, the cash that the live mark derives from the trades and the
\* positions is the cash of the engine's last close (routes/paper.py:856-863).
BookBalances ==
    /\ \A e \in tables.equity : e.equity = tables.in.cash + e.realized + e.unrealized
    /\ \A e \in tables.equity :
          (/\ e.day = tables.last /\ e.kind = "close_5pm_ct"
           /\ \A f \in tables.equity : f.cash >= 0
           /\ \E p \in tables.positions : p.day = tables.last)
          => e.cash = IntradayCash

\* The positions shown for a day are the lots opened by that day and not closed
\* on it or before: never a lot that also appears among the closes of the day
\* (engine.py:1123-1134).
PositionsAreOpenLots ==
    \A t \in Opened, d \in TradeDates(tables.in) :
        (\E p \in tables.positions : p.day = d /\ p.held.lot = t.lot /\ p.held.symbol = t.symbol)
        <=> t.day <= d /\ \A c \in ClosesOf(t) : c.day > d

\* A lot leaves once, and when no stop takes it earlier it leaves at the exit
\* the dashboard announces for it; a session without predictions is not a trade
\* date for the engine and makes that exit late, never early.
ExitAsPlanned ==
    \A t \in Opened :
        /\ Cardinality(ClosesOf(t)) <= 1
        /\ \A c \in ClosesOf(t) :
              /\ c.qty = t.qty /\ c.day >= t.day
              /\ c.side = "long_close" => c.day >= PlannedExit(t.day)
        /\ (PlannedExit(t.day) <= tables.last /\ t.day..PlannedExit(t.day) \subseteq TradeDates(tables.in))
           => \E c \in ClosesOf(t) : c.day <= PlannedExit(t.day)

\* Same picks up to a day, same final bars before it: a later replay opens that
\* day's lots again exactly as they were, with the same sizes and stops, however
\* the day itself went on. No decision at the open looks at the day's own high,
\* low or close (engine.py:570-577).
SameBasis(a, b, d) ==
    /\ d \in TradeDates(a) \cap TradeDates(b)
    /\ a.cash = b.cash
    /\ \A e \in 1..d : a.picks[e] = b.picks[e]
    /\ \A s \in Symbols :
          /\ a.bars[s][d].open = b.bars[s][d].open
          /\ \A e \in 1..(d - 1) : a.bars[s][e] = b.bars[s][e]

Entries(tab, d) == {p.held : p \in {q \in tab.positions : q.held.day = d}}
Fills(tab, d) == {t \in tab.trades : t.day = d /\ t.side = "long_open"}

OpensAreFinal ==
    [][\A d \in Days : SameBasis(tables.in, tables'.in, d) =>
          /\ Fills(tables, d) = Fills(tables', d)
          /\ \A p \in Entries(tables, d), q \in Entries(tables', d) :
                p.symbol = q.symbol => p = q]_tables

\* The claim of engine.py:8, "the model's predictions made off yesterday's
\* close": what was bought at an open does not depend on how that session ended.
PicksKnownAtOpen ==
    [][\A d \in Days :
          (tables.in.cash = tables'.in.cash /\ Fills(tables, d) # {})
          => Fills(tables, d) = Fills(tables', d)]_tables

\* The close of every finished session reaches the tables, on the final bars of
\* that session, by the end of the next session's last tick: a failing refresh,
\* prediction or replay is made good by the later ticks, and so is what a rebuild
\* wrote over them (scheduler.py:160-164, yfinance_adapter.py:329-330).
Landed(d) ==
    d \in TradeDates([picks |-> picks]) =>
        /\ \A s \in Symbols : tables.in.bars[s][d] = market[s][d]
        /\ \E e \in tables.equity : e.day = d /\ e.kind = "close_5pm_ct"

ClosesLand ==
    phase = "evening" /\ Quiet => \A d \in 1..(day - 1) : Landed(d)
=============================================================================
