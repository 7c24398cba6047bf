---------------------------- MODULE MarketStore ----------------------------
(***************************************************************************)
(* The DuckDB file that every other component reads: the index membership  *)
(* rebuilt from Wikipedia (packages/ingestion/universe) and the daily bars *)
(* that two adapters and two scripts pull into it                          *)
(* (packages/ingestion/adapters, scripts/freshen_universe.py,              *)
(* scripts/backfill_delisted_sp500.py).  Everything is written by upserts  *)
(* (packages/ingestion/storage.py): a row that no later pull produces      *)
(* again stays, unless scripts/clean_ohlcv_and_membership.py deletes it.   *)
(*                                                                         *)
(* Days are calendar days with a session each.  A bar is reduced to the    *)
(* adapter it came from and to whether the session was over when it was    *)
(* read.  A pass over the universe is the steps of its symbols: they       *)
(* commit one by one, in an order that no property depends on, and a pass  *)
(* that dies is one that stops.  The Wikipedia page lists every addition;  *)
(* a removal may be missing from its table, and then the symbol does not   *)
(* come back.  Its table of changes also has those announced for tomorrow, *)
(* and its table of constituents may show them already.  Yahoo and IB have *)
(* every past bar.  The bars of some symbols are followed; the others have *)
(* bars whenever anyone asks.                                              *)
(***************************************************************************)
EXTENDS Integers, FiniteSets, FiniteSetsExt

CONSTANTS
  Symbols,
  Priced,      \* symbols whose bars are followed
  Reassigned,  \* KNOWN_REASSIGNED: tickers the clean-up takes for another's
  Overlap,     \* _OVERLAP_DAYS
  FirstPull,   \* days fetched for a symbol without bars
  Padding,     \* days a backfill goes beyond the end of a membership
  Garbage(_),  \* bound: which subsets of the stored rows may be found bad
  MaxDay, MaxChanges, MaxUnlisted, MaxScripts  \* bounds

ASSUME MarketStoreAssumption ==
  /\ Priced \subseteq Symbols /\ Reassigned \subseteq Symbols
  /\ {Overlap, FirstPull, Padding, MaxDay} \subseteq Nat \ {0}
  /\ {MaxChanges, MaxUnlisted, MaxScripts} \subseteq Nat

VARIABLES
  day, closed,   \* clock: today, and whether its session is over
  was,           \* the index on each day so far
  dated,         \* founding constituents whose "date added" the page gives
  changes,       \* the changes table of the page
  early,         \* symbols of tomorrow's changes that its constituents table shows
  unlisted,      \* symbols that left without a row in the changes table
  membership,    \* index_membership
  bars,          \* ohlcv_daily: per symbol, exchange and day, the row of each source
  pulled,        \* days whose final bar a daily update has asked for in time
  dropped,       \* days whose bar a clean-up deleted and no daily update asked for since
  scripts        \* bound counter: operator scripts run

vars == <<day, closed, was, dated, changes, early, unlisted, membership, bars, pulled, dropped,
          scripts>>
index == <<was, dated, changes, early, unlisted>>
prices == <<bars, pulled, dropped>>

Days == 1..MaxDay
ReliableStart == 1
LongAgo == 0       \* a date before the reliable start
Open == MaxDay + 1 \* end_date IS NULL
Exchanges == {"NYSE", "NASDAQ"}
Sources == {"yfinance", "ib"}

-----------------------------------------------------------------------------
(***************************************************************************)
(* Membership.                                                             *)
(***************************************************************************)
Constituents == was[day]

\* Announced for tomorrow.
Coming(kind) == {c.symbol : c \in {x \in changes : x.kind = kind /\ x.on > day}}

\* The table of constituents.
CurrentSymbols ==
  (Constituents \cup (early \cap Coming("added"))) \ (early \cap Coming("removed"))

Additions(s) == {c.on : c \in {x \in changes : x.symbol = s /\ x.kind = "added"}}
Adds(s) == {a \in Additions(s) : a <= day}
Removals(s) == {c.on : c \in {x \in changes : x.symbol = s /\ x.kind = "removed"}}

\* The cell of a constituent without an addition so far.
DateAdded(s) ==
  CASE Additions(s) # {} -> Max(Additions(s))
    [] Additions(s) = {} /\ s \in dated -> LongAgo
    [] OTHER -> ReliableStart

Row(s, from, to) == [symbol |-> s, start |-> from, end |-> to]

Current_FirstAdd(s) == Row(s, IF Adds(s) # {} THEN Min(Adds(s)) ELSE DateAdded(s), Open)

\* A constituent has one open row, from its last addition.
Current(s) == Row(s, IF Adds(s) # {} THEN Max(Adds(s)) ELSE DateAdded(s), Open)

EndOf_Before(add, removals) ==
  LET later == {r \in removals : r >= add}
  IN  IF later = {} THEN day - 1 ELSE Min(later) - 1

EndOf_Last(add, removals) ==
  LET later == {r \in removals : r >= add}
  IN  IF later = {} THEN day ELSE Max(later)

\* The first removal on or after an addition; today when there is none.  The
\* code uses every removal once, which is the same while they alternate.
EndOf(add, removals) ==
  LET later == {r \in removals : r >= add}
  IN  IF later = {} THEN day ELSE Min(later)

\* A symbol that is no constituent: one row per addition, those to come
\* included, or per removal when no addition is known.
Historical(s) ==
  IF Additions(s) = {} THEN {Row(s, ReliableStart, r) : r \in Removals(s)}
  ELSE {Row(s, a, EndOf(a, Removals(s))) : a \in Additions(s)}

Timeline ==
  {Current(s) : s \in CurrentSymbols}
    \cup UNION {Historical(s) : s \in {c.symbol : c \in changes} \ CurrentSymbols}

Key(r) == <<r.symbol, r.start>>

\* INSERT ... ON CONFLICT (universe, symbol, start_date) DO UPDATE.
Upsert(table, rows) == {r \in table : \A n \in rows : Key(r) # Key(n)} \cup rows

\* query_membership_at: both ends included.
MembersOn(d) == {r.symbol : r \in {x \in membership : x.start <= d /\ d <= x.end}}

RefreshUniverse ==
  /\ membership' = Upsert(membership, Timeline)
  /\ UNCHANGED <<day, closed, index, prices, scripts>>

-----------------------------------------------------------------------------
(***************************************************************************)
(* Bars.                                                                   *)
(***************************************************************************)
MembershipExchange == "NYSE"  \* the placeholder of _reconstruct_timeline
DefaultExchange == "NASDAQ"

\* The rows of one day, and the source that was ingested last.
NoRows == [of |-> [source \in Sources |-> "none"], newest |-> "none"]
NoBars == [x \in Exchanges |-> [d \in Days |-> NoRows]]

\* ON CONFLICT (symbol, exchange, bar_date, source): the new row takes the
\* place of the old one and is the last ingested of its day.
Stored(rows, source, quality) ==
  [of |-> [rows.of EXCEPT ![source] = quality], newest |-> source]

BarDays(s, source) ==
  {d \in Days : \E x \in Exchanges : bars[s][x][d].of[source] # "none"}

\* The bars of from..to go into the store.  The bar of a session that is not
\* over is a partial one, or is missing or so inconsistent that upsert_ohlcv
\* drops it.
Store(s, exchange, source, from, to) ==
  \E kept \in {TRUE, closed \/ to < day} :
    bars' = [bars EXCEPT ![s][exchange] = [d \in Days |->
               IF d \notin from..to \/ (d = day /\ ~kept)
               THEN bars[s][exchange][d]
               ELSE Stored(bars[s][exchange][d], source,
                           IF d < day \/ closed THEN "final" ELSE "partial")]]

\* get_ohlcv: of several sources the row ingested last.
Listed(s, d) == bars[s][MembershipExchange][d]
Read(s, d) == Listed(s, d).of[Listed(s, d).newest]
Readable(s) == {d \in Days : Listed(s, d).newest # "none"}

Over(d) == d < day \/ (d = day /\ closed)
Since(n) == Max({1, day - n})

YfStart_NoOverlap(s) ==
  IF BarDays(s, "yfinance") = {} THEN Since(FirstPull)
  ELSE Max(BarDays(s, "yfinance")) + 1

\* The overlap window of the daily update.
YfStart(s) ==
  IF BarDays(s, "yfinance") = {} THEN Since(FirstPull)
  ELSE Max({1, Max(BarDays(s, "yfinance")) - Overlap, day - (Overlap + 2)})

\* yfinance_adapter.daily_update, one symbol.
YfPull(s) ==
  /\ s \in MembersOn(day)
  /\ Store(s, MembershipExchange, "yfinance", YfStart(s), day)
  /\ pulled' = [pulled EXCEPT ![s] = @ \cup
       {d \in Days : day - (Overlap + 2) <= d /\ Over(d)}]
  /\ dropped' = [dropped EXCEPT ![s] = {d \in @ : d < YfStart(s) \/ ~Over(d)}]
  /\ UNCHANGED <<day, closed, index, membership, scripts>>

IbStart(s) ==
  IF BarDays(s, "ib") = {} THEN Since(FirstPull) ELSE Max(BarDays(s, "ib")) + 1

\* ib_adapter.daily_update, one symbol: only what is missing at the end.
IbPull(s) ==
  /\ s \in MembersOn(day) /\ IbStart(s) <= day
  /\ Store(s, MembershipExchange, "ib", IbStart(s), day)
  /\ UNCHANGED <<day, closed, index, membership, pulled, dropped, scripts>>

\* ib_adapter.backfill_universe over a range the operator gives.
IbBackfill(s) ==
  /\ scripts < MaxScripts /\ s \in MembersOn(day)
  /\ \E from, to \in 1..day : from <= to /\ Store(s, MembershipExchange, "ib", from, to)
  /\ scripts' = scripts + 1
  /\ UNCHANGED <<day, closed, index, membership, pulled, dropped>>

\* freshen_universe, which has just refreshed the membership: years of bars
\* for members that have none.  Given a list the adapter knows no exchange.
Freshen(s) ==
  /\ scripts < MaxScripts /\ s \in MembersOn(day)
  /\ \A source \in Sources : BarDays(s, source) = {}
  /\ Timeline \subseteq membership
  /\ Store(s, DefaultExchange, "ib", 1, day)
  /\ scripts' = scripts + 1
  /\ UNCHANGED <<day, closed, index, membership, pulled, dropped>>

\* backfill_delisted_sp500: the first stretch of every symbol without bars on
\* the membership's exchange, when the bars pass _sanity_check.
FirstStretch(s) == CHOOSE r \in Timeline : r.symbol = s /\ \A o \in Timeline :
                     o.symbol = s => r.start <= o.start
BackfillDelisted(s) ==
  /\ scripts < MaxScripts /\ Readable(s) = {}
  /\ \E r \in Timeline : r.symbol = s
  /\ LET from == Max({1, FirstStretch(s).start})
         to   == Min({day, FirstStretch(s).end + Padding})
     IN  from < to /\ Store(s, MembershipExchange, "yfinance", from, to)
  /\ scripts' = scripts + 1
  /\ UNCHANGED <<day, closed, index, membership, pulled, dropped>>

StoredRows ==
  {r \in Priced \X Exchanges \X Days \X Sources : bars[r[1]][r[2]][r[3]].of[r[4]] # "none"}

\* The rows of a day without those of some sources: the one left is read.
Without(rows, gone) ==
  [of |-> [source \in Sources |-> IF source \in gone THEN "none" ELSE rows.of[source]],
   newest |-> IF rows.newest \notin gone THEN rows.newest
              ELSE CHOOSE source \in Sources \cup {"none"} :
                     IF \E y \in Sources \ gone : rows.of[y] # "none"
                     THEN source \in Sources \ gone /\ rows.of[source] # "none"
                     ELSE source = "none"]

Cleaned(bad) ==
  [s \in Priced |-> [x \in Exchanges |-> [d \in Days |->
     Without(bars[s][x][d], {source \in Sources : <<s, x, d, source>> \in bad})]]]

HasBars_Default(table, s) == \E d \in Days : table[s][DefaultExchange][d].newest # "none"

HasBars(table, s) == \E d \in Days : table[s][MembershipExchange][d].newest # "none"

\* clean_ohlcv_and_membership: rows that jump, are cheap or hardly traded go
\* one by one; then the memberships of the reassigned tickers, whatever bars
\* they have, and of symbols left without a bar on their exchange.
CleanUp ==
  /\ scripts < MaxScripts
  /\ \E bad \in Garbage(StoredRows) :
       /\ bad \subseteq StoredRows
       /\ bars' = Cleaned(bad)
       /\ dropped' = [s \in Priced |-> dropped[s] \cup {d \in 1..day :
            Listed(s, d).newest \in {"none"} \cup
              {source \in Sources : <<s, MembershipExchange, d, source>> \in bad}}]
       /\ membership' = {r \in membership : r.symbol \notin Reassigned
            /\ (r.symbol \in Priced => HasBars(Cleaned(bad), r.symbol))}
  /\ scripts' = scripts + 1
  /\ UNCHANGED <<day, closed, index, pulled>>

-----------------------------------------------------------------------------
(***************************************************************************)
(* The index and the clock.                                                *)
(***************************************************************************)
\* A change takes effect before the session of its day, and is announced on
\* that day or on the one before; one per symbol and day.
CanChange(s, on) ==
  /\ Cardinality(changes) < MaxChanges
  /\ \A c \in changes : c.symbol = s => c.on < on
  /\ \/ on = day /\ day > 1 /\ ~closed
     \/ on = day + 1 /\ day < MaxDay

\* The page gets the row.  Tomorrow's constituents table may be there too.
Announced(s, kind, on) ==
  /\ changes' = changes \cup {[symbol |-> s, kind |-> kind, on |-> on]}
  /\ \/ UNCHANGED early
     \/ on > day /\ early' = early \cup {s}

Joins(s) ==
  /\ s \notin Constituents \cup unlisted
  /\ \E on \in {day, day + 1} :
       /\ CanChange(s, on) /\ Announced(s, "added", on)
       /\ was' = IF on = day THEN [was EXCEPT ![day] = @ \cup {s}] ELSE was
  /\ UNCHANGED <<day, closed, dated, unlisted, membership, prices, scripts>>

Leaves(s) ==
  /\ s \in Constituents
  /\ \E on \in {day, day + 1} :
       /\ CanChange(s, on) /\ Announced(s, "removed", on)
       /\ was' = IF on = day THEN [was EXCEPT ![day] = @ \ {s}] ELSE was
  /\ UNCHANGED <<day, closed, dated, unlisted, membership, prices, scripts>>

\* No row says so.
LeavesUnlisted(s) ==
  /\ s \in Constituents /\ CanChange(s, day) /\ Cardinality(unlisted) < MaxUnlisted
  /\ was' = [was EXCEPT ![day] = @ \ {s}]
  /\ unlisted' = unlisted \cup {s}
  /\ UNCHANGED <<day, closed, dated, changes, early, membership, prices, scripts>>

Close == ~closed /\ closed' = TRUE /\ UNCHANGED <<day, index, membership, prices, scripts>>

\* What was announced takes effect.
Dawn ==
  /\ closed /\ day < MaxDay
  /\ day' = day + 1 /\ closed' = FALSE
  /\ was' = [was EXCEPT ![day + 1] = (was[day] \cup Coming("added")) \ Coming("removed")]
  /\ early' = {}
  /\ UNCHANGED <<dated, changes, unlisted, membership, prices, scripts>>

Init ==
  /\ day = 1 /\ closed = FALSE
  /\ \E founders \in SUBSET Symbols :
       /\ was = [d \in Days |-> IF d = 1 THEN founders ELSE {}]
       /\ dated \in SUBSET founders
  /\ changes = {} /\ early = {} /\ unlisted = {} /\ membership = {}
  /\ bars = [s \in Priced |-> NoBars]
  /\ pulled = [s \in Priced |-> {}] /\ dropped = [s \in Priced |-> {}] /\ scripts = 0

Next ==
  \/ RefreshUniverse \/ CleanUp \/ Close \/ Dawn
  \/ \E s \in Symbols : Joins(s) \/ Leaves(s) \/ LeavesUnlisted(s)
  \/ \E s \in Priced :
       \/ YfPull(s) \/ IbPull(s) \/ IbBackfill(s) \/ Freshen(s) \/ BackfillDelisted(s)

Spec == Init /\ [][Next]_vars

-----------------------------------------------------------------------------
\* The columns of the tables hold what their types say.
TypeOK ==
  /\ day \in Days /\ closed \in BOOLEAN
  /\ membership \subseteq [symbol : Symbols, start : {LongAgo} \cup Days, end : Days \cup {Open}]
  /\ bars \in [Priced -> [Exchanges -> [Days ->
       [of : [Sources -> {"none", "partial", "final"}], newest : Sources \cup {"none"}]]]]

Covers(r, d) == r.start <= d /\ d < r.end

\* Shown early as a constituent, and it has been one before.
BackEarly == {s \in early \cap Coming("added") : Adds(s) # {}}

\* The days that _reconstruct_timeline can know of: the present stretch of a
\* constituent; of another symbol, what is not before its first known addition.
Known(s) ==
  IF s \in CurrentSymbols THEN {d \in 1..day : \A e \in d..day : s \in was[e]}
  ELSE {d \in 1..day : s \in was[d] /\ (Additions(s) # {} => \E a \in Additions(s) : a <= d)}

\* The rebuilt timeline has each of those days and no other, through any
\* history of leaving and coming back and with tomorrow's changes already on
\* the page: it neither loses a stretch it could know of nor invents one.
\* Excepted are symbols whose removal the page does not list, and those it
\* shows back before they are.
TimelineIsFaithful ==
  LET rows == Timeline
  IN  \A s \in Symbols \ (unlisted \cup BackEarly) :
        {d \in 1..day : \E r \in rows : r.symbol = s /\ Covers(r, d)} = Known(s)

\* A closed row of the stored table covers days of membership only, however
\* old the rebuild that left it there (upsert_membership never deletes).
ClosedRowsAreTrue ==
  \A r \in {x \in membership : x.end # Open /\ x.symbol \notin unlisted} :
    \A d \in 1..day : Covers(r, d) => r.symbol \in was[d]

\* A day a symbol truly was a member stays on record, however often the
\* table is rebuilt and whatever the page has come to say: backtests of that
\* day see the same index.  Only the clean-up takes rows out, of the tickers
\* it lists and of symbols left without any bar.
TrueDaysAreKept ==
  [][\A s \in Symbols, d \in 1..day :
       /\ s \in was[d] /\ s \in MembersOn(d) /\ s \notin MembersOn(d)'
       => /\ scripts' # scripts
          /\ s \in Reassigned \/ (s \in Priced /\ Readable(s)' = {})]_vars

\* Once a daily update has run after the close of a day, and no later than
\* the window of the overlap allows, readers see the final bar of that day:
\* whatever partial bar a morning tick or the other adapter has stored, and
\* whatever is pulled later.  Excepted are days before the symbol's first bar,
\* and a day whose bar a clean-up took until a daily update asks for it again.
PulledDaysReadFinal ==
  \A s \in Priced : \A d \in pulled[s] \ dropped[s] :
    (\E e \in 1..d : Listed(s, e).of["yfinance"] # "none")
    => d \in Readable(s) /\ Read(s, d) = "final"

\* "Reconstructs a timeline for every company that has ever been in the index
\* in the modern era" (sp500_history.py:10-11): every day of membership since
\* the reliable start, but for removals the page does not list.
TimelineIsWhole ==
  \A s \in Symbols \ unlisted, d \in 1..day :
    s \in was[d] => \E r \in Timeline : r.symbol = s /\ Covers(r, d)

\* "For each removal, find the matching current row and set its end_date"
\* (sp500_history.py:176-177): after a rebuild no open row is left of a symbol
\* whose removal the page lists.
OpenRowsAreCurrent ==
  [][RefreshUniverse => \A r \in membership' :
       r.end = Open => r.symbol \in Constituents \cup Coming("added") \cup unlisted]_vars

\* "The most recent ADDITION of this symbol: that's the true start_date for
\* this membership stretch" (sp500_history.py:196-197): a constituent's row
\* covers days of membership only.
StartsAreTrue ==
  \A s \in CurrentSymbols, d \in 1..day : Covers(Current(s), d) => s \in was[d]

=============================================================================
