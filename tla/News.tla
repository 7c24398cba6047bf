-------------------------------- MODULE News --------------------------------
(***************************************************************************)
(* The news pipeline (packages/news): for the top picks of a day it        *)
(* gathers the recent SEC filings of each, asks a language model whether   *)
(* they explain the move, and writes one verdict per pick.  The metadata   *)
(* of the filings is pulled by an operator                                 *)
(* (packages/ingestion/sec_filings.py); their texts are fetched when first *)
(* needed and cached in news.sqlite.                                       *)
(*                                                                         *)
(* The scheduler's pipeline and the command line (jobs/news_classify.py)   *)
(* may classify at the same time, and the predictions they rank may be     *)
(* logged again meanwhile.  A text is reduced to whether it came, a        *)
(* prediction to the sign and the rank of its score, and the answer of the *)
(* model, which no property tells apart, to the rubric it was asked with.  *)
(***************************************************************************)
EXTENDS Integers, Sequences, FiniteSets, SequencesExt

CONSTANTS
  Stocks,
  Company,      \* [symbol -> filer]; two share classes have one filer
  Filings,      \* what the SEC publishes: 
                \* [id, company, on, form, document, exhibit]
  ScoreTables,  \* what the predictor may log for a day: [symbol -> score]
  Lookback,     \* _FILING_LOOKBACK_DAYS
  TopN,         \* picks judged per side
  MaxFilings,   \* filings shown per pick
  MaxToday, MaxRuns, MaxPredictions   \* bounds of the exploration

ASSUME NewsAssumption ==
  /\ {Lookback, TopN, MaxFilings, MaxToday} \subseteq Nat \ {0}
  /\ {MaxRuns, MaxPredictions} \subseteq Nat
  /\ \A table \in ScoreTables :
       DOMAIN table \subseteq Stocks /\ \A s \in DOMAIN table : table[s] \in Int

VARIABLES
  today,
  scores,       \* predictions_log: per day, empty until predicted
  listed,       \* edgar_filings: the symbol each accession is stored under
  body,         \* news_articles: what of a symbol's accession has been fetched
  verdicts,     \* predictions_news_verdict: per day and symbol
  job,          \* the classifiers
  started, predicted   \* bound counters

newsVars == <<today, scores, listed, body, verdicts, job, started, predicted>>

Dates == 1..MaxToday
Callers == {"pipeline", "cli"}
Sides == <<"long", "short">>
NoScores == << >>
NoVerdict == [score |-> 0, rubric |-> "none"]
NoSymbol == "nobody"

SideOf(score) == IF score > 0 THEN "long" ELSE "short"

Idle == [phase |-> "idle", asOf |-> 1, side |-> 0, picks |-> << >>, todo |-> << >>,
         loaded |-> {}, fresh |-> {}]

-----------------------------------------------------------------------------
(***************************************************************************)
(* The metadata.                                                           *)
(***************************************************************************)
\* backfill_filings, one symbol: every filing of its filer goes in under the
\* symbol, on conflict with the accession too.  A request that fails is a
\* step that does not happen.
RefreshFilings(s) ==
  /\ listed' = [id \in DOMAIN listed |->
       IF \E f \in Filings : f.id = id /\ f.company = Company[s] /\ f.on <= today
       THEN s ELSE listed[id]]
  /\ UNCHANGED <<today, scores, body, verdicts, job, started, predicted>>

\* _fetch_filings_metadata: newest first, no upper bound on the date; the
\* first max_filings, of which those without a document are passed over.
Recent(s, since) ==
  LET found == {f \in Filings : listed[f.id] = s /\ f.on >= since
                                 /\ f.form \in {"8-K", "10-Q", "10-K"}}
      newest == SetToSortSeq(found, LAMBDA f, g : f.on > g.on \/ (f.on = g.on /\ f.id > g.id))
  IN  SelectSeq(SubSeq(newest, 1, IF Len(newest) < MaxFilings THEN Len(newest) ELSE MaxFilings),
                LAMBDA f : f.document)

-----------------------------------------------------------------------------
(***************************************************************************)
(* One classification: classify_top_picks.                                 *)
(***************************************************************************)
\* _load_top_picks: the strongest TopN of one side, whatever order equal
\* scores come in.
Picks(date, side) ==
  LET table == scores[date]
      ofSide == {s \in DOMAIN table : table[s] # 0 /\ SideOf(table[s]) = side}
      AsStrong(s, t) == table[s] * table[s] >= table[t] * table[t]
      IsRanking(r) ==
        /\ Len(r) = TopN \/ ToSet(r) = ofSide
        /\ \A i \in DOMAIN r : \A s \in ofSide \ {r[j] : j \in 1..(i - 1)} : AsStrong(r[i], s)
        /\ \A i, j \in DOMAIN r : r[i] = r[j] => i = j
      ranked == {r \in UNION {[1..n -> ofSide] : n \in 0..TopN} : IsRanking(r)}
  IN  {[i \in DOMAIN r |-> [symbol |-> r[i], score |-> table[r[i]]]] : r \in ranked}

\* The pipeline classifies today, the command line any day.  Neither starts
\* unless the language model answers.
Start(c, date) ==
  /\ job[c].phase \in {"idle", "done"} /\ started < MaxRuns
  /\ c = "pipeline" => date = today
  /\ job' = [job EXCEPT ![c] = [Idle EXCEPT !.phase = "rank", !.asOf = date, !.side = 1]]
  /\ started' = started + 1
  /\ UNCHANGED <<today, scores, listed, body, verdicts, predicted>>

\* _classify_one_side begins: its picks are those of the moment.
Rank(c) ==
  /\ job[c].phase = "rank"
  /\ \E picks \in Picks(job[c].asOf, Sides[job[c].side]) :
       job' = [job EXCEPT ![c].phase = "pick", ![c].picks = picks, ![c].loaded = @ \cup ToSet(picks)]
  /\ UNCHANGED <<today, scores, listed, body, verdicts, started, predicted>>

\* _trailing_returns, then the filings of the next pick.
NextPick(c) ==
  /\ job[c].phase = "pick" /\ job[c].picks # << >>
  /\ LET j == job[c]
     IN  job' = [job EXCEPT ![c] = [j EXCEPT !.phase = "fetch",
                   !.todo = [i \in DOMAIN Recent(Head(j.picks).symbol, j.asOf - Lookback) |->
                     LET f == Recent(Head(j.picks).symbol, j.asOf - Lookback)[i]
                     IN  [id |-> f.id, part |-> 0, exhibit |-> f.form = "8-K" /\ f.exhibit]]]]
  /\ UNCHANGED <<today, scores, listed, body, verdicts, started, predicted>>

\* A filing's document is followed by its exhibit: 8-Ks only, and only when
\* the index of the accession can be had, which is asked for each time.
Advanced(j) ==
  LET d == Head(j.todo)
      rest == Tail(j.todo)
      onward == [j EXCEPT !.phase = "fetch"]
  IN  {[onward EXCEPT !.todo = rest]}
        \cup (IF d.part = 0 /\ d.exhibit
              THEN {[onward EXCEPT !.todo = <<[d EXCEPT !.part = 1]>> \o rest]} ELSE {})

\* fetch_filings_for_symbol and _maybe_fetch_exhibits, one document found in
\* the cache, whatever is in it.
FromCache(c) ==
  /\ job[c].phase = "fetch" /\ job[c].todo # << >>
  /\ LET j == job[c]
         d == Head(j.todo)
     IN  IF <<Head(j.picks).symbol, d.id, d.part>> \notin body
         THEN job' = [job EXCEPT ![c].phase = "request"]
         ELSE \E after \in Advanced(j) : job' = [job EXCEPT ![c] = after]
  /\ UNCHANGED <<today, scores, listed, body, verdicts, started, predicted>>

\* The answer of the SEC is kept, and so is the empty text of a request that
\* failed; INSERT OR REPLACE asks no more whether the cache is still empty.
Receive(c) ==
  /\ job[c].phase = "request"
  /\ LET j == job[c]
         d == Head(j.todo)
     IN  /\ body' = body \cup {<<Head(j.picks).symbol, d.id, d.part>>}
         /\ \E after \in Advanced(j) : job' = [job EXCEPT ![c] = after]
  /\ UNCHANGED <<today, scores, listed, verdicts, started, predicted>>

Written_OldScore(old, row) == IF old = NoVerdict THEN row ELSE [row EXCEPT !.score = old.score]

\* _upsert_verdict: every column is taken from the new row.
Written(old, row) == row

\* classify_decline, which asks by the rubric of the side.  A model that cannot
\* be reached or does not answer in JSON abstains.
Verdict(pick, side) == [score |-> pick.score, rubric |-> side]

\* The verdict on a pick, its upsert and the commit.
Judge(c) ==
  /\ job[c].phase = "fetch" /\ job[c].todo = << >>
  /\ LET j == job[c]
         p == Head(j.picks)
     IN  /\ verdicts' = [verdicts EXCEPT ![j.asOf][p.symbol] =
                           Written(@, Verdict(p, Sides[j.side]))]
         /\ job' = [e \in Callers |->
              LET k == IF e = c THEN [j EXCEPT !.phase = "pick", !.picks = Tail(@)] ELSE job[e]
              IN  IF k.phase # "idle" /\ k.asOf = j.asOf
                  THEN [k EXCEPT !.fresh = @ \cup {p.symbol}] ELSE k]
  /\ UNCHANGED <<today, scores, listed, body, started, predicted>>

\* Longs, then shorts.
NextSide(c) ==
  /\ job[c].phase = "pick" /\ job[c].picks = << >>
  /\ LET j == job[c]
     IN  job' = [job EXCEPT ![c] = IF j.side < Len(Sides)
                                   THEN [j EXCEPT !.phase = "rank", !.side = @ + 1]
                                   ELSE [j EXCEPT !.phase = "done"]]
  /\ UNCHANGED <<today, scores, listed, body, verdicts, started, predicted>>

\* The process dies, a database is busy, or the model's JSON is no object:
\* the exception ends the whole job.
Abort(c) ==
  /\ job[c].phase \notin {"idle", "done"}
  /\ job' = [job EXCEPT ![c] = Idle]
  /\ UNCHANGED <<today, scores, listed, body, verdicts, started, predicted>>

-----------------------------------------------------------------------------
\* The predictor logs a day, or logs it again with other scores.
Predict ==
  /\ predicted < MaxPredictions
  /\ \E table \in ScoreTables : scores' = [scores EXCEPT ![today] = table]
  /\ predicted' = predicted + 1
  /\ UNCHANGED <<today, listed, body, verdicts, job, started>>

Tomorrow ==
  /\ today < MaxToday /\ today' = today + 1
  /\ UNCHANGED <<scores, listed, body, verdicts, job, started, predicted>>

NewsInit ==
  /\ today = 1
  /\ scores = [d \in Dates |-> NoScores]
  /\ listed = [id \in {f.id : f \in Filings} |-> NoSymbol]
  /\ body = {}
  /\ verdicts = [d \in Dates |-> [s \in Stocks |-> NoVerdict]]
  /\ job = [c \in Callers |-> Idle]
  /\ started = 0 /\ predicted = 0

NewsNext ==
  \/ Predict \/ Tomorrow
  \/ \E s \in Stocks : RefreshFilings(s)
  \/ \E c \in Callers :
       \/ \E date \in 1..today : Start(c, date)
       \/ Rank(c) \/ NextPick(c) \/ FromCache(c) \/ Receive(c) \/ Judge(c)
       \/ NextSide(c) \/ Abort(c)

NewsSpec == NewsInit /\ [][NewsNext]_newsVars

-----------------------------------------------------------------------------
\* A classification that ends has judged every pick it loaded: each has a
\* verdict written since the classification began, by it or by another one of
\* that day.  And every verdict on file is the work of one classification: it
\* was asked with the rubric of the side its score is on, also when the symbol
\* has changed sides between two classifications, or in the middle of one.
PicksAreJudged ==
  /\ \A c \in Callers : job[c].phase = "done" => \A p \in job[c].loaded : p.symbol \in job[c].fresh
  /\ \A d \in Dates, s \in Stocks :
       verdicts[d][s] # NoVerdict => verdicts[d][s].rubric = SideOf(verdicts[d][s].score)

=============================================================================
