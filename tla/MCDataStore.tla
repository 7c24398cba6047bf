---------------------------- MODULE MCDataStore ----------------------------
(***************************************************************************)
(* The market store, the news pipeline and the live walk-forward page.     *)
(* They share no state that a property is about, so a behaviour moves one  *)
(* side and leaves the others where they start.                            *)
(*                                                                         *)
(* Index: memberships, of a symbol that comes and goes up to MaxChanges    *)
(* times, and of a ticker the clean-up lists, a founder or never there.    *)
(* Bars: those of one symbol, a member throughout.                         *)
(* News: two share classes of one filer, with one 8-K that has an exhibit; *)
(* whenever predictions are logged the two are on opposite sides.          *)
(* Page: two requests over files that are written MaxTime times.           *)
(***************************************************************************)
EXTENDS MCMarketStore, News, WalkStatus

VARIABLE side

MCCompany == [s \in Stocks |-> "filer"]
MCFilings ==
  {[id |-> 1, company |-> "filer", on |-> 1, form |-> "8-K", document |-> TRUE, exhibit |-> TRUE]}
MCScoreTables ==
  {[s \in Stocks |-> IF s = up THEN 2 ELSE -1] : up \in Stocks}

\* The two stocks differ in nothing but the scores they are given, the two
\* requests in nothing at all.
MCSymmetry == Permutations(Stocks) \cup Permutations(Requests)

MCInit ==
  /\ Init /\ NewsInit /\ StatusInit
  /\ side \in {"index", "bars", "news", "page"}
  /\ side = "index" => was[1] \cap Priced = {}
  /\ side = "bars" => was[1] = Priced
  /\ side \in {"news", "page"} => was[1] = {}

IndexStep ==
  /\ Next
  /\ {c.symbol : c \in changes'} \cap (Priced \cup Reassigned) = {}
  /\ unlisted' \cap Reassigned = {}
BarsStep == Next /\ changes' = changes /\ unlisted' = unlisted

MCNext ==
  /\ UNCHANGED side
  /\ \/ side = "index" /\ IndexStep /\ UNCHANGED <<newsVars, statusVars>>
     \/ side = "bars" /\ BarsStep /\ UNCHANGED <<newsVars, statusVars>>
     \/ side = "news" /\ NewsNext /\ UNCHANGED <<vars, statusVars>>
     \/ side = "page" /\ StatusNext /\ UNCHANGED <<vars, newsVars>>

MCSpec == MCInit /\ [][MCNext]_<<side, vars, newsVars, statusVars>>

=============================================================================
