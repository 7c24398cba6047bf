------------------------------- MODULE Panel -------------------------------
(***************************************************************************)
(* What a model and a prediction are made of: the feature panel            *)
(* (packages/features), the labels and the training set (packages/labels), *)
(* and the way training splits it (packages/modeling/splits.py, train.py). *)
(*                                                                         *)
(* Values are left out.  A feature is identified with the bars it reads, a *)
(* bar with its symbol and date, a label with the date of the close it     *)
(* ends at: that is what look-ahead is about.  Only the swing features     *)
(* choose what they read by the values, so only the highs are kept.  Days  *)
(* are calendar days; lengths are scaled down, keeping their order.        *)
(***************************************************************************)
EXTENDS Integers, FiniteSets, FiniteSetsExt

CONSTANTS
  Symbols,
  Bars,         \* [symbol -> the days it traded]
  Highs,        \* [symbol -> [day -> high of the bar]]
  Spells,       \* [symbol -> <<first, last>> days of its index membership]
  Announced,    \* [symbol -> days of its earnings announcements]
  MacroDays,    \* days the macro table has a value for
  Window,       \* longest rolling window of the price, volume-profile features
  Confirm,      \* _CONFIRMATION_K of the swing features
  Horizon,      \* horizon_days, in bars of a symbol
  Classes,      \* n_classes of the classification label
  Holdout,      \* early_stopping_holdout_days
  CalibrationDays, \* days of the calibration slice
  FoldCount, Embargo, MinTrain     \* PurgedWalkForwardSplit

ASSUME PanelAssumption ==
  /\ \A s \in Symbols :
       /\ IsFiniteSet(Bars[s]) /\ Bars[s] \subseteq Nat
       /\ Announced[s] \subseteq Nat /\ Spells[s][1] \in Nat
  /\ MacroDays \subseteq Nat
  /\ {Window, Confirm, Horizon, Classes, Holdout, CalibrationDays} \subseteq Nat \ {0}
  /\ FoldCount \in Nat \ {0} /\ Embargo \in Nat /\ MinTrain \in Nat

MemberOn(s, t) == Spells[s][1] <= t /\ t <= Spells[s][2]

\* The symbols of a panel: members at any time of its span, so that the rows of
\* a day rest on who was to join after it (JoinReads).
Loaded(from, to) == {s \in Symbols : Spells[s][1] <= to /\ Spells[s][2] >= from}

History(s, from, to) == {b \in Bars[s] : from <= b /\ b <= to}

\* The days of B up to t, and the last n of them (none if there are fewer).
UpTo(B, t) == {b \in B : b <= t}
Trailing(B, t, n) ==
  IF Cardinality(UpTo(B, t)) < n THEN {}
  ELSE {b \in UpTo(B, t) : Cardinality({c \in UpTo(B, t) : c > b}) < n}

-----------------------------------------------------------------------------
(***************************************************************************)
(* The feature groups: the days of the symbol's loaded history B that the  *)
(* row of day t reads.                                                     *)
(***************************************************************************)

\* Returns, realised volatility, drawdown: a window of returns.
PriceReads(B, t) == Trailing(B, t, Window + 1)

\* Exponential smoothing and cumulative volume remember the whole history.
TrendReads(B, t) == UpTo(B, t)
MomentumReads(B, t) == UpTo(B, t)
VolatilityReads(B, t) == UpTo(B, t)
VolumeReads(B, t) == UpTo(B, t)

\* The shape of today's bar, and its gap from the last close.
MicrostructureReads(B, t) == {t} \cup Trailing(B, t, 2)

\* Today's extreme against those of the prior bars.
StructureReads(B, t) == {t} \cup Trailing(B, t, Window + 1)

VolumeProfileReads(B, t) == Trailing(B, t, Window)

\* Position of a day in the history, and the days within k bars of it.
Position(B, t) == Cardinality(UpTo(B, t))
Around(B, t, k) == {b \in B : Position(B, b) - Position(B, t) \in -k..k}

\* _detect_swings: bars that are the highest of the k bars on either side.
Swings(s, B) ==
  {b \in B : /\ Position(B, b) > Confirm /\ Position(B, b) <= Cardinality(B) - Confirm
             /\ \A c \in Around(B, b, Confirm) : Highs[s][c] <= Highs[s][b]}

\* A bug's form: a swing is used from its own bar on.
LastSwing_Unconfirmed(s, B, t) ==
  LET known == {b \in Swings(s, B) : Position(B, b) <= Position(B, t)}
  IN  {b \in known : \A c \in known : c <= b}

\* _last_le: the last swing whose confirming bars are all there by day t; none
\* is the empty set.
LastSwing(s, B, t) ==
  LET known == {b \in Swings(s, B) : Position(B, b) + Confirm <= Position(B, t)}
  IN  {b \in known : \A c \in known : c <= b}

\* To know a swing is to have read the bars around it; its touches are counted
\* over a trailing window.
SwingReads(s, B, t) ==
  Trailing(B, t, Window) \cup UNION {Around(B, b, Confirm) : b \in LastSwing(s, B, t)}

\* Every per-symbol group; the row exists only where the symbol has a bar.
OwnReads(s, B, t) ==
  UNION {PriceReads(B, t), TrendReads(B, t), MomentumReads(B, t), VolatilityReads(B, t),
         VolumeReads(B, t), MicrostructureReads(B, t), StructureReads(B, t),
         VolumeProfileReads(B, t), SwingReads(s, B, t)}

\* Ranks and z-scores of the day run over every symbol of the panel with a bar
\* that day: the membership mask comes after them.  Here, the bars; JoinReads
\* has the memberships.
RankReads(from, to, t) ==
  UNION {OwnReads(s, History(s, from, to), t) :
           s \in {x \in Loaded(from, to) : t \in Bars[x]}}

PanelDates(from, to) == UNION {History(s, from, to) : s \in Loaded(from, to)}

\* Market means, rolled over the dates of the panel.
RegimeReads(from, to, t) ==
  UNION {RankReads(from, to, u) : u \in Trailing(PanelDates(from, to), t, Window)}

\* The days on which the symbols that are ranked or averaged on day t joined the
\* index: a symbol is among them because it is a member by the end of the panel.
JoinReads(from, to, t) ==
  {Spells[s][1] : s \in {x \in Loaded(from, to) :
     Bars[x] \cap ({t} \cup Trailing(PanelDates(from, to), t, Window)) # {}}}

\* The macro table is joined on the day, forward filled.
MacroReads(to, t) == {m \in MacroDays : m <= to /\ m <= t}

\* The last announcement and those before it; one made today counts.  The date
\* of the next one is published beforehand.
EarningsReads(s, t) == UpTo(Announced[s], t)

\* The extensions that had data when the panel was built.
Extensions == {"macro", "earnings"}

\* Days that the row of s on day t of the panel of from..to rests on.
RowReads(s, from, to, t, active) ==
  UNION {OwnReads(s, History(s, from, to), t), RankReads(from, to, t),
         RegimeReads(from, to, t),
         IF "macro" \in active THEN MacroReads(to, t) ELSE {},
         IF "earnings" \in active THEN EarningsReads(s, t) ELSE {}}

\* The rows whose features survive the membership mask.
Rows(from, to) ==
  {r \in Symbols \X UNION {Bars[s] : s \in Symbols} :
     r[1] \in Loaded(from, to) /\ r[2] \in History(r[1], from, to) /\ MemberOn(r[1], r[2])}

-----------------------------------------------------------------------------
(***************************************************************************)
(* Labels and the training set.                                            *)
(***************************************************************************)

\* shift(-horizon): the bars of the symbol that follow t, within the closes
\* loaded.
Following(s, from, to, t) == {b \in History(s, from, to) : b > t}

Labelled(s, from, to, t) == Cardinality(Following(s, from, to, t)) >= Horizon

\* The day of the close a label ends at.
LabelDay(s, from, to, t) ==
  CHOOSE b \in Following(s, from, to, t) :
    Cardinality({c \in Following(s, from, to, t) : c <= b}) = Horizon

\* in_universe and a forward return.
Trainable(from, to) == {r \in Rows(from, to) : Labelled(r[1], from, to, r[2])}

\* A quintile needs as many labelled members on the day as there are classes.
Ranked(from, to) ==
  {r \in Trainable(from, to) :
     Cardinality({x \in Trainable(from, to) : x[2] = r[2]}) >= Classes}

\* train_final_model: the last days only decide when boosting stops.
FitRows(rows, to) == {r \in rows : r[2] <= to - Holdout}
StopRows(rows, to) == rows \ FitRows(rows, to)
TrainableAtAll(rows, to) == FitRows(rows, to) # {} /\ StopRows(rows, to) # {}

\* The slice the classifier's probabilities are calibrated on.
CalibrationRows(from, to) ==
  {r \in Ranked(from, to) : /\ r[2] > to - Holdout - CalibrationDays
                            /\ r[2] <= to - Holdout}

\* The last day anything in rows rests on, features, memberships and labels; 0
\* if nothing.
Knows(rows, from, to, active) ==
  Max({0} \cup {LabelDay(r[1], from, to, r[2]) : r \in rows}
          \cup UNION {RowReads(r[1], from, to, r[2], active)
                         \cup JoinReads(from, to, r[2]) : r \in rows})

-----------------------------------------------------------------------------
(***************************************************************************)
(* Purged walk-forward folds over the dates of a training set.             *)
(***************************************************************************)
Dates(rows) == {r[2] : r \in rows}

\* The date at a position (from 1) of a set of dates.
DateAt(D, i) == CHOOSE d \in D : Cardinality({c \in D : c <= d}) = i

\* A bug's form: one date too few is dropped.
Purge_Short == Max({Embargo, Horizon}) - 1

Purge == Max({Embargo, Horizon})

\* Positions of the first and the last validation date of fold k, from 0.
FirstOf(D, k) == MinTrain + k * ((Cardinality(D) - MinTrain) \div FoldCount)
LastOf(D, k) == IF k < FoldCount - 1 THEN FirstOf(D, k + 1) - 1 ELSE Cardinality(D) - 1

\* split: no fold is made of too short a history, nor one with nothing left to
\* train on.
Split(rows) ==
  LET D == Dates(rows)
  IN  IF MinTrain + FoldCount > Cardinality(D) THEN {}
      ELSE {[train |-> {r \in rows : r[2] <= DateAt(D, FirstOf(D, k) - Purge)},
             test  |-> {r \in rows : /\ r[2] >= DateAt(D, FirstOf(D, k) + 1)
                                     /\ r[2] <= DateAt(D, LastOf(D, k) + 1)}] :
              k \in {j \in 0..(FoldCount - 1) : FirstOf(D, j) - Purge > 0}}

=============================================================================
