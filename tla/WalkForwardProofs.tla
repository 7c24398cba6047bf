-------------------------- MODULE WalkForwardProofs --------------------------
(***************************************************************************)
(* The backtest, for any market, membership, calendar, gap, horizon and    *)
(* number of folds, failures, deaths, lost databases and restores.         *)
(*                                                                         *)
(* Look-ahead is decided in the panels: every feature reads bars up to its *)
(* own day (RowsArePast), and a label ends at a bar that was loaded, so    *)
(* what a model knows ends before the day it is retrained on (FittedIs).   *)
(* A fold is purged because the dates between its training dates and its   *)
(* validation dates can be counted (DatesBetween).                         *)
(*                                                                         *)
(* That a pass without failures leaves no gap is about what is logged:     *)
(* WalkInv says that every database, present or copied, has its days in    *)
(* order (InOrder), so that the last day of a window stands for all of     *)
(* them, which is what a resumed run relies on.                            *)
(*                                                                         *)
(* Hyperparameters are the one thing that look-ahead does not stay out of  *)
(* by itself: what is proved about hindsight is proved for a backtest      *)
(* whose retrains all tune (AllTuned).                                     *)
(***************************************************************************)
EXTENDS WalkForward, FiniteSetTheorems, WellFoundedInduction, TLAPS

(***************************************************************************)
(* Greatest and least elements of finite sets of integers.                 *)
(***************************************************************************)
\* A non-empty family of subsets of a finite set has a minimal member.
LEMMA MinimalMember ==
    ASSUME NEW S, IsFiniteSet(S), NEW T \in SUBSET (SUBSET S), T # {}
    PROVE  \E x \in T : \A y \in T : y \subseteq x => y = x
  <1>1. IsWellFoundedOn(StrictSubsetOrdering(S), FiniteSubsetsOf(S))
    BY FS_StrictSubsetOrderingWellFounded
  <1>2. T \subseteq FiniteSubsetsOf(S)
    BY FS_FiniteSubsetsOfFinite
  <1>3. PICK x \in T : \A y \in T : ~ (<<y, x>> \in StrictSubsetOrdering(S))
    BY <1>1, <1>2, WFMin
  <1>4. ASSUME NEW y \in T, y \subseteq x, y # x PROVE FALSE
    <2>1. <<y, x>> \in (SUBSET S) \X (SUBSET S) /\ <<y, x>>[1] = y /\ <<y, x>>[2] = x
      OBVIOUS
    <2>2. <<y, x>> \in StrictSubsetOrdering(S)
      BY <1>4, <2>1 DEF StrictSubsetOrdering
    <2>3. QED
      BY <1>3, <2>2
  <1>5. QED
    BY <1>4

\* A non-empty finite set of integers has a greatest element.
LEMMA GreatestElement ==
    ASSUME NEW S, \A e \in S : e \in Int, IsFiniteSet(S), S # {}
    PROVE  \E m \in S : \A e \in S : e <= m
  <1>1. PICK T \in SUBSET (SUBSET S) : T = {{e \in S : d <= e} : d \in S}
    OBVIOUS
  <1>2. PICK d \in S : {e \in S : d <= e} \in T
    BY <1>1
  <1>3. T # {}
    BY <1>2
  <1>4. PICK x \in T : \A y \in T : y \subseteq x => y = x
    BY <1>3, MinimalMember
  <1>5. PICK m \in S : x = {e \in S : m <= e}
    BY <1>1, <1>4
  <1>6. ASSUME NEW e \in S, m < e PROVE FALSE
    <2>1. PICK y : y = {f \in S : e <= f}
      OBVIOUS
    <2>2. y \in T
      BY <1>1, <2>1
    <2>3. y \subseteq x
      <3>1. \A f \in S : e <= f => m <= f
        BY <1>6
      <3>2. QED
        BY <1>5, <2>1, <3>1
    <2>4. m \in x /\ m \notin y
      BY <1>5, <1>6, <2>1
    <2>5. QED
      BY <1>4, <2>2, <2>3, <2>4
  <1>7. QED
    BY <1>6

\* Max and Min of a finite set of integers are what their names say.
LEMMA MaxIs ==
  ASSUME NEW S, \A e \in S : e \in Int, IsFiniteSet(S), S # {}
  PROVE  Max(S) \in S /\ \A e \in S : e <= Max(S)
<1>1. PICK m \in S : \A e \in S : e <= m
  BY GreatestElement
<1>2. \E x \in S : \A y \in S : x >= y
  BY <1>1
<1> QED BY <1>2 DEF Max

\* The least element is the negative of the greatest negative.
LEMMA MinIs ==
  ASSUME NEW S, \A e \in S : e \in Int, IsFiniteSet(S), S # {}
  PROVE  Min(S) \in S /\ \A e \in S : Min(S) <= e
<1>1. PICK T : T = {- e : e \in S}
  OBVIOUS
<1>2. IsFiniteSet(T) /\ T # {} /\ \A t \in T : t \in Int
  <2>1. PICK f : f = [e \in S |-> - e]
    OBVIOUS
  <2>2. T = {f[e] : e \in S} /\ T # {} /\ \A t \in T : t \in Int
    BY <1>1, <2>1
  <2>3. f \in Surjection(S, T)
    BY <2>1, <2>2 DEF Surjection
  <2> QED BY <2>2, <2>3, FS_Surjection
<1>3. PICK t \in T : \A u \in T : u <= t
  BY <1>2, GreatestElement
<1>4. PICK m \in S : t = - m
  BY <1>1
<1>5. \A e \in S : m <= e
  BY <1>1, <1>3, <1>4
<1>6. \E x \in S : \A y \in S : x =< y
  BY <1>5
<1> QED BY <1>6 DEF Min

\* A pair is finite.
LEMMA PairIsFinite == ASSUME NEW a, NEW b PROVE IsFiniteSet({a, b})
<1>1. IsFiniteSet({a})
  BY FS_Singleton
<1>2. IsFiniteSet({a} \cup {b})
  BY <1>1, FS_AddElement
<1>3. {a} \cup {b} = {a, b}
  OBVIOUS
<1> QED BY <1>2, <1>3

\* A set of integers between two bounds is finite.
LEMMA BoundedIsFinite ==
  ASSUME NEW lo \in Int, NEW hi \in Int, NEW S, \A e \in S : e \in Int /\ lo <= e /\ e <= hi
  PROVE  IsFiniteSet(S)
<1>1. IsFiniteSet(lo..hi) /\ S \subseteq lo..hi
  BY FS_Interval
<1> QED BY <1>1, FS_Subset

\* A finite set of integers has a member at every position.
LEMMA MemberAt ==
  ASSUME NEW S, IsFiniteSet(S), \A e \in S : e \in Int,
         NEW n \in Nat \ {0}, n <= Cardinality(S)
  PROVE  \E b \in S : Cardinality({c \in S : c <= b}) = n
<1>1. PICK G : G = {b \in S : n <= Cardinality({c \in S : c <= b})}
  OBVIOUS
<1>2. IsFiniteSet(G) /\ \A e \in G : e \in Int
  BY <1>1, FS_Subset
<1>3. G # {}
  <2>1. S # {}
    BY FS_EmptySet
  <2>2. PICK m \in S : \A e \in S : e <= m
    BY <2>1, GreatestElement
  <2>3. {c \in S : c <= m} = S
    BY <2>2
  <2> QED BY <1>1, <2>3
<1>4. PICK b : b \in G /\ \A e \in G : b <= e
  BY <1>2, <1>3, MinIs
<1>5. PICK low : low = {c \in S : c <= b}
  OBVIOUS
<1>6. IsFiniteSet(low) /\ b \in low /\ b \in S /\ n <= Cardinality(low)
  BY <1>1, <1>2, <1>4, <1>5, FS_Subset
<1>7. IsFiniteSet(low \ {b}) /\ Cardinality(low \ {b}) = Cardinality(low) - 1 /\ Cardinality(low) \in Nat
  BY <1>6, FS_RemoveElement, FS_CardinalityType
<1>8. ASSUME n < Cardinality(low) PROVE FALSE
  <2>1. n <= Cardinality(low \ {b}) /\ low \ {b} # {}
    BY <1>7, <1>8, FS_EmptySet
  <2>2. \A e \in low \ {b} : e \in Int /\ e \in S /\ e < b
    BY <1>1, <1>2, <1>4, <1>5
  <2>3. PICK m \in low \ {b} : \A e \in low \ {b} : e <= m
    BY <1>7, <2>1, <2>2, GreatestElement
  <2>4. {c \in S : c <= m} = low \ {b}
    <3>1. b \in Int /\ m \in Int /\ m < b
      BY <1>2, <1>4, <2>2, <2>3
    <3>2. \A c \in S : c <= m => c \in low \ {b}
      BY <1>5, <3>1
    <3>3. \A c \in low \ {b} : c \in S /\ c <= m
      BY <2>2, <2>3
    <3> QED BY <3>2, <3>3
  <2>5. m \in G
    BY <1>1, <2>1, <2>2, <2>4
  <2>6. b \in Int /\ b <= m /\ m \in Int /\ m < b
    BY <1>2, <1>4, <2>2, <2>5
  <2> QED BY <2>6
<1>9. Cardinality(low) = n
  BY <1>6, <1>7, <1>8
<1> QED BY <1>5, <1>6, <1>9

-----------------------------------------------------------------------------
(***************************************************************************)
(* The panel: what a row reads and what a label reaches.                   *)
(***************************************************************************)
\* The bars loaded for a panel are a finite set of days in its span.
LEMMA HistoryIs ==
  ASSUME PanelAssumption, NEW s \in Symbols, NEW from, NEW to
  PROVE  /\ IsFiniteSet(History(s, from, to))
         /\ \A b \in History(s, from, to) : b \in Nat /\ from <= b /\ b <= to
<1>1. IsFiniteSet(Bars[s]) /\ Bars[s] \subseteq Nat /\ History(s, from, to) \subseteq Bars[s]
  BY DEF PanelAssumption, History
<1> QED BY <1>1, FS_Subset DEF History

\* A later bar has a later position.
LEMMA PositionGrows ==
  ASSUME NEW B, IsFiniteSet(B), \A b \in B : b \in Int, NEW t \in Int, NEW c \in B, t < c
  PROVE  Position(B, t) \in Nat /\ Position(B, c) \in Nat /\ Position(B, t) < Position(B, c)
<1>1. IsFiniteSet(UpTo(B, c)) /\ IsFiniteSet(UpTo(B, c) \ {c}) /\ IsFiniteSet(UpTo(B, t))
  BY FS_Subset DEF UpTo
<1>2. c \in UpTo(B, c) /\ UpTo(B, t) \subseteq UpTo(B, c) \ {c}
  BY DEF UpTo
<1>3. Cardinality(UpTo(B, c) \ {c}) = Cardinality(UpTo(B, c)) - 1
  BY <1>1, <1>2, FS_RemoveElement
<1>4. Cardinality(UpTo(B, t)) <= Cardinality(UpTo(B, c) \ {c})
  BY <1>1, <1>2, FS_Subset
<1>5. Cardinality(UpTo(B, t)) \in Nat /\ Cardinality(UpTo(B, c)) \in Nat
  BY <1>1, FS_CardinalityType
<1> QED BY <1>3, <1>4, <1>5 DEF Position

\* The bars that confirm a swing are there when it is used.
LEMMA SwingsArePast ==
  ASSUME PanelAssumption, NEW s, NEW B, IsFiniteSet(B), \A b \in B : b \in Int, NEW t \in Int
  PROVE  \A c \in SwingReads(s, B, t) : c \in B /\ c <= t
<1>1. ASSUME NEW b \in LastSwing(s, B, t), NEW c \in Around(B, b, Confirm) PROVE c \in B /\ c <= t
  <2>1. b \in B /\ c \in B /\ Position(B, b) + Confirm <= Position(B, t)
        /\ Position(B, c) - Position(B, b) \in -Confirm..Confirm
    BY <1>1 DEF LastSwing, Swings, Around
  <2>2. \A x : Position(B, x) \in Nat
    BY FS_Subset, FS_CardinalityType DEF Position, UpTo
  <2>3. Confirm \in Int
    BY DEF PanelAssumption
  <2>4. Position(B, c) <= Position(B, t)
    BY <2>1, <2>2, <2>3
  <2>5. ~ (t < c)
    BY <2>1, <2>2, <2>4, PositionGrows
  <2> QED BY <2>1, <2>5
<1>2. \A c \in Trailing(B, t, Window) : c \in B /\ c <= t
  BY DEF Trailing, UpTo
<1> SUFFICES ASSUME NEW c \in SwingReads(s, B, t) PROVE c \in B /\ c <= t
  OBVIOUS
<1>3. c \in Trailing(B, t, Window) \/ \E b \in LastSwing(s, B, t) : c \in Around(B, b, Confirm)
  BY DEF SwingReads
<1> QED BY <1>1, <1>2, <1>3

\* The features of a symbol read its own bars, today's and earlier ones.
LEMMA OwnArePast ==
  ASSUME PanelAssumption, NEW s, NEW B, IsFiniteSet(B), B \subseteq Nat, NEW t \in Nat
  PROVE  \A c \in OwnReads(s, B, t) : c \in Nat /\ c <= t
<1>1. \A c \in SwingReads(s, B, t) : c \in Nat /\ c <= t
  <2>1. t \in Int /\ \A b \in B : b \in Int
    OBVIOUS
  <2> QED BY <2>1, SwingsArePast
<1>2. \A n : \A c \in Trailing(B, t, n) : c \in Nat /\ c <= t
  BY DEF Trailing, UpTo
<1>3. \A c \in UpTo(B, t) \cup {t} : c \in Nat /\ c <= t
  BY DEF UpTo
<1> QED BY <1>1, <1>2, <1>3 DEF OwnReads, PriceReads, TrendReads, MomentumReads, VolatilityReads, VolumeReads,
                         MicrostructureReads, StructureReads, VolumeProfileReads

\* So do ranks within a day and the market means behind a day.
LEMMA RanksArePast ==
  ASSUME PanelAssumption, NEW from, NEW to, NEW t \in Nat
  PROVE  \A c \in RankReads(from, to, t) : c \in Nat /\ c <= t
<1>1. ASSUME NEW s \in Symbols PROVE \A c \in OwnReads(s, History(s, from, to), t) : c \in Nat /\ c <= t
  BY HistoryIs, OwnArePast
<1> QED BY <1>1 DEF RankReads, Loaded

\* The market means of a day are of members' bars up to that day.
LEMMA RegimesArePast ==
  ASSUME PanelAssumption, NEW from, NEW to, NEW t \in Nat
  PROVE  \A c \in RegimeReads(from, to, t) : c \in Nat /\ c <= t
<1>1. PICK dates : dates = UNION {History(s, from, to) : s \in Loaded(from, to)}
  OBVIOUS
<1>2. dates \subseteq Nat
  BY <1>1, HistoryIs DEF Loaded
<1>3. \A u \in Trailing(dates, t, Window) : u \in Nat /\ u <= t
  BY <1>2 DEF Trailing, UpTo
<1>4. ASSUME NEW u \in Trailing(dates, t, Window), NEW c \in RankReads(from, to, u)
      PROVE  c \in Nat /\ c <= t
  <2>1. u \in Nat /\ u <= t
    BY <1>3
  <2>2. c \in Nat /\ c <= u
    BY <2>1, RanksArePast
  <2> QED BY <2>1, <2>2
<1> QED BY <1>1, <1>4 DEF RegimeReads, PanelDates

\* No feature of a row is of a later day, whichever extensions had data.
LEMMA RowsArePast ==
  ASSUME PanelAssumption, NEW s \in Symbols, NEW from, NEW to, NEW t \in Nat, NEW active
  PROVE  \A c \in RowReads(s, from, to, t, active) : c \in Nat /\ c <= t
<1>1. \A c \in OwnReads(s, History(s, from, to), t) : c \in Nat /\ c <= t
  BY HistoryIs, OwnArePast
<1>2. \A c \in MacroReads(to, t) \cup EarningsReads(s, t) : c \in Nat /\ c <= t
  BY DEF PanelAssumption, MacroReads, EarningsReads, UpTo
<1> QED BY <1>1, <1>2, RanksArePast, RegimesArePast DEF RowReads

\* A label ends at the bar that is Horizon bars ahead, within what is loaded.
LEMMA LabelIs ==
  ASSUME PanelAssumption, NEW s \in Symbols, NEW from, NEW to, NEW t, Labelled(s, from, to, t)
  PROVE  /\ LabelDay(s, from, to, t) \in Following(s, from, to, t)
         /\ Cardinality({c \in Following(s, from, to, t) : c <= LabelDay(s, from, to, t)}) = Horizon
<1>1. PICK F : F = Following(s, from, to, t)
  OBVIOUS
<1>2. IsFiniteSet(F) /\ \A e \in F : e \in Int
  BY <1>1, HistoryIs, FS_Subset DEF Following
<1>3. Horizon \in Nat \ {0} /\ Horizon <= Cardinality(F)
  BY <1>1, <1>2, FS_CardinalityType DEF PanelAssumption, Labelled
<1>4. \E b \in F : Cardinality({c \in F : c <= b}) = Horizon
  BY <1>2, <1>3, MemberAt
<1> QED BY <1>1, <1>4 DEF LabelDay

\* Whoever is ranked in a panel joined the index by its end.
LEMMA JoinsAreIn ==
  ASSUME PanelAssumption, NEW from, NEW to, NEW t
  PROVE  \A c \in JoinReads(from, to, t) : c \in Nat /\ c <= to
BY DEF PanelAssumption, JoinReads, Loaded

\* Nothing a training set rests on is later than its end.
LEMMA KnowsIs ==
  ASSUME PanelAssumption, NEW from \in Int, NEW to \in Int, NEW active,
         NEW rows \in SUBSET Trainable(from, to)
  PROVE  /\ Knows(rows, from, to, active) \in Nat
         /\ Knows(rows, from, to, active) = 0 \/ Knows(rows, from, to, active) <= to
<1>1. ASSUME NEW r \in rows
      PROVE  /\ r[1] \in Symbols /\ r[2] \in Nat /\ r[2] <= to
             /\ LabelDay(r[1], from, to, r[2]) \in Nat /\ LabelDay(r[1], from, to, r[2]) <= to
  <2>1. r \in Rows(from, to) /\ Labelled(r[1], from, to, r[2])
    BY DEF Trainable
  <2>2. r[1] \in Symbols /\ r[2] \in History(r[1], from, to)
    BY <2>1 DEF Rows
  <2>3. LabelDay(r[1], from, to, r[2]) \in History(r[1], from, to)
    BY <2>1, <2>2, LabelIs DEF Following
  <2> QED BY <2>2, <2>3, HistoryIs
<1>2. ASSUME NEW r \in rows, NEW c \in RowReads(r[1], from, to, r[2], active)
      PROVE  c \in Nat /\ c <= to
  <2>1. r[1] \in Symbols /\ r[2] \in Nat /\ r[2] <= to
    BY <1>1
  <2>2. c \in Nat /\ c <= r[2]
    BY <2>1, RowsArePast
  <2> QED BY <2>1, <2>2
<1>2a. ASSUME NEW r \in rows, NEW c \in JoinReads(from, to, r[2])
       PROVE  c \in Nat /\ c <= to
  BY JoinsAreIn
<1>3. PICK K : K = {0} \cup {LabelDay(r[1], from, to, r[2]) : r \in rows}
                  \cup UNION {RowReads(r[1], from, to, r[2], active)
                                \cup JoinReads(from, to, r[2]) : r \in rows}
  OBVIOUS
<1>4. 0 \in K /\ \A e \in K : e \in Nat /\ (e = 0 \/ e <= to)
  BY <1>1, <1>2, <1>2a, <1>3
<1>5. PICK hi \in Int : 0 <= hi /\ to <= hi
  <2>1. CASE 0 <= to
    BY <2>1
  <2>2. CASE ~ (0 <= to)
    <3>1. 0 \in Int /\ 0 <= 0 /\ to <= 0
      BY <2>2
    <3> QED BY <3>1
  <2> QED BY <2>1, <2>2
<1>6. \A e \in K : e \in Int /\ 0 <= e /\ e <= hi
  BY <1>4, <1>5
<1>7. IsFiniteSet(K)
  <2>1. 0 \in Int
    OBVIOUS
  <2> QED BY <1>5, <1>6, <2>1, BoundedIsFinite
<1>8. Max(K) \in K
  BY <1>4, <1>6, <1>7, MaxIs
<1>9. Knows(rows, from, to, active) = Max(K)
  BY <1>3 DEF Knows
<1> QED BY <1>4, <1>8, <1>9


-----------------------------------------------------------------------------
(***************************************************************************)
(* Purged folds.                                                           *)
(***************************************************************************)
\* The date at a position has so many dates up to it.
LEMMA DateAtIs ==
  ASSUME NEW D, IsFiniteSet(D), \A d \in D : d \in Int, NEW i \in Nat \ {0}, i <= Cardinality(D)
  PROVE  DateAt(D, i) \in D /\ Cardinality({c \in D : c <= DateAt(D, i)}) = i
<1>1. \E d \in D : Cardinality({c \in D : c <= d}) = i
  BY MemberAt
<1> QED BY <1>1 DEF DateAt

\* Between two positions lie as many dates as their distance.
LEMMA DatesBetween ==
  ASSUME NEW D, IsFiniteSet(D), \A d \in D : d \in Int,
         NEW i \in Nat \ {0}, NEW j \in Nat \ {0}, i <= j, j <= Cardinality(D),
         NEW x, x = DateAt(D, i), NEW y, y = DateAt(D, j)
  PROVE  x <= y /\ Cardinality({d \in D : x < d /\ d <= y}) = j - i
<1>0. Cardinality(D) \in Nat /\ i <= Cardinality(D)
  <2>1. Cardinality(D) \in Nat
    BY FS_CardinalityType
  <2> QED BY <2>1
<1>1. x \in D /\ y \in D
  <2>1. DateAt(D, i) \in D
    BY <1>0, DateAtIs
  <2>2. DateAt(D, j) \in D
    BY <1>0, DateAtIs
  <2> QED BY <2>1, <2>2
<1>2. PICK X, Y : X = {c \in D : c <= x} /\ Y = {c \in D : c <= y}
  OBVIOUS
<1>3. IsFiniteSet(X) /\ IsFiniteSet(Y) /\ Cardinality(X) = i /\ Cardinality(Y) = j
  BY <1>0, <1>1, <1>2, DateAtIs, FS_Subset
<1>4. x \in Int /\ y \in Int
  BY <1>1
<1>5. x <= y
  <2>1. ASSUME y < x PROVE FALSE
    <3>1. Y \subseteq X \ {x} /\ x \in X
      <4>1. ASSUME NEW c \in Y PROVE c \in X /\ c # x
        <5>1. c \in D /\ c \in Int /\ c <= y
          BY <1>2
        <5>2. c <= x /\ c # x
          BY <1>4, <2>1, <5>1
        <5> QED BY <1>2, <5>1, <5>2
      <4>2. x <= x
        BY <1>4
      <4> QED BY <1>1, <1>2, <4>1, <4>2
    <3>2. IsFiniteSet(X \ {x}) /\ Cardinality(X \ {x}) = i - 1
      BY <1>3, <3>1, FS_RemoveElement
    <3>3. Cardinality(Y) <= Cardinality(X \ {x})
      BY <3>1, <3>2, FS_Subset
    <3> QED BY <1>3, <3>2, <3>3
  <2> QED BY <1>4, <2>1
<1>6. X \subseteq Y /\ Y \ X = {d \in D : x < d /\ d <= y}
  <2>1. \A c \in D : (c <= x => c <= y) /\ (c <= x <=> ~ (x < c))
    <3> TAKE c \in D
    <3>1. c \in Int
      OBVIOUS
    <3> QED BY <1>4, <1>5, <3>1
  <2> QED BY <1>2, <2>1
<1>7. Y \cap X = X
  BY <1>6
<1>8. Cardinality(Y \ X) = Cardinality(Y) - Cardinality(Y \cap X)
  BY <1>3, FS_Difference
<1> QED BY <1>1, <1>3, <1>5, <1>6, <1>7, <1>8

\* The validation dates of a fold are among the dates.
LEMMA FoldPositions ==
  ASSUME PanelAssumption, NEW D, Cardinality(D) \in Nat, MinTrain + FoldCount <= Cardinality(D),
         NEW k \in 0..(FoldCount - 1)
  PROVE  /\ FirstOf(D, k) \in Nat /\ LastOf(D, k) \in Nat
         /\ FirstOf(D, k) <= LastOf(D, k) /\ LastOf(D, k) + 1 <= Cardinality(D)
<1>1. PICK F \in Nat \ {0}, m \in Nat, n \in Nat :
        F = FoldCount /\ m = MinTrain /\ n = Cardinality(D) - MinTrain
  <2>1. FoldCount \in Nat \ {0} /\ MinTrain \in Nat
    BY DEF PanelAssumption
  <2>2. Cardinality(D) - MinTrain \in Nat
    BY <2>1
  <2> QED BY <2>1, <2>2
<1>2. PICK q \in Nat : q = n \div F
  BY <1>1
<1>3. F <= n
  BY <1>1
<1>4. F * q <= n /\ 1 <= q
  BY <1>2, <1>3
<1>5. \A j \in 0..F : j * q \in Nat /\ j * q <= F * q
  OBVIOUS
<1>6. k \in 0..F /\ k + 1 \in 0..F /\ (k + 1) * q = k * q + q
  BY <1>1
<1>7. FirstOf(D, k) = m + k * q /\ FirstOf(D, k + 1) = m + (k + 1) * q
  BY <1>1, <1>2 DEF FirstOf
<1>8. PICK a \in Nat, b \in Nat : a = k * q /\ b = (k + 1) * q
  BY <1>5, <1>6
<1>9. b = a + q /\ b <= n
  BY <1>4, <1>5, <1>6, <1>8
<1>10. CASE k < FoldCount - 1
  <2>1. LastOf(D, k) = m + b - 1
    BY <1>7, <1>8, <1>10 DEF LastOf
  <2> QED BY <1>1, <1>4, <1>7, <1>8, <1>9, <2>1
<1>11. CASE ~ (k < FoldCount - 1)
  <2>1. LastOf(D, k) = m + n - 1
    BY <1>1, <1>11 DEF LastOf
  <2> QED BY <1>1, <1>4, <1>7, <1>8, <1>9, <2>1
<1> QED BY <1>10, <1>11

\* The dates of a training set are finitely many days of its span.
LEMMA DatesAre ==
  ASSUME PanelAssumption, NEW from \in Int, NEW to \in Int, NEW rows \in SUBSET Trainable(from, to)
  PROVE  /\ IsFiniteSet(Dates(rows))
         /\ \A r \in rows : /\ r[1] \in Symbols /\ r[2] \in Int /\ from <= r[2] /\ r[2] <= to
                            /\ Labelled(r[1], from, to, r[2])
         /\ \A d \in Dates(rows) : d \in Int
<1>1. ASSUME NEW r \in rows
      PROVE  /\ r[1] \in Symbols /\ r[2] \in Int /\ from <= r[2] /\ r[2] <= to
             /\ Labelled(r[1], from, to, r[2])
  <2>1. r \in Rows(from, to) /\ Labelled(r[1], from, to, r[2])
    BY DEF Trainable
  <2>2. r[1] \in Symbols /\ r[2] \in History(r[1], from, to)
    BY <2>1 DEF Rows
  <2> QED BY <2>1, <2>2, HistoryIs
<1>2. \A d \in Dates(rows) : d \in Int /\ from <= d /\ d <= to
  BY <1>1 DEF Dates
<1>3. IsFiniteSet(Dates(rows))
  BY <1>2, BoundedIsFinite
<1> QED BY <1>1, <1>2, <1>3

\* No training label of a fold reaches its validation dates, if the symbol has
\* a bar on every date in between.
LEMMA FoldIsPurged ==
  ASSUME PanelAssumption, NEW from \in Int, NEW to \in Int, NEW rows \in SUBSET Trainable(from, to),
         NEW fold \in Split(rows), NEW r \in fold.train,
         \A d \in Dates(rows) :
           r[2] < d /\ d <= LabelDay(r[1], from, to, r[2]) => d \in Bars[r[1]]
  PROVE  /\ LabelDay(r[1], from, to, r[2]) < Min(Dates(fold.test))
         /\ LabelDay(r[1], from, to, r[2]) \in Int /\ Min(Dates(fold.test)) \in Int
<1>1. PICK D : D = Dates(rows)
  OBVIOUS
<1>2. IsFiniteSet(D) /\ (\A d \in D : d \in Int) /\ Cardinality(D) \in Nat
  BY <1>1, DatesAre, FS_CardinalityType
<1>3. MinTrain + FoldCount <= Cardinality(D)
      /\ \E k \in 0..(FoldCount - 1) :
           /\ FirstOf(D, k) - Purge > 0
           /\ fold = [train |-> {x \in rows : x[2] <= DateAt(D, FirstOf(D, k) - Purge)},
                      test  |-> {x \in rows : /\ x[2] >= DateAt(D, FirstOf(D, k) + 1)
                                              /\ x[2] <= DateAt(D, LastOf(D, k) + 1)}]
  <2>1. ~ (MinTrain + FoldCount > Cardinality(D))
    BY <1>1 DEF Split
  <2>2. MinTrain + FoldCount <= Cardinality(D)
    BY <1>2, <2>1 DEF PanelAssumption
  <2> QED BY <1>1, <2>1, <2>2 DEF Split
<1>4. PICK k \in 0..(FoldCount - 1) :
        /\ FirstOf(D, k) - Purge > 0
        /\ fold = [train |-> {x \in rows : x[2] <= DateAt(D, FirstOf(D, k) - Purge)},
                   test  |-> {x \in rows : /\ x[2] >= DateAt(D, FirstOf(D, k) + 1)
                                           /\ x[2] <= DateAt(D, LastOf(D, k) + 1)}]
  BY <1>3
<1>5. PICK f \in Nat, l \in Nat : f = FirstOf(D, k) /\ l = LastOf(D, k) /\ f <= l /\ l + 1 <= Cardinality(D)
  BY <1>2, <1>3, FoldPositions
<1>6. PICK p \in Nat : p = Purge /\ Horizon <= p
  <2>1. Embargo \in Int /\ Horizon \in Int /\ 0 <= Embargo /\ 0 <= Horizon
    BY DEF PanelAssumption
  <2>2. IsFiniteSet({Embargo, Horizon}) /\ {Embargo, Horizon} # {} /\ \A e \in {Embargo, Horizon} : e \in Int
    BY <2>1, PairIsFinite
  <2>3. Max({Embargo, Horizon}) \in {Embargo, Horizon} /\ Horizon <= Max({Embargo, Horizon})
    BY <2>2, MaxIs
  <2> QED BY <2>1, <2>3 DEF Purge
<1>7. PICK i \in Nat \ {0}, j \in Nat \ {0}, e \in Nat \ {0} :
        i = f - p /\ j = f + 1 /\ e = l + 1 /\ i <= j /\ j <= e /\ e <= Cardinality(D)
  BY <1>2, <1>4, <1>5, <1>6
<1>8. PICK x \in D, y \in D, z \in D : x = DateAt(D, i) /\ y = DateAt(D, j) /\ z = DateAt(D, e)
  <2>1. DateAt(D, e) \in D
    BY <1>2, <1>7, DateAtIs
  <2>2. j <= Cardinality(D) /\ i <= Cardinality(D)
    BY <1>2, <1>7
  <2>3. DateAt(D, j) \in D
    BY <1>2, <2>2, DateAtIs
  <2>4. DateAt(D, i) \in D
    BY <1>2, <2>2, DateAtIs
  <2> QED BY <2>1, <2>3, <2>4
<1>9. y <= z /\ Cardinality({d \in D : x < d /\ d <= y}) = p + 1
  <2>1. y <= z
    BY <1>2, <1>7, <1>8, DatesBetween
  <2>2. j <= Cardinality(D) /\ j - i = p + 1 /\ i <= j
    BY <1>2, <1>5, <1>6, <1>7
  <2>3. Cardinality({d \in D : x < d /\ d <= y}) = j - i
    BY <1>2, <1>7, <1>8, <2>2, DatesBetween
  <2> QED BY <2>1, <2>2, <2>3
<1>10. /\ fold.train = {u \in rows : u[2] <= x}
       /\ fold.test = {u \in rows : u[2] >= y /\ u[2] <= z}
  BY <1>4, <1>5, <1>6, <1>7, <1>8
<1>11. PICK T : T = Dates(fold.test)
  OBVIOUS
<1>12. T \subseteq D /\ y \in T /\ \A d \in T : y <= d
  <2>1. PICK u \in rows : u[2] = y
    BY <1>1 DEF Dates
  <2>2. y \in Int /\ y <= y /\ y <= z
    BY <1>2, <1>9
  <2>3. u \in fold.test
    BY <1>10, <2>1, <2>2
  <2>4. T \subseteq D /\ \A d \in T : y <= d
    BY <1>1, <1>2, <1>10, <1>11 DEF Dates
  <2> QED BY <1>11, <2>1, <2>3, <2>4 DEF Dates
<1>13. Min(T) \in T /\ y <= Min(T) /\ Min(T) \in Int
  <2>1. IsFiniteSet(T) /\ T # {} /\ \A d \in T : d \in Int
    BY <1>2, <1>12, FS_Subset
  <2> QED BY <1>12, <2>1, MinIs
<1>14. PICK L : L = LabelDay(r[1], from, to, r[2])
  OBVIOUS
<1>15. PICK near : near = {c \in Following(r[1], from, to, r[2]) : c <= L}
  OBVIOUS
<1>16. /\ r \in rows /\ r[2] <= x /\ r[1] \in Symbols /\ r[2] \in Int /\ from <= r[2]
       /\ L \in Int /\ L <= to /\ IsFiniteSet(near) /\ Cardinality(near) = Horizon
  <2>1. r \in rows /\ r[2] <= x
    BY <1>10
  <2>2. r[1] \in Symbols /\ r[2] \in Int /\ from <= r[2] /\ Labelled(r[1], from, to, r[2])
    BY <2>1, DatesAre
  <2>3. L \in Following(r[1], from, to, r[2]) /\ Cardinality(near) = Horizon
    BY <1>14, <1>15, <2>2, LabelIs
  <2>4. near \subseteq History(r[1], from, to) /\ L \in History(r[1], from, to)
    BY <1>15, <2>3 DEF Following
  <2>5. IsFiniteSet(near) /\ L \in Int /\ L <= to
    BY <2>2, <2>4, HistoryIs, FS_Subset
  <2> QED BY <2>1, <2>2, <2>3, <2>5
<1>17. ASSUME Min(T) <= L PROVE FALSE
  <2>1. {d \in D : x < d /\ d <= y} \subseteq near
    <3> SUFFICES ASSUME NEW d \in D, x < d, d <= y PROVE d \in near
      OBVIOUS
    <3>1. d \in Int /\ x \in Int /\ y \in Int
      BY <1>2
    <3>2. r[2] < d /\ d <= L /\ from <= d /\ d <= to
      BY <1>13, <1>16, <1>17, <3>1
    <3>3. d \in Bars[r[1]]
      BY <1>1, <1>14, <3>2
    <3> QED BY <1>15, <3>2, <3>3 DEF Following, History
  <2>2. p + 1 <= Horizon
    BY <1>9, <1>16, <2>1, FS_Subset
  <2>3. Horizon \in Int
    BY DEF PanelAssumption
  <2> QED BY <1>6, <2>2, <2>3
<1> QED BY <1>11, <1>13, <1>14, <1>16, <1>17


-----------------------------------------------------------------------------
(***************************************************************************)
(* The calendar of a backtest.                                             *)
(***************************************************************************)
\* The days of the span are finitely many, from 1 on.
LEMMA SpanIs ==
  ASSUME NEW S \in SUBSET Span
  PROVE  IsFiniteSet(S) /\ \A d \in S : d \in Nat /\ 1 <= d /\ First <= d /\ d <= Last
<1>1. First \in Int /\ Last \in Int
  BY WalkForwardAssumption
<1>2. \A d \in S : d \in Nat /\ 1 <= d /\ First <= d /\ d <= Last
  BY WalkForwardAssumption DEF Span
<1>3. IsFiniteSet(S)
  BY <1>1, <1>2, BoundedIsFinite
<1> QED BY <1>2, <1>3

\* The window of a retrain date begins on it, and has a last day.
LEMMA WindowIs ==
  ASSUME NEW rd \in RetrainDates
  PROVE  /\ rd \in Span /\ WindowOf(rd) \subseteq Span /\ rd \in WindowOf(rd)
         /\ \A d \in WindowOf(rd) : rd <= d
         /\ Max(WindowOf(rd)) \in WindowOf(rd) /\ \A d \in WindowOf(rd) : d <= Max(WindowOf(rd))
<1>1. rd \in Span /\ WindowOf(rd) \subseteq Span /\ \A d \in WindowOf(rd) : rd <= d
  BY SpanIs DEF RetrainDates, WindowOf
<1>2. rd \in WindowOf(rd)
  <2>1. rd \in Int /\ \A r \in RetrainDates : r \in Int
    BY SpanIs DEF RetrainDates
  <2> QED BY <1>1, <2>1 DEF WindowOf
<1>3. IsFiniteSet(WindowOf(rd)) /\ \A d \in WindowOf(rd) : d \in Int
  BY <1>1, SpanIs
<1>4. Max(WindowOf(rd)) \in WindowOf(rd) /\ \A d \in WindowOf(rd) : d <= Max(WindowOf(rd))
  BY <1>2, <1>3, MaxIs
<1> QED BY <1>1, <1>2, <1>4

\* A day is in one window only.
LEMMA WindowsAreApart ==
  ASSUME NEW rd \in RetrainDates, NEW other \in RetrainDates, NEW d \in WindowOf(rd), d \in WindowOf(other)
  PROVE  rd = other
<1>1. rd \in Int /\ other \in Int /\ d \in Int
  BY WindowIs, SpanIs
<1>2. ~ (rd < other) /\ ~ (other < rd)
  BY <1>1 DEF WindowOf
<1> QED BY <1>1, <1>2

\* Every day of the span is in a window.
LEMMA WindowsCover ==
  ASSUME NEW d \in Span
  PROVE  \E rd \in RetrainDates : d \in WindowOf(rd)
<1>1. PICK M : M = {e \in Span : Month[e] = Month[d]}
  OBVIOUS
<1>2. IsFiniteSet(M) /\ (\A e \in M : e \in Int) /\ d \in M /\ M \subseteq Span
  BY <1>1, SpanIs
<1>3. PICK first : first \in M /\ \A e \in M : first <= e
  BY <1>2, MinIs
<1>4. first \in RetrainDates /\ first <= d
  BY <1>1, <1>2, <1>3 DEF RetrainDates
<1>5. PICK R : R = {r \in RetrainDates : r <= d}
  OBVIOUS
<1>6. R \subseteq Span /\ first \in R
  BY <1>4, <1>5 DEF RetrainDates
<1>7. IsFiniteSet(R) /\ \A r \in R : r \in Int
  BY <1>6, SpanIs
<1>8. PICK rd \in R : \A r \in R : r <= rd
  BY <1>6, <1>7, GreatestElement
<1>9. \A r \in RetrainDates : r > rd => d < r
  <2> SUFFICES ASSUME NEW r \in RetrainDates, r > rd PROVE d < r
    OBVIOUS
  <2>1. r \in Int /\ d \in Int /\ rd \in Int
    BY <1>7, SpanIs DEF RetrainDates
  <2>2. r \notin R
    BY <1>8, <2>1
  <2> QED BY <1>5, <2>1, <2>2
<1>10. d >= rd /\ rd \in RetrainDates
  BY <1>5, <1>7, SpanIs
<1> QED BY <1>9, <1>10 DEF WindowOf

\* The date after rd is the least of the later ones.
LEMMA LaterDates ==
  ASSUME NEW rd \in Int, NEW later, later = {r \in RetrainDates : r > rd}, later # {}
  PROVE  /\ Min(later) \in RetrainDates /\ rd < Min(later)
         /\ \A r \in RetrainDates : r < Min(later) => r <= rd
<1>1. later \subseteq Span
  BY DEF RetrainDates
<1>2. IsFiniteSet(later) /\ \A r \in later : r \in Int
  BY <1>1, SpanIs
<1>3. Min(later) \in later /\ \A r \in later : Min(later) <= r
  BY <1>2, MinIs
<1>4. \A r \in RetrainDates : r \in Int
  BY SpanIs DEF RetrainDates
<1> QED BY <1>2, <1>3, <1>4

-----------------------------------------------------------------------------
(***************************************************************************)
(* A retrain and a prediction look at nothing later.                       *)
(***************************************************************************)
\* Two integers have a maximum.
LEMMA MaxOfPair ==
  ASSUME NEW a \in Int, NEW b \in Int
  PROVE  Max({a, b}) \in {a, b}
<1>1. IsFiniteSet({a, b}) /\ {a, b} # {} /\ \A e \in {a, b} : e \in Int
  BY PairIsFinite
<1> QED BY <1>1, MaxIs

\* What a training for rd fits, or tunes, rests on nothing of rd or later.
LEMMA FitIs ==
  ASSUME NEW rd \in Trainables, NEW active \in SUBSET Extensions
  PROVE  /\ Fit(rd, active).reg \in Int /\ Fit(rd, active).reg < rd
         /\ Fit(rd, active).cls \in Int /\ Fit(rd, active).cls < rd
<1>1. PICK from \in Int, to \in Int :
        from = TrainStart(rd) /\ to = TrainEnd(rd) /\ rd \in Int /\ to < rd
  <2>1. rd \in Int
    BY WindowIs, SpanIs DEF Trainables
  <2>2. Gap \in Int /\ 0 < Gap /\ Lookback \in Int
    BY WalkForwardAssumption
  <2> QED BY <2>1, <2>2 DEF TrainStart, TrainEnd
<1>3. /\ RegressionRows(rd) \in SUBSET Trainable(from, to)
      /\ ClassRows(rd) \in SUBSET Trainable(from, to)
      /\ CalibrationRows(from, to) \in SUBSET Trainable(from, to)
  BY <1>1 DEF RegressionRows, ClassRows, CalibrationRows, Ranked
<1>4. 0 <= to
  <2>1. PICK r : r \in RegressionRows(rd)
    BY DEF Trainables, TrainableAtAll, FitRows
  <2>2. r \in Rows(from, to)
    BY <1>3, <2>1 DEF Trainable
  <2>3. r[1] \in Symbols /\ r[2] \in History(r[1], from, to)
    BY <2>2 DEF Rows
  <2>4. r[2] \in Nat /\ r[2] <= to
    BY <2>3, HistoryIs, PanelAssumption
  <2> QED BY <1>1, <2>4
<1>5. \A rows \in SUBSET Trainable(from, to) :
        Knows(rows, from, to, active) \in Int /\ Knows(rows, from, to, active) <= to
  <2> TAKE rows \in SUBSET Trainable(from, to)
  <2>1. Knows(rows, from, to, active) \in Nat
        /\ (Knows(rows, from, to, active) = 0 \/ Knows(rows, from, to, active) <= to)
    BY <1>1, KnowsIs, PanelAssumption
  <2> QED BY <1>4, <2>1
<1>6. PICK a \in Int, b \in Int, c \in Int :
        /\ a = Knows(RegressionRows(rd), from, to, active) /\ a <= to
        /\ b = Knows(ClassRows(rd), from, to, active) /\ b <= to
        /\ c = Knows(CalibrationRows(from, to), from, to, active) /\ c <= to
  BY <1>3, <1>5
<1>7. PICK m \in Int : m = Max({b, c}) /\ m <= to
  BY <1>6, MaxOfPair
<1>7a. \A r, x : FitResult(r, x).of = r /\ FitResult(r, x).columns = x
  BY DEF FitResult
<1>8. FitResult(rd, active) \in FitResults
  BY DEF Trainables, FitResults
<1>9. \A f \in FitResults : f.of = rd /\ f.columns = active => f = FitResult(rd, active)
  BY <1>7a DEF FitResults
<1>10. PICK fit : fit = CHOOSE f \in FitResults : f.of = rd /\ f.columns = active
  OBVIOUS
<1>11. fit = FitResult(rd, active)
  BY <1>7a, <1>8, <1>9, <1>10
<1>12. fit.reg = a /\ fit.cls = m
  BY <1>1, <1>6, <1>7, <1>11 DEF FitResult
<1> QED BY <1>1, <1>6, <1>7, <1>10, <1>12 DEF Fit

\* The retrains of a backtest all tune.
AllTuned == RetrainDates \subseteq Tuned

\* Then a model fitted for rd knows nothing of rd or later.
LEMMA FittedIs ==
  ASSUME NEW rd \in Trainables, NEW active \in SUBSET Extensions
  PROVE  /\ Fitted("reg", rd, active).of = rd /\ Fitted("cls", rd, active).of = rd
         /\ AllTuned => /\ Fitted("reg", rd, active).knows \in Int
                        /\ Fitted("reg", rd, active).knows < rd
                        /\ Fitted("cls", rd, active).knows \in Int
                        /\ Fitted("cls", rd, active).knows < rd
<1>1. PICK a, b, config : a = Fit(rd, active).reg /\ b = Fit(rd, active).cls /\ config = Configured(rd, active)
  OBVIOUS
<1>2. /\ Fitted("reg", rd, active) = [of |-> rd, columns |-> active, tuned |-> config.of,
                                      knows |-> Max({a, config.reg})]
      /\ Fitted("cls", rd, active) = [of |-> rd, columns |-> active, tuned |-> config.of,
                                      knows |-> Max({b, config.cls})]
  BY <1>1 DEF Fitted, Fit
<1>3. ASSUME AllTuned
      PROVE  /\ Max({a, config.reg}) \in Int /\ Max({a, config.reg}) < rd
             /\ Max({b, config.cls}) \in Int /\ Max({b, config.cls}) < rd
  <2>1. config = [of |-> rd, reg |-> a, cls |-> b]
    BY <1>1, <1>3 DEF AllTuned, Configured, Trainables
  <2>2. config.reg = a /\ config.cls = b
    BY <2>1
  <2>3. a \in Int /\ a < rd /\ b \in Int /\ b < rd
    BY <1>1, FitIs
  <2>4. Max({a, a}) \in {a, a} /\ Max({b, b}) \in {b, b}
    BY <2>3, MaxOfPair
  <2> QED BY <2>2, <2>3, <2>4
<1> QED BY <1>2, <1>3

\* A row of a prediction panel reads nothing later than its day.
LEMMA ReadsArePast ==
  ASSUME NEW rd \in RetrainDates, NEW active \in SUBSET Extensions, NEW d \in WindowOf(rd)
  PROVE  PanelDay(rd, active, d).reads \in Int /\ PanelDay(rd, active, d).reads <= d
<1>1. PICK to : to = Max(WindowOf(rd))
  OBVIOUS
<1>2. PICK last, joins :
        /\ last = [e \in WindowOf(rd) |->
             Max({0} \cup UNION {RowReads(s, rd - Warmup, to, e, active) : s \in Predictable(e)})]
        /\ joins = [e \in WindowOf(rd) |-> Max({0} \cup UNION {JoinReads(rd - Warmup, to, e)})]
  OBVIOUS
<1>3. last[d] \in Int /\ last[d] <= d
  <2>1. PICK K : K = {0} \cup UNION {RowReads(s, rd - Warmup, to, d, active) : s \in Predictable(d)}
    OBVIOUS
  <2>2. d \in Nat
    BY WindowIs, SpanIs
  <2>3. \A s \in Predictable(d) : \A c \in RowReads(s, rd - Warmup, to, d, active) :
          c \in Nat /\ c <= d
    BY <2>2, RowsArePast, PanelAssumption DEF Predictable
  <2>4. 0 \in K /\ \A c \in K : c \in Int /\ 0 <= c /\ c <= d
    BY <2>1, <2>2, <2>3
  <2>5. IsFiniteSet(K)
    <3>1. 0 \in Int /\ d \in Int
      BY <2>2
    <3> QED BY <2>4, <3>1, BoundedIsFinite
  <2>6. Max(K) \in K
    BY <2>4, <2>5, MaxIs
  <2> QED BY <1>2, <2>1, <2>4, <2>6
<1>4. PICK rows : rows = {[day |-> e, reads |-> last[e], joins |-> joins[e]] : e \in WindowOf(rd)}
  OBVIOUS
<1>5. PanelResult(rd, active) =
        [of |-> rd, columns |-> active,
         days |-> {[day |-> e,
                    reads |-> Max({0} \cup UNION {RowReads(s, rd - Warmup, to, e, active) : s \in Predictable(e)}),
                    joins |-> Max({0} \cup UNION {JoinReads(rd - Warmup, to, e)})] : e \in WindowOf(rd)}]
  BY <1>1 DEF PanelResult
<1>6. PanelResult(rd, active) = [of |-> rd, columns |-> active, days |-> rows]
  <2>1. rows = {[day |-> e,
                 reads |-> Max({0} \cup UNION {RowReads(s, rd - Warmup, to, e, active) : s \in Predictable(e)}),
                 joins |-> Max({0} \cup UNION {JoinReads(rd - Warmup, to, e)})] : e \in WindowOf(rd)}
    BY <1>2, <1>4
  <2> QED BY <1>5, <2>1
<1>7. \A r, x : PanelResult(r, x).of = r /\ PanelResult(r, x).columns = x
  BY DEF PanelResult
<1>8. PanelResult(rd, active) \in PanelResults
  BY DEF PanelResults
<1>9. \A p \in PanelResults : p.of = rd /\ p.columns = active => p = PanelResult(rd, active)
  BY <1>7 DEF PanelResults
<1>10. PICK panel : panel = CHOOSE p \in PanelResults : p.of = rd /\ p.columns = active
  OBVIOUS
<1>11. panel.days = rows
  <2>1. panel = PanelResult(rd, active)
    BY <1>7, <1>8, <1>9, <1>10
  <2> QED BY <1>6, <2>1
<1>12. PICK r : r = CHOOSE x \in rows : x.day = d
  OBVIOUS
<1>13. \E x \in rows : x.day = d
  <2>1. PICK x \in rows : x = [day |-> d, reads |-> last[d], joins |-> joins[d]]
    BY <1>4
  <2> QED BY <2>1
<1>14. r \in rows /\ r.day = d
  BY <1>12, <1>13
<1>15. r.reads = last[d]
  BY <1>4, <1>14
<1>16. PanelDay(rd, active, d) = r
  BY <1>10, <1>11, <1>12 DEF PanelDay
<1> QED BY <1>3, <1>15, <1>16


-----------------------------------------------------------------------------
(***************************************************************************)
(* The inductive invariant.                                                *)
(***************************************************************************)
\* A model is of rd or before, and if retrains tune knows nothing of that day.
Honest(model, rd) ==
  /\ model.of \in Int /\ model.of <= rd
  /\ AllTuned => model.knows \in Int /\ model.knows < model.of

HonestRow(d, row) ==
  /\ row.of \in Int /\ row.reads \in Int /\ row.of <= d /\ row.reads <= d
  /\ Honest(row.reg, row.of) /\ Honest(row.cls, row.of)

HonestLog(rows) == DOMAIN rows \subseteq Span /\ \A d \in DOMAIN rows : HonestRow(d, rows[d])

\* A day is accounted for if there is nothing to predict on it, or if it is
\* logged or was once passed over.
Accounted(d, rows, passed) == Predictable(d) # {} => d \in DOMAIN rows \cup passed
Covered(rd, rows, passed) == \A d \in WindowOf(rd) : Accounted(d, rows, passed)

\* The days of a window are predicted in order: if its last day is there, all
\* the others are accounted for.
InOrder(rows, passed) ==
  \A rd \in RetrainDates : Max(WindowOf(rd)) \in DOMAIN rows => Covered(rd, rows, passed)

RunPhases == {"down", "copy", "open", "window", "panel", "predict", "end", "reported"}

IsRun(k) ==
  /\ k = [at |-> k.at, rd |-> k.rd, done |-> k.done, reg |-> k.reg,
          cls |-> k.cls, config |-> k.config, columns |-> k.columns, panel |-> k.panel, todo |-> k.todo]
  /\ k.at \in RunPhases /\ k.rd \in Int /\ k.panel \in SUBSET Extensions
  /\ k.at \in {"copy", "open"} => k.rd = 0
  /\ k.at \in {"window", "panel", "predict"} => k.rd \in RetrainDates
  /\ \A model \in {k.reg, k.cls} :
       \/ Honest(model, k.rd)
       \/ model = NoModel /\ k.at \notin {"panel", "predict"}
  /\ k.at = "predict" => k.todo \subseteq WindowOf(k.rd)

\* What a pass has behind it: the windows before the one at hand, if nothing
\* failed, and the days before the one at hand in any case.
IsPass(k, rows, passed, whole) ==
  /\ k.at \notin {"down", "reported"} => k.done \subseteq DOMAIN rows
  /\ k.at \in {"window", "panel", "predict", "end"} /\ whole =>
       \A rd \in RetrainDates : rd < k.rd \/ k.at = "end" => Covered(rd, rows, passed)
  /\ k.at = "predict" => \A d \in WindowOf(k.rd) \ k.todo : Accounted(d, rows, passed)

IsBackup(b, passed, time) ==
  /\ b = [kind |-> b.kind, at |-> b.at, rows |-> b.rows, whole |-> b.whole]
  /\ b.kind \in {"startup", "loop"} /\ b.at \in 1..time /\ b.whole \in BOOLEAN
  /\ HonestLog(b.rows) /\ InOrder(b.rows, passed)

BackupsAreSound ==
  /\ clock \in Nat
  /\ \A b \in backups : IsBackup(b, skipped, clock)
  /\ \A b, c \in backups : b.at = c.at => b = c
  /\ run.at = "copy" => \E b \in backups : b.kind = "startup" /\ b.at = clock

RestoreIsSound ==
  /\ restore = [at |-> restore.at, rows |-> restore.rows]
  /\ restore.at # "idle" =>
       /\ AtRest /\ HonestLog(restore.rows) /\ InOrder(restore.rows, skipped)

WalkInv ==
  /\ HonestLog(log) /\ InOrder(log, skipped)
  /\ IsRun(run) /\ IsPass(run, log, skipped, clean)
  /\ BackupsAreSound /\ RestoreIsSound

-----------------------------------------------------------------------------
\* An empty database.
LEMMA EmptyLog == DOMAIN <<>> = {} /\ HonestLog(<<>>) /\ \A passed : InOrder(<<>>, passed)
<1>1. DOMAIN <<>> = {}
  OBVIOUS
<1> QED BY <1>1 DEF HonestLog, InOrder

\* More that is logged, or passed over, accounts for more.
LEMMA CoveredGrows ==
  ASSUME NEW rows, NEW more, NEW passed, NEW given, DOMAIN rows \subseteq DOMAIN more, passed \subseteq given
  PROVE  /\ \A d : Accounted(d, rows, passed) => Accounted(d, more, given)
         /\ \A rd : Covered(rd, rows, passed) => Covered(rd, more, given)
<1>1. \A d : Accounted(d, rows, passed) => Accounted(d, more, given)
  BY DEF Accounted
<1> QED BY <1>1 DEF Covered

\* More that was passed over leaves the days in order.
LEMMA InOrderGrows ==
  ASSUME NEW rows, NEW passed, NEW given, passed \subseteq given, InOrder(rows, passed)
  PROVE  InOrder(rows, given)
BY CoveredGrows DEF InOrder

\* Nothing is predicted, copied or restored at first.
LEMMA WalkInit == Init => WalkInv
<1> SUFFICES ASSUME Init PROVE WalkInv
  OBVIOUS
<1>1. HonestLog(log) /\ InOrder(log, skipped)
  BY EmptyLog DEF Init
<1>2. IsRun(run)
  BY DEF Init, Down, IsRun, RunPhases
<1>3. IsPass(run, log, skipped, clean)
  BY DEF Init, Down, IsPass
<1>4. BackupsAreSound /\ RestoreIsSound
  BY DEF Init, Down, BackupsAreSound, RestoreIsSound, NoRestore
<1> QED BY <1>1, <1>2, <1>3, <1>4 DEF WalkInv

\* A step of the backtest that logs nothing and copies nothing.
LEMMA RunMoves ==
  ASSUME WalkInv, UNCHANGED <<log, backups, restore, skipped, clock>>,
         run'.at # "copy", ~AtRest \/ AtRest',
         IsRun(run'), IsPass(run', log, skipped, clean')
  PROVE  WalkInv'
<1>1. BackupsAreSound'
  BY DEF WalkInv, BackupsAreSound
<1>2. RestoreIsSound'
  BY DEF WalkInv, RestoreIsSound
<1> QED BY <1>1, <1>2 DEF WalkInv

\* The retrain date that follows: what was of the past stays so.
LEMMA NextDateIs ==
  ASSUME IsRun(run), run.at \in {"open", "window", "panel", "predict"}, NEW k, k = NextDate(run.rd)
  PROVE  /\ IsRun(k) /\ k.done = run.done
         /\ \/ k.at = "end" /\ \A r \in RetrainDates : r <= run.rd
            \/ k.at = "window" /\ \A r \in RetrainDates : r < k.rd => r <= run.rd
<1>1. run.rd \in Int
  BY DEF IsRun
<1>2. PICK later : later = {r \in RetrainDates : r > run.rd}
  OBVIOUS
<1>3. CASE later = {}
  <2>1. k = [run EXCEPT !.at = "end"]
    BY <1>2, <1>3 DEF NextDate
  <2>2. /\ k = [at |-> k.at, rd |-> k.rd, done |-> k.done, reg |-> k.reg,
                cls |-> k.cls, config |-> k.config, columns |-> k.columns, panel |-> k.panel, todo |-> k.todo]
        /\ k.at = "end" /\ k.rd = run.rd /\ k.done = run.done /\ k.reg = run.reg /\ k.cls = run.cls
        /\ k.panel = run.panel
    BY <2>1 DEF IsRun
  <2>3. IsRun(k)
    BY <2>2 DEF IsRun, RunPhases
  <2>4. \A r \in RetrainDates : r <= run.rd
    <3>1. \A r \in RetrainDates : r \in Int
      BY SpanIs DEF RetrainDates
    <3> QED BY <1>1, <1>2, <1>3, <3>1
  <2> QED BY <2>2, <2>3, <2>4
<1>4. CASE later # {}
  <2>1. PICK rd : rd = Min(later) /\ rd \in RetrainDates /\ run.rd < rd /\ \A r \in RetrainDates : r < rd => r <= run.rd
    BY <1>1, <1>2, <1>4, LaterDates
  <2>2. k = [run EXCEPT !.at = "window", !.rd = rd]
    BY <1>2, <1>4, <2>1 DEF NextDate
  <2>3. /\ k = [at |-> k.at, rd |-> k.rd, done |-> k.done, reg |-> k.reg,
                cls |-> k.cls, config |-> k.config, columns |-> k.columns, panel |-> k.panel, todo |-> k.todo]
        /\ k.at = "window" /\ k.rd = rd /\ k.done = run.done /\ k.reg = run.reg /\ k.cls = run.cls
        /\ k.panel = run.panel
    BY <2>2 DEF IsRun
  <2>4. rd \in Int
    BY <2>1, SpanIs DEF RetrainDates
  <2>5. \A model : Honest(model, run.rd) => Honest(model, rd)
    BY <1>1, <2>1, <2>4 DEF Honest
  <2>6. IsRun(k)
    BY <2>1, <2>3, <2>4, <2>5 DEF IsRun, RunPhases
  <2> QED BY <2>1, <2>3, <2>6
<1> QED BY <1>3, <1>4

\* A window is left for the next date: if the pass is whole, the window at hand
\* must be covered.
LEMMA NextDateKeeps ==
  ASSUME WalkInv, run.at \in {"open", "window", "panel", "predict"}, run' = NextDate(run.rd),
         UNCHANGED <<log, backups, restore, skipped, clock>>, clean' => clean,
         clean' /\ run.at # "open" => Covered(run.rd, log, skipped)
  PROVE  WalkInv'
<1>1. PICK k : k = run' /\ k = NextDate(run.rd)
  OBVIOUS
<1>2. /\ IsRun(k) /\ k.done = run.done
      /\ \/ k.at = "end" /\ \A r \in RetrainDates : r <= run.rd
         \/ k.at = "window" /\ \A r \in RetrainDates : r < k.rd => r <= run.rd
  BY <1>1, NextDateIs DEF WalkInv
<1>3. run.rd \in Int /\ \A r \in RetrainDates : r \in Int /\ r # 0 /\ 0 < r
  <2>1. run.rd \in Int
    BY DEF WalkInv, IsRun
  <2>2. \A r \in RetrainDates : r \in Nat /\ 1 <= r
    BY SpanIs DEF RetrainDates
  <2> QED BY <2>1, <2>2
<1>4. ASSUME clean', NEW rd \in RetrainDates, rd < k.rd \/ k.at = "end"
      PROVE  Covered(rd, log, skipped)
  <2>1. rd <= run.rd
    BY <1>2, <1>4
  <2>2. run.at # "open"
    BY <1>3, <2>1 DEF WalkInv, IsRun
  <2>3. rd < run.rd \/ rd = run.rd
    BY <1>3, <2>1
  <2>4. CASE rd < run.rd
    BY <1>4, <2>2, <2>4 DEF WalkInv, IsPass
  <2>5. CASE rd = run.rd
    BY <1>4, <2>2, <2>5
  <2> QED BY <2>3, <2>4, <2>5
<1>5. IsPass(k, log, skipped, clean')
  <2>1. k.done \subseteq DOMAIN log
    BY <1>2 DEF WalkInv, IsPass
  <2>2. k.at # "predict"
    BY <1>2
  <2> QED BY <1>4, <2>1, <2>2 DEF IsPass
<1>6. run'.at # "copy" /\ ~AtRest
  BY <1>1, <1>2 DEF AtRest
<1> QED BY <1>1, <1>2, <1>5, <1>6, RunMoves

\* The days that are known are logged.
LEMMA OpenKeeps == ASSUME WalkInv, Open PROVE WalkInv'
<1>1. PICK known \in SUBSET DOMAIN log : run' = [NextDate(0) EXCEPT !.done = known]
  BY DEF Open
<1>2. run.at = "open" /\ run.rd = 0 /\ IsRun(run)
  BY DEF Open, WalkInv, IsRun
<1>3. PICK k : k = NextDate(0)
  OBVIOUS
<1>4. /\ IsRun(k)
      /\ \/ k.at = "end" /\ \A r \in RetrainDates : r <= 0
         \/ k.at = "window" /\ \A r \in RetrainDates : r < k.rd => r <= 0
  BY <1>2, <1>3, NextDateIs
<1>5. PICK h : h = run' /\ h = [k EXCEPT !.done = known]
  BY <1>1, <1>3
<1>6. /\ h = [at |-> h.at, rd |-> h.rd, done |-> h.done, reg |-> h.reg,
              cls |-> h.cls, config |-> h.config, columns |-> h.columns, panel |-> h.panel, todo |-> h.todo]
      /\ h.at = k.at /\ h.rd = k.rd /\ h.done = known /\ h.reg = k.reg /\ h.cls = k.cls
      /\ h.panel = k.panel /\ h.todo = k.todo
  BY <1>4, <1>5 DEF IsRun
<1>7. IsRun(h)
  BY <1>4, <1>6 DEF IsRun
<1>8. \A r \in RetrainDates : ~ (r <= 0)
  BY SpanIs DEF RetrainDates
<1>9. IsPass(h, log, skipped, clean')
  BY <1>4, <1>6, <1>8 DEF IsPass
<1>10. run'.at # "copy" /\ ~AtRest
  BY <1>2, <1>4, <1>5, <1>6 DEF AtRest
<1> QED BY <1>5, <1>7, <1>9, <1>10, RunMoves DEF Open

\* A window whose last day is there is covered.
LEMMA SkipKeeps == ASSUME WalkInv, Skip PROVE WalkInv'
<1>1. run.at = "window" /\ run.rd \in RetrainDates /\ Max(WindowOf(run.rd)) \in DOMAIN log
  BY DEF Skip, WindowDone, WalkInv, IsRun, IsPass
<1>2. Covered(run.rd, log, skipped)
  BY <1>1 DEF WalkInv, InOrder
<1> QED BY <1>1, <1>2, NextDateKeeps DEF Skip

\* A window whose training or panel fails is left, and the pass is not whole.
LEMMA WindowFailsKeeps == ASSUME WalkInv, TrainFails \/ PanelFails PROVE WalkInv'
BY NextDateKeeps DEF TrainFails, PanelFails

\* A window whose days have all been tried is covered.
LEMMA WindowEndsKeeps == ASSUME WalkInv, WindowEnds PROVE WalkInv'
<1>1. Covered(run.rd, log, skipped)
  BY DEF WindowEnds, WalkInv, IsPass, Covered
<1> QED BY <1>1, NextDateKeeps DEF WindowEnds


\* The models that a training leaves deployed are old enough, kept or new.
LEMMA TrainKeeps ==
  ASSUME WalkInv, NEW active \in SUBSET Extensions, NEW promoteReg, NEW promoteCls,
         Train(active, promoteReg, promoteCls)
  PROVE  WalkInv'
<1>1. /\ IsRun(run) /\ run.at = "window" /\ run.rd \in Trainables /\ run.rd \in RetrainDates
  BY DEF Train, WalkInv, Trainables
<1>2. PICK reg, cls :
        /\ reg = Deployed(run.reg, Fitted("reg", run.rd, active), promoteReg)
        /\ cls = Deployed(run.cls, Fitted("cls", run.rd, active), promoteCls)
  OBVIOUS
<1>3. run.rd \in Int
  BY <1>1 DEF IsRun
<1>4. Honest(Fitted("reg", run.rd, active), run.rd) /\ Honest(Fitted("cls", run.rd, active), run.rd)
  BY <1>1, <1>3, FittedIs DEF Honest
<1>5. Honest(reg, run.rd) /\ Honest(cls, run.rd)
  <2>1. (Honest(run.reg, run.rd) \/ run.reg = NoModel) /\ (Honest(run.cls, run.rd) \/ run.cls = NoModel)
    BY <1>1 DEF IsRun
  <2> QED BY <1>2, <1>4, <2>1 DEF Deployed
<1>6. PICK config, k :
        /\ config = Configured(run.rd, active) /\ k = run'
        /\ k = [run EXCEPT !.at = "panel", !.columns = active, !.config = config,
                           !.reg = reg, !.cls = cls]
  BY <1>2 DEF Train
<1>7. /\ k = [at |-> k.at, rd |-> k.rd, done |-> k.done, reg |-> k.reg,
              cls |-> k.cls, config |-> k.config, columns |-> k.columns, panel |-> k.panel, todo |-> k.todo]
      /\ k.at = "panel" /\ k.rd = run.rd /\ k.done = run.done /\ k.reg = reg /\ k.cls = cls
      /\ k.panel = run.panel /\ k.todo = run.todo
  BY <1>1, <1>6 DEF IsRun
<1>8. IsRun(k)
  BY <1>1, <1>5, <1>7 DEF IsRun, RunPhases
<1>9. IsPass(k, log, skipped, clean)
  BY <1>1, <1>7 DEF WalkInv, IsPass
<1>10. run'.at # "copy" /\ ~AtRest
  BY <1>1, <1>6, <1>7 DEF AtRest
<1> QED BY <1>6, <1>8, <1>9, <1>10, RunMoves DEF Train

\* All the days of the window are to be predicted.
LEMMA BuildPanelKeeps ==
  ASSUME WalkInv, NEW active \in SUBSET Extensions, BuildPanel(active) PROVE WalkInv'
<1>1. IsRun(run) /\ run.at = "panel"
  BY DEF BuildPanel, WalkInv
<1>2. PICK k : k = run' /\ k = [run EXCEPT !.at = "predict", !.panel = active, !.todo = WindowOf(run.rd)]
  BY DEF BuildPanel
<1>3. /\ k = [at |-> k.at, rd |-> k.rd, done |-> k.done, reg |-> k.reg,
              cls |-> k.cls, config |-> k.config, columns |-> k.columns, panel |-> k.panel, todo |-> k.todo]
      /\ k.at = "predict" /\ k.rd = run.rd /\ k.done = run.done /\ k.reg = run.reg /\ k.cls = run.cls
      /\ k.panel = active /\ k.todo = WindowOf(run.rd)
  BY <1>1, <1>2 DEF IsRun
<1>4. IsRun(k)
  BY <1>1, <1>3 DEF IsRun, RunPhases
<1>5. IsPass(k, log, skipped, clean)
  BY <1>1, <1>3 DEF WalkInv, IsPass
<1>6. run'.at # "copy" /\ ~AtRest
  BY <1>1, <1>2, <1>3 DEF AtRest
<1> QED BY <1>2, <1>4, <1>5, <1>6, RunMoves DEF BuildPanel

\* A pass that reports or dies rests.
LEMMA RestKeeps == ASSUME WalkInv, Report \/ Die PROVE WalkInv'
<1>1. CASE Report
  <2>1. IsRun(run) /\ run.at = "end"
    BY <1>1 DEF Report, WalkInv
  <2>2. PICK k : k = run' /\ k = [run EXCEPT !.at = "reported"]
    BY <1>1 DEF Report
  <2>3. /\ k = [at |-> k.at, rd |-> k.rd, done |-> k.done, reg |-> k.reg,
                cls |-> k.cls, config |-> k.config, columns |-> k.columns, panel |-> k.panel, todo |-> k.todo]
        /\ k.at = "reported" /\ k.rd = run.rd /\ k.reg = run.reg /\ k.cls = run.cls /\ k.panel = run.panel
    BY <2>1, <2>2 DEF IsRun
  <2>4. IsRun(k) /\ IsPass(k, log, skipped, clean)
    BY <2>1, <2>3 DEF IsRun, IsPass, RunPhases
  <2>5. run'.at # "copy" /\ AtRest'
    BY <2>2, <2>3 DEF AtRest
  <2> QED BY <1>1, <2>2, <2>4, <2>5, RunMoves DEF Report
<1>2. CASE Die
  <2>1. run' = Down /\ UNCHANGED <<log, backups, restore, skipped, clean, clock>>
    BY <1>2 DEF Die
  <2>2. IsRun(Down) /\ IsPass(Down, log, skipped, clean) /\ Down.at = "down"
    BY DEF Down, IsRun, IsPass, RunPhases
  <2>3. run'.at # "copy" /\ AtRest'
    BY <2>1, <2>2 DEF AtRest
  <2> QED BY <2>1, <2>2, <2>3, RunMoves
<1> QED BY <1>1, <1>2

-----------------------------------------------------------------------------
\* The day at hand is the least that is left.
LEMMA DayAtHand ==
  ASSUME WalkInv, run.at = "predict", run.todo # {}, NEW d, d = Min(run.todo)
  PROVE  d \in run.todo /\ d \in WindowOf(run.rd) /\ run.rd \in RetrainDates /\ \A e \in run.todo : d <= e
<1>1. run.rd \in RetrainDates /\ run.todo \subseteq WindowOf(run.rd)
  BY DEF WalkInv, IsRun
<1>2. IsFiniteSet(run.todo) /\ \A e \in run.todo : e \in Int
  BY <1>1, WindowIs, SpanIs
<1>3. d \in run.todo /\ \A e \in run.todo : d <= e
  BY <1>2, MinIs
<1> QED BY <1>1, <1>3

\* The day at hand is passed: it is accounted for in what is logged now.
LEMMA PassedIs ==
  ASSUME WalkInv, run.at = "predict", NEW d \in run.todo, NEW k, k = Passed(d),
         NEW rows, NEW given, NEW whole, whole => clean,
         DOMAIN log \subseteq DOMAIN rows, skipped \subseteq given, Accounted(d, rows, given)
  PROVE  IsRun(k) /\ IsPass(k, rows, given, whole) /\ k.at = "predict"
<1>1. IsRun(run)
  BY DEF WalkInv
<1>2. /\ k = [at |-> k.at, rd |-> k.rd, done |-> k.done, reg |-> k.reg,
              cls |-> k.cls, config |-> k.config, columns |-> k.columns, panel |-> k.panel, todo |-> k.todo]
      /\ k.at = "predict" /\ k.rd = run.rd /\ k.done = run.done /\ k.reg = run.reg /\ k.cls = run.cls
      /\ k.panel = run.panel /\ k.todo = run.todo \ {d}
  BY <1>1 DEF IsRun, Passed
<1>3. IsRun(k)
  BY <1>1, <1>2 DEF IsRun
<1>4. /\ k.done \subseteq DOMAIN rows
      /\ whole => \A rd \in RetrainDates : rd < k.rd => Covered(rd, rows, given)
  BY <1>2, CoveredGrows DEF WalkInv, IsPass
<1>5. \A e \in WindowOf(k.rd) \ k.todo : Accounted(e, rows, given)
  <2> TAKE e \in WindowOf(k.rd) \ k.todo
  <2>1. e = d \/ Accounted(e, log, skipped)
    BY <1>2 DEF WalkInv, IsPass
  <2> QED BY <2>1, CoveredGrows
<1> QED BY <1>2, <1>3, <1>4, <1>5 DEF IsPass

\* The row of the day at hand is honest, and the last of its window to come.
LEMMA PredictDayKeeps == ASSUME WalkInv, PredictDay PROVE WalkInv'
<1>1. PICK d, row :
        /\ d = Min(run.todo)
        /\ row = [of |-> run.rd, reg |-> run.reg, cls |-> run.cls, reads |-> PanelDay(run.rd, run.panel, d).reads,
                  joins |-> PanelDay(run.rd, run.panel, d).joins]
        /\ log' = IF Predictable(d) = {} THEN log
                  ELSE [e \in DOMAIN log \cup {d} |-> IF e = d THEN row ELSE log[e]]
        /\ run' = Passed(d)
  BY DEF PredictDay
<1>2. run.at = "predict" /\ run.todo # {} /\ ~AtRest /\ restore.at = "idle"
  BY DEF PredictDay, AtRest, WalkInv, RestoreIsSound
<1>3. /\ d \in run.todo /\ d \in WindowOf(run.rd) /\ run.rd \in RetrainDates
      /\ (\A e \in run.todo : d <= e) /\ d \in Span /\ d \in Int /\ run.rd \in Int /\ run.rd <= d
  <2>1. /\ d \in run.todo /\ d \in WindowOf(run.rd) /\ run.rd \in RetrainDates
        /\ \A e \in run.todo : d <= e
    BY <1>1, <1>2, DayAtHand
  <2> QED BY <2>1, WindowIs, SpanIs
<1>4. HonestRow(d, row)
  <2>1. Honest(run.reg, run.rd) /\ Honest(run.cls, run.rd) /\ run.panel \in SUBSET Extensions
    BY <1>2 DEF WalkInv, IsRun
  <2>2. PanelDay(run.rd, run.panel, d).reads \in Int /\ PanelDay(run.rd, run.panel, d).reads <= d
    BY <1>3, <2>1, ReadsArePast
  <2> QED BY <1>1, <1>3, <2>1, <2>2 DEF HonestRow
<1>5. /\ DOMAIN log \subseteq DOMAIN log' /\ DOMAIN log' \subseteq DOMAIN log \cup {d}
      /\ Predictable(d) # {} => d \in DOMAIN log'
      /\ HonestLog(log')
  <2>1. CASE Predictable(d) = {}
    BY <1>1, <2>1 DEF WalkInv
  <2>2. CASE Predictable(d) # {}
    <3>1. /\ DOMAIN log' = {d} \cup DOMAIN log /\ log'[d] = row
          /\ \A e \in DOMAIN log : e # d => log'[e] = log[e]
      BY <1>1, <2>2
    <3>2. HonestLog(log')
      BY <1>3, <1>4, <3>1 DEF WalkInv, HonestLog
    <3> QED BY <3>1, <3>2
  <2> QED BY <2>1, <2>2
<1>6. Accounted(d, log', skipped)
  BY <1>5 DEF Accounted
<1>7. IsRun(run') /\ IsPass(run', log', skipped, clean) /\ run'.at = "predict"
  BY <1>1, <1>2, <1>3, <1>5, <1>6, PassedIs
<1>8. InOrder(log', skipped)
  <2> SUFFICES ASSUME NEW rd \in RetrainDates, Max(WindowOf(rd)) \in DOMAIN log'
               PROVE  Covered(rd, log', skipped)
    BY DEF InOrder
  <2>1. CASE Max(WindowOf(rd)) \in DOMAIN log
    <3>1. Covered(rd, log, skipped)
      BY <2>1 DEF WalkInv, InOrder
    <3> QED BY <1>5, <3>1, CoveredGrows
  <2>2. CASE Max(WindowOf(rd)) \notin DOMAIN log
    <3>1. Max(WindowOf(rd)) = d
      BY <1>5, <2>2
    <3>2. rd = run.rd /\ \A e \in WindowOf(run.rd) : e \in Int /\ e <= d
      <4>1. d \in WindowOf(rd) /\ \A e \in WindowOf(rd) : e <= d
        BY <3>1, WindowIs
      <4>2. rd = run.rd
        BY <1>3, <4>1, WindowsAreApart
      <4>3. \A e \in WindowOf(run.rd) : e \in Int
        BY <1>3, WindowIs, SpanIs
      <4> QED BY <4>1, <4>2, <4>3
    <3>3. \A e \in WindowOf(run.rd) : e = d \/ e \notin run.todo
      <4> SUFFICES ASSUME NEW e \in WindowOf(run.rd), e \in run.todo PROVE e = d
        OBVIOUS
      <4>1. d <= e /\ d \in Int
        BY <1>3
      <4>2. e <= d /\ e \in Int
        BY <3>2
      <4> QED BY <4>1, <4>2
    <3>4. \A e \in WindowOf(run.rd) \ run.todo : Accounted(e, log', skipped)
      BY <1>2, <1>5, CoveredGrows DEF WalkInv, IsPass
    <3> QED BY <1>6, <3>2, <3>3, <3>4 DEF Covered
  <2> QED BY <2>1, <2>2
<1>9. UNCHANGED <<backups, restore, skipped, clean, clock>>
  BY DEF PredictDay
<1>10. BackupsAreSound' /\ RestoreIsSound'
  BY <1>2, <1>7, <1>9 DEF WalkInv, BackupsAreSound, RestoreIsSound
<1> QED BY <1>5, <1>7, <1>8, <1>9, <1>10 DEF WalkInv

\* A day that fails is passed over.
LEMMA DayFailsKeeps == ASSUME WalkInv, DayFails PROVE WalkInv'
<1>1. PICK d : d = Min(run.todo) /\ skipped' = skipped \cup {d} /\ run' = Passed(d)
  BY DEF DayFails
<1>2. /\ run.at = "predict" /\ run.todo # {} /\ ~AtRest /\ restore.at = "idle"
      /\ UNCHANGED <<log, backups, restore, clock>> /\ clean' = FALSE
  BY DEF DayFails, AtRest, WalkInv, RestoreIsSound
<1>3. d \in run.todo
  BY <1>1, <1>2, DayAtHand
<1>4. Accounted(d, log, skipped')
  BY <1>1 DEF Accounted
<1>5. IsRun(run') /\ IsPass(run', log, skipped', clean') /\ run'.at = "predict"
  BY <1>1, <1>2, <1>3, <1>4, PassedIs
<1>6. \A rows : InOrder(rows, skipped) => InOrder(rows, skipped')
  BY <1>1, InOrderGrows
<1>7. BackupsAreSound'
  BY <1>2, <1>5, <1>6 DEF WalkInv, BackupsAreSound, IsBackup
<1>8. RestoreIsSound'
  BY <1>2 DEF WalkInv, RestoreIsSound
<1> QED BY <1>2, <1>5, <1>6, <1>7, <1>8 DEF WalkInv


-----------------------------------------------------------------------------
(***************************************************************************)
(* Backups and restores.                                                   *)
(***************************************************************************)
\* A copy is named by a time that no other has, so some copies have a newest.
LEMMA NewestIs ==
  ASSUME BackupsAreSound, NEW S \in SUBSET backups, S # {}
  PROVE  \E b \in S : \A c \in S : c.at <= b.at
<1>1. PICK T : T = {b.at : b \in S}
  OBVIOUS
<1>2. \A e \in T : e \in Int /\ 1 <= e /\ e <= clock
  BY <1>1 DEF BackupsAreSound, IsBackup
<1>3. IsFiniteSet(T)
  <2>1. 1 \in Int /\ clock \in Int
    BY DEF BackupsAreSound
  <2> QED BY <1>2, <2>1, BoundedIsFinite
<1>4. T # {} /\ \A e \in T : e \in Int
  BY <1>1, <1>2
<1>5. PICK m \in T : \A e \in T : e <= m
  BY <1>3, <1>4, GreatestElement
<1> QED BY <1>1, <1>5

\* What a later clock changes of a copy.
LEMMA BackupGrows ==
  ASSUME NEW b, NEW passed, NEW time \in Nat, NEW later \in Nat, time <= later, IsBackup(b, passed, time)
  PROVE  IsBackup(b, passed, later)
BY DEF IsBackup

\* A copy taken now is of the log as it is.
LEMMA CopyIs ==
  ASSUME WalkInv, NEW kind \in {"startup", "loop"}, NEW whole \in BOOLEAN,
         NEW b, b = Copy(kind, whole)
  PROVE  /\ IsBackup(b, skipped, clock + 1) /\ b.at = clock + 1 /\ b.kind = kind /\ b.whole = whole
         /\ \A c \in backups : IsBackup(c, skipped, clock + 1) /\ c.at # b.at /\ c.at <= clock
         /\ clock + 1 \in Nat
<1>1. clock \in Nat /\ clock + 1 \in Nat /\ clock + 1 \in 1..(clock + 1)
  BY DEF WalkInv, BackupsAreSound
<1>2. IsBackup(b, skipped, clock + 1) /\ b.at = clock + 1 /\ b.kind = kind /\ b.whole = whole
  BY <1>1 DEF WalkInv, IsBackup, Copy
<1>3. \A c \in backups : IsBackup(c, skipped, clock + 1)
  BY <1>1, BackupGrows DEF WalkInv, BackupsAreSound
<1>4. \A c \in backups : c.at \in 1..clock
  BY DEF WalkInv, BackupsAreSound, IsBackup
<1> QED BY <1>1, <1>2, <1>3, <1>4

\* The startup copy begins.
LEMMA StartKeeps == ASSUME WalkInv, Start PROVE WalkInv'
<1>1. /\ AtRest /\ restore.at = "idle" /\ clean' = TRUE
      /\ UNCHANGED <<log, restore, skipped>>
  BY DEF Start
<1>2. PICK k : k = run' /\ k = [Down EXCEPT !.at = IF log = <<>> THEN "open" ELSE "copy"]
  BY DEF Start
<1>3. IsRun(k) /\ IsPass(k, log, skipped, TRUE) /\ k.at = IF log = <<>> THEN "open" ELSE "copy"
  <2>1. PICK phase \in {"open", "copy"} : phase = IF log = <<>> THEN "open" ELSE "copy"
    OBVIOUS
  <2>2. k = [Down EXCEPT !.at = phase]
    BY <1>2, <2>1
  <2>3. IsRun(k) /\ IsPass(k, log, skipped, TRUE) /\ k.at = phase
    BY <2>2 DEF Down, IsRun, IsPass, RunPhases
  <2> QED BY <2>1, <2>3
<1>4. RestoreIsSound'
  BY <1>1 DEF WalkInv, RestoreIsSound
<1>5. CASE log = <<>>
  <2>1. UNCHANGED <<backups, clock>> /\ run'.at # "copy"
    BY <1>2, <1>3, <1>5 DEF Start
  <2>2. BackupsAreSound'
    BY <1>1, <2>1 DEF WalkInv, BackupsAreSound
  <2> QED BY <1>1, <1>2, <1>3, <1>4, <2>2 DEF WalkInv
<1>6. CASE log # <<>>
  <2>1. PICK b : b = Copy("startup", FALSE) /\ backups' = backups \cup {b} /\ clock' = clock + 1
    BY <1>6 DEF Start
  <2>2. /\ IsBackup(b, skipped, clock + 1) /\ b.at = clock + 1 /\ b.kind = "startup" /\ b.whole = FALSE
        /\ \A c \in backups : IsBackup(c, skipped, clock + 1) /\ c.at # b.at /\ c.at <= clock
        /\ clock + 1 \in Nat
    BY <2>1, CopyIs
  <2>3. \A x, y \in backups' : x.at = y.at => x = y
    BY <2>1, <2>2 DEF WalkInv, BackupsAreSound
  <2>4. BackupsAreSound'
    BY <1>1, <2>1, <2>2, <2>3 DEF BackupsAreSound
  <2> QED BY <1>1, <1>2, <1>3, <1>4, <2>4 DEF WalkInv
<1> QED BY <1>5, <1>6

\* The copy is whole; of the older ones some may go.
LEMMA CopyEndsKeeps == ASSUME WalkInv, CopyEnds PROVE WalkInv'
<1>1. /\ run.at = "copy" /\ run' = [run EXCEPT !.at = "open"] /\ ~AtRest
      /\ UNCHANGED <<log, restore, skipped, clean, clock>>
  BY DEF CopyEnds, AtRest
<1>2. PICK torn, new, files :
        /\ torn = CHOOSE b \in OfKind(backups, "startup") : \A c \in OfKind(backups, "startup") : c.at <= b.at
        /\ new = [torn EXCEPT !.whole = TRUE]
        /\ files = (backups \ {torn}) \cup {new}
        /\ backups' = Pruned(files, "startup", KeepStartups)
  BY DEF CopyEnds
<1>3. clock \in Nat /\ \A b \in backups : IsBackup(b, skipped, clock) /\ b.at \in 1..clock
  BY DEF WalkInv, BackupsAreSound, IsBackup
<1>4. torn \in backups /\ torn.kind = "startup" /\ torn.at = clock
  <2>1. PICK b \in OfKind(backups, "startup") : b.at = clock
    BY <1>1 DEF WalkInv, BackupsAreSound, OfKind
  <2>2. \A c \in OfKind(backups, "startup") : c.at <= b.at
    BY <1>3, <2>1 DEF OfKind
  <2>3. torn \in OfKind(backups, "startup") /\ \A c \in OfKind(backups, "startup") : c.at <= torn.at
    BY <1>2, <2>1, <2>2
  <2>4. torn.at \in 1..clock /\ clock <= torn.at
    BY <1>3, <2>1, <2>3 DEF OfKind
  <2>5. torn.at = clock
    BY <1>3, <2>4
  <2> QED BY <2>3, <2>5 DEF OfKind
<1>5. /\ new = [kind |-> new.kind, at |-> new.at, rows |-> new.rows, whole |-> new.whole]
      /\ new.kind = "startup" /\ new.at = clock /\ new.rows = torn.rows /\ new.whole = TRUE
  <2>1. torn = [kind |-> torn.kind, at |-> torn.at, rows |-> torn.rows, whole |-> torn.whole]
    BY <1>3, <1>4 DEF IsBackup
  <2> QED BY <1>2, <1>4, <2>1
<1>6. IsBackup(new, skipped, clock)
  BY <1>3, <1>4, <1>5 DEF IsBackup
<1>7. backups' \subseteq files /\ \A b \in files : IsBackup(b, skipped, clock) /\ b.at \in 1..clock
  <2>1. backups' \subseteq files
    BY <1>2 DEF Pruned
  <2>2. \A b \in files : IsBackup(b, skipped, clock)
    BY <1>2, <1>3, <1>6
  <2> QED BY <2>1, <2>2 DEF IsBackup
<1>9. \A x, y \in backups' : x.at = y.at => x = y
  <2>1. \A x, y \in backups : x.at = y.at => x = y
    BY DEF WalkInv, BackupsAreSound
  <2>2. ASSUME NEW x \in files, x # new PROVE x \in backups /\ x.at # new.at
    <3>1. x \in backups /\ x # torn
      BY <1>2, <2>2
    <3>2. x.at # torn.at
      BY <1>4, <2>1, <3>1
    <3> QED BY <1>4, <1>5, <3>1, <3>2
  <2> QED BY <1>7, <2>1, <2>2
<1>10. PICK k : k = run' /\ k = [run EXCEPT !.at = "open"]
  BY <1>1
<1>11. /\ k = [at |-> k.at, rd |-> k.rd, done |-> k.done, reg |-> k.reg,
               cls |-> k.cls, config |-> k.config, columns |-> k.columns, panel |-> k.panel, todo |-> k.todo]
       /\ k.at = "open" /\ k.rd = run.rd /\ k.done = run.done /\ k.reg = run.reg /\ k.cls = run.cls
       /\ k.panel = run.panel
  BY <1>10 DEF WalkInv, IsRun
<1>12. IsRun(k) /\ IsPass(k, log, skipped, clean)
  BY <1>1, <1>11 DEF WalkInv, IsRun, IsPass, RunPhases
<1>13. BackupsAreSound'
  BY <1>1, <1>3, <1>7, <1>9, <1>10, <1>11 DEF BackupsAreSound
<1>15. RestoreIsSound'
  BY <1>1 DEF WalkInv, RestoreIsSound
<1> QED BY <1>1, <1>10, <1>12, <1>13, <1>15 DEF WalkInv

\* A snapshot of the loop, torn or whole, is of the log as it is.
LEMMA SnapshotKeeps == ASSUME WalkInv, Snapshot \/ SnapshotDies PROVE WalkInv'
<1>1. run.at # "copy" /\ UNCHANGED <<log, run, restore, skipped, clean>> /\ clock' = clock + 1
  BY DEF Snapshot, SnapshotDies
<1>2. PICK whole \in BOOLEAN, b \in {Copy("loop", TRUE), Copy("loop", FALSE)} :
        b = Copy("loop", whole) /\ backups' \subseteq backups \cup {b}
  <2>1. CASE Snapshot
    BY <2>1 DEF Snapshot, Pruned
  <2>2. CASE SnapshotDies
    BY <2>2 DEF SnapshotDies
  <2> QED BY <2>1, <2>2
<1>3. /\ IsBackup(b, skipped, clock + 1) /\ b.at = clock + 1 /\ b.kind = "loop"
      /\ \A c \in backups : IsBackup(c, skipped, clock + 1) /\ c.at # b.at /\ c.at <= clock
      /\ clock + 1 \in Nat
  BY <1>2, CopyIs
<1>4. \A x, y \in backups' : x.at = y.at => x = y
  BY <1>2, <1>3 DEF WalkInv, BackupsAreSound
<1>5. BackupsAreSound'
  BY <1>1, <1>2, <1>3, <1>4 DEF BackupsAreSound
<1>7. RestoreIsSound'
  BY <1>1 DEF WalkInv, RestoreIsSound, AtRest
<1> QED BY <1>1, <1>5, <1>7 DEF WalkInv

\* While the backtest rests the database can be anything that is honest.
LEMMA LogMoves ==
  ASSUME WalkInv, AtRest, UNCHANGED <<run, backups, skipped, clean, clock>>,
         HonestLog(log'), InOrder(log', skipped), RestoreIsSound'
  PROVE  WalkInv'
<1>1. IsPass(run, log', skipped, clean)
  BY DEF AtRest, IsPass
<1>2. BackupsAreSound'
  BY DEF WalkInv, BackupsAreSound
<1> QED BY <1>1, <1>2 DEF WalkInv

\* list_snapshots has a first one.
LEMMA ChosenIs ==
  ASSUME WalkInv, Valid(backups) # {}
  PROVE  Chosen \in backups
<1>1. PICK V : V = Valid(backups) /\ V \subseteq backups /\ V # {}
  BY DEF Valid
<1>2. \A b \in V : b.kind \in {"startup", "loop"} /\ b.at \in Int
  BY <1>1 DEF WalkInv, BackupsAreSound, IsBackup
<1>3. \A b, c \in V : b.at = c.at => b = c
  BY <1>1 DEF WalkInv, BackupsAreSound
<1>4. PICK S : S = {b \in V : b.kind = "startup"}
  OBVIOUS
<1>5. \E b \in V : \A c \in V : b = c \/ Before(b, c)
  <2>1. CASE S # {}
    <3>1. PICK b \in S : \A c \in S : c.at <= b.at
      BY <1>1, <1>4, <2>1, NewestIs DEF WalkInv
    <3>2. ASSUME NEW c \in V PROVE b = c \/ Before(b, c)
      <4>1. CASE c \in S
        <5>1. c.at <= b.at /\ c.at \in Int /\ b.at \in Int
          BY <1>2, <1>4, <3>1, <4>1
        <5>2. c.at = b.at \/ b.at > c.at
          BY <5>1
        <5> QED BY <1>3, <1>4, <4>1, <5>2 DEF Before
      <4>2. CASE c \notin S
        BY <1>2, <1>4, <4>2 DEF Before
      <4> QED BY <4>1, <4>2
    <3> QED BY <1>4, <3>2
  <2>2. CASE S = {}
    <3>1. PICK b \in V : \A c \in V : c.at <= b.at
      BY <1>1, NewestIs DEF WalkInv
    <3>2. ASSUME NEW c \in V PROVE b = c \/ Before(b, c)
      <4>1. c.kind = b.kind /\ c.at <= b.at /\ c.at \in Int /\ b.at \in Int
        BY <1>2, <1>4, <2>2, <3>1
      <4>2. c.at = b.at \/ b.at > c.at
        BY <4>1
      <4> QED BY <1>3, <4>1, <4>2 DEF Before
    <3> QED BY <3>2
  <2> QED BY <2>1, <2>2
<1>6. Chosen \in V
  BY <1>1, <1>5 DEF Chosen
<1> QED BY <1>1, <1>6

\* The database goes, or comes back by way of the restore script.
LEMMA RestoreKeeps ==
  ASSUME WalkInv, Lose \/ RestoreStage \/ RestoreMove \/ RestoreRename \/ RestoreDies
  PROVE  WalkInv'
<1>1. UNCHANGED <<run, backups, skipped, clean, clock>>
  BY DEF Lose, RestoreStage, RestoreMove, RestoreRename, RestoreDies, environment
<1>2. /\ AtRest /\ (AtRest <=> AtRest')
  BY <1>1 DEF Lose, RestoreStage, RestoreMove, RestoreRename, RestoreDies, WalkInv, RestoreIsSound, AtRest
<1>3. CASE Lose
  <2>1. log' = <<>> /\ RestoreIsSound'
    BY <1>1, <1>2, <1>3 DEF Lose, WalkInv, RestoreIsSound
  <2> QED BY <1>1, <1>2, <2>1, EmptyLog, LogMoves
<1>4. CASE RestoreStage
  <2>1. log' = log /\ restore' = [at |-> "staged", rows |-> Chosen.rows]
    BY <1>4 DEF RestoreStage, environment
  <2>2. HonestLog(Chosen.rows) /\ InOrder(Chosen.rows, skipped)
    BY <1>4, ChosenIs DEF RestoreStage, WalkInv, BackupsAreSound, IsBackup
  <2>3. PICK rows : rows = Chosen.rows
    OBVIOUS
  <2>4. restore' = [at |-> "staged", rows |-> rows] /\ HonestLog(rows) /\ InOrder(rows, skipped)
    BY <2>1, <2>2, <2>3
  <2>5. RestoreIsSound'
    BY <1>1, <1>2, <2>4 DEF RestoreIsSound
  <2> QED BY <1>1, <1>2, <2>1, <2>5, LogMoves DEF WalkInv
<1>5. CASE RestoreMove
  <2>1. log' = <<>> /\ restore' = [restore EXCEPT !.at = "moved"] /\ restore.at = "staged"
    BY <1>5 DEF RestoreMove
  <2>2. restore'.at = "moved" /\ restore'.rows = restore.rows
        /\ restore' = [at |-> restore'.at, rows |-> restore'.rows]
    BY <2>1 DEF WalkInv, RestoreIsSound
  <2>3. RestoreIsSound'
    BY <1>1, <1>2, <2>1, <2>2 DEF WalkInv, RestoreIsSound
  <2> QED BY <1>1, <1>2, <2>1, <2>3, EmptyLog, LogMoves
<1>6. CASE RestoreRename
  <2>1. log' = restore.rows /\ restore' = NoRestore /\ restore.at = "moved"
    BY <1>6 DEF RestoreRename
  <2>2. RestoreIsSound'
    BY <2>1 DEF NoRestore, RestoreIsSound
  <2> QED BY <1>1, <1>2, <2>1, <2>2, LogMoves DEF WalkInv, RestoreIsSound
<1>7. CASE RestoreDies
  <2>1. log' = log /\ restore' = NoRestore
    BY <1>7 DEF RestoreDies
  <2>2. RestoreIsSound'
    BY <2>1 DEF NoRestore, RestoreIsSound
  <2> QED BY <1>1, <1>2, <2>1, <2>2, LogMoves DEF WalkInv
<1> QED BY <1>3, <1>4, <1>5, <1>6, <1>7

-----------------------------------------------------------------------------
\* Every step keeps the invariant.
LEMMA WalkStep == WalkInv /\ [Next]_vars => WalkInv'
<1> SUFFICES ASSUME WalkInv, [Next]_vars PROVE WalkInv'
  OBVIOUS
<1>1. CASE UNCHANGED vars
  BY <1>1 DEF vars, WalkInv, BackupsAreSound, RestoreIsSound, AtRest
<1>2. CASE Next
  BY <1>2, StartKeeps, CopyEndsKeeps, SnapshotKeeps, OpenKeeps, SkipKeeps, WindowFailsKeeps, TrainKeeps,
     BuildPanelKeeps, PredictDayKeeps, DayFailsKeeps, WindowEndsKeeps, RestKeeps, RestoreKeeps DEF Next
<1> QED BY <1>1, <1>2

\* So it holds throughout.
LEMMA WalkInductive == Spec => []WalkInv
BY WalkInit, WalkStep, PTL DEF Spec

\* No look-ahead (the header of walkforward_backtest.py, README.md on the strict
\* walk-forward, the causality contract of features/base.py): if every retrain
\* tunes, then for any market, membership, calendar, gap, history and number of
\* failures, kills, losses and restores, a logged day rests on models that know
\* nothing of the day they were retrained on or after, be it a bar, a label, a
\* membership or a hyperparameter, and on features of no later bar.
THEOREM NoHindsightHolds ==
  ASSUME RetrainDates \subseteq Tuned
  PROVE  Spec => []NoHindsight
<1>1. WalkInv => NoHindsight
  BY DEF WalkInv, HonestLog, HonestRow, Honest, AllTuned, NoHindsight
<1> QED BY <1>1, WalkInductive, PTL

\* PurgedWalkForwardSplit keeps its word on every training set of a backtest:
\* no fold trains on a label that reaches its validation dates.
THEOREM FoldsArePurgedHolds == Spec => []FoldsArePurged
<1>1. LeakyDates = {}
  <2> SUFFICES ASSUME NEW rd \in RetrainDates, NEW fold \in FoldsOf(rd), NEW r \in fold.train,
                      Uninterrupted(r, rd),
                      LabelDay(r[1], TrainStart(rd), TrainEnd(rd), r[2]) >= Min(Dates(fold.test))
               PROVE  FALSE
    BY DEF LeakyDates, CrossesInto
  <2>1. PICK from \in Int, to \in Int : from = TrainStart(rd) /\ to = TrainEnd(rd)
    <3>1. rd \in Int
      BY WindowIs, SpanIs
    <3>2. Gap \in Int /\ Lookback \in Int
      BY WalkForwardAssumption
    <3> QED BY <3>1, <3>2 DEF TrainStart, TrainEnd
  <2>2. PICK rows \in SUBSET Trainable(from, to) :
          fold \in Split(rows) /\ rows \subseteq RegressionRows(rd)
    <3>1. RegressionRows(rd) \in SUBSET Trainable(from, to) /\ ClassRows(rd) \in SUBSET RegressionRows(rd)
      BY <2>1 DEF RegressionRows, ClassRows, Ranked
    <3> QED BY <3>1 DEF FoldsOf
  <2>3. \A d \in Dates(rows) :
          r[2] < d /\ d <= LabelDay(r[1], from, to, r[2]) => d \in Bars[r[1]]
    BY <2>1, <2>2 DEF Uninterrupted, Dates
  <2>4. /\ LabelDay(r[1], from, to, r[2]) < Min(Dates(fold.test))
        /\ LabelDay(r[1], from, to, r[2]) \in Int /\ Min(Dates(fold.test)) \in Int
    BY <2>1, <2>2, <2>3, FoldIsPurged, PanelAssumption
  <2> QED BY <2>1, <2>4
<1>2. FoldsArePurged
  BY <1>1 DEF FoldsArePurged
<1> QED BY <1>2, PTL

\* Resuming loses nothing: whatever was killed, skipped and restored before, a
\* pass in which nothing failed ends with every day logged that has something
\* to predict, but for days whose own prediction once failed.
THEOREM GapsAreFailedDaysHolds == Spec => GapsAreFailedDays
<1> DEFINE Complete == Report /\ clean => {d \in Span : Predictable(d) # {}} \ DOMAIN log \subseteq skipped
<1>1. WalkInv => Complete
  <2> SUFFICES ASSUME WalkInv, Report, clean, NEW d \in Span, Predictable(d) # {}, d \notin DOMAIN log
               PROVE  d \in skipped
    OBVIOUS
  <2>1. PICK rd \in RetrainDates : d \in WindowOf(rd)
    BY WindowsCover
  <2>2. Covered(rd, log, skipped)
    BY DEF Report, WalkInv, IsPass
  <2> QED BY <2>1, <2>2 DEF Covered, Accounted
<1> HIDE DEF Complete
<1>2. Spec => [][Complete]_vars
  BY <1>1, WalkInductive, PTL
<1> USE DEF Complete
<1> QED BY <1>2, PTL DEF GapsAreFailedDays

==============================================================================
