-------------------------- MODULE DataStoreProofs --------------------------
(***************************************************************************)
(* The market store for any number of symbols, days and overlap, the news  *)
(* pipeline for any stocks, filings and scores, and the live walk-forward  *)
(* page for any number of requests, predictions and restores.              *)
(***************************************************************************)
EXTENDS MarketStore, News, WalkStatus, FiniteSetTheorems, WellFoundedInduction, TLAPS

(***************************************************************************)
(* Part 1: the market store.                                               *)
(*                                                                         *)
(* The timeline is rebuilt out of the dates of additions and removals, by  *)
(* the greatest or the least of those before or after another one.  That   *)
(* a finite set of days has a greatest element comes from the set library: *)
(* the strict subsets of a finite set are well-founded.                    *)
(***************************************************************************)
\* A non-empty family of subsets of a finite set has a minimal member.
LEMMA MinimalMember ==
    ASSUME NEW S, IsFiniteSet(S), NEW T \in SUBSET (SUBSET S), T # {}
    PROVE  \E x \in T : \A y \in T : y \subseteq x => y = x
  <1>1. IsWellFoundedOn(StrictSubsetOrdering(S), FiniteSubsetsOf(S))
    BY FS_StrictSubsetOrderingWellFounded
  <1>2. T \subseteq FiniteSubsetsOf(S)
    BY FS_FiniteSubsetsOfFinite
  <1>3. PICK x \in T : \A y \in T : ~ (<<y, x>> \in StrictSubsetOrdering(S))
    BY <1>1, <1>2, WFMin
  <1>4. ASSUME NEW y \in T, y \subseteq x, y # x PROVE FALSE
    <2>1. <<y, x>> \in (SUBSET S) \X (SUBSET S) /\ <<y, x>>[1] = y /\ <<y, x>>[2] = x
      OBVIOUS
    <2>2. <<y, x>> \in StrictSubsetOrdering(S)
      BY <1>4, <2>1 DEF StrictSubsetOrdering
    <2>3. QED
      BY <1>3, <2>2
  <1>5. QED
    BY <1>4

\* A non-empty finite set of integers has a greatest element.
LEMMA GreatestElement ==
    ASSUME NEW S, \A e \in S : e \in Int, IsFiniteSet(S), S # {}
    PROVE  \E m \in S : \A e \in S : e <= m
  <1>1. PICK T \in SUBSET (SUBSET S) : T = {{e \in S : d <= e} : d \in S}
    OBVIOUS
  <1>2. PICK d \in S : {e \in S : d <= e} \in T
    BY <1>1
  <1>3. T # {}
    BY <1>2
  <1>4. PICK x \in T : \A y \in T : y \subseteq x => y = x
    BY <1>3, MinimalMember
  <1>5. PICK m \in S : x = {e \in S : m <= e}
    BY <1>1, <1>4
  <1>6. ASSUME NEW e \in S, m < e PROVE FALSE
    <2>1. PICK y : y = {f \in S : e <= f}
      OBVIOUS
    <2>2. y \in T
      BY <1>1, <2>1
    <2>3. y \subseteq x
      <3>1. \A f \in S : e <= f => m <= f
        BY <1>6
      <3>2. QED
        BY <1>5, <2>1, <3>1
    <2>4. m \in x /\ m \notin y
      BY <1>5, <1>6, <2>1
    <2>5. QED
      BY <1>4, <2>2, <2>3, <2>4
  <1>7. QED
    BY <1>6

\* Max and Min of a finite set of integers are what their names say.
LEMMA MaxIs ==
  ASSUME NEW S, \A e \in S : e \in Int, IsFiniteSet(S), S # {}
  PROVE  Max(S) \in S /\ \A e \in S : e <= Max(S)
<1>1. PICK m \in S : \A e \in S : e <= m
  BY GreatestElement
<1>2. \E x \in S : \A y \in S : x >= y
  BY <1>1
<1> QED BY <1>2 DEF Max

\* The least element is the negative of the greatest negative.
LEMMA MinIs ==
  ASSUME NEW S, \A e \in S : e \in Int, IsFiniteSet(S), S # {}
  PROVE  Min(S) \in S /\ \A e \in S : Min(S) <= e
<1>1. PICK T : T = {- e : e \in S}
  OBVIOUS
<1>2. IsFiniteSet(T) /\ T # {} /\ \A t \in T : t \in Int
  <2>1. PICK f : f = [e \in S |-> - e]
    OBVIOUS
  <2>2. T = {f[e] : e \in S} /\ T # {} /\ \A t \in T : t \in Int
    BY <1>1, <2>1
  <2>3. f \in Surjection(S, T)
    BY <2>1, <2>2 DEF Surjection
  <2> QED BY <2>2, <2>3, FS_Surjection
<1>3. PICK t \in T : \A u \in T : u <= t
  BY <1>2, GreatestElement
<1>4. PICK m \in S : t = - m
  BY <1>1
<1>5. \A e \in S : m <= e
  BY <1>1, <1>3, <1>4
<1>6. \E x \in S : \A y \in S : x =< y
  BY <1>5
<1> QED BY <1>6 DEF Min

\* Sets of days are finite.
LEMMA FiniteDays ==
  ASSUME MarketStoreAssumption, NEW S \in SUBSET (0..MaxDay)
  PROVE  IsFiniteSet(S) /\ \A e \in S : e \in Int
<1>1. 0 \in Int /\ MaxDay \in Int
  BY DEF MarketStoreAssumption
<1>2. IsFiniteSet(0..MaxDay)
  BY <1>1, FS_Interval
<1>3. IsFiniteSet(S)
  BY <1>2, FS_Subset
<1> QED BY <1>3

-----------------------------------------------------------------------------
\* The page tells of every change of the index but for unlisted removals, and
\* of no other; those of tomorrow are still to come.
ChangeRows == [symbol : Symbols, kind : {"added", "removed"}, on : Days]
Between(s, kind, d, e) ==
  \E c \in changes : c.symbol = s /\ c.kind = kind /\ d < c.on /\ c.on <= e

TookEffect(c) ==
  /\ c.kind = "added" => c.symbol \in was[c.on] /\ c.symbol \notin was[c.on - 1]
  /\ c.kind = "removed" => c.symbol \in was[c.on - 1] /\ c.symbol \notin was[c.on]

Pending(c) ==
  /\ c.kind = "added" => c.symbol \notin was[day]
  /\ c.kind = "removed" => c.symbol \in was[day]

IndexInv ==
  /\ day \in Days /\ closed \in BOOLEAN
  /\ was \in [Days -> SUBSET Symbols]
  /\ changes \in SUBSET ChangeRows
  /\ \A c \in changes :
       /\ 1 < c.on /\ c.on <= day + 1
       /\ c.on <= day => TookEffect(c)
       /\ c.on = day + 1 => Pending(c)
  /\ \A s \in Symbols : \A d, e \in 1..day : d < e =>
       /\ s \notin was[d] /\ s \in was[e] => Between(s, "added", d, e)
       /\ s \in was[d] /\ s \notin was[e] => s \in unlisted \/ Between(s, "removed", d, e)

\* Nothing has changed yet.
LEMMA IndexInit == ASSUME MarketStoreAssumption, Init PROVE IndexInv
<1>1. 1 \in Days
  BY DEF MarketStoreAssumption, Days
<1>2. was \in [Days -> SUBSET Symbols]
  BY DEF Init
<1>3. day = 1 /\ closed = FALSE /\ changes = {}
  BY DEF Init
<1>4. \A d, e \in 1..day : ~(d < e)
  BY <1>3
<1> QED BY <1>1, <1>2, <1>3, <1>4 DEF IndexInv

\* Nothing that the invariant of the index is about.
LEMMA IndexStill ==
  ASSUME IndexInv, UNCHANGED <<day, was, changes, unlisted>>, closed' \in BOOLEAN
  PROVE  IndexInv'
BY DEF IndexInv, Between, TookEffect, Pending, Days

\* What is known of a symbol that may change today.
LEMMA UnchangedToday ==
  ASSUME MarketStoreAssumption, IndexInv, NEW s \in Symbols, CanChange(s, day)
  PROVE  /\ day - 1 \in Days /\ day \in Days /\ 1 < day
         /\ s \in was[day] => s \in was[day - 1]
         /\ s \notin was[day] /\ s \notin unlisted => s \notin was[day - 1]
         /\ \A c \in changes : c.symbol = s => c.on < day
<1>1. day \in Int /\ day > 1 /\ day - 1 \in 1..day /\ day \in 1..day /\ day - 1 < day
  BY DEF IndexInv, CanChange, Days, MarketStoreAssumption
<1>2. \A c \in changes : c.symbol = s => c.on < day /\ c.on \in Int
  BY DEF CanChange, IndexInv, ChangeRows, Days
<1>3. ~ Between(s, "added", day - 1, day) /\ ~ Between(s, "removed", day - 1, day)
  BY <1>1, <1>2 DEF Between
<1> QED BY <1>1, <1>2, <1>3 DEF IndexInv, Days, MarketStoreAssumption

\* The index as it would be with one more change, of a symbol without others
\* on that day or later.
LEMMA ChangedToday ==
  ASSUME MarketStoreAssumption, IndexInv, NEW s \in Symbols, NEW kind \in {"added", "removed"},
         CanChange(s, day), day' = day, closed' = closed,
         \/ changes' = changes \cup {[symbol |-> s, kind |-> kind, on |-> day]} /\ unlisted' = unlisted
         \/ changes' = changes /\ unlisted' = unlisted \cup {s} /\ kind = "removed",
         kind = "added" => s \notin was[day] /\ s \notin unlisted /\ was' = [was EXCEPT ![day] = @ \cup {s}],
         kind = "removed" => s \in was[day] /\ was' = [was EXCEPT ![day] = @ \ {s}]
  PROVE  IndexInv'
<1>1. /\ day - 1 \in Days /\ day \in Days /\ 1 < day
      /\ kind = "added" => s \notin was[day] /\ s \notin was[day - 1]
      /\ kind = "removed" => s \in was[day] /\ s \in was[day - 1]
      /\ \A c \in changes : c.symbol = s => c.on < day
  BY UnchangedToday
<1>2. PICK new : new = [symbol |-> s, kind |-> kind, on |-> day]
  OBVIOUS
<1>3. /\ new \in ChangeRows /\ changes \subseteq changes' /\ changes' \subseteq changes \cup {new}
      /\ unlisted \subseteq unlisted'
      /\ new \in changes' \/ (s \in unlisted' /\ kind = "removed")
  BY <1>1, <1>2 DEF ChangeRows
<1>4. /\ was' \in [Days -> SUBSET Symbols]
      /\ \A d \in Days, t \in Symbols : t # s \/ d # day => (t \in was'[d] <=> t \in was[d])
      /\ s \in was'[day] <=> kind = "added"
  <2>1. CASE kind = "added"
    BY <1>1, <2>1 DEF IndexInv
  <2>2. CASE kind = "removed"
    BY <1>1, <2>2 DEF IndexInv
  <2> QED BY <2>1, <2>2
<1>5. \A c \in changes : /\ c \in ChangeRows /\ c.on \in Days /\ c.on - 1 \in Days /\ c.symbol \in Symbols
                         /\ c.on - 1 # day \/ c.symbol # s
  BY <1>1 DEF IndexInv, ChangeRows, Days
<1>6. ASSUME NEW c \in changes'
      PROVE  /\ 1 < c.on /\ c.on <= day + 1
             /\ c.on <= day => TookEffect(c)'
             /\ c.on = day + 1 => Pending(c)'
  <2>1. CASE c = new
    <3>1. c.symbol = s /\ c.kind = kind /\ c.on = day /\ day \in Int
      BY <1>1, <1>2, <2>1 DEF Days
    <3>2. s \in was'[day - 1] <=> s \in was[day - 1]
      BY <1>1, <1>4, <3>1
    <3>3. TookEffect(c)'
      BY <1>1, <1>4, <3>1, <3>2 DEF TookEffect
    <3> QED BY <1>1, <3>1, <3>3
  <2>2. CASE c \in changes
    <3>1. /\ c.on \in Int /\ day \in Int /\ c.on \in Days /\ c.on - 1 \in Days /\ c.symbol \in Symbols
          /\ c.on - 1 # day \/ c.symbol # s
      <4>1. /\ c.on \in Days /\ c.on - 1 \in Days /\ c.symbol \in Symbols
            /\ c.on - 1 # day \/ c.symbol # s
        BY <1>5, <2>2
      <4> QED BY <1>1, <4>1 DEF Days
    <3>2. CASE c.on <= day
      <4>1. TookEffect(c) /\ 1 < c.on
        BY <2>2, <3>2 DEF IndexInv
      <4>2. c.symbol # s \/ c.on # day
        BY <1>1, <2>2, <3>1
      <4>3. c.symbol \in was'[c.on] <=> c.symbol \in was[c.on]
        BY <1>4, <3>1, <4>2
      <4>4. c.symbol \in was'[c.on - 1] <=> c.symbol \in was[c.on - 1]
        BY <1>4, <3>1
      <4>5. TookEffect(c)'
        BY <4>1, <4>3, <4>4 DEF TookEffect
      <4> QED BY <3>1, <3>2, <4>1, <4>5
    <3>3. CASE c.on > day
      <4>1. 1 < c.on /\ c.on = day + 1 /\ Pending(c) /\ c.symbol # s
        BY <1>1, <2>2, <3>1, <3>3 DEF IndexInv
      <4>2. c.symbol \in was'[day] <=> c.symbol \in was[day]
        BY <1>1, <1>4, <1>5, <2>2, <4>1
      <4>3. Pending(c)'
        BY <4>1, <4>2 DEF Pending
      <4> QED BY <3>1, <3>3, <4>1, <4>3
    <3> QED BY <3>1, <3>2, <3>3
  <2> QED BY <1>3, <2>1, <2>2
<1>7. ASSUME NEW t \in Symbols, NEW d \in 1..day, NEW e \in 1..day, d < e
      PROVE  /\ t \notin was'[d] /\ t \in was'[e] => Between(t, "added", d, e)'
             /\ t \in was'[d] /\ t \notin was'[e] => t \in unlisted' \/ Between(t, "removed", d, e)'
  <2>1. d \in Days /\ e \in Days /\ d # day
    BY <1>1, <1>7 DEF Days
  <2>2. \A k : Between(t, k, d, e) => Between(t, k, d, e)'
    BY <1>3 DEF Between
  <2>3. CASE t = s /\ e = day
    <3>1. Between(t, kind, d, e)' \/ (t \in unlisted' /\ kind = "removed")
      BY <1>1, <1>2, <1>3, <1>7, <2>1, <2>3 DEF Between, Days
    <3> QED BY <1>4, <2>1, <2>3, <3>1
  <2>4. CASE ~(t = s /\ e = day)
    <3>1. (t \in was'[d] <=> t \in was[d]) /\ (t \in was'[e] <=> t \in was[e])
      BY <1>4, <2>1, <2>4
    <3> QED BY <1>3, <1>7, <2>2, <3>1 DEF IndexInv
  <2> QED BY <2>3, <2>4
<1>8. changes' \in SUBSET ChangeRows
  BY <1>3 DEF IndexInv
<1> QED BY <1>4, <1>6, <1>7, <1>8 DEF IndexInv

\* A change announced for tomorrow.
LEMMA AnnouncedForTomorrow ==
  ASSUME MarketStoreAssumption, IndexInv, NEW s \in Symbols, NEW kind \in {"added", "removed"},
         CanChange(s, day + 1), UNCHANGED <<day, closed, was, unlisted>>,
         changes' = changes \cup {[symbol |-> s, kind |-> kind, on |-> day + 1]},
         kind = "added" => s \notin was[day], kind = "removed" => s \in was[day]
  PROVE  IndexInv'
<1>1. day \in Days /\ day + 1 \in Days /\ day \in Int /\ 1 <= day
  BY DEF IndexInv, CanChange, Days, MarketStoreAssumption
<1>2. PICK new : new = [symbol |-> s, kind |-> kind, on |-> day + 1]
  OBVIOUS
<1>3. changes' = changes \cup {new} /\ new \in ChangeRows /\ changes' \in SUBSET ChangeRows
  BY <1>1, <1>2 DEF ChangeRows, IndexInv
<1>4. \A c \in changes' : c \in changes \/ c = new
  BY <1>3
<1>5. /\ 1 < new.on /\ new.on <= day + 1 /\ ~(new.on <= day)
      /\ Pending(new)
  BY <1>1, <1>2 DEF Pending
<1>6. ASSUME NEW c \in changes'
      PROVE  /\ 1 < c.on /\ c.on <= day' + 1
             /\ c.on <= day' => TookEffect(c)'
             /\ c.on = day' + 1 => Pending(c)'
  <2>1. (TookEffect(c)' <=> TookEffect(c)) /\ (Pending(c)' <=> Pending(c)) /\ day' = day
    BY DEF TookEffect, Pending
  <2> QED BY <1>4, <1>5, <2>1 DEF IndexInv
<1>7. \A t, k, d, e : Between(t, k, d, e) => Between(t, k, d, e)'
  BY <1>3 DEF Between
<1>8. \A t \in Symbols : \A d, e \in 1..day' : d < e =>
        /\ t \notin was'[d] /\ t \in was'[e] => Between(t, "added", d, e)'
        /\ t \in was'[d] /\ t \notin was'[e] => t \in unlisted' \/ Between(t, "removed", d, e)'
  <2>1. \A t \in Symbols : \A d, e \in 1..day : d < e =>
        /\ t \notin was[d] /\ t \in was[e] => Between(t, "added", d, e)
        /\ t \in was[d] /\ t \notin was[e] => t \in unlisted \/ Between(t, "removed", d, e)
    BY DEF IndexInv
  <2> QED BY <1>7, <2>1
<1>9. day' \in Days /\ closed' \in BOOLEAN /\ was' \in [Days -> SUBSET Symbols]
  BY DEF IndexInv
<1>10. \A c \in changes' : /\ 1 < c.on /\ c.on <= day' + 1
                           /\ c.on <= day' => TookEffect(c)'
                           /\ c.on = day' + 1 => Pending(c)'
  BY <1>6
<1> QED BY <1>3, <1>8, <1>9, <1>10 DEF IndexInv

\* A symbol joins, or will.
LEMMA JoinsKeepsIndex ==
  ASSUME MarketStoreAssumption, IndexInv, NEW s \in Symbols, Joins(s) PROVE IndexInv'
<1>1. PICK on \in {day, day + 1} :
        /\ CanChange(s, on) /\ Announced(s, "added", on)
        /\ was' = IF on = day THEN [was EXCEPT ![day] = @ \cup {s}] ELSE was
  BY DEF Joins
<1>2. s \notin was[day] /\ s \notin unlisted /\ UNCHANGED <<day, closed, unlisted>>
      /\ changes' = changes \cup {[symbol |-> s, kind |-> "added", on |-> on]}
  BY <1>1 DEF Joins, Announced, Constituents
<1>3. day # day + 1
  BY DEF IndexInv, Days
<1>4. CASE on = day
  BY <1>1, <1>2, <1>4, ChangedToday
<1>5. CASE on = day + 1
  BY <1>1, <1>2, <1>3, <1>5, AnnouncedForTomorrow
<1> QED BY <1>1, <1>4, <1>5

\* A symbol leaves, or will.
LEMMA LeavesKeepsIndex ==
  ASSUME MarketStoreAssumption, IndexInv, NEW s \in Symbols, Leaves(s) \/ LeavesUnlisted(s)
  PROVE  IndexInv'
<1>1. CASE Leaves(s)
  <2>1. PICK on \in {day, day + 1} :
          /\ CanChange(s, on) /\ Announced(s, "removed", on)
          /\ was' = IF on = day THEN [was EXCEPT ![day] = @ \ {s}] ELSE was
    BY <1>1 DEF Leaves
  <2>2. s \in was[day] /\ UNCHANGED <<day, closed, unlisted>>
        /\ changes' = changes \cup {[symbol |-> s, kind |-> "removed", on |-> on]}
    BY <1>1, <2>1 DEF Leaves, Announced, Constituents
  <2>3. day # day + 1
    BY DEF IndexInv, Days
  <2>4. CASE on = day
    BY <2>1, <2>2, <2>4, ChangedToday
  <2>5. CASE on = day + 1
    BY <2>1, <2>2, <2>3, <2>5, AnnouncedForTomorrow
  <2> QED BY <2>1, <2>4, <2>5
<1>2. CASE LeavesUnlisted(s)
  <2>1. s \in was[day] /\ CanChange(s, day) /\ UNCHANGED <<day, closed, changes>>
        /\ was' = [was EXCEPT ![day] = @ \ {s}] /\ unlisted' = unlisted \cup {s}
    BY <1>2 DEF LeavesUnlisted, Constituents
  <2> QED BY <2>1, ChangedToday
<1> QED BY <1>1, <1>2

\* A new day begins with the index of the old one and what was announced.
LEMMA DawnKeepsIndex == ASSUME MarketStoreAssumption, IndexInv, Dawn PROVE IndexInv'
<1>1. /\ day \in Days /\ day + 1 \in Days /\ day' = day + 1 /\ closed' = FALSE /\ day \in 1..day
      /\ UNCHANGED <<changes, unlisted>> /\ day \in Int /\ 1 <= day
  BY DEF Dawn, IndexInv, Days, MarketStoreAssumption
<1>2. \A c \in changes : /\ c \in ChangeRows /\ c.symbol \in Symbols /\ c.on \in Days /\ c.on - 1 \in Days
                         /\ c.on \in Int /\ 1 < c.on /\ c.on <= day + 1
  BY <1>1 DEF IndexInv, ChangeRows, Days
<1>3. \A k, t : t \in Coming(k) <=> \E c \in changes : c.symbol = t /\ c.kind = k /\ c.on = day + 1
  BY <1>1, <1>2 DEF Coming
<1>4. /\ Coming("added") \subseteq Symbols \ was[day] /\ Coming("removed") \subseteq was[day]
  BY <1>2, <1>3 DEF IndexInv, Pending
<1>5. /\ was' \in [Days -> SUBSET Symbols]
      /\ \A d \in Days : d # day + 1 => was'[d] = was[d]
      /\ \A t \in Symbols : t \in was'[day + 1] <=> (t \in was[day] \/ t \in Coming("added")) /\ t \notin Coming("removed")
  BY <1>1, <1>4 DEF Dawn, IndexInv
<1>6. ASSUME NEW c \in changes PROVE 1 < c.on /\ c.on <= day + 1 /\ TookEffect(c)'
  <2>1. CASE c.on = day + 1
    <3>1. c.symbol \in Coming(c.kind) /\ Pending(c)
      BY <1>2, <1>3, <2>1 DEF IndexInv
    <3>2. c.symbol \in was'[c.on - 1] <=> c.symbol \in was[day]
      BY <1>1, <1>2, <1>5, <2>1
    <3> QED BY <1>2, <1>4, <1>5, <2>1, <3>1, <3>2 DEF TookEffect, Pending
  <2>2. CASE c.on # day + 1
    <3>1. c.on <= day /\ TookEffect(c) /\ c.on - 1 # day + 1
      BY <1>1, <1>2, <2>2 DEF IndexInv
    <3> QED BY <1>2, <1>5, <2>2, <3>1 DEF TookEffect
  <2> QED BY <2>1, <2>2
<1>7. ASSUME NEW t \in Symbols, NEW d \in 1..(day + 1), NEW e \in 1..(day + 1), d < e
      PROVE  /\ t \notin was'[d] /\ t \in was'[e] => Between(t, "added", d, e)
             /\ t \in was'[d] /\ t \notin was'[e] => t \in unlisted \/ Between(t, "removed", d, e)
  <2>1. d \in Days /\ e \in Days /\ d # day + 1 /\ d \in 1..day
    BY <1>1, <1>7 DEF Days
  <2>2. CASE e # day + 1
    <3>1. e \in 1..day
      BY <1>1, <2>2 DEF Days
    <3> QED BY <1>5, <1>7, <2>1, <2>2, <3>1 DEF IndexInv
  <2>3. CASE e = day + 1
    <3>1. was'[d] = was[d]
      BY <1>5, <2>1
    <3>2. \A k : t \in Coming(k) => Between(t, k, d, e)
      BY <1>3, <1>7, <2>3 DEF Between
    <3>3. \A k : Between(t, k, d, day) => Between(t, k, d, e)
      BY <1>1, <1>2, <2>3 DEF Between
    <3>4. d < day => /\ t \notin was[d] /\ t \in was[day] => Between(t, "added", d, day)
                     /\ t \in was[d] /\ t \notin was[day] => t \in unlisted \/ Between(t, "removed", d, day)
      BY <1>1, <2>1 DEF IndexInv
    <3>5. d < day \/ was[d] = was[day]
      BY <1>1, <2>1 DEF Days
    <3> QED BY <1>5, <2>3, <3>1, <3>2, <3>3, <3>4, <3>5
  <2> QED BY <2>2, <2>3
<1>8. /\ day' \in Days /\ closed' \in BOOLEAN /\ changes' \in SUBSET ChangeRows
      /\ \A c \in changes' : /\ 1 < c.on /\ c.on <= day' + 1 /\ (c.on <= day' => TookEffect(c)')
                              /\ (c.on = day' + 1 => Pending(c)')
  <2>1. day' \in Days /\ closed' \in BOOLEAN /\ changes' \in SUBSET ChangeRows
    BY <1>1 DEF IndexInv
  <2>2. ASSUME NEW c \in changes PROVE 1 < c.on /\ c.on <= day' + 1 /\ TookEffect(c)' /\ c.on # day' + 1
    <3>1. c.on \in Int /\ 1 < c.on /\ c.on <= day + 1 /\ TookEffect(c)'
      BY <1>2, <1>6
    <3> QED BY <1>1, <3>1
  <2>3. changes' = changes
    BY <1>1
  <2> QED BY <2>1, <2>2, <2>3
<1>9. \A t \in Symbols : \A d, e \in 1..day' : d < e =>
        /\ t \notin was'[d] /\ t \in was'[e] => Between(t, "added", d, e)'
        /\ t \in was'[d] /\ t \notin was'[e] => t \in unlisted' \/ Between(t, "removed", d, e)'
  BY <1>1, <1>7 DEF Between
<1> QED BY <1>5, <1>8, <1>9 DEF IndexInv

\* Every step keeps the invariant of the index.
LEMMA IndexKept == ASSUME MarketStoreAssumption, IndexInv, [Next]_vars PROVE IndexInv'
<1>1. CASE \E s \in Symbols : Joins(s) \/ Leaves(s) \/ LeavesUnlisted(s)
  BY <1>1, JoinsKeepsIndex, LeavesKeepsIndex
<1>2. CASE Dawn
  BY <1>2, DawnKeepsIndex
<1>3. ASSUME RefreshUniverse \/ CleanUp \/ Close
              \/ (\E s \in Priced : YfPull(s) \/ IbPull(s) \/ IbBackfill(s) \/ Freshen(s) \/ BackfillDelisted(s))
              \/ UNCHANGED vars
      PROVE IndexInv'
  <2>1. UNCHANGED <<day, was, changes, unlisted>> /\ closed' \in BOOLEAN
    BY <1>3 DEF RefreshUniverse, CleanUp, Close, YfPull, IbPull, IbBackfill, Freshen,
       BackfillDelisted, vars, index, IndexInv
  <2> QED BY <2>1, IndexStill
<1> QED BY <1>1, <1>2, <1>3 DEF Next

-----------------------------------------------------------------------------
\* Sets of days have a first and a last.
LEMMA DaysExtrema ==
  ASSUME MarketStoreAssumption, NEW S \in SUBSET Days, S # {}
  PROVE  /\ Max(S) \in S /\ \A e \in S : e <= Max(S)
         /\ Min(S) \in S /\ \A e \in S : Min(S) <= e
<1>1. S \in SUBSET (0..MaxDay)
  BY DEF Days
<1>2. IsFiniteSet(S) /\ \A e \in S : e \in Int
  BY <1>1, FiniteDays
<1> QED BY <1>2, MaxIs, MinIs

\* The additions and removals of a symbol are where it came and went, and
\* where it will.
LEMMA AddsAre ==
  ASSUME MarketStoreAssumption, IndexInv, NEW s \in Symbols
  PROVE  /\ Additions(s) \in SUBSET Days /\ Adds(s) \in SUBSET Days
         /\ \A a : a \in Adds(s) <=> a \in Additions(s) /\ a <= day
         /\ \A a \in Additions(s) : 1 < a /\ a <= day + 1 /\ s \notin was[a - 1]
         /\ \A a \in Adds(s) : s \in was[a]
         /\ \A d, e : e \in 1..day /\ Between(s, "added", d, e) => \E a \in Adds(s) : d < a /\ a <= e
<1>1. \A a : a \in Additions(s) <=> \E c \in changes : c.symbol = s /\ c.kind = "added" /\ c.on = a
  BY DEF Additions
<1>2. \A c \in changes : c.on \in Days
  BY DEF IndexInv, ChangeRows
<1>3. day \in Int /\ \A d \in Days : d \in Int
  BY DEF IndexInv, Days
<1>4. \A a : a \in Adds(s) <=> a \in Additions(s) /\ a <= day
  BY DEF Adds
<1>5. Additions(s) \in SUBSET Days /\ Adds(s) \in SUBSET Days
  BY <1>1, <1>2, <1>4
<1>6. ASSUME NEW a \in Additions(s)
      PROVE  1 < a /\ a <= day + 1 /\ s \notin was[a - 1] /\ (a <= day => s \in was[a])
  <2>1. PICK c \in changes : c.symbol = s /\ c.kind = "added" /\ c.on = a
    BY <1>1
  <2>2. /\ 1 < a /\ a <= day + 1 /\ a \in Int
        /\ a <= day => TookEffect(c)
        /\ a = day + 1 => Pending(c)
    BY <1>2, <1>3, <2>1 DEF IndexInv
  <2>3. CASE a <= day
    BY <2>1, <2>2, <2>3 DEF TookEffect
  <2>4. CASE a = day + 1
    <3>1. a - 1 = day /\ ~(a <= day)
      BY <1>3, <2>4
    <3> QED BY <2>1, <2>2, <2>4, <3>1 DEF Pending
  <2> QED BY <1>3, <2>2, <2>3, <2>4
<1>7. ASSUME NEW d, NEW e, e \in 1..day, Between(s, "added", d, e)
      PROVE  \E a \in Adds(s) : d < a /\ a <= e
  <2>1. PICK c \in changes : c.symbol = s /\ c.kind = "added" /\ d < c.on /\ c.on <= e
    BY <1>7 DEF Between
  <2>2. c.on <= day
    BY <1>2, <1>3, <1>7, <2>1
  <2> QED BY <1>1, <1>4, <2>1, <2>2
<1> QED BY <1>4, <1>5, <1>6, <1>7

\* The removals that the page tells of are real.
LEMMA RemovalsAre ==
  ASSUME MarketStoreAssumption, IndexInv, NEW s \in Symbols
  PROVE  /\ Removals(s) \in SUBSET Days
         /\ \A r \in Removals(s) : 1 < r /\ r <= day + 1 /\ s \in was[r - 1]
         /\ \A r \in Removals(s) : r <= day => s \notin was[r]
         /\ \A d, e : Between(s, "removed", d, e) => \E r \in Removals(s) : d < r /\ r <= e
<1>1. \A a : a \in Removals(s) <=> \E c \in changes : c.symbol = s /\ c.kind = "removed" /\ c.on = a
  BY DEF Removals
<1>2. \A c \in changes : c.on \in Days
  BY DEF IndexInv, ChangeRows
<1>3. day \in Int /\ \A d \in Days : d \in Int
  BY DEF IndexInv, Days
<1>4. ASSUME NEW a \in Removals(s)
      PROVE  1 < a /\ a <= day + 1 /\ s \in was[a - 1] /\ (a <= day => s \notin was[a])
  <2>1. PICK c \in changes : c.symbol = s /\ c.kind = "removed" /\ c.on = a
    BY <1>1
  <2>2. /\ 1 < a /\ a <= day + 1 /\ a \in Int
        /\ a <= day => TookEffect(c)
        /\ a = day + 1 => Pending(c)
    BY <1>2, <1>3, <2>1 DEF IndexInv
  <2>3. CASE a <= day
    BY <2>1, <2>2, <2>3 DEF TookEffect
  <2>4. CASE a = day + 1
    <3>1. a - 1 = day /\ ~(a <= day)
      BY <1>3, <2>4
    <3> QED BY <2>1, <2>2, <2>4, <3>1 DEF Pending
  <2> QED BY <1>3, <2>2, <2>3, <2>4
<1>5. \A d, e : Between(s, "removed", d, e) => \E r \in Removals(s) : d < r /\ r <= e
  BY <1>1 DEF Between
<1> QED BY <1>1, <1>2, <1>4, <1>5

\* What the page announces is among them.
LEMMA ComingAre ==
  ASSUME MarketStoreAssumption, IndexInv, NEW s \in Symbols
  PROVE  /\ s \in Coming("added") => day + 1 \in Additions(s) /\ s \notin was[day]
         /\ s \in Coming("removed") => day + 1 \in Removals(s) /\ s \in was[day]
         /\ s \in Constituents => s \in CurrentSymbols \/ s \in Coming("removed")
         /\ s \in CurrentSymbols => s \in Constituents \/ s \in early \cap Coming("added")
<1>1. day \in Int
  BY DEF IndexInv, Days
<1>2. \A c \in changes : c.on > day => c.on = day + 1 /\ Pending(c)
  <2> SUFFICES ASSUME NEW c \in changes, c.on > day PROVE c.on = day + 1 /\ Pending(c)
    OBVIOUS
  <2>1. c.on \in Int /\ c.on <= day + 1
    BY DEF IndexInv, ChangeRows, Days
  <2>2. c.on = day + 1
    BY <1>1, <2>1
  <2> QED BY <2>2 DEF IndexInv
<1>3. \A k : s \in Coming(k) => \E c \in changes : c.symbol = s /\ c.kind = k /\ c.on > day
  BY DEF Coming
<1>4. ASSUME s \in Coming("added") PROVE day + 1 \in Additions(s) /\ s \notin was[day]
  <2>1. PICK c \in changes : c.symbol = s /\ c.kind = "added" /\ c.on > day
    BY <1>3, <1>4
  <2> QED BY <1>2, <2>1 DEF Additions, Pending
<1>5. ASSUME s \in Coming("removed") PROVE day + 1 \in Removals(s) /\ s \in was[day]
  <2>1. PICK c \in changes : c.symbol = s /\ c.kind = "removed" /\ c.on > day
    BY <1>3, <1>5
  <2> QED BY <1>2, <2>1 DEF Removals, Pending
<1> QED BY <1>4, <1>5 DEF CurrentSymbols, Constituents

\* Whose rows the timeline has.
LEMMA TimelineRows ==
  ASSUME MarketStoreAssumption, IndexInv
  PROVE  /\ \A r \in Timeline : \E s \in Symbols :
              \/ s \in CurrentSymbols /\ r = Current(s)
              \/ s \notin CurrentSymbols /\ r \in Historical(s)
         /\ \A s \in CurrentSymbols : Current(s) \in Timeline
         /\ \A s \in Symbols : s \notin CurrentSymbols => Historical(s) \subseteq Timeline
<1>1. \A c \in changes : c.symbol \in Symbols
  BY DEF IndexInv, ChangeRows
<1>2. CurrentSymbols \subseteq Symbols
  BY <1>1 DEF IndexInv, CurrentSymbols, Constituents, Coming
<1>3. ASSUME NEW r \in Timeline
      PROVE  \E s \in Symbols : \/ s \in CurrentSymbols /\ r = Current(s)
                                \/ s \notin CurrentSymbols /\ r \in Historical(s)
  <2>1. CASE \E s \in CurrentSymbols : r = Current(s)
    BY <1>2, <2>1
  <2>2. CASE \E s \in {c.symbol : c \in changes} \ CurrentSymbols : r \in Historical(s)
    BY <1>1, <2>2
  <2> QED BY <2>1, <2>2 DEF Timeline
<1>4. \A s \in CurrentSymbols : Current(s) \in Timeline
  BY DEF Timeline
<1>5. ASSUME NEW s \in Symbols, s \notin CurrentSymbols PROVE Historical(s) \subseteq Timeline
  <2>1. CASE s \in {c.symbol : c \in changes}
    BY <1>5, <2>1 DEF Timeline
  <2>2. CASE s \notin {c.symbol : c \in changes}
    <3>1. Additions(s) = {} /\ Removals(s) = {}
      BY <2>2 DEF Additions, Removals
    <3>2. Historical(s) = {}
      BY <3>1 DEF Historical
    <3> QED BY <3>2
  <2> QED BY <2>1, <2>2
<1> QED BY <1>3, <1>4, <1>5

\* The row of a symbol of the constituents table: from the day since which it
\* is in the index, or from tomorrow when it has never been.
LEMMA CurrentStretch ==
  ASSUME MarketStoreAssumption, IndexInv, NEW s \in Symbols, s \in CurrentSymbols,
         NEW r, r = Current(s)
  PROVE  /\ r.symbol = s /\ r.end = Open /\ r.start \in 0..MaxDay
         /\ s \in was[day] => /\ \A d \in 1..day : r.start <= d => s \in was[d]
                              /\ r.start > 1 => s \notin was[r.start - 1] /\ r.start <= day
         /\ s \notin was[day] /\ Adds(s) = {} => r.start = day + 1
<1>1. day \in Days /\ day \in 1..day /\ day \in Int /\ 1 \in 0..MaxDay /\ 0 \in 0..MaxDay
      /\ Days \subseteq 0..MaxDay /\ MaxDay \in Nat
  BY DEF IndexInv, Days, MarketStoreAssumption
<1>2. r.symbol = s /\ r.end = Open /\ r.start = IF Adds(s) # {} THEN Max(Adds(s)) ELSE DateAdded(s)
  BY DEF Current, Row
<1>3. CASE Adds(s) # {}
  <2>1. PICK a : a = Max(Adds(s))
    OBVIOUS
  <2>2. a \in Adds(s) /\ \A b \in Adds(s) : b <= a
    BY <1>3, <2>1, AddsAre, DaysExtrema
  <2>3. r.start = a
    BY <1>2, <1>3, <2>1
  <2>4. a \in Days /\ 1 < a /\ a <= day /\ s \notin was[a - 1]
    BY <2>2, AddsAre
  <2>5. ASSUME s \in was[day], NEW d \in 1..day, a <= d, s \notin was[d] PROVE FALSE
    <3>1. d < day
      BY <1>1, <2>5
    <3>2. Between(s, "added", d, day)
      BY <1>1, <2>5, <3>1 DEF IndexInv
    <3>3. PICK b \in Adds(s) : d < b
      BY <1>1, <3>2, AddsAre
    <3>4. b <= a /\ b \in Days
      BY <2>2, <3>3, AddsAre
    <3> QED BY <2>4, <2>5, <3>3, <3>4 DEF Days
  <2> QED BY <1>1, <1>2, <1>3, <2>3, <2>4, <2>5
<1>4. CASE Adds(s) = {} /\ Additions(s) # {}
  <2>1. PICK a : a = Max(Additions(s))
    OBVIOUS
  <2>2. a \in Additions(s)
    BY <1>4, <2>1, AddsAre, DaysExtrema
  <2>3. a \in Days /\ a <= day + 1 /\ ~(a <= day) /\ s \notin was[a - 1]
    BY <1>4, <2>2, AddsAre
  <2>4. a = day + 1 /\ a - 1 = day
    BY <1>1, <2>3 DEF Days
  <2>5. r.start = a
    BY <1>2, <1>4, <2>1 DEF DateAdded
  <2> QED BY <1>1, <1>2, <2>3, <2>4, <2>5
<1>5. CASE Adds(s) = {} /\ Additions(s) = {}
  <2>1. r.start \in {0, 1}
    BY <1>2, <1>5 DEF DateAdded, LongAgo, ReliableStart
  <2>2. s \notin Coming("added")
    BY <1>5, ComingAre
  <2>3. s \in was[day]
    BY <2>2, ComingAre DEF Constituents
  <2>4. ASSUME NEW d \in 1..day, s \notin was[d] PROVE FALSE
    <3>1. d < day
      BY <1>1, <2>3, <2>4
    <3>2. Between(s, "added", d, day)
      BY <1>1, <2>3, <2>4, <3>1 DEF IndexInv
    <3> QED BY <1>1, <1>5, <3>2, AddsAre
  <2> QED BY <1>1, <1>2, <2>1, <2>3, <2>4
<1> QED BY <1>3, <1>4, <1>5

\* The end that an addition is paired with: the first removal after it.
LEMMA EndIs ==
  ASSUME MarketStoreAssumption, IndexInv, NEW s \in Symbols, NEW a \in Additions(s)
  PROVE  /\ EndOf(a, Removals(s)) \in Days
         /\ \/ EndOf(a, Removals(s)) = day /\ \A r \in Removals(s) : r < a
            \/ /\ EndOf(a, Removals(s)) \in Removals(s)
               /\ a <= day => a < EndOf(a, Removals(s))
               /\ \A r \in Removals(s) : a <= r => EndOf(a, Removals(s)) <= r
<1>1. PICK later : later = {r \in Removals(s) : r >= a}
  OBVIOUS
<1>2. later \in SUBSET Days /\ a \in Days /\ Removals(s) \in SUBSET Days /\ day \in Days
  BY <1>1, AddsAre, RemovalsAre DEF IndexInv
<1>3. CASE later = {}
  <2>1. EndOf(a, Removals(s)) = day
    BY <1>1, <1>3 DEF EndOf
  <2>2. \A r \in Removals(s) : r < a
    BY <1>1, <1>2, <1>3 DEF Days
  <2> QED BY <1>2, <2>1, <2>2
<1>4. CASE later # {}
  <2>1. PICK m : m = Min(later)
    OBVIOUS
  <2>2. EndOf(a, Removals(s)) = m
    BY <1>1, <1>4, <2>1 DEF EndOf
  <2>3. m \in later /\ \A e \in later : m <= e
    BY <1>2, <1>4, <2>1, DaysExtrema
  <2>4. m \in Removals(s) /\ m >= a /\ m \in Days
    BY <1>1, <1>2, <2>3
  <2>5. a <= day => m # a
    BY <2>4, AddsAre, RemovalsAre
  <2>6. \A r \in Removals(s) : a <= r => m <= r
    BY <1>1, <1>2, <2>3 DEF Days
  <2> QED BY <1>2, <2>2, <2>4, <2>5, <2>6 DEF Days
<1> QED BY <1>3, <1>4

\* The dates of the timeline.
LEMMA TimelineTypes ==
  ASSUME MarketStoreAssumption, IndexInv
  PROVE  \A r \in Timeline : r.start \in 0..MaxDay /\ r.end \in Int
<1>1. Days \subseteq 0..MaxDay /\ Days \subseteq Int /\ MaxDay \in Nat /\ Open \in Int /\ 1 \in 0..MaxDay
  BY DEF Days, Open, MarketStoreAssumption
<1> SUFFICES ASSUME NEW r \in Timeline PROVE r.start \in 0..MaxDay /\ r.end \in Int
  OBVIOUS
<1>2. PICK s \in Symbols : \/ s \in CurrentSymbols /\ r = Current(s)
                           \/ s \notin CurrentSymbols /\ r \in Historical(s)
  BY TimelineRows
<1>3. CASE s \in CurrentSymbols /\ r = Current(s)
  BY <1>1, <1>3, CurrentStretch
<1>4. CASE r \in Historical(s) /\ Additions(s) = {}
  <2>1. PICK e \in Removals(s) : r = Row(s, 1, e)
    BY <1>4 DEF Historical, ReliableStart
  <2> QED BY <1>1, <2>1, RemovalsAre DEF Row
<1>5. CASE r \in Historical(s) /\ Additions(s) # {}
  <2>1. PICK a \in Additions(s) : r = Row(s, a, EndOf(a, Removals(s)))
    BY <1>5 DEF Historical
  <2> QED BY <1>1, <2>1, AddsAre, EndIs DEF Row
<1> QED BY <1>2, <1>3, <1>4, <1>5

\* A symbol that has left and that the page knows the removals of: the rows
\* are its stretches in the index.
LEMMA HistoricalIsKnown ==
  ASSUME MarketStoreAssumption, IndexInv, NEW s \in Symbols, s \notin CurrentSymbols,
         s \notin unlisted, NEW d \in 1..day
  PROVE  (\E r \in Historical(s) : Covers(r, d)) <=> d \in Known(s)
<1>1. day \in Days /\ day \in 1..day /\ day \in Int /\ d \in Int /\ d <= day /\ d \in Days
  BY DEF IndexInv, Days, MarketStoreAssumption
<1>2. d \in Known(s) <=> s \in was[d] /\ (Additions(s) # {} => \E a \in Additions(s) : a <= d)
  BY DEF Known
\* No removal is later than a day of absence that no addition follows.
<1>3. s \in was[day] => day + 1 \in Removals(s)
  BY ComingAre DEF Constituents
<1>4. CASE Additions(s) = {}
  <2>1. \A a : a \notin Adds(s)
    BY <1>4, AddsAre
  <2>2. \A e, f \in 1..day : e < f /\ s \in was[f] => s \in was[e]
    <3> SUFFICES ASSUME NEW e \in 1..day, NEW f \in 1..day, e < f, s \in was[f], s \notin was[e]
                 PROVE  FALSE
      OBVIOUS
    <3>1. Between(s, "added", e, f)
      BY DEF IndexInv
    <3> QED BY <2>1, <3>1, AddsAre
  <2>3. (\E r \in Historical(s) : Covers(r, d)) <=> \E r \in Removals(s) : d < r
    <3>1. Historical(s) = {Row(s, 1, r) : r \in Removals(s)}
      BY <1>4 DEF Historical, ReliableStart
    <3>2. \A r : Covers(Row(s, 1, r), d) <=> d < r
      BY <1>1 DEF Covers, Row
    <3> QED BY <3>1, <3>2
  <2>4. ASSUME NEW r \in Removals(s), d < r PROVE s \in was[d]
    <3>1. r - 1 \in 1..day /\ d <= r - 1 /\ s \in was[r - 1] /\ r - 1 \in Int
      BY <1>1, <2>4, RemovalsAre DEF Days
    <3>2. d < r - 1 \/ d = r - 1
      BY <1>1, <3>1
    <3> QED BY <2>2, <3>1, <3>2
  <2>5. ASSUME s \in was[d] PROVE \E r \in Removals(s) : d < r
    <3>1. CASE s \in was[day]
      BY <1>1, <1>3, <3>1
    <3>2. CASE s \notin was[day]
      <4>1. d < day
        BY <1>1, <2>5, <3>2
      <4>2. Between(s, "removed", d, day)
        BY <1>1, <2>5, <3>2, <4>1 DEF IndexInv
      <4> QED BY <4>2, RemovalsAre
    <3> QED BY <3>1, <3>2
  <2> QED BY <1>2, <1>4, <2>3, <2>4, <2>5
<1>5. CASE Additions(s) # {}
  <2>1. (\E r \in Historical(s) : Covers(r, d)) <=>
          \E a \in Additions(s) : a <= d /\ d < EndOf(a, Removals(s))
    <3>1. Historical(s) = {Row(s, a, EndOf(a, Removals(s))) : a \in Additions(s)}
      BY <1>5 DEF Historical
    <3>2. \A a, e : Covers(Row(s, a, e), d) <=> a <= d /\ d < e
      BY DEF Covers, Row
    <3> QED BY <3>1, <3>2
  <2>2. ASSUME NEW a \in Additions(s), a <= d, d < EndOf(a, Removals(s)) PROVE s \in was[d]
    <3>1. a \in Adds(s) /\ a \in Days /\ a \in Int /\ s \in was[a] /\ 1 < a
      <4>1. a \in Days /\ a \in Int
        BY AddsAre DEF Days
      <4>2. a <= day
        BY <1>1, <2>2, <4>1
      <4> QED BY <4>1, <4>2, AddsAre
    <3>2. ASSUME s \notin was[d] PROVE FALSE
      <4>1. a < d /\ a \in 1..day
        BY <1>1, <2>2, <3>1, <3>2
      <4>2. Between(s, "removed", a, d)
        BY <1>1, <3>1, <3>2, <4>1 DEF IndexInv
      <4>3. PICK x \in Removals(s) : a < x /\ x <= d
        BY <4>2, RemovalsAre
      <4>4. x \in Int
        BY <4>3, RemovalsAre DEF Days
      <4>5. EndOf(a, Removals(s)) <= x /\ EndOf(a, Removals(s)) \in Int
        <5>1. ~(x < a) /\ a <= x
          BY <3>1, <4>3, <4>4
        <5>2. EndOf(a, Removals(s)) \in Int
          BY EndIs DEF Days
        <5> QED BY <4>3, <5>1, <5>2, EndIs
      <4> QED BY <1>1, <2>2, <4>3, <4>4, <4>5
    <3> QED BY <3>2
  <2>3. ASSUME s \in was[d], NEW b \in Additions(s), b <= d
        PROVE  \E a \in Additions(s) : a <= d /\ d < EndOf(a, Removals(s))
    <3>1. PICK before : before = {a \in Additions(s) : a <= d}
      OBVIOUS
    <3>2. before \in SUBSET Days /\ before # {}
      BY <2>3, <3>1, AddsAre
    <3>3. PICK a \in before : \A x \in before : x <= a
      BY <3>2, DaysExtrema
    <3>4. a \in Additions(s) /\ a <= d /\ a \in Days /\ a \in Int
      BY <3>1, <3>2, <3>3 DEF Days
    <3>5. a <= day
      BY <1>1, <3>4
    <3>6. PICK e : e = EndOf(a, Removals(s))
      OBVIOUS
    <3>7. e \in Days /\ e \in Int
      BY <3>4, <3>6, EndIs DEF Days
    <3>8. CASE e = day /\ \A r \in Removals(s) : r < a
      <4>1. s \notin was[day]
        <5>1. ~(day + 1 < a)
          BY <1>1, <3>4, <3>5
        <5> QED BY <1>3, <3>8, <5>1
      <4>2. d < day
        <5>1. d # day
          BY <2>3, <4>1
        <5> QED BY <1>1, <5>1
      <4> QED BY <3>4, <3>6, <3>8, <4>2
    <3>9. CASE e \in Removals(s) /\ a < e
      <4>1. ASSUME e <= d PROVE FALSE
        <5>1. s \notin was[e] /\ e < d /\ e \in 1..day
          <6>1. e <= day
            BY <1>1, <3>7, <4>1
          <6>2. s \notin was[e]
            BY <3>9, <6>1, RemovalsAre
          <6> QED BY <1>1, <2>3, <3>7, <4>1, <6>1, <6>2 DEF Days
        <5>2. Between(s, "added", e, d)
          BY <2>3, <5>1 DEF IndexInv
        <5>3. PICK x \in Adds(s) : e < x /\ x <= d
          BY <5>2, AddsAre
        <5>4. x \in Additions(s) /\ x \in Int
          BY <5>3, AddsAre DEF Days
        <5>5. x <= a
          BY <3>1, <3>3, <5>3, <5>4
        <5> QED BY <3>4, <3>7, <3>9, <5>3, <5>4, <5>5
      <4> QED BY <1>1, <3>4, <3>6, <3>7, <4>1
    <3> QED BY <3>4, <3>5, <3>6, <3>8, <3>9, EndIs
  <2> QED BY <1>2, <1>5, <2>1, <2>2, <2>3
<1> QED BY <1>4, <1>5

\* A constituent's row is its present stretch.
LEMMA CurrentIsKnown ==
  ASSUME MarketStoreAssumption, IndexInv, NEW s \in Symbols, s \in CurrentSymbols,
         s \notin BackEarly, NEW d \in 1..day
  PROVE  Covers(Current(s), d) <=> d \in Known(s)
<1>1. day \in Days /\ day \in 1..day /\ day \in Int /\ d \in Int /\ d <= day /\ d < Open /\ MaxDay \in Int
  BY DEF IndexInv, Days, MarketStoreAssumption, Open
<1>2. d \in Known(s) <=> \A e \in d..day : s \in was[e]
  BY DEF Known
<1>3. PICK r : r = Current(s)
  OBVIOUS
<1>4. /\ r.end = Open /\ r.start \in Int
      /\ s \in was[day] => /\ \A e \in 1..day : r.start <= e => s \in was[e]
                           /\ r.start > 1 => s \notin was[r.start - 1] /\ r.start <= day
      /\ s \notin was[day] /\ Adds(s) = {} => r.start = day + 1
  BY <1>1, <1>3, CurrentStretch
<1>5. Covers(r, d) <=> r.start <= d
  BY <1>1, <1>4 DEF Covers
<1>6. CASE s \in was[day]
  <2>1. ASSUME r.start <= d, NEW e \in d..day PROVE s \in was[e]
    <3>1. e \in 1..day /\ r.start <= e
      BY <1>1, <1>4, <2>1
    <3> QED BY <1>4, <1>6, <3>1
  <2>2. ASSUME ~(r.start <= d), \A e \in d..day : s \in was[e] PROVE FALSE
    <3>1. r.start > 1
      BY <1>1, <1>4, <2>2
    <3>2. r.start - 1 \in d..day
      BY <1>1, <1>4, <1>6, <2>2, <3>1
    <3> QED BY <1>4, <1>6, <2>2, <3>1, <3>2
  <2> QED BY <1>2, <1>3, <1>5, <2>1, <2>2
<1>7. CASE s \notin was[day]
  <2>1. s \in early \cap Coming("added")
    BY <1>7, ComingAre DEF Constituents
  <2>2. Adds(s) = {}
    BY <2>1 DEF BackEarly
  <2>3. day \in d..day
    BY <1>1
  <2> QED BY <1>1, <1>2, <1>3, <1>4, <1>5, <1>7, <2>2, <2>3
<1> QED BY <1>6, <1>7

\* _reconstruct_timeline finds the days that it can know of and no others,
\* whatever joins, leaves and comes back, over any number of days and changes.
LEMMA Faithful == ASSUME MarketStoreAssumption, IndexInv PROVE TimelineIsFaithful
<1> SUFFICES ASSUME NEW s \in Symbols \ (unlisted \cup BackEarly)
             PROVE  {d \in 1..day : \E r \in Timeline : r.symbol = s /\ Covers(r, d)} = Known(s)
  BY DEF TimelineIsFaithful
<1>1. s \in Symbols /\ s \notin unlisted /\ s \notin BackEarly
  OBVIOUS
<1>2. \A t \in Symbols : \A r : r = Current(t) \/ r \in Historical(t) => r.symbol = t
  BY DEF Current, Historical, Row
<1>3. \A r \in Timeline : r.symbol = s =>
        \/ s \in CurrentSymbols /\ r = Current(s)
        \/ s \notin CurrentSymbols /\ r \in Historical(s)
  BY <1>2, TimelineRows
<1>4. Known(s) \subseteq 1..day
  BY DEF Known
<1>5. CASE s \in CurrentSymbols
  <2>1. ASSUME NEW d \in 1..day
        PROVE  (\E r \in Timeline : r.symbol = s /\ Covers(r, d)) <=> d \in Known(s)
    <3>1. (\E r \in Timeline : r.symbol = s /\ Covers(r, d)) <=> Covers(Current(s), d)
      BY <1>1, <1>2, <1>3, <1>5, TimelineRows
    <3> QED BY <1>1, <1>5, <3>1, CurrentIsKnown
  <2> QED BY <1>4, <2>1
<1>6. CASE s \notin CurrentSymbols
  <2>1. ASSUME NEW d \in 1..day
        PROVE  (\E r \in Timeline : r.symbol = s /\ Covers(r, d)) <=> d \in Known(s)
    <3>1. (\E r \in Timeline : r.symbol = s /\ Covers(r, d)) <=> \E r \in Historical(s) : Covers(r, d)
      BY <1>1, <1>2, <1>3, <1>6, TimelineRows
    <3> QED BY <1>1, <1>6, <3>1, HistoricalIsKnown
  <2> QED BY <1>4, <2>1
<1> QED BY <1>5, <1>6

\* The timeline covers each true day that it has a row at or before.
LEMMA TrueDayCovered ==
  ASSUME MarketStoreAssumption, IndexInv, NEW n \in Timeline, NEW d \in 1..day,
         n.symbol \in was[d], n.start <= d
  PROVE  \E r \in Timeline : r.symbol = n.symbol /\ r.start <= d /\ d <= r.end
<1>1. PICK s \in Symbols : \/ s \in CurrentSymbols /\ n = Current(s)
                           \/ s \notin CurrentSymbols /\ n \in Historical(s)
  BY TimelineRows
<1>2. day \in Days /\ d \in Days /\ d <= day /\ d < Open /\ d \in Int /\ day \in Int /\ MaxDay \in Int
  BY DEF IndexInv, Days, Open, MarketStoreAssumption
<1>3. CASE s \in CurrentSymbols /\ n = Current(s)
  BY <1>2, <1>3 DEF Current, Row, Open
<1>4. CASE s \notin CurrentSymbols /\ n \in Historical(s)
  <2>1. Historical(s) \subseteq Timeline /\ n.symbol = s /\ s \in was[d]
    BY <1>4, TimelineRows DEF Historical, Row
  <2>2. CASE Additions(s) = {}
    <3>1. PICK e \in Removals(s) : n = Row(s, ReliableStart, e)
      BY <1>4, <2>2 DEF Historical
    <3>2. e \in Days /\ e \in Int /\ n.end = e
      BY <3>1, RemovalsAre DEF Row, Days
    <3>3. ASSUME e < d PROVE FALSE
      <4>1. e <= day /\ e \in 1..day
        BY <1>2, <3>2, <3>3 DEF Days
      <4>2. s \notin was[e]
        BY <4>1, RemovalsAre
      <4>3. Between(s, "added", e, d)
        BY <2>1, <3>3, <4>1, <4>2 DEF IndexInv
      <4> QED BY <2>2, <4>3, AddsAre
    <3>4. d <= e
      BY <1>2, <3>2, <3>3
    <3> QED BY <2>1, <3>2, <3>4
  <2>3. CASE Additions(s) # {}
    <3>1. PICK before : before = {a \in Additions(s) : a <= d}
      OBVIOUS
    <3>2. n.start \in before
      <4>1. PICK a \in Additions(s) : n = Row(s, a, EndOf(a, Removals(s)))
        BY <1>4, <2>3 DEF Historical
      <4> QED BY <3>1, <4>1 DEF Row
    <3>3. before \in SUBSET Days /\ before # {}
      BY <3>1, <3>2, AddsAre
    <3>4. PICK a \in before : \A b \in before : b <= a
      BY <3>3, DaysExtrema
    <3>5. PICK r : r = Row(s, a, EndOf(a, Removals(s)))
      OBVIOUS
    <3>6. /\ r \in Timeline /\ r.symbol = s /\ r.start = a /\ r.end = EndOf(a, Removals(s)) /\ a <= d
          /\ a \in Additions(s) /\ a \in Int
      BY <2>1, <2>3, <3>1, <3>3, <3>4, <3>5 DEF Historical, Row, Days
    <3>7. a <= day
      BY <1>2, <3>6
    <3>8. r.end \in Int /\ r.end \in Days
      BY <3>6, EndIs DEF Days
    <3>9. CASE r.end = day
      BY <1>2, <2>1, <3>6, <3>9
    <3>10. CASE r.end \in Removals(s) /\ a < r.end
      <4>1. ASSUME r.end < d PROVE FALSE
        <5>1. r.end <= day /\ r.end \in 1..day
          BY <1>2, <3>8, <4>1 DEF Days
        <5>2. s \notin was[r.end]
          BY <3>10, <5>1, RemovalsAre
        <5>3. Between(s, "added", r.end, d)
          BY <2>1, <4>1, <5>1, <5>2 DEF IndexInv
        <5>4. PICK b \in Adds(s) : r.end < b /\ b <= d
          BY <5>3, AddsAre
        <5>5. b \in Additions(s) /\ b \in Int
          BY <5>4, AddsAre DEF Days
        <5>6. b <= a
          BY <3>1, <3>4, <5>4, <5>5
        <5> QED BY <3>6, <3>8, <3>10, <5>4, <5>5, <5>6
      <4> QED BY <1>2, <2>1, <3>6, <3>8, <4>1
    <3> QED BY <3>6, <3>7, <3>9, <3>10, EndIs
  <2> QED BY <2>2, <2>3
<1> QED BY <1>1, <1>3, <1>4

\* What RefreshUniverse writes and CleanUp drops.
LEMMA TrueDaysStep ==
  ASSUME MarketStoreAssumption, IndexInv, scripts \in Nat, [Next]_vars,
         NEW s \in Symbols, NEW d \in 1..day, s \in was[d], s \in MembersOn(d), s \notin MembersOn(d)'
  PROVE  /\ scripts' # scripts
         /\ s \in Reassigned \/ (s \in Priced /\ Readable(s)' = {})
<1>1. PICK r \in membership : r.symbol = s /\ r.start <= d /\ d <= r.end
  BY DEF MembersOn
<1>2. \A x \in membership' : ~(x.symbol = s /\ x.start <= d /\ d <= x.end)
  BY DEF MembersOn
<1>3. CASE RefreshUniverse
  <2>1. r \notin membership' /\ Timeline \subseteq membership'
    BY <1>1, <1>2, <1>3 DEF RefreshUniverse, Upsert
  <2>2. PICK n \in Timeline : Key(r) = Key(n)
    BY <1>1, <1>3, <2>1 DEF RefreshUniverse, Upsert
  <2>3. n.symbol = s /\ n.start = r.start
    BY <1>1, <2>2 DEF Key
  <2>4. \E x \in Timeline : x.symbol = s /\ x.start <= d /\ d <= x.end
    BY <1>1, <2>3, TrueDayCovered
  <2> QED BY <1>2, <2>1, <2>4
<1>4. CASE CleanUp
  <2>1. PICK bad \in Garbage(StoredRows) :
          /\ bars' = Cleaned(bad)
          /\ membership' = {x \in membership : x.symbol \notin Reassigned
               /\ (x.symbol \in Priced => HasBars(Cleaned(bad), x.symbol))}
    BY <1>4 DEF CleanUp
  <2>2. s \in Reassigned \/ (s \in Priced /\ ~HasBars(Cleaned(bad), s))
    BY <1>1, <1>2, <2>1
  <2>3. ASSUME ~HasBars(Cleaned(bad), s) PROVE Readable(s)' = {}
    <3>1. \A e \in Days : bars'[s][MembershipExchange][e].newest = "none"
      BY <2>1, <2>3 DEF HasBars
    <3> QED BY <3>1 DEF Readable, Listed
  <2>4. scripts' # scripts
    BY <1>4 DEF CleanUp
  <2> QED BY <2>2, <2>3, <2>4
<1>5. CASE ~RefreshUniverse /\ ~CleanUp
  <2>1. membership' = membership
    BY <1>5 DEF Next, vars, Joins, Leaves, LeavesUnlisted, Close, Dawn, YfPull, IbPull, IbBackfill, Freshen,
       BackfillDelisted
  <2> QED BY <1>1, <1>2, <2>1
<1> QED BY <1>3, <1>4, <1>5

-----------------------------------------------------------------------------
\* A closed row of the stored table ends today at the latest, or on tomorrow's
\* day with the removal already announced, so that no later day disproves it.
TrueRow(r) ==
  /\ r.symbol \in Symbols /\ r.end \in Days /\ r.end <= day + 1
  /\ r.end = day + 1 => day + 1 \in Removals(r.symbol)
  /\ \A d \in 1..day : Covers(r, d) => r.symbol \in was[d]

ClosedInv == \A r \in membership : r.end # Open /\ r.symbol \notin unlisted => TrueRow(r)

\* A row of the timeline is true when it is closed.
LEMMA HistoricalIsTrue ==
  ASSUME MarketStoreAssumption, IndexInv, NEW r \in Timeline, r.end # Open, r.symbol \notin unlisted
  PROVE  TrueRow(r)
<1>1. PICK s \in Symbols : \/ s \in CurrentSymbols /\ r = Current(s)
                           \/ s \notin CurrentSymbols /\ r \in Historical(s)
  BY TimelineRows
<1>2. s \notin CurrentSymbols /\ r \in Historical(s) /\ r.symbol = s
  BY <1>1 DEF Current, Historical, Row
<1>3. \A d \in 1..day : Covers(r, d) => s \in was[d]
  BY <1>2, HistoricalIsKnown DEF Known
<1>4. day \in Days /\ day \in Int
  BY DEF IndexInv, Days
<1>5. r.end = day \/ r.end \in Removals(s)
  <2>1. CASE Additions(s) = {}
    BY <1>2, <2>1 DEF Historical, Row
  <2>2. CASE Additions(s) # {}
    <3>1. PICK a \in Additions(s) : r = Row(s, a, EndOf(a, Removals(s)))
      BY <1>2, <2>2 DEF Historical
    <3> QED BY <3>1, EndIs DEF Row
  <2> QED BY <2>1, <2>2
<1>6. CASE r.end = day
  BY <1>2, <1>3, <1>4, <1>6 DEF TrueRow
<1>7. CASE r.end \in Removals(s)
  BY <1>2, <1>3, <1>7, RemovalsAre DEF TrueRow
<1> QED BY <1>5, <1>6, <1>7

\* No step makes a closed row untrue.
LEMMA ClosedKept ==
  ASSUME MarketStoreAssumption, IndexInv, ClosedInv, [Next]_vars PROVE ClosedInv'
<1>1. day \in Days /\ day \in Int /\ \A d \in Days : d \in Int
  BY DEF IndexInv, Days
\* The index of a symbol that stays listed.
<1>2. ASSUME NEW s \in Symbols, s \notin unlisted', NEW r, r.symbol = s, s \notin unlisted => TrueRow(r)
      PROVE  TrueRow(r)'
  <2>1. CASE Dawn
    <3>1. /\ TrueRow(r) /\ day' = day + 1 /\ r.end \in Int
          /\ \A d \in 1..day : was'[d] = was[d]
      <4>1. unlisted' = unlisted /\ day' = day + 1
        BY <2>1 DEF Dawn
      <4>2. TrueRow(r)
        BY <1>2, <4>1
      <4>3. \A d \in 1..day : was'[d] = was[d]
        BY <1>1, <2>1 DEF Dawn, IndexInv, Days
      <4> QED BY <1>1, <4>1, <4>2, <4>3 DEF TrueRow
    <3>2. r.symbol \in Symbols /\ r.end \in Days /\ r.end <= day' + 1 /\ r.end # day' + 1
      BY <1>1, <3>1 DEF TrueRow
    <3>3. ASSUME NEW d \in 1..day', Covers(r, d) PROVE r.symbol \in was'[d]
      <4>1. d < r.end
        BY <3>3 DEF Covers
      <4>2. d \in 1..day
        BY <1>1, <3>1, <3>3, <4>1 DEF TrueRow
      <4> QED BY <3>1, <3>3, <4>2 DEF TrueRow
    <3>4. \A d \in 1..day' : Covers(r, d)' => r.symbol \in was'[d]
      BY <3>3 DEF Covers
    <3> QED BY <3>2, <3>4 DEF TrueRow
  <2>2. ASSUME ~Dawn
        PROVE  /\ day' = day /\ unlisted \subseteq unlisted' /\ changes \subseteq changes'
               /\ \A d \in Days : d # day => was'[d] = was[d]
               /\ s \notin was'[day] => \/ s \notin was[day]
                                        \/ \A c \in changes : c.symbol = s => c.on < day
    <3>1. ASSUME NEW t \in Symbols, Joins(t) \/ Leaves(t)
          PROVE  /\ day' = day /\ unlisted' = unlisted /\ changes \subseteq changes'
                 /\ \A d \in Days : d # day => was'[d] = was[d]
                 /\ s \notin was'[day] => \/ s \notin was[day]
                                          \/ \A c \in changes : c.symbol = s => c.on < day
      <4>1. PICK kind \in {"added", "removed"}, on \in {day, day + 1} :
              /\ CanChange(t, on) /\ Announced(t, kind, on)
              /\ \/ was' = was
                 \/ on = day /\ was' = [was EXCEPT ![day] = @ \cup {t}]
                 \/ on = day /\ was' = [was EXCEPT ![day] = @ \ {t}]
        <5>1. CASE Joins(t)
          BY <5>1 DEF Joins
        <5>2. CASE Leaves(t)
          BY <5>2 DEF Leaves
        <5> QED BY <3>1, <5>1, <5>2
      <4>2. day' = day /\ unlisted' = unlisted /\ changes \subseteq changes'
        BY <3>1, <4>1 DEF Joins, Leaves, Announced
      <4>3. \A d \in Days : d # day => was'[d] = was[d]
        BY <4>1 DEF IndexInv
      <4>4. ASSUME s \notin was'[day], s \in was[day] PROVE \A c \in changes : c.symbol = s => c.on < day
        <5>1. t = s /\ on = day
          BY <1>1, <4>1, <4>4 DEF IndexInv
        <5> QED BY <4>1, <5>1 DEF CanChange
      <4> QED BY <4>2, <4>3, <4>4
    <3>2. ASSUME NEW t \in Symbols, LeavesUnlisted(t)
          PROVE  /\ day' = day /\ unlisted \subseteq unlisted' /\ changes \subseteq changes'
                 /\ \A d \in Days : d # day => was'[d] = was[d]
                 /\ s \notin was'[day] => s \notin was[day]
      <4>1. /\ day' = day /\ unlisted' = unlisted \cup {t} /\ changes' = changes
            /\ was' = [was EXCEPT ![day] = @ \ {t}]
        BY <3>2 DEF LeavesUnlisted
      <4>2. t # s
        BY <1>2, <4>1
      <4> QED BY <1>1, <4>1, <4>2 DEF IndexInv
    <3>3. CASE UNCHANGED <<day, index>>
      BY <3>3 DEF index
    <3>4. UNCHANGED <<day, index>> \/ \E t \in Symbols : Joins(t) \/ Leaves(t) \/ LeavesUnlisted(t)
      BY <2>2 DEF Next, vars, index, RefreshUniverse, CleanUp, Close, YfPull, IbPull, IbBackfill, Freshen,
         BackfillDelisted
    <3> QED BY <3>1, <3>2, <3>3, <3>4
  <2>3. CASE ~Dawn
    <3>1. TrueRow(r)
      BY <1>2, <2>2, <2>3
    <3>2. Removals(s) \subseteq Removals(s)'
      BY <2>2, <2>3 DEF Removals
    <3>3. r.symbol \in Symbols /\ r.end \in Days /\ r.end <= day' + 1
          /\ (r.end = day' + 1 => day' + 1 \in Removals(r.symbol)')
      BY <1>2, <2>2, <2>3, <3>1, <3>2 DEF TrueRow
    <3>4. ASSUME NEW d \in 1..day, Covers(r, d) PROVE r.symbol \in was'[d]
      <4>1. s \in was[d] /\ d \in Days
        BY <1>1, <1>2, <3>1, <3>4 DEF TrueRow, Days
      <4>2. CASE d # day
        BY <1>2, <2>2, <2>3, <4>1, <4>2
      <4>3. CASE d = day
        <5>1. r.end = day + 1
          <6>1. r.end \in Int /\ r.end <= day + 1
            BY <1>1, <3>1 DEF TrueRow
          <6>2. day < r.end
            BY <3>4, <4>3 DEF Covers
          <6> QED BY <1>1, <6>1, <6>2
        <5>2. day + 1 \in Removals(s)
          BY <1>2, <3>1, <5>1 DEF TrueRow
        <5>3. PICK c \in changes : c.symbol = s /\ c.on = day + 1
          BY <5>2 DEF Removals
        <5>4. ~(c.on < day)
          BY <1>1, <5>3
        <5> QED BY <1>2, <2>2, <2>3, <4>1, <4>3, <5>3, <5>4
      <4> QED BY <4>2, <4>3
    <3>5. \A d \in 1..day' : Covers(r, d)' => r.symbol \in was'[d]
      BY <2>2, <2>3, <3>4 DEF Covers
    <3> QED BY <3>3, <3>5 DEF TrueRow
  <2> QED BY <2>1, <2>3
<1>3. ASSUME NEW r \in membership', r.end # Open, r.symbol \notin unlisted' PROVE TrueRow(r)'
  <2>1. unlisted \subseteq unlisted'
    BY DEF Next, vars, index, RefreshUniverse, CleanUp, Close, Dawn, Joins, Leaves, LeavesUnlisted,
       YfPull, IbPull, IbBackfill, Freshen, BackfillDelisted
  <2>2. r \in membership \/ r \in Timeline
    BY DEF Next, vars, index, RefreshUniverse, Upsert, CleanUp, Close, Dawn, Joins, Leaves, LeavesUnlisted,
       YfPull, IbPull, IbBackfill, Freshen, BackfillDelisted
  <2>3. TrueRow(r)
    BY <1>3, <2>1, <2>2, HistoricalIsTrue DEF ClosedInv
  <2>4. r.symbol \in Symbols
    BY <2>3 DEF TrueRow
  <2> QED BY <1>2, <1>3, <2>3, <2>4
<1>4. \A r \in membership' : r.end # Open' /\ r.symbol \notin unlisted' => TrueRow(r)'
  BY <1>3 DEF Open
<1> QED BY <1>4 DEF ClosedInv

-----------------------------------------------------------------------------
\* The bars.
Qualities == {"none", "partial", "final"}
DayRows == [of : [Sources -> Qualities], newest : Sources \cup {"none"}]

HasYf(s, d) == Listed(s, d).of["yfinance"] # "none"
YfSince(s, d) == \E e \in 1..d : HasYf(s, e)
ReadsFinal(s, d) == d \in Readable(s) /\ Read(s, d) = "final"

\* yfinance knows one exchange and no future.  Besides the days that have been
\* pulled, those that the next pull will leave alone, although they are in its
\* window, read final: they are further back than the overlap reaches.  A day
\* whose bar a clean-up took is out until a daily update asks for it again.
SymbolSound(s) ==
  /\ \A x \in Exchanges, d \in Days :
       bars[s][x][d].of["yfinance"] # "none" => x = MembershipExchange /\ d <= day
  /\ \A d \in Days : HasYf(s, d) => d \in Readable(s)
  /\ Readable(s) = {} => pulled[s] \subseteq dropped[s]
  /\ \A d \in pulled[s] : Over(d) /\ (YfSince(s, d) /\ d \notin dropped[s] => ReadsFinal(s, d))
  /\ \A d, m \in Days :
       day - (Overlap + 2) <= d /\ HasYf(s, m) /\ d <= m - (Overlap + 1) /\ YfSince(s, d)
       /\ d \notin dropped[s]
         => ReadsFinal(s, d)

BarsInv ==
  /\ bars \in [Priced -> [Exchanges -> [Days -> DayRows]]]
  /\ pulled \in [Priced -> SUBSET Days] /\ dropped \in [Priced -> SUBSET Days]
  /\ \A s \in Priced : SymbolSound(s)

\* No rows at all.
LEMMA BarsInit == ASSUME MarketStoreAssumption, Init PROVE BarsInv
<1>1. NoRows \in DayRows /\ NoRows.newest = "none" /\ \A y \in Sources : NoRows.of[y] = "none"
  BY DEF NoRows, DayRows, Qualities
<1>2. NoBars \in [Exchanges -> [Days -> DayRows]]
  BY <1>1 DEF NoBars
<1>3. bars \in [Priced -> [Exchanges -> [Days -> DayRows]]] /\ pulled \in [Priced -> SUBSET Days]
      /\ dropped \in [Priced -> SUBSET Days]
  BY <1>2 DEF Init
<1>4. ASSUME NEW s \in Priced PROVE SymbolSound(s)
  <2>1. pulled[s] = {} /\ \A x \in Exchanges, d \in Days : bars[s][x][d] = NoRows
    BY DEF Init, NoBars
  <2>2. \A d \in Days : ~ HasYf(s, d)
    BY <1>1, <2>1 DEF HasYf, Listed, MembershipExchange, Exchanges, Sources
  <2> QED BY <1>1, <2>1, <2>2 DEF SymbolSound, Sources
<1> QED BY <1>3, <1>4 DEF BarsInv

\* The rows of the days in written are replaced.
StoredOn(s, x, source, written) ==
  /\ bars' \in [Priced -> [Exchanges -> [Days -> DayRows]]]
  /\ \A t \in Priced, z \in Exchanges, d \in Days :
       IF t = s /\ z = x /\ d \in written
       THEN /\ bars'[t][z][d].newest = source
            /\ bars'[t][z][d].of[source] = IF Over(d) THEN "final" ELSE "partial"
            /\ \A y \in Sources : y # source => bars'[t][z][d].of[y] = bars[t][z][d].of[y]
       ELSE bars'[t][z][d] = bars[t][z][d]

\* What Store writes.
LEMMA StoreWrites ==
  ASSUME MarketStoreAssumption, IndexInv, BarsInv, NEW s \in Priced, NEW x \in Exchanges,
         NEW source \in Sources, NEW from \in Int, NEW to \in Int, to <= day,
         Store(s, x, source, from, to)
  PROVE  \E written \in SUBSET Days :
           /\ StoredOn(s, x, source, written)
           /\ \A d \in written : from <= d /\ d <= to
           /\ \A d \in Days : from <= d /\ d <= to /\ Over(d) => d \in written
<1>1. PICK kept \in {TRUE, closed \/ to < day} :
    bars' = [bars EXCEPT ![s][x] = [d \in Days |->
               IF d \notin from..to \/ (d = day /\ ~kept)
               THEN bars[s][x][d]
               ELSE Stored(bars[s][x][d], source, IF d < day \/ closed THEN "final" ELSE "partial")]]
  BY DEF Store
<1>2. PICK written \in SUBSET Days : written = {d \in Days : d \in from..to /\ ~(d = day /\ ~kept)}
  OBVIOUS
<1>3. PICK row : row = [d \in Days |-> IF d \in written
                 THEN Stored(bars[s][x][d], source, IF d < day \/ closed THEN "final" ELSE "partial")
                 ELSE bars[s][x][d]]
  OBVIOUS
<1>4. bars' = [bars EXCEPT ![s][x] = row]
  <2>1. row = [d \in Days |-> IF d \notin from..to \/ (d = day /\ ~kept)
               THEN bars[s][x][d]
               ELSE Stored(bars[s][x][d], source, IF d < day \/ closed THEN "final" ELSE "partial")]
    BY <1>2, <1>3
  <2> QED BY <1>1, <2>1
<1>5. bars \in [Priced -> [Exchanges -> [Days -> DayRows]]]
  BY DEF BarsInv
<1>6. ASSUME NEW d \in written
      PROVE  /\ row[d] \in DayRows /\ row[d].newest = source
             /\ row[d].of[source] = IF Over(d) THEN "final" ELSE "partial"
             /\ \A y \in Sources : y # source => row[d].of[y] = bars[s][x][d].of[y]
  <2>1. bars[s][x][d] \in DayRows /\ d \in Days
    BY <1>5
  <2>2. d <= day /\ d \in Int /\ day \in Int
    BY <1>2 DEF IndexInv, Days
  <2>3. PICK q \in Qualities : q = IF Over(d) THEN "final" ELSE "partial"
    BY DEF Qualities
  <2>4. (IF d < day \/ closed THEN "final" ELSE "partial") = q
    BY <2>2, <2>3 DEF Over
  <2>5. row[d] = [of |-> [bars[s][x][d].of EXCEPT ![source] = q], newest |-> source]
    BY <1>3, <2>1, <2>4 DEF Stored
  <2> QED BY <2>1, <2>3, <2>5 DEF DayRows
<1>7. row \in [Days -> DayRows]
  <2>1. \A d \in Days : bars[s][x][d] \in DayRows
    BY <1>5
  <2>2. ASSUME NEW d \in Days PROVE row[d] \in DayRows
    BY <1>3, <1>6, <2>1
  <2>3. row = [d \in Days |-> row[d]]
    BY <1>3
  <2> HIDE <1>3
  <2> QED BY <2>2, <2>3
<1>8. bars' \in [Priced -> [Exchanges -> [Days -> DayRows]]]
  BY <1>4, <1>5, <1>7
<1>9. \A t \in Priced, z \in Exchanges, d \in Days :
        bars'[t][z][d] = IF t = s /\ z = x THEN row[d] ELSE bars[t][z][d]
  BY <1>4, <1>5
<1>10. \A d \in Days : d \notin written => row[d] = bars[s][x][d]
  BY <1>3
<1>11. StoredOn(s, x, source, written)
  <2>1. ASSUME NEW t \in Priced, NEW z \in Exchanges, NEW d \in Days, t = s /\ z = x /\ d \in written
        PROVE  /\ bars'[t][z][d].newest = source
               /\ bars'[t][z][d].of[source] = IF Over(d) THEN "final" ELSE "partial"
               /\ \A y \in Sources : y # source => bars'[t][z][d].of[y] = bars[t][z][d].of[y]
    <3>1. bars'[t][z][d] = row[d]
      BY <1>9, <2>1
    <3> QED BY <1>6, <2>1, <3>1
  <2>2. ASSUME NEW t \in Priced, NEW z \in Exchanges, NEW d \in Days, ~(t = s /\ z = x /\ d \in written)
        PROVE  bars'[t][z][d] = bars[t][z][d]
    BY <1>9, <1>10, <2>2
  <2> QED BY <1>8, <2>1, <2>2 DEF StoredOn
<1>12. \A d \in written : from <= d /\ d <= to
  BY <1>2
<1>13. \A d \in Days : from <= d /\ d <= to /\ Over(d) => d \in written
  <2> SUFFICES ASSUME NEW d \in Days, from <= d, d <= to, Over(d) PROVE d \in written
    OBVIOUS
  <2>1. d \in from..to
    BY DEF Days
  <2>2. CASE d # day
    BY <1>2, <2>1, <2>2
  <2>3. CASE d = day
    <3>1. closed
      BY <2>3 DEF Over, IndexInv, Days
    <3>2. kept
      BY <1>1, <3>1
    <3> QED BY <1>2, <2>1, <3>2
  <2> QED BY <2>2, <2>3
<1> QED BY <1>11, <1>12, <1>13

\* What a store leaves of what readers see.
LEMMA StoreKeepsFinal ==
  ASSUME BarsInv, NEW s \in Priced, NEW x \in Exchanges, NEW source \in Sources,
         NEW written \in SUBSET Days, StoredOn(s, x, source, written), NEW t \in Priced
  PROVE  /\ \A d \in Days : Over(d) /\ ReadsFinal(t, d) => ReadsFinal(t, d)'
         /\ \A d \in Days : Over(d) /\ t = s /\ x = MembershipExchange /\ d \in written => ReadsFinal(t, d)'
         /\ Readable(t) \subseteq Readable(t)'
         /\ t = s /\ x = MembershipExchange => written \subseteq Readable(t)'
         /\ \A d \in Days : HasYf(t, d)' => HasYf(t, d) \/ (t = s /\ source = "yfinance" /\ d \in written)
         /\ \A d \in Days : t # s \/ source # "yfinance" \/ d \notin written => HasYf(t, d)' = HasYf(t, d)
<1>1. MembershipExchange \in Exchanges /\ "none" \notin Sources /\ "yfinance" \in Sources
  BY DEF MembershipExchange, Exchanges, Sources
<1>2. \A d \in Days :
        IF t = s /\ x = MembershipExchange /\ d \in written
        THEN /\ Listed(t, d)'.newest = source
             /\ Listed(t, d)'.of[source] = IF Over(d) THEN "final" ELSE "partial"
             /\ \A y \in Sources : y # source => Listed(t, d)'.of[y] = Listed(t, d).of[y]
        ELSE Listed(t, d)' = Listed(t, d)
  BY <1>1 DEF StoredOn, Listed
<1>3. \A d \in Days : d \in Readable(t)' <=> Listed(t, d)'.newest # "none"
  BY DEF Readable
<1>4. \A d \in Days : d \in Readable(t) <=> Listed(t, d).newest # "none"
  BY DEF Readable
<1>5. Readable(t) \subseteq Readable(t)' /\ (t = s /\ x = MembershipExchange => written \subseteq Readable(t)')
  BY <1>1, <1>2, <1>3, <1>4 DEF Readable
<1>6. \A d \in Days : Over(d) /\ ReadsFinal(t, d) => ReadsFinal(t, d)'
  BY <1>2, <1>5 DEF ReadsFinal, Read
<1>7. \A d \in Days : Over(d) /\ t = s /\ x = MembershipExchange /\ d \in written => ReadsFinal(t, d)'
  BY <1>2, <1>5 DEF ReadsFinal, Read
<1>8. \A d \in Days : HasYf(t, d)' => HasYf(t, d) \/ (t = s /\ source = "yfinance" /\ d \in written)
  BY <1>1, <1>2 DEF HasYf
<1>9. \A d \in Days : t # s \/ source # "yfinance" \/ d \notin written => HasYf(t, d)' = HasYf(t, d)
  <2> SUFFICES ASSUME NEW d \in Days, t # s \/ source # "yfinance" \/ d \notin written
               PROVE Listed(t, d)'.of["yfinance"] = Listed(t, d).of["yfinance"]
    BY DEF HasYf
  <2> QED BY <1>1, <1>2
<1> QED BY <1>5, <1>6, <1>7, <1>8, <1>9

\* The bars of IB leave what Yahoo has as it is.
LEMMA IbKeeps ==
  ASSUME MarketStoreAssumption, IndexInv, BarsInv, NEW s \in Priced, NEW x \in Exchanges,
         NEW from \in Int, NEW to \in Int, to <= day, Store(s, x, "ib", from, to),
         UNCHANGED <<day, closed, pulled, dropped>>
  PROVE  BarsInv'
<1>1. PICK written \in SUBSET Days :
        /\ StoredOn(s, x, "ib", written)
        /\ \A d \in written : from <= d /\ d <= to
        /\ \A d \in Days : from <= d /\ d <= to /\ Over(d) => d \in written
  BY StoreWrites DEF Sources
<1>2. ASSUME NEW t \in Priced PROVE SymbolSound(t)'
  <2>1. SymbolSound(t)
    BY DEF BarsInv
  <2>2. /\ \A d \in Days : Over(d) /\ ReadsFinal(t, d) => ReadsFinal(t, d)'
        /\ Readable(t) \subseteq Readable(t)'
        /\ \A d \in Days : HasYf(t, d)' = HasYf(t, d)
    BY <1>1, StoreKeepsFinal DEF Sources
  <2>3. \A z \in Exchanges, d \in Days : bars'[t][z][d].of["yfinance"] = bars[t][z][d].of["yfinance"]
    BY <1>1 DEF StoredOn, Sources
  <2>4. \A d \in Days : YfSince(t, d)' => YfSince(t, d)
    <3> SUFFICES ASSUME NEW d \in Days, NEW e \in 1..d, HasYf(t, e)' PROVE HasYf(t, e)
      BY DEF YfSince
    <3>1. e \in Days
      BY DEF Days
    <3> QED BY <2>2, <3>1
  <2>5. \A d \in Days, m \in Days : HasYf(t, m) /\ d <= m - (Overlap + 1) => Over(d)
    BY <2>1 DEF SymbolSound, HasYf, Listed, Over, MembershipExchange, Exchanges, Days, IndexInv, MarketStoreAssumption
  <2>6. \A d \in Days, m \in Days :
         day - (Overlap + 2) <= d /\ HasYf(t, m)' /\ d <= m - (Overlap + 1) /\ YfSince(t, d)'
         /\ d \notin dropped[t]
           => ReadsFinal(t, d)'
    BY <2>1, <2>2, <2>4, <2>5 DEF SymbolSound
  <2>7. pulled[t] \subseteq Days
    BY DEF BarsInv
  <2>8. \A d \in pulled[t] : Over(d) /\ (YfSince(t, d)' /\ d \notin dropped[t] => ReadsFinal(t, d)')
    BY <2>1, <2>2, <2>4, <2>7 DEF SymbolSound
  <2>9. \A d \in Days : HasYf(t, d)' => d \in Readable(t)'
    BY <2>1, <2>2 DEF SymbolSound
  <2>10. Readable(t)' = {} => pulled[t] \subseteq dropped[t]
    BY <2>1, <2>2 DEF SymbolSound
  <2>11. \A z \in Exchanges, d \in Days :
           bars'[t][z][d].of["yfinance"] # "none" => z = MembershipExchange /\ d <= day
    BY <2>1, <2>3 DEF SymbolSound
  <2> QED BY <2>6, <2>8, <2>9, <2>10, <2>11 DEF SymbolSound, Over
<1>3. bars' \in [Priced -> [Exchanges -> [Days -> DayRows]]]
  BY <1>1 DEF StoredOn
<1> QED BY <1>2, <1>3 DEF BarsInv

\* A store of Yahoo's up to a day, of a symbol whose days behind it are sound.
LEMMA YfKeeps ==
  ASSUME MarketStoreAssumption, IndexInv, BarsInv, NEW s \in Priced,
         NEW from \in Int, NEW to \in Int, to <= day,
         Store(s, MembershipExchange, "yfinance", from, to), NEW more \in SUBSET Days,
         pulled' = [pulled EXCEPT ![s] = @ \cup more], UNCHANGED <<day, closed>>,
         NEW again \in SUBSET Days, dropped' = [dropped EXCEPT ![s] = @ \ again],
         \A d \in again : from <= d /\ d <= to /\ Over(d),
         \A d \in more : Over(d) /\ day - (Overlap + 2) <= d,
         more # {} => \E d \in Days : from <= d /\ d <= to /\ Over(d),
         \/ /\ to = day
            /\ \A d \in Days : day - (Overlap + 2) <= d /\ d < from /\ YfSince(s, d) /\ d \notin dropped[s]
                 => ReadsFinal(s, d)
         \/ Readable(s) = {} /\ more = {}
  PROVE  BarsInv'
<1>1. PICK written \in SUBSET Days :
        /\ StoredOn(s, MembershipExchange, "yfinance", written)
        /\ \A d \in written : from <= d /\ d <= to
        /\ \A d \in Days : from <= d /\ d <= to /\ Over(d) => d \in written
  BY StoreWrites DEF Sources, MembershipExchange, Exchanges
<1>2. MembershipExchange \in Exchanges /\ "yfinance" \in Sources
  BY DEF Sources, MembershipExchange, Exchanges
<1>3. /\ \A t \in Priced : SymbolSound(t)
      /\ \A t \in Priced : pulled[t] \subseteq Days
      /\ \A t \in Priced : pulled'[t] = IF t = s THEN pulled[t] \cup more ELSE pulled[t]
      /\ pulled' \in [Priced -> SUBSET Days]
      /\ \A t \in Priced : dropped'[t] = IF t = s THEN dropped[t] \ again ELSE dropped[t]
      /\ dropped' \in [Priced -> SUBSET Days]
  BY DEF BarsInv
<1>4. \A t \in Priced, d \in Days, m \in Days : HasYf(t, m)' /\ d <= m - (Overlap + 1) => Over(d)
  <2> SUFFICES ASSUME NEW t \in Priced, NEW d \in Days, NEW m \in Days, HasYf(t, m)', d <= m - (Overlap + 1)
               PROVE  Over(d)
    OBVIOUS
  <2>1. HasYf(t, m) \/ m \in written
    BY <1>1, <1>2, StoreKeepsFinal
  <2>2. m <= day
    <3>1. CASE HasYf(t, m)
      BY <1>2, <1>3, <3>1 DEF SymbolSound, HasYf, Listed
    <3>2. CASE m \in written
      BY <1>1, <3>2 DEF Days, IndexInv
    <3> QED BY <2>1, <3>1, <3>2
  <2> QED BY <2>2 DEF Over, Days, IndexInv, MarketStoreAssumption
<1>5. ASSUME NEW t \in Priced, t # s PROVE SymbolSound(t)'
  <2>1. \A z \in Exchanges, d \in Days : bars'[t][z][d] = bars[t][z][d]
    BY <1>1, <1>5 DEF StoredOn
  <2>2. \A d \in Days : Listed(t, d)' = Listed(t, d)
    BY <1>2, <2>1 DEF Listed
  <2>3. Readable(t)' = Readable(t) /\ \A d \in Days : HasYf(t, d)' = HasYf(t, d) /\ Read(t, d)' = Read(t, d)
    BY <2>2 DEF Readable, HasYf, Read
  <2>4. \A d \in Days : YfSince(t, d)' => YfSince(t, d)
    <3> SUFFICES ASSUME NEW d \in Days, NEW e \in 1..d, HasYf(t, e)' PROVE HasYf(t, e)
      BY DEF YfSince
    <3>1. e \in Days
      BY DEF Days
    <3> QED BY <2>3, <3>1
  <2>5. \A d \in Days : ReadsFinal(t, d) => ReadsFinal(t, d)'
    BY <2>3 DEF ReadsFinal
  <2>6. pulled'[t] = pulled[t] /\ pulled[t] \subseteq Days /\ dropped'[t] = dropped[t]
    BY <1>3, <1>5
  <2>7. \A d \in pulled'[t] : Over(d) /\ (YfSince(t, d)' /\ d \notin dropped'[t] => ReadsFinal(t, d)')
    BY <1>3, <2>4, <2>5, <2>6 DEF SymbolSound
  <2>8. \A d \in Days, m \in Days :
         day - (Overlap + 2) <= d /\ HasYf(t, m)' /\ d <= m - (Overlap + 1) /\ YfSince(t, d)'
         /\ d \notin dropped'[t]
           => ReadsFinal(t, d)'
    BY <1>3, <2>3, <2>4, <2>5, <2>6 DEF SymbolSound
  <2>9. /\ \A d \in Days : HasYf(t, d)' => d \in Readable(t)'
        /\ Readable(t)' = {} => pulled'[t] \subseteq dropped'[t]
        /\ \A z \in Exchanges, d \in Days :
             bars'[t][z][d].of["yfinance"] # "none" => z = MembershipExchange /\ d <= day
    BY <1>3, <2>1, <2>3, <2>6 DEF SymbolSound
  <2> QED BY <2>7, <2>8, <2>9 DEF SymbolSound, Over
<1>6. SymbolSound(s)'
  <2>1. /\ \A d \in Days : Over(d) /\ ReadsFinal(s, d) => ReadsFinal(s, d)'
        /\ \A d \in Days : Over(d) /\ d \in written => ReadsFinal(s, d)'
        /\ Readable(s) \subseteq Readable(s)' /\ written \subseteq Readable(s)'
        /\ \A d \in Days : HasYf(s, d)' => HasYf(s, d) \/ d \in written
    BY <1>1, <1>2, StoreKeepsFinal
  \* A day that is over and needs to read final does.
  <2>2. ASSUME NEW d \in Days, Over(d), YfSince(s, d)', d \notin dropped'[s],
               \/ d \in pulled[s] \cup more
               \/ day - (Overlap + 2) <= d /\ \E m \in Days : HasYf(s, m)' /\ d <= m - (Overlap + 1)
        PROVE  ReadsFinal(s, d)'
    <3>1. PICK e \in 1..d : HasYf(s, e)'
      BY <2>2 DEF YfSince
    <3>2. e \in Days /\ e <= d /\ d \in Int /\ d <= day /\ e \in Int /\ day \in Int
      <4>1. d \in Int /\ day \in Int /\ d <= MaxDay /\ 1 <= d
        BY DEF Days, IndexInv, MarketStoreAssumption
      <4>2. d < day \/ d = day
        BY <2>2 DEF Over
      <4> QED BY <4>1, <4>2, <3>1 DEF Days
    <3>6. d \notin again => d \notin dropped[s]
      BY <1>3, <2>2
    <3>3. CASE from <= d /\ d <= to
      BY <1>1, <2>1, <2>2, <3>3
    <3>4. CASE to < d
      <4>1. Readable(s) = {} /\ more = {}
        BY <3>2, <3>4
      <4>2. pulled[s] \subseteq dropped[s] /\ \A m \in Days : HasYf(s, m)' => m <= to
        BY <1>1, <1>3, <2>1, <4>1 DEF SymbolSound
      <4>4. d \notin dropped[s]
        <5>1. ~(d <= to)
          BY <3>2, <3>4
        <5> QED BY <3>6, <5>1
      <4>3. PICK m \in Days : HasYf(s, m)' /\ d <= m - (Overlap + 1)
        BY <2>2, <4>1, <4>2, <4>4
      <4> QED BY <3>2, <3>4, <4>2, <4>3 DEF Days, MarketStoreAssumption
    <3>5. CASE d < from
      <4>1. e \notin written
        BY <1>1, <3>2, <3>5
      <4>2. HasYf(s, e)
        BY <2>1, <3>1, <3>2, <4>1
      <4>3. YfSince(s, d) /\ Readable(s) # {}
        BY <1>3, <3>1, <3>2, <4>2 DEF YfSince, SymbolSound
      <4>6. d \notin dropped[s]
        <5>1. ~(from <= d)
          BY <3>2, <3>5
        <5> QED BY <3>6, <5>1
      <4>4. CASE d \in pulled[s]
        BY <1>3, <2>1, <2>2, <4>3, <4>4, <4>6 DEF SymbolSound
      <4>5. CASE d \notin pulled[s]
        <5>1. day - (Overlap + 2) <= d
          BY <2>2, <4>5
        <5>2. ReadsFinal(s, d)
          <6>1. Readable(s) # {} /\ YfSince(s, d)
            BY <4>3
          <6> QED BY <3>5, <4>6, <5>1, <6>1
        <5> QED BY <2>1, <2>2, <5>2
      <4> QED BY <4>4, <4>5
    <3> QED BY <3>2, <3>3, <3>4, <3>5
  <2>3. \A d \in pulled'[s] : Over(d) /\ d \in Days /\ d \in pulled[s] \cup more
    BY <1>3 DEF SymbolSound
  <2>4. \A d \in pulled'[s] : Over(d) /\ (YfSince(s, d)' /\ d \notin dropped'[s] => ReadsFinal(s, d)')
    BY <2>2, <2>3
  <2>5. \A d \in Days, m \in Days :
         day - (Overlap + 2) <= d /\ HasYf(s, m)' /\ d <= m - (Overlap + 1) /\ YfSince(s, d)'
         /\ d \notin dropped'[s]
           => ReadsFinal(s, d)'
    BY <1>4, <2>2
  <2>6. \A d \in Days : HasYf(s, d)' => d \in Readable(s)'
    BY <1>3, <2>1 DEF SymbolSound
  <2>7. Readable(s)' = {} => pulled'[s] \subseteq dropped'[s]
    <3> SUFFICES ASSUME Readable(s)' = {}, NEW d \in pulled'[s] PROVE d \in dropped'[s]
      OBVIOUS
    <3>1. Readable(s) = {} /\ written = {}
      BY <2>1
    <3>2. more = {} /\ again = {}
      BY <1>1, <3>1
    <3>3. pulled[s] \subseteq dropped[s]
      BY <1>3, <3>1 DEF SymbolSound
    <3> QED BY <1>3, <3>2, <3>3
  <2>8. \A z \in Exchanges, d \in Days :
          bars'[s][z][d].of["yfinance"] # "none" => z = MembershipExchange /\ d <= day
    <3> SUFFICES ASSUME NEW z \in Exchanges, NEW d \in Days, bars'[s][z][d].of["yfinance"] # "none",
                        ~(z = MembershipExchange /\ d <= day)
                 PROVE  FALSE
      OBVIOUS
    <3>1. ~(z = MembershipExchange /\ d \in written)
      BY <1>1 DEF Days, IndexInv
    <3>2. bars'[s][z][d] = bars[s][z][d]
      BY <1>1, <3>1 DEF StoredOn
    <3> QED BY <1>3, <3>2 DEF SymbolSound
  <2> QED BY <2>4, <2>5, <2>6, <2>7, <2>8 DEF SymbolSound, Over
<1>7. bars' \in [Priced -> [Exchanges -> [Days -> DayRows]]]
  BY <1>1 DEF StoredOn
<1> QED BY <1>3, <1>5, <1>6, <1>7 DEF BarsInv

\* Where the pulls begin.
LEMMA PairIsFinite == ASSUME NEW a, NEW b PROVE IsFiniteSet({a, b})
<1>1. IsFiniteSet({a})
  BY FS_Singleton
<1>2. IsFiniteSet({a} \cup {b})
  BY <1>1, FS_AddElement
<1>3. {a} \cup {b} = {a, b}
  OBVIOUS
<1> QED BY <1>2, <1>3

\* The greater of two integers.
LEMMA MaxOfPair ==
  ASSUME NEW a \in Int, NEW b \in Int
  PROVE  Max({a, b}) \in Int /\ a <= Max({a, b}) /\ b <= Max({a, b}) /\ Max({a, b}) \in {a, b}
<1>1. IsFiniteSet({a, b}) /\ \A e \in {a, b} : e \in Int
  BY PairIsFinite
<1> QED BY <1>1, MaxIs

\* The greatest of three integers.
LEMMA MaxOfTriple ==
  ASSUME NEW a \in Int, NEW b \in Int, NEW c \in Int
  PROVE  Max({a, b, c}) \in {a, b, c}
<1>1. IsFiniteSet({a, b, c}) /\ \A e \in {a, b, c} : e \in Int
  <2>1. IsFiniteSet({a, b} \cup {c})
    BY PairIsFinite, FS_AddElement
  <2>2. {a, b} \cup {c} = {a, b, c}
    OBVIOUS
  <2> QED BY <2>1, <2>2
<1> QED BY <1>1, MaxIs

\* The lesser of two integers.
LEMMA MinOfPair ==
  ASSUME NEW a \in Int, NEW b \in Int
  PROVE  Min({a, b}) \in Int /\ Min({a, b}) <= a /\ Min({a, b}) <= b
<1>1. IsFiniteSet({a, b}) /\ \A e \in {a, b} : e \in Int
  BY PairIsFinite
<1> QED BY <1>1, MinIs

\* The last day of a source, if it has any.
LEMMA LastBar ==
  ASSUME MarketStoreAssumption, NEW s, NEW source, BarDays(s, source) # {}
  PROVE  /\ Max(BarDays(s, source)) \in BarDays(s, source) /\ Max(BarDays(s, source)) \in Days
         /\ \A d \in BarDays(s, source) : d <= Max(BarDays(s, source))
<1>1. BarDays(s, source) \in SUBSET Days
  BY DEF BarDays
<1> QED BY <1>1, DaysExtrema

\* yfinance_adapter.daily_update.
LEMMA YfPullKeeps ==
  ASSUME MarketStoreAssumption, IndexInv, BarsInv, NEW s \in Priced, YfPull(s) PROVE BarsInv'
<1>1. day \in Int /\ day \in Days /\ day \in Nat /\ 1 <= day
      /\ Overlap \in Nat /\ FirstPull \in Nat /\ 1 <= Overlap /\ 1 <= FirstPull
  BY DEF IndexInv, Days, MarketStoreAssumption
<1>2. SymbolSound(s)
  BY DEF BarsInv
<1>3. PICK from : from = YfStart(s)
  OBVIOUS
<1>4. PICK more : more = {d \in Days : day - (Overlap + 2) <= d /\ Over(d)}
  OBVIOUS
<1>5. pulled' = [pulled EXCEPT ![s] = @ \cup more] /\ more \in SUBSET Days
  <2>1. {d \in Days : day - (Overlap + 2) <= d /\ Over(d)} = more
    BY <1>4
  <2> QED BY <1>4, <2>1 DEF YfPull
<1>6. \A d \in more : Over(d) /\ day - (Overlap + 2) <= d
  BY <1>4
<1>7. /\ from \in Int
      /\ from <= 1 \/ from <= day - 1
      /\ from <= day
      /\ \A d \in Days : day - (Overlap + 2) <= d /\ d < from /\ YfSince(s, d) /\ d \notin dropped[s]
            => ReadsFinal(s, d)
  <2>1. CASE BarDays(s, "yfinance") = {}
    <3>1. from = Max({1, day - FirstPull})
      BY <1>3, <2>1 DEF YfStart, Since
    <3>2. from \in Int /\ from \in {1, day - FirstPull}
      <4>1. 1 \in Int /\ day - FirstPull \in Int
        BY <1>1
      <4> QED BY <3>1, <4>1, MaxOfPair
    <3>3. \A d \in Days : ~ YfSince(s, d)
      <4> SUFFICES ASSUME NEW d \in Days, NEW e \in 1..d, HasYf(s, e) PROVE FALSE
        BY DEF YfSince
      <4>1. e \in Days
        BY DEF Days
      <4>2. MembershipExchange \in Exchanges /\ bars[s][MembershipExchange][e].of["yfinance"] # "none"
        BY DEF HasYf, Listed, MembershipExchange, Exchanges
      <4>3. e \in BarDays(s, "yfinance")
        BY <4>1, <4>2 DEF BarDays
      <4> QED BY <2>1, <4>3
    <3>4. from = 1 \/ from = day - FirstPull
      BY <3>2
    <3>5. from <= day /\ (from <= 1 \/ from <= day - 1)
      BY <1>1, <3>4
    <3> QED BY <3>2, <3>3, <3>5
  <2>2. CASE BarDays(s, "yfinance") # {}
    <3>1. PICK m : m = Max(BarDays(s, "yfinance"))
      OBVIOUS
    <3>2. m \in BarDays(s, "yfinance") /\ m \in Days
      BY <2>2, <3>1, LastBar
    <3>3. HasYf(s, m) /\ m <= day /\ m \in Int
      BY <1>2, <3>2 DEF BarDays, SymbolSound, HasYf, Listed, Days
    <3>4. from = Max({1, m - Overlap, day - (Overlap + 2)})
      BY <1>3, <2>2, <3>1 DEF YfStart
    <3>5. from \in {1, m - Overlap, day - (Overlap + 2)}
      BY <1>1, <3>3, <3>4, MaxOfTriple
    <3>6. ASSUME NEW d \in Days, day - (Overlap + 2) <= d, d < from, YfSince(s, d), d \notin dropped[s]
          PROVE  ReadsFinal(s, d)
      <4>1. d <= m - (Overlap + 1)
        BY <1>1, <3>3, <3>5, <3>6 DEF Days
      <4> QED BY <1>2, <3>2, <3>3, <3>6, <4>1 DEF SymbolSound
    <3> QED BY <1>1, <3>3, <3>5, <3>6
  <2> QED BY <2>1, <2>2
<1>9. PICK again : again = {d \in dropped[s] : ~(d < from \/ ~Over(d))}
  OBVIOUS
<1>10. /\ dropped' = [dropped EXCEPT ![s] = @ \ again] /\ again \in SUBSET Days
       /\ \A d \in again : from <= d /\ d <= day /\ Over(d)
  <2>1. dropped \in [Priced -> SUBSET Days]
    BY DEF BarsInv
  <2>2. dropped' = [dropped EXCEPT ![s] = {d \in @ : d < from \/ ~Over(d)}]
    BY <1>3 DEF YfPull
  <2>3. {d \in dropped[s] : d < from \/ ~Over(d)} = dropped[s] \ again
    BY <1>9
  <2>4. \A d \in again : d \in Days /\ d \in Int /\ ~(d < from) /\ Over(d)
    BY <1>9, <2>1 DEF Days
  <2>5. \A d \in again : from <= d /\ d <= day
    BY <1>1, <1>7, <2>4 DEF Over
  <2> QED BY <2>2, <2>3, <2>4, <2>5
<1>8. more # {} => \E d \in Days : from <= d /\ d <= day /\ Over(d)
  <2> SUFFICES ASSUME NEW n \in more PROVE \E d \in Days : from <= d /\ d <= day /\ Over(d)
    OBVIOUS
  <2>1. n \in Days /\ (n < day \/ (n = day /\ closed))
    BY <1>4 DEF Over
  <2>2. CASE closed
    BY <1>1, <1>7, <2>2 DEF Over
  <2>3. CASE 1 < day
    <3>1. day - 1 \in Days /\ from <= day - 1 /\ day - 1 <= day /\ day - 1 < day
      BY <1>1, <1>7, <2>3 DEF Days, MarketStoreAssumption
    <3> QED BY <3>1 DEF Over
  <2> QED BY <1>1, <2>1, <2>2, <2>3 DEF Days
<1>11. Store(s, MembershipExchange, "yfinance", from, day) /\ UNCHANGED <<day, closed>>
  BY <1>3 DEF YfPull
<1>12. day <= day
  BY <1>1
<1> QED BY <1>1, <1>5, <1>6, <1>7, <1>8, <1>10, <1>11, <1>12, YfKeeps

\* The three ways in which bars of IB come.
LEMMA IbStartIs ==
  ASSUME MarketStoreAssumption, IndexInv, NEW s PROVE IbStart(s) \in Int
<1>1. day \in Int /\ FirstPull \in Int
  BY DEF IndexInv, Days, MarketStoreAssumption
<1>2. CASE BarDays(s, "ib") = {}
  <2>1. 1 \in Int /\ day - FirstPull \in Int
    BY <1>1
  <2> QED BY <1>2, <2>1, MaxOfPair DEF IbStart, Since
<1>3. CASE BarDays(s, "ib") # {}
  BY <1>3, LastBar DEF IbStart, Days
<1> QED BY <1>2, <1>3

\* Whatever the other adapter writes, on the exchange of a script or its own.
LEMMA IbWritesKeep ==
  ASSUME MarketStoreAssumption, IndexInv, BarsInv, NEW s \in Priced,
         IbPull(s) \/ IbBackfill(s) \/ Freshen(s)
  PROVE  BarsInv'
<1>1. day \in Int /\ 1 \in Int /\ MembershipExchange \in Exchanges /\ DefaultExchange \in Exchanges
  BY DEF IndexInv, Days, MembershipExchange, DefaultExchange, Exchanges
<1>2. CASE IbPull(s)
  BY <1>1, <1>2, IbStartIs, IbKeeps DEF IbPull, index
<1>3. CASE IbBackfill(s)
  <2>1. PICK from \in 1..day, to \in 1..day : Store(s, MembershipExchange, "ib", from, to)
    BY <1>3 DEF IbBackfill
  <2>2. from \in Int /\ to \in Int /\ to <= day
    BY <1>1
  <2> QED BY <1>1, <1>3, <2>1, <2>2, IbKeeps DEF IbBackfill, index
<1>4. CASE Freshen(s)
  BY <1>1, <1>4, IbKeeps DEF Freshen, index
<1> QED BY <1>2, <1>3, <1>4

\* backfill_delisted_sp500.
LEMMA BackfillDelistedKeeps ==
  ASSUME MarketStoreAssumption, IndexInv, BarsInv, NEW s \in Priced, BackfillDelisted(s) PROVE BarsInv'
<1>1. day \in Int /\ Padding \in Int /\ MaxDay \in Int /\ day \in Days
  BY DEF IndexInv, Days, MarketStoreAssumption
<1>2. \A r \in Timeline : r.start \in 0..MaxDay /\ r.end \in Int
  BY <1>1, TimelineTypes
<1>3. FirstStretch(s) \in Timeline
  <2>1. PICK starts : starts = {r.start : r \in {x \in Timeline : x.symbol = s}}
    OBVIOUS
  <2>2. starts # {} /\ starts \in SUBSET (0..MaxDay)
    BY <1>2, <2>1 DEF BackfillDelisted
  <2>3. PICK first \in starts : \A e \in starts : first <= e
    BY <2>2, FiniteDays, MinIs
  <2>4. \E r \in Timeline : r.symbol = s /\ \A o \in Timeline : o.symbol = s => r.start <= o.start
    BY <2>1, <2>3
  <2> QED BY <2>4 DEF FirstStretch
<1>4. PICK from, to : from = Max({1, FirstStretch(s).start}) /\ to = Min({day, FirstStretch(s).end + Padding})
  OBVIOUS
<1>5. from \in Int /\ to \in Int /\ to <= day
  <2>1. FirstStretch(s).start \in Int /\ FirstStretch(s).end + Padding \in Int
    BY <1>1, <1>2, <1>3
  <2>2. from \in Int
    <3>1. PICK f \in Int : f = FirstStretch(s).start
      BY <2>1
    <3>2. from = Max({1, f})
      BY <1>4, <3>1
    <3>3. 1 \in Int /\ f \in Int
      OBVIOUS
    <3>4. Max({1, f}) \in Int
      BY <3>3, MaxOfPair
    <3> QED BY <3>2, <3>4
  <2>3. to \in Int /\ to <= day
    BY <1>1, <1>4, <2>1, MinOfPair
  <2> QED BY <2>2, <2>3
<1>6. Store(s, MembershipExchange, "yfinance", from, to) /\ Readable(s) = {}
      /\ UNCHANGED <<day, closed, pulled, dropped>>
  BY <1>4 DEF BackfillDelisted, index
<1>7. pulled' = [pulled EXCEPT ![s] = @ \cup {}] /\ dropped' = [dropped EXCEPT ![s] = @ \ {}]
  BY <1>6 DEF BarsInv
<1> QED BY <1>5, <1>6, <1>7, YfKeeps

\* Rows go one by one; a day whose bar was read goes on the list.
LEMMA CleanUpKeeps ==
  ASSUME MarketStoreAssumption, IndexInv, BarsInv, CleanUp PROVE BarsInv'
<1>1. PICK bad \in Garbage(StoredRows) :
        /\ bars' = Cleaned(bad)
        /\ dropped' = [s \in Priced |-> dropped[s] \cup {d \in 1..day :
             Listed(s, d).newest \in {"none"} \cup
               {source \in Sources : <<s, MembershipExchange, d, source>> \in bad}}]
  BY DEF CleanUp
<1>2. pulled' = pulled /\ day' = day /\ closed' = closed
  BY DEF CleanUp
<1>3. /\ day \in Int /\ 1..day \subseteq Days /\ MembershipExchange \in Exchanges /\ "yfinance" \in Sources
      /\ "none" \notin Sources /\ Overlap \in Int /\ 1 <= Overlap /\ \A d \in Days : d \in Int /\ 1 <= d
  BY DEF IndexInv, Days, MarketStoreAssumption, MembershipExchange, Exchanges, Sources
<1>4. bars \in [Priced -> [Exchanges -> [Days -> DayRows]]]
  BY DEF BarsInv
<1>5. ASSUME NEW rows \in DayRows, NEW gone \in SUBSET Sources
      PROVE  /\ Without(rows, gone) \in DayRows
             /\ \A y \in Sources : Without(rows, gone).of[y] = IF y \in gone THEN "none" ELSE rows.of[y]
             /\ rows.newest \notin gone => Without(rows, gone).newest = rows.newest
             /\ \A y \in Sources \ gone : rows.of[y] # "none" /\ rows.newest \in gone
                  => Without(rows, gone).newest # "none"
  <2>1. PICK of : of = [source \in Sources |-> IF source \in gone THEN "none" ELSE rows.of[source]]
    OBVIOUS
  <2>2. of \in [Sources -> Qualities] /\ rows.newest \in Sources \cup {"none"}
    BY <2>1 DEF DayRows, Qualities
  <2>3. PICK left : left = CHOOSE source \in Sources \cup {"none"} :
                      IF \E y \in Sources \ gone : rows.of[y] # "none"
                      THEN source \in Sources \ gone /\ rows.of[source] # "none"
                      ELSE source = "none"
    OBVIOUS
  <2>4. /\ left \in Sources \cup {"none"}
        /\ \A y \in Sources \ gone : rows.of[y] # "none" => left \in Sources
    <3>1. \E source \in Sources \cup {"none"} :
            IF \E y \in Sources \ gone : rows.of[y] # "none"
            THEN source \in Sources \ gone /\ rows.of[source] # "none"
            ELSE source = "none"
      OBVIOUS
    <3> QED BY <2>3, <3>1
  <2>5. Without(rows, gone) = [of |-> of, newest |-> IF rows.newest \notin gone THEN rows.newest ELSE left]
    BY <2>1, <2>3 DEF Without
  <2>6. PICK newest : newest = IF rows.newest \notin gone THEN rows.newest ELSE left
    OBVIOUS
  <2>7. newest \in Sources \cup {"none"} /\ Without(rows, gone) = [of |-> of, newest |-> newest]
    BY <2>2, <2>4, <2>5, <2>6
  <2>8. Without(rows, gone) \in DayRows /\ Without(rows, gone).of = of /\ Without(rows, gone).newest = newest
    BY <2>2, <2>7 DEF DayRows
  <2> QED BY <1>3, <2>1, <2>4, <2>6, <2>8
<1>6. ASSUME NEW s \in Priced, NEW x \in Exchanges, NEW d \in Days
      PROVE  /\ bars[s][x][d] \in DayRows
             /\ bars'[s][x][d] = Without(bars[s][x][d], {y \in Sources : <<s, x, d, y>> \in bad})
             /\ {y \in Sources : <<s, x, d, y>> \in bad} \in SUBSET Sources
             /\ bars'[s][x][d] \in DayRows
  <2>1. /\ bars[s][x][d] \in DayRows
        /\ bars'[s][x][d] = Without(bars[s][x][d], {y \in Sources : <<s, x, d, y>> \in bad})
    BY <1>1, <1>4 DEF Cleaned
  <2>2. {y \in Sources : <<s, x, d, y>> \in bad} \in SUBSET Sources
    OBVIOUS
  <2>3. Without(bars[s][x][d], {y \in Sources : <<s, x, d, y>> \in bad}) \in DayRows
    BY <1>5, <2>1, <2>2
  <2> QED BY <2>1, <2>2, <2>3
<1>7. bars' \in [Priced -> [Exchanges -> [Days -> DayRows]]]
  <2>1. \A s \in Priced, x \in Exchanges, d \in Days : bars'[s][x][d] \in DayRows
    BY <1>6
  <2>2. /\ bars' = [s \in Priced |-> bars'[s]]
        /\ \A s \in Priced : bars'[s] = [x \in Exchanges |-> bars'[s][x]]
        /\ \A s \in Priced, x \in Exchanges : bars'[s][x] = [d \in Days |-> bars'[s][x][d]]
    BY <1>1 DEF Cleaned
  <2>3. ASSUME NEW s \in Priced, NEW x \in Exchanges PROVE bars'[s][x] \in [Days -> DayRows]
    BY <2>1, <2>2
  <2>4. ASSUME NEW s \in Priced PROVE bars'[s] \in [Exchanges -> [Days -> DayRows]]
    BY <2>2, <2>3
  <2> QED BY <2>2, <2>4
<1>8. dropped' \in [Priced -> SUBSET Days]
  BY <1>1, <1>3 DEF BarsInv
<1>9. ASSUME NEW s \in Priced PROVE SymbolSound(s)'
  <2>1. SymbolSound(s) /\ pulled[s] \subseteq Days
    BY DEF BarsInv
  <2>2. ASSUME NEW d \in Days
        PROVE  /\ HasYf(s, d)' => HasYf(s, d) /\ d \in Readable(s)'
               /\ d \in 1..day /\ d \notin dropped'[s]
                    => /\ d \notin dropped[s] /\ d \in Readable(s)'
                       /\ ReadsFinal(s, d) => ReadsFinal(s, d)'
    <3>1. PICK gone \in SUBSET Sources : gone = {y \in Sources : <<s, MembershipExchange, d, y>> \in bad}
      OBVIOUS
    <3>2. PICK rows \in DayRows : rows = Listed(s, d)
      BY <1>3, <1>6 DEF Listed
    <3>3. Listed(s, d)' = Without(rows, gone)
      BY <1>3, <1>6, <3>1, <3>2 DEF Listed
    <3>4. d \in Readable(s)' <=> Without(rows, gone).newest # "none"
      BY <3>3 DEF Readable
    <3>5. d \in Readable(s) <=> rows.newest # "none"
      BY <3>2 DEF Readable
    <3>6. ASSUME HasYf(s, d)' PROVE HasYf(s, d) /\ d \in Readable(s)'
      <4>1. "yfinance" \notin gone /\ rows.of["yfinance"] # "none"
        BY <1>3, <1>5, <3>3, <3>6 DEF HasYf
      <4>2. HasYf(s, d) /\ rows.newest # "none"
        BY <2>1, <3>2, <3>5, <4>1 DEF HasYf, SymbolSound
      <4>3. CASE rows.newest \in gone
        BY <1>3, <1>5, <3>4, <4>1, <4>2, <4>3
      <4>4. CASE rows.newest \notin gone
        BY <1>5, <3>4, <4>2, <4>4
      <4> QED BY <4>2, <4>3, <4>4
    <3>7. ASSUME d \in 1..day, d \notin dropped'[s]
          PROVE  /\ d \notin dropped[s] /\ d \in Readable(s)'
                 /\ ReadsFinal(s, d) => ReadsFinal(s, d)'
      <4>1. d \notin dropped[s] /\ rows.newest \notin gone /\ rows.newest # "none"
        <5>1. dropped'[s] = dropped[s] \cup {e \in 1..day :
                Listed(s, e).newest \in {"none"} \cup
                  {source \in Sources : <<s, MembershipExchange, e, source>> \in bad}}
          BY <1>1
        <5> QED BY <3>1, <3>2, <3>7, <5>1
      <4>2. rows.newest \in Sources
        BY <3>2, <4>1 DEF DayRows
      <4>3. Without(rows, gone).newest = rows.newest
            /\ Without(rows, gone).of[rows.newest] = rows.of[rows.newest]
        BY <1>5, <4>1, <4>2
      <4>4. d \in Readable(s)' /\ Read(s, d)' = Read(s, d)
        BY <3>2, <3>3, <3>4, <4>1, <4>3 DEF Read
      <4> QED BY <4>1, <4>4 DEF ReadsFinal
    <3> QED BY <3>6, <3>7
  <2>3. \A d \in Days : YfSince(s, d)' => YfSince(s, d)
    <3> SUFFICES ASSUME NEW d \in Days, NEW e \in 1..d, HasYf(s, e)' PROVE HasYf(s, e)
      BY DEF YfSince
    <3>1. e \in Days
      BY DEF Days
    <3> QED BY <2>2, <3>1
  <2>4. \A d \in Days : Over(d) => d \in 1..day
    BY <1>3 DEF Over
  <2>5. \A d \in pulled[s] : Over(d) /\ (YfSince(s, d)' /\ d \notin dropped'[s] => ReadsFinal(s, d)')
    <3> SUFFICES ASSUME NEW d \in pulled[s], YfSince(s, d)', d \notin dropped'[s]
                 PROVE  ReadsFinal(s, d)'
      BY <2>1 DEF SymbolSound
    <3>1. d \in Days /\ d \in 1..day
      BY <2>1, <2>4 DEF SymbolSound
    <3>2. YfSince(s, d) /\ d \notin dropped[s]
      BY <2>2, <2>3, <3>1
    <3>3. ReadsFinal(s, d)
      BY <2>1, <3>2 DEF SymbolSound
    <3> QED BY <2>2, <3>1, <3>3
  <2>6. Readable(s)' = {} => pulled[s] \subseteq dropped'[s]
    <3> SUFFICES ASSUME Readable(s)' = {}, NEW d \in pulled[s], d \notin dropped'[s] PROVE FALSE
      OBVIOUS
    <3>1. d \in Days /\ d \in 1..day
      BY <2>1, <2>4 DEF SymbolSound
    <3> QED BY <2>2, <3>1
  <2>7. ASSUME NEW d \in Days, NEW m \in Days, day - (Overlap + 2) <= d, HasYf(s, m)',
               d <= m - (Overlap + 1), YfSince(s, d)', d \notin dropped'[s]
        PROVE  ReadsFinal(s, d)'
    <3>1. HasYf(s, m) /\ YfSince(s, d)
      BY <2>2, <2>3, <2>7
    <3>2. m <= day
      BY <1>3, <2>1, <3>1 DEF SymbolSound, HasYf, Listed
    <3>3. d \in 1..day
      BY <1>3, <2>7, <3>2
    <3>4. d \notin dropped[s]
      BY <2>2, <2>7, <3>3
    <3>5. ReadsFinal(s, d)
      BY <2>1, <2>7, <3>1, <3>4 DEF SymbolSound
    <3> QED BY <2>2, <2>7, <3>3, <3>5
  <2>8. \A d \in Days : HasYf(s, d)' => d \in Readable(s)'
    BY <2>2
  <2>9. \A x \in Exchanges, d \in Days :
          bars'[s][x][d].of["yfinance"] # "none" => x = MembershipExchange /\ d <= day
    <3> SUFFICES ASSUME NEW x \in Exchanges, NEW d \in Days, bars'[s][x][d].of["yfinance"] # "none"
                 PROVE  bars[s][x][d].of["yfinance"] # "none"
      BY <2>1 DEF SymbolSound
    <3>1. PICK rows \in DayRows, gone \in SUBSET Sources :
            rows = bars[s][x][d] /\ bars'[s][x][d] = Without(rows, gone)
      <4>1. PICK gone \in SUBSET Sources : gone = {y \in Sources : <<s, x, d, y>> \in bad}
        OBVIOUS
      <4>2. bars[s][x][d] \in DayRows /\ bars'[s][x][d] = Without(bars[s][x][d], gone)
        BY <1>6, <4>1
      <4> QED BY <4>2
    <3> QED BY <1>3, <1>5, <3>1
  <2> QED BY <1>2, <2>5, <2>6, <2>7, <2>8, <2>9 DEF SymbolSound, Over
<1> QED BY <1>2, <1>7, <1>8, <1>9 DEF BarsInv

\* The clock moves, or the index.
LEMMA ClockKeeps ==
  ASSUME MarketStoreAssumption, IndexInv, BarsInv, UNCHANGED <<bars, pulled, dropped>>,
         day' \in Days,
         \/ day' = day /\ (closed => closed')
         \/ day' = day + 1
  PROVE  BarsInv'
<1>1. day \in Int /\ day' \in Int /\ day <= day' /\ \A d \in Days : d \in Int
  BY DEF IndexInv, Days
<1>2. \A d \in Days : Over(d) => Over(d)'
  BY <1>1 DEF Over, Days
<1>3. ASSUME NEW s \in Priced PROVE SymbolSound(s)'
  <2>1. SymbolSound(s) /\ pulled[s] \subseteq Days
    BY DEF BarsInv
  <2>2. Readable(s)' = Readable(s) /\ pulled'[s] = pulled[s] /\ dropped'[s] = dropped[s]
        /\ \A d : (YfSince(s, d)' <=> YfSince(s, d)) /\ (HasYf(s, d)' <=> HasYf(s, d))
                  /\ (ReadsFinal(s, d)' <=> ReadsFinal(s, d))
    BY DEF YfSince, HasYf, ReadsFinal, Readable, Read, Listed
  <2>3. \A d \in pulled'[s] : Over(d)' /\ (YfSince(s, d)' /\ d \notin dropped'[s] => ReadsFinal(s, d)')
    BY <1>2, <2>1, <2>2 DEF SymbolSound
  <2>4. \A d, m \in Days :
          day' - (Overlap + 2) <= d /\ HasYf(s, m)' /\ d <= m - (Overlap + 1) /\ YfSince(s, d)'
          /\ d \notin dropped'[s]
            => ReadsFinal(s, d)'
    <3>1. \A d \in Days : day' - (Overlap + 2) <= d => day - (Overlap + 2) <= d
      <4>1. PICK t \in Int, u \in Int : t = day /\ u = day'
        BY <1>1
      <4>2. PICK w \in Int : w = Overlap + 2
        BY DEF MarketStoreAssumption
      <4>3. t <= u
        BY <1>1, <4>1
      <4>4. ASSUME NEW d \in Int, u - w <= d PROVE t - w <= d
        BY <4>3, <4>4
      <4> QED BY <1>1, <4>1, <4>2, <4>4
    <3> QED BY <2>1, <2>2, <3>1 DEF SymbolSound
  <2>5. /\ \A d \in Days : HasYf(s, d)' => d \in Readable(s)'
        /\ Readable(s)' = {} => pulled'[s] \subseteq dropped'[s]
    BY <2>1, <2>2 DEF SymbolSound
  <2>6. \A x \in Exchanges, d \in Days :
          bars'[s][x][d].of["yfinance"] # "none" => x = MembershipExchange /\ d <= day'
    <3>1. \A x \in Exchanges, d \in Days :
            bars[s][x][d].of["yfinance"] # "none" => x = MembershipExchange /\ d <= day
      BY <2>1 DEF SymbolSound
    <3> QED BY <1>1, <3>1
  <2> QED BY <2>3, <2>4, <2>5, <2>6 DEF SymbolSound
<1> QED BY <1>3 DEF BarsInv

\* Every step keeps the invariant of the bars.
LEMMA BarsKept == ASSUME MarketStoreAssumption, IndexInv, BarsInv, [Next]_vars PROVE BarsInv'
<1>1. ASSUME NEW s \in Priced, YfPull(s) \/ IbPull(s) \/ IbBackfill(s) \/ Freshen(s) \/ BackfillDelisted(s)
      PROVE  BarsInv'
  BY <1>1, YfPullKeeps, IbWritesKeep, BackfillDelistedKeeps
<1>2. CASE CleanUp
  BY <1>2, CleanUpKeeps
<1>3. CASE Dawn
  <2>1. day' \in Days
    BY <1>3, IndexKept DEF IndexInv
  <2> QED BY <1>3, <2>1, ClockKeeps DEF Dawn, prices
<1>4. ASSUME RefreshUniverse \/ Close \/ (\E s \in Symbols : Joins(s) \/ Leaves(s) \/ LeavesUnlisted(s))
              \/ UNCHANGED vars
      PROVE  BarsInv'
  <2>1. UNCHANGED <<bars, pulled, dropped>> /\ day' = day /\ (closed => closed')
    BY <1>4 DEF RefreshUniverse, Close, Joins, Leaves, LeavesUnlisted, vars, index, prices
  <2>2. day' \in Days
    BY <2>1 DEF IndexInv
  <2> QED BY <2>1, <2>2, ClockKeeps
<1> QED BY <1>1, <1>2, <1>3, <1>4 DEF Next

-----------------------------------------------------------------------------
\* Scripts are counted.
LEMMA ScriptsCounted == ASSUME scripts \in Nat, [Next]_vars PROVE scripts' \in Nat
<1>1. scripts' = scripts \/ scripts' = scripts + 1
  BY DEF Next, vars, RefreshUniverse, CleanUp, Close, Dawn, Joins, Leaves, LeavesUnlisted, YfPull, IbPull,
     IbBackfill, Freshen, BackfillDelisted
<1> QED BY <1>1

\* The invariants of the market store are inductive.
LEMMA MarketInductive ==
  ASSUME MarketStoreAssumption PROVE Spec => [](IndexInv /\ BarsInv /\ ClosedInv /\ scripts \in Nat)
<1>1. Init => IndexInv /\ BarsInv /\ ClosedInv /\ scripts \in Nat
  <2> SUFFICES ASSUME Init PROVE IndexInv /\ BarsInv /\ ClosedInv /\ scripts \in Nat
    OBVIOUS
  <2>1. membership = {} /\ scripts = 0
    BY DEF Init
  <2> QED BY <2>1, IndexInit, BarsInit, MarketStoreAssumption DEF ClosedInv
<1>2. IndexInv /\ BarsInv /\ ClosedInv /\ scripts \in Nat /\ [Next]_vars
        => (IndexInv /\ BarsInv /\ ClosedInv /\ scripts \in Nat)'
  BY IndexKept, BarsKept, ClosedKept, ScriptsCounted, MarketStoreAssumption
<1> QED BY <1>1, <1>2, PTL DEF Spec

\* Whatever joins, leaves and comes back, over any number of days and with any
\* announcements, the rebuilt timeline (_reconstruct_timeline) has the days it
\* can know of and no others.
THEOREM TimelineIsFaithfulHolds == Spec => []TimelineIsFaithful
<1>1. IndexInv => TimelineIsFaithful
  BY Faithful, MarketStoreAssumption
<1> QED BY <1>1, MarketInductive, MarketStoreAssumption, PTL

\* A closed row that some rebuild has left in the table (upsert_membership)
\* covers days of membership only, at any later time.
THEOREM ClosedRowsAreTrueHolds == Spec => []ClosedRowsAreTrue
<1>1. ClosedInv => ClosedRowsAreTrue
  BY DEF ClosedInv, ClosedRowsAreTrue, TrueRow
<1> QED BY <1>1, MarketInductive, MarketStoreAssumption, PTL

\* A true day on record stays there through any rebuild (upsert_membership),
\* unless the clean-up lists the ticker or finds it without bars.
THEOREM TrueDaysAreKeptHolds == Spec => TrueDaysAreKept
<1> DEFINE Kept == \A s \in Symbols, d \in 1..day :
       /\ s \in was[d] /\ s \in MembersOn(d) /\ s \notin MembersOn(d)'
       => /\ scripts' # scripts
          /\ s \in Reassigned \/ (s \in Priced /\ Readable(s)' = {})
<1>1. IndexInv /\ scripts \in Nat /\ [Next]_vars => [Kept]_vars
  <2> SUFFICES ASSUME IndexInv, scripts \in Nat, [Next]_vars PROVE Kept
    OBVIOUS
  <2> QED BY TrueDaysStep, MarketStoreAssumption
<1> HIDE DEF Kept
<1>2. Spec => [][Kept]_vars
  BY <1>1, MarketInductive, MarketStoreAssumption, PTL DEF Spec
<1> USE DEF Kept
<1> QED BY <1>2 DEF TrueDaysAreKept

\* However the two adapters, the backfills and the clean-up interleave, and for
\* any overlap, a day that a daily update has asked for in time reads final,
\* unless a clean-up took its bar and no daily update has asked for it since.
THEOREM PulledDaysReadFinalHolds == Spec => []PulledDaysReadFinal
<1>1. BarsInv => PulledDaysReadFinal
  <2> SUFFICES ASSUME BarsInv, NEW s \in Priced, NEW d \in pulled[s] \ dropped[s],
                      \E e \in 1..d : Listed(s, e).of["yfinance"] # "none"
               PROVE  d \in Readable(s) /\ Read(s, d) = "final"
    BY DEF PulledDaysReadFinal
  <2> QED BY DEF BarsInv, SymbolSound, YfSince, HasYf, ReadsFinal
<1> QED BY <1>1, MarketInductive, MarketStoreAssumption, PTL

-----------------------------------------------------------------------------
(***************************************************************************)
(* Part 2: the news pipeline.                                              *)
(*                                                                         *)
(* Two callers classify the same or other days, while scores are logged    *)
(* anew.  Each holds what it needs: picks of one side, and every row it    *)
(* has loaded is judged or still among its picks.                          *)
(***************************************************************************)
NewsPhases == {"idle", "rank", "pick", "fetch", "request", "done"}
PickRows == [symbol : Stocks, score : Int]

\* A classifier; what it has to fetch does not matter.
IsClassifier(j) ==
  /\ j = [phase |-> j.phase, asOf |-> j.asOf, side |-> j.side, picks |-> j.picks,
          todo |-> j.todo, loaded |-> j.loaded, fresh |-> j.fresh]
  /\ j.phase \in NewsPhases /\ j.picks \in Seq(PickRows)
  /\ j.loaded \in SUBSET PickRows /\ j.fresh \in SUBSET Stocks

\* It is on one side of one day, its picks are on that side, and what it has
\* loaded it has judged, or has still to judge.
IsSound(j) ==
  /\ j.phase # "idle" => j.asOf \in Dates /\ j.side \in 1..2
  /\ j.phase \in {"rank", "done"} => j.picks = << >>
  /\ j.phase \in {"fetch", "request"} => j.picks # << >>
  /\ \A i \in 1..Len(j.picks) : SideOf(j.picks[i].score) = Sides[j.side]
  /\ j.phase # "idle" => \A p \in j.loaded :
        p.symbol \in j.fresh \/ \E i \in 1..Len(j.picks) : j.picks[i] = p

VerdictRows == [score : Int, rubric : {"none", "long", "short"}]
IsTable(table) == DOMAIN table \subseteq Stocks /\ \A s \in DOMAIN table : table[s] \in Int

NewsInv ==
  /\ today \in Dates
  /\ scores = [d \in Dates |-> scores[d]] /\ \A d \in Dates : IsTable(scores[d])
  /\ verdicts \in [Dates -> [Stocks -> VerdictRows]]
  /\ \A d \in Dates, s \in Stocks :
       verdicts[d][s] # NoVerdict => verdicts[d][s].rubric = SideOf(verdicts[d][s].score)
  /\ job = [c \in Callers |-> job[c]]
  /\ \A c \in Callers : IsClassifier(job[c]) /\ IsSound(job[c])

\* Every pick is a prediction of the side.
LEMMA PicksOfSide ==
  ASSUME NewsAssumption, NewsInv, NEW date \in Dates, NEW side, NEW picks \in Picks(date, side)
  PROVE  /\ picks \in Seq(PickRows)
         /\ \A i \in 1..Len(picks) : SideOf(picks[i].score) = side
<1> DEFINE table == scores[date]
           ofSide == {s \in DOMAIN table : table[s] # 0 /\ SideOf(table[s]) = side}
<1>0. PICK n \in 0..TopN : \E r \in [1..n -> ofSide] :
        picks = [i \in DOMAIN r |-> [symbol |-> r[i], score |-> table[r[i]]]]
  BY DEF Picks
<1>1. PICK r \in [1..n -> ofSide] :
        picks = [i \in DOMAIN r |-> [symbol |-> r[i], score |-> table[r[i]]]]
  BY <1>0
<1>2. \A s \in ofSide : s \in Stocks /\ table[s] \in Int /\ SideOf(table[s]) = side
  BY DEF NewsInv, IsTable
<1>3. picks = [i \in 1..n |-> [symbol |-> r[i], score |-> table[r[i]]]] /\ n \in Nat
  BY <1>1, NewsAssumption
<1> HIDE DEF table, ofSide
<1>4. \A i \in 1..n : /\ [symbol |-> r[i], score |-> table[r[i]]] \in PickRows
                      /\ SideOf(table[r[i]]) = side
  BY <1>2 DEF PickRows
<1>5. \A i \in 1..n : picks[i] \in PickRows /\ SideOf(picks[i].score) = side
  BY <1>3, <1>4
<1>6. picks \in [1..n -> PickRows] /\ picks \in Seq(PickRows) /\ Len(picks) = n
  BY <1>3, <1>4
<1> QED BY <1>5, <1>6

\* Nobody classifies, nothing is judged.
LEMMA NewsInitInv == ASSUME NewsAssumption, NewsInit PROVE NewsInv
<1>1. IsClassifier(Idle) /\ IsSound(Idle)
  BY DEF IsClassifier, IsSound, Idle, NewsPhases
<1>2. IsTable(NoScores)
  BY DEF IsTable, NoScores
<1>3. NoVerdict \in VerdictRows
  BY DEF NoVerdict, VerdictRows
<1>4. 1 \in Dates
  BY NewsAssumption DEF Dates
<1>5. \A c \in Callers : job[c] = Idle
  BY DEF NewsInit
<1>6. \A d \in Dates : scores[d] = NoScores
  BY DEF NewsInit
<1>7. \A d \in Dates, s \in Stocks : verdicts[d][s] = NoVerdict
  BY DEF NewsInit
<1> QED BY <1>1, <1>2, <1>3, <1>4, <1>5, <1>6, <1>7 DEF NewsInit, NewsInv

\* What a step of one classification owes the invariant.
LEMMA OneJob ==
  ASSUME NewsInv, NEW c, NEW k, job' = [job EXCEPT ![c] = k], IsClassifier(k), IsSound(k),
         today' = today, scores' = scores, verdicts' = verdicts
  PROVE  NewsInv'
<1>1. job' = [e \in Callers |-> job'[e]]
  BY DEF NewsInv
<1>2. \A e \in Callers : IsClassifier(job'[e]) /\ IsSound(job'[e])
  <2> TAKE e \in Callers
  <2>1. job'[e] = k \/ job'[e] = job[e]
    BY DEF NewsInv
  <2> QED BY <2>1 DEF NewsInv
<1> QED BY <1>1, <1>2 DEF NewsInv

\* What a step does not change of a classifier stays.
LEMMA Fetching ==
  ASSUME NEW j, NEW k, NEW f \in {"fetch", "request"}, NEW d, IsClassifier(j), IsSound(j),
         j.phase # "idle", j.picks # << >>,
         k = [j EXCEPT !.phase = f] \/ k = [j EXCEPT !.phase = f, !.todo = d]
  PROVE  IsClassifier(k) /\ IsSound(k)
<1>1. /\ IsClassifier(k) /\ k.phase = f /\ k.asOf = j.asOf /\ k.side = j.side
      /\ k.picks = j.picks /\ k.loaded = j.loaded /\ k.fresh = j.fresh
  BY DEF IsClassifier, NewsPhases
<1> QED BY <1>1 DEF IsSound

\* Nothing of the classifiers moves.
LEMMA NewsUnmoved ==
  ASSUME NewsInv, UNCHANGED <<scores, verdicts, job>>, today' \in Dates PROVE NewsInv'
BY DEF NewsInv

\* Scores logged anew are no business of a classification under way: it has its
\* picks.
LEMMA PredictKeeps == ASSUME NewsAssumption, NewsInv, Predict PROVE NewsInv'
<1>1. PICK table \in ScoreTables : scores' = [scores EXCEPT ![today] = table]
  BY DEF Predict
<1>2. IsTable(table)
  BY NewsAssumption DEF IsTable
<1>3. /\ scores' = [d \in Dates |-> scores'[d]]
      /\ \A d \in Dates : scores'[d] = table \/ scores'[d] = scores[d]
  BY <1>1 DEF NewsInv
<1>4. \A d \in Dates : IsTable(scores'[d])
  BY <1>2, <1>3 DEF NewsInv
<1> QED
  BY <1>3, <1>4 DEF Predict, NewsInv

\* The picks are of the side that is being classified, and nobody has judged
\* them yet.
LEMMA RankKeeps == ASSUME NewsAssumption, NewsInv, NEW c \in Callers, Rank(c) PROVE NewsInv'
<1>1. PICK j : j = job[c]
  OBVIOUS
<1>2. /\ IsClassifier(j) /\ IsSound(j) /\ j.phase = "rank" /\ j.asOf \in Dates /\ j.side \in 1..2
      /\ j.picks = << >> /\ \A p \in j.loaded : p.symbol \in j.fresh
  <2>1. IsClassifier(j) /\ IsSound(j) /\ j.phase = "rank"
    BY <1>1 DEF Rank, NewsInv
  <2>2. j.picks = << >> /\ \A i \in 1..Len(j.picks) : FALSE
    BY <2>1 DEF IsSound
  <2> QED BY <2>1, <2>2 DEF IsSound
<1>3. PICK picks \in Picks(j.asOf, Sides[j.side]) :
        job' = [job EXCEPT ![c].phase = "pick", ![c].picks = picks, ![c].loaded = @ \cup ToSet(picks)]
  BY <1>1 DEF Rank
<1>4. /\ picks \in Seq(PickRows)
      /\ \A i \in 1..Len(picks) : SideOf(picks[i].score) = Sides[j.side]
  BY <1>2, PicksOfSide
<1>5. PICK k : k = [j EXCEPT !.phase = "pick", !.picks = picks, !.loaded = @ \cup ToSet(picks)]
  OBVIOUS
<1>6. job' = [job EXCEPT ![c] = k]
  BY <1>1, <1>3, <1>5 DEF NewsInv
<1>7. \A p \in ToSet(picks) : p \in PickRows /\ \E i \in 1..Len(picks) : picks[i] = p
  BY <1>4 DEF ToSet
<1>8. /\ k.phase = "pick" /\ k.picks = picks /\ k.loaded = j.loaded \cup ToSet(picks)
      /\ k.fresh = j.fresh /\ k.side = j.side /\ k.asOf = j.asOf
      /\ k = [phase |-> k.phase, asOf |-> k.asOf, side |-> k.side, picks |-> k.picks,
              todo |-> k.todo, loaded |-> k.loaded, fresh |-> k.fresh]
  BY <1>2, <1>5 DEF IsClassifier
<1>9. IsClassifier(k)
  BY <1>2, <1>4, <1>7, <1>8 DEF IsClassifier, NewsPhases
<1>10. IsSound(k)
  BY <1>2, <1>4, <1>7, <1>8 DEF IsSound
<1> QED
  BY <1>6, <1>9, <1>10, OneJob DEF Rank

\* A caller starts with what is judged of the day, and no picks.
LEMMA StartKeeps ==
  ASSUME NewsAssumption, NewsInv, NEW c \in Callers, NEW date \in 1..today, Start(c, date)
  PROVE  NewsInv'
<1>1. PICK k : k = [Idle EXCEPT !.phase = "rank", !.asOf = date, !.side = 1]
  OBVIOUS
<1>2. /\ k = [phase |-> "rank", asOf |-> date, side |-> 1, picks |-> << >>, todo |-> << >>,
              loaded |-> {}, fresh |-> {}]
      /\ date \in Dates
  <2>1. date \in Dates
    BY NewsAssumption DEF NewsInv, Dates
  <2> QED BY <1>1, <2>1 DEF Idle
<1>3. IsClassifier(k) /\ IsSound(k)
  BY <1>2 DEF IsClassifier, IsSound, NewsPhases
<1> QED
  BY <1>1, <1>3, OneJob DEF Start

\* A classification that fails ends idle.
LEMMA AbortKeeps == ASSUME NewsInv, NEW c \in Callers, Abort(c) PROVE NewsInv'
<1>1. IsClassifier(Idle) /\ IsSound(Idle)
  BY DEF IsClassifier, IsSound, Idle, NewsPhases
<1> QED
  BY <1>1, OneJob DEF Abort

\* A side without picks left has been judged.
LEMMA NextSideKeeps == ASSUME NewsInv, NEW c \in Callers, NextSide(c) PROVE NewsInv'
<1>1. PICK j : j = job[c]
  OBVIOUS
<1>2. /\ IsClassifier(j) /\ j.phase = "pick" /\ j.asOf \in Dates /\ j.side \in 1..2
      /\ j.picks = << >> /\ \A p \in j.loaded : p.symbol \in j.fresh
  BY <1>1 DEF NextSide, NewsInv, IsSound
<1>3. PICK k : k = IF j.side < Len(Sides)
                   THEN [j EXCEPT !.phase = "rank", !.side = @ + 1]
                   ELSE [j EXCEPT !.phase = "done"]
  OBVIOUS
<1>4. job' = [job EXCEPT ![c] = k]
  BY <1>1, <1>3 DEF NextSide
<1>5. CASE j.side < 2
  <2>1. k = [j EXCEPT !.phase = "rank", !.side = j.side + 1] /\ j.side + 1 \in 1..2
    BY <1>2, <1>3, <1>5 DEF Sides
  <2>2. /\ IsClassifier(k) /\ k.phase = "rank" /\ k.asOf = j.asOf /\ k.side \in 1..2
        /\ k.picks = j.picks /\ k.loaded = j.loaded /\ k.fresh = j.fresh
    BY <1>2, <2>1 DEF IsClassifier, NewsPhases
  <2>3. IsSound(k)
    BY <1>2, <2>2 DEF IsSound
  <2> QED BY <1>4, <2>2, <2>3, OneJob DEF NextSide
<1>6. CASE ~(j.side < 2)
  <2>1. k = [j EXCEPT !.phase = "done"]
    BY <1>3, <1>6 DEF Sides
  <2>2. /\ IsClassifier(k) /\ k.phase = "done" /\ k.asOf = j.asOf /\ k.side = j.side
        /\ k.picks = j.picks /\ k.loaded = j.loaded /\ k.fresh = j.fresh
    BY <1>2, <2>1 DEF IsClassifier, NewsPhases
  <2>3. IsSound(k)
    BY <1>2, <2>2 DEF IsSound
  <2> QED BY <1>4, <2>2, <2>3, OneJob DEF NextSide
<1> QED BY <1>5, <1>6

\* With picks left, the filings of the next one are fetched.
LEMMA NextPickKeeps == ASSUME NewsInv, NEW c \in Callers, NextPick(c) PROVE NewsInv'
<1>1. PICK d : job' = [job EXCEPT ![c] = [job[c] EXCEPT !.phase = "fetch", !.todo = d]]
  BY DEF NextPick
<1>2. /\ IsClassifier(job[c]) /\ IsSound(job[c]) /\ job[c].phase # "idle" /\ job[c].picks # << >>
  BY DEF NextPick, NewsInv
<1>3. PICK k : k = [job[c] EXCEPT !.phase = "fetch", !.todo = d]
  OBVIOUS
<1>4. IsClassifier(k) /\ IsSound(k)
  BY <1>2, <1>3, Fetching
<1> QED
  BY <1>1, <1>3, <1>4, OneJob DEF NextPick

\* What follows a document.
LEMMA AdvancedFetches ==
  ASSUME NEW j, NEW after \in Advanced(j)
  PROVE  \E d : after = [j EXCEPT !.phase = "fetch", !.todo = d]
<1> DEFINE onward == [j EXCEPT !.phase = "fetch"]
<1>1. PICK d : after = [onward EXCEPT !.todo = d]
  BY DEF Advanced
<1>2. after = [j EXCEPT !.phase = "fetch", !.todo = d]
  BY <1>1
<1> QED BY <1>2

\* A filing had or given up moves the classification on, whatever it brings.
LEMMA AdvanceKeeps ==
  ASSUME NewsInv, NEW c \in Callers, job[c].phase \in {"fetch", "request"},
         NEW after \in Advanced(job[c]), job' = [job EXCEPT ![c] = after],
         today' = today, scores' = scores, verdicts' = verdicts
  PROVE  NewsInv'
<1>1. IsClassifier(job[c]) /\ IsSound(job[c]) /\ job[c].phase # "idle" /\ job[c].picks # << >>
  BY DEF NewsInv, IsSound
<1>2. PICK d : after = [job[c] EXCEPT !.phase = "fetch", !.todo = d]
  BY AdvancedFetches
<1>3. IsClassifier(after) /\ IsSound(after)
  BY <1>1, <1>2, Fetching
<1> QED
  BY <1>3, OneJob

\* A body already in the cache.
LEMMA FromCacheKeeps == ASSUME NewsInv, NEW c \in Callers, FromCache(c) PROVE NewsInv'
<1>1. CASE job' = [job EXCEPT ![c].phase = "request"]
  <2>1. IsClassifier(job[c]) /\ IsSound(job[c]) /\ job[c].phase # "idle" /\ job[c].picks # << >>
    BY DEF NewsInv, IsSound, FromCache
  <2>2. PICK k : k = [job[c] EXCEPT !.phase = "request"]
    OBVIOUS
  <2>3. job' = [job EXCEPT ![c] = k]
    BY <1>1, <2>2 DEF NewsInv
  <2>4. IsClassifier(k) /\ IsSound(k)
    BY <2>1, <2>2, Fetching
  <2> QED
    BY <2>3, <2>4, OneJob DEF FromCache
<1>2. CASE \E after \in Advanced(job[c]) : job' = [job EXCEPT ![c] = after]
  BY <1>2, AdvanceKeeps DEF FromCache
<1> QED BY <1>1, <1>2 DEF FromCache

\* A body that is received, or not.
LEMMA ReceiveKeeps == ASSUME NewsInv, NEW c \in Callers, Receive(c) PROVE NewsInv'
BY AdvanceKeeps DEF Receive

\* A verdict counts for whoever classifies its day.
LEMMA Refreshed ==
  ASSUME NEW j, NEW s \in Stocks, NEW k, IsClassifier(j), IsSound(j),
         k = [j EXCEPT !.fresh = @ \cup {s}]
  PROVE  IsClassifier(k) /\ IsSound(k)
<1>1. /\ IsClassifier(k) /\ k.phase = j.phase /\ k.asOf = j.asOf /\ k.side = j.side
      /\ k.picks = j.picks /\ k.loaded = j.loaded /\ k.fresh = j.fresh \cup {s}
  BY DEF IsClassifier
<1> QED BY <1>1 DEF IsSound

\* The pick that has been judged leaves.
LEMMA Judged ==
  ASSUME NEW j, NEW k, IsClassifier(j), IsSound(j), j.phase = "fetch",
         k = [j EXCEPT !.phase = "pick", !.picks = Tail(@), !.fresh = @ \cup {Head(j.picks).symbol}]
  PROVE  /\ IsClassifier(k) /\ IsSound(k)
         /\ Head(j.picks) \in PickRows /\ SideOf(Head(j.picks).score) = Sides[j.side]
<1>1. j.picks \in Seq(PickRows) /\ j.picks # << >>
  BY DEF IsClassifier, IsSound
<1>2. PICK p : p = Head(j.picks)
  OBVIOUS
<1>3. p = j.picks[1] /\ 1 \in 1..Len(j.picks) /\ p \in PickRows /\ Tail(j.picks) \in Seq(PickRows)
  BY <1>1, <1>2
<1>4. p.symbol \in Stocks
  BY <1>3 DEF PickRows
<1>5. /\ k.phase = "pick" /\ k.asOf = j.asOf /\ k.side = j.side
      /\ k.picks = Tail(j.picks) /\ k.loaded = j.loaded /\ k.fresh = j.fresh \cup {p.symbol}
      /\ k = [phase |-> k.phase, asOf |-> k.asOf, side |-> k.side, picks |-> k.picks,
              todo |-> k.todo, loaded |-> k.loaded, fresh |-> k.fresh]
  BY <1>2 DEF IsClassifier
<1>6. IsClassifier(k)
  BY <1>3, <1>4, <1>5 DEF IsClassifier, NewsPhases
<1>7. \A i \in 1..Len(k.picks) : i + 1 \in 1..Len(j.picks) /\ k.picks[i] = j.picks[i + 1]
  BY <1>1, <1>5
<1>8. ASSUME NEW q \in j.loaded, q.symbol \notin k.fresh
      PROVE  \E i \in 1..Len(k.picks) : k.picks[i] = q
  <2>1. q.symbol \notin j.fresh /\ q # p
    BY <1>5, <1>8
  <2>2. PICK i \in 1..Len(j.picks) : j.picks[i] = q
    BY <2>1 DEF IsSound
  <2>3. i - 1 \in 1..Len(k.picks) /\ k.picks[i - 1] = q
    BY <1>1, <1>3, <1>5, <2>1, <2>2
  <2> QED BY <2>3
<1>9. IsSound(k)
  BY <1>5, <1>7, <1>8 DEF IsSound
<1> QED BY <1>2, <1>3, <1>6, <1>9 DEF IsSound

\* A verdict is written and every classifier of the day sees it.
LEMMA JudgeKeeps == ASSUME NewsInv, NEW c \in Callers, Judge(c) PROVE NewsInv'
<1>1. PICK j, p : j = job[c] /\ p = Head(j.picks)
  OBVIOUS
<1>2. IsClassifier(j) /\ IsSound(j) /\ j.phase = "fetch" /\ j.asOf \in Dates /\ j.side \in 1..2
  <2>1. IsClassifier(j) /\ IsSound(j) /\ j.phase = "fetch"
    BY <1>1 DEF Judge, NewsInv
  <2> QED BY <2>1 DEF IsSound
<1>3. PICK left, k :
        /\ left = [j EXCEPT !.phase = "pick", !.picks = Tail(@)]
        /\ k = [left EXCEPT !.fresh = @ \cup {p.symbol}]
  OBVIOUS
<1>4. /\ left.phase = "pick" /\ left.asOf = j.asOf
      /\ k = [j EXCEPT !.phase = "pick", !.picks = Tail(@), !.fresh = @ \cup {Head(j.picks).symbol}]
  BY <1>1, <1>2, <1>3 DEF IsClassifier
<1>5. IsClassifier(k) /\ IsSound(k) /\ p \in PickRows /\ SideOf(p.score) = Sides[j.side]
  BY <1>1, <1>2, <1>4, Judged
<1>6. p.symbol \in Stocks /\ p.score \in Int
  BY <1>5 DEF PickRows
<1>7. PICK row : row = [score |-> p.score, rubric |-> Sides[j.side]]
  OBVIOUS
<1>8. row \in VerdictRows /\ row.rubric = SideOf(row.score)
  BY <1>2, <1>5, <1>6, <1>7 DEF VerdictRows, Sides
<1>9. verdicts' = [verdicts EXCEPT ![j.asOf][p.symbol] = row]
  BY <1>1, <1>7 DEF Judge, Written, Verdict
<1>10. /\ verdicts' \in [Dates -> [Stocks -> VerdictRows]]
       /\ \A d \in Dates, s \in Stocks : verdicts'[d][s] = row \/ verdicts'[d][s] = verdicts[d][s]
  BY <1>2, <1>6, <1>8, <1>9 DEF NewsInv
<1>11. \A d \in Dates, s \in Stocks :
         verdicts'[d][s] # NoVerdict => verdicts'[d][s].rubric = SideOf(verdicts'[d][s].score)
  BY <1>8, <1>10 DEF NewsInv
<1>12. job' = [e \in Callers |->
              LET h == IF e = c THEN left ELSE job[e]
              IN  IF h.phase # "idle" /\ h.asOf = j.asOf
                  THEN [h EXCEPT !.fresh = @ \cup {p.symbol}] ELSE h]
  BY <1>1, <1>3 DEF Judge
<1>13. \A e \in Callers : IsClassifier(job'[e]) /\ IsSound(job'[e])
  <2> TAKE e \in Callers
  <2>1. CASE e = c
    BY <1>3, <1>4, <1>5, <1>12, <2>1
  <2>2. CASE e # c
    <3>1. job'[e] = job[e] \/ job'[e] = [job[e] EXCEPT !.fresh = @ \cup {p.symbol}]
      BY <1>12, <2>2
    <3> QED BY <1>6, <3>1, Refreshed DEF NewsInv
  <2> QED BY <2>1, <2>2
<1>14. job' = [e \in Callers |-> job'[e]]
  BY <1>12
<1> QED BY <1>10, <1>11, <1>13, <1>14 DEF Judge, NewsInv

\* Whatever is predicted anew, fetched in vain or classified at the same time,
\* a classification (classify_top_picks) that ends has judged its picks, each
\* by the rubric of the side its score is on.
THEOREM PicksAreJudgedHolds == NewsSpec => []PicksAreJudged
<1>1. NewsInv /\ [NewsNext]_newsVars => NewsInv'
  <2> SUFFICES ASSUME NewsInv, [NewsNext]_newsVars PROVE NewsInv'
    OBVIOUS
  <2>1. CASE Predict
    BY <2>1, PredictKeeps, NewsAssumption
  <2>2. CASE Tomorrow
    <3>1. today' \in Dates
      BY <2>2, NewsAssumption DEF Tomorrow, NewsInv, Dates
    <3> QED BY <2>2, <3>1, NewsUnmoved DEF Tomorrow
  <2>3. CASE \E s \in Stocks : RefreshFilings(s)
    BY <2>3, NewsUnmoved DEF RefreshFilings, NewsInv
  <2>4. CASE UNCHANGED newsVars
    BY <2>4, NewsUnmoved DEF newsVars, NewsInv
  <2>5. ASSUME NEW c \in Callers, NEW date \in 1..today, Start(c, date) PROVE NewsInv'
    BY <2>5, StartKeeps, NewsAssumption
  <2>6. ASSUME NEW c \in Callers,
               Rank(c) \/ NextPick(c) \/ FromCache(c) \/ Receive(c) \/ Judge(c)
                 \/ NextSide(c) \/ Abort(c)
        PROVE NewsInv'
    BY <2>6, RankKeeps, NextPickKeeps, FromCacheKeeps, ReceiveKeeps, JudgeKeeps,
       NextSideKeeps, AbortKeeps, NewsAssumption
  <2> QED BY <2>1, <2>2, <2>3, <2>4, <2>5, <2>6 DEF NewsNext
<1>2. NewsInit => NewsInv
  BY NewsInitInv, NewsAssumption
<1>3. NewsInv => PicksAreJudged
  BY DEF NewsInv, IsSound, PicksAreJudged
<1> QED BY <1>1, <1>2, <1>3, PTL DEF NewsSpec

-----------------------------------------------------------------------------
(***************************************************************************)
(* Part 3: the walk-forward page.                                          *)
(*                                                                         *)
(* A row is certain when it is on file and the file times tell of it.  A   *)
(* replay on disk that is as young as the file has every certain row, and  *)
(* so has an answer kept under the time of the file.  While a request      *)
(* replays, the replay on disk is the older file: nobody else begins to    *)
(* read it, and the one being built has what those who do read are owed.   *)
(***************************************************************************)
PagePhases == {"idle", "ask", "wait", "replay", "building", "swap", "read", "draw",
           "answered", "empty", "failed"}
FileStates == [rows : SUBSET Nat, time : Nat]
PageStates == [phase : PagePhases, asked : SUBSET Nat, told : SUBSET Nat, key : Nat,
          built : SUBSET Nat, builtAt : Nat, shown : SUBSET Nat]

StatusTypeOK ==
  /\ now \in Nat /\ file \in FileStates /\ copies \in SUBSET FileStates /\ replay \in FileStates
  /\ lock \in Requests \cup {Nobody}
  /\ answers \in SUBSET [key : Nat, rows : SUBSET Nat]
  /\ page \in [Requests -> PageStates]
  /\ unseen \in SUBSET Nat

\* The rows whose presence the file times tell of.
Certain == file.rows \ unseen

\* What a request has to be shown, for itself or for those that find its answer.
Owed(r) == page[r].told \cup {row \in Certain : page[r].key = file.time}

\* Nothing is of the future, and a file that has rows has a time.
FilesAreDated ==
  /\ file.time =< now /\ (file.time = 0 => file.rows = {})
  /\ \A c \in copies : 0 < c.time /\ c.time =< now
  /\ replay.time =< now
  /\ \A a \in answers : a.key =< now

PagesAreDated ==
  \A r \in Requests :
    /\ page[r].key =< now /\ page[r].builtAt =< now
    /\ page[r].phase \in Waiting => page[r].told \subseteq Certain

\* What a replay holds, finished or not.
ReplaysAreWhole ==
  /\ file.time =< replay.time => Certain \subseteq replay.rows
  /\ \A r \in Requests :
       /\ At(r, "building") => Certain \subseteq page[r].built
       /\ At(r, "swap") => (file.time =< page[r].builtAt => Certain \subseteq page[r].built)
       /\ page[r].phase \in {"replay", "building", "swap"} => replay.time < file.time \/ Certain = {}

AnswersAreWhole == \A a \in answers : a.key = file.time => Certain \subseteq a.rows

\* What readers are owed is in the replay on disk and in the one to come.
ReadersAreServed ==
  \A r \in Requests :
    /\ page[r].phase \in {"read", "draw"} => Owed(r) \subseteq replay.rows
    /\ At(r, "draw") => Owed(r) \subseteq page[r].shown
    /\ \A q \in Requests :
         page[r].phase \in {"read", "draw", "building", "swap"} /\ page[q].phase \in {"building", "swap"}
         => Owed(r) \subseteq page[q].built

StatusInv == StatusTypeOK /\ LockIsHeld /\ FilesAreDated /\ PagesAreDated /\ ReplaysAreWhole
          /\ AnswersAreWhole /\ ReadersAreServed /\ NoStaleAnswer

-----------------------------------------------------------------------------
(***************************************************************************)
(* One lemma for each step.                                                *)
(***************************************************************************)
\* The file is younger than any replay on disk and any answer; of the one
\* being built, what it lacks is not certain.
LEMMA LogDayKeeps == ASSUME StatusInv, LogDay PROVE StatusInv'
<1> USE WalkStatusAssumption DEF StatusInv, StatusTypeOK, FileStates, PageStates, PagePhases, At, disk, LogDay
<1>1. StatusTypeOK'
  OBVIOUS
<1>2. LockIsHeld'
  BY DEF LockIsHeld
<1>3. FilesAreDated'
  BY DEF FilesAreDated
<1>4. PagesAreDated'
  BY DEF FilesAreDated, PagesAreDated, ReplaysAreWhole, AnswersAreWhole, ReadersAreServed, NoStaleAnswer, LockIsHeld, Owed, Certain, Waiting
<1>5. ReplaysAreWhole'
  BY DEF FilesAreDated, PagesAreDated, ReplaysAreWhole, AnswersAreWhole, ReadersAreServed, NoStaleAnswer, LockIsHeld, Owed, Certain, Waiting
<1>6. AnswersAreWhole'
  BY DEF FilesAreDated, PagesAreDated, ReplaysAreWhole, AnswersAreWhole, ReadersAreServed, NoStaleAnswer, LockIsHeld, Owed, Certain, Waiting
<1>7. ReadersAreServed'
  BY DEF FilesAreDated, PagesAreDated, ReplaysAreWhole, AnswersAreWhole, ReadersAreServed, NoStaleAnswer, LockIsHeld, Owed, Certain, Waiting
<1>8. NoStaleAnswer'
  BY DEF FilesAreDated, PagesAreDated, ReplaysAreWhole, AnswersAreWhole, ReadersAreServed, NoStaleAnswer, LockIsHeld, Owed, Certain, Waiting
<1> QED BY <1>1, <1>2, <1>3, <1>4, <1>5, <1>6, <1>7, <1>8 DEF StatusInv

\* A copy is as whole as the file it is taken of.
LEMMA TakeCopyKeeps == ASSUME StatusInv, TakeCopy PROVE StatusInv'
<1> USE WalkStatusAssumption DEF StatusInv, StatusTypeOK, FileStates, PageStates, PagePhases, At, disk, TakeCopy
<1>1. StatusTypeOK'
  OBVIOUS
<1>2. LockIsHeld'
  BY DEF LockIsHeld
<1>3. FilesAreDated'
  BY DEF FilesAreDated
<1>4. PagesAreDated'
  BY DEF FilesAreDated, PagesAreDated, ReplaysAreWhole, AnswersAreWhole, ReadersAreServed, NoStaleAnswer, LockIsHeld, Owed, Certain, Waiting
<1>5. ReplaysAreWhole'
  BY DEF FilesAreDated, PagesAreDated, ReplaysAreWhole, AnswersAreWhole, ReadersAreServed, NoStaleAnswer, LockIsHeld, Owed, Certain, Waiting
<1>6. AnswersAreWhole'
  BY DEF FilesAreDated, PagesAreDated, ReplaysAreWhole, AnswersAreWhole, ReadersAreServed, NoStaleAnswer, LockIsHeld, Owed, Certain, Waiting
<1>7. ReadersAreServed'
  BY DEF FilesAreDated, PagesAreDated, ReplaysAreWhole, AnswersAreWhole, ReadersAreServed, NoStaleAnswer, LockIsHeld, Owed, Certain, Waiting
<1>8. NoStaleAnswer'
  BY DEF FilesAreDated, PagesAreDated, ReplaysAreWhole, AnswersAreWhole, ReadersAreServed, NoStaleAnswer, LockIsHeld, Owed, Certain, Waiting
<1> QED BY <1>1, <1>2, <1>3, <1>4, <1>5, <1>6, <1>7, <1>8 DEF StatusInv

\* After a restore nothing is certain.
LEMMA RestoreKeeps == ASSUME StatusInv, Restore PROVE StatusInv'
<1> USE WalkStatusAssumption DEF StatusInv, StatusTypeOK, FileStates, PageStates, PagePhases, At, disk, Restore
<1>1. StatusTypeOK'
  <2>1. now' \in Nat /\ file' \in FileStates /\ copies' \in SUBSET FileStates /\ replay' \in FileStates
        /\ lock' \in Requests \cup {Nobody} /\ answers' \in SUBSET [key : Nat, rows : SUBSET Nat]
    OBVIOUS
  <2>2. page' \in [Requests -> PageStates]
    OBVIOUS
  <2>3. unseen' \in SUBSET Nat
    OBVIOUS
  <2> QED BY <2>1, <2>2, <2>3
<1>2. LockIsHeld'
  BY DEF LockIsHeld
<1>3. FilesAreDated'
  BY DEF FilesAreDated
<1>4. PagesAreDated'
  BY DEF FilesAreDated, PagesAreDated, ReplaysAreWhole, AnswersAreWhole, ReadersAreServed, NoStaleAnswer, LockIsHeld, Owed, Certain, Waiting
<1>5. ReplaysAreWhole'
  BY DEF FilesAreDated, PagesAreDated, ReplaysAreWhole, AnswersAreWhole, ReadersAreServed, NoStaleAnswer, LockIsHeld, Owed, Certain, Waiting
<1>6. AnswersAreWhole'
  BY DEF FilesAreDated, PagesAreDated, ReplaysAreWhole, AnswersAreWhole, ReadersAreServed, NoStaleAnswer, LockIsHeld, Owed, Certain, Waiting
<1>7. ReadersAreServed'
  BY DEF FilesAreDated, PagesAreDated, ReplaysAreWhole, AnswersAreWhole, ReadersAreServed, NoStaleAnswer, LockIsHeld, Owed, Certain, Waiting
<1>8. NoStaleAnswer'
  BY DEF FilesAreDated, PagesAreDated, ReplaysAreWhole, AnswersAreWhole, ReadersAreServed, NoStaleAnswer, LockIsHeld, Owed, Certain, Waiting
<1> QED BY <1>1, <1>2, <1>3, <1>4, <1>5, <1>6, <1>7, <1>8 DEF StatusInv

\* The replay stays on disk; the cache, the lock and the requests go.
LEMMA RestartApiKeeps == ASSUME StatusInv, RestartApi PROVE StatusInv'
<1> USE WalkStatusAssumption DEF StatusInv, StatusTypeOK, FileStates, PageStates, PagePhases, At, disk, RestartApi, Quiet
<1>1. StatusTypeOK'
  OBVIOUS
<1>2. LockIsHeld'
  BY DEF LockIsHeld
<1>3. FilesAreDated'
  BY DEF FilesAreDated
<1>4. PagesAreDated'
  BY DEF FilesAreDated, PagesAreDated, ReplaysAreWhole, AnswersAreWhole, ReadersAreServed, NoStaleAnswer, LockIsHeld, Owed, Certain, Waiting
<1>5. ReplaysAreWhole'
  BY DEF FilesAreDated, PagesAreDated, ReplaysAreWhole, AnswersAreWhole, ReadersAreServed, NoStaleAnswer, LockIsHeld, Owed, Certain, Waiting
<1>6. AnswersAreWhole'
  BY DEF FilesAreDated, PagesAreDated, ReplaysAreWhole, AnswersAreWhole, ReadersAreServed, NoStaleAnswer, LockIsHeld, Owed, Certain, Waiting
<1>7. ReadersAreServed'
  BY DEF FilesAreDated, PagesAreDated, ReplaysAreWhole, AnswersAreWhole, ReadersAreServed, NoStaleAnswer, LockIsHeld, Owed, Certain, Waiting
<1>8. NoStaleAnswer'
  BY DEF FilesAreDated, PagesAreDated, ReplaysAreWhole, AnswersAreWhole, ReadersAreServed, NoStaleAnswer, LockIsHeld, Owed, Certain, Waiting
<1> QED BY <1>1, <1>2, <1>3, <1>4, <1>5, <1>6, <1>7, <1>8 DEF StatusInv

\* What a request asks for is on file.
LEMMA AskKeeps == ASSUME NEW r \in Requests, StatusInv, Ask(r) PROVE StatusInv'
<1> USE WalkStatusAssumption DEF StatusInv, StatusTypeOK, FileStates, PageStates, PagePhases, At, disk, Ask, Opened, Quiet, Waiting
<1>1. StatusTypeOK'
  OBVIOUS
<1>2. LockIsHeld'
  BY DEF LockIsHeld
<1>3. FilesAreDated'
  BY DEF FilesAreDated
<1>4. PagesAreDated'
  BY DEF FilesAreDated, PagesAreDated, ReplaysAreWhole, AnswersAreWhole, ReadersAreServed, NoStaleAnswer, LockIsHeld, Owed, Certain, Waiting
<1>5. ReplaysAreWhole'
  BY DEF FilesAreDated, PagesAreDated, ReplaysAreWhole, AnswersAreWhole, ReadersAreServed, NoStaleAnswer, LockIsHeld, Owed, Certain, Waiting
<1>6. AnswersAreWhole'
  BY DEF FilesAreDated, PagesAreDated, ReplaysAreWhole, AnswersAreWhole, ReadersAreServed, NoStaleAnswer, LockIsHeld, Owed, Certain, Waiting
<1>7. ReadersAreServed'
  BY DEF FilesAreDated, PagesAreDated, ReplaysAreWhole, AnswersAreWhole, ReadersAreServed, NoStaleAnswer, LockIsHeld, Owed, Certain, Waiting
<1>8. NoStaleAnswer'
  BY DEF FilesAreDated, PagesAreDated, ReplaysAreWhole, AnswersAreWhole, ReadersAreServed, NoStaleAnswer, LockIsHeld, Owed, Certain, Waiting
<1> QED BY <1>1, <1>2, <1>3, <1>4, <1>5, <1>6, <1>7, <1>8 DEF StatusInv

\* A hit is an answer kept under the time of the file.
LEMMA LookUpKeeps == ASSUME NEW r \in Requests, StatusInv, LookUp(r) PROVE StatusInv'
<1>1. StatusTypeOK'
  <2> DEFINE hits == {a \in answers : a.key = file.time}
             next == [page[r] EXCEPT !.key = file.time]
             hit == [next EXCEPT !.phase = "answered", !.shown = (CHOOSE a \in hits : TRUE).rows]
  <2>1. next \in PageStates
    BY DEF StatusInv, StatusTypeOK, FileStates, PageStates, PagePhases, At, disk, LookUp
  <2>2. CASE hits # {}
    <3>1. (CHOOSE a \in hits : TRUE) \in answers
      BY <2>2
    <3>2. hit \in PageStates
      BY <2>1, <3>1 DEF StatusInv, StatusTypeOK, FileStates, PageStates, PagePhases, At, disk, LookUp
    <3>3. page' = [page EXCEPT ![r] = hit]
      BY <2>2 DEF LookUp
    <3> HIDE DEF hit
    <3>4. page' \in [Requests -> PageStates]
      BY <3>2, <3>3 DEF StatusInv, StatusTypeOK
    <3> QED
      BY <3>4 DEF StatusInv, StatusTypeOK, FileStates, PageStates, PagePhases, At, disk, LookUp
  <2>3. CASE hits = {}
    <3>1. PICK phase \in {"empty", "wait"} : page' = [page EXCEPT ![r] = [next EXCEPT !.phase = phase]]
      BY <2>3 DEF LookUp
    <3>2. [next EXCEPT !.phase = phase] \in PageStates
      BY <2>1 DEF PageStates, PagePhases
    <3> HIDE DEF next
    <3>3. page' \in [Requests -> PageStates]
      BY <3>1, <3>2 DEF StatusInv, StatusTypeOK
    <3> QED
      BY <3>3 DEF StatusInv, StatusTypeOK, FileStates, PageStates, PagePhases, At, disk, LookUp
  <2> QED
    BY <2>2, <2>3
<1> USE WalkStatusAssumption DEF StatusInv, StatusTypeOK, FileStates, PageStates, PagePhases, At, disk, LookUp
<1>2. LockIsHeld'
  BY DEF LockIsHeld
<1>3. FilesAreDated'
  BY DEF FilesAreDated
<1>4. PagesAreDated'
  BY DEF FilesAreDated, PagesAreDated, ReplaysAreWhole, AnswersAreWhole, ReadersAreServed, NoStaleAnswer, LockIsHeld, Owed, Certain, Waiting
<1>5. ReplaysAreWhole'
  BY DEF FilesAreDated, PagesAreDated, ReplaysAreWhole, AnswersAreWhole, ReadersAreServed, NoStaleAnswer, LockIsHeld, Owed, Certain, Waiting
<1>6. AnswersAreWhole'
  BY DEF FilesAreDated, PagesAreDated, ReplaysAreWhole, AnswersAreWhole, ReadersAreServed, NoStaleAnswer, LockIsHeld, Owed, Certain, Waiting
<1>7. ReadersAreServed'
  BY DEF FilesAreDated, PagesAreDated, ReplaysAreWhole, AnswersAreWhole, ReadersAreServed, NoStaleAnswer, LockIsHeld, Owed, Certain, Waiting
<1>8. NoStaleAnswer'
  BY DEF FilesAreDated, PagesAreDated, ReplaysAreWhole, AnswersAreWhole, ReadersAreServed, NoStaleAnswer, LockIsHeld, Owed, Certain, Waiting
<1> QED BY <1>1, <1>2, <1>3, <1>4, <1>5, <1>6, <1>7, <1>8 DEF StatusInv

\* A replay as young as the file has every certain row.
LEMMA ReuseKeeps == ASSUME NEW r \in Requests, StatusInv, Reuse(r) PROVE StatusInv'
<1> USE WalkStatusAssumption DEF StatusInv, StatusTypeOK, FileStates, PageStates, PagePhases, At, disk, Reuse, Goes, Fresh
<1>1. StatusTypeOK'
  OBVIOUS
<1>2. LockIsHeld'
  BY DEF LockIsHeld
<1>3. FilesAreDated'
  BY DEF FilesAreDated
<1>4. PagesAreDated'
  BY DEF FilesAreDated, PagesAreDated, ReplaysAreWhole, AnswersAreWhole, ReadersAreServed, NoStaleAnswer, LockIsHeld, Owed, Certain, Waiting
<1>5. ReplaysAreWhole'
  BY DEF FilesAreDated, PagesAreDated, ReplaysAreWhole, AnswersAreWhole, ReadersAreServed, NoStaleAnswer, LockIsHeld, Owed, Certain, Waiting
<1>6. AnswersAreWhole'
  BY DEF FilesAreDated, PagesAreDated, ReplaysAreWhole, AnswersAreWhole, ReadersAreServed, NoStaleAnswer, LockIsHeld, Owed, Certain, Waiting
<1>7. ReadersAreServed'
  BY DEF FilesAreDated, PagesAreDated, ReplaysAreWhole, AnswersAreWhole, ReadersAreServed, NoStaleAnswer, LockIsHeld, Owed, Certain, Waiting
<1>8. NoStaleAnswer'
  BY DEF FilesAreDated, PagesAreDated, ReplaysAreWhole, AnswersAreWhole, ReadersAreServed, NoStaleAnswer, LockIsHeld, Owed, Certain, Waiting
<1> QED BY <1>1, <1>2, <1>3, <1>4, <1>5, <1>6, <1>7, <1>8 DEF StatusInv

\* One request at a time.
LEMMA EnterKeeps == ASSUME NEW r \in Requests, StatusInv, Enter(r) PROVE StatusInv'
<1> USE WalkStatusAssumption DEF StatusInv, StatusTypeOK, FileStates, PageStates, PagePhases, At, disk, Enter, Goes, Fresh
<1>1. StatusTypeOK'
  OBVIOUS
<1>2. LockIsHeld'
  BY DEF LockIsHeld
<1>3. FilesAreDated'
  BY DEF FilesAreDated
<1>4. PagesAreDated'
  BY DEF FilesAreDated, PagesAreDated, ReplaysAreWhole, AnswersAreWhole, ReadersAreServed, NoStaleAnswer, LockIsHeld, Owed, Certain, Waiting
<1>5. ReplaysAreWhole'
  BY DEF FilesAreDated, PagesAreDated, ReplaysAreWhole, AnswersAreWhole, ReadersAreServed, NoStaleAnswer, LockIsHeld, Owed, Certain, Waiting
<1>6. AnswersAreWhole'
  BY DEF FilesAreDated, PagesAreDated, ReplaysAreWhole, AnswersAreWhole, ReadersAreServed, NoStaleAnswer, LockIsHeld, Owed, Certain, Waiting
<1>7. ReadersAreServed'
  <2>1. CASE Fresh
    BY <2>1 DEF FilesAreDated, PagesAreDated, ReplaysAreWhole, ReadersAreServed, Owed, Certain, Waiting
  <2>2. CASE ~Fresh
    BY <2>2 DEF FilesAreDated, PagesAreDated, ReplaysAreWhole, ReadersAreServed, Owed, Certain, Waiting
  <2> QED
    BY <2>1, <2>2
<1>8. NoStaleAnswer'
  BY DEF FilesAreDated, PagesAreDated, ReplaysAreWhole, AnswersAreWhole, ReadersAreServed, NoStaleAnswer, LockIsHeld, Owed, Certain, Waiting
<1> QED BY <1>1, <1>2, <1>3, <1>4, <1>5, <1>6, <1>7, <1>8 DEF StatusInv

\* The replay being built starts from everything certain.
LEMMA LoadReplayKeeps == ASSUME NEW r \in Requests, StatusInv, LoadReplay(r) PROVE StatusInv'
<1>1. StatusTypeOK'
  <2> DEFINE p == [page[r] EXCEPT !.phase = "building", !.built = file.rows]
  <2>1. p \in PageStates
    BY DEF StatusInv, StatusTypeOK, FileStates, PageStates, PagePhases, At, disk, LoadReplay
  <2>2. page' = [page EXCEPT ![r] = p]
    BY DEF LoadReplay
  <2> HIDE DEF p
  <2>3. page' \in [Requests -> PageStates]
    BY <2>1, <2>2 DEF StatusInv, StatusTypeOK
  <2> QED
    BY <2>3 DEF StatusInv, StatusTypeOK, FileStates, PageStates, PagePhases, At, disk, LoadReplay
<1> USE WalkStatusAssumption DEF StatusInv, StatusTypeOK, FileStates, PageStates, PagePhases, At, disk, LoadReplay
<1>2. LockIsHeld'
  BY DEF LockIsHeld
<1>3. FilesAreDated'
  BY DEF FilesAreDated
<1>4. PagesAreDated'
  BY DEF FilesAreDated, PagesAreDated, ReplaysAreWhole, AnswersAreWhole, ReadersAreServed, NoStaleAnswer, LockIsHeld, Owed, Certain, Waiting
<1>5. ReplaysAreWhole'
  BY DEF FilesAreDated, PagesAreDated, ReplaysAreWhole, AnswersAreWhole, ReadersAreServed, NoStaleAnswer, LockIsHeld, Owed, Certain, Waiting
<1>6. AnswersAreWhole'
  BY DEF FilesAreDated, PagesAreDated, ReplaysAreWhole, AnswersAreWhole, ReadersAreServed, NoStaleAnswer, LockIsHeld, Owed, Certain, Waiting
<1>7. ReadersAreServed'
  BY DEF FilesAreDated, PagesAreDated, ReplaysAreWhole, AnswersAreWhole, ReadersAreServed, NoStaleAnswer, LockIsHeld, Owed, Certain, Waiting
<1>8. NoStaleAnswer'
  BY DEF FilesAreDated, PagesAreDated, ReplaysAreWhole, AnswersAreWhole, ReadersAreServed, NoStaleAnswer, LockIsHeld, Owed, Certain, Waiting
<1> QED BY <1>1, <1>2, <1>3, <1>4, <1>5, <1>6, <1>7, <1>8 DEF StatusInv

\* The finished replay has every certain row: those logged since it was loaded
\* are not.
LEMMA FinishReplayKeeps == ASSUME NEW r \in Requests, StatusInv, FinishReplay(r) PROVE StatusInv'
<1>1. StatusTypeOK'
  <2> DEFINE then == now + 1
             p == [page[r] EXCEPT !.phase = "swap", !.builtAt = then]
  <2>1. then \in Nat
    BY DEF StatusInv, StatusTypeOK
  <2>2. page' = [page EXCEPT ![r].phase = "swap", ![r].builtAt = then]
    BY DEF FinishReplay
  <2> HIDE DEF then
  <2>3. p \in PageStates
    BY <2>1 DEF StatusInv, StatusTypeOK, FileStates, PageStates, PagePhases, At, disk, FinishReplay
  <2>4. page' = [page EXCEPT ![r] = p]
    BY <2>2
  <2> HIDE DEF p
  <2>5. page' \in [Requests -> PageStates]
    BY <2>3, <2>4 DEF StatusInv, StatusTypeOK
  <2> QED
    BY <2>5 DEF StatusInv, StatusTypeOK, FileStates, PageStates, PagePhases, At, disk, FinishReplay
<1> USE WalkStatusAssumption DEF StatusInv, StatusTypeOK, FileStates, PageStates, PagePhases, At, disk, FinishReplay
<1>2. LockIsHeld'
  BY DEF LockIsHeld
<1>3. FilesAreDated'
  BY DEF FilesAreDated
<1>4. PagesAreDated'
  BY DEF FilesAreDated, PagesAreDated, ReplaysAreWhole, AnswersAreWhole, ReadersAreServed, NoStaleAnswer, LockIsHeld, Owed, Certain, Waiting
<1>5. ReplaysAreWhole'
  BY DEF FilesAreDated, PagesAreDated, ReplaysAreWhole, AnswersAreWhole, ReadersAreServed, NoStaleAnswer, LockIsHeld, Owed, Certain, Waiting
<1>6. AnswersAreWhole'
  BY DEF FilesAreDated, PagesAreDated, ReplaysAreWhole, AnswersAreWhole, ReadersAreServed, NoStaleAnswer, LockIsHeld, Owed, Certain, Waiting
<1>7. ReadersAreServed'
  BY DEF FilesAreDated, PagesAreDated, ReplaysAreWhole, AnswersAreWhole, ReadersAreServed, NoStaleAnswer, LockIsHeld, Owed, Certain, Waiting
<1>8. NoStaleAnswer'
  BY DEF FilesAreDated, PagesAreDated, ReplaysAreWhole, AnswersAreWhole, ReadersAreServed, NoStaleAnswer, LockIsHeld, Owed, Certain, Waiting
<1> QED BY <1>1, <1>2, <1>3, <1>4, <1>5, <1>6, <1>7, <1>8 DEF StatusInv

\* The other requests find in the younger file what they are owed.
LEMMA SwapInKeeps == ASSUME NEW r \in Requests, StatusInv, SwapIn(r) PROVE StatusInv'
<1>1. StatusTypeOK'
  <2>1. [rows |-> page[r].built, time |-> page[r].builtAt] \in FileStates
    BY DEF StatusInv, StatusTypeOK, FileStates, PageStates, PagePhases, At, disk, SwapIn, Goes
  <2>2. replay' \in FileStates
    BY <2>1 DEF StatusInv, StatusTypeOK, SwapIn
  <2> QED
    BY <2>2, WalkStatusAssumption DEF StatusInv, StatusTypeOK, FileStates, PageStates, PagePhases, At, disk, SwapIn, Goes
<1> USE WalkStatusAssumption DEF StatusInv, StatusTypeOK, FileStates, PageStates, PagePhases, At, disk, SwapIn, Goes
<1>2. LockIsHeld'
  BY DEF LockIsHeld
<1>3. FilesAreDated'
  <2>1. replay'.time \in {replay.time, page[r].builtAt}
    OBVIOUS
  <2> QED
    BY <2>1 DEF FilesAreDated, PagesAreDated
<1>4. PagesAreDated'
  BY DEF FilesAreDated, PagesAreDated, ReplaysAreWhole, AnswersAreWhole, ReadersAreServed, NoStaleAnswer, LockIsHeld, Owed, Certain, Waiting
<1>5. ReplaysAreWhole'
  BY DEF FilesAreDated, PagesAreDated, ReplaysAreWhole, AnswersAreWhole, ReadersAreServed, NoStaleAnswer, LockIsHeld, Owed, Certain, Waiting
<1>6. AnswersAreWhole'
  BY DEF FilesAreDated, PagesAreDated, ReplaysAreWhole, AnswersAreWhole, ReadersAreServed, NoStaleAnswer, LockIsHeld, Owed, Certain, Waiting
<1>7. ReadersAreServed'
  BY DEF FilesAreDated, PagesAreDated, ReplaysAreWhole, AnswersAreWhole, ReadersAreServed, NoStaleAnswer, LockIsHeld, Owed, Certain, Waiting
<1>8. NoStaleAnswer'
  BY DEF FilesAreDated, PagesAreDated, ReplaysAreWhole, AnswersAreWhole, ReadersAreServed, NoStaleAnswer, LockIsHeld, Owed, Certain, Waiting
<1> QED BY <1>1, <1>2, <1>3, <1>4, <1>5, <1>6, <1>7, <1>8 DEF StatusInv

\* The replay on disk has what the reader is owed.
LEMMA ReadYearsKeeps == ASSUME NEW r \in Requests, StatusInv, ReadYears(r) PROVE StatusInv'
<1>1. StatusTypeOK'
  <2> DEFINE p == [page[r] EXCEPT !.phase = "draw", !.shown = replay.rows]
  <2>1. p \in PageStates
    BY DEF StatusInv, StatusTypeOK, FileStates, PageStates, PagePhases, At, disk, ReadYears
  <2>2. page' = [page EXCEPT ![r] = p]
    BY DEF ReadYears
  <2> HIDE DEF p
  <2>3. page' \in [Requests -> PageStates]
    BY <2>1, <2>2 DEF StatusInv, StatusTypeOK
  <2> QED
    BY <2>3 DEF StatusInv, StatusTypeOK, FileStates, PageStates, PagePhases, At, disk, ReadYears
<1> USE WalkStatusAssumption DEF StatusInv, StatusTypeOK, FileStates, PageStates, PagePhases, At, disk, ReadYears
<1>2. LockIsHeld'
  BY DEF LockIsHeld
<1>3. FilesAreDated'
  BY DEF FilesAreDated
<1>4. PagesAreDated'
  BY DEF FilesAreDated, PagesAreDated, ReplaysAreWhole, AnswersAreWhole, ReadersAreServed, NoStaleAnswer, LockIsHeld, Owed, Certain, Waiting
<1>5. ReplaysAreWhole'
  BY DEF FilesAreDated, PagesAreDated, ReplaysAreWhole, AnswersAreWhole, ReadersAreServed, NoStaleAnswer, LockIsHeld, Owed, Certain, Waiting
<1>6. AnswersAreWhole'
  BY DEF FilesAreDated, PagesAreDated, ReplaysAreWhole, AnswersAreWhole, ReadersAreServed, NoStaleAnswer, LockIsHeld, Owed, Certain, Waiting
<1>7. ReadersAreServed'
  BY DEF FilesAreDated, PagesAreDated, ReplaysAreWhole, AnswersAreWhole, ReadersAreServed, NoStaleAnswer, LockIsHeld, Owed, Certain, Waiting
<1>8. NoStaleAnswer'
  BY DEF FilesAreDated, PagesAreDated, ReplaysAreWhole, AnswersAreWhole, ReadersAreServed, NoStaleAnswer, LockIsHeld, Owed, Certain, Waiting
<1> QED BY <1>1, <1>2, <1>3, <1>4, <1>5, <1>6, <1>7, <1>8 DEF StatusInv

\* The answer has what its reader was owed.
LEMMA AnswerKeeps == ASSUME NEW r \in Requests, StatusInv, Answer(r) PROVE StatusInv'
<1>1. StatusTypeOK'
  <2> DEFINE p == [page[r] EXCEPT !.phase = "answered", !.shown = Shown(r)]
  <2>1. p \in PageStates
    BY DEF StatusInv, StatusTypeOK, FileStates, PageStates, PagePhases, At, disk, Answer, Shown
  <2>2. page' = [page EXCEPT ![r] = p]
    BY DEF Answer, Shown
  <2>3. answers' \subseteq answers \cup {[key |-> page[r].key, rows |-> Shown(r)]}
    BY DEF Answer
  <2> HIDE DEF p
  <2>4. page' \in [Requests -> PageStates]
    BY <2>1, <2>2 DEF StatusInv, StatusTypeOK
  <2> QED
    BY <2>3, <2>4 DEF StatusInv, StatusTypeOK, FileStates, PageStates, PagePhases, At, disk, Answer, Shown
<1> USE WalkStatusAssumption DEF StatusInv, StatusTypeOK, FileStates, PageStates, PagePhases, At, disk, Answer, Shown
<1>2. LockIsHeld'
  BY DEF LockIsHeld
<1>3. FilesAreDated'
  <2>1. answers' \subseteq answers \cup {[key |-> page[r].key, rows |-> Shown(r)]}
    OBVIOUS
  <2> QED
    BY <2>1 DEF FilesAreDated, PagesAreDated
<1>4. PagesAreDated'
  BY DEF FilesAreDated, PagesAreDated, ReplaysAreWhole, AnswersAreWhole, ReadersAreServed, NoStaleAnswer, LockIsHeld, Owed, Certain, Waiting
<1>5. ReplaysAreWhole'
  BY DEF FilesAreDated, PagesAreDated, ReplaysAreWhole, AnswersAreWhole, ReadersAreServed, NoStaleAnswer, LockIsHeld, Owed, Certain, Waiting
<1>6. AnswersAreWhole'
  BY DEF FilesAreDated, PagesAreDated, ReplaysAreWhole, AnswersAreWhole, ReadersAreServed, NoStaleAnswer, LockIsHeld, Owed, Certain, Waiting
<1>7. ReadersAreServed'
  BY DEF FilesAreDated, PagesAreDated, ReplaysAreWhole, AnswersAreWhole, ReadersAreServed, NoStaleAnswer, LockIsHeld, Owed, Certain, Waiting
<1>8. NoStaleAnswer'
  BY DEF FilesAreDated, PagesAreDated, ReplaysAreWhole, AnswersAreWhole, ReadersAreServed, NoStaleAnswer, LockIsHeld, Owed, Certain, Waiting
<1> QED BY <1>1, <1>2, <1>3, <1>4, <1>5, <1>6, <1>7, <1>8 DEF StatusInv

\* A request that fails holds nothing.
LEMMA GiveUpKeeps == ASSUME NEW r \in Requests, StatusInv, GiveUp(r) PROVE StatusInv'
<1> USE WalkStatusAssumption DEF StatusInv, StatusTypeOK, FileStates, PageStates, PagePhases, At, disk, GiveUp, Goes, Waiting
<1>1. StatusTypeOK'
  OBVIOUS
<1>2. LockIsHeld'
  BY DEF LockIsHeld
<1>3. FilesAreDated'
  BY DEF FilesAreDated
<1>4. PagesAreDated'
  BY DEF FilesAreDated, PagesAreDated, ReplaysAreWhole, AnswersAreWhole, ReadersAreServed, NoStaleAnswer, LockIsHeld, Owed, Certain, Waiting
<1>5. ReplaysAreWhole'
  BY DEF FilesAreDated, PagesAreDated, ReplaysAreWhole, AnswersAreWhole, ReadersAreServed, NoStaleAnswer, LockIsHeld, Owed, Certain, Waiting
<1>6. AnswersAreWhole'
  BY DEF FilesAreDated, PagesAreDated, ReplaysAreWhole, AnswersAreWhole, ReadersAreServed, NoStaleAnswer, LockIsHeld, Owed, Certain, Waiting
<1>7. ReadersAreServed'
  BY DEF FilesAreDated, PagesAreDated, ReplaysAreWhole, AnswersAreWhole, ReadersAreServed, NoStaleAnswer, LockIsHeld, Owed, Certain, Waiting
<1>8. NoStaleAnswer'
  BY DEF FilesAreDated, PagesAreDated, ReplaysAreWhole, AnswersAreWhole, ReadersAreServed, NoStaleAnswer, LockIsHeld, Owed, Certain, Waiting
<1> QED BY <1>1, <1>2, <1>3, <1>4, <1>5, <1>6, <1>7, <1>8 DEF StatusInv

-----------------------------------------------------------------------------
\* Nothing on file, nobody asking.
LEMMA StatusStarts == StatusInit => StatusInv
BY WalkStatusAssumption
   DEF StatusInit, StatusInv, StatusTypeOK, LockIsHeld, FilesAreDated, PagesAreDated, ReplaysAreWhole,
       AnswersAreWhole, ReadersAreServed, NoStaleAnswer, Owed, Certain, Quiet, At, FileStates, PageStates, PagePhases

\* A stutter.
LEMMA StatusStays == StatusInv /\ UNCHANGED statusVars => StatusInv'
BY DEF statusVars, StatusInv, StatusTypeOK, LockIsHeld, FilesAreDated, PagesAreDated, ReplaysAreWhole,
       AnswersAreWhole, ReadersAreServed, NoStaleAnswer, Owed, Certain, At

\* StatusInv is inductive.
LEMMA StatusInductive == StatusSpec => []StatusInv
<1>1. StatusInit => StatusInv
  BY StatusStarts
<1>2. ASSUME StatusInv, [StatusNext]_statusVars PROVE StatusInv'
  <2>1. CASE StatusNext
    BY <1>2, <2>1, LogDayKeeps, TakeCopyKeeps, RestoreKeeps, RestartApiKeeps, AskKeeps,
       LookUpKeeps, ReuseKeeps, EnterKeeps, LoadReplayKeeps, FinishReplayKeeps, SwapInKeeps,
       ReadYearsKeeps, AnswerKeeps, GiveUpKeeps
       DEF StatusNext
  <2>2. CASE UNCHANGED statusVars
    BY <1>2, <2>2, StatusStays
  <2> QED
    BY <1>2, <2>1, <2>2
<1> QED
  BY <1>1, <1>2, PTL DEF StatusSpec

\* Whatever requests, cache, predictions, restores and restarts of the API
\* there are, at most one request replays, and it holds _REPLAY_LOCK.
THEOREM LockIsHeldHolds == StatusSpec => []LockIsHeld
BY StatusInductive, PTL DEF StatusInv

\* Whatever requests, cache, predictions, restores and restarts of the API
\* there are, an answer of get_strict_wf_status shows every prediction that
\* was on file when it was asked for, once the file times tell of it.
THEOREM NoStaleAnswerHolds == StatusSpec => []NoStaleAnswer
BY StatusInductive, PTL DEF StatusInv

=============================================================================
