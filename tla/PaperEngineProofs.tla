------------------------- MODULE PaperEngineProofs -------------------------
(***************************************************************************)
(* Proofs about the simulated account: a replay keeps its book balanced,   *)
(* its lots and rows matched and its exits on time at every step of every  *)
(* day, for any bars, predictions and constants; a commit hands exactly    *)
(* that to the tables.                                                     *)
(*                                                                         *)
(* In order: minimal and greatest members of finite sets; sums over finite *)
(* sets (SumFunctionOnSet is a recursion that picks an element, so a fact  *)
(* about it is shown on a minimal set that would break it); what each step *)
(* of the loop's body writes; the invariant BookInv of a book, and each    *)
(* step keeping it; the tables; the steps of clock, pipeline and writers;  *)
(* two replays side by side; the count of upsets that a late close costs.  *)
(***************************************************************************)
EXTENDS PaperEngine, FiniteSetTheorems, WellFoundedInduction, TLAPS


\* A non-empty family of subsets of a finite set has a minimal member.
LEMMA MinimalMember ==
    ASSUME NEW S, IsFiniteSet(S), NEW T \in SUBSET (SUBSET S), T # {}
    PROVE  \E x \in T : \A y \in T : y \subseteq x => y = x
  <1>1. IsWellFoundedOn(StrictSubsetOrdering(S), FiniteSubsetsOf(S))
    BY FS_StrictSubsetOrderingWellFounded
  <1>2. T \subseteq FiniteSubsetsOf(S)
    BY FS_FiniteSubsetsOfFinite
  <1>3. PICK x \in T : \A y \in T : ~ (<<y, x>> \in StrictSubsetOrdering(S))
    BY <1>1, <1>2, WFMin
  <1>4. ASSUME NEW y \in T, y \subseteq x, y # x PROVE FALSE
    <2>1. <<y, x>> \in (SUBSET S) \X (SUBSET S) /\ <<y, x>>[1] = y /\ <<y, x>>[2] = x
      OBVIOUS
    <2>2. <<y, x>> \in StrictSubsetOrdering(S)
      BY <1>4, <2>1 DEF StrictSubsetOrdering
    <2>3. QED
      BY <1>3, <2>2
  <1>5. QED
    BY <1>4

\* A non-empty finite set of integers has a greatest element.
LEMMA GreatestElement ==
    ASSUME NEW S, \A e \in S : e \in Int, IsFiniteSet(S), S # {}
    PROVE  \E m \in S : \A e \in S : e <= m
  <1>1. PICK T \in SUBSET (SUBSET S) : T = {{e \in S : d <= e} : d \in S}
    OBVIOUS
  <1>2. PICK d \in S : {e \in S : d <= e} \in T
    BY <1>1
  <1>3. T # {}
    BY <1>2
  <1>4. PICK x \in T : \A y \in T : y \subseteq x => y = x
    BY <1>3, MinimalMember
  <1>5. PICK m \in S : x = {e \in S : m <= e}
    BY <1>1, <1>4
  <1>6. ASSUME NEW e \in S, m < e PROVE FALSE
    <2>1. PICK y : y = {f \in S : e <= f}
      OBVIOUS
    <2>2. y \in T
      BY <1>1, <2>1
    <2>3. y \subseteq x
      <3>1. \A f \in S : e <= f => m <= f
        BY <1>6
      <3>2. QED
        BY <1>5, <2>1, <3>1
    <2>4. m \in x /\ m \notin y
      BY <1>5, <1>6, <2>1
    <2>5. QED
      BY <1>4, <2>2, <2>3, <2>4
  <1>7. QED
    BY <1>6

\* Max and Min of a finite set of integers are what their names say.
LEMMA MaxIs ==
  ASSUME NEW S, \A e \in S : e \in Int, IsFiniteSet(S), S # {}
  PROVE  Max(S) \in S /\ \A e \in S : e <= Max(S)
<1>1. PICK m \in S : \A e \in S : e <= m
  BY GreatestElement
<1>2. \E x \in S : \A y \in S : x >= y
  BY <1>1
<1> QED BY <1>2 DEF Max

\* The least element is the negative of the greatest negative.
LEMMA MinIs ==
  ASSUME NEW S, \A e \in S : e \in Int, IsFiniteSet(S), S # {}
  PROVE  Min(S) \in S /\ \A e \in S : Min(S) <= e
<1>1. PICK T : T = {- e : e \in S}
  OBVIOUS
<1>2. IsFiniteSet(T) /\ T # {} /\ \A t \in T : t \in Int
  <2>1. PICK f : f = [e \in S |-> - e]
    OBVIOUS
  <2>2. T = {f[e] : e \in S} /\ T # {} /\ \A t \in T : t \in Int
    BY <1>1, <2>1
  <2>3. f \in Surjection(S, T)
    BY <2>1, <2>2 DEF Surjection
  <2> QED BY <2>2, <2>3, FS_Surjection
<1>3. PICK t \in T : \A u \in T : u <= t
  BY <1>2, GreatestElement
<1>4. PICK m \in S : t = - m
  BY <1>1
<1>5. \A e \in S : m <= e
  BY <1>1, <1>3, <1>4
<1>6. \E x \in S : \A y \in S : x =< y
  BY <1>5
<1> QED BY <1>6 DEF Min

\* A pair is finite.
LEMMA PairIsFinite == ASSUME NEW a, NEW b PROVE IsFiniteSet({a, b})
<1>1. IsFiniteSet({a})
  BY FS_Singleton
<1>2. IsFiniteSet({a} \cup {b})
  BY <1>1, FS_AddElement
<1>3. {a} \cup {b} = {a, b}
  OBVIOUS
<1> QED BY <1>2, <1>3

-----------------------------------------------------------------------------
(***************************************************************************)
(* Sums over finite sets.                                                  *)
(***************************************************************************)
Pick(s) == CHOOSE x \in s : TRUE

\* The function that the folds of the community modules are made of.
IsSums(f, S, h) ==
  h = [s \in SUBSET S |-> IF s = {} THEN 0 ELSE f[Pick(s)] + h[s \ {Pick(s)}]]
Sums(f, S) == CHOOSE h : IsSums(f, S, h)

\* The same for the sets of up to n elements.
Upto(S, n) == {s \in SUBSET S : Cardinality(s) <= n}
IsUpto(f, S, n, h) ==
  h = [s \in Upto(S, n) |-> IF s = {} THEN 0 ELSE f[Pick(s)] + h[s \ {Pick(s)}]]

\* The element a sum takes next is one of the set.
LEMMA PickIs == ASSUME NEW s, s # {} PROVE Pick(s) \in s
BY DEF Pick

\* One element less.
LEMMA Less ==
  ASSUME NEW S, IsFiniteSet(S), NEW x \in S
  PROVE  /\ IsFiniteSet(S \ {x}) /\ Cardinality(S) \in Nat
         /\ Cardinality(S \ {x}) = Cardinality(S) - 1
BY FS_RemoveElement, FS_CardinalityType

\* From the sets of n elements to those of one more.
LEMMA OneMore ==
  ASSUME NEW f, NEW S, IsFiniteSet(S), NEW n \in Nat, n > 0, NEW h, IsUpto(f, S, n - 1, h)
  PROVE  \E k : IsUpto(f, S, n, k)
<1>1. PICK k : k = [s \in Upto(S, n) |-> IF s = {} THEN 0 ELSE f[Pick(s)] + h[s \ {Pick(s)}]]
  OBVIOUS
<1>2. ASSUME NEW s \in Upto(S, n), s # {} PROVE s \ {Pick(s)} \in Upto(S, n - 1)
  <2>1. IsFiniteSet(s) /\ Pick(s) \in s /\ Cardinality(s) <= n
    BY <1>2, PickIs, FS_Subset DEF Upto
  <2>2. Cardinality(s \ {Pick(s)}) <= n - 1
    BY <2>1, Less
  <2> QED BY <1>2, <2>2 DEF Upto
<1>3. ASSUME NEW s \in Upto(S, n - 1) PROVE s \in Upto(S, n) /\ k[s] = h[s]
  <2>1. IsFiniteSet(s) /\ Cardinality(s) \in Nat
    BY FS_Subset, FS_CardinalityType DEF Upto
  <2>2. s \in Upto(S, n)
    BY <2>1 DEF Upto
  <2>3. k[s] = IF s = {} THEN 0 ELSE f[Pick(s)] + h[s \ {Pick(s)}]
    BY <1>1, <2>2
  <2>4. h[s] = IF s = {} THEN 0 ELSE f[Pick(s)] + h[s \ {Pick(s)}]
    BY DEF IsUpto
  <2> QED BY <2>2, <2>3, <2>4
<1>4. ASSUME NEW s \in Upto(S, n), s # {} PROVE k[s \ {Pick(s)}] = h[s \ {Pick(s)}]
  BY <1>2, <1>3, <1>4
<1>5. k = [s \in Upto(S, n) |-> IF s = {} THEN 0 ELSE f[Pick(s)] + k[s \ {Pick(s)}]]
  BY <1>1, <1>4, Zenon
<1> QED BY <1>5 DEF IsUpto

\* The recursion has a solution.
LEMMA SumsAre == ASSUME NEW f, NEW S, IsFiniteSet(S) PROVE IsSums(f, S, Sums(f, S))
<1>1. PICK N \in Nat : N = Cardinality(S)
  BY FS_CardinalityType
<1>2. \E h : IsUpto(f, S, 0, h)
  <2>1. Upto(S, 0) = {{}}
    <3>1. \A s \in SUBSET S : IsFiniteSet(s) /\ Cardinality(s) \in Nat /\ (Cardinality(s) = 0 <=> s = {})
      BY FS_Subset, FS_CardinalityType, FS_EmptySet
    <3>2. \A s \in SUBSET S : Cardinality(s) <= 0 <=> s = {}
      BY <3>1
    <3> QED BY <3>2 DEF Upto
  <2>2. PICK h : h = [s \in {{}} |-> 0]
    OBVIOUS
  <2>3. h = [s \in Upto(S, 0) |-> IF s = {} THEN 0 ELSE f[Pick(s)] + h[s \ {Pick(s)}]]
    BY <2>1, <2>2
  <2> QED BY <2>3 DEF IsUpto
<1>3. ASSUME NEW n \in Nat, \E h : IsUpto(f, S, n, h) PROVE \E h : IsUpto(f, S, n + 1, h)
  <2>1. PICK h : IsUpto(f, S, n, h)
    BY <1>3
  <2>2. n + 1 \in Nat /\ n + 1 > 0 /\ (n + 1) - 1 = n
    OBVIOUS
  <2> QED BY <2>1, <2>2, OneMore
<1>4. \E h : IsUpto(f, S, N, h)
  <2> SUFFICES ASSUME ~ \E h : IsUpto(f, S, N, h) PROVE FALSE
    OBVIOUS
  <2>1. PICK bad : bad = {n \in 0..N : ~ \E h : IsUpto(f, S, n, h)}
    OBVIOUS
  <2>2. IsFiniteSet(bad) /\ N \in bad /\ \A n \in bad : n \in Int
    <3>1. IsFiniteSet(0..N) /\ bad \subseteq 0..N
      BY <2>1, FS_Interval
    <3>2. N \in 0..N
      BY <1>1
    <3> QED BY <2>1, <3>1, <3>2, FS_Subset
  <2>3. PICK n \in bad : \A m \in bad : n <= m
    BY <2>2, MinIs
  <2>4. n \in 0..N /\ n # 0
    BY <1>2, <2>1, <2>3
  <2>5. n - 1 \in 0..N /\ n - 1 \notin bad /\ n - 1 \in Nat /\ (n - 1) + 1 = n
    BY <1>1, <2>2, <2>3, <2>4
  <2> QED BY <1>3, <2>1, <2>3, <2>5
<1>5. Upto(S, N) = SUBSET S
  BY <1>1, FS_Subset DEF Upto
<1>6. \E h : IsSums(f, S, h)
  BY <1>4, <1>5 DEF IsUpto, IsSums
<1> QED BY <1>6 DEF Sums

Sum(f, S) == SumFunctionOnSet(f, S)

\* The community modules' sum is the recursive function Sums.
LEMMA SumUnfolds == ASSUME NEW f, NEW S PROVE Sum(f, S) = Sums(f, S)[S]
BY DEF Sum, SumFunctionOnSet, FoldFunctionOnSet, MapThenFoldSet, Sums, IsSums, Pick

\* One element after the other.
LEMMA SumsStep ==
  ASSUME NEW f, NEW S, IsFiniteSet(S)
  PROVE  /\ Sums(f, S)[{}] = 0
         /\ \A s \in (SUBSET S) \ {{}} : Sums(f, S)[s] = f[Pick(s)] + Sums(f, S)[s \ {Pick(s)}]
<1>1. PICK h : h = Sums(f, S)
  OBVIOUS
<1>2. h = [s \in SUBSET S |-> IF s = {} THEN 0 ELSE f[Pick(s)] + h[s \ {Pick(s)}]]
  <2>1. IsSums(f, S, h)
    BY <1>1, SumsAre
  <2> QED BY <2>1 DEF IsSums
<1>3. h[{}] = 0
  BY <1>2
<1>4. ASSUME NEW s \in (SUBSET S) \ {{}} PROVE h[s] = f[Pick(s)] + h[s \ {Pick(s)}]
  <2>1. s \in SUBSET S /\ s # {}
    OBVIOUS
  <2> QED BY <1>2, <2>1
<1> QED BY <1>1, <1>3, <1>4

\* Equal summands have equal sums, whatever set the recursion starts from.
LEMMA SumsAgree ==
  ASSUME NEW f, NEW g, NEW S, IsFiniteSet(S), NEW T, IsFiniteSet(T), NEW s, s \subseteq S, s \subseteq T,
         \A x \in s : f[x] = g[x]
  PROVE  Sums(f, S)[s] = Sums(g, T)[s]
<1> SUFFICES ASSUME Sums(f, S)[s] # Sums(g, T)[s] PROVE FALSE
  OBVIOUS
<1>1. PICK bad : bad = {u \in SUBSET s : Sums(f, S)[u] # Sums(g, T)[u]}
  OBVIOUS
<1>2. IsFiniteSet(s) /\ bad # {} /\ bad \in SUBSET (SUBSET s)
  BY <1>1, FS_Subset
<1>3. PICK u \in bad : \A v \in bad : v \subseteq u => v = u
  BY <1>2, MinimalMember
<1>4. u \in SUBSET S /\ u \in SUBSET T /\ u \subseteq s
  BY <1>1
<1>5. u # {}
  <2>1. Sums(f, S)[{}] = 0 /\ Sums(g, T)[{}] = 0
    BY SumsStep
  <2> QED BY <1>1, <2>1
<1>6. /\ Sums(f, S)[u] = f[Pick(u)] + Sums(f, S)[u \ {Pick(u)}]
      /\ Sums(g, T)[u] = g[Pick(u)] + Sums(g, T)[u \ {Pick(u)}]
  BY <1>4, <1>5, SumsStep
<1>7. Pick(u) \in u /\ f[Pick(u)] = g[Pick(u)]
  BY <1>4, <1>5, PickIs
<1>8. u \ {Pick(u)} \notin bad /\ u \ {Pick(u)} \in SUBSET s
  BY <1>3, <1>4, <1>7
<1>9. Sums(f, S)[u \ {Pick(u)}] = Sums(g, T)[u \ {Pick(u)}]
  BY <1>1, <1>8
<1> QED BY <1>1, <1>6, <1>7, <1>9

\* Equal summands have equal sums.
LEMMA SumEqual ==
  ASSUME NEW f, NEW g, NEW S, IsFiniteSet(S), \A x \in S : f[x] = g[x]
  PROVE  Sum(f, S) = Sum(g, S)
BY SumUnfolds, SumsAgree

\* A sum is that of its picked element and the others.
LEMMA SumPick ==
  ASSUME NEW f, NEW S, IsFiniteSet(S)
  PROVE  /\ S = {} => Sum(f, S) = 0
         /\ S # {} => Sum(f, S) = f[Pick(S)] + Sum(f, S \ {Pick(S)})
<1>1. /\ S = {} => Sum(f, S) = 0
      /\ S # {} => Sum(f, S) = f[Pick(S)] + Sums(f, S)[S \ {Pick(S)}]
  <2>1. Sums(f, S)[{}] = 0
    BY SumsStep
  <2>2. Sum(f, S) = Sums(f, S)[S]
    BY SumUnfolds
  <2>3. ASSUME S # {} PROVE Sums(f, S)[S] = f[Pick(S)] + Sums(f, S)[S \ {Pick(S)}]
    <3>1. S \in (SUBSET S) \ {{}}
      BY <2>3
    <3> QED BY <3>1, SumsStep
  <2> QED BY <2>1, <2>2, <2>3
<1>2. ASSUME S # {} PROVE Sums(f, S)[S \ {Pick(S)}] = Sum(f, S \ {Pick(S)})
  <2>1. PICK T : T = S \ {Pick(S)}
    OBVIOUS
  <2>2. IsFiniteSet(T) /\ T \subseteq S
    BY <2>1, FS_Subset
  <2>3. Sums(f, S)[T] = Sums(f, T)[T]
    BY <2>2, SumsAgree
  <2> QED BY <2>1, <2>3, SumUnfolds
<1> QED BY <1>1, <1>2

\* Sums of integers are integers.
LEMMA SumInt ==
  ASSUME NEW f, NEW S, IsFiniteSet(S), \A x \in S : f[x] \in Int
  PROVE  Sum(f, S) \in Int
<1> SUFFICES ASSUME Sum(f, S) \notin Int PROVE FALSE
  OBVIOUS
<1>1. PICK bad : bad = {u \in SUBSET S : Sum(f, u) \notin Int}
  OBVIOUS
<1>2. PICK u \in bad : \A v \in bad : v \subseteq u => v = u
  <2>1. bad # {} /\ bad \in SUBSET (SUBSET S)
    BY <1>1
  <2> QED BY <2>1, MinimalMember
<1>3. IsFiniteSet(u) /\ u \subseteq S /\ Sum(f, u) \notin Int
  BY <1>1, FS_Subset
<1>4. u # {} /\ Sum(f, u) = f[Pick(u)] + Sum(f, u \ {Pick(u)})
  <2>1. u = {} => Sum(f, u) = 0
    BY <1>3, SumPick
  <2>2. u # {}
    BY <1>3, <2>1
  <2> QED BY <1>3, <2>2, SumPick
<1>5. Pick(u) \in u /\ f[Pick(u)] \in Int
  BY <1>3, <1>4, PickIs
<1>6. u \ {Pick(u)} \notin bad /\ u \ {Pick(u)} \in SUBSET S
  BY <1>2, <1>3, <1>5
<1>7. Sum(f, u \ {Pick(u)}) \in Int
  BY <1>1, <1>6
<1> QED BY <1>3, <1>4, <1>5, <1>7

\* Any element can be taken out first.
LEMMA SumTake ==
  ASSUME NEW f, NEW S, IsFiniteSet(S), \A y \in S : f[y] \in Int, NEW x \in S
  PROVE  Sum(f, S) = f[x] + Sum(f, S \ {x})
<1> SUFFICES ASSUME Sum(f, S) # f[x] + Sum(f, S \ {x}) PROVE FALSE
  OBVIOUS
<1>1. PICK bad : bad = {u \in SUBSET S : \E y \in u : Sum(f, u) # f[y] + Sum(f, u \ {y})}
  OBVIOUS
<1>2. PICK u \in bad : \A v \in bad : v \subseteq u => v = u
  <2>1. bad # {} /\ bad \in SUBSET (SUBSET S)
    BY <1>1
  <2> QED BY <2>1, MinimalMember
<1>3. PICK y \in u : Sum(f, u) # f[y] + Sum(f, u \ {y})
  BY <1>1
<1>4. IsFiniteSet(u) /\ u \subseteq S /\ u # {}
  BY <1>1, FS_Subset
<1>5. PICK p : p = Pick(u)
  OBVIOUS
<1>6. p \in u /\ p # y /\ Sum(f, u) = f[p] + Sum(f, u \ {p})
  BY <1>3, <1>4, <1>5, PickIs, SumPick
<1>7. u \ {p} \notin bad /\ u \ {y} \notin bad /\ u \ {p} \in SUBSET S /\ u \ {y} \in SUBSET S
  BY <1>2, <1>4, <1>6
<1>8. /\ y \in u \ {p} /\ p \in u \ {y} /\ (u \ {p}) \ {y} = u \ {p, y} /\ (u \ {y}) \ {p} = u \ {p, y}
      /\ IsFiniteSet(u \ {p, y})
  BY <1>3, <1>4, <1>6, FS_Subset
<1>9. /\ Sum(f, u \ {p}) = f[y] + Sum(f, u \ {p, y})
      /\ Sum(f, u \ {y}) = f[p] + Sum(f, u \ {p, y})
  BY <1>1, <1>7, <1>8
<1>10. f[p] \in Int /\ f[y] \in Int /\ Sum(f, u \ {p, y}) \in Int
  <2>1. f[p] \in Int /\ f[y] \in Int /\ \A z \in u \ {p, y} : f[z] \in Int
    BY <1>3, <1>4, <1>6
  <2> QED BY <1>8, <2>1, SumInt
<1>11. Sum(f, u) = f[y] + Sum(f, u \ {y})
  BY <1>6, <1>9, <1>10
<1> QED BY <1>3, <1>11

\* Sums over disjoint sets add up.
LEMMA SumUnion ==
  ASSUME NEW f, NEW A, NEW B, IsFiniteSet(A), IsFiniteSet(B), A \cap B = {}, \A x \in A \cup B : f[x] \in Int
  PROVE  Sum(f, A \cup B) = Sum(f, A) + Sum(f, B)
<1> SUFFICES ASSUME Sum(f, A \cup B) # Sum(f, A) + Sum(f, B) PROVE FALSE
  OBVIOUS
<1>1. PICK bad : bad = {u \in SUBSET B : Sum(f, A \cup u) # Sum(f, A) + Sum(f, u)}
  OBVIOUS
<1>2. PICK u \in bad : \A v \in bad : v \subseteq u => v = u
  <2>1. bad # {} /\ bad \in SUBSET (SUBSET B)
    BY <1>1
  <2> QED BY <2>1, MinimalMember
<1>3. u \subseteq B /\ IsFiniteSet(u) /\ IsFiniteSet(A \cup u) /\ Sum(f, A \cup u) # Sum(f, A) + Sum(f, u)
  BY <1>1, FS_Subset, FS_Union
<1>4. Sum(f, A) \in Int
  BY SumInt
<1>5. u # {}
  <2>1. Sum(f, {}) = 0
    BY FS_EmptySet, SumPick
  <2>2. A \cup {} = A
    OBVIOUS
  <2>3. Sum(f, A \cup {}) = Sum(f, A) + Sum(f, {})
    BY <1>4, <2>1, <2>2
  <2> QED BY <1>3, <2>3
<1>6. PICK x : x \in u
  BY <1>5
<1>7. u \ {x} \notin bad /\ u \ {x} \in SUBSET B
  BY <1>2, <1>3, <1>6
<1>8. Sum(f, A \cup (u \ {x})) = Sum(f, A) + Sum(f, u \ {x})
  BY <1>1, <1>7
<1>9. Sum(f, u) = f[x] + Sum(f, u \ {x})
  BY <1>3, <1>6, SumTake
<1>10. Sum(f, A \cup u) = f[x] + Sum(f, A \cup (u \ {x}))
  <2>1. x \in A \cup u /\ (A \cup u) \ {x} = A \cup (u \ {x}) /\ \A y \in A \cup u : f[y] \in Int
    BY <1>3, <1>6
  <2> QED BY <1>3, <2>1, SumTake
<1>11. f[x] \in Int /\ Sum(f, u \ {x}) \in Int
  <2>1. IsFiniteSet(u \ {x}) /\ \A y \in u \ {x} : f[y] \in Int
    BY <1>3, FS_Subset
  <2> QED BY <1>3, <1>6, <2>1, SumInt
<1> QED BY <1>3, <1>4, <1>8, <1>9, <1>10, <1>11

\* A sum over other names of the same things.
LEMMA SumImage ==
  ASSUME NEW f, NEW g, NEW A, IsFiniteSet(A), NEW h, \A x, y \in A : h[x] = h[y] => x = y,
         \A x \in A : f[x] = g[h[x]] /\ f[x] \in Int
  PROVE  IsFiniteSet({h[x] : x \in A}) /\ Sum(f, A) = Sum(g, {h[x] : x \in A})
<1>1. \A u \in SUBSET A : IsFiniteSet(u) /\ IsFiniteSet({h[x] : x \in u})
  <2> TAKE u \in SUBSET A
  <2>1. PICK k : k = [x \in u |-> h[x]]
    OBVIOUS
  <2>2. k \in Surjection(u, {h[x] : x \in u})
    BY <2>1 DEF Surjection
  <2> QED BY <2>2, FS_Surjection, FS_Subset
<1> SUFFICES ASSUME Sum(f, A) # Sum(g, {h[x] : x \in A}) PROVE FALSE
  BY <1>1
<1>2. PICK bad : bad = {u \in SUBSET A : Sum(f, u) # Sum(g, {h[x] : x \in u})}
  OBVIOUS
<1>3. PICK u \in bad : \A v \in bad : v \subseteq u => v = u
  <2>1. bad # {} /\ bad \in SUBSET (SUBSET A)
    BY <1>2
  <2> QED BY <2>1, MinimalMember
<1>4. u \subseteq A /\ IsFiniteSet(u) /\ Sum(f, u) # Sum(g, {h[x] : x \in u})
  BY <1>1, <1>2
<1>5. u # {}
  <2>1. ASSUME u = {} PROVE {h[x] : x \in u} = {}
    BY <2>1
  <2>2. Sum(f, {}) = 0 /\ Sum(g, {}) = 0
    BY FS_EmptySet, SumPick
  <2> QED BY <1>4, <2>1, <2>2
<1>6. PICK x : x \in u
  BY <1>5
<1>7. PICK v : v = u \ {x}
  OBVIOUS
<1>8. v \notin bad /\ v \in SUBSET A
  BY <1>3, <1>4, <1>6, <1>7
<1>9. Sum(f, v) = Sum(g, {h[y] : y \in v})
  BY <1>2, <1>8
<1>10. PICK T, R : T = {h[y] : y \in u} /\ R = {h[y] : y \in v}
  OBVIOUS
<1>11. h[x] \in T /\ T \ {h[x]} = R
  BY <1>4, <1>6, <1>7, <1>10
<1>12. IsFiniteSet(T) /\ \A z \in T : g[z] \in Int
  BY <1>1, <1>4, <1>10
<1>13. Sum(g, T) = g[h[x]] + Sum(g, R)
  BY <1>11, <1>12, SumTake
<1>14. Sum(f, u) = f[x] + Sum(f, v)
  BY <1>4, <1>6, <1>7, SumTake
<1>15. f[x] = g[h[x]]
  BY <1>4, <1>6
<1> QED BY <1>4, <1>9, <1>10, <1>13, <1>14, <1>15

\* The sum of what two sums add.
LEMMA SumPlus ==
  ASSUME NEW f, NEW g, NEW h, NEW A, IsFiniteSet(A),
         \A x \in A : f[x] \in Int /\ g[x] \in Int /\ h[x] = f[x] + g[x]
  PROVE  Sum(h, A) = Sum(f, A) + Sum(g, A)
<1> SUFFICES ASSUME Sum(h, A) # Sum(f, A) + Sum(g, A) PROVE FALSE
  OBVIOUS
<1>1. PICK bad : bad = {u \in SUBSET A : Sum(h, u) # Sum(f, u) + Sum(g, u)}
  OBVIOUS
<1>2. PICK u \in bad : \A v \in bad : v \subseteq u => v = u
  <2>1. bad # {} /\ bad \in SUBSET (SUBSET A)
    BY <1>1
  <2> QED BY <2>1, MinimalMember
<1>3. u \subseteq A /\ IsFiniteSet(u) /\ Sum(h, u) # Sum(f, u) + Sum(g, u)
  BY <1>1, FS_Subset
<1>4. u # {}
  <2>1. Sum(f, {}) = 0 /\ Sum(g, {}) = 0 /\ Sum(h, {}) = 0
    BY FS_EmptySet, SumPick
  <2> QED BY <1>3, <2>1
<1>5. PICK x : x \in u
  BY <1>4
<1>6. u \ {x} \notin bad /\ u \ {x} \in SUBSET A
  BY <1>2, <1>3, <1>5
<1>7. Sum(h, u \ {x}) = Sum(f, u \ {x}) + Sum(g, u \ {x})
  BY <1>1, <1>6
<1>8. \A y \in u : f[y] \in Int /\ g[y] \in Int /\ h[y] \in Int
  BY <1>3
<1>9. /\ Sum(f, u) = f[x] + Sum(f, u \ {x})
      /\ Sum(g, u) = g[x] + Sum(g, u \ {x})
      /\ Sum(h, u) = h[x] + Sum(h, u \ {x})
  BY <1>3, <1>5, <1>8, SumTake
<1>10. IsFiniteSet(u \ {x})
  BY <1>3, FS_Subset
<1>11. Sum(f, u \ {x}) \in Int /\ Sum(g, u \ {x}) \in Int
  BY <1>8, <1>10, SumInt
<1>12. f[x] \in Int /\ g[x] \in Int /\ h[x] = f[x] + g[x]
  BY <1>3, <1>5
<1> QED BY <1>3, <1>7, <1>9, <1>11, <1>12

-----------------------------------------------------------------------------
(***************************************************************************)
(* The replay, step by step.                                               *)
(***************************************************************************)
BookSteps == {"mark", "expire", "weigh", "buy", "stop", "close"}

IsBook(b) ==
  /\ b = [by |-> b.by, done |-> b.done, step |-> b.step, budget |-> b.budget, weights |-> b.weights,
          cash |-> b.cash, realized |-> b.realized, next |-> b.next, lots |-> b.lots,
          trades |-> b.trades, positions |-> b.positions, equity |-> b.equity]
  /\ b.step \in BookSteps

\* A book between two trade dates, or on the next one.
Frame(in, b) ==
  /\ IsBook(b) /\ b.done \in {0} \cup TradeDates(in)
  /\ b.step # "mark" => \E d \in Days : IsNext(in, d, b)

\* The trade dates that are past the steps S.
Past(in, b, S) == {d \in TradeDates(in) : d <= b.done \/ (b.step \in S /\ IsNext(in, d, b))}
Expiring == {"weigh", "buy", "stop", "close"}
Buying == {"stop", "close"}
Stopping == {"close"}

\* Trade dates are days, and days are positive numbers.
LEMMA DatesAre == ASSUME NEW in PROVE TradeDates(in) \subseteq Days /\ \A d \in Days : d \in Nat /\ d >= 1
BY PaperAssumption DEF TradeDates, Days

\* What each step writes.
LEMMA MarkAtOpenIs ==
  ASSUME NEW in, NEW d, NEW b, IsBook(b), NEW c, c = MarkAtOpen(in, d, b),
         NEW mark, mark = Mark(in, b.lots, b.cash, b.realized, d, "open_8am_ct", "open")
  PROVE  /\ IsBook(c) /\ c.step = "expire" /\ c.done = b.done /\ c.by = b.by
         /\ c.cash = b.cash /\ c.realized = b.realized /\ c.next = b.next
         /\ c.lots = b.lots /\ c.trades = b.trades /\ c.positions = b.positions
         /\ c.equity = b.equity \cup {mark} /\ c.budget = Max({0, mark.equity \div Holding})
<1>1. c = [b EXCEPT !.step = "expire", !.equity = b.equity \cup {mark},
                    !.budget = Max({0, mark.equity \div Holding})]
  BY DEF MarkAtOpen
<1>2. PICK x : x = Max({0, mark.equity \div Holding})
  OBVIOUS
<1> QED BY <1>1, <1>2 DEF IsBook, BookSteps

\* The rows of some lots that are closed.
ClosesFor(leaving, d, side, prices) ==
  {CloseRow(lot, d, side, prices[lot]) : lot \in leaving}

\* What step 2 writes: the lots due leave at the open.
LEMMA ExpireIs ==
  ASSUME NEW in, NEW d, NEW b, IsBook(b), NEW c, c = Expire(in, d, b)
  PROVE  \E prices, closes :
           /\ prices = [lot \in Expired(in, b.lots, d) |-> Price(in, lot, d, "open")]
           /\ closes = ClosesFor(Expired(in, b.lots, d), d, "long_close", prices)
           /\ IsBook(c) /\ c.step = "weigh" /\ c.done = b.done /\ c.by = b.by
           /\ c.budget = b.budget /\ c.weights = b.weights /\ c.next = b.next
           /\ c.cash = b.cash + Proceeds(closes) /\ c.realized = b.realized + Profits(closes)
           /\ c.lots = b.lots \ Expired(in, b.lots, d) /\ c.trades = b.trades \cup closes
           /\ c.positions = b.positions /\ c.equity = b.equity
<1>1. PICK leaving : leaving = Expired(in, b.lots, d)
  OBVIOUS
<1>2. PICK prices : prices = [lot \in leaving |-> Price(in, lot, d, "open")]
  OBVIOUS
<1>3. PICK closes : closes = ClosesFor(leaving, d, "long_close", prices)
  OBVIOUS
<1>4. closes = {CloseRow(lot, d, "long_close", Price(in, lot, d, "open")) : lot \in leaving}
  BY <1>2, <1>3 DEF ClosesFor
<1>5. PICK k : k = Closing(b, closes, leaving)
  OBVIOUS
<1>5a. c = [k EXCEPT !.step = "weigh"]
  BY <1>1, <1>4, <1>5, Zenon DEF Expire
<1>6. /\ IsBook(c) /\ c.step = "weigh" /\ c.done = b.done /\ c.by = b.by
      /\ c.budget = b.budget /\ c.weights = b.weights /\ c.next = b.next
      /\ c.cash = b.cash + Proceeds(closes) /\ c.realized = b.realized + Profits(closes)
      /\ c.lots = b.lots \ leaving /\ c.trades = b.trades \cup closes
      /\ c.positions = b.positions /\ c.equity = b.equity
  <2>1. /\ IsBook(k) /\ k.step = b.step /\ k.done = b.done /\ k.by = b.by
        /\ k.budget = b.budget /\ k.weights = b.weights /\ k.next = b.next
        /\ k.cash = b.cash + Proceeds(closes) /\ k.realized = b.realized + Profits(closes)
        /\ k.lots = b.lots \ leaving /\ k.trades = b.trades \cup closes
        /\ k.positions = b.positions /\ k.equity = b.equity
    BY <1>5 DEF IsBook, Closing
  <2> QED BY <1>5a, <2>1 DEF IsBook, BookSteps
<1> QED BY <1>1, <1>2, <1>3, <1>6, Zenon

\* What the first half of step 3 writes: the weights of the picks.
LEMMA WeighIs ==
  ASSUME NEW in, NEW d, NEW b, IsBook(b), NEW c, c = Weigh(in, d, b)
  PROVE  /\ IsBook(c) /\ c.step = "buy" /\ c.done = b.done /\ c.by = b.by
         /\ c.budget = b.budget /\ c.cash = b.cash /\ c.realized = b.realized /\ c.next = b.next
         /\ c.lots = b.lots /\ c.trades = b.trades /\ c.positions = b.positions /\ c.equity = b.equity
         /\ c.weights = [s \in TopLongs(in, d) |-> RawWeight(in, s, d)]
<1>1. PICK weights : weights = [s \in TopLongs(in, d) |-> RawWeight(in, s, d)]
  OBVIOUS
<1>2. c = [b EXCEPT !.step = "buy", !.weights = weights]
  BY <1>1 DEF Weigh
<1> QED BY <1>1, <1>2 DEF IsBook, BookSteps

\* What the second half of step 3 writes: the slice.
LEMMA BuyIs ==
  ASSUME NEW in, NEW d, NEW b, IsBook(b), NEW c, c = Buy(in, d, b)
  PROVE  /\ IsBook(c) /\ c.step = "stop" /\ c.done = b.done /\ c.by = b.by
         /\ c.budget = b.budget /\ c.weights = NoBook.weights /\ c.realized = b.realized
         /\ c.next = IF b.budget > 0 THEN b.next + 1 ELSE b.next
         /\ c.cash = b.cash - Basis(Slice(in, d, b)) /\ c.lots = b.lots \cup Slice(in, d, b)
         /\ c.trades = b.trades \cup {OpenRow(lot) : lot \in Slice(in, d, b)}
         /\ c.positions = b.positions /\ c.equity = b.equity
<1>1. PICK slice, none, more, rows :
        /\ slice = Slice(in, d, b) /\ none = NoBook.weights
        /\ more = IF b.budget > 0 THEN b.next + 1 ELSE b.next
        /\ rows = {OpenRow(lot) : lot \in slice}
  OBVIOUS
<1>2. c = [b EXCEPT !.step = "stop", !.weights = none, !.next = more, !.cash = b.cash - Basis(slice),
                    !.lots = b.lots \cup slice, !.trades = b.trades \cup rows]
  BY <1>1, Zenon DEF Buy
<1>3. /\ IsBook(c) /\ c.step = "stop" /\ c.done = b.done /\ c.by = b.by
      /\ c.budget = b.budget /\ c.weights = none /\ c.realized = b.realized /\ c.next = more
      /\ c.cash = b.cash - Basis(slice) /\ c.lots = b.lots \cup slice /\ c.trades = b.trades \cup rows
      /\ c.positions = b.positions /\ c.equity = b.equity
  <2>1. PICK cash, lots, trades :
          cash = b.cash - Basis(slice) /\ lots = b.lots \cup slice /\ trades = b.trades \cup rows
    OBVIOUS
  <2>2. c = [by |-> b.by, done |-> b.done, step |-> "stop", budget |-> b.budget, weights |-> none,
             cash |-> cash, realized |-> b.realized, next |-> more, lots |-> lots,
             trades |-> trades, positions |-> b.positions, equity |-> b.equity]
    <3>1. PICK k : k = [b EXCEPT !.step = "stop", !.weights = none, !.next = more]
      OBVIOUS
    <3>2. k = [by |-> b.by, done |-> b.done, step |-> "stop", budget |-> b.budget, weights |-> none,
               cash |-> b.cash, realized |-> b.realized, next |-> more, lots |-> b.lots,
               trades |-> b.trades, positions |-> b.positions, equity |-> b.equity]
      BY <3>1 DEF IsBook
    <3>3. PICK m : m = [k EXCEPT !.cash = cash]
      OBVIOUS
    <3>4. m = [by |-> b.by, done |-> b.done, step |-> "stop", budget |-> b.budget, weights |-> none,
               cash |-> cash, realized |-> b.realized, next |-> more, lots |-> b.lots,
               trades |-> b.trades, positions |-> b.positions, equity |-> b.equity]
      BY <3>2, <3>3
    <3>5. c = [m EXCEPT !.lots = lots, !.trades = trades]
      BY <1>2, <2>1, <3>1, <3>3
    <3> QED BY <3>4, <3>5
  <2>3. IsBook(c)
    BY <2>2 DEF IsBook, BookSteps
  <2> QED BY <2>1, <2>2, <2>3
<1> QED BY <1>1, <1>3, Zenon

\* What steps 4 and 5 write: the stopped lots leave, the others are the positions.
LEMMA StopOutIs ==
  ASSUME NEW in, NEW d, NEW b, IsBook(b), NEW c, c = StopOut(in, d, b)
  PROVE  \E stopped, prices, closes :
           /\ stopped = StoppedOut(in, d, b.lots)
           /\ prices = [lot \in stopped |-> lot.stop]
           /\ closes = ClosesFor(stopped, d, "stop_close", prices)
           /\ IsBook(c) /\ c.step = "close" /\ c.done = b.done /\ c.by = b.by
           /\ c.budget = b.budget /\ c.weights = b.weights /\ c.next = b.next
           /\ c.cash = b.cash + Proceeds(closes) /\ c.realized = b.realized + Profits(closes)
           /\ c.lots = b.lots \ stopped /\ c.trades = b.trades \cup closes
           /\ c.positions = b.positions \cup {[day |-> d, held |-> lot] : lot \in b.lots \ stopped}
           /\ c.equity = b.equity
<1>1. PICK stopped : stopped = StoppedOut(in, d, b.lots)
  OBVIOUS
<1>2. PICK prices : prices = [lot \in stopped |-> lot.stop]
  OBVIOUS
<1>3. PICK closes : closes = ClosesFor(stopped, d, "stop_close", prices)
  OBVIOUS
<1>4. closes = {CloseRow(lot, d, "stop_close", lot.stop) : lot \in stopped}
  BY <1>2, <1>3 DEF ClosesFor
<1>5. PICK rows : rows = {[day |-> d, held |-> lot] : lot \in b.lots \ stopped}
  OBVIOUS
<1>6. PICK k : k = Closing(b, closes, stopped)
  OBVIOUS
<1>7. /\ IsBook(k) /\ k.step = b.step /\ k.done = b.done /\ k.by = b.by
      /\ k.budget = b.budget /\ k.weights = b.weights /\ k.next = b.next
      /\ k.cash = b.cash + Proceeds(closes) /\ k.realized = b.realized + Profits(closes)
      /\ k.lots = b.lots \ stopped /\ k.trades = b.trades \cup closes
      /\ k.positions = b.positions /\ k.equity = b.equity
  BY <1>6 DEF IsBook, Closing
<1>8. c = [k EXCEPT !.step = "close", !.positions = k.positions \cup rows]
  BY <1>1, <1>4, <1>5, <1>6, Zenon DEF StopOut, Snapshot
<1>9. /\ IsBook(c) /\ c.step = "close" /\ c.done = b.done /\ c.by = b.by
      /\ c.budget = b.budget /\ c.weights = b.weights /\ c.next = b.next
      /\ c.cash = b.cash + Proceeds(closes) /\ c.realized = b.realized + Profits(closes)
      /\ c.lots = b.lots \ stopped /\ c.trades = b.trades \cup closes
      /\ c.positions = b.positions \cup rows /\ c.equity = b.equity
  <2>1. PICK positions : positions = k.positions \cup rows /\ positions = b.positions \cup rows
    BY <1>7
  <2>2. c = [by |-> k.by, done |-> k.done, step |-> "close", budget |-> k.budget, weights |-> k.weights,
             cash |-> k.cash, realized |-> k.realized, next |-> k.next, lots |-> k.lots,
             trades |-> k.trades, positions |-> positions, equity |-> k.equity]
    BY <1>7, <1>8, <2>1 DEF IsBook
  <2>3. IsBook(c)
    BY <2>2 DEF IsBook, BookSteps
  <2> QED BY <1>7, <2>1, <2>2, <2>3
<1> QED BY <1>1, <1>2, <1>3, <1>5, <1>9, Zenon

\* What steps 6 and 7 write: the interest and the closing mark.
LEMMA MarkAtCloseIs ==
  ASSUME NEW in, NEW d, NEW b, IsBook(b), NEW c, c = MarkAtClose(in, d, b)
  PROVE  /\ IsBook(c) /\ c.step = "mark" /\ c.done = d /\ c.by = b.by
         /\ c.budget = b.budget /\ c.weights = b.weights /\ c.next = b.next
         /\ c.cash = b.cash + Interest(b.cash) /\ c.realized = b.realized + Interest(b.cash)
         /\ c.lots = b.lots /\ c.trades = b.trades /\ c.positions = b.positions
         /\ c.equity = IF in.skip /\ d = Max(TradeDates(in)) THEN b.equity
                       ELSE b.equity \cup {Mark(in, b.lots, c.cash, c.realized, d, "close_5pm_ct", "close")}
<1>1. PICK cash, realized, rows :
        /\ cash = b.cash + Interest(b.cash) /\ realized = b.realized + Interest(b.cash)
        /\ rows = IF in.skip /\ d = Max(TradeDates(in)) THEN b.equity
                  ELSE b.equity \cup {Mark(in, b.lots, cash, realized, d, "close_5pm_ct", "close")}
  OBVIOUS
<1>2. c = [b EXCEPT !.step = "mark", !.done = d, !.cash = cash, !.realized = realized, !.equity = rows]
  BY <1>1 DEF MarkAtClose
<1>3. /\ IsBook(c) /\ c.step = "mark" /\ c.done = d /\ c.by = b.by
      /\ c.budget = b.budget /\ c.weights = b.weights /\ c.next = b.next
      /\ c.cash = cash /\ c.realized = realized
      /\ c.lots = b.lots /\ c.trades = b.trades /\ c.positions = b.positions /\ c.equity = rows
  BY <1>2 DEF IsBook, BookSteps
<1> QED BY <1>1, <1>3, Zenon

-----------------------------------------------------------------------------
(***************************************************************************)
(* What a replay keeps true of the book it writes.                         *)
(***************************************************************************)
SameLot(x, y) == x.lot = y.lot /\ x.symbol = y.symbol
OpensIn(rows) == {t \in rows : t.side = "long_open"}
ClosesIn(rows) == rows \ OpensIn(rows)
Positive == Nat \ {0}

\* The bars are quotes, the scores are numbers.
IsBar(k) == k.open \in Nat /\ k.high \in Nat /\ k.low \in Nat /\ k.close \in Nat
                /\ (k # NoBar => k.open > 0)
IsInput(in) ==
  /\ \A s \in Symbols, d \in Days : IsBar(in.bars[s][d]) /\ in.picks[d][s] \in Int
  /\ in.cash \in Int /\ in.from \in Days /\ in.skip \in BOOLEAN

IsLot(l) ==
  /\ l.lot \in Nat /\ l.symbol \in Symbols /\ l.qty \in Positive /\ l.entry \in Positive
  /\ l.stop \in Nat /\ l.day \in Days

IsRow(t) ==
  /\ t.lot \in Nat /\ t.qty \in Positive /\ t.price \in Positive /\ t.pnl \in Int
  /\ t.side \in {"long_open", "long_close", "stop_close"}

\* The lots and the rows of the trades: a lot has one opening row, and as long
\* as it is open no closing one; then it has one.
Ledger(lots, rows, next) ==
  /\ next \in Nat
  /\ IsFiniteSet(lots) /\ IsFiniteSet(rows)
  /\ \A l \in lots : IsLot(l) /\ OpenRow(l) \in rows
  /\ \A t \in rows : IsRow(t)
  /\ \A t \in OpensIn(rows) : t.lot < next
  /\ \A l, m \in lots : SameLot(l, m) => l = m
  /\ \A t, u \in OpensIn(rows) : SameLot(t, u) => t = u
  /\ \A c, e \in ClosesIn(rows) : SameLot(c, e) => c = e
  /\ \A c \in ClosesIn(rows) : \E t \in OpensIn(rows) : SameLot(c, t) /\ c.qty = t.qty
  /\ \A c \in ClosesIn(rows), l \in lots : ~ SameLot(c, l)
  /\ \A t \in OpensIn(rows) : \/ \E l \in lots : SameLot(l, t)
                              \/ \E c \in ClosesIn(rows) : SameLot(c, t)

\* When the rows were written.
Dated(in, b) ==
  /\ \A t \in OpensIn(b.trades) : t.day \in Past(in, b, Buying)
  /\ \A c \in ClosesIn(b.trades) : c.day \in Past(in, b, Expiring)
  /\ \A c \in ClosesIn(b.trades), t \in OpensIn(b.trades) : SameLot(c, t) =>
        /\ t.day <= c.day
        /\ c.side = "long_close" => Index(in, c.day) - Index(in, t.day) >= Holding
        /\ \A e \in TradeDates(in) : e < c.day => Index(in, e) - Index(in, t.day) < Holding
  /\ \A l \in b.lots, e \in Past(in, b, Expiring) : Index(in, e) - Index(in, l.day) < Holding

\* The rows of the positions.
Held(in, b) ==
  /\ \A p \in b.positions :
        /\ p.day \in Past(in, b, Stopping) /\ OpenRow(p.held) \in b.trades /\ p.held.day <= p.day
        /\ \A c \in ClosesIn(b.trades) : SameLot(c, p.held) => c.day > p.day
  /\ \A t \in OpensIn(b.trades), d \in Past(in, b, Stopping) :
        t.day <= d /\ (\A c \in ClosesIn(b.trades) : SameLot(c, t) => c.day > d)
          => \E p \in b.positions : p.day = d /\ SameLot(p.held, t)
  /\ \A d \in TradeDates(in) :
        (b.step = "mark" /\ d = b.done) \/ (b.step = "close" /\ IsNext(in, d, b))
          => {p.held : p \in {q \in b.positions : q.day = d}} = b.lots

\* The money: what is not in the lots is in the cash, and nothing but interest
\* comes between the trades and the realized profit.
Money(in, b) ==
  /\ b.cash \in Int /\ b.realized \in Int /\ b.budget \in Nat
  /\ b.cash + Basis(b.lots) = in.cash + b.realized
  /\ b.step = "buy" => \A s \in DOMAIN b.weights : b.weights[s] \in Int
  /\ b.step = "buy" => DOMAIN b.weights \in SUBSET Symbols
  /\ \A e \in b.equity :
        /\ e.day \in TradeDates(in) /\ e.equity \in Int /\ e.cash \in Int
        /\ e.equity = in.cash + e.realized + e.unrealized
        /\ e.kind = "close_5pm_ct" => /\ e.day <= b.done
                                      /\ ~ (in.skip /\ e.day = Max(TradeDates(in)))
                                      /\ b.step = "mark" /\ e.day = b.done => e.cash = b.cash
  /\ \/ \E e \in b.equity : e.cash < 0
     \/ in.skip /\ b.done \in TradeDates(in) /\ b.done = Max(TradeDates(in))
     \/ b.realized = Profits(ClosesIn(b.trades))

BookInv(in, b) ==
  /\ Frame(in, b) /\ Ledger(b.lots, b.trades, b.next) /\ Dated(in, b) /\ Held(in, b) /\ Money(in, b)


\* The constants one by one.
LEMMA ConstantsAre ==
  /\ NLong \in Nat /\ Holding \in Nat /\ Lookback \in Nat /\ AtrDays \in Nat /\ LastDay \in Nat
  /\ NLong > 0 /\ Holding > 0 /\ Lookback > 0 /\ AtrDays > 0 /\ LastDay > 0
  /\ Cash \in Nat /\ RebuildCash \in Nat /\ MaxUpsets \in Nat
<1>1. \A x \in {NLong, Holding, Lookback, AtrDays, LastDay} : x \in Nat /\ x # 0
  BY PaperAssumption
<1>2. \A x \in {Cash, RebuildCash, MaxUpsets} : x \in Nat
  BY PaperAssumption
<1> QED BY <1>1, <1>2

\* Trade dates are counted.
LEMMA IndexIs ==
  ASSUME NEW in, NEW d \in Days, NEW e \in Days, d <= e
  PROVE  /\ Index(in, d) \in Nat /\ Index(in, e) \in Nat /\ Index(in, d) <= Index(in, e)
         /\ Index(in, e) - Index(in, d) <= e - d
         /\ (\A x \in d..e : x \in TradeDates(in)) => Index(in, e) - Index(in, d) = e - d
<1>1. PICK A : A = {x \in TradeDates(in) : x < d}
  OBVIOUS
<1>2. PICK B : B = {x \in TradeDates(in) : d <= x /\ x < e}
  OBVIOUS
<1>3. TradeDates(in) \subseteq Days /\ IsFiniteSet(Days) /\ LastDay \in Nat
  <2>1. LastDay \in Nat /\ 1 \in Int
    BY ConstantsAre
  <2>2. IsFiniteSet(1..LastDay)
    BY <2>1, FS_Interval
  <2> QED BY <2>1, <2>2, DatesAre DEF Days
<1>4. IsFiniteSet(A) /\ IsFiniteSet(B) /\ A \cap B = {}
  BY <1>1, <1>2, <1>3, FS_Subset DEF Days
<1>5. {x \in TradeDates(in) : x < e} = A \cup B
  BY <1>1, <1>2, <1>3 DEF Days
<1>6. Cardinality(A \cup B) = Cardinality(A) + Cardinality(B)
  <2>1. Cardinality(A \cup B) = Cardinality(A) + Cardinality(B) - Cardinality(A \cap B)
    BY <1>4, FS_Union
  <2>2. Cardinality(A \cap B) = 0 /\ Cardinality(A) \in Nat /\ Cardinality(B) \in Nat
    BY <1>4, FS_EmptySet, FS_CardinalityType
  <2> QED BY <2>1, <2>2
<1>7. Cardinality(A) \in Nat /\ Cardinality(B) \in Nat
  BY <1>4, FS_CardinalityType
<1>8. Index(in, d) = Cardinality(A) /\ Index(in, e) = Cardinality(A) + Cardinality(B)
  BY <1>1, <1>5, <1>6 DEF Index
<1>9. PICK I : I = d..(e - 1)
  OBVIOUS
<1>10. d \in Int /\ e \in Int /\ IsFiniteSet(I) /\ Cardinality(I) = e - d
  <2>1. d \in Int /\ e \in Int /\ e - 1 \in Int
    BY <1>3 DEF Days
  <2>2. Cardinality(I) = IF d <= e - 1 THEN e - 1 - d + 1 ELSE 0
    BY <1>9, <2>1, FS_Interval
  <2>3. IsFiniteSet(I)
    BY <1>9, <2>1, FS_Interval
  <2> QED BY <2>1, <2>2, <2>3
<1>11. B \subseteq I
  BY <1>2, <1>3, <1>9 DEF Days
<1>12. Cardinality(B) <= e - d
  BY <1>10, <1>11, FS_Subset
<1>13. ASSUME \A x \in d..e : x \in TradeDates(in) PROVE Cardinality(B) = e - d
  <2>1. I \subseteq B
    BY <1>2, <1>9, <1>10, <1>13
  <2> QED BY <1>10, <1>11, <2>1
<1> QED BY <1>7, <1>8, <1>10, <1>12, <1>13

\* The index of a day is a number.
LEMMA IndexNat == ASSUME NEW in, NEW d \in Days PROVE Index(in, d) \in Nat
<1>1. d <= d
  BY DatesAre
<1> QED BY <1>1, IndexIs

\* The dates around the next one.
LEMMA NextIs ==
  ASSUME NEW in, NEW b, Frame(in, b), NEW d, IsNext(in, d, b)
  PROVE  /\ d \in TradeDates(in) /\ d \in Days /\ d \in Nat /\ d > b.done /\ b.done \in Nat
         /\ \A e \in TradeDates(in) : e \in Nat /\ (e <= b.done <=> e < d)
         /\ \A e \in TradeDates(in) : IsNext(in, e, b) <=> e = d
<1>1. TradeDates(in) \subseteq Days /\ \A e \in Days : e \in Nat
  BY DatesAre
<1>2. b.done \in Nat
  BY <1>1 DEF Frame
<1>3. d \in TradeDates(in) /\ d > b.done /\ \A e \in TradeDates(in) : e > b.done => d <= e
  BY DEF IsNext
<1>4. d \in Nat /\ \A e \in TradeDates(in) : e \in Nat
  BY <1>1, <1>3
<1>5. \A e \in TradeDates(in) : e <= b.done <=> e < d
  BY <1>2, <1>3, <1>4
<1>6. ASSUME NEW e \in TradeDates(in) PROVE IsNext(in, e, b) <=> e = d
  <2>1. ASSUME IsNext(in, e, b) PROVE e = d
    <3>1. e > b.done /\ \A x \in TradeDates(in) : x > b.done => e <= x
      BY <2>1 DEF IsNext
    <3> QED BY <1>3, <1>4, <3>1
  <2> QED BY <2>1
<1> QED BY <1>1, <1>2, <1>3, <1>4, <1>5, <1>6

\* The trade dates whose steps S are behind: those before the next one, and that one when the step says so.
LEMMA PastIs ==
  ASSUME NEW in, NEW b, Frame(in, b), NEW d, IsNext(in, d, b), NEW S
  PROVE  Past(in, b, S) = {e \in TradeDates(in) : e < d \/ (e = d /\ b.step \in S)}
BY NextIs DEF Past

\* The day is done.
LEMMA PastOfDone ==
  ASSUME NEW in, NEW c, NEW S, c.step \notin S
  PROVE  Past(in, c, S) = {e \in TradeDates(in) : e <= c.done}
BY DEF Past

\* Steps of a day, and its end.
LEMMA FrameStays ==
  ASSUME NEW in, NEW b, Frame(in, b), NEW d, IsNext(in, d, b), NEW c, IsBook(c), c.done = b.done
  PROVE  Frame(in, c) /\ IsNext(in, d, c)
<1>1. IsNext(in, d, c)
  BY DEF IsNext
<1>2. d \in Days
  BY NextIs
<1> QED BY <1>1, <1>2 DEF Frame

\* The last step of a day makes that day the one done, and leaves what is past past.
LEMMA FrameEnds ==
  ASSUME NEW in, NEW b, Frame(in, b), NEW d, IsNext(in, d, b), b.step = "close",
         NEW c, IsBook(c), c.done = d, c.step = "mark"
  PROVE  /\ Frame(in, c)
         /\ \A S \in {Expiring, Buying, Stopping} : Past(in, c, S) = Past(in, b, S)
<1>1. d \in TradeDates(in) /\ d \in Nat /\ \A e \in TradeDates(in) : e \in Nat
  BY NextIs
<1>2. Frame(in, c)
  BY <1>1 DEF Frame
<1>3. ASSUME NEW S \in {Expiring, Buying, Stopping} PROVE Past(in, c, S) = Past(in, b, S)
  <2>1. b.step \in S /\ c.step \notin S
    BY DEF Expiring, Buying, Stopping
  <2>2. Past(in, b, S) = {e \in TradeDates(in) : e < d \/ e = d}
    BY <2>1, PastIs
  <2>3. Past(in, c, S) = {e \in TradeDates(in) : e <= d}
    BY <2>1, PastOfDone
  <2>4. \A e \in TradeDates(in) : (e < d \/ e = d) <=> e <= d
    BY <1>1
  <2>5. \A e : e \in Past(in, b, S) <=> e \in TradeDates(in) /\ e <= d
    BY <2>2, <2>4
  <2> QED BY <2>3, <2>5
<1> QED BY <1>2, <1>3

\* The closing rows of some lots.
LEMMA ClosesAre ==
  ASSUME NEW lots, NEW leaving, NEW d, NEW side, NEW prices, NEW closes,
         leaving \subseteq lots, \A l \in lots : IsLot(l), IsFiniteSet(lots),
         \A l, m \in lots : SameLot(l, m) => l = m,
         side \in {"long_close", "stop_close"}, \A l \in leaving : prices[l] \in Positive,
         closes = ClosesFor(leaving, d, side, prices)
  PROVE  /\ \A c \in closes : /\ \E l \in leaving : SameLot(c, l) /\ c.qty = l.qty
                              /\ c.side = side /\ c.day = d /\ IsRow(c)
         /\ \A l \in leaving : \E c \in closes : SameLot(c, l)
         /\ \A c, e \in closes : SameLot(c, e) => c = e
         /\ IsFiniteSet(closes)
<1>1. PICK row : row = [l \in leaving |-> CloseRow(l, d, side, prices[l])]
  OBVIOUS
<1>2. closes = {row[l] : l \in leaving}
  BY <1>1 DEF ClosesFor
<1>3. ASSUME NEW l \in leaving
      PROVE  /\ row[l].lot = l.lot /\ row[l].symbol = l.symbol /\ row[l].qty = l.qty
             /\ row[l].side = side /\ row[l].day = d /\ row[l].price = prices[l]
             /\ row[l].pnl = l.qty * (prices[l] - l.entry) - (l.qty * prices[l]) \div 100
  BY <1>1 DEF CloseRow, CloseCost
<1>4. ASSUME NEW l \in leaving PROVE IsRow(row[l])
  <2>1. l.qty \in Int /\ l.entry \in Int /\ prices[l] \in Int /\ IsLot(l) /\ prices[l] \in Positive
    BY DEF IsLot, Positive
  <2>2. l.qty * (prices[l] - l.entry) \in Int /\ l.qty * prices[l] \in Int
    BY <2>1
  <2>3. (l.qty * prices[l]) \div 100 \in Int
    BY <2>2
  <2>4. row[l].pnl \in Int
    BY <1>3, <2>2, <2>3
  <2> QED BY <1>3, <2>1, <2>4 DEF IsRow, IsLot
<1>5. IsFiniteSet(closes)
  <2>1. row \in Surjection(leaving, closes)
    BY <1>1, <1>2 DEF Surjection
  <2> QED BY <2>1, FS_Surjection, FS_Subset
<1>6. ASSUME NEW l \in leaving, NEW m \in leaving, SameLot(row[l], row[m]) PROVE l = m
  BY <1>3, <1>6 DEF SameLot
<1>7. \A c \in closes : \E l \in leaving : c = row[l]
  BY <1>2
<1>8. \A l \in leaving : row[l] \in closes /\ SameLot(row[l], l)
  BY <1>2, <1>3 DEF SameLot
<1> QED BY <1>3, <1>4, <1>5, <1>6, <1>7, <1>8

\* What closing lots, or buying a slice, leaves of a ledger.
AfterCloses(lots, rows, next, leaving, closes) ==
  /\ Ledger(lots \ leaving, rows \cup closes, next)
  /\ OpensIn(rows \cup closes) = OpensIn(rows)
  /\ ClosesIn(rows \cup closes) = ClosesIn(rows) \cup closes
  /\ ClosesIn(rows) \cap closes = {}

AfterBuys(lots, rows, slice, opens, next) ==
  /\ Ledger(lots \cup slice, rows \cup opens, next)
  /\ OpensIn(rows \cup opens) = OpensIn(rows) \cup opens
  /\ ClosesIn(rows \cup opens) = ClosesIn(rows)
  /\ lots \cap slice = {}

\* Closing lots keeps the ledger.
LEMMA LedgerCloses ==
  ASSUME NEW lots, NEW rows, NEW next, NEW leaving, NEW d, NEW side, NEW prices, NEW closes,
         Ledger(lots, rows, next), leaving \subseteq lots,
         side \in {"long_close", "stop_close"}, \A l \in leaving : prices[l] \in Positive,
         closes = ClosesFor(leaving, d, side, prices)
  PROVE  AfterCloses(lots, rows, next, leaving, closes)
<1>1. /\ \A c \in closes : /\ \E l \in leaving : SameLot(c, l) /\ c.qty = l.qty
                           /\ c.side = side /\ c.day = d /\ IsRow(c)
      /\ \A l \in leaving : \E c \in closes : SameLot(c, l)
      /\ \A c, e \in closes : SameLot(c, e) => c = e
      /\ IsFiniteSet(closes)
  <2>1. (\A l \in lots : IsLot(l)) /\ IsFiniteSet(lots) /\ (\A l, m \in lots : SameLot(l, m) => l = m)
    BY DEF Ledger
  <2> QED BY <2>1, ClosesAre
<1>2. /\ OpensIn(rows \cup closes) = OpensIn(rows)
      /\ ClosesIn(rows \cup closes) = ClosesIn(rows) \cup closes
  BY <1>1 DEF OpensIn, ClosesIn
<1>3. ClosesIn(rows) \cap closes = {}
  BY <1>1 DEF Ledger, SameLot
<1>4. /\ IsFiniteSet(lots \ leaving) /\ IsFiniteSet(rows \cup closes)
  BY <1>1, FS_Union, FS_Subset DEF Ledger
<1>5. \A t \in rows \cup closes : IsRow(t)
  BY <1>1 DEF Ledger
<1>6. \A c, e \in ClosesIn(rows) \cup closes : SameLot(c, e) => c = e
  BY <1>1 DEF Ledger, SameLot
<1>7. \A c \in ClosesIn(rows) \cup closes : \E t \in OpensIn(rows) : SameLot(c, t) /\ c.qty = t.qty
  <2> SUFFICES ASSUME NEW c \in closes PROVE \E t \in OpensIn(rows) : SameLot(c, t) /\ c.qty = t.qty
    BY DEF Ledger
  <2>1. PICK l \in leaving : SameLot(c, l) /\ c.qty = l.qty
    BY <1>1
  <2>2. OpenRow(l) \in rows
    BY DEF Ledger
  <2>3. OpenRow(l).side = "long_open" /\ SameLot(c, OpenRow(l)) /\ OpenRow(l).qty = l.qty
    BY <2>1 DEF OpenRow, SameLot
  <2> QED BY <2>1, <2>2, <2>3 DEF OpensIn
<1>8. \A c \in ClosesIn(rows) \cup closes, l \in lots \ leaving : ~ SameLot(c, l)
  BY <1>1 DEF Ledger, SameLot
<1>9. \A t \in OpensIn(rows) : \/ \E l \in lots \ leaving : SameLot(l, t)
                               \/ \E c \in ClosesIn(rows) \cup closes : SameLot(c, t)
  BY <1>1 DEF Ledger, SameLot
<1>10. \A l \in lots \ leaving : IsLot(l) /\ OpenRow(l) \in rows \cup closes
  BY DEF Ledger
<1>11. Ledger(lots \ leaving, rows \cup closes, next)
  BY <1>2, <1>4, <1>5, <1>6, <1>7, <1>8, <1>9, <1>10 DEF Ledger
<1> QED BY <1>2, <1>3, <1>11 DEF AfterCloses

\* Buying a slice keeps the ledger.
LEMMA LedgerBuys ==
  ASSUME NEW lots, NEW rows, NEW next, NEW slice, NEW opens, NEW more,
         Ledger(lots, rows, next), IsFiniteSet(slice),
         \A l \in slice : IsLot(l) /\ l.lot = next,
         \A l, m \in slice : l.symbol = m.symbol => l = m,
         opens = {OpenRow(l) : l \in slice},
         more \in Nat, more >= next, slice # {} => more > next
  PROVE  AfterBuys(lots, rows, slice, opens, more)
<1>1. PICK row : row = [l \in slice |-> OpenRow(l)]
  OBVIOUS
<1>2. opens = {row[l] : l \in slice}
  BY <1>1
<1>3. ASSUME NEW l \in slice
      PROVE  /\ row[l].lot = l.lot /\ row[l].symbol = l.symbol /\ row[l].qty = l.qty
             /\ row[l].side = "long_open" /\ row[l].price = l.entry /\ row[l].pnl = 0
  BY <1>1 DEF OpenRow
<1>4. \A l \in slice : IsRow(row[l]) /\ SameLot(row[l], l) /\ row[l] \in opens
  BY <1>2, <1>3 DEF IsRow, IsLot, SameLot
<1>5. \A t \in opens : \E l \in slice : t = row[l]
  BY <1>2
<1>6. IsFiniteSet(opens)
  <2>1. row \in Surjection(slice, opens)
    BY <1>1, <1>2 DEF Surjection
  <2> QED BY <2>1, FS_Surjection
<1>7. \A t \in opens : IsRow(t) /\ t.side = "long_open" /\ t.lot = next
  <2> SUFFICES ASSUME NEW t \in opens PROVE IsRow(t) /\ t.side = "long_open" /\ t.lot = next
    OBVIOUS
  <2>1. PICK l \in slice : t = row[l]
    BY <1>5
  <2>2. IsRow(row[l]) /\ row[l].side = "long_open" /\ row[l].lot = l.lot /\ l.lot = next
    BY <1>3, <1>4
  <2> QED BY <2>1, <2>2
<1>8. /\ OpensIn(rows \cup opens) = OpensIn(rows) \cup opens
      /\ ClosesIn(rows \cup opens) = ClosesIn(rows)
  BY <1>7 DEF OpensIn, ClosesIn
<1>9. /\ next \in Nat /\ \A t \in OpensIn(rows) : t.lot < next /\ t.lot \in Nat
      /\ \A l \in lots : l.lot < next /\ l.lot \in Nat
      /\ \A c \in ClosesIn(rows) : c.lot < next /\ c.lot \in Nat
  <2>1. next \in Nat /\ \A t \in OpensIn(rows) : t.lot < next /\ t.lot \in Nat
    BY DEF Ledger, OpensIn, IsRow
  <2>2. ASSUME NEW l \in lots PROVE l.lot < next /\ l.lot \in Nat
    <3>1. OpenRow(l) \in OpensIn(rows) /\ OpenRow(l).lot = l.lot
      BY DEF Ledger, OpensIn, OpenRow
    <3> QED BY <2>1, <3>1
  <2>3. ASSUME NEW c \in ClosesIn(rows) PROVE c.lot < next /\ c.lot \in Nat
    BY <2>1 DEF Ledger, SameLot
  <2> QED BY <2>1, <2>2, <2>3
<1>10. lots \cap slice = {}
  BY <1>9
<1>11. IsFiniteSet(lots \cup slice) /\ IsFiniteSet(rows \cup opens)
  BY <1>6, FS_Union DEF Ledger
<1>12. \A l \in lots \cup slice : IsLot(l) /\ OpenRow(l) \in rows \cup opens
  <2>1. \A l \in slice : IsLot(l) /\ OpenRow(l) \in opens
    OBVIOUS
  <2> QED BY <2>1 DEF Ledger
<1>13. \A t \in rows \cup opens : IsRow(t)
  BY <1>7 DEF Ledger
<1>14. \A t \in OpensIn(rows) \cup opens : t.lot < more
  BY <1>5, <1>7, <1>9
<1>15. \A l, m \in lots \cup slice : SameLot(l, m) => l = m
  BY <1>9 DEF Ledger, SameLot
<1>16. \A t, u \in OpensIn(rows) \cup opens : SameLot(t, u) => t = u
  <2>1. ASSUME NEW t \in opens, NEW u \in opens, SameLot(t, u) PROVE t = u
    <3>1. PICK l \in slice, m \in slice : t = row[l] /\ u = row[m]
      BY <1>5
    <3>2. l.symbol = m.symbol
      BY <1>3, <2>1, <3>1 DEF SameLot
    <3> QED BY <3>1, <3>2
  <2> QED BY <1>7, <1>9, <2>1 DEF Ledger, SameLot
<1>17. \A c \in ClosesIn(rows) : \E t \in OpensIn(rows) \cup opens : SameLot(c, t) /\ c.qty = t.qty
  BY DEF Ledger
<1>18. \A c \in ClosesIn(rows), l \in lots \cup slice : ~ SameLot(c, l)
  BY <1>9 DEF Ledger, SameLot
<1>19. \A t \in OpensIn(rows) \cup opens : \/ \E l \in lots \cup slice : SameLot(l, t)
                                          \/ \E c \in ClosesIn(rows) : SameLot(c, t)
  <2>1. \A t \in opens : \E l \in slice : SameLot(l, t)
    BY <1>4, <1>5 DEF SameLot
  <2> QED BY <2>1 DEF Ledger
<1>20. \A c, e \in ClosesIn(rows) : SameLot(c, e) => c = e
  BY DEF Ledger
<1>21. Ledger(lots \cup slice, rows \cup opens, more)
  BY <1>8, <1>11, <1>12, <1>13, <1>14, <1>15, <1>16, <1>17, <1>18, <1>19, <1>20 DEF Ledger
<1> QED BY <1>8, <1>10, <1>21 DEF AfterBuys

\* An open lot has its opening row.
LEMMA RowOfLot ==
  ASSUME NEW lots, NEW rows, NEW next, Ledger(lots, rows, next), NEW l \in lots
  PROVE  /\ OpenRow(l) \in OpensIn(rows) /\ SameLot(OpenRow(l), l) /\ OpenRow(l).day = l.day
         /\ \A t \in OpensIn(rows) : SameLot(t, l) => t.day = l.day /\ t = OpenRow(l)
<1>1. OpenRow(l) \in OpensIn(rows) /\ SameLot(OpenRow(l), l) /\ OpenRow(l).day = l.day
  BY DEF Ledger, OpensIn, OpenRow, SameLot
<1>2. \A t, u \in OpensIn(rows) : SameLot(t, u) => t = u
  BY DEF Ledger
<1>3. ASSUME NEW t \in OpensIn(rows), SameLot(t, l) PROVE t = OpenRow(l)
  <2>1. SameLot(t, OpenRow(l))
    BY <1>1, <1>3 DEF SameLot
  <2> QED BY <1>1, <1>2, <2>1
<1> QED BY <1>1, <1>3

\* Closing lots at d keeps the dates in order.
LEMMA DatedCloses ==
  ASSUME NEW in, NEW b, NEW d, NEW c, Frame(in, b), IsNext(in, d, b), Dated(in, b),
         Ledger(b.lots, b.trades, b.next),
         OpensIn(c.trades) = OpensIn(b.trades),
         \A k \in ClosesIn(c.trades) :
            \/ k \in ClosesIn(b.trades)
            \/ k.day = d /\ \E l \in b.lots :
                  SameLot(k, l) /\ (k.side = "long_close" => Index(in, d) - Index(in, l.day) >= Holding),
         Past(in, c, Buying) = Past(in, b, Buying),
         Past(in, b, Expiring) \subseteq Past(in, c, Expiring), d \in Past(in, c, Expiring),
         \A l \in c.lots, e \in Past(in, c, Expiring) : Index(in, e) - Index(in, l.day) < Holding
  PROVE  Dated(in, c)
<1>1. d \in Nat /\ \A e \in TradeDates(in) : e < d => e \in Past(in, b, Expiring)
  BY PastIs, NextIs
<1>2. \A e \in Past(in, b, Buying) : e \in Nat /\ e <= d
  BY PastIs, NextIs
<1>3. \A t \in OpensIn(c.trades) : t.day \in Past(in, c, Buying)
  BY DEF Dated
<1>4. \A k \in ClosesIn(c.trades) : k.day \in Past(in, c, Expiring)
  BY DEF Dated
<1>5. ASSUME NEW k \in ClosesIn(c.trades), NEW t \in OpensIn(c.trades), SameLot(k, t)
      PROVE  /\ t.day <= k.day
             /\ k.side = "long_close" => Index(in, k.day) - Index(in, t.day) >= Holding
             /\ \A e \in TradeDates(in) : e < k.day => Index(in, e) - Index(in, t.day) < Holding
  <2>1. CASE k \in ClosesIn(b.trades)
    BY <1>5, <2>1 DEF Dated
  <2>2. CASE k \notin ClosesIn(b.trades)
    <3>1. PICK l \in b.lots :
            SameLot(k, l) /\ (k.side = "long_close" => Index(in, d) - Index(in, l.day) >= Holding)
      BY <2>2
    <3>2. SameLot(t, l)
      BY <1>5, <3>1 DEF SameLot
    <3>3. t.day = l.day
      BY <3>2, RowOfLot
    <3>4. t.day \in Past(in, b, Buying)
      BY DEF Dated
    <3>5. \A e \in Past(in, b, Expiring) : Index(in, e) - Index(in, t.day) < Holding
      BY <3>3 DEF Dated
    <3>6. k.day = d
      BY <2>2
    <3> QED BY <1>1, <1>2, <3>1, <3>3, <3>4, <3>5, <3>6
  <2> QED BY <2>1, <2>2
<1> QED BY <1>3, <1>4, <1>5 DEF Dated

\* Closing lots at the open of d takes none of the positions of earlier days.
LEMMA HeldExpires ==
  ASSUME NEW in, NEW b, NEW d, NEW c, Frame(in, b), IsNext(in, d, b), b.step = "expire", Held(in, b),
         c.step = "weigh", c.positions = b.positions, b.trades \subseteq c.trades,
         OpensIn(c.trades) = OpensIn(b.trades), ClosesIn(b.trades) \subseteq ClosesIn(c.trades),
         \A k \in ClosesIn(c.trades) : k \in ClosesIn(b.trades) \/ k.day = d,
         Past(in, c, Stopping) = Past(in, b, Stopping)
  PROVE  Held(in, c)
<1>1. d \in Nat /\ \A e \in Past(in, b, Stopping) : e \in Nat /\ e < d
  BY PastIs, NextIs DEF Stopping
<1>2. \A p \in c.positions :
        /\ p.day \in Past(in, c, Stopping) /\ OpenRow(p.held) \in c.trades /\ p.held.day <= p.day
        /\ \A k \in ClosesIn(c.trades) : SameLot(k, p.held) => k.day > p.day
  BY <1>1 DEF Held
<1>3. \A t \in OpensIn(c.trades), e \in Past(in, c, Stopping) :
        t.day <= e /\ (\A k \in ClosesIn(c.trades) : SameLot(k, t) => k.day > e)
          => \E p \in c.positions : p.day = e /\ SameLot(p.held, t)
  BY DEF Held
<1> QED BY <1>2, <1>3 DEF Held

\* Buying at the open of d.
LEMMA HeldBuys ==
  ASSUME NEW in, NEW b, NEW d, NEW c, Frame(in, b), IsNext(in, d, b), b.step = "buy", Held(in, b),
         c.step = "stop", c.positions = b.positions, b.trades \subseteq c.trades,
         \A t \in OpensIn(c.trades) : t \in OpensIn(b.trades) \/ t.day = d,
         ClosesIn(c.trades) = ClosesIn(b.trades),
         Past(in, c, Stopping) = Past(in, b, Stopping)
  PROVE  Held(in, c)
<1>1. d \in Nat /\ \A e \in Past(in, b, Stopping) : e \in Nat /\ e < d
  BY PastIs, NextIs DEF Stopping
<1>2. \A p \in c.positions :
        /\ p.day \in Past(in, c, Stopping) /\ OpenRow(p.held) \in c.trades /\ p.held.day <= p.day
        /\ \A k \in ClosesIn(c.trades) : SameLot(k, p.held) => k.day > p.day
  BY DEF Held
<1>3. \A t \in OpensIn(c.trades), e \in Past(in, c, Stopping) :
        t.day <= e /\ (\A k \in ClosesIn(c.trades) : SameLot(k, t) => k.day > e)
          => \E p \in c.positions : p.day = e /\ SameLot(p.held, t)
  BY <1>1 DEF Held
<1> QED BY <1>2, <1>3 DEF Held

\* Buying keeps the dates: the new lots are of the day bought on.
LEMMA DatedBuys ==
  ASSUME NEW in, NEW b, NEW d, NEW c, Frame(in, b), IsNext(in, d, b), b.step = "buy", Dated(in, b),
         Ledger(b.lots, b.trades, b.next),
         \A l \in c.lots : l \in b.lots \/ l.day = d,
         \A t \in OpensIn(c.trades) : t \in OpensIn(b.trades) \/ (t.day = d /\ t.lot = b.next),
         ClosesIn(c.trades) = ClosesIn(b.trades),
         Past(in, b, Buying) \subseteq Past(in, c, Buying), d \in Past(in, c, Buying),
         Past(in, c, Expiring) = Past(in, b, Expiring)
  PROVE  Dated(in, c)
<1>1. d \in Days /\ \A e \in Past(in, b, Expiring) : e \in Days /\ e <= d
  <2>1. d \in Days /\ d \in Nat /\ TradeDates(in) \subseteq Days
    BY NextIs, DatesAre
  <2>2. \A e \in Past(in, b, Expiring) : e \in TradeDates(in) /\ (e < d \/ e = d)
    BY PastIs
  <2>3. ASSUME NEW e \in Past(in, b, Expiring) PROVE e \in Days /\ e <= d
    <3>1. e \in TradeDates(in) /\ (e < d \/ e = d)
      BY <2>2
    <3>2. e \in Days /\ e \in Nat
      BY <2>1, <3>1, DatesAre
    <3> QED BY <2>1, <3>1, <3>2
  <2> QED BY <2>1, <2>3
<1>2. \A t \in OpensIn(c.trades) : t.day \in Past(in, c, Buying)
  BY DEF Dated
<1>3. \A k \in ClosesIn(c.trades) : k.day \in Past(in, c, Expiring)
  BY DEF Dated
<1>4. \A k \in ClosesIn(c.trades), t \in OpensIn(c.trades) : t \in OpensIn(b.trades) \/ ~ SameLot(k, t)
  <2> SUFFICES ASSUME NEW k \in ClosesIn(b.trades), NEW t, t.lot = b.next PROVE k.lot # t.lot
    BY DEF SameLot
  <2>1. PICK u \in OpensIn(b.trades) : SameLot(k, u)
    BY DEF Ledger
  <2>2. u.lot < b.next /\ b.next \in Nat /\ u.lot \in Nat
    BY DEF Ledger, OpensIn, IsRow
  <2> QED BY <2>1, <2>2 DEF SameLot
<1>5. ASSUME NEW l \in c.lots, NEW e \in Past(in, c, Expiring)
      PROVE  Index(in, e) - Index(in, l.day) < Holding
  <2>1. CASE l \in b.lots
    BY <2>1 DEF Dated
  <2>2. CASE l \notin b.lots
    <3>1. l.day = d /\ e \in Days /\ d \in Days /\ e <= d
      BY <1>1, <2>2
    <3>2. Index(in, e) \in Nat /\ Index(in, d) \in Nat /\ Index(in, e) <= Index(in, d)
      BY <3>1, IndexIs
    <3> QED BY <3>1, <3>2, ConstantsAre
  <2> QED BY <2>1, <2>2
<1> QED BY <1>2, <1>3, <1>4, <1>5 DEF Dated

\* The position rows of d are those of the lots that the stops leave.
LEMMA HeldStops ==
  ASSUME NEW in, NEW b, NEW d, NEW c, Frame(in, b), IsNext(in, d, b), b.step = "stop", Dated(in, b), Held(in, b),
         c.step = "close", c.done = b.done, b.trades \subseteq c.trades, c.lots \subseteq b.lots,
         c.positions = b.positions \cup {[day |-> d, held |-> l] : l \in c.lots},
         OpensIn(c.trades) = OpensIn(b.trades), ClosesIn(b.trades) \subseteq ClosesIn(c.trades),
         \A k \in ClosesIn(c.trades) : k \in ClosesIn(b.trades) \/ k.day = d,
         Ledger(c.lots, c.trades, c.next)
  PROVE  Held(in, c)
<1> DEFINE rows == {[day |-> d, held |-> l] : l \in c.lots}
<1>1. d \in Nat /\ \A e \in Past(in, b, Stopping) : e \in Nat /\ e < d
  BY PastIs, NextIs DEF Stopping
<1>2. \A e : e \in Past(in, c, Stopping) <=> e \in Past(in, b, Stopping) \/ e = d
  <2>1. IsNext(in, d, c)
    BY DEF IsNext
  <2>2. Past(in, c, Stopping) = {e \in TradeDates(in) : e <= c.done \/ IsNext(in, e, c)}
    BY DEF Past, Stopping
  <2>3. Past(in, b, Stopping) = {e \in TradeDates(in) : e <= b.done}
    BY DEF Past, Stopping
  <2>4. \A e \in TradeDates(in) : IsNext(in, e, c) <=> e = d
    BY NextIs DEF IsNext
  <2>5. d \in TradeDates(in)
    BY NextIs
  <2> QED BY <2>2, <2>3, <2>4, <2>5
<1>3. ASSUME NEW l \in c.lots
      PROVE  OpenRow(l) \in c.trades /\ l.day \in Nat /\ l.day <= d /\ \A k \in ClosesIn(c.trades) : ~ SameLot(k, l)
  <2>1. OpenRow(l) \in c.trades /\ (\A k \in ClosesIn(c.trades) : ~ SameLot(k, l))
    BY DEF Ledger
  <2>2. OpenRow(l) \in OpensIn(b.trades) /\ OpenRow(l).day = l.day
    BY RowOfLot
  <2>3. l.day \in Past(in, b, Buying)
    BY <2>2 DEF Dated
  <2>4. l.day \in Nat /\ l.day <= d
    BY <2>3, PastIs, NextIs
  <2> QED BY <2>1, <2>4
<1>4. \A p \in rows : p.day = d /\ p.held \in c.lots
  OBVIOUS
<1>5. \A l \in c.lots : \E p \in rows : p.day = d /\ p.held = l
  <2> SUFFICES ASSUME NEW l \in c.lots PROVE \E p \in rows : p.day = d /\ p.held = l
    OBVIOUS
  <2>1. PICK p : p = [day |-> d, held |-> l]
    OBVIOUS
  <2>2. p \in rows /\ p.day = d /\ p.held = l
    BY <2>1
  <2> QED BY <2>2
<1>6. c.positions = b.positions \cup rows
  OBVIOUS
<1> HIDE DEF rows
<1>7. \A p \in c.positions :
        /\ p.day \in Past(in, c, Stopping) /\ OpenRow(p.held) \in c.trades /\ p.held.day <= p.day
        /\ \A k \in ClosesIn(c.trades) : SameLot(k, p.held) => k.day > p.day
  <2>1. ASSUME NEW p \in b.positions
        PROVE  /\ p.day \in Past(in, c, Stopping) /\ OpenRow(p.held) \in c.trades /\ p.held.day <= p.day
               /\ \A k \in ClosesIn(c.trades) : SameLot(k, p.held) => k.day > p.day
    <3>1. /\ p.day \in Past(in, b, Stopping) /\ OpenRow(p.held) \in b.trades /\ p.held.day <= p.day
          /\ \A k \in ClosesIn(b.trades) : SameLot(k, p.held) => k.day > p.day
      BY DEF Held
    <3>2. p.day < d /\ p.day \in Nat
      BY <1>1, <3>1
    <3> QED BY <1>1, <1>2, <3>1, <3>2
  <2>2. ASSUME NEW p \in rows
        PROVE  /\ p.day \in Past(in, c, Stopping) /\ OpenRow(p.held) \in c.trades /\ p.held.day <= p.day
               /\ \A k \in ClosesIn(c.trades) : SameLot(k, p.held) => k.day > p.day
    BY <1>2, <1>3, <1>4
  <2> QED BY <1>6, <2>1, <2>2
<1>8. ASSUME NEW t \in OpensIn(c.trades), NEW e \in Past(in, c, Stopping), t.day <= e,
             \A k \in ClosesIn(c.trades) : SameLot(k, t) => k.day > e
      PROVE  \E p \in c.positions : p.day = e /\ SameLot(p.held, t)
  <2>1. CASE e \in Past(in, b, Stopping)
    <3>1. \E p \in b.positions : p.day = e /\ SameLot(p.held, t)
      BY <1>8, <2>1 DEF Held
    <3> QED BY <1>6, <3>1
  <2>2. CASE e = d
    <3>1. \A k \in ClosesIn(c.trades) : k.day \in Nat /\ k.day <= d
      <4>1. \A k \in ClosesIn(b.trades) : k.day \in Past(in, b, Expiring)
        BY DEF Dated
      <4>2. \A x \in Past(in, b, Expiring) : x \in Nat /\ x <= d
        BY PastIs, NextIs
      <4> QED BY <1>1, <4>1, <4>2
    <3>2. \A k \in ClosesIn(c.trades) : ~ SameLot(k, t)
      BY <1>1, <1>8, <2>2, <3>1
    <3>3. PICK l \in c.lots : SameLot(l, t)
      BY <3>2 DEF Ledger
    <3>4. PICK p \in rows : p.day = d /\ p.held = l
      BY <1>5
    <3> QED BY <1>6, <2>2, <3>3, <3>4
  <2> QED BY <1>2, <2>1, <2>2
<1>9. ASSUME NEW e \in TradeDates(in), IsNext(in, e, c)
      PROVE  {p.held : p \in {q \in c.positions : q.day = e}} = c.lots
  <2>1. e = d
    BY <1>9, NextIs DEF IsNext
  <2>2. \A p \in b.positions : p.day # d
    BY <1>1 DEF Held
  <2>3. {q \in c.positions : q.day = e} = rows
    BY <1>4, <1>6, <2>1, <2>2
  <2> QED BY <1>4, <1>5, <2>3
<1> QED BY <1>7, <1>8, <1>9 DEF Held

-----------------------------------------------------------------------------
(***************************************************************************)
(* The numbers of a replay.                                                *)
(***************************************************************************)
\* A bar that is there, and those before day 1.
LEMMA BarsAre ==
  ASSUME NEW in, IsInput(in), NEW s \in Symbols, NEW d \in Int, d <= LastDay
  PROVE  IsBar(BarOf(in, s, d)) /\ (HasBar(in, s, d) => BarOf(in, s, d).open \in Positive)
<1>1. IsBar(BarOf(in, s, d))
  <2>1. CASE d < 1
    <3>1. Flat.open = 20 /\ Flat.high = 22 /\ Flat.low = 18 /\ Flat.close = 20
      BY DEF Flat, Bar
    <3> QED BY <2>1, <3>1 DEF BarOf, IsBar
  <2>2. CASE ~ d < 1
    <3>1. d \in Days
      BY <2>2, ConstantsAre DEF Days
    <3> QED BY <2>2, <3>1 DEF BarOf, IsInput
  <2> QED BY <2>1, <2>2
<1> QED BY <1>1 DEF IsBar, HasBar, Positive

\* A lot is priced at an integer, and closed at an open that is positive.
LEMMA PriceIs ==
  ASSUME NEW in, IsInput(in), NEW l, IsLot(l), NEW d \in Days, NEW field \in {"open", "close"}
  PROVE  Price(in, l, d, field) \in Int /\ (field = "open" => Price(in, l, d, field) \in Positive)
<1>1. d \in Int /\ d <= LastDay /\ l.symbol \in Symbols /\ l.entry \in Positive
  BY ConstantsAre DEF Days, IsLot
<1>2. IsBar(BarOf(in, l.symbol, d)) /\ (HasBar(in, l.symbol, d) => BarOf(in, l.symbol, d).open \in Positive)
  BY <1>1, BarsAre
<1>3. PICK bar : bar = BarOf(in, l.symbol, d)
  OBVIOUS
<1>4. bar["open"] \in Int /\ bar["close"] \in Int
  BY <1>2, <1>3 DEF IsBar
<1>5. (HasBar(in, l.symbol, d) /\ Price(in, l, d, field) = bar[field]) \/ Price(in, l, d, field) = l.entry
  BY <1>3 DEF Price
<1> QED BY <1>1, <1>2, <1>3, <1>4, <1>5 DEF Positive

\* The windows.
LEMMA BeforeIs ==
  ASSUME NEW in, NEW s, NEW d \in Days
  PROVE  /\ IsFiniteSet(Before(in, s, d)) /\ 0 \in Before(in, s, d)
         /\ \A e \in Before(in, s, d) : e \in Int /\ e < d /\ e <= LastDay /\ HasBar(in, s, e)
<1>1. d \in Int /\ d >= 1 /\ d <= LastDay /\ AtrDays \in Nat /\ LastDay \in Nat
  BY ConstantsAre DEF Days
<1>2. IsFiniteSet((0 - AtrDays)..(d - 1))
  BY <1>1, FS_Interval
<1>3. IsFiniteSet(Before(in, s, d))
  BY <1>2, FS_Subset DEF Before
<1>4. HasBar(in, s, 0)
  <2>1. Flat.open = 20 /\ NoBar.open = 0
    BY DEF Flat, NoBar, Bar
  <2> QED BY <2>1 DEF HasBar, BarOf
<1>5. 0 \in Before(in, s, d)
  BY <1>1, <1>4 DEF Before
<1> QED BY <1>1, <1>3, <1>5 DEF Before

\* The newest n of some days are some of them.
LEMMA NewestIs ==
  ASSUME NEW S, \A e \in S : e \in Int, IsFiniteSet(S), S # {}, NEW n \in Nat, n > 0
  PROVE  Newest(S, n) # {} /\ Newest(S, n) \subseteq S /\ IsFiniteSet(Newest(S, n))
<1>1. PICK m \in S : \A e \in S : e <= m
  BY GreatestElement
<1>2. {e \in S : e > m} = {}
  BY <1>1
<1>3. Cardinality({e \in S : e > m}) = 0
  BY <1>2, FS_EmptySet
<1>4. m \in Newest(S, n)
  BY <1>3 DEF Newest
<1> QED BY <1>4, FS_Subset DEF Newest

\* The support is a price.
LEMMA RollingLowIs ==
  ASSUME NEW in, IsInput(in), NEW s \in Symbols, NEW d \in Days
  PROVE  RollingLow(in, s, d) \in Nat
<1>1. PICK W : W = Newest(Before(in, s, d), Lookback)
  OBVIOUS
<1>2. W # {} /\ IsFiniteSet(W) /\ \A e \in W : e \in Int /\ e <= LastDay
  BY <1>1, BeforeIs, NewestIs, ConstantsAre
<1>3. PICK low : low = [e \in W |-> BarOf(in, s, e).low]
  OBVIOUS
<1>4. PICK L : L = {low[e] : e \in W}
  OBVIOUS
<1>5. \A x \in L : x \in Nat
  BY <1>2, <1>3, <1>4, BarsAre DEF IsBar
<1>6. IsFiniteSet(L) /\ L # {}
  <2>1. low \in Surjection(W, L)
    BY <1>3, <1>4 DEF Surjection
  <2> QED BY <1>2, <1>4, <2>1, FS_Surjection
<1>7. Min(L) \in L
  BY <1>5, <1>6, MinIs
<1>8. L = {BarOf(in, s, e).low : e \in W}
  BY <1>3, <1>4
<1> QED BY <1>1, <1>5, <1>7, <1>8 DEF RollingLow

\* So is the stop below it.
LEMMA StopLevelIs ==
  ASSUME NEW in, IsInput(in), NEW s \in Symbols, NEW d \in Days, NEW price
  PROVE  StopLevel(in, s, d, price) \in Nat
<1>1. RollingLow(in, s, d) \in Nat /\ Unit = 20
  BY RollingLowIs DEF Unit
<1>2. RollingLow(in, s, d) * 19 \in Nat
  BY <1>1
<1>3. (RollingLow(in, s, d) * 19) \div 20 \in Nat
  BY <1>2
<1>4. Unit - 1 = 19
  BY <1>1
<1> QED BY <1>1, <1>3, <1>4 DEF StopLevel, NoStop

\* The true range is a number, even over a window of one bar.
LEMMA RollingATRIs ==
  ASSUME NEW in, IsInput(in), NEW s \in Symbols, NEW d \in Days
  PROVE  RollingATR(in, s, d) \in Int
<1>1. PICK W : W = Newest(Before(in, s, d), AtrDays + 1)
  OBVIOUS
<1>2. W # {} /\ IsFiniteSet(W) /\ \A e \in W : e \in Int /\ e <= LastDay
  <2>1. AtrDays + 1 \in Nat /\ AtrDays + 1 > 0
    BY ConstantsAre
  <2> QED BY <1>1, <2>1, BeforeIs, NewestIs
<1>3. PICK prior : prior = [e \in W |-> Max({p \in W : p < e})]
  OBVIOUS
<1>4. PICK ranges : ranges = [e \in W \ {Min(W)} |-> TrueRange(BarOf(in, s, e), BarOf(in, s, prior[e]))]
  OBVIOUS
<1>5. Min(W) \in W /\ \A e \in W : Min(W) <= e
  BY <1>2, MinIs
<1>6. ASSUME NEW e \in W \ {Min(W)} PROVE ranges[e] \in Int
  <2>1. PICK P : P = {p \in W : p < e}
    OBVIOUS
  <2>2. Min(W) \in P
    BY <1>2, <1>5, <2>1
  <2>3. IsFiniteSet(P) /\ \A p \in P : p \in Int
    BY <1>2, <2>1, FS_Subset
  <2>4. Max(P) \in P
    BY <2>2, <2>3, MaxIs
  <2>5. prior[e] \in W
    BY <1>3, <2>1, <2>4
  <2>6. PICK k, j : k = BarOf(in, s, e) /\ j = BarOf(in, s, prior[e])
    OBVIOUS
  <2>7. IsBar(k) /\ IsBar(j)
    BY <1>2, <2>5, <2>6, BarsAre
  <2>8. PICK x, y, z : x = k.high - k.low /\ y = Abs(k.high - j.close) /\ z = Abs(k.low - j.close)
    OBVIOUS
  <2>9. x \in Int /\ y \in Int /\ z \in Int
    BY <2>7, <2>8 DEF IsBar, Abs
  <2>10. IsFiniteSet({x, y, z})
    <3>1. IsFiniteSet({x, y})
      BY PairIsFinite
    <3>2. IsFiniteSet({x, y} \cup {z})
      BY <3>1, FS_AddElement
    <3>3. {x, y} \cup {z} = {x, y, z}
      OBVIOUS
    <3> QED BY <3>2, <3>3
  <2>11. Max({x, y, z}) \in {x, y, z}
    BY <2>9, <2>10, MaxIs
  <2>12. ranges[e] = Max({x, y, z})
    BY <1>4, <2>6, <2>8 DEF TrueRange
  <2> QED BY <2>9, <2>11, <2>12
<1>7. Sum(ranges, W \ {Min(W)}) \in Int
  BY <1>2, <1>6, SumInt, FS_Subset
<1>8. SumFunction(ranges) = Sum(ranges, W \ {Min(W)})
  BY <1>4 DEF SumFunction, FoldFunction, Sum, SumFunctionOnSet
<1>9. ranges = [e \in W \ {Min(W)} |-> TrueRange(BarOf(in, s, e), BarOf(in, s, Max({p \in W : p < e})))]
  BY <1>3, <1>4
<1>10. RollingATR(in, s, d) = IF Cardinality(W) < 2 THEN 0 ELSE SumFunction(ranges) \div (Cardinality(W) - 1)
  BY <1>1, <1>9 DEF RollingATR
<1>11. Cardinality(W) \in Nat
  BY <1>2, FS_CardinalityType
<1>12. ASSUME ~ Cardinality(W) < 2 PROVE SumFunction(ranges) \div (Cardinality(W) - 1) \in Int
  <2>1. PICK x \in Int, y \in Int : x = SumFunction(ranges) /\ y = Cardinality(W) - 1
    BY <1>7, <1>8, <1>11
  <2>2. y > 0
    BY <1>11, <1>12, <2>1
  <2> QED BY <2>1, <2>2
<1> QED BY <1>10, <1>12

\* The picks are symbols and have numbers for weights.
LEMMA WeightsAre ==
  ASSUME NEW in, IsInput(in), NEW d \in Days, NEW weights,
         weights = [s \in TopLongs(in, d) |-> RawWeight(in, s, d)]
  PROVE  DOMAIN weights \in SUBSET Symbols /\ \A s \in DOMAIN weights : weights[s] \in Int
<1>1. TopLongs(in, d) \subseteq Symbols
  BY DEF TopLongs
<1>2. ASSUME NEW s \in Symbols PROVE RawWeight(in, s, d) \in Int
  <2>1. PICK atr \in Int : atr = RollingATR(in, s, d)
    BY RollingATRIs
  <2>2. PICK x \in Int : x = Unit * in.picks[d][s]
    BY DEF IsInput, Unit
  <2>3. RawWeight(in, s, d) = IF atr > 0 THEN x \div atr ELSE x
    BY <2>1, <2>2 DEF RawWeight
  <2>4. atr > 0 => x \div atr \in Int
    OBVIOUS
  <2> QED BY <2>3, <2>4
<1> QED BY <1>1, <1>2

\* The shares of a name that has a bar are a number: its open is no zero to divide by.
LEMMA SharesAre ==
  ASSUME NEW in, IsInput(in), NEW d \in Days, NEW b, b.budget \in Nat, DOMAIN b.weights \in SUBSET Symbols,
         \A s \in DOMAIN b.weights : b.weights[s] \in Int,
         NEW s \in DOMAIN b.weights, HasBar(in, s, d)
  PROVE  Shares(in, s, d, b) \in Int
<1>1. IsFiniteSet(DOMAIN b.weights) /\ s \in Symbols
  BY PaperAssumption, FS_Subset
<1>2. PICK total \in Int : total = SumFunction(b.weights)
  BY <1>1, SumInt DEF Sum, SumFunction, FoldFunction, SumFunctionOnSet
<1>3. PICK n \in Nat : n = Cardinality(DOMAIN b.weights)
  BY <1>1, FS_CardinalityType
<1>4. n > 0
  BY <1>1, <1>3, FS_EmptySet
<1>5. PICK w \in Int, budget \in Int : w = b.weights[s] /\ budget = b.budget
  OBVIOUS
<1>6. PICK dollars : dollars = IF total > 0 THEN (budget * w) \div total ELSE budget \div n
  OBVIOUS
<1>7. dollars \in Int
  <2>1. budget * w \in Int
    OBVIOUS
  <2>2. total > 0 => (budget * w) \div total \in Int
    BY <2>1
  <2>3. budget \div n \in Int
    BY <1>4
  <2> QED BY <1>6, <2>2, <2>3
<1>8. PICK open \in Positive : open = BarOf(in, s, d).open
  BY <1>1, BarsAre, ConstantsAre DEF Days
<1>9. Shares(in, s, d, b) = dollars \div open
  BY <1>2, <1>3, <1>5, <1>6, <1>8 DEF Shares
<1> QED BY <1>7, <1>8, <1>9 DEF Positive

\* A slice is bought with numbers of its own.
LEMMA SliceIs ==
  ASSUME NEW in, IsInput(in), NEW d \in Days, NEW b, b.budget \in Nat, DOMAIN b.weights \in SUBSET Symbols,
         \A s \in DOMAIN b.weights : b.weights[s] \in Int, b.next \in Nat
  PROVE  /\ IsFiniteSet(Slice(in, d, b))
         /\ \A l \in Slice(in, d, b) : IsLot(l) /\ l.lot = b.next /\ l.day = d
         /\ \A l, m \in Slice(in, d, b) : l.symbol = m.symbol => l = m
         /\ Slice(in, d, b) # {} => b.budget > 0
<1>1. PICK T : T = {t \in DOMAIN b.weights : b.budget > 0 /\ HasBar(in, t, d) /\ Shares(in, t, d, b) > 0}
  OBVIOUS
<1>2. PICK lot : lot =
        [s \in T |-> [lot |-> b.next, symbol |-> s, qty |-> Shares(in, s, d, b), entry |-> BarOf(in, s, d).open,
                      day |-> d, stop |-> StopLevel(in, s, d, BarOf(in, s, d).open)]]
  OBVIOUS
<1>3. Slice(in, d, b) = {lot[s] : s \in T}
  BY <1>1, <1>2 DEF Slice
<1>4. T \subseteq Symbols /\ IsFiniteSet(T)
  BY <1>1, PaperAssumption, FS_Subset
<1>5. lot \in Surjection(T, Slice(in, d, b))
  BY <1>2, <1>3 DEF Surjection
<1>6. IsFiniteSet(Slice(in, d, b))
  BY <1>4, <1>5, FS_Surjection
<1>7. ASSUME NEW s \in T
      PROVE  IsLot(lot[s]) /\ lot[s].lot = b.next /\ lot[s].day = d /\ lot[s].symbol = s
  <2>1. s \in Symbols /\ HasBar(in, s, d) /\ Shares(in, s, d, b) > 0 /\ Shares(in, s, d, b) \in Int
    BY <1>1, <1>4, SharesAre
  <2>2. Shares(in, s, d, b) \in Positive
    BY <2>1 DEF Positive
  <2>3. BarOf(in, s, d).open \in Positive
    BY <2>1, BarsAre, ConstantsAre DEF Days
  <2>4. StopLevel(in, s, d, BarOf(in, s, d).open) \in Nat
    BY <2>1, StopLevelIs
  <2>5. /\ lot[s].lot = b.next /\ lot[s].symbol = s /\ lot[s].qty = Shares(in, s, d, b) /\ lot[s].day = d
        /\ lot[s].entry = BarOf(in, s, d).open /\ lot[s].stop = StopLevel(in, s, d, BarOf(in, s, d).open)
    BY <1>2
  <2> QED BY <2>1, <2>2, <2>3, <2>4, <2>5 DEF IsLot
<1>8. \A l \in Slice(in, d, b) : \E s \in T : l = lot[s]
  BY <1>3
<1>9. Slice(in, d, b) # {} => b.budget > 0
  BY <1>1, <1>8
<1> QED BY <1>6, <1>7, <1>8, <1>9

\* What lots cost, and what they are worth.
LEMMA BasisIs ==
  ASSUME NEW A, IsFiniteSet(A), NEW g, \A l \in A : g[l] = l.qty * l.entry
  PROVE  Basis(A) = Sum(g, A)
<1>1. PICK f : f = [l \in A |-> l.qty * l.entry]
  OBVIOUS
<1>2. Basis(A) = Sum(f, A)
  BY <1>1 DEF Basis, Sum, SumFunction, FoldFunction, SumFunctionOnSet
<1>3. \A l \in A : f[l] = g[l]
  BY <1>1
<1> QED BY <1>2, <1>3, SumEqual

\* The cost of a lot is a number.
LEMMA CostIs == ASSUME NEW l, IsLot(l) PROVE l.qty * l.entry \in Int
BY DEF IsLot, Positive

\* The basis of lots, in parts.
LEMMA BasisSplits ==
  ASSUME NEW A, NEW B, IsFiniteSet(A), IsFiniteSet(B), A \cap B = {}, \A l \in A \cup B : IsLot(l)
  PROVE  /\ Basis(A) \in Int /\ Basis(B) \in Int
         /\ Basis(A \cup B) = Basis(A) + Basis(B)
<1>1. PICK g : g = [l \in A \cup B |-> l.qty * l.entry]
  OBVIOUS
<1>2. \A l \in A \cup B : g[l] = l.qty * l.entry /\ g[l] \in Int
  BY <1>1, CostIs
<1>3. IsFiniteSet(A \cup B)
  BY FS_Union
<1>4. Basis(A) = Sum(g, A) /\ Basis(B) = Sum(g, B) /\ Basis(A \cup B) = Sum(g, A \cup B)
  BY <1>2, <1>3, BasisIs
<1>5. Sum(g, A) \in Int /\ Sum(g, B) \in Int
  BY <1>2, SumInt
<1>6. Sum(g, A \cup B) = Sum(g, A) + Sum(g, B)
  BY <1>2, SumUnion
<1> QED BY <1>4, <1>5, <1>6

\* The market value of lots is a number.
LEMMA ValueIs ==
  ASSUME NEW in, IsInput(in), NEW A, IsFiniteSet(A), \A l \in A : IsLot(l), NEW d \in Days,
         NEW field \in {"open", "close"}
  PROVE  Value(in, A, d, field) \in Int
<1>1. PICK f : f = [l \in A |-> l.qty * Price(in, l, d, field)]
  OBVIOUS
<1>2. Value(in, A, d, field) = Sum(f, A)
  BY <1>1 DEF Value, Sum, SumFunction, FoldFunction, SumFunctionOnSet
<1>3. ASSUME NEW l \in A PROVE f[l] \in Int
  <2>1. l.qty \in Int /\ Price(in, l, d, field) \in Int
    BY PriceIs DEF IsLot, Positive
  <2> QED BY <1>1, <2>1
<1> QED BY <1>2, <1>3, SumInt

\* The profits of rows, in parts.
LEMMA ProfitsSplit ==
  ASSUME NEW A, NEW B, IsFiniteSet(A), IsFiniteSet(B), A \cap B = {}, \A t \in A \cup B : IsRow(t)
  PROVE  /\ Profits(A) \in Int /\ Profits(B) \in Int
         /\ Profits(A \cup B) = Profits(A) + Profits(B)
<1>1. PICK f, g, h : f = [t \in A |-> t.pnl] /\ g = [t \in B |-> t.pnl] /\ h = [t \in A \cup B |-> t.pnl]
  OBVIOUS
<1>2. Profits(A) = Sum(f, A) /\ Profits(B) = Sum(g, B) /\ Profits(A \cup B) = Sum(h, A \cup B)
  BY <1>1 DEF Profits, Sum, SumFunction, FoldFunction, SumFunctionOnSet
<1>3. /\ \A t \in A : h[t] = f[t] /\ f[t] \in Int
      /\ \A t \in B : h[t] = g[t] /\ g[t] \in Int
      /\ \A t \in A \cup B : h[t] \in Int
  BY <1>1 DEF IsRow
<1>4. Sum(f, A) = Sum(h, A) /\ Sum(g, B) = Sum(h, B)
  BY <1>3, SumEqual
<1>5. Sum(h, A) \in Int /\ Sum(h, B) \in Int
  BY <1>3, SumInt
<1>6. Sum(h, A \cup B) = Sum(h, A) + Sum(h, B)
  BY <1>3, SumUnion
<1> QED BY <1>2, <1>4, <1>5, <1>6

\* What comes in when lots are closed is what they cost and the profit.
LEMMA ProceedsAre ==
  ASSUME NEW leaving, IsFiniteSet(leaving), \A l \in leaving : IsLot(l),
         \A l, m \in leaving : SameLot(l, m) => l = m,
         NEW d, NEW side, NEW prices, \A l \in leaving : prices[l] \in Positive,
         NEW closes, closes = ClosesFor(leaving, d, side, prices)
  PROVE  /\ Proceeds(closes) \in Int /\ Profits(closes) \in Int
         /\ Proceeds(closes) = Profits(closes) + Basis(leaving)
<1>1. PICK row : row = [l \in leaving |-> CloseRow(l, d, side, prices[l])]
  OBVIOUS
<1>2. closes = {row[l] : l \in leaving}
  BY <1>1 DEF ClosesFor
<1>3. ASSUME NEW l \in leaving
      PROVE  /\ row[l].lot = l.lot /\ row[l].symbol = l.symbol /\ row[l].qty = l.qty /\ row[l].price = prices[l]
             /\ row[l].pnl = l.qty * (prices[l] - l.entry) - CloseCost(l.qty, prices[l])
  BY <1>1 DEF CloseRow
<1>4. \A l, m \in leaving : row[l] = row[m] => l = m
  BY <1>3 DEF SameLot
<1>5. PICK p, q, c, P, Q :
        /\ p = [t \in closes |-> t.qty * t.price - CloseCost(t.qty, t.price)]
        /\ q = [t \in closes |-> t.pnl]
        /\ c = [l \in leaving |-> l.qty * l.entry]
        /\ P = [l \in leaving |-> p[row[l]]] /\ Q = [l \in leaving |-> q[row[l]]]
  OBVIOUS
<1>6. ASSUME NEW l \in leaving
      PROVE  P[l] \in Int /\ Q[l] \in Int /\ c[l] \in Int /\ P[l] = Q[l] + c[l]
  <2>1. PICK n \in Int, x \in Int, e \in Int : n = l.qty /\ x = prices[l] /\ e = l.entry
    BY DEF IsLot, Positive
  <2>2. PICK k \in Int : k = CloseCost(n, x)
    <3>1. n * x \in Int
      OBVIOUS
    <3>2. (n * x) \div 100 \in Int
      BY <3>1
    <3> QED BY <3>2 DEF CloseCost
  <2>3. P[l] = n * x - k
    BY <1>2, <1>3, <1>5, <2>1, <2>2
  <2>4. Q[l] = n * (x - e) - k
    BY <1>2, <1>3, <1>5, <2>1, <2>2
  <2>5. c[l] = n * e
    BY <1>5, <2>1
  <2>6. n * (x - e) = n * x - n * e /\ n * x \in Int /\ n * e \in Int
    OBVIOUS
  <2> QED BY <2>3, <2>4, <2>5, <2>6
<1>7. Sum(P, leaving) = Sum(Q, leaving) + Sum(c, leaving)
  BY <1>6, SumPlus
<1>8. Sum(P, leaving) = Sum(p, closes)
  <2>1. \A l \in leaving : P[l] = p[row[l]] /\ P[l] \in Int
    BY <1>5, <1>6
  <2> QED BY <1>2, <1>4, <2>1, SumImage
<1>9. Sum(Q, leaving) = Sum(q, closes)
  <2>1. \A l \in leaving : Q[l] = q[row[l]] /\ Q[l] \in Int
    BY <1>5, <1>6
  <2> QED BY <1>2, <1>4, <2>1, SumImage
<1>10. Proceeds(closes) = Sum(p, closes) /\ Profits(closes) = Sum(q, closes)
  BY <1>5 DEF Proceeds, Profits, Sum, SumFunction, FoldFunction, SumFunctionOnSet
<1>11. Basis(leaving) = Sum(c, leaving)
  BY <1>5, BasisIs
<1>12. Sum(P, leaving) \in Int /\ Sum(Q, leaving) \in Int
  BY <1>6, SumInt
<1> QED BY <1>7, <1>8, <1>9, <1>10, <1>11, <1>12

\* Interest is charged on a debit only, and leaves it a debit.
LEMMA InterestIs == ASSUME NEW cash \in Int
                    PROVE  Interest(cash) \in Int /\ (cash < 0 => cash + Interest(cash) < 0)
                           /\ (cash >= 0 => Interest(cash) = 0)
<1>1. cash \div 100 \in Int /\ (cash < 0 => cash \div 100 < 0)
  OBVIOUS
<1> QED BY <1>1 DEF Interest

-----------------------------------------------------------------------------
(***************************************************************************)
(* Every step keeps what holds of the book.                                *)
(***************************************************************************)
\* Within a day the same dates are past.
LEMMA PastStays ==
  ASSUME NEW in, NEW b, NEW c, c.done = b.done, NEW S, b.step \in S <=> c.step \in S
  PROVE  Past(in, c, S) = Past(in, b, S)
BY DEF Past, IsNext

\* A step that writes no trade keeps the dates.
LEMMA DatedStays ==
  ASSUME NEW in, NEW b, Dated(in, b), NEW c, c.trades = b.trades, c.lots = b.lots,
         Past(in, c, Buying) = Past(in, b, Buying), Past(in, c, Expiring) = Past(in, b, Expiring)
  PROVE  Dated(in, c)
BY DEF Dated

\* A step inside the day that writes no position keeps the positions.
LEMMA HeldStays ==
  ASSUME NEW in, NEW b, Held(in, b), NEW c, c.trades = b.trades, c.positions = b.positions,
         c.step \notin {"mark", "close"}, Past(in, c, Stopping) = Past(in, b, Stopping)
  PROVE  Held(in, c)
BY DEF Held

\* A mark's equity is the starting cash and the two profits, when the cash is.
LEMMA MarkIs ==
  ASSUME NEW in, IsInput(in), NEW lots, IsFiniteSet(lots), \A l \in lots : IsLot(l),
         NEW cash \in Int, NEW realized \in Int, cash + Basis(lots) = in.cash + realized,
         NEW d \in Days, NEW kind, NEW field \in {"open", "close"},
         NEW m, m = Mark(in, lots, cash, realized, d, kind, field)
  PROVE  /\ m.day = d /\ m.kind = kind /\ m.cash = cash /\ m.equity \in Int
         /\ m.equity = in.cash + m.realized + m.unrealized
<1>1. PICK mv \in Int : mv = Value(in, lots, d, field)
  BY ValueIs
<1>2. PICK basis \in Int : basis = Basis(lots)
  <2>1. {} \cap lots = {} /\ IsFiniteSet({}) /\ \A l \in lots \cup {} : IsLot(l)
    BY FS_EmptySet
  <2> QED BY <2>1, BasisSplits
<1>3. m = [day |-> d, kind |-> kind, equity |-> cash + mv, cash |-> cash,
           realized |-> realized, unrealized |-> mv - basis]
  BY <1>1, <1>2 DEF Mark
<1>4. in.cash \in Int /\ cash + basis = in.cash + realized
  BY <1>2 DEF IsInput
<1>5. cash + mv = in.cash + realized + (mv - basis)
  BY <1>4
<1> QED BY <1>3, <1>5

\* The lots of a ledger.
LEMMA LotsAre ==
  ASSUME NEW lots, NEW rows, NEW next, Ledger(lots, rows, next)
  PROVE  IsFiniteSet(lots) /\ \A l \in lots : IsLot(l)
BY DEF Ledger

\* Step 1 keeps the invariant of the book.
LEMMA MarksAtOpen ==
  ASSUME NEW in, IsInput(in), NEW b, BookInv(in, b), NEW d, IsNext(in, d, b), b.step = "mark",
         NEW c, c = MarkAtOpen(in, d, b)
  PROVE  BookInv(in, c)
<1>1. PICK m : m = Mark(in, b.lots, b.cash, b.realized, d, "open_8am_ct", "open")
  OBVIOUS
<1>2. /\ IsBook(c) /\ c.step = "expire" /\ c.done = b.done
      /\ c.cash = b.cash /\ c.realized = b.realized /\ c.next = b.next
      /\ c.lots = b.lots /\ c.trades = b.trades /\ c.positions = b.positions
      /\ c.equity = b.equity \cup {m} /\ c.budget = Max({0, m.equity \div Holding})
  <2>1. IsBook(b)
    BY DEF BookInv, Frame
  <2> QED BY <1>1, <2>1, MarkAtOpenIs
<1>3. Frame(in, c)
  BY <1>2, FrameStays DEF BookInv
<1>4. \A S \in {Expiring, Buying, Stopping} : Past(in, c, S) = Past(in, b, S)
  BY <1>2, PastStays DEF Expiring, Buying, Stopping
<1>5. Dated(in, c)
  BY <1>2, <1>4, DatedStays DEF BookInv
<1>6. Held(in, c)
  BY <1>2, <1>4, HeldStays DEF BookInv
<1>7. d \in Days /\ d \in TradeDates(in) /\ d \in Nat /\ d > b.done /\ b.done \in Nat
  BY NextIs DEF BookInv
<1>8. /\ m.day = d /\ m.kind = "open_8am_ct" /\ m.cash = b.cash /\ m.equity \in Int
      /\ m.equity = in.cash + m.realized + m.unrealized
  <2>1. IsFiniteSet(b.lots) /\ \A l \in b.lots : IsLot(l)
    BY LotsAre DEF BookInv
  <2>2. b.cash \in Int /\ b.realized \in Int /\ b.cash + Basis(b.lots) = in.cash + b.realized
    BY DEF BookInv, Money
  <2> QED BY <1>1, <1>7, <2>1, <2>2, MarkIs
<1>9. c.budget \in Nat
  <2>1. PICK x \in Int : x = m.equity \div Holding
    BY <1>8, ConstantsAre
  <2>2. Max({0, x}) \in {0, x} /\ \A e \in {0, x} : e <= Max({0, x})
    <3>1. (\A e \in {0, x} : e \in Int) /\ {0, x} # {} /\ IsFiniteSet({0, x})
      <4>1. IsFiniteSet({0, x})
        BY PairIsFinite
      <4> QED BY <4>1
    <3> QED BY <3>1, MaxIs
  <2>3. c.budget = Max({0, x})
    BY <1>2, <2>1
  <2> QED BY <2>2, <2>3
<1>10. Money(in, c)
  <2>1. \A e \in c.equity :
        /\ e.day \in TradeDates(in) /\ e.equity \in Int /\ e.cash \in Int
        /\ e.equity = in.cash + e.realized + e.unrealized
        /\ e.kind = "close_5pm_ct" => /\ e.day <= c.done
                                      /\ ~ (in.skip /\ e.day = Max(TradeDates(in)))
                                      /\ c.step = "mark" /\ e.day = c.done => e.cash = c.cash
    <3>1. /\ m.day \in TradeDates(in) /\ m.equity \in Int /\ m.cash \in Int
          /\ m.equity = in.cash + m.realized + m.unrealized /\ m.kind # "close_5pm_ct"
      BY <1>7, <1>8 DEF BookInv, Money
    <3> QED BY <1>2, <3>1 DEF BookInv, Money
  <2>2. \/ \E e \in c.equity : e.cash < 0
        \/ in.skip /\ c.done \in TradeDates(in) /\ c.done = Max(TradeDates(in))
        \/ c.realized = Profits(ClosesIn(c.trades))
    BY <1>2 DEF BookInv, Money
  <2>3. c.cash \in Int /\ c.realized \in Int /\ c.cash + Basis(c.lots) = in.cash + c.realized
    BY <1>2 DEF BookInv, Money
  <2> QED BY <1>2, <1>9, <2>1, <2>2, <2>3 DEF Money
<1> QED BY <1>2, <1>3, <1>5, <1>6, <1>10 DEF BookInv

\* The picks and their weights keep it.
LEMMA Weighs ==
  ASSUME NEW in, IsInput(in), NEW b, BookInv(in, b), NEW d, IsNext(in, d, b), b.step = "weigh",
         NEW c, c = Weigh(in, d, b)
  PROVE  BookInv(in, c)
<1>2. /\ IsBook(c) /\ c.step = "buy" /\ c.done = b.done
      /\ c.budget = b.budget /\ c.cash = b.cash /\ c.realized = b.realized /\ c.next = b.next
      /\ c.lots = b.lots /\ c.trades = b.trades /\ c.positions = b.positions /\ c.equity = b.equity
      /\ c.weights = [s \in TopLongs(in, d) |-> RawWeight(in, s, d)]
  BY WeighIs DEF BookInv, Frame
<1>3. Frame(in, c)
  BY <1>2, FrameStays DEF BookInv
<1>4. \A S \in {Expiring, Buying, Stopping} : Past(in, c, S) = Past(in, b, S)
  BY <1>2, PastStays DEF Expiring, Buying, Stopping
<1>5. Dated(in, c)
  BY <1>2, <1>4, DatedStays DEF BookInv
<1>6. Held(in, c)
  BY <1>2, <1>4, HeldStays DEF BookInv
<1>7. d \in Days
  BY NextIs DEF BookInv
<1>8. DOMAIN c.weights \in SUBSET Symbols /\ \A s \in DOMAIN c.weights : c.weights[s] \in Int
  BY <1>2, <1>7, WeightsAre
<1>9. Money(in, c)
  BY <1>2, <1>8 DEF BookInv, Money
<1> QED BY <1>2, <1>3, <1>5, <1>6, <1>9 DEF BookInv

\* Steps 6 and 7 keep it.
LEMMA MarksAtClose ==
  ASSUME NEW in, IsInput(in), NEW b, BookInv(in, b), NEW d, IsNext(in, d, b), b.step = "close",
         NEW c, c = MarkAtClose(in, d, b)
  PROVE  BookInv(in, c)
<1>1. PICK m : m = Mark(in, b.lots, c.cash, c.realized, d, "close_5pm_ct", "close")
  OBVIOUS
<1>2. /\ IsBook(c) /\ c.step = "mark" /\ c.done = d /\ c.budget = b.budget /\ c.next = b.next
      /\ c.cash = b.cash + Interest(b.cash) /\ c.realized = b.realized + Interest(b.cash)
      /\ c.lots = b.lots /\ c.trades = b.trades /\ c.positions = b.positions
      /\ c.equity = IF in.skip /\ d = Max(TradeDates(in)) THEN b.equity ELSE b.equity \cup {m}
  BY <1>1, MarkAtCloseIs DEF BookInv, Frame
<1>3. Frame(in, c) /\ \A S \in {Expiring, Buying, Stopping} : Past(in, c, S) = Past(in, b, S)
  BY <1>2, FrameEnds DEF BookInv
<1>4. d \in Days /\ d \in TradeDates(in) /\ d \in Nat /\ d > b.done /\ b.done \in Nat
  BY NextIs DEF BookInv
<1>5. Dated(in, c)
  BY <1>2, <1>3, DatedStays DEF BookInv
<1>6. Held(in, c)
  <2>1. {p.held : p \in {q \in c.positions : q.day = d}} = c.lots
    BY <1>2, <1>4 DEF BookInv, Held
  <2>2. \A e \in TradeDates(in) :
          (c.step = "mark" /\ e = c.done) \/ (c.step = "close" /\ IsNext(in, e, c)) => e = d
    BY <1>2
  <2> QED BY <1>2, <1>3, <2>1, <2>2 DEF BookInv, Held
<1>7. b.cash \in Int /\ b.realized \in Int /\ b.cash + Basis(b.lots) = in.cash + b.realized
  BY DEF BookInv, Money
<1>8. IsFiniteSet(b.lots) /\ \A l \in b.lots : IsLot(l)
  BY LotsAre DEF BookInv
<1>9. /\ c.cash \in Int /\ c.realized \in Int /\ c.cash + Basis(c.lots) = in.cash + c.realized
      /\ b.cash < 0 => c.cash < 0
      /\ b.cash >= 0 => c.realized = b.realized
  <2>1. Basis(b.lots) \in Int /\ in.cash \in Int
    <3>1. {} \cap b.lots = {} /\ IsFiniteSet({}) /\ \A l \in b.lots \cup {} : IsLot(l)
      BY <1>8, FS_EmptySet
    <3> QED BY <1>8, <3>1, BasisSplits DEF IsInput
  <2>2. PICK i \in Int : /\ i = Interest(b.cash) /\ (b.cash < 0 => b.cash + i < 0) /\ (b.cash >= 0 => i = 0)
    BY <1>7, InterestIs
  <2> QED BY <1>2, <1>7, <2>1, <2>2
<1>10. /\ m.day = d /\ m.kind = "close_5pm_ct" /\ m.cash = c.cash /\ m.equity \in Int
       /\ m.equity = in.cash + m.realized + m.unrealized
  BY <1>1, <1>2, <1>4, <1>8, <1>9, MarkIs
<1>11. Money(in, c)
  <2>1. \A e \in b.equity :
        /\ e.day \in TradeDates(in) /\ e.equity \in Int /\ e.cash \in Int
        /\ e.equity = in.cash + e.realized + e.unrealized
        /\ e.kind = "close_5pm_ct" => /\ e.day < d /\ e.day <= d
                                      /\ ~ (in.skip /\ e.day = Max(TradeDates(in)))
    <3>1. ASSUME NEW e \in b.equity, e.kind = "close_5pm_ct" PROVE e.day < d /\ e.day <= d
      <4>1. e.day \in TradeDates(in) /\ e.day <= b.done
        BY <3>1 DEF BookInv, Money
      <4>2. e.day \in Nat
        BY <4>1, DatesAre
      <4> QED BY <1>4, <4>1, <4>2
    <3> QED BY <3>1 DEF BookInv, Money
  <2>2. \A e \in c.equity :
        /\ e.day \in TradeDates(in) /\ e.equity \in Int /\ e.cash \in Int
        /\ e.equity = in.cash + e.realized + e.unrealized
        /\ e.kind = "close_5pm_ct" => /\ e.day <= c.done
                                      /\ ~ (in.skip /\ e.day = Max(TradeDates(in)))
                                      /\ c.step = "mark" /\ e.day = c.done => e.cash = c.cash
    <3>1. ASSUME NEW e \in b.equity, e.kind = "close_5pm_ct" PROVE e.day # d
      <4>1. e.day < d /\ e.day \in Nat
        BY <2>1, <3>1, DatesAre
      <4> QED BY <1>4, <4>1
    <3>2. CASE in.skip /\ d = Max(TradeDates(in))
      BY <1>2, <2>1, <3>1, <3>2
    <3>3. CASE ~ (in.skip /\ d = Max(TradeDates(in)))
      <4>1. c.equity = b.equity \cup {m}
        BY <1>2, <3>3
      <4>2. /\ m.day \in TradeDates(in) /\ m.equity \in Int /\ m.cash \in Int
            /\ m.equity = in.cash + m.realized + m.unrealized
            /\ m.day <= c.done /\ ~ (in.skip /\ m.day = Max(TradeDates(in))) /\ m.cash = c.cash
        BY <1>2, <1>4, <1>9, <1>10, <3>3
      <4> QED BY <1>2, <2>1, <3>1, <4>1, <4>2
    <3> QED BY <3>2, <3>3
  <2>3. \/ \E e \in c.equity : e.cash < 0
        \/ in.skip /\ c.done \in TradeDates(in) /\ c.done = Max(TradeDates(in))
        \/ c.realized = Profits(ClosesIn(c.trades))
    <3>1. b.equity \subseteq c.equity
      BY <1>2
    <3>2. CASE \E e \in b.equity : e.cash < 0
      BY <3>1, <3>2
    <3>3. b.done # Max(TradeDates(in))
      <4>1. (\A e \in TradeDates(in) : e \in Int) /\ IsFiniteSet(TradeDates(in)) /\ TradeDates(in) # {}
        <5>1. IsFiniteSet(1..LastDay)
          <6>1. 1 \in Int /\ LastDay \in Int
            BY ConstantsAre
          <6> QED BY <6>1, FS_Interval
        <5>2. TradeDates(in) \subseteq 1..LastDay
          BY DatesAre DEF Days
        <5>3. IsFiniteSet(TradeDates(in))
          BY <5>1, <5>2, FS_Subset
        <5> QED BY <1>4, <5>2, <5>3
      <4>2. d <= Max(TradeDates(in)) /\ Max(TradeDates(in)) \in Int
        BY <1>4, <4>1, MaxIs
      <4> QED BY <1>4, <4>2
    <3>4. CASE b.realized = Profits(ClosesIn(b.trades)) /\ b.cash >= 0
      BY <1>2, <1>9, <3>4
    <3>5. CASE b.cash < 0
      <4>1. CASE in.skip /\ d = Max(TradeDates(in))
        BY <1>2, <1>4, <4>1
      <4>2. CASE ~ (in.skip /\ d = Max(TradeDates(in)))
        BY <1>2, <1>9, <1>10, <3>5, <4>2
      <4> QED BY <4>1, <4>2
    <3>6. b.cash < 0 \/ b.cash >= 0
      BY <1>7
    <3> QED BY <3>2, <3>3, <3>4, <3>5, <3>6 DEF BookInv, Money
  <2>4. c.budget \in Nat /\ c.step # "buy"
    BY <1>2 DEF BookInv, Money
  <2> QED BY <1>9, <2>2, <2>3, <2>4 DEF Money
<1> QED BY <1>2, <1>3, <1>5, <1>6, <1>11 DEF BookInv

\* Closing lots keeps the money: what they cost and what they made comes back as cash.
LEMMA MoneyCloses ==
  ASSUME NEW in, NEW b, NEW d, NEW c, NEW leaving, NEW side, NEW prices, NEW closes,
         IsInput(in), Ledger(b.lots, b.trades, b.next), Money(in, b), leaving \subseteq b.lots,
         side \in {"long_close", "stop_close"}, \A l \in leaving : prices[l] \in Positive,
         closes = ClosesFor(leaving, d, side, prices),
         c.lots = b.lots \ leaving, c.cash = b.cash + Proceeds(closes),
         c.realized = b.realized + Profits(closes), c.trades = b.trades \cup closes,
         c.equity = b.equity, c.done = b.done, c.budget = b.budget, c.next = b.next,
         c.step \notin {"mark", "buy"}
  PROVE  Money(in, c)
<1>1. /\ IsFiniteSet(b.lots) /\ IsFiniteSet(leaving) /\ IsFiniteSet(b.lots \ leaving)
      /\ \A l \in b.lots : IsLot(l)
      /\ \A l, m \in b.lots : SameLot(l, m) => l = m
  BY FS_Subset DEF Ledger
<1>2. Proceeds(closes) \in Int /\ Profits(closes) \in Int /\ Proceeds(closes) = Profits(closes) + Basis(leaving)
  <2>1. (\A l \in leaving : IsLot(l)) /\ (\A l, m \in leaving : SameLot(l, m) => l = m)
    BY <1>1
  <2> QED BY <1>1, <2>1, ProceedsAre
<1>3. Basis(b.lots \ leaving) \in Int /\ Basis(leaving) \in Int
      /\ Basis(b.lots) = Basis(b.lots \ leaving) + Basis(leaving)
  <2>1. (b.lots \ leaving) \cap leaving = {} /\ (b.lots \ leaving) \cup leaving = b.lots
    OBVIOUS
  <2> QED BY <1>1, <2>1, BasisSplits
<1>4. /\ ClosesIn(c.trades) = ClosesIn(b.trades) \cup closes
      /\ ClosesIn(b.trades) \cap closes = {}
      /\ \A t \in ClosesIn(b.trades) \cup closes : IsRow(t)
      /\ IsFiniteSet(ClosesIn(b.trades)) /\ IsFiniteSet(closes)
  <2>1. /\ Ledger(c.lots, c.trades, c.next)
        /\ ClosesIn(c.trades) = ClosesIn(b.trades) \cup closes
        /\ ClosesIn(b.trades) \cap closes = {}
    <3>1. AfterCloses(b.lots, b.trades, b.next, leaving, closes)
      BY LedgerCloses
    <3> QED BY <3>1 DEF AfterCloses
  <2>2. (\A t \in c.trades : IsRow(t)) /\ IsFiniteSet(c.trades)
    BY <2>1 DEF Ledger
  <2>3. ClosesIn(b.trades) \subseteq c.trades /\ closes \subseteq c.trades
    BY DEF ClosesIn
  <2> QED BY <2>1, <2>2, <2>3, FS_Subset
<1>5. /\ Profits(ClosesIn(b.trades)) \in Int
      /\ Profits(ClosesIn(c.trades)) = Profits(ClosesIn(b.trades)) + Profits(closes)
  BY <1>4, ProfitsSplit
<1>6. c.cash \in Int /\ c.realized \in Int /\ c.cash + Basis(c.lots) = in.cash + c.realized
  <2>1. PICK x \in Int, y \in Int : x = b.cash /\ y = b.realized
    BY DEF Money
  <2>2. PICK p \in Int, q \in Int : p = Proceeds(closes) /\ q = Profits(closes)
    BY <1>2
  <2>3. PICK u \in Int, v \in Int : u = Basis(b.lots \ leaving) /\ v = Basis(leaving)
    BY <1>3
  <2>4. PICK z \in Int : z = in.cash
    BY DEF IsInput
  <2>5. x + (u + v) = z + y
    BY <1>3, <2>1, <2>3, <2>4 DEF Money
  <2>6. p = q + v
    BY <1>2, <2>2, <2>3
  <2>7. (x + p) + u = z + (y + q)
    BY <2>5, <2>6
  <2>8. c.cash = x + p /\ c.realized = y + q /\ Basis(c.lots) = u
    BY <2>1, <2>2, <2>3
  <2> QED BY <2>4, <2>7, <2>8
<1>7. \/ \E e \in c.equity : e.cash < 0
      \/ in.skip /\ c.done \in TradeDates(in) /\ c.done = Max(TradeDates(in))
      \/ c.realized = Profits(ClosesIn(c.trades))
  BY <1>5 DEF Money
<1>8. \A e \in c.equity :
        /\ e.day \in TradeDates(in) /\ e.equity \in Int /\ e.cash \in Int
        /\ e.equity = in.cash + e.realized + e.unrealized
        /\ e.kind = "close_5pm_ct" => /\ e.day <= c.done
                                      /\ ~ (in.skip /\ e.day = Max(TradeDates(in)))
                                      /\ c.step = "mark" /\ e.day = c.done => e.cash = c.cash
  BY DEF Money
<1>9. c.budget \in Nat
  BY DEF Money
<1> QED BY <1>6, <1>7, <1>8, <1>9 DEF Money

\* Step 2 keeps the invariant of the book.
LEMMA Expires ==
  ASSUME NEW in, IsInput(in), NEW b, BookInv(in, b), NEW d, IsNext(in, d, b), b.step = "expire",
         NEW c, c = Expire(in, d, b)
  PROVE  BookInv(in, c)
<1>1. PICK leaving : leaving = Expired(in, b.lots, d)
  OBVIOUS
<1>2. PICK prices, closes :
           /\ prices = [lot \in leaving |-> Price(in, lot, d, "open")]
           /\ closes = ClosesFor(leaving, d, "long_close", prices)
           /\ IsBook(c) /\ c.step = "weigh" /\ c.done = b.done
           /\ c.budget = b.budget /\ c.next = b.next
           /\ c.cash = b.cash + Proceeds(closes) /\ c.realized = b.realized + Profits(closes)
           /\ c.lots = b.lots \ leaving /\ c.trades = b.trades \cup closes
           /\ c.positions = b.positions /\ c.equity = b.equity
  <2>1. IsBook(b)
    BY DEF BookInv, Frame
  <2> QED BY <1>1, <2>1, ExpireIs
<1>3. /\ d \in Days /\ d \in TradeDates(in) /\ d \in Nat /\ d > b.done /\ b.done \in Nat
      /\ \A e \in TradeDates(in) : e \in Nat
  BY NextIs DEF BookInv
<1>4. Frame(in, c) /\ IsNext(in, d, c)
  BY <1>2, FrameStays DEF BookInv
<1>5. leaving \subseteq b.lots /\ \A l \in leaving : Index(in, d) - Index(in, l.day) >= Holding
  BY <1>1 DEF Expired
<1>6. \A l \in b.lots \ leaving : ~ (Index(in, d) - Index(in, l.day) >= Holding)
  BY <1>1 DEF Expired
<1>7. (\A l \in b.lots : IsLot(l)) /\ IsFiniteSet(b.lots) /\ (\A l, m \in b.lots : SameLot(l, m) => l = m)
  BY DEF BookInv, Ledger
<1>8. \A l \in leaving : prices[l] \in Positive
  BY <1>2, <1>3, <1>5, <1>7, PriceIs
<1>9. PICK side : side = "long_close" /\ side \in {"long_close", "stop_close"}
  OBVIOUS
<1>10. closes = ClosesFor(leaving, d, side, prices)
  BY <1>2, <1>9
<1>11. /\ Ledger(c.lots, c.trades, c.next)
       /\ OpensIn(c.trades) = OpensIn(b.trades)
       /\ ClosesIn(c.trades) = ClosesIn(b.trades) \cup closes
  <2>1. Ledger(b.lots, b.trades, b.next)
    BY DEF BookInv
  <2>2. AfterCloses(b.lots, b.trades, b.next, leaving, closes)
    BY <1>5, <1>8, <1>9, <1>10, <2>1, LedgerCloses
  <2> QED BY <1>2, <2>2 DEF AfterCloses
<1>12. \A k \in closes : k.day = d /\ k.side = side /\ \E l \in leaving : SameLot(k, l)
  BY <1>5, <1>7, <1>8, <1>9, <1>10, ClosesAre
<1>13. /\ Past(in, c, Buying) = Past(in, b, Buying) /\ Past(in, c, Stopping) = Past(in, b, Stopping)
       /\ Past(in, b, Expiring) = {e \in TradeDates(in) : e < d}
       /\ Past(in, c, Expiring) = {e \in TradeDates(in) : e < d \/ e = d}
  <2>1. b.step \notin Expiring /\ c.step \in Expiring
    BY <1>2 DEF Expiring
  <2>2. Past(in, c, Buying) = Past(in, b, Buying) /\ Past(in, c, Stopping) = Past(in, b, Stopping)
    BY <1>2, PastStays DEF Buying, Stopping
  <2>3. Past(in, b, Expiring) = {e \in TradeDates(in) : e < d \/ (e = d /\ b.step \in Expiring)}
    BY PastIs DEF BookInv
  <2>4. Past(in, c, Expiring) = {e \in TradeDates(in) : e < d \/ (e = d /\ c.step \in Expiring)}
    BY <1>4, PastIs
  <2> QED BY <2>1, <2>2, <2>3, <2>4
<1>14. ASSUME NEW l \in c.lots, NEW e \in Past(in, c, Expiring)
       PROVE  Index(in, e) - Index(in, l.day) < Holding
  <2>1. CASE e < d
    <3>1. e \in Past(in, b, Expiring)
      BY <1>13, <2>1
    <3> QED BY <1>2, <3>1 DEF BookInv, Dated
  <2>2. CASE e = d
    <3>1. l \in b.lots \ leaving /\ l.day \in Days
      BY <1>2, <1>7 DEF IsLot
    <3>2. PICK x \in Days, y \in Days : x = d /\ y = l.day
      BY <1>3, <3>1
    <3>3. Index(in, x) \in Nat
      BY IndexNat
    <3>4. Index(in, y) \in Nat
      BY IndexNat
    <3>5. ~ (Index(in, x) - Index(in, y) >= Holding)
      BY <1>6, <3>1, <3>2
    <3>6. Index(in, x) - Index(in, y) < Holding
      BY <3>3, <3>4, <3>5, ConstantsAre
    <3> QED BY <2>2, <3>2, <3>6
  <2> QED BY <1>13, <2>1, <2>2
<1>15. Dated(in, c)
  <2>1. Past(in, b, Expiring) \subseteq Past(in, c, Expiring) /\ d \in Past(in, c, Expiring)
    BY <1>3, <1>13
  <2>2. Frame(in, b) /\ Dated(in, b) /\ Ledger(b.lots, b.trades, b.next)
    BY DEF BookInv
  <2>3. \A k \in ClosesIn(c.trades) :
            \/ k \in ClosesIn(b.trades)
            \/ k.day = d /\ \E l \in b.lots :
                  SameLot(k, l) /\ (k.side = "long_close" => Index(in, d) - Index(in, l.day) >= Holding)
    BY <1>5, <1>11, <1>12
  <2> QED BY <1>11, <1>13, <1>14, <2>1, <2>2, <2>3, DatedCloses
<1>16. Held(in, c)
  <2>1. Frame(in, b) /\ Held(in, b)
    BY DEF BookInv
  <2>2. b.trades \subseteq c.trades /\ (\A k \in ClosesIn(c.trades) : k \in ClosesIn(b.trades) \/ k.day = d)
        /\ ClosesIn(b.trades) \subseteq ClosesIn(c.trades)
    BY <1>2, <1>11, <1>12
  <2> QED BY <1>2, <1>11, <1>13, <2>1, <2>2, HeldExpires
<1>17. Money(in, c)
  <2>1. Ledger(b.lots, b.trades, b.next) /\ Money(in, b)
    BY DEF BookInv
  <2>2. /\ c.lots = b.lots \ leaving /\ c.cash = b.cash + Proceeds(closes)
        /\ c.realized = b.realized + Profits(closes) /\ c.trades = b.trades \cup closes
        /\ c.equity = b.equity /\ c.done = b.done /\ c.budget = b.budget /\ c.next = b.next
        /\ c.step \notin {"mark", "buy"}
    BY <1>2
  <2>3. leaving \subseteq b.lots
    BY <1>5
  <2> QED BY <1>8, <1>9, <1>10, <2>1, <2>2, <2>3, MoneyCloses, SMTT(30)
<1> QED BY <1>4, <1>11, <1>15, <1>16, <1>17 DEF BookInv

\* The slice keeps it: what it cost leaves the cash and enters the lots.
LEMMA Buys ==
  ASSUME NEW in, IsInput(in), NEW b, BookInv(in, b), NEW d, IsNext(in, d, b), b.step = "buy",
         NEW c, c = Buy(in, d, b)
  PROVE  BookInv(in, c)
<1>1. PICK slice : slice = Slice(in, d, b)
  OBVIOUS
<1>2. PICK opens : opens = {OpenRow(lot) : lot \in slice}
  OBVIOUS
<1>3. /\ IsBook(c) /\ c.step = "stop" /\ c.done = b.done /\ c.budget = b.budget /\ c.realized = b.realized
      /\ c.next = IF b.budget > 0 THEN b.next + 1 ELSE b.next
      /\ c.cash = b.cash - Basis(slice) /\ c.lots = b.lots \cup slice /\ c.trades = b.trades \cup opens
      /\ c.positions = b.positions /\ c.equity = b.equity
  <2>1. IsBook(b)
    BY DEF BookInv, Frame
  <2> QED BY <1>1, <1>2, <2>1, BuyIs
<1>4. d \in Days /\ d \in TradeDates(in) /\ d \in Nat
  BY NextIs DEF BookInv
<1>5. Frame(in, c) /\ IsNext(in, d, c)
  BY <1>3, FrameStays DEF BookInv
<1>6. /\ IsFiniteSet(slice) /\ \A l \in slice : IsLot(l) /\ l.lot = b.next /\ l.day = d
      /\ \A l, m \in slice : l.symbol = m.symbol => l = m
      /\ slice # {} => b.budget > 0
  <2>1. /\ b.budget \in Nat /\ DOMAIN b.weights \in SUBSET Symbols
        /\ \A s \in DOMAIN b.weights : b.weights[s] \in Int
        /\ b.next \in Nat
    BY DEF BookInv, Money, Ledger
  <2> QED BY <1>1, <1>4, <2>1, SliceIs
<1>7. /\ Ledger(c.lots, c.trades, c.next) /\ OpensIn(c.trades) = OpensIn(b.trades) \cup opens
      /\ ClosesIn(c.trades) = ClosesIn(b.trades) /\ b.lots \cap slice = {}
  <2>1. Ledger(b.lots, b.trades, b.next) /\ b.next \in Nat
    BY DEF BookInv, Ledger
  <2>2. c.next \in Nat /\ c.next >= b.next /\ (slice # {} => c.next > b.next)
    BY <1>3, <1>6, <2>1
  <2>3. AfterBuys(b.lots, b.trades, slice, opens, c.next)
    BY <1>2, <1>6, <2>1, <2>2, LedgerBuys
  <2> QED BY <1>3, <2>3 DEF AfterBuys
<1>8. \A t \in opens : t.day = d /\ t.lot = b.next
  <2> SUFFICES ASSUME NEW l \in slice PROVE OpenRow(l).day = d /\ OpenRow(l).lot = b.next
    BY <1>2
  <2> QED BY <1>6 DEF OpenRow
<1>9. /\ Past(in, c, Expiring) = Past(in, b, Expiring) /\ Past(in, c, Stopping) = Past(in, b, Stopping)
      /\ Past(in, b, Buying) \subseteq Past(in, c, Buying) /\ d \in Past(in, c, Buying)
  <2>1. c.step \in Buying
    BY <1>3 DEF Buying
  <2>2. Past(in, c, Expiring) = Past(in, b, Expiring) /\ Past(in, c, Stopping) = Past(in, b, Stopping)
    BY <1>3, PastStays DEF Expiring, Stopping
  <2>3. Past(in, b, Buying) = {e \in TradeDates(in) : e < d \/ (e = d /\ b.step \in Buying)}
    BY PastIs DEF BookInv
  <2>4. Past(in, c, Buying) = {e \in TradeDates(in) : e < d \/ (e = d /\ c.step \in Buying)}
    BY <1>5, PastIs
  <2> QED BY <1>4, <2>1, <2>2, <2>3, <2>4
<1>10. Dated(in, c)
  <2>1. Frame(in, b) /\ Dated(in, b) /\ Ledger(b.lots, b.trades, b.next)
    BY DEF BookInv
  <2>2. \A l \in c.lots : l \in b.lots \/ l.day = d
    BY <1>3, <1>6
  <2>3. \A t \in OpensIn(c.trades) : t \in OpensIn(b.trades) \/ (t.day = d /\ t.lot = b.next)
    BY <1>7, <1>8
  <2> QED BY <1>7, <1>9, <2>1, <2>2, <2>3, DatedBuys
<1>11. Held(in, c)
  <2>1. Frame(in, b) /\ Held(in, b)
    BY DEF BookInv
  <2>2. b.trades \subseteq c.trades /\ \A t \in OpensIn(c.trades) : t \in OpensIn(b.trades) \/ t.day = d
    BY <1>3, <1>7, <1>8
  <2> QED BY <1>3, <1>7, <1>9, <2>1, <2>2, HeldBuys
<1>12. Money(in, c)
  <2>1. (\A l \in b.lots : IsLot(l)) /\ IsFiniteSet(b.lots)
    BY LotsAre DEF BookInv
  <2>2. PICK u \in Int, v \in Int : u = Basis(b.lots) /\ v = Basis(slice) /\ Basis(b.lots \cup slice) = u + v
    <3>1. \A l \in b.lots \cup slice : IsLot(l)
      BY <1>6, <2>1
    <3>2. IsFiniteSet(b.lots) /\ IsFiniteSet(slice) /\ b.lots \cap slice = {}
      BY <1>6, <1>7, <2>1
    <3>3. Basis(b.lots) \in Int /\ Basis(slice) \in Int /\ Basis(b.lots \cup slice) = Basis(b.lots) + Basis(slice)
      BY <3>1, <3>2, BasisSplits
    <3> QED BY <3>3
  <2>3. PICK x \in Int, y \in Int, z \in Int : x = b.cash /\ y = b.realized /\ z = in.cash
    BY DEF BookInv, Money, IsInput
  <2>4. x + u = z + y
    BY <2>2, <2>3 DEF BookInv, Money
  <2>5. (x - v) + (u + v) = z + y
    BY <2>4
  <2>6. c.cash \in Int /\ c.realized \in Int /\ c.cash + Basis(c.lots) = in.cash + c.realized
    BY <1>3, <2>2, <2>3, <2>5
  <2>7. \/ \E e \in c.equity : e.cash < 0
        \/ in.skip /\ c.done \in TradeDates(in) /\ c.done = Max(TradeDates(in))
        \/ c.realized = Profits(ClosesIn(c.trades))
    BY <1>3, <1>7 DEF BookInv, Money
  <2>8. \A e \in c.equity :
        /\ e.day \in TradeDates(in) /\ e.equity \in Int /\ e.cash \in Int
        /\ e.equity = in.cash + e.realized + e.unrealized
        /\ e.kind = "close_5pm_ct" => /\ e.day <= c.done
                                      /\ ~ (in.skip /\ e.day = Max(TradeDates(in)))
                                      /\ c.step = "mark" /\ e.day = c.done => e.cash = c.cash
    BY <1>3 DEF BookInv, Money
  <2>9. c.budget \in Nat /\ c.step # "buy"
    BY <1>3 DEF BookInv, Money
  <2> QED BY <2>6, <2>7, <2>8, <2>9 DEF Money
<1> QED BY <1>5, <1>7, <1>10, <1>11, <1>12 DEF BookInv

\* Steps 4 and 5 keep it.
LEMMA StopsOut ==
  ASSUME NEW in, IsInput(in), NEW b, BookInv(in, b), NEW d, IsNext(in, d, b), b.step = "stop",
         NEW c, c = StopOut(in, d, b)
  PROVE  BookInv(in, c)
<1>1. PICK leaving : leaving = StoppedOut(in, d, b.lots)
  OBVIOUS
<1>2. PICK prices, closes :
           /\ prices = [lot \in leaving |-> lot.stop]
           /\ closes = ClosesFor(leaving, d, "stop_close", prices)
           /\ IsBook(c) /\ c.step = "close" /\ c.done = b.done
           /\ c.budget = b.budget /\ c.next = b.next
           /\ c.cash = b.cash + Proceeds(closes) /\ c.realized = b.realized + Profits(closes)
           /\ c.lots = b.lots \ leaving /\ c.trades = b.trades \cup closes
           /\ c.positions = b.positions \cup {[day |-> d, held |-> lot] : lot \in b.lots \ leaving}
           /\ c.equity = b.equity
  <2>1. IsBook(b)
    BY DEF BookInv, Frame
  <2> QED BY <1>1, <2>1, StopOutIs
<1>3. d \in Days /\ d \in TradeDates(in) /\ d \in Nat
  BY NextIs DEF BookInv
<1>4. Frame(in, c) /\ IsNext(in, d, c)
  BY <1>2, FrameStays DEF BookInv
<1>5. leaving \subseteq b.lots /\ \A l \in leaving : l.stop # 0
  BY <1>1 DEF StoppedOut, NoStop
<1>7. (\A l \in b.lots : IsLot(l)) /\ IsFiniteSet(b.lots) /\ (\A l, m \in b.lots : SameLot(l, m) => l = m)
  BY DEF BookInv, Ledger
<1>8. \A l \in leaving : prices[l] \in Positive
  BY <1>2, <1>5, <1>7 DEF IsLot, Positive
<1>9. PICK side : side = "stop_close" /\ side \in {"long_close", "stop_close"}
  OBVIOUS
<1>10. closes = ClosesFor(leaving, d, side, prices)
  BY <1>2, <1>9
<1>11. /\ Ledger(c.lots, c.trades, c.next)
       /\ OpensIn(c.trades) = OpensIn(b.trades)
       /\ ClosesIn(c.trades) = ClosesIn(b.trades) \cup closes
  <2>1. Ledger(b.lots, b.trades, b.next)
    BY DEF BookInv
  <2>2. AfterCloses(b.lots, b.trades, b.next, leaving, closes)
    BY <1>5, <1>8, <1>9, <1>10, <2>1, LedgerCloses
  <2> QED BY <1>2, <2>2 DEF AfterCloses
<1>12. \A k \in closes : k.day = d /\ k.side = side /\ \E l \in leaving : SameLot(k, l)
  BY <1>5, <1>7, <1>8, <1>9, <1>10, ClosesAre
<1>13. /\ Past(in, c, Buying) = Past(in, b, Buying) /\ Past(in, c, Expiring) = Past(in, b, Expiring)
       /\ d \in Past(in, c, Expiring)
  <2>1. c.step \in Expiring /\ b.step \in Expiring
    BY <1>2 DEF Expiring
  <2>2. Past(in, c, Buying) = Past(in, b, Buying) /\ Past(in, c, Expiring) = Past(in, b, Expiring)
    BY <1>2, PastStays DEF Buying, Expiring
  <2>3. Past(in, c, Expiring) = {e \in TradeDates(in) : e < d \/ (e = d /\ c.step \in Expiring)}
    BY <1>4, PastIs
  <2> QED BY <1>3, <2>1, <2>2, <2>3
<1>14. \A l \in c.lots, e \in Past(in, c, Expiring) : Index(in, e) - Index(in, l.day) < Holding
  BY <1>2, <1>13 DEF BookInv, Dated
<1>15. Dated(in, c)
  <2>1. Past(in, b, Expiring) \subseteq Past(in, c, Expiring) /\ d \in Past(in, c, Expiring)
    BY <1>13
  <2>2. Frame(in, b) /\ Dated(in, b) /\ Ledger(b.lots, b.trades, b.next)
    BY DEF BookInv
  <2>3. \A k \in ClosesIn(c.trades) :
            \/ k \in ClosesIn(b.trades)
            \/ k.day = d /\ \E l \in b.lots :
                  SameLot(k, l) /\ (k.side = "long_close" => Index(in, d) - Index(in, l.day) >= Holding)
    BY <1>5, <1>9, <1>11, <1>12
  <2> QED BY <1>11, <1>13, <1>14, <2>1, <2>2, <2>3, DatedCloses
<1>16. Held(in, c)
  <2>1. Frame(in, b) /\ Held(in, b) /\ Dated(in, b)
    BY DEF BookInv
  <2>2. b.trades \subseteq c.trades /\ (\A k \in ClosesIn(c.trades) : k \in ClosesIn(b.trades) \/ k.day = d)
        /\ ClosesIn(b.trades) \subseteq ClosesIn(c.trades) /\ c.lots \subseteq b.lots
    BY <1>2, <1>11, <1>12
  <2>3. c.positions = b.positions \cup {[day |-> d, held |-> l] : l \in c.lots}
    BY <1>2
  <2> QED BY <1>2, <1>11, <2>1, <2>2, <2>3, HeldStops
<1>17. Money(in, c)
  <2>1. Ledger(b.lots, b.trades, b.next) /\ Money(in, b)
    BY DEF BookInv
  <2>2. /\ c.lots = b.lots \ leaving /\ c.cash = b.cash + Proceeds(closes)
        /\ c.realized = b.realized + Profits(closes) /\ c.trades = b.trades \cup closes
        /\ c.equity = b.equity /\ c.done = b.done /\ c.budget = b.budget /\ c.next = b.next
        /\ c.step \notin {"mark", "buy"}
    BY <1>2
  <2>3. leaving \subseteq b.lots
    BY <1>5
  <2> QED BY <1>8, <1>9, <1>10, <2>1, <2>2, <2>3, MoneyCloses, SMTT(30)
<1> QED BY <1>4, <1>11, <1>15, <1>16, <1>17 DEF BookInv

\* Every step of the loop's body keeps the invariant of the book, and the book's writer.
LEMMA BodyKeeps ==
  ASSUME NEW in, IsInput(in), NEW b, BookInv(in, b), NEW d, IsNext(in, d, b), NEW c, Body(in, d, b, c)
  PROVE  BookInv(in, c) /\ c.by = b.by
<1>1. CASE b.step = "mark" /\ c = MarkAtOpen(in, d, b)
  <2>1. BookInv(in, c)
    BY <1>1, MarksAtOpen
  <2>2. IsBook(b)
    BY DEF BookInv, Frame
  <2>4. c.by = b.by
    BY <1>1, <2>2 DEF MarkAtOpen, IsBook
  <2> QED BY <2>1, <2>4
<1>2. CASE b.step = "expire" /\ c = Expire(in, d, b)
  <2>1. IsBook(b)
    BY DEF BookInv, Frame
  <2>2. c.by = b.by
    BY <1>2, <2>1, ExpireIs
  <2> QED BY <1>2, <2>2, Expires
<1>3. CASE b.step = "weigh" /\ c = Weigh(in, d, b)
  <2>1. IsBook(b)
    BY DEF BookInv, Frame
  <2>2. c.by = b.by
    BY <1>3, <2>1 DEF Weigh, IsBook
  <2> QED BY <1>3, <2>2, Weighs
<1>4. CASE b.step = "buy" /\ c = Buy(in, d, b)
  <2>1. IsBook(b)
    BY DEF BookInv, Frame
  <2>2. c.by = b.by
    BY <1>4, <2>1, BuyIs
  <2> QED BY <1>4, <2>2, Buys
<1>5. CASE b.step = "stop" /\ c = StopOut(in, d, b)
  <2>1. IsBook(b)
    BY DEF BookInv, Frame
  <2>2. c.by = b.by
    BY <1>5, <2>1, StopOutIs
  <2> QED BY <1>5, <2>2, StopsOut
<1>6. CASE b.step = "close" /\ c = MarkAtClose(in, d, b)
  <2>1. IsBook(b)
    BY DEF BookInv, Frame
  <2>2. c.by = b.by
    BY <1>6, <2>1 DEF MarkAtClose, IsBook
  <2> QED BY <1>6, <2>2, MarksAtClose
<1> QED BY <1>1, <1>2, <1>3, <1>4, <1>5, <1>6 DEF Body

\* The sums of nothing.
LEMMA NothingSums == Basis({}) = 0 /\ Profits({}) = 0
<1>1. PICK f, g : f = [l \in {} |-> l.qty * l.entry] /\ g = [t \in {} |-> t.pnl]
  OBVIOUS
<1>2. Basis({}) = Sum(f, {}) /\ Profits({}) = Sum(g, {})
  BY <1>1 DEF Basis, Profits, Sum, SumFunction, FoldFunction, SumFunctionOnSet
<1>3. Sum(f, {}) = 0 /\ Sum(g, {}) = 0
  BY SumPick, FS_EmptySet
<1> QED BY <1>2, <1>3

\* The book that a replay begins with.
LEMMA FreshIs ==
  ASSUME NEW w, NEW cash
  PROVE  [NoBook EXCEPT !.by = w, !.cash = cash] =
           [by |-> w, done |-> 0, step |-> "mark", budget |-> 0, weights |-> NoBook.weights,
            cash |-> cash, realized |-> 0, next |-> 0, lots |-> {},
            trades |-> {}, positions |-> {}, equity |-> {}]
<1>1. PICK none, n : none = NoBook.weights /\ n = NoBook
  OBVIOUS
<1>2. n = [by |-> "nobody", done |-> 0, step |-> "mark", budget |-> 0, weights |-> none,
           cash |-> 0, realized |-> 0, next |-> 0, lots |-> {},
           trades |-> {}, positions |-> {}, equity |-> {}]
  BY <1>1 DEF NoBook
<1>3. PICK b : b = [n EXCEPT !.by = w, !.cash = cash]
  OBVIOUS
<1>4. b = [by |-> w, done |-> 0, step |-> "mark", budget |-> 0, weights |-> none,
           cash |-> cash, realized |-> 0, next |-> 0, lots |-> {},
           trades |-> {}, positions |-> {}, equity |-> {}]
  BY <1>2, <1>3
<1> QED BY <1>1, <1>3, <1>4

\* A replay begins with a book that has it.
LEMMA FreshBook ==
  ASSUME NEW in, IsInput(in), NEW w, NEW none, NEW b,
         b = [by |-> w, done |-> 0, step |-> "mark", budget |-> 0, weights |-> none,
              cash |-> in.cash, realized |-> 0, next |-> 0, lots |-> {},
              trades |-> {}, positions |-> {}, equity |-> {}]
  PROVE  BookInv(in, b) /\ b.by = w
<1>3a. /\ b.done = 0 /\ b.step = "mark" /\ b.budget = 0 /\ b.cash = in.cash /\ b.realized = 0 /\ b.by = w
       /\ b.next = 0 /\ b.lots = {} /\ b.trades = {} /\ b.positions = {} /\ b.equity = {}
  OBVIOUS
<1>3b. IsBook(b)
  BY DEF IsBook, BookSteps
<1>5. OpensIn({}) = {} /\ ClosesIn({}) = {}
  BY DEF OpensIn, ClosesIn
<1>4. Frame(in, b)
  BY <1>3a, <1>3b DEF Frame
<1>6. Ledger(b.lots, b.trades, b.next)
  BY <1>3a, <1>5, FS_EmptySet DEF Ledger
<1>7. Dated(in, b)
  BY <1>3a, <1>5 DEF Dated
<1>8. Held(in, b)
  <2>1. \A d \in TradeDates(in) : d # 0
    BY DatesAre
  <2> QED BY <1>3a, <1>5, <2>1 DEF Held
<1>9. Money(in, b)
  <2>1. in.cash \in Int /\ b.cash + Basis(b.lots) = in.cash + b.realized
    BY <1>3a, NothingSums DEF IsInput
  <2>2. b.realized = Profits(ClosesIn(b.trades))
    BY <1>3a, <1>5, NothingSums
  <2> QED BY <1>3a, <2>1, <2>2 DEF Money
<1> QED BY <1>3a, <1>4, <1>6, <1>7, <1>8, <1>9 DEF BookInv

-----------------------------------------------------------------------------
(***************************************************************************)
(* The tables are those of a book that has done all its trade dates, or    *)
(* they hold no trade.                                                     *)
(***************************************************************************)
Finished(in, b) ==
  /\ BookInv(in, b) /\ TradeDates(in) # {} /\ b.done = Max(TradeDates(in)) /\ b.step = "mark"

IsEmpty(tab) ==
  /\ tab.trades = {} /\ tab.positions = {}
  /\ \A e \in tab.equity : e.day \in Days /\ e.equity \in Int /\ e.equity = tab.in.cash + e.realized + e.unrealized

Settled(tab) ==
  /\ IsInput(tab.in)
  /\ \/ IsEmpty(tab)
     \/ \E b : /\ Finished(tab.in, b) /\ tab.last = b.done
               /\ tab.trades = b.trades /\ tab.positions = b.positions /\ tab.equity = b.equity

\* All trade dates of a finished book are past.
LEMMA AllPast ==
  ASSUME NEW in, NEW b, Finished(in, b), NEW S \in {Expiring, Buying, Stopping}
  PROVE  /\ Past(in, b, S) = TradeDates(in)
         /\ b.done \in TradeDates(in) /\ \A d \in TradeDates(in) : d \in Nat /\ d <= b.done
<1>1. (\A e \in TradeDates(in) : e \in Int) /\ IsFiniteSet(TradeDates(in)) /\ TradeDates(in) # {}
  <2>1. IsFiniteSet(1..LastDay)
    <3>1. 1 \in Int /\ LastDay \in Int
      BY ConstantsAre
    <3> QED BY <3>1, FS_Interval
  <2>2. TradeDates(in) \subseteq 1..LastDay
    BY DatesAre DEF Days
  <2>3. IsFiniteSet(TradeDates(in))
    BY <2>1, <2>2, FS_Subset
  <2> QED BY <2>2, <2>3 DEF Finished
<1>2. Max(TradeDates(in)) \in TradeDates(in) /\ \A d \in TradeDates(in) : d <= Max(TradeDates(in))
  BY <1>1, MaxIs
<1>3. \A d \in TradeDates(in) : d \in Nat /\ d <= b.done
  BY <1>2, DatesAre DEF Finished
<1>4. b.step \notin S
  BY DEF Finished, Expiring, Buying, Stopping
<1>5. Past(in, b, S) = {e \in TradeDates(in) : e <= b.done}
  BY <1>4, PastOfDone
<1> QED BY <1>2, <1>3, <1>5 DEF Finished

\* What is settled is made of days, prices and quantities.
LEMMA SettledTypes ==
  ASSUME Settled(tables)
  PROVE  /\ \A e \in tables.equity : e.day \in Days /\ e.equity \in Int
         /\ \A t \in tables.trades : t.qty > 0 /\ t.price > 0
<1>1. CASE IsEmpty(tables)
  BY <1>1 DEF IsEmpty
<1>2. ASSUME NEW b, Finished(tables.in, b), tables.trades = b.trades, tables.equity = b.equity
      PROVE  /\ \A e \in tables.equity : e.day \in Days /\ e.equity \in Int
             /\ \A t \in tables.trades : t.qty > 0 /\ t.price > 0
  <2>1. \A t \in b.trades : t.qty \in Positive /\ t.price \in Positive
    BY <1>2 DEF Finished, BookInv, Ledger, IsRow
  <2>2. \A e \in b.equity : e.day \in Days /\ e.equity \in Int
    BY <1>2, DatesAre DEF Finished, BookInv, Money
  <2> QED BY <1>2, <2>1, <2>2 DEF Positive
<1> QED BY <1>1, <1>2 DEF Settled

\* What is settled balances.
LEMMA SettledBalances == ASSUME Settled(tables) PROVE BookBalances
<1>1. CASE IsEmpty(tables)
  BY <1>1 DEF IsEmpty, BookBalances
<1>2. ASSUME NEW b, Finished(tables.in, b), tables.last = b.done, tables.trades = b.trades,
             tables.positions = b.positions, tables.equity = b.equity
      PROVE  BookBalances
  <2>1. PICK in : in = tables.in
    OBVIOUS
  <2>2. \A e \in tables.equity : e.equity = tables.in.cash + e.realized + e.unrealized
    BY <1>2 DEF Finished, BookInv, Money
  <2>3. ASSUME NEW e \in tables.equity, e.day = tables.last, e.kind = "close_5pm_ct",
               \A f \in tables.equity : f.cash >= 0, \E p \in tables.positions : p.day = tables.last
        PROVE  e.cash = IntradayCash
    <3>1. e.cash = b.cash /\ ~ (in.skip /\ b.done = Max(TradeDates(in)))
      BY <1>2, <2>1, <2>3 DEF Finished, BookInv, Money
    <3>2. \A f \in b.equity : ~ f.cash < 0
      <4>1. \A f \in b.equity : f.cash \in Int
        BY <1>2 DEF Finished, BookInv, Money
      <4> QED BY <1>2, <2>3, <4>1
    <3>3. b.realized = Profits(ClosesIn(b.trades))
      BY <1>2, <2>1, <3>1, <3>2 DEF Finished, BookInv, Money
    <3>4. Profit = Profits(ClosesIn(b.trades))
      BY <1>2 DEF Profit, Closed, Opened, ClosesIn, OpensIn
    <3>5. HeldRows = b.lots
      <4>1. PICK dates : dates = {p.day : p \in b.positions}
        OBVIOUS
      <4>2. /\ Past(in, b, Stopping) = TradeDates(in) /\ b.done \in TradeDates(in)
            /\ \A d \in TradeDates(in) : d \in Nat /\ d <= b.done
        BY <1>2, <2>1, AllPast
      <4>3. \A p \in b.positions : p.day \in TradeDates(in)
        BY <1>2, <2>1, <4>2 DEF Finished, BookInv, Held
      <4>4. dates \subseteq TradeDates(in) /\ b.done \in dates
        BY <1>2, <2>3, <4>1, <4>3
      <4>5. dates \subseteq 1..LastDay
        BY <4>4, DatesAre DEF Days
      <4>6. IsFiniteSet(1..LastDay)
        <5>1. 1 \in Int /\ LastDay \in Int
          BY ConstantsAre
        <5> QED BY <5>1, FS_Interval
      <4>7. IsFiniteSet(dates) /\ dates # {} /\ \A d \in dates : d \in Int /\ d <= b.done
        <5>1. IsFiniteSet(dates)
          BY <4>5, <4>6, FS_Subset
        <5> QED BY <4>2, <4>4, <5>1
      <4>8. Max(dates) \in dates /\ \A d \in dates : d <= Max(dates)
        BY <4>7, MaxIs
      <4>9. Max(dates) = b.done
        BY <4>2, <4>4, <4>7, <4>8
      <4>10. {p.held : p \in {q \in b.positions : q.day = b.done}} = b.lots
        BY <1>2, <2>1, <4>2 DEF Finished, BookInv, Held
      <4> QED BY <1>2, <4>1, <4>9, <4>10 DEF HeldRows
    <3>6. b.cash \in Int /\ b.realized \in Int /\ b.cash + Basis(b.lots) = in.cash + b.realized
      BY <1>2, <2>1 DEF Finished, BookInv, Money
    <3>7. Basis(b.lots) \in Int
      <4>1. IsFiniteSet(b.lots) /\ \A l \in b.lots : IsLot(l)
        BY <1>2, LotsAre DEF Finished, BookInv
      <4>2. {} \cap b.lots = {} /\ IsFiniteSet({}) /\ \A l \in b.lots \cup {} : IsLot(l)
        BY <4>1, FS_EmptySet
      <4> QED BY <4>1, <4>2, BasisSplits
    <3>8. in.cash \in Int
      BY <2>1 DEF Settled, IsInput
    <3>9. IntradayCash = in.cash + b.realized - Basis(b.lots)
      BY <2>1, <3>3, <3>4, <3>5 DEF IntradayCash
    <3> QED BY <3>1, <3>6, <3>7, <3>8, <3>9
  <2> QED BY <2>2, <2>3 DEF BookBalances
<1> QED BY <1>1, <1>2 DEF Settled

\* What is settled shows the open lots.
LEMMA SettledPositions == ASSUME Settled(tables) PROVE PositionsAreOpenLots
<1>1. CASE IsEmpty(tables)
  BY <1>1 DEF IsEmpty, PositionsAreOpenLots, Opened
<1>2. ASSUME NEW b, Finished(tables.in, b), tables.last = b.done, tables.trades = b.trades,
             tables.positions = b.positions, tables.equity = b.equity
      PROVE  PositionsAreOpenLots
  <2>1. PICK in : in = tables.in
    OBVIOUS
  <2>2. Ledger(b.lots, b.trades, b.next) /\ Held(in, b) /\ Past(in, b, Stopping) = TradeDates(in)
    BY <1>2, <2>1, AllPast DEF Finished, BookInv
  <2>3. Opened = OpensIn(b.trades)
    BY <1>2 DEF Opened, OpensIn
  <2>4. \A t : ClosesOf(t) = {c \in ClosesIn(b.trades) : SameLot(c, t)}
    BY <1>2 DEF ClosesOf, ClosesIn, OpensIn, SameLot
  <2>5. ASSUME NEW t \in OpensIn(b.trades), NEW d \in TradeDates(in), NEW p \in b.positions, p.day = d, SameLot(p.held, t)
        PROVE  t.day <= d /\ \A c \in ClosesOf(t) : c.day > d
    <3>1. /\ OpenRow(p.held) \in b.trades /\ p.held.day <= p.day
          /\ \A c \in ClosesIn(b.trades) : SameLot(c, p.held) => c.day > p.day
      BY <2>2 DEF Held
    <3>2. OpenRow(p.held) \in OpensIn(b.trades) /\ SameLot(OpenRow(p.held), t) /\ OpenRow(p.held).day = p.held.day
      BY <2>5, <3>1 DEF OpenRow, OpensIn, SameLot
    <3>3. OpenRow(p.held) = t
      BY <2>2, <3>2 DEF Ledger
    <3>4. t.day = p.held.day
      BY <3>2, <3>3
    <3>5. \A c \in ClosesOf(t) : c \in ClosesIn(b.trades) /\ SameLot(c, p.held)
      BY <2>4, <2>5 DEF SameLot
    <3> QED BY <2>5, <3>1, <3>4, <3>5
  <2>6. ASSUME NEW t \in OpensIn(b.trades), NEW d \in TradeDates(in), t.day <= d, \A c \in ClosesOf(t) : c.day > d
        PROVE  \E p \in b.positions : p.day = d /\ SameLot(p.held, t)
    <3>1. \A c \in ClosesIn(b.trades) : SameLot(c, t) => c.day > d
      BY <2>4, <2>6
    <3> QED BY <2>2, <2>6, <3>1 DEF Held
  <2> QED BY <1>2, <2>1, <2>3, <2>5, <2>6 DEF PositionsAreOpenLots, SameLot
<1> QED BY <1>1, <1>2 DEF Settled

\* What is settled has lots leave once and as planned.
LEMMA SettledExits == ASSUME Settled(tables) PROVE ExitAsPlanned
<1>1. CASE IsEmpty(tables)
  BY <1>1 DEF IsEmpty, ExitAsPlanned, Opened
<1>2. ASSUME NEW b, Finished(tables.in, b), tables.last = b.done, tables.trades = b.trades,
             tables.positions = b.positions, tables.equity = b.equity
      PROVE  ExitAsPlanned
  <2>1. PICK in : in = tables.in
    OBVIOUS
  <2>2. Ledger(b.lots, b.trades, b.next) /\ Dated(in, b)
        /\ Past(in, b, Expiring) = TradeDates(in) /\ Past(in, b, Buying) = TradeDates(in)
    BY <1>2, <2>1, AllPast DEF Finished, BookInv
  <2>3. Opened = OpensIn(b.trades)
    BY <1>2 DEF Opened, OpensIn
  <2>4. \A t : ClosesOf(t) = {c \in ClosesIn(b.trades) : SameLot(c, t)}
    BY <1>2 DEF ClosesOf, ClosesIn, OpensIn, SameLot
  <2>5. \A t \in OpensIn(b.trades) : t.day \in TradeDates(in)
    BY <2>2 DEF Dated
  <2>6. \A c \in ClosesIn(b.trades) : c.day \in TradeDates(in)
    BY <2>2 DEF Dated
  <2>7. \A d \in TradeDates(in) : d \in Days /\ d \in Nat
    BY DatesAre
  <2>8. ASSUME NEW t \in OpensIn(b.trades) PROVE Cardinality(ClosesOf(t)) <= 1
    <3>1. CASE ClosesOf(t) = {}
      BY <3>1, FS_EmptySet
    <3>2. ASSUME NEW c \in ClosesOf(t) PROVE ClosesOf(t) = {c}
      <4>1. \A e \in ClosesOf(t) : e = c
        BY <2>2, <2>4 DEF Ledger, SameLot
      <4> QED BY <4>1
    <3>3. \A c : Cardinality({c}) = 1
      BY FS_Singleton
    <3> QED BY <3>1, <3>2, <3>3
  <2>9. ASSUME NEW t \in OpensIn(b.trades), NEW c \in ClosesOf(t)
        PROVE  /\ c.qty = t.qty /\ c.day >= t.day
               /\ c.side = "long_close" => c.day >= PlannedExit(t.day)
    <3>1. c \in ClosesIn(b.trades) /\ SameLot(c, t)
      BY <2>4
    <3>2. c.qty = t.qty
      <4>1. PICK u \in OpensIn(b.trades) : SameLot(c, u) /\ c.qty = u.qty
        BY <2>2, <3>1 DEF Ledger
      <4>2. SameLot(u, t)
        BY <3>1, <4>1 DEF SameLot
      <4>3. \A v, w \in OpensIn(b.trades) : SameLot(v, w) => v = w
        BY <2>2 DEF Ledger
      <4>4. u = t
        BY <4>1, <4>2, <4>3
      <4> QED BY <4>1, <4>4
    <3>3. t.day <= c.day /\ (c.side = "long_close" => Index(in, c.day) - Index(in, t.day) >= Holding)
      BY <2>2, <3>1 DEF Dated
    <3>4. PICK x \in Days, y \in Days : x = t.day /\ y = c.day /\ x \in Nat /\ y \in Nat
      BY <2>5, <2>6, <2>7, <3>1
    <3>5. Index(in, x) \in Nat /\ Index(in, y) \in Nat /\ Index(in, y) - Index(in, x) <= y - x
      BY <3>3, <3>4, IndexIs
    <3>6. c.side = "long_close" => y >= x + Holding
      BY <3>3, <3>4, <3>5, ConstantsAre
    <3> QED BY <3>2, <3>3, <3>4, <3>6 DEF PlannedExit
  <2>10. ASSUME NEW t \in OpensIn(b.trades), t.day..PlannedExit(t.day) \subseteq TradeDates(in)
         PROVE  \E c \in ClosesOf(t) : c.day <= PlannedExit(t.day)
    <3>1. PICK x \in Days : x = t.day /\ x \in Nat
      BY <2>5, <2>7
    <3>2. PICK e \in Nat : e = PlannedExit(t.day) /\ e = x + Holding /\ x <= e
      BY <3>1, ConstantsAre DEF PlannedExit
    <3>3. e \in x..e /\ e \in TradeDates(in) /\ e \in Days /\ \A z \in x..e : z \in TradeDates(in)
      BY <2>7, <2>10, <3>1, <3>2
    <3>4. Index(in, e) - Index(in, x) = e - x
      BY <3>2, <3>3, IndexIs
    <3>5. ~ (Index(in, e) - Index(in, x) < Holding)
      <4>1. Holding \in Nat
        BY ConstantsAre
      <4>2. e - x = Holding /\ ~ (Holding < Holding)
        BY <3>1, <3>2, <4>1
      <4> QED BY <3>4, <4>2
    <3>6. \A l \in b.lots : ~ SameLot(l, t)
      <4> SUFFICES ASSUME NEW l \in b.lots, SameLot(l, t) PROVE FALSE
        OBVIOUS
      <4>1. SameLot(t, l)
        BY DEF SameLot
      <4>2. t.day = l.day
        BY <2>2, <4>1, RowOfLot
      <4>3. Index(in, e) - Index(in, l.day) < Holding
        BY <2>2, <3>3 DEF Dated
      <4> QED BY <3>1, <3>5, <4>2, <4>3
    <3>7. PICK c \in ClosesIn(b.trades) : SameLot(c, t)
      BY <2>2, <3>6 DEF Ledger
    <3>8. ~ (e < c.day)
      BY <2>2, <3>1, <3>3, <3>5, <3>7 DEF Dated
    <3>9. c.day \in Nat
      BY <2>6, <2>7
    <3> QED BY <2>4, <3>2, <3>7, <3>8, <3>9
  <2> QED BY <2>1, <2>3, <2>8, <2>9, <2>10 DEF ExitAsPlanned
<1> QED BY <1>1, <1>2 DEF Settled

-----------------------------------------------------------------------------
(***************************************************************************)
(* The invariant.                                                          *)
(***************************************************************************)
Quote == {k \in [open : Nat, high : Nat, low : Nat, close : Nat] : k # NoBar => k.open > 0}
Quotes == [Symbols -> [Days -> Quote]]

StoreInv ==
  /\ day \in Days /\ phase \in {"morning", "evening"} /\ upsets \in 0..MaxUpsets
  /\ market \in Quotes /\ bars \in Quotes
  /\ picks \in [Days -> [Symbols -> Int]]
  /\ \A s \in Symbols, d \in Days : d > day => bars[s][d] = NoBar /\ market[s][d] = NoBar
  /\ \A s \in Symbols, d \in Days : d > day => picks[d][s] = NoRow

WriterInv ==
  /\ DOMAIN at = Writers /\ DOMAIN input = Writers
  /\ at["tick"] \in {"refresh", "predict", "replay", "save", "done"} /\ at["rebuild"] \in {"idle", "save"}
  /\ \A w \in Writers : IsInput(input[w])
  /\ book.by \in Writers \cup {"nobody"}
  /\ book.by \in Writers => /\ at[book.by] = "save" /\ TradeDates(input[book.by]) # {}
                            /\ BookInv(input[book.by], book)

PaperInv == StoreInv /\ WriterInv /\ Settled(tables)

\* No bar is a quote, of zeroes.
LEMMA NoBarIs == NoBar \in Quote /\ NoBar.open = 0
BY DEF NoBar, Bar, Quote

\* So is whatever the exchange quotes.
LEMMA QuotesAre == \A s : Early(s) \subseteq Quote /\ Full(s) \subseteq Quote
<1>1. \A o, h, l, c \in Nat : o > 0 => Bar(o, h, l, c) \in Quote
  BY DEF Bar, Quote
<1>2. NoBar \in Quote /\ Flat \in Quote /\ Dip \in Quote /\ Bounce \in Quote
  BY <1>1, NoBarIs DEF Flat, Dip, Bounce
<1> QED BY <1>1, <1>2 DEF Early, Full

\* A quote is a bar the replay can work with.
LEMMA QuoteIs == ASSUME NEW k \in Quote PROVE IsBar(k)
BY DEF Quote, IsBar

\* An input nobody has read yet is one.
LEMMA NoInputIs == IsInput(NoInput)
<1>1. \A s \in Symbols, d \in Days : NoInput.bars[s][d] = NoBar /\ NoInput.picks[d][s] = -1
  BY DEF NoInput, NoBars, NoPicks, NoRow
<1>2. NoInput.cash \in Int /\ NoInput.from \in Days /\ NoInput.skip \in BOOLEAN
  BY ConstantsAre DEF NoInput, Days
<1> QED BY <1>1, <1>2, NoBarIs, QuoteIs DEF IsInput

\* What backtest reads is an input, whatever has been stored by then.
LEMMA LoadedIs == ASSUME StoreInv, NEW w \in Writers PROVE IsInput(Loaded(w))
<1>1. PICK in : in = Loaded(w)
  OBVIOUS
<1>2. in.picks = picks /\ in.bars = bars /\ in.skip \in BOOLEAN
      /\ in.cash \in {Cash, RebuildCash} /\ in.from \in {1, day}
  BY <1>1 DEF Loaded
<1>3. 1 \in Days /\ Cash \in Int /\ RebuildCash \in Int /\ day \in Days
  BY ConstantsAre DEF Days, StoreInv
<1>4. \A s \in Symbols, d \in Days : in.bars[s][d] \in Quote /\ in.picks[d][s] \in Int
  BY <1>2 DEF StoreInv, Quotes
<1> QED BY <1>1, <1>2, <1>3, <1>4, QuoteIs DEF IsInput

\* A symbol's bars with today's in place.
LEMMA QuotedIs ==
  ASSUME NEW m \in Quotes, NEW d \in Days, NEW q, \A s \in Symbols : q[s] \in Quote,
         NEW n, n = [s \in Symbols |-> [m[s] EXCEPT ![d] = q[s]]]
  PROVE  n \in Quotes /\ \A s \in Symbols, e \in Days : e # d => n[s][e] = m[s][e]
BY DEF Quotes

\* Tables without a run row, and a flat curve, are settled.
LEMMA SettledEmpty == Settled(NoTables) /\ \A in : IsInput(in) => Settled(Seeded(in))
<1>1. Settled(NoTables)
  <2>1. /\ NoTables.in = NoInput /\ NoTables.trades = {} /\ NoTables.positions = {} /\ NoTables.equity = {}
    BY DEF NoTables
  <2> QED BY <2>1, NoInputIs DEF Settled, IsEmpty
<1>2. ASSUME NEW in, IsInput(in) PROVE Settled(Seeded(in))
  <2>1. PICK tab : tab = Seeded(in)
    OBVIOUS
  <2>2. /\ tab.in = in /\ tab.trades = {} /\ tab.positions = {}
        /\ \A e \in tab.equity : e.day = in.from /\ e.equity = in.cash /\ e.realized = 0 /\ e.unrealized = 0
    BY <2>1 DEF Seeded
  <2>3. in.cash \in Int /\ in.from \in Days
    BY <1>2 DEF IsInput
  <2> QED BY <1>2, <2>1, <2>2, <2>3 DEF Settled, IsEmpty
<1> QED BY <1>1, <1>2

\* A book that may be committed has done its last date to the end.
LEMMA CommittedIsFinished ==
  ASSUME NEW in, NEW b, BookInv(in, b), TradeDates(in) # {}, b.done = Max(TradeDates(in))
  PROVE  Finished(in, b)
<1>1. b.step = "mark"
  <2>1. SUFFICES ASSUME b.step # "mark" PROVE FALSE
    OBVIOUS
  <2>2. PICK d \in Days : IsNext(in, d, b)
    BY <2>1 DEF BookInv, Frame
  <2>3. d \in TradeDates(in) /\ d > b.done /\ d \in Nat /\ b.done \in Nat
    BY <2>2, NextIs DEF BookInv
  <2>4. IsFiniteSet(TradeDates(in)) /\ \A e \in TradeDates(in) : e \in Int
    <3>1. 1 \in Int /\ LastDay \in Int
      BY ConstantsAre
    <3>2. IsFiniteSet(1..LastDay)
      BY <3>1, FS_Interval
    <3>3. TradeDates(in) \subseteq 1..LastDay
      BY DatesAre DEF Days
    <3>4. IsFiniteSet(TradeDates(in))
      BY <3>2, <3>3, FS_Subset
    <3> QED BY <3>3, <3>4
  <2>5. d <= Max(TradeDates(in))
    BY <2>3, <2>4, MaxIs
  <2> QED BY <2>3, <2>5
<1> QED BY <1>1 DEF Finished

\* So are the tables that a commit leaves.
LEMMA SettledCommits ==
  ASSUME NEW in, IsInput(in), NEW b, BookInv(in, b), TradeDates(in) # {}, b.done = Max(TradeDates(in))
  PROVE  Settled(Committed(in, b))
<1>1. PICK tab : tab = Committed(in, b)
  OBVIOUS
<1>2. /\ tab.in = in /\ tab.last = Max(TradeDates(in)) /\ tab.trades = b.trades
      /\ tab.positions = b.positions /\ tab.equity = b.equity
  BY <1>1 DEF Committed
<1>3. Finished(in, b)
  BY CommittedIsFinished
<1> QED BY <1>1, <1>2, <1>3 DEF Settled

\* The invariant holds at the start.
LEMMA InitHolds == Init => PaperInv
<1> SUFFICES ASSUME Init PROVE PaperInv
  OBVIOUS
<1>1. 1 \in Days /\ 0 \in 0..MaxUpsets /\ day = 1
  BY ConstantsAre DEF Days, Init
<1>2. NoBars \in Quotes /\ bars = NoBars
  BY NoBarIs DEF NoBars, Quotes, Init
<1>3. market \in Quotes /\ \A s \in Symbols, e \in Days : e # 1 => market[s][e] = NoBar
  <2>1. PICK early : /\ \A s \in Symbols : early[s] \in Early(s)
                     /\ market = [s \in Symbols |-> [NoBars[s] EXCEPT ![1] = early[s]]]
    BY DEF Init
  <2>2. \A s \in Symbols : early[s] \in Quote
    BY <2>1, QuotesAre
  <2>3. market \in Quotes /\ \A s \in Symbols, e \in Days : e # 1 => market[s][e] = NoBars[s][e]
    BY <1>1, <1>2, <2>1, <2>2, QuotedIs
  <2> QED BY <2>3 DEF NoBars
<1>4. picks \in [Days -> [Symbols -> Int]] /\ \A s \in Symbols, e \in Days : picks[e][s] = NoRow
  BY DEF Init, NoPicks, NoRow
<1>5. StoreInv
  <2>1. \A e \in Days : e \in Nat
    BY DatesAre
  <2>2. \A s \in Symbols, e \in Days : bars[s][e] = NoBar
    BY <1>2 DEF NoBars
  <2> QED BY <1>1, <1>2, <1>3, <1>4, <2>1, <2>2 DEF StoreInv, Init
<1>6. WriterInv
  <2>1. \A w \in Writers : IsInput(input[w])
    BY NoInputIs DEF Init
  <2>2. at["tick"] = "refresh" /\ at["rebuild"] = "idle" /\ DOMAIN at = Writers /\ DOMAIN input = Writers
    BY DEF Init, Writers
  <2>3. book.by = "nobody"
    BY DEF Init, NoBook
  <2> QED BY <2>1, <2>2, <2>3 DEF WriterInv, Writers
<1>7. Settled(tables)
  BY SettledEmpty DEF Init
<1> QED BY <1>5, <1>6, <1>7 DEF PaperInv

\* What a step leaves alone.
LEMMA StoreStays ==
  ASSUME StoreInv, UNCHANGED <<day, phase, market, bars, picks>>, upsets' \in 0..MaxUpsets
  PROVE  StoreInv'
BY DEF StoreInv

\* Upsets are bounded.
LEMMA UpsetsAre ==
  ASSUME StoreInv, UNCHANGED upsets \/ Upset
  PROVE  upsets' \in 0..MaxUpsets
BY ConstantsAre DEF StoreInv, Upset

\* A step of the pipeline that concerns no replay.
LEMMA WritersStay ==
  ASSUME WriterInv, UNCHANGED <<input, book>>,
         DOMAIN at' = Writers, at'["tick"] \in {"refresh", "predict", "replay", "save", "done"},
         at'["rebuild"] \in {"idle", "save"}, \A w \in Writers : at[w] = "save" => at'[w] = "save"
  PROVE  WriterInv'
BY DEF WriterInv

\* The tick goes on to its next step, its replay not being the open one.
LEMMA TickMoves ==
  ASSUME PaperInv, NEW p \in {"refresh", "predict", "replay", "save", "done"}, at["tick"] # "save",
         at' = [at EXCEPT !["tick"] = p], UNCHANGED <<input, book>>
  PROVE  WriterInv'
<1>1. /\ DOMAIN at' = Writers /\ at'["tick"] = p /\ at'["rebuild"] = at["rebuild"]
      /\ at["rebuild"] \in {"idle", "save"}
  BY DEF PaperInv, WriterInv, Writers
<1>2. \A w \in Writers : at[w] = "save" => at'[w] = "save"
  BY <1>1 DEF Writers
<1> QED BY <1>1, <1>2, WritersStay DEF PaperInv

\* us_yfinance_refresh, and its failing, keep the invariant.
LEMMA RefreshKeeps == PaperInv /\ Refresh => PaperInv'
<1> SUFFICES ASSUME PaperInv, Refresh PROVE PaperInv'
  OBVIOUS
<1>1. WriterInv' /\ Settled(tables)'
  BY TickMoves DEF Refresh, PaperInv
<1>2. upsets' \in 0..MaxUpsets
  BY UpsetsAre DEF Refresh, PaperInv
<1>3. StoreInv'
  <2>1. bars' \in {bars, market} /\ UNCHANGED <<day, phase, market, picks>>
    BY DEF Refresh, Fetched, clockVars
  <2> QED BY <1>2, <2>1 DEF StoreInv, PaperInv
<1> QED BY <1>1, <1>3 DEF PaperInv

\* daily_predict, and its failing, keep it: rows are logged for today only.
LEMMA PredictKeeps == PaperInv /\ Predict => PaperInv'
<1> SUFFICES ASSUME PaperInv, Predict PROVE PaperInv'
  OBVIOUS
<1>1. WriterInv' /\ Settled(tables)'
  BY TickMoves DEF Predict, PaperInv
<1>2. upsets' \in 0..MaxUpsets
  BY UpsetsAre DEF Predict, PaperInv
<1>3. picks' \in [Days -> [Symbols -> Int]] /\ \A e \in Days : e # day => picks'[e] = picks[e]
  <2>1. CASE UNCHANGED picks
    BY <2>1 DEF PaperInv, StoreInv
  <2>2. ASSUME NEW best, picks' = [picks EXCEPT ![day] =
                    [s \in Symbols |-> IF bars[s][day] = NoBar THEN picks[day][s]
                                       ELSE IF s = best THEN 2 ELSE 1]]
        PROVE  picks' \in [Days -> [Symbols -> Int]] /\ \A e \in Days : e # day => picks'[e] = picks[e]
    <3>1. picks \in [Days -> [Symbols -> Int]] /\ day \in Days
      BY DEF PaperInv, StoreInv
    <3>2. PICK row : row = [s \in Symbols |-> IF bars[s][day] = NoBar THEN picks[day][s]
                                              ELSE IF s = best THEN 2 ELSE 1]
      OBVIOUS
    <3>3. row \in [Symbols -> Int]
      BY <3>1, <3>2
    <3>4. picks' = [picks EXCEPT ![day] = row]
      BY <2>2, <3>2
    <3> QED BY <3>1, <3>3, <3>4
  <2> QED BY <2>1, <2>2 DEF Predict
<1>4. StoreInv'
  <2>1. UNCHANGED <<day, phase, market, bars>>
    BY DEF Predict, clockVars
  <2>2. \A e \in Days : e \in Nat
    BY DatesAre
  <2>3. \A s \in Symbols, d \in Days : d > day => picks'[d][s] = NoRow
    BY <1>3, <2>2 DEF StoreInv, PaperInv
  <2> QED BY <1>2, <1>3, <2>1, <2>3 DEF StoreInv, PaperInv
<1> QED BY <1>1, <1>4 DEF PaperInv

\* The end of a session keeps it.
LEMMA CloseKeeps == PaperInv /\ Close => PaperInv'
<1> SUFFICES ASSUME PaperInv, Close PROVE PaperInv'
  OBVIOUS
<1>1. WriterInv' /\ Settled(tables)'
  BY TickMoves DEF Close, Quiet, PaperInv
<1>2. PICK full : /\ \A s \in Symbols : full[s] \in Full(s)
                  /\ market' = [s \in Symbols |-> [market[s] EXCEPT ![day] = full[s]]]
  BY DEF Close
<1>3. \A s \in Symbols : full[s] \in Quote
  BY <1>2, QuotesAre
<1>4. market' \in Quotes /\ \A s \in Symbols, e \in Days : e # day => market'[s][e] = market[s][e]
  <2>1. PICK m, d, n : m \in Quotes /\ d \in Days /\ m = market /\ d = day /\ n = market'
    BY DEF PaperInv, StoreInv
  <2>2. n = [s \in Symbols |-> [m[s] EXCEPT ![d] = full[s]]]
    BY <1>2, <2>1
  <2>3. n \in Quotes /\ \A s \in Symbols, e \in Days : e # d => n[s][e] = m[s][e]
    <3>1. PICK q : q = full /\ \A s \in Symbols : q[s] \in Quote
      BY <1>3
    <3>2. n = [s \in Symbols |-> [m[s] EXCEPT ![d] = q[s]]]
      BY <2>2, <3>1
    <3>3. m \in Quotes /\ d \in Days /\ \A s \in Symbols : q[s] \in Quote
      BY <2>1, <3>1
    <3> QED BY <3>2, <3>3, QuotedIs
  <2> QED BY <2>1, <2>3
<1>5. phase' = "evening" /\ UNCHANGED <<day, bars, picks, upsets>>
  BY DEF Close
<1>6. \A e \in Days : e \in Nat
  BY DatesAre
<1>7. StoreInv'
  BY <1>4, <1>5, <1>6 DEF StoreInv, PaperInv
<1> QED BY <1>1, <1>7 DEF PaperInv

\* The next session's opening keeps it.
LEMMA OpenKeeps == PaperInv /\ Open => PaperInv'
<1> SUFFICES ASSUME PaperInv, Open PROVE PaperInv'
  OBVIOUS
<1>1. WriterInv' /\ Settled(tables)'
  BY TickMoves DEF Open, Quiet, PaperInv
<1>2. PICK early : /\ \A s \in Symbols : early[s] \in Early(s)
                   /\ market' = [s \in Symbols |-> [market[s] EXCEPT ![day + 1] = early[s]]]
  BY DEF Open
<1>3. \A s \in Symbols : early[s] \in Quote
  BY <1>2, QuotesAre
<1>4. phase' = "morning" /\ day' = day + 1 /\ UNCHANGED <<bars, picks, upsets>>
  BY DEF Open
<1>5. day \in Days /\ day + 1 \in Days /\ \A e \in Days : e \in Nat
  BY ConstantsAre DEF Days, Open, PaperInv, StoreInv
<1>6. market' \in Quotes /\ \A s \in Symbols, e \in Days : e # day + 1 => market'[s][e] = market[s][e]
  <2>1. PICK m, d, n : m \in Quotes /\ d \in Days /\ m = market /\ d = day + 1 /\ n = market'
    BY <1>5 DEF PaperInv, StoreInv
  <2>2. n = [s \in Symbols |-> [m[s] EXCEPT ![d] = early[s]]]
    BY <1>2, <2>1
  <2>3. n \in Quotes /\ \A s \in Symbols, e \in Days : e # d => n[s][e] = m[s][e]
    BY <1>3, <2>1, <2>2, QuotedIs
  <2> QED BY <2>1, <2>3
<1>7. \A e \in Days : e > day' => e > day /\ e # day + 1
  BY <1>4, <1>5
<1>8. StoreInv'
  BY <1>4, <1>5, <1>6, <1>7 DEF StoreInv, PaperInv
<1> QED BY <1>1, <1>8 DEF PaperInv

\* A writer that reads its inputs keeps it.
LEMMA LoadKeeps == ASSUME PaperInv, NEW w \in Writers, Load(w) PROVE PaperInv'
<1>1. upsets' \in 0..MaxUpsets
  BY UpsetsAre DEF Load, PaperInv
<1>2. StoreInv'
  BY <1>1, StoreStays DEF Load, PaperInv, clockVars
<1>3. WriterInv'
  <2>1. PICK in : in = Loaded(w) /\ IsInput(in)
    BY LoadedIs DEF PaperInv
  <2>2. /\ at[w] # "save" /\ at' = [at EXCEPT ![w] = "save"]
        /\ input' = [input EXCEPT ![w] = in] /\ book' = book
    BY <2>1 DEF Load
  <2>3. /\ DOMAIN at = Writers /\ DOMAIN input = Writers
        /\ at["tick"] \in {"refresh", "predict", "replay", "save", "done"} /\ at["rebuild"] \in {"idle", "save"}
    BY DEF PaperInv, WriterInv
  <2>4. /\ DOMAIN at' = Writers /\ DOMAIN input' = Writers
        /\ \A v \in Writers : v # w => at'[v] = at[v] /\ input'[v] = input[v]
        /\ at'[w] = "save" /\ input'[w] = in
    BY <2>2, <2>3
  <2>5. \A v \in Writers : IsInput(input'[v])
    BY <2>1, <2>4 DEF PaperInv, WriterInv
  <2>6. at'["tick"] \in {"refresh", "predict", "replay", "save", "done"} /\ at'["rebuild"] \in {"idle", "save"}
    BY <2>3, <2>4 DEF Writers
  <2>7. book.by # w
    BY <2>2 DEF PaperInv, WriterInv
  <2>8. book'.by \in Writers => /\ at'[book'.by] = "save" /\ TradeDates(input'[book'.by]) # {}
                                /\ BookInv(input'[book'.by], book')
    BY <2>2, <2>4, <2>7 DEF PaperInv, WriterInv
  <2>9. book'.by \in Writers \cup {"nobody"}
    BY <2>2 DEF PaperInv, WriterInv
  <2> QED BY <2>4, <2>5, <2>6, <2>8, <2>9 DEF WriterInv
<1>4. Settled(tables)'
  BY DEF Load, PaperInv
<1> QED BY <1>2, <1>3, <1>4 DEF PaperInv

\* A step that changes nothing but the book.
LEMMA BookMoves ==
  ASSUME PaperInv, NEW w \in Writers, at[w] = "save", TradeDates(input[w]) # {},
         BookInv(input[w], book'), book'.by = w,
         UNCHANGED <<clockVars, bars, picks, at, input, tables, upsets>>
  PROVE  PaperInv'
<1>1. upsets' \in 0..MaxUpsets
  BY DEF PaperInv, StoreInv
<1>2. StoreInv'
  BY <1>1, StoreStays DEF PaperInv, clockVars
<1>3. WriterInv'
  BY DEF PaperInv, WriterInv
<1> QED BY <1>2, <1>3 DEF PaperInv

\* The transaction's begin keeps it: the book is a fresh one.
LEMMA BeginKeeps == ASSUME PaperInv, NEW w \in Writers, Begin(w) PROVE PaperInv'
<1>1. PICK in, cash, none : in = input[w] /\ cash = in.cash /\ none = NoBook.weights
  OBVIOUS
<1>2. PICK b : b = book'
  OBVIOUS
<1>3. b = [NoBook EXCEPT !.by = w, !.cash = cash]
  BY <1>1, <1>2 DEF Begin
<1>4. b = [by |-> w, done |-> 0, step |-> "mark", budget |-> 0, weights |-> none,
           cash |-> in.cash, realized |-> 0, next |-> 0, lots |-> {},
           trades |-> {}, positions |-> {}, equity |-> {}]
  BY <1>1, <1>3, FreshIs
<1>5. IsInput(in)
  BY <1>1 DEF PaperInv, WriterInv
<1>6. BookInv(in, b) /\ b.by = w
  BY <1>4, <1>5, FreshBook
<1> QED BY <1>1, <1>2, <1>6, BookMoves DEF Begin

\* A step of the replay keeps it, the other writer being out.
LEMMA TradeKeeps == ASSUME PaperInv, NEW w \in Writers, Trade(w) PROVE PaperInv'
<1>1. PICK in, b, c : in = input[w] /\ b = book /\ c = book'
  OBVIOUS
<1>2. b.by = w /\ at[w] = "save" /\ TradeDates(in) # {} /\ BookInv(in, b) /\ IsInput(in)
  BY <1>1 DEF Trade, PaperInv, WriterInv
<1>3. PICK d \in Days : IsNext(in, d, b) /\ Body(in, d, b, c)
  BY <1>1 DEF Trade
<1>4. BookInv(in, c) /\ c.by = b.by
  BY <1>2, <1>3, BodyKeeps
<1> QED BY <1>1, <1>2, <1>4, BookMoves DEF Trade

\* A writer that ends, and closes its book if one is open.
LEMMA WriterEnds ==
  ASSUME PaperInv, NEW w \in Writers,
         at' = [at EXCEPT ![w] = Rests(w)], input' = [input EXCEPT ![w] = NoInput],
         book' = NoBook \/ (book' = book /\ book.by # w)
  PROVE  WriterInv'
<1>1. PICK none : none = NoInput /\ IsInput(none)
  BY NoInputIs
<1>2. /\ DOMAIN at = Writers /\ DOMAIN input = Writers
      /\ at["tick"] \in {"refresh", "predict", "replay", "save", "done"} /\ at["rebuild"] \in {"idle", "save"}
  BY DEF PaperInv, WriterInv
<1>3. /\ DOMAIN at' = Writers /\ DOMAIN input' = Writers
      /\ \A v \in Writers : v # w => at'[v] = at[v] /\ input'[v] = input[v]
      /\ at'[w] = Rests(w) /\ input'[w] = none
  BY <1>1, <1>2
<1>4. \A v \in Writers : IsInput(input'[v])
  BY <1>1, <1>3 DEF PaperInv, WriterInv
<1>5. at'["tick"] \in {"refresh", "predict", "replay", "save", "done"} /\ at'["rebuild"] \in {"idle", "save"}
  BY <1>2, <1>3 DEF Writers, Rests
<1>6. CASE book' = NoBook
  <2>1. book'.by = "nobody" /\ "nobody" \notin Writers
    BY <1>6 DEF NoBook, Writers
  <2> QED BY <1>3, <1>4, <1>5, <2>1 DEF WriterInv
<1>7. CASE book' = book /\ book.by # w
  <2>1. book'.by \in Writers \cup {"nobody"}
    BY <1>7 DEF PaperInv, WriterInv
  <2>2. book'.by \in Writers => /\ at'[book'.by] = "save" /\ TradeDates(input'[book'.by]) # {}
                                /\ BookInv(input'[book'.by], book')
    BY <1>3, <1>7 DEF PaperInv, WriterInv
  <2> QED BY <1>3, <1>4, <1>5, <2>1, <2>2 DEF WriterInv
<1> QED BY <1>6, <1>7

\* The commit keeps it: the tables are those of a finished book.
LEMMA CommitKeeps == ASSUME PaperInv, NEW w \in Writers, Commit(w) PROVE PaperInv'
<1>1. WriterInv'
  BY WriterEnds DEF Commit, Ends
<1>2. StoreInv'
  <2>1. upsets' \in 0..MaxUpsets
    BY DEF Commit, PaperInv, StoreInv
  <2> QED BY <2>1, StoreStays DEF Commit, PaperInv, clockVars
<1>3. Settled(tables)'
  <2>1. PICK in, b, tab : in = input[w] /\ b = book /\ tab = tables'
    OBVIOUS
  <2>2. IsInput(in) /\ BookInv(in, b) /\ TradeDates(in) # {} /\ b.done = Max(TradeDates(in))
        /\ tab = Committed(in, b)
    BY <2>1 DEF Commit, PaperInv, WriterInv
  <2>3. Settled(tab)
    BY <2>2, SettledCommits
  <2> QED BY <2>1, <2>3
<1> QED BY <1>1, <1>2, <1>3 DEF PaperInv

\* A rollback keeps it: the tables stay, the book is dropped.
LEMMA RollbackKeeps == ASSUME PaperInv, NEW w \in Writers, Rollback(w) PROVE PaperInv'
<1>1. WriterInv'
  BY WriterEnds DEF Rollback
<1>2. StoreInv'
  <2>1. upsets' \in 0..MaxUpsets
    BY UpsetsAre DEF Rollback, PaperInv
  <2> QED BY <2>1, StoreStays DEF Rollback, PaperInv, clockVars
<1>3. Settled(tables)'
  BY DEF Rollback, PaperInv
<1> QED BY <1>1, <1>2, <1>3 DEF PaperInv

\* The flat curve keeps it.
LEMMA SeedKeeps == ASSUME PaperInv, NEW w \in Writers, Seed(w) PROVE PaperInv'
<1>1. WriterInv'
  BY WriterEnds DEF Seed, Ends
<1>2. StoreInv'
  <2>1. upsets' \in 0..MaxUpsets
    BY DEF Seed, PaperInv, StoreInv
  <2> QED BY <2>1, StoreStays DEF Seed, PaperInv, clockVars
<1>3. Settled(tables)'
  <2>1. PICK in, tab : in = input[w] /\ tab = tables'
    OBVIOUS
  <2>2. IsInput(in) /\ tab = Seeded(in)
    BY <2>1 DEF Seed, PaperInv, WriterInv
  <2>3. Settled(tab)
    BY <2>2, SettledEmpty
  <2> QED BY <2>1, <2>3
<1> QED BY <1>1, <1>2, <1>3 DEF PaperInv

\* So does a step that changes nothing.
LEMMA StutterKeeps == PaperInv /\ UNCHANGED vars => PaperInv'
<1> SUFFICES ASSUME PaperInv, UNCHANGED vars PROVE PaperInv'
  OBVIOUS
<1>1. StoreInv'
  BY DEF PaperInv, StoreInv, vars
<1>2. WriterInv'
  BY DEF PaperInv, WriterInv, vars
<1> QED BY <1>1, <1>2 DEF PaperInv, vars

\* The inductive invariant holds of every behaviour: clock and store are well formed, the
\* replay that holds the transaction satisfies BookInv, and the committed tables are those of
\* a finished replay or hold no trade.
THEOREM PaperInvHolds == Spec => []PaperInv
<1>1. Init => PaperInv
  BY InitHolds
<1>2. PaperInv /\ [Next]_vars => PaperInv'
  <2>1. ASSUME PaperInv, Next PROVE PaperInv'
    <3>1. ASSUME NEW w \in Writers,
                 Load(w) \/ Begin(w) \/ Trade(w) \/ Commit(w) \/ Rollback(w) \/ Seed(w)
          PROVE  PaperInv'
      BY <2>1, <3>1, LoadKeeps, BeginKeeps, TradeKeeps, CommitKeeps, RollbackKeeps, SeedKeeps
    <3> QED BY <2>1, <3>1, RefreshKeeps, PredictKeeps, CloseKeeps, OpenKeeps DEF Next
  <2> QED BY <2>1, StutterKeeps
<1> QED BY <1>1, <1>2, PTL DEF Spec

\* The types of the state, and of the rows the dashboard reads.
THEOREM PaperTypes == Spec => []TypeOK
<1>1. PaperInv => TypeOK
  <2> SUFFICES ASSUME PaperInv PROVE TypeOK
    OBVIOUS
  <2>1. /\ \A e \in tables.equity : e.day \in Days /\ e.equity \in Int
        /\ \A t \in tables.trades : t.qty > 0 /\ t.price > 0
    BY SettledTypes DEF PaperInv
  <2>2. \A d \in TradeDates([picks |-> picks]) : d <= day
    <3>1. PICK in : in = [picks |-> picks]
      OBVIOUS
    <3>2. ASSUME NEW d \in TradeDates(in) PROVE d <= day
      <4>1. d \in Days /\ \E s \in Symbols : picks[d][s] # NoRow
        BY <3>1 DEF TradeDates
      <4>2. ~ (d > day)
        BY <4>1 DEF PaperInv, StoreInv
      <4>3. d \in Nat /\ day \in Nat
        BY <4>1, DatesAre DEF PaperInv, StoreInv
      <4> QED BY <4>2, <4>3
    <3> QED BY <3>1, <3>2
  <2> QED BY <2>1, <2>2 DEF TypeOK, PaperInv, StoreInv, WriterInv
<1> QED BY <1>1, PaperInvHolds, PTL

\* Every mark is the starting cash plus the realized and the unrealized profit
\* (engine.py:942-952), and with no interest charged the cash that the live mark derives
\* from trades and positions is the engine's (routes/paper.py:856-863).
THEOREM BooksBalance == Spec => []BookBalances
<1>1. PaperInv => BookBalances
  BY SettledBalances DEF PaperInv
<1> QED BY <1>1, PaperInvHolds, PTL

\* The positions shown for a day are the lots open after it (engine.py:1123-1134).
THEOREM PositionsAreOpen == Spec => []PositionsAreOpenLots
<1>1. PaperInv => PositionsAreOpenLots
  BY SettledPositions DEF PaperInv
<1> QED BY <1>1, PaperInvHolds, PTL

\* A lot leaves once, never before its planned exit unless stopped, and by then when every
\* session in between is a trade date (engine.py:954-965, routes/paper.py:371-433).
THEOREM ExitsAreKept == Spec => []ExitAsPlanned
<1>1. PaperInv => ExitAsPlanned
  BY SettledExits DEF PaperInv
<1> QED BY <1>1, PaperInvHolds, PTL

-----------------------------------------------------------------------------
(***************************************************************************)
(* Two replays on inputs that agree up to the open of a day.               *)
(***************************************************************************)
Alike(a, b, d) == IsInput(a) /\ IsInput(b) /\ d \in Days /\ SameBasis(a, b, d)

\* They have the same trade dates, equally numbered.
LEMMA DatesAlike ==
  ASSUME NEW a, NEW b, NEW d, Alike(a, b, d), NEW e \in Days, e <= d
  PROVE  (e \in TradeDates(a) <=> e \in TradeDates(b)) /\ Index(a, e) = Index(b, e)
<1>1. ASSUME NEW x \in Days, x <= d PROVE x \in TradeDates(a) <=> x \in TradeDates(b)
  <2>1. x \in 1..d /\ a.picks[x] = b.picks[x]
    <3>1. d \in Nat /\ x \in Nat /\ x >= 1
      BY DatesAre DEF Alike
    <3>2. x \in 1..d
      BY <1>1, <3>1
    <3> QED BY <3>2 DEF Alike, SameBasis
  <2> QED BY <2>1 DEF TradeDates
<1>2. {x \in TradeDates(a) : x < e} = {x \in TradeDates(b) : x < e}
  <2>1. \A x \in Days : x < e => x <= d
    <3>1. d \in Nat /\ e \in Nat /\ \A x \in Days : x \in Nat
      BY DatesAre DEF Alike
    <3> QED BY <3>1
  <2>2. \A x : x \in TradeDates(a) \/ x \in TradeDates(b) => x \in Days
    BY DatesAre
  <2> QED BY <1>1, <2>1, <2>2
<1> QED BY <1>1, <1>2 DEF Index

\* They see the same bars before the day, and its open.
LEMMA BarsAlike ==
  ASSUME NEW a, NEW b, NEW d, Alike(a, b, d), NEW s \in Symbols, NEW e \in Int, e <= d
  PROVE  /\ HasBar(a, s, e) <=> HasBar(b, s, e)
         /\ BarOf(a, s, e).open = BarOf(b, s, e).open
         /\ e < d => BarOf(a, s, e) = BarOf(b, s, e)
<1>1. d \in Nat /\ d \in Days /\ d <= LastDay /\ LastDay \in Nat
  BY DatesAre, ConstantsAre DEF Alike, Days
<1>2. CASE e < 1
  BY <1>2 DEF BarOf, HasBar
<1>3. CASE e >= 1 /\ e < d
  <2>1. e \in 1..(d - 1) /\ ~ e < 1
    BY <1>1, <1>3
  <2>2. a.bars[s][e] = b.bars[s][e]
    BY <2>1 DEF Alike, SameBasis
  <2>3. BarOf(a, s, e) = BarOf(b, s, e)
    BY <2>1, <2>2 DEF BarOf
  <2> QED BY <2>3 DEF HasBar
<1>4. CASE e = d
  <2>1. ~ d < 1
    BY <1>1 DEF Days
  <2>2. PICK j, k : j = a.bars[s][d] /\ k = b.bars[s][d] /\ j = BarOf(a, s, d) /\ k = BarOf(b, s, d)
    BY <2>1 DEF BarOf
  <2>3. j.open = k.open
    BY <2>2 DEF Alike, SameBasis
  <2>4. IsBar(j) /\ IsBar(k)
    BY <1>1, <2>2 DEF Alike, IsInput
  <2>5. j # NoBar <=> k # NoBar
    BY <2>3, <2>4, NoBarIs DEF IsBar
  <2>6. ~ d < d
    BY <1>1
  <2> QED BY <1>4, <2>2, <2>3, <2>5, <2>6 DEF HasBar
<1> QED BY <1>1, <1>2, <1>3, <1>4

\* Their windows agree, and what is read off them.
LEMMA WindowsAlike ==
  ASSUME NEW a, NEW b, NEW d, Alike(a, b, d), NEW s \in Symbols, NEW e \in Days, e <= d
  PROVE  RollingLow(a, s, e) = RollingLow(b, s, e) /\ RollingATR(a, s, e) = RollingATR(b, s, e)
<1>1. d \in Nat /\ e \in Nat /\ AtrDays \in Nat
  BY DatesAre, ConstantsAre DEF Alike
<1>2. \A x \in Int : x < e => x <= d /\ x < d
  BY <1>1
<1>3. \A x \in Int : x < e => (HasBar(a, s, x) <=> HasBar(b, s, x)) /\ BarOf(a, s, x) = BarOf(b, s, x)
  BY <1>2, BarsAlike
<1>4. Before(a, s, e) = Before(b, s, e)
  <2>1. \A x \in (0 - AtrDays)..(e - 1) : x \in Int /\ x < e
    BY <1>1
  <2> QED BY <1>3, <2>1 DEF Before
<1>5. \A x \in Before(a, s, e) : x \in Int /\ x < e
  BY BeforeIs
<1>6. RollingLow(a, s, e) = RollingLow(b, s, e)
  <2>1. PICK W : W = Newest(Before(a, s, e), Lookback) /\ W = Newest(Before(b, s, e), Lookback)
    BY <1>4
  <2>2. \A x \in W : BarOf(a, s, x).low = BarOf(b, s, x).low
    BY <1>3, <1>5, <2>1 DEF Newest
  <2>3. {BarOf(a, s, x).low : x \in W} = {BarOf(b, s, x).low : x \in W}
    BY <2>2
  <2> QED BY <2>1, <2>3 DEF RollingLow
<1>7. RollingATR(a, s, e) = RollingATR(b, s, e)
  <2>1. PICK W : W = Newest(Before(a, s, e), AtrDays + 1) /\ W = Newest(Before(b, s, e), AtrDays + 1)
    BY <1>4
  <2>2. \A x \in W : x \in Int /\ x < e /\ BarOf(a, s, x) = BarOf(b, s, x)
    BY <1>3, <1>5, <2>1 DEF Newest
  <2>3. PICK prior : prior = [x \in W |-> Max({p \in W : p < x})]
    OBVIOUS
  <2>4. IsFiniteSet(W) /\ W # {}
    <3>1. AtrDays + 1 \in Nat /\ AtrDays + 1 > 0
      BY <1>1
    <3> QED BY <2>1, <3>1, BeforeIs, NewestIs
  <2>5. Min(W) \in W /\ \A x \in W : Min(W) <= x
    BY <2>2, <2>4, MinIs
  <2>6. \A x \in W \ {Min(W)} : prior[x] \in W
    <3> TAKE x \in W \ {Min(W)}
    <3>1. PICK P : P = {p \in W : p < x}
      OBVIOUS
    <3>2. Min(W) \in P
      BY <2>2, <2>5, <3>1
    <3>3. IsFiniteSet(P) /\ \A p \in P : p \in Int
      BY <2>2, <2>4, <3>1, FS_Subset
    <3>4. Max(P) \in P
      BY <3>2, <3>3, MaxIs
    <3> QED BY <2>3, <3>1, <3>4
  <2>7. PICK r : r = [x \in W \ {Min(W)} |-> TrueRange(BarOf(a, s, x), BarOf(a, s, prior[x]))]
    OBVIOUS
  <2>8. r = [x \in W \ {Min(W)} |-> TrueRange(BarOf(b, s, x), BarOf(b, s, prior[x]))]
    <3>1. \A x \in W \ {Min(W)} : BarOf(a, s, x) = BarOf(b, s, x) /\ BarOf(a, s, prior[x]) = BarOf(b, s, prior[x])
      BY <2>2, <2>6
    <3> QED BY <2>7, <3>1
  <2>9. r = [x \in W \ {Min(W)} |-> TrueRange(BarOf(a, s, x), BarOf(a, s, Max({p \in W : p < x})))]
    BY <2>3, <2>7
  <2>10. r = [x \in W \ {Min(W)} |-> TrueRange(BarOf(b, s, x), BarOf(b, s, Max({p \in W : p < x})))]
    BY <2>3, <2>8
  <2>11. RollingATR(a, s, e) = IF Cardinality(W) < 2 THEN 0 ELSE SumFunction(r) \div (Cardinality(W) - 1)
    BY <2>1, <2>9 DEF RollingATR
  <2>12. RollingATR(b, s, e) = IF Cardinality(W) < 2 THEN 0 ELSE SumFunction(r) \div (Cardinality(W) - 1)
    BY <2>1, <2>10 DEF RollingATR
  <2> QED BY <2>11, <2>12
<1> QED BY <1>6, <1>7

\* They price a lot alike at an open, and at an earlier close.
LEMMA PricesAlike ==
  ASSUME NEW a, NEW b, NEW d, Alike(a, b, d), NEW l, IsLot(l), NEW e \in Days, e <= d,
         NEW field \in {"open", "close"}, field = "close" => e < d
  PROVE  Price(a, l, e, field) = Price(b, l, e, field)
<1>1. l.symbol \in Symbols /\ e \in Int
  BY DatesAre DEF IsLot
<1>2. PICK j, k : j = BarOf(a, l.symbol, e) /\ k = BarOf(b, l.symbol, e)
  OBVIOUS
<1>3. (HasBar(a, l.symbol, e) <=> HasBar(b, l.symbol, e)) /\ j.open = k.open /\ (e < d => j = k)
  BY <1>1, <1>2, BarsAlike
<1>4. j[field] = k[field]
  BY <1>3
<1> QED BY <1>2, <1>3, <1>4 DEF Price

\* So their marks agree.
LEMMA MarksAlike ==
  ASSUME NEW a, NEW b, NEW d, Alike(a, b, d), NEW lots, \A l \in lots : IsLot(l), NEW e \in Days, e <= d,
         NEW field \in {"open", "close"}, field = "close" => e < d, NEW cash, NEW realized, NEW kind
  PROVE  Mark(a, lots, cash, realized, e, kind, field) = Mark(b, lots, cash, realized, e, kind, field)
<1>1. [l \in lots |-> l.qty * Price(a, l, e, field)] = [l \in lots |-> l.qty * Price(b, l, e, field)]
  BY PricesAlike
<1>2. Value(a, lots, e, field) = Value(b, lots, e, field)
  BY <1>1 DEF Value
<1> QED BY <1>2 DEF Mark

\* They rank and weigh the same picks.
LEMMA PicksAlike ==
  ASSUME NEW a, NEW b, NEW d, Alike(a, b, d), NEW e \in Days, e <= d
  PROVE  [s \in TopLongs(a, e) |-> RawWeight(a, s, e)] = [s \in TopLongs(b, e) |-> RawWeight(b, s, e)]
<1>1. a.picks[e] = b.picks[e]
  <2>1. d \in Nat /\ e \in Nat /\ e >= 1
    BY DatesAre DEF Alike
  <2>2. e \in 1..d
    BY <2>1
  <2> QED BY <2>2 DEF Alike, SameBasis
<1>2. TopLongs(a, e) = TopLongs(b, e)
  BY <1>1 DEF TopLongs
<1>3. \A s \in Symbols : RawWeight(a, s, e) = RawWeight(b, s, e)
  BY <1>1, WindowsAlike DEF RawWeight
<1>4. TopLongs(a, e) \subseteq Symbols
  BY DEF TopLongs
<1> QED BY <1>2, <1>3, <1>4

\* They buy the same slice with the same budget.
LEMMA SlicesAlike ==
  ASSUME NEW a, NEW b, NEW d, Alike(a, b, d), NEW e \in Days, e <= d, NEW x, NEW y,
         x.budget = y.budget, x.weights = y.weights, x.next = y.next, DOMAIN x.weights \in SUBSET Symbols
  PROVE  Slice(a, e, x) = Slice(b, e, y)
<1>1. e \in Int
  BY DatesAre
<1>2. \A s \in Symbols : (HasBar(a, s, e) <=> HasBar(b, s, e)) /\ BarOf(a, s, e).open = BarOf(b, s, e).open
  BY <1>1, BarsAlike
<1>3. \A s \in Symbols : Shares(a, s, e, x) = Shares(b, s, e, y)
  BY <1>2 DEF Shares
<1>4. \A s \in Symbols : StopLevel(a, s, e, BarOf(a, s, e).open) = StopLevel(b, s, e, BarOf(b, s, e).open)
  BY <1>2, WindowsAlike DEF StopLevel
<1>5. PICK T : T = {t \in DOMAIN x.weights : x.budget > 0 /\ HasBar(a, t, e) /\ Shares(a, t, e, x) > 0}
  OBVIOUS
<1>6. T = {t \in DOMAIN y.weights : y.budget > 0 /\ HasBar(b, t, e) /\ Shares(b, t, e, y) > 0}
  BY <1>2, <1>3, <1>5
<1>7. T \subseteq Symbols
  BY <1>5
<1>8. PICK f : f = [s \in T |-> [lot |-> x.next, symbol |-> s, qty |-> Shares(a, s, e, x),
                                 entry |-> BarOf(a, s, e).open, day |-> e,
                                 stop |-> StopLevel(a, s, e, BarOf(a, s, e).open)]]
  OBVIOUS
<1>9. f = [s \in T |-> [lot |-> y.next, symbol |-> s, qty |-> Shares(b, s, e, y),
                        entry |-> BarOf(b, s, e).open, day |-> e,
                        stop |-> StopLevel(b, s, e, BarOf(b, s, e).open)]]
  BY <1>2, <1>3, <1>4, <1>7, <1>8
<1>10. Slice(a, e, x) = {f[s] : s \in T}
  BY <1>5, <1>8 DEF Slice
<1>11. Slice(b, e, y) = {f[s] : s \in T}
  BY <1>6, <1>9 DEF Slice
<1> QED BY <1>10, <1>11

\* Two books that differ in nothing but their writer.
SameBook(x, y) ==
  /\ IsBook(x) /\ IsBook(y) /\ x.done = y.done /\ x.step = y.step /\ x.budget = y.budget /\ x.weights = y.weights
  /\ x.cash = y.cash /\ x.realized = y.realized /\ x.next = y.next /\ x.lots = y.lots
  /\ x.trades = y.trades /\ x.positions = y.positions /\ x.equity = y.equity

\* Step 1 writes the same into both.
LEMMA MarksAtOpenAlike ==
  ASSUME NEW a, NEW b, NEW d, Alike(a, b, d), NEW e \in Days, e <= d, NEW x, NEW y, SameBook(x, y),
         \A l \in x.lots : IsLot(l)
  PROVE  SameBook(MarkAtOpen(a, e, x), MarkAtOpen(b, e, y))
<1>1. PICK m : m = Mark(a, x.lots, x.cash, x.realized, e, "open_8am_ct", "open")
  OBVIOUS
<1>2. m = Mark(b, y.lots, y.cash, y.realized, e, "open_8am_ct", "open")
  <2>1. Mark(a, x.lots, x.cash, x.realized, e, "open_8am_ct", "open")
          = Mark(b, x.lots, x.cash, x.realized, e, "open_8am_ct", "open")
    BY MarksAlike
  <2> QED BY <1>1, <2>1 DEF SameBook
<1>3. PICK c, k : c = MarkAtOpen(a, e, x) /\ k = MarkAtOpen(b, e, y)
  OBVIOUS
<1>4. IsBook(x) /\ IsBook(y)
  BY DEF SameBook
<1>5. PICK n : n = Max({0, m.equity \div Holding})
  OBVIOUS
<1>6. c = [x EXCEPT !.step = "expire", !.equity = x.equity \cup {m}, !.budget = n]
  BY <1>1, <1>3, <1>5 DEF MarkAtOpen
<1>7. k = [y EXCEPT !.step = "expire", !.equity = y.equity \cup {m}, !.budget = n]
  BY <1>2, <1>3, <1>5 DEF MarkAtOpen
<1>8. IsBook(c) /\ IsBook(k)
  BY <1>4, <1>6, <1>7 DEF IsBook, BookSteps
<1>9. SameBook(c, k)
  BY <1>4, <1>6, <1>7, <1>8 DEF SameBook, IsBook
<1> QED BY <1>3, <1>9

\* Step 2 does: the lots are equally old, and leave at the same open.
LEMMA ExpiresAlike ==
  ASSUME NEW a, NEW b, NEW d, Alike(a, b, d), NEW e \in Days, e <= d, NEW x, NEW y, SameBook(x, y),
         \A l \in x.lots : IsLot(l) /\ l.day <= d
  PROVE  SameBook(Expire(a, e, x), Expire(b, e, y))
<1>1. PICK c, k : c = Expire(a, e, x) /\ k = Expire(b, e, y)
  OBVIOUS
<1>2. IsBook(x) /\ IsBook(y) /\ x.lots = y.lots
  BY DEF SameBook
<1>3. PICK leaving : leaving = Expired(a, x.lots, e)
  OBVIOUS
<1>4. leaving = Expired(b, y.lots, e)
  <2>1. \A l \in x.lots : Index(a, l.day) = Index(b, l.day)
    BY DatesAlike DEF IsLot
  <2>2. Index(a, e) = Index(b, e)
    BY DatesAlike
  <2> QED BY <1>2, <1>3, <2>1, <2>2 DEF Expired
<1>5. PICK prices : prices = [l \in leaving |-> Price(a, l, e, "open")]
  OBVIOUS
<1>6. prices = [l \in leaving |-> Price(b, l, e, "open")]
  <2>1. \A l \in leaving : IsLot(l)
    BY <1>3 DEF Expired
  <2>2. \A l \in leaving : Price(a, l, e, "open") = Price(b, l, e, "open")
    BY <2>1, PricesAlike
  <2> QED BY <1>5, <2>2
<1>7. PICK closes : closes = ClosesFor(leaving, e, "long_close", prices)
  OBVIOUS
<1>8. /\ IsBook(c) /\ c.step = "weigh" /\ c.done = x.done
      /\ c.budget = x.budget /\ c.weights = x.weights /\ c.next = x.next
      /\ c.cash = x.cash + Proceeds(closes) /\ c.realized = x.realized + Profits(closes)
      /\ c.lots = x.lots \ leaving /\ c.trades = x.trades \cup closes
      /\ c.positions = x.positions /\ c.equity = x.equity
  BY <1>1, <1>2, <1>3, <1>5, <1>7, ExpireIs
<1>9. /\ IsBook(k) /\ k.step = "weigh" /\ k.done = y.done
      /\ k.budget = y.budget /\ k.weights = y.weights /\ k.next = y.next
      /\ k.cash = y.cash + Proceeds(closes) /\ k.realized = y.realized + Profits(closes)
      /\ k.lots = y.lots \ leaving /\ k.trades = y.trades \cup closes
      /\ k.positions = y.positions /\ k.equity = y.equity
  BY <1>1, <1>2, <1>4, <1>6, <1>7, ExpireIs
<1>10. SameBook(c, k)
  BY <1>8, <1>9 DEF SameBook
<1> QED BY <1>1, <1>10

\* The first half of step 3 does: same scores, same ranges.
LEMMA WeighsAlike ==
  ASSUME NEW a, NEW b, NEW d, Alike(a, b, d), NEW e \in Days, e <= d, NEW x, NEW y, SameBook(x, y)
  PROVE  SameBook(Weigh(a, e, x), Weigh(b, e, y))
<1>1. PICK c, k : c = Weigh(a, e, x) /\ k = Weigh(b, e, y)
  OBVIOUS
<1>2. IsBook(x) /\ IsBook(y)
  BY DEF SameBook
<1>3. PICK w : w = [s \in TopLongs(a, e) |-> RawWeight(a, s, e)]
  OBVIOUS
<1>3a. w = [s \in TopLongs(b, e) |-> RawWeight(b, s, e)]
  BY <1>3, PicksAlike
<1>4. c = [x EXCEPT !.step = "buy", !.weights = w] /\ k = [y EXCEPT !.step = "buy", !.weights = w]
  BY <1>1, <1>3, <1>3a DEF Weigh
<1>5. IsBook(c) /\ IsBook(k)
  BY <1>2, <1>4 DEF IsBook, BookSteps
<1>6. SameBook(c, k)
  BY <1>2, <1>4, <1>5 DEF SameBook, IsBook
<1> QED BY <1>1, <1>6

\* The second half of step 3 does: same weights, same opens, same supports.
LEMMA BuysAlike ==
  ASSUME NEW a, NEW b, NEW d, Alike(a, b, d), NEW e \in Days, e <= d, NEW x, NEW y, SameBook(x, y),
         DOMAIN x.weights \in SUBSET Symbols
  PROVE  SameBook(Buy(a, e, x), Buy(b, e, y))
<1>1. PICK c, k : c = Buy(a, e, x) /\ k = Buy(b, e, y)
  OBVIOUS
<1>2. IsBook(x) /\ IsBook(y)
  BY DEF SameBook
<1>3. PICK slice : slice = Slice(a, e, x) /\ slice = Slice(b, e, y)
  BY SlicesAlike DEF SameBook
<1>4. /\ IsBook(c) /\ c.step = "stop" /\ c.done = x.done
      /\ c.budget = x.budget /\ c.weights = NoBook.weights /\ c.realized = x.realized
      /\ c.next = IF x.budget > 0 THEN x.next + 1 ELSE x.next
      /\ c.cash = x.cash - Basis(slice) /\ c.lots = x.lots \cup slice
      /\ c.trades = x.trades \cup {OpenRow(lot) : lot \in slice}
      /\ c.positions = x.positions /\ c.equity = x.equity
  <2>1. /\ IsBook(c) /\ c.step = "stop" /\ c.done = x.done
        /\ c.budget = x.budget /\ c.weights = NoBook.weights /\ c.realized = x.realized
        /\ c.next = IF x.budget > 0 THEN x.next + 1 ELSE x.next
        /\ c.cash = x.cash - Basis(Slice(a, e, x)) /\ c.lots = x.lots \cup Slice(a, e, x)
        /\ c.trades = x.trades \cup {OpenRow(lot) : lot \in Slice(a, e, x)}
        /\ c.positions = x.positions /\ c.equity = x.equity
    BY <1>1, <1>2, BuyIs
  <2> QED BY <1>3, <2>1
<1>5. /\ IsBook(k) /\ k.step = "stop" /\ k.done = y.done
      /\ k.budget = y.budget /\ k.weights = NoBook.weights /\ k.realized = y.realized
      /\ k.next = IF y.budget > 0 THEN y.next + 1 ELSE y.next
      /\ k.cash = y.cash - Basis(slice) /\ k.lots = y.lots \cup slice
      /\ k.trades = y.trades \cup {OpenRow(lot) : lot \in slice}
      /\ k.positions = y.positions /\ k.equity = y.equity
  BY <1>1, <1>2, <1>3, BuyIs
<1>6. SameBook(c, k)
  BY <1>4, <1>5 DEF SameBook
<1> QED BY <1>1, <1>6

\* Steps 4 and 5 do on an earlier day, whose closes are the same.
LEMMA StopsAlike ==
  ASSUME NEW a, NEW b, NEW d, Alike(a, b, d), NEW e \in Days, e < d, NEW x, NEW y, SameBook(x, y),
         \A l \in x.lots : IsLot(l)
  PROVE  SameBook(StopOut(a, e, x), StopOut(b, e, y))
<1>1. PICK c, k : c = StopOut(a, e, x) /\ k = StopOut(b, e, y)
  OBVIOUS
<1>2. IsBook(x) /\ IsBook(y) /\ x.lots = y.lots
  BY DEF SameBook
<1>3. PICK stopped : stopped = StoppedOut(a, e, x.lots)
  OBVIOUS
<1>4. stopped = StoppedOut(b, e, y.lots)
  <2>1. e \in Int /\ e <= d
    BY DatesAre DEF Alike
  <2>2. \A l \in x.lots : (HasBar(a, l.symbol, e) <=> HasBar(b, l.symbol, e)) /\ BarOf(a, l.symbol, e) = BarOf(b, l.symbol, e)
    BY <2>1, BarsAlike DEF IsLot
  <2> QED BY <1>2, <1>3, <2>2 DEF StoppedOut
<1>5. PICK prices : prices = [l \in stopped |-> l.stop]
  OBVIOUS
<1>6. PICK closes : closes = ClosesFor(stopped, e, "stop_close", prices)
  OBVIOUS
<1>7. PICK rows : rows = {[day |-> e, held |-> lot] : lot \in x.lots \ stopped}
  OBVIOUS
<1>8. /\ IsBook(c) /\ c.step = "close" /\ c.done = x.done
      /\ c.budget = x.budget /\ c.weights = x.weights /\ c.next = x.next
      /\ c.cash = x.cash + Proceeds(closes) /\ c.realized = x.realized + Profits(closes)
      /\ c.lots = x.lots \ stopped /\ c.trades = x.trades \cup closes
      /\ c.positions = x.positions \cup rows /\ c.equity = x.equity
  BY <1>1, <1>2, <1>3, <1>5, <1>6, <1>7, StopOutIs DEF Snapshot
<1>9. /\ IsBook(k) /\ k.step = "close" /\ k.done = y.done
      /\ k.budget = y.budget /\ k.weights = y.weights /\ k.next = y.next
      /\ k.cash = y.cash + Proceeds(closes) /\ k.realized = y.realized + Profits(closes)
      /\ k.lots = y.lots \ stopped /\ k.trades = y.trades \cup closes
      /\ k.positions = y.positions \cup rows /\ k.equity = y.equity
  BY <1>1, <1>2, <1>4, <1>5, <1>6, <1>7, StopOutIs DEF Snapshot
<1>10. SameBook(c, k)
  BY <1>8, <1>9 DEF SameBook
<1> QED BY <1>1, <1>10

\* So do steps 6 and 7; the day being later, this is not the last close.
LEMMA MarksAtCloseAlike ==
  ASSUME NEW a, NEW b, NEW d, Alike(a, b, d), NEW e \in Days, e < d, NEW x, NEW y, SameBook(x, y),
         \A l \in x.lots : IsLot(l)
  PROVE  SameBook(MarkAtClose(a, e, x), MarkAtClose(b, e, y))
<1>1. PICK c, k : c = MarkAtClose(a, e, x) /\ k = MarkAtClose(b, e, y)
  OBVIOUS
<1>2. IsBook(x) /\ IsBook(y)
  BY DEF SameBook
<1>3. ASSUME NEW in, d \in TradeDates(in) PROVE e # Max(TradeDates(in))
  <2>1. IsFiniteSet(TradeDates(in)) /\ \A z \in TradeDates(in) : z \in Int
    <3>1. 1 \in Int /\ LastDay \in Int
      BY ConstantsAre
    <3>2. IsFiniteSet(1..LastDay)
      BY <3>1, FS_Interval
    <3>3. TradeDates(in) \subseteq 1..LastDay
      BY DatesAre DEF Days
    <3>4. IsFiniteSet(TradeDates(in))
      BY <3>2, <3>3, FS_Subset
    <3> QED BY <3>3, <3>4
  <2>2. d <= Max(TradeDates(in))
    BY <1>3, <2>1, MaxIs
  <2>3. d \in Nat /\ e \in Nat
    BY DatesAre DEF Alike
  <2> QED BY <2>2, <2>3
<1>4. e # Max(TradeDates(a)) /\ e # Max(TradeDates(b))
  BY <1>3 DEF Alike, SameBasis
<1>5. PICK cash, realized : cash = x.cash + Interest(x.cash) /\ realized = x.realized + Interest(x.cash)
  OBVIOUS
<1>6. PICK m : m = Mark(a, x.lots, cash, realized, e, "close_5pm_ct", "close")
  OBVIOUS
<1>7. m = Mark(b, x.lots, cash, realized, e, "close_5pm_ct", "close")
  <2>1. e <= d
    BY DatesAre DEF Alike
  <2> QED BY <1>6, <2>1, MarksAlike
<1>8. /\ IsBook(c) /\ c.step = "mark" /\ c.done = e /\ c.budget = x.budget /\ c.weights = x.weights
      /\ c.next = x.next /\ c.cash = cash /\ c.realized = realized
      /\ c.lots = x.lots /\ c.trades = x.trades /\ c.positions = x.positions
      /\ c.equity = x.equity \cup {m}
  <2>1. /\ IsBook(c) /\ c.step = "mark" /\ c.done = e
        /\ c.budget = x.budget /\ c.weights = x.weights /\ c.next = x.next
        /\ c.cash = x.cash + Interest(x.cash) /\ c.realized = x.realized + Interest(x.cash)
        /\ c.lots = x.lots /\ c.trades = x.trades /\ c.positions = x.positions
        /\ c.equity = IF a.skip /\ e = Max(TradeDates(a)) THEN x.equity
                      ELSE x.equity \cup {Mark(a, x.lots, c.cash, c.realized, e, "close_5pm_ct", "close")}
    BY <1>1, <1>2, MarkAtCloseIs
  <2>2. c.cash = cash /\ c.realized = realized
    BY <1>5, <2>1
  <2>3. m = Mark(a, x.lots, c.cash, c.realized, e, "close_5pm_ct", "close")
    BY <1>6, <2>2
  <2>4. c.equity = x.equity \cup {m}
    BY <1>4, <2>1, <2>3
  <2> QED BY <2>1, <2>2, <2>4
<1>9. /\ IsBook(k) /\ k.step = "mark" /\ k.done = e /\ k.budget = y.budget /\ k.weights = y.weights
      /\ k.next = y.next /\ k.cash = cash /\ k.realized = realized
      /\ k.lots = y.lots /\ k.trades = y.trades /\ k.positions = y.positions
      /\ k.equity = y.equity \cup {m}
  <2>1. /\ IsBook(k) /\ k.step = "mark" /\ k.done = e
        /\ k.budget = y.budget /\ k.weights = y.weights /\ k.next = y.next
        /\ k.cash = y.cash + Interest(y.cash) /\ k.realized = y.realized + Interest(y.cash)
        /\ k.lots = y.lots /\ k.trades = y.trades /\ k.positions = y.positions
        /\ k.equity = IF b.skip /\ e = Max(TradeDates(b)) THEN y.equity
                      ELSE y.equity \cup {Mark(b, y.lots, k.cash, k.realized, e, "close_5pm_ct", "close")}
    BY <1>1, <1>2, MarkAtCloseIs
  <2>2. k.cash = cash /\ k.realized = realized
    BY <1>5, <2>1 DEF SameBook
  <2>3. m = Mark(b, y.lots, k.cash, k.realized, e, "close_5pm_ct", "close")
    BY <1>7, <2>2 DEF SameBook
  <2>4. k.equity = y.equity \cup {m}
    BY <1>4, <2>1, <2>3
  <2> QED BY <2>1, <2>2, <2>4
<1>10. SameBook(c, k)
  BY <1>8, <1>9 DEF SameBook
<1> QED BY <1>1, <1>10

\* Having bought on the day comes at the same moment in both.
LEMMA PastAlike ==
  ASSUME NEW a, NEW b, NEW d, Alike(a, b, d), NEW x, NEW y, SameBook(x, y), Frame(a, x)
  PROVE  d \in Past(a, x, Buying) <=> d \in Past(b, y, Buying)
<1>1. d \in Days /\ d \in TradeDates(a) /\ d \in TradeDates(b) /\ d \in Nat
  BY DatesAre DEF Alike, SameBasis
<1>2. \A e \in Days : e \in Nat /\ (e <= d => (e \in TradeDates(a) <=> e \in TradeDates(b)))
  BY DatesAre, DatesAlike
<1>3. TradeDates(a) \subseteq Days /\ TradeDates(b) \subseteq Days
  BY DatesAre
<1>4. IsNext(a, d, x) <=> IsNext(b, d, y)
  <2>1. x.done = y.done /\ x.done \in Nat
    BY <1>2, <1>3 DEF SameBook, Frame
  <2>2. \A e \in Days : ~ (d <= e) => e <= d
    BY <1>1, <1>2
  <2> QED BY <1>1, <1>2, <1>3, <2>1, <2>2 DEF IsNext
<1> QED BY <1>1, <1>4 DEF Past, SameBook

\* Until they have bought on the day, two replays step alike.
LEMMA StepsAlike ==
  ASSUME NEW a, NEW b, NEW d, Alike(a, b, d), NEW x, NEW y, SameBook(x, y), BookInv(a, x),
         d \notin Past(a, x, Buying),
         NEW e, IsNext(a, e, x), NEW c, Body(a, e, x, c), NEW f, IsNext(b, f, y), NEW k, Body(b, f, y, k)
  PROVE  SameBook(c, k)
<1>1. d \in Days /\ d \in TradeDates(a) /\ d \in TradeDates(b) /\ d \in Nat
  BY DatesAre DEF Alike, SameBasis
<1>2. \A z \in Days : z \in Nat /\ (z <= d => (z \in TradeDates(a) <=> z \in TradeDates(b)))
  BY DatesAre, DatesAlike
<1>3. Frame(a, x) /\ Ledger(x.lots, x.trades, x.next) /\ Dated(a, x)
  BY DEF BookInv
<1>4. e \in TradeDates(a) /\ e \in Days /\ e \in Nat /\ e > x.done /\ x.done \in Nat
      /\ \A z \in TradeDates(a) : IsNext(a, z, x) <=> z = e
  BY <1>3, NextIs
<1>5. ~ d <= x.done /\ (x.step \in Buying => d # e)
  BY <1>1 DEF Past
<1>6. e <= d /\ (x.step \in Buying => e < d)
  <2>1. e <= d
    BY <1>1, <1>4, <1>5 DEF IsNext
  <2> QED BY <1>1, <1>4, <1>5, <2>1
<1>7. f = e
  <2>1. y.done = x.done
    BY DEF SameBook
  <2>2. e \in TradeDates(b)
    BY <1>2, <1>4, <1>6
  <2>3. f \in TradeDates(b) /\ f > y.done /\ \A z \in TradeDates(b) : z > y.done => f <= z
    BY DEF IsNext
  <2>4. f \in Days /\ f \in Nat
    BY <2>3, DatesAre
  <2>5. f <= e
    BY <1>4, <2>1, <2>2, <2>3
  <2>6. f <= d
    BY <1>1, <1>4, <1>6, <2>4, <2>5
  <2>7. f \in TradeDates(a)
    BY <1>2, <2>3, <2>4, <2>6
  <2>8. e <= f
    BY <2>1, <2>3, <2>7 DEF IsNext
  <2> QED BY <1>4, <2>4, <2>5, <2>8
<1>8. \A l \in x.lots : IsLot(l)
  BY <1>3, LotsAre
<1>9. \A l \in x.lots : l.day <= d
  <2> TAKE l \in x.lots
  <2>1. OpenRow(l) \in OpensIn(x.trades) /\ OpenRow(l).day = l.day
    BY <1>3 DEF Ledger, OpensIn, OpenRow
  <2>2. l.day \in Past(a, x, Buying)
    BY <1>3, <2>1 DEF Dated
  <2>3. l.day \in TradeDates(a) /\ (l.day <= x.done \/ l.day = e)
    BY <1>4, <2>2 DEF Past
  <2>4. l.day \in Nat
    BY <2>3, DatesAre
  <2> QED BY <1>1, <1>4, <1>5, <1>6, <2>3, <2>4
<1>10. x.step = y.step
  BY DEF SameBook
<1>11. CASE x.step = "mark"
  <2>1. c = MarkAtOpen(a, e, x) /\ k = MarkAtOpen(b, e, y)
    BY <1>7, <1>10, <1>11 DEF Body
  <2> QED BY <1>4, <1>6, <1>8, <2>1, MarksAtOpenAlike
<1>12. CASE x.step = "expire"
  <2>1. c = Expire(a, e, x) /\ k = Expire(b, e, y)
    BY <1>7, <1>10, <1>12 DEF Body
  <2> QED BY <1>4, <1>6, <1>8, <1>9, <2>1, ExpiresAlike
<1>13. CASE x.step = "weigh"
  <2>1. c = Weigh(a, e, x) /\ k = Weigh(b, e, y)
    BY <1>7, <1>10, <1>13 DEF Body
  <2> QED BY <1>4, <1>6, <2>1, WeighsAlike
<1>14. CASE x.step = "buy"
  <2>1. c = Buy(a, e, x) /\ k = Buy(b, e, y)
    BY <1>7, <1>10, <1>14 DEF Body
  <2>2. DOMAIN x.weights \in SUBSET Symbols
    BY <1>14 DEF BookInv, Money
  <2> QED BY <1>4, <1>6, <2>1, <2>2, BuysAlike
<1>15. CASE x.step = "stop"
  <2>1. c = StopOut(a, e, x) /\ k = StopOut(b, e, y)
    BY <1>7, <1>10, <1>15 DEF Body
  <2>2. e < d
    BY <1>6, <1>15 DEF Buying
  <2> QED BY <1>4, <1>8, <2>1, <2>2, StopsAlike
<1>16. CASE x.step = "close"
  <2>1. c = MarkAtClose(a, e, x) /\ k = MarkAtClose(b, e, y)
    BY <1>7, <1>10, <1>16 DEF Body
  <2>2. e < d
    BY <1>6, <1>16 DEF Buying
  <2> QED BY <1>4, <1>8, <2>1, <2>2, MarksAtCloseAlike
<1> QED BY <1>11, <1>12, <1>13, <1>14, <1>15, <1>16 DEF Body

-----------------------------------------------------------------------------
(***************************************************************************)
(* A replay from its first book to its last.                               *)
(***************************************************************************)
Replay(in, n, f) ==
  /\ n \in Nat
  /\ \E w : f[0] = [NoBook EXCEPT !.by = w, !.cash = in.cash]
  /\ \A i \in 0..n : BookInv(in, f[i])
  /\ \A i \in 0..(n - 1) : \E d : IsNext(in, d, f[i]) /\ Body(in, d, f[i], f[i + 1])

Replayed(in, b) == \E n, f : Replay(in, n, f) /\ f[n] = b

\* A fresh book is a replay.
LEMMA ReplayBegins ==
  ASSUME NEW in, NEW b, BookInv(in, b), NEW w, b = [NoBook EXCEPT !.by = w, !.cash = in.cash]
  PROVE  Replayed(in, b)
<1>1. PICK f : f = [i \in {0} |-> b]
  OBVIOUS
<1>2. f[0] = b /\ 0 \in Nat /\ 0..0 = {0} /\ 0..(0 - 1) = {}
  BY <1>1
<1>3. Replay(in, 0, f)
  BY <1>2 DEF Replay
<1> QED BY <1>2, <1>3 DEF Replayed

\* And so is one step more.
LEMMA ReplayGoesOn ==
  ASSUME NEW in, NEW b, Replayed(in, b), NEW d, IsNext(in, d, b), NEW c, Body(in, d, b, c), BookInv(in, c)
  PROVE  Replayed(in, c)
<1>1. PICK n, f : Replay(in, n, f) /\ f[n] = b
  BY DEF Replayed
<1>2. n \in Nat
  BY <1>1 DEF Replay
<1>3. PICK g : g = [i \in 0..(n + 1) |-> IF i = n + 1 THEN c ELSE f[i]]
  OBVIOUS
<1>4. g[n + 1] = c /\ \A i \in 0..n : g[i] = f[i]
  BY <1>2, <1>3
<1>5. 0 \in 0..n /\ n \in 0..n
  BY <1>2
<1>6. \A i \in 0..(n + 1) : BookInv(in, g[i])
  <2>1. \A i \in 0..(n + 1) : i = n + 1 \/ i \in 0..n
    BY <1>2
  <2> QED BY <1>1, <1>4, <2>1 DEF Replay
<1>7. \A i \in 0..n : \E e : IsNext(in, e, g[i]) /\ Body(in, e, g[i], g[i + 1])
  <2> TAKE i \in 0..n
  <2>1. CASE i = n
    BY <1>1, <1>4, <1>5, <2>1
  <2>2. CASE i # n
    <3>1. i \in 0..(n - 1) /\ i + 1 \in 0..n
      BY <1>2, <2>2
    <3> QED BY <1>1, <1>4, <3>1 DEF Replay
  <2> QED BY <2>1, <2>2
<1>8. n + 1 \in Nat /\ (n + 1) - 1 = n
  BY <1>2
<1>9. Replay(in, n + 1, g)
  <2>1. \E w : g[0] = [NoBook EXCEPT !.by = w, !.cash = in.cash]
    BY <1>1, <1>4, <1>5 DEF Replay
  <2> QED BY <1>6, <1>7, <1>8, <2>1 DEF Replay
<1> QED BY <1>4, <1>9 DEF Replayed

\* The first k + 1 books of two replays are alike when the first k come before the day's slice.
LEMMA ReplaysAlike ==
  ASSUME NEW a, NEW b, NEW d, Alike(a, b, d), NEW n, NEW f, Replay(a, n, f), NEW m, NEW g, Replay(b, m, g),
         NEW k \in Nat, k <= n, k <= m, \A j \in 0..(k - 1) : d \notin Past(a, f[j], Buying)
  PROVE  SameBook(f[k], g[k])
<1> SUFFICES ASSUME ~ SameBook(f[k], g[k]) PROVE FALSE
  OBVIOUS
<1>1. n \in Nat /\ m \in Nat
  BY DEF Replay
<1>2. PICK bad : bad = {i \in 0..k : ~ SameBook(f[i], g[i])}
  OBVIOUS
<1>3. IsFiniteSet(bad) /\ bad # {} /\ \A i \in bad : i \in Int
  <2>1. k \in 0..k /\ 0 \in Int /\ k \in Int
    OBVIOUS
  <2>2. IsFiniteSet(0..k)
    BY <2>1, FS_Interval
  <2> QED BY <1>2, <2>1, <2>2, FS_Subset
<1>4. PICK i : i \in bad /\ \A j \in bad : i <= j
  BY <1>3, MinIs
<1>5. i \in 0..k /\ ~ SameBook(f[i], g[i])
  BY <1>2, <1>4
<1>6. i # 0
  <2>1. PICK v, w : /\ f[0] = [NoBook EXCEPT !.by = v, !.cash = a.cash]
                    /\ g[0] = [NoBook EXCEPT !.by = w, !.cash = b.cash]
    BY DEF Replay
  <2>2. PICK cash : cash = a.cash /\ cash = b.cash
    BY DEF Alike, SameBasis
  <2>3. PICK x, y, none : x = f[0] /\ y = g[0] /\ none = NoBook.weights
    OBVIOUS
  <2>4. x = [by |-> v, done |-> 0, step |-> "mark", budget |-> 0, weights |-> none,
             cash |-> cash, realized |-> 0, next |-> 0, lots |-> {},
             trades |-> {}, positions |-> {}, equity |-> {}]
    <3>1. x = [NoBook EXCEPT !.by = v, !.cash = cash]
      BY <2>1, <2>2, <2>3
    <3> QED BY <2>3, <3>1, FreshIs
  <2>5. y = [by |-> w, done |-> 0, step |-> "mark", budget |-> 0, weights |-> none,
             cash |-> cash, realized |-> 0, next |-> 0, lots |-> {},
             trades |-> {}, positions |-> {}, equity |-> {}]
    <3>1. y = [NoBook EXCEPT !.by = w, !.cash = cash]
      BY <2>1, <2>2, <2>3
    <3> QED BY <2>3, <3>1, FreshIs
  <2>6. SameBook(x, y)
    BY <2>4, <2>5 DEF SameBook, IsBook, BookSteps
  <2> QED BY <1>5, <2>3, <2>6
<1>7. PICK j \in 0..(k - 1) : i = j + 1 /\ j < i
  <2>1. i - 1 \in 0..(k - 1) /\ i = (i - 1) + 1 /\ i - 1 < i
    BY <1>5, <1>6
  <2> QED BY <2>1
<1>8. SameBook(f[j], g[j])
  <2>1. j \in 0..k /\ j \in Int /\ i \in Int
    BY <1>5, <1>7
  <2>2. j \notin bad
    BY <1>4, <1>7, <2>1
  <2> QED BY <1>2, <2>1, <2>2
<1>9. j \in 0..(n - 1) /\ j \in 0..(m - 1) /\ j \in 0..n
  BY <1>1, <1>7
<1>10. BookInv(a, f[j]) /\ d \notin Past(a, f[j], Buying)
  BY <1>7, <1>9 DEF Replay
<1>11. PICK e : IsNext(a, e, f[j]) /\ Body(a, e, f[j], f[i])
  BY <1>7, <1>9 DEF Replay
<1>12. PICK h : IsNext(b, h, g[j]) /\ Body(b, h, g[j], g[i])
  BY <1>7, <1>9 DEF Replay
<1>13. SameBook(f[i], g[i])
  BY <1>8, <1>10, <1>11, <1>12, StepsAlike
<1> QED BY <1>5, <1>13

\* Three steps leave the lots, the trades and the positions alone.
LEMMA MarkAtOpenLeaves ==
  ASSUME NEW in, NEW e, NEW x, IsBook(x), NEW c, c = MarkAtOpen(in, e, x)
  PROVE  /\ c.done = x.done /\ c.step = "expire"
         /\ c.trades = x.trades /\ c.lots = x.lots /\ c.positions = x.positions
<1>1. PICK m : m = Mark(in, x.lots, x.cash, x.realized, e, "open_8am_ct", "open")
  OBVIOUS
<1>2. /\ IsBook(c) /\ c.step = "expire" /\ c.done = x.done /\ c.by = x.by
      /\ c.cash = x.cash /\ c.realized = x.realized /\ c.next = x.next
      /\ c.lots = x.lots /\ c.trades = x.trades /\ c.positions = x.positions
      /\ c.equity = x.equity \cup {m} /\ c.budget = Max({0, m.equity \div Holding})
  BY <1>1, MarkAtOpenIs
<1> QED BY <1>2

\* So does the weighing.
LEMMA WeighLeaves ==
  ASSUME NEW in, NEW e, NEW x, IsBook(x), NEW c, c = Weigh(in, e, x)
  PROVE  /\ c.done = x.done /\ c.step = "buy"
         /\ c.trades = x.trades /\ c.lots = x.lots /\ c.positions = x.positions
<1>1. /\ IsBook(c) /\ c.step = "buy" /\ c.done = x.done /\ c.by = x.by
      /\ c.budget = x.budget /\ c.cash = x.cash /\ c.realized = x.realized /\ c.next = x.next
      /\ c.lots = x.lots /\ c.trades = x.trades /\ c.positions = x.positions /\ c.equity = x.equity
      /\ c.weights = [s \in TopLongs(in, e) |-> RawWeight(in, s, e)]
  BY WeighIs
<1> QED BY <1>1

\* And the mark at the close.
LEMMA MarkAtCloseLeaves ==
  ASSUME NEW in, NEW e, NEW x, IsBook(x), NEW c, c = MarkAtClose(in, e, x)
  PROVE  /\ IsBook(c) /\ c.done = e /\ c.step = "mark"
         /\ c.trades = x.trades /\ c.lots = x.lots /\ c.positions = x.positions
<1>1. /\ IsBook(c) /\ c.step = "mark" /\ c.done = e /\ c.by = x.by
      /\ c.budget = x.budget /\ c.weights = x.weights /\ c.next = x.next
      /\ c.cash = x.cash + Interest(x.cash) /\ c.realized = x.realized + Interest(x.cash)
      /\ c.lots = x.lots /\ c.trades = x.trades /\ c.positions = x.positions
      /\ c.equity = IF in.skip /\ e = Max(TradeDates(in)) THEN x.equity
                    ELSE x.equity \cup {Mark(in, x.lots, c.cash, c.realized, e, "close_5pm_ct", "close")}
  BY MarkAtCloseIs
<1> QED BY <1>1

\* Book k is the first of a replay that has bought on day d.
First(in, n, f, d, k) ==
  /\ k \in 1..n /\ d \in Past(in, f[k], Buying)
  /\ \A j \in 0..(k - 1) : d \notin Past(in, f[j], Buying)

\* There is one, if the last book has.
LEMMA FirstIs ==
  ASSUME NEW in, NEW n, NEW f, Replay(in, n, f), NEW d, d \in Past(in, f[n], Buying)
  PROVE  \E k : First(in, n, f, d, k)
<1>1. n \in Nat
  BY DEF Replay
<1>2. PICK S : S = {i \in 0..n : d \in Past(in, f[i], Buying)}
  OBVIOUS
<1>3. IsFiniteSet(S) /\ S # {} /\ \A i \in S : i \in Int
  <2>1. n \in 0..n /\ 0 \in Int /\ n \in Int
    BY <1>1
  <2>2. IsFiniteSet(0..n)
    BY <2>1, FS_Interval
  <2> QED BY <1>2, <2>1, <2>2, FS_Subset
<1>4. PICK k : k \in S /\ \A j \in S : k <= j
  BY <1>3, MinIs
<1>5. k # 0
  <2>1. PICK w : f[0] = [NoBook EXCEPT !.by = w, !.cash = in.cash]
    BY DEF Replay
  <2>2. PICK x, none, cash : x = f[0] /\ none = NoBook.weights /\ cash = in.cash
    OBVIOUS
  <2>3. x = [NoBook EXCEPT !.by = w, !.cash = cash]
    BY <2>1, <2>2
  <2>4. x = [by |-> w, done |-> 0, step |-> "mark", budget |-> 0, weights |-> none,
             cash |-> cash, realized |-> 0, next |-> 0, lots |-> {},
             trades |-> {}, positions |-> {}, equity |-> {}]
    BY <2>2, <2>3, FreshIs
  <2>5. x.done = 0 /\ x.step \notin Buying
    BY <2>4 DEF Buying
  <2>6. d \notin Past(in, x, Buying)
    BY <2>5, DatesAre DEF Past
  <2> QED BY <1>2, <1>4, <2>2, <2>6
<1>6. k \in 1..n /\ \A j \in 0..(k - 1) : j \in 0..n /\ ~ (k <= j)
  BY <1>1, <1>2, <1>4, <1>5
<1> QED BY <1>2, <1>4, <1>6 DEF First

\* Being alike goes both ways.
LEMMA AlikeBack == ASSUME NEW a, NEW b, NEW d, Alike(a, b, d) PROVE Alike(b, a, d)
BY DEF Alike, SameBasis

\* Two replays that are alike buy on the day no sooner one than the other.
LEMMA NoSooner ==
  ASSUME NEW a, NEW b, NEW d, Alike(a, b, d), NEW n, NEW f, Replay(a, n, f), NEW m, NEW g, Replay(b, m, g),
         NEW k, First(a, n, f, d, k), NEW j, First(b, m, g, d, j), k <= j
  PROVE  k = j /\ SameBook(f[k], g[k])
<1>1. n \in Nat /\ m \in Nat /\ k \in 1..n /\ j \in 1..m
  BY DEF Replay, First
<1>2. k \in Nat /\ k <= n /\ k <= m
  BY <1>1
<1>3. SameBook(f[k], g[k])
  BY <1>2, ReplaysAlike DEF First
<1>4. k \in 0..n
  BY <1>1, <1>2
<1>5. Frame(a, f[k])
  BY <1>4 DEF Replay, BookInv
<1>6. d \in Past(b, g[k], Buying)
  BY <1>3, <1>5, PastAlike DEF First
<1>7. k \notin 0..(j - 1)
  BY <1>6 DEF First
<1>8. k = j
  BY <1>1, <1>2, <1>7
<1> QED BY <1>3, <1>8

\* They buy on it in the same step, on the same book.
LEMMA Meet ==
  ASSUME NEW a, NEW b, NEW d, Alike(a, b, d), NEW n, NEW f, Replay(a, n, f), NEW m, NEW g, Replay(b, m, g),
         d \in Past(a, f[n], Buying), d \in Past(b, g[m], Buying)
  PROVE  \E k : First(a, n, f, d, k) /\ First(b, m, g, d, k) /\ SameBook(f[k], g[k])
<1>1. PICK k : First(a, n, f, d, k)
  BY FirstIs
<1>2. PICK j : First(b, m, g, d, j)
  BY FirstIs
<1>3. k \in Int /\ j \in Int
  BY <1>1, <1>2 DEF First
<1>4. CASE k <= j
  <2>1. k = j /\ SameBook(f[k], g[k])
    BY <1>1, <1>2, <1>4, NoSooner
  <2> QED BY <1>1, <1>2, <2>1
<1>5. CASE j <= k
  <2>1. Alike(b, a, d)
    BY AlikeBack
  <2>2. j = k /\ SameBook(g[j], f[j])
    BY <1>1, <1>2, <1>5, <2>1, NoSooner
  <2>3. SameBook(f[k], g[k])
    BY <2>2 DEF SameBook
  <2> QED BY <1>1, <1>2, <2>2, <2>3
<1> QED BY <1>3, <1>4, <1>5

\* What a book has of a day it has bought on: the rows R, and no lots but L.
OnDay(in, x, d, R, L) ==
  /\ d \in Past(in, x, Buying)
  /\ {t \in OpensIn(x.trades) : t.day = d} = R
  /\ \A l \in x.lots : l.day = d => l \in L
  /\ \A p \in x.positions : p.held.day = d => p.held \in L

\* The step that passes the day is its purchase.
LEMMA PassedByBuying ==
  ASSUME NEW in, NEW x, BookInv(in, x), NEW e, IsNext(in, e, x), NEW c, Body(in, e, x, c),
         NEW d, d \notin Past(in, x, Buying), d \in Past(in, c, Buying)
  PROVE  x.step = "buy" /\ e = d /\ c = Buy(in, d, x)
<1>1. Frame(in, x) /\ IsBook(x)
  BY DEF BookInv, Frame
<1>2. CASE x.step \in {"mark", "expire", "weigh"}
  <2>1. c.done = x.done /\ c.step \notin Buying
    <3>1. CASE x.step = "mark"
      <4>1. c = MarkAtOpen(in, e, x)
        BY <3>1 DEF Body
      <4>2. c.done = x.done /\ c.step = "expire"
        BY <1>1, <4>1, MarkAtOpenLeaves
      <4> QED BY <4>2 DEF Buying
    <3>2. CASE x.step = "expire"
      BY <1>1, <3>2, ExpireIs DEF Body, Buying
    <3>3. CASE x.step = "weigh"
      <4>1. c = Weigh(in, e, x)
        BY <3>3 DEF Body
      <4>2. c.done = x.done /\ c.step = "buy"
        BY <1>1, <4>1, WeighLeaves
      <4> QED BY <4>2 DEF Buying
    <3> QED BY <1>2, <3>1, <3>2, <3>3
  <2>2. x.step \notin Buying
    BY <1>2 DEF Buying
  <2>3. Past(in, c, Buying) = Past(in, x, Buying)
    BY <2>1, <2>2, PastStays
  <2> QED BY <2>3
<1>3. CASE x.step = "stop"
  <2>1. c.done = x.done /\ c.step = "close"
    BY <1>1, <1>3, StopOutIs DEF Body
  <2>2. x.step \in Buying /\ c.step \in Buying
    BY <1>3, <2>1 DEF Buying
  <2>3. Past(in, c, Buying) = Past(in, x, Buying)
    BY <2>1, <2>2, PastStays
  <2> QED BY <2>3
<1>4. CASE x.step = "close"
  <2>1. IsBook(c) /\ c.done = e /\ c.step = "mark"
    <3>1. c = MarkAtClose(in, e, x)
      BY <1>4 DEF Body
    <3> QED BY <1>1, <3>1, MarkAtCloseLeaves
  <2>2. Past(in, c, Buying) = Past(in, x, Buying)
    BY <1>1, <1>4, <2>1, FrameEnds
  <2> QED BY <2>2
<1>5. CASE x.step = "buy"
  <2>1. c = Buy(in, e, x)
    BY <1>5 DEF Body
  <2>2. c.done = x.done
    BY <1>1, <2>1, BuyIs
  <2>3. IsNext(in, d, x)
    BY <2>2 DEF Past, IsNext
  <2>4. e = d
    BY <1>1, <2>3, NextIs
  <2> QED BY <1>5, <2>1, <2>4
<1> QED BY <1>1, <1>2, <1>3, <1>4, <1>5 DEF IsBook, BookSteps

\* Right after it, the lots of the day are one per symbol, and no position shows any.
LEMMA BoughtOn ==
  ASSUME NEW in, IsInput(in), NEW x, BookInv(in, x), NEW e, IsNext(in, e, x), NEW c, Body(in, e, x, c),
         NEW d, d \notin Past(in, x, Buying), d \in Past(in, c, Buying)
  PROVE  /\ \A p \in c.positions : p.held.day # d
         /\ \A l, m \in c.lots : l.day = d /\ m.day = d /\ l.symbol = m.symbol => l = m
<1>1. x.step = "buy" /\ e = d /\ c = Buy(in, d, x)
  BY PassedByBuying
<1>2. Frame(in, x) /\ IsBook(x) /\ Ledger(x.lots, x.trades, x.next) /\ Dated(in, x) /\ Held(in, x) /\ Money(in, x)
  BY DEF BookInv, Frame
<1>3. d \in Days /\ d \in Nat /\ x.done \in Nat /\ d > x.done
  BY <1>1, <1>2, NextIs
<1>4. PICK slice : slice = Slice(in, d, x)
  OBVIOUS
<1>5. c.lots = x.lots \cup slice /\ c.positions = x.positions
  BY <1>1, <1>2, <1>4, BuyIs
<1>6. \A l, m \in slice : l.symbol = m.symbol => l = m
  <2>1. x.budget \in Nat /\ x.next \in Nat /\ DOMAIN x.weights \in SUBSET Symbols
        /\ \A s \in DOMAIN x.weights : x.weights[s] \in Int
    BY <1>1, <1>2 DEF Money, Ledger
  <2> QED BY <1>3, <1>4, <2>1, SliceIs
<1>7. \A l \in x.lots : l.day # d
  <2> TAKE l \in x.lots
  <2>1. OpenRow(l) \in OpensIn(x.trades) /\ OpenRow(l).day = l.day
    BY <1>2, RowOfLot
  <2>2. l.day \in Past(in, x, Buying)
    BY <1>2, <2>1 DEF Dated
  <2> QED BY <2>2
<1>8. \A p \in x.positions : p.held.day # d
  <2> TAKE p \in x.positions
  <2>1. p.day \in Past(in, x, Stopping) /\ p.held.day <= p.day
    BY <1>2 DEF Held
  <2>2. p.day <= x.done /\ p.day \in Days
    BY <1>1, <2>1, DatesAre DEF Past, Stopping
  <2>3. p.day \in Nat
    BY <2>2, DatesAre
  <2> QED BY <1>3, <2>1, <2>2, <2>3
<1> QED BY <1>5, <1>6, <1>7, <1>8

\* Rows that close lots open none.
LEMMA ClosesOpenNothing ==
  ASSUME NEW rows, NEW leaving, NEW e, NEW side \in {"long_close", "stop_close"}, NEW prices, NEW closes,
         closes = ClosesFor(leaving, e, side, prices)
  PROVE  OpensIn(rows \cup closes) = OpensIn(rows)
<1>1. \A t \in closes : t.side = side
  BY DEF ClosesFor, CloseRow
<1>2. side # "long_open"
  OBVIOUS
<1> QED BY <1>1, <1>2 DEF OpensIn

\* A step that adds only lots and opening rows of other days leaves the day as it is.
LEMMA StaysOn ==
  ASSUME NEW in, NEW x, NEW c, NEW d, NEW R, NEW L, OnDay(in, x, d, R, L), d \in Past(in, c, Buying),
         NEW slice, \A l \in slice : l.day # d,
         OpensIn(c.trades) = OpensIn(x.trades) \cup {OpenRow(l) : l \in slice},
         c.lots \subseteq x.lots \cup slice,
         \A p \in c.positions : p \in x.positions \/ p.held \in x.lots
  PROVE  OnDay(in, c, d, R, L)
<1>1. \A t \in {OpenRow(l) : l \in slice} : t.day # d
  BY DEF OpenRow
<1>2. {t \in OpensIn(c.trades) : t.day = d} = R
  BY <1>1 DEF OnDay
<1>3. \A l \in c.lots : l.day = d => l \in L
  BY DEF OnDay
<1>4. \A p \in c.positions : p.held.day = d => p.held \in L
  BY DEF OnDay
<1> QED BY <1>2, <1>3, <1>4 DEF OnDay

\* So do all the steps after the purchase.
LEMMA DayIsFinal ==
  ASSUME NEW in, IsInput(in), NEW x, BookInv(in, x), NEW e, IsNext(in, e, x), NEW c, Body(in, e, x, c),
         NEW d, NEW R, NEW L, OnDay(in, x, d, R, L)
  PROVE  OnDay(in, c, d, R, L)
<1>1. Frame(in, x) /\ IsBook(x) /\ Money(in, x) /\ Ledger(x.lots, x.trades, x.next)
  BY DEF BookInv, Frame
<1>2. d \in Past(in, x, Buying) /\ e \in Days /\ e \in Nat /\ e > x.done /\ x.done \in Nat
  BY <1>1, NextIs DEF OnDay
<1>3. CASE x.step = "mark"
  <2>2. c = MarkAtOpen(in, e, x)
    BY <1>3 DEF Body
  <2>3. /\ c.done = x.done /\ c.step = "expire" /\ c.trades = x.trades
        /\ c.lots = x.lots /\ c.positions = x.positions
    BY <1>1, <2>2, MarkAtOpenLeaves
  <2>4. x.step \in Buying <=> c.step \in Buying
    BY <1>3, <2>3 DEF Buying
  <2>5. d \in Past(in, c, Buying)
    BY <1>2, <2>3, <2>4, PastStays
  <2> QED BY <2>3, <2>5 DEF OnDay
<1>4. CASE x.step = "expire"
  <2>1. c = Expire(in, e, x)
    BY <1>4 DEF Body
  <2>2. PICK prices, closes :
          /\ closes = ClosesFor(Expired(in, x.lots, e), e, "long_close", prices)
          /\ c.step = "weigh" /\ c.done = x.done
          /\ c.lots = x.lots \ Expired(in, x.lots, e) /\ c.trades = x.trades \cup closes
          /\ c.positions = x.positions
    BY <1>1, <2>1, ExpireIs
  <2>3. x.step \in Buying <=> c.step \in Buying
    BY <1>4, <2>2 DEF Buying
  <2>4. d \in Past(in, c, Buying)
    BY <1>2, <2>2, <2>3, PastStays
  <2>5. OpensIn(c.trades) = OpensIn(x.trades)
    BY <2>2, ClosesOpenNothing
  <2> QED BY <2>2, <2>4, <2>5 DEF OnDay
<1>5. CASE x.step = "weigh"
  <2>1. c = Weigh(in, e, x)
    BY <1>5 DEF Body
  <2>2. /\ c.done = x.done /\ c.step = "buy" /\ c.trades = x.trades
        /\ c.lots = x.lots /\ c.positions = x.positions
    BY <1>1, <2>1, WeighLeaves
  <2>3. x.step \in Buying <=> c.step \in Buying
    BY <1>5, <2>2 DEF Buying
  <2>4. d \in Past(in, c, Buying)
    BY <1>2, <2>2, <2>3, PastStays
  <2> QED BY <2>2, <2>4 DEF OnDay
<1>6. CASE x.step = "buy"
  <2>1. c = Buy(in, e, x)
    BY <1>6 DEF Body
  <2>2. PICK slice, opens : slice = Slice(in, e, x) /\ opens = {OpenRow(l) : l \in slice}
    OBVIOUS
  <2>3. /\ c.done = x.done /\ c.lots = x.lots \cup slice /\ c.trades = x.trades \cup opens
        /\ c.positions = x.positions
    BY <1>1, <2>1, <2>2, BuyIs
  <2>4. \A l \in slice : l.day = e
    <3>1. x.budget \in Nat /\ x.next \in Nat /\ DOMAIN x.weights \in SUBSET Symbols
          /\ \A s \in DOMAIN x.weights : x.weights[s] \in Int
      BY <1>1, <1>6 DEF Money, Ledger
    <3> QED BY <1>2, <2>2, <3>1, SliceIs
  <2>5. d \in TradeDates(in) /\ d <= x.done
    BY <1>2, <1>6 DEF Past, Buying
  <2>6. d # e
    BY <1>2, <2>5
  <2>7. d \in Past(in, c, Buying)
    BY <2>3, <2>5 DEF Past
  <2>8. \A t \in opens : t.side = "long_open"
    BY <2>2 DEF OpenRow
  <2>9. OpensIn(c.trades) = OpensIn(x.trades) \cup {OpenRow(l) : l \in slice}
    BY <2>2, <2>3, <2>8 DEF OpensIn
  <2>10. \A l \in slice : l.day # d
    BY <2>4, <2>6
  <2> QED BY <2>3, <2>7, <2>9, <2>10, StaysOn
<1>7. CASE x.step = "stop"
  <2>1. c = StopOut(in, e, x)
    BY <1>7 DEF Body
  <2>2. PICK stopped, prices, closes :
          /\ closes = ClosesFor(stopped, e, "stop_close", prices)
          /\ c.step = "close" /\ c.done = x.done
          /\ c.lots = x.lots \ stopped /\ c.trades = x.trades \cup closes
          /\ c.positions = x.positions \cup {[day |-> e, held |-> lot] : lot \in x.lots \ stopped}
    BY <1>1, <2>1, StopOutIs
  <2>3. x.step \in Buying /\ c.step \in Buying
    BY <1>7, <2>2 DEF Buying
  <2>4. d \in Past(in, c, Buying)
    BY <1>2, <2>2, <2>3, PastStays
  <2>5. OpensIn(c.trades) = OpensIn(x.trades)
    BY <2>2, ClosesOpenNothing
  <2>6. \A p \in c.positions : p \in x.positions \/ p.held \in x.lots
    BY <2>2
  <2>7. \A p \in c.positions : p.held.day = d => p.held \in L
    BY <2>6 DEF OnDay
  <2> QED BY <2>2, <2>4, <2>5, <2>7 DEF OnDay
<1>8. CASE x.step = "close"
  <2>1. c = MarkAtClose(in, e, x)
    BY <1>8 DEF Body
  <2>2. /\ IsBook(c) /\ c.done = e /\ c.step = "mark" /\ c.trades = x.trades
        /\ c.lots = x.lots /\ c.positions = x.positions
    BY <1>1, <2>1, MarkAtCloseLeaves
  <2>3. Past(in, c, Buying) = Past(in, x, Buying)
    BY <1>1, <1>8, <2>2, FrameEnds
  <2> QED BY <1>2, <2>2, <2>3 DEF OnDay
<1> QED BY <1>1, <1>3, <1>4, <1>5, <1>6, <1>7, <1>8 DEF IsBook, BookSteps

\* From the purchase to the end of the replay the day is final.
LEMMA FinalToTheEnd ==
  ASSUME NEW in, IsInput(in), NEW n, NEW f, Replay(in, n, f), NEW k \in 0..n, NEW d, NEW R, NEW L,
         OnDay(in, f[k], d, R, L)
  PROVE  OnDay(in, f[n], d, R, L)
<1> SUFFICES ASSUME ~ OnDay(in, f[n], d, R, L) PROVE FALSE
  OBVIOUS
<1>1. n \in Nat /\ k \in Nat /\ k <= n
  BY DEF Replay
<1>2. PICK bad : bad = {i \in k..n : ~ OnDay(in, f[i], d, R, L)}
  OBVIOUS
<1>3. IsFiniteSet(bad) /\ bad # {} /\ \A i \in bad : i \in Int
  <2>1. n \in k..n /\ k \in Int /\ n \in Int
    BY <1>1
  <2>2. IsFiniteSet(k..n)
    BY <2>1, FS_Interval
  <2> QED BY <1>2, <2>1, <2>2, FS_Subset
<1>4. PICK i : i \in bad /\ \A j \in bad : i <= j
  BY <1>3, MinIs
<1>5. i \in k..n /\ ~ OnDay(in, f[i], d, R, L)
  BY <1>2, <1>4
<1>6. i # k
  BY <1>5
<1>7. PICK j \in k..(n - 1) : i = j + 1 /\ j < i
  <2>1. i - 1 \in k..(n - 1) /\ i = (i - 1) + 1 /\ i - 1 < i
    BY <1>1, <1>5, <1>6
  <2> QED BY <2>1
<1>8. OnDay(in, f[j], d, R, L)
  <2>1. j \in k..n /\ j \in Int /\ i \in Int
    BY <1>1, <1>5, <1>7
  <2>2. j \notin bad
    BY <1>4, <1>7, <2>1
  <2> QED BY <1>2, <2>1, <2>2
<1>9. j \in 0..(n - 1) /\ j \in 0..n
  BY <1>1, <1>7
<1>10. BookInv(in, f[j])
  BY <1>9 DEF Replay
<1>11. PICK e : IsNext(in, e, f[j]) /\ Body(in, e, f[j], f[i])
  BY <1>7, <1>9 DEF Replay
<1>12. OnDay(in, f[i], d, R, L)
  BY <1>8, <1>10, <1>11, DayIsFinal
<1> QED BY <1>5, <1>12

\* Two replays that are alike up to the open of a day end with the same lots of that day.
LEMMA AlikeOnDay ==
  ASSUME NEW a, NEW b, NEW d, Alike(a, b, d), NEW x, Replayed(a, x), NEW y, Replayed(b, y),
         d \in Past(a, x, Buying), d \in Past(b, y, Buying)
  PROVE  \E R, L : /\ OnDay(a, x, d, R, L) /\ OnDay(b, y, d, R, L)
                   /\ \A l, m \in L : l.symbol = m.symbol => l = m
<1>1. PICK n, f : Replay(a, n, f) /\ f[n] = x
  BY DEF Replayed
<1>2. PICK m, g : Replay(b, m, g) /\ g[m] = y
  BY DEF Replayed
<1>3. PICK k : First(a, n, f, d, k) /\ First(b, m, g, d, k) /\ SameBook(f[k], g[k])
  BY <1>1, <1>2, Meet
<1>4. n \in Nat /\ m \in Nat /\ k \in 1..n /\ k \in 1..m
  BY <1>1, <1>2, <1>3 DEF Replay, First
<1>5. IsInput(a) /\ IsInput(b)
  BY DEF Alike
<1>6. PICK j : j \in 0..(k - 1) /\ j \in 0..(n - 1) /\ j \in 0..(m - 1) /\ j \in 0..n /\ j \in 0..m /\ j + 1 = k
  <2>1. k - 1 \in 0..(k - 1) /\ k - 1 \in 0..(n - 1) /\ k - 1 \in 0..(m - 1) /\ k - 1 \in 0..n /\ k - 1 \in 0..m
        /\ (k - 1) + 1 = k
    BY <1>4
  <2> QED BY <2>1
<1>7. PICK u, v, w, z : u = f[j] /\ v = f[k] /\ w = g[j] /\ z = g[k]
  OBVIOUS
<1>8. /\ \A p \in v.positions : p.held.day # d
      /\ \A l, o \in v.lots : l.day = d /\ o.day = d /\ l.symbol = o.symbol => l = o
  <2>1. BookInv(a, u) /\ \E e : IsNext(a, e, u) /\ Body(a, e, u, v)
    BY <1>1, <1>6, <1>7 DEF Replay
  <2>2. d \notin Past(a, u, Buying) /\ d \in Past(a, v, Buying)
    BY <1>3, <1>6, <1>7 DEF First
  <2> QED BY <1>5, <2>1, <2>2, BoughtOn
<1>9. v.lots = z.lots /\ v.positions = z.positions /\ v.trades = z.trades
  BY <1>3, <1>7 DEF SameBook
<1>10. PICK R, L : R = {t \in OpensIn(v.trades) : t.day = d} /\ L = {l \in v.lots : l.day = d}
  OBVIOUS
<1>11. OnDay(a, v, d, R, L) /\ OnDay(b, z, d, R, L)
  <2>1. d \in Past(a, v, Buying) /\ d \in Past(b, z, Buying)
    BY <1>3, <1>7 DEF First
  <2> QED BY <1>8, <1>9, <1>10, <2>1 DEF OnDay
<1>12. k \in 0..n /\ k \in 0..m
  BY <1>4
<1>13. OnDay(a, x, d, R, L)
  BY <1>1, <1>5, <1>7, <1>11, <1>12, FinalToTheEnd
<1>14. OnDay(b, y, d, R, L)
  BY <1>2, <1>5, <1>7, <1>11, <1>12, FinalToTheEnd
<1>15. \A l, o \in L : l.symbol = o.symbol => l = o
  BY <1>8, <1>10
<1> QED BY <1>13, <1>14, <1>15

-----------------------------------------------------------------------------
(***************************************************************************)
(* The open book, and the one behind the tables, come from a replay.       *)
(***************************************************************************)
TraceInv ==
  /\ book.by \in Writers => Replayed(input[book.by], book)
  /\ TradeDates(tables.in) # {} =>
       \E b : /\ Finished(tables.in, b) /\ Replayed(tables.in, b)
              /\ tables.trades = b.trades /\ tables.positions = b.positions

\* It is so at the start: nothing is open, nothing is committed.
LEMMA TraceBegins == Init => TraceInv
<1> SUFFICES ASSUME Init PROVE TraceInv
  OBVIOUS
<1>1. book.by \notin Writers
  BY DEF Init, NoBook, Writers
<1>2. TradeDates(tables.in) = {}
  BY DEF Init, NoTables, NoInput, NoPicks, TradeDates
<1> QED BY <1>1, <1>2 DEF TraceInv

\* A step that touches neither keeps it.
LEMMA TraceStays ==
  ASSUME PaperInv, TraceInv, UNCHANGED tables,
         \/ book' = NoBook
         \/ book' = book /\ (book.by \in Writers => input'[book.by] = input[book.by])
  PROVE  TraceInv'
<1>1. CASE book' = NoBook
  <2>1. book'.by \notin Writers
    BY <1>1 DEF NoBook, Writers
  <2> QED BY <2>1 DEF TraceInv
<1>2. CASE book' = book /\ (book.by \in Writers => input'[book.by] = input[book.by])
  BY <1>2 DEF TraceInv
<1> QED BY <1>1, <1>2

\* Loading keeps it: the writer that loads holds no book.
LEMMA TraceLoads == ASSUME PaperInv, TraceInv, NEW w \in Writers, Load(w) PROVE TraceInv'
<1>1. at[w] # "save"
  BY DEF Load
<1>2. book.by \in Writers => book.by # w
  BY <1>1 DEF PaperInv, WriterInv
<1>3. book.by \in Writers => input'[book.by] = input[book.by]
  <2>1. DOMAIN input = Writers /\ \E v : input' = [input EXCEPT ![w] = v]
    BY DEF PaperInv, WriterInv, Load
  <2> QED BY <1>2, <2>1
<1>4. book' = book /\ tables' = tables
  BY DEF Load
<1> QED BY <1>3, <1>4, TraceStays

\* A replay begins.
LEMMA TraceGoesIn == ASSUME PaperInv, PaperInv', TraceInv, NEW w \in Writers, Begin(w) PROVE TraceInv'
<1>1. PICK in, cash, b : in = input[w] /\ cash = in.cash /\ b = book'
  OBVIOUS
<1>2. b = [NoBook EXCEPT !.by = w, !.cash = cash] /\ input' = input /\ tables' = tables
  BY <1>1 DEF Begin
<1>3. b.by = w
  <2>1. PICK none : none = NoBook.weights
    OBVIOUS
  <2>2. b = [by |-> w, done |-> 0, step |-> "mark", budget |-> 0, weights |-> none,
             cash |-> cash, realized |-> 0, next |-> 0, lots |-> {},
             trades |-> {}, positions |-> {}, equity |-> {}]
    BY <1>2, <2>1, FreshIs
  <2> QED BY <2>2
<1>4. BookInv(in, b)
  BY <1>1, <1>2, <1>3 DEF PaperInv, WriterInv
<1>5. Replayed(in, b)
  BY <1>1, <1>2, <1>4, ReplayBegins
<1> QED BY <1>1, <1>2, <1>3, <1>5 DEF TraceInv

\* It goes on.
LEMMA TraceGoesOn == ASSUME PaperInv, PaperInv', TraceInv, NEW w \in Writers, Trade(w) PROVE TraceInv'
<1>1. PICK in, b, c : in = input[w] /\ b = book /\ c = book'
  OBVIOUS
<1>2. b.by = w /\ BookInv(in, b) /\ IsInput(in) /\ input' = input /\ tables' = tables /\ Replayed(in, b)
  BY <1>1 DEF Trade, PaperInv, WriterInv, TraceInv
<1>3. PICK d \in Days : IsNext(in, d, b) /\ Body(in, d, b, c)
  BY <1>1 DEF Trade
<1>4. BookInv(in, c) /\ c.by = w
  BY <1>2, <1>3, BodyKeeps
<1>5. Replayed(in, c)
  BY <1>2, <1>3, <1>4, ReplayGoesOn
<1> QED BY <1>1, <1>2, <1>4, <1>5 DEF TraceInv

\* The commit puts the finished replay behind the tables.
LEMMA TraceCommits == ASSUME PaperInv, TraceInv, NEW w \in Writers, Commit(w) PROVE TraceInv'
<1>1. PICK in, b, tab : in = input[w] /\ b = book /\ tab = tables'
  OBVIOUS
<1>2. b.by = w /\ BookInv(in, b) /\ TradeDates(in) # {} /\ b.done = Max(TradeDates(in)) /\ Replayed(in, b)
  BY <1>1 DEF Commit, PaperInv, WriterInv, TraceInv
<1>3. Finished(in, b)
  BY <1>2, CommittedIsFinished
<1>4. tab.in = in /\ tab.trades = b.trades /\ tab.positions = b.positions
  BY <1>1 DEF Commit, Committed
<1>5. book'.by \notin Writers
  BY DEF Commit, Ends, NoBook, Writers
<1> QED BY <1>1, <1>2, <1>3, <1>4, <1>5 DEF TraceInv

\* A flat curve has no replay behind it.
LEMMA TraceSeeds == ASSUME PaperInv, TraceInv, NEW w \in Writers, Seed(w) PROVE TraceInv'
<1>1. PICK in, tab : in = input[w] /\ tab = tables'
  OBVIOUS
<1>2. tab = Seeded(in) /\ TradeDates(in) = {}
  BY <1>1 DEF Seed
<1>3. tab.in = in
  BY <1>2 DEF Seeded
<1>4. book'.by \notin Writers
  BY DEF Seed, Ends, NoBook, Writers
<1> QED BY <1>1, <1>2, <1>3, <1>4 DEF TraceInv

\* A rollback leaves the tables, and the book of the other writer.
LEMMA TraceRollsBack == ASSUME PaperInv, TraceInv, NEW w \in Writers, Rollback(w) PROVE TraceInv'
<1>1. tables' = tables
  BY DEF Rollback
<1>2. CASE book.by = w
  <2>1. book' = NoBook
    BY <1>2 DEF Rollback
  <2> QED BY <1>1, <2>1, TraceStays
<1>3. CASE book.by # w
  <2>1. book' = book
    BY <1>3 DEF Rollback
  <2>2. book.by \in Writers => input'[book.by] = input[book.by]
    <3>1. DOMAIN input = Writers /\ \E v : input' = [input EXCEPT ![w] = v]
      BY DEF PaperInv, WriterInv, Rollback
    <3> QED BY <1>3, <3>1
  <2> QED BY <1>1, <2>1, <2>2, TraceStays
<1> QED BY <1>2, <1>3

\* Every step keeps it.
LEMMA TraceKeeps == ASSUME PaperInv, PaperInv', TraceInv, [Next]_vars PROVE TraceInv'
<1>1. ASSUME NEW w \in Writers,
             Load(w) \/ Begin(w) \/ Trade(w) \/ Commit(w) \/ Rollback(w) \/ Seed(w)
      PROVE  TraceInv'
  BY <1>1, TraceLoads, TraceGoesIn, TraceGoesOn, TraceCommits, TraceRollsBack, TraceSeeds
<1>2. CASE Refresh \/ Predict \/ Close \/ Open \/ UNCHANGED vars
  <2>1. tables' = tables /\ book' = book /\ input' = input
    BY <1>2 DEF Refresh, Predict, Close, Open, vars
  <2> QED BY <2>1, TraceStays
<1> QED BY <1>1, <1>2 DEF Next

\* Tables that rest on alike inputs agree on the lots of the day.
LEMMA TablesAgree ==
  ASSUME PaperInv, PaperInv', TraceInv, TraceInv', NEW d \in Days, SameBasis(tables.in, tables'.in, d)
  PROVE  /\ Fills(tables, d) = Fills(tables', d)
         /\ \A p \in Entries(tables, d), q \in Entries(tables', d) : p.symbol = q.symbol => p = q
<1>1. PICK old, new : old = tables /\ new = tables'
  OBVIOUS
<1>2. IsInput(old.in) /\ IsInput(new.in) /\ SameBasis(old.in, new.in, d)
  BY <1>1 DEF PaperInv, Settled
<1>3. d \in TradeDates(old.in) /\ d \in TradeDates(new.in)
  BY <1>2 DEF SameBasis
<1>4. PICK x : Finished(old.in, x) /\ Replayed(old.in, x) /\ old.trades = x.trades /\ old.positions = x.positions
  BY <1>1, <1>3 DEF TraceInv
<1>5. PICK y : Finished(new.in, y) /\ Replayed(new.in, y) /\ new.trades = y.trades /\ new.positions = y.positions
  BY <1>1, <1>3 DEF TraceInv
<1>6. d \in Past(old.in, x, Buying) /\ d \in Past(new.in, y, Buying)
  BY <1>3, <1>4, <1>5, AllPast
<1>7. Alike(old.in, new.in, d)
  BY <1>2 DEF Alike
<1>8. PICK R, L : /\ OnDay(old.in, x, d, R, L) /\ OnDay(new.in, y, d, R, L)
                  /\ \A l, m \in L : l.symbol = m.symbol => l = m
  BY <1>4, <1>5, <1>6, <1>7, AlikeOnDay
<1>9. Fills(old, d) = R /\ Fills(new, d) = R
  <2>1. Fills(old, d) = {t \in OpensIn(x.trades) : t.day = d} /\ Fills(new, d) = {t \in OpensIn(y.trades) : t.day = d}
    BY <1>4, <1>5 DEF Fills, OpensIn
  <2> QED BY <1>8, <2>1 DEF OnDay
<1>10. Entries(old, d) \subseteq L /\ Entries(new, d) \subseteq L
  BY <1>4, <1>5, <1>8 DEF Entries, OnDay
<1>11. \A p \in Entries(old, d), q \in Entries(new, d) : p.symbol = q.symbol => p = q
  BY <1>8, <1>10
<1> QED BY <1>1, <1>9, <1>11

\* With the same picks up to a day, the same bars before it and the same open, a later replay
\* opens that day's lots again exactly as they were: no decision at the open looks at the
\* day's own high, low or close (engine.py:570-577).
THEOREM OpensStayFinal == Spec => OpensAreFinal
<1>1. Spec => []TraceInv
  <2>1. Init => TraceInv
    BY TraceBegins
  <2>2. PaperInv /\ PaperInv' /\ TraceInv /\ [Next]_vars => TraceInv'
    BY TraceKeeps
  <2> QED BY <2>1, <2>2, PaperInvHolds, PTL DEF Spec
<1>2. PaperInv /\ PaperInv' /\ TraceInv /\ TraceInv' =>
        \A d \in Days : SameBasis(tables.in, tables'.in, d) =>
          /\ Fills(tables, d) = Fills(tables', d)
          /\ \A p \in Entries(tables, d), q \in Entries(tables', d) : p.symbol = q.symbol => p = q
  BY TablesAgree
<1> QED BY <1>1, <1>2, PaperInvHolds, PTL DEF OpensAreFinal

-----------------------------------------------------------------------------
(***************************************************************************)
(* Closes land: what is not up to date has cost upsets.                    *)
(***************************************************************************)
\* What has been read or stored has the final bars and the picks of the sessions up to n,
\* and skips none of their closes.
BarsUpTo(B, m, n) == \A s \in Symbols, d \in 1..n : B[s][d] = m[s][d]
UpTo(in, m, p, n) ==
  /\ BarsUpTo(in.bars, m, n) /\ \A d \in 1..n : in.picks[d] = p[d]
  /\ in.skip => Max(TradeDates(in)) > n

Done == at["tick"] = "done"
Evening == phase = "evening"

\* How many steps have failed, or rebuilds run, if the store, what a writer has read, or the
\* tables are not up to date with the sessions before today's.
StoreLag == (IF Evening THEN 2 ELSE 1) + (IF at["tick"] = "refresh" THEN 0 ELSE 1)
InputLag == IF Evening THEN 3 ELSE 2
TablesLag == (IF Evening THEN 2 ELSE 1) + (IF Done THEN 1 ELSE 0)

\* Before the tick of the evening the tables are owed nothing of today's session, after it
\* one upset will have been the reason.
LandInv ==
  /\ BarsUpTo(bars, market, day - 1) \/ upsets >= StoreLag
  /\ \A w \in Writers : at[w] = "save" => UpTo(input[w], market, picks, day - 1) \/ upsets >= InputLag
  /\ UpTo(tables.in, market, picks, day - 1) \/ upsets >= TablesLag
  /\ at["rebuild"] = "save" => upsets >= 1
  /\ Evening => /\ at["tick"] # "refresh" => BarsUpTo(bars, market, day) \/ upsets >= 1
                /\ at["tick"] = "save" => UpTo(input["tick"], market, picks, day) \/ upsets >= 1
                /\ Done => UpTo(tables.in, market, picks, day) \/ upsets >= 1

\* What the lags are made of.
Places == {"refresh", "predict", "replay", "save", "done"}

\* The types that the counting needs.
LEMMA LandTypes ==
  ASSUME PaperInv
  PROVE  /\ day \in Nat /\ upsets \in Nat /\ phase \in {"morning", "evening"}
         /\ DOMAIN at = Writers /\ at["tick"] \in Places /\ at["rebuild"] \in {"idle", "save"}
         /\ DOMAIN input = Writers
<1>1. day \in Nat /\ phase \in {"morning", "evening"}
  BY DatesAre DEF PaperInv, StoreInv
<1>2. upsets \in Nat
  BY ConstantsAre DEF PaperInv, StoreInv
<1> QED BY <1>1, <1>2 DEF PaperInv, WriterInv, Places

\* A market that has changed on one day only is the same on the others.
LEMMA UpToStays ==
  ASSUME NEW m, NEW k, NEW n, \A s \in Symbols, d \in 1..n : k[s][d] = m[s][d],
         NEW p, NEW q, \A d \in 1..n : q[d] = p[d]
  PROVE  /\ \A B : BarsUpTo(B, m, n) => BarsUpTo(B, k, n)
         /\ \A in : UpTo(in, m, p, n) => UpTo(in, k, q, n)
BY DEF BarsUpTo, UpTo

\* At the start no session is over.
LEMMA LandBegins == Init => LandInv
<1> SUFFICES ASSUME Init PROVE LandInv
  OBVIOUS
<1>1. day - 1 = 0 /\ 1..0 = {} /\ ~ Evening
  BY DEF Init, Evening
<1>2. at["tick"] = "refresh" /\ at["rebuild"] = "idle"
  BY DEF Init, Writers
<1>3. ~ tables.in.skip
  BY DEF Init, NoTables, NoInput
<1>4. BarsUpTo(bars, market, day - 1)
  BY <1>1 DEF BarsUpTo
<1>5. UpTo(tables.in, market, picks, day - 1)
  BY <1>1, <1>3 DEF BarsUpTo, UpTo
<1> QED BY <1>1, <1>2, <1>4, <1>5 DEF LandInv, Writers

\* A refresh brings the store up to date, or is an upset.
LEMMA LandRefreshes == ASSUME PaperInv, LandInv, Refresh PROVE LandInv'
<1>1. /\ at["tick"] = "refresh" /\ at'["tick"] = "predict" /\ at'["rebuild"] = at["rebuild"]
      /\ \A w \in Writers : at'[w] = "save" => at[w] = "save"
  BY LandTypes DEF Refresh, Writers
<1>2. UNCHANGED <<day, phase, market, picks, input, tables>>
  BY DEF Refresh, clockVars
<1>3. upsets' \in Nat /\ upsets \in Nat /\ upsets' >= upsets
      /\ (upsets' >= upsets + 1 \/ bars' = market) /\ (bars' = bars \/ bars' = market)
  BY LandTypes DEF Refresh, Upset, Fetched
<1>4. \A n : BarsUpTo(market, market, n)
  BY DEF BarsUpTo
<1>5. BarsUpTo(bars, market, day - 1)' \/ upsets' >= StoreLag'
  BY <1>1, <1>2, <1>3, <1>4 DEF LandInv, StoreLag, Evening
<1>6. \A w \in Writers : at'[w] = "save" => UpTo(input[w], market, picks, day - 1)' \/ upsets' >= InputLag'
  BY <1>1, <1>2, <1>3 DEF LandInv, InputLag, Evening
<1>7. UpTo(tables.in, market, picks, day - 1)' \/ upsets' >= TablesLag'
  BY <1>1, <1>2, <1>3 DEF LandInv, TablesLag, Evening, Done
<1>8. BarsUpTo(bars, market, day)' \/ upsets' >= 1
  BY <1>2, <1>3, <1>4
<1> QED BY <1>1, <1>2, <1>3, <1>5, <1>6, <1>7, <1>8 DEF LandInv, Done

\* A prediction is about today.
LEMMA LandPredicts == ASSUME PaperInv, LandInv, Predict PROVE LandInv'
<1>1. /\ at["tick"] = "predict" /\ at'["tick"] = "replay" /\ at'["rebuild"] = at["rebuild"]
      /\ \A w \in Writers : at'[w] = "save" => at[w] = "save"
  BY LandTypes DEF Predict, Writers
<1>2. UNCHANGED <<day, phase, market, bars, input, tables>>
  BY DEF Predict, clockVars
<1>3. upsets' \in Nat /\ upsets \in Nat /\ upsets' >= upsets
  BY LandTypes DEF Predict, Upset
<1>4. \A d \in 1..(day - 1) : picks'[d] = picks[d]
  <2>1. \A d \in 1..(day - 1) : d # day
    BY LandTypes
  <2>2. picks' = picks \/ \E v : picks' = [picks EXCEPT ![day] = v]
    BY DEF Predict
  <2>3. \A d \in 1..(day - 1) : d \in DOMAIN picks
    <3>1. DOMAIN picks = 1..LastDay /\ day \in 1..LastDay
      BY DEF PaperInv, StoreInv, Days
    <3> QED BY <3>1, ConstantsAre
  <2> QED BY <2>1, <2>2, <2>3
<1>5. \A in : UpTo(in, market, picks, day - 1) => UpTo(in, market, picks', day - 1)
  BY <1>4, UpToStays
<1>6. BarsUpTo(bars, market, day - 1)' \/ upsets' >= StoreLag'
  BY <1>1, <1>2, <1>3 DEF LandInv, StoreLag, Evening
<1>7. \A w \in Writers : at'[w] = "save" => UpTo(input[w], market, picks, day - 1)' \/ upsets' >= InputLag'
  BY <1>1, <1>2, <1>3, <1>5 DEF LandInv, InputLag, Evening
<1>8. UpTo(tables.in, market, picks, day - 1)' \/ upsets' >= TablesLag'
  BY <1>1, <1>2, <1>3, <1>5 DEF LandInv, TablesLag, Evening, Done
<1>9. Evening' => BarsUpTo(bars, market, day)' \/ upsets' >= 1
  BY <1>1, <1>2, <1>3 DEF LandInv, Evening
<1> QED BY <1>1, <1>3, <1>6, <1>7, <1>8, <1>9 DEF LandInv, Done

\* The close of a session changes only today's bars.
LEMMA LandCloses == ASSUME PaperInv, LandInv, Close PROVE LandInv'
<1>1. /\ Done /\ at["rebuild"] = "idle" /\ at'["tick"] = "refresh" /\ at'["rebuild"] = "idle"
      /\ phase = "morning" /\ phase' = "evening"
  BY LandTypes DEF Close, Quiet, Writers, Done
<1>2. UNCHANGED <<day, bars, picks, input, tables, upsets>>
  BY DEF Close
<1>3. \A s \in Symbols, d \in 1..(day - 1) : market'[s][d] = market[s][d]
  <2>1. PICK full : market' = [s \in Symbols |-> [market[s] EXCEPT ![day] = full[s]]]
    BY DEF Close
  <2>2. \A s \in Symbols : DOMAIN market[s] = 1..LastDay
    BY DEF PaperInv, StoreInv, Quotes, Days
  <2>3. \A d \in 1..(day - 1) : d # day /\ d \in 1..LastDay
    BY LandTypes, ConstantsAre DEF PaperInv, StoreInv, Days
  <2> QED BY <2>1, <2>2, <2>3
<1>4. /\ \A B : BarsUpTo(B, market, day - 1) => BarsUpTo(B, market', day - 1)
      /\ \A in : UpTo(in, market, picks, day - 1) => UpTo(in, market', picks, day - 1)
  BY <1>3, UpToStays
<1>5. upsets \in Nat /\ at["tick"] # "refresh" /\ Evening' /\ ~ Done' /\ ~ Evening
  BY <1>1, LandTypes DEF Evening, Done
<1>6. BarsUpTo(bars, market, day - 1)' \/ upsets' >= StoreLag'
  BY <1>1, <1>2, <1>4, <1>5 DEF LandInv, StoreLag
<1>7. UpTo(tables.in, market, picks, day - 1)' \/ upsets' >= TablesLag'
  BY <1>1, <1>2, <1>4, <1>5 DEF LandInv, TablesLag
<1> QED BY <1>1, <1>5, <1>6, <1>7 DEF LandInv, Writers

\* The next one opens, and today's is one of those before.
LEMMA LandOpens == ASSUME PaperInv, LandInv, Open PROVE LandInv'
<1>1. /\ Done /\ at["rebuild"] = "idle" /\ at'["tick"] = "refresh" /\ at'["rebuild"] = "idle"
      /\ phase = "evening" /\ phase' = "morning"
  BY LandTypes DEF Open, Quiet, Writers, Done
<1>2. UNCHANGED <<bars, picks, input, tables, upsets>> /\ day' - 1 = day
  BY LandTypes DEF Open
<1>3. \A s \in Symbols, d \in 1..day : market'[s][d] = market[s][d]
  <2>1. PICK early : market' = [s \in Symbols |-> [market[s] EXCEPT ![day + 1] = early[s]]]
    BY DEF Open
  <2>2. \A s \in Symbols : DOMAIN market[s] = 1..LastDay
    BY DEF PaperInv, StoreInv, Quotes, Days
  <2>3. \A d \in 1..day : d # day + 1 /\ d \in 1..LastDay
    BY LandTypes, ConstantsAre DEF PaperInv, StoreInv, Days
  <2> QED BY <2>1, <2>2, <2>3
<1>4. /\ \A B : BarsUpTo(B, market, day) => BarsUpTo(B, market', day)
      /\ \A in : UpTo(in, market, picks, day) => UpTo(in, market', picks, day)
  BY <1>3, UpToStays
<1>5. upsets \in Nat /\ at["tick"] # "refresh" /\ ~ Evening' /\ ~ Done' /\ Evening
  BY <1>1, LandTypes DEF Evening, Done
<1>6. BarsUpTo(bars, market, day - 1)' \/ upsets' >= StoreLag'
  BY <1>1, <1>2, <1>4, <1>5 DEF LandInv, StoreLag
<1>7. UpTo(tables.in, market, picks, day - 1)' \/ upsets' >= TablesLag'
  BY <1>1, <1>2, <1>4, <1>5 DEF LandInv, TablesLag
<1> QED BY <1>1, <1>5, <1>6, <1>7 DEF LandInv, Writers

\* What a load reads is as good as the store.
LEMMA LoadedUpTo ==
  ASSUME PaperInv, NEW w \in Writers, NEW n \in Int, BarsUpTo(bars, market, n),
         n < day \/ phase = "evening"
  PROVE  UpTo(Loaded(w), market, picks, n)
<1>1. PICK in, dates : in = Loaded(w) /\ dates = TradeDates([picks |-> picks])
  OBVIOUS
<1>2. in.picks = picks /\ in.bars = bars
      /\ in.skip = (w = "tick" /\ phase = "morning" /\ dates # {} /\ Max(dates) = day)
  BY <1>1 DEF Loaded
<1>3. TradeDates(in) = dates
  BY <1>1, <1>2 DEF TradeDates
<1>4. in.skip => Max(TradeDates(in)) > n
  <2>1. in.skip => phase = "morning" /\ Max(TradeDates(in)) = day
    BY <1>2, <1>3
  <2>2. day \in Nat
    BY LandTypes
  <2> QED BY <2>1, <2>2
<1> QED BY <1>1, <1>2, <1>4 DEF UpTo

\* A tick loads after its refresh and its prediction; a rebuild may load earlier, and is an upset.
LEMMA LandLoads == ASSUME PaperInv, LandInv, NEW w \in Writers, Load(w) PROVE LandInv'
<1>1. /\ at[w] # "save" /\ at'[w] = "save" /\ \A v \in Writers : v # w => at'[v] = at[v]
      /\ \A v \in Writers : v # w => input'[v] = input[v]
  BY LandTypes DEF Load
<1>2. UNCHANGED <<day, phase, market, bars, picks, tables>>
  BY DEF Load, clockVars
<1>3. upsets' \in Nat /\ upsets \in Nat /\ upsets' >= upsets /\ day \in Nat
      /\ (w = "rebuild" => upsets' >= upsets + 1) /\ (w = "tick" => at["tick"] = "replay")
  BY LandTypes DEF Load, Upset
<1>4. PICK in : in = input'[w] /\ in = Loaded(w)
  BY LandTypes DEF Load
<1>5. w = "tick" \/ w = "rebuild"
  BY DEF Writers
<1>6. /\ BarsUpTo(bars, market, day - 1) => UpTo(in, market, picks, day - 1)
      /\ Evening /\ BarsUpTo(bars, market, day) => UpTo(in, market, picks, day)
  <2>1. day - 1 \in Int /\ day \in Int /\ day - 1 < day
    BY <1>3
  <2> QED BY <1>4, <2>1, LoadedUpTo DEF Evening
<1>7. UpTo(in, market, picks, day - 1) \/ upsets' >= InputLag
  <2>1. CASE w = "tick"
    BY <1>3, <1>6, <2>1 DEF LandInv, StoreLag, InputLag
  <2>2. CASE w = "rebuild"
    BY <1>3, <1>6, <2>2 DEF LandInv, StoreLag, InputLag
  <2> QED BY <1>5, <2>1, <2>2
<1>8. (at["tick"] = "refresh" <=> at'["tick"] = "refresh") /\ (Done <=> Done')
  BY <1>1, <1>3, <1>5 DEF Done, Writers
<1>9. BarsUpTo(bars, market, day - 1)' \/ upsets' >= StoreLag'
  BY <1>2, <1>3, <1>8 DEF LandInv, StoreLag, Evening
<1>10. \A v \in Writers : at'[v] = "save" => UpTo(input[v], market, picks, day - 1)' \/ upsets' >= InputLag'
  <2> SUFFICES ASSUME NEW v \in Writers, at'[v] = "save"
               PROVE  UpTo(input'[v], market', picks', day' - 1) \/ upsets' >= InputLag'
    OBVIOUS
  <2>1. InputLag' = InputLag /\ InputLag \in Nat
    BY <1>2 DEF InputLag, Evening
  <2>2. CASE v = w
    BY <1>2, <1>4, <1>7, <2>1, <2>2
  <2>3. CASE v # w
    <3>1. at[v] = "save" /\ input'[v] = input[v]
      BY <1>1, <2>3
    <3>2. UpTo(input[v], market, picks, day - 1) \/ upsets >= InputLag
      BY <3>1 DEF LandInv
    <3> QED BY <1>2, <1>3, <2>1, <3>1, <3>2
  <2> QED BY <2>2, <2>3
<1>11. UpTo(tables.in, market, picks, day - 1)' \/ upsets' >= TablesLag'
  BY <1>2, <1>3, <1>8 DEF LandInv, TablesLag, Evening
<1>12. at'["rebuild"] = "save" => upsets' >= 1
  <2>1. at["rebuild"] = "save" => upsets >= 1
    BY DEF LandInv
  <2> QED BY <1>1, <1>3, <1>5, <2>1 DEF Writers
<1>13. ASSUME Evening' PROVE /\ at'["tick"] # "refresh" => BarsUpTo(bars, market, day)' \/ upsets' >= 1
                             /\ Done' => UpTo(tables.in, market, picks, day)' \/ upsets' >= 1
  BY <1>2, <1>3, <1>8, <1>13 DEF LandInv, Evening
<1>14. ASSUME Evening', at'["tick"] = "save" PROVE UpTo(input["tick"], market, picks, day)' \/ upsets' >= 1
  <2>1. Evening
    BY <1>2, <1>14 DEF Evening
  <2>2. CASE w = "tick"
    <3>1. BarsUpTo(bars, market, day) \/ upsets >= 1
      BY <1>3, <2>1, <2>2 DEF LandInv
    <3>2. UpTo(in, market, picks, day) \/ upsets' >= 1
      BY <1>3, <1>6, <2>1, <3>1
    <3>3. input'["tick"] = in
      BY <1>4, <2>2
    <3>4. UpTo(in, market', picks', day') \/ upsets' >= 1
      BY <1>2, <3>2
    <3> QED BY <3>3, <3>4
  <2>3. CASE w = "rebuild"
    BY <1>3, <2>3
  <2> QED BY <1>5, <2>2, <2>3
<1> QED BY <1>9, <1>10, <1>11, <1>12, <1>13, <1>14 DEF LandInv

\* A writer that ends leaves the tables as good as what it had read, or as they were and has
\* been upset.
LEMMA LandEnds ==
  ASSUME PaperInv, LandInv, NEW w \in Writers, at[w] = "save", at' = [at EXCEPT ![w] = Rests(w)],
         input' = [input EXCEPT ![w] = NoInput], UNCHANGED <<day, phase, market, bars, picks>>,
         \/ tables'.in = input[w] /\ upsets' = upsets
         \/ tables' = tables /\ upsets' = upsets + 1
  PROVE  LandInv'
<1>1. w = "tick" \/ w = "rebuild"
  BY DEF Writers
<1>2. /\ at'[w] # "save" /\ at'[w] # "refresh" /\ (w = "tick" => Done') /\ (w = "rebuild" => at'[w] = "idle")
      /\ \A v \in Writers : v # w => at'[v] = at[v] /\ input'[v] = input[v]
  <2>1. at'[w] = Rests(w) /\ \A v \in Writers : v # w => at'[v] = at[v] /\ input'[v] = input[v]
    BY LandTypes
  <2> QED BY <1>1, <2>1 DEF Rests, Done
<1>3. upsets' \in Nat /\ upsets \in Nat /\ upsets' >= upsets
  BY LandTypes
<1>4. at["tick"] = "refresh" <=> at'["tick"] = "refresh"
  BY <1>1, <1>2 DEF Writers
<1>5. BarsUpTo(bars, market, day - 1)' \/ upsets' >= StoreLag'
  BY <1>3, <1>4 DEF LandInv, StoreLag, Evening
<1>6. \A v \in Writers : at'[v] = "save" => UpTo(input[v], market, picks, day - 1)' \/ upsets' >= InputLag'
  <2> SUFFICES ASSUME NEW v \in Writers, at'[v] = "save"
               PROVE  UpTo(input'[v], market', picks', day' - 1) \/ upsets' >= InputLag'
    OBVIOUS
  <2>1. at[v] = "save" /\ input'[v] = input[v]
    BY <1>2
  <2>2. UpTo(input[v], market, picks, day - 1) \/ upsets >= InputLag
    BY <2>1 DEF LandInv
  <2> QED BY <1>3, <2>1, <2>2 DEF InputLag, Evening
<1>7. UpTo(tables.in, market, picks, day - 1)' \/ upsets' >= TablesLag'
  <2>1. CASE tables'.in = input[w] /\ upsets' = upsets
    <3>1. UpTo(input[w], market, picks, day - 1) \/ upsets >= InputLag
      BY DEF LandInv
    <3>2. InputLag >= TablesLag'
      BY DEF InputLag, TablesLag, Evening
    <3>3. InputLag \in Nat /\ TablesLag' \in Nat
      BY DEF InputLag, TablesLag
    <3> QED BY <1>3, <2>1, <3>1, <3>2, <3>3
  <2>2. CASE tables' = tables /\ upsets' = upsets + 1
    <3>1. UpTo(tables.in, market, picks, day - 1) \/ upsets >= TablesLag
      BY DEF LandInv
    <3>2. TablesLag + 1 >= TablesLag' /\ TablesLag \in Nat /\ TablesLag' \in Nat
      BY DEF TablesLag, Evening
    <3> QED BY <1>3, <2>2, <3>1, <3>2
  <2> QED BY <2>1, <2>2
<1>8. at'["rebuild"] = "save" => upsets' >= 1
  <2>1. at["rebuild"] = "save" => upsets >= 1
    BY DEF LandInv
  <2> QED BY <1>1, <1>2, <1>3, <2>1 DEF Writers
<1>9. ASSUME Evening', at'["tick"] # "refresh" PROVE BarsUpTo(bars, market, day)' \/ upsets' >= 1
  BY <1>3, <1>4, <1>9 DEF LandInv, Evening
<1>10. ASSUME Evening', at'["tick"] = "save" PROVE UpTo(input["tick"], market, picks, day)' \/ upsets' >= 1
  <2>1. w # "tick" /\ "tick" \in Writers
    BY <1>2, <1>10 DEF Writers
  <2>2. at["tick"] = "save" /\ input'["tick"] = input["tick"] /\ Evening
    BY <1>2, <1>10, <2>1 DEF Evening
  <2>3. UpTo(input["tick"], market, picks, day) \/ upsets >= 1
    BY <2>2 DEF LandInv
  <2> QED BY <1>3, <2>2, <2>3
<1>11. ASSUME Evening', Done' PROVE UpTo(tables.in, market, picks, day)' \/ upsets' >= 1
  <2>1. Evening
    BY <1>11 DEF Evening
  <2>2. CASE upsets' = upsets + 1
    BY <1>3, <2>2
  <2>3. CASE w = "rebuild"
    <3>1. upsets >= 1
      BY <2>3 DEF LandInv
    <3> QED BY <1>3, <3>1
  <2>4. CASE w = "tick" /\ tables'.in = input[w] /\ upsets' = upsets
    <3>1. UpTo(input["tick"], market, picks, day) \/ upsets >= 1
      BY <2>1, <2>4 DEF LandInv
    <3> QED BY <2>4, <3>1
  <2> QED BY <1>1, <2>2, <2>3, <2>4
<1> QED BY <1>5, <1>6, <1>7, <1>8, <1>9, <1>10, <1>11 DEF LandInv

\* Every step keeps the count.
LEMMA LandKeeps == ASSUME PaperInv, LandInv, [Next]_vars PROVE LandInv'
<1>1. ASSUME NEW w \in Writers, Begin(w) \/ Trade(w) \/ UNCHANGED vars PROVE LandInv'
  <2>1. UNCHANGED <<day, phase, market, bars, picks, at, input, tables, upsets>>
    BY <1>1 DEF Begin, Trade, vars, clockVars
  <2> QED BY <2>1 DEF LandInv, StoreLag, InputLag, TablesLag, Evening, Done
<1>2. ASSUME NEW w \in Writers, Commit(w) PROVE LandInv'
  <2>1. at[w] = "save"
    BY <1>2 DEF Commit, PaperInv, WriterInv
  <2>2. tables'.in = input[w] /\ upsets' = upsets
    BY <1>2 DEF Commit, Committed
  <2> QED BY <1>2, <2>1, <2>2, LandEnds DEF Commit, Ends, clockVars
<1>3. ASSUME NEW w \in Writers, Seed(w) PROVE LandInv'
  <2>1. tables'.in = input[w] /\ upsets' = upsets
    BY <1>3 DEF Seed, Seeded
  <2> QED BY <1>3, <2>1, LandEnds DEF Seed, Ends, clockVars
<1>4. ASSUME NEW w \in Writers, Rollback(w) PROVE LandInv'
  BY <1>4, LandEnds DEF Rollback, Upset, clockVars
<1>5. CASE UNCHANGED vars
  <2>1. "tick" \in Writers
    BY DEF Writers
  <2> QED BY <1>1, <1>5, <2>1
<1> QED BY <1>1, <1>2, <1>3, <1>4, <1>5, LandRefreshes, LandPredicts, LandCloses, LandOpens, LandLoads DEF Next

\* The replay of the writer marks every close it comes by, unless it skips the last one.
Marked(in, equity, n) ==
  \A d \in TradeDates(in) :
     d <= n /\ ~ (in.skip /\ d = Max(TradeDates(in)))
       => \E e \in equity : e.day = d /\ e.kind = "close_5pm_ct"

MarkInv ==
  /\ book.by \in Writers => Marked(input[book.by], book.equity, book.done)
  /\ Marked(tables.in, tables.equity, LastDay)

\* More rows of the curve do no harm.
LEMMA MarkedStays ==
  ASSUME NEW in, NEW old, NEW new, old \subseteq new, NEW n, Marked(in, old, n)
  PROVE  Marked(in, new, n)
BY DEF Marked

\* Each step of a trade date keeps the marks.
LEMMA BodyMarks ==
  ASSUME NEW in, NEW x, IsBook(x), Frame(in, x), Marked(in, x.equity, x.done),
         NEW e, IsNext(in, e, x), NEW c, Body(in, e, x, c)
  PROVE  Marked(in, c.equity, c.done)
<1>1. CASE x.step = "mark"
  <2>1. PICK m : m = Mark(in, x.lots, x.cash, x.realized, e, "open_8am_ct", "open")
    OBVIOUS
  <2>2. c = MarkAtOpen(in, e, x)
    BY <1>1 DEF Body
  <2>3. /\ IsBook(c) /\ c.step = "expire" /\ c.done = x.done /\ c.by = x.by
        /\ c.cash = x.cash /\ c.realized = x.realized /\ c.next = x.next
        /\ c.lots = x.lots /\ c.trades = x.trades /\ c.positions = x.positions
        /\ c.equity = x.equity \cup {m} /\ c.budget = Max({0, m.equity \div Holding})
    BY <2>1, <2>2, MarkAtOpenIs
  <2>4. x.equity \subseteq c.equity
    BY <2>3
  <2> QED BY <2>3, <2>4, MarkedStays
<1>2. CASE x.step = "expire"
  <2>1. c = Expire(in, e, x)
    BY <1>2 DEF Body
  <2>2. c.equity = x.equity /\ c.done = x.done
    BY <2>1, ExpireIs
  <2> QED BY <2>2
<1>3. CASE x.step = "weigh"
  <2>1. c = Weigh(in, e, x)
    BY <1>3 DEF Body
  <2>2. /\ IsBook(c) /\ c.step = "buy" /\ c.done = x.done /\ c.by = x.by
        /\ c.budget = x.budget /\ c.cash = x.cash /\ c.realized = x.realized /\ c.next = x.next
        /\ c.lots = x.lots /\ c.trades = x.trades /\ c.positions = x.positions /\ c.equity = x.equity
        /\ c.weights = [s \in TopLongs(in, e) |-> RawWeight(in, s, e)]
    BY <2>1, WeighIs
  <2> QED BY <2>2
<1>4. CASE x.step = "buy"
  <2>1. c = Buy(in, e, x)
    BY <1>4 DEF Body
  <2>2. c.equity = x.equity /\ c.done = x.done
    BY <2>1, BuyIs
  <2> QED BY <2>2
<1>5. CASE x.step = "stop"
  <2>1. c = StopOut(in, e, x)
    BY <1>5 DEF Body
  <2>2. c.equity = x.equity /\ c.done = x.done
    BY <2>1, StopOutIs
  <2> QED BY <2>2
<1>6. CASE x.step = "close"
  <2>1. c = MarkAtClose(in, e, x)
    BY <1>6 DEF Body
  <2>2. /\ IsBook(c) /\ c.step = "mark" /\ c.done = e /\ c.by = x.by
        /\ c.budget = x.budget /\ c.weights = x.weights /\ c.next = x.next
        /\ c.cash = x.cash + Interest(x.cash) /\ c.realized = x.realized + Interest(x.cash)
        /\ c.lots = x.lots /\ c.trades = x.trades /\ c.positions = x.positions
        /\ c.equity = IF in.skip /\ e = Max(TradeDates(in)) THEN x.equity
                      ELSE x.equity \cup {Mark(in, x.lots, c.cash, c.realized, e, "close_5pm_ct", "close")}
    BY <2>1, MarkAtCloseIs
  <2>3. PICK m : m = Mark(in, x.lots, c.cash, c.realized, e, "close_5pm_ct", "close")
    OBVIOUS
  <2>4. m.day = e /\ m.kind = "close_5pm_ct"
    BY <2>3 DEF Mark
  <2>5. c.done = e /\ ((in.skip /\ e = Max(TradeDates(in))) \/ m \in c.equity) /\ x.equity \subseteq c.equity
    BY <2>2, <2>3
  <2>6. Marked(in, c.equity, x.done)
    BY <2>5, MarkedStays
  <2>7. \A d \in TradeDates(in) : d <= e => d <= x.done \/ d = e
    <3>1. e \in Nat /\ \A d \in TradeDates(in) : d \in Nat /\ (d <= x.done <=> d < e)
      BY NextIs
    <3> QED BY <3>1
  <2> QED BY <2>4, <2>5, <2>6, <2>7 DEF Marked
<1> QED BY <1>1, <1>2, <1>3, <1>4, <1>5, <1>6 DEF IsBook, BookSteps

\* Every step keeps the marks.
LEMMA MarksKeep == ASSUME PaperInv, MarkInv, [Next]_vars PROVE MarkInv'
<1>1. ASSUME NEW w \in Writers, Begin(w) PROVE MarkInv'
  <2>1. PICK in, cash, none, b : in = input[w] /\ cash = in.cash /\ none = NoBook.weights /\ b = book'
    OBVIOUS
  <2>2. b = [NoBook EXCEPT !.by = w, !.cash = cash] /\ input' = input /\ tables' = tables
    BY <1>1, <2>1 DEF Begin
  <2>3. b = [by |-> w, done |-> 0, step |-> "mark", budget |-> 0, weights |-> none,
             cash |-> cash, realized |-> 0, next |-> 0, lots |-> {},
             trades |-> {}, positions |-> {}, equity |-> {}]
    BY <2>1, <2>2, FreshIs
  <2>4. b.by = w /\ b.done = 0
    BY <2>3
  <2>5. Marked(in, b.equity, 0)
    BY DatesAre DEF Marked
  <2> QED BY <2>1, <2>2, <2>4, <2>5 DEF MarkInv
<1>2. ASSUME NEW w \in Writers, Trade(w) PROVE MarkInv'
  <2>1. PICK in, b, c : in = input[w] /\ b = book /\ c = book'
    OBVIOUS
  <2>2. b.by = w /\ BookInv(in, b) /\ IsInput(in) /\ Marked(in, b.equity, b.done)
        /\ input' = input /\ tables' = tables
    BY <1>2, <2>1 DEF Trade, PaperInv, WriterInv, MarkInv
  <2>3. PICK d \in Days : IsNext(in, d, b) /\ Body(in, d, b, c)
    BY <1>2, <2>1 DEF Trade
  <2>4. c.by = w
    BY <2>2, <2>3, BodyKeeps
  <2>5. Marked(in, c.equity, c.done)
    BY <2>2, <2>3, BodyMarks DEF BookInv, Frame
  <2> QED BY <2>1, <2>2, <2>4, <2>5 DEF MarkInv
<1>3. ASSUME NEW w \in Writers, Commit(w) PROVE MarkInv'
  <2>1. PICK in, b, tab : in = input[w] /\ b = book /\ tab = tables'
    OBVIOUS
  <2>2. b.by = w /\ b.done = Max(TradeDates(in)) /\ Finished(in, b) /\ Marked(in, b.equity, b.done)
    <3>1. b.by = w /\ BookInv(in, b) /\ TradeDates(in) # {} /\ b.done = Max(TradeDates(in))
          /\ Marked(in, b.equity, b.done)
      BY <1>3, <2>1 DEF Commit, PaperInv, WriterInv, MarkInv
    <3> QED BY <3>1, CommittedIsFinished
  <2>3. \A d \in TradeDates(in) : d <= b.done
    <3>1. Buying \in {Expiring, Buying, Stopping}
      OBVIOUS
    <3> QED BY <2>2, <3>1, AllPast
  <2>4. tab.in = in /\ tab.equity = b.equity
    BY <1>3, <2>1 DEF Commit, Committed
  <2>5. Marked(tab.in, tab.equity, LastDay)
    BY <2>2, <2>3, <2>4 DEF Marked
  <2>6. book'.by \notin Writers
    BY <1>3 DEF Commit, Ends, NoBook, Writers
  <2> QED BY <2>1, <2>5, <2>6 DEF MarkInv
<1>4. ASSUME NEW w \in Writers, Seed(w) PROVE MarkInv'
  <2>1. PICK in, tab : in = input[w] /\ tab = tables'
    OBVIOUS
  <2>2. tab.in = in /\ TradeDates(in) = {}
    BY <1>4, <2>1 DEF Seed, Seeded
  <2>3. Marked(tab.in, tab.equity, LastDay)
    BY <2>2 DEF Marked
  <2>4. book'.by \notin Writers
    BY <1>4 DEF Seed, Ends, NoBook, Writers
  <2> QED BY <2>1, <2>3, <2>4 DEF MarkInv
<1>5. ASSUME tables' = tables,
             \/ book' = NoBook
             \/ book' = book /\ (book.by \in Writers => input'[book.by] = input[book.by])
      PROVE  MarkInv'
  <2>1. CASE book' = NoBook
    <3>1. book'.by \notin Writers
      BY <2>1 DEF NoBook, Writers
    <3> QED BY <1>5, <3>1 DEF MarkInv
  <2>2. CASE book' = book /\ (book.by \in Writers => input'[book.by] = input[book.by])
    BY <1>5, <2>2 DEF MarkInv
  <2> QED BY <1>5, <2>1, <2>2
<1>6. ASSUME NEW w \in Writers, Load(w) \/ Rollback(w) PROVE MarkInv'
  <2>1. tables' = tables /\ \E v : input' = [input EXCEPT ![w] = v]
    BY <1>6 DEF Load, Rollback
  <2>2. \A v \in Writers : v # w => input'[v] = input[v]
    BY <2>1, LandTypes
  <2>3. CASE Load(w)
    <3>1. book' = book /\ at[w] # "save"
      BY <2>3 DEF Load
    <3>2. book.by \in Writers => book.by # w
      BY <3>1 DEF PaperInv, WriterInv
    <3> QED BY <1>5, <2>1, <2>2, <3>1, <3>2
  <2>4. CASE Rollback(w)
    <3>1. CASE book.by = w
      <4>1. book' = NoBook
        BY <2>4, <3>1 DEF Rollback
      <4> QED BY <1>5, <2>1, <4>1
    <3>2. CASE book.by # w
      <4>1. book' = book
        BY <2>4, <3>2 DEF Rollback
      <4> QED BY <1>5, <2>1, <2>2, <3>2, <4>1
    <3> QED BY <3>1, <3>2
  <2> QED BY <1>6, <2>3, <2>4
<1>7. CASE Refresh \/ Predict \/ Close \/ Open \/ UNCHANGED vars
  <2>1. tables' = tables /\ book' = book /\ input' = input
    BY <1>7 DEF Refresh, Predict, Close, Open, vars
  <2> QED BY <1>5, <2>1
<1> QED BY <1>1, <1>2, <1>3, <1>4, <1>6, <1>7 DEF Next

\* The start has no curve yet.
LEMMA MarksBegin == Init => MarkInv
<1> SUFFICES ASSUME Init PROVE MarkInv
  OBVIOUS
<1>1. book.by \notin Writers
  BY DEF Init, NoBook, Writers
<1>2. TradeDates(tables.in) = {}
  BY DEF Init, NoTables, NoInput, NoPicks, TradeDates
<1> QED BY <1>1, <1>2 DEF MarkInv, Marked

\* The deadline gives a close three ticks: its own evening's and the two of the next session.
FewUpsets == MaxUpsets <= 2

\* With fewer than three upsets some tick since then went through.
LEMMA AllLanded == ASSUME FewUpsets, PaperInv, LandInv, MarkInv PROVE ClosesLand
<1> SUFFICES ASSUME phase = "evening", Quiet, NEW d \in 1..(day - 1), d \in TradeDates([picks |-> picks])
             PROVE  /\ \A s \in Symbols : tables.in.bars[s][d] = market[s][d]
                    /\ \E e \in tables.equity : e.day = d /\ e.kind = "close_5pm_ct"
  BY DEF ClosesLand, Landed
<1>1. UpTo(tables.in, market, picks, day - 1)
  <2>1. TablesLag = 3
    BY DEF TablesLag, Evening, Done, Quiet
  <2>2. upsets \in 0..MaxUpsets
    BY DEF PaperInv, StoreInv
  <2>3. ~ (upsets >= 3)
    BY <2>2, ConstantsAre DEF FewUpsets
  <2> QED BY <2>1, <2>3 DEF LandInv
<1>2. PICK in : in = tables.in
  OBVIOUS
<1>3. \A s \in Symbols : in.bars[s][d] = market[s][d]
  BY <1>1, <1>2 DEF UpTo, BarsUpTo
<1>4. in.picks[d] = picks[d]
  BY <1>1, <1>2 DEF UpTo
<1>5. d \in TradeDates(in)
  BY <1>4 DEF TradeDates
<1>6. ~ (in.skip /\ d = Max(TradeDates(in)))
  <2>1. in.skip => Max(TradeDates(in)) > day - 1
    BY <1>1, <1>2 DEF UpTo
  <2>2. day \in Nat /\ d \in Int /\ d <= day - 1
    BY LandTypes
  <2> QED BY <2>1, <2>2
<1>7. d <= LastDay
  BY <1>5, DatesAre DEF Days
<1>8. \E e \in tables.equity : e.day = d /\ e.kind = "close_5pm_ct"
  BY <1>2, <1>5, <1>6, <1>7 DEF MarkInv, Marked
<1> QED BY <1>2, <1>3, <1>8

\* The close of every finished session reaches the tables, on its final bars, by the end of the
\* next session's last tick, as long as no more than two steps fail or rebuilds come in between
\* (scheduler.py:160-164, yfinance_adapter.py:329-330).
THEOREM ClosesDoLand == ASSUME FewUpsets PROVE Spec => []ClosesLand
<1>1. Spec => []LandInv
  <2>1. Init => LandInv
    BY LandBegins
  <2>2. PaperInv /\ LandInv /\ [Next]_vars => LandInv'
    BY LandKeeps
  <2> QED BY <2>1, <2>2, PaperInvHolds, PTL DEF Spec
<1>2. Spec => []MarkInv
  <2>1. Init => MarkInv
    BY MarksBegin
  <2>2. PaperInv /\ MarkInv /\ [Next]_vars => MarkInv'
    BY MarksKeep
  <2> QED BY <2>1, <2>2, PaperInvHolds, PTL DEF Spec
<1>3. PaperInv /\ LandInv /\ MarkInv => ClosesLand
  BY AllLanded
<1> QED BY <1>1, <1>2, <1>3, PaperInvHolds, PTL
=============================================================================
