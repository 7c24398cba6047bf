------------------------- MODULE AlpacaEngineProofs -------------------------
(***************************************************************************)
(* Theorems about the trading daemon for every set of symbols, every       *)
(* holding period and horizon.  Those of the first part hold for every set *)
(* of faults.                                                              *)
(*                                                                         *)
(* The second part is what the daemon owes the lots it trades, as far as   *)
(* the faults of the environment leave it in the position to: their        *)
(* protective stops, that they are traded once, that they are sold when    *)
(* due, that the rows and the broker agree on what is held, and that the   *)
(* daemon implements the book of LotBook.  Each section says which faults  *)
(* it assumes away: Calm, Punctual and Benign leave ever fewer.            *)
(***************************************************************************)
EXTENDS AlpacaEngine, FiniteSetTheorems, TLAPS

-----------------------------------------------------------------------------
(* Facts about the rows *)

\* A row of one kind is not a row of the other.
LEMMA RowKinds ==
    /\ \A r \in OpenRows : r.action = "OPEN_LONG" /\ r.lot \in Lots /\ r.run \in RunNumbers
    /\ \A r \in CloseRows : r.action = "CLOSE_LONG" /\ r.lot \in Lots
    /\ OpenRows \cap CloseRows = {}
  BY DEF OpenRows, CloseRows

\* A staged OPEN_LONG row is a row of the table.
LEMMA OpenRowType ==
    ASSUME NEW l \in Lots, NEW n \in RunNumbers
    PROVE  /\ OpenRow(l, n) \in OpenRows
           /\ OpenRow(l, n).lot = l
           /\ OpenRow(l, n).run = n
  BY DEF OpenRows, OpenRow

\* The CLOSE_LONG row staged for a lot that is old enough is a row of the table.
LEMMA CloseRowType ==
    ASSUME NEW r \in OpenRows, NEW n \in RunNumbers, Date(r) + HoldingDays <= MaxDay
    PROVE  CloseRow(r, n) \in CloseRows
  <1>1. /\ r.lot \in {k \in Lots : k[1] + HoldingDays <= MaxDay}
        /\ r.entry \in RunNumbers
    BY DEF OpenRows, Date
  <1>2. QED
    BY <1>1 DEF CloseRows, CloseRow

\* The table is finite, so the broker's totals are integers.
LEMMA RowsFinite == IsFiniteSet(Rows)
  <1>1. IsFiniteSet(Lots) /\ IsFiniteSet(RunNumbers)
    <2>1. 0 \in Int /\ 1 \in Int /\ MaxDay \in Int /\ MaxAborts \in Int
      BY EngineAssumption
    <2>2. IsFiniteSet(1..MaxDay) /\ IsFiniteSet(0..MaxAborts)
      BY <2>1, FS_Interval
    <2>3. IsFiniteSet((1..MaxDay) \X Symbols)
      BY <2>2, EngineAssumption, FS_Product
    <2>4. QED
      BY <2>2, <2>3 DEF Lots, Days, RunNumbers
  <1>2. IsFiniteSet(Lots \X RunNumbers)
    BY <1>1, FS_Product
  <1>3. IsFiniteSet((Lots \X RunNumbers) \X RunNumbers)
    BY <1>1, <1>2, FS_Product
  <1>4. IsFiniteSet(OpenRows)
    <2> DEFINE f == [p \in Lots \X RunNumbers |-> OpenRow(p[1], p[2])]
    <2>1. f \in Surjection(Lots \X RunNumbers, OpenRows)
      <3>1. \A p \in Lots \X RunNumbers : f[p] \in OpenRows
        BY OpenRowType
      <3>2. ASSUME NEW t \in OpenRows
            PROVE  \E p \in Lots \X RunNumbers : f[p] = t
        <4>1. PICK l \in Lots, n \in RunNumbers :
                 t = [action |-> "OPEN_LONG", lot |-> l, entry |-> n, run |-> n]
          BY DEF OpenRows
        <4>2. f[<<l, n>>] = t
          BY <4>1 DEF OpenRow
        <4>3. QED
          BY <4>2
      <3>3. QED
        BY <3>1, <3>2 DEF Surjection
    <2>2. QED
      BY <1>2, <2>1, FS_Surjection
  <1>5. IsFiniteSet(CloseRows)
    <2> DEFINE Old == {k \in Lots : k[1] + HoldingDays <= MaxDay}
               g == [p \in (Old \X RunNumbers) \X RunNumbers |->
                       [action |-> "CLOSE_LONG", lot |-> p[1][1], entry |-> p[1][2], run |-> p[2]]]
    <2>1. IsFiniteSet((Old \X RunNumbers) \X RunNumbers)
      BY <1>3, FS_Subset, (Old \X RunNumbers) \X RunNumbers \in SUBSET ((Lots \X RunNumbers) \X RunNumbers)
    <2>2. g \in Surjection((Old \X RunNumbers) \X RunNumbers, CloseRows)
      <3>1. \A p \in (Old \X RunNumbers) \X RunNumbers : g[p] \in CloseRows
        BY DEF CloseRows
      <3>2. ASSUME NEW t \in CloseRows
            PROVE  \E p \in (Old \X RunNumbers) \X RunNumbers : g[p] = t
        <4>1. PICK l \in Old, n \in RunNumbers, k \in RunNumbers :
                 t = [action |-> "CLOSE_LONG", lot |-> l, entry |-> n, run |-> k]
          BY DEF CloseRows
        <4>2. /\ <<<<l, n>>, k>> \in (Old \X RunNumbers) \X RunNumbers
              /\ g[<<<<l, n>>, k>>] = t
          BY <4>1
        <4>3. QED
          BY <4>2
      <3>3. QED
        BY <3>1, <3>2 DEF Surjection
    <2>3. QED
      BY <2>1, <2>2, FS_Surjection
  <1>6. QED
    BY <1>4, <1>5, FS_Union DEF Rows

\* The quantity traded in a symbol is a natural number.
LEMMA TradedType ==
    ASSUME NEW R, R \subseteq Rows, NEW s
    PROVE  Traded(R, s) \in Int
  <1>1. {r \in R : Symbol(r) = s} \in SUBSET Rows
    OBVIOUS
  <1>2. QED
    BY <1>1, RowsFinite, FS_Subset, FS_CardinalityType DEF Traded

-----------------------------------------------------------------------------
(* Type correctness *)

\* What the type of the rows staged for expiring lots rests on: a lot that is
\* being closed is HOLDING_DAYS old.
ClosingDates == \A r \in closing : Date(r) + HoldingDays <= MaxDay

TypeInv == TypeOK /\ ClosingDates

\* The initial state has the types of the schema.
LEMMA TypeInit == Init => TypeInv
  <1> SUFFICES ASSUME Init PROVE TypeInv
    OBVIOUS
  <1>1. 1 \in Days /\ 0 \in RunNumbers /\ NoDates \in [run : 0..MaxDay, arm : 0..MaxDay, mark : 0..MaxDay]
    BY EngineAssumption DEF Days, RunNumbers, NoDates
  <1>2. TypeOK
    BY <1>1 DEF Init, TypeOK, RowStatus, OrderState
  <1>3. ClosingDates
    BY DEF Init, ClosingDates
  <1>4. QED
    BY <1>2, <1>3 DEF TypeInv

\* Every step of the daemon, the broker and the clock preserves the types.
LEMMA TypeStep == TypeInv /\ [Next]_vars => TypeInv'
  <1> SUFFICES ASSUME TypeInv, [Next]_vars
               PROVE  TypeInv'
    OBVIOUS
  <1> USE DEF TypeInv, TypeOK, clockVars, dbVars, brokerVars, txnVars, engineVars
  <1>a. /\ day \in 1..MaxDay /\ MaxDay \in Nat /\ HoldingDays \in Nat
        /\ NoDates \in [run : 0..MaxDay, arm : 0..MaxDay, mark : 0..MaxDay]
    BY EngineAssumption DEF Days, NoDates
  <1>b. ASSUME Abort PROVE aborts' \in RunNumbers
    BY <1>b, EngineAssumption DEF Abort, RunNumbers
  <1>c. ASSUME NEW ok \in BOOLEAN
        PROVE  Reconciled(ok) \in [Rows -> RowStatus]
    BY DEF Reconciled, RowStatus
  <1>d. ASSUME NEW st PROVE PlacedLots(st) \subseteq OpenRows
    BY DEF PlacedLots
  <1>e. \A f : Succeeds(f) \subseteq BOOLEAN
    BY DEF Succeeds
  <1>1. CASE Start
    BY <1>1 DEF Start, ClosingDates
  <1>2. ASSUME Halt PROVE TypeInv'
    BY <1>2, <1>a, <1>b DEF Halt, ClosingDates
  <1>3. CASE RunRaises \/ SweepRaises
    BY <1>3, <1>b DEF RunRaises, SweepRaises, ClosingDates
  <1>4. ASSUME NEW field \in {"run", "arm", "mark"}, Record(field)
        PROVE  TypeInv'
    <2>1. /\ [mem EXCEPT ![field] = day] \in [run : 0..MaxDay, arm : 0..MaxDay, mark : 0..MaxDay]
          /\ [last EXCEPT ![field] = day] \in [run : 0..MaxDay, arm : 0..MaxDay, mark : 0..MaxDay]
      BY <1>a
    <2>2. QED
      BY <1>4, <2>1, <1>b DEF Record, ClosingDates
  <1>5. CASE OpenRunBegins
    <2>1. PICK ok \in Succeeds("reconcile"), cal \in Succeeds("calendar") :
             /\ status' = Reconciled(ok)
             /\ closing' = {r \in PlacedLots(status') : cal /\ Date(r) = ExpiryDate}
      BY <1>5 DEF OpenRunBegins
    <2>2. status' \in [Rows -> RowStatus]
      BY <2>1, <1>c, <1>e
    <2>3. closing' \subseteq OpenRows
      BY <2>1, <1>d
    <2>4. ClosingDates'
      BY <2>1, <1>a, <1>5 DEF ClosingDates, ExpiryDate, OpenRunBegins
    <2>5. QED
      BY <1>5, <2>2, <2>3, <2>4 DEF OpenRunBegins, Routines, Rows
  <1>6. ASSUME NEW r \in todo, CancelStop(r) PROVE TypeInv'
    BY <1>6 DEF CancelStop, ClosingDates
  <1>7. CASE StageSignals
    <2>1. PICK picks \in Picks :
             LET closes == {CloseRow(r, aborts) : r \in closing}
                 opens == {OpenRow(<<day, s>>, aborts) : s \in picks}
             IN  /\ status' = [r \in Rows |-> IF r \in closes \cup opens
                                              THEN "PENDING_APPROVAL" ELSE status[r]]
                 /\ todo' = closes
                 /\ pc' = IF picks = {} /\ closing = {} THEN "record" ELSE "submit_close"
      BY <1>7 DEF StageSignals
    <2>2. status' \in [Rows -> RowStatus]
      BY <2>1 DEF RowStatus
    <2>3. todo' \subseteq Rows
      BY <2>1, CloseRowType DEF ClosingDates, Rows
    <2>4. pc' \in Routines \cup {"down", "idle"}
      BY <2>1 DEF Routines
    <2>5. QED
      BY <1>7, <2>2, <2>3, <2>4 DEF StageSignals, ClosingDates
  <1>8. ASSUME NEW r \in todo, SubmitOrder(r) PROVE TypeInv'
    <2>1. /\ order' \in [Rows -> OrderState]
          /\ txnPlaced' \subseteq Rows
          /\ txnRejected' \subseteq Rows
      BY <1>8 DEF SubmitOrder, SubmitAccepted, SubmitRefused, SubmitTimesOut, OrderState
    <2>2. QED
      BY <1>8, <2>1 DEF SubmitOrder, ClosingDates
  <1>9. CASE CommitBatch
    <2>1. status' \in [Rows -> RowStatus]
      BY <1>9 DEF CommitBatch, RowStatus
    <2>2. pc' \in Routines /\ todo' \subseteq Rows
      BY <1>9 DEF CommitBatch, Routines, Rows
    <2>3. QED
      BY <1>9, <2>1, <2>2 DEF CommitBatch, ClosingDates
  <1>10. CASE MarkExpired
    <2>1. status' \in [Rows -> RowStatus]
      BY <1>10 DEF MarkExpired, RowStatus
    <2>2. QED
      BY <1>10, <2>1 DEF MarkExpired, Routines, ClosingDates
  <1>11. CASE ArmBegins
    BY <1>11, <1>d DEF ArmBegins, LotsToArm, Routines, Rows, ClosingDates
  <1>12. ASSUME NEW r \in todo, ArmLot(r) PROVE TypeInv'
    <2>1. r.lot \in Lots
      BY RowKinds DEF Rows
    <2>2. stops' \subseteq Lots
      BY <2>1, <1>12 DEF ArmLot
    <2>3. QED
      BY <1>12, <2>2 DEF ArmLot, ClosingDates
  <1>13. CASE RefreshBegins
    <2>1. PICK ok \in Succeeds("reconcile"), cal \in Succeeds("calendar") :
             /\ status' = Reconciled(ok)
             /\ todo' = {r \in PlacedLots(status') : cal => Date(r) > ExpiryDate}
      BY <1>13 DEF RefreshBegins, LotsToRefresh
    <2>2. status' \in [Rows -> RowStatus]
      BY <2>1, <1>c, <1>e
    <2>3. todo' \subseteq Rows
      BY <2>1, <1>d DEF Rows
    <2>4. QED
      BY <1>13, <2>2, <2>3 DEF RefreshBegins, Routines, ClosingDates
  <1>14. ASSUME NEW r \in todo, RefreshLot(r) PROVE TypeInv'
    <2>1. r.lot \in Lots
      BY RowKinds DEF Rows
    <2>2. stops' \subseteq Lots
      BY <2>1, <1>14 DEF RefreshLot
    <2>3. QED
      BY <1>14, <2>2 DEF RefreshLot, ClosingDates
  <1>15. CASE OpeningAuction
    <2> DEFINE working == {r \in Rows : order[r] = "working"}
    <2>1. PICK filled \in IF "unfilled" \in Faults THEN SUBSET working ELSE {working} :
             /\ order' = [r \in Rows |-> IF r \in filled THEN "filled"
                                         ELSE IF r \in working THEN "expired"
                                         ELSE order[r]]
             /\ pos' = [s \in Symbols |-> pos[s] + Traded(filled \cap OpenRows, s)
                                                 - Traded(filled \cap CloseRows, s)]
      BY <1>15 DEF OpeningAuction
    <2>2. order' \in [Rows -> OrderState]
      BY <2>1 DEF OrderState
    <2>3. \A s \in Symbols : /\ Traded(filled \cap OpenRows, s) \in Int
                             /\ Traded(filled \cap CloseRows, s) \in Int
      <3>1. filled \cap OpenRows \subseteq Rows /\ filled \cap CloseRows \subseteq Rows
        BY DEF Rows
      <3>2. QED
        BY <3>1, TradedType
    <2> DEFINE traded(s) == pos[s] + Traded(filled \cap OpenRows, s)
                                   - Traded(filled \cap CloseRows, s)
    <2>t. ASSUME NEW s \in Symbols PROVE traded(s) \in Int
      <3>1. pos[s] \in Int
        OBVIOUS
      <3>2. \A x, y, z \in Int : x + y - z \in Int
        OBVIOUS
      <3>3. /\ Traded(filled \cap OpenRows, s) \in Int
            /\ Traded(filled \cap CloseRows, s) \in Int
        BY <2>3
      <3>4. QED
        BY <3>1, <3>2, <3>3, Zenon
    <2>p. pos' = [s \in Symbols |-> traded(s)]
      BY <2>1
    <2>4. pos' \in [Symbols -> Int]
      <3> HIDE DEF traded
      <3>1. QED
        BY <2>t, <2>p
    <2>5. QED
      BY <1>15, <2>2, <2>4 DEF OpeningAuction, ClosingDates
  <1>16. ASSUME NEW l \in stops, StopFires(l) PROVE TypeInv'
    <2>1. l[2] \in Symbols
      BY DEF Lots
    <2>2. pos' \in [Symbols -> Int]
      BY <2>1, <1>16 DEF StopFires
    <2>3. QED
      BY <1>16, <2>2 DEF StopFires, ClosingDates
  <1>17. CASE MarketCloses
    BY <1>17 DEF MarketCloses, ClosingDates
  <1>18. CASE NextDay
    BY <1>18, <1>a DEF NextDay, ClosingDates, Days
  <1>19. CASE UNCHANGED vars
    BY <1>19 DEF vars, ClosingDates
  <1>20. QED
    BY <1>1, <1>2, <1>3, <1>4, <1>5, <1>6, <1>7, <1>8, <1>9, <1>10, <1>11, <1>12, <1>13,
       <1>14, <1>15, <1>16, <1>17, <1>18, <1>19
       DEF Next, EngineStep, ClockStep, Shutdown, Crash, RecordRun, ArmEnds, RefreshEnds,
           EndOfHorizon

\* The daemon, its tables and the broker's state always have the types the
\* schema and the code give them, under every set of faults.
THEOREM TypeCorrect == Spec => []TypeOK
  <1>1. Spec => []TypeInv
    BY TypeInit, TypeStep, PTL DEF Spec
  <1>2. TypeInv => TypeOK
    BY DEF TypeInv
  <1>3. QED
    BY <1>1, <1>2, PTL

-----------------------------------------------------------------------------
(* A PLACED row has an order *)

\* The marks of the batch in progress also follow submissions.
PlacedInv == PlacedHasOrder /\ \A r \in txnPlaced : order[r] # "none"

\* An order the broker has taken never disappears from its records.
LEMMA OrdersStay ==
    TypeOK /\ [Next]_vars => \A r \in Rows : order[r] # "none" => order'[r] # "none"
  <1> SUFFICES ASSUME TypeOK, [Next]_vars, NEW r \in Rows, order[r] # "none"
               PROVE  order'[r] # "none"
    OBVIOUS
  <1> USE DEF TypeOK
  <1>1. ASSUME NEW t \in todo, SubmitOrder(t) PROVE order'[r] # "none"
    BY <1>1 DEF SubmitOrder, SubmitAccepted, SubmitRefused, SubmitTimesOut
  <1>2. CASE OpeningAuction
    BY <1>2 DEF OpeningAuction
  <1>3. ASSUME UNCHANGED order PROVE order'[r] # "none"
    BY <1>3
  <1>4. CASE EngineStep
    BY <1>1, <1>3, <1>4
       DEF EngineStep, OpenRunBegins, CancelStop, StageSignals, CommitBatch, MarkExpired,
           RecordRun, ArmBegins, ArmLot, ArmEnds, RefreshBegins, RefreshLot, RefreshEnds,
           Record, brokerVars
  <1>5. QED
    BY <1>2, <1>3, <1>4
       DEF Next, Start, Shutdown, Crash, Halt, RunRaises, SweepRaises, ClockStep, MarketCloses, NextDay,
           StopFires, EndOfHorizon, brokerVars, vars

\* The sweep makes no row PLACED.
LEMMA ReconciledPlaced ==
    ASSUME NEW ok, NEW r \in Rows, Reconciled(ok)[r] = "PLACED"
    PROVE  status[r] = "PLACED"
  BY DEF Reconciled

\* Every step keeps marks behind submissions.
LEMMA PlacedStep == TypeOK /\ PlacedInv /\ [Next]_vars => PlacedInv'
  <1> SUFFICES ASSUME TypeOK, PlacedInv, [Next]_vars
               PROVE  PlacedInv'
    OBVIOUS
  <1>o. \A r \in Rows : order[r] # "none" => order'[r] # "none"
    BY OrdersStay
  <1>t. txnPlaced \subseteq Rows
    BY DEF TypeOK
  <1>1. ASSUME \A r \in Rows : status'[r] = "PLACED" => status[r] = "PLACED" \/ r \in txnPlaced,
               \A r \in txnPlaced' : r \in txnPlaced
        PROVE  PlacedInv'
    BY <1>1, <1>o, <1>t DEF PlacedInv, PlacedHasOrder
  <1>2. ASSUME status' = status, txnPlaced' \in {{}, txnPlaced}
        PROVE  PlacedInv'
    BY <1>1, <1>2
  <1>3. CASE OpenRunBegins
    <2>1. PICK ok \in Succeeds("reconcile") : status' = Reconciled(ok)
      BY <1>3 DEF OpenRunBegins
    <2>2. QED
      BY <2>1, <1>1, <1>3, ReconciledPlaced DEF OpenRunBegins, txnVars
  <1>4. CASE StageSignals
    <2>1. \A r \in Rows : status'[r] = "PLACED" => status[r] = "PLACED"
      BY <1>4 DEF StageSignals
    <2>2. QED
      BY <2>1, <1>1, <1>4 DEF StageSignals, txnVars
  <1>5. ASSUME NEW t \in todo, SubmitOrder(t) PROVE PlacedInv'
    <2>1. t \in Rows /\ order \in [Rows -> OrderState]
      BY DEF TypeOK
    <2>2. txnPlaced' = txnPlaced \/ (txnPlaced' = txnPlaced \cup {t} /\ order'[t] = "working")
      BY <2>1, <1>5 DEF SubmitOrder, SubmitAccepted, SubmitRefused, SubmitTimesOut
    <2>3. \A r \in txnPlaced' : order'[r] # "none"
      BY <2>2, <1>o, <1>t DEF PlacedInv
    <2>4. PlacedHasOrder'
      BY <1>5, <1>o DEF SubmitOrder, dbVars, PlacedInv, PlacedHasOrder
    <2>5. QED
      BY <2>3, <2>4 DEF PlacedInv
  <1>6. CASE CommitBatch
    <2>1. \A r \in Rows : status'[r] = "PLACED" => status[r] = "PLACED" \/ r \in txnPlaced
      BY <1>6 DEF CommitBatch
    <2>2. QED
      BY <2>1, <1>1, <1>6 DEF CommitBatch
  <1>7. CASE MarkExpired
    <2>1. \A r \in Rows : status'[r] = "PLACED" => status[r] = "PLACED"
      BY <1>7 DEF MarkExpired
    <2>2. QED
      BY <2>1, <1>1, <1>7 DEF MarkExpired, txnVars
  <1>8. CASE RefreshBegins
    <2>1. PICK ok \in Succeeds("reconcile") : status' = Reconciled(ok)
      BY <1>8 DEF RefreshBegins
    <2>2. QED
      BY <2>1, <1>1, <1>8, ReconciledPlaced DEF RefreshBegins, txnVars
  <1>9. CASE EngineStep
    BY <1>2, <1>3, <1>4, <1>5, <1>6, <1>7, <1>8, <1>9
       DEF EngineStep, CancelStop, RecordRun, ArmBegins, ArmLot, ArmEnds, RefreshLot,
           RefreshEnds, Record, dbVars, txnVars
  <1>10. QED
    BY <1>2, <1>9
       DEF Next, Start, Shutdown, Crash, Halt, RunRaises, SweepRaises, ClockStep, OpeningAuction,
           MarketCloses, NextDay, StopFires, EndOfHorizon, dbVars, txnVars, engineVars, vars

\* Whatever fails, a row says PLACED only if the broker has accepted its order:
\* approve_and_submit marks after submit_order, and a transaction it loses
\* loses marks, never orders.
THEOREM PlacedHasOrderHolds == Spec => []PlacedHasOrder
  <1>1. Init => PlacedInv
    BY DEF Init, PlacedInv, PlacedHasOrder
  <1>2. PlacedInv => PlacedHasOrder
    BY DEF PlacedInv
  <1>3. QED
    BY <1>1, <1>2, PlacedStep, TypeCorrect, PTL DEF Spec

-----------------------------------------------------------------------------
(* A recorded run is not repeated *)

\* No date lies in the future, the process never forgets a run that the state
\* row remembers, and the open run works on a day it has not recorded.
RunInv ==
    /\ mem.run <= day /\ last.run <= day
    /\ pc # "down" /\ last.run = day => mem.run = day
    /\ pc \in OpenRunSteps \cup {"record"} => mem.run # day

\* Noting today in one of the three columns leaves the other two alone.
LEMMA DateNoted ==
    ASSUME NEW d \in [run : 0..MaxDay, arm : 0..MaxDay, mark : 0..MaxDay],
           NEW field \in {"run", "arm", "mark"}
    PROVE  /\ [d EXCEPT ![field] = day].run = IF field = "run" THEN day ELSE d.run
           /\ [d EXCEPT ![field] = day].arm = IF field = "arm" THEN day ELSE d.arm
  <1>1. CASE field = "run"
    BY <1>1
  <1>2. CASE field = "arm"
    BY <1>2
  <1>3. CASE field = "mark"
    BY <1>3
  <1>4. QED
    BY <1>1, <1>2, <1>3

\* Every step preserves what is known of the run date.
LEMMA RunStep == TypeOK /\ RunInv /\ [Next]_vars => RunInv'
  <1> SUFFICES ASSUME TypeOK, RunInv, [Next]_vars
               PROVE  RunInv'
    OBVIOUS
  <1> USE DEF RunInv
  <1>a. /\ day \in Int /\ day >= 1
        /\ mem \in [run : 0..MaxDay, arm : 0..MaxDay, mark : 0..MaxDay]
        /\ last \in [run : 0..MaxDay, arm : 0..MaxDay, mark : 0..MaxDay]
        /\ mem.run \in Int /\ last.run \in Int
    BY EngineAssumption DEF TypeOK, Days
  <1>1. ASSUME UNCHANGED <<day, last, mem>>,
               \/ pc' = pc
               \/ pc' \in {"idle", "down", "arm", "refresh"} /\ pc # "down"
               \/ pc' \in OpenRunSteps \cup {"record"} /\ pc \in OpenRunSteps
        PROVE  RunInv'
    BY <1>1 DEF OpenRunSteps
  <1>2. CASE Start
    BY <1>2 DEF Start, clockVars, dbVars, OpenRunSteps
  <1>3. CASE Halt
    BY <1>3, <1>a DEF Halt, NoDates, clockVars, dbVars, OpenRunSteps
  <1>4. CASE OpenRunBegins
    BY <1>4 DEF OpenRunBegins, OpenRunGate, clockVars, OpenRunSteps
  <1>5. ASSUME NEW field \in {"run", "arm", "mark"}, Record(field), pc # "down"
        PROVE  RunInv'
    <2>1. /\ mem'.run = (IF field = "run" THEN day ELSE mem.run)
          /\ last'.run = last.run \/ (last'.run = day /\ field = "run")
          /\ day' = day /\ pc' = "idle"
      BY <1>5, <1>a, DateNoted DEF Record, clockVars
    <2>2. QED
      BY <2>1, <1>a, <1>5 DEF OpenRunSteps
  <1>6. CASE NextDay
    BY <1>6, <1>a DEF NextDay, Quiet, dbVars, engineVars, OpenRunSteps
  <1>7. CASE EngineStep
    <2>1. CASE RecordRun \/ ArmEnds \/ RefreshEnds
      BY <2>1, <1>5 DEF RecordRun, ArmEnds, RefreshEnds
    <2>2. CASE ArmBegins \/ RefreshBegins
      <3>1. /\ UNCHANGED <<day, last, mem>>
            /\ pc = "idle" /\ pc' \in {"arm", "refresh"}
        BY <2>2 DEF ArmBegins, RefreshBegins, clockVars, dbVars
      <3>2. QED
        BY <3>1, <1>1
    <2>3. ASSUME NEW r \in todo, CancelStop(r) \/ SubmitOrder(r) \/ ArmLot(r) \/ RefreshLot(r)
          PROVE  RunInv'
      BY <2>3, <1>1 DEF CancelStop, SubmitOrder, ArmLot, RefreshLot, clockVars, dbVars
    <2>4. CASE StageSignals
      <3>1. pc = "cancel" /\ pc' \in {"record", "submit_close"}
        BY <2>4 DEF StageSignals
      <3>2. QED
        BY <3>1, <2>4, <1>1 DEF StageSignals, clockVars, OpenRunSteps
    <2>5. CASE CommitBatch \/ MarkExpired
      BY <2>5, <1>1 DEF CommitBatch, MarkExpired, clockVars, OpenRunSteps
    <2>6. QED
      BY <1>4, <1>7, <2>1, <2>2, <2>3, <2>4, <2>5 DEF EngineStep
  <1>8. QED
    BY <1>1, <1>2, <1>3, <1>6, <1>7
       DEF Next, Shutdown, Crash, RunRaises, SweepRaises, ClockStep, OpeningAuction, MarketCloses,
           StopFires, EndOfHorizon, clockVars, dbVars, engineVars, vars, OpenRunSteps

\* Under every fault: once the state row holds today's date, no further order
\* of the open run goes out today, whatever restarts follow.
THEOREM RunNotRepeatedHolds == Spec => RunNotRepeated
  <1>1. Init => RunInv
    BY DEF Init, RunInv, NoDates, OpenRunSteps
  <1>2. TypeOK /\ RunInv /\ [Next]_vars =>
          [last.run = day => \A r \in Rows : order[r] = "none" => order'[r] = "none"]_vars
    <2> SUFFICES ASSUME TypeOK, RunInv, [Next]_vars, last.run = day,
                        NEW r \in Rows, order[r] = "none"
                 PROVE  order'[r] = "none"
      OBVIOUS
    <2>1. ASSUME NEW t \in todo, SubmitOrder(t) PROVE FALSE
      BY <2>1 DEF SubmitOrder, RunInv, OpenRunSteps
    <2>2. CASE OpeningAuction
      BY <2>2 DEF OpeningAuction
    <2>3. CASE UNCHANGED order
      BY <2>3
    <2>4. CASE EngineStep
      BY <2>1, <2>3, <2>4
         DEF EngineStep, OpenRunBegins, CancelStop, StageSignals, CommitBatch, MarkExpired,
             RecordRun, ArmBegins, ArmLot, ArmEnds, RefreshBegins, RefreshLot, RefreshEnds,
             Record, brokerVars
    <2>5. QED
      BY <2>2, <2>3, <2>4
         DEF Next, Start, Shutdown, Crash, Halt, RunRaises, SweepRaises, ClockStep, MarketCloses, NextDay,
             StopFires, EndOfHorizon, brokerVars, vars
  <1>3. QED
    BY <1>1, <1>2, RunStep, TypeCorrect, PTL DEF Spec, RunNotRepeated

-----------------------------------------------------------------------------
(* No stop before the auction of its lot *)

\* Rows in use, at rest or in a routine, are not of a later date than today.
InUse(r) == status[r] # "NONE" \/ r \in todo \cup txnPlaced \cup txnRejected \cup closing

DatesInv ==
    /\ \A r \in Rows : InUse(r) => Date(r) <= day
    /\ \A l \in stops : l[1] <= day

\* Stops are only worked on after the auction, and the arming date says so.
AuctionInv ==
    /\ mem.arm <= day /\ last.arm <= day
    /\ mem.arm = day \/ last.arm = day => phase # "pre"
    /\ pc \in {"arm", "refresh"} => phase # "pre"

\* No step brings a row or a stop of a later day into use.
LEMMA DatesStep == TypeInv /\ DatesInv /\ [Next]_vars => DatesInv'
  <1> SUFFICES ASSUME TypeInv, DatesInv, [Next]_vars
               PROVE  DatesInv'
    OBVIOUS
  <1> USE DEF DatesInv, InUse
  <1>a. /\ day \in Int
        /\ \A r \in Rows : Date(r) \in Int /\ r.lot \in Lots
        /\ status \in [Rows -> RowStatus]
        /\ todo \cup txnPlaced \cup txnRejected \cup closing \subseteq Rows
    <2>1. \A l \in Lots : l[1] \in Int
      BY DEF Lots, Days
    <2>2. QED
      BY <2>1, RowKinds DEF TypeInv, TypeOK, Days, Rows, Date
  <1>1. ASSUME day' = day,
               \A r \in Rows : InUse(r)' => InUse(r) \/ Date(r) <= day,
               stops' \subseteq stops \cup {r.lot : r \in todo}
        PROVE  DatesInv'
    <2>1. \A r \in todo : r.lot[1] <= day
      BY <1>a DEF Date
    <2>2. QED
      BY <1>1, <2>1
  <1>2. CASE Halt \/ RunRaises \/ SweepRaises
    BY <1>2, <1>1 DEF Halt, RunRaises, SweepRaises, clockVars, dbVars, brokerVars, txnVars
  <1>3. CASE NextDay
    <2>1. /\ day' = day + 1 /\ stops' = stops
          /\ \A r \in Rows : InUse(r)' => InUse(r)
      BY <1>3 DEF NextDay, dbVars, brokerVars, engineVars
    <2>2. \A l \in stops : l[1] \in Int
      BY DEF TypeInv, TypeOK, Lots, Days
    <2>3. QED
      BY <2>1, <2>2, <1>a
  <1>4. ASSUME NEW ok \in BOOLEAN, status' = Reconciled(ok),
               todo' \cup closing' \subseteq closing \cup PlacedLots(status'),
               UNCHANGED <<day, stops, txnPlaced, txnRejected>>
        PROVE  DatesInv'
    <2>1. \A r \in Rows : status'[r] # "NONE" => status[r] # "NONE"
      BY <1>4 DEF Reconciled
    <2>2. \A r \in todo' \cup closing' : r \in closing \/ (r \in Rows /\ status[r] # "NONE")
      <3>1. \A r \in PlacedLots(status') : r \in Rows /\ status'[r] = "PLACED"
        BY DEF PlacedLots, Rows
      <3>2. QED
        BY <1>4, <2>1, <3>1
    <2>3. QED
      BY <1>1, <1>4, <2>1, <2>2
  <1>5. CASE OpenRunBegins
    <2>1. PICK ok \in Succeeds("reconcile"), cal \in Succeeds("calendar") :
             /\ status' = Reconciled(ok)
             /\ closing' = {r \in PlacedLots(status') : cal /\ Date(r) = ExpiryDate}
      BY <1>5 DEF OpenRunBegins
    <2>2. QED
      BY <2>1, <1>4, <1>5 DEF OpenRunBegins, Succeeds, clockVars, brokerVars, txnVars
  <1>6. CASE RefreshBegins
    <2>1. PICK ok \in Succeeds("reconcile"), cal \in Succeeds("calendar") :
             /\ status' = Reconciled(ok)
             /\ todo' = {r \in PlacedLots(status') : cal => Date(r) > ExpiryDate}
      BY <1>6 DEF RefreshBegins, LotsToRefresh
    <2>2. QED
      BY <2>1, <1>4, <1>6 DEF RefreshBegins, Succeeds, clockVars, brokerVars, txnVars
  <1>7. CASE StageSignals
    <2>1. PICK picks \in Picks :
             LET closes == {CloseRow(r, aborts) : r \in closing}
                 opens == {OpenRow(<<day, s>>, aborts) : s \in picks}
             IN  /\ status' = [r \in Rows |-> IF r \in closes \cup opens
                                              THEN "PENDING_APPROVAL" ELSE status[r]]
                 /\ todo' = closes
      BY <1>7 DEF StageSignals
    <2>2. \A r \in closing : Date(CloseRow(r, aborts)) <= day
      BY <1>a DEF CloseRow, Date
    <2>3. \A s \in Symbols : Date(OpenRow(<<day, s>>, aborts)) <= day
      BY <1>a DEF OpenRow, Date
    <2>4. \A p \in Picks : p \subseteq Symbols
      BY DEF Picks
    <2>5. \A r \in Rows : InUse(r)' => InUse(r) \/ Date(r) <= day
      BY <2>1, <2>2, <2>3, <2>4, <1>7 DEF StageSignals, txnVars
    <2>6. QED
      BY <2>5, <1>1, <1>7 DEF StageSignals, clockVars, brokerVars
  <1>8. ASSUME NEW r \in todo, SubmitOrder(r) PROVE DatesInv'
    <2>1. \A t \in Rows : InUse(t)' => InUse(t)
      BY <1>8 DEF SubmitOrder, SubmitAccepted, SubmitRefused, SubmitTimesOut, dbVars
    <2>2. QED
      BY <2>1, <1>1, <1>8 DEF SubmitOrder, clockVars
  <1>9. CASE CommitBatch
    <2>1. \A r \in Rows : status'[r] # "NONE" => InUse(r)
      BY <1>9 DEF CommitBatch
    <2>2. \A r \in todo' : r \in todo \/ Date(r) <= day
      BY <1>9, <1>a DEF CommitBatch
    <2>3. QED
      BY <2>1, <2>2, <1>1, <1>9 DEF CommitBatch, clockVars, brokerVars
  <1>10. CASE MarkExpired
    <2>1. \A r \in Rows : status'[r] # "NONE" => status[r] # "NONE"
      BY <1>10 DEF MarkExpired
    <2>2. QED
      BY <2>1, <1>1, <1>10 DEF MarkExpired, clockVars, brokerVars, txnVars
  <1>11. CASE ArmBegins
    <2>1. \A r \in todo' : r \in Rows /\ status[r] # "NONE"
      BY <1>11 DEF ArmBegins, LotsToArm, PlacedLots, Rows
    <2>2. QED
      BY <2>1, <1>1, <1>11 DEF ArmBegins, clockVars, dbVars, brokerVars, txnVars
  <1>12. ASSUME NEW r \in todo, CancelStop(r) \/ ArmLot(r) \/ RefreshLot(r)
         PROVE  DatesInv'
    BY <1>12, <1>1 DEF CancelStop, ArmLot, RefreshLot, clockVars, dbVars, txnVars
  <1>13. CASE EngineStep
    <2>1. CASE RecordRun \/ ArmEnds \/ RefreshEnds
      BY <2>1, <1>1 DEF RecordRun, ArmEnds, RefreshEnds, Record, clockVars, brokerVars, txnVars
    <2>2. QED
      BY <2>1, <1>5, <1>6, <1>7, <1>8, <1>9, <1>10, <1>11, <1>12, <1>13 DEF EngineStep
  <1>14. QED
    BY <1>1, <1>2, <1>3, <1>13
       DEF Next, Start, Shutdown, Crash, ClockStep, OpeningAuction, MarketCloses, StopFires,
           EndOfHorizon, clockVars, dbVars, brokerVars, txnVars, engineVars, vars

\* Every step preserves what is known of the arming date.
LEMMA AuctionStep == TypeOK /\ AuctionInv /\ [Next]_vars => AuctionInv'
  <1> SUFFICES ASSUME TypeOK, AuctionInv, [Next]_vars
               PROVE  AuctionInv'
    OBVIOUS
  <1> USE DEF AuctionInv
  <1>a. /\ day \in Int /\ day >= 1
        /\ mem \in [run : 0..MaxDay, arm : 0..MaxDay, mark : 0..MaxDay]
        /\ last \in [run : 0..MaxDay, arm : 0..MaxDay, mark : 0..MaxDay]
        /\ mem.arm \in Int /\ last.arm \in Int
    BY EngineAssumption DEF TypeOK, Days
  <1>1. ASSUME UNCHANGED <<day, last, mem>>,
               phase' = phase \/ phase' # "pre",
               pc' = pc \/ pc' \notin {"arm", "refresh"} \/ phase' # "pre"
        PROVE  AuctionInv'
    BY <1>1
  <1>2. CASE Start
    BY <1>2, <1>a DEF Start, clockVars, dbVars
  <1>3. CASE Halt
    BY <1>3, <1>a DEF Halt, NoDates, clockVars, dbVars
  <1>4. ASSUME NEW field \in {"run", "arm", "mark"}, Record(field), field = "arm" => pc = "arm"
        PROVE  AuctionInv'
    <2>1. /\ mem'.arm = (IF field = "arm" THEN day ELSE mem.arm)
          /\ last'.arm = last.arm \/ (last'.arm = day /\ field = "arm")
          /\ day' = day /\ phase' = phase /\ pc' = "idle"
      BY <1>4, <1>a, DateNoted DEF Record, clockVars
    <2>2. QED
      BY <2>1, <1>a, <1>4
  <1>5. CASE NextDay
    BY <1>5, <1>a DEF NextDay, Quiet, dbVars, engineVars
  <1>6. CASE EngineStep
    <2>1. CASE RecordRun \/ ArmEnds \/ RefreshEnds
      BY <2>1, <1>4 DEF RecordRun, ArmEnds, RefreshEnds
    <2>2. CASE ArmBegins
      BY <2>2, <1>1 DEF ArmBegins, clockVars, dbVars
    <2>3. CASE RefreshBegins
      BY <2>3, <1>1 DEF RefreshBegins, RefreshGate, clockVars
    <2>4. ASSUME NEW r \in todo, CancelStop(r) \/ SubmitOrder(r) \/ ArmLot(r) \/ RefreshLot(r)
          PROVE  AuctionInv'
      BY <2>4, <1>1 DEF CancelStop, SubmitOrder, ArmLot, RefreshLot, clockVars, dbVars
    <2>5. CASE OpenRunBegins \/ CommitBatch \/ MarkExpired
      BY <2>5, <1>1 DEF OpenRunBegins, CommitBatch, MarkExpired, clockVars
    <2>6. CASE StageSignals
      BY <2>6, <1>1 DEF StageSignals, clockVars
    <2>7. QED
      BY <1>6, <2>1, <2>2, <2>3, <2>4, <2>5, <2>6 DEF EngineStep
  <1>7. QED
    BY <1>1, <1>2, <1>3, <1>5, <1>6
       DEF Next, Shutdown, Crash, RunRaises, SweepRaises, ClockStep, OpeningAuction, MarketCloses,
           StopFires, EndOfHorizon, clockVars, dbVars, engineVars, vars

\* Where a step can leave a stop.
LEMMA StopsChange ==
    [Next]_vars => /\ \A l \in stops' : l \in stops \/ (pc \in {"arm", "refresh"} /\ UNCHANGED clockVars)
                   /\ phase' = "pre" /\ phase # "pre" => day' = day + 1 /\ stops' = stops
  <1> SUFFICES ASSUME [Next]_vars
               PROVE  /\ \A l \in stops' : l \in stops \/ (pc \in {"arm", "refresh"} /\ UNCHANGED clockVars)
                      /\ phase' = "pre" /\ phase # "pre" => day' = day + 1 /\ stops' = stops
    OBVIOUS
  <1>1. CASE EngineStep
    BY <1>1
       DEF EngineStep, OpenRunBegins, CancelStop, StageSignals, SubmitOrder, CommitBatch,
           MarkExpired, RecordRun, ArmBegins, ArmLot, ArmEnds, RefreshBegins, RefreshLot,
           RefreshEnds, Record, clockVars, brokerVars
  <1>2. CASE ~EngineStep
    <2>1. ASSUME NEW l \in stops, StopFires(l)
          PROVE  stops' \subseteq stops /\ UNCHANGED clockVars
      BY <2>1 DEF StopFires
    <2>2. CASE \E l \in stops : StopFires(l)
      BY <2>1, <2>2 DEF clockVars
    <2>3. QED
      BY <1>2, <2>2
         DEF Next, Start, Shutdown, Crash, Halt, RunRaises, SweepRaises, ClockStep, OpeningAuction,
             MarketCloses, NextDay, EndOfHorizon, clockVars, brokerVars, vars
  <1>3. QED
    BY <1>1, <1>2

\* Under every fault: no protective stop exists for a lot before its opening
\* auction is over, so the close mark of a date cannot run in the morning.
THEOREM NoStopInAuctionHolds == Spec => []NoStopInAuction
  <1> DEFINE Inv == DatesInv /\ AuctionInv /\ NoStopInAuction
  <1>1. Init => Inv
    <2> SUFFICES ASSUME Init PROVE Inv
      OBVIOUS
    <2>1. AuctionInv
      BY DEF Init, AuctionInv, NoDates
    <2>2. DatesInv /\ NoStopInAuction
      BY DEF Init, DatesInv, InUse, NoStopInAuction
    <2>3. QED
      BY <2>1, <2>2
  <1>2. TypeInv /\ Inv /\ [Next]_vars => Inv'
    <2> SUFFICES ASSUME TypeInv, Inv, [Next]_vars PROVE NoStopInAuction'
      BY DatesStep, AuctionStep DEF TypeInv
    <2> SUFFICES ASSUME NEW l \in stops', l[1] = day' PROVE phase' # "pre"
      BY DEF NoStopInAuction
    <2>1. \A k \in stops : k[1] \in Int /\ k[1] <= day
      BY DEF TypeInv, TypeOK, Lots, Days, DatesInv
    <2>2. day \in Int
      BY DEF TypeInv, TypeOK, Days
    <2>3. CASE UNCHANGED clockVars
      BY <2>3, StopsChange DEF NoStopInAuction, AuctionInv, clockVars
    <2>4. CASE l \in stops /\ phase' = "pre"
      <3>1. CASE phase = "pre"
        <4>1. UNCHANGED clockVars
          BY <3>1, <2>4
             DEF Next, EngineStep, OpenRunBegins, CancelStop, StageSignals, SubmitOrder,
                 CommitBatch, MarkExpired, RecordRun, ArmBegins, ArmLot, ArmEnds,
                 RefreshBegins, RefreshLot, RefreshEnds, Record, Start, Shutdown, Crash, Halt,
                 RunRaises, SweepRaises, ClockStep, OpeningAuction, MarketCloses, NextDay, StopFires,
                 EndOfHorizon, clockVars, vars
        <4>2. QED
          BY <4>1, <2>3
      <3>2. CASE phase # "pre"
        BY <3>2, <2>4, <2>1, <2>2, StopsChange
      <3>3. QED
        BY <3>1, <3>2
    <2>5. QED
      BY <2>3, <2>4, StopsChange
  <1>3. Spec => []TypeInv
    BY TypeInit, TypeStep, PTL DEF Spec
  <1>4. Inv => NoStopInAuction
    OBVIOUS
  <1>5. QED
    BY <1>1, <1>2, <1>3, <1>4, PTL DEF Spec

-----------------------------------------------------------------------------
(* The batch in progress *)

Submitting == {"submit_close", "submit_open"}
Batch == todo \cup txnPlaced \cup txnRejected

\* A row that has been staged, by this run or an earlier one.
Used(r) == status[r] # "NONE"

\* Only rows of the batch in progress are pending, and sales come first.
BatchInv ==
    /\ pc \notin Submitting => txnPlaced = {} /\ txnRejected = {}
    /\ pc \in Submitting => \A r \in Batch : status[r] = "PENDING_APPROVAL"
    /\ pc = "submit_close" => Batch \subseteq CloseRows

\* Every step keeps the batch pending until its commit.
LEMMA BatchStep == TypeInv /\ BatchInv /\ [Next]_vars => BatchInv'
  <1> SUFFICES ASSUME TypeInv, BatchInv, [Next]_vars
               PROVE  BatchInv'
    OBVIOUS
  <1> USE DEF BatchInv
  <1>1. ASSUME pc' \notin Submitting, pc \notin Submitting, UNCHANGED txnVars
        PROVE  BatchInv'
    BY <1>1 DEF txnVars, Submitting
  <1>2. ASSUME txnPlaced' = {}, txnRejected' = {}, pc' \notin Submitting
        PROVE  BatchInv'
    BY <1>2 DEF Submitting
  <1>3. CASE StageSignals
    <2>1. /\ txnPlaced' = {} /\ txnRejected' = {}
          /\ pc' \in {"record", "submit_close"}
      BY <1>3 DEF StageSignals, txnVars, Submitting
    <2>2. /\ todo' = {CloseRow(r, aborts) : r \in closing}
          /\ \A r \in todo' : r \in Rows => status'[r] = "PENDING_APPROVAL"
      BY <1>3 DEF StageSignals
    <2>3. todo' \subseteq CloseRows
      BY <2>2, CloseRowType DEF TypeInv, TypeOK, ClosingDates
    <2>4. \A r \in todo' : status'[r] = "PENDING_APPROVAL"
      BY <2>2, <2>3 DEF Rows
    <2>5. QED
      BY <2>1, <2>3, <2>4 DEF Batch, Submitting
  <1>4. ASSUME NEW r \in todo, SubmitOrder(r) PROVE BatchInv'
    <2>1. Batch' = Batch /\ status' = status /\ pc' = pc /\ pc \in Submitting
      BY <1>4 DEF SubmitOrder, SubmitAccepted, SubmitRefused, SubmitTimesOut, Batch, dbVars, Submitting
    <2>2. QED
      BY <2>1
  <1>5. CASE CommitBatch
    <2>1. txnPlaced' = {} /\ txnRejected' = {}
      BY <1>5 DEF CommitBatch
    <2>2. CASE pc = "submit_close"
      <3>1. txnPlaced \cup txnRejected \subseteq CloseRows
        BY <2>2 DEF Batch
      <3>2. /\ pc' = "submit_open"
            /\ \A r \in todo' : r \in OpenRows /\ status[r] = "PENDING_APPROVAL"
            /\ \A r \in Rows : r \notin txnPlaced \cup txnRejected => status'[r] = status[r]
        BY <1>5, <2>2 DEF CommitBatch
      <3>3. \A r \in todo' : status'[r] = "PENDING_APPROVAL"
        BY <3>1, <3>2, RowKinds DEF Rows
      <3>4. QED
        BY <2>1, <3>2, <3>3 DEF Batch, Submitting
    <2>3. CASE pc = "submit_open"
      BY <1>5, <2>1, <2>3, <1>2 DEF CommitBatch, Submitting
    <2>4. QED
      BY <1>5, <2>2, <2>3 DEF CommitBatch
  <1>6. ASSUME NEW r \in todo, CancelStop(r) \/ ArmLot(r) \/ RefreshLot(r)
        PROVE  BatchInv'
    BY <1>6, <1>1 DEF CancelStop, ArmLot, RefreshLot, Submitting
  <1>7. CASE OpenRunBegins \/ MarkExpired \/ ArmBegins \/ RefreshBegins
    BY <1>7, <1>1 DEF OpenRunBegins, MarkExpired, ArmBegins, RefreshBegins, Submitting
  <1>8. CASE RecordRun \/ ArmEnds \/ RefreshEnds
    BY <1>8, <1>1 DEF RecordRun, ArmEnds, RefreshEnds, Record, Submitting
  <1>9. CASE EngineStep
    BY <1>3, <1>4, <1>5, <1>6, <1>7, <1>8, <1>9 DEF EngineStep
  <1>10. CASE Start \/ Halt \/ RunRaises \/ SweepRaises
    BY <1>10, <1>1, <1>2 DEF Start, Halt, RunRaises, SweepRaises, Submitting
  <1>11. ASSUME UNCHANGED <<status, pc, todo, txnVars>> PROVE BatchInv'
    BY <1>11 DEF txnVars, Batch
  <1>12. QED
    BY <1>9, <1>10, <1>11
       DEF Next, Shutdown, Crash, ClockStep, OpeningAuction, MarketCloses, NextDay, StopFires, EndOfHorizon,
           dbVars, engineVars, vars, txnVars

-----------------------------------------------------------------------------
(* Why a lot is CLOSED *)

\* A CLOSE_LONG row was staged on the expiry day of its lot or has been staged
\* there by a run whose number will not come back: a process that starts over
\* has a new number, one that goes on remembers the day.
CloseRowsInv ==
    \A c \in CloseRows : Used(c) =>
        /\ Date(c) + HoldingDays <= day /\ c.run <= aborts
        /\ c.run = aborts /\ Date(c) + HoldingDays = day =>
              /\ pc # "down"
              /\ pc \in Submitting \cup {"expire", "record"} \/ mem.run = day

\* A lot the run is closing has its CLOSE_LONG row in the batch and then in the
\* table, whatever the broker said of it.
Answered(l) == \E c \in CloseRows : c.lot = l /\ status[c] \in {"PLACED", "REJECTED"}

ClosingRowsInv ==
    /\ pc \in OpenRunSteps => \A r \in closing : Date(r) + HoldingDays = day
    /\ pc = "submit_close" => \A r \in closing : \E c \in CloseRows \cap Batch : c.lot = r.lot
    /\ pc \in {"submit_open", "expire"} => \A r \in closing : Answered(r.lot)

ExplainInv == CloseRowsInv /\ ClosingRowsInv /\ ClosedIsExplained

\* The CLOSE_LONG rows a run stages have not been in use before.
LEMMA StagedClosesAreNew ==
    ASSUME TypeInv, RunInv, CloseRowsInv, ClosingRowsInv, StageSignals, NEW r \in closing
    PROVE  CloseRow(r, aborts) \in CloseRows /\ ~Used(CloseRow(r, aborts))
  <1>1. aborts \in RunNumbers /\ r \in OpenRows /\ Date(r) + HoldingDays <= MaxDay
    BY DEF TypeInv, TypeOK, ClosingDates
  <1>2. CloseRow(r, aborts) \in CloseRows
    BY <1>1, CloseRowType
  <1>3. /\ pc = "cancel" /\ mem.run # day
        /\ CloseRow(r, aborts).run = aborts
        /\ Date(CloseRow(r, aborts)) + HoldingDays = day
    BY DEF StageSignals, RunInv, OpenRunSteps, ClosingRowsInv, CloseRow, Date
  <1>4. QED
    BY <1>2, <1>3 DEF CloseRowsInv, Submitting

\* No step puts a CLOSE_LONG row of an old run back into use.
LEMMA CloseRowsStep ==
    TypeInv /\ RunInv /\ BatchInv /\ ExplainInv /\ [Next]_vars => CloseRowsInv'
  <1> SUFFICES ASSUME TypeInv, RunInv, BatchInv, ExplainInv, [Next]_vars
               PROVE  CloseRowsInv'
    OBVIOUS
  <1> USE DEF ExplainInv
  <1>a. /\ day \in Int /\ HoldingDays \in Int /\ aborts \in Int
        /\ CloseRows \subseteq Rows
        /\ \A c \in CloseRows : Date(c) \in Int /\ c.run \in Int
    <2>1. \A l \in Lots : l[1] \in Int
      BY DEF Lots, Days
    <2>2. \A c \in CloseRows : c.lot \in Lots /\ c.run \in RunNumbers
      BY DEF CloseRows
    <2>3. QED
      BY <2>1, <2>2, EngineAssumption DEF TypeInv, TypeOK, Days, Rows, Date, RunNumbers
  <1> DEFINE Late(q) == q \in Submitting \cup {"expire", "record"}
  <1>1. ASSUME day' = day, aborts' = aborts,
               \A c \in CloseRows : Used(c)' => Used(c),
               Late(pc) \/ mem.run = day => Late(pc') \/ mem'.run = day,
               pc' = "down" => pc = "down"
        PROVE  CloseRowsInv'
    BY <1>1 DEF CloseRowsInv
  <1>2. ASSUME day' = day, aborts' = aborts + 1,
               \A c \in CloseRows : Used(c)' => Used(c)
        PROVE  CloseRowsInv'
    BY <1>2, <1>a DEF CloseRowsInv
  <1>3. CASE Start
    BY <1>3, <1>a DEF Start, clockVars, dbVars, CloseRowsInv, Used
  <1>4. CASE Halt \/ RunRaises \/ SweepRaises
    BY <1>4, <1>2 DEF Halt, RunRaises, SweepRaises, Abort, clockVars, dbVars, Used
  <1>5. ASSUME NEW field \in {"run", "arm", "mark"}, Record(field), Late(pc) => field = "run",
               pc # "down"
        PROVE  CloseRowsInv'
    <2>1. /\ day' = day /\ status' = status /\ pc' = "idle"
          /\ aborts' = aborts \/ aborts' = aborts + 1
      BY <1>5 DEF Record, Abort, clockVars
    <2>2. mem'.run = IF field = "run" THEN day ELSE mem.run
      BY <1>5, DateNoted DEF Record, TypeInv, TypeOK
    <2>3. CASE aborts' = aborts
      BY <2>1, <2>2, <2>3, <1>5, <1>1 DEF Used
    <2>4. CASE aborts' = aborts + 1
      BY <2>1, <2>4, <1>2 DEF Used
    <2>5. QED
      BY <2>1, <2>3, <2>4
  <1>6. CASE OpenRunBegins \/ RefreshBegins
    <2>1. \A c \in CloseRows : Used(c)' => Used(c)
      BY <1>6, <1>a DEF OpenRunBegins, RefreshBegins, Reconciled, Used
    <2>2. /\ pc = "idle" /\ pc' # "down" /\ UNCHANGED <<day, aborts, mem>>
      BY <1>6 DEF OpenRunBegins, RefreshBegins, clockVars
    <2>3. QED
      BY <2>1, <2>2, <1>1 DEF Submitting
  <1>7. CASE StageSignals
    <2>1. PICK picks \in Picks :
             status' = [r \in Rows |-> IF r \in {CloseRow(t, aborts) : t \in closing}
                                              \cup {OpenRow(<<day, y>>, aborts) : y \in picks}
                                       THEN "PENDING_APPROVAL" ELSE status[r]]
      BY <1>7 DEF StageSignals
    <2>2. \A y : OpenRow(<<day, y>>, aborts) \notin CloseRows
      BY RowKinds DEF OpenRow
    <2>3. \A c \in CloseRows : Used(c)' => Used(c) \/ \E t \in closing : c = CloseRow(t, aborts)
      BY <2>1, <2>2, <1>a DEF Used
    <2>4. /\ pc = "cancel" /\ UNCHANGED <<day, aborts, mem>> /\ Late(pc')
      BY <1>7 DEF StageSignals, clockVars, Submitting
    <2>5. \A t \in closing : /\ Date(CloseRow(t, aborts)) + HoldingDays = day
                             /\ CloseRow(t, aborts).run = aborts
      BY <2>4 DEF ClosingRowsInv, OpenRunSteps, CloseRow, Date
    <2>6. QED
      BY <2>3, <2>4, <2>5, <1>a DEF CloseRowsInv, Submitting
  <1>8. CASE CommitBatch
    <2>1. \A c \in CloseRows : Used(c)' => Used(c)
      BY <1>8, <1>a DEF CommitBatch, BatchInv, Batch, Submitting, Used
    <2>2. QED
      BY <2>1, <1>1, <1>8 DEF CommitBatch, clockVars, Submitting
  <1>9. CASE MarkExpired
    <2>1. \A c \in CloseRows : Used(c)' => Used(c)
      BY <1>9, <1>a DEF MarkExpired, Used
    <2>2. QED
      BY <2>1, <1>1, <1>9 DEF MarkExpired, clockVars, Submitting
  <1>10. CASE RecordRun \/ ArmEnds \/ RefreshEnds
    BY <1>10, <1>5 DEF RecordRun, ArmEnds, RefreshEnds, Submitting
  <1>11. CASE ArmBegins
    BY <1>11, <1>1 DEF ArmBegins, clockVars, dbVars, Used, Submitting
  <1>12. ASSUME NEW r \in todo, CancelStop(r) \/ SubmitOrder(r) \/ ArmLot(r) \/ RefreshLot(r)
         PROVE  CloseRowsInv'
    BY <1>12, <1>1 DEF CancelStop, SubmitOrder, ArmLot, RefreshLot, clockVars, dbVars, Used
  <1>13. CASE EngineStep
    BY <1>6, <1>7, <1>8, <1>9, <1>10, <1>11, <1>12, <1>13 DEF EngineStep
  <1>14. CASE NextDay
    <2>1. day' = day + 1 /\ UNCHANGED <<status, aborts, pc, mem>>
      BY <1>14 DEF NextDay, dbVars, engineVars
    <2>2. QED
      BY <2>1, <1>a DEF CloseRowsInv, Used
  <1>15. ASSUME UNCHANGED <<day, status, aborts, pc, mem>> PROVE CloseRowsInv'
    BY <1>15, <1>1 DEF Used
  <1>16. QED
    BY <1>3, <1>4, <1>13, <1>14, <1>15
       DEF Next, Shutdown, Crash, ClockStep, OpeningAuction, MarketCloses, StopFires,
           EndOfHorizon, clockVars, dbVars, engineVars, vars

\* Every step keeps what is known of the rows of the lots being closed, and
\* takes back no answer of the broker.
LEMMA AnswersStep ==
    TypeInv /\ RunInv /\ BatchInv /\ ExplainInv /\ [Next]_vars
      => \A c \in CloseRows : status[c] \in {"PLACED", "REJECTED"} =>
                                status'[c] \in {"PLACED", "REJECTED"}
  <1> SUFFICES ASSUME TypeInv, RunInv, BatchInv, ExplainInv, [Next]_vars,
                      NEW c \in CloseRows, status[c] \in {"PLACED", "REJECTED"}
               PROVE  status'[c] \in {"PLACED", "REJECTED"}
    OBVIOUS
  <1> USE DEF ExplainInv
  <1>a. c \in Rows /\ c \notin OpenRows
    BY RowKinds DEF Rows
  <1>1. CASE UNCHANGED status
    BY <1>1
  <1>2. CASE OpenRunBegins \/ RefreshBegins
    BY <1>2, <1>a DEF OpenRunBegins, RefreshBegins, Reconciled
  <1>3. CASE StageSignals
    <2>1. PICK picks \in Picks :
             status' = [r \in Rows |-> IF r \in {CloseRow(t, aborts) : t \in closing}
                                              \cup {OpenRow(<<day, y>>, aborts) : y \in picks}
                                       THEN "PENDING_APPROVAL" ELSE status[r]]
      BY <1>3 DEF StageSignals
    <2>2. \A y : OpenRow(<<day, y>>, aborts) # c
      BY RowKinds DEF OpenRow
    <2>3. \A t \in closing : CloseRow(t, aborts) # c
      BY <1>3, StagedClosesAreNew DEF Used
    <2>4. QED
      BY <2>1, <2>2, <2>3, <1>a
  <1>4. CASE CommitBatch
    BY <1>4, <1>a DEF CommitBatch
  <1>5. CASE MarkExpired
    BY <1>5, <1>a DEF MarkExpired
  <1>6. CASE EngineStep
    BY <1>1, <1>2, <1>3, <1>4, <1>5, <1>6
       DEF EngineStep, CancelStop, SubmitOrder, RecordRun, ArmBegins, ArmLot, ArmEnds,
           RefreshLot, RefreshEnds, Record, dbVars
  <1>7. QED
    BY <1>1, <1>6
       DEF Next, Start, Shutdown, Crash, Halt, RunRaises, SweepRaises, ClockStep, OpeningAuction,
           MarketCloses, NextDay, StopFires, EndOfHorizon, dbVars, vars

\* Every step keeps what is known of the rows of the lots being closed.
LEMMA ClosingRowsStep ==
    TypeInv /\ RunInv /\ BatchInv /\ ExplainInv /\ [Next]_vars => ClosingRowsInv'
  <1> SUFFICES ASSUME TypeInv, RunInv, BatchInv, ExplainInv, [Next]_vars
               PROVE  ClosingRowsInv'
    OBVIOUS
  <1> USE DEF ExplainInv
  <1>a. CloseRows \subseteq Rows /\ txnPlaced \subseteq Rows /\ txnRejected \subseteq Rows
    BY DEF Rows, TypeInv, TypeOK
  <1>b. ASSUME NEW l, Answered(l) PROVE Answered(l)'
    BY <1>b, AnswersStep DEF Answered
  <1>1. CASE pc' \notin OpenRunSteps
    BY <1>1 DEF ClosingRowsInv, OpenRunSteps
  <1>2. ASSUME UNCHANGED <<day, closing, pc>>, Batch' = Batch PROVE ClosingRowsInv'
    BY <1>2, <1>b DEF ClosingRowsInv
  <1>3. CASE OpenRunBegins
    <2>1. \A r \in closing' : r \in OpenRows /\ Date(r) = day - HoldingDays
      BY <1>3 DEF OpenRunBegins, PlacedLots, ExpiryDate
    <2>2. day \in Int /\ HoldingDays \in Int
      BY EngineAssumption DEF TypeInv, TypeOK, Days
    <2>3. day' = day /\ pc' = "cancel"
      BY <1>3 DEF OpenRunBegins, clockVars
    <2>4. QED
      BY <2>1, <2>2, <2>3 DEF ClosingRowsInv
  <1>4. CASE StageSignals
    <2>1. /\ pc = "cancel" /\ pc' \in {"record", "submit_close"} /\ UNCHANGED <<day, closing>>
          /\ todo' = {CloseRow(t, aborts) : t \in closing}
      BY <1>4 DEF StageSignals, clockVars
    <2>2. \A r \in closing : CloseRow(r, aborts) \in CloseRows /\ CloseRow(r, aborts).lot = r.lot
      BY <1>4, StagedClosesAreNew DEF CloseRow
    <2>3. \A r \in closing' : \E c \in CloseRows \cap Batch' : c.lot = r.lot
      BY <2>1, <2>2 DEF Batch
    <2>4. QED
      BY <2>1, <2>3 DEF ClosingRowsInv, OpenRunSteps
  <1>5. ASSUME NEW r \in todo, SubmitOrder(r) PROVE ClosingRowsInv'
    <2>1. Batch' = Batch /\ UNCHANGED <<day, closing, pc>>
      BY <1>5 DEF SubmitOrder, SubmitAccepted, SubmitRefused, SubmitTimesOut, Batch, clockVars
    <2>2. QED
      BY <2>1, <1>2
  <1>6. CASE CommitBatch
    <2>1. /\ todo = {} /\ UNCHANGED <<day, closing>>
          /\ \A r \in txnPlaced \cup txnRejected : status'[r] \in {"PLACED", "REJECTED"}
          /\ \/ pc = "submit_close" /\ pc' = "submit_open"
             \/ pc = "submit_open" /\ pc' = "expire"
      BY <1>6, <1>a DEF CommitBatch, clockVars
    <2>2. CASE pc = "submit_close"
      <3>1. \A r \in closing : \E c \in CloseRows : c.lot = r.lot /\ c \in txnPlaced \cup txnRejected
        BY <2>1, <2>2 DEF ClosingRowsInv, Batch
      <3>2. \A r \in closing : Answered(r.lot)'
        BY <2>1, <3>1 DEF Answered
      <3>3. QED
        BY <2>1, <2>2, <3>2 DEF ClosingRowsInv, OpenRunSteps
    <2>3. CASE pc = "submit_open"
      BY <2>1, <2>3, <1>b DEF ClosingRowsInv, OpenRunSteps
    <2>4. QED
      BY <2>1, <2>2, <2>3
  <1>7. ASSUME NEW r \in todo, CancelStop(r) PROVE ClosingRowsInv'
    BY <1>7 DEF CancelStop, ClosingRowsInv, OpenRunSteps, clockVars
  <1>8. CASE EngineStep
    <2>1. ASSUME NEW r \in todo, ArmLot(r) \/ RefreshLot(r) PROVE pc' \notin OpenRunSteps
      BY <2>1 DEF ArmLot, RefreshLot, OpenRunSteps
    <2>2. ASSUME MarkExpired \/ RecordRun \/ ArmBegins \/ ArmEnds \/ RefreshBegins \/ RefreshEnds
          PROVE  pc' \notin OpenRunSteps
      BY <2>2 DEF MarkExpired, RecordRun, ArmBegins, ArmEnds, RefreshBegins, RefreshEnds, Record,
                  OpenRunSteps
    <2>3. QED
      BY <1>1, <1>3, <1>4, <1>5, <1>6, <1>7, <1>8, <2>1, <2>2 DEF EngineStep
  <1>9. CASE Start \/ Halt \/ RunRaises \/ SweepRaises
    BY <1>1, <1>9 DEF Start, Halt, RunRaises, SweepRaises, OpenRunSteps
  <1>10. CASE NextDay
    BY <1>1, <1>10 DEF NextDay, Quiet, OpenRunSteps, engineVars
  <1>11. ASSUME UNCHANGED <<day, engineVars>> PROVE ClosingRowsInv'
    BY <1>2, <1>11 DEF engineVars, Batch
  <1>12. QED
    BY <1>8, <1>9, <1>10, <1>11
       DEF Next, Shutdown, Crash, ClockStep, OpeningAuction, MarketCloses, StopFires,
           EndOfHorizon, clockVars, engineVars, vars

\* Every step that closes a lot can say why.
LEMMA ExplainStep ==
    TypeInv /\ RunInv /\ BatchInv /\ ExplainInv /\ [Next]_vars => ClosedIsExplained'
  <1> SUFFICES ASSUME TypeInv, RunInv, BatchInv, ExplainInv, [Next]_vars,
                      NEW r \in OpenRows, status'[r] = "CLOSED"
               PROVE  r.lot \in fired' \/ Answered(r.lot)'
    BY DEF ClosedIsExplained, Answered
  <1> USE DEF ExplainInv
  <1>a. r \in Rows /\ fired \subseteq fired'
    <2>1. fired \subseteq fired'
      BY DEF Next, EngineStep, OpenRunBegins, CancelStop, StageSignals, SubmitOrder,
             CommitBatch, MarkExpired, RecordRun, ArmBegins, ArmLot, ArmEnds, RefreshBegins,
             RefreshLot, RefreshEnds, Record, Start, Shutdown, Crash, Halt, RunRaises, SweepRaises,
             ClockStep, OpeningAuction, MarketCloses, NextDay, StopFires, EndOfHorizon,
             brokerVars, vars
    <2>2. QED
      BY <2>1 DEF Rows
  <1>b. ASSUME NEW l, Answered(l) PROVE Answered(l)'
    BY <1>b, AnswersStep DEF Answered
  <1>1. CASE status[r] = "CLOSED"
    BY <1>1, <1>a, <1>b DEF ClosedIsExplained, Answered
  <1>2. CASE UNCHANGED status
    BY <1>1, <1>2
  <1>3. CASE OpenRunBegins \/ RefreshBegins
    BY <1>1, <1>3, <1>a DEF OpenRunBegins, RefreshBegins, Reconciled
  <1>4. CASE StageSignals
    BY <1>1, <1>4, <1>a DEF StageSignals
  <1>5. CASE CommitBatch
    BY <1>1, <1>5, <1>a DEF CommitBatch
  <1>6. CASE MarkExpired
    <2>1. status[r] = "CLOSED" \/ \E t \in closing : r.lot = t.lot
      BY <1>6, <1>a DEF MarkExpired
    <2>2. ASSUME NEW t \in closing, r.lot = t.lot PROVE Answered(r.lot)
      BY <2>2, <1>6 DEF MarkExpired, ClosingRowsInv
    <2>3. QED
      BY <2>1, <2>2, <1>1, <1>b
  <1>7. CASE EngineStep
    BY <1>2, <1>3, <1>4, <1>5, <1>6, <1>7
       DEF EngineStep, CancelStop, SubmitOrder, RecordRun, ArmBegins, ArmLot, ArmEnds,
           RefreshLot, RefreshEnds, Record, dbVars
  <1>8. QED
    BY <1>2, <1>7
       DEF Next, Start, Shutdown, Crash, Halt, RunRaises, SweepRaises, ClockStep, OpeningAuction,
           MarketCloses, NextDay, StopFires, EndOfHorizon, dbVars, vars

\* Under every fault: a lot is CLOSED only because its stop fired or because a
\* CLOSE_LONG row for it was put to the broker.
THEOREM ClosedIsExplainedHolds == Spec => []ClosedIsExplained
  <1> DEFINE Inv == TypeInv /\ RunInv /\ BatchInv /\ ExplainInv
  <1>1. Init => Inv
    <2> SUFFICES ASSUME Init PROVE Inv
      OBVIOUS
    <2>1. RunInv /\ BatchInv
      BY DEF Init, RunInv, BatchInv, NoDates, OpenRunSteps, Submitting
    <2>2. ExplainInv
      BY DEF Init, ExplainInv, CloseRowsInv, ClosingRowsInv, ClosedIsExplained, Used, Rows
    <2>3. QED
      BY <2>1, <2>2, TypeInit
  <1>2. Inv /\ [Next]_vars => Inv'
    BY TypeStep, RunStep, BatchStep, CloseRowsStep, ClosingRowsStep, ExplainStep
       DEF TypeInv, ExplainInv
  <1>3. Inv => ClosedIsExplained
    BY DEF ExplainInv
  <1>4. QED
    BY <1>1, <1>2, <1>3, PTL DEF Spec

-----------------------------------------------------------------------------
(* A closed lot gets no stop *)

\* The rows of a lot share its fate, and what is closed was bought on an earlier
\* day or is looked at after its auction, so no batch brings it back.
FateInv ==
    /\ \A l \in fired : l[1] = day => phase # "pre"
    /\ \A l \in fired : l[1] <= day
    /\ \A r \in OpenRows : status[r] = "CLOSED" /\ Date(r) = day => phase # "pre"
    /\ \A r, s \in OpenRows : status[r] = "CLOSED" /\ status[s] = "PLACED" => r.lot # s.lot
    /\ pc \in OpenRunSteps => phase = "pre"
    /\ pc \in Submitting => \A r \in Batch \cap OpenRows : Date(r) = day
    /\ pc \in {"arm", "refresh"} => \A r \in todo : r \in OpenRows /\ status[r] = "PLACED"

\* Every step lets the rows of a lot share its fate.
LEMMA FateStep ==
    TypeInv /\ DatesInv /\ BatchInv /\ ExplainInv /\ FateInv /\ [Next]_vars => FateInv'
  <1> SUFFICES ASSUME TypeInv, DatesInv, BatchInv, ExplainInv, FateInv, [Next]_vars
               PROVE  FateInv'
    OBVIOUS
  <1> USE DEF FateInv
  <1>a. /\ day \in Int /\ HoldingDays \in Nat \ {0}
        /\ OpenRows \subseteq Rows
        /\ \A r \in OpenRows : Date(r) \in Int
        /\ \A l \in stops \cup fired : l[1] \in Int
    BY EngineAssumption, RowKinds DEF TypeInv, TypeOK, Lots, Days, Rows, Date
  <1>1. ASSUME UNCHANGED <<day, phase, fired>>,
               \A r \in OpenRows : status'[r] = "CLOSED" => status[r] = "CLOSED",
               \A r \in OpenRows : status'[r] = "PLACED" => status[r] = "PLACED",
               pc' \in OpenRunSteps => phase = "pre",
               pc' \in Submitting => \A r \in Batch' \cap OpenRows : Date(r) = day,
               pc' \in {"arm", "refresh"} =>
                   \A r \in todo' : r \in OpenRows /\ status'[r] = "PLACED"
        PROVE  FateInv'
    BY <1>1
  <1>2. CASE Start \/ Halt \/ RunRaises \/ SweepRaises
    BY <1>1, <1>2
       DEF Start, Halt, RunRaises, SweepRaises, OpenRunSteps, Submitting, clockVars, dbVars, brokerVars
  <1>3. ASSUME NEW ok \in BOOLEAN, status' = Reconciled(ok), UNCHANGED <<day, phase, fired>>,
               pc' \in OpenRunSteps => phase = "pre", pc' \notin Submitting,
               pc' \in {"arm", "refresh"} => todo' \subseteq PlacedLots(status')
        PROVE  FateInv'
    <2>1. ASSUME NEW r \in OpenRows, status'[r] = "CLOSED"
          PROVE  status[r] = "CLOSED" \/ (ok /\ r.lot \in fired)
      BY <1>3, <2>1, <1>a DEF Reconciled
    <2>2. ASSUME NEW r \in OpenRows, status'[r] = "PLACED"
          PROVE  status[r] = "PLACED" /\ ~(ok /\ r.lot \in fired)
      BY <1>3, <2>2, <1>a DEF Reconciled
    <2>3. \A r \in OpenRows : status'[r] = "CLOSED" /\ Date(r) = day => phase # "pre"
      BY <2>1 DEF Date
    <2>4. \A r, s \in OpenRows : status'[r] = "CLOSED" /\ status'[s] = "PLACED" => r.lot # s.lot
      BY <2>1, <2>2
    <2>5. QED
      BY <1>3, <2>3, <2>4 DEF PlacedLots
  <1>4. CASE OpenRunBegins
    <2>1. PICK ok \in Succeeds("reconcile") : status' = Reconciled(ok)
      BY <1>4 DEF OpenRunBegins
    <2>2. QED
      BY <2>1, <1>3, <1>4
         DEF OpenRunBegins, OpenRunGate, Succeeds, Submitting, clockVars, brokerVars
  <1>5. CASE RefreshBegins
    <2>1. PICK ok \in Succeeds("reconcile"), cal \in Succeeds("calendar") :
             /\ status' = Reconciled(ok)
             /\ todo' = LotsToRefresh(status', cal)
      BY <1>5 DEF RefreshBegins
    <2>2. QED
      BY <2>1, <1>3, <1>5
         DEF RefreshBegins, LotsToRefresh, Succeeds, Submitting, OpenRunSteps, clockVars, brokerVars
  <1>6. CASE ArmBegins
    BY <1>1, <1>6
       DEF ArmBegins, LotsToArm, PlacedLots, OpenRunSteps, Submitting, clockVars, dbVars, brokerVars
  <1>7. ASSUME NEW r \in todo, CancelStop(r) PROVE FateInv'
    BY <1>1, <1>7 DEF CancelStop, OpenRunSteps, Submitting, clockVars, dbVars
  <1>8. ASSUME NEW r \in todo, ArmLot(r) \/ RefreshLot(r) PROVE FateInv'
    BY <1>1, <1>8 DEF ArmLot, RefreshLot, OpenRunSteps, Submitting, clockVars, dbVars
  <1>9. CASE StageSignals
    <2>1. PICK picks \in Picks :
             LET closes == {CloseRow(r, aborts) : r \in closing}
                 opens == {OpenRow(<<day, s>>, aborts) : s \in picks}
             IN  /\ status' = [r \in Rows |-> IF r \in closes \cup opens
                                              THEN "PENDING_APPROVAL" ELSE status[r]]
                 /\ todo' = closes
      BY <1>9 DEF StageSignals
    <2>2. \A r \in Batch' : r \notin OpenRows
      <3>1. txnPlaced' = {} /\ txnRejected' = {}
        BY <1>9 DEF StageSignals, BatchInv, Submitting, txnVars
      <3>2. \A r \in closing : CloseRow(r, aborts) \in CloseRows
        BY CloseRowType DEF TypeInv, TypeOK, ClosingDates
      <3>3. QED
        BY <2>1, <3>1, <3>2, RowKinds DEF Batch
    <2>3. /\ phase = "pre" /\ UNCHANGED <<day, phase, fired>>
          /\ pc' \notin {"arm", "refresh"}
      BY <1>9 DEF StageSignals, OpenRunSteps, clockVars, brokerVars
    <2>4. QED
      BY <1>1, <1>a, <2>1, <2>2, <2>3
  <1>10. ASSUME NEW r \in todo, SubmitOrder(r) PROVE FateInv'
    <2>1. Batch' = Batch /\ UNCHANGED <<day, phase, fired, status, pc>> /\ pc \in Submitting
      BY <1>10 DEF SubmitOrder, SubmitAccepted, SubmitRefused, SubmitTimesOut, Batch, Submitting,
                   clockVars, dbVars
    <2>2. QED
      BY <2>1, <1>1 DEF Submitting, OpenRunSteps
  <1>11. CASE CommitBatch
    <2>1. /\ phase = "pre" /\ UNCHANGED <<day, phase, fired>> /\ pc \in Submitting
          /\ pc' \in {"submit_open", "expire"}
          /\ txnPlaced' = {} /\ txnRejected' = {}
          /\ pc' = "submit_open" => todo' \subseteq {r \in OpenRows : Date(r) = day}
      BY <1>11 DEF CommitBatch, OpenRunSteps, Submitting, clockVars, brokerVars
    <2>2. \A r \in OpenRows : status'[r] = "CLOSED" => status[r] = "CLOSED"
      BY <1>11, <1>a DEF CommitBatch
    <2>3. \A r \in OpenRows : status'[r] = "PLACED" => status[r] = "PLACED" \/ r \in txnPlaced
      BY <1>11, <1>a DEF CommitBatch
    <2>4. \A r \in OpenRows \cap txnPlaced : Date(r) = day
      BY <2>1 DEF Batch
    <2>5. \A r \in OpenRows : status'[r] = "CLOSED" => Date(r) # day
      BY <2>1, <2>2
    <2>6. \A r, s \in OpenRows : status'[r] = "CLOSED" /\ status'[s] = "PLACED" => r.lot # s.lot
      BY <2>2, <2>3, <2>4, <2>5 DEF Date
    <2>7. pc' \in Submitting => \A r \in Batch' \cap OpenRows : Date(r) = day
      BY <2>1 DEF Batch, Submitting
    <2>8. QED
      BY <2>1, <2>5, <2>6, <2>7
  <1>12. CASE MarkExpired
    <2>1. /\ pc = "expire" /\ phase = "pre" /\ UNCHANGED <<day, phase, fired>> /\ pc' = "record"
      BY <1>12 DEF MarkExpired, OpenRunSteps, clockVars, brokerVars
    <2>2. \A c \in closing : Date(c) # day
      BY <2>1, <1>a DEF ExplainInv, ClosingRowsInv, OpenRunSteps, TypeInv, TypeOK
    <2>3. ASSUME NEW r \in OpenRows, status'[r] = "CLOSED"
          PROVE  status[r] = "CLOSED" \/ \E c \in closing : r.lot = c.lot
      BY <1>12, <2>3, <1>a DEF MarkExpired
    <2>4. ASSUME NEW r \in OpenRows, status'[r] = "PLACED"
          PROVE  status[r] = "PLACED" /\ ~\E c \in closing : r.lot = c.lot
      BY <1>12, <2>4, <1>a DEF MarkExpired
    <2>5. \A r \in OpenRows : status'[r] = "CLOSED" => Date(r) # day
      BY <2>1, <2>2, <2>3 DEF Date
    <2>6. \A r, s \in OpenRows : status'[r] = "CLOSED" /\ status'[s] = "PLACED" => r.lot # s.lot
      BY <2>3, <2>4
    <2>7. QED
      BY <2>1, <2>5, <2>6 DEF OpenRunSteps, Submitting
  <1>13. CASE RecordRun \/ ArmEnds \/ RefreshEnds
    BY <1>1, <1>13
       DEF RecordRun, ArmEnds, RefreshEnds, Record, OpenRunSteps, Submitting, clockVars, brokerVars
  <1>14. CASE EngineStep
    BY <1>4, <1>5, <1>6, <1>7, <1>8, <1>9, <1>10, <1>11, <1>12, <1>13, <1>14 DEF EngineStep
  <1>15. CASE OpeningAuction \/ MarketCloses
    BY <1>15 DEF OpeningAuction, MarketCloses, Quiet, OpenRunSteps, Submitting, dbVars, brokerVars,
                 engineVars
  <1>16. CASE NextDay
    <2>1. /\ day' = day + 1 /\ UNCHANGED <<status, fired, pc>> /\ pc \in {"idle", "down"}
      BY <1>16 DEF NextDay, Quiet, dbVars, brokerVars, engineVars
    <2>2. \A r \in OpenRows : status[r] = "CLOSED" => Date(r) <= day
      BY <1>a DEF DatesInv, InUse
    <2>3. QED
      BY <2>1, <2>2, <1>a DEF OpenRunSteps, Submitting
  <1>17. ASSUME NEW l \in stops, StopFires(l) PROVE FateInv'
    <2>1. /\ phase = "open" /\ fired' = fired \cup {l}
          /\ UNCHANGED <<day, phase, status, pc, todo, txnPlaced, txnRejected>>
      BY <1>17 DEF StopFires, clockVars, dbVars, engineVars, txnVars
    <2>2. QED
      BY <2>1 DEF DatesInv, Batch
  <1>18. CASE UNCHANGED vars
    BY <1>18 DEF vars, Batch
  <1>19. QED
    BY <1>2, <1>14, <1>15, <1>16, <1>17, <1>18 DEF Next, Shutdown, Crash, ClockStep, EndOfHorizon

\* Under every fault, repeated sweeps included: a lot that the table has CLOSED is
\* given no stop.
THEOREM ClosedGetsNoStopHolds == Spec => ClosedGetsNoStop
  <1> DEFINE Inv == TypeInv /\ RunInv /\ DatesInv /\ BatchInv /\ ExplainInv /\ FateInv
  <1>1. Init => Inv
    <2> SUFFICES ASSUME Init PROVE Inv
      OBVIOUS
    <2>1. RunInv /\ BatchInv
      BY DEF Init, RunInv, BatchInv, NoDates, OpenRunSteps, Submitting
    <2>2. ExplainInv
      BY DEF Init, ExplainInv, CloseRowsInv, ClosingRowsInv, ClosedIsExplained, Used, Rows
    <2>3. DatesInv /\ FateInv
      BY DEF Init, DatesInv, InUse, FateInv, OpenRunSteps, Submitting, Rows
    <2>4. QED
      BY <2>1, <2>2, <2>3, TypeInit
  <1>2. Inv /\ [Next]_vars => Inv'
    BY TypeStep, RunStep, DatesStep, BatchStep, CloseRowsStep, ClosingRowsStep, ExplainStep, FateStep
       DEF TypeInv, ExplainInv
  <1>3. Inv /\ [Next]_vars =>
          [\A l \in stops' \ stops : \A r \in OpenRows : r.lot = l => status[r] # "CLOSED"]_vars
    <2> SUFFICES ASSUME FateInv, [Next]_vars, NEW l \in stops' \ stops,
                        NEW r \in OpenRows, r.lot = l
                 PROVE  status[r] # "CLOSED"
      OBVIOUS
    <2>1. \E t \in todo : t.lot = l /\ pc \in {"arm", "refresh"}
      <3>1. CASE EngineStep
        BY <3>1
           DEF EngineStep, OpenRunBegins, CancelStop, StageSignals, SubmitOrder, CommitBatch,
               MarkExpired, RecordRun, ArmBegins, ArmLot, ArmEnds, RefreshBegins, RefreshLot,
               RefreshEnds, Record, brokerVars
      <3>2. QED
        BY <3>1
           DEF Next, Start, Shutdown, Crash, Halt, RunRaises, SweepRaises, ClockStep,
               OpeningAuction, MarketCloses, NextDay, StopFires, EndOfHorizon, brokerVars, vars
    <2>2. QED
      BY <2>1 DEF FateInv
  <1>4. QED
    BY <1>1, <1>2, <1>3, PTL DEF Spec, ClosedGetsNoStop

-----------------------------------------------------------------------------
(***************************************************************************)
(* What the daemon owes its lots.                                          *)
(***************************************************************************)

\* The faults after which the code gives no such promise (README.md).  A sweep that
\* raises is not among them: it does so before it has touched a stop.
Calm == Faults \cap {"crash", "exception", "heartbeat", "cancel", "reconcile"} = {}

\* What the process remembers is what the state row says.
DatesRecorded == pc # "down" => mem = last

\* A lot has one OPEN_LONG row at most, since a day is run once.
RowsInv ==
    /\ \A r, s \in OpenRows : Used(r) /\ Used(s) /\ r.lot = s.lot => r = s
    /\ last.run # day /\ pc \notin Submitting \cup {"expire", "record"} =>
          \A r \in OpenRows : Used(r) => Date(r) # day

\* Where each routine leaves the stops of the lots it works on.
StopsInv ==
    /\ NoStopAfterFire
    /\ \A l \in fired : l[1] <= day
    /\ last.arm # day /\ pc # "arm" => \A l \in stops \cup fired : l[1] # day
    /\ pc = "arm" => \A r \in todo : /\ r \in PlacedLots(status)
                                     /\ Date(r) = day
                                     /\ r.lot \notin stops \cup fired
    /\ pc = "arm" => \A l \in stops \cup fired :
                        l[1] = day => \E r \in LotsToArm \ todo : r.lot = l
    /\ pc = "refresh" => /\ phase = "post" /\ last.arm = day
                         /\ \A r \in todo : r \in PlacedLots(status) /\ r.lot \notin fired
    /\ pc = "cancel" => todo \subseteq closing
    /\ pc \in OpenRunSteps => \A r \in closing : (pc = "cancel" /\ r \in todo) \/ r.lot \notin stops

-----------------------------------------------------------------------------
(* The steps a calm environment leaves out *)

\* The process dies only between routines, routines return, state is written.
LEMMA CalmSteps ==
    ASSUME Calm
    PROVE  /\ Succeeds("reconcile") = {TRUE} /\ Succeeds("cancel") = {TRUE}
           /\ ~Crash /\ ~RunRaises
           /\ Shutdown => pc = "idle" /\ Halt
           /\ \A field : Record(field) => /\ mem' = [mem EXCEPT ![field] = day]
                                          /\ last' = [last EXCEPT ![field] = day]
  BY DEF Calm, Succeeds, Crash, RunRaises, Shutdown, Record

\* Every step keeps the process and its state row in agreement.
LEMMA DatesRecordedStep ==
    Calm /\ DatesRecorded /\ [Next]_vars => DatesRecorded'
  <1> SUFFICES ASSUME Calm, DatesRecorded, [Next]_vars
               PROVE  DatesRecorded'
    OBVIOUS
  <1> USE DEF DatesRecorded
  <1>1. ASSUME UNCHANGED <<mem, last>>, pc' = pc \/ pc # "down" \/ pc' = "down"
        PROVE  DatesRecorded'
    BY <1>1
  <1>2. CASE Start
    BY <1>2 DEF Start, dbVars
  <1>3. CASE Halt
    BY <1>3 DEF Halt
  <1>4. ASSUME NEW field, Record(field), pc # "down" PROVE DatesRecorded'
    BY <1>4, CalmSteps
  <1>5. CASE EngineStep
    <2>1. CASE RecordRun \/ ArmEnds \/ RefreshEnds
      BY <2>1, <1>4 DEF RecordRun, ArmEnds, RefreshEnds
    <2>2. ASSUME NEW r \in todo, CancelStop(r) \/ SubmitOrder(r) \/ ArmLot(r) \/ RefreshLot(r)
          PROVE  DatesRecorded'
      BY <2>2, <1>1 DEF CancelStop, SubmitOrder, ArmLot, RefreshLot, dbVars
    <2>3. CASE OpenRunBegins \/ StageSignals \/ CommitBatch \/ MarkExpired \/ ArmBegins \/ RefreshBegins
      BY <2>3, <1>1
         DEF OpenRunBegins, StageSignals, CommitBatch, MarkExpired, ArmBegins, RefreshBegins, dbVars
    <2>4. QED
      BY <1>5, <2>1, <2>2, <2>3 DEF EngineStep
  <1>6. CASE SweepRaises
    BY <1>1, <1>6 DEF SweepRaises, dbVars
  <1>7. QED
    BY <1>1, <1>2, <1>3, <1>5, <1>6, CalmSteps
       DEF Next, ClockStep, OpeningAuction, MarketCloses, NextDay, StopFires, EndOfHorizon,
           dbVars, engineVars, vars

-----------------------------------------------------------------------------
(* One row per lot *)

\* No step stages a second OPEN_LONG row for a lot.
LEMMA RowsStep ==
    Calm /\ TypeInv /\ RunInv /\ DatesInv /\ DatesRecorded /\ BatchInv /\ RowsInv /\ [Next]_vars
      => RowsInv'
  <1> SUFFICES ASSUME Calm, TypeInv, RunInv, DatesInv, DatesRecorded, BatchInv, RowsInv, [Next]_vars
               PROVE  RowsInv'
    OBVIOUS
  <1> DEFINE Staged(q) == q \in Submitting \cup {"expire", "record"}
  <1>a. /\ day \in Int
        /\ mem \in [run : 0..MaxDay, arm : 0..MaxDay, mark : 0..MaxDay]
        /\ \A r \in OpenRows : r \in Rows /\ Date(r) \in Int
    <2>1. \A l \in Lots : l[1] \in Int
      BY DEF Lots, Days
    <2>2. QED
      BY <2>1, RowKinds DEF TypeInv, TypeOK, Days, Rows, Date
  <1>1. ASSUME day' = day,
               \A r \in OpenRows : Used(r)' => Used(r),
               last'.run # day => last'.run = last.run,
               ~Staged(pc') => ~Staged(pc) \/ last'.run = day
        PROVE  RowsInv'
    BY <1>1 DEF RowsInv
  <1>2. CASE Start \/ Shutdown
    BY <1>2, <1>1, CalmSteps DEF Start, Halt, Submitting, clockVars, dbVars, Used
  <1>3. CASE NextDay
    <2>1. \A r \in OpenRows : Used(r)' => Used(r) /\ Date(r) # day'
      BY <1>3, <1>a DEF NextDay, dbVars, Used, DatesInv, InUse
    <2>2. QED
      BY <2>1 DEF RowsInv
  <1>4. ASSUME NEW ok, status' = Reconciled(ok), UNCHANGED <<day, last>>, pc' \in {"cancel", "refresh"},
               pc = "idle"
        PROVE  RowsInv'
    <2>1. \A r \in OpenRows : Used(r)' => Used(r)
      BY <1>4, <1>a DEF Reconciled, Used
    <2>2. QED
      BY <2>1, <1>1, <1>4 DEF Submitting
  <1>5. CASE OpenRunBegins
    BY <1>5, <1>4 DEF OpenRunBegins, clockVars
  <1>6. CASE RefreshBegins
    BY <1>6, <1>4 DEF RefreshBegins, clockVars
  <1>7. CASE StageSignals
    <2>1. /\ pc = "cancel" /\ day' = day /\ last' = last /\ aborts \in RunNumbers
          /\ Staged(pc')
      BY <1>7 DEF StageSignals, clockVars, TypeInv, TypeOK, Submitting
    <2>2. last.run # day
      BY <2>1, <1>a DEF RunInv, DatesRecorded, OpenRunSteps
    <2>3. PICK picks \in Picks :
             status' = [r \in Rows |-> IF r \in {CloseRow(t, aborts) : t \in closing}
                                              \cup {OpenRow(<<day, y>>, aborts) : y \in picks}
                                       THEN "PENDING_APPROVAL" ELSE status[r]]
      BY <1>7 DEF StageSignals
    <2>4. \A t : CloseRow(t, aborts) \notin OpenRows
      BY RowKinds DEF CloseRow
    <2>5. \A r \in OpenRows : Used(r)' => \/ Used(r)
                                          \/ r = OpenRow(r.lot, aborts) /\ Date(r) = day
      BY <2>3, <2>4, <1>a DEF Used, OpenRow, Date
    <2>6. \A r \in OpenRows : Used(r) => Date(r) # day
      BY <2>1, <2>2 DEF RowsInv, Submitting
    <2>7. \A r, t \in OpenRows : Used(r)' /\ Used(t)' /\ r.lot = t.lot => r = t
      BY <2>5, <2>6 DEF RowsInv, Date
    <2>8. QED
      BY <2>1, <2>7 DEF RowsInv
  <1>8. CASE CommitBatch
    <2>1. \A r \in OpenRows : Used(r)' => Used(r)
      BY <1>8, <1>a DEF CommitBatch, BatchInv, Batch, Submitting, Used
    <2>2. QED
      BY <2>1, <1>1, <1>8 DEF CommitBatch, clockVars, Submitting
  <1>9. CASE MarkExpired
    <2>1. \A r \in OpenRows : Used(r)' => Used(r)
      BY <1>9, <1>a DEF MarkExpired, Used
    <2>2. QED
      BY <2>1, <1>1, <1>9 DEF MarkExpired, clockVars
  <1>10. CASE RecordRun
    <2>1. last'.run = day
      BY <1>10, CalmSteps, EngineAssumption DEF RecordRun, TypeInv, TypeOK
    <2>2. QED
      BY <2>1, <1>1, <1>10 DEF RecordRun, Record, clockVars, Used
  <1>11. CASE ArmEnds \/ RefreshEnds
    <2>1. PICK field \in {"arm", "mark"} : Record(field)
      BY <1>11 DEF ArmEnds, RefreshEnds
    <2>2. last'.run = last.run
      BY <2>1, CalmSteps, EngineAssumption DEF TypeInv, TypeOK
    <2>3. pc \in {"arm", "refresh"} /\ UNCHANGED <<day, status>>
      BY <1>11 DEF ArmEnds, RefreshEnds, Record, clockVars
    <2>4. QED
      BY <2>2, <2>3, <1>1 DEF Used, Submitting
  <1>12. CASE ArmBegins
    BY <1>12, <1>1 DEF ArmBegins, clockVars, dbVars, Used, Submitting
  <1>13. ASSUME NEW r \in todo, CancelStop(r) \/ SubmitOrder(r) \/ ArmLot(r) \/ RefreshLot(r)
         PROVE  RowsInv'
    BY <1>13, <1>1 DEF CancelStop, SubmitOrder, ArmLot, RefreshLot, clockVars, dbVars, Used
  <1>14. CASE EngineStep
    BY <1>5, <1>6, <1>7, <1>8, <1>9, <1>10, <1>11, <1>12, <1>13, <1>14 DEF EngineStep
  <1>15. ASSUME UNCHANGED <<day, status, last, pc>> PROVE RowsInv'
    BY <1>15, <1>1 DEF Used
  <1>16. CASE SweepRaises
    BY <1>16, <1>1 DEF SweepRaises, Used, Submitting, clockVars, dbVars
  <1>17. QED
    BY <1>2, <1>3, <1>14, <1>15, <1>16, CalmSteps
       DEF Next, ClockStep, OpeningAuction, MarketCloses, StopFires, EndOfHorizon,
           clockVars, dbVars, engineVars, vars

-----------------------------------------------------------------------------
(* Stops *)

\* Staging leaves the OPEN_LONG rows that are in use alone.
LEMMA StagedRowsAreNew ==
    ASSUME TypeInv, RunInv, DatesRecorded, RowsInv, StageSignals,
           NEW r \in OpenRows, Used(r)
    PROVE  status'[r] = status[r]
  <1>1. last.run # day
    BY DEF StageSignals, RunInv, DatesRecorded, OpenRunSteps
  <1>2. Date(r) # day
    BY <1>1 DEF StageSignals, RowsInv, Submitting
  <1>3. PICK picks \in Picks :
           status' = [t \in Rows |-> IF t \in {CloseRow(c, aborts) : c \in closing}
                                            \cup {OpenRow(<<day, y>>, aborts) : y \in picks}
                                     THEN "PENDING_APPROVAL" ELSE status[t]]
    BY DEF StageSignals
  <1>4. \A c : CloseRow(c, aborts) # r
    BY RowKinds DEF CloseRow
  <1>5. \A y : OpenRow(<<day, y>>, aborts) # r
    BY <1>2 DEF OpenRow, Date
  <1>6. QED
    BY <1>3, <1>4, <1>5 DEF Rows

\* No step leaves a stop without its lot.
LEMMA OrphanStep ==
    Calm /\ TypeInv /\ RunInv /\ DatesRecorded /\ RowsInv /\ BatchInv /\ StopsInv
      /\ NoOrphanStops /\ [Next]_vars => NoOrphanStops'
  <1> SUFFICES ASSUME Calm, TypeInv, RunInv, DatesRecorded, RowsInv, BatchInv, StopsInv,
                      NoOrphanStops, [Next]_vars
               PROVE  NoOrphanStops'
    OBVIOUS
  <1>a. OpenRows \subseteq Rows
    BY DEF Rows
  <1>1. ASSUME stops' \subseteq stops,
               \A r \in OpenRows : status[r] = "PLACED" /\ r.lot \in stops => status'[r] = "PLACED"
        PROVE  NoOrphanStops'
    BY <1>1 DEF NoOrphanStops
  <1>2. ASSUME status' = Reconciled(TRUE), stops' = stops PROVE NoOrphanStops'
    BY <1>1, <1>2, <1>a DEF Reconciled, StopsInv, NoStopAfterFire
  <1>3. CASE OpenRunBegins
    BY <1>2, <1>3, CalmSteps DEF OpenRunBegins, brokerVars
  <1>4. CASE RefreshBegins
    BY <1>2, <1>4, CalmSteps DEF RefreshBegins, brokerVars
  <1>5. CASE StageSignals
    <2>1. stops' = stops
      BY <1>5 DEF StageSignals, brokerVars
    <2>2. QED
      BY <2>1, <1>1, <1>5, StagedRowsAreNew DEF Used
  <1>6. CASE CommitBatch
    <2>1. \A r \in OpenRows : status[r] = "PLACED" => status'[r] = "PLACED"
      BY <1>6, <1>a DEF CommitBatch, BatchInv, Batch, Submitting
    <2>2. QED
      BY <2>1, <1>1, <1>6 DEF CommitBatch, brokerVars
  <1>7. CASE MarkExpired
    <2>1. \A r \in OpenRows : status[r] = "PLACED" /\ r.lot \in stops => status'[r] = "PLACED"
      BY <1>7, <1>a DEF MarkExpired, StopsInv, OpenRunSteps
    <2>2. QED
      BY <2>1, <1>1, <1>7 DEF MarkExpired, brokerVars
  <1>8. ASSUME NEW r \in todo, ArmLot(r) \/ RefreshLot(r) PROVE NoOrphanStops'
    <2>1. r \in OpenRows /\ status[r] = "PLACED"
      BY <1>8 DEF ArmLot, RefreshLot, StopsInv, PlacedLots
    <2>2. status' = status /\ stops' \subseteq stops \cup {r.lot}
      BY <1>8 DEF ArmLot, RefreshLot, dbVars
    <2>3. QED
      BY <2>1, <2>2 DEF NoOrphanStops
  <1>9. ASSUME status' = status, stops' \subseteq stops PROVE NoOrphanStops'
    BY <1>1, <1>9
  <1>10. CASE EngineStep
    BY <1>3, <1>4, <1>5, <1>6, <1>7, <1>8, <1>9, <1>10
       DEF EngineStep, CancelStop, SubmitOrder, RecordRun, ArmBegins, ArmEnds, RefreshEnds,
           Record, dbVars, brokerVars
  <1>11. QED
    BY <1>9, <1>10
       DEF Next, Start, Shutdown, Crash, Halt, RunRaises, SweepRaises, ClockStep, OpeningAuction,
           MarketCloses, NextDay, StopFires, EndOfHorizon, dbVars, brokerVars, vars

\* Every step keeps the routines' knowledge of the stops.
LEMMA StopsStep ==
    Calm /\ TypeInv /\ DatesInv /\ AuctionInv /\ DatesRecorded /\ RowsInv /\ StopsInv
      /\ [Next]_vars => StopsInv'
  <1> SUFFICES ASSUME Calm, TypeInv, DatesInv, AuctionInv, DatesRecorded, RowsInv, StopsInv,
                      [Next]_vars
               PROVE  StopsInv'
    OBVIOUS
  <1> USE DEF StopsInv, NoStopAfterFire
  <1>a. /\ day \in Int
        /\ mem \in [run : 0..MaxDay, arm : 0..MaxDay, mark : 0..MaxDay]
        /\ OpenRows \subseteq Rows
        /\ \A l \in stops \cup fired : l \in Lots /\ l[1] \in Int
    BY DEF TypeInv, TypeOK, Lots, Days, Rows
  <1>1. ASSUME UNCHANGED <<day, stops, fired>>, pc # "arm" \/ last'.arm = day,
               last'.arm # day => last'.arm = last.arm,
               pc' \notin {"arm", "refresh"} \cup OpenRunSteps
        PROVE  StopsInv'
    BY <1>1 DEF OpenRunSteps
  <1>2. ASSUME UNCHANGED <<day, last, stops, fired, closing>>, pc \in OpenRunSteps,
               pc = "cancel" => todo = {}, pc' \in OpenRunSteps \ {"cancel"}
        PROVE  StopsInv'
    BY <1>2 DEF OpenRunSteps
  <1>3. CASE Start \/ Shutdown
    BY <1>1, <1>3, CalmSteps DEF Start, Halt, OpenRunSteps, clockVars, dbVars, brokerVars
  <1>4. CASE OpenRunBegins
    BY <1>4 DEF OpenRunBegins, OpenRunSteps, clockVars, brokerVars
  <1>5. ASSUME NEW r \in todo, CancelStop(r) PROVE StopsInv'
    <2>1. /\ pc = "cancel" /\ pc' = "cancel" /\ stops' = stops \ {r.lot} /\ todo' = todo \ {r}
          /\ UNCHANGED <<day, last, fired, closing>>
      <3>1. PICK ok \in Succeeds("cancel") : stops' = IF ok THEN stops \ {r.lot} ELSE stops
        BY <1>5 DEF CancelStop
      <3>2. ok = TRUE
        BY <3>1, CalmSteps
      <3>3. QED
        BY <1>5, <3>1, <3>2 DEF CancelStop, clockVars, dbVars
    <2>2. QED
      BY <2>1 DEF OpenRunSteps
  <1>6. CASE StageSignals
    BY <1>1, <1>2, <1>6 DEF StageSignals, OpenRunSteps, clockVars, brokerVars
  <1>7. ASSUME NEW r \in todo, SubmitOrder(r) PROVE StopsInv'
    BY <1>2, <1>7 DEF SubmitOrder, OpenRunSteps, clockVars, dbVars
  <1>8. CASE CommitBatch
    BY <1>2, <1>8 DEF CommitBatch, OpenRunSteps, clockVars, brokerVars
  <1>9. CASE MarkExpired
    BY <1>1, <1>9 DEF MarkExpired, OpenRunSteps, clockVars, brokerVars
  <1>10. ASSUME NEW field \in {"run", "arm", "mark"}, Record(field), pc = "arm" => field = "arm"
         PROVE  StopsInv'
    <2>1. last'.arm = IF field = "arm" THEN day ELSE last.arm
      <3>1. last \in [run : 0..MaxDay, arm : 0..MaxDay, mark : 0..MaxDay]
        BY DEF TypeInv, TypeOK
      <3>2. last' = [last EXCEPT ![field] = day]
        BY <1>10, CalmSteps
      <3>3. QED
        BY <3>1, <3>2, DateNoted
    <2>2. UNCHANGED <<day, stops, fired>> /\ pc' = "idle"
      BY <1>10 DEF Record, clockVars, brokerVars
    <2>3. QED
      BY <2>1, <2>2, <1>1, <1>10 DEF OpenRunSteps
  <1>11. CASE RecordRun \/ ArmEnds \/ RefreshEnds
    BY <1>10, <1>11 DEF RecordRun, ArmEnds, RefreshEnds
  <1>12. CASE ArmBegins
    <2>1. last.arm # day /\ pc = "idle"
      BY <1>12 DEF ArmBegins, DatesRecorded
    <2>2. \A l \in stops \cup fired : l[1] # day
      BY <2>1
    <2>3. \A r \in todo' : r \in PlacedLots(status) /\ Date(r) = day /\ r.lot \notin stops \cup fired
      BY <2>2, <1>12 DEF ArmBegins, LotsToArm, Date
    <2>4. QED
      BY <2>1, <2>2, <2>3, <1>12 DEF ArmBegins, OpenRunSteps, clockVars, dbVars, brokerVars
  <1>13. ASSUME NEW r \in todo, ArmLot(r) PROVE StopsInv'
    <2>1. /\ pc = "arm" /\ pc' = "arm" /\ todo' = todo \ {r}
          /\ stops' \subseteq stops \cup {r.lot}
          /\ UNCHANGED <<day, phase, status, last, fired>>
      BY <1>13 DEF ArmLot, clockVars, dbVars
    <2>2. r \in PlacedLots(status) /\ r.lot \notin fired /\ Date(r) = day
      BY <2>1
    <2>3. \A t \in todo' : t.lot # r.lot
      BY <2>1, <2>2 DEF RowsInv, PlacedLots, Used
    <2>4. LotsToArm' = LotsToArm /\ r \in LotsToArm \ todo'
      BY <2>1, <2>2 DEF LotsToArm, PlacedLots
    <2>5. \A l \in stops' \cup fired' : l[1] = day => \E t \in LotsToArm \ todo' : t.lot = l
      BY <2>1, <2>4
    <2>6. QED
      BY <2>1, <2>2, <2>3, <2>4, <2>5 DEF OpenRunSteps
  <1>14. CASE RefreshBegins
    <2>1. /\ pc = "idle" /\ phase = "post" /\ last.arm = day
          /\ UNCHANGED <<day, phase, last, stops, fired>> /\ pc' = "refresh"
      BY <1>14 DEF RefreshBegins, RefreshGate, DatesRecorded, AuctionInv, TypeInv, TypeOK,
                   clockVars, brokerVars
    <2>2. /\ status' = Reconciled(TRUE)
          /\ todo' \subseteq PlacedLots(status')
      BY <1>14, CalmSteps DEF RefreshBegins, LotsToRefresh
    <2>3. \A r \in PlacedLots(status') : r.lot \notin fired
      BY <2>2, <1>a DEF PlacedLots, Reconciled
    <2>4. QED
      BY <2>1, <2>2, <2>3 DEF OpenRunSteps
  <1>15. ASSUME NEW r \in todo, RefreshLot(r) PROVE StopsInv'
    <2>1. /\ pc = "refresh" /\ pc' = "refresh" /\ todo' = todo \ {r}
          /\ stops' \subseteq stops \cup {r.lot}
          /\ UNCHANGED <<day, phase, status, last, fired>>
      BY <1>15 DEF RefreshLot, clockVars, dbVars
    <2>2. QED
      BY <2>1 DEF OpenRunSteps
  <1>16. CASE EngineStep
    BY <1>4, <1>5, <1>6, <1>7, <1>8, <1>9, <1>11, <1>12, <1>13, <1>14, <1>15, <1>16 DEF EngineStep
  <1>17. CASE OpeningAuction \/ MarketCloses
    BY <1>1, <1>17 DEF OpeningAuction, MarketCloses, Quiet, OpenRunSteps, dbVars, brokerVars, engineVars
  <1>18. CASE NextDay
    <2>1. /\ day' = day + 1 /\ UNCHANGED <<last, stops, fired, pc>> /\ pc \in {"idle", "down"}
      BY <1>18 DEF NextDay, Quiet, dbVars, brokerVars, engineVars
    <2>2. \A l \in stops \cup fired : l[1] <= day
      BY DEF DatesInv
    <2>3. QED
      BY <2>1, <2>2, <1>a DEF OpenRunSteps
  <1>19. ASSUME NEW l \in stops, StopFires(l) PROVE StopsInv'
    <2>1. /\ stops' = stops \ {l} /\ fired' = fired \cup {l} /\ pc # "refresh"
          /\ UNCHANGED <<day, phase, status, last, pc, todo, closing>>
      BY <1>19 DEF StopFires, clockVars, dbVars, engineVars
    <2>2. l[1] <= day /\ stops' \cup fired' = stops \cup fired
      BY <2>1 DEF DatesInv
    <2>3. LotsToArm' = LotsToArm
      BY <2>1 DEF LotsToArm, PlacedLots
    <2>4. QED
      BY <2>1, <2>2, <2>3
  <1>22. CASE SweepRaises
    <2>1. /\ UNCHANGED <<day, phase, status, last, stops, fired, closing>>
          /\ pc' = "idle" /\ todo' = {}
          /\ pc = "arm" => todo = LotsToArm
      BY <1>22 DEF SweepRaises, clockVars, dbVars, brokerVars
    <2>2. pc = "arm" => \A l \in stops \cup fired : l[1] # day
      BY <2>1
    <2>3. QED
      BY <2>1, <2>2 DEF OpenRunSteps
  <1>20. CASE UNCHANGED vars
    <2>1. LotsToArm' = LotsToArm
      BY <1>20 DEF vars, LotsToArm, PlacedLots
    <2>2. QED
      BY <2>1, <1>20 DEF vars
  <1>21. QED
    BY <1>3, <1>16, <1>17, <1>18, <1>19, <1>20, <1>22, CalmSteps DEF Next, ClockStep, EndOfHorizon

\* What all of the above rests on.
CalmInv == /\ TypeInv /\ RunInv /\ DatesInv /\ AuctionInv
           /\ DatesRecorded /\ RowsInv /\ BatchInv /\ StopsInv /\ NoOrphanStops

\* The daemon starts calmly.
LEMMA CalmInit == Init => CalmInv
  <1> SUFFICES ASSUME Init PROVE CalmInv
    OBVIOUS
  <1>1. RunInv /\ AuctionInv
    BY DEF Init, RunInv, AuctionInv, NoDates, OpenRunSteps
  <1>2. DatesInv
    BY DEF Init, DatesInv, InUse
  <1>3. DatesRecorded /\ BatchInv /\ NoOrphanStops
    BY DEF Init, DatesRecorded, BatchInv, NoOrphanStops, Submitting
  <1>4. RowsInv
    BY DEF Init, RowsInv, Used, Rows
  <1>5. StopsInv
    BY DEF Init, StopsInv, NoStopAfterFire, OpenRunSteps
  <1>6. QED
    BY <1>1, <1>2, <1>3, <1>4, <1>5, TypeInit DEF CalmInv

\* While routines run to their end, the conjunction is inductive.
LEMMA CalmStep == ASSUME Calm PROVE CalmInv /\ [Next]_vars => CalmInv'
  BY TypeStep, RunStep, DatesStep, AuctionStep, DatesRecordedStep, RowsStep, BatchStep,
     StopsStep, OrphanStep
     DEF CalmInv, TypeInv

\* While routines run to their end: a working stop guards a lot that is still
\* PLACED, so no stop outlives its lot and sells shares of another one.
THEOREM NoOrphanStopsHolds == ASSUME Calm PROVE Spec => []NoOrphanStops
  <1>1. CalmInv => NoOrphanStops
    BY DEF CalmInv
  <1>2. QED
    BY <1>1, CalmInit, CalmStep, PTL DEF Spec

-----------------------------------------------------------------------------
(* Sales *)

\* The open run closes lots that are held, no stop has sold, and whose day it is.
ClosingInv ==
    pc \in OpenRunSteps =>
        /\ phase = "pre"
        /\ \A r \in closing : /\ r \in PlacedLots(status) /\ r.lot \notin fired
                               /\ Date(r) + HoldingDays = day

\* A lot that has a CLOSE_LONG row is out of reach of every other sale: it has
\* no stop, and it is not PLACED any more, except to the run that closes it.
InClosing(l) == pc \in OpenRunSteps \ {"cancel"} /\ \E r \in closing : r.lot = l

SoldInv ==
    /\ \A r \in Rows : order[r] # "none" => Used(r)
    /\ pc = "submit_open" => \A r \in Batch : r \in OpenRows /\ Date(r) = day
    /\ \A c, d \in CloseRows : Used(c) /\ Used(d) /\ c.lot = d.lot => c = d
    /\ \A c \in CloseRows : Used(c) =>
          /\ Date(c) + HoldingDays <= day
          /\ c.lot \notin stops \cup fired
          /\ InClosing(c.lot) \/ \A r \in PlacedLots(status) : r.lot # c.lot

TradeInv == CalmInv /\ ClosingInv /\ SoldInv

\* Every step keeps what is known of the lots being closed.
LEMMA ClosingStep == Calm /\ TradeInv /\ [Next]_vars => ClosingInv'
  <1> SUFFICES ASSUME Calm, TradeInv, [Next]_vars
               PROVE  ClosingInv'
    OBVIOUS
  <1> USE DEF TradeInv, CalmInv, ClosingInv
  <1>1. CASE pc' \notin OpenRunSteps
    BY <1>1
  <1>2. CASE OpenRunBegins
    <2>1. status' = Reconciled(TRUE) /\ closing' \subseteq PlacedLots(status')
      BY <1>2, CalmSteps DEF OpenRunBegins
    <2>2. \A r \in PlacedLots(status') : r.lot \notin fired
      BY <2>1 DEF PlacedLots, Reconciled, Rows
    <2>3. phase' = "pre" /\ fired' = fired
      BY <1>2 DEF OpenRunBegins, OpenRunGate, clockVars, brokerVars
    <2>4. \A r \in closing' : Date(r) + HoldingDays = day'
      <3>1. day' = day /\ \A r \in closing' : r \in OpenRows /\ Date(r) = day - HoldingDays
        BY <1>2 DEF OpenRunBegins, ExpiryDate, PlacedLots, clockVars
      <3>2. \A r \in OpenRows : Date(r) \in Int
        BY RowKinds DEF Date, Lots, Days
      <3>3. day \in Int /\ HoldingDays \in Int
        BY EngineAssumption DEF TypeInv, TypeOK, Days
      <3>4. QED
        BY <3>1, <3>2, <3>3
    <2>5. QED
      BY <2>1, <2>2, <2>3, <2>4
  <1>3. ASSUME pc \in OpenRunSteps, UNCHANGED <<day, phase, fired>>, closing' = closing,
               \A r \in closing : status[r] = "PLACED" => status'[r] = "PLACED"
        PROVE  ClosingInv'
    BY <1>3 DEF PlacedLots
  <1>4. CASE StageSignals
    <2>1. \A r \in closing : status[r] = "PLACED" => status'[r] = "PLACED"
      BY <1>4, StagedRowsAreNew DEF PlacedLots, Used, StageSignals, OpenRunSteps
    <2>2. QED
      BY <2>1, <1>3, <1>4 DEF StageSignals, OpenRunSteps, clockVars, brokerVars
  <1>5. CASE CommitBatch
    <2>1. \A r \in closing : status[r] = "PLACED" => status'[r] = "PLACED"
      BY <1>5 DEF CommitBatch, BatchInv, Batch, Submitting, TypeInv, TypeOK, Rows
    <2>2. QED
      BY <2>1, <1>3, <1>5 DEF CommitBatch, OpenRunSteps, clockVars, brokerVars
  <1>6. ASSUME NEW r \in todo, CancelStop(r) \/ SubmitOrder(r) PROVE ClosingInv'
    BY <1>6, <1>3 DEF CancelStop, SubmitOrder, OpenRunSteps, clockVars, dbVars
  <1>7. CASE EngineStep
    <2>1. ASSUME NEW r \in todo, ArmLot(r) \/ RefreshLot(r) PROVE pc' \notin OpenRunSteps
      BY <2>1 DEF ArmLot, RefreshLot, OpenRunSteps
    <2>2. ASSUME MarkExpired \/ RecordRun \/ ArmBegins \/ ArmEnds \/ RefreshBegins \/ RefreshEnds
          PROVE  pc' \notin OpenRunSteps
      BY <2>2 DEF MarkExpired, RecordRun, ArmBegins, ArmEnds, RefreshBegins, RefreshEnds, Record,
                  OpenRunSteps
    <2>3. QED
      BY <1>1, <1>2, <1>4, <1>5, <1>6, <1>7, <2>1, <2>2 DEF EngineStep
  <1>8. ASSUME NEW l \in stops, StopFires(l) PROVE pc' \notin OpenRunSteps
    BY <1>8 DEF StopFires, engineVars
  <1>9. CASE Start \/ Shutdown \/ ClockStep
    BY <1>1, <1>9 DEF Start, Shutdown, Halt, ClockStep, OpeningAuction, MarketCloses, NextDay,
                      Quiet, OpenRunSteps, engineVars
  <1>10. CASE UNCHANGED vars
    BY <1>10 DEF vars
  <1>11. CASE SweepRaises
    BY <1>1, <1>11 DEF SweepRaises, OpenRunSteps
  <1>12. QED
    BY <1>1, <1>7, <1>8, <1>9, <1>10, <1>11, CalmSteps DEF Next, EndOfHorizon

\* Every step keeps a lot's sales apart.
LEMMA SoldStep == Calm /\ TradeInv /\ [Next]_vars => SoldInv'
  <1> SUFFICES ASSUME Calm, TradeInv, [Next]_vars
               PROVE  SoldInv'
    OBVIOUS
  <1> USE DEF TradeInv, CalmInv
  <1>a. /\ day \in Int /\ HoldingDays \in Nat \ {0}
        /\ status \in [Rows -> RowStatus]
        /\ OpenRows \subseteq Rows /\ CloseRows \subseteq Rows
        /\ \A r \in Rows : r.lot \in Lots /\ Date(r) \in Int
        /\ todo \subseteq Rows /\ txnPlaced \subseteq Rows /\ txnRejected \subseteq Rows
        /\ closing \subseteq OpenRows
    <2>1. \A l \in Lots : l[1] \in Int
      BY DEF Lots, Days
    <2>2. QED
      BY <2>1, RowKinds, EngineAssumption DEF TypeInv, TypeOK, Days, Rows, Date
  \* A step that brings no row into use, and no lot back.
  <1>1. ASSUME day' = day,
               \A r \in Rows : order'[r] # "none" => order[r] # "none" \/ Used(r),
               \A r \in Rows : Used(r)' <=> Used(r),
               \A r \in PlacedLots(status)' : r \in PlacedLots(status) \/ Date(r) = day,
               pc' = "submit_open" => \A r \in Batch' : r \in OpenRows /\ Date(r) = day,
               \A l \in stops' \cup fired' : \/ l \in stops \cup fired \/ l[1] = day
                                             \/ ~InClosing(l) /\ \E r \in PlacedLots(status) : r.lot = l,
               \A l : InClosing(l) => \/ InClosing(l)'
                                      \/ \A r \in PlacedLots(status)' : r.lot # l
        PROVE  SoldInv'
    <2>1. ASSUME NEW c \in CloseRows, Used(c)'
          PROVE  /\ Date(c) + HoldingDays <= day'
                 /\ c.lot \notin (stops \cup fired)'
                 /\ InClosing(c.lot)' \/ \A r \in PlacedLots(status)' : r.lot # c.lot
      <3>1. /\ Used(c) /\ Date(c) + HoldingDays <= day /\ c.lot \notin stops \cup fired
            /\ InClosing(c.lot) \/ \A r \in PlacedLots(status) : r.lot # c.lot
        BY <1>1, <1>a, <2>1 DEF SoldInv
      <3>2. Date(c) # day
        BY <3>1, <1>a
      <3>3. c.lot \notin stops' \cup fired'
        BY <3>1, <3>2, <1>1 DEF Date
      <3>4. QED
        BY <3>1, <3>2, <3>3, <1>1 DEF Date
    <2>2. \A r \in Rows : order'[r] # "none" => Used(r)'
      BY <1>1 DEF SoldInv
    <2>3. \A c, d \in CloseRows : Used(c)' /\ Used(d)' /\ c.lot = d.lot => c = d
      BY <1>1, <1>a DEF SoldInv
    <2>4. QED
      BY <2>1, <2>2, <2>3, <1>1 DEF SoldInv
  <1>2. ASSUME UNCHANGED <<day, status, order, stops, fired>>, pc \notin OpenRunSteps,
               pc' # "submit_open"
        PROVE  SoldInv'
    <2>1. \A l : ~InClosing(l)
      BY <1>2 DEF InClosing
    <2>2. QED
      BY <2>1, <1>1, <1>2 DEF Used
  <1>3. ASSUME status' = Reconciled(TRUE), UNCHANGED <<day, order, stops, fired>>, pc = "idle",
               pc' # "submit_open"
        PROVE  SoldInv'
    <2>1. /\ \A r \in Rows : Used(r)' <=> Used(r)
          /\ \A r \in PlacedLots(status)' : r \in PlacedLots(status)
      BY <1>3, <1>a DEF Reconciled, Used, PlacedLots
    <2>2. \A l : ~InClosing(l)
      BY <1>3 DEF InClosing, OpenRunSteps
    <2>3. QED
      BY <2>1, <2>2, <1>1, <1>3
  <1>4. CASE OpenRunBegins
    BY <1>3, <1>4, CalmSteps DEF OpenRunBegins, clockVars, brokerVars
  <1>5. CASE RefreshBegins
    BY <1>3, <1>5, CalmSteps DEF RefreshBegins, clockVars, brokerVars
  <1>6. ASSUME NEW r \in todo, CancelStop(r) PROVE SoldInv'
    <2>1. /\ pc = "cancel" /\ pc' = "cancel" /\ stops' \subseteq stops
          /\ UNCHANGED <<day, status, order, fired>>
      BY <1>6 DEF CancelStop, clockVars, dbVars
    <2>2. \A l : ~InClosing(l)
      BY <2>1 DEF InClosing
    <2>3. QED
      BY <2>1, <2>2, <1>1 DEF Used
  <1>7. CASE StageSignals
    <2>0. /\ pc = "cancel" /\ todo = {} /\ aborts \in RunNumbers
          /\ UNCHANGED <<day, order, stops, fired, closing>>
          /\ pc' # "submit_open"
      BY <1>7 DEF StageSignals, clockVars, brokerVars, TypeInv, TypeOK
    <2>1. PICK picks \in Picks :
             /\ status' = [r \in Rows |-> IF r \in {CloseRow(t, aborts) : t \in closing}
                                                  \cup {OpenRow(<<day, y>>, aborts) : y \in picks}
                                          THEN "PENDING_APPROVAL" ELSE status[r]]
             /\ pc' = IF picks = {} /\ closing = {} THEN "record" ELSE "submit_close"
      BY <1>7 DEF StageSignals
    <2>2. \A r \in Rows : Used(r) => Used(r)'
      BY <2>1 DEF Used
    <2>3. \A r \in PlacedLots(status)' : r \in PlacedLots(status)
      BY <2>1, <1>a DEF PlacedLots
    <2>4. \A y : OpenRow(<<day, y>>, aborts) \notin CloseRows
      BY RowKinds DEF OpenRow
    <2>5. \A c \in CloseRows : Used(c)' => Used(c) \/ \E t \in closing : c = CloseRow(t, aborts)
      BY <2>1, <2>4, <1>a DEF Used
    <2>6. \A c \in CloseRows : Used(c) => \A r \in PlacedLots(status) : r.lot # c.lot
      BY <2>0 DEF SoldInv, InClosing
    <2>7. \A t \in closing : /\ t \in PlacedLots(status) /\ t.lot \notin stops \cup fired
                             /\ CloseRow(t, aborts).lot = t.lot
      BY <2>0 DEF ClosingInv, StopsInv, OpenRunSteps, CloseRow
    <2>8. \A t, u \in closing : t.lot = u.lot => t = u
      BY <2>7 DEF RowsInv, PlacedLots, Used
    <2>9. \A c, d \in CloseRows : Used(c)' /\ Used(d)' /\ c.lot = d.lot => c = d
      BY <2>5, <2>6, <2>7, <2>8 DEF SoldInv
    <2>10. ASSUME NEW c \in CloseRows, Used(c)', ~Used(c)
           PROVE  /\ Date(c) + HoldingDays <= day
                  /\ c.lot \notin stops \cup fired
                  /\ InClosing(c.lot)'
      <3>1. PICK t \in closing : c = CloseRow(t, aborts)
        BY <2>5, <2>10
      <3>2. Date(c) + HoldingDays <= day
        BY <3>1, <2>0, <2>7, <1>a DEF ClosingInv, Date, OpenRunSteps
      <3>3. QED
        BY <3>1, <3>2, <2>0, <2>1, <2>7 DEF InClosing, OpenRunSteps
    <2>11. \A c \in CloseRows : Used(c)' =>
              /\ Date(c) + HoldingDays <= day'
              /\ c.lot \notin (stops \cup fired)'
              /\ InClosing(c.lot)' \/ \A r \in PlacedLots(status)' : r.lot # c.lot
      BY <2>0, <2>3, <2>6, <2>10 DEF SoldInv
    <2>12. \A r \in Rows : order'[r] # "none" => Used(r)'
      BY <2>0, <2>2 DEF SoldInv
    <2>13. QED
      BY <2>0, <2>9, <2>11, <2>12 DEF SoldInv
  <1>8. ASSUME NEW r \in todo, SubmitOrder(r) PROVE SoldInv'
    <2>1. /\ pc \in Submitting /\ pc' = pc /\ closing' = closing
          /\ UNCHANGED <<day, status, stops, fired>>
          /\ Batch' = Batch
          /\ \A q \in Rows : order'[q] # "none" => order[q] # "none" \/ q = r
      BY <1>8, <1>a DEF SubmitOrder, SubmitAccepted, SubmitRefused, SubmitTimesOut, Batch,
                        Submitting, clockVars, dbVars, TypeInv, TypeOK
    <2>2. Used(r)
      BY <2>1 DEF BatchInv, Batch, Used
    <2>3. pc' = "submit_open" => \A q \in Batch' : q \in OpenRows /\ Date(q) = day
      BY <2>1 DEF SoldInv
    <2>4. \A l : InClosing(l) => InClosing(l)'
      BY <2>1 DEF InClosing
    <2>5. QED
      BY <2>1, <2>2, <2>3, <2>4, <1>1 DEF Used
  <1>9. CASE CommitBatch
    <2>1. /\ pc \in Submitting /\ pc' \in {"submit_open", "expire"} /\ closing' = closing
          /\ txnPlaced' = {} /\ txnRejected' = {}
          /\ UNCHANGED <<day, order, stops, fired>>
      BY <1>9 DEF CommitBatch, Submitting, clockVars, brokerVars
    <2>2. \A r \in Rows : Used(r)' <=> Used(r)
      BY <1>9, <2>1 DEF CommitBatch, BatchInv, Batch, Used
    <2>3. \A r \in PlacedLots(status)' : r \in PlacedLots(status) \/ Date(r) = day
      <3>1. \A r \in OpenRows : r \in txnPlaced => Date(r) = day
        BY <2>1, RowKinds DEF BatchInv, Batch, SoldInv, Submitting
      <3>2. QED
        BY <1>9, <3>1, <1>a DEF CommitBatch, PlacedLots
    <2>4. pc' = "submit_open" => \A r \in Batch' : r \in OpenRows /\ Date(r) = day
      BY <1>9, <2>1 DEF CommitBatch, Batch
    <2>5. \A l : InClosing(l) => InClosing(l)'
      BY <2>1 DEF InClosing, OpenRunSteps, Submitting
    <2>6. QED
      BY <2>1, <2>2, <2>3, <2>4, <2>5, <1>1
  <1>10. CASE MarkExpired
    <2>1. /\ pc = "expire" /\ pc' = "record"
          /\ UNCHANGED <<day, order, stops, fired>>
      BY <1>10 DEF MarkExpired, clockVars, brokerVars
    <2>2. /\ \A r \in Rows : Used(r)' <=> Used(r)
          /\ \A r \in PlacedLots(status)' : r \in PlacedLots(status)
          /\ \A r \in PlacedLots(status)' : \A t \in closing : r.lot # t.lot
      BY <1>10, <1>a DEF MarkExpired, Used, PlacedLots
    <2>3. \A l : InClosing(l) => \A r \in PlacedLots(status)' : r.lot # l
      BY <2>2 DEF InClosing
    <2>4. QED
      BY <2>1, <2>2, <2>3, <1>1
  <1>11. CASE RecordRun \/ ArmBegins \/ ArmEnds \/ RefreshEnds
    BY <1>2, <1>11 DEF RecordRun, ArmBegins, ArmEnds, RefreshEnds, Record, OpenRunSteps,
                       clockVars, dbVars, brokerVars
  <1>12. ASSUME NEW r \in todo, ArmLot(r) \/ RefreshLot(r) PROVE SoldInv'
    <2>1. /\ pc \in {"arm", "refresh"} /\ pc' = pc
          /\ stops' \subseteq stops \cup {r.lot}
          /\ UNCHANGED <<day, status, order, fired>>
      BY <1>12 DEF ArmLot, RefreshLot, clockVars, dbVars
    <2>2. r \in PlacedLots(status)
      BY <2>1 DEF StopsInv
    <2>3. \A l : ~InClosing(l)
      BY <2>1 DEF InClosing, OpenRunSteps
    <2>4. QED
      BY <2>1, <2>2, <2>3, <1>1 DEF Used
  <1>13. CASE EngineStep
    BY <1>4, <1>5, <1>6, <1>7, <1>8, <1>9, <1>10, <1>11, <1>12, <1>13 DEF EngineStep
  <1>14. CASE Start \/ Shutdown \/ MarketCloses
    BY <1>2, <1>14, CalmSteps
       DEF Start, Halt, MarketCloses, Quiet, OpenRunSteps, clockVars, dbVars, brokerVars, engineVars
  <1>15. CASE OpeningAuction
    <2>1. /\ pc \notin OpenRunSteps /\ pc' = pc
          /\ UNCHANGED <<day, status, stops, fired>>
      BY <1>15 DEF OpeningAuction, Quiet, OpenRunSteps, dbVars, engineVars
    <2>2. \A r \in Rows : order'[r] # "none" => order[r] # "none"
      BY <1>15 DEF OpeningAuction
    <2>3. \A l : ~InClosing(l)
      BY <2>1 DEF InClosing
    <2>4. QED
      BY <2>1, <2>2, <2>3, <1>1 DEF Used, OpenRunSteps
  <1>16. CASE NextDay
    <2>1. /\ day' = day + 1 /\ pc' = pc /\ pc \notin OpenRunSteps
          /\ UNCHANGED <<status, order, stops, fired>>
      BY <1>16 DEF NextDay, Quiet, OpenRunSteps, dbVars, brokerVars, engineVars
    <2>2. \A c \in CloseRows : Used(c) =>
             /\ Date(c) + HoldingDays <= day'
             /\ c.lot \notin stops \cup fired
             /\ \A r \in PlacedLots(status) : r.lot # c.lot
      BY <2>1, <1>a DEF SoldInv, InClosing
    <2>3. QED
      BY <2>1, <2>2 DEF SoldInv, Used, PlacedLots, OpenRunSteps
  <1>17. ASSUME NEW l \in stops, StopFires(l) PROVE SoldInv'
    <2>1. /\ stops' = stops \ {l} /\ fired' = fired \cup {l} /\ phase = "open"
          /\ UNCHANGED <<day, status, order, pc, closing, todo, txnPlaced, txnRejected>>
      BY <1>17 DEF StopFires, clockVars, dbVars, engineVars
    <2>2. pc \notin OpenRunSteps
      BY <2>1 DEF ClosingInv
    <2>3. \A k : ~InClosing(k)
      BY <2>2 DEF InClosing
    <2>4. QED
      BY <2>1, <2>2, <2>3, <1>1 DEF Used, OpenRunSteps
  <1>18. CASE UNCHANGED vars
    BY <1>18 DEF vars, SoldInv, Used, Batch, InClosing, PlacedLots
  <1>19. CASE SweepRaises
    BY <1>19, <1>1
       DEF SweepRaises, Used, InClosing, PlacedLots, OpenRunSteps, clockVars, dbVars, brokerVars
  <1>20. QED
    BY <1>13, <1>14, <1>15, <1>16, <1>17, <1>18, <1>19, CalmSteps DEF Next, ClockStep, EndOfHorizon

\* Calmly started, the daemon has sold nothing and owes nothing.
LEMMA TradeInit == Init => TradeInv
  <1> SUFFICES ASSUME Init PROVE ClosingInv /\ SoldInv
    BY CalmInit DEF TradeInv
  <1>1. ClosingInv
    BY DEF Init, ClosingInv, OpenRunSteps
  <1>2. SoldInv
    BY DEF Init, SoldInv, Used, Rows
  <1>3. QED
    BY <1>1, <1>2

\* While routines run to their end, everything known of sales is inductive.
LEMMA TradeStep == ASSUME Calm PROVE TradeInv /\ [Next]_vars => TradeInv'
  BY CalmStep, ClosingStep, SoldStep DEF TradeInv

\* A set without two different elements has at most one.
LEMMA AtMostOne ==
    ASSUME NEW S, \A x, y \in S : x = y
    PROVE  Cardinality(S) \in {0, 1} /\ (S = {} => Cardinality(S) = 0)
  <1>1. CASE S = {}
    BY <1>1, FS_EmptySet
  <1>2. CASE S # {}
    <2>1. PICK x \in S : TRUE
      BY <1>2
    <2>2. S = {x}
      BY <2>1
    <2>3. QED
      BY <1>2, <2>2, FS_Singleton
  <1>3. QED
    BY <1>1, <1>2

\* While routines run to their end: a lot is bought by one order at most, and
\* at most one of its stop and its CLOSE_LONG orders sells it.
THEOREM EachLotTradedOnceHolds == ASSUME Calm PROVE Spec => []EachLotTradedOnce
  <1>3. TradeInv => EachLotTradedOnce
    <2> SUFFICES ASSUME TradeInv, NEW l \in Lots
                 PROVE  /\ Cardinality(Bought(l)) <= 1
                        /\ Cardinality(SoldBy(l)) + (IF l \in fired THEN 1 ELSE 0) <= 1
      BY DEF EachLotTradedOnce
    <2>1. \A r, s \in Bought(l) : r = s
      BY DEF Bought, TradeInv, CalmInv, RowsInv, SoldInv, Rows
    <2>2. \A c, d \in SoldBy(l) : c = d
      BY DEF SoldBy, TradeInv, SoldInv, Rows
    <2>3. l \in fired => SoldBy(l) = {}
      BY DEF SoldBy, TradeInv, SoldInv, Rows
    <2>4. Cardinality(Bought(l)) \in {0, 1}
      BY <2>1, AtMostOne
    <2>5. Cardinality(SoldBy(l)) \in {0, 1} /\ (l \in fired => Cardinality(SoldBy(l)) = 0)
      BY <2>2, <2>3, AtMostOne
    <2>6. QED
      BY <2>4, <2>5
  <1>4. QED
    BY <1>3, TradeInit, TradeStep, PTL DEF Spec

-----------------------------------------------------------------------------
(* No lot is overdue *)

\* Calm, and no window is missed and the calendar answers.
Punctual == Calm /\ Faults \cap {"missed", "calendar"} = {}

\* The market opens on a day whose run is recorded.  A managed lot is not older
\* than HoldingDays, and is that old only until the run of the day has closed it.
DueInv ==
    /\ phase # "pre" => last.run = day
    /\ \A r \in PlacedLots(status) : r.lot \notin fired =>
          /\ Date(r) + HoldingDays >= day
          /\ Date(r) + HoldingDays = day =>
                /\ last.run # day /\ pc # "record"
                /\ pc \in OpenRunSteps => r \in closing

\* A process that is down remembers nothing, today's run neither.
DownForgets == pc = "down" => mem = NoDates

\* Every step that ends the process forgets, and none but Start remembers.
LEMMA DownStep == DownForgets /\ [Next]_vars => DownForgets'
  <1> SUFFICES ASSUME DownForgets, [Next]_vars
               PROVE  DownForgets'
    OBVIOUS
  <1>1. ASSUME pc' # "down" \/ mem' = NoDates \/ UNCHANGED <<pc, mem>> PROVE DownForgets'
    BY <1>1 DEF DownForgets
  <1>2. CASE StageSignals
    BY <1>1, <1>2 DEF StageSignals
  <1>3. CASE CommitBatch
    BY <1>1, <1>3 DEF CommitBatch
  <1>4. ASSUME NEW r \in todo, CancelStop(r) \/ SubmitOrder(r) \/ ArmLot(r) \/ RefreshLot(r)
        PROVE  DownForgets'
    BY <1>1, <1>4 DEF CancelStop, SubmitOrder, ArmLot, RefreshLot
  <1>5. CASE EngineStep
    BY <1>1, <1>2, <1>3, <1>4, <1>5
       DEF EngineStep, OpenRunBegins, MarkExpired, RecordRun, ArmBegins, ArmEnds,
           RefreshBegins, RefreshEnds, Record
  <1>6. QED
    BY <1>1, <1>5
       DEF Next, Start, Shutdown, Crash, Halt, RunRaises, SweepRaises, ClockStep, OpeningAuction,
           MarketCloses, NextDay, StopFires, EndOfHorizon, engineVars, vars

\* No step lets a lot grow too old.
LEMMA DueStep == Punctual /\ TradeInv /\ DownForgets /\ DueInv /\ [Next]_vars => DueInv'
  <1> SUFFICES ASSUME Punctual, TradeInv, DownForgets, DueInv, [Next]_vars
               PROVE  DueInv'
    OBVIOUS
  <1> USE DEF TradeInv, CalmInv
  <1>a. /\ Calm /\ day \in Int /\ HoldingDays \in Nat \ {0}
        /\ last \in [run : 0..MaxDay, arm : 0..MaxDay, mark : 0..MaxDay]
        /\ OpenRows \subseteq Rows
        /\ \A r \in OpenRows : Date(r) \in Int
    <2>1. \A r \in OpenRows : r.lot[1] \in Int
      BY RowKinds DEF Lots, Days
    <2>2. QED
      BY <2>1, EngineAssumption DEF Punctual, TypeInv, TypeOK, Days, Rows, Date
  <1>1. ASSUME UNCHANGED <<day, phase>>, fired \subseteq fired', last'.run = last.run,
               PlacedLots(status)' \subseteq PlacedLots(status),
               pc' \notin OpenRunSteps \cup {"record"}
        PROVE  DueInv'
    BY <1>1 DEF DueInv
  <1>2. ASSUME UNCHANGED <<day, phase, last, fired, closing>>, pc \in OpenRunSteps,
               pc' \in OpenRunSteps,
               \A r \in PlacedLots(status)' : r \in PlacedLots(status) \/ Date(r) = day
        PROVE  DueInv'
    BY <1>2, <1>a DEF DueInv, OpenRunSteps
  <1>3. CASE Start \/ Shutdown
    BY <1>1, <1>3, <1>a, CalmSteps
       DEF Start, Halt, OpenRunSteps, PlacedLots, clockVars, dbVars, brokerVars
  <1>4. ASSUME status' = Reconciled(TRUE)
        PROVE  PlacedLots(status)' \subseteq PlacedLots(status)
    BY <1>4, <1>a DEF Reconciled, PlacedLots
  <1>5. CASE OpenRunBegins
    <2>1. /\ PlacedLots(status)' \subseteq PlacedLots(status)
          /\ UNCHANGED <<day, phase, last, fired>> /\ pc' = "cancel"
      BY <1>4, <1>5, <1>a, CalmSteps DEF OpenRunBegins, clockVars, brokerVars
    <2>2. closing' = {r \in PlacedLots(status') : Date(r) = ExpiryDate}
      <3>1. Succeeds("calendar") = {TRUE}
        BY DEF Succeeds, Punctual
      <3>2. QED
        BY <3>1, <1>5 DEF OpenRunBegins
    <2>3. \A r \in PlacedLots(status)' : Date(r) + HoldingDays = day => r \in closing'
      BY <2>2, <1>a DEF ExpiryDate, PlacedLots
    <2>4. QED
      BY <2>1, <2>3 DEF DueInv
  <1>6. CASE StageSignals
    <2>1. PlacedLots(status)' \subseteq PlacedLots(status)
      BY <1>6, <1>a DEF StageSignals, PlacedLots
    <2>2. /\ UNCHANGED <<day, phase, last, fired, closing>> /\ pc = "cancel"
          /\ pc' = "submit_close" \/ (pc' = "record" /\ closing = {})
      BY <1>6 DEF StageSignals, clockVars, brokerVars
    <2>3. CASE pc' = "submit_close"
      BY <2>1, <2>2, <2>3, <1>2 DEF OpenRunSteps
    <2>4. CASE pc' = "record" /\ closing = {}
      <3>1. \A r \in PlacedLots(status) : r.lot \notin fired => Date(r) + HoldingDays # day
        BY <2>2, <2>4 DEF DueInv, OpenRunSteps
      <3>2. QED
        BY <2>1, <2>2, <2>4, <3>1 DEF DueInv
    <2>5. QED
      BY <2>2, <2>3, <2>4
  <1>7. CASE CommitBatch
    <2>1. /\ UNCHANGED <<day, phase, last, fired, closing>>
          /\ pc \in Submitting /\ pc' \in {"submit_open", "expire"}
      BY <1>7 DEF CommitBatch, Submitting, clockVars, brokerVars
    <2>2. \A r \in OpenRows : r \in txnPlaced => Date(r) = day
      BY <2>1, RowKinds DEF BatchInv, Batch, SoldInv, Submitting
    <2>3. \A r \in PlacedLots(status)' : r \in PlacedLots(status) \/ Date(r) = day
      BY <1>7, <2>2, <1>a DEF CommitBatch, PlacedLots
    <2>4. QED
      BY <2>1, <2>3, <1>2 DEF OpenRunSteps, Submitting
  <1>8. CASE MarkExpired
    <2>1. /\ UNCHANGED <<day, phase, last, fired>> /\ pc = "expire" /\ pc' = "record"
      BY <1>8 DEF MarkExpired, clockVars, brokerVars
    <2>2. \A r \in PlacedLots(status)' : r \in PlacedLots(status) /\ r \notin closing
      BY <1>8, <1>a DEF MarkExpired, PlacedLots
    <2>3. QED
      BY <2>1, <2>2 DEF DueInv, OpenRunSteps
  <1>9. CASE RecordRun
    <2>1. /\ UNCHANGED <<day, phase, status, fired>> /\ pc = "record" /\ pc' = "idle"
          /\ last'.run = day
      BY <1>9, <1>a, CalmSteps DEF RecordRun, Record, clockVars, brokerVars
    <2>2. QED
      BY <2>1 DEF DueInv, OpenRunSteps, PlacedLots
  <1>10. CASE ArmEnds \/ RefreshEnds
    <2>1. PICK field \in {"arm", "mark"} : Record(field)
      BY <1>10 DEF ArmEnds, RefreshEnds
    <2>2. last'.run = last.run
      BY <2>1, <1>a, CalmSteps
    <2>3. QED
      BY <2>1, <2>2, <1>1 DEF Record, OpenRunSteps, PlacedLots, clockVars, brokerVars
  <1>11. CASE ArmBegins
    BY <1>11, <1>1 DEF ArmBegins, OpenRunSteps, PlacedLots, clockVars, dbVars, brokerVars
  <1>12. CASE RefreshBegins
    BY <1>12, <1>1, <1>4, <1>a, CalmSteps DEF RefreshBegins, OpenRunSteps, clockVars, brokerVars
  <1>13. ASSUME NEW r \in todo, CancelStop(r) \/ SubmitOrder(r) PROVE DueInv'
    BY <1>13, <1>2
       DEF CancelStop, SubmitOrder, OpenRunSteps, PlacedLots, clockVars, dbVars
  <1>14. ASSUME NEW r \in todo, ArmLot(r) \/ RefreshLot(r) PROVE DueInv'
    BY <1>14, <1>1 DEF ArmLot, RefreshLot, OpenRunSteps, PlacedLots, clockVars, dbVars
  <1>15. CASE EngineStep
    BY <1>5, <1>6, <1>7, <1>8, <1>9, <1>10, <1>11, <1>12, <1>13, <1>14, <1>15 DEF EngineStep
  <1>16. CASE OpeningAuction
    <2>1. /\ UNCHANGED <<day, last, fired, status, pc>> /\ pc \in {"idle", "down"}
          /\ mem.run = day \/ last.run = day
      BY <1>16 DEF OpeningAuction, Quiet, Punctual, dbVars, engineVars
    <2>2. last.run = day
      <3>1. pc = "down" => mem.run # day
        BY EngineAssumption DEF DownForgets, NoDates, TypeInv, TypeOK, Days
      <3>2. QED
        BY <2>1, <3>1 DEF DatesRecorded
    <2>3. QED
      BY <2>1, <2>2 DEF DueInv, OpenRunSteps, PlacedLots
  <1>17. CASE MarketCloses
    BY <1>17 DEF MarketCloses, Quiet, DueInv, OpenRunSteps, PlacedLots, dbVars, brokerVars,
                 engineVars
  <1>18. CASE NextDay
    <2>1. /\ day' = day + 1 /\ phase # "pre" /\ phase' = "pre"
          /\ UNCHANGED <<last, fired, status, pc>> /\ pc \in {"idle", "down"}
      BY <1>18 DEF NextDay, Quiet, dbVars, brokerVars, engineVars
    <2>2. QED
      BY <2>1, <1>a DEF DueInv, OpenRunSteps, PlacedLots
  <1>19. ASSUME NEW l \in stops, StopFires(l) PROVE DueInv'
    BY <1>19 DEF StopFires, DueInv, PlacedLots, clockVars, dbVars, engineVars
  <1>20. CASE UNCHANGED vars
    BY <1>20 DEF vars, DueInv, PlacedLots
  <1>21. CASE SweepRaises
    BY <1>21, <1>1 DEF SweepRaises, PlacedLots, OpenRunSteps, clockVars, dbVars, brokerVars
  <1>22. QED
    BY <1>3, <1>15, <1>16, <1>17, <1>18, <1>19, <1>20, <1>21, <1>a, CalmSteps
       DEF Next, ClockStep, EndOfHorizon

\* No lot is due at the start.
LEMMA DueInit == Init => DueInv /\ DownForgets
  BY DEF Init, DueInv, DownForgets, PlacedLots, Rows

\* While every window is used and the calendar answers: from the opening of
\* the market on, no managed lot is HOLDING_DAYS old or older, whatever the
\* broker refuses, times out on or leaves unfilled.
THEOREM NoOverdueLotHolds == ASSUME Punctual PROVE Spec => []NoOverdueLot
  <1>1. TradeInv /\ DownForgets /\ DueInv /\ [Next]_vars => TradeInv' /\ DownForgets' /\ DueInv'
    BY TradeStep, DownStep, DueStep DEF Punctual
  <1>2. TradeInv /\ DueInv => NoOverdueLot
    <2> SUFFICES ASSUME TradeInv, DueInv, phase # "pre", NEW r \in OpenRows, Managed(r)
                 PROVE  Date(r) + HoldingDays > day
      BY DEF NoOverdueLot
    <2>1. Date(r) \in Int /\ HoldingDays \in Int /\ day \in Int
      BY RowKinds, EngineAssumption DEF Date, Lots, Days, TradeInv, CalmInv, TypeInv, TypeOK
    <2>2. Date(r) + HoldingDays >= day /\ Date(r) + HoldingDays # day
      BY DEF DueInv, Managed, PlacedLots
    <2>3. QED
      BY <2>1, <2>2
  <1>3. QED
    BY <1>1, <1>2, TradeInit, DueInit, PTL DEF Spec

-----------------------------------------------------------------------------
(* Orders and marks in a benign environment *)

\* The engine may be restarted between routines and BUYs may be refused.
Benign == Faults \subseteq {"restart", "reject_open"}

\* A row whose order the broker has is marked or about to be, and a SELL is
\* never refused.
MarkedInv ==
    /\ \A r \in Rows : order[r] # "none" => r \in txnPlaced \/ status[r] \in {"PLACED", "CLOSED"}
    /\ pc \in Submitting => todo \cap txnPlaced = {}
    /\ txnRejected \cap CloseRows = {}
    /\ \A c \in CloseRows : status[c] # "REJECTED"

\* An order works from its submission to the auction of the same day, and a
\* SELL is submitted for shares the broker holds.
FilledInv ==
    /\ \A r \in Rows : order[r] # "expired"
    /\ \A r \in Rows : order[r] = "working" =>
          /\ phase = "pre"
          /\ r \in OpenRows => Date(r) = day
          /\ r \in CloseRows => Date(r) + HoldingDays = day
    /\ pc = "submit_close" => \A c \in Batch : Date(c) + HoldingDays = day
    /\ \A c \in CloseRows : Used(c) => \E r \in OpenRows : r.lot = c.lot /\ order[r] = "filled"

BookInv == /\ TradeInv /\ PlacedInv /\ ExplainInv /\ DownForgets /\ DueInv
           /\ MarkedInv /\ FilledInv

\* What a benign environment leaves out.
LEMMA BenignIsPunctual == Benign => Punctual /\ Calm
  BY DEF Benign, Punctual, Calm

\* A row of the batch that has not been submitted has no order.
LEMMA TodoIsFresh ==
    ASSUME TradeInv, MarkedInv, pc \in Submitting, NEW r \in todo
    PROVE  order[r] = "none" /\ r \in Rows
  BY DEF TradeInv, CalmInv, TypeInv, TypeOK, BatchInv, Batch, MarkedInv

\* The rows a run stages have no order.
LEMMA StagedRowsAreFresh ==
    ASSUME BookInv, StageSignals, NEW r \in Rows, status'[r] # status[r]
    PROVE  order[r] = "none" /\ status'[r] = "PENDING_APPROVAL"
  <1>1. status'[r] = "PENDING_APPROVAL"
    BY DEF StageSignals
  <1>2. ~Used(r)
    <2>1. CASE r \in OpenRows
      BY <2>1, StagedRowsAreNew DEF BookInv, TradeInv, CalmInv
    <2>2. CASE r \in CloseRows
      <3>1. PICK picks \in Picks :
               status' = [t \in Rows |-> IF t \in {CloseRow(c, aborts) : c \in closing}
                                                \cup {OpenRow(<<day, y>>, aborts) : y \in picks}
                                         THEN "PENDING_APPROVAL" ELSE status[t]]
        BY DEF StageSignals
      <3>2. \A y : OpenRow(<<day, y>>, aborts) # r
        BY <2>2, RowKinds DEF OpenRow
      <3>3. \E c \in closing : r = CloseRow(c, aborts)
        BY <3>1, <3>2
      <3>4. QED
        BY <3>3, StagedClosesAreNew DEF BookInv, TradeInv, CalmInv, ExplainInv
    <2>3. QED
      BY <2>1, <2>2 DEF Rows
  <1>3. QED
    BY <1>1, <1>2 DEF BookInv, TradeInv, SoldInv

\* Every step keeps the marks up with the broker.
LEMMA MarkedStep == Benign /\ BookInv /\ [Next]_vars => MarkedInv'
  <1> SUFFICES ASSUME Benign, BookInv, [Next]_vars
               PROVE  MarkedInv'
    OBVIOUS
  <1> USE DEF BookInv, TradeInv, CalmInv
  <1>a. /\ Calm /\ CloseRows \subseteq Rows /\ CloseRows \cap OpenRows = {}
        /\ todo \subseteq Rows /\ txnPlaced \subseteq Rows /\ txnRejected \subseteq Rows
        /\ order \in [Rows -> OrderState]
    BY BenignIsPunctual, RowKinds DEF TypeInv, TypeOK, Rows
  \* A step that leaves the orders and the batch alone.
  <1>1. ASSUME UNCHANGED <<order, txnVars>>, pc' \notin Submitting \/ (pc' = pc /\ todo' = todo),
               \A r \in Rows : status[r] \in {"PLACED", "CLOSED"} => status'[r] \in {"PLACED", "CLOSED"},
               \A c \in CloseRows : status'[c] = "REJECTED" => status[c] = "REJECTED"
        PROVE  MarkedInv'
    BY <1>1 DEF MarkedInv, txnVars
  <1>2. CASE Start \/ Shutdown
    <2>1. /\ UNCHANGED <<order, status>> /\ pc' \notin Submitting
          /\ txnPlaced = {} /\ txnRejected = {} /\ UNCHANGED txnVars
      BY <1>2, <1>a, CalmSteps DEF Start, Halt, BatchInv, Submitting, dbVars, brokerVars, txnVars
    <2>2. QED
      BY <2>1, <1>1
  <1>3. CASE OpenRunBegins \/ RefreshBegins
    <2>1. \A r \in Rows : \/ status'[r] = status[r]
                          \/ status[r] = "PLACED" /\ status'[r] = "CLOSED"
      BY <1>3 DEF OpenRunBegins, RefreshBegins, Reconciled
    <2>2. QED
      BY <2>1, <1>a, <1>1, <1>3 DEF OpenRunBegins, RefreshBegins, brokerVars, Submitting
  <1>4. CASE StageSignals
    <2>1. /\ UNCHANGED <<order, txnVars>> /\ txnPlaced = {} /\ txnRejected = {}
      BY <1>4 DEF StageSignals, BatchInv, Submitting, brokerVars
    <2>2. \A r \in Rows : \/ status'[r] = status[r]
                          \/ order[r] = "none" /\ status'[r] = "PENDING_APPROVAL"
      BY <1>4, StagedRowsAreFresh
    <2>3. QED
      BY <2>1, <2>2, <1>a DEF MarkedInv, txnVars
  <1>5. ASSUME NEW r \in todo, SubmitOrder(r) PROVE MarkedInv'
    <2>1. /\ status' = status /\ pc' = pc /\ todo' = todo \ {r} /\ r \in Rows
          /\ \/ /\ order' = [order EXCEPT ![r] = "working"] /\ txnPlaced' = txnPlaced \cup {r}
                /\ txnRejected' = txnRejected
             \/ /\ order' = order /\ txnPlaced' = txnPlaced
                /\ txnRejected' = txnRejected \cup {r} /\ r \notin CloseRows
      <3>1. ~SubmitTimesOut(r)
        BY DEF SubmitTimesOut, Benign
      <3>2. SubmitRefused(r) => r \notin CloseRows
        BY <1>a DEF SubmitRefused, Benign
      <3>3. QED
        BY <1>5, <1>a, <3>1, <3>2 DEF SubmitOrder, SubmitAccepted, SubmitRefused, dbVars
    <2>2. QED
      BY <2>1, <1>a DEF MarkedInv
  <1>6. CASE CommitBatch
    <2>1. /\ order' = order /\ txnPlaced' = {} /\ txnRejected' = {}
          /\ pc \in Submitting /\ todo = {}
          /\ \A r \in Rows : status'[r] = IF r \in txnPlaced THEN "PLACED"
                                          ELSE IF r \in txnRejected THEN "REJECTED"
                                          ELSE status[r]
      BY <1>6 DEF CommitBatch, brokerVars, Submitting
    <2>2. \A r \in txnRejected : status[r] = "PENDING_APPROVAL"
      BY <2>1 DEF BatchInv, Batch
    <2>3. QED
      BY <2>1, <2>2, <1>a DEF MarkedInv
  <1>7. CASE MarkExpired
    <2>1. \A r \in Rows : \/ status'[r] = status[r]
                          \/ status[r] = "PLACED" /\ status'[r] = "CLOSED"
      BY <1>7 DEF MarkExpired
    <2>2. QED
      BY <2>1, <1>a, <1>1, <1>7 DEF MarkExpired, brokerVars, Submitting
  <1>8. CASE OpeningAuction
    <2>1. /\ UNCHANGED <<status, pc, todo, txnVars>>
          /\ \A r \in Rows : order'[r] # "none" => order[r] # "none"
      BY <1>8 DEF OpeningAuction, dbVars, engineVars, txnVars
    <2>2. QED
      BY <2>1 DEF MarkedInv, txnVars
  <1>9. ASSUME NEW r \in todo, CancelStop(r) \/ ArmLot(r) \/ RefreshLot(r) PROVE MarkedInv'
    BY <1>9, <1>1 DEF CancelStop, ArmLot, RefreshLot, Submitting, dbVars
  <1>10. CASE RecordRun \/ ArmBegins \/ ArmEnds \/ RefreshEnds
    BY <1>10, <1>1
       DEF RecordRun, ArmBegins, ArmEnds, RefreshEnds, Record, Submitting, dbVars, brokerVars
  <1>11. CASE EngineStep
    BY <1>3, <1>4, <1>5, <1>6, <1>7, <1>9, <1>10, <1>11 DEF EngineStep
  <1>12. ASSUME UNCHANGED <<order, status, pc, todo, txnVars>> PROVE MarkedInv'
    BY <1>12, <1>1
  <1>13. QED
    BY <1>2, <1>8, <1>11, <1>12, <1>a, CalmSteps
       DEF Next, SweepRaises, Benign, ClockStep, MarketCloses, NextDay, StopFires, EndOfHorizon, dbVars, brokerVars,
           engineVars, txnVars, vars

\* Every step keeps orders within their day.
LEMMA FilledStep == Benign /\ BookInv /\ [Next]_vars => FilledInv'
  <1> SUFFICES ASSUME Benign, BookInv, [Next]_vars
               PROVE  FilledInv'
    OBVIOUS
  <1> USE DEF BookInv, TradeInv, CalmInv
  <1>a. /\ Calm /\ CloseRows \subseteq Rows /\ OpenRows \subseteq Rows
        /\ CloseRows \cap OpenRows = {}
        /\ order \in [Rows -> OrderState]
        /\ day \in Int /\ HoldingDays \in Nat \ {0}
        /\ \A r \in Rows : Date(r) \in Int
    <2>1. \A r \in Rows : r.lot[1] \in Int
      BY RowKinds DEF Lots, Days, Rows
    <2>2. QED
      BY <2>1, BenignIsPunctual, RowKinds, EngineAssumption DEF TypeInv, TypeOK, Rows, Days, Date
  <1>1. ASSUME UNCHANGED <<day, order>>, phase' = phase \/ \A r \in Rows : order[r] # "working",
               \A c \in CloseRows : Used(c)' => Used(c),
               pc' # "submit_close" \/ (pc' = pc /\ Batch' = Batch)
        PROVE  FilledInv'
    BY <1>1, <1>a DEF FilledInv
  <1>2. CASE Start \/ Shutdown
    BY <1>1, <1>2, <1>a, CalmSteps DEF Start, Halt, Used, clockVars, dbVars, brokerVars
  <1>3. CASE OpenRunBegins \/ RefreshBegins
    <2>1. \A c \in CloseRows : Used(c)' => Used(c)
      BY <1>3, <1>a DEF OpenRunBegins, RefreshBegins, Reconciled, Used
    <2>2. QED
      BY <2>1, <1>1, <1>3 DEF OpenRunBegins, RefreshBegins, clockVars, brokerVars
  <1>4. CASE StageSignals
    <2>1. /\ UNCHANGED <<day, phase, order, closing>> /\ pc = "cancel" /\ todo = {}
          /\ txnPlaced' = {} /\ txnRejected' = {}
      BY <1>4 DEF StageSignals, BatchInv, Submitting, clockVars, brokerVars, txnVars
    <2>2. PICK picks \in Picks :
             /\ status' = [t \in Rows |-> IF t \in {CloseRow(c, aborts) : c \in closing}
                                                  \cup {OpenRow(<<day, y>>, aborts) : y \in picks}
                                          THEN "PENDING_APPROVAL" ELSE status[t]]
             /\ todo' = {CloseRow(c, aborts) : c \in closing}
      BY <1>4 DEF StageSignals
    <2>3. \A t \in closing : /\ t \in OpenRows /\ Date(t) + HoldingDays = day
                             /\ order[t] = "filled"
                             /\ CloseRow(t, aborts).lot = t.lot
      <3>1. \A t \in closing : /\ t \in OpenRows /\ Date(t) + HoldingDays = day
                               /\ order[t] # "none" /\ t \in Rows
        BY <2>1, <1>a DEF ClosingInv, OpenRunSteps, PlacedLots, PlacedInv, PlacedHasOrder
      <3>2. \A t \in closing : order[t] \notin {"working", "expired"}
        BY <3>1, <1>a DEF FilledInv
      <3>3. QED
        BY <3>1, <3>2, <1>a DEF OrderState, CloseRow
    <2>4. \A c \in Batch' : Date(c) + HoldingDays = day
      BY <2>1, <2>2, <2>3 DEF Batch, Date
    <2>5. \A y : OpenRow(<<day, y>>, aborts) \notin CloseRows
      BY RowKinds DEF OpenRow
    <2>6. \A c \in CloseRows : Used(c)' => \E r \in OpenRows : r.lot = c.lot /\ order[r] = "filled"
      <3>1. \A c \in CloseRows : Used(c)' => Used(c) \/ \E t \in closing : c = CloseRow(t, aborts)
        BY <2>2, <2>5, <1>a DEF Used
      <3>2. QED
        BY <2>3, <3>1 DEF FilledInv
    <2>7. QED
      BY <2>1, <2>4, <2>6 DEF FilledInv
  <1>5. ASSUME NEW r \in todo, SubmitOrder(r) PROVE FilledInv'
    <2>1. /\ UNCHANGED <<day, phase, status, pc>> /\ pc \in Submitting /\ Batch' = Batch
          /\ order' = order \/ order' = [order EXCEPT ![r] = "working"]
      BY <1>5 DEF SubmitOrder, SubmitAccepted, SubmitRefused, SubmitTimesOut, Batch, Submitting,
                  clockVars, dbVars
    <2>2. order[r] = "none" /\ r \in Rows
      BY <2>1, TodoIsFresh
    <2>3. /\ phase = "pre"
          /\ r \in OpenRows => Date(r) = day
          /\ r \in CloseRows => Date(r) + HoldingDays = day
      BY <2>1, <1>a DEF ClosingInv, OpenRunSteps, Submitting, BatchInv, Batch, SoldInv, FilledInv
    <2>4. \A t \in Rows : order[t] = "filled" => order'[t] = "filled"
      BY <2>1, <2>2, <1>a
    <2>5. \A t \in Rows : order'[t] = order[t] \/ (t = r /\ order'[t] = "working")
      BY <2>1, <1>a
    <2>6. QED
      BY <2>1, <2>3, <2>4, <2>5, <1>a DEF FilledInv, Used
  <1>6. CASE CommitBatch
    <2>1. \A c \in CloseRows : Used(c)' => Used(c)
      BY <1>6, <1>a DEF CommitBatch, BatchInv, Batch, Submitting, Used
    <2>2. QED
      BY <2>1, <1>1, <1>6 DEF CommitBatch, clockVars, brokerVars
  <1>7. CASE MarkExpired
    <2>1. \A c \in CloseRows : Used(c)' => Used(c)
      BY <1>7, <1>a DEF MarkExpired, Used
    <2>2. QED
      BY <2>1, <1>1, <1>7 DEF MarkExpired, clockVars, brokerVars
  <1>8. CASE OpeningAuction
    <2> DEFINE working == {r \in Rows : order[r] = "working"}
    <2>1. /\ UNCHANGED <<day, status, pc, todo, txnPlaced, txnRejected>>
          /\ order' = [r \in Rows |-> IF r \in working THEN "filled" ELSE order[r]]
      <3>1. "unfilled" \notin Faults
        BY DEF Benign
      <3>2. order' = [r \in Rows |-> IF r \in working THEN "filled"
                                      ELSE IF r \in working THEN "expired"
                                      ELSE order[r]]
        BY <1>8, <3>1 DEF OpeningAuction
      <3>3. QED
        BY <1>8, <3>2 DEF OpeningAuction, dbVars, engineVars
    <2>2. /\ \A r \in Rows : order'[r] \notin {"working", "expired"}
          /\ \A r \in Rows : order[r] = "filled" => order'[r] = "filled"
      BY <2>1 DEF FilledInv
    <2>3. QED
      BY <2>1, <2>2, <1>a DEF FilledInv, Used, Batch
  <1>9. CASE MarketCloses
    BY <1>1, <1>9 DEF MarketCloses, FilledInv, Used, Batch, dbVars, brokerVars, engineVars
  <1>10. CASE NextDay
    <2>1. /\ phase # "pre" /\ UNCHANGED <<order, status, pc>> /\ pc # "submit_close"
      BY <1>10 DEF NextDay, Quiet, dbVars, brokerVars, engineVars
    <2>2. QED
      BY <2>1 DEF FilledInv, Used
  <1>11. ASSUME NEW r \in todo, CancelStop(r) \/ ArmLot(r) \/ RefreshLot(r) PROVE FilledInv'
    BY <1>11, <1>1 DEF CancelStop, ArmLot, RefreshLot, Used, clockVars, dbVars
  <1>12. CASE RecordRun \/ ArmBegins \/ ArmEnds \/ RefreshEnds
    BY <1>12, <1>1
       DEF RecordRun, ArmBegins, ArmEnds, RefreshEnds, Record, Used, clockVars, dbVars, brokerVars
  <1>13. CASE EngineStep
    BY <1>3, <1>4, <1>5, <1>6, <1>7, <1>11, <1>12, <1>13 DEF EngineStep
  <1>14. ASSUME UNCHANGED <<clockVars, order, status, pc, todo, txnVars>> PROVE FilledInv'
    BY <1>14, <1>1 DEF clockVars, txnVars, Batch, Used
  <1>15. QED
    BY <1>2, <1>8, <1>9, <1>10, <1>13, <1>14, <1>a, CalmSteps
       DEF Next, SweepRaises, Benign, ClockStep, StopFires, EndOfHorizon, clockVars, dbVars, engineVars, txnVars, vars

\* The daemon starts with an empty book.
LEMMA BookInvInit == Init => BookInv
  <1> SUFFICES ASSUME Init PROVE BookInv
    OBVIOUS
  <1>1. PlacedInv
    BY DEF Init, PlacedInv, PlacedHasOrder
  <1>2. ExplainInv
    BY DEF Init, ExplainInv, CloseRowsInv, ClosingRowsInv, ClosedIsExplained, Used, Rows
  <1>3. MarkedInv
    BY DEF Init, MarkedInv, Submitting, Rows
  <1>4. FilledInv
    BY DEF Init, FilledInv, Used, Rows
  <1>5. QED
    BY <1>1, <1>2, <1>3, <1>4, TradeInit, DueInit DEF BookInv

\* In a benign environment all that is known of the book is inductive.
LEMMA BookInvStep == ASSUME Benign PROVE BookInv /\ [Next]_vars => BookInv'
  <1>1. Calm /\ Punctual
    BY BenignIsPunctual
  <1>2. BookInv /\ [Next]_vars => TradeInv' /\ DownForgets' /\ DueInv' /\ MarkedInv' /\ FilledInv'
    BY <1>1, TradeStep, DownStep, DueStep, MarkedStep, FilledStep DEF BookInv
  <1>3. BookInv /\ [Next]_vars => PlacedInv' /\ ExplainInv'
    BY PlacedStep, CloseRowsStep, ClosingRowsStep, ExplainStep
       DEF BookInv, TradeInv, CalmInv, TypeInv, ExplainInv
  <1>4. QED
    BY <1>2, <1>3 DEF BookInv

-----------------------------------------------------------------------------
(* The daemon implements the book of lots *)

\* A lot's orders decide its state, one row of each kind at most.
LEMMA OneOrderPerLot ==
    ASSUME BookInv
    PROVE  /\ \A r, t \in OpenRows :
                order[r] # "none" /\ (order[t] # "none" \/ Used(t)) /\ r.lot = t.lot => r = t
           /\ \A c, d \in CloseRows : order[c] # "none" /\ order[d] # "none" /\ c.lot = d.lot => c = d
           /\ \A r \in OpenRows \cup CloseRows : order[r] # "none" => Used(r) /\ r \in Rows
  BY DEF BookInv, TradeInv, CalmInv, SoldInv, RowsInv, Rows

\* The states of a lot, said of its rows.
LEMMA LotStates ==
    ASSUME BookInv, NEW l \in Lots
    PROVE  /\ LotState(l) \in {"sold", "held", "ordered", "none"}
           /\ LotState(l) = "ordered" <=> \E r \in OpenRows : r.lot = l /\ order[r] = "working"
           /\ LotState(l) = "held" <=>
                /\ \E r \in OpenRows : r.lot = l /\ order[r] = "filled"
                /\ l \notin fired
                /\ \A c \in CloseRows : c.lot = l => order[c] # "filled"
           /\ LotState(l) = "none" =>
                /\ \A r \in OpenRows : r.lot = l => order[r] = "none"
                /\ \A c \in CloseRows : c.lot = l => order[c] = "none"
           /\ LotState(l) = "sold" <=>
                l \in fired \/ \E c \in CloseRows : c.lot = l /\ order[c] = "filled"
  <1>a. \A r \in Rows : order[r] \in {"none", "working", "filled"}
    BY DEF BookInv, TradeInv, CalmInv, TypeInv, TypeOK, FilledInv, OrderState
  <1>b. OpenRows \subseteq Rows /\ CloseRows \subseteq Rows
    BY DEF Rows
  <1>c. \A c \in CloseRows : order[c] # "none" => \E r \in OpenRows : r.lot = c.lot /\ order[r] = "filled"
    BY <1>b DEF BookInv, TradeInv, SoldInv, FilledInv
  <1>d. \A r \in OpenRows : order[r] = "working" =>
           r.lot \notin fired /\ \A c \in CloseRows : c.lot = r.lot => order[c] # "filled"
    <2> SUFFICES ASSUME NEW r \in OpenRows, order[r] = "working"
                 PROVE  r.lot \notin fired /\ \A c \in CloseRows : c.lot = r.lot => order[c] # "filled"
      OBVIOUS
    <2>1. phase = "pre" /\ Date(r) = day
      BY <1>b DEF BookInv, FilledInv
    <2>2. r.lot \notin fired
      BY <2>1 DEF BookInv, TradeInv, CalmInv, AuctionInv, StopsInv, Date
    <2>3. ASSUME NEW c \in CloseRows, c.lot = r.lot, order[c] = "filled" PROVE FALSE
      <3>1. PICK t \in OpenRows : t.lot = c.lot /\ order[t] = "filled"
        BY <2>3, <1>c
      <3>2. t = r
        BY <2>3, <3>1, OneOrderPerLot
      <3>3. QED
        BY <3>1, <3>2
    <2>4. QED
      BY <2>2, <2>3
  <1>1. SoldBy(l) = {c \in CloseRows : c.lot = l /\ order[c] # "none"}
    BY DEF SoldBy
  <1>2. Bought(l) = {r \in OpenRows : r.lot = l /\ order[r] # "none"}
    BY DEF Bought
  <1>3. LotState(l) = "sold" <=> l \in fired \/ \E c \in CloseRows : c.lot = l /\ order[c] = "filled"
    BY <1>1 DEF LotState
  <1>4. LotState(l) = "held" <=> LotState(l) # "sold" /\ \E r \in OpenRows : r.lot = l /\ order[r] = "filled"
    BY <1>2, <1>3 DEF LotState
  <1>5. LotState(l) = "ordered" <=>
          LotState(l) \notin {"sold", "held"} /\ \E r \in OpenRows : r.lot = l /\ order[r] # "none"
    BY <1>2, <1>3, <1>4 DEF LotState
  <1>6. LotState(l) = "ordered" <=> \E r \in OpenRows : r.lot = l /\ order[r] = "working"
    <2>1. ASSUME LotState(l) = "ordered"
          PROVE  \E r \in OpenRows : r.lot = l /\ order[r] = "working"
      BY <2>1, <1>a, <1>b, <1>4, <1>5
    <2>2. ASSUME NEW r \in OpenRows, r.lot = l, order[r] = "working"
          PROVE  LotState(l) = "ordered"
      <3>1. LotState(l) # "sold"
        BY <2>2, <1>3, <1>d
      <3>2. \A t \in OpenRows : t.lot = l => order[t] # "filled"
        BY <2>2, OneOrderPerLot
      <3>3. QED
        BY <2>2, <3>1, <3>2, <1>4, <1>5
    <2>3. QED
      BY <2>1, <2>2
  <1>7. LotState(l) = "none" =>
          /\ \A r \in OpenRows : r.lot = l => order[r] = "none"
          /\ \A c \in CloseRows : c.lot = l => order[c] = "none"
    <2> SUFFICES ASSUME LotState(l) = "none"
                 PROVE  /\ \A r \in OpenRows : r.lot = l => order[r] = "none"
                        /\ \A c \in CloseRows : c.lot = l => order[c] = "none"
      OBVIOUS
    <2>1. \A r \in OpenRows : r.lot = l => order[r] = "none"
      BY <1>5
    <2>2. QED
      BY <2>1, <1>c
  <1>8. LotState(l) \in {"sold", "held", "ordered", "none"}
    BY DEF LotState
  <1>9. QED
    BY <1>3, <1>4, <1>6, <1>7, <1>8

\* A step that changes no order and fires no stop changes no lot.
LEMMA QuietLots ==
    ASSUME UNCHANGED <<order, fired>>, NEW l
    PROVE  LotState(l)' = LotState(l)
  BY DEF LotState, Bought, SoldBy

\* A submission is the entry of a lot of today, or changes no lot.
LEMMA SubmitLots ==
    ASSUME Benign, BookInv, NEW r \in todo, SubmitOrder(r)
    PROVE  \/ \A l \in Lots : LotState(l)' = LotState(l)
           \/ /\ phase = "pre" /\ r.lot \in Lots /\ r.lot[1] = day
              /\ LotState(r.lot) = "none"
              /\ \A l \in Lots : LotState(l)' = IF l = r.lot THEN "ordered" ELSE LotState(l)
  <1>1. /\ pc \in Submitting /\ fired' = fired
        /\ order' = order \/ order' = [order EXCEPT ![r] = "working"]
    BY DEF SubmitOrder, SubmitAccepted, SubmitRefused, SubmitTimesOut, Submitting
  <1>2. order[r] = "none" /\ r \in Rows /\ r.lot \in Lots
    BY <1>1, TodoIsFresh, RowKinds DEF BookInv, Rows
  <1>3. CASE order' = order
    BY <1>1, <1>3, QuietLots
  <1>4. order \in [Rows -> OrderState] /\ OpenRows \subseteq Rows /\ CloseRows \subseteq Rows
    BY DEF BookInv, TradeInv, CalmInv, TypeInv, TypeOK, Rows
  <1>5. CASE order' = [order EXCEPT ![r] = "working"] /\ r \in CloseRows
    <2>1. /\ \A t \in OpenRows : order'[t] = order[t]
          /\ \A c \in CloseRows : order'[c] = "filled" <=> order[c] = "filled"
      BY <1>2, <1>4, <1>5, RowKinds
    <2>2. ASSUME NEW l \in Lots PROVE LotState(l)' = LotState(l)
      <3>1. Bought(l)' = Bought(l)
        BY <2>1 DEF Bought
      <3>2. (\E c \in SoldBy(l)' : order'[c] = "filled") <=> (\E c \in SoldBy(l) : order[c] = "filled")
        BY <2>1 DEF SoldBy
      <3>3. (\E t \in Bought(l)' : order'[t] = "filled") <=> (\E t \in Bought(l) : order[t] = "filled")
        BY <2>1 DEF Bought
      <3>4. QED
        BY <1>1, <3>1, <3>2, <3>3 DEF LotState
    <2>3. QED
      BY <2>2
  <1>6. CASE order' = [order EXCEPT ![r] = "working"] /\ r \in OpenRows
    <2>1. phase = "pre" /\ Date(r) = day /\ Used(r)
      BY <1>1, <1>6, RowKinds
         DEF BookInv, TradeInv, CalmInv, ClosingInv, OpenRunSteps, Submitting, BatchInv, Batch,
             SoldInv, Used
    <2>2. /\ \A t \in OpenRows : t.lot = r.lot => order[t] = "none"
          /\ \A c \in CloseRows : order'[c] = order[c]
          /\ \A t \in OpenRows : t # r => order'[t] = order[t]
          /\ order'[r] = "working"
      BY <1>2, <1>4, <1>6, <2>1, OneOrderPerLot, RowKinds
    <2>3. \A l : SoldBy(l)' = SoldBy(l)
      BY <2>2 DEF SoldBy
    <2>4. \A l : l # r.lot => Bought(l)' = Bought(l)
      BY <2>2 DEF Bought
    <2>5. ASSUME NEW l \in Lots, l # r.lot PROVE LotState(l)' = LotState(l)
      <3>1. \A c \in SoldBy(l) : order'[c] = order[c]
        BY <2>2 DEF SoldBy
      <3>2. \A t \in Bought(l) : order'[t] = order[t]
        BY <2>2, <2>5 DEF Bought
      <3>3. QED
        BY <1>1, <2>3, <2>4, <2>5, <3>1, <3>2 DEF LotState
    <2>6. LotState(r.lot) = "none"
      <3>1. LotState(r.lot) \notin {"ordered", "held"}
        BY <1>2, <2>2, LotStates
      <3>2. LotState(r.lot) # "sold"
        <4>1. r.lot \notin fired
          BY <2>1 DEF BookInv, TradeInv, CalmInv, AuctionInv, StopsInv, Date
        <4>2. \A c \in CloseRows : c.lot = r.lot => order[c] # "filled"
          <5>1. \A c \in CloseRows : order[c] # "none" =>
                   \E t \in OpenRows : t.lot = c.lot /\ order[t] = "filled"
            BY <1>4 DEF BookInv, TradeInv, SoldInv, FilledInv
          <5>2. QED
            BY <5>1, <2>2
        <4>3. QED
          BY <4>1, <4>2, <1>2, LotStates
      <3>3. QED
        BY <3>1, <3>2, <1>2, LotStates
    <2>7. LotState(r.lot)' = "ordered"
      <3>1. /\ r.lot \notin fired
            /\ \A c \in CloseRows : c.lot = r.lot => order'[c] # "filled"
        BY <1>2, <2>2, <2>6, LotStates
      <3>2. \A t \in OpenRows : t.lot = r.lot => order'[t] # "filled"
        BY <2>2
      <3>3. r \in Bought(r.lot)'
        BY <1>6, <2>2 DEF Bought
      <3>4. QED
        BY <1>1, <3>1, <3>2, <3>3 DEF LotState, Bought, SoldBy
    <2>8. QED
      BY <1>2, <2>1, <2>5, <2>6, <2>7 DEF Date
  <1>7. QED
    BY <1>1, <1>2, <1>3, <1>5, <1>6 DEF Rows

\* At the auction, the lots held for HoldingDays sessions are the ones with a
\* working SELL.
LEMMA DueLotsAreForSale ==
    ASSUME Benign, BookInv, OpeningAuction, NEW l \in Lots
    PROVE  (\E c \in CloseRows : c.lot = l /\ order[c] = "working")
             <=> LotState(l) = "held" /\ l[1] + HoldingDays = day
  <1> USE DEF BookInv, TradeInv, CalmInv
  <1>a. OpenRows \subseteq Rows /\ CloseRows \subseteq Rows
    BY DEF Rows
  <1>1. ASSUME NEW c \in CloseRows, c.lot = l, order[c] = "working"
        PROVE  LotState(l) = "held" /\ l[1] + HoldingDays = day
    <2>1. l[1] + HoldingDays = day
      BY <1>1, <1>a DEF FilledInv, Date
    <2>2. Used(c) /\ l \notin fired
      BY <1>1, <1>a DEF SoldInv
    <2>3. \E r \in OpenRows : r.lot = l /\ order[r] = "filled"
      BY <1>1, <2>2 DEF FilledInv
    <2>4. \A d \in CloseRows : d.lot = l => order[d] # "filled"
      BY <1>1, OneOrderPerLot
    <2>5. QED
      BY <2>1, <2>2, <2>3, <2>4, LotStates
  <1>2. ASSUME LotState(l) = "held", l[1] + HoldingDays = day
        PROVE  \E c \in CloseRows : c.lot = l /\ order[c] = "working"
    <2>1. PICK r \in OpenRows : r.lot = l /\ order[r] = "filled"
      BY <1>2, LotStates
    <2>2. /\ pc \in {"idle", "down"}
          /\ mem.run = day \/ last.run = day
      BY DEF OpeningAuction, Quiet, Benign
    <2>3. last.run = day
      <3>1. pc = "down" => mem.run # day
        BY EngineAssumption DEF DownForgets, NoDates, TypeInv, TypeOK, Days
      <3>2. QED
        BY <2>2, <3>1 DEF DatesRecorded
    <2>4. status[r] \in {"PLACED", "CLOSED"}
      BY <2>1, <2>2, <1>a DEF MarkedInv, BatchInv, Submitting
    <2>5. l \notin fired
      BY <1>2, LotStates
    <2>6. status[r] # "PLACED"
      BY <1>2, <2>1, <2>3, <2>5 DEF DueInv, PlacedLots, Date
    <2>7. PICK c \in CloseRows : c.lot = l /\ status[c] \in {"PLACED", "REJECTED"}
      BY <2>1, <2>4, <2>5, <2>6 DEF ExplainInv, ClosedIsExplained
    <2>8. order[c] # "none"
      BY <2>7, <1>a DEF MarkedInv, PlacedInv, PlacedHasOrder
    <2>9. order[c] \notin {"filled", "expired"}
      BY <1>2, <2>7, <1>a, LotStates DEF FilledInv
    <2>10. QED
      BY <2>7, <2>8, <2>9, <1>a DEF TypeInv, TypeOK, OrderState
  <1>3. QED
    BY <1>1, <1>2

\* The orders of the auction all fill.
LEMMA AuctionFills ==
    ASSUME Benign, BookInv, OpeningAuction
    PROVE  /\ order' = [r \in Rows |-> IF order[r] = "working" THEN "filled" ELSE order[r]]
           /\ pos' = [s \in Symbols |->
                        pos[s] + Traded({r \in OpenRows : order[r] = "working"}, s)
                               - Traded({r \in CloseRows : order[r] = "working"}, s)]
           /\ fired' = fired /\ day' = day /\ phase = "pre" /\ phase' = "open"
  <1> DEFINE working == {r \in Rows : order[r] = "working"}
  <1>1. /\ order' = [r \in Rows |-> IF r \in working THEN "filled"
                                    ELSE IF r \in working THEN "expired" ELSE order[r]]
        /\ pos' = [s \in Symbols |-> pos[s] + Traded(working \cap OpenRows, s)
                                            - Traded(working \cap CloseRows, s)]
    <2>1. "unfilled" \notin Faults
      BY DEF Benign
    <2>2. QED
      BY <2>1 DEF OpeningAuction
  <1>2. /\ working \cap OpenRows = {r \in OpenRows : order[r] = "working"}
        /\ working \cap CloseRows = {r \in CloseRows : order[r] = "working"}
    BY DEF Rows
  <1>3. order' = [r \in Rows |-> IF order[r] = "working" THEN "filled" ELSE order[r]]
    BY <1>1
  <1>4. QED
    BY <1>1, <1>2, <1>3 DEF OpeningAuction

\* The auction fills every entry and sells every lot that is due.
LEMMA AuctionLots ==
    ASSUME Benign, BookInv, OpeningAuction, NEW l \in Lots
    PROVE  LotState(l)' = IF LotState(l) = "ordered" THEN "held"
                          ELSE IF LotState(l) = "held" /\ l[1] + HoldingDays = day THEN "sold"
                          ELSE LotState(l)
  <1>a. OpenRows \subseteq Rows /\ CloseRows \subseteq Rows
    BY DEF Rows
  <1>1. /\ fired' = fired
        /\ \A r \in Rows : order'[r] = IF order[r] = "working" THEN "filled" ELSE order[r]
    BY AuctionFills
  <1>2. /\ (LotState(l) = "held")' <=>
             /\ \E r \in OpenRows : r.lot = l /\ order'[r] = "filled"
             /\ l \notin fired'
             /\ \A c \in CloseRows : c.lot = l => order'[c] # "filled"
        /\ (LotState(l) = "sold")' <=>
             l \in fired' \/ \E c \in CloseRows : c.lot = l /\ order'[c] = "filled"
    BY <1>1 DEF LotState, Bought, SoldBy
  <1>3. CASE LotState(l) = "ordered"
    <2>1. PICK r \in OpenRows : r.lot = l /\ order[r] = "working"
      BY <1>3, LotStates
    <2>2. l \notin fired /\ \A c \in CloseRows : c.lot = l => order[c] # "filled"
      BY <1>3, LotStates
    <2>3. \A c \in CloseRows : c.lot = l => order[c] # "working"
      BY <1>3, DueLotsAreForSale
    <2>4. QED
      BY <1>1, <1>2, <1>3, <1>a, <2>1, <2>2, <2>3
  <1>4. CASE LotState(l) = "held" /\ l[1] + HoldingDays = day
    <2>1. PICK c \in CloseRows : c.lot = l /\ order[c] = "working"
      BY <1>4, DueLotsAreForSale
    <2>2. QED
      BY <1>1, <1>2, <1>4, <1>a, <2>1
  <1>5. CASE LotState(l) = "held" /\ l[1] + HoldingDays # day
    <2>1. \A c \in CloseRows : c.lot = l => order[c] \notin {"working", "filled"}
      BY <1>5, DueLotsAreForSale, LotStates
    <2>2. l \notin fired /\ \E r \in OpenRows : r.lot = l /\ order[r] = "filled"
      BY <1>5, LotStates
    <2>3. QED
      BY <1>1, <1>2, <1>5, <1>a, <2>1, <2>2
  <1>6. CASE LotState(l) = "sold"
    BY <1>1, <1>2, <1>6, <1>a, LotStates
  <1>7. CASE LotState(l) = "none"
    <2>1. /\ l \notin fired
          /\ \A r \in OpenRows \cup CloseRows : r.lot = l => order'[r] = "none"
      BY <1>1, <1>7, <1>a, LotStates
    <2>2. QED
      BY <1>1, <1>7, <2>1 DEF LotState, Bought, SoldBy
  <1>8. QED
    BY <1>3, <1>4, <1>5, <1>6, <1>7, LotStates

\* A stop that fires sells the lot it guards.
LEMMA StopLots ==
    ASSUME Benign, BookInv, NEW k \in stops, StopFires(k)
    PROVE  /\ phase # "pre" /\ k \in Lots /\ LotState(k) = "held"
           /\ \A l \in Lots : LotState(l)' = IF l = k THEN "sold" ELSE LotState(l)
  <1> USE DEF BookInv, TradeInv, CalmInv
  <1>a. /\ OpenRows \subseteq Rows /\ CloseRows \subseteq Rows /\ k \in Lots
        /\ fired' = fired \cup {k} /\ order' = order /\ phase = "open"
    BY DEF StopFires, Rows, TypeInv, TypeOK
  <1>1. PICK r \in OpenRows : r.lot = k /\ status[r] = "PLACED"
    BY DEF NoOrphanStops
  <1>2. order[r] = "filled"
    <2>1. order[r] # "none"
      BY <1>1, <1>a DEF PlacedInv, PlacedHasOrder
    <2>2. order[r] \notin {"working", "expired"}
      BY <1>a DEF FilledInv
    <2>3. QED
      BY <2>1, <2>2, <1>a DEF TypeInv, TypeOK, OrderState
  <1>3. k \notin fired /\ \A c \in CloseRows : c.lot = k => order[c] # "filled"
    BY <1>a DEF StopsInv, NoStopAfterFire, SoldInv
  <1>4. LotState(k) = "held"
    BY <1>1, <1>2, <1>3, <1>a, LotStates
  <1>5. ASSUME NEW l \in Lots
        PROVE  LotState(l)' = IF l = k THEN "sold" ELSE LotState(l)
    BY <1>a DEF LotState, Bought, SoldBy
  <1>6. QED
    BY <1>4, <1>5, <1>a

\* A step is one of the auction, a stop, a submission, the end of a session, or
\* changes neither orders nor sales nor the clock of the book.
LEMMA BookSteps ==
    Benign /\ BookInv /\ [Next]_vars =>
      \/ OpeningAuction
      \/ NextDay
      \/ \E l \in stops : StopFires(l)
      \/ \E r \in todo : SubmitOrder(r) /\ UNCHANGED <<clockVars, fired, pos>>
      \/ UNCHANGED <<day, order, fired, pos>> /\ (phase' # "pre" <=> phase # "pre")
  <1> SUFFICES ASSUME Benign, BookInv, [Next]_vars, ~OpeningAuction, ~NextDay,
                      ~\E l \in stops : StopFires(l),
                      ~\E r \in todo : SubmitOrder(r)
               PROVE  UNCHANGED <<day, order, fired, pos>> /\ (phase' # "pre" <=> phase # "pre")
    BY DEF SubmitOrder
  <1>1. CASE EngineStep
    BY <1>1
       DEF EngineStep, OpenRunBegins, CancelStop, StageSignals, CommitBatch, MarkExpired,
           RecordRun, ArmBegins, ArmLot, ArmEnds, RefreshBegins, RefreshLot, RefreshEnds,
           Record, clockVars, brokerVars
  <1>2. QED
    BY <1>1
       DEF Next, Start, Shutdown, Crash, Halt, RunRaises, SweepRaises, ClockStep, MarketCloses,
           EndOfHorizon, clockVars, brokerVars, vars

\* In a benign environment the daemon, its table and the broker implement the
\* book of lots: every step of theirs is one of the book or leaves it alone.
THEOREM ImplementsLotBookHolds == ASSUME Benign PROVE Spec => ImplementsLotBook
  <1> DEFINE lots == [l \in Lots |-> LotState(l)]
  <1>a. Book!BookLots = Lots
    BY DEF Book!BookLots, Lots, Days
  <1>1. Init => Book!BookInit
    BY <1>a DEF Init, Book!BookInit, LotState, SoldBy, Bought, Rows
  <1>2. BookInv /\ [Next]_vars => [Book!BookNext]_(Book!bookVars)
    <2> SUFFICES ASSUME BookInv, [Next]_vars
                 PROVE  Book!BookNext \/ UNCHANGED Book!bookVars
      OBVIOUS
    <2>1. CASE OpeningAuction
      <3>1. lots' = [l \in Lots |-> IF LotState(l) = "ordered" THEN "held"
                                    ELSE IF LotState(l) = "held" /\ l[1] + HoldingDays = day
                                    THEN "sold" ELSE LotState(l)]
        BY <2>1, AuctionLots
      <3>2. Book!Auction
        BY <2>1, <3>1, <1>a, AuctionFills DEF Book!Auction
      <3>3. QED
        BY <3>2 DEF Book!BookNext
    <2>2. CASE NextDay
      <3>1. lots' = lots
        BY <2>2, QuietLots DEF NextDay, brokerVars
      <3>2. Book!NewSession
        BY <2>2, <3>1 DEF NextDay, Book!NewSession
      <3>3. QED
        BY <3>2 DEF Book!BookNext
    <2>3. ASSUME NEW k \in stops, StopFires(k) PROVE Book!BookNext
      <3>1. lots' = [lots EXCEPT ![k] = "sold"]
        BY <2>3, StopLots
      <3>2. Book!StopOut(k)
        BY <2>3, <3>1, StopLots DEF Book!StopOut, StopFires, clockVars
      <3>3. QED
        BY <2>3, <3>2, <1>a, StopLots DEF Book!BookNext
    <2>4. ASSUME NEW r \in todo, SubmitOrder(r), UNCHANGED <<clockVars, fired, pos>>
          PROVE  Book!BookNext \/ UNCHANGED Book!bookVars
      <3>1. CASE \A l \in Lots : LotState(l)' = LotState(l)
        BY <2>4, <3>1 DEF Book!bookVars, clockVars
      <3>2. CASE /\ phase = "pre" /\ r.lot \in Lots /\ r.lot[1] = day
                 /\ LotState(r.lot) = "none"
                 /\ \A l \in Lots : LotState(l)' = IF l = r.lot THEN "ordered" ELSE LotState(l)
        <4>1. lots' = [lots EXCEPT ![r.lot] = "ordered"]
          BY <3>2
        <4>2. Book!Enter(r.lot)
          BY <2>4, <3>2, <4>1 DEF Book!Enter, clockVars
        <4>3. QED
          BY <3>2, <4>2, <1>a DEF Book!BookNext
      <3>3. QED
        BY <2>4, <3>1, <3>2, SubmitLots
    <2>5. CASE UNCHANGED <<day, order, fired, pos>> /\ (phase' # "pre" <=> phase # "pre")
      <3>1. lots' = lots
        BY <2>5, QuietLots
      <3>2. QED
        BY <2>5, <3>1 DEF Book!bookVars
    <2>6. QED
      BY <2>1, <2>2, <2>3, <2>4, <2>5, BookSteps
  <1>3. QED
    BY <1>1, <1>2, BookInvInit, BookInvStep, PTL DEF Spec, ImplementsLotBook, Book!BookSpec

-----------------------------------------------------------------------------
(* The books match the broker *)

\* What the broker holds of a symbol is its held lots.
HeldLots(s) == {l \in Lots : l[2] = s /\ LotState(l) = "held"}

PosInv == \A s \in Symbols : pos[s] = Cardinality(HeldLots(s))

\* Rows of different lots are as many as their lots.
LEMMA LotsOfRows ==
    ASSUME NEW R, R \subseteq Rows, \A r, t \in R : r.lot = t.lot => r = t,
           NEW s, NEW B, B = {l \in Lots : l[2] = s /\ \E r \in R : r.lot = l}
    PROVE  Traded(R, s) = Cardinality(B)
  <1> DEFINE A == {r \in R : Symbol(r) = s}
             f == [r \in A |-> r.lot]
  <1>1. IsFiniteSet(A)
    <2>1. A \in SUBSET Rows
      OBVIOUS
    <2>2. QED
      BY <2>1, RowsFinite, FS_Subset
  <1>2. f \in Surjection(A, B)
    <2>1. \A r \in A : r.lot \in B
      BY RowKinds DEF Rows, Symbol
    <2>2. \A l \in B : \E r \in A : f[r] = l
      BY DEF Symbol
    <2>3. QED
      BY <2>1, <2>2 DEF Surjection
  <1>3. f \in Injection(A, B)
    <2>1. f \in [A -> B] /\ \A r, t \in A : f[r] = f[t] => r = t
      BY <1>2 DEF Surjection
    <2>2. QED
      BY <2>1 DEF Injection, IsInjective
  <1>4. QED
    BY <1>1, <1>2, <1>3, FS_Surjection DEF Traded

\* There are finitely many lots.
LEMMA LotsFinite == \A S \in SUBSET Lots : IsFiniteSet(S) /\ Cardinality(S) \in Nat
  <1>1. IsFiniteSet(1..MaxDay)
    BY EngineAssumption, FS_Interval
  <1>2. IsFiniteSet(Lots)
    BY <1>1, EngineAssumption, FS_Product DEF Lots, Days
  <1>3. QED
    BY <1>2, FS_Subset, FS_CardinalityType

\* Every step moves the position as it moves the held lots.
LEMMA PosStep == Benign /\ BookInv /\ PosInv /\ [Next]_vars => PosInv'
  <1> SUFFICES ASSUME Benign, BookInv, PosInv, [Next]_vars
               PROVE  PosInv'
    OBVIOUS
  <1>a. pos \in [Symbols -> Int]
    BY DEF BookInv, TradeInv, CalmInv, TypeInv, TypeOK
  <1>1. ASSUME pos' = pos,
               \A l \in Lots : (LotState(l) = "held")' <=> LotState(l) = "held"
        PROVE  PosInv'
    <2>1. \A s : HeldLots(s)' = HeldLots(s)
      BY <1>1 DEF HeldLots
    <2>2. QED
      BY <1>1, <2>1 DEF PosInv
  <1>2. CASE OpeningAuction
    <2> SUFFICES ASSUME NEW s \in Symbols
                 PROVE  pos'[s] = Cardinality(HeldLots(s)')
      BY DEF PosInv
    <2> DEFINE entries == {r \in OpenRows : order[r] = "working"}
               exits == {c \in CloseRows : order[c] = "working"}
               In == {l \in Lots : l[2] = s /\ LotState(l) = "ordered"}
               Out == {l \in Lots : /\ l[2] = s /\ LotState(l) = "held"
                                    /\ l[1] + HoldingDays = day}
    <2>1. Traded(entries, s) = Cardinality(In)
      <3>1. entries \subseteq Rows /\ \A r, t \in entries : r.lot = t.lot => r = t
        BY OneOrderPerLot DEF Rows
      <3>2. In = {l \in Lots : l[2] = s /\ \E r \in entries : r.lot = l}
        BY LotStates
      <3>3. QED
        BY <3>1, <3>2, LotsOfRows
    <2>2. Traded(exits, s) = Cardinality(Out)
      <3>1. exits \subseteq Rows /\ \A r, t \in exits : r.lot = t.lot => r = t
        BY OneOrderPerLot DEF Rows
      <3>2. Out = {l \in Lots : l[2] = s /\ \E r \in exits : r.lot = l}
        BY <1>2, DueLotsAreForSale
      <3>3. QED
        BY <3>1, <3>2, LotsOfRows
    <2>3. pos'[s] = pos[s] + Cardinality(In) - Cardinality(Out)
      BY <1>2, <2>1, <2>2, AuctionFills
    <2>4. HeldLots(s)' = (HeldLots(s) \ Out) \cup In
      BY <1>2, AuctionLots DEF HeldLots
    <2>5. Cardinality(HeldLots(s) \ Out) = Cardinality(HeldLots(s)) - Cardinality(Out)
      <3>1. HeldLots(s) \cap Out = Out
        BY DEF HeldLots
      <3>2. IsFiniteSet(HeldLots(s)) /\ IsFiniteSet(Out)
        BY LotsFinite DEF HeldLots
      <3>3. QED
        BY <3>1, <3>2, FS_Difference
    <2>6. Cardinality((HeldLots(s) \ Out) \cup In)
            = Cardinality(HeldLots(s) \ Out) + Cardinality(In)
      <3>1. (HeldLots(s) \ Out) \cap In = {}
        BY DEF HeldLots
      <3>2. IsFiniteSet(HeldLots(s) \ Out) /\ IsFiniteSet(In)
        BY LotsFinite DEF HeldLots
      <3>3. /\ Cardinality({}) = 0
            /\ Cardinality(HeldLots(s) \ Out) \in Nat /\ Cardinality(In) \in Nat
        BY FS_EmptySet, LotsFinite DEF HeldLots
      <3>4. QED
        BY <3>1, <3>2, <3>3, FS_Union
    <2>7. /\ pos[s] = Cardinality(HeldLots(s))
          /\ Cardinality(HeldLots(s)) \in Nat /\ Cardinality(In) \in Nat /\ Cardinality(Out) \in Nat
      BY LotsFinite DEF PosInv, HeldLots
    <2>8. QED
      BY <2>3, <2>4, <2>5, <2>6, <2>7
  <1>3. ASSUME NEW k \in stops, StopFires(k) PROVE PosInv'
    <2> SUFFICES ASSUME NEW s \in Symbols
                 PROVE  pos'[s] = Cardinality(HeldLots(s)')
      BY DEF PosInv
    <2>1. /\ k \in Lots /\ LotState(k) = "held" /\ k[2] \in Symbols
          /\ pos' = [pos EXCEPT ![k[2]] = @ - 1]
      BY <1>3, StopLots DEF StopFires, Lots
    <2>2. pos[s] = Cardinality(HeldLots(s)) /\ IsFiniteSet(HeldLots(s))
      BY LotsFinite DEF PosInv, HeldLots
    <2>3. CASE s = k[2]
      <3>1. HeldLots(s)' = HeldLots(s) \ {k} /\ k \in HeldLots(s)
        BY <1>3, <2>1, <2>3, StopLots DEF HeldLots
      <3>2. pos'[s] = pos[s] - 1
        BY <2>1, <2>3, <1>a
      <3>3. QED
        BY <2>2, <3>1, <3>2, FS_RemoveElement
    <2>4. CASE s # k[2]
      <3>1. HeldLots(s)' = HeldLots(s)
        BY <1>3, <2>1, <2>4, StopLots DEF HeldLots
      <3>2. pos'[s] = pos[s]
        BY <2>1, <2>4, <1>a
      <3>3. QED
        BY <2>2, <3>1, <3>2
    <2>5. QED
      BY <2>3, <2>4
  <1>4. CASE NextDay
    BY <1>1, <1>4, QuietLots DEF NextDay, brokerVars
  <1>5. ASSUME NEW r \in todo, SubmitOrder(r), UNCHANGED <<clockVars, fired, pos>> PROVE PosInv'
    BY <1>1, <1>5, SubmitLots
  <1>6. CASE UNCHANGED <<day, order, fired, pos>>
    BY <1>1, <1>6, QuietLots
  <1>7. QED
    BY <1>2, <1>3, <1>4, <1>5, <1>6, BookSteps

\* In a benign environment, from the opening auction to the end of the day: the
\* broker's position in a symbol is the number of lots the table manages in it.
THEOREM BooksMatchBrokerHolds == ASSUME Benign PROVE Spec => []BooksMatchBroker
  <1>1. Init => PosInv
    <2> SUFFICES ASSUME Init, NEW s \in Symbols PROVE pos[s] = Cardinality(HeldLots(s))
      BY DEF PosInv
    <2>1. HeldLots(s) = {}
      BY DEF Init, HeldLots, LotState, Bought, SoldBy, Rows
    <2>2. QED
      BY <2>1, FS_EmptySet DEF Init
  <1>2. BookInv /\ PosInv => BooksMatchBroker
    <2> SUFFICES ASSUME BookInv, PosInv, phase # "pre", NEW s \in Symbols
                 PROVE  pos[s] = Cardinality({r \in OpenRows : Managed(r) /\ Symbol(r) = s})
      BY DEF BooksMatchBroker
    <2> USE DEF BookInv, TradeInv, CalmInv
    <2> DEFINE R == {r \in OpenRows : Managed(r)}
    <2>a. OpenRows \subseteq Rows /\ CloseRows \subseteq Rows
      BY DEF Rows
    <2>1. \A r, t \in R : r.lot = t.lot => r = t
      BY OneOrderPerLot DEF Managed
    <2>2. pc \notin OpenRunSteps
      BY DEF ClosingInv
    <2>3. ASSUME NEW r \in R PROVE r.lot \in Lots /\ LotState(r.lot) = "held"
      <3>1. /\ status[r] = "PLACED" /\ order[r] = "filled" /\ r.lot \notin fired
            /\ r \in PlacedLots(status) /\ r.lot \in Lots
        BY RowKinds DEF Managed, PlacedLots
      <3>2. \A c \in CloseRows : c.lot = r.lot => order[c] = "none"
        BY <2>2, <2>a, <3>1 DEF SoldInv, InClosing
      <3>3. QED
        BY <3>1, <3>2, LotStates
    <2>4. ASSUME NEW l \in Lots, LotState(l) = "held" PROVE \E r \in R : r.lot = l
      <3>1. PICK r \in OpenRows : r.lot = l /\ order[r] = "filled"
        BY <2>4, LotStates
      <3>2. l \notin fired /\ \A c \in CloseRows : c.lot = l => order[c] # "filled"
        BY <2>4, LotStates
      <3>3. status[r] \in {"PLACED", "CLOSED"}
        BY <2>2, <2>a, <3>1 DEF MarkedInv, BatchInv, Submitting, OpenRunSteps
      <3>4. ASSUME status[r] = "CLOSED" PROVE FALSE
        <4>1. PICK c \in CloseRows : c.lot = l /\ status[c] = "PLACED"
          BY <3>1, <3>2, <3>4 DEF ExplainInv, ClosedIsExplained, MarkedInv
        <4>2. order[c] # "none"
          BY <4>1, <2>a DEF PlacedInv, PlacedHasOrder
        <4>3. order[c] \notin {"working", "expired"}
          BY <2>a DEF FilledInv
        <4>4. QED
          BY <4>1, <4>2, <4>3, <3>2, <2>a DEF TypeInv, TypeOK, OrderState
      <3>5. QED
        BY <3>1, <3>2, <3>3, <3>4 DEF Managed
    <2>5. HeldLots(s) = {l \in Lots : l[2] = s /\ \E r \in R : r.lot = l}
      BY <2>3, <2>4 DEF HeldLots
    <2>6. {r \in OpenRows : Managed(r) /\ Symbol(r) = s} = {r \in R : Symbol(r) = s}
      OBVIOUS
    <2>7. R \subseteq Rows
      BY <2>a
    <2>8. Traded(R, s) = Cardinality(HeldLots(s))
      BY <2>1, <2>5, <2>7, LotsOfRows
    <2>9. QED
      BY <2>6, <2>8 DEF PosInv, Traded
  <1>3. QED
    BY <1>1, <1>2, BookInvInit, BookInvStep, PosStep, PTL DEF Spec

=============================================================================
