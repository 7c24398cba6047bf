-------------------------- MODULE SettlementProofs --------------------------
(***************************************************************************)
(* Three promises of the settlement, for any number of symbols and         *)
(* sessions, any horizon and smallest group.                               *)
(*                                                                         *)
(* QuintilesCurrent: jobs that settle side by side leave no date ranked    *)
(* over a part of its returns, as long as the process does not die.  While *)
(* a job ranks it keeps the bar store open, so that no bar changes;        *)
(* everything that could be settled was settled by its commit, so that no  *)
(* group grows; hence a group that was read is still whole when it is      *)
(* written, and a job that lost its write to the lock of another had       *)
(* selected the same rows as that one.                                     *)
(*                                                                         *)
(* HorizonExact: under every fault, a return covers exactly the horizon,   *)
(* as long as no more refreshes are lost than the overlap window and one   *)
(* beside it make up for.  The store never has a hole: each refresh starts *)
(* at or before the first bar that is missing or partial.                  *)
(*                                                                         *)
(* ReturnsStay: a return is written once.  Nothing is left to settle when  *)
(* the refresh of an evening begins, so whoever settles a row again finds  *)
(* the bars that it was settled from.                                      *)
(***************************************************************************)
EXTENDS Settlement, FiniteSetTheorems, WellFoundedInduction, TLAPS

(***************************************************************************)
(* The inductive invariant, part by part                                   *)
(***************************************************************************)

\* The variables that the steps update at one job.
JobTypes ==
    /\ agenda \in [Jobs -> Seq(Steps)]
    /\ at \in [Jobs -> Places]
    /\ todo \in [Jobs -> SUBSET Rows]
    /\ groups \in [Jobs -> SUBSET Days]
    /\ snapshot \in [Jobs -> SUBSET Rows]
    /\ dirty \in [Jobs -> SUBSET (SUBSET Rows)]
    /\ day \in Days

Ranking(j) == at[j] \in {"rank", "write"}

\* A step in progress belongs to a job that is running.
Running == \A j \in Jobs : at[j] # "next" => agenda[j] # << >>

\* The write lock: a job about to commit returns holds it, and a job holds it
\* only between an update and its commit.
LockInv ==
    /\ \A j \in Jobs : at[j] = "commit" => writer = j
    /\ writer \in Jobs => at[writer] \in {"commit", "rank", "write"}
    /\ writer \in Jobs \cup {Nobody}

\* The bar store is open for reading or for writing, never for both.
StoreInv == ~(StoreOpenForReading /\ StoreOpenForWriting)

\* Only a ranking job has groups, and every group it has read is still whole.
GroupsInv ==
    \A j \in Jobs :
        /\ ~Ranking(j) => groups[j] = {} /\ dirty[j] = {}
        /\ at[j] # "write" => snapshot[j] = {}
        /\ at[j] = "write" => \E p \in Days : snapshot[j] = Group(p)
        /\ \A g \in dirty[j] : \E p \in Days : g = Group(p)

\* Rows that were logged early enough.
Eligible(r) == prediction[r] # "none" /\ AsOf(r) + Horizon <= day

\* Whatever can be settled has been selected by every job that selected before.
TodoInv ==
    \A j \in Jobs :
        /\ at[j] \in {"connect", "settle"} =>
              /\ \A r \in todo[j] : Eligible(r)
              /\ \A r \in Rows : Open(r) => r \in todo[j]
        /\ at[j] = "commit" =>
              /\ \A r \in todo[j] : Eligible(r) /\ Matured(r)
              /\ \A r \in Rows : Open(r) /\ Matured(r) => r \in todo[j]

\* Nothing is left to settle.
Exhausted == \A r \in Rows : Open(r) => ~Matured(r)

Unranked == {p \in Days : ~Ranked(p)}

ExhaustedInv == Unranked # {} \/ (\E j \in Jobs : Ranking(j)) => Exhausted

\* Job j, which is ranking, still has date p to write.
WillRank(j, p) ==
    \/ p \in groups[j]
    \/ at[j] = "write" /\ snapshot[j] = Group(p)
    \/ Group(p) \in dirty[j]

\* Every job on its way to the ranking of anything ranks every unranked date,
\* and there is such a job.
RankInv ==
    \A p \in Unranked :
        /\ \E j \in Jobs : at[j] \in {"commit", "rank", "write"}
        /\ \A j \in Jobs :
              /\ Ranking(j) => WillRank(j, p)
              /\ at[j] = "commit" => \E r \in todo[j] : AsOf(r) = p
              /\ at[j] \in {"connect", "settle"} /\ (\E r \in todo[j] : Matured(r)) =>
                    \E r \in todo[j] : Matured(r) /\ AsOf(r) = p

RankingInv ==
    /\ JobTypes /\ Running /\ LockInv /\ StoreInv
    /\ GroupsInv /\ TodoInv /\ ExhaustedInv /\ RankInv

-----------------------------------------------------------------------------
(* Types, running jobs, and the two locks *)

\* The process does not die in the middle of a settlement.
NeverDies == "crash" \notin Faults

\* A step that ends leaves its job well-typed.
LEMMA StepOverTypes ==
    ASSUME JobTypes, Running, NEW j \in Jobs, at[j] # "next" \/ agenda[j] # << >>, StepOver(j)
    PROVE  /\ agenda' \in [Jobs -> Seq(Steps)]
           /\ at' \in [Jobs -> Places]
           /\ \A i \in Jobs : at'[i] # "next" => agenda'[i] # << >>
  <1>1. agenda[j] \in Seq(Steps) /\ agenda[j] # << >>
    BY DEF JobTypes, Running
  <1>2. Tail(agenda[j]) \in Seq(Steps)
    BY <1>1
  <1>3. "next" \in Places
    BY DEF Places
  <1>4. QED
    BY <1>2, <1>3 DEF StepOver, JobTypes, Running

\* So does the return of settle_predictions.
LEMMA SettleReturnsTypes ==
    ASSUME JobTypes, Running, NEW j \in Jobs, at[j] # "next" \/ agenda[j] # << >>, SettleReturns(j)
    PROVE  /\ agenda' \in [Jobs -> Seq(Steps)]
           /\ at' \in [Jobs -> Places]
           /\ \A i \in Jobs : at'[i] # "next" => agenda'[i] # << >>
           /\ at'[j] \in {"next", "members"}
           /\ \A i \in Jobs \ {j} : at'[i] = at[i]
  <1>1. CASE StepOver(j)
    BY <1>1, StepOverTypes DEF StepOver, JobTypes
  <1>2. CASE at' = [at EXCEPT ![j] = "members"] /\ UNCHANGED agenda
    BY <1>2 DEF JobTypes, Running, Places
  <1>3. QED
    BY <1>1, <1>2 DEF SettleReturns

\* Every step keeps the types of the jobs' variables.
LEMMA TypesStep == JobTypes /\ Running /\ [Next]_vars => JobTypes' /\ Running'
  <1> SUFFICES ASSUME JobTypes, Running, [Next]_vars
               PROVE  JobTypes' /\ Running'
    OBVIOUS
  <1> USE DEF clockVars, logVars, jobVars
  <1>0. "next" \in Places /\ "download" \in Places /\ "connect" \in Places /\ "settle" \in Places
        /\ "commit" \in Places /\ "rank" \in Places /\ "write" \in Places
        /\ "members" \in Places /\ "features" \in Places /\ "log" \in Places
    BY DEF Places
  <1>1. ASSUME NEW j \in Jobs, StartJob(j) PROVE JobTypes' /\ Running'
    <2>1. Script(j) \in Seq(Steps) /\ Script(j) # << >>
      <3>1. j \in JobNames
        BY SettlementAssumption
      <3>2. <<"refresh", "predict", "catchup">> \in Seq(Steps) /\ <<"predict">> \in Seq(Steps)
            /\ <<"catchup">> \in Seq(Steps)
        BY DEF Steps
      <3>3. QED
        BY <3>1, <3>2 DEF Script, JobNames
    <2>2. QED
      BY <1>1, <2>1 DEF StartJob, JobTypes, Running
  <1>2. ASSUME NEW j \in Jobs, BeginRefresh(j) PROVE JobTypes' /\ Running'
    <2>1. CASE StoreOpenForReading
      BY <1>2, <2>1, StepOverTypes DEF BeginRefresh, Begins, JobTypes, Running
    <2>2. CASE ~StoreOpenForReading
      <3>1. {r \in Rows : AsOf(r) = day} \subseteq Rows
        OBVIOUS
      <3>2. todo' \in [Jobs -> SUBSET Rows]
        BY <1>2, <2>2, <3>1 DEF BeginRefresh, JobTypes
      <3>3. at' = [at EXCEPT ![j] = "download"] /\ agenda[j] # << >>
            /\ UNCHANGED <<agenda, groups, snapshot, dirty, day>>
        BY <1>2, <2>2 DEF BeginRefresh, Begins
      <3>4. QED
        BY <1>0, <3>2, <3>3 DEF JobTypes, Running
    <2>3. QED
      BY <2>1, <2>2
  <1>3. ASSUME NEW j \in Jobs, NEW r \in todo[j], Download(j, r) PROVE JobTypes' /\ Running'
    BY <1>3 DEF Download, JobTypes, Running
  <1>4. ASSUME NEW j \in Jobs, RefreshEnds(j) PROVE JobTypes' /\ Running'
    BY <1>4, StepOverTypes DEF RefreshEnds, JobTypes, Running
  <1>5. ASSUME NEW j \in Jobs, SettleSelects(j) PROVE JobTypes' /\ Running'
    <2>1. todo' \in [Jobs -> SUBSET Rows]
      BY <1>5 DEF SettleSelects, JobTypes
    <2>2. CASE SettleReturns(j)
      BY <1>5, <2>1, <2>2, SettleReturnsTypes DEF SettleSelects, Begins, JobTypes, Running
    <2>3. CASE at' = [at EXCEPT ![j] = "connect"] /\ UNCHANGED agenda
      BY <1>0, <1>5, <2>1, <2>3 DEF SettleSelects, Begins, JobTypes, Running
    <2>4. QED
      BY <1>5, <2>2, <2>3 DEF SettleSelects
  <1>6. ASSUME NEW j \in Jobs, SettleConnects(j) PROVE JobTypes' /\ Running'
    <2>1. CASE StepOver(j) /\ todo' = [todo EXCEPT ![j] = {}]
      BY <1>6, <2>1, StepOverTypes DEF SettleConnects, JobTypes, Running
    <2>2. CASE at' = [at EXCEPT ![j] = "settle"] /\ UNCHANGED <<agenda, todo>>
      BY <1>0, <1>6, <2>2 DEF SettleConnects, JobTypes, Running
    <2>3. QED
      BY <1>6, <2>1, <2>2 DEF SettleConnects
  <1>7. ASSUME NEW j \in Jobs, SettleRows(j) PROVE JobTypes' /\ Running'
    <2>1. todo' \in [Jobs -> SUBSET Rows]
      BY <1>7 DEF SettleRows, JobTypes
    <2>2. CASE SettleReturns(j)
      BY <1>7, <2>1, <2>2, SettleReturnsTypes DEF SettleRows, JobTypes, Running
    <2>3. CASE at' = [at EXCEPT ![j] = "commit"] /\ UNCHANGED agenda
      BY <1>0, <1>7, <2>1, <2>3 DEF SettleRows, JobTypes, Running
    <2>4. QED
      BY <1>7, <2>2, <2>3 DEF SettleRows
  <1>8. ASSUME NEW j \in Jobs, CommitReturns(j) PROVE JobTypes' /\ Running'
    <2>1. {AsOf(r) : r \in todo[j]} \subseteq Days
      BY DEF JobTypes, Rows, AsOf
    <2>2. QED
      BY <1>0, <1>8, <2>1 DEF CommitReturns, JobTypes, Running
  <1>9. ASSUME NEW j \in Jobs, NEW p \in groups[j], ReadGroup(j, p) PROVE JobTypes' /\ Running'
    <2>1. Group(p) \subseteq Rows
      BY DEF Group
    <2>2. QED
      BY <1>0, <1>9, <2>1 DEF ReadGroup, JobTypes, Running
  <1>10. ASSUME NEW j \in Jobs, WriteGroup(j) PROVE JobTypes' /\ Running'
    BY <1>0, <1>10 DEF WriteGroup, JobTypes, Running
  <1>11. ASSUME NEW j \in Jobs, CommitQuintiles(j) PROVE JobTypes' /\ Running'
    BY <1>11, SettleReturnsTypes DEF CommitQuintiles, JobTypes, Running
  <1>12. ASSUME NEW j \in Jobs, LockTimeout(j) PROVE JobTypes' /\ Running'
    <2>1. at[j] # "next"
      BY <1>12 DEF LockTimeout
    <2>2. QED
      BY <1>12, <2>1, StepOverTypes DEF LockTimeout, Dropped, JobTypes, Running
  <1>13. ASSUME NEW j \in Jobs, PredictFails(j) PROVE JobTypes' /\ Running'
    BY <1>13, StepOverTypes DEF PredictFails, JobTypes, Running
  <1>14. ASSUME NEW j \in Jobs, OpenFeatures(j) PROVE JobTypes' /\ Running'
    BY <1>0, <1>14 DEF OpenFeatures, JobTypes, Running
  <1>15. ASSUME NEW j \in Jobs, ComputePredictions(j) PROVE JobTypes' /\ Running'
    <2>1. CASE StepOver(j)
      BY <1>15, <2>1, StepOverTypes DEF ComputePredictions, JobTypes, Running
    <2>2. CASE at' = [at EXCEPT ![j] = "log"] /\ UNCHANGED agenda
      BY <1>0, <1>15, <2>2 DEF ComputePredictions, JobTypes, Running
    <2>3. QED
      BY <1>15, <2>1, <2>2 DEF ComputePredictions
  <1>16. ASSUME NEW j \in Jobs, LogPredictions(j) PROVE JobTypes' /\ Running'
    BY <1>16, StepOverTypes DEF LogPredictions, JobTypes, Running
  <1>17. CASE NextSession
    BY <1>17, SettlementAssumption DEF NextSession, jobVars, JobTypes, Running, Days
  <1>18. CASE Crash
    BY <1>0, <1>18 DEF Crash, JobTypes, Running
  <1>19. CASE EndOfHorizon \/ UNCHANGED vars
    BY <1>19 DEF EndOfHorizon, vars, JobTypes, Running
  <1>20. QED
    BY <1>1, <1>2, <1>3, <1>4, <1>5, <1>6, <1>7, <1>8, <1>9, <1>10, <1>11, <1>12,
       <1>13, <1>14, <1>15, <1>16, <1>17, <1>18, <1>19 DEF Next, JobStep

\* Every step keeps the two locks: no job reads the bar store while another
\* writes it, and the holder of the write lock has something to commit.
LEMMA LocksStep ==
    JobTypes /\ LockInv /\ StoreInv /\ [Next]_vars => LockInv' /\ StoreInv'
  <1> SUFFICES ASSUME JobTypes, LockInv, StoreInv, [Next]_vars
               PROVE  LockInv' /\ StoreInv'
    OBVIOUS
  <1> USE DEF clockVars, logVars, jobVars, LockInv, StoreInv, StoreOpenForReading,
              StoreOpenForWriting
  <1>0. Nobody \notin Jobs
    BY SettlementAssumption DEF JobNames, Nobody
  <1>1. at \in [Jobs -> Places] /\ JobTypes
    BY DEF JobTypes
  <1>2. ASSUME NEW j \in Jobs, StepOver(j), UNCHANGED writer, at[j] \notin {"commit", "rank", "write"}
        PROVE  LockInv' /\ StoreInv'
    BY <1>0, <1>1, <1>2 DEF StepOver
  <1>3. ASSUME NEW j \in Jobs, StartJob(j) PROVE LockInv' /\ StoreInv'
    BY <1>3 DEF StartJob
  <1>4. ASSUME NEW j \in Jobs, BeginRefresh(j) PROVE LockInv' /\ StoreInv'
    BY <1>0, <1>1, <1>2, <1>4 DEF BeginRefresh, Begins
  <1>5. ASSUME NEW j \in Jobs, NEW r \in todo[j], Download(j, r) PROVE LockInv' /\ StoreInv'
    BY <1>5 DEF Download
  <1>6. ASSUME NEW j \in Jobs, RefreshEnds(j) PROVE LockInv' /\ StoreInv'
    BY <1>2, <1>6 DEF RefreshEnds
  <1>7. ASSUME NEW j \in Jobs, SettleSelects(j) PROVE LockInv' /\ StoreInv'
    BY <1>0, <1>1, <1>2, <1>7 DEF SettleSelects, Begins, SettleReturns
  <1>8. ASSUME NEW j \in Jobs, SettleConnects(j) PROVE LockInv' /\ StoreInv'
    BY <1>0, <1>1, <1>2, <1>8 DEF SettleConnects
  <1>9. ASSUME NEW j \in Jobs, SettleRows(j) PROVE LockInv' /\ StoreInv'
    BY <1>0, <1>1, <1>2, <1>9 DEF SettleRows, SettleReturns, CanWrite
  <1>10. ASSUME NEW j \in Jobs, CommitReturns(j) PROVE LockInv' /\ StoreInv'
    BY <1>0, <1>1, <1>10 DEF CommitReturns
  <1>11. ASSUME NEW j \in Jobs, NEW p \in groups[j], ReadGroup(j, p) PROVE LockInv' /\ StoreInv'
    BY <1>0, <1>1, <1>11 DEF ReadGroup
  <1>12. ASSUME NEW j \in Jobs, WriteGroup(j) PROVE LockInv' /\ StoreInv'
    BY <1>0, <1>1, <1>12 DEF WriteGroup, CanWrite
  <1>13. ASSUME NEW j \in Jobs, CommitQuintiles(j) PROVE LockInv' /\ StoreInv'
    BY <1>0, <1>1, <1>13 DEF CommitQuintiles, SettleReturns, StepOver
  <1>14. ASSUME NEW j \in Jobs, LockTimeout(j) PROVE LockInv' /\ StoreInv'
    BY <1>0, <1>1, <1>14 DEF LockTimeout, StepOver, CanWrite
  <1>15. ASSUME NEW j \in Jobs, PredictFails(j) PROVE LockInv' /\ StoreInv'
    BY <1>2, <1>15 DEF PredictFails
  <1>16. ASSUME NEW j \in Jobs, OpenFeatures(j) PROVE LockInv' /\ StoreInv'
    BY <1>0, <1>1, <1>16 DEF OpenFeatures
  <1>17. ASSUME NEW j \in Jobs, ComputePredictions(j) PROVE LockInv' /\ StoreInv'
    BY <1>0, <1>1, <1>2, <1>17 DEF ComputePredictions
  <1>18. ASSUME NEW j \in Jobs, LogPredictions(j) PROVE LockInv' /\ StoreInv'
    BY <1>2, <1>18 DEF LogPredictions
  <1>19. CASE NextSession
    BY <1>19 DEF NextSession
  <1>20. CASE Crash
    BY <1>0, <1>20 DEF Crash
  <1>21. CASE EndOfHorizon \/ UNCHANGED vars
    BY <1>21 DEF EndOfHorizon, vars
  <1>22. QED
    BY <1>3, <1>4, <1>5, <1>6, <1>7, <1>8, <1>9, <1>10, <1>11, <1>12, <1>13, <1>14,
       <1>15, <1>16, <1>17, <1>18, <1>19, <1>20, <1>21 DEF Next, JobStep

\* There are finitely many rows.
LEMMA RowsFinite == IsFiniteSet(Rows)
  <1>1. IsFiniteSet(Symbols) /\ MaxDay \in Nat
    BY SettlementAssumption
  <1>2. IsFiniteSet(1..MaxDay)
    BY <1>1, FS_Interval
  <1>3. IsFiniteSet(Symbols \X (1..MaxDay))
    BY <1>1, <1>2, FS_Product
  <1>4. QED
    BY <1>3 DEF Rows, Days

-----------------------------------------------------------------------------
(* Steps that leave the log and the store alone *)

SettleInv == GroupsInv /\ TodoInv /\ ExhaustedInv /\ RankInv

\* What the invariant says of rows and dates is a matter of these variables.
LEMMA Frame ==
    ASSUME UNCHANGED <<day, bars, prediction, realized, quintile>>
    PROVE  /\ \A r : Open(r)' = Open(r)
           /\ \A r : Eligible(r)' = Eligible(r)
           /\ \A r : Matured(r)' = Matured(r)
           /\ \A p : Group(p)' = Group(p)
           /\ Unranked' = Unranked
           /\ Exhausted' = Exhausted
  <1>1. \A r : Settled(r)' = Settled(r)
    BY DEF Settled
  <1>2. \A r : Open(r)' = Open(r)
    BY <1>1 DEF Open
  <1>3. \A r : Eligible(r)' = Eligible(r)
    BY DEF Eligible
  <1>4. \A r : Matured(r)' = Matured(r)
    BY DEF Matured, BarsAfter, BarDays
  <1>5. \A p : Group(p)' = Group(p)
    BY <1>1 DEF Group
  <1>6. \A p : Ranked(p)' = Ranked(p)
    BY <1>5 DEF Ranked
  <1>7. QED
    BY <1>2, <1>3, <1>4, <1>5, <1>6 DEF Unranked, Exhausted

\* A job that is not on its way to a ranking after the step, and that was not
\* the last to rank the dates that are unranked, disturbs nothing.
LEMMA QuietStep ==
    ASSUME JobTypes, SettleInv, NEW j \in Jobs,
           UNCHANGED <<day, bars, prediction, realized, quintile>>,
           JobTypes',
           at'[j] \notin {"connect", "settle", "commit", "rank", "write"},
           groups'[j] = {}, snapshot'[j] = {}, dirty'[j] = {},
           \A i \in Jobs \ {j} :
               /\ at'[i] = at[i] /\ todo'[i] = todo[i] /\ groups'[i] = groups[i]
               /\ snapshot'[i] = snapshot[i] /\ dirty'[i] = dirty[i],
           at[j] \in {"commit", "rank", "write"} =>
               \E i \in Jobs \ {j} : at[i] \in {"commit", "rank", "write"}
    PROVE  SettleInv'
  <1> USE Frame
  <1>1. GroupsInv'
    BY DEF SettleInv, GroupsInv, Ranking
  <1>2. TodoInv'
    BY DEF SettleInv, TodoInv
  <1>3. \A i \in Jobs : Ranking(i)' => Ranking(i)
    BY DEF Ranking
  <1>4. ExhaustedInv'
    BY <1>3 DEF SettleInv, ExhaustedInv
  <1>5. RankInv'
    <2> SUFFICES ASSUME NEW p \in Unranked
                 PROVE  /\ \E i \in Jobs : at'[i] \in {"commit", "rank", "write"}
                        /\ \A i \in Jobs :
                              /\ Ranking(i)' => WillRank(i, p)'
                              /\ at'[i] = "commit" => \E r \in todo'[i] : AsOf(r) = p
                              /\ at'[i] \in {"connect", "settle"} /\ (\E r \in todo'[i] : Matured(r)) =>
                                    \E r \in todo'[i] : Matured(r) /\ AsOf(r) = p
      BY DEF RankInv, AsOf
    <2>1. \E i \in Jobs : at'[i] \in {"commit", "rank", "write"}
      BY DEF SettleInv, RankInv
    <2>2. ASSUME NEW i \in Jobs, i # j
          PROVE  /\ Ranking(i)' => WillRank(i, p)'
                 /\ at'[i] = "commit" => \E r \in todo'[i] : AsOf(r) = p
                 /\ at'[i] \in {"connect", "settle"} /\ (\E r \in todo'[i] : Matured(r)) =>
                       \E r \in todo'[i] : Matured(r) /\ AsOf(r) = p
      BY <2>2 DEF SettleInv, RankInv, Ranking, WillRank
    <2>3. QED
      BY <2>1, <2>2 DEF Ranking
  <1>6. QED
    BY <1>1, <1>2, <1>4, <1>5 DEF SettleInv

\* Starting a job, the refresh, and a prediction that is not logged.
LEMMA OtherSteps ==
    ASSUME RankingInv, JobTypes', NEW j \in Jobs,
           \/ StartJob(j) \/ BeginRefresh(j) \/ RefreshEnds(j)
           \/ PredictFails(j) \/ OpenFeatures(j) \/ ComputePredictions(j)
    PROVE  SettleInv'
  <1> USE DEF clockVars, logVars, jobVars
  <1>1. JobTypes /\ Running /\ SettleInv
    BY DEF RankingInv, SettleInv
  <1>2. at[j] \notin {"connect", "settle", "commit", "rank", "write"}
    BY <1>1 DEF StartJob, BeginRefresh, Begins, RefreshEnds, PredictFails, OpenFeatures,
                ComputePredictions, Running
  <1>3. groups[j] = {} /\ dirty[j] = {} /\ snapshot[j] = {}
    BY <1>1, <1>2 DEF SettleInv, GroupsInv, Ranking
  <1>4. UNCHANGED <<day, bars, prediction, realized, quintile, groups, dirty, snapshot>>
    BY DEF StartJob, BeginRefresh, RefreshEnds, PredictFails, OpenFeatures, ComputePredictions
  <1>5. at'[j] \notin {"connect", "settle", "commit", "rank", "write"}
        /\ \A i \in Jobs \ {j} : at'[i] = at[i] /\ todo'[i] = todo[i]
    BY <1>1, <1>2 DEF JobTypes, StartJob, BeginRefresh, RefreshEnds, PredictFails, OpenFeatures,
                      ComputePredictions, StepOver
  <1>6. QED
    BY <1>1, <1>2, <1>3, <1>4, <1>5, QuietStep

\* A bar changes only while no job ranks and no date waits to be ranked.
LEMMA DownloadStep ==
    ASSUME RankingInv, NEW j \in Jobs, NEW r0 \in todo[j], Download(j, r0)
    PROVE  SettleInv'
  <1> USE DEF clockVars, logVars, jobVars
  <1>1. JobTypes /\ StoreInv /\ SettleInv
    BY DEF RankingInv, SettleInv
  <1>2. UNCHANGED <<day, prediction, realized, quintile, at, groups, snapshot, dirty>>
        /\ at[j] = "download" /\ \A i \in Jobs \ {j} : todo'[i] = todo[i]
    BY <1>1 DEF Download, JobTypes
  <1>3. \A i \in Jobs : at[i] \notin {"settle", "commit", "rank", "write"}
    BY <1>1, <1>2 DEF StoreInv, StoreOpenForReading, StoreOpenForWriting
  <1>4. \A r : Settled(r)' = Settled(r)
    BY <1>2 DEF Settled
  <1>5. \A p : Group(p)' = Group(p)
    BY <1>4 DEF Group
  <1>6. Unranked' = Unranked
    BY <1>2, <1>5 DEF Unranked, Ranked
  <1>7. Unranked = {}
    BY <1>1, <1>3 DEF SettleInv, RankInv
  <1>8. GroupsInv'
    BY <1>1, <1>2, <1>5 DEF SettleInv, GroupsInv, Ranking
  <1>9. TodoInv'
    BY <1>1, <1>2, <1>3, <1>4 DEF SettleInv, TodoInv, Eligible, Open
  <1>10. ExhaustedInv'
    BY <1>2, <1>3, <1>6, <1>7 DEF ExhaustedInv, Ranking
  <1>11. RankInv'
    BY <1>6, <1>7 DEF RankInv
  <1>12. QED
    BY <1>8, <1>9, <1>10, <1>11 DEF SettleInv

\* A new prediction is of today, and none of today's rows can be settled yet.
LEMMA LogStep ==
    ASSUME RankingInv, NEW j \in Jobs, LogPredictions(j)
    PROVE  SettleInv'
  <1> USE DEF clockVars, logVars, jobVars
  <1>1. JobTypes /\ SettleInv
    BY DEF RankingInv, SettleInv
  <1>2. UNCHANGED <<day, bars, realized, quintile, todo, groups, snapshot, dirty>>
        /\ at[j] = "log" /\ at' = [at EXCEPT ![j] = "next"]
    BY DEF LogPredictions, StepOver
  <1>3. at'[j] = "next" /\ \A i \in Jobs \ {j} : at'[i] = at[i]
    BY <1>1, <1>2 DEF JobTypes
  <1>4. \A r : Settled(r)' = Settled(r) /\ Matured(r)' = Matured(r)
    BY <1>2 DEF Settled, Matured, BarsAfter, BarDays
  <1>5. \A r \in Rows : AsOf(r) + Horizon <= day => prediction'[r] = prediction[r]
    <2>1. day \in Nat /\ Horizon \in Nat \ {0}
      BY <1>1, SettlementAssumption DEF JobTypes, Days
    <2>2. \A r \in Rows : AsOf(r) + Horizon <= day => AsOf(r) # day
      BY <2>1
    <2>3. QED
      BY <2>2 DEF LogPredictions, Logged
  <1>6. \A r \in Rows : Open(r)' = Open(r) /\ Eligible(r)' = Eligible(r)
    BY <1>2, <1>4, <1>5 DEF Open, Eligible
  <1>7. \A p : Group(p)' = Group(p)
    BY <1>4 DEF Group
  <1>8. Unranked' = Unranked
    BY <1>2, <1>7 DEF Unranked, Ranked
  <1>9. Exhausted' = Exhausted
    BY <1>4, <1>6 DEF Exhausted
  <1>10. \A i \in Jobs : Ranking(i)' = Ranking(i)
    BY <1>2, <1>3 DEF Ranking
  <1>11. GroupsInv'
    BY <1>1, <1>2, <1>3, <1>7, <1>10 DEF SettleInv, GroupsInv
  <1>12. TodoInv'
    BY <1>1, <1>2, <1>3, <1>4, <1>6 DEF SettleInv, TodoInv, JobTypes
  <1>13. ExhaustedInv'
    BY <1>1, <1>8, <1>9, <1>10 DEF SettleInv, ExhaustedInv
  <1>14. RankInv'
    BY <1>1, <1>2, <1>3, <1>4, <1>7, <1>8, <1>10 DEF SettleInv, RankInv, WillRank
  <1>15. QED
    BY <1>11, <1>12, <1>13, <1>14 DEF SettleInv

\* The day goes on when no job runs.
LEMMA SessionStep ==
    ASSUME RankingInv, NextSession
    PROVE  SettleInv'
  <1> USE DEF clockVars, logVars, jobVars
  <1>1. JobTypes /\ Running /\ SettleInv
    BY DEF RankingInv, SettleInv
  <1>2. UNCHANGED <<bars, prediction, realized, quintile, at, todo, groups, snapshot, dirty>>
    BY DEF NextSession
  <1>3. \A i \in Jobs : at[i] = "next"
    BY <1>1 DEF NextSession, Idle, Running
  <1>4. \A p : Group(p)' = Group(p)
    BY <1>2 DEF Group, Settled
  <1>5. Unranked' = Unranked
    BY <1>2, <1>4 DEF Unranked, Ranked
  <1>6. Unranked = {}
    BY <1>1, <1>3 DEF SettleInv, RankInv
  <1>7. GroupsInv'
    BY <1>1, <1>2, <1>4 DEF SettleInv, GroupsInv, Ranking
  <1>8. TodoInv' /\ ExhaustedInv' /\ RankInv'
    BY <1>2, <1>3, <1>5, <1>6 DEF TodoInv, ExhaustedInv, RankInv, Ranking
  <1>9. QED
    BY <1>7, <1>8 DEF SettleInv

-----------------------------------------------------------------------------
(* The steps of settle_predictions *)

\* settle_predictions returns, with nothing left of it.
LEMMA ReturnStep ==
    ASSUME RankingInv, JobTypes', NEW j \in Jobs, SettleReturns(j),
           at[j] \in {"next", "settle"},
           UNCHANGED <<day, bars, prediction, realized, quintile, groups, snapshot, dirty>>,
           \A i \in Jobs \ {j} : todo'[i] = todo[i]
    PROVE  SettleInv'
  <1>1. JobTypes /\ SettleInv
    BY DEF RankingInv, SettleInv
  <1>2. groups[j] = {} /\ dirty[j] = {} /\ snapshot[j] = {}
    BY <1>1 DEF SettleInv, GroupsInv, Ranking
  <1>3. at'[j] \in {"next", "members"} /\ \A i \in Jobs \ {j} : at'[i] = at[i]
    BY <1>1 DEF JobTypes, SettleReturns, StepOver
  <1>4. QED
    BY <1>1, <1>2, <1>3, QuietStep

\* What a job selects while a date is unranked is not ready to be settled.
LEMMA SelectsStep ==
    ASSUME RankingInv, JobTypes', NEW j \in Jobs, SettleSelects(j)
    PROVE  SettleInv'
  <1> USE DEF clockVars, logVars, jobVars
  <1>1. JobTypes /\ SettleInv
    BY DEF RankingInv, SettleInv
  <1>2. /\ UNCHANGED <<day, bars, prediction, realized, quintile, groups, snapshot, dirty>>
        /\ at[j] = "next"
        /\ todo'[j] = {r \in Rows : Open(r)}
        /\ \A i \in Jobs \ {j} : todo'[i] = todo[i]
    BY <1>1 DEF SettleSelects, Begins, JobTypes
  <1>3. CASE SettleReturns(j)
    BY <1>2, <1>3, ReturnStep
  <1>4. CASE at' = [at EXCEPT ![j] = "connect"]
    <2> USE Frame
    <2>1. at'[j] = "connect" /\ \A i \in Jobs \ {j} : at'[i] = at[i]
      BY <1>1, <1>4 DEF JobTypes
    <2>2. \A i \in Jobs : Ranking(i)' = Ranking(i)
      BY <1>2, <2>1 DEF Ranking
    <2>3. GroupsInv'
      BY <1>1, <1>2, <2>1, <2>2 DEF SettleInv, GroupsInv
    <2>4. \A r \in todo'[j] : r \in Rows /\ Open(r) /\ Eligible(r)
      BY <1>2 DEF Open, Eligible
    <2>5. TodoInv'
      BY <1>1, <1>2, <2>1, <2>4 DEF SettleInv, TodoInv
    <2>6. ExhaustedInv'
      BY <1>1, <1>2, <2>2 DEF SettleInv, ExhaustedInv
    <2>7. Unranked # {} => ~\E r \in todo'[j] : Matured(r)
      BY <1>1, <2>4 DEF SettleInv, ExhaustedInv, Exhausted
    <2>8. RankInv'
      BY <1>1, <1>2, <2>1, <2>2, <2>7 DEF SettleInv, RankInv, WillRank, AsOf
    <2>9. QED
      BY <2>3, <2>5, <2>6, <2>8 DEF SettleInv
  <1>5. QED
    BY <1>3, <1>4 DEF SettleSelects

\* The connection changes nothing, or ends the step of the job.
LEMMA ConnectsStep ==
    ASSUME RankingInv, JobTypes', NEW j \in Jobs, SettleConnects(j)
    PROVE  SettleInv'
  <1> USE DEF clockVars, logVars, jobVars
  <1>1. JobTypes /\ SettleInv
    BY DEF RankingInv, SettleInv
  <1>2. /\ UNCHANGED <<day, bars, prediction, realized, quintile, groups, snapshot, dirty>>
        /\ at[j] = "connect"
    BY DEF SettleConnects
  <1>3. groups[j] = {} /\ dirty[j] = {} /\ snapshot[j] = {}
    BY <1>1, <1>2 DEF SettleInv, GroupsInv, Ranking
  <1>4. CASE StepOver(j) /\ todo' = [todo EXCEPT ![j] = {}]
    <2>1. at'[j] = "next" /\ \A i \in Jobs \ {j} : at'[i] = at[i] /\ todo'[i] = todo[i]
      BY <1>1, <1>4 DEF JobTypes, StepOver
    <2>2. QED
      BY <1>1, <1>2, <1>3, <2>1, QuietStep
  <1>5. CASE at' = [at EXCEPT ![j] = "settle"] /\ UNCHANGED <<agenda, todo>>
    <2> USE Frame
    <2>1. at'[j] = "settle" /\ \A i \in Jobs \ {j} : at'[i] = at[i]
      BY <1>1, <1>5 DEF JobTypes
    <2>2. \A i \in Jobs : Ranking(i)' = Ranking(i)
      BY <1>2, <2>1 DEF Ranking
    <2>3. GroupsInv'
      BY <1>1, <1>2, <2>1, <2>2 DEF SettleInv, GroupsInv
    <2>4. TodoInv'
      BY <1>1, <1>2, <1>5, <2>1 DEF SettleInv, TodoInv
    <2>5. ExhaustedInv'
      BY <1>1, <1>2, <2>2 DEF SettleInv, ExhaustedInv
    <2>6. RankInv'
      BY <1>1, <1>2, <1>5, <2>1, <2>2 DEF SettleInv, RankInv, WillRank, AsOf
    <2>7. QED
      BY <2>3, <2>4, <2>5, <2>6 DEF SettleInv
  <1>6. QED
    BY <1>4, <1>5 DEF SettleConnects

\* The rows that are settled include some of every unranked date.
LEMMA RowsStep ==
    ASSUME RankingInv, JobTypes', NEW j \in Jobs, SettleRows(j)
    PROVE  SettleInv'
  <1> USE DEF clockVars, logVars, jobVars
  <1>1. JobTypes /\ SettleInv
    BY DEF RankingInv, SettleInv
  <1>2. /\ UNCHANGED <<day, bars, prediction, realized, quintile, groups, snapshot, dirty>>
        /\ at[j] = "settle"
        /\ todo'[j] = {r \in todo[j] : Matured(r)}
        /\ \A i \in Jobs \ {j} : todo'[i] = todo[i]
    BY <1>1 DEF SettleRows, JobTypes
  <1>3. CASE SettleReturns(j)
    BY <1>2, <1>3, ReturnStep
  <1>4. CASE todo'[j] # {} /\ at' = [at EXCEPT ![j] = "commit"]
    <2> USE Frame
    <2>1. at'[j] = "commit" /\ \A i \in Jobs \ {j} : at'[i] = at[i]
      BY <1>1, <1>4 DEF JobTypes
    <2>2. \A i \in Jobs : Ranking(i)' = Ranking(i)
      BY <1>2, <2>1 DEF Ranking
    <2>3. GroupsInv'
      BY <1>1, <1>2, <2>1, <2>2 DEF SettleInv, GroupsInv
    <2>4. TodoInv'
      BY <1>1, <1>2, <2>1 DEF SettleInv, TodoInv
    <2>5. ExhaustedInv'
      BY <1>1, <1>2, <2>2 DEF SettleInv, ExhaustedInv
    <2>6. \E r \in todo[j] : Matured(r)
      BY <1>2, <1>4
    <2>7. RankInv'
      BY <1>1, <1>2, <2>1, <2>2, <2>6 DEF SettleInv, RankInv, WillRank, AsOf
    <2>8. QED
      BY <2>3, <2>4, <2>5, <2>7 DEF SettleInv
  <1>5. QED
    BY <1>1, <1>2, <1>3, <1>4 DEF SettleRows, JobTypes

\* A job that gives up the wait for the write lock leaves its dates to the
\* holder of the lock.
LEMMA TimeoutStep ==
    ASSUME RankingInv, JobTypes', NEW j \in Jobs, LockTimeout(j)
    PROVE  SettleInv'
  <1> USE DEF clockVars, logVars, jobVars
  <1>1. JobTypes /\ LockInv /\ SettleInv
    BY DEF RankingInv, SettleInv
  <1>2. UNCHANGED <<day, bars, prediction, realized, quintile>>
    BY DEF LockTimeout
  <1>3. /\ groups'[j] = {} /\ snapshot'[j] = {} /\ dirty'[j] = {} /\ at'[j] = "next"
        /\ \A i \in Jobs \ {j} :
               /\ at'[i] = at[i] /\ todo'[i] = todo[i] /\ groups'[i] = groups[i]
               /\ snapshot'[i] = snapshot[i] /\ dirty'[i] = dirty[i]
    BY <1>1 DEF JobTypes, LockTimeout, Dropped, StepOver
  <1>4. writer \in Jobs \ {j} /\ at[writer] \in {"commit", "rank", "write"}
    BY <1>1 DEF LockInv, LockTimeout, CanWrite
  <1>5. QED
    BY <1>1, <1>2, <1>3, <1>4, QuietStep

\* The first commit settles new rows only when no date is unranked and no other
\* job ranks, and it ranks the dates of the rows that it settles.
LEMMA CommitStep ==
    ASSUME RankingInv, JobTypes', NEW j \in Jobs, CommitReturns(j)
    PROVE  SettleInv'
  <1> USE DEF clockVars, logVars, jobVars
  <1>1. JobTypes /\ LockInv /\ SettleInv
    BY DEF RankingInv, SettleInv
  <1>2. /\ UNCHANGED <<day, bars, prediction, quintile, snapshot, dirty>>
        /\ at[j] = "commit" /\ at'[j] = "rank"
        /\ groups'[j] = {AsOf(r) : r \in todo[j]} /\ todo'[j] = {}
        /\ \A i \in Jobs \ {j} :
              at'[i] = at[i] /\ todo'[i] = todo[i] /\ groups'[i] = groups[i]
        /\ realized' = [r \in Rows |-> IF r \in todo[j] THEN Outcome(r) ELSE realized[r]]
    BY <1>1 DEF CommitReturns, JobTypes
  <1>3. \A i \in Jobs \ {j} : at[i] # "commit"
    BY <1>1, <1>2 DEF LockInv
  <1>4. \A r : Matured(r)' = Matured(r) /\ Eligible(r)' = Eligible(r)
    BY <1>2 DEF Matured, BarsAfter, BarDays, Eligible
  <1>5. todo[j] \subseteq Rows /\ \A r \in todo[j] : Eligible(r) /\ Matured(r)
    BY <1>1, <1>2 DEF SettleInv, TodoInv, JobTypes
  <1>6. \A r \in Rows : Settled(r)' <=> Settled(r) \/ r \in todo[j]
    <2>1. \A r \in todo[j] : Outcome(r) # NoReturn
      BY <1>5 DEF Outcome, NoReturn, Matured
    <2>2. QED
      BY <1>2, <2>1 DEF Settled
  <1>7. \A r \in Rows : Open(r)' <=> Open(r) /\ r \notin todo[j]
    BY <1>2, <1>6 DEF Open
  <1>8. Exhausted'
    BY <1>1, <1>2, <1>4, <1>7 DEF SettleInv, TodoInv, Exhausted
  <1>9. \A r \in todo[j] : ~Settled(r) => Open(r) /\ Matured(r)
    BY <1>5 DEF Open, Eligible
  <1>10. Exhausted => /\ \A p : Group(p)' = Group(p)
                      /\ Unranked' = Unranked
    <2> SUFFICES ASSUME Exhausted
                 PROVE  (\A p : Group(p)' = Group(p)) /\ Unranked' = Unranked
      OBVIOUS
    <2>1. \A r \in todo[j] : Settled(r)
      BY <1>5, <1>9 DEF Exhausted
    <2>2. \A r \in Rows : Settled(r)' <=> Settled(r)
      BY <1>6, <2>1
    <2>3. \A p : Group(p)' = Group(p)
      BY <2>2 DEF Group, AsOf
    <2>4. QED
      BY <1>2, <2>3 DEF Unranked, Ranked
  <1>11. \A i \in Jobs \ {j} : Ranking(i)' = Ranking(i)
    BY <1>2 DEF Ranking
  <1>12. (\E i \in Jobs \ {j} : Ranking(i)) \/ Unranked # {} => Exhausted
    BY <1>1 DEF SettleInv, ExhaustedInv
  <1>13. GroupsInv'
    <2>1. snapshot'[j] = {} /\ dirty'[j] = {}
      BY <1>1, <1>2 DEF SettleInv, GroupsInv, Ranking
    <2>2. ASSUME NEW i \in Jobs, i # j
          PROVE  /\ ~Ranking(i)' => groups'[i] = {} /\ dirty'[i] = {}
                 /\ at'[i] # "write" => snapshot'[i] = {}
                 /\ at'[i] = "write" => \E p \in Days : snapshot'[i] = Group(p)'
                 /\ \A g \in dirty'[i] : \E p \in Days : g = Group(p)'
      <3>1. CASE Ranking(i)
        BY <1>1, <1>2, <1>10, <1>12, <2>2, <3>1 DEF SettleInv, GroupsInv, Ranking
      <3>2. CASE ~Ranking(i)
        BY <1>1, <1>2, <2>2, <3>2 DEF SettleInv, GroupsInv, Ranking
      <3>3. QED
        BY <3>1, <3>2
    <2>3. QED
      BY <1>2, <2>1, <2>2 DEF GroupsInv, Ranking
  <1>14. TodoInv'
    BY <1>1, <1>2, <1>3, <1>4, <1>7 DEF SettleInv, TodoInv
  <1>15. ExhaustedInv'
    BY <1>8 DEF ExhaustedInv
  <1>16. \A p \in Unranked' \ Unranked : \E r \in todo[j] : AsOf(r) = p /\ Open(r) /\ Matured(r)
    <2> SUFFICES ASSUME NEW p \in Unranked' \ Unranked,
                        \A r \in todo[j] : AsOf(r) = p => ~(Open(r) /\ Matured(r))
                 PROVE  FALSE
      OBVIOUS
    <2>1. \A r \in Rows : AsOf(r) = p => (Settled(r)' <=> Settled(r))
      BY <1>6, <1>9
    <2>2. Group(p)' = Group(p)
      BY <2>1 DEF Group, AsOf
    <2>3. QED
      BY <1>2, <2>2 DEF Unranked, Ranked
  <1>17. \A p \in Unranked' : p \in groups'[j]
    <2>1. \A p \in Unranked : \E r \in todo[j] : AsOf(r) = p
      BY <1>1, <1>2 DEF SettleInv, RankInv
    <2>2. QED
      BY <1>2, <1>16, <2>1
  <1>18. RankInv'
    <2> SUFFICES ASSUME NEW p \in Unranked', NEW i \in Jobs
                 PROVE  /\ Ranking(i)' => WillRank(i, p)'
                        /\ at'[i] # "commit"
                        /\ at'[i] \in {"connect", "settle"} /\ (\E r \in todo'[i] : Matured(r)) =>
                              \E r \in todo'[i] : Matured(r) /\ AsOf(r) = p
      BY <1>2, <1>4 DEF RankInv, AsOf
    <2>1. CASE i = j
      BY <1>2, <1>17, <2>1 DEF WillRank
    <2>2. CASE i # j /\ p \in Unranked
      <3>1. \A q : Group(q)' = Group(q)
        BY <1>10, <1>12, <2>2
      <3>2. Ranking(i) => WillRank(i, p)
        BY <1>1, <2>2 DEF SettleInv, RankInv
      <3>3. WillRank(i, p)' = WillRank(i, p)
        BY <1>2, <2>2, <3>1 DEF WillRank
      <3>4. QED
        BY <1>1, <1>2, <1>3, <1>11, <2>2, <3>2, <3>3 DEF SettleInv, RankInv
    <2>3. CASE i # j /\ p \notin Unranked
      <3>1. PICK r \in todo[j] : AsOf(r) = p /\ Open(r) /\ Matured(r)
        BY <1>16, <2>3
      <3>2. ~Exhausted
        BY <1>5, <3>1 DEF Exhausted
      <3>3. at[i] \in {"connect", "settle"} => r \in todo[i]
        BY <1>1, <1>5, <3>1 DEF SettleInv, TodoInv
      <3>4. QED
        BY <1>2, <1>3, <1>11, <1>12, <2>3, <3>1, <3>2, <3>3
    <2>4. QED
      BY <2>1, <2>2, <2>3
  <1>19. QED
    BY <1>13, <1>14, <1>15, <1>18 DEF SettleInv

\* A group that is read is either held until it is written, or too small.
LEMMA ReadStep ==
    ASSUME RankingInv, JobTypes', NEW j \in Jobs, NEW q \in groups[j], ReadGroup(j, q)
    PROVE  SettleInv'
  <1> USE Frame DEF clockVars, logVars, jobVars
  <1>1. JobTypes /\ SettleInv
    BY DEF RankingInv, SettleInv
  <1>2. /\ UNCHANGED <<day, bars, prediction, realized, quintile, todo, dirty>>
        /\ at[j] = "rank" /\ groups'[j] = groups[j] \ {q}
        /\ q \in Days
        /\ \A i \in Jobs \ {j} : groups'[i] = groups[i]
    BY <1>1 DEF ReadGroup, JobTypes
  <1>3. /\ \A i \in Jobs \ {j} : at'[i] = at[i] /\ snapshot'[i] = snapshot[i]
        /\ \/ Cardinality(Group(q)) < MinGroup /\ at'[j] = "rank" /\ snapshot'[j] = snapshot[j]
           \/ at'[j] = "write" /\ snapshot'[j] = Group(q)
    BY <1>1, <1>2 DEF ReadGroup, JobTypes
  <1>4. \A i \in Jobs : Ranking(i)' = Ranking(i)
    BY <1>2, <1>3 DEF Ranking
  <1>5. GroupsInv'
    <2>1. /\ at'[j] # "write" => snapshot'[j] = {}
          /\ at'[j] = "write" => \E p \in Days : snapshot'[j] = Group(p)
      BY <1>1, <1>2, <1>3 DEF SettleInv, GroupsInv
    <2>2. QED
      BY <1>1, <1>2, <1>3, <1>4, <2>1 DEF SettleInv, GroupsInv, Ranking
  <1>6. TodoInv'
    BY <1>1, <1>2, <1>3 DEF SettleInv, TodoInv
  <1>7. ExhaustedInv'
    BY <1>1, <1>2, <1>4 DEF SettleInv, ExhaustedInv
  <1>8. ASSUME NEW p \in Unranked PROVE WillRank(j, p)'
    <2>1. WillRank(j, p)
      BY <1>1, <1>2 DEF SettleInv, RankInv, Ranking
    <2>2. CASE p = q
      <3>1. Cardinality(Group(q)) >= MinGroup
        BY <2>2 DEF Unranked, Ranked
      <3>2. ~(Cardinality(Group(q)) < MinGroup)
        <4>1. IsFiniteSet(Group(q))
          BY <1>2, RowsFinite, FS_Subset DEF Group
        <4>2. QED
          BY <3>1, <4>1, FS_CardinalityType, SettlementAssumption
      <3>3. QED
        BY <1>2, <1>3, <2>2, <3>2 DEF WillRank
    <2>3. CASE p # q
      BY <1>2, <2>1, <2>3 DEF WillRank
    <2>4. QED
      BY <2>2, <2>3
  <1>9. RankInv'
    <2> SUFFICES ASSUME NEW p \in Unranked
                 PROVE  /\ \E i \in Jobs : at'[i] \in {"commit", "rank", "write"}
                        /\ \A i \in Jobs :
                              /\ Ranking(i)' => WillRank(i, p)'
                              /\ at'[i] = "commit" => \E r \in todo'[i] : AsOf(r) = p
                              /\ at'[i] \in {"connect", "settle"} /\ (\E r \in todo'[i] : Matured(r)) =>
                                    \E r \in todo'[i] : Matured(r) /\ AsOf(r) = p
      BY <1>2 DEF RankInv, AsOf
    <2>1. \E i \in Jobs : at'[i] \in {"commit", "rank", "write"}
      BY <1>3
    <2>2. ASSUME NEW i \in Jobs, i # j
          PROVE  /\ Ranking(i)' => WillRank(i, p)'
                 /\ at'[i] = "commit" => \E r \in todo'[i] : AsOf(r) = p
                 /\ at'[i] \in {"connect", "settle"} /\ (\E r \in todo'[i] : Matured(r)) =>
                       \E r \in todo'[i] : Matured(r) /\ AsOf(r) = p
      BY <1>1, <1>2, <1>3, <2>2 DEF SettleInv, RankInv, Ranking, WillRank
    <2>3. QED
      BY <1>3, <1>8, <2>1, <2>2
  <1>10. QED
    BY <1>5, <1>6, <1>7, <1>9 DEF SettleInv

\* What was read becomes what is to be committed.
LEMMA WriteStep ==
    ASSUME RankingInv, JobTypes', NEW j \in Jobs, WriteGroup(j)
    PROVE  SettleInv'
  <1> USE Frame DEF clockVars, logVars, jobVars
  <1>1. JobTypes /\ SettleInv
    BY DEF RankingInv, SettleInv
  <1>2. /\ UNCHANGED <<day, bars, prediction, realized, quintile, todo, groups>>
        /\ at[j] = "write" /\ at'[j] = "rank"
        /\ snapshot'[j] = {} /\ dirty'[j] = dirty[j] \cup {snapshot[j]}
        /\ \A i \in Jobs \ {j} :
              at'[i] = at[i] /\ snapshot'[i] = snapshot[i] /\ dirty'[i] = dirty[i]
    BY <1>1 DEF WriteGroup, JobTypes
  <1>3. \A i \in Jobs : Ranking(i)' = Ranking(i)
    BY <1>2 DEF Ranking
  <1>4. GroupsInv'
    <2>1. \A g \in dirty'[j] : \E p \in Days : g = Group(p)
      BY <1>1, <1>2 DEF SettleInv, GroupsInv
    <2>2. QED
      BY <1>1, <1>2, <1>3, <2>1 DEF SettleInv, GroupsInv, Ranking
  <1>5. TodoInv'
    BY <1>1, <1>2 DEF SettleInv, TodoInv
  <1>6. ExhaustedInv'
    BY <1>1, <1>2, <1>3 DEF SettleInv, ExhaustedInv
  <1>7. \A i \in Jobs : \A p : WillRank(i, p) => WillRank(i, p)'
    BY <1>2 DEF WillRank
  <1>8. RankInv'
    BY <1>1, <1>2, <1>3, <1>7 DEF SettleInv, RankInv, AsOf
  <1>9. QED
    BY <1>4, <1>5, <1>6, <1>8 DEF SettleInv

\* The second commit ranks every date that was unranked, and ranks again, over
\* the same group, any other that it writes.
LEMMA QuintilesStep ==
    ASSUME RankingInv, JobTypes', NEW j \in Jobs, CommitQuintiles(j)
    PROVE  SettleInv'
  <1> USE DEF clockVars, logVars, jobVars
  <1>1. JobTypes /\ SettleInv
    BY DEF RankingInv, SettleInv
  <1>2. /\ UNCHANGED <<day, bars, prediction, realized, todo, groups, snapshot>>
        /\ at[j] = "rank" /\ groups[j] = {} /\ dirty'[j] = {}
        /\ at'[j] \in {"next", "members"}
        /\ \A i \in Jobs \ {j} : at'[i] = at[i] /\ dirty'[i] = dirty[i]
        /\ quintile' = [r \in Rows |->
                          IF \E g \in dirty[j] : r \in g
                          THEN Cut(CHOOSE g \in dirty[j] : r \in g)
                          ELSE quintile[r]]
    BY <1>1 DEF CommitQuintiles, SettleReturns, StepOver, JobTypes
  <1>3. \A r : /\ Settled(r)' = Settled(r) /\ Matured(r)' = Matured(r)
               /\ Open(r)' = Open(r) /\ Eligible(r)' = Eligible(r)
    BY <1>2 DEF Settled, Matured, BarsAfter, BarDays, Open, Eligible
  <1>4. \A p : Group(p)' = Group(p)
    BY <1>3 DEF Group
  <1>5. Exhausted' = Exhausted
    BY <1>3 DEF Exhausted
  <1>6. \A g \in dirty[j] : \E p \in Days : g = Group(p)
    BY <1>1 DEF SettleInv, GroupsInv
  <1>7. \A g \in dirty[j] : \A r \in g : r \in Rows /\ g = Group(AsOf(r))
    BY <1>6 DEF Group
  <1>8. \A p \in Days : Group(p) \in dirty[j] => \A r \in Group(p) : quintile'[r] = Cut(Group(p))
    <2> SUFFICES ASSUME NEW p \in Days, Group(p) \in dirty[j], NEW r \in Group(p)
                 PROVE  quintile'[r] = Cut(Group(p))
      OBVIOUS
    <2>1. r \in Rows /\ AsOf(r) = p
      BY DEF Group
    <2>2. (CHOOSE g \in dirty[j] : r \in g) = Group(p)
      BY <1>7, <2>1
    <2>3. QED
      BY <1>2, <2>1, <2>2
  <1>9. \A p \in Days : Group(p) \notin dirty[j] => \A r \in Group(p) : quintile'[r] = quintile[r]
    <2> SUFFICES ASSUME NEW p \in Days, Group(p) \notin dirty[j], NEW r \in Group(p)
                 PROVE  quintile'[r] = quintile[r]
      OBVIOUS
    <2>1. r \in Rows /\ AsOf(r) = p
      BY DEF Group
    <2>2. ~\E g \in dirty[j] : r \in g
      BY <1>7, <2>1
    <2>3. QED
      BY <1>2, <2>1, <2>2
  <1>10. Unranked' = {}
    <2> SUFFICES ASSUME NEW p \in Days PROVE Ranked(p)'
      BY DEF Unranked
    <2>1. CASE Group(p) \in dirty[j]
      BY <1>4, <1>8, <2>1 DEF Ranked
    <2>2. CASE Group(p) \notin dirty[j]
      <3>1. ~WillRank(j, p)
        BY <1>2, <2>2 DEF WillRank
      <3>2. Ranked(p)
        BY <1>1, <1>2, <3>1 DEF SettleInv, RankInv, Unranked, Ranking
      <3>3. QED
        BY <1>4, <1>9, <2>2, <3>2 DEF Ranked
    <2>3. QED
      BY <2>1, <2>2
  <1>11. GroupsInv'
    BY <1>1, <1>2, <1>4 DEF SettleInv, GroupsInv, Ranking
  <1>12. TodoInv'
    BY <1>1, <1>2, <1>3 DEF SettleInv, TodoInv
  <1>13. ExhaustedInv'
    BY <1>1, <1>2, <1>5, <1>10 DEF SettleInv, ExhaustedInv, Ranking
  <1>14. RankInv'
    BY <1>10 DEF RankInv
  <1>15. QED
    BY <1>11, <1>12, <1>13, <1>14 DEF SettleInv

-----------------------------------------------------------------------------
(* The theorem *)

\* Nothing is logged and no job runs in the beginning.
LEMMA RankingInit == Init => RankingInv
  <1> SUFFICES ASSUME Init PROVE RankingInv
    OBVIOUS
  <1> USE DEF Init
  <1>1. JobTypes /\ Running
    BY SettlementAssumption DEF JobTypes, Running, Places, Steps, Days
  <1>2. LockInv /\ StoreInv
    BY SettlementAssumption DEF LockInv, StoreInv, StoreOpenForReading, Nobody, JobNames
  <1>3. GroupsInv /\ TodoInv
    BY DEF GroupsInv, TodoInv, Ranking
  <1>4. \A r \in Rows : ~Settled(r) /\ ~Open(r)
    BY DEF Settled, Open
  <1>5. Exhausted
    BY <1>4 DEF Exhausted
  <1>6. \A p : Group(p) = {}
    BY <1>4 DEF Group
  <1>7. Unranked = {}
    BY <1>6 DEF Unranked, Ranked
  <1>8. QED
    BY <1>1, <1>2, <1>3, <1>5, <1>7 DEF RankingInv, ExhaustedInv, RankInv

\* Every step but a crash keeps the invariant.
LEMMA RankingStep == NeverDies /\ RankingInv /\ [Next]_vars => RankingInv'
  <1> SUFFICES ASSUME NeverDies, RankingInv, [Next]_vars PROVE RankingInv'
    OBVIOUS
  <1>1. JobTypes /\ Running /\ LockInv /\ StoreInv /\ SettleInv
    BY DEF RankingInv, SettleInv
  <1>2. JobTypes' /\ Running'
    BY <1>1, TypesStep
  <1>3. LockInv' /\ StoreInv'
    BY <1>1, LocksStep
  <1>4. SettleInv'
    <2>1. ASSUME NEW j \in Jobs, StartJob(j) \/ JobStep(j) PROVE SettleInv'
      BY <1>2, <2>1, OtherSteps, DownloadStep, LogStep, SelectsStep, ConnectsStep, RowsStep,
         TimeoutStep, CommitStep, ReadStep, WriteStep, QuintilesStep DEF JobStep
    <2>2. CASE NextSession
      BY <2>2, SessionStep
    <2>3. CASE Crash
      BY <2>3 DEF Crash, Fail, NeverDies
    <2>4. CASE EndOfHorizon \/ UNCHANGED vars
      <3>1. UNCHANGED vars
        BY <2>4 DEF EndOfHorizon
      <3>2. UNCHANGED <<at, todo, groups, snapshot, dirty>>
            /\ UNCHANGED <<day, bars, prediction, realized, quintile>>
        BY <3>1 DEF vars
      <3>3. GroupsInv' /\ TodoInv' /\ ExhaustedInv'
        BY <1>1, <3>2, Frame DEF SettleInv, GroupsInv, TodoInv, ExhaustedInv, Ranking
      <3>4. RankInv'
        BY <1>1, <3>2, Frame DEF SettleInv, RankInv, Ranking, WillRank, AsOf
      <3>5. QED
        BY <3>3, <3>4 DEF SettleInv
    <2>5. QED
      BY <2>1, <2>2, <2>3, <2>4 DEF Next
  <1>5. QED
    BY <1>2, <1>3, <1>4 DEF RankingInv, SettleInv

\* Settlements that run side by side leave the quintiles of every date cut from
\* all its settled returns: the SELECT of a group without a lock and the write
\* that loses the lock (settle_predictions) cost nothing, unless the process
\* dies between its two commits.
THEOREM QuintilesCurrentHolds ==
    ASSUME NeverDies
    PROVE  Spec => []QuintilesCurrent
  <1>1. Init => RankingInv
    BY RankingInit
  <1>2. RankingInv /\ [Next]_vars => RankingInv'
    BY RankingStep
  <1>3. RankingInv => QuintilesCurrent
    BY DEF RankingInv, RankInv, Unranked, QuintilesCurrent, NoSettlement
  <1>4. QED
    BY <1>1, <1>2, <1>3, PTL DEF Spec

-----------------------------------------------------------------------------
(***************************************************************************)
(* HorizonExact: which bars the store holds, and which refresh is still to *)
(* come.                                                                   *)
(***************************************************************************)

\* A non-empty family of subsets of a finite set has a minimal member.
LEMMA MinimalMember ==
    ASSUME NEW S, IsFiniteSet(S), NEW T \in SUBSET (SUBSET S), T # {}
    PROVE  \E x \in T : \A y \in T : y \subseteq x => y = x
  <1>1. IsWellFoundedOn(StrictSubsetOrdering(S), FiniteSubsetsOf(S))
    BY FS_StrictSubsetOrderingWellFounded
  <1>2. T \subseteq FiniteSubsetsOf(S)
    BY FS_FiniteSubsetsOfFinite
  <1>3. PICK x \in T : \A y \in T : ~ (<<y, x>> \in StrictSubsetOrdering(S))
    BY <1>1, <1>2, WFMin
  <1>4. ASSUME NEW y \in T, y \subseteq x, y # x PROVE FALSE
    <2>1. <<y, x>> \in (SUBSET S) \X (SUBSET S) /\ <<y, x>>[1] = y /\ <<y, x>>[2] = x
      OBVIOUS
    <2>2. <<y, x>> \in StrictSubsetOrdering(S)
      BY <1>4, <2>1 DEF StrictSubsetOrdering
    <2>3. QED
      BY <1>3, <2>2
  <1>5. QED
    BY <1>4

\* A non-empty finite set of integers has a greatest element.
LEMMA GreatestElement ==
    ASSUME NEW S, \A e \in S : e \in Int, IsFiniteSet(S), S # {}
    PROVE  \E m \in S : \A e \in S : e <= m
  <1>1. PICK T \in SUBSET (SUBSET S) : T = {{e \in S : d <= e} : d \in S}
    OBVIOUS
  <1>2. PICK d \in S : {e \in S : d <= e} \in T
    BY <1>1
  <1>3. T # {}
    BY <1>2
  <1>4. PICK x \in T : \A y \in T : y \subseteq x => y = x
    BY <1>3, MinimalMember
  <1>5. PICK m \in S : x = {e \in S : m <= e}
    BY <1>1, <1>4
  <1>6. ASSUME NEW e \in S, m < e PROVE FALSE
    <2>1. PICK y : y = {f \in S : e <= f}
      OBVIOUS
    <2>2. y \in T
      BY <1>1, <2>1
    <2>3. y \subseteq x
      <3>1. \A f \in S : e <= f => m <= f
        BY <1>6
      <3>2. QED
        BY <1>5, <2>1, <3>1
    <2>4. m \in x /\ m \notin y
      BY <1>5, <1>6, <2>1
    <2>5. QED
      BY <1>4, <2>2, <2>3, <2>4
  <1>7. QED
    BY <1>6

\* No more refreshes of a symbol are lost than the overlap makes up for: one
\* session is behind each morning, and the window reaches Overlap + 2 back.
ShortOutage == MaxFails <= Overlap + 1

\* The refresh of this session is still to come, or under way.
RefreshPending ==
    \/ "pipeline" \in due
    \/ "pipeline" \in Jobs /\ agenda["pipeline"] # << >> /\ Head(agenda["pipeline"]) = "refresh"

\* The symbol has not been asked for this morning.
Behind(s) ==
    /\ session = "morning"
    /\ RefreshPending
    /\ at["pipeline"] = "download" /\ "pipeline" \in Jobs => <<s, day>> \in todo["pipeline"]

Slack(s) == IF Behind(s) THEN 1 ELSE 0

Agendas == {<< >>, <<"catchup">>, <<"predict">>, <<"predict", "catchup">>,
            <<"refresh", "predict", "catchup">>}

\* What the jobs of a session still have to do.
AgendaInv ==
    /\ due \subseteq Due(session)
    /\ \A j \in Jobs :
          /\ agenda[j] \in Agendas
          /\ j # "pipeline" => agenda[j] \in {<< >>, <<"catchup">>, <<"predict">>}
          /\ j # "pipeline" /\ session = "morning" => agenda[j] = << >>
          /\ j \in due => agenda[j] = << >>
          /\ at[j] = "download" =>
                agenda[j] # << >> /\ Head(agenda[j]) = "refresh" /\ \A r \in todo[j] : AsOf(r) = day
          /\ at[j] \notin {"next", "download"} => Head(agenda[j]) # "refresh"

StoreTypes ==
    /\ bars \in [Rows -> Quality]
    /\ fails \in 0..MaxFails
    /\ session \in Sessions

\* No holes: all bars before a bar are complete, and those that the lost
\* refreshes have not reached yet are.
BarsInv ==
    /\ "pipeline" \notin Jobs => \A r \in Rows : bars[r] = "none"
    /\ \A s \in Symbols, d \in Days :
          bars[<<s, d>>] # "none" =>
             d <= day /\ \A e \in Days : e < d => bars[<<s, e>>] = "final"
    /\ \A s \in Symbols : BarDays(s) # {} =>
          \A e \in Days : e <= day - 1 - fails - Slack(s) => bars[<<s, e>>] = "final"

\* Only rows with a bar at the horizon are committed.
MaturedInv == \A j \in Jobs : at[j] = "commit" => \A r \in todo[j] : Matured(r)

HorizonInv ==
    /\ JobTypes /\ Running /\ LockInv /\ StoreInv
    /\ AgendaInv /\ StoreTypes /\ BarsInv /\ MaturedInv /\ HorizonExact

\* The agendas, step by step.
LEMMA AgendaTails ==
    /\ Tail(<<"catchup">>) = << >> /\ Tail(<<"predict">>) = << >>
    /\ Tail(<<"predict", "catchup">>) = <<"catchup">>
    /\ Tail(<<"refresh", "predict", "catchup">>) = <<"predict", "catchup">>
    /\ Head(<<"catchup">>) = "catchup" /\ Head(<<"predict">>) = "predict"
    /\ Head(<<"predict", "catchup">>) = "predict"
    /\ Head(<<"refresh", "predict", "catchup">>) = "refresh"
    /\ <<"catchup">> # << >> /\ <<"predict">> # << >> /\ <<"predict", "catchup">> # << >>
    /\ <<"refresh", "predict", "catchup">> # << >>
  OBVIOUS

\* A job that goes on, or ends a step, keeps to its agenda.
LEMMA AgendaMoves ==
    ASSUME AgendaInv, NEW j \in Jobs, UNCHANGED <<due, session, day>>,
           agenda[j] # << >>,
           \A i \in Jobs \ {j} : agenda'[i] = agenda[i] /\ at'[i] = at[i] /\ todo'[i] = todo[i],
           \/ agenda'[j] = Tail(agenda[j]) /\ at'[j] = "next"
           \/ /\ agenda'[j] = agenda[j]
              /\ \/ at'[j] = at[j] /\ todo'[j] \subseteq todo[j]
                 \/ at'[j] \notin {"next", "download"} /\ Head(agenda[j]) # "refresh"
    PROVE  AgendaInv'
  <1>1. due' \subseteq Due(session)'
    BY DEF AgendaInv, Due
  <1>2. ASSUME NEW i \in Jobs \ {j}
        PROVE  /\ agenda'[i] \in Agendas
               /\ i # "pipeline" => agenda'[i] \in {<< >>, <<"catchup">>, <<"predict">>}
               /\ i # "pipeline" /\ session' = "morning" => agenda'[i] = << >>
               /\ i \in due' => agenda'[i] = << >>
               /\ at'[i] = "download" =>
                     agenda'[i] # << >> /\ Head(agenda'[i]) = "refresh" /\ \A r \in todo'[i] : AsOf(r) = day'
               /\ at'[i] \notin {"next", "download"} => Head(agenda'[i]) # "refresh"
    BY DEF AgendaInv
  <1>3. /\ agenda'[j] \in Agendas
        /\ j # "pipeline" => agenda'[j] \in {<< >>, <<"catchup">>, <<"predict">>}
        /\ j # "pipeline" /\ session' = "morning" => agenda'[j] = << >>
        /\ j \in due' => agenda'[j] = << >>
        /\ at'[j] = "download" =>
              agenda'[j] # << >> /\ Head(agenda'[j]) = "refresh" /\ \A r \in todo'[j] : AsOf(r) = day'
        /\ at'[j] \notin {"next", "download"} => Head(agenda'[j]) # "refresh"
    <2>1. /\ agenda[j] \in Agendas
          /\ j # "pipeline" => agenda[j] \in {<< >>, <<"catchup">>, <<"predict">>}
          /\ j # "pipeline" /\ session = "morning" => agenda[j] = << >>
          /\ j \notin due
          /\ at[j] = "download" => Head(agenda[j]) = "refresh" /\ \A r \in todo[j] : AsOf(r) = day
          /\ at[j] \notin {"next", "download"} => Head(agenda[j]) # "refresh"
      BY DEF AgendaInv
    <2>2. CASE agenda'[j] = Tail(agenda[j]) /\ at'[j] = "next"
      BY <2>1, <2>2, AgendaTails DEF Agendas
    <2>3. CASE agenda'[j] = agenda[j] /\ at'[j] = at[j] /\ todo'[j] \subseteq todo[j]
      BY <2>1, <2>3
    <2>4. CASE agenda'[j] = agenda[j] /\ at'[j] \notin {"next", "download"} /\ Head(agenda[j]) # "refresh"
      BY <2>1, <2>4
    <2>5. QED
      BY <2>2, <2>3, <2>4
  <1>4. QED
    BY <1>1, <1>2, <1>3 DEF AgendaInv

\* Every step keeps the jobs to their agendas.
LEMMA AgendaStep ==
    ASSUME JobTypes, Running, AgendaInv, [Next]_vars
    PROVE  AgendaInv'
  <1> USE DEF clockVars, logVars, jobVars
  <1>1. ASSUME NEW j \in Jobs, StartJob(j) PROVE AgendaInv'
    <2>1. /\ agenda' = [agenda EXCEPT ![j] = Script(j)] /\ due' = due \ {j} /\ agenda[j] = << >>
          /\ UNCHANGED <<session, day, at, todo>> /\ j \in due /\ agenda \in [Jobs -> Seq(Steps)]
      BY <1>1 DEF StartJob, JobTypes
    <2>2. j \in JobNames /\ at[j] = "next"
      BY <2>1, SettlementAssumption DEF Running
    <2>3. /\ j = "pipeline" => Script(j) = <<"refresh", "predict", "catchup">>
          /\ j # "pipeline" => Script(j) \in {<<"catchup">>, <<"predict">>}
      BY <2>2 DEF Script, JobNames
    <2>4. j # "pipeline" => session # "morning"
      BY <2>1 DEF AgendaInv, Due
    <2>5. QED
      BY <2>1, <2>2, <2>3, <2>4 DEF AgendaInv, Agendas, Due
  <1>2. ASSUME NEW j \in Jobs, JobStep(j) PROVE AgendaInv'
    <2>1. at \in [Jobs -> Places] /\ agenda \in [Jobs -> Seq(Steps)] /\ todo \in [Jobs -> SUBSET Rows]
      BY DEF JobTypes
    <2>2. ASSUME StepOver(j), agenda[j] # << >>, UNCHANGED clockVars,
                 \A i \in Jobs \ {j} : todo'[i] = todo[i]
          PROVE  AgendaInv'
      BY <2>1, <2>2, AgendaMoves DEF StepOver
    <2>3. ASSUME NEW p \in Places \ {"next", "download"}, at' = [at EXCEPT ![j] = p], UNCHANGED agenda,
                 agenda[j] # << >>, Head(agenda[j]) # "refresh", UNCHANGED clockVars,
                 \A i \in Jobs \ {j} : todo'[i] = todo[i]
          PROVE  AgendaInv'
      BY <2>1, <2>3, AgendaMoves
    <2>4. /\ at[j] # "next" => agenda[j] # << >>
          /\ at[j] \notin {"next", "download"} => Head(agenda[j]) # "refresh"
      BY DEF Running, AgendaInv
    <2>5. /\ "members" \in Places /\ "connect" \in Places /\ "settle" \in Places /\ "commit" \in Places
          /\ "rank" \in Places /\ "write" \in Places /\ "features" \in Places /\ "log" \in Places
      BY DEF Places
    <2>6. ASSUME SettleReturns(j), agenda[j] # << >>, Head(agenda[j]) # "refresh", UNCHANGED clockVars,
                 \A i \in Jobs \ {j} : todo'[i] = todo[i]
          PROVE  AgendaInv'
      BY <2>2, <2>3, <2>5, <2>6 DEF SettleReturns
    <2>7. CASE BeginRefresh(j)
      <3>1. CASE StoreOpenForReading
        BY <2>2, <2>7, <3>1 DEF BeginRefresh, Begins
      <3>2. CASE ~StoreOpenForReading
        <4>1. /\ at' = [at EXCEPT ![j] = "download"] /\ UNCHANGED <<agenda, due, session, day>>
              /\ todo' = [todo EXCEPT ![j] = {r \in Rows : AsOf(r) = day}]
              /\ agenda[j] # << >> /\ Head(agenda[j]) = "refresh"
          BY <2>7, <3>2 DEF BeginRefresh, Begins
        <4>2. at'[j] = "download" /\ \A r \in todo'[j] : AsOf(r) = day
          BY <2>1, <4>1
        <4>3. \A i \in Jobs \ {j} : at'[i] = at[i] /\ todo'[i] = todo[i]
          BY <2>1, <4>1
        <4>4. QED
          BY <4>1, <4>2, <4>3 DEF AgendaInv, Due
      <3>3. QED
        BY <3>1, <3>2
    <2>8. ASSUME NEW r \in todo[j], Download(j, r) PROVE AgendaInv'
      <3>1. /\ at[j] = "download" /\ agenda[j] # << >> /\ UNCHANGED <<at, agenda, due, session, day>>
            /\ todo' = [todo EXCEPT ![j] = @ \ {r}]
        BY <2>4, <2>8 DEF Download
      <3>2. QED
        BY <2>1, <3>1, AgendaMoves
    <2>9. CASE RefreshEnds(j)
      BY <2>2, <2>4, <2>9 DEF RefreshEnds
    <2>10. CASE SettleSelects(j)
      <3>1. /\ agenda[j] # << >> /\ Head(agenda[j]) # "refresh" /\ UNCHANGED clockVars
            /\ \A i \in Jobs \ {j} : todo'[i] = todo[i]
        BY <2>1, <2>10 DEF SettleSelects, Begins
      <3>2. QED
        BY <2>3, <2>5, <2>6, <2>10, <3>1 DEF SettleSelects
    <2>11. CASE SettleConnects(j)
      <3>1. /\ agenda[j] # << >> /\ Head(agenda[j]) # "refresh" /\ UNCHANGED clockVars
            /\ \A i \in Jobs \ {j} : todo'[i] = todo[i]
        BY <2>1, <2>4, <2>11 DEF SettleConnects
      <3>2. QED
        BY <2>2, <2>3, <2>5, <2>11, <3>1 DEF SettleConnects
    <2>12. CASE SettleRows(j)
      <3>1. /\ agenda[j] # << >> /\ Head(agenda[j]) # "refresh" /\ UNCHANGED clockVars
            /\ \A i \in Jobs \ {j} : todo'[i] = todo[i]
        BY <2>1, <2>4, <2>12 DEF SettleRows
      <3>2. CASE SettleReturns(j)
        BY <2>6, <3>1, <3>2
      <3>3. CASE at' = [at EXCEPT ![j] = "commit"] /\ UNCHANGED agenda
        BY <2>3, <2>5, <3>1, <3>3
      <3>4. QED
        BY <2>12, <3>2, <3>3 DEF SettleRows
    <2>13. CASE CommitReturns(j)
      <3>1. /\ agenda[j] # << >> /\ Head(agenda[j]) # "refresh" /\ UNCHANGED clockVars
            /\ \A i \in Jobs \ {j} : todo'[i] = todo[i]
        BY <2>1, <2>4, <2>13 DEF CommitReturns
      <3>2. at' = [at EXCEPT ![j] = "rank"] /\ UNCHANGED agenda
        BY <2>13 DEF CommitReturns
      <3>3. QED
        BY <2>3, <2>5, <3>1, <3>2
    <2>14. ASSUME NEW p \in groups[j], ReadGroup(j, p) PROVE AgendaInv'
      <3>1. /\ agenda[j] # << >> /\ Head(agenda[j]) # "refresh" /\ UNCHANGED clockVars
            /\ UNCHANGED <<todo, agenda>>
        BY <2>4, <2>14 DEF ReadGroup
      <3>2. CASE at' = at
        BY <3>1, <3>2, AgendaMoves
      <3>3. CASE at' = [at EXCEPT ![j] = "write"]
        BY <2>3, <2>5, <3>1, <3>3
      <3>4. QED
        BY <2>14, <3>2, <3>3 DEF ReadGroup
    <2>15. CASE WriteGroup(j)
      BY <2>3, <2>4, <2>5, <2>15 DEF WriteGroup
    <2>16. CASE CommitQuintiles(j)
      BY <2>4, <2>6, <2>16 DEF CommitQuintiles
    <2>17. CASE LockTimeout(j)
      BY <2>1, <2>2, <2>4, <2>17 DEF LockTimeout, Dropped
    <2>18. CASE PredictFails(j)
      BY <2>2, <2>4, <2>18 DEF PredictFails
    <2>19. CASE OpenFeatures(j)
      BY <2>3, <2>4, <2>5, <2>19 DEF OpenFeatures
    <2>20. CASE ComputePredictions(j)
      <3>1. /\ agenda[j] # << >> /\ Head(agenda[j]) # "refresh" /\ UNCHANGED clockVars /\ UNCHANGED todo
        BY <2>4, <2>20 DEF ComputePredictions
      <3>2. QED
        BY <2>2, <2>3, <2>5, <2>20, <3>1 DEF ComputePredictions
    <2>21. CASE LogPredictions(j)
      BY <2>2, <2>4, <2>21 DEF LogPredictions
    <2>22. QED
      BY <1>2, <2>7, <2>8, <2>9, <2>10, <2>11, <2>12, <2>13, <2>14, <2>15, <2>16, <2>17, <2>18,
         <2>19, <2>20, <2>21 DEF JobStep
  <1>3. CASE NextSession
    BY <1>3 DEF NextSession, Idle, AgendaInv, Agendas, Running
  <1>4. CASE Crash
    BY <1>4 DEF Crash, AgendaInv, Agendas, Due
  <1>5. CASE EndOfHorizon \/ UNCHANGED vars
    BY <1>5 DEF EndOfHorizon, vars, AgendaInv, Due
  <1>6. QED
    BY <1>1, <1>2, <1>3, <1>4, <1>5 DEF Next

\* The bars of a symbol are those of the first sessions.
LEMMA BarsInterval ==
    ASSUME BarsInv, NEW s \in Symbols, BarDays(s) # {}
    PROVE  LastBar(s) \in Days /\ BarDays(s) = 1..LastBar(s)
  <1>1. BarDays(s) \in SUBSET Days /\ Days \in SUBSET Nat /\ Days = 1..MaxDay /\ MaxDay \in Nat
    BY SettlementAssumption DEF BarDays, Days
  <1>2. IsFiniteSet(BarDays(s))
    BY <1>1, FS_Interval, FS_Subset
  <1>3. \A e \in BarDays(s) : e \in Int
    BY <1>1
  <1>4. \E m \in BarDays(s) : \A e \in BarDays(s) : e <= m
    BY <1>2, <1>3, GreatestElement
  <1>5. LastBar(s) \in BarDays(s) /\ \A e \in BarDays(s) : e <= LastBar(s)
    BY <1>4 DEF LastBar
  <1>6. \A e \in Days : e < LastBar(s) => e \in BarDays(s)
    BY <1>5 DEF BarsInv, BarDays
  <1>7. PICK L \in Days : L = LastBar(s)
    BY <1>1, <1>5
  <1>8. \A e : e \in 1..L => e \in Days
    BY <1>1, <1>7
  <1>9. \A e \in Days : e <= L => e \in BarDays(s)
    BY <1>1, <1>5, <1>6, <1>7
  <1>10. \A e \in BarDays(s) : e \in 1..L
    BY <1>1, <1>5, <1>7
  <1>11. \A e \in 1..L : e \in BarDays(s)
    BY <1>1, <1>7, <1>8, <1>9
  <1>12. QED
    BY <1>7, <1>10, <1>11

\* A row with Horizon bars after its own is settled at the session Horizon later.
LEMMA HorizonOfMatured ==
    ASSUME BarsInv, NEW r \in Rows, Matured(r)
    PROVE  HorizonBar(r) = AsOf(r) + Horizon /\ bars[r] = "final"
  <1>1. PICK s \in Symbols, d \in Days : r = <<s, d>>
    BY DEF Rows
  <1>2. Symbol(r) = s /\ AsOf(r) = d /\ Horizon \in Nat \ {0} /\ d \in Nat
    BY <1>1, SettlementAssumption DEF Symbol, AsOf, Days
  <1>3. d \in BarDays(s)
    BY <1>1, <1>2 DEF Matured, BarDays
  <1>4. PICK L \in Nat : L \in Days /\ BarDays(s) = 1..L
    BY <1>3, BarsInterval DEF Days
  <1>5. d <= L /\ BarsAfter(r) = (d + 1)..L
    <2>1. BarsAfter(r) = {e \in 1..L : e > d}
      BY <1>2, <1>4 DEF BarsAfter
    <2>2. \A e : e \in {f \in 1..L : f > d} <=> e \in (d + 1)..L
      BY <1>2, <1>4
    <2>3. QED
      BY <1>2, <1>3, <1>4, <2>1, <2>2
  <1>6. L - d >= Horizon
    <2>1. Cardinality((d + 1)..L) = IF d + 1 > L THEN 0 ELSE L - (d + 1) + 1
      BY <1>2, <1>4, FS_Interval
    <2>2. Cardinality((d + 1)..L) >= Horizon
      BY <1>5 DEF Matured
    <2>3. QED
      BY <1>2, <1>4, <1>5, <2>1, <2>2
  <1>7. \A x \in (d + 1)..L : Cardinality({e \in BarsAfter(r) : e <= x}) = x - d
    <2>1. TAKE x \in (d + 1)..L
    <2>2. {e \in BarsAfter(r) : e <= x} = (d + 1)..x
      BY <1>2, <1>4, <1>5
    <2>3. Cardinality((d + 1)..x) = x - (d + 1) + 1
      BY <1>2, <1>4, FS_Interval
    <2>4. x - (d + 1) + 1 = x - d
      BY <1>2, <1>4
    <2>5. QED
      BY <2>2, <2>3, <2>4, Zenon
  <1>8. d + Horizon \in (d + 1)..L
    BY <1>2, <1>4, <1>6
  <1>9. PICK h : h = HorizonBar(r)
    OBVIOUS
  <1>10. h \in BarsAfter(r) /\ Cardinality({e \in BarsAfter(r) : e <= h}) = Horizon
    <2>1. d + Horizon \in BarsAfter(r) /\ Cardinality({e \in BarsAfter(r) : e <= d + Horizon}) = Horizon
      BY <1>2, <1>5, <1>7, <1>8
    <2>2. QED
      BY <1>9, <2>1 DEF HorizonBar
  <1>11. h = d + Horizon
    BY <1>2, <1>4, <1>5, <1>7, <1>10
  <1>12. bars[r] = "final"
    <2>1. h \in Days /\ bars[<<s, h>>] # "none" /\ d < h
      BY <1>2, <1>10, <1>11 DEF BarsAfter, BarDays
    <2>2. QED
      BY <1>1, <2>1 DEF BarsInv
  <1>13. QED
    BY <1>2, <1>9, <1>11, <1>12

\* Steps that leave the bars alone, and do not get further behind unpunished.
LEMMA BarsStay ==
    ASSUME BarsInv, StoreTypes, JobTypes, UNCHANGED <<bars, day>>,
           fails' \in Nat,
           \/ fails' = fails + 1
           \/ fails' = fails /\ \A s \in Symbols : Behind(s) => Behind(s)'
    PROVE  BarsInv'
  <1>1. /\ MaxFails \in Nat /\ fails \in Nat /\ day \in Nat /\ Days \subseteq Nat
        /\ \A s : Slack(s) \in {0, 1} /\ Slack(s)' \in {0, 1}
    BY SettlementAssumption DEF StoreTypes, JobTypes, Days, Slack
  <1>2. ASSUME NEW s \in Symbols PROVE fails + Slack(s) <= fails' + Slack(s)'
    <2>1. CASE fails' = fails + 1
      BY <1>1, <2>1
    <2>2. CASE fails' = fails /\ (Behind(s) => Behind(s)')
      <3>1. Slack(s) = 1 => Slack(s)' = 1
        BY <2>2 DEF Slack
      <3>2. QED
        BY <1>1, <2>2, <3>1
    <2>3. QED
      BY <2>1, <2>2
  <1>3. \A s : BarDays(s)' = BarDays(s)
    BY DEF BarDays
  <1>4. ASSUME NEW s \in Symbols, BarDays(s) # {}, NEW e \in Days, e <= day - 1 - fails' - Slack(s)'
        PROVE  bars[<<s, e>>] = "final"
    <2>1. e <= day - 1 - fails - Slack(s)
      BY <1>1, <1>2, <1>4
    <2>2. QED
      BY <1>4, <2>1 DEF BarsInv
  <1>5. QED
    BY <1>3, <1>4 DEF BarsInv

\* The refresh of one symbol leaves no hole behind it, as long as the outage
\* was short.
LEMMA DownloadFills ==
    ASSUME ShortOutage, BarsInv, StoreTypes, JobTypes,
           NEW s \in Symbols, NEW e \in Days, e < FetchFrom(s)
    PROVE  bars[<<s, e>>] = "final"
  <1>1. /\ MaxFails \in Nat /\ fails \in Nat /\ fails <= MaxFails /\ day \in Nat /\ e \in Nat /\ e >= 1
        /\ Overlap \in Nat /\ MaxFails <= Overlap + 1 /\ Days \subseteq Nat /\ Slack(s) \in {0, 1}
    BY SettlementAssumption DEF StoreTypes, JobTypes, Days, Slack, ShortOutage
  <1>2. CASE BarDays(s) = {}
    BY <1>1, <1>2 DEF FetchFrom
  <1>3. CASE BarDays(s) # {}
    <2>1. PICK L \in Nat : L = LastBar(s) /\ L \in Days /\ L \in BarDays(s)
      BY <1>1, <1>3, BarsInterval DEF Days
    <2>2. CASE e < L
      BY <2>1, <2>2 DEF BarsInv, BarDays
    <2>3. CASE L <= e
      <3>1. e < day - (Overlap + 2)
        BY <1>1, <1>3, <2>1, <2>3 DEF FetchFrom
      <3>2. e <= day - 1 - fails - Slack(s)
        BY <1>1, <3>1
      <3>3. QED
        BY <1>3, <3>2 DEF BarsInv
    <2>4. QED
      BY <1>1, <2>1, <2>2, <2>3
  <1>4. QED
    BY <1>2, <1>3

LEMMA DownloadBars ==
    ASSUME ShortOutage, BarsInv, StoreTypes, JobTypes, AgendaInv,
           NEW j \in Jobs, NEW r \in todo[j], Download(j, r)
    PROVE  BarsInv' /\ StoreTypes'
  <1>1. /\ todo \in [Jobs -> SUBSET Rows] /\ bars \in [Rows -> Quality] /\ at[j] = "download"
        /\ UNCHANGED <<day, session, due, agenda, at>> /\ todo' = [todo EXCEPT ![j] = @ \ {r}]
        /\ day \in Days /\ Days \subseteq Nat /\ fails \in Nat /\ MaxFails \in Nat /\ fails <= MaxFails
        /\ session \in Sessions
    BY SettlementAssumption DEF JobTypes, StoreTypes, Download, clockVars, Days
  <1>2. j = "pipeline" /\ AsOf(r) = day
    <2>1. agenda[j] # << >> /\ Head(agenda[j]) = "refresh" /\ AsOf(r) = day
      BY <1>1 DEF AgendaInv
    <2>2. agenda[j] \notin {<< >>, <<"catchup">>, <<"predict">>}
      BY <2>1, AgendaTails
    <2>3. QED
      BY <2>1, <2>2 DEF AgendaInv
  <1>3. CASE Fail("download") /\ UNCHANGED bars
    <2>1. fails' = fails + 1 /\ fails' \in Nat /\ fails' <= MaxFails
      BY <1>1, <1>3 DEF Fail
    <2>2. StoreTypes'
      BY <1>1, <1>3, <2>1 DEF StoreTypes
    <2>3. QED
      BY <1>1, <1>3, <2>1, <2>2, BarsStay
  <1>4. ASSUME NEW today \in Quality,
               bars' = [b \in Rows |->
                          IF Symbol(b) # Symbol(r) \/ AsOf(b) < FetchFrom(Symbol(r)) \/ AsOf(b) > day
                          THEN bars[b]
                          ELSE IF AsOf(b) = day THEN today ELSE "final"],
               UNCHANGED fails
        PROVE  BarsInv' /\ StoreTypes'
    <2>1. PICK s \in Symbols : Symbol(r) = s /\ r = <<s, day>>
      BY <1>1, <1>2 DEF Rows, Symbol, AsOf
    <2>2. \A t \in Symbols, e \in Days : Symbol(<<t, e>>) = t /\ AsOf(<<t, e>>) = e /\ <<t, e>> \in Rows
      BY DEF Symbol, AsOf, Rows
    <2>3. ASSUME NEW t \in Symbols \ {s}, NEW e \in Days PROVE bars'[<<t, e>>] = bars[<<t, e>>]
      BY <1>4, <2>1, <2>2
    <2>4. ASSUME NEW e \in Days, e < day PROVE bars'[<<s, e>>] = "final"
      <3>1. CASE e < FetchFrom(s)
        BY <1>4, <2>1, <2>2, <3>1, DownloadFills
      <3>2. CASE ~(e < FetchFrom(s))
        BY <1>1, <1>4, <2>1, <2>2, <2>4, <3>2
      <3>3. QED
        BY <3>1, <3>2
    <2>5. ASSUME NEW e \in Days, day < e PROVE bars'[<<s, e>>] = "none"
      <3>1. bars[<<s, e>>] = "none"
        BY <1>1, <2>5 DEF BarsInv
      <3>2. bars'[<<s, e>>] = bars[<<s, e>>]
        BY <1>1, <1>4, <2>1, <2>2, <2>5
      <3>3. QED
        BY <3>1, <3>2
    <2>6. ASSUME NEW t \in Symbols, NEW d \in Days, bars'[<<t, d>>] # "none"
          PROVE  d <= day /\ \A e \in Days : e < d => bars'[<<t, e>>] = "final"
      <3>1. CASE t = s
        BY <1>1, <2>4, <2>5, <2>6, <3>1
      <3>2. CASE t # s
        BY <2>3, <2>6, <3>2 DEF BarsInv
      <3>3. QED
        BY <3>1, <3>2
    <2>7. ASSUME NEW t \in Symbols, BarDays(t)' # {}, NEW e \in Days, e <= day - 1 - fails - Slack(t)'
          PROVE  bars'[<<t, e>>] = "final"
      <3>1. Slack(t) \in {0, 1} /\ Slack(t)' \in {0, 1}
        BY DEF Slack
      <3>2. CASE t = s
        BY <1>1, <2>4, <2>7, <3>1, <3>2
      <3>3. CASE t # s
        <4>1. BarDays(t)' = BarDays(t)
          BY <2>3, <3>3 DEF BarDays
        <4>2. Behind(t) => Behind(t)'
          BY <1>1, <1>2, <2>1, <3>3 DEF Behind, RefreshPending
        <4>3. e <= day - 1 - fails - Slack(t)
          BY <1>1, <2>7, <3>1, <4>2 DEF Slack
        <4>4. QED
          BY <2>3, <2>7, <3>3, <4>1, <4>3 DEF BarsInv
      <3>4. QED
        BY <3>2, <3>3
    <2>8. StoreTypes'
      BY <1>1, <1>4 DEF StoreTypes, Quality
    <2>9. QED
      BY <1>1, <1>2, <1>4, <2>6, <2>7, <2>8 DEF BarsInv
  <1>5. \A q \in (IF session = "evening" THEN {"final"} ELSE {"partial", bars[r]}) : q \in Quality
    BY <1>1 DEF Quality
  <1>6. CASE \E today \in IF session = "evening" THEN {"final"} ELSE {"partial", bars[r]} :
               /\ bars' = [b \in Rows |->
                          IF Symbol(b) # Symbol(r) \/ AsOf(b) < FetchFrom(Symbol(r)) \/ AsOf(b) > day
                          THEN bars[b]
                          ELSE IF AsOf(b) = day THEN today ELSE "final"]
               /\ UNCHANGED fails
    BY <1>4, <1>5, <1>6
  <1>7. QED
    BY <1>3, <1>6 DEF Download

\* The other steps leave the bars alone; those that end a morning's refresh of
\* a symbol without it count as a fault.
LEMMA BarsStep ==
    ASSUME ShortOutage, BarsInv, StoreTypes, JobTypes, Running, AgendaInv, [Next]_vars
    PROVE  BarsInv' /\ StoreTypes'
  <1> USE DEF clockVars, logVars, jobVars
  <1>1. /\ todo \in [Jobs -> SUBSET Rows] /\ at \in [Jobs -> Places] /\ agenda \in [Jobs -> Seq(Steps)]
        /\ bars \in [Rows -> Quality] /\ day \in Days /\ Days \subseteq Nat
        /\ fails \in Nat /\ MaxFails \in Nat /\ fails <= MaxFails /\ session \in Sessions
    BY SettlementAssumption DEF JobTypes, StoreTypes, Days
  <1>2. ASSUME UNCHANGED <<bars, day, session, fails>>, \A s \in Symbols : Behind(s) => Behind(s)'
        PROVE  BarsInv' /\ StoreTypes'
    BY <1>1, <1>2, BarsStay DEF StoreTypes
  <1>3. ASSUME UNCHANGED <<bars, day, session>>, NEW f \in FaultNames, Fail(f)
        PROVE  BarsInv' /\ StoreTypes'
    <2>1. fails' = fails + 1 /\ fails' \in Nat /\ fails' <= MaxFails
      BY <1>1, <1>3 DEF Fail
    <2>2. QED
      BY <1>1, <1>3, <2>1, BarsStay DEF StoreTypes
  <1>4. ASSUME NEW j \in Jobs, StartJob(j) PROVE BarsInv' /\ StoreTypes'
    <2>1. /\ UNCHANGED <<bars, day, session, fails, at, todo>> /\ at[j] = "next" /\ due' = due \ {j}
          /\ agenda' = [agenda EXCEPT ![j] = Script(j)]
      BY <1>4 DEF StartJob, Running
    <2>2. ASSUME j = "pipeline" PROVE RefreshPending'
      <3>1. agenda'["pipeline"] = <<"refresh", "predict", "catchup">>
        BY <1>1, <2>1, <2>2 DEF Script
      <3>2. QED
        BY <2>2, <3>1, AgendaTails DEF RefreshPending
    <2>3. ASSUME j # "pipeline", RefreshPending PROVE RefreshPending'
      BY <1>1, <2>1, <2>3 DEF RefreshPending
    <2>4. \A s \in Symbols : Behind(s) => Behind(s)'
      BY <2>1, <2>2, <2>3 DEF Behind
    <2>5. QED
      BY <1>2, <2>1, <2>4
  <1>5. ASSUME NEW j \in Jobs, UNCHANGED <<bars, day, session, fails, due>>,
               \A i \in Jobs \ {j} : agenda'[i] = agenda[i] /\ at'[i] = at[i] /\ todo'[i] = todo[i],
               Head(agenda[j]) # "refresh", agenda[j] # << >>
        PROVE  BarsInv' /\ StoreTypes'
    <2>1. j = "pipeline" => ~RefreshPending
      BY <1>5 DEF RefreshPending, AgendaInv
    <2>2. j # "pipeline" => \A s \in Symbols : Behind(s) => Behind(s)'
      BY <1>5 DEF Behind, RefreshPending
    <2>3. \A s \in Symbols : Behind(s) => Behind(s)'
      BY <2>1, <2>2 DEF Behind
    <2>4. QED
      BY <1>2, <1>5, <2>3
  <1>6. ASSUME NEW j \in Jobs, JobStep(j) PROVE BarsInv' /\ StoreTypes'
    <2>1. /\ at[j] # "next" => agenda[j] # << >>
          /\ at[j] \notin {"next", "download"} => Head(agenda[j]) # "refresh"
      BY DEF Running, AgendaInv
    <2>2. CASE BeginRefresh(j)
      <3>1. /\ UNCHANGED <<bars, day, session, due, fails>>
            /\ at[j] = "next" /\ agenda[j] # << >> /\ Head(agenda[j]) = "refresh"
        BY <2>2 DEF BeginRefresh, Begins
      <3>2. j = "pipeline"
        <4>1. agenda[j] \notin {<< >>, <<"catchup">>, <<"predict">>}
          BY <3>1, AgendaTails
        <4>2. QED
          BY <4>1 DEF AgendaInv
      <3>3. CASE StoreOpenForReading
        <4>1. PICK i \in Jobs : at[i] \in {"settle", "commit", "rank", "write", "features"}
          BY <3>3 DEF StoreOpenForReading
        <4>2. i # "pipeline" /\ agenda[i] # << >>
          BY <3>1, <3>2, <4>1 DEF Running
        <4>3. session # "morning"
          BY <4>2 DEF AgendaInv
        <4>4. QED
          BY <1>2, <3>1, <4>3 DEF Behind
      <3>4. CASE ~StoreOpenForReading
        <4>1. /\ todo' = [todo EXCEPT ![j] = {r \in Rows : AsOf(r) = day}] /\ UNCHANGED agenda
          BY <2>2, <3>4 DEF BeginRefresh
        <4>2. \A s \in Symbols : <<s, day>> \in todo'[j]
          BY <1>1, <4>1 DEF Rows, AsOf
        <4>3. \A s \in Symbols : Behind(s) => Behind(s)'
          BY <3>1, <3>2, <4>1, <4>2 DEF Behind, RefreshPending
        <4>4. QED
          BY <1>2, <3>1, <4>3
      <3>5. QED
        BY <3>3, <3>4
    <2>3. ASSUME NEW r \in todo[j], Download(j, r) PROVE BarsInv' /\ StoreTypes'
      BY <2>3, DownloadBars
    <2>4. CASE RefreshEnds(j)
      <3>1. at[j] = "download" /\ todo[j] = {} /\ UNCHANGED <<bars, day, session, due, fails, todo>> /\ StepOver(j)
        BY <2>4 DEF RefreshEnds
      <3>2. agenda[j] # << >> /\ Head(agenda[j]) = "refresh"
        BY <3>1 DEF AgendaInv
      <3>3. agenda[j] \notin {<< >>, <<"catchup">>, <<"predict">>}
        BY <3>2, AgendaTails
      <3>4. j = "pipeline"
        BY <3>3 DEF AgendaInv
      <3>5. \A s \in Symbols : ~Behind(s)
        BY <3>1, <3>4 DEF Behind
      <3>6. QED
        BY <1>2, <3>1, <3>5
    <2>5. CASE SettleSelects(j)
      BY <1>1, <1>5, <2>5 DEF SettleSelects, Begins, SettleReturns, StepOver
    <2>6. CASE SettleConnects(j)
      BY <1>1, <1>5, <2>1, <2>6 DEF SettleConnects, StepOver
    <2>7. CASE SettleRows(j)
      BY <1>1, <1>5, <2>1, <2>7 DEF SettleRows, SettleReturns, StepOver
    <2>8. CASE CommitReturns(j)
      BY <1>1, <1>5, <2>1, <2>8 DEF CommitReturns
    <2>9. ASSUME NEW p \in groups[j], ReadGroup(j, p) PROVE BarsInv' /\ StoreTypes'
      BY <1>1, <1>5, <2>1, <2>9 DEF ReadGroup
    <2>10. CASE WriteGroup(j)
      BY <1>1, <1>5, <2>1, <2>10 DEF WriteGroup
    <2>11. CASE CommitQuintiles(j)
      BY <1>1, <1>5, <2>1, <2>11 DEF CommitQuintiles, SettleReturns, StepOver
    <2>12. CASE LockTimeout(j)
      BY <1>1, <1>5, <2>1, <2>12 DEF LockTimeout, Dropped, StepOver
    <2>13. CASE PredictFails(j)
      BY <1>1, <1>3, <1>5, <2>1, <2>13 DEF PredictFails, StepOver, FaultNames
    <2>14. CASE OpenFeatures(j)
      BY <1>1, <1>5, <2>1, <2>14 DEF OpenFeatures
    <2>15. CASE ComputePredictions(j)
      BY <1>1, <1>5, <2>1, <2>15 DEF ComputePredictions, StepOver
    <2>16. CASE LogPredictions(j)
      BY <1>1, <1>5, <2>1, <2>16 DEF LogPredictions, StepOver
    <2>17. QED
      BY <1>6, <2>2, <2>3, <2>4, <2>5, <2>6, <2>7, <2>8, <2>9, <2>10, <2>11, <2>12, <2>13, <2>14,
         <2>15, <2>16 DEF JobStep
  <1>7. CASE NextSession
    <2>1. /\ due = {} /\ UNCHANGED <<bars, fails, agenda, at, todo>> /\ due' = Due(session')
          /\ \A j \in Jobs : agenda[j] = << >>
      BY <1>7 DEF NextSession, Idle
    <2>2. ~RefreshPending
      BY <2>1 DEF RefreshPending
    <2>3. CASE session = "morning" /\ session' = "evening" /\ UNCHANGED day
      <3>1. \A s \in Symbols : ~Behind(s)
        BY <2>2 DEF Behind
      <3>2. BarsInv'
        BY <1>1, <2>1, <2>3, <3>1, BarsStay
      <3>3. QED
        BY <1>1, <2>1, <2>3, <3>2 DEF StoreTypes, Sessions
    <2>4. CASE session = "evening" /\ session' = "morning" /\ day < MaxDay /\ day' = day + 1
      <3>1. \A s : Slack(s) = 0
        BY <2>4 DEF Slack, Behind
      <3>2. \A s : BarDays(s)' = BarDays(s)
        BY <2>1 DEF BarDays
      <3>3. ASSUME NEW s \in Symbols, BarDays(s) # {} PROVE Slack(s)' = 1
        <4>1. "pipeline" \in Jobs
          <5>1. PICK d \in Days : bars[<<s, d>>] # "none" /\ <<s, d>> \in Rows
            BY <3>3 DEF BarDays, Rows
          <5>2. QED
            BY <5>1 DEF BarsInv
        <4>2. "pipeline" \in due' /\ session' = "morning" /\ at'["pipeline"] = "next"
          BY <2>1, <2>4, <4>1 DEF Due, Running
        <4>3. QED
          BY <4>2 DEF Slack, Behind, RefreshPending
      <3>4. ASSUME NEW s \in Symbols, BarDays(s) # {}, NEW e \in Days, e <= day' - 1 - fails' - Slack(s)'
            PROVE  bars'[<<s, e>>] = "final"
        <4>1. e <= day - 1 - fails - Slack(s)
          BY <1>1, <2>1, <2>4, <3>1, <3>3, <3>4
        <4>2. QED
          BY <2>1, <3>4, <4>1 DEF BarsInv
      <3>5. ASSUME NEW s \in Symbols, NEW d \in Days, bars[<<s, d>>] # "none"
            PROVE  d <= day' /\ \A e \in Days : e < d => bars[<<s, e>>] = "final"
        BY <1>1, <2>4, <3>5 DEF BarsInv
      <3>6. BarsInv'
        BY <2>1, <3>2, <3>4, <3>5 DEF BarsInv
      <3>7. QED
        BY <1>1, <2>1, <2>4, <3>6 DEF StoreTypes, Sessions
    <2>5. QED
      BY <1>7, <2>3, <2>4 DEF NextSession
  <1>8. CASE Crash
    BY <1>1, <1>3, <1>8 DEF Crash, FaultNames
  <1>9. CASE EndOfHorizon \/ UNCHANGED vars
    <2>1. UNCHANGED vars
      BY <1>9 DEF EndOfHorizon
    <2>2. \A s \in Symbols : Behind(s) => Behind(s)'
      BY <2>1 DEF vars, Behind, RefreshPending
    <2>3. QED
      BY <1>2, <2>1, <2>2 DEF vars
  <1>10. QED
    BY <1>4, <1>6, <1>7, <1>8, <1>9 DEF Next

\* While rows wait for their commit the bars do not change.
LEMMA MaturedStep ==
    ASSUME JobTypes, StoreInv, MaturedInv, [Next]_vars
    PROVE  MaturedInv'
  <1> USE DEF clockVars, logVars, jobVars
  <1>1. todo \in [Jobs -> SUBSET Rows] /\ at \in [Jobs -> Places]
    BY DEF JobTypes
  <1>2. ASSUME UNCHANGED bars,
               \A i \in Jobs : at'[i] = "commit" => at[i] = "commit" /\ todo'[i] = todo[i]
        PROVE  MaturedInv'
    BY <1>2 DEF MaturedInv, Matured, BarsAfter, BarDays
  <1>3. ASSUME NEW j \in Jobs, NEW r \in todo[j], Download(j, r) PROVE MaturedInv'
    <2>1. \A i \in Jobs : at'[i] # "commit"
      BY <1>3 DEF Download, StoreInv, StoreOpenForReading, StoreOpenForWriting
    <2>2. QED
      BY <2>1 DEF MaturedInv
  <1>4. ASSUME NEW j \in Jobs, SettleRows(j) PROVE MaturedInv'
    <2>1. /\ UNCHANGED bars /\ todo'[j] = {r \in todo[j] : Matured(r)}
          /\ \A i \in Jobs \ {j} : at'[i] = at[i] /\ todo'[i] = todo[i]
      BY <1>1, <1>4 DEF SettleRows, SettleReturns, StepOver
    <2>2. \A r : Matured(r)' = Matured(r)
      BY <2>1 DEF Matured, BarsAfter, BarDays
    <2>3. QED
      BY <2>1, <2>2 DEF MaturedInv
  <1>5. ASSUME NEW j \in Jobs,
               \/ StartJob(j) \/ BeginRefresh(j) \/ RefreshEnds(j) \/ SettleSelects(j) \/ SettleConnects(j)
               \/ CommitReturns(j) \/ (\E p \in groups[j] : ReadGroup(j, p)) \/ WriteGroup(j)
               \/ CommitQuintiles(j) \/ LockTimeout(j) \/ PredictFails(j) \/ OpenFeatures(j)
               \/ ComputePredictions(j) \/ LogPredictions(j)
        PROVE  MaturedInv'
    <2>1. UNCHANGED bars
      BY <1>5 DEF StartJob, BeginRefresh, RefreshEnds, SettleSelects, SettleConnects, CommitReturns,
         ReadGroup, WriteGroup, CommitQuintiles, LockTimeout, PredictFails, OpenFeatures,
         ComputePredictions, LogPredictions
    <2>2. \A i \in Jobs \ {j} : at'[i] = at[i] /\ todo'[i] = todo[i]
      BY <1>1, <1>5 DEF StartJob, BeginRefresh, RefreshEnds, SettleSelects, SettleConnects, CommitReturns,
         ReadGroup, WriteGroup, CommitQuintiles, LockTimeout, PredictFails, OpenFeatures,
         ComputePredictions, LogPredictions, SettleReturns, StepOver, Dropped
    <2>3. at'[j] = "commit" => at[j] = "commit" /\ todo'[j] = todo[j]
      BY <1>1, <1>5 DEF StartJob, BeginRefresh, RefreshEnds, SettleSelects, SettleConnects, CommitReturns,
         ReadGroup, WriteGroup, CommitQuintiles, LockTimeout, PredictFails, OpenFeatures,
         ComputePredictions, LogPredictions, SettleReturns, StepOver, Dropped
    <2>4. QED
      BY <1>2, <2>1, <2>2, <2>3
  <1>6. CASE NextSession \/ Crash \/ EndOfHorizon \/ UNCHANGED vars
    BY <1>2, <1>6 DEF NextSession, Crash, EndOfHorizon, vars
  <1>7. QED
    BY <1>3, <1>4, <1>5, <1>6 DEF Next, JobStep

LEMMA HorizonInit == Init => HorizonInv
  <1> SUFFICES ASSUME Init PROVE HorizonInv
    OBVIOUS
  <1>1. JobTypes /\ Running /\ LockInv /\ StoreInv
    BY RankingInit DEF RankingInv
  <1>2. AgendaInv
    BY DEF Init, AgendaInv, Agendas
  <1>3. StoreTypes
    BY SettlementAssumption DEF Init, StoreTypes, Quality, Sessions
  <1>4. \A s \in Symbols, d \in Days : bars[<<s, d>>] = "none"
    BY DEF Init, Rows
  <1>5. BarsInv
    BY <1>4 DEF Init, BarsInv, BarDays
  <1>6. MaturedInv /\ HorizonExact
    BY DEF Init, MaturedInv, HorizonExact, Settled
  <1>7. QED
    BY <1>1, <1>2, <1>3, <1>5, <1>6 DEF HorizonInv

LEMMA HorizonStep ==
    ASSUME ShortOutage, HorizonInv, [Next]_vars
    PROVE  HorizonInv'
  <1>1. JobTypes' /\ Running' /\ LockInv' /\ StoreInv'
    BY TypesStep, LocksStep DEF HorizonInv
  <1>2. AgendaInv'
    BY AgendaStep DEF HorizonInv
  <1>3. BarsInv' /\ StoreTypes'
    BY BarsStep DEF HorizonInv
  <1>4. MaturedInv'
    BY MaturedStep DEF HorizonInv
  <1>5. HorizonExact'
    <2>1. ASSUME NEW j \in Jobs, CommitReturns(j) PROVE HorizonExact'
      <3>1. /\ realized' = [r \in Rows |-> IF r \in todo[j] THEN Outcome(r) ELSE realized[r]]
            /\ at[j] = "commit"
        BY <2>1 DEF CommitReturns
      <3>2. \A r \in todo[j] : r \in Rows /\ Matured(r)
        BY <3>1 DEF HorizonInv, MaturedInv, JobTypes
      <3>3. \A r \in todo[j] : Outcome(r).at = AsOf(r) + Horizon /\ Outcome(r).base = "final"
        BY <3>2, HorizonOfMatured DEF HorizonInv, Outcome
      <3>4. ASSUME NEW r \in Rows, realized'[r] # NoReturn
            PROVE  realized'[r].at = AsOf(r) + Horizon /\ realized'[r].base = "final"
        <4>1. CASE r \in todo[j]
          BY <3>1, <3>3, <4>1
        <4>2. CASE r \notin todo[j]
          BY <3>1, <3>4, <4>2 DEF HorizonInv, HorizonExact, Settled
        <4>3. QED
          BY <4>1, <4>2
      <3>5. QED
        BY <3>4 DEF HorizonExact, Settled
    <2>2. CASE UNCHANGED realized
      BY <2>2 DEF HorizonInv, HorizonExact, Settled
    <2>3. (\E j \in Jobs : CommitReturns(j)) \/ UNCHANGED realized
      BY DEF Next, JobStep, StartJob, BeginRefresh, Download, RefreshEnds, SettleSelects, SettleConnects,
         SettleRows, ReadGroup, WriteGroup, CommitQuintiles, LockTimeout, PredictFails, OpenFeatures,
         ComputePredictions, LogPredictions, NextSession, Crash, EndOfHorizon, vars, logVars
    <2>4. QED
      BY <2>1, <2>2, <2>3
  <1>6. QED
    BY <1>1, <1>2, <1>3, <1>4, <1>5 DEF HorizonInv

\* A return covers exactly Horizon sessions from a complete bar, whatever jobs
\* overlap or die, as long as an outage stays within the overlap window of the
\* refresh (yfinance_adapter.py, daily_update; tracking.py, settle_predictions).
\* With one fault more TLC finds a return over too long a stretch.
THEOREM HorizonExactHolds ==
    ASSUME ShortOutage
    PROVE  Spec => []HorizonExact
  <1>1. Init => HorizonInv
    BY HorizonInit
  <1>2. HorizonInv /\ [Next]_vars => HorizonInv'
    BY HorizonStep
  <1>3. HorizonInv => HorizonExact
    BY DEF HorizonInv
  <1>4. QED
    BY <1>1, <1>2, <1>3, PTL DEF Spec

-----------------------------------------------------------------------------
(***************************************************************************)
(* ReturnsStay: a job may settle rows that another has settled since it    *)
(* selected them.  It finds the same bars, because nothing is left to      *)
(* settle when the refresh of an evening begins.                           *)
(***************************************************************************)

\* Without the pipeline there is no refresh, and no bar.
EmptyStore == "pipeline" \notin Jobs => \A r \in Rows : bars[r] = "none"

\* Until the evening's refresh is over no job has anything to commit.
FreshInv ==
    RefreshPending /\ session = "evening" =>
        /\ at["pipeline"] # "download" => Exhausted
        /\ \A j \in Jobs : /\ at[j] # "commit"
                           /\ at[j] \in {"connect", "settle"} => \A r \in todo[j] : Open(r)

\* The pipeline has settled this morning.
MorningDone ==
    /\ ~RefreshPending
    /\ "pipeline" \in Jobs /\ agenda["pipeline"] = <<"predict", "catchup">> =>
          at["pipeline"] \notin {"next", "connect", "settle", "commit"}

MorningInv == session = "morning" /\ MorningDone => Exhausted

\* What a job finds for a row that was settled meanwhile is what is there.
SameOutcome ==
    \A j \in Jobs : at[j] \in {"connect", "settle", "commit"} =>
        \A r \in todo[j] : Settled(r) => Matured(r) /\ realized[r] = Outcome(r)

ReturnsInv == session \in Sessions /\ EmptyStore /\ FreshInv /\ MorningInv /\ SameOutcome

\* In the morning only the pipeline runs, and it has settled before it goes on.
LEMMA SettledThisMorning ==
    ASSUME AgendaInv, MorningInv, session = "morning", NEW j \in Jobs,
           agenda[j] # << >>, Head(agenda[j]) # "refresh",
           \/ agenda[j] # <<"predict", "catchup">>
           \/ at[j] \notin {"next", "connect", "settle", "commit"}
    PROVE  Exhausted
  <1>1. j = "pipeline" /\ j \notin due
    BY DEF AgendaInv
  <1>2. ~RefreshPending
    BY <1>1 DEF RefreshPending
  <1>3. QED
    BY <1>1, <1>2 DEF MorningInv, MorningDone

\* What is exhausted stays so until bars come or a session begins.
LEMMA ExhaustedStays ==
    ASSUME Exhausted, JobTypes, UNCHANGED <<bars, day, realized>>,
           \A r \in Rows : prediction'[r] # "none" => prediction[r] # "none" \/ AsOf(r) = day
    PROVE  Exhausted'
  <1>1. \A r : Matured(r)' = Matured(r)
    BY DEF Matured, BarsAfter, BarDays
  <1>2. ASSUME NEW r \in Rows, Open(r)' PROVE Open(r)
    <2>1. AsOf(r) \in Nat /\ day \in Nat /\ Horizon \in Nat \ {0}
      BY SettlementAssumption DEF JobTypes, Rows, Days, AsOf
    <2>2. AsOf(r) + Horizon <= day /\ prediction'[r] # "none" /\ ~Settled(r)
      BY <1>2 DEF Open, Settled
    <2>3. QED
      BY <2>1, <2>2 DEF Open
  <1>3. QED
    BY <1>1, <1>2 DEF Exhausted

\* A job that settles, ranks, predicts or logs, but for its commits of returns.
LEMMA QuietReturns ==
    ASSUME JobTypes, AgendaInv, ReturnsInv, NEW j \in Jobs,
           UNCHANGED <<bars, day, session, due, realized>>,
           \A r \in Rows : /\ prediction[r] # "none" => prediction'[r] # "none"
                           /\ prediction'[r] # "none" => prediction[r] # "none" \/ AsOf(r) = day,
           \A i \in Jobs \ {j} : agenda'[i] = agenda[i] /\ at'[i] = at[i] /\ todo'[i] = todo[i],
           agenda[j] # << >>, Head(agenda[j]) # "refresh",
           agenda'[j] \in {agenda[j], Tail(agenda[j])},
           at'[j] \in {"connect", "settle", "commit"} =>
               \A r \in todo'[j] : \/ r \in Rows /\ Open(r)
                                   \/ r \in todo[j] /\ at[j] \in {"connect", "settle", "commit"},
           at'[j] = "commit" => ~(RefreshPending /\ session = "evening"),
           session = "morning" =>
               \/ Exhausted
               \/ /\ agenda'[j] = <<"predict", "catchup">>
                  /\ at'[j] \in {"next", "connect", "settle", "commit"}
    PROVE  ReturnsInv'
  <1>1. EmptyStore'
    BY DEF ReturnsInv, EmptyStore
  <1>2. (\A r : Matured(r)' = Matured(r)) /\ (\A r : Outcome(r)' = Outcome(r)) /\ (\A r : Settled(r)' = Settled(r))
    BY DEF Matured, BarsAfter, BarDays, Outcome, HorizonBar, Settled
  <1>3. Exhausted => Exhausted'
    BY ExhaustedStays
  <1>4. \A r \in Rows : Open(r) => Open(r)'
    BY DEF Open, Settled
  <1>5. j = "pipeline" => ~RefreshPending /\ ~RefreshPending'
    <2>1. ASSUME j = "pipeline" PROVE ~RefreshPending /\ ~RefreshPending'
      <3>1. j \notin due /\ agenda[j] \in Agendas
        BY DEF AgendaInv
      <3>2. Tail(agenda[j]) = << >> \/ Head(Tail(agenda[j])) # "refresh"
        BY <3>1, AgendaTails DEF Agendas
      <3>3. QED
        BY <2>1, <3>1, <3>2 DEF RefreshPending
    <2>2. QED
      BY <2>1
  <1>6. RefreshPending' => j # "pipeline" /\ RefreshPending
    BY <1>5 DEF RefreshPending
  <1>7. FreshInv'
    <2>1. SUFFICES ASSUME RefreshPending', session' = "evening"
                   PROVE  /\ at'["pipeline"] # "download" => Exhausted'
                          /\ \A i \in Jobs : /\ at'[i] # "commit"
                                             /\ at'[i] \in {"connect", "settle"} =>
                                                    \A r \in todo'[i] : Open(r)'
      BY DEF FreshInv
    <2>2. /\ j # "pipeline" /\ RefreshPending /\ session = "evening"
          /\ at["pipeline"] # "download" => Exhausted
          /\ \A i \in Jobs : /\ at[i] # "commit"
                             /\ at[i] \in {"connect", "settle"} => \A r \in todo[i] : Open(r)
      BY <1>6, <2>1 DEF ReturnsInv, FreshInv
    <2>3. at'["pipeline"] # "download" => Exhausted'
      <3>1. CASE "pipeline" \in Jobs
        BY <1>3, <2>2, <3>1
      <3>2. CASE "pipeline" \notin Jobs
        BY <2>2, <3>2, SettlementAssumption DEF RefreshPending, AgendaInv, Due
      <3>3. QED
        BY <3>1, <3>2
    <2>4. ASSUME NEW i \in Jobs
          PROVE  /\ at'[i] # "commit"
                 /\ at'[i] \in {"connect", "settle"} => \A r \in todo'[i] : Open(r)'
      <3>1. ASSUME at'[i] \in {"connect", "settle"}, NEW r \in todo'[i] PROVE Open(r)'
        <4>1. r \in Rows /\ Open(r)
          BY <2>2, <3>1 DEF JobTypes
        <4>2. QED
          BY <1>4, <4>1
      <3>2. QED
        BY <2>2, <3>1
    <2>5. QED
      BY <2>3, <2>4
  <1>8. MorningInv'
    <2>1. SUFFICES ASSUME session = "morning", MorningDone' PROVE Exhausted'
      BY DEF MorningInv
    <2>2. j = "pipeline"
      BY <2>1 DEF AgendaInv
    <2>3. QED
      BY <1>3, <2>1, <2>2 DEF MorningDone
  <1>9. SameOutcome'
    <2>1. ASSUME NEW i \in Jobs, at'[i] \in {"connect", "settle", "commit"}, NEW r \in todo'[i], Settled(r)'
          PROVE  Matured(r)' /\ realized'[r] = Outcome(r)'
      <3>1. ~Open(r)
        BY <1>2, <2>1 DEF Open
      <3>2. r \in todo[i] /\ at[i] \in {"connect", "settle", "commit"}
        BY <2>1, <3>1
      <3>3. QED
        BY <1>2, <2>1, <3>2 DEF ReturnsInv, SameOutcome
    <2>2. QED
      BY <2>1 DEF SameOutcome
  <1>10. QED
    BY <1>1, <1>7, <1>8, <1>9 DEF ReturnsInv

\* The refresh: its bars come while nobody has anything left to settle.
LEMMA RefreshReturns ==
    ASSUME JobTypes, Running, StoreInv, AgendaInv, ReturnsInv, NEW j \in Jobs,
           BeginRefresh(j) \/ RefreshEnds(j) \/ \E r \in todo[j] : Download(j, r)
    PROVE  ReturnsInv'
  <1> USE DEF clockVars, logVars, jobVars
  <1>1. /\ todo \in [Jobs -> SUBSET Rows] /\ at \in [Jobs -> Places] /\ agenda \in [Jobs -> Seq(Steps)]
        /\ UNCHANGED <<day, session, due, prediction, realized>>
    BY DEF JobTypes, BeginRefresh, RefreshEnds, Download
  <1>2. agenda[j] # << >> /\ Head(agenda[j]) = "refresh"
    BY DEF AgendaInv, BeginRefresh, Begins, RefreshEnds, Download
  <1>3. /\ j = "pipeline" /\ RefreshPending
        /\ agenda[j] = <<"refresh", "predict", "catchup">> /\ j \notin due
    <2>1. agenda[j] \notin {<< >>, <<"catchup">>, <<"predict">>, <<"predict", "catchup">>}
      BY <1>2, AgendaTails
    <2>2. QED
      BY <1>2, <2>1 DEF AgendaInv, Agendas, RefreshPending
  <1>4. \A r : Open(r)' = Open(r) /\ Settled(r)' = Settled(r)
    BY <1>1 DEF Open, Settled
  <1>5. ASSUME StepOver(j), UNCHANGED bars,
               session = "morning" => at[j] # "next" \/ \A i \in Jobs : at[i] = "next",
               \A i \in Jobs \ {j} : todo'[i] = todo[i]
        PROVE  ReturnsInv'
    <2>1. /\ at'[j] = "next" /\ agenda'[j] = <<"predict", "catchup">>
          /\ \A i \in Jobs \ {j} : at'[i] = at[i]
      BY <1>1, <1>3, <1>5, AgendaTails DEF StepOver
    <2>2. ~RefreshPending'
      BY <1>1, <1>3, <2>1, AgendaTails DEF RefreshPending
    <2>3. ~MorningDone'
      BY <1>3, <2>1 DEF MorningDone
    <2>4. (\A r : Matured(r)' = Matured(r)) /\ (\A r : Outcome(r)' = Outcome(r))
      BY <1>5 DEF Matured, BarsAfter, BarDays, Outcome, HorizonBar
    <2>5. SameOutcome'
      BY <1>1, <1>4, <1>5, <2>1, <2>4 DEF ReturnsInv, SameOutcome
    <2>6. EmptyStore'
      BY <1>5 DEF ReturnsInv, EmptyStore
    <2>7. QED
      BY <1>1, <2>2, <2>3, <2>5, <2>6 DEF ReturnsInv, FreshInv, MorningInv
  <1>6. CASE BeginRefresh(j)
    <2>1. UNCHANGED bars /\ at[j] = "next"
      BY <1>6 DEF BeginRefresh, Begins
    <2>2. CASE StoreOpenForReading
      <3>1. session = "morning" => \A i \in Jobs : at[i] = "next"
        BY <1>3, <2>1 DEF AgendaInv, Running
      <3>2. QED
        BY <1>5, <1>6, <2>1, <2>2, <3>1 DEF BeginRefresh
    <2>3. CASE ~StoreOpenForReading
      <3>1. /\ at'[j] = "download" /\ UNCHANGED agenda
            /\ \A i \in Jobs \ {j} : at'[i] = at[i] /\ todo'[i] = todo[i]
        BY <1>1, <1>6, <2>3 DEF BeginRefresh
      <3>2. RefreshPending'
        BY <1>1, <1>3, <3>1 DEF RefreshPending
      <3>3. FreshInv'
        BY <1>1, <1>3, <1>4, <3>1 DEF ReturnsInv, FreshInv
      <3>4. (\A r : Matured(r)' = Matured(r)) /\ (\A r : Outcome(r)' = Outcome(r))
        BY <2>1 DEF Matured, BarsAfter, BarDays, Outcome, HorizonBar
      <3>5. SameOutcome'
        BY <1>1, <1>4, <3>1, <3>4 DEF ReturnsInv, SameOutcome
      <3>6. QED
        BY <1>1, <2>1, <3>2, <3>3, <3>5 DEF ReturnsInv, EmptyStore, MorningInv, MorningDone
    <2>4. QED
      BY <2>2, <2>3
  <1>7. CASE RefreshEnds(j)
    BY <1>5, <1>7 DEF RefreshEnds
  <1>8. ASSUME NEW r \in todo[j], Download(j, r) PROVE ReturnsInv'
    <2>1. /\ at[j] = "download" /\ UNCHANGED <<agenda, at>>
          /\ \A i \in Jobs \ {j} : todo'[i] = todo[i]
      BY <1>1, <1>8 DEF Download
    <2>2. RefreshPending'
      BY <1>1, <1>3, <2>1 DEF RefreshPending
    <2>3. FreshInv'
      BY <1>1, <1>3, <1>4, <2>1 DEF ReturnsInv, FreshInv
    <2>4. ASSUME NEW i \in Jobs, at[i] \in {"connect", "settle", "commit"}, NEW q \in todo'[i], Settled(q)
          PROVE  FALSE
      <3>1. i # j /\ q \in todo[i] /\ agenda[i] # << >>
        BY <2>1, <2>4 DEF Running
      <3>2. session = "evening"
        BY <1>3, <3>1, <2>4 DEF AgendaInv, ReturnsInv, Sessions
      <3>3. at[i] # "commit" /\ Open(q)
        BY <1>3, <2>4, <3>1, <3>2 DEF ReturnsInv, FreshInv
      <3>4. QED
        BY <2>4, <3>3 DEF Open
    <2>5. SameOutcome'
      BY <1>4, <2>1, <2>4 DEF SameOutcome
    <2>6. QED
      BY <1>1, <1>3, <2>2, <2>3, <2>5 DEF ReturnsInv, EmptyStore, MorningInv, MorningDone
  <1>9. QED
    BY <1>6, <1>7, <1>8

\* The commit of returns.
LEMMA CommitReturnsOnce ==
    ASSUME JobTypes, StoreInv, LockInv, TodoInv, AgendaInv, ReturnsInv, NEW j \in Jobs, CommitReturns(j),
           ExhaustedInv'
    PROVE  /\ ReturnsInv'
           /\ \A r \in Rows : Settled(r) => realized'[r] = realized[r]
  <1> USE DEF clockVars, logVars, jobVars
  <1>1. /\ todo \in [Jobs -> SUBSET Rows] /\ at \in [Jobs -> Places]
        /\ UNCHANGED <<day, session, due, bars, prediction, agenda>> /\ at[j] = "commit"
        /\ at'[j] = "rank" /\ todo'[j] = {}
        /\ \A i \in Jobs \ {j} : at'[i] = at[i] /\ todo'[i] = todo[i]
        /\ realized' = [r \in Rows |-> IF r \in todo[j] THEN Outcome(r) ELSE realized[r]]
    BY DEF JobTypes, CommitReturns
  <1>2. (\A r : Matured(r)' = Matured(r)) /\ (\A r : Outcome(r)' = Outcome(r))
    BY <1>1 DEF Matured, BarsAfter, BarDays, Outcome, HorizonBar
  <1>3. \A r \in todo[j] : Matured(r) /\ r \in Rows
    BY <1>1 DEF TodoInv
  <1>4. ASSUME NEW r \in Rows, Settled(r) PROVE realized'[r] = realized[r]
    BY <1>1, <1>4 DEF ReturnsInv, SameOutcome
  <1>5. FreshInv'
    BY <1>1 DEF ReturnsInv, FreshInv, RefreshPending
  <1>6. Exhausted'
    BY <1>1 DEF ExhaustedInv, Ranking
  <1>7. SameOutcome'
    <2>1. ASSUME NEW i \in Jobs, at'[i] \in {"connect", "settle", "commit"}, NEW r \in todo'[i], Settled(r)'
          PROVE  Matured(r) /\ realized'[r] = Outcome(r)
      <3>1. i # j /\ r \in todo[i] /\ at[i] \in {"connect", "settle", "commit"} /\ r \in Rows
        BY <1>1, <2>1
      <3>2. CASE r \in todo[j]
        BY <1>1, <1>3, <3>2
      <3>3. CASE r \notin todo[j]
        <4>1. realized'[r] = realized[r] /\ Settled(r)
          BY <1>1, <2>1, <3>1, <3>3 DEF Settled
        <4>2. QED
          BY <3>1, <4>1 DEF ReturnsInv, SameOutcome
      <3>4. QED
        BY <3>2, <3>3
    <2>2. QED
      BY <1>2, <2>1 DEF SameOutcome
  <1>8. QED
    BY <1>1, <1>4, <1>5, <1>6, <1>7 DEF ReturnsInv, EmptyStore, MorningInv

LEMMA JobReturns ==
    ASSUME JobTypes, Running, StoreInv, LockInv, TodoInv, AgendaInv, ReturnsInv, NEW j \in Jobs,
           \/ SettleSelects(j) \/ SettleConnects(j) \/ SettleRows(j) \/ WriteGroup(j) \/ CommitQuintiles(j)
           \/ LockTimeout(j) \/ PredictFails(j) \/ OpenFeatures(j) \/ ComputePredictions(j)
           \/ LogPredictions(j) \/ \E p \in groups[j] : ReadGroup(j, p)
    PROVE  ReturnsInv'
  <1> USE DEF clockVars, logVars, jobVars
  <1>1. /\ todo \in [Jobs -> SUBSET Rows] /\ at \in [Jobs -> Places] /\ agenda \in [Jobs -> Seq(Steps)]
        /\ UNCHANGED <<day, session, due, bars, realized>>
        /\ \A i \in Jobs \ {j} : agenda'[i] = agenda[i] /\ at'[i] = at[i] /\ todo'[i] = todo[i]
        /\ agenda'[j] \in {agenda[j], Tail(agenda[j])}
    BY DEF JobTypes, SettleSelects, SettleConnects, SettleRows, WriteGroup, CommitQuintiles, LockTimeout,
       PredictFails, OpenFeatures, ComputePredictions, LogPredictions, ReadGroup, SettleReturns, StepOver,
       Dropped
  <1>2. agenda[j] # << >> /\ Head(agenda[j]) # "refresh"
    BY DEF AgendaInv, Running, SettleSelects, Begins, SettleConnects, SettleRows, WriteGroup, CommitQuintiles,
       LockTimeout, PredictFails, OpenFeatures, ComputePredictions, LogPredictions, ReadGroup
  <1>3. \A r \in Rows : /\ prediction[r] # "none" => prediction'[r] # "none"
                        /\ prediction'[r] # "none" => prediction[r] # "none" \/ AsOf(r) = day
    <2>1. CASE UNCHANGED prediction
      BY <2>1
    <2>2. CASE LogPredictions(j)
      BY <2>2 DEF LogPredictions, Logged
    <2>3. QED
      BY <2>1, <2>2 DEF SettleSelects, SettleConnects, SettleRows, WriteGroup, CommitQuintiles,
         LockTimeout, PredictFails, OpenFeatures, ComputePredictions, ReadGroup
  <1>4. ASSUME session = "morning", at[j] \notin {"next", "connect", "settle", "commit"} PROVE Exhausted
    BY <1>2, <1>4, SettledThisMorning DEF ReturnsInv
  <1>5. ASSUME session = "morning", agenda[j] # <<"predict", "catchup">> PROVE Exhausted
    BY <1>2, <1>5, SettledThisMorning DEF ReturnsInv
  <1>6. session = "morning" => \A i \in Jobs \ {j} : at[i] = "next"
    BY <1>2 DEF AgendaInv, Running
  <1>7. ASSUME at'[j] \notin {"connect", "settle", "commit"},
               session = "morning" => Exhausted
        PROVE  ReturnsInv'
    BY <1>1, <1>2, <1>3, <1>7, QuietReturns
  <1>8. ASSUME at[j] \notin {"next", "connect", "settle", "commit"},
               at'[j] \notin {"connect", "settle", "commit"}
        PROVE  ReturnsInv'
    BY <1>4, <1>7, <1>8
  <1>9. CASE SettleSelects(j)
    <2>1. at[j] = "next" /\ todo'[j] = {r \in Rows : Open(r)}
      BY <1>1, <1>9 DEF SettleSelects, Begins
    <2>2. CASE \E r \in Rows : Open(r)
      <3>1. at'[j] = "connect" /\ UNCHANGED agenda
        BY <1>1, <1>9, <2>2 DEF SettleSelects
      <3>2. session = "morning" => Exhausted \/ agenda'[j] = <<"predict", "catchup">>
        BY <1>5, <3>1
      <3>3. \A r \in todo'[j] : r \in Rows /\ Open(r)
        BY <2>1
      <3>4. QED
        BY <1>1, <1>2, <1>3, <3>1, <3>2, <3>3, QuietReturns
    <2>3. CASE ~\E r \in Rows : Open(r)
      <3>1. at'[j] \in {"next", "members"} /\ Exhausted
        BY <1>1, <1>9, <2>3 DEF SettleSelects, SettleReturns, StepOver, Exhausted
      <3>2. QED
        BY <1>7, <3>1
    <2>4. QED
      BY <2>2, <2>3
  <1>10. CASE SettleConnects(j)
    <2>1. at[j] = "connect"
      BY <1>10 DEF SettleConnects
    <2>2. CASE StoreOpenForWriting
      <3>1. session # "morning"
        BY <1>6, <2>1, <2>2 DEF StoreOpenForWriting
      <3>2. at'[j] = "next"
        BY <1>1, <1>10, <2>2 DEF SettleConnects, StepOver
      <3>3. QED
        BY <1>7, <3>1, <3>2
    <2>3. CASE ~StoreOpenForWriting
      <3>1. at'[j] = "settle" /\ UNCHANGED <<agenda, todo>>
        BY <1>1, <1>10, <2>3 DEF SettleConnects
      <3>2. session = "morning" => Exhausted \/ agenda'[j] = <<"predict", "catchup">>
        BY <1>5, <3>1
      <3>3. QED
        BY <1>1, <1>2, <1>3, <2>1, <3>1, <3>2, QuietReturns
    <2>4. QED
      BY <2>2, <2>3
  <1>11. CASE SettleRows(j)
    <2>1. /\ at[j] = "settle" /\ todo'[j] = {r \in todo[j] : Matured(r)}
          /\ \A r \in Rows : Open(r) => r \in todo[j]
      BY <1>1, <1>11 DEF SettleRows, TodoInv
    <2>2. CASE {r \in todo[j] : Matured(r)} = {}
      <3>1. at'[j] \in {"next", "members"}
        BY <1>1, <1>11, <2>2 DEF SettleRows, SettleReturns, StepOver
      <3>2. Exhausted
        BY <2>1, <2>2 DEF Exhausted
      <3>3. QED
        BY <1>7, <3>1, <3>2
    <2>3. CASE {r \in todo[j] : Matured(r)} # {}
      <3>1. at'[j] = "commit" /\ UNCHANGED agenda
        BY <1>1, <1>11, <2>3 DEF SettleRows
      <3>2. session = "morning" => Exhausted \/ agenda'[j] = <<"predict", "catchup">>
        BY <1>5, <3>1
      <3>3. ~(RefreshPending /\ session = "evening")
        <4>1. SUFFICES ASSUME RefreshPending, session = "evening" PROVE FALSE
          OBVIOUS
        <4>2. at["pipeline"] # "download" \/ "pipeline" \notin Jobs
          BY <2>1 DEF StoreInv, StoreOpenForReading, StoreOpenForWriting
        <4>3. "pipeline" \in Jobs
          BY <4>1, SettlementAssumption DEF RefreshPending, AgendaInv, Due
        <4>4. Exhausted /\ \A r \in todo[j] : Open(r) /\ r \in Rows
          BY <1>1, <2>1, <4>1, <4>2, <4>3 DEF ReturnsInv, FreshInv
        <4>5. QED
          BY <2>3, <4>4 DEF Exhausted
      <3>4. \A r \in todo'[j] : r \in todo[j]
        BY <2>1
      <3>5. QED
        BY <1>1, <1>2, <1>3, <2>1, <3>1, <3>2, <3>3, <3>4, QuietReturns
    <2>4. QED
      BY <2>2, <2>3
  <1>12. CASE LockTimeout(j)
    <2>1. at'[j] = "next" /\ writer \notin {j, Nobody}
      BY <1>1, <1>12 DEF LockTimeout, StepOver, CanWrite
    <2>2. writer \in Jobs \ {j} /\ at[writer] # "next"
      BY <2>1 DEF LockInv
    <2>3. QED
      BY <1>6, <1>7, <2>1, <2>2
  <1>13. CASE WriteGroup(j) \/ \E p \in groups[j] : ReadGroup(j, p)
    BY <1>1, <1>8, <1>13 DEF WriteGroup, ReadGroup
  <1>14. CASE CommitQuintiles(j)
    BY <1>1, <1>8, <1>14 DEF CommitQuintiles, SettleReturns, StepOver
  <1>15. CASE PredictFails(j) \/ OpenFeatures(j) \/ ComputePredictions(j) \/ LogPredictions(j)
    BY <1>1, <1>8, <1>15 DEF PredictFails, OpenFeatures, ComputePredictions, LogPredictions, StepOver
  <1>16. QED
    BY <1>9, <1>10, <1>11, <1>12, <1>13, <1>14, <1>15

\* The scheduler: jobs begin, sessions pass.
LEMMA SchedulerReturns ==
    ASSUME JobTypes, Running, AgendaInv, ReturnsInv,
           NextSession \/ \E j \in Jobs : StartJob(j)
    PROVE  ReturnsInv'
  <1> USE DEF clockVars, logVars, jobVars
  <1>1. UNCHANGED <<bars, prediction, realized, at, todo>> /\ agenda \in [Jobs -> Seq(Steps)]
    BY DEF NextSession, StartJob, JobTypes
  <1>2. /\ \A r : Matured(r)' = Matured(r)
        /\ \A r : Outcome(r)' = Outcome(r)
        /\ \A r : Settled(r)' = Settled(r)
    BY <1>1 DEF Matured, BarsAfter, BarDays, Outcome, HorizonBar, Settled
  <1>3. SameOutcome' /\ EmptyStore'
    BY <1>1, <1>2 DEF ReturnsInv, SameOutcome, EmptyStore
  <1>4. ASSUME NEW j \in Jobs, StartJob(j) PROVE ReturnsInv'
    <2>1. /\ UNCHANGED <<day, session>> /\ due' = due \ {j} /\ j \in due
          /\ agenda' = [agenda EXCEPT ![j] = Script(j)]
      BY <1>4 DEF StartJob
    <2>2. \A r : Open(r)' = Open(r)
      BY <1>1, <1>2, <2>1 DEF Open
    <2>3. Exhausted' = Exhausted
      BY <1>2, <2>2 DEF Exhausted
    <2>4. CASE j = "pipeline"
      <3>1. RefreshPending /\ agenda'["pipeline"] = <<"refresh", "predict", "catchup">>
        BY <1>1, <2>1, <2>4 DEF RefreshPending, Script
      <3>2. RefreshPending'
        BY <2>4, <3>1, AgendaTails DEF RefreshPending
      <3>3. FreshInv'
        BY <1>1, <2>1, <2>2, <2>3, <3>1 DEF ReturnsInv, FreshInv
      <3>4. QED
        BY <1>3, <2>1, <3>2, <3>3 DEF ReturnsInv, MorningInv, MorningDone
    <2>5. CASE j # "pipeline"
      <3>1. session # "morning"
        BY <2>1, <2>5 DEF AgendaInv, Due
      <3>2. RefreshPending' = RefreshPending
        BY <1>1, <2>1, <2>5 DEF RefreshPending
      <3>3. FreshInv'
        BY <1>1, <2>1, <2>2, <2>3, <3>2 DEF ReturnsInv, FreshInv
      <3>4. QED
        BY <1>3, <2>1, <3>1, <3>3 DEF ReturnsInv, MorningInv
    <2>6. QED
      BY <2>4, <2>5
  <1>5. CASE NextSession
    <2>1. /\ due = {} /\ UNCHANGED agenda /\ due' = Due(session')
          /\ \A j \in Jobs : agenda[j] = << >> /\ at[j] = "next"
      BY <1>5 DEF NextSession, Idle, Running
    <2>2. ~RefreshPending
      BY <2>1 DEF RefreshPending
    <2>3. CASE session = "morning" /\ session' = "evening" /\ UNCHANGED day
      <3>1. MorningDone
        BY <2>1, <2>2 DEF MorningDone
      <3>2. Exhausted'
        BY <1>1, <1>2, <2>3, <3>1 DEF ReturnsInv, MorningInv, Exhausted, Open
      <3>3. FreshInv'
        BY <1>1, <2>1, <3>2 DEF FreshInv
      <3>4. QED
        BY <1>3, <2>3, <3>3 DEF ReturnsInv, MorningInv, Sessions
    <2>4. CASE session = "evening" /\ session' = "morning" /\ day' = day + 1
      <3>1. CASE "pipeline" \in Jobs
        <4>1. RefreshPending'
          BY <2>1, <2>4, <3>1 DEF RefreshPending, Due
        <4>2. QED
          BY <1>3, <2>4, <4>1 DEF ReturnsInv, FreshInv, MorningInv, MorningDone, Sessions
      <3>2. CASE "pipeline" \notin Jobs
        <4>1. Exhausted'
          BY <1>1, <3>2 DEF ReturnsInv, EmptyStore, Exhausted, Matured
        <4>2. QED
          BY <1>3, <2>4, <4>1 DEF ReturnsInv, FreshInv, MorningInv, Sessions
      <3>3. QED
        BY <3>1, <3>2
    <2>5. QED
      BY <1>5, <2>3, <2>4 DEF NextSession
  <1>6. QED
    BY <1>4, <1>5

LEMMA ReturnsStep ==
    ASSUME NeverDies, RankingInv, AgendaInv, ReturnsInv, [Next]_vars
    PROVE  /\ AgendaInv' /\ ReturnsInv'
           /\ \A r \in Rows : Settled(r) => realized'[r] = realized[r]
  <1>1. JobTypes /\ Running /\ StoreInv /\ LockInv /\ TodoInv /\ ExhaustedInv'
    BY RankingStep DEF RankingInv
  <1>2. AgendaInv'
    BY <1>1, AgendaStep
  <1>3. ASSUME NEW j \in Jobs, CommitReturns(j)
        PROVE  ReturnsInv' /\ \A r \in Rows : Settled(r) => realized'[r] = realized[r]
    BY <1>1, <1>3, CommitReturnsOnce
  <1>4. ASSUME NEW j \in Jobs, StartJob(j) \/ JobStep(j), ~CommitReturns(j)
        PROVE  ReturnsInv'
    BY <1>1, <1>4, SchedulerReturns, RefreshReturns, JobReturns DEF JobStep
  <1>5. ASSUME NextSession PROVE ReturnsInv'
    BY <1>1, <1>5, SchedulerReturns
  <1>6. ASSUME EndOfHorizon \/ UNCHANGED vars PROVE ReturnsInv'
    <2>1. UNCHANGED vars
      BY <1>6 DEF EndOfHorizon
    <2>2. /\ UNCHANGED <<day, session, due, bars, prediction, realized, quintile>>
          /\ UNCHANGED <<agenda, at, todo>>
      BY <2>1 DEF vars
    <2>3. /\ \A r : Open(r)' = Open(r)
          /\ \A r : Matured(r)' = Matured(r)
          /\ Exhausted' = Exhausted
      BY <2>2, Frame
    <2>4. (\A r : Settled(r)' = Settled(r)) /\ (\A r : Outcome(r)' = Outcome(r))
      BY <2>2 DEF Settled, Outcome, HorizonBar, BarsAfter, BarDays
    <2>5. RefreshPending' = RefreshPending /\ MorningDone' = MorningDone
      BY <2>2 DEF RefreshPending, MorningDone
    <2>6. FreshInv' /\ MorningInv'
      BY <2>2, <2>3, <2>5 DEF ReturnsInv, FreshInv, MorningInv
    <2>7. SameOutcome' /\ EmptyStore'
      BY <2>2, <2>3, <2>4 DEF ReturnsInv, SameOutcome, EmptyStore
    <2>8. QED
      BY <2>2, <2>6, <2>7 DEF ReturnsInv
  <1>7. ~Crash
    BY DEF Crash, Fail, NeverDies
  <1>8. ReturnsInv'
    BY <1>3, <1>4, <1>5, <1>6, <1>7 DEF Next
  <1>9. (\E j \in Jobs : CommitReturns(j)) \/ UNCHANGED realized
    BY <1>7 DEF Next, JobStep, StartJob, BeginRefresh, Download, RefreshEnds, SettleSelects, SettleConnects,
       SettleRows, ReadGroup, WriteGroup, CommitQuintiles, LockTimeout, PredictFails, OpenFeatures,
       ComputePredictions, LogPredictions, NextSession, EndOfHorizon, vars, logVars
  <1>10. QED
    BY <1>2, <1>3, <1>8, <1>9

\* A return is written once, although a job may settle rows that another has
\* settled since it selected them (tracking.py, settle_predictions: the SELECT
\* of the open rows, and the UPDATEs after the store has been opened).  A crash
\* between the refresh and the settlement of a morning breaks it.
THEOREM ReturnsStayHolds ==
    ASSUME NeverDies
    PROVE  Spec => ReturnsStay
  <1>1. Init => RankingInv /\ AgendaInv /\ ReturnsInv
    <2>1. SUFFICES ASSUME Init PROVE RankingInv /\ AgendaInv /\ ReturnsInv
      OBVIOUS
    <2>2. RankingInv /\ AgendaInv
      BY <2>1, HorizonInit, RankingInit DEF HorizonInv
    <2>3. SameOutcome /\ FreshInv /\ EmptyStore /\ session \in Sessions
      BY <2>1 DEF Init, SameOutcome, FreshInv, EmptyStore, Sessions
    <2>4. Exhausted
      BY <2>1 DEF Init, Exhausted, Open
    <2>5. QED
      BY <2>2, <2>3, <2>4 DEF ReturnsInv, MorningInv
  <1>2. RankingInv /\ AgendaInv /\ ReturnsInv /\ [Next]_vars =>
          /\ RankingInv' /\ AgendaInv' /\ ReturnsInv'
          /\ [\A r \in Rows : Settled(r) => realized'[r] = realized[r]]_vars
    BY RankingStep, ReturnsStep
  <1>3. QED
    BY <1>1, <1>2, PTL DEF Spec, ReturnsStay

=============================================================================
