----------------------------- MODULE Settlement -----------------------------
(***************************************************************************)
(* The daily jobs of jobs/scheduler.py that share the bar store and the    *)
(* predictions log: the refresh of yfinance_adapter.daily_update, the      *)
(* daily_predict job and the settlement of packages/inference/tracking.py. *)
(*                                                                         *)
(* APScheduler runs the jobs on threads of one process.  DuckDB refuses to *)
(* open a file read-write while the process has it open read-only, and the *)
(* other way round; SQLite gives its write lock to one connection, from    *)
(* the first UPDATE to the commit, and a connection that waits for it too  *)
(* long raises.  Days are sessions: the windows that the code counts in    *)
(* calendar days (the cut-off of the selection, the overlap of the         *)
(* refresh) are counted in sessions.  One universe; prices are reduced to  *)
(* whether a bar is complete, quintiles to the group they were cut from.   *)
(***************************************************************************)
EXTENDS Integers, Sequences, FiniteSets

CONSTANTS
    Symbols,   \* members of the universe
    Horizon,   \* horizon_days
    Overlap,   \* _OVERLAP_DAYS
    MinGroup,  \* smallest group that is cut into quintiles
    Jobs,      \* the scheduled jobs considered, out of JobNames
    MaxDay,    \* bound: sessions explored
    MaxFails,  \* bound: faults
    Faults     \* which of FaultNames the environment may produce

JobNames ==
    { "pipeline",  \* _job_us_ct_pipeline, 08:35 and 17:00 CT
      "predict",   \* _job_daily_predict, 23:00 UTC
      "catchup" }  \* _job_settlement_catchup, 23:30 UTC

FaultNames ==
    { "download",  \* yfinance returns nothing for a symbol
      "predict",   \* predict_universe finds no model or raises
      "crash" }    \* the scheduler process dies and is started again

ASSUME SettlementAssumption ==
    /\ IsFiniteSet(Symbols)
    /\ Horizon \in Nat \ {0}
    /\ Overlap \in Nat
    /\ MinGroup \in Nat
    /\ Jobs \subseteq JobNames
    /\ MaxDay \in Nat \ {0}
    /\ MaxFails \in Nat
    /\ Faults \subseteq FaultNames

Days == 1..MaxDay
Rows == Symbols \X Days   \* rows of predictions_log, and bars of the store
Quality == {"none", "partial", "final"}
Sessions == {"morning", "evening"}

\* realized_return, by what it was computed from: the session of the horizon
\* bar and the completeness of the bars at both ends.
Returns == [at : Days, base : Quality, close : Quality]
NoReturn == [at |-> 0, base |-> "none", close |-> "none"]
Nobody == "nobody"

VARIABLES
    day, session,  \* clock: before or after the close of a session
    due,           \* jobs whose trigger has fired in this session, not started
    bars,          \* DuckDB: ohlcv_daily
    prediction,    \* SQLite: the bars a logged prediction was computed on
    realized,      \* SQLite: realized_return
    quintile,      \* SQLite: realized_quintile, as the group it was cut from
    agenda,        \* per job: steps not yet over
    at,            \* per job: where its current step is
    todo,          \* per job: symbols to download, rows to settle
    groups,        \* per job: settled_groups not yet ranked
    snapshot,      \* per job: the group read and not yet written
    dirty,         \* per job: groups whose quintiles are not yet committed
    batch,         \* per job: predictions computed and not yet logged
    writer,        \* SQLite: the job that holds the write lock
    fails          \* bound counter

clockVars == <<day, session, due>>
logVars == <<prediction, realized, quintile>>
jobVars == <<agenda, at, todo, groups, snapshot, dirty, batch>>
vars == <<day, session, due, bars, prediction, realized, quintile,
          agenda, at, todo, groups, snapshot, dirty, batch, writer, fails>>

Steps == {"refresh", "predict", "catchup"}

\* "next" is between two steps; in "settle" to "write" settle_predictions has
\* the store open, in "log" daily_predict no longer has.
Places == {"next", "download", "connect", "settle", "commit", "rank", "write",
           "members", "features", "log"}

TypeOK ==
    /\ day \in Days
    /\ session \in Sessions
    /\ due \subseteq Jobs
    /\ bars \in [Rows -> Quality]
    /\ prediction \in [Rows -> Quality]
    /\ realized \in [Rows -> Returns \cup {NoReturn}]
    /\ quintile \in [Rows -> SUBSET Symbols]
    /\ agenda \in [Jobs -> Seq(Steps)]
    /\ at \in [Jobs -> Places]
    /\ todo \in [Jobs -> SUBSET Rows]
    /\ groups \in [Jobs -> SUBSET Days]
    /\ snapshot \in [Jobs -> SUBSET Rows]
    /\ dirty \in [Jobs -> SUBSET (SUBSET Rows)]
    /\ batch \in [Jobs -> [Symbols -> Quality]]
    /\ writer \in Jobs \cup {Nobody}
    /\ fails \in 0..MaxFails

-----------------------------------------------------------------------------
(* Helpers *)

Symbol(r) == r[1]
AsOf(r) == r[2]

\* The triggers of a session.
Due(s) == IF s = "morning" THEN Jobs \cap {"pipeline"} ELSE Jobs

\* The steps of a job.  daily_predict.run settles first.
Script(j) ==
    CASE j = "pipeline" -> <<"refresh", "predict", "catchup">>
      [] j = "predict" -> <<"predict">>
      [] j = "catchup" -> <<"catchup">>

NoBatch == [s \in Symbols |-> "none"]

Init ==
    /\ day = 1
    /\ session = "morning"
    /\ due = Due("morning")
    /\ bars = [r \in Rows |-> "none"]
    /\ prediction = [r \in Rows |-> "none"]
    /\ realized = [r \in Rows |-> NoReturn]
    /\ quintile = [r \in Rows |-> {}]
    /\ agenda = [j \in Jobs |-> << >>]
    /\ at = [j \in Jobs |-> "next"]
    /\ todo = [j \in Jobs |-> {}]
    /\ groups = [j \in Jobs |-> {}]
    /\ snapshot = [j \in Jobs |-> {}]
    /\ dirty = [j \in Jobs |-> {}]
    /\ batch = [j \in Jobs |-> NoBatch]
    /\ writer = Nobody
    /\ fails = 0

StoreOpenForWriting == \E j \in Jobs : at[j] = "download"
StoreOpenForReading ==
    \E j \in Jobs : at[j] \in {"settle", "commit", "rank", "write", "features"}

\* The write lock is free for j, or already its own.
CanWrite(j) == writer \in {j, Nobody}

Fail(f) == f \in Faults /\ fails < MaxFails /\ fails' = fails + 1

\* Job j is about to begin one of the steps S.
Begins(j, S) == at[j] = "next" /\ agenda[j] # << >> /\ Head(agenda[j]) \in S

\* The current step of j returns or raises: every step is wrapped in _safe_run.
StepOver(j) ==
    /\ at' = [at EXCEPT ![j] = "next"]
    /\ agenda' = [agenda EXCEPT ![j] = Tail(@)]

\* settle_predictions returns to its caller.
SettleReturns(j) ==
    IF Head(agenda[j]) = "predict"
    THEN at' = [at EXCEPT ![j] = "members"] /\ UNCHANGED agenda
    ELSE StepOver(j)

\* Local variables and connections of a step that raised are gone.
Dropped(j) ==
    /\ todo' = [todo EXCEPT ![j] = {}]
    /\ groups' = [groups EXCEPT ![j] = {}]
    /\ snapshot' = [snapshot EXCEPT ![j] = {}]
    /\ dirty' = [dirty EXCEPT ![j] = {}]
    /\ batch' = [batch EXCEPT ![j] = NoBatch]

-----------------------------------------------------------------------------
(* The scheduler *)

\* A trigger starts its job on a thread; max_instances is 1.  The catch-up
\* comes half an hour after the other evening jobs.
StartJob(j) ==
    /\ j \in due
    /\ agenda[j] = << >>
    /\ j = "catchup" => due = {"catchup"}
    /\ due' = due \ {j}
    /\ agenda' = [agenda EXCEPT ![j] = Script(j)]
    /\ UNCHANGED <<day, session, bars, logVars, at, todo, groups, snapshot,
                   dirty, batch, writer, fails>>

\* The jobs of a session are over long before those of the next.
Idle == due = {} /\ \A j \in Jobs : agenda[j] = << >>

NextSession ==
    /\ Idle
    /\ \/ session = "morning" /\ session' = "evening" /\ UNCHANGED day
       \/ session = "evening" /\ session' = "morning" /\ day < MaxDay /\ day' = day + 1
    /\ due' = Due(session')
    /\ UNCHANGED <<bars, logVars, jobVars, writer, fails>>

\* The last modelled session is over.
EndOfHorizon == Idle /\ session = "evening" /\ day = MaxDay /\ UNCHANGED vars

\* The process dies: uncommitted writes are rolled back, and jobs whose time
\* passes before the restart are missed.
Crash ==
    /\ Fail("crash")
    /\ due' \in {due, {}}
    /\ agenda' = [j \in Jobs |-> << >>]
    /\ at' = [j \in Jobs |-> "next"]
    /\ todo' = [j \in Jobs |-> {}]
    /\ groups' = [j \in Jobs |-> {}]
    /\ snapshot' = [j \in Jobs |-> {}]
    /\ dirty' = [j \in Jobs |-> {}]
    /\ batch' = [j \in Jobs |-> NoBatch]
    /\ writer' = Nobody
    /\ UNCHANGED <<day, session, bars, logVars>>

-----------------------------------------------------------------------------
(* yfinance_adapter.daily_update *)

BeginRefresh(j) ==
    /\ Begins(j, {"refresh"})
    /\ IF StoreOpenForReading
       THEN StepOver(j) /\ UNCHANGED todo
       ELSE /\ at' = [at EXCEPT ![j] = "download"]
            /\ todo' = [todo EXCEPT ![j] = {r \in Rows : AsOf(r) = day}]
            /\ UNCHANGED agenda
    /\ UNCHANGED <<clockVars, bars, logVars, groups, snapshot, dirty, batch, writer, fails>>

BarDays(s) == {d \in Days : bars[<<s, d>>] # "none"}
LastBar(s) == CHOOSE d \in BarDays(s) : \A e \in BarDays(s) : e <= d

\* Mutant: the earlier code, which went on after the last bar.
FetchFrom_AfterLast(s) == IF BarDays(s) = {} THEN 1 ELSE LastBar(s) + 1

\* The first session fetched: the overlap window before the last bar, but not
\* more than two days beyond it when the last bar is old.
FetchFrom(s) ==
    IF BarDays(s) = {} THEN 1
    ELSE LET a == LastBar(s) - Overlap
             b == day - (Overlap + 2)
         IN  IF a > b THEN a ELSE b

\* One symbol: fetch and upsert.  In the morning the bar of today is partial,
\* or so inconsistent that upsert_ohlcv drops it.
Download(j, r) ==
    /\ at[j] = "download"
    /\ r \in todo[j]
    /\ todo' = [todo EXCEPT ![j] = @ \ {r}]
    /\ \/ \E today \in IF session = "evening" THEN {"final"} ELSE {"partial", bars[r]} :
            /\ bars' = [b \in Rows |->
                          IF Symbol(b) # Symbol(r) \/ AsOf(b) < FetchFrom(Symbol(r))
                             \/ AsOf(b) > day
                          THEN bars[b]
                          ELSE IF AsOf(b) = day THEN today ELSE "final"]
            /\ UNCHANGED fails
       \/ Fail("download") /\ UNCHANGED bars
    /\ UNCHANGED <<clockVars, logVars, agenda, at, groups, snapshot, dirty, batch, writer>>

RefreshEnds(j) ==
    /\ at[j] = "download"
    /\ todo[j] = {}
    /\ StepOver(j)
    /\ UNCHANGED <<clockVars, bars, logVars, todo, groups, snapshot, dirty, batch, writer, fails>>

-----------------------------------------------------------------------------
(* settle_predictions *)

Settled(r) == realized[r] # NoReturn

\* Mutants: the cut-off is one session late; realized_return IS NULL is lost.
Open_Late(r) == prediction[r] # "none" /\ ~Settled(r) /\ AsOf(r) + Horizon < day

Open_Any(r) == prediction[r] # "none" /\ AsOf(r) + Horizon <= day

\* The rows that the first SELECT returns.
Open(r) == prediction[r] # "none" /\ ~Settled(r) /\ AsOf(r) + Horizon <= day

SettleSelects(j) ==
    /\ Begins(j, {"predict", "catchup"})
    /\ todo' = [todo EXCEPT ![j] = {r \in Rows : Open(r)}]
    /\ IF \E r \in Rows : Open(r)
       THEN at' = [at EXCEPT ![j] = "connect"] /\ UNCHANGED agenda
       ELSE SettleReturns(j)
    /\ UNCHANGED <<clockVars, bars, logVars, groups, snapshot, dirty, batch, writer, fails>>

\* duckdb.connect(read_only=True): outside any handler of the job's step.
SettleConnects(j) ==
    /\ at[j] = "connect"
    /\ IF StoreOpenForWriting
       THEN StepOver(j) /\ todo' = [todo EXCEPT ![j] = {}]
       ELSE at' = [at EXCEPT ![j] = "settle"] /\ UNCHANGED <<agenda, todo>>
    /\ UNCHANGED <<clockVars, bars, logVars, groups, snapshot, dirty, batch, writer, fails>>

BarsAfter(r) == {d \in BarDays(Symbol(r)) : d > AsOf(r)}

\* _close_at_offset finds the base bar and Horizon bars after it.
Matured(r) == bars[r] # "none" /\ Cardinality(BarsAfter(r)) >= Horizon

HorizonBar(r) ==
    CHOOSE d \in BarsAfter(r) : Cardinality({e \in BarsAfter(r) : e <= d}) = Horizon

Outcome(r) == [at |-> HorizonBar(r), base |-> bars[r],
               close |-> bars[<<Symbol(r), HorizonBar(r)>>]]

\* The loop of UPDATEs.  No bar changes before the commit, since the job keeps
\* the store open, so the values are written down when they are committed.
SettleRows(j) ==
    /\ at[j] = "settle"
    /\ LET rows == {r \in todo[j] : Matured(r)}
       IN  /\ todo' = [todo EXCEPT ![j] = rows]
           /\ IF rows = {}
              THEN SettleReturns(j) /\ UNCHANGED writer
              ELSE /\ CanWrite(j)
                   /\ writer' = j
                   /\ at' = [at EXCEPT ![j] = "commit"]
                   /\ UNCHANGED agenda
    /\ UNCHANGED <<clockVars, bars, logVars, groups, snapshot, dirty, batch, fails>>

\* The first commit.
CommitReturns(j) ==
    /\ at[j] = "commit"
    /\ realized' = [r \in Rows |-> IF r \in todo[j] THEN Outcome(r) ELSE realized[r]]
    /\ groups' = [groups EXCEPT ![j] = {AsOf(r) : r \in todo[j]}]
    /\ todo' = [todo EXCEPT ![j] = {}]
    /\ writer' = Nobody
    /\ at' = [at EXCEPT ![j] = "rank"]
    /\ UNCHANGED <<clockVars, bars, prediction, quintile, agenda, snapshot, dirty, batch, fails>>

Group(p) == {r \in Rows : AsOf(r) = p /\ Settled(r)}

\* Mutant: only the rows that have no quintile yet are ranked.
ReadGroup_New(j, p) ==
    /\ at[j] = "rank"
    /\ p \in groups[j]
    /\ groups' = [groups EXCEPT ![j] = @ \ {p}]
    /\ LET new == {r \in Group(p) : quintile[r] = {}}
       IN  IF Cardinality(new) < MinGroup
           THEN UNCHANGED <<at, snapshot>>
           ELSE /\ snapshot' = [snapshot EXCEPT ![j] = new]
                /\ at' = [at EXCEPT ![j] = "write"]
    /\ UNCHANGED <<clockVars, bars, logVars, agenda, todo, dirty, batch, writer, fails>>

\* The SELECT of one group, which takes no lock.
ReadGroup(j, p) ==
    /\ at[j] = "rank"
    /\ p \in groups[j]
    /\ groups' = [groups EXCEPT ![j] = @ \ {p}]
    /\ IF Cardinality(Group(p)) < MinGroup
       THEN UNCHANGED <<at, snapshot>>
       ELSE /\ snapshot' = [snapshot EXCEPT ![j] = Group(p)]
            /\ at' = [at EXCEPT ![j] = "write"]
    /\ UNCHANGED <<clockVars, bars, logVars, agenda, todo, dirty, batch, writer, fails>>

\* The UPDATEs of that group.
WriteGroup(j) ==
    /\ at[j] = "write"
    /\ CanWrite(j)
    /\ writer' = j
    /\ dirty' = [dirty EXCEPT ![j] = @ \cup {snapshot[j]}]
    /\ snapshot' = [snapshot EXCEPT ![j] = {}]
    /\ at' = [at EXCEPT ![j] = "rank"]
    /\ UNCHANGED <<clockVars, bars, logVars, agenda, todo, groups, batch, fails>>

Cut(g) == {Symbol(m) : m \in g}

\* The second commit.
CommitQuintiles(j) ==
    /\ at[j] = "rank"
    /\ groups[j] = {}
    /\ quintile' = [r \in Rows |->
                      IF \E g \in dirty[j] : r \in g
                      THEN Cut(CHOOSE g \in dirty[j] : r \in g)
                      ELSE quintile[r]]
    /\ dirty' = [dirty EXCEPT ![j] = {}]
    /\ writer' = IF writer = j THEN Nobody ELSE writer
    /\ SettleReturns(j)
    /\ UNCHANGED <<clockVars, bars, prediction, realized, todo, groups, snapshot, batch, fails>>

\* sqlite3 gives up waiting for the lock and raises; the job's step ends, and
\* what settle_predictions had left to rank is forgotten.
LockTimeout(j) ==
    /\ ~CanWrite(j)
    /\ \/ at[j] = "settle" /\ \E r \in todo[j] : Matured(r)
       \/ at[j] \in {"write", "log"}
    /\ StepOver(j)
    /\ Dropped(j)
    /\ UNCHANGED <<clockVars, bars, logVars, writer, fails>>

-----------------------------------------------------------------------------
(* daily_predict.run, after its settlement *)

\* predict_universe fails inside its handler: no predictions for the universe.
PredictFails(j) ==
    /\ at[j] = "members"
    /\ \/ StoreOpenForWriting /\ UNCHANGED fails
       \/ Fail("predict")
    /\ StepOver(j)
    /\ UNCHANGED <<clockVars, bars, logVars, todo, groups, snapshot, dirty, batch, writer>>

OpenFeatures(j) ==
    /\ at[j] = "members"
    /\ ~StoreOpenForWriting
    /\ at' = [at EXCEPT ![j] = "features"]
    /\ UNCHANGED <<clockVars, bars, logVars, agenda, todo, groups, snapshot, dirty, batch, writer, fails>>

\* One prediction per member with a bar dated exactly as_of, which is today.
ComputePredictions(j) ==
    /\ at[j] = "features"
    /\ IF \A s \in Symbols : bars[<<s, day>>] = "none"
       THEN StepOver(j) /\ UNCHANGED batch
       ELSE /\ batch' = [batch EXCEPT ![j] = [s \in Symbols |-> bars[<<s, day>>]]]
            /\ at' = [at EXCEPT ![j] = "log"]
            /\ UNCHANGED agenda
    /\ UNCHANGED <<clockVars, bars, logVars, todo, groups, snapshot, dirty, writer, fails>>

Logged(j, r) == AsOf(r) = day /\ batch[j][Symbol(r)] # "none"

\* log_predictions: one transaction that leaves the realized columns alone.
LogPredictions(j) ==
    /\ at[j] = "log"
    /\ writer = Nobody
    /\ prediction' = [r \in Rows |-> IF Logged(j, r) THEN batch[j][Symbol(r)]
                                     ELSE prediction[r]]
    /\ batch' = [batch EXCEPT ![j] = NoBatch]
    /\ StepOver(j)
    /\ UNCHANGED <<clockVars, bars, realized, quintile, todo, groups, snapshot, dirty, writer, fails>>

-----------------------------------------------------------------------------
JobStep(j) ==
    \/ BeginRefresh(j)
    \/ \E r \in todo[j] : Download(j, r)
    \/ RefreshEnds(j)
    \/ SettleSelects(j)
    \/ SettleConnects(j)
    \/ SettleRows(j)
    \/ CommitReturns(j)
    \/ \E p \in groups[j] : ReadGroup(j, p)
    \/ WriteGroup(j)
    \/ CommitQuintiles(j)
    \/ LockTimeout(j)
    \/ PredictFails(j)
    \/ OpenFeatures(j)
    \/ ComputePredictions(j)
    \/ LogPredictions(j)

Next ==
    \/ \E j \in Jobs : StartJob(j) \/ JobStep(j)
    \/ NextSession
    \/ Crash
    \/ EndOfHorizon

Spec == Init /\ [][Next]_vars

\* The triggers fire while the scheduler is up, every step of a job returns or
\* raises, and the calendar goes on.
LiveSpec ==
    /\ Spec
    /\ WF_vars(NextSession)
    /\ \A j \in Jobs : WF_vars(StartJob(j)) /\ WF_vars(JobStep(j))

-----------------------------------------------------------------------------
(* Properties *)

\* No job is inside settle_predictions.
NoSettlement ==
    \A j \in Jobs : at[j] \notin {"connect", "settle", "commit", "rank", "write"}

\* A realized return covers exactly Horizon sessions, from a complete bar: the
\* overlap window of the refresh repairs what an earlier refresh left out or
\* left partial before settle_predictions counts the bars.
HorizonExact ==
    \A r \in Rows : Settled(r) =>
        realized[r].at = AsOf(r) + Horizon /\ realized[r].base = "final"

\* "We never settle predictions whose horizon hasn't closed yet" (header of
\* tracking.py): the close of the horizon bar is that of a complete bar.
SettledOnFinalBars == \A r \in Rows : Settled(r) => realized[r].close = "final"

\* The quintiles of a date have been cut from all its settled returns.
Ranked(p) ==
    Cardinality(Group(p)) >= MinGroup => \A r \in Group(p) : quintile[r] = Cut(Group(p))

\* Once settle_predictions is over, the quintiles of a date have been cut from
\* all the returns of that date that are settled, although several jobs settle
\* and rank side by side, read a group without a lock and may fail to get it.
QuintilesCurrent == NoSettlement => \A p \in Days : Ranked(p)

\* "Then bucket realized_returns cross-sectionally" (settle_predictions), with
\* the catch-up jobs as "safety net": a date whose horizon closed before today
\* is ranked when the jobs of today are over.
QuintilesCaughtUp ==
    session = "evening" /\ Idle => \A p \in Days : p + Horizon < day => Ranked(p)

\* "The post-close 17:00 CT tick refetches and overwrites" (daily_update): when
\* the jobs of an evening are over no partial bar is left in the store.
EveningBarsFinal ==
    session = "evening" /\ Idle => \A r \in Rows : bars[r] # "partial"

\* A return is written once: neither a later settlement, nor one that selected
\* the row before, nor the upsert of newer predictions changes it.
ReturnsStay ==
    [][\A r \in Rows : Settled(r) => realized'[r] = realized[r]]_vars

\* Every prediction is settled when its horizon has passed.  A fault in the
\* evening costs the first session, whose morning bar may be dropped; each
\* further session has two good ticks and costs two faults.
EveryPredictionSettles ==
    \A r \in Rows : AsOf(r) + Horizon + ((MaxFails + 1) \div 2) <= MaxDay =>
        (prediction[r] # "none" ~> Settled(r))
=============================================================================
