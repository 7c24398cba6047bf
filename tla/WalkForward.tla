---------------------------- MODULE WalkForward ----------------------------
(***************************************************************************)
(* The walk-forward backtest (scripts/walkforward_backtest.py): month by   *)
(* month it trains on the data of the time, lets a gate choose between the *)
(* new and the deployed model of each head, and logs a prediction for each *)
(* trading day of the month.  It runs for days, is killed and restarted,   *)
(* and resumes from what the predictions database holds.  Beside it run    *)
(* the snapshot loop (scripts/backup_predictions_loop.py) and the restore  *)
(* an operator starts when the database is lost                            *)
(* (scripts/restore_predictions_backup.py).                                *)
(*                                                                         *)
(* What training and prediction read comes from Panel.  Scores are left    *)
(* out: the gate's verdict on each head is any.  Of hyperparameters only   *)
(* the retrain that tuned them and the last day they rest on are kept.  A  *)
(* restore runs only while the backtest does not, and a lost database is   *)
(* noticed before a restart.                                               *)
(***************************************************************************)
EXTENDS Panel

CONSTANTS
  Month,        \* [day -> month], for the days of the calendar
  Trading,      \* days the exchange is open
  First, Last,  \* span of the backtest
  Gap,          \* train_end_gap_days
  Lookback,     \* years of history a model is trained on, in days
  Warmup,       \* days of history a prediction panel is given
  Tuned,        \* retrain dates that tune: all with --per-retrain-optuna, the
                \* first of a quarter with --live-tune-cadence, else none
  Production,   \* last day the borrowed hyperparameters rest on
  MinValid,     \* logged days that make a backup large enough to restore
  KeepStartups, KeepSnapshots, \* backups kept of each kind
  MaxDeaths, MaxFailures, MaxCopies, MaxLosses   \* bounds of the exploration

ASSUME WalkForwardAssumption ==
  /\ Trading \subseteq DOMAIN Month /\ DOMAIN Month \subseteq Nat \ {0}
  /\ First \in Nat /\ Last \in Nat
  /\ {Gap, Lookback, Warmup, KeepStartups, KeepSnapshots} \subseteq Nat \ {0}
  /\ {Production, MinValid, MaxDeaths, MaxFailures, MaxCopies, MaxLosses} \subseteq Nat

VARIABLES
  log,       \* the predictions database: what each logged day was predicted with
  backups,   \* files of the backups directory
  run,       \* the backtest process
  restore,   \* the restore script
  skipped,   \* days whose prediction failed and was passed over
  clean,     \* nothing has failed in the present pass
  clock,     \* backups made: their order in time
  deaths, failures, losses

vars == <<log, backups, run, restore, skipped, clean, clock, deaths, failures, losses>>
environment == <<deaths, failures, losses>>

-----------------------------------------------------------------------------
(***************************************************************************)
(* The calendar of a backtest.                                             *)
(***************************************************************************)
Span == {d \in Trading : First <= d /\ d <= Last}

\* _retrain_dates: the first trading day of each month.
RetrainDates == {d \in Span : \A e \in Span : Month[e] = Month[d] => d <= e}

\* The trading days up to the next retrain.
WindowOf(rd) == {d \in Span : d >= rd /\ \A r \in RetrainDates : r > rd => d < r}

TrainEnd(rd) == rd - Gap
TrainStart(rd) == TrainEnd(rd) - Lookback

\* Rows of the prediction panel of a window on day d.
Predictable(d) == {s \in Symbols : MemberOn(s, d) /\ d \in Bars[s]}

-----------------------------------------------------------------------------
(***************************************************************************)
(* _train_models_through and the panel of _predict_window, worked out once *)
(* for each retrain date and each set of extensions that had data.         *)
(***************************************************************************)
RegressionRows(rd) == Trainable(TrainStart(rd), TrainEnd(rd))
ClassRows(rd) == Ranked(TrainStart(rd), TrainEnd(rd))

Trainables ==
  {rd \in RetrainDates : /\ TrainableAtAll(RegressionRows(rd), TrainEnd(rd))
                         /\ TrainableAtAll(ClassRows(rd), TrainEnd(rd))}

\* The last day each head fitted for rd rests on.
FitResult(rd, active) ==
  LET last(rows) == Knows(rows, TrainStart(rd), TrainEnd(rd), active)
  IN  [of |-> rd, columns |-> active,
       reg |-> last(RegressionRows(rd)),
       cls |-> Max({last(ClassRows(rd)),
                    last(CalibrationRows(TrainStart(rd), TrainEnd(rd)))})]

FitResults == {FitResult(rd, active) : rd \in RetrainDates, active \in SUBSET Extensions}

Fit(rd, active) == CHOOSE f \in FitResults : f.of = rd /\ f.columns = active

\* The last day that the rows of day d read a bar of, in the panel of d's window,
\* and the last on which a symbol joined that they are ranked with.
PanelResult(rd, active) ==
  LET to == Max(WindowOf(rd))
      last(days) == Max({0} \cup UNION days)
  IN  [of |-> rd, columns |-> active,
       days |-> {[day |-> d,
                  reads |-> last({RowReads(s, rd - Warmup, to, d, active) : s \in Predictable(d)}),
                  joins |-> last({JoinReads(rd - Warmup, to, d)})] : d \in WindowOf(rd)}]

PanelResults == {PanelResult(rd, active) : rd \in RetrainDates, active \in SUBSET Extensions}

PanelDay(rd, active, d) ==
  LET panel == CHOOSE p \in PanelResults : p.of = rd /\ p.columns = active
  IN  CHOOSE r \in panel.days : r.day = d

\* The folds on which a retrain compares the candidate and the incumbent.
FoldsOf(rd) == Split(RegressionRows(rd)) \cup Split(ClassRows(rd))

-----------------------------------------------------------------------------
NoModel == [of |-> 0, columns |-> {}, tuned |-> 0, knows |-> 0]

\* _load_production_configs: the hyperparameters of the deployed model, by head
\* the last day they rest on.
Borrowed == [of |-> 0, reg |-> Production, cls |-> Production]

\* A pass begins with the borrowed hyperparameters, whatever was tuned before.
Down == [at |-> "down", rd |-> 0, done |-> {}, reg |-> NoModel, cls |-> NoModel,
         config |-> Borrowed, columns |-> {}, panel |-> {}, todo |-> {}]

AtRest == run.at \in {"down", "reported"}
NoRestore == [at |-> "idle", rows |-> <<>>]

Init ==
  /\ log = <<>> /\ backups = {} /\ run = Down /\ restore = NoRestore
  /\ skipped = {} /\ clean = TRUE /\ clock = 0
  /\ deaths = 0 /\ failures = 0 /\ losses = 0

-----------------------------------------------------------------------------
(***************************************************************************)
(* Backups.  A database without rows is too small to be copied.            *)
(***************************************************************************)
OfKind(files, kind) == {b \in files : b.kind = kind}

\* The last n files of a kind, by name, stay; a torn file counts as one.
Pruned(files, kind, n) ==
  {b \in files : b.kind # kind \/ Cardinality({c \in OfKind(files, kind) : c.at > b.at}) < n}

Copy(kind, whole) == [kind |-> kind, at |-> clock + 1, rows |-> log, whole |-> whole]

\* run_walkforward before anything else: the copy has begun, and is torn if the
\* process dies now.
Start ==
  /\ AtRest /\ restore.at = "idle" /\ clock < MaxCopies
  /\ run' = [Down EXCEPT !.at = IF log = <<>> THEN "open" ELSE "copy"]
  /\ IF log = <<>>
     THEN UNCHANGED <<backups, clock>>
     ELSE backups' = backups \cup {Copy("startup", FALSE)} /\ clock' = clock + 1
  /\ clean' = TRUE
  /\ UNCHANGED <<log, restore, skipped, environment>>

CopyEnds ==
  /\ run.at = "copy"
  /\ LET torn == CHOOSE b \in OfKind(backups, "startup") :
                   \A c \in OfKind(backups, "startup") : c.at <= b.at
     IN  backups' = Pruned((backups \ {torn}) \cup {[torn EXCEPT !.whole = TRUE]},
                           "startup", KeepStartups)
  /\ run' = [run EXCEPT !.at = "open"]
  /\ UNCHANGED <<log, restore, skipped, clean, clock, environment>>

\* The snapshot loop: online and consistent, or torn by a death of the loop.
Snapshot ==
  /\ clock < MaxCopies /\ log # <<>> /\ run.at # "copy"
  /\ backups' = Pruned(backups \cup {Copy("loop", TRUE)}, "loop", KeepSnapshots)
  /\ clock' = clock + 1
  /\ UNCHANGED <<log, run, restore, skipped, clean, environment>>

SnapshotDies ==
  /\ clock < MaxCopies /\ log # <<>> /\ deaths < MaxDeaths /\ run.at # "copy"
  /\ backups' = backups \cup {Copy("loop", FALSE)}
  /\ clock' = clock + 1 /\ deaths' = deaths + 1
  /\ UNCHANGED <<log, run, restore, skipped, clean, failures, losses>>

-----------------------------------------------------------------------------
(***************************************************************************)
(* A pass over the retrain dates.                                          *)
(***************************************************************************)
NextDate(rd) ==
  LET later == {r \in RetrainDates : r > rd}
  IN  IF later = {} THEN [run EXCEPT !.at = "end"]
      ELSE [run EXCEPT !.at = "window", !.rd = Min(later)]

\* The days already there are read once; a failure means none is known.
Open ==
  /\ run.at = "open"
  /\ \E known \in {DOMAIN log} \cup IF failures < MaxFailures THEN {{}} ELSE {} :
       /\ run' = [NextDate(0) EXCEPT !.done = known]
       /\ failures' = failures + IF known = DOMAIN log THEN 0 ELSE 1
  /\ UNCHANGED <<log, backups, restore, skipped, clean, clock, deaths, losses>>

\* A bug's form: when its first day is there.
WindowDone_ByFirst(rd) == Min(WindowOf(rd)) \in run.done

\* A window is done when its last day is there.
WindowDone(rd) == Max(WindowOf(rd)) \in run.done

Skip ==
  /\ run.at = "window" /\ WindowDone(run.rd)
  /\ run' = NextDate(run.rd)
  /\ UNCHANGED <<log, backups, restore, skipped, clean, clock, environment>>

\* The gate: the first model of a pass is deployed, a later one if it is not
\* worse than the incumbent by a fifth on the folds of today.
Deployed(incumbent, candidate, promote) ==
  IF incumbent = NoModel \/ promote THEN candidate ELSE incumbent

\* _maybe_tune_at_retrain: tuned on the training set, or as they were.
Configured(rd, active) ==
  IF rd \in Tuned THEN [of |-> rd, reg |-> Fit(rd, active).reg, cls |-> Fit(rd, active).cls]
  ELSE run.config

\* The model of a head: the retrain that fitted it, its feature columns, the
\* retrain that tuned it and the last day it knows.
Fitted(head, rd, active) ==
  LET config == Configured(rd, active)
  IN  [of |-> rd, columns |-> active, tuned |-> config.of,
       knows |-> Max({Fit(rd, active)[head], config[head]})]

Train(active, promoteReg, promoteCls) ==
  /\ run.at = "window" /\ ~WindowDone(run.rd) /\ run.rd \in Trainables
  /\ active = Extensions \/ failures < MaxFailures
  /\ run' = [run EXCEPT !.at = "panel", !.columns = active,
                        !.config = Configured(run.rd, active),
                        !.reg = Deployed(@, Fitted("reg", run.rd, active), promoteReg),
                        !.cls = Deployed(@, Fitted("cls", run.rd, active), promoteCls)]
  /\ failures' = failures + IF active = Extensions THEN 0 ELSE 1
  /\ UNCHANGED <<log, backups, restore, skipped, clean, clock, deaths, losses>>

\* Too little data, or an error: the window is left for another pass.
TrainFails ==
  /\ run.at = "window" /\ ~WindowDone(run.rd)
  /\ IF run.rd \in Trainables
     THEN failures < MaxFailures /\ failures' = failures + 1
     ELSE UNCHANGED failures
  /\ run' = NextDate(run.rd) /\ clean' = FALSE
  /\ UNCHANGED <<log, backups, restore, skipped, clock, deaths, losses>>

\* One panel for the whole window, with the extensions that have data now.
BuildPanel(active) ==
  /\ run.at = "panel"
  /\ active = Extensions \/ failures < MaxFailures
  /\ run' = [run EXCEPT !.at = "predict", !.panel = active, !.todo = WindowOf(run.rd)]
  /\ failures' = failures + IF active = Extensions THEN 0 ELSE 1
  /\ UNCHANGED <<log, backups, restore, skipped, clean, clock, deaths, losses>>

PanelFails ==
  /\ run.at = "panel" /\ failures < MaxFailures
  /\ run' = NextDate(run.rd) /\ clean' = FALSE /\ failures' = failures + 1
  /\ UNCHANGED <<log, backups, restore, skipped, clock, deaths, losses>>

\* The panel must have the columns of the last training, and each model must
\* have been fitted on just those: an incumbent kept by the gate may not.
ColumnsFit == /\ run.columns \subseteq run.panel
              /\ run.reg.columns = run.columns /\ run.cls.columns = run.columns

Passed(d) == [run EXCEPT !.todo = @ \ {d}]

\* Both heads predict the members with a bar; the row says when it was trained
\* for, whichever models made it.
PredictDay ==
  /\ run.at = "predict" /\ run.todo # {}
  /\ LET d == Min(run.todo)
         panel == PanelDay(run.rd, run.panel, d)
         row == [of |-> run.rd, reg |-> run.reg, cls |-> run.cls,
                 reads |-> panel.reads, joins |-> panel.joins]
     IN  /\ Predictable(d) # {} => ColumnsFit
         /\ log' = IF Predictable(d) = {} THEN log
                   ELSE [e \in DOMAIN log \cup {d} |-> IF e = d THEN row ELSE log[e]]
         /\ run' = Passed(d)
  /\ UNCHANGED <<backups, restore, skipped, clean, clock, environment>>

\* An error on one day is logged and the next day taken.
DayFails ==
  /\ run.at = "predict" /\ run.todo # {}
  /\ LET d == Min(run.todo)
     IN  /\ Predictable(d) # {}
         /\ IF ColumnsFit THEN failures < MaxFailures /\ failures' = failures + 1
                          ELSE UNCHANGED failures
         /\ skipped' = skipped \cup {d}
         /\ run' = Passed(d)
  /\ clean' = FALSE
  /\ UNCHANGED <<log, backups, restore, clock, deaths, losses>>

WindowEnds ==
  /\ run.at = "predict" /\ run.todo = {}
  /\ run' = NextDate(run.rd)
  /\ UNCHANGED <<log, backups, restore, skipped, clean, clock, environment>>

Report ==
  /\ run.at = "end"
  /\ run' = [run EXCEPT !.at = "reported"]
  /\ UNCHANGED <<log, backups, restore, skipped, clean, clock, environment>>

\* Killed; deployed models and the list of days done are forgotten.
Die ==
  /\ ~AtRest /\ deaths < MaxDeaths
  /\ run' = Down /\ deaths' = deaths + 1
  /\ UNCHANGED <<log, backups, restore, skipped, clean, clock, failures, losses>>

-----------------------------------------------------------------------------
(***************************************************************************)
(* The database is lost and restored.                                      *)
(***************************************************************************)
Lose ==
  /\ AtRest /\ restore.at = "idle" /\ log # <<>> /\ losses < MaxLosses
  /\ log' = <<>> /\ losses' = losses + 1
  /\ UNCHANGED <<backups, run, restore, skipped, clean, clock, deaths, failures>>

\* validate_snapshot: it can be opened, and it is of a size that some copies that
\* were worth making are not.
Valid(files) == {b \in files : b.whole /\ Cardinality(DOMAIN b.rows) >= MinValid}

\* list_snapshots, by name from the last: predictions_pre_startup_... comes
\* after every predictions_2...
Before(b, c) == \/ b.kind = "startup" /\ c.kind = "loop"
                \/ b.kind = c.kind /\ b.at > c.at

Chosen == CHOOSE b \in Valid(backups) : \A c \in Valid(backups) : b = c \/ Before(b, c)

\* The chosen snapshot is copied beside the target.
RestoreStage ==
  /\ AtRest /\ restore.at = "idle" /\ Valid(backups) # {} /\ losses > 0
  /\ restore' = [at |-> "staged", rows |-> Chosen.rows]
  /\ UNCHANGED <<log, backups, run, skipped, clean, clock, environment>>

\* What is there is moved aside: until the rename there is no database.
RestoreMove ==
  /\ restore.at = "staged"
  /\ log' = <<>> /\ restore' = [restore EXCEPT !.at = "moved"]
  /\ UNCHANGED <<backups, run, skipped, clean, clock, environment>>

RestoreRename ==
  /\ restore.at = "moved"
  /\ log' = restore.rows /\ restore' = NoRestore
  /\ UNCHANGED <<backups, run, skipped, clean, clock, environment>>

RestoreDies ==
  /\ restore.at # "idle" /\ deaths < MaxDeaths
  /\ restore' = NoRestore /\ deaths' = deaths + 1
  /\ UNCHANGED <<log, backups, run, skipped, clean, clock, failures, losses>>

-----------------------------------------------------------------------------
Next ==
  \/ Start \/ CopyEnds \/ Snapshot \/ SnapshotDies
  \/ Open \/ Skip \/ TrainFails \/ PanelFails
  \/ \E active \in SUBSET Extensions, reg, cls \in BOOLEAN : Train(active, reg, cls)
  \/ \E active \in SUBSET Extensions : BuildPanel(active)
  \/ PredictDay \/ DayFails \/ WindowEnds \/ Report \/ Die
  \/ Lose \/ RestoreStage \/ RestoreMove \/ RestoreRename \/ RestoreDies

Spec == Init /\ [][Next]_vars

-----------------------------------------------------------------------------
(***************************************************************************)
(* Properties.                                                             *)
(***************************************************************************)

\* No look-ahead in bars, labels, hyperparameters and the memberships of a
\* training set: whatever was killed, retained by the gate, resumed or restored,
\* a logged day rests on models that know nothing of the day they were retrained
\* on or after, and on features of no later bar.  It takes retrains that all
\* tune.  (The header of walkforward_backtest.py, README.md on the strict
\* walk-forward, the causality contract of features/base.py.)
NoHindsight ==
  \A d \in DOMAIN log :
    LET row == log[d]
    IN  /\ row.of <= d /\ row.reads <= d
        /\ \A model \in {row.reg, row.cls} : model.knows < model.of /\ model.of <= row.of

\* Nor in the memberships of a prediction: no logged day is ranked against a
\* symbol that had yet to join the index.  (The header of features/pipeline.py on
\* what the mask is there to prevent.)
JoinersStayOut == \A d \in DOMAIN log : log[d].joins <= d

\* The tuning cadence is that of the deployed system: a model fitted at or after a
\* retrain that tunes has hyperparameters tuned there or later.  (The comment on
\* the cadence in run_walkforward.)
CadenceIsKept ==
  \A d \in DOMAIN log : \A model \in {log[d].reg, log[d].cls} :
    \A r \in RetrainDates \cap Tuned : r <= model.of => r <= model.tuned

\* A validation date is not known to what is trained on: in the folds of the
\* retrain at hand, no training label reaches the first day of the validation
\* dates.  A symbol that missed a day in between counts its horizon further
\* than the dates do, and is excepted.
Uninterrupted(r, rd) ==
  \A d \in Dates(RegressionRows(rd)) :
    r[2] < d /\ d <= LabelDay(r[1], TrainStart(rd), TrainEnd(rd), r[2]) => d \in Bars[r[1]]

CrossesInto(r, rd, fold) ==
  LabelDay(r[1], TrainStart(rd), TrainEnd(rd), r[2]) >= Min(Dates(fold.test))

LeakyDates ==
  {rd \in RetrainDates : \E fold \in FoldsOf(rd) : \E r \in fold.train :
     Uninterrupted(r, rd) /\ CrossesInto(r, rd, fold)}

FoldsArePurged == run.rd \notin LeakyDates

\* The same without the exception, as the header of splits.py has it: a training
\* row whose label crosses into the validation dates is dropped.
CrossedDates ==
  {rd \in RetrainDates :
     \E fold \in FoldsOf(rd) : \E r \in fold.train : CrossesInto(r, rd, fold)}

LabelsStopBeforeValidation == run.rd \notin CrossedDates

\* Resuming loses nothing: when a pass in which nothing failed has reported,
\* every day of the span that has anything to predict is logged, but for days
\* whose own prediction once failed, which no later pass takes up when the last
\* day of their month is there.
GapsAreFailedDays ==
  [][Report /\ clean =>
       {d \in Span : Predictable(d) # {}} \ DOMAIN log \subseteq skipped]_vars

\* A restore takes the newest of the files it accepts.  (The header of
\* restore_predictions_backup.py, and its comments at the sort and the choice.)
RestoreTakesNewest ==
  [][RestoreStage => \A b \in Valid(backups) : b.at <= Chosen.at]_vars

=============================================================================
