----------------------------- MODULE Lifecycle -----------------------------
(***************************************************************************)
(* The life of the deployed models of one universe: the model registry on  *)
(* disk (packages/modeling/registry.py), the jobs that retrain and promote *)
(* (jobs/monthly_retrain.py, called by the monthly and quarterly triggers  *)
(* and by both drift checks of jobs/scheduler.py), the drift detector      *)
(* (packages/inference/drift.py) and the predictor that loads what it      *)
(* finds (packages/inference/predict.py).                                  *)
(*                                                                         *)
(* The jobs are threads of one scheduler; nothing serialises them, and the *)
(* registry has no lock.  A save is a mkdir and three writes, and the      *)
(* scheduler may die between any two of them.  Directory names carry a     *)
(* timestamp, so a directory is identified with its place in the order of  *)
(* the mkdirs: two saves of one head in the same second are left out.      *)
(* Metrics are whole numbers (rank-IC times 100, accuracy in per cent).    *)
(***************************************************************************)
EXTENDS Integers, Sequences, FiniteSets, FiniteSetsExt, TLC

CONSTANTS Scheduled,   \* the monthly and quarterly jobs
          Emergency,   \* the drift checks: the pipeline's and the nightly one
          TriggerDays, \* days the scheduled jobs fire on
          RankICs,     \* values of the regression metric
          Accuracies,  \* values of the classification metric
          DailyICs,    \* values of one settled day's rank-IC
          Hard, Soft,  \* drift thresholds, on the scale of DailyICs
          Lookback,    \* settled days a drift check averages
          Consecutive, \* days below Soft that confirm a slow decline
          Lag,         \* days until a prediction is settled
          MinAge,      \* days a model is left alone after its promotion
          LastDay, MaxRetrains, MaxDeaths   \* bounds of the exploration

ASSUME LifecycleAssumption ==
  /\ Scheduled \cap Emergency = {}
  /\ RankICs \subseteq Int /\ Accuracies \subseteq Nat /\ DailyICs \subseteq Int
  /\ Hard \in Int /\ Soft \in Int /\ Hard <= Soft
  /\ {Lookback, Consecutive, Lag, MinAge} \subseteq Nat \ {0}
  /\ {LastDay, MaxRetrains, MaxDeaths} \subseteq Nat /\ TriggerDays \subseteq 0..LastDay

VARIABLES
  day,        \* calendar day; a retrain ends on the day it began
  registry,   \* per head, the model directories in the order of their names
  job,        \* where each retraining thread stands
  predictor,  \* where the predictor stands, what it found and loaded
  ic,         \* rank-IC of the predictions of each past day, once known
  retrains, deaths

vars == <<day, registry, job, predictor, ic, retrains, deaths>>

Jobs == Scheduled \cup Emergency

\* run_universe trains the heads in this order.
Heads == {"regression", "classification"}

Metrics(h) == IF h = "regression" THEN RankICs ELSE Accuracies

Skills == {s \in [Heads -> RankICs \cup Accuracies] : \A h \in Heads : s[h] \in Metrics(h)}

\* A model directory: which of its files are there, the metric its model has on
\* the bars of today, and its date.
Dir == [model : BOOLEAN, calibrators : BOOLEAN, metadata : {"none", "empty", "whole"},
        skill : Int, day : Nat]

\* A metric that may be missing is a set with at most one member.
Unscored == {}

Idle == [at |-> "idle", head |-> "regression", base |-> Unscored, metric |-> 0, dir |-> 0]

Asleep == [at |-> "idle", label |-> [h \in Heads |-> 0], loaded |-> [h \in Heads |-> 0]]

-----------------------------------------------------------------------------
(***************************************************************************)
(* The registry.                                                           *)
(***************************************************************************)

\* find_latest_model_dir: the last directory that has a metadata.json, be it
\* still empty; 0 when there is none (FileNotFoundError).
Latest(h) ==
  Max({0} \cup {i \in DOMAIN registry[h] : registry[h][i].metadata # "none"})

\* json.load of a metadata.json that was opened but not yet written raises.
Readable(h, i) == registry[h][i].metadata = "whole"

\* save_model writes calibrators for a calibrated classifier only.
Complete(h, i) ==
  registry[h][i].model /\ (h = "classification" => registry[h][i].calibrators)

-----------------------------------------------------------------------------
(***************************************************************************)
(* The drift detector.                                                     *)
(***************************************************************************)

ModelAge_OfClassifier ==
  IF Latest("classification") = 0 THEN LastDay + MinAge
  ELSE day - registry["classification"][Latest("classification")].day

\* _model_age_days, from the name of the newest regression directory.
ModelAge == IF Latest("regression") = 0 THEN LastDay + MinAge
            ELSE day - registry["regression"][Latest("regression")].day

\* The settled days a check looks at: the newest Lookback of those within three
\* times that many calendar days.
Window ==
  LET settled == {d \in DOMAIN ic : d + Lag <= day /\ d + 3 * Lookback >= day}
  IN  {d \in settled : Cardinality({e \in settled : e > d}) < Lookback}

Total == FoldSet(LAMBDA d, sum : ic[d] + sum, 0, Window)

\* How many of the newest days in a row are below the soft threshold.
BelowSoft == Cardinality({d \in Window : \A e \in Window : e >= d => ic[e] < Soft})

\* check_drift.  The mean is compared as a total over the number of days.
Drifted ==
  /\ ModelAge >= MinAge
  /\ Window # {}
  /\ LET n == Cardinality(Window)
     IN  \/ Total < Hard * n
         \/ Total < Soft * n /\ BelowSoft >= Consecutive

-----------------------------------------------------------------------------
(***************************************************************************)
(* Retraining: run_universe, head by head.                                 *)
(***************************************************************************)

\* An empty registry, or one pair of models left by scripts/train_models.py.
Init ==
  /\ day = 0 /\ retrains = 0 /\ deaths = 0
  /\ \/ registry = [h \in Heads |-> <<>>]
     \/ \E trained \in Skills :
          registry = [h \in Heads |->
            <<[model |-> TRUE, calibrators |-> h = "classification", metadata |-> "whole",
               skill |-> trained[h], day |-> 0]>>]
  /\ job = [j \in Jobs |-> Idle]
  /\ predictor = Asleep
  /\ ic = [d \in {} |-> 0]

Begin(j) ==
  /\ job[j].at = "idle" /\ retrains < MaxRetrains
  /\ retrains' = retrains + 1
  /\ job' = [job EXCEPT ![j].at = "judge"]
  /\ UNCHANGED <<day, registry, predictor, ic, deaths>>

\* The monthly and quarterly triggers.
Trigger(j) == j \in Scheduled /\ day \in TriggerDays /\ Begin(j)

\* _job_drift_check; with the hold-off file in place nothing is started, as
\* when the check finds no drift.
DriftCheck(j) == j \in Emergency /\ Drifted /\ Begin(j)

\* revalidate_model_ic: the metric of a deployed model on the folds the candidate
\* is measured on, or nothing when it cannot be scored (other features than its
\* own, a classifier saved without calibrators).
Revalidated(h, i) == {Unscored, {registry[h][i].skill}}

\* _revalidated_baseline.  Without an incumbent there is no baseline.  An unreadable
\* metadata.json is not caught here: the retrain of the universe ends.
Judge(j) ==
  LET h == job[j].head
      i == Latest(h)
  IN /\ job[j].at = "judge"
     /\ \/ /\ i = 0
           /\ job' = [job EXCEPT ![j] = [@ EXCEPT !.at = "train", !.base = Unscored]]
        \/ /\ i # 0 /\ Readable(h, i)
           /\ \E base \in Revalidated(h, i) :
                job' = [job EXCEPT ![j] = [@ EXCEPT !.at = "train", !.base = base]]
        \/ /\ i # 0 /\ ~Readable(h, i)
           /\ job' = [job EXCEPT ![j] = Idle]
     /\ UNCHANGED <<day, registry, predictor, ic, retrains, deaths>>

NextHead(j) ==
  IF job[j].head = "regression"
  THEN [Idle EXCEPT !.at = "judge", !.head = "classification"]
  ELSE Idle

\* The classifier is compared by its edge over guessing among five classes.
Edge(h, metric) == IF h = "classification" THEN metric - 20 ELSE metric

\* _should_promote: at least 80% of the baseline, or no baseline.
ShouldPromote(h, new, base) ==
  \A b \in base : 5 * Edge(h, new) >= 4 * Edge(h, b)

\* _train_one_target, then the decision.  A training that raises skips the
\* head; so does a candidate that is not good enough.
Train(j) ==
  LET h == job[j].head
  IN /\ job[j].at = "train"
     /\ \/ \E new \in Metrics(h) :
             job' = [job EXCEPT ![j] =
                       IF ShouldPromote(h, new, job[j].base)
                       THEN [@ EXCEPT !.at = "mkdir", !.metric = new]
                       ELSE NextHead(j)]
        \/ job' = [job EXCEPT ![j] = NextHead(j)]
     /\ UNCHANGED <<day, registry, predictor, ic, retrains, deaths>>

Files_MetadataFirst(h) == IF h = "classification"
                          THEN <<"open", "metadata", "model", "calibrators">>
                          ELSE <<"open", "metadata", "model">>

\* The files of a directory, in the order they are written.
Files(h) == IF h = "classification"
            THEN <<"model", "calibrators", "open", "metadata">>
            ELSE <<"model", "open", "metadata">>

\* save_model, the mkdir; the files come one by one.
MakeDir(j) ==
  LET h == job[j].head
      new == [model |-> FALSE, calibrators |-> FALSE, metadata |-> "none",
              skill |-> 0, day |-> day]
  IN /\ job[j].at = "mkdir"
     /\ registry' = [registry EXCEPT ![h] = Append(@, new)]
     /\ job' = [job EXCEPT ![j].at = Files(h)[1], ![j].dir = Len(registry[h]) + 1]
     /\ UNCHANGED <<day, predictor, ic, retrains, deaths>>

Written(d, file, metric) ==
  CASE file = "model"       -> [d EXCEPT !.model = TRUE]
    [] file = "calibrators" -> [d EXCEPT !.calibrators = TRUE]
    [] file = "open"        -> [d EXCEPT !.metadata = "empty"]
    [] file = "metadata"    -> [d EXCEPT !.metadata = "whole", !.skill = metric]

\* save_model, one write; after the last one the next head is trained.
Write(j) ==
  LET h == job[j].head
      order == Files(h)
  IN /\ \E k \in DOMAIN order :
          /\ job[j].at = order[k]
          /\ registry' = [registry EXCEPT ![h][job[j].dir] = Written(@, order[k], job[j].metric)]
          /\ job' = [job EXCEPT ![j] =
                       IF k < Len(order) THEN [@ EXCEPT !.at = order[k + 1]] ELSE NextHead(j)]
     /\ UNCHANGED <<day, predictor, ic, retrains, deaths>>

\* A write that raises (a full disk): run catches it and gives the universe up.
SaveFails(j) ==
  /\ \E k \in DOMAIN Files(job[j].head) : job[j].at = Files(job[j].head)[k]
  /\ deaths < MaxDeaths
  /\ deaths' = deaths + 1
  /\ job' = [job EXCEPT ![j] = Idle]
  /\ UNCHANGED <<day, registry, predictor, ic, retrains>>

-----------------------------------------------------------------------------
(***************************************************************************)
(* The predictor: load_models_for_universe scans for the version names,    *)
(* then scans again for each model it loads.                               *)
(***************************************************************************)

ScanLabels ==
  /\ predictor.at = "idle" /\ day \notin DOMAIN ic
  /\ \A h \in Heads : Latest(h) # 0
  /\ predictor' = [Asleep EXCEPT !.at = "regression", !.label = [h \in Heads |-> Latest(h)]]
  /\ UNCHANGED <<day, registry, job, ic, retrains, deaths>>

\* load_latest_model, the second scan and the reads.  A directory only gains files,
\* so the reads are taken together with the scan that found it.  A metadata.json
\* that cannot be read loses this tick's predictions.
Load ==
  LET h == predictor.at IN
  /\ h \in Heads
  /\ predictor' =
       IF Readable(h, Latest(h))
       THEN [predictor EXCEPT !.at = IF h = "regression" THEN "classification" ELSE "log",
                              !.loaded[h] = Latest(h)]
       ELSE Asleep
  /\ UNCHANGED <<day, registry, job, ic, retrains, deaths>>

\* The predictions are logged under both version names; what their rank-IC is
\* becomes known when they are settled.
Log ==
  /\ predictor.at = "log"
  /\ IF day + Lag <= LastDay THEN \E v \in DailyICs : ic' = (day :> v) @@ ic
                             ELSE UNCHANGED ic   \* not settled within the bound
  /\ predictor' = Asleep
  /\ UNCHANGED <<day, registry, job, retrains, deaths>>

-----------------------------------------------------------------------------

\* A day passes between retrains.  The new bars change what the newest models
\* score; what the others would score is never asked again.
NextDay ==
  /\ day < LastDay
  /\ \A j \in Jobs : job[j].at = "idle"
  /\ predictor.at = "idle"
  /\ \E skill \in Skills :
       registry' = [h \in Heads |->
         [i \in DOMAIN registry[h] |->
            [registry[h][i] EXCEPT !.skill = IF i = Latest(h) THEN skill[h] ELSE 0]]]
  /\ day' = day + 1
  /\ UNCHANGED <<job, predictor, ic, retrains, deaths>>

\* The scheduler process dies; what is on disk stays.
Die ==
  /\ deaths < MaxDeaths
  /\ deaths' = deaths + 1
  /\ job' = [j \in Jobs |-> Idle]
  /\ predictor' = Asleep
  /\ UNCHANGED <<day, registry, ic, retrains>>

Next ==
  \/ \E j \in Jobs : \/ Trigger(j) \/ DriftCheck(j) \/ Judge(j) \/ Train(j)
                     \/ MakeDir(j) \/ Write(j) \/ SaveFails(j)
  \/ ScanLabels \/ Load \/ Log \/ NextDay \/ Die

Spec == Init /\ [][Next]_vars

-----------------------------------------------------------------------------
(***************************************************************************)
(* Properties.                                                             *)
(***************************************************************************)

\* Every variable has its type (the state of registry.py's directories, of the
\* retraining threads and of the predictor).
TypeOK ==
  /\ day \in 0..LastDay /\ retrains \in 0..MaxRetrains /\ deaths \in 0..MaxDeaths
  /\ registry \in [Heads -> Seq(Dir)]
  /\ \A j \in Jobs :
       /\ job[j].at \in {"idle", "judge", "train", "mkdir", "model", "calibrators", "open", "metadata"}
       /\ job[j].head \in Heads
       /\ job[j].dir \in 0..Len(registry[job[j].head])
  /\ predictor.at \in {"idle", "log"} \cup Heads
  /\ DOMAIN ic \subseteq 0..LastDay

\* What the predictor has loaded is one whole save, with the calibrators if the
\* save has any, whatever retrain was writing or died writing while it read; and
\* the version it will log is never newer than the model that scores.
LoadedIsOneSave ==
  \A h \in Heads : LET i == predictor.loaded[h] IN
    i # 0 => Readable(h, i) /\ Complete(h, i) /\ predictor.label[h] <= i

\* A regression model that an emergency retrain replaces was left alone for
\* MinAge days, unless another retrain put it there on the same day
\* (_model_age_days, read before the training starts).
SparesTheYoung ==
  \A j \in Emergency : LET old == Latest("regression") IN
    (/\ job[j].head = "regression" /\ job[j].at = "open" /\ job'[j].at = "metadata"
     /\ old # 0 /\ old < job[j].dir)
    => LET age == day - registry["regression"][old].day IN age = 0 \/ age >= MinAge

EmergencySparesTheYoung == [][SparesTheYoung]_vars

-----------------------------------------------------------------------------
(***************************************************************************)
(* What the documents promise of a promotion and the gate does not keep.   *)
(***************************************************************************)

\* The newest whole save below directory new: what its metadata.json replaces.
Replaced(h, new) == Max({0} \cup {i \in DOMAIN registry[h] : i < new /\ Readable(h, i)})

\* The step in which the save of j becomes loadable in place of another one.
Promotes(j) ==
  LET h == job[j].head  new == job[j].dir IN
    /\ job[j].at = "metadata" /\ job'[j].at # "metadata"
    /\ registry'[h][new].metadata = "whole" /\ Replaced(h, new) # 0

HoldsUp(j) ==
  LET h == job[j].head  new == job[j].dir IN
    5 * Edge(h, registry'[h][new].skill) >= 4 * Edge(h, registry[h][Replaced(h, new)].skill)

\* "Promote the new model only if it's at least 80% of the baseline IC, or there
\* is no baseline" (header of monthly_retrain.py): a model that replaces another
\* keeps four fifths of what that one scores on the same bars.  An incumbent that
\* could not be scored is replaced by anything.
ReplacesItsEqual == [][\A j \in Jobs : Promotes(j) => HoldsUp(j)]_vars

\* The same for incumbents that were scored.  The baseline is that of the model
\* deployed when the training began; another retrain may have promoted since.
ScoredAgainstDeployed ==
  [][\A j \in Jobs : Promotes(j) /\ job[j].base # Unscored => HoldsUp(j)]_vars

=============================================================================
