-------------------------- MODULE LifecycleProofs --------------------------
(***************************************************************************)
(* The promises of the model lifecycle that hold, for any number of        *)
(* retraining jobs, saves, days and deaths, any metrics and any drift      *)
(* thresholds.                                                             *)
(*                                                                         *)
(* They rest on who may write a directory.  A directory belongs to the one *)
(* job that made it (DirsAreOwned); its metadata.json comes after the      *)
(* other files, so what can be found is complete (FoundIsComplete) and     *)
(* what is whole never changes again on that day.  A model that is         *)
(* replaced is either one the drift check saw or one of today              *)
(* (ReplacedIsOld).                                                        *)
(***************************************************************************)
EXTENDS Lifecycle, SequenceTheorems, WellFoundedInduction, TLAPS

Writing == {"model", "calibrators", "open", "metadata"}

Retrain == [at : {"idle", "judge", "train", "mkdir"} \cup Writing, head : Heads,
            base : SUBSET Int, metric : Int, dir : Nat]

StateOK ==
  /\ day \in Nat
  /\ registry \in [Heads -> Seq(Dir)]
  /\ job \in [Jobs -> Retrain]
  /\ predictor \in [at : {"idle", "log"} \cup Heads, label : [Heads -> Nat], loaded : [Heads -> Nat]]

Found(h, i) == registry[h][i].metadata # "none"

FoundIsComplete ==
  \A h \in Heads : \A i \in DOMAIN registry[h] : Found(h, i) => Complete(h, i)

\* The directory a job is writing, and how far it has come.
Owns(j) ==
  LET h == job[j].head  i == job[j].dir IN
    /\ i \in DOMAIN registry[h] /\ registry[h][i].day = day
    /\ job[j].at = "metadata" <=> Found(h, i)
    /\ ~ Readable(h, i)
    /\ job[j].at # "model" => registry[h][i].model
    /\ job[j].at \in {"open", "metadata"} => Complete(h, i)
    /\ job[j].at = "calibrators" => h = "classification"

DirsAreOwned ==
  /\ \A j \in Jobs : job[j].at \in Writing => Owns(j)
  /\ \A j, k \in Jobs :
       job[j].at \in Writing /\ job[k].at \in Writing /\ j # k /\ job[j].head = job[k].head
       => job[j].dir # job[k].dir

OldEnough(i) == LET age == day - registry["regression"][i].day IN age = 0 \/ age >= MinAge

ReplacedIsOld ==
  \A j \in Emergency :
    job[j].at # "idle" /\ job[j].head = "regression" /\ Latest("regression") # 0
      => OldEnough(Latest("regression"))

LoadedIsFound ==
  \A h \in Heads :
    /\ predictor.label[h] # 0 =>
         predictor.label[h] \in DOMAIN registry[h] /\ Found(h, predictor.label[h])
    /\ predictor.loaded[h] # 0 =>
         /\ predictor.loaded[h] \in DOMAIN registry[h] /\ Readable(h, predictor.loaded[h])
         /\ predictor.label[h] <= predictor.loaded[h]

IInv == StateOK /\ FoundIsComplete /\ DirsAreOwned /\ ReplacedIsOld /\ LoadedIsFound

-----------------------------------------------------------------------------
\* Some bounded naturals have a greatest one.
LEMMA Greatest ==
  ASSUME NEW n \in Nat, NEW T \in SUBSET (0..n), T # {}
  PROVE  Max(T) \in T /\ \A x \in T : x <= Max(T)
<1> DEFINE R == OpToRel(<, Nat)
           U == {n - x : x \in T}
<1>1. IsWellFoundedOn(R, Nat)
  BY NatLessThanWellFounded
<1>2. U \subseteq Nat /\ U # {}
  <2>1. \A x \in T : n - x \in Nat
    OBVIOUS
  <2>2. PICK x \in T : TRUE
    OBVIOUS
  <2>3. n - x \in U
    BY <2>2
  <2> QED
    BY <2>1, <2>3
<1>3. \A u, v \in Nat : u < v => <<u, v>> \in R
  BY DEF OpToRel
<1> HIDE DEF R
<1>4. PICK u \in U : \A v \in U : ~ (<<v, u>> \in R)
  <2> HIDE DEF U
  <2> QED
    BY <1>1, <1>2, WFMin
<1>5. PICK x \in T : u = n - x
  BY <1>4
<1>6. \A y \in T : ~ (n - y < n - x)
  BY <1>2, <1>3, <1>4, <1>5
<1>7. \A y \in T : x >= y
  BY <1>6
<1> QED
  BY <1>7 DEF Max

\* What find_latest_model_dir finds in the directories s of a head.
LEMMA MaxFound ==
  ASSUME NEW s \in Seq(Dir), NEW T, T = {0} \cup {i \in DOMAIN s : s[i].metadata # "none"}
  PROVE  /\ Max(T) \in Nat
         /\ Max(T) # 0 => Max(T) \in DOMAIN s /\ s[Max(T)].metadata # "none"
         /\ \A i \in DOMAIN s : s[i].metadata # "none" => i <= Max(T)
<1>1. Len(s) \in Nat /\ DOMAIN s = 1..Len(s)
  OBVIOUS
<1>2. T \in SUBSET (0..Len(s)) /\ T # {}
  BY <1>1
<1>3. Max(T) \in T /\ \A x \in T : x <= Max(T)
  BY <1>1, <1>2, Greatest
<1> QED
  BY <1>1, <1>3

LEMMA LatestFound ==
  ASSUME registry \in [Heads -> Seq(Dir)], NEW h \in Heads
  PROVE  /\ Latest(h) \in Nat
         /\ Latest(h) # 0 => Latest(h) \in DOMAIN registry[h] /\ Found(h, Latest(h))
         /\ \A i \in DOMAIN registry[h] : Found(h, i) => i <= Latest(h)
<1> DEFINE T == {0} \cup {i \in DOMAIN registry[h] : registry[h][i].metadata # "none"}
<1>1. registry[h] \in Seq(Dir)
  OBVIOUS
<1>2. Latest(h) = Max(T)
  BY DEF Latest
<1> QED
  BY <1>1, <1>2, MaxFound DEF Found

-----------------------------------------------------------------------------
(***************************************************************************)
(* Steps of one job that leave the registry alone.                         *)
(***************************************************************************)
LEMMA JobMoves ==
  ASSUME IInv, NEW j \in Jobs, NEW b \in Retrain, job' = [job EXCEPT ![j] = b],
         UNCHANGED <<day, registry, predictor>>, b.at \notin Writing,
         j \in Emergency /\ b.at # "idle" /\ b.head = "regression" /\ Latest("regression") # 0
           => OldEnough(Latest("regression"))
  PROVE  IInv'
<1>1. job \in [Jobs -> Retrain]
  BY DEF IInv, StateOK
<1>2. job' \in [Jobs -> Retrain] /\ job'[j] = b /\ \A k \in Jobs \ {j} : job'[k] = job[k]
  BY <1>1
<1>3. StateOK'
  BY <1>2 DEF IInv, StateOK
<1>4. FoundIsComplete' /\ LoadedIsFound'
  BY DEF IInv, FoundIsComplete, LoadedIsFound, Found, Complete, Readable
<1>5. DirsAreOwned'
  <2>1. \A k \in Jobs : job'[k].at \in Writing => k # j /\ job'[k] = job[k]
    BY <1>2
  <2> QED
    BY <2>1 DEF IInv, DirsAreOwned, Owns, Found, Readable, Complete
<1>7. ReplacedIsOld'
  <2>1. Latest("regression")' = Latest("regression")
    BY DEF Latest
  <2>2. OldEnough(Latest("regression"))' <=> OldEnough(Latest("regression"))
    BY <2>1 DEF OldEnough
  <2> QED
    BY <1>2, <2>1, <2>2 DEF IInv, ReplacedIsOld
<1> QED
  BY <1>3, <1>4, <1>5, <1>7 DEF IInv

LEMMA IdleRetrain == Idle \in Retrain /\ Idle.at = "idle"
BY DEF Idle, Retrain, Heads, Unscored

LEMMA NextHeadRetrain ==
  ASSUME NEW j \in Jobs
  PROVE  /\ NextHead(j) \in Retrain /\ NextHead(j).at \in {"idle", "judge"}
         /\ NextHead(j).at # "idle" => NextHead(j).head # "regression"
<1> DEFINE b == [Idle EXCEPT !.at = "judge", !.head = "classification"]
<1>1. NextHead(j) \in {b, Idle}
  BY DEF NextHead
<1>2. b \in Retrain /\ b.at = "judge" /\ b.head = "classification"
  BY IdleRetrain DEF Retrain, Heads
<1> QED
  BY <1>1, <1>2, IdleRetrain

\* A drift check starts a retrain of a model that is old enough.
LEMMA BeginKeeps ==
  ASSUME IInv, NEW j \in Jobs, Trigger(j) \/ DriftCheck(j)
  PROVE  IInv'
<1> DEFINE b == [job[j] EXCEPT !.at = "judge"]
<1>1. job \in [Jobs -> Retrain]
  BY DEF IInv, StateOK
<1>2. b \in Retrain /\ b.at = "judge" /\ b.head = job[j].head
  BY <1>1 DEF Retrain
<1>3. job' = [job EXCEPT ![j] = b] /\ UNCHANGED <<day, registry, predictor>>
  BY <1>1 DEF Trigger, DriftCheck, Begin
<1>4. j \in Emergency /\ Latest("regression") # 0 => OldEnough(Latest("regression"))
  BY LifecycleAssumption DEF Trigger, DriftCheck, Drifted, ModelAge, OldEnough
<1> HIDE DEF b
<1> QED
  BY <1>2, <1>3, <1>4, JobMoves DEF Writing

\* The baseline is the metric the incumbent has now, or none.
LEMMA JudgeKeeps ==
  ASSUME IInv, NEW j \in Jobs, Judge(j)
  PROVE  IInv'
<1> DEFINE h == job[j].head
           i == Latest(h)
<1>1. job \in [Jobs -> Retrain] /\ h \in Heads /\ registry \in [Heads -> Seq(Dir)]
  BY DEF IInv, StateOK, Retrain
<1>2. job[j].at = "judge" /\ UNCHANGED <<day, registry, predictor>>
  BY DEF Judge
<1>3. j \in Emergency /\ h = "regression" /\ Latest("regression") # 0 => OldEnough(Latest("regression"))
  BY <1>2 DEF IInv, ReplacedIsOld
<1>4. i \in Nat /\ (i # 0 => i \in DOMAIN registry[h] /\ registry[h][i] \in Dir)
  <2>1. i \in Nat /\ (i # 0 => i \in DOMAIN registry[h])
    BY <1>1, LatestFound
  <2>2. registry[h] \in Seq(Dir)
    BY <1>1
  <2> QED
    BY <2>1, <2>2
<1>5. CASE job' = [job EXCEPT ![j] = [@ EXCEPT !.at = "train", !.base = Unscored]]
  <2> DEFINE b == [job[j] EXCEPT !.at = "train", !.base = Unscored]
  <2>1. b \in Retrain /\ b.at = "train" /\ b.base = Unscored /\ b.head = h
    BY <1>1 DEF Retrain, Unscored
  <2>2. job' = [job EXCEPT ![j] = b]
    BY <1>5
  <2> HIDE DEF b
  <2> QED
    BY <1>2, <1>3, <2>1, <2>2, JobMoves DEF Writing
<1>6. ASSUME i # 0, Readable(h, i), NEW base \in Revalidated(h, i),
             job' = [job EXCEPT ![j] = [@ EXCEPT !.at = "train", !.base = base]]
      PROVE  IInv'
  <2> DEFINE b == [job[j] EXCEPT !.at = "train", !.base = base]
  <2>1. base \in SUBSET Int
    BY <1>4, <1>6 DEF Revalidated, Unscored, Dir
  <2>2. b \in Retrain /\ b.at = "train" /\ b.base = base /\ b.head = h
    BY <1>1, <1>4, <2>1 DEF Retrain
  <2>3. job' = [job EXCEPT ![j] = b]
    BY <1>6
  <2> HIDE DEF b, i, h
  <2> QED
    BY <1>2, <1>3, <1>4, <1>6, <2>1, <2>2, <2>3, JobMoves DEF Writing
<1>7. CASE job' = [job EXCEPT ![j] = Idle]
  BY <1>2, <1>7, IdleRetrain, JobMoves DEF Writing
<1> QED
  BY <1>5, <1>6, <1>7 DEF Judge

LEMMA TrainKeeps ==
  ASSUME IInv, NEW j \in Jobs, Train(j)
  PROVE  IInv'
<1>1. job \in [Jobs -> Retrain]
  BY DEF IInv, StateOK
<1>2. job[j].at = "train" /\ UNCHANGED <<day, registry, predictor>>
  BY DEF Train
<1>3. ASSUME NEW new \in Metrics(job[j].head), ShouldPromote(job[j].head, new, job[j].base),
             job' = [job EXCEPT ![j] = [@ EXCEPT !.at = "mkdir", !.metric = new]]
      PROVE  IInv'
  <2> DEFINE b == [job[j] EXCEPT !.at = "mkdir", !.metric = new]
  <2>1. new \in Int
    BY LifecycleAssumption DEF Metrics
  <2>2. b \in Retrain /\ b.at = "mkdir" /\ b.head = job[j].head
    BY <1>1, <2>1 DEF Retrain
  <2>3. job' = [job EXCEPT ![j] = b]
    BY <1>3
  <2>5. j \in Emergency /\ b.head = "regression" /\ Latest("regression") # 0
          => OldEnough(Latest("regression"))
    BY <1>2, <2>2 DEF IInv, ReplacedIsOld
  <2> HIDE DEF b
  <2>8. b.at \notin Writing
    BY <2>2 DEF Writing
  <2> QED
    BY <1>2, <2>2, <2>3, <2>5, <2>8, JobMoves
<1>4. CASE job' = [job EXCEPT ![j] = NextHead(j)]
  BY <1>2, <1>4, NextHeadRetrain, JobMoves DEF Writing
<1> QED
  BY <1>3, <1>4 DEF Train

LEMMA SaveFailsKeeps ==
  ASSUME IInv, NEW j \in Jobs, SaveFails(j)
  PROVE  IInv'
BY IdleRetrain, JobMoves DEF Writing, SaveFails

-----------------------------------------------------------------------------
(***************************************************************************)
(* Saves.                                                                  *)
(***************************************************************************)
\* What a step of job j must do to the registry: head h gains or changes only
\* directory i, which is the job's own, and is not whole before.
LEMMA SaveKeeps ==
  ASSUME IInv, StateOK', NEW j \in Jobs, NEW h \in Heads, NEW i \in Nat \ {0},
         UNCHANGED <<day, predictor>>,
         h = job[j].head, \A k \in Jobs \ {j} : job'[k] = job[k],
         job[j].at \in {"mkdir"} \cup Writing,
         \A g \in Heads \ {h} : registry'[g] = registry[g],
         \A m \in DOMAIN registry[h] \ {i} : registry'[h][m] = registry[h][m],
         DOMAIN registry'[h] = DOMAIN registry[h] \cup {i},
         i \in DOMAIN registry[h] => job[j].dir = i /\ job[j].at \in Writing,
         registry'[h][i].day = day,
         i \in DOMAIN registry[h] /\ Found(h, i) => Found(h, i)',
         Found(h, i)' => Complete(h, i)',
         job'[j].at \in Writing => Owns(j)' /\ job'[j].head = h /\ job'[j].dir = i,
         job'[j].at # "idle" /\ job'[j].head = "regression" => job[j].head = "regression"
  PROVE  IInv'
<1>1. registry \in [Heads -> Seq(Dir)] /\ registry' \in [Heads -> Seq(Dir)]
  BY DEF IInv, StateOK
<1>2. i \in DOMAIN registry[h] => ~ Readable(h, i)
  BY DEF IInv, DirsAreOwned, Owns
<1>3. ASSUME NEW g \in Heads, NEW m \in DOMAIN registry[g], ~ (g = h /\ m = i)
      PROVE  m \in DOMAIN registry'[g] /\ registry'[g][m] = registry[g][m]
  BY <1>3
<1>4. FoundIsComplete'
  <2>1. SUFFICES ASSUME NEW g \in Heads, NEW m \in DOMAIN registry'[g], registry'[g][m].metadata # "none"
                 PROVE  Complete(g, m)'
    BY DEF FoundIsComplete, Found
  <2>2. CASE g = h /\ m = i
    BY <2>1, <2>2 DEF Found
  <2>3. CASE ~ (g = h /\ m = i)
    <3>1. m \in DOMAIN registry[g] /\ registry'[g][m] = registry[g][m]
      BY <2>3
    <3> QED
      BY <2>1, <3>1 DEF IInv, FoundIsComplete, Found, Complete
  <2> QED
    BY <2>2, <2>3
<1>5. \A k \in Jobs \ {j} : job[k].at \in Writing => ~ (job[k].head = h /\ job[k].dir = i)
  <2>1. SUFFICES ASSUME NEW k \in Jobs \ {j}, job[k].at \in Writing, job[k].head = h, job[k].dir = i
                 PROVE  FALSE
    OBVIOUS
  <2>2. i \in DOMAIN registry[h]
    BY <2>1 DEF IInv, DirsAreOwned, Owns
  <2> QED
    BY <2>1, <2>2 DEF IInv, DirsAreOwned
<1>6. DirsAreOwned'
  <2>1. ASSUME NEW k \in Jobs \ {j}, job'[k].at \in Writing PROVE Owns(k)'
    <3>1. job'[k] = job[k] /\ Owns(k) /\ job[k].head \in Heads
      BY <2>1 DEF IInv, DirsAreOwned, StateOK, Retrain
    <3>2. /\ job[k].dir \in DOMAIN registry'[job[k].head]
          /\ registry'[job[k].head][job[k].dir] = registry[job[k].head][job[k].dir]
      BY <1>3, <1>5, <2>1, <3>1 DEF Owns
    <3> QED
      BY <3>1, <3>2 DEF Owns, Found, Readable, Complete
  <2>2. \A k, l \in Jobs :
          job'[k].at \in Writing /\ job'[l].at \in Writing /\ k # l /\ job'[k].head = job'[l].head
          => job'[k].dir # job'[l].dir
    BY <1>5 DEF IInv, DirsAreOwned
  <2> QED
    BY <2>1, <2>2 DEF DirsAreOwned
<1>8. ReplacedIsOld'
  <2>1. SUFFICES ASSUME NEW k \in Emergency, job'[k].at # "idle", job'[k].head = "regression",
                        Latest("regression")' # 0
                 PROVE  OldEnough(Latest("regression"))'
    BY DEF ReplacedIsOld
  <2>2. k \in Jobs /\ job[k].at # "idle" /\ job[k].head = "regression" /\ "regression" \in Heads
    BY <2>1 DEF Jobs, Heads, Writing
  <2> DEFINE old == Latest("regression")
             new == Latest("regression")'
  <2>3. new \in Nat /\ new \in DOMAIN registry'["regression"] /\ registry'["regression"][new].metadata # "none"
          /\ \A m \in DOMAIN registry'["regression"] : registry'["regression"][m].metadata # "none" => m <= new
    <3> DEFINE T == {0} \cup {m \in DOMAIN registry'["regression"] : registry'["regression"][m].metadata # "none"}
    <3>1. registry'["regression"] \in Seq(Dir)
      BY <1>1, <2>2
    <3>2. new = Max(T)
      BY DEF Latest
    <3> HIDE DEF new
    <3> QED
      BY <2>1, <3>1, <3>2, MaxFound DEF new
  <2>4. old \in Nat /\ (old # 0 => old \in DOMAIN registry["regression"] /\ Found("regression", old))
          /\ \A m \in DOMAIN registry["regression"] : Found("regression", m) => m <= old
    BY <1>1, <2>2, LatestFound
  <2> HIDE DEF old, new
  <2>5. CASE h = "regression" /\ new = i
    BY <2>5 DEF OldEnough, new, IInv, StateOK
  <2>6. CASE ~ (h = "regression" /\ new = i)
    <3>1. new \in DOMAIN registry["regression"] /\ registry'["regression"][new] = registry["regression"][new]
      BY <2>2, <2>3, <2>6
    <3>2. new <= old /\ old # 0
      <4>1. Found("regression", new)
        BY <2>3, <3>1 DEF Found
      <4>2. new \in Nat \ {0}
        BY <1>1, <2>2, <2>3, <3>1
      <4> QED
        BY <2>4, <3>1, <4>1, <4>2
    <3>3. old \in DOMAIN registry'["regression"] /\ registry'["regression"][old].metadata # "none"
      BY <2>2, <2>4, <3>2 DEF Found
    <3>4. new = old
      BY <2>3, <2>4, <3>2, <3>3
    <3>5. OldEnough(old)
      BY <2>1, <2>2, <3>2 DEF IInv, ReplacedIsOld, old
    <3> QED
      BY <3>1, <3>4, <3>5 DEF OldEnough, new, old
  <2> QED
    BY <2>5, <2>6
<1>9. LoadedIsFound'
  <2>1. SUFFICES ASSUME NEW g \in Heads
                 PROVE  /\ predictor.label[g] # 0 =>
                             /\ predictor.label[g] \in DOMAIN registry'[g]
                             /\ registry'[g][predictor.label[g]].metadata # "none"
                        /\ predictor.loaded[g] # 0 =>
                             /\ predictor.loaded[g] \in DOMAIN registry'[g]
                             /\ registry'[g][predictor.loaded[g]].metadata = "whole"
                             /\ predictor.label[g] <= predictor.loaded[g]
    BY DEF LoadedIsFound, Found, Readable
  <2>2. /\ predictor.label[g] # 0 =>
             predictor.label[g] \in DOMAIN registry[g] /\ Found(g, predictor.label[g])
        /\ predictor.loaded[g] # 0 =>
             /\ predictor.loaded[g] \in DOMAIN registry[g] /\ Readable(g, predictor.loaded[g])
             /\ predictor.label[g] <= predictor.loaded[g]
    BY DEF IInv, LoadedIsFound
  <2>3. predictor.label[g] # 0 => registry'[g][predictor.label[g]].metadata # "none"
    BY <1>3, <2>2 DEF Found
  <2> QED
    BY <1>2, <1>3, <2>2, <2>3 DEF Readable
<1> QED
  BY <1>4, <1>6, <1>8, <1>9 DEF IInv

\* A job makes a directory that nobody has, and none of its files.
LEMMA MakeDirKeeps ==
  ASSUME IInv, NEW j \in Jobs, MakeDir(j)
  PROVE  IInv'
<1>1. /\ job \in [Jobs -> Retrain] /\ job[j] \in Retrain /\ job[j].head \in Heads
      /\ registry \in [Heads -> Seq(Dir)] /\ day \in Nat
      /\ job[j].at = "mkdir" /\ UNCHANGED <<day, predictor>>
  BY DEF IInv, StateOK, Retrain, MakeDir
<1>2. PICK h, i, new, b :
         /\ h = job[j].head /\ h \in Heads
         /\ i = Len(registry[h]) + 1 /\ i \in Nat \ {0}
         /\ new = [model |-> FALSE, calibrators |-> FALSE, metadata |-> "none",
                   skill |-> 0, day |-> day]
         /\ b = [job[j] EXCEPT !.at = "model", !.dir = i]
  <2>1. registry[job[j].head] \in Seq(Dir)
    BY <1>1
  <2>2. Len(registry[job[j].head]) + 1 \in Nat \ {0}
    BY <2>1
  <2> QED
    BY <1>1, <2>2
<1>3. registry' = [registry EXCEPT ![h] = Append(@, new)] /\ job' = [job EXCEPT ![j] = b]
  BY <1>1, <1>2 DEF MakeDir, Files
<1>4. b \in Retrain /\ b.at = "model" /\ b.dir = i /\ b.head = h
  BY <1>1, <1>2 DEF Retrain, Writing
<1>5. new \in Dir /\ new.metadata = "none" /\ new.day = day
  BY <1>1, <1>2 DEF Dir
<1>6. registry[h] \in Seq(Dir) /\ Len(registry[h]) \in Nat /\ DOMAIN registry[h] = 1..Len(registry[h])
  BY <1>1, <1>2
<1>7. /\ registry'[h] = Append(registry[h], new)
      /\ \A g \in Heads \ {h} : registry'[g] = registry[g]
  BY <1>1, <1>2, <1>3
<1>8. /\ DOMAIN registry'[h] = DOMAIN registry[h] \cup {i} /\ i \notin DOMAIN registry[h]
      /\ registry'[h] \in Seq(Dir) /\ registry'[h][i] = new
      /\ \A m \in DOMAIN registry[h] : registry'[h][m] = registry[h][m]
  <2>1. i = Len(registry[h]) + 1
    BY <1>2
  <2> QED
    BY <1>5, <1>6, <1>7, <2>1, AppendProperties
<1>9. job' \in [Jobs -> Retrain] /\ job'[j] = b /\ \A k \in Jobs \ {j} : job'[k] = job[k]
  BY <1>1, <1>3, <1>4
<1>10. StateOK'
  <2>1. registry' \in [Heads -> Seq(Dir)]
    BY <1>1, <1>3, <1>7, <1>8
  <2> QED
    BY <1>1, <1>9, <2>1 DEF IInv, StateOK
<1>11. ~ Found(h, i)' /\ ~ Readable(h, i)'
  BY <1>5, <1>8 DEF Found, Readable
<1>12. Owns(j)'
  <2>1. job'[j].head = h /\ job'[j].dir = i /\ job'[j].at = "model"
    BY <1>4, <1>9
  <2>2. /\ i \in DOMAIN registry'[h] /\ registry'[h][i].day = day'
        /\ registry'[h][i].metadata = "none"
    BY <1>1, <1>5, <1>8
  <2> QED
    BY <2>1, <2>2 DEF Owns, Found, Readable
<1>13. job'[j].head = h /\ job'[j].dir = i /\ job'[j].at = "model"
  BY <1>4, <1>9
<1>14. registry'[h][i].day = day /\ h = job[j].head
  BY <1>2, <1>5, <1>8
<1>15. /\ h \in Heads /\ i \in Nat \ {0} /\ job[j].at \in {"mkdir"} \cup Writing
       /\ \A m \in DOMAIN registry[h] \ {i} : registry'[h][m] = registry[h][m]
       /\ i \in DOMAIN registry[h] => job[j].dir = i /\ job[j].at \in Writing
       /\ i \in DOMAIN registry[h] /\ Found(h, i) => Found(h, i)'
       /\ Found(h, i)' => Complete(h, i)'
       /\ job'[j].at \in Writing => Owns(j)' /\ job'[j].head = h /\ job'[j].dir = i
       /\ job'[j].at # "idle" /\ job'[j].head = "regression" => job[j].head = "regression"
  BY <1>1, <1>2, <1>8, <1>11, <1>12, <1>13
<1> QED
  BY <1>1, <1>7, <1>8, <1>9, <1>10, <1>14, <1>15, SaveKeeps, ZenonT(60)

\* The next file of a directory, by the job that made it.
LEMMA WriteKeeps ==
  ASSUME IInv, NEW j \in Jobs, Write(j)
  PROVE  IInv'
<1>1. /\ job \in [Jobs -> Retrain] /\ job[j] \in Retrain /\ job[j].head \in Heads
      /\ day \in Nat /\ registry \in [Heads -> Seq(Dir)] /\ UNCHANGED <<day, predictor>>
  BY DEF IInv, StateOK, Retrain, Write
<1>2. PICK h, i, at, d, e, next, b :
         /\ h = job[j].head /\ h \in Heads /\ i = job[j].dir /\ at = job[j].at /\ d = registry[h][i]
         /\ e = Written(d, at, job[j].metric)
         /\ next = CASE at = "model" -> IF h = "classification" THEN "calibrators" ELSE "open"
                     [] at = "calibrators" -> "open"
                     [] at = "open" -> "metadata"
                     [] OTHER -> "judge"
         /\ b = IF at = "metadata" THEN NextHead(j) ELSE [job[j] EXCEPT !.at = next]
  BY <1>1
<1>3. /\ at \in Writing
      /\ registry' = [registry EXCEPT ![h][i] = Written(@, at, job[j].metric)]
      /\ job' = [job EXCEPT ![j] = b]
  <2>1. PICK k \in DOMAIN Files(h) :
          /\ at = Files(h)[k]
          /\ registry' = [registry EXCEPT ![h][i] = Written(@, Files(h)[k], job[j].metric)]
          /\ job' = [job EXCEPT ![j] =
                       IF k < Len(Files(h)) THEN [@ EXCEPT !.at = Files(h)[k + 1]] ELSE NextHead(j)]
    BY <1>2 DEF Write
  <2>2. registry' = [registry EXCEPT ![h][i] = Written(@, at, job[j].metric)]
    BY <2>1
  <2>3. at \in Writing /\ job' = [job EXCEPT ![j] = IF at = "metadata" THEN NextHead(j)
                                                    ELSE [job[j] EXCEPT !.at = next]]
    <3>1. CASE h = "classification"
      <4>1. Files(h) = <<"model", "calibrators", "open", "metadata">>
        BY <3>1 DEF Files
      <4>2. Len(Files(h)) = 4 /\ k \in {1, 2, 3, 4} /\ Files(h)[1] = "model"
              /\ Files(h)[2] = "calibrators" /\ Files(h)[3] = "open" /\ Files(h)[4] = "metadata"
        BY <4>1, <2>1
      <4>3. CASE k = 4
        BY <1>1, <2>1, <4>2, <4>3 DEF Writing
      <4>4. CASE k \in {1, 2, 3}
        <5>1. at \in Writing /\ at # "metadata" /\ next = Files(h)[k + 1] /\ k < Len(Files(h))
          BY <1>2, <2>1, <3>1, <4>2, <4>4 DEF Writing
        <5> QED
          BY <1>1, <2>1, <5>1
      <4> QED
        BY <4>2, <4>3, <4>4
    <3>2. CASE h # "classification"
      <4>1. Files(h) = <<"model", "open", "metadata">>
        BY <3>2 DEF Files
      <4>2. Len(Files(h)) = 3 /\ k \in {1, 2, 3} /\ Files(h)[1] = "model"
              /\ Files(h)[2] = "open" /\ Files(h)[3] = "metadata"
        BY <4>1, <2>1
      <4>3. CASE k = 3
        BY <1>1, <2>1, <4>2, <4>3 DEF Writing
      <4>4. CASE k \in {1, 2}
        <5>1. at \in Writing /\ at # "metadata" /\ next = Files(h)[k + 1] /\ k < Len(Files(h))
          BY <1>2, <2>1, <3>2, <4>2, <4>4 DEF Writing
        <5> QED
          BY <1>1, <2>1, <5>1
      <4> QED
        BY <4>2, <4>3, <4>4
    <3> QED
      BY <3>1, <3>2
  <2> QED
    BY <1>2, <2>2, <2>3
<1>4. /\ Owns(j) /\ i \in DOMAIN registry[h] /\ d \in Dir /\ d.day = day /\ i \in Nat \ {0}
      /\ registry[h] \in Seq(Dir)
  <2>1. Owns(j)
    BY <1>2, <1>3 DEF IInv, DirsAreOwned
  <2>2. i \in DOMAIN registry[h] /\ d.day = day /\ registry[h] \in Seq(Dir)
    BY <1>1, <1>2, <2>1 DEF Owns
  <2>3. d \in Dir /\ i \in Nat \ {0}
    BY <1>2, <2>2
  <2> QED
    BY <2>1, <2>2, <2>3
<1>5. /\ e \in Dir /\ e.day = d.day
      /\ e.metadata = CASE at = "open" -> "empty" [] at = "metadata" -> "whole" [] OTHER -> d.metadata
      /\ e.model = (d.model \/ at = "model") /\ e.calibrators = (d.calibrators \/ at = "calibrators")
  <2>1. d \in Dir /\ job[j].metric \in Int /\ e = Written(d, at, job[j].metric)
    BY <1>1, <1>2, <1>4 DEF Retrain
  <2>2. CASE at = "model"
    BY <2>1, <2>2 DEF Written, Dir
  <2>3. CASE at = "calibrators"
    BY <2>1, <2>3 DEF Written, Dir
  <2>4. CASE at = "open"
    BY <2>1, <2>4 DEF Written, Dir
  <2>5. CASE at = "metadata"
    BY <2>1, <2>5 DEF Written, Dir
  <2> QED
    BY <1>3, <2>2, <2>3, <2>4, <2>5 DEF Writing
<1>6. /\ b \in Retrain /\ b.at \notin {"train", "mkdir", "model"}
      /\ at = "metadata" => b.at \in {"idle", "judge"} /\ (b.at # "idle" => b.head # "regression")
      /\ at # "metadata" => /\ b.at = next /\ b.head = h /\ b.dir = i
  <2>1. CASE at = "metadata"
    BY <1>2, <2>1, NextHeadRetrain
  <2>2. CASE at # "metadata"
    <3>1. next \in {"calibrators", "open", "metadata"}
      BY <1>2, <1>3, <2>2 DEF Writing
    <3>2. b = [job[j] EXCEPT !.at = next]
      BY <1>2, <2>2
    <3> QED
      BY <1>1, <1>2, <2>2, <3>1, <3>2 DEF Retrain, Writing
  <2> QED
    BY <2>1, <2>2
<1>7. /\ d.metadata # "none" <=> at = "metadata"
      /\ d.metadata # "whole"
      /\ at # "model" => d.model
      /\ at \in {"open", "metadata"} => d.model /\ (h = "classification" => d.calibrators)
      /\ at = "calibrators" => h = "classification"
  BY <1>2, <1>4 DEF Owns, Found, Readable, Complete
<1>8. /\ registry'[h] = [registry[h] EXCEPT ![i] = e]
      /\ \A g \in Heads \ {h} : registry'[g] = registry[g]
  BY <1>1, <1>2, <1>3
<1>9. /\ DOMAIN registry'[h] = DOMAIN registry[h] /\ registry'[h][i] = e /\ registry'[h] \in Seq(Dir)
      /\ \A m \in DOMAIN registry[h] \ {i} : registry'[h][m] = registry[h][m]
  BY <1>4, <1>5, <1>8
<1>10. job' \in [Jobs -> Retrain] /\ job'[j] = b /\ \A k \in Jobs \ {j} : job'[k] = job[k]
  BY <1>1, <1>3, <1>6
<1>11. StateOK'
  <2>1. registry' \in [Heads -> Seq(Dir)]
    BY <1>1, <1>3, <1>8, <1>9
  <2> QED
    BY <1>1, <1>10, <2>1 DEF IInv, StateOK
<1>12. Found(h, i)' => Complete(h, i)'
  <2>1. e.metadata # "none" => e.model /\ (h = "classification" => e.calibrators)
    BY <1>3, <1>5, <1>7 DEF Writing
  <2> QED
    BY <1>9, <2>1 DEF Found, Complete
<1>13. Found(h, i) => Found(h, i)'
  BY <1>2, <1>5, <1>7, <1>9 DEF Found
<1>14. job'[j].at \in Writing => Owns(j)'
  <2>1. SUFFICES ASSUME b.at \in Writing PROVE Owns(j)'
    BY <1>10
  <2>2. at # "metadata" /\ b.at = next /\ b.head = h /\ b.dir = i
    BY <1>6, <2>1 DEF Writing
  <2>3. /\ next = "metadata" <=> e.metadata # "none"
        /\ e.metadata # "whole" /\ e.model
        /\ next \in {"open", "metadata"} => (h = "classification" => e.calibrators)
        /\ next = "calibrators" => h = "classification"
    <3>1. CASE at = "model"
      BY <1>2, <1>5, <1>7, <3>1
    <3>2. CASE at = "calibrators"
      BY <1>2, <1>5, <1>7, <3>2
    <3>3. CASE at = "open"
      BY <1>2, <1>5, <1>7, <3>3
    <3> QED
      BY <1>3, <2>2, <3>1, <3>2, <3>3 DEF Writing
  <2>4. job'[j].head = h /\ job'[j].dir = i /\ job'[j].at = next
    BY <1>10, <2>2
  <2>5. i \in DOMAIN registry'[h] /\ registry'[h][i] = e /\ e.day = day'
    BY <1>1, <1>4, <1>5, <1>9
  <2>6. next # "model"
    BY <1>6, <2>2
  <2> QED
    BY <2>3, <2>4, <2>5, <2>6 DEF Owns, Found, Readable, Complete
<1>15. job'[j].at \in Writing => job'[j].head = h /\ job'[j].dir = i
  BY <1>6, <1>10 DEF Writing
<1>17. job'[j].at # "idle" /\ job'[j].head = "regression" => job[j].head = "regression"
  BY <1>2, <1>6, <1>10
<1>18. registry'[h][i].day = day /\ DOMAIN registry'[h] = DOMAIN registry[h] \cup {i}
  BY <1>4, <1>5, <1>9
<1>19. h = job[j].head /\ i = job[j].dir /\ job[j].at \in Writing
  BY <1>2, <1>3
<1> QED
  BY <1>1, <1>2, <1>4, <1>8, <1>9, <1>10, <1>11, <1>12, <1>13, <1>14, <1>15, <1>17, <1>18, <1>19,
     SaveKeeps, ZenonT(60)

-----------------------------------------------------------------------------
(***************************************************************************)
(* The predictor, the calendar and the deaths.                             *)
(***************************************************************************)
LEMMA PredictorMoves ==
  ASSUME IInv, UNCHANGED <<day, registry, job>>,
         predictor' \in [at : {"idle", "log"} \cup Heads, label : [Heads -> Nat], loaded : [Heads -> Nat]],
         LoadedIsFound'
  PROVE  IInv'
<1>1. StateOK'
  BY DEF IInv, StateOK
<1>2. FoundIsComplete' /\ DirsAreOwned'
  BY DEF IInv, FoundIsComplete, DirsAreOwned, Found, Complete, Readable, Owns
<1>3. ReplacedIsOld'
  <2>1. Latest("regression")' = Latest("regression")
    BY DEF Latest
  <2>2. OldEnough(Latest("regression"))' <=> OldEnough(Latest("regression"))
    BY <2>1 DEF OldEnough
  <2> QED
    BY <2>1, <2>2 DEF IInv, ReplacedIsOld
<1> QED
  BY <1>1, <1>2, <1>3 DEF IInv

LEMMA AsleepTyped ==
  /\ Asleep \in [at : {"idle", "log"} \cup Heads, label : [Heads -> Nat], loaded : [Heads -> Nat]]
  /\ \A h \in Heads : Asleep.label[h] = 0 /\ Asleep.loaded[h] = 0
BY DEF Asleep

LEMMA ScanLabelsKeeps ==
  ASSUME IInv, ScanLabels
  PROVE  IInv'
<1> DEFINE found == [h \in Heads |-> Latest(h)]
<1>1. registry \in [Heads -> Seq(Dir)] /\ UNCHANGED <<day, registry, job>>
  BY DEF IInv, StateOK, ScanLabels
<1>2. \A h \in Heads : Latest(h) \in Nat /\ (Latest(h) # 0 => Latest(h) \in DOMAIN registry[h] /\ Found(h, Latest(h)))
  BY <1>1, LatestFound
<1>3. found \in [Heads -> Nat] /\ \A h \in Heads : found[h] = Latest(h)
  BY <1>2
<1>4. predictor' = [Asleep EXCEPT !.at = "regression", !.label = found]
  BY DEF ScanLabels
<1> HIDE DEF found
<1>5. /\ predictor' \in [at : {"idle", "log"} \cup Heads, label : [Heads -> Nat], loaded : [Heads -> Nat]]
      /\ predictor'.label = found /\ predictor'.loaded = Asleep.loaded
  BY <1>3, <1>4, AsleepTyped DEF Heads
<1>6. LoadedIsFound'
  <2>1. \A h \in Heads : predictor'.label[h] = Latest(h) /\ predictor'.loaded[h] = 0
    BY <1>3, <1>5, AsleepTyped
  <2> QED
    BY <1>1, <1>2, <2>1 DEF LoadedIsFound, Found
<1> QED
  BY <1>1, <1>5, <1>6, PredictorMoves

LEMMA LoadKeeps ==
  ASSUME IInv, Load
  PROVE  IInv'
<1>1. /\ registry \in [Heads -> Seq(Dir)] /\ UNCHANGED <<day, registry, job>>
      /\ predictor \in [at : {"idle", "log"} \cup Heads, label : [Heads -> Nat], loaded : [Heads -> Nat]]
      /\ LoadedIsFound
  BY DEF IInv, StateOK, Load
<1>2. PICK h, i : h = predictor.at /\ h \in Heads /\ i = Latest(h)
  BY DEF Load
<1>3. /\ i \in Nat /\ (i # 0 => i \in DOMAIN registry[h])
      /\ \A m \in DOMAIN registry[h] : Found(h, m) => m <= i
  BY <1>1, <1>2, LatestFound
<1>4. CASE ~ Readable(h, i)
  <2>1. predictor' = Asleep
    BY <1>2, <1>4 DEF Load
  <2>2. LoadedIsFound'
    BY <2>1, AsleepTyped DEF LoadedIsFound
  <2> QED
    BY <1>1, <2>1, <2>2, AsleepTyped, PredictorMoves
<1>5. CASE Readable(h, i)
  <2>1. PICK at \in {"classification", "log"} : predictor' = [predictor EXCEPT !.at = at, !.loaded[h] = i]
    BY <1>1, <1>2, <1>5 DEF Load
  <2>2. /\ predictor' \in [at : {"idle", "log"} \cup Heads, label : [Heads -> Nat], loaded : [Heads -> Nat]]
        /\ predictor'.label = predictor.label /\ predictor'.loaded = [predictor.loaded EXCEPT ![h] = i]
    BY <1>1, <1>2, <1>3, <2>1 DEF Heads
  <2>3. predictor.label[h] <= i
    <3>1. predictor.label[h] # 0 => predictor.label[h] \in DOMAIN registry[h] /\ Found(h, predictor.label[h])
      BY <1>1, <1>2 DEF LoadedIsFound
    <3>2. predictor.label[h] \in Nat
      BY <1>1, <1>2
    <3> QED
      BY <1>3, <3>1, <3>2
  <2>4. /\ predictor'.loaded[h] = i
        /\ \A g \in Heads \ {h} : predictor'.loaded[g] = predictor.loaded[g]
    BY <1>1, <1>2, <2>2
  <2>5. LoadedIsFound'
    BY <1>1, <1>2, <1>3, <1>5, <2>2, <2>3, <2>4 DEF LoadedIsFound, Found, Readable
  <2> QED
    BY <1>1, <2>2, <2>5, PredictorMoves
<1> QED
  BY <1>4, <1>5

LEMMA LogKeeps ==
  ASSUME IInv, Log
  PROVE  IInv'
<1>1. predictor' = Asleep /\ UNCHANGED <<day, registry, job>>
  BY DEF Log
<1>2. LoadedIsFound'
  BY <1>1, AsleepTyped DEF LoadedIsFound
<1> QED
  BY <1>1, <1>2, AsleepTyped, PredictorMoves

LEMMA DieKeeps ==
  ASSUME IInv, Die
  PROVE  IInv'
<1>1. job' = [j \in Jobs |-> Idle] /\ predictor' = Asleep /\ UNCHANGED <<day, registry>>
  BY DEF Die
<1>2. \A j \in Jobs : job'[j].at = "idle"
  BY <1>1, IdleRetrain
<1>3. StateOK'
  BY <1>1, IdleRetrain, AsleepTyped DEF IInv, StateOK
<1>4. FoundIsComplete'
  BY <1>1 DEF IInv, FoundIsComplete, Found, Complete
<1>5. DirsAreOwned' /\ ReplacedIsOld'
  BY <1>2 DEF DirsAreOwned, ReplacedIsOld, Writing, Jobs
<1>6. LoadedIsFound'
  BY <1>1, AsleepTyped DEF LoadedIsFound
<1> QED
  BY <1>3, <1>4, <1>5, <1>6 DEF IInv

LEMMA SkillsAreIntegers ==
  ASSUME NEW skill \in Skills, NEW h \in Heads
  PROVE  skill[h] \in Int
<1>1. skill[h] \in Metrics(h)
  BY DEF Skills
<1>2. Metrics(h) \subseteq Int
  BY LifecycleAssumption DEF Metrics
<1> QED
  BY <1>1, <1>2

LEMMA NextDayKeeps ==
  ASSUME IInv, NextDay
  PROVE  IInv'
<1>1. /\ registry \in [Heads -> Seq(Dir)] /\ day' = day + 1 /\ day \in Nat
      /\ UNCHANGED <<job, predictor>> /\ \A j \in Jobs : job[j].at = "idle"
  BY DEF IInv, StateOK, NextDay
<1>2. PICK skill \in Skills :
        registry' = [h \in Heads |->
          [i \in DOMAIN registry[h] |->
            [registry[h][i] EXCEPT !.skill = IF i = Latest(h) THEN skill[h] ELSE 0]]]
  BY DEF NextDay
<1>3. \A h \in Heads : skill[h] \in Int
  BY SkillsAreIntegers
<1>4. ASSUME NEW h \in Heads
      PROVE  /\ registry'[h] \in Seq(Dir) /\ DOMAIN registry'[h] = DOMAIN registry[h]
             /\ \A i \in DOMAIN registry[h] :
                  /\ registry'[h][i].metadata = registry[h][i].metadata
                  /\ registry'[h][i].model = registry[h][i].model
                  /\ registry'[h][i].calibrators = registry[h][i].calibrators
  <2>1. registry[h] \in Seq(Dir) /\ DOMAIN registry[h] = 1..Len(registry[h]) /\ Len(registry[h]) \in Nat
    BY <1>1
  <2>2. registry'[h] = [i \in 1..Len(registry[h]) |->
            [registry[h][i] EXCEPT !.skill = IF i = Latest(h) THEN skill[h] ELSE 0]]
    BY <1>2, <2>1
  <2>3. ASSUME NEW i \in 1..Len(registry[h])
        PROVE  /\ registry'[h][i] \in Dir /\ registry'[h][i].metadata = registry[h][i].metadata
               /\ registry'[h][i].model = registry[h][i].model
               /\ registry'[h][i].calibrators = registry[h][i].calibrators
    <3>1. registry[h][i] \in Dir /\ (IF i = Latest(h) THEN skill[h] ELSE 0) \in Int
      BY <1>3, <2>1
    <3>2. registry'[h][i] = [registry[h][i] EXCEPT !.skill = IF i = Latest(h) THEN skill[h] ELSE 0]
      BY <2>2
    <3> QED
      BY <3>1, <3>2 DEF Dir
  <2>4. DOMAIN registry'[h] = 1..Len(registry[h]) /\ registry'[h] \in [1..Len(registry[h]) -> Dir]
    BY <2>2, <2>3
  <2> QED
    BY <2>1, <2>3, <2>4
<1>5. StateOK'
  <2>1. registry' \in [Heads -> Seq(Dir)]
    BY <1>2, <1>4
  <2> QED
    BY <1>1, <2>1 DEF IInv, StateOK
<1>6. FoundIsComplete'
  BY <1>4 DEF IInv, FoundIsComplete, Found, Complete
<1>7. DirsAreOwned' /\ ReplacedIsOld'
  BY <1>1 DEF DirsAreOwned, ReplacedIsOld, Writing, Jobs
<1>8. LoadedIsFound'
  BY <1>1, <1>4 DEF IInv, LoadedIsFound, Found, Readable
<1> QED
  BY <1>5, <1>6, <1>7, <1>8 DEF IInv

LEMMA StartInv == Init => IInv
<1> SUFFICES ASSUME Init PROVE IInv
  OBVIOUS
<1>1. day = 0 /\ job = [j \in Jobs |-> Idle] /\ predictor = Asleep
  BY DEF Init
<1>2. \A j \in Jobs : job[j].at = "idle"
  BY <1>1, IdleRetrain
<1>3. registry \in [Heads -> Seq(Dir)] /\ FoundIsComplete
  <2>1. CASE registry = [h \in Heads |-> <<>>]
    BY <2>1 DEF FoundIsComplete
  <2>2. ASSUME NEW trained \in Skills,
               registry = [h \in Heads |->
                 <<[model |-> TRUE, calibrators |-> h = "classification", metadata |-> "whole",
                    skill |-> trained[h], day |-> 0]>>]
        PROVE  registry \in [Heads -> Seq(Dir)] /\ FoundIsComplete
    <3>1. ASSUME NEW h \in Heads
          PROVE  /\ registry[h] \in Seq(Dir) /\ DOMAIN registry[h] = {1}
                 /\ registry[h][1].model /\ (h = "classification" => registry[h][1].calibrators)
      <4>1. PICK d : d = [model |-> TRUE, calibrators |-> h = "classification", metadata |-> "whole",
                          skill |-> trained[h], day |-> 0]
        OBVIOUS
      <4>2. trained[h] \in Int /\ (h = "classification") \in BOOLEAN
        BY SkillsAreIntegers
      <4>3. d \in Dir /\ d.model /\ (h = "classification" => d.calibrators)
        BY <4>1, <4>2 DEF Dir
      <4>4. registry[h] = <<d>>
        BY <2>2, <4>1
      <4> QED
        BY <4>3, <4>4
    <3> QED
      BY <2>2, <3>1 DEF FoundIsComplete, Complete
  <2> QED
    BY <2>1, <2>2 DEF Init
<1>4. StateOK
  BY <1>1, <1>3, IdleRetrain, AsleepTyped DEF StateOK
<1>5. DirsAreOwned /\ ReplacedIsOld
  BY <1>2 DEF DirsAreOwned, ReplacedIsOld, Writing, Jobs
<1>6. LoadedIsFound
  BY <1>1, AsleepTyped DEF LoadedIsFound
<1> QED
  BY <1>3, <1>4, <1>5, <1>6 DEF IInv

LEMMA Inductive == IInv /\ [Next]_vars => IInv'
<1> SUFFICES ASSUME IInv, [Next]_vars PROVE IInv'
  OBVIOUS
<1>1. ASSUME NEW j \in Jobs, Trigger(j) \/ DriftCheck(j) PROVE IInv'
  BY <1>1, BeginKeeps
<1>2. ASSUME NEW j \in Jobs, Judge(j) PROVE IInv'
  BY <1>2, JudgeKeeps
<1>3. ASSUME NEW j \in Jobs, Train(j) PROVE IInv'
  BY <1>3, TrainKeeps
<1>4. ASSUME NEW j \in Jobs, MakeDir(j) PROVE IInv'
  BY <1>4, MakeDirKeeps
<1>5. ASSUME NEW j \in Jobs, Write(j) PROVE IInv'
  BY <1>5, WriteKeeps
<1>6. ASSUME NEW j \in Jobs, SaveFails(j) PROVE IInv'
  BY <1>6, SaveFailsKeeps
<1>7. CASE ScanLabels
  BY <1>7, ScanLabelsKeeps
<1>8. CASE Load
  BY <1>8, LoadKeeps
<1>9. CASE Log
  BY <1>9, LogKeeps
<1>10. CASE NextDay
  BY <1>10, NextDayKeeps
<1>11. CASE Die
  BY <1>11, DieKeeps
<1>12. CASE UNCHANGED vars
  <2>1. UNCHANGED <<day, registry, job, predictor>> /\ predictor' = predictor
    BY <1>12 DEF vars
  <2>2. LoadedIsFound'
    BY <2>1 DEF IInv, LoadedIsFound, Found, Readable
  <2> QED
    BY <2>1, <2>2, PredictorMoves DEF IInv, StateOK
<1> QED
  BY <1>1, <1>2, <1>3, <1>4, <1>5, <1>6, <1>7, <1>8, <1>9, <1>10, <1>11, <1>12 DEF Next

LEMMA Invariance == Spec => []IInv
<1>1. Init => IInv
  BY StartInv
<1>2. IInv /\ [Next]_vars => IInv'
  BY Inductive
<1> QED
  BY <1>1, <1>2, PTL DEF Spec

-----------------------------------------------------------------------------
(***************************************************************************)
(* The theorems.                                                           *)
(***************************************************************************)
\* What the predictor has loaded is one whole save, however many retrains write
\* and die beside it (registry.py:71, metadata.json comes last).
THEOREM LoadedIsOneSaveHolds == Spec => []LoadedIsOneSave
<1>1. IInv => LoadedIsOneSave
  BY DEF IInv, LoadedIsFound, FoundIsComplete, LoadedIsOneSave, Found, Readable
<1> QED
  BY <1>1, Invariance, PTL

\* An emergency retrain replaces a regression model only when that model has been
\* left alone for MinAge days or is of today (drift.py:146).
THEOREM EmergencySparesTheYoungHolds == Spec => EmergencySparesTheYoung
<1>1. IInv => SparesTheYoung
  BY DEF IInv, ReplacedIsOld, OldEnough, SparesTheYoung
<1> QED
  BY <1>1, Invariance, PTL DEF Spec, EmergencySparesTheYoung

=============================================================================
