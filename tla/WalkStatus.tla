----------------------------- MODULE WalkStatus -----------------------------
(***************************************************************************)
(* The live page of a walk-forward backtest                                *)
(* (services/api/services/predictions_service.py, get_strict_wf_status).   *)
(* While the backtest goes on logging predictions, each request replays    *)
(* them through the paper engine, unless a replay of the same predictions  *)
(* is in the process's cache or on disk.  What is the same is told by the  *)
(* modification times of two files.                                        *)
(*                                                                         *)
(* A predictions database is the set of its rows, and so is a replay.      *)
(* Files written at different moments have different times.  The requests  *)
(* are the threads of one API process; a restore is the move of            *)
(* scripts/restore_predictions_backup.py, in one step.                     *)
(***************************************************************************)
EXTENDS Naturals, FiniteSets

CONSTANTS
  Requests,
  CacheCap,                \* answers kept before the cache is cleared
  MaxTime, MaxCopies, MaxRestores  \* bounds of the exploration

VARIABLES
  now,      \* the clock of the file system
  file,     \* predictions.sqlite: its rows and time
  copies,   \* the snapshots of it
  replay,   \* analysis_live.sqlite: the rows it replays, its time; 0 if absent
  lock,     \* _REPLAY_LOCK
  answers,  \* _STRICT_WF_CACHE
  page,     \* the requests
  unseen,   \* rows that the times do not tell of while the file stays as it is
  restores  \* bound counter

statusVars == <<now, file, copies, replay, lock, answers, page, unseen, restores>>
disk == <<now, file, copies, replay>>

Nobody == "nobody"

ASSUME WalkStatusAssumption ==
  /\ Nobody \notin Requests
  /\ {CacheCap, MaxTime, MaxCopies, MaxRestores} \subseteq Nat

\* asked: the rows on file when the request came; told: those of them that the
\* file times can tell of.
Quiet == [phase |-> "idle", asked |-> {}, told |-> {}, key |-> 0,
          built |-> {}, builtAt |-> 0, shown |-> {}]

Waiting == {"ask", "wait", "replay", "building", "swap", "read", "draw"}
At(r, phase) == page[r].phase = phase
Goes(r, phase) == page' = [page EXCEPT ![r].phase = phase]

-----------------------------------------------------------------------------
(***************************************************************************)
(* The files.                                                              *)
(***************************************************************************)
\* log_predictions commits a day.  Rows are named by the time they are logged.
\* A replay being built will be the younger file and lack the row, and those
\* logged since it was loaded.
LogDay ==
  /\ now < MaxTime
  /\ now' = now + 1
  /\ file' = [rows |-> file.rows \cup {now'}, time |-> now']
  /\ unseen' = UNION {file'.rows \ page[r].built : r \in {q \in Requests : At(q, "building")}}
  /\ UNCHANGED <<copies, replay, lock, answers, page, restores>>

\* take_snapshot: a file of its own time.
TakeCopy ==
  /\ now < MaxTime /\ Cardinality(copies) < MaxCopies /\ file.rows # {}
  /\ now' = now + 1
  /\ copies' = copies \cup {[rows |-> file.rows, time |-> now']}
  /\ UNCHANGED <<file, replay, lock, answers, page, unseen, restores>>

\* copy2 keeps the time of the snapshot: replays and answers of other rows may
\* be the younger ones, until the next day is logged.
Restore ==
  /\ restores < MaxRestores
  /\ \E c \in copies : file' = c /\ unseen' = c.rows
  /\ page' = [r \in Requests |->
       IF page[r].phase \in Waiting THEN [page[r] EXCEPT !.told = {}] ELSE page[r]]
  /\ restores' = restores + 1
  /\ UNCHANGED <<now, copies, replay, lock, answers>>

-----------------------------------------------------------------------------
(***************************************************************************)
(* A request.                                                              *)
(***************************************************************************)
Opened(r) == page' = [page EXCEPT ![r] =
  [Quiet EXCEPT !.phase = "ask", !.asked = file.rows, !.told = file.rows \ unseen]]

Ask(r) ==
  /\ page[r].phase \notin Waiting /\ Opened(r)
  /\ UNCHANGED <<disk, lock, answers, unseen, restores>>

\* The cache is asked for the time the file has now; a database without rows
\* gets an answer without years.
LookUp(r) ==
  /\ At(r, "ask")
  /\ LET hits == {a \in answers : a.key = file.time}
         next == [page[r] EXCEPT !.key = file.time]
     IN  page' = [page EXCEPT ![r] =
           IF hits # {} THEN [next EXCEPT !.phase = "answered", !.shown = (CHOOSE a \in hits : TRUE).rows]
           ELSE IF file.rows = {} THEN [next EXCEPT !.phase = "empty"]
           ELSE [next EXCEPT !.phase = "wait"]]
  /\ UNCHANGED <<disk, lock, answers, unseen, restores>>

Fresh_Exists == replay.time > 0

\* _paper_is_fresh.
Fresh == replay.time > 0 /\ replay.time >= file.time

\* The fast path, before the lock.
Reuse(r) ==
  /\ At(r, "wait") /\ Fresh /\ Goes(r, "read")
  /\ UNCHANGED <<disk, lock, answers, unseen, restores>>

\* The lock, and the second look under it.  The first look need not come out
\* as the second does.
Enter(r) ==
  /\ At(r, "wait") /\ lock = Nobody
  /\ IF Fresh THEN Goes(r, "read") /\ UNCHANGED lock
     ELSE Goes(r, "replay") /\ lock' = r
  /\ UNCHANGED <<disk, answers, unseen, restores>>

\* backtest reads its predictions, and ends with the one commit to the
\* temporary file.
LoadReplay(r) ==
  /\ At(r, "replay")
  /\ page' = [page EXCEPT ![r].phase = "building", ![r].built = file.rows]
  /\ UNCHANGED <<disk, lock, answers, unseen, restores>>

FinishReplay(r) ==
  /\ At(r, "building") /\ now < MaxTime
  /\ now' = now + 1
  /\ page' = [page EXCEPT ![r].phase = "swap", ![r].builtAt = now']
  /\ UNCHANGED <<file, copies, replay, lock, answers, unseen, restores>>

\* os.replace, or five refusals and an answer without years.
SwapIn(r) ==
  /\ At(r, "swap") /\ lock' = Nobody
  /\ \/ replay' = [rows |-> page[r].built, time |-> page[r].builtAt] /\ Goes(r, "read")
     \/ Goes(r, "empty") /\ UNCHANGED replay
  /\ UNCHANGED <<now, file, copies, answers, unseen, restores>>

\* _strict_wf_per_year, then the equity curve and the months: the file is
\* opened anew each time.
ReadYears(r) ==
  /\ At(r, "read")
  /\ page' = [page EXCEPT ![r].phase = "draw", ![r].shown = replay.rows]
  /\ UNCHANGED <<disk, lock, answers, unseen, restores>>

Shown(r) == page[r].shown \cap replay.rows

Answer(r) ==
  /\ At(r, "draw")
  /\ page' = [page EXCEPT ![r].phase = "answered", ![r].shown = Shown(r)]
  /\ LET kept == IF Cardinality(answers) > CacheCap THEN {} ELSE answers
     IN  answers' = {a \in kept : a.key # page[r].key}
                      \cup {[key |-> page[r].key, rows |-> Shown(r)]}
  /\ UNCHANGED <<disk, lock, unseen, restores>>

\* Any step raises: the bar store is being written, a file is held open.
GiveUp(r) ==
  /\ page[r].phase \in Waiting
  /\ Goes(r, "failed") /\ lock' = IF lock = r THEN Nobody ELSE lock
  /\ UNCHANGED <<disk, answers, unseen, restores>>

\* The API process starts again; the files stay.
RestartApi ==
  /\ page' = [r \in Requests |-> Quiet] /\ lock' = Nobody /\ answers' = {}
  /\ UNCHANGED <<disk, unseen, restores>>

StatusInit ==
  /\ now = 0 /\ file = [rows |-> {}, time |-> 0] /\ copies = {}
  /\ replay = [rows |-> {}, time |-> 0]
  /\ lock = Nobody /\ answers = {} /\ page = [r \in Requests |-> Quiet]
  /\ unseen = {} /\ restores = 0

StatusNext ==
  \/ LogDay \/ TakeCopy \/ Restore \/ RestartApi
  \/ \E r \in Requests :
       \/ Ask(r) \/ LookUp(r) \/ Reuse(r) \/ Enter(r) \/ LoadReplay(r) \/ FinishReplay(r)
       \/ SwapIn(r) \/ ReadYears(r) \/ Answer(r) \/ GiveUp(r)

StatusSpec == StatusInit /\ [][StatusNext]_statusVars

-----------------------------------------------------------------------------
\* The lock is held by the one request that is replaying.
LockIsHeld == \A r \in Requests : lock = r <=> page[r].phase \in {"replay", "building", "swap"}

\* An answer shows every prediction that was on file when its request came,
\* whatever it was served from: the cache, the file of an earlier replay, one
\* of another thread, or its own.  Excepted are requests that come, or are
\* being served, while the file times cannot tell: rows logged while a replay
\* was being built, and a restored file, are looked at again once the next
\* day has been logged, and from then on every answer shows them.
NoStaleAnswer ==
  \A r \in Requests : At(r, "answered") => page[r].told \subseteq page[r].shown

\* "Staleness is detected by mtime: an in-progress variant whose predictions
\* keep growing has preds_mtime > paper_mtime" (predictions_service.py:1140):
\* an answer shows every prediction that was on file when its request came.
StalenessIsDetected ==
  \A r \in Requests : At(r, "answered") => page[r].asked \subseteq page[r].shown

=============================================================================
