------------------------------ MODULE Reporting ------------------------------
(***************************************************************************)
(* The reporting mart of src/apps/reporting: the nightly refresh and its   *)
(* manual re-runs, beside the purge that deletes the alerts the history is *)
(* computed from.                                                          *)
(*                                                                         *)
(* A run's steps are isolated: one that fails or is skipped leaves the     *)
(* others to go on, and a run can die between any two.  Runs overlap; each *)
(* statement sees what is committed when it starts (READ COMMITTED).  An   *)
(* alert is one half of its local day: before or after 07:00, the hour at  *)
(* which the Indexer's UTC day begins in Asia/Bangkok.                     *)
(***************************************************************************)
EXTENDS Integers, FiniteSets

CONSTANTS Jobs,                     \* refresh_reporting processes
          AlertDays,                \* days on which alerts arrive
          DEFAULT_RETENTION_DAYS,   \* of purge_wazuh_alerts
          HIST_ALERT_MARGIN_DAYS,
          DETECTION_DAYS,           \* --detection-days
          MAX_DAYS                  \* bound: days that pass

ASSUME Retention == /\ DEFAULT_RETENTION_DAYS \in Nat \ {0}
                    /\ HIST_ALERT_MARGIN_DAYS \in Nat
                    /\ DETECTION_DAYS \in Nat /\ MAX_DAYS \in Nat

Halves == {"early", "late"}

VARIABLES today, half,     \* the local date, and which half of the day it is
          raw,             \* WazuhAlert rows, by local day
          purged,          \* days the purge has deleted an alert of
          view,            \* mart.agg_alert_daily: ingested alerts by day (0: no row)
          hist,            \* mart.hist_alert_daily: [count, at] by day, at: captured_at
          night,           \* the batches the snapshot tables hold, by date: <<process,
                   \* midnights it ran over, half of the day>>
          indexed,         \* the Indexer's alerts, by local day
          detection,       \* mart.agg_detection_daily, by day (0: no row)
          job              \* job[j]: the run under way in process j

vars == <<today, half, raw, purged, view, hist, night, indexed, detection, job>>

Days == 0 .. MAX_DAYS
Ended == [pc |-> "none", rows |-> [d \in {} |-> 0], date |-> 0, saw |-> {}, nights |-> 0]

Init == /\ today = 0 /\ half = "early"
        /\ raw = [d \in Days |-> {}] /\ indexed = raw /\ purged = {}
        /\ view = [d \in Days |-> 0] /\ detection = view /\ hist = view
        /\ night = [d \in Days |-> {}]
        /\ job = [j \in Jobs |-> Ended]

-----------------------------------------------------------------------------
(* The day: alerts arrive, the purge runs, midnight passes.                 *)

AlertArrives ==
  /\ today \in AlertDays
  /\ raw' = [raw EXCEPT ![today] = @ \cup {half}]
  /\ indexed' = [indexed EXCEPT ![today] = @ \cup {half}]
  /\ UNCHANGED <<today, half, purged, view, hist, night, detection, job>>

(* timestamp__lt = now - retention: the older days, and of the day at the   *)
(* edge the hours that have passed again.                                   *)
Aged(d) ==
  {h \in raw[d] : \/ d < today - DEFAULT_RETENTION_DAYS
                  \/ d = today - DEFAULT_RETENTION_DAYS /\ (h = "early" \/ half = "late")}

(* Any part of them: an alert in triage or linked to a case stays, and the  *)
(* run goes in batches.                                                     *)
Purge ==
  \E d \in Days : \E gone \in (SUBSET Aged(d)) \ {{}} :
    /\ raw' = [raw EXCEPT ![d] = @ \ gone]
    /\ purged' = purged \cup {d}
    /\ UNCHANGED <<today, half, view, hist, night, indexed, detection, job>>

(* A run is not taken to last longer than a day.                            *)
TimePasses ==
  \/ /\ half = "early" /\ half' = "late"
     /\ UNCHANGED <<today, job>>
  \/ /\ half = "late" /\ half' = "early"
     /\ today < MAX_DAYS /\ today' = today + 1
     /\ \A j \in Jobs : job[j].pc # "none" => job[j].nights = 0
     /\ job' = [j \in Jobs |-> IF job[j].pc = "none" THEN job[j]
                               ELSE [job[j] EXCEPT !.nights = 1]]

Clock == TimePasses /\ UNCHANGED <<raw, purged, view, hist, night, indexed, detection>>

-----------------------------------------------------------------------------
(* Steps 1 and 1b: the materialized view and the alert funnel's history.    *)

Goes(j, pc) == job' = [job EXCEPT ![j].pc = pc]

Backfilled == {d \in Days : hist[d] > 0} # {}

(* The first run of all is not overlapped by another.                       *)
Starts(j) ==
  /\ job[j] = Ended
  /\ Backfilled \/ {k \in Jobs : job[k] # Ended} = {}
  /\ Goes(j, "views")
  /\ UNCHANGED <<today, half, raw, purged, view, hist, night, indexed, detection>>

Refresh(j) ==
  /\ job[j].pc = "views"
  /\ view' = [d \in Days |-> Cardinality(raw[d])]
  /\ Goes(j, "funnel")
  /\ UNCHANGED <<today, half, raw, purged, hist, night, indexed, detection>>

(* A step that fails is passed over; of a view that could not be refreshed  *)
(* nothing is copied.                                                       *)
After(pc) == IF pc \in {"views", "funnel", "upsert"} THEN "snapshot" ELSE "detect"

StepFails(j) ==
  /\ job[j].pc \in {"views", "funnel", "upsert", "snapshot", "write", "detect"}
  /\ job' = [job EXCEPT ![j] =
       IF @.pc = "detect" THEN Ended
       ELSE [Ended EXCEPT !.nights = job[j].nights, !.pc = After(job[j].pc)]]
  /\ UNCHANGED <<today, half, raw, purged, view, hist, night, indexed, detection>>

hist_alert_window_start_no_margin == today - DEFAULT_RETENTION_DAYS

hist_alert_window_start ==
  LET kept == DEFAULT_RETENTION_DAYS - HIST_ALERT_MARGIN_DAYS
  IN today - IF kept > 1 THEN kept ELSE 1

(* The first run of all takes every day there is.                           *)
Source ==
  {d \in Days : view[d] > 0 /\ (Backfilled => d >= hist_alert_window_start)}

ReadFunnel(j) ==
  /\ job[j].pc = "funnel"
  /\ job' = [job EXCEPT ![j].pc = "upsert",
                        ![j].rows = [d \in Source |-> view[d]]]
  /\ UNCHANGED <<today, half, raw, purged, view, hist, night, indexed, detection>>

UpsertFunnel(j) ==
  /\ job[j].pc = "upsert"
  /\ hist' = [d \in Days |-> IF d \in DOMAIN job[j].rows THEN job[j].rows[d] ELSE hist[d]]
  /\ job' = [job EXCEPT ![j].pc = "snapshot", ![j].rows = Ended.rows]
  /\ UNCHANGED <<today, half, raw, purged, view, night, indexed, detection>>

-----------------------------------------------------------------------------
(* Step 2: the night's snapshot tables, deleted and written again in one    *)
(* transaction.  A batch is the rows of one run.                            *)

(* Rows another transaction has deleted and not committed are waited for,   *)
(* and gone when it has.                                                    *)
HeldByOthers(j, date) ==
  UNION {job[k].saw : k \in {i \in Jobs \ {j} : job[i].pc = "write" /\ job[i].date = date}}

(* What the others see of the night meanwhile: what it was.                 *)
Visible_autocommit(j) == [night EXCEPT ![today] = HeldByOthers(j, today)]

Visible(j) == night

DeleteNight(j) ==
  /\ job[j].pc = "snapshot"
  /\ job' = [job EXCEPT ![j].pc = "write", ![j].date = today,
                        ![j].saw = night[today] \ HeldByOthers(j, today)]
  /\ night' = Visible(j)
  /\ UNCHANGED <<today, half, raw, purged, view, hist, indexed, detection>>

(* A batch the transaction's own delete did not see breaks                  *)
(* snapshot_kpi_daily's unique date: the step fails and is rolled back.     *)
Conflicting_per_grain(j) == {}

Conflicting(j) == night[job[j].date] \ job[j].saw

WriteNight(j) ==
  /\ job[j].pc = "write" /\ Conflicting(j) = {}
  /\ HeldByOthers(j, job[j].date) = {}
  /\ night' = [night EXCEPT ![job[j].date] = (@ \ job[j].saw) \cup {<<j, job[j].nights, half>>}]
  /\ job' = [job EXCEPT ![j].pc = "detect", ![j].saw = {}, ![j].date = 0]
  /\ UNCHANGED <<today, half, raw, purged, view, hist, indexed, detection>>

-----------------------------------------------------------------------------
(* Step 3: the Indexer's roll-up.  `now-Nd/d` rounds to the UTC day, so the *)
(* range begins at 07:00 of its first local day: at the job's hour, before  *)
(* 07:00, one local day more, cut at 07:00.                                 *)

FirstDay == today - DETECTION_DAYS - (IF half = "early" THEN 1 ELSE 0)

InRange(d) ==
  IF d = FirstDay THEN indexed[d] \cap {"late"}
  ELSE IF d > FirstDay THEN indexed[d] ELSE {}

fetch_detection_daily(j) ==
  /\ job[j].pc = "detect"
  /\ detection' = [d \in Days |-> IF InRange(d) # {} THEN Cardinality(InRange(d))
                                  ELSE detection[d]]
  /\ job' = [job EXCEPT ![j] = Ended]
  /\ UNCHANGED <<today, half, raw, purged, view, hist, night, indexed>>

(* The process dies; an open transaction is rolled back.                    *)
Dies(j) ==
  /\ job[j] # Ended
  /\ job' = [job EXCEPT ![j] = Ended]
  /\ UNCHANGED <<today, half, raw, purged, view, hist, night, indexed, detection>>

Next ==
  \/ AlertArrives \/ Purge \/ Clock
  \/ \E j \in Jobs : \/ Starts(j) \/ Refresh(j) \/ StepFails(j)
                     \/ ReadFunnel(j) \/ UpsertFunnel(j)
                     \/ DeleteNight(j) \/ WriteNight(j)
                     \/ fetch_detection_daily(j) \/ Dies(j)

Spec == Init /\ [][Next]_vars

-----------------------------------------------------------------------------
(* Properties. *)

Batches == Jobs \X {0, 1} \X Halves
Counts == 0 .. Cardinality(Halves)

(* The tables hold days, counts and batches; a run is at one of its steps.  *)
TypeOK ==
  /\ today \in Days /\ half \in Halves
  /\ raw \in [Days -> SUBSET Halves] /\ indexed \in [Days -> SUBSET Halves]
  /\ purged \subseteq Days
  /\ view \in [Days -> Counts] /\ detection \in [Days -> Counts]
  /\ hist \in [Days -> Counts]
  /\ night \in [Days -> SUBSET Batches]
  /\ \A j \in Jobs :
       /\ job[j].pc \in {"none", "views", "funnel", "upsert", "snapshot", "write", "detect"}
       /\ DOMAIN job[j].rows \subseteq Days
       /\ job[j].date \in Days /\ job[j].saw \subseteq Batches /\ job[j].nights \in {0, 1}

(* A day on which the purge has started is never counted again, so its      *)
(* history does not shrink ("A day the purge has started on would recompute *)
(* LOWER counts"): not by a run that started before midnight, nor by one    *)
(* that copies what it read before another run's copy.                      *)
PurgedDaysKeepTheirCount ==
  [][\A d \in purged : hist'[d] >= hist[d]]_vars

(* However runs overlap, a night's tables hold the rows of one run, and     *)
(* nothing is counted twice: the grains with a NULL user, which no unique   *)
(* constraint covers, included.                                             *)
OneBatchPerNight == \A d \in Days : Cardinality(night[d]) <= 1

(* A night once captured stays captured through re-runs that fail or die    *)
(* between their delete and their insert: it cannot be captured later.      *)
NightNeverLost == [][\A d \in Days : night[d] # {} => night'[d] # {}]_vars

(* What agg_detection_daily holds of a day that "cannot be recomputed once  *)
(* source data ages out" is lowered by a later capture on one day only: the *)
(* first of the range, which the rounding to the UTC day cuts.              *)
DetectionShrinksAtTheEdge ==
  [][\A d \in Days : detection'[d] < detection[d] =>
       d = today - DETECTION_DAYS - (IF half = "early" THEN 1 ELSE 0)]_vars
=============================================================================
