-------------------------- MODULE Reporting_proofs --------------------------
(***************************************************************************)
(* Theorems about Reporting, for any number of runs, days and retention    *)
(* windows, and about Dashboards, for any tickets, alerts and requests.    *)
(*                                                                         *)
(* The argument for the alert funnel's history: a run reads the days of    *)
(* its window and copies them at most one midnight later, and the window   *)
(* with its margin ends before the day the purge can reach by then.  Only  *)
(* the first run of all reads further back, and nothing is on record then. *)
(*                                                                         *)
(* The argument for the pages: what a query says of a ticket depends on    *)
(* that ticket's row alone, so of a ticket whose row has not moved since   *)
(* the page was opened every query that has run says what it would say     *)
(* now, in whatever order the queries and the other tickets' moves came.   *)
(***************************************************************************)
EXTENDS Reporting, Dashboards, FiniteSetTheorems, TLAPS

(* The margin covers the day of the edge and the midnight a run may cross.  *)
MarginCoversARun == HIST_ALERT_MARGIN_DAYS >= 2 /\ DEFAULT_RETENTION_DAYS >= 3

Steps == {"none", "views", "funnel", "upsert", "snapshot", "write", "detect"}

(* What a run copies into the history: a count above zero for each day.     *)
RowSets == UNION {[D -> Counts \ {0}] : D \in SUBSET Days}

Job == [pc : Steps, rows : RowSets, date : Days, saw : SUBSET Batches, nights : {0, 1}]

TypeInv ==
  /\ today \in Days /\ half \in Halves
  /\ raw \in [Days -> SUBSET Halves] /\ indexed \in [Days -> SUBSET Halves]
  /\ purged \subseteq Days
  /\ view \in [Days -> Counts] /\ detection \in [Days -> Counts]
  /\ hist \in [Days -> Counts]
  /\ night \in [Days -> SUBSET Batches]
  /\ job \in [Jobs -> Job]

Window == IF DEFAULT_RETENTION_DAYS - HIST_ALERT_MARGIN_DAYS > 1
          THEN DEFAULT_RETENTION_DAYS - HIST_ALERT_MARGIN_DAYS ELSE 1

(* Until the history has a row, at most one run is under way.               *)
FirstRunIsAlone ==
  ~Backfilled => \A j, k \in Jobs : job[j] # Ended /\ job[k] # Ended => j = k

(* The rows a run is about to copy are of its window.                       *)
RowsAreRecent ==
  Backfilled => \A j \in Jobs : job[j].pc = "upsert" =>
    \A d \in DOMAIN job[j].rows : d >= today - job[j].nights - Window

PurgedAreOld == \A d \in purged : d <= today - DEFAULT_RETENTION_DAYS

OneBatch == \A d \in Days : \A x, y \in night[d] : x = y

(* The detections on record were all in the Indexer.                        *)
DetectionIsIndexed == \A d \in Days : detection[d] <= Cardinality(indexed[d])

IInv ==
  /\ TypeInv
  /\ FirstRunIsAlone
  /\ RowsAreRecent
  /\ PurgedAreOld
  /\ OneBatch
  /\ DetectionIsIndexed

-----------------------------------------------------------------------------
LEMMA Sizes ==
  ASSUME NEW S, S \subseteq Halves
  PROVE  /\ IsFiniteSet(S) /\ Cardinality(S) \in Counts /\ Cardinality(S) \in Nat
         /\ \A T \in SUBSET S : Cardinality(T) <= Cardinality(S)
         /\ Cardinality(S) = 0 <=> S = {}
<1>1. IsFiniteSet(Halves)
  <2>1. Halves = ({} \cup {"early"}) \cup {"late"}
    BY DEF Halves
  <2> QED
    BY <2>1, FS_EmptySet, FS_AddElement
<1>2. /\ IsFiniteSet(S) /\ Cardinality(S) <= Cardinality(Halves)
      /\ \A T \in SUBSET S : Cardinality(T) <= Cardinality(S)
  BY <1>1, FS_Subset
<1>3. Cardinality(S) \in Nat /\ Cardinality(Halves) \in Nat
  BY <1>1, <1>2, FS_CardinalityType
<1> QED
  BY <1>2, <1>3, FS_EmptySet DEF Counts

LEMMA BasicTypes ==
  /\ Days \subseteq Nat /\ Counts \subseteq Nat /\ 0 \in Days /\ 0 \in Counts
  /\ DEFAULT_RETENTION_DAYS \in Nat /\ HIST_ALERT_MARGIN_DAYS \in Nat /\ DETECTION_DAYS \in Nat
  /\ MAX_DAYS \in Nat /\ Window \in Nat /\ Cardinality(Halves) \in Nat
<1>1. Cardinality(Halves) \in Nat
  BY Sizes
<1> QED
  BY <1>1, Retention DEF Days, Counts, Window

LEMMA EndedType ==
  /\ Ended \in Job
  /\ Ended.pc = "none" /\ Ended.rows \in RowSets /\ Ended.nights = 0
  /\ \A n \in {0, 1}, p \in Steps :
       [Ended EXCEPT !.nights = n, !.pc = p] \in Job
<1>1. [d \in {} |-> 0] \in RowSets
  <2>1. [d \in {} |-> 0] \in [{} -> Counts \ {0}] /\ {} \in SUBSET Days
    OBVIOUS
  <2> QED
    BY <2>1 DEF RowSets
<1> QED
  BY <1>1, BasicTypes DEF Ended, Job, Steps

LEMMA InitIInv == Init => IInv
<1> SUFFICES ASSUME Init PROVE IInv
  OBVIOUS
<1> USE BasicTypes, EndedType
<1>1. TypeInv
  BY DEF Init, TypeInv, Halves
<1>2. FirstRunIsAlone /\ RowsAreRecent
  BY DEF Init, FirstRunIsAlone, RowsAreRecent
<1>3. PurgedAreOld /\ OneBatch
  BY DEF Init, PurgedAreOld, OneBatch
<1>4. DetectionIsIndexed
  BY Sizes DEF Init, DetectionIsIndexed
<1> QED
  BY <1>1, <1>2, <1>3, <1>4 DEF IInv

(* The day's own steps.                                                     *)
LEMMA DaySteps ==
  ASSUME IInv, AlertArrives \/ Purge \/ Clock
  PROVE  IInv' /\ UNCHANGED <<hist, night, detection>>
<1>0. UNCHANGED <<hist, night, detection, view>>
  BY DEF AlertArrives, Purge, Clock
<1>1. CASE AlertArrives \/ Purge
  <2>1. UNCHANGED <<today, half, job>>
    BY <1>1 DEF AlertArrives, Purge
  <2>2. /\ raw' \in [Days -> SUBSET Halves] /\ indexed' \in [Days -> SUBSET Halves]
        /\ purged' \subseteq Days /\ PurgedAreOld'
        /\ \A d \in Days : indexed[d] \subseteq indexed'[d]
    <3>1. CASE AlertArrives
      <4>1. /\ raw' = [raw EXCEPT ![today] = @ \cup {half}]
            /\ indexed' = [indexed EXCEPT ![today] = @ \cup {half}]
            /\ purged' = purged
        BY <3>1 DEF AlertArrives
      <4>2. /\ raw \in [Days -> SUBSET Halves] /\ indexed \in [Days -> SUBSET Halves]
            /\ today \in Days /\ half \in Halves
        BY DEF IInv, TypeInv
      <4>3. raw[today] \cup {half} \in SUBSET Halves /\ indexed[today] \cup {half} \in SUBSET Halves
        BY <4>2
      <4>4. raw' \in [Days -> SUBSET Halves] /\ indexed' \in [Days -> SUBSET Halves]
        BY <4>1, <4>2, <4>3
      <4>5. \A d \in Days : indexed[d] \subseteq indexed'[d]
        BY <4>1, <4>2
      <4> QED
        BY <2>1, <4>1, <4>4, <4>5 DEF IInv, TypeInv, PurgedAreOld
    <3>2. CASE Purge
      <4> PICK d \in Days : \E gone \in (SUBSET Aged(d)) \ {{}} :
            /\ raw' = [raw EXCEPT ![d] = @ \ gone]
            /\ purged' = purged \cup {d}
            /\ indexed' = indexed
        BY <3>2 DEF Purge
      <4> PICK gone \in (SUBSET Aged(d)) \ {{}} :
            /\ raw' = [raw EXCEPT ![d] = @ \ gone]
            /\ purged' = purged \cup {d}
            /\ indexed' = indexed
        OBVIOUS
      <4>1. d <= today - DEFAULT_RETENTION_DAYS
        <5>1. PICK h : h \in Aged(d)
          <6>1. gone \subseteq Aged(d) /\ gone # {}
            OBVIOUS
          <6> QED
            BY <6>1
        <5>2. d < today - DEFAULT_RETENTION_DAYS \/ d = today - DEFAULT_RETENTION_DAYS
          BY <5>1 DEF Aged
        <5>3. d \in Nat /\ today \in Nat /\ DEFAULT_RETENTION_DAYS \in Nat
          BY BasicTypes DEF IInv, TypeInv
        <5> QED
          BY <5>2, <5>3
      <4> QED
        BY <2>1, <4>1 DEF IInv, TypeInv, PurgedAreOld
    <3> QED
      BY <1>1, <3>1, <3>2
  <2>3. TypeInv'
    BY <1>0, <2>1, <2>2 DEF IInv, TypeInv
  <2>4. FirstRunIsAlone' /\ RowsAreRecent' /\ OneBatch'
    BY <1>0, <2>1 DEF IInv, FirstRunIsAlone, RowsAreRecent, OneBatch, Backfilled
  <2>5. DetectionIsIndexed'
    <3>1. ASSUME NEW d \in Days
          PROVE  detection[d] <= Cardinality(indexed'[d])
      <4>1. indexed'[d] \subseteq Halves /\ indexed[d] \in SUBSET indexed'[d]
            /\ indexed[d] \subseteq Halves
        BY <2>2 DEF IInv, TypeInv
      <4>2. /\ Cardinality(indexed[d]) \in Nat /\ Cardinality(indexed'[d]) \in Nat
            /\ Cardinality(indexed[d]) <= Cardinality(indexed'[d])
        BY <4>1, Sizes
      <4>3. detection[d] \in Nat
        BY BasicTypes DEF IInv, TypeInv
      <4> QED
        BY <4>2, <4>3 DEF IInv, DetectionIsIndexed
    <3> QED
      BY <1>0, <3>1 DEF DetectionIsIndexed
  <2> QED
    BY <1>0, <2>2, <2>3, <2>4, <2>5 DEF IInv
<1>2. CASE Clock
  <2>1. UNCHANGED <<raw, purged, indexed>>
    BY <1>2 DEF Clock
  <2>2. /\ today' \in Days /\ half' \in Halves /\ job' \in [Jobs -> Job]
        /\ today' >= today
        /\ \A j \in Jobs : /\ job'[j].pc = job[j].pc /\ job'[j].rows = job[j].rows
                           /\ (job'[j] # Ended => job[j] # Ended)
                           /\ job[j].pc = "upsert" =>
                                today' - job'[j].nights = today - job[j].nights
    <3>1. CASE half = "early"
      <4>1. half' = "late" /\ today' = today /\ job' = job
        BY <1>2, <3>1 DEF Clock, TimePasses
      <4>2. today \in Days /\ today \in Nat /\ job \in [Jobs -> Job]
        BY BasicTypes DEF IInv, TypeInv
      <4> QED
        BY <4>1, <4>2 DEF Halves
    <3>2. CASE half = "late"
      <4>1. /\ half' = "early" /\ today' = today + 1 /\ today < MAX_DAYS
            /\ \A j \in Jobs : job[j].pc # "none" => job[j].nights = 0
            /\ job' = [j \in Jobs |-> IF job[j].pc = "none" THEN job[j]
                                      ELSE [job[j] EXCEPT !.nights = 1]]
        BY <1>2, <3>2 DEF Clock, TimePasses
      <4>2. today' \in Days /\ today' >= today /\ half' \in Halves
        <5>1. today \in Nat /\ today + 1 \in Days
          BY <4>1, BasicTypes DEF IInv, TypeInv, Days
        <5> QED
          BY <4>1, <5>1 DEF Halves
      <4>3. ASSUME NEW j \in Jobs
            PROVE  /\ job'[j] \in Job
                   /\ job'[j].pc = job[j].pc /\ job'[j].rows = job[j].rows
                   /\ job[j].pc = "none" => job'[j] = job[j]
                   /\ job[j].pc # "none" => job'[j].nights = 1 /\ job[j].nights = 0
        <5>1. job[j] \in Job
          BY DEF IInv, TypeInv
        <5> QED
          BY <4>1, <5>1 DEF Job
      <4>4. job' \in [Jobs -> Job]
        BY <4>1, <4>3
      <4>5. ASSUME NEW j \in Jobs
            PROVE  job'[j] # Ended => job[j] # Ended
        BY <4>3, EndedType
      <4>6. ASSUME NEW j \in Jobs, job[j].pc = "upsert"
            PROVE  today' - job'[j].nights = today - job[j].nights
        <5>1. today \in Nat /\ today' = today + 1 /\ job'[j].nights = 1 /\ job[j].nights = 0
          BY <4>1, <4>3, <4>6, BasicTypes DEF IInv, TypeInv
        <5>2. (today + 1) - 1 = today - 0
          BY <5>1
        <5> QED
          BY <5>1, <5>2, Zenon
      <4> QED
        BY <4>2, <4>3, <4>4, <4>5, <4>6
    <3> QED
      BY <3>1, <3>2 DEF IInv, TypeInv, Halves
  <2>3. TypeInv'
    BY <1>0, <2>1, <2>2 DEF IInv, TypeInv
  <2>4. FirstRunIsAlone' /\ RowsAreRecent' /\ OneBatch'
    BY <1>0, <2>2 DEF IInv, FirstRunIsAlone, RowsAreRecent, OneBatch, Backfilled
  <2>5. PurgedAreOld'
    <3>1. ASSUME NEW d \in purged
          PROVE  d <= today' - DEFAULT_RETENTION_DAYS
      <4>1. /\ d \in Nat /\ today \in Nat /\ today' \in Nat /\ today' >= today
            /\ DEFAULT_RETENTION_DAYS \in Nat
        BY <2>2, BasicTypes DEF IInv, TypeInv
      <4>2. d <= today - DEFAULT_RETENTION_DAYS
        BY DEF IInv, PurgedAreOld
      <4>3. PICK t \in Nat : t = today'
        BY <4>1
      <4>4. d <= t - DEFAULT_RETENTION_DAYS
        <5>1. today <= t
          BY <4>1, <4>3
        <5>2. d \in Nat /\ today \in Nat /\ DEFAULT_RETENTION_DAYS \in Nat
          BY <4>1
        <5> QED
          BY <4>2, <5>1, <5>2
      <4> QED
        BY <4>3, <4>4, Zenon
    <3> QED
      BY <2>1, <3>1 DEF PurgedAreOld
  <2>6. DetectionIsIndexed'
    BY <1>0, <2>1 DEF IInv, DetectionIsIndexed
  <2> QED
    BY <1>0, <2>3, <2>4, <2>5, <2>6 DEF IInv
<1> QED
  BY <1>1, <1>2

(* A step of one run that leaves the history alone, and what its copy holds. *)
LEMMA JobStep ==
  ASSUME IInv, NEW j \in Jobs, NEW n \in Job, job' = [job EXCEPT ![j] = n],
         n # Ended => (job[j] # Ended \/ Backfilled
                       \/ \A k \in Jobs : job[k] = Ended),
         n.pc = "upsert" /\ Backfilled =>
           \A d \in DOMAIN n.rows : d >= today - n.nights - Window,
         UNCHANGED <<today, half, raw, purged, hist, indexed>>,
         view' \in [Days -> Counts],
         night' \in [Days -> SUBSET Batches],
         \A d \in Days : night'[d] = night[d] \/ \E x : night'[d] = {x},
         detection' \in [Days -> Counts],
         \A d \in Days : detection'[d] <= Cardinality(indexed[d])
  PROVE  IInv'
<1>1. TypeInv'
  BY DEF IInv, TypeInv
<1>2. \A k \in Jobs : job'[k] = IF k = j THEN n ELSE job[k]
  BY DEF IInv, TypeInv
<1>3. Backfilled' <=> Backfilled
  BY DEF Backfilled
<1>4. FirstRunIsAlone'
  BY <1>2, <1>3 DEF IInv, FirstRunIsAlone
<1>5. RowsAreRecent'
  BY <1>2, <1>3 DEF IInv, RowsAreRecent
<1>6. PurgedAreOld' /\ DetectionIsIndexed'
  BY DEF IInv, PurgedAreOld, DetectionIsIndexed
<1>7. OneBatch'
  BY DEF IInv, OneBatch
<1> QED
  BY <1>1, <1>4, <1>5, <1>6, <1>7 DEF IInv

(* The steps of a run other than its copy into the history.                 *)
LEMMA RunSteps ==
  ASSUME IInv, NEW j \in Jobs,
         \/ Starts(j) \/ Refresh(j) \/ StepFails(j) \/ ReadFunnel(j)
         \/ DeleteNight(j) \/ WriteNight(j) \/ fetch_detection_daily(j) \/ Dies(j)
  PROVE  IInv' /\ UNCHANGED hist
<1>0. /\ job[j] \in Job /\ job \in [Jobs -> Job] /\ today \in Days
      /\ view \in [Days -> Counts] /\ night \in [Days -> SUBSET Batches]
      /\ detection \in [Days -> Counts]
      /\ \A d \in Days : detection[d] <= Cardinality(indexed[d])
      /\ UNCHANGED <<today, half, raw, purged, hist, indexed>>
      /\ half \in Halves
  BY DEF IInv, TypeInv, DetectionIsIndexed, Starts, Refresh, StepFails, ReadFunnel,
         DeleteNight, WriteNight, fetch_detection_daily, Dies
<1>1. ASSUME NEW p \in Steps \ {"none", "upsert"}, job' = [job EXCEPT ![j].pc = p],
             job[j] # Ended \/ Backfilled \/ \A k \in Jobs : job[k] = Ended,
             view' \in [Days -> Counts], night' = night, detection' = detection
      PROVE  IInv'
  <2> DEFINE n == [job[j] EXCEPT !.pc = p]
  <2>1. n \in Job /\ n.pc = p /\ job' = [job EXCEPT ![j] = n]
    BY <1>0, <1>1 DEF Job
  <2> HIDE DEF n
  <2> QED
    BY <1>0, <1>1, <2>1, JobStep
<1>2. ASSUME NEW n \in Job, n = Ended \/ (job[j] # Ended /\ n.pc # "upsert"),
             job' = [job EXCEPT ![j] = n], night' = night, UNCHANGED view,
             detection' \in [Days -> Counts],
             \A d \in Days : detection'[d] <= Cardinality(indexed[d])
      PROVE  IInv'
  BY <1>0, <1>2, JobStep, EndedType
<1>3. CASE Starts(j)
  <2>1. /\ job' = [job EXCEPT ![j].pc = "views"]
        /\ Backfilled \/ \A k \in Jobs : job[k] = Ended
        /\ UNCHANGED <<view, night, detection>>
    BY <1>3 DEF Starts, Goes
  <2>2. "views" \in Steps \ {"none", "upsert"}
    BY DEF Steps
  <2> QED
    BY <1>0, <1>1, <2>1, <2>2
<1>4. CASE Refresh(j)
  <2>1. view' = [d \in Days |-> Cardinality(raw[d])] /\ job[j] # Ended
    BY <1>4, EndedType DEF Refresh
  <2>2. \A d \in Days : raw[d] \subseteq Halves
    BY DEF IInv, TypeInv
  <2>3. view' \in [Days -> Counts]
    BY <2>1, <2>2, Sizes
  <2> QED
    BY <1>0, <1>1, <1>4, <2>1, <2>3 DEF Refresh, Goes, Steps
<1>5. CASE StepFails(j)
  <2>1. job[j].nights \in {0, 1} /\ After(job[j].pc) \in Steps \ {"upsert"}
    BY <1>0 DEF Job, After, Steps
  <2> DEFINE m == [Ended EXCEPT !.nights = job[j].nights, !.pc = After(job[j].pc)]
  <2>2. m \in Job /\ m.pc # "upsert"
    <3>1. m \in Job
      BY <2>1, EndedType
    <3>2. m.pc = After(job[j].pc)
      BY DEF Ended
    <3> QED
      BY <2>1, <3>1, <3>2
  <2>3. job[j] # Ended
    BY <1>5, EndedType DEF StepFails
  <2>4. \E n \in {Ended, m} : job' = [job EXCEPT ![j] = n]
    BY <1>0, <1>5 DEF StepFails
  <2> HIDE DEF m
  <2> QED
    BY <1>0, <1>2, <1>5, <2>2, <2>3, <2>4, EndedType DEF StepFails
<1>6. CASE ReadFunnel(j)
  <2> DEFINE rows == [d \in Source |-> view[d]]
             n == [job[j] EXCEPT !.pc = "upsert", !.rows = rows]
  <2>1. rows \in RowSets /\ DOMAIN rows = Source
    <3>1. \A d \in Source : d \in Days /\ view[d] \in Counts \ {0}
      <4>1. \A d \in Source : d \in Days /\ view[d] \in Counts /\ view[d] > 0
        BY <1>0 DEF Source
      <4> QED
        BY <4>1 DEF Counts
    <3>2. Source \in SUBSET Days /\ rows \in [Source -> Counts \ {0}]
      BY <3>1
    <3> QED
      BY <3>2 DEF RowSets
  <2>2. Backfilled => \A d \in Source : d >= today - Window
    <3>1. hist_alert_window_start = today - Window
      BY DEF hist_alert_window_start, Window
    <3> QED
      BY <3>1 DEF Source
  <2> HIDE DEF rows
  <2>3. /\ n \in Job /\ n.pc = "upsert" /\ n.rows = rows /\ n.nights = job[j].nights
    BY <1>0, <2>1 DEF Job, Steps
  <2>4. job' = [job EXCEPT ![j] = n] /\ job[j] # Ended
    BY <1>0, <1>6, EndedType DEF ReadFunnel, rows
  <2>5. job[j].nights \in {0, 1}
    BY <1>0 DEF Job
  <2> HIDE DEF n
  <2>6. n.pc = "upsert" /\ Backfilled =>
          \A d \in DOMAIN n.rows : d >= today - n.nights - Window
    <3>1. Source \subseteq Nat /\ today \in Nat
      BY <1>0, BasicTypes DEF Source
    <3>2. ASSUME Backfilled, NEW d \in Source
          PROVE  d >= today - n.nights - Window
      <4>1. d \in Nat /\ today \in Nat /\ Window \in Nat /\ n.nights \in {0, 1}
        BY <2>3, <2>5, <3>1, BasicTypes
      <4>2. d >= today - Window
        BY <2>2, <3>2
      <4> QED
        BY <4>1, <4>2
    <3> QED
      BY <2>1, <2>3, <3>2
  <2>7. UNCHANGED <<view, night, detection>>
    BY <1>6 DEF ReadFunnel
  <2> QED
    BY <1>0, <2>3, <2>4, <2>6, <2>7, JobStep
<1>7. CASE DeleteNight(j)
  <2> DEFINE saw == night[today] \ HeldByOthers(j, today)
             n == [job[j] EXCEPT !.pc = "write", !.date = today, !.saw = saw]
  <2>1. saw \in SUBSET Batches
    <3>1. night[today] \in SUBSET Batches
      BY <1>0
    <3> QED
      BY <3>1
  <2> HIDE DEF saw
  <2>2. n \in Job /\ n.pc = "write"
    BY <1>0, <2>1 DEF Job, Steps
  <2>3. job' = [job EXCEPT ![j] = n] /\ job[j] # Ended
    BY <1>0, <1>7, EndedType DEF DeleteNight, saw
  <2> HIDE DEF n
  <2> QED
    BY <1>0, <1>2, <1>7, <2>2, <2>3 DEF DeleteNight, Visible
<1>8. CASE WriteNight(j)
  <2> DEFINE x == <<j, job[j].nights, half>>
             date == job[j].date
             n == [job[j] EXCEPT !.pc = "detect", !.saw = {}, !.date = 0]
  <2>1. x \in Batches /\ date \in Days
    BY <1>0 DEF Job, Batches
  <2>2. night[date] \ job[j].saw = {}
    BY <1>8 DEF WriteNight, Conflicting
  <2>3. night' = [night EXCEPT ![date] = {x}]
    <3>1. night' = [night EXCEPT ![date] = (night[date] \ job[j].saw) \cup {x}]
      BY <1>0, <1>8, <2>1 DEF WriteNight
    <3> HIDE DEF x, date
    <3> QED
      BY <2>2, <3>1
  <2>4. n \in Job /\ n.pc = "detect" /\ job' = [job EXCEPT ![j] = n] /\ job[j] # Ended
    <3>1. 0 \in Days /\ "detect" \in Steps /\ {} \in SUBSET Batches
      BY BasicTypes DEF Steps
    <3>2. n \in Job /\ n.pc = "detect"
      BY <1>0, <3>1 DEF Job
    <3>3. job' = [job EXCEPT ![j] = n] /\ job[j].pc = "write"
      BY <1>0, <1>8 DEF WriteNight
    <3> QED
      BY <3>2, <3>3, EndedType
  <2> HIDE DEF x, date, n
  <2>5. /\ night' \in [Days -> SUBSET Batches]
        /\ \A d \in Days : night'[d] = night[d] \/ \E y : night'[d] = {y}
    BY <1>0, <2>1, <2>3
  <2>6. UNCHANGED <<view, detection>>
    BY <1>8 DEF WriteNight
  <2> QED
    BY <1>0, <2>4, <2>5, <2>6, JobStep
<1>9. CASE fetch_detection_daily(j)
  <2>1. detection' = [d \in Days |-> IF InRange(d) # {} THEN Cardinality(InRange(d))
                                     ELSE detection[d]]
    BY <1>9 DEF fetch_detection_daily
  <2>2. ASSUME NEW d \in Days
        PROVE  /\ Cardinality(InRange(d)) \in Counts
               /\ Cardinality(InRange(d)) <= Cardinality(indexed[d])
    <3>1. indexed[d] \subseteq Halves
      BY DEF IInv, TypeInv
    <3>2. InRange(d) \in SUBSET indexed[d] /\ InRange(d) \subseteq Halves
      BY <3>1 DEF InRange
    <3> QED
      BY <3>1, <3>2, Sizes
  <2>3. /\ detection' \in [Days -> Counts]
        /\ \A d \in Days : detection'[d] <= Cardinality(indexed[d])
    BY <1>0, <2>1, <2>2
  <2> QED
    BY <1>0, <1>2, <1>9, <2>3, EndedType DEF fetch_detection_daily
<1>10. CASE Dies(j)
  BY <1>0, <1>2, <1>10, EndedType DEF Dies
<1> QED
  BY <1>0, <1>3, <1>4, <1>5, <1>6, <1>7, <1>8, <1>9, <1>10

LEMMA MarginIsEnough == MarginCoversARun => Window + 1 < DEFAULT_RETENTION_DAYS
  BY Retention DEF MarginCoversARun, Window

(* The copy: with the margin, none of its rows is of a day the purge has    *)
(* reached, unless it is the first of all.                                  *)
LEMMA CopyStep ==
  ASSUME IInv, NEW j \in Jobs, UpsertFunnel(j)
  PROVE  /\ IInv'
         /\ MarginCoversARun => \A d \in purged : hist'[d] >= hist[d]
<1> DEFINE rows == job[j].rows
           n == [job[j] EXCEPT !.pc = "snapshot", !.rows = Ended.rows]
<1>0. /\ job[j] \in Job /\ job \in [Jobs -> Job] /\ job[j] # Ended /\ job[j].pc = "upsert"
      /\ hist \in [Days -> Counts]
      /\ hist' = [d \in Days |-> IF d \in DOMAIN rows THEN rows[d] ELSE hist[d]]
      /\ UNCHANGED <<today, half, raw, purged, view, night, indexed, detection>>
  BY EndedType DEF UpsertFunnel, IInv, TypeInv
<1>1. /\ DOMAIN rows \subseteq Days
      /\ \A d \in DOMAIN rows : rows[d] \in Counts \ {0}
  <2>1. rows \in RowSets
    BY <1>0 DEF Job
  <2> HIDE DEF rows
  <2>2. PICK D \in SUBSET Days : rows \in [D -> Counts \ {0}]
    BY <2>1 DEF RowSets
  <2> QED
    BY <2>2
<1>2. n \in Job /\ n.pc = "snapshot" /\ job' = [job EXCEPT ![j] = n]
  <2>1. Ended.rows \in RowSets /\ "snapshot" \in Steps
    BY EndedType DEF Steps
  <2>2. n \in Job /\ n.pc = "snapshot"
    BY <1>0, <2>1 DEF Job
  <2>3. job' = [job EXCEPT ![j] = n]
    BY <1>0 DEF UpsertFunnel
  <2> QED
    BY <2>2, <2>3
<1> HIDE DEF rows, n
<1>3. \A k \in Jobs : job'[k] = IF k = j THEN n ELSE job[k]
  BY <1>0, <1>2
<1>4. hist' \in [Days -> Counts]
  BY <1>0, <1>1
<1>5. Backfilled => Backfilled'
  <2>1. \A d \in Days : hist[d] > 0 => hist'[d] > 0
    <3>1. \A d \in DOMAIN rows : rows[d] > 0
      BY <1>1, BasicTypes DEF Counts
    <3> QED
      BY <1>0, <3>1
  <2> QED
    BY <2>1 DEF Backfilled
<1>6. TypeInv'
  BY <1>0, <1>2, <1>4 DEF IInv, TypeInv
<1>7. FirstRunIsAlone'
  BY <1>0, <1>3, <1>5 DEF IInv, FirstRunIsAlone
<1>8. RowsAreRecent'
  <2>1. CASE Backfilled
    BY <1>0, <1>2, <1>3, <2>1 DEF IInv, RowsAreRecent
  <2>2. CASE ~Backfilled
    <3>1. \A k \in Jobs : k # j => job[k] = Ended
      BY <1>0, <2>2 DEF IInv, FirstRunIsAlone
    <3> QED
      BY <1>2, <1>3, <3>1, EndedType DEF RowsAreRecent
  <2> QED
    BY <2>1, <2>2
<1>9. PurgedAreOld' /\ OneBatch' /\ DetectionIsIndexed'
  BY <1>0 DEF IInv, PurgedAreOld, OneBatch, DetectionIsIndexed
<1>10. ASSUME MarginCoversARun, NEW d \in purged
       PROVE  hist'[d] >= hist[d]
  <2>1. d \in Days /\ d <= today - DEFAULT_RETENTION_DAYS /\ today \in Nat
        /\ job[j].nights \in {0, 1}
    BY <1>0, BasicTypes DEF IInv, TypeInv, PurgedAreOld, Job
  <2>2. CASE Backfilled
    <3>1. d \in DOMAIN rows => d >= today - job[j].nights - Window
      BY <1>0, <2>2 DEF rows, IInv, RowsAreRecent
    <3>2. Window + 1 < DEFAULT_RETENTION_DAYS
      BY <1>10, MarginIsEnough
    <3>3. d \notin DOMAIN rows
      BY <2>1, <3>1, <3>2, BasicTypes
    <3> QED
      <4>1. hist[d] \in Nat /\ hist'[d] = hist[d]
        BY <1>0, <2>1, <3>3, BasicTypes
      <4> QED
        BY <4>1
  <2>3. CASE ~Backfilled
    <3>1. ~(hist[d] > 0)
      BY <2>1, <2>3 DEF Backfilled
    <3>2. hist[d] \in Nat /\ hist'[d] \in Nat
      BY <1>0, <1>4, <2>1, BasicTypes
    <3> QED
      BY <3>1, <3>2
  <2> QED
    BY <2>2, <2>3
<1> QED
  BY <1>6, <1>7, <1>8, <1>9, <1>10 DEF IInv

LEMMA NextIInv == IInv /\ [Next]_vars => IInv'
<1> SUFFICES ASSUME IInv, [Next]_vars PROVE IInv'
  OBVIOUS
<1>1. CASE UNCHANGED vars
  BY <1>1 DEF vars, IInv, TypeInv, FirstRunIsAlone, RowsAreRecent, PurgedAreOld, OneBatch,
              DetectionIsIndexed, Backfilled
<1>2. CASE Next
  BY <1>2, DaySteps, RunSteps, CopyStep DEF Next
<1> QED
  BY <1>1, <1>2

LEMMA Invariance == Spec => []IInv
<1>1. Init => IInv
  BY InitIInv
<1>2. IInv /\ [Next]_vars => IInv'
  BY NextIInv
<1> QED
  BY <1>1, <1>2, PTL DEF Spec

-----------------------------------------------------------------------------
(* The mart's tables and the runs' working sets hold values of their types. *)
THEOREM TypeCorrect == Spec => []TypeOK
<1>1. IInv => TypeOK
  <2> SUFFICES ASSUME IInv PROVE TypeOK
    OBVIOUS
  <2>1. ASSUME NEW r \in RowSets
        PROVE  DOMAIN r \subseteq Days
    BY DEF RowSets
  <2>2. ASSUME NEW j \in Jobs
        PROVE  /\ job[j].pc \in Steps /\ DOMAIN job[j].rows \subseteq Days
               /\ job[j].date \in Days /\ job[j].saw \subseteq Batches
               /\ job[j].nights \in {0, 1}
    BY <2>1 DEF IInv, TypeInv, Job
  <2> QED
    BY <2>2 DEF IInv, TypeInv, TypeOK, Steps
<1> QED
  BY <1>1, Invariance, PTL

LEMMA AtMostOne ==
  ASSUME NEW S, \A x, y \in S : x = y
  PROVE  Cardinality(S) <= 1
<1>1. CASE S = {}
  BY <1>1, FS_EmptySet
<1>2. CASE S # {}
  <2>1. PICK x : S = {x}
    BY <1>2
  <2> QED
    BY <2>1, FS_Singleton
<1> QED
  BY <1>1, <1>2

(* A night's snapshot is the work of one run (write_all under the unique    *)
(* date of snapshot_kpi_daily).                                             *)
THEOREM SnapshotIsOneRuns == Spec => []OneBatchPerNight
<1>1. IInv => OneBatchPerNight
  BY AtMostOne DEF IInv, OneBatch, OneBatchPerNight
<1> QED
  BY <1>1, Invariance, PTL

(* A captured night is never lost to a run that fails or dies half way.     *)
THEOREM NightsStay == Spec => NightNeverLost
<1>1. [Next]_vars => [\A d \in Days : night[d] # {} => night'[d] # {}]_vars
  <2> SUFFICES ASSUME Next, NEW d \in Days, night[d] # {}
               PROVE  night'[d] # {}
    OBVIOUS
  <2>1. CASE UNCHANGED night
    BY <2>1
  <2>2. ASSUME NEW j \in Jobs, WriteNight(j)
        PROVE  night'[d] # {}
    <3> DEFINE x == <<j, job[j].nights, half>>
    <3>1. night' = [night EXCEPT ![job[j].date] = (@ \ job[j].saw) \cup {x}]
      BY <2>2 DEF WriteNight
    <3> HIDE DEF x
    <3> QED
      BY <3>1
  <2> QED
    BY <2>1, <2>2 DEF Next, AlertArrives, Purge, Clock, Starts, Refresh, StepFails, ReadFunnel,
       UpsertFunnel, DeleteNight, Visible, fetch_detection_daily, Dies
<1> QED
  BY <1>1, PTL DEF Spec, NightNeverLost

(* With a margin that covers the edge day and a run over midnight, the      *)
(* history of a day the purge has started on does not shrink.               *)
THEOREM PurgedDaysAreNotRecounted ==
  ASSUME MarginCoversARun
  PROVE  Spec => PurgedDaysKeepTheirCount
<1>1. IInv /\ [Next]_vars => [\A d \in purged : hist'[d] >= hist[d]]_vars
  <2> SUFFICES ASSUME IInv, Next
               PROVE  \A d \in purged : hist'[d] >= hist[d]
    OBVIOUS
  <2>1. CASE UNCHANGED hist
    <3>1. \A d \in purged : hist[d] \in Nat
      BY BasicTypes DEF IInv, TypeInv
    <3> QED
      BY <2>1, <3>1
  <2> QED
    <3>1. CASE AlertArrives \/ Purge \/ Clock
      BY <2>1, <3>1, DaySteps
    <3>2. ASSUME NEW j \in Jobs, UpsertFunnel(j)
          PROVE  \A d \in purged : hist'[d] >= hist[d]
      BY <3>2, CopyStep
    <3>3. ASSUME NEW j \in Jobs,
                 \/ Starts(j) \/ Refresh(j) \/ StepFails(j) \/ ReadFunnel(j)
                 \/ DeleteNight(j) \/ WriteNight(j) \/ fetch_detection_daily(j) \/ Dies(j)
          PROVE  UNCHANGED hist
      BY <3>3, RunSteps
    <3> QED
      BY <2>1, <3>1, <3>2, <3>3 DEF Next
<1> QED
  BY <1>1, Invariance, PTL DEF Spec, PurgedDaysKeepTheirCount

(* A capture lowers what is on record of one day only: the first of its     *)
(* range, cut by the rounding to the UTC day.                               *)
THEOREM OnlyTheEdgeShrinks == Spec => DetectionShrinksAtTheEdge
<1>1. IInv /\ [Next]_vars =>
        [\A d \in Days : detection'[d] < detection[d] =>
           d = today - DETECTION_DAYS - (IF half = "early" THEN 1 ELSE 0)]_vars
  <2> SUFFICES ASSUME IInv, Next, NEW d \in Days, detection'[d] < detection[d]
               PROVE  d = FirstDay
    BY DEF FirstDay
  <2>1. detection[d] \in Nat
    BY BasicTypes DEF IInv, TypeInv
  <2>2. CASE UNCHANGED detection
    BY <2>1, <2>2
  <2>3. ASSUME NEW j \in Jobs, fetch_detection_daily(j), d # FirstDay
        PROVE  FALSE
    <3>1. detection'[d] = IF InRange(d) # {} THEN Cardinality(InRange(d)) ELSE detection[d]
      BY <2>3 DEF fetch_detection_daily
    <3>2. InRange(d) = {} \/ InRange(d) = indexed[d]
      BY <2>3 DEF InRange
    <3>3. Cardinality(indexed[d]) \in Nat /\ detection[d] <= Cardinality(indexed[d])
      BY Sizes DEF IInv, TypeInv, DetectionIsIndexed
    <3> QED
      BY <2>1, <3>1, <3>2, <3>3
  <2> QED
    BY <2>2, <2>3 DEF Next, AlertArrives, Purge, Clock, Starts, Refresh, StepFails, ReadFunnel,
       UpsertFunnel, DeleteNight, WriteNight, Dies
<1> QED
  BY <1>1, Invariance, PTL DEF Spec, DetectionShrinksAtTheEdge

(***************************************************************************)
(* What a query says of a ticket depends on that ticket's row.             *)
(***************************************************************************)

LEMMA InPairs ==
    ASSUME NEW S, NEW cell, NEW t, NEW x
    PROVE  <<t, x>> \in In(S, cell) <=> t \in S /\ x = cell
  BY DEF In

LEMMA SameCells ==
    ASSUME NEW S, NEW T, NEW t, \A x : <<t, x>> \in S <=> <<t, x>> \in T
    PROVE  CellsOf(S, t) = CellsOf(T, t)
<1>1. ASSUME NEW A, NEW x
      PROVE  x \in CellsOf(A, t) <=> <<t, x>> \in A
  <2>1. ASSUME <<t, x>> \in A PROVE x \in {y[2] : y \in A}
    <3>1. <<t, x>>[2] = x
      OBVIOUS
    <3> QED
      BY <2>1, <3>1
  <2> QED
    BY <2>1 DEF CellsOf
<1>2. \A x : x \in CellsOf(S, t) <=> x \in CellsOf(T, t)
  BY <1>1
<1> QED
  BY <1>2

LEMMA CellIn ==
    ASSUME NEW A, NEW t, NEW x
    PROVE  x \in CellsOf(A, t) <=> <<t, x>> \in A
<1>1. ASSUME <<t, x>> \in A PROVE x \in {y[2] : y \in A}
  <2>1. <<t, x>>[2] = x
    OBVIOUS
  <2> QED
    BY <1>1, <2>1
<1> QED
  BY <1>1 DEF CellsOf

LEMMA ScopesLocal ==
    ASSUME NEW d, NEW e, NEW c, NEW t \in Tickets, d[t] = e[t]
    PROVE  /\ t \in Active(d) <=> t \in Active(e)
           /\ t \in HighCritical(d) <=> t \in HighCritical(e)
           /\ t \in Overdue(d) <=> t \in Overdue(e)
           /\ t \in Filtered(d, c) <=> t \in Filtered(e, c)
           /\ incident_key(d, t) = incident_key(e, t)
           /\ t \in active_response(d) <=> t \in active_response(e)
           /\ t \in Requested(d) <=> t \in Requested(e)
           /\ t \in Received(d, c) <=> t \in Received(e, c)
           /\ t \in Completed(d, c) <=> t \in Completed(e, c)
           /\ t \in AgedRequests(d) <=> t \in AgedRequests(e)
<1>1. t \in Active(d) <=> t \in Active(e)
  BY DEF Active
<1>2. t \in HighCritical(d) <=> t \in HighCritical(e)
  BY DEF HighCritical
<1>3. t \in Overdue(d) <=> t \in Overdue(e)
  BY DEF Overdue
<1>4. t \in Filtered(d, c) <=> t \in Filtered(e, c)
  BY DEF Filtered
<1>5. incident_key(d, t) = incident_key(e, t)
  BY DEF incident_key
<1>6. t \in active_response(d) <=> t \in active_response(e)
  BY <1>1 DEF active_response
<1>7. t \in Requested(d) <=> t \in Requested(e)
  BY DEF Requested
<1>8. t \in Received(d, c) <=> t \in Received(e, c)
  BY <1>7 DEF Received
<1>9. t \in Completed(d, c) <=> t \in Completed(e, c)
  BY <1>7 DEF Completed
<1>10. t \in AgedRequests(d) <=> t \in AgedRequests(e)
  BY <1>6 DEF AgedRequests
<1> QED
  BY <1>1, <1>2, <1>3, <1>4, <1>5, <1>6, <1>7, <1>8, <1>9, <1>10

\* The SOC dashboard, query by query.
LEMMA DashboardCells ==
    ASSUME NEW d, NEW c, NEW t \in Tickets, NEW x
    PROVE  LET on == t \in Filtered(d, c) /\ t \in Active(d)
               closed == t \in Filtered(d, c) /\ d[t].status \in RESOLVED_STATUSES
               Has(q) == <<t, x>> \in DashboardQuery(q, d, c)
           IN /\ Has("active") <=> on /\ x = "active"
              /\ Has("pipeline") <=> on /\ x = <<d[t].severity, d[t].status>>
              /\ Has("runway") <=> on /\ d[t].deadline # NoDeadline /\ x = bucket_for(d[t].deadline)
              /\ Has("heat") <=> /\ on /\ d[t].assigned_to # NoUser
                                 /\ x = IF d[t].status \in ANALYST_BLOCKED_STATUSES
                                        THEN "blocked" ELSE "load"
              /\ Has("claimed") <=> /\ on /\ d[t].status \in TIER2_QUEUE_STATUSES
                                    /\ d[t].t2_claimed_by # NoUser /\ d[t].assigned_to # NoUser
                                    /\ x = "claimed"
              /\ Has("finished") <=> closed /\ d[t].closers # {} /\ x \in Credited(d[t])
              /\ Has("seeded") <=> closed /\ d[t].closers = {} /\ x \in SeededCredit(d[t])
              /\ Has("unassigned") <=> on /\ d[t].assigned_to = NoUser /\ x = "unassigned"
<1> DEFINE on == t \in Filtered(d, c) /\ t \in Active(d)
           closed == t \in Filtered(d, c) /\ d[t].status \in RESOLVED_STATUSES
           Has(q) == <<t, x>> \in DashboardQuery(q, d, c)
           A == Filtered(d, c) \cap Active(d)
           C == {u \in Filtered(d, c) : d[u].status \in RESOLVED_STATUSES}
<1>1. Has("active") <=> on /\ x = "active"
  <2>1. DashboardQuery("active", d, c) = In(A, "active")
    BY DEF DashboardQuery
  <2> QED
    BY <2>1, InPairs
<1>2. Has("pipeline") <=> on /\ x = <<d[t].severity, d[t].status>>
  <2>1. DashboardQuery("pipeline", d, c) = {<<u, <<d[u].severity, d[u].status>>>> : u \in A}
    BY DEF DashboardQuery
  <2> QED
    BY <2>1
<1>3. Has("runway") <=> on /\ d[t].deadline # NoDeadline /\ x = bucket_for(d[t].deadline)
  <2>1. DashboardQuery("runway", d, c) =
            {<<u, bucket_for(d[u].deadline)>> : u \in {v \in A : d[v].deadline # NoDeadline}}
    BY DEF DashboardQuery, containment_runway
  <2> QED
    BY <2>1
<1>4. Has("heat") <=> /\ on /\ d[t].assigned_to # NoUser
                      /\ x = IF d[t].status \in ANALYST_BLOCKED_STATUSES THEN "blocked" ELSE "load"
  <2>1. DashboardQuery("heat", d, c) =
            {<<u, IF d[u].status \in ANALYST_BLOCKED_STATUSES THEN "blocked" ELSE "load">> :
                u \in {v \in A : d[v].assigned_to # NoUser}}
    BY DEF DashboardQuery
  <2> QED
    BY <2>1
<1>5. Has("claimed") <=> /\ on /\ d[t].status \in TIER2_QUEUE_STATUSES
                         /\ d[t].t2_claimed_by # NoUser /\ d[t].assigned_to # NoUser
                         /\ x = "claimed"
  <2>1. DashboardQuery("claimed", d, c) =
            In({u \in A : /\ d[u].status \in TIER2_QUEUE_STATUSES
                          /\ d[u].t2_claimed_by # NoUser
                          /\ d[u].assigned_to # NoUser}, "claimed")
    BY DEF DashboardQuery
  <2> QED
    BY <2>1, InPairs
<1>6. Has("finished") <=> closed /\ d[t].closers # {} /\ x \in Credited(d[t])
  <2>1. DashboardQuery("finished", d, c) =
            UNION {{u} \X Credited(d[u]) : u \in {v \in C : d[v].closers # {}}}
    BY DEF DashboardQuery
  <2> QED
    BY <2>1
<1>7. Has("seeded") <=> closed /\ d[t].closers = {} /\ x \in SeededCredit(d[t])
  <2>1. DashboardQuery("seeded", d, c) =
            UNION {{u} \X SeededCredit(d[u]) : u \in {v \in C : d[v].closers = {}}}
    BY DEF DashboardQuery
  <2> QED
    BY <2>1
<1>8. Has("unassigned") <=> on /\ d[t].assigned_to = NoUser /\ x = "unassigned"
  <2>1. DashboardQuery("unassigned", d, c) =
            In({u \in A : d[u].assigned_to = NoUser}, "unassigned")
    BY DEF DashboardQuery
  <2> QED
    BY <2>1, InPairs
<1> QED
  BY <1>1, <1>2, <1>3, <1>4, <1>5, <1>6, <1>7, <1>8

\* The executive page: the figures that count tickets.
Ranged(d, c, t) == t \in Filtered(d, c) /\ t \in HighCritical(d)

LEMMA ResponseCells ==
    ASSUME NEW d, NEW c, NEW t \in Tickets, NEW x
    PROVE  /\ <<t, x>> \in response_counts(d, c) <=>
                  \/ x = "ACTIVE" /\ t \in active_response(d)
                  \/ x = "AGED" /\ t \in AgedRequests(d)
                  \/ x = "RECEIVED" /\ t \in Received(d, c)
                  \/ x = "DONE" /\ t \in Completed(d, c)
           /\ \A q \in ResponsePills : t \in response_filtered(d, c, q) <=>
                  /\ c.function # "" => d[t].function = c.function
                  /\ q = "DONE" => t \in Completed(d, c)
                  /\ q = "RECEIVED" => t \in Received(d, c)
                  /\ q = "AGED" => t \in AgedRequests(d)
                  /\ q = "ACTIVE" => t \in active_response(d)
                  /\ q = "HIGH_CRIT" => t \in active_response(d) /\ t \in HighCritical(d)
<1>1. <<t, x>> \in response_counts(d, c) <=>
          \/ x = "ACTIVE" /\ t \in active_response(d)
          \/ x = "AGED" /\ t \in AgedRequests(d)
          \/ x = "RECEIVED" /\ t \in Received(d, c)
          \/ x = "DONE" /\ t \in Completed(d, c)
  BY InPairs DEF response_counts
<1>2. /\ Completed(d, c) \subseteq Tickets /\ Received(d, c) \subseteq Tickets
      /\ AgedRequests(d) \subseteq Tickets /\ active_response(d) \subseteq Tickets
  BY DEF Completed, Received, Requested, AgedRequests, active_response, Active
<1>3. t \in response_filtered(d, c, "DONE") <=>
          t \in Completed(d, c) /\ (c.function # "" => d[t].function = c.function)
  BY DEF response_filtered
<1>4. t \in response_filtered(d, c, "RECEIVED") <=>
          t \in Received(d, c) /\ (c.function # "" => d[t].function = c.function)
  BY DEF response_filtered
<1>5. t \in response_filtered(d, c, "AGED") <=>
          t \in AgedRequests(d) /\ (c.function # "" => d[t].function = c.function)
  BY DEF response_filtered
<1>6. t \in response_filtered(d, c, "ACTIVE") <=>
          t \in active_response(d) /\ (c.function # "" => d[t].function = c.function)
  BY DEF response_filtered
<1>7. t \in response_filtered(d, c, "HIGH_CRIT") <=>
          /\ t \in active_response(d) /\ t \in HighCritical(d)
          /\ c.function # "" => d[t].function = c.function
  BY DEF response_filtered
<1> QED
  BY <1>1, <1>3, <1>4, <1>5, <1>6, <1>7 DEF ResponsePills

LEMMA ExecutiveCells ==
    ASSUME NEW d, NEW c, NEW t \in Tickets, NEW x
    PROVE  LET Has(q) == <<t, x>> \in ExecutiveQuery(q, d, c)
           IN /\ Has("response") <=> <<t, x>> \in response_counts(d, c)
              /\ Has("response_hc") <=> /\ t \in active_response(d) /\ t \in HighCritical(d)
                                        /\ x = "response_hc"
              /\ \A q \in ResponsePills : Has(q) <=> t \in response_filtered(d, c, q) /\ x = q
              /\ Has("OLA_OVERDUE") <=> t \in Active(d) /\ t \in Overdue(d) /\ x = "OLA_OVERDUE"
              /\ Has("RESPONSE_PENDING") <=> t \in active_response(d) /\ x = "RESPONSE_PENDING"
              /\ \A q \in Courts : Has(q) <=>
                    t \in Active(d) /\ d[t].status \in EXEC_COURT_GROUPS(q) /\ x = q
              /\ Has("pipeline") <=> /\ Ranged(d, c, t) /\ x \in Phases
                                     /\ d[t].status \in IR_PHASES(x)
              /\ Has("pipeline_emergency") <=> /\ Ranged(d, c, t) /\ d[t].emergency /\ x \in Phases
                                               /\ d[t].status \in IR_PHASES(x)
              /\ Has("hc_open_tickets") <=> /\ Ranged(d, c, t) /\ t \in Active(d)
                                            /\ x = "open"
<1> DEFINE Has(q) == <<t, x>> \in ExecutiveQuery(q, d, c)
<1>1. Has("response") <=> <<t, x>> \in response_counts(d, c)
  BY DEF ExecutiveQuery, ResponsePills, Courts
<1>2. Has("response_hc") <=> /\ t \in active_response(d) /\ t \in HighCritical(d)
                             /\ x = "response_hc"
  <2>1. ExecutiveQuery("response_hc", d, c) =
            In(active_response(d) \cap HighCritical(d), "response_hc")
    BY DEF ExecutiveQuery, ResponsePills, Courts
  <2> QED
    BY <2>1, InPairs
<1>3. ASSUME NEW q \in ResponsePills
      PROVE  Has(q) <=> t \in response_filtered(d, c, q) /\ x = q
  <2>1. ExecutiveQuery(q, d, c) = In(response_filtered(d, c, q), q)
    BY DEF ExecutiveQuery, ResponsePills, Courts
  <2> QED
    BY <2>1, InPairs
<1>4. Has("OLA_OVERDUE") <=> t \in Active(d) /\ t \in Overdue(d) /\ x = "OLA_OVERDUE"
  <2>1. ExecutiveQuery("OLA_OVERDUE", d, c) = In(Active(d) \cap Overdue(d), "OLA_OVERDUE")
    BY DEF ExecutiveQuery, ResponsePills, Courts
  <2> QED
    BY <2>1, InPairs
<1>5. Has("RESPONSE_PENDING") <=> t \in active_response(d) /\ x = "RESPONSE_PENDING"
  <2>1. ExecutiveQuery("RESPONSE_PENDING", d, c) = In(active_response(d), "RESPONSE_PENDING")
    BY DEF ExecutiveQuery, ResponsePills, Courts
  <2> QED
    BY <2>1, InPairs
<1>6. ASSUME NEW q \in Courts
      PROVE  Has(q) <=> t \in Active(d) /\ d[t].status \in EXEC_COURT_GROUPS(q) /\ x = q
  <2>1. ExecutiveQuery(q, d, c) = In({u \in Active(d) : d[u].status \in EXEC_COURT_GROUPS(q)}, q)
    BY DEF ExecutiveQuery, ResponsePills, Courts
  <2> QED
    BY <2>1, InPairs
<1>7. Has("pipeline") <=> Ranged(d, c, t) /\ x \in Phases /\ d[t].status \in IR_PHASES(x)
  <2>1. ExecutiveQuery("pipeline", d, c) = ByPhase(d, Filtered(d, c) \cap HighCritical(d))
    BY DEF ExecutiveQuery, ResponsePills, Courts
  <2> QED
    BY <2>1 DEF ByPhase, Ranged
<1>8. Has("pipeline_emergency") <=> /\ Ranged(d, c, t) /\ d[t].emergency /\ x \in Phases
                                    /\ d[t].status \in IR_PHASES(x)
  <2>1. ExecutiveQuery("pipeline_emergency", d, c) =
            ByPhase(d, {u \in Filtered(d, c) \cap HighCritical(d) : d[u].emergency})
    BY DEF ExecutiveQuery, ResponsePills, Courts
  <2> QED
    BY <2>1 DEF ByPhase, Ranged
<1>9. Has("hc_open_tickets") <=> Ranged(d, c, t) /\ t \in Active(d) /\ x = "open"
  <2>1. ExecutiveQuery("hc_open_tickets", d, c) =
            In(Filtered(d, c) \cap Active(d) \cap HighCritical(d), "open")
    BY DEF ExecutiveQuery, ResponsePills, Courts
  <2> QED
    BY <2>1, InPairs DEF Ranged
<1> QED
  BY <1>1, <1>2, <1>3, <1>4, <1>5, <1>6, <1>7, <1>8, <1>9

\* The Tier 2 queue, Active Tickets and Ticket History.
LEMMA QueueCells ==
    ASSUME NEW d, NEW c, NEW t, NEW x
    PROVE  LET Has(q) == <<t, x>> \in QueueQuery(q, d, c)
           IN /\ Has("stages") <=> /\ t \in QueueRows(d, c, "", c.claim)
                                   /\ x = QueueStage[d[t].status]
              /\ Has("claims") <=> t \in QueueRows(d, c, c.stage, "") /\ x = "claims"
              /\ Has("unclaimed") <=> t \in QueueRows(d, c, c.stage, "unclaimed") /\ x = "unclaimed"
              /\ Has("mine") <=> t \in QueueRows(d, c, c.stage, "mine") /\ x = "mine"
              /\ Has("rows") <=> t \in QueueRows(d, c, c.stage, c.claim) /\ x = "rows"
              /\ Has("total") <=> /\ t \in QueueRows(d, [c EXCEPT !.severity = ""], "", "")
                                  /\ x = "total"
<1>1. QueueQuery("stages", d, c) = {<<u, QueueStage[d[u].status]>> : u \in QueueRows(d, c, "", c.claim)}
  BY DEF QueueQuery
<1>2. /\ QueueQuery("claims", d, c) = In(QueueRows(d, c, c.stage, ""), "claims")
      /\ QueueQuery("unclaimed", d, c) = In(QueueRows(d, c, c.stage, "unclaimed"), "unclaimed")
      /\ QueueQuery("mine", d, c) = In(QueueRows(d, c, c.stage, "mine"), "mine")
      /\ QueueQuery("rows", d, c) = In(QueueRows(d, c, c.stage, c.claim), "rows")
      /\ QueueQuery("total", d, c) = In(QueueRows(d, [c EXCEPT !.severity = ""], "", ""), "total")
  BY DEF QueueQuery
<1>3. <<t, x>> \in QueueQuery("stages", d, c) <=>
          t \in QueueRows(d, c, "", c.claim) /\ x = QueueStage[d[t].status]
  BY <1>1
<1>4. \A S, cell : <<t, x>> \in In(S, cell) <=> t \in S /\ x = cell
  BY InPairs
<1> QED
  BY ZenonT(30), <1>2, <1>3, <1>4

LEMMA QueueRowsLocal ==
    ASSUME NEW d, NEW e, NEW c, NEW s, NEW k, NEW t, d[t] = e[t]
    PROVE  t \in QueueRows(d, c, s, k) <=> t \in QueueRows(e, c, s, k)
  BY DEF QueueRows

LEMMA ListCells ==
    ASSUME NEW d, NEW c, NEW t, NEW x
    PROVE  /\ <<t, x>> \in ListQuery("rows", d, c) <=>
                  t \in Filtered(d, c) /\ t \in Active(d) /\ x = "rows"
           /\ <<t, x>> \in ListQuery("breach", d, c) <=>
                  t \in Active(d) /\ t \in Overdue(d) /\ x = "breach"
           /\ <<t, x>> \in ListQuery("total", d, c) <=> t \in Active(d) /\ x = "total"
<1>1. /\ ListQuery("rows", d, c) = In(ListRows(d, c, ""), "rows")
      /\ ListQuery("breach", d, c) = In(Active(d) \cap Overdue(d), "breach")
      /\ ListQuery("total", d, c) = In(Active(d), "total")
  BY DEF ListQuery
<1>2. ListRows(d, c, "") = Filtered(d, c) \cap Active(d)
  BY DEF ListRows
<1>3. \A S, cell : <<t, x>> \in In(S, cell) <=> t \in S /\ x = cell
  BY InPairs
<1> QED
  BY <1>1, <1>2, <1>3

LEMMA HistoryCells ==
    ASSUME NEW d, NEW c, NEW t, NEW x
    PROVE  /\ <<t, x>> \in HistoryQuery("pills", d, c) <=>
                  t \in HistoryRows(d, c, "") /\ x = d[t].status
           /\ <<t, x>> \in HistoryQuery("rows", d, c) <=>
                  t \in HistoryRows(d, c, c.status) /\ x = "rows"
<1>1. HistoryQuery("pills", d, c) = {<<u, d[u].status>> : u \in HistoryRows(d, c, "")}
  BY DEF HistoryQuery
<1>2. HistoryQuery("rows", d, c) = In(HistoryRows(d, c, c.status), "rows")
  BY DEF HistoryQuery
<1>3. <<t, x>> \in HistoryQuery("pills", d, c) <=> t \in HistoryRows(d, c, "") /\ x = d[t].status
  BY <1>1
<1>4. <<t, x>> \in HistoryQuery("rows", d, c) <=> t \in HistoryRows(d, c, c.status) /\ x = "rows"
  BY <1>2, InPairs
<1> QED
  BY <1>3, <1>4

LEMMA HistoryRowsLocal ==
    ASSUME NEW d, NEW e, NEW c, NEW s, NEW t, d[t] = e[t]
    PROVE  t \in HistoryRows(d, c, s) <=> t \in HistoryRows(e, c, s)
  BY DEF HistoryRows, Filtered, Active

\* The triage queue.
LEMMA TriageCells ==
    ASSUME NEW d, NEW c, NEW t, NEW x
    PROVE  /\ <<t, x>> \in TriageQuery("queue_total", d, c) <=>
                  t \in TriageQueue(d) /\ x = "queue_total"
           /\ <<t, x>> \in TriageQuery("alerts", d, c) <=>
                  t \in TriageRows(d, c, c.claim, c.ola, c.level) /\ x = "alerts"
           /\ <<t, x>> \in TriageQuery("claims", d, c) <=>
                  /\ t \in TriageRows(d, c, "all", c.ola, c.level)
                  /\ x \in ClaimFacets /\ apply_claim(d[t], x, c.viewer)
           /\ <<t, x>> \in TriageQuery("olas", d, c) <=>
                  /\ t \in TriageRows(d, c, c.claim, "", c.level)
                  /\ x \in OlaFacets /\ apply_ola(d[t], x)
           /\ <<t, x>> \in TriageQuery("levels", d, c) <=>
                  /\ t \in TriageRows(d, c, c.claim, c.ola, "")
                  /\ x \in LevelFacets /\ apply_level(d[t], x)
<1>1. /\ <<t, x>> \in TriageQuery("queue_total", d, c) <=> t \in TriageQueue(d) /\ x = "queue_total"
      /\ <<t, x>> \in TriageQuery("alerts", d, c) <=>
            t \in TriageRows(d, c, c.claim, c.ola, c.level) /\ x = "alerts"
  <2>1. TriageQuery("queue_total", d, c) = In(TriageQueue(d), "queue_total")
    BY DEF TriageQuery
  <2>2. TriageQuery("alerts", d, c) = In(TriageRows(d, c, c.claim, c.ola, c.level), "alerts")
    BY DEF TriageQuery
  <2> QED
    BY <2>1, <2>2, InPairs
<1>2. <<t, x>> \in TriageQuery("claims", d, c) <=>
          /\ t \in TriageRows(d, c, "all", c.ola, c.level)
          /\ x \in ClaimFacets /\ apply_claim(d[t], x, c.viewer)
  BY DEF TriageQuery
<1>3. <<t, x>> \in TriageQuery("olas", d, c) <=>
          /\ t \in TriageRows(d, c, c.claim, "", c.level)
          /\ x \in OlaFacets /\ apply_ola(d[t], x)
  BY DEF TriageQuery
<1>4. <<t, x>> \in TriageQuery("levels", d, c) <=>
          /\ t \in TriageRows(d, c, c.claim, c.ola, "")
          /\ x \in LevelFacets /\ apply_level(d[t], x)
  BY DEF TriageQuery
<1> QED
  BY <1>1, <1>2, <1>3, <1>4

LEMMA TriageRowsLocal ==
    ASSUME NEW d, NEW e, NEW c, NEW k, NEW o, NEW l, NEW t, d[t] = e[t]
    PROVE  /\ t \in TriageQueue(d) <=> t \in TriageQueue(e)
           /\ t \in TriageRows(d, c, k, o, l) <=> t \in TriageRows(e, c, k, o, l)
<1>1. t \in TriageQueue(d) <=> t \in TriageQueue(e)
  BY DEF TriageQueue
<1> QED
  BY <1>1 DEF TriageRows

\* The nightly snapshot.
LEMMA SnapshotCells ==
    ASSUME NEW d, NEW t, NEW x
    PROVE  LET Has(q) == <<t, x>> \in SnapshotQuery(q, d)
               Holds(field) == x = [user |-> d[t][field], status |-> d[t].status,
                                    severity |-> d[t].severity]
           IN /\ Has("queue") <=> t \in Active(d) /\ x = SnapshotRow(d[t])
              /\ Has("assigned") <=> t \in Active(d) /\ Holds("assigned_to")
              /\ Has("t2_claimed") <=> /\ t \in Active(d) /\ Holds("t2_claimed_by")
                                       /\ d[t].t2_claimed_by # NoUser
              /\ Has("responses") <=>
                    /\ t \in active_response(d)
                    /\ x = [function |-> d[t].function, status |-> d[t].request,
                            aged |-> t \in AgedRequests(d), hc |-> t \in HighCritical(d)]
              /\ Has("open_tickets") <=> t \in Active(d) /\ x = "open_tickets"
              /\ Has("unassigned_open") <=> /\ t \in Active(d) /\ d[t].assigned_to = NoUser
                                            /\ x = "unassigned_open"
              /\ Has("emergency_open_tickets") <=> /\ t \in Active(d) /\ d[t].emergency
                                                   /\ x = "emergency_open_tickets"
              /\ Has("response_open") <=> t \in active_response(d) /\ x = "response_open"
              /\ Has("response_aged_7d") <=> t \in AgedRequests(d) /\ x = "response_aged_7d"
<1> DEFINE Has(q) == <<t, x>> \in SnapshotQuery(q, d)
           Hold(u, field) == [user |-> d[u][field], status |-> d[u].status,
                              severity |-> d[u].severity]
<1>1. Has("queue") <=> t \in Active(d) /\ x = SnapshotRow(d[t])
  <2>1. SnapshotQuery("queue", d) = {<<u, SnapshotRow(d[u])>> : u \in Active(d)}
    BY DEF SnapshotQuery
  <2> QED
    BY <2>1
<1>2. Has("assigned") <=> t \in Active(d) /\ x = Hold(t, "assigned_to")
  <2>1. SnapshotQuery("assigned", d) = {<<u, Hold(u, "assigned_to")>> : u \in Active(d)}
    BY DEF SnapshotQuery, WorkloadRows
  <2> HIDE DEF Hold
  <2> QED
    BY <2>1
<1>3. Has("t2_claimed") <=> /\ t \in Active(d) /\ x = Hold(t, "t2_claimed_by")
                            /\ d[t].t2_claimed_by # NoUser
  <2>1. SnapshotQuery("t2_claimed", d) =
            {y \in {<<u, Hold(u, "t2_claimed_by")>> : u \in Active(d)} : y[2].user # NoUser}
    BY DEF SnapshotQuery, WorkloadRows
  <2>2. Hold(t, "t2_claimed_by").user = d[t].t2_claimed_by
    OBVIOUS
  <2> HIDE DEF Hold
  <2> QED
    BY <2>1, <2>2
<1>4. Has("responses") <=>
          /\ t \in active_response(d)
          /\ x = [function |-> d[t].function, status |-> d[t].request,
                  aged |-> t \in AgedRequests(d), hc |-> t \in HighCritical(d)]
  <2> DEFINE R(u) == [function |-> d[u].function, status |-> d[u].request,
                      aged |-> u \in AgedRequests(d), hc |-> u \in HighCritical(d)]
  <2>1. SnapshotQuery("responses", d) = {<<u, R(u)>> : u \in active_response(d)}
    BY DEF SnapshotQuery, ResponseSnapshot
  <2> HIDE DEF R
  <2>2. Has("responses") <=> t \in active_response(d) /\ x = R(t)
    BY <2>1
  <2> QED
    BY <2>2 DEF R
<1>5. /\ SnapshotQuery("open_tickets", d) = In(Active(d), "open_tickets")
      /\ SnapshotQuery("unassigned_open", d) =
            In({u \in Active(d) : d[u].assigned_to = NoUser}, "unassigned_open")
      /\ SnapshotQuery("emergency_open_tickets", d) =
            In({u \in Active(d) : d[u].emergency}, "emergency_open_tickets")
      /\ SnapshotQuery("response_open", d) = In(active_response(d), "response_open")
      /\ SnapshotQuery("response_aged_7d", d) = In(AgedRequests(d), "response_aged_7d")
  BY DEF SnapshotQuery, compute_kpi_row
<1>6. /\ Has("open_tickets") <=> t \in Active(d) /\ x = "open_tickets"
      /\ Has("unassigned_open") <=> /\ t \in Active(d) /\ d[t].assigned_to = NoUser
                                    /\ x = "unassigned_open"
      /\ Has("emergency_open_tickets") <=> /\ t \in Active(d) /\ d[t].emergency
                                           /\ x = "emergency_open_tickets"
      /\ Has("response_open") <=> t \in active_response(d) /\ x = "response_open"
      /\ Has("response_aged_7d") <=> t \in AgedRequests(d) /\ x = "response_aged_7d"
  BY <1>5, InPairs
<1> HIDE DEF Has
<1> QED
  BY <1>1, <1>2, <1>3, <1>4, <1>6 DEF Has

(***************************************************************************)
(* The queries of a page                                                   *)
(***************************************************************************)

Elements(s) == {s[i] : i \in DOMAIN s}

\* These count something a ticket shares with others: a Project Incident, or the
\* first day of the trend.
Shared == {"total_hc", "hc_total", "hc_open", "EMERGENCY", "emergency_open_incidents", "flow"}

LEMMA DashboardNames ==
    Elements(DashboardQueries) =
        {"active", "pipeline", "runway", "heat", "claimed", "finished", "seeded", "unassigned"}
  BY DEF Elements, DashboardQueries

LEMMA ExecutiveNames ==
    Elements(ExecutiveQueries) =
        {"response", "response_hc", "total_hc", "hc_total", "hc_open", "EMERGENCY", "OLA_OVERDUE",
         "RESPONSE_PENDING", "pipeline", "pipeline_emergency", "flow", "hc_open_tickets"}
        \cup ResponsePills \cup Courts
  BY DEF Elements, ExecutiveQueries, ResponsePills, Courts

LEMMA OtherNames ==
    /\ Elements(QueueQueries) = {"stages", "claims", "unclaimed", "mine", "rows", "total"}
    /\ Elements(ListQueries) = {"rows", "breach", "total"}
    /\ Elements(HistoryQueries) = {"pills", "rows"}
    /\ Elements(TriageQueries) = {"queue_total", "alerts", "claims", "olas", "levels"}
    /\ Elements(SnapshotQueries) =
          {"queue", "assigned", "t2_claimed", "responses", "open_tickets", "unassigned_open",
           "emergency_open_tickets", "emergency_open_incidents", "response_open",
           "response_aged_7d"}
<1>1. Elements(QueueQueries) = {"stages", "claims", "unclaimed", "mine", "rows", "total"}
  BY DEF Elements, QueueQueries
<1>2. Elements(ListQueries) = {"rows", "breach", "total"}
  BY DEF Elements, ListQueries
<1>3. Elements(HistoryQueries) = {"pills", "rows"}
  BY DEF Elements, HistoryQueries
<1>4. Elements(TriageQueries) = {"queue_total", "alerts", "claims", "olas", "levels"}
  BY DEF Elements, TriageQueries
<1>5. Elements(SnapshotQueries) =
          {"queue", "assigned", "t2_claimed", "responses", "open_tickets", "unassigned_open",
           "emergency_open_tickets", "emergency_open_incidents", "response_open",
           "response_aged_7d"}
  BY DEF Elements, SnapshotQueries
<1> QED
  BY <1>1, <1>2, <1>3, <1>4, <1>5

Views == {"dashboard", "executive", "tier2_queue", "triage_queue", "ticket_list", "history", "snapshot"}

LEMMA ViewOf ==
    ASSUME NEW c, c.view \in Views
    PROVE  /\ c.view = "dashboard" =>
                /\ Queries(c) = DashboardQueries /\ PageSource(c) = Tickets
                /\ \A q, d : Result(q, d, c) = DashboardQuery(q, d, c)
           /\ c.view = "executive" =>
                /\ Queries(c) = ExecutiveQueries /\ PageSource(c) = Tickets
                /\ \A q, d : Result(q, d, c) = ExecutiveQuery(q, d, c)
           /\ c.view = "tier2_queue" =>
                /\ Queries(c) = QueueQueries /\ PageSource(c) = Tickets
                /\ \A q, d : Result(q, d, c) = QueueQuery(q, d, c)
           /\ c.view = "triage_queue" =>
                /\ Queries(c) = TriageQueries /\ PageSource(c) = Alerts
                /\ \A q, d : Result(q, d, c) = TriageQuery(q, d, c)
           /\ c.view = "ticket_list" =>
                /\ Queries(c) = ListQueries /\ PageSource(c) = Tickets
                /\ \A q, d : Result(q, d, c) = ListQuery(q, d, c)
           /\ c.view = "history" =>
                /\ Queries(c) = HistoryQueries /\ PageSource(c) = Tickets
                /\ \A q, d : Result(q, d, c) = HistoryQuery(q, d, c)
           /\ c.view = "snapshot" =>
                /\ Queries(c) = SnapshotQueries /\ PageSource(c) = Tickets
                /\ \A q, d : Result(q, d, c) = SnapshotQuery(q, d)
<1>1. CASE c.view = "dashboard"
  BY <1>1 DEF Queries, PageSource, Result
<1>2. CASE c.view = "executive"
  BY <1>2 DEF Queries, PageSource, Result
<1>3. CASE c.view = "tier2_queue"
  BY <1>3 DEF Queries, PageSource, Result
<1>4. CASE c.view = "triage_queue"
  BY <1>4 DEF Queries, PageSource, Result
<1>5. CASE c.view = "ticket_list"
  BY <1>5 DEF Queries, PageSource, Result
<1>6. CASE c.view = "history"
  BY <1>6 DEF Queries, PageSource, Result
<1>7. CASE c.view = "snapshot"
  BY <1>7 DEF Queries, PageSource, Result
<1> QED
  BY <1>1, <1>2, <1>3, <1>4, <1>5, <1>6, <1>7 DEF Views

LEMMA DashboardLocal ==
    ASSUME NEW c, NEW d, NEW e, NEW t \in Tickets, d[t] = e[t],
           NEW q \in Elements(DashboardQueries), NEW x
    PROVE  <<t, x>> \in DashboardQuery(q, d, c) <=> <<t, x>> \in DashboardQuery(q, e, c)
<1>1. /\ t \in Active(d) <=> t \in Active(e)
      /\ t \in Filtered(d, c) <=> t \in Filtered(e, c)
  BY ScopesLocal
<1>2. CASE q \in {"active", "pipeline", "runway", "heat"}
  BY SMTT(30), <1>1, <1>2, DashboardCells
<1>3. CASE q \in {"claimed", "finished", "seeded", "unassigned"}
  BY SMTT(30), <1>1, <1>3, DashboardCells
<1> QED
  BY <1>2, <1>3, DashboardNames

LEMMA ExecutiveLocal ==
    ASSUME NEW c, NEW d, NEW e, NEW t \in Tickets, d[t] = e[t],
           NEW q \in Elements(ExecutiveQueries) \ Shared, NEW x
    PROVE  <<t, x>> \in ExecutiveQuery(q, d, c) <=> <<t, x>> \in ExecutiveQuery(q, e, c)
<1>1. /\ t \in Active(d) <=> t \in Active(e)
      /\ t \in HighCritical(d) <=> t \in HighCritical(e)
      /\ t \in Overdue(d) <=> t \in Overdue(e)
      /\ t \in active_response(d) <=> t \in active_response(e)
      /\ t \in Received(d, c) <=> t \in Received(e, c)
      /\ t \in Completed(d, c) <=> t \in Completed(e, c)
      /\ t \in AgedRequests(d) <=> t \in AgedRequests(e)
  BY ScopesLocal
<1>2. Ranged(d, c, t) <=> Ranged(e, c, t)
  BY ScopesLocal DEF Ranged
<1> DEFINE Tallied(f) == \/ x = "ACTIVE" /\ t \in active_response(f)
                         \/ x = "AGED" /\ t \in AgedRequests(f)
                         \/ x = "RECEIVED" /\ t \in Received(f, c)
                         \/ x = "DONE" /\ t \in Completed(f, c)
           Lists(f) == /\ c.function # "" => f[t].function = c.function
                       /\ q = "DONE" => t \in Completed(f, c)
                       /\ q = "RECEIVED" => t \in Received(f, c)
                       /\ q = "AGED" => t \in AgedRequests(f)
                       /\ q = "ACTIVE" => t \in active_response(f)
                       /\ q = "HIGH_CRIT" => t \in active_response(f) /\ t \in HighCritical(f)
<1>3. CASE q = "response"
  <2>1. \A f : <<t, x>> \in response_counts(f, c) <=> Tallied(f)
    BY ZenonT(30), ResponseCells
  <2>2. Tallied(d) <=> Tallied(e)
    BY <1>1
  <2>3. \A f : <<t, x>> \in ExecutiveQuery(q, f, c) <=> <<t, x>> \in response_counts(f, c)
    BY ZenonT(30), <1>3, ExecutiveCells
  <2> HIDE DEF Counts
  <2> QED
    BY <2>1, <2>2, <2>3
<1>4. CASE q \in ResponsePills
  <2>1. \A f : t \in response_filtered(f, c, q) <=> Lists(f)
    BY ZenonT(30), <1>4, ResponseCells
  <2>2. Lists(d) <=> Lists(e)
    BY <1>1
  <2>3. ASSUME NEW f
        PROVE  <<t, x>> \in ExecutiveQuery(q, f, c) <=> t \in response_filtered(f, c, q) /\ x = q
    <3>1. ExecutiveQuery(q, f, c) = In(response_filtered(f, c, q), q)
      BY <1>4 DEF ExecutiveQuery, ResponsePills, Courts
    <3> QED
      BY <3>1, InPairs
  <2> HIDE DEF Lists
  <2> QED
    BY <2>1, <2>2, <2>3
<1>5. CASE q \in {"response_hc", "OLA_OVERDUE", "RESPONSE_PENDING"} \cup Courts
  BY SMTT(30), <1>1, <1>5, ExecutiveCells
<1>6. CASE q \in {"pipeline", "pipeline_emergency", "hc_open_tickets"}
  BY SMTT(30), <1>1, <1>2, <1>6, ExecutiveCells
<1> QED
  BY <1>3, <1>4, <1>5, <1>6, ExecutiveNames DEF Shared

LEMMA QueueLocal ==
    ASSUME NEW c, NEW d, NEW e, NEW t, d[t] = e[t], NEW q \in Elements(QueueQueries), NEW x
    PROVE  <<t, x>> \in QueueQuery(q, d, c) <=> <<t, x>> \in QueueQuery(q, e, c)
<1>1. \A cc, s, k : t \in QueueRows(d, cc, s, k) <=> t \in QueueRows(e, cc, s, k)
  BY QueueRowsLocal
<1>2. q \in {"stages", "claims", "unclaimed", "mine", "rows", "total"}
  BY OtherNames
<1> DEFINE all == [c EXCEPT !.severity = ""]
           Stages(f) == t \in QueueRows(f, c, "", c.claim) /\ x = QueueStage[f[t].status]
           Pills(f) == \/ q = "claims" /\ t \in QueueRows(f, c, c.stage, "")
                       \/ q = "unclaimed" /\ t \in QueueRows(f, c, c.stage, "unclaimed")
                       \/ q = "mine" /\ t \in QueueRows(f, c, c.stage, "mine")
                       \/ q = "rows" /\ t \in QueueRows(f, c, c.stage, c.claim)
                       \/ q = "total" /\ t \in QueueRows(f, all, "", "")
<1>3. \A f : /\ q = "stages" => (<<t, x>> \in QueueQuery(q, f, c) <=> Stages(f))
             /\ q # "stages" => (<<t, x>> \in QueueQuery(q, f, c) <=> Pills(f) /\ x = q)
  <2> SUFFICES ASSUME NEW f
               PROVE  /\ q = "stages" => (<<t, x>> \in QueueQuery(q, f, c) <=> Stages(f))
                      /\ q # "stages" => (<<t, x>> \in QueueQuery(q, f, c) <=> Pills(f) /\ x = q)
    OBVIOUS
  <2>1. CASE q = "stages"
    BY ZenonT(30), <2>1, QueueCells
  <2>2. CASE q = "claims"
    BY ZenonT(30), <2>2, QueueCells
  <2>3. CASE q = "unclaimed"
    BY ZenonT(30), <2>3, QueueCells
  <2>4. CASE q = "mine"
    BY ZenonT(30), <2>4, QueueCells
  <2>5. CASE q = "rows"
    BY ZenonT(30), <2>5, QueueCells
  <2>6. CASE q = "total"
    BY ZenonT(30), <2>6, QueueCells
  <2> QED
    BY <1>2, <2>1, <2>2, <2>3, <2>4, <2>5, <2>6
<1>4. Stages(d) <=> Stages(e)
  BY <1>1
<1>5. Pills(d) <=> Pills(e)
  <2> HIDE DEF all
  <2> QED
    BY <1>1
<1> HIDE DEF Stages, Pills
<1> QED
  BY <1>3, <1>4, <1>5

LEMMA ListLocal ==
    ASSUME NEW c, NEW d, NEW e, NEW t \in Tickets, d[t] = e[t], NEW q \in Elements(ListQueries), NEW x
    PROVE  <<t, x>> \in ListQuery(q, d, c) <=> <<t, x>> \in ListQuery(q, e, c)
  BY SMTT(30), ScopesLocal, ListCells, OtherNames

LEMMA HistoryLocal ==
    ASSUME NEW c, NEW d, NEW e, NEW t, d[t] = e[t], NEW q \in Elements(HistoryQueries), NEW x
    PROVE  <<t, x>> \in HistoryQuery(q, d, c) <=> <<t, x>> \in HistoryQuery(q, e, c)
<1>1. \A s : t \in HistoryRows(d, c, s) <=> t \in HistoryRows(e, c, s)
  BY HistoryRowsLocal
<1>2. CASE q = "pills"
  BY ZenonT(60), <1>1, <1>2, HistoryCells
<1>3. CASE q = "rows"
  BY ZenonT(60), <1>1, <1>3, HistoryCells
<1> QED
  BY <1>2, <1>3, OtherNames

LEMMA TriageLocal ==
    ASSUME NEW c, NEW d, NEW e, NEW t, d[t] = e[t], NEW q \in Elements(TriageQueries), NEW x
    PROVE  <<t, x>> \in TriageQuery(q, d, c) <=> <<t, x>> \in TriageQuery(q, e, c)
<1>1. /\ t \in TriageQueue(d) <=> t \in TriageQueue(e)
      /\ \A k, o, l : t \in TriageRows(d, c, k, o, l) <=> t \in TriageRows(e, c, k, o, l)
  BY TriageRowsLocal
<1>2. CASE q \in {"queue_total", "alerts"}
  BY ZenonT(30), <1>1, <1>2, TriageCells
<1>3. CASE q = "claims"
  BY ZenonT(30), <1>1, <1>3, TriageCells
<1>4. CASE q = "olas"
  BY ZenonT(30), <1>1, <1>4, TriageCells
<1>5. CASE q = "levels"
  BY ZenonT(30), <1>1, <1>5, TriageCells
<1> QED
  BY <1>2, <1>3, <1>4, <1>5, OtherNames

LEMMA SnapshotLocal ==
    ASSUME NEW d, NEW e, NEW t \in Tickets, d[t] = e[t],
           NEW q \in Elements(SnapshotQueries) \ Shared, NEW x
    PROVE  <<t, x>> \in SnapshotQuery(q, d) <=> <<t, x>> \in SnapshotQuery(q, e)
<1>1. /\ t \in Active(d) <=> t \in Active(e)
      /\ t \in HighCritical(d) <=> t \in HighCritical(e)
      /\ t \in active_response(d) <=> t \in active_response(e)
      /\ t \in AgedRequests(d) <=> t \in AgedRequests(e)
  BY ScopesLocal
<1>2. CASE q \in {"queue", "assigned", "t2_claimed"}
  BY SMTT(30), <1>1, <1>2, SnapshotCells
<1>3. CASE q = "responses"
  BY SMTT(30), <1>1, <1>3, SnapshotCells
<1>4. CASE q \in {"open_tickets", "unassigned_open", "emergency_open_tickets", "response_open",
                  "response_aged_7d"}
  BY SMTT(30), <1>1, <1>4, SnapshotCells
<1> QED
  BY <1>2, <1>3, <1>4, OtherNames DEF Shared

\* What a query says of a ticket, it says from that ticket's row alone.
LEMMA ResultLocal ==
    ASSUME NEW c, c.view \in Views, NEW d, NEW e, NEW t \in PageSource(c), d[t] = e[t],
           NEW q \in Elements(Queries(c)) \ Shared, NEW x
    PROVE  <<t, x>> \in Result(q, d, c) <=> <<t, x>> \in Result(q, e, c)
<1>1. CASE c.view = "dashboard"
  BY <1>1, ViewOf, DashboardLocal
<1>2. CASE c.view = "executive"
  BY <1>2, ViewOf, ExecutiveLocal
<1>3. CASE c.view = "tier2_queue"
  <2>1. q \in Elements(QueueQueries) /\ \A f : Result(q, f, c) = QueueQuery(q, f, c)
    BY <1>3, ViewOf
  <2> QED
    BY <2>1, QueueLocal
<1>4. CASE c.view = "triage_queue"
  BY <1>4, ViewOf, TriageLocal
<1>5. CASE c.view = "ticket_list"
  BY <1>5, ViewOf, ListLocal
<1>6. CASE c.view = "history"
  BY <1>6, ViewOf, HistoryLocal
<1>7. CASE c.view = "snapshot"
  BY <1>7, ViewOf, SnapshotLocal
<1> QED
  BY <1>1, <1>2, <1>3, <1>4, <1>5, <1>6, <1>7 DEF Views

(***************************************************************************)
(* The invariant: what a page holds of each ticket that has stayed put     *)
(***************************************************************************)

Ran(q) == \E i \in 1 .. page.ran : Queries(page.request)[i] = q

TicketRow == {row \in Row : row.t2_claimed_by # NoUser => row.status \in TIER2_QUEUE_STATUSES}

PageType ==
    /\ page.request \in PageRequests
    /\ page = [request |-> page.request, ran |-> page.ran, got |-> page.got]
    /\ page.ran \in 0 .. Len(Queries(page.request))
    /\ page.got = [q \in Elements(Queries(page.request)) |-> page.got[q]]

RowsType ==
    LET source == PageSource(page.request)
    IN /\ db \in [source -> Row \cup Alert]
       /\ \A t \in source : db[t] \in IF t \in Alerts THEN Alert ELSE TicketRow
       /\ seen \in [source -> SUBSET (Row \cup Alert)]
       /\ \A t \in source : db[t] \in seen[t]

\* A query that has run says of a steady ticket what it would say now.
Current ==
    \A q \in Elements(Queries(page.request)) \ Shared : Ran(q) =>
        \A t \in DOMAIN db : Steady(t) => Cells(q, t) = CellsOf(Result(q, db, page.request), t)

\* The tickets whose Project Incidents a figure counts.
Bundled == {"total_hc", "hc_total", "hc_open", "EMERGENCY", "emergency_open_incidents"}

Base(q, d, c) ==
    CASE q = "total_hc" -> HighCritical(d)
      [] q = "hc_total" -> {t \in Filtered(d, c) \cap HighCritical(d) : d[t].status # "CANCELLED"}
      [] q = "hc_open"  -> Filtered(d, c) \cap HighCritical(d) \cap Active(d)
      [] OTHER          -> {t \in Active(d) : d[t].emergency}

IncidentOf(t) == <<incident_key(db, t), "incident">>

Keyed ==
    \A q \in Bundled \cap Elements(Queries(page.request)) : Ran(q) =>
        \A t \in Base(q, db, page.request) : Steady(t) => IncidentOf(t) \in page.got[q]

FlowAgrees ==
    page.request.view = "executive" /\ page.got["flow"] # {} =>
        \A t \in Tickets : Steady(t) =>
            /\ "RECEIVED" \in Cells("flow", t) <=> t \in Received(db, page.request)
            /\ "DONE" \in Cells("flow", t) <=> t \in Completed(db, page.request)
            /\ Cells("flow", t) \subseteq {"RECEIVED", "DONE"}

\* What raised the verdict was once so.
VerdictHasACause ==
    page.request.view = "executive" =>
        /\ (\E q \in Warnings : page.got[q] # {}) =>
                \E t \in Tickets : \E row \in seen[t] : Burns(row)
        /\ (\E q \in Courts \cup {"RESPONSE_PENDING"} : page.got[q] # {}) =>
                \E t \in Tickets : \E row \in seen[t] : row.status \notin TERMINAL_STATUSES

RenderInv ==
    /\ PageType
    /\ RowsType
    /\ Current
    /\ Keyed
    /\ FlowAgrees
    /\ VerdictHasACause

-----------------------------------------------------------------------------
\* The moves of the other requests keep a row what it is.
LEMMA StepKeeps ==
    ASSUME NEW row \in TicketRow, NEW s \in Statuses, NEW u \in Users
    PROVE  Stepped(row, s, u) \in TicketRow
<1>1. row \in Row
  BY DEF TicketRow
<1>2. PICK L : L = IF s \in RESOLVED_STATUSES THEN row.closers \cup {u} ELSE row.closers
  OBVIOUS
<1>3. PICK v : v = IF /\ row.verified_by = NoUser /\ row.status \in VerificationStatuses
                      /\ s \in {"PENDING_MANAGER", "APPROVED"}
                   THEN u ELSE row.verified_by
  OBVIOUS
<1>4. row.closers \in SUBSET Users /\ row.verified_by \in Users \cup {NoUser}
  BY <1>1 DEF Row
<1>5. L \in SUBSET Users
  BY <1>2, <1>4
<1>6. v \in Users \cup {NoUser}
  BY <1>3, <1>4
<1> DEFINE n == [row EXCEPT !.status = s, !.t2_claimed_by = NoUser, !.closers = L, !.verified_by = v]
<1>7. Stepped(row, s, u) = n
  BY <1>2, <1>3 DEF Stepped
<1>8. n \in Row
  BY <1>1, <1>5, <1>6 DEF Row
<1>9. n.t2_claimed_by = NoUser
  BY <1>1 DEF Row
<1>10. n \in TicketRow
  <2> HIDE DEF n
  <2> QED
    BY <1>8, <1>9 DEF TicketRow
<1> QED
  BY <1>7, <1>10

LEMMA NoteKeeps ==
    ASSUME NEW row \in TicketRow, NEW u \in Users
    PROVE  Noted(row, u) \in TicketRow
<1>1. row \in Row
  BY DEF TicketRow
<1>2. PICK L : L = row.closers \cup {u}
  OBVIOUS
<1>3. L \in SUBSET Users
  BY <1>1, <1>2 DEF Row
<1>4. Noted(row, u) = [row EXCEPT !.closers = L]
  BY <1>2 DEF Noted
<1>5. Noted(row, u) \in Row
  BY <1>1, <1>3, <1>4 DEF Row
<1>6. Noted(row, u).status = row.status /\ Noted(row, u).t2_claimed_by = row.t2_claimed_by
  BY <1>1, <1>4 DEF Row
<1> QED
  BY <1>5, <1>6 DEF TicketRow

LEMMA DecisionKeeps ==
    ASSUME NEW row \in TicketRow
    PROVE  Decided(row) \in TicketRow
<1>1. row \in Row
  BY DEF TicketRow
<1>2. PICK b : b = ~row.emergency
  OBVIOUS
<1>3. b \in BOOLEAN
  BY <1>2, Zenon
<1>4. Decided(row) = [row EXCEPT !.emergency = b]
  BY <1>2, Zenon DEF Decided
<1>5. Decided(row) \in Row
  BY <1>1, <1>3, <1>4 DEF Row
<1>6. Decided(row).status = row.status /\ Decided(row).t2_claimed_by = row.t2_claimed_by
  BY <1>1, <1>4 DEF Row
<1> QED
  BY <1>5, <1>6 DEF TicketRow

LEMMA WithdrawalKeeps ==
    ASSUME NEW row \in TicketRow
    PROVE  Withdrawn(row) \in TicketRow
<1>1. row \in Row
  BY DEF TicketRow
<1>2. PICK r : r = IF row.request \in {"OPEN", "IN_PROGRESS"} THEN "CANCELLED" ELSE row.request
  OBVIOUS
<1>3. r \in RequestStatuses \cup {"none"}
  BY <1>1, <1>2 DEF Row, RequestStatuses
<1>4. "CANCELLED" \in Statuses
  BY DEF Statuses, TERMINAL_STATUSES
<1>5. Withdrawn(row) = [row EXCEPT !.status = "CANCELLED", !.t2_claimed_by = NoUser, !.request = r]
  BY <1>2 DEF Withdrawn
<1>6. Withdrawn(row) \in Row
  BY ZenonT(30), <1>1, <1>3, <1>4, <1>5 DEF Row
<1>7. Withdrawn(row).t2_claimed_by = NoUser
  BY <1>1, <1>5 DEF Row
<1> QED
  BY <1>6, <1>7 DEF TicketRow

LEMMA ClaimKeeps ==
    ASSUME NEW row \in TicketRow, row.status \in TIER2_QUEUE_STATUSES, NEW u \in Users
    PROVE  Claimed(row, u) \in TicketRow
<1>1. row \in Row
  BY DEF TicketRow
<1>2. PICK k : k = IF row.t2_claimed_by = NoUser THEN u ELSE NoUser
  OBVIOUS
<1>3. k \in Users \cup {NoUser} /\ Claimed(row, u) = [row EXCEPT !.t2_claimed_by = k]
  BY <1>2 DEF Claimed
<1>4. Claimed(row, u) \in Row
  BY <1>1, <1>3 DEF Row
<1>5. Claimed(row, u).status = row.status
  BY <1>1, <1>3 DEF Row
<1> QED
  BY <1>4, <1>5 DEF TicketRow

LEMMA GradeKeeps ==
    ASSUME NEW row \in TicketRow, NEW s \in Severities
    PROVE  Graded(row, s) \in TicketRow
<1>1. row \in Row
  BY DEF TicketRow
<1>2. Graded(row, s) \in Row
  BY <1>1 DEF Row, Graded
<1>3. Graded(row, s).status = row.status /\ Graded(row, s).t2_claimed_by = row.t2_claimed_by
  BY <1>1 DEF Row, Graded
<1> QED
  BY <1>2, <1>3 DEF TicketRow

LEMMA TicketMovesKeep ==
    ASSUME NEW row \in TicketRow, NEW n \in TicketMoves(row)
    PROVE  n \in TicketRow
<1>1. Tier1 \subseteq Users /\ Tier2 \subseteq Users
  BY AccountsAssumption DEF AccountsAssumption
<1>2. CASE \E s \in Statuses, u \in Tier2 : n = Stepped(row, s, u)
  BY <1>1, <1>2, StepKeeps
<1>3. CASE \E u \in Tier1 : n = Noted(row, u)
  BY <1>1, <1>3, NoteKeeps
<1>4. CASE n = Decided(row)
  BY <1>4, DecisionKeeps
<1>5. CASE n = Withdrawn(row)
  BY <1>5, WithdrawalKeeps
<1>6. CASE row.status \in TIER2_QUEUE_STATUSES /\ \E u \in Tier2 : n = Claimed(row, u)
  BY <1>1, <1>6, ClaimKeeps
<1>7. CASE \E s \in Severities : n = Graded(row, s)
  BY <1>7, GradeKeeps
<1>8. \/ \E s \in Statuses, u \in Tier2 : n = Stepped(row, s, u)
      \/ \E u \in Tier1 : n = Noted(row, u)
      \/ n = Decided(row)
      \/ n = Withdrawn(row)
      \/ row.status \in TIER2_QUEUE_STATUSES /\ \E u \in Tier2 : n = Claimed(row, u)
      \/ \E s \in Severities : n = Graded(row, s)
  <2> DEFINE N == {m \in Statuses : <<row.status, m>> \in ALLOWED_TRANSITIONS}
             A == {Stepped(row, s, u) : s \in N, u \in Tier2}
             B == IF row.status \in RESOLVED_STATUSES THEN {Noted(row, u) : u \in Tier1}
                  ELSE {Decided(row), Withdrawn(row)}
             C == IF row.status \in TIER2_QUEUE_STATUSES THEN {Claimed(row, u) : u \in Tier2} ELSE {}
             D == IF row.status \in RESOLVED_STATUSES /\ Superusers = {} THEN {}
                  ELSE {Graded(row, s) : s \in Severities \ {row.severity}}
  <2>1. n \in A \cup B \cup C \cup D
    BY DEF TicketMoves
  <2>2. n \in A => \E s \in Statuses, u \in Tier2 : n = Stepped(row, s, u)
    <3>1. N \subseteq Statuses
      OBVIOUS
    <3> HIDE DEF N
    <3> QED
      BY <3>1
  <2>3. n \in B => (\E u \in Tier1 : n = Noted(row, u)) \/ n = Decided(row) \/ n = Withdrawn(row)
    OBVIOUS
  <2>4. n \in C => row.status \in TIER2_QUEUE_STATUSES /\ \E u \in Tier2 : n = Claimed(row, u)
    OBVIOUS
  <2>5. n \in D => \E s \in Severities : n = Graded(row, s)
    OBVIOUS
  <2> HIDE DEF A, B, C, D
  <2> QED
    BY <2>1, <2>2, <2>3, <2>4, <2>5
<1> QED
  BY <1>2, <1>3, <1>4, <1>5, <1>6, <1>7, <1>8

LEMMA RequestMovesKeep ==
    ASSUME NEW row \in TicketRow, NEW n \in RequestMoves(row)
    PROVE  n \in TicketRow
<1>1. row \in Row /\ (row.t2_claimed_by # NoUser => row.status \in TIER2_QUEUE_STATUSES)
  BY DEF TicketRow
<1>2. CASE n = [row EXCEPT !.request = "OPEN", !.asked = 0, !.answered = 0]
  <2>1. n \in Row
    BY <1>1, <1>2 DEF Row, RequestStatuses
  <2>2. n.status = row.status /\ n.t2_claimed_by = row.t2_claimed_by
    BY <1>1, <1>2 DEF Row
  <2> QED
    BY <1>1, <2>1, <2>2 DEF TicketRow
<1>3. CASE \E s \in {"OPEN", "IN_PROGRESS", "DONE"} : n = [row EXCEPT !.request = s, !.answered = 0]
  <2>1. PICK s \in {"OPEN", "IN_PROGRESS", "DONE"} : n = [row EXCEPT !.request = s, !.answered = 0]
    BY <1>3
  <2>2. s \in RequestStatuses
    BY DEF RequestStatuses
  <2>3. n \in Row
    BY <1>1, <2>1, <2>2 DEF Row
  <2>4. n.status = row.status /\ n.t2_claimed_by = row.t2_claimed_by
    BY <1>1, <2>1 DEF Row
  <2> QED
    BY <1>1, <2>3, <2>4 DEF TicketRow
<1> QED
  BY <1>2, <1>3 DEF RequestMoves

LEMMA AlertMovesKeep ==
    ASSUME NEW row \in Alert, NEW n \in AlertMoves(row)
    PROVE  n \in Alert
<1>1. Tier1 \subseteq Users
  BY AccountsAssumption DEF AccountsAssumption
<1>2. CASE \E u \in Tier1 : n = [row EXCEPT !.triage_status = "TRIAGING", !.claimed_by = u]
  BY <1>1, <1>2 DEF Alert, TriageStatuses
<1>3. CASE \E s \in {"PENDING", "TRUE_POSITIVE", "FALSE_POSITIVE"} :
              n = [row EXCEPT !.triage_status = s, !.claimed_by = NoUser]
  BY <1>3 DEF Alert, TriageStatuses
<1> QED
  BY <1>2, <1>3 DEF AlertMoves

-----------------------------------------------------------------------------
LEMMA RequestFacts ==
    ASSUME NEW c \in PageRequests
    PROVE  /\ c \in PageRequest /\ c.view \in Views
           /\ c.view \in {"executive", "snapshot"} => c.severity = "" /\ c.status = ""
           /\ c.view = "snapshot" => ~c.period /\ c.claim = "" /\ c.stage = ""
           /\ c.view = "triage_queue" => c.claim \in ClaimFacets
<1>1. c \in PageRequest
  BY PagesAssumption DEF PagesAssumption
<1>2. c.view \in Views
  BY <1>1 DEF PageRequest, Views
<1>3. /\ c.view \in {"executive", "snapshot"} => c.severity = "" /\ c.status = ""
      /\ c.view = "snapshot" => ~c.period /\ c.claim = "" /\ c.stage = ""
      /\ c.view = "triage_queue" => c.claim # ""
  BY PagesAssumption DEF PagesAssumption
<1>4. c.claim \in {"", "actionable", "unclaimed", "mine", "others", "all"}
  BY <1>1 DEF PageRequest
<1> QED
  BY <1>1, <1>2, <1>3, <1>4 DEF ClaimFacets

LEMMA QueriesAreSequences ==
    ASSUME NEW c, c.view \in Views
    PROVE  /\ Len(Queries(c)) \in Nat
           /\ DOMAIN Queries(c) = 1 .. Len(Queries(c))
<1>1. Len(DashboardQueries) = 8 /\ DOMAIN DashboardQueries = 1 .. 8
  BY DEF DashboardQueries
<1>2. Len(ExecutiveQueries) = 21 /\ DOMAIN ExecutiveQueries = 1 .. 21
  BY DEF ExecutiveQueries
<1>3. Len(QueueQueries) = 6 /\ DOMAIN QueueQueries = 1 .. 6
  BY DEF QueueQueries
<1>4. Len(TriageQueries) = 5 /\ DOMAIN TriageQueries = 1 .. 5
  BY DEF TriageQueries
<1>5. Len(SnapshotQueries) = 10 /\ DOMAIN SnapshotQueries = 1 .. 10
  BY DEF SnapshotQueries
<1>6. Len(ListQueries) = 3 /\ DOMAIN ListQueries = 1 .. 3
  BY DEF ListQueries
<1>7. Len(HistoryQueries) = 2 /\ DOMAIN HistoryQueries = 1 .. 2
  BY DEF HistoryQueries
<1>8. Queries(c) \in {DashboardQueries, ExecutiveQueries, QueueQueries, TriageQueries, SnapshotQueries,
                     ListQueries, HistoryQueries}
  BY ViewOf DEF Views
<1> QED
  BY <1>1, <1>2, <1>3, <1>4, <1>5, <1>6, <1>7, <1>8

LEMMA SourceOf ==
    ASSUME NEW c, c.view \in Views, NEW t \in PageSource(c)
    PROVE  t \notin Alerts <=> t \in Tickets /\ c.view # "triage_queue"
<1>1. Tickets \cap Alerts = {}
  BY PagesAssumption DEF PagesAssumption
<1> QED
  BY <1>1 DEF PageSource

LEMMA PageInitInv == PageInit => RenderInv
<1> SUFFICES ASSUME PageInit PROVE RenderInv
  OBVIOUS
<1>1. PICK c \in PageRequests :
        /\ page = [request |-> c, ran |-> 0, got |-> [q \in Elements(Queries(c)) |-> {}]]
        /\ db \in {d \in [PageSource(c) -> UNION {InitialRows[t] : t \in PageSource(c)}] :
                      \A t \in PageSource(c) : d[t] \in InitialRows[t]}
        /\ seen = [t \in PageSource(c) |-> {db[t]}]
  BY DEF PageInit, Elements
<1>2. page.request = c /\ page.ran = 0 /\ page.got = [q \in Elements(Queries(c)) |-> {}]
  BY <1>1
<1>3. c.view \in Views
  BY RequestFacts
<1>4. PageType
  <2>1. 0 \in 0 .. Len(Queries(c))
    BY <1>3, QueriesAreSequences
  <2>2. page = [request |-> page.request, ran |-> page.ran, got |-> page.got]
    BY <1>1
  <2>3. page.got = [q \in Elements(Queries(c)) |-> page.got[q]]
    BY <1>2
  <2> QED
    BY <1>2, <2>1, <2>2, <2>3 DEF PageType
<1>5. RowsType
  <2> DEFINE source == PageSource(c)
  <2>1. /\ db = [t \in source |-> db[t]] /\ \A t \in source : db[t] \in InitialRows[t]
    BY <1>1
  <2>2. \A t \in source : db[t] \in IF t \in Alerts THEN Alert ELSE TicketRow
    <3>1. /\ \A t \in Tickets : InitialRows[t] \subseteq TicketRow
          /\ \A a \in Alerts : InitialRows[a] \subseteq Alert
      BY PagesAssumption DEF PagesAssumption, TicketRow
    <3>2. \A t \in source : t \in Tickets \/ t \in Alerts
      BY DEF PageSource
    <3> QED
      BY <2>1, <3>1, <3>2
  <2>3. \A t \in source : db[t] \in Row \cup Alert
    BY <2>2 DEF TicketRow
  <2>4. seen \in [source -> SUBSET (Row \cup Alert)] /\ \A t \in source : db[t] \in seen[t]
    BY <1>1, <2>3
  <2>5. db \in [source -> Row \cup Alert]
    BY <2>1, <2>3
  <2> HIDE DEF source
  <2> QED
    BY <1>2, <2>2, <2>4, <2>5 DEF RowsType, source
<1>6. \A q : ~Ran(q)
  BY <1>2 DEF Ran
<1>7. \A q \in Elements(Queries(c)) : page.got[q] = {}
  BY <1>2
<1>8. c.view = "executive" =>
        /\ {"hc_open", "flow", "RESPONSE_PENDING", "EMERGENCY", "OLA_OVERDUE"} \subseteq Elements(Queries(c))
        /\ Courts \subseteq Elements(Queries(c))
  BY <1>3, ViewOf, ExecutiveNames
<1>9. Current /\ Keyed
  BY <1>6 DEF Current, Keyed
<1>10. FlowAgrees /\ VerdictHasACause
  BY <1>2, <1>7, <1>8 DEF FlowAgrees, VerdictHasACause, Warnings
<1> QED
  BY <1>4, <1>5, <1>9, <1>10 DEF RenderInv

-----------------------------------------------------------------------------
(* A query runs.                                                            *)
LEMMA RunFacts ==
    ASSUME RenderInv, RunQuery
    PROVE  LET c == page.request
           IN \E q \in Elements(Queries(c)) :
                /\ PageType'
                /\ page'.request = c
                /\ page'.got = [page.got EXCEPT ![q] = Result(q, db, c)]
                /\ \A p : Ran(p)' => Ran(p) \/ p = q
                /\ db' = db /\ seen' = seen
<1> DEFINE c == page.request
           q == Queries(c)[page.ran + 1]
<1>1. /\ c \in PageRequests
      /\ page = [request |-> c, ran |-> page.ran, got |-> page.got]
      /\ page.ran \in 0 .. Len(Queries(c))
      /\ page.got = [p \in Elements(Queries(c)) |-> page.got[p]]
  BY DEF RenderInv, PageType
<1>2. /\ page.ran # Len(Queries(c))
      /\ page' = [page EXCEPT !.ran = page.ran + 1, !.got[q] = Result(q, db, c)]
      /\ db' = db /\ seen' = seen
  BY DEF RunQuery, Rendered
<1>3. PICK n : n = page.ran + 1
  OBVIOUS
<1>4. PICK g : g = [page.got EXCEPT ![q] = Result(q, db, c)]
  OBVIOUS
<1>5. page' = [request |-> c, ran |-> n, got |-> g]
  <2>1. PICK r : r = page.ran
    OBVIOUS
  <2>2. PICK h : h = page.got
    OBVIOUS
  <2>3. page = [request |-> c, ran |-> r, got |-> h]
    BY <1>1, <2>1, <2>2
  <2>4. page' = [page EXCEPT !.ran = n, !.got = g]
    BY <1>2, <1>3, <1>4
  <2> HIDE DEF c, q
  <2> QED
    BY <2>3, <2>4
<1>6. page'.request = c /\ page'.ran = n /\ page'.got = g
  BY <1>5
<1>7. c.view \in Views
  BY <1>1, RequestFacts
<1>8. n \in 1 .. Len(Queries(c)) /\ Len(Queries(c)) \in Nat /\ page.ran \in Nat
  BY <1>1, <1>2, <1>3, <1>7, QueriesAreSequences
<1>9. q \in Elements(Queries(c)) /\ q = Queries(c)[n]
  BY <1>3, <1>7, <1>8, QueriesAreSequences DEF Elements
<1>10. PageType'
  <2>1. g = [p \in Elements(Queries(c)) |-> g[p]]
    BY <1>1, <1>4
  <2>2. n \in 0 .. Len(Queries(c))
    BY <1>8
  <2>3. page' = [request |-> page'.request, ran |-> page'.ran, got |-> page'.got]
    BY <1>5
  <2> QED
    BY <1>1, <1>6, <2>1, <2>2, <2>3 DEF PageType
<1>11. ASSUME NEW p, Ran(p)' PROVE Ran(p) \/ p = q
  <2>1. PICK i \in 1 .. n : Queries(c)[i] = p
    BY <1>6, <1>11 DEF Ran
  <2>2. i \in 1 .. page.ran \/ i = n
    BY <1>3, <1>8
  <2> QED
    BY <1>9, <2>1, <2>2 DEF Ran
<1> HIDE DEF q
<1> QED
  BY <1>2, <1>4, <1>6, <1>9, <1>10, <1>11

LEMMA KeyedResult ==
    ASSUME NEW c, c.view \in Views, NEW d, NEW q \in Bundled \cap Elements(Queries(c)),
           NEW t \in Base(q, d, c)
    PROVE  <<incident_key(d, t), "incident">> \in Result(q, d, c)
<1>1. CASE c.view = "executive"
  <2>1. q \in Elements(ExecutiveQueries) /\ Result(q, d, c) = ExecutiveQuery(q, d, c)
    BY <1>1, ViewOf
  <2>2. q \in {"total_hc", "hc_total", "hc_open", "EMERGENCY"}
    BY <2>1, ExecutiveNames DEF Bundled, ResponsePills, Courts
  <2>3. CASE q = "hc_total"
    <3>1. ExecutiveQuery(q, d, c) = Incidents(d, Base(q, d, c))
      BY <2>3 DEF ExecutiveQuery, Base, ResponsePills, Courts
    <3> QED
      BY <2>1, <3>1 DEF Incidents
  <2>4. CASE q = "hc_open"
    <3>1. ExecutiveQuery(q, d, c) =
            Incidents(d, {u \in Filtered(d, c) \cap HighCritical(d) : d[u].status # "CANCELLED"} \cap Active(d))
      BY <2>4 DEF ExecutiveQuery, ResponsePills, Courts
    <3>2. t \in Filtered(d, c) \cap HighCritical(d) /\ t \in Active(d)
      BY <2>4 DEF Base
    <3>3. d[t].status # "CANCELLED"
      BY <3>2 DEF Active, TERMINAL_STATUSES
    <3> QED
      BY <2>1, <3>1, <3>2, <3>3 DEF Incidents
  <2>5. CASE q = "EMERGENCY"
    <3>1. ExecutiveQuery(q, d, c) = Incidents(d, {u \in Active(d) : d[u].emergency})
      BY <2>5 DEF ExecutiveQuery, ResponsePills, Courts
    <3>2. t \in {u \in Active(d) : d[u].emergency}
      BY <2>5 DEF Base
    <3> QED
      BY <2>1, <3>1, <3>2 DEF Incidents
  <2>6. CASE q = "total_hc"
    <3>1. ExecutiveQuery(q, d, c) = Incidents(d, HighCritical(d))
      BY <2>6 DEF ExecutiveQuery, ResponsePills, Courts
    <3>2. t \in HighCritical(d)
      BY <2>6 DEF Base
    <3> QED
      BY <2>1, <3>1, <3>2 DEF Incidents
  <2> QED
    BY <2>2, <2>3, <2>4, <2>5, <2>6
<1>2. CASE c.view = "snapshot"
  <2>1. q \in Elements(SnapshotQueries) /\ Result(q, d, c) = SnapshotQuery(q, d)
    BY <1>2, ViewOf
  <2>2. q = "emergency_open_incidents"
    BY <2>1, OtherNames DEF Bundled
  <2>3. SnapshotQuery(q, d) = Incidents(d, {u \in Active(d) : d[u].emergency})
    BY <2>2 DEF SnapshotQuery, compute_kpi_row
  <2>4. t \in {u \in Active(d) : d[u].emergency}
    BY <2>2 DEF Base
  <2> QED
    BY <2>1, <2>3, <2>4 DEF Incidents
<1>3. CASE c.view \in Views \ {"executive", "snapshot"}
  <2>1. Queries(c) \in {DashboardQueries, QueueQueries, TriageQueries, ListQueries, HistoryQueries}
    BY <1>3, ViewOf DEF Views
  <2> QED
    BY <2>1, DashboardNames, OtherNames DEF Bundled
<1> QED
  BY <1>1, <1>2, <1>3

\* Once the trend shows anything it shows all that was received and completed.
LEMMA FlowIsWhole ==
    ASSUME NEW d, NEW c, \A t \in Tickets : d[t].asked \in Nat /\ d[t].answered \in Nat,
           response_flow_series(d, c) # {}, NEW t, NEW x
    PROVE  <<t, x>> \in response_flow_series(d, c) <=>
              \/ x = "RECEIVED" /\ t \in Received(d, c)
              \/ x = "DONE" /\ t \in Completed(d, c)
<1> DEFINE dated == {d[u].asked : u \in Received(d, c)} \cup {d[u].answered : u \in Completed(d, c)}
           InTrend(day) == IF c.period THEN day <= PeriodDays ELSE \E first \in dated : day <= first
           R == {u \in Received(d, c) : InTrend(d[u].asked)}
           C == {u \in Completed(d, c) : InTrend(d[u].answered)}
<1>1. response_flow_series(d, c) = In(R, "RECEIVED") \cup In(C, "DONE")
  BY DEF response_flow_series
<1>2. ASSUME NEW u \in Received(d, c) PROVE InTrend(d[u].asked)
  <2>1. d[u].asked \in Nat /\ d[u].asked \in dated
    BY DEF Received, Requested
  <2>2. CASE c.period
    BY <2>2 DEF Received, InPeriod
  <2>3. CASE ~c.period
    <3>1. d[u].asked <= d[u].asked
      BY <2>1
    <3> HIDE DEF dated
    <3> QED
      BY <2>1, <2>3, <3>1
  <2> QED
    BY <2>2, <2>3
<1>3. ASSUME NEW u \in Completed(d, c) PROVE InTrend(d[u].answered)
  <2>1. d[u].answered \in Nat /\ d[u].answered \in dated
    BY DEF Completed, Requested
  <2>2. CASE c.period
    BY <2>2 DEF Completed, InPeriod
  <2>3. CASE ~c.period
    <3>1. d[u].answered <= d[u].answered
      BY <2>1
    <3> HIDE DEF dated
    <3> QED
      BY <2>1, <2>3, <3>1
  <2> QED
    BY <2>2, <2>3
<1>4. R = Received(d, c) /\ C = Completed(d, c)
  <2> HIDE DEF InTrend
  <2> QED
    BY <1>2, <1>3
<1> HIDE DEF R, C
<1> QED
  BY <1>1, <1>4, InPairs

LEMMA CauseOf ==
    ASSUME NEW d, NEW c, NEW q, ExecutiveQuery(q, d, c) # {}
    PROVE  /\ q \in Warnings => \E t \in Tickets : Burns(d[t])
           /\ q \in Courts \cup {"RESPONSE_PENDING"} =>
                \E t \in Tickets : d[t].status \notin TERMINAL_STATUSES
<1>1. ASSUME q = "EMERGENCY" PROVE \E t \in Tickets : Burns(d[t])
  <2>1. ExecutiveQuery(q, d, c) = Incidents(d, {t \in Active(d) : d[t].emergency})
    BY <1>1 DEF ExecutiveQuery, ResponsePills, Courts
  <2>2. PICK t \in Active(d) : d[t].emergency
    BY <2>1 DEF Incidents
  <2> QED
    BY <2>2 DEF Active, Burns
<1>2. ASSUME q = "OLA_OVERDUE" PROVE \E t \in Tickets : Burns(d[t])
  <2>1. ExecutiveQuery(q, d, c) = In(Active(d) \cap Overdue(d), q)
    BY <1>2 DEF ExecutiveQuery, ResponsePills, Courts
  <2>2. PICK t \in Active(d) : t \in Overdue(d)
    BY <2>1 DEF In
  <2> QED
    BY <2>2 DEF Active, Overdue, Burns
<1>3. ASSUME q \in Courts PROVE \E t \in Tickets : d[t].status \notin TERMINAL_STATUSES
  <2>1. ExecutiveQuery(q, d, c) = In({t \in Active(d) : d[t].status \in EXEC_COURT_GROUPS(q)}, q)
    BY <1>3 DEF ExecutiveQuery, ResponsePills, Courts
  <2>2. PICK t : t \in Active(d)
    BY <2>1 DEF In
  <2> QED
    BY <2>2 DEF Active
<1>4. ASSUME q = "RESPONSE_PENDING" PROVE \E t \in Tickets : d[t].status \notin TERMINAL_STATUSES
  <2>1. ExecutiveQuery(q, d, c) = In(active_response(d), q)
    BY <1>4 DEF ExecutiveQuery, ResponsePills, Courts
  <2>2. PICK t : t \in Active(d)
    BY <2>1 DEF In, active_response
  <2> QED
    BY <2>2 DEF Active
<1> QED
  BY <1>1, <1>2, <1>3, <1>4 DEF Warnings

LEMMA RunKeepsInv == RenderInv /\ RunQuery => RenderInv'
<1> SUFFICES ASSUME RenderInv, RunQuery PROVE RenderInv'
  OBVIOUS
<1> DEFINE c == page.request
<1>1. PICK q \in Elements(Queries(c)) :
        /\ PageType'
        /\ page'.request = c
        /\ page'.got = [page.got EXCEPT ![q] = Result(q, db, c)]
        /\ \A p : Ran(p)' => Ran(p) \/ p = q
        /\ db' = db /\ seen' = seen
  BY RunFacts
<1>2. /\ c \in PageRequests
      /\ page.got = [p \in Elements(Queries(c)) |-> page.got[p]]
  BY DEF RenderInv, PageType
<1>3. c.view \in Views
  BY <1>2, RequestFacts
<1>4. /\ page'.got[q] = Result(q, db, c)
      /\ \A p \in Elements(Queries(c)) : p # q => page'.got[p] = page.got[p]
  <2> HIDE DEF c
  <2> QED
    BY <1>1, <1>2
<1>5. \A t : Steady(t)' <=> Steady(t)
  BY <1>1 DEF Steady
<1>6. RowsType'
  BY <1>1 DEF RenderInv, RowsType
<1>7. Current'
  <2> SUFFICES ASSUME NEW p \in Elements(Queries(c)) \ Shared, Ran(p)',
                      NEW t \in DOMAIN db, Steady(t)
               PROVE  CellsOf(page'.got[p], t) = CellsOf(Result(p, db, c), t)
    BY <1>1, <1>5 DEF Current, Cells
  <2>1. CASE p = q
    BY <1>4, <2>1
  <2>2. CASE p # q
    <3>1. page'.got[p] = page.got[p]
      BY <1>4, <2>2
    <3>2. Ran(p)
      BY <1>1, <2>2
    <3>3. CellsOf(page.got[p], t) = CellsOf(Result(p, db, c), t)
      BY <3>2 DEF RenderInv, Current, Cells
    <3> QED
      BY <3>1, <3>3
  <2> QED
    BY <2>1, <2>2
<1>8. Keyed'
  <2> SUFFICES ASSUME NEW p \in Bundled \cap Elements(Queries(c)), Ran(p)',
                      NEW t \in Base(p, db, c), Steady(t)
               PROVE  <<incident_key(db, t), "incident">> \in page'.got[p]
    BY <1>1, <1>5 DEF Keyed, IncidentOf
  <2>1. CASE p = q
    BY <1>3, <1>4, <2>1, KeyedResult
  <2>2. CASE p # q
    <3>1. page'.got[p] = page.got[p]
      BY <1>4, <2>2
    <3>2. Ran(p)
      BY <1>1, <2>2
    <3> QED
      BY <3>1, <3>2 DEF RenderInv, Keyed, IncidentOf
  <2> QED
    BY <2>1, <2>2
<1>9. FlowAgrees'
  <2> SUFFICES ASSUME c.view = "executive", page'.got["flow"] # {}, NEW t \in Tickets, Steady(t)
               PROVE  /\ "RECEIVED" \in CellsOf(page'.got["flow"], t) <=> t \in Received(db, c)
                      /\ "DONE" \in CellsOf(page'.got["flow"], t) <=> t \in Completed(db, c)
                      /\ CellsOf(page'.got["flow"], t) \subseteq {"RECEIVED", "DONE"}
    BY <1>1, <1>5 DEF FlowAgrees, Cells
  <2>1. "flow" \in Elements(Queries(c)) /\ Result(q, db, c) = ExecutiveQuery(q, db, c)
    BY <1>3, ViewOf, ExecutiveNames
  <2>2. CASE q = "flow"
    <3>1. page'.got["flow"] = response_flow_series(db, c)
      BY <1>4, <2>1, <2>2 DEF ExecutiveQuery, ResponsePills, Courts
    <3>2. \A u \in Tickets : db[u].asked \in Nat /\ db[u].answered \in Nat
      <4>1. PageSource(c) = Tickets
        BY <1>3, ViewOf
      <4>2. \A u \in Tickets : u \notin Alerts
        BY PagesAssumption DEF PagesAssumption
      <4>3. \A u \in Tickets : db[u] \in Row
        BY <4>1, <4>2 DEF RenderInv, RowsType, TicketRow
      <4> QED
        BY <4>3 DEF Row
    <3>3. \A x : <<t, x>> \in response_flow_series(db, c) <=>
                    \/ x = "RECEIVED" /\ t \in Received(db, c)
                    \/ x = "DONE" /\ t \in Completed(db, c)
      BY <3>1, <3>2, FlowIsWhole
    <3>4. \A x : x \in CellsOf(page'.got["flow"], t) <=>
                    \/ x = "RECEIVED" /\ t \in Received(db, c)
                    \/ x = "DONE" /\ t \in Completed(db, c)
      <4>1. \A x : x \in CellsOf(page'.got["flow"], t) <=> <<t, x>> \in page'.got["flow"]
        BY CellIn
      <4> QED
        BY <3>1, <3>3, <4>1
    <3> HIDE DEF c
    <3> QED
      BY <3>4
  <2>3. CASE q # "flow"
    <3>1. page'.got["flow"] = page.got["flow"]
      BY <1>4, <2>1, <2>3
    <3> QED
      BY <3>1 DEF RenderInv, FlowAgrees, Cells
  <2> QED
    BY <2>2, <2>3
<1>10. VerdictHasACause'
  <2> SUFFICES ASSUME c.view = "executive"
               PROVE  /\ \A p \in Warnings : page'.got[p] # {} =>
                            \E t \in Tickets : \E row \in seen[t] : Burns(row)
                      /\ \A p \in Courts \cup {"RESPONSE_PENDING"} : page'.got[p] # {} =>
                            \E t \in Tickets : \E row \in seen[t] : row.status \notin TERMINAL_STATUSES
    BY <1>1 DEF VerdictHasACause
  <2>1. /\ Warnings \cup Courts \cup {"RESPONSE_PENDING"} \subseteq Elements(Queries(c))
        /\ Result(q, db, c) = ExecutiveQuery(q, db, c)
    BY <1>3, ViewOf, ExecutiveNames DEF Warnings
  <2>2. \A t \in Tickets : db[t] \in seen[t]
    <3>1. PageSource(c) = Tickets
      BY <1>3, ViewOf
    <3> QED
      BY <3>1 DEF RenderInv, RowsType
  <2>3. ASSUME NEW p \in Warnings, page'.got[p] # {}
        PROVE  \E t \in Tickets : \E row \in seen[t] : Burns(row)
    <3>1. CASE p = q
      <4>1. PICK t \in Tickets : Burns(db[t])
        BY <1>4, <2>1, <2>3, <3>1, CauseOf
      <4> QED
        BY <2>2, <4>1
    <3>2. CASE p # q
      <4>1. page.got[p] # {}
        BY <1>4, <2>1, <2>3, <3>2
      <4> QED
        BY <4>1 DEF RenderInv, VerdictHasACause
    <3> QED
      BY <3>1, <3>2
  <2>4. ASSUME NEW p \in Courts \cup {"RESPONSE_PENDING"}, page'.got[p] # {}
        PROVE  \E t \in Tickets : \E row \in seen[t] : row.status \notin TERMINAL_STATUSES
    <3>1. CASE p = q
      <4>1. PICK t \in Tickets : db[t].status \notin TERMINAL_STATUSES
        BY <1>4, <2>1, <2>4, <3>1, CauseOf
      <4> QED
        BY <2>2, <4>1
    <3>2. CASE p # q
      <4>1. page.got[p] # {}
        BY <1>4, <2>1, <2>4, <3>2
      <4>2. (\E k \in Courts \cup {"RESPONSE_PENDING"} : page.got[k] # {}) =>
                \E t \in Tickets : \E row \in seen[t] : row.status \notin TERMINAL_STATUSES
        BY DEF RenderInv, VerdictHasACause
      <4> QED
        BY <4>1, <4>2
    <3> QED
      BY <3>1, <3>2
  <2> QED
    BY <2>3, <2>4
<1> QED
  BY <1>1, <1>6, <1>7, <1>8, <1>9, <1>10 DEF RenderInv

-----------------------------------------------------------------------------
(* Another request commits.                                                 *)
LEMMA MoveFacts ==
    ASSUME RenderInv, NEW u \in DOMAIN db, Move(u)
    PROVE  /\ page' = page /\ RowsType' /\ DOMAIN db' = DOMAIN db
           /\ \A t \in DOMAIN db : seen[t] \subseteq seen'[t]
<1> DEFINE source == PageSource(page.request)
<1>1. /\ db \in [source -> Row \cup Alert]
      /\ \A t \in source : db[t] \in IF t \in Alerts THEN Alert ELSE TicketRow
      /\ seen \in [source -> SUBSET (Row \cup Alert)]
      /\ \A t \in source : db[t] \in seen[t]
  BY DEF RenderInv, RowsType
<1>2. PICK row : /\ row \in IF u \in Alerts THEN AlertMoves(db[u])
                            ELSE IF db[u].status = "CANCELLED" THEN {}
                            ELSE TicketMoves(db[u]) \cup RequestMoves(db[u])
                 /\ db' = [db EXCEPT ![u] = row]
                 /\ seen' = [seen EXCEPT ![u] = seen[u] \cup {row}]
                 /\ page' = page
  BY DEF Move
<1> HIDE DEF source
<1>3. u \in source
  BY <1>1
<1>4. row \in IF u \in Alerts THEN Alert ELSE TicketRow
  <2>1. CASE u \in Alerts
    BY <1>1, <1>2, <1>3, <2>1, AlertMovesKeep
  <2>2. CASE u \notin Alerts
    BY <1>1, <1>2, <1>3, <2>2, TicketMovesKeep, RequestMovesKeep
  <2> QED
    BY <2>1, <2>2
<1>5. row \in Row \cup Alert
  BY <1>4 DEF TicketRow
<1>6. /\ db' \in [source -> Row \cup Alert]
      /\ \A t \in source : db'[t] \in IF t \in Alerts THEN Alert ELSE TicketRow
  BY <1>1, <1>2, <1>4, <1>5
<1>7. /\ seen' \in [source -> SUBSET (Row \cup Alert)]
      /\ \A t \in source : db'[t] \in seen'[t]
  BY <1>1, <1>2, <1>5
<1>8. RowsType'
  BY <1>2, <1>6, <1>7 DEF RowsType, source
<1>9. \A t \in source : seen[t] \subseteq seen'[t]
  BY <1>1, <1>2
<1> QED
  BY <1>1, <1>2, <1>6, <1>8, <1>9

LEMMA MoveKeepsInv ==
    ASSUME RenderInv, NEW u \in DOMAIN db, Move(u)
    PROVE  RenderInv'
<1> DEFINE c == page.request
<1>1. /\ page' = page /\ RowsType' /\ DOMAIN db' = DOMAIN db
      /\ \A t \in DOMAIN db : seen[t] \subseteq seen'[t]
  BY MoveFacts
<1>2. c \in PageRequests /\ c.view \in Views
  BY RequestFacts DEF RenderInv, PageType
<1>3. DOMAIN db = PageSource(c) /\ \A t \in DOMAIN db : db[t] \in seen[t]
  BY DEF RenderInv, RowsType
<1>4. ASSUME NEW t, Steady(t)'
      PROVE  Steady(t) /\ db'[t] = db[t] /\ t \in DOMAIN db
  <2>1. t \in DOMAIN db /\ seen'[t] = {db'[t]}
    BY <1>1, <1>4 DEF Steady
  <2> QED
    BY <1>1, <1>3, <2>1 DEF Steady
<1>5. \A q : Ran(q)' <=> Ran(q)
  BY <1>1 DEF Ran
<1>6. PageType'
  BY <1>1 DEF RenderInv, PageType
<1>7. Current'
  <2> SUFFICES ASSUME NEW q \in Elements(Queries(c)) \ Shared, Ran(q), NEW t, Steady(t)'
               PROVE  CellsOf(page.got[q], t) = CellsOf(Result(q, db', c), t)
    BY <1>1, <1>5 DEF Current, Cells
  <2>1. Steady(t) /\ db'[t] = db[t] /\ t \in PageSource(c)
    BY <1>3, <1>4
  <2>2. CellsOf(page.got[q], t) = CellsOf(Result(q, db, c), t)
    BY <1>3, <2>1 DEF RenderInv, Current, Cells
  <2>3. \A x : <<t, x>> \in Result(q, db, c) <=> <<t, x>> \in Result(q, db', c)
    BY <1>2, <2>1, ResultLocal
  <2>4. CellsOf(Result(q, db, c), t) = CellsOf(Result(q, db', c), t)
    BY <2>3, SameCells
  <2> QED
    BY <2>2, <2>4
<1>8. Keyed'
  <2> SUFFICES ASSUME NEW q \in Bundled \cap Elements(Queries(c)), Ran(q),
                      NEW t \in Base(q, db', c), Steady(t)'
               PROVE  <<incident_key(db', t), "incident">> \in page.got[q]
    BY <1>1, <1>5 DEF Keyed, IncidentOf
  <2>1. Steady(t) /\ db'[t] = db[t]
    BY <1>4
  <2>2. t \in Tickets
    BY DEF Base, Filtered, Active, HighCritical
  <2>3. /\ t \in Active(db') <=> t \in Active(db)
        /\ t \in HighCritical(db') <=> t \in HighCritical(db)
        /\ t \in Filtered(db', c) <=> t \in Filtered(db, c)
        /\ incident_key(db', t) = incident_key(db, t)
    BY <2>1, <2>2, ScopesLocal
  <2>4. t \in Base(q, db, c)
    BY <2>1, <2>2, <2>3 DEF Base
  <2>5. <<incident_key(db, t), "incident">> \in page.got[q]
    BY <2>1, <2>4 DEF RenderInv, Keyed, IncidentOf
  <2> QED
    BY <2>3, <2>5
<1>9. FlowAgrees'
  <2> SUFFICES ASSUME c.view = "executive", page.got["flow"] # {}, NEW t \in Tickets, Steady(t)'
               PROVE  /\ "RECEIVED" \in Cells("flow", t) <=> t \in Received(db', c)
                      /\ "DONE" \in Cells("flow", t) <=> t \in Completed(db', c)
                      /\ Cells("flow", t) \subseteq {"RECEIVED", "DONE"}
    BY <1>1 DEF FlowAgrees, Cells
  <2>1. Steady(t) /\ db'[t] = db[t]
    BY <1>4
  <2>2. /\ t \in Received(db', c) <=> t \in Received(db, c)
        /\ t \in Completed(db', c) <=> t \in Completed(db, c)
    BY <2>1, ScopesLocal
  <2> QED
    BY <2>1, <2>2 DEF RenderInv, FlowAgrees
<1>10. VerdictHasACause'
  <2> SUFFICES ASSUME c.view = "executive"
               PROVE  \A t \in Tickets : seen[t] \subseteq seen'[t]
    BY <1>1 DEF RenderInv, VerdictHasACause
  <2> QED
    BY <1>1, <1>2, <1>3, ViewOf
<1> QED
  BY <1>1, <1>6, <1>7, <1>8, <1>9, <1>10 DEF RenderInv

LEMMA PageInvariant == PageSpec => []RenderInv
<1>1. ASSUME RenderInv, [PageNext]_page_vars PROVE RenderInv'
  <2>1. CASE RunQuery
    BY <1>1, <2>1, RunKeepsInv
  <2>2. CASE \E u \in DOMAIN db : Move(u)
    BY <1>1, <2>2, MoveKeepsInv
  <2>3. CASE UNCHANGED page_vars
    BY <1>1, <2>3 DEF page_vars, RenderInv, PageType, RowsType, Current, Keyed,
        FlowAgrees, VerdictHasACause, Ran, Cells, Steady, IncidentOf
  <2> QED
    BY <1>1, <2>1, <2>2, <2>3 DEF PageNext
<1> QED
  BY <1>1, PageInitInv, PTL DEF PageSpec

-----------------------------------------------------------------------------
(* A page that is complete.                                                 *)
LEMMA Complete ==
    ASSUME RenderInv, Rendered
    PROVE  LET c == page.request
           IN /\ c \in PageRequests /\ c.view \in Views
              /\ DOMAIN db = PageSource(c)
              /\ \A q \in Elements(Queries(c)) : Ran(q)
              /\ \A t : Steady(t) => \A q \in Elements(Queries(c)) \ Shared : \A x :
                    x \in Cells(q, t) <=> <<t, x>> \in Result(q, db, c)
<1> DEFINE c == page.request
<1>1. c \in PageRequests /\ c.view \in Views
  BY RequestFacts DEF RenderInv, PageType
<1>2. DOMAIN db = PageSource(c)
  BY DEF RenderInv, RowsType
<1>3. ASSUME NEW q \in Elements(Queries(c)) PROVE Ran(q)
  <2>1. PICK i \in 1 .. Len(Queries(c)) : Queries(c)[i] = q
    BY <1>1, QueriesAreSequences DEF Elements
  <2> QED
    BY <2>1 DEF Rendered, Ran
<1>4. ASSUME NEW t, Steady(t), NEW q \in Elements(Queries(c)) \ Shared, NEW x
      PROVE  x \in Cells(q, t) <=> <<t, x>> \in Result(q, db, c)
  <2>1. t \in DOMAIN db
    BY <1>4 DEF Steady
  <2>2. Cells(q, t) = CellsOf(Result(q, db, c), t)
    BY <1>3, <1>4, <2>1 DEF RenderInv, Current
  <2> QED
    BY <2>2, CellIn
<1> QED
  BY <1>1, <1>2, <1>3, <1>4

\* The SOC dashboard adds up.
LEMMA DashboardReconciles ==
    ASSUME RenderInv, Shown("dashboard"), NEW t, Steady(t)
    PROVE  /\ Total("active", t) = Total("pipeline", t)
           /\ Total("active", t) = Total("heat", t) + Total("unassigned", t)
           /\ Counted("claimed", t) => Cells("heat", t) = {"blocked"}
           /\ ~(Counted("finished", t) /\ Counted("seeded", t))
           /\ is_tier_analyst(db[t].verified_by) =>
                  Cells("finished", t) \cup Cells("seeded", t) \in {{}, {db[t].verified_by}}
<1> DEFINE c == page.request
           on == t \in Filtered(db, c) /\ t \in Active(db)
           closed == t \in Filtered(db, c) /\ db[t].status \in RESOLVED_STATUSES
           assigned == db[t].assigned_to # NoUser
           load == IF db[t].status \in ANALYST_BLOCKED_STATUSES THEN "blocked" ELSE "load"
<1>1. Rendered /\ c.view = "dashboard"
  BY DEF Shown
<1>2. t \in Tickets /\ Queries(c) = DashboardQueries /\ \A q : Result(q, db, c) = DashboardQuery(q, db, c)
  BY <1>1, Complete, ViewOf DEF Steady
<1>3. \A q \in Elements(DashboardQueries) : \A x :
          x \in Cells(q, t) <=> <<t, x>> \in DashboardQuery(q, db, c)
  BY <1>1, <1>2, Complete, DashboardNames DEF Shared
<1>4. \A x : x \in Cells("active", t) <=> on /\ x = "active"
  BY ZenonT(60), <1>2, <1>3, DashboardCells, DashboardNames
<1>5. \A x : x \in Cells("pipeline", t) <=> on /\ x = <<db[t].severity, db[t].status>>
  BY ZenonT(60), <1>2, <1>3, DashboardCells, DashboardNames
<1>6. \A x : x \in Cells("heat", t) <=> (on /\ assigned) /\ x = load
  BY ZenonT(60), <1>2, <1>3, DashboardCells, DashboardNames
<1>7. \A x : x \in Cells("unassigned", t) <=> (on /\ ~assigned) /\ x = "unassigned"
  BY ZenonT(60), <1>2, <1>3, DashboardCells, DashboardNames
<1>8. Counted("claimed", t) => on /\ db[t].status \in TIER2_QUEUE_STATUSES /\ assigned
  BY ZenonT(60), <1>2, <1>3, DashboardCells, DashboardNames DEF Counted
<1>9. \A x : x \in Cells("finished", t) <=> closed /\ db[t].closers # {} /\ x \in Credited(db[t])
  BY ZenonT(60), <1>2, <1>3, DashboardCells, DashboardNames
<1>10. \A x : x \in Cells("seeded", t) <=> closed /\ db[t].closers = {} /\ x \in SeededCredit(db[t])
  BY ZenonT(60), <1>2, <1>3, DashboardCells, DashboardNames
<1> HIDE DEF on, closed, load, assigned, c
<1>11. /\ Cells("active", t) = IF on THEN {"active"} ELSE {}
       /\ Total("active", t) = IF on THEN 1 ELSE 0
  <2>1. Cells("active", t) = IF on THEN {"active"} ELSE {}
    BY <1>4
  <2>2. CASE on
    BY <2>1, <2>2, FS_Singleton DEF Total
  <2>3. CASE ~(on)
    BY <2>1, <2>3, FS_EmptySet DEF Total
  <2> QED
    BY <2>1, <2>2, <2>3
<1>12. /\ Cells("pipeline", t) = IF on THEN {<<db[t].severity, db[t].status>>} ELSE {}
       /\ Total("pipeline", t) = IF on THEN 1 ELSE 0
  <2>1. Cells("pipeline", t) = IF on THEN {<<db[t].severity, db[t].status>>} ELSE {}
    BY <1>5
  <2>2. CASE on
    BY <2>1, <2>2, FS_Singleton DEF Total
  <2>3. CASE ~(on)
    BY <2>1, <2>3, FS_EmptySet DEF Total
  <2> QED
    BY <2>1, <2>2, <2>3
<1>13. /\ Cells("heat", t) = IF on /\ assigned THEN {load} ELSE {}
       /\ Total("heat", t) = IF on /\ assigned THEN 1 ELSE 0
  <2>1. Cells("heat", t) = IF on /\ assigned THEN {load} ELSE {}
    BY <1>6
  <2>2. CASE on /\ assigned
    BY <2>1, <2>2, FS_Singleton DEF Total
  <2>3. CASE ~(on /\ assigned)
    BY <2>1, <2>3, FS_EmptySet DEF Total
  <2> QED
    BY <2>1, <2>2, <2>3
<1>14. /\ Cells("unassigned", t) = IF on /\ ~assigned THEN {"unassigned"} ELSE {}
       /\ Total("unassigned", t) = IF on /\ ~assigned THEN 1 ELSE 0
  <2>1. Cells("unassigned", t) = IF on /\ ~assigned THEN {"unassigned"} ELSE {}
    BY <1>7
  <2>2. CASE on /\ ~assigned
    BY <2>1, <2>2, FS_Singleton DEF Total
  <2>3. CASE ~(on /\ ~assigned)
    BY <2>1, <2>3, FS_EmptySet DEF Total
  <2> QED
    BY <2>1, <2>2, <2>3
<1>15. Counted("claimed", t) => Cells("heat", t) = {"blocked"}
  <2>1. TIER2_QUEUE_STATUSES \subseteq ANALYST_BLOCKED_STATUSES
    BY DEF TIER2_QUEUE_STATUSES, ANALYST_BLOCKED_STATUSES
  <2> QED
      BY <1>8, <1>13, <2>1 DEF load
<1>16. ~(Counted("finished", t) /\ Counted("seeded", t))
  BY <1>9, <1>10 DEF Counted
<1>17. ASSUME is_tier_analyst(db[t].verified_by)
       PROVE  Cells("finished", t) \cup Cells("seeded", t) \in {{}, {db[t].verified_by}}
  <2>1. db[t].verified_by # NoUser
    BY <1>17, AccountsAssumption DEF AccountsAssumption, is_tier_analyst
  <2>2. Credited(db[t]) = {db[t].verified_by}
    BY <1>17, <2>1 DEF Credited
  <2>3. ASSUME NEW u \in SeededCredit(db[t]) PROVE u = db[t].verified_by
    <3> DEFINE s == <<db[t].verified_by, db[t].approved_by, db[t].assigned_to, db[t].created_by>>
    <3>1. PICK k \in 1 .. 4 : u = s[k] /\ \A j \in 1 .. k - 1 : ~is_tier_analyst(s[j])
      BY <2>3 DEF SeededCredit
    <3>2. s[1] = db[t].verified_by
      OBVIOUS
    <3>3. k # 1 => 1 \in 1 .. k - 1
      OBVIOUS
    <3> HIDE DEF s
    <3> QED
      BY <1>17, <3>1, <3>2, <3>3
  <2>4. \A x : x \in Cells("finished", t) \cup Cells("seeded", t) => x = db[t].verified_by
    BY <1>9, <1>10, <2>2, <2>3
  <2> QED
    BY <2>4
<1> QED
  BY <1>11, <1>12, <1>13, <1>14, <1>15, <1>16, <1>17

\* A set of two.
LEMMA TwoCells ==
    ASSUME NEW v, NEW w, v # w
    PROVE  Cardinality({v, w}) = 2
<1>1. IsFiniteSet({v}) /\ Cardinality({v}) = 1
  BY FS_Singleton
<1>2. Cardinality({v} \cup {w}) = 2
  BY <1>1, FS_AddElement
<1>3. {v} \cup {w} = {v, w}
  OBVIOUS
<1> QED
  BY <1>2, <1>3

\* An alert of the triage queue is in the rows of pills the analyst selected.
LEMMA TriageReconciles ==
    ASSUME RenderInv, Shown("triage_queue"), NEW t, Steady(t)
    PROVE  LET c == page.request IN
           /\ Counted("alerts", t) <=> c.claim \in Cells("claims", t)
           /\ Counted("alerts", t) <=> c.ola \in Cells("olas", t)
           /\ Counted("alerts", t) <=> c.level \in Cells("levels", t)
           /\ Counted("levels", t) => Total("levels", t) = 2
           /\ Counted("olas", t) => Total("olas", t) = 2
<1> DEFINE c == page.request
           Row_(k, o, l) == /\ t \in TriageQueue(db) /\ apply_claim(db[t], k, c.viewer)
                            /\ apply_ola(db[t], o) /\ apply_level(db[t], l)
<1>1. Rendered /\ c.view = "triage_queue"
  BY DEF Shown
<1>2. /\ t \in Alerts /\ Queries(c) = TriageQueries
      /\ \A q : Result(q, db, c) = TriageQuery(q, db, c)
  BY <1>1, Complete, ViewOf DEF Steady
<1>3. \A q \in Elements(TriageQueries) : \A x :
          x \in Cells(q, t) <=> <<t, x>> \in TriageQuery(q, db, c)
  BY <1>1, <1>2, Complete, OtherNames DEF Shared
<1>4. \A k, o, l : t \in TriageRows(db, c, k, o, l) <=> Row_(k, o, l)
  BY DEF TriageRows
<1>5. \A x : x \in Cells("alerts", t) <=> t \in TriageRows(db, c, c.claim, c.ola, c.level) /\ x = "alerts"
  BY ZenonT(30), <1>3, TriageCells, OtherNames
<1>6. \A x : x \in Cells("claims", t) <=> /\ t \in TriageRows(db, c, "all", c.ola, c.level)
                                          /\ x \in ClaimFacets /\ apply_claim(db[t], x, c.viewer)
  BY ZenonT(30), <1>3, TriageCells, OtherNames
<1>7. \A x : x \in Cells("olas", t) <=> /\ t \in TriageRows(db, c, c.claim, "", c.level)
                                        /\ x \in OlaFacets /\ apply_ola(db[t], x)
  BY ZenonT(30), <1>3, TriageCells, OtherNames
<1>8. \A x : x \in Cells("levels", t) <=> /\ t \in TriageRows(db, c, c.claim, c.ola, "")
                                          /\ x \in LevelFacets /\ apply_level(db[t], x)
  BY ZenonT(30), <1>3, TriageCells, OtherNames
<1>9. c.claim \in ClaimFacets /\ c.ola \in OlaFacets /\ c.level \in LevelFacets
  BY <1>1, Complete, RequestFacts DEF PageRequest, OlaFacets, LevelFacets
<1>10. apply_claim(db[t], "all", c.viewer) /\ apply_ola(db[t], "") /\ apply_level(db[t], "")
  BY DEF apply_claim, apply_ola, apply_level
<1>11. db[t].age \in Nat /\ db[t].rule_level \in Nat
  <2>1. db[t] \in Alert
    BY <1>2, Complete, <1>1 DEF RenderInv, RowsType, Steady
  <2> QED
    BY <2>1 DEF Alert
<1>12. Counted("alerts", t) <=> Row_(c.claim, c.ola, c.level)
  BY <1>4, <1>5 DEF Counted
<1> HIDE DEF c
<1>13. Counted("alerts", t) <=> c.claim \in Cells("claims", t)
  BY <1>4, <1>6, <1>9, <1>10, <1>12
<1>14. Counted("alerts", t) <=> c.ola \in Cells("olas", t)
  BY <1>4, <1>7, <1>9, <1>10, <1>12
<1>15. Counted("alerts", t) <=> c.level \in Cells("levels", t)
  BY <1>4, <1>8, <1>9, <1>10, <1>12
<1>16. ASSUME Counted("levels", t) PROVE Total("levels", t) = 2
  <2>1. PICK l : l = IF db[t].rule_level >= 15 THEN "15"
                     ELSE IF db[t].rule_level >= 12 THEN "12" ELSE "under12"
    OBVIOUS
  <2>2. \A x \in LevelFacets : apply_level(db[t], x) <=> x = "" \/ x = l
    <3> DEFINE h == db[t].rule_level
    <3>1. /\ apply_level(db[t], "15") <=> h >= 15
          /\ apply_level(db[t], "12") <=> h \in 12 .. 14
          /\ apply_level(db[t], "under12") <=> h < 12
      BY DEF apply_level
    <3>2. h \in Nat
      BY <1>11
    <3>3. l = IF h >= 15 THEN "15" ELSE IF h >= 12 THEN "12" ELSE "under12"
      BY <2>1
    <3> HIDE DEF h
    <3>4. /\ h >= 15 <=> l = "15"
          /\ h \in 12 .. 14 <=> l = "12"
          /\ h < 12 <=> l = "under12"
      BY <3>2, <3>3
    <3> QED
      BY <1>10, <3>1, <3>4 DEF LevelFacets
  <2>3. t \in TriageRows(db, c, c.claim, c.ola, "")
    BY <1>8, <1>16 DEF Counted
  <2>4. l \in LevelFacets /\ l # "" /\ "" \in LevelFacets
    BY <2>1 DEF LevelFacets
  <2>5. Cells("levels", t) = {"", l}
    BY <1>8, <2>2, <2>3, <2>4
  <2>6. Cardinality({"", l}) = 2
    BY <2>4, TwoCells
  <2> QED
    BY <2>5, <2>6 DEF Total
<1>17. ASSUME Counted("olas", t) PROVE Total("olas", t) = 2
  <2>1. PICK o : o = IF db[t].age > 4 THEN "breached" ELSE IF db[t].age >= 3 THEN "due" ELSE "on_track"
    OBVIOUS
  <2>2. \A x \in OlaFacets : apply_ola(db[t], x) <=> x = "" \/ x = o
    <3> DEFINE h == db[t].age
    <3>1. /\ apply_ola(db[t], "breached") <=> h > 4
          /\ apply_ola(db[t], "due") <=> h \in 4 - 1 .. 4
          /\ apply_ola(db[t], "on_track") <=> h < 4 - 1
      BY DEF apply_ola, OLA_HOURS
    <3>2. h \in Nat
      BY <1>11
    <3>3. o = IF h > 4 THEN "breached" ELSE IF h >= 3 THEN "due" ELSE "on_track"
      BY <2>1
    <3> HIDE DEF h
    <3>4. /\ h > 4 <=> o = "breached"
          /\ h \in 4 - 1 .. 4 <=> o = "due"
          /\ h < 4 - 1 <=> o = "on_track"
      BY <3>2, <3>3
    <3> QED
      BY <1>10, <3>1, <3>4 DEF OlaFacets
  <2>3. t \in TriageRows(db, c, c.claim, "", c.level)
    BY <1>7, <1>17 DEF Counted
  <2>4. o \in OlaFacets /\ o # "" /\ "" \in OlaFacets
    BY <2>1 DEF OlaFacets
  <2>5. Cells("olas", t) = {"", o}
    BY <1>7, <2>2, <2>3, <2>4
  <2>6. Cardinality({"", o}) = 2
    BY <2>4, TwoCells
  <2> QED
    BY <2>5, <2>6 DEF Total
<1> QED
  BY <1>13, <1>14, <1>15, <1>16, <1>17 DEF c

\* The night's snapshot adds up.
LEMMA SnapshotReconciles ==
    ASSUME RenderInv, Shown("snapshot"), NEW t, Steady(t)
    PROVE  /\ Total("queue", t) = Total("open_tickets", t)
           /\ Total("assigned", t) = Total("open_tickets", t)
           /\ Counted("unassigned_open", t) <=> \E x \in Cells("assigned", t) : x.user = NoUser
           /\ Counted("emergency_open_tickets", t) =>
                  <<incident_key(db, t), "incident">> \in page.got["emergency_open_incidents"]
           /\ Counted("responses", t) <=> Counted("response_open", t)
           /\ Counted("response_aged_7d", t) <=> \E x \in Cells("responses", t) : x.aged
<1> DEFINE c == page.request
           on == t \in Active(db)
           held == [user |-> db[t]["assigned_to"], status |-> db[t].status, severity |-> db[t].severity]
           asked == [function |-> db[t].function, status |-> db[t].request,
                     aged |-> t \in AgedRequests(db), hc |-> t \in HighCritical(db)]
<1>1. Rendered /\ c.view = "snapshot"
  BY DEF Shown
<1>2. t \in Tickets /\ Queries(c) = SnapshotQueries /\ \A q : Result(q, db, c) = SnapshotQuery(q, db)
  BY <1>1, Complete, ViewOf DEF Steady
<1>3. \A q \in Elements(SnapshotQueries) \ Shared : \A x :
          x \in Cells(q, t) <=> <<t, x>> \in SnapshotQuery(q, db)
  BY <1>1, <1>2, Complete
<1>4. {"queue", "assigned", "responses", "open_tickets", "unassigned_open", "emergency_open_tickets",
       "response_open", "response_aged_7d"} \subseteq Elements(SnapshotQueries) \ Shared
  BY OtherNames DEF Shared
<1>5. \A x : x \in Cells("queue", t) <=> on /\ x = SnapshotRow(db[t])
  BY ZenonT(30), <1>3, <1>4, SnapshotCells
<1>6. \A x : x \in Cells("assigned", t) <=> on /\ x = held
  BY ZenonT(60), <1>3, <1>4, SnapshotCells
<1>7. \A x : x \in Cells("open_tickets", t) <=> on /\ x = "open_tickets"
  BY ZenonT(60), <1>3, <1>4, SnapshotCells
<1>8. \A x : x \in Cells("responses", t) <=> t \in active_response(db) /\ x = asked
  BY ZenonT(60), <1>3, <1>4, SnapshotCells
<1>9. Counted("unassigned_open", t) <=> on /\ db[t].assigned_to = NoUser
  BY ZenonT(60), <1>3, <1>4, SnapshotCells DEF Counted
<1>10. Counted("emergency_open_tickets", t) => on /\ db[t].emergency
  BY ZenonT(60), <1>3, <1>4, SnapshotCells DEF Counted
<1>11. Counted("response_open", t) <=> t \in active_response(db)
  BY ZenonT(60), <1>3, <1>4, SnapshotCells DEF Counted
<1>12. Counted("response_aged_7d", t) <=> t \in AgedRequests(db)
  BY ZenonT(60), <1>3, <1>4, SnapshotCells DEF Counted
<1>13. held.user = db[t].assigned_to /\ asked.aged = (t \in AgedRequests(db))
  OBVIOUS
<1> HIDE DEF on, held, asked
<1>14. Total("queue", t) = IF on THEN 1 ELSE 0
  <2>1. Cells("queue", t) = IF on THEN {SnapshotRow(db[t])} ELSE {}
    BY <1>5
  <2>2. CASE on
    BY <2>1, <2>2, FS_Singleton DEF Total
  <2>3. CASE ~on
    BY <2>1, <2>3, FS_EmptySet DEF Total
  <2> QED
    BY <2>2, <2>3
<1>15. Total("assigned", t) = IF on THEN 1 ELSE 0
  <2>1. Cells("assigned", t) = IF on THEN {held} ELSE {}
    BY <1>6
  <2>2. CASE on
    BY <2>1, <2>2, FS_Singleton DEF Total
  <2>3. CASE ~on
    BY <2>1, <2>3, FS_EmptySet DEF Total
  <2> QED
    BY <2>2, <2>3
<1>16. Total("open_tickets", t) = IF on THEN 1 ELSE 0
  <2>1. Cells("open_tickets", t) = IF on THEN {"open_tickets"} ELSE {}
    BY <1>7
  <2>2. CASE on
    BY <2>1, <2>2, FS_Singleton DEF Total
  <2>3. CASE ~on
    BY <2>1, <2>3, FS_EmptySet DEF Total
  <2> QED
    BY <2>2, <2>3
<1>17. Counted("unassigned_open", t) <=> \E x \in Cells("assigned", t) : x.user = NoUser
  BY <1>6, <1>9, <1>13
<1>18. ASSUME Counted("emergency_open_tickets", t)
       PROVE  <<incident_key(db, t), "incident">> \in page.got["emergency_open_incidents"]
  <2>1. t \in Base("emergency_open_incidents", db, c)
    BY <1>2, <1>10, <1>18 DEF Base, on
  <2>2. "emergency_open_incidents" \in Bundled \cap Elements(Queries(c))
    BY <1>2, OtherNames DEF Bundled
  <2>3. Ran("emergency_open_incidents")
    BY <1>1, <2>2, Complete
  <2> QED
    BY <2>1, <2>2, <2>3 DEF RenderInv, Keyed, IncidentOf
<1>19. Counted("responses", t) <=> t \in active_response(db)
  BY <1>8 DEF Counted
<1>20. (t \in AgedRequests(db)) <=> \E x \in Cells("responses", t) : x.aged
  <2>1. t \in AgedRequests(db) => t \in active_response(db)
    BY DEF AgedRequests
  <2> QED
    BY <1>8, <1>13, <2>1
<1> QED
  BY <1>11, <1>12, <1>14, <1>15, <1>16, <1>17, <1>18, <1>19, <1>20

\* Every open status is in one court, every status in one phase.
LEMMA OneCourt ==
    ASSUME NEW s \in Statuses \ TERMINAL_STATUSES
    PROVE  \E k \in Courts : \A q \in Courts : s \in EXEC_COURT_GROUPS(q) <=> q = k
<1>1. /\ EXEC_COURT_GROUPS("COURT_SOC") = {"NEW", "OWNER_REMEDIATED", "MONITORING"}
      /\ EXEC_COURT_GROUPS("COURT_MANAGER") = {"PENDING_MGR_TRIAGE", "PENDING_MANAGER",
                                               "PENDING_MGR_EVENT_REVIEW"}
      /\ EXEC_COURT_GROUPS("COURT_EXTERNAL") = {"AWAITING_CONTAINMENT", "AWAITING_OWNER"}
      /\ EXEC_COURT_GROUPS("COURT_TIER2") = {"ESCALATED_T2", "CONTAINMENT_REPORTED",
                                             "PENDING_T2_REVIEW"}
  BY DEF EXEC_COURT_GROUPS
<1>2. PICK k : k = IF s \in {"NEW", "OWNER_REMEDIATED", "MONITORING"} THEN "COURT_SOC"
                   ELSE IF s \in MANAGER_QUEUE_STATUSES THEN "COURT_MANAGER"
                   ELSE IF s \in {"AWAITING_CONTAINMENT", "AWAITING_OWNER"} THEN "COURT_EXTERNAL"
                   ELSE "COURT_TIER2"
  OBVIOUS
<1>3. k \in Courts
  BY <1>2 DEF Courts
<1>4. \A q \in Courts : s \in EXEC_COURT_GROUPS(q) <=> q = k
  BY <1>1, <1>2 DEF Courts, Statuses, TERMINAL_STATUSES, MANAGER_QUEUE_STATUSES, TIER2_QUEUE_STATUSES
<1> QED
  BY <1>3, <1>4

LEMMA OnePhase ==
    ASSUME NEW s \in Statuses
    PROVE  \E k \in Phases : \A p \in Phases : s \in IR_PHASES(p) <=> p = k
<1>1. /\ IR_PHASES("PREPARATION") = {"NEW"}
      /\ IR_PHASES("IDENTIFICATION") = {"ESCALATED_T2", "PENDING_MGR_TRIAGE",
                                        "PENDING_MGR_EVENT_REVIEW", "MONITORING"}
      /\ IR_PHASES("CONTAINMENT") = {"AWAITING_CONTAINMENT", "CONTAINMENT_REPORTED",
                                     "AWAITING_OWNER", "OWNER_REMEDIATED"}
      /\ IR_PHASES("RECOVERY") = {"PENDING_MANAGER", "PENDING_T2_REVIEW"}
      /\ IR_PHASES("LESSONS") = {"APPROVED", "CLOSED_EVENT"}
      /\ IR_PHASES("CANCELLED") = {"CANCELLED"}
  BY DEF IR_PHASES
<1>2. PICK k : k = IF s = "NEW" THEN "PREPARATION"
                   ELSE IF s \in {"APPROVED", "CLOSED_EVENT"} THEN "LESSONS"
                   ELSE IF s = "CANCELLED" THEN "CANCELLED"
                   ELSE IF s \in {"PENDING_MANAGER", "PENDING_T2_REVIEW"} THEN "RECOVERY"
                   ELSE IF s \in {"AWAITING_CONTAINMENT", "CONTAINMENT_REPORTED",
                                  "AWAITING_OWNER", "OWNER_REMEDIATED"} THEN "CONTAINMENT"
                   ELSE "IDENTIFICATION"
  OBVIOUS
<1>3. k \in Phases
  BY <1>2 DEF Phases
<1>4. \A p \in Phases : s \in IR_PHASES(p) <=> p = k
  BY <1>1, <1>2 DEF Phases, Statuses, TERMINAL_STATUSES, RESOLVED_STATUSES, MANAGER_QUEUE_STATUSES,
     TIER2_QUEUE_STATUSES
<1> QED
  BY <1>3, <1>4

\* What the executive page says of a steady ticket, figure by figure.
LEMMA ExecutiveShows ==
    ASSUME RenderInv, Shown("executive"), NEW t, Steady(t)
    PROVE  LET c == page.request IN
           /\ c \in PageRequests /\ t \in Tickets /\ db[t] \in TicketRow
           /\ Elements(Queries(c)) = Elements(ExecutiveQueries)
           /\ \A q \in Elements(ExecutiveQueries) : Ran(q)
           /\ \A x : x \in Cells("response", t) <=> <<t, x>> \in response_counts(db, c)
           /\ \A x : x \in Cells("response_hc", t) <=>
                 t \in active_response(db) /\ t \in HighCritical(db) /\ x = "response_hc"
           /\ \A q \in ResponsePills : \A x :
                 x \in Cells(q, t) <=> t \in response_filtered(db, c, q) /\ x = q
           /\ \A x : x \in Cells("OLA_OVERDUE", t) <=>
                 t \in Active(db) /\ t \in Overdue(db) /\ x = "OLA_OVERDUE"
           /\ \A x : x \in Cells("RESPONSE_PENDING", t) <=>
                 t \in active_response(db) /\ x = "RESPONSE_PENDING"
           /\ \A q \in Courts : \A x : x \in Cells(q, t) <=>
                 t \in Active(db) /\ db[t].status \in EXEC_COURT_GROUPS(q) /\ x = q
           /\ \A x : x \in Cells("pipeline", t) <=>
                 Ranged(db, c, t) /\ x \in Phases /\ db[t].status \in IR_PHASES(x)
           /\ \A x : x \in Cells("pipeline_emergency", t) <=>
                 Ranged(db, c, t) /\ db[t].emergency /\ x \in Phases /\ db[t].status \in IR_PHASES(x)
           /\ \A x : x \in Cells("hc_open_tickets", t) <=>
                 Ranged(db, c, t) /\ t \in Active(db) /\ x = "open"
<1> DEFINE c == page.request
<1>1. Rendered /\ c.view = "executive"
  BY DEF Shown
<1>2. /\ c \in PageRequests /\ t \in Tickets /\ Queries(c) = ExecutiveQueries
      /\ \A q : Result(q, db, c) = ExecutiveQuery(q, db, c)
  BY <1>1, Complete, ViewOf DEF Steady
<1>3. db[t] \in TicketRow
  <2>1. t \notin Alerts
    BY <1>2, PagesAssumption DEF PagesAssumption
  <2> QED
    BY <2>1 DEF RenderInv, RowsType, Steady
<1>4. \A q \in Elements(ExecutiveQueries) : Ran(q)
  BY <1>1, <1>2, Complete
<1>5. \A q \in Elements(ExecutiveQueries) \ Shared : \A x :
          x \in Cells(q, t) <=> <<t, x>> \in ExecutiveQuery(q, db, c)
  BY <1>1, <1>2, Complete
<1>6. /\ {"response", "response_hc", "OLA_OVERDUE", "RESPONSE_PENDING", "pipeline",
         "pipeline_emergency", "hc_open_tickets"} \subseteq Elements(ExecutiveQueries) \ Shared
      /\ ResponsePills \subseteq Elements(ExecutiveQueries) \ Shared
      /\ Courts \subseteq Elements(ExecutiveQueries) \ Shared
  BY ExecutiveNames DEF Shared, ResponsePills, Courts
<1> HIDE DEF c
<1>7. ASSUME NEW x
       PROVE  x \in Cells("response", t) <=>
                  <<t, x>> \in response_counts(db, c)
  <2>1. x \in Cells("response", t) <=> <<t, x>> \in ExecutiveQuery("response", db, c)
    BY <1>5, <1>6
  <2>2. <<t, x>> \in ExecutiveQuery("response", db, c) <=>
            <<t, x>> \in response_counts(db, c)
    BY ZenonT(30), <1>2, ExecutiveCells
  <2> QED
    BY <2>1, <2>2
<1>8. ASSUME NEW x
       PROVE  x \in Cells("response_hc", t) <=>
                  t \in active_response(db) /\ t \in HighCritical(db) /\ x = "response_hc"
  <2>1. x \in Cells("response_hc", t) <=> <<t, x>> \in ExecutiveQuery("response_hc", db, c)
    BY <1>5, <1>6
  <2>2. <<t, x>> \in ExecutiveQuery("response_hc", db, c) <=>
            t \in active_response(db) /\ t \in HighCritical(db) /\ x = "response_hc"
    BY ZenonT(30), <1>2, ExecutiveCells
  <2> QED
    BY <2>1, <2>2
<1>9. ASSUME NEW q \in ResponsePills, NEW x
      PROVE  x \in Cells(q, t) <=> t \in response_filtered(db, c, q) /\ x = q
  <2>1. x \in Cells(q, t) <=> <<t, x>> \in ExecutiveQuery(q, db, c)
    BY <1>5, <1>6
  <2>2. ExecutiveQuery(q, db, c) = In(response_filtered(db, c, q), q)
    BY DEF ExecutiveQuery, ResponsePills, Courts
  <2> QED
    BY <2>1, <2>2, InPairs
<1>10. ASSUME NEW x
       PROVE  x \in Cells("OLA_OVERDUE", t) <=> t \in Active(db) /\ t \in Overdue(db) /\ x = "OLA_OVERDUE"
  <2>1. x \in Cells("OLA_OVERDUE", t) <=> <<t, x>> \in ExecutiveQuery("OLA_OVERDUE", db, c)
    BY <1>5, <1>6
  <2>2. <<t, x>> \in ExecutiveQuery("OLA_OVERDUE", db, c) <=>
            t \in Active(db) /\ t \in Overdue(db) /\ x = "OLA_OVERDUE"
    BY ZenonT(30), <1>2, ExecutiveCells
  <2> QED
    BY <2>1, <2>2
<1>11. ASSUME NEW x
       PROVE  x \in Cells("RESPONSE_PENDING", t) <=> t \in active_response(db) /\ x = "RESPONSE_PENDING"
  <2>1. x \in Cells("RESPONSE_PENDING", t) <=> <<t, x>> \in ExecutiveQuery("RESPONSE_PENDING", db, c)
    BY <1>5, <1>6
  <2>2. <<t, x>> \in ExecutiveQuery("RESPONSE_PENDING", db, c) <=>
            t \in active_response(db) /\ x = "RESPONSE_PENDING"
    BY ZenonT(30), <1>2, ExecutiveCells
  <2> QED
    BY <2>1, <2>2
<1>12. ASSUME NEW q \in Courts, NEW x
       PROVE  x \in Cells(q, t) <=> t \in Active(db) /\ db[t].status \in EXEC_COURT_GROUPS(q) /\ x = q
  <2>1. x \in Cells(q, t) <=> <<t, x>> \in ExecutiveQuery(q, db, c)
    BY <1>5, <1>6
  <2>2. ExecutiveQuery(q, db, c) = In({u \in Active(db) : db[u].status \in EXEC_COURT_GROUPS(q)}, q)
    BY DEF ExecutiveQuery, ResponsePills, Courts
  <2> QED
    BY <2>1, <2>2, InPairs
<1>13. ASSUME NEW x
       PROVE  x \in Cells("pipeline", t) <=>
                  Ranged(db, c, t) /\ x \in Phases /\ db[t].status \in IR_PHASES(x)
  <2>1. x \in Cells("pipeline", t) <=> <<t, x>> \in ExecutiveQuery("pipeline", db, c)
    BY <1>5, <1>6
  <2>2. <<t, x>> \in ExecutiveQuery("pipeline", db, c) <=>
            Ranged(db, c, t) /\ x \in Phases /\ db[t].status \in IR_PHASES(x)
    BY ZenonT(30), <1>2, ExecutiveCells
  <2> QED
    BY <2>1, <2>2
<1>14. ASSUME NEW x
       PROVE  x \in Cells("pipeline_emergency", t) <=>
                  /\ Ranged(db, c, t) /\ db[t].emergency
                  /\ x \in Phases /\ db[t].status \in IR_PHASES(x)
  <2>1. x \in Cells("pipeline_emergency", t) <=> <<t, x>> \in ExecutiveQuery("pipeline_emergency", db, c)
    BY <1>5, <1>6
  <2>2. <<t, x>> \in ExecutiveQuery("pipeline_emergency", db, c) <=>
            /\ Ranged(db, c, t) /\ db[t].emergency
            /\ x \in Phases /\ db[t].status \in IR_PHASES(x)
    BY ZenonT(30), <1>2, ExecutiveCells
  <2> QED
    BY <2>1, <2>2
<1>15. ASSUME NEW x
       PROVE  x \in Cells("hc_open_tickets", t) <=>
                  Ranged(db, c, t) /\ t \in Active(db) /\ x = "open"
  <2>1. x \in Cells("hc_open_tickets", t) <=> <<t, x>> \in ExecutiveQuery("hc_open_tickets", db, c)
    BY <1>5, <1>6
  <2>2. <<t, x>> \in ExecutiveQuery("hc_open_tickets", db, c) <=>
            Ranged(db, c, t) /\ t \in Active(db) /\ x = "open"
    BY ZenonT(30), <1>2, ExecutiveCells
  <2> QED
    BY <2>1, <2>2
<1> QED
  BY <1>2, <1>3, <1>4, <1>7, <1>8, <1>9, <1>10, <1>11, <1>12, <1>13, <1>14, <1>15 DEF c

LEMMA ExecutiveReconciles ==
    ASSUME RenderInv, Shown("executive"), NEW t, Steady(t)
    PROVE  /\ Cardinality({q \in Courts : Counted(q, t)}) = IF t \in Active(db) THEN 1 ELSE 0
           /\ t \in Filtered(db, page.request) \cap HighCritical(db) => Total("pipeline", t) = 1
           /\ Cells("pipeline_emergency", t) \subseteq Cells("pipeline", t)
           /\ Counted("hc_open_tickets", t) =>
                  <<incident_key(db, t), "incident">>
                      \in page.got["hc_open"] \cap page.got["hc_total"] \cap page.got["total_hc"]
           /\ "ACTIVE" \in Cells("response", t) <=> Counted("RESPONSE_PENDING", t)
           /\ page.request.function = "" =>
                  /\ Cells("response", t) = {q \in ResponsePills \ {"HIGH_CRIT"} : Counted(q, t)}
                  /\ Counted("HIGH_CRIT", t) <=> Counted("response_hc", t)
           /\ page.got["flow"] # {} =>
                  Cells("flow", t) = Cells("response", t) \cap {"RECEIVED", "DONE"}
<1> DEFINE c == page.request
           s == db[t].status
<1>1. /\ c \in PageRequests /\ t \in Tickets /\ db[t] \in TicketRow
      /\ Elements(Queries(c)) = Elements(ExecutiveQueries)
      /\ \A q \in Elements(ExecutiveQueries) : Ran(q)
      /\ c.view = "executive"
  BY ExecutiveShows DEF Shown
<1>2. s \in Statuses
  BY <1>1 DEF TicketRow, Row
<1>3. t \in Active(db) <=> s \notin TERMINAL_STATUSES
  BY <1>1 DEF Active
<1>4. Cardinality({q \in Courts : Counted(q, t)}) = IF t \in Active(db) THEN 1 ELSE 0
  <2>1. \A q \in Courts : Counted(q, t) <=> t \in Active(db) /\ s \in EXEC_COURT_GROUPS(q)
    <3>1. \A q \in Courts : \A x : x \in Cells(q, t) <=>
             t \in Active(db) /\ db[t].status \in EXEC_COURT_GROUPS(q) /\ x = q
      BY ExecutiveShows
    <3> QED
      BY <3>1 DEF Counted
  <2>2. CASE t \in Active(db)
    <3>1. PICK k \in Courts : \A q \in Courts : s \in EXEC_COURT_GROUPS(q) <=> q = k
      BY <1>2, <1>3, <2>2, OneCourt
    <3>2. {q \in Courts : Counted(q, t)} = {k}
      BY <2>1, <2>2, <3>1
    <3> QED
      BY <2>2, <3>2, FS_Singleton
  <2>3. CASE t \notin Active(db)
    <3>1. {q \in Courts : Counted(q, t)} = {}
      BY <2>1, <2>3
    <3> QED
      BY <2>3, <3>1, FS_EmptySet
  <2> QED
    BY <2>2, <2>3
<1>5. /\ \A x : x \in Cells("pipeline", t) <=>
            Ranged(db, c, t) /\ x \in Phases /\ s \in IR_PHASES(x)
      /\ \A x : x \in Cells("pipeline_emergency", t) <=>
            Ranged(db, c, t) /\ db[t].emergency /\ x \in Phases /\ s \in IR_PHASES(x)
  BY ExecutiveShows
<1>6. ASSUME t \in Filtered(db, c) \cap HighCritical(db)
      PROVE  Total("pipeline", t) = 1
  <2>1. PICK k \in Phases : \A p \in Phases : s \in IR_PHASES(p) <=> p = k
    BY <1>2, OnePhase
  <2>2. Cells("pipeline", t) = {k}
    BY <1>5, <1>6, <2>1 DEF Ranged
  <2> QED
    BY <2>2, FS_Singleton DEF Total
<1>7. Cells("pipeline_emergency", t) \subseteq Cells("pipeline", t)
  BY <1>5
<1>9. ASSUME Counted("hc_open_tickets", t)
      PROVE  <<incident_key(db, t), "incident">>
                 \in page.got["hc_open"] \cap page.got["hc_total"] \cap page.got["total_hc"]
  <2>1. \A x : x \in Cells("hc_open_tickets", t) <=> Ranged(db, c, t) /\ t \in Active(db) /\ x = "open"
    BY ExecutiveShows
  <2>2. Ranged(db, c, t) /\ t \in Active(db)
    BY <1>9, <2>1 DEF Counted
  <2>3. t \in Base("hc_open", db, c)
    BY <2>2 DEF Base, Ranged
  <2>4. t \in Base("hc_total", db, c)
    BY <2>2 DEF Base, Ranged, Active, TERMINAL_STATUSES
  <2>5. {"hc_open", "hc_total", "total_hc"} \subseteq Bundled \cap Elements(Queries(c))
    BY <1>1, ExecutiveNames DEF Bundled
  <2>6. Ran("hc_open") /\ Ran("hc_total") /\ Ran("total_hc")
    BY <1>1, <2>5
  <2>7. <<incident_key(db, t), "incident">> \in page.got["hc_open"]
    BY <2>3, <2>5, <2>6 DEF RenderInv, Keyed, IncidentOf
  <2>8. <<incident_key(db, t), "incident">> \in page.got["hc_total"]
    BY <2>4, <2>5, <2>6 DEF RenderInv, Keyed, IncidentOf
  <2>9. t \in Base("total_hc", db, c)
    BY <2>2 DEF Base, Ranged
  <2>10. <<incident_key(db, t), "incident">> \in page.got["total_hc"]
    BY <2>5, <2>6, <2>9 DEF RenderInv, Keyed, IncidentOf
  <2> QED
    BY <2>7, <2>8, <2>10
<1>10. \A x : x \in Cells("response", t) <=>
          \/ x = "ACTIVE" /\ t \in active_response(db)
          \/ x = "AGED" /\ t \in AgedRequests(db)
          \/ x = "RECEIVED" /\ t \in Received(db, c)
          \/ x = "DONE" /\ t \in Completed(db, c)
  <2> SUFFICES ASSUME NEW x
               PROVE  x \in Cells("response", t) <=>
                        \/ x = "ACTIVE" /\ t \in active_response(db)
                        \/ x = "AGED" /\ t \in AgedRequests(db)
                        \/ x = "RECEIVED" /\ t \in Received(db, c)
                        \/ x = "DONE" /\ t \in Completed(db, c)
    OBVIOUS
  <2>1. x \in Cells("response", t) <=> <<t, x>> \in response_counts(db, c)
    BY ExecutiveShows
  <2>2. <<t, x>> \in response_counts(db, c) <=>
            \/ x = "ACTIVE" /\ t \in active_response(db)
            \/ x = "AGED" /\ t \in AgedRequests(db)
            \/ x = "RECEIVED" /\ t \in Received(db, c)
            \/ x = "DONE" /\ t \in Completed(db, c)
    BY ZenonT(30), <1>1, ResponseCells
  <2> QED
    BY <2>1, <2>2
<1>11. "ACTIVE" \in Cells("response", t) <=> Counted("RESPONSE_PENDING", t)
  <2>1. \A x : x \in Cells("RESPONSE_PENDING", t) <=> t \in active_response(db) /\ x = "RESPONSE_PENDING"
    BY ExecutiveShows
  <2> QED
    BY <1>10, <2>1 DEF Counted
<1>12. ASSUME c.function = ""
       PROVE  /\ Cells("response", t) = {q \in ResponsePills \ {"HIGH_CRIT"} : Counted(q, t)}
              /\ Counted("HIGH_CRIT", t) <=> Counted("response_hc", t)
  <2>1. \A q \in ResponsePills : Counted(q, t) <=> t \in response_filtered(db, c, q)
    <3>1. \A q \in ResponsePills : \A x : x \in Cells(q, t) <=> t \in response_filtered(db, c, q) /\ x = q
      BY ExecutiveShows
    <3> QED
      BY <3>1 DEF Counted
  <2>2. \A q \in ResponsePills : t \in response_filtered(db, c, q) <=>
          /\ q = "DONE" => t \in Completed(db, c)
          /\ q = "RECEIVED" => t \in Received(db, c)
          /\ q = "AGED" => t \in AgedRequests(db)
          /\ q = "ACTIVE" => t \in active_response(db)
          /\ q = "HIGH_CRIT" => t \in active_response(db) /\ t \in HighCritical(db)
    BY ZenonT(30), <1>1, <1>12, ResponseCells
  <2>3. \A x : x \in Cells("response_hc", t) <=>
          t \in active_response(db) /\ t \in HighCritical(db) /\ x = "response_hc"
    BY ExecutiveShows
  <2>4. Counted("HIGH_CRIT", t) <=> Counted("response_hc", t)
    BY <2>1, <2>2, <2>3 DEF Counted, ResponsePills
  <2>5. Cells("response", t) = {q \in ResponsePills \ {"HIGH_CRIT"} : Counted(q, t)}
    <3>1. \A x : x \in Cells("response", t) <=>
                x \in ResponsePills \ {"HIGH_CRIT"} /\ t \in response_filtered(db, c, x)
      BY <1>10, <2>2 DEF ResponsePills
    <3> QED
      BY <2>1, <3>1
  <2> QED
    BY <2>4, <2>5
<1>13. ASSUME page.got["flow"] # {}
       PROVE  Cells("flow", t) = Cells("response", t) \cap {"RECEIVED", "DONE"}
  <2>1. /\ "RECEIVED" \in Cells("flow", t) <=> t \in Received(db, c)
        /\ "DONE" \in Cells("flow", t) <=> t \in Completed(db, c)
        /\ Cells("flow", t) \subseteq {"RECEIVED", "DONE"}
    BY <1>1, <1>13 DEF RenderInv, FlowAgrees
  <2>2. /\ "RECEIVED" \in Cells("response", t) <=> t \in Received(db, c)
        /\ "DONE" \in Cells("response", t) <=> t \in Completed(db, c)
    BY <1>10
  <2> QED
    BY <2>1, <2>2
<1> QED
  BY <1>4, <1>6, <1>7, <1>9, <1>11, <1>12, <1>13

(* A page is rendered while its rows change: each ticket that stayed put is *)
(* counted once, in figures that agree (views.py, "continues to reconcile   *)
(* to the dashboard's unique active-ticket count").                         *)
THEOREM PagesReconcile == PageSpec => []SteadyCasesReconcile
<1>1. ASSUME RenderInv PROVE SteadyCasesReconcile
  BY <1>1, DashboardReconciles, ExecutiveReconciles, TriageReconciles, SnapshotReconciles
     DEF SteadyCasesReconcile
<1> QED
  BY <1>1, PageInvariant, PTL

(* The verdict of the executive page while its cases move (overall_status,  *)
(* "the verdict can never read GOOD while work is queued somewhere").       *)
THEOREM VerdictSafety == PageSpec => []VerdictIsSound
<1>1. ASSUME RenderInv, Shown("executive")
      PROVE  LET verdict == overall_status(page.got)
             IN /\ verdict = "GOOD" => ~\E t \in Active(db) : Steady(t)
                /\ (\E t \in Tickets : Steady(t) /\ Burns(db[t])) => verdict = "WARNING"
                /\ verdict = "WARNING" => \E t \in Tickets : \E row \in seen[t] : Burns(row)
                /\ verdict = "WAITING" =>
                     \E t \in Tickets : \E row \in seen[t] : row.status \notin TERMINAL_STATUSES
  <2> DEFINE c == page.request
             verdict == overall_status(page.got)
             burning == \E q \in Warnings : page.got[q] # {}
             waiting == \E q \in Courts \cup {"RESPONSE_PENDING"} : page.got[q] # {}
  <2>1. /\ verdict = "WARNING" <=> burning
        /\ verdict = "WAITING" <=> ~burning /\ waiting
        /\ verdict = "GOOD" <=> ~burning /\ ~waiting
    BY DEF overall_status
  <2>2. c.view = "executive" /\ Rendered
    BY <1>1 DEF Shown
  <2>3. ASSUME NEW t \in Active(db), Steady(t) PROVE waiting
    <3>1. db[t] \in TicketRow /\ t \in Tickets
      BY <1>1, <2>3, ExecutiveShows
    <3>2. db[t].status \in Statuses \ TERMINAL_STATUSES
      BY <3>1, <2>3 DEF Active, TicketRow, Row
    <3>3. PICK k \in Courts : \A q \in Courts : db[t].status \in EXEC_COURT_GROUPS(q) <=> q = k
      BY <3>2, OneCourt
    <3>4. \A q \in Courts : \A x : x \in Cells(q, t) <=>
             t \in Active(db) /\ db[t].status \in EXEC_COURT_GROUPS(q) /\ x = q
      BY <1>1, <2>3, ExecutiveShows
    <3>5. k \in Cells(k, t)
      BY <2>3, <3>3, <3>4
    <3>6. <<t, k>> \in page.got[k]
      BY <3>5, CellIn DEF Cells
    <3> QED
      BY <3>6
  <2>4. ASSUME NEW t \in Tickets, Steady(t), Burns(db[t]) PROVE burning
    <3>1. t \in Active(db)
      BY <2>4 DEF Burns, Active
    <3>2. CASE db[t].emergency
      <4>1. t \in Base("EMERGENCY", db, c)
        BY <3>1, <3>2 DEF Base
      <4>2. "EMERGENCY" \in Bundled \cap Elements(Queries(c)) /\ Ran("EMERGENCY")
        BY <1>1, <2>4, ExecutiveShows, ExecutiveNames DEF Bundled
      <4>3. IncidentOf(t) \in page.got["EMERGENCY"]
        BY <1>1, <2>4, <4>1, <4>2 DEF RenderInv, Keyed
      <4> QED
        BY <4>3 DEF Warnings
    <3>3. CASE ~db[t].emergency
      <4>1. t \in Overdue(db)
        BY <2>4, <3>3 DEF Burns, Overdue
      <4>2. \A x : x \in Cells("OLA_OVERDUE", t) <=>
               t \in Active(db) /\ t \in Overdue(db) /\ x = "OLA_OVERDUE"
        BY <1>1, <2>4, ExecutiveShows
      <4>3. "OLA_OVERDUE" \in Cells("OLA_OVERDUE", t)
        BY <3>1, <4>1, <4>2
      <4>4. <<t, "OLA_OVERDUE">> \in page.got["OLA_OVERDUE"]
        BY <4>3, CellIn DEF Cells
      <4> QED
        BY <4>4 DEF Warnings
    <3> QED
      BY <3>2, <3>3
  <2>5. /\ burning => \E t \in Tickets : \E row \in seen[t] : Burns(row)
        /\ waiting => \E t \in Tickets : \E row \in seen[t] : row.status \notin TERMINAL_STATUSES
    BY <1>1, <2>2 DEF RenderInv, VerdictHasACause
  <2> HIDE DEF verdict, burning, waiting
  <2>6. verdict = "GOOD" => ~\E t \in Active(db) : Steady(t)
    BY <2>1, <2>3
  <2>7. (\E t \in Tickets : Steady(t) /\ Burns(db[t])) => verdict = "WARNING"
    BY <2>1, <2>4
  <2> QED
    BY <2>1, <2>5, <2>6, <2>7 DEF verdict
<1>2. ASSUME RenderInv PROVE VerdictIsSound
  BY <1>1, <1>2 DEF VerdictIsSound
<1> QED
  BY <1>2, PageInvariant, PTL

-----------------------------------------------------------------------------
(* A figure's link lists the rows the figure counted.                       *)
LEMMA PairShown ==
    ASSUME NEW q, NEW t, NEW x
    PROVE  <<t, x>> \in page.got[q] <=> x \in Cells(q, t)
  BY CellIn DEF Cells

LEMMA BandsAgree ==
    ASSUME NEW d \in Int \cup {NoDeadline}, NEW b \in Bands
    PROVE  bucket_filter(d, b) <=> d # NoDeadline /\ b = bucket_for(d)
<1>1. NoDeadline \notin Int
  BY PagesAssumption DEF PagesAssumption
<1>2. /\ bucket_filter(d, "overdue") <=> d # NoDeadline /\ d < 0
      /\ bucket_filter(d, "due_1h") <=> d # NoDeadline /\ d >= 0 /\ d <= 2
      /\ bucket_filter(d, "due_4h") <=> d # NoDeadline /\ d > 2 /\ d <= 8
      /\ bucket_filter(d, "on_track") <=> d # NoDeadline /\ d > 8
  BY DEF bucket_filter, URGENT, DUE_SOON
<1>3. CASE d # NoDeadline
  <2>1. d \in Int
    BY <1>3
  <2>2. bucket_for(d) = IF d < 0 THEN "overdue" ELSE IF d <= 2 THEN "due_1h"
                        ELSE IF d <= 8 THEN "due_4h" ELSE "on_track"
    BY DEF bucket_for, URGENT, DUE_SOON
  <2> QED
    BY <1>2, <1>3, <2>1, <2>2 DEF Bands
<1>4. CASE d = NoDeadline
  BY <1>2, <1>4 DEF Bands
<1> QED
  BY <1>3, <1>4

LEMMA SteadyRow ==
    ASSUME RenderInv, Rendered, NEW t, Steady(t), t \notin Alerts
    PROVE  db[t] \in TicketRow /\ db[t].deadline \in Int \cup {NoDeadline}
<1>1. db[t] \in TicketRow
  BY DEF RenderInv, RowsType, Steady
<1> QED
  BY <1>1 DEF TicketRow, Row

LEMMA DashboardLinks ==
    ASSUME RenderInv, Shown("dashboard"), NEW t, Steady(t), NEW b \in Bands
    PROVE  <<t, b>> \in page.got["runway"] <=> t \in DashboardTable(db, page.request, b)
<1> DEFINE c == page.request
<1>1. Rendered /\ c.view = "dashboard"
  BY DEF Shown
<1>2. t \in Tickets /\ Queries(c) = DashboardQueries /\ \A q : Result(q, db, c) = DashboardQuery(q, db, c)
  BY <1>1, Complete, ViewOf DEF Steady
<1>3. "runway" \in Elements(Queries(c)) \ Shared
  BY <1>2, DashboardNames DEF Shared
<1>4. <<t, b>> \in page.got["runway"] <=> <<t, b>> \in DashboardQuery("runway", db, c)
  BY <1>1, <1>2, <1>3, Complete, PairShown
<1>5. db[t].deadline \in Int \cup {NoDeadline}
  <2>1. t \notin Alerts
    BY <1>2, PagesAssumption DEF PagesAssumption
  <2> QED
    BY <1>1, <2>1, SteadyRow
<1>6. <<t, b>> \in DashboardQuery("runway", db, c) <=>
        /\ t \in Filtered(db, c) /\ t \in Active(db)
        /\ db[t].deadline # NoDeadline /\ b = bucket_for(db[t].deadline)
  BY SMTT(30), <1>2, DashboardCells
<1>7. b # ""
  BY DEF Bands
<1>8. t \in DashboardTable(db, c, b) <=>
        t \in Filtered(db, c) /\ t \in Active(db) /\ bucket_filter(db[t].deadline, b)
  BY <1>7 DEF DashboardTable
<1>9. bucket_filter(db[t].deadline, b) <=> db[t].deadline # NoDeadline /\ b = bucket_for(db[t].deadline)
  BY <1>5, BandsAgree
<1> QED
  BY <1>4, <1>6, <1>8, <1>9

\* The executive page; its criteria link to the table over all dates.
LEMMA ExecutiveLinks ==
    ASSUME RenderInv, Shown("executive"), NEW t, Steady(t)
    PROVE  LET c == page.request
               live == [c EXCEPT !.period = FALSE]
           IN /\ \A f \in Courts \cup {"OLA_OVERDUE", "RESPONSE_PENDING"} :
                    <<t, f>> \in page.got[f] <=> t \in ExecutiveTable(db, live, f, FALSE)
              /\ t \in ExecutiveTable(db, live, "EMERGENCY", FALSE) =>
                    <<incident_key(db, t), "incident">> \in page.got["EMERGENCY"]
              /\ \A p \in Phases :
                    <<t, p>> \in page.got["pipeline"] <=> t \in ExecutiveTable(db, c, p, TRUE)
              /\ <<t, "open">> \in page.got["hc_open_tickets"] <=> t \in ExecutiveTable(db, c, "", TRUE)
              /\ \A q \in ResponsePills : <<t, q>> \in page.got[q] <=> t \in response_filtered(db, c, q)
<1> DEFINE c == page.request
           live == [c EXCEPT !.period = FALSE]
<1>1. /\ c \in PageRequests /\ t \in Tickets /\ db[t] \in TicketRow
      /\ Elements(Queries(c)) = Elements(ExecutiveQueries)
      /\ \A q \in Elements(ExecutiveQueries) : Ran(q)
      /\ c.view = "executive"
  BY ExecutiveShows DEF Shown
<1>2. c \in PageRequest /\ c.severity = "" /\ c.status = ""
  BY <1>1, RequestFacts
<1>3. live.period = FALSE /\ live.severity = "" /\ live.status = ""
  BY <1>2 DEF PageRequest
<1> HIDE DEF live
<1>4. t \in Filtered(db, live)
  BY <1>1, <1>3 DEF Filtered, InPeriod
<1>5. ASSUME NEW f \in Courts \cup {"OLA_OVERDUE", "RESPONSE_PENDING"}
      PROVE  <<t, f>> \in page.got[f] <=> t \in ExecutiveTable(db, live, f, FALSE)
  <2>1. CASE f \in Courts
    <3>1. ExecutiveTable(db, live, f, FALSE) =
            {u \in Filtered(db, live) \cap Active(db) : db[u].status \in EXEC_COURT_GROUPS(f)}
      BY <2>1 DEF ExecutiveTable, Courts, Phases, Statuses, TERMINAL_STATUSES,
         RESOLVED_STATUSES, MANAGER_QUEUE_STATUSES, TIER2_QUEUE_STATUSES
    <3>2. f \in Cells(f, t) <=> t \in Active(db) /\ db[t].status \in EXEC_COURT_GROUPS(f)
      <4>1. \A q \in Courts : \A x : x \in Cells(q, t) <=>
                t \in Active(db) /\ db[t].status \in EXEC_COURT_GROUPS(q) /\ x = q
        BY ExecutiveShows
      <4> QED
        BY <2>1, <4>1
    <3> QED
      BY <1>4, <3>1, <3>2, PairShown
  <2>2. CASE f = "OLA_OVERDUE"
    <3>1. ExecutiveTable(db, live, f, FALSE) = Filtered(db, live) \cap Active(db) \cap Overdue(db)
      BY <2>2 DEF ExecutiveTable, Courts, Phases, Statuses, TERMINAL_STATUSES,
         RESOLVED_STATUSES, MANAGER_QUEUE_STATUSES, TIER2_QUEUE_STATUSES
    <3>2. f \in Cells(f, t) <=> t \in Active(db) /\ t \in Overdue(db)
      BY <2>2, ExecutiveShows
    <3> QED
      BY <1>4, <3>1, <3>2, PairShown
  <2>3. CASE f = "RESPONSE_PENDING"
    <3>1. ExecutiveTable(db, live, f, FALSE) = Filtered(db, live) \cap active_response(db)
      BY <2>3 DEF ExecutiveTable, Courts, Phases, Statuses, TERMINAL_STATUSES,
         RESOLVED_STATUSES, MANAGER_QUEUE_STATUSES, TIER2_QUEUE_STATUSES
    <3>2. f \in Cells(f, t) <=> t \in active_response(db)
      BY <2>3, ExecutiveShows
    <3> QED
      BY <1>4, <3>1, <3>2, PairShown
  <2> QED
    BY <2>1, <2>2, <2>3
<1>6. ASSUME t \in ExecutiveTable(db, live, "EMERGENCY", FALSE)
      PROVE  <<incident_key(db, t), "incident">> \in page.got["EMERGENCY"]
  <2>1. t \in Active(db) /\ db[t].emergency
    BY <1>6 DEF ExecutiveTable, Courts, Phases, Statuses, TERMINAL_STATUSES,
         RESOLVED_STATUSES, MANAGER_QUEUE_STATUSES, TIER2_QUEUE_STATUSES
  <2>2. t \in Base("EMERGENCY", db, c)
    BY <2>1 DEF Base
  <2>3. "EMERGENCY" \in Bundled \cap Elements(Queries(c)) /\ Ran("EMERGENCY")
    BY <1>1, ExecutiveNames DEF Bundled
  <2> QED
    BY <2>2, <2>3 DEF RenderInv, Keyed, IncidentOf
<1>7. ASSUME NEW p \in Phases
      PROVE  <<t, p>> \in page.got["pipeline"] <=> t \in ExecutiveTable(db, c, p, TRUE)
  <2>1. p \in Cells("pipeline", t) <=> Ranged(db, c, t) /\ db[t].status \in IR_PHASES(p)
    <3>1. \A x : x \in Cells("pipeline", t) <=>
             Ranged(db, c, t) /\ x \in Phases /\ db[t].status \in IR_PHASES(x)
      BY ExecutiveShows
    <3> QED
      BY <3>1
  <2>2. ExecutiveTable(db, c, p, TRUE) =
          {u \in Filtered(db, c) : db[u].status \in IR_PHASES(p)} \cap HighCritical(db)
    <3>1. CASE p # "CANCELLED"
      BY <3>1 DEF ExecutiveTable, Courts, Phases, Statuses, TERMINAL_STATUSES,
         RESOLVED_STATUSES, MANAGER_QUEUE_STATUSES, TIER2_QUEUE_STATUSES
    <3>2. CASE p = "CANCELLED"
      <4>1. IR_PHASES(p) = {"CANCELLED"}
        BY <3>2 DEF IR_PHASES
      <4>2. "CANCELLED" \in Statuses
        BY DEF Statuses, TERMINAL_STATUSES
      <4>3. ExecutiveTable(db, c, p, TRUE) = {u \in Filtered(db, c) : db[u].status = "CANCELLED"} \cap HighCritical(db)
        BY <3>2, <4>2 DEF ExecutiveTable, Courts, Phases
      <4> QED
        BY <4>1, <4>3
    <3> QED
      BY <3>1, <3>2
  <2> QED
    BY <2>1, <2>2, PairShown DEF Ranged
<1>8. <<t, "open">> \in page.got["hc_open_tickets"] <=> t \in ExecutiveTable(db, c, "", TRUE)
  <2>1. "open" \in Cells("hc_open_tickets", t) <=> Ranged(db, c, t) /\ t \in Active(db)
    <3>1. \A x : x \in Cells("hc_open_tickets", t) <=> Ranged(db, c, t) /\ t \in Active(db) /\ x = "open"
      BY ExecutiveShows
    <3> QED
      BY <3>1
  <2>2. "" \notin Statuses
    BY DEF Statuses, TERMINAL_STATUSES, RESOLVED_STATUSES, MANAGER_QUEUE_STATUSES, TIER2_QUEUE_STATUSES
  <2>3. ExecutiveTable(db, c, "", TRUE) = (Filtered(db, c) \cap Active(db)) \cap HighCritical(db)
    BY <2>2 DEF ExecutiveTable, Courts, Phases
  <2> QED
    BY <2>1, <2>3, PairShown DEF Ranged
<1>9. ASSUME NEW q \in ResponsePills
      PROVE  <<t, q>> \in page.got[q] <=> t \in response_filtered(db, c, q)
  <2>1. \A k \in ResponsePills : \A x : x \in Cells(k, t) <=> t \in response_filtered(db, c, k) /\ x = k
    BY ExecutiveShows
  <2> QED
    BY <2>1, PairShown
<1> QED
  BY <1>5, <1>6, <1>7, <1>8, <1>9 DEF live

LEMMA QueueLinks ==
    ASSUME RenderInv, Shown("tier2_queue"), NEW t, Steady(t)
    PROVE  LET c == page.request
           IN /\ \A s \in {"escalated", "containment", "owner"} :
                    <<t, s>> \in page.got["stages"] <=> t \in QueueRows(db, c, s, c.claim)
              /\ \A q \in {"unclaimed", "mine"} :
                    <<t, q>> \in page.got[q] <=> t \in QueueRows(db, c, c.stage, q)
              /\ <<t, "claims">> \in page.got["claims"] <=> t \in QueueRows(db, c, c.stage, "")
<1> DEFINE c == page.request
<1>1. Rendered /\ c.view = "tier2_queue"
  BY DEF Shown
<1>2. Queries(c) = QueueQueries /\ \A q : Result(q, db, c) = QueueQuery(q, db, c)
  BY <1>1, Complete, ViewOf
<1>3. \A q \in Elements(QueueQueries) : \A x :
          <<t, x>> \in page.got[q] <=> <<t, x>> \in QueueQuery(q, db, c)
  BY <1>1, <1>2, Complete, PairShown, OtherNames DEF Shared
<1>4. {"stages", "claims", "unclaimed", "mine"} \subseteq Elements(QueueQueries)
  BY OtherNames
<1>5. ASSUME NEW s \in {"escalated", "containment", "owner"}
      PROVE  <<t, s>> \in page.got["stages"] <=> t \in QueueRows(db, c, s, c.claim)
  <2>1. <<t, s>> \in QueueQuery("stages", db, c) <=>
            t \in QueueRows(db, c, "", c.claim) /\ s = QueueStage[db[t].status]
    BY ZenonT(30), QueueCells
  <2>2. t \in QueueRows(db, c, s, c.claim) <=>
            t \in QueueRows(db, c, "", c.claim) /\ QueueStage[db[t].status] = s
    BY DEF QueueRows
  <2> QED
    BY <1>3, <1>4, <2>1, <2>2
<1>6. <<t, "unclaimed">> \in page.got["unclaimed"] <=> t \in QueueRows(db, c, c.stage, "unclaimed")
  <2>1. <<t, "unclaimed">> \in QueueQuery("unclaimed", db, c) <=> t \in QueueRows(db, c, c.stage, "unclaimed")
    BY ZenonT(30), QueueCells
  <2> QED
    BY <1>3, <1>4, <2>1
<1>7. <<t, "mine">> \in page.got["mine"] <=> t \in QueueRows(db, c, c.stage, "mine")
  <2>1. <<t, "mine">> \in QueueQuery("mine", db, c) <=> t \in QueueRows(db, c, c.stage, "mine")
    BY ZenonT(30), QueueCells
  <2> QED
    BY <1>3, <1>4, <2>1
<1>8. <<t, "claims">> \in page.got["claims"] <=> t \in QueueRows(db, c, c.stage, "")
  <2>1. <<t, "claims">> \in QueueQuery("claims", db, c) <=> t \in QueueRows(db, c, c.stage, "")
    BY ZenonT(30), QueueCells
  <2> QED
    BY <1>3, <1>4, <2>1
<1> QED
  BY <1>5, <1>6, <1>7, <1>8

LEMMA TriageLinks ==
    ASSUME RenderInv, Shown("triage_queue"), NEW t, Steady(t)
    PROVE  LET c == page.request
           IN /\ \A k \in ClaimFacets :
                    <<t, k>> \in page.got["claims"] <=> t \in TriageRows(db, c, k, c.ola, c.level)
              /\ \A k \in OlaFacets :
                    <<t, k>> \in page.got["olas"] <=> t \in TriageRows(db, c, c.claim, k, c.level)
              /\ \A k \in LevelFacets :
                    <<t, k>> \in page.got["levels"] <=> t \in TriageRows(db, c, c.claim, c.ola, k)
<1> DEFINE c == page.request
<1>1. Rendered /\ c.view = "triage_queue"
  BY DEF Shown
<1>2. Queries(c) = TriageQueries /\ \A q : Result(q, db, c) = TriageQuery(q, db, c)
  BY <1>1, Complete, ViewOf
<1>3. \A q \in Elements(TriageQueries) : \A x :
          <<t, x>> \in page.got[q] <=> <<t, x>> \in TriageQuery(q, db, c)
  BY <1>1, <1>2, Complete, PairShown, OtherNames DEF Shared
<1>4. {"claims", "olas", "levels"} \subseteq Elements(TriageQueries)
  BY OtherNames
<1>5. apply_claim(db[t], "all", c.viewer) /\ apply_ola(db[t], "") /\ apply_level(db[t], "")
  BY DEF apply_claim, apply_ola, apply_level
<1>6. \A k, o, l : t \in TriageRows(db, c, k, o, l) <=>
          /\ t \in TriageQueue(db) /\ apply_claim(db[t], k, c.viewer)
          /\ apply_ola(db[t], o) /\ apply_level(db[t], l)
  BY DEF TriageRows
<1>7. ASSUME NEW k \in ClaimFacets
      PROVE  <<t, k>> \in page.got["claims"] <=> t \in TriageRows(db, c, k, c.ola, c.level)
  <2>1. <<t, k>> \in TriageQuery("claims", db, c) <=>
            t \in TriageRows(db, c, "all", c.ola, c.level) /\ apply_claim(db[t], k, c.viewer)
    BY ZenonT(30), TriageCells
  <2> QED
    BY <1>3, <1>4, <1>5, <1>6, <2>1
<1>8. ASSUME NEW k \in OlaFacets
      PROVE  <<t, k>> \in page.got["olas"] <=> t \in TriageRows(db, c, c.claim, k, c.level)
  <2>1. <<t, k>> \in TriageQuery("olas", db, c) <=>
            t \in TriageRows(db, c, c.claim, "", c.level) /\ apply_ola(db[t], k)
    BY ZenonT(30), TriageCells
  <2> QED
    BY <1>3, <1>4, <1>5, <1>6, <2>1
<1>9. ASSUME NEW k \in LevelFacets
      PROVE  <<t, k>> \in page.got["levels"] <=> t \in TriageRows(db, c, c.claim, c.ola, k)
  <2>1. <<t, k>> \in TriageQuery("levels", db, c) <=>
            t \in TriageRows(db, c, c.claim, c.ola, "") /\ apply_level(db[t], k)
    BY ZenonT(30), TriageCells
  <2> QED
    BY <1>3, <1>4, <1>5, <1>6, <2>1
<1> QED
  BY <1>7, <1>8, <1>9

LEMMA ListLinks ==
    ASSUME RenderInv, Shown("ticket_list"), NEW t, Steady(t)
    PROVE  LET c == page.request
               live == [c EXCEPT !.period = FALSE]
           IN <<t, "breach">> \in page.got["breach"] <=>
                  t \in ListRows(db, [live EXCEPT !.severity = "", !.status = ""], "overdue")
<1> DEFINE c == page.request
           all == [[c EXCEPT !.period = FALSE] EXCEPT !.severity = "", !.status = ""]
<1>1. Rendered /\ c.view = "ticket_list"
  BY DEF Shown
<1>2. /\ t \in Tickets /\ c \in PageRequest /\ Queries(c) = ListQueries
      /\ \A q : Result(q, db, c) = ListQuery(q, db, c)
  BY <1>1, Complete, ViewOf, RequestFacts DEF Steady
<1>3. "breach" \in Elements(Queries(c)) \ Shared
  BY <1>2, OtherNames DEF Shared
<1>4. <<t, "breach">> \in page.got["breach"] <=> <<t, "breach">> \in ListQuery("breach", db, c)
  BY <1>1, <1>2, <1>3, Complete, PairShown
<1>5. <<t, "breach">> \in ListQuery("breach", db, c) <=> t \in Active(db) /\ t \in Overdue(db)
  BY SMTT(30), ListCells
<1>6. all.period = FALSE /\ all.severity = "" /\ all.status = ""
  BY <1>2 DEF PageRequest
<1> HIDE DEF all
<1>7. t \in Filtered(db, all)
  BY <1>2, <1>6 DEF Filtered, InPeriod
<1>8. bucket_filter(db[t].deadline, "overdue") <=> db[t].deadline # NoDeadline /\ db[t].deadline < 0
  BY DEF bucket_filter
<1>9. t \in Overdue(db) <=> db[t].deadline # NoDeadline /\ db[t].deadline < 0
  BY <1>2 DEF Overdue
<1>10. t \in ListRows(db, all, "overdue") <=> t \in Active(db) /\ t \in Overdue(db)
  BY <1>7, <1>8, <1>9 DEF ListRows
<1> QED
  BY <1>4, <1>5, <1>10 DEF all

LEMMA HistoryLinks ==
    ASSUME RenderInv, Shown("history"), NEW t, Steady(t), NEW s \in TERMINAL_STATUSES
    PROVE  <<t, s>> \in page.got["pills"] <=> t \in HistoryRows(db, page.request, s)
<1> DEFINE c == page.request
<1>1. Rendered /\ c.view = "history"
  BY DEF Shown
<1>2. /\ t \in Tickets /\ c \in PageRequest /\ Queries(c) = HistoryQueries
      /\ \A q : Result(q, db, c) = HistoryQuery(q, db, c)
  BY <1>1, Complete, ViewOf, RequestFacts DEF Steady
<1>3. "pills" \in Elements(Queries(c)) \ Shared
  BY <1>2, OtherNames DEF Shared
<1>4. <<t, s>> \in page.got["pills"] <=> <<t, s>> \in HistoryQuery("pills", db, c)
  BY <1>1, <1>2, <1>3, Complete, PairShown
<1>5. <<t, s>> \in HistoryQuery("pills", db, c) <=> t \in HistoryRows(db, c, "") /\ s = db[t].status
  BY ZenonT(30), HistoryCells
<1>6. s # ""
  BY DEF TERMINAL_STATUSES, RESOLVED_STATUSES
<1>7. \A k : /\ [c EXCEPT !.status = k].status = k
             /\ [c EXCEPT !.status = k].period = c.period
             /\ [c EXCEPT !.status = k].severity = c.severity
  BY <1>2 DEF PageRequest
<1>8. t \in Filtered(db, [c EXCEPT !.status = s]) <=>
          t \in Filtered(db, [c EXCEPT !.status = ""]) /\ db[t].status = s
  BY <1>6, <1>7 DEF Filtered, InPeriod
<1>9. t \in HistoryRows(db, c, s) <=> t \in HistoryRows(db, c, "") /\ s = db[t].status
  BY <1>8 DEF HistoryRows
<1> QED
  BY <1>4, <1>5, <1>9

\* The night's snapshot beside the live figures.
LEMMA SnapshotAgrees ==
    ASSUME RenderInv, Shown("snapshot"), NEW t, Steady(t)
    PROVE  LET c == page.request
               Among(figure) == \E x \in figure : x[1] = t
           IN /\ Counted("open_tickets", t) <=> Among(DashboardQuery("active", db, c))
              /\ Counted("unassigned_open", t) <=> Among(DashboardQuery("unassigned", db, c))
              /\ Counted("t2_claimed", t) <=>
                    Among({x \in QueueQuery("rows", db, c) : db[x[1]].t2_claimed_by # NoUser})
              /\ Counted("response_open", t) <=> Among(ExecutiveQuery("RESPONSE_PENDING", db, c))
              /\ \A b \in Bands :
                    t \in DashboardTable(db, c, b) <=> \E x \in Cells("queue", t) : x.ola = b
<1> DEFINE c == page.request
           Among(figure) == \E x \in figure : x[1] = t
           on == t \in Active(db)
<1>1. Rendered /\ c.view = "snapshot"
  BY DEF Shown
<1>2. /\ t \in Tickets /\ c \in PageRequests /\ Queries(c) = SnapshotQueries
      /\ \A q : Result(q, db, c) = SnapshotQuery(q, db)
  BY <1>1, Complete, ViewOf DEF Steady
<1>3. c.severity = "" /\ c.status = "" /\ ~c.period /\ c.claim = "" /\ c.stage = ""
  BY <1>1, <1>2, RequestFacts
<1>4. \A q \in Elements(SnapshotQueries) \ Shared : \A x :
          x \in Cells(q, t) <=> <<t, x>> \in SnapshotQuery(q, db)
  BY <1>1, <1>2, Complete
<1>5. {"queue", "t2_claimed", "open_tickets", "unassigned_open", "response_open"}
          \subseteq Elements(SnapshotQueries) \ Shared
  BY OtherNames DEF Shared
<1>6. Filtered(db, c) = Tickets
  BY <1>3 DEF Filtered, InPeriod
<1>7. db[t] \in TicketRow /\ db[t].deadline \in Int \cup {NoDeadline}
  <2>1. t \notin Alerts
    BY <1>2, PagesAssumption DEF PagesAssumption
  <2> QED
    BY <1>1, <2>1, SteadyRow
<1> HIDE DEF c
<1>8. ASSUME NEW S, NEW cell PROVE Among(In(S, cell)) <=> t \in S
  <2>1. ASSUME t \in S PROVE Among(In(S, cell))
    <3>1. <<t, cell>> \in In(S, cell) /\ <<t, cell>>[1] = t
      BY <2>1 DEF In
    <3> QED
      BY <3>1
  <2>2. ASSUME Among(In(S, cell)) PROVE t \in S
    <3>1. PICK x \in In(S, cell) : x[1] = t
      BY <2>2
    <3>2. PICK u \in S : x = <<u, cell>>
      BY <3>1 DEF In
    <3> QED
      BY <3>1, <3>2
  <2> QED
    BY <2>1, <2>2
<1>9. Counted("open_tickets", t) <=> Among(DashboardQuery("active", db, c))
  <2>1. Counted("open_tickets", t) <=> on
    BY ZenonT(60), <1>4, <1>5, SnapshotCells DEF Counted
  <2>2. DashboardQuery("active", db, c) = In(Filtered(db, c) \cap Active(db), "active")
    BY DEF DashboardQuery
  <2> HIDE DEF Among
  <2> QED
    BY <1>2, <1>6, <1>8, <2>1, <2>2
<1>10. Counted("unassigned_open", t) <=> Among(DashboardQuery("unassigned", db, c))
  <2>1. Counted("unassigned_open", t) <=> on /\ db[t].assigned_to = NoUser
    BY ZenonT(60), <1>4, <1>5, SnapshotCells DEF Counted
  <2>2. DashboardQuery("unassigned", db, c) =
            In({u \in Filtered(db, c) \cap Active(db) : db[u].assigned_to = NoUser}, "unassigned")
    BY DEF DashboardQuery
  <2> HIDE DEF Among
  <2> QED
    BY <1>2, <1>6, <1>8, <2>1, <2>2
<1>11. Counted("t2_claimed", t) <=>
          Among({x \in QueueQuery("rows", db, c) : db[x[1]].t2_claimed_by # NoUser})
  <2>1. Counted("t2_claimed", t) <=> on /\ db[t].t2_claimed_by # NoUser
    <3>1. \A x : x \in Cells("t2_claimed", t) <=> <<t, x>> \in SnapshotQuery("t2_claimed", db)
      BY <1>4, <1>5
    <3>2. \A x : <<t, x>> \in SnapshotQuery("t2_claimed", db) <=>
              /\ on /\ db[t].t2_claimed_by # NoUser
              /\ x = [user |-> db[t]["t2_claimed_by"], status |-> db[t].status,
                      severity |-> db[t].severity]
      BY SMTT(30), SnapshotCells
    <3> HIDE DEF on
    <3> QED
      BY <3>1, <3>2 DEF Counted
  <2>2. QueueQuery("rows", db, c) = In(QueueRows(db, c, c.stage, c.claim), "rows")
    BY DEF QueueQuery
  <2>3. t \in QueueRows(db, c, c.stage, c.claim) <=> db[t].status \in TIER2_QUEUE_STATUSES
    BY <1>2, <1>3 DEF QueueRows
  <2>4. db[t].t2_claimed_by # NoUser => db[t].status \in TIER2_QUEUE_STATUSES
    BY <1>7 DEF TicketRow
  <2>5. db[t].status \in TIER2_QUEUE_STATUSES => on
    BY <1>2 DEF Active, TIER2_QUEUE_STATUSES, TERMINAL_STATUSES, RESOLVED_STATUSES
  <2>6. Among({x \in QueueQuery("rows", db, c) : db[x[1]].t2_claimed_by # NoUser}) <=>
            t \in QueueRows(db, c, c.stage, c.claim) /\ db[t].t2_claimed_by # NoUser
    <3> DEFINE R == QueueRows(db, c, c.stage, c.claim)
               F == {x \in QueueQuery("rows", db, c) : db[x[1]].t2_claimed_by # NoUser}
    <3> HIDE DEF R
    <3>1. ASSUME t \in R, db[t].t2_claimed_by # NoUser PROVE Among(F)
      <4>1. <<t, "rows">> \in QueueQuery("rows", db, c) /\ <<t, "rows">>[1] = t
        BY <2>2, <3>1 DEF In, R
      <4>2. <<t, "rows">> \in F
        BY <3>1, <4>1
      <4> QED
        BY <4>1, <4>2
    <3>2. ASSUME Among(F) PROVE t \in R /\ db[t].t2_claimed_by # NoUser
      <4>1. PICK x \in F : x[1] = t
        BY <3>2
      <4>2. x \in In(R, "rows") /\ db[t].t2_claimed_by # NoUser
        BY <2>2, <4>1 DEF R
      <4>3. PICK u \in R : x = <<u, "rows">>
        BY <4>2 DEF In
      <4> QED
        BY <4>1, <4>2, <4>3
    <3> QED
      BY <3>1, <3>2 DEF R
  <2> QED
    BY <2>1, <2>3, <2>4, <2>5, <2>6
<1>12. Counted("response_open", t) <=> Among(ExecutiveQuery("RESPONSE_PENDING", db, c))
  <2>1. Counted("response_open", t) <=> t \in active_response(db)
    BY ZenonT(60), <1>4, <1>5, SnapshotCells DEF Counted
  <2>2. ExecutiveQuery("RESPONSE_PENDING", db, c) = In(active_response(db), "RESPONSE_PENDING")
    BY DEF ExecutiveQuery, ResponsePills, Courts
  <2> HIDE DEF Among
  <2> QED
    BY <1>8, <2>1, <2>2
<1>13. ASSUME NEW b \in Bands
       PROVE  t \in DashboardTable(db, c, b) <=> \E x \in Cells("queue", t) : x.ola = b
  <2>1. \A x : x \in Cells("queue", t) <=> on /\ x = SnapshotRow(db[t])
    BY ZenonT(60), <1>4, <1>5, SnapshotCells
  <2>2. SnapshotRow(db[t]).ola = ola_bucket(db[t].deadline)
    BY DEF SnapshotRow
  <2>3. b # "" /\ b # "none"
    BY DEF Bands
  <2>4. t \in DashboardTable(db, c, b) <=> on /\ bucket_filter(db[t].deadline, b)
    BY <1>2, <1>6, <2>3 DEF DashboardTable
  <2>5. bucket_filter(db[t].deadline, b) <=> b = ola_bucket(db[t].deadline)
    BY <1>7, <2>3, BandsAgree DEF ola_bucket
  <2> HIDE DEF on
  <2> QED
    BY <2>1, <2>2, <2>4, <2>5
<1> QED
  BY <1>9, <1>10, <1>11, <1>12, <1>13 DEF c

(* However the tickets moved, the link of a figure opens the steady rows    *)
(* the figure counted ("each count says what clicking that pill would       *)
(* produce"), and a night's snapshot agrees with the live figures.          *)
THEOREM FiguresOpen == PageSpec => []FiguresOpenTheirRows
<1>1. ASSUME RenderInv PROVE FiguresOpenTheirRows
  <2> DEFINE c == page.request
             live == [c EXCEPT !.period = FALSE]
  <2>1. \A t : Steady(t) => t \in DOMAIN db
    BY DEF Steady
  <2>2. ASSUME Shown("dashboard"), NEW b \in Bands, NEW t, Steady(t)
        PROVE  <<t, b>> \in page.got["runway"] <=> t \in DashboardTable(db, c, b)
    BY <1>1, <2>2, DashboardLinks
  <2>3. ASSUME Shown("executive"), NEW t, Steady(t)
        PROVE  /\ \A f \in Courts \cup {"OLA_OVERDUE", "RESPONSE_PENDING"} :
                    <<t, f>> \in page.got[f] <=> t \in ExecutiveTable(db, live, f, FALSE)
               /\ t \in ExecutiveTable(db, live, "EMERGENCY", FALSE) =>
                    <<incident_key(db, t), "incident">> \in page.got["EMERGENCY"]
               /\ \A p \in Phases :
                    <<t, p>> \in page.got["pipeline"] <=> t \in ExecutiveTable(db, c, p, TRUE)
               /\ <<t, "open">> \in page.got["hc_open_tickets"] <=> t \in ExecutiveTable(db, c, "", TRUE)
               /\ \A q \in ResponsePills : <<t, q>> \in page.got[q] <=> t \in response_filtered(db, c, q)
    BY <1>1, <2>3, ExecutiveLinks
  <2>4. ASSUME Shown("tier2_queue"), NEW t, Steady(t)
        PROVE  /\ \A s \in {"escalated", "containment", "owner"} :
                    <<t, s>> \in page.got["stages"] <=> t \in QueueRows(db, c, s, c.claim)
               /\ \A q \in {"unclaimed", "mine"} :
                    <<t, q>> \in page.got[q] <=> t \in QueueRows(db, c, c.stage, q)
               /\ <<t, "claims">> \in page.got["claims"] <=> t \in QueueRows(db, c, c.stage, "")
    BY <1>1, <2>4, QueueLinks
  <2>5. ASSUME Shown("triage_queue"), NEW t, Steady(t)
        PROVE  /\ \A k \in ClaimFacets :
                    <<t, k>> \in page.got["claims"] <=> t \in TriageRows(db, c, k, c.ola, c.level)
               /\ \A k \in OlaFacets :
                    <<t, k>> \in page.got["olas"] <=> t \in TriageRows(db, c, c.claim, k, c.level)
               /\ \A k \in LevelFacets :
                    <<t, k>> \in page.got["levels"] <=> t \in TriageRows(db, c, c.claim, c.ola, k)
    BY <1>1, <2>5, TriageLinks
  <2>6. ASSUME Shown("ticket_list"), NEW t, Steady(t)
        PROVE  <<t, "breach">> \in page.got["breach"] <=>
                   t \in ListRows(db, [live EXCEPT !.severity = "", !.status = ""], "overdue")
    BY <1>1, <2>6, ListLinks
  <2>7. ASSUME Shown("history"), NEW s \in TERMINAL_STATUSES, NEW t, Steady(t)
        PROVE  <<t, s>> \in page.got["pills"] <=> t \in HistoryRows(db, c, s)
    BY <1>1, <2>7, HistoryLinks
  <2>8. ASSUME Shown("snapshot"), NEW t, Steady(t)
        PROVE  /\ Counted("open_tickets", t) <=> \E x \in DashboardQuery("active", db, c) : x[1] = t
               /\ Counted("unassigned_open", t) <=>
                    \E x \in DashboardQuery("unassigned", db, c) : x[1] = t
               /\ Counted("t2_claimed", t) <=>
                    \E x \in {y \in QueueQuery("rows", db, c) : db[y[1]].t2_claimed_by # NoUser} : x[1] = t
               /\ Counted("response_open", t) <=>
                    \E x \in ExecutiveQuery("RESPONSE_PENDING", db, c) : x[1] = t
               /\ \A b \in Bands :
                    t \in DashboardTable(db, c, b) <=> \E x \in Cells("queue", t) : x.ola = b
    BY <1>1, <2>8, SnapshotAgrees
  <2> HIDE DEF c, live
  <2> QED
    BY ZenonT(60), <2>1, <2>2, <2>3, <2>4, <2>5, <2>6, <2>7, <2>8 DEF FiguresOpenTheirRows, c, live
<1> QED
  BY <1>1, PageInvariant, PTL
=============================================================================
