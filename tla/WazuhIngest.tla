---------------------------- MODULE WazuhIngest ----------------------------
(***************************************************************************)
(* The scheduled command that copies Wazuh alerts from the Indexer into    *)
(* WazuhAlert rows (apps/wazuh_ingest/ingest.py).                          *)
(*                                                                         *)
(* An alert has the time it was raised (@timestamp) and becomes visible in *)
(* the Indexer up to Lateness later.  A run starts Overlap before the      *)
(* watermark and reads pages in the order of @timestamp; each page is      *)
(* parsed, stored, and moves the watermark to its newest new alert.  The   *)
(* Indexer answers the whole time, so alerts arrive between two pages.     *)
(* There is one run at a time (the scheduled task ignores a new instance   *)
(* while one runs).                                                        *)
(*                                                                         *)
(* The alerts are those the query asks for: rule.level high enough, and    *)
(* not of the vulnerability detector.  Their @timestamp can be parsed.     *)
(***************************************************************************)
EXTENDS Integers, FiniteSets

CONSTANTS
    Alerts,        \* documents of the Indexer, by _id
    Malformed,     \* those _parse_hit raises on
    Unstorable,    \* those that parse and that the database refuses
    BatchSize,     \* batch_size
    MaxPages,      \* max_pages
    Overlap,       \* WAZUH_INGEST_OVERLAP_MINUTES
    FirstWindow,   \* how far back a run without a watermark starts
    Lateness,      \* the longest an alert takes to reach the Indexer
    RunTime,       \* the longest a run takes
    MaxTime,       \* bound: the clock stops there
    FailureKinds,  \* what may go wrong
    MaxFailures,   \* bound: how often something goes wrong
    None,          \* no watermark, no poll, not yet in the Indexer
    Idle           \* no run

Times == 0..MaxTime

ASSUME IngestAssumption ==
    /\ Malformed \subseteq Alerts
    /\ Unstorable \subseteq Alerts
    /\ BatchSize \in Nat \ {0}
    /\ MaxPages \in Nat \ {0}
    /\ {Overlap, FirstWindow, Lateness, RunTime, MaxTime, MaxFailures} \subseteq Nat
    /\ FailureKinds \subseteq {"request", "bulk_create", "crash"}
    /\ None \notin Int

VARIABLES
    now,        \* the clock
    stamp,      \* @timestamp of each alert in the Indexer
    stored,     \* alerts that have a WazuhAlert row
    watermark,  \* IngestWatermark.last_timestamp
    polled,     \* IngestWatermark.last_successful_poll_at
    run,        \* the run in progress
    failures,   \* what has gone wrong so far
    excused     \* history: alerts the run in progress, or the last one, has a
                \* reason not to bring in

vars == <<now, stamp, stored, watermark, polled, run, failures, excused>>

indexer == <<now, stamp>>

\* `due' is a history variable: what the Indexer held when the run started that
\* the run is there to store.
Run ==
    [at           : {"fetch", "store", "advance"},
     since        : Int,
     boundary_ids : SUBSET Alerts,
     pages        : 0..MaxPages,
     hits         : SUBSET Alerts,
     new_alerts   : SUBSET Alerts,
     errors       : BOOLEAN,
     started      : Times,
     due          : SUBSET Alerts]

TypeOK ==
    /\ now \in Times
    /\ stamp \in [Alerts -> Times \cup {None}]
    /\ stored \subseteq Alerts
    /\ watermark \in Times \cup {None}
    /\ polled \in Times \cup {None}
    /\ run \in Run \cup {Idle}
    /\ failures \in 0..MaxFailures
    /\ excused \subseteq Alerts

Indexed == {a \in Alerts : stamp[a] # None}

\* What is worth storing and can be stored.
Wanted == Indexed \ (Malformed \cup Unstorable)

Init ==
    /\ now = 0
    /\ stamp = [a \in Alerts |-> None]
    /\ stored = {}
    /\ watermark = None
    /\ polled = None
    /\ run = Idle
    /\ failures = 0
    /\ excused = {}

(***************************************************************************)
(* The Indexer and the clock                                               *)
(***************************************************************************)

InReach(t) == watermark # None => t >= watermark - Overlap

\* The run in progress has read past t.
BehindCursor(t) ==
    run # Idle /\ (t < run.since \/ (run.at # "fetch" /\ \E h \in run.hits : t < stamp[h]))

Arrive(a) ==
    /\ stamp[a] = None
    /\ \E t \in Times :
        /\ t \in (now - Lateness)..now
        /\ stamp' = [stamp EXCEPT ![a] = t]
        /\ excused' = IF InReach(t) /\ ~BehindCursor(t) THEN excused ELSE excused \cup {a}
    /\ UNCHANGED <<now, stored, watermark, polled, run, failures>>

Tick ==
    /\ now < MaxTime
    /\ run # Idle => now - run.started < RunTime
    /\ now' = now + 1
    /\ UNCHANGED <<stamp, stored, watermark, polled, run, failures, excused>>

matches(since, boundary_ids) == {a \in Indexed \ boundary_ids : stamp[a] >= since}

\* A result page: the oldest BatchSize of the matches, ties in any order.
Pages(found) ==
    {page \in SUBSET found :
        /\ \/ page = found /\ Cardinality(page) <= BatchSize
           \/ Cardinality(page) = BatchSize
        /\ \A a \in page, b \in found \ page : stamp[a] <= stamp[b]}

(***************************************************************************)
(* fetch_and_store_alerts                                                  *)
(***************************************************************************)

\* Mutant: the run starts at the watermark itself.
first_since_no_overlap == IF watermark = None THEN now - FirstWindow ELSE watermark

first_since == IF watermark = None THEN now - FirstWindow ELSE watermark - Overlap

\* A run answers anew for all that its first page can reach.
StillExcused ==
    IF watermark = None THEN {a \in Indexed : stamp[a] < now - FirstWindow}
    ELSE {a \in excused : ~InReach(stamp[a])}

Start ==
    /\ run = Idle
    /\ run' = [at |-> "fetch", since |-> first_since, boundary_ids |-> {}, pages |-> 0,
               hits |-> {}, new_alerts |-> {}, errors |-> FALSE, started |-> now,
               due |-> {a \in Wanted \ stored : stamp[a] >= first_since}]
    /\ excused' = StillExcused
    /\ UNCHANGED <<indexer, stored, watermark, polled, failures>>

\* Mutant: every run that ends counts as a successful poll.
Finish_always_healthy(errors) ==
    /\ run' = Idle
    /\ polled' = now

\* The run ends; without an error it counts as a successful poll.
Finish(errors) ==
    /\ run' = Idle
    /\ polled' = IF errors THEN polled ELSE now

Fetch ==
    /\ run # Idle
    /\ run.at = "fetch"
    /\ \E page \in Pages(matches(run.since, run.boundary_ids)) :
        IF page = {} THEN Finish(run.errors)
        ELSE /\ run' = [run EXCEPT !.at = "store", !.hits = page, !.pages = @ + 1,
                                   !.new_alerts = {}]
             /\ UNCHANGED polled
    /\ UNCHANGED <<indexer, stored, watermark, failures, excused>>

\* A full page moves the cursor to its newest @timestamp, or, when the whole page
\* shares the cursor, excludes the page.
Cursor(r, newest) ==
    IF newest > r.since
    THEN [r EXCEPT !.at = "fetch", !.since = newest,
                   !.boundary_ids = {a \in r.hits : stamp[a] = newest}]
    ELSE [r EXCEPT !.at = "fetch", !.boundary_ids = @ \cup r.hits]

NextPage(r) ==
    IF Cardinality(r.hits) < BatchSize \/ r.pages = MaxPages THEN Finish(r.errors)
    ELSE /\ \E a \in r.hits : /\ \A b \in r.hits : stamp[b] <= stamp[a]
                              /\ run' = Cursor(r, stamp[a])
         /\ UNCHANGED polled

new_in_page == run.hits \ (stored \cup Malformed)

parse_failed == run.hits \cap Malformed # {}

\* store_alert_hits: one INSERT for the page, so one row the database refuses
\* keeps out the others.
Store ==
    /\ run # Idle
    /\ run.at = "store"
    /\ new_in_page \cap Unstorable = {}
    /\ stored' = stored \cup new_in_page
    /\ run' = [run EXCEPT !.at = "advance", !.new_alerts = new_in_page,
                          !.errors = @ \/ parse_failed]
    /\ UNCHANGED <<indexer, watermark, polled, failures, excused>>

\* The page is given up, without moving the watermark; the loop goes on.
GivePageUp ==
    /\ NextPage([run EXCEPT !.errors = TRUE])
    /\ excused' = excused \cup run.hits
    /\ UNCHANGED <<indexer, stored, watermark>>

BulkCreateRefused ==
    /\ run # Idle
    /\ run.at = "store"
    /\ new_in_page \cap Unstorable # {}
    /\ GivePageUp
    /\ UNCHANGED failures

AdvancedWatermark(newest) ==
    IF watermark = None \/ newest > watermark THEN newest ELSE watermark

Advance ==
    /\ run # Idle
    /\ run.at = "advance"
    /\ IF run.new_alerts = {} THEN UNCHANGED watermark
       ELSE \E a \in run.new_alerts :
               /\ \A b \in run.new_alerts : stamp[b] <= stamp[a]
               /\ watermark' = AdvancedWatermark(stamp[a])
    /\ NextPage(run)
    /\ UNCHANGED <<indexer, stored, failures, excused>>

(***************************************************************************)
(* What may go wrong                                                       *)
(***************************************************************************)

Failure(kind) ==
    /\ run # Idle
    /\ kind \in FailureKinds
    /\ failures < MaxFailures
    /\ failures' = failures + 1

\* No answer, an HTTP error or no JSON: the run returns at once.
RequestFails ==
    /\ Failure("request")
    /\ run.at = "fetch"
    /\ Finish(TRUE)
    /\ UNCHANGED <<indexer, stored, watermark, excused>>

\* The INSERT fails for a passing reason (a lost connection, a timeout).
BulkCreateFails ==
    /\ Failure("bulk_create")
    /\ run.at = "store"
    /\ new_in_page # {}
    /\ GivePageUp

\* The process is killed, or a query outside the try blocks raises.
Crash ==
    /\ Failure("crash")
    /\ run' = Idle
    /\ UNCHANGED <<indexer, stored, watermark, polled, excused>>

(***************************************************************************)
(* Next                                                                    *)
(***************************************************************************)

Ingest == Start \/ Fetch \/ Store \/ BulkCreateRefused \/ Advance

Next ==
    \/ \E a \in Alerts : Arrive(a)
    \/ Tick
    \/ Ingest
    \/ RequestFails
    \/ BulkCreateFails
    \/ Crash

Spec == Init /\ [][Next]_vars

\* The task runs every minute and a run goes on by itself.
FairSpec == Spec /\ WF_vars(Ingest)

(***************************************************************************)
(* Properties                                                              *)
(***************************************************************************)

\* No alert falls out of the reach of the next run but for a reason: the INSERT of
\* its page failed, or it came in when the run had read past it, or when it was
\* itself older than the window ("so nothing is lost", fetch_and_store_alerts).
LostForAReason ==
    \A a \in Wanted \ (stored \cup excused) : InReach(stamp[a])

\* The cursor of a run passes over nothing the run has to bring in: page cuts in
\* the middle of a group of equal timestamps included (boundary_ids).
NothingSkipped ==
    run # Idle /\ run.at = "fetch" =>
        \A a \in Wanted \ (stored \cup excused) :
            stamp[a] >= run.since /\ a \notin run.boundary_ids

\* A poll is recorded as successful only when everything that was due at its
\* start has been stored, unless the run used up its pages (the freshness line of
\* the dashboards).
HonestPoll ==
    [][polled' # polled => run.due \subseteq stored \/ run.pages = MaxPages]_vars

\* The window of the next run has as many alerts before a that it cannot bring in,
\* or has, as a run reads.
Crowded(a) ==
    /\ a \in Indexed
    /\ BatchSize * MaxPages <=
        Cardinality({b \in Indexed \ {a} :
            /\ b \notin Wanted \ (stored \cup excused)
            /\ stamp[b] <= stamp[a] /\ InReach(stamp[b])})

\* Every alert that can be stored is stored in the end, or run after run has a
\* reason not to: an INSERT that fails, the watermark gone past it by more than the
\* overlap while it was excused, or a window with more alerts than a run reads.  A
\* crash, a failed request, a late arrival or a page cut is no reason.
EventuallyStored ==
    \A a \in Alerts \ (Malformed \cup Unstorable) :
        stamp[a] # None ~> a \in stored \/ a \in excused \/ Crowded(a)
=============================================================================
