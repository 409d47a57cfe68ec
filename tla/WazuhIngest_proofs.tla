------------------------- MODULE WazuhIngest_proofs -------------------------
(***************************************************************************)
(* Theorems about WazuhIngest, for any alerts, any page size and number,   *)
(* any overlap and window, any delays and any number of failures.          *)
(*                                                                         *)
(* The argument: an alert that is not stored, and that the run has no      *)
(* reason to leave out, is always ahead of the cursor (AheadOfCursor),     *)
(* because a page holds the oldest matches; so the watermark, which        *)
(* follows the pages, never passes it, and the next run reaches back to it *)
(* (LostForAReason).  A page given up, or an alert that arrives behind the *)
(* cursor or the window, is a reason until the next run starts.            *)
(***************************************************************************)
EXTENDS WazuhIngest, FiniteSetTheorems, TLAPS

Typed ==
    /\ TypeOK
    /\ run # Idle =>
        /\ run.at = "fetch" => run.pages < MaxPages
        /\ run.hits \subseteq Indexed
        /\ run.boundary_ids \subseteq Indexed
        /\ run.due \subseteq Wanted
        /\ run.new_alerts \subseteq run.hits

\* What the run in progress, or the next one, has to bring in.
Owed == Wanted \ (stored \cup excused)

AheadOfCursor ==
    run # Idle =>
        /\ \A a \in Owed : stamp[a] >= run.since /\ a \notin run.boundary_ids
        /\ run.at # "fetch" => \A a \in Owed \ run.hits, h \in run.hits : stamp[h] <= stamp[a]
        /\ run.at = "advance" => run.hits \cap Wanted \subseteq stored

\* A run without an error owes all that was due, and its last page has the rest of it.
DueIsOwed ==
    run # Idle /\ ~run.errors =>
        /\ run.due \ stored \subseteq Owed
        /\ run.at # "fetch" /\ Cardinality(run.hits) < BatchSize =>
                run.due \ stored \subseteq run.hits

IInv == Typed /\ LostForAReason /\ AheadOfCursor /\ DueIsOwed

-----------------------------------------------------------------------------
(***************************************************************************)
(* Types                                                                   *)
(***************************************************************************)

\* Where a page leaves the run: at the next fetch with pages left, or ended.
LEMMA NextPageType ==
    ASSUME Typed, NEW r \in Run, run # Idle, NextPage(r), r.hits \subseteq Indexed,
           r.boundary_ids \subseteq Indexed, r.due \subseteq Wanted,
           r.new_alerts \subseteq r.hits
    PROVE  /\ run' \in Run \cup {Idle}
           /\ polled' \in Times \cup {None}
           /\ run' # Idle =>
                /\ run'.at = "fetch"
                /\ run'.pages < MaxPages
                /\ run'.hits = r.hits
                /\ run'.boundary_ids \subseteq Indexed
                /\ run'.due = r.due
                /\ run'.new_alerts = r.new_alerts
                /\ run'.started = r.started
                /\ run'.errors = r.errors
<1>1. CASE Finish(r.errors)
  BY <1>1 DEF Finish, Typed, TypeOK
<1>2. CASE r.pages # MaxPages /\ ~Finish(r.errors)
  <2>1. PICK a \in r.hits : run' = Cursor(r, stamp[a])
    BY <1>2 DEF NextPage
  <2>2. stamp[a] \in Int
    BY <2>1, IngestAssumption DEF Typed, TypeOK, Indexed, Times
  <2>3. UNCHANGED polled
    BY <1>2 DEF NextPage
  <2>4. r.pages < MaxPages
    BY <1>2, IngestAssumption DEF Run
  <2> QED
    BY <2>1, <2>2, <2>3, <2>4 DEF Cursor, Run, Typed, TypeOK
<1> QED
  BY <1>1, <1>2 DEF NextPage

\* The initial states are typed.
LEMMA InitTyped == Init => Typed
BY IngestAssumption DEF Init, Typed, TypeOK, Times

\* Every step keeps the types.
LEMMA NextTyped == Typed /\ [Next]_vars => Typed'
<1> SUFFICES ASSUME Typed, [Next]_vars PROVE Typed'
  OBVIOUS
<1> USE IngestAssumption
<1>1. ASSUME NEW a \in Alerts, Arrive(a) PROVE Typed'
  <2>1. Indexed \subseteq Indexed' /\ Wanted \subseteq Wanted'
    BY <1>1 DEF Arrive, Indexed, Wanted, Typed, TypeOK
  <2> QED
    BY <1>1, <2>1 DEF Arrive, Typed, TypeOK
<1>2. CASE Tick
  BY <1>2 DEF Tick, Typed, TypeOK, Times, Indexed, Wanted
<1>3. CASE Start
  <2>1. first_since \in Int
    BY DEF first_since, Typed, TypeOK, Times
  <2>2. excused' \subseteq Alerts
    BY <1>3 DEF Start, StillExcused, Indexed, Typed, TypeOK
  <2>3. {a \in Wanted \ stored : stamp[a] >= first_since} \subseteq Wanted
    OBVIOUS
  <2>4. Wanted \subseteq Alerts /\ Indexed \subseteq Alerts
    BY DEF Wanted, Indexed
  <2>5. /\ run' \in Run
        /\ run'.hits = {} /\ run'.new_alerts = {} /\ run'.boundary_ids = {}
        /\ run'.due \subseteq Wanted
        /\ run'.at = "fetch" /\ run'.pages < MaxPages
    BY <1>3, <2>1, <2>3, <2>4 DEF Start, Run, Typed, TypeOK, Times
  <2>6. UNCHANGED <<indexer, stored, watermark, polled, failures>>
    BY <1>3 DEF Start
  <2>7. Wanted' = Wanted /\ Indexed' = Indexed
    BY <2>6 DEF indexer, Wanted, Indexed
  <2>8. TypeOK'
    BY <2>2, <2>5, <2>6 DEF Typed, TypeOK, indexer
  <2> QED
    BY <2>5, <2>7, <2>8 DEF Typed
<1>4. CASE Fetch
  <2>1. PICK page \in Pages(matches(run.since, run.boundary_ids)) :
            IF page = {} THEN Finish(run.errors)
            ELSE /\ run' = [run EXCEPT !.at = "store", !.hits = page, !.pages = @ + 1,
                                       !.new_alerts = {}]
                 /\ UNCHANGED polled
    BY <1>4 DEF Fetch
  <2>2. page \subseteq Indexed
    BY <2>1 DEF Pages, matches
  <2>3. page \subseteq Alerts
    BY <2>2 DEF Indexed
  <2>4. UNCHANGED <<indexer, stored, watermark, failures, excused>>
    BY <1>4 DEF Fetch
  <2>5. CASE page = {}
    BY <2>1, <2>4, <2>5 DEF Finish, Typed, TypeOK, indexer, Indexed, Wanted
  <2>6. CASE page # {}
    <3>1. run \in Run /\ run.pages + 1 \in 0..MaxPages
      BY <1>4 DEF Fetch, Run, Typed, TypeOK
    <3>2. run' = [run EXCEPT !.at = "store", !.hits = page, !.pages = @ + 1,
                             !.new_alerts = {}]
      BY <2>1, <2>6
    <3>3. run' \in Run /\ run'.at = "store" /\ run'.hits = page /\ run'.due = run.due
          /\ run'.new_alerts = {} /\ run'.boundary_ids = run.boundary_ids
      BY <2>3, <3>1, <3>2 DEF Run
    <3> QED
      BY <1>4, <2>1, <2>2, <2>4, <2>6, <3>3 DEF Fetch, Typed, TypeOK, indexer, Indexed, Wanted
  <2> QED
    BY <2>5, <2>6
<1>5. CASE Store
  <2>1. run' \in Run /\ run'.at = "advance" /\ run'.hits = run.hits /\ run'.due = run.due
        /\ run'.new_alerts \subseteq run.hits /\ stored' \subseteq Alerts
        /\ run'.boundary_ids = run.boundary_ids
    BY <1>5 DEF Store, Run, Typed, TypeOK, new_in_page, parse_failed
  <2> QED
    BY <1>5, <2>1 DEF Store, Typed, TypeOK, indexer, Indexed, Wanted
<1>6. ASSUME run # Idle, GivePageUp, failures' \in 0..MaxFailures
      PROVE  Typed'
  <2> DEFINE r == [run EXCEPT !.errors = TRUE]
  <2>1. r \in Run /\ r.hits = run.hits /\ r.due = run.due /\ r.new_alerts = run.new_alerts
        /\ r.boundary_ids = run.boundary_ids
    BY <1>6 DEF Run, Typed, TypeOK
  <2> HIDE DEF r
  <2>2. NextPage(r) /\ UNCHANGED <<indexer, stored, watermark>>
    BY <1>6 DEF r, GivePageUp
  <2>3. r.hits \subseteq Indexed /\ r.due \subseteq Wanted /\ r.new_alerts \subseteq r.hits
        /\ r.boundary_ids \subseteq Indexed
    BY <1>6, <2>1 DEF Typed
  <2>4. excused' \subseteq Alerts
    BY <1>6, <2>1, <2>3 DEF GivePageUp, Indexed, Typed, TypeOK
  <2> QED
    BY <1>6, <2>1, <2>2, <2>3, <2>4, NextPageType DEF Typed, TypeOK, indexer, Indexed, Wanted
<1>7. CASE BulkCreateRefused
  BY <1>6, <1>7 DEF BulkCreateRefused, Typed, TypeOK
<1>8. CASE BulkCreateFails
  BY <1>6, <1>8 DEF BulkCreateFails, Failure, Typed, TypeOK
<1>9. CASE Advance
  <2>1. run \in Run /\ run.hits \subseteq Indexed /\ run.due \subseteq Wanted
        /\ run.new_alerts \subseteq run.hits /\ run.boundary_ids \subseteq Indexed
    BY <1>9 DEF Advance, Typed, TypeOK
  <2>2. watermark' \in Times \cup {None}
    BY <1>9, <2>1 DEF Advance, AdvancedWatermark, Typed, TypeOK, Indexed
  <2> QED
    BY <1>9, <2>1, <2>2, NextPageType DEF Advance, Typed, TypeOK, indexer, Indexed, Wanted
<1>10. CASE RequestFails
  BY <1>10 DEF RequestFails, Failure, Finish, Typed, TypeOK, indexer, Indexed, Wanted
<1>11. CASE Crash
  BY <1>11 DEF Crash, Failure, Typed, TypeOK, indexer, Indexed, Wanted
<1>12. CASE UNCHANGED vars
  BY <1>12 DEF vars, Typed, TypeOK, Indexed, Wanted
<1> QED
  BY <1>1, <1>2, <1>3, <1>4, <1>5, <1>7, <1>8, <1>9, <1>10, <1>11, <1>12 DEF Next, Ingest

\* The types are an invariant.
LEMMA TypedInvariant == Spec => []Typed
BY InitTyped, NextTyped, PTL DEF Spec

\* Every variable keeps its type, and a run never asks for more than MaxPages pages.
THEOREM IngestTypeCorrect == Spec => []TypeOK
<1>1. Typed => TypeOK
  BY DEF Typed
<1> QED
  BY <1>1, TypedInvariant, PTL

-----------------------------------------------------------------------------
(***************************************************************************)
(* Nothing is skipped, and nothing lost without a reason                   *)
(***************************************************************************)

\* What the cursor does to an alert that is not in the page and no older than it.
LEMMA NextPageAhead ==
    ASSUME Typed, NEW r \in Run, run # Idle, NextPage(r), r.hits \subseteq Indexed,
           NEW a \in Indexed, a \notin r.hits, stamp[a] >= r.since, a \notin r.boundary_ids,
           \A h \in r.hits : stamp[h] <= stamp[a]
    PROVE  run' # Idle => stamp[a] >= run'.since /\ a \notin run'.boundary_ids
<1>1. CASE Finish(r.errors)
  BY <1>1 DEF Finish
<1>2. CASE ~Finish(r.errors)
  <2>1. PICK b \in r.hits : run' = Cursor(r, stamp[b])
    BY <1>2 DEF NextPage
  <2> QED
    BY <2>1 DEF Cursor, Run
<1> QED
  BY <1>1, <1>2

\* An alert that arrives is ahead of the run and of the next one, or excused.
LEMMA ArrivalIsOwed ==
    ASSUME IInv, NEW b \in Alerts, Arrive(b)
    PROVE  LostForAReason' /\ AheadOfCursor' /\ DueIsOwed'
<1> USE IngestAssumption
<1>1. PICK t \in Times :
        /\ stamp' = [stamp EXCEPT ![b] = t]
        /\ excused' = IF InReach(t) /\ ~BehindCursor(t) THEN excused ELSE excused \cup {b}
  BY DEF Arrive
<1>2. /\ stamp' \in [Alerts -> Times \cup {None}] /\ stamp'[b] = t
      /\ \A a \in Indexed : a # b /\ stamp'[a] = stamp[a]
      /\ UNCHANGED <<now, stored, watermark, run>>
  BY <1>1 DEF Arrive, Indexed, IInv, Typed, TypeOK
<1>3. Wanted' \subseteq Wanted \cup {b} /\ Wanted \subseteq Wanted'
  BY <1>1, <1>2 DEF Wanted, Indexed, IInv, Typed, TypeOK
<1>4. \A a \in Owed' : a \in Owed \/ (a = b /\ InReach(t) /\ ~BehindCursor(t))
  BY <1>1, <1>2, <1>3 DEF Owed
<1>5. Owed \subseteq Indexed /\ Owed \subseteq Owed'
  BY <1>1, <1>2, <1>3 DEF Owed, Wanted
<1>6. LostForAReason'
  BY <1>2, <1>4, <1>5 DEF LostForAReason, Owed, InReach, IInv
<1>7. ASSUME run # Idle
      PROVE  AheadOfCursor' /\ DueIsOwed'
  <2>1. /\ run \in Run /\ run.hits \subseteq Indexed /\ run.boundary_ids \subseteq Indexed
        /\ run.due \subseteq Wanted
    BY <1>7 DEF IInv, Typed, TypeOK
  <2>2. \A a \in Owed' : stamp'[a] >= run.since /\ a \notin run.boundary_ids
    BY <1>2, <1>4, <1>5, <1>7, <2>1 DEF AheadOfCursor, BehindCursor, IInv, Run, Times
  <2>3. run.at # "fetch" =>
            \A a \in Owed' \ run.hits, h \in run.hits : stamp'[h] <= stamp'[a]
    <3> SUFFICES ASSUME run.at # "fetch", NEW a \in Owed' \ run.hits, NEW h \in run.hits
                 PROVE  stamp'[h] <= stamp'[a]
      OBVIOUS
    <3>1. stamp'[h] = stamp[h] /\ stamp[h] \in Times
      BY <1>2, <2>1 DEF Indexed, IInv, Typed, TypeOK
    <3>2. CASE a \in Owed
      BY <1>2, <1>5, <1>7, <3>1, <3>2 DEF AheadOfCursor, IInv
    <3>3. CASE a = b /\ ~BehindCursor(t)
      BY <1>2, <1>7, <3>1, <3>3 DEF BehindCursor, Times
    <3> QED
      BY <1>4, <3>2, <3>3
  <2>4. run.at = "advance" => run.hits \cap Wanted' \subseteq stored
    BY <1>2, <1>3, <1>7, <2>1 DEF AheadOfCursor, IInv
  <2>5. AheadOfCursor'
    BY <1>2, <2>2, <2>3, <2>4 DEF AheadOfCursor
  <2>6. DueIsOwed'
    BY <1>2, <1>5 DEF DueIsOwed, IInv
  <2> QED
    BY <2>5, <2>6
<1> QED
  BY <1>2, <1>6, <1>7 DEF AheadOfCursor, DueIsOwed

\* A run begins with all it owes in its window.
LEMMA StartReachesBack ==
    ASSUME IInv, Start
    PROVE  LostForAReason' /\ AheadOfCursor' /\ DueIsOwed'
<1> USE IngestAssumption
<1>1. /\ run' = [at |-> "fetch", since |-> first_since, boundary_ids |-> {}, pages |-> 0,
                 hits |-> {}, new_alerts |-> {}, errors |-> FALSE, started |-> now,
                 due |-> {a \in Wanted \ stored : stamp[a] >= first_since}]
      /\ excused' = StillExcused
      /\ UNCHANGED <<now, stamp, stored, watermark>>
  BY DEF Start, indexer
<1>2. /\ run' # Idle => /\ run'.at = "fetch" /\ run'.since = first_since
                        /\ run'.boundary_ids = {} /\ run'.hits = {}
                        /\ run'.due = {a \in Wanted \ stored : stamp[a] >= first_since}
  BY <1>1
<1>3. Wanted' = Wanted /\ Wanted \subseteq Indexed
  BY <1>1 DEF Wanted, Indexed
<1>4. \A a \in Indexed : stamp[a] \in Times
  BY DEF Indexed, IInv, Typed, TypeOK
<1>5. \A a \in Owed' : stamp[a] >= first_since /\ InReach(stamp[a])
  <2>1. CASE watermark = None
    BY <1>1, <1>3, <1>4, <2>1 DEF Owed, StillExcused, first_since, InReach, IInv, Typed, TypeOK,
                                  Times
  <2>2. CASE watermark # None
    <3>1. \A a \in Owed' : InReach(stamp[a])
      BY <1>1, <1>3, <2>2 DEF Owed, StillExcused, LostForAReason, IInv
    <3> QED
      BY <2>2, <3>1 DEF first_since, InReach
  <2> QED
    BY <2>1, <2>2
<1>6. \A a \in Wanted \ stored : stamp[a] >= first_since => a \notin StillExcused
  BY <1>3, <1>4 DEF StillExcused, first_since, InReach, IInv, Typed, TypeOK, Times
<1>7. LostForAReason'
  BY <1>1, <1>5 DEF LostForAReason, Owed, InReach
<1>8. AheadOfCursor'
  BY <1>1, <1>2, <1>5 DEF AheadOfCursor
<1>9. DueIsOwed'
  BY <1>1, <1>2, <1>3, <1>6 DEF DueIsOwed, Owed
<1> QED
  BY <1>7, <1>8, <1>9

\* A page has the oldest of what the run owes.
LEMMA FetchTakesTheOldest ==
    ASSUME IInv, Fetch
    PROVE  LostForAReason' /\ AheadOfCursor' /\ DueIsOwed'
<1> USE IngestAssumption
<1>1. PICK page \in Pages(matches(run.since, run.boundary_ids)) :
          IF page = {} THEN Finish(run.errors)
          ELSE /\ run' = [run EXCEPT !.at = "store", !.hits = page, !.pages = @ + 1,
                                     !.new_alerts = {}]
               /\ UNCHANGED polled
  BY DEF Fetch
<1>2. run \in Run /\ run # Idle /\ run.at = "fetch"
  BY DEF Fetch, IInv, Typed, TypeOK
<1>3. UNCHANGED <<now, stamp, stored, watermark, excused>>
  BY DEF Fetch, indexer
<1>4. Wanted' = Wanted /\ Owed' = Owed /\ Owed \subseteq Indexed
  BY <1>3 DEF Owed, Wanted, Indexed
<1>5. LostForAReason'
  BY <1>3, <1>4 DEF LostForAReason, Owed, InReach, IInv
<1>6. CASE page = {}
  BY <1>1, <1>5, <1>6 DEF Finish, AheadOfCursor, DueIsOwed
<1>7. CASE page # {}
  <2>1. /\ run'.at = "store" /\ run'.hits = page /\ run'.due = run.due
        /\ run'.since = run.since /\ run'.boundary_ids = run.boundary_ids
        /\ run'.errors = run.errors
    BY <1>1, <1>2, <1>7 DEF Run
  <2>2. Owed \subseteq matches(run.since, run.boundary_ids)
    BY <1>2, <1>4 DEF AheadOfCursor, matches, IInv
  <2>3. \A a \in Owed \ page, h \in page : stamp[h] <= stamp[a]
    BY <1>1, <2>2 DEF Pages
  <2>4. Cardinality(page) < BatchSize => page = matches(run.since, run.boundary_ids)
    BY <1>1 DEF Pages
  <2>5. AheadOfCursor'
    BY <1>2, <1>3, <1>4, <2>1, <2>3 DEF AheadOfCursor, IInv
  <2>6. DueIsOwed'
    BY <1>2, <1>3, <1>4, <2>1, <2>2, <2>4 DEF DueIsOwed, IInv
  <2> QED
    BY <1>5, <2>5, <2>6
<1> QED
  BY <1>6, <1>7

\* A stored page leaves the run owing what is not in it.
LEMMA StoreKeepsOrder ==
    ASSUME IInv, Store
    PROVE  LostForAReason' /\ AheadOfCursor' /\ DueIsOwed'
<1>1. run \in Run /\ run # Idle /\ run.at = "store"
  BY DEF Store, IInv, Typed, TypeOK
<1>2. /\ run'.at = "advance" /\ run'.hits = run.hits /\ run'.due = run.due
      /\ run'.since = run.since /\ run'.boundary_ids = run.boundary_ids
      /\ run.errors => run'.errors
  BY <1>1 DEF Store, Run
<1>3. stored' = stored \cup new_in_page /\ UNCHANGED <<now, stamp, watermark, excused>>
  BY DEF Store, indexer
<1>4. Wanted' = Wanted /\ Owed' = Owed \ stored'
  BY <1>3 DEF Owed, Wanted, Indexed
<1>5. run.hits \cap Wanted \subseteq stored'
  BY <1>3 DEF new_in_page, Wanted
<1>6. LostForAReason'
  BY <1>3, <1>4 DEF LostForAReason, Owed, InReach, IInv
<1>7. AheadOfCursor'
  BY <1>1, <1>2, <1>3, <1>4, <1>5 DEF AheadOfCursor, IInv
<1>8. DueIsOwed'
  BY <1>1, <1>2, <1>3, <1>4 DEF DueIsOwed, IInv
<1> QED
  BY <1>6, <1>7, <1>8

\* A page given up is excused, and the cursor passes nothing else.
LEMMA GivingUpIsAReason ==
    ASSUME IInv, run # Idle, run.at = "store", GivePageUp
    PROVE  LostForAReason' /\ AheadOfCursor' /\ DueIsOwed'
<1> DEFINE r == [run EXCEPT !.errors = TRUE]
<1>1. run \in Run /\ run.hits \subseteq Indexed /\ run.boundary_ids \subseteq Indexed
      /\ run.due \subseteq Wanted /\ run.new_alerts \subseteq run.hits
  BY DEF IInv, Typed, TypeOK
<1>2. r \in Run /\ r.errors = TRUE /\ r.hits = run.hits /\ r.due = run.due
      /\ r.since = run.since /\ r.boundary_ids = run.boundary_ids
      /\ r.new_alerts = run.new_alerts
  BY <1>1 DEF Run
<1> HIDE DEF r
<1>3. NextPage(r) /\ excused' = excused \cup run.hits
      /\ UNCHANGED <<now, stamp, stored, watermark>>
  BY DEF GivePageUp, indexer, r
<1>4. run' # Idle => run'.at = "fetch" /\ run'.errors
  BY <1>1, <1>2, <1>3, NextPageType DEF IInv
<1>5. Wanted' = Wanted /\ Owed' = Owed \ run.hits /\ Owed \subseteq Indexed
  BY <1>3 DEF Owed, Wanted, Indexed
<1>6. LostForAReason'
  BY <1>3, <1>5 DEF LostForAReason, Owed, InReach, IInv
<1>7. AheadOfCursor'
  <2>1. ASSUME NEW a \in Owed \ run.hits
        PROVE  run' # Idle => stamp[a] >= run'.since /\ a \notin run'.boundary_ids
    <3>1. /\ a \in Indexed /\ a \notin r.hits /\ stamp[a] >= r.since /\ a \notin r.boundary_ids
          /\ \A h \in r.hits : stamp[h] <= stamp[a]
      BY <1>2, <1>5 DEF AheadOfCursor, IInv
    <3> QED
      BY <1>1, <1>2, <1>3, <3>1, NextPageAhead DEF IInv
  <2> QED
    BY <1>3, <1>4, <1>5, <2>1 DEF AheadOfCursor
<1>8. DueIsOwed'
  BY <1>4 DEF DueIsOwed
<1> QED
  BY <1>6, <1>7, <1>8

\* The watermark follows the page, and the page is no newer than what is still owed.
LEMMA WatermarkFollows ==
    ASSUME IInv, Advance
    PROVE  LostForAReason' /\ AheadOfCursor' /\ DueIsOwed'
<1> USE IngestAssumption
<1>1. /\ run \in Run /\ run # Idle /\ run.at = "advance" /\ NextPage(run)
      /\ run.hits \subseteq Indexed /\ run.boundary_ids \subseteq Indexed
      /\ run.due \subseteq Wanted /\ run.new_alerts \subseteq run.hits
  BY DEF Advance, IInv, Typed, TypeOK
<1>2. UNCHANGED <<now, stamp, stored, excused>>
  BY DEF Advance, indexer
<1>3. Wanted' = Wanted /\ Owed' = Owed /\ Owed \subseteq Indexed /\ Owed \subseteq Wanted
  BY <1>2 DEF Owed, Wanted, Indexed
<1>4. \A a \in Owed : a \notin run.hits
  BY <1>1, <1>3 DEF AheadOfCursor, Owed, IInv
<1>5. \A a \in Owed, h \in run.hits : stamp[h] <= stamp[a]
  BY <1>1, <1>4 DEF AheadOfCursor, IInv
<1>6. watermark' = watermark \/ \E n \in run.new_alerts : watermark' = stamp[n]
  BY DEF Advance, AdvancedWatermark
<1>7. LostForAReason'
  <2> SUFFICES ASSUME NEW a \in Owed, watermark' # None
               PROVE  stamp[a] >= watermark' - Overlap
    BY <1>2, <1>3 DEF LostForAReason, InReach, Owed
  <2>1. CASE watermark' = watermark
    BY <2>1 DEF LostForAReason, InReach, Owed, IInv
  <2>2. ASSUME NEW n \in run.new_alerts, watermark' = stamp[n]
        PROVE  stamp[a] >= watermark' - Overlap
    <3>1. n \in run.hits /\ n \in Indexed /\ a \in Indexed
      BY <1>1, <1>3
    <3>2. stamp[n] \in Nat /\ stamp[a] \in Nat
      BY <3>1 DEF Indexed, IInv, Typed, TypeOK, Times
    <3>3. stamp[n] <= stamp[a]
      BY <1>5, <3>1
    <3> QED
      BY <2>2, <3>2, <3>3
  <2> QED
    BY <1>6, <2>1, <2>2
<1>8. run' # Idle => run'.at = "fetch" /\ run'.errors = run.errors /\ run'.due = run.due
  BY <1>1, NextPageType DEF IInv
<1>9. AheadOfCursor'
  <2>1. ASSUME NEW a \in Owed
        PROVE  run' # Idle => stamp[a] >= run'.since /\ a \notin run'.boundary_ids
    <3>1. /\ a \in Indexed /\ a \notin run.hits /\ stamp[a] >= run.since
          /\ a \notin run.boundary_ids
          /\ \A h \in run.hits : stamp[h] <= stamp[a]
      BY <1>1, <1>3, <1>4, <1>5 DEF AheadOfCursor, IInv
    <3> QED
      BY <1>1, <3>1, NextPageAhead DEF IInv
  <2> QED
    BY <1>2, <1>3, <1>8, <2>1 DEF AheadOfCursor
<1>10. DueIsOwed'
  BY <1>1, <1>2, <1>3, <1>8 DEF DueIsOwed, IInv
<1> QED
  BY <1>7, <1>9, <1>10

\* The invariant holds of every behaviour.
LEMMA Invariance == Spec => []IInv
<1>1. Init => IInv
  <2>1. Init => LostForAReason /\ AheadOfCursor /\ DueIsOwed
    BY DEF Init, LostForAReason, AheadOfCursor, DueIsOwed, InReach
  <2> QED
    BY <2>1, InitTyped DEF IInv
<1>2. IInv /\ [Next]_vars => IInv'
  <2> SUFFICES ASSUME IInv, [Next]_vars
               PROVE  LostForAReason' /\ AheadOfCursor' /\ DueIsOwed'
    BY NextTyped DEF IInv
  <2>1. ASSUME UNCHANGED <<stamp, stored, watermark, excused>>, run' = run \/ run' = Idle
        PROVE  LostForAReason' /\ AheadOfCursor' /\ DueIsOwed'
    <3>1. Wanted' = Wanted /\ Owed' = Owed
      BY <2>1 DEF Owed, Wanted, Indexed
    <3>2. LostForAReason'
      BY <2>1, <3>1 DEF LostForAReason, Owed, InReach, IInv
    <3> QED
      BY <2>1, <3>1, <3>2 DEF AheadOfCursor, DueIsOwed, IInv
  <2>2. ASSUME NEW b \in Alerts, Arrive(b)
        PROVE  LostForAReason' /\ AheadOfCursor' /\ DueIsOwed'
    BY <2>2, ArrivalIsOwed
  <2>3. CASE Start
    BY <2>3, StartReachesBack
  <2>4. CASE Fetch
    BY <2>4, FetchTakesTheOldest
  <2>5. CASE Store
    BY <2>5, StoreKeepsOrder
  <2>6. CASE BulkCreateRefused \/ BulkCreateFails
    BY <2>6, GivingUpIsAReason DEF BulkCreateRefused, BulkCreateFails, Failure
  <2>7. CASE Advance
    BY <2>7, WatermarkFollows
  <2>8. CASE Tick \/ RequestFails \/ Crash \/ UNCHANGED vars
    BY <2>1, <2>8 DEF Tick, RequestFails, Crash, Finish, indexer, vars
  <2> QED
    BY <2>2, <2>3, <2>4, <2>5, <2>6, <2>7, <2>8 DEF Next, Ingest
<1> QED
  BY <1>1, <1>2, PTL DEF Spec

\* Whatever fails, the cursor passes over nothing the run has to bring in.
THEOREM CursorSkipsNothing == Spec => []NothingSkipped
<1>1. IInv => NothingSkipped
  BY DEF IInv, AheadOfCursor, NothingSkipped, Owed
<1> QED
  BY <1>1, Invariance, PTL

\* Whatever fails and however late the alerts come, for every overlap and every
\* window: an alert out of the reach of the next run was in a page given up, or came
\* in behind the cursor or behind the window.  Page cuts, crashes, failed requests
\* and the page limit put nothing out of reach.
THEOREM NothingIsLost == Spec => []LostForAReason
<1>1. IInv => LostForAReason
  BY DEF IInv
<1> QED
  BY <1>1, Invariance, PTL

-----------------------------------------------------------------------------
(***************************************************************************)
(* What a poll claims                                                      *)
(***************************************************************************)

\* Whatever fails, a poll is recorded as successful only when all that was due has
\* been stored, or the pages were used up.
THEOREM PollsAreHonest == Spec => HonestPoll
<1> DEFINE Honest == polled' # polled => run.due \subseteq stored \/ run.pages = MaxPages
<1> USE IngestAssumption
<1>1. ASSUME IInv, [Next]_vars, polled' # polled
      PROVE  run.due \subseteq stored \/ run.pages = MaxPages
  <2>1. CASE Fetch
    <3>1. PICK page \in Pages(matches(run.since, run.boundary_ids)) :
              IF page = {} THEN Finish(run.errors) ELSE UNCHANGED polled
      BY <2>1 DEF Fetch
    <3>2. page = {} /\ ~run.errors
      BY <1>1, <3>1 DEF Finish
    <3>3. matches(run.since, run.boundary_ids) = {}
      BY <3>1, <3>2, FS_EmptySet DEF Pages
    <3>4. run # Idle /\ Owed \subseteq Indexed
      BY <2>1 DEF Fetch, Owed, Wanted
    <3>5. Owed \subseteq matches(run.since, run.boundary_ids)
      BY <1>1, <3>4 DEF AheadOfCursor, matches, IInv
    <3>6. run.due \ stored \subseteq Owed
      BY <1>1, <3>2, <3>4 DEF DueIsOwed, IInv
    <3> QED
      BY <3>3, <3>5, <3>6
  <2>2. CASE Advance
    <3>1. NextPage(run) /\ run # Idle /\ run.at = "advance"
      BY <2>2 DEF Advance
    <3>2. Finish(run.errors)
      BY <1>1, <3>1 DEF NextPage
    <3>3. ~run.errors
      BY <1>1, <3>2 DEF Finish
    <3>4. CASE Cardinality(run.hits) < BatchSize
      <4>1. run.due \ stored \subseteq run.hits /\ run.hits \cap Wanted \subseteq stored
        BY <1>1, <3>1, <3>3, <3>4 DEF AheadOfCursor, DueIsOwed, IInv
      <4>2. run.due \subseteq Wanted
        BY <1>1, <3>1 DEF Typed, IInv
      <4> QED
        BY <4>1, <4>2
    <3>5. CASE ~(Cardinality(run.hits) < BatchSize) /\ run.pages # MaxPages
      BY <1>1, <3>1, <3>5 DEF NextPage
    <3> QED
      BY <3>4, <3>5
  <2>3. CASE BulkCreateRefused \/ BulkCreateFails
    <3> DEFINE r == [run EXCEPT !.errors = TRUE]
    <3>1. run \in Run
      BY <1>1, <2>3 DEF BulkCreateRefused, BulkCreateFails, Failure, IInv, Typed, TypeOK
    <3>2. r.errors = TRUE /\ NextPage(r)
      BY <2>3, <3>1 DEF BulkCreateRefused, BulkCreateFails, GivePageUp, Run
    <3> HIDE DEF r
    <3> QED
      BY <1>1, <3>2 DEF NextPage, Finish
  <2>4. CASE RequestFails
    BY <1>1, <2>4 DEF RequestFails, Finish
  <2> QED
    BY <1>1, <2>1, <2>2, <2>3, <2>4
       DEF Next, Ingest, Arrive, Tick, Start, Store, Crash, vars
<1>2. IInv /\ [Next]_vars => [Honest]_vars
  BY <1>1
<1>3. Spec => [][Honest]_vars
  BY <1>2, Invariance, PTL DEF Spec
<1> QED
  BY <1>3 DEF HonestPoll
=============================================================================
