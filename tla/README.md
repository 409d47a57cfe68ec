# SOC_Ticket in TLA+

Specifications of the parts of SOC_Ticket whose correctness depends on the order
of events: what may become of a ticket, a project, an alert, an uploaded file, a
sign-in, a nightly report, while several people, forms and scheduled tasks work on
them; and whether the pages tell the truth about it. TLC checks the modules on small
instances; TLAPS proves what matters most for every instance.

    tlc -config lifecycle_closed.cfg MCTicketLifecycle.tla     # model-check
    tlapm TicketLifecycle_proofs.tla                           # prove

Paths below are relative to `src/apps/incidents/` unless they begin with `src/`.

1. [The system](#1-the-system)
2. [The modules](#2-the-modules)
3. [What the runs check](#3-what-the-runs-check)
4. [What is proved](#4-what-is-proved)
5. [Divergences](#5-divergences)
6. [Not modelled](#6-not-modelled)
7. [What could follow](#7-what-could-follow)

## 1. The system

SOC_Ticket is a Django application on PostgreSQL for a security operations
centre. Web requests run in several threads and processes; there is no
`ATOMIC_REQUESTS`, the isolation is READ COMMITTED, and a transaction exists only
where a service opens one. Scheduled commands run beside the requests.

| Component | State | Operations | Interaction | Module |
|---|---|---|---|---|
| Ticket state machine (`models/ticket.py`) | status, classification, lane (`t1_route`, `assigned_admin`), emergency flag and who decided it, Tier 2 claim, sign-offs, history stamps | `transition_to`, the gates and permissions of `_transition_to`, `reassess_emergency`, `claim_for_t2`, `release_t2_claim`, `save` | called by every service; counts response requests and reads the Project Incident at its gates | TicketRules, TicketLifecycle |
| Workflow services and views (`ticket_workflow.py`, `views/tickets.py`, `views/tier2_queue.py`) | none: they act on the instance the request loaded | submit, return, forward, step back, Tier 2 review, watch, containment report, verification, approval, edit | load without a lock, decide, write | TicketLifecycle |
| Access policies (`policies.py`, `actor_access.py`, accounts) | roles, acting-tier access | predicates asked by views and by the model | read at every gate | TicketRules, Worklists |
| Response requests (`models/subtask.py`, `ticket_updates.py`, `subtask_creation.py`, `redteam_assignment.py`) | subtasks, their type, status and assignee | file, accept, update, reassign | block approval; lock the parent row when saved; routed by the accounts' roles | ResponseRouting, Cancellation, TicketLifecycle |
| Cancellation (`cancellation.py`) | pending request of a ticket, duplicate reference | cancel directly, request, approve, reject, withdraw, supersede | closes response requests; superseded by a closure | Cancellation |
| Project Incident (`project_workflow.py`) | group of member tickets, one review verdict | create, add a member, forward, reassess | moves every member's ticket | ProjectIncident |
| Case creation and triage (`case_creation.py`, `views/triage.py`, `src/apps/wazuh_ingest/views.py`) | alert and triage claims, links of alerts to tickets | claim, release, dismiss, convert, bundle | creates tickets, links alerts | Triage |
| Evidence (`staging.py`, `ticket_evidence.py`) | staged rows and files, permanent rows and files | stage, adopt, discard, purge; attach, remove, restore | inside ticket creation; files do not roll back | Evidence |
| Wazuh ingest and retention (`src/apps/wazuh_ingest/`) | stored alerts, watermark, time of the last good poll | scheduled ingest, fixture load, purge | reads the Indexer; fills the triage queue | WazuhIngest, Triage |
| Two-factor and passwords (`src/apps/accounts/`) | device, last time step, recovery codes, session keys, password and its audit | enrol, verify, recover, reset, change | middleware in front of every view | SignIn |
| Reporting mart (`src/apps/reporting/`) | daily aggregates and snapshots | nightly refresh in steps | copies tickets and alerts before they are purged | Reporting, Dashboards |
| Worklists and navigation (`views/_helpers.py`, queues, `context_processors.py`) | none | which page lists a case, which moves it offers | decide apart from the services | Worklists |
| Notifications (`notifications.py`) | none | a letter after a commit | addressed by role, sent or not | Notices |
| Dashboards, lists, history (`src/apps/dashboard/views.py`, ...) | none | figures and the lists behind them | each figure a query of its own | Dashboards |
| Case history and timeline (`history.py`, `models/logs.py`, `selectors.py`) | field changes, log rows, revisions | record, rewrite an entry, read the sign-off back | written by every service | CaseFile |
| TI platform (`ti_platform.py`) | manual indicators, annotations | add, rename, remove, annotate | one page with the tickets' indicators | IocDatabase |
| Reports, RCA, notification templates, operations | - | - | - | not modelled, section 6 |

What makes each of them correct:

- **Ticket**: a closed case stays closed; an emergency is approved by the manager; two
  signatures on every approval; a case never reaches a desk that cannot pass it on, and
  somebody's page lists it; the holder of a claim is not overruled.
- **Response requests**: a request stays with somebody who can finish it; work done is
  not overwritten unseen.
- **Cancellation**: nothing waits on a case that ended; no two tickets end as duplicates
  of one another; decisions do not deadlock.
- **Project Incident**: the review comes before handling, its verdict is shared, and
  nobody in the group is stranded.
- **Triage**: a source becomes one case; verdicts agree; no alert is out of reach.
- **Evidence**: an upload the form lists has its bytes; none vanishes; staging drains.
- **Ingest**: every storable alert is stored; a poll that failed does not look healthy.
- **Sign-in**: only a proof of possession opens the application; a code is accepted once.
- **Reporting**: a night is captured once and stays; purged days are not recounted.
- **Pages**: figures add up, a verdict is sound, a link opens the rows it counted.
- **Records**: no value is forgotten, the original text is kept, an indicator is listed once.

Hard behaviours: lost updates between a request's load and its write; long sequences of
returns, step backs and escalations; guards that read a loaded copy; locks taken in
different orders; partial failures and crashes between a file and its row; overlapping
scheduled commands; data that arrives late; four places that decide the same question
apart. `PROJECT.json` lists each of them at its line, under "hazards".

## 2. The modules

    TicketRules                rules of one ticket, no state
      TicketLifecycle          the ticket under concurrent requests
        MCTicketLifecycle        TLC instances
        Worklists              what the pages show of it, no state
          Notices              the letters of every service
            MCNotices              TLC instance of both
            TicketLifecycle_proofs theorems of the ticket, its pages and letters
      ProjectIncident          a group of tickets                  (MCProjectIncident)
      CaseFile                 content, history and timeline of a ticket
      Dashboards               the figures of the pages, query by query
        MCDashboards
    TicketContract             the stages a ticket promises: implemented by
                               TicketLifecycle and by each member of ProjectIncident
      TicketContract_proofs      both refinements, and theorems of the group
    Cancellation               tickets, requests and row locks     (MCCancellation, Cancellation_proofs)
    Triage                     alerts and reports before the case  (MCTriage, Triage_proofs)
    WazuhIngest                the scheduled ingest                (WazuhIngest_proofs)
    SignIn                     one account, several sessions       (MCSignIn, SignIn_proofs)
    Reporting                  the nightly refresh                 (MCReporting)
      Reporting_proofs           theorems of Reporting and of Dashboards
    Evidence                   staging and attachments
    IocDatabase                indicators and their annotations
    ResponseRouting            whose work a response request is
      MCRecords                  TLC instance of CaseFile, IocDatabase, ResponseRouting
      Records_proofs             theorems of these and of Evidence

Definitions keep the names of the source. Operators whose name begins with that of
another definition and says how it differs (`DeleteRows_autocommit`) are mutants: the
code with a plausible mistake, each next to the definition it replaces, to see that
the properties notice.

### 2.1 TicketRules

`models/ticket.py` and `policies.py` as operators on a `Ticket` record. The record
has the columns some rule reads; a timestamp that is only tested for presence is a
Boolean. `ALLOWED_TRANSITIONS` is built from the permission tokens of
`TRANSITION_PERMISSIONS`; `can_transition_to` is steps 1 to 8 of `_transition_to`,
`MayDrive` its permission step, `Applied` its stamps and assignments together with
the save (claim released, classification set by a watch or an Event closure,
sign-offs). The response requests and the Project Review enter as arguments.

### 2.2 TicketLifecycle

- `row` is the committed row, `work` what approval and cancellation ask of the
  response requests (none, some open, all done), `req` the slow requests.
- A slow request has a user, the `copy` of the ticket it loaded and `fresh`: whether
  `updated_at` of the row is still that of the copy. `Load` and the service are two
  steps, and anything may commit between them. Beside them `Prompt(u)` is a request
  that loads and writes with nothing in between, so that one slow request gives every
  interleaving of two requests around one load.
- Each service is one action (`SubmitPreparation`, `ManagerForward`,
  `CompleteT2Review`, ...): a transaction, with its guard on the copy as in the view,
  the lock and comparison of `transition_to` on the row, and every column it writes.
- `TransitionTo` takes the claim from the locked row and everything else from the
  copy, as `transition_to` does. Claims are conditional UPDATEs that leave
  `updated_at` alone, so they do not make a copy outdated.
- Three writers compare nothing: the `ticket.save()` at the start of
  `complete_t2_review` (`ticket_workflow.py:131`), `reassess_emergency`
  (`models/ticket.py:2161`) and the save of a response request
  (`models/subtask.py:127`). `Races` says which of them may act on an outdated copy,
  so that a property can be checked with all of them, or shown to fail on account of one.
- The initial states are the preparations `create_ticket_from_form` can save, and
  tickets left in the retired `OWNER_REMEDIATED` status.

Over-approximations: a response-request update is not compared with the subtask's
own `updated_at`; the response team is one set of assignees.

### 2.3 TicketContract

What the documents tell a user of a case: preparation, Tier 2, manager, handling,
verification, approval, the three ends; a lane that is chosen by routing and kept while the
case is routed; signatures that accumulate. It has no copies, claims, permissions or
forms. `TicketLifecycle` maps to it by `StageOf`, `LaneOf`, `SignedOn` (`KeepsContract`)
and so does every member of a `ProjectIncident` (`MembersKeepContract`): each step of the
code is a step of the contract or leaves its state alone.

### 2.4 Worklists and Notices

`Worklists` has no state: queues, badges, `holds_ticket_court`, `court_holder_label`,
`visible_to` and the controls `ticket_detail` renders, as operators on a ticket and an
account. The services decide again later, by other code; the properties compare the two.

`Notices` repeats each step of the lifecycle with the letters its service sends after the
commit. A letter arrives or not (the functions catch the mail server's error); `warned` is
the message the actor sees. Letters change nothing else, so they are those of the last
request only.

### 2.5 Cancellation

The row locks are state: a transaction (`tx`) locks its rows one by one in the order
`Needs` gives for its kind, asks its questions under the locks, and its writes are seen at
its commit. Kinds: a cancellation decided directly or on request, a request made or declined,
a subtask update, the reassignment of Hardening work, a Project Review. `DeadlockDetected`
is PostgreSQL's way out of a deadlock; `NowaitFails` the lock on the original of a duplicate,
which does not wait.

### 2.6 ProjectIncident

Members are `Ticket` records that move by `TicketRules`; `project` has the review and the
flag, `opened` the managers whose view read "not reviewed yet" before somebody else's review
committed, `apart` (history) the members set apart by a second review or their own page,
`suffix` the codes handed out. Creation, late members, Project Review, group reassessment
and each member's own workflow are actions.

### 2.7 Triage

An alert's claim and verdict, a report's decision, the cases made of them. `form` holds the
create forms opened on an unlocked look; `SaveForm` locks the sources and asks again.
`StartDismissal` and `SaveDismissal` are the dismissal's read and its save without a lock; the
purge selects, collects and deletes in three steps. Accounts do not change. `Reclassify` is all
that a case's later life does to this module: Tier 2's review, the end of a watch, a return, an
Event closure or an edit may revise the classification, and no row of an alert or a report is
written. So the verdict is not compared with the case of today (section 5); `VerdictGivenOnce` says
that the save that makes a case of an alert gives it, as the case was classified then, and that
nothing under way at that time or begun later touches the row again.

### 2.8 Evidence

An upload is bytes, then a row. A submit lists, copies, deletes rows, commits and unlinks in
five steps, each of which may be the last before a crash; the purge takes rows in turn and
then files without a row. The attachment views act on a case they loaded before (`opened`).

### 2.9 WazuhIngest

- `stamp` holds the alerts the Indexer shows and their `@timestamp`; an alert appears
  up to `Lateness` after that time, at any moment, in the middle of a run too.
- `run` holds the locals of `fetch_and_store_alerts`. `Fetch` is one search (a page:
  the oldest `BatchSize` matches, ties in any order), `Store` the INSERT of a page,
  `Advance` the watermark and then the cursor. They are separate steps because the
  process may end between any two (`Crash`).
- `BulkCreateRefused` and `BulkCreateFails` are the `except` branch of the INSERT: the
  page is given up and the loop goes on, as the code does.
- One run at a time: the scheduled task has the `IgnoreNew` policy
  (`src/docs/operations/reporting-layer-operations.md:152`).
- `RunTime` is the longest a run takes: the clock does not pass it while one is in
  progress. It is an assumption on the environment (20 requests with a timeout each),
  not something the code enforces.
- `due` and `excused` are of the history, read by properties only. `due` is what the run found
  waiting when it started. `excused` are the alerts it has a reason to leave out: the INSERT of
  their page failed, or they came in behind its cursor or behind the window. `Start` clears it but
  for what its first page cannot reach. The code promises that nothing is lost; what the model says
  is for which reasons an alert is (`LostForAReason`, `EventuallyStored`), and that a crash, a
  failed request, a late arrival the overlap covers and a page cut are none.
- `Crowded(a)`: the window of the next run holds, before `a`, as many alerts as a run reads that it
  has stored already or cannot store.

Left out: low rule levels and the vulnerability detector, excluded by the query and
again by `store_alert_hits`; a document whose `@timestamp` does not parse; the offline
fixture load, which leaves the watermark alone.

### 2.10 SignIn

A request passes the middleware on the rows it loaded (`request`), and its view acts later
under the user's and the device's row locks. A TOTP secret is its `setup_id`, a token the
secret with its time step, recovery codes a generation. The keys of a session (`hash`,
`setup`, `bundle`, `otp`, ...) are state; so are the operator's reset and the administrators'
saves of the account (`edit`): each loads the row, compares and writes it whole, without a lock, so
the saves of several `Editors` overlap one another and the changes of the password. `proved`,
`used`, `shown` and the password a save met when it compared (`met`) are of the history.

### 2.11 Reporting

A run is a process over its steps (views, funnel, upsert, snapshot delete and insert,
detection), any of which may fail, be skipped or be the last before it dies; two runs
overlap. An alert is one half of its local day, because the Indexer's UTC day begins at 07:00.

### 2.12 Dashboards

A page is a record of what each of its queries has returned so far; between two queries a
ticket may move. Counts are kept as sets of `<<ticket, cell>>`, so that sums and links can be
compared row by row. Pages: SOC dashboard (windows, severity, courts, runway, deadlines,
team), executive dashboard, Tier 2 queue, triage queue, ticket list, history, and
the night's snapshot (`src/apps/reporting/snapshot.py`), which is built the same way.
`seen` has the rows each ticket has been since the page was opened; a ticket is steady if that
is one. A row moves by an edge of the lifecycle, a note, the emergency verdict, a cancellation,
a claim, a corrected severity or a step of its response request. That a ticket is claimed only
in the Tier 2 queue is assumed of the first rows: it is `ClaimsStayInQueue` of TicketLifecycle.

### 2.13 CaseFile, IocDatabase, ResponseRouting

`CaseFile` has the content of a ticket, the `TicketFieldChange` rows, the `TicketLog` with
its revisions; one slow request is overtaken by others. `IocDatabase` has manual entries,
the tickets' indicators and annotations; an add or a rename is a look and a write.
`ResponseRouting` has accounts with role and function, and requests with type and assignee;
filing and updating are two steps, because both read the accounts before the transaction that
writes; an administrator's save designates the Hardening manager, and
`assign_open_hardening_requests` rewrites type and owner of the open requests. `MCRecords`
puts the three beside one another: a behaviour is of one of them (`part`). Their
specifications, and that of `Evidence`, have names of their own (`IocSpec`, `Routing`,
`EvidenceSpec`), so that one module can extend them all.

## 3. What the runs check

Passing runs:

| Run | Instance | Shows | States |
|---|---|---|---|
| `lifecycle_roles` | 8 accounts: every role, a manager acting for both tiers, the owner, a superuser; requests served one at a time | the page offers what the services accept (`OffersAreKept`); an open case is on the desk, in the court and on the badge of somebody who can move it (`WaitsOnADesk`); an emergency is approved by a manager only (`EmergencyNeedsManager`); letters reach whom they must (`HandoversAreAnnounced`) and nobody who may not read the case (`AddresseesMayRead`) | 95 thousand |
| `lifecycle_closed` | creator, two Tier 2, manager, system admin; a slow request; outdated reassessments and response requests | `KeepsContract` (the refinement), `NeverStranded`, `SignOffs`, `ClaimHonoured` | 181 thousand |
| `wazuh_all_stored` | 4 alerts, one malformed, one refused by the database; 2 pages of 1; delays of 2, runs of 2, an overlap of 1; one failure of any kind | `HonestPoll`; under fairness, `EventuallyStored` | 420 thousand |
| `cancellation` | 2 tickets that may name one another as the original, one of them a project member; a response request; 2 transactions | `NothingWaitsOnClosed`, `NoDuplicateCycle`, `DecisionsDoNotDeadlock`, `NothingOverwrittenUnseen` | 607 thousand |
| `triage` | 3 alerts of detections, a legacy vulnerability, a report; an analyst, a superuser; 2 cases that are reclassified | `OneCasePerSource`, `VerdictGivenOnce`, `NoAlertStranded` | 1.95 million |
| `project` | 3 members, one of them late; creator, a manager acting for the tiers, an admin | `ReviewBeforeHandling`, `NoMemberStranded`, `VerdictShared`; each member implements the contract (`MembersKeepContract`) | 40 thousand |
| `evidence` | a ticket, a Project Incident, one upload; submits and a purge that end anywhere | `HeldHasBytes`, `NothingLost`; under fairness, `StagingDrains` | 51 thousand |
| `signin` | 2 sessions of one account, 2 administrators saving it, 2 time steps, 2 passwords | `PossessionProved`, `NoTokenTwice`, `UnrecordedOnlyReverts`; no deadlock | 1.2 million |
| `reporting` | 2 overlapping runs, 5 days, retention of 3 days with a margin of 2 | `OneBatchPerNight`, `NightNeverLost`, `PurgedDaysKeepTheirCount` | 1.3 million |
| `dashboards` | 2 tickets (every status) and 2 alerts that move between the queries; 14 pages | `SteadyCasesReconcile`, `VerdictIsSound`, `FiguresOpenTheirRows` | 1.4 million |
| `records` | a case with one slow request; 2 indicators in 4 spellings with 2 requests; 2 requests to 2 responders | `NoValueIsForgotten`, `OriginalIsKept`, `CloseIsCredited`; `ListedOnce`, `AnnotationsFollow`; `RequestsReachTheirTeam` | 564 thousand |

One run TLC ends with a counterexample, a disagreement of the code with its own documents
quoted in `PROJECT.json`, "findings": `reopened_by_review` violates `ResolvedIsFinal`. A
Tier 2 review saves an outdated ticket over one another analyst has closed; the save
refreshes `updated_at`, so the check that follows compares the row with itself.

Type invariants are theorems wherever a module has proofs, and so are
`CancelledEvidenceFrozen`, `AcknowledgedCodesWereShown`, `OnlyDecidedAlertsArePurged`,
`DisposalsAreAccountable`, `DetectionShrinksAtTheEdge`, `DecisionsAreKept`
and the ingest's `NothingSkipped` and `LostForAReason`; no run repeats them. `NoOpenWorkAtApproval`
and `ResolvedIsFinal` the code does not keep; section 4 says which single step breaks them. The decisions, the lane and the finality of the ends
that `lifecycle_closed` checks are parts of `KeepsContract`.

### Bounds

- *Slow requests (lifecycle).* One (`r1`) beside prompt requests of everybody. Two requests
  interleave around one load; a second slow request would add copies that are both
  outdated, and the theorems cover any number.
- *View (lifecycle_closed).* TLC identifies states by `View`: an outdated copy is reduced to
  what can still be done with it (`Prospect`). This is sound because an outdated copy is
  written whole by `complete_t2_review` only, which may not act on one in this run; the other
  two unguarded writers ask its status and emergency flag, and every other handler refuses it.
- *Classified.* This run does not go on from a row left without a classification (the content
  edit can blank it); `lifecycle_roles` does.
- *View (MCNotices)* leaves out the letters: they decide nothing, and the properties about
  them are of single steps.
- *Cancellation.* `MaxRequests` = 1 request per ticket; two transactions make every pair of
  lock orders, and the theorems hold for any number. `View` leaves out what no later step and no
  property reads: what a decided transaction had selected, what an outdated form had loaded, the
  details of a request that has ended.
- *Triage.* `MaxCases` = 2 is what it takes for a source to be behind two. `Bounded`: nobody
  dismisses a report while a purge is under way (the one writes reports, the other alerts).
- *Project.* `Bounded`: two open members at a time, one of them going on through its own
  workflow. A third joins when one has closed. `View` leaves sign-offs and closed members out.
- *Evidence.* One upload. Two, without the liveness property, were checked once (3.7
  million states); the theorems hold for any number.
- *Sign-in.* `MAX_IDS` = 4 devices and secrets, 2 time steps, 2 passwords; `Bounded` keeps the
  administrators' saves apart from half-served requests of the sessions, which touch different
  rows, and from the clock; with one another and with the changes of the password they overlap
  freely. `View` forgets references to devices that are gone and the number of audit rows, of which
  only the increase in a step counts.
- *Reporting.* `AlertDays` = {0}: the alerts of one day, seen from four others. `View` leaves
  out nights no run can write any more.
- *Ingest.* A clock of 2 units. The overlap is shorter than a delay and a run together and a run
  reads fewer pages than there are alerts, so all that section 5 says of lost alerts happens: with
  any one of the three reasons taken out of `EventuallyStored` TLC finds a counterexample.
  `MaxFailures` bounds the failures. Pages of one cut every group of equal timestamps.
- *Dashboards.* `MaxRows` = 2: every row moves once, from every status; the theorems hold for
  any number of moves. The second ticket has two rows, the
  alerts six; a period of 2 days; deadlines on and beside every edge of a bucket.
- *Records.* One form field; timelines of 4, 2 changes and 2 revisions, and `Bounded` on their
  sum; one slow request. Two manual entries. A second request to a team is filed while the
  ticket is open and both accounts can sign in.
- *Symmetry* of interchangeable values, in safety runs only.

### Fairness

The ticket modules have none: nobody is obliged to act, and their properties are safety
properties. `NeverStranded`, `NoMemberStranded`, `NoAlertStranded` and `WaitsOnADesk` stand for
liveness there: a legal move, and somebody who is shown it, always exist.

`FairSpec` of the ingest asks that a run starts and goes on (`WF_vars(Ingest)`): the task is
scheduled every minute and a run waits for nothing but requests with a timeout. Failures are
finitely many; a database that refuses every INSERT stores nothing.

`Evidence` asks that requests end (they do, or their process is killed), that time passes, that
the scheduled purge starts, and (strongly, because a submit may hold a row just then) that its
steps are taken in the end.

## 4. What is proved

Every theorem is for all values of the constants, from the assumptions its module names. An
invariant is strengthened to an inductive `IInv`; there is one lemma per kind of step.

**TicketLifecycle_proofs** (any accounts, any number of slow requests, any `Races`):

- `TypeCorrect`, `PreparationFirst`, `SignedOff`, `ClaimsStayInQueue`,
  `AlwaysAWayForward` and `CancelledStaysCancelled`, without a further condition;
- `EmergencyApproval`, `ApprovalWaitsForResponders` and `ResolvedStaysResolved`, without a
  condition either, are about three promises the code does not keep. Each says that the promise
  survives every step but one: an emergency reassessment, a response request, a Tier 2 review that
  the case has left behind since it was loaded (`Overtaken`). Those steps do break them: see section
  5 and the run `reopened_by_review`.

An outdated copy can be written over the row, so what is said of the row has to hold of every
copy: `IInv` says that the row and all copies are `Sound`. The lane agrees with the status
(`LaneOK`), the history stamps with the status (`HistoryOK`), the signatures with the status
(`SignaturesOK`). The lemmas show that `Applied` takes a sound instance to a sound one along a
legal edge (`MoveSound`), that every service is such a move or a change of columns `Sound` does
not read, and that loading and outdating copies change nothing.

The second half is about `Notices`, the lifecycle with its pages and letters and without slow
requests. `NInv` is `IInv` with `FormOK` (a preparation that may be submitted as an Incident has a
complete lane), and every step of `Notices` is one of the lifecycle by a request that holds the
current row.

- `OffersStayTrue`: the menu and the controls are compared with the guards of the services
  rule by rule, in both directions for the menu.
- `NothingWaitsUnseen`, if the roles are `Staffed`: the creator is Tier 1, there is a Tier 2
  analyst and a manager beside the superusers, and no System Admin is a superuser. A superuser's
  court is no desk: where nobody else holds a role, its cases wait for somebody who happens to look.
- `NobodyIsForgotten`, and `LettersStayInside` if `AnalystsOpenCases`: the accounts that created a
  case and that it was assigned to still work in the SOC. `visible_to` lets the SOC read every case
  and knows no creator, so a letter to one who has left the SOC is about a case he may not open.

**TicketContract_proofs** (assumption `ReviewsAreCurrent`: `complete_t2_review` is not among
`Races`):

- `ContractIsKept`: the lifecycle implements the contract. `InitImplements` maps initial
  states, `StepImplements` every step, by way of the two facts that make it so: every change
  of the row is a legal move or leaves the contract's columns alone (`RowSteps`), and every
  legal move is a move of the contract (`MoveImplements`, edge by edge).
- `DecisionsStay`, `ClaimsAreHonoured`. Both need that a fresh copy differs from the row in
  the claim only (`FreshOK`), which is invariant beside `IInv`.

And of the group, from `ProjectAssumption`, with no further condition: `ReviewComesFirst`,
`VerdictIsShared`, `MembersGoForward` and `MembersKeepTheContract`. A member's ticket is `Sound` as
a single case's is (`MemberOK`), so `MoveSound` and the edges of the contract, stated as a relation
of two tickets (`ContractStep`), are proved once for both.

**Cancellation_proofs**, from `CancellationAssumption` and `IdleIsNoTransaction`, for any members,
requests and transactions: `TypeCorrect`, `EndedCasesAskNothing`, `OriginalsStand`,
`WorkIsSeenBeforeItIsReplaced`, `DecisionsNeverDeadlock`. What a transaction has asked
under its locks stays true until it commits (`DecisionHolds`), because every other service writes a
row under that row's lock (`Exclusive`, and the frame lemmas on what a commit confines itself to).
The original of a duplicate is locked too, and that is why it cannot become a duplicate itself
between the question and the commit. Locks are taken in an order (`HoldsInOrder`): the Project, the
ticket, then response requests to cancel; the original of a duplicate is not waited for outside a
project. In a deadlock of decisions everyone waits for a row one of them holds; whoever of them holds
a row holds the Project, of which there is one, so he would wait for his own row. Requests that name
an original outside a project, and the writers that lock a response request first, are outside the
property: section 5.

**WazuhIngest_proofs**, from `IngestAssumption`:

- `IngestTypeCorrect` and `PollsAreHonest`, whatever fails;
- `CursorSkipsNothing`: the cursor passes over nothing but what is `excused`;
- `NothingIsLost`: whatever the overlap, the delays, the page limit and the failures, an alert is
  beyond the reach of the next run only if it is `excused`, that is, its INSERT failed, or it came
  in behind the cursor or behind the window, and no run since could reach it. How late is too late
  is worth a sum: an alert that arrives behind the cursor waits for the next run while the
  watermark follows the rest of this one, so the overlap has to cover the delay of the alerts *and*
  the length of a run; with the default of 10 minutes and 20 pages with a timeout of 30 seconds
  each, a slow run can use it up alone.

The invariant is `AheadOfCursor`: what is wanted, not stored and not excused is at or ahead of
the cursor and outside `boundary_ids`, and no older than the page in hand.

**Triage_proofs**: `SourcesAreUsedOnce`, `VerdictsStand`, `OpenAlertsAreReachable`,
`PurgeTakesDecidedOnly`, `DisposalsStayAccountable`. The invariant says of each source which
of queue, claim and case it is in, and of the purge that what it collected is decided and
behind no case; an alert behind a case is in no queue, so no step has it in hand (`Settled`), and
revising the case is a step that writes no alert.

**Records_proofs**, four modules side by side:

- *Evidence*: `ListedIsAdoptable`, `HeldIsKept`, `CancelledKeepsEvidence`, for any number
  of files, cases and submits. The invariant follows a file through a submit: what it listed is
  held, or gone onto another case by a submit that overtook this one.
- *IocDatabase*: `IndicatorsAreListedOnce`, `AnnotationsAreKept`. An add or a rename writes on an
  old look, so an indicator may have two active entries; then it is `raced`, and only then
  (`OneEntry`). A rename keeps its entry locked, so the entry still has the value that was compared
  (`EditsOK`).
- *ResponseRouting*: `RequestsStayWithTheirTeam`. The routing is written four times in the code (the
  choice of an assignee, the validation of a subtask, the queue of a responder, the redesignation); the
  lemmas show that they agree on which account may hold which type, and the invariant that a choice
  or a validation made before the transaction stands when it writes, unless the account was edited.
- *CaseFile*: `ValuesAreKept`, `EntriesKeepTheirOriginal`, `TheCloserIsCredited`, for any forms, texts
  and timelines of any length, from `CaseFileAssumption` (the first ticket is open, unsigned and not
  proposed as an Event). One slow request is overtaken by any number of others. What it read is
  current or the rows tell what came after (`ReadOK`, in `FileInv`); the text it is about to bank is
  the original, unless a revision was banked meanwhile (`OriginalInv`); the review rows before the
  row that ended the case begin with the proposer's (`ReviewRun`, in `CreditInv`). Every step of the
  module adds a row, moves the case, rewrites one entry or leaves all that alone (`StepOfCase`).

**SignIn_proofs**: `PossessionIsProved`, `TokensAreSpentOnce`, `AcknowledgedWereShown`,
`RevertsOnly`, for any number of sessions and of overlapping saves of the account. Identifiers are handed out once, so a device, a secret
or a generation a session remembers is the one on record or will never be again; a token that
was used is of a secret that is gone or of a step the device has passed. A save that compared
without finding a difference writes the password it met (`EditsAreTrue`).

**Reporting_proofs**: `SnapshotIsOneRuns`, `NightsStay`, `OnlyTheEdgeShrinks`, and
`PurgedDaysAreNotRecounted` if the margin covers the longest run (`MarginCoversARun`), for any
number of runs and days. The invariant bounds the range a run still has in hand by the day it
began on, and shows that a day on which the purge has started is behind all of them.

It also has the theorems of *Dashboards*, from `AccountsAssumption` and `PagesAssumption`, for any
tickets, alerts and requests and any number of moves between two queries: `PagesReconcile`,
`VerdictSafety`, `FiguresOpen`. What a query says of a ticket depends on that ticket's row alone
(`ResultLocal`); so a query that has run says of a steady ticket what it would say now, whatever
moved meanwhile (`Current`), and figures can be compared ticket by ticket. Three kinds of figure
are not of one ticket and have parts of the invariant (`RenderInv`) of their own: a figure of
Project Incidents contains the incident of every steady ticket it is about (`Keyed`); the trend of
responses, which begins at the first day on record, is whole once it is not empty
(`FlowAgrees`); and what raised the verdict was once so (`VerdictHasACause`). What a bundle's
figure owes to tickets that moved is not stated: a page may count the incident of a member that has
become High as open and not as one of all.

Model-checked only: liveness under fairness and `ENABLED`, which are out of the prover's reach
(`EventuallyStored`, `StagingDrains`). No module declares a
recursive operator, and no statement rests on induction over data: where a proof about `CaseFile` needs the least of a set
of indices, `HasLeast` has it from the well-foundedness of the naturals.

## 5. Divergences

Met while modelling. The first has a run (`reopened_by_review`); the others are what the
modules say the code does, set beside what a document or a comment says it does.

**Ticket**

- `complete_t2_review` saves an outdated instance (`ticket_workflow.py:131`): it reopens a
  case closed meanwhile, and erases a newer `t2_claimed_by`, against the comment at
  `models/ticket.py:1789-1792`.
- `reassess_emergency` (`models/ticket.py:2161`) asks a loaded copy whether the case is open
  and takes no lock: it flags a case that has been closed meanwhile. It also logs the status of
  that copy (2196-2198), which `get_closed_event_signoff` may read as the signing-off.
- A manager may file a response request on an outdated page (`views/response.py:103`): a case
  that is approved by then has open work, against "its parent Incident cannot be approved"
  (`src/CONTEXT.md:99`).
- `can_reassess_emergency` (`models/ticket.py:2140`) allows NEW and ESCALATED_T2;
  `src/docs/architecture/ticket-lifecycle-states.md:25` says "at any active stage past the
  review".
- `t2_claim_blocks` (`models/ticket.py:1713`) refuses only when somebody else holds the claim;
  line 29 of that document says "Tier 2 must claim a ticket before acting on it".
- `workflow_action` (`views/tickets.py:637`) accepts the edges from the manager's review to
  the lanes, which the page offers with a form of their own, and so forwards a case without the
  assessment line 25 of that document calls required.
- The classification of a case under watch can be edited to an Event (`forms.py:754`), against
  `models/ticket.py:2075-2076`.
- The letters of a failed `notify_manager_triage_pending` are never reported to the actor, and
  the generic action from NEW to PENDING_MGR_TRIAGE sends none.

**Response requests**

- A form for a subtask runs `TicketSubtask.clean` (`models/subtask.py:268-305`), whose error
  names `assigned_to`, which is not a field of that form, so Django raises `ValueError`. A request
  whose assignee lost the role or function can then be finished by nobody, and blocks the approval;
  `redteam_assignment.py:13-16` says it is "never stranded without an eligible assignee" and
  `views/response.py:257` "IN_PROGRESS never fails validation". The same happens to a request
  filed with an assignee chosen before a new designation. Ways out: designate the Hardening
  manager again, restore the profile, the Django admin site, a cancellation.

**Cancellation**

- Two requests that name each other's tickets as originals: PostgreSQL checks foreign keys at
  commit, each waits for the other's row, and one is aborted. So is one of an update or a
  reassignment (subtask, then ticket) and a cancellation (ticket, then subtasks).
  `DecisionsDoNotDeadlock` is about decisions with decisions.

**Project Incident**

- A second Project Review from an outdated page rules members that have moved on differently.
- `src/CONTEXT.md:155` says the emergency is "shared by all active Member Tickets";
  `src/docs/architecture/soc-end-to-end-workflow.md:237-238` that a member stepped back is
  forwarded "with its own verdict".
- A member edited to an Event while it waits is forwarded, then skipped by the reassessment.
- The cap of 25 members is not enforced at creation; shared evidence can be attached after all
  members have closed.

**Triage**

- A case's classification is "revisable by Tier 2" (`src/CONTEXT.md:28`), and
  `complete_t2_review` (`ticket_workflow.py:124`), `conclude_monitoring` (194, 198),
  `reclassify_as_event` (213), the returns and the watch (`models/ticket.py:2056`, 2081) and the edit
  form revise it; `WazuhAlert.triage_status` and `TriageRecord.decision` keep the first verdict.
  `reporting/models.py:199-203` counts the alert's status, so the true and false positives of the
  reports are those of Tier 1's first look.
- Alerts held by a deactivated or deleted analyst stay claimed; after a deletion they are
  TRIAGING with no holder and shown under "all" only.
- `views/triage.py:391` dismisses a report on an unlocked read, so a report that became a case
  can also be dismissed; `models/triage.py:31` says the two exclude one another.
- The purge does not have its filters "in the delete's own WHERE clause"
  (`src/apps/wazuh_ingest/management/commands/purge_wazuh_alerts.py:59-60`): a Django deletion with
  cascades selects the rows by the filters and deletes them by key.

**Evidence**

- The adopted file "can never reappear": it does when a discard commits between the listing and the
  deletion. Two concurrent submits of one token attach one file to two cases.
- Attachments of APPROVED and CLOSED_EVENT cases are frozen for a page loaded afterwards only.
- The cap of 50 staged files is counted and then used; a second deletion raises `DoesNotExist`;
  `purge --hours 0` may take an upload in flight.

**Ingest** (`src/apps/wazuh_ingest/`)

- A page whose INSERT fails is given up and the cursor goes on (`ingest.py:190`), so those alerts
  are left behind once the overlap has passed; 212-215 says the next run re-reads them.
- When the overlap behind the watermark holds more than 20 pages, each run reads the oldest 20
  again and the watermark stays (`ingest.py:233`), against "nothing is lost" of the docstring. One
  alert the database refuses takes its whole page with it (`ingest.py:184`, against lines 9-10).
- An alert that reaches the Indexer later than the overlap covers, or behind a run that takes
  long, is never asked for. The process ending between an INSERT and the watermark
  (`ingest.py:192`) loses nothing by itself, but its alerts stay in the window and count towards
  the page limit of every later run.

**Sign-in** (`src/apps/accounts/`)

- An administrator's save of an account writes the whole row. When a password change commits between
  its `pre_save` signal and its UPDATE, the old password is back and nothing is recorded
  (`signals.py:11-40`), though line 1 says every path is. With two such saves it may be the newer
  one: the first puts the old password back, recorded or not, and the second, which had met the new
  one when it compared, brings that back unrecorded. `passwords.py:55` calls a fixed window a
  rolling one.

**Reporting** (`src/apps/reporting/`)

- The detection query (`detection.py:30`, `now-{days}d/d`) has no time zone, so its oldest day is cut
  at 07:00 local time and the upsert (`refresh_reporting.py:174-178`) lowers a complete day;
  `detection.py:8-9` says days are local, `models.py:121-122` that a day cannot be recomputed.
- Two first-ever runs that overlap can lower the count of a purged day. The snapshot tables come from
  separate queries under READ COMMITTED. Editing `dim_severity_map` leaves rows of old bands.

**Worklists**

- A case that a Tier 2 analyst opened is on no queue and no badge while it is NEW
  (`views/triage.py:137`, `models/ticket.py:1738-1748`): its creator finds it in the ticket list.
- `src/apps/wazuh_ingest/context_processors.py:48-49` counts an expired watch as actionable for Tier 1
  ("Tier 1 concludes it"); the edges out of MONITORING are Tier 2's (`models/ticket.py:398-401`),
  and no Tier 2 queue lists MONITORING.
- The page offers to submit a NEW case with a lane and no classification; the service refuses.
- The note form asks `pk == created_by` in one place, `creator_analyst_can_act` in another.

**Dashboards** (`src/apps/dashboard/views.py`)

- "The verdict can never read GOOD while work is queued" (1382-1383) and "closed only when EVERY
  member is" (1371) hold for tickets that do not move between the queries and for bundles within
  the range and severity filter; `hc_closed` can be negative.
- "Finished" falls back to the author of any log row at a final status, not to "the actor who
  entered the terminal state" (557-560).
- A change of severity to Medium or Low leaves the containment deadline in place.

**Records**

- `history.py` says a rewritten ticket can be reconstructed. Not recorded: the outdated save of
  `complete_t2_review`, and changes of classification, lane and admin inside `_transition_to`,
  `conclude_monitoring` and `reclassify_as_event`. The row of `submit_containment` is written
  after its commit (`ticket_workflow.py:223-256`).
- `edit_log` banks the previous note without a lock; only the original is sure to be kept.
- The creator's "changed by Tier 2" marker is cleared by a visit loaded before the change
  (`views/tickets.py:268-276`); the edit form writes every field of an outdated page.
- `_is_duplicate` looks and then writes, so two requests list one indicator twice;
  `create_manual_iocs` can report "restored" (`ti_platform.py:300-303`) for an entry that was
  restored and renamed by another request.
- References are ordered as strings, which breaks past 9999 tickets of a prefix and 99 codes; the allocation gives up after
  five attempts (`models/ticket.py:1530`).

## 6. Not modelled

- **Reports** (DOCX and PDF): they read a case and lay it out.
- **RCA workspace**: no route reaches it. **System owners**: dormant (`models/ticket.py:1062-1070`);
  owner letters exist for tickets of the retired route only.
- **Notification templates**, wording and delivery of mail.
- **Operations**: seeds, imports (one creates rows waiting for containment without a lane or admin),
  settings, deployment; raw edits in the Django admin site; deleted accounts.
- **A change of roles** during a request, except in `ResponseRouting`.
- **Content**: checklists, remediation notes, sizes and types of files, OLA deadlines except as
  data of the Dashboards.
- **The reference allocator**: a loop around a unique constraint; `ProjectIncident` has the
  project's suffixes.
- **The offline fixture load** of alerts. **Rate limits and lockouts**: third-party middleware.

Three things are out of the prover's reach: liveness under fairness, `ENABLED`, and induction over
data. The first two stay with TLC; nothing here rests on the third.

## 7. What could follow

- Roles that change while a request runs; accounts that are deactivated while they hold alerts.
- Two uploads under fairness in Evidence; a second slow request in CaseFile.
- The reference allocator with concurrent creations and its five attempts.
