------------------------------ MODULE Evidence ------------------------------
(***************************************************************************)
(* Evidence: the staging area of the case forms (staging.py and            *)
(* purge_staged_attachments) and the attachments of a case                 *)
(* (ticket_evidence.py, the shared evidence of project_workflow.py).       *)
(*                                                                         *)
(* An upload is written to disk and then gets its StagedAttachment row.    *)
(* The transaction of a form's submit lists the rows of its token, copies  *)
(* the bytes to the case, deletes the rows and, once committed, unlinks    *)
(* the staged bytes.  The purge, a scheduled task, and the picker's        *)
(* discard button run beside it.  All uploads carry one token: the submits *)
(* are the retries, double clicks and second forms of one analyst.         *)
(*                                                                         *)
(* The attachment views decide on a case they loaded without a lock; a     *)
(* ticket's services then lock its row, a Project Incident's lock none.    *)
(*                                                                         *)
(* Left out: sizes, types and counts of files, who may do what (policies:  *)
(* every user here may), and uploads attached to a response request.       *)
(***************************************************************************)

CONSTANTS
    Cases,      \* the cases a form can be submitted to
    Projects,   \* those that are Project Incidents, the others are Tickets
    Files       \* the uploads

ASSUME EvidenceAssumption == Projects \subseteq Cases

VARIABLES
    case,     \* "none" yet, "open", "closed" (resolved) or "cancelled"
    row,      \* the staging row of an upload, and its progress
    bytes,    \* its bytes are in the staging tree
    old,      \* it is older than the purge's cutoff
    att,      \* the attachments of each case
    submit,   \* the submit transaction of each case
    purge,    \* the purge task
    opened    \* cases someone loaded while they were open, to act on evidence

evidence_vars == <<case, row, bytes, old, att, submit, purge, opened>>

NoSubmit == [at |-> "idle", files |-> {}]
NoPurge == [at |-> "idle", files |-> {}, turn |-> {}]

\* Each upload is at one stage of its way through staging, and each case holds
\* an attachment row for it at most.
EvidenceTypeOK ==
    /\ case \in [Cases -> {"none", "open", "closed", "cancelled"}]
    /\ row \in [Files -> {"unsent", "writing", "held", "discarded", "gone"}]
    /\ bytes \in [Files -> BOOLEAN]
    /\ old \in [Files -> BOOLEAN]
    /\ att \in [Cases -> [Files -> {"none", "active", "deleted"}]]
    /\ submit \in [Cases -> [at : {"idle", "listed", "copied", "adopted", "committed"},
                             files : SUBSET Files]]
    /\ purge \in [at : {"idle", "rows", "half", "orphans"},
                 files : SUBSET Files, turn : SUBSET Files]
    /\ opened \subseteq Cases

EvidenceInit ==
    /\ case \in [Cases -> {"none", "open"}]
    /\ row = [f \in Files |-> "unsent"]
    /\ bytes = [f \in Files |-> FALSE]
    /\ old = [f \in Files |-> FALSE]
    /\ att = [c \in Cases |-> [f \in Files |-> "none"]]
    /\ submit = [c \in Cases |-> NoSubmit]
    /\ purge = NoPurge
    /\ opened = {}

\* The rows a transaction has deleted and not committed: others wait for them.
DeletedRows == UNION {submit[c].files : c \in {d \in Cases : submit[d].at = "adopted"}}

\* The edit form locks its ticket; a case being created has no row to lock.
InEdit(c) == case[c] # "none" /\ submit[c].at \notin {"idle", "committed"}

(***************************************************************************)
(* stage_uploads, and the picker's discard and restore                     *)
(***************************************************************************)

WriteBytes(f) ==
    /\ row[f] = "unsent"
    /\ row' = [row EXCEPT ![f] = "writing"]
    /\ bytes' = [bytes EXCEPT ![f] = TRUE]
    /\ UNCHANGED <<case, old, att, submit, purge, opened>>

\* The row, unless the request dies first.
InsertRow(f) ==
    /\ row[f] = "writing"
    /\ row' \in {[row EXCEPT ![f] = "held"], [row EXCEPT ![f] = "gone"]}
    /\ UNCHANGED <<case, bytes, old, att, submit, purge, opened>>

MarkRow(f, from, to) ==
    /\ row[f] = from
    /\ f \notin DeletedRows
    /\ row' = [row EXCEPT ![f] = to]
    /\ UNCHANGED <<case, bytes, old, att, submit, purge, opened>>

discard_staged(f) == MarkRow(f, "held", "discarded")

restore_staged(f) == MarkRow(f, "discarded", "held")

(***************************************************************************)
(* A submit: create_ticket_from_form, create_project_incident_from_forms   *)
(* or save_ticket_edit, around adopt_staged                                *)
(***************************************************************************)

staged_for == {f \in Files : row[f] = "held"}

Advances(c, from, to) ==
    /\ submit[c].at = from
    /\ submit' = [submit EXCEPT ![c].at = to]

\* A Project Incident takes staged evidence at its creation only.
ListStaged(c) ==
    /\ submit[c].at = "idle"
    /\ case[c] = "none" \/ (case[c] = "open" /\ c \notin Projects)
    /\ submit' = [submit EXCEPT ![c] = [at |-> "listed", files |-> staged_for]]
    /\ UNCHANGED <<case, row, bytes, old, att, purge, opened>>

CopyBytes(c) ==
    /\ Advances(c, "listed", "copied")
    /\ \A f \in submit[c].files : bytes[f]
    /\ UNCHANGED <<case, row, bytes, old, att, purge, opened>>

\* Mutant: the staged bytes are unlinked in the transaction, not after it.
DeleteRows_unlinks(c) ==
    /\ Advances(c, "copied", "adopted")
    /\ submit[c].files \cap DeletedRows = {}
    /\ bytes' = [f \in Files |-> bytes[f] /\ f \notin submit[c].files]
    /\ UNCHANGED <<case, row, old, att, purge, opened>>

\* Mutant: the rows are deleted outside the transaction.
DeleteRows_autocommit(c) ==
    /\ Advances(c, "copied", "adopted")
    /\ submit[c].files \cap DeletedRows = {}
    /\ row' = [f \in Files |-> IF f \in submit[c].files THEN "gone" ELSE row[f]]
    /\ UNCHANGED <<case, bytes, old, att, purge, opened>>

\* The DELETE of a row another submit deleted meanwhile finds nothing, and is
\* no error.
DeleteRows(c) ==
    /\ Advances(c, "copied", "adopted")
    /\ submit[c].files \cap DeletedRows = {}
    /\ UNCHANGED <<case, row, bytes, old, att, purge, opened>>

Adopted(c) == [f \in Files |-> IF f \in submit[c].files THEN "active" ELSE att[c][f]]

Commit(c) ==
    /\ Advances(c, "adopted", "committed")
    /\ case' = [case EXCEPT ![c] = "open"]
    /\ row' = [f \in Files |-> IF f \in submit[c].files THEN "gone" ELSE row[f]]
    /\ att' = [att EXCEPT ![c] = Adopted(c)]
    /\ UNCHANGED <<bytes, old, purge, opened>>

\* on_commit(_remove_files), unless the process dies between.
Unlink(c) ==
    /\ submit[c].at = "committed"
    /\ bytes' \in {[f \in Files |-> bytes[f] /\ f \notin submit[c].files], bytes}
    /\ submit' = [submit EXCEPT ![c] = NoSubmit]
    /\ UNCHANGED <<case, row, old, att, purge, opened>>

\* Missing bytes, a source no longer available, a crash.
Rollback(c) ==
    /\ submit[c].at \in {"listed", "copied", "adopted"}
    /\ submit' = [submit EXCEPT ![c] = NoSubmit]
    /\ UNCHANGED <<case, row, bytes, old, att, purge, opened>>

(***************************************************************************)
(* purge_staged_attachments.  No request takes as long as the cutoff, so   *)
(* nothing ages while it is being written.                                 *)
(***************************************************************************)

Ages(f) ==
    /\ ~old[f]
    /\ row[f] \in {"held", "discarded"} \/ (bytes[f] /\ row[f] = "gone")
    /\ old' = [old EXCEPT ![f] = TRUE]
    /\ UNCHANGED <<case, row, bytes, att, submit, purge, opened>>

\* Mutant: the picker's list is purged, so a discarded row stays for good.
Expired_held == {f \in Files : old[f] /\ row[f] = "held"}

Expired == {f \in Files : old[f] /\ row[f] \in {"held", "discarded"}}

PurgeStarts ==
    /\ purge.at = "idle"
    /\ purge' = [at |-> "rows", files |-> Expired, turn |-> {}]
    /\ UNCHANGED <<case, row, bytes, old, att, submit, opened>>

\* purge_expired: the bytes of one row, then the row.
PurgeBytes(f) ==
    /\ purge.at = "rows"
    /\ f \in purge.files
    /\ bytes' = [bytes EXCEPT ![f] = FALSE]
    /\ purge' = [purge EXCEPT !.at = "half", !.turn = {f}]
    /\ UNCHANGED <<case, row, old, att, submit, opened>>

PurgeRow(f) ==
    /\ purge.at = "half"
    /\ f \in purge.turn
    /\ f \notin DeletedRows
    /\ row' = [row EXCEPT ![f] = "gone"]
    /\ purge' = [at |-> "rows", files |-> purge.files \ {f}, turn |-> {}]
    /\ UNCHANGED <<case, bytes, old, att, submit, opened>>

\* purge_orphan_files: the files that have a row, then every old file but those.
PurgeLooks ==
    /\ purge.at = "rows"
    /\ purge.files = {}
    /\ purge' = [at |-> "orphans", turn |-> {},
                 files |-> {f \in Files : row[f] \in {"held", "discarded"}}]
    /\ UNCHANGED <<case, row, bytes, old, att, submit, opened>>

Orphans == {f \in Files \ purge.files : bytes[f] /\ old[f]}

PurgeOrphans ==
    /\ purge.at = "orphans"
    /\ bytes' = [f \in Files |-> bytes[f] /\ f \notin Orphans]
    /\ purge' = NoPurge
    /\ UNCHANGED <<case, row, old, att, submit, opened>>

PurgeDies ==
    /\ purge.at # "idle"
    /\ purge' = NoPurge
    /\ UNCHANGED <<case, row, bytes, old, att, submit, opened>>

(***************************************************************************)
(* The attachments of a case                                               *)
(***************************************************************************)

Loads(c) ==
    /\ case[c] = "open"
    /\ opened' = opened \cup {c}
    /\ UNCHANGED <<case, row, bytes, old, att, submit, purge>>

Leaves(c) ==
    /\ c \in opened
    /\ opened' = opened \ {c}
    /\ UNCHANGED <<case, row, bytes, old, att, submit, purge>>

\* The services of a ticket lock it and refuse a cancelled one only.
Writable(c) ==
    /\ c \in opened
    /\ c \notin Projects => case[c] # "cancelled" /\ ~InEdit(c)

Attachment(c, f, from, to) ==
    /\ att[c][f] = from
    /\ att' = [att EXCEPT ![c][f] = to]
    /\ UNCHANGED <<case, bytes, old, submit, purge, opened>>

AddAttachment(c, f) ==
    /\ Writable(c)
    /\ row[f] = "unsent"
    /\ row' = [row EXCEPT ![f] = "gone"]
    /\ Attachment(c, f, "none", "active")

DeleteAttachment(c, f) ==
    Writable(c) /\ Attachment(c, f, "active", "deleted") /\ UNCHANGED row

\* Open to the manager whatever the case's status.
RestoreAttachment(c, f) ==
    (c \in Projects \/ ~InEdit(c)) /\ Attachment(c, f, "deleted", "active") /\ UNCHANGED row

\* The case is resolved, or a ticket is cancelled; its row is locked for it.
Ends(c) ==
    /\ case[c] = "open"
    /\ ~InEdit(c)
    /\ \E how \in IF c \in Projects THEN {"closed"} ELSE {"closed", "cancelled"} :
        case' = [case EXCEPT ![c] = how]
    /\ UNCHANGED <<row, bytes, old, att, submit, purge, opened>>

(***************************************************************************)
(* Next.  The purge runs every day and each of its steps is taken in the   *)
(* end, however often it dies before; requests finish; time passes.        *)
(***************************************************************************)

Submits(c) ==
    CopyBytes(c) \/ DeleteRows(c) \/ Commit(c) \/ Unlink(c) \/ Rollback(c)

EvidenceNext ==
    \/ \E f \in Files :
        \/ WriteBytes(f) \/ InsertRow(f) \/ discard_staged(f) \/ restore_staged(f)
        \/ Ages(f) \/ PurgeBytes(f) \/ PurgeRow(f)
    \/ \E c \in Cases : ListStaged(c) \/ Submits(c) \/ Loads(c) \/ Leaves(c) \/ Ends(c)
    \/ \E c \in Cases, f \in Files :
        AddAttachment(c, f) \/ DeleteAttachment(c, f) \/ RestoreAttachment(c, f)
    \/ PurgeStarts \/ PurgeLooks \/ PurgeOrphans \/ PurgeDies

Fairness ==
    /\ \A f \in Files :
        /\ WF_evidence_vars(InsertRow(f))
        /\ WF_evidence_vars(Ages(f))
        /\ SF_evidence_vars(PurgeBytes(f))
        /\ SF_evidence_vars(PurgeRow(f))
    /\ \A c \in Cases : WF_evidence_vars(Submits(c))
    /\ WF_evidence_vars(PurgeStarts)
    /\ SF_evidence_vars(PurgeLooks)
    /\ SF_evidence_vars(PurgeOrphans)

EvidenceSpec == EvidenceInit /\ [][EvidenceNext]_evidence_vars /\ Fairness

(***************************************************************************)
(* Properties                                                              *)
(***************************************************************************)

\* No row in the picker without its bytes: whatever submit failed, was rolled
\* back or died, an upload the form still lists can be adopted, until the purge's
\* cutoff ("the one failure mode that actually loses evidence", adopt_staged).
HeldHasBytes ==
    \A f \in Files : row[f] \in {"held", "discarded"} /\ ~old[f] => bytes[f]

\* A held upload leaves staging only by age or onto a case, however many submits,
\* discards and purges run.
NothingLost ==
    [][\A f \in Files :
        row[f] = "held" /\ row'[f] = "gone" /\ ~old[f] =>
            \E c \in Cases : att'[c][f] = "active"]_evidence_vars

\* A cancelled ticket's evidence only ever comes back: no upload, removal or edit
\* that was under way at the cancellation changes it.
CancelledEvidenceFrozen ==
    [][\A c \in Cases \ Projects, f \in Files :
        case[c] = "cancelled" => att'[c][f] = att[c][f] \/ att[c][f] = "deleted"]_evidence_vars

\* Scratch data does not pile up: whatever a form, a crash or a purge cut short
\* left in staging, bytes with or without a row, is cleared in the end.
StagingDrains == \A f \in Files : bytes[f] ~> ~bytes[f] /\ row[f] = "gone"
=============================================================================
