--------------------------- MODULE Records_proofs ---------------------------
(***************************************************************************)
(* Theorems about what is kept: the evidence (Evidence), what a case says  *)
(* (CaseFile), the IOC database (IocDatabase) and the requests to the      *)
(* response teams (ResponseRouting), for every set of cases, uploads,      *)
(* accounts, values, indicators and concurrent requests, and every bound.  *)
(*                                                                         *)
(* Each part has its own inductive invariant and argument, stated at its   *)
(* head; the modules share no state.                                       *)
(***************************************************************************)
EXTENDS Evidence, CaseFile, IocDatabase, ResponseRouting, FiniteSetTheorems,
        WellFoundedInduction, TLAPS

\* A set of natural numbers has a least element, and a bounded one a greatest.
LEMMA HasLeast ==
    ASSUME NEW T, T \subseteq Nat, T # {}
    PROVE  \E x \in T : \A y \in T : x <= y
<1> DEFINE R == {ss \in Nat \X Nat : ss[1] < ss[2]}
<1>1. IsWellFoundedOn(R, Nat)
  BY NatLessThanWellFounded DEF OpToRel
<1>2. \E x \in T : \A y \in T : ~ (<<y, x>> \in R)
  <2> HIDE DEF R
  <2> QED
    BY <1>1, WFMin
<1>3. \A x, y \in Nat : <<y, x>> \in R <=> y < x
  OBVIOUS
<1> HIDE DEF R
<1>4. PICK x \in T : \A y \in T : ~ (<<y, x>> \in R)
  BY <1>2
<1>5. \A y \in T : ~ (y < x)
  BY <1>3, <1>4
<1>6. \A y \in T : x <= y
  BY <1>5
<1> QED
  BY <1>6

LEMMA HasGreatest ==
    ASSUME NEW n \in Nat, NEW T, T \subseteq 0 .. n, T # {}
    PROVE  \E x \in T : \A y \in T : y <= x
<1> DEFINE D == {k \in Nat : k <= n /\ n - k \in T}
<1>1. D # {} 
  <2>1. PICK x \in T : TRUE
    OBVIOUS
  <2>2. n - x \in D
    BY <2>1
  <2> QED
    BY <2>2
<1>2. PICK k \in D : \A j \in D : k <= j
  BY <1>1, HasLeast
<1>3. n - k \in T 
  OBVIOUS
<1>4. ASSUME NEW y \in T PROVE y <= n - k
  <2>1. n - y \in D
    BY <1>4
  <2> QED
    BY <2>1, <1>2
<1> QED
  BY <1>3, <1>4
-----------------------------------------------------------------------------
(***************************************************************************)
(* Evidence, for as many submits and purges beside one another as there    *)
(* are cases.  Bytes leave staging for two reasons: a purge takes them     *)
(* from uploads older than its cutoff, and a submit from uploads whose row *)
(* it has deleted; a deleted row never returns to the picker.              *)
(***************************************************************************)

\* An upload is young while it is being written.
WritingIsYoung == \A f \in Files : row[f] \in {"unsent", "writing"} => ~old[f]

\* A young upload has its bytes until a committed submit takes them.
YoungHasBytes ==
    \A f \in Files : row[f] \in {"writing", "held", "discarded"} /\ ~old[f] => bytes[f]

\* What a submit is about to unlink has left the picker for good.
CommittedIsGone ==
    \A c \in Cases : submit[c].at = "committed" =>
        \A f \in submit[c].files : row[f] = "gone"

\* The purge takes old uploads only.
PurgeTakesOld ==
    /\ purge.at \in {"rows", "half"} => \A f \in purge.files : old[f]
    /\ purge.turn \subseteq purge.files
    /\ purge.at \in {"idle", "rows", "orphans"} => purge.turn = {}

\* No transaction is left that could change a cancelled ticket.
CancelledIsQuiet ==
    \A c \in Cases \ Projects :
        case[c] = "cancelled" => submit[c].at \in {"idle", "committed"}

EvidenceInv ==
    /\ EvidenceTypeOK
    /\ WritingIsYoung
    /\ YoungHasBytes
    /\ CommittedIsGone
    /\ PurgeTakesOld
    /\ CancelledIsQuiet

LEMMA InitEvidence == EvidenceInit => EvidenceInv
<1> SUFFICES ASSUME EvidenceInit PROVE EvidenceInv
  OBVIOUS
<1>1. EvidenceTypeOK
  BY DEF EvidenceInit, EvidenceTypeOK, NoSubmit, NoPurge
<1> QED
  BY <1>1 DEF EvidenceInit, EvidenceInv, WritingIsYoung, YoungHasBytes, CommittedIsGone, PurgeTakesOld,
              CancelledIsQuiet, NoSubmit, NoPurge

-----------------------------------------------------------------------------
(***************************************************************************)
(* The invariant is inductive: one lemma for each group of actions         *)
(***************************************************************************)

\* The stages of an upload in staging.
LEMMA StagingKeepsInv ==
    ASSUME EvidenceInv, NEW f \in Files,
           \/ WriteBytes(f) \/ InsertRow(f) \/ discard_staged(f) \/ restore_staged(f)
           \/ Ages(f)
    PROVE  EvidenceInv'
<1> USE DEF EvidenceInv
<1>1. CASE WriteBytes(f)
  BY <1>1 DEF WriteBytes, EvidenceTypeOK, WritingIsYoung, YoungHasBytes, CommittedIsGone,
              PurgeTakesOld, CancelledIsQuiet
<1>2. CASE InsertRow(f)
  BY <1>2 DEF InsertRow, EvidenceTypeOK, WritingIsYoung, YoungHasBytes, CommittedIsGone,
              PurgeTakesOld, CancelledIsQuiet
<1>3. CASE discard_staged(f) \/ restore_staged(f)
  BY <1>3 DEF discard_staged, restore_staged, MarkRow, EvidenceTypeOK, WritingIsYoung,
              YoungHasBytes, CommittedIsGone, PurgeTakesOld, CancelledIsQuiet
<1>4. CASE Ages(f)
  BY <1>4 DEF Ages, EvidenceTypeOK, WritingIsYoung, YoungHasBytes, CommittedIsGone,
              PurgeTakesOld, CancelledIsQuiet
<1> QED
  BY <1>1, <1>2, <1>3, <1>4

\* The transaction of a submit.
LEMMA SubmitKeepsInv ==
    ASSUME EvidenceInv, NEW c \in Cases, ListStaged(c) \/ Submits(c)
    PROVE  EvidenceInv'
<1> USE DEF EvidenceInv
<1>0. submit[c].files \subseteq Files
  BY DEF EvidenceTypeOK
<1>1. CASE ListStaged(c)
  <2> DEFINE s == [at |-> "listed", files |-> staged_for]
  <2>1. submit' = [submit EXCEPT ![c] = s]
    BY <1>1 DEF ListStaged
  <2>2. s.at = "listed" /\ s \in [at : {"idle", "listed", "copied", "adopted", "committed"},
                                   files : SUBSET Files]
    BY DEF staged_for
  <2> HIDE DEF s
  <2> QED
    BY <1>1, <2>1, <2>2 DEF ListStaged, EvidenceTypeOK, WritingIsYoung, YoungHasBytes,
                            CommittedIsGone, PurgeTakesOld, CancelledIsQuiet
<1>2. CASE CopyBytes(c) \/ DeleteRows(c)
  <2>1. /\ \E s \in {"copied", "adopted"} : submit' = [submit EXCEPT ![c].at = s]
        /\ submit[c].at \notin {"idle", "committed"}
        /\ UNCHANGED <<case, row, bytes, old, att, purge, opened>>
    BY <1>2 DEF CopyBytes, DeleteRows, Advances
  <2> QED
    BY <2>1 DEF EvidenceTypeOK, WritingIsYoung, YoungHasBytes, CommittedIsGone, PurgeTakesOld,
                CancelledIsQuiet
<1>3. CASE Commit(c)
  <2>1. /\ submit' = [submit EXCEPT ![c].at = "committed"]
        /\ case' = [case EXCEPT ![c] = "open"]
        /\ row' = [f \in Files |-> IF f \in submit[c].files THEN "gone" ELSE row[f]]
        /\ att' = [att EXCEPT ![c] = Adopted(c)]
        /\ UNCHANGED <<bytes, old, purge, opened>>
    BY <1>3 DEF Commit, Advances
  <2>2. Adopted(c) \in [Files -> {"none", "active", "deleted"}]
    BY DEF Adopted, EvidenceTypeOK
  <2>3. EvidenceTypeOK'
    BY <2>1, <2>2 DEF EvidenceTypeOK
  <2>4. CommittedIsGone'
    BY <1>0, <2>1 DEF EvidenceTypeOK, CommittedIsGone
  <2> QED
    BY <2>1, <2>3, <2>4 DEF WritingIsYoung, YoungHasBytes, PurgeTakesOld, CancelledIsQuiet,
                            EvidenceTypeOK
<1>4. CASE Unlink(c)
  <2>1. /\ submit[c].at = "committed"
        /\ submit' = [submit EXCEPT ![c] = NoSubmit]
        /\ UNCHANGED <<case, row, old, att, purge, opened>>
        /\ bytes' \in [Files -> BOOLEAN]
        /\ \A f \in Files : bytes[f] /\ row[f] # "gone" => bytes'[f]
    BY <1>4 DEF Unlink, EvidenceTypeOK, CommittedIsGone
  <2> QED
    BY <2>1 DEF EvidenceTypeOK, WritingIsYoung, YoungHasBytes, CommittedIsGone, PurgeTakesOld,
                CancelledIsQuiet, NoSubmit
<1>5. CASE Rollback(c)
  BY <1>5 DEF Rollback, EvidenceTypeOK, WritingIsYoung, YoungHasBytes, CommittedIsGone,
              PurgeTakesOld, CancelledIsQuiet, NoSubmit
<1> QED
  BY <1>1, <1>2, <1>3, <1>4, <1>5 DEF Submits

\* The purge.
LEMMA PurgeKeepsInv ==
    ASSUME EvidenceInv,
           \/ \E f \in Files : PurgeBytes(f) \/ PurgeRow(f)
           \/ PurgeStarts \/ PurgeLooks \/ PurgeOrphans \/ PurgeDies
    PROVE  EvidenceInv'
<1> USE DEF EvidenceInv
<1>1. ASSUME NEW f \in Files, PurgeBytes(f)
      PROVE  EvidenceInv'
  <2>1. /\ f \in purge.files /\ old[f]
        /\ purge' = [purge EXCEPT !.at = "half", !.turn = {f}]
        /\ bytes' = [bytes EXCEPT ![f] = FALSE]
        /\ UNCHANGED <<case, row, old, att, submit, opened>>
    BY <1>1 DEF PurgeBytes, PurgeTakesOld
  <2>2. purge.at = "rows"
    BY <1>1 DEF PurgeBytes
  <2>3. /\ purge' \in [at : {"idle", "rows", "half", "orphans"},
                      files : SUBSET Files, turn : SUBSET Files]
        /\ purge'.at = "half" /\ purge'.files = purge.files /\ purge'.turn = {f}
    BY <2>1 DEF EvidenceTypeOK
  <2>4. EvidenceTypeOK'
    BY <2>1, <2>3 DEF EvidenceTypeOK
  <2>5. PurgeTakesOld'
    BY <2>1, <2>2, <2>3 DEF PurgeTakesOld
  <2> QED
    BY <2>1, <2>4, <2>5 DEF EvidenceTypeOK, WritingIsYoung, YoungHasBytes, CommittedIsGone,
                      CancelledIsQuiet
<1>2. ASSUME NEW f \in Files, PurgeRow(f)
      PROVE  EvidenceInv'
  <2>1. /\ purge.at = "half"
        /\ purge' = [at |-> "rows", files |-> purge.files \ {f}, turn |-> {}]
        /\ row' = [row EXCEPT ![f] = "gone"]
        /\ UNCHANGED <<case, bytes, old, att, submit, opened>>
    BY <1>2 DEF PurgeRow
  <2>2. EvidenceTypeOK' /\ PurgeTakesOld'
    BY <2>1 DEF EvidenceTypeOK, PurgeTakesOld
  <2> QED
    BY <2>1, <2>2 DEF EvidenceTypeOK, WritingIsYoung, YoungHasBytes, CommittedIsGone,
                      CancelledIsQuiet
<1>3. CASE PurgeStarts \/ PurgeLooks
  <2> DEFINE looked == {f \in Files : row[f] \in {"held", "discarded"}}
  <2>1. /\ \/ purge' = [at |-> "rows", files |-> Expired, turn |-> {}]
           \/ purge' = [at |-> "orphans", files |-> looked, turn |-> {}]
        /\ UNCHANGED <<case, row, bytes, old, att, submit, opened>>
    BY <1>3 DEF PurgeStarts, PurgeLooks
  <2>2. looked \subseteq Files /\ Expired \subseteq Files /\ \A f \in Expired : old[f]
    BY DEF Expired
  <2> HIDE DEF looked
  <2>3. EvidenceTypeOK' /\ PurgeTakesOld'
    BY <2>1, <2>2 DEF EvidenceTypeOK, PurgeTakesOld
  <2> QED
    BY <2>1, <2>3 DEF EvidenceTypeOK, WritingIsYoung, YoungHasBytes, CommittedIsGone,
                      CancelledIsQuiet
<1>4. CASE PurgeOrphans \/ PurgeDies
  <2>1. /\ purge' = NoPurge
        /\ bytes' \in [Files -> BOOLEAN]
        /\ \A f \in Files : bytes[f] /\ ~old[f] => bytes'[f]
        /\ UNCHANGED <<case, row, old, att, submit, opened>>
    BY <1>4 DEF PurgeOrphans, PurgeDies, Orphans, EvidenceTypeOK
  <2> QED
    BY <2>1 DEF EvidenceTypeOK, WritingIsYoung, YoungHasBytes, CommittedIsGone, PurgeTakesOld,
                CancelledIsQuiet, NoPurge
<1> QED
  BY <1>1, <1>2, <1>3, <1>4

\* The attachments of a case, and its end.
LEMMA CaseKeepsInv ==
    ASSUME EvidenceInv, NEW c \in Cases,
           \/ Loads(c) \/ Leaves(c) \/ Ends(c)
           \/ \E f \in Files : \/ AddAttachment(c, f)
                               \/ DeleteAttachment(c, f)
                               \/ RestoreAttachment(c, f)
    PROVE  EvidenceInv'
<1> USE DEF EvidenceInv
<1>1. CASE Loads(c) \/ Leaves(c)
  BY <1>1 DEF Loads, Leaves, EvidenceTypeOK, WritingIsYoung, YoungHasBytes, CommittedIsGone,
              PurgeTakesOld, CancelledIsQuiet
<1>2. CASE Ends(c)
  <2>1. /\ case[c] = "open" /\ submit[c].at \in {"idle", "committed"}
        /\ \E how \in {"closed", "cancelled"} : case' = [case EXCEPT ![c] = how]
        /\ UNCHANGED <<row, bytes, old, att, submit, purge, opened>>
    BY <1>2 DEF Ends, InEdit
  <2> QED
    BY <2>1 DEF EvidenceTypeOK, WritingIsYoung, YoungHasBytes, CommittedIsGone, PurgeTakesOld,
                CancelledIsQuiet
<1>3. ASSUME NEW f \in Files, AddAttachment(c, f)
      PROVE  EvidenceInv'
  <2>1. /\ row[f] = "unsent"
        /\ row' = [row EXCEPT ![f] = "gone"]
        /\ att' = [att EXCEPT ![c][f] = "active"]
        /\ UNCHANGED <<case, bytes, old, submit, purge, opened>>
    BY <1>3 DEF AddAttachment, Attachment
  <2>2. EvidenceTypeOK'
    BY <2>1 DEF EvidenceTypeOK
  <2> QED
    BY <2>1, <2>2 DEF EvidenceTypeOK, WritingIsYoung, YoungHasBytes, CommittedIsGone,
                      PurgeTakesOld, CancelledIsQuiet
<1>4. ASSUME NEW f \in Files, DeleteAttachment(c, f) \/ RestoreAttachment(c, f)
      PROVE  EvidenceInv'
  <2>1. /\ \E to \in {"active", "deleted"} : att' = [att EXCEPT ![c][f] = to]
        /\ UNCHANGED <<case, row, bytes, old, submit, purge, opened>>
    BY <1>4 DEF DeleteAttachment, RestoreAttachment, Attachment
  <2>2. EvidenceTypeOK'
    BY <2>1 DEF EvidenceTypeOK
  <2> QED
    BY <2>1, <2>2 DEF EvidenceTypeOK, WritingIsYoung, YoungHasBytes, CommittedIsGone,
                      PurgeTakesOld, CancelledIsQuiet
<1> QED
  BY <1>1, <1>2, <1>3, <1>4

LEMMA NextEvidence == EvidenceInv /\ [EvidenceNext]_evidence_vars => EvidenceInv'
<1> SUFFICES ASSUME EvidenceInv, [EvidenceNext]_evidence_vars PROVE EvidenceInv'
  OBVIOUS
<1>1. CASE UNCHANGED evidence_vars
  BY <1>1 DEF evidence_vars, EvidenceInv, EvidenceTypeOK, WritingIsYoung, YoungHasBytes, CommittedIsGone,
              PurgeTakesOld, CancelledIsQuiet
<1> QED
  BY <1>1, StagingKeepsInv, SubmitKeepsInv, PurgeKeepsInv, CaseKeepsInv DEF EvidenceNext

LEMMA EvidenceInvariance == EvidenceSpec => []EvidenceInv
  BY InitEvidence, NextEvidence, PTL DEF EvidenceSpec

-----------------------------------------------------------------------------
(***************************************************************************)
(* Theorems                                                                *)
(***************************************************************************)

\* Every upload is at one stage, and every case holds at most one copy of it.
THEOREM EvidenceTyped == EvidenceSpec => []EvidenceTypeOK
  BY EvidenceInvariance, PTL DEF EvidenceInv

\* An upload the picker lists can be adopted, until the purge's cutoff.
THEOREM ListedIsAdoptable == EvidenceSpec => []HeldHasBytes
<1>1. EvidenceInv => HeldHasBytes
  BY DEF EvidenceInv, YoungHasBytes, HeldHasBytes
<1> QED
  BY <1>1, EvidenceInvariance, PTL

\* A held upload leaves staging by age, or onto a case.
THEOREM HeldIsKept == EvidenceSpec => NothingLost
<1> DEFINE Kept == \A f \in Files :
                     row[f] = "held" /\ row'[f] = "gone" /\ ~old[f] =>
                        \E c \in Cases : att'[c][f] = "active"
<1>1. ASSUME EvidenceInv, [EvidenceNext]_evidence_vars
      PROVE  Kept
  <2> SUFFICES ASSUME NEW f \in Files, row[f] = "held", row'[f] = "gone", ~old[f]
               PROVE  \E c \in Cases : att'[c][f] = "active"
    OBVIOUS
  <2>1. ASSUME NEW g \in Files, row' = [row EXCEPT ![g] = "gone"]
        PROVE  g = f
    BY <2>1 DEF EvidenceTypeOK
  <2>2. ASSUME NEW g \in Files, PurgeRow(g)
        PROVE  FALSE
    <3>1. g = f
      BY <2>1, <2>2 DEF PurgeRow
    <3>2. old[g]
      BY <1>1, <2>2 DEF PurgeRow, EvidenceInv, PurgeTakesOld
    <3> QED
      BY <3>1, <3>2
  <2>3. ASSUME NEW g \in Files,
               \/ WriteBytes(g) \/ InsertRow(g) \/ discard_staged(g) \/ restore_staged(g)
               \/ \E c \in Cases : AddAttachment(c, g)
        PROVE  FALSE
    BY <1>1, <2>3 DEF WriteBytes, InsertRow, discard_staged, restore_staged, MarkRow,
                      AddAttachment, EvidenceInv, EvidenceTypeOK
  <2>4. ASSUME NEW c \in Cases, Commit(c)
        PROVE  att'[c][f] = "active"
    <3>1. f \in submit[c].files
      BY <2>4 DEF Commit
    <3>2. att'[c] = Adopted(c)
      BY <1>1, <2>4 DEF Commit, EvidenceInv, EvidenceTypeOK
    <3> QED
      BY <3>1, <3>2 DEF Adopted
  <2>5. row' # row
    OBVIOUS
  <2> QED
    BY <1>1, <2>2, <2>3, <2>4, <2>5
    DEF EvidenceNext, evidence_vars, Ages, PurgeBytes, PurgeStarts, PurgeLooks, PurgeOrphans, PurgeDies,
        ListStaged, Submits, CopyBytes, DeleteRows, Unlink, Rollback, Loads, Leaves, Ends,
        DeleteAttachment, RestoreAttachment
<1>2. EvidenceInv /\ [EvidenceNext]_evidence_vars => [Kept]_evidence_vars
  BY <1>1
<1> QED
  BY <1>2, EvidenceInvariance, PTL DEF EvidenceSpec, NothingLost

\* The evidence of a cancelled ticket stays, apart from what a manager restores.
THEOREM CancelledKeepsEvidence == EvidenceSpec => CancelledEvidenceFrozen
<1> DEFINE Frozen == \A c \in Cases \ Projects, f \in Files :
                       case[c] = "cancelled" =>
                          att'[c][f] = att[c][f] \/ att[c][f] = "deleted"
<1>1. ASSUME EvidenceInv, [EvidenceNext]_evidence_vars
      PROVE  Frozen
  <2> SUFFICES ASSUME NEW c \in Cases \ Projects, NEW f \in Files, case[c] = "cancelled",
                      att'[c][f] # att[c][f]
               PROVE  att[c][f] = "deleted"
    OBVIOUS
  <2>1. ASSUME NEW d \in Cases, Commit(d)
        PROVE  FALSE
    <3>1. d # c
      BY <1>1, <2>1 DEF Commit, Advances, EvidenceInv, CancelledIsQuiet
    <3> QED
      BY <1>1, <2>1, <3>1 DEF Commit, EvidenceInv, EvidenceTypeOK
  <2>2. ASSUME NEW d \in Cases, NEW g \in Files, AddAttachment(d, g) \/ DeleteAttachment(d, g)
        PROVE  FALSE
    <3>1. d # c
      BY <2>2 DEF AddAttachment, DeleteAttachment, Writable
    <3> QED
      BY <1>1, <2>2, <3>1 DEF AddAttachment, DeleteAttachment, Attachment, EvidenceInv, EvidenceTypeOK
  <2>3. ASSUME NEW d \in Cases, NEW g \in Files, RestoreAttachment(d, g)
        PROVE  att[c][f] = "deleted"
    BY <1>1, <2>3 DEF RestoreAttachment, Attachment, EvidenceInv, EvidenceTypeOK
  <2>4. att' # att
    OBVIOUS
  <2> QED
    BY <1>1, <2>1, <2>2, <2>3, <2>4
    DEF EvidenceNext, evidence_vars, WriteBytes, InsertRow, discard_staged, restore_staged, MarkRow,
        Ages, PurgeBytes, PurgeRow, PurgeStarts, PurgeLooks, PurgeOrphans, PurgeDies,
        ListStaged, Submits, CopyBytes, DeleteRows, Unlink, Rollback, Loads, Leaves, Ends
<1>2. EvidenceInv /\ [EvidenceNext]_evidence_vars => [Frozen]_evidence_vars
  BY <1>1
<1> QED
  BY <1>2, EvidenceInvariance, PTL DEF EvidenceSpec, CancelledEvidenceFrozen


-----------------------------------------------------------------------------
(***************************************************************************)
(* The IOC database.  Nothing but the look before an add or a rename keeps *)
(* entries apart; what the look found may be old when the request writes,  *)
(* and then the indicator is `raced'.  An entry under rename is locked, so *)
(* that it still has the value the look compared with the new one.         *)
(***************************************************************************)

AnEntry == [ioc : Indicators, is_active : BOOLEAN]

\* An indicator nobody raced for has one active entry at most.
OneEntry == \A i \in Indicators \ raced : \A p, q \in Active(i) : p = q

\* The indicator was not on the page when the request looked; the entry it renames is
\* locked against the others and has another value.
EditsOK ==
    \A r \in Edits : request[r] # NoEdit =>
        /\ ~request[r].listed
        /\ request[r].pk # 0 => request[r].pk \in DOMAIN entries
        /\ request[r].locks =>
            /\ request[r].pk # 0
            /\ entries[request[r].pk].is_active
            /\ entries[request[r].pk].ioc # request[r].ioc
            /\ \A q \in Edits \ {r} :
                 request[q] # NoEdit /\ request[q].locks => request[q].pk # request[r].pk

IocInv == IocTypeOK /\ OneEntry /\ EditsOK

LEMMA InitIoc == IocInit => IocInv
<1> SUFFICES ASSUME IocInit PROVE IocInv
  OBVIOUS
<1>1. NoReview \in [checked : BOOLEAN, note : NoteTexts, stored : BOOLEAN]
  BY IocAssumption DEF NoReview
<1>2. IocTypeOK
  BY <1>1 DEF IocInit, IocTypeOK
<1>3. OneEntry /\ EditsOK
  BY DEF IocInit, OneEntry, EditsOK, Active
<1> QED
  BY <1>2, <1>3 DEF IocInv

\* An entry is removed or restored.
LEMMA ActiveSet ==
    ASSUME entries \in Seq(AnEntry), NEW pk \in DOMAIN entries, NEW b \in BOOLEAN,
           entries' = [entries EXCEPT ![pk].is_active = b]
    PROVE  /\ entries' \in Seq(AnEntry)
           /\ Len(entries') = Len(entries)
           /\ \A k \in DOMAIN entries :
                /\ entries'[k].ioc = entries[k].ioc
                /\ entries'[k].is_active <=> IF k = pk THEN b ELSE entries[k].is_active
<1> DEFINE e == [entries[pk] EXCEPT !.is_active = b]
<1>1. entries' = [entries EXCEPT ![pk] = e]
  OBVIOUS
<1>2. entries[pk] \in AnEntry
  OBVIOUS
<1>3. e \in AnEntry /\ e.ioc = entries[pk].ioc /\ e.is_active = b
  BY <1>2 DEF AnEntry
<1> HIDE DEF e
<1>4. entries' \in Seq(AnEntry) /\ Len(entries') = Len(entries)
  BY <1>1, <1>3
<1>5. \A k \in DOMAIN entries : entries'[k] = IF k = pk THEN e ELSE entries[k]
  BY <1>1
<1> QED
  BY <1>3, <1>4, <1>5

\* An entry gets another value.
LEMMA ValueSet ==
    ASSUME entries \in Seq(AnEntry), NEW pk \in DOMAIN entries, NEW i \in Indicators,
           entries' = [entries EXCEPT ![pk].ioc = i]
    PROVE  /\ entries' \in Seq(AnEntry)
           /\ Len(entries') = Len(entries)
           /\ \A k \in DOMAIN entries :
                /\ entries'[k].ioc = IF k = pk THEN i ELSE entries[k].ioc
                /\ entries'[k].is_active <=> entries[k].is_active
<1> DEFINE e == [entries[pk] EXCEPT !.ioc = i]
<1>1. entries' = [entries EXCEPT ![pk] = e]
  OBVIOUS
<1>2. entries[pk] \in AnEntry
  OBVIOUS
<1>3. e \in AnEntry /\ e.ioc = i /\ e.is_active = entries[pk].is_active
  BY <1>2 DEF AnEntry
<1> HIDE DEF e
<1>4. entries' \in Seq(AnEntry) /\ Len(entries') = Len(entries)
  BY <1>1, <1>3
<1>5. \A k \in DOMAIN entries : entries'[k] = IF k = pk THEN e ELSE entries[k]
  BY <1>1
<1> QED
  BY <1>3, <1>4, <1>5

\* An entry is made.
LEMMA EntryMade ==
    ASSUME entries \in Seq(AnEntry), NEW i \in Indicators,
           entries' = Append(entries, [ioc |-> i, is_active |-> TRUE])
    PROVE  /\ entries' \in Seq(AnEntry)
           /\ Len(entries') = Len(entries) + 1
           /\ \A k \in DOMAIN entries : entries'[k] = entries[k]
           /\ entries'[Len(entries) + 1].ioc = i
           /\ entries'[Len(entries) + 1].is_active
<1> DEFINE e == [ioc |-> i, is_active |-> TRUE]
<1>1. e \in AnEntry /\ e.ioc = i /\ e.is_active
  BY DEF AnEntry
<1> HIDE DEF e
<1>2. entries' = Append(entries, e)
  BY DEF e
<1> QED
  BY <1>1, <1>2


\* The writes of the annotations keep their type.
LEMMA Annotated ==
    ASSUME IocTypeOK, NEW i \in Indicators
    PROVE  /\ \A b \in BOOLEAN :
                [review EXCEPT ![i].checked = b, ![i].stored = TRUE]
                  \in [Indicators -> [checked : BOOLEAN, note : NoteTexts, stored : BOOLEAN]]
           /\ \A n \in NoteTexts :
                [review EXCEPT ![i].note = n, ![i].stored = TRUE]
                  \in [Indicators -> [checked : BOOLEAN, note : NoteTexts, stored : BOOLEAN]]
           /\ \A j \in Indicators :
                move_annotation(i, j)
                  \in [Indicators -> [checked : BOOLEAN, note : NoteTexts, stored : BOOLEAN]]
<1> DEFINE R == [checked : BOOLEAN, note : NoteTexts, stored : BOOLEAN]
<1>1. review \in [Indicators -> R]
  BY DEF IocTypeOK
<1>2. NoReview \in R
  BY IocAssumption DEF NoReview
<1>3. ASSUME NEW b \in BOOLEAN
      PROVE  [review EXCEPT ![i].checked = b, ![i].stored = TRUE] \in [Indicators -> R]
  <2>1. [[review[i] EXCEPT !.checked = b] EXCEPT !.stored = TRUE] \in R
    BY <1>1
  <2> QED
    BY <1>1, <2>1
<1>4. ASSUME NEW n \in NoteTexts
      PROVE  [review EXCEPT ![i].note = n, ![i].stored = TRUE] \in [Indicators -> R]
  <2>1. [[review[i] EXCEPT !.note = n] EXCEPT !.stored = TRUE] \in R
    BY <1>1
  <2> QED
    BY <1>1, <2>1
<1>5. ASSUME NEW j \in Indicators
      PROVE  move_annotation(i, j) \in [Indicators -> R]
  <2> HIDE DEF R
  <2> QED
    BY <1>1, <1>2 DEF move_annotation
<1> QED
  BY <1>3, <1>4, <1>5

\* The tickets' indicators and the annotations are no entries.
LEMMA TicketsKeepIoc ==
    ASSUME IocInv, UNCHANGED <<entries, request, raced>>, IocTypeOK'
    PROVE  IocInv'
  BY DEF IocInv, OneEntry, EditsOK, Active

\* A look that finds the indicator nowhere.
LEMMA LooksKeepIoc ==
    ASSUME IocInv, NEW r \in Edits, LookBeforeAdd(r) \/ LookBeforeRename(r)
    PROVE  IocInv'
<1>0. IocTypeOK /\ OneEntry /\ EditsOK
  BY DEF IocInv
<1>1. UNCHANGED <<iocs, entries, review, raced>>
  BY DEF LookBeforeAdd, LookBeforeRename
<1>2. PICK q \in Edit :
        /\ request' = [request EXCEPT ![r] = q]
        /\ ~q.listed
        /\ q.pk # 0 => q.pk \in DOMAIN entries
        /\ q.locks => /\ q.pk # 0
                      /\ entries[q.pk].is_active
                      /\ entries[q.pk].ioc # q.ioc
                      /\ ~EntryLocked(q.pk)
  <2>1. CASE LookBeforeAdd(r)
    <3>1. PICK s \in Spellings, n \in NoteTexts :
            LET i == normalize_for_category(s)
                removed == {pk \in DOMAIN entries : entries[pk].ioc = i /\ ~entries[pk].is_active}
            IN /\ i # Malformed
               /\ ~is_duplicate(i, 0)
               /\ request' = [request EXCEPT ![r] =
                      [ioc |-> i, note |-> n, locks |-> FALSE, listed |-> Listed(i),
                       pk |-> IF removed = {} THEN 0
                              ELSE CHOOSE pk \in removed : \A k \in removed : k <= pk]]
      BY <2>1 DEF LookBeforeAdd
    <3> DEFINE i == normalize_for_category(s)
               removed == {pk \in DOMAIN entries : entries[pk].ioc = i /\ ~entries[pk].is_active}
               pk == IF removed = {} THEN 0
                     ELSE CHOOSE pk \in removed : \A k \in removed : k <= pk
    <3>2. i \in Indicators
      BY <3>1, IocAssumption DEF normalize_for_category
    <3>3. ~Listed(i)
      <4>1. 0 \notin Active(i)
        BY <1>0 DEF Active, IocTypeOK
      <4> QED
        BY <3>1, <4>1 DEF is_duplicate, Listed
    <3>4. removed # {} => pk \in removed
      <4>1. removed \subseteq 0 .. Len(entries) /\ Len(entries) \in Nat
        BY <1>0 DEF IocTypeOK
      <4> HIDE DEF removed
      <4> QED
        BY <4>1, HasGreatest
    <3> DEFINE q == [ioc |-> i, note |-> n, locks |-> FALSE, listed |-> Listed(i), pk |-> pk]
    <3>5. removed \subseteq DOMAIN entries /\ DOMAIN entries \subseteq Nat
      BY <1>0 DEF IocTypeOK
    <3>6. Listed(i) = FALSE
      BY <3>3 DEF Listed
    <3>7. request' = [request EXCEPT ![r] = q]
      BY <3>1
    <3> HIDE DEF i, removed
    <3>8. pk # 0 => pk \in DOMAIN entries
      BY <3>4, <3>5
    <3>9. pk \in Nat
      BY <3>4, <3>5
    <3> HIDE DEF pk
    <3>10. q \in Edit /\ ~q.listed /\ q.pk = pk /\ ~q.locks
      BY <3>2, <3>6, <3>9 DEF Edit
    <3> QED
      BY <3>7, <3>8, <3>10
  <2>2. CASE LookBeforeRename(r)
    <3>1. PICK pk \in DOMAIN entries, s \in Spellings :
            LET i == normalize_for_category(s) IN
            /\ entries[pk].is_active
            /\ ~EntryLocked(pk)
            /\ i # Malformed
            /\ i # entries[pk].ioc
            /\ ~is_duplicate(i, pk)
            /\ request' = [request EXCEPT ![r] =
                   [ioc |-> i, note |-> "", locks |-> TRUE, listed |-> Listed(i), pk |-> pk]]
      BY <2>2 DEF LookBeforeRename
    <3> DEFINE i == normalize_for_category(s)
               q == [ioc |-> i, note |-> "", locks |-> TRUE, listed |-> Listed(i), pk |-> pk]
    <3>2. i \in Indicators
      BY <3>1, IocAssumption DEF normalize_for_category
    <3>3. Listed(i) = FALSE
      <4>1. pk \notin Active(i)
        BY <3>1 DEF Active
      <4> QED
        BY <3>1, <4>1 DEF is_duplicate, Listed
    <3>4. pk \in Nat /\ pk # 0
      BY <1>0 DEF IocTypeOK
    <3>5. /\ request' = [request EXCEPT ![r] = q]
          /\ entries[pk].is_active
          /\ ~EntryLocked(pk)
          /\ i # entries[pk].ioc
      BY <3>1
    <3> HIDE DEF i
    <3>6. q \in Edit /\ ~q.listed /\ q.pk = pk /\ q.ioc = i
      BY <3>2, <3>3, <3>4, IocAssumption DEF Edit
    <3> HIDE DEF q
    <3> QED
      BY <3>4, <3>5, <3>6
  <2> QED
    BY <2>1, <2>2
<1>3. IocTypeOK'
  BY <1>0, <1>1, <1>2 DEF IocTypeOK
<1>4. OneEntry'
  BY <1>0, <1>1 DEF OneEntry, Active
<1>5. EditsOK'
  <2>1. \A t \in Edits : request'[t] = IF t = r THEN q ELSE request[t]
    BY <1>0, <1>2 DEF IocTypeOK
  <2>2. q # NoEdit
    BY NoEditIsNone
  <2>3. ASSUME q.locks, NEW t \in Edits, request[t] # NoEdit, request[t].locks
        PROVE  request[t].pk # q.pk
    BY <1>2, <2>3 DEF EntryLocked
  <2> QED
    BY <1>0, <1>1, <1>2, <2>1, <2>2, <2>3 DEF EditsOK
<1> QED
  BY <1>3, <1>4, <1>5 DEF IocInv


\* An add restores the entry it found, or makes one.
LEMMA AddKeepsIoc ==
    ASSUME IocInv, NEW r \in Edits, Add(r)
    PROVE  IocInv'
<1> DEFINE q == request[r]
           pk == IF q.pk # 0 THEN q.pk ELSE Len(entries) + 1
           written == entries'[pk].ioc
<1>0. IocTypeOK /\ OneEntry /\ EditsOK /\ Len(entries) \in Nat
  BY DEF IocInv, IocTypeOK
<1>1. q \in Edit /\ ~q.listed /\ ~q.locks /\ q.ioc \in Indicators /\ q.note \in NoteTexts
  BY <1>0 DEF Add, IocTypeOK, EditsOK, Edit
<1>2. /\ entries' \in Seq(AnEntry)
      /\ pk \in DOMAIN entries'
      /\ entries'[pk].is_active
      /\ q.pk # 0 => ~EntryLocked(pk)
      /\ DOMAIN entries \subseteq DOMAIN entries'
      /\ \A k \in DOMAIN entries : entries'[k].ioc = entries[k].ioc
      /\ \A k \in DOMAIN entries' \ {pk} :
           k \in DOMAIN entries /\ (entries'[k].is_active <=> entries[k].is_active)
      /\ written \in Indicators
  <2>1. CASE q.pk # 0
    <3>1. /\ entries' = [entries EXCEPT ![q.pk].is_active = TRUE]
          /\ ~EntryLocked(q.pk)
          /\ q.pk \in DOMAIN entries
      BY <1>0, <2>1 DEF Add, EditsOK
    <3>2. entries \in Seq(AnEntry)
      BY <1>0 DEF IocTypeOK, AnEntry
    <3>3. /\ entries' \in Seq(AnEntry)
          /\ Len(entries') = Len(entries)
          /\ \A k \in DOMAIN entries :
               /\ entries'[k].ioc = entries[k].ioc
               /\ entries'[k].is_active <=> IF k = q.pk THEN TRUE ELSE entries[k].is_active
      BY <3>1, <3>2, ActiveSet
    <3>4. entries'[q.pk] \in AnEntry
      BY <3>1, <3>3
    <3> QED
      BY <2>1, <3>1, <3>2, <3>3, <3>4 DEF AnEntry
  <2>2. CASE q.pk = 0
    <3>1. entries' = Append(entries, [ioc |-> q.ioc, is_active |-> TRUE])
      BY <2>2 DEF Add
    <3>2. entries \in Seq(AnEntry)
      BY <1>0 DEF IocTypeOK, AnEntry
    <3>3. /\ entries' \in Seq(AnEntry)
          /\ Len(entries') = Len(entries) + 1
          /\ \A k \in DOMAIN entries : entries'[k] = entries[k]
          /\ entries'[Len(entries) + 1].ioc = q.ioc
          /\ entries'[Len(entries) + 1].is_active
      BY <1>1, <3>1, <3>2, EntryMade
    <3> QED
      BY <1>0, <1>1, <2>2, <3>2, <3>3
  <2> QED
    BY <2>1, <2>2
<1>3. /\ UNCHANGED iocs
      /\ request' = [request EXCEPT ![r] = NoEdit]
      /\ review' = IF q.note = "" THEN review
                   ELSE [review EXCEPT ![q.ioc].note = q.note, ![q.ioc].stored = TRUE]
  BY DEF Add
<1>4. raced' = raced \cup {i \in {q.ioc, written} : Overtaken(r, i)}
  <2>1. ASSUME q.pk = 0 PROVE Len(entries') = Len(entries) + 1
    <3>1. entries' = Append(entries, [ioc |-> q.ioc, is_active |-> TRUE])
      BY <2>1 DEF Add
    <3>2. entries \in Seq(AnEntry)
      BY <1>0 DEF IocTypeOK, AnEntry
    <3> QED
      BY <1>1, <3>1, <3>2, EntryMade
  <2> QED
    BY <2>1 DEF Add
<1> HIDE DEF pk
<1>5. IocTypeOK'
  <2>1. review' \in [Indicators -> [checked : BOOLEAN, note : NoteTexts, stored : BOOLEAN]]
    BY <1>0, <1>1, <1>3, Annotated DEF IocTypeOK
  <2>2. request' \in [Edits -> Edit \cup {NoEdit}]
    BY <1>0, <1>3 DEF IocTypeOK
  <2>3. raced' \subseteq Indicators
    BY <1>0, <1>1, <1>2, <1>4 DEF IocTypeOK
  <2>4. iocs' \in [IocTickets -> SUBSET Indicators]
    BY <1>0, <1>3 DEF IocTypeOK
  <2> QED
    BY <1>2, <2>1, <2>2, <2>3, <2>4 DEF IocTypeOK, AnEntry
<1>6. OneEntry'
  <2> SUFFICES ASSUME NEW i \in Indicators, i \notin raced',
                      NEW k \in Active(i)', NEW l \in Active(i)'
               PROVE  k = l
    BY DEF OneEntry
  <2>1. i \notin raced
    BY <1>4
  <2>2. \A m \in Active(i)' : m = pk \/ m \in Active(i)
    BY <1>2 DEF Active
  <2>3. pk \in Active(i)' => Active(i) = {}
    BY <1>1, <1>4 DEF Active, Overtaken, Listed
  <2>4. \A m, n \in Active(i) : m = n
    BY <1>0, <2>1 DEF OneEntry
  <2> QED
    BY <2>2, <2>3, <2>4
<1>7. EditsOK'
  <2> SUFFICES ASSUME NEW t \in Edits, request'[t] # NoEdit
               PROVE  /\ ~request'[t].listed
                      /\ request'[t].pk # 0 => request'[t].pk \in DOMAIN entries'
                      /\ request'[t].locks =>
                          /\ request'[t].pk # 0
                          /\ entries'[request'[t].pk].is_active
                          /\ entries'[request'[t].pk].ioc # request'[t].ioc
                          /\ \A u \in Edits \ {t} :
                               request'[u] # NoEdit /\ request'[u].locks =>
                                 request'[u].pk # request'[t].pk
    BY DEF EditsOK
  <2>1. t # r /\ request'[t] = request[t]
    BY <1>0, <1>3 DEF IocTypeOK
  <2>2. \A u \in Edits : request'[u] # NoEdit => request'[u] = request[u]
    BY <1>0, <1>3 DEF IocTypeOK
  <2>3. /\ ~request[t].listed
        /\ request[t].pk # 0 => request[t].pk \in DOMAIN entries
        /\ request[t].locks =>
            /\ request[t].pk # 0
            /\ entries[request[t].pk].is_active
            /\ entries[request[t].pk].ioc # request[t].ioc
            /\ \A u \in Edits \ {t} :
                 request[u] # NoEdit /\ request[u].locks => request[u].pk # request[t].pk
    BY <1>0, <2>1 DEF EditsOK
  <2>4. ASSUME request[t].locks
        PROVE  /\ entries'[request[t].pk].is_active
               /\ entries'[request[t].pk].ioc = entries[request[t].pk].ioc
    BY <1>2, <2>3, <2>4
  <2> QED
    BY <1>2, <2>1, <2>2, <2>3, <2>4
<1> QED
  BY <1>5, <1>6, <1>7 DEF IocInv

\* A rename of the entry it locked.
LEMMA RenameKeepsIoc ==
    ASSUME IocInv, NEW r \in Edits, Rename(r)
    PROVE  IocInv'
<1> DEFINE q == request[r]
<1>0. IocTypeOK /\ OneEntry /\ EditsOK
  BY DEF IocInv
<1>1. q \in Edit /\ ~q.listed /\ q.locks /\ q.ioc \in Indicators
  BY <1>0 DEF Rename, IocTypeOK, EditsOK, Edit
<1>2. /\ q.pk \in DOMAIN entries
      /\ entries[q.pk].is_active
      /\ entries[q.pk].ioc # q.ioc
      /\ \A t \in Edits \ {r} : request[t] # NoEdit /\ request[t].locks => request[t].pk # q.pk
  BY <1>0, <1>1 DEF EditsOK, Rename
<1>3. /\ UNCHANGED iocs
      /\ request' = [request EXCEPT ![r] = NoEdit]
      /\ review' = move_annotation(entries[q.pk].ioc, q.ioc)
      /\ raced' = IF Overtaken(r, q.ioc) THEN raced \cup {q.ioc} ELSE raced
      /\ entries' = [entries EXCEPT ![q.pk].ioc = q.ioc]
  BY DEF Rename
<1>4. entries \in Seq(AnEntry)
  BY <1>0 DEF IocTypeOK, AnEntry
<1>5. /\ entries' \in Seq(AnEntry)
      /\ Len(entries') = Len(entries)
      /\ \A k \in DOMAIN entries :
           /\ entries'[k].ioc = IF k = q.pk THEN q.ioc ELSE entries[k].ioc
           /\ entries'[k].is_active <=> entries[k].is_active
  BY <1>1, <1>2, <1>3, <1>4, ValueSet
<1>6. DOMAIN entries' = DOMAIN entries
  BY <1>4, <1>5
<1>7. entries[q.pk].ioc \in Indicators
  <2>1. entries[q.pk] \in AnEntry
    BY <1>2, <1>4
  <2> QED
    BY <2>1 DEF AnEntry
<1>8. IocTypeOK'
  <2>1. review' \in [Indicators -> [checked : BOOLEAN, note : NoteTexts, stored : BOOLEAN]]
    BY <1>0, <1>1, <1>3, <1>7, Annotated
  <2>2. request' \in [Edits -> Edit \cup {NoEdit}]
    BY <1>0, <1>3 DEF IocTypeOK
  <2>3. raced' \subseteq Indicators
    BY <1>0, <1>1, <1>3 DEF IocTypeOK
  <2>4. iocs' \in [IocTickets -> SUBSET Indicators]
    BY <1>0, <1>3 DEF IocTypeOK
  <2> QED
    BY <1>5, <2>1, <2>2, <2>3, <2>4 DEF IocTypeOK, AnEntry
<1>9. OneEntry'
  <2> SUFFICES ASSUME NEW i \in Indicators, i \notin raced',
                      NEW k \in Active(i)', NEW l \in Active(i)'
               PROVE  k = l
    BY DEF OneEntry
  <2>1. i \notin raced
    BY <1>3
  <2>2. \A m \in Active(i)' : (m = q.pk /\ i = q.ioc) \/ m \in Active(i)
    BY <1>5, <1>6 DEF Active
  <2>3. i = q.ioc => Active(i) = {}
    BY <1>1, <1>3 DEF Overtaken, Listed
  <2>4. \A m, n \in Active(i) : m = n
    BY <1>0, <2>1 DEF OneEntry
  <2> QED
    BY <2>2, <2>3, <2>4
<1>10. EditsOK'
  <2> SUFFICES ASSUME NEW t \in Edits, request'[t] # NoEdit
               PROVE  /\ ~request'[t].listed
                      /\ request'[t].pk # 0 => request'[t].pk \in DOMAIN entries'
                      /\ request'[t].locks =>
                          /\ request'[t].pk # 0
                          /\ entries'[request'[t].pk].is_active
                          /\ entries'[request'[t].pk].ioc # request'[t].ioc
                          /\ \A u \in Edits \ {t} :
                               request'[u] # NoEdit /\ request'[u].locks =>
                                 request'[u].pk # request'[t].pk
    BY DEF EditsOK
  <2>1. t # r /\ request'[t] = request[t]
    BY <1>0, <1>3 DEF IocTypeOK
  <2>2. \A u \in Edits : request'[u] # NoEdit => request'[u] = request[u]
    BY <1>0, <1>3 DEF IocTypeOK
  <2>3. /\ ~request[t].listed
        /\ request[t].pk # 0 => request[t].pk \in DOMAIN entries
        /\ request[t].locks =>
            /\ request[t].pk # 0
            /\ entries[request[t].pk].is_active
            /\ entries[request[t].pk].ioc # request[t].ioc
            /\ \A u \in Edits \ {t} :
                 request[u] # NoEdit /\ request[u].locks => request[u].pk # request[t].pk
    BY <1>0, <2>1 DEF EditsOK
  <2>4. ASSUME request[t].locks
        PROVE  /\ entries'[request[t].pk].is_active
               /\ entries'[request[t].pk].ioc = entries[request[t].pk].ioc
    BY <1>2, <1>5, <2>1, <2>3, <2>4
  <2> QED
    BY <1>6, <2>1, <2>2, <2>3, <2>4
<1> QED
  BY <1>8, <1>9, <1>10 DEF IocInv

\* An entry is removed only if no rename has it locked.
LEMMA RemovalKeepsIoc ==
    ASSUME IocInv, NEW pk \in DOMAIN entries, remove_analyst_ioc(pk)
    PROVE  IocInv'
<1>0. IocTypeOK /\ OneEntry /\ EditsOK
  BY DEF IocInv
<1>1. /\ entries \in Seq(AnEntry)
      /\ ~EntryLocked(pk)
      /\ UNCHANGED <<iocs, review, request, raced>>
      /\ entries' = [entries EXCEPT ![pk].is_active = FALSE]
  BY <1>0 DEF IocTypeOK, AnEntry, remove_analyst_ioc
<1>2. /\ entries' \in Seq(AnEntry)
      /\ Len(entries') = Len(entries)
      /\ \A k \in DOMAIN entries :
           /\ entries'[k].ioc = entries[k].ioc
           /\ entries'[k].is_active <=> IF k = pk THEN FALSE ELSE entries[k].is_active
  BY <1>1, ActiveSet
<1>3. DOMAIN entries' = DOMAIN entries
  BY <1>1, <1>2
<1>4. IocTypeOK'
  BY <1>0, <1>1, <1>2 DEF IocTypeOK, AnEntry
<1>5. OneEntry'
  BY <1>0, <1>1, <1>2, <1>3 DEF OneEntry, Active
<1>6. EditsOK'
  <2>1. \A t \in Edits : request[t] # NoEdit /\ request[t].locks => request[t].pk # pk
    BY <1>1 DEF EntryLocked
  <2> QED
    BY <1>0, <1>1, <1>2, <1>3, <2>1 DEF EditsOK
<1> QED
  BY <1>4, <1>5, <1>6 DEF IocInv


LEMMA NextIoc == IocInv /\ [IocNext]_ioc_vars => IocInv'
<1> SUFFICES ASSUME IocInv, [IocNext]_ioc_vars PROVE IocInv'
  OBVIOUS
<1>1. CASE UNCHANGED ioc_vars
  BY <1>1 DEF ioc_vars, IocInv, IocTypeOK, OneEntry, EditsOK, Active
<1>2. ASSUME NEW t \in IocTickets, save_iocs(t)
      PROVE  IocInv'
  <2>1. PICK typed \in SUBSET Spellings :
          /\ \A s \in typed : normalize_for_category(s) # Malformed
          /\ iocs' = [iocs EXCEPT ![t] = {normalize_for_category(s) : s \in typed}]
    BY <1>2 DEF save_iocs
  <2>2. {normalize_for_category(s) : s \in typed} \subseteq Indicators
    BY <2>1, IocAssumption DEF normalize_for_category
  <2>3. iocs' \in [IocTickets -> SUBSET Indicators]
    BY <2>1, <2>2 DEF IocInv, IocTypeOK
  <2>4. IocTypeOK'
    BY <1>2, <2>3 DEF IocInv, IocTypeOK, save_iocs
  <2> QED
    BY <1>2, <2>4, TicketsKeepIoc DEF save_iocs
<1>3. ASSUME NEW i \in Indicators, NEW checked \in BOOLEAN, set_review_status(i, checked)
      PROVE  IocInv'
  <2>1. IocTypeOK'
    BY <1>3, Annotated DEF IocInv, IocTypeOK, set_review_status
  <2> QED
    BY <1>3, <2>1, TicketsKeepIoc DEF set_review_status
<1>4. ASSUME NEW i \in Indicators, NEW note \in NoteTexts, set_note(i, note)
      PROVE  IocInv'
  <2>1. IocTypeOK'
    BY <1>4, Annotated DEF IocInv, IocTypeOK, set_note
  <2> QED
    BY <1>4, <2>1, TicketsKeepIoc DEF set_note
<1>5. ASSUME NEW r \in Edits, LookBeforeAdd(r) \/ Add(r) \/ LookBeforeRename(r) \/ Rename(r)
      PROVE  IocInv'
  BY <1>5, LooksKeepIoc, AddKeepsIoc, RenameKeepsIoc
<1> QED
  BY <1>1, <1>2, <1>3, <1>4, <1>5, RemovalKeepsIoc DEF IocNext

LEMMA IocInvariance == IocSpec => []IocInv
<1> QED
  BY InitIoc, NextIoc, PTL DEF IocSpec

\* Indicators, entries, annotations and requests under way keep their types.
THEOREM IocTyped == IocSpec => []IocTypeOK
  BY IocInvariance, PTL DEF IocInv

\* The page lists every indicator once, but for one that two requests entered at the
\* same moment.
THEOREM IndicatorsAreListedOnce == IocSpec => []ListedOnce
<1>1. ASSUME IocInv, NEW i \in Indicators \ raced
      PROVE  Cardinality({l \in ioc_database_queryset : l.ioc = i}) = IF Listed(i) THEN 1 ELSE 0
  <2> DEFINE L == {l \in ioc_database_queryset : l.ioc = i}
  <2>1. \A p, q \in Active(i) : p = q
    BY <1>1 DEF IocInv, OneEntry
  <2>2. \A l : l \in L <=> \/ OnATicket(i) /\ l = [ioc |-> i, pk |-> 0]
                           \/ ~OnATicket(i) /\ \E k \in Active(i) : l = [ioc |-> i, pk |-> k]
    BY DEF ioc_database_queryset, ticket_half, manual_half, OnATicket, Active
  <2> HIDE DEF L
  <2>3. CASE OnATicket(i)
    <3>1. L = {[ioc |-> i, pk |-> 0]}
      BY <2>2, <2>3
    <3> QED
      BY <2>3, <3>1, FS_Singleton DEF L, Listed
  <2>4. CASE ~OnATicket(i) /\ Active(i) # {}
    <3>1. PICK k \in Active(i) : TRUE
      BY <2>4
    <3>2. L = {[ioc |-> i, pk |-> k]}
      BY <2>1, <2>2, <2>4, <3>1
    <3> QED
      BY <2>4, <3>2, FS_Singleton DEF L, Listed
  <2>5. CASE ~OnATicket(i) /\ Active(i) = {}
    <3>1. L = {}
      BY <2>2, <2>5
    <3> QED
      BY <2>5, <3>1, FS_EmptySet DEF L, Listed
  <2> QED
    BY <2>3, <2>4, <2>5
<1>2. IocInv => ListedOnce
  BY <1>1 DEF ListedOnce
<1> QED
  BY <1>2, IocInvariance, PTL

\* What the analyst wrote about a listed indicator goes only when they write again, or
\* along with a rename that takes the indicator off the page.
THEOREM AnnotationsAreKept == IocSpec => AnnotationsFollow
<1> DEFINE Followed ==
        \A i \in Indicators \ raced :
            /\ review[i].stored
            /\ Listed(i)
            /\ review'[i] # review[i]
            => \/ \E note \in NoteTexts : set_note(i, note)
               \/ \E checked \in BOOLEAN : set_review_status(i, checked)
               \/ i \in raced'
               \/ ~Listed(i)' /\ \E j \in Indicators \ {i} : Listed(j)' /\ review'[j].stored
<1>1. ASSUME IocInv, IocNext
      PROVE  Followed
  <2> SUFFICES ASSUME NEW i \in Indicators, i \notin raced, review[i].stored, Listed(i),
                      review'[i] # review[i]
               PROVE  \/ \E note \in NoteTexts : set_note(i, note)
                      \/ \E checked \in BOOLEAN : set_review_status(i, checked)
                      \/ i \in raced'
                      \/ ~Listed(i)' /\ \E j \in Indicators \ {i} : Listed(j)' /\ review'[j].stored
    OBVIOUS
  <2>0. IocTypeOK /\ OneEntry /\ EditsOK
    BY <1>1 DEF IocInv
  <2>1. ASSUME NEW j \in Indicators, NEW checked \in BOOLEAN, set_review_status(j, checked)
        PROVE  i = j
    BY <2>0, <2>1 DEF set_review_status, IocTypeOK
  <2>2. ASSUME NEW j \in Indicators, NEW note \in NoteTexts, set_note(j, note)
        PROVE  i = j
    BY <2>0, <2>2 DEF set_note, IocTypeOK
  <2>3. ASSUME NEW r \in Edits, Add(r)
        PROVE  i \in raced'
    <3>1. ~request[r].listed /\ request[r].ioc \in Indicators
      BY <2>0, <2>3 DEF Add, EditsOK, IocTypeOK, Edit
    <3>2. i = request[r].ioc
      BY <2>0, <2>3, <3>1 DEF Add, IocTypeOK
    <3> QED
      BY <2>3, <3>1, <3>2 DEF Add, Overtaken
  <2>4. ASSUME NEW r \in Edits, Rename(r)
        PROVE  ~Listed(i)' /\ \E j \in Indicators \ {i} : Listed(j)' /\ review'[j].stored
    <3> DEFINE q == request[r]
    <3>1. q \in Edit /\ q.locks /\ q.ioc \in Indicators
      BY <2>0, <2>4 DEF Rename, IocTypeOK, Edit
    <3>2. /\ q.pk \in DOMAIN entries
          /\ entries[q.pk].is_active
          /\ entries[q.pk].ioc # q.ioc
      BY <2>0, <2>4, <3>1 DEF EditsOK, Rename
    <3>3. entries[q.pk] \in AnEntry /\ entries \in Seq(AnEntry)
      <4>1. entries \in Seq(AnEntry)
        BY <2>0 DEF IocTypeOK, AnEntry
      <4> QED
        BY <3>2, <4>1
    <3>4. /\ entries' \in Seq(AnEntry)
          /\ Len(entries') = Len(entries)
          /\ \A k \in DOMAIN entries :
               /\ entries'[k].ioc = IF k = q.pk THEN q.ioc ELSE entries[k].ioc
               /\ entries'[k].is_active <=> entries[k].is_active
      <4>1. entries' = [entries EXCEPT ![q.pk].ioc = q.ioc]
        BY <2>4 DEF Rename
      <4>2. entries \in Seq(AnEntry)
        BY <3>3
      <4>3. PICK pk \in DOMAIN entries : pk = q.pk
        BY <3>2
      <4>4. PICK v \in Indicators : v = q.ioc
        BY <3>1
      <4>5. entries' = [entries EXCEPT ![pk].ioc = v]
        BY <4>1, <4>3, <4>4
      <4>6. /\ entries' \in Seq(AnEntry)
            /\ Len(entries') = Len(entries)
            /\ \A k \in DOMAIN entries :
                 /\ entries'[k].ioc = IF k = pk THEN v ELSE entries[k].ioc
                 /\ entries'[k].is_active <=> entries[k].is_active
        BY <4>2, <4>5, ValueSet
      <4> QED
        BY <4>3, <4>4, <4>6
    <3>5. /\ i = entries[q.pk].ioc
          /\ ~OnATicket(i)
          /\ review'[q.ioc].stored
      <4>1. review' = move_annotation(entries[q.pk].ioc, q.ioc)
        BY <2>4 DEF Rename
      <4>2. entries[q.pk].ioc \in Indicators
        BY <3>3 DEF AnEntry
      <4> QED
        BY <2>0, <3>1, <3>2, <4>1, <4>2 DEF move_annotation, IocTypeOK
    <3>6. Active(i) = {q.pk}
      BY <2>0, <3>2, <3>5 DEF OneEntry, Active
    <3>0. PICK n \in Indicators, k \in DOMAIN entries : n = q.ioc /\ k = q.pk
      BY <3>1, <3>2
    <3>7. Active(i)' = {} /\ k \in Active(n)'
      <4>1. DOMAIN entries' = DOMAIN entries
        BY <3>3, <3>4
      <4> QED
        BY <3>0, <3>2, <3>4, <3>5, <3>6, <4>1 DEF Active
    <3>8. OnATicket(i)' <=> OnATicket(i)
      BY <2>4 DEF Rename, OnATicket
    <3>9. ~Listed(i)'
      BY <3>5, <3>7, <3>8 DEF Listed
    <3>10. Listed(n)' /\ n # i
      BY <3>0, <3>2, <3>5, <3>7 DEF Listed
    <3> QED
      BY <3>0, <3>5, <3>9, <3>10
  <2>5. ASSUME UNCHANGED review
        PROVE  FALSE
    BY <2>5
  <2> QED
    BY <1>1, <2>1, <2>2, <2>3, <2>4, <2>5
    DEF IocNext, save_iocs, LookBeforeAdd, LookBeforeRename, remove_analyst_ioc
<1>2. IocInv /\ [IocNext]_ioc_vars => [Followed]_ioc_vars
  BY <1>1
<1>3. AnnotationsFollow <=> [][Followed]_ioc_vars
  BY PTL DEF AnnotationsFollow
<1> QED
  BY <1>2, <1>3, IocInvariance, PTL DEF IocSpec


-----------------------------------------------------------------------------
(***************************************************************************)
(* The requests to the response teams.  The routing is applied in four     *)
(* ways, and they agree: a row that passes the model's validation is in    *)
(* the queue of its assignee.  What the two-step requests read of the      *)
(* accounts stands until they write, unless the account is edited.         *)
(***************************************************************************)

\* The account u may be given requests of the type.
Routed(type, u) ==
    /\ profiles[u].role = response_routing(type)
    /\ type \in REDTEAM_FUNCTIONS => profiles[u].redteam_function = type

\* The choice of the assignee still stands.
ChoiceOK == form # NoPage /\ form.current => Routed(form.type, form.to)

\* The validation still stands, and the copy is of the row.
CopyOK ==
    page # NoPage =>
        /\ page.id \in Asked
        /\ page.current => Routed(page.copy.subtask_type, page.copy.assigned_to)
        /\ page.fresh /\ stage # "CANCELLED" =>
            /\ requests[page.id].subtask_type = page.copy.subtask_type
            /\ requests[page.id].assigned_to = page.copy.assigned_to

RoutingInv == RoutingTypeOK /\ ChoiceOK /\ CopyOK /\ (form = NoPage \/ page = NoPage)

\* Whoever may be given a type of request has it in their queue.
LEMMA RoutedIsQueued ==
    ASSUME NEW p \in Profiles, NEW type \in Types,
           p.role = response_routing(type),
           type \in REDTEAM_FUNCTIONS => p.redteam_function = type
    PROVE  type \in types_for_profile(p)
  BY DEF Types, NEW_RESPONSE_TYPES, RETIRED_TYPES, REDTEAM_FUNCTIONS, response_routing,
         types_for_profile

\* So the one thing that makes a request stuck is an assignee it was not for.
LEMMA StuckIsMisrouted ==
    ASSUME RoutingTypeOK, NEW r \in Requests
    PROVE  Stuck(r) <=> /\ Outstanding(requests[r])
                        /\ ~response_request_updates_frozen
                        /\ ~Routed(requests[r].subtask_type, requests[r].assigned_to)
<1> SUFFICES ASSUME requests[r] # Unfiled
             PROVE  Reaches(r) <=> Routed(requests[r].subtask_type, requests[r].assigned_to)
  BY DEF Stuck, Outstanding
<1>1. requests[r] \in Rows
  BY DEF RoutingTypeOK
<1>2. /\ requests[r].subtask_type \in Types
      /\ requests[r].assigned_to \in Accounts
      /\ profiles[requests[r].assigned_to] \in Profiles
  BY <1>1 DEF Rows, RoutingTypeOK
<1>3. Reaches(r) => Routed(requests[r].subtask_type, requests[r].assigned_to)
  BY DEF Reaches, clean, Routed
<1>4. ASSUME Routed(requests[r].subtask_type, requests[r].assigned_to)
      PROVE  Reaches(r)
  <2>1. requests[r].subtask_type \in types_for_profile(profiles[requests[r].assigned_to])
    BY <1>2, <1>4, RoutedIsQueued DEF Routed
  <2>2. r \in Queue(requests[r].assigned_to)
    BY <2>1 DEF Queue, Asked
  <2> QED
    BY <1>4, <2>2 DEF Reaches, clean, Routed, MayOpen
<1> QED
  BY <1>3, <1>4

LEMMA StuckIsMisroutedNext ==
    ASSUME RoutingTypeOK', NEW r \in Requests, Stuck(r)'
    PROVE  /\ Outstanding(requests'[r])
           /\ ~response_request_updates_frozen'
           /\ ~Routed(requests[r].subtask_type, requests[r].assigned_to)'
<1>1. requests'[r] \in Rows
  BY DEF RoutingTypeOK, Stuck, Outstanding
<1>2. /\ requests'[r].subtask_type \in Types
      /\ requests'[r].assigned_to \in Accounts
      /\ profiles'[requests'[r].assigned_to] \in Profiles
  BY <1>1 DEF Rows, RoutingTypeOK
<1>3. ASSUME Routed(requests[r].subtask_type, requests[r].assigned_to)'
      PROVE  Reaches(r)'
  <2>1. requests'[r].subtask_type \in types_for_profile(profiles'[requests'[r].assigned_to])
    BY <1>2, <1>3, RoutedIsQueued DEF Routed
  <2>2. r \in Queue(requests[r].assigned_to)'
    BY <2>1 DEF Queue, Asked, Stuck, Outstanding
  <2> QED
    BY <1>3, <2>2 DEF Reaches, clean, Routed, MayOpen
<1> QED
  BY <1>3 DEF Stuck

LEMMA InitRouting == RoutingInit => RoutingInv
<1> SUFFICES ASSUME RoutingInit PROVE RoutingInv
  OBVIOUS
<1>1. RoutingTypeOK
  BY RoutingAssumption DEF RoutingInit, RoutingTypeOK
<1> QED
  BY <1>1 DEF RoutingInit, RoutingInv, ChoiceOK, CopyOK

\* A step that changes no account.
LEMMA AccountsStand ==
    ASSUME RoutingInv, UNCHANGED profiles,
           \/ resolve_response_assignee
           \/ create_response_request
           \/ \E u \in Accounts \cup {Manager} : ValidateUpdate(u)
           \/ SaveUpdate
           \/ CloseTicket
           \/ CancelTicket
    PROVE  RoutingInv'
<1>0. RoutingTypeOK /\ ChoiceOK /\ CopyOK /\ (form = NoPage \/ page = NoPage)
  BY DEF RoutingInv
<1>1. CASE resolve_response_assignee
  <2>1. PICK type \in NEW_RESPONSE_TYPES : \E u \in eligible_assignees(type) :
          form' = [type |-> type, to |-> u, current |-> TRUE]
    BY <1>1 DEF resolve_response_assignee
  <2>2. PICK u \in eligible_assignees(type) :
          form' = [type |-> type, to |-> u, current |-> TRUE]
    BY <2>1
  <2>3. u \in Accounts /\ Routed(type, u)
    BY DEF eligible_assignees, Routed
  <2>4. form' \in Filing /\ form'.type = type /\ form'.to = u
    BY <2>2, <2>3 DEF Filing
  <2>5. page = NoPage /\ UNCHANGED <<profiles, requests, stage, page>>
    BY <1>1 DEF resolve_response_assignee
  <2> QED
    BY <1>0, <2>3, <2>4, <2>5 DEF RoutingInv, RoutingTypeOK, ChoiceOK, CopyOK, Routed
<1>2. CASE create_response_request
  <2>1. form # NoPage /\ form' = NoPage /\ UNCHANGED <<profiles, stage, page>>
    BY <1>2 DEF create_response_request
  <2>2. form \in Filing /\ page = NoPage
    BY <1>0, <2>1 DEF RoutingTypeOK
  <2>3. [subtask_type |-> form.type, status |-> "OPEN", assigned_to |-> form.to] \in Rows
    BY <2>2 DEF Filing, Rows, Types
  <2>4. requests' \in [Requests -> Rows \cup {Unfiled}]
    BY <1>0, <1>2, <2>3 DEF create_response_request, RoutingTypeOK
  <2> QED
    BY <1>0, <2>1, <2>2, <2>4 DEF RoutingInv, RoutingTypeOK, ChoiceOK, CopyOK
<1>3. ASSUME NEW u \in Accounts \cup {Manager}, ValidateUpdate(u)
      PROVE  RoutingInv'
  <2>1. PICK r \in Asked, status \in {"OPEN", "IN_PROGRESS", "DONE"} :
          /\ clean(requests[r])
          /\ page' = [id |-> r, copy |-> [requests[r] EXCEPT !.status = status],
                      fresh |-> TRUE, current |-> TRUE]
    BY <1>3 DEF ValidateUpdate
  <2>2. r \in Requests /\ requests[r] \in Rows
    BY <1>0 DEF Asked, RoutingTypeOK
  <2> DEFINE c == [requests[r] EXCEPT !.status = status]
  <2>3. /\ c \in Rows
        /\ c.subtask_type = requests[r].subtask_type
        /\ c.assigned_to = requests[r].assigned_to
    BY <2>2 DEF Rows
  <2>4. page' = [id |-> r, copy |-> c, fresh |-> TRUE, current |-> TRUE]
    BY <2>1
  <2> HIDE DEF c
  <2>5. page' \in Update /\ page'.id = r /\ page'.copy = c
    BY <2>2, <2>3, <2>4 DEF Update
  <2>6. form = NoPage /\ UNCHANGED <<profiles, requests, stage, form>>
    BY <1>3 DEF ValidateUpdate
  <2>7. CopyOK'
    BY <2>1, <2>3, <2>5, <2>6 DEF CopyOK, Asked, clean, Routed
  <2> QED
    BY <1>0, <2>5, <2>6, <2>7 DEF RoutingInv, RoutingTypeOK, ChoiceOK
<1>4. CASE SaveUpdate
  <2>1. page # NoPage /\ page' = NoPage /\ UNCHANGED <<profiles, stage, form>>
    BY <1>4 DEF SaveUpdate
  <2>2. page \in Update /\ form = NoPage
    BY <1>0, <2>1 DEF RoutingTypeOK
  <2>3. requests' \in [Requests -> Rows \cup {Unfiled}]
    BY <1>0, <1>4, <2>2 DEF SaveUpdate, RoutingTypeOK, Update
  <2> QED
    BY <1>0, <2>1, <2>2, <2>3 DEF RoutingInv, RoutingTypeOK, ChoiceOK, CopyOK
<1>5. CASE CloseTicket
  BY <1>0, <1>5 DEF CloseTicket, RoutingInv, RoutingTypeOK, ChoiceOK, CopyOK, Asked, Routed
<1>6. CASE CancelTicket
  <2>1. UNCHANGED <<profiles, form, page>> /\ stage' = "CANCELLED"
    BY <1>6 DEF CancelTicket
  <2>2. \A r \in Requests : requests[r] \in Rows =>
            [requests[r] EXCEPT !.status = "CANCELLED"] \in Rows
    BY DEF Rows
  <2>3. /\ requests' \in [Requests -> Rows \cup {Unfiled}]
        /\ \A r \in Asked : requests'[r] \in Rows
    BY <1>0, <1>6, <2>2 DEF CancelTicket, RoutingTypeOK, Outstanding, Asked
  <2>4. CopyOK'
    BY <1>0, <2>1, <2>3, RoutingAssumption DEF CopyOK, Asked, Routed
  <2> QED
    BY <1>0, <2>1, <2>3, <2>4 DEF RoutingInv, RoutingTypeOK, ChoiceOK, Routed
<1> QED
  BY <1>1, <1>2, <1>3, <1>4, <1>5, <1>6


\* What saving an account hands over, and what it leaves.
LEMMA SavedRequests ==
    ASSUME RoutingTypeOK, NEW u \in Accounts, NEW p \in Profiles, save_related(u, p),
           NEW r \in Requests
    PROVE  /\ requests'[r] \in Rows \cup {Unfiled}
           /\ requests[r] # Unfiled => requests'[r] # Unfiled
           /\ \/ requests'[r] = requests[r]
              \/ /\ Designated(p) /\ r \in HandedOver(u)
                 /\ requests'[r].subtask_type = "HARDENING"
                 /\ requests'[r].assigned_to = u
<1> DEFINE given == [requests[r] EXCEPT !.subtask_type = "HARDENING", !.assigned_to = u]
<1>1. requests' = IF Designated(p) THEN assign_open_hardening_requests(u) ELSE requests
  BY DEF save_related
<1>2. CASE Designated(p) /\ r \in HandedOver(u)
  <2>1. requests'[r] = given
    BY <1>1, <1>2 DEF assign_open_hardening_requests
  <2>2. requests[r] \in Rows
    BY <1>2 DEF HandedOver, Asked, RoutingTypeOK
  <2>3. given \in Rows /\ given.subtask_type = "HARDENING" /\ given.assigned_to = u
    BY <2>2 DEF Rows, Types, NEW_RESPONSE_TYPES
  <2> HIDE DEF given
  <2> QED
    BY <1>2, <2>1, <2>3, RoutingAssumption
<1>3. CASE ~(Designated(p) /\ r \in HandedOver(u))
  BY <1>1, <1>3 DEF assign_open_hardening_requests, RoutingTypeOK
<1> QED
  BY <1>2, <1>3

\* A saved account ends what was chosen or validated of it.
LEMMA SavedAccount ==
    ASSUME RoutingInv, NEW u \in Accounts, NEW p \in Profiles, save_related(u, p)
    PROVE  RoutingInv'
<1>0. RoutingTypeOK /\ ChoiceOK /\ CopyOK /\ (form = NoPage \/ page = NoPage)
  BY DEF RoutingInv
<1>1. /\ profiles' = [profiles EXCEPT ![u] = p]
      /\ OnePerFunction(profiles')
      /\ UNCHANGED stage
  BY DEF save_related
<1>2. /\ profiles' \in [Accounts -> Profiles]
      /\ \A v \in Accounts : profiles'[v] = IF v = u THEN p ELSE profiles[v]
  BY <1>0, <1>1 DEF RoutingTypeOK
<1>3. /\ requests' \in [Requests -> Rows \cup {Unfiled}]
      /\ Asked \subseteq Asked'
  <2>1. requests' = [r \in Requests |-> requests'[r]]
    BY <1>0 DEF save_related, assign_open_hardening_requests, RoutingTypeOK
  <2> QED
    BY <1>0, <2>1, SavedRequests DEF Asked
<1>4. CASE form # NoPage
  <2> DEFINE b == form.current /\ ~(p # profiles[u])
  <2>1. form \in Filing /\ page = NoPage
    BY <1>0, <1>4 DEF RoutingTypeOK
  <2>2. /\ form' = IF form.to = u THEN [form EXCEPT !.current = b] ELSE form
        /\ page' = NoPage
    BY <1>4, <2>1 DEF save_related
  <2>3. b \in BOOLEAN
    BY <2>1 DEF Filing
  <2>4. b => p = profiles[u] /\ form.current
    OBVIOUS
  <2> HIDE DEF b
  <2>5. /\ form' \in Filing
        /\ form'.type = form.type /\ form'.to = form.to
        /\ form.to = u => form'.current = b
        /\ form.to # u => form' = form
    BY <2>1, <2>2, <2>3 DEF Filing
  <2>6. ASSUME form'.current
        PROVE  form.current /\ profiles'[form.to] = profiles[form.to]
    <3>1. form.to \in Accounts
      BY <2>1 DEF Filing
    <3>2. CASE form.to = u
      BY <1>2, <2>4, <2>5, <2>6, <3>1, <3>2
    <3>3. CASE form.to # u
      BY <1>2, <2>5, <2>6, <3>1, <3>3
    <3> QED
      BY <3>2, <3>3
  <2>7. ChoiceOK'
    BY <1>0, <1>4, <2>5, <2>6 DEF ChoiceOK, Routed
  <2> QED
    BY <1>0, <1>1, <1>2, <1>3, <2>2, <2>5, <2>7 DEF RoutingInv, RoutingTypeOK, CopyOK
<1>5. CASE form = NoPage /\ page # NoPage
  <2> DEFINE f == page.fresh /\ ~(Designated(p) /\ page.id \in Restamped(u))
             b == page.current /\ ~(p # profiles[u] /\ page.copy.assigned_to = u)
  <2>1. page \in Update
    BY <1>0, <1>5 DEF RoutingTypeOK
  <2>2. page' = [page EXCEPT !.fresh = f, !.current = b] /\ form' = NoPage
    BY <1>5 DEF save_related
  <2>3. f \in BOOLEAN /\ b \in BOOLEAN
    BY <2>1 DEF Update, Designated
  <2>4. /\ f => page.fresh /\ ~(Designated(p) /\ page.id \in HandedOver(u))
        /\ b => page.current /\ (p = profiles[u] \/ page.copy.assigned_to # u)
    BY DEF Restamped
  <2> HIDE DEF f, b
  <2>5. /\ page' \in Update
        /\ page'.id = page.id /\ page'.copy = page.copy
        /\ page'.fresh = f /\ page'.current = b
    BY <2>1, <2>2, <2>3 DEF Update
  <2>6. page.id \in Requests /\ page.copy \in Rows /\ page.copy.assigned_to \in Accounts
    BY <2>1 DEF Update, Rows
  <2>7. f => requests'[page.id] = requests[page.id]
    BY <1>0, <2>4, <2>6, SavedRequests
  <2>8. b => profiles'[page.copy.assigned_to] = profiles[page.copy.assigned_to]
    BY <1>2, <2>4, <2>6
  <2>9. CopyOK'
    <3>1. page.id \in Asked'
      BY <1>0, <1>3, <1>5 DEF CopyOK
    <3>2. b => Routed(page.copy.subtask_type, page.copy.assigned_to)'
      BY <1>0, <1>5, <2>4, <2>5, <2>8 DEF CopyOK, Routed
    <3> QED
      BY <1>0, <1>1, <1>5, <2>4, <2>5, <2>7, <3>1, <3>2 DEF CopyOK
  <2> QED
    BY <1>0, <1>1, <1>2, <1>3, <2>2, <2>5, <2>9 DEF RoutingInv, RoutingTypeOK, ChoiceOK
<1>6. CASE form = NoPage /\ page = NoPage
  <2>1. form' = NoPage /\ page' = NoPage
    BY <1>6 DEF save_related
  <2> QED
    BY <1>0, <1>1, <1>2, <1>3, <2>1 DEF RoutingInv, RoutingTypeOK, ChoiceOK, CopyOK
<1> QED
  BY <1>4, <1>5, <1>6

LEMMA NextRouting == RoutingInv /\ [RoutingNext]_rvars => RoutingInv'
<1> SUFFICES ASSUME RoutingInv, [RoutingNext]_rvars PROVE RoutingInv'
  OBVIOUS
<1>1. CASE UNCHANGED rvars
  BY <1>1 DEF rvars, RoutingInv, RoutingTypeOK, ChoiceOK, CopyOK, Asked, Routed
<1>2. ASSUME NEW u \in Accounts, NEW p \in Profiles, save_related(u, p)
      PROVE  RoutingInv'
  BY <1>2, SavedAccount
<1>3. ASSUME \/ resolve_response_assignee
             \/ create_response_request
             \/ \E u \in Accounts \cup {Manager} : ValidateUpdate(u)
             \/ SaveUpdate
             \/ CloseTicket
             \/ CancelTicket
      PROVE  RoutingInv'
  <2>1. UNCHANGED profiles
    BY <1>3 DEF resolve_response_assignee, create_response_request, ValidateUpdate,
                SaveUpdate, CloseTicket, CancelTicket
  <2> QED
    BY <1>3, <2>1, AccountsStand
<1> QED
  BY <1>1, <1>2, <1>3 DEF RoutingNext

LEMMA RoutingInvariance == Routing => []RoutingInv
  BY InitRouting, NextRouting, PTL DEF Routing

\* Accounts, requests and the two pages keep their types, and each function of the Red
\* Team has one manager at most.
THEOREM RoutingTyped == Routing => []RoutingTypeOK
  BY RoutingInvariance, PTL DEF RoutingInv

\* Only the edit of its assignee's account leaves a request with nobody to finish it, and
\* nothing takes a Hardening request from a manager who stays designated.
THEOREM RequestsStayWithTheirTeam == Routing => RequestsReachTheirTeam
<1> DEFINE Given ==
        <<profiles, requests>>' # <<profiles, requests>> => \A r \in Requests :
         /\ Stuck(r)' => Stuck(r) \/ AccountEdited(r)
         /\ LET u == requests[r].assigned_to
            IN  /\ Outstanding(requests[r]) /\ Outstanding(requests'[r])
                /\ requests[r].subtask_type = "HARDENING"
                /\ Designated(profiles[u]) /\ Designated(profiles'[u])
                => /\ requests'[r].assigned_to = u
                   /\ requests'[r].subtask_type = "HARDENING"
<1>1. ASSUME RoutingInv, RoutingInv', RoutingNext
      PROVE  Given
  <2> SUFFICES ASSUME <<profiles, requests>>' # <<profiles, requests>>, NEW r \in Requests
               PROVE  /\ Stuck(r)' => Stuck(r) \/ AccountEdited(r)
                      /\ /\ Outstanding(requests[r]) /\ Outstanding(requests'[r])
                         /\ requests[r].subtask_type = "HARDENING"
                         /\ Designated(profiles[requests[r].assigned_to])
                         /\ Designated(profiles'[requests[r].assigned_to])
                         => /\ requests'[r].assigned_to = requests[r].assigned_to
                            /\ requests'[r].subtask_type = "HARDENING"
    OBVIOUS
  <2>0. /\ RoutingTypeOK /\ ChoiceOK /\ CopyOK /\ (form = NoPage \/ page = NoPage)
        /\ RoutingTypeOK'
    BY <1>1 DEF RoutingInv
  <2>1. requests[r] # Unfiled => requests[r] \in Rows /\ requests[r].assigned_to \in Accounts
    BY <2>0 DEF RoutingTypeOK, Rows
  <2>2. ASSUME NEW u \in Accounts, NEW p \in Profiles, save_related(u, p)
        PROVE  /\ Stuck(r)' => Stuck(r) \/ AccountEdited(r)
               /\ /\ Outstanding(requests[r]) /\ Outstanding(requests'[r])
                  /\ requests[r].subtask_type = "HARDENING"
                  /\ Designated(profiles[requests[r].assigned_to])
                  /\ Designated(profiles'[requests[r].assigned_to])
                  => /\ requests'[r].assigned_to = requests[r].assigned_to
                     /\ requests'[r].subtask_type = "HARDENING"
    <3>1. /\ \A v \in Accounts : profiles'[v] = IF v = u THEN p ELSE profiles[v]
          /\ OnePerFunction(profiles')
          /\ stage' = stage
      BY <2>0, <2>2 DEF save_related, RoutingTypeOK
    <3>2. CASE requests'[r] = requests[r]
      <4>1. ASSUME Stuck(r)', ~AccountEdited(r)
            PROVE  Stuck(r)
        <5>1. /\ Outstanding(requests'[r])
              /\ ~response_request_updates_frozen'
              /\ ~Routed(requests[r].subtask_type, requests[r].assigned_to)'
          BY <2>0, <4>1, StuckIsMisroutedNext
        <5>2. profiles'[requests[r].assigned_to] = profiles[requests[r].assigned_to]
          BY <3>2, <4>1 DEF AccountEdited
        <5>3. /\ Outstanding(requests[r])
              /\ ~response_request_updates_frozen
              /\ ~Routed(requests[r].subtask_type, requests[r].assigned_to)
          BY <3>1, <3>2, <5>1, <5>2 DEF response_request_updates_frozen, Routed
        <5> QED
          BY <2>0, <5>3, StuckIsMisrouted
      <4> QED
        BY <3>2, <4>1
    <3>3. CASE /\ Designated(p) /\ r \in HandedOver(u)
               /\ requests'[r].subtask_type = "HARDENING"
               /\ requests'[r].assigned_to = u
      <4>1. ~Stuck(r)'
        <5>1. profiles'[u] = p /\ p.role = "REDTEAM_MANAGER" /\ p.redteam_function = "HARDENING"
          BY <3>1, <3>3 DEF Designated
        <5>2. Routed(requests[r].subtask_type, requests[r].assigned_to)'
          BY <3>3, <5>1 DEF Routed, response_routing
        <5> QED
          BY <2>0, <5>2, StuckIsMisroutedNext
      <4>2. ASSUME Outstanding(requests[r]),
                   Designated(profiles'[requests[r].assigned_to])
            PROVE  requests[r].assigned_to = u
        <5>1. requests[r].assigned_to \in Accounts
          BY <2>1, <4>2 DEF Outstanding
        <5>2. Designated(profiles'[u])
          BY <3>1, <3>3
        <5> QED
          BY <3>1, <4>2, <5>1, <5>2 DEF OnePerFunction, Designated
      <4> QED
        BY <3>3, <4>1, <4>2
    <3> QED
      BY <2>0, <2>2, <3>2, <3>3, SavedRequests
  <2>3. CASE create_response_request
    <3>1. form # NoPage /\ form' = NoPage /\ UNCHANGED <<profiles, stage, page>>
      BY <2>3 DEF create_response_request
    <3>2. form \in Filing
      BY <2>0, <3>1 DEF RoutingTypeOK
    <3>3. PICK n \in Requests \ Asked :
            requests' = [requests EXCEPT ![n] =
                [subtask_type |-> form.type, status |-> "OPEN", assigned_to |-> form.to]]
      BY <2>3, <3>1 DEF create_response_request
    <3>4. CASE r # n
      <4>1. requests'[r] = requests[r]
        BY <2>0, <3>3, <3>4 DEF RoutingTypeOK
      <4>2. Stuck(r)' => Stuck(r)
        BY <2>0, <3>1, <4>1, StuckIsMisrouted, StuckIsMisroutedNext
        DEF Routed, response_request_updates_frozen
      <4> QED
        BY <4>1, <4>2
    <3>5. CASE r = n
      <4>1. requests[r] = Unfiled
        BY <3>5 DEF Asked
      <4>2. requests'[r].subtask_type = form.type /\ requests'[r].assigned_to = form.to
        BY <2>0, <3>3, <3>5 DEF RoutingTypeOK
      <4>3. form.current => ~Stuck(r)'
        <5>1. form.current => Routed(form.type, form.to)
          BY <2>0, <3>1 DEF ChoiceOK
        <5>2. form.current => Routed(requests[r].subtask_type, requests[r].assigned_to)'
          BY <3>1, <4>2, <5>1 DEF Routed
        <5> QED
          BY <2>0, <5>2, StuckIsMisroutedNext
      <4>4. ~form.current => AccountEdited(r)
        BY <3>1 DEF AccountEdited
      <4> QED
        BY <4>1, <4>3, <4>4 DEF Outstanding
    <3> QED
      BY <3>4, <3>5
  <2>4. CASE SaveUpdate
    <3>1. page # NoPage /\ page' = NoPage /\ UNCHANGED <<profiles, stage, form>>
      BY <2>4 DEF SaveUpdate
    <3>2. page \in Update /\ page.id \in Requests
      BY <2>0, <3>1 DEF RoutingTypeOK, Update
    <3>3. /\ page.fresh /\ stage # "CANCELLED"
          /\ requests' = [requests EXCEPT ![page.id] = page.copy]
      BY <2>4, <3>1 DEF SaveUpdate
    <3>4. CASE r # page.id
      <4>1. requests'[r] = requests[r]
        BY <2>0, <3>3, <3>4 DEF RoutingTypeOK
      <4>2. Stuck(r)' => Stuck(r)
        BY <2>0, <3>1, <4>1, StuckIsMisrouted, StuckIsMisroutedNext
        DEF Routed, response_request_updates_frozen
      <4> QED
        BY <4>1, <4>2
    <3>5. CASE r = page.id
      <4>1. requests'[r] = page.copy
        BY <2>0, <3>3, <3>5 DEF RoutingTypeOK
      <4>2. /\ requests[r].subtask_type = page.copy.subtask_type
            /\ requests[r].assigned_to = page.copy.assigned_to
            /\ page.current => Routed(page.copy.subtask_type, page.copy.assigned_to)
        BY <2>0, <3>1, <3>3, <3>5 DEF CopyOK
      <4>3. page.current => ~Stuck(r)'
        <5>1. page.current => Routed(requests[r].subtask_type, requests[r].assigned_to)'
          BY <3>1, <4>1, <4>2 DEF Routed
        <5> QED
          BY <2>0, <5>1, StuckIsMisroutedNext
      <4>4. ~page.current => AccountEdited(r)
        BY <3>1 DEF AccountEdited
      <4> QED
        BY <4>1, <4>2, <4>3, <4>4
    <3> QED
      BY <3>4, <3>5
  <2>5. CASE CancelTicket
    <3>1. ~Stuck(r)'
      BY <2>5 DEF CancelTicket, Stuck, response_request_updates_frozen
    <3>2. Outstanding(requests'[r]) => requests'[r] = requests[r]
      <4>1. CASE Outstanding(requests[r])
        <5>1. requests'[r] = [requests[r] EXCEPT !.status = "CANCELLED"]
          BY <2>5, <4>1 DEF CancelTicket
        <5>2. requests'[r].status = "CANCELLED"
          BY <2>1, <4>1, <5>1 DEF Outstanding, Rows
        <5> QED
          BY <5>2 DEF Outstanding
      <4>2. CASE ~Outstanding(requests[r])
        BY <2>5, <4>2 DEF CancelTicket
      <4> QED
        BY <4>1, <4>2
    <3> QED
      BY <3>1, <3>2
  <2> QED
    BY <1>1, <2>2, <2>3, <2>4, <2>5
    DEF RoutingNext, resolve_response_assignee, ValidateUpdate, CloseTicket
<1>2. RoutingInv /\ RoutingInv' /\ [RoutingNext]_rvars => [Given]_rvars
  BY <1>1
<1>3. RequestsReachTheirTeam <=> [][Given]_rvars
  BY PTL DEF RequestsReachTheirTeam
<1> QED
  BY <1>2, <1>3, RoutingInvariance, PTL DEF Routing


-----------------------------------------------------------------------------
(***************************************************************************)
(* What a case says.  Three invariants, of three parts of the state: the   *)
(* values of the fields and the rows about them, the texts of the timeline *)
(* and the statuses it was written at.                                     *)
(*                                                                         *)
(* The fields first.  A slow request compares with what it read, so that   *)
(* the value it overwrites may have been written in the meantime; but then *)
(* the row of that write tells of it.                                      *)
(***************************************************************************)

FieldValues == Values \cup {Filed}
Contents == [Fields -> FieldValues]
ChangeRow == [old_value : FieldValues, new_value : FieldValues]

SlowReview ==
    [kind : {"t2_review"}, user : Users, ticket : Ticket, content : Contents,
     stored : Contents, started : BOOLEAN]

SlowUpdate == [kind : {"update_subtask"}, user : Users, old : FieldValues, rows : Nat]

SlowReport == [kind : {"submit_containment"}, before : Contents, after : Contents]

FileTypeOK ==
    /\ ticket \in Ticket
    /\ content \in Contents
    /\ held \in [Fields -> SUBSET FieldValues]
    /\ changes \in [Fields -> Seq(ChangeRow)]
    /\ slow.kind = "t2_review" => slow \in SlowReview
    /\ slow.kind = "update_subtask" => slow \in SlowUpdate
    /\ slow.kind = "submit_containment" => slow \in SlowReport

\* The values the rows of a field tell of, and with its own value those it is known to
\* have held.
Told(f) ==
    {changes[f][i].old_value : i \in DOMAIN changes[f]}
        \cup {changes[f][i].new_value : i \in DOMAIN changes[f]}

Known(f) == {content[f]} \cup Told(f)

\* What a slow request read is current, or the rows tell what came after.
ReadOK ==
    /\ slow.kind = "t2_review" /\ slow.started =>
         \A f \in Fields \ {"result"} : content[f] = slow.stored[f] \/ content[f] \in Told(f)
    /\ slow.kind = "update_subtask" =>
         /\ slow.rows <= Len(changes["result"])
         /\ slow.rows = Len(changes["result"]) => slow.old = content["result"]
    /\ slow.kind = "submit_containment" => \A f \in Fields : slow.after[f] \in Known(f)

FileInv == FileTypeOK /\ ReadOK /\ NoValueIsForgotten

\* A row for each field that changed, and none for the others.
LEMMA RowsAdded ==
    ASSUME changes \in [Fields -> Seq(ChangeRow)],
           NEW before \in Contents, NEW after \in Contents, record_changes(before, after)
    PROVE  /\ changes' \in [Fields -> Seq(ChangeRow)]
           /\ \A f \in Fields :
                /\ before[f] = after[f] => changes'[f] = changes[f]
                /\ before[f] # after[f] =>
                     /\ Len(changes'[f]) = Len(changes[f]) + 1
                     /\ Told(f)' = Told(f) \cup {before[f], after[f]}
<1>1. \A f \in Fields :
        changes'[f] = IF before[f] = after[f] THEN changes[f]
                      ELSE Append(changes[f], [old_value |-> before[f], new_value |-> after[f]])
  BY DEF record_changes
<1>2. \A f \in Fields : [old_value |-> before[f], new_value |-> after[f]] \in ChangeRow
  BY DEF Contents, ChangeRow
<1>3. changes' \in [Fields -> Seq(ChangeRow)]
  <2>1. DOMAIN changes' = Fields /\ changes' = [f \in Fields |-> changes'[f]]
    BY DEF record_changes
  <2>2. ASSUME NEW f \in Fields
        PROVE  changes'[f] \in Seq(ChangeRow)
    <3> DEFINE e == [old_value |-> before[f], new_value |-> after[f]]
    <3>1. changes[f] \in Seq(ChangeRow) /\ e \in ChangeRow
      BY <1>2
    <3>2. changes'[f] = changes[f] \/ changes'[f] = Append(changes[f], e)
      BY <1>1
    <3> HIDE DEF e
    <3> QED
      BY SMTT(30), <3>1, <3>2
  <2> QED
    BY <2>1, <2>2
<1>4. ASSUME NEW f \in Fields, before[f] # after[f]
      PROVE  /\ Len(changes'[f]) = Len(changes[f]) + 1
             /\ Told(f)' = Told(f) \cup {before[f], after[f]}
  <2> DEFINE row1 == [old_value |-> before[f], new_value |-> after[f]]
  <2>1. row1 \in ChangeRow /\ row1.old_value = before[f] /\ row1.new_value = after[f]
    BY <1>2
  <2>2. changes'[f] = Append(changes[f], row1) /\ changes[f] \in Seq(ChangeRow)
    BY <1>1, <1>4
  <2> HIDE DEF row1
  <2> DEFINE n == Len(changes[f])
  <2>3. /\ n \in Nat
        /\ Len(changes'[f]) = n + 1
        /\ DOMAIN changes[f] = 1 .. n
        /\ DOMAIN changes'[f] = 1 .. n + 1
        /\ \A i \in 1 .. n : changes'[f][i] = changes[f][i]
        /\ changes'[f][n + 1] = row1
    BY <2>1, <2>2
  <2> HIDE DEF n
  <2>4. Told(f)' = Told(f) \cup {row1.old_value, row1.new_value}
    <3>1. \A i \in 1 .. n + 1 : i \in 1 .. n \/ i = n + 1
      BY <2>3
    <3>2. n + 1 \in 1 .. n + 1 /\ \A i \in 1 .. n : i \in 1 .. n + 1
      BY <2>3
    <3> QED
      BY <2>3, <3>1, <3>2 DEF Told
  <2> QED
    BY <2>1, <2>3, <2>4 DEF n
<1> QED
  BY <1>1, <1>3, <1>4


\* A form changes the fields it has.
LEMMA FormsAreContents ==
    ASSUME NEW c \in Contents, NEW form1 \in Forms(c)
    PROVE  form1 \in Contents /\ form1["result"] = c["result"]
<1>1. PICK typed \in [FormFields -> Values] :
        form1 = [f \in Fields |-> IF f \in FormFields THEN typed[f] ELSE c[f]]
  BY DEF Forms
<1>2. "result" \in Fields \ FormFields
  BY CaseFileAssumption DEF Fields
<1> QED
  BY <1>1, <1>2 DEF Contents, FieldValues

\* One field is written.
LEMMA FieldWritten ==
    ASSUME NEW c \in Contents, NEW v \in FieldValues
    PROVE  /\ [c EXCEPT !.result = v] \in Contents
           /\ [c EXCEPT !.report = v] \in Contents
           /\ [c EXCEPT !.result = v]["result"] = v
           /\ \A f \in Fields \ {"result"} : [c EXCEPT !.result = v][f] = c[f]
           /\ \A f \in Fields \ {"report"} : [c EXCEPT !.report = v][f] = c[f]
           /\ [c EXCEPT !.result = c["result"]] = c
  BY DEF Contents, Fields

LEMMA InitFile == Init => FileInv
<1> SUFFICES ASSUME Init PROVE FileInv
  OBVIOUS
<1>1. slow.kind = "none"
  BY DEF Init, Idle
<1>2. FileTypeOK
  <2>1. ticket \in Ticket
    BY CaseFileAssumption DEF Init
  <2>2. content \in Contents /\ held \in [Fields -> SUBSET FieldValues]
    BY DEF Init, Contents, FieldValues
  <2>3. changes \in [Fields -> Seq(ChangeRow)]
    BY DEF Init
  <2> QED
    BY <1>1, <2>1, <2>2, <2>3 DEF FileTypeOK
<1>3. NoValueIsForgotten
  BY DEF Init, NoValueIsForgotten
<1> QED
  BY <1>1, <1>2, <1>3 DEF FileInv, ReadOK

\* A step that writes no field; a request that begins now has read what is there.
LEMMA FieldsStand ==
    ASSUME FileInv, UNCHANGED <<content, changes, held>>, ticket' \in Ticket,
           \/ slow' = slow
           \/ slow.kind # "submit_containment" /\ slow'.kind \in {"none", "edit_log", "edit_log_banked"}
           \/ /\ slow.kind # "submit_containment"
              /\ slow' \in SlowReview /\ (slow'.started => slow'.stored = content)
           \/ /\ slow.kind # "submit_containment"
              /\ slow' \in SlowUpdate
              /\ slow'.old = content["result"] /\ slow'.rows = Len(changes["result"])
    PROVE  FileInv'
<1>0. FileTypeOK /\ ReadOK /\ NoValueIsForgotten
  BY DEF FileInv
<1>1. \A f \in Fields : Told(f)' = Told(f) /\ Known(f)' = Known(f)
  BY DEF Told, Known
<1>2. slow' \in SlowReview => slow'.kind = "t2_review"
  BY DEF SlowReview
<1>3. slow' \in SlowUpdate => slow'.kind = "update_subtask"
  BY DEF SlowUpdate
<1>4. FileTypeOK'
  BY <1>0, <1>2, <1>3 DEF FileTypeOK
<1>5. ReadOK'
  <2>1. CASE slow' = slow
    BY <1>0, <1>1, <2>1 DEF ReadOK
  <2>2. CASE slow'.kind \in {"none", "edit_log", "edit_log_banked"}
    BY <2>2 DEF ReadOK
  <2>3. CASE slow' \in SlowReview /\ (slow'.started => slow'.stored = content)
    BY <1>2, <2>3 DEF ReadOK
  <2>4. CASE /\ slow' \in SlowUpdate
             /\ slow'.old = content["result"] /\ slow'.rows = Len(changes["result"])
    <3>1. Len(changes["result"]) \in Nat
      BY <1>0 DEF FileTypeOK, Fields
    <3> QED
      BY <1>3, <2>4, <3>1 DEF ReadOK
  <2> QED
    BY <2>1, <2>2, <2>3, <2>4
<1>6. NoValueIsForgotten'
  BY <1>0 DEF NoValueIsForgotten
<1> QED
  BY <1>4, <1>5, <1>6 DEF FileInv


\* The values of the history are typed by what is written.
LEMMA HeldGrows ==
    ASSUME FileTypeOK, NEW after \in Contents, Write(after)
    PROVE  /\ content' = after
           /\ held' \in [Fields -> SUBSET FieldValues]
           /\ \A f \in Fields : held'[f] = held[f] \cup {after[f]}
<1>1. \A f \in Fields : held[f] \cup {after[f]} \in SUBSET FieldValues
  BY DEF FileTypeOK, Contents
<1> QED
  BY <1>1 DEF Write

\* A request that compared with the fields as they are.
LEMMA FieldsWritten ==
    ASSUME FileInv, NEW after \in Contents, ticket' \in Ticket,
           Write(after), record_changes(content, after),
           slow' = slow \/ (slow.kind # "submit_containment" /\ slow' = Idle)
    PROVE  FileInv'
<1>0. FileTypeOK /\ ReadOK /\ NoValueIsForgotten
  BY DEF FileInv
<1>1. /\ content' = after
      /\ held' \in [Fields -> SUBSET FieldValues]
      /\ \A f \in Fields : held'[f] = held[f] \cup {after[f]}
  BY <1>0, HeldGrows
<1>2. /\ changes' \in [Fields -> Seq(ChangeRow)]
      /\ \A f \in Fields :
           /\ content[f] = after[f] => changes'[f] = changes[f]
           /\ content[f] # after[f] =>
                /\ Len(changes'[f]) = Len(changes[f]) + 1
                /\ Told(f)' = Told(f) \cup {content[f], after[f]}
  BY <1>0, RowsAdded DEF FileTypeOK
<1>3. \A f \in Fields :
        /\ Told(f) \subseteq Told(f)'
        /\ content[f] = after[f] => Told(f)' = Told(f)
        /\ Known(f)' = Known(f) \cup {after[f]}
  <2> SUFFICES ASSUME NEW f \in Fields
               PROVE  /\ Told(f) \subseteq Told(f)'
                      /\ content[f] = after[f] => Told(f)' = Told(f)
                      /\ Known(f)' = Known(f) \cup {after[f]}
    OBVIOUS
  <2>1. Known(f)' = {after[f]} \cup Told(f)'
    BY <1>1 DEF Known, Told
  <2>2. CASE content[f] = after[f]
    <3>1. Told(f)' = Told(f)
      BY <1>2, <2>2 DEF Told
    <3> QED
      BY <2>1, <2>2, <3>1 DEF Known
  <2>3. CASE content[f] # after[f]
    <3>1. Told(f)' = Told(f) \cup {content[f], after[f]}
      BY <1>2, <2>3
    <3> QED
      BY <2>1, <2>3, <3>1 DEF Known
  <2> QED
    BY <2>2, <2>3
<1>4. slow' = Idle => slow'.kind = "none"
  BY DEF Idle
<1>5. FileTypeOK'
  BY <1>0, <1>1, <1>2, <1>4 DEF FileTypeOK
<1>6. ReadOK'
  <2>1. CASE slow' = slow
    <3>1. ASSUME slow.kind = "t2_review", slow.started, NEW f \in Fields \ {"result"}
          PROVE  content'[f] = slow.stored[f] \/ content'[f] \in Told(f)'
      <4>1. content[f] = slow.stored[f] \/ content[f] \in Told(f)
        BY <1>0, <3>1 DEF ReadOK
      <4> QED
        BY <1>1, <1>2, <1>3, <4>1
    <3>2. ASSUME slow.kind = "update_subtask"
          PROVE  /\ slow.rows <= Len(changes'["result"])
                 /\ slow.rows = Len(changes'["result"]) => slow.old = content'["result"]
      <4>1. /\ slow.rows <= Len(changes["result"])
            /\ slow.rows = Len(changes["result"]) => slow.old = content["result"]
        BY <1>0, <3>2 DEF ReadOK
      <4>2. slow.rows \in Nat /\ Len(changes["result"]) \in Nat /\ "result" \in Fields
        BY <1>0, <3>2 DEF FileTypeOK, SlowUpdate, Fields
      <4>3. \/ content["result"] = after["result"] /\ changes'["result"] = changes["result"]
            \/ Len(changes'["result"]) = Len(changes["result"]) + 1
        BY <1>2, <4>2
      <4> QED
        BY <1>1, <4>1, <4>2, <4>3
    <3>3. ASSUME slow.kind = "submit_containment", NEW f \in Fields
          PROVE  slow.after[f] \in Known(f)'
      BY <1>0, <1>3, <3>3 DEF ReadOK
    <3> QED
      BY <2>1, <3>1, <3>2, <3>3 DEF ReadOK
  <2>2. CASE slow' = Idle
    BY <1>4, <2>2 DEF ReadOK
  <2> QED
    BY <2>1, <2>2
<1>7. NoValueIsForgotten'
  <2> SUFFICES ASSUME NEW f \in Fields
               PROVE  held'[f] \subseteq Known(f)' \cup
                        IF slow'.kind = "submit_containment" THEN {slow'.before[f]} ELSE {}
    BY DEF NoValueIsForgotten, Known, Told
  <2>1. held[f] \subseteq Known(f) \cup
          IF slow.kind = "submit_containment" THEN {slow.before[f]} ELSE {}
    BY <1>0 DEF NoValueIsForgotten, Known, Told
  <2> QED
    BY <1>1, <1>3, <2>1
<1> QED
  BY <1>5, <1>6, <1>7 DEF FileInv

\* Tier 2's review, compared with what was stored when it began.
LEMMA ReviewWritten ==
    ASSUME FileInv, slow.kind = "t2_review", slow.started, ticket' \in Ticket, slow' = Idle,
           NEW after \in Contents, NEW before \in Contents,
           Write(after), record_changes(before, after),
           \A f \in Fields \ {"result"} : before[f] = slow.stored[f],
           before["result"] = content["result"], after["result"] = content["result"]
    PROVE  FileInv'
<1>0. FileTypeOK /\ ReadOK /\ NoValueIsForgotten
  BY DEF FileInv
<1>1. /\ content' = after
      /\ held' \in [Fields -> SUBSET FieldValues]
      /\ \A f \in Fields : held'[f] = held[f] \cup {after[f]}
  BY <1>0, HeldGrows
<1>2. /\ changes' \in [Fields -> Seq(ChangeRow)]
      /\ \A f \in Fields :
           /\ before[f] = after[f] => changes'[f] = changes[f]
           /\ before[f] # after[f] => Told(f)' = Told(f) \cup {before[f], after[f]}
  BY <1>0, RowsAdded DEF FileTypeOK
<1>3. slow'.kind = "none"
  BY DEF Idle
<1>4. FileTypeOK'
  BY <1>0, <1>1, <1>2, <1>3 DEF FileTypeOK
<1>5. NoValueIsForgotten'
  <2> SUFFICES ASSUME NEW f \in Fields
               PROVE  held'[f] \subseteq Known(f)'
    BY <1>3 DEF NoValueIsForgotten, Known, Told
  <2>1. held[f] \subseteq Known(f)
    BY <1>0 DEF NoValueIsForgotten, Known, Told
  <2>2. Told(f) \subseteq Told(f)' /\ (before[f] # after[f] => before[f] \in Told(f)')
    <3>1. CASE before[f] = after[f]
      <4>1. changes'[f] = changes[f]
        BY <1>2, <3>1
      <4> QED
        BY <3>1, <4>1 DEF Told
    <3>2. CASE before[f] # after[f]
      BY <1>2, <3>2
    <3> QED
      BY <3>1, <3>2
  <2>3. content[f] \in {before[f]} \cup Told(f)
    BY <1>0 DEF ReadOK
  <2>4. content[f] \in Known(f)'
    BY <1>1, <2>2, <2>3 DEF Known
  <2> QED
    BY <1>1, <2>1, <2>2, <2>4 DEF Known
<1> QED
  BY <1>3, <1>4, <1>5 DEF FileInv, ReadOK

\* The report is written, and waits for its row.
LEMMA ReportWritten ==
    ASSUME FileInv, slow = Idle, ticket' \in Ticket, UNCHANGED changes,
           NEW v \in FieldValues, Write([content EXCEPT !.report = v]),
           slow' = [kind |-> "submit_containment", before |-> content, after |-> content']
    PROVE  FileInv'
<1>0. FileTypeOK /\ ReadOK /\ NoValueIsForgotten /\ content \in Contents
  BY DEF FileInv, FileTypeOK
<1> DEFINE after == [content EXCEPT !.report = v]
<1>1. after \in Contents
  BY <1>0, FieldWritten
<1> HIDE DEF after
<1>2. /\ content' = after
      /\ held' \in [Fields -> SUBSET FieldValues]
      /\ \A f \in Fields : held'[f] = held[f] \cup {after[f]}
  BY <1>0, <1>1, HeldGrows DEF after
<1>3. /\ slow' \in SlowReport /\ slow'.kind = "submit_containment"
      /\ slow'.before = content /\ slow'.after = after
  BY <1>0, <1>1, <1>2 DEF SlowReport
<1>4. \A f \in Fields : Known(f)' = {after[f]} \cup Told(f)
  BY <1>2 DEF Known, Told
<1>5. FileTypeOK'
  BY <1>0, <1>1, <1>2, <1>3 DEF FileTypeOK
<1>6. ReadOK'
  BY <1>3, <1>4 DEF ReadOK
<1>7. NoValueIsForgotten'
  <2> SUFFICES ASSUME NEW f \in Fields
               PROVE  held'[f] \subseteq Known(f)' \cup {slow'.before[f]}
    BY <1>3 DEF NoValueIsForgotten, Known, Told
  <2>1. held[f] \subseteq Known(f)
    BY <1>0 DEF NoValueIsForgotten, Known, Told, Idle
  <2> QED
    BY <1>2, <1>3, <1>4, <2>1 DEF Known
<1> QED
  BY <1>5, <1>6, <1>7 DEF FileInv

\* The row of the report.
LEMMA ReportRecorded ==
    ASSUME FileInv, RecordContainment
    PROVE  FileInv'
<1>0. FileTypeOK /\ ReadOK /\ NoValueIsForgotten
  BY DEF FileInv
<1>1. /\ slow.kind = "submit_containment" /\ slow \in SlowReport
      /\ slow.before \in Contents /\ slow.after \in Contents
      /\ record_changes(slow.before, slow.after)
      /\ slow' = Idle /\ slow'.kind = "none"
      /\ UNCHANGED <<ticket, content, held>>
  BY <1>0 DEF RecordContainment, FileTypeOK, SlowReport, Idle
<1>2. /\ changes' \in [Fields -> Seq(ChangeRow)]
      /\ \A f \in Fields :
           /\ slow.before[f] = slow.after[f] => changes'[f] = changes[f]
           /\ slow.before[f] # slow.after[f] =>
                Told(f)' = Told(f) \cup {slow.before[f], slow.after[f]}
  BY <1>0, <1>1, RowsAdded DEF FileTypeOK
<1>3. FileTypeOK'
  BY <1>0, <1>1, <1>2 DEF FileTypeOK
<1>4. NoValueIsForgotten'
  <2> SUFFICES ASSUME NEW f \in Fields
               PROVE  held'[f] \subseteq Known(f)'
    BY <1>1 DEF NoValueIsForgotten, Known, Told
  <2>1. held[f] \subseteq Known(f) \cup {slow.before[f]}
    BY <1>0, <1>1 DEF NoValueIsForgotten, Known, Told
  <2>2. slow.after[f] \in Known(f)
    BY <1>0, <1>1 DEF ReadOK
  <2>3. Known(f) \subseteq Known(f)' /\ slow.before[f] \in Known(f)'
    <3>1. CASE slow.before[f] = slow.after[f]
      <4>1. Told(f)' = Told(f)
        BY <1>2, <3>1 DEF Told
      <4> QED
        BY <1>1, <2>2, <3>1, <4>1 DEF Known
    <3>2. CASE slow.before[f] # slow.after[f]
      BY <1>1, <1>2, <3>2 DEF Known
    <3> QED
      BY <3>1, <3>2
  <2> QED
    BY <1>1, <2>1, <2>3
<1> QED
  BY <1>1, <1>3, <1>4 DEF FileInv, ReadOK


\* What Applied does to the columns the closing of a case reads.
LEMMA RowApplied ==
    ASSUME NEW t \in Ticket, NEW s \in Statuses, NEW u \in Users
    PROVE  /\ Applied(t, s, u) \in Ticket
           /\ Applied(t, s, u).status = s
           /\ Applied(t, s, u).approved_by =
                IF t.approved_by = NoUser /\ s = "APPROVED" THEN u ELSE t.approved_by
<1>1. classification_after(t, s) \in Classifications
  BY DEF classification_after, Classifications, Ticket
<1>2. verified_by_after(t, s, u) \in Users \cup {NoUser}
  BY DEF verified_by_after, Ticket
<1> DEFINE c == classification_after(t, s)
           e == IF s = "ESCALATED_T2" THEN c ELSE t.classification_at_escalation
           f == t.first_submitted \/ t.status = "NEW"
           h == \/ t.escalated_to_t2
                \/ s = "ESCALATED_T2"
                \/ t.status \in {"ESCALATED_T2", "MONITORING"}
           m == t.has_been_monitored \/ s = "MONITORING"
           v == verified_by_after(t, s, u)
           a == IF t.approved_by = NoUser /\ s = "APPROVED" THEN u ELSE t.approved_by
           n == [t EXCEPT !.status = s, !.first_submitted = f, !.escalated_to_t2 = h,
                          !.classification = c, !.classification_at_escalation = e,
                          !.has_been_monitored = m, !.verified_by = v,
                          !.approved_by = a, !.t2_claimed_by = NoUser]
<1>3. Applied(t, s, u) = n
  BY DEF Applied, Stamped
<1>4. /\ c \in Classifications
      /\ e \in Classifications
      /\ f \in BOOLEAN
      /\ h \in BOOLEAN
      /\ m \in BOOLEAN
      /\ v \in Users \cup {NoUser}
      /\ a \in Users \cup {NoUser}
  BY <1>1, <1>2 DEF Ticket
<1> HIDE DEF c, e, f, h, m, v, a
<1>5. n \in Ticket
  BY ZenonT(30), <1>4 DEF Ticket
<1>6. n.status = s /\ n.approved_by = a
  BY DEF Ticket
<1> HIDE DEF n
<1> QED
  BY <1>3, <1>5, <1>6 DEF a

\* No edge leaves a finished case, and one leads to the manager's Event review.
LEMMA EdgesOfACase ==
    ASSUME NEW s, NEW n, <<s, n>> \in ALLOWED_TRANSITIONS
    PROVE  /\ s \in Statuses /\ n \in Statuses
           /\ s \notin TERMINAL_STATUSES
           /\ n = "PENDING_MGR_EVENT_REVIEW" => s = "ESCALATED_T2"
           /\ s = "PENDING_MGR_EVENT_REVIEW" => n \in {"CLOSED_EVENT", "ESCALATED_T2"}
  BY DEF ALLOWED_TRANSITIONS, CreatorEdges, Tier2Edges, ManagerEdges,
         MANAGER_RETURN_EDGES, STEP_BACK_EDGES, AssignedAdminEdges, Statuses,
         TERMINAL_STATUSES, RESOLVED_STATUSES, TIER2_QUEUE_STATUSES, MANAGER_QUEUE_STATUSES

LEMMA TransitionMade ==
    ASSUME NEW u \in Users, NEW t \in Ticket, NEW s, Transition(u, t, s)
    PROVE  /\ s \in Statuses
           /\ <<t.status, s>> \in ALLOWED_TRANSITIONS
           /\ ticket' \in Ticket
           /\ ticket'.status = s
           /\ ticket'.approved_by =
                IF t.approved_by = NoUser /\ s = "APPROVED" THEN u ELSE t.approved_by
           /\ AddLog(u, s)
           /\ Decides(u, s)
<1>1. <<t.status, s>> \in ALLOWED_TRANSITIONS /\ ticket' = Applied(t, s, u)
      /\ AddLog(u, s) /\ Decides(u, s)
  BY DEF Transition, can_transition_to
<1>2. s \in Statuses
  BY <1>1, EdgesOfACase
<1> QED
  BY <1>1, <1>2, RowApplied

\* The instances Tier 2's decision form leaves.
LEMMA DecidedInstances ==
    ASSUME NEW c \in Ticket, NEW d \in T2Decisions(c)
    PROVE  d[1] \in Ticket /\ d[1].status = c.status /\ d[1].approved_by = c.approved_by
<1>0. "EVENT" \in Classifications /\ "INCIDENT" \in Classifications
      /\ "OWNER" \in Routes /\ "ADMIN" \in Routes
  BY DEF Classifications, Routes
<1>1. SysAdmins \subseteq Users
  BY AccountsAssumption
<1> DEFINE Same(x) == x \in Ticket /\ x.status = c.status /\ x.approved_by = c.approved_by
<1>2. ASSUME NEW x, Same(x), NEW k \in {"EVENT", "INCIDENT"}
      PROVE  Same([x EXCEPT !.classification = k])
  BY <1>0, <1>2 DEF Ticket
<1>3. \A x \in WithLane(c) : Same(x)
  <2>1. Same([c EXCEPT !.t1_route = "OWNER"])
    BY <1>0 DEF Ticket
  <2>2. ASSUME NEW a \in SysAdmins
        PROVE  Same([c EXCEPT !.t1_route = "ADMIN", !.assigned_admin = a])
    BY <1>0, <1>1 DEF Ticket
  <2> HIDE DEF Same
  <2> QED
    BY <2>1, <2>2 DEF WithLane
<1>4. Same(c)
  OBVIOUS
<1> HIDE DEF Same
<1>5. CASE d[1] = [c EXCEPT !.classification = "EVENT"]
  BY <1>2, <1>4, <1>5 DEF Same
<1>6. CASE \E x \in WithLane(c) : d[1] = [x EXCEPT !.classification = "INCIDENT"]
  BY <1>2, <1>3, <1>6 DEF Same
<1>7. \/ d[1] = [c EXCEPT !.classification = "EVENT"]
      \/ \E x \in WithLane(c) : d[1] = [x EXCEPT !.classification = "INCIDENT"]
  <2> DEFINE W == {[x EXCEPT !.classification = "INCIDENT"] : x \in WithLane(c)}
  <2>1. d \in {<<[c EXCEPT !.classification = "EVENT"],
                 IF is_t2_event_downgrade([c EXCEPT !.classification = "EVENT"])
                 THEN "PENDING_MGR_EVENT_REVIEW" ELSE "CLOSED_EVENT">>}
               \cup (W \X {"PENDING_MGR_TRIAGE"})
    BY DEF T2Decisions
  <2>2. CASE d \in W \X {"PENDING_MGR_TRIAGE"}
    <3>1. d[1] \in W
      BY <2>2
    <3> QED
      BY <3>1
  <2> QED
    BY <2>1, <2>2
<1> QED
  BY <1>5, <1>6, <1>7


\* What a review writes, and what it compares that with.
LEMMA ReviewCompared ==
    ASSUME NEW u \in Users, NEW t \in Ticket, NEW c \in Contents, NEW stored \in Contents,
           content \in Contents, complete_t2_review(u, t, c, stored)
    PROVE  /\ ticket' \in Ticket
           /\ \E after \in Contents, before \in Contents :
                /\ Write(after) /\ record_changes(before, after)
                /\ before["result"] = content["result"]
                /\ after["result"] = content["result"]
                /\ \A f \in Fields \ {"result"} : before[f] = stored[f]
                /\ stored = content => before = content
<1>1. PICK d \in T2Decisions(t), form1 \in Forms(c) :
        /\ Transition(u, d[1], d[2])
        /\ Write([form1 EXCEPT !.result = content.result])
        /\ record_changes([stored EXCEPT !.result = content.result],
                          [form1 EXCEPT !.result = content.result])
  BY DEF complete_t2_review, snapshot_saved
<1>2. ticket' \in Ticket
  BY <1>1, DecidedInstances, TransitionMade
<1>3. form1 \in Contents
  BY FormsAreContents
<1>4. content["result"] \in FieldValues
  BY DEF Contents, Fields
<1> DEFINE after == [form1 EXCEPT !.result = content["result"]]
           before == [stored EXCEPT !.result = content["result"]]
<1>5. after \in Contents /\ after["result"] = content["result"]
  BY <1>3, <1>4, FieldWritten
<1>6. before \in Contents /\ before["result"] = content["result"]
      /\ \A f \in Fields \ {"result"} : before[f] = stored[f]
  BY ZenonT(30), <1>4, FieldWritten
<1>7. stored = content => before = content
  BY <1>4, FieldWritten
<1>8. Write(after) /\ record_changes(before, after)
  BY <1>1
<1> HIDE DEF after, before
<1> QED
  BY <1>2, <1>5, <1>6, <1>7, <1>8

\* The steps that write a field.
LEMMA WritesFile ==
    ASSUME FileInv, NEW u \in Users, UNCHANGED slow,
           \/ save_ticket_edit(u)
           \/ complete_t2_review(u, ticket, content, content)
           \/ record_remediation_check(u)
           \/ save_subtask_update(u, content.result, TRUE)
    PROVE  FileInv'
<1>0. ticket \in Ticket /\ content \in Contents
  BY DEF FileInv, FileTypeOK
<1>1. CASE save_ticket_edit(u)
  <2>1. PICK after \in Forms(content) : Write(after) /\ record_changes(content, after)
    BY <1>1 DEF save_ticket_edit
  <2>2. after \in Contents /\ ticket' = ticket
    BY <1>0, <1>1, <2>1, FormsAreContents DEF save_ticket_edit
  <2> QED
    BY <1>0, <2>1, <2>2, FieldsWritten
<1>2. CASE complete_t2_review(u, ticket, content, content)
  <2>1. ticket' \in Ticket
    BY <1>0, <1>2, ReviewCompared
  <2>2. PICK after \in Contents, before \in Contents :
          Write(after) /\ record_changes(before, after) /\ before = content
    BY <1>0, <1>2, ReviewCompared
  <2> QED
    BY <2>1, <2>2, FieldsWritten
<1>3. CASE record_remediation_check(u)
  <2>1. PICK s \in {"AWAITING_OWNER", "PENDING_MANAGER", "APPROVED"}, v \in Values :
          /\ Transition(u, ticket, s)
          /\ Write([content EXCEPT !.report = v])
          /\ record_changes(content, [content EXCEPT !.report = v])
    BY <1>3 DEF record_remediation_check
  <2>2. ticket' \in Ticket
    BY <1>0, <2>1, TransitionMade
  <2>3. [content EXCEPT !.report = v] \in Contents
    BY <1>0, FieldWritten DEF FieldValues
  <2> QED
    BY <2>1, <2>2, <2>3, FieldsWritten
<1>4. CASE save_subtask_update(u, content.result, TRUE)
  <2>1. PICK v \in Values :
          /\ Write([content EXCEPT !.result = v])
          /\ record_changes([content EXCEPT !.result = content["result"]],
                            [content EXCEPT !.result = v])
    BY <1>4 DEF save_subtask_update
  <2>2. ticket' \in Ticket
    BY <1>0, <1>4 DEF save_subtask_update
  <2>3. [content EXCEPT !.result = v] \in Contents
    BY <1>0, FieldWritten DEF FieldValues
  <2>4. [content EXCEPT !.result = content["result"]] = content
    BY <1>0, FieldWritten DEF FieldValues
  <2>5. record_changes(content, [content EXCEPT !.result = v])
    BY <2>1, <2>4
  <2> QED
    BY <2>1, <2>2, <2>3, <2>5, FieldsWritten
<1> QED
  BY <1>1, <1>2, <1>3, <1>4

\* The steps that write no field.
LEMMA MovesFile ==
    ASSUME FileInv, NEW u \in Users, UNCHANGED slow,
           \/ WorkflowAction(u)
           \/ ReclassifyAsEvent(u)
           \/ perform_cancellation(u)
           \/ reassess_emergency(u)
           \/ Visit(u)
           \/ edit_log(u)
    PROVE  FileInv'
<1>0. ticket \in Ticket
  BY DEF FileInv, FileTypeOK
<1>1. CASE WorkflowAction(u)
  <2>1. PICK s \in Statuses : Transition(u, ticket, s)
    BY <1>1 DEF WorkflowAction
  <2>2. ticket' \in Ticket
    BY <1>0, <2>1, TransitionMade
  <2> QED
    BY <1>1, <2>2, FieldsStand DEF WorkflowAction
<1>2. CASE ReclassifyAsEvent(u)
  <2> DEFINE t == [ticket EXCEPT !.classification = "EVENT"]
  <2>1. t \in Ticket
    BY <1>0 DEF Ticket, Classifications
  <2>2. Transition(u, t, "CLOSED_EVENT")
    BY <1>2 DEF ReclassifyAsEvent
  <2> HIDE DEF t
  <2>3. ticket' \in Ticket
    BY <2>1, <2>2, TransitionMade
  <2> QED
    BY <1>2, <2>3, FieldsStand DEF ReclassifyAsEvent
<1>3. CASE perform_cancellation(u)
  <2>1. ticket' \in Ticket
    BY <1>0, <1>3 DEF perform_cancellation, Ticket, Statuses, TERMINAL_STATUSES
  <2> QED
    BY <1>3, <2>1, FieldsStand DEF perform_cancellation
<1>4. CASE reassess_emergency(u)
  <2>1. ticket' \in Ticket
    BY <1>0, <1>4 DEF reassess_emergency, Ticket
  <2> QED
    BY <1>4, <2>1, FieldsStand DEF reassess_emergency
<1>5. CASE Visit(u)
  BY <1>0, <1>5, FieldsStand DEF Visit
<1>6. CASE edit_log(u)
  BY <1>0, <1>6, FieldsStand DEF edit_log
<1> QED
  BY <1>1, <1>2, <1>3, <1>4, <1>5, <1>6

\* The steps of the slow request.
LEMMA SlowFile ==
    ASSUME FileInv,
           \/ \E u \in Users : submit_containment(u) \/ Load(u)
           \/ TakeSnapshot
           \/ FinishReview
           \/ FinishSubtask
           \/ RecordContainment
           \/ BankRevision
           \/ SaveNote
           \/ GiveUp
    PROVE  FileInv'
<1>0. FileTypeOK /\ ReadOK /\ ticket \in Ticket /\ content \in Contents
  BY DEF FileInv, FileTypeOK
<1>1. ASSUME NEW u \in Users, submit_containment(u)
      PROVE  FileInv'
  <2>1. /\ slow = Idle /\ UNCHANGED changes
        /\ Transition(u, ticket, "CONTAINMENT_REPORTED")
    BY <1>1 DEF submit_containment
  <2>2. PICK v \in Values :
          /\ Write([content EXCEPT !.report = v])
          /\ slow' = [kind |-> "submit_containment", before |-> content, after |-> content']
    BY <1>1 DEF submit_containment
  <2>3. ticket' \in Ticket
    BY <1>0, <2>1, TransitionMade
  <2>4. v \in FieldValues
    BY DEF FieldValues
  <2> QED
    BY <2>1, <2>2, <2>3, <2>4, ReportWritten
<1>2. ASSUME NEW u \in Users, Load(u)
      PROVE  FileInv'
  <2>0. slow.kind # "submit_containment" /\ UNCHANGED <<ticket, content, changes, held>>
    BY <1>2 DEF Load, Idle
  <2>1. CASE slow' = [kind |-> "t2_review", user |-> u, ticket |-> ticket,
                      content |-> content, stored |-> content, started |-> FALSE]
    <3>1. slow' \in SlowReview /\ slow'.stored = content
      BY <1>0, <2>1 DEF SlowReview
    <3> QED
      BY <1>0, <2>0, <3>1, FieldsStand
  <2>2. CASE slow' = [kind |-> "update_subtask", user |-> u, old |-> content.result,
                      rows |-> Len(changes["result"])]
    <3>1. content["result"] \in FieldValues /\ Len(changes["result"]) \in Nat
      BY <1>0 DEF FileTypeOK, Contents, Fields
    <3>2. slow' \in SlowUpdate /\ slow'.old = content["result"]
          /\ slow'.rows = Len(changes["result"])
      BY <2>2, <3>1 DEF SlowUpdate
    <3> QED
      BY <1>0, <2>0, <3>2, FieldsStand
  <2>3. CASE \E i \in DOMAIN log, note \in Notes :
               slow' = [kind |-> "edit_log", entry |-> i, loaded |-> log[i].note, note |-> note]
    <3>1. slow'.kind = "edit_log"
      BY <2>3
    <3> QED
      BY <1>0, <2>0, <3>1, FieldsStand
  <2> QED
    BY <1>2, <2>1, <2>2, <2>3 DEF Load
<1>3. CASE TakeSnapshot
  <2>1. slow \in SlowReview
    BY <1>0, <1>3 DEF TakeSnapshot, FileTypeOK
  <2>2. slow' = [slow EXCEPT !.stored = content, !.started = TRUE]
    BY <1>3 DEF TakeSnapshot
  <2>3. slow' \in SlowReview /\ slow'.stored = content
    BY <1>0, <2>1, <2>2 DEF SlowReview
  <2> QED
    BY <1>0, <1>3, <2>3, FieldsStand DEF TakeSnapshot
<1>4. CASE FinishReview
  <2>1. slow \in SlowReview /\ slow.kind = "t2_review" /\ slow.started /\ slow' = Idle
    BY <1>0, <1>4 DEF FinishReview, FileTypeOK
  <2>2. /\ slow.user \in Users /\ slow.ticket \in Ticket
        /\ slow.content \in Contents /\ slow.stored \in Contents
    BY <2>1 DEF SlowReview
  <2>3. complete_t2_review(slow.user, slow.ticket, slow.content, slow.stored)
    BY <1>4 DEF FinishReview
  <2>4. ticket' \in Ticket
    BY <1>0, <2>2, <2>3, ReviewCompared
  <2>5. PICK after \in Contents, before \in Contents :
                /\ Write(after) /\ record_changes(before, after)
                /\ before["result"] = content["result"]
                /\ after["result"] = content["result"]
                /\ \A f \in Fields \ {"result"} : before[f] = slow.stored[f]
    BY <1>0, <2>2, <2>3, ReviewCompared
  <2> QED
    BY <2>1, <2>4, <2>5, ReviewWritten
<1>5. CASE FinishSubtask
  <2>1. /\ slow.kind = "update_subtask" /\ slow' = Idle /\ UNCHANGED ticket
        /\ slow.rows = Len(changes["result"])
    BY <1>5 DEF FinishSubtask, save_subtask_update
  <2>2. slow.old = content["result"]
    BY <1>0, <2>1 DEF ReadOK
  <2>3. PICK v \in Values :
          /\ Write([content EXCEPT !.result = v])
          /\ record_changes([content EXCEPT !.result = slow.old], [content EXCEPT !.result = v])
    BY <1>5 DEF FinishSubtask, save_subtask_update
  <2>4. [content EXCEPT !.result = v] \in Contents
    BY <1>0, FieldWritten DEF FieldValues
  <2>5. [content EXCEPT !.result = slow.old] = content
    BY <1>0, <2>2, FieldWritten DEF FieldValues
  <2>6. record_changes(content, [content EXCEPT !.result = v])
    BY <2>3, <2>5
  <2> QED
    BY <1>0, <2>1, <2>3, <2>4, <2>6, FieldsWritten
<1>6. CASE RecordContainment
  BY <1>6, ReportRecorded
<1>7. CASE BankRevision
  <2>1. slow.kind = "edit_log" /\ slow' = [slow EXCEPT !.kind = "edit_log_banked"]
        /\ UNCHANGED <<ticket, content, changes, held>>
    BY <1>7 DEF BankRevision
  <2>2. slow'.kind \in {"none", "edit_log", "edit_log_banked"} \/ slow' = slow
    BY <2>1
  <2> QED
    BY <1>0, <2>1, <2>2, FieldsStand
<1>8. CASE SaveNote
  <2>1. slow'.kind = "none"
    BY <1>8 DEF SaveNote, Idle
  <2> QED
    BY <1>0, <1>8, <2>1, FieldsStand DEF SaveNote
<1>9. CASE GiveUp
  <2>1. slow'.kind = "none"
    BY <1>9 DEF GiveUp, Idle
  <2> QED
    BY <1>0, <1>9, <2>1, FieldsStand DEF GiveUp
<1> QED
  BY <1>1, <1>2, <1>3, <1>4, <1>5, <1>6, <1>7, <1>8, <1>9

LEMMA NextFile == FileInv /\ [Next]_vars => FileInv'
<1> SUFFICES ASSUME FileInv, [Next]_vars PROVE FileInv'
  OBVIOUS
<1>1. CASE UNCHANGED vars
  <2>1. ticket \in Ticket
    BY DEF FileInv, FileTypeOK
  <2> QED
    BY <1>1, <2>1, FieldsStand DEF vars
<1>2. ASSUME NEW u \in Users, Serve(u), UNCHANGED slow
      PROVE  FileInv'
  BY <1>2, WritesFile, MovesFile DEF Serve
<1>3. CASE Next
  <2>1. \/ \E u \in Users : Serve(u) /\ UNCHANGED slow
        \/ \E u \in Users : submit_containment(u) \/ Load(u)
        \/ TakeSnapshot
        \/ FinishReview
        \/ FinishSubtask
        \/ RecordContainment
        \/ BankRevision
        \/ SaveNote
        \/ GiveUp
    BY <1>3 DEF Next
  <2> QED
    BY <1>2, <2>1, SlowFile
<1> QED
  BY <1>1, <1>3

LEMMA FileInvariance == Spec => []FileInv
<1> QED
  BY InitFile, NextFile, PTL DEF Spec

\* Whatever a case ever said is still said or told of by a row: the forms, the containment
\* report and the result notes write in place (history.py record_changes).
THEOREM ValuesAreKept == Spec => []NoValueIsForgotten
<1>1. FileInv => NoValueIsForgotten
  BY DEF FileInv
<1> QED
  BY <1>1, FileInvariance, PTL


-----------------------------------------------------------------------------
(***************************************************************************)
(* The timeline of a case.  Every step either leaves it, adds a row, or    *)
(* rewrites the text of one row; and with it moves the case, or does not.  *)
(***************************************************************************)

Texts == Notes \cup {Written}

LogEntry ==
    [author : Users, status_at_time : Statuses, note : Texts, revisions : Seq(Texts)]

SlowEdit ==
    [kind : {"edit_log", "edit_log_banked"}, entry : Nat, loaded : Texts, note : Texts]

EditKinds == {"edit_log", "edit_log_banked"}

\* What an entry says was Written when it was added.
Original(e) == Written = IF e.revisions = <<>> THEN e.note ELSE e.revisions[1]

\* The slow rewrite has read the entry's text, and it is the original unless a revision
\* was banked meanwhile; once it has banked, there is one.
OriginalInv ==
    /\ log \in Seq(LogEntry)
    /\ slow.kind \in EditKinds => slow \in SlowEdit /\ slow.entry \in DOMAIN log
    /\ slow.kind = "edit_log" /\ log[slow.entry].revisions = <<>> => slow.loaded = Written
    /\ slow.kind = "edit_log_banked" => log[slow.entry].revisions # <<>>
    /\ \A i \in DOMAIN log : Original(log[i])

LEMMA RowEntered ==
    ASSUME log \in Seq(LogEntry), NEW u \in Users, NEW s \in Statuses, AddLog(u, s)
    PROVE  /\ log' \in Seq(LogEntry)
           /\ Len(log) \in Nat /\ DOMAIN log = 1 .. Len(log)
           /\ Len(log') = Len(log) + 1 /\ DOMAIN log' = 1 .. Len(log) + 1
           /\ \A i \in 1 .. Len(log) : log'[i] = log[i]
           /\ log'[Len(log) + 1].author = u
           /\ log'[Len(log) + 1].status_at_time = s
           /\ Original(log'[Len(log) + 1])
<1> DEFINE e == Entry(u, s)
<1>1. e \in LogEntry
  BY DEF Entry, LogEntry, Texts
<1>2. e.author = u /\ e.status_at_time = s /\ Original(e)
  BY DEF Entry, Original
<1>3. log' = Append(log, e)
  BY DEF AddLog
<1> HIDE DEF e
<1> QED
  BY <1>1, <1>2, <1>3

LEMMA RowRewritten ==
    ASSUME log \in Seq(LogEntry), NEW i \in DOMAIN log, NEW e \in LogEntry,
           log' = [log EXCEPT ![i] = e]
    PROVE  /\ log' \in Seq(LogEntry)
           /\ Len(log) \in Nat /\ DOMAIN log = 1 .. Len(log)
           /\ Len(log') = Len(log) /\ DOMAIN log' = DOMAIN log
           /\ log'[i] = e
           /\ \A j \in DOMAIN log : j # i => log'[j] = log[j]
  OBVIOUS

LEMMA OriginalStands ==
    ASSUME OriginalInv, UNCHANGED log,
           slow' = slow \/ slow'.kind \notin EditKinds
    PROVE  OriginalInv'
  BY DEF OriginalInv, EditKinds

LEMMA OriginalOfNewRow ==
    ASSUME OriginalInv, NEW u \in Users, NEW s \in Statuses, AddLog(u, s),
           slow' = slow \/ slow'.kind \notin EditKinds
    PROVE  OriginalInv'
<1>1. /\ log \in Seq(LogEntry)
      /\ \A i \in DOMAIN log : Original(log[i])
  BY DEF OriginalInv
<1>2. /\ log' \in Seq(LogEntry)
      /\ Len(log) \in Nat /\ DOMAIN log = 1 .. Len(log)
      /\ DOMAIN log' = 1 .. Len(log) + 1
      /\ \A i \in 1 .. Len(log) : log'[i] = log[i]
      /\ Original(log'[Len(log) + 1])
  BY <1>1, RowEntered
<1>3. \A i \in DOMAIN log' : Original(log'[i])
  BY <1>1, <1>2
<1>4. \A i \in DOMAIN log : i \in DOMAIN log' /\ log'[i] = log[i]
  BY <1>2
<1>5. CASE slow' = slow
  BY <1>2, <1>3, <1>4, <1>5 DEF OriginalInv, EditKinds
<1>6. CASE slow'.kind \notin EditKinds
  BY <1>2, <1>3, <1>6 DEF OriginalInv, EditKinds
<1> QED
  BY <1>5, <1>6

\* A rewrite leaves a revision behind it.
LEMMA OriginalOfRewrite ==
    ASSUME OriginalInv, NEW i \in DOMAIN log, NEW e \in LogEntry,
           log' = [log EXCEPT ![i] = e],
           Original(e), e.revisions # <<>>,
           \/ slow' = slow
           \/ slow'.kind \notin EditKinds
           \/ slow'.kind = "edit_log_banked" /\ slow' \in SlowEdit /\ slow'.entry = i
    PROVE  OriginalInv'
<1>1. /\ log' \in Seq(LogEntry) /\ DOMAIN log' = DOMAIN log
      /\ log'[i] = e
      /\ \A j \in DOMAIN log : j # i => log'[j] = log[j]
  BY RowRewritten DEF OriginalInv
<1>2. \A j \in DOMAIN log' : Original(log'[j])
  BY <1>1 DEF OriginalInv
<1>3. CASE slow' = slow
  <2>1. slow.kind \in EditKinds => slow \in SlowEdit /\ slow.entry \in DOMAIN log
    BY DEF OriginalInv
  <2>2. slow.kind = "edit_log" /\ log'[slow.entry].revisions = <<>> => slow.loaded = Written
    BY <1>1, <2>1 DEF OriginalInv, EditKinds
  <2>3. slow.kind = "edit_log_banked" => log'[slow.entry].revisions # <<>>
    BY <1>1, <2>1 DEF OriginalInv, EditKinds
  <2> QED
    BY <1>1, <1>2, <1>3, <2>1, <2>2, <2>3 DEF OriginalInv
<1>4. CASE slow'.kind \notin EditKinds
  BY <1>1, <1>2, <1>4 DEF OriginalInv, EditKinds
<1>5. CASE slow'.kind = "edit_log_banked" /\ slow' \in SlowEdit /\ slow'.entry = i
  BY <1>1, <1>2, <1>5 DEF OriginalInv, EditKinds
<1> QED
  BY <1>3, <1>4, <1>5

\* The three rewrites of a row.
LEMMA Banked ==
    ASSUME OriginalInv, BankRevision
    PROVE  \E e \in LogEntry :
             /\ log' = [log EXCEPT ![slow.entry] = e]
             /\ e.author = log[slow.entry].author
             /\ e.status_at_time = log[slow.entry].status_at_time
             /\ Original(e) /\ e.revisions # <<>>
<1>1. /\ slow.kind = "edit_log" /\ slow \in SlowEdit
      /\ slow.entry \in DOMAIN log /\ slow.loaded \in Texts
      /\ log \in Seq(LogEntry)
  BY DEF BankRevision, OriginalInv, EditKinds, SlowEdit
<1> DEFINE o == log[slow.entry]
           w == Append(o.revisions, slow.loaded)
           e == [o EXCEPT !.revisions = w]
<1>2. o \in LogEntry /\ o.revisions \in Seq(Texts) /\ Original(o)
  <2>1. o \in LogEntry
    BY <1>1
  <2>2. Original(o)
    BY <1>1 DEF OriginalInv
  <2> QED
    BY <2>1, <2>2 DEF LogEntry
<1>3. log' = [log EXCEPT ![slow.entry] = e]
  BY DEF BankRevision, edit_log_first_write, Bank
<1>4. o.revisions = <<>> => slow.loaded = Written
  BY <1>1 DEF OriginalInv
<1> HIDE DEF o
<1>5. w \in Seq(Texts) /\ w # <<>>
  BY <1>1, <1>2
<1>6. w[1] = IF o.revisions = <<>> THEN slow.loaded ELSE o.revisions[1]
  BY <1>1, <1>2
<1> HIDE DEF w
<1>7. e \in LogEntry /\ e.author = o.author /\ e.status_at_time = o.status_at_time
      /\ e.revisions = w
  BY <1>2, <1>5 DEF LogEntry
<1> HIDE DEF e
<1>8. Original(e)
  BY <1>2, <1>4, <1>5, <1>6, <1>7 DEF Original
<1> QED
  BY <1>3, <1>5, <1>7, <1>8 DEF o

LEMMA Saved ==
    ASSUME OriginalInv, SaveNote
    PROVE  \E e \in LogEntry :
             /\ slow.entry \in DOMAIN log
             /\ log' = [log EXCEPT ![slow.entry] = e]
             /\ e.author = log[slow.entry].author
             /\ e.status_at_time = log[slow.entry].status_at_time
             /\ Original(e) /\ e.revisions # <<>>
<1>1. /\ slow.kind = "edit_log_banked" /\ slow \in SlowEdit
      /\ slow.entry \in DOMAIN log /\ slow.note \in Texts
      /\ log \in Seq(LogEntry)
  BY DEF SaveNote, OriginalInv, EditKinds, SlowEdit
<1> DEFINE o == log[slow.entry]
           e == [o EXCEPT !.note = slow.note]
<1>2. o \in LogEntry /\ Original(o) /\ o.revisions # <<>>
  BY <1>1 DEF OriginalInv
<1>3. log' = [log EXCEPT ![slow.entry] = e]
  BY DEF SaveNote, Overwrite
<1> HIDE DEF o
<1>4. e \in LogEntry /\ e.author = o.author /\ e.status_at_time = o.status_at_time
      /\ e.revisions = o.revisions
  BY <1>1, <1>2 DEF LogEntry
<1> HIDE DEF e
<1>5. Original(e)
  BY <1>2, <1>4 DEF Original
<1> QED
  BY <1>1, <1>2, <1>3, <1>4, <1>5 DEF o

LEMMA Rewritten ==
    ASSUME OriginalInv, NEW u \in Users, edit_log(u)
    PROVE  \E i \in DOMAIN log, e \in LogEntry :
             /\ log' = [log EXCEPT ![i] = e]
             /\ e.author = log[i].author
             /\ e.status_at_time = log[i].status_at_time
             /\ Original(e) /\ e.revisions # <<>>
<1>1. PICK i \in DOMAIN log, note \in Notes :
        log' = [log EXCEPT ![i].note = note, ![i].revisions = Append(@, log[i].note)]
  BY DEF edit_log
<1>2. log \in Seq(LogEntry)
  BY DEF OriginalInv
<1> DEFINE o == log[i]
           w == Append(o.revisions, o.note)
           e == [o EXCEPT !.note = note, !.revisions = w]
<1>3. o \in LogEntry /\ o.revisions \in Seq(Texts) /\ o.note \in Texts /\ Original(o)
  <2>1. o \in LogEntry
    BY <1>2
  <2>2. Original(o)
    BY DEF OriginalInv
  <2> QED
    BY <2>1, <2>2 DEF LogEntry
<1>4. log' = [log EXCEPT ![i] = e]
  BY <1>1
<1> HIDE DEF o
<1>5. w \in Seq(Texts) /\ w # <<>>
  BY <1>3
<1>6. w[1] = IF o.revisions = <<>> THEN o.note ELSE o.revisions[1]
  BY <1>3
<1> HIDE DEF w
<1>7. note \in Texts
  BY DEF Texts
<1>8. e \in LogEntry /\ e.author = o.author /\ e.status_at_time = o.status_at_time
      /\ e.revisions = w
  BY <1>3, <1>5, <1>7 DEF LogEntry
<1> HIDE DEF e
<1>9. Original(e)
  BY <1>3, <1>5, <1>6, <1>8 DEF Original
<1> QED
  BY <1>4, <1>5, <1>8, <1>9 DEF o


\* A row is added to a case that stays where it is.
Noted(u) ==
    /\ AddLog(u, ticket.status)
    /\ ticket'.status = ticket.status
    /\ ticket'.approved_by = ticket.approved_by
    /\ UNCHANGED decided

\* The case moves: the row, or the copy a slow review holds, is stamped and written.
Moved(u, s) ==
    /\ AddLog(u, s)
    /\ Decides(u, s)
    /\ ticket'.status = s
    /\ \E a \in {ticket.approved_by}
                \cup (IF slow.kind = "t2_review" THEN {slow.ticket.approved_by} ELSE {}) :
         ticket'.approved_by = IF a = NoUser /\ s = "APPROVED" THEN u ELSE a

RewrittenAt(i, e) ==
    /\ log' = [log EXCEPT ![i] = e]
    /\ e.author = log[i].author
    /\ e.status_at_time = log[i].status_at_time
    /\ Original(e) /\ e.revisions # <<>>
    /\ UNCHANGED <<ticket, decided>>

\* No rewrite begins.
NoNewEdit == slow' = slow \/ slow'.kind \notin EditKinds

\* A review's copy is the one it had, or the row as it is.
CopyKept ==
    slow'.kind = "t2_review" =>
        \/ slow.kind = "t2_review" /\ slow'.ticket = slow.ticket
        \/ slow'.ticket = ticket /\ ticket.status = "ESCALATED_T2" /\ UNCHANGED <<ticket, decided>>

StepOfCase ==
    /\ CopyKept
    /\ \/ /\ UNCHANGED <<ticket, log, decided>>
          /\ \/ NoNewEdit
             \/ /\ slow' \in SlowEdit /\ slow'.kind = "edit_log"
                /\ slow'.entry \in DOMAIN log
                /\ slow'.loaded = log[slow'.entry].note
       \/ \E i \in DOMAIN log, e \in LogEntry :
            /\ RewrittenAt(i, e)
            /\ \/ NoNewEdit
               \/ slow'.kind = "edit_log_banked" /\ slow' \in SlowEdit /\ slow'.entry = i
       \/ \E u \in Users : Noted(u) /\ NoNewEdit
       \/ \E u \in Users, s \in Statuses : Moved(u, s) /\ NoNewEdit

LEMMA TransitionMoves ==
    ASSUME NEW u \in Users, NEW t \in Ticket, NEW s, Transition(u, t, s),
           \/ t.approved_by = ticket.approved_by
           \/ slow.kind = "t2_review" /\ t.approved_by = slow.ticket.approved_by
    PROVE  s \in Statuses /\ Moved(u, s)
  BY TransitionMade DEF Moved

LEMMA ReviewMoves ==
    ASSUME NEW u \in Users, NEW t \in Ticket, NEW c, NEW stored,
           complete_t2_review(u, t, c, stored),
           \/ t.approved_by = ticket.approved_by
           \/ slow.kind = "t2_review" /\ t.approved_by = slow.ticket.approved_by
    PROVE  \E s \in Statuses : Moved(u, s)
<1>1. PICK d \in T2Decisions(t) : Transition(u, d[1], d[2])
  BY DEF complete_t2_review
<1>2. d[1] \in Ticket /\ d[1].approved_by = t.approved_by
  BY <1>1, DecidedInstances
<1> QED
  BY <1>1, <1>2, TransitionMoves

LEMMA ServeStep ==
    ASSUME FileInv, OriginalInv, NEW u \in Users, Serve(u), UNCHANGED slow
    PROVE  StepOfCase
<1>0. ticket \in Ticket /\ ticket.status \in Statuses
  BY DEF FileInv, FileTypeOK, Ticket
<1>1. CopyKept /\ NoNewEdit
  BY DEF CopyKept, NoNewEdit
<1>2. CASE WorkflowAction(u)
  <2>1. PICK s \in Statuses : Transition(u, ticket, s)
    BY <1>2 DEF WorkflowAction
  <2>2. Moved(u, s)
    BY <1>0, <2>1, TransitionMoves
  <2> QED
    BY <1>1, <2>2 DEF StepOfCase
<1>3. CASE ReclassifyAsEvent(u)
  <2> DEFINE t == [ticket EXCEPT !.classification = "EVENT"]
  <2>1. t \in Ticket /\ t.approved_by = ticket.approved_by
    BY <1>0 DEF Ticket, Classifications
  <2>2. Transition(u, t, "CLOSED_EVENT")
    BY <1>3 DEF ReclassifyAsEvent
  <2> HIDE DEF t
  <2>3. "CLOSED_EVENT" \in Statuses /\ Moved(u, "CLOSED_EVENT")
    BY <2>1, <2>2, TransitionMoves
  <2> QED
    BY <1>1, <2>3 DEF StepOfCase
<1>4. CASE perform_cancellation(u)
  <2>1. /\ AddLog(u, "CANCELLED") /\ Decides(u, "CANCELLED")
        /\ ticket' = [ticket EXCEPT !.status = "CANCELLED", !.t2_claimed_by = NoUser]
    BY <1>4 DEF perform_cancellation
  <2>2. ticket'.status = "CANCELLED" /\ ticket'.approved_by = ticket.approved_by
    BY <1>0, <2>1 DEF Ticket
  <2>3. Moved(u, "CANCELLED")
    BY <2>1, <2>2 DEF Moved
  <2>4. "CANCELLED" \in Statuses
    BY DEF Statuses, TERMINAL_STATUSES
  <2> QED
    BY <1>1, <2>3, <2>4 DEF StepOfCase
<1>5. CASE save_ticket_edit(u)
  <2>1. Noted(u)
    BY <1>5 DEF save_ticket_edit, Noted
  <2> QED
    BY <1>1, <2>1 DEF StepOfCase
<1>6. CASE complete_t2_review(u, ticket, content, content)
  <2>1. \E s \in Statuses : Moved(u, s)
    BY <1>0, <1>6, ReviewMoves
  <2> QED
    BY <1>1, <2>1 DEF StepOfCase
<1>7. CASE record_remediation_check(u)
  <2>1. PICK s \in {"AWAITING_OWNER", "PENDING_MANAGER", "APPROVED"} : Transition(u, ticket, s)
    BY <1>7 DEF record_remediation_check
  <2>2. s \in Statuses /\ Moved(u, s)
    BY <1>0, <2>1, TransitionMoves
  <2> QED
    BY <1>1, <2>2 DEF StepOfCase
<1>8. CASE save_subtask_update(u, content.result, TRUE)
  <2>1. UNCHANGED <<ticket, log, decided>>
    BY <1>8 DEF save_subtask_update
  <2> QED
    BY <1>1, <2>1 DEF StepOfCase
<1>9. CASE reassess_emergency(u)
  <2>1. ticket'.status = ticket.status /\ ticket'.approved_by = ticket.approved_by
    BY <1>0, <1>9 DEF reassess_emergency, Ticket
  <2>2. Noted(u)
    BY <1>9, <2>1 DEF reassess_emergency, Noted
  <2> QED
    BY <1>1, <2>2 DEF StepOfCase
<1>10. CASE Visit(u)
  <2>1. UNCHANGED <<ticket, log, decided>>
    BY <1>10 DEF Visit
  <2> QED
    BY <1>1, <2>1 DEF StepOfCase
<1>11. CASE edit_log(u)
  <2>1. UNCHANGED <<ticket, decided>>
    BY <1>11 DEF edit_log
  <2>2. \E i \in DOMAIN log, e \in LogEntry : RewrittenAt(i, e)
    BY <1>11, <2>1, Rewritten DEF RewrittenAt
  <2> QED
    BY <1>1, <2>2 DEF StepOfCase
<1> QED
  BY <1>2, <1>3, <1>4, <1>5, <1>6, <1>7, <1>8, <1>9, <1>10, <1>11 DEF Serve

LEMMA SlowStep ==
    ASSUME FileInv, OriginalInv, Next, ~(\E u \in Users : Serve(u) /\ UNCHANGED slow)
    PROVE  StepOfCase
<1>0. FileTypeOK /\ ticket \in Ticket
  BY DEF FileInv, FileTypeOK
<1>1. ASSUME NEW u \in Users, submit_containment(u)
      PROVE  StepOfCase
  <2>1. slow'.kind = "submit_containment" /\ Transition(u, ticket, "CONTAINMENT_REPORTED")
    BY <1>1 DEF submit_containment
  <2>2. "CONTAINMENT_REPORTED" \in Statuses /\ Moved(u, "CONTAINMENT_REPORTED")
    BY <1>0, <2>1, TransitionMoves
  <2>3. CopyKept /\ NoNewEdit
    BY <2>1 DEF CopyKept, NoNewEdit, EditKinds
  <2> QED
    BY <2>2, <2>3 DEF StepOfCase
<1>2. ASSUME NEW u \in Users, Load(u)
      PROVE  StepOfCase
  <2>0. UNCHANGED <<ticket, log, decided>>
    BY <1>2 DEF Load
  <2>1. CASE /\ ticket.status = "ESCALATED_T2"
             /\ slow' = [kind |-> "t2_review", user |-> u, ticket |-> ticket,
                         content |-> content, stored |-> content, started |-> FALSE]
    <3>1. slow'.kind = "t2_review" /\ slow'.ticket = ticket
      BY <2>1
    <3>2. CopyKept /\ NoNewEdit
      BY <2>0, <2>1, <3>1 DEF CopyKept, NoNewEdit, EditKinds
    <3> QED
      BY <2>0, <3>2 DEF StepOfCase
  <2>2. CASE slow' = [kind |-> "update_subtask", user |-> u, old |-> content.result,
                      rows |-> Len(changes["result"])]
    <3>1. slow'.kind = "update_subtask"
      BY <2>2
    <3>2. CopyKept /\ NoNewEdit
      BY <3>1 DEF CopyKept, NoNewEdit, EditKinds
    <3> QED
      BY <2>0, <3>2 DEF StepOfCase
  <2>3. ASSUME NEW i \in DOMAIN log, NEW note \in Notes,
               slow' = [kind |-> "edit_log", entry |-> i, loaded |-> log[i].note, note |-> note]
        PROVE  StepOfCase
    <3>1. /\ slow'.kind = "edit_log" /\ slow'.entry = i /\ slow'.loaded = log[i].note
      BY <2>3
    <3>2. log[i].note \in Texts /\ i \in Nat
      <4>1. log \in Seq(LogEntry)
        BY DEF OriginalInv
      <4>2. log[i] \in LogEntry
        BY <4>1
      <4> QED
        BY <4>1, <4>2 DEF LogEntry
    <3>3. slow' \in SlowEdit
      BY <2>3, <3>2 DEF SlowEdit, Texts
    <3>4. CopyKept
      BY <3>1 DEF CopyKept
    <3> QED
      BY <2>0, <3>1, <3>3, <3>4 DEF StepOfCase
  <2> QED
    BY <1>2, <2>1, <2>2, <2>3 DEF Load
<1>3. CASE TakeSnapshot
  <2>1. slow \in SlowReview
    BY <1>0, <1>3 DEF TakeSnapshot, FileTypeOK
  <2>2. slow' = [slow EXCEPT !.stored = content, !.started = TRUE] /\ slow.kind = "t2_review"
        /\ UNCHANGED <<ticket, log, decided>>
    BY <1>3 DEF TakeSnapshot
  <2>3. slow'.kind = "t2_review" /\ slow'.ticket = slow.ticket
    BY <2>1, <2>2 DEF SlowReview
  <2>4. CopyKept /\ NoNewEdit
    BY <2>2, <2>3 DEF CopyKept, NoNewEdit, EditKinds
  <2> QED
    BY <2>2, <2>4 DEF StepOfCase
<1>4. CASE FinishReview
  <2>1. slow \in SlowReview /\ slow.kind = "t2_review" /\ slow' = Idle
    BY <1>0, <1>4 DEF FinishReview, FileTypeOK
  <2>2. slow.user \in Users /\ slow.ticket \in Ticket
    BY <2>1 DEF SlowReview
  <2>3. \E s \in Statuses : Moved(slow.user, s)
    BY <1>4, <2>1, <2>2, ReviewMoves DEF FinishReview
  <2>4. CopyKept /\ NoNewEdit
    BY <2>1 DEF CopyKept, NoNewEdit, EditKinds, Idle
  <2> QED
    BY <2>2, <2>3, <2>4 DEF StepOfCase
<1>5. CASE FinishSubtask \/ RecordContainment \/ GiveUp
  <2>1. slow' = Idle /\ UNCHANGED <<ticket, log, decided>>
    BY <1>5 DEF FinishSubtask, save_subtask_update, RecordContainment, GiveUp
  <2>2. CopyKept /\ NoNewEdit
    BY <2>1 DEF CopyKept, NoNewEdit, EditKinds, Idle
  <2> QED
    BY <2>1, <2>2 DEF StepOfCase
<1>6. CASE BankRevision
  <2>1. slow.kind = "edit_log" /\ slow' = [slow EXCEPT !.kind = "edit_log_banked"]
        /\ UNCHANGED <<ticket, decided>>
    BY <1>6 DEF BankRevision
  <2>2. slow \in SlowEdit /\ slow.entry \in DOMAIN log
    BY <2>1 DEF OriginalInv, EditKinds
  <2>3. slow'.kind = "edit_log_banked" /\ slow' \in SlowEdit /\ slow'.entry = slow.entry
    BY <2>1, <2>2 DEF SlowEdit
  <2>4. \E e \in LogEntry : RewrittenAt(slow.entry, e)
    BY <1>6, <2>1, Banked DEF RewrittenAt
  <2>5. CopyKept
    BY <2>3 DEF CopyKept
  <2> QED
    BY <2>2, <2>3, <2>4, <2>5 DEF StepOfCase
<1>7. CASE SaveNote
  <2>1. slow' = Idle /\ UNCHANGED <<ticket, decided>>
    BY <1>7 DEF SaveNote
  <2>2. \E e \in LogEntry : slow.entry \in DOMAIN log /\ RewrittenAt(slow.entry, e)
    BY <1>7, <2>1, Saved DEF RewrittenAt
  <2>3. CopyKept /\ NoNewEdit
    BY <2>1 DEF CopyKept, NoNewEdit, EditKinds, Idle
  <2> QED
    BY <2>2, <2>3 DEF StepOfCase
<1> QED
  BY <1>1, <1>2, <1>3, <1>4, <1>5, <1>6, <1>7 DEF Next

LEMMA CaseSteps == FileInv /\ OriginalInv /\ [Next]_vars => StepOfCase
<1> SUFFICES ASSUME FileInv, OriginalInv, [Next]_vars PROVE StepOfCase
  OBVIOUS
<1>1. CASE UNCHANGED vars
  BY <1>1 DEF vars, StepOfCase, CopyKept, NoNewEdit
<1>2. CASE Next
  BY <1>2, ServeStep, SlowStep
<1> QED
  BY <1>1, <1>2

LEMMA InitOriginal == Init => OriginalInv
<1> SUFFICES ASSUME Init PROVE OriginalInv
  OBVIOUS
<1> DEFINE e == Entry(Creator, ticket.status)
<1>1. ticket.status \in Statuses /\ Creator \in Users
  BY CaseFileAssumption, AccountsAssumption DEF Init, Ticket
<1>2. e \in LogEntry /\ Original(e)
  BY <1>1 DEF Entry, LogEntry, Texts, Original
<1>3. log = <<e>> /\ slow.kind = "none"
  BY DEF Init, Idle
<1> HIDE DEF e
<1>4. log \in Seq(LogEntry) /\ \A i \in DOMAIN log : log[i] = e
  BY <1>2, <1>3
<1> QED
  BY <1>2, <1>3, <1>4 DEF OriginalInv, EditKinds

LEMMA NextOriginal == FileInv /\ OriginalInv /\ [Next]_vars => OriginalInv'
<1> SUFFICES ASSUME FileInv, OriginalInv, StepOfCase PROVE OriginalInv'
  BY CaseSteps
<1>0. ticket.status \in Statuses
  BY DEF FileInv, FileTypeOK, Ticket
<1>1. CASE UNCHANGED log /\ NoNewEdit
  BY <1>1, OriginalStands DEF NoNewEdit
<1>2. CASE /\ UNCHANGED log
           /\ slow' \in SlowEdit /\ slow'.kind = "edit_log"
           /\ slow'.entry \in DOMAIN log
           /\ slow'.loaded = log[slow'.entry].note
  BY <1>2 DEF OriginalInv, EditKinds, Original
<1>3. ASSUME NEW i \in DOMAIN log, NEW e \in LogEntry, RewrittenAt(i, e),
             \/ NoNewEdit
             \/ slow'.kind = "edit_log_banked" /\ slow' \in SlowEdit /\ slow'.entry = i
      PROVE  OriginalInv'
  BY <1>3, OriginalOfRewrite DEF RewrittenAt, NoNewEdit
<1>4. ASSUME NEW u \in Users, Noted(u), NoNewEdit
      PROVE  OriginalInv'
  BY <1>0, <1>4, OriginalOfNewRow DEF Noted, NoNewEdit
<1>5. ASSUME NEW u \in Users, NEW s \in Statuses, Moved(u, s), NoNewEdit
      PROVE  OriginalInv'
  BY <1>5, OriginalOfNewRow DEF Moved, NoNewEdit
<1> QED
  BY <1>1, <1>2, <1>3, <1>4, <1>5 DEF StepOfCase

LEMMA OriginalInvariance == Spec => [](FileInv /\ OriginalInv)
<1> QED
  BY InitFile, NextFile, InitOriginal, NextOriginal, PTL DEF Spec

\* What an entry of the timeline said is never lost to its rewrites, in two tabs or by a
\* server that stops between the two saves (views/history.py edit_log).
THEOREM EntriesKeepTheirOriginal == Spec => []OriginalIsKept
<1>1. OriginalInv => OriginalIsKept
  BY DEF OriginalInv, OriginalIsKept, Original
<1> QED
  BY <1>1, OriginalInvariance, PTL


-----------------------------------------------------------------------------
(***************************************************************************)
(* Who closed the case.  Read from the timeline alone, so the invariant is *)
(* about its rows: the last one carries the status the case has; one that  *)
(* ended the case is followed by rows of that status only; and the rows of *)
(* an Event review begin with the one who asked for it.  All of it until a *)
(* slow review takes an ended case back.                                   *)
(***************************************************************************)

InReview(i) == log[i].status_at_time = "PENDING_MGR_EVENT_REVIEW"

Ended(i) == log[i].status_at_time \in TERMINAL_STATUSES

\* The review rows right before row k begin at row j.
ReviewRun(j, k) ==
    /\ j \in 1 .. k - 1
    /\ \A i \in j .. k - 1 : InReview(i)
    /\ j > 1 => ~InReview(j - 1)

\* Row k ended the case.
EndedAt(k) ==
    /\ \A i \in 1 .. k - 1 : ~Ended(i)
    /\ \A i \in k .. Len(log) : log[i].status_at_time = ticket.status
    /\ log[k].author = decided.closer
    /\ ticket.status = "CLOSED_EVENT" =>
         IF decided.direct THEN k > 1 => ~InReview(k - 1)
         ELSE \E j \in 1 .. Len(log) : ReviewRun(j, k) /\ log[j].author = decided.proposer

SignedInv ==
    /\ ticket.approved_by # NoUser =>
         ticket.status = "APPROVED" /\ ticket.approved_by = decided.closer
    /\ slow.kind = "t2_review" => slow.ticket.approved_by = NoUser

RowsInv ==
    /\ ticket.status \notin TERMINAL_STATUSES => \A i \in 1 .. Len(log) : ~Ended(i)
    /\ ticket.status = "PENDING_MGR_EVENT_REVIEW" =>
         \E j \in 1 .. Len(log) :
            ReviewRun(j, Len(log) + 1) /\ log[j].author = decided.proposer
    /\ ticket.status \in TERMINAL_STATUSES => \E k \in 1 .. Len(log) : EndedAt(k)

CreditInv ==
    /\ Len(log) > 0 /\ log[Len(log)].status_at_time = ticket.status
    /\ ~decided.reopened => SignedInv /\ RowsInv

\* The other rows do not matter to a run of review rows.
LEMMA RunStands ==
    ASSUME NEW n \in Nat, NEW j \in Nat, NEW k \in Nat, k <= n + 1,
           \A i \in 1 .. n : log'[i].status_at_time = log[i].status_at_time
    PROVE  ReviewRun(j, k) <=> ReviewRun(j, k)'
<1>1. ASSUME j \in 1 .. k - 1
      PROVE  /\ \A i \in j .. k - 1 : InReview(i) <=> InReview(i)'
             /\ j > 1 => (InReview(j - 1) <=> InReview(j - 1)')
  <2>1. \A i \in 1 .. n : InReview(i) <=> InReview(i)'
    BY DEF InReview
  <2> QED
    BY <1>1, <2>1
<1> QED
  BY <1>1 DEF ReviewRun

\* Only texts were rewritten, or nothing of the timeline.
LEMMA CreditStands ==
    ASSUME log \in Seq(LogEntry), CreditInv, UNCHANGED <<ticket, decided>>, CopyKept,
           Len(log') = Len(log),
           \A i \in 1 .. Len(log) :
                /\ log'[i].author = log[i].author
                /\ log'[i].status_at_time = log[i].status_at_time
    PROVE  CreditInv'
<1>0. PICK n \in Nat : n = Len(log)
  OBVIOUS
<1>1. n > 0 /\ Len(log) = n /\ Len(log') = n
  BY <1>0 DEF CreditInv
<1>2. \A i \in 1 .. n : /\ log'[i].author = log[i].author
                        /\ log'[i].status_at_time = log[i].status_at_time
  BY <1>0
<1>3. log'[n].status_at_time = ticket'.status
  BY <1>1, <1>2 DEF CreditInv
<1>4. ASSUME ~decided.reopened
      PROVE  SignedInv' /\ RowsInv'
  <2>0. SignedInv /\ RowsInv
    BY <1>4 DEF CreditInv
  <2>1. SignedInv'
    <3>1. slow'.kind = "t2_review" => slow'.ticket.approved_by = NoUser
      <4>1. ticket.status = "ESCALATED_T2" => ticket.approved_by = NoUser
        BY <2>0 DEF SignedInv
      <4> QED
        BY <2>0, <4>1 DEF SignedInv, CopyKept
    <3> QED
      BY <2>0, <3>1 DEF SignedInv
  <2>2. \A i \in 1 .. n : Ended(i) <=> Ended(i)'
    BY <1>2 DEF Ended
  <2>3. \A i \in 1 .. n : InReview(i) <=> InReview(i)'
    BY <1>2 DEF InReview
  <2>4. \A j \in 1 .. n, k \in 1 .. n + 1 : ReviewRun(j, k) <=> ReviewRun(j, k)'
    <3> SUFFICES ASSUME NEW j \in 1 .. n, NEW k \in 1 .. n + 1
                 PROVE  ReviewRun(j, k) <=> ReviewRun(j, k)'
      OBVIOUS
    <3>1. j \in Nat /\ k \in Nat /\ k <= n + 1
      OBVIOUS
    <3> QED
      BY <1>2, <3>1, RunStands
  <2>5. \A k \in 1 .. n : EndedAt(k) => EndedAt(k)'
    <3> SUFFICES ASSUME NEW k \in 1 .. n, EndedAt(k) PROVE EndedAt(k)'
      OBVIOUS
    <3>1. \A i \in 1 .. k - 1 : ~Ended(i)'
      BY <1>1, <2>2 DEF EndedAt
    <3>2. \A i \in k .. n : log'[i].status_at_time = ticket'.status
      BY <1>1, <1>2 DEF EndedAt
    <3>3. log'[k].author = decided'.closer
      BY <1>2 DEF EndedAt
    <3>4. k > 1 => (InReview(k - 1) <=> InReview(k - 1)')
      BY <1>1, <2>3
    <3>5. \A j \in 1 .. n :
            ReviewRun(j, k) /\ log[j].author = decided.proposer
              => ReviewRun(j, k)' /\ log'[j].author = decided'.proposer
      <4>1. k \in 1 .. n + 1 /\ decided' = decided
        OBVIOUS
      <4>2. \A j \in 1 .. n : ReviewRun(j, k) <=> ReviewRun(j, k)'
        BY <2>4, <4>1
      <4> QED
        BY <1>2, <4>1, <4>2
    <3> QED
      BY <1>1, <3>1, <3>2, <3>3, <3>4, <3>5 DEF EndedAt
  <2>6. RowsInv'
    <3>1. ticket'.status \notin TERMINAL_STATUSES => \A i \in 1 .. n : ~Ended(i)'
      BY <1>1, <2>0, <2>2 DEF RowsInv
    <3>2. ticket'.status = "PENDING_MGR_EVENT_REVIEW" =>
            \E j \in 1 .. n : ReviewRun(j, n + 1)' /\ log'[j].author = decided'.proposer
      <4>1. ASSUME ticket'.status = "PENDING_MGR_EVENT_REVIEW"
            PROVE  \E j \in 1 .. n : ReviewRun(j, n + 1)' /\ log'[j].author = decided'.proposer
        <5>1. PICK j \in 1 .. n : ReviewRun(j, n + 1) /\ log[j].author = decided.proposer
          BY <1>1, <2>0, <4>1 DEF RowsInv
        <5>2. ReviewRun(j, n + 1)'
          BY <2>4, <5>1
        <5> QED
          BY <1>2, <5>1, <5>2
      <4> QED
        BY <4>1
    <3>3. ticket'.status \in TERMINAL_STATUSES => \E k \in 1 .. n : EndedAt(k)'
      BY <1>1, <2>0, <2>5 DEF RowsInv
    <3> QED
      BY <1>1, <3>1, <3>2, <3>3 DEF RowsInv
  <2> QED
    BY <2>1, <2>6
<1> QED
  BY <1>1, <1>3, <1>4 DEF CreditInv


\* A row of the status the case has.
LEMMA CreditOfNote ==
    ASSUME log \in Seq(LogEntry), ticket.status \in Statuses, CreditInv, CopyKept,
           NEW u \in Users, Noted(u)
    PROVE  CreditInv'
<1>0. PICK n \in Nat : n = Len(log)
  OBVIOUS
<1>1. /\ n > 0 /\ Len(log) = n /\ Len(log') = n + 1
      /\ \A i \in 1 .. n : log'[i] = log[i]
      /\ log'[n + 1].status_at_time = ticket.status
  BY <1>0, RowEntered DEF Noted, CreditInv
<1>2. /\ ticket'.status = ticket.status /\ ticket'.approved_by = ticket.approved_by
      /\ decided' = decided
  BY DEF Noted
<1>3. log'[n + 1].status_at_time = ticket'.status
  BY <1>1, <1>2
<1>4. ASSUME ~decided.reopened
      PROVE  SignedInv' /\ RowsInv'
  <2>0. SignedInv /\ RowsInv
    BY <1>4 DEF CreditInv
  <2>1. SignedInv'
    <3>1. slow'.kind = "t2_review" => slow'.ticket.approved_by = NoUser
      <4>1. ticket.status = "ESCALATED_T2" => ticket.approved_by = NoUser
        BY <2>0 DEF SignedInv
      <4> QED
        BY <2>0, <4>1 DEF SignedInv, CopyKept
    <3> QED
      BY <1>2, <2>0, <3>1 DEF SignedInv
  <2>2. \A i \in 1 .. n : Ended(i) <=> Ended(i)'
    BY <1>1 DEF Ended
  <2>3. \A i \in 1 .. n : InReview(i) <=> InReview(i)'
    BY <1>1 DEF InReview
  <2>4. \A j \in 1 .. n, k \in 1 .. n + 1 : ReviewRun(j, k) <=> ReviewRun(j, k)'
    <3> SUFFICES ASSUME NEW j \in 1 .. n, NEW k \in 1 .. n + 1
                 PROVE  ReviewRun(j, k) <=> ReviewRun(j, k)'
      OBVIOUS
    <3>1. j \in Nat /\ k \in Nat /\ k <= n + 1
      OBVIOUS
    <3> QED
      BY <1>1, <3>1, RunStands
  <2>5. ASSUME NEW k \in 1 .. n, EndedAt(k)
        PROVE  EndedAt(k)'
    <3>1. \A i \in 1 .. k - 1 : ~Ended(i)'
      BY <1>1, <2>2, <2>5 DEF EndedAt
    <3>2. \A i \in k .. n + 1 : log'[i].status_at_time = ticket'.status
      <4>1. \A i \in k .. n : log'[i].status_at_time = ticket'.status
        BY <1>1, <1>2, <2>5 DEF EndedAt
      <4>2. \A i \in k .. n + 1 : i \in k .. n \/ i = n + 1
        OBVIOUS
      <4> QED
        BY <1>3, <4>1, <4>2
    <3>3. log'[k].author = decided'.closer
      BY <1>1, <1>2, <2>5 DEF EndedAt
    <3>4. k > 1 => (InReview(k - 1) <=> InReview(k - 1)')
      BY <1>1, <2>3
    <3>5. \A j \in 1 .. n :
            ReviewRun(j, k) /\ log[j].author = decided.proposer
              => ReviewRun(j, k)' /\ log'[j].author = decided'.proposer
      <4>1. k \in 1 .. n + 1
        OBVIOUS
      <4>2. \A j \in 1 .. n : ReviewRun(j, k) <=> ReviewRun(j, k)'
        BY <2>4, <4>1
      <4> QED
        BY <1>1, <1>2, <4>2
    <3>6. \A j \in 1 .. n : j \in 1 .. n + 1
      OBVIOUS
    <3> QED
      BY <1>1, <1>2, <2>5, <3>1, <3>2, <3>3, <3>4, <3>5, <3>6 DEF EndedAt
  <2>6. RowsInv'
    <3>1. ASSUME ticket'.status \notin TERMINAL_STATUSES
          PROVE  \A i \in 1 .. n + 1 : ~Ended(i)'
      <4>1. \A i \in 1 .. n : ~Ended(i)'
        BY <1>1, <1>2, <2>0, <2>2, <3>1 DEF RowsInv
      <4>2. ~Ended(n + 1)'
        BY <1>3, <3>1 DEF Ended
      <4>3. \A i \in 1 .. n + 1 : i \in 1 .. n \/ i = n + 1
        OBVIOUS
      <4> QED
        BY <4>1, <4>2, <4>3
    <3>2. ASSUME ticket'.status = "PENDING_MGR_EVENT_REVIEW"
          PROVE  \E j \in 1 .. n + 1 :
                    ReviewRun(j, n + 2)' /\ log'[j].author = decided'.proposer
      <4>1. PICK j \in 1 .. n : ReviewRun(j, n + 1) /\ log[j].author = decided.proposer
        BY <1>1, <1>2, <2>0, <3>2 DEF RowsInv
      <4>2. ReviewRun(j, n + 1)'
        BY <2>4, <4>1
      <4>3. InReview(n + 1)'
        BY <1>3, <3>2 DEF InReview
      <4>4. ReviewRun(j, n + 2)'
        BY <4>2, <4>3 DEF ReviewRun
      <4> QED
        BY <1>1, <1>2, <4>1, <4>4
    <3>3. ASSUME ticket'.status \in TERMINAL_STATUSES
          PROVE  \E k \in 1 .. n + 1 : EndedAt(k)'
      <4>1. PICK k \in 1 .. n : EndedAt(k)
        BY <1>1, <1>2, <2>0, <3>3 DEF RowsInv
      <4> QED
        BY <2>5, <4>1
    <3>4. (n + 1) + 1 = n + 2
      OBVIOUS
    <3> QED
      BY <1>1, <3>1, <3>2, <3>3, <3>4 DEF RowsInv
  <2> QED
    BY <2>1, <2>6
<1> QED
  BY <1>1, <1>2, <1>3, <1>4 DEF CreditInv

\* A move, with the row it ends in.
LEMMA CreditOfMove ==
    ASSUME log \in Seq(LogEntry), CreditInv, CopyKept,
           NEW u \in Users, NEW s \in Statuses, Moved(u, s)
    PROVE  CreditInv'
<1>0. PICK n \in Nat : n = Len(log)
  OBVIOUS
<1>1. /\ n > 0 /\ Len(log) = n /\ Len(log') = n + 1
      /\ \A i \in 1 .. n : log'[i] = log[i]
      /\ log'[n + 1].status_at_time = s
      /\ log'[n + 1].author = u
  BY <1>0, RowEntered DEF Moved, CreditInv
<1>2. ticket'.status = s /\ log[n].status_at_time = ticket.status
  BY <1>1 DEF Moved, CreditInv
<1>3. /\ decided'.proposer = IF s = "PENDING_MGR_EVENT_REVIEW" /\ ticket.status # s
                             THEN u ELSE decided.proposer
      /\ decided'.closer = IF s \in TERMINAL_STATUSES THEN u ELSE decided.closer
      /\ s = "CLOSED_EVENT" =>
           (decided'.direct <=> ticket.status # "PENDING_MGR_EVENT_REVIEW")
      /\ decided'.reopened <=> (decided.reopened \/ ticket.status \in TERMINAL_STATUSES)
  BY DEF Moved, Decides
<1>4. ASSUME ~decided'.reopened
      PROVE  SignedInv' /\ RowsInv'
  <2>0. SignedInv /\ RowsInv /\ ticket.status \notin TERMINAL_STATUSES
    BY <1>3, <1>4 DEF CreditInv
  <2>1. SignedInv'
    <3>1. ticket.approved_by = NoUser
      BY <2>0 DEF SignedInv, TERMINAL_STATUSES, RESOLVED_STATUSES
    <3>2. slow.kind = "t2_review" => slow.ticket.approved_by = NoUser
      BY <2>0 DEF SignedInv
    <3>3. ticket'.approved_by = IF s = "APPROVED" THEN u ELSE NoUser
      BY <3>1, <3>2 DEF Moved
    <3>4. ticket'.approved_by # NoUser =>
            ticket'.status = "APPROVED" /\ ticket'.approved_by = decided'.closer
      BY <1>2, <1>3, <3>3 DEF TERMINAL_STATUSES, RESOLVED_STATUSES
    <3>5. slow'.kind = "t2_review" => slow'.ticket.approved_by = NoUser
      BY <3>1, <3>2 DEF CopyKept
    <3> QED
      BY <3>4, <3>5 DEF SignedInv
  <2>2. \A i \in 1 .. n : ~Ended(i) /\ ~Ended(i)'
    BY <1>1, <2>0 DEF RowsInv, Ended
  <2>3. \A i \in 1 .. n : InReview(i) <=> InReview(i)'
    BY <1>1 DEF InReview
  <2>4. \A j \in 1 .. n : ReviewRun(j, n + 1) <=> ReviewRun(j, n + 1)'
    <3> SUFFICES ASSUME NEW j \in 1 .. n
                 PROVE  ReviewRun(j, n + 1) <=> ReviewRun(j, n + 1)'
      OBVIOUS
    <3>1. j \in Nat /\ n + 1 \in Nat /\ n + 1 <= n + 1
      OBVIOUS
    <3> QED
      BY <1>1, <3>1, RunStands
  <2>5. ticket.status = "PENDING_MGR_EVENT_REVIEW" =>
          \E j \in 1 .. n : ReviewRun(j, n + 1)' /\ log'[j].author = decided.proposer
    <3> SUFFICES ASSUME ticket.status = "PENDING_MGR_EVENT_REVIEW"
                 PROVE  \E j \in 1 .. n :
                          ReviewRun(j, n + 1)' /\ log'[j].author = decided.proposer
      OBVIOUS
    <3>1. PICK j \in 1 .. n : ReviewRun(j, n + 1) /\ log[j].author = decided.proposer
      BY <1>1, <2>0 DEF RowsInv
    <3> QED
      BY <1>1, <2>4, <3>1
  <2>6. ticket.status # "PENDING_MGR_EVENT_REVIEW" => ~InReview(n)'
    BY <1>1, <1>2, <2>3 DEF InReview
  <2>7. s \notin TERMINAL_STATUSES => \A i \in 1 .. n + 1 : ~Ended(i)'
    <3> SUFFICES ASSUME s \notin TERMINAL_STATUSES PROVE \A i \in 1 .. n + 1 : ~Ended(i)'
      OBVIOUS
    <3>1. ~Ended(n + 1)'
      BY <1>1 DEF Ended
    <3>2. \A i \in 1 .. n + 1 : i \in 1 .. n \/ i = n + 1
      OBVIOUS
    <3> QED
      BY <2>2, <3>1, <3>2
  <2>8. s = "PENDING_MGR_EVENT_REVIEW" =>
          \E j \in 1 .. n + 1 : ReviewRun(j, n + 2)' /\ log'[j].author = decided'.proposer
    <3> SUFFICES ASSUME s = "PENDING_MGR_EVENT_REVIEW"
                 PROVE  \E j \in 1 .. n + 1 :
                          ReviewRun(j, n + 2)' /\ log'[j].author = decided'.proposer
      OBVIOUS
    <3>1. InReview(n + 1)'
      BY <1>1 DEF InReview
    <3>2. CASE ticket.status = "PENDING_MGR_EVENT_REVIEW"
      <4>1. PICK j \in 1 .. n : ReviewRun(j, n + 1)' /\ log'[j].author = decided.proposer
        BY <2>5, <3>2
      <4>2. ReviewRun(j, n + 2)'
        BY <3>1, <4>1 DEF ReviewRun
      <4> QED
        BY <1>3, <3>2, <4>1, <4>2
    <3>3. CASE ticket.status # "PENDING_MGR_EVENT_REVIEW"
      <4>1. ~InReview(n)'
        BY <2>6, <3>3
      <4>2. ReviewRun(n + 1, n + 2)'
        <5>1. \A i \in n + 1 .. n + 2 - 1 : i = n + 1
          OBVIOUS
        <5>2. n + 1 \in 1 .. n + 2 - 1 /\ n + 1 - 1 = n
          OBVIOUS
        <5> QED
          BY <3>1, <4>1, <5>1, <5>2 DEF ReviewRun
      <4> QED
        BY <1>1, <1>3, <3>3, <4>2
    <3> QED
      BY <3>2, <3>3
  <2>9. s \in TERMINAL_STATUSES => EndedAt(n + 1)'
    <3> SUFFICES ASSUME s \in TERMINAL_STATUSES PROVE EndedAt(n + 1)'
      OBVIOUS
    <3>1. \A i \in 1 .. n + 1 - 1 : ~Ended(i)'
      BY <2>2
    <3>2. \A i \in n + 1 .. n + 1 : log'[i].status_at_time = ticket'.status
      BY <1>1, <1>2
    <3>3. log'[n + 1].author = decided'.closer
      BY <1>1, <1>3
    <3>4. ASSUME s = "CLOSED_EVENT"
          PROVE  IF decided'.direct THEN ~InReview(n)'
                 ELSE \E j \in 1 .. n + 1 :
                        ReviewRun(j, n + 1)' /\ log'[j].author = decided'.proposer
      <4>1. decided'.proposer = decided.proposer
        BY <1>3, <3>4
      <4>2. \A j \in 1 .. n : j \in 1 .. n + 1
        OBVIOUS
      <4> QED
        BY <1>3, <2>5, <2>6, <3>4, <4>1, <4>2
    <3>5. n + 1 - 1 = n
      OBVIOUS
    <3> QED
      BY <1>1, <1>2, <3>1, <3>2, <3>3, <3>4, <3>5 DEF EndedAt
  <2>10. RowsInv'
    <3>1. (n + 1) + 1 = n + 2 /\ n + 1 \in 1 .. n + 1
      OBVIOUS
    <3> QED
      BY <1>1, <1>2, <2>7, <2>8, <2>9, <3>1 DEF RowsInv
  <2> QED
    BY <2>1, <2>10
<1> QED
  BY <1>1, <1>2, <1>4 DEF CreditInv


LEMMA InitCredit == Init => CreditInv
<1> SUFFICES ASSUME Init PROVE CreditInv
  OBVIOUS
<1> DEFINE e == Entry(Creator, ticket.status)
<1>1. e.status_at_time = ticket.status
  BY DEF Entry
<1>2. log = <<e>>
  BY DEF Init
<1> HIDE DEF e
<1>3. Len(log) = 1 /\ log[1] = e
  BY <1>2
<1>4. /\ ticket.status \notin TERMINAL_STATUSES \cup {"PENDING_MGR_EVENT_REVIEW"}
      /\ ticket.approved_by = NoUser
  BY CaseFileAssumption DEF Init
<1>5. SignedInv
  BY <1>4 DEF SignedInv, Init, Idle
<1>6. \A i \in 1 .. Len(log) : ~Ended(i)
  BY <1>1, <1>3, <1>4 DEF Ended
<1> QED
  BY <1>1, <1>3, <1>4, <1>5, <1>6 DEF CreditInv, RowsInv

LEMMA NextCredit == FileInv /\ OriginalInv /\ CreditInv /\ [Next]_vars => CreditInv'
<1> SUFFICES ASSUME FileInv, OriginalInv, CreditInv, StepOfCase PROVE CreditInv'
  BY CaseSteps
<1>0. /\ log \in Seq(LogEntry) /\ ticket.status \in Statuses /\ CopyKept
      /\ DOMAIN log = 1 .. Len(log)
  BY DEF OriginalInv, FileInv, FileTypeOK, Ticket, StepOfCase
<1>1. CASE UNCHANGED <<ticket, log, decided>>
  BY <1>0, <1>1, CreditStands
<1>2. ASSUME NEW i \in DOMAIN log, NEW e \in LogEntry, RewrittenAt(i, e)
      PROVE  CreditInv'
  <2>1. /\ UNCHANGED <<ticket, decided>>
        /\ log' = [log EXCEPT ![i] = e]
        /\ e.author = log[i].author /\ e.status_at_time = log[i].status_at_time
    BY <1>2 DEF RewrittenAt
  <2>2. /\ Len(log') = Len(log) /\ log'[i] = e
        /\ \A j \in DOMAIN log : j # i => log'[j] = log[j]
    BY <1>0, <2>1, RowRewritten
  <2>3. \A j \in 1 .. Len(log) :
          /\ log'[j].author = log[j].author
          /\ log'[j].status_at_time = log[j].status_at_time
    BY <1>0, <2>1, <2>2
  <2> QED
    BY <1>0, <2>1, <2>2, <2>3, CreditStands
<1>3. ASSUME NEW u \in Users, Noted(u)
      PROVE  CreditInv'
  BY <1>0, <1>3, CreditOfNote
<1>4. ASSUME NEW u \in Users, NEW s \in Statuses, Moved(u, s)
      PROVE  CreditInv'
  BY <1>0, <1>4, CreditOfMove
<1> QED
  BY <1>1, <1>2, <1>3, <1>4 DEF StepOfCase

\* The first row that ended the case is the one CHOOSE finds, whatever ended it.
LEMMA FirstOf ==
    ASSUME NEW n \in Nat, NEW k \in 1 .. n, NEW S,
           log[k].status_at_time \in S, \A i \in 1 .. k - 1 : log[i].status_at_time \notin S
    PROVE  (CHOOSE i \in 1 .. n :
               /\ log[i].status_at_time \in S
               /\ \A j \in 1 .. i - 1 : log[j].status_at_time \notin S) = k
<1> DEFINE First(i) == /\ log[i].status_at_time \in S
                       /\ \A j \in 1 .. i - 1 : log[j].status_at_time \notin S
           c == CHOOSE i \in 1 .. n : First(i)
<1>1. First(k)
  OBVIOUS
<1>2. c \in 1 .. n /\ First(c)
  <2> HIDE DEF First
  <2> QED
    BY <1>1
<1>3. c = k
  <2>1. ~(c < k)
    <3> SUFFICES ASSUME c < k PROVE FALSE
      OBVIOUS
    <3>1. c \in 1 .. k - 1
      BY <1>2
    <3> QED
      BY <1>2, <3>1
  <2>2. ~(k < c)
    <3> SUFFICES ASSUME k < c PROVE FALSE
      OBVIOUS
    <3>1. k \in 1 .. c - 1
      BY <1>2
    <3> QED
      BY <1>1, <1>2, <3>1
  <2> QED
    BY <1>2, <2>1, <2>2
<1> QED
  BY <1>3

LEMMA CreditImplies == FileInv /\ OriginalInv /\ CreditInv => CloseIsCredited
<1> SUFFICES ASSUME OriginalInv, CreditInv, ~decided.reopened
             PROVE  /\ ticket.status = "CLOSED_EVENT" =>
                        get_closed_event_signoff(log) =
                          IF decided.direct
                          THEN [reviewer |-> decided.closer, approver |-> NoUser, direct |-> TRUE]
                          ELSE [reviewer |-> decided.proposer, approver |-> decided.closer,
                                direct |-> FALSE]
                    /\ ticket.status \in TERMINAL_STATUSES =>
                        closer_id(ticket, log) = decided.closer
  BY DEF CloseIsCredited
<1>0. PICK n \in Nat : n = Len(log) /\ DOMAIN log = 1 .. n
  BY DEF OriginalInv
<1>1. SignedInv /\ RowsInv
  BY DEF CreditInv
<1>2. ASSUME ticket.status = "CLOSED_EVENT"
      PROVE  get_closed_event_signoff(log) =
                IF decided.direct
                THEN [reviewer |-> decided.closer, approver |-> NoUser, direct |-> TRUE]
                ELSE [reviewer |-> decided.proposer, approver |-> decided.closer,
                      direct |-> FALSE]
  <2>1. ticket.status \in TERMINAL_STATUSES
    BY <1>2 DEF TERMINAL_STATUSES, RESOLVED_STATUSES
  <2>2. PICK k \in 1 .. n : EndedAt(k)
    BY <1>0, <1>1, <2>1 DEF RowsInv
  <2>3. /\ log[k].status_at_time = "CLOSED_EVENT"
        /\ \A i \in 1 .. k - 1 : log[i].status_at_time # "CLOSED_EVENT"
    BY <1>0, <1>2, <2>1, <2>2 DEF EndedAt, Ended
  <2> DEFINE close == CHOOSE i \in DOMAIN log :
                        /\ log[i].status_at_time = "CLOSED_EVENT"
                        /\ \A j \in 1 .. i - 1 : log[j].status_at_time # "CLOSED_EVENT"
             run(c) == {i \in 1 .. c - 1 :
                          \A j \in i .. c - 1 :
                            log[j].status_at_time = "PENDING_MGR_EVENT_REVIEW"}
             first(c) == CHOOSE i \in run(c) : \A j \in run(c) : i <= j
             credit(c) ==
               IF run(c) # {}
               THEN [reviewer |-> log[first(c)].author,
                     approver |-> log[c].author, direct |-> FALSE]
               ELSE [reviewer |-> log[c].author, approver |-> NoUser, direct |-> TRUE]
  <2>4. get_closed_event_signoff(log) = credit(close)
    BY DEF get_closed_event_signoff
  <2>5. close = k
    <3> DEFINE IsFirst(i) == /\ log[i].status_at_time = "CLOSED_EVENT"
                             /\ \A j \in 1 .. i - 1 : log[j].status_at_time # "CLOSED_EVENT"
    <3>1. close \in 1 .. n /\ IsFirst(close)
      <4>1. close = CHOOSE i \in 1 .. n : IsFirst(i)
        BY <1>0
      <4>2. IsFirst(k)
        BY <2>3
      <4> HIDE DEF close, IsFirst
      <4> QED
        BY <4>1, <4>2
    <3> HIDE DEF close
    <3>2. ~(close < k)
      <4> SUFFICES ASSUME close < k PROVE FALSE
        OBVIOUS
      <4>1. close \in 1 .. k - 1
        BY <3>1
      <4> QED
        BY <2>3, <3>1, <4>1
    <3>3. ~(k < close)
      <4> SUFFICES ASSUME k < close PROVE FALSE
        OBVIOUS
      <4>1. k \in 1 .. close - 1
        BY <3>1
      <4> QED
        BY <2>3, <3>1, <4>1
    <3> QED
      BY <3>1, <3>2, <3>3
  <2> HIDE DEF close
  <2>6. log[k].author = decided.closer
    BY <2>2 DEF EndedAt
  <2>7. CASE decided.direct
    <3>1. k > 1 => ~InReview(k - 1)
      BY <1>2, <2>2, <2>7 DEF EndedAt
    <3>2. run(k) = {}
      <4> SUFFICES ASSUME NEW i \in run(k) PROVE FALSE
        OBVIOUS
      <4>1. k > 1 /\ k - 1 \in i .. k - 1
        OBVIOUS
      <4> QED
        BY <3>1, <4>1 DEF InReview
    <3> HIDE DEF run, first
    <3> QED
      BY <2>4, <2>5, <2>6, <2>7, <3>2
  <2>8. CASE ~decided.direct
    <3>1. PICK j \in 1 .. n : ReviewRun(j, k) /\ log[j].author = decided.proposer
      BY <1>0, <1>2, <2>2, <2>8 DEF EndedAt
    <3>2. j \in run(k)
      BY <3>1 DEF ReviewRun, InReview
    <3>3. \A i \in run(k) : j <= i
      <4> SUFFICES ASSUME NEW i \in run(k), i < j PROVE FALSE
        OBVIOUS
      <4>1. j > 1 /\ j - 1 \in i .. k - 1
        BY <3>1, <3>2
      <4> QED
        BY <3>1, <4>1 DEF ReviewRun, InReview
    <3>4. run(k) \subseteq Nat
      OBVIOUS
    <3>5. first(k) = j
      <4> HIDE DEF run
      <4>1. first(k) \in run(k) /\ \A i \in run(k) : first(k) <= i
        BY <3>2, <3>3
      <4> HIDE DEF first
      <4> QED
        BY <3>2, <3>3, <3>4, <4>1
    <3> HIDE DEF run, first
    <3> QED
      BY <2>4, <2>5, <2>6, <2>8, <3>1, <3>2, <3>5
  <2> QED
    BY <2>7, <2>8
<1>3. ASSUME ticket.status \in TERMINAL_STATUSES
      PROVE  closer_id(ticket, log) = decided.closer
  <2>1. CASE ticket.approved_by # NoUser
    BY <1>1, <2>1 DEF closer_id, SignedInv
  <2>2. CASE ticket.approved_by = NoUser
    <3>1. PICK k \in 1 .. n : EndedAt(k)
      BY <1>0, <1>1, <1>3 DEF RowsInv
    <3>2. /\ log[k].status_at_time \in TERMINAL_STATUSES
          /\ \A i \in 1 .. k - 1 : log[i].status_at_time \notin TERMINAL_STATUSES
          /\ log[k].author = decided.closer
      BY <1>0, <1>3, <3>1 DEF EndedAt, Ended
    <3>3. (CHOOSE i \in 1 .. n :
             /\ log[i].status_at_time \in TERMINAL_STATUSES
             /\ \A j \in 1 .. i - 1 : log[j].status_at_time \notin TERMINAL_STATUSES) = k
      BY <3>2, FirstOf
    <3> QED
      BY <1>0, <2>2, <3>2, <3>3 DEF closer_id
  <2> QED
    BY <2>1, <2>2
<1> QED
  BY <1>2, <1>3

\* A finished case is credited to who ended it, and a closed Event to who proposed and who
\* confirmed it, whatever else was written into the timeline (selectors.py
\* get_closed_event_signoff, views/history.py _with_closer).
THEOREM TheCloserIsCredited == Spec => []CloseIsCredited
<1>1. FileInv /\ OriginalInv /\ CreditInv => CloseIsCredited
  BY CreditImplies
<1> QED
  BY <1>1, OriginalInvariance, InitCredit, NextCredit, PTL DEF Spec
=============================================================================
