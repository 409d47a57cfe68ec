----------------------------- MODULE IocDatabase -----------------------------
(***************************************************************************)
(* The IOC database of ti_platform.py: the indicators analysts put on      *)
(* their tickets, the ones a forensic analyst enters by hand, and the      *)
(* annotation (checked, note) of each, on one page that lists them all.    *)
(*                                                                         *)
(* A manual entry is added or renamed after looking whether the indicator  *)
(* is there already; nothing but that look keeps entries apart, for        *)
(* AnalystIOC has no unique constraint.  An add and a rename are therefore *)
(* two steps, between which other requests commit.  An indicator is its    *)
(* (category, value); what an analyst types is a spelling of one, defanged *)
(* or in capitals, or is malformed.                                        *)
(***************************************************************************)
EXTENDS Naturals, Sequences, FiniteSets

CONSTANTS
    IocTickets,
    Indicators,
    Spellings,
    Malformed,
    Spells,        \* [Spellings -> Indicators \cup {Malformed}]: what each normalizes to
    Edits,
    NoEdit,
    MaxEntries,    \* bound: manual entries ever made
    NoteTexts      \* texts of a note, "" among them

ASSUME IocAssumption ==
    /\ Spells \in [Spellings -> Indicators \cup {Malformed}]
    /\ "" \in NoteTexts
    /\ MaxEntries \in Nat

VARIABLES
    iocs,     \* TicketIOC: the indicators of each ticket
    entries,  \* AnalystIOC, by primary key
    review,   \* IOCReviewStatus, by indicator
    request,  \* adds and renames between their look and their write; `listed', of
              \* the history only, whether the indicator was on the page at the look
    raced     \* of the history only: indicators two requests entered at once

ioc_vars == <<iocs, entries, review, request, raced>>

\* An add or a rename of `ioc', of the entry pk if that is not 0.
Edit == [ioc : Indicators, note : NoteTexts, locks : BOOLEAN, listed : BOOLEAN, pk : Nat]

ASSUME NoEditIsNone == NoEdit \notin Edit

NoReview == [checked |-> FALSE, note |-> "", stored |-> FALSE]

IocTypeOK ==
    /\ iocs \in [IocTickets -> SUBSET Indicators]
    /\ entries \in Seq([ioc : Indicators, is_active : BOOLEAN])
    /\ review \in [Indicators -> [checked : BOOLEAN, note : NoteTexts, stored : BOOLEAN]]
    /\ request \in [Edits -> Edit \cup {NoEdit}]
    /\ raced \subseteq Indicators

(***************************************************************************)
(* What the database holds                                                 *)
(***************************************************************************)

normalize_for_category(spelling) == Spells[spelling]

OnATicket(i) == \E t \in IocTickets : i \in iocs[t]

Active(i) == {pk \in DOMAIN entries : entries[pk].is_active /\ entries[pk].ioc = i}

\* Mutant: the look skips the manual entries.
is_duplicate_on_tickets_only(i, exclude_pk) == OnATicket(i)

is_duplicate(i, exclude_pk) == Active(i) \ {exclude_pk} # {} \/ OnATicket(i)

(***************************************************************************)
(* The page: two halves meant to be disjoint                               *)
(***************************************************************************)

ticket_half == {[ioc |-> i, pk |-> 0] : i \in UNION {iocs[t] : t \in IocTickets}}

manual_half ==
    {[ioc |-> entries[pk].ioc, pk |-> pk] :
        pk \in {k \in DOMAIN entries : entries[k].is_active /\ ~OnATicket(entries[k].ioc)}}

ioc_database_queryset == ticket_half \cup manual_half

Listed(i) == OnATicket(i) \/ Active(i) # {}

(***************************************************************************)
(* The tickets' side: save_iocs replaces a ticket's rows                   *)
(***************************************************************************)

save_iocs(t) ==
    /\ \E typed \in SUBSET Spellings :
        /\ \A s \in typed : normalize_for_category(s) # Malformed
        /\ iocs' = [iocs EXCEPT ![t] = {normalize_for_category(s) : s \in typed}]
    /\ UNCHANGED <<entries, review, request, raced>>

(***************************************************************************)
(* Annotations                                                             *)
(***************************************************************************)

set_review_status(i, checked) ==
    /\ review' = [review EXCEPT ![i].checked = checked, ![i].stored = TRUE]
    /\ UNCHANGED <<iocs, entries, request, raced>>

set_note(i, note) ==
    /\ review' = [review EXCEPT ![i].note = note, ![i].stored = TRUE]
    /\ UNCHANGED <<iocs, entries, request, raced>>

\* Mutant: the annotation leaves although a ticket still has the indicator.
move_annotation_from_tickets(old, new) ==
    IF ~review[old].stored THEN review
    ELSE IF review[new].stored THEN [review EXCEPT ![old] = NoReview]
    ELSE [review EXCEPT ![old] = NoReview, ![new] = review[old]]

\* Carried along when a manual entry gets another value, unless a ticket has the
\* old one still; the destination's own annotation stays.
move_annotation(old, new) ==
    IF OnATicket(old) \/ ~review[old].stored THEN review
    ELSE IF review[new].stored THEN [review EXCEPT ![old] = NoReview]
    ELSE [review EXCEPT ![old] = NoReview, ![new] = review[old]]

(***************************************************************************)
(* Manual entries                                                          *)
(***************************************************************************)

EntryLocked(pk) == \E r \in Edits : request[r] # NoEdit /\ request[r].pk = pk /\ request[r].locks

\* Somebody has entered i since r's look.
Overtaken(r, i) == Listed(i) /\ ~(i = request[r].ioc /\ request[r].listed)

\* create_manual_iocs looks: the removed entry it will bring back, or 0.
LookBeforeAdd(r) ==
    /\ request[r] = NoEdit
    /\ \E s \in Spellings, note \in NoteTexts :
        LET i == normalize_for_category(s)
            removed == {pk \in DOMAIN entries : entries[pk].ioc = i /\ ~entries[pk].is_active}
        IN /\ i # Malformed
           /\ ~is_duplicate(i, 0)
           /\ request' = [request EXCEPT ![r] =
                  [ioc |-> i, note |-> note, locks |-> FALSE, listed |-> Listed(i),
                   pk |-> IF removed = {} THEN 0
                          ELSE CHOOSE pk \in removed : \A k \in removed : k <= pk]]
    /\ UNCHANGED <<iocs, entries, review, raced>>

\* It restores that entry, whatever it has been renamed to since, or makes one,
\* and notes what was typed beside it.
Add(r) ==
    LET q == request[r] IN
    /\ q # NoEdit
    /\ ~q.locks
    /\ IF q.pk # 0
       THEN ~EntryLocked(q.pk) /\ entries' = [entries EXCEPT ![q.pk].is_active = TRUE]
       ELSE /\ Len(entries) < MaxEntries
            /\ entries' = Append(entries, [ioc |-> q.ioc, is_active |-> TRUE])
    /\ review' = IF q.note = "" THEN review
                 ELSE [review EXCEPT ![q.ioc].note = q.note, ![q.ioc].stored = TRUE]
    /\ raced' = raced \cup {i \in {q.ioc, (entries'[IF q.pk # 0 THEN q.pk ELSE Len(entries')]).ioc} :
                              Overtaken(r, i)}
    /\ request' = [request EXCEPT ![r] = NoEdit]
    /\ UNCHANGED iocs

\* update_manual_ioc locks the entry and looks for the new value elsewhere.
LookBeforeRename(r) ==
    /\ request[r] = NoEdit
    /\ \E pk \in DOMAIN entries, s \in Spellings :
        LET i == normalize_for_category(s) IN
        /\ entries[pk].is_active
        /\ ~EntryLocked(pk)
        /\ i # Malformed
        /\ i # entries[pk].ioc
        /\ ~is_duplicate(i, pk)
        /\ request' = [request EXCEPT ![r] =
               [ioc |-> i, note |-> "", locks |-> TRUE, listed |-> Listed(i), pk |-> pk]]
    /\ UNCHANGED <<iocs, entries, review, raced>>

Rename(r) ==
    LET q == request[r] IN
    /\ q # NoEdit
    /\ q.locks
    /\ entries' = [entries EXCEPT ![q.pk].ioc = q.ioc]
    /\ review' = move_annotation(entries[q.pk].ioc, q.ioc)
    /\ raced' = IF Overtaken(r, q.ioc) THEN raced \cup {q.ioc} ELSE raced
    /\ request' = [request EXCEPT ![r] = NoEdit]
    /\ UNCHANGED iocs

remove_analyst_ioc(pk) ==
    /\ entries[pk].is_active
    /\ ~EntryLocked(pk)
    /\ entries' = [entries EXCEPT ![pk].is_active = FALSE]
    /\ UNCHANGED <<iocs, review, request, raced>>

(***************************************************************************)
(* The specification                                                       *)
(***************************************************************************)

IocInit ==
    /\ iocs = [t \in IocTickets |-> {}]
    /\ entries = <<>>
    /\ review = [i \in Indicators |-> NoReview]
    /\ request = [r \in Edits |-> NoEdit]
    /\ raced = {}

IocNext ==
    \/ \E t \in IocTickets : save_iocs(t)
    \/ \E i \in Indicators, checked \in BOOLEAN : set_review_status(i, checked)
    \/ \E i \in Indicators, note \in NoteTexts : set_note(i, note)
    \/ \E r \in Edits : LookBeforeAdd(r) \/ Add(r) \/ LookBeforeRename(r) \/ Rename(r)
    \/ \E pk \in DOMAIN entries : remove_analyst_ioc(pk)

IocSpec == IocInit /\ [][IocNext]_ioc_vars

(***************************************************************************)
(* Properties                                                              *)
(***************************************************************************)

\* The page lists every indicator once, whichever tickets and manual entries
\* have it, through every sequence of removals, restorations and renames: but
\* for an indicator two requests entered at the same moment.
ListedOnce ==
    \A i \in Indicators \ raced :
        Cardinality({row \in ioc_database_queryset : row.ioc = i}) = IF Listed(i) THEN 1 ELSE 0

\* What the forensic analyst wrote about a listed indicator changes only when
\* they write again.  If a rename takes it away, the old indicator is listed no
\* more and the new one is annotated.
AnnotationsFollow ==
    [][\A i \in Indicators \ raced :
        /\ review[i].stored
        /\ Listed(i)
        /\ review'[i] # review[i]
        => \/ \E note \in NoteTexts : set_note(i, note)
           \/ \E checked \in BOOLEAN : set_review_status(i, checked)
           \/ i \in raced'
           \/ ~Listed(i)' /\ \E j \in Indicators \ {i} : Listed(j)' /\ review'[j].stored]_ioc_vars
=============================================================================
