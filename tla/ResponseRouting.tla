--------------------------- MODULE ResponseRouting ---------------------------
(***************************************************************************)
(* Whose work a response request is: the type of a TicketSubtask routes it *)
(* to a role and, for the Red Team, to a function.  Four places apply the  *)
(* routing, each in its own way: the choice of the assignee, the model's   *)
(* validation, the assignee's queue and what tickets they may see.         *)
(*                                                                         *)
(* An administrator edits accounts meanwhile.  Filing a request and        *)
(* updating one are two steps each, for both read the accounts before the  *)
(* transaction that writes; one such request is served at a time.  The     *)
(* requests belong to one ticket.                                          *)
(***************************************************************************)
EXTENDS Naturals, FiniteSets

CONSTANTS
    Accounts,    \* accounts that may be given requests
    Manager,     \* a SOC manager, none of them
    Requests,
    Unfiled,     \* the row of a request not filed yet
    NoPage,
    FirstProfiles,
    FirstRequests

VARIABLES
    profiles,   \* UserProfile and is_active of each account
    requests,   \* TicketSubtask
    stage,      \* how far the ticket is: "open", or its terminal status
    form,       \* create_response_request between the choice and the insert
    page        \* update_subtask or accept_subtask between validation and save

rvars == <<profiles, requests, stage, form, page>>

(***************************************************************************)
(* Routing                                                                 *)
(***************************************************************************)

NEW_RESPONSE_TYPES == {"VA", "HARDENING", "FORENSIC_RCA"} \* PENTEST is as VA

RETIRED_TYPES == {"INFRA_SEC"} \* VA_PT is as INFRA_SEC, but never converted

REDTEAM_FUNCTIONS == {"VA", "HARDENING"} \* each the type of its own name

response_routing(type) == IF type = "FORENSIC_RCA" THEN "FORENSIC" ELSE "REDTEAM_MANAGER"

Profiles ==
    {p \in [role : {"REDTEAM_MANAGER", "FORENSIC", "EXECUTIVE"},
            redteam_function : {""} \cup REDTEAM_FUNCTIONS, is_active : BOOLEAN] :
        p.redteam_function # "" => p.role = "REDTEAM_MANAGER"}

types_for_profile(p) ==
    CASE p.role = "FORENSIC" -> {"FORENSIC_RCA"}
      [] p.role = "REDTEAM_MANAGER" -> RETIRED_TYPES \cup ({p.redteam_function} \ {""})
      [] OTHER -> {}

\* Mutant: any active holder of the role, whatever their function.
eligible_assignees_by_role(type) ==
    {u \in Accounts : profiles[u].is_active /\ profiles[u].role = response_routing(type)}

eligible_assignees(type) ==
    {u \in Accounts :
        /\ profiles[u].is_active
        /\ profiles[u].role = response_routing(type)
        /\ type \in REDTEAM_FUNCTIONS => profiles[u].redteam_function = type}

\* TicketSubtask.clean.  The forms that run it have no field for its error, so
\* a row that fails it cannot be saved through them by anybody.
clean(row) ==
    /\ profiles[row.assigned_to].role = response_routing(row.subtask_type)
    /\ row.subtask_type \in REDTEAM_FUNCTIONS =>
         profiles[row.assigned_to].redteam_function = row.subtask_type

\* unique_redteam_manager_per_function
OnePerFunction(ps) ==
    \A u, v \in Accounts :
        /\ u # v
        /\ ps[u].role = "REDTEAM_MANAGER"
        /\ ps[v].role = "REDTEAM_MANAGER"
        /\ ps[u].redteam_function # ""
        => ps[u].redteam_function # ps[v].redteam_function

(***************************************************************************)
(* Rows                                                                    *)
(***************************************************************************)

Asked == {r \in Requests : requests[r] # Unfiled}

Outstanding(row) == row # Unfiled /\ row.status \in {"OPEN", "IN_PROGRESS"}

response_request_updates_frozen == stage \in {"APPROVED", "CANCELLED"}

Queue(u) ==
    {r \in Asked : /\ requests[r].assigned_to = u
                   /\ requests[r].subtask_type \in types_for_profile(profiles[u])}

MayOpen(u) == u # Manager => profiles[u].role = "FORENSIC" \/ Queue(u) # {}

can_change_subtask_status(r, u) ==
    ~response_request_updates_frozen /\ u \in {requests[r].assigned_to, Manager}

can_accept_subtask(r, u) ==
    /\ requests[r].status = "OPEN"
    /\ requests[r].assigned_to = u
    /\ ~response_request_updates_frozen

Types == NEW_RESPONSE_TYPES \cup RETIRED_TYPES

Rows ==
    [subtask_type : Types, status : {"OPEN", "IN_PROGRESS", "DONE", "CANCELLED"},
     assigned_to : Accounts]

Filing == [type : NEW_RESPONSE_TYPES, to : Accounts, current : BOOLEAN]

Update == [id : Requests, copy : Rows, fresh : BOOLEAN, current : BOOLEAN]

ASSUME RoutingAssumption ==
    /\ Manager \notin Accounts
    /\ Unfiled \notin Rows /\ NoPage \notin Filing \cup Update
    /\ \A ps \in FirstProfiles : ps \in [Accounts -> Profiles] /\ OnePerFunction(ps)
    /\ FirstRequests \subseteq [Requests -> Rows \cup {Unfiled}]

RoutingTypeOK ==
    /\ profiles \in [Accounts -> Profiles] /\ OnePerFunction(profiles)
    /\ requests \in [Requests -> Rows \cup {Unfiled}]
    /\ stage \in {"open", "CLOSED_EVENT", "APPROVED", "CANCELLED"}
    /\ form \in Filing \cup {NoPage}
    /\ page \in Update \cup {NoPage}

RoutingInit ==
    /\ profiles \in FirstProfiles
    /\ requests \in FirstRequests
    /\ stage = "open"
    /\ form = NoPage
    /\ page = NoPage

(***************************************************************************)
(* The administrator saves an account                                      *)
(***************************************************************************)

Designated(p) ==
    p.is_active /\ p.role = "REDTEAM_MANAGER" /\ p.redteam_function = "HARDENING"

\* The rows assign_open_hardening_requests gives to u.
HandedOver(u) ==
    {r \in Asked : /\ requests[r].subtask_type \in {"INFRA_SEC", "HARDENING"}
                   /\ Outstanding(requests[r])
                   /\ ~(requests[r].subtask_type = "HARDENING" /\ requests[r].assigned_to = u)}

assign_open_hardening_requests(u) ==
    [r \in Requests |->
        IF r \in HandedOver(u)
        THEN [requests[r] EXCEPT !.subtask_type = "HARDENING", !.assigned_to = u]
        ELSE requests[r]]

\* Mutant: the batch leaves updated_at as it was.
Restamped_by_none(u) == {}

\* updated_at is among the columns the batch saves.
Restamped(u) == HandedOver(u)

save_related(u, p) ==
    LET edited == p # profiles[u]
    IN  /\ profiles' = [profiles EXCEPT ![u] = p]
        /\ OnePerFunction(profiles')
        /\ requests' = IF Designated(p) THEN assign_open_hardening_requests(u) ELSE requests
        /\ form' = IF form # NoPage /\ form.to = u
                   THEN [form EXCEPT !.current = @ /\ ~edited]
                   ELSE form
        /\ page' = IF page = NoPage THEN page
                   ELSE [page EXCEPT !.fresh = @ /\ ~(Designated(p) /\ page.id \in Restamped(u)),
                                     !.current = @ /\ ~(edited /\ page.copy.assigned_to = u)]
        /\ UNCHANGED stage

(***************************************************************************)
(* The SOC manager files a request                                         *)
(***************************************************************************)

\* Whoever is the only one, or is chosen among several.
resolve_response_assignee ==
    /\ form = NoPage
    /\ page = NoPage
    /\ Asked # Requests
    /\ stage = "open"
    /\ \E type \in NEW_RESPONSE_TYPES : \E u \in eligible_assignees(type) :
         form' = [type |-> type, to |-> u, current |-> TRUE]
    /\ UNCHANGED <<profiles, requests, stage, page>>

\* TicketSubtask.save looks at the ticket again, for CANCELLED only.
create_response_request ==
    /\ form # NoPage
    /\ IF stage = "CANCELLED"
       THEN UNCHANGED requests
       ELSE \E r \in Requests \ Asked :
              requests' = [requests EXCEPT ![r] =
                  [subtask_type |-> form.type, status |-> "OPEN", assigned_to |-> form.to]]
    /\ form' = NoPage
    /\ UNCHANGED <<profiles, stage, page>>

(***************************************************************************)
(* A request is worked on                                                  *)
(***************************************************************************)

\* The checks of update_subtask and accept_subtask, and the form's validation.
\* DONE comes with a report number.
ValidateUpdate(u) ==
    /\ form = NoPage
    /\ page = NoPage
    /\ u # Manager => profiles[u].is_active
    /\ MayOpen(u)
    /\ \E r \in Asked, status \in {"OPEN", "IN_PROGRESS", "DONE"} :
         /\ \/ can_change_subtask_status(r, u)
            \/ can_accept_subtask(r, u) /\ status = "IN_PROGRESS"
         /\ clean(requests[r])
         /\ page' = [id |-> r, copy |-> [requests[r] EXCEPT !.status = status],
                     fresh |-> TRUE, current |-> TRUE]
    /\ UNCHANGED <<profiles, requests, stage, form>>

\* All columns of the copy are written, unless the row was saved meanwhile.
SaveUpdate ==
    /\ page # NoPage
    /\ requests' = IF page.fresh /\ stage # "CANCELLED"
                   THEN [requests EXCEPT ![page.id] = page.copy]
                   ELSE requests
    /\ page' = NoPage
    /\ UNCHANGED <<profiles, stage, form>>

(***************************************************************************)
(* The ticket ends                                                         *)
(***************************************************************************)

CloseTicket ==
    /\ stage = "open"
    /\ stage' \in {"CLOSED_EVENT", "APPROVED"}
    /\ stage' = "APPROVED" => \A r \in Requests : ~Outstanding(requests[r])
    /\ UNCHANGED <<profiles, requests, form, page>>

\* perform_cancellation takes the outstanding requests with the ticket.
CancelTicket ==
    /\ stage = "open"
    /\ stage' = "CANCELLED"
    /\ requests' = [r \in Requests |->
           IF Outstanding(requests[r]) THEN [requests[r] EXCEPT !.status = "CANCELLED"]
           ELSE requests[r]]
    /\ UNCHANGED <<profiles, form, page>>

RoutingNext ==
    \/ \E u \in Accounts, p \in Profiles : save_related(u, p)
    \/ resolve_response_assignee
    \/ create_response_request
    \/ \E u \in Accounts \cup {Manager} : ValidateUpdate(u)
    \/ SaveUpdate
    \/ CloseTicket
    \/ CancelTicket

Routing == RoutingInit /\ [][RoutingNext]_rvars

(***************************************************************************)
(* Properties                                                              *)
(***************************************************************************)

\* Somebody can finish the request; its assignee, if they can sign in at all,
\* has it in their queue and may open its ticket.
Reaches(r) ==
    LET u == requests[r].assigned_to
    IN clean(requests[r]) /\ (profiles[u].is_active => r \in Queue(u) /\ MayOpen(u))

Stuck(r) ==
    Outstanding(requests[r]) /\ ~response_request_updates_frozen /\ ~Reaches(r)

\* The account of r's assignee is edited by the step, or was while the request
\* that ends with the step was being served.
AccountEdited(r) ==
    LET u == requests'[r].assigned_to
    IN \/ profiles'[u] # profiles[u]
       \/ form # NoPage /\ form' = NoPage /\ ~form.current
       \/ page # NoPage /\ page' = NoPage /\ ~page.current

\* redteam_assignment.py: "an in-progress request is never stranded without an
\* eligible assignee".  The one way to strand a request is to edit the account
\* of its assignee: filing, accepting, reopening, and the designation of a
\* Hardening manager, with an update under way or not, strand none.  Nor does
\* anything take a Hardening request from a manager who stays designated.
RequestsReachTheirTeam ==
    [][<<profiles, requests>>' # <<profiles, requests>> => \A r \in Requests :
         /\ Stuck(r)' => Stuck(r) \/ AccountEdited(r)
         /\ LET u == requests[r].assigned_to
            IN  /\ Outstanding(requests[r]) /\ Outstanding(requests'[r])
                /\ requests[r].subtask_type = "HARDENING"
                /\ Designated(profiles[u]) /\ Designated(profiles'[u])
                => /\ requests'[r].assigned_to = u
                   /\ requests'[r].subtask_type = "HARDENING"]_rvars
==============================================================================
