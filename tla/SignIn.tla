------------------------------- MODULE SignIn -------------------------------
(***************************************************************************)
(* One account of src/apps/accounts and the browser sessions that sign in  *)
(* to it: password, authenticator, recovery codes, operator reset, and the *)
(* saves that change the password.                                         *)
(*                                                                         *)
(* A request passes the middleware with the rows it loaded and acts later, *)
(* under the user's and the device's row lock; the requests of different   *)
(* sessions interleave between the two steps.  A TOTP secret is its        *)
(* setup_id, a token the secret and its 30-second step, a generation of    *)
(* recovery codes a number and Slots.  MFA_ENABLED is on.                  *)
(***************************************************************************)
EXTENDS Integers, FiniteSets, Sequences

CONSTANTS Sessions,        \* browser sessions, each with one page open
          Editors,         \* administrators' saves of the account, one at a time each
          Slots,           \* recovery codes of a generation (10 in the code)
          MAX_IDS,         \* bound: devices, setups and generations made
          MAX_CLOCK,       \* bound: 30-second steps that pass
          MAX_PASSWORDS    \* bound: passwords ever chosen

ASSUME Bounds ==
  MAX_IDS \in Nat /\ MAX_CLOCK \in Nat /\ MAX_PASSWORDS \in Nat \ {0}

VARIABLES device,     \* AuthenticatorDevice of the account, or NoDevice
          session,    \* session[s]: the session's store and the page it has open
          request,    \* request[s]: the request being handled, with the rows loaded
          clock,      \* now, in steps of a token
          serial,     \* ids handed out
          used,       \* the tokens and codes verify has accepted, oldest first
          shown,      \* generations of codes a page has displayed
          password,   \* [now, chosen, recorded]: the password stored, how many
                      \* were ever chosen, and the PasswordChangeAudit rows
          edit        \* edit[e]: the save of the account that e has under way

vars == <<device, session, request, clock, serial, used, shown, password, edit>>

NoDevice == [pk |-> 0, setup |-> 0, confirmed |-> FALSE, last |-> -1,
             acked |-> FALSE, gen |-> 0, codes |-> {}, throttled |-> FALSE]

(* The keys the flow keeps in a session (0: absent): hash is the password   *)
(* of the session's auth hash, fresh says PASSWORD_AT is under 10 minutes,  *)
(* otp is the verified device, page the codes on screen.  proved is the     *)
(* model's own: the secret the session has shown to possess since login.    *)
Anonymous == [hash |-> 0, fresh |-> FALSE, setup |-> 0, bundle |-> 0,
              otp |-> 0, page |-> 0, proved |-> 0]

(* Only the page of the codes uses the device its request loaded.           *)
Idle == [view |-> "none", device |-> NoDevice]
(* met is the model's own: the password in force when the save compared.    *)
NoEdit == [step |-> "none", copy |-> 0, differs |-> FALSE, met |-> 0]

Init == /\ device = NoDevice
        /\ session = [s \in Sessions |-> Anonymous]
        /\ request = [s \in Sessions |-> Idle]
        /\ clock = 0 /\ serial = 0
        /\ used = << >> /\ shown = {}
        /\ password = [now |-> 1, chosen |-> 1, recorded |-> 1]
        /\ edit = [e \in Editors |-> NoEdit]

Totp(secret, step) == [kind |-> "totp", of |-> secret, n |-> step]
Code(gen, slot) == [kind |-> "code", of |-> gen, n |-> slot]

-----------------------------------------------------------------------------
(* The middleware. *)

Authenticated(s) == session[s].hash = password.now

is_verified(s, d) == d.pk # 0 /\ session[s].otp = d.pk /\ d.confirmed

mfa_complete(s, d) == is_verified(s, d) /\ d.acked

(* Views by the screen they belong to: the flow's own, and every other.     *)
FLOW_VIEWS == {"start", "enroll", "verify", "codes", "acknowledge", "replace"}
CodesPage == {"codes", "acknowledge", "replace"}

Admitted(s, view) ==
  \/ mfa_complete(s, device)
  \/ is_verified(s, device) /\ view \in CodesPage
  \/ ~is_verified(s, device) /\ session[s].fresh /\ view \in FLOW_VIEWS

(* The acknowledgement is a button of the page that displays the codes.     *)
Offered(s, view) == view = "acknowledge" => session[s].page # 0

process_view(s, view) ==
  /\ request[s] = Idle /\ Authenticated(s)
  /\ Admitted(s, view) /\ Offered(s, view)
  /\ request' = [request EXCEPT ![s] =
       [view |-> view, device |-> IF view \in CodesPage THEN device ELSE NoDevice]]
  /\ session' = [session EXCEPT
       ![s].bundle = IF mfa_complete(s, device) THEN 0 ELSE @]
  /\ UNCHANGED <<device, clock, serial, used, shown, password, edit>>

(* Neither verified nor within the flow's ten minutes: logged out.          *)
SignedOut(s) ==
  /\ request[s] = Idle /\ Authenticated(s)
  /\ ~is_verified(s, device) /\ ~session[s].fresh
  /\ session' = [session EXCEPT ![s] = Anonymous]
  /\ UNCHANGED <<device, request, clock, serial, used, shown, password, edit>>

-----------------------------------------------------------------------------
(* Signing in with the password; time passing.                              *)

Login(s) ==
  /\ request[s] = Idle
  /\ session' = [session EXCEPT ![s] =
       [Anonymous EXCEPT !.hash = password.now, !.fresh = TRUE]]
  /\ UNCHANGED <<device, request, clock, serial, used, shown, password, edit>>

PasswordAges(s) ==
  /\ session[s].fresh
  /\ session' = [session EXCEPT ![s].fresh = FALSE]
  /\ UNCHANGED <<device, request, clock, serial, used, shown, password, edit>>

BundleAges(s) ==
  /\ session[s].bundle # 0
  /\ session' = [session EXCEPT ![s].bundle = 0]
  /\ UNCHANGED <<device, request, clock, serial, used, shown, password, edit>>

Tick ==
  /\ clock < MAX_CLOCK
  /\ clock' = clock + 1
  /\ device' = [device EXCEPT !.throttled = FALSE]
  /\ UNCHANGED <<session, request, serial, used, shown, password, edit>>

-----------------------------------------------------------------------------
(* Enrolment and verification, under the row locks.                         *)

(* The device the handler works on: re-read under select_for_update.        *)
Locked(s) == device

Answered(s) == request' = [request EXCEPT ![s] = Idle]

(* Another session's setup in between replaces the secret of an unconfirmed *)
(* device, and this session's is stale.                                     *)
Restarts(s, d) == d.setup # session[s].setup

begin_setup(s) ==
  LET d == Locked(s)
      made == IF d.pk = 0 THEN [NoDevice EXCEPT !.pk = serial + 1] ELSE d
  IN /\ request[s].view = "start"
     /\ Answered(s)
     /\ \/ /\ d.confirmed \/ (d.pk # 0 /\ ~Restarts(s, d))
           /\ UNCHANGED <<device, session, serial>>
        \/ /\ d.pk = 0 \/ (~d.confirmed /\ Restarts(s, d))
           /\ serial < MAX_IDS
           /\ serial' = serial + 1
           /\ device' = [made EXCEPT !.setup = serial + 1, !.last = -1]
           /\ session' = [session EXCEPT ![s].setup = serial + 1]
     /\ UNCHANGED <<clock, used, shown, password, edit>>

(* What a person can type: a token of the secret in force around now, a     *)
(* code that was displayed, or a typing error.                              *)
Tokens(d) ==
  {Totp(d.setup, n) : n \in {i \in clock - 1 .. clock + 1 : i >= 0}}
  \cup {Code(g, i) : g \in shown, i \in Slots}
  \cup {Totp(0, 0)}

(* A step after the last accepted one; a recovery code, once, of a          *)
(* confirmed device.                                                        *)
verify_token(d, token) ==
  \/ token \in d.codes /\ d.confirmed
  \/ token.kind = "totp" /\ token.of = d.setup /\ token.n >= d.last + 1

MatchedStep_current(d, token) == IF token.kind = "totp" THEN clock ELSE d.last

MatchedStep(d, token) == IF token.kind = "totp" THEN token.n ELSE d.last

Spent(d, token) ==
  [d EXCEPT !.last = MatchedStep(d, token), !.codes = @ \ {token},
            !.throttled = FALSE]

(* The state verify demands of the device before it looks at the token.     *)
Ready(s, d, enrollment) ==
  d.pk # 0 /\ IF enrollment THEN ~d.confirmed /\ d.setup = session[s].setup
                            ELSE d.confirmed

generate_recovery_codes(d) ==
  [d EXCEPT !.gen = serial + 1, !.acked = FALSE,
            !.codes = {Code(serial + 1, i) : i \in Slots}]

(* otp_login in a session with a new key.                                   *)
mark_verified(s, d, bundle) ==
  session' = [session EXCEPT ![s] =
    [@ EXCEPT !.otp = d.pk, !.fresh = FALSE, !.setup = 0, !.page = 0,
              !.bundle = bundle, !.proved = d.setup]]

(* A token is accepted: the codes are made anew unless they are             *)
(* acknowledged, or always when renew.                                      *)
verify(s, token, enrollment, renew) ==
  LET d == Locked(s)
      opened == [Spent(d, token) EXCEPT !.confirmed = TRUE]
  IN /\ Ready(s, d, enrollment) /\ ~d.throttled /\ verify_token(d, token)
     /\ Answered(s)
     /\ used' = Append(used, token)
     /\ IF d.acked /\ ~renew
        THEN /\ device' = opened
             /\ mark_verified(s, d, session[s].bundle)
             /\ UNCHANGED serial
        ELSE /\ serial < MAX_IDS
             /\ serial' = serial + 1
             /\ device' = generate_recovery_codes(opened)
             /\ mark_verified(s, d, serial + 1)
     /\ UNCHANGED <<clock, shown, password, edit>>

Refuse(s, token, enrollment) ==
  LET d == Locked(s)
  IN /\ Answered(s)
     /\ \/ ~Ready(s, d, enrollment) /\ UNCHANGED device
        \/ /\ Ready(s, d, enrollment)
           /\ d.throttled \/ ~verify_token(d, token)
           /\ device' = [d EXCEPT !.throttled = TRUE]
     /\ UNCHANGED <<session, clock, serial, used, shown, password, edit>>

Enroll(s) ==
  /\ request[s].view = "enroll"
  /\ \E token \in {t \in Tokens(Locked(s)) : t.kind = "totp"} :
       verify(s, token, TRUE, FALSE) \/ Refuse(s, token, TRUE)

Verify(s) ==
  /\ request[s].view = "verify"
  /\ \E token \in Tokens(Locked(s)) :
       verify(s, token, FALSE, FALSE) \/ Refuse(s, token, FALSE)

replace_recovery_codes(s) ==
  /\ request[s].view = "replace"
  /\ \E token \in Tokens(Locked(s)) :
       verify(s, token, FALSE, TRUE) \/ Refuse(s, token, FALSE)

-----------------------------------------------------------------------------
(* The page of recovery codes.                                              *)

recovery_bundle(s, d) == session[s].bundle # 0 /\ session[s].bundle = d.gen

(* The page renders with the device as the request loaded it.               *)
ShowCodes(s) ==
  LET d == request[s].device
      valid == recovery_bundle(s, d)
  IN /\ request[s].view = "codes"
     /\ Answered(s)
     /\ IF is_verified(s, d) /\ valid
        THEN /\ session' = [session EXCEPT ![s].page = d.gen]
             /\ shown' = shown \cup {d.gen}
        ELSE /\ session' = [session EXCEPT ![s].page = 0,
                                           ![s].bundle = IF is_verified(s, d) THEN 0 ELSE @]
             /\ UNCHANGED shown
     /\ UNCHANGED <<device, clock, serial, used, password, edit>>

Acknowledge(s) ==
  LET d == Locked(s)
  IN /\ request[s].view = "acknowledge"
     /\ Answered(s)
     /\ IF is_verified(s, request[s].device) /\ d.pk = request[s].device.pk
           /\ recovery_bundle(s, d)
        THEN /\ device' = [d EXCEPT !.acked = TRUE]
             /\ session' = [session EXCEPT ![s].bundle = 0, ![s].page = 0]
        ELSE /\ session' = [session EXCEPT ![s].page = 0]
             /\ UNCHANGED device
     /\ UNCHANGED <<clock, serial, used, shown, password, edit>>

(* reset_mfa: the operator deletes the device and its codes.                *)
Deleted_unconfirmed == [device EXCEPT !.confirmed = FALSE, !.acked = FALSE, !.codes = {}]

Deleted == NoDevice

reset_authenticator ==
  /\ device # NoDevice
  /\ device' = Deleted
  /\ UNCHANGED <<session, request, clock, serial, used, shown, password, edit>>

-----------------------------------------------------------------------------
(* Changes of the password.  The signals compare the saved value with the   *)
(* stored one before the save, and record a row after it.                   *)

Chosen == [now |-> password.chosen + 1, chosen |-> password.chosen + 1,
           recorded |-> password.recorded + 1]

(* Changed by its owner, who stays signed in.                               *)
ChangePassword(s) ==
  /\ request[s].view = "other"
  /\ password.chosen < MAX_PASSWORDS
  /\ Answered(s)
  /\ password' = Chosen
  /\ session' = [session EXCEPT ![s].hash = Chosen.now]
  /\ UNCHANGED <<device, clock, serial, used, shown, edit>>

(* Chosen through a mailed link, or typed by an administrator: no session   *)
(* keeps its auth hash.                                                     *)
ResetPassword ==
  /\ password.chosen < MAX_PASSWORDS
  /\ password' = Chosen
  /\ UNCHANGED <<device, session, request, clock, serial, used, shown, edit>>

AnswerOther(s) ==
  /\ request[s].view = "other"
  /\ Answered(s)
  /\ UNCHANGED <<device, session, clock, serial, used, shown, password, edit>>

(* An administrator saves another field of the account: the row is loaded,  *)
(* compared with the stored password, and written back whole, three         *)
(* statements that lock nothing, so the saves of two administrators overlap *)
(* each other as well as the changes of the password.                       *)
EditLoads(e) ==
  /\ edit[e] = NoEdit
  /\ edit' = [edit EXCEPT ![e] =
       [step |-> "loaded", copy |-> password.now, differs |-> FALSE, met |-> 0]]
  /\ UNCHANGED <<device, session, request, clock, serial, used, shown, password>>

(* Mutant: the copy is compared with the newest password ever chosen.       *)
Differs_from_newest(e) == edit[e].copy # password.chosen

Differs(e) == edit[e].copy # password.now

remember_previous_password(e) ==
  /\ edit[e].step = "loaded"
  /\ edit' = [edit EXCEPT ![e] = [@ EXCEPT !.step = "compared", !.met = password.now,
                                          !.differs = Differs(e)]]
  /\ UNCHANGED <<device, session, request, clock, serial, used, shown, password>>

record_password_change(e) ==
  /\ edit[e].step = "compared"
  /\ edit' = [edit EXCEPT ![e] = NoEdit]
  /\ password' = [password EXCEPT !.now = edit[e].copy,
                                  !.recorded = @ + (IF edit[e].differs THEN 1 ELSE 0)]
  /\ UNCHANGED <<device, session, request, clock, serial, used, shown>>

-----------------------------------------------------------------------------

Next ==
  \/ \E s \in Sessions : \/ \E view \in FLOW_VIEWS \cup {"other"} : process_view(s, view)
                         \/ SignedOut(s) \/ Login(s) \/ PasswordAges(s) \/ BundleAges(s)
                         \/ begin_setup(s) \/ Enroll(s) \/ Verify(s)
                         \/ replace_recovery_codes(s)
                         \/ ShowCodes(s) \/ Acknowledge(s)
                         \/ ChangePassword(s) \/ AnswerOther(s)
  \/ Tick \/ reset_authenticator \/ ResetPassword
  \/ \E e \in Editors : \/ EditLoads(e) \/ remember_previous_password(e)
                       \/ record_password_change(e)

Spec == Init /\ [][Next]_vars

-----------------------------------------------------------------------------
(* Properties. *)

Ids == 0 .. MAX_IDS

TokenSet == {Totp(i, n) : i \in Ids, n \in 0 .. MAX_CLOCK + 1}
            \cup {Code(g, i) : g \in Ids, i \in Slots}

Devices == [pk : Ids, setup : Ids, confirmed : BOOLEAN, last : -1 .. MAX_CLOCK + 1,
            acked : BOOLEAN, gen : Ids, codes : SUBSET {Code(g, i) : g \in Ids, i \in Slots},
            throttled : BOOLEAN]

(* Every variable ranges over the values the code's columns and session     *)
(* keys can hold.                                                           *)
TypeOK ==
  /\ device \in Devices
  /\ session \in [Sessions -> [hash : 0 .. MAX_PASSWORDS, fresh : BOOLEAN, setup : Ids,
                               bundle : Ids, otp : Ids, page : Ids, proved : Ids]]
  /\ \A s \in Sessions : /\ request[s].view \in FLOW_VIEWS \cup {"none", "other"}
                         /\ request[s].device \in Devices
  /\ clock \in 0 .. MAX_CLOCK /\ serial \in Ids
  /\ used \in Seq(TokenSet) /\ shown \subseteq Ids
  /\ password.now \in 1 .. MAX_PASSWORDS /\ password.chosen \in 1 .. MAX_PASSWORDS
  /\ password.recorded \in Nat
  /\ edit \in [Editors -> [step : {"none", "loaded", "compared"}, copy : 0 .. MAX_PASSWORDS,
                           differs : BOOLEAN, met : 0 .. MAX_PASSWORDS]]

(* The application opens only to a session that has proved, since it signed *)
(* in with the password, that it holds the secret of the authenticator on   *)
(* record: neither an operator's reset and a new enrolment elsewhere, nor a *)
(* second login in the same browser, revives an old verification.           *)
PossessionProved ==
  \A s \in Sessions : is_verified(s, device) => session[s].proved = device.setup

(* No token and no recovery code is accepted twice, whichever sessions send *)
(* it and however their requests interleave.                                *)
NoTokenTwice ==
  \A i, j \in DOMAIN used : used[i] = used[j] => i = j

(* The recovery codes on record count as acknowledged only if a page showed *)
(* them to somebody: a session that acknowledges codes another session has  *)
(* replaced meanwhile confirms nothing.                                     *)
AcknowledgedCodesWereShown == device.acked => device.gen \in shown

(* A change of the password without a row of the audit only ever brings     *)
(* back, through a save under way, the password that was in force when that *)
(* save compared, and that another change has replaced since: however many  *)
(* saves overlap, nobody introduces a password unrecorded.                  *)
UnrecordedOnlyReverts ==
  [][password'.now # password.now /\ password'.recorded = password.recorded =>
       \E e \in Editors : edit[e].step = "compared" /\ edit[e].met = password'.now]_vars
=============================================================================
