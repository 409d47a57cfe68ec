--------------------------- MODULE SignIn_proofs ---------------------------
(***************************************************************************)
(* Theorems about SignIn, for every set of browser sessions and every      *)
(* bound.                                                                  *)
(*                                                                         *)
(* The argument: devices, setups and generations of codes are numbered in  *)
(* the order they are made, so what a session or a spent token refers to   *)
(* is either the device on record or one that will never return.  A secret *)
(* changes only while no session is verified with its device, and the last *)
(* accepted step of a secret, and the unspent codes, bound what is spent.  *)
(***************************************************************************)
EXTENDS SignIn, TLAPS

Session == [hash : 0 .. MAX_PASSWORDS, fresh : BOOLEAN, setup : Ids,
            bundle : Ids, otp : Ids, page : Ids, proved : Ids]

Views == FLOW_VIEWS \cup {"none", "other"}

Edit == [step : {"none", "loaded", "compared"}, copy : 0 .. MAX_PASSWORDS,
         differs : BOOLEAN, met : 0 .. MAX_PASSWORDS]

\* The types, and what a half-done save of the account holds.
TypeInv ==
  /\ device \in Devices
  /\ session \in [Sessions -> Session]
  /\ request \in [Sessions -> [view : Views, device : Devices]]
  /\ clock \in 0 .. MAX_CLOCK
  /\ serial \in Ids
  /\ used \in Seq(TokenSet)
  /\ shown \subseteq Ids
  /\ password \in [now : 1 .. MAX_PASSWORDS, chosen : 1 .. MAX_PASSWORDS, recorded : Nat]
  /\ edit \in [Editors -> Edit]

\* A copy of the account holds a password that was chosen, and differs from the one
\* it was compared with or not, whatever the other saves do meanwhile.
EditsAreTrue ==
  /\ password.now <= password.chosen
  /\ \A e \in Editors :
       /\ edit[e].step # "none" => edit[e].copy >= 1 /\ edit[e].copy <= password.chosen
       /\ edit[e].step = "compared" => (edit[e].differs <=> edit[e].copy # edit[e].met)

\* What is on record was made by now; no device, no secret and no codes.
Numbered ==
  /\ device.pk <= serial /\ device.setup <= serial /\ device.gen <= serial
  /\ device.pk = 0 => ~device.confirmed /\ ~device.acked
  /\ device.pk # 0 => device.setup # 0
  /\ \A s \in Sessions : session[s].otp <= serial
  /\ \A i \in DOMAIN used : used[i].of \in 1 .. serial
  /\ \A t \in device.codes : t.of \in 1 .. serial

\* A session verified with the device on record has proved its secret.
VerifiedIsProved ==
  \A s \in Sessions : device.pk # 0 /\ session[s].otp = device.pk =>
    device.confirmed /\ session[s].proved = device.setup

\* A page of codes displays the codes its session may acknowledge.
PagesWereShown ==
  /\ \A s \in Sessions :
       /\ request[s].view = "acknowledge" => session[s].page # 0
       /\ session[s].page # 0 => session[s].page \in shown
       /\ session[s].page # 0 /\ session[s].bundle # 0 => session[s].page = session[s].bundle
  /\ device.acked => device.gen \in shown

\* Nothing spent is acceptable again.
SpentIsSpent ==
  /\ \A i \in DOMAIN used :
       /\ used[i].kind = "totp" /\ used[i].of = device.setup => used[i].n <= device.last
       /\ used[i] \notin device.codes
  /\ \A i, j \in DOMAIN used : used[i] = used[j] => i = j

IInv ==
  /\ TypeInv
  /\ EditsAreTrue
  /\ Numbered
  /\ VerifiedIsProved
  /\ PagesWereShown
  /\ SpentIsSpent

-----------------------------------------------------------------------------
LEMMA IdTypes == /\ MAX_IDS \in Nat /\ MAX_CLOCK \in Nat
                 /\ MAX_PASSWORDS \in Nat /\ MAX_PASSWORDS >= 1
                 /\ Ids \subseteq Nat /\ 0 \in Ids
  BY Bounds DEF Ids

LEMMA NoDeviceType == NoDevice \in Devices
  BY IdTypes DEF NoDevice, Devices

Codes == SUBSET {Code(g, i) : g \in Ids, i \in Slots}
Last == -1 .. MAX_CLOCK + 1
Columns == [pk : Ids, setup : Ids, confirmed : BOOLEAN, last : Last,
            acked : BOOLEAN, gen : Ids, codes : Codes, throttled : BOOLEAN]

LEMMA Columned == Devices = Columns
  BY DEF Devices, Columns, Codes, Last

\* The columns of a device after each of the writes the handlers make.
LEMMA NewDevice ==
  ASSUME NEW k \in Ids, NEW e, e = [NoDevice EXCEPT !.pk = k]
  PROVE  /\ e \in Devices
         /\ e.pk = k /\ e.gen = 0 /\ e.codes = {} /\ ~e.acked /\ ~e.confirmed
<1>1. -1 \in Last /\ 0 \in Ids /\ {} \in Codes
  BY IdTypes DEF Last, Codes
<1>2. NoDevice \in Columns
  BY <1>1 DEF NoDevice, Columns
<1>3. e \in Columns
  BY <1>2 DEF Columns
<1>4. e.pk = k /\ e.gen = 0 /\ e.codes = {} /\ ~e.acked /\ ~e.confirmed
  BY DEF NoDevice
<1> QED
  BY <1>3, <1>4, Columned

LEMMA Flagged ==
  ASSUME NEW d \in Devices, NEW e,
         \/ e = [d EXCEPT !.acked = TRUE]
         \/ \E b \in BOOLEAN : e = [d EXCEPT !.throttled = b]
  PROVE  /\ e \in Devices
         /\ e.pk = d.pk /\ e.setup = d.setup /\ e.gen = d.gen
         /\ e.confirmed = d.confirmed /\ e.last = d.last /\ e.codes = d.codes
         /\ e.acked = d.acked \/ e = [d EXCEPT !.acked = TRUE]
<1>1. d \in Columns
  BY Columned
<1>2. /\ e \in Columns
      /\ e.pk = d.pk /\ e.setup = d.setup /\ e.gen = d.gen
      /\ e.confirmed = d.confirmed /\ e.last = d.last /\ e.codes = d.codes
      /\ e.acked = d.acked \/ e = [d EXCEPT !.acked = TRUE]
  BY <1>1 DEF Columns
<1> QED
  BY <1>2, Columned

LEMMA InitIInv == Init => IInv
<1> SUFFICES ASSUME Init PROVE IInv
  OBVIOUS
<1> USE IdTypes, NoDeviceType
<1>1. TypeInv
  <2>1. Anonymous \in Session
    BY DEF Anonymous, Session
  <2>2. Idle \in [view : Views, device : Devices]
    BY DEF Idle, Views
  <2>3. NoEdit \in Edit
    BY IdTypes DEF NoEdit, Edit
  <2>4. << >> \in Seq(TokenSet)
    OBVIOUS
  <2> QED
    BY <2>1, <2>2, <2>3, <2>4 DEF Init, TypeInv
<1>2. EditsAreTrue
  BY DEF Init, EditsAreTrue, NoEdit
<1>3. Numbered /\ VerifiedIsProved
  BY DEF Init, Numbered, VerifiedIsProved, NoDevice, Anonymous
<1>4. PagesWereShown /\ SpentIsSpent
  BY DEF Init, PagesWereShown, SpentIsSpent, NoDevice, Anonymous, Idle
<1> QED
  BY <1>1, <1>2, <1>3, <1>4 DEF IInv

\* A step of one session: what it keeps, what it displays, and a device that at
\* most changed a flag.
LEMMA SessionChange ==
  ASSUME IInv, NEW s \in Sessions,
         NEW n \in Session, NEW q \in [view : Views, device : Devices],
         session' = [session EXCEPT ![s] = n],
         request' = [request EXCEPT ![s] = q],
         n.otp \in {0, session[s].otp},
         n.otp # 0 => n.proved = session[s].proved,
         n.page # 0 => /\ n.page \in shown'
                       /\ n.bundle # 0 => n.page = n.bundle,
         q.view = "acknowledge" => n.page # 0,
         shown \subseteq shown', shown' \subseteq Ids,
         device' \in Devices,
         device'.pk = device.pk, device'.setup = device.setup, device'.gen = device.gen,
         device'.confirmed = device.confirmed, device'.last = device.last,
         device'.codes = device.codes,
         device'.acked => (device.acked \/ (device.pk # 0 /\ device.gen \in shown)),
         UNCHANGED <<clock, serial, used, password, edit>>
  PROVE  IInv'
<1>1. TypeInv' /\ EditsAreTrue'
  BY DEF IInv, TypeInv, EditsAreTrue
<1>2. \A x \in Sessions :
        /\ session'[x] = IF x = s THEN n ELSE session[x]
        /\ request'[x] = IF x = s THEN q ELSE request[x]
  BY DEF IInv, TypeInv
<1>3. session[s] \in Session /\ serial \in Nat /\ device.pk \in Nat
  BY IdTypes DEF IInv, TypeInv, Devices, Ids
<1>4. Numbered'
  <2>1. \A x \in Sessions : session'[x].otp <= serial
    BY <1>2, <1>3 DEF IInv, Numbered
  <2> QED
    BY <2>1 DEF IInv, Numbered
<1>5. VerifiedIsProved'
  BY <1>2, <1>3 DEF IInv, VerifiedIsProved
<1>6. PagesWereShown'
  BY <1>2, <1>3 DEF IInv, PagesWereShown
<1>7. SpentIsSpent'
  BY DEF IInv, SpentIsSpent
<1> QED
  BY <1>1, <1>4, <1>5, <1>6, <1>7 DEF IInv

\* Requests that touch neither the device nor what was spent: the middleware, the
\* session's clocks, sign-in and sign-out, and answers that change nothing.
LEMMA SessionSteps ==
  ASSUME IInv, NEW s \in Sessions,
         \/ \E view \in FLOW_VIEWS \cup {"other"} : process_view(s, view)
         \/ SignedOut(s) \/ Login(s) \/ PasswordAges(s) \/ BundleAges(s)
         \/ AnswerOther(s)
  PROVE  IInv'
<1> USE IdTypes
<1>1. ASSUME NEW n \in Session, NEW q \in [view : Views, device : Devices],
             session' = [session EXCEPT ![s] = n],
             request' = [request EXCEPT ![s] = q],
             n.otp \in {0, session[s].otp},
             n.otp # 0 => n.proved = session[s].proved,
             n.page \in {0, session[s].page},
             n.bundle \in {0, session[s].bundle},
             q.view = "acknowledge" => n.page # 0,
             UNCHANGED <<device, clock, serial, used, shown, password, edit>>
      PROVE  IInv'
  <2>1. n.page # 0 => /\ n.page \in shown'
                      /\ n.bundle # 0 => n.page = n.bundle
    BY <1>1 DEF IInv, PagesWereShown
  <2>2. device \in Devices /\ shown \subseteq Ids
    BY DEF IInv, TypeInv
  <2> QED
    BY <1>1, <2>1, <2>2, SessionChange
<1>0. /\ session[s] \in Session
      /\ request[s] \in [view : Views, device : Devices]
      /\ device \in Devices
      /\ NoDevice \in Devices
      /\ session = [session EXCEPT ![s] = session[s]]
      /\ request = [request EXCEPT ![s] = request[s]]
      /\ request[s].view = "acknowledge" => session[s].page # 0
  BY NoDeviceType DEF IInv, TypeInv, PagesWereShown
<1>2. CASE \E view \in FLOW_VIEWS \cup {"other"} : process_view(s, view)
  <2> PICK view \in FLOW_VIEWS \cup {"other"} : process_view(s, view)
    BY <1>2
  <2> DEFINE b == IF mfa_complete(s, device) THEN 0 ELSE session[s].bundle
             n == [session[s] EXCEPT !.bundle = b]
             q == [view |-> view,
                   device |-> IF view \in CodesPage THEN device ELSE NoDevice]
  <2>1. b \in {0, session[s].bundle} /\ b \in Ids
    BY <1>0 DEF Session
  <2>2. request' = [request EXCEPT ![s] = q]
    BY DEF process_view
  <2>3. session' = [session EXCEPT ![s] = n]
    BY <1>0 DEF process_view, IInv, TypeInv
  <2>4. q \in [view : Views, device : Devices] /\ q.view = view
    BY <1>0 DEF Views
  <2>5. view = "acknowledge" => session[s].page # 0
    BY DEF process_view, Offered
  <2> HIDE DEF b
  <2>6. /\ n \in Session /\ n.otp = session[s].otp /\ n.proved = session[s].proved
        /\ n.page = session[s].page /\ n.bundle = b
    BY <1>0, <2>1 DEF Session
  <2> HIDE DEF n, q
  <2> QED
    BY <1>1, <2>1, <2>2, <2>3, <2>4, <2>5, <2>6 DEF process_view
<1>3. CASE SignedOut(s) \/ Login(s)
  <2> DEFINE l == [Anonymous EXCEPT !.hash = password.now, !.fresh = TRUE]
  <2>1. \E n \in {Anonymous, l} : session' = [session EXCEPT ![s] = n]
    BY <1>3 DEF SignedOut, Login
  <2>2. \A n \in {Anonymous, l} :
          n \in Session /\ n.otp = 0 /\ n.page = 0 /\ n.bundle = 0
    <3>1. password.now \in 0 .. MAX_PASSWORDS /\ 0 \in 0 .. MAX_PASSWORDS
      BY DEF IInv, TypeInv
    <3>2. Anonymous \in Session
      BY <3>1 DEF Anonymous, Session
    <3>3. l \in Session /\ l.otp = 0 /\ l.page = 0 /\ l.bundle = 0
      BY <3>1 DEF Anonymous, Session
    <3> QED
      BY <3>2, <3>3 DEF Anonymous
  <2>3. request[s].view # "acknowledge"
    BY <1>3 DEF SignedOut, Login, Idle
  <2>4. UNCHANGED <<device, request, clock, serial, used, shown, password, edit>>
    BY <1>3 DEF SignedOut, Login
  <2> HIDE DEF l
  <2> QED
    BY <1>0, <1>1, <2>1, <2>2, <2>3, <2>4
<1>4. CASE PasswordAges(s) \/ BundleAges(s)
  <2> DEFINE f == [session[s] EXCEPT !.fresh = FALSE]
             b == [session[s] EXCEPT !.bundle = 0]
  <2>1. \E n \in {f, b} : session' = [session EXCEPT ![s] = n]
    BY <1>4 DEF PasswordAges, BundleAges, IInv, TypeInv
  <2>2. \A n \in {f, b} :
          /\ n \in Session /\ n.otp = session[s].otp /\ n.proved = session[s].proved
          /\ n.page = session[s].page /\ n.bundle \in {0, session[s].bundle}
    BY ZenonT(30), <1>0 DEF Session
  <2>3. UNCHANGED <<device, request, clock, serial, used, shown, password, edit>>
    BY <1>4 DEF PasswordAges, BundleAges
  <2> HIDE DEF f, b
  <2> QED
    BY <1>0, <1>1, <2>1, <2>2, <2>3
<1>5. CASE AnswerOther(s)
  <2>1. Idle \in [view : Views, device : Devices] /\ Idle.view = "none"
    BY <1>0 DEF Idle, Views
  <2> QED
    BY <1>0, <1>1, <1>5, <2>1 DEF AnswerOther, Answered
<1> QED
  BY <1>2, <1>3, <1>4, <1>5
\* A request answered, and nothing else: the session it came from stays.
LEMMA AnsweredRequest ==
  ASSUME TypeInv, NEW s \in Sessions, Answered(s)
  PROVE  /\ request' \in [Sessions -> [view : Views, device : Devices]]
         /\ \A x \in Sessions : request'[x].view \in {"none", request[x].view}
         /\ request'[s].view = "none"
<1>1. Idle \in [view : Views, device : Devices] /\ Idle.view = "none"
  BY NoDeviceType DEF Idle, Views
<1> QED
  BY <1>1 DEF TypeInv, Answered

\* The throttle of the device, and the clock.
LEMMA ThrottleSteps ==
  ASSUME IInv,
         \/ Tick
         \/ \E s \in Sessions : \E token : \E enrollment \in BOOLEAN : Refuse(s, token, enrollment)
  PROVE  IInv'
<1>1. /\ \E b \in BOOLEAN : device' = [device EXCEPT !.throttled = b]
      /\ clock' \in 0 .. MAX_CLOCK
      /\ UNCHANGED <<session, serial, used, shown, password, edit>>
  <2>1. CASE Tick
    <3>1. device' = [device EXCEPT !.throttled = FALSE]
      BY <2>1 DEF Tick
    <3>2. clock' \in 0 .. MAX_CLOCK
      BY <2>1, IdTypes DEF Tick, IInv, TypeInv
    <3> QED
      BY <2>1, <3>1, <3>2 DEF Tick
  <2>2. ASSUME NEW s \in Sessions, NEW token, NEW enrollment \in BOOLEAN,
               Refuse(s, token, enrollment)
        PROVE  <1>1
    <3>1. device' = device \/ device' = [device EXCEPT !.throttled = TRUE]
      BY <2>2 DEF Refuse, Locked
    <3>2. device = [device EXCEPT !.throttled = device.throttled]
          /\ device.throttled \in BOOLEAN
      BY DEF IInv, TypeInv, Devices
    <3> QED
      BY <2>2, <3>1, <3>2 DEF Refuse, IInv, TypeInv
  <2> QED
    BY <2>1, <2>2
<1>2. /\ request' \in [Sessions -> [view : Views, device : Devices]]
      /\ \A x \in Sessions : request'[x].view \in {"none", request[x].view}
  <2>1. ASSUME NEW s \in Sessions, Answered(s)
        PROVE  <1>2
    BY <2>1, AnsweredRequest DEF IInv
  <2> QED
    BY <2>1 DEF Tick, Refuse, IInv, TypeInv
<1>3. /\ device' \in Devices
      /\ device'.pk = device.pk
      /\ device'.setup = device.setup
      /\ device'.confirmed = device.confirmed
      /\ device'.last = device.last
      /\ device'.acked = device.acked
      /\ device'.gen = device.gen
      /\ device'.codes = device.codes
  <2> PICK b \in BOOLEAN : device' = [device EXCEPT !.throttled = b]
    BY <1>1
  <2>1. device \in Devices
    BY DEF IInv, TypeInv
  <2>2. device'.acked = device.acked
    BY <2>1 DEF Devices
  <2> QED
    BY <2>1, <2>2, Flagged
<1>4. TypeInv' /\ EditsAreTrue'
  BY <1>1, <1>2, <1>3 DEF IInv, TypeInv, EditsAreTrue
<1>5. Numbered' /\ VerifiedIsProved'
  BY <1>1, <1>3 DEF IInv, Numbered, VerifiedIsProved
<1>6. PagesWereShown'
  BY <1>1, <1>2, <1>3 DEF IInv, PagesWereShown
<1>7. SpentIsSpent'
  BY <1>1, <1>3 DEF IInv, SpentIsSpent
<1> QED
  BY <1>4, <1>5, <1>6, <1>7 DEF IInv

\* A setup: a device with a new number, or a new secret of one nobody is verified with.
LEMMA SetupStep ==
  ASSUME IInv, NEW s \in Sessions, begin_setup(s)
  PROVE  IInv'
<1> USE IdTypes
<1>0. /\ device \in Devices /\ serial \in Nat /\ serial <= MAX_IDS
      /\ device.pk \in Nat /\ device.setup \in Nat /\ device.gen \in Nat
      /\ session[s] \in Session
  BY SMTT(30) DEF IInv, TypeInv, Devices, Ids
<1>1. /\ request' \in [Sessions -> [view : Views, device : Devices]]
      /\ \A x \in Sessions : request'[x].view \in {"none", request[x].view}
  BY AnsweredRequest DEF IInv, begin_setup
<1>2. UNCHANGED <<clock, used, shown, password, edit>>
  BY DEF begin_setup
<1>3. CASE UNCHANGED <<device, session, serial>>
  BY <1>1, <1>2, <1>3
  DEF IInv, TypeInv, EditsAreTrue, Numbered, VerifiedIsProved, PagesWereShown, SpentIsSpent
<1>4. CASE /\ device.pk = 0 \/ ~device.confirmed
           /\ serial < MAX_IDS
           /\ serial' = serial + 1
           /\ device' = [IF device.pk = 0 THEN [NoDevice EXCEPT !.pk = serial + 1]
                         ELSE device EXCEPT !.setup = serial + 1, !.last = -1]
           /\ session' = [session EXCEPT ![s].setup = serial + 1]
  <2>1. serial + 1 \in Ids /\ serial + 1 # 0
    BY <1>0, <1>4 DEF Ids
  <2>11. -1 \in Last
    BY DEF Last
  <2>2. /\ device' \in Devices
        /\ device'.setup = serial + 1
        /\ device'.pk = IF device.pk = 0 THEN serial + 1 ELSE device.pk
        /\ device'.gen \in {0, device.gen}
        /\ device'.codes \subseteq device.codes
        /\ device'.acked => (device.acked /\ device'.gen = device.gen)
        /\ ~device'.confirmed
    <3>1. CASE device.pk = 0
      <4> PICK d : d = [NoDevice EXCEPT !.pk = serial + 1]
        OBVIOUS
      <4>1. d \in Devices /\ d.pk = serial + 1 /\ d.gen = 0 /\ d.codes = {} /\ ~d.acked
            /\ ~d.confirmed
        BY <2>1, NewDevice
      <4>2. device' = [d EXCEPT !.setup = serial + 1, !.last = -1]
        BY <1>4, <3>1
      <4>3. /\ device' \in Devices
            /\ device'.setup = serial + 1 /\ device'.pk = d.pk /\ device'.gen = d.gen
            /\ device'.codes = d.codes
            /\ (device'.acked => d.acked) /\ (device'.confirmed => d.confirmed)
        BY <2>1, <2>11, <4>1, <4>2, Columned DEF Columns
      <4> QED
        BY <3>1, <4>1, <4>3
    <3>2. CASE device.pk # 0
      <4>1. device' = [device EXCEPT !.setup = serial + 1, !.last = -1]
        BY <1>4, <3>2
      <4>2. /\ device' \in Devices
            /\ device'.setup = serial + 1 /\ device'.pk = device.pk
            /\ device'.gen = device.gen /\ device'.codes = device.codes
            /\ (device'.acked => device.acked) /\ (device'.confirmed => device.confirmed)
        BY <1>0, <2>1, <2>11, <4>1, Columned DEF Columns
      <4> QED
        BY <1>4, <3>2, <4>2
    <3> QED
      BY <3>1, <3>2
  <2>3. /\ session' \in [Sessions -> Session]
        /\ \A x \in Sessions :
             /\ session'[x].otp = session[x].otp
             /\ session'[x].page = session[x].page
             /\ session'[x].bundle = session[x].bundle
             /\ session'[x].proved = session[x].proved
    <3>1. session \in [Sessions -> Session] /\ session[s] \in Session
      BY DEF IInv, TypeInv
    <3>2. session' = [session EXCEPT ![s] = [session[s] EXCEPT !.setup = serial + 1]]
      BY <1>4, <3>1
    <3> DEFINE n == [session[s] EXCEPT !.setup = serial + 1]
    <3>3. /\ n \in Session /\ n.otp = session[s].otp /\ n.page = session[s].page
          /\ n.bundle = session[s].bundle /\ n.proved = session[s].proved
      BY <2>1, <3>1 DEF Session
    <3>4. session' = [session EXCEPT ![s] = n]
      BY <3>2
    <3> HIDE DEF n
    <3>5. session' \in [Sessions -> Session]
      BY <3>1, <3>3, <3>4
    <3>6. \A x \in Sessions : session'[x] = IF x = s THEN n ELSE session[x]
      BY <3>1, <3>4
    <3> QED
      BY <3>3, <3>5, <3>6
  <2>4. TypeInv' /\ EditsAreTrue'
    BY <1>1, <1>2, <1>4, <2>1, <2>2, <2>3 DEF IInv, TypeInv, EditsAreTrue
  <2>5. \A x \in Sessions : session[x].otp \in Nat /\ session[x].otp <= serial
    BY DEF IInv, TypeInv, Session, Ids, Numbered
  <2>6. \A i \in DOMAIN used : used[i].of \in 1 .. serial
    BY DEF IInv, Numbered
  <2>7. Numbered'
    <3>1. /\ device'.pk <= serial' /\ device'.setup <= serial' /\ device'.gen <= serial'
          /\ device'.pk # 0 /\ device'.setup # 0
      BY <1>0, <1>4, <2>2 DEF IInv, Numbered
    <3>2. \A x \in Sessions : session'[x].otp <= serial'
      BY <1>0, <1>4, <2>3, <2>5
    <3>3. \A i \in DOMAIN used' : used'[i].of \in 1 .. serial'
      BY <1>0, <1>2, <1>4, <2>6
    <3>4. \A t \in device'.codes : t.of \in 1 .. serial'
      BY <1>0, <1>4, <2>2 DEF IInv, Numbered
    <3> QED
      BY <3>1, <3>2, <3>3, <3>4 DEF Numbered
  <2>8. VerifiedIsProved'
    BY <1>0, <1>4, <2>2, <2>3, <2>5 DEF IInv, VerifiedIsProved
  <2>9. PagesWereShown'
    BY <1>1, <1>2, <1>4, <2>2, <2>3 DEF IInv, PagesWereShown
  <2>10. SpentIsSpent'
    BY <1>0, <1>2, <2>2, <2>6 DEF IInv, SpentIsSpent
  <2> QED
    BY <2>4, <2>7, <2>8, <2>9, <2>10 DEF IInv
<1> QED
  BY <1>3, <1>4 DEF begin_setup, Locked

\* An accepted token: it is spent with the secret or the codes that made it
\* acceptable, and new codes have a number no token refers to.
LEMMA VerifyStep ==
  ASSUME IInv, NEW s \in Sessions, NEW enrollment \in BOOLEAN, NEW renew \in BOOLEAN,
         NEW token \in Tokens(device), verify(s, token, enrollment, renew)
  PROVE  IInv'
<1> USE IdTypes
<1> DEFINE m == MatchedStep(device, token)
           o == [[device EXCEPT !.last = m, !.codes = @ \ {token}, !.throttled = FALSE]
                    EXCEPT !.confirmed = TRUE]
<1>0. /\ device \in Devices /\ serial \in Nat /\ serial <= MAX_IDS /\ clock \in 0 .. MAX_CLOCK
      /\ device.pk \in Nat /\ device.setup \in Nat /\ device.gen \in Nat
      /\ device.last \in -1 .. MAX_CLOCK + 1
      /\ session[s] \in Session
      /\ device.pk # 0
      /\ device.pk <= serial /\ device.setup <= serial /\ device.setup # 0
      /\ device.setup >= 1
  <2>1. device.pk # 0
    BY DEF verify, Ready, Locked
  <2>2. device.pk <= serial /\ device.setup <= serial /\ device.setup # 0
    BY <2>1 DEF IInv, Numbered
  <2>3. /\ device \in Devices /\ serial \in Nat /\ serial <= MAX_IDS /\ clock \in 0 .. MAX_CLOCK
        /\ session[s] \in Session
    BY DEF IInv, TypeInv, Ids
  <2>4. /\ device.pk \in Nat /\ device.setup \in Nat /\ device.gen \in Nat
        /\ device.last \in -1 .. MAX_CLOCK + 1
    BY <2>3 DEF Devices, Ids
  <2>5. device.setup >= 1
    BY <2>2, <2>4
  <2> QED
    BY <2>1, <2>2, <2>3, <2>4, <2>5
<1>1. /\ request' \in [Sessions -> [view : Views, device : Devices]]
      /\ \A x \in Sessions : request'[x].view \in {"none", request[x].view}
      /\ request'[s].view = "none"
  BY AnsweredRequest DEF IInv, verify
<1>2. /\ used' = Append(used, token)
      /\ UNCHANGED <<clock, shown, password, edit>>
      /\ \/ token \in device.codes
         \/ token.kind = "totp" /\ token.of = device.setup /\ token.n >= device.last + 1
  BY DEF verify, verify_token, Locked
\* The token.
<1>3. /\ token \in TokenSet
      /\ token.of \in 1 .. serial
      /\ m \in -1 .. MAX_CLOCK + 1
      /\ m >= device.last
      /\ token.kind = "totp" => m = token.n /\ token.n > device.last /\ token.of = device.setup
      /\ token.kind # "totp" => m = device.last /\ token \in device.codes
  <2>1. ASSUME NEW n \in {i \in clock - 1 .. clock + 1 : i >= 0}, token = Totp(device.setup, n)
        PROVE  /\ token \in TokenSet /\ token.kind = "totp" /\ token.n = n
               /\ token.of = device.setup /\ n \in 0 .. MAX_CLOCK + 1
    BY <1>0, <2>1 DEF Totp, TokenSet, Devices
  <2>2. ASSUME NEW g \in Ids, NEW i \in Slots, token = Code(g, i)
        PROVE  /\ token \in TokenSet /\ token.kind = "code" /\ token.of = g
    <3> HIDE DEF m, o
    <3>1. token \in TokenSet
      BY <2>2 DEF TokenSet
    <3>2. token.kind = "code" /\ token.of = g
      BY <2>2 DEF Code
    <3> QED
      BY <3>1, <3>2
  <2>3. token # Totp(0, 0)
    <3>1. Totp(0, 0).kind = "totp" /\ Totp(0, 0).of = 0
      BY DEF Totp
    <3>2. ASSUME NEW g \in Ids, NEW i \in Slots
          PROVE  Code(g, i) # Totp(0, 0)
      BY DEF Code, Totp
    <3> QED
      BY <1>0, <1>2, <3>1, <3>2 DEF Devices
  <2>4. shown \subseteq Ids
    BY DEF IInv, TypeInv
  <2>5. CASE \E n \in {i \in clock - 1 .. clock + 1 : i >= 0} : token = Totp(device.setup, n)
    <3>1. PICK n \in 0 .. MAX_CLOCK + 1 :
            /\ token \in TokenSet /\ token.kind = "totp" /\ token.n = n
            /\ token.of = device.setup
      BY <2>1, <2>5
    <3>2. token \notin device.codes
      <4>1. ASSUME NEW g \in Ids, NEW i \in Slots
            PROVE  Code(g, i).kind = "code"
        BY DEF Code
      <4> QED
        BY <1>0, <3>1, <4>1 DEF Devices
    <3> QED
      BY <1>0, <1>2, <3>1, <3>2 DEF MatchedStep
  <2>6. CASE \E g \in shown, i \in Slots : token = Code(g, i)
    <3>1. PICK g \in Ids :
            /\ token \in TokenSet /\ token.kind = "code" /\ token.of = g
      BY <2>2, <2>4, <2>6
    <3>2. token \in device.codes
      BY <1>2, <3>1
    <3>3. token.of \in 1 .. serial
      BY <3>2 DEF IInv, Numbered
    <3> QED
      BY <1>0, <3>1, <3>2, <3>3 DEF MatchedStep
  <2> QED
    BY <2>3, <2>5, <2>6 DEF Tokens
\* The session the token came from is verified with the device, and shows no page.
<1>4. ASSUME NEW b \in Ids,
             device' \in Devices, serial' \in Ids, serial <= serial',
             device'.pk = device.pk, device'.setup = device.setup, device'.confirmed,
             device'.last = m, device'.gen <= serial',
             device'.acked => (device.acked /\ device'.gen = device.gen),
             \A t \in device'.codes :
               t \in device.codes \ {token} \/ (t.of = serial' /\ serial' > serial),
             mark_verified(s, device, b)
      PROVE  IInv'
  <2> DEFINE n == [session[s] EXCEPT !.otp = device.pk, !.fresh = FALSE, !.setup = 0,
                                     !.page = 0, !.bundle = b, !.proved = device.setup]
  <2>1. /\ n \in Session /\ n.otp = device.pk /\ n.page = 0 /\ n.proved = device.setup
        /\ session' = [session EXCEPT ![s] = n]
    <3>1. device.pk \in Ids /\ device.setup \in Ids
      BY <1>0, Columned DEF Columns
    <3>2. n \in Session /\ n.otp = device.pk /\ n.page = 0 /\ n.proved = device.setup
      BY <1>0, <1>4, <3>1 DEF Session
    <3>3. session' = [session EXCEPT ![s] = n]
      BY <1>4 DEF mark_verified, IInv, TypeInv
    <3> QED
      BY <3>2, <3>3
  <2> HIDE DEF n, m
  <2>2. \A x \in Sessions : session'[x] = IF x = s THEN n ELSE session[x]
    BY <2>1 DEF IInv, TypeInv
  <2>3. /\ used' \in Seq(TokenSet)
        /\ \A i \in DOMAIN used' :
             \/ i \in DOMAIN used /\ used'[i] = used[i]
             \/ i = Len(used) + 1 /\ used'[i] = token
        /\ Len(used) + 1 \notin DOMAIN used
    BY <1>2, <1>3 DEF IInv, TypeInv
  <2>4. serial' \in Nat /\ b \in Nat
    BY <1>4
  <2>5. TypeInv'
    BY <1>1, <1>2, <1>4, <2>1, <2>3 DEF IInv, TypeInv
  <2>6. EditsAreTrue'
    BY <1>2 DEF IInv, EditsAreTrue
  <2>7. Numbered'
    <3>1. /\ device'.pk <= serial' /\ device'.setup <= serial' /\ device'.gen <= serial'
          /\ device'.pk # 0 /\ device'.setup # 0
      BY <1>0, <1>4, <2>4
    <3>2. \A x \in Sessions : session'[x].otp <= serial'
      <4>1. \A x \in Sessions : session[x].otp \in Nat /\ session[x].otp <= serial
        BY DEF IInv, TypeInv, Session, Ids, Numbered
      <4> QED
        BY <1>0, <1>4, <2>1, <2>2, <2>4, <4>1
    <3>3. \A i \in DOMAIN used' : used'[i].of \in 1 .. serial'
      BY SMTT(30), <1>0, <1>3, <1>4, <2>3, <2>4 DEF IInv, Numbered
    <3>4. \A t \in device'.codes : t.of \in 1 .. serial'
      BY <1>0, <1>4, <2>4 DEF IInv, Numbered
    <3> QED
      BY <3>1, <3>2, <3>3, <3>4 DEF Numbered
  <2>8. VerifiedIsProved'
    BY <1>0, <1>4, <2>1, <2>2 DEF IInv, VerifiedIsProved
  <2>9. PagesWereShown'
    BY <1>1, <1>2, <1>4, <2>1, <2>2 DEF IInv, PagesWereShown
  <2>10. SpentIsSpent'
    <3>1. \A i \in DOMAIN used :
            /\ used[i].of \in 1 .. serial
            /\ used[i].kind = "totp" /\ used[i].of = device.setup => used[i].n <= device.last
            /\ used[i] \notin device.codes
            /\ used[i] \in TokenSet
      BY DEF IInv, Numbered, SpentIsSpent, TypeInv
    <3>2. \A t \in TokenSet : t.kind = "totp" => t.n \in Nat
      BY DEF TokenSet, Totp, Code
    <3>3. ASSUME NEW i \in DOMAIN used, used[i] = token
          PROVE  FALSE
      <4>1. CASE token.kind = "totp"
        <5>1. used[i].n <= device.last /\ token.n > device.last
          BY <1>3, <3>1, <3>3, <4>1
        <5>2. token.n \in Nat
          BY <1>3, <3>2, <4>1
        <5> QED
          BY <1>0, <3>3, <5>1, <5>2
      <4>2. CASE token.kind # "totp"
        BY <1>3, <3>1, <3>3, <4>2
      <4> QED
        BY <4>1, <4>2
    <3>4. ASSUME NEW i \in DOMAIN used', used'[i] \in device'.codes
          PROVE  FALSE
      <4>1. used'[i].of # serial' \/ serial' = serial
        <5>1. CASE i \in DOMAIN used /\ used'[i] = used[i]
          BY <1>0, <1>4, <2>4, <3>1, <5>1
        <5>2. CASE used'[i] = token
          BY <1>0, <1>3, <1>4, <2>4, <5>2
        <5> QED
          BY <2>3, <5>1, <5>2
      <4>2. used'[i] \in device.codes \ {token}
        BY <1>0, <1>4, <2>4, <3>4, <4>1
      <4> QED
        BY <2>3, <3>1, <4>2
    <3>5. ASSUME NEW i \in DOMAIN used',
                 used'[i].kind = "totp", used'[i].of = device'.setup
          PROVE  used'[i].n <= device'.last
      <4>1. CASE i \in DOMAIN used /\ used'[i] = used[i]
        <5>1. used[i].n <= device.last /\ device.last <= m /\ used[i].n \in Nat
          BY <1>3, <1>4, <3>1, <3>2, <3>5, <4>1
        <5> QED
          BY <1>0, <1>3, <1>4, <4>1, <5>1
      <4>2. CASE used'[i] = token
        <5>1. m = token.n /\ token.n \in Nat
          BY <1>3, <3>2, <3>5, <4>2
        <5> QED
          BY <1>4, <4>2, <5>1
      <4> QED
        BY <2>3, <4>1, <4>2
    <3>6. \A i, j \in DOMAIN used' : used'[i] = used'[j] => i = j
      BY <2>3, <3>3 DEF IInv, SpentIsSpent
    <3> QED
      BY <3>4, <3>5, <3>6 DEF SpentIsSpent
  <2> QED
    BY <2>5, <2>6, <2>7, <2>8, <2>9, <2>10 DEF IInv
\* The device after the token is spent.
<1>5. /\ o \in Devices
      /\ o.pk = device.pk /\ o.setup = device.setup /\ o.gen = device.gen
      /\ o.acked = device.acked
      /\ o.confirmed /\ o.last = m /\ o.codes = device.codes \ {token}
  <2>1. m \in Last
    BY <1>3 DEF Last
  <2> HIDE DEF m
  <2>2. device \in Columns
    BY <1>0, Columned
  <2>3. device.codes \ {token} \in Codes
    BY <2>2 DEF Columns, Codes
  <2>4. o \in Columns
    BY <2>1, <2>2, <2>3 DEF Columns
  <2> QED
    BY <2>1, <2>2, <2>4, Columned DEF Columns
<1>6. device.gen \in Nat /\ device.gen <= serial
  BY <1>0 DEF IInv, Numbered
<1>7. CASE device.acked /\ ~renew
  <2>1. device' = o /\ serial' = serial /\ mark_verified(s, device, session[s].bundle)
    BY <1>7 DEF verify, Locked, Spent
  <2>2. session[s].bundle \in Ids /\ serial \in Ids
    BY <1>0 DEF Session, IInv, TypeInv
  <2> HIDE DEF o, m
  <2>3. device' \in Devices /\ serial' \in Ids /\ device'.gen <= serial'
    BY <1>0, <1>5, <1>6, <2>1, <2>2
  <2>4. device'.acked => (device.acked /\ device'.gen = device.gen)
    BY <1>5, <2>1
  <2>5. /\ device'.pk = device.pk /\ device'.setup = device.setup /\ device'.confirmed
        /\ device'.last = m /\ device'.codes = device.codes \ {token}
    BY <1>5, <2>1
  <2>6. serial <= serial'
    BY <1>0, <2>1
  <2> QED
    BY <1>4, <2>1, <2>2, <2>3, <2>4, <2>5, <2>6
<1>8. CASE ~(device.acked /\ ~renew)
  <2>1. /\ serial < MAX_IDS /\ serial' = serial + 1
        /\ device' = generate_recovery_codes(o) /\ mark_verified(s, device, serial + 1)
    BY <1>8 DEF verify, Locked, Spent
  <2>2. serial + 1 \in Ids
    BY <1>0, <2>1 DEF Ids
  <2> HIDE DEF o, m
  <2> PICK k \in Ids : k = serial + 1
    BY <2>2
  <2> PICK c : c = {Code(k, i) : i \in Slots}
    OBVIOUS
  <2>3. device' = [o EXCEPT !.gen = serial + 1, !.acked = FALSE, !.codes = c]
    BY <2>1 DEF generate_recovery_codes
  <2>4. /\ device' \in Devices
        /\ device'.pk = o.pk /\ device'.setup = o.setup /\ device'.gen = serial + 1
        /\ ~device'.acked
        /\ device'.confirmed = o.confirmed /\ device'.last = o.last /\ device'.codes = c
        /\ \A t \in c : t.of = serial + 1
    <3>1. c \in Codes
      BY DEF Codes
    <3>2. o \in Columns
      BY <1>5, Columned
    <3>3. device' \in Columns
      BY <2>2, <2>3, <3>1, <3>2 DEF Columns
    <3>4. /\ device'.pk = o.pk /\ device'.setup = o.setup /\ device'.gen = serial + 1
          /\ ~device'.acked
          /\ device'.confirmed = o.confirmed /\ device'.last = o.last /\ device'.codes = c
      BY <2>3, <3>2 DEF Columns
    <3>5. \A t \in c : t.of = serial + 1
      BY DEF Code
    <3> QED
      BY <3>3, <3>4, <3>5, Columned
  <2>5. serial' \in Ids /\ serial < serial'
    BY <1>0, <2>1, <2>2
  <2> QED
    BY <1>0, <1>4, <1>5, <2>1, <2>2, <2>4, <2>5
<1> QED
  BY <1>7, <1>8

LEMMA TokenSteps ==
  ASSUME IInv, NEW s \in Sessions, Enroll(s) \/ Verify(s) \/ replace_recovery_codes(s)
  PROVE  IInv'
<1>1. \E token \in Tokens(device), enrollment, renew \in BOOLEAN :
         \/ verify(s, token, enrollment, renew)
         \/ Refuse(s, token, enrollment)
  BY DEF Enroll, Verify, replace_recovery_codes, Locked
<1> QED
  BY <1>1, VerifyStep, ThrottleSteps

\* The page of codes displays those of the request's device, and the button on it
\* acknowledges those on record, when they are the ones the session made.
LEMMA CodesSteps ==
  ASSUME IInv, NEW s \in Sessions, ShowCodes(s) \/ Acknowledge(s)
  PROVE  IInv'
<1> USE IdTypes
<1>0. /\ session[s] \in Session /\ session \in [Sessions -> Session]
      /\ request[s].device \in Devices
      /\ device \in Devices /\ shown \subseteq Ids
      /\ Idle \in [view : Views, device : Devices] /\ Idle.view = "none"
  BY NoDeviceType DEF IInv, TypeInv, Idle, Views
<1>1. CASE ShowCodes(s)
  <2> DEFINE d == request[s].device
             on == [session[s] EXCEPT !.page = d.gen]
             off == [session[s] EXCEPT !.page = 0, !.bundle = 0]
             stays == [session[s] EXCEPT !.page = 0]
  <2>1. d.gen \in Ids
    BY <1>0, Columned DEF Columns
  <2>2. /\ request' = [request EXCEPT ![s] = Idle]
        /\ UNCHANGED <<device, clock, serial, used, password, edit>>
    BY <1>1 DEF ShowCodes, Answered
  <2>3. \/ /\ session' = [session EXCEPT ![s] = on] /\ shown' = shown \cup {d.gen}
           /\ session[s].bundle # 0 /\ session[s].bundle = d.gen
        \/ session' = [session EXCEPT ![s] = off] /\ shown' = shown
        \/ session' = [session EXCEPT ![s] = stays] /\ shown' = shown
    <3> HIDE DEF d
    <3>1. CASE is_verified(s, d) /\ recovery_bundle(s, d)
      BY <1>0, <1>1, <3>1 DEF ShowCodes, recovery_bundle, d
    <3>2. CASE ~(is_verified(s, d) /\ recovery_bundle(s, d))
      <4>1. session' = [session EXCEPT ![s].page = 0,
                                       ![s].bundle = IF is_verified(s, d) THEN 0 ELSE @]
            /\ shown' = shown
        BY <1>1, <3>2 DEF ShowCodes, d
      <4>2. CASE is_verified(s, d)
        BY <1>0, <4>1, <4>2
      <4>3. CASE ~is_verified(s, d)
        <5>1. session' = [session EXCEPT ![s] = [stays EXCEPT !.bundle = stays.bundle]]
          BY <1>0, <4>1, <4>3
        <5>2. [stays EXCEPT !.bundle = stays.bundle] = stays
          BY <1>0 DEF Session
        <5> QED
          BY <4>1, <5>1, <5>2
      <4> QED
        BY <4>2, <4>3
    <3> QED
      BY <3>1, <3>2
  <2>4. \A n \in {on, off, stays} :
          n \in Session /\ n.otp = session[s].otp /\ n.proved = session[s].proved
    BY ZenonT(30), <1>0, <2>1 DEF Session
  <2>5. on.page = d.gen /\ on.bundle = session[s].bundle /\ off.page = 0 /\ stays.page = 0
    BY <1>0 DEF Session
  <2>6. shown \subseteq shown' /\ shown' \subseteq Ids
    BY <1>0, <2>1, <2>3
  <2> HIDE DEF d, on, off, stays
  <2>7. \E n \in {on, off, stays} :
          /\ session' = [session EXCEPT ![s] = n]
          /\ n.page # 0 => /\ n.page \in shown'
                           /\ n.bundle # 0 => n.page = n.bundle
    BY <2>3, <2>5
  <2> QED
    BY <1>0, <2>2, <2>4, <2>6, <2>7, SessionChange
<1>2. CASE Acknowledge(s)
  <2> DEFINE off == [session[s] EXCEPT !.bundle = 0, !.page = 0]
             stays == [session[s] EXCEPT !.page = 0]
  <2>1. /\ request' = [request EXCEPT ![s] = Idle]
        /\ UNCHANGED <<clock, serial, used, shown, password, edit>>
    BY <1>2 DEF Acknowledge, Answered
  <2>2. /\ off \in Session /\ off.otp = session[s].otp /\ off.proved = session[s].proved
        /\ off.page = 0
        /\ stays \in Session /\ stays.otp = session[s].otp /\ stays.proved = session[s].proved
        /\ stays.page = 0
    BY <1>0 DEF Session
  <2>3. \E n \in {off, stays} : session' = [session EXCEPT ![s] = n]
    BY <1>0, <1>2 DEF Acknowledge
  <2>4. \/ device' = device
        \/ /\ device' = [device EXCEPT !.acked = TRUE]
           /\ device.pk # 0 /\ device.gen \in shown
    <3>1. CASE is_verified(s, request[s].device) /\ device.pk = request[s].device.pk
               /\ recovery_bundle(s, device)
      <4>1. session[s].page # 0
        BY <1>2 DEF Acknowledge, IInv, PagesWereShown
      <4>2. device.gen \in shown
        BY <3>1, <4>1 DEF recovery_bundle, IInv, PagesWereShown
      <4> QED
        BY <1>2, <3>1, <4>2 DEF Acknowledge, is_verified, Locked
    <3>2. CASE ~(is_verified(s, request[s].device) /\ device.pk = request[s].device.pk
                 /\ recovery_bundle(s, device))
      BY <1>2, <3>2 DEF Acknowledge, Locked
    <3> QED
      BY <3>1, <3>2
  <2> HIDE DEF off, stays
  <2>5. /\ device' \in Devices
        /\ device'.pk = device.pk /\ device'.setup = device.setup
        /\ device'.gen = device.gen /\ device'.confirmed = device.confirmed
        /\ device'.last = device.last /\ device'.codes = device.codes
        /\ device'.acked => (device.acked \/ (device.pk # 0 /\ device.gen \in shown))
    <3>1. CASE device' = device
      BY <1>0, <3>1
    <3>2. CASE device' = [device EXCEPT !.acked = TRUE]
               /\ device.pk # 0 /\ device.gen \in shown
      BY <1>0, <3>2, Flagged
    <3> QED
      BY <2>4, <3>1, <3>2
  <2> QED
    BY <1>0, <2>1, <2>2, <2>3, <2>5, SessionChange
<1> QED
  BY <1>1, <1>2

\* An operator's reset: no device, and every number given out is in the past.
LEMMA ResetStep ==
  ASSUME IInv, reset_authenticator
  PROVE  IInv'
<1>1. device' = NoDevice /\ UNCHANGED <<session, request, clock, serial, used, shown,
                                        password, edit>>
  BY DEF reset_authenticator, Deleted
<1>2. serial \in Nat
  BY IdTypes DEF IInv, TypeInv
<1>3. TypeInv' /\ EditsAreTrue'
  BY <1>1, NoDeviceType DEF IInv, TypeInv, EditsAreTrue
<1>4. /\ device'.pk = 0 /\ device'.setup = 0 /\ device'.gen = 0 /\ device'.codes = {}
      /\ ~device'.confirmed /\ ~device'.acked
  BY <1>1 DEF NoDevice
<1>5. Numbered'
  BY <1>1, <1>2, <1>4 DEF IInv, Numbered
<1>6. VerifiedIsProved'
  BY <1>4 DEF VerifiedIsProved
<1>7. PagesWereShown'
  BY <1>1, <1>4 DEF IInv, PagesWereShown
<1>8. SpentIsSpent'
  <2>1. \A i \in DOMAIN used : used[i].of # 0
    BY <1>2 DEF IInv, Numbered
  <2> QED
    BY <1>1, <1>4, <2>1 DEF IInv, SpentIsSpent
<1> QED
  BY <1>3, <1>5, <1>6, <1>7, <1>8 DEF IInv

\* The saves of the account touch the password and its trail.
LEMMA PasswordSteps ==
  ASSUME IInv,
         \/ \E s \in Sessions : ChangePassword(s)
         \/ ResetPassword
         \/ \E e \in Editors : \/ EditLoads(e) \/ remember_previous_password(e)
                              \/ record_password_change(e)
  PROVE  IInv' /\ UNCHANGED <<device, shown, used>>
<1> USE IdTypes
<1>0. /\ password \in [now : 1 .. MAX_PASSWORDS, chosen : 1 .. MAX_PASSWORDS, recorded : Nat]
      /\ edit \in [Editors -> Edit]
  BY DEF IInv, TypeInv
<1>1. /\ password' \in [now : 1 .. MAX_PASSWORDS, chosen : 1 .. MAX_PASSWORDS, recorded : Nat]
      /\ edit' \in [Editors -> Edit]
      /\ EditsAreTrue'
  <2>1. CASE (\E s \in Sessions : ChangePassword(s)) \/ ResetPassword
    <3>1. password' = Chosen /\ edit' = edit /\ password.chosen < MAX_PASSWORDS
      BY <2>1 DEF ChangePassword, ResetPassword
    <3>2. /\ Chosen \in [now : 1 .. MAX_PASSWORDS, chosen : 1 .. MAX_PASSWORDS, recorded : Nat]
          /\ Chosen.now = password.chosen + 1 /\ Chosen.chosen = password.chosen + 1
      BY <1>0, <3>1 DEF Chosen
    <3>3. \A e \in Editors : edit[e].copy \in Nat
      BY <1>0 DEF Edit
    <3> QED
      BY <1>0, <3>1, <3>2, <3>3 DEF IInv, EditsAreTrue
  <2>2. ASSUME NEW e \in Editors, EditLoads(e) \/ remember_previous_password(e)
        PROVE  <1>1
    <3>1. PICK row \in Edit :
            /\ edit' = [edit EXCEPT ![e] = row]
            /\ row.copy >= 1 /\ row.copy <= password.chosen
            /\ row.step = "compared" => (row.differs <=> row.copy # row.met)
      <4>1. CASE EditLoads(e)
        <5> DEFINE row == [step |-> "loaded", copy |-> password.now, differs |-> FALSE,
                           met |-> 0]
        <5>1. row \in Edit /\ row.step = "loaded" /\ row.copy = password.now
          BY <1>0, IdTypes DEF Edit
        <5>2. edit' = [edit EXCEPT ![e] = row]
          BY <4>1 DEF EditLoads
        <5>3. password.now >= 1 /\ password.now <= password.chosen
          BY <1>0 DEF IInv, EditsAreTrue
        <5> HIDE DEF row
        <5> QED
          BY <5>1, <5>2, <5>3
      <4>2. CASE remember_previous_password(e)
        <5> DEFINE row == [edit[e] EXCEPT !.step = "compared", !.met = password.now,
                                          !.differs = Differs(e)]
        <5>1. edit[e] \in Edit /\ edit[e].step # "none"
          BY <1>0, <4>2 DEF remember_previous_password
        <5>2. /\ row \in Edit /\ row.copy = edit[e].copy /\ row.met = password.now
              /\ row.differs = Differs(e)
          <6>1. password.now \in 0 .. MAX_PASSWORDS /\ Differs(e) \in BOOLEAN
            BY <1>0 DEF Differs
          <6> QED
            BY <5>1, <6>1 DEF Edit
        <5>3. edit' = [edit EXCEPT ![e] = row]
          BY <1>0, <4>2 DEF remember_previous_password
        <5>4. edit[e].copy >= 1 /\ edit[e].copy <= password.chosen
          BY <5>1 DEF IInv, EditsAreTrue
        <5> HIDE DEF row
        <5> QED
          BY <5>2, <5>3, <5>4 DEF Differs
      <4> QED
        BY <2>2, <4>1, <4>2
    <3>2. password' = password
      BY <2>2 DEF EditLoads, remember_previous_password
    <3> QED
      BY <1>0, <3>1, <3>2 DEF IInv, EditsAreTrue
  <2>3. ASSUME NEW e \in Editors, record_password_change(e)
        PROVE  <1>1
    <3>0. edit[e].copy \in Nat
      BY <1>0 DEF Edit
    <3>1. /\ edit[e].copy >= 1 /\ edit[e].copy <= password.chosen
          /\ edit[e].copy \in 1 .. MAX_PASSWORDS
      <4>1. edit[e].copy >= 1 /\ edit[e].copy <= password.chosen
        BY <2>3 DEF record_password_change, IInv, EditsAreTrue
      <4> QED
        BY <1>0, <3>0, <4>1
    <3>2. NoEdit.step = "none" /\ NoEdit \in Edit
      BY DEF NoEdit, Edit
    <3>3. PICK k \in Nat :
            password' = [password EXCEPT !.now = edit[e].copy, !.recorded = k]
      <4> DEFINE k == password.recorded + (IF edit[e].differs THEN 1 ELSE 0)
      <4>1. k \in Nat
        BY <1>0
      <4>2. password' = [password EXCEPT !.now = edit[e].copy, !.recorded = k]
        BY <2>3 DEF record_password_change
      <4> HIDE DEF k
      <4> QED
        BY <4>1, <4>2
    <3>4. edit' = [edit EXCEPT ![e] = NoEdit]
      BY <2>3 DEF record_password_change
    <3>5. /\ password' \in [now : 1 .. MAX_PASSWORDS, chosen : 1 .. MAX_PASSWORDS, recorded : Nat]
          /\ password'.now = edit[e].copy /\ password'.chosen = password.chosen
      BY <1>0, <3>1, <3>3
    <3> HIDE DEF NoEdit
    <3> QED
      BY <1>0, <3>1, <3>2, <3>4, <3>5 DEF IInv, EditsAreTrue
  <2> QED
    BY <2>1, <2>2, <2>3
<1>2. /\ session' \in [Sessions -> Session]
      /\ \A x \in Sessions :
           /\ session'[x].otp = session[x].otp
           /\ session'[x].page = session[x].page
           /\ session'[x].bundle = session[x].bundle
           /\ session'[x].proved = session[x].proved
  <2>1. ASSUME NEW s \in Sessions, ChangePassword(s)
        PROVE  <1>2
    <3>1. Chosen.now \in 0 .. MAX_PASSWORDS
      BY <1>0, <2>1 DEF ChangePassword, Chosen
    <3> QED
      BY ZenonT(30), <2>1, <3>1 DEF ChangePassword, IInv, TypeInv, Session
  <2> QED
    BY <2>1 DEF ResetPassword, EditLoads, remember_previous_password,
                record_password_change, IInv, TypeInv
<1>3. /\ request' \in [Sessions -> [view : Views, device : Devices]]
      /\ \A x \in Sessions : request'[x].view \in {"none", request[x].view}
  <2>1. ASSUME NEW s \in Sessions, ChangePassword(s)
        PROVE  <1>3
    BY <2>1, AnsweredRequest DEF ChangePassword, IInv
  <2> QED
    BY <2>1 DEF ResetPassword, EditLoads, remember_previous_password,
                record_password_change, IInv, TypeInv
<1>4. UNCHANGED <<device, clock, serial, used, shown>>
  BY DEF ChangePassword, ResetPassword, EditLoads, remember_previous_password,
         record_password_change
<1>5. TypeInv'
  BY <1>1, <1>2, <1>3, <1>4 DEF IInv, TypeInv
<1>6. Numbered' /\ VerifiedIsProved'
  BY <1>2, <1>4 DEF IInv, Numbered, VerifiedIsProved
<1>7. PagesWereShown'
  BY <1>2, <1>3, <1>4 DEF IInv, PagesWereShown
<1>8. SpentIsSpent'
  BY <1>4 DEF IInv, SpentIsSpent
<1> QED
  BY <1>1, <1>4, <1>5, <1>6, <1>7, <1>8 DEF IInv

LEMMA NextIInv == IInv /\ [Next]_vars => IInv'
<1> SUFFICES ASSUME IInv, [Next]_vars PROVE IInv'
  OBVIOUS
<1>1. CASE UNCHANGED vars
  BY <1>1 DEF vars, IInv, TypeInv, EditsAreTrue, Numbered, VerifiedIsProved, PagesWereShown,
              SpentIsSpent
<1>2. ASSUME NEW s \in Sessions,
             \/ \E view \in FLOW_VIEWS \cup {"other"} : process_view(s, view)
             \/ SignedOut(s) \/ Login(s) \/ PasswordAges(s) \/ BundleAges(s)
             \/ AnswerOther(s)
      PROVE  IInv'
  BY <1>2, SessionSteps
<1>3. ASSUME NEW s \in Sessions, begin_setup(s)
      PROVE  IInv'
  BY <1>3, SetupStep
<1>4. ASSUME NEW s \in Sessions, Enroll(s) \/ Verify(s) \/ replace_recovery_codes(s)
      PROVE  IInv'
  BY <1>4, TokenSteps
<1>5. ASSUME NEW s \in Sessions, ShowCodes(s) \/ Acknowledge(s)
      PROVE  IInv'
  BY <1>5, CodesSteps
<1>6. CASE Tick
  BY <1>6, ThrottleSteps
<1>7. CASE reset_authenticator
  BY <1>7, ResetStep
<1>8. CASE \/ \E s \in Sessions : ChangePassword(s)
           \/ ResetPassword
           \/ \E e \in Editors : \/ EditLoads(e) \/ remember_previous_password(e)
                                \/ record_password_change(e)
  BY <1>8, PasswordSteps
<1> QED
  BY <1>1, <1>2, <1>3, <1>4, <1>5, <1>6, <1>7, <1>8 DEF Next

LEMMA Invariance == Spec => []IInv
<1>1. Init => IInv
  BY InitIInv
<1>2. IInv /\ [Next]_vars => IInv'
  BY NextIInv
<1> QED
  BY <1>1, <1>2, PTL DEF Spec

-----------------------------------------------------------------------------
\* The columns of the device, the keys of the sessions and the account's trail
\* hold values of their types at every moment (AuthenticatorDevice, mfa.py).
THEOREM TypeCorrect == Spec => []TypeOK
<1>1. IInv => TypeOK
  BY DEF IInv, TypeInv, TypeOK, Session, Views, Edit
<1> QED
  BY <1>1, Invariance, PTL

\* A session counts as verified only if it proved the secret on record: a reset and
\* a new enrolment, or another login, leave no old verification behind.
THEOREM PossessionIsProved == Spec => []PossessionProved
<1>1. IInv => PossessionProved
  BY DEF IInv, VerifiedIsProved, PossessionProved, is_verified
<1> QED
  BY <1>1, Invariance, PTL

\* verify accepts no token and no recovery code a second time, for any number of
\* sessions whose requests interleave.
THEOREM TokensAreSpentOnce == Spec => []NoTokenTwice
<1>1. IInv => NoTokenTwice
  BY DEF IInv, SpentIsSpent, NoTokenTwice
<1> QED
  BY <1>1, Invariance, PTL

\* Codes on record that count as acknowledged were on somebody's screen.
THEOREM AcknowledgedWereShown == Spec => []AcknowledgedCodesWereShown
<1>1. IInv => AcknowledgedCodesWereShown
  BY DEF IInv, PagesWereShown, AcknowledgedCodesWereShown
<1> QED
  BY <1>1, Invariance, PTL

\* A change of the password that leaves no row of the audit brings back what was in
\* force when the save that makes it compared, however many saves overlap.
THEOREM RevertsOnly == Spec => UnrecordedOnlyReverts
<1>1. IInv /\ [Next]_vars =>
        [password'.now # password.now /\ password'.recorded = password.recorded =>
           \E e \in Editors : edit[e].step = "compared" /\ edit[e].met = password'.now]_vars
  <2> SUFFICES ASSUME IInv, Next,
                      password'.now # password.now,
                      password'.recorded = password.recorded
               PROVE  \E e \in Editors :
                        edit[e].step = "compared" /\ edit[e].met = password'.now
    OBVIOUS
  <2>1. /\ password \in [now : 1 .. MAX_PASSWORDS, chosen : 1 .. MAX_PASSWORDS, recorded : Nat]
        /\ edit \in [Editors -> Edit]
    BY DEF IInv, TypeInv
  <2>2. password' # Chosen
    BY <2>1 DEF Chosen
  <2>3. password' # password
    OBVIOUS
  <2>4. PICK e \in Editors : record_password_change(e)
    BY ZenonT(30), <2>2, <2>3 DEF Next, process_view, SignedOut, Login, PasswordAges, BundleAges,
       begin_setup, Enroll, Verify, replace_recovery_codes, verify, Refuse, ShowCodes,
       Acknowledge, ChangePassword, AnswerOther, Tick, reset_authenticator, ResetPassword,
       EditLoads, remember_previous_password
  <2>5. edit[e] \in Edit /\ edit[e].step = "compared" /\ password'.now = edit[e].copy
    BY <2>1, <2>4 DEF record_password_change
  <2>6. ~edit[e].differs
    <3>1. edit[e].differs => password'.recorded = password.recorded + 1
      BY <2>1, <2>4 DEF record_password_change
    <3> QED
      BY <2>1, <3>1
  <2>7. edit[e].met = edit[e].copy
    BY <2>5, <2>6 DEF IInv, EditsAreTrue
  <2> QED
    BY <2>5, <2>7
<1> QED
  BY <1>1, Invariance, PTL DEF Spec, UnrecordedOnlyReverts
=============================================================================
