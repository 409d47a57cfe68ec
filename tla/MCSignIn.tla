------------------------------ MODULE MCSignIn ------------------------------
(* SignIn for TLC: two sessions of the account that are interchangeable,    *)
(* and two administrators.                                                  *)
EXTENDS SignIn, TLC

Symmetry == Permutations(Sessions) \cup Permutations(Editors)

(* Ids are never handed out again, so a session's reference to a device, a  *)
(* setup or a generation that is gone is as good as none, and the tokens of *)
(* a secret that is gone can no longer be typed.  No code reads how many     *)
(* rows the audit has; a step is judged by whether it adds one.             *)
Live(s) ==
  LET v == session[s]
      loaded == request[s].device
      verified == v.otp # 0 /\ v.otp \in {device.pk, loaded.pk}
  IN [hash |-> v.hash, fresh |-> v.fresh, page |-> v.page # 0,
      setup |-> v.setup # 0 /\ v.setup = device.setup,
      bundle |-> v.bundle # 0 /\ v.bundle = device.gen,
      loaded |-> v.bundle # 0 /\ v.bundle = loaded.gen,
      otp |-> verified, proved |-> verified /\ v.proved = device.setup]

View == <<device, [s \in Sessions |-> Live(s)],
          [s \in Sessions |-> LET d == request[s].device
                              IN <<request[s].view, d.pk # 0 /\ d.pk = device.pk,
                                   d.gen # 0 /\ d.gen = device.gen, d.confirmed>>],
          clock, serial, {t \in {used[i] : i \in DOMAIN used} : t.of \in {device.setup, device.gen}},
          device.gen \in shown, password.now, password.chosen, edit>>

(* The administrators' saves overlap each other and the sessions, but no     *)
(* request half way, and not the clock: they touch different rows.  A second *)
(* password and a second device are not combined.                            *)
Bounded == /\ (\E e \in Editors : edit[e] # NoEdit) =>
                 clock = 0 /\ \A s \in Sessions : request[s] = Idle
           /\ serial + password.chosen <= MAX_IDS + 1
=============================================================================
