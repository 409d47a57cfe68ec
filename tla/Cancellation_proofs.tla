------------------------ MODULE Cancellation_proofs ------------------------
(***************************************************************************)
(* Theorems about Cancellation, for any tickets, response requests and     *)
(* transactions beside one another.                                        *)
(*                                                                         *)
(* The argument: what a transaction has asked under its locks stays true   *)
(* until it commits, because every other service writes a row under that   *)
(* row's lock.  Cancellations lock in one order: the project, the ticket,  *)
(* and then rows that are waited for by nobody who holds a project.        *)
(***************************************************************************)
EXTENDS Cancellation, TLAPS

\* The kinds of perform_cancellation.
Cancelling == {"request", "direct", "approve", "decline"}

\* What a transaction of each kind is about.
Shape(x) ==
    /\ x.kind \in Cancelling => x.ticket \in Tickets /\ x.duplicate_of # x.ticket
    /\ x.kind \notin Cancelling => x.ticket = NoTicket
    /\ x.kind \in Cancelling /\ ~x.decided => x.work = {}
    /\ x.kind = "update" => \E s \in Subtasks : x.work = {s}
    /\ x.decided => Cancels(x)

\* The order of its locks: the project before anything else, the ticket before
\* any other ticket, and a response request only to cancel it.
HoldsInOrder(x) ==
    /\ x.kind \in Cancelling =>
        /\ x.holds # {} => ProjectOf(x.ticket) \subseteq x.holds
        /\ x.ticket \notin x.holds => x.holds \subseteq ProjectOf(x.ticket)
        /\ x.holds \cap Subtasks \subseteq x.work
    /\ x.kind = "review" =>
        /\ x.holds # {} => Project \in x.holds
        /\ x.holds \cap Subtasks = {}

\* What it decided on still holds, and its locks see to that.
DecisionHolds(x) ==
    x.decided =>
        /\ x.ticket \in x.holds
        /\ Admitted(x)
        /\ Original(x) \in x.holds \cup {NoTicket}
        /\ Original(x) \in Referable
        /\ x.work = Outstanding(x.ticket)

\* A form that is not outdated shows the status of its response request.
FormCurrent(x) ==
    x.kind = "update" /\ x.fresh =>
        /\ x.loaded \in TaskOpen \cup {"DONE"}
        /\ \A s \in x.work : task[s] = x.loaded

TxOK(x) == Shape(x) /\ HoldsInOrder(x) /\ DecisionHolds(x) /\ FormCurrent(x)

TransactionsOK == \A p \in Procs, x \in Transaction : tx[p] = x => TxOK(x)

\* A row is locked by one transaction at a time.
Exclusive ==
    \A p, q \in Procs, x, y \in Transaction :
        p # q /\ tx[p] = x /\ tx[q] = y => x.holds \cap y.holds = {}

\* A ticket waits for one decision at a time, is not its own original, and has an
\* approved request once it is cancelled only.
RequestsOK ==
    \A t \in Tickets :
        /\ \A i, j \in 1 .. MaxRequests :
            requests[t][i].status = "PENDING" /\ requests[t][j].status = "PENDING" => i = j
        /\ \A i \in 1 .. MaxRequests : requests[t][i].duplicate_of # t
        /\ status[t] # "CANCELLED" =>
            \A i \in 1 .. MaxRequests : requests[t][i].status # "APPROVED"

IInv ==
    /\ TypeOK
    /\ TransactionsOK
    /\ Exclusive
    /\ RequestsOK
    /\ NothingWaitsOnClosed
    /\ NoDuplicateCycle

LEMMA InitIInv == Init => IInv
<1> SUFFICES ASSUME Init PROVE IInv
  OBVIOUS
<1>1. TypeOK
  BY DEF Init, TypeOK, Statuses, CancellationRequest, TaskStatuses
<1>2. TransactionsOK /\ Exclusive
  BY IdleIsNoTransaction DEF Init, TransactionsOK, Exclusive
<1>3. RequestsOK
  BY CancellationAssumption DEF Init, RequestsOK, NoRequest
<1>4. NothingWaitsOnClosed /\ NoDuplicateCycle
  BY DEF Init, NothingWaitsOnClosed, NoRequestOutlivesTicket, CancelledHasNoOpenWork,
         NoDuplicateCycle, TERMINAL_STATUSES, RESOLVED_STATUSES
<1> QED
  BY <1>1, <1>2, <1>3, <1>4 DEF IInv

-----------------------------------------------------------------------------
(***************************************************************************)
(* Operators                                                               *)
(***************************************************************************)

\* Pending, as a function of the requests of one ticket.
PendingIn(list) ==
    IF \E i \in 1 .. MaxRequests : list[i].status = "PENDING"
    THEN CHOOSE i \in 1 .. MaxRequests : list[i].status = "PENDING"
    ELSE 0

\* What the number of the pending request is.
LEMMA PendingIs ==
    ASSUME NEW list
    PROVE  /\ PendingIn(list) \in 0 .. MaxRequests
           /\ PendingIn(list) = 0 <=>
                \A i \in 1 .. MaxRequests : list[i].status # "PENDING"
           /\ PendingIn(list) # 0 =>
                /\ PendingIn(list) \in 1 .. MaxRequests
                /\ list[PendingIn(list)].status = "PENDING"
<1>1. CASE \E i \in 1 .. MaxRequests : list[i].status = "PENDING"
  <2>1. /\ PendingIn(list) \in 1 .. MaxRequests
        /\ list[PendingIn(list)].status = "PENDING"
    BY <1>1, Zenon DEF PendingIn
  <2> QED
    BY <1>1, <2>1, CancellationAssumption
<1>2. CASE ~ \E i \in 1 .. MaxRequests : list[i].status = "PENDING"
  BY <1>2, CancellationAssumption DEF PendingIn
<1> QED
  BY <1>1, <1>2

LEMMA PendingOf ==
    ASSUME NEW t
    PROVE  Pending(t) = PendingIn(requests[t]) /\ Pending(t)' = PendingIn(requests'[t])
BY DEF Pending, PendingIn

\* A service that writes the tickets of T and their response requests only.
Confined(T) ==
    /\ \A t \in Tickets \ T : status'[t] = status[t] /\ requests'[t] = requests[t]
    /\ \A s \in Subtasks : Parent[s] \notin T => task'[s] = task[s]

\* The original of an admitted or decided transaction is a ticket.
LEMMA OriginalIsTicket ==
    ASSUME TypeOK, NEW x \in Transaction, x.kind \in Cancelling => x.ticket \in Tickets
    PROVE  Original(x) \in Tickets \cup {NoTicket}
<1>1. CASE x.kind = "direct"
  BY <1>1 DEF Original, Transaction
<1>2. CASE x.kind = "approve" /\ Pending(x.ticket) # 0
  <2>1. x.ticket \in Tickets /\ x.kind # "direct"
    BY <1>2 DEF Cancelling
  <2>2. Pending(x.ticket) \in 1 .. MaxRequests
    BY <1>2, PendingOf, PendingIs
  <2>3. requests[x.ticket][Pending(x.ticket)] \in CancellationRequest
    BY <2>1, <2>2 DEF TypeOK
  <2> QED
    BY <1>2, <2>1, <2>3 DEF Original, CancellationRequest, NoRequest
<1>3. CASE x.kind # "direct" /\ ~(x.kind = "approve" /\ Pending(x.ticket) # 0)
  BY <1>3 DEF Original
<1> QED
  BY <1>1, <1>2, <1>3

\* What was decided under locks stays true while others write.
LEMMA DecisionStands ==
    ASSUME TypeOK, NEW x \in Transaction, Shape(x), DecisionHolds(x),
           NEW T, Confined(T), x.holds \cap T = {}
    PROVE  DecisionHolds(x)'
<1> SUFFICES ASSUME x.decided PROVE DecisionHolds(x)'
  BY DEF DecisionHolds
<1> DEFINE t == x.ticket
           o == Original(x)
<1>1. t \in Tickets /\ t \in x.holds /\ t \notin T /\ Cancels(x)
  BY DEF Shape, Cancels, Cancelling, DecisionHolds
<1>2. status'[t] = status[t] /\ requests'[t] = requests[t]
  BY <1>1 DEF Confined
<1>3. Pending(t)' = Pending(t)
  BY <1>2, PendingOf
<1>4. Used(t)' = Used(t)
  <2>1. {i \in 1 .. MaxRequests : requests'[t][i] # NoRequest}
            = {i \in 1 .. MaxRequests : requests[t][i] # NoRequest}
    BY <1>2
  <2> QED
    BY <2>1 DEF Used
<1>5. Outstanding(t)' = Outstanding(t)
  BY <1>1 DEF Outstanding, Confined
<1>6. o' = o
  BY <1>2, <1>3 DEF Original
<1>7. o \in Referable => (o \in Referable)'
  <2>1. o \in Tickets \cup {NoTicket}
    BY OriginalIsTicket DEF Shape
  <2>2. o \in x.holds \cup {NoTicket}
    BY DEF DecisionHolds
  <2>3. o \in Tickets => status'[o] = status[o] \/ o = NoTicket
    BY <2>2 DEF Confined
  <2> HIDE DEF o
  <2> QED
    BY <1>6, <2>1, <2>3 DEF Referable
<1>8. Admitted(x)'
  <2>1. Admitted(x)
    BY DEF DecisionHolds
  <2>2. x.kind = "direct" => o = x.duplicate_of
    BY DEF Original
  <2>3. x.kind = "direct" => (x.duplicate_of \in Referable)'
    BY <1>6, <1>7, <2>2 DEF DecisionHolds
  <2> QED
    BY <1>1, <1>2, <1>3, <1>4, <2>1, <2>3
       DEF Admitted, can_cancel_directly, Cancels
<1>9. /\ Original(x)' = Original(x)
      /\ (Original(x) \in Referable)'
  BY <1>6, <1>7 DEF DecisionHolds
<1> QED
  BY <1>1, <1>5, <1>8, <1>9 DEF DecisionHolds

\* The other transactions where p writes the tickets of T: they hold none of
\* them, and the forms that show what is written become outdated.
OthersKeep(p, T) ==
    \A q \in Procs \ {p} :
        /\ tx[q] = Idle => tx'[q] = Idle
        /\ \A x \in Transaction : tx[q] = x =>
            /\ x.holds \cap T = {}
            /\ \/ /\ tx'[q] = x
                  /\ x.kind = "update" /\ x.fresh => \A s \in x.work : task'[s] = task[s]
               \/ x.kind = "update" /\ tx'[q] = [x EXCEPT !.fresh = FALSE]

\* A transaction whose tickets nobody writes keeps what it has established.
LEMMA TxStands ==
    ASSUME TypeOK, NEW x \in Transaction, TxOK(x), NEW T, Confined(T), x.holds \cap T = {},
           x.kind = "update" /\ x.fresh => \A s \in x.work : task'[s] = task[s]
    PROVE  TxOK(x)'
<1>1. Shape(x)' /\ HoldsInOrder(x)'
  BY DEF TxOK, Shape, HoldsInOrder, Cancels, ProjectOf
<1>2. DecisionHolds(x)'
  BY DecisionStands DEF TxOK
<1>3. FormCurrent(x)'
  BY DEF TxOK, FormCurrent
<1> QED
  BY <1>1, <1>2, <1>3 DEF TxOK

\* An outdated form has nothing to lose.
LEMMA OutdatedStands ==
    ASSUME NEW x \in Transaction, TxOK(x), x.kind = "update"
    PROVE  /\ [x EXCEPT !.fresh = FALSE] \in Transaction
           /\ TxOK([x EXCEPT !.fresh = FALSE])'
<1> DEFINE y == [x EXCEPT !.fresh = FALSE]
<1>1. /\ y \in Transaction
      /\ y.kind = x.kind /\ y.ticket = x.ticket /\ y.decided = x.decided
      /\ y.work = x.work /\ y.holds = x.holds /\ y.fresh = FALSE
  BY DEF Transaction
<1>2. y.decided = FALSE
  BY <1>1 DEF TxOK, Shape, Cancels, Transaction
<1> HIDE DEF y
<1>3. Shape(y)' /\ HoldsInOrder(y)'
  BY <1>1 DEF TxOK, Shape, HoldsInOrder, Cancels, ProjectOf, Cancelling
<1>4. DecisionHolds(y)' /\ FormCurrent(y)'
  BY <1>1, <1>2 DEF DecisionHolds, FormCurrent
<1>5. TxOK(y)'
  BY <1>3, <1>4 DEF TxOK
<1> QED
  BY <1>1, <1>5 DEF y

\* What a step has to show of the transactions.
LEMMA TransactionsKept ==
    ASSUME IInv, TypeOK', NEW p, NEW T, Confined(T), OthersKeep(p, T),
           p \in Procs => \A x \in Transaction : tx'[p] = x =>
                /\ TxOK(x)'
                /\ \A q \in Procs \ {p}, y \in Transaction :
                        tx[q] = y => x.holds \cap y.holds = {}
    PROVE  TransactionsOK' /\ Exclusive'
<1>1. ASSUME NEW q \in Procs \ {p}, NEW y \in Transaction, tx'[q] = y
      PROVE  \E x \in Transaction : tx[q] = x /\ x.holds = y.holds /\ TxOK(y)'
  <2>1. PICK x \in Transaction : tx[q] = x
    BY <1>1, IdleIsNoTransaction DEF IInv, TypeOK, OthersKeep
  <2>2. TxOK(x)
    BY <2>1 DEF IInv, TransactionsOK
  <2>3. TypeOK /\ x.holds \cap T = {}
    BY <2>1 DEF OthersKeep, IInv
  <2>4. CASE /\ tx'[q] = x
             /\ x.kind = "update" /\ x.fresh => \A s \in x.work : task'[s] = task[s]
    BY <1>1, <2>1, <2>2, <2>3, <2>4, TxStands
  <2>5. CASE x.kind = "update" /\ tx'[q] = [x EXCEPT !.fresh = FALSE]
    <3>1. y = [x EXCEPT !.fresh = FALSE] /\ y.holds = x.holds
      BY <1>1, <2>5 DEF Transaction
    <3>2. TxOK(y)'
      BY <2>2, <2>5, <3>1, OutdatedStands
    <3> QED
      BY <2>1, <3>1, <3>2
  <2> QED
    BY <2>1, <2>4, <2>5 DEF OthersKeep
<1>2. TransactionsOK'
  <2> SUFFICES ASSUME NEW q \in Procs, NEW y \in Transaction, tx'[q] = y
               PROVE  TxOK(y)'
    BY DEF TransactionsOK
  <2> QED
    BY <1>1
<1>3. Exclusive'
  <2> SUFFICES ASSUME NEW q \in Procs, NEW r \in Procs, NEW x \in Transaction,
                      NEW y \in Transaction, q # r, tx'[q] = x, tx'[r] = y
               PROVE  x.holds \cap y.holds = {}
    BY DEF Exclusive
  <2>1. CASE q # p /\ r # p
    <3>1. PICK x0 \in Transaction : tx[q] = x0 /\ x0.holds = x.holds
      BY <1>1, <2>1
    <3>2. PICK y0 \in Transaction : tx[r] = y0 /\ y0.holds = y.holds
      BY <1>1, <2>1
    <3> QED
      BY <3>1, <3>2 DEF IInv, Exclusive
  <2>2. CASE q = p
    <3>1. PICK y0 \in Transaction : tx[r] = y0 /\ y0.holds = y.holds
      BY <1>1, <2>2
    <3> QED
      BY <2>2, <3>1
  <2>3. CASE r = p
    <3>1. PICK x0 \in Transaction : tx[q] = x0 /\ x0.holds = x.holds
      BY <1>1, <2>3
    <3> QED
      BY <2>3, <3>1
  <2> QED
    BY <2>1, <2>2, <2>3
<1> QED
  BY <1>2, <1>3

\* Steps that write no row.
LEMMA DataKept ==
    ASSUME IInv, UNCHANGED <<status, requests, task>>
    PROVE  /\ RequestsOK' /\ NothingWaitsOnClosed' /\ NoDuplicateCycle'
           /\ Confined({})
<1>1. RequestsOK'
  BY DEF IInv, RequestsOK
<1>2. NothingWaitsOnClosed'
  BY PendingOf DEF IInv, NothingWaitsOnClosed, NoRequestOutlivesTicket,
                   CancelledHasNoOpenWork, Outstanding
<1>3. NoDuplicateCycle'
  BY DEF IInv, NoDuplicateCycle, Duplicates
<1>4. Confined({})
  BY DEF Confined
<1> QED
  BY <1>1, <1>2, <1>3, <1>4

\* ... of transaction p, whatever becomes of it.
LEMMA PrivateStep ==
    ASSUME IInv, UNCHANGED <<status, requests, task>>, NEW p \in Procs,
           NEW new \in Transaction \cup {Idle}, tx' = [tx EXCEPT ![p] = new],
           new # Idle =>
                /\ TxOK(new)
                /\ \A q \in Procs \ {p}, y \in Transaction :
                        tx[q] = y => new.holds \cap y.holds = {}
    PROVE  IInv'
<1>1. TypeOK'
  BY DEF IInv, TypeOK
<1>2. Confined({})
  BY DataKept
<1>3. OthersKeep(p, {})
  BY DEF OthersKeep, IInv, TypeOK
<1>4. ASSUME NEW x \in Transaction, tx'[p] = x
      PROVE  /\ TxOK(x)'
             /\ \A q \in Procs \ {p}, y \in Transaction : tx[q] = y => x.holds \cap y.holds = {}
  <2>1. x = new /\ new # Idle
    BY <1>4, IdleIsNoTransaction DEF IInv, TypeOK
  <2>2. TxOK(x)
    BY <2>1
  <2>3. TxOK(x)'
    BY <1>2, <2>2, TxStands DEF IInv
  <2> QED
    BY <2>1, <2>3
<1> QED
  BY <1>1, <1>2, <1>3, <1>4, DataKept, TransactionsKept DEF IInv

-----------------------------------------------------------------------------
(***************************************************************************)
(* The steps of a transaction that write no row                            *)
(***************************************************************************)

\* A service has read its page and opens a transaction.
LEMMA BeginKeepsIInv ==
    ASSUME IInv, NEW p \in Procs, NEW x \in Transaction, Begin(p, x), x.holds = {}, ~x.decided,
           Shape(x), FormCurrent(x)
    PROVE  IInv'
<1>1. HoldsInOrder(x) /\ DecisionHolds(x)
  BY DEF HoldsInOrder, DecisionHolds
<1> QED
  BY <1>1, PrivateStep DEF Begin, TxOK

\* A transaction that has just been opened.
LEMMA NewTxIs ==
    ASSUME NEW kind \in Cancelling \cup {"update", "harden", "review"}
    PROVE  /\ NewTx(kind) \in Transaction
           /\ NewTx(kind).kind = kind /\ NewTx(kind).ticket = NoTicket
           /\ NewTx(kind).work = {} /\ NewTx(kind).holds = {} /\ NewTx(kind).decided = FALSE
<1> DEFINE approve == kind = "approve"
<1>1. approve \in BOOLEAN /\ 0 \in 0 .. MaxRequests /\ "NONE" \in TaskStatuses
  BY CancellationAssumption DEF TaskStatuses
<1>2. NewTx(kind) =
        [kind |-> kind, manager |-> approve, ticket |-> NoTicket, id |-> 0,
         duplicate_of |-> NoTicket, work |-> {}, selected |-> {}, decided |-> FALSE,
         loaded |-> "NONE", fresh |-> TRUE, holds |-> {}]
  BY Zenon DEF NewTx
<1> HIDE DEF approve
<1> QED
  BY <1>1, <1>2 DEF Transaction, Cancelling

LEMMA OpensKeepsIInv ==
    ASSUME IInv, NEW p \in Procs, Opens(p)
    PROVE  IInv'
<1> DEFINE Fresh(n, kind) ==
            /\ n = NewTx(kind) /\ n.kind = kind /\ n.ticket = NoTicket
            /\ n.work = {} /\ n.holds = {} /\ n.decided = FALSE
<1>1. CASE OpensCancellation(p)
  <2>1. PICK t \in Tickets, kind \in Cancelling, manager \in BOOLEAN,
             d \in Tickets \cup {NoTicket} : OpensForm(p, t, kind, manager, d)
    BY <1>1, Zenon DEF OpensCancellation, Cancelling
  <2>2. PICK n \in Transaction : Fresh(n, kind)
    BY NewTxIs
  <2>3. PICK i \in 0 .. MaxRequests : i = Pending(t)
    BY PendingOf, PendingIs
  <2>4. PICK W \in SUBSET Subtasks :
            W = IF kind \in {"direct", "approve"} THEN Outstanding(t) ELSE {}
    BY DEF Outstanding
  <2> DEFINE x == [n EXCEPT !.manager = manager, !.ticket = t, !.duplicate_of = d, !.id = i,
                            !.selected = W]
  <2>5. /\ x \in Transaction
        /\ x.kind = kind /\ x.ticket = t /\ x.duplicate_of = d /\ x.work = {}
        /\ x.holds = {} /\ x.decided = FALSE
    BY ZenonT(30), <2>2 DEF Transaction
  <2>6. Begin(p, x) /\ d # t
    BY <2>1, <2>2, <2>3, <2>4 DEF OpensForm
  <2> HIDE DEF x
  <2>7. Shape(x) /\ FormCurrent(x)
    BY <2>5, <2>6 DEF Shape, FormCurrent, Cancelling
  <2> QED
    BY <2>5, <2>6, <2>7, BeginKeepsIInv
<1>2. CASE OpensUpdate(p)
  <2>1. PICK s \in Subtasks :
            /\ task[s] \in TaskOpen \cup {"DONE"}
            /\ Begin(p, [NewTx("update") EXCEPT !.work = {s}, !.loaded = task[s]])
    BY <1>2 DEF OpensUpdate
  <2>2. PICK n \in Transaction : Fresh(n, "update")
    BY NewTxIs
  <2> DEFINE x == [n EXCEPT !.work = {s}, !.loaded = task[s]]
  <2>3. /\ x \in Transaction
        /\ x.kind = "update" /\ x.ticket = NoTicket /\ x.work = {s} /\ x.loaded = task[s]
        /\ x.holds = {} /\ x.decided = FALSE
    BY <2>1, <2>2 DEF Transaction, TaskStatuses
  <2>4. Begin(p, x)
    BY <2>1, <2>2
  <2> HIDE DEF x
  <2>5. Shape(x) /\ FormCurrent(x)
    BY <2>1, <2>3 DEF Shape, FormCurrent, Cancelling
  <2> QED
    BY <2>3, <2>4, <2>5, BeginKeepsIInv
<1>3. CASE OpensHardening(p)
  <2>1. PICK W \in SUBSET Subtasks : Begin(p, [NewTx("harden") EXCEPT !.work = W])
    BY <1>3, CancellationAssumption DEF OpensHardening
  <2>2. PICK n \in Transaction : Fresh(n, "harden")
    BY NewTxIs
  <2> DEFINE x == [n EXCEPT !.work = W]
  <2>3. /\ x \in Transaction
        /\ x.kind = "harden" /\ x.ticket = NoTicket /\ x.holds = {} /\ x.decided = FALSE
    BY <2>2 DEF Transaction
  <2>4. Begin(p, x)
    BY <2>1, <2>2
  <2> HIDE DEF x
  <2>5. Shape(x) /\ FormCurrent(x)
    BY <2>3 DEF Shape, FormCurrent, Cancelling
  <2> QED
    BY <2>3, <2>4, <2>5, BeginKeepsIInv
<1>4. CASE OpensReview(p)
  <2>1. PICK x \in Transaction : Fresh(x, "review")
    BY NewTxIs
  <2>2. Begin(p, x)
    BY <1>4, <2>1 DEF OpensReview
  <2>3. Shape(x) /\ FormCurrent(x)
    BY <2>1 DEF Shape, FormCurrent, Cancelling
  <2> QED
    BY <2>1, <2>2, <2>3, BeginKeepsIInv
<1> QED
  BY <1>1, <1>2, <1>3, <1>4 DEF Opens

LEMMA RollbackKeepsIInv ==
    ASSUME IInv, NEW p \in Procs, Rollback(p)
    PROVE  IInv'
BY PrivateStep DEF Rollback, Ended

\* The next lock of a cancellation is one that keeps the order.
LEMMA CancellationLocksInOrder ==
    ASSUME TypeOK, NEW x \in Transaction, x.kind \in Cancelling, TxOK(x),
           NEW r \in Needs(x)
    PROVE  HoldsInOrder([x EXCEPT !.holds = @ \cup {r}])
<1> DEFINE y == [x EXCEPT !.holds = @ \cup {r}]
<1>1. /\ y.kind = x.kind /\ y.ticket = x.ticket /\ y.work = x.work
      /\ y.holds = x.holds \cup {r}
  BY DEF Transaction
<1>2. r \in CancellationOrder(x)
  BY DEF Needs, Cancelling
<1>3. /\ x.ticket \in Tickets /\ x.ticket \notin Subtasks
      /\ ProjectOf(x.ticket) \subseteq {Project} /\ Project \notin Subtasks
      /\ x.ticket \notin ProjectOf(x.ticket)
  BY CancellationAssumption DEF TxOK, Shape, ProjectOf
<1>4. CASE ParentFirst(x) # {}
  <2>1. r \in ParentFirst(x)
    BY <1>2, <1>4 DEF CancellationOrder
  <2>2. CASE ~ ProjectOf(x.ticket) \subseteq x.holds
    <3>1. x.holds = {} /\ ProjectOf(x.ticket) = {r}
      BY <1>3, <2>1, <2>2 DEF TxOK, HoldsInOrder, ParentFirst, ProjectOf
    <3> HIDE DEF y
    <3> QED
      BY <1>1, <1>3, <3>1 DEF HoldsInOrder, Cancelling
  <2>3. CASE ProjectOf(x.ticket) \subseteq x.holds
    <3>1. r = x.ticket
      BY <2>1, <2>3 DEF ParentFirst
    <3> HIDE DEF y
    <3> QED
      BY <1>1, <1>3, <2>3, <3>1 DEF HoldsInOrder, Cancelling, TxOK
  <2> QED
    BY <2>2, <2>3
<1>5. CASE ParentFirst(x) = {}
  <2>1. ProjectOf(x.ticket) \subseteq x.holds /\ x.ticket \in x.holds
    BY <1>5 DEF ParentFirst
  <2>2. r \in x.work \/ r \notin Subtasks
    <3>1. CASE x.decided
      BY <1>2, <1>5, <3>1 DEF CancellationOrder
    <3>2. CASE ~x.decided /\ x.kind = "request"
      BY <1>2, <1>5, <3>2, CancellationAssumption DEF CancellationOrder, Transaction
    <3>3. CASE ~x.decided /\ x.kind # "request"
      <4>1. r = Original(x)
        BY <1>2, <1>5, <3>3 DEF CancellationOrder
      <4> QED
        BY <4>1, <1>3, OriginalIsTicket, CancellationAssumption
    <3> QED
      BY <3>1, <3>2, <3>3
  <2> HIDE DEF y
  <2> QED
    BY <1>1, <1>3, <2>1, <2>2 DEF HoldsInOrder, Cancelling, TxOK
<1> QED
  BY <1>4, <1>5

\* A further lock takes nothing away from what a transaction has established.
LEMMA LockingKeepsTx ==
    ASSUME NEW x \in Transaction, TxOK(x), NEW r \in Rows,
           HoldsInOrder([x EXCEPT !.holds = @ \cup {r}])
    PROVE  TxOK([x EXCEPT !.holds = @ \cup {r}])
<1> DEFINE y == [x EXCEPT !.holds = @ \cup {r}]
<1>1. /\ y.kind = x.kind /\ y.ticket = x.ticket /\ y.work = x.work /\ y.id = x.id
      /\ y.duplicate_of = x.duplicate_of /\ y.manager = x.manager /\ y.decided = x.decided
      /\ y.fresh = x.fresh /\ y.loaded = x.loaded /\ x.holds \subseteq y.holds
  BY DEF Transaction
<1>2. HoldsInOrder(y)
  OBVIOUS
<1> HIDE DEF y
<1>3. Shape(y) /\ FormCurrent(y)
  BY <1>1 DEF TxOK, Shape, FormCurrent, Cancels
<1>4. Original(y) = Original(x)
  BY <1>1 DEF Original
<1>5. Admitted(x) => Admitted(y)
  BY <1>1 DEF Admitted
<1>6. DecisionHolds(y)
  BY <1>1, <1>4, <1>5 DEF TxOK, DecisionHolds
<1>7. TxOK(y)
  BY <1>2, <1>3, <1>6 DEF TxOK
<1> QED
  BY <1>7 DEF y

LEMMA AcquireKeepsIInv ==
    ASSUME IInv, NEW p \in Procs, tx[p] # Idle, NEW r \in Rows, Acquire(p, r)
    PROVE  IInv'
<1>1. PICK x \in Transaction : tx[p] = x
  BY DEF IInv, TypeOK
<1>2. TxOK(x) /\ TypeOK
  BY <1>1 DEF IInv, TransactionsOK
<1>3. /\ r \in Needs(x) /\ Holder(r) = {}
      /\ UNCHANGED <<status, requests, task>>
  BY <1>1 DEF Acquire
<1>4. \A q \in Procs, y \in Transaction : tx[q] = y => r \notin y.holds
  BY <1>3, IdleIsNoTransaction DEF Holder, Open
<1>5. \A q \in Procs \ {p}, y \in Transaction : tx[q] = y => x.holds \cap y.holds = {}
  BY <1>1 DEF IInv, Exclusive
<1>6. CASE x.kind = "harden" /\ r \in Subtasks /\ task[r] \notin TaskOpen
  <2> DEFINE new == [x EXCEPT !.work = @ \ {r}]
  <2>1. tx' = [tx EXCEPT ![p] = new]
    BY <1>1, <1>6 DEF Acquire
  <2>2. /\ new \in Transaction
        /\ new.kind = "harden" /\ new.ticket = x.ticket /\ new.holds = x.holds
        /\ new.decided = x.decided
    BY <1>6 DEF Transaction
  <2> HIDE DEF new
  <2>3. TxOK(new)
    BY <1>2, <1>6, <2>2
       DEF TxOK, Shape, HoldsInOrder, DecisionHolds, FormCurrent, Cancels, Cancelling, Transaction
  <2> QED
    BY <1>3, <1>5, <2>1, <2>2, <2>3, PrivateStep
<1>7. CASE ~(x.kind = "harden" /\ r \in Subtasks /\ task[r] \notin TaskOpen)
  <2> DEFINE new == [x EXCEPT !.holds = @ \cup {r}]
  <2>1. tx' = [tx EXCEPT ![p] = new]
    BY <1>1, <1>7 DEF Acquire
  <2>2. /\ new \in Transaction
        /\ new.kind = x.kind /\ new.holds = x.holds \cup {r}
    BY DEF Transaction
  <2>3. HoldsInOrder(new)
    <3>1. CASE x.kind \in Cancelling
      BY <1>2, <1>3, <3>1, CancellationLocksInOrder
    <3>2. CASE x.kind = "review"
      <4>1. r \in ReviewOrder(x)
        BY <1>3, <3>2 DEF Needs
      <4>2. r \notin Subtasks /\ (Project \in x.holds \/ r = Project)
        BY <4>1, CancellationAssumption DEF ReviewOrder
      <4> HIDE DEF new
      <4> QED
        BY <1>2, <2>2, <3>2, <4>2 DEF TxOK, HoldsInOrder, Cancelling
    <3>3. CASE x.kind \notin Cancelling \cup {"review"}
      BY <2>2, <3>3 DEF HoldsInOrder
    <3> QED
      BY <3>1, <3>2, <3>3
  <2>4. TxOK(new)
    BY <1>2, <2>3, LockingKeepsTx
  <2>5. \A q \in Procs \ {p}, y \in Transaction : tx[q] = y => new.holds \cap y.holds = {}
    BY <1>4, <1>5, <2>2
  <2> HIDE DEF new
  <2> QED
    BY <1>3, <2>1, <2>2, <2>4, <2>5, PrivateStep
<1> QED
  BY <1>6, <1>7

\* A cancellation that needs no more locks has its ticket, and, once admitted,
\* the original.
LEMMA NeedsNoLock ==
    ASSUME NEW x \in Transaction, x.kind \in Cancelling, Shape(x), Needs(x) = {}
    PROVE  /\ x.ticket \in x.holds
           /\ Cancels(x) /\ ~x.decided /\ Admitted(x) => Original(x) \in x.holds \cup {NoTicket}
<1>1. CancellationOrder(x) = {}
  BY DEF Needs, Cancelling
<1>2. ParentFirst(x) = {}
  BY <1>1 DEF CancellationOrder
<1> QED
  BY <1>1, <1>2 DEF CancellationOrder, ParentFirst, original_locked, Cancels

LEMMA DecidesKeepsIInv ==
    ASSUME IInv, NEW p \in Procs, tx[p] # Idle, Decides(p)
    PROVE  IInv'
<1>1. PICK x \in Transaction : tx[p] = x
  BY DEF IInv, TypeOK
<1>2. TxOK(x) /\ TypeOK
  BY <1>1 DEF IInv, TransactionsOK
<1>3. /\ Cancels(x) /\ ~x.decided /\ Needs(x) = {} /\ Admitted(x) /\ Decided(x)
      /\ UNCHANGED <<status, requests, task>>
  BY <1>1 DEF Decides
<1>4. x.kind \in Cancelling /\ x.kind \notin {"update", "review"}
  BY <1>3 DEF Cancels, Cancelling
<1> DEFINE new == [x EXCEPT !.decided = TRUE, !.work = Outstanding(x.ticket)]
<1>5. tx' = [tx EXCEPT ![p] = new]
  BY <1>1 DEF Decides, IInv, TypeOK
<1>6. /\ new \in Transaction
      /\ new.kind = x.kind /\ new.ticket = x.ticket /\ new.id = x.id /\ new.holds = x.holds
      /\ new.duplicate_of = x.duplicate_of /\ new.manager = x.manager
      /\ new.decided = TRUE /\ new.work = Outstanding(x.ticket)
  BY DEF Transaction, Outstanding
<1> HIDE DEF new
<1>7. Shape(new) /\ HoldsInOrder(new) /\ FormCurrent(new)
  BY <1>2, <1>3, <1>4, <1>6 DEF TxOK, Shape, HoldsInOrder, FormCurrent, Cancels
<1>8. Original(new) = Original(x) /\ Admitted(new)
  BY <1>3, <1>6 DEF Original, Admitted
<1>9. DecisionHolds(new)
  BY <1>2, <1>3, <1>4, <1>6, <1>8, NeedsNoLock DEF TxOK, DecisionHolds, Decided
<1>10. \A q \in Procs \ {p}, y \in Transaction : tx[q] = y => new.holds \cap y.holds = {}
  BY <1>1, <1>6 DEF IInv, Exclusive
<1> QED
  BY <1>3, <1>5, <1>6, <1>7, <1>9, <1>10, PrivateStep DEF TxOK

-----------------------------------------------------------------------------
(***************************************************************************)
(* Commits                                                                 *)
(***************************************************************************)

\* The end of transaction p, which wrote the response requests of W.
LEMMA OutdatedKeeps ==
    ASSUME IInv, NEW p \in Procs, NEW W, tx' = Outdated(p, W),
           \A s \in Subtasks \ W : task'[s] = task[s],
           NEW T, \A q \in Procs \ {p}, x \in Transaction : tx[q] = x => x.holds \cap T = {}
    PROVE  /\ OthersKeep(p, T)
           /\ tx'[p] = Idle
           /\ tx' \in [Procs -> Transaction \cup {Idle}]
<1>1. tx'[p] = Idle
  BY DEF Outdated
<1>2. ASSUME NEW q \in Procs \ {p}
      PROVE  /\ tx[q] = Idle => tx'[q] = Idle
             /\ \A x \in Transaction : tx[q] = x =>
                /\ tx'[q] \in Transaction
                /\ \/ /\ tx'[q] = x
                      /\ x.kind = "update" /\ x.fresh => \A s \in x.work : task'[s] = task[s]
                   \/ x.kind = "update" /\ tx'[q] = [x EXCEPT !.fresh = FALSE]
  <2>1. CASE tx[q] = Idle
    BY <2>1, IdleIsNoTransaction DEF Outdated
  <2>2. ASSUME NEW x \in Transaction, tx[q] = x
        PROVE  /\ tx'[q] \in Transaction
               /\ \/ /\ tx'[q] = x
                     /\ x.kind = "update" /\ x.fresh => \A s \in x.work : task'[s] = task[s]
                  \/ x.kind = "update" /\ tx'[q] = [x EXCEPT !.fresh = FALSE]
    <3>1. TxOK(x)
      BY <2>2 DEF IInv, TransactionsOK
    <3>2. CASE x.kind = "update" /\ x.work \subseteq W
      <4>1. tx'[q] = [x EXCEPT !.fresh = FALSE]
        BY <1>2, <2>2, <3>2, IdleIsNoTransaction DEF Outdated
      <4> QED
        BY <3>2, <4>1 DEF Transaction
    <3>3. CASE ~(x.kind = "update" /\ x.work \subseteq W)
      <4>1. tx'[q] = x
        BY <1>2, <2>2, <3>3 DEF Outdated
      <4>2. x.kind = "update" => \A s \in x.work : task'[s] = task[s]
        BY <3>1, <3>3 DEF TxOK, Shape
      <4> QED
        BY <4>1, <4>2
    <3> QED
      BY <3>2, <3>3
  <2> QED
    BY <2>1, <2>2, IdleIsNoTransaction
<1>3. OthersKeep(p, T)
  BY <1>2 DEF OthersKeep
<1>4. tx' \in [Procs -> Transaction \cup {Idle}]
  BY <1>1, <1>2 DEF Outdated, IInv, TypeOK
<1> QED
  BY <1>1, <1>3, <1>4

\* The end of transaction p without a response request.
LEMMA EndedKeeps ==
    ASSUME IInv, NEW p \in Procs, tx' = Ended(p), UNCHANGED task,
           NEW T, \A q \in Procs \ {p}, x \in Transaction : tx[q] = x => x.holds \cap T = {}
    PROVE  /\ OthersKeep(p, T)
           /\ tx'[p] = Idle
           /\ tx' \in [Procs -> Transaction \cup {Idle}]
BY DEF OthersKeep, Ended, IInv, TypeOK

\* ... so that only the rows remain to be looked at.
LEMMA CommitKeepsIInv ==
    ASSUME IInv, NEW p \in Procs, NEW T, OthersKeep(p, T), tx'[p] = Idle, Confined(T), TypeOK',
           RequestsOK', NothingWaitsOnClosed', NoDuplicateCycle'
    PROVE  IInv'
<1>1. \A x \in Transaction : tx'[p] # x
  BY IdleIsNoTransaction
<1>2. TransactionsOK' /\ Exclusive'
  BY <1>1, TransactionsKept
<1> QED
  BY <1>2 DEF IInv

\* A case that is not cancelled takes no part in a chain of originals.
LEMMA ChainKept ==
    ASSUME IInv, TypeOK',
           \A t \in Tickets : status'[t] = "CANCELLED" =>
                status[t] = "CANCELLED" /\ requests'[t] = requests[t]
    PROVE  NoDuplicateCycle'
<1> SUFFICES ASSUME NEW S \in SUBSET {t \in Tickets : status'[t] = "CANCELLED"}, S # {}
             PROVE  \E t \in S : Duplicates(t)' \cap S = {}
  BY DEF NoDuplicateCycle
<1>1. S \in SUBSET {t \in Tickets : status[t] = "CANCELLED"}
  OBVIOUS
<1>2. PICK t \in S : Duplicates(t) \cap S = {}
  BY <1>1 DEF IInv, NoDuplicateCycle
<1>3. Duplicates(t)' = Duplicates(t)
  BY DEF Duplicates
<1> QED
  BY <1>2, <1>3

\* The decision to cancel t: its original was locked, and is not cancelled.
LEMMA ChainGrows ==
    ASSUME IInv, TypeOK', NEW t \in Tickets, NEW o \in Tickets \cup {NoTicket}, o # t,
           o \in Tickets => status[o] # "CANCELLED",
           \A u \in Tickets \ {t} : status'[u] = status[u] /\ requests'[u] = requests[u],
           \A i \in 1 .. MaxRequests :
                requests'[t][i].status = "APPROVED" => requests'[t][i].duplicate_of = o
    PROVE  NoDuplicateCycle'
<1> SUFFICES ASSUME NEW S \in SUBSET {u \in Tickets : status'[u] = "CANCELLED"}, S # {}
             PROVE  \E u \in S : Duplicates(u)' \cap S = {}
  BY DEF NoDuplicateCycle
<1>1. CASE t \in S
  <2>1. Duplicates(t)' \subseteq {o} \ {NoTicket}
    BY DEF Duplicates
  <2>2. o \notin S
    OBVIOUS
  <2> QED
    BY <1>1, <2>1, <2>2
<1>2. CASE t \notin S
  <2>1. S \in SUBSET {u \in Tickets : status[u] = "CANCELLED"}
    BY <1>2
  <2>2. PICK u \in S : Duplicates(u) \cap S = {}
    BY <2>1 DEF IInv, NoDuplicateCycle
  <2>3. Duplicates(u)' = Duplicates(u)
    BY <1>2 DEF Duplicates
  <2> QED
    BY <2>2, <2>3
<1> QED
  BY <1>1, <1>2

\* The requests of t after a cancellation: none waits, and the approved one, of
\* which there is one only, names the original.
LEMMA RequestsOfCancelled ==
    ASSUME IInv, NEW p \in Procs, tx[p] # Idle, CommitsCancellation(p)
    PROVE  /\ requests'[tx[p].ticket] \in [1 .. MaxRequests -> CancellationRequest]
           /\ \A u \in Tickets \ {tx[p].ticket} : requests'[u] = requests[u]
           /\ requests' \in [Tickets -> [1 .. MaxRequests -> CancellationRequest]]
           /\ \A i \in 1 .. MaxRequests :
                /\ requests'[tx[p].ticket][i].status # "PENDING"
                /\ requests'[tx[p].ticket][i].duplicate_of # tx[p].ticket
                /\ requests'[tx[p].ticket][i].status = "APPROVED" =>
                        requests'[tx[p].ticket][i].duplicate_of = Original(tx[p])
<1>1. PICK x \in Transaction : tx[p] = x
  BY DEF IInv, TypeOK
<1>2. TxOK(x) /\ TypeOK
  BY <1>1 DEF IInv, TransactionsOK
<1> DEFINE t == x.ticket
<1>3. /\ Cancels(x) /\ x.decided
      /\ t \in Tickets /\ x.duplicate_of # t /\ t # NoTicket
      /\ Admitted(x)
  BY <1>1, <1>2, CancellationAssumption
     DEF CommitsCancellation, TxOK, Shape, DecisionHolds, Cancels, Cancelling
<1>4. /\ requests[t] \in [1 .. MaxRequests -> CancellationRequest]
      /\ \A i \in 1 .. MaxRequests :
            requests[t][i].status # "APPROVED" /\ requests[t][i].duplicate_of # t
  <2>1. status[t] # "CANCELLED"
    BY <1>3 DEF Admitted, TERMINAL_STATUSES
  <2> QED
    BY <1>2, <1>3, <2>1 DEF TypeOK, IInv, RequestsOK
<1>5. CASE x.kind = "direct"
  <2> DEFINE record == [status |-> "APPROVED", duplicate_of |-> x.duplicate_of]
             k == Used(t) + 1
  <2>1. record \in CancellationRequest /\ record.status = "APPROVED"
        /\ record.duplicate_of = x.duplicate_of
    BY DEF CancellationRequest, RequestStatuses, Transaction
  <2>2. requests' = [requests EXCEPT ![t][k] = record]
    BY <1>1, <1>5 DEF CommitsCancellation, Recorded
  <2>3. \A i \in 1 .. MaxRequests : requests[t][i].status # "PENDING"
    BY <1>3, <1>5, PendingOf, PendingIs DEF Admitted
  <2>4. Original(x) = x.duplicate_of
    BY <1>5 DEF Original
  <2> HIDE DEF record, k
  <2>5. /\ requests' \in [Tickets -> [1 .. MaxRequests -> CancellationRequest]]
        /\ requests'[t] = [requests[t] EXCEPT ![k] = record]
        /\ \A u \in Tickets \ {t} : requests'[u] = requests[u]
    BY <1>2, <1>3, <2>1, <2>2 DEF TypeOK
  <2>6. \A i \in 1 .. MaxRequests : requests'[t][i] = record \/ requests'[t][i] = requests[t][i]
    BY <1>4, <2>5
  <2>7. \A i \in 1 .. MaxRequests :
            /\ requests'[t][i].status # "PENDING" /\ requests'[t][i].duplicate_of # t
            /\ requests'[t][i].status = "APPROVED" => requests'[t][i].duplicate_of = Original(x)
    BY <1>3, <1>4, <2>1, <2>3, <2>4, <2>6
  <2> QED
    BY <1>1, <1>3, <2>5, <2>7
<1>6. CASE x.kind = "approve"
  <2>1. Pending(t) = x.id /\ x.id # 0 /\ x.kind # "direct"
    BY <1>3, <1>6 DEF Admitted
  <2>2. /\ x.id \in 1 .. MaxRequests
        /\ requests[t][x.id].status = "PENDING"
    BY <2>1, PendingOf, PendingIs
  <2>3. \A i \in 1 .. MaxRequests : requests[t][i].status = "PENDING" => i = x.id
    BY <1>3, <2>2 DEF IInv, RequestsOK
  <2>4. Original(x) = requests[t][x.id].duplicate_of
    BY <1>6, <2>1 DEF Original
  <2> DEFINE record == [requests[t][x.id] EXCEPT !.status = "APPROVED"]
  <2>5. requests' = [requests EXCEPT ![t][x.id] = record]
    BY <1>1, <1>2, <1>3, <1>6 DEF CommitsCancellation, TypeOK
  <2>6. record \in CancellationRequest /\ record.status = "APPROVED"
        /\ record.duplicate_of = Original(x)
    <3>1. PICK c \in [status : RequestStatuses, duplicate_of : Tickets \cup {NoTicket}] :
                c = requests[t][x.id]
      <4>1. requests[t][x.id] \in CancellationRequest
        BY <1>4, <2>2
      <4>2. NoRequest.status = "NONE"
        BY DEF NoRequest
      <4> QED
        BY <2>2, <4>1, <4>2 DEF CancellationRequest
    <3>2. record = [c EXCEPT !.status = "APPROVED"]
      BY <3>1
    <3> HIDE DEF record
    <3> QED
      BY <2>4, <3>1, <3>2 DEF CancellationRequest, RequestStatuses
  <2> HIDE DEF record
  <2>7. /\ requests' \in [Tickets -> [1 .. MaxRequests -> CancellationRequest]]
        /\ requests'[t] = [requests[t] EXCEPT ![x.id] = record]
        /\ \A u \in Tickets \ {t} : requests'[u] = requests[u]
    BY <1>2, <1>3, <2>5, <2>6 DEF TypeOK
  <2>8. \A i \in 1 .. MaxRequests :
            requests'[t][i] = IF i = x.id THEN record ELSE requests[t][i]
    BY <1>4, <2>7
  <2>9. \A i \in 1 .. MaxRequests :
            /\ requests'[t][i].status # "PENDING" /\ requests'[t][i].duplicate_of # t
            /\ requests'[t][i].status = "APPROVED" => requests'[t][i].duplicate_of = Original(x)
    BY <1>4, <2>2, <2>3, <2>4, <2>6, <2>8
  <2> QED
    BY <1>1, <1>3, <2>7, <2>9
<1> QED
  BY <1>3, <1>5, <1>6 DEF Cancels

LEMMA CancellationKeepsIInv ==
    ASSUME IInv, NEW p \in Procs, tx[p] # Idle, CommitsCancellation(p)
    PROVE  /\ IInv'
           /\ \A s \in Subtasks : task[s] = "DONE" => task'[s] # "CANCELLED"
<1>1. PICK x \in Transaction : tx[p] = x
  BY DEF IInv, TypeOK
<1>2. TxOK(x) /\ TypeOK
  BY <1>1 DEF IInv, TransactionsOK
<1> DEFINE t == x.ticket
<1>3. /\ t \in Tickets /\ t \in x.holds /\ t # NoTicket
      /\ x.work = Outstanding(t) /\ Admitted(x)
      /\ Original(x) \in Referable
      /\ status' = [status EXCEPT ![t] = "CANCELLED"]
      /\ task' = [s \in Subtasks |-> IF s \in x.work THEN "CANCELLED" ELSE task[s]]
      /\ tx' = Outdated(p, x.work)
  BY <1>1, <1>2, CancellationAssumption
     DEF CommitsCancellation, TxOK, Shape, DecisionHolds, Cancels, Cancelling
<1>4. \A s \in x.work : s \in Subtasks /\ Parent[s] = t /\ task[s] \in TaskOpen
  BY <1>3 DEF Outstanding
<1>5. Confined({t})
  BY <1>1, <1>2, <1>3, <1>4, RequestsOfCancelled DEF Confined, TypeOK
<1>6. \A q \in Procs \ {p}, y \in Transaction : tx[q] = y => y.holds \cap {t} = {}
  BY <1>1, <1>3 DEF IInv, Exclusive
<1>7. /\ OthersKeep(p, {t})
      /\ tx'[p] = Idle
      /\ tx' \in [Procs -> Transaction \cup {Idle}]
  BY <1>3, <1>6, OutdatedKeeps
<1>8. TypeOK'
  BY <1>1, <1>2, <1>3, <1>7, RequestsOfCancelled DEF TypeOK, Statuses, TERMINAL_STATUSES, TaskStatuses
<1>9. \A u \in Tickets \ {t} : status'[u] = status[u] /\ requests'[u] = requests[u]
  BY <1>5 DEF Confined
<1>10. status'[t] = "CANCELLED"
  BY <1>2, <1>3 DEF TypeOK
<1>11. RequestsOK'
  <2>1. \A u \in Tickets \ {t} :
          /\ \A i, j \in 1 .. MaxRequests :
                requests'[u][i].status = "PENDING" /\ requests'[u][j].status = "PENDING" => i = j
          /\ \A i \in 1 .. MaxRequests : requests'[u][i].duplicate_of # u
          /\ status'[u] # "CANCELLED" =>
                \A i \in 1 .. MaxRequests : requests'[u][i].status # "APPROVED"
    BY <1>9 DEF IInv, RequestsOK
  <2> QED
    BY <1>1, <1>10, <2>1, RequestsOfCancelled DEF RequestsOK
<1>12. NothingWaitsOnClosed'
  <2>1. Pending(t)' = 0
    BY <1>1, PendingOf, PendingIs, RequestsOfCancelled
  <2>2. \A u \in Tickets \ {t} : Pending(u)' = Pending(u)
    BY <1>9, PendingOf
  <2>3. \A u \in Tickets : Outstanding(u)' \subseteq Outstanding(u)
    BY <1>3 DEF Outstanding, TaskOpen
  <2>4. Outstanding(t)' = {}
    BY <1>3 DEF Outstanding, TaskOpen
  <2> QED
    BY <1>9, <2>1, <2>2, <2>3, <2>4
       DEF IInv, NothingWaitsOnClosed, NoRequestOutlivesTicket, CancelledHasNoOpenWork
<1>13. NoDuplicateCycle'
  <2> DEFINE o == Original(x)
  <2>1. o \in Tickets \cup {NoTicket} /\ (o \in Tickets => status[o] # "CANCELLED")
    BY <1>3, CancellationAssumption DEF Referable
  <2>2. \A i \in 1 .. MaxRequests :
            requests'[t][i].status = "APPROVED" => requests'[t][i].duplicate_of = o
    BY <1>1, RequestsOfCancelled
  <2>3. o # t
    <3>1. CASE x.kind = "direct"
      BY <1>2, <3>1 DEF Original, TxOK, Shape, Cancelling
    <3>2. CASE x.kind = "approve"
      <4>1. Pending(t) # 0 /\ x.kind # "direct"
        BY <1>3, <3>2 DEF Admitted
      <4>2. o = requests[t][Pending(t)].duplicate_of /\ Pending(t) \in 1 .. MaxRequests
        BY <3>2, <4>1, PendingOf, PendingIs DEF Original
      <4> QED
        BY <1>3, <4>2 DEF IInv, RequestsOK
    <3> QED
      BY <1>1, <3>1, <3>2 DEF CommitsCancellation, Cancels
  <2> HIDE DEF o
  <2> QED
    BY <1>3, <1>8, <1>9, <2>1, <2>2, <2>3, ChainGrows
<1>14. \A s \in Subtasks : task[s] = "DONE" => task'[s] # "CANCELLED"
  BY <1>3, <1>4 DEF TaskOpen
<1> QED
  BY <1>5, <1>7, <1>8, <1>11, <1>12, <1>13, <1>14, CommitKeepsIInv

\* A request is filed on, or declined by, an open case.
LEMMA RequestsOfOpen ==
    ASSUME IInv, NEW p \in Procs, NEW t \in Tickets, status[t] \notin TERMINAL_STATUSES,
           NEW x \in Transaction, tx[p] = x, t \in x.holds,
           UNCHANGED <<status, task>>, tx' = Ended(p),
           requests' \in [Tickets -> [1 .. MaxRequests -> CancellationRequest]],
           \A u \in Tickets \ {t} : requests'[u] = requests[u],
           \A i, j \in 1 .. MaxRequests :
                requests'[t][i].status = "PENDING" /\ requests'[t][j].status = "PENDING" => i = j,
           \A i \in 1 .. MaxRequests :
                requests'[t][i].duplicate_of # t /\ requests'[t][i].status # "APPROVED"
    PROVE  IInv'
<1>1. \A q \in Procs \ {p}, y \in Transaction : tx[q] = y => y.holds \cap {t} = {}
  BY DEF IInv, Exclusive
<1>2. /\ OthersKeep(p, {t})
      /\ tx'[p] = Idle
      /\ tx' \in [Procs -> Transaction \cup {Idle}]
  BY <1>1, EndedKeeps
<1>3. TypeOK'
  BY <1>2 DEF IInv, TypeOK
<1>4. Confined({t})
  BY DEF Confined
<1>5. RequestsOK'
  BY DEF IInv, RequestsOK
<1>6. NothingWaitsOnClosed'
  <2>1. \A u \in Tickets \ {t} : Pending(u)' = Pending(u)
    BY PendingOf
  <2> QED
    BY <2>1 DEF IInv, NothingWaitsOnClosed, NoRequestOutlivesTicket, CancelledHasNoOpenWork,
                Outstanding
<1>7. NoDuplicateCycle'
  BY <1>3, ChainKept DEF TERMINAL_STATUSES
<1> QED
  BY <1>2, <1>3, <1>4, <1>5, <1>6, <1>7, CommitKeepsIInv

LEMMA RequestKeepsIInv ==
    ASSUME IInv, NEW p \in Procs, tx[p] # Idle, CommitsRequest(p)
    PROVE  IInv'
<1>1. PICK x \in Transaction : tx[p] = x
  BY DEF IInv, TypeOK
<1>2. TxOK(x) /\ TypeOK
  BY <1>1 DEF IInv, TransactionsOK
<1> DEFINE t == x.ticket
           record == [status |-> "PENDING", duplicate_of |-> x.duplicate_of]
           k == Used(t) + 1
<1>3. /\ x.kind = "request" /\ x.kind \in Cancelling
      /\ t \in Tickets /\ t \in x.holds /\ x.duplicate_of # t
      /\ Admitted(x)
      /\ requests' = [requests EXCEPT ![t][k] = record]
      /\ tx' = Ended(p) /\ UNCHANGED <<status, task>>
  BY <1>1, <1>2, NeedsNoLock DEF CommitsRequest, TxOK, Shape, Recorded, Cancelling
<1>4. /\ status[t] \notin TERMINAL_STATUSES
      /\ \A i \in 1 .. MaxRequests : requests[t][i].status # "PENDING"
  BY <1>3, PendingOf, PendingIs DEF Admitted
<1>5. record \in CancellationRequest /\ record.status = "PENDING"
      /\ record.duplicate_of = x.duplicate_of
  BY DEF CancellationRequest, RequestStatuses, Transaction
<1> HIDE DEF record, k
<1>6. /\ requests' \in [Tickets -> [1 .. MaxRequests -> CancellationRequest]]
      /\ requests'[t] = [requests[t] EXCEPT ![k] = record]
      /\ \A u \in Tickets \ {t} : requests'[u] = requests[u]
      /\ requests[t] \in [1 .. MaxRequests -> CancellationRequest]
  BY <1>2, <1>3, <1>5 DEF TypeOK
<1>7. \A i \in 1 .. MaxRequests :
          requests'[t][i] = IF i = k THEN record ELSE requests[t][i]
  BY <1>6
<1>8. \A i, j \in 1 .. MaxRequests :
          requests'[t][i].status = "PENDING" /\ requests'[t][j].status = "PENDING" => i = j
  BY <1>4, <1>7
<1>9. \A i \in 1 .. MaxRequests :
          requests'[t][i].duplicate_of # t /\ requests'[t][i].status # "APPROVED"
  <2>1. \A i \in 1 .. MaxRequests :
            requests[t][i].duplicate_of # t /\ requests[t][i].status # "APPROVED"
    BY <1>3, <1>4 DEF IInv, RequestsOK, TERMINAL_STATUSES
  <2> QED
    BY <1>3, <1>5, <1>7, <2>1
<1> QED
  BY <1>1, <1>3, <1>4, <1>6, <1>8, <1>9, RequestsOfOpen

LEMMA DeclineKeepsIInv ==
    ASSUME IInv, NEW p \in Procs, tx[p] # Idle, CommitsDecision(p)
    PROVE  IInv'
<1>1. PICK x \in Transaction : tx[p] = x
  BY DEF IInv, TypeOK
<1>2. TxOK(x) /\ TypeOK
  BY <1>1 DEF IInv, TransactionsOK
<1> DEFINE t == x.ticket
           record == [requests[t][x.id] EXCEPT !.status = "ENDED"]
<1>3. /\ x.kind = "decline" /\ x.kind \in Cancelling
      /\ t \in Tickets /\ t \in x.holds
      /\ Admitted(x)
      /\ requests' = [requests EXCEPT ![t][x.id].status = "ENDED"]
      /\ tx' = Ended(p) /\ UNCHANGED <<status, task>>
  BY <1>1, <1>2, NeedsNoLock DEF CommitsDecision, TxOK, Shape, Cancelling
<1>4. /\ status[t] \notin TERMINAL_STATUSES
      /\ x.id = Pending(t) /\ x.id # 0
      /\ x.id \in 1 .. MaxRequests
      /\ requests[t][x.id].status = "PENDING"
  BY <1>3, PendingOf, PendingIs DEF Admitted
<1>5. /\ requests[t] \in [1 .. MaxRequests -> CancellationRequest]
      /\ requests[t][x.id] \in CancellationRequest
  BY <1>2, <1>3, <1>4 DEF TypeOK
<1>6. \A i \in 1 .. MaxRequests :
          requests[t][i].duplicate_of # t /\ requests[t][i].status # "APPROVED"
  BY <1>3, <1>4 DEF IInv, RequestsOK, TERMINAL_STATUSES
<1>7. record \in CancellationRequest /\ record.status = "ENDED" /\ record.duplicate_of # t
  <2>1. NoRequest.status = "NONE"
    BY DEF NoRequest
  <2>2. PICK c \in [status : RequestStatuses, duplicate_of : Tickets \cup {NoTicket}] :
            c = requests[t][x.id]
    BY <1>4, <1>5, <2>1 DEF CancellationRequest
  <2>3. record = [c EXCEPT !.status = "ENDED"] /\ c.duplicate_of # t
    BY <1>4, <1>6, <2>2
  <2> HIDE DEF record
  <2> QED
    BY <2>2, <2>3 DEF CancellationRequest, RequestStatuses
<1>8. requests' = [requests EXCEPT ![t][x.id] = record]
  BY <1>2, <1>3 DEF TypeOK
<1> HIDE DEF record
<1>9. /\ requests' \in [Tickets -> [1 .. MaxRequests -> CancellationRequest]]
      /\ requests'[t] = [requests[t] EXCEPT ![x.id] = record]
      /\ \A u \in Tickets \ {t} : requests'[u] = requests[u]
  <2>1. t \in Tickets /\ requests \in [Tickets -> [1 .. MaxRequests -> CancellationRequest]]
    BY <1>2, <1>3 DEF TypeOK
  <2> HIDE DEF t
  <2> QED
    BY <1>5, <1>7, <1>8, <2>1
<1>10. \A i \in 1 .. MaxRequests :
          requests'[t][i] = IF i = x.id THEN record ELSE requests[t][i]
  BY <1>5, <1>9
<1>11. \A i, j \in 1 .. MaxRequests :
          requests'[t][i].status = "PENDING" /\ requests'[t][j].status = "PENDING" => i = j
  BY <1>3, <1>7, <1>10 DEF IInv, RequestsOK
<1>12. \A i \in 1 .. MaxRequests :
          requests'[t][i].duplicate_of # t /\ requests'[t][i].status # "APPROVED"
  BY <1>6, <1>7, <1>10
<1> QED
  BY <1>1, <1>3, <1>4, <1>9, <1>11, <1>12, RequestsOfOpen

\* What an update writes is what its form was loaded with.
LEMMA UpdateKeepsIInv ==
    ASSUME IInv, NEW p \in Procs, tx[p] # Idle, CommitsUpdate(p)
    PROVE  /\ IInv'
           /\ \A s \in Subtasks : task'[s] = "CANCELLED" => task[s] = "CANCELLED"
           /\ \A s \in tx[p].work : task[s] = tx[p].loaded
<1>1. PICK x \in Transaction : tx[p] = x
  BY DEF IInv, TypeOK
<1>2. TxOK(x) /\ TypeOK
  BY <1>1 DEF IInv, TransactionsOK
<1>3. /\ x.kind = "update" /\ Needs(x) = {} /\ x.fresh
      /\ \A s \in x.work : SaveAllowed(s)
      /\ tx' = Outdated(p, x.work) /\ UNCHANGED <<status, requests>>
  BY <1>1 DEF CommitsUpdate, Current
<1>4. PICK new \in TaskOpen \cup {"DONE"} :
          task' = [s \in Subtasks |-> IF s \in x.work THEN new ELSE task[s]]
  BY <1>1 DEF CommitsUpdate
<1> DEFINE T == {Parent[s] : s \in x.work}
<1>5. T \subseteq x.holds
  <2>1. UpdateOrder(x) = {}
    BY <1>3 DEF Needs
  <2>2. x.work # {}
    BY <1>2, <1>3 DEF TxOK, Shape
  <2>3. x.work \subseteq x.holds
    BY <2>1, <2>2 DEF UpdateOrder
  <2> QED
    BY <1>3, <2>1, <2>3 DEF UpdateOrder
<1>6. \A q \in Procs \ {p}, y \in Transaction : tx[q] = y => y.holds \cap T = {}
  BY <1>1, <1>5 DEF IInv, Exclusive
<1>7. Confined(T)
  BY <1>3, <1>4 DEF Confined
<1> HIDE DEF T
<1>8. \A s \in Subtasks \ x.work : task'[s] = task[s]
  BY <1>4
<1>9. /\ OthersKeep(p, T)
      /\ tx'[p] = Idle
      /\ tx' \in [Procs -> Transaction \cup {Idle}]
  BY <1>3, <1>6, <1>8, OutdatedKeeps
<1>10. TypeOK'
  BY <1>2, <1>3, <1>4, <1>9 DEF TypeOK, TaskStatuses
<1>11. RequestsOK' /\ NoDuplicateCycle'
  BY <1>3, <1>10, ChainKept DEF IInv, RequestsOK
<1>12. NothingWaitsOnClosed'
  <2>1. \A u \in Tickets : Pending(u)' = Pending(u)
    BY <1>3, PendingOf
  <2>2. \A u \in Tickets : status[u] = "CANCELLED" => Outstanding(u)' = {}
    BY <1>3, <1>4 DEF Outstanding, SaveAllowed, IInv, NothingWaitsOnClosed, CancelledHasNoOpenWork
  <2> QED
    BY <1>3, <2>1, <2>2
       DEF IInv, NothingWaitsOnClosed, NoRequestOutlivesTicket, CancelledHasNoOpenWork
<1>13. \A s \in Subtasks : task'[s] = "CANCELLED" => task[s] = "CANCELLED"
  BY <1>4 DEF TaskOpen
<1>14. \A s \in x.work : task[s] = x.loaded
  BY <1>2, <1>3 DEF TxOK, FormCurrent
<1> QED
  BY <1>1, <1>7, <1>9, <1>10, <1>11, <1>12, <1>13, <1>14, CommitKeepsIInv

LEMMA HardeningKeepsIInv ==
    ASSUME IInv, NEW p \in Procs, tx[p] # Idle, CommitsHardening(p)
    PROVE  IInv'
<1>1. /\ UNCHANGED <<status, requests, task>>
      /\ \/ tx' = Outdated(p, tx[p].work)
         \/ tx' = Ended(p)
  BY DEF CommitsHardening
<1>2. /\ OthersKeep(p, {})
      /\ tx'[p] = Idle
      /\ tx' \in [Procs -> Transaction \cup {Idle}]
  BY <1>1, OutdatedKeeps, EndedKeeps
<1>3. TypeOK'
  BY <1>1, <1>2 DEF IInv, TypeOK
<1> QED
  BY <1>1, <1>2, <1>3, DataKept, CommitKeepsIInv

-----------------------------------------------------------------------------
(***************************************************************************)
(* The services that lock the ticket alone, and the next step              *)
(***************************************************************************)

\* A service that writes a ticket nobody has locked, and leaves the open
\* transactions alone.
LEMMA BareService ==
    ASSUME IInv, UNCHANGED tx, NEW t \in Tickets, Unlocked(t), Confined({t}), TypeOK',
           \A q \in Procs, x \in Transaction :
                tx[q] = x /\ x.kind = "update" /\ x.fresh =>
                    \A s \in x.work : task'[s] = task[s]
    PROVE  TransactionsOK' /\ Exclusive'
<1>1. \A q \in Procs, x \in Transaction : tx[q] = x => x.holds \cap {t} = {}
  BY IdleIsNoTransaction DEF Unlocked, Holder, Open
<1>2. TransactionsOK'
  <2> SUFFICES ASSUME NEW q \in Procs, NEW x \in Transaction, tx[q] = x
               PROVE  TxOK(x)'
    BY DEF TransactionsOK
  <2>1. TxOK(x) /\ TypeOK
    BY DEF IInv, TransactionsOK
  <2>2. x.holds \cap {t} = {}
    BY <1>1
  <2> QED
    BY <2>1, <2>2, TxStands
<1>3. Exclusive'
  BY DEF IInv, Exclusive
<1> QED
  BY <1>2, <1>3

LEMMA SubmitsKeepsIInv ==
    ASSUME IInv, NEW t \in Tickets, Submits(t)
    PROVE  IInv'
<1>1. /\ Unlocked(t) /\ status[t] = "NEW"
      /\ status' = [status EXCEPT ![t] = "ACTIVE"]
      /\ UNCHANGED <<requests, task, tx>>
  BY DEF Submits
<1>2. TypeOK' /\ Confined({t})
  BY <1>1 DEF IInv, TypeOK, Confined, Statuses
<1>3. TransactionsOK' /\ Exclusive'
  BY <1>1, <1>2, BareService
<1>4. \A u \in Tickets : status'[u] \in TERMINAL_STATUSES \/ status[u] \in TERMINAL_STATUSES =>
          status'[u] = status[u]
  BY <1>1 DEF IInv, TypeOK, TERMINAL_STATUSES, RESOLVED_STATUSES
<1>5. "CANCELLED" \in TERMINAL_STATUSES
  BY DEF TERMINAL_STATUSES
<1>6. RequestsOK' /\ NoDuplicateCycle'
  BY <1>1, <1>2, <1>4, <1>5, ChainKept DEF IInv, RequestsOK
<1>7. NothingWaitsOnClosed'
  BY <1>1, <1>4, <1>5, PendingOf DEF IInv, NothingWaitsOnClosed, NoRequestOutlivesTicket,
            CancelledHasNoOpenWork, Outstanding
<1> QED
  BY <1>2, <1>3, <1>6, <1>7 DEF IInv

\* Closing t decides its cancellation request.
LEMMA ClosesKeepsIInv ==
    ASSUME IInv, NEW t \in Tickets, Closes(t)
    PROVE  IInv'
<1>1. PICK resolved \in RESOLVED_STATUSES : status' = [status EXCEPT ![t] = resolved]
  BY DEF Closes
<1>2. /\ Unlocked(t) /\ status[t] = "ACTIVE" /\ TypeOK
      /\ requests' = [requests EXCEPT ![t] = Superseded(t)]
      /\ UNCHANGED <<task, tx>>
  BY DEF Closes, IInv
<1>3. \A i \in 1 .. MaxRequests :
          /\ Superseded(t)[i] \in CancellationRequest
          /\ Superseded(t)[i].status # "PENDING"
          /\ Superseded(t)[i].duplicate_of = requests[t][i].duplicate_of
          /\ Superseded(t)[i].status = "APPROVED" => requests[t][i].status = "APPROVED"
  <2> TAKE i \in 1 .. MaxRequests
  <2>1. requests[t][i] \in CancellationRequest
    BY <1>2 DEF TypeOK
  <2>2. CASE requests[t][i].status = "PENDING"
    <3>1. NoRequest.status = "NONE"
      BY DEF NoRequest
    <3>2. PICK c \in [status : RequestStatuses, duplicate_of : Tickets \cup {NoTicket}] :
              c = requests[t][i]
      BY <2>1, <2>2, <3>1 DEF CancellationRequest
    <3>3. Superseded(t)[i] = [c EXCEPT !.status = "ENDED"]
      BY <2>2, <3>2 DEF Superseded
    <3> QED
      BY <3>2, <3>3 DEF CancellationRequest, RequestStatuses
  <2>3. CASE requests[t][i].status # "PENDING"
    BY <2>1, <2>3 DEF Superseded
  <2> QED
    BY <2>2, <2>3
<1>4. /\ Superseded(t) \in [1 .. MaxRequests -> CancellationRequest]
      /\ requests'[t] = Superseded(t)
      /\ \A u \in Tickets \ {t} : requests'[u] = requests[u] /\ status'[u] = status[u]
      /\ status'[t] = resolved
  BY <1>1, <1>2, <1>3 DEF TypeOK, Superseded
<1>5. resolved \in Statuses /\ resolved # "CANCELLED" /\ status[t] # "CANCELLED"
  BY <1>2 DEF RESOLVED_STATUSES, Statuses, TERMINAL_STATUSES
<1>6. TypeOK' /\ Confined({t})
  BY <1>1, <1>2, <1>4, <1>5 DEF TypeOK, Confined
<1>7. TransactionsOK' /\ Exclusive'
  BY <1>2, <1>6, BareService
<1>8. NoDuplicateCycle'
  BY <1>4, <1>5, <1>6, ChainKept
<1>9. \A i \in 1 .. MaxRequests :
          /\ requests'[t][i].status # "PENDING" /\ requests'[t][i].status # "APPROVED"
          /\ requests'[t][i].duplicate_of # t
  BY <1>3, <1>4, <1>5 DEF IInv, RequestsOK
<1>10. RequestsOK'
  <2>1. \A u \in Tickets \ {t} :
          /\ \A i, j \in 1 .. MaxRequests :
                requests'[u][i].status = "PENDING" /\ requests'[u][j].status = "PENDING" => i = j
          /\ \A i \in 1 .. MaxRequests : requests'[u][i].duplicate_of # u
          /\ status'[u] # "CANCELLED" =>
                \A i \in 1 .. MaxRequests : requests'[u][i].status # "APPROVED"
    BY <1>4 DEF IInv, RequestsOK
  <2> QED
    BY <1>9, <2>1 DEF RequestsOK
<1>11. NothingWaitsOnClosed'
  <2>1. Pending(t)' = 0
    BY <1>9, PendingOf, PendingIs
  <2>2. \A u \in Tickets \ {t} : Pending(u)' = Pending(u)
    BY <1>4, PendingOf
  <2>3. \A u \in Tickets : Outstanding(u)' = Outstanding(u)
    BY <1>2 DEF Outstanding
  <2> QED
    BY <1>4, <1>5, <2>1, <2>2, <2>3
       DEF IInv, NothingWaitsOnClosed, NoRequestOutlivesTicket, CancelledHasNoOpenWork
<1> QED
  BY <1>6, <1>7, <1>8, <1>10, <1>11 DEF IInv

LEMMA CreateKeepsIInv ==
    ASSUME IInv, NEW s \in Subtasks, CreateResponseRequest(s)
    PROVE  IInv'
<1> DEFINE t == Parent[s]
<1>1. /\ t \in Tickets /\ Unlocked(t) /\ status[t] # "CANCELLED" /\ task[s] = "NONE"
      /\ task' = [task EXCEPT ![s] = "OPEN"]
      /\ UNCHANGED <<status, requests, tx>>
  BY CancellationAssumption DEF CreateResponseRequest, SaveAllowed
<1>2. TypeOK' /\ Confined({t})
  BY <1>1 DEF IInv, TypeOK, Confined, TaskStatuses, TaskOpen
<1>3. ASSUME NEW q \in Procs, NEW x \in Transaction, tx[q] = x, x.kind = "update", x.fresh
      PROVE  \A r \in x.work : task'[r] = task[r]
  <2>1. TxOK(x)
    BY <1>3 DEF IInv, TransactionsOK
  <2>2. \A r \in x.work : r \in Subtasks /\ task[r] \in TaskOpen \cup {"DONE"}
    BY <1>3, <2>1 DEF TxOK, FormCurrent, Transaction
  <2> QED
    BY <1>1, <2>2 DEF TaskOpen, IInv, TypeOK
<1>4. TransactionsOK' /\ Exclusive'
  BY <1>1, <1>2, <1>3, BareService
<1>5. RequestsOK' /\ NoDuplicateCycle'
  BY <1>1, <1>2, ChainKept DEF IInv, RequestsOK
<1>6. NothingWaitsOnClosed'
  <2>1. \A u \in Tickets : Pending(u)' = Pending(u)
    BY <1>1, PendingOf
  <2>2. \A u \in Tickets \ {t} : Outstanding(u)' = Outstanding(u)
    BY <1>1 DEF Outstanding
  <2> QED
    BY <1>1, <2>1, <2>2
       DEF IInv, NothingWaitsOnClosed, NoRequestOutlivesTicket, CancelledHasNoOpenWork
<1> QED
  BY <1>2, <1>4, <1>5, <1>6 DEF IInv

LEMMA StutterKeepsIInv ==
    ASSUME IInv, UNCHANGED vars
    PROVE  IInv'
<1>1. TypeOK' /\ Confined({}) /\ RequestsOK' /\ NothingWaitsOnClosed' /\ NoDuplicateCycle'
  BY DataKept DEF vars, IInv, TypeOK
<1>2. TransactionsOK'
  <2> SUFFICES ASSUME NEW q \in Procs, NEW x \in Transaction, tx[q] = x
               PROVE  TxOK(x)'
    BY DEF TransactionsOK, vars
  <2>1. TxOK(x) /\ TypeOK
    BY DEF IInv, TransactionsOK
  <2> QED
    BY <1>1, <2>1, TxStands DEF vars
<1>3. Exclusive'
  BY DEF IInv, Exclusive, vars
<1> QED
  BY <1>1, <1>2, <1>3 DEF IInv

LEMMA StepKeepsIInv ==
    ASSUME IInv, NEW p \in Procs, Step(p)
    PROVE  IInv'
<1>1. tx[p] # Idle
  BY DEF Step
<1>2. \/ \E r \in Rows : Acquire(p, r)
      \/ Rollback(p)
      \/ Decides(p)
      \/ CommitsCancellation(p)
      \/ CommitsRequest(p)
      \/ CommitsDecision(p)
      \/ CommitsUpdate(p)
      \/ CommitsHardening(p)
  BY DEF Step, NowaitFails, DeadlockDetected, CancellationRefused, UpdateRefused, CommitsReview
<1> QED
  BY <1>1, <1>2, AcquireKeepsIInv, RollbackKeepsIInv, DecidesKeepsIInv, CancellationKeepsIInv,
     RequestKeepsIInv, DeclineKeepsIInv, UpdateKeepsIInv, HardeningKeepsIInv

LEMMA NextKeepsIInv == IInv /\ [Next]_vars => IInv'
<1> SUFFICES ASSUME IInv, [Next]_vars PROVE IInv'
  OBVIOUS
<1>1. CASE \E p \in Procs : Opens(p) \/ Step(p)
  BY <1>1, OpensKeepsIInv, StepKeepsIInv
<1>2. CASE \E t \in Tickets : Submits(t) \/ Closes(t)
  BY <1>2, SubmitsKeepsIInv, ClosesKeepsIInv
<1>3. CASE \E s \in Subtasks : CreateResponseRequest(s)
  BY <1>3, CreateKeepsIInv
<1>4. CASE UNCHANGED vars
  BY <1>4, StutterKeepsIInv
<1> QED
  BY <1>1, <1>2, <1>3, <1>4 DEF Next

-----------------------------------------------------------------------------
(***************************************************************************)
(* What a step may not overwrite                                           *)
(***************************************************************************)

\* NothingOverwrittenUnseen, of one step.
OverwritesNothingUnseen ==
    /\ \A s \in Subtasks : task[s] = "DONE" => task'[s] # "CANCELLED"
    /\ \A p \in Procs :
        tx[p] # Idle /\ tx'[p] = Idle /\ tx[p].kind = "update" =>
            \A s \in tx[p].work : task'[s] # task[s] => task[s] = tx[p].loaded

\* A commit ends no transaction but its own.
LEMMA OthersGoOn ==
    ASSUME IInv, NEW p \in Procs, NEW W, tx' = Outdated(p, W),
           NEW q \in Procs \ {p}, tx[q] # Idle
    PROVE  tx'[q] # Idle
<1>1. PICK x \in Transaction : tx[q] = x
  BY DEF IInv, TypeOK
<1>2. [x EXCEPT !.fresh = FALSE] \in Transaction
  BY DEF Transaction
<1>3. tx'[q] = x \/ tx'[q] = [x EXCEPT !.fresh = FALSE]
  BY <1>1 DEF Outdated
<1> QED
  BY <1>2, <1>3, IdleIsNoTransaction

LEMMA NextOverwritesNothing == IInv /\ [Next]_vars => OverwritesNothingUnseen
<1> SUFFICES ASSUME IInv, [Next]_vars PROVE OverwritesNothingUnseen
  OBVIOUS
<1>1. CASE UNCHANGED task
  <2>1. task' = task
    BY <1>1
  <2> QED
    BY <2>1 DEF OverwritesNothingUnseen
<1>2. ASSUME NEW p \in Procs, tx[p] # Idle, CommitsCancellation(p)
      PROVE  OverwritesNothingUnseen
  <2>1. tx' = Outdated(p, tx[p].work) /\ tx[p].kind # "update"
    BY <1>2 DEF CommitsCancellation, Cancels
  <2>2. \A q \in Procs : tx[q] # Idle /\ tx'[q] = Idle => q = p
    BY <2>1, OthersGoOn
  <2> QED
    BY <1>2, <2>1, <2>2, CancellationKeepsIInv DEF OverwritesNothingUnseen
<1>3. ASSUME NEW p \in Procs, tx[p] # Idle, CommitsUpdate(p)
      PROVE  OverwritesNothingUnseen
  <2>1. tx' = Outdated(p, tx[p].work)
    BY <1>3 DEF CommitsUpdate
  <2>2. \A q \in Procs : tx[q] # Idle /\ tx'[q] = Idle => q = p
    BY <2>1, OthersGoOn
  <2>3. /\ \A s \in Subtasks : task'[s] = "CANCELLED" => task[s] = "CANCELLED"
        /\ \A s \in tx[p].work : task[s] = tx[p].loaded
    BY <1>3, UpdateKeepsIInv
  <2> QED
    BY <2>2, <2>3 DEF OverwritesNothingUnseen
<1>4. ASSUME NEW s \in Subtasks, CreateResponseRequest(s)
      PROVE  OverwritesNothingUnseen
  <2>1. /\ task[s] = "NONE" /\ tx' = tx /\ task \in [Subtasks -> TaskStatuses]
        /\ task' = [task EXCEPT ![s] = "OPEN"]
    BY <1>4 DEF CreateResponseRequest, IInv, TypeOK
  <2> QED
    BY <2>1 DEF OverwritesNothingUnseen
<1>5. CASE \E p \in Procs : Opens(p)
  <2>1. \A p \in Procs : OpensCancellation(p) => UNCHANGED task
    BY DEF OpensCancellation, OpensForm, Begin
  <2>2. \A p \in Procs : OpensUpdate(p) \/ OpensHardening(p) \/ OpensReview(p) => UNCHANGED task
    BY DEF OpensUpdate, OpensHardening, OpensReview, Begin
  <2> QED
    BY <1>1, <1>5, <2>1, <2>2 DEF Opens
<1>6. CASE \E p \in Procs : Step(p)
  BY <1>1, <1>2, <1>3, <1>6
     DEF Step, Acquire, Rollback, NowaitFails, DeadlockDetected, Decides, CommitsRequest,
         CommitsDecision, CancellationRefused, UpdateRefused, CommitsHardening, CommitsReview
<1>7. CASE \E t \in Tickets : Submits(t) \/ Closes(t)
  BY <1>1, <1>7 DEF Submits, Closes
<1>8. CASE UNCHANGED vars
  BY <1>1, <1>8 DEF vars
<1> QED
  BY <1>4, <1>5, <1>6, <1>7, <1>8 DEF Next

-----------------------------------------------------------------------------
(***************************************************************************)
(* Deadlocks                                                               *)
(***************************************************************************)

\* A cancellation that decides, or a Project Review.
Decisive(x) ==
    /\ x.kind \in Cancelling \cup {"review"}
    /\ x.kind = "request" => x.ticket \in Members

\* Nobody waits for a row of his own.
LEMMA NeedsAreNotHeld ==
    ASSUME NEW x \in Transaction, x.kind \in Cancelling \cup {"review"}, NEW r \in Needs(x)
    PROVE  r \notin x.holds
<1>1. CASE x.kind = "review"
  BY <1>1 DEF Needs, ReviewOrder
<1>2. CASE x.kind \in Cancelling
  <2>1. r \in CancellationOrder(x)
    BY <1>2 DEF Needs, Cancelling
  <2>2. CASE ParentFirst(x) # {}
    BY <2>1, <2>2 DEF CancellationOrder, ParentFirst, ProjectOf
  <2>3. CASE ParentFirst(x) = {}
    BY <2>1, <2>3 DEF CancellationOrder, original_locked
  <2> QED
    BY <2>2, <2>3
<1> QED
  BY <1>1, <1>2

\* Two cancellations do not wait for each other's response requests.
LEMMA WorkIsNotShared ==
    ASSUME IInv, NEW p \in Procs, NEW q \in Procs, p # q,
           NEW x \in Transaction, tx[p] = x, x.decided,
           NEW y \in Transaction, tx[q] = y, y.kind \in Cancelling \cup {"review"},
           NEW s \in x.work, s \in y.holds
    PROVE  FALSE
<1>1. TxOK(x) /\ TxOK(y)
  BY DEF IInv, TransactionsOK
<1>2. s \in Subtasks /\ Parent[s] = x.ticket /\ x.ticket \in x.holds
  BY <1>1 DEF TxOK, DecisionHolds, Outstanding
<1>3. y.kind \in Cancelling /\ s \in y.work
  BY <1>1, <1>2 DEF TxOK, HoldsInOrder
<1>4. y.decided
  BY <1>1, <1>3 DEF TxOK, Shape
<1>5. Parent[s] = y.ticket /\ y.ticket \in y.holds
  BY <1>1, <1>3, <1>4 DEF TxOK, DecisionHolds, Outstanding
<1> QED
  BY <1>2, <1>5 DEF IInv, Exclusive

\* In a deadlock of decisions whoever holds a row holds the project.
LEMMA HolderHoldsProject ==
    ASSUME IInv, NEW S \in SUBSET Open, Deadlocked(S), \A p \in S : Decisive(tx[p]),
           NEW p \in S, NEW x \in Transaction, tx[p] = x, x.holds # {}
    PROVE  Project \in x.holds
<1>1. p \in Procs /\ S \subseteq Procs
  BY DEF Open
<1>2. TxOK(x) /\ Decisive(x)
  BY <1>1 DEF IInv, TransactionsOK
<1>3. /\ Needs(x) # {}
      /\ \A r \in Needs(x) : Holder(r) # {} /\ ~Nowait(x, r) /\ Holder(r) \subseteq S
  BY DEF Deadlocked, Blocked, WaitsOnlyFor
<1>4. CASE x.kind = "review"
  BY <1>2, <1>4 DEF TxOK, HoldsInOrder
<1>5. CASE x.kind \in Cancelling /\ x.ticket \in Members
  BY <1>2, <1>5 DEF TxOK, HoldsInOrder, ProjectOf
<1>6. CASE x.kind \in Cancelling /\ x.ticket \notin Members
  <2>1. x.ticket \in x.holds /\ ParentFirst(x) = {} /\ x.kind # "request"
    BY <1>2, <1>6 DEF TxOK, HoldsInOrder, ProjectOf, ParentFirst, Decisive
  <2>2. Needs(x) = CancellationOrder(x)
    BY <1>6 DEF Needs, Cancelling
  <2>3. CASE x.decided
    <3>1. PICK r \in Needs(x) : r \in x.work \ x.holds
      BY <1>3, <2>1, <2>2, <2>3 DEF CancellationOrder
    <3>2. PICK q \in S : q \in Holder(r)
      BY <1>3
    <3>3. PICK y \in Transaction : tx[q] = y
      BY <1>1, <3>2 DEF Holder, Open, IInv, TypeOK
    <3>4. r \in y.holds /\ q # p /\ Decisive(y)
      BY <3>1, <3>2, <3>3 DEF Holder
    <3> QED
      BY <1>1, <2>3, <3>1, <3>3, <3>4, WorkIsNotShared DEF Decisive
  <2>4. CASE ~x.decided
    <3>1. Needs(x) = {Original(x)} /\ Original(x) # NoTicket
      BY <1>3, <2>1, <2>2, <2>4 DEF CancellationOrder, original_locked
    <3>2. Cancels(x)
      BY <3>1 DEF Original, Cancels
    <3> QED
      BY <1>3, <3>1, <3>2 DEF Nowait
  <2> QED
    BY <2>3, <2>4
<1> QED
  BY <1>2, <1>4, <1>5, <1>6 DEF Decisive

LEMMA DecisionsGoOn == IInv => DecisionsDoNotDeadlock
<1> SUFFICES ASSUME IInv, NEW S \in SUBSET Open, Deadlocked(S),
                    \A p \in S : ~ \/ tx[p].kind \in {"update", "harden"}
                                   \/ tx[p].kind = "request" /\ tx[p].ticket \notin Members
             PROVE  FALSE
  BY DEF DecisionsDoNotDeadlock
<1>1. S \subseteq Procs /\ S # {}
  BY DEF Open, Deadlocked
<1>2. \A p \in S : tx[p] \in Transaction
  BY <1>1 DEF Open, IInv, TypeOK
<1>3. \A p \in S : Decisive(tx[p])
  BY <1>2 DEF Decisive, Transaction, Cancelling
<1>4. \A p \in S : \E r \in Needs(tx[p]), q \in S : r \in tx[q].holds
  BY DEF Deadlocked, Blocked, WaitsOnlyFor, Holder
<1>5. \A p \in S, x \in Transaction : tx[p] = x /\ x.holds # {} => Project \in x.holds
  BY <1>3, HolderHoldsProject
<1>6. PICK q \in S : \E r : r \in tx[q].holds
  BY <1>1, <1>4
<1>7. PICK x \in Transaction : tx[q] = x
  BY <1>2
<1>8. PICK r \in Needs(x), p \in S : r \in tx[p].holds
  BY <1>4, <1>7
<1>9. PICK y \in Transaction : tx[p] = y
  BY <1>2
<1>10. Project \in x.holds /\ Project \in y.holds
  BY <1>5, <1>6, <1>7, <1>8, <1>9
<1>11. p = q
  BY <1>1, <1>7, <1>9, <1>10 DEF IInv, Exclusive
<1>12. r \in x.holds
  BY <1>7, <1>8, <1>11
<1> QED
  BY <1>3, <1>7, <1>12, NeedsAreNotHeld DEF Decisive

-----------------------------------------------------------------------------
(***************************************************************************)
(* Theorems                                                                *)
(***************************************************************************)

THEOREM Inductive == Spec => []IInv
<1>1. Init => IInv
  BY InitIInv
<1>2. IInv /\ [Next]_vars => IInv'
  BY NextKeepsIInv
<1> QED
  BY <1>1, <1>2, PTL DEF Spec

\* The rows and the open transactions have their types.
THEOREM TypeCorrect == Spec => []TypeOK
<1>1. IInv => TypeOK
  BY DEF IInv
<1> QED
  BY <1>1, Inductive, PTL

\* perform_cancellation, Ticket.save and TicketSubtask.save leave nothing of a
\* case that has ended for anybody to do, however their transactions interleave.
THEOREM EndedCasesAskNothing == Spec => []NothingWaitsOnClosed
<1>1. IInv => NothingWaitsOnClosed
  BY DEF IInv
<1> QED
  BY <1>1, Inductive, PTL

\* The original is locked when a cancellation decides on it, so that two tickets
\* do not become each other's duplicates, nor any number of them in a circle.
THEOREM OriginalsStand == Spec => []NoDuplicateCycle
<1>1. IInv => NoDuplicateCycle
  BY DEF IInv
<1> QED
  BY <1>1, Inductive, PTL

\* A response request's work is replaced only by one who was shown it: DONE is
\* not cancelled, and an update's form showed what it replaces.
THEOREM WorkIsSeenBeforeItIsReplaced == Spec => NothingOverwrittenUnseen
<1>1. IInv /\ [Next]_vars => [OverwritesNothingUnseen]_vars
  BY NextOverwritesNothing
<1> QED
  BY <1>1, Inductive, PTL DEF Spec, NothingOverwrittenUnseen, OverwritesNothingUnseen

\* The lock order of perform_cancellation and of the Project Reviews: they do
\* not wait for one another in a circle.
THEOREM DecisionsNeverDeadlock == Spec => []DecisionsDoNotDeadlock
<1>1. IInv => DecisionsDoNotDeadlock
  BY DecisionsGoOn
<1> QED
  BY <1>1, Inductive, PTL
=============================================================================
