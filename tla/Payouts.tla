------------------------------ MODULE Payouts ------------------------------
(***************************************************************************)
(* The payout path of the finance API for the winnings of one member: the  *)
(* withdraw endpoint, the Trolley payment it opens, the payment webhooks   *)
(* Trolley sends back, the admin who edits the status of a payment, and    *)
(* the reconciliation that puts payments on hold.                          *)
(*                                                                         *)
(* Every action is one database statement, database transaction or remote  *)
(* call of the code, so everything that another instance of the (stateless,*)
(* replicated) API may do between two awaits can happen between two        *)
(* actions.  A winning has one payment row (installment 1), in USD, past   *)
(* its release date.  Amounts, audit rows and the external transaction id  *)
(* are left out: no step of this path branches on them.                    *)
(***************************************************************************)
EXTENDS Integers, FiniteSets

CONSTANTS
  Winnings,       \* the member's winnings
  Withdrawals,    \* calls of the withdraw endpoint; also the id of the release and
                  \* of the Trolley payment (externalId) that the call creates
  Codes,          \* one-time passwords
  Copies,         \* deliveries of one webhook event that may get past the event log
  Admins,         \* calls of the admin endpoint
  AdminTargets,   \* the payment statuses that admins ask for
  Handlers,       \* webhook handlers of the payout set-up (tax form, account, identity)
  Serial,         \* TRUE: the member never has two withdraw calls running at once
  LateStart,      \* TRUE: startProcessing may fail here although Trolley started
  MaxVersion      \* bound of the model: admins start no edit at or above this version

\* The statuses paymentStatus of an admin request is accepted with.
AdminStatuses == {"OWED", "ON_HOLD_ADMIN", "CANCELLED"}

ASSUME ConstantsAssumption ==
  /\ AdminTargets \subseteq AdminStatuses
  /\ Serial \in BOOLEAN
  /\ LateStart \in BOOLEAN
  /\ MaxVersion \in Nat
  /\ Admins \cap Handlers = {}

VARIABLES
  status,      \* payment.payment_status
  version,     \* payment.version
  datePaid,    \* payment.date_paid is not null
  ready,       \* tax form, payment method and identity check are all complete
  otp,         \* the codes, see OneTimeCodes
  pc,          \* the next step of each withdraw call
  chosen,      \* the winnings a withdraw call is about
  given,       \* the code a withdraw call was given
  release,     \* payment_releases.status of the release of a withdraw call
  aged,        \* the release was created at least 12 hours ago
  trolley,     \* the payment at Trolley
  emitted,     \* webhook events Trolley has sent
  hook,        \* the next step of the handling of each delivery of an event
  admin,       \* each admin call: what was asked and what it has read
  recon        \* the next step of each reconcileUserPayments

paymentVars == <<status, version, datePaid>>
requestVars == <<pc, chosen, given>>
vars == <<status, version, datePaid, ready, otp, pc, chosen, given, release,
          aged, trolley, emitted, hook, admin, recon>>

OTC == INSTANCE OneTimeCodes WITH code <- otp

PaymentStatus == {"OWED", "ON_HOLD", "ON_HOLD_ADMIN", "PROCESSING", "PAID",
                  "FAILED", "RETURNED", "CANCELLED"}
ReleaseStatus == {"none", "PROCESSING", "PROCESSED", "FAILED", "RETURNED"}
Steps == {"idle", "select", "otp", "create", "pay", "mark", "unrelease",
          "remove", "start", "revert", "failrelease", "done"}
TrolleyStates == {"none", "open", "removed", "processing", "processed",
                  "failed", "returned"}
Kinds == {"processed", "failed", "returned"}
Hooks == Withdrawals \X Kinds \X Copies
HookStages == {"idle", "payments", "check", "write", "done"}
Reconcilers == Admins \cup Handlers
NoEdit == [pc |-> "idle"]
AdminCalls ==
  {NoEdit} \cup [pc : {"release", "commit"}, w : Winnings, to : AdminTargets,
                 st : PaymentStatus, ver : Nat, fail : BOOLEAN]

TypeOK ==
  /\ status \in [Winnings -> PaymentStatus]
  /\ version \in [Winnings -> Nat]
  /\ datePaid \in [Winnings -> BOOLEAN]
  /\ ready \in BOOLEAN
  /\ OTC!TypeOK
  /\ pc \in [Withdrawals -> Steps]
  /\ chosen \in [Withdrawals -> SUBSET Winnings]
  /\ given \in [Withdrawals -> Codes \cup {"none"}]
  /\ release \in [Withdrawals -> ReleaseStatus]
  /\ aged \in [Withdrawals -> BOOLEAN]
  /\ trolley \in [Withdrawals -> TrolleyStates]
  /\ emitted \subseteq Withdrawals \X Kinds
  /\ hook \in [Hooks -> HookStages]
  /\ admin \in [Admins -> AdminCalls]
  /\ recon \in [Reconcilers -> {"idle", "due", "owe", "hold"}]

\* A winning is created OWED when the member's set-up is complete, else ON_HOLD.
Init ==
  /\ ready \in BOOLEAN
  /\ status = [w \in Winnings |-> IF ready THEN "OWED" ELSE "ON_HOLD"]
  /\ version = [w \in Winnings |-> 1]
  /\ datePaid = [w \in Winnings |-> FALSE]
  /\ OTC!Init
  /\ pc = [r \in Withdrawals |-> "idle"]
  /\ chosen = [r \in Withdrawals |-> {}]
  /\ given = [r \in Withdrawals |-> "none"]
  /\ release = [r \in Withdrawals |-> "none"]
  /\ aged = [r \in Withdrawals |-> FALSE]
  /\ trolley = [r \in Withdrawals |-> "none"]
  /\ emitted = {}
  /\ hook = [h \in Hooks |-> "idle"]
  /\ admin = [a \in Admins |-> NoEdit]
  /\ recon = [x \in Reconcilers |-> "idle"]

-----------------------------------------------------------------------------
(***************************************************************************)
(* Writes shared by several actions.                                       *)
(***************************************************************************)

\* Wrong form: the version is not incremented.
UpdateProcessingStateUnversioned(W, s) ==
  /\ status' = [w \in Winnings |-> IF w \in W THEN s ELSE status[w]]
  /\ datePaid' = [w \in Winnings |-> (w \in W /\ s = "PAID") \/ datePaid[w]]
  /\ UNCHANGED version

\* updatePaymentProcessingState: one UPDATE of every payment of the winnings W,
\* whatever its status and version are by now; date_paid is only ever set.
UpdateProcessingState(W, s) ==
  /\ status' = [w \in Winnings |-> IF w \in W THEN s ELSE status[w]]
  /\ version' = [w \in Winnings |-> IF w \in W THEN version[w] + 1 ELSE version[w]]
  /\ datePaid' = [w \in Winnings |-> (w \in W /\ s = "PAID") \/ datePaid[w]]

GoTo(r, step) == pc' = [pc EXCEPT ![r] = step]

SetRelease(r, s) == release' = [release EXCEPT ![r] = s]

Running(r) == pc[r] \notin {"idle", "done"}

\* The releases that winning w is part of (payment_release_associations).
ReleasesOf(w) == {r \in Withdrawals : release[r] # "none" /\ w \in chosen[r]}

-----------------------------------------------------------------------------
(***************************************************************************)
(* The withdraw endpoint.                                                  *)
(***************************************************************************)

\* The call passes the checks of the set-up and of the member's e-mail domain.  It
\* carries a code that was issued (any other is refused); the call that carries none
\* is what makes Otp issue one.
Withdraw(r, W, c) ==
  /\ pc[r] = "idle"
  /\ Serial => \A q \in Withdrawals : ~Running(q)
  /\ ready /\ otp[c] # "unissued"
  /\ GoTo(r, "select")
  /\ chosen' = [chosen EXCEPT ![r] = W]
  /\ given' = [given EXCEPT ![r] = c]
  /\ UNCHANGED <<paymentVars, ready, otp, release, aged, trolley, emitted, hook,
                 admin, recon>>

\* Wrong form: only the payment date is looked at, not the status.
ReleasableByDateOnly(w) == ~datePaid[w]

Releasable(w) == status[w] = "OWED" /\ ~datePaid[w]

\* SELECT ... FOR UPDATE NOWAIT outside any transaction: the row locks are gone when
\* the statement ends, so the check says nothing about what follows it.
SelectReleasable(r) ==
  /\ pc[r] = "select"
  /\ \A w \in chosen[r] : Releasable(w)
  /\ GoTo(r, "otp")
  /\ UNCHANGED <<paymentVars, ready, otp, chosen, given, release, aged, trolley,
                 emitted, hook, admin, recon>>

\* Wrong form: verified_at is not written.
VerifyOtpUnspent(r) ==
  /\ pc[r] = "otp"
  /\ given[r] \in Codes /\ otp[given[r]] = "live"
  /\ GoTo(r, "create")
  /\ UNCHANGED <<paymentVars, ready, otp, chosen, given, release, aged, trolley, emitted,
                 hook, admin, recon>>

VerifyOtp(r) ==
  /\ pc[r] = "otp"
  /\ given[r] \in Codes
  /\ OTC!Use(given[r])
  /\ GoTo(r, "create")
  /\ UNCHANGED <<paymentVars, ready, chosen, given, release, aged, trolley, emitted,
                 hook, admin, recon>>

\* createDbPaymentRelease: the release and its associations in one nested create.
CreateRelease(r) ==
  /\ pc[r] = "create"
  /\ SetRelease(r, "PROCESSING")
  /\ GoTo(r, "pay")
  /\ UNCHANGED <<paymentVars, ready, otp, chosen, given, aged, trolley, emitted, hook,
                 admin, recon>>

\* startBatchPayment, createPayment and the write of the external transaction id.
CreatePayment(r) ==
  /\ pc[r] = "pay"
  /\ trolley' = [trolley EXCEPT ![r] = "open"]
  /\ GoTo(r, "mark")
  /\ UNCHANGED <<paymentVars, ready, otp, chosen, given, release, aged, emitted, hook,
                 admin, recon>>

\* Wrong form: the payments are marked before the payment exists at Trolley.
MarkProcessingEarly(r) ==
  /\ pc[r] = "pay"
  /\ UpdateProcessingState(chosen[r], "PROCESSING")
  /\ GoTo(r, "start")
  /\ UNCHANGED <<ready, otp, chosen, given, release, aged, trolley, emitted, hook,
                 admin, recon>>

MarkProcessing(r) ==
  /\ pc[r] = "mark"
  /\ UpdateProcessingState(chosen[r], "PROCESSING")
  /\ GoTo(r, "start")
  /\ UNCHANGED <<ready, otp, chosen, given, release, aged, trolley, emitted, hook,
                 admin, recon>>

\* The UPDATE fails: the release is marked FAILED, then the payment is removed.
\* A failed UPDATE is taken to have changed no row: that its answer is lost after it was
\* carried out is not modelled here (a crash at that point is: Abort at "start").
MarkProcessingFails(r) ==
  /\ pc[r] = "mark"
  /\ GoTo(r, "unrelease")
  /\ UNCHANGED <<paymentVars, ready, otp, chosen, given, release, aged, trolley,
                 emitted, hook, admin, recon>>

FailRelease(r) ==
  /\ pc[r] \in {"unrelease", "failrelease"}
  /\ SetRelease(r, "FAILED")
  /\ GoTo(r, IF pc[r] = "unrelease" THEN "remove" ELSE "done")
  /\ UNCHANGED <<paymentVars, ready, otp, chosen, given, aged, trolley, emitted, hook,
                 admin, recon>>

\* removePayment swallows its errors.
RemovePayment(r) ==
  /\ pc[r] = "remove"
  /\ trolley' \in {trolley, [trolley EXCEPT ![r] = "removed"]}
  /\ GoTo(r, "done")
  /\ UNCHANGED <<paymentVars, ready, otp, chosen, given, release, aged, emitted, hook,
                 admin, recon>>

\* Wrong form: the error path is entered after a success too.
StartProcessingThenFails(r) ==
  /\ pc[r] = "start"
  /\ trolley' = [trolley EXCEPT ![r] = "processing"]
  /\ GoTo(r, "failrelease")
  /\ UNCHANGED <<paymentVars, ready, otp, chosen, given, release, aged, emitted, hook,
                 admin, recon>>

\* generateQuote and startProcessing.  Insufficient funds count as success: Trolley
\* keeps the payment pending.
StartProcessing(r) ==
  /\ pc[r] = "start"
  /\ trolley' = [trolley EXCEPT ![r] = "processing"]
  /\ GoTo(r, "done")
  /\ UNCHANGED <<paymentVars, ready, otp, chosen, given, release, aged, emitted, hook,
                 admin, recon>>

\* The call fails here; with LateStart, Trolley may have started all the same.
StartProcessingFails(r) ==
  /\ pc[r] = "start"
  /\ \/ UNCHANGED trolley
     \/ LateStart /\ trolley' = [trolley EXCEPT ![r] = "processing"]
  /\ GoTo(r, "revert")
  /\ UNCHANGED <<paymentVars, ready, otp, chosen, given, release, aged, emitted, hook,
                 admin, recon>>

RevertToOwed(r) ==
  /\ pc[r] = "revert"
  /\ UpdateProcessingState(chosen[r], "OWED")
  /\ GoTo(r, "failrelease")
  /\ UNCHANGED <<ready, otp, chosen, given, release, aged, trolley, emitted, hook,
                 admin, recon>>

\* A refused check, an invalid code, a failed statement or a crash before the release
\* exists: the call leaves nothing behind but perhaps a spent code.
Refuse(r) ==
  /\ pc[r] \in {"select", "otp", "create"}
  /\ GoTo(r, "idle")
  /\ chosen' = [chosen EXCEPT ![r] = {}]
  /\ given' = [given EXCEPT ![r] = "none"]
  /\ UNCHANGED <<paymentVars, ready, otp, release, aged, trolley, emitted, hook, admin,
                 recon>>

\* After that: an error thrown at an await that no catch repairs, or a crash.  A remote
\* call under way may have had its effect.
Abort(r) ==
  /\ Running(r) /\ pc[r] \notin {"select", "otp", "create"}
  /\ \/ UNCHANGED trolley
     \/ pc[r] = "pay" /\ trolley' = [trolley EXCEPT ![r] = "open"]
     \/ pc[r] = "start" /\ trolley' = [trolley EXCEPT ![r] = "processing"]
  /\ GoTo(r, "done")
  /\ UNCHANGED <<paymentVars, ready, otp, chosen, given, release, aged, emitted, hook,
                 admin, recon>>

WithdrawStep(r) ==
  \/ SelectReleasable(r) \/ VerifyOtp(r) \/ CreateRelease(r) \/ CreatePayment(r)
  \/ MarkProcessing(r) \/ MarkProcessingFails(r) \/ FailRelease(r)
  \/ RemovePayment(r) \/ StartProcessing(r) \/ StartProcessingFails(r)
  \/ RevertToOwed(r)

-----------------------------------------------------------------------------
(***************************************************************************)
(* Trolley, one-time codes and time.                                       *)
(***************************************************************************)

Emit(r, k) == emitted' = emitted \cup {<<r, k>>}

TrolleySettles(r) ==
  /\ trolley[r] = "processing"
  /\ \E k \in {"processed", "failed"} :
       trolley' = [trolley EXCEPT ![r] = k] /\ Emit(r, k)
  /\ UNCHANGED <<paymentVars, requestVars, ready, otp, release, aged, hook, admin, recon>>

TrolleyReturns(r) ==
  /\ trolley[r] = "processed"
  /\ trolley' = [trolley EXCEPT ![r] = "returned"]
  /\ Emit(r, "returned")
  /\ UNCHANGED <<paymentVars, requestVars, ready, otp, release, aged, hook, admin, recon>>

IssueCode(c) ==
  /\ OTC!Issue(c)
  /\ UNCHANGED <<paymentVars, requestVars, ready, release, aged, trolley, emitted, hook,
                 admin, recon>>

ExpireCode(c) ==
  /\ OTC!Expire({c})
  /\ UNCHANGED <<paymentVars, requestVars, ready, release, aged, trolley, emitted, hook,
                 admin, recon>>

\* Twelve hours pass after a release was created; no call runs that long, and only admins
\* look at the age.
ReleaseAges(r) ==
  /\ Admins # {}
  /\ release[r] # "none" /\ ~aged[r] /\ pc[r] = "done"
  /\ aged' = [aged EXCEPT ![r] = TRUE]
  /\ UNCHANGED <<paymentVars, requestVars, ready, otp, release, trolley, emitted, hook,
                 admin, recon>>

-----------------------------------------------------------------------------
(***************************************************************************)
(* The payment webhooks: payment.processed, payment.failed and             *)
(* payment.returned of the payment whose externalId is the release.        *)
(***************************************************************************)

HookGoTo(h, stage) == hook' = [hook EXCEPT ![h] = stage]

\* A delivery gets past the event log and its handler has read the winnings.
HookStarts(h) ==
  /\ hook[h] = "idle" /\ <<h[1], h[2]>> \in emitted
  /\ HookGoTo(h, "payments")
  /\ UNCHANGED <<paymentVars, requestVars, ready, otp, release, aged, trolley, emitted,
                 admin, recon>>

\* Wrong form: every event that is not a return counts as paid.
PaymentStatusUnlessReturned(k) == IF k = "returned" THEN "RETURNED" ELSE "PAID"

PaymentStatusOf(k) == CASE k = "processed" -> "PAID"
                        [] k = "failed" -> "FAILED"
                        [] k = "returned" -> "RETURNED"

\* Wrong form: the payment status is written to the release.
ReleaseStatusAsPayment(k) == PaymentStatusOf(k)

\* Wrong form: every event that is not a return ends the release as processed.
ReleaseStatusUnlessReturned(k) == IF k = "returned" THEN "RETURNED" ELSE "PROCESSED"

ReleaseStatusOf(k) == IF k = "processed" THEN "PROCESSED" ELSE PaymentStatusOf(k)

\* updatePaymentProcessingState takes no transaction, so this write is committed at
\* once, whatever becomes of the release.
HookPayments(h) ==
  /\ hook[h] = "payments"
  /\ UpdateProcessingState(chosen[h[1]], PaymentStatusOf(h[2]))
  /\ HookGoTo(h, "check")
  /\ UNCHANGED <<requestVars, ready, otp, release, aged, trolley, emitted, admin, recon>>

\* updatePaymentReleaseState first reads the release without locking it ...
HookChecks(h) ==
  /\ hook[h] = "check"
  /\ HookGoTo(h, IF release[h[1]] \in {"FAILED", "RETURNED"} THEN "done" ELSE "write")
  /\ UNCHANGED <<paymentVars, requestVars, ready, otp, release, aged, trolley, emitted,
                 admin, recon>>

\* ... and then writes it unconditionally.
HookWrites(h) ==
  /\ hook[h] = "write"
  /\ SetRelease(h[1], ReleaseStatusOf(h[2]))
  /\ HookGoTo(h, "done")
  /\ UNCHANGED <<paymentVars, requestVars, ready, otp, aged, trolley, emitted, admin, recon>>

\* A statement fails or the instance crashes: the event is never handled again.
HookFails(h) ==
  /\ hook[h] \in {"payments", "check", "write"}
  /\ HookGoTo(h, "done")
  /\ UNCHANGED <<paymentVars, requestVars, ready, otp, release, aged, trolley, emitted,
                 admin, recon>>

HookStep(h) == HookStarts(h) \/ HookPayments(h) \/ HookChecks(h) \/ HookWrites(h)

-----------------------------------------------------------------------------
(***************************************************************************)
(* updateWinnings of the admin API, for a request that sets paymentStatus. *)
(***************************************************************************)

\* The payment row is read outside the transaction that writes it.
AdminReadsPayment(a, w, to) ==
  /\ admin[a] = NoEdit /\ recon[a] = "idle"
  /\ version[w] < MaxVersion
  /\ admin' = [admin EXCEPT ![a] = [pc |-> "release", w |-> w, to |-> to,
                                    st |-> status[w], ver |-> version[w],
                                    fail |-> FALSE]]
  /\ UNCHANGED <<paymentVars, requestVars, ready, otp, release, aged, trolley, emitted,
                 hook, recon>>

\* Wrong form: cancelled payments are not refused.
AcceptsCancelled(st, to, old) ==
  /\ to \in {"ON_HOLD_ADMIN", "CANCELLED"} => st # "PROCESSING"
  /\ to = "OWED" => CASE old = "none"  -> st \in {"ON_HOLD_ADMIN", "PAID"}
                       [] old = "fresh" -> st # "PROCESSING"
                       [] old = "aged"  -> TRUE

\* May payment status st become to?  old is the age test on the one release that was
\* looked up (old = "none": the winning has no release).
Accepts(st, to, old) ==
  /\ st # "CANCELLED"
  /\ to \in {"ON_HOLD_ADMIN", "CANCELLED"} => st # "PROCESSING"
  /\ to = "OWED" => CASE old = "none"  -> st \in {"ON_HOLD_ADMIN", "PAID"}
                       [] old = "fresh" -> st # "PROCESSING"
                       [] old = "aged"  -> TRUE

\* findFirst without an order: any release of the winning may be the one looked at.
AgeOfARelease(w) ==
  IF ReleasesOf(w) = {} THEN {"none"}
  ELSE {IF aged[r] THEN "aged" ELSE "fresh" : r \in ReleasesOf(w)}

AdminReadsRelease(a) ==
  /\ admin[a].pc = "release"
  /\ \E old \in AgeOfARelease(admin[a].w) :
       /\ Accepts(admin[a].st, admin[a].to, old)
       /\ admin' = [admin EXCEPT ![a] =
                      [@ EXCEPT !.pc = "commit",
                                !.fail = (admin[a].to = "OWED" /\ old = "aged")]]
  /\ UNCHANGED <<paymentVars, requestVars, ready, otp, release, aged, trolley, emitted,
                 hook, recon>>

\* The version in the WHERE clause is the optimistic lock.
VersionMatches(a) == version[admin[a].w] = admin[a].ver

\* Wrong form: the date of a payment that was paid is kept.
ClearsDateUnlessPaid(st, to) ==
  to = "OWED" /\ st \in {"PROCESSING", "RETURNED", "FAILED"}

\* updatePaymentStatus forgets date_paid when a payment goes back to OWED.
ClearsDatePaid(st, to) ==
  to = "OWED" /\ st \in {"PAID", "PROCESSING", "RETURNED", "FAILED"}

\* markPaymentReleaseAsFailedByWinningsId fails every release of the winning; the
\* request goes on to reconcile the member once the status is OWED.
AdminCommits(a) ==
  LET e == admin[a]  w == admin[a].w IN
  /\ e.pc = "commit" /\ VersionMatches(a)
  /\ release' = [r \in Withdrawals |->
                   IF e.fail /\ r \in ReleasesOf(w) THEN "FAILED" ELSE release[r]]
  /\ status' = [status EXCEPT ![w] = e.to]
  /\ version' = [version EXCEPT ![w] = e.ver + 1]
  /\ datePaid' = [datePaid EXCEPT ![w] = @ /\ ~ClearsDatePaid(e.st, e.to)]
  /\ admin' = [admin EXCEPT ![a] = NoEdit]
  /\ recon' = [recon EXCEPT ![a] = IF e.to = "OWED" THEN "due" ELSE "idle"]
  /\ UNCHANGED <<requestVars, ready, otp, aged, trolley, emitted, hook>>

\* The request is refused, its transaction rolls back, or the instance crashes.
AdminGivesUp(a) ==
  /\ admin[a] # NoEdit
  /\ admin' = [admin EXCEPT ![a] = NoEdit]
  /\ UNCHANGED <<paymentVars, requestVars, ready, otp, release, aged, trolley, emitted,
                 hook, recon>>

AdminStep(a) == AdminReadsRelease(a) \/ AdminCommits(a) \/ AdminGivesUp(a)

-----------------------------------------------------------------------------
(***************************************************************************)
(* The payout set-up and reconcileUserPayments.                            *)
(***************************************************************************)

\* A webhook about the tax form, the payout account or the identity check has written
\* its row; the set-up is complete or not as a result.  Its handler reconciles next.
SetupChanges(x) ==
  /\ recon[x] = "idle"
  /\ ready' \in BOOLEAN
  /\ recon' = [recon EXCEPT ![x] = "due"]
  /\ UNCHANGED <<paymentVars, requestVars, otp, release, aged, trolley, emitted, hook,
                 admin>>

\* getUsersPayoutStatus.
ReconcileReads(x) ==
  /\ recon[x] = "due"
  /\ recon' = [recon EXCEPT ![x] = IF ready THEN "owe" ELSE "hold"]
  /\ UNCHANGED <<paymentVars, requestVars, ready, otp, release, aged, trolley, emitted,
                 hook, admin>>

\* toggleUserPaymentsStatus: one UPDATE, which leaves the version alone.
Toggle(from, to) ==
  status' = [w \in Winnings |-> IF status[w] = from THEN to ELSE status[w]]

ReconcileToggles(x) ==
  /\ \/ recon[x] = "owe" /\ Toggle("ON_HOLD", "OWED")
     \/ recon[x] = "hold" /\ Toggle("OWED", "ON_HOLD")
  /\ recon' = [recon EXCEPT ![x] = "idle"]
  /\ UNCHANGED <<version, datePaid, requestVars, ready, otp, release, aged, trolley,
                 emitted, hook, admin>>

ReconcileFails(x) ==
  /\ recon[x] # "idle"
  /\ recon' = [recon EXCEPT ![x] = "idle"]
  /\ UNCHANGED <<paymentVars, requestVars, ready, otp, release, aged, trolley, emitted,
                 hook, admin>>

ReconcileStep(x) == ReconcileReads(x) \/ ReconcileToggles(x)

-----------------------------------------------------------------------------
Next ==
  \/ \E r \in Withdrawals :
       \/ \E W \in SUBSET Winnings \ {{}}, c \in Codes : Withdraw(r, W, c)
       \/ WithdrawStep(r) \/ Refuse(r) \/ Abort(r)
       \/ TrolleySettles(r) \/ TrolleyReturns(r) \/ ReleaseAges(r)
  \/ \E c \in Codes : IssueCode(c) \/ ExpireCode(c)
  \/ \E h \in Hooks : HookStep(h) \/ HookFails(h)
  \/ \E a \in Admins :
       \/ \E w \in Winnings, to \in AdminTargets : AdminReadsPayment(a, w, to)
       \/ AdminStep(a)
  \/ \E x \in Handlers : SetupChanges(x)
  \/ \E x \in Reconcilers : ReconcileStep(x) \/ ReconcileFails(x)

Spec == Init /\ [][Next]_vars

-----------------------------------------------------------------------------
(***************************************************************************)
(* Properties.                                                             *)
(***************************************************************************)

\* A one-time code carries at most one payout: two releases never rest on the same
\* code, and the code of a release is spent (verifyOtpCode before any payout step).
OneReleasePerCode ==
  \A r \in Withdrawals : release[r] # "none" =>
    /\ given[r] \in Codes /\ otp[given[r]] = "used"
    /\ \A q \in Withdrawals : release[q] # "none" /\ q # r => given[q] # given[r]

\* Trolley paid out r at some time.
PaidOut(r) == trolley[r] \in {"processed", "returned"}

\* A payment is PAID, or carries a date_paid, only if Trolley paid out a release it is
\* part of; PAID payments carry the date.  No admin edit, crash, late or reordered
\* webhook may make up a payout.
PaidMeansPaidOut ==
  \A w \in Winnings :
    /\ status[w] = "PAID" => datePaid[w]
    /\ datePaid[w] => \E r \in ReleasesOf(w) : PaidOut(r)

\* A payment is PROCESSING only if a release of it has a payment at Trolley that was
\* not taken back: whoever finds a stuck payment can find what it is waiting for.
ProcessingHasPayment ==
  \A w \in Winnings : status[w] = "PROCESSING" =>
    \E r \in ReleasesOf(w) : trolley[r] \notin {"none", "removed"}

\* The version an admin call has read stands for the status it has read: while the
\* version is unchanged, so is the status, up to the OWED/ON_HOLD toggle of the
\* reconciliation, which leaves the version alone.
AdminVersionGuard ==
  \A a \in Admins : admin[a] # NoEdit =>
    /\ admin[a].ver <= version[admin[a].w]
    /\ VersionMatches(a) =>
         \/ status[admin[a].w] = admin[a].st
         \/ {status[admin[a].w], admin[a].st} \subseteq {"OWED", "ON_HOLD"}

\* A cancelled payment comes back to life only through a payout it is part of (the
\* writes of the withdraw call and of the webhooks do not look at the status): never
\* through an admin, the reconciliation or a release of other winnings.
CancelledRevivedOnlyByPayout ==
  [][\A w \in Winnings :
       status[w] = "CANCELLED" /\ status'[w] # "CANCELLED" => ReleasesOf(w) # {}]_vars

\* A payment that is OWED and has a date_paid shows in the wallet and is refused by every
\* withdrawal.  That a payment comes to be OWED and keeps its date takes a detour by a
\* hold, or a withdraw call that takes back its own mark: never is an admin's edit of a
\* payment in any other status enough, whatever has happened since the edit was read.
DateKeptOnlyAfterHold ==
  [][\A w \in Winnings :
       status[w] # "OWED" /\ status'[w] = "OWED" /\ datePaid'[w] =>
         \/ status[w] \in {"ON_HOLD", "ON_HOLD_ADMIN"}
         \/ \E r \in Withdrawals :
              w \in chosen[r] /\ pc[r] = "revert" /\ pc'[r] # "revert"]_vars

\* Trolley has paid, or is paying, r.
Committed(r) == trolley[r] \in {"processing", "processed"}

\* No winning is in two payouts that Trolley has made or is making.
NoDoublePayout ==
  \A w \in Winnings : \A r, q \in ReleasesOf(w) :
    Committed(r) /\ Committed(q) => r = q

\* No money moves, or has moved, for a release that is marked FAILED.
FailedReleaseMovesNoMoney ==
  \A r \in Withdrawals : release[r] = "FAILED" => ~Committed(r)

\* An error from Trolley means that it did not start, and no admin puts payments back to
\* OWED.
Definite == ~LateStart /\ "OWED" \notin AdminTargets

\* Besides, the member's calls do not overlap.
Orderly == Serial /\ Definite

\* The payout path as PayoutLedger sees it.
Money(r) == IF trolley[r] \in {"none", "open", "removed"} THEN "none"
            ELSE IF trolley[r] = "processing" THEN "moving"
            ELSE IF trolley[r] = "processed" THEN "paid" ELSE trolley[r]

Outcome(r) == IF release[r] \in {"none", "PROCESSING"} THEN "unknown"
              ELSE IF release[r] = "PROCESSED" THEN "paid"
              ELSE IF release[r] = "FAILED" THEN "failed" ELSE "returned"

Ledger == INSTANCE PayoutLedger WITH
  Payouts <- Withdrawals, Exclusive <- Orderly, Definite <- Definite,
  money <- [r \in Withdrawals |-> Money(r)],
  batch <- [r \in Withdrawals |-> IF Money(r) = "none" THEN {} ELSE chosen[r]],
  outcome <- [r \in Withdrawals |-> Outcome(r)],
  dated <- {w \in Winnings : datePaid[w]}

\* Withdrawals, webhooks and edits keep the ledger: money starts to move once for a
\* payout and, when calls are orderly, for winnings that no other payout pays; the dates
\* of payments and the statuses of releases, written one without the other, late, twice
\* and out of order, claim no money that did not move, and each for itself.
LedgerKept == Ledger!Spec

\* An admin puts a PROCESSING payment back to OWED only when the payout it is in has
\* been under way for twelve hours (the message of admin.service.ts line 923).
TwelveHourRule ==
  \A a \in Admins :
    admin[a] # NoEdit /\ admin[a].pc = "commit" /\ VersionMatches(a)
      /\ admin[a].to = "OWED" /\ admin[a].st = "PROCESSING" =>
    \A r \in ReleasesOf(admin[a].w) : release[r] = "PROCESSING" => aged[r]

-----------------------------------------------------------------------------
(***************************************************************************)
(* Strengthenings that are inductive (see PayoutsProofs; SerialInv is one  *)
(* only with Serial, and without LateStart and admin edits to OWED).       *)
(***************************************************************************)

Early == {"idle", "select", "otp", "create"}

\* How far a withdraw call has come, its release, its Trolley payment and the events
\* about it agree.
Flow ==
  /\ \A r \in Withdrawals :
       /\ release[r] = "none" <=> pc[r] \in Early
       /\ pc[r] \in Early \cup {"pay"} => trolley[r] = "none"
       /\ pc[r] \in {"mark", "unrelease", "remove", "start"} => trolley[r] = "open"
  /\ \A e \in emitted :
       /\ e[2] = "processed" => PaidOut(e[1])
       /\ e[2] = "failed" => trolley[e[1]] = "failed"
       /\ e[2] = "returned" => trolley[e[1]] = "returned"
  /\ \A h \in Hooks : hook[h] # "idle" => <<h[1], h[2]>> \in emitted

\* Codes are spent, one call each, from the moment verifyOtpCode accepts them.
Holds(r) == pc[r] = "create" \/ release[r] # "none"
CodeInv ==
  \A r \in Withdrawals : Holds(r) =>
    /\ given[r] \in Codes /\ otp[given[r]] = "used"
    /\ \A q \in Withdrawals : Holds(q) /\ q # r => given[q] # given[r]

\* The release that justifies PROCESSING is one whose payment will not be removed.
ProcessingInv ==
  \A w \in Winnings : status[w] = "PROCESSING" =>
    \E r \in ReleasesOf(w) :
      /\ trolley[r] \notin {"none", "removed"}
      /\ pc[r] \in {"start", "revert", "failrelease", "done"}

\* What an admin call has checked by the time it writes.
AdminInv ==
  \A a \in Admins : admin[a] # NoEdit =>
    /\ admin[a].pc = "commit" => admin[a].st # "CANCELLED"
    /\ admin[a].fail => admin[a].to = "OWED"

\* One call at a time (Serial), definite answers from Trolley (~LateStart) and no admin
\* who puts payments back to OWED: then the status of a payment tells whether money
\* moves for it, and the row check of a withdrawal is worth what it looks like.
OneCallAtATime ==
  \A r, q \in Withdrawals : Running(r) /\ Running(q) => r = q

\* What Trolley pays, or is about to be told to pay, can be neither withdrawn nor
\* toggled to OWED.
MoneyShowsInStatus ==
  \A r \in Withdrawals : Committed(r) \/ pc[r] = "start" =>
    \A w \in chosen[r] : status[w] \notin {"OWED", "ON_HOLD"}

\* From the row check on, a call shares no winning with a payout Trolley makes or made.
PastRowCheck == {"otp", "create", "pay", "mark", "start", "revert"}
PayoutsDisjoint ==
  \A r, q \in Withdrawals :
    (Committed(r) \/ pc[r] \in PastRowCheck) /\ Committed(q) /\ q # r =>
      chosen[q] \cap chosen[r] = {}

\* The error paths are walked, and releases marked FAILED, without money moving.
ErrorPathsKeepMoney ==
  \A r \in Withdrawals :
    /\ pc[r] \in {"unrelease", "remove", "revert", "failrelease"} => trolley[r] = "open"
    /\ release[r] = "FAILED" => /\ trolley[r] \in {"open", "removed", "failed"}
                               /\ pc[r] \notin {"pay", "mark", "start"}

SerialInv == /\ OneCallAtATime
             /\ MoneyShowsInStatus
             /\ PayoutsDisjoint
             /\ ErrorPathsKeepMoney
=============================================================================
