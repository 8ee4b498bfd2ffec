------------------------------- MODULE Budget -------------------------------
(***************************************************************************)
(* The budget of one challenge or one engagement assignment on its billing *)
(* account, and the payments that draw on it.                              *)
(*                                                                         *)
(* createWinningWithPayments writes the budget inside its database         *)
(* transaction, before the commit; updateWinnings writes it after its      *)
(* commit.  Neither keeps the other out.  The budget of a challenge is one *)
(* amount, written as the sum of the payments that the writer sees.  The   *)
(* budget of an assignment is a sequence of consumed rows: a creation adds *)
(* a row, an edit rewrites the rows by position and deletes those left     *)
(* over.                                                                   *)
(*                                                                         *)
(* A winning has one payment, as splits are no longer used.  Amounts of    *)
(* payments arrive in whole cents and are counted in cents, those of       *)
(* consumed rows in hundredths of a cent.  A consume of nothing adds a row *)
(* of nothing.  One request edits the status or the amount, not both.      *)
(* The markup multiplies every challenge budget alike and is left out of   *)
(* it.  Exempt (TopGear) accounts and the old ledger without typed         *)
(* references are not modelled.                                            *)
(***************************************************************************)
EXTENDS Integers, FiniteSets, Functions, SequencesExt

CONSTANTS
  Kinds,        \* what has a budget: challenges, engagement assignments or both
  Payments,     \* payments; each stands also for the call that creates it
  Admins,       \* updateWinnings calls
  Amounts,      \* amounts in cents
  Markup,       \* markup of the billing account, in units of 0.0001
  MaxVersion    \* bound on payment.version

ASSUME BudgetAssumption ==
  /\ Kinds \subseteq {"CHALLENGE", "ENGAGEMENT"}
  /\ IsFiniteSet(Payments)
  /\ Payments \cap Admins = {}
  /\ Amounts \subseteq Nat
  /\ Markup \in Nat
  /\ MaxVersion \in Nat \ {0}

VARIABLES
  kind,         \* whose budget it is; never changes
  status,       \* status of the challenge at challenge-api
  pay,          \* the payment rows
  order,        \* the payments in the database, oldest first
  budget,       \* amount locked or consumed for the challenge
  rows,         \* consumed rows of the assignment
  payout,       \* how far the withdrawals of a payment have got
  pc,           \* the next step of each call
  req,          \* what it has read
  alone,        \* the call that has had no other beside it (history)
  clean,        \* edits that no creation has overlapped since they read (history)
  missing,      \* an edit that was not clean has written the rows (history)
  unbacked      \* payments billed again, or only now, without a consume: raised from zero
                \* by an edit, or written over by a payout after they were cancelled (history)

ledger == <<budget, rows>>
history == <<alone, clean, missing, unbacked>>
calls == <<pc, req>>
vars == <<kind, status, payout, pay, order, ledger, calls, history>>

Calls == Payments \cup Admins

\* ACTIVE stands for DRAFT, ACTIVE and APPROVED, CANCELLED for DELETED and every CANCELLED_*.
ChallengeStatuses == {"NEW", "ACTIVE", "COMPLETED", "CANCELLED"}

\* OPEN: inserted by a transaction that has not committed.
\* OWED stands for ON_HOLD, ON_HOLD_ADMIN and CREDITED as well, PAID for FAILED and RETURNED:
\* they are billed, can be cancelled and keep their amount.
PaymentStatus == {"none", "OPEN", "OWED", "PROCESSING", "PAID", "CANCELLED"}

\* What an edit asks for: an amount, the status CANCELLED, or what changes no row.
Cancel == -1
Nothing == -2

NoPayment == [status |-> "none", amount |-> 0, fee |-> 0, version |-> 0]

\* taken: a withdrawal has found the payment owed; sent: one has marked it PROCESSING.
PayoutSteps == {"none", "taken", "sent"}

Steps == {"idle", "planned", "inserted", "read", "committed", "summed", "synced", "done",
          "failed"}

Request(s, p, edit, v) ==
  [status |-> s, sum |-> 0, rows |-> << >>, pay |-> p, edit |-> edit, version |-> v]

NoRequest == Request("none", "none", Nothing, 0)

TypeOK ==
  /\ kind \in {"CHALLENGE", "ENGAGEMENT"}
  /\ status \in ChallengeStatuses
  /\ pay \in [Payments -> [status : PaymentStatus, amount : Amounts \cup {0}, fee : Nat,
                           version : 0..MaxVersion]]
  /\ ToSet(order) = {p \in Payments : pay[p].status # "none"}
  /\ IsInjective(order)
  /\ payout \in [Payments -> PayoutSteps]
  /\ budget \in Nat
  /\ rows \in Seq(Nat)
  /\ pc \in [Calls -> Steps]
  /\ \A c \in Calls :
       /\ req[c].status \in ChallengeStatuses \cup {"none", "unknown"}
       /\ req[c].sum \in Nat
       /\ req[c].rows \in Seq(Nat)
       /\ req[c].pay \in Payments \cup {"none"}
       /\ req[c].edit \in Amounts \cup {Cancel, Nothing}
       /\ req[c].version \in 0..MaxVersion
  /\ alone \subseteq Calls
  /\ clean \subseteq Admins
  /\ missing \in BOOLEAN
  /\ unbacked \subseteq Payments

Init ==
  /\ kind \in Kinds
  /\ status \in ChallengeStatuses
  /\ kind = "ENGAGEMENT" => status = "NEW"
  /\ pay = [p \in Payments |-> NoPayment]
  /\ payout = [p \in Payments |-> "none"]
  /\ order = << >>
  /\ budget = 0
  /\ rows = << >>
  /\ pc = [c \in Calls |-> "idle"]
  /\ req = [c \in Calls |-> NoRequest]
  /\ alone = {}
  /\ clean = {}
  /\ missing = FALSE
  /\ unbacked = {}

-----------------------------------------------------------------------------
\* Decimals, rounded half up.
RoundHalfUp(n, unit) == (2 * n + unit) \div (2 * unit)

\* The fee stored with an engagement payment, to the cent.
ChallengeFee(amount) == RoundHalfUp(amount * Markup, 10000)

\* What a creation consumes, to a hundredth of a cent.
ConsumeAmount(amount) == 100 * amount + RoundHalfUp(amount * Markup, 100)

\* What an edit writes in its place.
LedgerAmount(p) == 100 * (pay[p].amount + pay[p].fee)

Active == {p \in Payments : pay[p].status \in {"OWED", "PROCESSING", "PAID"}}

\* Wrong form: the sum is read outside the transaction.
CommittedRows(p) == Active

\* The rows that the transaction creating p sees: its own and the committed ones.
VisibleTo(p) == Active \cup {p}

\* Payments with something to bill: a consumed row of nothing is not kept.
Billed == {p \in Active : LedgerAmount(p) > 0}

Amount == [p \in Payments |-> pay[p].amount]

Total(S) == SumFunctionOnSet(Amount, S)

\* The n-th oldest of some payments in the database.
Position(p) == CHOOSE i \in DOMAIN order : order[i] = p
Oldest(S, n) == CHOOSE p \in S : Cardinality({q \in S : Position(q) <= Position(p)}) = n

\* The rows of an edit: the billed payments, oldest first.
ActiveRows == [n \in 1..Cardinality(Billed) |-> LedgerAmount(Oldest(Billed, n))]

\* lockConsumeAmount: a new challenge is ignored, and so is a completed one without prizes.
LockConsume(s, n) ==
  budget' = IF s \in {"NEW", "unknown"} \/ (s = "COMPLETED" /\ n = 0) THEN budget ELSE n

\* Wrong form: stale rows are not deleted.
SyncedRowsKept(amounts) ==
  [i \in 1..Len(rows) |-> IF i <= Len(amounts) THEN amounts[i] ELSE rows[i]]

\* syncEngagementConsumeAmounts: row i gets amount i, rows beyond the amounts are
\* deleted, and an amount without a row is only logged.
SyncedRows(amounts) == SubSeq(amounts, 1, IF Len(amounts) < Len(rows) THEN Len(amounts)
                                                                      ELSE Len(rows))

Busy == {c \in Calls : pc[c] \notin {"idle", "done", "failed"}}

Starts(c, step, r) ==
  /\ pc[c] = "idle"
  /\ pc' = [pc EXCEPT ![c] = step]
  /\ req' = [req EXCEPT ![c] = r]
  /\ alone' = IF Busy = {} THEN {c} ELSE {}

Goes(c, step) == pc' = [pc EXCEPT ![c] = step]

Ends(c, step) == Goes(c, step) /\ req' = [req EXCEPT ![c] = NoRequest]

-----------------------------------------------------------------------------
(* createWinningWithPayments                                               *)

\* A challenge that cannot be fetched reads as one that needs no budget.
Plan(p) ==
  /\ \E s \in {status, "unknown"} :
       Starts(p, "planned",
              Request(IF kind = "CHALLENGE" THEN s ELSE "none", "none", Nothing, 0))
  /\ UNCHANGED <<kind, status, payout, pay, order, ledger, clean, missing, unbacked>>

Insert(p, amount) ==
  /\ pc[p] = "planned"
  /\ pay' = [pay EXCEPT ![p] =
       [status |-> "OPEN", amount |-> amount, version |-> 1,
        fee |-> IF kind = "ENGAGEMENT" THEN ChallengeFee(amount) ELSE 0]]
  /\ order' = Append(order, p)
  /\ Goes(p, IF req[p].status = "unknown" THEN "synced" ELSE "inserted")
  /\ UNCHANGED <<kind, status, payout, ledger, history, req>>

ConsumeEngagement(p) ==
  /\ kind = "ENGAGEMENT"
  /\ pc[p] = "inserted"
  /\ rows' = Append(rows, ConsumeAmount(pay[p].amount))
  /\ Goes(p, "synced")
  /\ clean' = {}
  /\ UNCHANGED <<kind, status, payout, pay, order, budget, alone, missing, unbacked, req>>

SumPersisted(p) ==
  /\ kind = "CHALLENGE"
  /\ pc[p] = "inserted"
  /\ Goes(p, "summed")
  /\ req' = [req EXCEPT ![p].sum = Total(VisibleTo(p))]
  /\ UNCHANGED <<kind, status, payout, pay, order, ledger, history>>

WriteBudget(p) ==
  /\ pc[p] = "summed"
  /\ LockConsume(req[p].status, req[p].sum)
  /\ Goes(p, "synced")
  /\ UNCHANGED <<kind, status, payout, pay, order, rows, history, req>>

\* Wrong form: the commit does not wait for the consume.
CommitEarly(p) ==
  /\ pc[p] \in {"inserted", "synced"}
  /\ pay' = [pay EXCEPT ![p].status = "OWED"]
  /\ Ends(p, "done")
  /\ UNCHANGED <<kind, status, payout, order, ledger, history>>

Commit(p) ==
  /\ pc[p] = "synced"
  /\ pay' = [pay EXCEPT ![p].status = "OWED"]
  /\ Ends(p, "done")
  /\ UNCHANGED <<kind, status, payout, order, ledger, history>>

\* Wrong form: the payment that was rolled back is still listed.
RollBackListed(p) ==
  /\ p \in Busy
  /\ pay' = [pay EXCEPT ![p] = NoPayment]
  /\ Ends(p, "failed")
  /\ UNCHANGED <<kind, status, payout, order, ledger, history>>

\* An await of the transaction throws, its time runs out, or the instance crashes.
\* What was written at the billing account stays.
RollBack(p) ==
  /\ p \in Busy
  /\ pay' = [pay EXCEPT ![p] = NoPayment]
  /\ order' = IF pc[p] = "planned" THEN order ELSE RemoveAt(order, Position(p))
  /\ Ends(p, "failed")
  /\ UNCHANGED <<kind, status, payout, ledger, history>>

-----------------------------------------------------------------------------
(* updateWinnings                                                          *)

\* A cancelled payment is refused, and so is the cancellation of a processing one.
Editable(p, edit) == p \in Active /\ ~(edit = Cancel /\ pay[p].status = "PROCESSING")

\* The amount of a payment on its way out, or paid, is left alone without an error.
Applied(p, edit) == IF edit = Cancel \/ pay[p].status = "OWED" THEN edit ELSE Nothing

ReadPayment(a, p, edit) ==
  /\ Editable(p, edit)
  /\ Starts(a, "read", Request("none", p, Applied(p, edit), pay[p].version))
  /\ UNCHANGED <<kind, status, payout, pay, order, ledger, clean, missing, unbacked>>

\* Both writes of a payment row count its version up.
Moved(row, s) ==
  [status |-> s, amount |-> row.amount, fee |-> row.fee, version |-> row.version + 1]

Priced(row, amount, fee) ==
  [status |-> row.status, amount |-> amount, fee |-> fee, version |-> row.version + 1]

EditedFee(row, amount) == IF kind = "ENGAGEMENT" THEN ChallengeFee(amount) ELSE row.fee

\* Wrong form: the fee of the old amount stays.
EditedKeepsFee(row, edit) ==
  IF edit = Cancel
  THEN Moved(row, "CANCELLED")
  ELSE Priced(row, edit, row.fee)

Edited(row, edit) ==
  IF edit = Cancel
  THEN Moved(row, "CANCELLED")
  ELSE Priced(row, edit, EditedFee(row, edit))

Raises(p, edit) == pay[p].amount = 0 /\ edit > 0

CommitEdit(a) ==
  LET p == req[a].pay IN
  /\ pc[a] = "read"
  /\ IF req[a].edit = Nothing
     THEN UNCHANGED <<pay, unbacked>>
     ELSE /\ pay[p].version = req[a].version
          /\ req[a].version < MaxVersion
          /\ pay' = [pay EXCEPT ![p] = Edited(pay[p], req[a].edit)]
          /\ unbacked' = IF Raises(p, req[a].edit) THEN unbacked \cup {p} ELSE unbacked
  /\ Goes(a, "committed")
  /\ UNCHANGED <<kind, status, payout, order, ledger, alone, clean, missing, req>>

ReadChallenge(a) ==
  /\ kind = "CHALLENGE"
  /\ pc[a] = "committed"
  /\ \/ Goes(a, "planned") /\ req' = [req EXCEPT ![a].status = status]
     \/ Ends(a, "done")
  /\ UNCHANGED <<kind, status, payout, pay, order, ledger, history>>

SumActive(a) ==
  /\ pc[a] = "planned"
  /\ Goes(a, "summed")
  /\ req' = [req EXCEPT ![a].sum = Total(Active)]
  /\ UNCHANGED <<kind, status, payout, pay, order, ledger, history>>

RewriteBudget(a) ==
  /\ kind = "CHALLENGE"
  /\ pc[a] = "summed"
  /\ LockConsume(req[a].status, req[a].sum)
  /\ Ends(a, "done")
  /\ UNCHANGED <<kind, status, payout, pay, order, rows, history>>

ReadActiveRows(a) ==
  /\ kind = "ENGAGEMENT"
  /\ pc[a] = "committed"
  /\ Goes(a, "summed")
  /\ req' = [req EXCEPT ![a].rows = ActiveRows]
  /\ clean' = IF \E p \in Payments : pc[p] = "synced" THEN clean ELSE clean \cup {a}
  /\ UNCHANGED <<kind, status, payout, pay, order, ledger, alone, missing, unbacked>>

RewriteRows(a) ==
  /\ kind = "ENGAGEMENT"
  /\ pc[a] = "summed"
  /\ rows' = SyncedRows(req[a].rows)
  /\ missing' = (missing \/ a \notin clean)
  /\ Ends(a, "done")
  /\ UNCHANGED <<kind, status, payout, pay, order, budget, alone, clean, unbacked>>

\* A version conflict, an error of any await, or a crash: the edit stays if it was
\* committed, and the caller is told that it failed.
GiveUp(a) ==
  /\ a \in Busy
  /\ Ends(a, "failed")
  /\ UNCHANGED <<kind, status, payout, pay, order, ledger, history>>

-----------------------------------------------------------------------------
(* Outside                                                                 *)

ChallengeMoves ==
  /\ kind = "CHALLENGE"
  /\ status' \in CASE status = "NEW" -> {"ACTIVE", "CANCELLED"}
                    [] status = "ACTIVE" -> {"COMPLETED", "CANCELLED"}
                    [] OTHER -> {}
  /\ alone' = {}
  /\ UNCHANGED <<kind, payout, pay, order, ledger, calls, clean, missing, unbacked>>

\* The check of a withdrawal.  The row lock ends with the query, so the payment may be
\* edited, and cancelled, before the withdrawal goes on.
SelectReleasable(p) ==
  /\ pay[p].status = "OWED"
  /\ payout[p] = "none"
  /\ payout' = [payout EXCEPT ![p] = "taken"]
  /\ UNCHANGED <<kind, status, pay, order, ledger, calls, history>>

\* A withdrawal marks its payments first, and then takes it back or has them paid.
PayoutWrites(p) ==
  CASE payout[p] = "none" -> {}
    [] payout[p] = "taken" -> {"PROCESSING"}
    [] payout[p] = "sent" -> {"PROCESSING", "OWED", "PAID"}

\* Payments that other transactions see.
Committed == {p \in Payments : pay[p].status \notin {"none", "OPEN"}}

\* A cancelled payment is billed again, and what a call beside it has read is stale.
Revives(p) ==
  /\ unbacked' = unbacked \cup {p}
  /\ alone' = {c \in alone : pc[c] \notin {"summed", "synced"}}
  /\ UNCHANGED <<clean, missing>>

\* updatePaymentProcessingState: whatever the status and version are by now.
UpdateProcessingState(p) ==
  /\ p \in Committed
  /\ pay[p].version < MaxVersion
  /\ \E s \in PayoutWrites(p) : pay' = [pay EXCEPT ![p] = Moved(pay[p], s)]
  /\ payout' = [payout EXCEPT ![p] = "sent"]
  /\ IF pay[p].status = "CANCELLED" THEN Revives(p) ELSE UNCHANGED history
  /\ UNCHANGED <<kind, status, order, ledger, calls>>

-----------------------------------------------------------------------------
(* The script that was run once over the engagement payments and their consumed rows,    *)
(* read as what it would do now.                                                         *)

\* Its first statement: the fee of every payment, from the markup.
BackfilledFee(p) == ChallengeFee(pay[p].amount)

\* Wrong form: the fee is not rounded to the cent.
ExpectedUnrounded(p) == ConsumeAmount(pay[p].amount)

\* expectedConsumedAmount, to a hundredth of a cent.
ExpectedConsumed(p) == 100 * (pay[p].amount + ChallengeFee(pay[p].amount))

\* finance_payment_rows: whatever the status and the amount, oldest first.
FinanceRows == [n \in 1..Cardinality(Committed) |-> Oldest(Committed, n)]

\* Its second statement: the consumed row at a position gets the amount of the payment at
\* that position; the rows and the payments left over are only counted.
BackfilledRows ==
  [i \in DOMAIN rows |->
     IF i <= Len(FinanceRows) THEN ExpectedConsumed(FinanceRows[i]) ELSE rows[i]]

Next ==
  \/ \E p \in Payments :
       \/ Plan(p)
       \/ \E n \in Amounts : Insert(p, n)
       \/ ConsumeEngagement(p)
       \/ SumPersisted(p)
       \/ WriteBudget(p)
       \/ Commit(p)
       \/ RollBack(p)
       \/ SelectReleasable(p)
       \/ UpdateProcessingState(p)
  \/ \E a \in Admins :
       \/ \E p \in Payments, edit \in Amounts \cup {Cancel} : ReadPayment(a, p, edit)
       \/ CommitEdit(a)
       \/ ReadChallenge(a)
       \/ SumActive(a)
       \/ RewriteBudget(a)
       \/ ReadActiveRows(a)
       \/ RewriteRows(a)
       \/ GiveUp(a)
  \/ ChallengeMoves

Spec == Init /\ [][Next]_vars

-----------------------------------------------------------------------------
(* Properties                                                              *)

Finishes(c) == pc[c] # "done" /\ pc'[c] = "done"

\* Whatever overlapping creations and edits, failed calls and rolled back transactions
\* have left in the budget of a challenge, the next call that runs alone and reaches the
\* billing account sets it to the sum of the payments that are not cancelled: payments that
\* payouts have brought back before it reads them included, unless a payout brings one back
\* between its read and its end.  Nothing is sent for a completed challenge without
\* payments: see CompletedBudgetReleased.
LoneSyncRepairs ==
  [][\A c \in alone :
       /\ kind = "CHALLENGE"
       /\ Finishes(c)
       /\ req[c].status \in {"ACTIVE", "COMPLETED", "CANCELLED"}
       /\ ~(req[c].status = "COMPLETED" /\ Total(Active)' = 0)
       => budget' = Total(Active)']_vars

\* An edit that runs alone leaves the consumed rows of an assignment equal to the
\* payments that are not cancelled, except that it does not bring back a missing row, and
\* unless a payout brings a cancelled payment back between its read and its write.
LoneEditRepairsRows ==
  [][\A a \in alone \cap Admins :
       kind = "ENGAGEMENT" /\ Finishes(a)
       => rows' = SubSeq(ActiveRows', 1, IF Len(rows) < Cardinality(Billed)
                                         THEN Len(rows) ELSE Cardinality(Billed))]_vars

\* There is a consumed row for every committed engagement payment with an amount, however
\* creations fail, are rolled back or overlap, unless an edit has rewritten the rows while
\* a creation was between its consume and its commit.  Two kinds of payments are billed
\* without one: those that an edit has raised from zero, and those that were cancelled,
\* which drops the row, before a withdrawal that had found them owed marked them PROCESSING.
EngagementFunded ==
  kind = "ENGAGEMENT" /\ ~missing => Len(rows) >= Cardinality(Billed \ unbacked)

\* The row an edit writes for a payment differs from what its creation consumed, or would
\* have consumed for the amount it has now, by at most half a cent: the stored fee always
\* belongs to the stored amount.
RoundingBounded ==
  kind = "ENGAGEMENT" =>
    \A p \in Payments : LedgerAmount(p) - ConsumeAmount(pay[p].amount) \in -50..50

\* The edits skip the payments that have nothing to bill, the backfill script counts them:
\* it leaves the right rows and fees alone unless such a payment is older than one that is
\* billed.
BackfillKeepsRightRows ==
  kind = "ENGAGEMENT" =>
    /\ \A p \in Payments : pay[p].fee = BackfilledFee(p)
    /\ rows = ActiveRows
         /\ (\A i, j \in DOMAIN FinanceRows :
               i < j /\ FinanceRows[j] \in Billed => FinanceRows[i] \in Billed)
       => BackfilledRows = rows

\* The comment on syncChallengeBudgetTargets: it "rewrites challenge billing-account budget
\* rows after a wallet-admin update changes the active payment total".  Not so when the
\* last payment of a completed challenge is cancelled: the budget stays consumed.
CompletedBudgetReleased ==
  [][\A a \in alone \cap Admins :
       kind = "CHALLENGE" /\ Finishes(a) /\ req[a].status = "COMPLETED"
       => budget' = Total(Active)']_vars
=============================================================================
