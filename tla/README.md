# tc-finance-api in TLA+

The finance API keeps what Topcoder members have won and pays it out through Trolley. It runs
as several stateless instances behind one PostgreSQL database; what keeps two requests apart is
a row lock, a unique key, a version number, or nothing. These modules model the parts where
that matters, step by step at the granularity of the code's awaits: every action is one
statement, one transaction or one remote call, so that whatever another instance may do between
two awaits happens between two actions.

Everything is run inside this directory: `tlc -config <run>.cfg <module>` and
`tlapm <module>.tla`. `PROJECT.json` holds the runs, the source lines of every definition, the
hazards with the properties that watch them, and the listed theorems.

## 1. The system

| component | source (under `src/src/`) | state it keeps | operations | what makes it correct |
|---|---|---|---|---|
| Withdrawals | `api/withdrawal`, `shared/global/trolley.service.ts` | `payment_releases`, its associations, a payment and a batch at Trolley | `withdraw` | one payout per winning, one payout per code, a failed release moves no money, nothing is PROCESSING without a payment to wait for |
| One-time passwords | `shared/global/otp.service.ts` | `otp` | `generateOtpCode`, `verifyOtpCode` | a code is used once, by its owner, before it expires |
| Payment state | `shared/payments/payments.service.ts` | `payment.payment_status`, `version`, `date_paid` | `updatePaymentProcessingState`, `updatePaymentReleaseState`, `reconcileUserPayments` | PAID means paid; OWED against ON_HOLD follows the set-up |
| Webhook endpoint and log | `api/webhooks`, `api/webhooks/trolley/trolley.service.ts` | `trolley_webhook_log` | `validateUnique`, `setEventState`, `handleEvent` | an event is handled once, and what is answered is on record |
| Payment webhooks | `…/handlers/payment.handler.ts` | payment and release status | processed, failed, returned | both writes or neither; late, repeated and reordered events do no harm |
| Set-up webhooks | `…/handlers/{tax-form,recipient-account,recipient-verification}.handler.ts` | tax form, payment method, recipient account and identity rows | created, updated, deleted | races are repaired by the next event |
| Admin edit | `api/admin/admin.service.ts` | payment status, amount, version | `updateWinnings` | optimistic lock, legal transitions, the billing account follows the edit |
| Creation of winnings | `api/winnings/winnings.service.ts` | winnings and payment rows | `createWinningWithPayments` | OWED only when set up; the billing account follows the commit |
| Challenge payments | `api/challenges/challenges.service.ts` | `challenge_lock` | `generateChallengePayments` | everybody is paid once, the right prize, and the budget covers it |
| Billing account budget | `shared/topcoder/billing-accounts.service.ts` | the remote ledger | `lockConsumeAmount`, `consumeAmounts`, `syncEngagementConsumeAmounts` | budget equals the payments that draw on it |
| Recipient linking | `api/payment-providers` | `trolley_recipient`, `user_payment_methods`, the recipient at Trolley | portal link | one recipient per member, which a link that was answered never changes |
| Reads of winnings | `api/repository/winnings.repo.ts`, `api/admin`, `api/winnings`, `api/user`, `api/wallet`, `api/challenge-payments` | none | search, export, lists, details, audits, wallet | a list is of what matched, a total belongs to its page, the balance has what can be withdrawn |
| Access control | `core/auth`, `shared/access-control` | none | middleware, guards, `applyFilters`, `verifyAccess` | a caller sees what the roles allow, by every endpoint alike |
| Backfill scripts | `scripts/*.sql` | fees, consumed rows | one update each | run again, they leave right rows alone |
| Clients, platform | `shared/topcoder/*`, `main.ts` | none | I/O | (not modelled) |

How they interact. A call of the creation endpoint or of the challenge payments inserts a
payment OWED or ON_HOLD and draws on a billing account. The set-up webhooks toggle the payment
between the two. A member asks for a portal link, which makes them a recipient of Trolley, and
adds an account there; its webhook completes the set-up. `withdraw` spends a code, creates a release, opens a payment at Trolley, marks
the payments PROCESSING and starts the batch; payment webhooks later bring PAID, FAILED or
RETURNED. Admins edit all of it at any time. The parts call each other directly inside a
request; between requests they share nothing but rows, Trolley's state and the billing account.

What is hard: requests overlap on several instances, most reads happen outside the transaction
that later writes, remote calls fail with unknown outcome, webhooks are delivered late, twice
or never, and an instance may stop at any await.

## 2. Modules

| module | models | abstract or composed |
|---|---|---|
| `OneTimeCodes` | what a withdrawal needs of a code | abstract specification of `Otp` and of what `Payouts` does to codes (`OTC!Use`) |
| `Otp` | `otp.service.ts` with a clock and colliding digits | implements `OneTimeCodes` under the mapping `CodeState` |
| `Payouts` | `withdraw`, Trolley, payment webhooks, admin status edits, reconciliation | composes six components for one member's winnings; implements `PayoutLedger` and uses codes as `OneTimeCodes` allows |
| `PayoutLedger` | what the payout path promises about money | abstract specification of `Payouts` |
| `PayoutSetup` | the rows behind the flag `ready` of `Payouts` | set-up webhooks, reconciliation, the choice of OWED or ON_HOLD |
| `WebhookLog` | the endpoint and the event log | why `Payouts` lets an event be handled more than once (`Copies`) |
| `ChallengeAmounts` | who is paid how much for a challenge | pure operators |
| `ChallengePayments` | the lock, the search, the creations, the consumption | uses `ChallengeAmounts` |
| `Budget` | the budget of a challenge or of an assignment against creations, edits and the backfill | |
| `Recipients` | the portal link, Trolley's recipients, the account webhook | |
| `Access` | tokens, guards, routes, the providers that narrow a search and check a winning | pure operators |
| `WinningsQueries` | filters, orders and pages of the queries over winnings, the wallet's selection | pure operators |
| `WinningsViews` | every endpoint that reads winnings, with edits between its queries | uses `Access` and `WinningsQueries` |
| `MCPortal` | `WinningsViews` and `Recipients` in one run | composes two modules that share no variable |
| `MCOnce` | `Otp` and `WebhookLog` in one run | composes two modules that share no variable |
| `PayoutsProofs`, `OtpProofs`, `WebhookLogProofs`, `PayoutSetupProofs`, `ChallengePaymentsProofs`, `BudgetProofs`, `RecipientsProofs`, `WinningsViewsProofs` | theorems about the module of the name, with the inductive invariants | extend it |
| `MC…` | symmetry sets and small challenges for TLC | |

Definitions named "wrong form" in the comments are used by no specification. Each is what a
plausible slip in the code would make of a neighbouring definition; put in its place, TLC finds
the property that `PROJECT.json` pairs it with violated.

### Payouts
State: the columns `status`, `version`, `datePaid` of each payment; for each withdraw call its
program counter `pc`, the `chosen` winnings, the code it was `given`, and its `release` and
`trolley` payment (a call creates at most one of each, so the call names them); the events
Trolley has `emitted` and how far each delivery (`hook`) has come; what each `admin` call has
read; where each reconciliation stands. Actions follow the awaits: `SelectReleasable` (the
`FOR UPDATE NOWAIT` query, whose lock ends with the statement), `VerifyOtp`, `CreateRelease`,
`CreatePayment`, `MarkProcessing`, `StartProcessing`, with `FailRelease`, `RemovePayment` and
`RevertToOwed` on the error paths, `Refuse` where the code refuses, and `Abort` for an error
outside them or a crash. A statement that fails has changed no row: an answer that is lost after
the UPDATE to PROCESSING was carried out is left out, a crash at that point is not. Amounts, the
PayPal fee, the minimum and the release date are left out:
what they decide is whether the call is refused, and `Refuse` is always possible.

`PayoutLedger` forgets all of that but four things: whether the money of a payout moves, was paid,
failed or came back (`Money`, from what Trolley has), which winnings a payout that started is
for, what its release says became of it (`Outcome`), and which winnings are dated as paid. Only
its `Start` makes money move; `Report` and `Date` are the bookkeeping, which the code does in two
writes, late, twice or never, and `Reopen` is an admin's edit back to OWED. `Payouts` implements
it for all constants. What is promised depends on them: that no winning is in two payouts
(`Exclusive`) where `Orderly` holds, that what is booked as failed does not move where `Definite`
holds.

### Otp
Rows are inserted under two steps (`CheckExisting`, `CreateCode`); verification is one
transaction. Digits come from a set smaller than the number of codes. Generation compares the
expiry with `gt`, verification with `<`, and the model keeps the difference.

### WebhookLog
Each delivery walks `ValidateUnique`, `LogEvent`, `RunHandler`, `SetProcessed`, or `Throws` and
`SetError`; `BreaksOff` is a crash or a statement that fails outside the `try`.

### PayoutSetup
Rows with and without unique keys, one action per statement of each handler, then the
reconciliation the handler ends with. The creation of a winning reads the three parts of the
set-up one after the other and inserts at the end.

### ChallengeAmounts and ChallengePayments
`ChallengePaymentsOf(challenge)` is the list `getChallengePayments` returns, as a set: every
payment carries what it is for. Coefficients are percentages, prizes whole units. The category
and the requested status of a payment are left out. `created` counts the winnings of each
payment, `consumed` is the set of payments the last consumption was for (it replaces the one
before, as the remote `consumeAmount` for one challenge does).

### Budget
One challenge, or one engagement assignment (`kind`, one of `Kinds`). `Plan`, `Insert`, `ConsumeEngagement`,
`SumPersisted`, `WriteBudget`, `Commit`, `RollBack` are the steps of a creation;
`ReadPayment`, `CommitEdit`, `ReadChallenge`, `SumActive`, `RewriteBudget`, `ReadActiveRows`,
`RewriteRows` those of an edit. Of the payouts `Budget` has what concerns a budget:
`SelectReleasable`, the check that a payment is owed, and `UpdateProcessingState`, the write of
PROCESSING, OWED or PAID, which looks at neither status nor version. A payment that was cancelled
between the two is PROCESSING again and billed again, although its amount was taken out of the
budget and its consumed row was dropped. `unbacked` remembers such payments (and those that an
edit raised from zero), and `alone` forgets a call whose read such a write makes stale.
FAILED and RETURNED count as PAID: all three are billed. Abstractions: a winning has one payment; amounts arrive in whole
cents; the budget starts at nothing; the markup is left out of challenge budgets, which it
multiplies alike, and kept for assignments, where it is rounded; a remote write that the caller
gave up on does not arrive later; exempt (TopGear) accounts and the ledger without typed
references are left out; one request edits the status or the amount, not both. The backfill
script is the function `BackfilledRows` of the tables it finds (it is one transaction), and
`BackfilledFee` for the first of its two updates.

### Recipients
`recipient` is what Trolley has, `link` the rows of `trolley_recipient`, `ask` the requests. The
actions follow `getPortalUrlForUser`: `FindLink`, `SearchRecipient`, `Refer` or
`CreateRecipient`, `StoreLink`, with `LinkFails` between any two of them. A recipient may be there
from before, with an account and with the address of one of the members. Around the code:
`AddAccount` in the portal (which Trolley opens for whoever has the e-mail and the reference),
`HandleAccount` for its event, and `ChangeEmail` in the identity service. Two assumptions about
Trolley: its search finds a recipient that has the e-mail, and ids are given out in order. What
the member service adds to a new recipient is left out.

### Access, WinningsQueries and WinningsViews
`Access` and `WinningsQueries` are functions. A token is what the code tells apart: whether it is
a genuine bearer token, whether its audience is this API, its scopes, its roles in the order of
the claim (the order matters to `applyFilters`). Scopes are compared exactly, as the guards do.
A role claim is a list of bare names; `RolesGuard` also trims names and splits comma strings, which
`extractRoles` of the challenge payments does not, and the model has no such names. An optional field is the set of its value, so
that "given and empty" and "not given" differ where they do in the code. `Orders` is every
sequence the database may return for an `ORDER BY`, ties in any order and anew for each query.

`WinningsViews` runs one request at a time against a table that others edit: `Arrive` is the
middleware and both guards, `Narrow` and `Verify` the access-control service, `ReadPage` and
`ReadCount` the two queries of a search in either order (with one date window, that of `moment`,
when `searchWinnings` built the condition for both; an export builds it anew for each batch), `ReadBatch` one turn of the export's
loop, `ReconcileOwn` the writing step of the member's own list. `QueryFails` is an error that
`searchWinnings` returns instead of throwing, and the answer each caller makes of it: the admin
search then says success (`admin.controller.ts:92`, the status is set twice). `kept`,
`entered` and `left` are history: what matched throughout, began to, and ceased to match.
`call.asked` keeps the filters as they were given, before `Narrow` rewrites them. Left out: the columns of the file, the names and projects that other services add to the details,
users' time zones (a day is a day of the server), and `winnerOnly`, which has no effect.

## 3. What TLC checks

Passing runs:

| run | instance | shows |
|---|---|---|
| `overlap` | 2 winnings, 2 withdrawals at once, 2 codes, uncertain answers, crashes | `OneReleasePerCode`, `PaidMeansPaidOut`, `ProcessingHasPayment` |
| `admin` | 1 winning, 2 withdrawals one after the other, 1 edit at a time, all targets | `AdminVersionGuard`, `CancelledRevivedOnlyByPayout`, `DateKeptOnlyAfterHold` |
| `serial` | the same with a set-up handler; admins hold and cancel | `NoDoublePayout`, `FailedReleaseMovesNoMoney`, refinement `LedgerKept` |
| `once`, the codes | 2 members, 3 codes, 2 digit strings, 2 overlapping requests, clock to 3 | `DuplicatesNeedOverlap`, refinement `CodesAreOneTime` |
| `once`, the event log | 2 events (1 with a handler), 3 deliveries | `ProcessedMeansRan`, `TwiceOnlyIfOverlapped`, `AnsweredMeansLogged`, liveness `EventsSettle` |
| `setup` | 3 calls of any kind, 1 old row, 1 form, 2 accounts, 1 payment | `LoneReconcileRepairs`, `LoneAccountEventRepairs`, `DowngradeNeedsOverlap` |
| `challenge` | 3 calls, 47 challenges | `LockProtects`, `DuplicatesNeedFailedSearch`, `AllOrNothing`, `ConsumedCoversCreated`, `PrizesPaidByPlace`, liveness `LockReleased` |
| `budget` | a challenge or an assignment, 2 payments that are withdrawn, 2 edits, amounts 0 and 2 cents, markup 0.3333 | `EngagementFunded`, `RoundingBounded`, `LoneSyncRepairs`, `LoneEditRepairsRows`, `BackfillKeepsRightRows` |
| `portal`, the views | 3 winnings, 2 billing accounts, 45 requests by callers of all kinds, batches of 1, clock and versions to 2 | `ExportFaithful`, `PageAndTotalAgree`, `ScopedListing`, `ListingComplete`, `OthersWinningsNeedARole`, `WalletShowsWithdrawable` |
| `portal`, the links | 2 members, 2 requests, 3 recipients, 4 addresses (one refused) | `OneRecipientUnlessOverlap`, `GivenLinkIsFinal`, `AccountsReachTheMember` |

`overlap` and `budget` also check the type invariants of their modules; those of the other
modules are proved (section 4).

What the portal properties say is what the code leaves open. An export that runs while winnings
change may skip or repeat lines, but only behind one that began or ceased to match. Two requests
of one member may leave two recipients at Trolley, but the link that was answered stays. A list
that is narrowed by billing accounts wants one payment on one of them, the check of a single
winning all of them, so a winning billed to several may be listed and refused. In the other
direction a list misses nothing that the caller asked for and may open, but for an approver who
gives `category` and `categories` at once: the query prefers the first, the approver's filter
the second. The balance of a
wallet takes the payments at the highest version of the winning, so an edit of one of several
payments hides the others, which a withdrawal would still release.

Why the bounds are enough. A double payout, a lost update or a stale read takes two actors; a
third call matters only where a first one leaves something behind for two that overlap (`setup`,
`challenge`, the event log of `once`), and there it is. Two codes let two withdrawals both pass. `overlap`
has two winnings so that two releases can share one and not the other. `MaxVersion` bounds only
how often admins and payouts may edit (3 lets an edit meet a payout in every order; 6 in
`twelve`, where two payouts and an edit are needed; in `budget` 3 is a creation, a cancellation
and the payout that writes over it). The amounts of `budget` contain zero, whose
rows vanish, and a markup whose rounding to two and to four places differs. The 47 challenges
contain prizes out of order, in ties, in two currencies and missing; places shared, skipped and
without a prize; reviewers with two reviews and a phase without terms; copilot prizes with and
without a copilot; checkpoint winners with and without prizes; completed and cancelled. In
`portal` batches of one make an export of three winnings run four queries; a member with two
payments of one winning, a winning billed to two accounts, one with points and one of another
member make every condition of the queries tell rows apart; the requests are one per combination
of route and role that the code treats in a way of its own, with and without the filters that a
provider rewrites. A second recipient takes two overlapping requests or a changed address, and a
recipient from before is a third. The views and the links share no variable, so `MCPortal`
explores each beside the initial states of the other, and `MCOnce` does so with the codes and the
event log. The rows of the codes table are interchangeable, and `MCOnce` gives them out in turn.

Runs that find a violation, each of a statement in the repository:

| run | what happens |
|---|---|
| `double` | two overlapping withdraw calls with two codes both read the winning OWED: the row lock ends with the statement that takes it. Both start a payout |
| `twelve` | the twelve-hour rule looks at any release of the winning: after a failed payout, the next one can be reverted minutes after it started |
| `completed` | cancelling the last payment of a completed challenge computes 0, compares it with a missing previous total that reads as 0, and sends nothing: the budget stays consumed |
| `listscope` | the machine list is documented as requiring `read:payments`; its decorator admits `create:payments` as well, and a machine with that scope alone is answered |

`serial` states the condition under which no double payout happens: the member's withdraw calls
do not overlap (`Serial`), Trolley's answers are definite (`LateStart = FALSE`), and no admin
puts payments back to OWED. None of the three is idle. The first is the run `double`; the third
is `twelve`. For the second, an error of `startProcessing` (a time-out, or a failing
`generateQuote` before it) puts the payments back to OWED although the batch may be on its way,
and the member can withdraw again: with `LateStart = TRUE` both properties fail. The code states
no promise about that, so it is a condition here and not a finding.

The webhook handler's transaction does not cover the write of the payment, which stays when the
write of the release throws (`payment.handler.ts:70`): `Payouts` has the two writes as two
actions with `HookFails` in between, and its properties hold with that. What is left behind, a
date and a release that is still PROCESSING, is a state that `LedgerKept` allows: the books are
late, and claim no money that did not move.

Fairness. Safety runs assume none. `WebhookLog` and `ChallengePayments` assume weak fairness of
the next step of a delivery or a call that is under way: its awaits settle, with a result or an
error, and Node goes on with it. Nothing makes Trolley deliver, a caller call, or a crash happen
or not happen; the liveness properties name the faults that excuse them (`broken`, `crash`,
`release`). Specifications stop when their calls are used up, and the configurations where that
happens turn the deadlock check off; `serial`, where set-up handlers always go on, keeps it.

## 4. What is proved

Every safety invariant and every action property of the runs in section 3 is proved for every
value of the constants that satisfies the modules' assumptions, and so are the refinements of
`OneTimeCodes` and `PayoutLedger`; each theorem names the property that its run checks. Two
liveness properties and the violations are left to TLC, see the end of this section. The assumptions are:

- `Payouts`: admins target statuses that the endpoint accepts, and calls of admins are no
  handlers. Two theorems have hypotheses of their own, below.
- `Budget`: challenges, assignments or both, finitely many payments, natural amounts and markup,
  payments that are no admins.
- `ChallengePayments`: prizes in dollars or points of natural value, places from 1 on.
- `PayoutSetup`: each call has a row of its own to insert. `PayoutSetup`, `WebhookLog` and
  `Recipients`: the values that mean "none" are no names of anything.
- `WebhookLog`: handled events are events; `Otp`: codes are valid for some time.
- `Recipients`: refused addresses are addresses, ids and requests are numbered.
- `WinningsViews`: what the validation of a search lets through (`IsFilters`), roles in a list,
  batches of at least one, finitely many payments in a winning.

Where data is built up step by step (roles that narrow a search one after the other, a sum over a
set), the proof is an induction over the numbers 0..n for one fixed statement, in the form that
a set of numbers with 0 and with n + 1 for every n is all of them (`NatInSet`, from the
well-foundedness of <). Where things are ranked (payments by their place in the database, prizes
by value), the rank is shown to be an injection into 1..n and with it a bijection (`ByRank`,
`RanksOfPrizes`): every rank is taken by exactly one.

`PayoutsProofs`
- `TypeCorrect`.
- `OneReleasePerCodeHolds`. `OneReleasePerCode` speaks of releases; between the verification and
  the release a call holds its code without one. `CodeInv` therefore speaks of calls that hold
  a code. `Flow` says how pc, release, Trolley payment and events agree.
- `CodesUsedAsSpecified`, a second refinement: `Payouts` does to codes what `OneTimeCodes` allows,
  and `Otp` provides the same (`CodesAreOneTimeHolds`), which is what connects the two modules.
- `PaidMeansPaidOutHolds`. Inductive together with `Flow`: a handler runs only for an event that
  was emitted, and Trolley emits `processed` only after it paid.
- `ProcessingHasPaymentHolds`. The release that justifies PROCESSING must be one whose call can
  no longer remove its payment; `ProcessingInv` asks for that.
- `AdminVersionGuardHolds`. Every write of a status moves the version up, but the
  OWED/ON_HOLD toggle, which leaves it.
- `CancelledRevivedOnlyByPayoutHolds`, an action property. `AdminInv` says that an admin who has
  come to the write did not read CANCELLED; the version guard carries that to the write.
- `DateKeptOnlyAfterHoldHolds`, an action property, from the same guard: what the edit has read
  is what it changes.
- `NoDoublePayoutHolds`, for `Orderly` constants: `Serial`, and `Definite` answers, which means
  that `LateStart` is false and that no admin target is OWED. `SerialInv` says that one call
  runs at a time (`OneCallAtATime`), that payments whose money moves are neither OWED nor ON_HOLD
  (`MoneyShowsInStatus`), that a call past the row check shares no winning with a payout that
  was started (`PayoutsDisjoint`), and that no error path is walked while money moves
  (`ErrorPathsKeepMoney`). `serial` is such an instance; `double` shows what becomes of it
  without `Serial`.
- `FailedReleaseMovesNoMoneyHolds`, for `Definite` constants: withdrawals may overlap. Its
  invariant is the part `ErrorPathsKeepMoney` of `SerialInv`, with `Flow`.
- `LedgerKeptHolds`, the refinement of `PayoutLedger`, without a hypothesis: `Orderly` and
  `Definite` are parameters of the abstract specification. `LedgerInv` is what the two conditions
  give (`SerialInv` for the one, `ErrorPathsKeepMoney` for the other). The step that matters is
  `StartProcessing`: `PayoutsDisjoint` makes it a `Start` of winnings that no other payout pays.
  A handler's write is a `Date` or a `Report`, by `Flow`, which ties the event to what was paid.

`OtpProofs` (for the specification `OtpSpec`)
- `TypeCorrect`, `DuplicatesNeedOverlapHolds`.
- `CodesAreOneTimeHolds`, the refinement: initial states are mapped to initial states, and each
  action to a step of `OneTimeCodes` (`Issue`, `Use`, `Expire`) or to a stutter. A tick of the
  clock may expire several codes, which the abstract step allows.

`WebhookLogProofs`
- `TypeCorrect`, `AnsweredMeansLoggedHolds`.
- `ProcessedMeansRanHolds`, with `StageInv`: a delivery that is past its handler has run it.
- `TwiceOnlyIfOverlappedHolds`, with `OnceInv`: unless deliveries of an event overlapped, its
  handler has not run while the log is empty or a delivery is still to run it.
- `UnsettledIsUnderWayHolds`, the safety part of `EventsSettle`: an event that was delivered is
  settled, broken off or being worked on (`LoggedInv`: what is logged has a delivery past the
  log). What is left of `EventsSettle` is that a delivery under way ends.
- `DeliveriesGoOn`, an action property: no step takes a delivery back, and each of its own takes it
  further (`StepsLeft`), so there are finitely many. Of `EventsSettle` that leaves what weak fairness
  says, that a delivery takes its steps.
- `RestIsFinal`, an action property: an event on record with no delivery past its check stays as it
  is. So what `EventsSettle` reaches is not undone by a later delivery.

`PayoutSetupProofs`. The invariant is `IInv`. A call in `alone` is the only one at work
(`AloneInv`), so what it has read of the rows is still what is there (`KnownInv`); between calls,
what the last lone call has settled is right (`RepairInv`).
- `TypeCorrect`, `LoneReconcileRepairsHolds`, `LoneAccountEventRepairsHolds`,
  `DowngradeNeedsOverlapHolds` (an action property).

`ChallengePaymentsProofs`
- `TypeCorrect`, `LockProtectsHolds`.
- `LockHasACallHolds`, the safety part of `LockReleased`: the row is there for a call at work, or
  because one crashed or could not delete it. What is left of `LockReleased` is that calls end.
- `CallsGoOn`: a call that waits for winnings has some to create, each of its steps takes it to a
  later stage or settles some of them, and no step of another call sets it back. A challenge has
  finitely many payments, so a call has finitely many steps; that it takes them is weak fairness.
- `DuplicatesNeedFailedSearchHolds`. `DuplicatesInv`: unless a search failed, what a call still
  has to create has not been created. The lock keeps other calls from creating it in between.
- `ConsumedCoversCreatedHolds`. Each consumption replaces the last, so it must be shown that the
  last one is the right one: `BilledInv` says that a call that creates or consumes bills
  everything that exists (which uses `DuplicatesInv`), and that otherwise what exists is consumed.
- `AllOrNothingHolds`. `StageInv`: while nothing has failed, exactly what a creating call has no
  longer pending exists, and nothing is consumed before it consumes.
- `PrizesPaidByPlaceHolds`, from the ranking of the prizes: the prize of a place is the one that
  has as many prizes above it as there are better places. Of payments of one amount, each has a
  prize of its own (`PrizesByRank`), which bounds their number.

`BudgetProofs`
- `TypeCorrect`. That the sums are numbers is the induction mentioned above (`SumType`); that the
  payments in the database are listed once each is `OrderInv`.
- `RoundingBoundedHolds`: the stored fee is that of the stored amount (`FeeFits`), and rounding to
  two and to four places is half a cent apart at most.
- `EngagementFundedHolds`: `FundInv` counts rows against the payments that should have one,
  including those of creations that have consumed and not committed, and what edits have read. A
  payout that writes over a cancelled payment makes it billed and `unbacked` in one step.
- `LoneSyncRepairsHolds`: a call that runs alone sums up payments whose sum stays until it
  writes (`LoneInv`, `SumInv`). Payouts go on meanwhile; the one write of theirs that changes the
  sum, over a cancelled payment, ends `alone` for a call that has read.
- `LoneEditRepairsRowsHolds`: the same for the rows of an assignment (`LoneRowsInv`).
- `BackfillKeepsRightRowsHolds`: when the payments that are billed come first, the n-th of them
  is the n-th of all that are committed (`SameOldest`), and the fee of each is the one the script
  computes (`FeeFits`).

`RecipientsProofs` (for the specification `LinkSpec`)
- `LinkTypeCorrect`.
- `GivenLinkIsFinalHolds`, `OneRecipientUnlessOverlapHolds`, `AccountsReachTheMemberHolds`, all
  from `LinkInv`: who has an address and whose the references are (`AddressInv`, `ReferenceInv`),
  what each request has found or created (`FoundInv`), that nobody else has stored it
  (`StoredInv`, `OverlapInv`), which searches find what was created (`SearchInv`), and which
  events have come (`AccountInv`).

`WinningsViewsProofs` (for the specification `ViewsSpec`). `TypeInv` is `ViewsTypeOK` with the shape
of the rows and of the request.
- `TypeCorrect`, `WalletShowsWithdrawableHolds`.
- `OthersWinningsNeedARoleHolds`, which names the documented scopes and roles of each endpoint
  anew and not the lists of the routes. `AccessInv`: a request that was not refused has passed the
  guards of its route, and what it found for a caller who may see no others is the caller's.
  `FreshInv`: before its first query a request has found nothing, and nothing is watched.
- `PageAndTotalAgreeHolds`. `WatchInv`: while a search reads, `kept` matches, and what matches is
  `kept` or has `entered`. `HalfInv`: the first of the two queries was of some rows between `kept`
  and `kept` with `left`, whichever it was.
- `ScopedListingHolds`. `ScopeInv`: the filters of a search that has passed `Narrow` are within
  what the roles allow, which is shown role by role for any list of roles (`ApplyFiltersNarrows`).
- `ListingCompleteHolds`, the converse. `NarrowedInv`: the filters of a search that has passed
  `Narrow` are those it was given, rewritten for its roles. `ApplyFiltersKeeps`, again role by role:
  a winning that matches what was asked and that each role lets the caller open matches the
  rewritten filters. With `WatchInv` it has matched from the first query on or began to later, and
  for an export `ExportFaithful` says what may be missing from the file.
- `ExportFaithfulHolds`. `ExportInv` counts (`FileOk`): unless something sorted before it has ceased to match, a
  winning that matches all the time and has not been read yet has at least as many winnings
  before it as lines have been read; unless something sorted before it has begun to match, one
  that was read has fewer. Cardinalities of what is sorted before a winning carry that from one
  query to the next, whatever the order of ties.

One property was too strong as first stated, which the proof attempt showed: a caller with a
privileged role beside "Topcoder User" is shown all winnings of a challenge
(`hasPrivilegedRole`, `challenge-payments.service.ts:95`). `OthersWinningsNeedARole` names it, and
`portal` has such a caller.

Only model-checked:
- the liveness properties `EventsSettle` and `LockReleased`: liveness under fairness and
  ENABLED are out of the prover's reach; their safety parts and the progress of single steps are
  proved (`UnsettledIsUnderWayHolds`, `DeliveriesGoOn`, `LockHasACallHolds`, `CallsGoOn`);
- the violations found by `double`, `twelve`, `completed` and `listscope`: each is a behaviour that TLC shows.

## 5. Not modelled

- Clients of other services, start-up, logging: no state; their failures are the failure actions
  of the callers.
- Admin edits of the description and the release date, and of status and amount in one request.
- Payroll and points awards (payroll payments are created PAID), a creation that asks for a status
  of its own (`winnings.service.ts:1347`), several details in one winning, the e-mails. A one-time-password
  e-mail that fails leaves a code the member never sees and that blocks a new one until it
  expires; it changes no state of these models.
- The signature of webhooks, the writing of the audit trail, the external transaction id.
- The backfill of challenge payments (`backfill-payment-challenge-markup-fees.sql`): `Budget`
  leaves the fees of challenges out.
- Writing endpoints have the same middleware and guards as those of `Access`; a request they
  refuse changes nothing, so the other modules begin behind them.

## 6. Plan

Order: money first (`Payouts`, `OneTimeCodes`), then what feeds it (`Otp`, `WebhookLog`,
`PayoutSetup`), then the billing account (`ChallengePayments`, `Budget`), then who sees and who
is linked (`Access`, `WinningsQueries`, `WinningsViews`, `Recipients`). All of it exists, and what the
runs check is proved up to the exceptions at the end of section 4.

Left to prove: for `Payouts`, which of the conditions of `NoDoublePayout` are needed for which
pairs of releases.

Left to model: release dates and combined edits in the admin's part; payroll and points in the
creation.
