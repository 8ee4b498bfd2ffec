--------------------------- MODULE ChallengePayments ---------------------------
(***************************************************************************)
(* generateChallengePayments of challenges.service.ts for one challenge    *)
(* that is in a payable status and has prizes in dollars or points, if any:*)
(* the row of challenge_lock that keeps calls apart, the search for        *)
(* winnings that were created before, the winnings, each created in a      *)
(* transaction of its own, and the billing account budget consumed at the  *)
(* end.  The endpoint is called again whenever the caller sees fit, on any *)
(* instance.                                                               *)
(*                                                                         *)
(* The consumption of each winning is turned off by the attribute          *)
(* skipChallengeBudgetSync.  The markup multiplies every budget alike and  *)
(* is left out of it.                                                      *)
(***************************************************************************)
EXTENDS ChallengeAmounts

CONSTANTS
  Calls,        \* bound of the model: calls of the endpoint
  Challenges    \* the challenges, with their winners, copilots, reviewers and reviews

ASSUME ChallengesAssumption ==
  \A ch \in Challenges :
    /\ ch.prizes \in Seq([currency : {"USD", "POINT"}, value : Nat])
    /\ \A i \in DOMAIN ch.winners : ch.winners[i].place \in Nat \ {0}

VARIABLES
  challenge,    \* the challenge; never changes once it is payable
  lock,         \* challenge_lock has a row for the challenge
  created,      \* how many winnings there are for each payment
  consumed,     \* the payments whose dollars the budget of the challenge was consumed for
  pc,           \* the next step of each call
  pending,      \* the winnings a call is still creating
  billed,       \* the payments a call will consume the budget for
  failed        \* what has failed so far (history)

work == <<pending, billed>>
vars == <<challenge, lock, created, consumed, pc, work, failed>>

Stages == {"idle", "search", "prepare", "create", "consume", "release", "done"}
Faults == {"search", "reviews", "create", "consume", "release", "crash"}

Payments == ChallengePaymentsOf(challenge)

TypeOK ==
  /\ challenge \in Challenges
  /\ lock \in BOOLEAN
  /\ created \in [Payments -> Nat]
  /\ consumed \subseteq Payments
  /\ pc \in [Calls -> Stages]
  /\ pending \in [Calls -> SUBSET Payments]
  /\ billed \in [Calls -> SUBSET Payments]
  /\ \A c \in Calls : pending[c] # {} => pc[c] = "create"
  /\ failed \subseteq Faults

Init ==
  /\ challenge \in Challenges
  /\ lock = FALSE
  /\ created = [p \in Payments |-> 0]
  /\ consumed = {}
  /\ pc = [c \in Calls |-> "idle"]
  /\ pending = [c \in Calls |-> {}]
  /\ billed = [c \in Calls |-> {}]
  /\ failed = {}

-----------------------------------------------------------------------------
GoTo(c, stage) == pc' = [pc EXCEPT ![c] = stage]

Fault(f) == failed' = failed \cup {f}

\* Wrong form: the row is written whether or not there is one.
AcquireAnyway(c) ==
  /\ pc[c] = "idle"
  /\ lock' = TRUE
  /\ GoTo(c, "search")
  /\ UNCHANGED <<challenge, created, consumed, work, failed>>

\* The unique external_id makes the insert fail while there is a row: the call ends with
\* a conflict and changes nothing.
Acquire(c) ==
  /\ pc[c] = "idle" /\ ~lock
  /\ lock' = TRUE
  /\ GoTo(c, "search")
  /\ UNCHANGED <<challenge, created, consumed, work, failed>>

\* Wrong form: what the search finds is not looked at.
SearchIgnored(c) ==
  /\ pc[c] = "search"
  /\ GoTo(c, "prepare")
  /\ UNCHANGED <<challenge, lock, created, consumed, work, failed>>

\* Wrong form: the error is thrown outside the try block.
SearchThrowsOutside(c) ==
  /\ pc[c] = "search"
  /\ GoTo(c, IF \E p \in Payments : created[p] > 0 THEN "done" ELSE "prepare")
  /\ UNCHANGED <<challenge, lock, created, consumed, work, failed>>

\* Any winning of the challenge ends the call with an error.
SearchWinnings(c) ==
  /\ pc[c] = "search"
  /\ GoTo(c, IF \E p \in Payments : created[p] > 0 THEN "release" ELSE "prepare")
  /\ UNCHANGED <<challenge, lock, created, consumed, work, failed>>

\* searchWinnings catches its errors and returns no data, which is read as "no winnings".
SearchFails(c) ==
  /\ pc[c] = "search"
  /\ GoTo(c, "prepare") /\ Fault("search")
  /\ UNCHANGED <<challenge, lock, created, consumed, work>>

\* Wrong form: the payments of the reviewers are left out of the sum.
PlansUnbilledReviews(c, P) ==
  /\ GoTo(c, IF P = {} THEN "consume" ELSE "create")
  /\ pending' = [pending EXCEPT ![c] = P]
  /\ billed' = [billed EXCEPT ![c] = P \cap PrizePayments(challenge)]

Plans(c, P) ==
  /\ GoTo(c, IF P = {} THEN "consume" ELSE "create")
  /\ pending' = [pending EXCEPT ![c] = P]
  /\ billed' = [billed EXCEPT ![c] = P]

\* getChallengePayments, which throws if the challenge is not payable.  Reviews that cannot
\* be fetched leave the reviewers without payment.
Prepare(c) ==
  /\ pc[c] = "prepare"
  /\ \/ /\ Unpayable(challenge) \/ ~HasPrizes(challenge)
        /\ GoTo(c, "release")
        /\ UNCHANGED <<work, failed>>
     \/ /\ ~Unpayable(challenge) /\ HasPrizes(challenge)
        /\ Plans(c, Payments)
        /\ UNCHANGED failed
     \/ /\ ~Unpayable(challenge) /\ HasPrizes(challenge)
        /\ Plans(c, PrizePayments(challenge))
        /\ Fault("reviews")
  /\ UNCHANGED <<challenge, lock, created, consumed>>

\* The resources of the challenge cannot be fetched.
PrepareFails(c) ==
  /\ pc[c] = "prepare"
  /\ GoTo(c, "release")
  /\ UNCHANGED <<challenge, lock, created, consumed, work, failed>>

\* Promise.all waits for every winning.
Settle(c, p) ==
  /\ pc[c] = "create" /\ p \in pending[c]
  /\ pending' = [pending EXCEPT ![c] = @ \ {p}]
  /\ GoTo(c, IF pending[c] = {p} THEN "consume" ELSE "create")
  /\ UNCHANGED billed

\* createWinningWithPayments commits.
CreateWinning(c, p) ==
  /\ Settle(c, p)
  /\ created' = [created EXCEPT ![p] = @ + 1]
  /\ UNCHANGED <<challenge, lock, consumed, failed>>

\* It rolls back; the error is logged and forgotten.
CreateFails(c, p) ==
  /\ Settle(c, p) /\ Fault("create")
  /\ UNCHANGED <<challenge, lock, created, consumed>>

\* Wrong form: the budget is not consumed.
ConsumeSkipped(c) ==
  /\ pc[c] = "consume"
  /\ GoTo(c, "release")
  /\ UNCHANGED <<challenge, lock, created, consumed, work, failed>>

HasDollars(P) == \E p \in P : DollarsOf(p) > 0

\* lockConsumeAmount for the total, whatever was created.  Nothing is sent for a
\* completed challenge without dollars.
Consume(c) ==
  /\ pc[c] = "consume"
  /\ consumed' = IF challenge.status = "COMPLETED" /\ ~HasDollars(billed[c])
                 THEN consumed ELSE billed[c]
  /\ GoTo(c, "release")
  /\ UNCHANGED <<challenge, lock, created, work, failed>>

ConsumeFails(c) ==
  /\ pc[c] = "consume"
  /\ GoTo(c, "release") /\ Fault("consume")
  /\ UNCHANGED <<challenge, lock, created, consumed, work>>

\* The finally block, after a success and after an error.
Release(c) ==
  /\ pc[c] = "release"
  /\ lock' = FALSE
  /\ GoTo(c, "done")
  /\ UNCHANGED <<challenge, created, consumed, work, failed>>

\* The error of the delete is swallowed: the row stays.
ReleaseFails(c) ==
  /\ pc[c] = "release"
  /\ GoTo(c, "done") /\ Fault("release")
  /\ UNCHANGED <<challenge, lock, created, consumed, work>>

\* The instance crashes: no finally, and the open transactions roll back.
Crash(c) ==
  /\ pc[c] \notin {"idle", "done"}
  /\ GoTo(c, "done") /\ Fault("crash")
  /\ pending' = [pending EXCEPT ![c] = {}]
  /\ UNCHANGED <<challenge, lock, created, consumed, billed>>

Step(c) ==
  \/ SearchWinnings(c) \/ SearchFails(c) \/ Prepare(c) \/ PrepareFails(c)
  \/ \E p \in Payments : CreateWinning(c, p) \/ CreateFails(c, p)
  \/ Consume(c) \/ ConsumeFails(c) \/ Release(c) \/ ReleaseFails(c)

Next == \E c \in Calls : Acquire(c) \/ Step(c) \/ Crash(c)

\* A call that holds the lock goes on until it ends: its awaits settle.
Spec == Init /\ [][Next]_vars /\ \A c \in Calls : WF_vars(Step(c))

-----------------------------------------------------------------------------
(***************************************************************************)
(* Properties.                                                             *)
(***************************************************************************)
Inside == {c \in Calls : pc[c] \notin {"idle", "done"}}

\* At most one call at a time works on the challenge, on whichever instance, and the row
\* is there as long as it does.
LockProtects ==
  /\ \A c, d \in Inside : c = d
  /\ Inside # {} => lock

\* A payment is created twice only if the search for existing winnings failed.
DuplicatesNeedFailedSearch ==
  \A p \in Payments : created[p] > 1 => "search" \in failed

\* The two outcomes of a call: all winnings and the consumption, or none.
AllDone ==
  /\ \A p \in Payments : created[p] = 1
  /\ HasDollars(Payments) => consumed = Payments
NoneDone == consumed = {} /\ \A p \in Payments : created[p] = 0

\* Between calls, unless something failed: all winnings and the consumption, or none.
AllOrNothing ==
  Inside = {} /\ failed = {} => AllDone \/ NoneDone

\* Between calls, the budget is consumed for every payment in dollars that was created,
\* although creations fail one by one, reviews may not be fetched and calls are repeated:
\* unless the search for existing winnings or the consumption failed, or a call crashed.
ConsumedCoversCreated ==
  Inside = {} /\ failed \cap {"search", "consume", "crash"} = {} =>
    \A p \in Payments : created[p] > 0 /\ DollarsOf(p) > 0 => p \in consumed

\* The winners who are paid: better places never for less, and no prize twice if no place
\* is shared.
PrizesPaidByPlace ==
  LET paid == {p \in Payments : created[p] > 0 /\ p.for[1] = "place"}
      Place(p) == challenge.winners[p.for[2]].place
      prizes == challenge.prizes
  IN /\ \A p, q \in paid : Place(p) < Place(q) => p.amount >= q.amount
     /\ (\A p, q \in paid : Place(p) = Place(q) => p = q) =>
          \A p \in paid : Cardinality({q \in paid : q.amount = p.amount}) <=
                          Cardinality({i \in DOMAIN prizes : prizes[i].value = p.amount})

\* The challenge never stays locked, unless a call crashed or could not delete its row.
LockReleased == lock ~> (~lock \/ failed \cap {"crash", "release"} # {})

-----------------------------------------------------------------------------
\* Inductive: unless a search failed, what a call is still going to create has not been
\* created (proved in ChallengePaymentsProofs).
DuplicatesInv ==
  "search" \in failed \/
    \A p \in Payments :
      /\ created[p] <= 1
      /\ \A c \in Calls : pc[c] = "prepare" \/ p \in pending[c] => created[p] = 0

\* Inductive: a call on the way is as far as its stage says, as long as nothing failed.
StageInv ==
  failed = {} =>
    /\ \A c \in Calls :
         /\ pc[c] = "prepare" => NoneDone
         /\ pc[c] \in {"create", "consume"} =>
              /\ consumed = {} /\ billed[c] = Payments
              /\ \A p \in Payments : created[p] = IF p \in pending[c] THEN 0 ELSE 1
    /\ (\A c \in Calls : pc[c] \notin {"create", "consume"}) => AllDone \/ NoneDone

\* Inductive: what exists is billed by the call that is creating it, and consumed after.
BilledInv ==
  failed \cap {"search", "consume", "crash"} = {} =>
    /\ \A c \in Calls : pc[c] \in {"create", "consume"} =>
         /\ pending[c] \subseteq billed[c]
         /\ \A p \in Payments : created[p] > 0 => p \in billed[c]
    /\ (\A c \in Calls : pc[c] \notin {"create", "consume"}) =>
         \A p \in Payments : created[p] > 0 /\ DollarsOf(p) > 0 => p \in consumed
=============================================================================
