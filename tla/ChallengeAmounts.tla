--------------------------- MODULE ChallengeAmounts ---------------------------
(***************************************************************************)
(* Who is paid what for a challenge: getChallengePayments of               *)
(* challenges.service.ts as a function of the challenge, its copilots, its *)
(* reviewers and their reviews.                                            *)
(*                                                                         *)
(* Amounts are whole units of the currency, coefficients are percentages.  *)
(* The category and the requested status of a payment are left out: what   *)
(* becomes of them is the subject of PayoutSetup.                          *)
(***************************************************************************)
EXTENDS Integers, FiniteSets, Sequences

\* A payment, and what it is for: a place, a copilot's or a reviewer's work in a phase.
Payment(to, for, currency, amount) ==
  [to |-> to, for |-> for, currency |-> currency, amount |-> amount]

IsCancelled(ch) == ch.status = "CANCELLED"

\* Wrong form: the prizes are taken as they are listed.
RankedAsListed(prizes, n) == prizes[n]

\* The n-th prize from the top; prizes of one value keep their order.
Above(prizes, i) ==
  {j \in DOMAIN prizes : \/ prizes[j].value > prizes[i].value
                         \/ prizes[j].value = prizes[i].value /\ j < i}
Ranked(prizes, n) ==
  prizes[CHOOSE i \in DOMAIN prizes : Cardinality(Above(prizes, i)) = n - 1]

\* Winners of one place are all paid the prize of that place.
WinnersPayments(ch, winners, prizes, what) ==
  {LET prize == Ranked(prizes, winners[i].place) IN
     Payment(winners[i].user, <<what, i>>, prize.currency, prize.value) :
     i \in {i \in DOMAIN winners : ~IsCancelled(ch)}}

\* Copilots and reviewers are paid only next to a first prize in dollars.
PaysDollars(ch) == ch.prizes # << >> /\ Ranked(ch.prizes, 1).currency = "USD"

CopilotPayments(ch) ==
  {Payment(ch.copilots[i], <<"copilot", i>>, ch.copilotPrizes[1].currency,
           ch.copilotPrizes[1].value) :
     i \in {i \in DOMAIN ch.copilots :
              ch.copilotPrizes # << >> /\ ~IsCancelled(ch) /\ PaysDollars(ch)}}

\* The first terms for member reviews of a phase, rounded up to a whole amount.
ReviewAmount(ch, phase, reviews) ==
  LET t == ch.terms[CHOOSE i \in DOMAIN ch.terms :
                      /\ ch.terms[i].phase = phase
                      /\ \A j \in 1..i-1 : ch.terms[j].phase # phase]
      first == Ranked(ch.prizes, 1).value
  IN (100 * t.fixed + (t.base + t.perReview * reviews) * first + 99) \div 100

Reviews(ch, user, phase) ==
  {i \in DOMAIN ch.reviews : ch.reviews[i].by = user /\ ch.reviews[i].phase = phase}

\* A review in a phase without terms costs every reviewer the payment: the error is
\* caught around them all.
ReviewsPayable(ch) ==
  /\ PaysDollars(ch)
  /\ \A i \in DOMAIN ch.reviews : ch.reviews[i].by \in ch.reviewers =>
       \E j \in DOMAIN ch.terms : ch.terms[j].phase = ch.reviews[i].phase

\* One payment for all that a reviewer did in a phase, in whatever roles.
ReviewersPayments(ch) ==
  {Payment(w[1], <<"review", w[2]>>, "USD",
           ReviewAmount(ch, w[2], Cardinality(Reviews(ch, w[1], w[2])))) :
     w \in {w \in ch.reviewers \X {ch.reviews[i].phase : i \in DOMAIN ch.reviews} :
              ReviewsPayable(ch) /\ Reviews(ch, w[1], w[2]) # {}}}

\* Without any prize in dollars or points the call does nothing.
HasPrizes(ch) ==
  \E prizes \in {ch.prizes, ch.checkpointPrizes, ch.copilotPrizes} : prizes # << >>

\* The errors that end the call.
TooFewPrizes(ch, winners, prizes) ==
  \/ Len(prizes) < Len(winners)
  \/ ~IsCancelled(ch) /\ \E i \in DOMAIN winners : winners[i].place > Len(prizes)

NoCopilot(ch) ==
  /\ ch.copilotPrizes # << >> /\ ~IsCancelled(ch)
  /\ ch.prizes = << >> \/ (PaysDollars(ch) /\ ch.copilots = << >>)

Unpayable(ch) ==
  \/ TooFewPrizes(ch, ch.winners, ch.prizes)
  \/ TooFewPrizes(ch, ch.checkpointWinners, ch.checkpointPrizes)
  \/ NoCopilot(ch)

\* All but the reviewers' payments.
PrizePayments(ch) ==
  WinnersPayments(ch, ch.winners, ch.prizes, "place")
    \cup WinnersPayments(ch, ch.checkpointWinners, ch.checkpointPrizes, "checkpoint")
    \cup CopilotPayments(ch)

ChallengePaymentsOf(ch) ==
  IF Unpayable(ch) THEN {} ELSE PrizePayments(ch) \cup ReviewersPayments(ch)

\* Points are not billed.
DollarsOf(p) == IF p.currency = "USD" THEN p.amount ELSE 0
=============================================================================
