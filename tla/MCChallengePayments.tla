------------------------- MODULE MCChallengePayments -------------------------
(***************************************************************************)
(* ChallengePayments with a family of small challenges.                    *)
(***************************************************************************)
EXTENDS ChallengePayments

Prize(currency, value) == [currency |-> currency, value |-> value]
Winner(user, place) == [user |-> user, place |-> place]
Review(by, phase) == [by |-> by, phase |-> phase]
Terms(phase, fixed, base, perReview) ==
  [phase |-> phase, fixed |-> fixed, base |-> base, perReview |-> perReview]

Challenge(status, prizes, winners) ==
  [status |-> status, prizes |-> prizes, winners |-> winners,
   checkpointPrizes |-> << >>, checkpointWinners |-> << >>,
   copilotPrizes |-> << >>, copilots |-> << >>,
   reviewers |-> {}, reviews |-> << >>, terms |-> << >>]

Statuses == {"COMPLETED", "CANCELLED"}

\* Prizes out of order, equal, missing and in points; places shared, skipped and missing.
WinnersOnly ==
  {Challenge("COMPLETED", prizes, winners) :
     prizes \in {<< >>, <<Prize("USD", 3)>>, <<Prize("USD", 3), Prize("USD", 5)>>,
                 <<Prize("USD", 3), Prize("USD", 3)>>,
                 <<Prize("USD", 3), Prize("POINT", 5)>>},
     winners \in {<< >>, <<Winner("u1", 1)>>, <<Winner("u1", 2)>>,
                  <<Winner("u1", 2), Winner("u2", 1)>>,
                  <<Winner("u1", 1), Winner("u2", 1)>>}}

\* Two reviewers, one of whom has reviewed twice, with and without terms for a phase.
WithStaff ==
  {[Challenge(s, <<Prize(currency, 5)>>, << >>) EXCEPT
      !.copilotPrizes = <<Prize("USD", 2)>>, !.copilots = copilots,
      !.reviewers = {"u3", "u4"},
      !.reviews = <<Review("u3", "review"), Review("u3", "review"), Review("u4", phase)>>,
      !.terms = <<Terms("review", 0, 10, 5), Terms("review", 9, 0, 0)>>] :
     s \in Statuses, currency \in {"USD", "POINT"}, copilots \in {<< >>, <<"u2">>},
     phase \in {"review", "approval"}}

WithCheckpoint ==
  {[Challenge(s, <<Prize("USD", 5)>>, <<Winner("u1", 1)>>) EXCEPT
      !.checkpointPrizes = prizes, !.checkpointWinners = <<Winner("u1", 1)>>] :
     s \in Statuses, prizes \in {<< >>, <<Prize("USD", 1)>>}}

CopilotOnly ==
  {[Challenge(s, << >>, << >>) EXCEPT
      !.copilotPrizes = <<Prize("USD", 2)>>, !.copilots = <<"u2">>] : s \in Statuses}

SmallChallenges == WinnersOnly \cup WithStaff \cup WithCheckpoint \cup CopilotOnly
=============================================================================
