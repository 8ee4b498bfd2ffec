---------------------------- MODULE BudgetProofs ----------------------------
(***************************************************************************)
(* Theorems about Budget, for every choice of its constants.               *)
(***************************************************************************)
EXTENDS Budget, FiniteSetTheorems, WellFoundedInduction, TLAPS

\* V holds the sums and the values of consumed rows, of which most proofs need nothing.
Requests(V) == [status : ChallengeStatuses \cup {"none", "unknown"}, sum : V, rows : Seq(V),
                pay : Payments \cup {"none"}, edit : Amounts \cup {Cancel, Nothing},
                version : Nat]

PaymentRows == [status : PaymentStatus, amount : Amounts \cup {0}, fee : Nat, version : Nat]

Types ==
  /\ kind \in {"CHALLENGE", "ENGAGEMENT"}
  /\ status \in ChallengeStatuses
  /\ pay \in [Payments -> PaymentRows]
  /\ alone \subseteq Calls
  /\ clean \subseteq Admins
  /\ missing \in BOOLEAN
  /\ unbacked \subseteq Payments
  /\ payout \in [Payments -> PayoutSteps]
  /\ pc \in [Calls -> Steps]
  /\ \E V : rows \in Seq(V) /\ req \in [Calls -> Requests(V)]

\* Nothing but the progress of a withdrawal changes.
Quiet == UNCHANGED <<kind, status, pay, order, ledger, calls, history>>

\* Where a call stands tells what it has read and the state of the payment it creates.
Flow ==
  /\ \A p \in Payments :
       /\ pc[p] \notin {"read", "committed"}
       /\ pay[p].status = "none" <=> pc[p] \in {"idle", "planned", "failed"}
       /\ pay[p].status = "OPEN" <=> pc[p] \in {"inserted", "summed", "synced"}
       /\ kind = "ENGAGEMENT" => req[p].status = "none" /\ pc[p] # "summed"
  /\ \A a \in Admins :
       /\ pc[a] \in {"read", "committed"} => req[a].status = "none"
       /\ pc[a] \notin {"inserted", "synced"}
       /\ pc[a] = "read" => /\ req[a].pay \in Payments
                            /\ pay[req[a].pay].status \notin {"none", "OPEN"}

\* A withdrawal that finds a payment owed changes nothing else.
LEMMA SelectIsQuiet == (UNCHANGED vars \/ \E p \in Payments : SelectReleasable(p)) => Quiet
  BY DEF vars, SelectReleasable, Quiet

-----------------------------------------------------------------------------
(* The numbers                                                             *)

\* Rounding amounts and fees gives naturals.
LEMMA RoundType ==
  ASSUME NEW n \in Nat, NEW unit \in {100, 10000}
  PROVE  RoundHalfUp(n, unit) \in Nat
  BY DEF RoundHalfUp

\* The stored fee of calculateEngagementChallengeFee is a natural.
LEMMA FeeType ==
  ASSUME NEW n \in Nat
  PROVE  ChallengeFee(n) \in Nat
  <1>1. n * Markup \in Nat
    BY BudgetAssumption
  <1> QED BY <1>1, RoundType DEF ChallengeFee

\* Rounding to the cent and rounding to a hundredth of it differ by at most half a cent:
\* the fee that is stored against the fee that is consumed.
LEMMA RoundsAgree ==
  ASSUME NEW n \in Nat
  PROVE  100 * RoundHalfUp(n, 10000) - RoundHalfUp(n, 100) \in -50..50
  BY DEF RoundHalfUp

\* A sequence over a set is one over every larger set.
LEMMA SeqGrows ==
  ASSUME NEW V, NEW W, V \subseteq W, NEW s \in Seq(V)
  PROVE  s \in Seq(W)
  OBVIOUS

\* So is what the calls have read, when the set of sums and row values grows.
LEMMA RequestsGrow ==
  ASSUME NEW V, NEW W, V \subseteq W, NEW r \in [Calls -> Requests(V)]
  PROVE  r \in [Calls -> Requests(W)]
  <1> SUFFICES ASSUME NEW c \in Calls PROVE r[c] \in Requests(W)
    OBVIOUS
  <1>1. r[c] \in Requests(V)
    OBVIOUS
  <1>2. Seq(V) \subseteq Seq(W)
    BY SeqGrows
  <1> QED BY <1>1, <1>2 DEF Requests

\* There are finitely many payments, so those of any selection can be counted.
LEMMA ActiveFinite ==
  ASSUME NEW S \in SUBSET Payments
  PROVE  IsFiniteSet(S) /\ Cardinality(S) \in Nat
  BY BudgetAssumption, FS_Subset, FS_CardinalityType

\* syncEngagementConsumeAmounts never adds a row: it leaves the shorter of the two lengths.
LEMMA SyncedRowsFit ==
  ASSUME NEW V, NEW amounts \in Seq(V), rows \in Seq(V)
  PROVE  /\ SyncedRows(amounts) \in Seq(V)
         /\ Len(SyncedRows(amounts)) = IF Len(amounts) < Len(rows) THEN Len(amounts) ELSE Len(rows)
  BY DEF SyncedRows

-----------------------------------------------------------------------------
(* Types                                                                   *)

\* What a starting call has read is a request.
LEMMA RequestType ==
  ASSUME NEW V, NEW s, NEW p, NEW e, NEW v,
         s \in ChallengeStatuses \cup {"none", "unknown"},
         p \in Payments \cup {"none"}, e \in Amounts \cup {Cancel, Nothing}, v \in Nat
  PROVE  Request(s, p, e, v) \in Requests(V \cup {0})
  BY DEF Request, Requests

\* So is what an idle or ended call holds.
LEMMA NoRequestType ==
  ASSUME NEW V
  PROVE  NoRequest \in Requests(V \cup {0})
  BY RequestType DEF NoRequest

\* The empty database and the idle calls have their types.
LEMMA InitTypes == Init => Types
  <1> SUFFICES ASSUME Init PROVE Types
    OBVIOUS
  <1>1. pay \in [Payments -> PaymentRows]
    BY DEF Init, NoPayment, PaymentRows, PaymentStatus
  <1>2. req \in [Calls -> Requests({0} \cup {0})]
    BY NoRequestType DEF Init
  <1>3. rows \in Seq({0} \cup {0})
    BY DEF Init
  <1>4. \E V : rows \in Seq(V) /\ req \in [Calls -> Requests(V)]
    BY <1>2, <1>3
  <1> QED BY <1>1, <1>4, BudgetAssumption DEF Init, Types, Steps, PayoutSteps

\* A call that ends or starts gets a new record.
LEMMA RecordTypes ==
  ASSUME NEW V, NEW c \in Calls, NEW r \in Requests(V \cup {0}), rows \in Seq(V),
         req \in [Calls -> Requests(V)], req' = [req EXCEPT ![c] = r], UNCHANGED rows
  PROVE  \E W : rows' \in Seq(W) /\ req' \in [Calls -> Requests(W)]
  <1>1. rows \in Seq(V \cup {0}) /\ req \in [Calls -> Requests(V \cup {0})]
    BY SeqGrows, RequestsGrow
  <1>2. req' \in [Calls -> Requests(V \cup {0})]
    BY <1>1
  <1> QED BY <1>1, <1>2

\* Every write of a payment row, by a creation, an edit or a payout, writes a payment row.
LEMMA PaymentTypes ==
  ASSUME Types, [Next]_vars
  PROVE  pay' \in [Payments -> PaymentRows]
  <1> USE DEF Types
  <1>1. ASSUME NEW p \in Payments, NEW n \in Amounts, Insert(p, n)
        PROVE  pay' \in [Payments -> PaymentRows]
    <2>1. n \in Nat /\ (IF kind = "ENGAGEMENT" THEN ChallengeFee(n) ELSE 0) \in Nat
      BY FeeType, BudgetAssumption
    <2> QED BY <1>1, <2>1 DEF Insert, PaymentRows, PaymentStatus
  <1>2. ASSUME NEW p \in Payments, Commit(p)
        PROVE  pay' \in [Payments -> PaymentRows]
    BY <1>2 DEF Commit, PaymentRows, PaymentStatus
  <1>3. ASSUME NEW p \in Payments, RollBack(p)
        PROVE  pay' \in [Payments -> PaymentRows]
    BY <1>3 DEF RollBack, NoPayment, PaymentRows, PaymentStatus
  <1>4. ASSUME NEW p \in Payments, UpdateProcessingState(p)
        PROVE  pay' \in [Payments -> PaymentRows]
    <2>1. PICK s \in PaymentStatus : pay' = [pay EXCEPT ![p] = Moved(pay[p], s)]
      BY <1>4 DEF UpdateProcessingState, PayoutWrites, PaymentStatus, PayoutSteps
    <2>2. Moved(pay[p], s) \in PaymentRows
      BY DEF Moved, PaymentRows
    <2> QED BY <2>1, <2>2
  <1>5. ASSUME NEW a \in Admins, CommitEdit(a)
        PROVE  pay' \in [Payments -> PaymentRows]
    <2>1. req[a].edit \in Amounts \cup {Cancel, Nothing}
      BY DEF Calls, Requests
    <2>2. CASE req[a].edit = Nothing
      BY <1>5, <2>2 DEF CommitEdit
    <2>3. CASE req[a].edit # Nothing /\ req[a].pay \in Payments
      <3>1. pay' = [pay EXCEPT ![req[a].pay] = Edited(pay[req[a].pay], req[a].edit)]
        BY <1>5, <2>3 DEF CommitEdit
      <3>2. ASSUME NEW row \in PaymentRows, NEW e \in Amounts \cup {Cancel}
            PROVE  Edited(row, e) \in PaymentRows
        <4>1. e = Cancel \/ (e \in Amounts /\ EditedFee(row, e) \in Nat)
          BY FeeType, BudgetAssumption DEF EditedFee, PaymentRows
        <4> QED BY <4>1 DEF Edited, Moved, Priced, PaymentRows, PaymentStatus
      <3> QED BY <2>1, <2>3, <3>1, <3>2
    <2>4. CASE req[a].edit # Nothing /\ req[a].pay \notin Payments
      BY <1>5, <2>4 DEF CommitEdit
    <2> QED BY <2>2, <2>3, <2>4
  <1>6. CASE UNCHANGED pay
    BY <1>6
  <1> QED
    BY <1>1, <1>2, <1>3, <1>4, <1>5, <1>6
    DEF Next, vars, Plan, ConsumeEngagement, SumPersisted, WriteBudget, ReadPayment,
        ReadChallenge, SumActive, RewriteBudget, ReadActiveRows, RewriteRows, GiveUp,
        ChallengeMoves, SelectReleasable

\* Every step keeps the rows of the assignment and what the calls have read in some set V.
LEMMA RequestTypes ==
  ASSUME Types, [Next]_vars
  PROVE  \E W : rows' \in Seq(W) /\ req' \in [Calls -> Requests(W)]
  <1> PICK V : rows \in Seq(V) /\ req \in [Calls -> Requests(V)]
    BY DEF Types
  <1> DEFINE Goal == \E W : rows' \in Seq(W) /\ req' \in [Calls -> Requests(W)]
  <1>1. ASSUME NEW p \in Payments, Plan(p) PROVE Goal
    <2>1. PICK s \in {status, "unknown"} :
            Starts(p, "planned", Request(IF kind = "CHALLENGE" THEN s ELSE "none", "none",
                                         Nothing, 0))
      BY <1>1 DEF Plan
    <2>2. Request(IF kind = "CHALLENGE" THEN s ELSE "none", "none", Nothing, 0)
            \in Requests(V \cup {0})
      BY RequestType DEF Types
    <2> QED BY <1>1, <2>1, <2>2, RecordTypes DEF Plan, Starts, ledger, Calls
  <1>2. ASSUME NEW a \in Admins, NEW p \in Payments, NEW e \in Amounts \cup {Cancel},
               ReadPayment(a, p, e)
        PROVE  Goal
    <2>1. Applied(p, e) \in Amounts \cup {Cancel, Nothing} /\ pay[p].version \in Nat
      BY DEF Applied, Types, PaymentRows
    <2>2. Request("none", p, Applied(p, e), pay[p].version) \in Requests(V \cup {0})
      BY <2>1, RequestType
    <2> QED BY <1>2, <2>2, RecordTypes DEF ReadPayment, Starts, ledger, Calls
  <1>3. ASSUME NEW p \in Payments, ConsumeEngagement(p) PROVE Goal
    <2> DEFINE W == V \cup {ConsumeAmount(pay[p].amount)}
    <2>1. rows \in Seq(W) /\ req \in [Calls -> Requests(W)]
      BY SeqGrows, RequestsGrow
    <2>2. rows' \in Seq(W)
      BY <1>3, <2>1 DEF ConsumeEngagement
    <2> QED BY <1>3, <2>1, <2>2 DEF ConsumeEngagement
  <1>4. ASSUME NEW c \in Calls, NEW n, req' = [req EXCEPT ![c].sum = n], UNCHANGED rows
        PROVE  Goal
    <2>1. rows \in Seq(V \cup {n}) /\ req \in [Calls -> Requests(V \cup {n})]
      BY SeqGrows, RequestsGrow
    <2>2. req' \in [Calls -> Requests(V \cup {n})]
      BY <1>4, <2>1 DEF Requests
    <2> QED BY <1>4, <2>1, <2>2
  <1>5. ASSUME NEW a \in Admins, ReadActiveRows(a) PROVE Goal
    <2> DEFINE W == V \cup {LedgerAmount(Oldest(Billed, n)) : n \in 1..Cardinality(Billed)}
    <2>1. rows \in Seq(W) /\ req \in [Calls -> Requests(W)]
      BY SeqGrows, RequestsGrow
    <2>2. Cardinality(Billed) \in Nat
      BY ActiveFinite DEF Billed, Active
    <2>3. ActiveRows \in Seq(W)
      BY <2>2 DEF ActiveRows
    <2>4. req' = [req EXCEPT ![a].rows = ActiveRows] /\ rows' = rows
      BY <1>5 DEF ReadActiveRows, ledger
    <2>5. req' \in [Calls -> Requests(W)]
      <3> HIDE DEF W
      <3> QED BY <2>1, <2>3, <2>4 DEF Requests
    <2> QED BY <2>1, <2>4, <2>5
  <1>6. ASSUME NEW a \in Admins, RewriteRows(a) PROVE Goal
    <2>1. req[a].rows \in Seq(V)
      BY DEF Requests, Calls
    <2>2. rows' \in Seq(V)
      BY <1>6, <2>1, SyncedRowsFit DEF RewriteRows
    <2>3. rows' \in Seq(V \cup {0}) /\ req \in [Calls -> Requests(V \cup {0})]
      BY <2>2, SeqGrows, RequestsGrow
    <2>4. req' \in [Calls -> Requests(V \cup {0})]
      BY <1>6, <2>3, NoRequestType DEF RewriteRows, Ends
    <2> QED BY <2>3, <2>4
  <1>7. ASSUME NEW a \in Admins, req' = [req EXCEPT ![a].status = status], UNCHANGED rows
        PROVE  Goal
    <2>1. req' \in [Calls -> Requests(V)]
      BY <1>7 DEF Requests, Types
    <2> QED BY <1>7, <2>1
  <1>8. ASSUME NEW c \in Calls, NEW s \in Steps, Ends(c, s), UNCHANGED rows PROVE Goal
    BY <1>8, NoRequestType, RecordTypes DEF Ends
  <1>9. ASSUME UNCHANGED <<rows, req>> PROVE Goal
    BY <1>9
  <1> HIDE DEF Goal
  <1>10. ASSUME NEW p \in Payments, SumPersisted(p) \/ Commit(p) \/ RollBack(p) PROVE Goal
    BY <1>4, <1>8, <1>10 DEF SumPersisted, Commit, RollBack, ledger, Calls, Steps
  <1>11. ASSUME NEW a \in Admins,
                ReadChallenge(a) \/ SumActive(a) \/ RewriteBudget(a) \/ GiveUp(a)
         PROVE  Goal
    BY <1>4, <1>7, <1>8, <1>11 DEF ReadChallenge, SumActive, RewriteBudget, GiveUp,
       ledger, Calls,
       Steps
  <1>12. ASSUME NEW p \in Payments,
                (\E n \in Amounts : Insert(p, n)) \/ WriteBudget(p) \/ SelectReleasable(p)
                \/ UpdateProcessingState(p)
         PROVE  Goal
    BY <1>9, <1>12 DEF Insert, WriteBudget, SelectReleasable, UpdateProcessingState,
       ledger, calls
  <1>13. ASSUME NEW a \in Admins, CommitEdit(a) PROVE Goal
    BY <1>9, <1>13 DEF CommitEdit, ledger
  <1>14. Goal
    BY <1>1, <1>2, <1>3, <1>5, <1>6, <1>9, <1>10, <1>11, <1>12, <1>13
    DEF Next, vars, ChallengeMoves, ledger, calls
  <1> QED BY <1>14 DEF Goal

\* Every step keeps the types; an edit reads a payment that exists.
LEMMA TypesStep ==
  ASSUME Types, Flow, [Next]_vars
  PROVE  Types'
  <1>1. /\ kind' \in {"CHALLENGE", "ENGAGEMENT"}
        /\ alone' \subseteq Calls
        /\ clean' \subseteq Admins
        /\ missing' \in BOOLEAN
    <2>1. kind' \in {"CHALLENGE", "ENGAGEMENT"}
      BY DEF Types, Next, vars, Plan, Insert, ConsumeEngagement, SumPersisted, WriteBudget,
          Commit, RollBack, SelectReleasable, UpdateProcessingState, ReadPayment, CommitEdit,
          ReadChallenge, SumActive, RewriteBudget, ReadActiveRows, RewriteRows, GiveUp,
          ChallengeMoves
    <2>2. ASSUME NEW c \in Calls, NEW s, NEW r, Starts(c, s, r) PROVE alone' \subseteq Calls
      BY <2>2 DEF Starts
    <2>3. alone \subseteq Calls
      BY DEF Types
    <2>4. ASSUME NEW p \in Payments, UpdateProcessingState(p) PROVE alone' \subseteq Calls
      BY <2>3, <2>4 DEF UpdateProcessingState, Revives, history
    <2>5. ASSUME NEW p \in Payments, Plan(p) PROVE alone' \subseteq Calls
      BY <2>2, <2>5 DEF Plan, Calls
    <2>6. ASSUME NEW a \in Admins, NEW p \in Payments, NEW edit, ReadPayment(a, p, edit)
          PROVE  alone' \subseteq Calls
      BY <2>2, <2>6 DEF ReadPayment, Calls
    <2>7. alone' \subseteq Calls
      BY <2>3, <2>4, <2>5, <2>6
      DEF Next, vars, history, Insert, ConsumeEngagement, SumPersisted, WriteBudget, Commit,
          RollBack, SelectReleasable, CommitEdit, ReadChallenge, SumActive, RewriteBudget,
          ReadActiveRows, RewriteRows, GiveUp, ChallengeMoves
    <2>8. clean' \subseteq Admins
      BY DEF Types, Next, vars, history, Plan, Insert, ConsumeEngagement, SumPersisted, WriteBudget,
          Commit, RollBack, SelectReleasable, UpdateProcessingState, Revives, ReadPayment, CommitEdit,
          ReadChallenge, SumActive, RewriteBudget, ReadActiveRows, RewriteRows, GiveUp,
          ChallengeMoves
    <2>9. missing' \in BOOLEAN
      BY DEF Types, Next, vars, history, Plan, Insert, ConsumeEngagement, SumPersisted, WriteBudget,
          Commit, RollBack, SelectReleasable, UpdateProcessingState, Revives, ReadPayment, CommitEdit,
          ReadChallenge, SumActive, RewriteBudget, ReadActiveRows, RewriteRows, GiveUp,
          ChallengeMoves
    <2> QED BY <2>1, <2>7, <2>8, <2>9
  <1>2. status' \in ChallengeStatuses
    BY DEF Types, Next, vars, ChallengeStatuses, Plan, Insert, ConsumeEngagement,
           SumPersisted, WriteBudget, Commit, RollBack, SelectReleasable, UpdateProcessingState,
           ReadPayment, CommitEdit,
           ReadChallenge, SumActive, RewriteBudget, ReadActiveRows, RewriteRows, GiveUp,
           ChallengeMoves
  <1>3. pc' \in [Calls -> Steps]
    BY DEF Types, Next, vars, calls, Calls, Steps, Plan, Insert, ConsumeEngagement,
           SumPersisted, WriteBudget, Commit, RollBack, SelectReleasable, UpdateProcessingState,
           ReadPayment, CommitEdit,
           ReadChallenge, SumActive, RewriteBudget, ReadActiveRows, RewriteRows, GiveUp,
           ChallengeMoves, Starts, Goes, Ends
  <1>4. unbacked' \subseteq Payments
    <2>1. ASSUME NEW p \in Payments, UpdateProcessingState(p) PROVE unbacked' \subseteq Payments
      BY <2>1 DEF Types, UpdateProcessingState, Revives, history
    <2>2. ASSUME NEW a \in Admins, CommitEdit(a) PROVE unbacked' \subseteq Payments
      BY <2>2 DEF Types, Flow, CommitEdit
    <2>3. CASE UNCHANGED unbacked
      BY <2>3 DEF Types
    <2> QED
      BY <2>1, <2>2, <2>3
      DEF Next, vars, history, Plan, Insert, ConsumeEngagement, SumPersisted, WriteBudget,
          Commit, RollBack, SelectReleasable, ReadPayment, ReadChallenge, SumActive,
          RewriteBudget, ReadActiveRows, RewriteRows, GiveUp, ChallengeMoves
  <1>5. payout' \in [Payments -> PayoutSteps]
    BY DEF Types, PayoutSteps, Next, vars, Plan, Insert, ConsumeEngagement, SumPersisted,
           WriteBudget, Commit, RollBack, SelectReleasable, UpdateProcessingState, ReadPayment,
           CommitEdit, ReadChallenge, SumActive, RewriteBudget, ReadActiveRows, RewriteRows,
           GiveUp, ChallengeMoves
  <1> QED BY <1>1, <1>2, <1>3, <1>4, <1>5, PaymentTypes, RequestTypes DEF Types

\* A challenge stays a challenge and an assignment an assignment.
LEMMA KindStays == [Next]_vars => kind' = kind
  BY DEF Next, vars, Plan, Insert, ConsumeEngagement, SumPersisted, WriteBudget, Commit,
     RollBack, SelectReleasable, UpdateProcessingState, ReadPayment, CommitEdit, ReadChallenge,
     SumActive, RewriteBudget,
     ReadActiveRows, RewriteRows, GiveUp, ChallengeMoves

-----------------------------------------------------------------------------
(* The steps of the calls                                                  *)

\* At the start no call has read or written anything.
LEMMA FlowInit == Init => Flow
  BY BudgetAssumption DEF Init, Flow, NoPayment, NoRequest, Request, Calls

\* An edit may cancel the payment it has read, and leaves every other status alone.
LEMMA EditKeepsPayments ==
  ASSUME Types, Flow, NEW a \in Admins, CommitEdit(a), NEW x \in Payments
  PROVE  /\ pay'[x].status \in {pay[x].status, "CANCELLED"}
         /\ pay[x].status \in {"none", "OPEN"} => pay'[x] = pay[x]
  <1> DEFINE q == req[a].pay
  <1>1. q \in Payments /\ pay[q].status \notin {"none", "OPEN"}
    BY DEF Flow, CommitEdit
  <1>2. CASE UNCHANGED pay
    BY <1>2
  <1>3. CASE pay' = [pay EXCEPT ![q] = Edited(pay[q], req[a].edit)]
    <2>1. Edited(pay[q], req[a].edit).status \in {pay[q].status, "CANCELLED"}
      BY DEF Edited, Moved, Priced
    <2> QED BY <1>1, <1>3, <2>1 DEF Types
  <1> QED BY <1>2, <1>3 DEF CommitEdit

\* A payout changes no amount and no fee, touches committed payments only, and leaves them
\* active: it may bring a cancelled payment back, and cancels none.
LEMMA PayoutKeepsPayments ==
  ASSUME Types, NEW p \in Payments, UpdateProcessingState(p), NEW x \in Payments
  PROVE  /\ pay'[x].amount = pay[x].amount
         /\ pay'[x].fee = pay[x].fee
         /\ x \in Active => x \in Active'
         /\ x \in Active' => x \in Active \/ (x = p /\ pay[p].status = "CANCELLED")
         /\ pay[x].status \in {"none", "OPEN"} <=> pay'[x].status \in {"none", "OPEN"}
         /\ pay[x].status \in {"none", "OPEN"} => pay'[x] = pay[x]
  <1>1. PICK s \in PayoutWrites(p) : pay' = [pay EXCEPT ![p] = Moved(pay[p], s)]
    BY DEF UpdateProcessingState
  <1>2. s \in {"OWED", "PROCESSING", "PAID"}
    BY DEF PayoutWrites, Types, PayoutSteps
  <1>3. pay[p].status \in {"OWED", "PROCESSING", "PAID", "CANCELLED"}
    BY DEF UpdateProcessingState, Committed, Types, PaymentRows, PaymentStatus
  <1>4. CASE x = p
    BY <1>1, <1>2, <1>3, <1>4 DEF Moved, Active, Types
  <1>5. CASE x # p
    BY <1>1, <1>5 DEF Active, Types
  <1> QED BY <1>4, <1>5

\* A payout over a payment that is not cancelled changes nothing of what is billed, one over
\* a cancelled payment counts it as unbacked and takes the lone standing from the calls that
\* have read.
LEMMA PayoutRevives ==
  ASSUME Types, NEW p \in Payments, UpdateProcessingState(p)
  PROVE  /\ UNCHANGED <<kind, status, order, ledger, calls, clean, missing>>
         /\ \/ Active' = Active /\ UNCHANGED <<alone, unbacked>>
            \/ /\ Active' \subseteq Active \cup {p}
               /\ unbacked' = unbacked \cup {p}
               /\ alone' = {c \in alone : pc[c] \notin {"summed", "synced"}}
  <1>1. Active \subseteq Payments /\ Active' \subseteq Payments
    BY DEF Active
  <1>2. UNCHANGED <<kind, status, order, ledger, calls>>
    BY DEF UpdateProcessingState
  <1>3. CASE pay[p].status = "CANCELLED"
    <2>1. Active' \subseteq Active \cup {p}
      BY <1>1, PayoutKeepsPayments
    <2> QED BY <1>2, <1>3, <2>1 DEF UpdateProcessingState, Revives
  <1>4. CASE pay[p].status # "CANCELLED"
    <2>1. Active' = Active
      BY <1>1, <1>4, PayoutKeepsPayments
    <2> QED BY <1>2, <1>4, <2>1 DEF UpdateProcessingState, history
  <1> QED BY <1>3, <1>4

\* Every step keeps the place of a call in line with what it has read and inserted.
LEMMA FlowStep ==
  ASSUME Types, Flow, [Next]_vars
  PROVE  Flow'
  <1> PICK V : rows \in Seq(V) /\ req \in [Calls -> Requests(V)]
    BY DEF Types
  <1>1. pc \in [Calls -> Steps] /\ pay \in [Payments -> PaymentRows]
    BY DEF Types
  <1>2. kind' = kind
    BY KindStays
  <1>3. Payments \cap Admins = {}
    BY BudgetAssumption
  <1>4. ASSUME NEW p \in Payments, Plan(p) PROVE Flow'
    BY <1>1, <1>2, <1>3, <1>4 DEF Flow, Plan, Starts, Request, Requests, Calls
  <1>5. ASSUME NEW p \in Payments, NEW n \in Amounts, Insert(p, n) PROVE Flow'
    BY <1>1, <1>2, <1>3, <1>5 DEF Flow, Insert, Goes, Requests, Calls
  <1>6. ASSUME NEW p \in Payments, ConsumeEngagement(p) PROVE Flow'
    BY <1>1, <1>2, <1>3, <1>6 DEF Flow, ConsumeEngagement, Goes, Requests, Calls
  <1>7. ASSUME NEW p \in Payments, SumPersisted(p) PROVE Flow'
    BY <1>1, <1>2, <1>3, <1>7 DEF Flow, SumPersisted, Goes, Requests, Calls
  <1>8. ASSUME NEW p \in Payments, WriteBudget(p) PROVE Flow'
    BY <1>1, <1>2, <1>3, <1>8 DEF Flow, WriteBudget, Goes, Requests, Calls
  <1>9. ASSUME NEW p \in Payments, Commit(p) \/ RollBack(p) PROVE Flow'
    <2>1. /\ \A x \in Payments \ {p} : pay'[x] = pay[x]
          /\ pc'[p] \in {"done", "failed"}
          /\ pc'[p] = "done" => pay'[p].status = "OWED"
          /\ pc'[p] = "failed" => pay'[p].status = "none"
      BY <1>1, <1>9 DEF Commit, RollBack, Ends, Goes, NoPayment, PaymentRows, Calls
    <2>2. req'[p].status = "none" /\ \A c \in Calls \ {p} : req'[c] = req[c] /\ pc'[c] = pc[c]
      BY <1>1, <1>9 DEF Commit, RollBack, Ends, Goes, NoRequest, Request, Calls
    <2>3. pay[p].status \in {"none", "OPEN"}
      BY <1>1, <1>9 DEF Commit, RollBack, Flow, Busy, Steps, Calls
    <2>4. ASSUME NEW x \in Payments
          PROVE  /\ pc'[x] \notin {"read", "committed"}
                 /\ pay'[x].status = "none" <=> pc'[x] \in {"idle", "planned", "failed"}
                 /\ pay'[x].status = "OPEN" <=> pc'[x] \in {"inserted", "summed", "synced"}
                 /\ kind' = "ENGAGEMENT" => req'[x].status = "none" /\ pc'[x] # "summed"
      <3>1. CASE x = p
        BY <2>1, <2>2, <3>1
      <3>2. CASE x # p
        BY <1>2, <2>1, <2>2, <3>2 DEF Flow, Calls
      <3> QED BY <3>1, <3>2
    <2>5. ASSUME NEW a \in Admins
          PROVE  /\ pc'[a] \in {"read", "committed"} => req'[a].status = "none"
                 /\ pc'[a] \notin {"inserted", "synced"}
                 /\ pc'[a] = "read" => req'[a].pay \in Payments
                 /\ pc'[a] = "read" => pay'[req'[a].pay].status \notin {"none", "OPEN"}
      BY <1>3, <2>1, <2>2, <2>3 DEF Flow, Calls
    <2> QED BY <2>4, <2>5 DEF Flow
  <1>10. ASSUME NEW p \in Payments, UpdateProcessingState(p) PROVE Flow'
    <2>1. UNCHANGED <<pc, req>>
      BY <1>10 DEF UpdateProcessingState, calls
    <2>2. \A x \in Payments :
            /\ pay[x].status \in {"none", "OPEN"} <=> pay'[x].status \in {"none", "OPEN"}
            /\ pay[x].status \in {"none", "OPEN"} => pay'[x] = pay[x]
      BY <1>10, PayoutKeepsPayments
    <2> QED BY <1>2, <2>1, <2>2 DEF Flow
  <1>11. ASSUME NEW a \in Admins, NEW p \in Payments, NEW e \in Amounts \cup {Cancel},
                ReadPayment(a, p, e)
         PROVE  Flow'
    BY <1>1, <1>2, <1>3, <1>11 DEF Flow, ReadPayment, Starts, Request, Editable, Active,
       Requests, Calls
  <1>12. ASSUME NEW a \in Admins, CommitEdit(a) PROVE Flow'
    <2> DEFINE q == req[a].pay
    <2>1. q \in Payments /\ pay[q].status \notin {"none", "OPEN"}
      BY <1>12 DEF Flow, CommitEdit
    <2>2. \A x \in Payments : /\ pay'[x].status \in {pay[x].status, "CANCELLED"}
                              /\ pay[x].status \in {"none", "OPEN"} => pay'[x] = pay[x]
      BY <1>12, EditKeepsPayments
    <2>3. pc' = [pc EXCEPT ![a] = "committed"] /\ req' = req
      BY <1>12 DEF CommitEdit, Goes
    <2>4. pc[a] = "read" /\ req[a].status = "none"
      BY <1>12 DEF CommitEdit, Flow
    <2> HIDE DEF q
    <2> QED BY <1>1, <1>2, <1>3, <2>2, <2>3, <2>4 DEF Flow, Calls
  <1>13. ASSUME NEW a \in Admins, ReadChallenge(a) PROVE Flow'
    <2>1. CASE Goes(a, "planned") /\ req' = [req EXCEPT ![a].status = status]
      BY <1>1, <1>2, <1>3, <1>13, <2>1 DEF Flow, ReadChallenge, Goes, Requests, Calls
    <2>2. CASE Ends(a, "done")
      BY <1>1, <1>2, <1>3, <1>13, <2>2 DEF Flow, ReadChallenge, Goes, Ends, Requests, Calls
    <2> QED BY <1>13, <2>1, <2>2 DEF ReadChallenge
  <1>14. ASSUME NEW a \in Admins, SumActive(a) PROVE Flow'
    BY <1>1, <1>2, <1>3, <1>14 DEF Flow, SumActive, Goes, Active, Requests, Calls
  <1>15. ASSUME NEW a \in Admins, RewriteBudget(a) PROVE Flow'
    BY <1>1, <1>2, <1>3, <1>15 DEF Flow, RewriteBudget, Goes, Ends, Request, NoRequest,
       Requests, Calls
  <1>16. ASSUME NEW a \in Admins, ReadActiveRows(a) PROVE Flow'
    BY <1>1, <1>2, <1>3, <1>16 DEF Flow, ReadActiveRows, Goes, Requests, Calls
  <1>17. ASSUME NEW a \in Admins, RewriteRows(a) PROVE Flow'
    BY <1>1, <1>2, <1>3, <1>17 DEF Flow, RewriteRows, Goes, Ends, Request, NoRequest,
       Requests, Calls
  <1>18. ASSUME NEW a \in Admins, GiveUp(a) PROVE Flow'
    BY <1>1, <1>2, <1>3, <1>18 DEF Flow, GiveUp, Goes, Ends, Request, NoRequest, Busy,
       Requests, Calls
  <1>19. CASE UNCHANGED <<kind, pay, calls>>
    BY <1>19 DEF Flow, calls
  <1> QED
    BY <1>4, <1>5, <1>6, <1>7, <1>8, <1>9, <1>10, <1>11, <1>12, <1>13, <1>14, <1>15,
       <1>16, <1>17, <1>18, <1>19, SelectIsQuiet DEF Next, Quiet, ChallengeMoves

-----------------------------------------------------------------------------
(* Fees                                                                    *)

\* The stored fee belongs to the stored amount.
FeeFits == kind = "ENGAGEMENT" => \A p \in Payments : pay[p].fee = ChallengeFee(pay[p].amount)

\* A payment of nothing carries no fee, as a payment that does not exist.
LEMMA FeeOfNothing == ChallengeFee(0) = 0
  BY BudgetAssumption DEF ChallengeFee, RoundHalfUp

\* At the start there is no fee.
LEMMA FeeInit == Init => FeeFits
  BY FeeOfNothing DEF Init, FeeFits, NoPayment

\* Every write of an engagement payment writes the fee of the amount it writes: the insert
\* of createWinningWithPayments and calculateAdjustedChallengeFee of the edit.
LEMMA FeeStep ==
  ASSUME Types, Flow, FeeFits, [Next]_vars
  PROVE  FeeFits'
  <1> SUFFICES ASSUME kind = "ENGAGEMENT", NEW x \in Payments
               PROVE  pay'[x].fee = ChallengeFee(pay'[x].amount)
    BY KindStays DEF FeeFits
  <1>1. pay \in [Payments -> PaymentRows] /\ pay[x].fee = ChallengeFee(pay[x].amount)
    BY DEF Types, FeeFits
  <1>2. ASSUME NEW p \in Payments, NEW n \in Amounts, Insert(p, n)
        PROVE  pay'[x].fee = ChallengeFee(pay'[x].amount)
    BY <1>1, <1>2 DEF Insert
  <1>3. ASSUME NEW p \in Payments, Commit(p)
        PROVE  pay'[x].fee = ChallengeFee(pay'[x].amount)
    BY <1>1, <1>3 DEF Commit, PaymentRows
  <1>4. ASSUME NEW p \in Payments, RollBack(p)
        PROVE  pay'[x].fee = ChallengeFee(pay'[x].amount)
    BY <1>1, <1>4, FeeOfNothing DEF RollBack, NoPayment
  <1>5. ASSUME NEW p \in Payments, UpdateProcessingState(p)
        PROVE  pay'[x].fee = ChallengeFee(pay'[x].amount)
    BY <1>1, <1>5, PayoutKeepsPayments
  <1>6. ASSUME NEW a \in Admins, CommitEdit(a)
        PROVE  pay'[x].fee = ChallengeFee(pay'[x].amount)
    <2>1. CASE UNCHANGED pay
      BY <1>1, <2>1
    <2>2. CASE /\ pay' = [pay EXCEPT ![req[a].pay] = Edited(pay[req[a].pay], req[a].edit)]
               /\ x = req[a].pay
      <3>1. pay'[x] = Edited(pay[x], req[a].edit)
        BY <1>1, <2>2
      <3> QED BY <1>1, <3>1 DEF Edited, Moved, Priced, EditedFee
    <2>3. CASE /\ pay' = [pay EXCEPT ![req[a].pay] = Edited(pay[req[a].pay], req[a].edit)]
               /\ x # req[a].pay
      BY <1>1, <2>3
    <2> QED BY <1>6, <2>1, <2>2, <2>3 DEF CommitEdit
  <1>7. CASE UNCHANGED pay
    BY <1>1, <1>7
  <1> QED
    BY <1>2, <1>3, <1>4, <1>5, <1>6, <1>7
    DEF Next, vars, Plan, ConsumeEngagement, SumPersisted, WriteBudget, ReadPayment,
        ReadChallenge, SumActive, RewriteBudget, ReadActiveRows, RewriteRows, GiveUp,
        ChallengeMoves, SelectReleasable

\* What an edit writes and what a creation consumes differ by half a cent at most.
LEMMA FeesAreClose ==
  ASSUME Types, FeeFits
  PROVE  RoundingBounded
  <1> SUFFICES ASSUME kind = "ENGAGEMENT", NEW p \in Payments
               PROVE  LedgerAmount(p) - ConsumeAmount(pay[p].amount) \in -50..50
    BY DEF RoundingBounded
  <1> DEFINE n == pay[p].amount * Markup
  <1>1. pay[p].amount \in Nat /\ n \in Nat
    <2>1. pay[p] \in PaymentRows
      BY DEF Types
    <2>2. pay[p].amount \in Amounts \cup {0}
      BY <2>1 DEF PaymentRows
    <2>3. ASSUME NEW m \in Amounts \cup {0} PROVE m \in Nat /\ m * Markup \in Nat
      BY BudgetAssumption
    <2> QED BY <2>2, <2>3
  <1>2. pay[p].fee = RoundHalfUp(n, 10000)
    BY DEF FeeFits, ChallengeFee
  <1>3. LedgerAmount(p) = 100 * (pay[p].amount + RoundHalfUp(n, 10000))
    BY <1>2 DEF LedgerAmount
  <1>4. ConsumeAmount(pay[p].amount) = 100 * pay[p].amount + RoundHalfUp(n, 100)
    BY DEF ConsumeAmount
  <1> HIDE DEF n
  <1>5. /\ 100 * RoundHalfUp(n, 10000) - RoundHalfUp(n, 100) \in -50..50
        /\ RoundHalfUp(n, 10000) \in Nat
        /\ RoundHalfUp(n, 100) \in Nat
    BY <1>1, RoundsAgree, RoundType
  <1> QED BY <1>1, <1>3, <1>4, <1>5

-----------------------------------------------------------------------------
(* Consumed rows                                                           *)

\* The payments for which a row has been consumed and not deleted since.
Funded == (Billed \cup {p \in Payments : pc[p] = "synced"}) \ unbacked

\* Edits that no creation has overlapped know of at least as many rows as are needed.
FundInv ==
  kind = "ENGAGEMENT" =>
    /\ \A a \in clean : pc[a] \in {"summed", "done", "failed"}
    /\ ~missing => /\ Len(rows) >= Cardinality(Funded)
                  /\ \A a \in clean : pc[a] = "summed" =>
                                        Len(req[a].rows) >= Cardinality(Funded)

\* There are finitely many payments that should have a row.
LEMMA FundedFinite ==
  /\ Funded \subseteq Payments
  /\ IsFiniteSet(Funded)
  /\ Cardinality(Funded) \in Nat
  BY ActiveFinite DEF Funded, Billed, Active

\* At the start no payment needs a row.
LEMMA FundInit == Init => FundInv
  <1> SUFFICES ASSUME Init PROVE FundInv
    OBVIOUS
  <1>1. Funded = {} /\ clean = {} /\ rows = << >>
    BY DEF Init, Funded, Billed, Active, NoPayment, Calls
  <1>2. Cardinality(Funded) = 0
    BY <1>1, FS_EmptySet
  <1> QED BY <1>1, <1>2 DEF FundInv

\* A step that funds no other payment keeps enough rows.
LEMMA FundKept ==
  ASSUME Types, FundInv, kind = "ENGAGEMENT", UNCHANGED <<rows, clean>>, missing => missing',
         ~missing' => Funded' \subseteq Funded,
         \A a \in clean :
           /\ pc'[a] \in {"summed", "done", "failed"}
           /\ pc'[a] = "summed" => pc[a] = "summed" /\ req'[a].rows = req[a].rows
  PROVE  FundInv'
  <1> SUFFICES ASSUME ~missing'
               PROVE  /\ Len(rows) >= Cardinality(Funded)'
                      /\ \A a \in clean : pc'[a] = "summed" =>
                                            Len(req'[a].rows) >= Cardinality(Funded)'
    BY DEF FundInv
  <1> PICK V : rows \in Seq(V) /\ req \in [Calls -> Requests(V)]
    BY DEF Types
  <1>1. Cardinality(Funded') <= Cardinality(Funded)
    BY FundedFinite, FS_Subset
  <1>2. Funded' \subseteq Payments
    BY DEF Funded, Billed, Active
  <1> DEFINE n == Cardinality(Funded)
             m == Cardinality(Funded')
  <1>3. n \in Nat /\ m \in Nat /\ m <= n
    BY <1>1, <1>2, FundedFinite, ActiveFinite
  <1>4. Len(rows) \in Nat /\ \A a \in clean : Len(req[a].rows) \in Nat
    BY DEF Types, Requests, Calls
  <1>5. Len(rows) >= n /\ \A a \in clean : pc[a] = "summed" => Len(req[a].rows) >= n
    BY DEF FundInv
  <1> HIDE DEF n, m
  <1>6. Len(rows) >= m
    BY <1>3, <1>4, <1>5
  <1>7. ASSUME NEW a \in clean, pc'[a] = "summed"
        PROVE  Len(req'[a].rows) >= m
    <2>1. pc[a] = "summed" /\ req'[a].rows = req[a].rows
      BY <1>7
    <2> QED BY <1>3, <1>4, <1>5, <2>1
  <1> QED BY <1>6, <1>7 DEF m

\* An edit bills no other payment unless it raises one from zero.
LEMMA EditBills ==
  ASSUME Types, Flow, kind = "ENGAGEMENT", NEW a \in Admins, CommitEdit(a)
  PROVE  /\ unbacked \subseteq unbacked'
         /\ Billed' \ unbacked' \subseteq Billed \ unbacked
  <1> DEFINE p == req[a].pay
             e == req[a].edit
  <1>1. p \in Payments /\ pay \in [Payments -> PaymentRows]
    BY DEF Types, Flow, CommitEdit
  <1>2. e \in Amounts \cup {Cancel, Nothing}
    BY DEF Types, Calls, Requests
  <1>3. CASE UNCHANGED <<pay, unbacked>>
    BY <1>3 DEF Billed, Active, LedgerAmount
  <1>4. CASE /\ e # Nothing /\ pay' = [pay EXCEPT ![p] = Edited(pay[p], e)]
             /\ ~Raises(p, e) /\ unbacked' = unbacked
    <2>1. \A x \in Payments \ {p} : pay'[x] = pay[x]
      BY <1>1, <1>4
    <2>2. pay'[p] = Edited(pay[p], e)
      BY <1>1, <1>4
    <2>3. p \in Billed' => p \in Billed
      <3> SUFFICES ASSUME p \in Billed' PROVE p \in Billed
        OBVIOUS
      <3>1. e # Cancel
        BY <2>2 DEF Billed, Active, Edited, Moved
      <3>2. e \in Amounts /\ e \in Nat
        BY <1>2, <1>4, <3>1, BudgetAssumption
      <3>3. pay'[p] = Priced(pay[p], e, EditedFee(pay[p], e))
        BY <2>2, <3>1 DEF Edited
      <3>4. p \in Active
        BY <3>3 DEF Billed, Active, Priced
      <3>5. pay[p].amount \in Nat /\ pay[p].fee \in Nat
        <4>1. pay[p] \in PaymentRows
          BY <1>1
        <4>2. pay[p].amount \in Amounts \cup {0} /\ pay[p].fee \in Nat
          BY <4>1 DEF PaymentRows
        <4>3. \A m \in Amounts \cup {0} : m \in Nat
          BY BudgetAssumption
        <4> QED BY <4>2, <4>3
      <3>6. pay[p].amount # 0
        <4> SUFFICES ASSUME pay[p].amount = 0 PROVE FALSE
          OBVIOUS
        <4>1. e = 0
          BY <1>4, <3>2 DEF Raises
        <4>2. pay'[p].amount = 0 /\ pay'[p].fee = 0
          BY <3>3, <4>1, FeeOfNothing DEF Priced, EditedFee
        <4> QED BY <4>2 DEF Billed, LedgerAmount
      <3> QED BY <3>4, <3>5, <3>6 DEF Billed, LedgerAmount
    <2> QED BY <1>4, <2>1, <2>3 DEF Billed, Active, LedgerAmount
  <1>5. CASE pay' = [pay EXCEPT ![p] = Edited(pay[p], e)] /\ unbacked' = unbacked \cup {p}
    <2>1. \A x \in Payments \ {p} : pay'[x] = pay[x]
      BY <1>1, <1>5
    <2> QED BY <1>5, <2>1 DEF Billed, Active, LedgerAmount
  <1> QED BY <1>3, <1>4, <1>5 DEF CommitEdit

\* Every step keeps a row for every payment that should have one.
LEMMA FundStep ==
  ASSUME Types, Flow, FundInv, [Next]_vars
  PROVE  FundInv'
  <1> SUFFICES ASSUME kind = "ENGAGEMENT" PROVE FundInv'
    BY KindStays DEF FundInv
  <1> PICK V : rows \in Seq(V) /\ req \in [Calls -> Requests(V)]
    BY DEF Types
  <1>1. /\ pc \in [Calls -> Steps]
        /\ pay \in [Payments -> PaymentRows]
        /\ Payments \cap Admins = {}
        /\ clean \subseteq Admins
    BY BudgetAssumption DEF Types
  <1>2. \A a \in clean : pc[a] \in {"summed", "done", "failed"}
    BY DEF FundInv
  <1> DEFINE n == Cardinality(Funded)
  <1>3. n \in Nat
    BY FundedFinite
  <1>4. ASSUME NEW p \in Payments, ConsumeEngagement(p) PROVE FundInv'
    <2>1. Funded' \subseteq Funded \cup {p}
      BY <1>1, <1>4 DEF ConsumeEngagement, Goes, Funded, Billed, Active, LedgerAmount, Calls
    <2>2. Cardinality(Funded') <= n + 1 /\ Cardinality(Funded') \in Nat
      <3>1. IsFiniteSet(Funded)
        BY FundedFinite
      <3>2. Cardinality(Funded \cup {p}) \in {n, n + 1} /\ IsFiniteSet(Funded \cup {p})
        BY <3>1, FS_AddElement
      <3>3. Cardinality(Funded') <= Cardinality(Funded \cup {p}) /\ IsFiniteSet(Funded')
        BY <2>1, <3>2, FS_Subset
      <3>4. Cardinality(Funded') \in Nat
        BY <3>3, FS_CardinalityType
      <3> HIDE DEF n
      <3> QED BY <1>3, <3>2, <3>3, <3>4
    <2>3. Len(rows') = Len(rows) + 1 /\ Len(rows) \in Nat
      <3> DEFINE x == ConsumeAmount(pay[p].amount)
      <3>1. rows' = Append(rows, x)
        BY <1>4 DEF ConsumeEngagement
      <3>2. rows \in Seq(V \cup {x})
        BY SeqGrows
      <3> HIDE DEF x
      <3> QED BY <3>1, <3>2
    <2>4. clean' = {} /\ missing' = missing /\ kind' = kind
      BY <1>4 DEF ConsumeEngagement
    <2>5. ~missing => Len(rows) >= n
      BY DEF FundInv
    <2> HIDE DEF n
    <2> QED BY <1>3, <2>2, <2>3, <2>4, <2>5 DEF FundInv
  <1>5. ASSUME NEW a \in Admins, ReadActiveRows(a) PROVE FundInv'
    <2>1. pc[a] = "committed" /\ pc' = [pc EXCEPT ![a] = "summed"]
          /\ UNCHANGED <<kind, rows, missing, unbacked, pay>>
          /\ req' = [req EXCEPT ![a].rows = ActiveRows]
      BY <1>5 DEF ReadActiveRows, Goes, ledger
    <2>2. Funded' = Funded /\ a \notin clean
      BY <1>1, <1>2, <2>1 DEF Funded, Billed, Active, LedgerAmount, Calls
    <2>3. CASE clean' = clean
      BY <1>1, <1>2, <2>1, <2>2, <2>3, FundKept DEF Calls
    <2>4. CASE clean' = clean \cup {a} /\ Funded \subseteq Billed
      <3> DEFINE m == Cardinality(Billed)
      <3>1. m \in Nat /\ n <= m
        BY <2>4, ActiveFinite, FS_Subset DEF Billed, Active
      <3>2. Len(req'[a].rows) >= n
        <4>1. Len(ActiveRows) = m
          BY <3>1 DEF ActiveRows
        <4>2. Len(req'[a].rows) = m
          BY <2>1, <4>1 DEF Calls, Requests
        <4> HIDE DEF n, m
        <4> QED BY <1>3, <3>1, <4>2
      <3>3. \A b \in clean : pc'[b] = pc[b] /\ req'[b] = req[b]
        BY <1>1, <2>1, <2>2 DEF Calls
      <3>4. ~missing => Len(rows) >= n
        BY DEF FundInv
      <3>5. ~missing => \A b \in clean : pc[b] = "summed" => Len(req[b].rows) >= n
        BY DEF FundInv
      <3>6. pc'[a] = "summed"
        BY <1>1, <2>1 DEF Calls
      <3>7. Cardinality(Funded)' = n
        BY <2>2
      <3> HIDE DEF n
      <3>8. \A b \in clean' : pc'[b] \in {"summed", "done", "failed"}
        BY <1>2, <2>4, <3>3, <3>6
      <3>9. ~missing => \A b \in clean' : pc'[b] = "summed" => Len(req'[b].rows) >= n
        BY <1>3, <2>4, <3>2, <3>3, <3>5
      <3>10. ~missing' => Len(rows') >= n
        BY <2>1, <3>4
      <3>11. missing' = missing
        BY <2>1
      <3> QED BY <3>7, <3>8, <3>9, <3>10, <3>11 DEF FundInv
    <2>5. clean' = clean \/ (clean' = clean \cup {a} /\ Funded \subseteq Billed)
      BY <1>1, <1>5 DEF ReadActiveRows, Funded, Calls
    <2> QED BY <2>3, <2>4, <2>5
  <1>6. ASSUME NEW a \in Admins, RewriteRows(a) PROVE FundInv'
    <2>1. pc[a] = "summed" /\ pc' = [pc EXCEPT ![a] = "done"] /\ UNCHANGED <<kind, pay, clean, unbacked>>
          /\ req' = [req EXCEPT ![a] = NoRequest]
      BY <1>6 DEF RewriteRows, Ends, Goes
    <2>2. Funded' = Funded
      BY <1>1, <2>1 DEF Funded, Billed, Active, LedgerAmount, Calls
    <2>3. \A b \in clean : /\ pc'[b] \in {"summed", "done", "failed"}
                           /\ pc'[b] = "summed" => pc[b] = "summed" /\ req'[b] = req[b]
      BY <1>1, <1>2, <2>1 DEF Calls
    <2>4. ~missing => \A b \in clean : pc[b] = "summed" => Len(req[b].rows) >= n
      BY DEF FundInv
    <2>5. ~missing' => Len(rows') >= n
      <3> SUFFICES ASSUME ~missing, a \in clean PROVE Len(rows') >= n
        BY <1>6 DEF RewriteRows
      <3>1. Len(rows) >= n /\ Len(req[a].rows) >= n
        BY <2>1, <2>4 DEF FundInv
      <3>2. req[a].rows \in Seq(V)
        BY DEF Calls, Requests
      <3>3. Len(rows') = IF Len(req[a].rows) < Len(rows) THEN Len(req[a].rows) ELSE Len(rows)
        BY <1>6, <3>2, SyncedRowsFit DEF RewriteRows
      <3> HIDE DEF n
      <3> QED BY <3>1, <3>3
    <2>6. Cardinality(Funded)' = n
      BY <2>2
    <2>7. missing => missing'
      BY <1>6 DEF RewriteRows
    <2> HIDE DEF n
    <2> QED BY <1>2, <2>1, <2>3, <2>4, <2>5, <2>6, <2>7 DEF FundInv
  \* No other step funds a payment.
  <1> DEFINE Kept == /\ UNCHANGED <<rows, clean>>
                     /\ missing => missing'
                     /\ ~missing' => Funded' \subseteq Funded
                     /\ \A a \in clean : pc'[a] = "failed" \/ (pc'[a] = pc[a] /\ req'[a] = req[a])
  <1>7. Kept => FundInv'
    BY <1>2, FundKept
  <1>8. ASSUME NEW p \in Payments, Plan(p) PROVE Kept
    BY <1>1, <1>8 DEF Plan, Starts, ledger, Funded, Billed, Active, LedgerAmount, Calls
  <1>9. ASSUME NEW p \in Payments, NEW m \in Amounts, Insert(p, m) PROVE Kept
    <2>1. req[p].status # "unknown"
      BY DEF Flow
    <2> QED BY <1>1, <1>9, <2>1
            DEF Insert, Goes, ledger, history, Funded, Billed, Active, LedgerAmount, Calls
  <1>10. ASSUME NEW p \in Payments, Commit(p) PROVE Kept
    BY <1>1, <1>10
    DEF Commit, Ends, Goes, ledger, history, Funded, Billed, Active, LedgerAmount, Calls
  <1>11. ASSUME NEW p \in Payments, RollBack(p) PROVE Kept
    BY <1>1, <1>11 DEF RollBack, NoPayment, Ends, Goes, ledger, history, Funded, Billed, Active,
       LedgerAmount, Calls
  <1>12. ASSUME NEW p \in Payments, UpdateProcessingState(p) PROVE Kept
    <2>1. UNCHANGED <<rows, pc, req, clean, missing>>
      BY <1>12, PayoutRevives DEF ledger, calls
    <2>2. \A x \in Payments : LedgerAmount(x)' = LedgerAmount(x)
      BY <1>12, PayoutKeepsPayments DEF LedgerAmount
    <2>3. \/ Active' = Active /\ unbacked' = unbacked
          \/ Active' \subseteq Active \cup {p} /\ unbacked' = unbacked \cup {p}
      BY <1>12, PayoutRevives
    <2>4. Active' \subseteq Payments
      BY DEF Active
    <2> QED BY <2>1, <2>2, <2>3, <2>4 DEF Funded, Billed
  <1>13. ASSUME NEW a \in Admins, NEW p \in Payments, NEW e \in Amounts \cup {Cancel},
                ReadPayment(a, p, e)
         PROVE  Kept
    BY <1>1, <1>2, <1>13
    DEF ReadPayment, Starts, ledger, Funded, Billed, Active, LedgerAmount, Calls
  <1>14. ASSUME NEW a \in Admins, CommitEdit(a) PROVE Kept
    <2>1. unbacked \subseteq unbacked' /\ Billed' \ unbacked' \subseteq Billed \ unbacked
      BY <1>14, EditBills
    <2> QED BY <1>1, <1>2, <1>14, <2>1 DEF CommitEdit, Goes, ledger, Funded, Calls
  <1>15. ASSUME NEW a \in Admins, SumActive(a) PROVE Kept
    BY <1>1, <1>2, <1>15
    DEF SumActive, Goes, ledger, history, Funded, Billed, Active, LedgerAmount, Calls
  <1>16. ASSUME NEW a \in Admins, GiveUp(a) PROVE Kept
    BY <1>1, <1>16
    DEF GiveUp, Ends, Goes, ledger, history, Funded, Billed, Active, LedgerAmount, Calls
  <1>17. ASSUME NEW p \in Payments PROVE ~SumPersisted(p) /\ ~WriteBudget(p)
    BY DEF SumPersisted, WriteBudget, Flow
  <1>18. ASSUME NEW a \in Admins PROVE ~ReadChallenge(a) /\ ~RewriteBudget(a)
    BY DEF ReadChallenge, RewriteBudget
  <1>19. ~ChallengeMoves
    BY DEF ChallengeMoves
  <1>20. Quiet => Kept
    BY DEF Quiet, ledger, calls, history, Funded, Billed, Active, LedgerAmount
  <1> HIDE DEF Kept
  <1> QED
    BY <1>4, <1>5, <1>6, <1>7, <1>8, <1>9, <1>10, <1>11, <1>12, <1>13, <1>14, <1>15,
       <1>16, <1>17,
       <1>18, <1>19, <1>20, SelectIsQuiet
    DEF Next

\* Rows for all that should have one are rows for all committed payments.
LEMMA FundGivesRows ==
  ASSUME Types, FundInv
  PROVE  EngagementFunded
  <1> PICK V : rows \in Seq(V)
    BY DEF Types
  <1>1. Cardinality(Billed \ unbacked) <= Cardinality(Funded)
    BY FundedFinite, FS_Subset DEF Funded
  <1>2. Cardinality(Billed \ unbacked) \in Nat /\ Cardinality(Funded) \in Nat
    BY FundedFinite, ActiveFinite DEF Billed, Active
  <1>3. Len(rows) \in Nat
    OBVIOUS
  <1> QED BY <1>1, <1>2, <1>3 DEF FundInv, EngagementFunded

-----------------------------------------------------------------------------
(* Calls that run alone                                                    *)

LoneInv == \A c \in alone : \A d \in Busy : d = c

\* At the start no call is alone.
LEMMA LoneInit == Init => LoneInv
  BY DEF Init, LoneInv

\* No step makes a call alone that has company.
LEMMA LoneStep ==
  ASSUME Types, LoneInv, [Next]_vars
  PROVE  LoneInv'
  <1>1. pc \in [Calls -> Steps] /\ Payments \subseteq Calls /\ Admins \subseteq Calls
    BY DEF Types, Calls
  <1>2. ASSUME NEW c \in Calls, NEW step \in Steps, NEW r, Starts(c, step, r) PROVE LoneInv'
    <2>1. Busy' \subseteq Busy \cup {c}
      BY <1>1, <1>2 DEF Starts, Busy
    <2> QED BY <1>2, <2>1 DEF Starts, LoneInv
  <1>3. ASSUME Busy' \subseteq Busy, alone' \subseteq alone PROVE LoneInv'
    BY <1>3 DEF LoneInv
  <1>4. ASSUME NEW p \in Payments, Plan(p) PROVE LoneInv'
    BY <1>1, <1>2, <1>4 DEF Plan, Steps
  <1>5. ASSUME NEW a \in Admins, NEW p \in Payments, NEW e \in Amounts \cup {Cancel},
               ReadPayment(a, p, e)
        PROVE  LoneInv'
    BY <1>1, <1>2, <1>5 DEF ReadPayment, Steps
  <1>6. ASSUME NEW c \in Busy, NEW step \in Steps, Goes(c, step), alone' = alone PROVE LoneInv'
    BY <1>1, <1>3, <1>6 DEF Goes, Busy
  <1>7. ASSUME NEW p \in Payments,
               \/ \E n \in Amounts : Insert(p, n)
               \/ ConsumeEngagement(p) \/ SumPersisted(p) \/ WriteBudget(p) \/ Commit(p)
               \/ RollBack(p)
        PROVE  LoneInv'
    <2>1. p \in Busy /\ alone' = alone
      BY <1>1, <1>7
      DEF Insert, ConsumeEngagement, SumPersisted, WriteBudget, Commit, RollBack, Busy, history
    <2>2. \E step \in Steps : Goes(p, step)
      BY <1>7
      DEF Insert, ConsumeEngagement, SumPersisted, WriteBudget, Commit, RollBack, Ends, Steps
    <2> QED BY <1>6, <2>1, <2>2
  <1>8. ASSUME NEW a \in Admins,
               \/ CommitEdit(a) \/ ReadChallenge(a) \/ SumActive(a) \/ RewriteBudget(a)
               \/ ReadActiveRows(a) \/ RewriteRows(a) \/ GiveUp(a)
        PROVE  LoneInv'
    <2>1. a \in Busy /\ alone' = alone
      BY <1>1, <1>8
      DEF CommitEdit, ReadChallenge, SumActive, RewriteBudget, ReadActiveRows, RewriteRows,
          GiveUp, Busy, history
    <2>2. \E step \in Steps : Goes(a, step)
      BY <1>8
      DEF CommitEdit, ReadChallenge, SumActive, RewriteBudget, ReadActiveRows, RewriteRows,
          GiveUp, Ends, Steps
    <2> QED BY <1>6, <2>1, <2>2
  <1>9. ASSUME NEW p \in Payments, UpdateProcessingState(p) PROVE LoneInv'
    <2>1. pc' = pc /\ alone' \subseteq alone
      BY <1>9, PayoutRevives DEF calls
    <2> QED BY <1>3, <2>1 DEF Busy
  <1>10. CASE ChallengeMoves
    BY <1>3, <1>10 DEF ChallengeMoves, calls, Busy
  <1>11. CASE Quiet
    BY <1>3, <1>11 DEF Quiet, calls, history, Busy
  <1> QED BY <1>4, <1>5, <1>7, <1>8, <1>9, <1>10, <1>11, SelectIsQuiet DEF Next

\* The billing account takes n from call c.
Taken(c, n) ==
  /\ req[c].status \in {"ACTIVE", "COMPLETED", "CANCELLED"}
  /\ ~(req[c].status = "COMPLETED" /\ n = 0)

\* What a lone call has read, and written, is still true.
SumInv ==
  kind = "CHALLENGE" =>
    /\ \A p \in alone \cap Payments :
         /\ pc[p] = "summed" => req[p].sum = Total(VisibleTo(p))
         /\ pc[p] = "synced" /\ Taken(p, Total(VisibleTo(p))) => budget = Total(VisibleTo(p))
    /\ \A a \in alone \cap Admins : pc[a] = "summed" => req[a].sum = Total(Active)

\* At the start no call that is alone has summed up anything.
LEMMA SumInit == Init => SumInv
  BY DEF Init, SumInv

\* lockConsumeAmount takes the amount unless the challenge is new, was not read, or is
\* completed without payments.
LEMMA BudgetTaken ==
  ASSUME NEW c, NEW n, LockConsume(req[c].status, n), Taken(c, n)
  PROVE  budget' = n
  BY DEF LockConsume, Taken

\* What a lone call has summed up, or has written, stays the sum of the active payments: no
\* step of another call comes in between, and a payout that brings a cancelled payment back
\* ends the lone standing of the calls that have read.
LEMMA SumStep ==
  ASSUME Types, Flow, LoneInv, SumInv, [Next]_vars
  PROVE  SumInv'
  <1> SUFFICES ASSUME kind = "CHALLENGE" PROVE SumInv'
    BY KindStays DEF SumInv
  <1> PICK V : req \in [Calls -> Requests(V)]
    BY DEF Types
  <1>1. /\ pc \in [Calls -> Steps]
        /\ pay \in [Payments -> PaymentRows]
        /\ Payments \cap Admins = {}
        /\ Payments \subseteq Calls /\ Admins \subseteq Calls
    BY BudgetAssumption DEF Types, Calls
  \* A call that is not yet, or no longer, between its sum and its end is not spoken of.
  <1>2. ASSUME NEW c \in Calls, alone' \subseteq {c}, pc'[c] \notin {"summed", "synced"}
        PROVE  SumInv'
    BY <1>2 DEF SumInv
  <1>3. ASSUME NEW c \in Busy, alone' = alone PROVE alone' \subseteq {c}
    BY <1>3 DEF LoneInv
  <1>4. ASSUME NEW p \in Payments, Plan(p) PROVE SumInv'
    <2>1. pc'[p] = "planned" /\ alone' \subseteq {p}
      BY <1>1, <1>4 DEF Plan, Starts
    <2> QED BY <1>1, <1>2, <2>1
  <1>5. ASSUME NEW a \in Admins, NEW p \in Payments, NEW e \in Amounts \cup {Cancel},
               ReadPayment(a, p, e)
        PROVE  SumInv'
    <2>1. pc'[a] = "read" /\ alone' \subseteq {a}
      BY <1>1, <1>5 DEF ReadPayment, Starts
    <2> QED BY <1>1, <1>2, <2>1
  <1>6. ASSUME NEW p \in Payments, NEW n \in Amounts, Insert(p, n) PROVE SumInv'
    <2>1. p \in Busy /\ alone' = alone /\ req' = req
      BY <1>1, <1>6 DEF Insert, Busy, history
    <2>2. CASE req[p].status # "unknown"
      BY <1>1, <1>2, <1>3, <1>6, <2>1, <2>2 DEF Insert, Goes
    <2>3. CASE req[p].status = "unknown"
      <3>1. pc'[p] = "synced" /\ alone' \subseteq {p}
        BY <1>1, <1>3, <1>6, <2>1, <2>3 DEF Insert, Goes
      <3>2. ~Taken(p, Total(VisibleTo(p)))'
        BY <2>1, <2>3 DEF Taken
      <3> QED BY <1>1, <3>1, <3>2 DEF SumInv
    <2> QED BY <2>2, <2>3
  <1>7. ASSUME NEW p \in Payments, SumPersisted(p) PROVE SumInv'
    <2>1. p \in Busy /\ alone' \subseteq {p} /\ pc'[p] = "summed"
      BY <1>1, <1>3, <1>7 DEF SumPersisted, Goes, Busy, history
    <2>2. req'[p].sum = Total(VisibleTo(p))
      BY <1>1, <1>7 DEF SumPersisted, Requests
    <2>3. Total(VisibleTo(p))' = Total(VisibleTo(p))
      BY <1>7 DEF SumPersisted, Total, Amount, VisibleTo, Active
    <2> QED BY <1>1, <2>1, <2>2, <2>3 DEF SumInv
  <1>8. ASSUME NEW p \in Payments, WriteBudget(p) PROVE SumInv'
    <2>1. /\ alone' \subseteq {p} /\ alone' = alone
          /\ pc[p] = "summed" /\ pc'[p] = "synced" /\ req' = req
      BY <1>1, <1>3, <1>8 DEF WriteBudget, Goes, Busy, history
    <2>2. Total(VisibleTo(p))' = Total(VisibleTo(p))
      BY <1>8 DEF WriteBudget, Total, Amount, VisibleTo, Active
    <2>3. p \in alone => req[p].sum = Total(VisibleTo(p))
      BY <2>1 DEF SumInv
    <2>4. Taken(p, Total(VisibleTo(p)))' => Taken(p, Total(VisibleTo(p)))
      BY <2>1, <2>2 DEF Taken
    <2>5. p \in alone /\ Taken(p, Total(VisibleTo(p))) => budget' = Total(VisibleTo(p))
      BY <1>8, <2>3, BudgetTaken DEF WriteBudget
    <2> QED BY <1>1, <2>1, <2>2, <2>4, <2>5 DEF SumInv
  <1>9. ASSUME NEW p \in Payments, ConsumeEngagement(p) \/ Commit(p) \/ RollBack(p)
        PROVE  SumInv'
    <2>1. p \in Busy /\ alone' = alone /\ pc'[p] \in {"done", "failed"}
      BY <1>1, <1>9 DEF ConsumeEngagement, Commit, RollBack, Ends, Goes, Busy, history
    <2> QED BY <1>1, <1>2, <1>3, <2>1
  <1>10. ASSUME NEW a \in Admins, SumActive(a) PROVE SumInv'
    <2>1. a \in Busy /\ alone' \subseteq {a} /\ pc'[a] = "summed"
      BY <1>1, <1>3, <1>10 DEF SumActive, Goes, Busy, history
    <2>2. req'[a].sum = Total(Active)
      BY <1>1, <1>10 DEF SumActive, Requests
    <2>3. Total(Active)' = Total(Active)
      BY <1>10 DEF SumActive, Total, Amount, Active
    <2> QED BY <1>1, <2>1, <2>2, <2>3 DEF SumInv
  <1>11. ASSUME NEW a \in Admins,
                \/ CommitEdit(a) \/ ReadChallenge(a) \/ RewriteBudget(a)
                \/ ReadActiveRows(a) \/ RewriteRows(a) \/ GiveUp(a)
         PROVE  SumInv'
    <2>1. /\ a \in Busy
          /\ alone' = alone
          /\ pc'[a] \in {"committed", "planned", "done", "failed"}
      BY <1>1, <1>11
      DEF CommitEdit, ReadChallenge, RewriteBudget, ReadActiveRows, RewriteRows, GiveUp, Ends,
          Goes, Busy, history
    <2> QED BY <1>1, <1>2, <1>3, <2>1
  <1>12. ASSUME NEW p \in Payments, UpdateProcessingState(p) PROVE SumInv'
    <2>1. UNCHANGED <<kind, pc, req, budget>>
      BY <1>12, PayoutRevives DEF ledger, calls
    <2>2. CASE Active' = Active /\ alone' = alone
      <3>1. Amount' = Amount
        BY <1>12, PayoutKeepsPayments DEF Amount
      <3>2. Total(Active)' = Total(Active)
        BY <2>2, <3>1 DEF Total
      <3>3. \A x \in Payments : Total(VisibleTo(x))' = Total(VisibleTo(x))
        BY <2>2, <3>1 DEF Total, VisibleTo
      <3> QED BY <2>1, <2>2, <3>2, <3>3 DEF SumInv, Taken
    <2>3. CASE alone' = {c \in alone : pc[c] \notin {"summed", "synced"}}
      BY <2>1, <2>3 DEF SumInv
    <2> QED BY <1>12, <2>2, <2>3, PayoutRevives
  <1>13. CASE ChallengeMoves
    BY <1>13 DEF ChallengeMoves, SumInv
  <1>14. CASE Quiet
    BY <1>14 DEF Quiet, ledger, calls, history, SumInv, Taken, Total, Amount, VisibleTo, Active
  <1> QED
    BY <1>4, <1>5, <1>6, <1>7, <1>8, <1>9, <1>10, <1>11, <1>12, <1>13, <1>14,
       SelectIsQuiet
    DEF Next

\* The steps that end a call of its own accord.
LEMMA LoneEnd ==
  ASSUME Types, Flow, LoneInv, SumInv, [Next]_vars, NEW c \in alone, kind = "CHALLENGE",
         Finishes(c), Taken(c, Total(Active)')
  PROVE  budget' = Total(Active)'
  <1>1. /\ pc \in [Calls -> Steps]
        /\ pay \in [Payments -> PaymentRows]
        /\ Payments \cap Admins = {}
        /\ Payments \subseteq Calls /\ Admins \subseteq Calls
        /\ c \in Calls
    BY BudgetAssumption DEF Types, Calls
  <1>2. ASSUME NEW p \in Payments, Commit(p) PROVE budget' = Total(Active)'
    <2>1. p = c /\ budget' = budget /\ pc[p] = "synced"
      BY <1>1, <1>2 DEF Commit, Ends, Goes, Finishes, ledger
    <2>2. Amount' = Amount /\ Active' = VisibleTo(p)
      BY <1>1, <1>2 DEF Commit, Amount, Active, VisibleTo, PaymentRows
    <2>3. Total(Active)' = Total(VisibleTo(p))
      BY <2>2 DEF Total
    <2> QED BY <2>1, <2>3 DEF SumInv
  <1>3. ASSUME NEW a \in Admins, RewriteBudget(a) PROVE budget' = Total(Active)'
    <2>1. a = c /\ pc[a] = "summed"
      BY <1>1, <1>3 DEF RewriteBudget, Ends, Goes, Finishes
    <2>2. Total(Active)' = Total(Active)
      BY <1>3 DEF RewriteBudget, Total, Amount, Active
    <2>3. req[a].sum = Total(Active)
      BY <2>1 DEF SumInv
    <2> QED BY <1>3, <2>1, <2>2, <2>3, BudgetTaken DEF RewriteBudget
  <1>4. ASSUME NEW a \in Admins, ReadChallenge(a) PROVE FALSE
    BY <1>1, <1>4 DEF ReadChallenge, Ends, Goes, Finishes, Flow, Taken
  <1> QED
    BY <1>1, <1>2, <1>3, <1>4
    DEF Next, vars, calls, Finishes, Starts, Goes, Ends, Plan, Insert, ConsumeEngagement,
        SumPersisted, WriteBudget, RollBack, SelectReleasable, UpdateProcessingState, ReadPayment,
        CommitEdit, SumActive,
        ReadActiveRows, RewriteRows, GiveUp, ChallengeMoves

-----------------------------------------------------------------------------
(* The order of the payments                                               *)

\* The list of the payments in the database has each of them once.
OrderInv ==
  /\ order \in Seq(Payments)
  /\ \A i, j \in 1..Len(order) : order[i] = order[j] => i = j
  /\ \A p \in Payments : pay[p].status # "none" <=> \E i \in 1..Len(order) : order[i] = p

\* A sequence without its k-th element.
LEMMA RemoveAtSeq ==
  ASSUME NEW S, NEW s \in Seq(S), NEW k \in 1..Len(s)
  PROVE  /\ RemoveAt(s, k) \in Seq(S)
         /\ Len(RemoveAt(s, k)) = Len(s) - 1
         /\ \A i \in 1..Len(s) - 1 : RemoveAt(s, k)[i] = IF i < k THEN s[i] ELSE s[i + 1]
  <1> DEFINE a == SubSeq(s, 1, k - 1)
             b == SubSeq(s, k + 1, Len(s))
  <1>1. a \in Seq(S) /\ Len(a) = k - 1 /\ \A i \in 1..k - 1 : a[i] = s[i]
    OBVIOUS
  <1>2. b \in Seq(S) /\ Len(b) = Len(s) - k /\ \A i \in 1..Len(s) - k : b[i] = s[k + i]
    OBVIOUS
  <1>3. RemoveAt(s, k) = a \o b
    BY DEF RemoveAt
  <1> HIDE DEF a, b
  <1>4. RemoveAt(s, k) \in Seq(S) /\ Len(RemoveAt(s, k)) = Len(s) - 1
    BY <1>1, <1>2, <1>3
  <1>5. ASSUME NEW i \in 1..Len(s) - 1
        PROVE  RemoveAt(s, k)[i] = IF i < k THEN s[i] ELSE s[i + 1]
    <2>1. CASE i < k
      BY <1>1, <1>2, <1>3, <2>1
    <2>2. CASE i >= k
      <3>1. RemoveAt(s, k)[i] = b[i - (k - 1)]
        BY <1>1, <1>2, <1>3, <2>2
      <3>2. i - (k - 1) \in 1..Len(s) - k /\ k + (i - (k - 1)) = i + 1
        BY <2>2
      <3> QED BY <1>2, <2>2, <3>1, <3>2
    <2> QED BY <2>1, <2>2
  <1> QED BY <1>4, <1>5

\* At the start there are no payments.
LEMMA OrderInit == Init => OrderInv
  BY DEF Init, OrderInv, NoPayment

\* A payment in the database has a position.
LEMMA PositionOf ==
  ASSUME OrderInv, NEW p \in Payments, pay[p].status # "none"
  PROVE  Position(p) \in 1..Len(order) /\ order[Position(p)] = p
  <1>1. DOMAIN order = 1..Len(order)
    BY DEF OrderInv
  <1> QED BY <1>1 DEF OrderInv, Position

\* Payments enter the list with the insert and leave it with the rollback.
LEMMA OrderStep ==
  ASSUME Types, Flow, OrderInv, [Next]_vars
  PROVE  OrderInv'
  <1>1. /\ pc \in [Calls -> Steps] /\ pay \in [Payments -> PaymentRows]
        /\ Payments \subseteq Calls
    BY DEF Types, Calls
  <1>2. ASSUME order' = order, \A x \in Payments : pay[x].status # "none" <=> pay'[x].status # "none"
        PROVE  OrderInv'
    BY <1>2 DEF OrderInv
  <1>3. ASSUME NEW p \in Payments, NEW n \in Amounts, Insert(p, n) PROVE OrderInv'
    <2>1. order' = Append(order, p) /\ pay'[p].status = "OPEN"
          /\ \A x \in Payments \ {p} : pay'[x] = pay[x]
      BY <1>1, <1>3 DEF Insert
    <2>2. pay[p].status = "none"
      BY <1>3 DEF Insert, Flow
    <2>3. \A i \in 1..Len(order) : order[i] # p
      BY <2>2 DEF OrderInv
    <2>4. /\ order' \in Seq(Payments) /\ Len(order') = Len(order) + 1 /\ Len(order) \in Nat
          /\ order'[Len(order) + 1] = p /\ \A i \in 1..Len(order) : order'[i] = order[i]
      BY <2>1 DEF OrderInv
    <2>5. \A i, j \in 1..Len(order') : order'[i] = order'[j] => i = j
      BY <2>3, <2>4 DEF OrderInv
    <2>6. ASSUME NEW x \in Payments
          PROVE  pay'[x].status # "none" <=> \E i \in 1..Len(order') : order'[i] = x
      <3>1. CASE x = p
        BY <2>1, <2>4, <3>1
      <3>2. CASE x # p
        BY <2>1, <2>4, <3>2 DEF OrderInv
      <3> QED BY <3>1, <3>2
    <2> QED BY <2>4, <2>5, <2>6 DEF OrderInv
  <1>4. ASSUME NEW p \in Payments, RollBack(p) PROVE OrderInv'
    <2>1. pay'[p].status = "none" /\ \A x \in Payments \ {p} : pay'[x] = pay[x]
      BY <1>1, <1>4 DEF RollBack, NoPayment
    <2>2. CASE pc[p] = "planned"
      <3>1. order' = order /\ pay[p].status = "none"
        BY <1>4, <2>2 DEF RollBack, Flow
      <3> QED BY <1>2, <2>1, <3>1
    <2>3. CASE pc[p] # "planned"
      <3> DEFINE k == Position(p)
      <3>1. pay[p].status # "none"
        BY <1>1, <1>4, <2>3 DEF RollBack, Busy, Flow, Steps
      <3>2. k \in 1..Len(order) /\ order[k] = p
        BY <3>1, PositionOf
      <3>3. order' = RemoveAt(order, k)
        BY <1>4, <2>3 DEF RollBack
      <3> HIDE DEF k
      <3>4. order \in Seq(Payments) /\ Len(order) \in Nat
        BY DEF OrderInv
      <3>5. /\ order' \in Seq(Payments)
            /\ Len(order') = Len(order) - 1
            /\ \A i \in 1..Len(order) - 1 : order'[i] = IF i < k THEN order[i] ELSE order[i + 1]
        BY <3>2, <3>3, <3>4, RemoveAtSeq
      <3>6. ASSUME NEW i \in 1..Len(order'), NEW j \in 1..Len(order'), order'[i] = order'[j]
            PROVE  i = j
        <4> DEFINE a == IF i < k THEN i ELSE i + 1
                   b == IF j < k THEN j ELSE j + 1
        <4>1. a \in 1..Len(order) /\ b \in 1..Len(order) /\ order[a] = order[b]
          BY <3>2, <3>4, <3>5, <3>6
        <4>2. a = b
          BY <4>1 DEF OrderInv
        <4> QED BY <3>2, <3>4, <3>5, <4>2
      <3>7. ASSUME NEW x \in Payments
            PROVE  pay'[x].status # "none" <=> \E i \in 1..Len(order') : order'[i] = x
        <4>1. CASE x = p
          <5> SUFFICES ASSUME NEW i \in 1..Len(order') PROVE order'[i] # p
            BY <2>1, <4>1
          <5> DEFINE a == IF i < k THEN i ELSE i + 1
          <5>1. a \in 1..Len(order) /\ a # k /\ order'[i] = order[a]
            BY <3>2, <3>4, <3>5
          <5> QED BY <3>2, <5>1 DEF OrderInv
        <4>2. ASSUME x # p, NEW i \in 1..Len(order), order[i] = x
              PROVE  \E j \in 1..Len(order') : order'[j] = x
          <5>1. i # k
            BY <3>2, <4>2
          <5>2. CASE i < k
            BY <3>2, <3>4, <3>5, <4>2, <5>2
          <5>3. CASE i > k
            <6>1. i - 1 \in 1..Len(order') /\ ~(i - 1 < k) /\ (i - 1) + 1 = i
              BY <3>2, <3>4, <3>5, <5>3
            <6> QED BY <3>5, <4>2, <6>1
          <5> QED BY <3>2, <5>1, <5>2, <5>3
        <4>3. ASSUME x # p, NEW j \in 1..Len(order'), order'[j] = x
              PROVE  \E i \in 1..Len(order) : order[i] = x
          BY <3>2, <3>4, <3>5, <4>3
        <4>4. CASE x # p
          BY <2>1, <4>2, <4>3, <4>4 DEF OrderInv
        <4> QED BY <4>1, <4>4
      <3> QED BY <3>5, <3>6, <3>7 DEF OrderInv
    <2> QED BY <2>2, <2>3
  <1>5. ASSUME NEW p \in Payments, Commit(p) PROVE OrderInv'
    BY <1>1, <1>2, <1>5 DEF Commit, Flow, PaymentRows
  <1>6. ASSUME NEW p \in Payments, UpdateProcessingState(p) PROVE OrderInv'
    <2>1. \A x \in Payments : pay[x].status # "none" <=> pay'[x].status # "none"
      <3> SUFFICES ASSUME NEW x \in Payments PROVE pay[x].status # "none" <=> pay'[x].status # "none"
        OBVIOUS
      <3>1. /\ pay[x].status \in {"none", "OPEN"} <=> pay'[x].status \in {"none", "OPEN"}
            /\ pay[x].status \in {"none", "OPEN"} => pay'[x] = pay[x]
        BY <1>6, PayoutKeepsPayments
      <3> QED BY <3>1
    <2> QED BY <1>2, <1>6, <2>1 DEF UpdateProcessingState
  <1>7. ASSUME NEW a \in Admins, CommitEdit(a) PROVE OrderInv'
    <2>1. \A x \in Payments : pay[x].status # "none" <=> pay'[x].status # "none"
      BY <1>7, EditKeepsPayments
    <2> QED BY <1>2, <1>7, <2>1 DEF CommitEdit
  <1>8. CASE UNCHANGED <<pay, order>>
    BY <1>2, <1>8
  <1> QED
    BY <1>3, <1>4, <1>5, <1>6, <1>7, <1>8
    DEF Next, vars, Plan, ConsumeEngagement, SumPersisted, WriteBudget, ReadPayment,
        ReadChallenge, SumActive, RewriteBudget, ReadActiveRows, RewriteRows, GiveUp,
        ChallengeMoves, SelectReleasable

\* In a finite set of things at different positions, there is exactly one that has n of
\* them at or before its own position.
LEMMA ByRank ==
  ASSUME NEW S, IsFiniteSet(S), NEW pos, \A p \in S : pos[p] \in Int,
         \A p, q \in S : pos[p] = pos[q] => p = q
  PROVE  /\ \A n \in 1..Cardinality(S) :
              \E p \in S : Cardinality({q \in S : pos[q] <= pos[p]}) = n
         /\ \A p \in S : Cardinality({q \in S : pos[q] <= pos[p]}) \in 1..Cardinality(S)
         /\ \A p, q \in S : Cardinality({x \in S : pos[x] <= pos[p]}) =
                              Cardinality({x \in S : pos[x] <= pos[q]}) => p = q
         /\ \A p, q \in S : pos[p] < pos[q] => Cardinality({x \in S : pos[x] <= pos[p]}) <
                                                Cardinality({x \in S : pos[x] <= pos[q]})
  <1> DEFINE Down(p) == {q \in S : pos[q] <= pos[p]}
             r == [p \in S |-> Cardinality(Down(p))]
             N == Cardinality(S)
  <1>1. ASSUME NEW p \in S
        PROVE  IsFiniteSet(Down(p)) /\ Cardinality(Down(p)) \in 1..N
    <2>1. IsFiniteSet(Down(p)) /\ Cardinality(Down(p)) <= N
      BY FS_Subset
    <2>2. Cardinality(Down(p)) \in Nat /\ N \in Nat
      BY <2>1, FS_CardinalityType
    <2>3. Down(p) # {}
      OBVIOUS
    <2>4. Cardinality(Down(p)) # 0
      <3> HIDE DEF Down
      <3> QED BY <2>1, <2>3, FS_EmptySet
    <2> HIDE DEF Down, N
    <2> QED BY <2>1, <2>2, <2>4
  <1>2. ASSUME NEW p \in S, NEW q \in S, pos[p] < pos[q]
        PROVE  Cardinality(Down(p)) < Cardinality(Down(q))
    <2>1. Down(p) \subseteq Down(q) /\ q \in Down(q) \ Down(p)
      BY <1>2
    <2>3. Down(p) \in SUBSET Down(q) /\ Down(p) # Down(q)
      BY <2>1
    <2> HIDE DEF Down, N
    <2>2. IsFiniteSet(Down(q)) /\ Cardinality(Down(q)) \in Nat /\ Cardinality(Down(p)) \in Nat
      BY <1>1
    <2>4. Cardinality(Down(p)) <= Cardinality(Down(q))
          /\ (Cardinality(Down(p)) = Cardinality(Down(q)) => Down(p) = Down(q))
      BY <2>2, <2>3, FS_Subset
    <2> QED BY <2>2, <2>3, <2>4
  <1>3. ASSUME NEW p \in S, NEW q \in S, Cardinality(Down(p)) = Cardinality(Down(q))
        PROVE  p = q
    <2>1. Cardinality(Down(p)) \in Nat /\ Cardinality(Down(q)) \in Nat
      BY <1>1
    <2>2. ~(pos[p] < pos[q]) /\ ~(pos[q] < pos[p])
      <3> HIDE DEF Down
      <3> QED BY <1>2, <1>3, <2>1
    <2>3. pos[p] = pos[q]
      BY <2>2
    <2> QED BY <2>3
  <1>4. r \in Surjection(S, 1..N)
    <2>1. r \in [S -> 1..N]
      <3> HIDE DEF Down, N
      <3> QED BY <1>1
    <2>2. \A p, q \in S : r[p] = r[q] => p = q
      <3> HIDE DEF Down
      <3> QED BY <1>3
    <2>3. r \in Injection(S, 1..N)
      <3> HIDE DEF r, N
      <3> QED BY <2>1, <2>2 DEF Injection, IsInjective
    <2>4. N \in Nat
      BY FS_CardinalityType
    <2> HIDE DEF r
    <2>5. IsFiniteSet(1..N) /\ Cardinality(1..N) = N
      <3> HIDE DEF N
      <3> QED BY <2>4, FS_Interval
    <2> QED BY <2>3, <2>5, FS_Injection
  <1>5. ASSUME NEW n \in 1..N PROVE \E p \in S : Cardinality(Down(p)) = n
    <2>1. \A y \in 1..N : \E x \in S : r[x] = y
      <3> HIDE DEF r, N
      <3> QED BY <1>4 DEF Surjection
    <2>2. PICK x \in S : r[x] = n
      <3> HIDE DEF r, N
      <3> QED BY <2>1
    <2> QED BY <2>2
  <1> QED BY <1>1, <1>2, <1>3, <1>5

\* The n-th oldest of some payments in the database.
LEMMA OldestOf ==
  ASSUME OrderInv, NEW S \in SUBSET Payments, \A p \in S : pay[p].status # "none"
  PROVE  /\ \A n \in 1..Cardinality(S) :
              /\ Oldest(S, n) \in S
              /\ Cardinality({q \in S : Position(q) <= Position(Oldest(S, n))}) = n
         /\ \A p \in S : /\ Cardinality({q \in S : Position(q) <= Position(p)}) \in 1..Cardinality(S)
                         /\ Oldest(S, Cardinality({q \in S : Position(q) <= Position(p)})) = p
         /\ \A p, q \in S :
              Position(p) < Position(q) => Cardinality({x \in S : Position(x) <= Position(p)}) <
                                           Cardinality({x \in S : Position(x) <= Position(q)})
  <1> DEFINE pos == [p \in S |-> Position(p)]
             Down(p) == {q \in S : pos[q] <= pos[p]}
             Before(p) == {q \in S : Position(q) <= Position(p)}
  <1>1. IsFiniteSet(S)
    BY ActiveFinite
  <1>2. \A p \in S : pos[p] \in Int /\ order[pos[p]] = p
    BY PositionOf
  <1>3. \A p \in S : pos[p] \in Int
    BY <1>2
  <1>4. \A p, q \in S : pos[p] = pos[q] => p = q
    BY <1>2
  <1>5. \A p \in S : Down(p) = Before(p)
    OBVIOUS
  <1> HIDE DEF pos
  <1>6. /\ \A n \in 1..Cardinality(S) : \E p \in S : Cardinality(Down(p)) = n
        /\ \A p \in S : Cardinality(Down(p)) \in 1..Cardinality(S)
        /\ \A p, q \in S : Cardinality(Down(p)) = Cardinality(Down(q)) => p = q
        /\ \A p, q \in S : pos[p] < pos[q] => Cardinality(Down(p)) < Cardinality(Down(q))
    BY <1>1, <1>3, <1>4, ByRank
  <1>7. \A p \in S : pos[p] = Position(p)
    BY DEF pos
  <1>8. \A n : Oldest(S, n) = CHOOSE p \in S : Cardinality(Before(p)) = n
    BY DEF Oldest
  <1> HIDE DEF Down, Before
  <1>9. ASSUME NEW n \in 1..Cardinality(S)
        PROVE  Oldest(S, n) \in S /\ Cardinality(Before(Oldest(S, n))) = n
    <2>1. \E p \in S : Cardinality(Before(p)) = n
      BY <1>5, <1>6
    <2> QED BY <1>8, <2>1
  <1>10. ASSUME NEW p \in S
         PROVE  Cardinality(Before(p)) \in 1..Cardinality(S) /\ Oldest(S, Cardinality(Before(p))) = p
    <2>1. Cardinality(Before(p)) \in 1..Cardinality(S)
      BY <1>5, <1>6
    <2>2. Oldest(S, Cardinality(Before(p))) \in S
          /\ Cardinality(Before(Oldest(S, Cardinality(Before(p))))) = Cardinality(Before(p))
      BY <1>9, <2>1
    <2> QED BY <1>5, <1>6, <2>1, <2>2
  <1>11. ASSUME NEW p \in S, NEW q \in S, Position(p) < Position(q)
         PROVE  Cardinality(Before(p)) < Cardinality(Before(q))
    BY <1>5, <1>6, <1>7, <1>11
  <1> QED BY <1>9, <1>10, <1>11 DEF Before

\* The rows of an edit stay the same while no payment changes its place, its amount, its
\* fee or whether it is billed.
LEMMA ActiveRowsSame ==
  ASSUME OrderInv, order' = order, Billed' = Billed,
         \A p \in Billed : LedgerAmount(p)' = LedgerAmount(p)
  PROVE  ActiveRows' = ActiveRows
  <1>1. Billed \in SUBSET Payments /\ \A p \in Billed : pay[p].status # "none"
    BY DEF Billed, Active
  <1>2. \A n \in 1..Cardinality(Billed) : Oldest(Billed, n) \in Billed
    BY <1>1, OldestOf
  <1>3. \A p : Position(p)' = Position(p)
    BY DEF Position
  <1>4. \A n : Oldest(Billed, n)' = Oldest(Billed, n)
    BY <1>3 DEF Oldest
  <1>5. \A n \in 1..Cardinality(Billed) : LedgerAmount(Oldest(Billed, n))' = LedgerAmount(Oldest(Billed, n))
    BY <1>2, <1>4 DEF LedgerAmount
  <1> QED BY <1>5 DEF ActiveRows

\* A payout that brings no payment back leaves the rows alone.
LEMMA PayoutKeepsRows ==
  ASSUME Types, OrderInv, NEW p \in Payments, UpdateProcessingState(p), Active' = Active
  PROVE  ActiveRows' = ActiveRows
  <1>1. \A x \in Payments : LedgerAmount(x)' = LedgerAmount(x)
    BY PayoutKeepsPayments DEF LedgerAmount
  <1>2. Billed' = Billed
    BY <1>1 DEF Billed, Active
  <1>3. order' = order
    BY DEF UpdateProcessingState
  <1> QED BY <1>1, <1>2, <1>3, ActiveRowsSame DEF Billed, Active

\* The rows that an edit without company has read are still those of the payments.
LoneRowsInv ==
  kind = "ENGAGEMENT" =>
    /\ \A a \in Admins : pc[a] # "planned"
    /\ \A a \in alone \cap Admins : pc[a] = "summed" => req[a].rows = ActiveRows

\* At the start no edit has read anything.
LEMMA LoneRowsInit == Init => LoneRowsInv
  BY DEF Init, LoneRowsInv, Calls

\* No step of another call comes in between, and a payout changes none of the rows or ends
\* the lone standing.
LEMMA LoneRowsStep ==
  ASSUME Types, Flow, LoneInv, OrderInv, LoneRowsInv, [Next]_vars
  PROVE  LoneRowsInv'
  <1> SUFFICES ASSUME kind = "ENGAGEMENT" PROVE LoneRowsInv'
    BY KindStays DEF LoneRowsInv
  <1> PICK V : req \in [Calls -> Requests(V)]
    BY DEF Types
  <1>1. /\ pc \in [Calls -> Steps]
        /\ Payments \cap Admins = {}
        /\ Payments \subseteq Calls /\ Admins \subseteq Calls
    BY BudgetAssumption DEF Types, Calls
  <1>2. ASSUME NEW c \in Calls, alone' \subseteq {c}, NEW step \in Steps, pc' = [pc EXCEPT ![c] = step],
               c \in Payments \/ step \notin {"planned", "summed"}
        PROVE  LoneRowsInv'
    BY <1>1, <1>2 DEF LoneRowsInv
  <1>3. ASSUME NEW c \in Busy, alone' = alone PROVE alone' \subseteq {c}
    BY <1>3 DEF LoneInv
  <1>4. ASSUME NEW p \in Payments, Plan(p) PROVE LoneRowsInv'
    BY <1>1, <1>2, <1>4 DEF Plan, Starts, Steps
  <1>5. ASSUME NEW a \in Admins, NEW p \in Payments, NEW e \in Amounts \cup {Cancel},
               ReadPayment(a, p, e)
        PROVE  LoneRowsInv'
    BY <1>1, <1>2, <1>5 DEF ReadPayment, Starts, Steps
  <1>6. ASSUME NEW p \in Payments,
               \/ \E n \in Amounts : Insert(p, n)
               \/ ConsumeEngagement(p) \/ SumPersisted(p) \/ WriteBudget(p) \/ Commit(p)
               \/ RollBack(p)
        PROVE  LoneRowsInv'
    <2>1. p \in Busy /\ alone' = alone
      BY <1>1, <1>6
      DEF Insert, ConsumeEngagement, SumPersisted, WriteBudget, Commit, RollBack, Busy, history
    <2>2. \E step \in Steps : pc' = [pc EXCEPT ![p] = step]
      BY <1>6
      DEF Insert, ConsumeEngagement, SumPersisted, WriteBudget, Commit, RollBack, Ends, Goes, Steps
    <2> QED BY <1>1, <1>2, <1>3, <2>1, <2>2
  <1>7. ASSUME NEW a \in Admins,
               \/ CommitEdit(a) \/ ReadChallenge(a) \/ RewriteBudget(a) \/ RewriteRows(a) \/ GiveUp(a)
        PROVE  LoneRowsInv'
    <2>1. a \in Busy /\ alone' = alone
      BY <1>1, <1>7
      DEF CommitEdit, ReadChallenge, RewriteBudget, RewriteRows, GiveUp, Busy, history
    <2>2. \E step \in Steps \ {"planned", "summed"} : pc' = [pc EXCEPT ![a] = step]
      BY <1>7
      DEF CommitEdit, ReadChallenge, RewriteBudget, RewriteRows, GiveUp, Ends, Goes, Steps
    <2> QED BY <1>1, <1>2, <1>3, <2>1, <2>2
  <1>8. ASSUME NEW a \in Admins, SumActive(a) PROVE FALSE
    BY <1>8 DEF SumActive, LoneRowsInv
  <1>9. ASSUME NEW a \in Admins, ReadActiveRows(a) PROVE LoneRowsInv'
    <2>1. a \in Busy /\ alone' = alone /\ pc' = [pc EXCEPT ![a] = "summed"]
      BY <1>1, <1>9 DEF ReadActiveRows, Goes, Busy
    <2>2. req'[a].rows = ActiveRows
      BY <1>1, <1>9 DEF ReadActiveRows, Requests
    <2>3. ActiveRows' = ActiveRows
      <3>1. order' = order /\ pay' = pay
        BY <1>9 DEF ReadActiveRows
      <3>2. Billed' = Billed /\ \A p \in Billed : LedgerAmount(p)' = LedgerAmount(p)
        BY <3>1 DEF Billed, Active, LedgerAmount
      <3> QED BY <3>1, <3>2, ActiveRowsSame
    <2>4. alone' \subseteq {a}
      BY <1>3, <2>1
    <2> QED BY <1>1, <2>1, <2>2, <2>3, <2>4 DEF LoneRowsInv
  <1>10. ASSUME NEW p \in Payments, UpdateProcessingState(p) PROVE LoneRowsInv'
    <2>1. UNCHANGED <<kind, pc, req>>
      BY <1>10, PayoutRevives DEF calls
    <2>2. CASE Active' = Active /\ alone' = alone
      BY <1>10, <2>1, <2>2, PayoutKeepsRows DEF LoneRowsInv
    <2>3. CASE alone' = {c \in alone : pc[c] \notin {"summed", "synced"}}
      BY <2>1, <2>3 DEF LoneRowsInv
    <2> QED BY <1>10, <2>2, <2>3, PayoutRevives
  <1>11. ~ChallengeMoves
    BY DEF ChallengeMoves
  <1>12. CASE Quiet
    <2>1. UNCHANGED <<kind, alone, pc, req, order, pay>>
      BY <1>12 DEF Quiet, calls, history
    <2>2. Billed' = Billed /\ \A p \in Billed : LedgerAmount(p)' = LedgerAmount(p)
      BY <2>1 DEF Billed, Active, LedgerAmount
    <2>3. ActiveRows' = ActiveRows
      BY <2>1, <2>2, ActiveRowsSame
    <2> QED BY <2>1, <2>3 DEF LoneRowsInv
  <1> QED BY <1>4, <1>5, <1>6, <1>7, <1>8, <1>9, <1>10, <1>11, <1>12,
       SelectIsQuiet
    DEF Next

\* An edit of an assignment ends of its own accord with the write of the rows.
LEMMA LoneEditEnd ==
  ASSUME Types, Flow, OrderInv, LoneRowsInv, [Next]_vars, NEW a \in alone \cap Admins,
         kind = "ENGAGEMENT", Finishes(a)
  PROVE  rows' = SubSeq(ActiveRows', 1, IF Len(rows) < Cardinality(Billed)
                                        THEN Len(rows) ELSE Cardinality(Billed))
  <1>1. /\ pc \in [Calls -> Steps]
        /\ Payments \cap Admins = {}
        /\ Payments \subseteq Calls /\ Admins \subseteq Calls
    BY BudgetAssumption DEF Types, Calls
  <1>2. RewriteRows(a)
    <2>1. ASSUME NEW p \in Payments, Commit(p) PROVE FALSE
      BY <1>1, <2>1 DEF Commit, Ends, Goes, Finishes
    <2>2. ASSUME NEW b \in Admins, ReadChallenge(b) \/ RewriteBudget(b) PROVE FALSE
      BY <2>2 DEF ReadChallenge, RewriteBudget
    <2>3. ASSUME NEW b \in Admins, RewriteRows(b) PROVE b = a
      BY <1>1, <2>3 DEF RewriteRows, Ends, Goes, Finishes
    <2> QED
      BY <1>1, <2>1, <2>2, <2>3
      DEF Next, vars, calls, Finishes, Starts, Goes, Ends, Plan, Insert, ConsumeEngagement,
          SumPersisted, WriteBudget, RollBack, SelectReleasable, UpdateProcessingState, ReadPayment,
        CommitEdit, SumActive,
          ReadActiveRows, GiveUp, ChallengeMoves
  <1>3. req[a].rows = ActiveRows
    BY <1>2 DEF RewriteRows, LoneRowsInv
  <1>4. ActiveRows' = ActiveRows
    <2>1. order' = order /\ pay' = pay
      BY <1>2 DEF RewriteRows
    <2>2. Billed' = Billed /\ \A p \in Billed : LedgerAmount(p)' = LedgerAmount(p)
      BY <2>1 DEF Billed, Active, LedgerAmount
    <2> QED BY <2>1, <2>2, ActiveRowsSame
  <1>5. Cardinality(Billed) \in Nat
    BY ActiveFinite DEF Billed, Active
  <1>6. Len(ActiveRows) = Cardinality(Billed)
    BY <1>5 DEF ActiveRows
  <1>7. rows' = SubSeq(ActiveRows, 1, IF Len(ActiveRows) < Len(rows) THEN Len(ActiveRows)
                                                                    ELSE Len(rows))
    BY <1>2, <1>3 DEF RewriteRows, SyncedRows
  <1>8. Len(rows) \in Nat
    BY DEF Types
  <1> DEFINE n == Cardinality(Billed)
  <1>9. (IF n < Len(rows) THEN n ELSE Len(rows)) = (IF Len(rows) < n THEN Len(rows) ELSE n)
    <2> HIDE DEF n
    <2>1. n \in Nat
      BY <1>5 DEF n
    <2> QED BY <1>8, <2>1
  <1> QED BY <1>4, <1>6, <1>7, <1>9

\* If what is billed comes before all else, the n-th payment that the backfill script counts
\* is the n-th that is billed.
LEMMA SameOldest ==
  ASSUME OrderInv,
         \A i, j \in DOMAIN FinanceRows :
           i < j /\ FinanceRows[j] \in Billed => FinanceRows[i] \in Billed,
         NEW n \in 1..Cardinality(Billed)
  PROVE  n \in DOMAIN FinanceRows /\ FinanceRows[n] = Oldest(Billed, n)
  <1>1. Billed \in SUBSET Payments /\ \A p \in Billed : pay[p].status # "none"
    BY DEF Billed, Active
  <1>2. Committed \in SUBSET Payments /\ \A p \in Committed : pay[p].status # "none"
    BY DEF Committed
  <1>3. Billed \subseteq Committed
    BY DEF Billed, Active, Committed
  <1> DEFINE p == Oldest(Billed, n)
             B(x) == {q \in Billed : Position(q) <= Position(x)}
             C(x) == {q \in Committed : Position(q) <= Position(x)}
  <1>4. p \in Billed /\ Cardinality(B(p)) = n
    BY <1>1, OldestOf
  <1>5. /\ \A x \in Committed : Cardinality(C(x)) \in 1..Cardinality(Committed)
                                /\ Oldest(Committed, Cardinality(C(x))) = x
        /\ \A x, y \in Committed :
             Position(x) < Position(y) => Cardinality(C(x)) < Cardinality(C(y))
    BY <1>2, OldestOf
  <1>6. \A x \in Committed : FinanceRows[Cardinality(C(x))] = x /\ Cardinality(C(x)) \in DOMAIN FinanceRows
    <2> HIDE DEF C
    <2> QED BY <1>5 DEF FinanceRows
  <1>7. ASSUME NEW q \in C(p) PROVE q \in Billed
    <2>1. q \in Committed /\ p \in Committed /\ Position(q) <= Position(p)
      BY <1>3, <1>4
    <2>2. Position(q) \in Int /\ Position(p) \in Int /\ order[Position(q)] = q /\ order[Position(p)] = p
      BY <1>2, <2>1, PositionOf
    <2>3. CASE Position(q) = Position(p)
      BY <1>4, <2>2, <2>3
    <2>4. CASE Position(q) < Position(p)
      <3>1. Cardinality(C(q)) < Cardinality(C(p))
        BY <1>5, <2>1, <2>4
      <3> HIDE DEF p, C
      <3> QED BY <1>4, <1>6, <2>1, <3>1
    <2> QED BY <2>1, <2>2, <2>3, <2>4
  <1>8. C(p) = B(p)
    BY <1>3, <1>7
  <1>9. p \in Committed /\ Cardinality(C(p)) = n
    BY <1>3, <1>4, <1>8
  <1> HIDE DEF p, C
  <1> QED BY <1>6, <1>9 DEF p

\* Where the rows are right, the backfill writes what is there.
LEMMA BackfillKeeps ==
  ASSUME Types, OrderInv, FeeFits
  PROVE  BackfillKeepsRightRows
  <1> SUFFICES ASSUME kind = "ENGAGEMENT" PROVE BackfillKeepsRightRows
    BY DEF BackfillKeepsRightRows
  <1>1. \A p \in Payments : pay[p].fee = BackfilledFee(p)
    BY DEF FeeFits, BackfilledFee
  <1>2. ASSUME rows = ActiveRows,
               \A i, j \in DOMAIN FinanceRows :
                 i < j /\ FinanceRows[j] \in Billed => FinanceRows[i] \in Billed
        PROVE  BackfilledRows = rows
    <2>1. DOMAIN rows = 1..Cardinality(Billed)
      BY <1>2 DEF ActiveRows
    <2>2. Cardinality(Committed) \in Nat
      BY ActiveFinite DEF Committed
    <2>3. DOMAIN FinanceRows = 1..Len(FinanceRows)
      BY <2>2 DEF FinanceRows
    <2>4. ASSUME NEW i \in DOMAIN rows
          PROVE  (IF i <= Len(FinanceRows) THEN ExpectedConsumed(FinanceRows[i]) ELSE rows[i]) = rows[i]
      <3>1. i \in 1..Len(FinanceRows) /\ FinanceRows[i] = Oldest(Billed, i)
        BY <1>2, <2>1, <2>3, SameOldest
      <3>2. Oldest(Billed, i) \in Payments
        BY <2>1, OldestOf DEF Billed, Active
      <3>3. rows[i] = LedgerAmount(Oldest(Billed, i))
        BY <1>2, <2>1 DEF ActiveRows
      <3>4. ExpectedConsumed(Oldest(Billed, i)) = LedgerAmount(Oldest(Billed, i))
        BY <1>1, <3>2 DEF ExpectedConsumed, LedgerAmount, BackfilledFee
      <3> QED BY <3>1, <3>3, <3>4
    <2>5. BackfilledRows = [i \in DOMAIN rows |-> rows[i]]
      BY <2>4 DEF BackfilledRows
    <2>6. rows = [i \in DOMAIN rows |-> rows[i]]
      BY <1>2 DEF ActiveRows
    <2> QED BY <2>5, <2>6
  <1> QED BY <1>1, <1>2 DEF BackfillKeepsRightRows

-----------------------------------------------------------------------------
(* Sums and the type invariant                                             *)

NatOrder == {p \in Nat \X Nat : p[1] < p[2]}

\* Induction, as a fact about sets of numbers: one that has 0, and with a number the next
\* one, has every number.
LEMMA NatInSet ==
  ASSUME NEW S, 0 \in S, \A n \in Nat : n \in S => n + 1 \in S
  PROVE  Nat \subseteq S
  <1> DEFINE T == Nat \ S
  <1> SUFFICES ASSUME T # {} PROVE FALSE
    OBVIOUS
  <1>1. IsWellFoundedOn(NatOrder, Nat)
    BY NatLessThanWellFounded DEF OpToRel, NatOrder
  <1>2. PICK n \in T : \A m \in T : <<m, n>> \notin NatOrder
    BY <1>1, WFMin
  <1>3. n # 0 /\ n - 1 \in Nat
    OBVIOUS
  <1>4. n - 1 \in S
    <2>1. <<n - 1, n>> \in NatOrder
      BY <1>3 DEF NatOrder
    <2> QED BY <1>2, <1>3, <2>1
  <1> QED BY <1>3, <1>4

\* One step of the recursion by which amounts are summed up: g has the sums of the smaller
\* sets.
Pick(s) == CHOOSE x \in s : TRUE
AddUp(f, g, s) == IF s = {} THEN 0 ELSE f[Pick(s)] + g[s \ {Pick(s)}]

\* The recursion picks an element and goes on with a smaller set.
LEMMA PickElement ==
  ASSUME NEW T, IsFiniteSet(T), NEW s \in SUBSET T, s # {}
  PROVE  /\ Pick(s) \in s /\ s \ {Pick(s)} \in SUBSET T
         /\ Cardinality(s) \in Nat /\ Cardinality(s \ {Pick(s)}) = Cardinality(s) - 1
         /\ Cardinality(s \ {Pick(s)}) \in Nat
  <1>1. Pick(s) \in s
    BY DEF Pick
  <1>2. IsFiniteSet(s) /\ Cardinality(s) \in Nat
    BY FS_Subset, FS_CardinalityType
  <1>3. IsFiniteSet(s \ {Pick(s)}) /\ Cardinality(s \ {Pick(s)}) = Cardinality(s) - 1
    BY <1>1, <1>2, FS_RemoveElement
  <1>4. Cardinality(s \ {Pick(s)}) \in Nat
    BY <1>3, FS_CardinalityType
  <1> QED BY <1>1, <1>2, <1>3, <1>4

\* The sum of finitely many amounts is a natural.
LEMMA SumType ==
  ASSUME NEW T, IsFiniteSet(T), NEW f, \A x \in T : f[x] \in Nat
  PROVE  SumFunctionOnSet(f, T) \in Nat
  <1> DEFINE Rec(g) == g = [s \in SUBSET T |-> AddUp(f, g, s)]
             Upto(g, n) == \A s \in SUBSET T : Cardinality(s) <= n => g[s] = AddUp(f, g, s)
             S == {n \in Nat : \E g \in [SUBSET T -> Nat] : Upto(g, n)}
  <1>1. \A s \in SUBSET T : IsFiniteSet(s) /\ Cardinality(s) \in Nat
    BY FS_Subset, FS_CardinalityType
  <1>2. 0 \in S
    <2> DEFINE g == [s \in SUBSET T |-> 0]
    <2>1. ASSUME NEW s \in SUBSET T, Cardinality(s) <= 0 PROVE g[s] = AddUp(f, g, s)
      <3>1. s = {}
        BY <1>1, <2>1, FS_EmptySet
      <3> QED BY <3>1 DEF AddUp
    <2>2. g \in [SUBSET T -> Nat]
      OBVIOUS
    <2> HIDE DEF g
    <2> QED BY <2>1, <2>2
  <1>3. ASSUME NEW n \in Nat, n \in S PROVE n + 1 \in S
    <2>1. PICK g \in [SUBSET T -> Nat] : Upto(g, n)
      BY <1>3
    <2> DEFINE h == [s \in SUBSET T |-> IF Cardinality(s) <= n + 1 THEN AddUp(f, g, s) ELSE 0]
    <2>2. h \in [SUBSET T -> Nat]
      <3> SUFFICES ASSUME NEW s \in SUBSET T PROVE AddUp(f, g, s) \in Nat
        OBVIOUS
      <3>1. CASE s = {}
        BY <3>1 DEF AddUp
      <3>2. CASE s # {}
        <4>1. f[Pick(s)] \in Nat /\ g[s \ {Pick(s)}] \in Nat
          BY <3>2, PickElement
        <4> QED BY <3>2, <4>1 DEF AddUp
      <3> QED BY <3>1, <3>2
    <2>3. ASSUME NEW s \in SUBSET T, Cardinality(s) <= n + 1 PROVE h[s] = AddUp(f, h, s)
      <3>1. h[s] = AddUp(f, g, s)
        BY <2>3
      <3>2. CASE s = {}
        BY <3>1, <3>2 DEF AddUp
      <3>3. CASE s # {}
        <4> DEFINE x == Pick(s)
        <4>1. /\ AddUp(f, g, s) = f[x] + g[s \ {x}] /\ AddUp(f, h, s) = f[x] + h[s \ {x}]
              /\ s \ {x} \in SUBSET T
              /\ Cardinality(s) \in Nat /\ Cardinality(s \ {x}) = Cardinality(s) - 1
          BY <3>3, PickElement DEF AddUp
        <4> HIDE DEF x
        <4>2. Cardinality(s \ {x}) <= n
          BY <2>3, <4>1
        <4>3. g[s \ {x}] = AddUp(f, g, s \ {x})
          BY <2>1, <4>1, <4>2
        <4>4. Cardinality(s \ {x}) <= n + 1
          BY <2>3, <4>1
        <4>5. h[s \ {x}] = AddUp(f, g, s \ {x})
          BY <4>1, <4>4
        <4> QED BY <3>1, <4>1, <4>3, <4>5
      <3> QED BY <3>2, <3>3
    <2> HIDE DEF h
    <2> QED BY <2>2, <2>3
  <1>4. PICK g \in [SUBSET T -> Nat] : Upto(g, Cardinality(T))
    <2>1. Nat \subseteq S
      <3> HIDE DEF S
      <3> QED BY <1>2, <1>3, NatInSet
    <2> QED BY <1>1, <2>1
  <1>5. Rec(g)
    <2>1. \A s \in SUBSET T : g[s] = AddUp(f, g, s)
      <3> SUFFICES ASSUME NEW s \in SUBSET T PROVE g[s] = AddUp(f, g, s)
        OBVIOUS
      <3>1. Cardinality(s) <= Cardinality(T)
        BY FS_Subset
      <3> QED BY <1>4, <3>1
    <2>2. g = [s \in SUBSET T |-> g[s]]
      OBVIOUS
    <2> QED BY <2>1, <2>2
  <1> DEFINE iter == CHOOSE x : Rec(x)
  <1>6. Rec(iter)
    BY <1>5
  <1>7. SumFunctionOnSet(f, T) = iter[T]
    BY DEF SumFunctionOnSet, FoldFunctionOnSet, MapThenFoldSet, AddUp, Pick
  <1> HIDE DEF iter
  <1>8. \A s \in SUBSET T : iter[s] = AddUp(f, iter, s)
    BY <1>6
  <1>13. iter[{}] = 0
    <2>1. iter[{}] = AddUp(f, iter, {})
      BY <1>8
    <2>2. AddUp(f, iter, {}) = 0
      BY DEF AddUp
    <2> QED BY <2>1, <2>2
  <1> DEFINE R == {n \in Nat : \A s \in SUBSET T : Cardinality(s) <= n => iter[s] \in Nat}
  <1>9. 0 \in R
    <2> SUFFICES ASSUME NEW s \in SUBSET T, Cardinality(s) <= 0 PROVE iter[s] \in Nat
      OBVIOUS
    <2>1. s = {}
      BY <1>1, FS_EmptySet
    <2> QED BY <1>13, <2>1
  <1>10. ASSUME NEW n \in Nat, n \in R PROVE n + 1 \in R
    <2> SUFFICES ASSUME NEW s \in SUBSET T, Cardinality(s) <= n + 1 PROVE iter[s] \in Nat
      OBVIOUS
    <2>1. CASE s = {}
      BY <1>13, <2>1
    <2>2. CASE s # {}
      <3> DEFINE x == Pick(s)
      <3>1. /\ AddUp(f, iter, s) = f[x] + iter[s \ {x}]
            /\ x \in T /\ s \ {x} \in SUBSET T
            /\ Cardinality(s) \in Nat /\ Cardinality(s \ {x}) = Cardinality(s) - 1
        BY <2>2, PickElement DEF AddUp
      <3> HIDE DEF x
      <3>2. Cardinality(s \ {x}) <= n
        BY <3>1
      <3>3. iter[s \ {x}] \in Nat /\ f[x] \in Nat
        BY <1>10, <3>1, <3>2
      <3> QED BY <1>8, <3>1, <3>3
    <2> QED BY <2>1, <2>2
  <1>11. Nat \subseteq R
    <2> HIDE DEF R
    <2> QED BY <1>9, <1>10, NatInSet
  <1>12. Cardinality(T) \in R
    BY <1>1, <1>11
  <1> QED BY <1>1, <1>7, <1>12

\* What the budget of a challenge is set to is a natural.
LEMMA TotalType ==
  ASSUME Types, NEW S \in SUBSET Payments
  PROVE  Total(S) \in Nat
  <1>1. ASSUME NEW p \in S PROVE Amount[p] \in Nat
    <2>1. pay[p].amount \in Amounts \cup {0}
      BY DEF Types, PaymentRows
    <2>2. \A m \in Amounts \cup {0} : m \in Nat
      BY BudgetAssumption
    <2> QED BY <2>1, <2>2 DEF Amount
  <1> QED BY <1>1, ActiveFinite, SumType DEF Total

\* The numbers of the type invariant.
Numbers ==
  /\ budget \in Nat
  /\ rows \in Seq(Nat)
  /\ req \in [Calls -> Requests(Nat)]
  /\ \A c \in Calls : req[c].version <= MaxVersion
  /\ \A p \in Payments : pay[p].version <= MaxVersion

\* What a starting or ended call holds is a request with numbers.
LEMMA NumberRequest ==
  ASSUME NEW s \in ChallengeStatuses \cup {"none", "unknown"}, NEW p \in Payments \cup {"none"},
         NEW e \in Amounts \cup {Cancel, Nothing}, NEW v \in Nat
  PROVE  /\ Request(s, p, e, v) \in Requests(Nat) /\ Request(s, p, e, v).version = v
         /\ NoRequest \in Requests(Nat) /\ NoRequest.version = 0
  <1>1. << >> \in Seq(Nat)
    OBVIOUS
  <1> QED BY <1>1 DEF Request, NoRequest, Requests

\* At the start all numbers are zero.
LEMMA NumbersInit == Init => Numbers
  <1> SUFFICES ASSUME Init PROVE Numbers
    OBVIOUS
  <1>1. << >> \in Seq(Nat)
    OBVIOUS
  <1>2. NoRequest \in Requests(Nat) /\ NoRequest.version = 0
    BY <1>1 DEF NoRequest, Request, Requests
  <1>3. req \in [Calls -> Requests(Nat)] /\ \A c \in Calls : req[c].version <= MaxVersion
    BY <1>2, BudgetAssumption DEF Init
  <1> QED BY <1>1, <1>3, BudgetAssumption DEF Init, Numbers, NoPayment

\* The amounts and fees of payments, and what is consumed for them, are naturals.
LEMMA RowTypes ==
  ASSUME Types, NEW p \in Payments
  PROVE  /\ pay[p].amount \in Nat /\ pay[p].fee \in Nat /\ pay[p].version \in Nat
         /\ LedgerAmount(p) \in Nat /\ ConsumeAmount(pay[p].amount) \in Nat
  <1>1. pay[p].amount \in Amounts \cup {0} /\ pay[p].fee \in Nat /\ pay[p].version \in Nat
    BY DEF Types, PaymentRows
  <1>2. \A m \in Amounts \cup {0} : m \in Nat
    BY BudgetAssumption
  <1>3. pay[p].amount \in Nat
    BY <1>1, <1>2
  <1>4. \A m \in Nat : m * Markup \in Nat
    BY BudgetAssumption
  <1>5. pay[p].amount * Markup \in Nat
    BY <1>3, <1>4
  <1>6. RoundHalfUp(pay[p].amount * Markup, 100) \in Nat
    BY <1>5, RoundType
  <1>7. ConsumeAmount(pay[p].amount) \in Nat
    BY <1>3, <1>6 DEF ConsumeAmount
  <1> QED BY <1>1, <1>3, <1>7 DEF LedgerAmount

\* The rows that an edit reads are naturals.
LEMMA ActiveRowsType ==
  ASSUME Types, OrderInv
  PROVE  ActiveRows \in Seq(Nat)
  <1>1. Cardinality(Billed) \in Nat
    BY ActiveFinite DEF Billed, Active
  <1>2. \A n \in 1..Cardinality(Billed) : Oldest(Billed, n) \in Payments
    BY OldestOf DEF Billed, Active
  <1>3. \A n \in 1..Cardinality(Billed) : LedgerAmount(Oldest(Billed, n)) \in Nat
    BY <1>2, RowTypes
  <1> QED BY <1>1, <1>3 DEF ActiveRows

\* Every write of a payment row counts its version up to the bound at most.
LEMMA VersionStep ==
  ASSUME Types, Flow, Numbers, [Next]_vars, NEW x \in Payments
  PROVE  pay'[x].version <= MaxVersion
  <1>1. pay \in [Payments -> PaymentRows] /\ pay[x].version <= MaxVersion /\ pay[x].version \in Nat
    BY RowTypes DEF Types, Numbers
  <1>2. ASSUME NEW p \in Payments, NEW n \in Amounts, Insert(p, n) PROVE pay'[x].version <= MaxVersion
    BY <1>1, <1>2, BudgetAssumption DEF Insert
  <1>3. ASSUME NEW p \in Payments, Commit(p) PROVE pay'[x].version <= MaxVersion
    BY <1>1, <1>3 DEF Commit, PaymentRows
  <1>4. ASSUME NEW p \in Payments, RollBack(p) PROVE pay'[x].version <= MaxVersion
    BY <1>1, <1>4, BudgetAssumption DEF RollBack, NoPayment
  <1>5. ASSUME NEW p \in Payments, UpdateProcessingState(p) PROVE pay'[x].version <= MaxVersion
    <2>1. PICK s \in PayoutWrites(p) : pay' = [pay EXCEPT ![p] = Moved(pay[p], s)]
      BY <1>5 DEF UpdateProcessingState
    <2>2. pay[p].version < MaxVersion /\ pay[p].version \in Nat
      BY <1>5, RowTypes DEF UpdateProcessingState
    <2>3. Moved(pay[p], s).version <= MaxVersion
      BY <2>2, BudgetAssumption DEF Moved
    <2> QED BY <1>1, <2>1, <2>3
  <1>6. ASSUME NEW a \in Admins, CommitEdit(a) PROVE pay'[x].version <= MaxVersion
    <2> DEFINE q == req[a].pay
    <2>1. CASE UNCHANGED pay
      BY <1>1, <2>1
    <2>2. CASE ~UNCHANGED pay
      <3>1. /\ pay[q].version = req[a].version /\ req[a].version < MaxVersion
            /\ pay' = [pay EXCEPT ![q] = Edited(pay[q], req[a].edit)]
        BY <1>6, <2>2 DEF CommitEdit
      <3>2. CASE x = q
        <4>1. Edited(pay[q], req[a].edit).version = pay[q].version + 1
          BY DEF Edited, Moved, Priced
        <4>2. pay'[x].version = pay[x].version + 1 /\ pay[x].version < MaxVersion
          BY <1>1, <3>1, <3>2, <4>1
        <4> QED BY <1>1, <4>2, BudgetAssumption
      <3>3. CASE x # q
        BY <1>1, <3>1, <3>3
      <3> QED BY <3>2, <3>3
    <2> QED BY <2>1, <2>2
  <1>7. CASE UNCHANGED pay
    BY <1>1, <1>7
  <1> QED
    BY <1>2, <1>3, <1>4, <1>5, <1>6, <1>7
    DEF Next, vars, Plan, ConsumeEngagement, SumPersisted, WriteBudget, ReadPayment,
        ReadChallenge, SumActive, RewriteBudget, ReadActiveRows, RewriteRows, GiveUp,
        ChallengeMoves, SelectReleasable

\* A call that is over has read nothing.
LEMMA NumbersNone == NoRequest \in Requests(Nat) /\ NoRequest.version = 0
  <1>1. << >> \in Seq(Nat)
    OBVIOUS
  <1> QED BY <1>1 DEF NoRequest, Request, Requests

\* Every step keeps the numbers of what the calls have read.
LEMMA RequestNumbers ==
  ASSUME Types, Flow, OrderInv, Numbers, [Next]_vars
  PROVE  req' \in [Calls -> Requests(Nat)] /\ \A c \in Calls : req'[c].version <= MaxVersion
  <1> DEFINE Goal == req' \in [Calls -> Requests(Nat)] /\ \A c \in Calls : req'[c].version <= MaxVersion
  <1>1. req \in [Calls -> Requests(Nat)] /\ \A c \in Calls : req[c].version <= MaxVersion
    BY DEF Numbers
  <1>2. Payments \subseteq Calls /\ Admins \subseteq Calls /\ MaxVersion \in Nat
    BY BudgetAssumption DEF Calls
  <1>3. ASSUME NEW c \in Calls, NEW r \in Requests(Nat), r.version <= MaxVersion,
               req' = [req EXCEPT ![c] = r]
        PROVE  Goal
    BY <1>1, <1>3
  <1>4. ASSUME NEW c \in Calls, NEW n \in Nat, req' = [req EXCEPT ![c].sum = n] PROVE Goal
    BY <1>1, <1>4 DEF Requests
  <1>5. ASSUME NEW c \in Calls, NEW s \in Seq(Nat), req' = [req EXCEPT ![c].rows = s] PROVE Goal
    BY <1>1, <1>5 DEF Requests
  <1>6. ASSUME NEW c \in Calls, NEW s \in ChallengeStatuses, req' = [req EXCEPT ![c].status = s]
        PROVE  Goal
    BY <1>1, <1>6 DEF Requests
  <1>7. ASSUME NEW c \in Calls, req' = [req EXCEPT ![c] = NoRequest] PROVE Goal
    <2>1. NoRequest \in Requests(Nat) /\ NoRequest.version <= MaxVersion
      BY <1>2, NumbersNone
    <2> HIDE DEF Goal
    <2> QED BY <1>3, <1>7, <2>1
  <1>8. ASSUME UNCHANGED req PROVE Goal
    BY <1>1, <1>8
  <1>9. ASSUME NEW p \in Payments, Plan(p) PROVE Goal
    <2>1. PICK s \in {status, "unknown"} :
            Starts(p, "planned", Request(IF kind = "CHALLENGE" THEN s ELSE "none", "none", Nothing, 0))
      BY <1>9 DEF Plan
    <2>2. (IF kind = "CHALLENGE" THEN s ELSE "none") \in ChallengeStatuses \cup {"none", "unknown"}
      BY DEF Types
    <2> DEFINE r == Request(IF kind = "CHALLENGE" THEN s ELSE "none", "none", Nothing, 0)
    <2>3. r \in Requests(Nat) /\ r.version = 0
      <3> DEFINE st == IF kind = "CHALLENGE" THEN s ELSE "none"
      <3>1. st \in ChallengeStatuses \cup {"none", "unknown"}
        BY <2>2
      <3> HIDE DEF st
      <3>2. "none" \in Payments \cup {"none"} /\ Nothing \in Amounts \cup {Cancel, Nothing} /\ 0 \in Nat
        OBVIOUS
      <3>3. Request(st, "none", Nothing, 0) \in Requests(Nat)
            /\ Request(st, "none", Nothing, 0).version = 0
        BY <3>1, <3>2, NumberRequest
      <3> QED BY <3>3 DEF st
    <2>4. req' = [req EXCEPT ![p] = r]
      BY <2>1 DEF Starts
    <2> HIDE DEF r, Goal
    <2>5. r.version <= MaxVersion /\ p \in Calls
      BY <1>2, <2>3
    <2> QED BY <1>3, <2>3, <2>4, <2>5
  <1>10. ASSUME NEW a \in Admins, NEW p \in Payments, NEW e \in Amounts \cup {Cancel},
                ReadPayment(a, p, e)
         PROVE  Goal
    <2> DEFINE r == Request("none", p, Applied(p, e), pay[p].version)
    <2>1. Applied(p, e) \in Amounts \cup {Cancel, Nothing} /\ pay[p].version \in Nat
          /\ pay[p].version <= MaxVersion
      BY RowTypes DEF Applied, Numbers
    <2>2. r \in Requests(Nat) /\ r.version = pay[p].version
      BY <2>1, NumberRequest
    <2>3. req' = [req EXCEPT ![a] = r]
      BY <1>10 DEF ReadPayment, Starts
    <2> HIDE DEF r, Goal
    <2> QED BY <1>2, <1>3, <2>1, <2>2, <2>3
  <1>11. ASSUME NEW p \in Payments, SumPersisted(p) PROVE Goal
    <2>1. Total(VisibleTo(p)) \in Nat
      BY TotalType DEF VisibleTo, Active
    <2> HIDE DEF Goal
    <2> QED BY <1>2, <1>4, <1>11, <2>1 DEF SumPersisted
  <1>12. ASSUME NEW a \in Admins, SumActive(a) PROVE Goal
    <2>1. Total(Active) \in Nat
      BY TotalType DEF Active
    <2> HIDE DEF Goal
    <2> QED BY <1>2, <1>4, <1>12, <2>1 DEF SumActive
  <1>13. ASSUME NEW a \in Admins, ReadActiveRows(a) PROVE Goal
    BY <1>2, <1>5, <1>13, ActiveRowsType DEF ReadActiveRows
  <1>14. ASSUME NEW a \in Admins, ReadChallenge(a) PROVE Goal
    <2>1. status \in ChallengeStatuses
      BY DEF Types
    <2> HIDE DEF Goal
    <2> QED BY <1>2, <1>6, <1>7, <1>14, <2>1 DEF ReadChallenge, Ends
  <1> HIDE DEF Goal
  <1>15. ASSUME NEW p \in Payments, Commit(p) \/ RollBack(p) PROVE Goal
    BY <1>2, <1>7, <1>15 DEF Commit, RollBack, Ends
  <1>16. ASSUME NEW a \in Admins, RewriteBudget(a) \/ RewriteRows(a) \/ GiveUp(a) PROVE Goal
    BY <1>2, <1>7, <1>16 DEF RewriteBudget, RewriteRows, GiveUp, Ends
  <1>17. ASSUME NEW p \in Payments, Plan(p) \/ SumPersisted(p) \/ Commit(p) \/ RollBack(p)
         PROVE  Goal
    BY <1>9, <1>11, <1>15, <1>17
  <1>18. ASSUME NEW a \in Admins,
                \/ \E p \in Payments, e \in Amounts \cup {Cancel} : ReadPayment(a, p, e)
                \/ SumActive(a) \/ ReadActiveRows(a) \/ ReadChallenge(a)
                \/ RewriteBudget(a) \/ RewriteRows(a) \/ GiveUp(a)
         PROVE  Goal
    BY <1>10, <1>12, <1>13, <1>14, <1>16, <1>18
  <1>19. ASSUME NEW p \in Payments,
                \/ \E n \in Amounts : Insert(p, n)
                \/ ConsumeEngagement(p) \/ WriteBudget(p) \/ SelectReleasable(p)
                \/ UpdateProcessingState(p)
         PROVE  Goal
    BY <1>8, <1>19 DEF Insert, ConsumeEngagement, WriteBudget, SelectReleasable,
       UpdateProcessingState, calls
  <1>20. ASSUME NEW a \in Admins, CommitEdit(a) PROVE Goal
    BY <1>8, <1>20 DEF CommitEdit
  <1>21. ASSUME ChallengeMoves PROVE Goal
    BY <1>8, <1>21 DEF ChallengeMoves, calls
  <1>22. ASSUME UNCHANGED vars PROVE Goal
    BY <1>8, <1>22 DEF vars, calls
  <1>23. Goal
    BY <1>17, <1>18, <1>19, <1>20, <1>21, <1>22 DEF Next
  <1> QED BY <1>23 DEF Goal

\* Every step keeps the numbers at the billing account.
LEMMA NumbersStep ==
  ASSUME Types, Flow, OrderInv, Numbers, [Next]_vars
  PROVE  Numbers'
  <1>1. req \in [Calls -> Requests(Nat)] /\ rows \in Seq(Nat) /\ budget \in Nat
    BY DEF Numbers
  <1>2. \A c \in Calls : req[c].sum \in Nat /\ req[c].rows \in Seq(Nat)
    BY <1>1 DEF Requests
  <1>3. Payments \subseteq Calls /\ Admins \subseteq Calls
    BY DEF Calls
  <1>4. budget' \in Nat
    <2>1. ASSUME NEW c \in Calls, LockConsume(req[c].status, req[c].sum) PROVE budget' \in Nat
      BY <1>1, <1>2, <2>1 DEF LockConsume
    <2>2. ASSUME NEW p \in Payments, WriteBudget(p) PROVE budget' \in Nat
      BY <1>3, <2>1, <2>2 DEF WriteBudget
    <2>3. ASSUME NEW a \in Admins, RewriteBudget(a) PROVE budget' \in Nat
      BY <1>3, <2>1, <2>3 DEF RewriteBudget
    <2>4. CASE UNCHANGED budget
      BY <1>1, <2>4
    <2> QED
      BY <2>2, <2>3, <2>4
      DEF Next, vars, ledger, Plan, Insert, ConsumeEngagement, SumPersisted, Commit, RollBack,
          SelectReleasable, UpdateProcessingState, ReadPayment, CommitEdit, ReadChallenge,
          SumActive, ReadActiveRows,
          RewriteRows, GiveUp, ChallengeMoves
  <1>5. rows' \in Seq(Nat)
    <2>1. ASSUME NEW p \in Payments, ConsumeEngagement(p) PROVE rows' \in Seq(Nat)
      BY <1>1, <2>1, RowTypes DEF ConsumeEngagement
    <2>2. ASSUME NEW a \in Admins, RewriteRows(a) PROVE rows' \in Seq(Nat)
      BY <1>1, <1>2, <1>3, <2>2, SyncedRowsFit DEF RewriteRows
    <2>3. CASE UNCHANGED rows
      BY <1>1, <2>3
    <2> QED
      BY <2>1, <2>2, <2>3
      DEF Next, vars, ledger, Plan, Insert, SumPersisted, WriteBudget, Commit, RollBack,
          SelectReleasable, UpdateProcessingState, ReadPayment, CommitEdit, ReadChallenge,
          SumActive, RewriteBudget,
          ReadActiveRows, GiveUp, ChallengeMoves
  <1> QED BY <1>4, <1>5, VersionStep, RequestNumbers DEF Numbers

\* The type invariant of the runs follows.
LEMMA TypeOKFollows ==
  ASSUME Types, OrderInv, Numbers
  PROVE  TypeOK
  <1>1. pay \in [Payments -> [status : PaymentStatus, amount : Amounts \cup {0}, fee : Nat,
                              version : 0..MaxVersion]]
    <2> SUFFICES ASSUME NEW p \in Payments
                 PROVE  pay[p] \in [status : PaymentStatus, amount : Amounts \cup {0}, fee : Nat,
                                    version : 0..MaxVersion]
      BY DEF Types
    <2>1. pay[p] \in PaymentRows /\ pay[p].version <= MaxVersion
      BY DEF Types, Numbers
    <2>2. pay[p].version \in 0..MaxVersion
      BY <2>1, BudgetAssumption DEF PaymentRows
    <2> QED BY <2>1, <2>2 DEF PaymentRows
  <1>2. ToSet(order) = {p \in Payments : pay[p].status # "none"}
    <2>1. ToSet(order) = {order[i] : i \in 1..Len(order)}
      BY DEF ToSet, OrderInv
    <2>2. \A i \in 1..Len(order) : order[i] \in Payments
      BY DEF OrderInv
    <2> QED BY <2>1, <2>2 DEF OrderInv
  <1>3. IsInjective(order)
    BY DEF IsInjective, OrderInv
  <1>4. ASSUME NEW c \in Calls
        PROVE  /\ req[c].status \in ChallengeStatuses \cup {"none", "unknown"}
               /\ req[c].sum \in Nat
               /\ req[c].rows \in Seq(Nat)
               /\ req[c].pay \in Payments \cup {"none"}
               /\ req[c].edit \in Amounts \cup {Cancel, Nothing}
               /\ req[c].version \in 0..MaxVersion
    <2>1. req[c] \in Requests(Nat) /\ req[c].version <= MaxVersion
      BY DEF Numbers
    <2>2. req[c].version \in 0..MaxVersion
      BY <2>1, BudgetAssumption DEF Requests
    <2> QED BY <2>1, <2>2 DEF Requests
  <1> QED BY <1>1, <1>2, <1>3, <1>4 DEF TypeOK, Types, Numbers

-----------------------------------------------------------------------------
(* Theorems                                                                *)

\* The fee stored with an engagement payment always belongs to the stored amount, so that
\* an edit rewrites a consumed row to within half a cent of what its creation consumed,
\* whatever the markup of the billing account.
THEOREM RoundingBoundedHolds == Spec => []RoundingBounded
  <1>1. Init => Types /\ Flow /\ FeeFits
    BY InitTypes, FlowInit, FeeInit
  <1>2. Types /\ Flow /\ FeeFits /\ [Next]_vars => (Types /\ Flow /\ FeeFits)'
    BY TypesStep, FlowStep, FeeStep
  <1>3. Types /\ FeeFits => RoundingBounded
    BY FeesAreClose
  <1> QED BY <1>1, <1>2, <1>3, PTL DEF Spec

\* There is a consumed row for every committed engagement payment with an amount, for any
\* number of creations, edits and payouts that overlap, fail or are rolled back, as long as
\* no edit has rewritten the rows while a creation was between its consume and its commit;
\* payments raised from zero by an edit, or brought back after their cancellation by a
\* withdrawal that was under way, are not counted.
THEOREM EngagementFundedHolds == Spec => []EngagementFunded
  <1>1. Init => Types /\ Flow /\ FundInv
    BY InitTypes, FlowInit, FundInit
  <1>2. Types /\ Flow /\ FundInv /\ [Next]_vars => (Types /\ Flow /\ FundInv)'
    BY TypesStep, FlowStep, FundStep
  <1>3. Types /\ FundInv => EngagementFunded
    BY FundGivesRows
  <1> QED BY <1>1, <1>2, <1>3, PTL DEF Spec

\* Whatever overlapping and failed calls have left in the budget of a challenge, the next
\* call that runs alone and reaches the billing account sets it to the sum of the payments
\* that are not cancelled, for any number of payments and edits, unless a payout writes over
\* a cancelled payment between the call's read and its end.
THEOREM LoneSyncRepairsHolds == Spec => LoneSyncRepairs
  <1> DEFINE Inv == Types /\ Flow /\ LoneInv /\ SumInv
  <1>1. Init => Inv
    BY InitTypes, FlowInit, LoneInit, SumInit
  <1>2. Inv /\ [Next]_vars => Inv'
    BY TypesStep, FlowStep, LoneStep, SumStep
  <1>3. Inv /\ [Next]_vars =>
          [\A c \in alone :
             /\ kind = "CHALLENGE"
             /\ Finishes(c)
             /\ req[c].status \in {"ACTIVE", "COMPLETED", "CANCELLED"}
             /\ ~(req[c].status = "COMPLETED" /\ Total(Active)' = 0)
             => budget' = Total(Active)']_vars
    BY LoneEnd DEF Taken
  <1> HIDE DEF Inv
  <1> QED BY <1>1, <1>2, <1>3, PTL DEF Spec, LoneSyncRepairs

\* An edit that runs alone leaves the consumed rows of an assignment equal to the payments
\* that are not cancelled, oldest first, except that it does not bring back a missing row;
\* a payout between its read and its write changes nothing of that, unless it writes over a
\* cancelled payment.
THEOREM LoneEditRepairsRowsHolds == Spec => LoneEditRepairsRows
  <1> DEFINE Inv == Types /\ Flow /\ LoneInv /\ OrderInv /\ LoneRowsInv
  <1>1. Init => Inv
    BY InitTypes, FlowInit, LoneInit, OrderInit, LoneRowsInit
  <1>2. Inv /\ [Next]_vars => Inv'
    BY TypesStep, FlowStep, LoneStep, OrderStep, LoneRowsStep
  <1>3. Inv /\ [Next]_vars =>
          [\A a \in alone \cap Admins :
             kind = "ENGAGEMENT" /\ Finishes(a)
             => rows' = SubSeq(ActiveRows', 1, IF Len(rows) < Cardinality(Billed)
                                               THEN Len(rows) ELSE Cardinality(Billed))]_vars
    BY LoneEditEnd
  <1> HIDE DEF Inv
  <1> QED BY <1>1, <1>2, <1>3, PTL DEF Spec, LoneEditRepairsRows

\* Run on any state that the creations, edits and payouts reach, the backfill script leaves
\* fees and rows that are right as they are, unless a payment with nothing to bill is older
\* than one that is billed.
THEOREM BackfillKeepsRightRowsHolds == Spec => []BackfillKeepsRightRows
  <1> DEFINE Inv == Types /\ Flow /\ FeeFits /\ OrderInv
  <1>1. Init => Inv
    BY InitTypes, FlowInit, FeeInit, OrderInit
  <1>2. Inv /\ [Next]_vars => Inv'
    BY TypesStep, FlowStep, FeeStep, OrderStep
  <1>3. Inv => BackfillKeepsRightRows
    BY BackfillKeeps
  <1> HIDE DEF Inv
  <1> QED BY <1>1, <1>2, <1>3, PTL DEF Spec

\* Payment rows, their order, the budget and what the calls have read keep their types: the
\* list of payments has each payment in the database once, through inserts and rollbacks,
\* and versions and sums are naturals within the bound.
THEOREM TypeCorrect == Spec => []TypeOK
  <1> DEFINE Inv == Types /\ Flow /\ OrderInv /\ Numbers
  <1>1. Init => Inv
    BY InitTypes, FlowInit, OrderInit, NumbersInit
  <1>2. Inv /\ [Next]_vars => Inv'
    BY TypesStep, FlowStep, OrderStep, NumbersStep
  <1>3. Inv => TypeOK
    BY TypeOKFollows
  <1> HIDE DEF Inv
  <1> QED BY <1>1, <1>2, <1>3, PTL DEF Spec
=============================================================================
