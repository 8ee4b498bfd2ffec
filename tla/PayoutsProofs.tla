--------------------------- MODULE PayoutsProofs ---------------------------
(***************************************************************************)
(* Theorems about Payouts, for every choice of its constants.              *)
(***************************************************************************)
EXTENDS Payouts, TLAPS

\* updatePaymentProcessingState writes statuses, versions and dates of their types.
LEMMA UpdateProcessingStateType ==
  ASSUME NEW W \in SUBSET Winnings, NEW s \in PaymentStatus, TypeOK,
         UpdateProcessingState(W, s)
  PROVE  /\ status' \in [Winnings -> PaymentStatus]
         /\ version' \in [Winnings -> Nat]
         /\ datePaid' \in [Winnings -> BOOLEAN]
  <1>1. status' \in [Winnings -> PaymentStatus]
    BY DEF TypeOK, UpdateProcessingState
  <1>2. version' \in [Winnings -> Nat]
    BY DEF TypeOK, UpdateProcessingState
  <1>3. datePaid' \in [Winnings -> BOOLEAN]
    BY DEF TypeOK, UpdateProcessingState
  <1> QED BY <1>1, <1>2, <1>3

\* What a webhook event makes of payment and release are statuses of theirs.
LEMMA EventTypes ==
  ASSUME NEW k \in Kinds
  PROVE  PaymentStatusOf(k) \in PaymentStatus /\ ReleaseStatusOf(k) \in ReleaseStatus
  BY DEF Kinds, PaymentStatusOf, ReleaseStatusOf, PaymentStatus, ReleaseStatus

\* The initial states have their types.
LEMMA InitType == Init => TypeOK
  <1> SUFFICES ASSUME Init PROVE TypeOK
    OBVIOUS
  <1> QED
    BY DEF Init, TypeOK, OTC!Init, OTC!TypeOK, OTC!CodeStates, PaymentStatus,
           ReleaseStatus, Steps, TrolleyStates, HookStages, AdminCalls

\* The step a withdraw call takes keeps the types.
LEMMA WithdrawType ==
  ASSUME TypeOK, NEW r \in Withdrawals
  PROVE  WithdrawStep(r) \/ Refuse(r) \/ Abort(r) => TypeOK'
  <1> USE DEF Steps, ReleaseStatus, TrolleyStates, GoTo, SetRelease, paymentVars,
             requestVars, OTC!TypeOK, OTC!CodeStates
  <1>1. SelectReleasable(r) => TypeOK'
    BY DEF TypeOK, SelectReleasable
  <1>2. VerifyOtp(r) => TypeOK'
    BY DEF TypeOK, VerifyOtp, OTC!Use
  <1>3. CreateRelease(r) => TypeOK'
    BY DEF TypeOK, CreateRelease
  <1>4. CreatePayment(r) => TypeOK'
    BY DEF TypeOK, CreatePayment
  <1>5. ASSUME MarkProcessing(r) PROVE TypeOK'
    <2>1. chosen[r] \in SUBSET Winnings /\ "PROCESSING" \in PaymentStatus
      BY DEF TypeOK, PaymentStatus
    <2> QED BY <1>5, <2>1, UpdateProcessingStateType DEF TypeOK, MarkProcessing
  <1>6. MarkProcessingFails(r) => TypeOK'
    BY DEF TypeOK, MarkProcessingFails
  <1>7. FailRelease(r) => TypeOK'
    BY DEF TypeOK, FailRelease
  <1>8. RemovePayment(r) => TypeOK'
    BY DEF TypeOK, RemovePayment
  <1>9. StartProcessing(r) => TypeOK'
    BY DEF TypeOK, StartProcessing
  <1>10. StartProcessingFails(r) => TypeOK'
    BY DEF TypeOK, StartProcessingFails
  <1>11. ASSUME RevertToOwed(r) PROVE TypeOK'
    <2>1. chosen[r] \in SUBSET Winnings /\ "OWED" \in PaymentStatus
      BY DEF TypeOK, PaymentStatus
    <2> QED BY <1>11, <2>1, UpdateProcessingStateType DEF TypeOK, RevertToOwed
  <1>12. Refuse(r) => TypeOK'
    BY DEF TypeOK, Refuse
  <1>13. Abort(r) => TypeOK'
    BY DEF TypeOK, Abort
  <1> QED
    BY <1>1, <1>2, <1>3, <1>4, <1>5, <1>6, <1>7, <1>8, <1>9, <1>10, <1>11, <1>12,
       <1>13 DEF WithdrawStep

\* The steps of a payment webhook keep the types.
LEMMA HookType ==
  ASSUME TypeOK, NEW h \in Hooks
  PROVE  HookStep(h) \/ HookFails(h) => TypeOK'
  <1> USE DEF HookStages, HookGoTo, paymentVars, requestVars, OTC!TypeOK
  <1>1. HookStarts(h) => TypeOK'
    BY DEF TypeOK, HookStarts
  <1>2. ASSUME HookPayments(h) PROVE TypeOK'
    <2>1. h[1] \in Withdrawals /\ h[2] \in Kinds
      BY DEF Hooks
    <2>2. chosen[h[1]] \in SUBSET Winnings /\ PaymentStatusOf(h[2]) \in PaymentStatus
      BY <2>1, EventTypes DEF TypeOK
    <2>3. UpdateProcessingState(chosen[h[1]], PaymentStatusOf(h[2]))
      BY <1>2 DEF HookPayments
    <2>4. /\ status' \in [Winnings -> PaymentStatus]
          /\ version' \in [Winnings -> Nat]
          /\ datePaid' \in [Winnings -> BOOLEAN]
      BY <2>2, <2>3, UpdateProcessingStateType
    <2> QED BY <1>2, <2>4 DEF TypeOK, HookPayments
  <1>3. HookChecks(h) => TypeOK'
    BY DEF TypeOK, HookChecks
  <1>4. ASSUME HookWrites(h) PROVE TypeOK'
    <2>1. h[1] \in Withdrawals /\ ReleaseStatusOf(h[2]) \in ReleaseStatus
      BY EventTypes DEF Hooks
    <2> QED BY <1>4, <2>1 DEF TypeOK, HookWrites, SetRelease
  <1>5. HookFails(h) => TypeOK'
    BY DEF TypeOK, HookFails
  <1> QED BY <1>1, <1>2, <1>3, <1>4, <1>5 DEF HookStep

\* The steps of updateWinnings keep the types.
LEMMA AdminType ==
  ASSUME TypeOK, ConstantsAssumption, NEW a \in Admins
  PROVE  /\ \A w \in Winnings, to \in AdminTargets :
              AdminReadsPayment(a, w, to) => TypeOK'
         /\ AdminStep(a) => TypeOK'
  <1> USE DEF paymentVars, requestVars, OTC!TypeOK
  <1>1. ASSUME NEW w \in Winnings, NEW to \in AdminTargets, AdminReadsPayment(a, w, to)
        PROVE  TypeOK'
    <2>1. admin' \in [Admins -> AdminCalls]
      BY <1>1 DEF TypeOK, AdminReadsPayment, AdminCalls
    <2> QED BY <1>1, <2>1 DEF TypeOK, AdminReadsPayment
  <1>2. ASSUME AdminReadsRelease(a) PROVE TypeOK'
    <2>1. admin[a] \in AdminCalls /\ admin[a].pc = "release"
      BY <1>2 DEF TypeOK, AdminReadsRelease
    <2>2. admin[a] \in [pc : {"release", "commit"}, w : Winnings, to : AdminTargets,
                        st : PaymentStatus, ver : Nat, fail : BOOLEAN]
      BY <2>1 DEF AdminCalls, NoEdit
    <2>3. PICK old \in AgeOfARelease(admin[a].w) :
            admin' = [admin EXCEPT ![a] =
                       [@ EXCEPT !.pc = "commit",
                                 !.fail = (admin[a].to = "OWED" /\ old = "aged")]]
      BY <1>2 DEF AdminReadsRelease
    <2>4. admin' \in [Admins -> AdminCalls]
      BY <2>2, <2>3 DEF TypeOK, AdminCalls
    <2> QED BY <1>2, <2>4 DEF TypeOK, AdminReadsRelease
  <1>3. ASSUME AdminCommits(a) PROVE TypeOK'
    <2>1. admin[a] \in AdminCalls /\ admin[a].pc = "commit"
      BY <1>3 DEF TypeOK, AdminCommits
    <2>2. admin[a] \in [pc : {"release", "commit"}, w : Winnings, to : AdminTargets,
                        st : PaymentStatus, ver : Nat, fail : BOOLEAN]
      BY <2>1 DEF AdminCalls, NoEdit
    <2>3. admin[a].to \in PaymentStatus
      BY <2>2 DEF ConstantsAssumption, AdminStatuses, PaymentStatus
    <2>4. status' \in [Winnings -> PaymentStatus] /\ version' \in [Winnings -> Nat]
      BY <1>3, <2>2, <2>3 DEF TypeOK, AdminCommits
    <2>5. datePaid' \in [Winnings -> BOOLEAN]
      BY <1>3, <2>2 DEF TypeOK, AdminCommits
    <2>6. release' \in [Withdrawals -> ReleaseStatus]
      BY <1>3 DEF TypeOK, AdminCommits, ReleaseStatus
    <2>7. admin' \in [Admins -> AdminCalls]
      BY <1>3 DEF TypeOK, AdminCommits, AdminCalls
    <2>8. recon' \in [Reconcilers -> {"idle", "due", "owe", "hold"}]
      BY <1>3 DEF TypeOK, AdminCommits
    <2> QED BY <1>3, <2>4, <2>5, <2>6, <2>7, <2>8 DEF TypeOK, AdminCommits
  <1>4. ASSUME AdminGivesUp(a) PROVE TypeOK'
    <2>1. admin' \in [Admins -> AdminCalls]
      BY <1>4 DEF TypeOK, AdminGivesUp, AdminCalls
    <2> QED BY <1>4, <2>1 DEF TypeOK, AdminGivesUp
  <1> QED BY <1>1, <1>2, <1>3, <1>4 DEF AdminStep

\* The steps of reconcileUserPayments and of the set-up handlers keep the types.
LEMMA ReconcileType ==
  ASSUME TypeOK, NEW x \in Reconcilers
  PROVE  SetupChanges(x) \/ ReconcileStep(x) \/ ReconcileFails(x) => TypeOK'
  <1> USE DEF paymentVars, requestVars, OTC!TypeOK
  <1>1. SetupChanges(x) => TypeOK'
    BY DEF TypeOK, SetupChanges
  <1>2. ReconcileReads(x) => TypeOK'
    BY DEF TypeOK, ReconcileReads
  <1>3. ReconcileToggles(x) => TypeOK'
    BY DEF TypeOK, ReconcileToggles, Toggle, PaymentStatus
  <1>4. ReconcileFails(x) => TypeOK'
    BY DEF TypeOK, ReconcileFails
  <1> QED BY <1>1, <1>2, <1>3, <1>4 DEF ReconcileStep

\* The steps of Trolley, of the codes and of the clock keep the types, and so does a call
\* that starts.
LEMMA EnvironmentType ==
  ASSUME TypeOK
  PROVE  /\ \A r \in Withdrawals :
              TrolleySettles(r) \/ TrolleyReturns(r) \/ ReleaseAges(r) => TypeOK'
         /\ \A c \in Codes : IssueCode(c) \/ ExpireCode(c) => TypeOK'
         /\ \A r \in Withdrawals, W \in SUBSET Winnings, c \in Codes :
              Withdraw(r, W, c) => TypeOK'
  <1> USE DEF paymentVars, requestVars, OTC!TypeOK, OTC!CodeStates, TrolleyStates
  <1>1. ASSUME NEW r \in Withdrawals, TrolleySettles(r) PROVE TypeOK'
    <2>1. PICK k \in {"processed", "failed"} :
            trolley' = [trolley EXCEPT ![r] = k] /\ Emit(r, k)
      BY <1>1 DEF TrolleySettles
    <2>2. trolley' \in [Withdrawals -> TrolleyStates]
      BY <2>1 DEF TypeOK
    <2>3. emitted' \subseteq Withdrawals \X Kinds
      BY <2>1 DEF TypeOK, Emit, Kinds
    <2> QED BY <1>1, <2>2, <2>3 DEF TypeOK, TrolleySettles
  <1>2. ASSUME NEW r \in Withdrawals, TrolleyReturns(r) PROVE TypeOK'
    BY <1>2 DEF TypeOK, TrolleyReturns, Emit, Kinds
  <1>3. ASSUME NEW r \in Withdrawals, ReleaseAges(r) PROVE TypeOK'
    BY <1>3 DEF TypeOK, ReleaseAges
  <1>4. ASSUME NEW c \in Codes, IssueCode(c) \/ ExpireCode(c) PROVE TypeOK'
    BY <1>4 DEF TypeOK, IssueCode, ExpireCode, OTC!Issue, OTC!Expire
  <1>5. ASSUME NEW r \in Withdrawals, NEW W \in SUBSET Winnings, NEW c \in Codes,
               Withdraw(r, W, c)
        PROVE  TypeOK'
    BY <1>5 DEF TypeOK, Withdraw, GoTo, Steps
  <1> QED BY <1>1, <1>2, <1>3, <1>4, <1>5

\* Every step keeps the types.
LEMMA TypeStep == ASSUME TypeOK, [Next]_vars PROVE TypeOK'
  <1>1. CASE UNCHANGED vars
    BY <1>1 DEF TypeOK, vars, OTC!TypeOK
  <1>2. CASE Next
    BY <1>2, ConstantsAssumption, WithdrawType, HookType, AdminType, ReconcileType,
       EnvironmentType DEF Next, Reconcilers
  <1> QED BY <1>1, <1>2

\* Every variable of the payout path keeps its type: in particular a status written
\* from a webhook or an admin request is always one the enum payment_status has.
THEOREM TypeCorrect == Spec => []TypeOK
  BY InitType, TypeStep, PTL DEF Spec

-----------------------------------------------------------------------------
(***************************************************************************)
(* Flow: pc, release, trolley, emitted and hook agree.                     *)
(***************************************************************************)

\* What a webhook handler at work may rely on.
LEMMA HookFacts ==
  ASSUME TypeOK, Flow, NEW h \in Hooks, hook[h] # "idle"
  PROVE  /\ h[1] \in Withdrawals /\ h[2] \in Kinds
         /\ release[h[1]] # "none"
         /\ h[2] = "processed" => PaidOut(h[1])
         /\ h[2] = "failed" => trolley[h[1]] = "failed"
         /\ h[2] = "returned" => trolley[h[1]] = "returned"
  <1>1. h[1] \in Withdrawals /\ h[2] \in Kinds
    BY DEF Hooks
  <1>2. PICK e \in emitted : e[1] = h[1] /\ e[2] = h[2]
    BY DEF Flow
  <1>3. /\ h[2] = "processed" => PaidOut(h[1])
        /\ h[2] = "failed" => trolley[h[1]] = "failed"
        /\ h[2] = "returned" => trolley[h[1]] = "returned"
    BY <1>2 DEF Flow
  <1>4. trolley[h[1]] # "none"
    BY <1>1, <1>3 DEF Kinds, PaidOut
  <1> QED BY <1>1, <1>3, <1>4 DEF Flow

\* Every step keeps calls, releases, Trolley payments and events in line with each other.
LEMMA FlowStep == ASSUME TypeOK, Flow, [Next]_vars PROVE Flow'
  <1> USE DEF Flow, Early, PaidOut, GoTo, SetRelease, HookGoTo, requestVars
  <1>1. CASE UNCHANGED <<pc, release, trolley, emitted, hook>>
    BY <1>1
  <1>2. ASSUME NEW r \in Withdrawals, NEW W \in SUBSET Winnings, NEW c \in Codes,
               Withdraw(r, W, c)
        PROVE  Flow'
    BY <1>2 DEF TypeOK, Withdraw
  <1>3. ASSUME NEW r \in Withdrawals, WithdrawStep(r) PROVE Flow'
    <2>1. CASE SelectReleasable(r)
      BY <2>1 DEF TypeOK, SelectReleasable
    <2>2. CASE VerifyOtp(r)
      BY <2>2 DEF TypeOK, VerifyOtp
    <2>3. CASE CreateRelease(r)
      BY <2>3 DEF TypeOK, CreateRelease
    <2>4. CASE CreatePayment(r)
      BY <2>4 DEF TypeOK, CreatePayment
    <2>5. CASE MarkProcessing(r)
      BY <2>5 DEF TypeOK, MarkProcessing
    <2>6. CASE MarkProcessingFails(r)
      BY <2>6 DEF TypeOK, MarkProcessingFails
    <2>7. CASE FailRelease(r)
      BY <2>7 DEF TypeOK, FailRelease
    <2>8. CASE RemovePayment(r)
      BY <2>8 DEF TypeOK, RemovePayment
    <2>9. CASE StartProcessing(r)
      BY <2>9 DEF TypeOK, StartProcessing
    <2>10. CASE StartProcessingFails(r)
      BY <2>10 DEF TypeOK, StartProcessingFails
    <2>11. CASE RevertToOwed(r)
      BY <2>11 DEF TypeOK, RevertToOwed
    <2> QED
      BY <1>3, <2>1, <2>2, <2>3, <2>4, <2>5, <2>6, <2>7, <2>8, <2>9, <2>10, <2>11
         DEF WithdrawStep
  <1>4. ASSUME NEW r \in Withdrawals, Refuse(r) PROVE Flow'
    BY <1>4 DEF TypeOK, Refuse
  <1>5. ASSUME NEW r \in Withdrawals, Abort(r) PROVE Flow'
    BY <1>5 DEF TypeOK, Abort, Running
  <1>6. ASSUME NEW r \in Withdrawals, TrolleySettles(r) PROVE Flow'
    BY <1>6 DEF TypeOK, TrolleySettles, Emit
  <1>7. ASSUME NEW r \in Withdrawals, TrolleyReturns(r) PROVE Flow'
    BY <1>7 DEF TypeOK, TrolleyReturns, Emit
  <1>8. ASSUME NEW h \in Hooks, HookStep(h) \/ HookFails(h) PROVE Flow'
    <2>1. h[1] \in Withdrawals
      BY DEF Hooks
    <2>2. CASE HookStarts(h)
      BY <2>2 DEF TypeOK, HookStarts
    <2>3. CASE HookPayments(h)
      BY <2>3 DEF TypeOK, HookPayments
    <2>4. CASE HookChecks(h)
      BY <2>4 DEF TypeOK, HookChecks
    <2>5. CASE HookWrites(h)
      <3>1. release[h[1]] # "none"
        BY <2>5, HookFacts DEF HookWrites
      <3>2. ReleaseStatusOf(h[2]) # "none"
        BY DEF Hooks, Kinds, ReleaseStatusOf, PaymentStatusOf
      <3> QED BY <2>1, <2>5, <3>1, <3>2 DEF TypeOK, HookWrites
    <2>6. CASE HookFails(h)
      BY <2>6 DEF TypeOK, HookFails
    <2> QED BY <1>8, <2>2, <2>3, <2>4, <2>5, <2>6 DEF HookStep
  <1>9. ASSUME NEW a \in Admins, AdminCommits(a) PROVE Flow'
    BY <1>9 DEF TypeOK, AdminCommits, ReleasesOf
  <1> QED
    BY <1>1, <1>2, <1>3, <1>4, <1>5, <1>6, <1>7, <1>8, <1>9
       DEF Next, vars, paymentVars, IssueCode, ExpireCode, ReleaseAges, AdminStep,
           AdminReadsPayment, AdminReadsRelease, AdminGivesUp, SetupChanges,
           ReconcileStep, ReconcileReads, ReconcileToggles, ReconcileFails

\* They are in line in every reachable state.
LEMMA FlowHolds == Spec => []Flow
  <1>1. Init => Flow
    BY DEF Init, Flow, Early, PaidOut
  <1> QED BY <1>1, FlowStep, TypeCorrect, PTL DEF Spec

-----------------------------------------------------------------------------
(***************************************************************************)
(* OneReleasePerCode.                                                      *)
(***************************************************************************)

\* Releases appear only when a call creates them, and never disappear.
LEMMA ReleaseSteps ==
  ASSUME TypeOK, Flow, [Next]_vars, NEW r \in Withdrawals
  PROVE  /\ release[r] # "none" => release'[r] # "none"
         /\ release[r] = "none" /\ release'[r] # "none" => CreateRelease(r)
         /\ release[r] # "none" => chosen'[r] = chosen[r] /\ given'[r] = given[r]
  <1>1. CASE UNCHANGED <<release, chosen, given>>
    BY <1>1
  <1>2. ASSUME NEW q \in Withdrawals, NEW W \in SUBSET Winnings, NEW c \in Codes,
               Withdraw(q, W, c)
        PROVE  /\ UNCHANGED release
               /\ release[r] # "none" => chosen'[r] = chosen[r] /\ given'[r] = given[r]
    BY <1>2 DEF TypeOK, Withdraw, Flow, Early
  <1>3. ASSUME NEW q \in Withdrawals, CreateRelease(q)
        PROVE  /\ UNCHANGED <<chosen, given>> /\ release'[q] # "none"
               /\ \A p \in Withdrawals \ {q} : release'[p] = release[p]
    BY <1>3 DEF TypeOK, CreateRelease, SetRelease
  <1>4. ASSUME NEW q \in Withdrawals, FailRelease(q)
        PROVE  /\ UNCHANGED <<chosen, given>> /\ release[q] # "none"
               /\ release'[q] # "none"
               /\ \A p \in Withdrawals \ {q} : release'[p] = release[p]
    BY <1>4 DEF TypeOK, FailRelease, SetRelease, Flow, Early
  <1>5. ASSUME NEW q \in Withdrawals, Refuse(q)
        PROVE  /\ UNCHANGED release
               /\ release[r] # "none" => chosen'[r] = chosen[r] /\ given'[r] = given[r]
    BY <1>5 DEF TypeOK, Refuse, Flow, Early
  <1>6. ASSUME NEW h \in Hooks, HookWrites(h)
        PROVE  /\ UNCHANGED <<chosen, given>> /\ release[h[1]] # "none"
               /\ release'[h[1]] # "none"
               /\ \A p \in Withdrawals \ {h[1]} : release'[p] = release[p]
    <2>1. h[1] \in Withdrawals /\ h[2] \in Kinds /\ release[h[1]] # "none"
      BY <1>6, HookFacts DEF HookWrites
    <2>2. ReleaseStatusOf(h[2]) # "none"
      BY <2>1 DEF Kinds, ReleaseStatusOf, PaymentStatusOf
    <2> QED BY <1>6, <2>1, <2>2 DEF TypeOK, HookWrites, SetRelease, requestVars
  <1>7. ASSUME NEW a \in Admins, AdminCommits(a)
        PROVE  /\ UNCHANGED <<chosen, given>>
               /\ release[r] = "none" <=> release'[r] = "none"
    BY <1>7 DEF TypeOK, AdminCommits, ReleasesOf, requestVars
  <1> QED
    BY <1>1, <1>2, <1>3, <1>4, <1>5, <1>6, <1>7
       DEF Next, vars, requestVars, WithdrawStep, SelectReleasable, VerifyOtp,
           CreatePayment, MarkProcessing, MarkProcessingFails, RemovePayment,
           StartProcessing, StartProcessingFails, RevertToOwed, Abort, TrolleySettles,
           TrolleyReturns, ReleaseAges, IssueCode, ExpireCode, HookStep, HookStarts,
           HookPayments, HookChecks, HookFails, AdminStep, AdminReadsPayment,
           AdminReadsRelease, AdminGivesUp, SetupChanges, ReconcileStep,
           ReconcileReads, ReconcileToggles, ReconcileFails

\* verified_at is never cleared: a code that was used stays used.
LEMMA SpentStaysSpent ==
  ASSUME TypeOK, [Next]_vars, NEW c \in Codes, otp[c] = "used"
  PROVE  otp'[c] = "used"
  <1>1. CASE UNCHANGED otp
    BY <1>1
  <1>2. ASSUME NEW r \in Withdrawals, VerifyOtp(r) PROVE otp'[c] = "used"
    BY <1>2 DEF TypeOK, OTC!TypeOK, VerifyOtp, OTC!Use
  <1>3. ASSUME NEW d \in Codes, IssueCode(d) \/ ExpireCode(d) PROVE otp'[c] = "used"
    BY <1>3 DEF TypeOK, OTC!TypeOK, IssueCode, ExpireCode, OTC!Issue, OTC!Expire
  <1> QED
    BY <1>1, <1>2, <1>3
       DEF Next, vars, Withdraw, WithdrawStep, SelectReleasable, CreateRelease,
           CreatePayment, MarkProcessing, MarkProcessingFails, FailRelease,
           RemovePayment, StartProcessing, StartProcessingFails, RevertToOwed, Refuse,
           Abort, TrolleySettles, TrolleyReturns, ReleaseAges, HookStep, HookStarts,
           HookPayments, HookChecks, HookWrites, HookFails, AdminStep,
           AdminReadsPayment, AdminReadsRelease, AdminCommits, AdminGivesUp,
           SetupChanges, ReconcileStep, ReconcileReads, ReconcileToggles,
           ReconcileFails

\* A call comes to hold its code only by having it verified.
LEMMA HoldsSteps ==
  ASSUME TypeOK, Flow, [Next]_vars, NEW r \in Withdrawals, Holds(r)', ~VerifyOtp(r)
  PROVE  Holds(r) /\ given'[r] = given[r]
  <1>1. CASE release'[r] # "none"
    <2>1. CASE release[r] # "none"
      BY <2>1, ReleaseSteps DEF Holds
    <2>2. CASE release[r] = "none"
      BY <1>1, <2>2, ReleaseSteps DEF Holds, CreateRelease
    <2> QED BY <2>1, <2>2
  <1>2. CASE pc'[r] = "create" /\ release'[r] = "none"
    <2> USE DEF TypeOK, GoTo
    <2>1. CASE UNCHANGED <<pc, given>>
      BY <1>2, <2>1 DEF Holds
    <2>2. ASSUME NEW q \in Withdrawals, NEW W \in SUBSET Winnings, NEW c \in Codes,
                 Withdraw(q, W, c)
          PROVE  pc[r] = "create" /\ given'[r] = given[r]
      BY <1>2, <2>2 DEF Withdraw
    <2>3. ASSUME NEW q \in Withdrawals, VerifyOtp(q)
          PROVE  pc[r] = "create" /\ given'[r] = given[r]
      BY <1>2, <2>3 DEF VerifyOtp
    <2>4. ASSUME NEW q \in Withdrawals, Refuse(q)
          PROVE  pc[r] = "create" /\ given'[r] = given[r]
      BY <1>2, <2>4 DEF Refuse
    <2>5. ASSUME NEW q \in Withdrawals,
                 \/ SelectReleasable(q) \/ CreateRelease(q) \/ CreatePayment(q)
                 \/ MarkProcessing(q) \/ MarkProcessingFails(q) \/ FailRelease(q)
                 \/ RemovePayment(q) \/ StartProcessing(q) \/ StartProcessingFails(q)
                 \/ RevertToOwed(q) \/ Abort(q)
          PROVE  pc[r] = "create" /\ given'[r] = given[r]
      BY <1>2, <2>5
         DEF SelectReleasable, CreateRelease, CreatePayment, MarkProcessing,
             MarkProcessingFails, FailRelease, RemovePayment, StartProcessing,
             StartProcessingFails, RevertToOwed, Abort
    <2> QED
      BY <2>1, <2>2, <2>3, <2>4, <2>5
         DEF Holds, Next, vars, requestVars, WithdrawStep, TrolleySettles, TrolleyReturns,
             ReleaseAges, IssueCode, ExpireCode, HookStep, HookStarts, HookPayments,
             HookChecks, HookWrites, HookFails, AdminStep, AdminReadsPayment,
             AdminReadsRelease, AdminCommits, AdminGivesUp, SetupChanges, ReconcileStep,
             ReconcileReads, ReconcileToggles, ReconcileFails
  <1> QED BY <1>1, <1>2 DEF Holds

\* Every step keeps codes spent on one call each.
LEMMA CodeInvStep == ASSUME TypeOK, Flow, CodeInv, [Next]_vars PROVE CodeInv'
  <1>1. CASE \A r \in Withdrawals : ~VerifyOtp(r)
    <2>1. ASSUME NEW r \in Withdrawals, Holds(r)'
          PROVE  Holds(r) /\ given'[r] = given[r]
      BY <1>1, <2>1, HoldsSteps
    <2> QED BY <2>1, SpentStaysSpent DEF CodeInv
  <1>2. ASSUME NEW p \in Withdrawals, VerifyOtp(p) PROVE CodeInv'
    <2>1. /\ given[p] \in Codes /\ otp[given[p]] = "live" /\ otp'[given[p]] = "used"
          /\ UNCHANGED <<given, release>>
          /\ \A r \in Withdrawals \ {p} : pc'[r] = pc[r]
      BY <1>2 DEF TypeOK, OTC!TypeOK, VerifyOtp, OTC!Use, GoTo
    <2>2. ASSUME NEW r \in Withdrawals, r # p, Holds(r)'
          PROVE  Holds(r) /\ given[r] # given[p]
      <3>1. Holds(r)
        BY <2>1, <2>2 DEF Holds
      <3> QED BY <2>1, <3>1 DEF CodeInv
    <2> QED BY <2>1, <2>2, SpentStaysSpent DEF CodeInv
  <1> QED BY <1>1, <1>2

\* However many withdraw calls overlap, crash or fail: each one-time code carries at
\* most one payout, so the number of payouts never exceeds the number of codes issued.
THEOREM OneReleasePerCodeHolds == Spec => []OneReleasePerCode
  <1>1. Init => CodeInv
    BY DEF Init, CodeInv, Holds
  <1>2. CodeInv => OneReleasePerCode
    BY DEF CodeInv, OneReleasePerCode, Holds
  <1> QED BY <1>1, <1>2, CodeInvStep, FlowHolds, TypeCorrect, PTL DEF Spec

\* Withdrawals, webhooks, admins and reconciliations treat codes as OneTimeCodes says, which
\* is what Otp implements: a code is used once, in a step of the call that verified it, and
\* no crash, retry or taking back makes it live again.
THEOREM CodesUsedAsSpecified == Spec => OTC!Spec
  <1>1. Init => OTC!Init
    BY DEF Init
  <1>2. ASSUME TypeOK, [Next]_vars PROVE [OTC!Next]_otp
    <2>1. CASE UNCHANGED otp
      BY <2>1
    <2>2. ASSUME NEW r \in Withdrawals, VerifyOtp(r) PROVE OTC!Next
      <3>1. given[r] \in Codes
        BY <2>2 DEF VerifyOtp
      <3> QED BY <2>2, <3>1 DEF VerifyOtp, OTC!Next
    <2>3. ASSUME NEW c \in Codes, IssueCode(c) PROVE OTC!Next
      BY <2>3 DEF IssueCode, OTC!Next
    <2>4. ASSUME NEW c \in Codes, ExpireCode(c) PROVE OTC!Next
      BY <2>4 DEF ExpireCode, OTC!Next
    <2> QED
      BY <1>2, <2>1, <2>2, <2>3, <2>4
         DEF Next, vars, Withdraw, WithdrawStep, SelectReleasable, CreateRelease,
             CreatePayment, MarkProcessing, MarkProcessingFails, FailRelease,
             RemovePayment, StartProcessing, StartProcessingFails, RevertToOwed, Refuse,
             Abort, TrolleySettles, TrolleyReturns, ReleaseAges, HookStep, HookStarts,
             HookPayments, HookChecks, HookWrites, HookFails, AdminStep,
             AdminReadsPayment, AdminReadsRelease, AdminCommits, AdminGivesUp, SetupChanges,
             ReconcileStep, ReconcileReads, ReconcileToggles, ReconcileFails
  <1> QED BY <1>1, <1>2, TypeCorrect, PTL DEF Spec, OTC!Spec

-----------------------------------------------------------------------------
(***************************************************************************)
(* PaidMeansPaidOut and ProcessingHasPayment.                              *)
(***************************************************************************)

\* What a step can do to the Trolley payment of a release.
LEMMA TrolleySteps ==
  ASSUME TypeOK, Flow, [Next]_vars, NEW r \in Withdrawals
  PROVE  /\ PaidOut(r) => PaidOut(r)'
         /\ trolley[r] \notin {"none", "removed"} /\ pc[r] # "remove" =>
              trolley'[r] \notin {"none", "removed"}
  <1> USE DEF TypeOK, Flow, Early, PaidOut
  <1>1. CASE UNCHANGED trolley
    BY <1>1
  <1>2. ASSUME NEW q \in Withdrawals, CreatePayment(q) \/ RemovePayment(q)
        PROVE  /\ PaidOut(r) => PaidOut(r)'
               /\ trolley[r] \notin {"none", "removed"} /\ pc[r] # "remove" =>
                    trolley'[r] \notin {"none", "removed"}
    BY <1>2 DEF CreatePayment, RemovePayment
  <1>3. ASSUME NEW q \in Withdrawals,
               StartProcessing(q) \/ StartProcessingFails(q) \/ Abort(q)
        PROVE  /\ PaidOut(r) => PaidOut(r)'
               /\ trolley[r] \notin {"none", "removed"} => trolley'[r] \notin {"none", "removed"}
    BY <1>3 DEF StartProcessing, StartProcessingFails, Abort
  <1>4. ASSUME NEW q \in Withdrawals, TrolleySettles(q) \/ TrolleyReturns(q)
        PROVE  /\ PaidOut(r) => PaidOut(r)'
               /\ trolley[r] \notin {"none", "removed"} => trolley'[r] \notin {"none", "removed"}
    BY <1>4 DEF TrolleySettles, TrolleyReturns
  <1> QED
    BY <1>1, <1>2, <1>3, <1>4
       DEF Next, vars, Withdraw, WithdrawStep, SelectReleasable, VerifyOtp,
           CreateRelease, MarkProcessing, MarkProcessingFails, FailRelease,
           RevertToOwed, Refuse, ReleaseAges, IssueCode, ExpireCode, HookStep,
           HookStarts, HookPayments, HookChecks, HookWrites, HookFails, AdminStep,
           AdminReadsPayment, AdminReadsRelease, AdminCommits, AdminGivesUp,
           SetupChanges, ReconcileStep, ReconcileReads, ReconcileToggles,
           ReconcileFails

\* A payout that was made stays one, for the winnings it is part of.
LEMMA PaidOutStays ==
  ASSUME TypeOK, Flow, [Next]_vars, NEW w \in Winnings,
         \E r \in ReleasesOf(w) : PaidOut(r)
  PROVE  (\E r \in ReleasesOf(w) : PaidOut(r))'
  <1>1. PICK r \in Withdrawals : release[r] # "none" /\ w \in chosen[r] /\ PaidOut(r)
    BY DEF ReleasesOf
  <1>2. release'[r] # "none" /\ w \in chosen'[r] /\ PaidOut(r)'
    BY <1>1, ReleaseSteps, TrolleySteps
  <1> QED BY <1>2 DEF ReleasesOf

\* Every step keeps paid marks truthful: only a processed event sets them, and the statuses
\* the other writers set carry no date.
LEMMA PaidStep ==
  ASSUME TypeOK, Flow, PaidMeansPaidOut, [Next]_vars
  PROVE  PaidMeansPaidOut'
  <1>1. CASE UNCHANGED <<status, datePaid>>
    BY <1>1, PaidOutStays DEF PaidMeansPaidOut
  <1>2. ASSUME NEW W \in SUBSET Winnings, NEW s \in {"PROCESSING", "OWED", "FAILED", "RETURNED"},
               UpdateProcessingState(W, s)
        PROVE  PaidMeansPaidOut'
    <2>1. \A w \in Winnings : /\ status'[w] = "PAID" => status[w] = "PAID"
                              /\ datePaid'[w] = datePaid[w]
      BY <1>2 DEF TypeOK, UpdateProcessingState
    <2> QED BY <2>1, PaidOutStays DEF PaidMeansPaidOut
  <1>3. ASSUME NEW h \in Hooks, HookPayments(h) PROVE PaidMeansPaidOut'
    <2>1. /\ h[1] \in Withdrawals /\ h[2] \in Kinds /\ release[h[1]] # "none"
          /\ h[2] = "processed" => PaidOut(h[1])
      BY <1>3, HookFacts DEF HookPayments
    <2>2. chosen[h[1]] \in SUBSET Winnings
      BY <2>1 DEF TypeOK
    <2>3. CASE h[2] # "processed"
      BY <1>2, <1>3, <2>1, <2>2, <2>3 DEF HookPayments, PaymentStatusOf, Kinds
    <2>4. CASE h[2] = "processed"
      <3>1. UpdateProcessingState(chosen[h[1]], "PAID")
        BY <1>3, <2>4 DEF HookPayments, PaymentStatusOf
      <3>2. ASSUME NEW w \in Winnings, w \in chosen[h[1]]
            PROVE  (\E r \in ReleasesOf(w) : PaidOut(r))'
        BY <2>1, <2>4, <3>2, PaidOutStays DEF ReleasesOf
      <3>3. ASSUME NEW w \in Winnings
            PROVE  /\ status'[w] = "PAID" => datePaid'[w]
                   /\ datePaid'[w] => w \in chosen[h[1]] \/ datePaid[w]
        BY <3>1 DEF PaidMeansPaidOut, TypeOK, UpdateProcessingState
      <3>4. ASSUME NEW w \in Winnings, datePaid[w]
            PROVE  (\E r \in ReleasesOf(w) : PaidOut(r))'
        BY <3>4, PaidOutStays DEF PaidMeansPaidOut
      <3>5. ASSUME NEW w \in Winnings, datePaid'[w]
            PROVE  (\E r \in ReleasesOf(w) : PaidOut(r))'
        BY <3>2, <3>3, <3>4, <3>5
      <3> QED BY <3>3, <3>5 DEF PaidMeansPaidOut
    <2> QED BY <2>3, <2>4
  <1>4. ASSUME NEW a \in Admins, AdminCommits(a) PROVE PaidMeansPaidOut'
    <2>1. admin[a] \in [pc : {"release", "commit"}, w : Winnings, to : AdminTargets,
                        st : PaymentStatus, ver : Nat, fail : BOOLEAN]
      BY <1>4 DEF TypeOK, AdminCommits, AdminCalls, NoEdit
    <2>2. admin[a].to # "PAID"
      BY <2>1, ConstantsAssumption DEF ConstantsAssumption, AdminStatuses
    <2>3. \A w \in Winnings : /\ status'[w] = "PAID" => status[w] = "PAID" /\ w # admin[a].w
                              /\ datePaid'[w] => datePaid[w]
                              /\ w # admin[a].w /\ datePaid[w] => datePaid'[w]
      BY <1>4, <2>1, <2>2 DEF TypeOK, AdminCommits
    <2>4. ASSUME NEW w \in Winnings
          PROVE  /\ status'[w] = "PAID" => datePaid'[w]
                 /\ datePaid'[w] => datePaid[w]
      <3>1. status[w] = "PAID" => datePaid[w]
        BY DEF PaidMeansPaidOut
      <3> QED BY <2>3, <3>1
    <2> QED BY <2>4, PaidOutStays DEF PaidMeansPaidOut
  <1>5. ASSUME NEW x \in Reconcilers, ReconcileToggles(x) PROVE PaidMeansPaidOut'
    <2>1. \A w \in Winnings : status'[w] = "PAID" => status[w] = "PAID"
      BY <1>5 DEF ReconcileToggles, Toggle
    <2> QED BY <1>5, <2>1, PaidOutStays DEF ReconcileToggles, PaidMeansPaidOut
  <1>6. ASSUME NEW r \in Withdrawals, MarkProcessing(r) \/ RevertToOwed(r)
        PROVE  PaidMeansPaidOut'
    BY <1>2, <1>6 DEF TypeOK, MarkProcessing, RevertToOwed
  <1> QED
    BY <1>1, <1>3, <1>4, <1>5, <1>6
       DEF Next, vars, paymentVars, Withdraw, WithdrawStep, SelectReleasable, VerifyOtp,
           CreateRelease, CreatePayment, MarkProcessingFails, FailRelease,
           RemovePayment, StartProcessing, StartProcessingFails, Refuse, Abort,
           TrolleySettles, TrolleyReturns, ReleaseAges, IssueCode, ExpireCode,
           HookStep, HookStarts, HookChecks, HookWrites, HookFails, AdminStep,
           AdminReadsPayment, AdminReadsRelease, AdminGivesUp, SetupChanges,
           ReconcileStep, ReconcileReads, ReconcileFails

\* Whatever overlaps, fails, is lost, repeated or reordered: a payment is PAID only if
\* Trolley paid out a release it is part of.
THEOREM PaidMeansPaidOutHolds == Spec => []PaidMeansPaidOut
  <1>1. Init => PaidMeansPaidOut
    BY DEF Init, PaidMeansPaidOut
  <1> QED BY <1>1, PaidStep, FlowHolds, TypeCorrect, PTL DEF Spec

\* Once a call has marked its payments PROCESSING, it only goes on to its end.
LEMMA CallSteps ==
  ASSUME TypeOK, [Next]_vars, NEW r \in Withdrawals,
         pc[r] \in {"start", "revert", "failrelease", "done"}
  PROVE  pc'[r] \in {"start", "revert", "failrelease", "done"}
  <1> USE DEF TypeOK, GoTo, Steps
  <1>1. CASE UNCHANGED pc
    BY <1>1
  <1>2. ASSUME NEW q \in Withdrawals, NEW W \in SUBSET Winnings, NEW c \in Codes,
               Withdraw(q, W, c)
        PROVE  pc'[r] \in {"start", "revert", "failrelease", "done"}
    BY <1>2 DEF Withdraw
  <1>3. ASSUME NEW q \in Withdrawals,
               SelectReleasable(q) \/ VerifyOtp(q) \/ CreateRelease(q) \/ Refuse(q)
        PROVE  pc'[r] \in {"start", "revert", "failrelease", "done"}
    BY <1>3 DEF SelectReleasable, VerifyOtp, CreateRelease, Refuse
  <1>4. ASSUME NEW q \in Withdrawals,
               CreatePayment(q) \/ MarkProcessing(q) \/ MarkProcessingFails(q)
                 \/ RemovePayment(q)
        PROVE  pc'[r] \in {"start", "revert", "failrelease", "done"}
    BY <1>4 DEF CreatePayment, MarkProcessing, MarkProcessingFails, RemovePayment
  <1>5. ASSUME NEW q \in Withdrawals,
               FailRelease(q) \/ StartProcessing(q) \/ StartProcessingFails(q)
                 \/ RevertToOwed(q) \/ Abort(q)
        PROVE  pc'[r] \in {"start", "revert", "failrelease", "done"}
    BY <1>5 DEF FailRelease, StartProcessing, StartProcessingFails, RevertToOwed, Abort
  <1> QED
    BY <1>1, <1>2, <1>3, <1>4, <1>5
       DEF Next, vars, requestVars, WithdrawStep, TrolleySettles, TrolleyReturns,
           ReleaseAges, IssueCode, ExpireCode, HookStep, HookStarts, HookPayments,
           HookChecks, HookWrites, HookFails, AdminStep, AdminReadsPayment,
           AdminReadsRelease, AdminCommits, AdminGivesUp, SetupChanges, ReconcileStep,
           ReconcileReads, ReconcileToggles, ReconcileFails

\* Every step keeps the release that justifies PROCESSING: only MarkProcessing sets it, and
\* a call that has come that far does not remove its payment.
LEMMA ProcessingStep ==
  ASSUME TypeOK, Flow, ProcessingInv, [Next]_vars
  PROVE  ProcessingInv'
  <1> DEFINE Witness(r, w) == /\ release[r] # "none" /\ w \in chosen[r]
                              /\ trolley[r] \notin {"none", "removed"}
                              /\ pc[r] \in {"start", "revert", "failrelease", "done"}
  <1>1. ASSUME NEW r \in Withdrawals, NEW w \in Winnings, Witness(r, w)
        PROVE  Witness(r, w)'
    <2>1. release'[r] # "none" /\ w \in chosen'[r] /\ trolley'[r] \notin {"none", "removed"}
      BY <1>1, ReleaseSteps, TrolleySteps
    <2>2. pc'[r] \in {"start", "revert", "failrelease", "done"}
      BY <1>1, CallSteps
    <2> QED BY <2>1, <2>2
  <1>2. ASSUME NEW w \in Winnings, status[w] = "PROCESSING"
        PROVE  \E r \in Withdrawals : Witness(r, w)'
    BY <1>1, <1>2 DEF ProcessingInv, ReleasesOf
  <1>3. ASSUME NEW w \in Winnings, status'[w] = "PROCESSING", status[w] # "PROCESSING"
        PROVE  \E r \in Withdrawals : MarkProcessing(r) /\ w \in chosen[r]
    <2>1. ASSUME NEW r \in Withdrawals, MarkProcessing(r) PROVE w \in chosen[r]
      BY <1>3, <2>1 DEF TypeOK, MarkProcessing, UpdateProcessingState
    <2>2. ASSUME NEW r \in Withdrawals, RevertToOwed(r) PROVE FALSE
      BY <1>3, <2>2 DEF TypeOK, RevertToOwed, UpdateProcessingState
    <2>3. ASSUME NEW h \in Hooks, HookPayments(h) PROVE FALSE
      BY <1>3, <2>3 DEF TypeOK, HookPayments, UpdateProcessingState, PaymentStatusOf,
                        Hooks, Kinds
    <2>4. ASSUME NEW a \in Admins, AdminCommits(a) PROVE FALSE
      <3>1. admin[a] \in [pc : {"release", "commit"}, w : Winnings, to : AdminTargets,
                          st : PaymentStatus, ver : Nat, fail : BOOLEAN]
        BY <2>4 DEF TypeOK, AdminCommits, AdminCalls, NoEdit
      <3>2. admin[a].to # "PROCESSING"
        BY <3>1, ConstantsAssumption DEF ConstantsAssumption, AdminStatuses
      <3> QED BY <1>3, <2>4, <3>1, <3>2 DEF TypeOK, AdminCommits
    <2>5. ASSUME NEW x \in Reconcilers, ReconcileToggles(x) PROVE FALSE
      BY <1>3, <2>5 DEF TypeOK, ReconcileToggles, Toggle
    <2> QED
      BY <1>3, <2>1, <2>2, <2>3, <2>4, <2>5
         DEF Next, vars, paymentVars, Withdraw, WithdrawStep, SelectReleasable,
             VerifyOtp, CreateRelease, CreatePayment, MarkProcessingFails, FailRelease,
             RemovePayment, StartProcessing, StartProcessingFails, Refuse, Abort,
             TrolleySettles, TrolleyReturns, ReleaseAges, IssueCode, ExpireCode,
             HookStep, HookStarts, HookChecks, HookWrites, HookFails, AdminStep,
             AdminReadsPayment, AdminReadsRelease, AdminGivesUp, SetupChanges,
             ReconcileStep, ReconcileReads, ReconcileFails
  <1>4. ASSUME NEW w \in Winnings, NEW r \in Withdrawals, MarkProcessing(r), w \in chosen[r]
        PROVE  Witness(r, w)'
    BY <1>4 DEF TypeOK, Flow, Early, MarkProcessing, GoTo
  <1> QED
    BY <1>2, <1>3, <1>4 DEF ProcessingInv, ReleasesOf

\* A PROCESSING payment can always be traced to a payment at Trolley.
THEOREM ProcessingHasPaymentHolds == Spec => []ProcessingHasPayment
  <1>1. Init => ProcessingInv
    BY DEF Init, ProcessingInv
  <1>2. ProcessingInv => ProcessingHasPayment
    BY DEF ProcessingInv, ProcessingHasPayment
  <1> QED BY <1>1, <1>2, ProcessingStep, FlowHolds, TypeCorrect, PTL DEF Spec

-----------------------------------------------------------------------------
(***************************************************************************)
(* AdminVersionGuard and CancelledRevivedOnlyByPayout.                     *)
(***************************************************************************)

\* The optimistic lock rests on this: every write of a payment moves its version up,
\* except the toggle of the reconciliation, which moves it nowhere.
LEMMA VersionSteps ==
  ASSUME TypeOK, [Next]_vars, NEW w \in Winnings
  PROVE  /\ version[w] \in Nat /\ version'[w] \in Nat /\ version[w] <= version'[w]
         /\ version'[w] = version[w] =>
              \/ status'[w] = status[w]
              \/ {status'[w], status[w]} \subseteq {"OWED", "ON_HOLD"}
  <1> DEFINE Goal == /\ version'[w] \in Nat /\ version[w] <= version'[w]
                     /\ version'[w] = version[w] =>
                          \/ status'[w] = status[w]
                          \/ {status'[w], status[w]} \subseteq {"OWED", "ON_HOLD"}
  <1>0. version[w] \in Nat
    BY DEF TypeOK
  <1>1. CASE UNCHANGED <<status, version>>
    BY <1>0, <1>1
  <1>2. ASSUME NEW W \in SUBSET Winnings, NEW s \in PaymentStatus,
               UpdateProcessingState(W, s)
        PROVE  Goal
    BY <1>0, <1>2 DEF TypeOK, UpdateProcessingState
  <1>3. ASSUME NEW h \in Hooks, HookPayments(h) PROVE Goal
    <2>1. h[1] \in Withdrawals /\ PaymentStatusOf(h[2]) \in PaymentStatus
      BY EventTypes DEF Hooks
    <2>2. chosen[h[1]] \in SUBSET Winnings
      BY <2>1 DEF TypeOK
    <2> QED BY <1>2, <1>3, <2>1, <2>2 DEF HookPayments
  <1>4. ASSUME NEW a \in Admins, AdminCommits(a) PROVE Goal
    BY <1>0, <1>4 DEF TypeOK, AdminCommits, VersionMatches
  <1>5. ASSUME NEW x \in Reconcilers, ReconcileToggles(x) PROVE Goal
    BY <1>0, <1>5 DEF TypeOK, ReconcileToggles, Toggle
  <1>6. ASSUME NEW r \in Withdrawals, MarkProcessing(r) \/ RevertToOwed(r) PROVE Goal
    BY <1>2, <1>6 DEF TypeOK, MarkProcessing, RevertToOwed, PaymentStatus
  <1> QED
    BY <1>0, <1>1, <1>3, <1>4, <1>5, <1>6
       DEF Next, vars, paymentVars, Withdraw, WithdrawStep, SelectReleasable, VerifyOtp,
           CreateRelease, CreatePayment, MarkProcessingFails, FailRelease,
           RemovePayment, StartProcessing, StartProcessingFails, Refuse, Abort,
           TrolleySettles, TrolleyReturns, ReleaseAges, IssueCode, ExpireCode,
           HookStep, HookStarts, HookChecks, HookWrites, HookFails, AdminStep,
           AdminReadsPayment, AdminReadsRelease, AdminGivesUp, SetupChanges,
           ReconcileStep, ReconcileReads, ReconcileFails

\* The fields of an admin call that is under way.
Editing == [pc : {"release", "commit"}, w : Winnings, to : AdminTargets,
            st : PaymentStatus, ver : Nat, fail : BOOLEAN]

\* What a step can do to an admin call: leave it, start it from what it reads, move it
\* on with what it has read, or end it.
LEMMA AdminSteps ==
  ASSUME TypeOK, [Next]_vars, NEW a \in Admins, admin'[a] # NoEdit
  PROVE  \/ admin'[a] = admin[a]
         \/ \E w \in Winnings : /\ UNCHANGED <<status, version>>
                                /\ admin'[a].w = w /\ admin'[a].pc = "release"
                                /\ admin'[a].st = status[w] /\ admin'[a].ver = version[w]
                                /\ ~admin'[a].fail
         \/ /\ admin[a] # NoEdit /\ UNCHANGED <<status, version>>
            /\ admin'[a].w = admin[a].w /\ admin'[a].st = admin[a].st
            /\ admin'[a].ver = admin[a].ver /\ admin'[a].to = admin[a].to
            /\ admin[a].st # "CANCELLED" /\ (admin'[a].fail => admin[a].to = "OWED")
  <1>1. CASE UNCHANGED admin
    BY <1>1
  <1>2. ASSUME NEW b \in Admins, NEW w \in Winnings, NEW to \in AdminTargets,
               AdminReadsPayment(b, w, to)
        PROVE  \/ admin'[a] = admin[a]
               \/ /\ UNCHANGED <<status, version>>
                  /\ admin'[a].w = w /\ admin'[a].pc = "release"
                  /\ admin'[a].st = status[w] /\ admin'[a].ver = version[w]
                  /\ ~admin'[a].fail
    BY <1>2 DEF TypeOK, AdminReadsPayment, paymentVars
  <1>3. ASSUME NEW b \in Admins, AdminReadsRelease(b)
        PROVE  \/ admin'[a] = admin[a]
               \/ /\ admin[a] # NoEdit /\ UNCHANGED <<status, version>>
                  /\ admin'[a].w = admin[a].w /\ admin'[a].st = admin[a].st
                  /\ admin'[a].ver = admin[a].ver /\ admin'[a].to = admin[a].to
                  /\ admin[a].st # "CANCELLED" /\ (admin'[a].fail => admin[a].to = "OWED")
    <2>1. admin[b] \in Editing
      BY <1>3 DEF TypeOK, AdminReadsRelease, AdminCalls, NoEdit, Editing
    <2>2. PICK old \in AgeOfARelease(admin[b].w) :
            /\ Accepts(admin[b].st, admin[b].to, old)
            /\ admin' = [admin EXCEPT ![b] =
                           [@ EXCEPT !.pc = "commit",
                                     !.fail = (admin[b].to = "OWED" /\ old = "aged")]]
      BY <1>3 DEF AdminReadsRelease
    <2>3. CASE a # b
      BY <2>2, <2>3 DEF TypeOK
    <2>4. CASE a = b
      <3>1. admin'[b] = [admin[b] EXCEPT !.pc = "commit",
                                         !.fail = (admin[b].to = "OWED" /\ old = "aged")]
        BY <2>2 DEF TypeOK
      <3>2. /\ admin'[b].w = admin[b].w /\ admin'[b].st = admin[b].st
            /\ admin'[b].ver = admin[b].ver /\ admin'[b].to = admin[b].to
            /\ admin'[b].fail = (admin[b].to = "OWED" /\ old = "aged")
        BY <2>1, <3>1 DEF Editing
      <3>3. admin[b] # NoEdit /\ UNCHANGED <<status, version>>
        BY <1>3, <2>1 DEF AdminReadsRelease, paymentVars, Editing, NoEdit
      <3>4. admin[b].st # "CANCELLED"
        BY <2>2 DEF Accepts
      <3> QED BY <2>4, <3>2, <3>3, <3>4
    <2> QED BY <2>3, <2>4
  <1>4. ASSUME NEW b \in Admins, AdminCommits(b) \/ AdminGivesUp(b)
        PROVE  admin'[a] = admin[a]
    BY <1>4 DEF TypeOK, AdminCommits, AdminGivesUp
  <1> QED
    BY <1>1, <1>2, <1>3, <1>4
       DEF Next, vars, Withdraw, WithdrawStep, SelectReleasable, VerifyOtp,
           CreateRelease, CreatePayment, MarkProcessing, MarkProcessingFails,
           FailRelease, RemovePayment, StartProcessing, StartProcessingFails,
           RevertToOwed, Refuse, Abort, TrolleySettles, TrolleyReturns, ReleaseAges,
           IssueCode, ExpireCode, HookStep, HookStarts, HookPayments, HookChecks,
           HookWrites, HookFails, AdminStep, SetupChanges, ReconcileStep,
           ReconcileReads, ReconcileToggles, ReconcileFails

\* Every step that changes a status counts the version up, but for the toggle between OWED
\* and ON_HOLD.
LEMMA AdminVersionStep ==
  ASSUME TypeOK, AdminVersionGuard, [Next]_vars
  PROVE  AdminVersionGuard'
  <1> SUFFICES ASSUME NEW a \in Admins, admin'[a] # NoEdit
               PROVE  /\ admin'[a].ver <= version'[admin'[a].w]
                      /\ version'[admin'[a].w] = admin'[a].ver =>
                           \/ status'[admin'[a].w] = admin'[a].st
                           \/ {status'[admin'[a].w], admin'[a].st}
                                \subseteq {"OWED", "ON_HOLD"}
    BY DEF AdminVersionGuard, VersionMatches
  <1>1. admin'[a] \in Editing
    BY TypeStep DEF TypeOK, AdminCalls, NoEdit, Editing
  <1>2. ASSUME admin[a] # NoEdit, admin'[a].w = admin[a].w,
               admin'[a].st = admin[a].st, admin'[a].ver = admin[a].ver
        PROVE  /\ admin'[a].ver <= version'[admin'[a].w]
               /\ version'[admin'[a].w] = admin'[a].ver =>
                    \/ status'[admin'[a].w] = admin'[a].st
                    \/ {status'[admin'[a].w], admin'[a].st} \subseteq {"OWED", "ON_HOLD"}
    <2> DEFINE w == admin[a].w
    <2>1. w \in Winnings /\ admin[a].ver \in Nat
      BY <1>1, <1>2 DEF Editing
    <2>2. /\ version[w] \in Nat /\ version'[w] \in Nat /\ version[w] <= version'[w]
          /\ version'[w] = version[w] =>
               \/ status'[w] = status[w]
               \/ {status'[w], status[w]} \subseteq {"OWED", "ON_HOLD"}
      BY <2>1, VersionSteps
    <2>3. /\ admin[a].ver <= version[w]
          /\ version[w] = admin[a].ver =>
               \/ status[w] = admin[a].st
               \/ {status[w], admin[a].st} \subseteq {"OWED", "ON_HOLD"}
      BY <1>2 DEF AdminVersionGuard, VersionMatches
    <2>4. admin[a].ver <= version'[w]
      BY <2>1, <2>2, <2>3
    <2>5. version'[w] = admin[a].ver => version'[w] = version[w] /\ version[w] = admin[a].ver
      BY <2>1, <2>2, <2>3
    <2> HIDE DEF w
    <2>6. version'[w] = admin[a].ver =>
            \/ status'[w] = admin[a].st
            \/ {status'[w], admin[a].st} \subseteq {"OWED", "ON_HOLD"}
      BY <2>2, <2>3, <2>5
    <2> QED BY <1>2, <2>4, <2>6 DEF w
  <1>3. ASSUME NEW w \in Winnings, UNCHANGED <<status, version>>, admin'[a].w = w,
               admin'[a].st = status[w], admin'[a].ver = version[w]
        PROVE  /\ admin'[a].ver <= version'[admin'[a].w]
               /\ status'[admin'[a].w] = admin'[a].st
    BY <1>3 DEF TypeOK
  <1> QED BY <1>2, <1>3, AdminSteps

\* The optimistic lock of updatePaymentStatus works: for any number of admin calls,
\* withdraw calls and webhooks, a write whose version still matches overwrites the
\* status its checks were made on, up to the OWED/ON_HOLD toggle.
THEOREM AdminVersionGuardHolds == Spec => []AdminVersionGuard
  <1>1. Init => AdminVersionGuard
    BY DEF Init, AdminVersionGuard
  <1> QED BY <1>1, AdminVersionStep, TypeCorrect, PTL DEF Spec

\* By the time an admin call writes, it has seen a status that was not CANCELLED.
LEMMA AdminInvHolds == Spec => []AdminInv
  <1>1. Init => AdminInv
    BY DEF Init, AdminInv
  <1>2. ASSUME TypeOK, AdminInv, [Next]_vars PROVE AdminInv'
    <2> SUFFICES ASSUME NEW a \in Admins, admin'[a] # NoEdit
                 PROVE  /\ admin'[a].pc = "commit" => admin'[a].st # "CANCELLED"
                        /\ admin'[a].fail => admin'[a].to = "OWED"
      BY DEF AdminInv
    <2>1. CASE admin'[a] = admin[a]
      BY <1>2, <2>1, Zenon DEF AdminInv
    <2> QED BY <1>2, <2>1, AdminSteps
  <1> QED BY <1>1, <1>2, TypeCorrect, PTL DEF Spec

\* The only steps out of CANCELLED are writes for the winnings of a release.
LEMMA CancelledStep ==
  ASSUME TypeOK, Flow, AdminInv, AdminVersionGuard, [Next]_vars, NEW w \in Winnings,
         status[w] = "CANCELLED", status'[w] # "CANCELLED"
  PROVE  ReleasesOf(w) # {}
  <1>1. ASSUME NEW r \in Withdrawals, NEW s, release[r] # "none",
               UpdateProcessingState(chosen[r], s)
        PROVE  ReleasesOf(w) # {}
    BY <1>1 DEF TypeOK, UpdateProcessingState, ReleasesOf
  <1>2. ASSUME NEW r \in Withdrawals, MarkProcessing(r) \/ RevertToOwed(r)
        PROVE  ReleasesOf(w) # {}
    BY <1>1, <1>2 DEF Flow, Early, MarkProcessing, RevertToOwed
  <1>3. ASSUME NEW h \in Hooks, HookPayments(h) PROVE ReleasesOf(w) # {}
    BY <1>1, <1>3, HookFacts DEF HookPayments
  <1>4. ASSUME NEW a \in Admins, AdminCommits(a) PROVE FALSE
    <2>1. admin[a] # NoEdit /\ admin[a].pc = "commit" /\ VersionMatches(a)
      BY <1>4 DEF AdminCommits, NoEdit
    <2>2. admin[a].st # "CANCELLED"
      BY <2>1 DEF AdminInv
    <2>3. admin[a].w = w
      BY <1>4 DEF TypeOK, AdminCommits
    <2> QED BY <2>1, <2>2, <2>3 DEF AdminVersionGuard
  <1>5. ASSUME NEW x \in Reconcilers, ReconcileToggles(x) PROVE FALSE
    BY <1>5 DEF TypeOK, ReconcileToggles, Toggle
  <1> QED
    BY <1>2, <1>3, <1>4, <1>5
       DEF Next, vars, paymentVars, Withdraw, WithdrawStep, SelectReleasable, VerifyOtp,
           CreateRelease, CreatePayment, MarkProcessingFails, FailRelease,
           RemovePayment, StartProcessing, StartProcessingFails, Refuse, Abort,
           TrolleySettles, TrolleyReturns, ReleaseAges, IssueCode, ExpireCode,
           HookStep, HookStarts, HookChecks, HookWrites, HookFails, AdminStep,
           AdminReadsPayment, AdminReadsRelease, AdminGivesUp, SetupChanges,
           ReconcileStep, ReconcileReads, ReconcileFails

\* No admin edit, however stale what it has read, and no reconciliation brings a
\* cancelled payment back: only a payout that the payment is part of does.
THEOREM CancelledRevivedOnlyByPayoutHolds == Spec => CancelledRevivedOnlyByPayout
  <1>1. TypeOK /\ Flow /\ AdminInv /\ AdminVersionGuard /\ [Next]_vars =>
          [\A w \in Winnings :
             status[w] = "CANCELLED" /\ status'[w] # "CANCELLED" => ReleasesOf(w) # {}]_vars
    BY CancelledStep
  <1> QED
    BY <1>1, TypeCorrect, FlowHolds, AdminInvHolds, AdminVersionGuardHolds, PTL
       DEF Spec, CancelledRevivedOnlyByPayout

-----------------------------------------------------------------------------
(***************************************************************************)
(* DateKeptOnlyAfterHold.                                                  *)
(***************************************************************************)

\* The only steps into OWED that keep the date of a payment start from a hold or take back
\* the mark of a withdraw call.
LEMMA DateKeptStep ==
  ASSUME TypeOK, AdminInv, AdminVersionGuard, [Next]_vars, NEW w \in Winnings,
         status[w] # "OWED", status'[w] = "OWED", datePaid'[w]
  PROVE  \/ status[w] \in {"ON_HOLD", "ON_HOLD_ADMIN"}
         \/ \E r \in Withdrawals : w \in chosen[r] /\ pc[r] = "revert" /\ pc'[r] # "revert"
  <1>1. ASSUME NEW r \in Withdrawals, MarkProcessing(r) PROVE FALSE
    BY <1>1 DEF TypeOK, MarkProcessing, UpdateProcessingState
  <1>2. ASSUME NEW r \in Withdrawals, RevertToOwed(r)
        PROVE  w \in chosen[r] /\ pc[r] = "revert" /\ pc'[r] # "revert"
    BY <1>2 DEF TypeOK, RevertToOwed, UpdateProcessingState, GoTo
  <1>3. ASSUME NEW h \in Hooks, HookPayments(h) PROVE FALSE
    BY <1>3 DEF TypeOK, HookPayments, UpdateProcessingState, PaymentStatusOf, Hooks, Kinds
  <1>4. ASSUME NEW a \in Admins, AdminCommits(a)
        PROVE  status[w] \in {"ON_HOLD", "ON_HOLD_ADMIN"}
    <2>1. admin[a] \in Editing /\ admin[a] # NoEdit
      BY <1>4 DEF TypeOK, AdminCommits, AdminCalls, NoEdit, Editing
    <2>2. admin[a].w = w /\ admin[a].to = "OWED"
      BY <1>4, <2>1 DEF TypeOK, AdminCommits, Editing
    <2>3. admin[a].st \notin {"PAID", "PROCESSING", "RETURNED", "FAILED", "CANCELLED"}
      BY <1>4, <2>1, <2>2 DEF TypeOK, AdminCommits, ClearsDatePaid, AdminInv
    <2>4. \/ status[w] = admin[a].st
          \/ {status[w], admin[a].st} \subseteq {"OWED", "ON_HOLD"}
      BY <1>4, <2>1, <2>2 DEF AdminVersionGuard, AdminCommits
    <2>5. status[w] \in PaymentStatus
      BY DEF TypeOK
    <2> QED BY <2>3, <2>4, <2>5 DEF PaymentStatus
  <1>5. ASSUME NEW x \in Reconcilers, ReconcileToggles(x) PROVE status[w] = "ON_HOLD"
    BY <1>5 DEF TypeOK, ReconcileToggles, Toggle
  <1> QED
    BY <1>1, <1>2, <1>3, <1>4, <1>5
       DEF Next, vars, paymentVars, Withdraw, WithdrawStep, SelectReleasable, VerifyOtp,
           CreateRelease, CreatePayment, MarkProcessingFails, FailRelease,
           RemovePayment, StartProcessing, StartProcessingFails, Refuse, Abort,
           TrolleySettles, TrolleyReturns, ReleaseAges, IssueCode, ExpireCode,
           HookStep, HookStarts, HookChecks, HookWrites, HookFails, AdminStep,
           AdminReadsPayment, AdminReadsRelease, AdminGivesUp, SetupChanges,
           ReconcileStep, ReconcileReads, ReconcileFails

\* However stale what an admin has read: putting a paid, returned or failed payment back to
\* OWED in one edit forgets its date.  A payment that is OWED with a date has been on hold
\* or had its mark taken back in between.
THEOREM DateKeptOnlyAfterHoldHolds == Spec => DateKeptOnlyAfterHold
  <1>1. TypeOK /\ AdminInv /\ AdminVersionGuard /\ [Next]_vars =>
          [\A w \in Winnings :
             status[w] # "OWED" /\ status'[w] = "OWED" /\ datePaid'[w] =>
               \/ status[w] \in {"ON_HOLD", "ON_HOLD_ADMIN"}
               \/ \E r \in Withdrawals :
                    w \in chosen[r] /\ pc[r] = "revert" /\ pc'[r] # "revert"]_vars
    BY DateKeptStep
  <1> QED
    BY <1>1, TypeCorrect, AdminInvHolds, AdminVersionGuardHolds, PTL
       DEF Spec, DateKeptOnlyAfterHold

-----------------------------------------------------------------------------
(***************************************************************************)
(* NoDoublePayout and FailedReleaseMovesNoMoney.                           *)
(***************************************************************************)

\* Every write of statuses leaves those of a payout under way outside OWED and ON_HOLD.
LEMMA MoneyShowsStep ==
  ASSUME Orderly, TypeOK, Flow, SerialInv, [Next]_vars, NEW r \in Withdrawals,
         Committed(r) \/ pc[r] = "start", NEW w \in chosen[r]
  PROVE  status'[w] \notin {"OWED", "ON_HOLD"}
  <1>1. w \in Winnings /\ status[w] \notin {"OWED", "ON_HOLD"}
    BY DEF TypeOK, SerialInv, MoneyShowsInStatus
  <1>2. ASSUME NEW q \in Withdrawals, MarkProcessing(q)
        PROVE  status'[w] \notin {"OWED", "ON_HOLD"}
    BY <1>1, <1>2 DEF MarkProcessing, UpdateProcessingState
  <1>3. ASSUME NEW q \in Withdrawals, RevertToOwed(q)
        PROVE  status'[w] \notin {"OWED", "ON_HOLD"}
    <2>1. pc[q] = "revert" /\ trolley[q] = "open"
      BY <1>3 DEF RevertToOwed, SerialInv, ErrorPathsKeepMoney
    <2>2. Committed(r) /\ q # r
      BY <2>1 DEF SerialInv, OneCallAtATime, Running, Committed
    <2>3. w \notin chosen[q]
      BY <2>1, <2>2 DEF SerialInv, PayoutsDisjoint, PastRowCheck
    <2> QED BY <1>1, <1>3, <2>3 DEF RevertToOwed, UpdateProcessingState
  <1>4. ASSUME NEW h \in Hooks, HookPayments(h)
        PROVE  status'[w] \notin {"OWED", "ON_HOLD"}
    BY <1>1, <1>4 DEF HookPayments, UpdateProcessingState, PaymentStatusOf, Hooks, Kinds
  <1>5. ASSUME NEW a \in Admins, AdminCommits(a)
        PROVE  status'[w] \notin {"OWED", "ON_HOLD"}
    <2>1. admin[a] \in Editing
      BY <1>5 DEF TypeOK, AdminCommits, AdminCalls, NoEdit, Editing
    <2>2. admin[a].to \notin {"OWED", "ON_HOLD"}
      BY <2>1, ConstantsAssumption DEF Editing, Orderly, Definite, ConstantsAssumption,
                                         AdminStatuses
    <2> QED BY <1>1, <1>5, <2>2 DEF TypeOK, AdminCommits
  <1>6. ASSUME NEW x \in Reconcilers, ReconcileToggles(x)
        PROVE  status'[w] \notin {"OWED", "ON_HOLD"}
    BY <1>1, <1>6 DEF ReconcileToggles, Toggle
  <1> QED
    BY <1>1, <1>2, <1>3, <1>4, <1>5, <1>6
       DEF Next, vars, paymentVars, Withdraw, WithdrawStep, SelectReleasable, VerifyOtp,
           CreateRelease, CreatePayment, MarkProcessingFails, FailRelease,
           RemovePayment, StartProcessing, StartProcessingFails, Refuse, Abort,
           TrolleySettles, TrolleyReturns, ReleaseAges, IssueCode, ExpireCode,
           HookStep, HookStarts, HookChecks, HookWrites, HookFails, AdminStep,
           AdminReadsPayment, AdminReadsRelease, AdminGivesUp, SetupChanges,
           ReconcileStep, ReconcileReads, ReconcileFails

\* Trolley comes to pay a release only because a withdraw call told it to start.
LEMMA CommitSteps ==
  ASSUME Definite, TypeOK, Flow, [Next]_vars, NEW r \in Withdrawals, Committed(r)'
  PROVE  /\ Committed(r) \/ pc[r] = "start"
         /\ chosen'[r] = chosen[r]
         /\ release[r] # "none"
  <1> USE DEF TypeOK, Committed, Flow, Early
  <1>1. Committed(r) \/ pc[r] = "start"
    <2>1. CASE UNCHANGED trolley
      BY <2>1
    <2>2. ASSUME NEW q \in Withdrawals,
                 \/ CreatePayment(q) \/ RemovePayment(q) \/ StartProcessing(q)
                 \/ StartProcessingFails(q) \/ Abort(q) \/ TrolleySettles(q)
                 \/ TrolleyReturns(q)
          PROVE  Committed(r) \/ pc[r] = "start"
      BY <2>2 DEF Definite, CreatePayment, RemovePayment, StartProcessing,
                  StartProcessingFails, Abort, TrolleySettles, TrolleyReturns
    <2> QED
      BY <2>1, <2>2
         DEF Next, vars, Withdraw, WithdrawStep, SelectReleasable, VerifyOtp,
             CreateRelease, MarkProcessing, MarkProcessingFails, FailRelease,
             RevertToOwed, Refuse, ReleaseAges, IssueCode, ExpireCode, HookStep,
             HookStarts, HookPayments, HookChecks, HookWrites, HookFails, AdminStep,
             AdminReadsPayment, AdminReadsRelease, AdminCommits, AdminGivesUp,
             SetupChanges, ReconcileStep, ReconcileReads, ReconcileToggles,
             ReconcileFails
  <1>2. release[r] # "none"
    BY <1>1
  <1>3. chosen'[r] = chosen[r]
    BY <1>2, ReleaseSteps
  <1> QED BY <1>1, <1>2, <1>3

\* A call starts when no other runs, and calls only run on or end otherwise.
LEMMA OneCallStep ==
  ASSUME Orderly, TypeOK, OneCallAtATime, [Next]_vars
  PROVE  OneCallAtATime'
  <1> USE DEF TypeOK, GoTo, Running, Steps
  <1>1. CASE UNCHANGED pc
    BY <1>1 DEF OneCallAtATime
  <1>2. ASSUME NEW r \in Withdrawals, NEW W \in SUBSET Winnings, NEW c \in Codes,
               Withdraw(r, W, c)
        PROVE  OneCallAtATime'
    <2>1. \A q \in Withdrawals : ~Running(q)
      BY <1>2 DEF Withdraw, Orderly
    <2>2. \A q \in Withdrawals : Running(q)' => q = r
      BY <1>2, <2>1 DEF Withdraw
    <2> QED BY <2>2 DEF OneCallAtATime
  <1>3. ASSUME NEW r \in Withdrawals, WithdrawStep(r) \/ Refuse(r) \/ Abort(r)
        PROVE  OneCallAtATime'
    <2>1. Running(r) /\ \A q \in Withdrawals \ {r} : pc'[q] = pc[q]
      BY <1>3 DEF WithdrawStep, SelectReleasable, VerifyOtp, CreateRelease,
                  CreatePayment, MarkProcessing, MarkProcessingFails, FailRelease,
                  RemovePayment, StartProcessing, StartProcessingFails, RevertToOwed,
                  Refuse, Abort
    <2>2. \A q \in Withdrawals : Running(q)' => Running(q)
      BY <2>1
    <2> QED BY <2>2 DEF OneCallAtATime
  <1> QED
    BY <1>1, <1>2, <1>3
       DEF Next, vars, requestVars, TrolleySettles, TrolleyReturns,
           ReleaseAges, IssueCode, ExpireCode, HookStep, HookStarts, HookPayments,
           HookChecks, HookWrites, HookFails, AdminStep, AdminReadsPayment,
           AdminReadsRelease, AdminCommits, AdminGivesUp, SetupChanges, ReconcileStep,
           ReconcileReads, ReconcileToggles, ReconcileFails

\* A call gets past the row check only when all its payments can be released, and to the
\* start of its batch only by marking them.
LEMMA RowCheckSteps ==
  ASSUME TypeOK, [Next]_vars, NEW r \in Withdrawals, pc'[r] \in PastRowCheck
  PROVE  /\ chosen'[r] = chosen[r]
         /\ pc[r] \in PastRowCheck \/ \A w \in chosen[r] : status[w] = "OWED"
         /\ pc'[r] = "start" =>
              pc[r] = "start" \/ \A w \in chosen[r] : status'[w] = "PROCESSING"
  <1> USE DEF TypeOK, GoTo, PastRowCheck
  <1> DEFINE Goal == /\ chosen'[r] = chosen[r]
                     /\ pc[r] \in PastRowCheck \/ \A w \in chosen[r] : status[w] = "OWED"
                     /\ pc'[r] = "start" =>
                          pc[r] = "start" \/ \A w \in chosen[r] : status'[w] = "PROCESSING"
  <1>1. CASE UNCHANGED <<pc, chosen>>
    BY <1>1
  <1>2. ASSUME NEW q \in Withdrawals, NEW W \in SUBSET Winnings, NEW c \in Codes,
               Withdraw(q, W, c)
        PROVE  Goal
    BY <1>2 DEF Withdraw
  <1>3. ASSUME NEW q \in Withdrawals, SelectReleasable(q) PROVE Goal
    BY <1>3 DEF SelectReleasable, Releasable
  <1>4. ASSUME NEW q \in Withdrawals, MarkProcessing(q) PROVE Goal
    BY <1>4 DEF MarkProcessing, UpdateProcessingState
  <1>5. ASSUME NEW q \in Withdrawals,
               \/ VerifyOtp(q) \/ CreateRelease(q) \/ CreatePayment(q)
               \/ MarkProcessingFails(q) \/ FailRelease(q) \/ RemovePayment(q)
               \/ StartProcessing(q) \/ StartProcessingFails(q) \/ RevertToOwed(q)
               \/ Refuse(q) \/ Abort(q)
        PROVE  Goal
    BY <1>5
       DEF VerifyOtp, CreateRelease, CreatePayment, MarkProcessingFails, FailRelease,
           RemovePayment, StartProcessing, StartProcessingFails, RevertToOwed, Refuse,
           Abort
  <1> QED
    BY <1>1, <1>2, <1>3, <1>4, <1>5
       DEF Next, vars, requestVars, WithdrawStep, TrolleySettles, TrolleyReturns,
           ReleaseAges, IssueCode, ExpireCode, HookStep, HookStarts, HookPayments,
           HookChecks, HookWrites, HookFails, AdminStep, AdminReadsPayment,
           AdminReadsRelease, AdminCommits, AdminGivesUp, SetupChanges, ReconcileStep,
           ReconcileReads, ReconcileToggles, ReconcileFails

\* The row check keeps a call apart from the payouts there are, and while it runs no other
\* call can start one.
LEMMA DisjointStep ==
  ASSUME Orderly, TypeOK, Flow, SerialInv, [Next]_vars
  PROVE  PayoutsDisjoint'
  <1> SUFFICES ASSUME NEW r \in Withdrawals, NEW q \in Withdrawals, q # r,
                      Committed(r)' \/ pc'[r] \in PastRowCheck, Committed(q)'
               PROVE  chosen'[q] \cap chosen'[r] = {}
    BY DEF PayoutsDisjoint
  <1>1. /\ Committed(q) \/ pc[q] = "start"
        /\ chosen'[q] = chosen[q]
    BY CommitSteps DEF Orderly
  <1>2. \A w \in chosen[q] : status[w] \notin {"OWED", "ON_HOLD"}
    BY <1>1 DEF SerialInv, MoneyShowsInStatus
  <1>3. chosen'[r] = chosen[r]
    BY CommitSteps, RowCheckSteps DEF Orderly
  <1>4. CASE ~Committed(r) /\ pc[r] \notin PastRowCheck
    <2>1. \A w \in chosen[r] : status[w] = "OWED"
      BY <1>4, CommitSteps, RowCheckSteps DEF PastRowCheck, Orderly
    <2> QED BY <1>1, <1>2, <1>3, <2>1
  <1>5. CASE Committed(r) \/ pc[r] \in PastRowCheck
    <2>1. ~(pc[r] \in PastRowCheck /\ pc[q] = "start")
      BY DEF SerialInv, OneCallAtATime, Running, PastRowCheck
    <2>2. Committed(q) \/ (Committed(r) /\ pc[q] \in PastRowCheck)
      BY <1>1, <1>5, <2>1 DEF PastRowCheck
    <2>3. chosen[q] \cap chosen[r] = {}
      BY <1>5, <2>2 DEF SerialInv, PayoutsDisjoint
    <2> QED BY <1>1, <1>3, <2>3
  <1> QED BY <1>4, <1>5

\* A release is marked FAILED by an error path, by an event, or with an admin's edit to
\* OWED; the first holds an open payment, the second a failed one, the last never happens.
LEMMA ErrorPathsStep ==
  ASSUME Definite, TypeOK, Flow, AdminInv, ErrorPathsKeepMoney, [Next]_vars
  PROVE  ErrorPathsKeepMoney'
  <1> USE DEF TypeOK, GoTo, SetRelease, Flow, Early
  <1>1. ErrorPathsKeepMoney
    OBVIOUS
  <1>2. CASE UNCHANGED <<pc, release, trolley>>
    BY <1>1, <1>2 DEF ErrorPathsKeepMoney
  <1>3. ASSUME NEW r \in Withdrawals, NEW W \in SUBSET Winnings, NEW c \in Codes,
               Withdraw(r, W, c)
        PROVE  ErrorPathsKeepMoney'
    BY <1>1, <1>3 DEF Withdraw, ErrorPathsKeepMoney
  <1>4. ASSUME NEW r \in Withdrawals,
               \/ SelectReleasable(r) \/ VerifyOtp(r) \/ CreateRelease(r)
               \/ CreatePayment(r) \/ MarkProcessing(r) \/ Refuse(r)
        PROVE  ErrorPathsKeepMoney'
    BY <1>1, <1>4 DEF SelectReleasable, VerifyOtp, CreateRelease, CreatePayment,
                      MarkProcessing, Refuse, ErrorPathsKeepMoney
  <1>5. ASSUME NEW r \in Withdrawals,
               \/ MarkProcessingFails(r) \/ FailRelease(r) \/ RemovePayment(r)
               \/ StartProcessing(r) \/ StartProcessingFails(r) \/ RevertToOwed(r)
               \/ Abort(r)
        PROVE  ErrorPathsKeepMoney'
    BY <1>1, <1>5 DEF MarkProcessingFails, FailRelease, RemovePayment, StartProcessing,
                      StartProcessingFails, RevertToOwed, Abort, Running, Definite,
                      ErrorPathsKeepMoney
  <1>6. ASSUME NEW r \in Withdrawals, TrolleySettles(r) \/ TrolleyReturns(r)
        PROVE  ErrorPathsKeepMoney'
    BY <1>1, <1>6 DEF TrolleySettles, TrolleyReturns, requestVars, ErrorPathsKeepMoney
  <1>7. ASSUME NEW h \in Hooks, HookWrites(h) PROVE ErrorPathsKeepMoney'
    <2>1. /\ h[1] \in Withdrawals /\ h[2] \in Kinds
          /\ h[2] = "failed" => trolley[h[1]] = "failed"
      BY <1>7, HookFacts DEF HookWrites
    <2>2. ReleaseStatusOf(h[2]) = "FAILED" => h[2] = "failed"
      BY <2>1 DEF ReleaseStatusOf, PaymentStatusOf, Kinds
    <2> QED BY <1>1, <1>7, <2>1, <2>2 DEF HookWrites, requestVars, ErrorPathsKeepMoney
  <1>8. ASSUME NEW a \in Admins, AdminCommits(a) PROVE ErrorPathsKeepMoney'
    <2>1. admin[a] \in Editing /\ admin[a] # NoEdit
      BY <1>8 DEF AdminCommits, AdminCalls, NoEdit, Editing
    <2>2. ~admin[a].fail
      BY <2>1 DEF AdminInv, Editing, Definite
    <2> QED BY <1>1, <1>8, <2>2 DEF AdminCommits, requestVars, ErrorPathsKeepMoney
  <1> QED
    BY <1>2, <1>3, <1>4, <1>5, <1>6, <1>7, <1>8
       DEF Next, vars, requestVars, WithdrawStep, ReleaseAges, IssueCode, ExpireCode,
           HookStep, HookStarts, HookPayments, HookChecks, HookFails, AdminStep,
           AdminReadsPayment, AdminReadsRelease, AdminGivesUp, SetupChanges,
           ReconcileStep, ReconcileReads, ReconcileToggles, ReconcileFails

\* SerialInv is inductive for orderly calls.
LEMMA SerialInvHolds == ASSUME Orderly PROVE Spec => []SerialInv
  <1>1. Init => SerialInv
    BY DEF Init, SerialInv, OneCallAtATime, MoneyShowsInStatus, PayoutsDisjoint,
           ErrorPathsKeepMoney, Running, Committed, PastRowCheck
  <1>2. TypeOK /\ Flow /\ AdminInv /\ SerialInv /\ [Next]_vars => SerialInv'
    <2> SUFFICES ASSUME TypeOK, Flow, AdminInv, SerialInv, [Next]_vars PROVE SerialInv'
      OBVIOUS
    <2>1. OneCallAtATime'
      BY OneCallStep DEF SerialInv
    <2>2. MoneyShowsInStatus'
      <3> SUFFICES ASSUME NEW r \in Withdrawals, Committed(r)' \/ pc'[r] = "start",
                          NEW w \in chosen'[r]
                   PROVE  status'[w] \notin {"OWED", "ON_HOLD"}
        BY DEF MoneyShowsInStatus
      <3>1. CASE Committed(r) \/ pc[r] = "start"
        <4>1. chosen'[r] = chosen[r]
          BY CommitSteps, RowCheckSteps DEF PastRowCheck, Orderly
        <4> QED BY <3>1, <4>1, MoneyShowsStep
      <3>2. CASE ~Committed(r) /\ pc[r] # "start"
        BY <3>2, CommitSteps, RowCheckSteps DEF PastRowCheck, Orderly
      <3> QED BY <3>1, <3>2
    <2>3. PayoutsDisjoint'
      BY DisjointStep
    <2>4. ErrorPathsKeepMoney'
      BY ErrorPathsStep DEF SerialInv, Orderly
    <2> QED BY <2>1, <2>2, <2>3, <2>4 DEF SerialInv
  <1> QED BY <1>1, <1>2, TypeCorrect, FlowHolds, AdminInvHolds, PTL DEF Spec

\* For any number of winnings, calls, crashes and webhooks: as long as a member's calls do
\* not overlap, Trolley's errors are definite and no admin puts payments back to OWED, no
\* winning is paid out twice.  Each hypothesis is needed: Payouts_double drops the first.
THEOREM NoDoublePayoutHolds == ASSUME Orderly PROVE Spec => []NoDoublePayout
  <1>1. SerialInv => NoDoublePayout
    BY DEF SerialInv, PayoutsDisjoint, NoDoublePayout, ReleasesOf
  <1> QED BY <1>1, SerialInvHolds, PTL

\* The release of a payout that Trolley makes or has made is never marked FAILED, neither by
\* an error path nor by a late or repeated event, also when calls overlap.
THEOREM FailedReleaseMovesNoMoneyHolds ==
  ASSUME Definite PROVE Spec => []FailedReleaseMovesNoMoney
  <1>1. Init => ErrorPathsKeepMoney
    BY DEF Init, ErrorPathsKeepMoney
  <1>2. ErrorPathsKeepMoney => FailedReleaseMovesNoMoney
    BY DEF ErrorPathsKeepMoney, FailedReleaseMovesNoMoney, Committed
  <1> QED
    BY <1>1, <1>2, ErrorPathsStep, TypeCorrect, FlowHolds, AdminInvHolds, PTL DEF Spec

-----------------------------------------------------------------------------
(***************************************************************************)
(* LedgerKept: Payouts implements PayoutLedger.                            *)
(***************************************************************************)

\* What stands for the variables of the ledger.
MoneyOf == [r \in Withdrawals |-> Money(r)]
BatchOf == [r \in Withdrawals |-> IF Money(r) = "none" THEN {} ELSE chosen[r]]
OutcomeOf == [r \in Withdrawals |-> Outcome(r)]
DatedOnes == {w \in Winnings : datePaid[w]}

\* With definite answers and with orderly calls there is what was shown above for them.
LedgerInv == (Orderly => SerialInv) /\ (Definite => ErrorPathsKeepMoney)

LEMMA LedgerInvHolds == Spec => []LedgerInv
  <1>1. CASE Orderly
    <2>1. SerialInv => LedgerInv
      BY DEF SerialInv, LedgerInv
    <2> QED BY <1>1, <2>1, SerialInvHolds, PTL
  <1>2. CASE ~Orderly /\ Definite
    <2>1. Init => ErrorPathsKeepMoney
      BY DEF Init, ErrorPathsKeepMoney
    <2>2. TypeOK /\ Flow /\ AdminInv /\ ErrorPathsKeepMoney /\ [Next]_vars => ErrorPathsKeepMoney'
      BY <1>2, ErrorPathsStep
    <2>3. ErrorPathsKeepMoney => LedgerInv
      BY <1>2 DEF LedgerInv
    <2> QED BY <2>1, <2>2, <2>3, TypeCorrect, FlowHolds, AdminInvHolds, PTL DEF Spec
  <1>3. CASE ~Orderly /\ ~Definite
    <2>1. LedgerInv
      BY <1>3 DEF LedgerInv
    <2> QED BY <2>1, PTL
  <1> QED BY <1>1, <1>2, <1>3

LEMMA LedgerInit == Init => Ledger!Init
  <1> SUFFICES ASSUME Init PROVE Ledger!Init
    OBVIOUS
  <1>1. \A r \in Withdrawals : Money(r) = "none" /\ Outcome(r) = "unknown"
    BY DEF Init, Money, Outcome
  <1>2. {w \in Winnings : datePaid[w]} = {}
    BY DEF Init
  <1> QED BY <1>1, <1>2 DEF Ledger!Init

\* A step is no step of the ledger if it leaves the books alone and the money of payouts
\* where it is, and changes what a call is about only before its payout starts.
LEMMA LedgerStutters ==
  ASSUME MoneyOf' = MoneyOf, BatchOf' = BatchOf, OutcomeOf' = OutcomeOf,
         DatedOnes' = DatedOnes
  PROVE  UNCHANGED Ledger!ledgerVars
  BY DEF Ledger!ledgerVars, MoneyOf, BatchOf, OutcomeOf, DatedOnes

\* Trolley takes up the payment of a call: money starts to move for the call's winnings.
LEMMA MoneyMoves ==
  ASSUME TypeOK, Flow, LedgerInv, NEW r \in Withdrawals, pc[r] = "start",
         trolley' = [trolley EXCEPT ![r] = "processing"],
         UNCHANGED <<chosen, release, datePaid>>
  PROVE  Ledger!Next
  <1>1. trolley[r] = "open"
    BY DEF Flow
  <1>2. Money(r) = "none" /\ MoneyOf' = [MoneyOf EXCEPT ![r] = "moving"]
    BY <1>1 DEF TypeOK, TrolleyStates, Money, MoneyOf
  <1>3. BatchOf' = [BatchOf EXCEPT ![r] = chosen[r]]
    BY <1>1 DEF TypeOK, TrolleyStates, Money, BatchOf
  <1>4. OutcomeOf' = OutcomeOf /\ DatedOnes' = DatedOnes
    BY DEF OutcomeOf, Outcome, DatedOnes
  <1>5. ASSUME Orderly, NEW q \in Withdrawals, Money(q) \in {"moving", "paid"}
        PROVE  (IF Money(q) = "none" THEN {} ELSE chosen[q]) \cap chosen[r] = {}
    <2>1. Committed(q) /\ q # r
      BY <1>1, <1>5 DEF Money, Committed, TypeOK, TrolleyStates
    <2>2. PayoutsDisjoint
      BY <1>5 DEF LedgerInv, SerialInv
    <2>3. chosen[q] \cap chosen[r] = {}
      BY <2>1, <2>2 DEF PayoutsDisjoint, PastRowCheck
    <2> QED BY <2>3
  <1>6. ASSUME Definite PROVE Outcome(r) # "failed"
    <2>1. release[r] # "FAILED"
      BY <1>6 DEF LedgerInv, ErrorPathsKeepMoney
    <2> QED BY <2>1 DEF Outcome, TypeOK, ReleaseStatus
  <1>7. PICK W \in SUBSET Winnings : W = chosen[r]
    BY DEF TypeOK
  <1>8. Ledger!Start(r, W)
    BY <1>2, <1>3, <1>4, <1>5, <1>6, <1>7
       DEF Ledger!Start, Ledger!Live, MoneyOf, BatchOf, OutcomeOf, DatedOnes
  <1> QED BY <1>8 DEF Ledger!Next

\* Trolley pays, fails or returns what it has taken up.
LEMMA MoneySettles ==
  ASSUME TypeOK, NEW r \in Withdrawals, TrolleySettles(r) \/ TrolleyReturns(r)
  PROVE  Ledger!Next
  <1>1. PICK s \in {"processed", "failed", "returned"} :
          /\ trolley' = [trolley EXCEPT ![r] = s]
          /\ \/ trolley[r] = "processing" /\ s \in {"processed", "failed"}
             \/ trolley[r] = "processed" /\ s = "returned"
    BY DEF TrolleySettles, TrolleyReturns
  <1>2. UNCHANGED <<chosen, release, datePaid>>
    BY DEF TrolleySettles, TrolleyReturns, requestVars, paymentVars
  <1> DEFINE to == IF s = "processed" THEN "paid" ELSE s
  <1>3. /\ Money(r) = IF s = "returned" THEN "paid" ELSE "moving"
        /\ MoneyOf' = [MoneyOf EXCEPT ![r] = to]
    BY <1>1 DEF TypeOK, TrolleyStates, Money, MoneyOf
  <1>4. BatchOf' = BatchOf
    BY <1>1, <1>2 DEF TypeOK, TrolleyStates, Money, BatchOf
  <1>5. OutcomeOf' = OutcomeOf /\ DatedOnes' = DatedOnes
    BY <1>2 DEF OutcomeOf, Outcome, DatedOnes
  <1>6. Ledger!Settle(r, to)
    BY <1>1, <1>3, <1>4, <1>5 DEF Ledger!Settle, MoneyOf, BatchOf, OutcomeOf, DatedOnes
  <1> QED BY <1>6 DEF Ledger!Next

\* The status of a release is written, by the error path of a call or by a webhook.
LEMMA ReleaseReports ==
  ASSUME TypeOK, Flow, LedgerInv, NEW r \in Withdrawals,
         UNCHANGED <<trolley, chosen, datePaid>>,
         \/ FailRelease(r)
         \/ \E h \in Hooks : h[1] = r /\ HookWrites(h)
  PROVE  Ledger!Next
  <1>1. PICK s \in {"PROCESSED", "FAILED", "RETURNED"} :
          /\ release' = [release EXCEPT ![r] = s]
          /\ s = "PROCESSED" => PaidOut(r)
          /\ s = "RETURNED" => trolley[r] = "returned"
          /\ s = "FAILED" /\ Definite => ~Committed(r)
    <2>1. CASE FailRelease(r)
      <3>1. Definite => ~Committed(r)
        BY <2>1 DEF FailRelease, LedgerInv, ErrorPathsKeepMoney, Committed
      <3> QED BY <2>1, <3>1 DEF FailRelease, SetRelease
    <2>2. ASSUME NEW h \in Hooks, h[1] = r, HookWrites(h)
          PROVE  \E s \in {"PROCESSED", "FAILED", "RETURNED"} :
                   /\ release' = [release EXCEPT ![r] = s]
                   /\ s = "PROCESSED" => PaidOut(r)
                   /\ s = "RETURNED" => trolley[r] = "returned"
                   /\ s = "FAILED" /\ Definite => ~Committed(r)
      <3>1. /\ h[2] \in Kinds
            /\ h[2] = "processed" => PaidOut(r)
            /\ h[2] = "failed" => trolley[r] = "failed"
            /\ h[2] = "returned" => trolley[r] = "returned"
        <4>1. hook[h] # "idle"
          BY <2>2 DEF HookWrites
        <4> QED BY <2>2, <4>1, HookFacts
      <3> QED BY <2>2, <3>1 DEF HookWrites, SetRelease, ReleaseStatusOf, PaymentStatusOf,
                                Kinds, Committed
    <2> QED BY <2>1, <2>2
  <1> DEFINE o == IF s = "PROCESSED" THEN "paid" ELSE IF s = "FAILED" THEN "failed" ELSE "returned"
  <1>2. OutcomeOf' = [OutcomeOf EXCEPT ![r] = o] /\ o \in {"paid", "failed", "returned"}
    BY <1>1 DEF TypeOK, Outcome, OutcomeOf
  <1>3. MoneyOf' = MoneyOf /\ BatchOf' = BatchOf /\ DatedOnes' = DatedOnes
    BY DEF MoneyOf, BatchOf, DatedOnes, Money
  <1>4. /\ o = "paid" => Money(r) \in {"paid", "returned"}
        /\ o = "returned" => Money(r) = "returned"
        /\ o = "failed" /\ Definite => Money(r) \notin {"moving", "paid"}
    BY <1>1 DEF Money, PaidOut, Committed, TypeOK, TrolleyStates
  <1>5. Ledger!Report(r, o)
    BY <1>2, <1>3, <1>4
       DEF Ledger!Report, Ledger!Live, MoneyOf, BatchOf, OutcomeOf, DatedOnes
  <1> QED BY <1>2, <1>5 DEF Ledger!Next

\* A webhook dates the winnings of a payout that was paid; the other writes of statuses
\* leave the dates alone.
LEMMA HookDates ==
  ASSUME TypeOK, Flow, NEW h \in Hooks, HookPayments(h)
  PROVE  Ledger!Next \/ UNCHANGED Ledger!ledgerVars
  <1> DEFINE r == h[1]
  <1>1. r \in Withdrawals /\ h[2] \in Kinds /\ (h[2] = "processed" => PaidOut(r))
    <2>1. hook[h] # "idle"
      BY DEF HookPayments
    <2> QED BY <2>1, HookFacts
  <1>2. MoneyOf' = MoneyOf /\ BatchOf' = BatchOf /\ OutcomeOf' = OutcomeOf
    BY DEF HookPayments, requestVars, MoneyOf, Money, BatchOf, OutcomeOf, Outcome
  <1>3. CASE h[2] # "processed"
    <2>1. DatedOnes' = DatedOnes
      BY <1>1, <1>3 DEF HookPayments, UpdateProcessingState, PaymentStatusOf, Kinds, DatedOnes
    <2> QED BY <1>2, <2>1, LedgerStutters
  <1>4. CASE h[2] = "processed"
    <2>1. Money(r) \in {"paid", "returned"}
      BY <1>1, <1>4 DEF PaidOut, Money
    <2>2. DatedOnes' = DatedOnes \cup chosen[r]
      BY <1>1, <1>4
         DEF HookPayments, UpdateProcessingState, PaymentStatusOf, TypeOK, DatedOnes
    <2>3. Ledger!Date(r)
      BY <1>1, <1>2, <2>1, <2>2
         DEF Ledger!Date, MoneyOf, BatchOf, OutcomeOf, DatedOnes
    <2> QED BY <1>1, <2>3 DEF Ledger!Next
  <1> QED BY <1>3, <1>4

\* An edit that puts a winning back to OWED may take its date and give its releases up;
\* any other edit changes nothing of the ledger.
LEMMA EditReopens ==
  ASSUME TypeOK, Flow, AdminInv, ConstantsAssumption, NEW a \in Admins, AdminCommits(a)
  PROVE  Ledger!Next \/ UNCHANGED Ledger!ledgerVars
  <1> DEFINE e == admin[a]
             F == IF e.fail THEN ReleasesOf(e.w) ELSE {}
  <1>1. e.w \in Winnings /\ e.to \in AdminTargets /\ (e.fail => e.to = "OWED")
    BY DEF TypeOK, AdminCommits, AdminCalls, NoEdit, AdminInv
  <1>2. MoneyOf' = MoneyOf /\ BatchOf' = BatchOf
    BY DEF AdminCommits, requestVars, MoneyOf, Money, BatchOf
  <1>3. CASE Definite
    <2>1. ~e.fail /\ ~ClearsDatePaid(e.st, e.to)
      BY <1>1, <1>3 DEF Definite, ClearsDatePaid
    <2>2. release' = release /\ DatedOnes' = DatedOnes
      BY <2>1 DEF AdminCommits, TypeOK, DatedOnes
    <2>3. OutcomeOf' = OutcomeOf
      BY <2>2 DEF OutcomeOf, Outcome
    <2> QED BY <1>2, <2>2, <2>3, LedgerStutters
  <1>4. CASE ~Definite
    <2>1. DatedOnes' \in {DatedOnes, DatedOnes \ {e.w}}
      BY <1>1 DEF AdminCommits, TypeOK, DatedOnes
    <2>2. OutcomeOf' = [r \in Withdrawals |-> IF r \in F THEN "failed" ELSE OutcomeOf[r]]
      BY DEF AdminCommits, OutcomeOf, Outcome
    <2>3. F \in SUBSET Withdrawals /\ \A r \in F : e.w \in BatchOf[r] \/ MoneyOf[r] = "none"
      BY DEF ReleasesOf, BatchOf, MoneyOf
    <2>4. PICK w \in Winnings, G \in SUBSET Withdrawals : w = e.w /\ G = F
      BY <1>1, <2>3
    <2>5. Ledger!Reopen(w, G)
      BY <1>2, <1>4, <2>1, <2>2, <2>3, <2>4
         DEF Ledger!Reopen, MoneyOf, BatchOf, OutcomeOf, DatedOnes
    <2> QED BY <2>5 DEF Ledger!Next
  <1> QED BY <1>3, <1>4

\* What a call is about changes only before it has a release, and with it a payout.
LEMMA ChosenBeforeMoney ==
  ASSUME TypeOK, Flow, NEW r \in Withdrawals, pc[r] \in Early,
         NEW W \in SUBSET Winnings, chosen' = [chosen EXCEPT ![r] = W],
         UNCHANGED <<trolley, release, datePaid>>
  PROVE  UNCHANGED Ledger!ledgerVars
  <1>1. MoneyOf' = MoneyOf /\ OutcomeOf' = OutcomeOf /\ DatedOnes' = DatedOnes
    BY DEF MoneyOf, Money, OutcomeOf, Outcome, DatedOnes
  <1>2. Money(r) = "none"
    BY DEF Flow, Money
  <1>3. BatchOf' = BatchOf
    BY <1>2 DEF TypeOK, BatchOf, Money
  <1> QED BY <1>1, <1>3, LedgerStutters

\* What moves a call, a code, a delivery, an edit or a reconciliation and no more.
LEMMA LedgerUntouched ==
  ASSUME UNCHANGED <<trolley, chosen, release, datePaid>>
  PROVE  UNCHANGED Ledger!ledgerVars
  BY LedgerStutters DEF MoneyOf, Money, BatchOf, OutcomeOf, Outcome, DatedOnes

\* The part of a step that a withdraw call takes.
LEMMA CallKeepsLedger ==
  ASSUME TypeOK, Flow, LedgerInv, NEW r \in Withdrawals,
         WithdrawStep(r) \/ Refuse(r) \/ Abort(r)
  PROVE  Ledger!Next \/ UNCHANGED Ledger!ledgerVars
  <1> USE DEF paymentVars
  <1>1. CASE \/ SelectReleasable(r) \/ VerifyOtp(r) \/ MarkProcessingFails(r)
    BY <1>1, LedgerUntouched DEF SelectReleasable, VerifyOtp, MarkProcessingFails
  <1>2. CASE CreateRelease(r)
    <2>1. OutcomeOf' = OutcomeOf
      BY <1>2 DEF CreateRelease, SetRelease, Flow, Early, TypeOK, OutcomeOf, Outcome
    <2> QED BY <1>2, <2>1, LedgerStutters
               DEF CreateRelease, MoneyOf, Money, BatchOf, DatedOnes
  <1>3. CASE CreatePayment(r) \/ RemovePayment(r)
    <2>1. trolley[r] \in {"none", "open"} /\ UNCHANGED <<chosen, release, datePaid>>
      BY <1>3 DEF CreatePayment, RemovePayment, Flow
    <2>2. \/ trolley' = trolley
          \/ \E s \in {"open", "removed"} : trolley' = [trolley EXCEPT ![r] = s]
      BY <1>3 DEF CreatePayment, RemovePayment
    <2>3. \A q \in Withdrawals : Money(q)' = Money(q)
      BY <2>1, <2>2 DEF Money, TypeOK
    <2> QED BY <2>1, <2>3, LedgerStutters DEF MoneyOf, BatchOf, OutcomeOf, Outcome, DatedOnes
  <1>4. CASE MarkProcessing(r) \/ RevertToOwed(r)
    <2>1. UNCHANGED <<trolley, chosen, release>>
      BY <1>4 DEF MarkProcessing, RevertToOwed
    <2>2. DatedOnes' = DatedOnes
      BY <1>4 DEF MarkProcessing, RevertToOwed, UpdateProcessingState, DatedOnes
    <2> QED BY <2>1, <2>2, LedgerStutters DEF MoneyOf, Money, BatchOf, OutcomeOf, Outcome
  <1>5. CASE FailRelease(r)
    BY <1>5, ReleaseReports DEF FailRelease
  <1>6. CASE StartProcessing(r) \/ StartProcessingFails(r)
    <2>1. /\ pc[r] = "start" /\ UNCHANGED <<chosen, release, datePaid>>
          /\ trolley' \in {trolley, [trolley EXCEPT ![r] = "processing"]}
      BY <1>6 DEF StartProcessing, StartProcessingFails
    <2> QED BY <2>1, MoneyMoves, LedgerUntouched
  <1>7. CASE Refuse(r)
    <2>1. /\ pc[r] \in Early /\ chosen' = [chosen EXCEPT ![r] = {}]
          /\ UNCHANGED <<trolley, release, datePaid>>
      BY <1>7 DEF Refuse, Early
    <2> QED BY <2>1, ChosenBeforeMoney
  <1>8. CASE Abort(r)
    <2>1. UNCHANGED <<chosen, release, datePaid>>
      BY <1>8 DEF Abort
    <2>2. CASE pc[r] = "start"
      <3>1. trolley' \in {trolley, [trolley EXCEPT ![r] = "processing"]}
        BY <1>8, <2>2 DEF Abort
      <3> QED BY <2>1, <2>2, <3>1, MoneyMoves, LedgerUntouched
    <2>3. CASE pc[r] # "start"
      <3>1. \/ trolley' = trolley
            \/ pc[r] = "pay" /\ trolley' = [trolley EXCEPT ![r] = "open"]
        BY <1>8, <2>3 DEF Abort
      <3>2. \A q \in Withdrawals : Money(q)' = Money(q)
        BY <3>1 DEF Money, TypeOK, Flow
      <3> QED BY <2>1, <3>2, LedgerStutters
                 DEF MoneyOf, BatchOf, OutcomeOf, Outcome, DatedOnes
    <2> QED BY <2>2, <2>3
  <1> QED BY <1>1, <1>2, <1>3, <1>4, <1>5, <1>6, <1>7, <1>8 DEF WithdrawStep

\* Every step is a step of the ledger or none.
LEMMA LedgerStep ==
  ASSUME TypeOK, Flow, AdminInv, LedgerInv, [Next]_vars
  PROVE  Ledger!Next \/ UNCHANGED Ledger!ledgerVars
  <1>1. CASE UNCHANGED vars
    BY <1>1, LedgerUntouched DEF vars
  <1>2. ASSUME NEW r \in Withdrawals, NEW W \in SUBSET Winnings, NEW c \in Codes,
               Withdraw(r, W, c)
        PROVE  UNCHANGED Ledger!ledgerVars
    <2>1. /\ pc[r] \in Early /\ chosen' = [chosen EXCEPT ![r] = W]
          /\ UNCHANGED <<trolley, release, datePaid>>
      BY <1>2 DEF Withdraw, Early, paymentVars
    <2> QED BY <2>1, ChosenBeforeMoney
  <1>3. ASSUME NEW h \in Hooks, HookStep(h) \/ HookFails(h)
        PROVE  Ledger!Next \/ UNCHANGED Ledger!ledgerVars
    <2>1. CASE HookStarts(h) \/ HookChecks(h) \/ HookFails(h)
      BY <2>1, LedgerUntouched DEF HookStarts, HookChecks, HookFails, paymentVars, requestVars
    <2>2. CASE HookPayments(h)
      BY <2>2, HookDates
    <2>3. CASE HookWrites(h)
      <3>1. h[1] \in Withdrawals /\ UNCHANGED <<trolley, chosen, datePaid>>
        BY <2>3 DEF Hooks, HookWrites, paymentVars, requestVars
      <3> QED BY <2>3, <3>1, ReleaseReports
    <2> QED BY <1>3, <2>1, <2>2, <2>3 DEF HookStep
  <1>4. ASSUME NEW a \in Admins, AdminStep(a)
        PROVE  Ledger!Next \/ UNCHANGED Ledger!ledgerVars
    <2>1. CASE AdminReadsRelease(a) \/ AdminGivesUp(a)
      BY <2>1, LedgerUntouched DEF AdminReadsRelease, AdminGivesUp, paymentVars, requestVars
    <2>2. CASE AdminCommits(a)
      BY <2>2, EditReopens, ConstantsAssumption
    <2> QED BY <1>4, <2>1, <2>2 DEF AdminStep
  <1>5. ASSUME NEW r \in Withdrawals, TrolleySettles(r) \/ TrolleyReturns(r) PROVE Ledger!Next
    BY <1>5, MoneySettles
  <1>6. ASSUME NEW r \in Withdrawals, WithdrawStep(r) \/ Refuse(r) \/ Abort(r)
        PROVE  Ledger!Next \/ UNCHANGED Ledger!ledgerVars
    BY <1>6, CallKeepsLedger
  <1>7. CASE \/ \E r \in Withdrawals : ReleaseAges(r)
             \/ \E c \in Codes : IssueCode(c) \/ ExpireCode(c)
             \/ \E a \in Admins, w \in Winnings, to \in AdminTargets : AdminReadsPayment(a, w, to)
             \/ \E x \in Handlers : SetupChanges(x)
             \/ \E x \in Reconcilers : ReconcileStep(x) \/ ReconcileFails(x)
    BY <1>7, LedgerUntouched
       DEF ReleaseAges, IssueCode, ExpireCode, AdminReadsPayment, SetupChanges, ReconcileStep,
           ReconcileReads, ReconcileToggles, ReconcileFails, paymentVars, requestVars
  <1> QED BY <1>1, <1>2, <1>3, <1>4, <1>5, <1>6, <1>7 DEF Next

\* For all constants, the payout path implements PayoutLedger: whatever overlaps, fails,
\* crashes, comes late, twice or out of order, each step moves money, dates payments or
\* marks releases as the ledger allows; orderly calls keep payouts apart besides.
THEOREM LedgerKeptHolds == Spec => LedgerKept
  <1>1. TypeOK /\ Flow /\ AdminInv /\ LedgerInv /\ [Next]_vars =>
          [Ledger!Next]_(Ledger!ledgerVars)
    BY LedgerStep
  <1> QED
    BY <1>1, LedgerInit, TypeCorrect, FlowHolds, AdminInvHolds, LedgerInvHolds, PTL
       DEF Spec, LedgerKept, Ledger!Spec
=============================================================================
