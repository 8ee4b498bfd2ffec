------------------------ MODULE ChallengePaymentsProofs ------------------------
(***************************************************************************)
(* Proofs about ChallengePayments for any number of calls and any          *)
(* challenges.  Who is paid what stays opaque until the last part: before  *)
(* it the proofs only use that the payments without the reviewers' are     *)
(* some of the payments.  The last part is about the ranking of prizes.    *)
(***************************************************************************)
EXTENDS ChallengePayments, FiniteSetTheorems, TLAPS

\* What is due for the challenge stays the same while calls run, fail and crash.
LEMMA PaymentsStay == ASSUME [Next]_vars PROVE challenge' = challenge /\ Payments' = Payments
  <1>1. challenge' = challenge
    BY DEF Next, Step, vars, Acquire, SearchWinnings, SearchFails, Prepare, PrepareFails,
           CreateWinning, CreateFails, Consume, ConsumeFails, Release, ReleaseFails, Crash
  <1> QED BY <1>1 DEF Payments

\* A call that could not fetch the reviews still creates only payments that are due.
LEMMA PrizesAreDue ==
  ASSUME ~Unpayable(challenge) PROVE PrizePayments(challenge) \subseteq Payments
  BY DEF Payments, ChallengePaymentsOf

\* No step leaves the types.
THEOREM TypeCorrect == Spec => []TypeOK
  <1>1. ASSUME Init PROVE TypeOK
    <2> USE <1>1 DEF Init, Stages, Faults
    <2>1. /\ pending \in [Calls -> SUBSET Payments] /\ billed \in [Calls -> SUBSET Payments]
          /\ \A c \in Calls : pending[c] = {}
      OBVIOUS
    <2>2. created \in [Payments -> Nat] /\ pc \in [Calls -> Stages]
      OBVIOUS
    <2> QED BY <2>1, <2>2 DEF TypeOK
  <1>2. ASSUME TypeOK, [Next]_vars PROVE TypeOK'
    <2>0. Payments' = Payments /\ challenge' = challenge
      BY <1>2, PaymentsStay
    <2> USE <1>2, <2>0 DEF TypeOK, Stages, Faults, GoTo, Fault, work
    <2>1. CASE UNCHANGED vars
      BY <2>1 DEF vars
    <2>2. ASSUME NEW c \in Calls, Acquire(c) \/ SearchWinnings(c) \/ SearchFails(c)
          PROVE  TypeOK'
      BY <2>2 DEF Acquire, SearchWinnings, SearchFails
    <2>3. ASSUME NEW c \in Calls, Prepare(c) PROVE TypeOK'
      <3>1. ASSUME NEW P \in SUBSET Payments, Plans(c, P)
            PROVE  /\ pc' \in [Calls -> Stages]
                   /\ pending' \in [Calls -> SUBSET Payments]
                   /\ billed' \in [Calls -> SUBSET Payments]
                   /\ \A d \in Calls : pending'[d] # {} => pc'[d] = "create"
        BY <2>3, <3>1 DEF Prepare, Plans
      <3>2. PrizePayments(challenge) \in SUBSET Payments \/ Unpayable(challenge)
        BY PrizesAreDue
      <3>3. \/ \E P \in SUBSET Payments : Plans(c, P)
            \/ GoTo(c, "release") /\ UNCHANGED work
        BY <2>3, <3>2 DEF Prepare
      <3>4. failed' \subseteq Faults /\ UNCHANGED <<challenge, lock, created, consumed>>
        BY <2>3 DEF Prepare
      <3>5. CASE GoTo(c, "release") /\ UNCHANGED work
        BY <2>3, <3>4, <3>5 DEF Prepare
      <3> QED BY <3>1, <3>3, <3>4, <3>5
    <2>4. ASSUME NEW c \in Calls, PrepareFails(c) PROVE TypeOK'
      BY <2>4 DEF PrepareFails
    <2>5. ASSUME NEW c \in Calls, NEW p \in Payments, CreateWinning(c, p) PROVE TypeOK'
      BY <2>5 DEF CreateWinning, Settle
    <2>6. ASSUME NEW c \in Calls, NEW p \in Payments, CreateFails(c, p) PROVE TypeOK'
      BY <2>6 DEF CreateFails, Settle
    <2>7. ASSUME NEW c \in Calls, Consume(c) \/ ConsumeFails(c) PROVE TypeOK'
      BY <2>7 DEF Consume, ConsumeFails
    <2>8. ASSUME NEW c \in Calls, Release(c) \/ ReleaseFails(c) PROVE TypeOK'
      BY <2>8 DEF Release, ReleaseFails
    <2>9. ASSUME NEW c \in Calls, Crash(c) PROVE TypeOK'
      BY <2>9 DEF Crash
    <2> QED
      BY <2>1, <2>2, <2>3, <2>4, <2>5, <2>6, <2>7, <2>8, <2>9 DEF Next, Step
  <1> QED BY <1>1, <1>2, PTL DEF Spec

\* The row of challenge_lock keeps any number of calls on any number of instances apart,
\* whatever fails or crashes.
THEOREM LockProtectsHolds == Spec => []LockProtects
  <1>1. Init => LockProtects
    BY DEF Init, LockProtects, Inside
  <1>2. ASSUME TypeOK, LockProtects, [Next]_vars PROVE LockProtects'
    <2> USE <1>2 DEF LockProtects, Inside, TypeOK, GoTo
    <2>1. CASE UNCHANGED vars
      BY <2>1 DEF vars
    <2>2. ASSUME NEW c \in Calls, Acquire(c) PROVE LockProtects'
      BY <2>2 DEF Acquire
    <2>3. ASSUME NEW c \in Calls,
                 SearchWinnings(c) \/ SearchFails(c) \/ Prepare(c) \/ PrepareFails(c)
          PROVE  LockProtects'
      BY <2>3 DEF SearchWinnings, SearchFails, Prepare, PrepareFails, Plans
    <2>4. ASSUME NEW c \in Calls, NEW p \in Payments, CreateWinning(c, p) \/ CreateFails(c, p)
          PROVE  LockProtects'
      BY <2>4 DEF CreateWinning, CreateFails, Settle
    <2>5. ASSUME NEW c \in Calls, Consume(c) \/ ConsumeFails(c) PROVE LockProtects'
      BY <2>5 DEF Consume, ConsumeFails
    <2>6. ASSUME NEW c \in Calls, Release(c) \/ ReleaseFails(c) \/ Crash(c)
          PROVE  LockProtects'
      BY <2>6 DEF Release, ReleaseFails, Crash
    <2> QED BY <2>1, <2>2, <2>3, <2>4, <2>5, <2>6 DEF Next, Step
  <1> QED BY <1>1, <1>2, TypeCorrect, PTL DEF Spec

\* The row is there for a call at work, or because one crashed or could not delete it.
LockHasACall == lock => Inside # {} \/ failed \cap {"crash", "release"} # {}

\* No call ends, by success or by error, and leaves its row behind for a reason of its own:
\* the safety part of LockReleased.
THEOREM LockHasACallHolds == Spec => []LockHasACall
  <1>1. Init => LockHasACall
    BY DEF Init, LockHasACall
  <1>2. ASSUME TypeOK, LockProtects, LockHasACall, [Next]_vars PROVE LockHasACall'
    <2> USE <1>2 DEF LockHasACall, LockProtects, Inside, TypeOK, GoTo, Fault
    <2>1. CASE UNCHANGED vars
      BY <2>1 DEF vars
    <2>2. ASSUME NEW c \in Calls,
                 Acquire(c) \/ SearchWinnings(c) \/ SearchFails(c) \/ Prepare(c) \/ PrepareFails(c)
          PROVE  LockHasACall'
      <3>1. pc'[c] \notin {"idle", "done"}
        BY <2>2 DEF Acquire, SearchWinnings, SearchFails, Prepare, PrepareFails, Plans
      <3> QED BY <3>1
    <2>3. ASSUME NEW c \in Calls, NEW p \in Payments, CreateWinning(c, p) \/ CreateFails(c, p)
          PROVE  LockHasACall'
      BY <2>3 DEF CreateWinning, CreateFails, Settle
    <2>4. ASSUME NEW c \in Calls, Consume(c) \/ ConsumeFails(c) PROVE LockHasACall'
      BY <2>4 DEF Consume, ConsumeFails
    <2>5. ASSUME NEW c \in Calls, Release(c) \/ ReleaseFails(c) \/ Crash(c)
          PROVE  LockHasACall'
      BY <2>5 DEF Release, ReleaseFails, Crash
    <2> QED BY <2>1, <2>2, <2>3, <2>4, <2>5 DEF Next, Step
  <1> QED BY <1>1, <1>2, TypeCorrect, LockProtectsHolds, PTL DEF Spec

\* How far a call is from its end.
StagesLeft ==
  [idle |-> 6, search |-> 5, prepare |-> 4, create |-> 3, consume |-> 2, release |-> 1, done |-> 0]

\* A call that waits for winnings waits for some.
WaitsForSome == \A c \in Calls : pc[c] = "create" => pending[c] # {}

\* What a step may do to a call: nothing, or take it to a later stage, or settle some of the
\* winnings that it waits for.
GoesOn(c) ==
  \/ pc'[c] = pc[c] /\ pending'[c] = pending[c]
  \/ StagesLeft[pc'[c]] < StagesLeft[pc[c]]
  \/ pc[c] = "create" /\ pc'[c] = "create" /\ pending'[c] \subseteq pending[c] /\ pending'[c] # pending[c]

\* The call after a step of its own.
LEMMA CallSteps ==
  ASSUME TypeOK, NEW c \in Calls, Acquire(c) \/ Step(c) \/ Crash(c)
  PROVE  /\ \A d \in Calls \ {c} : pc'[d] = pc[d] /\ pending'[d] = pending[d]
         /\ GoesOn(c) /\ ~(pc'[c] = pc[c] /\ pending'[c] = pending[c])
         /\ pc'[c] = "create" => pending'[c] # {}
  <1> DEFINE Goal == /\ \A d \in Calls \ {c} : pc'[d] = pc[d] /\ pending'[d] = pending[d]
                     /\ GoesOn(c) /\ ~(pc'[c] = pc[c] /\ pending'[c] = pending[c])
                     /\ pc'[c] = "create" => pending'[c] # {}
  <1> USE DEF TypeOK, GoTo, GoesOn, StagesLeft, work
  <1>1. ASSUME Acquire(c) \/ SearchWinnings(c) \/ SearchFails(c) \/ PrepareFails(c) PROVE Goal
    BY <1>1 DEF Acquire, SearchWinnings, SearchFails, PrepareFails
  <1>2. ASSUME Prepare(c) PROVE Goal
    <2>1. ASSUME NEW P, Plans(c, P) PROVE Goal
      BY <1>2, <2>1 DEF Prepare, Plans
    <2>2. ASSUME GoTo(c, "release"), UNCHANGED work PROVE Goal
      BY <1>2, <2>2 DEF Prepare
    <2> QED BY <1>2, <2>1, <2>2 DEF Prepare
  <1>3. ASSUME NEW p \in Payments, CreateWinning(c, p) \/ CreateFails(c, p) PROVE Goal
    <2>1. Settle(c, p)
      BY <1>3 DEF CreateWinning, CreateFails
    <2>2. CASE pending[c] = {p}
      BY <2>1, <2>2 DEF Settle
    <2>3. CASE pending[c] # {p}
      BY <2>1, <2>3 DEF Settle
    <2> QED BY <2>2, <2>3
  <1>4. ASSUME Consume(c) \/ ConsumeFails(c) \/ Release(c) \/ ReleaseFails(c) PROVE Goal
    BY <1>4 DEF Consume, ConsumeFails, Release, ReleaseFails
  <1>5. ASSUME Crash(c) PROVE Goal
    BY <1>5 DEF Crash, Stages
  <1> QED BY <1>1, <1>2, <1>3, <1>4, <1>5 DEF Step

\* A call that holds the lock never waits for nothing, and every step of it brings it nearer
\* to its end, while the steps of others leave it alone: what LockReleased waits for is a
\* matter of its taking its steps.
THEOREM CallsGoOn ==
  Spec => []WaitsForSome
          /\ [][/\ \A c \in Calls : GoesOn(c)
                /\ \A c \in Calls : Step(c) => ~(pc'[c] = pc[c] /\ pending'[c] = pending[c])]_vars
  <1>1. Init => WaitsForSome
    BY DEF Init, WaitsForSome
  <1>2. ASSUME TypeOK, WaitsForSome, [Next]_vars PROVE WaitsForSome'
    <2>1. CASE UNCHANGED vars
      BY <1>2, <2>1 DEF vars, work, WaitsForSome
    <2>2. ASSUME NEW c \in Calls, Acquire(c) \/ Step(c) \/ Crash(c) PROVE WaitsForSome'
      BY <1>2, <2>2, CallSteps DEF WaitsForSome
    <2> QED BY <1>2, <2>1, <2>2 DEF Next
  <1>3. ASSUME TypeOK, [Next]_vars, NEW c \in Calls
        PROVE  GoesOn(c) /\ (Step(c) => ~(pc'[c] = pc[c] /\ pending'[c] = pending[c]))
    <2>1. CASE UNCHANGED vars
      BY <1>3, <2>1, CallSteps DEF vars, work, GoesOn
    <2>2. ASSUME NEW d \in Calls, Acquire(d) \/ Step(d) \/ Crash(d) PROVE GoesOn(c)
      <3>1. CASE d = c
        BY <1>3, <2>2, <3>1, CallSteps
      <3>2. CASE d # c
        BY <1>3, <2>2, <3>2, CallSteps DEF GoesOn
      <3> QED BY <3>1, <3>2
    <2> QED BY <1>3, <2>1, <2>2, CallSteps DEF Next
  <1>4. TypeOK /\ [Next]_vars =>
          /\ \A c \in Calls : GoesOn(c)
          /\ \A c \in Calls : Step(c) => ~(pc'[c] = pc[c] /\ pending'[c] = pending[c])
    BY <1>3
  <1> QED BY <1>1, <1>2, <1>4, TypeCorrect, PTL DEF Spec

\* Unless a search failed, a call never has a payment left to create that exists.
LEMMA DuplicatesInvHolds == Spec => []DuplicatesInv
  <1>1. Init => DuplicatesInv
    BY DEF Init, DuplicatesInv
  <1>2. ASSUME TypeOK, LockProtects, DuplicatesInv, [Next]_vars PROVE DuplicatesInv'
    <2>0. Payments' = Payments
      BY <1>2, PaymentsStay
    <2> USE <1>2, <2>0 DEF DuplicatesInv, TypeOK, GoTo, Fault, work
    <2>1. CASE "search" \in failed
      BY <2>1 DEF Next, Step, vars, Acquire, SearchWinnings, SearchFails, Prepare,
                  PrepareFails, CreateWinning, CreateFails, Consume, ConsumeFails, Release,
                  ReleaseFails, Crash
    <2>2. CASE UNCHANGED vars
      BY <2>2 DEF vars
    <2>3. ASSUME NEW c \in Calls, Acquire(c) \/ SearchWinnings(c) \/ SearchFails(c)
          PROVE  DuplicatesInv'
      BY <2>3 DEF Acquire, SearchWinnings, SearchFails
    <2>4. ASSUME NEW c \in Calls, Prepare(c) \/ PrepareFails(c), "search" \notin failed
          PROVE  DuplicatesInv'
      BY <2>4, PrizesAreDue DEF Prepare, PrepareFails, Plans
    <2>5. ASSUME NEW c \in Calls, NEW p \in Payments, CreateWinning(c, p),
                 "search" \notin failed
          PROVE  DuplicatesInv'
      <3>1. /\ pc[c] = "create" /\ p \in pending[c] /\ created[p] = 0
            /\ \A d \in Calls \ {c} : pc[d] \in {"idle", "done"} /\ pending[d] = {}
        BY <2>5 DEF CreateWinning, Settle, LockProtects, Inside
      <3>2. pc'[c] # "prepare" /\ p \notin pending'[c]
        BY <2>5 DEF CreateWinning, Settle
      <3>3. \A d \in Calls : pc'[d] # "prepare" /\ p \notin pending'[d]
        BY <2>5, <3>1, <3>2 DEF CreateWinning, Settle
      <3>4. \A q \in Payments : /\ created'[q] <= 1
                                /\ q # p => created'[q] = created[q]
        BY <2>5, <3>1 DEF CreateWinning
      <3>5. \A q \in Payments, d \in Calls :
              pc'[d] = "prepare" \/ q \in pending'[d] => q # p /\ q \in pending[d]
        BY <2>5, <3>3 DEF CreateWinning, Settle
      <3> QED BY <2>5, <3>4, <3>5
    <2>6. ASSUME NEW c \in Calls, NEW p \in Payments, CreateFails(c, p),
                 "search" \notin failed
          PROVE  DuplicatesInv'
      BY <2>6 DEF CreateFails, Settle
    <2>7. ASSUME NEW c \in Calls,
                 Consume(c) \/ ConsumeFails(c) \/ Release(c) \/ ReleaseFails(c) \/ Crash(c)
          PROVE  DuplicatesInv'
      BY <2>7 DEF Consume, ConsumeFails, Release, ReleaseFails, Crash
    <2> QED BY <2>1, <2>2, <2>3, <2>4, <2>5, <2>6, <2>7 DEF Next, Step
  <1> QED BY <1>1, <1>2, TypeCorrect, LockProtectsHolds, PTL DEF Spec

\* However many calls there are and whatever else fails: as long as no search for
\* existing winnings failed, no payment of the challenge is created twice.
THEOREM DuplicatesNeedFailedSearchHolds == Spec => []DuplicatesNeedFailedSearch
  <1>1. TypeOK /\ DuplicatesInv => DuplicatesNeedFailedSearch
    BY DEF TypeOK, DuplicatesInv, DuplicatesNeedFailedSearch
  <1> QED BY <1>1, TypeCorrect, DuplicatesInvHolds, PTL

\* The consumption of a call replaces the budget, and yet covers all winnings in dollars:
\* whoever gets to create has found none, for any number of calls and any challenge.
THEOREM ConsumedCoversCreatedHolds == Spec => []ConsumedCoversCreated
  <1>1. Init => BilledInv
    BY DEF Init, BilledInv
  <1>2. BilledInv => ConsumedCoversCreated
    BY DEF BilledInv, ConsumedCoversCreated, Inside
  <1>3. ASSUME TypeOK, LockProtects, DuplicatesInv, BilledInv, [Next]_vars PROVE BilledInv'
    <2>0. Payments' = Payments
      BY <1>3, PaymentsStay
    <2>1. SUFFICES ASSUME failed' \cap {"search", "consume", "crash"} = {} PROVE BilledInv'
      BY DEF BilledInv
    <2>2. failed \subseteq failed'
      BY <1>3 DEF Next, Step, vars, Acquire, SearchWinnings, SearchFails, Prepare,
                  PrepareFails, CreateWinning, CreateFails, Consume, ConsumeFails, Release,
                  ReleaseFails, Crash, Fault
    <2>3. failed \cap {"search", "consume", "crash"} = {}
      BY <2>1, <2>2
    <2> USE <1>3, <2>0, <2>1, <2>3 DEF BilledInv, TypeOK, GoTo, Fault, work
    <2>4. CASE UNCHANGED vars
      BY <2>4 DEF vars
    <2>5. ASSUME NEW c \in Calls,
                 Acquire(c) \/ SearchWinnings(c) \/ PrepareFails(c) \/ Release(c) \/ ReleaseFails(c)
          PROVE  BilledInv'
      BY <2>5 DEF Acquire, SearchWinnings, PrepareFails, Release, ReleaseFails
    <2>6. ASSUME NEW c \in Calls, Prepare(c) PROVE BilledInv'
      <3>1. \A p \in Payments : created[p] = 0
        BY <2>6 DEF Prepare, DuplicatesInv
      <3> QED BY <2>6, <3>1 DEF Prepare, Plans
    <2>7. ASSUME NEW c \in Calls, NEW p \in Payments, CreateWinning(c, p) PROVE BilledInv'
      <3>1. \A d \in Calls \ {c} : pc[d] \in {"idle", "done"}
        BY <2>7 DEF CreateWinning, Settle, LockProtects, Inside
      <3> QED BY <2>7, <3>1 DEF CreateWinning, Settle
    <2>8. ASSUME NEW c \in Calls, NEW p \in Payments, CreateFails(c, p) PROVE BilledInv'
      BY <2>8 DEF CreateFails, Settle
    <2>9. ASSUME NEW c \in Calls, Consume(c) PROVE BilledInv'
      <3>1. \A d \in Calls : pc'[d] \notin {"create", "consume"}
        BY <2>9 DEF Consume, LockProtects, Inside
      <3>2. \A p \in Payments : created[p] > 0 /\ DollarsOf(p) > 0 => p \in consumed'
        BY <2>9 DEF Consume, HasDollars
      <3> QED BY <2>9, <3>1, <3>2 DEF Consume
    <2>10. ASSUME NEW c \in Calls, SearchFails(c) \/ ConsumeFails(c) \/ Crash(c)
           PROVE  BilledInv'
      BY <2>10 DEF SearchFails, ConsumeFails, Crash
    <2> QED BY <2>4, <2>5, <2>6, <2>7, <2>8, <2>9, <2>10 DEF Next, Step
  <1> QED
    BY <1>1, <1>2, <1>3, TypeCorrect, LockProtectsHolds, DuplicatesInvHolds, PTL DEF Spec

\* A call is as far with the winnings as its stage says, as long as nothing failed.
LEMMA StageInvHolds == Spec => []StageInv
  <1>1. Init => StageInv
    BY DEF Init, StageInv, AllDone, NoneDone
  <1>2. ASSUME TypeOK, LockProtects, StageInv, [Next]_vars PROVE StageInv'
    <2>0. Payments' = Payments /\ challenge' = challenge
      BY <1>2, PaymentsStay
    <2>1. failed \subseteq failed'
      BY <1>2 DEF Next, Step, vars, Acquire, SearchWinnings, SearchFails, Prepare,
                  PrepareFails, CreateWinning, CreateFails, Consume, ConsumeFails, Release,
                  ReleaseFails, Crash, Fault
    <2>2. SUFFICES ASSUME failed' = {} PROVE StageInv'
      BY DEF StageInv
    <2>3. failed = {}
      BY <2>1, <2>2
    <2> USE <1>2, <2>0, <2>2, <2>3 DEF StageInv, TypeOK, GoTo, Fault, work, AllDone, NoneDone
    <2>4. CASE UNCHANGED vars
      BY <2>4 DEF vars
    <2>5. ASSUME NEW c \in Calls,
                 Acquire(c) \/ PrepareFails(c) \/ Release(c)
          PROVE  StageInv'
      BY <2>5 DEF Acquire, PrepareFails, Release
    <2>6. ASSUME NEW c \in Calls, SearchWinnings(c) PROVE StageInv'
      <3>1. \A d \in Calls : pc[d] \notin {"create", "consume"}
        BY <2>6 DEF SearchWinnings, LockProtects, Inside
      <3>2. AllDone \/ NoneDone
        BY <3>1
      <3>3. (\A p \in Payments : created[p] = 0) => NoneDone
        BY <3>2
      <3> QED BY <2>6, <3>1, <3>2, <3>3 DEF SearchWinnings
    <2>7. ASSUME NEW c \in Calls, Prepare(c) PROVE StageInv'
      <3>1. NoneDone /\ \A d \in Calls \ {c} : pc[d] \in {"idle", "done"}
        BY <2>7 DEF Prepare, LockProtects, Inside
      <3>2. CASE Plans(c, Payments)
        BY <2>7, <3>1, <3>2 DEF Prepare, Plans
      <3>3. CASE GoTo(c, "release") /\ UNCHANGED work
        BY <2>7, <3>1, <3>3 DEF Prepare
      <3> QED BY <2>7, <3>2, <3>3 DEF Prepare
    <2>8. ASSUME NEW c \in Calls, NEW p \in Payments, CreateWinning(c, p) PROVE StageInv'
      <3>1. \A d \in Calls \ {c} : pc[d] \in {"idle", "done"}
        BY <2>8 DEF CreateWinning, Settle, LockProtects, Inside
      <3>2. consumed' = {} /\ billed'[c] = Payments /\ pc'[c] \in {"create", "consume"}
        BY <2>8 DEF CreateWinning, Settle
      <3>3. \A q \in Payments : created'[q] = IF q \in pending'[c] THEN 0 ELSE 1
        BY <2>8 DEF CreateWinning, Settle
      <3>4. \A d \in Calls \ {c} : pc'[d] \in {"idle", "done"}
        BY <2>8, <3>1 DEF CreateWinning, Settle
      <3> QED BY <3>2, <3>3, <3>4
    <2>9. ASSUME NEW c \in Calls, Consume(c) PROVE StageInv'
      <3>1. \A d \in Calls : pc'[d] \notin {"prepare", "create", "consume"}
        BY <2>9 DEF Consume, LockProtects, Inside
      <3>2. AllDone'
        BY <2>9 DEF Consume, HasDollars
      <3> QED BY <3>1, <3>2
    <2>10. ASSUME NEW c \in Calls, NEW p \in Payments,
                  \/ SearchFails(c) \/ CreateFails(c, p) \/ ConsumeFails(c) \/ ReleaseFails(c)
                  \/ Crash(c)
           PROVE  StageInv'
      BY <2>10 DEF SearchFails, CreateFails, ConsumeFails, ReleaseFails, Crash
    <2>11. ASSUME NEW c \in Calls, SearchFails(c) \/ ConsumeFails(c) \/ ReleaseFails(c) \/ Crash(c)
           PROVE  StageInv'
      BY <2>11 DEF SearchFails, ConsumeFails, ReleaseFails, Crash
    <2> QED BY <2>4, <2>5, <2>6, <2>7, <2>8, <2>9, <2>10, <2>11 DEF Next, Step
  <1> QED BY <1>1, <1>2, TypeCorrect, LockProtectsHolds, PTL DEF Spec

\* Whatever calls were made, on however many instances: as long as nothing failed, the
\* challenge is paid in full and billed, or not paid at all.
THEOREM AllOrNothingHolds == Spec => []AllOrNothing
  <1>1. StageInv => AllOrNothing
    BY DEF StageInv, AllOrNothing, Inside
  <1> QED BY <1>1, StageInvHolds, PTL

-----------------------------------------------------------------------------
(* Prizes by place                                                         *)

\* The members of a sequence.
LEMMA SeqMember ==
  ASSUME NEW S, NEW s \in Seq(S), NEW k \in DOMAIN s PROVE s[k] \in S /\ k \in Nat
  OBVIOUS

\* Prizes are listed by number, and their values are whole.
LEMMA PrizeValues ==
  ASSUME NEW prizes \in Seq([currency : {"USD", "POINT"}, value : Nat]),
         NEW k \in DOMAIN prizes
  PROVE  prizes[k].value \in Nat /\ k \in Nat
  <1>1. prizes[k] \in [currency : {"USD", "POINT"}, value : Nat] /\ k \in Nat
    BY SeqMember
  <1>2. \A x \in [currency : {"USD", "POINT"}, value : Nat] : x.value \in Nat
    OBVIOUS
  <1> QED BY <1>1, <1>2

\* What is listed above one of two prizes is above the other or the other is above it.
LEMMA AboveOrders ==
  ASSUME NEW prizes \in Seq([currency : {"USD", "POINT"}, value : Nat]),
         NEW i \in DOMAIN prizes, NEW j \in DOMAIN prizes
  PROVE  /\ i \notin Above(prizes, i)
         /\ i # j => i \in Above(prizes, j) \/ j \in Above(prizes, i)
         /\ i \in Above(prizes, j) => Above(prizes, i) \subseteq Above(prizes, j)
         /\ prizes[i].value > prizes[j].value => i \in Above(prizes, j)
  <1>1. \A k \in DOMAIN prizes : prizes[k].value \in Nat /\ k \in Nat
    BY PrizeValues
  <1> QED BY <1>1 DEF Above

\* Of n prizes, no two have as many above them, and there is one with each number of
\* prizes above it, from none to n - 1: the ranking misses no prize.
LEMMA RanksOfPrizes ==
  ASSUME NEW prizes \in Seq([currency : {"USD", "POINT"}, value : Nat])
  PROVE  /\ \A i, j \in DOMAIN prizes :
              prizes[i].value > prizes[j].value =>
                Cardinality(Above(prizes, i)) < Cardinality(Above(prizes, j))
         /\ \A n \in 1..Len(prizes) :
              \E i \in DOMAIN prizes : Cardinality(Above(prizes, i)) = n - 1
         /\ \A i \in DOMAIN prizes : Cardinality(Above(prizes, i)) \in Nat
  <1> DEFINE D == DOMAIN prizes
             N == Len(prizes)
             A(i) == Above(prizes, i)
             r == [i \in D |-> Cardinality(A(i)) + 1]
  <1>1. N \in Nat /\ D = 1..N
    OBVIOUS
  <1>2. IsFiniteSet(D) /\ Cardinality(D) = N
    <2> HIDE DEF D, N
    <2> QED BY <1>1, FS_Interval
  <1>3. ASSUME NEW i \in D
        PROVE  IsFiniteSet(A(i)) /\ Cardinality(A(i)) \in Nat /\ Cardinality(A(i)) < N
    <2>1. A(i) \in SUBSET D /\ A(i) # D
      BY AboveOrders DEF Above
    <2> HIDE DEF A, D, N
    <2>2. IsFiniteSet(A(i)) /\ Cardinality(A(i)) <= Cardinality(D)
          /\ (Cardinality(A(i)) = Cardinality(D) => A(i) = D)
      BY <1>2, <2>1, FS_Subset
    <2>3. Cardinality(A(i)) \in Nat
      BY <2>2, FS_CardinalityType
    <2> QED BY <1>1, <1>2, <2>1, <2>2, <2>3
  <1>4. ASSUME NEW i \in D, NEW j \in D, i \in A(j)
        PROVE  Cardinality(A(i)) < Cardinality(A(j))
    <2>1. A(i) \in SUBSET A(j) /\ A(i) # A(j)
      BY <1>4, AboveOrders
    <2> HIDE DEF A, D, N
    <2>2. Cardinality(A(i)) <= Cardinality(A(j))
          /\ (Cardinality(A(i)) = Cardinality(A(j)) => A(i) = A(j))
      BY <1>3, <2>1, FS_Subset
    <2> QED BY <1>3, <2>1, <2>2
  <1>5. ASSUME NEW i \in D, NEW j \in D, Cardinality(A(i)) = Cardinality(A(j))
        PROVE  i = j
    <2>1. i # j => i \in A(j) \/ j \in A(i)
      BY AboveOrders
    <2> HIDE DEF A, D
    <2> QED BY <1>3, <1>4, <1>5, <2>1
  <1>6. r \in Surjection(D, 1..N)
    <2>1. r \in [D -> 1..N]
      <3> HIDE DEF A, D, N
      <3> QED BY <1>1, <1>3
    <2>2. \A i, j \in D : r[i] = r[j] => i = j
      <3> HIDE DEF A, D
      <3> QED BY <1>3, <1>5
    <2>3. r \in Injection(D, 1..N)
      <3> HIDE DEF r, D, N
      <3> QED BY <2>1, <2>2 DEF Injection, IsInjective
    <2> HIDE DEF r, D, N
    <2>4. IsFiniteSet(1..N) /\ Cardinality(1..N) = N
      BY <1>1, FS_Interval
    <2> QED BY <1>2, <2>3, <2>4, FS_Injection
  <1>7. ASSUME NEW n \in 1..N PROVE \E i \in D : Cardinality(A(i)) = n - 1
    <2>1. \A y \in 1..N : \E x \in D : r[x] = y
      <3> HIDE DEF r, D, N
      <3> QED BY <1>6 DEF Surjection
    <2>2. PICK x \in D : r[x] = n
      <3> HIDE DEF r, D, N
      <3> QED BY <2>1
    <2>3. Cardinality(A(x)) + 1 = n /\ Cardinality(A(x)) \in Nat
      <3> HIDE DEF A, D
      <3> QED BY <1>3, <2>2
    <2> HIDE DEF A, D
    <2> QED BY <2>3
  <1>8. \A i, j \in D : prizes[i].value > prizes[j].value => i \in A(j)
    BY AboveOrders
  <1> QED BY <1>3, <1>4, <1>7, <1>8

\* The prize of a place is the one listed where the ranking says.
PrizeOf(prizes, n) ==
  CHOOSE i \in DOMAIN prizes : Cardinality(Above(prizes, i)) = n - 1

\* Each place has a prize of its own, and a better place no smaller one.
LEMMA PrizesByRank ==
  ASSUME NEW prizes \in Seq([currency : {"USD", "POINT"}, value : Nat]),
         NEW m \in 1..Len(prizes), NEW n \in 1..Len(prizes)
  PROVE  /\ PrizeOf(prizes, n) \in DOMAIN prizes
         /\ Ranked(prizes, n) = prizes[PrizeOf(prizes, n)]
         /\ PrizeOf(prizes, m) = PrizeOf(prizes, n) => m = n
         /\ m < n => Ranked(prizes, m).value >= Ranked(prizes, n).value
  <1>1. ASSUME NEW k \in 1..Len(prizes)
        PROVE  /\ PrizeOf(prizes, k) \in DOMAIN prizes
               /\ Cardinality(Above(prizes, PrizeOf(prizes, k))) = k - 1
               /\ Ranked(prizes, k) = prizes[PrizeOf(prizes, k)]
    <2>1. \E i \in DOMAIN prizes : Cardinality(Above(prizes, i)) = k - 1
      BY RanksOfPrizes
    <2> QED BY <2>1 DEF PrizeOf, Ranked
  <1>2. PrizeOf(prizes, m) = PrizeOf(prizes, n) => m = n
    BY <1>1
  <1>3. ASSUME m < n PROVE Ranked(prizes, m).value >= Ranked(prizes, n).value
    <2> DEFINE i == PrizeOf(prizes, m)
               j == PrizeOf(prizes, n)
    <2>1. i \in DOMAIN prizes /\ j \in DOMAIN prizes
          /\ Cardinality(Above(prizes, i)) = m - 1 /\ Cardinality(Above(prizes, j)) = n - 1
          /\ Ranked(prizes, m) = prizes[i] /\ Ranked(prizes, n) = prizes[j]
      BY <1>1
    <2> HIDE DEF i, j
    <2>2. ~(prizes[j].value > prizes[i].value)
      BY <1>3, <2>1, RanksOfPrizes
    <2>3. prizes[i].value \in Nat /\ prizes[j].value \in Nat
      BY <2>1, PrizeValues
    <2> QED BY <2>1, <2>2, <2>3
  <1> QED BY <1>1, <1>2, <1>3

\* A payment for a place goes to the winner with that place: the prize that the place has.
LEMMA PlacePayments ==
  ASSUME challenge \in Challenges, NEW p \in Payments, p.for[1] = "place"
  PROVE  /\ p.for[2] \in DOMAIN challenge.winners
         /\ challenge.winners[p.for[2]].place \in 1..Len(challenge.prizes)
         /\ p.amount = Ranked(challenge.prizes, challenge.winners[p.for[2]].place).value
  <1> DEFINE W == challenge.winners
             prizes == challenge.prizes
  <1>1. ~Unpayable(challenge)
    BY DEF Payments, ChallengePaymentsOf
  <1>2. p \in PrizePayments(challenge) \cup ReviewersPayments(challenge)
    BY <1>1 DEF Payments, ChallengePaymentsOf
  <1>3. p \notin ReviewersPayments(challenge)
    BY DEF ReviewersPayments, Payment
  <1>4. p \notin CopilotPayments(challenge)
    BY DEF CopilotPayments, Payment
  <1>5. p \notin WinnersPayments(challenge, challenge.checkpointWinners,
                                 challenge.checkpointPrizes, "checkpoint")
    BY DEF WinnersPayments, Payment
  <1>6. p \in WinnersPayments(challenge, W, prizes, "place")
    BY <1>2, <1>3, <1>4, <1>5 DEF PrizePayments
  <1>7. PICK i \in DOMAIN W :
          /\ ~IsCancelled(challenge)
          /\ p = Payment(W[i].user, <<"place", i>>, Ranked(prizes, W[i].place).currency,
                         Ranked(prizes, W[i].place).value)
    BY <1>6 DEF WinnersPayments
  <1>8. p.for = <<"place", i>> /\ p.amount = Ranked(prizes, W[i].place).value
    BY <1>7 DEF Payment
  <1>9. p.for[2] = i
    BY <1>8
  <1>10. ~(W[i].place > Len(prizes)) /\ W[i].place \in Nat \ {0} /\ Len(prizes) \in Nat
    BY <1>1, <1>7, ChallengesAssumption DEF Unpayable, TooFewPrizes
  <1>11. W[i].place \in 1..Len(prizes)
    <2> HIDE DEF W, prizes
    <2> QED BY <1>10
  <1>12. p.for[2] \in DOMAIN W
    BY <1>9
  <1>13. W[p.for[2]].place = W[i].place
    BY <1>9
  <1> HIDE DEF W, prizes
  <1>14. W[p.for[2]].place \in 1..Len(prizes) /\ p.amount = Ranked(prizes, W[p.for[2]].place).value
    BY <1>8, <1>11, <1>13
  <1> QED BY <1>12, <1>14 DEF W, prizes

\* For every challenge, whatever was created of what is due: the winner of a better place
\* is never paid less, and winners at different places never share a prize.
THEOREM PrizesPaidByPlaceHolds == Spec => []PrizesPaidByPlace
  <1>1. ASSUME TypeOK PROVE PrizesPaidByPlace
    <2> DEFINE paid == {p \in Payments : created[p] > 0 /\ p.for[1] = "place"}
               prizes == challenge.prizes
               Place(p) == challenge.winners[p.for[2]].place
    <2>1. challenge \in Challenges
          /\ prizes \in Seq([currency : {"USD", "POINT"}, value : Nat])
      BY <1>1, ChallengesAssumption DEF TypeOK
    <2>2. ASSUME NEW p \in paid
          PROVE  /\ Place(p) \in 1..Len(prizes)
                 /\ p.amount = Ranked(prizes, Place(p)).value
      BY <2>1, PlacePayments
    <2>3. ASSUME NEW p \in paid, NEW q \in paid, Place(p) < Place(q)
          PROVE  p.amount >= q.amount
      <3> HIDE DEF paid, prizes, Place
      <3> QED BY <2>1, <2>2, <2>3, PrizesByRank
    <2>4. ASSUME \A p, q \in paid : Place(p) = Place(q) => p = q, NEW a
          PROVE  Cardinality({q \in paid : q.amount = a}) <=
                   Cardinality({i \in DOMAIN prizes : prizes[i].value = a})
      <3> DEFINE S == {q \in paid : q.amount = a}
                 T == {i \in DOMAIN prizes : prizes[i].value = a}
                 f == [q \in S |-> PrizeOf(prizes, Place(q))]
      <3>1. ASSUME NEW q \in S PROVE PrizeOf(prizes, Place(q)) \in T
        <4>1. q \in paid /\ q.amount = a
          OBVIOUS
        <4> HIDE DEF paid, prizes, Place
        <4> QED BY <2>1, <2>2, <4>1, PrizesByRank
      <3>2. ASSUME NEW p \in S, NEW q \in S, PrizeOf(prizes, Place(p)) = PrizeOf(prizes, Place(q))
            PROVE  p = q
        <4>1. p \in paid /\ q \in paid
          OBVIOUS
        <4> HIDE DEF paid, prizes, Place
        <4> QED BY <2>1, <2>2, <2>4, <3>2, <4>1, PrizesByRank
      <3>3. IsFiniteSet(T)
        <4> DEFINE n == Len(prizes)
        <4>1. T \in SUBSET (1..n) /\ n \in Nat
          <5> HIDE DEF prizes
          <5> QED BY <2>1
        <4> HIDE DEF T, n
        <4>2. IsFiniteSet(1..n)
          BY <4>1, FS_Interval
        <4> QED BY <4>1, <4>2, FS_Subset
      <3>4. f \in Injection(S, T)
        <4> HIDE DEF S, T, Place, prizes
        <4>1. f \in [S -> T]
          BY <3>1
        <4>2. \A p, q \in S : f[p] = f[q] => p = q
          BY <3>2
        <4> HIDE DEF f
        <4> QED BY <4>1, <4>2 DEF Injection, IsInjective
      <3> HIDE DEF S, T, f
      <3>5. Cardinality(S) <= Cardinality(T)
        BY <3>3, <3>4, FS_Injection
      <3> QED BY <3>5 DEF S, T
    <2> QED BY <2>3, <2>4 DEF PrizesPaidByPlace
  <1> QED BY <1>1, TypeCorrect, PTL
=============================================================================
