-------------------------- MODULE WebhookLogProofs --------------------------
(***************************************************************************)
(* Theorems about WebhookLog, for any number of events and deliveries.     *)
(***************************************************************************)
EXTENDS WebhookLog, TLAPS

\* The initial states have their types.
LEMMA InitType == Init => TypeOK
  BY DEF Init, TypeOK, Stages

\* What a delivery under way is about.
LEMMA EventType ==
  ASSUME TypeOK, NEW d \in Deliveries, at[d] # "idle"
  PROVE  event[d] \in Events
  BY DEF TypeOK

\* Every step keeps the types.
LEMMA TypeStep == ASSUME TypeOK, [Next]_vars PROVE TypeOK'
  <1> USE DEF TypeOK, Stages, GoTo, Answer, SetEventState
  <1>1. CASE UNCHANGED vars
    BY <1>1 DEF vars
  <1>2. ASSUME NEW d \in Deliveries, NEW e \in Events, Deliver(d, e) PROVE TypeOK'
    BY <1>2, WebhookLogAssumption DEF Deliver, WebhookLogAssumption
  <1>3. ASSUME NEW d \in Deliveries, Step(d) PROVE TypeOK'
    <2>1. CASE ValidateUnique(d)
      BY <2>1, EventType DEF ValidateUnique
    <2>2. CASE LogEvent(d)
      BY <2>2, EventType DEF LogEvent
    <2>3. CASE RunHandler(d)
      BY <2>3, EventType DEF RunHandler
    <2>4. CASE SetProcessed(d)
      BY <2>4, EventType DEF SetProcessed
    <2>5. CASE Throws(d)
      BY <2>5 DEF Throws
    <2>6. CASE SetError(d)
      BY <2>6, EventType DEF SetError
    <2> QED BY <1>3, <2>1, <2>2, <2>3, <2>4, <2>5, <2>6 DEF Step
  <1>4. ASSUME NEW d \in Deliveries, BreaksOff(d) PROVE TypeOK'
    BY <1>4, EventType DEF BreaksOff
  <1> QED BY <1>1, <1>2, <1>3, <1>4 DEF Next

\* The types hold in every reachable state.
THEOREM TypeCorrect == Spec => []TypeOK
  BY InitType, TypeStep, PTL DEF Spec

-----------------------------------------------------------------------------
\* Every step keeps answered events in the log: no write takes an event back to none.
LEMMA AnsweredStep ==
  ASSUME TypeOK, AnsweredMeansLogged, [Next]_vars
  PROVE  AnsweredMeansLogged'
  <1> USE DEF TypeOK, AnsweredMeansLogged, GoTo, Answer, SetEventState
  <1>1. CASE UNCHANGED <<log, answered>>
    BY <1>1
  <1>2. ASSUME NEW d \in Deliveries, ValidateUnique(d) PROVE AnsweredMeansLogged'
    BY <1>2 DEF ValidateUnique
  <1>3. ASSUME NEW d \in Deliveries, LogEvent(d) \/ SetProcessed(d) \/ SetError(d)
        PROVE  AnsweredMeansLogged'
    BY <1>3, EventType DEF LogEvent, SetProcessed, SetError
  <1> QED
    BY <1>1, <1>2, <1>3 DEF Next, vars, Deliver, Step, RunHandler, Throws, BreaksOff

\* Whatever is lost, fails or crashes: an event that Trolley will not deliver again is in
\* the log.
THEOREM AnsweredMeansLoggedHolds == Spec => []AnsweredMeansLogged
  <1>1. Init => AnsweredMeansLogged
    BY DEF Init, AnsweredMeansLogged
  <1> QED BY <1>1, AnsweredStep, TypeCorrect, PTL DEF Spec

-----------------------------------------------------------------------------
\* The log never becomes empty again for an event, and the count of its handlers grows by
\* one with each handler that ends.
LEMMA LogSteps ==
  ASSUME TypeOK, [Next]_vars, NEW e \in Events
  PROVE  /\ log[e] # "none" => log'[e] # "none"
         /\ ran'[e] = ran[e]
              \/ \E d \in Deliveries : RunHandler(d) /\ event[d] = e /\ ran'[e] = ran[e] + 1
  <1> USE DEF TypeOK, SetEventState
  <1>1. CASE UNCHANGED <<log, ran>>
    BY <1>1
  <1>2. ASSUME NEW d \in Deliveries, LogEvent(d) \/ SetProcessed(d) \/ SetError(d)
        PROVE  (log[e] # "none" => log'[e] # "none") /\ ran'[e] = ran[e]
    BY <1>2 DEF LogEvent, SetProcessed, SetError
  <1>3. ASSUME NEW d \in Deliveries, RunHandler(d)
        PROVE  /\ UNCHANGED log
               /\ ran'[e] = ran[e] \/ (event[d] = e /\ ran'[e] = ran[e] + 1)
    BY <1>3 DEF RunHandler
  <1> QED
    BY <1>1, <1>2, <1>3
       DEF Next, vars, Deliver, Step, ValidateUnique, Throws, BreaksOff

\* A delivery changes only by its own steps, and keeps its event.
LEMMA DeliverySteps ==
  ASSUME TypeOK, [Next]_vars, NEW d \in Deliveries
  PROVE  /\ \/ at'[d] = at[d] /\ event'[d] = event[d]
            \/ Step(d) /\ event'[d] = event[d] /\ at[d] \notin {"idle", "done"}
            \/ BreaksOff(d) /\ event'[d] = event[d] /\ at'[d] = "done"
            \/ \E e \in Events : Deliver(d, e) /\ at'[d] = "unique" /\ event'[d] = e
         /\ overlapped \subseteq overlapped'
  <1> USE DEF TypeOK, GoTo, Answer
  <1>1. CASE UNCHANGED vars
    BY <1>1 DEF vars
  <1>2. ASSUME NEW f \in Deliveries, NEW e \in Events, Deliver(f, e)
        PROVE  /\ overlapped \subseteq overlapped'
               /\ f # d => at'[d] = at[d] /\ event'[d] = event[d]
               /\ at'[f] = "unique" /\ event'[f] = e
    BY <1>2 DEF Deliver
  <1>3. ASSUME NEW f \in Deliveries, Step(f) \/ BreaksOff(f)
        PROVE  /\ overlapped \subseteq overlapped' /\ UNCHANGED event
               /\ f # d => at'[d] = at[d]
               /\ Step(f) => at[f] \notin {"idle", "done"}
               /\ BreaksOff(f) => at'[f] = "done"
    BY <1>3 DEF Step, ValidateUnique, LogEvent, RunHandler, SetProcessed, Throws, SetError,
                BreaksOff
  <1> QED BY <1>1, <1>2, <1>3 DEF Next

\* StageInv is inductive.
LEMMA StageInvHolds == Spec => []StageInv
  <1>1. Init => StageInv
    BY DEF Init, StageInv
  <1>2. TypeOK /\ StageInv /\ [Next]_vars => StageInv'
    <2> SUFFICES ASSUME TypeOK, StageInv, [Next]_vars, NEW d \in Deliveries
                 PROVE  /\ at'[d] \in {"handle", "processed"} => log'[event'[d]] # "none"
                        /\ at'[d] = "processed" => ran'[event'[d]] > 0
      BY DEF StageInv
    <2>1. CASE at'[d] = at[d] /\ event'[d] = event[d]
      <3>1. CASE at[d] \in {"handle", "processed"}
        <4>1. event[d] \in Events /\ ran[event[d]] \in Nat
          BY <3>1, EventType DEF TypeOK
        <4> QED BY <2>1, <4>1, LogSteps DEF StageInv
      <3> QED BY <2>1, <3>1
    <2>2. CASE Step(d) /\ event'[d] = event[d] /\ at[d] \notin {"idle", "done"}
      <3>0. event[d] \in Events
        BY <2>2, EventType
      <3> USE <3>0 DEF TypeOK, GoTo, Answer, SetEventState
      <3>1. CASE LogEvent(d)
        BY <2>2, <3>1 DEF LogEvent
      <3>2. CASE RunHandler(d)
        BY <2>2, <3>2 DEF RunHandler, StageInv
      <3>3. CASE ValidateUnique(d) \/ SetProcessed(d) \/ Throws(d) \/ SetError(d)
        BY <3>3 DEF ValidateUnique, SetProcessed, Throws, SetError
      <3> QED BY <2>2, <3>1, <3>2, <3>3 DEF Step
    <2> QED BY <2>1, <2>2, DeliverySteps
  <1> QED BY <1>1, <1>2, TypeCorrect, PTL DEF Spec

\* The handler of an event ran to its end whenever its row says processed.
THEOREM ProcessedMeansRanHolds == Spec => []ProcessedMeansRan
  <1>1. Init => ProcessedMeansRan
    BY DEF Init, ProcessedMeansRan
  <1>2. TypeOK /\ StageInv /\ ProcessedMeansRan /\ [Next]_vars => ProcessedMeansRan'
    <2> SUFFICES ASSUME TypeOK, StageInv, ProcessedMeansRan, [Next]_vars,
                        NEW e \in Events, log'[e] = "processed"
                 PROVE  ran'[e] > 0
      BY DEF ProcessedMeansRan
    <2>1. ran[e] \in Nat /\ ran'[e] \in Nat /\ ran'[e] >= ran[e]
      BY LogSteps DEF TypeOK
    <2>2. CASE log[e] = "processed"
      BY <2>1, <2>2 DEF ProcessedMeansRan
    <2>3. ASSUME NEW d \in Deliveries, SetProcessed(d), log[e] # "processed"
          PROVE  ran[e] > 0
      BY <2>3 DEF SetProcessed, SetEventState, StageInv, TypeOK
    <2>4. ASSUME NEW d \in Deliveries, LogEvent(d) \/ SetError(d), log[e] # "processed"
          PROVE  FALSE
      BY <2>4 DEF LogEvent, SetError, SetEventState, TypeOK
    <2> QED
      BY <2>1, <2>2, <2>3, <2>4
         DEF Next, vars, Deliver, Step, ValidateUnique, RunHandler, Throws, BreaksOff
  <1> QED BY <1>1, <1>2, StageInvHolds, TypeCorrect, PTL DEF Spec

-----------------------------------------------------------------------------
\* A delivery in progress was in progress, or has just come in alone or been noticed.
LEMMA InProgressSteps ==
  ASSUME TypeOK, [Next]_vars, NEW e \in Events, NEW d \in InProgress(e)'
  PROVE  \/ d \in InProgress(e)
         \/ Deliver(d, e) /\ (InProgress(e) = {} \/ e \in overlapped')
  <1>1. d \in Deliveries /\ event'[d] = e /\ at'[d] # "done"
    BY DEF InProgress
  <1>2. ASSUME NEW f \in Events, Deliver(d, f), event'[d] = f
        PROVE  Deliver(d, e) /\ (InProgress(e) = {} \/ e \in overlapped')
    <2>1. f = e
      BY <1>1, <1>2
    <2>2. CASE InProgress(e) # {}
      <3>1. overlapped' = overlapped \cup {e}
        BY <1>2, <2>1, <2>2 DEF Deliver
      <3> QED BY <1>2, <2>1, <3>1
    <2> QED BY <1>2, <2>1, <2>2
  <1> QED BY <1>1, <1>2, DeliverySteps DEF InProgress

\* Every step keeps OnceInv.
LEMMA OnceStep ==
  ASSUME TypeOK, StageInv, OnceInv, [Next]_vars
  PROVE  OnceInv'
  <1> SUFFICES ASSUME NEW e \in Events, e \notin overlapped'
               PROVE  /\ \A d, f \in InProgress(e)' : d = f
                      /\ ran'[e] <= 1
                      /\ log'[e] = "none" => ran'[e] = 0
                      /\ \A d \in InProgress(e)' : at'[d] \in {"log", "handle"} => ran'[e] = 0
    BY DEF OnceInv
  <1>0. ran[e] \in Nat
    BY DEF TypeOK
  <1>1. /\ \A d, f \in InProgress(e) : d = f
        /\ ran[e] <= 1
        /\ log[e] = "none" => ran[e] = 0
        /\ \A d \in InProgress(e) : at[d] \in {"log", "handle"} => ran[e] = 0
    <2>1. CASE Deliveries = {}
      BY <2>1 DEF OnceInv, Next, vars
    <2>2. ASSUME NEW d \in Deliveries PROVE e \notin overlapped
      BY DeliverySteps
    <2> QED BY <2>1, <2>2 DEF OnceInv
  <1>2. ASSUME NEW d \in Deliveries, RunHandler(d), event[d] = e
        PROVE  d \in InProgress(e) /\ ran[e] = 0 /\ log[e] # "none" /\ at'[d] = "processed"
    BY <1>1, <1>2 DEF RunHandler, InProgress, StageInv, GoTo, TypeOK
  <1>3. ran'[e] <= 1 /\ (log'[e] = "none" => ran'[e] = 0)
    BY <1>0, <1>1, <1>2, LogSteps
  <1>4. ASSUME NEW d \in InProgress(e)', NEW f \in InProgress(e)' PROVE d = f
    <2>1. CASE d \in InProgress(e) /\ f \in InProgress(e)
      BY <1>1, <2>1
    <2>2. CASE Deliver(d, e) \/ Deliver(f, e)
      <3>1. ASSUME NEW g \in InProgress(e)', NEW h \in InProgress(e)', Deliver(g, e), h # g
            PROVE  FALSE
        <4>1. /\ g \in Deliveries /\ h \in Deliveries
              /\ event'[h] = event[h] /\ at'[h] = at[h]
          BY <3>1 DEF InProgress, Deliver, GoTo, TypeOK
        <4>2. h \in InProgress(e)
          BY <4>1 DEF InProgress
        <4> QED BY <3>1, <4>2 DEF Deliver
      <3> QED BY <2>2, <3>1
    <2> QED BY <1>4, <2>1, <2>2, InProgressSteps
  <1>5. ASSUME NEW d \in InProgress(e)', at'[d] \in {"log", "handle"} PROVE ran'[e] = 0
    <2>0. d \in Deliveries /\ event'[d] = e
      BY DEF InProgress
    <2>1. CASE at'[d] = at[d] /\ event'[d] = event[d]
      <3>1. d \in InProgress(e) /\ ran[e] = 0
        BY <1>1, <1>5, <2>0, <2>1 DEF InProgress
      <3>2. ASSUME NEW f \in Deliveries, RunHandler(f), event[f] = e PROVE FALSE
        BY <1>1, <1>2, <1>5, <3>1, <3>2
      <3> QED BY <3>1, <3>2, LogSteps
    <2>2. CASE Step(d) /\ event'[d] = event[d] /\ at[d] \notin {"idle", "done"}
      <3>1. d \in InProgress(e) /\ event[d] = e
        BY <2>0, <2>2 DEF InProgress
      <3>2. CASE ValidateUnique(d)
        <4>1. log[e] = "none" /\ UNCHANGED ran
          BY <1>5, <2>0, <3>1, <3>2 DEF ValidateUnique, GoTo, Answer, TypeOK
        <4> QED BY <1>1, <4>1
      <3>3. CASE LogEvent(d)
        BY <1>1, <3>1, <3>3 DEF LogEvent
      <3>4. CASE RunHandler(d) \/ SetProcessed(d) \/ Throws(d) \/ SetError(d)
        BY <1>5, <2>0, <3>4 DEF RunHandler, SetProcessed, Throws, SetError, GoTo, Answer, TypeOK
      <3> QED BY <2>2, <3>2, <3>3, <3>4 DEF Step
    <2> QED BY <1>5, <2>0, <2>1, <2>2, DeliverySteps
  <1> QED BY <1>3, <1>4, <1>5

\* Read and write of the log are apart, instances crash and statements fail; still the
\* handler of an event runs twice only if two deliveries of it overlapped.
THEOREM TwiceOnlyIfOverlappedHolds == Spec => []TwiceOnlyIfOverlapped
  <1>1. Init => OnceInv
    BY WebhookLogAssumption DEF WebhookLogAssumption, Init, OnceInv, InProgress
  <1>2. TypeOK /\ OnceInv => TwiceOnlyIfOverlapped
    BY DEF OnceInv, TwiceOnlyIfOverlapped, TypeOK
  <1> QED BY <1>1, <1>2, OnceStep, StageInvHolds, TypeCorrect, PTL DEF Spec

-----------------------------------------------------------------------------
(* What EventsSettle needs of the states.                                  *)

\* A handled event that was delivered is settled, was broken off, or is being worked on.
UnsettledIsUnderWay ==
  \A e \in Handled : Delivered(e) =>
    log[e] \in {"processed", "error"} \/ e \in broken \/ InProgress(e) # {}

\* What is logged and not settled has a delivery on its way past the log.
LoggedInv ==
  \A e \in Handled \ broken :
    log[e] = "logged" => \E d \in Deliveries : event[d] = e /\ at[d] \in {"handle", "processed", "error"}

\* A step that is not a break keeps LoggedInv for an event.
LEMMA LoggedStep == ASSUME TypeOK, LoggedInv, [Next]_vars PROVE LoggedInv'
  <1> SUFFICES ASSUME NEW e \in Handled, e \notin broken', log'[e] = "logged"
               PROVE  \E d \in Deliveries : event'[d] = e /\ at'[d] \in {"handle", "processed", "error"}
    BY DEF LoggedInv
  <1> DEFINE Goal == \E d \in Deliveries : event'[d] = e /\ at'[d] \in {"handle", "processed", "error"}
             Past(d) == event[d] = e /\ at[d] \in {"handle", "processed", "error"}
  <1>0. e \in Events
    BY WebhookLogAssumption
  <1> USE <1>0 DEF TypeOK, LoggedInv, GoTo, Answer, SetEventState
  <1>1. ASSUME UNCHANGED <<log, at, event>>, broken \subseteq broken' PROVE Goal
    BY <1>1
  <1>2. ASSUME NEW d \in Deliveries, NEW g \in Events, Deliver(d, g) PROVE Goal
    <2>1. PICK b \in Deliveries : Past(b)
      BY <1>2 DEF Deliver
    <2> QED BY <1>2, <2>1 DEF Deliver
  <1>3. ASSUME NEW d \in Deliveries, ValidateUnique(d) PROVE Goal
    <2>1. PICK b \in Deliveries : Past(b)
      BY <1>3 DEF ValidateUnique
    <2> QED BY <1>3, <2>1 DEF ValidateUnique
  <1>4. ASSUME NEW d \in Deliveries, LogEvent(d) PROVE Goal
    <2>1. CASE event[d] = e
      BY <1>4, <2>1 DEF LogEvent
    <2>2. CASE event[d] # e
      <3>1. event[d] \in Events
        BY <1>4, EventType DEF LogEvent
      <3>2. PICK b \in Deliveries : Past(b)
        BY <1>4, <2>2, <3>1 DEF LogEvent
      <3> QED BY <1>4, <2>2, <3>2 DEF LogEvent
    <2> QED BY <2>1, <2>2
  <1>5. ASSUME NEW d \in Deliveries, RunHandler(d) \/ Throws(d) PROVE Goal
    <2>1. PICK b \in Deliveries : Past(b)
      BY <1>5 DEF RunHandler, Throws
    <2> QED BY <1>5, <2>1 DEF RunHandler, Throws
  <1>6. ASSUME NEW d \in Deliveries, SetProcessed(d) \/ SetError(d) PROVE Goal
    <2>1. event[d] \in Events
      BY <1>6, EventType DEF SetProcessed, SetError
    <2>2. event[d] # e
      BY <1>6, <2>1 DEF SetProcessed, SetError
    <2>3. PICK b \in Deliveries : Past(b)
      BY <1>6, <2>1, <2>2 DEF SetProcessed, SetError
    <2> QED BY <1>6, <2>2, <2>3 DEF SetProcessed, SetError
  <1>7. ASSUME NEW d \in Deliveries, BreaksOff(d) PROVE Goal
    <2>1. event[d] # e /\ e \notin broken
      BY <1>7 DEF BreaksOff
    <2>2. PICK b \in Deliveries : Past(b)
      BY <1>7, <2>1 DEF BreaksOff
    <2> QED BY <1>7, <2>1, <2>2 DEF BreaksOff
  <1> QED BY <1>1, <1>2, <1>3, <1>4, <1>5, <1>6, <1>7 DEF Next, Step, vars

\* However often an event is delivered, throws or is delivered again: unless a delivery of
\* it broke off, it is settled or some delivery is still under way, which EventsSettle
\* expects to end.
THEOREM UnsettledIsUnderWayHolds == Spec => []UnsettledIsUnderWay
  <1>1. Init => LoggedInv /\ UnsettledIsUnderWay
    BY WebhookLogAssumption DEF Init, LoggedInv, UnsettledIsUnderWay, Delivered
  <1>2. ASSUME TypeOK, LoggedInv, UnsettledIsUnderWay, [Next]_vars PROVE UnsettledIsUnderWay'
    <2> SUFFICES ASSUME NEW e \in Handled, Delivered(e)', e \notin broken',
                        log'[e] \notin {"processed", "error"}
                 PROVE  InProgress(e)' # {}
      BY DEF UnsettledIsUnderWay
    <2>0. e \in Events /\ LoggedInv'
      BY <1>2, LoggedStep, WebhookLogAssumption
    <2>1. CASE log'[e] = "logged"
      BY <2>0, <2>1 DEF LoggedInv, InProgress
    <2>2. CASE log'[e] = "none"
      <3>1. log[e] = "none"
        BY <1>2, <2>0, <2>2, LogSteps
      <3>2. ASSUME NEW d \in Deliveries, event[d] = e, at[d] # "done" PROVE InProgress(e)' # {}
        <4>1. at'[d] # "done" /\ event'[d] = e
          <5> USE <1>2, <2>0, <3>1, <3>2 DEF TypeOK, GoTo, Answer, SetEventState
          <5>1. at[d] # "idle" /\ ~(\E g \in Events : Deliver(d, g))
            BY WebhookLogAssumption DEF Deliver
          <5>2. CASE at'[d] = at[d] /\ event'[d] = event[d]
            BY <5>2
          <5>3. CASE Step(d) /\ event'[d] = event[d]
            BY <5>3, <2>2 DEF Step, ValidateUnique, LogEvent, RunHandler, SetProcessed, Throws,
                              SetError
          <5>4. ~BreaksOff(d)
            BY DEF BreaksOff
          <5> QED BY <5>1, <5>2, <5>3, <5>4, DeliverySteps
        <4> QED BY <4>1 DEF InProgress
      <3>3. ASSUME NEW d \in Deliveries, NEW g \in Events, Deliver(d, g), event'[d] = e
            PROVE  InProgress(e)' # {}
        BY <1>2, <3>3 DEF Deliver, InProgress, GoTo, TypeOK
      <3>4. PICK d \in Deliveries : event'[d] = e
        BY DEF Delivered
      <3>5. e \notin broken
        BY <1>2 DEF Next, Step, vars, Deliver, ValidateUnique, LogEvent, RunHandler,
                    SetProcessed, Throws, SetError, BreaksOff
      <3>6. CASE event[d] = e
        BY <1>2, <3>1, <3>2, <3>5, <3>6 DEF UnsettledIsUnderWay, Delivered, InProgress
      <3>7. CASE event[d] # e
        BY <1>2, <3>3, <3>4, <3>7, DeliverySteps
      <3> QED BY <3>6, <3>7
    <2> QED BY <1>2, <2>0, <2>1, <2>2, TypeStep DEF TypeOK
  <1> QED BY <1>1, <1>2, LoggedStep, TypeCorrect, PTL DEF Spec

\* How many steps a delivery has left at most, and is therefore bound to end.
StepsLeft ==
  [idle |-> 6, unique |-> 5, log |-> 4, handle |-> 3, processed |-> 2, error |-> 1, done |-> 0]

\* The deliveries that may still write the status of an event or handle it.
PastTheCheck(e) == {d \in Deliveries : event[d] = e /\ at[d] \in {"log", "handle", "processed", "error"}}

\* No delivery goes back or round in circles: every step that moves one, and every step of
\* its own, leaves it fewer steps.  What EventsSettle waits for comes after at most five.
THEOREM DeliveriesGoOn ==
  Spec => [][\A d \in Deliveries :
               /\ at'[d] = at[d] \/ StepsLeft[at'[d]] < StepsLeft[at[d]]
               /\ Step(d) => StepsLeft[at'[d]] < StepsLeft[at[d]]]_vars
  <1>1. ASSUME TypeOK, [Next]_vars, NEW d \in Deliveries
        PROVE  /\ at'[d] = at[d] \/ StepsLeft[at'[d]] < StepsLeft[at[d]]
               /\ Step(d) => StepsLeft[at'[d]] < StepsLeft[at[d]]
    <2> USE <1>1 DEF TypeOK, GoTo, Answer, StepsLeft
    <2>1. ASSUME Step(d) PROVE StepsLeft[at'[d]] < StepsLeft[at[d]]
      BY <2>1 DEF Step, ValidateUnique, LogEvent, RunHandler, SetProcessed, Throws, SetError
    <2>2. ASSUME BreaksOff(d) PROVE StepsLeft[at'[d]] < StepsLeft[at[d]]
      BY <2>2 DEF BreaksOff
    <2>3. ASSUME NEW e \in Events, Deliver(d, e) PROVE StepsLeft[at'[d]] < StepsLeft[at[d]]
      BY <2>3 DEF Deliver
    <2> QED BY <1>1, <2>1, <2>2, <2>3, DeliverySteps
  <1>2. TypeOK /\ [Next]_vars =>
          \A d \in Deliveries :
            /\ at'[d] = at[d] \/ StepsLeft[at'[d]] < StepsLeft[at[d]]
            /\ Step(d) => StepsLeft[at'[d]] < StepsLeft[at[d]]
    BY <1>1
  <1> QED BY <1>2, TypeCorrect, PTL DEF Spec

\* An event that is on record while no delivery is past its check is at rest for good: it may
\* be delivered again, but its status stays, and its handler does not run any more.
THEOREM RestIsFinal ==
  Spec => [][\A e \in Events :
               log[e] # "none" /\ PastTheCheck(e) = {} =>
                 log'[e] = log[e] /\ ran'[e] = ran[e] /\ PastTheCheck(e)' = {}]_vars
  <1>1. ASSUME TypeOK, [Next]_vars, NEW e \in Events, log[e] # "none", PastTheCheck(e) = {}
        PROVE  log'[e] = log[e] /\ ran'[e] = ran[e] /\ PastTheCheck(e)' = {}
    <2> DEFINE Past(d) == event[d] = e /\ at[d] \in {"log", "handle", "processed", "error"}
               Rests == log'[e] = log[e] /\ ran'[e] = ran[e]
    <2>0. \A d \in Deliveries : ~Past(d)
      BY <1>1 DEF PastTheCheck
    <2> USE <1>1 DEF TypeOK, GoTo, Answer, SetEventState
    <2>1. Rests
      <3>1. CASE UNCHANGED vars
        BY <3>1 DEF vars
      <3>2. ASSUME NEW d \in Deliveries,
                   (\E g \in Events : Deliver(d, g)) \/ ValidateUnique(d) \/ Throws(d) \/ BreaksOff(d)
            PROVE  Rests
        BY <3>2 DEF Deliver, ValidateUnique, Throws, BreaksOff
      <3>3. ASSUME NEW d \in Deliveries, LogEvent(d) \/ RunHandler(d) \/ SetProcessed(d) \/ SetError(d)
            PROVE  Rests
        <4>1. event[d] # e
          BY <2>0, <3>3 DEF LogEvent, RunHandler, SetProcessed, SetError
        <4> QED BY <3>3, <4>1 DEF LogEvent, RunHandler, SetProcessed, SetError
      <3> QED BY <3>1, <3>2, <3>3 DEF Next, Step
    <2>2. ASSUME NEW d \in Deliveries, event'[d] = e, at'[d] \in {"log", "handle", "processed", "error"}
          PROVE  FALSE
      <3>1. CASE at'[d] = at[d] /\ event'[d] = event[d]
        BY <2>0, <2>2, <3>1
      <3>2. CASE Step(d) /\ event'[d] = event[d]
        <4>1. ~ValidateUnique(d)
          BY <2>2, <3>2 DEF ValidateUnique
        <4> QED BY <2>0, <2>2, <3>2, <4>1 DEF Step, LogEvent, RunHandler, SetProcessed, Throws, SetError
      <3> QED BY <1>1, <2>2, <3>1, <3>2, DeliverySteps
    <2> QED BY <2>1, <2>2 DEF PastTheCheck
  <1>2. TypeOK /\ [Next]_vars =>
          \A e \in Events :
            log[e] # "none" /\ PastTheCheck(e) = {} =>
              log'[e] = log[e] /\ ran'[e] = ran[e] /\ PastTheCheck(e)' = {}
    BY <1>1
  <1> QED BY <1>2, TypeCorrect, PTL DEF Spec
=============================================================================
