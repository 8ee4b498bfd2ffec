------------------------------ MODULE WebhookLog ------------------------------
(***************************************************************************)
(* The Trolley webhook endpoint: the event log that is to keep an event    *)
(* from being handled twice (validateUnique, then setEventState), the      *)
(* handler, and the answer that stops Trolley from delivering again.       *)
(*                                                                         *)
(* Trolley, the database and the network are the environment: an event may *)
(* be delivered again as long as no delivery of it was answered, also while*)
(* one is still being handled; statements fail; instances crash.  The      *)
(* signature check is left out: Trolley's requests pass it.                *)
(***************************************************************************)
EXTENDS Naturals, FiniteSets

CONSTANTS
  Events,       \* the x-paymentrails-delivery ids
  Handled,      \* the events whose model and action have a handler
  Deliveries    \* bound of the model: requests Trolley makes

ASSUME WebhookLogAssumption == Handled \subseteq Events /\ "none" \notin Events

VARIABLES
  log,          \* trolley_webhook_log.status of each event
  at,           \* the next step of each delivery
  event,        \* the event a delivery is about
  ran,          \* how many handlers ran to their end for each event
  answered,     \* events of which Trolley got an answer
  overlapped,   \* events with two deliveries at once (history)
  broken        \* events with a delivery that ended without an answer (history)

vars == <<log, at, event, ran, answered, overlapped, broken>>

Stages == {"idle", "unique", "log", "handle", "processed", "error", "done"}

TypeOK ==
  /\ log \in [Events -> {"none", "logged", "processed", "error"}]
  /\ at \in [Deliveries -> Stages]
  /\ event \in [Deliveries -> Events \cup {"none"}]
  /\ \A d \in Deliveries : event[d] = "none" <=> at[d] = "idle"
  /\ ran \in [Events -> Nat]
  /\ answered \subseteq Events
  /\ overlapped \subseteq Events
  /\ broken \subseteq Events

Init ==
  /\ log = [e \in Events |-> "none"]
  /\ at = [d \in Deliveries |-> "idle"]
  /\ event = [d \in Deliveries |-> "none"]
  /\ ran = [e \in Events |-> 0]
  /\ answered = {} /\ overlapped = {} /\ broken = {}

-----------------------------------------------------------------------------
GoTo(d, stage) == at' = [at EXCEPT ![d] = stage]

\* The request ends with a success status, which may be lost on its way.
Answer(d) == GoTo(d, "done") /\ answered' \in {answered, answered \cup {event[d]}}

InProgress(e) == {d \in Deliveries : event[d] = e /\ at[d] # "done"}

Deliver(d, e) ==
  /\ at[d] = "idle" /\ e \notin answered
  /\ GoTo(d, "unique")
  /\ event' = [event EXCEPT ![d] = e]
  /\ overlapped' = IF InProgress(e) = {} THEN overlapped ELSE overlapped \cup {e}
  /\ UNCHANGED <<log, ran, answered, broken>>

\* Wrong form: only events that were processed count as known.
ValidateUniqueProcessed(d) ==
  /\ at[d] = "unique"
  /\ IF log[event[d]] # "processed" THEN GoTo(d, "log") /\ UNCHANGED answered ELSE Answer(d)
  /\ UNCHANGED <<log, event, ran, overlapped, broken>>

\* The read of the log, which nothing ties to the write that follows.
ValidateUnique(d) ==
  /\ at[d] = "unique"
  /\ IF log[event[d]] = "none" THEN GoTo(d, "log") /\ UNCHANGED answered ELSE Answer(d)
  /\ UNCHANGED <<log, event, ran, overlapped, broken>>

\* setEventState: an upsert, so it also takes an event back from a later status.
SetEventState(d, status) == log' = [log EXCEPT ![event[d]] = status]

\* Wrong form: an event that is about to be handled counts as processed.
LogEventAsProcessed(d) ==
  /\ at[d] = "log"
  /\ SetEventState(d, "processed")
  /\ IF event[d] \in Handled THEN GoTo(d, "handle") /\ UNCHANGED answered ELSE Answer(d)
  /\ UNCHANGED <<event, ran, overlapped, broken>>

\* An event without a handler is logged and answered, and stays logged.
LogEvent(d) ==
  /\ at[d] = "log"
  /\ SetEventState(d, "logged")
  /\ IF event[d] \in Handled THEN GoTo(d, "handle") /\ UNCHANGED answered ELSE Answer(d)
  /\ UNCHANGED <<event, ran, overlapped, broken>>

RunHandler(d) ==
  /\ at[d] = "handle"
  /\ ran' = [ran EXCEPT ![event[d]] = @ + 1]
  /\ GoTo(d, "processed")
  /\ UNCHANGED <<log, event, answered, overlapped, broken>>

SetProcessed(d) ==
  /\ at[d] = "processed"
  /\ SetEventState(d, "processed")
  /\ Answer(d)
  /\ UNCHANGED <<event, ran, overlapped, broken>>

\* The try block throws: at one of the two writes, or in the handler, which may have
\* done part of its work.
Throws(d) ==
  /\ at[d] \in {"log", "handle", "processed"}
  /\ GoTo(d, "error")
  /\ UNCHANGED <<log, event, ran, answered, overlapped, broken>>

\* Wrong form: the error is answered but not recorded.
SetErrorForgotten(d) ==
  /\ at[d] = "error"
  /\ Answer(d)
  /\ UNCHANGED <<log, event, ran, overlapped, broken>>

\* The catch block records the error and swallows it: Trolley gets a success.
SetError(d) ==
  /\ at[d] = "error"
  /\ SetEventState(d, "error")
  /\ Answer(d)
  /\ UNCHANGED <<event, ran, overlapped, broken>>

\* Wrong form: the delivery that breaks off is answered all the same.
BreaksOffAnswered(d) ==
  /\ at[d] \in {"unique", "log", "handle", "processed", "error"}
  /\ Answer(d)
  /\ broken' = broken \cup {event[d]}
  /\ UNCHANGED <<log, event, ran, overlapped>>

\* The instance crashes, or a statement outside the try block fails: no success.
BreaksOff(d) ==
  /\ at[d] \in {"unique", "log", "handle", "processed", "error"}
  /\ GoTo(d, "done")
  /\ broken' = broken \cup {event[d]}
  /\ UNCHANGED <<log, event, ran, answered, overlapped>>

Step(d) == \/ ValidateUnique(d) \/ LogEvent(d) \/ RunHandler(d) \/ SetProcessed(d)
           \/ Throws(d) \/ SetError(d)

Next == \E d \in Deliveries : \/ \E e \in Events : Deliver(d, e)
                              \/ Step(d) \/ BreaksOff(d)

\* A request that an instance works on goes on: the awaits of the handler settle.
\* Nothing makes Trolley deliver.
Fairness == \A d \in Deliveries : WF_vars(Step(d))

Spec == Init /\ [][Next]_vars /\ Fairness

-----------------------------------------------------------------------------
(***************************************************************************)
(* Properties.                                                             *)
(***************************************************************************)

\* The status processed can be trusted: the handler ran to its end.
ProcessedMeansRan == \A e \in Events : log[e] = "processed" => ran[e] > 0

\* The log keeps an event from being handled twice as long as its deliveries do not
\* overlap, whatever crashes and fails in between.
TwiceOnlyIfOverlapped == \A e \in Events : ran[e] > 1 => e \in overlapped

\* What Trolley will not deliver again is in the log, for an operator to find.
AnsweredMeansLogged == \A e \in answered : log[e] # "none"

Delivered(e) == \E d \in Deliveries : event[d] = e

\* Unless a delivery of it breaks off, every event with a handler ends as processed or
\* as error for good.
EventsSettle ==
  <>[](\A e \in Handled :
         Delivered(e) => log[e] \in {"processed", "error"} \/ e \in broken)

-----------------------------------------------------------------------------
(***************************************************************************)
(* Strengthenings that are inductive (see WebhookLogProofs).               *)
(***************************************************************************)

\* How far a delivery has come tells what was done for its event.
StageInv ==
  \A d \in Deliveries :
    /\ at[d] \in {"handle", "processed"} => log[event[d]] # "none"
    /\ at[d] = "processed" => ran[event[d]] > 0

\* As long as the deliveries of an event come one after the other: its handler has not run
\* while the log is empty or a delivery is still to run it, and runs once.
OnceInv ==
  \A e \in Events \ overlapped :
    /\ \A d, f \in InProgress(e) : d = f
    /\ ran[e] <= 1
    /\ log[e] = "none" => ran[e] = 0
    /\ \A d \in InProgress(e) : at[d] \in {"log", "handle"} => ran[e] = 0
=============================================================================
