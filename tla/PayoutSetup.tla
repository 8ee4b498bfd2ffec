----------------------------- MODULE PayoutSetup -----------------------------
(***************************************************************************)
(* The payout set-up of one member and the payments it holds back: the     *)
(* webhook handlers of tax forms, recipient accounts and identity checks,  *)
(* reconcileUserPayments, which each of them ends with, and the creation of*)
(* a winning, which decides between OWED and ON_HOLD by itself.            *)
(*                                                                         *)
(* Payouts.tla takes all of this as one flag that changes at any time.     *)
(* Here are the rows behind the flag.  No step of a handler runs in a      *)
(* transaction, and no table but the recipient accounts has a unique key   *)
(* that would stop two handlers from inserting the same thing.  The        *)
(* member's Trolley recipient is linked: a handler that does not find it   *)
(* changes nothing.                                                        *)
(***************************************************************************)
EXTENDS FiniteSets

CONSTANTS
  Calls,        \* handlers and other calls
  Rows,         \* ids of rows: a call inserts rows under its own id, the others are old
  Forms,        \* tax form ids
  Accounts,     \* recipient account ids
  Payments      \* the payments of the member that are OWED or ON_HOLD

ASSUME PayoutSetupAssumption ==
  /\ Calls \subseteq Rows
  /\ "none" \notin Rows \cup Forms \cup Accounts

VARIABLES
  taxForm,      \* user_tax_form_associations, by row
  account,      \* trolley_recipient_payment_method.recipient_account_id, by row
  connected,    \* user_payment_methods.status is CONNECTED
  identity,     \* user_identity_verification_associations, by row
  status,       \* payment.payment_status
  call,         \* each call: its event, next step and what it has read
  alone,        \* the call under way that has had no other beside it (history)
  settled       \* what no overlap or failure has touched since a call that ran
                \* alone last wrote it (history)

setupVars == <<taxForm, account, connected, identity>>
vars == <<taxForm, account, connected, identity, status, call, alone, settled>>

TaxEvents == [kind : {"tax"}, form : Forms,
              is : {"incomplete", "submitted", "reviewed", "voided"}]
AccountEvents == [kind : {"account"}, account : Accounts, primary : BOOLEAN]
DeletedEvents == [kind : {"deleted"}, account : Accounts]
IdentityEvents == [kind : {"identity"}, approved : BOOLEAN]
Creations == [kind : {"winning"}, payment : Payments]
Events == TaxEvents \cup AccountEvents \cup DeletedEvents \cup IdentityEvents
            \cup Creations \cup {[kind |-> "admin"]}

FormStatus == {"none", "ACTIVE", "INACTIVE"}
Stages == {"read", "write", "methods", "connect", "tax?", "method?", "identity?",
           "insert", "status", "owe", "hold"}
NoCall == [pc |-> "idle"]
Done == [pc |-> "done"]

\* seen: the row that was read.  to: what the read made the handler decide to write.
CallStates == {NoCall, Done} \cup [event : Events, pc : Stages, seen : Rows \cup {"none"},
                             to : {"ACTIVE", "INACTIVE"}, hold : BOOLEAN]

TypeOK ==
  /\ taxForm \in [Rows -> [form : Forms \cup {"none"}, status : FormStatus]]
  /\ account \in [Rows -> Accounts \cup {"none"}]
  /\ connected \in BOOLEAN
  /\ identity \in [Rows -> FormStatus]
  /\ status \in [Payments -> {"none", "OWED", "ON_HOLD"}]
  /\ call \in [Calls -> CallStates]
  /\ alone \subseteq Calls
  /\ settled \subseteq {"status", "accounts"}

NoForm == [form |-> "none", status |-> "none"]

\* A new member (r is no row), or one whose set-up is complete in row r, with or without
\* the identity check, and whose payments have been reconciled since.
Init ==
  /\ \E r \in (Rows \ Calls) \cup {"none"}, f \in Forms, a \in Accounts, ready \in BOOLEAN :
       /\ taxForm = [x \in Rows |-> IF x = r THEN [form |-> f, status |-> "ACTIVE"] ELSE NoForm]
       /\ account = [x \in Rows |-> IF x = r THEN a ELSE "none"]
       /\ connected = (r # "none")
       /\ identity = [x \in Rows |-> IF x = r /\ ready THEN "ACTIVE" ELSE "none"]
       /\ status \in [Payments ->
                       {"none", IF r # "none" /\ ready THEN "OWED" ELSE "ON_HOLD"}]
  /\ call = [c \in Calls |-> NoCall]
  /\ alone = {}
  /\ settled = {"status", "accounts"}

-----------------------------------------------------------------------------
Busy == {c \in Calls : call[c].pc \notin {"idle", "done"}}

FirstStage(e) == CASE e.kind = "winning" -> "tax?"
                   [] e.kind = "admin" -> "status"
                   [] OTHER -> "read"

Start(c, e) ==
  /\ call[c] = NoCall
  /\ e.kind = "winning" => /\ status[e.payment] = "none"
                           /\ \A b \in Busy : call[b].event # e
  /\ call' = [call EXCEPT ![c] = [event |-> e, pc |-> FirstStage(e), seen |-> "none",
                                  to |-> "INACTIVE", hold |-> FALSE]]
  /\ IF Busy = {} THEN alone' = {c} /\ UNCHANGED settled
                  ELSE alone' = {} /\ settled' = {}
  /\ UNCHANGED <<setupVars, status>>

At(c, kinds, stage) == call[c].pc = stage /\ call[c].event.kind \in kinds

Goes(c, stage) == call' = [call EXCEPT ![c].pc = stage]

Ends(c) == call' = [call EXCEPT ![c] = Done]

\* An await throws or the instance crashes; the event is not handled again.
Fails(c) ==
  /\ c \in Busy
  /\ Ends(c)
  /\ settled' = {}
  /\ UNCHANGED <<setupVars, status, alone>>

-----------------------------------------------------------------------------
(***************************************************************************)
(* TaxFormHandler.                                                         *)
(***************************************************************************)
FormRows(f) == {r \in Rows : taxForm[r].form = f}

\* Wrong form: a form that was submitted again is no longer active.
TaxFormStatusOfEvent(old, is) == IF is = "reviewed" THEN "ACTIVE" ELSE "INACTIVE"

\* getTaxFormStatus; old is the status of the row that was read, or "none".
TaxFormStatus(old, is) ==
  IF is = "reviewed" \/ (old = "ACTIVE" /\ is = "submitted") THEN "ACTIVE" ELSE "INACTIVE"

ReadTaxForm(c) ==
  /\ At(c, {"tax"}, "read")
  /\ LET e == call[c].event
         Sees(r, old) == call' = [call EXCEPT ![c].pc = "write", ![c].seen = r,
                                              ![c].to = TaxFormStatus(old, e.is)]
     IN IF FormRows(e.form) = {} THEN Sees("none", "none")
        ELSE \E r \in FormRows(e.form) : Sees(r, taxForm[r].status)
  /\ UNCHANGED <<setupVars, status, alone, settled>>

\* Delete every row of a voided form, insert a row, or update the row that was read; the
\* update throws if the row is gone (Fails).
WriteTaxForm(c) ==
  /\ At(c, {"tax"}, "write")
  /\ LET e == call[c].event  r == call[c].seen
         new == [form |-> e.form, status |-> call[c].to]
     IN \/ /\ r # "none" /\ e.is = "voided"
           /\ taxForm' = [x \in Rows |-> IF x \in FormRows(e.form) THEN NoForm ELSE taxForm[x]]
        \/ /\ r = "none"
           /\ taxForm' = [taxForm EXCEPT ![c] = new]
        \/ /\ r # "none" /\ e.is # "voided" /\ r \in FormRows(e.form)
           /\ taxForm' = [taxForm EXCEPT ![r] = new]
  /\ Goes(c, "status")
  /\ UNCHANGED <<account, connected, identity, status, alone, settled>>

-----------------------------------------------------------------------------
(***************************************************************************)
(* RecipientAccountHandler.                                                *)
(***************************************************************************)
AccountRows == {r \in Rows : account[r] # "none"}

\* Which row is the first is up to the database.  An account that is not primary and
\* has no row to be removed ends the handler.
ReadAccounts(c) ==
  /\ At(c, {"account"}, "read")
  /\ IF AccountRows # {}
     THEN \E r \in AccountRows :
            call' = [call EXCEPT ![c].pc = "write", ![c].seen = r,
                                 ![c].to = IF account[r] = call[c].event.account
                                           THEN "ACTIVE" ELSE "INACTIVE"]
     ELSE IF call[c].event.primary THEN Goes(c, "write") ELSE Ends(c)
  /\ UNCHANGED <<setupVars, status, alone, settled>>

\* handleDeleted looks for the row of the account.
ReadDeleted(c) ==
  /\ At(c, {"deleted"}, "read")
  /\ \/ \E r \in AccountRows :
          /\ account[r] = call[c].event.account
          /\ call' = [call EXCEPT ![c].pc = "write", ![c].seen = r, ![c].to = "ACTIVE"]
     \/ /\ \A r \in AccountRows : account[r] # call[c].event.account
        /\ Ends(c)
  /\ UNCHANGED <<setupVars, status, alone, settled>>

\* Insert or update with the primary account, delete the row of one that no longer is
\* (to = "ACTIVE": the row that was read had the account of the event), or write
\* nothing.  A row that is gone or an account that another row has throws (Fails).
WriteAccount(c) ==
  /\ At(c, {"account", "deleted"}, "write")
  /\ LET e == call[c].event  r == call[c].seen
         primary == e.kind = "account" /\ e.primary
         SetTo(x, a) == account' = [account EXCEPT ![x] = a]
         Free(x) == \A y \in AccountRows \ {x} : account[y] # e.account
     IN \/ primary /\ r = "none" /\ Free(c) /\ SetTo(c, e.account)
        \/ primary /\ r \in AccountRows /\ Free(r) /\ SetTo(r, e.account)
        \/ ~primary /\ call[c].to = "ACTIVE" /\ r \in AccountRows /\ SetTo(r, "none")
        \/ ~primary /\ call[c].to = "INACTIVE" /\ UNCHANGED account
  /\ Goes(c, "methods")
  /\ UNCHANGED <<taxForm, connected, identity, status, alone, settled>>

\* updateUserPaymentMethod: read the accounts again ...
ReadMethods(c) ==
  /\ At(c, {"account", "deleted"}, "methods")
  /\ call' = [call EXCEPT ![c].pc = "connect",
                          ![c].to = IF AccountRows # {} THEN "ACTIVE" ELSE "INACTIVE"]
  /\ UNCHANGED <<setupVars, status, alone, settled>>

\* Wrong form: a payment method is only ever connected.
ConnectOnly(c) ==
  /\ At(c, {"account", "deleted"}, "connect")
  /\ connected' = (connected \/ call[c].to = "ACTIVE")
  /\ settled' = IF c \in alone THEN settled \cup {"accounts"} ELSE settled
  /\ Goes(c, "status")
  /\ UNCHANGED <<taxForm, account, identity, status, alone>>

\* ... and write the status of the payment method.
ConnectMethod(c) ==
  /\ At(c, {"account", "deleted"}, "connect")
  /\ connected' = (call[c].to = "ACTIVE")
  /\ settled' = IF c \in alone THEN settled \cup {"accounts"} ELSE settled
  /\ Goes(c, "status")
  /\ UNCHANGED <<taxForm, account, identity, status, alone>>

-----------------------------------------------------------------------------
(***************************************************************************)
(* RecipientVerificationHandler, for individual and business checks.       *)
(***************************************************************************)
IdentityRows == {r \in Rows : identity[r] # "none"}

ReadIdentity(c) ==
  /\ At(c, {"identity"}, "read")
  /\ LET Sees(r) == call' = [call EXCEPT ![c].pc = "write", ![c].seen = r,
                               ![c].to = IF call[c].event.approved THEN "ACTIVE" ELSE "INACTIVE"]
     IN IF IdentityRows = {} THEN Sees("none") ELSE \E r \in IdentityRows : Sees(r)
  /\ UNCHANGED <<setupVars, status, alone, settled>>

WriteIdentity(c) ==
  /\ At(c, {"identity"}, "write")
  /\ identity' = [identity EXCEPT ![IF call[c].seen = "none" THEN c ELSE call[c].seen] =
                                     call[c].to]
  /\ Goes(c, "status")
  /\ UNCHANGED <<taxForm, account, connected, status, alone, settled>>

-----------------------------------------------------------------------------
(***************************************************************************)
(* reconcileUserPayments.                                                  *)
(***************************************************************************)
HasActiveTaxForm == \E r \in Rows : taxForm[r].status = "ACTIVE"
IdentityVerified == \E r \in Rows : identity[r] = "ACTIVE"

\* getUsersPayoutStatus joins the active forms and all identity rows: with several
\* rows, a member can be complete and in progress at once.
SetupComplete == connected /\ HasActiveTaxForm /\ IdentityVerified
SetupInProgress == ~connected \/ ~HasActiveTaxForm \/ ~IdentityVerified
                     \/ \E r \in Rows : identity[r] = "INACTIVE"

ReadPayoutStatus(c) ==
  /\ call[c].pc = "status"
  /\ call' = [call EXCEPT ![c].pc = IF SetupComplete THEN "owe" ELSE "hold",
                          ![c].hold = SetupInProgress]
  /\ UNCHANGED <<setupVars, status, alone, settled>>

\* toggleUserPaymentsStatus.
Toggle(from, to) ==
  status' = [p \in Payments |-> IF status[p] = from THEN to ELSE status[p]]

\* The reconciliation of a call that ran alone is over.
Reconciled(c) == settled' = IF c \in alone THEN settled \cup {"status"} ELSE settled

\* Wrong form: a member who is also in progress is not looked at again.
SetOwedOnly(c) ==
  /\ call[c].pc = "owe"
  /\ Toggle("ON_HOLD", "OWED")
  /\ Ends(c) /\ Reconciled(c)
  /\ UNCHANGED <<setupVars, alone>>

SetOwed(c) ==
  /\ call[c].pc = "owe"
  /\ Toggle("ON_HOLD", "OWED")
  /\ IF call[c].hold THEN Goes(c, "hold") /\ UNCHANGED settled
                     ELSE Ends(c) /\ Reconciled(c)
  /\ UNCHANGED <<setupVars, alone>>

SetOnHold(c) ==
  /\ call[c].pc = "hold"
  /\ Toggle("OWED", "ON_HOLD")
  /\ Ends(c) /\ Reconciled(c)
  /\ UNCHANGED <<setupVars, alone>>

-----------------------------------------------------------------------------
(***************************************************************************)
(* createWinningWithPayments, for a payment without a requested status.    *)
(***************************************************************************)

\* hasActiveTaxForm, getConnectedPaymentMethod and completedIdentityVerification, one
\* after the other (hold: one of them was not there).
CheckReadiness(c) ==
  \/ /\ call[c].pc = "tax?"
     /\ call' = [call EXCEPT ![c].pc = "method?", ![c].hold = ~HasActiveTaxForm]
     /\ UNCHANGED <<setupVars, status, alone, settled>>
  \/ /\ call[c].pc = "method?"
     /\ call' = [call EXCEPT ![c].pc = "identity?", ![c].hold = @ \/ ~connected]
     /\ UNCHANGED <<setupVars, status, alone, settled>>
  \/ /\ call[c].pc = "identity?"
     /\ call' = [call EXCEPT ![c].pc = "insert", ![c].hold = @ \/ ~IdentityVerified]
     /\ UNCHANGED <<setupVars, status, alone, settled>>

\* A member with an approved and an unapproved identity row is ready here and in progress
\* for the reconciliation: such a payment is settled only by the next reconciliation.
CreateWinning(c) ==
  /\ call[c].pc = "insert"
  /\ status' = [status EXCEPT ![call[c].event.payment] =
                               IF call[c].hold THEN "ON_HOLD" ELSE "OWED"]
  /\ settled' = IF SetupComplete /\ SetupInProgress THEN settled \ {"status"} ELSE settled
  /\ Ends(c)
  /\ UNCHANGED <<setupVars, alone>>

-----------------------------------------------------------------------------
Step(c) ==
  \/ ReadTaxForm(c) \/ WriteTaxForm(c)
  \/ ReadAccounts(c) \/ ReadDeleted(c) \/ WriteAccount(c)
  \/ ReadMethods(c) \/ ConnectMethod(c)
  \/ ReadIdentity(c) \/ WriteIdentity(c)
  \/ ReadPayoutStatus(c) \/ SetOwed(c) \/ SetOnHold(c)
  \/ CheckReadiness(c) \/ CreateWinning(c)

Next == \E c \in Calls : (\E e \in Events : Start(c, e)) \/ Step(c) \/ Fails(c)

Spec == Init /\ [][Next]_vars

-----------------------------------------------------------------------------
(***************************************************************************)
(* Properties.                                                             *)
(***************************************************************************)

\* Whatever overlapping and failed calls left behind, one reconciliation that runs
\* alone puts it right: from then on payments are OWED exactly if nothing of the set-up
\* is missing, until calls overlap or fail again.
LoneReconcileRepairs ==
  Busy = {} /\ "status" \in settled =>
    \A p \in Payments : status[p] # "none" => (status[p] = "OWED" <=> ~SetupInProgress)

\* The same for the payment method: after an account event that was handled alone, it is
\* connected exactly if the recipient has an account.
LoneAccountEventRepairs ==
  Busy = {} /\ "accounts" \in settled => (connected <=> AccountRows # {})

\* An active tax form is made inactive by a "submitted" event only if another handler
\* came between the read and the write.
DowngradeNeedsOverlap ==
  [][\A c \in Calls :
       c \in alone /\ At(c, {"tax"}, "write") /\ call[c].event.is = "submitted" =>
         ~\E r \in Rows : taxForm[r].status = "ACTIVE" /\ taxForm'[r].status = "INACTIVE"]_vars
=============================================================================
