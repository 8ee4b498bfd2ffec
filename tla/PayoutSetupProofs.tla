-------------------------- MODULE PayoutSetupProofs --------------------------
(***************************************************************************)
(* Theorems about PayoutSetup, for any number of calls, rows, forms,       *)
(* accounts and payments: the types, that a reconciliation or an account   *)
(* event that runs alone repairs what earlier calls left behind, and that  *)
(* only an overlap makes an active tax form inactive again.                *)
(***************************************************************************)
EXTENDS PayoutSetup, TLAPS

-----------------------------------------------------------------------------
(***************************************************************************)
(* The inductive invariant.                                                *)
(***************************************************************************)

\* A call that has had no other beside it is the only one; while calls that overlap are
\* under way nothing is settled.
AloneInv ==
  /\ \A c \in alone \cap Busy : Busy = {c}
  /\ Busy # {} /\ alone \cap Busy = {} => settled = {}

\* What a call that runs alone has read is still so.
Known(c) ==
  /\ call[c].pc = "owe" => SetupComplete /\ (call[c].hold <=> SetupInProgress)
  /\ call[c].pc = "hold" => SetupInProgress
  /\ call[c].pc = "method?" => (call[c].hold <=> ~HasActiveTaxForm)
  /\ call[c].pc = "identity?" => (call[c].hold <=> ~HasActiveTaxForm \/ ~connected)
  /\ call[c].pc = "insert" => (call[c].hold <=> ~SetupComplete)
  /\ call[c].pc = "connect" => (call[c].to = "ACTIVE" <=> AccountRows # {})
  /\ At(c, {"tax"}, "write") /\ call[c].seen # "none" =>
       call[c].to = TaxFormStatus(taxForm[call[c].seen].status, call[c].event.is)

KnownInv == \A c \in alone \cap Busy : Known(c)

StatusRight ==
  \A p \in Payments : status[p] # "none" => (status[p] = "OWED" <=> ~SetupInProgress)
AccountRight == connected <=> AccountRows # {}

\* What is settled is right, but between the write of a handler and the end of its
\* reconciliation.
RepairInv ==
  /\ "status" \in settled
     /\ (\A c \in Busy : call[c].pc \notin {"methods", "connect", "status", "owe", "hold"})
     => StatusRight
  /\ "accounts" \in settled /\ (\A c \in Busy : call[c].pc \notin {"methods", "connect"})
     => AccountRight

\* A call that has not written yet has no tax form row of its own.
FreshInv == \A c \in Calls : call[c].pc \in {"idle", "read", "write"} => taxForm[c] = NoForm

IInv == TypeOK /\ AloneInv /\ KnownInv /\ RepairInv /\ FreshInv

-----------------------------------------------------------------------------
(***************************************************************************)
(* The types.                                                              *)
(***************************************************************************)

\* A call under way is a record of its event and its stage.
LEMMA BusyType ==
  ASSUME TypeOK, NEW c \in Calls, call[c].pc \in Stages
  PROVE  /\ call[c] \in [event : Events, pc : Stages, seen : Rows \cup {"none"},
                         to : {"ACTIVE", "INACTIVE"}, hold : BOOLEAN]
         /\ c \in Busy
  <1>1. call[c] \in CallStates /\ call[c] \notin {NoCall, Done}
    BY DEF TypeOK, NoCall, Done, Stages
  <1>2. call[c].pc \notin {"idle", "done"}
    BY DEF Stages
  <1> QED BY <1>1, <1>2 DEF CallStates, Busy

\* The call that makes a step is under way.
LEMMA BusyStage ==
  ASSUME TypeOK, NEW c \in Busy
  PROVE  c \in Calls /\ call[c].pc \in Stages
  BY DEF TypeOK, Busy, CallStates, NoCall, Done

\* The fields of an event, by its kind.
LEMMA EventKinds ==
  ASSUME NEW e \in Events
  PROVE  /\ e.kind \in {"tax", "account", "deleted", "identity", "winning", "admin"}
         /\ e.kind = "tax" => e.form \in Forms /\ e.is \in {"incomplete", "submitted", "reviewed", "voided"}
         /\ e.kind = "account" => e.account \in Accounts /\ e.primary \in BOOLEAN
         /\ e.kind = "deleted" => e.account \in Accounts
         /\ e.kind = "identity" => e.approved \in BOOLEAN
         /\ e.kind = "winning" => e.payment \in Payments
  BY DEF Events, TaxEvents, AccountEvents, DeletedEvents, IdentityEvents, Creations

\* The initial states have their types.
LEMMA InitType == Init => TypeOK
  <1> SUFFICES ASSUME NEW r \in (Rows \ Calls) \cup {"none"}, NEW f \in Forms, NEW a \in Accounts,
                      NEW ready \in BOOLEAN,
                      taxForm = [x \in Rows |-> IF x = r THEN [form |-> f, status |-> "ACTIVE"] ELSE NoForm],
                      account = [x \in Rows |-> IF x = r THEN a ELSE "none"],
                      connected = (r # "none"),
                      identity = [x \in Rows |-> IF x = r /\ ready THEN "ACTIVE" ELSE "none"],
                      status \in [Payments -> {"none", IF r # "none" /\ ready THEN "OWED" ELSE "ON_HOLD"}],
                      call = [c \in Calls |-> NoCall], alone = {}, settled = {"status", "accounts"}
               PROVE  TypeOK
    BY DEF Init
  <1>1. taxForm \in [Rows -> [form : Forms \cup {"none"}, status : FormStatus]]
    BY DEF NoForm, FormStatus
  <1>2. status \in [Payments -> {"none", "OWED", "ON_HOLD"}]
    OBVIOUS
  <1>3. call \in [Calls -> CallStates]
    BY DEF CallStates
  <1> QED BY <1>1, <1>2, <1>3 DEF TypeOK, FormStatus

\* The invariant holds in the initial states.
LEMMA InitInv == Init => IInv
  <1> SUFFICES ASSUME Init PROVE IInv
    OBVIOUS
  <1>1. TypeOK
    BY InitType
  <1>2. Busy = {} /\ alone = {}
    BY DEF Init, Busy, NoCall
  <1>3. AloneInv /\ KnownInv
    BY <1>2 DEF AloneInv, KnownInv
  <1>4. PICK r \in (Rows \ Calls) \cup {"none"}, f \in Forms, a \in Accounts, ready \in BOOLEAN :
           /\ taxForm = [x \in Rows |-> IF x = r THEN [form |-> f, status |-> "ACTIVE"] ELSE NoForm]
           /\ account = [x \in Rows |-> IF x = r THEN a ELSE "none"]
           /\ connected = (r # "none")
           /\ identity = [x \in Rows |-> IF x = r /\ ready THEN "ACTIVE" ELSE "none"]
           /\ status \in [Payments -> {"none", IF r # "none" /\ ready THEN "OWED" ELSE "ON_HOLD"}]
    BY DEF Init
  <1>5. FreshInv
    BY <1>4, PayoutSetupAssumption DEF FreshInv
  <1>6. a # "none" /\ "none" \notin Rows
    BY PayoutSetupAssumption
  <1>7. AccountRight
    BY <1>4, <1>6 DEF AccountRight, AccountRows
  <1>8. SetupInProgress <=> ~(r # "none" /\ ready)
    <2>1. HasActiveTaxForm <=> r # "none"
      BY <1>4, <1>6 DEF HasActiveTaxForm, NoForm
    <2>2. IdentityVerified <=> r # "none" /\ ready
      BY <1>4, <1>6 DEF IdentityVerified
    <2>3. ~\E x \in Rows : identity[x] = "INACTIVE"
      BY <1>4
    <2> QED BY <1>4, <2>1, <2>2, <2>3 DEF SetupInProgress
  <1>9. StatusRight
    BY <1>4, <1>8 DEF StatusRight
  <1> QED BY <1>1, <1>3, <1>5, <1>7, <1>9 DEF IInv, RepairInv

-----------------------------------------------------------------------------
(***************************************************************************)
(* What a step does to the calls.                                          *)
(***************************************************************************)

\* The records of calls under way.
Running == [event : Events, pc : Stages, seen : Rows \cup {"none"},
            to : {"ACTIVE", "INACTIVE"}, hold : BOOLEAN]

\* A step of c changes no other call, and leaves c under way or done.
Moves(c) ==
  /\ call' = [call EXCEPT ![c] = call'[c]]
  /\ call'[c] \in Running \cup {Done}
  /\ alone' = alone

\* A call that goes to another stage keeps the rest of its record.
LEMMA GoesMoves ==
  ASSUME TypeOK, NEW c \in Calls, call[c] \in Running, NEW s \in Stages, Goes(c, s), alone' = alone
  PROVE  Moves(c) /\ call'[c] = [call[c] EXCEPT !.pc = s]
  BY DEF TypeOK, Goes, Moves, Running

\* A call that ends is done.
LEMMA EndsMoves ==
  ASSUME TypeOK, NEW c \in Calls, Ends(c), alone' = alone
  PROVE  Moves(c) /\ call'[c] = Done
  BY DEF TypeOK, Ends, Moves

\* The other calls are under way after a move if they were before.
LEMMA MovesBusy ==
  ASSUME TypeOK, NEW c \in Busy, Moves(c)
  PROVE  /\ call' \in [Calls -> CallStates]
         /\ \A d \in Calls : d # c => call'[d] = call[d]
         /\ Busy' \subseteq Busy
         /\ Busy \ {c} \subseteq Busy'
         /\ c \in Busy' <=> call'[c].pc # "done"
  <1>1. c \in Calls
    BY DEF Busy
  <1>2. call'[c] \in CallStates
    BY DEF Moves, Running, CallStates
  <1>3. call' \in [Calls -> CallStates] /\ \A d \in Calls : d # c => call'[d] = call[d]
    BY <1>1, <1>2 DEF Moves, TypeOK
  <1>4. call'[c].pc # "idle"
    BY DEF Moves, Running, Done, Stages
  <1> QED BY <1>1, <1>3, <1>4 DEF Busy

\* A step is a move of a call that is under way.
LEMMA StepMoves ==
  ASSUME TypeOK, NEW c \in Calls, Step(c)
  PROVE  c \in Busy /\ call[c] \in Running /\ Moves(c)
  <1>1. call[c].pc \in Stages
    BY DEF Step, At, ReadTaxForm, WriteTaxForm, ReadAccounts, ReadDeleted, WriteAccount, ReadMethods,
           ConnectMethod, ReadIdentity, WriteIdentity, ReadPayoutStatus, SetOwed, SetOnHold,
           CheckReadiness, CreateWinning, Stages
  <1>2. call[c] \in Running /\ c \in Busy
    BY <1>1, BusyType DEF Running
  <1>3. "write" \in Stages /\ "methods" \in Stages /\ "connect" \in Stages /\ "status" \in Stages
        /\ "owe" \in Stages /\ "hold" \in Stages /\ "method?" \in Stages /\ "identity?" \in Stages
        /\ "insert" \in Stages
    BY DEF Stages
  <1>4. CASE ReadTaxForm(c)
    <2>1. \A is, old : TaxFormStatus(old, is) \in {"ACTIVE", "INACTIVE"}
      BY DEF TaxFormStatus
    <2>2. PICK r \in Rows \cup {"none"}, t \in {"ACTIVE", "INACTIVE"} :
             call' = [call EXCEPT ![c].pc = "write", ![c].seen = r, ![c].to = t]
      BY <1>4, <2>1 DEF ReadTaxForm, FormRows
    <2> QED BY <1>2, <1>3, <1>4, <2>2 DEF ReadTaxForm, TypeOK, Moves, Running
  <1>5. CASE WriteTaxForm(c)
    BY <1>2, <1>3, <1>5, GoesMoves DEF WriteTaxForm
  <1>6. CASE ReadAccounts(c)
    <2>1. CASE AccountRows # {}
      <3>1. PICK r \in Rows, t \in {"ACTIVE", "INACTIVE"} :
              call' = [call EXCEPT ![c].pc = "write", ![c].seen = r, ![c].to = t]
        BY <1>6, <2>1 DEF ReadAccounts, AccountRows
      <3> QED BY <1>2, <1>3, <1>6, <3>1 DEF ReadAccounts, TypeOK, Moves, Running
    <2>2. CASE AccountRows = {}
      BY <1>2, <1>3, <1>6, <2>2, GoesMoves, EndsMoves DEF ReadAccounts
    <2> QED BY <2>1, <2>2
  <1>7. CASE ReadDeleted(c)
    <2>1. alone' = alone
      BY <1>7 DEF ReadDeleted
    <2>2. CASE Ends(c)
      BY <1>2, <2>1, <2>2, EndsMoves
    <2>3. CASE ~Ends(c)
      <3>1. PICK r \in Rows : call' = [call EXCEPT ![c].pc = "write", ![c].seen = r, ![c].to = "ACTIVE"]
        BY <1>7, <2>3 DEF ReadDeleted, AccountRows
      <3> QED BY <1>2, <1>3, <2>1, <3>1 DEF TypeOK, Moves, Running
    <2> QED BY <2>2, <2>3
  <1>8. CASE WriteAccount(c)
    BY <1>2, <1>3, <1>8, GoesMoves DEF WriteAccount
  <1>9. CASE ReadMethods(c)
    <2>1. PICK t \in {"ACTIVE", "INACTIVE"} : call' = [call EXCEPT ![c].pc = "connect", ![c].to = t]
      BY <1>9 DEF ReadMethods
    <2>2. call'[c] = [call[c] EXCEPT !.pc = "connect", !.to = t]
      BY <2>1 DEF TypeOK
    <2>3. call'[c] \in Running
      BY <1>2, <1>3, <2>2 DEF Running
    <2>4. call' = [call EXCEPT ![c] = call'[c]]
      BY <2>1 DEF TypeOK
    <2>5. alone' = alone
      BY <1>9 DEF ReadMethods
    <2> QED BY <1>2, <2>3, <2>4, <2>5 DEF Moves
  <1>10. CASE ConnectMethod(c)
    BY <1>2, <1>3, <1>10, GoesMoves DEF ConnectMethod
  <1>11. CASE ReadIdentity(c)
    <2>1. PICK r \in Rows \cup {"none"}, t \in {"ACTIVE", "INACTIVE"} :
             call' = [call EXCEPT ![c].pc = "write", ![c].seen = r, ![c].to = t]
      BY <1>11 DEF ReadIdentity, IdentityRows
    <2> QED BY <1>2, <1>3, <1>11, <2>1 DEF ReadIdentity, TypeOK, Moves, Running
  <1>12. CASE WriteIdentity(c)
    BY <1>2, <1>3, <1>12, GoesMoves DEF WriteIdentity
  <1>13. CASE ReadPayoutStatus(c)
    <2>1. PICK s \in {"owe", "hold"}, h \in BOOLEAN : call' = [call EXCEPT ![c].pc = s, ![c].hold = h]
      BY <1>13 DEF ReadPayoutStatus, SetupInProgress
    <2>2. call'[c] = [call[c] EXCEPT !.pc = s, !.hold = h]
      BY <2>1 DEF TypeOK
    <2>3. call'[c] \in Running
      BY <1>2, <1>3, <2>2 DEF Running
    <2>4. call' = [call EXCEPT ![c] = call'[c]]
      BY <2>1 DEF TypeOK
    <2>5. alone' = alone
      BY <1>13 DEF ReadPayoutStatus
    <2> QED BY <1>2, <2>3, <2>4, <2>5 DEF Moves
  <1>14. CASE SetOwed(c)
    BY <1>2, <1>3, <1>14, GoesMoves, EndsMoves DEF SetOwed
  <1>15. CASE SetOnHold(c)
    BY <1>2, <1>15, EndsMoves DEF SetOnHold
  <1>16. CASE CheckReadiness(c)
    <2>1. PICK s \in {"method?", "identity?", "insert"}, h \in BOOLEAN :
             call' = [call EXCEPT ![c].pc = s, ![c].hold = h]
      <3>1. (~HasActiveTaxForm) \in BOOLEAN /\ (call[c].hold \/ ~connected) \in BOOLEAN
            /\ (call[c].hold \/ ~IdentityVerified) \in BOOLEAN
        OBVIOUS
      <3>2. CASE call' = [call EXCEPT ![c].pc = "method?", ![c].hold = ~HasActiveTaxForm]
        BY <3>1, <3>2
      <3>3. CASE call' = [call EXCEPT ![c].pc = "identity?", ![c].hold = @ \/ ~connected]
        BY <3>1, <3>3
      <3>4. CASE call' = [call EXCEPT ![c].pc = "insert", ![c].hold = @ \/ ~IdentityVerified]
        BY <3>1, <3>4
      <3> QED BY <1>16, <3>2, <3>3, <3>4 DEF CheckReadiness
    <2>2. alone' = alone
      BY <1>16 DEF CheckReadiness
    <2> QED BY <1>2, <1>3, <2>1, <2>2 DEF TypeOK, Moves, Running
  <1>17. CASE CreateWinning(c)
    BY <1>2, <1>17, EndsMoves DEF CreateWinning
  <1> QED BY <1>2, <1>4, <1>5, <1>6, <1>7, <1>8, <1>9, <1>10, <1>11, <1>12, <1>13, <1>14, <1>15, <1>16, <1>17
          DEF Step

\* A call under way after a step was so before it, and has changed only if the step was its own.
LEMMA NotBusyAfter ==
  ASSUME TypeOK, NEW c \in Busy, Moves(c), NEW d \in Busy'
  PROVE  d \in Busy /\ (d # c => call'[d] = call[d])
  BY MovesBusy DEF Busy

-----------------------------------------------------------------------------
(***************************************************************************)
(* Types and tax form rows under a step.                                   *)
(***************************************************************************)

\* Every step of a call keeps the types.
LEMMA StepType ==
  ASSUME TypeOK, NEW c \in Calls, Step(c)
  PROVE  TypeOK'
  <1>1. c \in Busy /\ call[c] \in Running /\ Moves(c)
    BY StepMoves
  <1>2. call' \in [Calls -> CallStates] /\ alone' \subseteq Calls
    BY <1>1, MovesBusy DEF Moves, TypeOK
  <1>3. c \in Rows
    BY PayoutSetupAssumption
  <1>4. settled' \subseteq {"status", "accounts"}
    BY DEF Step, ReadTaxForm, WriteTaxForm, ReadAccounts, ReadDeleted, WriteAccount, ReadMethods,
           ConnectMethod, ReadIdentity, WriteIdentity, ReadPayoutStatus, SetOwed, SetOnHold,
           CheckReadiness, CreateWinning, Reconciled, setupVars, TypeOK
  <1>5. status' \in [Payments -> {"none", "OWED", "ON_HOLD"}]
    <2>1. CASE SetOwed(c) \/ SetOnHold(c)
      BY <2>1 DEF SetOwed, SetOnHold, Toggle, TypeOK
    <2>2. CASE CreateWinning(c)
      BY <2>2 DEF CreateWinning, TypeOK
    <2> QED BY <2>1, <2>2 DEF Step, ReadTaxForm, WriteTaxForm, ReadAccounts, ReadDeleted, WriteAccount,
           ReadMethods, ConnectMethod, ReadIdentity, WriteIdentity, ReadPayoutStatus, CheckReadiness, TypeOK
  <1>6. taxForm' \in [Rows -> [form : Forms \cup {"none"}, status : FormStatus]]
    <2>1. CASE WriteTaxForm(c)
      <3> DEFINE e == call[c].event
                 new == [form |-> e.form, status |-> call[c].to]
      <3>1. e \in Events /\ e.kind = "tax" /\ call[c].to \in {"ACTIVE", "INACTIVE"}
        BY <1>1, <2>1 DEF Running, WriteTaxForm, At
      <3>2. e.form \in Forms
        BY <3>1, EventKinds
      <3>3. new \in [form : Forms \cup {"none"}, status : FormStatus]
            /\ NoForm \in [form : Forms \cup {"none"}, status : FormStatus]
        BY <3>1, <3>2 DEF FormStatus, NoForm
      <3>4. \/ taxForm' = [x \in Rows |-> IF x \in FormRows(e.form) THEN NoForm ELSE taxForm[x]]
            \/ \E r \in Rows : taxForm' = [taxForm EXCEPT ![r] = new]
        BY <1>3, <2>1 DEF WriteTaxForm, FormRows
      <3> HIDE DEF e, new
      <3> QED BY <3>3, <3>4 DEF TypeOK
    <2> QED BY <2>1 DEF Step, ReadTaxForm, ReadAccounts, ReadDeleted, WriteAccount, ReadMethods,
           ConnectMethod, ReadIdentity, WriteIdentity, ReadPayoutStatus, SetOwed, SetOnHold,
           CheckReadiness, CreateWinning, setupVars, TypeOK
  <1>7. account' \in [Rows -> Accounts \cup {"none"}]
    <2>1. CASE WriteAccount(c)
      <3>1. call[c].event \in Events /\ call[c].event.kind \in {"account", "deleted"}
        BY <1>1, <2>1 DEF Running, WriteAccount, At
      <3>2. call[c].event.account \in Accounts
        BY <3>1, EventKinds
      <3>3. \/ \E x \in Rows, a \in Accounts \cup {"none"} : account' = [account EXCEPT ![x] = a]
            \/ account' = account
        BY <1>3, <2>1, <3>2 DEF WriteAccount, AccountRows
      <3> QED BY <3>3 DEF TypeOK
    <2> QED BY <2>1 DEF Step, ReadTaxForm, WriteTaxForm, ReadAccounts, ReadDeleted, ReadMethods,
           ConnectMethod, ReadIdentity, WriteIdentity, ReadPayoutStatus, SetOwed, SetOnHold,
           CheckReadiness, CreateWinning, setupVars, TypeOK
  <1>8. connected' \in BOOLEAN
    BY DEF Step, ReadTaxForm, WriteTaxForm, ReadAccounts, ReadDeleted, WriteAccount, ReadMethods,
           ConnectMethod, ReadIdentity, WriteIdentity, ReadPayoutStatus, SetOwed, SetOnHold,
           CheckReadiness, CreateWinning, setupVars, TypeOK
  <1>9. identity' \in [Rows -> FormStatus]
    <2>1. CASE WriteIdentity(c)
      <3>1. call[c].seen \in Rows \cup {"none"} /\ call[c].to \in FormStatus
        BY <1>1 DEF Running, FormStatus
      <3> QED BY <1>3, <2>1, <3>1 DEF WriteIdentity, TypeOK
    <2> QED BY <2>1 DEF Step, ReadTaxForm, WriteTaxForm, ReadAccounts, ReadDeleted, WriteAccount, ReadMethods,
           ConnectMethod, ReadIdentity, ReadPayoutStatus, SetOwed, SetOnHold,
           CheckReadiness, CreateWinning, setupVars, TypeOK
  <1> QED BY <1>2, <1>4, <1>5, <1>6, <1>7, <1>8, <1>9 DEF TypeOK

\* A call does not come to its read or write with a tax form row of its own: a row that
\* is updated has the form of the event already, so it is not a new one.
LEMMA StepFresh ==
  ASSUME TypeOK, FreshInv, NEW c \in Calls, Step(c)
  PROVE  FreshInv'
  <1>1. c \in Busy /\ call[c] \in Running /\ Moves(c)
    BY StepMoves
  <1>2. \A d \in Calls : d # c => call'[d] = call[d]
    BY <1>1, MovesBusy
  <1>3. CASE WriteTaxForm(c)
    <2>1. call'[c].pc = "status"
      BY <1>1, <1>3 DEF WriteTaxForm, Goes, Running, TypeOK
    <2>2. call[c].event \in Events /\ call[c].event.kind = "tax"
      BY <1>1, <1>3 DEF Running, WriteTaxForm, At
    <2>3. call[c].event.form # "none"
      BY <2>2, EventKinds, PayoutSetupAssumption
    <2> SUFFICES ASSUME NEW d \in Calls, call'[d].pc \in {"idle", "read", "write"}
                 PROVE  taxForm'[d] = NoForm
      BY DEF FreshInv
    <2>4. d # c /\ taxForm[d] = NoForm /\ d \in Rows
      BY <1>2, <2>1, PayoutSetupAssumption DEF FreshInv
    <2>5. d \notin FormRows(call[c].event.form)
      BY <2>3, <2>4 DEF FormRows, NoForm
    <2>6. taxForm'[d] = taxForm[d]
      BY <1>3, <2>4, <2>5, PayoutSetupAssumption DEF WriteTaxForm, TypeOK
    <2> QED BY <2>4, <2>6
  <1>4. CASE ~WriteTaxForm(c)
    <2>1. taxForm' = taxForm
      BY <1>4 DEF Step, ReadTaxForm, ReadAccounts, ReadDeleted, WriteAccount, ReadMethods,
           ConnectMethod, ReadIdentity, WriteIdentity, ReadPayoutStatus, SetOwed, SetOnHold,
           CheckReadiness, CreateWinning, setupVars
    <2>2. CASE ReadTaxForm(c) \/ ReadAccounts(c) \/ ReadDeleted(c) \/ ReadIdentity(c)
      BY <1>2, <2>1, <2>2 DEF ReadTaxForm, ReadAccounts, ReadDeleted, ReadIdentity, At, FreshInv
    <2>3. ASSUME ~(ReadTaxForm(c) \/ ReadAccounts(c) \/ ReadDeleted(c) \/ ReadIdentity(c))
          PROVE  call'[c].pc \in {"methods", "connect", "status", "owe", "hold", "method?",
                                  "identity?", "insert", "done"}
      <3>1. CASE WriteAccount(c) \/ ReadMethods(c) \/ ConnectMethod(c) \/ WriteIdentity(c)
        BY <1>1, <3>1 DEF WriteAccount, ReadMethods, ConnectMethod, WriteIdentity, Goes, TypeOK, Running
      <3>2. CASE ReadPayoutStatus(c) \/ SetOwed(c) \/ SetOnHold(c)
        BY <1>1, <3>2 DEF ReadPayoutStatus, SetOwed, SetOnHold, Goes, Ends, Done, TypeOK, Running
      <3>3. CASE CheckReadiness(c) \/ CreateWinning(c)
        BY <1>1, <3>3 DEF CheckReadiness, CreateWinning, Ends, Done, TypeOK, Running
      <3> QED BY <1>4, <2>3, <3>1, <3>2, <3>3 DEF Step
    <2>4. CASE ~(ReadTaxForm(c) \/ ReadAccounts(c) \/ ReadDeleted(c) \/ ReadIdentity(c))
      BY <1>2, <2>1, <2>3, <2>4 DEF FreshInv
    <2> QED BY <2>2, <2>4
  <1> QED BY <1>3, <1>4

-----------------------------------------------------------------------------
(***************************************************************************)
(* A call that runs alone.                                                 *)
(***************************************************************************)

\* RepairInv, when c is the only call that may be under way.
RepairOf(c) ==
  /\ "status" \in settled /\ call[c].pc \notin {"methods", "connect", "status", "owe", "hold"}
     => StatusRight
  /\ "accounts" \in settled /\ call[c].pc \notin {"methods", "connect"} => AccountRight

\* What the set-up tables say follows them.
LEMMA SameSetup ==
  ASSUME UNCHANGED setupVars
  PROVE  /\ SetupComplete' = SetupComplete /\ SetupInProgress' = SetupInProgress
         /\ HasActiveTaxForm' = HasActiveTaxForm /\ IdentityVerified' = IdentityVerified
         /\ AccountRows' = AccountRows /\ connected' = connected /\ taxForm' = taxForm
         /\ (status' = status => StatusRight' = StatusRight) /\ AccountRight' = AccountRight
  <1>1. taxForm' = taxForm /\ account' = account /\ connected' = connected /\ identity' = identity
    BY DEF setupVars
  <1>2. HasActiveTaxForm' = HasActiveTaxForm /\ IdentityVerified' = IdentityVerified
        /\ AccountRows' = AccountRows
    BY <1>1 DEF HasActiveTaxForm, IdentityVerified, AccountRows
  <1>3. SetupComplete' = SetupComplete /\ SetupInProgress' = SetupInProgress
    BY <1>1, <1>2 DEF SetupComplete, SetupInProgress
  <1>4. status' = status => StatusRight' = StatusRight
    BY <1>3 DEF StatusRight
  <1>5. AccountRight' = AccountRight
    BY <1>1, <1>2 DEF AccountRight
  <1> QED BY <1>1, <1>2, <1>3, <1>4, <1>5

\* A set-up that is not complete is in progress.
LEMMA CompleteOrInProgress == SetupComplete \/ SetupInProgress
  BY DEF SetupComplete, SetupInProgress

\* The record after a read: the event is the same.
LEMMA ReadRecord ==
  ASSUME TypeOK, NEW c \in Calls, call[c] \in Running,
         NEW r \in Rows \cup {"none"}, NEW t \in {"ACTIVE", "INACTIVE"},
         call' = [call EXCEPT ![c].pc = "write", ![c].seen = r, ![c].to = t]
  PROVE  /\ call'[c].pc = "write" /\ call'[c].seen = r /\ call'[c].to = t
         /\ call'[c].event = call[c].event
  <1>1. call'[c] = [call[c] EXCEPT !.pc = "write", !.seen = r, !.to = t]
    BY DEF TypeOK
  <1>2. DOMAIN call[c] = {"event", "pc", "seen", "to", "hold"}
    BY DEF Running
  <1> QED BY <1>1, <1>2

\* The read of the tax form: the status to be written is that of the row that was read.
LEMMA LoneReadTaxForm ==
  ASSUME TypeOK, NEW c \in Calls, call[c] \in Running, RepairOf(c), ReadTaxForm(c)
  PROVE  Known(c)' /\ RepairOf(c)'
  <1>1. UNCHANGED setupVars /\ status' = status /\ settled' = settled
    BY DEF ReadTaxForm
  <1>2. call[c].pc = "read" /\ call'[c].pc = "write" /\ call'[c].event = call[c].event
        /\ (call'[c].seen # "none" =>
              call'[c].to = TaxFormStatus(taxForm[call'[c].seen].status, call[c].event.is))
    <2> \A old, is : TaxFormStatus(old, is) \in {"ACTIVE", "INACTIVE"}
      BY DEF TaxFormStatus
    <2>1. CASE FormRows(call[c].event.form) = {}
      <3>1. PICK t \in {"ACTIVE", "INACTIVE"} :
              call' = [call EXCEPT ![c].pc = "write", ![c].seen = "none", ![c].to = t]
        BY <2>1 DEF ReadTaxForm
      <3>2. call'[c].pc = "write" /\ call'[c].event = call[c].event /\ call'[c].seen = "none"
        BY <3>1, ReadRecord
      <3> QED BY <3>2 DEF ReadTaxForm, At
    <2>2. CASE FormRows(call[c].event.form) # {}
      <3>3. PICK r \in FormRows(call[c].event.form) :
              call' = [call EXCEPT ![c].pc = "write", ![c].seen = r,
                         ![c].to = TaxFormStatus(taxForm[r].status, call[c].event.is)]
        BY <2>2 DEF ReadTaxForm
      <3> DEFINE t == TaxFormStatus(taxForm[r].status, call[c].event.is)
      <3>4. t \in {"ACTIVE", "INACTIVE"} /\ r \in Rows
        BY DEF FormRows
      <3>1. /\ t = TaxFormStatus(taxForm[r].status, call[c].event.is)
            /\ call' = [call EXCEPT ![c].pc = "write", ![c].seen = r, ![c].to = t]
        BY <3>3
      <3> HIDE DEF t
      <3>2. call'[c].pc = "write" /\ call'[c].event = call[c].event /\ call'[c].seen = r
            /\ call'[c].to = TaxFormStatus(taxForm[r].status, call[c].event.is)
        BY <3>1, <3>4, ReadRecord
      <3> QED BY <3>2 DEF ReadTaxForm, At
    <2> QED BY <2>1, <2>2
  <1>4. taxForm' = taxForm
    BY <1>1 DEF setupVars
  <1>5. Known(c)'
    BY <1>2, <1>4 DEF Known, At
  <1> QED BY <1>1, <1>2, <1>5, SameSetup DEF RepairOf

\* The write of the tax form starts the reconciliation.
LEMMA LoneWriteTaxForm ==
  ASSUME TypeOK, NEW c \in Calls, call[c] \in Running, RepairOf(c), WriteTaxForm(c)
  PROVE  Known(c)' /\ RepairOf(c)'
  <1>1. account' = account /\ connected' = connected /\ settled' = settled
    BY DEF WriteTaxForm
  <1>2. call'[c].pc = "status" /\ call[c].pc = "write"
    BY DEF WriteTaxForm, At, Goes, TypeOK, Running
  <1>3. AccountRight' = AccountRight
    BY <1>1 DEF AccountRight, AccountRows
  <1> QED BY <1>1, <1>2, <1>3 DEF Known, At, RepairOf

\* The reads of the accounts decide about nothing of this.
LEMMA LoneReadAccounts ==
  ASSUME TypeOK, NEW c \in Calls, call[c] \in Running, RepairOf(c),
         ReadAccounts(c) \/ ReadDeleted(c) \/ ReadIdentity(c)
  PROVE  Known(c)' /\ RepairOf(c)'
  <1>1. UNCHANGED setupVars /\ status' = status /\ settled' = settled
    BY DEF ReadAccounts, ReadDeleted, ReadIdentity
  <1>2. call[c].pc = "read" /\ call[c].event.kind \in {"account", "deleted", "identity"}
    BY DEF ReadAccounts, ReadDeleted, ReadIdentity, At
  <1>3. \/ call'[c].pc = "write" /\ call'[c].event = call[c].event
        \/ call'[c].pc = "done"
    <2>1. CASE \E r \in Rows \cup {"none"}, t \in {"ACTIVE", "INACTIVE"} :
                 call' = [call EXCEPT ![c].pc = "write", ![c].seen = r, ![c].to = t]
      <3>1. PICK r \in Rows \cup {"none"}, t \in {"ACTIVE", "INACTIVE"} :
              call' = [call EXCEPT ![c].pc = "write", ![c].seen = r, ![c].to = t]
        BY <2>1
      <3> QED BY <3>1, ReadRecord
    <2>2. CASE Ends(c)
      BY <2>2 DEF Ends, Done, TypeOK
    <2>3. CASE Goes(c, "write")
      BY <2>3 DEF Goes, TypeOK, Running
    <2>4. CASE ReadAccounts(c)
      <3>1. CASE AccountRows # {}
        BY <2>1, <2>4, <3>1 DEF ReadAccounts, AccountRows
      <3>2. CASE AccountRows = {}
        BY <2>2, <2>3, <2>4, <3>2 DEF ReadAccounts
      <3> QED BY <3>1, <3>2
    <2>5. CASE ReadDeleted(c)
      BY <2>1, <2>2, <2>5 DEF ReadDeleted, AccountRows
    <2>6. CASE ReadIdentity(c)
      BY <2>1, <2>6 DEF ReadIdentity, IdentityRows
    <2> QED BY <2>4, <2>5, <2>6
  <1>4. Known(c)'
    BY <1>2, <1>3 DEF Known, At
  <1> QED BY <1>1, <1>2, <1>3, <1>4, SameSetup DEF RepairOf

\* The write of an account, and the read of all accounts after it.
LEMMA LoneWriteAccount ==
  ASSUME TypeOK, NEW c \in Calls, call[c] \in Running, WriteAccount(c) \/ ReadMethods(c)
  PROVE  Known(c)' /\ RepairOf(c)'
  <1>1. CASE WriteAccount(c)
    <2>1. call'[c].pc = "methods"
      BY <1>1 DEF WriteAccount, Goes, TypeOK, Running
    <2> QED BY <2>1 DEF Known, At, RepairOf
  <1>2. CASE ReadMethods(c)
    <2>1. UNCHANGED setupVars
      BY <1>2 DEF ReadMethods
    <2>2. call'[c].pc = "connect" /\ (call'[c].to = "ACTIVE" <=> AccountRows # {})
      BY <1>2 DEF ReadMethods, TypeOK, Running
    <2> QED BY <2>1, <2>2, SameSetup DEF Known, At, RepairOf
  <1> QED BY <1>1, <1>2

\* The write of the payment method puts it right.
LEMMA LoneConnectMethod ==
  ASSUME TypeOK, NEW c \in Calls, call[c] \in Running, Known(c), ConnectMethod(c)
  PROVE  Known(c)' /\ RepairOf(c)'
  <1>1. call[c].pc = "connect" /\ call'[c].pc = "status"
    BY DEF ConnectMethod, At, Goes, TypeOK, Running
  <1>2. AccountRows' = AccountRows /\ connected' = (call[c].to = "ACTIVE")
    BY DEF ConnectMethod, AccountRows
  <1>3. AccountRight'
    BY <1>1, <1>2 DEF AccountRight, Known
  <1> QED BY <1>1, <1>3 DEF Known, At, RepairOf

\* The write of the identity check starts the reconciliation.
LEMMA LoneWriteIdentity ==
  ASSUME TypeOK, NEW c \in Calls, call[c] \in Running, RepairOf(c), WriteIdentity(c)
  PROVE  Known(c)' /\ RepairOf(c)'
  <1>1. account' = account /\ connected' = connected /\ settled' = settled
    BY DEF WriteIdentity
  <1>2. call'[c].pc = "status" /\ call[c].pc = "write"
    BY DEF WriteIdentity, At, Goes, TypeOK, Running
  <1>3. AccountRight' = AccountRight
    BY <1>1 DEF AccountRight, AccountRows
  <1> QED BY <1>1, <1>2, <1>3 DEF Known, At, RepairOf

\* The read of the payout status is what the reconciliation goes by.
LEMMA LoneReadPayoutStatus ==
  ASSUME TypeOK, NEW c \in Calls, call[c] \in Running, RepairOf(c), ReadPayoutStatus(c)
  PROVE  Known(c)' /\ RepairOf(c)'
  <1>1. UNCHANGED setupVars /\ settled' = settled /\ call[c].pc = "status"
    BY DEF ReadPayoutStatus
  <1>2. /\ call'[c].pc = IF SetupComplete THEN "owe" ELSE "hold"
        /\ call'[c].hold = SetupInProgress
    BY DEF ReadPayoutStatus, TypeOK, Running
  <1>3. call'[c].pc = "hold" => SetupInProgress
    BY <1>2, CompleteOrInProgress
  <1>4. Known(c)'
    BY <1>1, <1>2, <1>3, SameSetup DEF Known, At
  <1> QED BY <1>1, <1>2, <1>4, SameSetup DEF RepairOf

\* The two updates of the reconciliation.
LEMMA LoneToggle ==
  ASSUME TypeOK, NEW c \in Calls, call[c] \in Running, Known(c), RepairOf(c),
         SetOwed(c) \/ SetOnHold(c)
  PROVE  Known(c)' /\ RepairOf(c)'
  <1>1. UNCHANGED setupVars
    BY DEF SetOwed, SetOnHold
  <1>2. "accounts" \in settled' => "accounts" \in settled
    BY DEF SetOwed, SetOnHold, Reconciled
  <1>3. "accounts" \in settled' => AccountRight'
    <2>1. call[c].pc \in {"owe", "hold"}
      BY DEF SetOwed, SetOnHold
    <2> QED BY <1>1, <1>2, <2>1, SameSetup DEF RepairOf
  <1>4. CASE SetOwed(c) /\ call[c].hold
    <2>1. call'[c].pc = "hold"
      BY <1>4 DEF SetOwed, Goes, TypeOK, Running
    <2>2. SetupInProgress
      BY <1>4 DEF SetOwed, Known
    <2> QED BY <1>1, <1>3, <2>1, <2>2, SameSetup DEF Known, At, RepairOf
  <1>5. CASE SetOwed(c) /\ ~call[c].hold
    <2>1. call'[c].pc = "done"
      BY <1>5 DEF SetOwed, Ends, Done, TypeOK
    <2>2. ~SetupInProgress
      BY <1>5 DEF SetOwed, Known
    <2>3. \A p \in Payments : status'[p] # "none" => status'[p] = "OWED"
      BY <1>5 DEF SetOwed, Toggle, TypeOK
    <2>4. StatusRight'
      BY <1>1, <2>2, <2>3, SameSetup DEF StatusRight
    <2> QED BY <1>3, <2>1, <2>4 DEF Known, At, RepairOf
  <1>6. CASE SetOnHold(c)
    <2>1. call'[c].pc = "done"
      BY <1>6 DEF SetOnHold, Ends, Done, TypeOK
    <2>2. SetupInProgress
      BY <1>6 DEF SetOnHold, Known
    <2>3. \A p \in Payments : status'[p] # "OWED"
      BY <1>6 DEF SetOnHold, Toggle, TypeOK
    <2>4. StatusRight'
      BY <1>1, <2>2, <2>3, SameSetup DEF StatusRight
    <2> QED BY <1>3, <2>1, <2>4 DEF Known, At, RepairOf
  <1> QED BY <1>4, <1>5, <1>6

\* The three reads of the creation of a winning.
LEMMA LoneCheckReadiness ==
  ASSUME TypeOK, NEW c \in Calls, call[c] \in Running, Known(c), RepairOf(c), CheckReadiness(c)
  PROVE  Known(c)' /\ RepairOf(c)'
  <1>1. UNCHANGED setupVars /\ status' = status /\ settled' = settled
    BY DEF CheckReadiness
  <1>2. CASE call[c].pc = "tax?"
    <2>1. call'[c].pc = "method?" /\ call'[c].hold = ~HasActiveTaxForm
      BY <1>2 DEF CheckReadiness, TypeOK, Running
    <2>2. call'[c].hold <=> ~HasActiveTaxForm
      BY <2>1
    <2> QED BY <1>1, <1>2, <2>1, <2>2, SameSetup DEF Known, At, RepairOf
  <1>3. CASE call[c].pc = "method?"
    <2>1. call'[c].pc = "identity?" /\ call'[c].hold = (call[c].hold \/ ~connected)
      BY <1>3 DEF CheckReadiness, TypeOK, Running
    <2>2. call'[c].hold <=> ~HasActiveTaxForm \/ ~connected
      BY <1>3, <2>1 DEF Known
    <2> QED BY <1>1, <1>3, <2>1, <2>2, SameSetup DEF Known, At, RepairOf
  <1>4. CASE call[c].pc = "identity?"
    <2>1. call'[c].pc = "insert" /\ call'[c].hold = (call[c].hold \/ ~IdentityVerified)
      BY <1>4 DEF CheckReadiness, TypeOK, Running
    <2>2. call'[c].hold <=> ~SetupComplete
      BY <1>4, <2>1 DEF Known, SetupComplete
    <2> QED BY <1>1, <1>4, <2>1, <2>2, SameSetup DEF Known, At, RepairOf
  <1> QED BY <1>2, <1>3, <1>4 DEF CheckReadiness

\* The insert: what it decides is what the reconciliation would, but for a member who is
\* complete and in progress at once.
LEMMA LoneCreateWinning ==
  ASSUME TypeOK, NEW c \in Calls, call[c] \in Running, Known(c), RepairOf(c), CreateWinning(c)
  PROVE  Known(c)' /\ RepairOf(c)'
  <1>1. UNCHANGED setupVars /\ settled' \subseteq settled /\ call[c].pc = "insert"
    BY DEF CreateWinning
  <1>2. call'[c].pc = "done"
    BY DEF CreateWinning, Ends, Done, TypeOK
  <1>3. "status" \in settled' => StatusRight'
    <2> SUFFICES ASSUME "status" \in settled' PROVE StatusRight'
      OBVIOUS
    <2>1. ~(SetupComplete /\ SetupInProgress)
      BY DEF CreateWinning
    <2>2. StatusRight
      BY <1>1 DEF RepairOf
    <2>3. call[c].hold <=> SetupInProgress
      BY <1>1, <2>1, CompleteOrInProgress DEF Known
    <2>4. \A p \in Payments : status'[p] # "none" => (status'[p] = "OWED" <=> ~SetupInProgress)
      BY <2>2, <2>3 DEF CreateWinning, StatusRight, TypeOK
    <2> QED BY <1>1, <2>4, SameSetup DEF StatusRight
  <1>4. "accounts" \in settled' => AccountRight'
    BY <1>1, SameSetup DEF RepairOf
  <1> QED BY <1>2, <1>3, <1>4 DEF Known, At, RepairOf

-----------------------------------------------------------------------------
(***************************************************************************)
(* Every step keeps the invariant.                                         *)
(***************************************************************************)

\* A step of a call that runs alone.
LEMMA LoneStep ==
  ASSUME TypeOK, NEW c \in Calls, Known(c), RepairOf(c), Step(c)
  PROVE  Known(c)' /\ RepairOf(c)'
  <1>1. call[c] \in Running
    BY StepMoves
  <1>2. CASE ReadTaxForm(c)
    BY <1>1, <1>2, LoneReadTaxForm
  <1>3. CASE WriteTaxForm(c)
    BY <1>1, <1>3, LoneWriteTaxForm
  <1>4. CASE ReadAccounts(c) \/ ReadDeleted(c) \/ ReadIdentity(c)
    BY <1>1, <1>4, LoneReadAccounts
  <1>5. CASE WriteAccount(c) \/ ReadMethods(c)
    BY <1>1, <1>5, LoneWriteAccount
  <1>6. CASE ConnectMethod(c)
    BY <1>1, <1>6, LoneConnectMethod
  <1>7. CASE WriteIdentity(c)
    BY <1>1, <1>7, LoneWriteIdentity
  <1>8. CASE ReadPayoutStatus(c)
    BY <1>1, <1>8, LoneReadPayoutStatus
  <1>9. CASE SetOwed(c) \/ SetOnHold(c)
    BY <1>1, <1>9, LoneToggle
  <1>10. CASE CheckReadiness(c)
    BY <1>1, <1>10, LoneCheckReadiness
  <1>11. CASE CreateWinning(c)
    BY <1>1, <1>11, LoneCreateWinning
  <1> QED BY <1>2, <1>3, <1>4, <1>5, <1>6, <1>7, <1>8, <1>9, <1>10, <1>11 DEF Step

\* A call that does not run alone settles nothing.
LEMMA StepSettled ==
  ASSUME NEW c \in Calls, Step(c), c \notin alone
  PROVE  settled' \subseteq settled
  BY DEF Step, ReadTaxForm, WriteTaxForm, ReadAccounts, ReadDeleted, WriteAccount, ReadMethods,
         ConnectMethod, ReadIdentity, WriteIdentity, ReadPayoutStatus, SetOwed, SetOnHold,
         CheckReadiness, CreateWinning, Reconciled

\* Any step of a call.
LEMMA StepInv == ASSUME IInv, NEW c \in Calls, Step(c) PROVE IInv'
  <1>1. TypeOK /\ AloneInv /\ KnownInv /\ RepairInv /\ FreshInv
    BY DEF IInv
  <1>2. c \in Busy /\ Moves(c) /\ alone' = alone
    BY <1>1, StepMoves DEF Moves
  <1>3. TypeOK' /\ FreshInv'
    BY <1>1, StepType, StepFresh
  <1>4. CASE c \notin alone
    <2>1. alone \cap Busy = {}
      BY <1>1, <1>2, <1>4 DEF AloneInv
    <2>2. settled' = {}
      BY <1>1, <1>2, <1>4, <2>1, StepSettled DEF AloneInv
    <2>3. alone' \cap Busy' = {}
      BY <1>1, <1>2, <2>1, MovesBusy
    <2> QED BY <1>3, <2>2, <2>3 DEF IInv, AloneInv, KnownInv, RepairInv
  <1>5. CASE c \in alone
    <2>1. Busy = {c}
      BY <1>1, <1>2, <1>5 DEF AloneInv
    <2>2. Busy' \subseteq {c}
      BY <1>1, <1>2, <2>1, MovesBusy
    <2>3. Known(c)
      BY <1>2, <1>1, <1>5 DEF KnownInv
    <2>4. RepairOf(c)
      BY <1>1, <2>1 DEF RepairInv, RepairOf
    <2>5. Known(c)' /\ RepairOf(c)'
      BY <1>1, <2>3, <2>4, LoneStep
    <2>6. AloneInv'
      BY <1>2, <1>5, <2>2 DEF AloneInv
    <2>7. KnownInv'
      BY <2>2, <2>5 DEF KnownInv
    <2>8. c \notin Busy' => call'[c].pc = "done"
      BY <1>1, <1>2, MovesBusy
    <2>9. RepairInv'
      BY <2>5, <2>8 DEF RepairInv, RepairOf
    <2> QED BY <1>3, <2>6, <2>7, <2>9 DEF IInv
  <1> QED BY <1>4, <1>5

\* A new call: it runs alone, or nothing is settled any more.
LEMMA StartInv == ASSUME IInv, NEW c \in Calls, NEW e \in Events, Start(c, e) PROVE IInv'
  <1>1. TypeOK /\ AloneInv /\ KnownInv /\ RepairInv /\ FreshInv
    BY DEF IInv
  <1>2. UNCHANGED setupVars /\ status' = status
    BY DEF Start
  <1>3. FirstStage(e) \in {"read", "tax?", "status"}
    BY DEF FirstStage
  <1> DEFINE s == FirstStage(e)
             new == [event |-> e, pc |-> s, seen |-> "none", to |-> "INACTIVE", hold |-> FALSE]
  <1>4. call' = [call EXCEPT ![c] = new]
    BY DEF Start
  <1>5. call'[c] = new /\ \A d \in Calls : d # c => call'[d] = call[d]
    BY <1>1, <1>4 DEF TypeOK
  <1> HIDE DEF s
  <1>6. s \in {"read", "tax?", "status"}
    BY <1>3 DEF s
  <1>7. new \in CallStates
    BY <1>6 DEF CallStates, Stages
  <1>8. call'[c].pc = s
    BY <1>5
  <1> HIDE DEF new
  <1>9. call' \in [Calls -> CallStates]
    BY <1>1, <1>4, <1>7 DEF TypeOK
  <1>10. TypeOK'
    <2>1. alone' \subseteq Calls /\ settled' \subseteq {"status", "accounts"}
      BY <1>1 DEF Start, TypeOK
    <2> QED BY <1>1, <1>2, <1>9, <2>1 DEF TypeOK, setupVars
  <1>11. call[c].pc = "idle"
    BY DEF Start, NoCall
  <1>12. Busy' = Busy \cup {c} /\ c \notin Busy
    BY <1>5, <1>6, <1>8, <1>11 DEF Busy
  <1>13. FreshInv'
    BY <1>1, <1>2, <1>5, <1>11 DEF FreshInv, setupVars
  <1>14. CASE Busy = {}
    <2>1. alone' = {c} /\ settled' = settled /\ Busy' = {c}
      BY <1>12, <1>14 DEF Start
    <2>2. AloneInv'
      BY <2>1 DEF AloneInv
    <2>3. Known(c)'
      BY <1>6, <1>8 DEF Known, At
    <2>4. ("status" \in settled => StatusRight) /\ ("accounts" \in settled => AccountRight)
      BY <1>1, <1>14 DEF RepairInv
    <2>5. RepairInv'
      BY <1>2, <2>1, <2>4, SameSetup DEF RepairInv
    <2> QED BY <1>10, <1>13, <2>1, <2>2, <2>3, <2>5 DEF IInv, KnownInv
  <1>15. CASE Busy # {}
    <2>1. alone' = {} /\ settled' = {}
      BY <1>15 DEF Start
    <2> QED BY <1>10, <1>13, <2>1 DEF IInv, AloneInv, KnownInv, RepairInv
  <1> QED BY <1>14, <1>15

\* A call that fails settles nothing.
LEMMA FailsInv == ASSUME IInv, NEW c \in Calls, Fails(c) PROVE IInv'
  <1>1. TypeOK /\ AloneInv /\ FreshInv
    BY DEF IInv
  <1>2. c \in Busy /\ Moves(c) /\ call'[c] = Done
    BY <1>1, EndsMoves DEF Fails
  <1>3. settled' = {} /\ UNCHANGED <<setupVars, status>> /\ alone' = alone
    BY DEF Fails
  <1>4. c \notin Busy' /\ Busy' \subseteq Busy /\ \A d \in Calls : d # c => call'[d] = call[d]
    BY <1>1, <1>2, MovesBusy DEF Done
  <1>5. call' \in [Calls -> CallStates]
    BY <1>1, <1>2, MovesBusy
  <1>6. TypeOK'
    BY <1>1, <1>3, <1>5 DEF TypeOK, setupVars
  <1>7. alone' \cap Busy' = {}
    BY <1>1, <1>2, <1>3, <1>4 DEF AloneInv
  <1>8. FreshInv'
    BY <1>1, <1>2, <1>3, <1>4 DEF FreshInv, setupVars, Done
  <1> QED BY <1>3, <1>6, <1>7, <1>8 DEF IInv, AloneInv, KnownInv, RepairInv

\* The invariant is inductive.
LEMMA NextInv == IInv /\ [Next]_vars => IInv'
  <1> SUFFICES ASSUME IInv, [Next]_vars PROVE IInv'
    OBVIOUS
  <1>1. CASE Next
    BY <1>1, StartInv, StepInv, FailsInv DEF Next
  <1>2. CASE UNCHANGED vars
    <2>1. UNCHANGED setupVars /\ status' = status /\ call' = call /\ alone' = alone /\ settled' = settled
      BY <1>2 DEF vars, setupVars
    <2>2. Busy' = Busy /\ taxForm' = taxForm
      BY <2>1 DEF Busy, setupVars
    <2>3. TypeOK' /\ AloneInv' /\ FreshInv'
      BY <2>1, <2>2 DEF IInv, TypeOK, AloneInv, FreshInv, setupVars
    <2>4. KnownInv'
      BY <2>1, <2>2, SameSetup DEF IInv, KnownInv, Known, At
    <2>5. RepairInv'
      BY <2>1, <2>2, SameSetup DEF IInv, RepairInv
    <2> QED BY <2>3, <2>4, <2>5 DEF IInv
  <1> QED BY <1>1, <1>2

-----------------------------------------------------------------------------
(***************************************************************************)
(* The theorems.                                                           *)
(***************************************************************************)

\* The inductive invariant holds in every behaviour of the handlers.
THEOREM InvCorrect == Spec => []IInv
  BY InitInv, NextInv, PTL DEF Spec

\* The tables, the payments and the calls keep their types.
THEOREM TypeCorrect == Spec => []TypeOK
  <1>1. IInv => TypeOK
    BY DEF IInv
  <1> QED BY <1>1, InvCorrect, PTL

\* However many handlers overlapped and failed before: after a reconciliation that ran
\* alone, payments are OWED exactly if nothing of the member's set-up is missing.
THEOREM LoneReconcileRepairsHolds == Spec => []LoneReconcileRepairs
  <1>1. IInv => LoneReconcileRepairs
    BY DEF IInv, RepairInv, StatusRight, LoneReconcileRepairs
  <1> QED BY <1>1, InvCorrect, PTL

\* After an account event that was handled alone, the payment method is connected exactly
\* if the recipient has an account.
THEOREM LoneAccountEventRepairsHolds == Spec => []LoneAccountEventRepairs
  <1>1. IInv => LoneAccountEventRepairs
    BY DEF IInv, RepairInv, AccountRight, LoneAccountEventRepairs
  <1> QED BY <1>1, InvCorrect, PTL

\* A "submitted" event that is handled alone writes ACTIVE over an active form: what its
\* handler has read is still so (KnownInv).
LEMMA LoneSubmitted ==
  ASSUME IInv, [Next]_vars, NEW c \in Calls, c \in alone, At(c, {"tax"}, "write"),
         call[c].event.is = "submitted", NEW x \in Rows, taxForm[x].status = "ACTIVE"
  PROVE  taxForm'[x].status # "INACTIVE"
  <1>1. TypeOK /\ AloneInv /\ KnownInv /\ FreshInv
    BY DEF IInv
  <1>2. c \in Busy /\ Busy = {c}
    BY <1>1 DEF AloneInv, At, Busy
  <1>3. CASE taxForm' = taxForm
    BY <1>3
  <1>4. CASE WriteTaxForm(c)
    <2> DEFINE e == call[c].event
               r == call[c].seen
               new == [form |-> e.form, status |-> call[c].to]
    <2>1. e.is # "voided"
      OBVIOUS
    <2>2. CASE r = "none"
      <3>1. taxForm' = [taxForm EXCEPT ![c] = new] /\ c \in Rows
        BY <1>4, <2>1, <2>2, PayoutSetupAssumption DEF WriteTaxForm
      <3>2. x # c
        BY <1>1 DEF FreshInv, At, NoForm
      <3> QED BY <1>1, <3>1, <3>2 DEF TypeOK
    <2>3. CASE r # "none"
      <3>1. taxForm' = [taxForm EXCEPT ![r] = new] /\ r \in Rows
        BY <1>4, <2>1, <2>3 DEF WriteTaxForm, FormRows
      <3>2. call[c].to = TaxFormStatus(taxForm[r].status, e.is)
        BY <1>1, <1>2, <2>3 DEF KnownInv, Known
      <3>3. x = r => call[c].to = "ACTIVE"
        BY <3>2 DEF TaxFormStatus
      <3> QED BY <1>1, <3>1, <3>3 DEF TypeOK
    <2> QED BY <2>2, <2>3
  <1>5. ASSUME NEW d \in Calls, Step(d) PROVE d = c
    BY <1>1, <1>2, <1>5, StepMoves
  <1>6. CASE taxForm' # taxForm /\ ~WriteTaxForm(c)
    <2>1. Next
      BY <1>6 DEF vars, setupVars
    <2>2. PICK d \in Calls : Step(d)
      BY <1>6, <2>1 DEF Next, Start, Fails, setupVars
    <2>3. Step(c)
      BY <1>5, <2>2
    <2> QED BY <1>6, <2>3 DEF Step, ReadTaxForm, ReadAccounts, ReadDeleted, WriteAccount, ReadMethods,
         ConnectMethod, ReadIdentity, WriteIdentity, ReadPayoutStatus, SetOwed, SetOnHold,
         CheckReadiness, CreateWinning, setupVars
  <1> QED BY <1>3, <1>4, <1>6

\* An active tax form is made inactive by a "submitted" event only if another handler
\* came between the read and the write.
THEOREM DowngradeNeedsOverlapHolds == Spec => DowngradeNeedsOverlap
  <1>1. IInv /\ [Next]_vars =>
          [\A c \in Calls :
             c \in alone /\ At(c, {"tax"}, "write") /\ call[c].event.is = "submitted" =>
               ~\E r \in Rows : taxForm[r].status = "ACTIVE" /\ taxForm'[r].status = "INACTIVE"]_vars
    BY LoneSubmitted
  <1> QED BY <1>1, InvCorrect, PTL DEF Spec, DowngradeNeedsOverlap
=============================================================================
