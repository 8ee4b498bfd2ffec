------------------------------ MODULE OtpProofs ------------------------------
(***************************************************************************)
(* Theorems about Otp, for every choice of its constants; the last one is  *)
(* that it implements OneTimeCodes, which the withdrawal flow of Payouts   *)
(* is built on.                                                            *)
(***************************************************************************)
EXTENDS Otp, TLAPS

\* The initial states have their types.
LEMMA InitType == OtpInit => OtpTypeOK
  BY DEF OtpInit, OtpTypeOK, CallStates

\* A call that is about to create a code has looked for the codes of a member.
LEMMA CallType ==
  ASSUME OtpTypeOK, NEW g \in Calls, call[g].pc = "create"
  PROVE  call[g].email \in Members /\ call[g] # IdleCall
  BY DEF OtpTypeOK, CallStates, IdleCall

\* The row a call inserts is one of the table.
LEMMA NewRowType ==
  ASSUME OtpTypeOK, NEW g \in Calls, call[g].pc = "create", NEW d \in Digits
  PROVE  NewRow(g, d) \in Rows
  <1>1. now + Validity \in Nat
    BY OtpAssumption DEF OtpAssumption, OtpTypeOK
  <1> QED BY <1>1, CallType DEF NewRow, Rows

\* A stored code is a row of the table.
LEMMA StoredType ==
  ASSUME OtpTypeOK, NEW c \in Codes, Stored(c)
  PROVE  row[c] \in Rows
  BY DEF OtpTypeOK, Stored

\* Rows of the table are told apart from no row.
LEMMA RowIsStored == \A r \in Rows : r # NoRow
  <1> SUFFICES ASSUME NEW r \in Rows, r = NoRow PROVE FALSE
    OBVIOUS
  <1>1. "email" \in DOMAIN r
    BY DEF Rows
  <1>2. "email" \notin DOMAIN NoRow
    BY DEF NoRow
  <1> QED BY <1>1, <1>2

\* Every step keeps the types.
LEMMA TypeStep == ASSUME OtpTypeOK, [OtpNext]_otpVars PROVE OtpTypeOK'
  <1>1. CASE UNCHANGED otpVars
    BY <1>1 DEF OtpTypeOK, otpVars
  <1>2. ASSUME NEW g \in Calls, NEW m \in Members, CheckExisting(g, m) PROVE OtpTypeOK'
    BY <1>2 DEF OtpTypeOK, CheckExisting, CallStates
  <1>3. ASSUME NEW g \in Calls, CreateCode(g) PROVE OtpTypeOK'
    <2>1. PICK c \in Codes, d \in Digits : row' = [row EXCEPT ![c] = NewRow(g, d)]
      BY <1>3 DEF CreateCode
    <2>2. NewRow(g, d) \in Rows
      BY <1>3, NewRowType DEF CreateCode
    <2> QED BY <1>3, <2>1, <2>2 DEF OtpTypeOK, CreateCode, CallStates
  <1>4. ASSUME NEW g \in Calls, GenerateFails(g) PROVE OtpTypeOK'
    BY <1>4 DEF OtpTypeOK, GenerateFails, CallStates
  <1>5. ASSUME NEW m \in Members, NEW d \in Digits, VerifyOtpCode(m, d) PROVE OtpTypeOK'
    <2>1. PICK c \in Codes : /\ Newest(c, d)
                             /\ row' = [row EXCEPT ![c] = [@ EXCEPT !.verified = TRUE]]
                             /\ UNCHANGED <<now, call>>
      BY <1>5 DEF VerifyOtpCode
    <2>2. row[c] \in Rows
      BY <2>1, StoredType DEF Newest
    <2>3. [row[c] EXCEPT !.verified = TRUE] \in Rows
      BY <2>2 DEF Rows
    <2> QED BY <2>1, <2>3 DEF OtpTypeOK
  <1>6. CASE Tick
    BY <1>6 DEF OtpTypeOK, Tick
  <1> QED BY <1>1, <1>2, <1>3, <1>4, <1>5, <1>6 DEF OtpNext

\* The types hold in every reachable state.
THEOREM TypeCorrect == OtpSpec => []OtpTypeOK
  BY InitType, TypeStep, PTL DEF OtpSpec

-----------------------------------------------------------------------------
\* What a step does to the table: nothing, one row inserted, or one row verified.
LEMMA RowSteps ==
  ASSUME OtpTypeOK, [OtpNext]_otpVars
  PROVE  \/ UNCHANGED <<row, now>>
         \/ \E g \in Calls, c \in Codes, d \in Digits :
              /\ CreateCode(g) /\ ~Stored(c) /\ call[g].pc = "create"
              /\ row' = [row EXCEPT ![c] = NewRow(g, d)] /\ now' = now
         \/ \E m \in Members, c \in Codes :
              /\ Stored(c) /\ Accepts(c, m)
              /\ row' = [row EXCEPT ![c] = [@ EXCEPT !.verified = TRUE]]
              /\ UNCHANGED <<now, call>>
         \/ Tick
  BY DEF OtpNext, otpVars, CheckExisting, CreateCode, GenerateFails, VerifyOtpCode, Newest

\* A pending code was pending before, as it is, unless a call has just inserted it.
LEMMA PendingSteps ==
  ASSUME OtpTypeOK, [OtpNext]_otpVars, NEW c \in Codes, Pending(c)'
  PROVE  \/ Pending(c) /\ row'[c] = row[c]
         \/ \E g \in Calls : /\ CreateCode(g) /\ call[g].pc = "create"
                             /\ row'[c].by = g /\ row'[c].email = call[g].email
                             /\ \A b \in Codes \ {c} : row'[b] = row[b]
  <1>1. CASE UNCHANGED <<row, now>>
    BY <1>1 DEF Pending, Stored
  <1>2. ASSUME NEW g \in Calls, NEW b \in Codes, NEW d \in Digits,
               row' = [row EXCEPT ![b] = NewRow(g, d)], now' = now
        PROVE  \/ Pending(c) /\ row'[c] = row[c]
               \/ /\ row'[c].by = g /\ row'[c].email = call[g].email
                  /\ \A a \in Codes \ {c} : row'[a] = row[a]
    BY <1>2 DEF Pending, Stored, NewRow, OtpTypeOK
  <1>3. ASSUME NEW b \in Codes, Stored(b),
               row' = [row EXCEPT ![b] = [@ EXCEPT !.verified = TRUE]], now' = now
        PROVE  Pending(c) /\ row'[c] = row[c]
    <2>1. row[b] \in Rows
      BY <1>3, StoredType
    <2>2. row'[b].verified
      BY <1>3, <2>1 DEF OtpTypeOK, Rows
    <2> QED BY <1>3, <2>2 DEF Pending, Stored, OtpTypeOK
  <1>4. CASE Tick
    <2>1. Stored(c) /\ row[c] \in Rows
      BY <1>4, StoredType DEF Tick, Pending, Stored
    <2> QED BY <1>4, <2>1 DEF Tick, Pending, Stored, Rows, OtpTypeOK
  <1> QED BY <1>1, <1>2, <1>3, <1>4, RowSteps

\* A call that is about to create a code either was, or has just found none pending.
LEMMA CallSteps ==
  ASSUME OtpTypeOK, [OtpNext]_otpVars, NEW g \in Calls, call'[g].pc = "create"
  PROVE  \/ call'[g] = call[g] /\ ~CreateCode(g)
         \/ /\ UNCHANGED <<row, now>>
            /\ ~\E c \in Codes : Pending(c) /\ row[c].email = call'[g].email
  <1> USE DEF OtpTypeOK, IdleCall
  <1>1. CASE UNCHANGED call
    BY <1>1 DEF CreateCode
  <1>2. ASSUME NEW h \in Calls, NEW m \in Members, CheckExisting(h, m)
        PROVE  \/ call'[g] = call[g] /\ ~CreateCode(g)
               \/ /\ UNCHANGED <<row, now>>
                  /\ ~\E c \in Codes : Pending(c) /\ row[c].email = call'[g].email
    <2>1. CASE h = g
      BY <1>2, <2>1 DEF CheckExisting
    <2>2. CASE h # g
      <3>1. call'[g] = call[g]
        BY <1>2, <2>2 DEF CheckExisting
      <3>2. CreateCode(g) => call'[g].pc = "idle"
        BY DEF CreateCode
      <3> QED BY <3>1, <3>2
    <2> QED BY <2>1, <2>2
  <1>3. ASSUME NEW h \in Calls, CreateCode(h) \/ GenerateFails(h)
        PROVE  call'[g] = call[g] /\ ~CreateCode(g)
    BY <1>3 DEF CreateCode, GenerateFails
  <1> QED BY <1>1, <1>2, <1>3 DEF OtpNext, otpVars, VerifyOtpCode, Tick

\* The look-up and the insert of a call are apart, and yet a second pending code of a member
\* takes two requests that overlap: each slot keeps its member to one pending code.
THEOREM DuplicatesNeedOverlapHolds == OtpSpec => []DuplicatesNeedOverlap
  <1>1. OtpInit => DuplicatesNeedOverlap
    BY DEF OtpInit, DuplicatesNeedOverlap, Pending, Stored
  <1>2. OtpTypeOK /\ DuplicatesNeedOverlap /\ [OtpNext]_otpVars => DuplicatesNeedOverlap'
    <2> SUFFICES ASSUME OtpTypeOK, DuplicatesNeedOverlap, [OtpNext]_otpVars,
                        NEW c \in Codes, Pending(c)'
                 PROVE  /\ \A b \in Codes \ {c} :
                             Pending(b)' /\ row'[b].email = row'[c].email =>
                               row'[b].by # row'[c].by
                        /\ \A g \in Calls :
                             call'[g].pc = "create" /\ call'[g].email = row'[c].email =>
                               row'[c].by # g
      BY DEF DuplicatesNeedOverlap
    <2>1. ASSUME NEW b \in Codes, NEW d \in Codes, b # d, Pending(b)', Pending(d)',
                 row'[b].email = row'[d].email, NEW g \in Calls, CreateCode(g),
                 call[g].pc = "create", row'[d].by = g, row'[d].email = call[g].email,
                 \A a \in Codes \ {d} : row'[a] = row[a]
          PROVE  row'[b].by # row'[d].by
      <3>1. row'[b] = row[b] /\ Pending(b)
        BY <2>1 DEF CreateCode, Pending, Stored
      <3> QED BY <2>1, <3>1 DEF DuplicatesNeedOverlap
    <2>2. ASSUME NEW b \in Codes \ {c}, Pending(b)', row'[b].email = row'[c].email
          PROVE  row'[b].by # row'[c].by
      <3>1. CASE Pending(b) /\ row'[b] = row[b] /\ Pending(c) /\ row'[c] = row[c]
        BY <2>2, <3>1 DEF DuplicatesNeedOverlap
      <3> QED BY <2>1, <2>2, <3>1, PendingSteps
    <2>3. ASSUME NEW g \in Calls, call'[g].pc = "create", call'[g].email = row'[c].email
          PROVE  row'[c].by # g
      <3>1. CASE call'[g] = call[g] /\ ~CreateCode(g)
        BY <2>3, <3>1, PendingSteps DEF DuplicatesNeedOverlap
      <3>2. CASE UNCHANGED <<row, now>> /\ ~\E b \in Codes : Pending(b) /\ row[b].email = call'[g].email
        BY <2>3, <3>2 DEF Pending, Stored
      <3> QED BY <2>3, <3>1, <3>2, CallSteps
    <2> QED BY <2>2, <2>3
  <1> QED BY <1>1, <1>2, TypeCorrect, PTL DEF OtpSpec

-----------------------------------------------------------------------------
(***************************************************************************)
(* Otp implements OneTimeCodes.                                            *)
(***************************************************************************)

\* The initial states of Otp are initial states of OneTimeCodes.
LEMMA RefinesInit == OtpInit => OTC!Init
  BY DEF OtpInit, OTC!Init, CodeState, Stored

\* Inserting a row issues its code.
LEMMA CreateIsIssue ==
  ASSUME OtpTypeOK, NEW g \in Calls, NEW c \in Codes, NEW d \in Digits, ~Stored(c),
         call[g].pc = "create", row' = [row EXCEPT ![c] = NewRow(g, d)], now' = now
  PROVE  OTC!Issue(c)
  <1>1. CodeState(c) = "unissued"
    BY DEF CodeState
  <1>2. NewRow(g, d) \in Rows /\ row'[c] = NewRow(g, d)
    BY NewRowType DEF OtpTypeOK
  <1>3. Stored(c)' /\ ~row'[c].verified
    <2>1. row'[c] # NoRow
      BY <1>2, RowIsStored
    <2>2. ~NewRow(g, d).verified
      BY DEF NewRow
    <2> QED BY <1>2, <2>1, <2>2 DEF Stored
  <1>4. row'[c].expires >= now'
    BY <1>2, OtpAssumption DEF OtpAssumption, NewRow, OtpTypeOK
  <1>5. CodeState(c)' = "live"
    BY <1>3, <1>4 DEF CodeState
  <1>6. \A b \in Codes \ {c} : CodeState(b)' = CodeState(b)
    BY DEF CodeState, Stored, OtpTypeOK
  <1> QED BY <1>1, <1>5, <1>6 DEF OTC!Issue

\* Verifying a row uses its code, which was live.
LEMMA VerifyIsUse ==
  ASSUME OtpTypeOK, NEW m \in Members, NEW c \in Codes, Stored(c), Accepts(c, m),
         row' = [row EXCEPT ![c] = [@ EXCEPT !.verified = TRUE]], now' = now
  PROVE  OTC!Use(c)
  <1>1. CodeState(c) = "live"
    BY DEF CodeState, Accepts
  <1>2. row[c] \in Rows
    BY StoredType
  <1>3. row'[c] = [row[c] EXCEPT !.verified = TRUE]
    BY DEF OtpTypeOK
  <1>4. row'[c] \in Rows /\ row'[c].verified
    BY <1>2, <1>3 DEF Rows
  <1>5. CodeState(c)' = "used"
    BY <1>4, RowIsStored DEF CodeState, Stored
  <1>6. \A b \in Codes \ {c} : CodeState(b)' = CodeState(b)
    BY DEF CodeState, Stored, OtpTypeOK
  <1> QED BY <1>1, <1>5, <1>6 DEF OTC!Use

\* The clock expires the codes whose time is over, together; usually there is none.
LEMMA TickIsExpire ==
  ASSUME OtpTypeOK, Tick
  PROVE  \/ \E S \in SUBSET Codes : OTC!Expire(S)
         \/ UNCHANGED [c \in Codes |-> CodeState(c)]
  <1> DEFINE S == {c \in Codes : CodeState(c) = "live" /\ row[c].expires < now + 1}
  <1>1. ASSUME NEW c \in S PROVE CodeState(c)' = "expired"
    <2>1. Stored(c) /\ ~row[c].verified
      BY <1>1 DEF CodeState
    <2>2. row[c].expires \in Nat /\ now \in Nat
      BY <2>1, StoredType DEF Rows, OtpTypeOK
    <2> QED BY <1>1, <2>1, <2>2 DEF Tick, CodeState, Stored
  <1>2. ASSUME NEW c \in Codes \ S PROVE CodeState(c)' = CodeState(c)
    <2>1. CASE ~Stored(c)
      BY <2>1 DEF Tick, CodeState, Stored
    <2>2. CASE Stored(c)
      <3>1. row[c].expires \in Nat /\ now \in Nat
        BY <2>2, StoredType DEF Rows, OtpTypeOK
      <3>2. row[c].verified \/ row[c].expires < now \/ row[c].expires >= now + 1
        BY <1>2, <2>2, <3>1 DEF CodeState
      <3> QED BY <2>2, <3>1, <3>2 DEF Tick, CodeState, Stored
    <2> QED BY <2>1, <2>2
  <1>3. CASE S = {}
    BY <1>2, <1>3
  <1>4. CASE S # {}
    BY <1>1, <1>2, <1>4 DEF OTC!Expire
  <1> QED BY <1>3, <1>4

\* Every step of Otp is a step of OneTimeCodes or changes no code.
LEMMA RefinesStep ==
  ASSUME OtpTypeOK, [OtpNext]_otpVars
  PROVE  [OTC!Next]_([c \in Codes |-> CodeState(c)])
  <1>1. CASE UNCHANGED <<row, now>>
    BY <1>1 DEF CodeState, Stored
  <1>2. CASE \E g \in Calls, c \in Codes, d \in Digits :
               /\ ~Stored(c) /\ call[g].pc = "create"
               /\ row' = [row EXCEPT ![c] = NewRow(g, d)] /\ now' = now
    BY <1>2, CreateIsIssue DEF OTC!Next
  <1>3. CASE \E m \in Members, c \in Codes :
               /\ Stored(c) /\ Accepts(c, m)
               /\ row' = [row EXCEPT ![c] = [@ EXCEPT !.verified = TRUE]] /\ now' = now
    BY <1>3, VerifyIsUse DEF OTC!Next
  <1>4. CASE Tick
    BY <1>4, TickIsExpire DEF OTC!Next
  <1> QED BY <1>1, <1>2, <1>3, <1>4, RowSteps

\* otp.service.ts keeps what the withdraw endpoint relies on: a code is issued once, accepted
\* at most once, and never after it expired.
THEOREM CodesAreOneTimeHolds == OtpSpec => CodesAreOneTime
  BY RefinesInit, RefinesStep, TypeCorrect, PTL DEF OtpSpec, CodesAreOneTime, OTC!Spec
=============================================================================
