--------------------------------- MODULE Otp ---------------------------------
(***************************************************************************)
(* otp.service.ts: one-time passwords for withdrawals.  generateOtpCode is *)
(* two steps that other requests interleave with (look for a code, insert  *)
(* one); the e-mail it then sends changes no state.  verifyOtpCode is one  *)
(* transaction, which locks the row it looks at.  There is one action type,*)
(* WITHDRAW_PAYMENT, so action_type is left out.                           *)
(***************************************************************************)
EXTENDS Integers, FiniteSets

CONSTANTS
  Members,      \* e-mail addresses
  Codes,        \* rows of the otp table
  Digits,       \* what hashOtp tells apart: the six digits
  Calls,        \* requests that generate a code, by the slot they run in
  Validity,     \* OTP_CODE_VALIDITY_MINUTES, in ticks
  MaxTime       \* bound of the model: the clock stops here

ASSUME OtpAssumption == Validity \in Nat \ {0} /\ MaxTime \in Nat

VARIABLES
  now,          \* the time
  row,          \* the otp table
  call          \* the next step of each generateOtpCode

otpVars == <<now, row, call>>

NoRow == [digits |-> "none"]
IdleCall == [pc |-> "idle"]

Rows == [digits : Digits, email : Members, expires : Nat, verified : BOOLEAN, by : Calls]
CallStates == {IdleCall} \cup [pc : {"create"}, email : Members]

OtpTypeOK ==
  /\ now \in Nat
  /\ row \in [Codes -> Rows \cup {NoRow}]
  /\ call \in [Calls -> CallStates]

OtpInit ==
  /\ now = 0
  /\ row = [c \in Codes |-> NoRow]
  /\ call = [g \in Calls |-> IdleCall]

-----------------------------------------------------------------------------
Stored(c) == row[c] # NoRow

\* The code keeps generateOtpCode from making another: expiration_time > now.
Pending(c) == Stored(c) /\ ~row[c].verified /\ row[c].expires > now

\* Wrong form: the codes of other members count, one's own do not.
CheckExistingOfOthers(g, m) ==
  /\ call[g] = IdleCall
  /\ ~\E c \in Codes : Pending(c) /\ row[c].email # m
  /\ call' = [call EXCEPT ![g] = [pc |-> "create", email |-> m]]
  /\ UNCHANGED <<now, row>>

\* The findFirst.  The request that finds a code ends there (otp_exists).
CheckExisting(g, m) ==
  /\ call[g] = IdleCall
  /\ ~\E c \in Codes : Pending(c) /\ row[c].email = m
  /\ call' = [call EXCEPT ![g] = [pc |-> "create", email |-> m]]
  /\ UNCHANGED <<now, row>>

NewRow(g, d) == [digits |-> d, email |-> call[g].email, expires |-> now + Validity,
                 verified |-> FALSE, by |-> g]

\* Random digits may be those of another row.
CreateCode(g) ==
  /\ call[g].pc = "create"
  /\ \E c \in Codes, d \in Digits :
       ~Stored(c) /\ row' = [row EXCEPT ![c] = NewRow(g, d)]
  /\ call' = [call EXCEPT ![g] = IdleCall]
  /\ UNCHANGED now

\* A statement fails or the instance crashes.
GenerateFails(g) ==
  /\ call[g] # IdleCall
  /\ call' = [call EXCEPT ![g] = IdleCall]
  /\ UNCHANGED <<now, row>>

-----------------------------------------------------------------------------
\* WHERE otp_hash = ... ORDER BY expiration_time DESC LIMIT 1: whoever the code was made
\* for, and whatever became of it.
Newest(c, d) ==
  /\ Stored(c) /\ row[c].digits = d
  /\ \A b \in Codes : Stored(b) /\ row[b].digits = d => row[b].expires <= row[c].expires

\* Wrong form: the expiration time is not compared.
AcceptsExpired(c, m) == row[c].email = m /\ ~row[c].verified

\* The checks on the row that was found.
Accepts(c, m) == row[c].email = m /\ ~row[c].verified /\ row[c].expires >= now

\* Member m enters the digits d.  A refused entry changes nothing, and so does one that
\* meets the row lock of another entry.
VerifyOtpCode(m, d) ==
  \E c \in Codes :
    /\ Newest(c, d) /\ Accepts(c, m)
    /\ row' = [row EXCEPT ![c] = [@ EXCEPT !.verified = TRUE]]
    /\ UNCHANGED <<now, call>>

Tick ==
  /\ now < MaxTime
  /\ now' = now + 1
  /\ UNCHANGED <<row, call>>

OtpNext ==
  \/ \E g \in Calls : \/ \E m \in Members : CheckExisting(g, m)
                      \/ CreateCode(g) \/ GenerateFails(g)
  \/ \E m \in Members, d \in Digits : VerifyOtpCode(m, d)
  \/ Tick

OtpSpec == OtpInit /\ [][OtpNext]_otpVars

-----------------------------------------------------------------------------
(***************************************************************************)
(* Properties.                                                             *)
(***************************************************************************)

\* A member has two pending codes only if the requests that made them overlapped: the
\* same slot, which takes one request after another, never made both, and a request
\* that is about to make a code is not in the slot of a pending one.
DuplicatesNeedOverlap ==
  \A c \in Codes : Pending(c) =>
    /\ \A b \in Codes \ {c} :
         Pending(b) /\ row[b].email = row[c].email => row[b].by # row[c].by
    /\ \A g \in Calls :
         call[g].pc = "create" /\ call[g].email = row[c].email => row[c].by # g

\* What the withdraw endpoint relies on.  A code that expired is one whose
\* expiration_time is past; at that very instant it is still accepted.
CodeState(c) ==
  CASE ~Stored(c) -> "unissued"
    [] Stored(c) /\ row[c].verified -> "used"
    [] Stored(c) /\ ~row[c].verified /\ row[c].expires >= now -> "live"
    [] OTHER -> "expired"

OTC == INSTANCE OneTimeCodes WITH code <- [c \in Codes |-> CodeState(c)]

\* Codes are issued once, accepted at most once and never after they expired: the
\* steps of otp.service.ts are steps of OneTimeCodes, the specification that the
\* withdraw endpoint of Payouts is built on.
CodesAreOneTime == OTC!Spec
=============================================================================
