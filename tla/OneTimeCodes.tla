---------------------------- MODULE OneTimeCodes ----------------------------
(***************************************************************************)
(* What the withdrawal flow needs of one-time passwords, and no more: a    *)
(* code is issued once, is accepted at most once, and is never accepted    *)
(* after it expired.  Otp.tla, the model of otp.service.ts, implements     *)
(* this specification; Payouts.tla uses its actions as the OTP step of a   *)
(* withdrawal.                                                             *)
(***************************************************************************)
CONSTANT Codes

VARIABLE code           \* code[c]: the life of code c

CodeStates == {"unissued", "live", "used", "expired"}

TypeOK == code \in [Codes -> CodeStates]

Init == code = [c \in Codes |-> "unissued"]

Issue(c) == /\ code[c] = "unissued"
            /\ code' = [code EXCEPT ![c] = "live"]

\* The only step that lets a withdrawal through.
Use(c) == /\ code[c] = "live"
          /\ code' = [code EXCEPT ![c] = "used"]

\* Codes that were sent together may expire together.
Expire(S) == /\ S # {} /\ \A c \in S : code[c] = "live"
             /\ code' = [c \in Codes |-> IF c \in S THEN "expired" ELSE code[c]]

Next == \/ \E c \in Codes : Issue(c) \/ Use(c)
        \/ \E S \in SUBSET Codes : Expire(S)

Spec == Init /\ [][Next]_code
=============================================================================
