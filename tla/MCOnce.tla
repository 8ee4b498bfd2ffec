------------------------------- MODULE MCOnce -------------------------------
(***************************************************************************)
(* The two parts by which something happens once: a code lets one          *)
(* withdrawal pass, an event is handled by one delivery.  They share no    *)
(* variable, so each is explored from where the other began.               *)
(***************************************************************************)
EXTENDS Otp, WebhookLog

\* The rows of the table are interchangeable: one way to give them out stands for all.
RowsInTurn == \A c \in Codes : Stored(c) => \A b \in Codes : b < c => Stored(b)

OnceInit == OtpInit /\ Init

OnceNext ==
  \/ Init /\ UNCHANGED vars /\ OtpNext /\ RowsInTurn'
  \/ OtpInit /\ UNCHANGED otpVars /\ Next

OnceSpec == OnceInit /\ [][OnceNext]_<<otpVars, vars>> /\ Fairness
=============================================================================
