----------------------------- MODULE MCAdmission -----------------------------
(* An instance of Admission for TLC: six attempts.  Three are on one       *)
(* unknown token and three for one source event, one more than a limit of  *)
(* two lets through; one is on another unknown token, and the last meets   *)
(* only the rate and the capacity.                                         *)
EXTENDS Admission, TLC

SixAttempts == 1..6

TokenOf == <<"u1", "u1", "u1", "k1", "u2", "k2">>

EventOf == <<"e1", "e1", "e2", "e1", "e2", "e3">>

=============================================================================
