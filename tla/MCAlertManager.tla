---------------------------- MODULE MCAlertManager ----------------------------
(* Instances of AlertManager for TLC.                                      *)
EXTENDS AlertManager

=============================================================================
