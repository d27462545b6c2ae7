------------------------------ MODULE MCWatcher ------------------------------
(* Two providers over a trunk of three blocks and a fork from its first one. *)
EXTENDS NetworkGeneration

MCNumber == [b0 |-> 0, b1 |-> 1, b2 |-> 2, c1 |-> 1, c2 |-> 2]
MCParent == [b0 |-> "none", b1 |-> "b0", b2 |-> "b1", c1 |-> "b0", c2 |-> "c1"]
=============================================================================
