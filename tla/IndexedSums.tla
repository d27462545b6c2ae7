---------------------------- MODULE IndexedSums ----------------------------
(***************************************************************************)
(* The sum of a sequence-like function f over the indexes 1..n.            *)
(*                                                                         *)
(* The budget ledger walks its bbolt buckets in key order and accumulates  *)
(* amounts; Total is that walk.                                            *)
(***************************************************************************)
EXTENDS Integers

\* partial[i] is the sum of f[1], ..., f[i].
Total(f, n) ==
  LET partial[i \in 0..n] == IF i = 0 THEN 0 ELSE partial[i - 1] + f[i]
  IN  partial[n]

=============================================================================
