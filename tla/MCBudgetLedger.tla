--------------------------- MODULE MCBudgetLedger ---------------------------
(***************************************************************************)
(* A small instance of BudgetLedger: two networks, the second with an      *)
(* estimated fee mode, and fewer records than attempts.                    *)
(***************************************************************************)
EXTENDS BudgetLedger, TLC

CONSTANTS n1, n2

MCNetworkOf == (1 :> n1) @@ (2 :> n2) @@ (3 :> n2)

MCGlobalLimits ==
  [perTransaction |-> 2, perHour |-> 3, perDay |-> 4, cumulative |-> 5]

MCNetworkLimits ==
  (n1 :> [perTransaction |-> 2, perHour |-> 2, perDay |-> 3, cumulative |-> 3]) @@
  (n2 :> [perTransaction |-> 2, perHour |-> 3, perDay |-> 3, cumulative |-> 4])

MCOverhead == (n1 :> 0) @@ (n2 :> 1)

MCEmergency == (n1 :> 1) @@ (n2 :> 1)

HashSymmetry == Permutations(Hashes)

=============================================================================
