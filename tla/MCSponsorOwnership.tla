------------------------- MODULE MCSponsorOwnership -------------------------
(* Instances of SponsorOwnership for TLC.                                  *)
EXTENDS SponsorOwnership, TLC

CONSTANTS p1, p2, d1, d2

TwoProcs == {p1, p2}

\* Both processes are configured with one state directory.
SharedDir == (p1 :> d1) @@ (p2 :> d1)

\* Each process has a state directory of its own.
OwnDirs == (p1 :> d1) @@ (p2 :> d2)

Both == {SharedDir, OwnDirs}

=============================================================================
