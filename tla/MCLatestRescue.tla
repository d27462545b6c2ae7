---------------------------- MODULE MCLatestRescue ----------------------------
(* Two incidents of one asset, or of two assets with and without a limit   *)
(* that binds; and a single incident.                                      *)
EXTENDS LatestRescue

MCLayouts ==
  {[asset |-> <<1, 1>>, limit |-> 2, start |-> TRUE],
   [asset |-> <<1, 2>>, limit |-> 2, start |-> TRUE],
   [asset |-> <<1, 2>>, limit |-> 1, start |-> TRUE]}

OneIncident == {[asset |-> <<1>>, limit |-> 1, start |-> TRUE]}

=============================================================================
