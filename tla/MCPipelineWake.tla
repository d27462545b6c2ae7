---- MODULE MCPipelineWake ----
(* A finalized chain of two blocks; its work, the configured claim and a periodic *)
(* check compete for the one place of the journal.                                *)
EXTENDS PipelineWake

\* 1 is found in the first block, the second one is empty, 2 is the claim, 3 a check.
MCInfo == <<
    [kind |-> "block",    block |-> "b1",   token |-> 1],
    [kind |-> "periodic", block |-> "none", token |-> 0],
    [kind |-> "periodic", block |-> "none", token |-> 0] >>

MCNumber == [b1 |-> 1, b2 |-> 2]
MCParent == [b1 |-> "none", b2 |-> "b1"]
====
