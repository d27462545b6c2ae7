---- MODULE MCCandidatePipeline ----
(* A finalized chain of three blocks with one losing branch.               *)
EXTENDS CandidatePipeline

\* 1 and 3 are on the finalized chain, 2 on the losing branch, 4 is the fast sighting
\* of 3, 5 the configured claim, which every generation puts again under one ID.
MCInfo == <<
    [kind |-> "block",    block |-> "b1",   token |-> 1],
    [kind |-> "block",    block |-> "b2x",  token |-> 1],
    [kind |-> "block",    block |-> "b2",   token |-> 2],
    [kind |-> "fast",     block |-> "b2",   token |-> 2],
    [kind |-> "periodic", block |-> "none", token |-> 0] >>

MCBlocks == {"b1", "b2", "b2x", "b3"}
MCFinalized == {"b1", "b2", "b3"}
MCNumber == [b1 |-> 1, b2 |-> 2, b2x |-> 2, b3 |-> 3]
MCParent == [b1 |-> "none", b2 |-> "b1", b2x |-> "b1", b3 |-> "b2"]
====
