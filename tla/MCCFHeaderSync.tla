--------------------------- MODULE MCCFHeaderSync ---------------------------
(* CFHeaderSync with two peers that serve filters and one that does not. *)
EXTENDS CFHeaderSync

CONSTANTS f1, f2, n1, a, b

MCPeers       == {f1, f2, n1}
MCFilterPeers == {f1, f2}
MCIndexes     == {a, b}
\* The two filter peers have the same index, or one of their own.
MCAssignments == {[p \in MCPeers |-> a], [p \in MCPeers |-> IF p = f2 THEN b ELSE a]}
=============================================================================
