----------------------------- MODULE MCBlockStore -----------------------------
(* Instances of BlockStore for TLC: the block tree

      g - a1 - a2 - a3
       \   \     \ c3
        d1  b2 - b3 - b4

   in which a branch that overtakes leaves a1, one of the same length as the
   a branch leaves a2, and one leaves genesis; and j2, junk, a child of a1.  *)
EXTENDS BlockStore

MCJunk == {"j2"}

MCBlocks == {"g", "a1", "a2", "a3", "b2", "b3", "b4", "c3", "d1"} \cup MCJunk

MCParent == [b \in MCBlocks \ {"g"} |->
    CASE b = "a1" -> "g"  [] b = "a2" -> "a1" [] b = "a3" -> "a2"
      [] b = "b2" -> "a1" [] b = "b3" -> "b2" [] b = "b4" -> "b3"
      [] b = "c3" -> "a2" [] b = "d1" -> "g"  [] b = "j2" -> "a1"]

MCPath[b \in MCBlocks] == IF b = "g" THEN {b} ELSE MCPath[MCParent[b]] \cup {b}

MCDepth == [b \in MCBlocks |-> Cardinality(MCPath[b]) - 1]

\* The genesis block and a1 are checkpoints.
MCCheckpoint == [h \in {0, 1} |-> IF h = 0 THEN "g" ELSE "a1"]

=============================================================================
