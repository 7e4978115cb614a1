------------------------- MODULE MCPersistentTrees --------------------------
(* One conversation with a reply.                                          *)
EXTENDS PersistentTrees

CONSTANTS r1, c1

OneRootOf == [n \in {r1, c1} |-> r1]
=============================================================================
