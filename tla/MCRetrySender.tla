--------------------------- MODULE MCRetrySender ---------------------------
EXTENDS RetrySender, TLC

CONSTANTS w1, w2, w3, s1, s2

\* The key of a shared deployer: w1 and w2 in one process, the others in s2.
SharedKey == [w \in Workers |-> IF w \in {w1, w2} THEN s1 ELSE s2]
=============================================================================
