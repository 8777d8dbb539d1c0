--------------------------- MODULE MCGuildServer ----------------------------
EXTENDS GuildServer, TLC

CONSTANTS ann, ben, g1, g2

AnnHasOne == [u \in {ann, ben} |-> IF u = ann THEN g1 ELSE Nothing]
Symmetry == Permutations(Devices) \union Permutations(Requests)
=============================================================================
