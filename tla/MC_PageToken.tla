---------------------------- MODULE MC_PageToken ----------------------------
EXTENDS PageToken, TLC
CONSTANTS k1, k2
MCStrings == {"", "null", "a"}
MCConns == {k1, k2}
=============================================================================
