--------------------------- MODULE MCBuddyMemory ----------------------------
\* Small memories for BuddyMemory, and the ways callers use them.
EXTENDS BuddyMemory

AllSizes == 0 .. 2 ^ MaxOrder + 1

\* Blocks of all sizes that are given back.
AnySizes == {[sizes |-> AllSizes, frees |-> TRUE]}
=============================================================================
