----------------------------- MODULE MCRingMemory ----------------------------
EXTENDS RingMemory
Spec == RingMemoryInit /\ [][RingMemoryNext]_memVars
==============================================================================
