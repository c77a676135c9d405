------------------------- MODULE MCAtomicConfigStore -------------------------
EXTENDS AtomicConfigStore
=============================================================================
