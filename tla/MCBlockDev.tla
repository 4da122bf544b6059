----------------------------- MODULE MCBlockDev -----------------------------
EXTENDS BlockDev
=============================================================================
