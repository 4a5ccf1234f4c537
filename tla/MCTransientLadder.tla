------------------------- MODULE MCTransientLadder -------------------------
EXTENDS TransientLadder
=============================================================================
