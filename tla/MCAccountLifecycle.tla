------------------------ MODULE MCAccountLifecycle ------------------------
EXTENDS AccountLifecycle
=============================================================================
