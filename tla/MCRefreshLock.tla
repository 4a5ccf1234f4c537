--------------------------- MODULE MCRefreshLock ---------------------------
EXTENDS RefreshLock
=============================================================================
