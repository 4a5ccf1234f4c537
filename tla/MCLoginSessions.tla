-------------------------- MODULE MCLoginSessions --------------------------
EXTENDS LoginSessions
=============================================================================
