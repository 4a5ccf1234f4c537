---------------------------- MODULE MCAutoSwitch ----------------------------
(* AutoSwitch with what the server may find when it starts.                *)
EXTENDS AutoSwitch

Start0(a, off, f) == [active |-> a, enabled |-> Accounts \ off, flag |-> f]

\* Everything on; one account and the service off; nothing active.
MCStarts == {Start0(1, {}, TRUE), Start0(2, {3}, FALSE), Start0(None, {1}, FALSE)}

MCStartFirst == {Start0(1, {}, TRUE)}
=============================================================================
