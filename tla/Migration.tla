----------------------------- MODULE Migration -----------------------------
(***************************************************************************)
(* What the one-shot migration to the vault promises, whatever fails and   *)
(* however often it is run: every account's credentials are in the old     *)
(* layout, in the vault or gone; one step of the database ends it, and at  *)
(* that step every account that is not in the vault is flagged for a new   *)
(* login.  A crash and a rerun are not visible here: they stutter.         *)
(***************************************************************************)
CONSTANT Accounts

VARIABLES
  rows,    \* accounts with a database row
  home,    \* where an account has credentials one could log in with
  stale,   \* accounts whose row says that a new login is needed
  done     \* the schema change has been committed

vars == <<rows, home, stale, done>>

Init ==
  /\ rows \in SUBSET Accounts
  /\ home \in [Accounts -> {"legacy", "none"}]
  /\ stale = {}
  /\ done = FALSE

\* The vault has the account's credentials now.
Move(a) ==
  /\ ~done /\ a \in rows /\ home[a] = "legacy"
  /\ home' = [home EXCEPT ![a] = "vault"]
  /\ UNCHANGED <<rows, stale, done>>

\* A vault entry that could not be read was to be replaced from the old
\* layout, where the credentials still are, and the replacement failed.
Return(a) ==
  /\ ~done /\ home[a] = "vault"
  /\ home' = [home EXCEPT ![a] = "legacy"]
  /\ UNCHANGED <<rows, stale, done>>

\* The old layout is cleared away, with what was not moved out of it.
Clear(gone) ==
  /\ ~done /\ \A a \in gone : home[a] = "legacy"
  /\ home' = [a \in Accounts |-> IF a \in gone THEN "none" ELSE home[a]]
  /\ UNCHANGED <<rows, stale, done>>

Finish ==
  /\ ~done
  /\ \E s \in SUBSET rows : /\ {a \in rows : home[a] # "vault"} \subseteq s
                            /\ stale' = s
  /\ done' = TRUE
  /\ UNCHANGED <<rows, home>>

Next ==
  \/ \E a \in Accounts : Move(a) \/ Return(a)
  \/ \E gone \in SUBSET Accounts : Clear(gone)
  \/ Finish

Spec == Init /\ [][Next]_vars

=============================================================================
