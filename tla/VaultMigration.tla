--------------------------- MODULE VaultMigration ---------------------------
(***************************************************************************)
(* The alembic revision that moves every account's credentials from the    *)
(* layout with one config directory per account into the vault, makes one  *)
(* of them active, clears the old layout away and drops the config_dir     *)
(* column.  It runs at startup until its transaction commits.  One step is *)
(* one `security` subprocess or one file operation; each may fail, the     *)
(* process may die between any two, and the CLI goes on rotating tokens in *)
(* the old entries and, once an account is promoted, in the standard one.  *)
(***************************************************************************)
EXTENDS Naturals, FiniteSets

CONSTANTS
  Accounts,  \* e-mail addresses, each with its own config directory
  None,      \* absent entry, absent file, nobody
  Bare,      \* an entry with an access token and no refresh token
  Layouts,   \* what the old layout may have of an account: Keychain entry and file
  Standards, \* what the CLI's own entry may be at the start
  MaxGen,    \* bound: rotations of an account's refresh token by the CLI
  MaxFaults  \* bound: failed calls and crashes, in all attempts together

Gens == 0..MaxGen

ASSUME ConstantsOK ==
  /\ MaxGen \in Nat
  /\ None \notin Accounts \cup Gens \cup {Bare} \cup [own : Accounts, gen : Gens \cup {None}]
  /\ Bare \notin Gens
  /\ Layouts \subseteq {0, Bare, None} \X {0, None}
  /\ Standards \subseteq [own : Accounts, gen : {0, None}] \cup {None}
  /\ MaxFaults \in Nat

VARIABLES
  rows,      \* accounts with a database row
  hashed,    \* [Accounts -> generation, Bare or None]: the old Keychain entries
  files,     \* [Accounts -> generation or None]: the file in the config directory
  labels,    \* accounts whose config directory has an oauthAccount
  pointer,   \* the account ~/.ccswitch/active points to
  vault,     \* [Accounts -> generation or None]
  named,     \* accounts whose vault entry has an oauthAccount
  standard,  \* the entry the CLI reads: owner and generation, or None; the
             \* token of a login of its own is none of the account's
             \* generations, the old layout has another
  identity,  \* the e-mail in ~/.claude.json
  backup,    \* [Accounts -> generation, Bare or None]: the backup file
  dropped,   \* the column is gone: the migration has been committed
  stale,     \* accounts with a stale_reason
  issued,    \* the generation of each account's refresh token the server accepts
  faults,    \* failed calls and crashes so far
  pc,        \* the migration's control point
  listed,    \* legacy_services
  todo,      \* rows the loop has not come to
  at, hand,  \* the account in hand, and the token read for it
  staleIds,  \* stale_ids
  active,    \* active_email
  rerun,     \* history: an earlier attempt came as far as the backup
  missed,    \* history: accounts whose entry this attempt's backup lacks
  rotated,   \* history: accounts whose old entry the CLI has rotated since it
  first,     \* history: the first account an attempt settled on
  skipped,   \* history: an attempt could not read the active account's entry
  old        \* history: the CLI's entry is the one found at the start

legacy   == <<hashed, files, labels, pointer>>
outcome  == <<vault, named, standard, identity>>
database == <<dropped, stale>>
locals   == <<listed, todo, at, hand, staleIds, active>>
history  == <<rerun, missed, rotated, first, skipped, old>>
vars     == <<rows, legacy, outcome, backup, database, issued, faults, pc, locals, history>>

PCs == {"down", "list", "backup", "look", "legacy", "vdel", "vadd", "hdel",
        "load", "ident", "sdel", "sadd", "sweep", "unlink", "commit", "done"}

----------------------------------------------------------------------------
(* What one call may return or leave, and what it costs.                   *)

Spend(failed) ==
  IF failed THEN faults < MaxFaults /\ faults' = faults + 1 ELSE UNCHANGED faults

\* _read_keychain: every failure, a timeout as well, reads as "no entry".
Reads(e) == {e, None}

\* _delete_keychain: failures are swallowed.
EraseOutcomes(e) == {e, None}

\* The delete inside _write_keychain: its exit status is not looked at, a
\* timeout, with the entry deleted or not, makes the write return False.
DeleteOutcomes(e) == [left : {e, None}, ok : BOOLEAN]
DeleteFailed(o)   == o.left # None \/ ~o.ok

\* The add: refused when an entry is still there; else it succeeds, fails, or
\* times out with the entry added or not.
AddOutcomes(e, v) ==
  IF e # None THEN [left : {e}, ok : {FALSE}]
  ELSE {o \in [left : {None, v}, ok : BOOLEAN] : o.ok => o.left = v}
AddFailed(e, o) == e = None /\ ~o.ok

----------------------------------------------------------------------------
(* An attempt: init_db upgrades until the revision is recorded.            *)

Start ==
  /\ pc = "down" /\ ~dropped
  /\ pc' = "list"
  /\ UNCHANGED <<rows, legacy, outcome, backup, database, issued, faults, locals, history>>

\* The attempt is over without a commit, by a crash or an exception: the
\* database is as it was, and the server's next start tries again.
Forget ==
  /\ pc' = "down"
  /\ listed' = {} /\ todo' = {} /\ at' = None /\ hand' = None
  /\ staleIds' = {} /\ active' = None

Crash ==
  /\ pc \notin {"down", "done"}
  /\ Forget
  /\ Spend(TRUE)
  /\ UNCHANGED <<rows, legacy, outcome, backup, database, issued, history>>

\* _list_services_with_prefix
List ==
  /\ pc = "list"
  /\ \E there \in {{a \in Accounts : hashed[a] # None}, {}} :
       listed' = there /\ Spend(\E a \in Accounts \ there : hashed[a] # None)
  /\ todo' = rows
  /\ pc' = "backup"
  /\ UNCHANGED <<rows, legacy, outcome, backup, database, issued, at, hand, staleIds,
                 active, history>>

MutantWriteBackup ==
  /\ pc = "backup"
  /\ rerun' = TRUE
  /\ rotated' = {}
  /\ \E found \in SUBSET listed :
       /\ Spend(found # listed)
       /\ backup' = [a \in Accounts |-> IF rerun THEN backup[a]
                                        ELSE IF a \in found THEN hashed[a] ELSE None]
       /\ missed' = {a \in Accounts : hashed[a] # None} \ found
  /\ pc' = "look"
  /\ UNCHANGED <<rows, legacy, outcome, database, issued, locals, first, skipped, old>>

\* _write_backup truncates the file of an earlier attempt.  What it could
\* not read is not in it; if it cannot be written the migration stops.
WriteBackup ==
  /\ pc = "backup"
  /\ rerun' = TRUE
  /\ rotated' = {}
  /\ \/ /\ \E found \in SUBSET listed :
             /\ Spend(found # listed)
             /\ backup' = [a \in Accounts |-> IF a \in found THEN hashed[a] ELSE None]
             /\ missed' = {a \in Accounts : hashed[a] # None} \ found
        /\ pc' = "look"
        /\ UNCHANGED locals
     \/ /\ Spend(TRUE)
        /\ backup' \in {backup, [a \in Accounts |-> None]}
        /\ missed' = Accounts
        /\ Forget
  /\ UNCHANGED <<rows, legacy, outcome, database, issued, first, skipped, old>>

----------------------------------------------------------------------------
(* Step 1: move the credentials, account by account.                       *)

MutantContinue(a, flagged) ==
  /\ todo' = todo \ {a}
  /\ at' = None /\ hand' = None
  /\ staleIds' = staleIds
  /\ pc' = "look"

\* The loop goes on to its next row; an account that could not be moved is
\* remembered.
Continue(a, flagged) ==
  /\ todo' = todo \ {a}
  /\ at' = None /\ hand' = None
  /\ staleIds' = IF flagged THEN staleIds \cup {a} ELSE staleIds
  /\ pc' = "look"

\* An entry with a refresh token says that the account has been moved.
Look(a) ==
  /\ pc = "look" /\ a \in todo
  /\ \E v \in Reads(vault[a]) :
       /\ Spend(v # vault[a])
       /\ IF v # None THEN Continue(a, FALSE)
          ELSE /\ pc' = "legacy" /\ at' = a
               /\ UNCHANGED <<todo, hand, staleIds>>
  /\ UNCHANGED <<rows, legacy, outcome, backup, database, issued, listed, active, history>>

\* _read_legacy_credentials and _build_vault_blob: the old Keychain entry if
\* there is one, with a refresh token or not, else the file.
ReadLegacy ==
  /\ pc = "legacy"
  /\ \E e \in Reads(hashed[at]) :
       LET got == IF e = None THEN files[at] ELSE e IN
       /\ Spend(e # hashed[at])
       /\ IF got \in Gens THEN hand' = got /\ pc' = "vdel" /\ UNCHANGED <<todo, at, staleIds>>
                          ELSE Continue(at, TRUE)
  /\ UNCHANGED <<rows, legacy, outcome, backup, database, issued, listed, active, history>>

VaultDelete ==
  /\ pc = "vdel"
  /\ \E o \in DeleteOutcomes(vault[at]) :
       /\ Spend(DeleteFailed(o))
       /\ vault' = [vault EXCEPT ![at] = o.left]
       /\ IF o.ok THEN pc' = "vadd" /\ UNCHANGED <<todo, at, hand, staleIds>>
                  ELSE Continue(at, TRUE)
  /\ UNCHANGED <<rows, legacy, named, standard, identity, backup, database, issued, listed,
                 active, history>>

VaultAdd ==
  /\ pc = "vadd"
  /\ \E o \in AddOutcomes(vault[at], hand) :
       /\ Spend(AddFailed(vault[at], o))
       /\ vault' = [vault EXCEPT ![at] = o.left]
       /\ named' = IF vault[at] # None \/ o.left = None THEN named
                   ELSE IF at \in labels THEN named \cup {at} ELSE named \ {at}
       /\ IF o.ok THEN pc' = "hdel" /\ UNCHANGED <<todo, at, hand, staleIds>>
                  ELSE Continue(at, TRUE)
  /\ UNCHANGED <<rows, legacy, standard, identity, backup, database, issued, listed, active,
                 history>>

HashedDelete ==
  /\ pc = "hdel"
  /\ \E l \in EraseOutcomes(hashed[at]) :
       hashed' = [hashed EXCEPT ![at] = l] /\ Spend(l # None)
  /\ Continue(at, FALSE)
  /\ UNCHANGED <<rows, files, labels, pointer, outcome, backup, database, issued, listed,
                 active, history>>

----------------------------------------------------------------------------
(* Steps 2 and 3: which account is active, and its promotion.              *)

MutantSettle ==
  /\ pc = "look" /\ todo = {}
  /\ active' = IF pointer \in rows THEN pointer ELSE IF identity \in rows THEN identity ELSE None
  /\ pointer' = None
  /\ first' = IF first = None THEN active' ELSE first
  /\ pc' = IF active' = None THEN "sweep" ELSE "load"
  /\ UNCHANGED <<rows, hashed, files, labels, outcome, backup, database, issued, faults, listed,
                 todo, at, hand, staleIds, rerun, missed, rotated, skipped, old>>

\* The pointer's account, else the one ~/.claude.json names.
Settle ==
  /\ pc = "look" /\ todo = {}
  /\ active' = IF pointer \in rows THEN pointer ELSE IF identity \in rows THEN identity ELSE None
  /\ first' = IF first = None THEN active' ELSE first
  /\ pc' = IF active' = None THEN "sweep" ELSE "load"
  /\ UNCHANGED <<rows, legacy, outcome, backup, database, issued, faults, listed, todo, at,
                 hand, staleIds, rerun, missed, rotated, skipped, old>>

MutantLoad ==
  /\ pc = "load"
  /\ \E v \in Reads(vault[active]) :
       /\ Spend(v # vault[active])
       /\ hand' = v
       /\ skipped' = (skipped \/ v = None)
       /\ pc' = IF active \in named THEN "ident" ELSE "sdel"
  /\ UNCHANGED <<rows, legacy, outcome, backup, database, issued, listed, todo, at, staleIds,
                 active, rerun, missed, rotated, first, old>>

\* Without a vault entry nothing is promoted; without an oauthAccount the
\* identity file stays as it is.
Load ==
  /\ pc = "load"
  /\ \E v \in Reads(vault[active]) :
       /\ Spend(v # vault[active])
       /\ hand' = v
       /\ skipped' = (skipped \/ v = None)
       /\ pc' = IF v = None THEN "sweep" ELSE IF active \in named THEN "ident" ELSE "sdel"
  /\ UNCHANGED <<rows, legacy, outcome, backup, database, issued, listed, todo, at, staleIds,
                 active, rerun, missed, rotated, first, old>>

MutantWriteIdentity ==
  /\ pc = "ident"
  /\ \E e \in {identity, active} : identity' = e /\ Spend(e # active)
  /\ pc' = "sdel"
  /\ UNCHANGED <<rows, legacy, vault, named, standard, backup, database, issued, locals, history>>

WriteIdentity ==
  /\ pc = "ident"
  /\ \/ identity' = active /\ pc' = "sdel" /\ UNCHANGED <<locals, faults>>
     \/ Spend(TRUE) /\ Forget /\ UNCHANGED identity
  /\ UNCHANGED <<rows, legacy, vault, named, standard, backup, database, issued, history>>

StandardDelete ==
  /\ pc = "sdel"
  /\ \E o \in DeleteOutcomes(standard) :
       /\ Spend(DeleteFailed(o))
       /\ standard' = o.left
       /\ old' = (old /\ o.left # None)
       /\ IF o.ok THEN pc' = "sadd" /\ UNCHANGED locals ELSE Forget
  /\ UNCHANGED <<rows, legacy, vault, named, identity, backup, database, issued, rerun, missed,
                 rotated, first, skipped>>

\* The file fallback written after it is allowed to fail.
StandardAdd ==
  /\ pc = "sadd"
  /\ \E o \in AddOutcomes(standard, [own |-> active, gen |-> hand]) :
       /\ Spend(AddFailed(standard, o))
       /\ standard' = o.left
       /\ IF o.ok THEN pc' = "sweep" /\ UNCHANGED locals ELSE Forget
  /\ UNCHANGED <<rows, legacy, vault, named, identity, backup, database, issued, history>>

----------------------------------------------------------------------------
(* Steps 4 to 7: clear the old layout away, commit.                        *)

Sweep(a) ==
  /\ pc = "sweep" /\ a \in listed
  /\ \E l \in EraseOutcomes(hashed[a]) :
       hashed' = [hashed EXCEPT ![a] = l] /\ Spend(l # None)
  /\ listed' = listed \ {a}
  /\ UNCHANGED <<rows, files, labels, pointer, outcome, backup, database, issued, pc, todo, at,
                 hand, staleIds, active, history>>

\* rmtree stops at the first error, which is logged.
RemoveDirs ==
  /\ pc = "sweep" /\ listed = {}
  /\ \E gone \in SUBSET Accounts :
       /\ Spend(gone # Accounts)
       /\ files' = [a \in Accounts |-> IF a \in gone THEN None ELSE files[a]]
       /\ labels' = labels \ gone
  /\ pc' = "unlink"
  /\ UNCHANGED <<rows, hashed, pointer, outcome, backup, database, issued, locals, history>>

Unlink ==
  /\ pc = "unlink"
  /\ \E p \in {None, pointer} : pointer' = p /\ Spend(p # None)
  /\ pc' = "commit"
  /\ UNCHANGED <<rows, hashed, files, labels, outcome, backup, database, issued, locals, history>>

\* The rows are flagged and the column is dropped in alembic's transaction.
Commit ==
  /\ pc = "commit"
  /\ stale' = staleIds /\ dropped' = TRUE
  /\ pc' = "done"
  /\ UNCHANGED <<rows, legacy, outcome, backup, issued, faults, locals, history>>

----------------------------------------------------------------------------
(* The CLI, in a terminal with an account's config directory or without.   *)

CliRotatesOld(a) ==
  /\ hashed[a] = issued[a] /\ issued[a] < MaxGen
  /\ issued' = [issued EXCEPT ![a] = @ + 1]
  /\ hashed' = [hashed EXCEPT ![a] = issued[a] + 1]
  /\ rotated' = rotated \cup {a}
  /\ UNCHANGED <<rows, files, labels, pointer, outcome, backup, database, faults, pc, locals,
                 rerun, missed, first, skipped, old>>

CliRotatesStandard(a) ==
  /\ standard = [own |-> a, gen |-> issued[a]] /\ issued[a] < MaxGen
  /\ issued' = [issued EXCEPT ![a] = @ + 1]
  /\ standard' = [own |-> a, gen |-> issued[a] + 1]
  /\ UNCHANGED <<rows, legacy, vault, named, identity, backup, database, faults, pc, locals,
                 history>>

----------------------------------------------------------------------------

\* The old layout as the old version may have left it: an entry, a file,
\* both or neither for an account, with or without a row; the CLI's own
\* entry is there when the old version's switch mirrored an account into it
\* or the user logged in without a config directory, and the identity file
\* need not be of that account.
Init ==
  /\ rows \in SUBSET Accounts
  /\ \E layout \in [Accounts -> Layouts] :
       /\ hashed = [a \in Accounts |-> layout[a][1]]
       /\ files = [a \in Accounts |-> layout[a][2]]
  /\ labels \in SUBSET Accounts
  /\ pointer \in Accounts \cup {None}
  /\ vault = [a \in Accounts |-> None] /\ named = {}
  /\ standard \in Standards /\ old = (standard # None)
  /\ identity \in Accounts \cup {None}
  /\ backup = [a \in Accounts |-> None]
  /\ dropped = FALSE /\ stale = {}
  /\ issued = [a \in Accounts |-> 0]
  /\ faults = 0
  /\ pc = "down"
  /\ listed = {} /\ todo = {} /\ at = None /\ hand = None /\ staleIds = {} /\ active = None
  /\ rerun = FALSE /\ missed = {} /\ rotated = {} /\ first = None /\ skipped = FALSE

\* The revision is recorded and not run again.
Over == pc = "done" /\ UNCHANGED vars

Step ==
  \/ Start \/ List \/ WriteBackup
  \/ \E a \in Accounts : Look(a) \/ Sweep(a)
  \/ ReadLegacy \/ VaultDelete \/ VaultAdd \/ HashedDelete
  \/ Settle \/ Load \/ WriteIdentity \/ StandardDelete \/ StandardAdd
  \/ RemoveDirs \/ Unlink \/ Commit

Next ==
  \/ Step
  \/ Crash
  \/ Over
  \/ \E a \in Accounts : CliRotatesOld(a) \/ CliRotatesStandard(a)

Spec == Init /\ [][Next]_vars

----------------------------------------------------------------------------

TypeOK ==
  /\ rows \subseteq Accounts /\ labels \subseteq Accounts /\ named \subseteq Accounts
  /\ hashed \in [Accounts -> Gens \cup {Bare, None}]
  /\ files \in [Accounts -> Gens \cup {None}]
  /\ pointer \in Accounts \cup {None} /\ identity \in Accounts \cup {None}
  /\ vault \in [Accounts -> Gens \cup {None}]
  /\ standard \in [own : Accounts, gen : Gens \cup {None}] \cup {None}
  /\ backup \in [Accounts -> Gens \cup {Bare, None}]
  /\ dropped \in BOOLEAN /\ stale \subseteq rows
  /\ issued \in [Accounts -> Gens]
  /\ faults \in 0..MaxFaults
  /\ pc \in PCs
  /\ listed \subseteq Accounts /\ todo \subseteq rows /\ staleIds \subseteq rows
  /\ at \in Accounts \cup {None} /\ active \in rows \cup {None}
  /\ hand \in Gens \cup {None}
  /\ pc \in {"legacy", "vdel", "vadd", "hdel"} => at \in todo
  /\ pc \in {"vdel", "vadd", "hdel", "ident", "sdel", "sadd"} => hand \in Gens
  /\ pc \in {"load", "ident", "sdel", "sadd"} => active \in rows
  /\ rerun \in BOOLEAN /\ skipped \in BOOLEAN /\ old \in BOOLEAN
  /\ missed \subseteq Accounts /\ rotated \subseteq Accounts
  /\ first \in rows \cup {None}

\* The migration, whatever fails and however often it is run, keeps what
\* Migration promises: nobody's credentials are dropped without the flag
\* that asks for a new login, and nothing changes after the commit.
Home(a) == IF vault[a] # None THEN "vault"
           ELSE IF hashed[a] \in Gens \/ files[a] # None THEN "legacy" ELSE "none"

Abs == INSTANCE Migration WITH home <- [a \in Accounts |-> Home(a)], done <- dropped

Promised == Abs!Spec

\* The token the server accepts is stored somewhere.
Held(a) ==
  \/ issued[a] \in {vault[a], hashed[a], files[a], backup[a]}
  \/ standard = [own |-> a, gen |-> issued[a]]

\* The last copy of an account's accepted token goes only where it cannot
\* be known for it or is not looked after: a later attempt overwrites the
\* backup of the first one, a vault entry it could not read, or a standard
\* entry the CLI has rotated since; an old entry was unreadable for the
\* backup or rotated after it; a token in a file is in no backup.
MigrationLosses ==
  [][\A a \in Accounts : Held(a) /\ ~Held(a)' =>
       \/ pc = "backup" /\ rerun
       \/ pc = "vdel" /\ at = a /\ vault[a] # None
       \/ pc = "sdel"
       \/ pc \in {"hdel", "sweep"} /\ a \in missed \cup rotated
       \/ pc = "sweep" /\ listed = {} /\ (a \in staleIds \/ a \notin rows)]_vars

\* Attempts agree on the active account, although the pointer is removed
\* before the commit: from then on the identity file tells it, unless the
\* account's entry had no oauthAccount to put there or could not be read.
SameActive ==
  active # None /\ first \in named /\ ~skipped => active = first

\* Between any two steps, of whichever attempt, what the migration has put
\* into the CLI's entry is of the account the identity file names, unless
\* that account's vault entry had no oauthAccount: there are old tokens
\* beside a new identity, never new tokens beside an old one.  And the old
\* ones do not outlast the commit, unless no account was made active or its
\* vault entry could not be read.
OneActive ==
  standard # None =>
    \/ identity = standard.own
    \/ standard.own \notin named
    \/ old /\ (dropped => active = None \/ skipped)

=============================================================================
