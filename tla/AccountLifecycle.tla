-------------------------- MODULE AccountLifecycle --------------------------
(***************************************************************************)
(* One account that is not active, through everything that can happen to   *)
(* it at once: the tick and revalidations refresh its token, the user logs *)
(* in to it again, deletes it and adds it again.  Its vault entry and its  *)
(* database row are written by all of them, under locks that exclude some  *)
(* from some: the refresh lock (not taken by logins, replaced when the     *)
(* account is deleted), the credential lock (held for one write, not for   *)
(* reads) and none at all for the row.                                     *)
(*                                                                         *)
(* TokenRefresh has the same refreshes beside swaps and the CLI, VaultSwap *)
(* the deletion of an active account, TransientLadder when failures that   *)
(* may pass add up to an escalation: here they may at any time.            *)
(***************************************************************************)
EXTENDS Naturals

CONSTANTS
  Tick,          \* the poll loop, which awaits each tick
  Revalidators,  \* concurrent POST /revalidate handlers
  Logins,        \* concurrent verify_login and verify_relogin handlers
  None,          \* no entry, no row, nothing read
  MaxFam,        \* bound: logins after the first
  MaxGen,        \* bound: rotations of a login's token
  MaxDeletes,    \* bound: deletions
  MaxFaults      \* bound: timeouts, failed writes, failed answers and crashes

Refreshers == Revalidators \cup {Tick}
Actors     == Refreshers \cup Logins

ASSUME LifecycleConstantsOK ==
  /\ Tick \notin Revalidators /\ Refreshers \cap Logins = {}
  /\ MaxFam \in Nat /\ MaxGen \in Nat /\ MaxDeletes \in Nat /\ MaxFaults \in Nat
  /\ None \notin Nat \cup Actors

\* A refresh token: the login it comes from and how often it has been rotated.
Token == [fam : 0..MaxFam, gen : 0..MaxGen]
\* A vault entry, and whether it carries the oauthAccount.
Blob  == [tok : Token, label : BOOLEAN]
\* A row: SQLite may give the id of a deleted row to a later one.
Row   == [id : 0..MaxDeletes, stale : BOOLEAN]

ASSUME LifecycleNoneOK == None \notin Blob \cup Row

\* What a refresher has found out: "clear" and "keep" the flag, or why to set it.
Reasons  == {"missing",  \* nothing could be read from the vault
             "refused",  \* the refresh token was rejected
             "again",    \* 401 for the access token just refreshed
             "failing",  \* failures that may pass have escalated
             "later"}    \* a failure that may pass, told to the user
Verdicts == Reasons \cup {"clear", "keep"}

VARIABLES
  vault,   \* the account's entry, or None
  row,     \* its row, or None
  live,    \* per login, the token the server takes; None: not issued or revoked
  pc, hand,\* per actor: control point, and the blob it has read or will write
  loaded,  \* per actor: the row as its session has loaded it
  verdict, \* per refresher
  lockOf,  \* per refresher: the refresh lock it queues for or holds
  fams,    \* the newest login
  era,     \* the refresh lock handed out now
  del,     \* the delete_account handler
  faults, lastId,       \* the bounded count, the newest row id
  saved,   \* history: the login whose tokens were last written to the entry
  crossed, \* history: actors whose read tokens of a newer login were since written over
  outdone, \* history: actors whose result others have since acted upon
  refused, \* history: {Tick} if this tick's GET was answered 401
  blind,   \* history: refreshers whose lookup missed an entry, or one being rewritten
  unsaved, \* history: actors whose write failed or timed out
  spared   \* history: why an entry may outlive its row, "no" if nothing lets it

entry   == <<vault, live, fams, saved>>
work    == <<hand, loaded, verdict, lockOf>>
notes   == <<crossed, outdone, refused, blind, unsaved>>
removal == <<era, del, lastId, spared>>
vars    == <<entry, row, pc, work, notes, removal, faults>>

At(x, p)   == pc[x] = p
Goto(x, p) == pc' = [pc EXCEPT ![x] = p]
Fault      == faults < MaxFaults /\ faults' = faults + 1
Fine       == UNCHANGED faults

\* One write holds the credential lock from its delete to its add.
Writing == \E x \in Actors : At(x, "add")

\* A lookup without a lock: `blind` when there is more to find.
Lookup(x, b) ==
  \/ b = vault /\ Fine
     /\ blind' = IF b = None /\ Writing THEN blind \cup {x} ELSE blind \ {x}
  \/ b = None /\ vault # None /\ Fault /\ blind' = blind \cup {x}

\* History: x acts while others have a token of their own and have not committed.
Unsettled == {y \in Actors : pc[y] \in {"save", "add", "apply", "commit"}}
Outdoes(x, others) == outdone' = outdone \cup (others \ {x})

Conclude(x, v) ==
  /\ verdict' = [verdict EXCEPT ![x] = v]
  /\ hand' = [hand EXCEPT ![x] = None]
  /\ Goto(x, "apply")

----------------------------------------------------------------------------
(* The tick and a revalidation up to the refresh lock.                     *)

TickStart ==
  /\ At(Tick, "idle") /\ row # None
  /\ loaded' = [loaded EXCEPT ![Tick] = row]
  /\ Goto(Tick, "fetch")
  /\ UNCHANGED <<entry, row, hand, verdict, lockOf, notes, removal, faults>>

\* A refused access token clears the flag like any other error.
MutantFetch ==
  /\ At(Tick, "fetch")
  /\ \E b \in {vault, None} :
       /\ Lookup(Tick, b)
       /\ \/ b = None /\ Conclude(Tick, "missing") /\ UNCHANGED <<lockOf, refused>>
          \/ /\ b # None /\ Conclude(Tick, "clear")
             /\ refused' \in {refused, refused \cup {Tick}}
             /\ UNCHANGED lockOf
          \/ /\ b # None /\ ~loaded[Tick].stale
             /\ hand' = [hand EXCEPT ![Tick] = b]
             /\ lockOf' = [lockOf EXCEPT ![Tick] = era]
             /\ refused' = refused \cup {Tick}
             /\ Goto(Tick, "wait") /\ UNCHANGED verdict
  /\ UNCHANGED <<entry, row, loaded, crossed, outdone, unsaved, removal>>

\* Success and every error but 401 clear the flag.  On 401 a flagged account
\* keeps it, and any other that is not backing off queues with what was read.
Fetch ==
  /\ At(Tick, "fetch")
  /\ \E b \in {vault, None} :
       /\ Lookup(Tick, b)
       /\ \/ b = None /\ Conclude(Tick, "missing") /\ UNCHANGED <<lockOf, refused>>
          \/ b # None /\ Conclude(Tick, "clear") /\ UNCHANGED <<lockOf, refused>>
          \/ /\ b # None /\ Conclude(Tick, "keep")
             /\ refused' = refused \cup {Tick}
             /\ UNCHANGED lockOf
          \/ /\ b # None /\ ~loaded[Tick].stale
             /\ hand' = [hand EXCEPT ![Tick] = b]
             /\ lockOf' = [lockOf EXCEPT ![Tick] = era]
             /\ refused' = refused \cup {Tick}
             /\ Goto(Tick, "wait") /\ UNCHANGED verdict
  /\ UNCHANGED <<entry, row, loaded, crossed, outdone, unsaved, removal>>

Throttled ==
  /\ At(Tick, "fetch") /\ Conclude(Tick, "keep")
  /\ UNCHANGED <<entry, row, loaded, lockOf, notes, removal, faults>>

\* The token read with the row, before the lock.
MutantRevalidate(r) ==
  /\ At(r, "idle") /\ row # None
  /\ loaded' = [loaded EXCEPT ![r] = row]
  /\ hand' = [hand EXCEPT ![r] = vault]
  /\ lockOf' = [lockOf EXCEPT ![r] = era]
  /\ Goto(r, "wait")
  /\ UNCHANGED <<entry, row, verdict, notes, removal, faults>>

Revalidate(r) ==
  /\ At(r, "idle") /\ row # None
  /\ loaded' = [loaded EXCEPT ![r] = row]
  /\ lockOf' = [lockOf EXCEPT ![r] = era]
  /\ Goto(r, "wait")
  /\ UNCHANGED <<entry, row, hand, verdict, notes, removal, faults>>

\* A revalidation keeps the lock until it has committed, the tick does not.
Locked(r) == pc[r] \in {"post", "save", "add"} \/ (r # Tick /\ At(r, "apply"))

\* The tick has its token already, a revalidation reads it now.
Grab(r) ==
  /\ At(r, "wait")
  /\ \A s \in Refreshers : Locked(s) => lockOf[s] # lockOf[r]
  /\ IF hand[r] # None
     THEN Goto(r, "post") /\ Fine /\ UNCHANGED <<hand, verdict, blind>>
     ELSE \E b \in {vault, None} :
            /\ Lookup(r, b)
            /\ IF b = None THEN Conclude(r, "missing")
               ELSE hand' = [hand EXCEPT ![r] = b] /\ Goto(r, "post") /\ UNCHANGED verdict
  /\ UNCHANGED <<entry, row, loaded, lockOf, crossed, outdone, refused, unsaved, removal>>

----------------------------------------------------------------------------
(* _refresh_vault_token, under the lock.                                   *)

Rotate(f) == live[f] < MaxGen /\ live' = [live EXCEPT ![f] = @ + 1]

Accepted(r) == At(r, "post") /\ live[hand[r].tok.fam] = hand[r].tok.gen

PostAccepted(r) ==
  /\ Accepted(r) /\ Rotate(hand[r].tok.fam)
  /\ Outdoes(r, Unsettled)
  /\ hand' = [hand EXCEPT ![r].tok.gen = @ + 1]
  /\ Goto(r, "save")
  /\ UNCHANGED <<vault, fams, saved, row, loaded, verdict, lockOf, crossed, refused, blind, unsaved, removal, faults>>

\* A used token costs the login.
PostRejected(r) ==
  /\ At(r, "post") /\ ~Accepted(r)
  /\ Outdoes(r, Unsettled)
  /\ live' = [live EXCEPT ![hand[r].tok.fam] = None]
  /\ Conclude(r, "refused")
  /\ UNCHANGED <<vault, fams, saved, row, loaded, lockOf, crossed, refused, blind, unsaved, removal, faults>>

\* An answer that may pass taken for a terminal one.
MutantPostFailed(r) ==
  /\ At(r, "post") /\ Fault
  /\ Outdoes(r, Unsettled)
  /\ UNCHANGED live \/ (Accepted(r) /\ Rotate(hand[r].tok.fam))
  /\ Conclude(r, "refused")
  /\ UNCHANGED <<vault, fams, saved, row, loaded, lockOf, crossed, refused, blind, unsaved, removal>>

\* Before or after the server has rotated the token.
PostFailed(r) ==
  /\ At(r, "post") /\ Fault
  /\ Outdoes(r, Unsettled)
  /\ UNCHANGED live \/ (Accepted(r) /\ Rotate(hand[r].tok.fam))
  /\ \/ Conclude(r, "failing")
     \/ Conclude(r, IF r = Tick THEN "keep" ELSE "later")
  /\ UNCHANGED <<vault, fams, saved, row, loaded, lockOf, crossed, refused, blind, unsaved, removal>>

----------------------------------------------------------------------------
(* Writing the entry.                                                      *)

\* Having written what it could: a success; the tick then tries its new access
\* token, outside the lock.
Saved(x) ==
  IF x \in Logins
  THEN Goto(x, "commit") /\ hand' = [hand EXCEPT ![x] = None] /\ UNCHANGED verdict
  ELSE \/ Conclude(x, "clear")
       \/ x = Tick /\ Conclude(x, "again")

\* A refresh keeps what else the entry has, a login brings all of it.
Merged(x) ==
  [hand[x] EXCEPT !.label =
     x \in Logins \/ (vault # None /\ vault.label)]

\* _credential_lock is taken; a refresh reads the entry for the merge; the old
\* entry is deleted, or the delete times out, which ends the write.
Delete(x) ==
  /\ At(x, IF x \in Logins THEN "write" ELSE "save") /\ ~Writing
  /\ Outdoes(x, Unsettled)
  /\ \/ /\ vault' = None
        /\ \/ hand' = [hand EXCEPT ![x] = Merged(x)] /\ Fine
           \/ /\ x \in Refreshers /\ Fault
              /\ hand' = [hand EXCEPT ![x].label = FALSE]
        /\ Goto(x, "add") /\ UNCHANGED <<verdict, unsaved>>
     \/ /\ vault' \in {vault, None} /\ Fault
        /\ unsaved' = unsaved \cup {x}
        /\ Saved(x)
  /\ UNCHANGED <<live, fams, saved, row, loaded, lockOf, crossed, refused, blind, removal>>

\* Those whose read is older than the blob just written: the tick from its read
\* on, a revalidation under the lock.
Overtaken == {x \in Actors : IF x \in Revalidators THEN Locked(x)
                             ELSE pc[x] \notin {"idle", "fetch"}}

\* The add, which may fail or time out.
Add(x) ==
  /\ At(x, "add") /\ Outdoes(x, Overtaken)
  /\ \E ok \in BOOLEAN :
       /\ \/ vault' = hand[x] /\ (Fine \/ (~ok /\ Fault))
          \/ vault' = vault /\ ~ok /\ Fault
       /\ ok <=> faults' = faults
       /\ unsaved' = IF ok THEN unsaved ELSE unsaved \cup {x}
  /\ IF vault' # None
     THEN /\ saved' = hand[x].tok.fam
          /\ crossed' = IF x \in Logins \/ saved' > saved
                        THEN crossed \cup (Overtaken \ {x}) ELSE crossed
          /\ spared' = IF del = "drop" THEN "written" ELSE spared
     ELSE UNCHANGED <<saved, crossed, spared>>
  /\ Saved(x)
  /\ UNCHANGED <<live, fams, row, loaded, lockOf, refused, blind, era, del, lastId>>

----------------------------------------------------------------------------
(* Writing the row.                                                        *)

\* The ORM updates the row of the id it has loaded; if there is none any more,
\* the commit raises.
SetFlag(x, b) ==
  IF row # None /\ row.id = loaded[x].id THEN row' = [row EXCEPT !.stale = b]
                                         ELSE UNCHANGED row

\* Back to rest, with nothing remembered.
Rest(x) ==
  /\ Goto(x, "idle")
  /\ hand'   = [hand EXCEPT ![x] = None]
  /\ loaded' = [loaded EXCEPT ![x] = None]
  /\ crossed' = crossed \ {x} /\ outdone' = outdone \ {x} /\ refused' = refused \ {x}
  /\ blind' = blind \ {x}     /\ unsaved' = unsaved \ {x}

\* The tick when all accounts are done, a revalidation under the lock.  A column
\* is written only if its value differs from the one loaded; of two reasons the
\* texts may be the same.
Apply(r) ==
  /\ At(r, "apply")
  /\ \/ verdict[r] \in Reasons /\ SetFlag(r, TRUE)
     \/ verdict[r] = "clear" /\ loaded[r].stale /\ SetFlag(r, FALSE)
     \/ /\ verdict[r] = "keep" \/ loaded[r].stale = (verdict[r] \in Reasons)
        /\ UNCHANGED row
  /\ Rest(r)
  /\ verdict' = [verdict EXCEPT ![r] = "keep"]
  /\ lockOf' = [lockOf EXCEPT ![r] = None]
  /\ UNCHANGED <<entry, removal, faults>>

\* Credentials have come out of a login terminal: for a row that verify_relogin
\* has loaded, or, in verify_login, for whoever they are of.
SignIn(l) ==
  /\ At(l, "idle") /\ fams < MaxFam
  /\ fams' = fams + 1
  /\ live' = [live EXCEPT ![fams + 1] = 0]
  /\ hand' = [hand EXCEPT ![l] = [tok |-> [fam |-> fams + 1, gen |-> 0], label |-> TRUE]]
  /\ loaded' = [loaded EXCEPT ![l] = row] \/ UNCHANGED loaded
  /\ Goto(l, "write")
  /\ UNCHANGED <<vault, saved, row, verdict, lockOf, notes, removal, faults>>

\* verify_relogin ignores how the write ended.
CommitRelogin(l) ==
  /\ At(l, "commit") /\ loaded[l] # None
  /\ IF loaded[l].stale THEN SetFlag(l, FALSE) ELSE UNCHANGED row
  /\ Rest(l)
  /\ UNCHANGED <<entry, verdict, lockOf, removal, faults>>

\* verify_login does not, and adds the row if there is none; it leaves one that
\* there is as it is.
CommitLogin(l) ==
  /\ At(l, "commit") /\ loaded[l] = None
  /\ IF l \in unsaved \/ row # None
     THEN UNCHANGED <<row, lastId>>
     ELSE \E i \in {lastId, lastId + 1} \cap 0..MaxDeletes :
            /\ row' = [id |-> i, stale |-> FALSE]
            /\ lastId' = i
  /\ Rest(l)
  /\ UNCHANGED <<entry, verdict, lockOf, era, del, spared, faults>>

----------------------------------------------------------------------------
(* delete_account of an account that is not active.                        *)

Deleting(from, to) == del = from /\ del' = to

\* Only an active account's entry is wiped.
MutantWipe ==
  /\ Deleting("idle", "drop") /\ row # None /\ era < MaxDeletes /\ ~Writing
  /\ UNCHANGED <<entry, row, pc, work, notes, era, lastId, spared, faults>>

\* The row is loaded and the entry wiped: best effort, under the credential lock.
Wipe ==
  /\ Deleting("idle", "drop") /\ row # None /\ era < MaxDeletes /\ ~Writing
  /\ \/ vault' = None /\ Fine /\ UNCHANGED spared
     \/ vault # None /\ UNCHANGED vault /\ Fault /\ spared' = "failed"
  /\ Outdoes(None, Unsettled)
  /\ UNCHANGED <<live, fams, saved, row, pc, work, crossed, refused, blind, unsaved, era, lastId>>

DropRow ==
  /\ Deleting("drop", "forget")
  /\ row' = None
  /\ UNCHANGED <<entry, pc, work, notes, era, lastId, spared, faults>>

\* The table keeps the key, with nothing under it.
MutantForgetLock ==
  /\ Deleting("forget", "idle")
  /\ era' = None /\ spared' = "no"
  /\ UNCHANGED <<entry, row, pc, work, notes, lastId, faults>>

\* forget_refresh_lock: the next to ask gets a new one.
ForgetLock ==
  /\ Deleting("forget", "idle")
  /\ era' = era + 1 /\ spared' = "no"
  /\ UNCHANGED <<entry, row, pc, work, notes, lastId, faults>>

----------------------------------------------------------------------------
Crash ==
  /\ Fault
  /\ pc'      = [x \in Actors |-> "idle"]
  /\ hand'    = [x \in Actors |-> None]
  /\ loaded'  = [x \in Actors |-> None]
  /\ verdict' = [r \in Refreshers |-> "keep"]
  /\ lockOf'  = [r \in Refreshers |-> None]
  /\ crossed' = {} /\ outdone' = {} /\ refused' = {} /\ blind' = {} /\ unsaved' = {}
  /\ del' = "idle" /\ spared' = "no"
  /\ UNCHANGED <<entry, row, era, lastId>>

Init ==
  /\ \E b \in Blob : b.tok = [fam |-> 0, gen |-> 0] /\ b.label /\ vault = b
  /\ \E s \in BOOLEAN : row = [id |-> 0, stale |-> s]
  /\ live = [f \in 0..MaxFam |-> IF f = 0 THEN 0 ELSE None]
  /\ fams = 0 /\ saved = 0
  /\ pc      = [x \in Actors |-> "idle"]
  /\ hand    = [x \in Actors |-> None]
  /\ loaded  = [x \in Actors |-> None]
  /\ verdict = [r \in Refreshers |-> "keep"]
  /\ lockOf  = [r \in Refreshers |-> None]
  /\ crossed = {} /\ outdone = {} /\ refused = {} /\ blind = {} /\ unsaved = {}
  /\ era = 0 /\ del = "idle" /\ lastId = 0 /\ spared = "no"
  /\ faults = 0

Refresh(r) ==
  \/ Grab(r) \/ PostAccepted(r) \/ PostRejected(r) \/ PostFailed(r) \/ Apply(r)

Login(l) == SignIn(l) \/ CommitRelogin(l) \/ CommitLogin(l)

Next ==
  \/ TickStart \/ Fetch \/ Throttled
  \/ \E r \in Revalidators : Revalidate(r)
  \/ \E r \in Refreshers : Refresh(r)
  \/ \E x \in Actors : Delete(x) \/ Add(x)
  \/ \E l \in Logins : Login(l)
  \/ Wipe \/ DropRow \/ ForgetLock \/ Crash

Spec == Init /\ [][Next]_vars

----------------------------------------------------------------------------
(* Properties.                                                             *)

PCs == {"idle", "fetch", "wait", "post", "save", "add", "apply", "write", "commit"}

TypeOK ==
  /\ vault \in Blob \cup {None} /\ row \in Row \cup {None}
  /\ live \in [0..MaxFam -> 0..MaxGen \cup {None}]
  /\ fams \in 0..MaxFam /\ saved \in 0..MaxFam
  /\ pc \in [Actors -> PCs]
  /\ hand \in [Actors -> Blob \cup {None}]
  /\ loaded \in [Actors -> Row \cup {None}]
  /\ verdict \in [Refreshers -> Verdicts]
  /\ lockOf \in [Refreshers -> 0..MaxDeletes \cup {None}]
  /\ era \in 0..MaxDeletes /\ lastId \in 0..MaxDeletes
  /\ del \in {"idle", "drop", "forget"}
  /\ faults \in 0..MaxFaults
  /\ crossed \subseteq Actors /\ outdone \subseteq Actors /\ refused \subseteq {Tick}
  /\ blind \subseteq Refreshers /\ unsaved \subseteq Actors
  /\ spared \in {"no", "failed", "written"}

\* A token the server takes is in the entry, or about to be written to it.
Takes(b) == b # None /\ live[b.tok.fam] = b.tok.gen
Usable   == Takes(vault) \/ \E x \in Actors : pc[x] \in {"save", "add"} /\ Takes(hand[x])

Leaves(x, p) == At(x, p) /\ ~At(x, p)'

\* A login is not undone: when a refresh brings the entry back to the tokens of
\* an older login than those last written, its read is older than their write: the
\* tick's at any point, a revalidation's only if it was under the refresh lock by
\* then (background.py:425, account_service.py:622).  The write need not be the
\* login's own: a refresh holding a lock forgotten since may have made it.
LoginWins ==
  [][\A r \in Refreshers : Leaves(r, "add") /\ saved' < saved => r \in crossed]_vars

\* The entry of an account without a row is one that a login is about to add,
\* or has been written by somebody at work across the deletion, or one that could
\* not be deleted; and the oauthAccount, without which the account cannot be
\* activated, is lost only by a merge that found no entry
\* (routers/accounts.py:274, credential_provider.py:257).
Ghost == row = None /\ vault # None
EntryPoints ==
  [][/\ Ghost' /\ ~Ghost =>
          \/ \E x \in Actors : Leaves(x, "add")
          \/ del = "drop" /\ spared # "no"
     /\ \A r \in Refreshers : Leaves(r, "save") /\ At(r, "add")' /\ ~hand'[r].label =>
          vault = None \/ ~vault.label \/ faults' > faults]_vars

\* The flag of an account that needs a new login is not taken off, except by a
\* tick whose GET was answered anything but 401, which says nothing of the refresh
\* token; or by a refresh or a login whose write failed, or whose result others
\* have acted upon before it commits (background.py:526, :938).
Unflagged ==
  [][row # None /\ row' # None /\ row.stale /\ ~row'.stale /\ ~Usable' =>
       \/ Leaves(Tick, "apply") /\ Tick \notin refused
       \/ \E x \in Actors : /\ Leaves(x, "apply") \/ Leaves(x, "commit")
                            /\ x \in unsaved \cup outdone]_vars

\* The flag is not put on an account whose entry has a token the server takes,
\* except for what is not about the refresh token: a failure that may pass, or a
\* 401 for the access token just refreshed; for a lookup that timed out or fell
\* between the delete and the add of a rewrite; and for a verdict that a login or
\* another refresh has overtaken (background.py:398, :938).
Flagged ==
  [][row # None /\ row' # None /\ ~row.stale /\ row'.stale /\ Takes(vault') =>
       \E r \in Refreshers :
         /\ Leaves(r, "apply")
         /\ \/ verdict[r] \in {"failing", "later", "again"}
            \/ verdict[r] = "missing" /\ r \in blind
            \/ r \in crossed \cup outdone]_vars
=============================================================================
