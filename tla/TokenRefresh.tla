--------------------------- MODULE TokenRefresh ---------------------------
(***************************************************************************)
(* The single-use refresh token of one account and everyone who may spend  *)
(* it: the poll loop's reactive refresh, on-demand revalidation, and the   *)
(* Claude Code CLI while the account is active.  The server rotates the    *)
(* token at every use and revokes the whole family when a used one comes   *)
(* back.  Refreshers of one account are ordered by its refresh lock;       *)
(* accounts do not share tokens or locks, so one account is modelled.      *)
(*                                                                         *)
(* A swap is one step here: VaultSwap has its inside.  It takes the        *)
(* refresh lock of the account it activates, not of the one it leaves.     *)
(***************************************************************************)
EXTENDS Naturals

CONSTANTS
  Pollers,       \* ticks of the poll loop (one, the loop awaits each tick)
  Revalidators,  \* concurrent POST /revalidate handlers
  None,          \* nothing stored, no holder, no stale_reason
  MaxGen,        \* bound: tokens the server mints after the first
  EscalateAfter, \* _TRANSIENT_REFRESH_ESCALATE_AFTER
  Switching,     \* do swaps activate and leave the account?
  Faults         \* the failures a run injects, a subset of FaultKinds

FaultKinds == {"read",       \* a Keychain lookup times out, reads as "no entry"
               "write",      \* a Keychain write fails, before or after its delete
               "transient",  \* the refresh endpoint answers 429, 5xx, a bare 400
               "lost",       \* it rotates but the answer never arrives
               "crash"}      \* the server process dies

Refreshers == Pollers \cup Revalidators

ASSUME TokenConstantsOK ==
  /\ Pollers \cap Revalidators = {}
  /\ None \notin Refreshers \cup Nat \cup {"retry", "relogin"}
  /\ MaxGen \in Nat
  /\ EscalateAfter \in Nat \ {0}
  /\ Switching \in BOOLEAN
  /\ Faults \subseteq FaultKinds

Gen   == 0..MaxGen
\* A vault blob: its refresh token, and whether it carries an oauthAccount.
Blob  == [tok : Gen, label : BOOLEAN]
Stale == {None, "retry", "relogin"}

ASSUME TokenBlobOK == None \notin Blob

VARIABLES
  vault,   \* the account's vault entry, or None
  std,     \* its token in the standard entry, or None
  active,  \* does .claude.json name it?
  live,    \* the token the server accepts; None once the family is revoked
  issued,  \* newest generation minted
  flock,   \* holder of the account's refresh lock
  fails,   \* _refresh_backoff_count
  stale,   \* the stale_reason column
  pc, tok, \* per refresher: control point, and the token it will present or save
  row,     \* per refresher: the stale_reason it read with the account's row
  verdict, \* the stale_reason the tick will write back
  crossed  \* history: refreshers at work when a swap activated the account

entries == <<vault, std, active>>
server  == <<live, issued>>
mine    == <<row, verdict, crossed>>
vars    == <<entries, server, flock, fails, stale, pc, tok, mine>>

At(r, p)   == pc[r] = p
Goto(r, p) == pc' = [pc EXCEPT ![r] = p]
Reads(e)   == {b \in {e, None} : b = e \/ "read" \in Faults}

----------------------------------------------------------------------------
(* _process_vault_account, before the lock.                                *)

\* The tick looks who is active, loads the rows and dispatches.
TickStart(p) ==
  /\ At(p, "idle")
  /\ row' = [row EXCEPT ![p] = stale]
  /\ Goto(p, IF active THEN "probe" ELSE "fetch")
  /\ UNCHANGED <<entries, server, flock, fails, stale, tok, verdict, crossed>>

Conclude(p, v) ==
  /\ verdict' = [verdict EXCEPT ![p] = v]
  /\ Goto(p, "apply")

\* _process_active_account never refreshes: a 401 keeps the reason, an
\* unreadable entry sets one, anything else clears it.
Probe(p) ==
  /\ At(p, "probe")
  /\ \E v \in Stale : /\ v \in {None, row[p]} \/ (v = "relogin" /\ "read" \in Faults)
                    /\ Conclude(p, v)
  /\ UNCHANGED <<entries, server, flock, fails, stale, tok, row, crossed>>

\* Read the vault and call fetch_usage.  None comes back of a success, and of
\* any error but 401; on 401 a stale account keeps its reason (as a throttled
\* one does), one in backoff is left alone, any other goes on to refresh the
\* token it has just read.
Fetch(p) ==
  /\ At(p, "fetch")
  /\ \E b \in Reads(vault) :
       \/ b = None /\ Conclude(p, "relogin") /\ UNCHANGED tok
       \/ b # None /\ Conclude(p, None) /\ UNCHANGED tok
       \/ b # None /\ row[p] # None /\ Conclude(p, row[p]) /\ UNCHANGED tok
       \/ /\ b # None /\ row[p] = None
          /\ tok' = [tok EXCEPT ![p] = b.tok]
          /\ Goto(p, "wait")
          /\ UNCHANGED verdict
  /\ UNCHANGED <<entries, server, flock, fails, stale, row, crossed>>

\* After the lock is released: fetch_usage again with the new access token.
Refetch(p) ==
  /\ At(p, "refetch")
  /\ \E v \in {None, "relogin"} : Conclude(p, v)
  /\ UNCHANGED <<entries, server, flock, fails, stale, tok, row, crossed>>

\* The ORM writes a column over whatever is in the row by now, unless the value
\* equals the one it has read.
Commit(r, reason) == stale' = IF reason # row[r] THEN reason ELSE stale

\* The handler's or the tick's session is closed.
Forget(r) ==
  /\ row' = [row EXCEPT ![r] = None]
  /\ crossed' = crossed \ {r}
  /\ Goto(r, "idle")

\* poll_usage_and_switch, after gather.
Apply(p) ==
  /\ At(p, "apply")
  /\ Commit(p, verdict[p])
  /\ Forget(p)
  /\ verdict' = [verdict EXCEPT ![p] = None]
  /\ UNCHANGED <<entries, server, flock, fails, tok>>

----------------------------------------------------------------------------
(* revalidate_account, before the refresh.                                 *)

\* Load the row, refuse the active account, then queue for the lock.
Revalidate(r) ==
  /\ At(r, "idle") /\ ~active
  /\ row' = [row EXCEPT ![r] = stale]
  /\ Goto(r, "wait")
  /\ UNCHANGED <<entries, server, flock, fails, stale, tok, verdict, crossed>>

\* A lock that does not exclude across threads.
MutantAcquire(r) ==
  /\ At(r, "wait")
  /\ flock' = r
  /\ Goto(r, IF r \in Pollers THEN "post" ELSE "read")
  /\ UNCHANGED <<entries, server, fails, stale, tok, mine>>

Acquire(r) ==
  /\ At(r, "wait") /\ flock = None
  /\ flock' = r
  /\ Goto(r, IF r \in Pollers THEN "post" ELSE "read")
  /\ UNCHANGED <<entries, server, fails, stale, tok, mine>>

\* The end of a refresh: the lock is released; a revalidation commits its
\* outcome at once, a tick when all accounts are done.
Release(r, p, reason) ==
  /\ flock' = None
  /\ tok' = [tok EXCEPT ![r] = None]
  /\ IF r \in Pollers
     THEN verdict' = [verdict EXCEPT ![r] = reason] /\ Goto(r, p) /\ UNCHANGED <<stale, row, crossed>>
     ELSE Commit(r, reason) /\ Forget(r) /\ UNCHANGED verdict

Read(r) ==
  /\ At(r, "read")
  /\ \E b \in Reads(vault) :
       IF b = None THEN Release(r, "apply", "relogin")
       ELSE /\ tok' = [tok EXCEPT ![r] = b.tok]
            /\ Goto(r, "post")
            /\ UNCHANGED <<flock, stale, mine>>
  /\ UNCHANGED <<entries, server, fails>>

----------------------------------------------------------------------------
(* _refresh_vault_token, under the lock.                                   *)

Mint ==
  /\ issued < MaxGen
  /\ issued' = issued + 1
  /\ live' = issued + 1

PostAccepted(r) ==
  /\ At(r, "post") /\ tok[r] = live
  /\ Mint
  /\ tok' = [tok EXCEPT ![r] = issued + 1]
  /\ Goto(r, "save")
  /\ UNCHANGED <<entries, flock, fails, stale, mine>>

\* A terminal OAuth error; the server takes a used token for a stolen one.
PostRejected(r) ==
  /\ At(r, "post") /\ tok[r] # live
  /\ live' = None
  /\ fails' = 0
  /\ Release(r, "apply", "relogin")
  /\ UNCHANGED <<entries, issued>>

\* Escalation one failure late.
MutantTransient(r) ==
  IF fails + 1 > EscalateAfter
  THEN fails' = 0 /\ Release(r, "apply", "relogin")
  ELSE fails' = fails + 1 /\ Release(r, "apply", IF r \in Pollers THEN None ELSE "retry")

\* _record_transient_refresh_failure: raise until the count escalates.
Transient(r) ==
  IF fails + 1 >= EscalateAfter
  THEN fails' = 0 /\ Release(r, "apply", "relogin")
  ELSE fails' = fails + 1 /\ Release(r, "apply", IF r \in Pollers THEN None ELSE "retry")

PostFailed(r) ==
  /\ At(r, "post")
  /\ \/ "transient" \in Faults /\ UNCHANGED server
     \/ "lost" \in Faults /\ tok[r] = live /\ Mint
  /\ Transient(r)
  /\ UNCHANGED entries

\* Blobs that carry an oauthAccount.
Labelled == {b \in Blob : b.label}

\* save_refreshed_vault_token: merge the new token into what is read, and
\* ignore how the write ended.
Save(r) ==
  /\ At(r, "save")
  /\ \E cur \in Reads(vault) :
       LET new == [tok |-> tok[r], label |-> cur \in Labelled] IN
       \/ vault' = new
       \/ "write" \in Faults /\ vault' \in {vault, None}
  /\ fails' = 0
  /\ Release(r, "refetch", None)
  /\ UNCHANGED <<std, active, server>>

----------------------------------------------------------------------------
(* Swaps, the CLI, crashes.                                                *)

Activate ==
  /\ Switching /\ ~active /\ flock = None
  /\ vault # None /\ vault.label
  /\ std' = vault.tok
  /\ active' = TRUE
  /\ crossed' = crossed \cup {r \in Refreshers : ~At(r, "idle")}
  /\ UNCHANGED <<vault, server, flock, fails, stale, pc, tok, row, verdict>>

\* The standard entry overwritten without a checkpoint.
MutantDeactivate ==
  /\ Switching /\ active
  /\ std' = None
  /\ active' = FALSE
  /\ UNCHANGED <<vault, server, flock, fails, stale, pc, tok, mine>>

Deactivate ==
  /\ Switching /\ active
  /\ vault' = [tok |-> std, label |-> TRUE]
  /\ std' = None
  /\ active' = FALSE
  /\ UNCHANGED <<server, flock, fails, stale, pc, tok, mine>>

CliRotate ==
  /\ std # None /\ live # None
  /\ IF std = live THEN Mint /\ std' = issued + 1
                   ELSE live' = None /\ UNCHANGED <<issued, std>>
  /\ UNCHANGED <<vault, active, flock, fails, stale, pc, tok, mine>>

Crash ==
  /\ "crash" \in Faults
  /\ \E r \in Refreshers : ~At(r, "idle")
  /\ flock' = None /\ fails' = 0
  /\ pc'  = [r \in Refreshers |-> "idle"]
  /\ tok' = [r \in Refreshers |-> None]
  /\ row' = [r \in Refreshers |-> None]
  /\ verdict' = [p \in Pollers |-> None]
  /\ crossed' = {}
  /\ UNCHANGED <<entries, server, stale>>

----------------------------------------------------------------------------
Init ==
  /\ vault = [tok |-> 0, label |-> TRUE]
  /\ std = None /\ active = FALSE
  /\ live = 0 /\ issued = 0
  /\ flock = None /\ fails = 0 /\ stale \in {None, "retry"}
  /\ pc  = [r \in Refreshers |-> "idle"]
  /\ tok = [r \in Refreshers |-> None]
  /\ row = [r \in Refreshers |-> None]
  /\ verdict = [p \in Pollers |-> None]
  /\ crossed = {}

Refresh(r) ==
  \/ Acquire(r) \/ PostAccepted(r) \/ PostRejected(r) \/ PostFailed(r) \/ Save(r)

Poll(p) == Probe(p) \/ Fetch(p) \/ Refetch(p) \/ Apply(p)

Next ==
  \/ \E r \in Refreshers : Refresh(r)
  \/ \E p \in Pollers : TickStart(p) \/ Poll(p)
  \/ \E r \in Revalidators : Revalidate(r) \/ Read(r)
  \/ Activate \/ Deactivate \/ CliRotate \/ Crash

Spec == Init /\ [][Next]_vars

----------------------------------------------------------------------------
(* Properties.                                                             *)

PCs == {"idle", "probe", "fetch", "wait", "read", "post", "save", "refetch", "apply"}

TypeOK ==
  /\ vault \in Blob \cup {None}
  /\ std \in Gen \cup {None}
  /\ active \in BOOLEAN
  /\ live \in Gen \cup {None}
  /\ issued \in Gen
  /\ flock \in Refreshers \cup {None}
  /\ fails \in 0..EscalateAfter - 1
  /\ stale \in Stale
  /\ pc \in [Refreshers -> PCs]
  /\ tok \in [Refreshers -> Gen \cup {None}]
  /\ row \in [Refreshers -> Stale]
  /\ verdict \in [Pollers -> Stale]
  /\ crossed \subseteq Refreshers

\* Nobody makes the server revoke the token family: the lock and the read
\* under it keep refreshers from presenting a used token
\* (account_service.py:470-475).
FamilyAlive == live # None

\* In an entry, or in the hands of the refresher about to save it.
Held == \/ vault # None /\ vault.tok = live
        \/ std = live
        \/ \E r \in Refreshers : At(r, "save") /\ tok[r] = live

\* The only steps that lose an accepted token: a save whose write fails, an
\* answer that never arrives, a crash before the save, and a checkpoint of a
\* standard entry whose token a refresher has spent behind the CLI's back.
\* Reads that time out, rejected and transient refreshes, the CLI's own
\* rotations, ticks and revalidations in any order never do.
LossPoints ==
  [][Held /\ ~Held' /\ live' # None =>
       \/ \E r \in Refreshers : At(r, "save") /\ vault' \in {vault, None}
       \/ \E r \in Refreshers : At(r, "post") /\ Mint
       \/ Crash
       \/ active /\ ~active' /\ std # live]_vars

\* Nobody but these presents a used token, whatever else fails: a tick, which
\* read its token before it had the lock; a revalidation that a swap to the
\* account has overtaken; the CLI, after one of those has spent the token it
\* holds; and anybody, when an earlier loss has left a used token in the entry
\* (account_service.py:470-475, :622).
RevocationPoints ==
  [][FamilyAlive /\ ~FamilyAlive' =>
       \/ ~Held
       \/ \E p \in Pollers : At(p, "post") /\ tok[p] # live
       \/ \E r \in crossed : At(r, "post") /\ tok[r] # live
       \/ std \notin {None, live}]_vars
=============================================================================
