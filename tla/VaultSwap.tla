----------------------------- MODULE VaultSwap -----------------------------
(***************************************************************************)
(* The credential store of CCSwitch and everything that moves credentials  *)
(* through it: the five-step account swap, account deletion, (re-)login    *)
(* and the integrity check run at startup, against a Claude Code CLI that  *)
(* rotates the active account's single-use refresh token on its own, a     *)
(* Keychain whose every call may fail, and crashes.                        *)
(*                                                                         *)
(* The Keychain is modelled one `security` subprocess per step, because    *)
(* an overwrite is a delete followed by an add.  The refresh lock that     *)
(* swap_to_account also takes excludes only refreshers, which this module  *)
(* does not have; here the credential lock alone orders the workers.       *)
(***************************************************************************)
EXTENDS Naturals, FiniteSets

CONSTANTS
  Accounts,   \* e-mail addresses
  Workers,    \* HTTP handlers / poll ticks, each with its executor thread
  None,       \* absent entry, absent field, no holder
  Standard,   \* the Keychain entry shared with the CLI
  MaxGen,     \* bound: refresh tokens the server mints per account, minus one
  Ops,        \* the operations a run exercises, a subset of OpKinds
  Faults,     \* the failures a run injects, a subset of FaultKinds
  CliRaces,   \* may the CLI rotate between a swap's checkpoint read and promotion?
  CliFlat     \* may the CLI rewrite its entry in the flat (un-nested) shape?

OpKinds    == {"switch", "delete", "login", "relogin", "revoke"}
FaultKinds == {"read",      \* a lookup times out and reads as "no entry"
               "delete",    \* a delete is refused and changes nothing
               "timeout",   \* a delete or add is killed, applied or not
               "add",       \* an add is refused
               "file",      \* an atomic JSON write raises
               "crash"}     \* the server process dies

ASSUME ConstantsOK ==
  /\ None \notin Accounts \cup Workers \cup OpKinds
  /\ Standard \notin Accounts \cup {None}
  /\ MaxGen \in Nat
  /\ Ops \subseteq OpKinds
  /\ Faults \subseteq FaultKinds
  /\ CliRaces \in BOOLEAN
  /\ CliFlat \in BOOLEAN

Token   == [own : Accounts, gen : 0..MaxGen]

\* A stored blob: oauthAccount.emailAddress, the refresh token, and whether
\* the token sits under "claudeAiOauth" or at top level.
Blob    == [acct : Accounts \cup {None}, tok : Token \cup {None}, nested : BOOLEAN]
Entries == Accounts \cup {Standard}

ASSUME BlobOK == None \notin Blob \cup Token

VARIABLES
  keychain,   \* [Entries -> Blob or None]: vault entries and the standard entry
  identity,   \* the e-mail in .claude.json: the active account
  fallback,   \* .credentials.json
  enrolled,   \* accounts with a database row
  valid,      \* tokens the server still accepts
  issued,     \* newest generation minted per account
  lock,       \* holder of _credential_lock
  pc, job,    \* per worker: control point; operation, accounts and fresh token
  incoming,   \* the lock holder's locals: blob loaded in step 1,
  seen,       \*   standard entry read in step 2,
  out,        \*   blob being written
  phase,      \* server lifecycle
  found       \* standard entry read by the startup check

locals  == <<incoming, seen, out>>
server  == <<valid, issued>>
startup == <<phase, found>>
store   == <<keychain, identity, fallback>>
vars    == <<store, enrolled, server, lock, pc, job, locals, startup>>

PCs == {"idle", "wait", "load", "ckRead", "ckDel", "ckAdd", "prDel", "prAdd",
        "ident", "file", "saveWait", "svDel", "svAdd", "saved",
        "eraseWait", "erVault", "erStd", "erIdent", "erFile", "dropRow"}
Phases == {"down", "seed", "reconcile", "mirror", "up"}

\* The control points at which a worker holds the credential lock.
Locked == PCs \ {"idle", "wait", "saveWait", "saved", "eraseWait", "dropRow"}

NoJob == [op |-> None, target |-> None, victim |-> None, fresh |-> None]
Jobs  == [op : OpKinds \cup {None}, target : Accounts \cup {None},
          victim : Accounts \cup {None}, fresh : Token \cup {None}]

FreshBlob(t) == [acct |-> t.own, tok |-> t, nested |-> TRUE]
EmailOf(b)   == IF b = None THEN None ELSE b.acct
At(w, p)     == phase = "up" /\ pc[w] = p
Goto(w, p)   == pc' = [pc EXCEPT ![w] = p]

----------------------------------------------------------------------------
(* The Keychain primitives: what one subprocess may leave and return.      *)

\* _find_password: every failure is reported as a missing entry.
Reads(e) == {b \in {keychain[e], None} : b = keychain[e] \/ "read" \in Faults}

\* The delete inside _add_password; its exit status is not looked at, only
\* a timeout makes the write return False.
DeleteOutcomes(e) ==
  {o \in [left : {None, keychain[e]}, ok : BOOLEAN] :
     IF o.ok THEN o.left = None \/ "delete" \in Faults ELSE "timeout" \in Faults}

\* The add: refused when an entry is still there.
AddOutcomes(e, b) ==
  {o \in [left : {None, keychain[e], b}, ok : BOOLEAN] :
     \/ keychain[e] # None /\ o.left = keychain[e] /\ ~o.ok
     \/ keychain[e] = None /\ o.left = b /\ (o.ok \/ "timeout" \in Faults)
     \/ keychain[e] = None /\ o.left = None /\ ~o.ok /\ Faults \cap {"add", "timeout"} # {}}

\* _delete_password: best effort, every failure swallowed.
EraseOutcomes(e) ==
  {l \in {None, keychain[e]} : l = None \/ Faults \cap {"delete", "timeout"} # {}}

----------------------------------------------------------------------------
(* Leaving the critical section.                                           *)

Release(w, p) ==
  /\ lock' = None
  /\ incoming' = None /\ seen' = None /\ out' = None
  /\ Goto(w, p)

\* The operation is over, by its return, a SwapError or an OSError, and the
\* `with` blocks release the locks.
End(w) ==
  /\ Release(w, "idle")
  /\ job' = [job EXCEPT ![w] = NoJob]

Begin(w, op, target, victim, fresh, p) ==
  /\ At(w, "idle")
  /\ op \in Ops
  /\ job' = [job EXCEPT ![w] = [op |-> op, target |-> target,
                                victim |-> victim, fresh |-> fresh]]
  /\ Goto(w, p)
  /\ UNCHANGED <<store, enrolled, lock, locals, startup>>

----------------------------------------------------------------------------
(* Requests.                                                               *)

\* manual_switch / auto-switch: the active account is compared before any
\* lock is taken and not compared again.
SwitchRequest(w, t) ==
  /\ t \in enrolled /\ t # identity
  /\ Begin(w, "switch", t, None, None, "wait")
  /\ UNCHANGED server

\* delete_account: swap away from an active victim if a replacement is found.
DeleteRequest(w, v) ==
  /\ v \in enrolled
  /\ \/ /\ v = identity
        /\ \E t \in enrolled \ {v} : Begin(w, "delete", t, v, None, "wait")
     \/ Begin(w, "delete", None, v, None, "eraseWait")
  /\ UNCHANGED server

\* verify_relogin without the comparison of the e-mail that logged in with the
\* slot's.
MutantLoginRequest(w, a) ==
  \E e \in Accounts :
    /\ issued[e] < MaxGen /\ a \in enrolled
    /\ LET t == [own |-> e, gen |-> issued[e] + 1] IN
         /\ Begin(w, "relogin", a, None, t, "saveWait")
         /\ valid'  = valid \cup {t}
         /\ issued' = [issued EXCEPT ![e] = t.gen]

\* verify_login / verify_relogin: the CLI has left freshly minted tokens in
\* the scratch entry.
LoginRequest(w, a) ==
  /\ issued[a] < MaxGen
  /\ LET t == [own |-> a, gen |-> issued[a] + 1] IN
       /\ \/ Begin(w, "login", a, None, t, "saveWait")
          \/ a \in enrolled /\ Begin(w, "relogin", a, None, t, "saveWait")
       /\ valid'  = valid \cup {t}
       /\ issued' = [issued EXCEPT ![a] = t.gen]

Acquire(w) ==
  /\ phase = "up" /\ lock = None
  /\ lock' = w
  /\ \/ pc[w] = "wait"      /\ Goto(w, "load")    /\ UNCHANGED out
     \/ pc[w] = "eraseWait" /\ Goto(w, "erVault") /\ UNCHANGED out
     \/ pc[w] = "saveWait"  /\ Goto(w, "svDel")   /\ out' = FreshBlob(job[w].fresh)
  /\ UNCHANGED <<store, enrolled, server, job, incoming, seen, startup>>

----------------------------------------------------------------------------
(* The swap, _swap_to_account_locked.                                      *)

\* Step 1: the vault entry of the target must carry a refresh token and an
\* oauthAccount.
LoadIncoming(w) ==
  /\ At(w, "load")
  /\ \E b \in Reads(job[w].target) :
       IF b # None /\ b.tok # None /\ b.acct # None
       THEN /\ incoming' = b
            /\ Goto(w, "ckRead")
            /\ UNCHANGED <<job, lock, seen, out>>
       ELSE End(w)
  /\ UNCHANGED <<store, enrolled, server, startup>>

\* _merge_checkpoint: a flat standard entry keeps the vault's old tokens.
Merge(cur, prev) ==
  [acct   |-> cur.acct,
   tok    |-> IF cur.nested THEN cur.tok ELSE IF prev = None THEN None ELSE prev.tok,
   nested |-> cur.nested \/ (prev # None /\ prev.nested)]

\* No checkpoint of the outgoing account.
MutantReadStandardNoCheckpoint(w) ==
  /\ At(w, "ckRead")
  /\ \E cur \in Reads(Standard) : seen' = cur /\ out' = incoming /\ Goto(w, "prDel")
  /\ UNCHANGED <<store, enrolled, server, job, lock, incoming, startup>>

\* The outgoing account named by the identity file instead of by the entry.
MutantReadStandardByIdentity(w) ==
  /\ At(w, "ckRead")
  /\ \E cur \in Reads(Standard) :
       /\ seen' = cur
       /\ IF cur # None /\ identity \notin {None, job[w].target}
          THEN /\ \E prev \in Reads(identity) :
                    out' = [Merge(cur, prev) EXCEPT !.acct = identity]
               /\ Goto(w, "ckDel")
          ELSE out' = incoming /\ Goto(w, "prDel")
  /\ UNCHANGED <<store, enrolled, server, job, lock, incoming, startup>>

\* Step 2: read the standard entry; checkpoint its owner unless the entry is
\* missing, unlabelled, or already the target's.
ReadStandard(w) ==
  /\ At(w, "ckRead")
  /\ \E cur \in Reads(Standard) :
       /\ seen' = cur
       /\ IF EmailOf(cur) \notin {None, job[w].target}
          THEN /\ \E prev \in Reads(cur.acct) : out' = Merge(cur, prev)
               /\ Goto(w, "ckDel")
          ELSE out' = incoming /\ Goto(w, "prDel")
  /\ UNCHANGED <<store, enrolled, server, job, lock, incoming, startup>>

\* _add_password: delete, then add.  `failed` is what the caller does on False.
WriteDelete(w, e, next, failed) ==
  \E o \in DeleteOutcomes(e) :
    /\ keychain' = [keychain EXCEPT ![e] = o.left]
    /\ IF o.ok THEN Goto(w, next) /\ UNCHANGED <<job, lock, locals>> ELSE failed

CheckpointDelete(w) ==
  /\ At(w, "ckDel")
  /\ WriteDelete(w, seen.acct, "ckAdd", End(w))
  /\ UNCHANGED <<identity, fallback, enrolled, server, startup>>

CheckpointAdd(w) ==
  /\ At(w, "ckAdd")
  /\ \E o \in AddOutcomes(seen.acct, out) :
       /\ keychain' = [keychain EXCEPT ![seen.acct] = o.left]
       /\ IF o.ok THEN /\ out' = incoming
                       /\ Goto(w, "prDel")
                       /\ UNCHANGED <<job, lock, incoming, seen>>
                  ELSE End(w)
  /\ UNCHANGED <<identity, fallback, enrolled, server, startup>>

\* Step 3: overwrite the standard entry.
PromoteDelete(w) ==
  /\ At(w, "prDel")
  /\ WriteDelete(w, Standard, "prAdd", End(w))
  /\ UNCHANGED <<identity, fallback, enrolled, server, startup>>

\* The result of write_standard ignored.
MutantPromoteAdd(w) ==
  /\ At(w, "prAdd")
  /\ \E o \in AddOutcomes(Standard, out) :
       keychain' = [keychain EXCEPT ![Standard] = o.left]
  /\ Goto(w, "ident")
  /\ UNCHANGED <<identity, fallback, enrolled, server, job, lock, locals, startup>>

PromoteAdd(w) ==
  /\ At(w, "prAdd")
  /\ \E o \in AddOutcomes(Standard, out) :
       /\ keychain' = [keychain EXCEPT ![Standard] = o.left]
       /\ IF o.ok THEN Goto(w, "ident") /\ UNCHANGED <<job, lock, locals>>
                  ELSE End(w)
  /\ UNCHANGED <<identity, fallback, enrolled, server, startup>>

\* The whole blob written where its e-mail belongs.
MutantRewriteIdentity(w) ==
  /\ At(w, "ident")
  /\ identity' = incoming
  /\ Goto(w, "file")
  /\ UNCHANGED <<keychain, fallback, enrolled, server, job, lock, locals, startup>>

\* Step 4: an OSError leaves the swap half-committed.
RewriteIdentity(w) ==
  /\ At(w, "ident")
  /\ \/ /\ identity' = incoming.acct
        /\ Goto(w, "file")
        /\ UNCHANGED <<job, lock, locals>>
     \/ "file" \in Faults /\ End(w) /\ UNCHANGED identity
  /\ UNCHANGED <<keychain, fallback, enrolled, server, startup>>

\* Step 5, and the return: a delete goes on to wipe its victim.
WriteFallback(w) ==
  /\ At(w, "file")
  /\ \/ /\ fallback' = incoming
        /\ IF job[w].op = "delete" THEN Release(w, "eraseWait") /\ UNCHANGED job
                                   ELSE End(w)
     \/ "file" \in Faults /\ End(w) /\ UNCHANGED fallback
  /\ UNCHANGED <<keychain, identity, enrolled, server, startup>>

----------------------------------------------------------------------------
(* Login and re-login: save_new_vault_account and what follows it.         *)

\* verify_login answers 500 when the write fails; verify_relogin goes on.
SaveFailed(w) ==
  IF job[w].op = "relogin" THEN Release(w, "saved") /\ UNCHANGED job ELSE End(w)

SaveDelete(w) ==
  /\ At(w, "svDel")
  /\ WriteDelete(w, job[w].target, "svAdd", SaveFailed(w))
  /\ UNCHANGED <<identity, fallback, enrolled, server, startup>>

SaveAdd(w) ==
  /\ At(w, "svAdd")
  /\ \E o \in AddOutcomes(job[w].target, out) :
       /\ keychain' = [keychain EXCEPT ![job[w].target] = o.left]
       /\ IF o.ok THEN Release(w, "saved") /\ UNCHANGED job ELSE SaveFailed(w)
  /\ UNCHANGED <<identity, fallback, enrolled, server, startup>>

\* A first account is activated; a re-login of the active account swaps it
\* onto itself so that the standard entry gets the fresh tokens.
AfterSave(w) ==
  LET a    == job[w].target
      swap == IF job[w].op = "relogin" THEN identity = a
              ELSE a \notin enrolled /\ enrolled \cup {a} = {a}
  IN /\ At(w, "saved")
     /\ enrolled' = IF job[w].op = "login" THEN enrolled \cup {a} ELSE enrolled
     /\ IF swap THEN Goto(w, "wait") /\ UNCHANGED job
                ELSE Goto(w, "idle") /\ job' = [job EXCEPT ![w] = NoJob]
     /\ UNCHANGED <<store, server, lock, locals, startup>>

----------------------------------------------------------------------------
(* delete_account_everywhere, then the row.                                *)

\* The standard entry never wiped.
MutantEraseVault(w) ==
  /\ At(w, "erVault")
  /\ \E l \in EraseOutcomes(job[w].victim) :
       keychain' = [keychain EXCEPT ![job[w].victim] = l]
  /\ Release(w, "dropRow")
  /\ UNCHANGED <<identity, fallback, enrolled, server, job, startup>>

EraseVault(w) ==
  LET v == job[w].victim IN
  /\ At(w, "erVault")
  /\ \E l \in EraseOutcomes(v) : keychain' = [keychain EXCEPT ![v] = l]
  /\ IF identity = v THEN Goto(w, "erStd") /\ UNCHANGED <<lock, locals>>
                     ELSE Release(w, "dropRow")
  /\ UNCHANGED <<identity, fallback, enrolled, server, job, startup>>

EraseStandard(w) ==
  /\ At(w, "erStd")
  /\ \E l \in EraseOutcomes(Standard) : keychain' = [keychain EXCEPT ![Standard] = l]
  /\ Goto(w, "erIdent")
  /\ UNCHANGED <<identity, fallback, enrolled, server, job, lock, locals, startup>>

EraseIdentity(w) ==
  /\ At(w, "erIdent")
  /\ identity' = None \/ ("file" \in Faults /\ UNCHANGED identity)
  /\ Goto(w, "erFile")
  /\ UNCHANGED <<keychain, fallback, enrolled, server, job, lock, locals, startup>>

EraseFallback(w) ==
  /\ At(w, "erFile")
  /\ fallback' = None \/ ("file" \in Faults /\ UNCHANGED fallback)
  /\ Release(w, "dropRow")
  /\ UNCHANGED <<keychain, identity, enrolled, server, job, startup>>

DropRow(w) ==
  /\ At(w, "dropRow")
  /\ enrolled' = enrolled \ {job[w].victim}
  /\ Goto(w, "idle")
  /\ job' = [job EXCEPT ![w] = NoJob]
  /\ UNCHANGED <<store, server, lock, locals, startup>>

----------------------------------------------------------------------------
(* The CLI and the server.                                                 *)

\* A swap has read the standard entry and not yet overwritten it.
InWindow == phase = "up" /\ \E w \in Workers : pc[w] \in {"ckDel", "ckAdd", "prDel"}

CliRotate ==
  /\ keychain[Standard] # None
  /\ LET b == keychain[Standard] IN
       /\ b.tok \in valid
       /\ issued[b.tok.own] < MaxGen
       /\ CliRaces \/ ~InWindow
       /\ LET t == [own |-> b.tok.own, gen |-> issued[b.tok.own] + 1] IN
            /\ valid'  = (valid \ {b.tok}) \cup {t}
            /\ issued' = [issued EXCEPT ![t.own] = t.gen]
            /\ \E n \in IF CliFlat THEN BOOLEAN ELSE {TRUE} :
                 keychain' = [keychain EXCEPT ![Standard] =
                                [acct |-> b.acct, tok |-> t, nested |-> n]]
  /\ UNCHANGED <<identity, fallback, enrolled, lock, pc, job, locals, startup>>

\* The server revokes an account's tokens: the reason a user re-logs in.
Revoke(a) ==
  /\ "revoke" \in Ops
  /\ \E t \in valid : t.own = a
  /\ valid' = {t \in valid : t.own # a}
  /\ UNCHANGED <<store, enrolled, issued, lock, pc, job, locals, startup>>

----------------------------------------------------------------------------
(* Crash, restart and startup_integrity_check.                             *)

Crash ==
  /\ "crash" \in Faults /\ phase # "down"
  /\ phase' = "down" /\ found' = None
  /\ pc'  = [w \in Workers |-> "idle"]
  /\ job' = [w \in Workers |-> NoJob]
  /\ lock' = None /\ incoming' = None /\ seen' = None /\ out' = None
  /\ UNCHANGED <<store, enrolled, server>>

\* No integrity check.
MutantStartupRead ==
  /\ phase = "down"
  /\ phase' = "up"
  /\ UNCHANGED <<store, enrolled, server, lock, pc, job, locals, found>>

StartupRead ==
  /\ phase = "down"
  /\ \E b \in Reads(Standard) :
       LET e == EmailOf(b) IN
       \/ /\ e \in {None, identity}
          /\ phase' = "up" /\ UNCHANGED found
       \/ /\ e # None /\ identity = None
          /\ phase' = "seed" /\ found' = b
       \/ /\ e # None /\ identity \notin {None, e}
          /\ phase' = "reconcile" /\ found' = b
  /\ UNCHANGED <<store, enrolled, server, lock, pc, job, locals>>

Started == phase' = "up" /\ found' = None

StartupIdentity ==
  /\ phase \in {"seed", "reconcile"}
  /\ \/ /\ identity' = found.acct
        /\ IF phase = "seed" THEN Started ELSE phase' = "mirror" /\ UNCHANGED found
     \/ "file" \in Faults /\ Started /\ UNCHANGED identity
  /\ UNCHANGED <<keychain, fallback, enrolled, server, lock, pc, job, locals>>

StartupMirror ==
  /\ phase = "mirror"
  /\ fallback' = found \/ ("file" \in Faults /\ UNCHANGED fallback)
  /\ Started
  /\ UNCHANGED <<keychain, identity, enrolled, server, lock, pc, job, locals>>

----------------------------------------------------------------------------
(* The specification.                                                      *)

\* An installation at rest: either every enrolled account is in the vault and
\* one of them may be active (possibly rotated by the CLI since its promotion
\* is left to CliRotate), or the user ran `claude login` before the first
\* enrolment and the standard entry carries no oauthAccount.
Init ==
  /\ issued = [a \in Accounts |-> 0]
  /\ valid  = {FreshBlob([own |-> a, gen |-> 0]).tok : a \in Accounts}
  /\ \/ /\ enrolled = Accounts
        /\ identity \in Accounts \cup {None}
        /\ keychain = [e \in Entries |->
             IF e # Standard THEN FreshBlob([own |-> e, gen |-> 0])
             ELSE IF identity = None THEN None
             ELSE FreshBlob([own |-> identity, gen |-> 0])]
     \/ /\ "login" \in Ops
        /\ enrolled = {}
        /\ identity \in Accounts
        /\ keychain = [e \in Entries |->
             IF e = Standard THEN [acct |-> None, nested |-> TRUE,
                                   tok |-> [own |-> identity, gen |-> 0]]
             ELSE None]
  /\ fallback = keychain[Standard]
  /\ lock = None
  /\ pc   = [w \in Workers |-> "idle"]
  /\ job  = [w \in Workers |-> NoJob]
  /\ incoming = None /\ seen = None /\ out = None
  /\ phase = "up" /\ found = None

Request(w) ==
  \/ \E t \in Accounts : SwitchRequest(w, t) \/ DeleteRequest(w, t) \/ LoginRequest(w, t)

\* What an accepted request goes on to do without anyone asking again.
Step(w) ==
  \/ Acquire(w)
  \/ LoadIncoming(w)  \/ ReadStandard(w)  \/ CheckpointDelete(w) \/ CheckpointAdd(w)
  \/ PromoteDelete(w) \/ PromoteAdd(w)    \/ RewriteIdentity(w)  \/ WriteFallback(w)
  \/ SaveDelete(w)    \/ SaveAdd(w)       \/ AfterSave(w)
  \/ EraseVault(w)    \/ EraseStandard(w) \/ EraseIdentity(w)    \/ EraseFallback(w)
  \/ DropRow(w)

Startup == StartupRead \/ StartupIdentity \/ StartupMirror

Next ==
  \/ \E w \in Workers : Request(w) \/ Step(w)
  \/ CliRotate
  \/ \E a \in Accounts : Revoke(a)
  \/ Crash
  \/ Startup

Spec == Init /\ [][Next]_vars

----------------------------------------------------------------------------
(* Properties.                                                             *)

TypeOK ==
  /\ keychain \in [Entries -> Blob \cup {None}]
  /\ identity \in Accounts \cup {None}
  /\ fallback \in Blob \cup {None}
  /\ enrolled \subseteq Accounts
  /\ valid \subseteq Token
  /\ issued \in [Accounts -> 0..MaxGen]
  /\ lock \in Workers \cup {None}
  /\ pc \in [Workers -> PCs]
  /\ job \in [Workers -> Jobs]
  /\ incoming \in Blob \cup {None}
  /\ seen \in Blob \cup {None}
  /\ out \in Blob \cup {None}
  /\ phase \in Phases
  /\ found \in Blob \cup {None}

\* A blob labelled with an account carries that account's token.
Pure(b) == b # None => (b.acct # None /\ b.tok # None => b.tok.own = b.acct)

\* Credentials never cross accounts: a vault entry is labelled with the e-mail
\* it is filed under, and no entry, nor the fallback file, pairs one account's
\* identity with another's token - whatever fails, crashes or interleaves
\* (credential_provider.py:53-56, swap steps 2-5).
NoCrossedCredentials ==
  /\ \A a \in Accounts : keychain[a] # None => keychain[a].acct = a
  /\ \A e \in Entries : Pure(keychain[e])
  /\ Pure(fallback)

\* The identity file only ever comes to name the account whose credentials are
\* in the standard entry at that moment (step 4 after step 3, startup repair),
\* or nobody.
IdentityFollowsStandard ==
  [][identity' # identity => identity' \in {None, EmailOf(keychain[Standard])}]_vars

\* Some Keychain entry the application would use still holds a token of `a`
\* the server accepts.
Held(a) == \E e \in {Standard, a} :
             /\ keychain[e] # None
             /\ keychain[e].tok \in valid /\ keychain[e].tok.own = a

\* The steps at which an account's last accepted token may be overwritten.
LossPoint(w, a) ==
  \/ pc[w] = "erVault" /\ job[w].victim = a           \* the user deleted it
  \/ pc[w] = "erStd"   /\ (job[w].victim = a \/ EmailOf(keychain[Standard]) # identity)
  \/ pc[w] = "svDel"   /\ job[w].target = a           \* replaced by a fresh login
  \/ pc[w] = "ckDel"   /\ seen.acct = a /\ keychain[Standard].tok \notin valid
  \/ pc[w] = "prDel"   /\ \/ seen # keychain[Standard] \* stale or failed read
                          \/ EmailOf(seen) \in {None, job[w].target}
                          \/ ~seen.nested

\* The swap never overwrites an account's last usable token, except where step
\* 2 could not have known it: the read failed or went stale, the entry was
\* unlabelled, flat, dead, or the target's own.  Everywhere else the checkpoint
\* is in the vault before the standard entry is touched, whichever call of it
\* failed (account_service.py:233-235).
TokenLossPoints ==
  [][\A a \in Accounts : Held(a) /\ ~Held(a)' =>
       \/ valid' = {t \in valid : t.own # a}
       \/ \E w \in Workers : LossPoint(w, a)]_vars

\* An account that has an accepted token and a row, and is not being logged in
\* or deleted, has such a token in the Keychain: it never needs a re-login
\* because of what CCSwitch did.
Busy(a) == \E w \in Workers :
  \/ job[w].target = a /\ pc[w] \in {"saveWait", "svDel", "svAdd"}
  \/ job[w].victim = a
NoTokenLost ==
  \A a \in enrolled : (\E t \in valid : t.own = a) /\ ~Busy(a) => Held(a)

AtRest == phase = "up" /\ lock = None

\* With no swap under way the identity file and a labelled standard entry name
\* the same account: a crash anywhere inside a swap is repaired before the
\* server serves again (startup_integrity_check).
CrashConsistent ==
  AtRest => EmailOf(keychain[Standard]) \in {None, identity}

\* The CLI's own login, which no enrolment has labelled yet.
CliOnly == keychain[Standard] # None /\ keychain[Standard].acct = None

\* Once its row is gone nothing of a deleted account is left where the CLI or
\* a later swap would pick it up: no vault entry, no standard entry, no
\* identity - even though the swap away from an active victim has just
\* checkpointed it into the vault (delete_account's comment on that ghost).
EraseComplete ==
  AtRest => \A a \in Accounts \ enrolled :
    /\ keychain[a] = None
    /\ a # EmailOf(keychain[Standard])
    /\ a = identity => CliOnly
=============================================================================
