# CCSwitch in TLA+

CCSwitch keeps several Claude accounts on one machine and decides which of them
the Claude Code CLI uses.  One account is *active*: its OAuth tokens are in the
Keychain entry the CLI reads (the **standard entry**) and its e-mail is in
`~/.claude.json` (the **identity file**).  The others wait in a **vault**, one
Keychain entry each.  A FastAPI server polls every account's usage, refreshes
vault tokens, switches accounts when the active one is used up, and shows all of
it on a dashboard over a WebSocket.

What makes it hard: refresh tokens are single-use and the server revokes a whole
family when a used one comes back; the CLI rotates the active account's token on
its own; a Keychain write is two subprocesses, either of which may fail, hang or
be cut off by a crash; asyncio tasks and executor threads take the same locks;
and the page must not lose an event over a reconnection.

The modules here translate `src/`, one per component, with the TLC runs and the
TLAPS proofs about them.  Line numbers refer to `src/backend/` unless a path is given.

## Contents

| file | what it is |
|---|---|
| `VaultSwap.tla`, `MCVaultSwap.tla`, `VaultSwap_proofs.tla` | the credential store: swap, deletion, login, startup check |
| `TokenRefresh.tla`, `MCTokenRefresh.tla`, `TokenRefresh_proofs.tla` | the single-use token chain of one account |
| `AccountLifecycle.tla`, `MCAccountLifecycle.tla`, `AccountLifecycle_proofs.tla` | one account's entry and row under refresh, login and deletion |
| `Migration.tla` | abstract specification: what the migration to the vault promises |
| `VaultMigration.tla`, `MCVaultMigration.tla`, `VaultMigration_proofs.tla` | the migration, call by call, and that it implements the above |
| `RefreshLock.tla`, `MCRefreshLock.tla`, `RefreshLock_proofs.tla` | the refresh lock under cancellation, deadlines and deletion |
| `AutoSwitch.tla`, `MCAutoSwitch.tla`, `AutoSwitch_proofs.tla` | who is active, and who decides it |
| `TransientLadder.tla`, `MCTransientLadder.tla` | back-off and escalation of failing refreshes (proofs: `TokenRefresh_proofs`) |
| `WsReplay.tla`, `MCWsReplay.tla`, `WsReplay_proofs.tla` | the event stream and its client |
| `LoginSessions.tla`, `MCLoginSessions.tla`, `LoginSessions_proofs.tla` | login terminals, their scratch directories and Keychain entries |
| `*.cfg` | one per run |
| `PROJECT.json` | components, runs, mutants, source map, findings, hazards, theorems |

A definition called `Mutant...` is a plausible bug in the definition below it and
not part of any specification: replacing the one by the other must make TLC
violate the property `PROJECT.json` names.

## Inventory

**Credential store** (`services/credential_provider.py`, `services/account_service.py`).
State: vault and standard Keychain entries, identity file, the
`.credentials.json` fallback, `_credential_lock` (one for all).  Operations: find, add
(delete + add), delete; atomic JSON writes.  Every failed lookup reads as
"no entry", and of the delete inside an overwrite only a timeout is noticed.
Correct when no entry pairs one account's identity with another's token and when the
last token the server accepts is never overwritten.

**Swap** (`account_service.swap_to_account`).  Load the target; read the standard
entry and checkpoint it into the outgoing account's vault entry; promote the target;
rewrite the identity; write the fallback.  Runs in a thread, under the target's refresh
lock and the credential lock; `perform_switch` adds `_switch_lock`, which the direct swaps
at the end of a first login or a re-login do not take.
Hard: the CLI rotates between checkpoint and promotion, crashes, partial failures.

**Deletion, login, re-login** (`routers/accounts.py`) as they touch the store, and the
**startup integrity check** that repairs the identity file after a crash.

**Token refresh** (`background._refresh_vault_token`, `_process_vault_account`,
`account_service.revalidate_account`).  A vault account's access token is refused; a
poll or the user's revalidation posts the refresh token and saves the new pair.
State: vault entry, refresh lock, `stale_reason` column.  Correct when a used token is never
presented, the newest is never lost, a login is not undone, and the column says of an account that it needs
a new login when that is so.

**Refresh lock** (`account_service.with_refresh_lock_async`, `switcher.perform_switch`).  A
`threading.Lock` per account, taken by tasks through the executor and by swap threads
directly; forgotten when an account is deleted and when a swap exceeds its deadline.
Correct when it excludes, is always released, and nobody waits for ever.

**Auto-switch** (`switcher.py`, `background.poll_usage_and_switch`, `routers/service.py`).  The
tick compares the active account's usage with its threshold, picks a candidate and
calls `perform_switch`; requests switch, enable, disable and delete beside it.  State:
account rows, usage cache, `service_enabled`, `_switch_lock`, `SwitchLog`.  Correct when the
log tells what happened and a tick leaves a used-up account if there is a better one.

**Transient-failure ladder** (`background._record_transient_refresh_failure`).  Three
dictionaries with a back-off, a count and the time of the first failure.

**WebSocket stream** (`ws.py`, `main.py`, `frontend/src/ws.js`).  Numbered events, a bounded
replay buffer, replay or snapshot on connection; a page that reconnects with its last
number.  Correct when a page gets every event once and in order, and in the end shows
the present state.

**Login sessions** (`services/login_session_service.py`, `routers/accounts.py`).  A registry in
memory, a tmux window, a scratch directory and a scratch Keychain entry per
session; sweeps at intervals and at startup.  Correct when everything goes in the end and
no other session's window goes with it.

**Migration to the vault** (`alembic/versions/a7e16baf4a03...`).  Before the vault every account had a
config directory, with a Keychain entry named after it or a file in it.  One revision, run at startup until
its transaction commits, backs everything up, moves each account's credentials, elects the active one and promotes it,
deletes the old entries and directories, flags the rows it could not move and drops the column.  Nothing of it outside
the database is transactional, and the terminals of the old version may still be running.  Correct when
nobody's credentials are dropped without the flag, and a rerun does not undo what the first run did.

**Not modelled** - poll cadence and lifespan timers, the HTTP client, tmux keystrokes, settings
storage, ORM declarations, the token middleware, dashboard rendering, scripts: I/O or
declarations without a protocol of their own.
`PROJECT.json` lists every component with its status.

**How they interact.**  Everything that changes who is active goes through the swap, and almost
always through `perform_switch`.  The tick reads the store for tokens, `TokenRefresh` writes the
vault, and both sides meet in the refresh lock; ticks and handlers write the same account
row.  Every change is broadcast on the event stream.  The CLI shares the standard entry and
the identity file and takes none of the locks.

## Modules and how they correspond to the code

Each module keeps the others' insides closed: a swap is many steps in `VaultSwap`, a
thread with locks and no data in `RefreshLock`, and one step with its possible results in
`TokenRefresh` and `AutoSwitch`.

### VaultSwap

A step is one `security` subprocess or one file write, because an overwrite is a delete
followed by an add.  A blob keeps what the code branches on: its `oauthAccount` e-mail, its
token (owner and generation) and whether it is nested or in the flat shape the CLI may
leave.  `keychain`, `identity`, `fallback` are the store; `enrolled` the rows; `valid`, `issued` the
server's side; `pc` and `job` say where each worker is; `incoming`, `seen`, `out` are the
lock holder's locals.  `Reads`, `DeleteOutcomes`, `AddOutcomes` and `EraseOutcomes` say
what each primitive may leave and return.  Constants: `Ops` and `Faults` choose
the operations and failures of a run, `CliRaces` lets the CLI rotate inside a
swap, `CliFlat` lets it write the flat shape, `MaxGen` bounds the tokens per account.

Properties: `NoCrossedCredentials`; `IdentityFollowsStandard` (the identity only ever comes to
name the owner of the standard entry); `TokenLossPoints` (an account's last accepted token is
overwritten at named steps only - those where step 2 could not have known it);
`EraseComplete` (a deleted account leaves nothing behind that would be picked up, although the
swap away from it has just checkpointed it); `CrashConsistent`; `NoTokenLost`.

### TokenRefresh

One account: accounts share neither tokens nor locks.  Generations stand for
tokens, the server accepts one.  Each tick and each revalidation is a process that
queues for the lock, reads, posts and saves; the CLI rotates while the account is
active; a swap is one step.  `LossPoints` and `RevocationPoints` list the only steps at which
the accepted token is lost and a used one is presented.  `FamilyAlive`, what the comment at `account_service.py:470` asks for,
ends at the latter.

### AccountLifecycle

One account that stays inactive, with everything that writes its vault entry or its row: the tick, revalidations, logins
(`verify_login`, `verify_relogin`) and `delete_account`.  Here an overwrite is the delete and the add it is, under the
credential lock, and lookups see the entry between the two; the row is loaded when an operation begins and written when it
ends, and only if what is written differs from what was loaded.  A token is a login (`fam`) and a
number of rotations (`gen`); the server accepts the newest of each login and drops the login when a used one
comes back.  `era` counts the refresh locks that deletions have forgotten: refreshes of before and after a deletion do not exclude each
other.  `crossed`, `outdone`, `blind`, `unsaved` are histories of who has been overtaken, missed an entry or
failed to write it; the properties name them as their exceptions.

`LoginWins`: the entry goes back to an older login's tokens only by a refresh that had read before the newer
ones were written;
`EntryPoints`: an entry without a row, and an entry without `oauthAccount`, come about at named steps only;
`Unflagged` and `Flagged`: the flag is taken off an account without a usable token, or put on one that has it, only by
a verdict that says nothing of the refresh token, by one that has been overtaken, or by a lookup that missed the entry.

### VaultMigration

One step is one `security` call or one file operation.  `hashed`, `files`, `labels`, `pointer` are the old layout;
`vault`, `named`, `standard`, `identity` the new one; `backup` the backup file; `dropped` and `stale` the database after the
commit; `pc`, `todo`, `at`, `hand`, `staleIds`, `active` the attempt's locals, gone when it ends.  Failures and crashes of all attempts
share one bound.  The CLI rotates tokens in the old entries and, after the promotion, in the standard one.

`Promised` is the refinement: under `home` (where an account has credentials to log in with) every step of every
attempt is a step of `Migration` or changes nothing there, so whatever fails and however often it is run, credentials only move
into the vault or are cleared away, and the one commit flags each row that is not in the vault.
`MigrationLosses`: the accepted token is dropped from every store, the backup included, at five
named places; `SameActive`: attempts agree on the active account; `OneActive`: between any two steps of any attempt
an entry the migration has written for the CLI and the identity file are of one account, unless that account has no
`oauthAccount` to write there.  The CLI's entry may be there from the start (`Standards`): the old version's switch mirrored an account into
it, or the user logged in without a config directory.  Until it is replaced it may lie beside the new identity, which is the
order the migration's comment (`:363-370`) argues for - old tokens beside a new identity, never the reverse; `OneActive` lets it
(`old`), but not past the commit, unless no account was made active or its entry could not be read.

### RefreshLock

Locks are numbered objects per account (`_refresh_locks` may replace one); executor jobs
queue for `PoolSize` threads, and a thread blocked in `acquire` keeps its thread.
Cancellation, the deadline's zombie thread, the done-callback that releases for a cancelled
waiter, and deletion are actions.  A cancelled job keeps its place in the executor's queue, and the thread that
gets to it passes on to the next; `drops` counts the locks forgotten, up to `MaxDrops`.
`ExclusiveUntilForgotten`; `NoGhostHolder` (when nobody is under way no lock is held and no thread busy);
`EveryoneEnds`.

### AutoSwitch

The server's five-hour windows (`window`), what the row records of them
(`recorded`) and what the cache says (`spent`) are three variables, because the code decides
from the last two.  A poll of all accounts is one step with a nondeterministic result per
account; a handler's request chooses its target in one step and reaches `perform_switch` in
another.  `LogChains`: every `SwitchLog` row starts where the one before ended, unless the identity
has changed without a row, which only a zombie swap, a half-committed one or the deletion
of the active account do.  `Relief`: a tick that can leave a used-up account for one
with room does so in the end.  Each account has its own throttle, so a poll asks the server about some and not
about others (`PollBut`), and the tick may for long decide from old usage of the one that has room.

### TransientLadder

One account, a unit of time being `_BACKOFF_INITIAL`; absolute times are kept as time left
and time since.  `Gradual`: the polls make an account stale for passing failures only after all the
back-offs have gone by, unless a revalidation has climbed the ladder too;
`Judged`: polls that only ever fail do it in the end; `Forgotten`: a deleted account leaves no failures for the next of
its name, unless a refresh of it was under way.

### WsReplay

The roster is a version number and a page shows some version.  The fetch an event makes a page do is a request, answered with the
version of that moment, and an arrival, which a later fetch supersedes and a deletion does not.  `After`, the filter of
`replay_since`, is written as the suffix of the buffer it is, so that proofs can speak of its places; an `ASSUME` of
`MCWsReplay` has TLC check that it is the code's filter by number on every buffer in ascending order.  `Contiguous` (what a page receives
joins on to its last number), `NoRepeat`, `ShowsRoster` (a page at rest shows what the last event
said), `CatchesUp`.  The exceptions in them are histories of what the code is known not to cover:
a snapshot carries no roster, a restart begins the numbers again, a timed-out send leaves a page
connected and deaf, a live event may overtake a stalled replay, a fetch that fails is not repeated, and an answer
under way when a deletion is announced brings the account back.

### LoginSessions

One subprocess, file operation or locked section per step.  Windows are known by
their tmux index, which is given to the next window when one closes.  `Findable`: no scratch Keychain entry
without the directory by which the sweep finds it.  `AddedIsSaved`: an account is added with the login's tokens in the
vault.  `OwnWindow`: a clean-up closes the window of its own session.  `Reaped`: no directory stays, except
one whose session's start raised or that `rmtree(ignore_errors=True)` left (`kept`): this server gives those up, and the next one
comes back to them.

Two of the properties' exceptions were found when their proofs would not go through; TLC then showed the behaviours on
instances beyond that of the run.  `undone` (two handlers): two logins of one account are verified at once, and the save of one, a delete whose add fails, takes out what
the other has just saved.  `closed` (three sessions): a clean-up that has lost its window to the user closes the next one's, whose
clean-up in turn closes a third one's.

## Runs

| run | instance | shows |
|---|---|---|
| `swap_login` | 2 accounts, 2 workers, switch/login/re-login/revocation, every fault, CLI races, flat shape | `NoCrossedCredentials`, `IdentityFollowsStandard`, `TokenLossPoints` |
| `swap_delete` | 3 accounts, 2 workers, switch/delete, refused adds, crashes, races | `EraseComplete`, `CrashConsistent` |
| `double_switch` | 3 accounts, 2 workers, no faults | **violates** `NoTokenLost` |
| `refresh` | 1 tick, 2 revalidations, 4 tokens, every fault, swaps | `LossPoints`, `RevocationPoints` |
| `account_lifecycle` | tick, 1 revalidation, 1 login at a time, 1 deletion, 1 new login, 2 rotations of each, 1 fault | `LoginWins`, `EntryPoints`, `Unflagged`, `Flagged` |
| `vault_migration` | 2 accounts, 2 layouts of each, the CLI's entry absent or of either, 1 rotation, 2 faults or crashes | `Promised`, `MigrationLosses`, `SameActive`, `OneActive` |
| `refresh_lock` | 2 accounts, poll refresh, revalidation, switch, auto-switch, 3 threads, 1 lock forgotten, shutdown | `ExclusiveUntilForgotten`, `NoGhostHolder`, `EveryoneEnds` |
| `auto_switch` | 3 accounts, tick + 1 handler, 1 request, 1 miss or failure, 2 window changes | `LogChains`, `Relief` |
| `tier0` | 2 accounts, tick only, nothing fails | **violates** `PickHasRoom` |
| `transient_ladder` | 5 failures, ceiling 20, back-off capped at 6 | `Forgotten`, `Gradual`, `Judged` |
| `ws_replay` | 1 page, buffer 2, 4 events, 2 breaks, failing fetches | `Contiguous`, `ShowsRoster`, `NoRepeat`, `CatchesUp` |
| `login_sessions` | 2 sessions, 2 e-mails (1 enrolled), 1 handler + sweeper, 1 fault, 1 crash | `Findable`, `AddedIsSaved`, `OwnWindow`, `Reaped` |

**Why the bounds suffice.**  The interesting cases need few actors.  Two workers are every pair of
operations around the one credential lock; three accounts let a deletion's victim, the account it
swaps to and a racing switch's target differ.  One rotation per account (`MaxGen = 1`)
separates "the newest token" from "an older one".  Three refreshers on one lock let one hold, one
wait with what it has read and one come later; four tokens allow each of them a
rotation.  One page suffices for the stream, since connections do not touch each other and a stalled send
to one is `Faults`' own choice; four events against a buffer of two make a page too old, just in time,
and up to date.  In `auto_switch` a single miss or failure at any of its places already separates what
the cache says from what is true.  The ladder's numbers keep the code's five failures, let the cap on the back-off
bite (1+2+4+6 units) and keep the ceiling beyond their sum.  Two sessions
are what a reused window index needs.  Where a mistake leads to another (three sessions), and where two logins of an account are
verified at once (two handlers), the proofs go beyond `login_sessions`.  In `account_lifecycle` one new login is the re-login or, after the deletion, the login
that adds the account again; two refreshers are the pair a forgotten lock lets run beside each other; with two rotations
the new login's token can be refreshed and then overwritten.  Two faults (10 million states), two new logins or two
deletions without a fault change no verdict.  Two accounts in `vault_migration` let the active one and another
differ, and two faults a crash and a failing call, or a crash in the rerun.  Its layouts are an entry alone and an entry without a
refresh token that hides the file; with one fault, a failed read, the second is a file alone.  A file alone, and a file beside
a good entry, added to them, change no verdict (18 million states).

**Deadlock** is checked in the swap, refresh, auto-switch, ladder and migration runs.  `refresh_lock` ends with its tasks, and
`ws_replay`, `login_sessions` and `account_lifecycle` with their bounds (events, breaks, session ids,
faults), so these say `CHECK_DEADLOCK FALSE`; where somebody may wait for ever it is a liveness property that says so
(`EveryoneEnds`, `Relief`, `CatchesUp`, `Reaped`).

**Fairness.**  `Spec` has none; `FairSpec` adds it where a run checks liveness.

* `RefreshLock`: weak fairness of the executor taking queued jobs and of every started task's next step:
  subprocesses and HTTP calls have timeouts.  No fairness for deadlines, cancellation, deletion.
* `AutoSwitch`: weak fairness of the tick's own steps and of each request once begun; strong fairness,
  account by account, of a poll that asks the server about it (`Asks`): `_last_vault_poll_at` is kept per e-mail and set only by a
  successful vault poll (`background.py:374`, `:512`), so an account that ticks find in the vault again and again is past its own throttle at
  one of them, whatever the phases of the others.  Nothing is assumed of two accounts at once, nor of new requests or the CLI.
* `TransientLadder`: time passes; a tick comes round; requests are answered or time out.
* `WsReplay`: a page and its handler go on: connect, replay, receive; a fetch is answered or fails.  None for breaks.
* `LoginSessions`: handlers and sweeps proceed, and a session left alone comes to a sweep at
  which it has expired.

## What the code does otherwise than it says

Two runs end in a counterexample, each against a sentence of the repository; `PROJECT.json` quotes them.

1. `double_switch`: two accepted switches to one account; the second swaps the account onto itself, skips the
   checkpoint and loses a rotation the CLI made in between.
2. `tier0`: the tick goes back to an account whose recorded window has ended, although its last probe was limited.

Met while modelling, present in the models as behaviour, and not given a run of their own:

* a tick that has waited for the refresh lock presents the token it read before (`background.py:425`), which
  `account_service.py:470-475` describes as the case to avoid: the first of the presenters `RevocationPoints` names;
* after a deadline or a deletion two holders of "the" refresh lock work on one account (`switcher.py:190`), where
  `account_service.py:461` says "same email serialises": hence the *until forgotten* in `ExclusiveUntilForgotten`;
* the logins take no refresh lock, so a refresh that read before a re-login writes the old login's tokens over the new ones
  (`LoginWins`); a tick's late write flags, or takes the flag off, an account that was logged in to meanwhile;
  `verify_relogin` writes `stale_reason = None` only into a row that had a reason when it was loaded, and `verify_login` for an
  enrolled account renews the entry and leaves the flag (`routers/accounts.py:111`);
* a lookup that falls between the delete and the add of a rewrite flags a healthy account ("No access token in vault"); the
  credential lock covers writers only (`credential_provider.py:106`);
* a refresh at work across a deletion leaves a vault entry without a row (`EntryPoints`); and a tick that has loaded a row
  deleted meanwhile fails at its commit, with every account's writes of that tick (`background.py:950`): one account's model does not show the others';
* the migration's rerun truncates the backup of the first attempt, when the old entries may be half gone, though `:299-302`
  and the design spec's "a crash mid-run replays cleanly" suggest otherwise; a token that is only in a file is in no
  backup; a vault entry that the rerun's lookup misses is replaced by an older one, and the standard entry by the
  vault's copy although the CLI may have rotated it; `main.py:138` waits for the login keychain "before running any
  Keychain-touching code", but the migration has run by then; a database older than alembic is stamped as up to date
  (`database.py:86-95`) and is never migrated;
* a lookup that times out in step 2 makes the swap skip the checkpoint (`credential_provider.py:88`); a crash between
  delete and add of the promotion leaves no standard entry, and startup has nothing to compare; a retry after an
  `OSError` in step 4 swaps the account onto itself; the Keychain does not always hold "exactly one entry"
  per account (`README.md:226`);
* a revalidation checks that the account is not active before it queues (`account_service.py:601`); a refreshed
  token whose Keychain write fails is reported as success, so that the retry loop at
  `background.py:238-263` never retries; a timed-out merge read drops `oauthAccount` (`credential_provider.py:257`);
* with as many threads waiting for one refresh lock as the executor has, the holder's save finds no thread:
  `EveryoneEnds` fails for `PoolSize = 2`;
* enabling the service commits the flag before an activation that may fail (`routers/service.py:61`), and
  enabling again answers ok without one; a request may activate an account disabled meanwhile;
* the comment at `background.py:52` gives 63 minutes to escalation where the back-offs add up to about 30; a
  revalidation writes "try again later" into `stale_reason` and climbs the ladder without waiting (`:42-46` says rapid
  retries cannot flip an account); the 24 h ceiling is forgotten at each success (`:57-59` gives intermittent success as
  its reason); neither activation nor re-login forgets earlier failures;
* the snapshot carries no roster (`main.py:240`), a page dropped for slowness is never told (`ws.py:80`);
* two re-logins of an account at once both stay, where `routers/accounts.py:326` announces a 409;
  `verify_relogin` ignores a failed vault write, clears `stale_reason` and reports success.

## Proofs

Every component has a `_proofs` module, `TransientLadder` shares that of `TokenRefresh`.  The theorems hold for every value of the constants: any number of
accounts, workers, refreshers, sessions, pages, tokens and attempts, any buffer, pool and bounds, any set of operations, layouts and
faults.  They assume the named `ASSUME`s of the modules (`None` and `Standard` are nobody's value, sets of actors are disjoint, bounds are
naturals) and, where a theorem says so, a condition on the faults allowed.  In every module the invariant that is inductive is a
conjunction of named parts, with a lemma per action, or per part and action; the action properties follow from it step by step.

**VaultSwap.**  The invariant is `IInv`: `TypeOK`; `JobOK` and `LocalsOK` (a worker at a control point has the accounts and
blobs that point needs); `LockOK` (at most one worker is at a control point inside the critical
section, the holder of the lock, and none is at work while the server is down); `FoundOK` (the account the startup
check has read is still the standard entry's); `NoCrossedCredentials`.  None of these alone survives a step: that a promotion writes a pure blob
needs what step 1 loaded to be pure, which needs it to belong to the lock holder, which needs the lock.
Each action has a lemma.

* `TypeCorrect` and `CredentialsNeverCross`: from `IInv`.
* `IdentityFollows`: an action property, from `IInv` before each step.
* `CrashesAreRepaired`: with lookups and file writes that succeed and no call killed half-way
  (`Reliable`, a condition on `Faults` and `Ops`: crashes and refused adds remain, and refused deletes unless accounts are
  deleted), `IInv` is strengthened by `AgreeOK`:
  outside the promotion-to-identity interval and the startup check's own, identity and labelled standard entry agree.
* `DeletionsAreComplete`: `EraseComplete` under `Reliable` and without logins (`NoLogins`: a login stores its tokens before the row
  exists, so a name without a row may well have an entry).  `RowsOK` says of a name without a row that no entry, no
  identity and no swap under way has it (`Gone`), and `WipedOK` what each step of a deletion has wiped so far; `GoneStays` shows
  that nothing, the checkpoint of a racing swap and the startup check included, brings it back.  It needs `AgreeOK`, since a deletion
  decides by the identity file whether the standard entry is the victim's.
* `LossesAreNamed`: `TokenLossPoints`, for all operations and faults.  `CheckpointOK`: the entry step 2 has read stands
  where it stood but for rotations by the CLI, and by the time it is overwritten what was read is in the vault.

**TokenRefresh.**  `IInv` is `TypeOK`; `LockOK` (who reads, posts or saves holds the lock); `BoundOK` (no token in store or in
hand is newer than the newest minted); `SaveOK` (a token about to be saved is the accepted
one, which the CLI cannot have); `UncrossedOK` (a revalidation no swap has overtaken works on an account that is
not active and presents what the vault holds).

* `TypeCorrect`; `OnlyNamedRevocations` and `OnlyNamedLosses`: both action properties, by a lemma per
  action that can disturb them.

**TransientLadder**, instantiated in `TokenRefresh_proofs` as `Ladder` with variables of its own.

* `FailuresForgotten`: the invariant `Forgotten`, which is not inductive.  `OrphansOK` adds what an answer that arrives after the
  deletion needs (whoever is under way while the account is gone began before it was deleted, so that the failure is recorded as an orphan's), and
  `LadderTypes` the types that takes.

**VaultMigration.**  `IInv` is `TypeOK`; `SourceOK` (what the old layout still has while an account is being moved); `FlagOK` (rows the loop has passed
are in the vault or among those to be flagged: the fact the commit needs, and one that failing calls, reruns and
the CLI must leave true); `LoopOK`; `DoneOK`.

* `TypeCorrect`; `Implements`: the initial states map to `Migration`'s, and each step to a step of it or a stutter,
  by lemmas per group of actions.
* `OnlyNamedLosses`: an action property, from `IInv` strengthened by `BoundOK` (no token is newer than the newest issued), `BackupOK` and
  `FirstOK` (what the backup lacks or has older is in `missed` or `rotated`, and before the first backup it is empty).
* `AttemptsAgree` and `StoresAgree`: `SameActive` and `OneActive`, from `AInv`, which adds to `IInv` what makes a rerun elect the same
  account: `ActiveOK` (the active account is the choice between pointer and identity file as they are), `AgreeOK` (once
  the pointer is gone the identity file tells the first attempt's choice), `NamedOK` and `StandardOK` (a standard entry the
  migration has written is of the account that both would choose), `OldOK` (one found at the start is gone before the old layout is
  cleared away, if anything was promoted).  For the proof `OneActive` had to hold inside an attempt and not only at its end, and now says so.

**AccountLifecycle.**  `IInv` is `TypeInv` (types, who may be where, and who has a blob in hand); `EntryInv` (one write at a time, under
which the entry is empty; what a deletion has wiped stays wiped or `spared` says why); `TokenInv` (whose tokens entry and hands can
hold: a refresher that has not been overtaken has read what was saved last); `FlagInv` (`Honest`: what somebody is about to write is
accepted by the server, and what it is about to say of the entry is true, unless others have acted in between).  The last is
what the flag's properties rest on: a verdict is formed several steps before it is written.

* `TypeCorrect`; `LoginsWin`, `EntriesPoint`, `FlagsStay`, `FlagsTrue`: the four action properties.

**RefreshLock.**  `IInv` is `TypeInv` (with the bound on busy threads, and on the numbers of locks); `JobInv` (a job has a place in the
queue or a thread, a refresh is awaited from beginning to end unless the server has shut down); `LockInv` (`HolderOK`: a lock is held exactly by the task
that is at a point between acquire and release; `CredOK`, the same of the credential lock; `OrphanOK`: a save that outlives its cancelled
task, or a swap its deadline, is alone on its account or the lock has been forgotten).

* `TypeCorrect`; `Exclusive`: `HolderOK` excludes two holders, `OrphanOK` those who work without holding it;
  `NoGhosts`: every holder is a task under way.

**AutoSwitch.**  `Inv` is `TypeOK`; `TargetOK`; `LockOK` (`_switch_lock` is held exactly by who swaps or writes the row); `LeftOK` (the
account read under the lock is the one the last row ended with, and still the active one); `LogChains`.  The chain alone is not inductive:
the row is written a step after the swap, from what was read a step before it.

* `TypeCorrect`; `TheLogChains`.

**WsReplay.**  `IInv` is `TypeOK`; `NumberOK` (the buffer is the newest events, consecutively numbered); `IdleOK`; `SentOK` (what is on the
way and what is still to be replayed have different numbers); `GapOK` (a live event that overtook a replay is followed by all the later
ones); `JoinOK`, which is `Contiguous` with the bounds an induction needs.  A broadcast and a replay append at different ends of the story, and
`SentOK` is what keeps them apart.

* `TypeCorrect`; `StreamsJoin`: `Contiguous`; `NothingRepeats`: `NoRepeat`.
* `PagesShowTheRoster`: `ShowsRoster`.  It says what a page at rest shows, and a page on its way there shows anything, so the
  invariant, `ShowInv` on top of `IInv`, is about what is still to come: `ChainOK` (each event of the buffer begins with the version of
  the accounts the one before ended with); `SoundOK` (what is on the way is the buffer's own event of that number, and what fell out of
  the buffer last ended where it begins); `CopyOK` (nobody is ahead of the server); `ReadyOK`: the changes a page lacks are on its
  socket, in order, or have numbers in the buffer that its next connect will have replayed.  What it lacks is counted from the version that
  will be shown (`Counts`): the one shown, or the answer of a fetch that is on its way; a fetch just asked for lacks nothing.

**LoginSessions.**  `IInv` is `TypeOK`; `JobOK` (a thread's session is one that exists, and after a clean-up it goes where it came from);
`PlaceOK`: before startup has ended only the startup sweep runs; a session that is being opened or torn down is one thread's and not in
the registry (`HoldOK`); a session has one window (`WindowsOK`), and its index is that window's or the session is in `closed` (`OwnOK`); every
window is of a session somebody knows (`KnownOK`, without which an index that is given out again would rob one that is still to be
registered); the directory goes last (`WipedOK`); and `AddedIsSaved`.

* `TypeCorrect`: with it that tmux has an index for every session; `EntriesAreFindable`; `AddedAccountsAreSaved`; `WindowsOfOthers`.

**Model-checked only.**  `TypeOK` and `Gradual` of `TransientLadder`: the provers have no rule for the powers of two that bound `wait`
(the count and the rest of what the proof needs of `TypeOK` are in `LadderTypes`), and the sum of back-offs in `Gradual` is a fold, which takes
induction over data.
`NoTokenLost` and `PickHasRoom` do not hold.  Liveness (`EveryoneEnds`, `Relief`, `Judged`, `CatchesUp`, `Reaped`) stays with TLC: fairness and
ENABLED are out of the prover's reach, and so is induction over data.

## Not modelled, and why

* `VaultSwap`: two servers at once (an flock forbids them); the `security` command itself.  A crash while the startup
  check runs is included.
* `TokenRefresh`: re-login and deletion during a refresh, what `stale_reason` does beyond one column write: `AccountLifecycle`.
* `AccountLifecycle`: the account never becomes active (`TokenRefresh`, `VaultSwap`); failures may escalate at any time
  (`TransientLadder` says when they do); entries always have a refresh token; a new login leaves the tokens of
  the one before valid, an assumption about the server; the other accounts of a tick.
* `VaultMigration`: rows in any order; databases that lack the column; the file fallback beside the standard entry; a standard entry that belongs to no account; pysqlite's
  own commits before DDL; entries that are not JSON read as absent.
* `AutoSwitch`: changes of priority, adding accounts, which default account is chosen (any), weekly windows.
* `TransientLadder`: the 429 back-off of the probe, a second revalidation beside the first.
* `WsReplay`: usage figures inside events; fetches the user starts on the page; the active account's flag, which a page sets on
  an `account_switched` event before the answer arrives.
* `LoginSessions`: the CLI's sign-in is one step; rows are not deleted; an instant's expiry may take any
  subset of the registry, so that the timeout's length does not matter; the CLI of a closed window writes nothing more; that two
  re-logins of one account at once, which two handlers could make, both go in the end (the run's one handler cannot, and two are
  beyond its size: only `Findable` and `OwnWindow` are proved for them).

## Plan

Written so far, in the order of importance: the store, the token chain, the stream, the lock, the decision, login,
the ladder, the migration with its abstract specification, one account's lifecycle.  Next:

1. **A store specification** that `VaultSwap` implements without crashes: activation as one atomic step.
2. The 429 back-off of the active account's probe, in `TransientLadder`; the order of priorities and the default account in
   `AutoSwitch`.
