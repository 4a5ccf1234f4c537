-------------------------- MODULE TransientLadder --------------------------
(***************************************************************************)
(* The back-off and escalation of failing token refreshes, for one         *)
(* account.  A refresh that fails for a reason that may pass sets the      *)
(* polls back for twice as long each time, and makes the account stale     *)
(* when it has failed often enough or for long enough.  A revalidation     *)
(* the user asks for climbs the same ladder and does not wait for it.      *)
(*                                                                         *)
(* One unit of time is _BACKOFF_INITIAL.  The deadlines the code keeps as  *)
(* absolute times are the time left until them and the time since them.    *)
(***************************************************************************)
EXTENDS Naturals, FiniteSets, Folds

CONSTANTS
  EscalateAfter,  \* _TRANSIENT_REFRESH_ESCALATE_AFTER
  Ceiling,        \* _TRANSIENT_REFRESH_ESCALATE_AFTER_SECONDS
  BackoffMax,     \* _BACKOFF_MAX
  None

ASSUME LadderConstantsOK ==
  /\ EscalateAfter \in Nat \ {0} /\ Ceiling \in Nat \ {0} /\ BackoffMax \in Nat \ {0}
  /\ None \notin Nat

Callers == {"poll", "revalidation"}

VARIABLES
  wait,    \* _refresh_backoff_until: time left, 0 when over or not set
  count,   \* _refresh_backoff_count, 0 when not set
  age,     \* time since _refresh_backoff_first_failure_at, at most Ceiling
  stale,   \* has the row a stale_reason?
  seen,    \* had it one when the revalidation loaded it?
  place,   \* is the account in the vault, active, or deleted?
  dead,    \* does the server refuse its access token?
  pc,      \* per caller: idle, waiting for the refresh lock, posting
  orphans, \* callers refreshing for an account that has been deleted since
  helped,  \* history: has a revalidation failed since the first failure?
  leaked   \* history: has an orphan failed since the first failure?

ladder == <<wait, count, age, helped, leaked>>
row    == <<stale, place, dead>>
calls  == <<pc, orphans, seen>>
vars   == <<ladder, row, calls>>

At(c, p)   == pc[c] = p
Goto(c, p) == pc' = [pc EXCEPT ![c] = p]
Leave(c)   == Goto(c, "idle") /\ orphans' = orphans \ {c} /\ UNCHANGED seen

Backoff(n) == LET b == 2 ^ (n - 1) IN IF b < BackoffMax THEN b ELSE BackoffMax

Escalates == count + 1 >= EscalateAfter \/ age = Ceiling

\* The three entries are dropped together.
Reset ==
  /\ wait' = 0 /\ count' = 0 /\ age' = None
  /\ helped' = FALSE /\ leaked' = FALSE

----------------------------------------------------------------------------
(* Refreshing.                                                             *)

\* The back-off is not looked at.
MutantPoll ==
  /\ At("poll", "idle") /\ place = "vault" /\ dead /\ ~stale
  /\ Goto("poll", "queued")
  /\ UNCHANGED <<ladder, row, orphans, seen>>

\* A tick finds the access token refused: not stale yet, not backing off.
Poll ==
  /\ At("poll", "idle") /\ place = "vault" /\ dead /\ ~stale /\ wait = 0
  /\ Goto("poll", "queued")
  /\ UNCHANGED <<ladder, row, orphans, seen>>

\* A tick that is not refused, or fails some other way, clears the flag.
PollClears ==
  /\ At("poll", "idle") /\ place = "vault" /\ stale
  /\ stale' = FALSE
  /\ UNCHANGED <<ladder, place, dead, calls>>

\* A tick that finds no access token in the vault, or no refresh token to
\* answer a refusal with, or an active account without an access token.
PollNoToken ==
  /\ At("poll", "idle") /\ place # "gone" /\ ~stale
  /\ stale' = TRUE
  /\ UNCHANGED <<ladder, place, dead, calls>>

\* revalidate_account of an account that is not active at that moment.
Revalidate ==
  /\ At("revalidation", "idle") /\ place = "vault"
  /\ Goto("revalidation", "queued") /\ seen' = stale
  /\ UNCHANGED <<ladder, row, orphans>>

\* The per-account refresh lock.  A deletion forgets it, so that those before
\* and those after the deletion do not exclude each other.
Post(c) ==
  /\ At(c, "queued")
  /\ \A d \in Callers : At(d, "post") => (c \in orphans) # (d \in orphans)
  /\ Goto(c, "post")
  /\ UNCHANGED <<ladder, row, orphans, seen>>

\* Only what differs from the row as it was loaded is written; a tick that posts
\* has loaded one that was not stale.  A reason may differ from the one before it.
\* SQLite may give the id of a deleted row to the next one, which then gets what
\* is meant for the old one.
Write(c, flag) ==
  \/ /\ c \notin orphans \/ place # "gone"
     /\ \/ flag # (c = "revalidation" /\ seen) /\ stale' = flag
        \/ flag = (c = "revalidation" /\ seen) /\ stale' \in {stale, stale \/ flag}
  \/ c \in orphans /\ stale' = stale

\* Nothing to refresh with, so a revalidation does not post: the vault entry
\* is gone, or without a refresh token.
NoToken ==
  /\ At("revalidation", "post")
  /\ Write("revalidation", TRUE)
  /\ Leave("revalidation")
  /\ UNCHANGED <<ladder, place, dead>>

Succeeds(c) ==
  /\ At(c, "post")
  /\ Reset
  /\ Write(c, FALSE) /\ dead' = FALSE
  /\ Leave(c)
  /\ UNCHANGED place

\* A terminal answer; or a new access token that is refused like the old one.
Rejected(c) ==
  /\ At(c, "post")
  /\ Reset
  /\ Write(c, TRUE)
  /\ Leave(c)
  /\ UNCHANGED <<place, dead>>

\* One step up the ladder.
Climb(c) ==
  /\ wait' = Backoff(count + 1) /\ count' = count + 1
  /\ age' = IF age = None THEN 0 ELSE age
  /\ helped' = (helped \/ c = "revalidation")
  /\ leaked' = (leaked \/ c \in orphans)

\* The comparison with the count is strict.
MutantFails(c) ==
  /\ At(c, "post")
  /\ IF count >= EscalateAfter \/ age = Ceiling
     THEN Reset /\ Write(c, TRUE)
     ELSE Climb(c) /\ Write(c, c = "revalidation")
  /\ Leave(c)
  /\ UNCHANGED <<place, dead>>

\* An escalation is raised like any other failure.
MutantRaise(c) ==
  /\ At(c, "post")
  /\ IF Escalates THEN Reset ELSE Climb(c)
  /\ Write(c, c = "revalidation")
  /\ Leave(c)
  /\ UNCHANGED <<place, dead>>

\* _record_transient_refresh_failure.  Short of the escalation the poll leaves
\* the row alone, and the revalidation writes "try again later".
Fails(c) ==
  /\ At(c, "post")
  /\ IF Escalates
     THEN Reset /\ Write(c, TRUE)
     ELSE Climb(c) /\ Write(c, c = "revalidation")
  /\ Leave(c)
  /\ UNCHANGED <<place, dead>>

\* A 200 without an access token: no failure is recorded.
Malformed(c) ==
  /\ At(c, "post")
  /\ Write(c, c = "revalidation")
  /\ Leave(c)
  /\ UNCHANGED <<ladder, place, dead>>

Answered(c) == Succeeds(c) \/ Rejected(c) \/ Fails(c) \/ Malformed(c)

----------------------------------------------------------------------------
(* Around it.                                                              *)

Tick ==
  /\ wait > 0 \/ age \in 0..(Ceiling - 1)
  /\ wait' = IF wait > 0 THEN wait - 1 ELSE 0
  /\ age' = IF age \in 0..(Ceiling - 1) THEN age + 1 ELSE age
  /\ UNCHANGED <<count, helped, leaked, row, calls>>

\* The server lets the access token expire.
Expire ==
  /\ ~dead /\ dead' = TRUE
  /\ UNCHANGED <<ladder, stale, place, calls>>

\* A swap to the account, or away from it with what the CLI has made of its
\* tokens: the ladder stays as it is.
Activate ==
  /\ place = "vault" /\ place' = "active"
  /\ UNCHANGED <<ladder, stale, dead, calls>>

Deactivate ==
  /\ place = "active" /\ place' = "vault"
  /\ dead' \in {dead, FALSE}
  /\ UNCHANGED <<ladder, stale, calls>>

\* A successful probe, or one that failed for now.
ProbeClears ==
  /\ place = "active" /\ stale /\ stale' = FALSE
  /\ UNCHANGED <<ladder, place, dead, calls>>

\* verify_relogin: the ladder stays as it is.
Relogin ==
  /\ place # "gone"
  /\ stale \/ dead
  /\ stale' = FALSE /\ dead' = FALSE
  /\ UNCHANGED <<ladder, place, calls>>

\* The dictionaries forgotten are those of the 429 back-off only.
MutantDelete ==
  /\ place # "gone" /\ place' = "gone"
  /\ stale' = FALSE
  /\ orphans' = {c \in Callers : ~At(c, "idle")}
  /\ UNCHANGED <<ladder, dead, pc, seen>>

\* delete_account, which calls forget_account_state: refreshes under way are
\* not stopped.
Delete ==
  /\ place # "gone" /\ place' = "gone"
  /\ Reset
  /\ stale' = FALSE
  /\ orphans' = {c \in Callers : ~At(c, "idle")}
  /\ UNCHANGED <<dead, pc, seen>>

\* The same e-mail is added again.
Add ==
  /\ place = "gone" /\ place' = "vault"
  /\ dead' = FALSE
  /\ UNCHANGED <<ladder, stale, calls>>

Restart ==
  /\ Reset
  /\ pc' = [c \in Callers |-> "idle"]
  /\ orphans' = {} /\ seen' = FALSE
  /\ UNCHANGED row

----------------------------------------------------------------------------
Init ==
  /\ wait = 0 /\ count = 0 /\ age = None /\ helped = FALSE
  /\ stale = FALSE /\ place \in {"vault", "active"} /\ dead = FALSE
  /\ pc = [c \in Callers |-> "idle"]
  /\ orphans = {} /\ leaked = FALSE /\ seen = FALSE

Proceed(c) == Post(c) \/ Answered(c)

Next ==
  \/ Poll \/ PollNoToken \/ PollClears \/ Revalidate \/ NoToken
  \/ \E c \in Callers : Proceed(c)
  \/ Tick \/ Expire \/ Activate \/ Deactivate \/ ProbeClears \/ Relogin
  \/ Delete \/ Add \/ Restart

Spec == Init /\ [][Next]_vars

\* Time passes, ticks come round, and requests are answered or time out.
FairSpec == Spec /\ WF_vars(Tick) /\ WF_vars(Poll) /\ \A c \in Callers : WF_vars(Proceed(c))

----------------------------------------------------------------------------
(* Properties.                                                             *)

TypeOK ==
  /\ wait \in 0..BackoffMax
  /\ count \in 0..(EscalateAfter - 1)
  /\ age \in 0..Ceiling \cup {None}
  /\ stale \in BOOLEAN /\ seen \in BOOLEAN /\ dead \in BOOLEAN
  /\ place \in {"vault", "active", "gone"}
  /\ pc \in [Callers -> {"idle", "queued", "post"}]
  /\ orphans \subseteq Callers
  /\ helped \in BOOLEAN /\ leaked \in BOOLEAN

\* The polls' own ladder is slow: when they make an account stale for failures
\* that may pass, it has been failing for the sum of the back-offs at least
\* (background.py:51-55), or somebody has revalidated it in between.
SlowToJudge == MapThenFoldSet(+, 0, Backoff, LAMBDA S : CHOOSE n \in S : TRUE,
                              1..(EscalateAfter - 1))
Gradual ==
  [][count > 0 /\ count' = 0 /\ stale' /\ ~stale /\ Fails("poll") /\ ~helped =>
       age >= SlowToJudge]_vars

\* A deleted account leaves no failures behind for one that is added again
\* under its name, unless a refresh of it was under way.
Forgotten == place = "gone" => count = 0 \/ leaked

\* An account in the vault whose access token is dead and whose polls only ever
\* fail for reasons that may pass is made stale in the end, and again whenever
\* another poll clears it.
OnlyFails ==
  /\ \A c \in Callers : ~Succeeds(c) /\ ~Rejected(c) /\ ~Malformed(c)
  /\ ~Revalidate /\ ~NoToken /\ ~Restart
Judged == <>[](place = "vault" /\ dead) /\ <>[][OnlyFails]_vars => []<>stale
=============================================================================
