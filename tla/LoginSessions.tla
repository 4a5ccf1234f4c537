--------------------------- MODULE LoginSessions ---------------------------
(***************************************************************************)
(* The login terminals.  Adding an account, or logging in to one again,    *)
(* opens a tmux window in which the CLI signs in under a scratch           *)
(* directory; verifying takes the credentials out of the scratch           *)
(* directory's own Keychain entry into the vault; and whatever became of   *)
(* the session its window, its Keychain entry and its directory have to    *)
(* go.  Request handlers and the sweep of expired sessions do this in      *)
(* threads of their own; a restart forgets every session and finds what    *)
(* they left by the names of windows and directories.                      *)
(*                                                                         *)
(* One subprocess, file operation or locked section is one step.           *)
(***************************************************************************)
EXTENDS Naturals, FiniteSets, FiniteSetsExt

CONSTANTS
  Sessions,   \* session ids, in the order they are made
  Emails,
  Enrolled,   \* accounts with a row at the start
  Handlers,   \* threads of HTTP requests
  Sweeper,    \* the thread of the clean-up loop and of the startup sweep
  None,
  MaxFaults,  \* bound: steps that fail
  MaxCrashes  \* bound: restarts of the server

\* What a thread may be doing.
Ops == {"add", "relogin", "mismatch", "cancel", "sweep", "reap"}

ASSUME LoginConstantsOK ==
  /\ Sessions \subseteq Nat \ {0} /\ IsFiniteSet(Sessions)
  /\ Enrolled \subseteq Emails
  /\ Sweeper \notin Handlers
  /\ None \notin Nat \cup Emails \cup Handlers \cup {Sweeper} /\ None \notin Ops
  /\ MaxFaults \in Nat /\ MaxCrashes \in Nat

Threads == Handlers \cup {Sweeper}
Slots   == 1..Cardinality(Sessions)   \* window indices of the tmux session

VARIABLES
  up,        \* is the server past its startup?
  fresh,     \* session ids not used yet
  reg,       \* _active_login_sessions: ids, and per id
  target,    \*   pane_target: the window's index
  expected,  \*   expected_email of a re-login, None when adding
  windows,   \* tmux: whose window has an index
  dirs,      \* scratch directories
  entry,     \* scratch Keychain entries: who signed in
  ident,     \* oauthAccount in the scratch directory's .claude.json
  vault,     \* vault entries: whether there is a token, and if from a login here
  rows,      \* accounts in the database
  pc, job,   \* per thread: control point; operation, session, clean-ups to do,
             \*   where to go after them, e-mail
  faults, crashes,   \* bounded counts
  missed,    \* history: sessions of which a kill or a delete failed,
  closed,    \*   whose window the user, or another's clean-up, closed,
  stillborn, \*   whose start raised
  kept,      \* history: sessions of which this server leaves the directory,
  undone     \* history: threads whose saved tokens another's failed save deleted

registry == <<fresh, reg, target, expected>>
scratch  == <<dirs, entry, ident>>
saved    == <<vault, rows>>
bounds   == <<faults, crashes>>
history  == <<missed, closed, stillborn, kept, undone>>
vars     == <<up, registry, windows, scratch, saved, pc, job, bounds, history>>

PCs == {"idle", "clean", "kill", "wipe", "rmtree", "orphans", "mkdir", "window",
        "register", "ident", "entry", "save", "enrol", "reap"}
NoJob == [op |-> None, sid |-> None, todo |-> {}, then |-> "idle", email |-> None]

At(t, p)   == pc[t] = p
Goto(t, p) == pc' = [pc EXCEPT ![t] = p]
Return(t)  == Goto(t, "idle") /\ job' = [job EXCEPT ![t] = NoJob]
Fault      == faults < MaxFaults /\ faults' = faults + 1

\* Clean up the sessions of a set, then go on at a control point.
Clean(t, ids, then) ==
  /\ Goto(t, "clean")
  /\ job' = [job EXCEPT ![t].todo = ids, ![t].then = then]

Resume(t) == IF job[t].then = "idle" THEN Return(t) ELSE Goto(t, job[t].then) /\ UNCHANGED job

Idle(t) == up /\ At(t, "idle")
Begin(t, p, op, s, e, ids, then) ==
  /\ Idle(t)
  /\ Goto(t, p)
  /\ job' = [job EXCEPT ![t] = [op |-> op, sid |-> s, todo |-> ids, then |-> then,
                                email |-> e]]

----------------------------------------------------------------------------
(* cleanup_login_session, for each of a thread's sessions in turn.         *)

\* The session is looked up and left in the registry until it is gone.
MutantCleanNext(t) ==
  /\ At(t, "clean")
  /\ LET s == Min(job[t].todo) IN
       IF job[t].todo = {} THEN Resume(t)
       ELSE /\ job' = [job EXCEPT ![t].todo = @ \ {s}, ![t].sid = IF s \in reg THEN s ELSE @]
            /\ IF s \in reg THEN Goto(t, "kill") ELSE UNCHANGED pc
  /\ UNCHANGED <<up, registry, windows, scratch, saved, bounds, history>>

\* Popped from the registry under its lock: nobody else cleans it up.
CleanNext(t) ==
  /\ At(t, "clean")
  /\ LET s == Min(job[t].todo) IN
       IF job[t].todo = {} THEN Resume(t) /\ UNCHANGED reg
       ELSE /\ reg' = reg \ {s}
            /\ job' = [job EXCEPT ![t].todo = @ \ {s}, ![t].sid = IF s \in reg THEN s ELSE @]
            /\ IF s \in reg THEN Goto(t, "kill") ELSE UNCHANGED pc
  /\ UNCHANGED <<up, fresh, target, expected, windows, scratch, saved, bounds, history>>

\* tmux kill-window by index, whoever's window has it now.
Kill(t) ==
  LET s == job[t].sid  whose == {windows[w] : w \in Slots \cap {target[s]}} IN
  /\ At(t, "kill")
  /\ \/ /\ windows' = [windows EXCEPT ![target[s]] = None]
        /\ closed' = closed \cup (whose \ {s, None})
        /\ UNCHANGED <<faults, missed>>
     \/ Fault /\ missed' = missed \cup {s} /\ UNCHANGED <<windows, closed>>
  /\ Goto(t, "wipe")
  /\ UNCHANGED <<up, registry, scratch, saved, job, crashes, stillborn, kept, undone>>

Wipe(t) ==
  LET s == job[t].sid IN
  /\ At(t, "wipe")
  /\ \/ entry' = [entry EXCEPT ![s] = None] /\ UNCHANGED <<faults, missed>>
     \/ Fault /\ missed' = missed \cup {s} /\ UNCHANGED entry
  /\ Goto(t, "rmtree")
  /\ UNCHANGED <<up, registry, windows, dirs, ident, saved, job, crashes, closed, stillborn, kept,
                 undone>>

\* rmtree(ignore_errors=True) may stop short of the directory, with the CLI
\* still writing there; nobody is told.
Rmtree(t) ==
  LET s == job[t].sid IN
  /\ At(t, "rmtree")
  /\ \/ /\ dirs' = dirs \ {s} /\ ident' = [ident EXCEPT ![s] = None]
        /\ UNCHANGED <<faults, kept>>
     \/ /\ Fault /\ kept' = kept \cup {s}
        /\ ident' \in {ident, [ident EXCEPT ![s] = None]} /\ UNCHANGED dirs
  /\ target' = [target EXCEPT ![s] = None] /\ expected' = [expected EXCEPT ![s] = None]
  /\ Goto(t, IF job[t].op = "reap" THEN "reap" ELSE "clean")
  /\ UNCHANGED <<up, fresh, reg, windows, entry, saved, job, crashes, missed, closed, stillborn,
                 undone>>

Cleaning(t) == CleanNext(t) \/ Kill(t) \/ Wipe(t) \/ Rmtree(t)

----------------------------------------------------------------------------
(* Starting a session.                                                     *)

\* Those registered longer than _SESSION_TIMEOUT ago: any.
Expired == SUBSET reg

\* start_login_session and start_relogin_session: the expired ones first.
StartLogin(t) ==
  /\ fresh # {}
  /\ \E expired \in Expired : Begin(t, "clean", "add", None, None, expired, "mkdir")
  /\ UNCHANGED <<up, registry, windows, scratch, saved, bounds, history>>

StartRelogin(t, e) ==
  /\ fresh # {} /\ e \in rows
  /\ \E expired \in Expired : Begin(t, "clean", "relogin", None, e, expired, "orphans")
  /\ UNCHANGED <<up, registry, windows, scratch, saved, bounds, history>>

\* The e-mail's earlier re-logins, as the registry has them now.
Orphans(t) ==
  /\ At(t, "orphans")
  /\ Clean(t, {s \in reg : expected[s] = job[t].email}, "mkdir")
  /\ UNCHANGED <<up, registry, windows, scratch, saved, bounds, history>>

\* Registered before its window is open.
MutantMkdir(t) ==
  /\ At(t, "mkdir") /\ fresh # {}
  /\ LET s == Min(fresh) IN
       /\ fresh' = fresh \ {s} /\ dirs' = dirs \cup {s} /\ reg' = reg \cup {s}
       /\ job' = [job EXCEPT ![t].sid = s]
  /\ Goto(t, "window")
  /\ UNCHANGED <<up, target, expected, windows, entry, ident, saved, bounds, history>>

Mkdir(t) ==
  /\ At(t, "mkdir") /\ fresh # {}
  /\ LET s == Min(fresh) IN
       /\ fresh' = fresh \ {s} /\ dirs' = dirs \cup {s}
       /\ job' = [job EXCEPT ![t].sid = s]
  /\ Goto(t, "window")
  /\ UNCHANGED <<up, reg, target, expected, windows, entry, ident, saved, bounds, history>>

\* _open_claude_tmux_window: new-window takes the lowest free index, send-keys
\* starts the CLI in it.  Either may raise.
OpenWindow(t) ==
  LET s == job[t].sid  slot == Min({w \in Slots : windows[w] = None}) IN
  /\ At(t, "window")
  /\ \/ /\ windows' = [windows EXCEPT ![slot] = s]
        /\ target' = [target EXCEPT ![s] = slot]
        /\ Goto(t, "register")
        /\ UNCHANGED <<job, faults, stillborn, kept>>
     \/ /\ Fault /\ stillborn' = stillborn \cup {s} /\ kept' = kept \cup {s}
        /\ windows' \in {windows, [windows EXCEPT ![slot] = s]}
        /\ Return(t)
        /\ UNCHANGED target
  /\ UNCHANGED <<up, fresh, reg, expected, scratch, saved, crashes, missed, closed, undone>>

Register(t) ==
  LET s == job[t].sid IN
  /\ At(t, "register")
  /\ reg' = reg \cup {s}
  /\ expected' = [expected EXCEPT ![s] = job[t].email]
  /\ Return(t)
  /\ UNCHANGED <<up, fresh, target, windows, scratch, saved, bounds, history>>

Starting(t) == Orphans(t) \/ Mkdir(t) \/ OpenWindow(t) \/ Register(t)

----------------------------------------------------------------------------
(* Verifying and cancelling.                                               *)

\* verify_login, or verify_relogin of the account the session is for: the
\* session is found in the registry, and stays there.
Verify(t, s) ==
  /\ s \in reg
  /\ Begin(t, "ident", IF expected[s] = None THEN "add" ELSE "relogin", s, expected[s], {}, "idle")
  /\ UNCHANGED <<up, registry, windows, scratch, saved, bounds, history>>

ReadIdentity(t) ==
  LET s == job[t].sid IN
  /\ At(t, "ident")
  /\ IF s \in dirs /\ ident[s] # None
     THEN /\ Goto(t, "entry")
          /\ job' = [job EXCEPT ![t].email = ident[s],
                        ![t].op = IF @ = "relogin" /\ ident[s] # job[t].email
                                  THEN "mismatch" ELSE @]
     ELSE Return(t)
  /\ UNCHANGED <<up, registry, windows, scratch, saved, bounds, history>>

\* The tokens; only then is a re-login of another account turned away.
ReadEntry(t) ==
  LET s == job[t].sid IN
  /\ At(t, "entry")
  /\ \/ /\ entry[s] = None /\ Return(t) /\ UNCHANGED faults
     \/ /\ Fault /\ Return(t)
     \/ /\ entry[s] # None
        /\ IF job[t].op = "mismatch"
           THEN Clean(t, {s}, "idle") ELSE Goto(t, "save") /\ UNCHANGED job
        /\ UNCHANGED faults
  /\ UNCHANGED <<up, registry, windows, scratch, saved, crashes, history>>

\* The result of the write ignored, as verify_relogin does.
MutantSave(t) ==
  LET s == job[t].sid  e == job[t].email IN
  /\ At(t, "save")
  /\ \/ vault' = [vault EXCEPT ![e] = "new"] /\ UNCHANGED faults
     \/ Fault /\ vault' \in {vault, [vault EXCEPT ![e] = "none"]}
  /\ Clean(t, {s}, "enrol")
  /\ UNCHANGED <<up, registry, windows, scratch, rows, crashes, history>>

\* The tokens are saved and the row is still to come.
Enrolling(t) == At(t, "enrol") \/ job[t].then = "enrol"

\* save_new_vault_account: a delete and an add.  Only verify_login looks at
\* its result; the session is cleaned up either way.
Save(t) ==
  LET s == job[t].sid  e == job[t].email IN
  /\ At(t, "save")
  /\ \/ /\ vault' = [vault EXCEPT ![e] = "new"]
        /\ Clean(t, {s}, "enrol") /\ UNCHANGED <<faults, undone>>
     \/ /\ Fault
        /\ \/ UNCHANGED <<vault, undone>>
           \/ /\ vault' = [vault EXCEPT ![e] = "none"]
              /\ undone' = undone \cup {u \in Threads \ {t} : Enrolling(u) /\ job[u].email = e}
        /\ Clean(t, {s}, IF job[t].op = "add" THEN "idle" ELSE "enrol")
  /\ UNCHANGED <<up, registry, windows, scratch, rows, crashes, missed, closed, stillborn,
                 kept>>

\* The row of a new account, or the stale flag of an old one; success.
Enrol(t) ==
  /\ At(t, "enrol")
  /\ rows' = rows \cup {job[t].email}
  /\ undone' = undone \ {t}
  /\ Return(t)
  /\ UNCHANGED <<up, registry, windows, scratch, vault, bounds, missed, closed, stillborn,
                 kept>>

Cancel(t, s) ==
  /\ s \in reg
  /\ Begin(t, "clean", "cancel", None, None, {s}, "idle")
  /\ UNCHANGED <<up, registry, windows, scratch, saved, bounds, history>>

Verifying(t) == ReadIdentity(t) \/ ReadEntry(t) \/ Save(t) \/ Enrol(t)

----------------------------------------------------------------------------
(* The sweeps.                                                             *)

\* Only the sessions of re-logins.
MutantSweep(expired) ==
  /\ \A s \in expired : expected[s] # None
  /\ Begin(Sweeper, "clean", "sweep", None, None, expired, "idle")
  /\ UNCHANGED <<up, registry, windows, scratch, saved, bounds, history>>

\* _cleanup_expired_sessions.
Sweep(expired) ==
  /\ Begin(Sweeper, "clean", "sweep", None, None, expired, "idle")
  /\ UNCHANGED <<up, registry, windows, scratch, saved, bounds, history>>

Crash ==
  /\ crashes < MaxCrashes /\ crashes' = crashes + 1
  /\ up' = FALSE
  /\ reg' = {}
  /\ target' = [s \in Sessions |-> None] /\ expected' = [s \in Sessions |-> None]
  /\ pc' = [t \in Threads |-> "idle"] /\ job' = [t \in Threads |-> NoJob]
  /\ undone' = {} /\ kept' = {}
  /\ UNCHANGED <<fresh, windows, scratch, saved, faults, missed, closed, stillborn>>

\* cleanup_orphan_login_artifacts: the windows by their name, then the
\* directories that are there.
KillOrphans ==
  /\ ~up /\ At(Sweeper, "idle")
  /\ \E left \in SUBSET {w \in Slots : windows[w] # None} :
       /\ faults + Cardinality(left) <= MaxFaults
       /\ faults' = faults + Cardinality(left)
       /\ missed' = missed \cup {windows[w] : w \in left}
       /\ windows' = [w \in Slots |-> IF w \in left THEN windows[w] ELSE None]
  /\ job' = [job EXCEPT ![Sweeper] = [NoJob EXCEPT !.op = "reap", !.todo = dirs]]
  /\ Goto(Sweeper, "reap")
  /\ UNCHANGED <<up, registry, scratch, saved, crashes, closed, stillborn, kept, undone>>

\* The directory goes without its Keychain entry.
MutantReap ==
  /\ At(Sweeper, "reap")
  /\ LET s == Min(job[Sweeper].todo) IN
       IF job[Sweeper].todo = {} THEN up' = TRUE /\ Return(Sweeper)
       ELSE /\ job' = [job EXCEPT ![Sweeper].todo = @ \ {s}, ![Sweeper].sid = s]
            /\ Goto(Sweeper, "rmtree") /\ UNCHANGED up
  /\ UNCHANGED <<registry, windows, scratch, saved, bounds, history>>

Reap ==
  /\ At(Sweeper, "reap")
  /\ LET s == Min(job[Sweeper].todo) IN
       IF job[Sweeper].todo = {} THEN up' = TRUE /\ Return(Sweeper)
       ELSE /\ job' = [job EXCEPT ![Sweeper].todo = @ \ {s}, ![Sweeper].sid = s]
            /\ Goto(Sweeper, "wipe") /\ UNCHANGED up
  /\ UNCHANGED <<registry, windows, scratch, saved, bounds, history>>

----------------------------------------------------------------------------
(* The user and the CLI in the window.                                     *)

CliRuns(s) == s \notin stillborn /\ \E w \in Slots : windows[w] = s

\* The CLI writes its Keychain entry and, where it still is, .claude.json.
SignIn(s, e) ==
  /\ CliRuns(s) /\ entry[s] = None
  /\ entry' = [entry EXCEPT ![s] = e]
  /\ ident' = IF s \in dirs THEN [ident EXCEPT ![s] = e] ELSE ident
  /\ UNCHANGED <<up, registry, windows, dirs, saved, pc, job, bounds, history>>

UserCloses(w) ==
  /\ windows[w] # None
  /\ windows' = [windows EXCEPT ![w] = None]
  /\ closed' = closed \cup {windows[w]}
  /\ UNCHANGED <<up, registry, scratch, saved, pc, job, bounds, missed, stillborn, kept, undone>>

----------------------------------------------------------------------------
Init ==
  /\ up = TRUE
  /\ fresh = Sessions /\ reg = {}
  /\ target = [s \in Sessions |-> None] /\ expected = [s \in Sessions |-> None]
  /\ windows = [w \in Slots |-> None]
  /\ dirs = {}
  /\ entry = [s \in Sessions |-> None] /\ ident = [s \in Sessions |-> None]
  /\ vault = [e \in Emails |-> IF e \in Enrolled THEN "earlier" ELSE "none"]
  /\ rows = Enrolled
  /\ pc = [t \in Threads |-> "idle"] /\ job = [t \in Threads |-> NoJob]
  /\ faults = 0 /\ crashes = 0
  /\ missed = {} /\ closed = {} /\ stillborn = {} /\ kept = {} /\ undone = {}

Proceed(t) == Cleaning(t) \/ Starting(t) \/ Verifying(t)
Startup    == KillOrphans \/ Reap

Next ==
  \/ \E t \in Threads : Proceed(t)
  \/ \E h \in Handlers :
       \/ StartLogin(h)
       \/ \E e \in Emails : StartRelogin(h, e)
       \/ \E s \in Sessions : Verify(h, s) \/ Cancel(h, s)
  \/ \E expired \in Expired \ {{}} : Sweep(expired)
  \/ Startup \/ Crash
  \/ \E s \in Sessions : \E e \in Emails : SignIn(s, e)
  \/ \E w \in Slots : UserCloses(w)

Spec == Init /\ [][Next]_vars

\* A thread that has begun goes on, a server that is starting gets there, and
\* every session expires and is then in the sweeps that come round.
FairSpec ==
  /\ Spec
  /\ \A t \in Threads : WF_vars(Proceed(t))
  /\ WF_vars(Startup)
  /\ \A s \in Sessions : WF_vars(\E expired \in Expired : s \in expired /\ Sweep(expired))

----------------------------------------------------------------------------
(* Properties.                                                             *)

TypeOK ==
  /\ up \in BOOLEAN
  /\ fresh \subseteq Sessions
  /\ reg \subseteq {s \in Sessions \ fresh : target[s] # None}
  /\ target \in [Sessions -> Slots \cup {None}]
  /\ expected \in [Sessions -> Emails \cup {None}]
  /\ windows \in [Slots -> Sessions \cup {None}]
  /\ dirs \subseteq Sessions \ fresh
  /\ entry \in [Sessions -> Emails \cup {None}]
  /\ ident \in [Sessions -> Emails \cup {None}]
  /\ vault \in [Emails -> {"none", "earlier", "new"}]
  /\ rows \subseteq Emails
  /\ pc \in [Threads -> PCs]
  /\ job \in [Threads -> [op : Ops \cup {None},
                          sid : Sessions \cup {None}, todo : SUBSET Sessions,
                          then : PCs, email : Emails \cup {None}]]
  /\ faults \in 0..MaxFaults /\ crashes \in 0..MaxCrashes
  /\ missed \subseteq Sessions /\ closed \subseteq Sessions /\ stillborn \subseteq Sessions
  /\ kept \subseteq Sessions /\ undone \subseteq Threads

\* The tokens of a login are never left in a Keychain entry that nothing will
\* delete: there is a scratch directory to find the entry by after a restart
\* (login_session_service.py:199-218).  The code gives up an entry only when
\* the kill of its window or its own delete failed.
Findable == \A s \in Sessions : entry[s] # None => s \in dirs \cup missed

\* Cleaning up a session closes no other session's window, though windows are
\* known by an index that tmux gives out again: only when the session's own
\* window is gone already, closed by the user or by such a mistake in its turn.
OwnWindow ==
  [][\A t \in Threads, w \in Slots :
       At(t, "kill") /\ pc'[t] # pc[t] /\ windows'[w] # windows[w] =>
         windows[w] = job[t].sid \/ job[t].sid \in closed]_vars

\* An account is added only with the login's tokens in the vault
\* (routers/accounts.py:94-96), which nothing takes out again before the row is
\* there but another login of the same account whose own save fails.  A re-login
\* is not so careful.
AddedIsSaved ==
  \A t \in Threads :
    Enrolling(t) /\ job[t].op = "add" => vault[job[t].email] = "new" \/ t \in undone

\* Abandoned, cancelled or verified, interrupted by a restart or not, a session
\* does not leave its directory behind.  This server gives it up only when the
\* session's start raised or its removal failed, and the next one comes back to
\* it (cleanup_orphan_login_artifacts).
Reaped == \A s \in Sessions : []<>(s \notin dirs \/ s \in kept)
=============================================================================
