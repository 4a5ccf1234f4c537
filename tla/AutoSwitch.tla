----------------------------- MODULE AutoSwitch -----------------------------
(***************************************************************************)
(* Who decides which account is active: the decision at the end of every   *)
(* poll tick, and the requests that switch, enable, disable and delete.    *)
(* They all go through perform_switch, one at a time under _switch_lock,   *)
(* but each has chosen its target before it gets there.  What the tick     *)
(* knows of an account's five-hour window is what its last poll left in    *)
(* the cache and in the account's row; the window itself is the server's.  *)
(*                                                                         *)
(* A poll of all accounts is one step (TokenRefresh has its inside), and   *)
(* so is a swap (VaultSwap), with the ways it can end.                     *)
(***************************************************************************)
EXTENDS Naturals, FiniteSets, FiniteSetsExt

CONSTANTS
  Accounts,   \* the accounts in order of priority
  Handlers,   \* HTTP request handlers
  Tick,       \* the poll loop
  None,
  MaxOps,     \* bound: requests
  MaxMisses,  \* bound: ticks that fail to learn something, and failures
  MaxUse,     \* bound: changes of a window
  Failures,   \* how a swap may fail, a subset of FailureKinds
  Elsewhere,  \* accounts that are also used on other machines
  Starts      \* bound: what is active, enabled and set at the start

FailureKinds == {"error",     \* a SwapError, nothing changed
                 "half",      \* an OSError after the identity file was written
                 "deadline"}  \* the swap goes on in its thread

ASSUME AutoSwitchConstantsOK ==
  /\ Accounts \subseteq Nat /\ IsFiniteSet(Accounts)
  /\ Tick \notin Handlers
  /\ None \notin Accounts \cup Handlers \cup {Tick}
  /\ MaxOps \in Nat /\ MaxMisses \in Nat /\ MaxUse \in Nat
  /\ Failures \subseteq FailureKinds /\ Elsewhere \subseteq Accounts
  /\ Starts \subseteq [active : Accounts \cup {None}, enabled : SUBSET Accounts, flag : BOOLEAN]

VARIABLES
  active,   \* the account .claude.json names
  stored,   \* accounts whose vault entry has a refresh token
  rows,     \* accounts in the database,
  enabled,  \*   those of them that take part in the rotation,
  stale,    \*   and those with a stale_reason
  flag,     \* service_enabled
  window,   \* the server's five-hour window of each account
  recorded, \* last_five_hour_*, as they read today
  spent,    \* accounts whose usage cache says limited or at the threshold
  lock,     \* holder of _switch_lock
  zombies,  \* targets of swaps that go on after their deadline
  lastTo,   \* to_account of the newest SwitchLog row
  unlogged, \* history: has the identity changed since without a row?
  pc, job,  \* per actor: control point; operation, accounts
  ops, misses, uses  \* bounded counts

config == <<rows, enabled, stale, flag>>
usage  == <<window, recorded, spent>>
swaps  == <<active, stored, zombies>>
log    == <<lastTo, unlogged>>
counts == <<ops, misses, uses>>
vars   == <<config, usage, swaps, lock, log, pc, job, counts>>

Actors == Handlers \cup {Tick}
PCs    == {"idle", "decide", "verify", "cascade", "wait", "swap", "commit", "erase", "drop"}
Ops    == {"auto", "manual", "enable", "disable", "delete"}
NoJob  == [op |-> None, target |-> None, victim |-> None, from |-> None]

At(w, p)      == pc[w] = p
Goto(w, p)    == pc' = [pc EXCEPT ![w] = p]
Return(w)     == Goto(w, "idle") /\ job' = [job EXCEPT ![w] = NoJob]
Start(w, p, op, target, victim) ==
  /\ Goto(w, p)
  /\ job' = [job EXCEPT ![w] = [op |-> op, target |-> target, victim |-> victim,
                                from |-> None]]
Miss == misses < MaxMisses /\ misses' = misses + 1

----------------------------------------------------------------------------
(* The choice of an account.                                               *)

Candidates(cur) == enabled \ (stale \cup {cur})

\* An account without a recorded window is not considered.
MutantNextAccount(cur) ==
  LET known == {t \in Candidates(cur) :
                  recorded[t] # "unknown" /\ (recorded[t] = "open" => t \notin spent)}
  IN IF known = {} THEN None ELSE Min(known)

\* get_next_account: first, in order of priority, whose recorded window has
\* ended (tier-0); then whose cached usage leaves room.
NextAccount(cur) ==
  LET expired == {t \in Candidates(cur) : recorded[t] = "past"}
      roomy   == {t \in Candidates(cur) : t \notin spent}
  IN IF expired # {} THEN Min(expired) ELSE IF roomy # {} THEN Min(roomy) ELSE None

----------------------------------------------------------------------------
(* The poll tick.                                                          *)

\* What a poll of one account leaves: does its cache entry say it is spent,
\* how its row reads, is it stale.  An entry that is empty or an error has no
\* five_hour and reads as 0 %.
Outcome(sp, r, st) == [spent |-> sp, recorded |-> r, stale |-> st]

\* _process_active_account writes no window to the row, _process_vault_account
\* does; an entry without a token makes the account stale.
Learned(a) ==
  IF a = active THEN Outcome(window[a] = "full", recorded[a], FALSE)
  ELSE IF a \in stored
  THEN Outcome(window[a] = "full", IF window[a] = "none" THEN "unknown" ELSE "open", FALSE)
  ELSE Outcome(FALSE, recorded[a], TRUE)

\* Nothing learned: a 401 of the active account, or a poll that raised; backing
\* off, or a refresh that failed for now; an error; a token or an entry of no
\* use; a 429 of the active account, whatever its window.
Missed(a) == {Outcome(a \in spent, recorded[a], a \in stale),
              Outcome(a \in spent, recorded[a], FALSE),
              Outcome(FALSE, recorded[a], FALSE),
              Outcome(FALSE, recorded[a], TRUE)}
             \cup (IF a = active THEN {Outcome(TRUE, recorded[a], FALSE)} ELSE {})

\* A vault account polled less than poll_interval_vault ago is left as it was.
Throttled(a) == Outcome(a \in spent, recorded[a], a \in stale)

\* poll_usage_and_switch up to the decision, with the accounts its throttle
\* leaves out.  The probe of the active account itself opens a window.
PollBut(throttled) ==
  /\ At(Tick, "idle")
  /\ \E m \in SUBSET (rows \ throttled) :
     \E o \in [m -> UNION {Missed(a) : a \in m}] :
       LET left(a) == IF a \in m THEN o[a]
                      ELSE IF a \in throttled THEN Throttled(a) ELSE Learned(a) IN
       /\ misses + Cardinality(m) <= MaxMisses
       /\ \A a \in m : o[a] \in Missed(a)
       /\ misses' = misses + Cardinality(m)
       /\ spent' = {a \in rows : left(a).spent} \cup (spent \ rows)
       /\ recorded' = [a \in Accounts |-> IF a \in rows THEN left(a).recorded ELSE recorded[a]]
       /\ stale' = {a \in rows : left(a).stale}
  /\ window' = [a \in Accounts |-> IF a = active /\ a \in rows /\ window[a] = "none"
                                   THEN "open" ELSE window[a]]
  /\ Goto(Tick, "decide")
  /\ UNCHANGED <<rows, enabled, flag, swaps, lock, log, job, ops, uses>>

Poll == \E throttled \in SUBSET (rows \ {active}) : PollBut(throttled)

\* maybe_auto_switch up to the check of the candidate's vault entry.
Decide ==
  /\ At(Tick, "decide")
  /\ LET next == NextAccount(active) IN
       IF /\ flag /\ active \in rows /\ next # None
          /\ active \in stale \/ active \in spent
       THEN Start(Tick, "verify", "auto", next, None)
       ELSE Return(Tick)
  /\ UNCHANGED <<config, usage, swaps, lock, log, counts>>

\* _verify_vault_candidate.
Verify ==
  /\ At(Tick, "verify")
  /\ \/ job[Tick].target \in stored /\ Goto(Tick, "wait") /\ UNCHANGED <<job, misses>>
     \/ job[Tick].target \notin stored /\ Return(Tick) /\ UNCHANGED misses
     \/ Miss /\ Return(Tick)
  /\ UNCHANGED <<config, usage, swaps, lock, log, ops, uses>>

----------------------------------------------------------------------------
(* Requests.                                                               *)

Request(h) == At(h, "idle") /\ ops < MaxOps /\ ops' = ops + 1

ManualSwitch(h, t) ==
  /\ Request(h) /\ t \in rows \ {active}
  /\ Start(h, "wait", "manual", t, None)
  /\ UNCHANGED <<config, usage, swaps, lock, log, misses, uses>>

\* update_account commits first; switch_if_active_disabled comes after.
DisableAccount(h, a) ==
  /\ Request(h) /\ a \in enabled
  /\ enabled' = enabled \ {a}
  /\ Start(h, "cascade", "disable", None, a)
  /\ UNCHANGED <<rows, stale, flag, usage, swaps, lock, log, misses, uses>>

Cascade(h) ==
  /\ At(h, "cascade")
  /\ LET a == job[h].victim  next == NextAccount(a) IN
       IF active = a /\ next # None THEN Start(h, "wait", "disable", next, a)
                                    ELSE Return(h)
  /\ UNCHANGED <<config, usage, swaps, lock, log, counts>>

EnableAccount(h, a) ==
  /\ Request(h) /\ a \in rows \ enabled
  /\ enabled' = enabled \cup {a}
  /\ UNCHANGED <<rows, stale, flag, usage, swaps, lock, log, pc, job, misses, uses>>

\* The flag is committed before the activation that may fail; the default
\* account, if it is enabled, may be any.
EnableService(h) ==
  /\ Request(h) /\ ~flag /\ enabled # {}
  /\ flag' = TRUE
  /\ IF active \in enabled THEN UNCHANGED <<pc, job>>
     ELSE \E t \in enabled : Start(h, "wait", "enable", t, None)
  /\ UNCHANGED <<rows, enabled, stale, usage, swaps, lock, log, misses, uses>>

DisableService(h) ==
  /\ Request(h) /\ flag
  /\ flag' = FALSE
  /\ UNCHANGED <<rows, enabled, stale, usage, swaps, lock, log, pc, job, misses, uses>>

\* delete_account: an active victim is left for a replacement first.
DeleteAccount(h, v) ==
  /\ Request(h) /\ v \in rows
  /\ LET next == NextAccount(v) IN
       IF v = active /\ next # None THEN Start(h, "wait", "delete", next, v)
       ELSE Start(h, "erase", "delete", IF v = active THEN None ELSE v, v)
  /\ UNCHANGED <<config, usage, swaps, lock, log, misses, uses>>

----------------------------------------------------------------------------
(* perform_switch.                                                         *)

\* The old account named in the log as it was when the switch was asked for.
MutantEnter(w) ==
  /\ At(w, "wait") /\ lock = None
  /\ lock' = w
  /\ job' = [job EXCEPT ![w].from = IF job[w].victim # None THEN job[w].victim ELSE active]
  /\ Goto(w, "swap")
  /\ UNCHANGED <<config, usage, swaps, log, counts>>

\* The account left is read once the lock is held.
Enter(w) ==
  /\ At(w, "wait") /\ lock = None
  /\ lock' = w
  /\ job' = [job EXCEPT ![w].from = active]
  /\ Goto(w, "swap")
  /\ UNCHANGED <<config, usage, swaps, log, counts>>

\* The credentials move; the account left is checkpointed into the vault.
Activate(t) ==
  /\ t \in stored
  /\ active' = t
  /\ stored' = stored \cup ({active} \ {None})

Swap(w) ==
  /\ At(w, "swap")
  /\ Activate(job[w].target)
  /\ Goto(w, "commit")
  /\ UNCHANGED <<config, usage, zombies, lock, log, job, counts>>

\* The identity changes and no row will say so.
Unlogged == unlogged' = TRUE /\ lastTo' = None

SwapFails(w) ==
  /\ At(w, "swap")
  /\ \/ job[w].target \notin stored /\ UNCHANGED <<swaps, log, misses>>
     \/ Miss /\ "error" \in Failures /\ UNCHANGED <<swaps, log>>
     \/ Miss /\ "half" \in Failures /\ Activate(job[w].target) /\ Unlogged /\ UNCHANGED zombies
     \/ /\ Miss /\ "deadline" \in Failures
        /\ zombies' = zombies \cup {job[w].target}
        /\ UNCHANGED <<active, stored, log>>
  /\ lock' = None
  /\ Return(w)
  /\ UNCHANGED <<config, usage, ops, uses>>

\* The SwitchLog row, and the account_switched event after it.
Commit(w) ==
  /\ At(w, "commit")
  /\ IF active = job[w].target THEN lastTo' = active /\ unlogged' = FALSE ELSE Unlogged
  /\ lock' = None
  /\ IF job[w].op = "delete" THEN Goto(w, "erase") /\ UNCHANGED job ELSE Return(w)
  /\ UNCHANGED <<config, usage, swaps, counts>>

ZombieEnds(t) ==
  /\ t \in zombies
  /\ zombies' = zombies \ {t}
  /\ IF t \in stored THEN Activate(t) /\ Unlogged ELSE UNCHANGED <<active, stored, log>>
  /\ UNCHANGED <<config, usage, lock, pc, job, counts>>

----------------------------------------------------------------------------
(* The rest of delete_account.                                             *)

\* delete_account_everywhere; then, if the victim was active with no account
\* to switch to (its job has no target), the service is disabled.
Erase(h) ==
  LET v == job[h].victim IN
  /\ At(h, "erase")
  /\ stored' = stored \ {v}
  /\ IF active = v THEN active' = None /\ Unlogged ELSE UNCHANGED <<active, log>>
  /\ flag' = (flag /\ job[h].target # None)
  /\ Goto(h, "drop")
  /\ UNCHANGED <<rows, enabled, stale, usage, zombies, lock, job, counts>>

\* The account leaves the table and is still counted as enabled.
MutantDrop(h) ==
  LET v == job[h].victim IN
  /\ At(h, "drop")
  /\ rows' = rows \ {v} /\ stale' = stale \ {v}
  /\ spent' = spent \ {v}
  /\ recorded' = [recorded EXCEPT ![v] = "unknown"]
  /\ Return(h)
  /\ UNCHANGED <<enabled, flag, window, swaps, lock, log, counts>>

\* The row goes, and the caches of the account with it.
Drop(h) ==
  LET v == job[h].victim IN
  /\ At(h, "drop")
  /\ rows' = rows \ {v} /\ enabled' = enabled \ {v} /\ stale' = stale \ {v}
  /\ spent' = spent \ {v}
  /\ recorded' = [recorded EXCEPT ![v] = "unknown"]
  /\ Return(h)
  /\ UNCHANGED <<flag, window, swaps, lock, log, counts>>

----------------------------------------------------------------------------
(* The server's windows: used by the CLI, or by the account's owner        *)
(* elsewhere, and ending with time.                                        *)

Use(a, u) ==
  /\ uses < MaxUse /\ uses' = uses + 1
  /\ a \in Elsewhere \cup {active}
  /\ u \in {"open", "full"} /\ window[a] \notin {u, "full"}
  /\ window' = [window EXCEPT ![a] = u]
  /\ UNCHANGED <<config, recorded, spent, swaps, lock, log, pc, job, ops, misses>>

WindowEnds(a) ==
  /\ uses < MaxUse /\ uses' = uses + 1
  /\ window[a] # "none"
  /\ window' = [window EXCEPT ![a] = "none"]
  /\ recorded' = [recorded EXCEPT ![a] = IF @ = "unknown" THEN @ ELSE "past"]
  /\ UNCHANGED <<config, spent, swaps, lock, log, pc, job, ops, misses>>

----------------------------------------------------------------------------
Init ==
  /\ \E s \in Starts : active = s.active /\ enabled = s.enabled /\ flag = s.flag
  /\ stored = Accounts /\ rows = Accounts /\ stale = {}
  /\ window = [a \in Accounts |-> "none"]
  /\ recorded = [a \in Accounts |-> "unknown"]
  /\ spent = {}
  /\ lock = None /\ zombies = {}
  /\ lastTo = active /\ unlogged = FALSE
  /\ pc = [w \in Actors |-> "idle"]
  /\ job = [w \in Actors |-> NoJob]
  /\ ops = 0 /\ misses = 0 /\ uses = 0

Switching(w) == Enter(w) \/ Swap(w) \/ SwapFails(w) \/ Commit(w)
TickStep     == Poll \/ Decide \/ Verify \/ Switching(Tick)
Handle(h)    == Cascade(h) \/ Switching(h) \/ Erase(h) \/ Drop(h)

Next ==
  \/ TickStep
  \/ \E h \in Handlers :
       \/ Handle(h)
       \/ EnableService(h) \/ DisableService(h)
       \/ \E a \in Accounts : \/ ManualSwitch(h, a) \/ DeleteAccount(h, a)
                              \/ DisableAccount(h, a) \/ EnableAccount(h, a)
  \/ \E a \in Accounts : ZombieEnds(a) \/ WindowEnds(a) \/ \E u \in {"open", "full"} : Use(a, u)

Spec == Init /\ [][Next]_vars

\* A poll that asks the server about an account that is not active: its own
\* throttle has passed, whatever the throttles of the others.
Asks(a) ==
  /\ a \in rows \ {active}
  /\ \E throttled \in SUBSET (rows \ {active, a}) : PollBut(throttled)

\* The poll loop goes on for ever, an account that ticks find in the vault again
\* and again is past its throttle at one of them, and a request that has begun
\* comes to an end.
FairSpec == /\ Spec
            /\ WF_vars(TickStep) /\ \A a \in Accounts : SF_vars(Asks(a))
            /\ \A h \in Handlers : WF_vars(Handle(h))

----------------------------------------------------------------------------
(* Properties.                                                             *)

Windows == {"none", "open", "full"}
Jobs == [op : Ops \cup {None}, target : Accounts \cup {None},
         victim : Accounts \cup {None}, from : Accounts \cup {None}]

TypeOK ==
  /\ active \in Accounts \cup {None}
  /\ stored \subseteq Accounts
  /\ rows \subseteq Accounts /\ enabled \subseteq rows /\ stale \subseteq rows
  /\ flag \in BOOLEAN
  /\ window \in [Accounts -> Windows]
  /\ recorded \in [Accounts -> {"unknown", "open", "past"}]
  /\ spent \subseteq Accounts
  /\ lock \in Actors \cup {None}
  /\ zombies \subseteq Accounts
  /\ lastTo \in Accounts \cup {None}
  /\ unlogged \in BOOLEAN
  /\ pc \in [Actors -> PCs]
  /\ job \in [Actors -> Jobs]
  /\ ops \in 0..MaxOps /\ misses \in 0..MaxMisses /\ uses \in 0..MaxUse

\* The switch log is a chain, whoever switches at the same time: a row starts
\* at the account the one before it ended with ("clients see a clean A -> B
\* event", switcher.py:20-25), and the newest ends with the active account.
\* Only a swap past its deadline, one that fails after the identity was
\* written, and the deletion of the active account change it without a row.
LogChains ==
  /\ lock = None /\ ~unlogged => lastTo = active
  /\ \A w \in Actors : At(w, "commit") /\ ~unlogged => job[w].from = lastTo

\* The active account has spent its window or lost its credentials and another
\* one could take over.
Needy == flag /\ active \in rows /\ (active \in stale \/ window[active] = "full")
Relievable == \E t \in enabled \ {active} : t \in stored /\ window[t] # "full"

\* Auto-switch never gets stuck on an account that is spent, or in going back
\* and forth between such accounts, while there is one to switch to - once its
\* polls and swaps no longer fail (README.md:237).
Relief == []<>~(Needy /\ Relievable)

\* Auto-switch never goes to an account whose last probe said that its window
\* is spent, when it still is: get_next_account is to "skip candidates whose
\* last probe was rate-limited" (switcher.py:45-47), but for one whose window
\* has ended, "guaranteed to have 0% utilization" (switcher.py:58-60).
PickHasRoom ==
  [][\A w \in Actors :
       job'[w] # job[w] /\ job'[w].op = "auto" =>
         ~(job'[w].target \in spent /\ window[job'[w].target] = "full")]_vars
=============================================================================
