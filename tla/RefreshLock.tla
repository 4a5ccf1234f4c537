---------------------------- MODULE RefreshLock ----------------------------
(***************************************************************************)
(* The per-account refresh lock, a threading.Lock that event-loop tasks    *)
(* take through the executor (with_refresh_lock_async) and swaps take in   *)
(* their own executor thread, nested around the credential lock; the pool  *)
(* of executor threads all of them need; perform_switch's deadline, which  *)
(* gives up on a swap thread it cannot stop and forgets the lock; deletion *)
(* of an account, which forgets its lock too; and the cancellation of the  *)
(* poll loop when the server shuts down.                                   *)
(*                                                                         *)
(* What the holders do with the tokens is TokenRefresh's and VaultSwap's.  *)
(***************************************************************************)
EXTENDS Naturals, Sequences, FiniteSets

CONSTANTS
  Emails,
  Pollers,       \* the poll tick's refreshes, one per account that needs one
  Revalidators,  \* POST /revalidate handlers
  Switches,      \* perform_switch for a request
  AutoSwitches,  \* perform_switch at the end of the tick
  None,
  PoolSize,      \* threads of the default executor
  MaxDrops,      \* bound: locks forgotten in all
  Faults         \* a subset of FaultKinds

FaultKinds == {"deadline",  \* a swap takes longer than _SWAP_DEADLINE
               "delete",    \* an account is deleted, and may be added again
               "shutdown"}  \* the lifespan cancels the poll loop

Refreshers == Pollers \cup Revalidators
Swaps      == Switches \cup AutoSwitches
Tasks      == Refreshers \cup Swaps
PollTasks  == Pollers \cup AutoSwitches

ASSUME LockConstantsOK ==
  /\ Pollers \cap Revalidators = {} /\ Switches \cap AutoSwitches = {}
  /\ Refreshers \cap Swaps = {}
  /\ None \notin Tasks
  /\ PoolSize \in Nat \ {0} /\ MaxDrops \in Nat
  /\ Faults \subseteq FaultKinds

\* A lock object: the n-th created for an account.
Locks == Emails \X (0..MaxDrops)

ASSUME LockNoneOK == None \notin Locks

VARIABLES
  pc,       \* control point of each task, or of the thread it has left behind
  lock,     \* the lock object each task has got
  current,  \* _refresh_locks: the number of the account's registered object
  holder,   \* per lock object, who holds it
  cred,     \* holder of _credential_lock
  switch,   \* holder of _switch_lock
  queue,    \* executor jobs without a thread, by task
  running,  \* tasks whose job has a thread
  awaited,  \* tasks whose job somebody waits for
  drops,    \* locks forgotten so far, for the bound
  stopped   \* has the lifespan ended?

table == <<current, drops>>
locks == <<table, holder, cred, switch>>
pool  == <<queue, running>>
vars  == <<pc, lock, locks, pool, awaited, stopped>>

PCs == {"idle", "done",
        \* refreshers: acquire job, lock held, HTTP call, save job and its end
        "acquire", "granted", "post", "save", "saving", "saved",
        \* an acquire whose task was cancelled, before and after it is granted
        "ghost", "ghostHeld",
        \* swaps: for _switch_lock, a thread, the refresh lock, the credential
        \* lock; moving credentials; finished and not yet seen by the loop
        "switch", "swap", "swapLock", "swapCred", "swapping", "swapped"}

At(t, p)   == pc[t] = p
Goto(t, p) == pc' = [pc EXCEPT ![t] = p]
Mail(t)    == lock[t][1]

\* The object get_refresh_lock answers.
Registered(e) == <<e, current[e]>>

\* forget_refresh_lock: the next one to ask gets a new object.
Forget(e) ==
  /\ drops < MaxDrops /\ drops' = drops + 1
  /\ current' = [current EXCEPT ![e] = @ + 1]

\* Has the coroutine begun and not ended?
UnderWay(t) == At(t, "switch") \/ t \in awaited

Submit(t)  == queue' = Append(queue, t) /\ UNCHANGED running
Finish(t)  == running' = running \ {t} /\ UNCHANGED queue
Drop(l)    == holder' = [holder EXCEPT ![l] = None]

----------------------------------------------------------------------------
(* The executor.                                                           *)

\* A free thread takes the oldest job and drops it if it has been cancelled; a
\* swap's job begins by getting the account's lock object.
Dispatch ==
  /\ queue # <<>> /\ Cardinality(running) < PoolSize
  /\ queue' = Tail(queue)
  /\ LET t == Head(queue) IN
       /\ running' = IF At(t, "done") THEN running ELSE running \cup {t}
       /\ IF t \in Swaps /\ ~At(t, "done")
          THEN lock' = [lock EXCEPT ![t] = Registered(Mail(t))] /\ Goto(t, "swapLock")
          ELSE UNCHANGED <<lock, pc>>
  /\ UNCHANGED <<locks, awaited, stopped>>

----------------------------------------------------------------------------
(* with_refresh_lock_async around _refresh_vault_token.                    *)

\* A tick switches after all its refreshes have ended, and the next tick
\* begins when that switch has been answered or given up.
Begin(r, e) ==
  /\ At(r, "idle") /\ ~stopped
  /\ r \in Pollers => \A a \in AutoSwitches : ~UnderWay(a)
  /\ lock' = [lock EXCEPT ![r] = Registered(e)]
  /\ Goto(r, "acquire") /\ Submit(r)
  /\ awaited' = awaited \cup {r}
  /\ UNCHANGED <<locks, stopped>>

\* The thread goes back to the pool without having got the lock.
MutantGrab(r) ==
  /\ r \in running /\ pc[r] \in {"acquire", "ghost"}
  /\ holder[lock[r]] = None
  /\ holder' = [holder EXCEPT ![lock[r]] = r]
  /\ Goto(r, IF At(r, "acquire") THEN "granted" ELSE "ghostHeld")
  /\ UNCHANGED <<pool, lock, table, cred, switch, awaited, stopped>>

\* lock.acquire returns in its thread, for a task that waits or one that was
\* cancelled.
Grab(r) ==
  /\ r \in running /\ pc[r] \in {"acquire", "ghost"}
  /\ holder[lock[r]] = None
  /\ holder' = [holder EXCEPT ![lock[r]] = r]
  /\ Goto(r, IF At(r, "acquire") THEN "granted" ELSE "ghostHeld")
  /\ Finish(r)
  /\ UNCHANGED <<lock, table, cred, switch, awaited, stopped>>

Resume(r) ==
  /\ At(r, "granted")
  /\ Goto(r, "post")
  /\ UNCHANGED <<lock, locks, pool, awaited, stopped>>

\* No done-callback: the granted lock has no owner left to release it.
MutantGhostRelease(r) ==
  /\ At(r, "ghostHeld")
  /\ Goto(r, "done")
  /\ UNCHANGED <<lock, locks, pool, awaited, stopped>>

\* _release_on_acquire.
GhostRelease(r) ==
  /\ At(r, "ghostHeld")
  /\ Drop(lock[r])
  /\ Goto(r, "done")
  /\ UNCHANGED <<lock, table, cred, switch, pool, awaited, stopped>>

PostAnswered(r) ==
  /\ At(r, "post")
  /\ Goto(r, "save") /\ Submit(r)
  /\ UNCHANGED <<lock, locks, awaited, stopped>>

Leave(r) == Goto(r, "done") /\ awaited' = awaited \ {r}

\* An error returned or raised out of the `async with` without a release.
MutantPostFailed(r) ==
  /\ At(r, "post")
  /\ Leave(r)
  /\ UNCHANGED <<lock, locks, pool, stopped>>

PostFailed(r) ==
  /\ At(r, "post")
  /\ Drop(lock[r])
  /\ Leave(r)
  /\ UNCHANGED <<lock, table, cred, switch, pool, stopped>>

\* save_refreshed_vault_token, also of a task that was cancelled.
SaveBegin(r) ==
  /\ r \in running /\ At(r, "save")
  /\ cred = None
  /\ cred' = r
  /\ Goto(r, "saving")
  /\ UNCHANGED <<lock, table, holder, switch, pool, awaited, stopped>>

SaveEnd(r) ==
  /\ At(r, "saving")
  /\ cred' = None
  /\ Goto(r, IF r \in awaited THEN "saved" ELSE "done")
  /\ Finish(r)
  /\ UNCHANGED <<lock, table, holder, switch, awaited, stopped>>

Release(r) ==
  /\ At(r, "saved")
  /\ Drop(lock[r])
  /\ Leave(r)
  /\ UNCHANGED <<lock, table, cred, switch, pool, stopped>>

----------------------------------------------------------------------------
(* perform_switch and swap_to_account.                                     *)

Request(s, e) ==
  /\ At(s, "idle") /\ ~stopped
  /\ s \in AutoSwitches => \A r \in Pollers : ~UnderWay(r)
  /\ lock' = [lock EXCEPT ![s] = Registered(e)]
  /\ Goto(s, "switch")
  /\ UNCHANGED <<locks, pool, awaited, stopped>>

Enter(s) ==
  /\ At(s, "switch") /\ switch = None
  /\ switch' = s
  /\ Goto(s, "swap") /\ Submit(s)
  /\ awaited' = awaited \cup {s}
  /\ UNCHANGED <<lock, table, holder, cred, stopped>>

\* A swap that leaves the refresh lock out.
MutantSwapLock(s) ==
  /\ At(s, "swapLock")
  /\ Goto(s, "swapCred")
  /\ UNCHANGED <<lock, locks, pool, awaited, stopped>>

SwapLock(s) ==
  /\ At(s, "swapLock") /\ holder[lock[s]] = None
  /\ holder' = [holder EXCEPT ![lock[s]] = s]
  /\ Goto(s, "swapCred")
  /\ UNCHANGED <<lock, table, cred, switch, pool, awaited, stopped>>

SwapCred(s) ==
  /\ At(s, "swapCred") /\ cred = None
  /\ cred' = s
  /\ Goto(s, "swapping")
  /\ UNCHANGED <<lock, table, holder, switch, pool, awaited, stopped>>

\* The thread ends, with or without a SwapError; both `with` blocks are left.
SwapEnd(s) ==
  /\ At(s, "swapping")
  /\ cred' = None
  /\ Drop(lock[s])
  /\ Goto(s, IF s \in awaited THEN "swapped" ELSE "done")
  /\ Finish(s)
  /\ UNCHANGED <<lock, table, switch, awaited, stopped>>

Answer(s) ==
  /\ At(s, "swapped")
  /\ switch' = None
  /\ Leave(s)
  /\ UNCHANGED <<lock, table, holder, cred, pool, stopped>>

InThread == {"swapLock", "swapCred", "swapping"}

\* wait_for gives up: a queued job is cancelled, a running one goes on with
\* nobody waiting, and whatever lock it holds.
Deadline(s) ==
  /\ "deadline" \in Faults /\ s \in awaited
  /\ pc[s] \in InThread \cup {"swap"}
  /\ Forget(Mail(s))
  /\ switch' = None
  /\ awaited' = awaited \ {s}
  /\ IF At(s, "swap") THEN Goto(s, "done") ELSE UNCHANGED pc
  /\ UNCHANGED <<lock, holder, cred, pool, stopped>>

\* delete_account: whatever goes on for the account goes on.
Delete(e) ==
  /\ "delete" \in Faults /\ ~stopped
  /\ Forget(e)
  /\ UNCHANGED <<pc, lock, holder, cred, switch, pool, awaited, stopped>>

----------------------------------------------------------------------------
(* Shutdown.                                                               *)

\* Where a cancelled task of the poll loop, or the thread it leaves, ends up.
Cancelled(t) ==
  CASE At(t, "acquire") -> "ghost"
    [] At(t, "granted") -> "ghostHeld"
    [] t \in running /\ ~At(t, "acquire") -> pc[t]   \* a save or a swap goes on
    [] OTHER            -> "done"

\* The handlers' requests have ended; the poll loop is cancelled where it
\* stands, and every `finally` and `async with` on the way out is left.
Shutdown ==
  /\ "shutdown" \in Faults /\ ~stopped
  /\ \A t \in Revalidators \cup Switches : ~UnderWay(t)
  /\ stopped' = TRUE
  /\ pc' = [t \in Tasks |-> IF t \in PollTasks THEN Cancelled(t) ELSE pc[t]]
  /\ holder' = [l \in Locks |->
       IF \E r \in Pollers : /\ holder[l] = r
                             /\ pc[r] \in {"post", "save", "saving", "saved"}
       THEN None ELSE holder[l]]
  /\ switch' = None
  /\ awaited' = {}
  /\ UNCHANGED <<lock, table, cred, pool>>

----------------------------------------------------------------------------
Init ==
  /\ pc = [t \in Tasks |-> "idle"]
  /\ lock = [t \in Tasks |-> None]
  /\ current = [e \in Emails |-> 0]
  /\ holder = [l \in Locks |-> None]
  /\ cred = None /\ switch = None
  /\ queue = <<>> /\ running = {} /\ awaited = {}
  /\ drops = 0 /\ stopped = FALSE

\* What a task that has begun, and the threads, go on to do.
Proceed(t) ==
  \/ t \in Refreshers /\ \/ Grab(t) \/ Resume(t) \/ GhostRelease(t)
                         \/ PostAnswered(t) \/ PostFailed(t)
                         \/ SaveBegin(t) \/ SaveEnd(t) \/ Release(t)
  \/ t \in Swaps /\ (Enter(t) \/ SwapLock(t) \/ SwapCred(t) \/ SwapEnd(t) \/ Answer(t))

Next ==
  \/ Dispatch
  \/ \E t \in Tasks : Proceed(t)
  \/ \E r \in Refreshers, e \in Emails : Begin(r, e)
  \/ \E s \in Swaps, e \in Emails : Request(s, e)
  \/ \E s \in Swaps : Deadline(s)
  \/ \E e \in Emails : Delete(e)
  \/ Shutdown

Spec == Init /\ [][Next]_vars

\* Threads run, HTTP calls and subprocesses have timeouts, and a released lock
\* goes to somebody who waits for it.
FairSpec == Spec /\ WF_vars(Dispatch) /\ \A t \in Tasks : WF_vars(Proceed(t))

----------------------------------------------------------------------------
(* Properties.                                                             *)

TypeOK ==
  /\ pc \in [Tasks -> PCs]
  /\ lock \in [Tasks -> Locks \cup {None}]
  /\ current \in [Emails -> 0..MaxDrops]
  /\ holder \in [Locks -> Tasks \cup {None}]
  /\ cred \in Tasks \cup {None}
  /\ switch \in Swaps \cup {None}
  /\ queue \in Seq(Tasks)
  /\ running \subseteq Tasks /\ Cardinality(running) <= PoolSize
  /\ \A t \in running :
       pc[t] \in {"acquire", "ghost", "save", "saving"} \cup InThread
  /\ awaited \subseteq Tasks
  /\ drops \in 0..MaxDrops /\ stopped \in BOOLEAN

\* At work with the account's tokens, between acquire and release.
Working(t) == pc[t] \in {"post", "save", "saving", "saved", "swapCred", "swapping"}

\* Two at work for one account.
Clash(e) ==
  \E t, u \in Tasks : t # u /\ Working(t) /\ Working(u) /\ Mail(t) = e /\ Mail(u) = e

\* One account is worked on by one task or thread at a time, also when the
\* poll loop is cancelled with a save or a swap in flight - as long as its lock
\* has not been forgotten, by a deadline or a deletion.
ExclusiveUntilForgotten == \A e \in Emails : current[e] = 0 => ~Clash(e)

\* When nothing is under way nothing is held: no cancellation or deadline, at
\* any point of the acquire, leaves a ghost as holder
\* (with_refresh_lock_async's docstring).
NoGhostHolder ==
  (\A t \in Tasks : pc[t] \in {"idle", "done"}) =>
    /\ \A l \in Locks : holder[l] = None
    /\ cred = None /\ switch = None /\ running = {}

\* Whoever starts comes to an end, in every order of two locks, the switch
\* lock and the pool's threads: the lock order holds and nobody waits for a
\* lock that is never released.
EveryoneEnds == \A t \in Tasks : ~At(t, "idle") ~> At(t, "done")
=============================================================================
