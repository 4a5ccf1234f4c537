--------------------------- MODULE RefreshLock_proofs ---------------------------
(***************************************************************************)
(* RefreshLock's safety for any number of accounts, tasks, threads and     *)
(* forgotten locks.                                                        *)
(***************************************************************************)
EXTENDS RefreshLock, FiniteSetTheorems, SequenceTheorems, TLAPS

USE DEF At, Goto, locks, table, pool

----------------------------------------------------------------------------
(* The inductive invariant.                                                *)

\* TypeOK by parts.
ControlOK ==
  /\ pc \in [Tasks -> PCs] /\ awaited \subseteq Tasks /\ stopped \in BOOLEAN
TableOK ==
  /\ lock \in [Tasks -> Locks \cup {None}]
  /\ current \in [Emails -> 0..MaxDrops] /\ drops \in 0..MaxDrops
HeldOK ==
  /\ holder \in [Locks -> Tasks \cup {None}]
  /\ cred \in Tasks \cup {None} /\ switch \in Swaps \cup {None}
RunningAt == {"acquire", "ghost", "save", "saving"} \cup InThread
PoolOK ==
  /\ queue \in Seq(Tasks)
  /\ running \subseteq Tasks /\ Cardinality(running) <= PoolSize
  /\ \A t \in running : pc[t] \in RunningAt

\* Who may be where, and that whoever has begun has got a lock.
Begun       == {"acquire", "granted", "post", "save", "saving", "saved"}
RefresherAt == Begun \cup {"idle", "done", "ghost", "ghostHeld"}
SwapAt      == InThread \cup {"idle", "done", "switch", "swap", "swapped"}
RoleOK ==
  /\ \A r \in Refreshers : pc[r] \in RefresherAt
  /\ \A s \in Swaps : pc[s] \in SwapAt
  /\ \A t \in Tasks : pc[t] \notin {"idle", "done"} => lock[t] \in Locks
\* Neither a count of locks nor the number of a lock somebody has got runs ahead.
NumberOK ==
  /\ \A e \in Emails : current[e] <= drops
  /\ \A t \in Tasks : lock[t] \in Locks => lock[t][2] <= current[Mail(t)]

\* A job has a place in the queue or a thread, not both.
QueuedAt == {"acquire", "ghost", "save", "swap", "done"}
QueueOK ==
  /\ IsFiniteSet(running)
  /\ \A i, j \in 1..Len(queue) : queue[i] = queue[j] => i = j
  /\ \A i \in 1..Len(queue) :
       /\ queue[i] \notin running
       /\ pc[queue[i]] \in QueuedAt
\* What a thread does is done in a thread.
ThreadAt == InThread \cup {"saving"}
ThreadOK == \A t \in Tasks : pc[t] \in ThreadAt => t \in running

\* Before the shutdown a refresh is awaited from its beginning to its end; after
\* it nobody is, and only threads and granted locks are left of the poll loop.
AwaitedOK ==
  /\ ~stopped => \A r \in Refreshers : r \in awaited <=> pc[r] \in Begun
  /\ ~stopped => \A r \in Refreshers : pc[r] \notin {"ghost", "ghostHeld"}
  /\ stopped => awaited = {} /\ \A t \in Tasks : ~At(t, "switch")
  /\ stopped => \A r \in Revalidators : pc[r] \in {"idle", "done"}
  /\ stopped => \A r \in Pollers : pc[r] \notin {"acquire", "granted", "post", "saved"}
  /\ \A s \in Swaps : s \in awaited => pc[s] \in {"swap", "swapped"} \cup InThread
  /\ \A s \in Swaps : pc[s] \in {"swap", "swapped"} => s \in awaited
  /\ \A s \in Swaps : s \in awaited <=> switch = s
\* The tick's refreshes and its switch do not overlap.
TickOK == ~stopped => \A r \in Pollers, a \in AutoSwitches : ~(UnderWay(r) /\ UnderWay(a))

\* The save of a cancelled refresh goes on after its lock was released.
Orphan(t) == stopped /\ t \in Pollers /\ pc[t] \in {"save", "saving"}
Owns(t) ==
  /\ pc[t] \in {"granted", "post", "save", "saving", "saved", "ghostHeld", "swapCred", "swapping"}
  /\ ~Orphan(t)
HolderOK == \A l \in Locks, t \in Tasks : holder[l] = t <=> Owns(t) /\ lock[t] = l
CredOK   == \A t \in Tasks : cred = t <=> pc[t] \in {"saving", "swapping"}

\* What is at work without holding the account's lock, or without anybody waiting,
\* is alone, or the lock has been forgotten.
OrphanOK ==
  /\ \A t, u \in Tasks : Orphan(t) /\ Orphan(u) /\ lock[t] = lock[u] => t = u
  /\ \A s \in Swaps : pc[s] \in InThread /\ s \notin awaited =>
       current[Mail(s)] > 0 \/ (stopped /\ \A r \in Tasks : ~Orphan(r))

TypeInv == ControlOK /\ TableOK /\ HeldOK /\ PoolOK /\ RoleOK /\ NumberOK
JobInv  == QueueOK /\ ThreadOK /\ AwaitedOK /\ TickOK
LockInv == HolderOK /\ CredOK /\ OrphanOK

IInv == TypeInv /\ JobInv /\ LockInv

----------------------------------------------------------------------------
(* Types and roles.                                                        *)

LEMMA Cast ==
  /\ Pollers \subseteq Refreshers /\ Revalidators \subseteq Refreshers
  /\ \A r \in Refreshers : r \in Pollers <=> r \notin Revalidators
  /\ Switches \subseteq Swaps /\ AutoSwitches \subseteq Swaps
  /\ \A s \in Swaps : s \in AutoSwitches <=> s \notin Switches
  /\ Refreshers \subseteq Tasks /\ Swaps \subseteq Tasks
  /\ \A t \in Tasks : t \in Refreshers <=> t \notin Swaps
  /\ \A t \in Tasks : t \in PollTasks <=> t \in Pollers \/ t \in AutoSwitches
  /\ \A t \in Tasks :
       t \in Pollers \/ t \in Revalidators \/ t \in Switches \/ t \in AutoSwitches
  /\ \A t \in Pollers : t \notin AutoSwitches
  /\ None \notin Tasks /\ None \notin Locks
  /\ PoolSize \in Nat /\ MaxDrops \in Nat
  BY LockConstantsOK, LockNoneOK DEF Refreshers, Swaps, Tasks, PollTasks

LEMMA TypeParts == TypeOK <=> ControlOK /\ TableOK /\ HeldOK /\ PoolOK
  BY DEF TypeOK, ControlOK, TableOK, HeldOK, PoolOK, RunningAt

\* The registered lock of an account.
LEMMA Numbered ==
  ASSUME TypeInv, NEW e \in Emails
  PROVE  /\ Registered(e) \in Locks /\ Registered(e)[1] = e /\ Registered(e)[2] = current[e]
         /\ current[e] \in Nat
  BY Cast DEF TypeInv, TableOK, Registered, Locks

LEMMA LockParts ==
  ASSUME NEW l \in Locks
  PROVE  l[1] \in Emails /\ l[2] \in Nat /\ l = <<l[1], l[2]>>
  BY Cast DEF Locks

\* What a step of one task has to leave right.
LEMMA TypeTask ==
  ASSUME TypeInv, NEW t \in Tasks, NEW p, Goto(t, p), UNCHANGED <<table, stopped>>,
         t \in Refreshers => p \in RefresherAt, t \in Swaps => p \in SwapAt,
         \/ lock' = lock /\ pc[t] \notin {"idle", "done"}
         \/ \E e \in Emails : lock' = [lock EXCEPT ![t] = Registered(e)],
         awaited' \subseteq awaited \cup {t},
         holder' \in [Locks -> Tasks \cup {None}],
         cred' \in {cred, None, t}, switch' \in {switch, None} \/ (t \in Swaps /\ switch' = t),
         \/ running' = running /\ (t \in running => p \in RunningAt)
         \/ running' = running \ {t} /\ IsFiniteSet(running),
         queue' \in Seq(Tasks)
  PROVE  TypeInv'
  <1>1. ControlOK'
    BY Cast DEF TypeInv, ControlOK, RefresherAt, Begun, SwapAt, InThread, PCs
  <1>2. TableOK' /\ NumberOK'
    <2>1. CASE lock' = lock
      BY <2>1 DEF TypeInv, TableOK, NumberOK, Mail
    <2>2. CASE \E e \in Emails : lock' = [lock EXCEPT ![t] = Registered(e)]
      BY <2>2, Numbered DEF TypeInv, TableOK, NumberOK, Mail
    <2> QED
      BY <2>1, <2>2
  <1>3. HeldOK'
    BY DEF TypeInv, HeldOK
  <1>4. PoolOK'
    <2>1. CASE running' = running /\ (t \in running => p \in RunningAt)
      BY <2>1 DEF TypeInv, PoolOK, ControlOK
    <2>2. CASE running' = running \ {t} /\ IsFiniteSet(running)
      <3>1. Cardinality(running') <= Cardinality(running) /\ Cardinality(running') \in Nat
            /\ Cardinality(running) \in Nat
        <4>1. running \ {t} \in SUBSET running
          OBVIOUS
        <4>2. IsFiniteSet(running \ {t}) /\ Cardinality(running \ {t}) <= Cardinality(running)
          BY <2>2, <4>1, FS_Subset
        <4> QED
          BY <2>2, <4>2, FS_CardinalityType
      <3>2. Cardinality(running') <= PoolSize
        BY <3>1, Cast DEF TypeInv, PoolOK
      <3> QED
        BY <2>2, <3>2 DEF TypeInv, PoolOK, ControlOK
    <2> QED
      BY <2>1, <2>2
  <1>5. RoleOK'
    <2>1. lock'[t] \in Locks /\ \A u \in Tasks : u # t => lock'[u] = lock[u] /\ pc'[u] = pc[u]
      BY Numbered DEF TypeInv, TableOK, ControlOK, RoleOK
    <2> QED
      BY <2>1, Cast DEF TypeInv, ControlOK, RoleOK
  <1> QED
    BY <1>1, <1>2, <1>3, <1>4, <1>5 DEF TypeInv

LEMMA TypeDispatch ==
  ASSUME TypeInv, QueueOK, Dispatch PROVE TypeInv' /\ QueueOK'
  <1> DEFINE t == Head(queue)
  <1>1. /\ t = queue[1] /\ 1 \in 1..Len(queue) /\ t \in Tasks /\ queue' \in Seq(Tasks)
        /\ Len(queue') = Len(queue) - 1 /\ Len(queue) \in Nat
        /\ \A i \in 1..Len(queue') : queue'[i] = queue[i + 1] /\ i + 1 \in 1..Len(queue)
    BY HeadTailProperties, LenProperties, EmptySeq DEF TypeInv, PoolOK, Dispatch
  <1>2. t \notin running /\ pc[t] \in QueuedAt
    BY <1>1 DEF QueueOK
  <1>3. IsFiniteSet(running') /\ Cardinality(running') <= PoolSize
    <2>1. Cardinality(running) \in Nat
      BY FS_CardinalityType DEF QueueOK
    <2>2. running' = running \/ running' = running \cup {t}
      BY DEF Dispatch
    <2>3. CASE running' = running
      BY <2>3 DEF QueueOK, TypeInv, PoolOK
    <2>4. CASE running' = running \cup {t}
      <3>1. IsFiniteSet(running')
        BY <2>4, FS_AddElement DEF QueueOK
      <3>2. Cardinality(running') <= Cardinality(running) + 1
        <4>1. IsFiniteSet(running)
          BY DEF QueueOK
        <4>2. Cardinality(running') = IF t \in running THEN Cardinality(running)
                                                       ELSE Cardinality(running) + 1
          BY <2>4, <4>1, FS_AddElement
        <4> QED
          BY <2>1, <4>2
      <3>3. Cardinality(running) < PoolSize
        BY DEF Dispatch
      <3>4. Cardinality(running') \in Nat
        BY <3>1, FS_CardinalityType
      <3> QED
        BY <2>1, <3>1, <3>2, <3>3, <3>4, Cast
    <2> QED
      BY <2>2, <2>3, <2>4
  <1>4. CASE At(t, "done")
    <2>1. TypeInv'
      BY <1>1, <1>3, <1>4 DEF Dispatch, TypeInv, ControlOK, TableOK, HeldOK, PoolOK, RoleOK,
           NumberOK, Mail
    <2>2. QueueOK'
      BY <1>1, <1>3, <1>4 DEF Dispatch, QueueOK
    <2> QED
      BY <2>1, <2>2
  <1>5. CASE t \in Swaps /\ ~At(t, "done")
    <2>1. /\ running' = running \cup {t} /\ Goto(t, "swapLock")
          /\ lock' = [lock EXCEPT ![t] = Registered(Mail(t))]
          /\ UNCHANGED <<locks, awaited, stopped>>
      BY <1>5 DEF Dispatch
    <2>2. Mail(t) \in Emails
      BY <1>1, <1>2, <1>5, LockParts DEF TypeInv, RoleOK, QueuedAt, Mail
    <2>3. ControlOK' /\ HeldOK'
      BY <2>1 DEF TypeInv, ControlOK, HeldOK, PCs
    <2>4. TableOK' /\ NumberOK'
      <3>1. TableOK' /\ UNCHANGED <<current, drops>>
        BY <2>1, <2>2, Numbered DEF TypeInv, TableOK
      <3>2. /\ lock'[t] = Registered(Mail(t))
            /\ \A u \in Tasks : u # t => lock'[u] = lock[u]
        BY <1>1, <2>1 DEF TypeInv, TableOK
      <3> QED
        BY <2>2, <3>1, <3>2, Numbered DEF TypeInv, NumberOK, Mail
    <2>5. PoolOK'
      BY <1>1, <1>3, <2>1 DEF TypeInv, PoolOK, ControlOK, RunningAt, InThread
    <2>6. RoleOK'
      <3>1. /\ lock'[t] \in Locks /\ pc'[t] = "swapLock"
            /\ \A u \in Tasks : u # t => lock'[u] = lock[u] /\ pc'[u] = pc[u]
        BY <1>1, <2>1, <2>2, Numbered DEF TypeInv, TableOK, ControlOK
      <3> QED
        BY <1>5, <3>1, Cast DEF TypeInv, RoleOK, SwapAt, InThread
    <2>7. QueueOK'
      <3>1. \A i \in 1..Len(queue') : queue'[i] # t /\ queue'[i] \in Tasks
        BY <1>1 DEF QueueOK, TypeInv, PoolOK
      <3> QED
        <4>1. \A i \in 1..Len(queue') :
                queue'[i] \notin running' /\ pc'[queue'[i]] \in QueuedAt
          BY <1>1, <2>1, <3>1 DEF QueueOK, TypeInv, ControlOK
        <4>2. \A i, j \in 1..Len(queue') : queue'[i] = queue'[j] => i = j
          <5> TAKE i, j \in 1..Len(queue')
          <5>1. /\ i + 1 \in 1..Len(queue) /\ j + 1 \in 1..Len(queue)
                /\ queue'[i] = queue[i + 1] /\ queue'[j] = queue[j + 1]
            BY <1>1
          <5>2. queue[i + 1] = queue[j + 1] => i + 1 = j + 1
            BY <5>1 DEF QueueOK
          <5> QED
            BY <5>1, <5>2
        <4> QED
          BY <1>3, <4>1, <4>2 DEF QueueOK
    <2> QED
      BY <2>3, <2>4, <2>5, <2>6, <2>7 DEF TypeInv
  <1>6. CASE t \notin Swaps /\ ~At(t, "done")
    <2>1. running' = running \cup {t} /\ UNCHANGED <<lock, pc, locks, awaited, stopped>>
      BY <1>6 DEF Dispatch
    <2>2. pc[t] \in RunningAt
      BY <1>1, <1>2, <1>6, Cast DEF TypeInv, RoleOK, RefresherAt, Begun, QueuedAt, RunningAt
    <2>3. ControlOK' /\ TableOK' /\ HeldOK' /\ RoleOK' /\ NumberOK'
      BY <2>1 DEF TypeInv, ControlOK, TableOK, HeldOK, RoleOK, NumberOK, Mail
    <2>4. PoolOK'
      BY <1>1, <1>3, <2>1, <2>2 DEF TypeInv, PoolOK
    <2>5. QueueOK'
      <3>1. \A i \in 1..Len(queue') : queue'[i] # t
        BY <1>1 DEF QueueOK
      <3> QED
        BY <1>1, <1>3, <2>1, <3>1 DEF QueueOK
    <2> QED
      BY <2>3, <2>4, <2>5 DEF TypeInv
  <1> QED
    BY <1>4, <1>5, <1>6

\* A step of a task that has no place in the queue, or leaves its job.
LEMMA QueueKept ==
  ASSUME TypeInv, QueueOK, NEW t \in Tasks, NEW p, Goto(t, p), UNCHANGED queue,
         running' = running \/ running' = running \ {t},
         t \in running \/ pc[t] \notin QueuedAt \/ p \in QueuedAt
  PROVE  QueueOK'
  <1>1. IsFiniteSet(running')
    BY FS_RemoveElement DEF QueueOK
  <1>2. ASSUME NEW i \in 1..Len(queue)
        PROVE  queue[i] \notin running' /\ pc'[queue[i]] \in QueuedAt
    BY DEF QueueOK, TypeInv, ControlOK, PoolOK
  <1> QED
    BY <1>1, <1>2 DEF QueueOK

LEMMA QueueSubmit ==
  ASSUME TypeInv, QueueOK, NEW t \in Tasks, NEW p \in QueuedAt, Goto(t, p), Submit(t),
         pc[t] \notin QueuedAt \cup RunningAt
  PROVE  queue' \in Seq(Tasks) /\ QueueOK'
  <1>1. /\ queue' \in Seq(Tasks) /\ Len(queue) \in Nat /\ Len(queue') = Len(queue) + 1
        /\ queue'[Len(queue) + 1] = t
        /\ \A i \in 1..Len(queue) : queue'[i] = queue[i] /\ queue[i] \in Tasks
    BY AppendProperties, LenProperties DEF Submit, TypeInv, PoolOK
  <1>2. t \notin running /\ \A i \in 1..Len(queue) : queue[i] # t
    BY DEF TypeInv, PoolOK, QueueOK
  <1>3. \A i \in 1..Len(queue') : i \in 1..Len(queue) \/ i = Len(queue) + 1
    BY <1>1
  <1>4. \A i \in 1..Len(queue') : queue'[i] \notin running' /\ pc'[queue'[i]] \in QueuedAt
    BY <1>1, <1>2, <1>3 DEF Submit, TypeInv, ControlOK, QueueOK
  <1>5. \A i, j \in 1..Len(queue') : queue'[i] = queue'[j] => i = j
    <2> TAKE i, j \in 1..Len(queue')
    <2>1. CASE i \in 1..Len(queue) /\ j \in 1..Len(queue)
      BY <1>1, <2>1 DEF QueueOK
    <2>2. CASE i = Len(queue) + 1 /\ j \in 1..Len(queue)
      BY <1>1, <1>2, <2>2
    <2>3. CASE i \in 1..Len(queue) /\ j = Len(queue) + 1
      BY <1>1, <1>2, <2>3
    <2>4. CASE i = Len(queue) + 1 /\ j = Len(queue) + 1
      BY <2>4
    <2> QED
      BY <1>3, <2>1, <2>2, <2>3, <2>4
  <1> QED
    BY <1>1, <1>4, <1>5 DEF QueueOK, Submit

\* What a refresher's step changes of the locks and of who waits.
LEMMA TypeRefresher ==
  ASSUME TypeInv, QueueOK, NEW r \in Refreshers,
         \/ \E e \in Emails : Begin(r, e)
         \/ Grab(r) \/ Resume(r) \/ GhostRelease(r) \/ PostAnswered(r) \/ PostFailed(r)
         \/ SaveBegin(r) \/ SaveEnd(r) \/ Release(r)
  PROVE  TypeInv' /\ QueueOK'
  <1> USE Cast
  <1>0. queue \in Seq(Tasks) /\ IsFiniteSet(running)
    BY DEF TypeInv, PoolOK, QueueOK
  <1>1. ASSUME NEW e \in Emails, Begin(r, e) PROVE TypeInv' /\ QueueOK'
    <2>1. queue' \in Seq(Tasks) /\ QueueOK'
      BY <1>1, QueueSubmit DEF Begin, QueuedAt, RunningAt, InThread
    <2> QED
      BY <1>1, <2>1, TypeTask DEF Begin, Submit, TypeInv, HeldOK, PoolOK, RefresherAt, Begun,
           RunningAt
  <1>2. CASE Grab(r)
    <2>1. TypeInv'
      BY <1>0, <1>2, TypeTask DEF Grab, Finish, TypeInv, HeldOK, RefresherAt, Begun
    <2> QED
      BY <1>2, <2>1, QueueKept DEF Grab, Finish
  <1>3. CASE Resume(r)
    <2>1. r \notin running
      BY <1>3 DEF Resume, TypeInv, PoolOK, RunningAt, InThread
    <2>2. TypeInv'
      BY <1>0, <1>3, <2>1, TypeTask DEF Resume, TypeInv, HeldOK, RefresherAt, Begun
    <2> QED
      BY <1>3, <2>2, QueueKept DEF Resume, QueuedAt
  <1>4. CASE GhostRelease(r)
    <2>1. r \notin running
      BY <1>4 DEF GhostRelease, TypeInv, PoolOK, RunningAt, InThread
    <2>2. TypeInv'
      BY <1>0, <1>4, <2>1, TypeTask DEF GhostRelease, Drop, TypeInv, HeldOK, RefresherAt
    <2> QED
      BY <1>4, <2>2, QueueKept DEF GhostRelease, QueuedAt
  <1>5. CASE PostAnswered(r)
    <2>1. queue' \in Seq(Tasks) /\ QueueOK'
      BY <1>5, QueueSubmit DEF PostAnswered, QueuedAt, RunningAt, InThread
    <2> QED
      BY <1>5, <2>1, TypeTask DEF PostAnswered, Submit, TypeInv, HeldOK, RefresherAt, Begun,
           RunningAt
  <1>6. CASE PostFailed(r) \/ Release(r)
    <2>1. r \notin running
      BY <1>6 DEF PostFailed, Release, TypeInv, PoolOK, RunningAt, InThread
    <2>2. TypeInv'
      <3>1. CASE PostFailed(r)
        BY <1>0, <2>1, <3>1, TypeTask DEF PostFailed, Leave, Drop, TypeInv, HeldOK, RefresherAt
      <3>2. CASE Release(r)
        BY <1>0, <2>1, <3>2, TypeTask DEF Release, Leave, Drop, TypeInv, HeldOK, RefresherAt
      <3> QED
        BY <1>6, <3>1, <3>2
    <2> QED
      BY <1>6, <2>2, QueueKept DEF PostFailed, Release, Leave, QueuedAt
  <1>7. CASE SaveBegin(r)
    <2>1. TypeInv'
      BY <1>0, <1>7, TypeTask DEF SaveBegin, TypeInv, HeldOK, RefresherAt, Begun, RunningAt
    <2> QED
      BY <1>7, <2>1, QueueKept DEF SaveBegin
  <1>8. CASE SaveEnd(r)
    <2>1. TypeInv'
      BY <1>0, <1>8, TypeTask DEF SaveEnd, Finish, TypeInv, HeldOK, RefresherAt, Begun
    <2> QED
      BY <1>8, <2>1, QueueKept DEF SaveEnd, Finish, QueuedAt
  <1> QED
    BY <1>1, <1>2, <1>3, <1>4, <1>5, <1>6, <1>7, <1>8

LEMMA TypeSwap ==
  ASSUME TypeInv, QueueOK, NEW s \in Swaps,
         \/ \E e \in Emails : Request(s, e)
         \/ Enter(s) \/ SwapLock(s) \/ SwapCred(s) \/ SwapEnd(s) \/ Answer(s)
  PROVE  TypeInv' /\ QueueOK'
  <1> USE Cast
  <1>0. queue \in Seq(Tasks) /\ IsFiniteSet(running)
    BY DEF TypeInv, PoolOK, QueueOK
  <1>1. ASSUME NEW e \in Emails, Request(s, e) PROVE TypeInv' /\ QueueOK'
    <2>1. s \notin running
      BY <1>1 DEF Request, TypeInv, PoolOK, RunningAt, InThread
    <2>2. TypeInv'
      BY <1>0, <1>1, <2>1, TypeTask DEF Request, TypeInv, HeldOK, SwapAt
    <2> QED
      BY <1>1, <2>2, QueueKept DEF Request, QueuedAt
  <1>2. CASE Enter(s)
    <2>1. queue' \in Seq(Tasks) /\ QueueOK'
      BY <1>2, QueueSubmit DEF Enter, QueuedAt, RunningAt, InThread
    <2>2. s \notin running
      BY <1>2 DEF Enter, TypeInv, PoolOK, RunningAt, InThread
    <2> QED
      BY <1>2, <2>1, <2>2, TypeTask DEF Enter, Submit, TypeInv, HeldOK, SwapAt
  <1>3. CASE SwapLock(s) \/ SwapCred(s)
    <2>1. PICK p \in InThread : Goto(s, p)
      BY <1>3 DEF SwapLock, SwapCred, InThread
    <2>2. TypeInv'
      <3>1. /\ holder' \in [Locks -> Tasks \cup {None}] /\ cred' \in {cred, s}
            /\ UNCHANGED <<table, lock, switch, pool, awaited, stopped>>
            /\ pc[s] \notin {"idle", "done"}
        BY <1>3 DEF SwapLock, SwapCred, TypeInv, HeldOK
      <3> QED
        BY <1>0, <2>1, <3>1, TypeTask DEF SwapAt, RunningAt
    <2>3. pc[s] \notin QueuedAt
      BY <1>3 DEF SwapLock, SwapCred, QueuedAt
    <2> QED
      BY <1>3, <2>1, <2>2, <2>3, QueueKept DEF SwapLock, SwapCred
  <1>4. CASE SwapEnd(s)
    <2>1. pc[s] \notin QueuedAt
      BY <1>4 DEF SwapEnd, QueuedAt
    <2>2. TypeInv'
      BY <1>0, <1>4, TypeTask DEF SwapEnd, Finish, Drop, TypeInv, HeldOK, SwapAt
    <2> QED
      BY <1>4, <2>1, <2>2, QueueKept DEF SwapEnd, Finish
  <1>5. CASE Answer(s)
    <2>1. s \notin running
      BY <1>5 DEF Answer, TypeInv, PoolOK, RunningAt, InThread
    <2>2. TypeInv'
      BY <1>0, <1>5, <2>1, TypeTask DEF Answer, Leave, TypeInv, HeldOK, SwapAt
    <2> QED
      BY <1>5, <2>2, QueueKept DEF Answer, Leave, QueuedAt
  <1> QED
    BY <1>1, <1>2, <1>3, <1>4, <1>5

\* A lock forgotten, by a deadline or a deletion.
LEMMA TypeForget ==
  ASSUME TypeInv, QueueOK,
         (\E s \in Swaps : Deadline(s)) \/ (\E e \in Emails : Delete(e))
  PROVE  TypeInv' /\ QueueOK'
  <1>1. ASSUME NEW e \in Emails, Forget(e), UNCHANGED lock
        PROVE  TableOK' /\ NumberOK'
    <2>1. /\ drops \in 0..MaxDrops /\ drops' = drops + 1 /\ drops' \in 0..MaxDrops
          /\ current \in [Emails -> 0..MaxDrops] /\ current' = [current EXCEPT ![e] = @ + 1]
      BY <1>1, Cast DEF Forget, TypeInv, TableOK
    <2>2. \A f \in Emails : /\ current[f] \in Nat /\ current[f] <= drops
                           /\ current'[f] \in {current[f], current[f] + 1}
      BY <2>1, Cast DEF TypeInv, NumberOK
    <2>3. TableOK'
      BY <1>1, <2>1, <2>2, Cast DEF TypeInv, TableOK
    <2>4. \A t \in Tasks : lock[t] \in Locks => lock[t][2] <= current'[Mail(t)]
      BY <2>2, LockParts DEF TypeInv, NumberOK, Mail
    <2> QED
      BY <1>1, <2>1, <2>2, <2>3, <2>4 DEF NumberOK, Mail
  <1>2. ASSUME NEW s \in Swaps, Deadline(s) PROVE TypeInv' /\ QueueOK'
    <2>1. Mail(s) \in Emails
      BY <1>2, Cast, LockParts DEF Deadline, InThread, TypeInv, RoleOK, Mail
    <2>2. TableOK' /\ NumberOK'
      BY <1>1, <1>2, <2>1 DEF Deadline
    <2>3. /\ UNCHANGED <<lock, holder, cred, pool, stopped>> /\ switch' = None
          /\ awaited' \subseteq awaited
      BY <1>2 DEF Deadline
    <2>4. HeldOK'
      BY <2>3 DEF TypeInv, HeldOK
    <2>5. CASE ~At(s, "swap")
      <3>1. UNCHANGED pc
        BY <1>2, <2>5 DEF Deadline
      <3> QED
        BY <2>2, <2>3, <2>4, <3>1 DEF TypeInv, QueueOK, ControlOK, PoolOK, RoleOK
    <2>6. CASE At(s, "swap")
      <3>1. Goto(s, "done") /\ s \notin running
        BY <1>2, <2>6 DEF Deadline, TypeInv, PoolOK, RunningAt, InThread
      <3>2. QueueOK'
        BY <2>3, <3>1, Cast, QueueKept DEF QueuedAt
      <3>3. ControlOK' /\ PoolOK' /\ RoleOK'
        BY <2>3, <3>1, Cast DEF TypeInv, ControlOK, PCs, PoolOK, RoleOK, SwapAt
      <3> QED
        BY <2>2, <2>4, <3>2, <3>3 DEF TypeInv
    <2> QED
      BY <2>5, <2>6
  <1>3. ASSUME NEW e \in Emails, Delete(e) PROVE TypeInv' /\ QueueOK'
    <2>1. TableOK' /\ NumberOK'
      BY <1>1, <1>3 DEF Delete
    <2> QED
      BY <1>3, <2>1 DEF Delete, TypeInv, QueueOK, ControlOK, HeldOK, PoolOK, RoleOK
  <1> QED
    BY <1>2, <1>3

\* Where the shutdown leaves a task.
LEMMA ShutdownMoves ==
  ASSUME TypeInv, Shutdown, NEW t \in Tasks
  PROVE  /\ t \notin PollTasks => pc'[t] = pc[t]
         /\ t \in PollTasks =>
              /\ At(t, "acquire") => pc'[t] = "ghost"
              /\ At(t, "granted") => pc'[t] = "ghostHeld"
              /\ t \in running /\ ~At(t, "acquire") /\ ~At(t, "granted") => pc'[t] = pc[t]
              /\ t \notin running /\ ~At(t, "acquire") /\ ~At(t, "granted") => pc'[t] = "done"
  <1>1. pc'[t] = IF t \in PollTasks THEN Cancelled(t) ELSE pc[t]
    BY DEF Shutdown
  <1>2. At(t, "acquire") => Cancelled(t) = "ghost"
    BY DEF Cancelled
  <1>3. At(t, "granted") => Cancelled(t) = "ghostHeld"
    <2>1. At(t, "granted") => t \notin running
      BY DEF TypeInv, PoolOK, RunningAt, InThread
    <2> QED
      BY <2>1 DEF Cancelled
  <1>4. t \in running /\ ~At(t, "acquire") /\ ~At(t, "granted") => Cancelled(t) = pc[t]
    BY DEF Cancelled
  <1>5. t \notin running /\ ~At(t, "acquire") /\ ~At(t, "granted") => Cancelled(t) = "done"
    BY DEF Cancelled
  <1> QED
    BY <1>1, <1>2, <1>3, <1>4, <1>5

LEMMA TypeShutdown ==
  ASSUME TypeInv, QueueOK, Shutdown PROVE TypeInv' /\ QueueOK'
  <1>1. UNCHANGED <<lock, table, cred, pool>> /\ switch' = None /\ awaited' = {} /\ stopped' = TRUE
    BY DEF Shutdown
  <1>2. ASSUME NEW t \in Tasks
        PROVE  /\ pc'[t] \in {pc[t], "done", "ghost", "ghostHeld"}
               /\ t \in Swaps => pc'[t] \in {pc[t], "done"}
               /\ pc'[t] \in {"ghost", "ghostHeld"} => pc[t] \notin {"idle", "done"} \/ pc'[t] = pc[t]
               /\ t \in running => pc'[t] = pc[t] \/ pc'[t] = "ghost"
               /\ pc[t] \in QueuedAt => pc'[t] \in QueuedAt
    <2>1. t \in Swaps => ~At(t, "acquire") /\ ~At(t, "granted")
      BY DEF TypeInv, RoleOK, SwapAt, InThread
    <2>2. t \in running => ~At(t, "granted")
      BY DEF TypeInv, PoolOK, RunningAt, InThread
    <2>3. \/ pc'[t] = pc[t]
          \/ At(t, "acquire") /\ pc'[t] = "ghost"
          \/ At(t, "granted") /\ pc'[t] = "ghostHeld"
          \/ t \notin running /\ pc'[t] = "done"
      BY ShutdownMoves
    <2> QED
      BY <2>1, <2>2, <2>3 DEF QueuedAt
  <1>3. ControlOK'
    <2>1. pc' = [t \in Tasks |-> pc'[t]]
      BY DEF Shutdown
    <2>2. \A t \in Tasks : pc'[t] \in PCs
      BY <1>2 DEF TypeInv, ControlOK, PCs
    <2> QED
      BY <1>1, <2>1, <2>2 DEF ControlOK
  <1>4. TableOK' /\ NumberOK'
    BY <1>1 DEF TypeInv, TableOK, NumberOK, Mail
  <1>5. HeldOK'
    BY <1>1 DEF Shutdown, TypeInv, HeldOK
  <1>6. PoolOK'
    BY <1>1, <1>2 DEF TypeInv, PoolOK, RunningAt
  <1>7. RoleOK'
    BY <1>1, <1>2, Cast DEF TypeInv, RoleOK, RefresherAt, SwapAt
  <1>8. QueueOK'
    <2>1. \A i \in 1..Len(queue) : queue[i] \in Tasks
      BY DEF TypeInv, PoolOK
    <2> QED
      BY <1>1, <1>2, <2>1 DEF QueueOK
  <1> QED
    BY <1>3, <1>4, <1>5, <1>6, <1>7, <1>8 DEF TypeInv

LEMMA TypeStep == TypeInv /\ QueueOK /\ [Next]_vars => TypeInv' /\ QueueOK'
  <1> SUFFICES ASSUME TypeInv, QueueOK, [Next]_vars PROVE TypeInv' /\ QueueOK'
    OBVIOUS
  <1>1. CASE Dispatch
    BY <1>1, TypeDispatch
  <1>2. ASSUME NEW t \in Tasks, Proceed(t) PROVE TypeInv' /\ QueueOK'
    BY <1>2, TypeRefresher, TypeSwap DEF Proceed
  <1>3. CASE \E r \in Refreshers, e \in Emails : Begin(r, e)
    BY <1>3, TypeRefresher
  <1>4. CASE \E s \in Swaps, e \in Emails : Request(s, e)
    BY <1>4, TypeSwap
  <1>5. CASE (\E s \in Swaps : Deadline(s)) \/ (\E e \in Emails : Delete(e))
    BY <1>5, TypeForget
  <1>6. CASE Shutdown
    BY <1>6, TypeShutdown
  <1>7. CASE UNCHANGED vars
    BY <1>7 DEF vars, TypeInv, ControlOK, TableOK, HeldOK, PoolOK, RoleOK, NumberOK, Mail, QueueOK
  <1> QED
    BY <1>1, <1>2, <1>3, <1>4, <1>5, <1>6, <1>7 DEF Next


----------------------------------------------------------------------------
(* Who is awaited.                                                         *)

LEMMA AwaitedRefresher ==
  ASSUME TypeInv, AwaitedOK, TickOK, NEW r \in Refreshers,
         \/ \E e \in Emails : Begin(r, e)
         \/ Grab(r) \/ Resume(r) \/ GhostRelease(r) \/ PostAnswered(r) \/ PostFailed(r)
         \/ SaveBegin(r) \/ SaveEnd(r) \/ Release(r)
  PROVE  AwaitedOK' /\ TickOK'
  <1>1. /\ \A t \in Tasks : t # r => pc'[t] = pc[t] /\ (t \in awaited' <=> t \in awaited)
        /\ UNCHANGED <<switch, stopped>> /\ r \notin Swaps
    BY Cast DEF Begin, Grab, Finish, Resume, GhostRelease, PostAnswered, PostFailed, Leave,
         SaveBegin, SaveEnd, Release, TypeInv, ControlOK
  <1>2. /\ ~stopped => (r \in awaited' <=> pc'[r] \in Begun) /\ pc'[r] \notin {"ghost", "ghostHeld"}
        /\ stopped => /\ r \notin awaited' /\ pc'[r] # "switch"
                      /\ r \in Revalidators => pc'[r] \in {"idle", "done"}
                      /\ r \in Pollers => pc'[r] \notin {"acquire", "granted", "post", "saved"}
    BY Cast DEF Begin, Grab, Resume, GhostRelease, PostAnswered, PostFailed, Leave,
         SaveBegin, SaveEnd, Release, TypeInv, ControlOK, AwaitedOK, Begun
  <1>3. AwaitedOK'
    <2>1. \A q \in Refreshers :
            ~stopped => (q \in awaited' <=> pc'[q] \in Begun) /\ pc'[q] \notin {"ghost", "ghostHeld"}
      BY <1>1, <1>2, Cast DEF AwaitedOK
    <2>2. awaited' \subseteq Tasks
      BY Cast DEF Begin, Grab, Resume, GhostRelease, PostAnswered, PostFailed, Leave,
           SaveBegin, SaveEnd, Release, TypeInv, ControlOK
    <2>3. stopped =>
            /\ awaited' = {} /\ \A t \in Tasks : pc'[t] # "switch"
            /\ \A q \in Revalidators : pc'[q] \in {"idle", "done"}
            /\ \A q \in Pollers : pc'[q] \notin {"acquire", "granted", "post", "saved"}
      BY <1>1, <1>2, <2>2, Cast DEF AwaitedOK
    <2>4. \A s \in Swaps : pc'[s] = pc[s] /\ (s \in awaited' <=> s \in awaited)
      BY <1>1, Cast
    <2> QED
      BY <1>1, <2>1, <2>3, <2>4 DEF AwaitedOK
  <1>4. \/ UnderWay(r)' => UnderWay(r)
        \/ r \in Pollers => \A a \in AutoSwitches : ~UnderWay(a)
    BY <1>1, <1>2 DEF Begin, Grab, Resume, GhostRelease, PostAnswered, PostFailed, Leave,
         SaveBegin, SaveEnd, Release, UnderWay, TypeInv, ControlOK
  <1>5. TickOK'
    BY <1>1, <1>4, Cast DEF TickOK, UnderWay
  <1> QED
    BY <1>3, <1>5

LEMMA AwaitedSwap ==
  ASSUME TypeInv, AwaitedOK, TickOK, NEW s \in Swaps,
         \/ \E e \in Emails : Request(s, e)
         \/ Enter(s) \/ SwapLock(s) \/ SwapCred(s) \/ SwapEnd(s) \/ Answer(s) \/ Deadline(s)
  PROVE  AwaitedOK' /\ TickOK'
  <1>1. /\ \A t \in Tasks : t # s => pc'[t] = pc[t] /\ (t \in awaited' <=> t \in awaited)
        /\ UNCHANGED stopped /\ s \notin Refreshers
    BY Cast DEF Request, Enter, SwapLock, SwapCred, SwapEnd, Finish, Answer, Leave, Deadline,
         TypeInv, ControlOK
  <1>2. /\ s \in awaited' => pc'[s] \in {"swap", "swapped"} \cup InThread
        /\ pc'[s] \in {"swap", "swapped"} => s \in awaited'
        /\ stopped => s \notin awaited' /\ pc'[s] # "switch"
    BY Cast DEF Request, Enter, SwapLock, SwapCred, SwapEnd, Answer, Leave, Deadline,
         InThread, TypeInv, ControlOK, AwaitedOK
  <1>3. \A u \in Swaps : u \in awaited' <=> switch' = u
    BY <1>1, Cast DEF Request, Enter, SwapLock, SwapCred, SwapEnd, Answer, Leave, Deadline,
         InThread, TypeInv, ControlOK, AwaitedOK
  <1>4. AwaitedOK'
    <2>1. \A r \in Refreshers : pc'[r] = pc[r] /\ (r \in awaited' <=> r \in awaited)
      BY <1>1, Cast
    <2>2. awaited' \subseteq Tasks
      BY Cast DEF Request, Enter, SwapLock, SwapCred, SwapEnd, Answer, Leave, Deadline,
           TypeInv, ControlOK
    <2>3. stopped => awaited' = {} /\ \A t \in Tasks : pc'[t] # "switch"
      BY <1>1, <1>2, <2>2, Cast DEF AwaitedOK
    <2>4. /\ \A u \in Swaps : u \in awaited' => pc'[u] \in {"swap", "swapped"} \cup InThread
          /\ \A u \in Swaps : pc'[u] \in {"swap", "swapped"} => u \in awaited'
      BY <1>1, <1>2, Cast DEF AwaitedOK
    <2> QED
      BY <1>1, <1>3, <2>1, <2>3, <2>4, Cast DEF AwaitedOK
  <1>5. \/ UnderWay(s)' => UnderWay(s)
        \/ s \in AutoSwitches => \A r \in Pollers : ~UnderWay(r)
    BY <1>1, <1>2 DEF Request, Enter, SwapLock, SwapCred, SwapEnd, Answer, Leave, Deadline,
         UnderWay, TypeInv, ControlOK
  <1>6. TickOK'
    BY <1>1, <1>5, Cast DEF TickOK, UnderWay
  <1> QED
    BY <1>4, <1>6

LEMMA AwaitedShutdown ==
  ASSUME TypeInv, AwaitedOK, Shutdown PROVE AwaitedOK' /\ TickOK'
  <1>1. /\ ~stopped /\ stopped' = TRUE /\ awaited' = {} /\ switch' = None
        /\ \A t \in Revalidators \cup Switches : ~At(t, "switch") /\ t \notin awaited
    BY DEF Shutdown, UnderWay
  <1>2. \A t \in Tasks : t \in running => pc[t] \in RunningAt
    BY DEF TypeInv, PoolOK
  <1>3. ASSUME NEW s \in Swaps PROVE pc'[s] \notin {"switch", "swap", "swapped"}
    <2>1. CASE s \in AutoSwitches
      BY <1>2, <2>1, ShutdownMoves, Cast DEF RunningAt, InThread, TypeInv, RoleOK, SwapAt
    <2>2. CASE s \in Switches
      BY <1>1, <2>2, ShutdownMoves, Cast DEF AwaitedOK
    <2> QED
      BY <2>1, <2>2, Cast
  <1>4. ASSUME NEW r \in Pollers
        PROVE  pc'[r] \notin {"switch", "acquire", "granted", "post", "saved"}
    BY <1>2, ShutdownMoves, Cast DEF RunningAt, InThread
  <1>5. ASSUME NEW r \in Revalidators PROVE pc'[r] \in {"idle", "done"}
    BY <1>1, ShutdownMoves, Cast DEF AwaitedOK, TypeInv, RoleOK, RefresherAt
  <1>6. AwaitedOK'
    BY <1>1, <1>3, <1>4, <1>5, Cast DEF AwaitedOK
  <1> QED
    BY <1>1, <1>6 DEF TickOK

LEMMA AwaitedStep ==
  TypeInv /\ QueueOK /\ AwaitedOK /\ TickOK /\ [Next]_vars => AwaitedOK' /\ TickOK'
  <1> SUFFICES ASSUME TypeInv, QueueOK, AwaitedOK, TickOK, [Next]_vars
               PROVE  AwaitedOK' /\ TickOK'
    OBVIOUS
  <1>1. CASE Dispatch
    <2>1. UNCHANGED <<switch, awaited, stopped>>
      BY <1>1 DEF Dispatch
    <2>2. \/ UNCHANGED pc
          \/ \E s \in Swaps : s \in awaited /\ At(s, "swap") /\ Goto(s, "swapLock")
      <3>1. Head(queue) \in Tasks /\ pc[Head(queue)] \in QueuedAt
        BY <1>1, HeadTailProperties, EmptySeq, LenProperties DEF Dispatch, TypeInv, PoolOK, QueueOK
      <3> QED
        BY <1>1, <3>1 DEF Dispatch, TypeInv, RoleOK, SwapAt, InThread, QueuedAt, AwaitedOK
    <2> QED
      BY <2>1, <2>2, Cast DEF AwaitedOK, TickOK, UnderWay, TypeInv, ControlOK, InThread
  <1>2. ASSUME NEW t \in Tasks, Proceed(t) PROVE AwaitedOK' /\ TickOK'
    BY <1>2, AwaitedRefresher, AwaitedSwap DEF Proceed
  <1>3. CASE \E r \in Refreshers, e \in Emails : Begin(r, e)
    BY <1>3, AwaitedRefresher
  <1>4. CASE \/ \E s \in Swaps, e \in Emails : Request(s, e)
             \/ \E s \in Swaps : Deadline(s)
    BY <1>4, AwaitedSwap
  <1>5. CASE (\E e \in Emails : Delete(e)) \/ UNCHANGED vars
    BY <1>5 DEF Delete, vars, AwaitedOK, TickOK, UnderWay
  <1>6. CASE Shutdown
    BY <1>6, AwaitedShutdown
  <1> QED
    BY <1>1, <1>2, <1>3, <1>4, <1>5, <1>6 DEF Next


\* Threads are entered by a job that is dispatched, and left when it ends.
LEMMA ThreadStep == TypeInv /\ QueueOK /\ ThreadOK /\ [Next]_vars => ThreadOK'
  <1> SUFFICES ASSUME TypeInv, QueueOK, ThreadOK, [Next]_vars PROVE ThreadOK'
    OBVIOUS
  <1> USE Cast DEF ThreadOK, ThreadAt, InThread
  <1>1. CASE Dispatch
    <2>1. Head(queue) \in Tasks
      BY <1>1, HeadTailProperties, EmptySeq DEF Dispatch, TypeInv, PoolOK
    <2> QED
      BY <1>1, <2>1 DEF Dispatch, TypeInv, ControlOK
  <1>2. ASSUME NEW r \in Refreshers,
               \/ \E e \in Emails : Begin(r, e)
               \/ Grab(r) \/ Resume(r) \/ GhostRelease(r) \/ PostAnswered(r) \/ PostFailed(r)
               \/ SaveBegin(r) \/ SaveEnd(r) \/ Release(r)
        PROVE  ThreadOK'
    BY <1>2 DEF Begin, Grab, Resume, GhostRelease, PostAnswered, PostFailed, SaveBegin, SaveEnd,
         Release, Leave, Submit, Finish, TypeInv, ControlOK
  <1>3. ASSUME NEW s \in Swaps,
               \/ \E e \in Emails : Request(s, e)
               \/ Enter(s) \/ SwapLock(s) \/ SwapCred(s) \/ SwapEnd(s) \/ Answer(s) \/ Deadline(s)
        PROVE  ThreadOK'
    BY <1>3 DEF Request, Enter, SwapLock, SwapCred, SwapEnd, Answer, Deadline, Leave, Submit,
         Finish, TypeInv, ControlOK
  <1>4. ASSUME NEW e \in Emails, Delete(e) PROVE ThreadOK'
    BY <1>4 DEF Delete
  <1>5. CASE Shutdown
    BY <1>5, ShutdownMoves DEF Shutdown
  <1>6. CASE UNCHANGED vars
    BY <1>6 DEF vars
  <1> QED
    BY <1>1, <1>2, <1>3, <1>4, <1>5, <1>6 DEF Next, Proceed

----------------------------------------------------------------------------
(* Who holds what.                                                         *)

\* A step of one task that neither takes nor gives up the account's lock.
LEMMA HolderSame ==
  ASSUME TypeInv, HolderOK, NEW t \in Tasks, NEW p, Goto(t, p), UNCHANGED <<holder, stopped>>,
         Owns(t)' <=> Owns(t),
         lock' = lock \/ (~Owns(t) /\ \E l \in Locks : lock' = [lock EXCEPT ![t] = l])
  PROVE  HolderOK'
  <1>1. \A u \in Tasks : u # t => lock'[u] = lock[u] /\ (Owns(u)' <=> Owns(u))
    BY DEF TypeInv, ControlOK, TableOK, Owns, Orphan
  <1>2. Owns(t)' => lock'[t] = lock[t]
    OBVIOUS
  <1> QED
    BY <1>1, <1>2 DEF HolderOK

LEMMA HolderTake ==
  ASSUME TypeInv, HolderOK, NEW t \in Tasks, NEW p, Goto(t, p), UNCHANGED <<lock, stopped>>,
         ~Owns(t), Owns(t)', lock[t] \in Locks, holder[lock[t]] = None,
         holder' = [holder EXCEPT ![lock[t]] = t]
  PROVE  HolderOK'
  <1>1. \A u \in Tasks : u # t => (Owns(u)' <=> Owns(u))
    BY DEF TypeInv, ControlOK, Owns, Orphan
  <1>2. \A l \in Locks : holder'[l] = IF l = lock[t] THEN t ELSE holder[l]
    BY DEF TypeInv, HeldOK
  <1> QED
    BY <1>1, <1>2, Cast DEF HolderOK

LEMMA HolderDrop ==
  ASSUME TypeInv, HolderOK, NEW t \in Tasks, NEW p, Goto(t, p), UNCHANGED <<lock, stopped>>,
         Owns(t), ~Owns(t)', lock[t] \in Locks, Drop(lock[t])
  PROVE  HolderOK'
  <1>1. \A u \in Tasks : u # t => (Owns(u)' <=> Owns(u))
    BY DEF TypeInv, ControlOK, Owns, Orphan
  <1>2. \A l \in Locks : holder'[l] = IF l = lock[t] THEN None ELSE holder[l]
    BY DEF Drop, TypeInv, HeldOK
  <1>3. \A u \in Tasks : u # t => ~(Owns(u) /\ lock[u] = lock[t])
    BY DEF HolderOK
  <1> QED
    BY <1>1, <1>2, <1>3, Cast DEF HolderOK

LEMMA HolderRefresher ==
  ASSUME TypeInv, AwaitedOK, HolderOK, NEW r \in Refreshers,
         \/ \E e \in Emails : Begin(r, e)
         \/ Grab(r) \/ Resume(r) \/ GhostRelease(r) \/ PostAnswered(r) \/ PostFailed(r)
         \/ SaveBegin(r) \/ SaveEnd(r) \/ Release(r)
  PROVE  HolderOK'
  <1> USE Cast
  <1>1. pc \in [Tasks -> PCs] /\ (pc[r] \notin {"idle", "done"} => lock[r] \in Locks)
    BY DEF TypeInv, ControlOK, RoleOK
  <1>2. r \in Revalidators /\ stopped => pc[r] \in {"idle", "done"}
    BY DEF AwaitedOK
  <1>3. ASSUME NEW e \in Emails, Begin(r, e) PROVE HolderOK'
    <2>1. lock' = [lock EXCEPT ![r] = Registered(e)] /\ Registered(e) \in Locks
      BY <1>3, Numbered DEF Begin
    <2> QED
      BY <1>1, <1>3, <2>1, HolderSame DEF Begin, Owns, Orphan
  <1>4. CASE Grab(r)
    BY <1>1, <1>4, HolderTake DEF Grab, Owns, Orphan
  <1>5. CASE Resume(r) \/ SaveBegin(r)
    BY <1>1, <1>5, HolderSame DEF Resume, SaveBegin, Owns, Orphan, AwaitedOK
  <1>6. CASE PostAnswered(r)
    <2>1. ~stopped
      BY <1>2, <1>6 DEF PostAnswered, AwaitedOK
    <2> QED
      BY <1>1, <1>6, <2>1, HolderSame DEF PostAnswered, Owns, Orphan
  <1>7. CASE GhostRelease(r) \/ PostFailed(r) \/ Release(r)
    BY <1>1, <1>7, HolderDrop DEF GhostRelease, PostFailed, Release, Leave, Owns, Orphan
  <1>8. CASE SaveEnd(r)
    <2>1. r \in awaited <=> ~Orphan(r)
      BY <1>2, <1>8 DEF SaveEnd, AwaitedOK, Begun, Orphan
    <2>2. UNCHANGED <<holder, stopped, lock>>
      BY <1>8 DEF SaveEnd
    <2>3. Goto(r, IF r \in awaited THEN "saved" ELSE "done")
      BY <1>8 DEF SaveEnd
    <2>4. Owns(r)' <=> Owns(r)
      BY <1>1, <1>8, <2>1, <2>2, <2>3 DEF SaveEnd, Owns, Orphan
    <2> QED
      BY <2>2, <2>3, <2>4, HolderSame
  <1> QED
    BY <1>3, <1>4, <1>5, <1>6, <1>7, <1>8

LEMMA HolderSwap ==
  ASSUME TypeInv, HolderOK, NEW s \in Swaps,
         \/ \E e \in Emails : Request(s, e)
         \/ Enter(s) \/ SwapLock(s) \/ SwapCred(s) \/ SwapEnd(s) \/ Answer(s) \/ Deadline(s)
  PROVE  HolderOK'
  <1> USE Cast
  <1>1. /\ pc \in [Tasks -> PCs] /\ (pc[s] \notin {"idle", "done"} => lock[s] \in Locks)
        /\ s \notin Pollers
    BY DEF TypeInv, ControlOK, RoleOK
  <1>2. Owns(s) <=> pc[s] \in {"swapCred", "swapping"}
    BY <1>1 DEF Owns, Orphan, TypeInv, RoleOK, SwapAt, InThread
  <1>3. ASSUME NEW e \in Emails, Request(s, e) PROVE HolderOK'
    <2>1. lock' = [lock EXCEPT ![s] = Registered(e)] /\ Registered(e) \in Locks
      BY <1>3, Numbered DEF Request
    <2> QED
      BY <1>1, <1>3, <2>1, HolderSame DEF Request, Owns, Orphan
  <1>4. CASE Enter(s) \/ SwapCred(s) \/ Answer(s)
    BY <1>1, <1>4, HolderSame DEF Enter, SwapCred, Answer, Leave, Owns, Orphan
  <1>5. CASE SwapLock(s)
    BY <1>1, <1>5, HolderTake DEF SwapLock, Owns, Orphan
  <1>6. CASE SwapEnd(s)
    BY <1>1, <1>6, HolderDrop DEF SwapEnd, Owns, Orphan
  <1>7. CASE Deadline(s)
    <2>1. CASE At(s, "swap")
      BY <1>1, <1>7, <2>1, HolderSame DEF Deadline, Owns, Orphan
    <2>2. CASE ~At(s, "swap")
      BY <1>7, <2>2 DEF Deadline, HolderOK, Owns, Orphan
    <2> QED
      BY <2>1, <2>2
  <1> QED
    BY <1>3, <1>4, <1>5, <1>6, <1>7

\* The shutdown releases the locks of refreshes that had got theirs.
LEMMA HolderShutdown ==
  ASSUME TypeInv, ThreadOK, AwaitedOK, HolderOK, Shutdown PROVE HolderOK'
  <1>1. /\ UNCHANGED lock /\ ~stopped /\ stopped' = TRUE
        /\ \A t \in Revalidators \cup Switches : t \notin awaited
    BY DEF Shutdown, UnderWay
  <1>2. ASSUME NEW l \in Locks
        PROVE  holder'[l] =
                 IF \E r \in Pollers : /\ holder[l] = r
                                       /\ pc[r] \in {"post", "save", "saving", "saved"}
                 THEN None ELSE holder[l]
    BY DEF Shutdown
  <1>3. ASSUME NEW t \in Tasks
        PROVE  Owns(t)' <=>
                 Owns(t) /\ ~(t \in Pollers /\ pc[t] \in {"post", "save", "saving", "saved"})
    <2>1. CASE t \in Pollers
      <3>1. pc[t] \in RefresherAt /\ (t \in running => pc[t] \in RunningAt)
        BY <2>1, Cast DEF TypeInv, RoleOK, PoolOK
      <3>2. pc[t] \notin {"ghost", "ghostHeld"}
        BY <1>1, <2>1, Cast DEF AwaitedOK
      <3> QED
        BY <1>1, <2>1, <3>1, <3>2, ShutdownMoves, Cast
           DEF RefresherAt, Begun, RunningAt, InThread, Owns, Orphan
    <2>2. CASE t \in Revalidators \cup Switches
      <3>1. pc'[t] = pc[t] /\ t \notin Pollers
        BY <2>2, ShutdownMoves, Cast
      <3> QED
        BY <3>1 DEF Owns, Orphan
    <2>3. CASE t \in AutoSwitches
      <3>1. /\ t \notin Pollers /\ pc[t] \in SwapAt
            /\ pc[t] \in {"swapCred", "swapping"} => pc'[t] = pc[t]
            /\ pc'[t] \in {pc[t], "done"}
        <4>1. t \in Swaps /\ t \in Tasks /\ t \in PollTasks
          BY <2>3, Cast
        <4>2. pc[t] \in SwapAt
          BY <4>1 DEF TypeInv, RoleOK
        <4>3. pc[t] \in {"swapCred", "swapping"} => t \in running
          BY <4>1 DEF ThreadOK, ThreadAt, InThread
        <4> QED
          BY <2>3, <4>1, <4>2, <4>3, ShutdownMoves, Cast DEF SwapAt, InThread
      <3> QED
        BY <3>1 DEF Owns, Orphan, SwapAt, InThread
    <2> QED
      BY <2>1, <2>2, <2>3, Cast
  <1> QED
    BY <1>1, <1>2, <1>3, Cast DEF HolderOK

LEMMA HolderStep ==
  TypeInv /\ QueueOK /\ ThreadOK /\ AwaitedOK /\ HolderOK /\ [Next]_vars => HolderOK'
  <1> SUFFICES ASSUME TypeInv, QueueOK, ThreadOK, AwaitedOK, HolderOK, [Next]_vars
               PROVE  HolderOK'
    OBVIOUS
  <1>1. CASE Dispatch
    <2>1. PICK t \in Tasks : t = Head(queue) /\ pc[t] \in QueuedAt
      BY <1>1, HeadTailProperties, EmptySeq, LenProperties DEF Dispatch, TypeInv, PoolOK, QueueOK
    <2>2. CASE t \in Swaps /\ ~At(t, "done")
      <3>1. Mail(t) \in Emails
        BY <2>1, <2>2, LockParts DEF TypeInv, RoleOK, QueuedAt, Mail
      <3>2. /\ Goto(t, "swapLock") /\ UNCHANGED <<holder, stopped>>
            /\ lock' = [lock EXCEPT ![t] = Registered(Mail(t))]
        BY <1>1, <2>1, <2>2 DEF Dispatch
      <3>3. ~Owns(t)
        BY <2>1, <2>2 DEF TypeInv, RoleOK, SwapAt, InThread, QueuedAt, Owns
      <3>4. ~Owns(t)'
        BY <3>2 DEF TypeInv, ControlOK, Owns
      <3> QED
        BY <3>1, <3>2, <3>3, <3>4, Numbered, HolderSame
    <2>3. CASE ~(t \in Swaps /\ ~At(t, "done"))
      BY <1>1, <2>1, <2>3 DEF Dispatch, HolderOK, Owns, Orphan
    <2> QED
      BY <2>2, <2>3
  <1>2. ASSUME NEW t \in Tasks, Proceed(t) PROVE HolderOK'
    BY <1>2, HolderRefresher, HolderSwap DEF Proceed
  <1>3. CASE \E r \in Refreshers, e \in Emails : Begin(r, e)
    BY <1>3, HolderRefresher
  <1>4. CASE \/ \E s \in Swaps, e \in Emails : Request(s, e)
             \/ \E s \in Swaps : Deadline(s)
    BY <1>4, HolderSwap
  <1>5. CASE (\E e \in Emails : Delete(e)) \/ UNCHANGED vars
    BY <1>5 DEF Delete, vars, HolderOK, Owns, Orphan
  <1>6. CASE Shutdown
    BY <1>6, HolderShutdown
  <1> QED
    BY <1>1, <1>2, <1>3, <1>4, <1>5, <1>6 DEF Next


LEMMA CredStep == TypeInv /\ QueueOK /\ ThreadOK /\ CredOK /\ [Next]_vars => CredOK'
  <1> SUFFICES ASSUME TypeInv, QueueOK, ThreadOK, CredOK, [Next]_vars PROVE CredOK'
    OBVIOUS
  <1> USE Cast DEF CredOK
  <1>1. CASE Dispatch
    <2>1. PICK t \in Tasks : t = Head(queue) /\ pc[t] \in QueuedAt
      BY <1>1, HeadTailProperties, EmptySeq, LenProperties DEF Dispatch, TypeInv, PoolOK, QueueOK
    <2>2. UNCHANGED cred /\ (UNCHANGED pc \/ Goto(t, "swapLock"))
      BY <1>1, <2>1 DEF Dispatch
    <2> QED
      BY <2>1, <2>2 DEF TypeInv, ControlOK, QueuedAt
  <1>2. ASSUME NEW r \in Refreshers,
               \/ \E e \in Emails : Begin(r, e)
               \/ Grab(r) \/ Resume(r) \/ GhostRelease(r) \/ PostAnswered(r) \/ PostFailed(r)
               \/ SaveBegin(r) \/ SaveEnd(r) \/ Release(r)
        PROVE  CredOK'
    BY <1>2 DEF Begin, Grab, Resume, GhostRelease, PostAnswered, PostFailed, SaveBegin, SaveEnd,
         Release, Leave, TypeInv, ControlOK
  <1>3. ASSUME NEW s \in Swaps,
               \/ \E e \in Emails : Request(s, e)
               \/ Enter(s) \/ SwapLock(s) \/ SwapCred(s) \/ SwapEnd(s) \/ Answer(s) \/ Deadline(s)
        PROVE  CredOK'
    BY <1>3 DEF Request, Enter, SwapLock, SwapCred, SwapEnd, Answer, Deadline, Leave, TypeInv,
         ControlOK
  <1>4. CASE (\E e \in Emails : Delete(e)) \/ UNCHANGED vars
    BY <1>4 DEF Delete, vars
  <1>5. CASE Shutdown
    <2>1. UNCHANGED cred
      BY <1>5 DEF Shutdown
    <2>2. ASSUME NEW t \in Tasks
          PROVE  pc[t] \in {"saving", "swapping"} <=> pc'[t] \in {"saving", "swapping"}
      BY <1>5, ShutdownMoves DEF ThreadOK, ThreadAt, InThread
    <2> QED
      BY <2>1, <2>2
  <1> QED
    BY <1>1, <1>2, <1>3, <1>4, <1>5 DEF Next, Proceed

\* Steps that make no orphan and leave no swap's thread alone with its lock in the
\* table.
LEMMA OrphanFrame ==
  ASSUME TypeInv, OrphanOK,
         \A t \in Tasks : Orphan(t)' => Orphan(t) /\ lock'[t] = lock[t],
         \A e \in Emails : current'[e] \in Nat /\ current[e] \in Nat /\ current'[e] >= current[e],
         stopped => stopped',
         \A s \in Swaps : pc'[s] \in InThread /\ s \notin awaited' =>
           /\ Mail(s)' \in Emails
           /\ \/ current'[Mail(s)'] > 0
              \/ pc[s] \in InThread /\ s \notin awaited /\ Mail(s)' = Mail(s)
  PROVE  OrphanOK'
  BY DEF OrphanOK

LEMMA OrphanRefresher ==
  ASSUME TypeInv, AwaitedOK, OrphanOK, NEW r \in Refreshers,
         \/ \E e \in Emails : Begin(r, e)
         \/ Grab(r) \/ Resume(r) \/ GhostRelease(r) \/ PostAnswered(r) \/ PostFailed(r)
         \/ SaveBegin(r) \/ SaveEnd(r) \/ Release(r)
  PROVE  OrphanOK'
  <1> USE Cast
  <1>1. /\ \A t \in Tasks : t # r => /\ pc'[t] = pc[t] /\ lock'[t] = lock[t]
                                     /\ t \in awaited' <=> t \in awaited
        /\ UNCHANGED <<current, stopped>> /\ r \notin Swaps
    BY DEF Begin, Grab, Resume, GhostRelease, PostAnswered, PostFailed, Leave, SaveBegin,
         SaveEnd, Release, TypeInv, ControlOK, TableOK
  <1>2. Orphan(r)' => Orphan(r) /\ lock'[r] = lock[r]
    BY DEF Begin, Grab, Resume, GhostRelease, PostAnswered, PostFailed, Leave, SaveBegin,
         SaveEnd, Release, TypeInv, ControlOK, Orphan, AwaitedOK
  <1>3. \A e \in Emails : current[e] \in Nat
    BY DEF TypeInv, TableOK
  <1>4. ASSUME NEW s \in Swaps, pc'[s] \in InThread, s \notin awaited'
        PROVE  /\ Mail(s)' \in Emails
               /\ pc[s] \in InThread /\ s \notin awaited /\ Mail(s)' = Mail(s)
    BY <1>1, <1>4, LockParts DEF TypeInv, RoleOK, InThread, Mail
  <1>5. \A t \in Tasks : Orphan(t)' => Orphan(t) /\ lock'[t] = lock[t]
    BY <1>1, <1>2 DEF Orphan
  <1> QED
    BY <1>1, <1>3, <1>4, <1>5, OrphanFrame

LEMMA OrphanSwap ==
  ASSUME TypeInv, AwaitedOK, OrphanOK, NEW s \in Swaps,
         \/ \E e \in Emails : Request(s, e)
         \/ Enter(s) \/ SwapLock(s) \/ SwapCred(s) \/ SwapEnd(s) \/ Answer(s) \/ Deadline(s)
  PROVE  OrphanOK'
  <1> USE Cast
  <1>1. /\ \A t \in Tasks : t # s => /\ pc'[t] = pc[t] /\ lock'[t] = lock[t]
                                     /\ t \in awaited' <=> t \in awaited
        /\ UNCHANGED stopped /\ s \notin Pollers
    BY DEF Request, Enter, SwapLock, SwapCred, SwapEnd, Answer, Leave, Deadline, TypeInv,
         ControlOK, TableOK
  <1>2. /\ \A e \in Emails : current[e] \in Nat /\ current'[e] \in Nat /\ current'[e] >= current[e]
        /\ Deadline(s) => current'[Mail(s)] > 0
    BY LockParts DEF Request, Enter, SwapLock, SwapCred, SwapEnd, Answer, Leave, Deadline,
         Forget, TypeInv, TableOK, RoleOK, Mail, InThread
  <1>3. \A t \in Tasks : Orphan(t)' => Orphan(t) /\ lock'[t] = lock[t]
    BY <1>1 DEF Orphan
  <1>4. ASSUME NEW u \in Swaps, pc'[u] \in InThread, u \notin awaited'
        PROVE  /\ Mail(u)' \in Emails
               /\ \/ current'[Mail(u)'] > 0
                  \/ pc[u] \in InThread /\ u \notin awaited /\ Mail(u)' = Mail(u)
    <2>1. CASE u # s
      BY <1>1, <1>4, <2>1, LockParts DEF TypeInv, RoleOK, InThread, Mail
    <2>2. CASE u = s
      <3>1. UNCHANGED lock /\ pc[s] \in InThread \cup {"swap"}
        BY <1>4, <2>2 DEF Request, Enter, SwapLock, SwapCred, SwapEnd, Answer, Leave, Deadline,
             InThread, TypeInv, ControlOK
      <3>2. Mail(s) \in Emails /\ Mail(s)' = Mail(s)
        BY <3>1, LockParts DEF TypeInv, RoleOK, InThread, Mail
      <3>3. Deadline(s) \/ (pc[s] \in InThread /\ s \notin awaited)
        BY <1>4, <2>2 DEF Request, Enter, SwapLock, SwapCred, SwapEnd, Answer, Leave, InThread,
             TypeInv, ControlOK
      <3> QED
        BY <1>2, <2>2, <3>2, <3>3
    <2> QED
      BY <2>1, <2>2
  <1> QED
    BY <1>1, <1>2, <1>3, <1>4, OrphanFrame

\* Those the shutdown leaves without their locks held them until then.
LEMMA OrphanShutdown ==
  ASSUME TypeInv, AwaitedOK, TickOK, HolderOK, OrphanOK, Shutdown PROVE OrphanOK'
  <1> USE Cast
  <1>1. /\ UNCHANGED <<lock, current>> /\ ~stopped /\ stopped' = TRUE
        /\ \A t \in Revalidators \cup Switches : ~At(t, "switch") /\ t \notin awaited
    BY DEF Shutdown, UnderWay
  <1>2. ASSUME NEW t \in Tasks, Orphan(t)'
        PROVE  Owns(t) /\ t \in Pollers /\ t \in awaited /\ lock[t] \in Locks
    <2>1. t \in Pollers /\ pc[t] \in {"save", "saving"}
      BY <1>2, ShutdownMoves DEF Orphan
    <2> QED
      BY <1>1, <2>1 DEF Owns, Orphan, AwaitedOK, Begun, TypeInv, RoleOK
  <1>3. ASSUME NEW t \in Tasks, NEW u \in Tasks, Orphan(t)', Orphan(u)', lock'[t] = lock'[u]
        PROVE  t = u
    BY <1>1, <1>2, <1>3 DEF HolderOK
  <1>4. ASSUME NEW s \in Swaps, pc'[s] \in InThread,
               NEW r \in Tasks, Orphan(r)'
        PROVE  current[Mail(s)] > 0
    <2>1. pc[s] \in InThread
      <3>1. pc[s] \notin {"acquire", "granted"} /\ s \in Tasks
        BY DEF TypeInv, RoleOK, SwapAt, InThread
      <3> QED
        BY <1>4, <3>1, ShutdownMoves DEF InThread
    <2>2. s \notin awaited
      BY <1>1, <1>2, <1>4 DEF TickOK, UnderWay
    <2> QED
      BY <1>1, <2>1, <2>2 DEF OrphanOK
  <1> QED
    BY <1>1, <1>3, <1>4 DEF OrphanOK, Mail

LEMMA OrphanStep ==
  TypeInv /\ QueueOK /\ AwaitedOK /\ TickOK /\ HolderOK /\ OrphanOK /\ [Next]_vars => OrphanOK'
  <1> SUFFICES ASSUME TypeInv, QueueOK, AwaitedOK, TickOK, HolderOK, OrphanOK, [Next]_vars
               PROVE  OrphanOK'
    OBVIOUS
  <1>1. CASE Dispatch
    <2>1. PICK t \in Tasks : t = Head(queue) /\ pc[t] \in QueuedAt
      BY <1>1, HeadTailProperties, EmptySeq, LenProperties DEF Dispatch, TypeInv, PoolOK, QueueOK
    <2>2. CASE t \in Swaps /\ ~At(t, "done")
      <3>1. /\ Goto(t, "swapLock") /\ UNCHANGED <<current, awaited, stopped>>
            /\ \A u \in Tasks : u # t => lock'[u] = lock[u] /\ pc'[u] = pc[u]
        BY <1>1, <2>1, <2>2 DEF Dispatch, TypeInv, TableOK, ControlOK
      <3>2. t \in awaited /\ t \notin Pollers
        BY <2>1, <2>2, Cast DEF TypeInv, RoleOK, SwapAt, InThread, QueuedAt, AwaitedOK
      <3>3. \A u \in Tasks : Orphan(u)' => Orphan(u) /\ lock'[u] = lock[u]
        BY <3>1, <3>2 DEF Orphan
      <3>4. \A e \in Emails : current[e] \in Nat
        BY DEF TypeInv, TableOK
      <3>5. ASSUME NEW u \in Swaps, pc'[u] \in InThread, u \notin awaited'
            PROVE  /\ Mail(u)' \in Emails
                   /\ pc[u] \in InThread /\ u \notin awaited /\ Mail(u)' = Mail(u)
        BY <3>1, <3>2, <3>5, LockParts, Cast DEF TypeInv, RoleOK, InThread, Mail
      <3> QED
        BY <3>1, <3>3, <3>4, <3>5, OrphanFrame
    <2>3. CASE ~(t \in Swaps /\ ~At(t, "done"))
      BY <1>1, <2>1, <2>3 DEF Dispatch, OrphanOK, Orphan, Mail
    <2> QED
      BY <2>2, <2>3
  <1>2. ASSUME NEW t \in Tasks, Proceed(t) PROVE OrphanOK'
    BY <1>2, OrphanRefresher, OrphanSwap DEF Proceed
  <1>3. CASE \E r \in Refreshers, e \in Emails : Begin(r, e)
    BY <1>3, OrphanRefresher
  <1>4. CASE \/ \E s \in Swaps, e \in Emails : Request(s, e)
             \/ \E s \in Swaps : Deadline(s)
    BY <1>4, OrphanSwap
  <1>5. ASSUME NEW e \in Emails, Delete(e) PROVE OrphanOK'
    <2>1. /\ UNCHANGED <<pc, lock, awaited, stopped>>
          /\ \A f \in Emails : current[f] \in Nat /\ current'[f] \in Nat /\ current'[f] >= current[f]
      BY <1>5, Cast DEF Delete, Forget, TypeInv, TableOK
    <2>2. ASSUME NEW s \in Swaps, pc[s] \in InThread PROVE Mail(s) \in Emails
      BY <2>2, LockParts, Cast DEF TypeInv, RoleOK, InThread, Mail
    <2> QED
      BY <2>1, <2>2, OrphanFrame DEF Orphan, Mail
  <1>6. CASE UNCHANGED vars
    BY <1>6 DEF vars, OrphanOK, Orphan, Mail
  <1>7. CASE Shutdown
    BY <1>7, OrphanShutdown
  <1> QED
    BY <1>1, <1>2, <1>3, <1>4, <1>5, <1>6, <1>7 DEF Next

----------------------------------------------------------------------------
(* The theorems.                                                           *)

LEMMA InitIInv == Init => IInv
  <1> SUFFICES ASSUME Init PROVE IInv
    OBVIOUS
  <1> USE Cast
  <1>1. TypeInv
    <2>1. ControlOK /\ HeldOK /\ RoleOK
      BY DEF Init, ControlOK, PCs, HeldOK, RoleOK, RefresherAt, SwapAt
    <2>2. TableOK /\ NumberOK
      <3>1. /\ \A e \in Emails : current[e] = 0
            /\ \A t \in Tasks : lock[t] = None
            /\ drops = 0 /\ current = [e \in Emails |-> 0] /\ lock = [t \in Tasks |-> None]
        BY DEF Init
      <3> QED
        BY <3>1 DEF TableOK, NumberOK
    <2>3. PoolOK
      BY FS_EmptySet, EmptySeq DEF Init, PoolOK
    <2> QED
      BY <2>1, <2>2, <2>3 DEF TypeInv
  <1>2. QueueOK
    BY FS_EmptySet, EmptySeq DEF Init, QueueOK
  <1>3. ThreadOK /\ AwaitedOK /\ TickOK
    BY DEF Init, ThreadOK, ThreadAt, InThread, AwaitedOK, TickOK, UnderWay, Begun
  <1>4. HolderOK /\ CredOK /\ OrphanOK
    BY DEF Init, HolderOK, CredOK, OrphanOK, Owns, Orphan, InThread
  <1> QED
    BY <1>1, <1>2, <1>3, <1>4 DEF IInv, JobInv, LockInv

LEMMA StepIInv == IInv /\ [Next]_vars => IInv'
  BY TypeStep, ThreadStep, AwaitedStep, HolderStep, CredStep, OrphanStep
     DEF IInv, JobInv, LockInv

LEMMA Invariant == Spec => []IInv
  BY InitIInv, StepIInv, PTL DEF Spec

\* Every variable has its type; no more jobs have a thread than there are threads,
\* and whatever has one is at a point of the code that runs in one.
THEOREM TypeCorrect == Spec => []TypeOK
  <1>1. IInv => TypeOK
    BY TypeParts DEF IInv, TypeInv
  <1> QED
    BY Invariant, <1>1, PTL

\* As long as an account's lock has not been forgotten, one task or thread works on
\* its tokens at a time, the save or swap that outlives its task included.
THEOREM Exclusive == Spec => []ExclusiveUntilForgotten
  <1>1. ASSUME IInv, NEW e \in Emails, current[e] = 0,
               NEW t \in Tasks, NEW u \in Tasks, t # u, Working(t), Working(u),
               Mail(t) = e, Mail(u) = e
        PROVE  FALSE
    <2>1. ASSUME NEW v \in Tasks, Working(v), Mail(v) = e
          PROVE  lock[v] = <<e, 0>> /\ <<e, 0>> \in Locks
      <3>1. lock[v] \in Locks
        BY <1>1, <2>1 DEF IInv, TypeInv, RoleOK, Working
      <3> QED
        BY <1>1, <2>1, <3>1, LockParts DEF IInv, TypeInv, NumberOK, Mail
    <2>2. ASSUME NEW v \in Tasks, Working(v) PROVE Owns(v) \/ Orphan(v)
      BY <2>2 DEF Working, Owns
    <2>3. ~(Owns(t) /\ Owns(u))
      BY <1>1, <2>1 DEF IInv, LockInv, HolderOK
    <2>4. ~(Orphan(t) /\ Orphan(u))
      BY <1>1, <2>1 DEF IInv, LockInv, OrphanOK
    <2>5. ASSUME NEW v \in Tasks, NEW w \in Tasks, Owns(v), Working(v), Mail(v) = e, Orphan(w)
          PROVE  FALSE
      <3>1. stopped /\ awaited = {}
        BY <1>1, <2>5 DEF Orphan, IInv, JobInv, AwaitedOK
      <3>2. v \notin Refreshers
        <4>1. v \in Pollers => Orphan(v)
          BY <1>1, <2>5, <3>1, Cast DEF IInv, JobInv, AwaitedOK, Orphan, Working, TypeInv, RoleOK,
               RefresherAt, Begun
        <4>2. v \notin Revalidators
          BY <1>1, <2>5, <3>1 DEF IInv, JobInv, AwaitedOK, Working
        <4> QED
          BY <2>5, <4>1, <4>2, Cast DEF Owns
      <3>3. v \in Swaps /\ pc[v] \in InThread
        BY <1>1, <2>5, <3>2, Cast DEF Working, IInv, TypeInv, RoleOK, SwapAt, InThread
      <3> QED
        BY <1>1, <2>5, <3>1, <3>3 DEF IInv, LockInv, OrphanOK
    <2> QED
      BY <1>1, <2>2, <2>3, <2>4, <2>5
  <1>2. IInv => ExclusiveUntilForgotten
    BY <1>1 DEF ExclusiveUntilForgotten, Clash
  <1> QED
    BY Invariant, <1>2, PTL

\* When nobody is under way no lock is held and no thread busy: no cancellation or
\* deadline leaves a ghost behind.
THEOREM NoGhosts == Spec => []NoGhostHolder
  <1>1. ASSUME IInv, \A t \in Tasks : pc[t] \in {"idle", "done"}
        PROVE  /\ \A l \in Locks : holder[l] = None
               /\ cred = None /\ switch = None /\ running = {}
    <2>1. \A l \in Locks : holder[l] = None
      <3>1. ASSUME NEW l \in Locks, NEW t \in Tasks, holder[l] = t PROVE FALSE
        BY <1>1, <3>1 DEF IInv, LockInv, HolderOK, Owns
      <3> QED
        BY <1>1, <3>1 DEF IInv, TypeInv, HeldOK
    <2>2. cred = None
      BY <1>1 DEF IInv, LockInv, CredOK, TypeInv, HeldOK
    <2>3. switch = None
      BY <1>1, Cast DEF IInv, JobInv, AwaitedOK, TypeInv, HeldOK, InThread
    <2>4. running = {}
      BY <1>1 DEF IInv, TypeInv, PoolOK, RunningAt, InThread
    <2> QED
      BY <2>1, <2>2, <2>3, <2>4
  <1>2. IInv => NoGhostHolder
    BY <1>1 DEF NoGhostHolder
  <1> QED
    BY Invariant, <1>2, PTL

=============================================================================
