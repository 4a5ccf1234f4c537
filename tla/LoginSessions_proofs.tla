------------------------- MODULE LoginSessions_proofs -------------------------
(***************************************************************************)
(* LoginSessions' safety for any number of sessions, accounts and request  *)
(* handlers, and any number of failures and restarts.                      *)
(***************************************************************************)
EXTENDS LoginSessions, FiniteSetTheorems, WellFoundedInduction, TLAPS

USE DEF At, Goto, Threads, registry, scratch, saved, bounds, history

----------------------------------------------------------------------------
(* The inductive invariant.                                                *)

\* What a thread at work knows, and where the rest of its job may lie.
JobAt(t) ==
  /\ pc[t] \in {"window", "register", "kill", "wipe", "rmtree", "ident", "entry", "save"} =>
       job[t].sid \in Sessions \ fresh
  /\ pc[t] \in {"entry", "save", "enrol"} \/ job[t].then = "enrol" => job[t].email \in Emails
  /\ job[t].then \in {"idle", "mkdir", "orphans", "enrol"}
  /\ job[t].then = "enrol" => pc[t] \in {"clean", "kill", "wipe", "rmtree", "enrol"}
  /\ pc[t] = "reap" \/ job[t].op = "reap" =>
       ~up /\ t = Sweeper /\ job[t].then = "idle" /\ job[t].todo \cap fresh = {}
JobOK == \A t \in Threads : JobAt(t)

\* Until the server is up only the startup sweep runs.
StartupOK ==
  ~up => /\ reg = {} /\ \A h \in Handlers : pc[h] = "idle"
         /\ pc[Sweeper] \in {"idle", "reap", "wipe", "rmtree"}
         /\ pc[Sweeper] # "idle" => job[Sweeper].op = "reap"

\* A session that a thread is opening or tearing down is that thread's alone.
Holding  == {"window", "register", "kill", "wipe", "rmtree"}
Holds(t) == pc[t] \in Holding
HoldOK ==
  /\ \A t \in Threads : Holds(t) => job[t].sid \notin reg /\ (up => job[t].sid \in dirs)
  /\ \A t, u \in Threads : t # u /\ Holds(t) /\ Holds(u) => job[t].sid # job[u].sid
  /\ reg \subseteq dirs
  /\ \A t \in Threads : pc[t] \in {"register", "kill"} => target[job[t].sid] # None

\* A session has one window, and none before it is opened.
WindowsOK ==
  /\ \A v, w \in Slots : windows[v] = windows[w] /\ windows[v] # None => v = w
  /\ \A w \in Slots : windows[w] \notin fresh
  /\ \A t \in Threads, w \in Slots : pc[t] = "window" => windows[w] # job[t].sid

\* The index a session is known by is its window's, while it has one.
Has(s) == windows[target[s]] = s \/ s \in closed
OwnOK ==
  /\ \A s \in reg : Has(s)
  /\ \A t \in Threads : pc[t] \in {"register", "kill"} => Has(job[t].sid)

\* Whoever's window is open is known or has a directory, but for those of which
\* something failed.
Failed(s) == s \in missed \cup stillborn
Known(s)  == s \in reg \/ \E t \in Threads : pc[t] \in {"register", "kill"} /\ job[t].sid = s
KnownOK == \A w \in Slots : windows[w] # None /\ ~Failed(windows[w]) =>
  /\ up => target[windows[w]] = w /\ Known(windows[w])
  /\ ~up => windows[w] \in dirs /\ pc[Sweeper] = "idle"

\* The directory goes last.
WipedOK == \A t \in Threads :
  pc[t] = "rmtree" => entry[job[t].sid] = None \/ job[t].sid \in missed

PlaceOK == StartupOK /\ HoldOK /\ WindowsOK /\ OwnOK /\ KnownOK /\ WipedOK /\ Findable
IInv    == TypeOK /\ JobOK /\ PlaceOK /\ AddedIsSaved

----------------------------------------------------------------------------
(* Numbers.                                                                *)

LEMMA LeastFact ==
  ASSUME NEW S \in SUBSET Nat, S # {}
  PROVE  Min(S) \in S
  <1>1. PICK x \in S : \A y \in S : ~(<<y, x>> \in OpToRel(<, Nat))
    BY NatLessThanWellFounded, WFMin
  <1>2. \A y \in S : x <= y
    <2> SUFFICES ASSUME NEW y \in S PROVE x <= y
      OBVIOUS
    <2>1. <<y, x>> \in Nat \X Nat /\ ~(<<y, x>> \in OpToRel(<, Nat))
      BY <1>1
    <2> QED
      BY <2>1 DEF OpToRel
  <1> QED
    BY <1>1, <1>2 DEF Min

\* There is an index left for every session that is to get a window.
LEMMA FreeSlot ==
  ASSUME TypeOK, WindowsOK, NEW s \in Sessions, \A w \in Slots : windows[w] # s
  PROVE  /\ Min({w \in Slots : windows[w] = None}) \in Slots
         /\ windows[Min({w \in Slots : windows[w] = None})] = None
  <1> DEFINE Free == {w \in Slots : windows[w] = None}
             N == Cardinality(Sessions)
             Others == Sessions \ {s}
  <1>1. N \in Nat /\ IsFiniteSet(Sessions)
    BY LoginConstantsOK, FS_CardinalityType
  <1>2. IsFiniteSet(Others) /\ Cardinality(Others) = N - 1
    BY <1>1, FS_RemoveElement
  <1>3. N > 0
    BY <1>1, FS_EmptySet
  <1>4. Slots = 1..N /\ IsFiniteSet(Slots) /\ Cardinality(Slots) = N
    BY <1>1, <1>3, FS_Interval DEF Slots
  <1>5. Free # {}
    <2> SUFFICES ASSUME Free = {} PROVE FALSE
      OBVIOUS
    <2>1. windows \in [Slots -> Others]
      BY DEF TypeOK
    <2> HIDE DEF Others, N
    <2>2. \E v, w \in Slots : v # w /\ windows[v] = windows[w]
      BY <1>1, <1>2, <1>4, <2>1, FS_PigeonHole
    <2> QED
      BY <2>2 DEF WindowsOK
  <1>6. Free \in SUBSET Nat
    BY <1>4
  <1>7. Min(Free) \in Free
    BY <1>5, <1>6, LeastFact
  <1> QED
    BY <1>7

----------------------------------------------------------------------------
(* Steps of one thread.                                                    *)

Jobs == [op : Ops \cup {None},
         sid : Sessions \cup {None}, todo : SUBSET Sessions,
         then : PCs, email : Emails \cup {None}]

Others(t) == \A u \in Threads : u # t => pc'[u] = pc[u] /\ job'[u] = job[u]

LEMMA JobType == TypeOK => pc \in [Threads -> PCs] /\ job \in [Threads -> Jobs]
  BY DEF TypeOK, Jobs

LEMMA NoJobType == NoJob \in Jobs /\ NoJob.then = "idle" /\ NoJob.op = None
             /\ NoJob.op # "reap"
  BY LoginConstantsOK DEF NoJob, Jobs, PCs, Ops

\* A thread goes somewhere with a job.
LEMMA Move ==
  ASSUME TypeOK, NEW t \in Threads, NEW p \in PCs, NEW j \in Jobs,
         pc' = [pc EXCEPT ![t] = p], job' = [job EXCEPT ![t] = j]
  PROVE  /\ pc' \in [Threads -> PCs] /\ job' \in [Threads -> Jobs]
         /\ pc'[t] = p /\ job'[t] = j /\ Others(t)
  BY JobType DEF Others

\* A thread begins to clean up, and knows where it goes from there.
Cleans(t, then) ==
  /\ pc'[t] = "clean" /\ Others(t)
  /\ pc' \in [Threads -> PCs] /\ job' \in [Threads -> Jobs]
  /\ job'[t].sid = job[t].sid /\ job'[t].op = job[t].op /\ job'[t].email = job[t].email
  /\ job'[t].then = then

LEMMA CleanFact ==
  ASSUME TypeOK, NEW t \in Threads, NEW ids \in SUBSET Sessions, NEW then \in PCs,
         Clean(t, ids, then)
  PROVE  Cleans(t, then)
  <1> DEFINE j == [job[t] EXCEPT !.todo = ids, !.then = then]
  <1>1. job[t] \in Jobs
    BY JobType
  <1>2. /\ j \in Jobs /\ j.sid = job[t].sid /\ j.op = job[t].op /\ j.email = job[t].email
        /\ j.then = then
    BY <1>1 DEF Jobs
  <1>3. pc' = [pc EXCEPT ![t] = "clean"] /\ job' = [job EXCEPT ![t] = j] /\ "clean" \in PCs
    BY JobType DEF Clean, PCs
  <1> HIDE DEF j
  <1>4. pc' \in [Threads -> PCs] /\ job' \in [Threads -> Jobs]
        /\ pc'[t] = "clean" /\ job'[t] = j /\ Others(t)
    BY <1>2, <1>3, Move
  <1> QED
    BY <1>2, <1>4 DEF Cleans

LEMMA ReturnFact ==
  ASSUME TypeOK, NEW t \in Threads, Return(t)
  PROVE  /\ pc'[t] = "idle" /\ Others(t) /\ job'[t].then = "idle" /\ job'[t].op # "reap"
         /\ pc' \in [Threads -> PCs] /\ job' \in [Threads -> Jobs]
  <1>1. "idle" \in PCs
    BY DEF PCs
  <1>2. pc' = [pc EXCEPT ![t] = "idle"] /\ job' = [job EXCEPT ![t] = NoJob]
    BY DEF Return
  <1> QED
    BY <1>1, <1>2, Move, NoJobType

LEMMA GotoFact ==
  ASSUME TypeOK, NEW t \in Threads, NEW p \in PCs, Goto(t, p), job' = job
  PROVE  /\ pc'[t] = p /\ Others(t) /\ job'[t] = job[t]
         /\ pc' \in [Threads -> PCs] /\ job' \in [Threads -> Jobs]
  BY JobType DEF Others

LEMMA JobOthers ==
  ASSUME JobOK, NEW t \in Threads, Others(t), fresh' \subseteq fresh, up' => up, JobAt(t)'
  PROVE  JobOK'
  <1> SUFFICES ASSUME NEW u \in Threads, u # t PROVE JobAt(u)'
    BY DEF JobOK
  <1>1. pc'[u] = pc[u] /\ job'[u] = job[u] /\ JobAt(u)
    BY DEF Others, JobOK
  <1> QED
    BY <1>1 DEF JobAt

\* A step that neither opens nor tears down a session.
LEMMA LightPlace ==
  ASSUME PlaceOK, NEW t \in Threads, Others(t), up, ~Holds(t), ~Holds(t)',
         UNCHANGED <<up, fresh, reg, target, windows, dirs, entry, missed, closed, stillborn>>
  PROVE  PlaceOK'
  <1>1. \A u \in Threads : Holds(u)' => u # t /\ pc'[u] = pc[u] /\ job'[u] = job[u] /\ Holds(u)
    BY DEF Others, Holds
  <1>2. \A u \in Threads : Holds(u) => pc'[u] = pc[u] /\ job'[u] = job[u]
    BY DEF Others
  <1>3. StartupOK' /\ Findable'
    BY DEF PlaceOK, StartupOK, Findable
  <1>4. HoldOK'
    BY <1>1 DEF PlaceOK, HoldOK, Holds, Holding
  <1>5. WindowsOK'
    BY <1>1 DEF PlaceOK, WindowsOK, Holds, Holding
  <1>6. OwnOK'
    BY <1>1 DEF PlaceOK, OwnOK, Has, Holds, Holding
  <1>7. KnownOK'
    <2>1. \A s : Known(s) => Known(s)'
      BY <1>2 DEF Known, Holds, Holding
    <2> QED
      BY <2>1 DEF PlaceOK, KnownOK, Failed
  <1>8. WipedOK'
    BY <1>1 DEF PlaceOK, WipedOK, Holds, Holding
  <1> QED
    BY <1>3, <1>4, <1>5, <1>6, <1>7, <1>8 DEF PlaceOK

----------------------------------------------------------------------------
(* Types and jobs, step by step.                                           *)

LEMMA RegistryType ==
  TypeOK => /\ reg \subseteq Sessions \ fresh /\ \A s \in reg : target[s] \in Slots
            /\ Sessions \in SUBSET Nat /\ None \notin Sessions /\ Slots \subseteq Nat
  <1>1. Sessions \in SUBSET Nat /\ None \notin Nat /\ Slots \subseteq Nat
    BY LoginConstantsOK DEF Slots
  <1>2. None \notin Sessions
    BY <1>1
  <1> QED
    BY <1>1, <1>2 DEF TypeOK

\* Requests that begin, and the sweep: any thread in the server's ordinary run.
LEMMA BeginStep ==
  ASSUME IInv, NEW t \in Threads, NEW p \in {"clean", "ident"},
         NEW op \in {"add", "relogin", "cancel", "sweep"}, NEW s \in Sessions \cup {None},
         NEW e \in Emails \cup {None}, NEW ids \in SUBSET Sessions,
         NEW then \in {"idle", "mkdir", "orphans"},
         Begin(t, p, op, s, e, ids, then), p = "ident" => s \in Sessions \ fresh,
         UNCHANGED <<up, registry, windows, scratch, saved, bounds, history>>
  PROVE  IInv'
  <1>0. TypeOK /\ JobOK /\ PlaceOK
    BY DEF IInv
  <1>1. /\ p \in PCs /\ then \in PCs
        /\ op \in Ops \cup {None}
    BY DEF PCs, Ops
  <1>2. /\ pc'[t] = p /\ Others(t) /\ pc' \in [Threads -> PCs] /\ job' \in [Threads -> Jobs]
        /\ job'[t].sid = s /\ job'[t].op = op /\ job'[t].then = then
        /\ up /\ pc[t] = "idle"
    <2> DEFINE j == [op |-> op, sid |-> s, todo |-> ids, then |-> then, email |-> e]
    <2>1. j \in Jobs /\ j.sid = s /\ j.op = op /\ j.then = then
      BY <1>1 DEF Jobs
    <2>2. pc' = [pc EXCEPT ![t] = p] /\ job' = [job EXCEPT ![t] = j] /\ up /\ pc[t] = "idle"
      BY DEF Begin, Idle
    <2> HIDE DEF j
    <2> QED
      BY <1>0, <1>1, <2>1, <2>2, Move
  <1>3. TypeOK'
    BY <1>0, <1>2 DEF TypeOK, Jobs
  <1>4. op # "reap" /\ then # "enrol" /\ p \notin Holding \cup {"reap", "enrol"} /\ p # "save"
    BY DEF Holding
  <1>5. JobAt(t)'
    BY <1>2, <1>4 DEF JobAt, Holding
  <1>6. JobOK'
    BY <1>0, <1>2, <1>5, JobOthers
  <1>7. PlaceOK'
    BY <1>0, <1>2, <1>4, LightPlace DEF Holds, Holding
  <1>8. AddedIsSaved'
    BY <1>2, <1>4 DEF IInv, AddedIsSaved, Enrolling, Others
  <1> QED
    BY <1>3, <1>6, <1>7, <1>8 DEF IInv

LEMMA RequestStep ==
  ASSUME IInv, NEW h \in Handlers,
         \/ StartLogin(h)
         \/ \E e \in Emails : StartRelogin(h, e)
         \/ \E s \in Sessions : Verify(h, s) \/ Cancel(h, s)
  PROVE  IInv'
  <1>0. h \in Threads /\ reg \subseteq Sessions \ fresh /\ TypeOK
    BY RegistryType DEF IInv
  <1>1. CASE StartLogin(h)
    <2>1. PICK expired \in Expired : Begin(h, "clean", "add", None, None, expired, "mkdir")
      BY <1>1 DEF StartLogin
    <2>2. expired \in SUBSET Sessions
      BY <1>0 DEF Expired
    <2> QED
      BY <1>0, <1>1, <2>1, <2>2, BeginStep DEF StartLogin
  <1>2. ASSUME NEW e \in Emails, StartRelogin(h, e) PROVE IInv'
    <2>1. PICK expired \in Expired : Begin(h, "clean", "relogin", None, e, expired, "orphans")
      BY <1>2 DEF StartRelogin
    <2>2. expired \in SUBSET Sessions
      BY <1>0 DEF Expired
    <2> QED
      BY <1>0, <1>2, <2>1, <2>2, BeginStep DEF StartRelogin
  <1>3. ASSUME NEW s \in Sessions, Verify(h, s) PROVE IInv'
    <2>1. expected[s] \in Emails \cup {None} /\ s \in Sessions \ fresh
      BY <1>0, <1>3 DEF Verify, TypeOK
    <2>2. PICK op \in {"add", "relogin"} : Begin(h, "ident", op, s, expected[s], {}, "idle")
      BY <1>3 DEF Verify
    <2> QED
      BY <1>0, <1>3, <2>1, <2>2, BeginStep DEF Verify
  <1>4. ASSUME NEW s \in Sessions, Cancel(h, s) PROVE IInv'
    BY <1>0, <1>4, BeginStep DEF Cancel
  <1> QED
    BY <1>1, <1>2, <1>3, <1>4

LEMMA SweepStep ==
  ASSUME IInv, NEW expired \in Expired, Sweep(expired)
  PROVE  IInv'
  <1>1. Sweeper \in Threads /\ expired \in SUBSET Sessions
    BY RegistryType DEF IInv, Expired
  <1> QED
    BY <1>1, BeginStep DEF Sweep

----------------------------------------------------------------------------
(* The light steps of a job.                                               *)

\* Where a thread that neither opens nor tears down a session may go.
LEMMA LightStep ==
  ASSUME IInv, NEW t \in Threads, Others(t), pc[t] \notin Holding \cup {"idle", "reap"},
         pc' \in [Threads -> PCs], job' \in [Threads -> Jobs],
         pc'[t] \notin Holding, JobAt(t)',
         UNCHANGED <<up, fresh, reg, target, windows, dirs, entry, missed, closed, stillborn>>
  PROVE  JobOK' /\ PlaceOK'
  <1>1. TypeOK /\ JobOK /\ PlaceOK
    BY DEF IInv
  <1>2. up
    BY <1>1 DEF PlaceOK, StartupOK, Holding
  <1>3. JobOK'
    BY <1>1, JobOthers
  <1> QED
    BY <1>1, <1>2, <1>3, LightPlace DEF Holds

LEMMA OrphansStep ==
  ASSUME IInv, NEW t \in Threads, Orphans(t)
  PROVE  IInv'
  <1>0. TypeOK /\ pc[t] = "orphans" /\ JobAt(t) /\ job[t].op # "reap"
    BY DEF IInv, Orphans, JobOK, JobAt, PlaceOK, StartupOK
  <1> DEFINE ids == {s \in reg : expected[s] = job[t].email}
  <1>1. ids \in SUBSET Sessions /\ "mkdir" \in PCs
    BY <1>0, RegistryType DEF PCs
  <1>2. Clean(t, ids, "mkdir") /\ UNCHANGED <<up, registry, windows, scratch, saved, bounds, history>>
    BY DEF Orphans
  <1> HIDE DEF ids
  <1>3. /\ pc'[t] = "clean" /\ Others(t)
        /\ pc' \in [Threads -> PCs] /\ job' \in [Threads -> Jobs]
        /\ job'[t].sid = job[t].sid /\ job'[t].op = job[t].op /\ job'[t].email = job[t].email
        /\ job'[t].then = "mkdir"
    <2> DEFINE then == "mkdir"
    <2>1. TypeOK /\ ids \in SUBSET Sessions /\ then \in PCs /\ Clean(t, ids, then)
      BY <1>0, <1>1, <1>2
    <2> HIDE DEF then
    <2>2. Cleans(t, then)
      BY <2>1, CleanFact
    <2> QED
      BY <2>2 DEF then, Cleans
  <1>4. TypeOK'
    BY <1>0, <1>2, <1>3 DEF TypeOK, Jobs
  <1>5. JobAt(t)'
    BY <1>0, <1>2, <1>3 DEF JobAt
  <1>6. JobOK' /\ PlaceOK'
    BY <1>0, <1>2, <1>3, <1>5, LightStep DEF Holding
  <1>7. AddedIsSaved'
    BY <1>2, <1>3 DEF IInv, AddedIsSaved, Enrolling, Others
  <1> QED
    BY <1>4, <1>6, <1>7 DEF IInv

LEMMA ReadIdentityStep ==
  ASSUME IInv, NEW t \in Threads, ReadIdentity(t)
  PROVE  IInv'
  <1>0. TypeOK /\ pc[t] = "ident" /\ JobAt(t)
        /\ UNCHANGED <<up, registry, windows, scratch, saved, bounds, history>>
    BY DEF IInv, ReadIdentity, JobOK
  <1>1. job[t].then # "enrol" /\ job[t].sid \in Sessions \ fresh /\ job[t].op # "reap"
    BY <1>0 DEF JobAt, IInv, PlaceOK, StartupOK, Threads
  <1>2. /\ pc'[t] \in {"entry", "idle"} /\ Others(t)
        /\ pc' \in [Threads -> PCs] /\ job' \in [Threads -> Jobs]
        /\ job'[t].then = job[t].then \/ job'[t].then = "idle"
        /\ job'[t].op # "reap"
        /\ (pc'[t] = "entry" => job'[t].sid = job[t].sid /\ job'[t].email \in Emails)
    <2>1. CASE Return(t)
      BY <1>0, <2>1, ReturnFact DEF NoJob
    <2>2. CASE /\ ident[job[t].sid] # None /\ Goto(t, "entry")
               /\ job' = [job EXCEPT ![t].email = ident[job[t].sid],
                             ![t].op = IF @ = "relogin" /\ ident[job[t].sid] # job[t].email
                                       THEN "mismatch" ELSE @]
      <3> DEFINE op == IF job[t].op = "relogin" /\ ident[job[t].sid] # job[t].email
                       THEN "mismatch" ELSE job[t].op
                 j == [job[t] EXCEPT !.email = ident[job[t].sid], !.op = op]
      <3>1. ident[job[t].sid] \in Emails \cup {None}
        BY <1>0, <1>1 DEF TypeOK
      <3>2. op \in Ops \cup {None} /\ op # "reap"
        BY <1>0, <1>1, JobType DEF Jobs, Ops
      <3>3. job' = [job EXCEPT ![t] = j]
        BY <1>0, <2>2, JobType
      <3> HIDE DEF op
      <3>4. j \in Jobs /\ j.sid = job[t].sid /\ j.then = job[t].then /\ j.op = op
            /\ j.email \in Emails
        <4>1. job[t] \in Jobs /\ ident[job[t].sid] \in Emails
          BY <1>0, <2>2, <3>1, JobType
        <4> QED
          BY <3>2, <4>1 DEF Jobs
      <3>5. "entry" \in PCs /\ pc' = [pc EXCEPT ![t] = "entry"]
        BY <2>2 DEF PCs
      <3> HIDE DEF j
      <3> QED
        BY <1>0, <3>2, <3>3, <3>4, <3>5, Move
    <2> QED
      BY <2>1, <2>2 DEF ReadIdentity
  <1>4. TypeOK'
    BY <1>0, <1>2 DEF TypeOK, Jobs
  <1>5. JobAt(t)'
    BY <1>0, <1>1, <1>2 DEF JobAt
  <1>6. JobOK' /\ PlaceOK'
    BY <1>0, <1>2, <1>5, LightStep DEF Holding
  <1>7. AddedIsSaved'
    BY <1>0, <1>1, <1>2 DEF IInv, AddedIsSaved, Enrolling, Others
  <1> QED
    BY <1>4, <1>6, <1>7 DEF IInv

LEMMA ReadEntryStep ==
  ASSUME IInv, NEW t \in Threads, ReadEntry(t)
  PROVE  IInv'
  <1>0. /\ TypeOK /\ pc[t] = "entry" /\ JobAt(t) /\ crashes' = crashes
        /\ UNCHANGED <<up, registry, windows, scratch, saved, history>>
    BY DEF IInv, ReadEntry, JobOK
  <1>1. /\ job[t].then # "enrol" /\ job[t].sid \in Sessions \ fresh /\ job[t].op # "reap"
        /\ entry[job[t].sid] \in Emails \cup {None}
    BY <1>0 DEF JobAt, IInv, PlaceOK, StartupOK, TypeOK
  <1>2. faults' \in 0..MaxFaults
    BY <1>0, LoginConstantsOK DEF ReadEntry, Fault, TypeOK
  <1>3. \/ Return(t)
        \/ Clean(t, {job[t].sid}, "idle")
        \/ Goto(t, "save") /\ job' = job /\ entry[job[t].sid] # None
    BY DEF ReadEntry
  <1>4. /\ pc'[t] \in {"save", "clean", "idle"} /\ Others(t)
        /\ pc' \in [Threads -> PCs] /\ job' \in [Threads -> Jobs]
        /\ job'[t].then \in {"idle", job[t].then} /\ job'[t].op # "reap"
        /\ (pc'[t] = "save" => job'[t] = job[t])
    <2>1. CASE Return(t)
      BY <1>0, <2>1, ReturnFact
    <2>2. CASE Clean(t, {job[t].sid}, "idle")
      <3> DEFINE ids == {job[t].sid}
      <3>1. ids \in SUBSET Sessions /\ "idle" \in PCs /\ Clean(t, ids, "idle")
        BY <1>1, <2>2 DEF PCs
      <3> HIDE DEF ids
      <3>2. Cleans(t, "idle")
        BY <1>0, <3>1, CleanFact
      <3> QED
        BY <1>0, <1>1, <3>2 DEF Cleans
    <2>3. CASE Goto(t, "save") /\ job' = job
      <3>1. "save" \in PCs
        BY DEF PCs
      <3> QED
        BY <1>0, <1>1, <2>3, <3>1, GotoFact
    <2> QED
      BY <1>3, <2>1, <2>2, <2>3
  <1>5. TypeOK'
    BY <1>0, <1>2, <1>4 DEF TypeOK, Jobs
  <1>6. JobAt(t)'
    BY <1>0, <1>1, <1>4 DEF JobAt
  <1>7. JobOK' /\ PlaceOK'
    BY <1>0, <1>4, <1>6, LightStep DEF Holding
  <1>8. AddedIsSaved'
    BY <1>0, <1>1, <1>4 DEF IInv, AddedIsSaved, Enrolling, Others
  <1> QED
    BY <1>5, <1>7, <1>8 DEF IInv

LEMMA SaveStep ==
  ASSUME IInv, NEW t \in Threads, Save(t)
  PROVE  IInv'
  <1> DEFINE s == job[t].sid
             e == job[t].email
  <1>0. /\ TypeOK /\ pc[t] = "save" /\ JobAt(t) /\ rows' = rows /\ crashes' = crashes
        /\ UNCHANGED <<up, registry, windows, scratch, missed, closed, stillborn, kept>>
    BY DEF IInv, Save, JobOK
  <1>1. s \in Sessions \ fresh /\ e \in Emails /\ job[t].op # "reap"
    BY <1>0 DEF JobAt, IInv, PlaceOK, StartupOK
  <1>2. PICK then \in {"idle", "enrol"} :
          /\ Clean(t, {s}, then)
          /\ \/ vault' = [vault EXCEPT ![e] = "new"] /\ UNCHANGED <<faults, undone>>
             \/ /\ Fault /\ (job[t].op = "add" => then = "idle")
                /\ \/ UNCHANGED <<vault, undone>>
                   \/ /\ vault' = [vault EXCEPT ![e] = "none"]
                      /\ undone' = undone \cup {u \in Threads \ {t} : Enrolling(u) /\ job[u].email = e}
    BY DEF Save
  <1>3. /\ pc'[t] = "clean" /\ Others(t)
        /\ pc' \in [Threads -> PCs] /\ job' \in [Threads -> Jobs]
        /\ job'[t].sid = s /\ job'[t].op = job[t].op /\ job'[t].email = e
        /\ job'[t].then = then
    <2> DEFINE ids == {s}
    <2>1. ids \in SUBSET Sessions /\ then \in PCs /\ Clean(t, ids, then)
      BY <1>1, <1>2 DEF PCs
    <2> HIDE DEF ids
    <2>2. Cleans(t, then)
      BY <1>0, <2>1, CleanFact
    <2> QED
      BY <2>2 DEF Cleans
  <1> HIDE DEF s, e
  <1>4. faults' \in 0..MaxFaults /\ undone' \subseteq Threads
    BY <1>0, <1>2, LoginConstantsOK DEF Fault, TypeOK
  <1>5. vault' \in [Emails -> {"none", "earlier", "new"}]
    BY <1>0, <1>1, <1>2 DEF TypeOK
  <1>6. TypeOK'
    BY <1>0, <1>3, <1>4, <1>5 DEF TypeOK, Jobs
  <1>7. JobAt(t)'
    BY <1>0, <1>1, <1>3 DEF JobAt
  <1>8. JobOK' /\ PlaceOK'
    BY <1>0, <1>3, <1>7, LightStep DEF Holding
  <1>9. AddedIsSaved'
    <2> SUFFICES ASSUME NEW u \in Threads, Enrolling(u)', job'[u].op = "add"
                 PROVE  vault'[job'[u].email] = "new" \/ u \in undone'
      BY DEF AddedIsSaved
    <2>1. CASE u = t
      <3>1. then = "enrol"
        BY <1>3, <2>1 DEF Enrolling
      <3>2. vault' = [vault EXCEPT ![e] = "new"]
        BY <1>2, <1>3, <2>1, <3>1
      <3> QED
        BY <1>0, <1>1, <1>3, <2>1, <3>2 DEF TypeOK
    <2>2. CASE u # t
      <3>1. /\ Enrolling(u) /\ job'[u] = job[u] /\ job[u].op = "add" /\ job[u].email \in Emails
            /\ vault[job[u].email] = "new" \/ u \in undone
        BY <1>3, <2>2 DEF Others, Enrolling, IInv, AddedIsSaved, JobOK, JobAt
      <3>2. undone \subseteq undone'
        BY <1>2
      <3>3. CASE vault' = [vault EXCEPT ![e] = "new"] \/ vault' = vault
        BY <1>0, <3>1, <3>2, <3>3 DEF TypeOK
      <3>4. CASE /\ vault' = [vault EXCEPT ![e] = "none"]
                 /\ undone' = undone \cup {v \in Threads \ {t} : Enrolling(v) /\ job[v].email = e}
        BY <1>0, <2>2, <3>1, <3>4 DEF TypeOK
      <3> QED
        BY <1>2, <3>3, <3>4
    <2> QED
      BY <2>1, <2>2
  <1> QED
    BY <1>6, <1>8, <1>9 DEF IInv

LEMMA EnrolStep ==
  ASSUME IInv, NEW t \in Threads, Enrol(t)
  PROVE  IInv'
  <1>0. /\ TypeOK /\ pc[t] = "enrol" /\ JobAt(t) /\ Return(t)
        /\ rows' = rows \cup {job[t].email} /\ undone' = undone \ {t}
        /\ UNCHANGED <<up, registry, windows, scratch, vault, bounds, missed, closed, stillborn,
                       kept>>
    BY DEF IInv, Enrol, JobOK
  <1>1. job[t].email \in Emails
    BY <1>0 DEF JobAt
  <1>2. /\ pc'[t] = "idle" /\ Others(t) /\ job'[t].then = "idle" /\ job'[t].op # "reap"
        /\ pc' \in [Threads -> PCs] /\ job' \in [Threads -> Jobs]
    BY <1>0, ReturnFact
  <1>3. TypeOK'
    BY <1>0, <1>1, <1>2 DEF TypeOK, Jobs
  <1>4. JobAt(t)'
    BY <1>2 DEF JobAt
  <1>5. JobOK' /\ PlaceOK'
    BY <1>0, <1>2, <1>4, LightStep DEF Holding
  <1>6. AddedIsSaved'
    BY <1>0, <1>2 DEF IInv, AddedIsSaved, Enrolling, Others
  <1> QED
    BY <1>3, <1>5, <1>6 DEF IInv

----------------------------------------------------------------------------
(* Tearing a session down.                                                 *)

\* What a thread that holds a session can count on.
LEMMA HolderFact ==
  ASSUME IInv, NEW t \in Threads, Holds(t)
  PROVE  /\ job[t].sid \in Sessions \ fresh /\ job[t].sid \notin reg
         /\ \A u \in Threads : u # t /\ Holds(u) => job[u].sid # job[t].sid
         /\ up \/ (t = Sweeper /\ job[t].op = "reap" /\ pc[t] \in {"wipe", "rmtree"})
  <1>1. JobAt(t) /\ HoldOK /\ StartupOK
    BY DEF IInv, JobOK, PlaceOK
  <1>2. pc[t] # "idle" /\ pc[t] # "reap"
    BY DEF Holds, Holding
  <1>3. ~up => t = Sweeper /\ job[t].op = "reap" /\ pc[t] \in {"wipe", "rmtree"}
    BY <1>1, <1>2 DEF StartupOK
  <1>4. job[t].sid \in Sessions \ fresh
    BY <1>1 DEF JobAt, Holds, Holding
  <1>5. job[t].sid \notin reg /\ \A u \in Threads : u # t /\ Holds(u) => job[u].sid # job[t].sid
    BY <1>1 DEF HoldOK
  <1> QED
    BY <1>3, <1>4, <1>5

\* The registry's entry is popped.
LEMMA PopStep ==
  ASSUME IInv, NEW t \in Threads, pc[t] = "clean", NEW s \in reg,
         reg' = reg \ {s}, Goto(t, "kill"),
         job' = [job EXCEPT ![t].todo = @ \ {s}, ![t].sid = s],
         UNCHANGED <<up, fresh, target, expected, windows, scratch, saved, bounds, history>>
  PROVE  IInv'
  <1>0. TypeOK /\ PlaceOK /\ JobAt(t) /\ s \in Sessions \ fresh /\ target[s] # None
        /\ reg \subseteq Sessions
    BY DEF IInv, JobOK, TypeOK
  <1>1. up /\ ~Holds(t)
    BY <1>0 DEF PlaceOK, StartupOK, Holds, Holding
  <1>2. /\ pc'[t] = "kill" /\ Others(t) /\ job'[t].sid = s
        /\ pc' \in [Threads -> PCs] /\ job' \in [Threads -> Jobs]
        /\ job'[t].then = job[t].then /\ job'[t].op = job[t].op /\ job'[t].email = job[t].email
    <2> DEFINE j == [job[t] EXCEPT !.todo = @ \ {s}, !.sid = s]
    <2>1. /\ j \in Jobs /\ j.sid = s /\ j.then = job[t].then /\ j.op = job[t].op
          /\ j.email = job[t].email
      <3>1. job[t] \in Jobs /\ s \in Sessions
        BY <1>0, JobType
      <3> QED
        BY <3>1 DEF Jobs
    <2>2. pc' = [pc EXCEPT ![t] = "kill"] /\ job' = [job EXCEPT ![t] = j] /\ "kill" \in PCs
      BY <1>0, JobType DEF PCs
    <2> HIDE DEF j
    <2>3. /\ pc' \in [Threads -> PCs] /\ job' \in [Threads -> Jobs]
          /\ pc'[t] = "kill" /\ job'[t] = j /\ Others(t)
      BY <1>0, <2>1, <2>2, Move, Zenon
    <2> QED
      BY <2>1, <2>3
  <1>3. TypeOK'
    BY <1>0, <1>2 DEF TypeOK, Jobs
  <1>4. JobOK'
    <2>1. JobAt(t)'
      BY <1>0, <1>1, <1>2 DEF JobAt
    <2> QED
      BY <1>2, <2>1, JobOthers DEF IInv
  <1>5. \A u \in Threads : u # t => pc'[u] = pc[u] /\ job'[u] = job[u]
    BY <1>2 DEF Others
  <1>6. StartupOK' /\ Findable'
    BY <1>0, <1>1 DEF PlaceOK, StartupOK, Findable
  <1>7. HoldOK'
    BY <1>0, <1>2, <1>5 DEF PlaceOK, HoldOK, Holds, Holding
  <1>8. WindowsOK'
    BY <1>0, <1>2, <1>5 DEF PlaceOK, WindowsOK
  <1>9. OwnOK'
    <2>1. \A x : Has(x)' <=> Has(x)
      BY DEF Has
    <2>2. Has(s) /\ \A x \in reg' : Has(x)
      BY DEF IInv, PlaceOK, OwnOK
    <2>3. ASSUME NEW u \in Threads, pc'[u] \in {"register", "kill"} PROVE Has(job'[u].sid)
      <3>1. CASE u = t
        BY <1>2, <2>2, <3>1
      <3>2. CASE u # t
        BY <1>0, <1>5, <2>3, <3>2 DEF PlaceOK, OwnOK
      <3> QED
        BY <3>1, <3>2
    <2> QED
      BY <2>1, <2>2, <2>3 DEF OwnOK
  <1>10. KnownOK'
    <2>1. ASSUME NEW x, Known(x) PROVE Known(x)'
      <3>1. CASE x = s
        BY <1>2, <3>1 DEF Known
      <3>2. CASE x # s /\ x \in reg
        BY <3>2 DEF Known
      <3>3. CASE \E u \in Threads : pc[u] \in {"register", "kill"} /\ job[u].sid = x
        BY <1>5, <3>3 DEF Known
      <3> QED
        BY <2>1, <3>1, <3>2, <3>3 DEF Known
    <2> QED
      BY <1>0, <1>1, <2>1 DEF PlaceOK, KnownOK, Failed
  <1>11. WipedOK'
    BY <1>0, <1>2, <1>5 DEF PlaceOK, WipedOK
  <1>12. AddedIsSaved'
    BY <1>2, <1>5 DEF IInv, AddedIsSaved, Enrolling
  <1> QED
    BY <1>3, <1>4, <1>6, <1>7, <1>8, <1>9, <1>10, <1>11, <1>12 DEF IInv, PlaceOK

LEMMA CleanNextStep ==
  ASSUME IInv, NEW t \in Threads, CleanNext(t)
  PROVE  IInv'
  <1> DEFINE s == Min(job[t].todo)
  <1>0. TypeOK /\ pc[t] = "clean" /\ JobAt(t) /\ Sessions \in SUBSET Nat
        /\ UNCHANGED <<up, fresh, target, expected, windows, scratch, saved, bounds, history>>
    BY RegistryType DEF IInv, CleanNext, JobOK
  <1>1. up /\ job[t].op # "reap"
    BY <1>0 DEF IInv, PlaceOK, StartupOK, JobAt
  <1>2. CASE job[t].todo # {} /\ s \in reg
    <2>1. /\ reg' = reg \ {s} /\ Goto(t, "kill")
          /\ job' = [job EXCEPT ![t].todo = @ \ {s}, ![t].sid = s]
      BY <1>2 DEF CleanNext
    <2> HIDE DEF s
    <2> QED
      BY <1>0, <1>2, <2>1, PopStep
  <1>3. ASSUME Others(t), pc' \in [Threads -> PCs], job' \in [Threads -> Jobs], reg' = reg,
               pc'[t] \notin Holding, JobAt(t)', Enrolling(t)' => Enrolling(t),
               (job'[t].op = job[t].op /\ job'[t].email = job[t].email) \/ ~Enrolling(t)'
        PROVE  IInv'
    <2>1. TypeOK'
      BY <1>0, <1>3 DEF TypeOK, Jobs
    <2>2. JobOK' /\ PlaceOK'
      BY <1>0, <1>3, LightStep DEF Holding
    <2>3. AddedIsSaved'
      BY <1>0, <1>3 DEF IInv, AddedIsSaved, Enrolling, Others
    <2> QED
      BY <2>1, <2>2, <2>3 DEF IInv
  <1>4. CASE job[t].todo = {}
    <2>1. Resume(t) /\ reg' = reg
      BY <1>4 DEF CleanNext
    <2>2. CASE job[t].then = "idle"
      <3>1. Return(t)
        BY <2>1, <2>2 DEF Resume
      <3>2. /\ pc'[t] = "idle" /\ Others(t) /\ job'[t].then = "idle" /\ job'[t].op # "reap"
            /\ pc' \in [Threads -> PCs] /\ job' \in [Threads -> Jobs]
        BY <1>0, <3>1, ReturnFact
      <3> QED
        BY <1>3, <2>1, <3>2 DEF JobAt, Holding, Enrolling
    <2>3. CASE job[t].then # "idle"
      <3> DEFINE p == job[t].then
      <3>1. p \in {"mkdir", "orphans", "enrol"} /\ p \in PCs
        BY <1>0, <2>3 DEF JobAt, PCs
      <3>2. Goto(t, p) /\ job' = job
        BY <2>1, <2>3 DEF Resume
      <3>3. /\ pc'[t] = p /\ Others(t) /\ job'[t] = job[t]
            /\ pc' \in [Threads -> PCs] /\ job' \in [Threads -> Jobs]
        <4> HIDE DEF p
        <4> QED
          BY <1>0, <3>1, <3>2, GotoFact
      <3>4. JobAt(t)'
        BY <1>0, <1>1, <3>1, <3>3 DEF JobAt
      <3> QED
        BY <1>3, <2>1, <3>1, <3>3, <3>4 DEF Holding, Enrolling
    <2> QED
      BY <2>2, <2>3
  <1>5. CASE job[t].todo # {} /\ s \notin reg
    <2> DEFINE j == [job[t] EXCEPT !.todo = @ \ {s}]
    <2>1. /\ j \in Jobs /\ j.sid = job[t].sid /\ j.then = job[t].then /\ j.op = job[t].op
          /\ j.email = job[t].email
      BY <1>0, JobType DEF Jobs
    <2>2. reg' = reg /\ pc' = pc /\ job' = [job EXCEPT ![t] = j]
      <3>1. reg' = reg \ {s} /\ pc' = pc /\ job' = [job EXCEPT ![t].todo = @ \ {s}, ![t].sid = @]
        BY <1>5 DEF CleanNext
      <3>2. job' = [job EXCEPT ![t] = [job[t] EXCEPT !.todo = @ \ {s}, !.sid = job[t].sid]]
        BY <1>0, <3>1, JobType
      <3>3. [job[t] EXCEPT !.todo = @ \ {s}, !.sid = job[t].sid] = j
        BY <1>0, JobType DEF Jobs
      <3> QED
        BY <1>5, <3>1, <3>2, <3>3
    <2> HIDE DEF j
    <2>3. pc' = [pc EXCEPT ![t] = "clean"] /\ "clean" \in PCs
      BY <1>0, <2>2, JobType DEF PCs
    <2>4. /\ pc'[t] = "clean" /\ Others(t) /\ job'[t] = j
          /\ pc' \in [Threads -> PCs] /\ job' \in [Threads -> Jobs]
      BY <1>0, <2>1, <2>2, <2>3, Move
    <2>5. JobAt(t)'
      BY <1>0, <1>1, <2>1, <2>4 DEF JobAt
    <2> QED
      BY <1>0, <1>3, <2>1, <2>2, <2>4, <2>5 DEF Holding, Enrolling
  <1> QED
    BY <1>2, <1>4, <1>5

LEMMA KillStep ==
  ASSUME IInv, NEW t \in Threads, Kill(t)
  PROVE  IInv'
  <1> DEFINE s == job[t].sid
             whose == {windows[w] : w \in Slots \cap {target[s]}}
  <1>0. /\ TypeOK /\ PlaceOK /\ JobAt(t) /\ pc[t] = "kill" /\ Goto(t, "wipe") /\ Holds(t)
        /\ UNCHANGED <<up, registry, scratch, saved, job, crashes, stillborn, kept, undone>>
    BY DEF IInv, Kill, JobOK, Holds, Holding
  <1>1. /\ up /\ s \in Sessions \ fresh /\ s \notin reg /\ target[s] \in Slots
        /\ \A u \in Threads : u # t /\ Holds(u) => job[u].sid # s
    BY <1>0, HolderFact DEF TypeOK, PlaceOK, HoldOK
  <1>2. /\ \/ /\ windows' = [windows EXCEPT ![target[s]] = None]
              /\ closed' = closed \cup ({windows[target[s]]} \ {s, None})
              /\ UNCHANGED <<faults, missed>>
           \/ Fault /\ missed' = missed \cup {s} /\ UNCHANGED <<windows, closed>>
    BY <1>1 DEF Kill
  <1> HIDE DEF s, whose
  <1>3. /\ pc'[t] = "wipe" /\ Others(t) /\ job'[t] = job[t]
        /\ pc' \in [Threads -> PCs] /\ job' \in [Threads -> Jobs]
    <2>1. "wipe" \in PCs
      BY DEF PCs
    <2> QED
      BY <1>0, <2>1, GotoFact
  <1>4. \A u \in Threads : u # t => pc'[u] = pc[u]
    BY <1>3 DEF Others
  <1>5. \A w \in Slots :
          \/ windows'[w] = windows[w]
          \/ /\ windows'[w] = None /\ w = target[s]
             /\ windows[w] \in closed' \cup {s, None}
    <2>1. windows \in [Slots -> Sessions \cup {None}]
      BY <1>0 DEF TypeOK
    <2>2. CASE windows' = windows
      BY <2>2
    <2>3. CASE /\ windows' = [windows EXCEPT ![target[s]] = None]
               /\ closed' = closed \cup ({windows[target[s]]} \ {s, None})
      BY <1>1, <2>1, <2>3
    <2> QED
      BY <1>2, <2>2, <2>3
  <1>6. /\ faults' \in 0..MaxFaults /\ missed' \subseteq Sessions /\ closed' \subseteq Sessions
        /\ windows' \in [Slots -> Sessions \cup {None}]
        /\ missed \subseteq missed' /\ closed \subseteq closed'
        /\ windows'[target[s]] = None \/ s \in missed'
    <2>1. /\ windows \in [Slots -> Sessions \cup {None}]
          /\ missed \subseteq Sessions /\ closed \subseteq Sessions
          /\ faults \in 0..MaxFaults /\ MaxFaults \in Nat
      BY <1>0, LoginConstantsOK DEF TypeOK
    <2>2. CASE /\ windows' = [windows EXCEPT ![target[s]] = None]
               /\ closed' = closed \cup ({windows[target[s]]} \ {s, None})
               /\ UNCHANGED <<faults, missed>>
      BY <1>1, <2>1, <2>2
    <2>3. CASE Fault /\ missed' = missed \cup {s} /\ UNCHANGED <<windows, closed>>
      BY <1>1, <2>1, <2>3 DEF Fault
    <2> QED
      BY <1>2, <2>2, <2>3
  <1>7. TypeOK'
    BY <1>0, <1>3, <1>6 DEF TypeOK, Jobs
  <1>8. JobOK'
    <2>1. JobAt(t)'
      BY <1>0, <1>1, <1>3 DEF JobAt
    <2> QED
      BY <1>0, <1>3, <2>1, JobOthers DEF IInv
  <1>9. None \notin Sessions /\ reg \subseteq Sessions
    BY <1>0, LoginConstantsOK DEF TypeOK
  <1>10. StartupOK' /\ Findable'
    BY <1>0, <1>1, <1>6 DEF PlaceOK, StartupOK, Findable
  <1>11. HoldOK'
    BY <1>0, <1>3, <1>4 DEF PlaceOK, HoldOK, Holds, Holding
  <1>12. WindowsOK'
    <2>1. \A u \in Threads : pc'[u] = "window" => pc[u] = "window" /\ job[u].sid \in Sessions
      BY <1>3, <1>4 DEF IInv, JobOK, JobAt
    <2>2. \A w \in Slots : windows'[w] = windows[w] \/ windows'[w] = None
      BY <1>5
    <2>3. None \notin fresh
      BY <1>0, <1>9 DEF TypeOK
    <2> QED
      BY <1>0, <1>9, <2>1, <2>2, <2>3 DEF PlaceOK, WindowsOK
  <1>13. OwnOK'
    <2>1. ASSUME NEW x \in Sessions, x # s, target[x] \in Slots, Has(x) PROVE Has(x)'
      BY <1>0, <1>5, <1>6, <1>9, <2>1 DEF Has
    <2>2. \A x \in reg : target[x] \in Slots /\ x # s /\ x \in Sessions
      BY <1>0, <1>1, RegistryType
    <2>3. ASSUME NEW u \in Threads, pc'[u] \in {"register", "kill"}
          PROVE  /\ pc[u] = pc'[u] /\ job[u].sid \in Sessions /\ job[u].sid # s
                 /\ target[job[u].sid] \in Slots
      <3>1. u # t /\ pc[u] = pc'[u] /\ Holds(u)
        BY <1>3, <1>4, <2>3 DEF Holds, Holding
      <3>2. job[u].sid \in Sessions /\ target[job[u].sid] # None
        BY <1>0, <2>3, <3>1 DEF IInv, JobOK, JobAt, PlaceOK, HoldOK
      <3> QED
        BY <1>0, <1>1, <3>1, <3>2 DEF TypeOK
    <2> QED
      BY <1>0, <2>1, <2>2, <2>3 DEF PlaceOK, OwnOK
  <1>14. KnownOK'
    <2> SUFFICES ASSUME NEW w \in Slots, windows'[w] # None, ~Failed(windows[w])',
                        windows'[w] = windows[w]
                 PROVE  target[windows[w]] = w /\ Known(windows[w])'
      BY <1>0, <1>1, <1>5 DEF KnownOK
    <2>1. windows[w] # None /\ ~Failed(windows[w])
      BY <1>0, <1>6 DEF Failed
    <2>2. target[windows[w]] = w /\ Known(windows[w])
      BY <1>0, <1>1, <2>1 DEF PlaceOK, KnownOK
    <2>3. windows[w] # s
      BY <1>6, <2>2 DEF Failed
    <2>4. Known(windows[w])'
      BY <1>0, <1>4, <2>2, <2>3 DEF Known, s
    <2> QED
      BY <2>2, <2>4
  <1>15. WipedOK'
    BY <1>0, <1>3, <1>4, <1>6 DEF PlaceOK, WipedOK
  <1>16. AddedIsSaved'
    BY <1>0, <1>3, <1>4 DEF IInv, AddedIsSaved, Enrolling
  <1> QED
    BY <1>7, <1>8, <1>10, <1>11, <1>12, <1>13, <1>14, <1>15, <1>16 DEF IInv, PlaceOK

LEMMA WipeStep ==
  ASSUME IInv, NEW t \in Threads, Wipe(t)
  PROVE  IInv'
  <1> DEFINE s == job[t].sid
  <1>0. /\ TypeOK /\ PlaceOK /\ JobAt(t) /\ pc[t] = "wipe" /\ Goto(t, "rmtree") /\ Holds(t)
        /\ UNCHANGED <<up, registry, windows, dirs, ident, saved, job, crashes, closed, stillborn,
                       kept, undone>>
    BY DEF IInv, Wipe, JobOK, Holds, Holding
  <1>1. /\ s \in Sessions \ fresh
        /\ \A u \in Threads : u # t /\ Holds(u) => job[u].sid # s
        /\ up \/ t = Sweeper
    BY <1>0, HolderFact
  <1>2. \/ entry' = [entry EXCEPT ![s] = None] /\ UNCHANGED <<faults, missed>>
        \/ Fault /\ missed' = missed \cup {s} /\ UNCHANGED entry
    BY DEF Wipe
  <1> HIDE DEF s
  <1>3. /\ pc'[t] = "rmtree" /\ Others(t) /\ job'[t] = job[t]
        /\ pc' \in [Threads -> PCs] /\ job' \in [Threads -> Jobs]
    <2>1. "rmtree" \in PCs
      BY DEF PCs
    <2> QED
      BY <1>0, <2>1, GotoFact
  <1>4. \A u \in Threads : u # t => pc'[u] = pc[u]
    BY <1>3 DEF Others
  <1>5. /\ faults' \in 0..MaxFaults /\ missed' \subseteq Sessions /\ missed \subseteq missed'
        /\ entry' \in [Sessions -> Emails \cup {None}]
        /\ \A x \in Sessions : entry'[x] = entry[x] \/ entry'[x] = None
        /\ entry'[s] = None \/ s \in missed'
    <2>1. /\ entry \in [Sessions -> Emails \cup {None}] /\ missed \subseteq Sessions
          /\ faults \in 0..MaxFaults /\ MaxFaults \in Nat
      BY <1>0, LoginConstantsOK DEF TypeOK
    <2>2. CASE entry' = [entry EXCEPT ![s] = None] /\ UNCHANGED <<faults, missed>>
      BY <1>1, <2>1, <2>2
    <2>3. CASE Fault /\ missed' = missed \cup {s} /\ UNCHANGED entry
      BY <1>1, <2>1, <2>3 DEF Fault
    <2> QED
      BY <1>2, <2>2, <2>3
  <1>6. TypeOK'
    BY <1>0, <1>3, <1>5 DEF TypeOK, Jobs
  <1>7. JobOK'
    <2>1. JobAt(t)'
      BY <1>0, <1>1, <1>3 DEF JobAt
    <2> QED
      BY <1>0, <1>3, <2>1, JobOthers DEF IInv
  <1>8. StartupOK'
    BY <1>0, <1>1, <1>3, <1>4 DEF PlaceOK, StartupOK
  <1>9. Findable'
    BY <1>0, <1>5 DEF PlaceOK, Findable
  <1>10. HoldOK'
    BY <1>0, <1>3, <1>4 DEF PlaceOK, HoldOK, Holds, Holding
  <1>11. WindowsOK' /\ OwnOK'
    BY <1>0, <1>3, <1>4 DEF PlaceOK, WindowsOK, OwnOK, Has
  <1>12. KnownOK'
    <2>1. \A x : Known(x) => Known(x)'
      BY <1>0, <1>4 DEF Known
    <2>2. \A x : ~Failed(x)' => ~Failed(x)
      BY <1>0, <1>5 DEF Failed
    <2>3. ~up => pc[Sweeper] # "idle"
      BY <1>0, <1>1
    <2> QED
      BY <1>0, <2>1, <2>2, <2>3 DEF PlaceOK, KnownOK
  <1>13. WipedOK'
    <2> SUFFICES ASSUME NEW u \in Threads, pc'[u] = "rmtree"
                 PROVE  entry'[job[u].sid] = None \/ job[u].sid \in missed'
      BY <1>0 DEF WipedOK
    <2>1. CASE u = t
      BY <1>5, <2>1 DEF s
    <2>2. CASE u # t
      <3>1. pc[u] = "rmtree" /\ job[u].sid \in Sessions
        BY <1>4, <2>2 DEF IInv, JobOK, JobAt
      <3> QED
        BY <1>0, <1>5, <3>1 DEF PlaceOK, WipedOK
    <2> QED
      BY <2>1, <2>2
  <1>14. AddedIsSaved'
    BY <1>0, <1>3, <1>4 DEF IInv, AddedIsSaved, Enrolling
  <1> QED
    BY <1>6, <1>7, <1>8, <1>9, <1>10, <1>11, <1>12, <1>13, <1>14 DEF IInv, PlaceOK

LEMMA RmtreeStep ==
  ASSUME IInv, NEW t \in Threads, Rmtree(t)
  PROVE  IInv'
  <1> DEFINE s == job[t].sid
             p == IF job[t].op = "reap" THEN "reap" ELSE "clean"
  <1>0. /\ TypeOK /\ PlaceOK /\ JobAt(t) /\ pc[t] = "rmtree" /\ Goto(t, p) /\ Holds(t)
        /\ target' = [target EXCEPT ![s] = None] /\ expected' = [expected EXCEPT ![s] = None]
        /\ UNCHANGED <<up, fresh, reg, windows, entry, saved, job, crashes, missed, closed,
                       stillborn, undone>>
    BY DEF IInv, Rmtree, JobOK, Holds, Holding
  <1>00. \/ /\ dirs' = dirs \ {s} /\ ident' = [ident EXCEPT ![s] = None]
            /\ UNCHANGED <<faults, kept>>
         \/ /\ Fault /\ kept' = kept \cup {s}
            /\ ident' \in {ident, [ident EXCEPT ![s] = None]} /\ UNCHANGED dirs
    BY DEF Rmtree
  <1>1. /\ s \in Sessions \ fresh /\ s \notin reg
        /\ \A u \in Threads : u # t /\ Holds(u) => job[u].sid # s
        /\ up \/ (t = Sweeper /\ job[t].op = "reap")
    BY <1>0, HolderFact
  <1>2. p \in {"reap", "clean"} /\ (p = "reap" <=> job[t].op = "reap")
    OBVIOUS
  <1>3. entry[s] = None \/ s \in missed
    BY <1>0 DEF PlaceOK, WipedOK
  <1> HIDE DEF s, p
  <1>4. /\ pc'[t] = p /\ Others(t) /\ job'[t] = job[t]
        /\ pc' \in [Threads -> PCs] /\ job' \in [Threads -> Jobs]
    <2>1. p \in PCs
      BY <1>2 DEF PCs
    <2> QED
      BY <1>0, <2>1, GotoFact
  <1>5. \A u \in Threads : u # t => pc'[u] = pc[u]
    BY <1>4 DEF Others
  <1>6. /\ ident' \in [Sessions -> Emails \cup {None}] /\ expected' \in [Sessions -> Emails \cup {None}]
        /\ target' \in [Sessions -> Slots \cup {None}]
        /\ \A x \in Sessions : x # s => target'[x] = target[x]
        /\ dirs' \subseteq dirs /\ \A x \in dirs : x # s => x \in dirs'
        /\ faults' \in 0..MaxFaults /\ kept' \subseteq Sessions
    <2>1. /\ ident \in [Sessions -> Emails \cup {None}] /\ expected \in [Sessions -> Emails \cup {None}]
          /\ target \in [Sessions -> Slots \cup {None}] /\ kept \subseteq Sessions
          /\ faults \in 0..MaxFaults /\ MaxFaults \in Nat
      BY <1>0, LoginConstantsOK DEF TypeOK
    <2>2. CASE /\ dirs' = dirs \ {s} /\ ident' = [ident EXCEPT ![s] = None]
               /\ UNCHANGED <<faults, kept>>
      BY <1>0, <2>1, <2>2
    <2>3. CASE /\ Fault /\ kept' = kept \cup {s}
               /\ ident' \in {ident, [ident EXCEPT ![s] = None]} /\ UNCHANGED dirs
      BY <1>0, <1>1, <2>1, <2>3 DEF Fault
    <2> QED
      BY <1>00, <2>2, <2>3
  <1>7. TypeOK'
    BY <1>0, <1>1, <1>4, <1>6 DEF TypeOK, Jobs
  <1>8. JobOK'
    <2>1. JobAt(t)'
      BY <1>0, <1>1, <1>2, <1>4 DEF JobAt
    <2> QED
      BY <1>0, <1>4, <2>1, JobOthers DEF IInv
  <1>9. StartupOK'
    BY <1>0, <1>1, <1>2, <1>4, <1>5 DEF PlaceOK, StartupOK
  <1>10. Findable'
    BY <1>0, <1>3, <1>6 DEF PlaceOK, Findable
  <1>11. reg \subseteq Sessions /\ \A u \in Threads : Holds(u) => job[u].sid \in Sessions
    BY <1>0, HolderFact DEF TypeOK
  <1>12. \A u \in Threads : Holds(u)' => u # t /\ Holds(u) /\ pc'[u] = pc[u] /\ job[u].sid # s
    BY <1>1, <1>2, <1>4, <1>5 DEF Holds, Holding
  <1>13. HoldOK'
    <2>1. \A u \in Threads : Holds(u)' => job'[u].sid \notin reg' /\ (up' => job'[u].sid \in dirs')
      BY <1>0, <1>6, <1>12 DEF PlaceOK, HoldOK
    <2>2. \A u, v \in Threads : u # v /\ Holds(u)' /\ Holds(v)' => job'[u].sid # job'[v].sid
      BY <1>0, <1>12 DEF PlaceOK, HoldOK
    <2>3. reg' \subseteq dirs'
      BY <1>0, <1>1, <1>6 DEF PlaceOK, HoldOK
    <2>4. ASSUME NEW u \in Threads, pc'[u] \in {"register", "kill"} PROVE target'[job'[u].sid] # None
      <3>1. Holds(u)'
        BY <2>4 DEF Holds, Holding
      <3> QED
        BY <1>0, <1>6, <1>11, <1>12, <2>4, <3>1 DEF PlaceOK, HoldOK
    <2> QED
      BY <2>1, <2>2, <2>3, <2>4 DEF HoldOK
  <1>14. WindowsOK'
    BY <1>0, <1>2, <1>4, <1>5 DEF PlaceOK, WindowsOK
  <1>15. OwnOK'
    <2>1. \A x \in Sessions : x # s /\ Has(x) => Has(x)'
      BY <1>0, <1>6 DEF Has
    <2>2. ASSUME NEW u \in Threads, pc'[u] \in {"register", "kill"} PROVE Has(job[u].sid)'
      <3>1. Holds(u)'
        BY <2>2 DEF Holds, Holding
      <3> QED
        BY <1>0, <1>11, <1>12, <2>1, <2>2, <3>1 DEF PlaceOK, OwnOK
    <2> QED
      BY <1>0, <1>1, <1>11, <2>1, <2>2 DEF PlaceOK, OwnOK
  <1>16. KnownOK'
    <2> SUFFICES ASSUME NEW w \in Slots, windows[w] # None, ~Failed(windows[w])
                 PROVE  /\ up => target'[windows[w]] = w /\ Known(windows[w])'
                        /\ up
      BY <1>0 DEF KnownOK, Failed
    <2>1. up
      BY <1>0, <1>1 DEF PlaceOK, KnownOK
    <2>2. target[windows[w]] = w /\ Known(windows[w])
      BY <1>0, <2>1 DEF PlaceOK, KnownOK
    <2>3. CASE windows[w] \in reg
      BY <1>0, <1>1, <1>6, <1>11, <2>1, <2>2, <2>3 DEF Known
    <2>4. CASE \E u \in Threads : pc[u] \in {"register", "kill"} /\ job[u].sid = windows[w]
      <3>1. PICK u \in Threads : pc[u] \in {"register", "kill"} /\ job[u].sid = windows[w]
        BY <2>4
      <3>2. u # t /\ Holds(u)
        BY <1>0, <3>1 DEF Holds, Holding
      <3>3. job[u].sid # s /\ job[u].sid \in Sessions /\ pc'[u] = pc[u]
        BY <1>1, <1>5, <1>11, <3>2
      <3> QED
        BY <1>0, <1>6, <2>1, <2>2, <3>1, <3>3 DEF Known
    <2> QED
      BY <2>2, <2>3, <2>4 DEF Known
  <1>17. WipedOK'
    BY <1>0, <1>2, <1>4, <1>5 DEF PlaceOK, WipedOK
  <1>18. AddedIsSaved'
    BY <1>0, <1>2, <1>4, <1>5 DEF IInv, AddedIsSaved, Enrolling
  <1> QED
    BY <1>7, <1>8, <1>9, <1>10, <1>13, <1>14, <1>15, <1>16, <1>17, <1>18 DEF IInv, PlaceOK

----------------------------------------------------------------------------
(* Opening a session.                                                      *)

LEMMA MkdirStep ==
  ASSUME IInv, NEW t \in Threads, Mkdir(t)
  PROVE  IInv'
  <1> DEFINE s == Min(fresh)
  <1>0. /\ TypeOK /\ PlaceOK /\ JobAt(t) /\ pc[t] = "mkdir" /\ Goto(t, "window")
        /\ fresh' = fresh \ {s} /\ dirs' = dirs \cup {s} /\ job' = [job EXCEPT ![t].sid = s]
        /\ UNCHANGED <<up, reg, target, expected, windows, entry, ident, saved, bounds, history>>
    BY DEF IInv, Mkdir, JobOK
  <1>1. s \in fresh /\ s \in Sessions
    <2>1. fresh \in SUBSET Nat /\ fresh # {}
      BY <1>0, RegistryType DEF Mkdir, TypeOK
    <2>2. s \in fresh
      BY <2>1, LeastFact, Zenon
    <2> QED
      BY <1>0, <2>2 DEF TypeOK
  <1> HIDE DEF s
  <1>2. up /\ job[t].op # "reap" /\ job[t].then # "enrol" /\ ~Holds(t)
    BY <1>0 DEF PlaceOK, StartupOK, JobAt, Holds, Holding
  <1>3. /\ pc'[t] = "window" /\ Others(t) /\ job'[t].sid = s
        /\ pc' \in [Threads -> PCs] /\ job' \in [Threads -> Jobs]
        /\ job'[t].then = job[t].then /\ job'[t].op = job[t].op /\ job'[t].email = job[t].email
    <2> DEFINE j == [job[t] EXCEPT !.sid = s]
    <2>1. /\ j \in Jobs /\ j.sid = s /\ j.then = job[t].then /\ j.op = job[t].op
          /\ j.email = job[t].email
      BY <1>0, <1>1, JobType DEF Jobs
    <2>2. pc' = [pc EXCEPT ![t] = "window"] /\ job' = [job EXCEPT ![t] = j] /\ "window" \in PCs
      BY <1>0, JobType DEF PCs
    <2> HIDE DEF j
    <2>3. /\ pc' \in [Threads -> PCs] /\ job' \in [Threads -> Jobs]
          /\ pc'[t] = "window" /\ job'[t] = j /\ Others(t)
      BY <1>0, <2>1, <2>2, Move, Zenon
    <2> QED
      BY <2>1, <2>3
  <1>4. \A u \in Threads : u # t => pc'[u] = pc[u] /\ job'[u] = job[u]
    BY <1>3 DEF Others
  <1>5. TypeOK'
    BY <1>0, <1>1, <1>3 DEF TypeOK, Jobs
  <1>6. JobOK'
    <2>1. JobAt(t)'
      BY <1>0, <1>1, <1>2, <1>3 DEF JobAt
    <2> QED
      BY <1>0, <1>3, <2>1, JobOthers DEF IInv
  <1>7. StartupOK' /\ Findable'
    BY <1>0, <1>2 DEF PlaceOK, StartupOK, Findable
  <1>8. \A u \in Threads : Holds(u) => job[u].sid # s /\ job[u].sid \in Sessions
    BY <1>1, HolderFact
  <1>9. s \notin reg
    BY <1>0, <1>1 DEF TypeOK
  <1>10. HoldOK'
    BY <1>0, <1>3, <1>4, <1>8, <1>9 DEF PlaceOK, HoldOK, Holds, Holding
  <1>11. WindowsOK'
    BY <1>0, <1>1, <1>3, <1>4 DEF PlaceOK, WindowsOK
  <1>12. OwnOK'
    BY <1>0, <1>3, <1>4 DEF PlaceOK, OwnOK, Has
  <1>13. KnownOK'
    <2>1. \A x : Known(x) => Known(x)'
      BY <1>0, <1>4 DEF Known
    <2> QED
      BY <1>0, <1>2, <2>1 DEF PlaceOK, KnownOK, Failed
  <1>14. WipedOK'
    BY <1>0, <1>3, <1>4 DEF PlaceOK, WipedOK
  <1>15. AddedIsSaved'
    BY <1>0, <1>2, <1>3, <1>4 DEF IInv, AddedIsSaved, Enrolling
  <1> QED
    BY <1>5, <1>6, <1>7, <1>10, <1>11, <1>12, <1>13, <1>14, <1>15 DEF IInv, PlaceOK

LEMMA OpenWindowStep ==
  ASSUME IInv, NEW t \in Threads, OpenWindow(t)
  PROVE  IInv'
  <1> DEFINE s == job[t].sid
             slot == Min({w \in Slots : windows[w] = None})
  <1>0. /\ TypeOK /\ PlaceOK /\ JobAt(t) /\ pc[t] = "window" /\ Holds(t)
        /\ UNCHANGED <<up, fresh, reg, expected, scratch, saved, crashes, missed, closed, undone>>
    BY DEF IInv, OpenWindow, JobOK, Holds, Holding
  <1>1. /\ s \in Sessions \ fresh /\ s \notin reg /\ up
        /\ \A u \in Threads : u # t /\ Holds(u) => job[u].sid # s
    BY <1>0, HolderFact
  <1>2. slot \in Slots /\ windows[slot] = None /\ slot # None /\ None \notin Sessions
    <2>1. \A w \in Slots : windows[w] # s
      BY <1>0 DEF PlaceOK, WindowsOK
    <2>2. WindowsOK /\ s \in Sessions
      BY <1>0, <1>1 DEF PlaceOK
    <2>3. slot \in Slots /\ windows[slot] = None
      BY <1>0, <2>1, <2>2, FreeSlot
    <2> HIDE DEF slot
    <2> QED
      BY <1>0, <2>3, RegistryType, LoginConstantsOK
  <1>3. \/ /\ windows' = [windows EXCEPT ![slot] = s]
           /\ target' = [target EXCEPT ![s] = slot]
           /\ Goto(t, "register") /\ UNCHANGED <<job, faults, stillborn, kept>>
        \/ /\ Fault /\ stillborn' = stillborn \cup {s} /\ kept' = kept \cup {s}
           /\ windows' \in {windows, [windows EXCEPT ![slot] = s]}
           /\ Return(t) /\ target' = target
    BY DEF OpenWindow
  <1> HIDE DEF s, slot
  <1>4. /\ Others(t) /\ pc' \in [Threads -> PCs] /\ job' \in [Threads -> Jobs]
        /\ \/ /\ pc'[t] = "register" /\ job'[t] = job[t] /\ target'[s] = slot /\ windows'[slot] = s
              /\ stillborn' = stillborn
           \/ /\ pc'[t] = "idle" /\ job'[t].then = "idle" /\ job'[t].op # "reap"
              /\ target' = target /\ stillborn' = stillborn \cup {s}
        /\ target' \in [Sessions -> Slots \cup {None}]
        /\ \A x \in Sessions : x # s => target'[x] = target[x]
        /\ windows' \in [Slots -> Sessions \cup {None}]
        /\ \A w \in Slots : windows'[w] = windows[w] \/ (w = slot /\ windows'[w] = s)
        /\ faults' \in 0..MaxFaults /\ kept' \in {kept, kept \cup {s}}
    <2>0. /\ target \in [Sessions -> Slots \cup {None}] /\ windows \in [Slots -> Sessions \cup {None}]
          /\ faults \in 0..MaxFaults /\ MaxFaults \in Nat
      BY <1>0, LoginConstantsOK DEF TypeOK
    <2>1. CASE /\ windows' = [windows EXCEPT ![slot] = s]
               /\ target' = [target EXCEPT ![s] = slot]
               /\ Goto(t, "register") /\ UNCHANGED <<job, faults, stillborn, kept>>
      <3>1. "register" \in PCs
        BY DEF PCs
      <3>2. /\ pc'[t] = "register" /\ Others(t) /\ job'[t] = job[t]
            /\ pc' \in [Threads -> PCs] /\ job' \in [Threads -> Jobs]
        BY <1>0, <2>1, <3>1, GotoFact
      <3> QED
        BY <1>1, <1>2, <2>0, <2>1, <3>2
    <2>2. CASE /\ Fault /\ stillborn' = stillborn \cup {s} /\ kept' = kept \cup {s}
               /\ windows' \in {windows, [windows EXCEPT ![slot] = s]}
               /\ Return(t) /\ target' = target
      <3>1. /\ pc'[t] = "idle" /\ Others(t) /\ job'[t].then = "idle" /\ job'[t].op # "reap"
            /\ pc' \in [Threads -> PCs] /\ job' \in [Threads -> Jobs]
        BY <1>0, <2>2, ReturnFact
      <3> QED
        BY <1>1, <1>2, <2>0, <2>2, <3>1 DEF Fault
    <2> QED
      BY <1>3, <2>1, <2>2
  <1>5. \A u \in Threads : u # t => pc'[u] = pc[u] /\ job'[u] = job[u]
    BY <1>4 DEF Others
  <1>6. /\ stillborn \subseteq stillborn' /\ stillborn' \subseteq Sessions /\ reg \subseteq Sessions
        /\ kept' \subseteq Sessions
    BY <1>0, <1>1, <1>4 DEF TypeOK
  <1>7. TypeOK'
    BY <1>0, <1>1, <1>4, <1>6 DEF TypeOK, Jobs
  <1>8. JobOK'
    <2>1. JobAt(t)'
      BY <1>0, <1>1, <1>4 DEF JobAt, s
    <2> QED
      BY <1>0, <1>4, <2>1, JobOthers DEF IInv
  <1>9. StartupOK' /\ Findable'
    BY <1>0, <1>1 DEF PlaceOK, StartupOK, Findable
  <1>10. \A u \in Threads : Holds(u) => job[u].sid \in Sessions
    BY HolderFact
  <1>11. HoldOK'
    <2>1. \A u \in Threads : Holds(u)' => Holds(u) /\ job'[u].sid = job[u].sid
      BY <1>0, <1>4, <1>5 DEF Holds, Holding
    <2>2. ASSUME NEW u \in Threads, pc'[u] \in {"register", "kill"} PROVE target'[job'[u].sid] # None
      <3>1. CASE u = t
        BY <1>2, <1>4, <2>2, <3>1 DEF s
      <3>2. CASE u # t
        <4>1. Holds(u)
          BY <1>5, <2>2, <3>2 DEF Holds, Holding
        <4> QED
          BY <1>0, <1>1, <1>4, <1>5, <1>10, <2>2, <3>2, <4>1 DEF PlaceOK, HoldOK
      <3> QED
        BY <3>1, <3>2
    <2> QED
      BY <1>0, <2>1, <2>2 DEF PlaceOK, HoldOK
  <1>12. WindowsOK'
    <2>1. \A w \in Slots : windows[w] # s
      BY <1>0 DEF PlaceOK, WindowsOK, s
    <2>2. \A v, w \in Slots : windows'[v] = windows'[w] /\ windows'[v] # None => v = w
      BY <1>0, <1>4, <2>1 DEF PlaceOK, WindowsOK
    <2>3. \A w \in Slots : windows'[w] \notin fresh
      BY <1>0, <1>1, <1>4 DEF PlaceOK, WindowsOK
    <2>4. ASSUME NEW u \in Threads, NEW w \in Slots, pc'[u] = "window" PROVE windows'[w] # job'[u].sid
      <3>1. u # t /\ pc[u] = "window" /\ Holds(u) /\ job'[u] = job[u]
        BY <1>4, <1>5, <2>4 DEF Holds, Holding
      <3>2. job[u].sid # s /\ windows[w] # job[u].sid
        BY <1>0, <1>1, <3>1 DEF PlaceOK, WindowsOK
      <3> QED
        BY <1>4, <3>1, <3>2
    <2> QED
      BY <1>0, <2>2, <2>3, <2>4 DEF WindowsOK
  <1>13. OwnOK'
    <2>1. ASSUME NEW x \in Sessions, x # s, Has(x), target[x] # None PROVE Has(x)'
      <3>1. target[x] \in Slots /\ target'[x] = target[x] /\ x # None
        BY <1>0, <1>2, <1>4, <2>1 DEF TypeOK
      <3>2. windows[target[x]] = x => target[x] # slot
        BY <1>2, <3>1
      <3> QED
        BY <1>0, <1>4, <2>1, <3>1, <3>2 DEF Has
    <2>2. \A x \in reg : Has(x)'
      BY <1>0, <1>1, <1>6, <2>1 DEF PlaceOK, OwnOK, TypeOK
    <2>3. ASSUME NEW u \in Threads, pc'[u] \in {"register", "kill"} 
          PROVE  job'[u] = job[u] /\ Has(job[u].sid)'
      <3>1. CASE u = t
        BY <1>4, <2>3, <3>1 DEF Has, s
      <3>2. CASE u # t
        <4>1. Holds(u) /\ pc[u] \in {"register", "kill"} /\ job'[u] = job[u]
          BY <1>5, <2>3, <3>2 DEF Holds, Holding
        <4> QED
          BY <1>0, <1>1, <1>10, <2>1, <3>2, <4>1 DEF PlaceOK, OwnOK, HoldOK
      <3> QED
        BY <3>1, <3>2
    <2> QED
      BY <1>0, <2>2, <2>3 DEF OwnOK
  <1>14. KnownOK'
    <2> SUFFICES ASSUME NEW w \in Slots, NEW x, windows'[w] = x, x # None, ~Failed(x)'
                 PROVE  target'[x] = w /\ Known(x)'
      BY <1>0, <1>1 DEF KnownOK
    <2>1. CASE x = s
      <3>1. w = slot
        BY <1>0, <1>4, <2>1 DEF PlaceOK, WindowsOK, s
      <3>2. s \notin stillborn'
        BY <2>1 DEF Failed
      <3>3. pc'[t] = "register" /\ job'[t] = job[t] /\ target'[s] = slot
        BY <1>4, <3>2
      <3> QED
        BY <2>1, <3>1, <3>3 DEF Known, s
    <2>2. CASE x # s
      <3>1. windows[w] = x /\ x \in Sessions
        BY <1>0, <1>4, <2>2 DEF TypeOK
      <3>2. ~Failed(x)
        BY <1>0, <1>6, <3>1 DEF Failed
      <3>3. target[x] = w /\ Known(x)
        BY <1>0, <1>1, <3>1, <3>2 DEF PlaceOK, KnownOK
      <3>4. Known(x)'
        BY <1>0, <1>5, <3>3 DEF Known
      <3> QED
        BY <1>4, <2>2, <3>1, <3>3, <3>4
    <2> QED
      BY <2>1, <2>2
  <1>15. WipedOK'
    BY <1>0, <1>4, <1>5 DEF PlaceOK, WipedOK
  <1>16. AddedIsSaved'
    BY <1>0, <1>4, <1>5 DEF IInv, AddedIsSaved, Enrolling, JobAt
  <1> QED
    BY <1>7, <1>8, <1>9, <1>11, <1>12, <1>13, <1>14, <1>15, <1>16 DEF IInv, PlaceOK

LEMMA RegisterStep ==
  ASSUME IInv, NEW t \in Threads, Register(t)
  PROVE  IInv'
  <1> DEFINE s == job[t].sid
  <1>0. /\ TypeOK /\ PlaceOK /\ JobAt(t) /\ pc[t] = "register" /\ Holds(t) /\ Return(t)
        /\ reg' = reg \cup {s} /\ expected' = [expected EXCEPT ![s] = job[t].email]
        /\ UNCHANGED <<up, fresh, target, windows, scratch, saved, bounds, history>>
    BY DEF IInv, Register, JobOK, Holds, Holding
  <1>1. /\ s \in Sessions \ fresh /\ s \notin reg /\ up /\ target[s] # None /\ s \in dirs /\ Has(s)
        /\ \A u \in Threads : u # t /\ Holds(u) => job[u].sid # s
    BY <1>0, HolderFact DEF PlaceOK, HoldOK, OwnOK
  <1> HIDE DEF s
  <1>2. /\ pc'[t] = "idle" /\ Others(t) /\ job'[t].then = "idle" /\ job'[t].op # "reap"
        /\ pc' \in [Threads -> PCs] /\ job' \in [Threads -> Jobs]
    BY <1>0, ReturnFact
  <1>3. \A u \in Threads : u # t => pc'[u] = pc[u] /\ job'[u] = job[u]
    BY <1>2 DEF Others
  <1>4. expected' \in [Sessions -> Emails \cup {None}]
    BY <1>0, JobType DEF TypeOK, Jobs
  <1>5. TypeOK'
    BY <1>0, <1>1, <1>2, <1>4 DEF TypeOK, Jobs
  <1>6. JobOK'
    <2>1. JobAt(t)'
      BY <1>2 DEF JobAt
    <2> QED
      BY <1>0, <1>2, <2>1, JobOthers DEF IInv
  <1>7. StartupOK' /\ Findable'
    BY <1>0, <1>1 DEF PlaceOK, StartupOK, Findable
  <1>8. HoldOK'
    BY <1>0, <1>1, <1>2, <1>3 DEF PlaceOK, HoldOK, Holds, Holding
  <1>9. WindowsOK'
    BY <1>0, <1>2, <1>3 DEF PlaceOK, WindowsOK
  <1>10. OwnOK'
    BY <1>0, <1>1, <1>2, <1>3 DEF PlaceOK, OwnOK, Has
  <1>11. KnownOK'
    <2>1. ASSUME NEW x, Known(x) PROVE Known(x)'
      <3>1. CASE x \in reg \cup {s}
        BY <1>0, <3>1 DEF Known
      <3>2. CASE x \notin reg \cup {s}
        BY <1>3, <2>1, <3>2 DEF Known, s
      <3> QED
        BY <3>1, <3>2
    <2> QED
      BY <1>0, <1>1, <2>1 DEF PlaceOK, KnownOK, Failed
  <1>12. WipedOK'
    BY <1>0, <1>2, <1>3 DEF PlaceOK, WipedOK
  <1>13. AddedIsSaved'
    BY <1>0, <1>2, <1>3 DEF IInv, AddedIsSaved, Enrolling
  <1> QED
    BY <1>5, <1>6, <1>7, <1>8, <1>9, <1>10, <1>11, <1>12, <1>13 DEF IInv, PlaceOK

----------------------------------------------------------------------------
(* Restarts.                                                               *)

LEMMA CrashStep ==
  ASSUME IInv, Crash
  PROVE  IInv'
  <1>0. /\ TypeOK /\ PlaceOK /\ up' = FALSE /\ reg' = {} /\ undone' = {} /\ kept' = {}
        /\ crashes < MaxCrashes /\ crashes' = crashes + 1
        /\ target' = [s \in Sessions |-> None] /\ expected' = [s \in Sessions |-> None]
        /\ pc' = [t \in Threads |-> "idle"] /\ job' = [t \in Threads |-> NoJob]
        /\ UNCHANGED <<fresh, windows, scratch, saved, faults, missed, closed, stillborn>>
    BY DEF IInv, Crash
  <1>1. \A t \in Threads : pc'[t] = "idle" /\ job'[t] = NoJob
    BY <1>0
  <1>2. pc' \in [Threads -> PCs] /\ job' \in [Threads -> Jobs]
    BY <1>0, NoJobType DEF PCs
  <1>3. crashes' \in 0..MaxCrashes
    BY <1>0, LoginConstantsOK DEF TypeOK
  <1>4. /\ target' \in [Sessions -> Slots \cup {None}]
        /\ expected' \in [Sessions -> Emails \cup {None}]
    BY <1>0
  <1>5. TypeOK'
    BY <1>0, <1>2, <1>3, <1>4 DEF TypeOK, Jobs
  <1>6. JobOK'
    BY <1>0, <1>1, NoJobType DEF JobOK, JobAt
  <1>7. StartupOK' /\ Findable'
    BY <1>0, <1>1 DEF PlaceOK, StartupOK, Findable
  <1>8. HoldOK' /\ OwnOK' /\ WipedOK'
    BY <1>0, <1>1 DEF HoldOK, Holds, Holding, OwnOK, WipedOK
  <1>9. WindowsOK'
    BY <1>0, <1>1 DEF PlaceOK, WindowsOK
  <1>10. KnownOK'
    <2> SUFFICES ASSUME NEW w \in Slots, windows[w] # None, ~Failed(windows[w])
                 PROVE  windows[w] \in dirs /\ pc'[Sweeper] = "idle"
      BY <1>0 DEF KnownOK, Failed
    <2>1. CASE up
      <3>1. Known(windows[w])
        BY <1>0, <2>1 DEF PlaceOK, KnownOK
      <3> QED
        BY <1>0, <1>1, <2>1, <3>1 DEF Known, PlaceOK, HoldOK, Holds, Holding
    <2>2. CASE ~up
      BY <1>0, <1>1, <2>2 DEF PlaceOK, KnownOK
    <2> QED
      BY <2>1, <2>2
  <1>11. AddedIsSaved'
    BY <1>1, NoJobType DEF AddedIsSaved, Enrolling
  <1> QED
    BY <1>5, <1>6, <1>7, <1>8, <1>9, <1>10, <1>11 DEF IInv, PlaceOK

\* While nothing is being opened or torn down the registry is what counts.
LEMMA QuietHold ==
  ASSUME IInv, ~up
  PROVE  /\ reg = {} /\ \A h \in Handlers : pc[h] = "idle"
         /\ \A u \in Threads : pc[u] \notin {"window", "register", "kill", "save", "enrol"}
         /\ \A u \in Threads : Holds(u) => u = Sweeper
         /\ \A u \in Threads : ~Enrolling(u)
  <1>1. StartupOK /\ JobOK
    BY DEF IInv, PlaceOK
  <1>2. reg = {} /\ \A u \in Threads : pc[u] \in {"idle", "reap", "wipe", "rmtree"}
                                       /\ (pc[u] # "idle" => u = Sweeper /\ job[u].op = "reap")
    BY <1>1 DEF StartupOK
  <1>3. \A u \in Threads : job[u].then # "enrol"
    BY <1>1, <1>2 DEF JobOK, JobAt
  <1> QED
    BY <1>1, <1>2, <1>3 DEF Holds, Holding, Enrolling, StartupOK

LEMMA KillOrphansStep ==
  ASSUME IInv, KillOrphans
  PROVE  IInv'
  <1> DEFINE j == [NoJob EXCEPT !.op = "reap", !.todo = dirs]
  <1>0. /\ TypeOK /\ PlaceOK /\ ~up /\ pc[Sweeper] = "idle" /\ Sweeper \in Threads
        /\ job' = [job EXCEPT ![Sweeper] = j] /\ Goto(Sweeper, "reap")
        /\ UNCHANGED <<up, registry, scratch, saved, crashes, closed, stillborn, kept, undone>>
    BY DEF IInv, KillOrphans
  <1>1. j \in Jobs /\ j.op = "reap" /\ j.then = "idle" /\ j.todo = dirs
    BY <1>0 DEF NoJob, Jobs, Ops, PCs, TypeOK
  <1>2. PICK left \in SUBSET {w \in Slots : windows[w] # None} :
          /\ faults + Cardinality(left) <= MaxFaults
          /\ faults' = faults + Cardinality(left)
          /\ missed' = missed \cup {windows[w] : w \in left}
          /\ windows' = [w \in Slots |-> IF w \in left THEN windows[w] ELSE None]
    BY DEF KillOrphans
  <1> HIDE DEF j
  <1>3. /\ pc'[Sweeper] = "reap" /\ job'[Sweeper] = j /\ Others(Sweeper)
        /\ pc' \in [Threads -> PCs] /\ job' \in [Threads -> Jobs]
    <2>1. pc' = [pc EXCEPT ![Sweeper] = "reap"] /\ "reap" \in PCs
      BY <1>0 DEF PCs
    <2> QED
      BY <1>0, <1>1, <2>1, Move, Zenon
  <1>4. \A u \in Threads : u # Sweeper => pc'[u] = pc[u] /\ job'[u] = job[u]
    BY <1>3 DEF Others
  <1>5. faults' \in 0..MaxFaults
    <2>1. IsFiniteSet(Slots)
      BY LoginConstantsOK, FS_CardinalityType, FS_Interval DEF Slots
    <2>2. IsFiniteSet(left)
      BY <2>1, FS_Subset
    <2>3. Cardinality(left) \in Nat
      BY <2>2, FS_CardinalityType
    <2> QED
      BY <1>0, <1>2, <2>3, LoginConstantsOK DEF TypeOK
  <1>6. /\ \A w \in Slots : windows'[w] = None \/ (windows'[w] = windows[w] /\ windows[w] \in missed')
        /\ windows' \in [Slots -> Sessions \cup {None}]
        /\ missed \subseteq missed' /\ missed' \subseteq Sessions
    <2>1. windows \in [Slots -> Sessions \cup {None}] /\ missed \subseteq Sessions
      BY <1>0 DEF TypeOK
    <2> QED
      BY <1>2, <2>1
  <1>7. TypeOK'
    BY <1>0, <1>3, <1>5, <1>6 DEF TypeOK, Jobs
  <1>8. JobOK'
    <2>1. JobAt(Sweeper)'
      BY <1>0, <1>1, <1>3 DEF JobAt, TypeOK
    <2> QED
      BY <1>0, <1>3, <2>1, JobOthers DEF IInv
  <1>9. /\ reg = {} /\ \A u \in Threads : pc'[u] \in {"idle", "reap"}
        /\ None \notin Sessions /\ fresh \subseteq Sessions
    BY <1>0, <1>3, <1>4, QuietHold, RegistryType DEF TypeOK
  <1>10. StartupOK' /\ Findable'
    <2>1. \A h \in Handlers : pc'[h] = "idle"
      BY <1>0, <1>4, QuietHold, LoginConstantsOK
    <2> QED
      BY <1>0, <1>1, <1>3, <1>6, <1>9, <2>1 DEF PlaceOK, StartupOK, Findable
  <1>11. HoldOK' /\ OwnOK' /\ WipedOK'
    BY <1>0, <1>9 DEF HoldOK, Holds, Holding, OwnOK, WipedOK
  <1>12. WindowsOK'
    BY <1>0, <1>6, <1>9 DEF PlaceOK, WindowsOK
  <1>13. KnownOK'
    BY <1>6 DEF KnownOK, Failed
  <1>14. AddedIsSaved'
    BY <1>0, <1>1, <1>3, <1>4, QuietHold DEF AddedIsSaved, Enrolling
  <1> QED
    BY <1>7, <1>8, <1>10, <1>11, <1>12, <1>13, <1>14 DEF IInv, PlaceOK

LEMMA ReapStep ==
  ASSUME IInv, Reap
  PROVE  IInv'
  <1> DEFINE s == Min(job[Sweeper].todo)
             j == [job[Sweeper] EXCEPT !.todo = @ \ {s}, !.sid = s]
  <1>0. /\ TypeOK /\ PlaceOK /\ pc[Sweeper] = "reap" /\ Sweeper \in Threads /\ JobAt(Sweeper)
        /\ UNCHANGED <<registry, windows, scratch, saved, bounds, history>>
    BY DEF IInv, Reap, JobOK
  <1>1. /\ ~up /\ job[Sweeper].op = "reap" /\ job[Sweeper].then = "idle"
        /\ job[Sweeper].todo \cap fresh = {}
    BY <1>0 DEF JobAt, PlaceOK, StartupOK
  <1>2. /\ reg = {} /\ \A u \in Threads : u # Sweeper => pc[u] = "idle" /\ job[u].op # "reap"
        /\ \A u \in Threads : ~Enrolling(u)
    BY <1>1, QuietHold DEF IInv, JobOK, JobAt
  <1>3. \A w \in Slots : windows[w] # None => Failed(windows[w])
    BY <1>0, <1>1 DEF PlaceOK, KnownOK
  <1>4. CASE job[Sweeper].todo = {}
    <2>1. up' = TRUE /\ Return(Sweeper)
      BY <1>4 DEF Reap
    <2>2. /\ pc'[Sweeper] = "idle" /\ Others(Sweeper) /\ job'[Sweeper].then = "idle"
          /\ job'[Sweeper].op # "reap"
          /\ pc' \in [Threads -> PCs] /\ job' \in [Threads -> Jobs]
      BY <1>0, <2>1, ReturnFact
    <2>3. \A u \in Threads : pc'[u] = "idle" /\ job'[u].op # "reap"
                             /\ job'[u].then \in {"idle", job[u].then}
      BY <1>2, <2>2 DEF Others
    <2>4. TypeOK'
      BY <1>0, <2>1, <2>2 DEF TypeOK, Jobs
    <2>5. JobOK'
      BY <1>2, <2>3 DEF IInv, JobOK, JobAt, Enrolling
    <2>6. StartupOK' /\ Findable'
      BY <1>0, <2>1 DEF PlaceOK, StartupOK, Findable
    <2>7. HoldOK' /\ OwnOK' /\ WipedOK'
      BY <1>0, <1>2, <2>3 DEF HoldOK, Holds, Holding, OwnOK, WipedOK
    <2>8. WindowsOK'
      BY <1>0, <2>3 DEF PlaceOK, WindowsOK
    <2>9. KnownOK'
      BY <1>0, <1>3 DEF KnownOK, Failed
    <2>10. AddedIsSaved'
      BY <1>2, <2>3 DEF AddedIsSaved, Enrolling
    <2> QED
      BY <2>4, <2>5, <2>6, <2>7, <2>8, <2>9, <2>10 DEF IInv, PlaceOK
  <1>5. CASE job[Sweeper].todo # {}
    <2>1. up' = up /\ Goto(Sweeper, "wipe") /\ job' = [job EXCEPT ![Sweeper].todo = @ \ {s}, ![Sweeper].sid = s]
      BY <1>5 DEF Reap
    <2>2. s \in job[Sweeper].todo /\ s \in Sessions \ fresh
      <3>1. job[Sweeper].todo \in SUBSET Sessions /\ Sessions \in SUBSET Nat
        BY <1>0, JobType, RegistryType DEF Jobs
      <3>2. job[Sweeper].todo \in SUBSET Nat
        BY <3>1
      <3>3. s \in job[Sweeper].todo
        BY <1>5, <3>2, LeastFact, Zenon
      <3> QED
        BY <1>1, <3>1, <3>3
    <2> HIDE DEF s
    <2>3. /\ j \in Jobs /\ j.sid = s /\ j.op = "reap" /\ j.then = "idle"
          /\ j.todo = job[Sweeper].todo \ {s}
      BY <1>0, <1>1, <2>2, JobType DEF Jobs
    <2>4. job' = [job EXCEPT ![Sweeper] = j] /\ pc' = [pc EXCEPT ![Sweeper] = "wipe"] /\ "wipe" \in PCs
      BY <1>0, <2>1, JobType DEF PCs
    <2> HIDE DEF j
    <2>5. /\ pc'[Sweeper] = "wipe" /\ job'[Sweeper] = j /\ Others(Sweeper)
          /\ pc' \in [Threads -> PCs] /\ job' \in [Threads -> Jobs]
      BY <1>0, <2>3, <2>4, Move, Zenon
    <2>6. \A u \in Threads : u # Sweeper => pc'[u] = "idle" /\ job'[u] = job[u]
      BY <1>2, <2>5 DEF Others
    <2>7. TypeOK'
      BY <1>0, <2>1, <2>5 DEF TypeOK, Jobs
    <2>8. JobOK'
      <3>1. JobAt(Sweeper)'
        BY <1>0, <1>1, <2>1, <2>2, <2>3, <2>5 DEF JobAt
      <3> QED
        BY <1>0, <2>1, <2>5, <3>1, JobOthers DEF IInv
    <2>9. StartupOK' /\ Findable'
      <3>1. \A h \in Handlers : pc'[h] = "idle"
        BY <2>6, LoginConstantsOK
      <3> QED
        BY <1>0, <1>2, <2>3, <2>5, <3>1 DEF PlaceOK, StartupOK, Findable
    <2>10. HoldOK' /\ OwnOK' /\ WipedOK'
      <3>1. \A u \in Threads : Holds(u)' => u = Sweeper
        BY <2>6 DEF Holds, Holding
      <3>2. \A u \in Threads : pc'[u] \notin {"register", "kill", "rmtree"}
        BY <2>5, <2>6
      <3> QED
        BY <1>0, <1>1, <1>2, <2>1, <3>1, <3>2 DEF HoldOK, OwnOK, WipedOK
    <2>11. WindowsOK'
      BY <1>0, <2>5, <2>6 DEF PlaceOK, WindowsOK
    <2>12. KnownOK'
      BY <1>0, <1>3 DEF KnownOK, Failed
    <2>13. AddedIsSaved'
      BY <1>2, <2>3, <2>5, <2>6 DEF AddedIsSaved, Enrolling
    <2> QED
      BY <2>7, <2>8, <2>9, <2>10, <2>11, <2>12, <2>13 DEF IInv, PlaceOK
  <1> QED
    BY <1>4, <1>5

----------------------------------------------------------------------------
(* The user and the CLI.                                                   *)

LEMMA SignInStep ==
  ASSUME IInv, NEW s \in Sessions, NEW e \in Emails, SignIn(s, e)
  PROVE  IInv'
  <1>0. /\ TypeOK /\ PlaceOK /\ CliRuns(s) /\ entry' = [entry EXCEPT ![s] = e]
        /\ ident' = IF s \in dirs THEN [ident EXCEPT ![s] = e] ELSE ident
        /\ UNCHANGED <<up, registry, windows, dirs, saved, pc, job, bounds, history>>
    BY DEF IInv, SignIn
  <1>1. /\ entry' \in [Sessions -> Emails \cup {None}] /\ ident' \in [Sessions -> Emails \cup {None}]
        /\ \A x \in Sessions : x # s => entry'[x] = entry[x]
    BY <1>0 DEF TypeOK
  <1>2. PICK w \in Slots : windows[w] = s
    BY <1>0 DEF CliRuns
  <1>3. s # None /\ s \notin stillborn
    BY <1>0, RegistryType DEF CliRuns
  <1>4. s \in missed \/ (up /\ Known(s)) \/ (~up /\ s \in dirs /\ pc[Sweeper] = "idle")
    BY <1>0, <1>2, <1>3 DEF PlaceOK, KnownOK, Failed
  <1>5. s \in missed \/ (s \in dirs /\ \A t \in Threads : pc[t] = "rmtree" => job[t].sid # s)
    <2>1. CASE up /\ s \in reg
      BY <1>0, <2>1 DEF PlaceOK, HoldOK, Holds, Holding
    <2>2. CASE up /\ \E u \in Threads : pc[u] \in {"register", "kill"} /\ job[u].sid = s
      <3>1. PICK u \in Threads : pc[u] \in {"register", "kill"} /\ job[u].sid = s
        BY <2>2
      <3>2. Holds(u) /\ \A t \in Threads : pc[t] = "rmtree" => t # u /\ Holds(t)
        BY <3>1 DEF Holds, Holding
      <3> QED
        BY <1>0, <2>2, <3>1, <3>2 DEF PlaceOK, HoldOK
    <2>3. CASE ~up /\ s \in dirs /\ pc[Sweeper] = "idle"
      BY <2>3, QuietHold DEF Holds, Holding
    <2> QED
      BY <1>4, <2>1, <2>2, <2>3 DEF Known
  <1>6. TypeOK'
    BY <1>0, <1>1 DEF TypeOK
  <1>7. JobOK'
    BY <1>0 DEF IInv, JobOK, JobAt
  <1>8. StartupOK' /\ HoldOK' /\ WindowsOK' /\ OwnOK' /\ KnownOK'
    BY <1>0 DEF PlaceOK, StartupOK, HoldOK, Holds, WindowsOK, OwnOK, Has, KnownOK, Known, Failed
  <1>9. WipedOK'
    <2> SUFFICES ASSUME NEW t \in Threads, pc[t] = "rmtree"
                 PROVE  entry'[job[t].sid] = None \/ job[t].sid \in missed
      BY <1>0 DEF WipedOK
    <2>1. job[t].sid \in Sessions
      BY DEF IInv, JobOK, JobAt
    <2> QED
      BY <1>0, <1>1, <1>5, <2>1 DEF PlaceOK, WipedOK
  <1>10. Findable'
    BY <1>0, <1>1, <1>5 DEF PlaceOK, Findable
  <1>11. AddedIsSaved'
    BY <1>0 DEF IInv, AddedIsSaved, Enrolling
  <1> QED
    BY <1>6, <1>7, <1>8, <1>9, <1>10, <1>11 DEF IInv, PlaceOK

LEMMA UserClosesStep ==
  ASSUME IInv, NEW w \in Slots, UserCloses(w)
  PROVE  IInv'
  <1>0. /\ TypeOK /\ PlaceOK /\ windows[w] # None
        /\ windows' = [windows EXCEPT ![w] = None] /\ closed' = closed \cup {windows[w]}
        /\ UNCHANGED <<up, registry, scratch, saved, pc, job, bounds, missed, stillborn, kept, undone>>
    BY DEF IInv, UserCloses
  <1>1. /\ windows' \in [Slots -> Sessions \cup {None}] /\ closed' \subseteq Sessions
        /\ \A v \in Slots : windows'[v] = windows[v] \/ (v = w /\ windows'[v] = None)
    BY <1>0 DEF TypeOK
  <1>2. None \notin Sessions /\ fresh \subseteq Sessions /\ reg \subseteq Sessions
    BY <1>0, RegistryType DEF TypeOK
  <1>3. TypeOK'
    BY <1>0, <1>1 DEF TypeOK
  <1>4. JobOK'
    BY <1>0 DEF IInv, JobOK, JobAt
  <1>5. StartupOK' /\ HoldOK' /\ WipedOK' /\ Findable'
    BY <1>0 DEF PlaceOK, StartupOK, HoldOK, Holds, WipedOK, Findable
  <1>6. WindowsOK'
    <2>1. \A t \in Threads : pc[t] = "window" => job[t].sid \in Sessions
      BY DEF IInv, JobOK, JobAt
    <2> QED
      BY <1>0, <1>1, <1>2, <2>1 DEF PlaceOK, WindowsOK
  <1>7. OwnOK'
    <2>1. ASSUME NEW s \in Sessions, target[s] \in Slots, Has(s) PROVE Has(s)'
      <3>1. CASE s \in closed \/ target[s] # w
        BY <1>0, <1>1, <2>1, <3>1 DEF Has
      <3>2. CASE windows[target[s]] = s /\ target[s] = w
        BY <1>0, <3>2 DEF Has
      <3> QED
        BY <2>1, <3>1, <3>2 DEF Has
    <2>2. \A s \in reg : target[s] \in Slots
      BY <1>0, RegistryType
    <2>3. \A t \in Threads : pc[t] \in {"register", "kill"} =>
            job[t].sid \in Sessions /\ target[job[t].sid] \in Slots
      BY <1>0 DEF IInv, JobOK, JobAt, PlaceOK, HoldOK, TypeOK
    <2> QED
      BY <1>0, <1>2, <2>1, <2>2, <2>3 DEF PlaceOK, OwnOK
  <1>8. KnownOK'
    BY <1>0, <1>1 DEF PlaceOK, KnownOK, Known, Failed
  <1>9. AddedIsSaved'
    BY <1>0 DEF IInv, AddedIsSaved, Enrolling
  <1> QED
    BY <1>3, <1>4, <1>5, <1>6, <1>7, <1>8, <1>9 DEF IInv, PlaceOK

----------------------------------------------------------------------------
(* The invariant.                                                          *)

LEMMA InitIInv == Init => IInv
  <1> SUFFICES ASSUME Init PROVE IInv
    OBVIOUS
  <1>0. /\ up = TRUE /\ fresh = Sessions /\ reg = {} /\ dirs = {} /\ rows = Enrolled
        /\ target = [s \in Sessions |-> None] /\ expected = [s \in Sessions |-> None]
        /\ windows = [w \in Slots |-> None]
        /\ entry = [s \in Sessions |-> None] /\ ident = [s \in Sessions |-> None]
        /\ vault = [e \in Emails |-> IF e \in Enrolled THEN "earlier" ELSE "none"]
        /\ pc = [t \in Threads |-> "idle"] /\ job = [t \in Threads |-> NoJob]
        /\ faults = 0 /\ crashes = 0
        /\ missed = {} /\ closed = {} /\ stillborn = {} /\ kept = {} /\ undone = {}
    BY DEF Init
  <1>1. \A t \in Threads : pc[t] = "idle" /\ job[t] = NoJob
    BY <1>0
  <1>2. pc \in [Threads -> PCs] /\ job \in [Threads -> Jobs]
    BY <1>0, NoJobType DEF PCs
  <1>3. faults \in 0..MaxFaults /\ crashes \in 0..MaxCrashes
    BY <1>0, LoginConstantsOK
  <1>4. TypeOK
    BY <1>0, <1>2, <1>3, LoginConstantsOK DEF TypeOK, Jobs
  <1>5. JobOK
    BY <1>1, NoJobType DEF JobOK, JobAt
  <1>6. StartupOK /\ HoldOK /\ OwnOK /\ WipedOK /\ Findable
    BY <1>0, <1>1 DEF StartupOK, HoldOK, Holds, Holding, OwnOK, WipedOK, Findable
  <1>7. WindowsOK /\ KnownOK
    BY <1>0, <1>1, RegistryType, <1>4 DEF WindowsOK, KnownOK
  <1>8. AddedIsSaved
    BY <1>1, NoJobType DEF AddedIsSaved, Enrolling
  <1> QED
    BY <1>4, <1>5, <1>6, <1>7, <1>8 DEF IInv, PlaceOK

LEMMA StepIInv == IInv /\ [Next]_vars => IInv'
  <1> SUFFICES ASSUME IInv, [Next]_vars PROVE IInv'
    OBVIOUS
  <1>1. ASSUME NEW t \in Threads, Cleaning(t) PROVE IInv'
    BY <1>1, CleanNextStep, KillStep, WipeStep, RmtreeStep DEF Cleaning
  <1>2. ASSUME NEW t \in Threads, Starting(t) PROVE IInv'
    BY <1>2, OrphansStep, MkdirStep, OpenWindowStep, RegisterStep DEF Starting
  <1>3. ASSUME NEW t \in Threads, Verifying(t) PROVE IInv'
    BY <1>3, ReadIdentityStep, ReadEntryStep, SaveStep, EnrolStep DEF Verifying
  <1>4. CASE \E h \in Handlers : \/ StartLogin(h)
                                 \/ \E e \in Emails : StartRelogin(h, e)
                                 \/ \E s \in Sessions : Verify(h, s) \/ Cancel(h, s)
    <2>1. PICK h \in Handlers : \/ StartLogin(h)
                                \/ \E e \in Emails : StartRelogin(h, e)
                                \/ \E s \in Sessions : Verify(h, s) \/ Cancel(h, s)
      BY <1>4
    <2> QED
      BY <2>1, RequestStep
  <1>5. CASE \E expired \in Expired \ {{}} : Sweep(expired)
    BY <1>5, SweepStep
  <1>6. CASE Startup \/ Crash
    BY <1>6, KillOrphansStep, ReapStep, CrashStep DEF Startup
  <1>7. CASE \E s \in Sessions : \E e \in Emails : SignIn(s, e)
    BY <1>7, SignInStep
  <1>8. CASE \E w \in Slots : UserCloses(w)
    BY <1>8, UserClosesStep
  <1>9. CASE UNCHANGED vars
    <2>1. UNCHANGED <<up, fresh, reg, target, expected, windows, dirs, entry, ident, vault, rows,
                      pc, job, faults, crashes, missed, closed, stillborn, kept,
                      undone>>
      BY <1>9 DEF vars
    <2>2. TypeOK' /\ AddedIsSaved'
      BY <2>1 DEF IInv, TypeOK, AddedIsSaved, Enrolling
    <2>3. JobOK'
      BY <2>1 DEF IInv, JobOK, JobAt
    <2>4. StartupOK' /\ HoldOK' /\ WindowsOK' /\ OwnOK' /\ KnownOK' /\ WipedOK' /\ Findable'
      BY <2>1 DEF IInv, PlaceOK, StartupOK, HoldOK, Holds, WindowsOK, OwnOK, Has, KnownOK, Known,
                  Failed, WipedOK, Findable
    <2> QED
      BY <2>2, <2>3, <2>4 DEF IInv, PlaceOK
  <1> QED
    BY <1>1, <1>2, <1>3, <1>4, <1>5, <1>6, <1>7, <1>8, <1>9 DEF Next, Proceed

LEMMA Invariance == Spec => []IInv
  BY InitIInv, StepIInv, PTL DEF Spec

----------------------------------------------------------------------------
(* The theorems.                                                           *)

\* Every variable keeps its type; in particular tmux never runs out of indices
\* for the sessions there are, and whatever is registered has one.
THEOREM TypeCorrect == Spec => []TypeOK
  <1>1. IInv => TypeOK
    BY DEF IInv
  <1> QED
    BY Invariance, <1>1, PTL

\* The tokens of a login are never in a Keychain entry that nothing can find
\* (cleanup_login_session and cleanup_orphan_login_artifacts): its directory is
\* there, or a failed step was reported.
THEOREM EntriesAreFindable == Spec => []Findable
  <1>1. IInv => Findable
    BY DEF IInv, PlaceOK
  <1> QED
    BY Invariance, <1>1, PTL

\* verify_login adds an account only with the login's tokens in the vault, and
\* only another login of the same account whose own save fails takes them out
\* again before the row is there.
THEOREM AddedAccountsAreSaved == Spec => []AddedIsSaved
  <1>1. IInv => AddedIsSaved
    BY DEF IInv
  <1> QED
    BY Invariance, <1>1, PTL

\* kill-window by index: what a clean-up closes is the window of its own
\* session, unless that window was closed before.
THEOREM WindowsOfOthers == Spec => OwnWindow
  <1> DEFINE Own == \A t \in Threads, w \in Slots :
               At(t, "kill") /\ pc'[t] # pc[t] /\ windows'[w] # windows[w] =>
                 windows[w] = job[t].sid \/ job[t].sid \in closed
  <1>1. IInv /\ [Next]_vars => [Own]_vars
    <2> SUFFICES ASSUME IInv, [Next]_vars, NEW t \in Threads, NEW w \in Slots,
                        pc[t] = "kill", pc'[t] # pc[t], windows'[w] # windows[w]
                 PROVE  windows[w] = job[t].sid \/ job[t].sid \in closed
      OBVIOUS
    <2>1. TypeOK /\ Has(job[t].sid) /\ up
      BY DEF IInv, PlaceOK, OwnOK, StartupOK
    <2>2. windows' # windows
      OBVIOUS
    <2>3. CASE \E u \in Threads : Proceed(u)
      <3>1. PICK u \in Threads : Proceed(u)
        BY <2>3
      <3>2. Kill(u) \/ OpenWindow(u)
        BY <2>2, <3>1 DEF Proceed, Cleaning, CleanNext, Wipe, Rmtree, Starting, Orphans, Mkdir, Register,
                          Verifying, ReadIdentity, ReadEntry, Save, Enrol
      <3>3. u = t
        BY <2>1, <3>2 DEF Kill, OpenWindow, Return, TypeOK
      <3>4. Kill(t)
        BY <3>2, <3>3 DEF OpenWindow
      <3> QED
        BY <2>1, <3>4 DEF Kill, Has, TypeOK
    <2>4. CASE \E h \in Handlers : \/ StartLogin(h)
                                   \/ \E e \in Emails : StartRelogin(h, e)
                                   \/ \E s \in Sessions : Verify(h, s) \/ Cancel(h, s)
      BY <2>2, <2>4 DEF StartLogin, StartRelogin, Verify, Cancel
    <2>5. CASE \E expired \in Expired \ {{}} : Sweep(expired)
      BY <2>2, <2>5 DEF Sweep
    <2>6. CASE Startup \/ Crash
      BY <2>1, <2>2, <2>6 DEF Startup, KillOrphans, Reap, Crash
    <2>7. CASE (\E s \in Sessions : \E e \in Emails : SignIn(s, e)) \/ (\E v \in Slots : UserCloses(v))
      BY <2>7 DEF SignIn, UserCloses
    <2>8. CASE UNCHANGED vars
      BY <2>2, <2>8 DEF vars
    <2> QED
      BY <2>3, <2>4, <2>5, <2>6, <2>7, <2>8 DEF Next
  <1> QED
    BY Invariance, <1>1, PTL DEF Spec, OwnWindow

=============================================================================
