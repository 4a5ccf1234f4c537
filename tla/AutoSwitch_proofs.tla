-------------------------- MODULE AutoSwitch_proofs --------------------------
(***************************************************************************)
(* The switch log is a chain, for any number of accounts and requests, and *)
(* any number of failures.                                                 *)
(***************************************************************************)
EXTENDS AutoSwitch, FiniteSetTheorems, WellFoundedInduction, TLAPS

USE DEF At, Goto, Actors, config, usage, swaps, log, counts

----------------------------------------------------------------------------
(* The inductive invariant.                                                *)

\* Whoever is on the way to a switch has an account to switch to.
TargetOK == \A w \in Actors :
  pc[w] \in {"verify", "wait", "swap", "commit"} => job[w].target \in Accounts

\* The lock is held exactly while its holder swaps and writes the row.
Inside(w) == pc[w] \in {"swap", "commit"}
LockOK == \A w \in Actors : Inside(w) <=> lock = w

\* The account a switch leaves, read when it got the lock, is the one the last
\* row ended with and still the active one, until the identity changes.
LeftOK == \A w \in Actors :
  pc[w] = "swap" /\ ~unlogged => job[w].from = lastTo /\ active = lastTo

Inv == TypeOK /\ TargetOK /\ LockOK /\ LeftOK /\ LogChains

----------------------------------------------------------------------------
(* Numbers and choices.                                                    *)

LEMMA LeastFact ==
  ASSUME NEW S \in SUBSET Nat, S # {}
  PROVE  Min(S) \in S
  <1>1. PICK x \in S : \A y \in S : ~(<<y, x>> \in OpToRel(<, Nat))
    BY NatLessThanWellFounded, WFMin
  <1>2. \A y \in S : x <= y
    <2> SUFFICES ASSUME NEW y \in S PROVE x <= y
      OBVIOUS
    <2>1. <<y, x>> \in Nat \X Nat /\ ~(<<y, x>> \in OpToRel(<, Nat))
      BY <1>1
    <2> QED
      BY <2>1 DEF OpToRel
  <1> QED
    BY <1>1, <1>2 DEF Min

\* get_next_account finds an account that is enabled and not stale, or none.
LEMMA NextAccountFact ==
  ASSUME TypeOK, NEW cur, NextAccount(cur) # None
  PROVE  NextAccount(cur) \in Candidates(cur) /\ NextAccount(cur) \in Accounts
  <1> DEFINE expired == {t \in Candidates(cur) : recorded[t] = "past"}
             roomy   == {t \in Candidates(cur) : t \notin spent}
  <1>1. Candidates(cur) \subseteq Accounts /\ Accounts \in SUBSET Nat
    BY AutoSwitchConstantsOK DEF TypeOK, Candidates
  <1>2. expired \in SUBSET Nat /\ roomy \in SUBSET Nat
    BY <1>1
  <1>3. expired # {} => Min(expired) \in expired
    BY <1>2, LeastFact, Zenon
  <1>4. roomy # {} => Min(roomy) \in roomy
    BY <1>2, LeastFact, Zenon
  <1>5. NextAccount(cur) \in {Min(expired), Min(roomy)} /\ NextAccount(cur) \in expired \cup roomy
    BY <1>3, <1>4 DEF NextAccount
  <1> QED
    BY <1>1, <1>5

----------------------------------------------------------------------------
(* Steps of one actor.                                                     *)

Others(w) == \A u \in Actors : u # w => pc'[u] = pc[u] /\ job'[u] = job[u]

LEMMA GotoFact ==
  ASSUME TypeOK, NEW w \in Actors, NEW p \in PCs, Goto(w, p), job' = job
  PROVE  /\ pc'[w] = p /\ job'[w] = job[w] /\ Others(w)
         /\ pc' \in [Actors -> PCs] /\ job' \in [Actors -> Jobs]
  BY DEF TypeOK, Others

LEMMA ReturnFact ==
  ASSUME TypeOK, NEW w \in Actors, Return(w)
  PROVE  /\ pc'[w] = "idle" /\ Others(w)
         /\ pc' \in [Actors -> PCs] /\ job' \in [Actors -> Jobs]
  <1>1. NoJob \in Jobs /\ "idle" \in PCs
    BY DEF NoJob, Jobs, PCs
  <1>2. pc' = [pc EXCEPT ![w] = "idle"] /\ job' = [job EXCEPT ![w] = NoJob]
    BY DEF Return
  <1> HIDE DEF NoJob
  <1> QED
    BY <1>1, <1>2 DEF TypeOK, Others

LEMMA StartFact ==
  ASSUME TypeOK, NEW w \in Actors, NEW p \in PCs, NEW op \in Ops,
         NEW target \in Accounts \cup {None}, NEW victim \in Accounts \cup {None},
         Start(w, p, op, target, victim)
  PROVE  /\ pc'[w] = p /\ Others(w) /\ job'[w].target = target /\ job'[w].victim = victim
         /\ pc' \in [Actors -> PCs] /\ job' \in [Actors -> Jobs]
  <1> DEFINE j == [op |-> op, target |-> target, victim |-> victim, from |-> None]
  <1>1. j \in Jobs /\ j.target = target /\ j.victim = victim
    BY DEF Jobs
  <1>2. pc' = [pc EXCEPT ![w] = p] /\ job' = [job EXCEPT ![w] = j]
    BY DEF Start
  <1> HIDE DEF j
  <1> QED
    BY <1>1, <1>2 DEF TypeOK, Others

\* A step that neither takes nor gives back the lock.
LEMMA OutsideStep ==
  ASSUME Inv, NEW w \in Actors, Others(w), ~Inside(w), pc'[w] \notin {"swap", "commit"},
         pc'[w] \in {"verify", "wait"} => job'[w].target \in Accounts,
         lock' = lock, UNCHANGED <<active, log>> \/ unlogged'
  PROVE  TargetOK' /\ LockOK' /\ LeftOK' /\ LogChains'
  <1>1. \A u \in Actors : u # w => pc'[u] = pc[u] /\ job'[u] = job[u]
    BY DEF Others
  <1>2. TargetOK'
    BY <1>1 DEF Inv, TargetOK
  <1>3. LockOK'
    BY <1>1 DEF Inv, LockOK, Inside
  <1>4. LeftOK' /\ LogChains'
    BY <1>1 DEF Inv, LeftOK, LogChains
  <1> QED
    BY <1>2, <1>3, <1>4

\* A step of nobody's.
LEMMA OutsideAll ==
  ASSUME Inv, UNCHANGED <<pc, job, lock>>, UNCHANGED <<active, log>> \/ unlogged'
  PROVE  TargetOK' /\ LockOK' /\ LeftOK' /\ LogChains'
  BY DEF Inv, TargetOK, LockOK, Inside, LeftOK, LogChains

----------------------------------------------------------------------------
(* The poll tick.                                                          *)

LEMMA TickActor == Tick \in Actors /\ \A h \in Handlers : h \in Actors
  OBVIOUS

LEMMA OutcomeFact ==
  ASSUME TypeOK, NEW a \in Accounts, NEW x \in Missed(a) \cup {Learned(a), Throttled(a)}
  PROVE  x.recorded \in {"unknown", "open", "past"}
  <1>1. recorded[a] \in {"unknown", "open", "past"}
    BY DEF TypeOK
  <1> QED
    BY <1>1 DEF Missed, Learned, Throttled, Outcome

LEMMA PollStep ==
  ASSUME Inv, Poll
  PROVE  Inv'
  <1>1. PICK throttled \in SUBSET (rows \ {active}) : PollBut(throttled)
    BY DEF Poll
  <1>2. PICK m \in SUBSET (rows \ throttled) :
          \E o \in [m -> UNION {Missed(a) : a \in m}] :
            LET left(a) == IF a \in m THEN o[a]
                           ELSE IF a \in throttled THEN Throttled(a) ELSE Learned(a) IN
            /\ misses + Cardinality(m) <= MaxMisses
            /\ \A a \in m : o[a] \in Missed(a)
            /\ misses' = misses + Cardinality(m)
            /\ spent' = {a \in rows : left(a).spent} \cup (spent \ rows)
            /\ recorded' = [a \in Accounts |-> IF a \in rows THEN left(a).recorded ELSE recorded[a]]
            /\ stale' = {a \in rows : left(a).stale}
    BY <1>1 DEF PollBut
  <1>3. PICK o \in [m -> UNION {Missed(a) : a \in m}] :
            LET left(a) == IF a \in m THEN o[a]
                           ELSE IF a \in throttled THEN Throttled(a) ELSE Learned(a) IN
            /\ misses + Cardinality(m) <= MaxMisses
            /\ \A a \in m : o[a] \in Missed(a)
            /\ misses' = misses + Cardinality(m)
            /\ spent' = {a \in rows : left(a).spent} \cup (spent \ rows)
            /\ recorded' = [a \in Accounts |-> IF a \in rows THEN left(a).recorded ELSE recorded[a]]
            /\ stale' = {a \in rows : left(a).stale}
    BY <1>2
  <1> DEFINE left(a) == IF a \in m THEN o[a]
                        ELSE IF a \in throttled THEN Throttled(a) ELSE Learned(a)
  <1>4. /\ TypeOK /\ pc[Tick] = "idle" /\ Goto(Tick, "decide")
        /\ window' = [a \in Accounts |-> IF a = active /\ a \in rows /\ window[a] = "none"
                                         THEN "open" ELSE window[a]]
        /\ UNCHANGED <<rows, enabled, flag, swaps, lock, log, job, ops, uses>>
    BY <1>1 DEF PollBut, Inv
  <1>5. misses' \in 0..MaxMisses
    <2>1. IsFiniteSet(m)
      BY <1>4, AutoSwitchConstantsOK, FS_Subset DEF TypeOK
    <2>2. Cardinality(m) \in Nat
      BY <2>1, FS_CardinalityType
    <2> QED
      BY <1>3, <1>4, <2>2, AutoSwitchConstantsOK DEF TypeOK
  <1>6. \A a \in rows : left(a).recorded \in {"unknown", "open", "past"}
    <2> SUFFICES ASSUME NEW a \in rows PROVE left(a).recorded \in {"unknown", "open", "past"}
      OBVIOUS
    <2>1. left(a) \in Missed(a) \cup {Learned(a), Throttled(a)} /\ a \in Accounts
      BY <1>3, <1>4 DEF TypeOK
    <2> HIDE DEF left
    <2> QED
      BY <1>4, <2>1, OutcomeFact
  <1>7. /\ spent' = {a \in rows : left(a).spent} \cup (spent \ rows)
        /\ recorded' = [a \in Accounts |-> IF a \in rows THEN left(a).recorded ELSE recorded[a]]
        /\ stale' = {a \in rows : left(a).stale}
    BY <1>3
  <1> HIDE DEF left
  <1>8. /\ spent' \subseteq Accounts /\ stale' \subseteq rows
        /\ recorded' \in [Accounts -> {"unknown", "open", "past"}]
        /\ window' \in [Accounts -> Windows]
    BY <1>4, <1>6, <1>7 DEF TypeOK, Windows
  <1>9. /\ pc'[Tick] = "decide" /\ Others(Tick)
        /\ pc' \in [Actors -> PCs] /\ job' \in [Actors -> Jobs]
    <2>1. "decide" \in PCs /\ Tick \in Actors
      BY DEF PCs
    <2> QED
      BY <1>4, <2>1, GotoFact
  <1>10. TypeOK'
    BY <1>4, <1>5, <1>8, <1>9 DEF TypeOK
  <1>11. TargetOK' /\ LockOK' /\ LeftOK' /\ LogChains'
    BY <1>4, <1>9, TickActor, OutsideStep DEF Inside
  <1> QED
    BY <1>10, <1>11 DEF Inv

LEMMA DecideStep ==
  ASSUME Inv, Decide
  PROVE  Inv'
  <1>0. /\ TypeOK /\ pc[Tick] = "decide" /\ Tick \in Actors
        /\ UNCHANGED <<config, usage, swaps, lock, log, counts>>
    BY DEF Inv, Decide
  <1>1. /\ pc'[Tick] \in {"verify", "idle"} /\ Others(Tick)
        /\ pc' \in [Actors -> PCs] /\ job' \in [Actors -> Jobs]
        /\ pc'[Tick] = "verify" => job'[Tick].target \in Accounts
    <2>1. CASE Return(Tick)
      BY <1>0, <2>1, ReturnFact
    <2>2. CASE NextAccount(active) # None /\ Start(Tick, "verify", "auto", NextAccount(active), None)
      <3> DEFINE next == NextAccount(active)
      <3>1. next \in Accounts
        BY <1>0, <2>2, NextAccountFact
      <3>2. "verify" \in PCs /\ "auto" \in Ops /\ Start(Tick, "verify", "auto", next, None)
        BY <2>2 DEF PCs, Ops
      <3>3. next \in Accounts \cup {None} /\ None \in Accounts \cup {None}
        BY <3>1
      <3> HIDE DEF next
      <3>4. /\ pc'[Tick] = "verify" /\ Others(Tick) /\ job'[Tick].target = next
            /\ pc' \in [Actors -> PCs] /\ job' \in [Actors -> Jobs]
        BY <1>0, <3>2, <3>3, StartFact, Zenon
      <3> QED
        BY <3>1, <3>4
    <2> QED
      BY <2>1, <2>2 DEF Decide
  <1>2. TypeOK'
    BY <1>0, <1>1 DEF TypeOK
  <1>3. TargetOK' /\ LockOK' /\ LeftOK' /\ LogChains'
    BY <1>0, <1>1, OutsideStep DEF Inside
  <1> QED
    BY <1>2, <1>3 DEF Inv

LEMMA VerifyStep ==
  ASSUME Inv, Verify
  PROVE  Inv'
  <1>0. /\ TypeOK /\ pc[Tick] = "verify" /\ Tick \in Actors /\ job[Tick].target \in Accounts
        /\ UNCHANGED <<config, usage, swaps, lock, log, ops, uses>>
    BY DEF Inv, Verify, TargetOK
  <1>1. misses' \in 0..MaxMisses
    BY <1>0, AutoSwitchConstantsOK DEF Verify, Miss, TypeOK
  <1>2. /\ pc'[Tick] \in {"wait", "idle"} /\ Others(Tick)
        /\ pc' \in [Actors -> PCs] /\ job' \in [Actors -> Jobs]
        /\ pc'[Tick] = "wait" => job'[Tick].target \in Accounts
    <2>1. CASE Return(Tick)
      BY <1>0, <2>1, ReturnFact
    <2>2. CASE Goto(Tick, "wait") /\ job' = job
      <3>1. "wait" \in PCs
        BY DEF PCs
      <3> QED
        BY <1>0, <2>2, <3>1, GotoFact
    <2> QED
      BY <2>1, <2>2 DEF Verify
  <1>3. TypeOK'
    BY <1>0, <1>1, <1>2 DEF TypeOK
  <1>4. TargetOK' /\ LockOK' /\ LeftOK' /\ LogChains'
    BY <1>0, <1>2, OutsideStep DEF Inside
  <1> QED
    BY <1>3, <1>4 DEF Inv

----------------------------------------------------------------------------
(* Requests.                                                               *)

\* A request that begins, with whatever it does to the flag and the rotation.
LEMMA RequestFact ==
  ASSUME Inv, NEW h \in Handlers, Request(h)
  PROVE  TypeOK /\ h \in Actors /\ pc[h] = "idle" /\ ~Inside(h) /\ ops' \in 0..MaxOps
  BY AutoSwitchConstantsOK DEF Inv, Request, TypeOK, Inside

\* An actor that goes on to wait, or to a step that needs no target.
LEMMA StartStep ==
  ASSUME Inv, NEW w \in Actors, ~Inside(w), NEW p \in {"wait", "cascade", "erase"}, NEW op \in Ops,
         NEW target \in Accounts \cup {None}, NEW victim \in Accounts \cup {None},
         Start(w, p, op, target, victim), p = "wait" => target \in Accounts,
         lock' = lock, UNCHANGED <<active, log>>
  PROVE  /\ TargetOK' /\ LockOK' /\ LeftOK' /\ LogChains'
         /\ pc' \in [Actors -> PCs] /\ job' \in [Actors -> Jobs]
  <1>1. p \in PCs /\ TypeOK
    BY DEF PCs, Inv
  <1>2. /\ pc'[w] = p /\ Others(w) /\ job'[w].target = target
        /\ pc' \in [Actors -> PCs] /\ job' \in [Actors -> Jobs]
    BY <1>1, StartFact, Zenon
  <1> QED
    BY <1>2, OutsideStep

LEMMA ManualSwitchStep ==
  ASSUME Inv, NEW h \in Handlers, NEW t \in Accounts, ManualSwitch(h, t)
  PROVE  Inv'
  <1>0. /\ Request(h) /\ Start(h, "wait", "manual", t, None)
        /\ UNCHANGED <<config, usage, swaps, lock, log, misses, uses>>
    BY DEF ManualSwitch
  <1>1. TypeOK /\ h \in Actors /\ ~Inside(h) /\ ops' \in 0..MaxOps
    BY <1>0, RequestFact
  <1>2. "manual" \in Ops /\ t \in Accounts \cup {None} /\ None \in Accounts \cup {None}
    BY DEF Ops
  <1>3. /\ TargetOK' /\ LockOK' /\ LeftOK' /\ LogChains'
        /\ pc' \in [Actors -> PCs] /\ job' \in [Actors -> Jobs]
    BY <1>0, <1>1, <1>2, StartStep
  <1>4. TypeOK'
    BY <1>0, <1>1, <1>3 DEF TypeOK
  <1> QED
    BY <1>3, <1>4 DEF Inv

LEMMA DisableAccountStep ==
  ASSUME Inv, NEW h \in Handlers, NEW a \in Accounts, DisableAccount(h, a)
  PROVE  Inv'
  <1>0. /\ Request(h) /\ enabled' = enabled \ {a} /\ Start(h, "cascade", "disable", None, a)
        /\ UNCHANGED <<rows, stale, flag, usage, swaps, lock, log, misses, uses>>
    BY DEF DisableAccount
  <1>1. TypeOK /\ h \in Actors /\ ~Inside(h) /\ ops' \in 0..MaxOps
    BY <1>0, RequestFact
  <1>2. "disable" \in Ops /\ a \in Accounts \cup {None} /\ None \in Accounts \cup {None}
    BY DEF Ops
  <1>3. /\ TargetOK' /\ LockOK' /\ LeftOK' /\ LogChains'
        /\ pc' \in [Actors -> PCs] /\ job' \in [Actors -> Jobs]
    BY <1>0, <1>1, <1>2, StartStep
  <1>4. TypeOK'
    BY <1>0, <1>1, <1>3 DEF TypeOK
  <1> QED
    BY <1>3, <1>4 DEF Inv

LEMMA EnableAccountStep ==
  ASSUME Inv, NEW h \in Handlers, NEW a \in Accounts, EnableAccount(h, a)
  PROVE  Inv'
  <1>0. /\ Request(h) /\ a \in rows /\ enabled' = enabled \cup {a}
        /\ UNCHANGED <<rows, stale, flag, usage, swaps, lock, log, pc, job, misses, uses>>
    BY DEF EnableAccount
  <1>1. TypeOK /\ ops' \in 0..MaxOps
    BY <1>0, RequestFact
  <1>2. TypeOK'
    BY <1>0, <1>1 DEF TypeOK
  <1>3. TargetOK' /\ LockOK' /\ LeftOK' /\ LogChains'
    BY <1>0, OutsideAll
  <1> QED
    BY <1>2, <1>3 DEF Inv

LEMMA CascadeStep ==
  ASSUME Inv, NEW h \in Handlers, Cascade(h)
  PROVE  Inv'
  <1> DEFINE a == job[h].victim
             next == NextAccount(a)
  <1>0. /\ TypeOK /\ h \in Actors /\ pc[h] = "cascade" /\ ~Inside(h)
        /\ UNCHANGED <<config, usage, swaps, lock, log, counts>>
    BY DEF Inv, Cascade, Inside
  <1>1. a \in Accounts \cup {None}
    BY <1>0 DEF TypeOK, Jobs
  <1>2. \/ next # None /\ Start(h, "wait", "disable", next, a)
        \/ Return(h)
    BY DEF Cascade
  <1>3. next # None => next \in Accounts
    BY <1>0, NextAccountFact
  <1> HIDE DEF next, a
  <1>4. /\ TargetOK' /\ LockOK' /\ LeftOK' /\ LogChains'
        /\ pc' \in [Actors -> PCs] /\ job' \in [Actors -> Jobs]
    <2>1. CASE next # None /\ Start(h, "wait", "disable", next, a)
      <3>1. "disable" \in Ops /\ next \in Accounts \cup {None}
        BY <1>3, <2>1 DEF Ops
      <3> QED
        BY <1>0, <1>1, <1>3, <2>1, <3>1, StartStep
    <2>2. CASE Return(h)
      <3>1. pc'[h] = "idle" /\ Others(h) /\ pc' \in [Actors -> PCs] /\ job' \in [Actors -> Jobs]
        BY <1>0, <2>2, ReturnFact
      <3> QED
        BY <1>0, <3>1, OutsideStep
    <2> QED
      BY <1>2, <2>1, <2>2
  <1>5. TypeOK'
    BY <1>0, <1>4 DEF TypeOK
  <1> QED
    BY <1>4, <1>5 DEF Inv

LEMMA ServiceStep ==
  ASSUME Inv, NEW h \in Handlers, EnableService(h) \/ DisableService(h)
  PROVE  Inv'
  <1>0. /\ Request(h) /\ flag' \in BOOLEAN
        /\ UNCHANGED <<rows, enabled, stale, usage, swaps, lock, log, misses, uses>>
        /\ \/ UNCHANGED <<pc, job>>
           \/ \E t \in enabled : Start(h, "wait", "enable", t, None)
    BY DEF EnableService, DisableService
  <1>1. TypeOK /\ h \in Actors /\ ~Inside(h) /\ ops' \in 0..MaxOps
    BY <1>0, RequestFact
  <1>2. /\ TargetOK' /\ LockOK' /\ LeftOK' /\ LogChains'
        /\ pc' \in [Actors -> PCs] /\ job' \in [Actors -> Jobs]
    <2>1. CASE UNCHANGED <<pc, job>>
      <3>1. TargetOK' /\ LockOK' /\ LeftOK' /\ LogChains'
        BY <1>0, <2>1, OutsideAll
      <3> QED
        BY <1>1, <2>1, <3>1 DEF TypeOK
    <2>2. CASE \E t \in enabled : Start(h, "wait", "enable", t, None)
      <3>1. PICK t \in enabled : Start(h, "wait", "enable", t, None)
        BY <2>2
      <3>2. /\ "enable" \in Ops /\ t \in Accounts /\ t \in Accounts \cup {None}
            /\ None \in Accounts \cup {None}
        BY <1>1 DEF Ops, TypeOK
      <3> QED
        BY <1>0, <1>1, <3>1, <3>2, StartStep
    <2> QED
      BY <1>0, <2>1, <2>2
  <1>3. TypeOK'
    BY <1>0, <1>1, <1>2 DEF TypeOK
  <1> QED
    BY <1>2, <1>3 DEF Inv

LEMMA DeleteAccountStep ==
  ASSUME Inv, NEW h \in Handlers, NEW v \in Accounts, DeleteAccount(h, v)
  PROVE  Inv'
  <1> DEFINE next == NextAccount(v)
             kept == IF v = active THEN None ELSE v
  <1>0. /\ Request(h) /\ UNCHANGED <<config, usage, swaps, lock, log, misses, uses>>
        /\ \/ next # None /\ Start(h, "wait", "delete", next, v)
           \/ Start(h, "erase", "delete", kept, v)
    BY DEF DeleteAccount
  <1>1. TypeOK /\ h \in Actors /\ ~Inside(h) /\ ops' \in 0..MaxOps
    BY <1>0, RequestFact
  <1>2. next # None => next \in Accounts
    BY <1>1, NextAccountFact
  <1>3. kept \in Accounts \cup {None} /\ v \in Accounts \cup {None} /\ "delete" \in Ops
    BY DEF Ops
  <1> HIDE DEF next, kept
  <1>4. /\ TargetOK' /\ LockOK' /\ LeftOK' /\ LogChains'
        /\ pc' \in [Actors -> PCs] /\ job' \in [Actors -> Jobs]
    <2>1. CASE next # None /\ Start(h, "wait", "delete", next, v)
      <3>1. next \in Accounts \cup {None}
        BY <1>2, <2>1
      <3> QED
        BY <1>0, <1>1, <1>2, <1>3, <2>1, <3>1, StartStep
    <2>2. CASE Start(h, "erase", "delete", kept, v)
      BY <1>0, <1>1, <1>3, <2>2, StartStep
    <2> QED
      BY <1>0, <2>1, <2>2
  <1>5. TypeOK'
    BY <1>0, <1>1, <1>4 DEF TypeOK
  <1> QED
    BY <1>4, <1>5 DEF Inv

----------------------------------------------------------------------------
(* perform_switch.                                                         *)

\* Only the holder of the lock is in the critical section.
LEMMA Exclusion ==
  ASSUME Inv, NEW w \in Actors
  PROVE  /\ Inside(w) => lock # None /\ \A u \in Actors : u # w => ~Inside(u)
         /\ lock = None => \A u \in Actors : ~Inside(u)
  <1>1. \A u \in Actors : u # None
    BY AutoSwitchConstantsOK
  <1> QED
    BY <1>1 DEF Inv, LockOK

LEMMA EnterStep ==
  ASSUME Inv, NEW w \in Actors, Enter(w)
  PROVE  Inv'
  <1>0. /\ TypeOK /\ pc[w] = "wait" /\ lock = None /\ lock' = w /\ Goto(w, "swap")
        /\ job' = [job EXCEPT ![w].from = active] /\ job[w].target \in Accounts
        /\ UNCHANGED <<config, usage, swaps, log, counts>>
    BY DEF Inv, Enter, TargetOK
  <1>1. \A u \in Actors : ~Inside(u)
    BY <1>0, Exclusion
  <1> DEFINE j == [job[w] EXCEPT !.from = active]
  <1>2. j \in Jobs /\ j.from = active /\ j.target = job[w].target
    BY <1>0 DEF TypeOK, Jobs
  <1>3. job' = [job EXCEPT ![w] = j] /\ pc' = [pc EXCEPT ![w] = "swap"] /\ "swap" \in PCs
    BY <1>0 DEF PCs
  <1> HIDE DEF j
  <1>4. /\ pc'[w] = "swap" /\ job'[w] = j
        /\ \A u \in Actors : u # w => pc'[u] = pc[u] /\ job'[u] = job[u]
        /\ pc' \in [Actors -> PCs] /\ job' \in [Actors -> Jobs]
    BY <1>0, <1>2, <1>3 DEF TypeOK
  <1>5. TypeOK'
    BY <1>0, <1>4 DEF TypeOK
  <1>6. w # None
    BY AutoSwitchConstantsOK
  <1>7. TargetOK' /\ LockOK'
    BY <1>0, <1>1, <1>2, <1>4 DEF Inv, TargetOK, LockOK, Inside
  <1>8. LeftOK'
    BY <1>0, <1>1, <1>2, <1>4 DEF Inv, LogChains, LeftOK, Inside
  <1>9. LogChains'
    BY <1>0, <1>1, <1>4, <1>6 DEF LogChains, Inside
  <1> QED
    BY <1>5, <1>7, <1>8, <1>9 DEF Inv

\* The types of a swap, whichever way it comes about.
LEMMA ActivateFact ==
  ASSUME TypeOK, NEW t, Activate(t)
  PROVE  active' = t /\ t \in Accounts /\ stored' \subseteq Accounts
  BY DEF TypeOK, Activate

LEMMA SwapStep ==
  ASSUME Inv, NEW w \in Actors, Swap(w)
  PROVE  Inv'
  <1>0. /\ TypeOK /\ pc[w] = "swap" /\ Activate(job[w].target) /\ Goto(w, "commit") /\ Inside(w)
        /\ UNCHANGED <<config, usage, zombies, lock, log, job, counts>>
    BY DEF Inv, Swap, Inside
  <1>1. active' \in Accounts /\ stored' \subseteq Accounts /\ active' = job[w].target
    BY <1>0, ActivateFact
  <1>2. /\ pc'[w] = "commit" /\ \A u \in Actors : u # w => pc'[u] = pc[u]
        /\ pc' \in [Actors -> PCs]
    BY <1>0 DEF TypeOK, PCs
  <1>3. lock # None /\ \A u \in Actors : u # w => ~Inside(u)
    BY <1>0, Exclusion
  <1>4. TypeOK'
    BY <1>0, <1>1, <1>2 DEF TypeOK
  <1>5. TargetOK' /\ LockOK'
    BY <1>0, <1>2 DEF Inv, TargetOK, LockOK, Inside
  <1>6. LeftOK' /\ LogChains'
    BY <1>0, <1>2, <1>3 DEF Inv, LeftOK, LogChains, Inside
  <1> QED
    BY <1>4, <1>5, <1>6 DEF Inv

LEMMA SwapFailsStep ==
  ASSUME Inv, NEW w \in Actors, SwapFails(w)
  PROVE  Inv'
  <1>0. /\ TypeOK /\ pc[w] = "swap" /\ lock' = None /\ Return(w) /\ Inside(w)
        /\ job[w].target \in Accounts
        /\ UNCHANGED <<config, usage, ops, uses>>
    BY DEF Inv, SwapFails, Inside, TargetOK
  <1>1. /\ misses' \in 0..MaxMisses /\ zombies' \subseteq Accounts
        /\ active' \in Accounts \cup {None} /\ stored' \subseteq Accounts
        /\ UNCHANGED <<active, log>> \/ (unlogged' = TRUE /\ lastTo' = None)
    <2>1. CASE job[w].target \notin stored /\ UNCHANGED <<swaps, log, misses>>
      BY <1>0, <2>1 DEF TypeOK
    <2>2. CASE Miss /\ UNCHANGED <<swaps, log>>
      BY <1>0, <2>2, AutoSwitchConstantsOK DEF TypeOK, Miss
    <2>3. CASE Miss /\ Activate(job[w].target) /\ Unlogged /\ UNCHANGED zombies
      <3>1. active' \in Accounts /\ stored' \subseteq Accounts
        BY <1>0, <2>3, ActivateFact
      <3> QED
        BY <1>0, <2>3, <3>1, AutoSwitchConstantsOK DEF TypeOK, Miss, Unlogged
    <2>4. CASE Miss /\ zombies' = zombies \cup {job[w].target} /\ UNCHANGED <<active, stored, log>>
      BY <1>0, <2>4, AutoSwitchConstantsOK DEF TypeOK, Miss
    <2> QED
      BY <2>1, <2>2, <2>3, <2>4 DEF SwapFails
  <1>2. /\ pc'[w] = "idle" /\ Others(w)
        /\ pc' \in [Actors -> PCs] /\ job' \in [Actors -> Jobs]
    BY <1>0, ReturnFact
  <1>3. lock # None /\ \A u \in Actors : u # w => ~Inside(u)
    BY <1>0, Exclusion
  <1>4. \A u \in Actors : u # w => pc'[u] = pc[u] /\ job'[u] = job[u]
    BY <1>2 DEF Others
  <1>5. TypeOK'
    BY <1>0, <1>1, <1>2 DEF TypeOK
  <1>6. \A u \in Actors : ~Inside(u)' /\ u # None
    BY <1>2, <1>3, <1>4, AutoSwitchConstantsOK DEF Inside
  <1>7. TargetOK' /\ LockOK'
    BY <1>0, <1>2, <1>4, <1>6 DEF Inv, TargetOK, LockOK
  <1>8. LeftOK' /\ LogChains'
    BY <1>0, <1>1, <1>6 DEF Inv, LeftOK, LogChains, Inside
  <1> QED
    BY <1>5, <1>7, <1>8 DEF Inv

LEMMA CommitStep ==
  ASSUME Inv, NEW w \in Actors, Commit(w)
  PROVE  Inv'
  <1>0. /\ TypeOK /\ pc[w] = "commit" /\ lock' = None /\ Inside(w)
        /\ UNCHANGED <<config, usage, swaps, counts>>
    BY DEF Inv, Commit, Inside
  <1>1. \/ active = job[w].target /\ lastTo' = active /\ unlogged' = FALSE
        \/ unlogged' = TRUE /\ lastTo' = None
    BY DEF Commit, Unlogged
  <1>2. /\ pc'[w] \in {"erase", "idle"} /\ Others(w)
        /\ pc' \in [Actors -> PCs] /\ job' \in [Actors -> Jobs]
    <2>1. CASE Return(w)
      BY <1>0, <2>1, ReturnFact
    <2>2. CASE Goto(w, "erase") /\ job' = job
      <3>1. "erase" \in PCs
        BY DEF PCs
      <3> QED
        BY <1>0, <2>2, <3>1, GotoFact
    <2> QED
      BY <2>1, <2>2 DEF Commit
  <1>3. \A u \in Actors : u # w => ~Inside(u) /\ pc'[u] = pc[u] /\ job'[u] = job[u]
    BY <1>0, <1>2, Exclusion DEF Others
  <1>4. TypeOK'
    BY <1>0, <1>1, <1>2 DEF TypeOK
  <1>5. \A u \in Actors : ~Inside(u)' /\ u # None
    BY <1>2, <1>3, AutoSwitchConstantsOK DEF Inside
  <1>6. TargetOK' /\ LockOK'
    BY <1>0, <1>2, <1>3, <1>5 DEF Inv, TargetOK, LockOK
  <1>7. LeftOK' /\ LogChains'
    BY <1>0, <1>1, <1>5 DEF LeftOK, LogChains, Inside
  <1> QED
    BY <1>4, <1>6, <1>7 DEF Inv

LEMMA ZombieEndsStep ==
  ASSUME Inv, NEW t \in Accounts, ZombieEnds(t)
  PROVE  Inv'
  <1>0. /\ TypeOK /\ zombies' = zombies \ {t}
        /\ UNCHANGED <<config, usage, lock, pc, job, counts>>
        /\ \/ Activate(t) /\ unlogged' = TRUE /\ lastTo' = None
           \/ UNCHANGED <<active, stored, log>>
    BY DEF Inv, ZombieEnds, Unlogged
  <1>1. active' \in Accounts \cup {None} /\ stored' \subseteq Accounts
    BY <1>0, ActivateFact DEF TypeOK
  <1>2. TypeOK'
    BY <1>0, <1>1 DEF TypeOK
  <1>3. TargetOK' /\ LockOK' /\ LeftOK' /\ LogChains'
    BY <1>0, OutsideAll
  <1> QED
    BY <1>2, <1>3 DEF Inv

----------------------------------------------------------------------------
(* The rest of delete_account, and the server's windows.                   *)

LEMMA EraseStep ==
  ASSUME Inv, NEW h \in Handlers, Erase(h)
  PROVE  Inv'
  <1> DEFINE v == job[h].victim
  <1>0. /\ TypeOK /\ h \in Actors /\ pc[h] = "erase" /\ ~Inside(h) /\ Goto(h, "drop")
        /\ stored' = stored \ {v} /\ flag' = (flag /\ job[h].target # None)
        /\ \/ active' = None /\ unlogged' = TRUE /\ lastTo' = None
           \/ UNCHANGED <<active, log>>
        /\ UNCHANGED <<rows, enabled, stale, usage, zombies, lock, job, counts>>
    BY DEF Inv, Erase, Inside, Unlogged
  <1>1. /\ pc'[h] = "drop" /\ Others(h)
        /\ pc' \in [Actors -> PCs] /\ job' \in [Actors -> Jobs]
    <2>1. "drop" \in PCs
      BY DEF PCs
    <2> QED
      BY <1>0, <2>1, GotoFact
  <1>2. TypeOK'
    BY <1>0, <1>1 DEF TypeOK
  <1>3. TargetOK' /\ LockOK' /\ LeftOK' /\ LogChains'
    BY <1>0, <1>1, OutsideStep
  <1> QED
    BY <1>2, <1>3 DEF Inv

LEMMA DropStep ==
  ASSUME Inv, NEW h \in Handlers, Drop(h)
  PROVE  Inv'
  <1> DEFINE v == job[h].victim
  <1>0. /\ TypeOK /\ h \in Actors /\ pc[h] = "drop" /\ ~Inside(h) /\ Return(h)
        /\ rows' = rows \ {v} /\ enabled' = enabled \ {v} /\ stale' = stale \ {v}
        /\ spent' = spent \ {v} /\ recorded' = [recorded EXCEPT ![v] = "unknown"]
        /\ UNCHANGED <<flag, window, swaps, lock, log, counts>>
    BY DEF Inv, Drop, Inside
  <1>1. /\ pc'[h] = "idle" /\ Others(h)
        /\ pc' \in [Actors -> PCs] /\ job' \in [Actors -> Jobs]
    BY <1>0, ReturnFact
  <1> HIDE DEF v
  <1>2. TypeOK'
    BY <1>0, <1>1 DEF TypeOK
  <1>3. TargetOK' /\ LockOK' /\ LeftOK' /\ LogChains'
    BY <1>0, <1>1, OutsideStep
  <1> QED
    BY <1>2, <1>3 DEF Inv

LEMMA WindowStep ==
  ASSUME Inv, NEW a \in Accounts, WindowEnds(a) \/ \E u \in {"open", "full"} : Use(a, u)
  PROVE  Inv'
  <1>0. /\ TypeOK /\ uses < MaxUse /\ uses' = uses + 1
        /\ \E u \in {"none", "open", "full"} : window' = [window EXCEPT ![a] = u]
        /\ recorded' \in {recorded, [recorded EXCEPT ![a] = IF @ = "unknown" THEN @ ELSE "past"]}
        /\ UNCHANGED <<config, spent, swaps, lock, log, pc, job, ops, misses>>
    BY DEF Inv, WindowEnds, Use
  <1>1. uses' \in 0..MaxUse
    BY <1>0, AutoSwitchConstantsOK DEF TypeOK
  <1>2. /\ window' \in [Accounts -> Windows]
        /\ recorded' \in [Accounts -> {"unknown", "open", "past"}]
    BY <1>0 DEF TypeOK, Windows
  <1>3. TypeOK'
    BY <1>0, <1>1, <1>2 DEF TypeOK
  <1>4. TargetOK' /\ LockOK' /\ LeftOK' /\ LogChains'
    BY <1>0, OutsideAll
  <1> QED
    BY <1>3, <1>4 DEF Inv

----------------------------------------------------------------------------
(* The invariant.                                                          *)

LEMMA InitInv == Init => Inv
  <1> SUFFICES ASSUME Init PROVE Inv
    OBVIOUS
  <1>1. /\ active \in Accounts \cup {None} /\ enabled \subseteq Accounts /\ flag \in BOOLEAN
    <2>1. PICK s \in Starts : active = s.active /\ enabled = s.enabled /\ flag = s.flag
      BY DEF Init
    <2>2. s \in [active : Accounts \cup {None}, enabled : SUBSET Accounts, flag : BOOLEAN]
      BY AutoSwitchConstantsOK
    <2> QED
      BY <2>1, <2>2
  <1>2. /\ stored = Accounts /\ rows = Accounts /\ stale = {}
        /\ window = [a \in Accounts |-> "none"] /\ recorded = [a \in Accounts |-> "unknown"]
        /\ spent = {} /\ lock = None /\ zombies = {} /\ lastTo = active /\ unlogged = FALSE
        /\ pc = [w \in Actors |-> "idle"] /\ job = [w \in Actors |-> NoJob]
        /\ ops = 0 /\ misses = 0 /\ uses = 0
    BY DEF Init
  <1>3. 0 \in 0..MaxOps /\ 0 \in 0..MaxMisses /\ 0 \in 0..MaxUse
    BY AutoSwitchConstantsOK
  <1>4. pc \in [Actors -> PCs] /\ job \in [Actors -> Jobs]
    BY <1>2 DEF PCs, Jobs, NoJob
  <1>5. TypeOK
    BY <1>1, <1>2, <1>3, <1>4 DEF TypeOK, Windows
  <1>6. TargetOK /\ LockOK /\ LeftOK /\ LogChains
    BY <1>2, AutoSwitchConstantsOK DEF TargetOK, LockOK, Inside, LeftOK, LogChains
  <1> QED
    BY <1>5, <1>6 DEF Inv

LEMMA StepInv == Inv /\ [Next]_vars => Inv'
  <1> SUFFICES ASSUME Inv, [Next]_vars PROVE Inv'
    OBVIOUS
  <1>1. ASSUME NEW w \in Actors, Switching(w) PROVE Inv'
    BY <1>1, EnterStep, SwapStep, SwapFailsStep, CommitStep DEF Switching
  <1>2. CASE TickStep
    BY <1>1, <1>2, PollStep, DecideStep, VerifyStep DEF TickStep
  <1>3. ASSUME NEW h \in Handlers, Handle(h) PROVE Inv'
    BY <1>1, <1>3, CascadeStep, EraseStep, DropStep DEF Handle
  <1>4. ASSUME NEW h \in Handlers, EnableService(h) \/ DisableService(h) PROVE Inv'
    BY <1>4, ServiceStep
  <1>5. ASSUME NEW h \in Handlers, NEW a \in Accounts,
               \/ ManualSwitch(h, a) \/ DeleteAccount(h, a)
               \/ DisableAccount(h, a) \/ EnableAccount(h, a)
        PROVE  Inv'
    BY <1>5, ManualSwitchStep, DeleteAccountStep, DisableAccountStep, EnableAccountStep
  <1>6. ASSUME NEW a \in Accounts,
               ZombieEnds(a) \/ WindowEnds(a) \/ \E u \in {"open", "full"} : Use(a, u)
        PROVE  Inv'
    BY <1>6, ZombieEndsStep, WindowStep
  <1>7. CASE UNCHANGED vars
    <2>1. UNCHANGED <<rows, enabled, stale, flag, window, recorded, spent, active, stored, zombies,
                      lock, lastTo, unlogged, pc, job, ops, misses, uses>>
      BY <1>7 DEF vars
    <2>2. TypeOK'
      BY <2>1 DEF Inv, TypeOK
    <2>3. TargetOK' /\ LockOK' /\ LeftOK' /\ LogChains'
      BY <2>1, OutsideAll
    <2> QED
      BY <2>2, <2>3 DEF Inv
  <1> QED
    BY <1>2, <1>3, <1>4, <1>5, <1>6, <1>7 DEF Next

LEMMA Invariance == Spec => []Inv
  BY InitInv, StepInv, PTL DEF Spec

----------------------------------------------------------------------------
(* The theorems.                                                           *)

\* Every variable keeps its type, whatever the order of polls, requests and
\* deletions: in particular nothing is enabled or stale that has no row.
THEOREM TypeCorrect == Spec => []TypeOK
  <1>1. Inv => TypeOK
    BY DEF Inv
  <1> QED
    BY Invariance, <1>1, PTL

\* The switch log is a chain (perform_switch under _switch_lock): each row
\* starts where the one before it ended, and the newest ends with the active
\* account, but for the three ways the identity changes without a row.
THEOREM TheLogChains == Spec => []LogChains
  <1>1. Inv => LogChains
    BY DEF Inv
  <1> QED
    BY Invariance, <1>1, PTL

=============================================================================
