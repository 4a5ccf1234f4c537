----------------------- MODULE TokenRefresh_proofs -----------------------
(***************************************************************************)
(* For any number of ticks, revalidations and tokens and under every       *)
(* failure: the only steps that lose the accepted token and the only ones  *)
(* that get its family revoked are those LossPoints and RevocationPoints   *)
(* name.  Both rest on one invariant: the refresh lock has one user, and   *)
(* what that user holds agrees with the server and with the vault.         *)
(* At the end, the back-off of those refreshes: a deletion forgets it.     *)
(***************************************************************************)
EXTENDS TokenRefresh, TLAPS

\* The steps between the acquire and the release of the refresh lock.
LockOK == \A r \in Refreshers : pc[r] \in {"read", "post", "save"} <=> flock = r

\* No token is newer than the last one minted.
BoundOK ==
  /\ live # None => live <= issued
  /\ std # None => std <= issued
  /\ vault # None => vault.tok <= issued
  /\ \A r \in Refreshers : tok[r] # None => tok[r] <= issued

\* What is about to be saved is the accepted token, which the CLI cannot have.
SaveOK ==
  \A r \in Refreshers : pc[r] = "save" =>
    tok[r] \in Gen /\ live \in {tok[r], None} /\ (live # None => std # live)

\* A revalidation that no swap has overtaken works on an account that is not
\* active, and presents what is still in the vault.
UncrossedOK ==
  /\ active <=> std # None
  /\ \A r \in Revalidators \ crossed :
       /\ pc[r] # "idle" => ~active
       /\ pc[r] = "post" => vault # None /\ tok[r] = vault.tok

IInv == TypeOK /\ LockOK /\ BoundOK /\ SaveOK /\ UncrossedOK

USE TokenConstantsOK, TokenBlobOK
    DEF Refreshers, At, Goto, entries, server, mine, Blob, Gen, Stale, PCs

LEMMA InitInv ==
  ASSUME Init
  PROVE  IInv
<1>1. /\ pc \in [Refreshers -> PCs] /\ tok \in [Refreshers -> Gen \cup {None}]
      /\ row \in [Refreshers -> Stale] /\ verdict \in [Pollers -> Stale]
  BY DEF Init
<1>2. /\ vault \in Blob /\ live \in Gen /\ issued \in Gen /\ stale \in Stale
      /\ fails \in 0..EscalateAfter - 1
  BY DEF Init
<1>3. TypeOK
  BY <1>1, <1>2 DEF Init, TypeOK
<1>4. \A r \in Refreshers : pc[r] = "idle" /\ flock # r /\ tok[r] = None
  BY DEF Init
<1> QED BY <1>3, <1>4 DEF Init, IInv, LockOK, BoundOK, SaveOK, UncrossedOK

\* The end of a refresh, whatever its outcome: the refresher leaves the lock's
\* control points, a revalidation for good.
LEMMA ReleaseFact ==
  ASSUME IInv, NEW r \in Refreshers, NEW p \in {"apply", "refetch"},
         NEW reason \in Stale, Release(r, p, reason)
  PROVE  /\ flock' = None
         /\ tok' = [tok EXCEPT ![r] = None]
         /\ \E q \in {"apply", "refetch", "idle"} : pc' = [pc EXCEPT ![r] = q]
         /\ r \in Revalidators => pc'[r] = "idle"
         /\ stale' \in Stale /\ row' \in [Refreshers -> Stale]
         /\ verdict' \in [Pollers -> Stale]
         /\ crossed' \subseteq Refreshers /\ crossed \ {r} \subseteq crossed'
  BY DEF Release, Commit, Forget, IInv, TypeOK

\* Steps of the tick outside the lock touch no token but the tick's own.
LEMMA TickStep ==
  ASSUME IInv, NEW p \in Pollers, TickStart(p) \/ Poll(p)
  PROVE  IInv'
<1>1. /\ UNCHANGED <<entries, server, flock, fails>>
      /\ pc[p] \notin {"wait", "read", "post", "save"}
  BY DEF TickStart, Poll, Probe, Fetch, Refetch, Apply
<1>2. /\ \E q \in PCs \ {"read", "post", "save"} : pc' = [pc EXCEPT ![p] = q]
      /\ crossed' \in {crossed, crossed \ {p}}
      /\ row' \in [Refreshers -> Stale] /\ verdict' \in [Pollers -> Stale] /\ stale' \in Stale
  BY DEF TickStart, Poll, Probe, Fetch, Refetch, Apply, Conclude, Commit, Forget, IInv, TypeOK
<1>3. \/ tok' = tok
      \/ vault # None /\ tok' = [tok EXCEPT ![p] = vault.tok]
  BY DEF TickStart, Poll, Probe, Fetch, Refetch, Apply, Reads
<1>4. TypeOK'
  BY <1>1, <1>2, <1>3 DEF IInv, TypeOK
<1>5. LockOK' /\ BoundOK'
  BY <1>1, <1>2, <1>3 DEF IInv, TypeOK, LockOK, BoundOK
<1>6. SaveOK' /\ UncrossedOK'
  BY <1>1, <1>2, <1>3 DEF IInv, TypeOK, SaveOK, UncrossedOK
<1> QED BY <1>4, <1>5, <1>6 DEF IInv

LEMMA RevalidateStep ==
  ASSUME IInv, NEW r \in Revalidators, Revalidate(r)
  PROVE  IInv'
<1>1. TypeOK'
  BY DEF IInv, TypeOK, Revalidate
<1>2. LockOK' /\ BoundOK' /\ SaveOK' /\ UncrossedOK'
  BY DEF IInv, TypeOK, LockOK, BoundOK, SaveOK, UncrossedOK, Revalidate
<1> QED BY <1>1, <1>2 DEF IInv

LEMMA AcquireStep ==
  ASSUME IInv, NEW r \in Refreshers, Acquire(r)
  PROVE  IInv'
<1>1. TypeOK'
  BY DEF IInv, TypeOK, Acquire
<1>2. LockOK' /\ BoundOK' /\ SaveOK' /\ UncrossedOK'
  BY DEF IInv, TypeOK, LockOK, BoundOK, SaveOK, UncrossedOK, Acquire
<1> QED BY <1>1, <1>2 DEF IInv

LEMMA ReadStep ==
  ASSUME IInv, NEW r \in Revalidators, Read(r)
  PROVE  IInv'
<1>1. PICK b \in {vault, None} :
        IF b = None THEN Release(r, "apply", "relogin")
        ELSE tok' = [tok EXCEPT ![r] = b.tok] /\ Goto(r, "post") /\ UNCHANGED <<flock, stale, mine>>
  BY DEF Read, Reads
<1>2. UNCHANGED <<entries, server, fails>> /\ flock = r
  BY DEF Read, IInv, LockOK
<1>3. CASE b = None
  BY <1>1, <1>2, <1>3, ReleaseFact DEF IInv, TypeOK, LockOK, BoundOK, SaveOK, UncrossedOK
<1>4. CASE b # None
  BY <1>1, <1>2, <1>4 DEF IInv, TypeOK, LockOK, BoundOK, SaveOK, UncrossedOK
<1> QED BY <1>3, <1>4

LEMMA PostAcceptedStep ==
  ASSUME IInv, NEW r \in Refreshers, PostAccepted(r)
  PROVE  IInv'
<1>1. /\ issued' = issued + 1 /\ issued' \in Gen /\ live' = issued'
      /\ tok' = [tok EXCEPT ![r] = issued'] /\ pc' = [pc EXCEPT ![r] = "save"]
      /\ UNCHANGED <<entries, flock, fails, stale, mine>> /\ flock = r
  BY DEF PostAccepted, Mint, IInv, TypeOK, LockOK
<1>2. TypeOK'
  BY <1>1 DEF IInv, TypeOK
<1>3. LockOK' /\ BoundOK'
  BY <1>1 DEF IInv, TypeOK, LockOK, BoundOK
<1>4. SaveOK' /\ UncrossedOK'
  BY <1>1 DEF IInv, TypeOK, LockOK, BoundOK, SaveOK, UncrossedOK
<1> QED BY <1>2, <1>3, <1>4 DEF IInv

LEMMA PostRejectedStep ==
  ASSUME IInv, NEW r \in Refreshers, PostRejected(r)
  PROVE  IInv'
<1>1. /\ live' = None /\ fails' = 0 /\ UNCHANGED <<entries, issued>>
      /\ Release(r, "apply", "relogin") /\ flock = r
  BY DEF PostRejected, IInv, LockOK
<1> QED BY <1>1, ReleaseFact DEF IInv, TypeOK, LockOK, BoundOK, SaveOK, UncrossedOK

LEMMA PostFailedStep ==
  ASSUME IInv, NEW r \in Refreshers, PostFailed(r)
  PROVE  IInv'
<1>1. PICK f \in 0..EscalateAfter - 1, s \in Stale : fails' = f /\ Release(r, "apply", s)
  BY DEF PostFailed, Transient, IInv, TypeOK
<1>2. UNCHANGED entries /\ flock = r /\ (UNCHANGED server \/ Mint)
  BY DEF PostFailed, IInv, LockOK
<1>3. /\ live' \in Gen \cup {None} /\ issued' \in Gen /\ issued <= issued'
      /\ live' # None => live' <= issued'
  BY <1>2 DEF Mint, IInv, TypeOK, BoundOK
<1> QED BY <1>1, <1>2, <1>3, ReleaseFact DEF IInv, TypeOK, LockOK, BoundOK, SaveOK, UncrossedOK

\* A save writes the new token, or its write fails.
LEMMA SaveWrites ==
  ASSUME IInv, NEW r \in Refreshers, Save(r)
  PROVE  \/ vault' \in {vault, None}
         \/ vault' \in Blob /\ vault'.tok = tok[r]
<1>1. PICK l \in BOOLEAN : vault' \in {vault, None, [tok |-> tok[r], label |-> l]}
  <2>1. PICK cur \in Reads(vault) :
          vault' \in {vault, None, [tok |-> tok[r], label |-> cur \in Labelled]}
    BY DEF Save
  <2>2. CASE cur \in Labelled
    <3>1. (cur \in Labelled) = TRUE
      BY <2>2
    <3> QED BY <2>1, <3>1
  <2>3. CASE cur \notin Labelled
    <3>1. (cur \in Labelled) = FALSE
      BY <2>3
    <3> QED BY <2>1, <3>1
  <2> QED BY <2>2, <2>3
<1>2. tok[r] \in Gen
  BY DEF Save, IInv, SaveOK
<1> QED BY <1>1, <1>2

LEMMA SaveStep ==
  ASSUME IInv, NEW r \in Refreshers, Save(r)
  PROVE  IInv'
<1>1. /\ fails' = 0 /\ Release(r, "refetch", None) /\ UNCHANGED <<std, active, server>>
      /\ flock = r
  BY DEF Save, IInv, LockOK
<1>2. tok[r] \in Gen /\ tok[r] <= issued
  BY DEF Save, IInv, SaveOK, BoundOK
<1> QED BY <1>1, <1>2, SaveWrites, ReleaseFact DEF IInv, TypeOK, LockOK, BoundOK, SaveOK, UncrossedOK

LEMMA SwapStep ==
  ASSUME IInv, Activate \/ Deactivate \/ CliRotate \/ Crash
  PROVE  IInv'
<1>1. CASE Activate
  BY <1>1 DEF Activate, IInv, TypeOK, LockOK, BoundOK, SaveOK, UncrossedOK
<1>2. CASE Deactivate
  <2>1. /\ std' = None /\ active /\ active' = FALSE
        /\ UNCHANGED <<server, flock, fails, stale, pc, tok, mine>>
    BY <1>2 DEF Deactivate
  <2>2. std # None => vault' \in Blob /\ vault'.tok = std
    BY <1>2 DEF Deactivate, IInv, TypeOK
  <2>3. vault' \in Blob /\ vault'.tok \in 0..issued
    BY <2>1, <2>2 DEF IInv, TypeOK, BoundOK, UncrossedOK
  <2>4. TypeOK' /\ LockOK'
    BY <2>1, <2>3 DEF IInv, TypeOK, LockOK
  <2>5. BoundOK'
    BY <2>1, <2>3 DEF IInv, TypeOK, BoundOK
  <2>6. SaveOK'
    BY <2>1 DEF IInv, TypeOK, SaveOK
  <2>7. UncrossedOK'
    BY <2>1 DEF IInv, TypeOK, UncrossedOK
  <2> QED BY <2>4, <2>5, <2>6, <2>7 DEF IInv
<1>3. CASE CliRotate
  BY <1>3 DEF CliRotate, Mint, IInv, TypeOK, LockOK, BoundOK, SaveOK, UncrossedOK
<1>4. CASE Crash
  BY <1>4 DEF Crash, IInv, TypeOK, LockOK, BoundOK, SaveOK, UncrossedOK
<1> QED BY <1>1, <1>2, <1>3, <1>4

LEMMA StepInv ==
  ASSUME IInv, [Next]_vars
  PROVE  IInv'
<1>1. CASE UNCHANGED vars
  BY <1>1 DEF vars, IInv, TypeOK, LockOK, BoundOK, SaveOK, UncrossedOK
<1>2. CASE \E r \in Refreshers : Refresh(r)
  BY <1>2, AcquireStep, PostAcceptedStep, PostRejectedStep, PostFailedStep, SaveStep DEF Refresh
<1>3. CASE \E p \in Pollers : TickStart(p) \/ Poll(p)
  BY <1>3, TickStep
<1>4. CASE \E r \in Revalidators : Revalidate(r) \/ Read(r)
  BY <1>4, RevalidateStep, ReadStep
<1>5. CASE Activate \/ Deactivate \/ CliRotate \/ Crash
  BY <1>5, SwapStep
<1> QED BY <1>1, <1>2, <1>3, <1>4, <1>5 DEF Next

LEMMA Invariance == Spec => []IInv
  BY InitInv, StepInv, PTL DEF Spec

\* The tokens, the counters, the lock and every control point stay in range.
THEOREM TypeCorrect == Spec => []TypeOK
<1>1. IInv => TypeOK
  BY DEF IInv
<1> QED BY <1>1, Invariance, PTL

----------------------------------------------------------------------------
(* Who gets the family revoked.                                            *)

\* One step of RevocationPoints.
Revoked ==
  FamilyAlive /\ ~FamilyAlive' =>
    \/ ~Held
    \/ \E p \in Pollers : At(p, "post") /\ tok[p] # live
    \/ \E r \in crossed : At(r, "post") /\ tok[r] # live
    \/ std \notin {None, live}

\* A rejected refresh of a revalidation that no swap has overtaken: it holds
\* the lock and presents what is in the vault, so nobody has the accepted token.
LEMMA RejectedPoint ==
  ASSUME IInv, NEW r \in Refreshers, PostRejected(r)
  PROVE  Revoked
<1>1. pc[r] = "post" /\ tok[r] # live /\ flock = r
  BY DEF PostRejected, IInv, LockOK
<1>2. CASE r \in Pollers \/ r \in crossed
  BY <1>1, <1>2 DEF Revoked
<1>3. CASE r \in Revalidators \ crossed
  <2>1. tok[r] = vault.tok /\ vault # None /\ std = None
    BY <1>1, <1>3 DEF IInv, UncrossedOK
  <2>2. \A q \in Refreshers : pc[q] # "save"
    BY <1>1 DEF IInv, LockOK
  <2> QED BY <1>1, <2>1, <2>2 DEF Revoked, Held, FamilyAlive
<1> QED BY <1>2, <1>3

LEMMA RevokedStep ==
  ASSUME IInv, [Next]_vars
  PROVE  Revoked
<1>1. CASE \E r \in Refreshers : PostRejected(r)
  BY <1>1, RejectedPoint
<1>2. CASE CliRotate
  BY <1>2 DEF CliRotate, Mint, Revoked, FamilyAlive, IInv, TypeOK
<1>3. CASE \E r \in Refreshers : PostAccepted(r) \/ PostFailed(r)
  BY <1>3 DEF PostAccepted, PostFailed, Mint, Revoked, FamilyAlive, IInv, TypeOK
<1>4. CASE UNCHANGED live
  BY <1>4 DEF Revoked, FamilyAlive
<1>5. \/ \E r \in Refreshers : PostRejected(r) \/ PostAccepted(r) \/ PostFailed(r)
      \/ CliRotate
      \/ UNCHANGED live
  BY DEF Next, vars, Refresh, Acquire, Save, TickStart, Poll, Probe, Fetch, Refetch, Apply,
         Revalidate, Read, Activate, Deactivate, Crash
<1> QED BY <1>1, <1>2, <1>3, <1>4, <1>5

\* Whatever fails, and however ticks, revalidations, swaps and the CLI
\* interleave: only a tick, a revalidation a swap has overtaken, or the CLI
\* after such a one, presents a used token while the accepted one is in store.
THEOREM OnlyNamedRevocations == Spec => RevocationPoints
<1>1. IInv /\ [Next]_vars => Revoked
  BY RevokedStep
<1>2. UNCHANGED vars => Revoked
  BY DEF vars, Revoked, FamilyAlive
<1> QED BY <1>1, <1>2, Invariance, PTL DEF Spec, RevocationPoints, Revoked

----------------------------------------------------------------------------
(* Where the accepted token gets lost.                                     *)

\* One step of LossPoints.
Lost ==
  Held /\ ~Held' /\ live' # None =>
    \/ \E r \in Refreshers : At(r, "save") /\ vault' \in {vault, None}
    \/ \E r \in Refreshers : At(r, "post") /\ Mint
    \/ Crash
    \/ active /\ ~active' /\ std # live

\* A step that leaves the entries and the server alone keeps what is held,
\* unless it takes a refresher away from its save.
LEMMA KeepsHeld ==
  ASSUME UNCHANGED <<entries, server>>,
         \A r \in Refreshers : pc[r] = "save" => pc'[r] = "save" /\ tok'[r] = tok[r]
  PROVE  Lost
  BY DEF Lost, Held

LEMMA SaveLoses ==
  ASSUME IInv, NEW r \in Refreshers, Save(r)
  PROVE  Lost
<1>1. UNCHANGED <<std, server>> /\ pc[r] = "save"
  BY DEF Save
<1>2. live' # None => tok[r] = live'
  BY <1>1 DEF IInv, SaveOK
<1>3. CASE vault' \in {vault, None}
  BY <1>1, <1>3 DEF Lost
<1>4. CASE vault' \in Blob /\ vault'.tok = tok[r]
  BY <1>2, <1>4 DEF Lost, Held
<1> QED BY <1>3, <1>4, SaveWrites

LEMMA RefreshLoses ==
  ASSUME IInv, NEW r \in Refreshers, Refresh(r)
  PROVE  Lost
<1>1. CASE Acquire(r)
  BY <1>1, KeepsHeld DEF Acquire, IInv, TypeOK
<1>2. CASE PostAccepted(r)
  <2>1. pc'[r] = "save" /\ tok'[r] = live'
    BY <1>2 DEF PostAccepted, Mint, IInv, TypeOK
  <2> QED BY <2>1 DEF Lost, Held
<1>3. CASE PostRejected(r)
  BY <1>3 DEF PostRejected, Lost
<1>4. CASE PostFailed(r)
  <2>1. CASE Mint
    BY <1>4, <2>1 DEF PostFailed, Lost
  <2>2. CASE UNCHANGED server
    <3>1. UNCHANGED entries /\ pc[r] = "post"
      BY <1>4 DEF PostFailed
    <3>2. \A q \in Refreshers \ {r} : pc'[q] = pc[q] /\ tok'[q] = tok[q]
      BY <1>4 DEF PostFailed, Transient, Release, Forget, IInv, TypeOK
    <3> QED BY <2>2, <3>1, <3>2, KeepsHeld
  <2> QED BY <1>4, <2>1, <2>2 DEF PostFailed
<1>5. CASE Save(r)
  BY <1>5, SaveLoses
<1> QED BY <1>1, <1>2, <1>3, <1>4, <1>5 DEF Refresh

\* The tick and the revalidation outside the refresh itself.
LEMMA QuietLoses ==
  ASSUME IInv, NEW r \in Refreshers,
         \/ r \in Pollers /\ (TickStart(r) \/ Poll(r))
         \/ r \in Revalidators /\ (Revalidate(r) \/ Read(r))
  PROVE  Lost
<1>1. UNCHANGED <<entries, server>> /\ pc[r] # "save"
  BY DEF TickStart, Poll, Probe, Fetch, Refetch, Apply, Revalidate, Read
<1>2. \A q \in Refreshers \ {r} : pc'[q] = pc[q] /\ tok'[q] = tok[q]
  BY DEF TickStart, Poll, Probe, Fetch, Refetch, Apply, Conclude, Forget, Revalidate, Read,
         Release, IInv, TypeOK
<1> QED BY <1>1, <1>2, KeepsHeld

LEMMA SwapLoses ==
  ASSUME IInv, Activate \/ Deactivate \/ CliRotate \/ Crash
  PROVE  Lost
<1>1. CASE Activate
  BY <1>1 DEF Activate, Lost, Held, IInv, TypeOK, UncrossedOK
<1>2. CASE Deactivate
  <2>1. CASE std = live
    <3>1. vault' = [tok |-> std, label |-> TRUE] /\ live' = live /\ std \in Gen \cup {None}
      BY <1>2 DEF Deactivate, IInv, TypeOK
    <3>2. live' # None => vault' \in Blob /\ vault'.tok = live'
      BY <2>1, <3>1
    <3> QED BY <3>2 DEF Lost, Held
  <2>2. CASE std # live
    BY <1>2, <2>2 DEF Deactivate, Lost
  <2> QED BY <2>1, <2>2
<1>3. CASE CliRotate
  BY <1>3 DEF CliRotate, Mint, Lost, Held
<1>4. CASE Crash
  BY <1>4 DEF Lost
<1> QED BY <1>1, <1>2, <1>3, <1>4

\* In every interleaving of ticks, revalidations, swaps and the CLI, under every
\* failure, the accepted token is lost by a save whose write fails, an answer
\* that never arrives, a crash, or the checkpoint of a token already spent
\* behind the CLI's back - and by nothing else.
THEOREM OnlyNamedLosses == Spec => LossPoints
<1>1. ASSUME IInv, [Next]_vars
      PROVE  Lost
  <2>1. CASE UNCHANGED vars
    BY <2>1 DEF vars, Lost, Held
  <2>2. CASE \E r \in Refreshers : Refresh(r)
    BY <1>1, <2>2, RefreshLoses
  <2>3. CASE \E p \in Pollers : TickStart(p) \/ Poll(p)
    BY <1>1, <2>3, QuietLoses
  <2>4. CASE \E r \in Revalidators : Revalidate(r) \/ Read(r)
    BY <1>1, <2>4, QuietLoses
  <2>5. CASE Activate \/ Deactivate \/ CliRotate \/ Crash
    BY <1>1, <2>5, SwapLoses
  <2> QED BY <1>1, <2>1, <2>2, <2>3, <2>4, <2>5 DEF Next
<1> QED BY <1>1, Invariance, PTL DEF Spec, LossPoints, Lost
----------------------------------------------------------------------------
(* The back-off of the same refreshes.  Its model is instantiated here, and *)
(* what is proved holds for every value of its constants.                   *)

CONSTANTS
  Ceiling,    \* _TRANSIENT_REFRESH_ESCALATE_AFTER_SECONDS
  BackoffMax  \* _BACKOFF_MAX

VARIABLES wait, count, age, reason, seen, place, dead, step, orphans, helped, leaked

Ladder == INSTANCE TransientLadder WITH stale <- reason, pc <- step

\* The parts of the type invariant that the argument needs.
LadderTypes ==
  /\ count \in 0..(EscalateAfter - 1) /\ leaked \in BOOLEAN
  /\ place \in {"vault", "active", "gone"}
  /\ step \in [Ladder!Callers -> {"idle", "queued", "post"}]
  /\ orphans \subseteq Ladder!Callers

\* Whoever refreshes for an account that is gone began before its deletion.
OrphansOK ==
  place = "gone" => \A c \in Ladder!Callers : step[c] # "idle" => c \in orphans

LadderInv == LadderTypes /\ OrphansOK /\ Ladder!Forgotten

LEMMA NoneYet == 0 \in 0..(EscalateAfter - 1)
<1>1. EscalateAfter \in Nat /\ EscalateAfter # 0
  OBVIOUS
<1> QED BY <1>1

\* A caller that is done leaves the others and what they refresh alone.
LEMMA LeaveFact ==
  ASSUME LadderTypes, OrphansOK, NEW c \in Ladder!Callers, Ladder!Leave(c),
         place' = place
  PROVE  /\ step' \in [Ladder!Callers -> {"idle", "queued", "post"}]
         /\ orphans' \subseteq Ladder!Callers
         /\ OrphansOK'
<1>1. step' = [step EXCEPT ![c] = "idle"] /\ orphans' = orphans \ {c}
  BY DEF Ladder!Leave, Ladder!Goto
<1>2. step' \in [Ladder!Callers -> {"idle", "queued", "post"}]
      /\ orphans' \subseteq Ladder!Callers
  BY <1>1 DEF LadderTypes
<1>3. ASSUME NEW d \in Ladder!Callers, place = "gone", step'[d] # "idle"
      PROVE  d \in orphans'
  <2>1. d # c /\ step[d] # "idle"
    BY <1>1, <1>3 DEF LadderTypes
  <2> QED BY <1>1, <1>3, <2>1 DEF OrphansOK
<1> QED BY <1>2, <1>3 DEF OrphansOK

\* What an answer does to the counter: it is dropped, kept, or climbs by one
\* short of the escalation - and an orphan's step up is on record.
LEMMA AnswerCounts ==
  ASSUME LadderTypes, NEW c \in Ladder!Callers,
         Ladder!Answered(c) \/ (c = "revalidation" /\ Ladder!NoToken)
  PROVE  /\ Ladder!At(c, "post") /\ Ladder!Leave(c) /\ place' = place
         /\ count' \in 0..(EscalateAfter - 1) /\ leaked' \in BOOLEAN
         /\ \/ count' = 0
            \/ count' = count /\ leaked' = leaked
            \/ leaked' = (leaked \/ c \in orphans)
<1>1. CASE Ladder!Succeeds(c) \/ Ladder!Rejected(c)
  BY <1>1, NoneYet DEF Ladder!Succeeds, Ladder!Rejected, Ladder!Reset
<1>2. CASE Ladder!Malformed(c)
  BY <1>2 DEF Ladder!Malformed, Ladder!ladder, LadderTypes
<1>3. CASE c = "revalidation" /\ Ladder!NoToken
  BY <1>3 DEF Ladder!NoToken, Ladder!ladder, LadderTypes
<1>4. CASE Ladder!Fails(c)
  <2>1. Ladder!At(c, "post") /\ Ladder!Leave(c) /\ place' = place
    BY <1>4 DEF Ladder!Fails
  <2>2. CASE Ladder!Escalates
    BY <1>4, <2>1, <2>2, NoneYet DEF Ladder!Fails, Ladder!Reset
  <2>3. CASE ~Ladder!Escalates
    <3>1. count' = count + 1 /\ leaked' = (leaked \/ c \in orphans)
      BY <1>4, <2>3 DEF Ladder!Fails, Ladder!Climb
    <3>2. count + 1 < EscalateAfter
      BY <2>3 DEF Ladder!Escalates, LadderTypes
    <3> QED BY <2>1, <3>1, <3>2 DEF LadderTypes
  <2> QED BY <2>2, <2>3
<1> QED BY <1>1, <1>2, <1>3, <1>4 DEF Ladder!Answered

LEMMA AnswerForgets ==
  ASSUME LadderInv, NEW c \in Ladder!Callers,
         Ladder!Answered(c) \/ (c = "revalidation" /\ Ladder!NoToken)
  PROVE  LadderInv'
<1>1. LadderTypes /\ OrphansOK /\ Ladder!Forgotten
  BY DEF LadderInv
<1>2. Ladder!At(c, "post") /\ Ladder!Leave(c) /\ place' = place
  BY <1>1, AnswerCounts
<1>3. LadderTypes' /\ OrphansOK'
  BY <1>1, <1>2, AnswerCounts, LeaveFact DEF LadderTypes
<1>4. ASSUME place' = "gone", count' # 0
      PROVE  leaked'
  <2>1. c \in orphans
    BY <1>1, <1>2, <1>4 DEF OrphansOK, Ladder!At
  <2> QED BY <1>1, <1>2, <1>4, <2>1, AnswerCounts DEF Ladder!Forgotten
<1>5. Ladder!Forgotten'
  BY <1>4 DEF Ladder!Forgotten
<1> QED BY <1>3, <1>5 DEF LadderInv

\* A refresh begins only for an account that is in the vault, and moves on only
\* if it has begun.
LEMMA BeginForgets ==
  ASSUME LadderInv, NEW c \in Ladder!Callers,
         \/ c = "poll" /\ Ladder!Poll
         \/ c = "revalidation" /\ Ladder!Revalidate
         \/ Ladder!Post(c)
  PROVE  LadderInv'
<1>1. PICK p \in {"queued", "post"} :
        /\ step' = [step EXCEPT ![c] = p]
        /\ p = "post" => step[c] = "queued"
        /\ p = "queued" => place = "vault"
  BY DEF Ladder!Poll, Ladder!Revalidate, Ladder!Post, Ladder!Goto, Ladder!At
<1>2. UNCHANGED <<count, leaked, place, orphans>>
  BY DEF Ladder!Poll, Ladder!Revalidate, Ladder!Post, Ladder!ladder, Ladder!row
<1>3. LadderTypes' /\ Ladder!Forgotten'
  BY <1>1, <1>2 DEF LadderInv, LadderTypes, Ladder!Forgotten
<1>4. ASSUME NEW d \in Ladder!Callers, place' = "gone", step'[d] # "idle"
      PROVE  d \in orphans'
  <2>1. step[d] # "idle"
    BY <1>1, <1>2, <1>4 DEF LadderInv, LadderTypes
  <2> QED BY <1>2, <1>4, <2>1 DEF LadderInv, OrphansOK
<1> QED BY <1>3, <1>4 DEF LadderInv, OrphansOK

\* The steps that leave callers and counter alone, and have an account at most
\* change its place among those that are not gone.
LEMMA QuietForgets ==
  ASSUME LadderInv, UNCHANGED <<count, leaked, step, orphans>>,
         place' \in {"vault", "active"} \/ place' = place
  PROVE  LadderInv'
BY DEF LadderInv, LadderTypes, OrphansOK, Ladder!Forgotten

LEMMA EndForgets ==
  ASSUME LadderInv, Ladder!Delete \/ Ladder!Restart
  PROVE  LadderInv'
<1>1. count' = 0 /\ leaked' = FALSE
  BY DEF Ladder!Delete, Ladder!Restart, Ladder!Reset
<1>2. CASE Ladder!Delete
  <2>1. place' = "gone" /\ step' = step
        /\ orphans' = {c \in Ladder!Callers : step[c] # "idle"}
    BY <1>2 DEF Ladder!Delete, Ladder!At
  <2> QED BY <1>1, <2>1, NoneYet DEF LadderInv, LadderTypes, OrphansOK, Ladder!Forgotten
<1>3. CASE Ladder!Restart
  <2>1. place' = place /\ step' = [c \in Ladder!Callers |-> "idle"] /\ orphans' = {}
    BY <1>3 DEF Ladder!Restart, Ladder!row
  <2> QED BY <1>1, <2>1, NoneYet DEF LadderInv, LadderTypes, OrphansOK, Ladder!Forgotten
<1> QED BY <1>2, <1>3

\* A deleted account leaves no failures behind for one that is added again
\* under its name, unless a refresh of it was under way: in every interleaving
\* of ticks, revalidations, deletions and restarts, whatever the thresholds.
THEOREM FailuresForgotten == Ladder!Spec => []Ladder!Forgotten
<1>1. Ladder!Init => LadderInv
  BY NoneYet DEF Ladder!Init, LadderInv, LadderTypes, OrphansOK, Ladder!Forgotten
<1>2. ASSUME LadderInv, [Ladder!Next]_(Ladder!vars)
      PROVE  LadderInv'
  <2>1. CASE UNCHANGED Ladder!vars
    BY <1>2, <2>1, QuietForgets DEF Ladder!vars, Ladder!ladder, Ladder!row, Ladder!calls
  <2>2. CASE Ladder!Poll \/ Ladder!Revalidate \/ \E c \in Ladder!Callers : Ladder!Post(c)
    BY <1>2, <2>2, BeginForgets DEF Ladder!Callers
  <2>3. CASE Ladder!NoToken \/ \E c \in Ladder!Callers : Ladder!Answered(c)
    BY <1>2, <2>3, AnswerForgets DEF Ladder!Callers
  <2>4. CASE Ladder!PollNoToken \/ Ladder!PollClears \/ Ladder!ProbeClears \/ Ladder!Relogin
    BY <1>2, <2>4, QuietForgets
       DEF Ladder!PollNoToken, Ladder!PollClears, Ladder!ProbeClears, Ladder!Relogin,
           Ladder!ladder, Ladder!calls
  <2>5. CASE Ladder!Tick \/ Ladder!Expire
    BY <1>2, <2>5, QuietForgets
       DEF Ladder!Tick, Ladder!Expire, Ladder!ladder, Ladder!row, Ladder!calls
  <2>6. CASE Ladder!Activate \/ Ladder!Deactivate \/ Ladder!Add
    BY <1>2, <2>6, QuietForgets
       DEF Ladder!Activate, Ladder!Deactivate, Ladder!Add, Ladder!ladder, Ladder!calls
  <2>7. CASE Ladder!Delete \/ Ladder!Restart
    BY <1>2, <2>7, EndForgets
  <2> QED BY <1>2, <2>1, <2>2, <2>3, <2>4, <2>5, <2>6, <2>7 DEF Ladder!Next, Ladder!Proceed
<1> QED BY <1>1, <1>2, PTL DEF Ladder!Spec, LadderInv
=============================================================================
