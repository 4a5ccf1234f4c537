------------------------- MODULE VaultSwap_proofs -------------------------
(***************************************************************************)
(* What VaultSwap guarantees for any number of accounts, workers and       *)
(* token generations, whichever operations and faults are allowed: types,  *)
(* credentials that never cross accounts, an identity file that follows    *)
(* the standard entry, and a last token lost at the named places only;     *)
(* and, when lookups, kills and file writes do not fail, an identity and a *)
(* standard entry that agree whenever no swap is under way, crashes        *)
(* included, and deletions that leave nothing behind.                      *)
(***************************************************************************)
EXTENDS VaultSwap, TLAPS

SwapPoints  == {"wait", "load", "ckRead", "ckDel", "ckAdd", "prDel", "prAdd",
                "ident", "file"}
SavePoints  == {"saveWait", "svDel", "svAdd"}
ErasePoints == {"eraseWait", "erVault", "erStd", "erIdent", "erFile", "dropRow"}

\* A worker that carries out an operation knows whose credentials it moves.
JobOK == \A w \in Workers :
  /\ pc[w] \in SwapPoints \cup SavePoints \cup {"saved"} => job[w].target \in Accounts
  /\ pc[w] \in ErasePoints \/ job[w].op = "delete" => job[w].victim \in Accounts
  /\ pc[w] \in SavePoints => job[w].fresh \in Token /\ job[w].fresh.own = job[w].target

\* The lock's holder is the one worker inside the critical section.
LockOK ==
  /\ \A w \in Workers : pc[w] \in Locked <=> lock = w
  /\ phase # "up" => lock = None /\ \A w \in Workers : pc[w] = "idle"

\* A blob of account `a`.
BlobOf(b, a) == b \in Blob /\ b.acct = a /\ Pure(b)

\* The holder's locals are blobs of the accounts they are written for.
LocalsOK == \A w \in Workers :
  /\ pc[w] \in {"ckRead", "ckDel", "ckAdd", "prDel", "prAdd", "ident", "file"}
       => BlobOf(incoming, job[w].target)
  /\ pc[w] \in {"ckDel", "ckAdd"}
       => seen \in Blob /\ seen.acct \in Accounts /\ BlobOf(out, seen.acct)
  /\ pc[w] \in {"prDel", "prAdd"} => out = incoming
  /\ pc[w] \in {"svDel", "svAdd"} => out = FreshBlob(job[w].fresh)
  /\ pc[w] = "ident" => EmailOf(keychain[Standard]) = incoming.acct

\* The startup check acts on the entry that is still there.
FoundOK == phase \in {"seed", "reconcile", "mirror"} =>
  /\ found \in Blob /\ found.acct \in Accounts /\ Pure(found)
  /\ EmailOf(keychain[Standard]) = found.acct

IInv == TypeOK /\ JobOK /\ LockOK /\ LocalsOK /\ FoundOK /\ NoCrossedCredentials

\* Faults that CrashConsistent survives.
Reliable ==
  /\ Faults \cap {"read", "timeout", "file"} = {}
  /\ "delete" \in Faults => "delete" \notin Ops

\* Only between steps 3 and 4 do identity and standard entry disagree.
AgreeOK ==
  /\ phase = "up" /\ (\A w \in Workers : pc[w] # "ident")
       => EmailOf(keychain[Standard]) \in {None, identity}
  /\ phase = "mirror" => identity = found.acct
  /\ \A w \in Workers : job[w].op \in Ops \cup {None}
  /\ \A w \in Workers : pc[w] \in ErasePoints => job[w].op = "delete"
  /\ \A w \in Workers : pc[w] = "erIdent" => keychain[Standard] = None

----------------------------------------------------------------------------

USE ConstantsOK, BlobOK
    DEF At, Goto, Release, End, Begin, NoJob, locals, server, startup, store,
        PCs, Locked, SwapPoints, SavePoints, ErasePoints, Jobs, OpKinds, Entries

(***************************************************************************)
(* What a Keychain primitive may leave and return.                         *)
(***************************************************************************)
LEMMA ReadsFact ==
  ASSUME NEW e, NEW r \in Reads(e)
  PROVE  r \in {keychain[e], None}
  BY DEF Reads

LEMMA DeleteFact ==
  ASSUME NEW e, NEW o \in DeleteOutcomes(e)
  PROVE  o.left \in {None, keychain[e]} /\ o.ok \in BOOLEAN
  BY DEF DeleteOutcomes

LEMMA AddFact ==
  ASSUME NEW e, NEW b, NEW o \in AddOutcomes(e, b)
  PROVE  /\ o.left \in {None, keychain[e], b} /\ o.ok \in BOOLEAN
         /\ o.ok => o.left = b
  BY DEF AddOutcomes

LEMMA EraseFact ==
  ASSUME NEW e, NEW r \in EraseOutcomes(e)
  PROVE  r \in {keychain[e], None}
  BY DEF EraseOutcomes

LEMMA FreshFact ==
  ASSUME NEW t \in Token
  PROVE  BlobOf(FreshBlob(t), t.own)
  BY DEF FreshBlob, BlobOf, Blob, Token, Pure

\* A merge of two blobs of account `a` is a blob of account `a`.
LEMMA MergeFact ==
  ASSUME NEW a \in Accounts, NEW cur, BlobOf(cur, a), NEW prev,
         prev = None \/ BlobOf(prev, a)
  PROVE  BlobOf(Merge(cur, prev), a)
  BY DEF Merge, BlobOf, Blob, Pure

(***************************************************************************)
(* Every action keeps the invariant.  CONTROL is what a worker knows and   *)
(* who holds the lock, DATA is what the blobs are.                         *)
(***************************************************************************)
LEMMA SwitchRequestStep ==
  ASSUME IInv, NEW w \in Workers, NEW a \in Accounts, SwitchRequest(w, a)
  PROVE  IInv'
<1>1. TypeOK'
  BY DEF SwitchRequest, IInv, TypeOK, JobOK, LockOK, LocalsOK, BlobOf, FoundOK
<1>2. JobOK' /\ LockOK'
  BY DEF SwitchRequest, IInv, TypeOK, JobOK, LockOK
<1>3. LocalsOK' /\ FoundOK' /\ NoCrossedCredentials'
  BY DEF SwitchRequest, IInv, TypeOK, JobOK, LockOK, LocalsOK, FoundOK, NoCrossedCredentials, BlobOf, Pure, EmailOf
<1> QED BY <1>1, <1>2, <1>3 DEF IInv

LEMMA DeleteRequestStep ==
  ASSUME IInv, NEW w \in Workers, NEW a \in Accounts, DeleteRequest(w, a)
  PROVE  IInv'
<1>1. PICK t \in Accounts \cup {None}, p \in {"wait", "eraseWait"} :
        Begin(w, "delete", t, a, None, p) /\ (p = "wait" => t # None)
  BY DEF DeleteRequest, IInv, TypeOK
<1>2. TypeOK'
  BY <1>1 DEF DeleteRequest, IInv, TypeOK, JobOK, LockOK, LocalsOK, BlobOf, FoundOK
<1>3. JobOK' /\ LockOK'
  BY <1>1 DEF DeleteRequest, IInv, TypeOK, JobOK, LockOK
<1>4. LocalsOK' /\ FoundOK' /\ NoCrossedCredentials'
  BY <1>1 DEF DeleteRequest, IInv, TypeOK, JobOK, LockOK, LocalsOK, FoundOK, NoCrossedCredentials, BlobOf, Pure, EmailOf
<1> QED BY <1>2, <1>3, <1>4 DEF IInv

LEMMA LoginRequestStep ==
  ASSUME IInv, NEW w \in Workers, NEW a \in Accounts, LoginRequest(w, a)
  PROVE  IInv'
<1> DEFINE t == [own |-> a, gen |-> issued[a] + 1]
<1>1. t \in Token
  BY DEF LoginRequest, IInv, TypeOK, Token
<1>2. PICK op \in {"login", "relogin"} : Begin(w, op, a, None, t, "saveWait")
  BY DEF LoginRequest
<1>3. valid' = valid \cup {t} /\ issued' = [issued EXCEPT ![a] = t.gen]
  BY DEF LoginRequest
<1>4. t.own = a /\ t.gen \in 0..MaxGen
  BY <1>1 DEF Token
<1> HIDE DEF t
<1>5. TypeOK'
  BY <1>1, <1>2, <1>3, <1>4 DEF IInv, TypeOK
<1>6. JobOK' /\ LockOK'
  BY <1>1, <1>2, <1>4 DEF IInv, TypeOK, JobOK, LockOK
<1>7. LocalsOK' /\ FoundOK' /\ NoCrossedCredentials'
  BY <1>2 DEF IInv, TypeOK, JobOK, LockOK, LocalsOK, FoundOK, NoCrossedCredentials, BlobOf, Pure, EmailOf
<1> QED BY <1>5, <1>6, <1>7 DEF IInv

LEMMA AcquireStep ==
  ASSUME IInv, NEW w \in Workers, Acquire(w)
  PROVE  IInv'
<1>1. phase = "up" /\ lock = None /\ lock' = w
      /\ UNCHANGED <<store, enrolled, server, job, incoming, seen, startup>>
  BY DEF Acquire
<1>2. \/ pc[w] = "wait"      /\ Goto(w, "load")    /\ UNCHANGED out
      \/ pc[w] = "eraseWait" /\ Goto(w, "erVault") /\ UNCHANGED out
      \/ pc[w] = "saveWait"  /\ Goto(w, "svDel")   /\ out' = FreshBlob(job[w].fresh)
  BY DEF Acquire
<1>3. pc[w] = "saveWait" => FreshBlob(job[w].fresh) \in Blob
  BY FreshFact DEF IInv, JobOK, BlobOf
<1>4. TypeOK'
  BY <1>1, <1>2, <1>3 DEF IInv, TypeOK
<1>5. JobOK' /\ LockOK'
  BY <1>1, <1>2 DEF IInv, TypeOK, JobOK, LockOK
<1>6. LocalsOK' /\ FoundOK' /\ NoCrossedCredentials'
  BY <1>1, <1>2 DEF IInv, TypeOK, JobOK, LockOK, LocalsOK, FoundOK, NoCrossedCredentials, BlobOf, Pure, EmailOf
<1> QED BY <1>4, <1>5, <1>6 DEF IInv

LEMMA LoadIncomingStep ==
  ASSUME IInv, NEW w \in Workers, LoadIncoming(w)
  PROVE  IInv'
<1>1. At(w, "load") /\ job[w].target \in Accounts
  BY  DEF LoadIncoming, IInv, TypeOK, JobOK, LockOK, LocalsOK, BlobOf
<1>2. PICK b \in {keychain[job[w].target], None} :
        IF b # None /\ b.tok # None /\ b.acct # None
        THEN incoming' = b /\ Goto(w, "ckRead") /\ UNCHANGED <<job, lock, seen, out>>
        ELSE End(w)
  BY ReadsFact DEF LoadIncoming
<1>3. TypeOK'
  BY <1>1, <1>2 DEF LoadIncoming, IInv, TypeOK, JobOK, LockOK, LocalsOK, BlobOf, FoundOK
<1>4. JobOK' /\ LockOK'
  BY <1>1, <1>2 DEF LoadIncoming, IInv, TypeOK, JobOK, LockOK
<1>5. LocalsOK' /\ FoundOK' /\ NoCrossedCredentials'
  BY <1>1, <1>2 DEF LoadIncoming, IInv, TypeOK, JobOK, LockOK, LocalsOK, FoundOK, NoCrossedCredentials, BlobOf, Pure, EmailOf
<1> QED BY <1>3, <1>4, <1>5 DEF IInv

LEMMA ReadStandardStep ==
  ASSUME IInv, NEW w \in Workers, ReadStandard(w)
  PROVE  IInv'
<1>1. At(w, "ckRead") /\ lock = w /\ BlobOf(incoming, job[w].target)
  BY DEF ReadStandard, IInv, LockOK, LocalsOK
<1>2. PICK cur \in {keychain[Standard], None} :
        /\ seen' = cur
        /\ \/ /\ cur # None /\ cur.acct \in Accounts
              /\ \E prev \in {keychain[cur.acct], None} : out' = Merge(cur, prev)
              /\ Goto(w, "ckDel")
           \/ out' = incoming /\ Goto(w, "prDel")
  BY ReadsFact DEF ReadStandard, EmailOf, IInv, TypeOK, Blob
<1>3. UNCHANGED <<store, enrolled, server, job, lock, incoming, startup>>
  BY DEF ReadStandard
<1>4. cur # None => BlobOf(cur, cur.acct)
  BY <1>2 DEF IInv, TypeOK, NoCrossedCredentials, BlobOf
<1>5. ASSUME cur # None, cur.acct \in Accounts, NEW prev \in {keychain[cur.acct], None}
      PROVE  BlobOf(Merge(cur, prev), cur.acct)
  BY <1>4, <1>5, MergeFact DEF IInv, TypeOK, NoCrossedCredentials, BlobOf
<1>6. \/ Goto(w, "ckDel") /\ cur \in Blob /\ cur.acct \in Accounts /\ BlobOf(out', cur.acct)
      \/ Goto(w, "prDel") /\ out' = incoming
  BY <1>2, <1>4, <1>5 DEF BlobOf
<1>7. TypeOK'
  BY <1>1, <1>2, <1>3, <1>4, <1>6 DEF IInv, TypeOK, BlobOf
<1>8. JobOK' /\ LockOK'
  <2>1. JobOK'
    BY <1>1, <1>3, <1>6 DEF IInv, TypeOK, JobOK
  <2>2. LockOK'
    BY <1>1, <1>3, <1>6 DEF IInv, TypeOK, LockOK
  <2> QED BY <2>1, <2>2
<1>9. LocalsOK' /\ FoundOK' /\ NoCrossedCredentials'
  <2>1. LocalsOK'
    BY <1>1, <1>2, <1>3, <1>6 DEF IInv, TypeOK, LockOK, LocalsOK, BlobOf, EmailOf
  <2>2. FoundOK' /\ NoCrossedCredentials'
    BY <1>1, <1>2, <1>3, <1>6 DEF IInv, TypeOK, LockOK, FoundOK, NoCrossedCredentials, BlobOf, Pure, EmailOf
  <2> QED BY <2>1, <2>2
<1> QED BY <1>7, <1>8, <1>9 DEF IInv

LEMMA CheckpointDeleteStep ==
  ASSUME IInv, NEW w \in Workers, CheckpointDelete(w)
  PROVE  IInv'
<1>1. At(w, "ckDel") /\ seen \in Blob /\ seen.acct \in Accounts
  BY  DEF CheckpointDelete, IInv, TypeOK, JobOK, LockOK, LocalsOK, BlobOf
<1>2. PICK l \in {None, keychain[seen.acct]} :
        /\ keychain' = [keychain EXCEPT ![seen.acct] = l]
        /\ (Goto(w, "ckAdd") /\ UNCHANGED <<job, lock, locals>>) \/ End(w)
  BY DeleteFact DEF CheckpointDelete, WriteDelete
<1>3. TypeOK'
  BY <1>1, <1>2 DEF CheckpointDelete, IInv, TypeOK, JobOK, LockOK, LocalsOK, BlobOf, FoundOK
<1>4. JobOK' /\ LockOK'
  <2>1. JobOK'
    BY <1>1, <1>2 DEF CheckpointDelete, IInv, TypeOK, JobOK
  <2>2. LockOK'
    BY <1>1, <1>2 DEF CheckpointDelete, IInv, TypeOK, LockOK
  <2> QED BY <2>1, <2>2
<1>5. LocalsOK' /\ FoundOK' /\ NoCrossedCredentials'
  BY <1>1, <1>2 DEF CheckpointDelete, IInv, TypeOK, JobOK, LockOK, LocalsOK, FoundOK, NoCrossedCredentials, BlobOf, Pure, EmailOf
<1> QED BY <1>3, <1>4, <1>5 DEF IInv

LEMMA CheckpointAddStep ==
  ASSUME IInv, NEW w \in Workers, CheckpointAdd(w)
  PROVE  IInv'
<1>1. At(w, "ckAdd") /\ seen \in Blob /\ seen.acct \in Accounts /\ BlobOf(out, seen.acct) /\ BlobOf(incoming, job[w].target)
  BY  DEF CheckpointAdd, IInv, TypeOK, JobOK, LockOK, LocalsOK, BlobOf
<1>2. PICK o \in AddOutcomes(seen.acct, out) :
        /\ keychain' = [keychain EXCEPT ![seen.acct] = o.left]
        /\ IF o.ok THEN out' = incoming /\ Goto(w, "prDel") /\ UNCHANGED <<job, lock, incoming, seen>>
                   ELSE End(w)
  BY DEF CheckpointAdd
<1>3. TypeOK'
  <2>1. o.left \in Blob \cup {None}
    BY <1>1, AddFact DEF IInv, TypeOK, BlobOf
  <2>2. keychain' \in [Entries -> Blob \cup {None}]
    BY <1>1, <1>2, <2>1 DEF IInv, TypeOK
  <2>3. /\ pc' \in [Workers -> PCs] /\ job' \in [Workers -> Jobs] /\ lock' \in Workers \cup {None}
        /\ incoming' \in Blob \cup {None} /\ seen' \in Blob \cup {None} /\ out' \in Blob \cup {None}
    <3>1. CASE o.ok
      BY <1>2, <3>1 DEF IInv, TypeOK, PCs
    <3>2. CASE ~o.ok
      BY <1>2, <3>2 DEF End, Release, IInv, TypeOK, PCs, Jobs, NoJob
    <3> QED BY <3>1, <3>2
  <2> QED BY <2>2, <2>3 DEF CheckpointAdd, IInv, TypeOK
<1>4. JobOK' /\ LockOK'
  BY <1>1, <1>2, AddFact DEF CheckpointAdd, IInv, TypeOK, JobOK, LockOK
<1>5. LocalsOK' /\ FoundOK' /\ NoCrossedCredentials'
  BY <1>1, <1>2, AddFact DEF CheckpointAdd, IInv, TypeOK, JobOK, LockOK, LocalsOK, FoundOK, NoCrossedCredentials, BlobOf, Pure, EmailOf
<1> QED BY <1>3, <1>4, <1>5 DEF IInv

LEMMA PromoteDeleteStep ==
  ASSUME IInv, NEW w \in Workers, PromoteDelete(w)
  PROVE  IInv'
<1>1. At(w, "prDel") /\ BlobOf(incoming, job[w].target)
  BY  DEF PromoteDelete, IInv, TypeOK, JobOK, LockOK, LocalsOK, BlobOf
<1>2. PICK l \in {None, keychain[Standard]} :
        /\ keychain' = [keychain EXCEPT ![Standard] = l]
        /\ (Goto(w, "prAdd") /\ UNCHANGED <<job, lock, locals>>) \/ End(w)
  BY DeleteFact DEF PromoteDelete, WriteDelete
<1>3. TypeOK'
  BY <1>1, <1>2 DEF PromoteDelete, IInv, TypeOK, JobOK, LockOK, LocalsOK, BlobOf, FoundOK
<1>4. JobOK' /\ LockOK'
  BY <1>1, <1>2 DEF PromoteDelete, IInv, TypeOK, JobOK, LockOK
<1>5. LocalsOK' /\ FoundOK' /\ NoCrossedCredentials'
  BY <1>1, <1>2 DEF PromoteDelete, IInv, TypeOK, JobOK, LockOK, LocalsOK, FoundOK, NoCrossedCredentials, BlobOf, Pure, EmailOf
<1> QED BY <1>3, <1>4, <1>5 DEF IInv

LEMMA PromoteAddStep ==
  ASSUME IInv, NEW w \in Workers, PromoteAdd(w)
  PROVE  IInv'
<1>1. At(w, "prAdd") /\ BlobOf(out, job[w].target) /\ out = incoming
  BY  DEF PromoteAdd, IInv, TypeOK, JobOK, LockOK, LocalsOK, BlobOf
<1>2. PICK o \in AddOutcomes(Standard, out) :
        /\ keychain' = [keychain EXCEPT ![Standard] = o.left]
        /\ IF o.ok THEN Goto(w, "ident") /\ UNCHANGED <<job, lock, locals>>
                   ELSE End(w)
  BY DEF PromoteAdd
<1>3. TypeOK'
  <2>1. o.left \in {None, keychain[Standard], out} /\ o.left \in Blob \cup {None}
    BY <1>1, AddFact DEF IInv, TypeOK, BlobOf
  <2>2. keychain' \in [Entries -> Blob \cup {None}]
    BY <1>2, <2>1 DEF IInv, TypeOK
  <2> QED BY <1>1, <1>2, <2>2 DEF PromoteAdd, IInv, TypeOK
<1>4. JobOK' /\ LockOK'
  BY <1>1, <1>2, AddFact DEF PromoteAdd, IInv, TypeOK, JobOK, LockOK
<1>5. LocalsOK' /\ FoundOK' /\ NoCrossedCredentials'
  BY <1>1, <1>2, AddFact DEF PromoteAdd, IInv, TypeOK, JobOK, LockOK, LocalsOK, FoundOK, NoCrossedCredentials, BlobOf, Pure, EmailOf
<1> QED BY <1>3, <1>4, <1>5 DEF IInv

LEMMA RewriteIdentityStep ==
  ASSUME IInv, NEW w \in Workers, RewriteIdentity(w)
  PROVE  IInv'
<1>1. TypeOK'
  BY DEF RewriteIdentity, IInv, TypeOK, JobOK, LockOK, LocalsOK, BlobOf, FoundOK
<1>2. JobOK' /\ LockOK'
  BY DEF RewriteIdentity, IInv, TypeOK, JobOK, LockOK
<1>3. LocalsOK' /\ FoundOK' /\ NoCrossedCredentials'
  <2>1. LocalsOK'
    BY DEF RewriteIdentity, IInv, TypeOK, JobOK, LockOK, LocalsOK, BlobOf
  <2>2. FoundOK' /\ NoCrossedCredentials'
    BY DEF RewriteIdentity, IInv, TypeOK, LockOK, LocalsOK, FoundOK, NoCrossedCredentials, BlobOf, Pure, EmailOf
  <2> QED BY <2>1, <2>2
<1> QED BY <1>1, <1>2, <1>3 DEF IInv

LEMMA WriteFallbackStep ==
  ASSUME IInv, NEW w \in Workers, WriteFallback(w)
  PROVE  IInv'
<1>1. TypeOK'
  <2>1. fallback' \in Blob \cup {None}
    BY DEF WriteFallback, IInv, TypeOK
  <2>2. End(w) \/ (Release(w, "eraseWait") /\ UNCHANGED job)
    BY DEF WriteFallback
  <2>3. /\ pc' \in [Workers -> PCs] /\ job' \in [Workers -> Jobs] /\ lock' \in Workers \cup {None}
        /\ incoming' \in Blob \cup {None} /\ seen' \in Blob \cup {None} /\ out' \in Blob \cup {None}
    <3>1. CASE End(w)
      BY <3>1 DEF End, Release, IInv, TypeOK, PCs, Jobs, NoJob
    <3>2. CASE Release(w, "eraseWait") /\ UNCHANGED job
      BY <3>2 DEF Release, IInv, TypeOK, PCs
    <3> QED BY <2>2, <3>1, <3>2
  <2> QED BY <2>1, <2>3 DEF WriteFallback, IInv, TypeOK
<1>2. JobOK' /\ LockOK'
  BY DEF WriteFallback, IInv, TypeOK, JobOK, LockOK
<1>3. LocalsOK' /\ FoundOK' /\ NoCrossedCredentials'
  <2>1. LocalsOK'
    BY DEF WriteFallback, IInv, TypeOK, JobOK, LockOK, LocalsOK, BlobOf
  <2>2. FoundOK' /\ NoCrossedCredentials'
    BY DEF WriteFallback, IInv, TypeOK, LockOK, LocalsOK, FoundOK, NoCrossedCredentials, BlobOf, Pure, EmailOf
  <2> QED BY <2>1, <2>2
<1> QED BY <1>1, <1>2, <1>3 DEF IInv

LEMMA SaveDeleteStep ==
  ASSUME IInv, NEW w \in Workers, SaveDelete(w)
  PROVE  IInv'
<1>1. At(w, "svDel") /\ job[w].target \in Accounts
  BY  DEF SaveDelete, IInv, TypeOK, JobOK, LockOK, LocalsOK, BlobOf, SaveFailed
<1>2. PICK l \in {None, keychain[job[w].target]} :
        /\ keychain' = [keychain EXCEPT ![job[w].target] = l]
        /\ (Goto(w, "svAdd") /\ UNCHANGED <<job, lock, locals>>) \/ SaveFailed(w)
  BY DeleteFact DEF SaveDelete, WriteDelete
<1>3. TypeOK'
  BY <1>1, <1>2 DEF SaveDelete, IInv, TypeOK, JobOK, LockOK, LocalsOK, BlobOf, FoundOK, SaveFailed
<1>4. JobOK' /\ LockOK'
  BY <1>1, <1>2 DEF SaveDelete, IInv, TypeOK, JobOK, LockOK, SaveFailed
<1>5. LocalsOK' /\ FoundOK' /\ NoCrossedCredentials'
  BY <1>1, <1>2 DEF SaveDelete, IInv, TypeOK, JobOK, LockOK, LocalsOK, FoundOK, NoCrossedCredentials, BlobOf, Pure, EmailOf, SaveFailed
<1> QED BY <1>3, <1>4, <1>5 DEF IInv

LEMMA SaveAddStep ==
  ASSUME IInv, NEW w \in Workers, SaveAdd(w)
  PROVE  IInv'
<1>1. At(w, "svAdd") /\ job[w].target \in Accounts /\ BlobOf(out, job[w].target)
  BY FreshFact DEF SaveAdd, IInv, TypeOK, JobOK, LockOK, LocalsOK, BlobOf
<1>2. PICK o \in AddOutcomes(job[w].target, out) :
        /\ keychain' = [keychain EXCEPT ![job[w].target] = o.left]
        /\ (Release(w, "saved") /\ UNCHANGED job) \/ End(w)
  BY DEF SaveAdd, SaveFailed
<1>3. TypeOK'
  <2>1. o.left \in Blob \cup {None}
    BY <1>1, AddFact DEF IInv, TypeOK, BlobOf
  <2>2. keychain' \in [Entries -> Blob \cup {None}]
    BY <1>1, <1>2, <2>1 DEF IInv, TypeOK
  <2> QED BY <1>1, <1>2, <2>2 DEF SaveAdd, IInv, TypeOK
<1>4. JobOK' /\ LockOK'
  BY <1>1, <1>2, AddFact DEF SaveAdd, IInv, TypeOK, JobOK, LockOK
<1>5. LocalsOK' /\ FoundOK' /\ NoCrossedCredentials'
  <2>1. LocalsOK'
    BY <1>1, <1>2 DEF SaveAdd, IInv, TypeOK, JobOK, LockOK, LocalsOK, BlobOf
  <2>2. FoundOK' /\ NoCrossedCredentials'
    BY <1>1, <1>2, AddFact DEF SaveAdd, IInv, TypeOK, LockOK, LocalsOK, FoundOK, NoCrossedCredentials, BlobOf, Pure, EmailOf
  <2> QED BY <2>1, <2>2
<1> QED BY <1>3, <1>4, <1>5 DEF IInv

LEMMA AfterSaveStep ==
  ASSUME IInv, NEW w \in Workers, AfterSave(w)
  PROVE  IInv'
<1>1. TypeOK'
  BY DEF AfterSave, IInv, TypeOK, JobOK, LockOK, LocalsOK, BlobOf, FoundOK
<1>2. JobOK' /\ LockOK'
  BY DEF AfterSave, IInv, TypeOK, JobOK, LockOK
<1>3. LocalsOK' /\ FoundOK' /\ NoCrossedCredentials'
  BY DEF AfterSave, IInv, TypeOK, JobOK, LockOK, LocalsOK, FoundOK, NoCrossedCredentials, BlobOf, Pure, EmailOf
<1> QED BY <1>1, <1>2, <1>3 DEF IInv

LEMMA EraseVaultStep ==
  ASSUME IInv, NEW w \in Workers, EraseVault(w)
  PROVE  IInv'
<1>1. At(w, "erVault") /\ job[w].victim \in Accounts
  BY  DEF EraseVault, IInv, TypeOK, JobOK, LockOK, LocalsOK, BlobOf
<1>2. PICK l \in {keychain[job[w].victim], None} :
        keychain' = [keychain EXCEPT ![job[w].victim] = l]
  BY EraseFact DEF EraseVault
<1>3. TypeOK'
  BY <1>1, <1>2 DEF EraseVault, IInv, TypeOK, JobOK, LockOK, LocalsOK, BlobOf, FoundOK
<1>4. JobOK' /\ LockOK'
  BY <1>1, <1>2 DEF EraseVault, IInv, TypeOK, JobOK, LockOK
<1>5. LocalsOK' /\ FoundOK' /\ NoCrossedCredentials'
  BY <1>1, <1>2 DEF EraseVault, IInv, TypeOK, JobOK, LockOK, LocalsOK, FoundOK, NoCrossedCredentials, BlobOf, Pure, EmailOf
<1> QED BY <1>3, <1>4, <1>5 DEF IInv

LEMMA EraseStandardStep ==
  ASSUME IInv, NEW w \in Workers, EraseStandard(w)
  PROVE  IInv'
<1>1. At(w, "erStd")
  BY  DEF EraseStandard, IInv, TypeOK, JobOK, LockOK, LocalsOK, BlobOf
<1>2. PICK l \in {keychain[Standard], None} :
        keychain' = [keychain EXCEPT ![Standard] = l]
  BY EraseFact DEF EraseStandard
<1>3. TypeOK'
  BY <1>1, <1>2 DEF EraseStandard, IInv, TypeOK, JobOK, LockOK, LocalsOK, BlobOf, FoundOK
<1>4. JobOK' /\ LockOK'
  BY <1>1, <1>2 DEF EraseStandard, IInv, TypeOK, JobOK, LockOK
<1>5. LocalsOK' /\ FoundOK' /\ NoCrossedCredentials'
  BY <1>1, <1>2 DEF EraseStandard, IInv, TypeOK, JobOK, LockOK, LocalsOK, FoundOK, NoCrossedCredentials, BlobOf, Pure, EmailOf
<1> QED BY <1>3, <1>4, <1>5 DEF IInv

LEMMA EraseIdentityStep ==
  ASSUME IInv, NEW w \in Workers, EraseIdentity(w)
  PROVE  IInv'
<1>1. TypeOK'
  BY DEF EraseIdentity, IInv, TypeOK, JobOK, LockOK, LocalsOK, BlobOf, FoundOK
<1>2. JobOK' /\ LockOK'
  BY DEF EraseIdentity, IInv, TypeOK, JobOK, LockOK
<1>3. LocalsOK' /\ FoundOK' /\ NoCrossedCredentials'
  BY DEF EraseIdentity, IInv, TypeOK, JobOK, LockOK, LocalsOK, FoundOK, NoCrossedCredentials, BlobOf, Pure, EmailOf
<1> QED BY <1>1, <1>2, <1>3 DEF IInv

LEMMA EraseFallbackStep ==
  ASSUME IInv, NEW w \in Workers, EraseFallback(w)
  PROVE  IInv'
<1>1. TypeOK'
  BY DEF EraseFallback, IInv, TypeOK, JobOK, LockOK, LocalsOK, BlobOf, FoundOK
<1>2. JobOK' /\ LockOK'
  BY DEF EraseFallback, IInv, TypeOK, JobOK, LockOK
<1>3. LocalsOK' /\ FoundOK' /\ NoCrossedCredentials'
  BY DEF EraseFallback, IInv, TypeOK, JobOK, LockOK, LocalsOK, FoundOK, NoCrossedCredentials, BlobOf, Pure, EmailOf
<1> QED BY <1>1, <1>2, <1>3 DEF IInv

LEMMA DropRowStep ==
  ASSUME IInv, NEW w \in Workers, DropRow(w)
  PROVE  IInv'
<1>1. TypeOK'
  BY DEF DropRow, IInv, TypeOK, JobOK, LockOK, LocalsOK, BlobOf, FoundOK
<1>2. JobOK' /\ LockOK'
  BY DEF DropRow, IInv, TypeOK, JobOK, LockOK
<1>3. LocalsOK' /\ FoundOK' /\ NoCrossedCredentials'
  BY DEF DropRow, IInv, TypeOK, JobOK, LockOK, LocalsOK, FoundOK, NoCrossedCredentials, BlobOf, Pure, EmailOf
<1> QED BY <1>1, <1>2, <1>3 DEF IInv

LEMMA CliRotateStep ==
  ASSUME IInv, CliRotate
  PROVE  IInv'
<1> DEFINE b == keychain[Standard]
           t == [own |-> b.tok.own, gen |-> issued[b.tok.own] + 1]
<1>1. b \in Blob /\ b.tok \in Token /\ issued[b.tok.own] < MaxGen
  BY DEF CliRotate, IInv, TypeOK
<1>2. t \in Token /\ t.own = b.tok.own
  BY <1>1 DEF IInv, TypeOK, Token
<1>3. valid' = (valid \ {b.tok}) \cup {t} /\ issued' = [issued EXCEPT ![t.own] = t.gen]
  BY DEF CliRotate
<1>4. PICK n \in BOOLEAN :
        keychain' = [keychain EXCEPT ![Standard] = [acct |-> b.acct, tok |-> t, nested |-> n]]
  BY DEF CliRotate
<1>5. UNCHANGED <<identity, fallback, enrolled, lock, pc, job, locals, startup>>
  BY DEF CliRotate
<1> HIDE DEF t
<1>6. TypeOK'
  BY <1>1, <1>2, <1>3, <1>4, <1>5 DEF IInv, TypeOK, Blob, Token
<1>7. JobOK' /\ LockOK'
  BY <1>5 DEF IInv, JobOK, LockOK
<1>8. keychain'[Standard] \in Blob /\ keychain'[Standard].acct = b.acct /\ keychain'[Standard].tok = t
  BY <1>1, <1>2, <1>4 DEF IInv, TypeOK, Blob
<1>9. LocalsOK' /\ FoundOK' /\ NoCrossedCredentials'
  BY <1>1, <1>2, <1>4, <1>5, <1>8 DEF IInv, TypeOK, LocalsOK, FoundOK, NoCrossedCredentials, BlobOf, Pure, EmailOf
<1> QED BY <1>6, <1>7, <1>9 DEF IInv

LEMMA RevokeStep ==
  ASSUME IInv, NEW a \in Accounts, Revoke(a)
  PROVE  IInv'
<1>1. TypeOK'
  BY DEF Revoke, IInv, TypeOK, JobOK, LockOK, LocalsOK, BlobOf, FoundOK
<1>2. JobOK' /\ LockOK'
  BY DEF Revoke, IInv, TypeOK, JobOK, LockOK
<1>3. LocalsOK' /\ FoundOK' /\ NoCrossedCredentials'
  BY DEF Revoke, IInv, TypeOK, JobOK, LockOK, LocalsOK, FoundOK, NoCrossedCredentials, BlobOf, Pure, EmailOf
<1> QED BY <1>1, <1>2, <1>3 DEF IInv

LEMMA CrashStep ==
  ASSUME IInv, Crash
  PROVE  IInv'
<1>1. TypeOK'
  BY DEF Crash, IInv, TypeOK, JobOK, LockOK, LocalsOK, BlobOf, FoundOK, Phases
<1>2. JobOK' /\ LockOK'
  BY DEF Crash, IInv, TypeOK, JobOK, LockOK, Phases
<1>3. LocalsOK' /\ FoundOK' /\ NoCrossedCredentials'
  BY DEF Crash, IInv, TypeOK, JobOK, LockOK, LocalsOK, FoundOK, NoCrossedCredentials, BlobOf, Pure, EmailOf, Phases
<1> QED BY <1>1, <1>2, <1>3 DEF IInv

LEMMA StartupReadStep ==
  ASSUME IInv, StartupRead
  PROVE  IInv'
<1>1. PICK b \in {keychain[Standard], None} :
        \/ phase' = "up" /\ UNCHANGED found
        \/ /\ EmailOf(b) # None /\ phase' \in {"seed", "reconcile"} /\ found' = b
  BY ReadsFact DEF StartupRead
<1>2. TypeOK'
  BY <1>1 DEF StartupRead, IInv, TypeOK, JobOK, LockOK, LocalsOK, BlobOf, FoundOK, Phases
<1>3. JobOK' /\ LockOK'
  BY <1>1 DEF StartupRead, IInv, TypeOK, JobOK, LockOK, Phases
<1>4. LocalsOK' /\ FoundOK' /\ NoCrossedCredentials'
  BY <1>1 DEF StartupRead, IInv, TypeOK, JobOK, LockOK, LocalsOK, FoundOK, NoCrossedCredentials, BlobOf, Pure, EmailOf, Blob
<1> QED BY <1>2, <1>3, <1>4 DEF IInv

LEMMA StartupIdentityStep ==
  ASSUME IInv, StartupIdentity
  PROVE  IInv'
<1>1. TypeOK'
  BY DEF StartupIdentity, IInv, TypeOK, JobOK, LockOK, LocalsOK, BlobOf, FoundOK, Started, Phases
<1>2. JobOK' /\ LockOK'
  BY DEF StartupIdentity, IInv, TypeOK, JobOK, LockOK, Started, Phases
<1>3. LocalsOK' /\ FoundOK' /\ NoCrossedCredentials'
  BY DEF StartupIdentity, IInv, TypeOK, JobOK, LockOK, LocalsOK, FoundOK, NoCrossedCredentials, BlobOf, Pure, EmailOf, Started, Phases
<1> QED BY <1>1, <1>2, <1>3 DEF IInv

LEMMA StartupMirrorStep ==
  ASSUME IInv, StartupMirror
  PROVE  IInv'
<1>1. TypeOK'
  BY DEF StartupMirror, IInv, TypeOK, JobOK, LockOK, LocalsOK, BlobOf, FoundOK, Started, Phases
<1>2. JobOK' /\ LockOK'
  BY DEF StartupMirror, IInv, TypeOK, JobOK, LockOK, Started, Phases
<1>3. LocalsOK' /\ FoundOK' /\ NoCrossedCredentials'
  BY DEF StartupMirror, IInv, TypeOK, JobOK, LockOK, LocalsOK, FoundOK, NoCrossedCredentials, BlobOf, Pure, EmailOf, Started, Phases
<1> QED BY <1>1, <1>2, <1>3 DEF IInv

(***************************************************************************)
(* The invariant, and the theorems it gives.                               *)
(***************************************************************************)
LEMMA InitFact == Init => IInv
<1> SUFFICES ASSUME Init PROVE IInv
  OBVIOUS
<1> DEFINE F(a) == FreshBlob([own |-> a, gen |-> 0])
           bare == [acct |-> None, nested |-> TRUE, tok |-> [own |-> identity, gen |-> 0]]
<1>1. \A a \in Accounts : BlobOf(F(a), a) /\ F(a).tok \in Token
  BY FreshFact DEF Token, FreshBlob
<1>2. identity \in Accounts => bare \in Blob /\ bare.acct = None
  BY DEF Blob, Token
<1>3. /\ identity \in Accounts \cup {None} /\ enrolled \subseteq Accounts
      /\ \/ keychain = [e \in Entries |-> IF e # Standard THEN F(e)
                          ELSE IF identity = None THEN None ELSE F(identity)]
         \/ /\ identity \in Accounts
            /\ keychain = [e \in Entries |-> IF e = Standard THEN bare ELSE None]
  BY DEF Init
<1> HIDE DEF F, bare
<1>4. ASSUME NEW e \in Entries
      PROVE  /\ keychain[e] \in Blob \cup {None} /\ Pure(keychain[e])
             /\ e \in Accounts /\ keychain[e] # None => keychain[e].acct = e
  BY <1>1, <1>2, <1>3 DEF BlobOf, Pure
<1>5. keychain \in [Entries -> Blob \cup {None}]
  BY <1>3, <1>4
<1>6. NoCrossedCredentials
  BY <1>4 DEF Init, NoCrossedCredentials
<1>7. valid \subseteq Token
  <2>1. valid = {F(a).tok : a \in Accounts}
    BY DEF Init, F
  <2> QED BY <1>1, <2>1
<1>8. TypeOK
  <2>1. fallback \in Blob \cup {None}
    BY <1>4 DEF Init
  <2>2. issued \in [Accounts -> 0..MaxGen] /\ job \in [Workers -> Jobs] /\ pc \in [Workers -> PCs]
    BY DEF Init
  <2> QED BY <1>3, <1>5, <1>7, <2>1, <2>2 DEF Init, TypeOK, Phases
<1>9. JobOK /\ LockOK /\ LocalsOK /\ FoundOK
  BY DEF Init, JobOK, LockOK, LocalsOK, FoundOK
<1> QED BY <1>6, <1>8, <1>9 DEF IInv

LEMMA StepFact == IInv /\ [Next]_vars => IInv'
<1> SUFFICES ASSUME IInv, [Next]_vars PROVE IInv'
  OBVIOUS
<1>1. CASE UNCHANGED vars
  BY <1>1 DEF vars, IInv, TypeOK, JobOK, LockOK, LocalsOK, FoundOK, NoCrossedCredentials, BlobOf, Pure, EmailOf
<1>2. CASE \E w \in Workers : Request(w)
  BY <1>2, SwitchRequestStep, DeleteRequestStep, LoginRequestStep DEF Request
<1>3. CASE \E w \in Workers : Step(w)
  BY <1>3, AcquireStep, LoadIncomingStep, ReadStandardStep, CheckpointDeleteStep, CheckpointAddStep,
     PromoteDeleteStep, PromoteAddStep, RewriteIdentityStep, WriteFallbackStep, SaveDeleteStep,
     SaveAddStep, AfterSaveStep, EraseVaultStep, EraseStandardStep, EraseIdentityStep,
     EraseFallbackStep, DropRowStep DEF Step
<1>4. CASE CliRotate \/ (\E a \in Accounts : Revoke(a)) \/ Crash \/ Startup
  BY <1>4, CliRotateStep, RevokeStep, CrashStep, StartupReadStep, StartupIdentityStep,
     StartupMirrorStep DEF Startup
<1> QED BY <1>1, <1>2, <1>3, <1>4 DEF Next

LEMMA Invariance == Spec => []IInv
  BY InitFact, StepFact, PTL DEF Spec

\* Every variable keeps its type: in particular a worker inside the critical
\* section always has the blobs and accounts its next Keychain call needs.
THEOREM TypeCorrect == Spec => []TypeOK
<1>1. IInv => TypeOK
  BY DEF IInv
<1> QED BY <1>1, Invariance, PTL

\* Credentials never cross accounts (swap steps 2-5, save_new_vault_account,
\* startup repair), for any number of accounts and workers and any faults.
THEOREM CredentialsNeverCross == Spec => []NoCrossedCredentials
<1>1. IInv => NoCrossedCredentials
  BY DEF IInv
<1> QED BY <1>1, Invariance, PTL

LEMMA IdentityStep ==
  ASSUME IInv, [Next]_vars
  PROVE  identity' # identity => identity' \in {None, EmailOf(keychain[Standard])}
<1>1. ASSUME NEW w \in Workers, Step(w), identity' # identity
      PROVE  RewriteIdentity(w) \/ EraseIdentity(w)
  BY <1>1 DEF Step, Acquire, LoadIncoming, ReadStandard, CheckpointDelete, CheckpointAdd,
     PromoteDelete, PromoteAdd, WriteFallback, SaveDelete, SaveAdd, AfterSave, EraseVault,
     EraseStandard, EraseFallback, DropRow
<1>2. ASSUME NEW w \in Workers, RewriteIdentity(w), identity' # identity
      PROVE  identity' = EmailOf(keychain[Standard])
  BY <1>2 DEF RewriteIdentity, IInv, LocalsOK
<1>3. ASSUME NEW w \in Workers, EraseIdentity(w), identity' # identity
      PROVE  identity' = None
  BY <1>3 DEF EraseIdentity
<1>4. ASSUME NEW w \in Workers, Request(w)
      PROVE  identity' = identity
  BY <1>4 DEF Request, SwitchRequest, DeleteRequest, LoginRequest
<1>5. ASSUME Startup, identity' # identity
      PROVE  identity' = EmailOf(keychain[Standard])
  BY <1>5 DEF Startup, StartupRead, StartupIdentity, StartupMirror, IInv, FoundOK
<1> QED BY <1>1, <1>2, <1>3, <1>4, <1>5 DEF Next, vars, CliRotate, Revoke, Crash

\* The identity file only ever comes to name the owner of the standard entry,
\* or nobody (_rewrite_claude_json_identity, startup_integrity_check).
THEOREM IdentityFollows == Spec => IdentityFollowsStandard
<1>1. IInv /\ [Next]_vars => [identity' # identity => identity' \in {None, EmailOf(keychain[Standard])}]_vars
  BY IdentityStep
<1> QED BY <1>1, Invariance, PTL DEF Spec, IdentityFollowsStandard

(***************************************************************************)
(* Identity and standard entry agree.                                      *)
(***************************************************************************)
LEMMA ReadsReliable ==
  ASSUME Reliable, NEW e
  PROVE  Reads(e) = {keychain[e]}
  BY DEF Reads, Reliable

LEMMA WriteReliable ==
  ASSUME Reliable, NEW e, NEW o \in DeleteOutcomes(e)
  PROVE  o.ok /\ o.left \in {None, keychain[e]}
  BY DEF DeleteOutcomes, Reliable

LEMMA AddReliable ==
  ASSUME Reliable, NEW e, NEW b, NEW o \in AddOutcomes(e, b)
  PROVE  IF o.ok THEN o.left = b ELSE o.left = keychain[e]
  BY DEF AddOutcomes, Reliable

LEMMA EraseReliable ==
  ASSUME Reliable, "delete" \in Ops, NEW e
  PROVE  EraseOutcomes(e) = {None}
  BY DEF EraseOutcomes, Reliable

LEMMA AgreeStep ==
  ASSUME Reliable, IInv, AgreeOK, NEW w \in Workers, Step(w)
  PROVE  AgreeOK'
<1> USE DEF AgreeOK, IInv, TypeOK, LockOK
<1>1. CASE Acquire(w)
  BY <1>1 DEF Acquire
<1>2. CASE LoadIncoming(w)
  BY <1>2 DEF LoadIncoming
<1>3. CASE ReadStandard(w)
  BY <1>3 DEF ReadStandard
<1>4. CASE CheckpointDelete(w)
  BY <1>4, WriteReliable DEF CheckpointDelete, WriteDelete, LocalsOK
<1>5. CASE CheckpointAdd(w)
  BY <1>5, AddReliable DEF CheckpointAdd, LocalsOK
<1>6. CASE PromoteDelete(w)
  BY <1>6, WriteReliable DEF PromoteDelete, WriteDelete, EmailOf
<1>7. CASE PromoteAdd(w)
  BY <1>7, AddReliable DEF PromoteAdd
<1>8. CASE RewriteIdentity(w)
  BY <1>8 DEF RewriteIdentity, Reliable, LocalsOK
<1>9. CASE WriteFallback(w)
  BY <1>9 DEF WriteFallback
<1>10. CASE SaveDelete(w)
  BY <1>10, WriteReliable DEF SaveDelete, WriteDelete, JobOK, SaveFailed
<1>11. CASE SaveAdd(w)
  BY <1>11, AddReliable DEF SaveAdd, JobOK, SaveFailed
<1>12. CASE AfterSave(w)
  <2>1. /\ UNCHANGED <<store, phase, found>> /\ \A v \in Workers : v # w => pc'[v] = pc[v] /\ job'[v] = job[v]
        /\ pc[w] = "saved" /\ pc'[w] \in {"wait", "idle"} /\ job'[w] \in {job[w], NoJob}
    BY <1>12 DEF AfterSave
  <2> QED BY <2>1 DEF NoJob
<1>13. CASE EraseVault(w)
  BY <1>13, EraseFact DEF EraseVault, JobOK
<1>14. CASE EraseStandard(w)
  BY <1>14, EraseReliable DEF EraseStandard, EmailOf
<1>15. CASE EraseIdentity(w)
  BY <1>15 DEF EraseIdentity, EmailOf
<1>16. CASE EraseFallback(w) \/ DropRow(w)
  BY <1>16 DEF EraseFallback, DropRow
<1> QED BY <1>1, <1>2, <1>3, <1>4, <1>5, <1>6, <1>7, <1>8, <1>9, <1>10, <1>11, <1>12, <1>13,
           <1>14, <1>15, <1>16 DEF Step

LEMMA AgreeOther ==
  ASSUME Reliable, IInv, AgreeOK, [Next]_vars, ~\E w \in Workers : Step(w)
  PROVE  AgreeOK'
<1> USE DEF AgreeOK, IInv, TypeOK, LockOK
<1>1. CASE UNCHANGED vars
  BY <1>1 DEF vars
<1>2. ASSUME NEW w \in Workers, Request(w)
      PROVE  AgreeOK'
  BY <1>2 DEF Request, SwitchRequest, DeleteRequest, LoginRequest
<1>3. CASE CliRotate
  BY <1>3 DEF CliRotate, EmailOf
<1>4. CASE \E a \in Accounts : Revoke(a)
  BY <1>4 DEF Revoke
<1>5. CASE Crash
  BY <1>5 DEF Crash
<1>6. CASE StartupRead
  BY <1>6, ReadsReliable DEF StartupRead
<1>7. CASE StartupIdentity \/ StartupMirror
  BY <1>7 DEF StartupIdentity, StartupMirror, Started, FoundOK, Reliable
<1> QED BY <1>1, <1>2, <1>3, <1>4, <1>5, <1>6, <1>7 DEF Next, Startup

\* A crash anywhere inside any number of racing swaps and deletions is
\* repaired before the server serves again, provided lookups and file writes
\* succeed and no call is killed half-way (startup_integrity_check).
THEOREM CrashesAreRepaired ==
  ASSUME Reliable
  PROVE  Spec => []CrashConsistent
<1>1. Init => AgreeOK
  BY DEF Init, AgreeOK, EmailOf, FreshBlob
<1>2. IInv /\ AgreeOK /\ [Next]_vars => AgreeOK'
  BY AgreeStep, AgreeOther
<1>3. IInv /\ AgreeOK => CrashConsistent
  BY DEF IInv, TypeOK, LockOK, AgreeOK, CrashConsistent, AtRest
<1> QED BY <1>1, <1>2, <1>3, Invariance, PTL DEF Spec

(***************************************************************************)
(* Nothing of a deleted account is left.                                   *)
(***************************************************************************)

\* No store names the account, and no swap under way has it in hand.
Gone(a) ==
  /\ keychain[a] = None
  /\ EmailOf(keychain[Standard]) # a
  /\ identity # a
  /\ \A w \in Workers :
       /\ pc[w] \in {"ckRead", "ckDel", "ckAdd", "prDel", "prAdd", "ident", "file"}
            => incoming.acct # a
       /\ pc[w] \in {"ckDel", "ckAdd"} => seen.acct # a

\* What each control point of a deletion leaves behind it; when it comes to
\* the row, it has wiped all that Gone asks for.  That the row goes outside
\* the lock does no harm: what is gone cannot be promoted.
WipedOK == \A w \in Workers :
  /\ pc[w] \notin SavePoints \cup {"saved"}
  /\ pc[w] = "dropRow" => Gone(job[w].victim)
  /\ pc[w] \in {"erStd", "erIdent", "erFile"} => keychain[job[w].victim] = None
  /\ pc[w] \in {"erIdent", "erFile"} => keychain[Standard] = None
  /\ pc[w] = "erFile" => identity = None

RowsOK == \A a \in Accounts \ enrolled : Gone(a)

\* A login stores its tokens before the row exists, and a re-login may store
\* them after the row is gone: without those two.
NoLogins == Ops \cap {"login", "relogin"} = {}

EInv == IInv /\ AgreeOK /\ RowsOK /\ WipedOK

\* Nothing brings an account back: it is in no entry that a swap, the CLI or
\* the startup check could copy.
LEMMA GoneStays ==
  ASSUME Reliable, EInv, NEW w \in Workers, Step(w), NEW a \in Accounts, Gone(a)
  PROVE  Gone(a)'
<1> USE DEF EInv, IInv, TypeOK, LockOK, Gone
<1>1. CASE Acquire(w)
  BY <1>1 DEF Acquire
<1>2. CASE LoadIncoming(w)
  BY <1>2, ReadsReliable DEF LoadIncoming, JobOK, NoCrossedCredentials
<1>3. CASE ReadStandard(w)
  BY <1>3, ReadsReliable DEF ReadStandard, EmailOf
<1>4. CASE CheckpointDelete(w)
  BY <1>4, WriteReliable DEF CheckpointDelete, WriteDelete, LocalsOK
<1>5. CASE CheckpointAdd(w)
  BY <1>5, AddReliable DEF CheckpointAdd, LocalsOK
<1>6. CASE PromoteDelete(w)
  BY <1>6, WriteReliable DEF PromoteDelete, WriteDelete, EmailOf
<1>7. CASE PromoteAdd(w)
  <2>1. PICK o \in AddOutcomes(Standard, out) :
          /\ keychain' = [keychain EXCEPT ![Standard] = o.left]
          /\ IF o.ok THEN Goto(w, "ident") /\ UNCHANGED <<job, lock, locals>> ELSE End(w)
    BY <1>7 DEF PromoteAdd
  <2>2. o.left = out \/ o.left = keychain[Standard]
    BY <2>1, AddReliable
  <2>3. out.acct # a
    BY <1>7 DEF PromoteAdd, LocalsOK
  <2>4. keychain'[a] = None /\ EmailOf(keychain'[Standard]) # a
    BY <1>7, <2>1, <2>2, <2>3 DEF PromoteAdd, EmailOf
  <2> QED BY <1>7, <2>1, <2>4 DEF PromoteAdd
<1>8. CASE RewriteIdentity(w)
  BY <1>8 DEF RewriteIdentity
<1>9. CASE WriteFallback(w)
  BY <1>9 DEF WriteFallback
<1>10. CASE SaveDelete(w) \/ SaveAdd(w) \/ AfterSave(w)
  BY <1>10 DEF SaveDelete, SaveAdd, AfterSave, WipedOK
<1>11. CASE EraseVault(w)
  BY <1>11, EraseFact DEF EraseVault, JobOK
<1>12. CASE EraseStandard(w)
  BY <1>12, EraseFact DEF EraseStandard, EmailOf
<1>13. CASE EraseIdentity(w) \/ EraseFallback(w) \/ DropRow(w)
  BY <1>13 DEF EraseIdentity, EraseFallback, DropRow
<1> QED BY <1>1, <1>2, <1>3, <1>4, <1>5, <1>6, <1>7, <1>8, <1>9, <1>10, <1>11, <1>12, <1>13 DEF Step

LEMMA GoneOther ==
  ASSUME Reliable, EInv, [Next]_vars, ~\E w \in Workers : Step(w), NEW a \in Accounts, Gone(a)
  PROVE  Gone(a)'
<1> USE DEF EInv, IInv, TypeOK, LockOK, Gone
<1>1. CASE UNCHANGED vars
  BY <1>1 DEF vars
<1>2. ASSUME NEW w \in Workers, Request(w)
      PROVE  Gone(a)'
  BY <1>2 DEF Request, SwitchRequest, DeleteRequest, LoginRequest
<1>3. CASE CliRotate
  BY <1>3 DEF CliRotate, EmailOf
<1>4. CASE \E b \in Accounts : Revoke(b)
  BY <1>4 DEF Revoke
<1>5. CASE Crash
  BY <1>5 DEF Crash
<1>6. CASE StartupRead
  BY <1>6 DEF StartupRead
<1>7. CASE StartupIdentity \/ StartupMirror
  BY <1>7 DEF StartupIdentity, StartupMirror, FoundOK
<1> QED BY <1>1, <1>2, <1>3, <1>4, <1>5, <1>6, <1>7 DEF Next, Startup

\* A row goes only by a deletion that has come to its end.
LEMMA RowsGo ==
  ASSUME EInv, [Next]_vars, NEW a \in Accounts, a \notin enrolled'
  PROVE  \/ a \notin enrolled
         \/ \E w \in Workers : pc[w] = "dropRow" /\ job[w].victim = a
<1>1. ASSUME NEW w \in Workers, DropRow(w)
      PROVE  a \notin enrolled \/ (pc[w] = "dropRow" /\ job[w].victim = a)
  BY <1>1 DEF DropRow
<1>2. ASSUME NEW w \in Workers, AfterSave(w)
      PROVE  a \notin enrolled
  BY <1>2 DEF AfterSave, EInv, WipedOK
<1>3. ASSUME NEW w \in Workers, Request(w) \/ Step(w), ~DropRow(w), ~AfterSave(w)
      PROVE  UNCHANGED enrolled
  BY <1>3 DEF Request, SwitchRequest, DeleteRequest, LoginRequest, Step, Acquire, LoadIncoming,
       ReadStandard, CheckpointDelete, CheckpointAdd, PromoteDelete, PromoteAdd, RewriteIdentity,
       WriteFallback, SaveDelete, SaveAdd, EraseVault, EraseStandard, EraseIdentity, EraseFallback
<1>4. CASE CliRotate \/ (\E b \in Accounts : Revoke(b)) \/ Crash \/ Startup \/ UNCHANGED vars
  BY <1>4 DEF CliRotate, Revoke, Crash, Startup, StartupRead, StartupIdentity, StartupMirror, vars
<1> QED BY <1>1, <1>2, <1>3, <1>4 DEF Next

\* Whoever waits before its row keeps what it had wiped.
LEMMA WaitsGone ==
  ASSUME Reliable, EInv, [Next]_vars, NEW v \in Workers, pc[v] = "dropRow", pc'[v] = "dropRow",
         job'[v] = job[v]
  PROVE  Gone(job[v].victim)'
<1>1. PICK a \in Accounts : a = job[v].victim /\ Gone(a)
  BY DEF EInv, IInv, JobOK, WipedOK
<1>2. Gone(a)'
  <2>1. CASE \E w \in Workers : Step(w)
    BY <1>1, <2>1, GoneStays
  <2>2. CASE ~\E w \in Workers : Step(w)
    BY <1>1, <2>2, GoneOther
  <2> QED BY <2>1, <2>2
<1>3. a = job'[v].victim
  BY <1>1
<1> QED BY <1>2, <1>3 DEF Gone

LEMMA RowsStep ==
  ASSUME Reliable, EInv, [Next]_vars
  PROVE  RowsOK'
<1>1. SUFFICES ASSUME NEW a \in Accounts, a \notin enrolled'
               PROVE  Gone(a)'
  BY DEF RowsOK
<1>2. Gone(a)
  BY <1>1, RowsGo DEF EInv, RowsOK, WipedOK
<1>3. CASE \E w \in Workers : Step(w)
  BY <1>1, <1>2, <1>3, GoneStays
<1>4. CASE ~\E w \in Workers : Step(w)
  BY <1>1, <1>2, <1>4, GoneOther
<1> QED BY <1>3, <1>4

\* A worker's step leaves what the others have wiped alone.
LEMMA WipedOthers ==
  ASSUME Reliable, EInv, NEW w \in Workers, Step(w), NEW v \in Workers \ {w}
  PROVE  /\ pc'[v] = pc[v] /\ job'[v] = job[v]
         /\ pc[v] \in {"erStd", "erIdent", "erFile"} => UNCHANGED store
<1> USE DEF EInv, IInv, TypeOK, LockOK, JobOK
<1>1. pc'[v] = pc[v] /\ job'[v] = job[v]
  <2>1. CASE Acquire(w) \/ LoadIncoming(w) \/ ReadStandard(w) \/ AfterSave(w) \/ DropRow(w)
    BY <2>1 DEF Acquire, LoadIncoming, ReadStandard, AfterSave, DropRow
  <2>2. CASE CheckpointDelete(w) \/ CheckpointAdd(w) \/ PromoteDelete(w) \/ PromoteAdd(w)
    BY <2>2 DEF CheckpointDelete, CheckpointAdd, PromoteDelete, PromoteAdd, WriteDelete
  <2>3. CASE RewriteIdentity(w) \/ WriteFallback(w) \/ SaveDelete(w) \/ SaveAdd(w)
    BY <2>3 DEF RewriteIdentity, WriteFallback, SaveDelete, SaveAdd, WriteDelete, SaveFailed
  <2>4. CASE EraseVault(w) \/ EraseStandard(w) \/ EraseIdentity(w) \/ EraseFallback(w)
    BY <2>4 DEF EraseVault, EraseStandard, EraseIdentity, EraseFallback
  <2> QED BY <2>1, <2>2, <2>3, <2>4 DEF Step
<1>2. ASSUME pc[v] \in {"erStd", "erIdent", "erFile"} PROVE UNCHANGED store
  <2>1. lock = v /\ pc[w] \notin Locked
    BY <1>2 DEF Locked
  <2>2. AfterSave(w) \/ DropRow(w)
    BY <2>1 DEF Step, Acquire, LoadIncoming, ReadStandard, CheckpointDelete, CheckpointAdd,
         PromoteDelete, PromoteAdd, RewriteIdentity, WriteFallback, SaveDelete, SaveAdd,
         EraseVault, EraseStandard, EraseIdentity, EraseFallback, Locked
  <2> QED BY <2>2 DEF AfterSave, DropRow
<1> QED BY <1>1, <1>2

\* A deletion's own steps wipe one store after the other.
LEMMA WipedOwn ==
  ASSUME Reliable, EInv, NEW w \in Workers, Step(w)
  PROVE  /\ pc'[w] \notin SavePoints \cup {"saved"}
         /\ pc'[w] = "dropRow" => Gone(job[w].victim)'
         /\ pc'[w] \in {"erStd", "erIdent", "erFile"} => keychain'[job'[w].victim] = None
         /\ pc'[w] \in {"erIdent", "erFile"} => keychain'[Standard] = None
         /\ pc'[w] = "erFile" => identity' = None
<1> USE DEF EInv, IInv, TypeOK, LockOK, JobOK, WipedOK
<1>1. CASE EraseVault(w)
  <2>1. "delete" \in Ops /\ job[w].victim \in Accounts
    BY <1>1 DEF EraseVault, AgreeOK
  <2>2. keychain' = [keychain EXCEPT ![job[w].victim] = None] /\ UNCHANGED <<job, identity>>
    <3>1. PICK l \in EraseOutcomes(job[w].victim) : keychain' = [keychain EXCEPT ![job[w].victim] = l]
      BY <1>1 DEF EraseVault
    <3>2. l = None
      BY <2>1, EraseReliable
    <3> QED BY <1>1, <3>1, <3>2 DEF EraseVault
  <2>3. EmailOf(keychain[Standard]) \in {None, identity}
    BY <1>1 DEF EraseVault, AgreeOK
  <2>4. CASE identity = job[w].victim
    BY <1>1, <2>1, <2>2, <2>4 DEF EraseVault
  <2>5. CASE identity # job[w].victim
    <3>1. \A v \in Workers : pc'[v] \notin Locked
      BY <1>1, <2>5 DEF EraseVault
    <3>2. EmailOf(keychain[Standard]) # job[w].victim /\ keychain'[Standard] = keychain[Standard]
      BY <2>1, <2>2, <2>3, <2>5
    <3>3. Gone(job[w].victim)'
      BY <2>1, <2>2, <2>5, <3>1, <3>2 DEF Gone, EmailOf
    <3> QED BY <1>1, <2>2, <2>5, <3>1, <3>3 DEF EraseVault
  <2> QED BY <2>4, <2>5
<1>2. CASE EraseStandard(w)
  <2>1. PICK l \in EraseOutcomes(Standard) : keychain' = [keychain EXCEPT ![Standard] = l]
    BY <1>2 DEF EraseStandard
  <2>2. "delete" \in Ops
    BY <1>2 DEF EraseStandard, AgreeOK
  <2>3. l = None
    BY <2>2, EraseReliable
  <2> QED BY <1>2, <2>1, <2>3 DEF EraseStandard
<1>3. CASE EraseIdentity(w)
  BY <1>3 DEF EraseIdentity, Reliable
<1>4. CASE EraseFallback(w)
  <2>1. \A v \in Workers : pc'[v] \notin Locked
    BY <1>4 DEF EraseFallback
  <2>2. job[w].victim \in Accounts /\ UNCHANGED <<keychain, identity, job>>
    BY <1>4 DEF EraseFallback
  <2>3. Gone(job[w].victim)'
    BY <1>4, <2>1, <2>2 DEF EraseFallback, Gone, EmailOf
  <2> QED BY <1>4, <2>1, <2>2, <2>3 DEF EraseFallback
<1>5. CASE Acquire(w) \/ LoadIncoming(w) \/ ReadStandard(w)
  BY <1>5 DEF Acquire, LoadIncoming, ReadStandard
<1>6. CASE CheckpointDelete(w) \/ CheckpointAdd(w) \/ PromoteDelete(w) \/ PromoteAdd(w)
  BY <1>6, WriteReliable DEF CheckpointDelete, CheckpointAdd, PromoteDelete, PromoteAdd, WriteDelete
<1>7. CASE RewriteIdentity(w) \/ WriteFallback(w) \/ DropRow(w)
  BY <1>7 DEF RewriteIdentity, WriteFallback, DropRow
<1>8. CASE SaveDelete(w) \/ SaveAdd(w) \/ AfterSave(w)
  BY <1>8 DEF SaveDelete, SaveAdd, AfterSave
<1> QED BY <1>1, <1>2, <1>3, <1>4, <1>5, <1>6, <1>7, <1>8 DEF Step

LEMMA WipedStep ==
  ASSUME Reliable, EInv, NEW w \in Workers, Step(w)
  PROVE  WipedOK'
<1>1. SUFFICES ASSUME NEW v \in Workers, v # w
               PROVE  /\ pc'[v] \notin SavePoints \cup {"saved"}
                      /\ pc'[v] = "dropRow" => Gone(job[v].victim)'
                      /\ pc'[v] \in {"erStd", "erIdent", "erFile"} => keychain'[job'[v].victim] = None
                      /\ pc'[v] \in {"erIdent", "erFile"} => keychain'[Standard] = None
                      /\ pc'[v] = "erFile" => identity' = None
  BY WipedOwn DEF WipedOK
<1>2. pc'[v] = pc[v] /\ job'[v] = job[v]
  BY <1>1, WipedOthers
<1>3. pc'[v] = "dropRow" => Gone(job[v].victim)'
  BY <1>2, WaitsGone DEF Next
<1>4. pc[v] \in {"erStd", "erIdent", "erFile"} => UNCHANGED store
  BY <1>1, WipedOthers
<1> QED BY <1>2, <1>3, <1>4 DEF EInv, WipedOK

LEMMA WipedOther ==
  ASSUME Reliable, NoLogins, EInv, [Next]_vars, ~\E w \in Workers : Step(w)
  PROVE  WipedOK'
<1> USE DEF EInv, IInv, TypeOK, LockOK, WipedOK
<1>1. ASSUME NEW v \in Workers, pc'[v] = pc[v], job'[v] = job[v]
      PROVE  pc'[v] = "dropRow" => Gone(job[v].victim)'
  BY <1>1, WaitsGone
<1>2. ASSUME NEW w \in Workers, Request(w)
      PROVE  WipedOK'
  <2>1. pc'[w] \in {"wait", "eraseWait"} /\ UNCHANGED store
    BY <1>2 DEF Request, SwitchRequest, DeleteRequest, LoginRequest, NoLogins
  <2>2. \A v \in Workers \ {w} : pc'[v] = pc[v] /\ job'[v] = job[v]
    BY <1>2 DEF Request, SwitchRequest, DeleteRequest, LoginRequest
  <2> QED BY <1>1, <2>1, <2>2
<1>3. CASE CliRotate \/ (\E a \in Accounts : Revoke(a)) \/ UNCHANGED vars
  <2>1. UNCHANGED <<pc, job, identity>>
    BY <1>3 DEF CliRotate, Revoke, vars
  <2>2. keychain[Standard] = None => keychain'[Standard] = None
    BY <1>3 DEF CliRotate, Revoke, vars
  <2>3. \A a \in Accounts : keychain'[a] = keychain[a]
    <3>1. CASE CliRotate
      <4>1. PICK b : keychain' = [keychain EXCEPT ![Standard] = b]
        BY <3>1 DEF CliRotate
      <4> QED BY <4>1
    <3> QED BY <1>3, <3>1 DEF Revoke, vars
  <2>4. \A v \in Workers : pc[v] \in ErasePoints => job[v].victim \in Accounts
    BY DEF JobOK
  <2> QED BY <1>1, <2>1, <2>2, <2>3, <2>4
<1>4. CASE Crash
  BY <1>4 DEF Crash
<1>5. CASE Startup
  BY <1>5 DEF Startup, StartupRead, StartupIdentity, StartupMirror, Started
<1> QED BY <1>2, <1>3, <1>4, <1>5 DEF Next

\* Once an account's row is gone nothing of it is left where the CLI or a
\* swap would pick it up, whatever swaps and deletions race and wherever the
\* process dies, provided that lookups, wipes and file writes do what they
\* are asked and nobody logs in meanwhile (delete_account_everywhere).
THEOREM DeletionsAreComplete ==
  ASSUME Reliable, NoLogins
  PROVE  Spec => []EraseComplete
<1>1. Init => AgreeOK /\ RowsOK /\ WipedOK
  BY DEF Init, AgreeOK, EmailOf, FreshBlob, RowsOK, WipedOK, NoLogins
<1>2. IInv /\ AgreeOK /\ RowsOK /\ WipedOK /\ [Next]_vars => AgreeOK' /\ RowsOK' /\ WipedOK'
  BY AgreeStep, AgreeOther, RowsStep, WipedStep, WipedOther DEF EInv
<1>3. RowsOK => EraseComplete
  BY DEF RowsOK, Gone, EraseComplete
<1> QED BY <1>1, <1>2, <1>3, Invariance, PTL DEF Spec
(***************************************************************************)
(* Where an account's last usable token may be overwritten.                *)
(***************************************************************************)

\* What step 2 read is still what stands there, but for a rotation; a nested
\* entry's token is in the checkpoint that is written and, when the standard
\* entry is touched, in the vault.  A deletion wipes the standard entry
\* because the identity file names its victim.
CheckpointOK == \A w \in Workers :
  /\ pc[w] \in {"ckDel", "ckAdd", "prDel"} /\ seen # None
       => keychain[Standard] # None /\ keychain[Standard].acct = seen.acct
  /\ pc[w] \in {"ckDel", "ckAdd"} /\ seen.nested => out.tok = seen.tok
  /\ pc[w] = "prDel" /\ EmailOf(seen) \notin {None, job[w].target} /\ seen.nested
       => keychain[seen.acct] # None /\ keychain[seen.acct].tok = seen.tok
  /\ pc[w] = "erStd" => identity = job[w].victim

\* The CLI replaces the token in the standard entry by its successor.
LEMMA RotateFact ==
  ASSUME IInv, CliRotate
  PROVE  /\ \E t \in Token :
              /\ keychain[Standard].tok \in Token /\ t.own = keychain[Standard].tok.own
              /\ valid' = (valid \ {keychain[Standard].tok}) \cup {t}
              /\ keychain'[Standard] # None /\ keychain'[Standard].tok = t
         /\ keychain'[Standard].acct = keychain[Standard].acct
         /\ \A a \in Accounts : keychain'[a] = keychain[a]
<1> DEFINE b == keychain[Standard]
           t == [own |-> b.tok.own, gen |-> issued[b.tok.own] + 1]
<1>1. b \in Blob /\ b.tok \in Token /\ issued[b.tok.own] < MaxGen
  BY DEF CliRotate, IInv, TypeOK
<1>2. t \in Token /\ t.own = b.tok.own
  BY <1>1 DEF IInv, TypeOK, Token
<1>3. valid' = (valid \ {b.tok}) \cup {t}
  BY DEF CliRotate
<1>4. PICK n \in BOOLEAN :
        keychain' = [keychain EXCEPT ![Standard] = [acct |-> b.acct, tok |-> t, nested |-> n]]
  BY DEF CliRotate
<1> HIDE DEF t
<1>5. keychain'[Standard] \in Blob /\ keychain'[Standard].acct = b.acct /\ keychain'[Standard].tok = t
  BY <1>1, <1>2, <1>4 DEF IInv, TypeOK, Blob
<1>6. \A a \in Accounts : keychain'[a] = keychain[a]
  BY <1>4 DEF IInv, TypeOK
<1> QED BY <1>1, <1>2, <1>3, <1>5, <1>6

LEMMA CheckpointStep ==
  ASSUME IInv, CheckpointOK, NEW w \in Workers, Step(w)
  PROVE  CheckpointOK'
<1> USE DEF IInv, TypeOK, LockOK, JobOK, CheckpointOK
<1>1. CASE Acquire(w)
  BY <1>1 DEF Acquire
<1>2. CASE LoadIncoming(w)
  BY <1>2 DEF LoadIncoming
<1>3. CASE ReadStandard(w)
  <2>1. PICK cur \in {keychain[Standard], None} :
          /\ seen' = cur
          /\ IF EmailOf(cur) \notin {None, job[w].target}
             THEN /\ \E prev \in {keychain[cur.acct], None} : out' = Merge(cur, prev)
                  /\ Goto(w, "ckDel")
             ELSE out' = incoming /\ Goto(w, "prDel")
    BY <1>3, ReadsFact DEF ReadStandard
  <2>2. \A prev : cur.nested => Merge(cur, prev).tok = cur.tok
    BY DEF Merge
  <2> QED BY <1>3, <2>1, <2>2 DEF ReadStandard, EmailOf
<1>4. CASE CheckpointDelete(w)
  BY <1>4 DEF CheckpointDelete, WriteDelete, LocalsOK
<1>5. CASE CheckpointAdd(w)
  <2>1. PICK o \in AddOutcomes(seen.acct, out) :
          /\ keychain' = [keychain EXCEPT ![seen.acct] = o.left]
          /\ IF o.ok THEN /\ out' = incoming
                          /\ Goto(w, "prDel")
                          /\ UNCHANGED <<job, lock, incoming, seen>>
                     ELSE End(w)
    BY <1>5 DEF CheckpointAdd
  <2>2. At(w, "ckAdd") /\ seen.acct \in Accounts /\ out # None /\ (o.ok => o.left = out)
    BY <1>5, AddFact DEF CheckpointAdd, LocalsOK, BlobOf
  <2> QED BY <2>1, <2>2 DEF EmailOf
<1>6. CASE PromoteDelete(w)
  BY <1>6 DEF PromoteDelete, WriteDelete
<1>7. CASE PromoteAdd(w)
  BY <1>7 DEF PromoteAdd
<1>8. CASE RewriteIdentity(w) \/ WriteFallback(w)
  BY <1>8 DEF RewriteIdentity, WriteFallback
<1>9. CASE SaveDelete(w) \/ SaveAdd(w) \/ AfterSave(w)
  BY <1>9 DEF SaveDelete, SaveAdd, AfterSave, WriteDelete, SaveFailed
<1>10. CASE EraseVault(w)
  BY <1>10 DEF EraseVault
<1>11. CASE EraseStandard(w) \/ EraseIdentity(w) \/ EraseFallback(w) \/ DropRow(w)
  BY <1>11 DEF EraseStandard, EraseIdentity, EraseFallback, DropRow
<1> QED BY <1>1, <1>2, <1>3, <1>4, <1>5, <1>6, <1>7, <1>8, <1>9, <1>10, <1>11 DEF Step

LEMMA CheckpointOther ==
  ASSUME IInv, CheckpointOK, [Next]_vars, ~\E w \in Workers : Step(w)
  PROVE  CheckpointOK'
<1> USE DEF IInv, TypeOK, LockOK, CheckpointOK
<1>1. CASE UNCHANGED vars
  BY <1>1 DEF vars
<1>2. ASSUME NEW w \in Workers, Request(w)
      PROVE  CheckpointOK'
  BY <1>2 DEF Request, SwitchRequest, DeleteRequest, LoginRequest
<1>3. CASE CliRotate
  <2>1. /\ keychain'[Standard] # None /\ keychain'[Standard].acct = keychain[Standard].acct
        /\ \A a \in Accounts : keychain'[a] = keychain[a]
    BY <1>3, RotateFact DEF IInv
  <2>2. \A w \in Workers : pc[w] = "prDel" /\ EmailOf(seen) # None => seen.acct \in Accounts
    BY DEF EmailOf, Blob
  <2> QED BY <1>3, <2>1, <2>2 DEF CliRotate
<1>4. CASE \E a \in Accounts : Revoke(a)
  BY <1>4 DEF Revoke
<1>5. CASE Crash
  BY <1>5 DEF Crash
<1>6. CASE Startup
  BY <1>6 DEF Startup, StartupRead, StartupIdentity, StartupMirror
<1> QED BY <1>2, <1>1, <1>3, <1>4, <1>5, <1>6 DEF Next

\* An add never takes a stored blob away.
LEMMA AddKeeps ==
  ASSUME NEW e, NEW b, NEW o \in AddOutcomes(e, b), keychain[e] # None
  PROVE  o.left = keychain[e]
  BY DEF AddOutcomes

\* As long as the accepted tokens of an account stay accepted, it is held
\* while an entry that holds it stands.
LEMMA HeldStays ==
  ASSUME NEW a \in Accounts, Held(a),
         \A t \in valid : t.own = a => t \in valid',
         \A e \in {Standard, a} : keychain[e] # None => keychain'[e] = keychain[e]
  PROVE  Held(a)'
  BY DEF Held

LEMMA LossStep ==
  ASSUME IInv, CheckpointOK, NEW w \in Workers, Step(w), NEW a \in Accounts, Held(a), ~Held(a)'
  PROVE  LossPoint(w, a)
<1> USE DEF IInv, TypeOK, LossPoint
<1>1. UNCHANGED valid
  BY DEF Step, Acquire, LoadIncoming, ReadStandard, CheckpointDelete, CheckpointAdd,
       PromoteDelete, PromoteAdd, RewriteIdentity, WriteFallback, SaveDelete, SaveAdd, AfterSave,
       EraseVault, EraseStandard, EraseIdentity, EraseFallback, DropRow
<1>2. ~UNCHANGED keychain
  BY <1>1, HeldStays
<1>3. ASSUME NEW e, keychain[e] # None,
             e \in Entries, NEW b, NEW o \in AddOutcomes(e, b),
             keychain' = [keychain EXCEPT ![e] = o.left]
      PROVE  FALSE
  BY <1>2, <1>3, AddKeeps
<1>4. ASSUME NEW e \in Entries, NEW b, keychain[e] = None, keychain' = [keychain EXCEPT ![e] = b]
      PROVE  FALSE
  BY <1>1, <1>4, HeldStays
<1>5. CASE CheckpointDelete(w)
  <2>1. PICK l : keychain' = [keychain EXCEPT ![seen.acct] = l]
    BY <1>5 DEF CheckpointDelete, WriteDelete
  <2>2. pc[w] = "ckDel" /\ seen \in Blob /\ seen.acct \in Accounts
    BY <1>5 DEF CheckpointDelete, LocalsOK
  <2>3. a = seen.acct
    BY <1>1, <2>1, <2>2, HeldStays
  <2>4. keychain[Standard] # None /\ keychain[Standard].acct = a
    BY <2>2, <2>3 DEF CheckpointOK
  <2>5. keychain[Standard].tok # None => keychain[Standard].tok.own = a
    BY <2>4 DEF NoCrossedCredentials, Pure
  <2>6. keychain'[Standard] = keychain[Standard]
    BY <2>1, <2>2
  <2>7. keychain[Standard].tok \notin valid
    BY <1>1, <2>4, <2>5, <2>6 DEF Held
  <2> QED BY <2>2, <2>3, <2>7
<1>6. CASE PromoteDelete(w)
  <2>1. PICK l : keychain' = [keychain EXCEPT ![Standard] = l]
    BY <1>6 DEF PromoteDelete, WriteDelete
  <2>2. pc[w] = "prDel"
    BY <1>6 DEF PromoteDelete
  <2>3. SUFFICES ASSUME seen = keychain[Standard], EmailOf(seen) \notin {None, job[w].target},
                        seen.nested
                 PROVE  FALSE
    BY <2>2
  <2>4. seen # None /\ seen.acct \in Accounts
    BY <2>3 DEF EmailOf, Blob
  <2>5. keychain'[a] = keychain[a]
    BY <2>1
  <2>6. keychain[Standard].tok \in valid /\ keychain[Standard].tok.own = a
    BY <1>1, <2>5 DEF Held
  <2>7. seen.acct = a
    BY <2>3, <2>4, <2>6 DEF NoCrossedCredentials, Pure
  <2>8. keychain[a] # None /\ keychain[a].tok = seen.tok
    BY <2>2, <2>3, <2>7 DEF CheckpointOK
  <2> QED BY <1>1, <2>3, <2>5, <2>6, <2>8 DEF Held
<1>7. CASE SaveDelete(w)
  <2>1. PICK l : keychain' = [keychain EXCEPT ![job[w].target] = l]
    BY <1>7 DEF SaveDelete, WriteDelete
  <2>2. pc[w] = "svDel" /\ job[w].target \in Accounts
    BY <1>7 DEF SaveDelete, JobOK
  <2>3. a = job[w].target
    BY <1>1, <2>1, <2>2, HeldStays
  <2> QED BY <2>2, <2>3
<1>8. CASE EraseVault(w)
  <2>1. PICK l : keychain' = [keychain EXCEPT ![job[w].victim] = l]
    BY <1>8 DEF EraseVault
  <2>2. pc[w] = "erVault" /\ job[w].victim \in Accounts
    BY <1>8 DEF EraseVault, JobOK
  <2>3. a = job[w].victim
    BY <1>1, <2>1, <2>2, HeldStays
  <2> QED BY <2>2, <2>3
<1>9. CASE EraseStandard(w)
  <2>1. PICK l : keychain' = [keychain EXCEPT ![Standard] = l]
    BY <1>9 DEF EraseStandard
  <2>2. pc[w] = "erStd" /\ identity = job[w].victim /\ job[w].victim \in Accounts
    BY <1>9 DEF EraseStandard, JobOK, CheckpointOK
  <2>3. keychain[Standard] # None /\ keychain[Standard].tok \in valid /\ keychain[Standard].tok.own = a
    BY <1>1, <2>1 DEF Held
  <2>4. EmailOf(keychain[Standard]) = identity => identity = a
    BY <2>2, <2>3 DEF EmailOf, NoCrossedCredentials, Pure
  <2> QED BY <2>2, <2>4
<1>10. CASE CheckpointAdd(w)
  <2>1. PICK o \in AddOutcomes(seen.acct, out) : keychain' = [keychain EXCEPT ![seen.acct] = o.left]
    BY <1>10 DEF CheckpointAdd
  <2>2. seen.acct \in Entries
    BY <1>10 DEF CheckpointAdd, LocalsOK
  <2> QED BY <1>3, <1>4, <2>1, <2>2
<1>11. CASE PromoteAdd(w)
  <2>1. PICK o \in AddOutcomes(Standard, out) : keychain' = [keychain EXCEPT ![Standard] = o.left]
    BY <1>11 DEF PromoteAdd
  <2> QED BY <1>3, <1>4, <2>1
<1>12. CASE SaveAdd(w)
  <2>1. PICK o \in AddOutcomes(job[w].target, out) :
          keychain' = [keychain EXCEPT ![job[w].target] = o.left]
    BY <1>12 DEF SaveAdd
  <2>2. job[w].target \in Entries
    BY <1>12 DEF SaveAdd, JobOK
  <2> QED BY <1>3, <1>4, <2>1, <2>2
<1>13. CASE \/ Acquire(w) \/ LoadIncoming(w) \/ ReadStandard(w) \/ RewriteIdentity(w) \/ WriteFallback(w)
            \/ AfterSave(w) \/ EraseIdentity(w) \/ EraseFallback(w) \/ DropRow(w)
  BY <1>2, <1>13 DEF Acquire, LoadIncoming, ReadStandard, RewriteIdentity, WriteFallback, AfterSave,
       EraseIdentity, EraseFallback, DropRow
<1> QED BY <1>5, <1>6, <1>7, <1>8, <1>9, <1>10, <1>11, <1>12, <1>13 DEF Step

LEMMA LossOther ==
  ASSUME IInv, [Next]_vars, ~\E w \in Workers : Step(w), NEW a \in Accounts, Held(a), ~Held(a)'
  PROVE  valid' = {t \in valid : t.own # a}
<1> USE DEF IInv, TypeOK
<1>1. CASE CliRotate
  <2>1. PICK t \in Token :
          /\ keychain[Standard].tok \in Token /\ t.own = keychain[Standard].tok.own
          /\ valid' = (valid \ {keychain[Standard].tok}) \cup {t}
          /\ keychain'[Standard] # None /\ keychain'[Standard].tok = t
    BY <1>1, RotateFact
  <2>2. keychain'[a] = keychain[a]
    BY <1>1, RotateFact
  <2>3. keychain[Standard].tok.own # a
    BY <2>1 DEF Held
  <2>4. keychain[a] # None /\ keychain[a].tok \in valid /\ keychain[a].tok.own = a
    BY <2>3 DEF Held
  <2> QED BY <2>1, <2>2, <2>3, <2>4 DEF Held
<1>2. ASSUME NEW b \in Accounts, Revoke(b)
      PROVE  valid' = {t \in valid : t.own # a}
  <2>1. CASE a = b
    BY <1>2, <2>1 DEF Revoke
  <2>2. CASE a # b
    BY <1>2, <2>2, HeldStays DEF Revoke
  <2> QED BY <2>1, <2>2
<1>3. ASSUME NEW w \in Workers, Request(w)
      PROVE  FALSE
  <2>1. UNCHANGED keychain /\ valid \subseteq valid'
    BY <1>3 DEF Request, SwitchRequest, DeleteRequest, LoginRequest
  <2> QED BY <2>1, HeldStays
<1>4. CASE Crash \/ Startup \/ UNCHANGED vars
  <2>1. UNCHANGED <<keychain, valid>>
    BY <1>4 DEF Crash, Startup, StartupRead, StartupIdentity, StartupMirror, vars
  <2> QED BY <2>1, HeldStays
<1> QED BY <1>1, <1>2, <1>3, <1>4 DEF Next

\* The swap overwrites an account's last accepted token only where step 2
\* could not have known it, whichever call fails, whoever rotates and wherever
\* the process dies: everywhere else the checkpoint was in the vault first.
THEOREM LossesAreNamed == Spec => TokenLossPoints
<1>1. Init => CheckpointOK
  BY DEF Init, CheckpointOK
<1>2. IInv /\ CheckpointOK /\ [Next]_vars => CheckpointOK'
  BY CheckpointStep, CheckpointOther
<1>3. IInv /\ CheckpointOK /\ [Next]_vars =>
        [\A a \in Accounts : Held(a) /\ ~Held(a)' =>
           \/ valid' = {t \in valid : t.own # a}
           \/ \E w \in Workers : LossPoint(w, a)]_vars
  BY LossStep, LossOther
<1> QED BY <1>1, <1>2, <1>3, Invariance, PTL DEF Spec, TokenLossPoints

=============================================================================
