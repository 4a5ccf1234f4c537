------------------------ MODULE AccountLifecycle_proofs ------------------------
(***************************************************************************)
(* AccountLifecycle's properties for any number of revalidations, logins,  *)
(* rotations, deletions and faults: where a login's tokens are written     *)
(* over, where an entry outlives its row, and where the flag comes to      *)
(* contradict the entry.                                                   *)
(***************************************************************************)
EXTENDS AccountLifecycle, TLAPS

USE DEF entry, work, notes, removal, At, Goto, Fine, Fault

----------------------------------------------------------------------------
(* The inductive invariant.                                                *)

\* TypeOK by parts.
CountsOK ==
  /\ fams \in 0..MaxFam /\ saved \in 0..MaxFam /\ faults \in 0..MaxFaults
  /\ era \in 0..MaxDeletes /\ lastId \in 0..MaxDeletes
TablesOK ==
  /\ pc \in [Actors -> PCs]
  /\ loaded \in [Actors -> Row \cup {None}]
  /\ verdict \in [Refreshers -> Verdicts]
  /\ lockOf \in [Refreshers -> 0..MaxDeletes \cup {None}]
HeldOK ==
  /\ live \in [0..MaxFam -> 0..MaxGen \cup {None}]
  /\ hand \in [Actors -> Blob \cup {None}]
EntryOK ==
  /\ vault \in Blob \cup {None} /\ row \in Row \cup {None}
  /\ del \in {"idle", "drop", "forget"} /\ spared \in {"no", "failed", "written"}
SetsOK ==
  /\ crossed \subseteq Actors /\ outdone \subseteq Actors /\ refused \subseteq {Tick}
  /\ blind \subseteq Refreshers /\ unsaved \subseteq Actors

\* Who may be where, and when somebody has a blob in hand.
Refreshing == {"post", "save", "add"}
RoleOK ==
  /\ \A l \in Logins : pc[l] \in {"idle", "write", "add", "commit"}
  /\ \A r \in Refreshers : pc[r] \in Refreshing \cup {"idle", "fetch", "wait", "apply"}
  /\ \A r \in Revalidators : ~At(r, "fetch")
Holds(x) == pc[x] \in {"post", "save", "add", "write"} \/ (x = Tick /\ At(x, "wait"))
HandOK   == \A x \in Actors : hand[x] # None <=> Holds(x)
EraOK == del # "idle" => era < MaxDeletes

\* One write at a time, and nothing is in the entry while it goes on.
WriterOK ==
  /\ \A x, y \in Actors : At(x, "add") /\ At(y, "add") => x = y
  /\ Writing => vault = None
\* What the deletion has wiped stays wiped, or somebody is to blame.
SparedOK == del = "drop" /\ vault # None => spared # "no"

\* Where the tokens of a login can be.
SavedOK == vault # None => vault.tok.fam = saved
FamOK   == saved <= fams /\ \A x \in Actors : hand[x] # None => hand[x].tok.fam <= fams
FreshOK ==
  \A l \in Logins : pc[l] \in {"write", "add"} =>
    \A x \in Actors : x # l /\ hand[x] # None => hand[x].tok.fam # hand[l].tok.fam
UnwrittenOK ==
  \A l \in Logins : At(l, "write") /\ vault # None => vault.tok.fam # hand[l].tok.fam
\* A refresher has read what was last written, unless it was overtaken since.
ReadOK ==
  \A r \in Refreshers : hand[r] # None =>
    /\ hand[r].tok.fam < saved => r \in crossed
    /\ hand[r].tok.fam > saved => r \in outdone

\* What somebody is about to write is good, and what it is about to say of the
\* entry true, unless others have acted since.
Good(x) == pc[x] \in {"save", "add", "write"} => Takes(hand[x]) \/ x \in outdone
Clear(x) ==
  \/ x \in Logins /\ At(x, "commit")
  \/ x \in Refreshers /\ At(x, "apply") /\ verdict[x] = "clear" /\ (x = Tick => Tick \in refused)
  => Takes(vault) \/ x \in unsaved \cup outdone
Missing(x) ==
  x \in Refreshers /\ At(x, "apply") /\ verdict[x] = "missing" =>
    vault = None \/ x \in blind \cup outdone
Refused(x) ==
  x \in Refreshers /\ At(x, "apply") /\ verdict[x] = "refused" =>
    ~Takes(vault) \/ x \in crossed \cup outdone
Honest(x) == Good(x) /\ Clear(x) /\ Missing(x) /\ Refused(x)
\* The tick has not been refused before it asks.
AskedOK == pc[Tick] \in {"idle", "fetch"} => refused = {}

TypeInv  == CountsOK /\ TablesOK /\ HeldOK /\ EntryOK /\ SetsOK /\ RoleOK /\ HandOK /\ EraOK
EntryInv == WriterOK /\ SparedOK
TokenInv == SavedOK /\ FamOK /\ FreshOK /\ UnwrittenOK /\ ReadOK
FlagInv  == AskedOK /\ \A x \in Actors : Honest(x)

IInv == TypeInv /\ EntryInv /\ TokenInv /\ FlagInv

----------------------------------------------------------------------------
(* Types and roles.                                                        *)

LEMMA Cast ==
  /\ Tick \in Refreshers /\ Tick \notin Revalidators
  /\ Revalidators \subseteq Refreshers
  /\ \A r \in Refreshers : r = Tick \/ r \in Revalidators
  /\ Refreshers \subseteq Actors /\ Logins \subseteq Actors
  /\ \A x \in Actors : x \in Refreshers <=> x \notin Logins
  /\ None \notin Actors /\ None \notin Nat /\ None \notin Blob /\ None \notin Row
  /\ MaxFam \in Nat /\ MaxGen \in Nat /\ MaxDeletes \in Nat /\ MaxFaults \in Nat
  BY LifecycleConstantsOK, LifecycleNoneOK DEF Refreshers, Actors

LEMMA TypeParts == TypeOK <=> CountsOK /\ TablesOK /\ HeldOK /\ EntryOK /\ SetsOK
  BY DEF TypeOK, CountsOK, TablesOK, HeldOK, EntryOK, SetsOK

\* What a step of one actor has to leave right for HandOK.
LEMMA OneHand ==
  ASSUME TypeInv, NEW x \in Actors, NEW p, NEW b, Goto(x, p), hand' = [hand EXCEPT ![x] = b],
         b # None <=> p \in {"post", "save", "add", "write"} \/ (x = Tick /\ p = "wait")
  PROVE  HandOK'
  BY DEF TypeInv, TablesOK, HeldOK, HandOK, Holds

LEMMA SameHand ==
  ASSUME TypeInv, NEW x \in Actors, NEW p, Goto(x, p), UNCHANGED hand,
         hand[x] # None <=> p \in {"post", "save", "add", "write"} \/ (x = Tick /\ p = "wait")
  PROVE  HandOK'
  BY DEF TypeInv, TablesOK, HeldOK, HandOK, Holds

\* A fault is counted, or nothing is.
LEMMA CountFault ==
  ASSUME TypeInv, Fault \/ Fine PROVE faults' \in 0..MaxFaults
  <1>1. faults \in 0..MaxFaults
    BY DEF TypeInv, CountsOK
  <1> QED
    BY <1>1, Cast

LEMMA TypeTickStart ==
  ASSUME TypeInv, TickStart PROVE TypeInv'
  <1>1. CountsOK' /\ HeldOK' /\ EntryOK' /\ EraOK'
    BY DEF TypeInv, CountsOK, HeldOK, EntryOK, EraOK, TickStart
  <1>2. TablesOK'
    BY Cast DEF TypeInv, TablesOK, PCs, Verdicts, Reasons, EntryOK, TickStart
  <1>3. RoleOK'
    BY Cast DEF TypeInv, RoleOK, Refreshing, TablesOK, TickStart
  <1>4. HandOK'
    BY Cast DEF TypeInv, HandOK, Holds, TablesOK, HeldOK, RoleOK, Refreshing, TickStart
  <1>5. SetsOK'
    BY Cast DEF TypeInv, SetsOK, TickStart
  <1> QED
    BY <1>1, <1>2, <1>3, <1>4, <1>5 DEF TypeInv

LEMMA TypeFetch ==
  ASSUME TypeInv, Fetch PROVE TypeInv'
  <1>1. EntryOK' /\ EraOK'
    BY DEF TypeInv, EntryOK, EraOK, Fetch
  <1>2. CountsOK'
    BY Cast DEF TypeInv, CountsOK, Fetch, Lookup
  <1>3. TablesOK'
    BY Cast DEF TypeInv, TablesOK, PCs, Verdicts, Reasons, CountsOK, Fetch, Conclude
  <1>4. HeldOK'
    <2>1. PICK b \in Blob \cup {None} : hand' = [hand EXCEPT ![Tick] = b]
      BY DEF TypeInv, EntryOK, Fetch, Lookup, Conclude
    <2>2. UNCHANGED live
      BY DEF Fetch
    <2> QED
      BY <2>1, <2>2 DEF TypeInv, HeldOK
  <1>5. SetsOK'
    BY Cast DEF TypeInv, SetsOK, Fetch, Lookup
  <1>6. RoleOK'
    BY Cast DEF TypeInv, RoleOK, Refreshing, TablesOK, Fetch, Conclude
  <1>7. HandOK'
    BY Cast DEF TypeInv, HandOK, Holds, TablesOK, HeldOK, RoleOK, Refreshing, Fetch, Lookup, Conclude
  <1> QED
    BY <1>1, <1>2, <1>3, <1>4, <1>5, <1>6, <1>7 DEF TypeInv

LEMMA TypeThrottled ==
  ASSUME TypeInv, Throttled PROVE TypeInv'
  <1>1. CountsOK' /\ EntryOK' /\ SetsOK' /\ EraOK'
    BY DEF TypeInv, CountsOK, EntryOK, SetsOK, EraOK, Throttled
  <1>2. TablesOK'
    BY Cast DEF TypeInv, TablesOK, PCs, Verdicts, Reasons, Throttled, Conclude
  <1>3. HeldOK'
    BY Cast DEF TypeInv, HeldOK, Throttled, Conclude
  <1>4. RoleOK'
    BY Cast DEF TypeInv, RoleOK, Refreshing, TablesOK, Throttled, Conclude
  <1>5. HandOK'
    BY Cast DEF TypeInv, HandOK, Holds, TablesOK, HeldOK, RoleOK, Refreshing, Throttled, Conclude
  <1> QED
    BY <1>1, <1>2, <1>3, <1>4, <1>5 DEF TypeInv

LEMMA TypeRevalidate ==
  ASSUME NEW r \in Revalidators, TypeInv, Revalidate(r) PROVE TypeInv'
  <1>1. CountsOK' /\ HeldOK' /\ EntryOK' /\ SetsOK' /\ EraOK'
    BY DEF TypeInv, CountsOK, HeldOK, EntryOK, SetsOK, EraOK, Revalidate
  <1>2. TablesOK'
    BY Cast DEF TypeInv, TablesOK, PCs, Verdicts, Reasons, EntryOK, CountsOK, Revalidate
  <1>3. RoleOK'
    BY Cast DEF TypeInv, RoleOK, Refreshing, TablesOK, Revalidate
  <1>4. HandOK'
    BY Cast DEF TypeInv, HandOK, Holds, TablesOK, HeldOK, RoleOK, Refreshing, Revalidate
  <1> QED
    BY <1>1, <1>2, <1>3, <1>4 DEF TypeInv

LEMMA TypeGrab ==
  ASSUME NEW r \in Refreshers, TypeInv, Grab(r) PROVE TypeInv'
  <1>1. EntryOK' /\ EraOK'
    BY DEF TypeInv, EntryOK, EraOK, Grab
  <1>2. CountsOK'
    BY Cast DEF TypeInv, CountsOK, Grab, Lookup
  <1>3. TablesOK'
    BY Cast DEF TypeInv, TablesOK, PCs, Verdicts, Reasons, Grab, Conclude
  <1>4. HeldOK'
    <2>1. hand' = hand \/ \E b \in Blob \cup {None} : hand' = [hand EXCEPT ![r] = b]
      BY DEF TypeInv, EntryOK, Grab, Lookup, Conclude
    <2>2. UNCHANGED live
      BY DEF Grab
    <2> QED
      BY <2>1, <2>2 DEF TypeInv, HeldOK
  <1>5. SetsOK'
    BY Cast DEF TypeInv, SetsOK, Grab, Lookup
  <1>6. RoleOK'
    BY Cast DEF TypeInv, RoleOK, Refreshing, TablesOK, Grab, Conclude
  <1>7. HandOK'
    <2>1. CASE hand[r] # None
      BY <2>1, SameHand, Cast DEF Grab
    <2>2. CASE hand[r] = None
      <3>1. PICK b \in {vault, None} :
              IF b = None THEN Conclude(r, "missing")
              ELSE hand' = [hand EXCEPT ![r] = b] /\ Goto(r, "post")
        BY <2>2 DEF Grab
      <3> QED
        BY <3>1, OneHand, Cast DEF Conclude
    <2> QED
      BY <2>1, <2>2
  <1> QED
    BY <1>1, <1>2, <1>3, <1>4, <1>5, <1>6, <1>7 DEF TypeInv

\* A token the server has taken can be rotated.
LEMMA PostTypes ==
  ASSUME TypeInv, NEW r \in Refreshers, Accepted(r), Rotate(hand[r].tok.fam)
  PROVE  /\ hand[r] \in Blob
         /\ hand[r].tok.fam \in 0..MaxFam /\ live[hand[r].tok.fam] + 1 \in 0..MaxGen
  <1>1. hand[r] \in Blob
    BY Cast DEF TypeInv, HeldOK, HandOK, Holds, Accepted
  <1>2. hand[r].tok.fam \in 0..MaxFam /\ live[hand[r].tok.fam] \in 0..MaxGen
    BY <1>1 DEF Accepted, Blob, Token
  <1> QED
    BY <1>1, <1>2, Cast DEF Rotate

LEMMA TypePostAccepted ==
  ASSUME NEW r \in Refreshers, TypeInv, PostAccepted(r) PROVE TypeInv'
  <1>1. CountsOK' /\ EntryOK' /\ EraOK'
    BY DEF TypeInv, CountsOK, EntryOK, EraOK, PostAccepted
  <1>2. TablesOK'
    BY Cast DEF TypeInv, TablesOK, PCs, Verdicts, Reasons, PostAccepted
  <1>3. HeldOK'
    <2>2. /\ hand[r] \in Blob
          /\ hand[r].tok.fam \in 0..MaxFam /\ live[hand[r].tok.fam] + 1 \in 0..MaxGen
          /\ hand[r].tok.gen + 1 = live[hand[r].tok.fam] + 1
      BY PostTypes DEF PostAccepted, Accepted
    <2>3. live' \in [0..MaxFam -> 0..MaxGen \cup {None}]
      BY <2>2 DEF TypeInv, HeldOK, PostAccepted, Rotate
    <2>4. [hand[r] EXCEPT !.tok.gen = @ + 1] \in Blob
      BY <2>2 DEF Blob, Token
    <2> QED
      BY <2>3, <2>4, Cast DEF TypeInv, HeldOK, PostAccepted
  <1>4. SetsOK'
    BY Cast DEF TypeInv, SetsOK, PostAccepted, Outdoes, Unsettled
  <1>5. RoleOK'
    BY Cast DEF TypeInv, RoleOK, Refreshing, TablesOK, PostAccepted
  <1>6. HandOK'
    <2>1. [hand[r] EXCEPT !.tok.gen = @ + 1] # None
      BY PostTypes, Cast DEF PostAccepted, Accepted, Blob, Token
    <2> QED
      BY <2>1, OneHand, Cast DEF PostAccepted
  <1> QED
    BY <1>1, <1>2, <1>3, <1>4, <1>5, <1>6 DEF TypeInv

LEMMA TypePostRejected ==
  ASSUME NEW r \in Refreshers, TypeInv, PostRejected(r) PROVE TypeInv'
  <1>1. CountsOK' /\ EntryOK' /\ EraOK'
    BY DEF TypeInv, CountsOK, EntryOK, EraOK, PostRejected
  <1>2. TablesOK'
    BY Cast DEF TypeInv, TablesOK, PCs, Verdicts, Reasons, PostRejected, Conclude
  <1>3. HeldOK'
    BY Cast DEF TypeInv, HeldOK, PostRejected, Conclude, Outdoes, Unsettled, Blob, Token
  <1>4. SetsOK'
    BY Cast DEF TypeInv, SetsOK, PostRejected, Outdoes, Unsettled
  <1>5. RoleOK'
    BY Cast DEF TypeInv, RoleOK, Refreshing, TablesOK, PostRejected, Conclude
  <1>6. HandOK'
    BY Cast DEF TypeInv, HandOK, Holds, TablesOK, HeldOK, RoleOK, Refreshing, PostRejected, Conclude, Outdoes, Unsettled, Blob, Token
  <1> QED
    BY <1>1, <1>2, <1>3, <1>4, <1>5, <1>6 DEF TypeInv

LEMMA TypePostFailed ==
  ASSUME NEW r \in Refreshers, TypeInv, PostFailed(r) PROVE TypeInv'
  <1>1. EntryOK' /\ EraOK'
    BY DEF TypeInv, EntryOK, EraOK, PostFailed
  <1>2. CountsOK'
    BY Cast DEF TypeInv, CountsOK, PostFailed
  <1>3. TablesOK'
    BY Cast DEF TypeInv, TablesOK, PCs, Verdicts, Reasons, PostFailed, Conclude
  <1>4. HeldOK'
    <2>1. live' \in [0..MaxFam -> 0..MaxGen \cup {None}]
      <3>1. CASE UNCHANGED live
        BY <3>1 DEF TypeInv, HeldOK
      <3>2. CASE Accepted(r) /\ Rotate(hand[r].tok.fam)
        BY <3>2, PostTypes DEF TypeInv, HeldOK, Rotate
      <3> QED
        BY <3>1, <3>2 DEF PostFailed
    <2>2. hand' = [hand EXCEPT ![r] = None]
      BY DEF PostFailed, Conclude
    <2> QED
      BY <2>1, <2>2 DEF TypeInv, HeldOK
  <1>5. SetsOK'
    BY Cast DEF TypeInv, SetsOK, PostFailed, Outdoes, Unsettled
  <1>6. RoleOK'
    BY Cast DEF TypeInv, RoleOK, Refreshing, TablesOK, PostFailed, Conclude
  <1>7. HandOK'
    BY Cast DEF TypeInv, HandOK, Holds, TablesOK, HeldOK, RoleOK, Refreshing, PostFailed, Accepted, Rotate, Conclude, Outdoes, Unsettled, Blob, Token
  <1> QED
    BY <1>1, <1>2, <1>3, <1>4, <1>5, <1>6, <1>7 DEF TypeInv

LEMMA TypeDelete ==
  ASSUME NEW x \in Actors, TypeInv, Delete(x) PROVE TypeInv'
  <1>1. EraOK'
    BY DEF TypeInv, EraOK, Delete
  <1>2. CountsOK'
    BY Cast DEF TypeInv, CountsOK, Delete
  <1>3. TablesOK'
    BY Cast DEF TypeInv, TablesOK, PCs, Verdicts, Reasons, Delete, Saved, Conclude
  <1>4. HeldOK'
    <2>1. Merged(x) \in Blob \/ hand[x] = None
      BY Cast DEF TypeInv, HeldOK, EntryOK, Merged, Blob
    <2>2. hand[x] # None
      BY Cast DEF TypeInv, HandOK, Holds, Delete
    <2>3. [hand[x] EXCEPT !.label = FALSE] \in Blob
      BY <2>2, Cast DEF TypeInv, HeldOK, Blob
    <2>4. \E b \in Blob \cup {None} : hand' = [hand EXCEPT ![x] = b]
      BY <2>1, <2>2, <2>3 DEF Delete, Saved, Conclude
    <2>5. UNCHANGED live
      BY DEF Delete
    <2> QED
      BY <2>4, <2>5 DEF TypeInv, HeldOK
  <1>5. EntryOK'
    BY Cast DEF TypeInv, EntryOK, Delete
  <1>6. SetsOK'
    BY Cast DEF TypeInv, SetsOK, Delete, Outdoes, Unsettled
  <1>7. RoleOK'
    BY Cast DEF TypeInv, RoleOK, Refreshing, TablesOK, Delete, Saved, Conclude
  <1>8. HandOK'
    <2>1. hand[x] # None /\ hand[x] \in Blob
      BY Cast DEF TypeInv, HeldOK, HandOK, Holds, Delete
    <2>2. Merged(x) # None /\ [hand[x] EXCEPT !.label = FALSE] # None
      BY <2>1, Cast DEF TypeInv, EntryOK, Merged, Blob
    <2>3. ASSUME NEW b, b # None, Goto(x, "add"), hand' = [hand EXCEPT ![x] = b] PROVE HandOK'
      BY <2>3, OneHand
    <2>4. CASE Saved(x)
      BY <2>4, OneHand DEF Saved, Conclude
    <2>5. CASE Goto(x, "add") /\ hand' = [hand EXCEPT ![x] = Merged(x)]
      BY <2>2, <2>3, <2>5
    <2>6. CASE Goto(x, "add") /\ hand' = [hand EXCEPT ![x].label = FALSE]
      BY <2>2, <2>3, <2>6
    <2> QED
      BY <2>4, <2>5, <2>6 DEF Delete
  <1> QED
    BY <1>1, <1>2, <1>3, <1>4, <1>5, <1>6, <1>7, <1>8 DEF TypeInv

LEMMA TypeAdd ==
  ASSUME NEW x \in Actors, TypeInv, Add(x) PROVE TypeInv'
  <1>1. EraOK'
    BY DEF TypeInv, EraOK, Add
  <1>2. CountsOK'
    <2>1. faults' \in 0..MaxFaults
      BY CountFault DEF Add
    <2>2. saved' \in 0..MaxFam
      <3>1. hand[x] \in Blob
        BY Cast DEF TypeInv, HeldOK, HandOK, Holds, Add
      <3> QED
        BY <3>1 DEF TypeInv, CountsOK, Add, Blob, Token
    <2> QED
      BY <2>1, <2>2 DEF TypeInv, CountsOK, Add
  <1>3. TablesOK'
    BY Cast DEF TypeInv, TablesOK, PCs, Verdicts, Reasons, Add, Saved, Conclude
  <1>4. HeldOK'
    BY Cast DEF TypeInv, HeldOK, Add, Saved, Conclude, Outdoes, Overtaken, Blob, Token
  <1>5. EntryOK'
    BY Cast DEF TypeInv, EntryOK, HeldOK, Add
  <1>6. SetsOK'
    BY Cast DEF TypeInv, SetsOK, Add, Outdoes, Overtaken
  <1>7. RoleOK'
    BY Cast DEF TypeInv, RoleOK, Refreshing, TablesOK, Add, Saved, Conclude
  <1>8. HandOK'
    <2>1. \/ Goto(x, "commit") /\ hand' = [hand EXCEPT ![x] = None]
          \/ Goto(x, "apply") /\ hand' = [hand EXCEPT ![x] = None]
      BY DEF Add, Saved, Conclude
    <2> QED
      BY <2>1, OneHand
  <1> QED
    BY <1>1, <1>2, <1>3, <1>4, <1>5, <1>6, <1>7, <1>8 DEF TypeInv

LEMMA TypeApply ==
  ASSUME NEW r \in Refreshers, TypeInv, Apply(r) PROVE TypeInv'
  <1>1. CountsOK' /\ EraOK'
    BY DEF TypeInv, CountsOK, EraOK, Apply
  <1>2. TablesOK'
    BY Cast DEF TypeInv, TablesOK, PCs, Verdicts, Reasons, Apply, Rest
  <1>3. HeldOK'
    BY Cast DEF TypeInv, HeldOK, Apply, Rest, SetFlag, Row
  <1>4. EntryOK'
    BY Cast DEF TypeInv, EntryOK, Apply, SetFlag, Row
  <1>5. SetsOK'
    BY Cast DEF TypeInv, SetsOK, Apply, Rest
  <1>6. RoleOK'
    BY Cast DEF TypeInv, RoleOK, Refreshing, TablesOK, Apply, Rest
  <1>7. HandOK'
    BY Cast DEF TypeInv, HandOK, Holds, TablesOK, HeldOK, RoleOK, Refreshing, Apply, Rest, SetFlag, Row
  <1> QED
    BY <1>1, <1>2, <1>3, <1>4, <1>5, <1>6, <1>7 DEF TypeInv

LEMMA TypeSignIn ==
  ASSUME NEW l \in Logins, TypeInv, SignIn(l) PROVE TypeInv'
  <1>1. EntryOK' /\ SetsOK' /\ EraOK'
    BY DEF TypeInv, EntryOK, SetsOK, EraOK, SignIn
  <1>2. CountsOK'
    BY Cast DEF TypeInv, CountsOK, SignIn
  <1>3. TablesOK'
    <2>1. pc' \in [Actors -> PCs]
      BY Cast DEF TypeInv, TablesOK, PCs, SignIn
    <2>2. loaded' \in [Actors -> Row \cup {None}]
      BY Cast DEF TypeInv, TablesOK, EntryOK, SignIn
    <2> QED
      BY <2>1, <2>2 DEF TypeInv, TablesOK, SignIn
  <1>4. HeldOK'
    BY Cast DEF TypeInv, HeldOK, CountsOK, SignIn, Blob, Token
  <1>5. RoleOK'
    BY Cast DEF TypeInv, RoleOK, Refreshing, TablesOK, SignIn
  <1>6. HandOK'
    <2>1. fams + 1 \in 0..MaxFam
      BY Cast DEF TypeInv, CountsOK, SignIn
    <2>2. [tok |-> [fam |-> fams + 1, gen |-> 0], label |-> TRUE] \in Blob
      BY <2>1, Cast DEF Blob, Token
    <2> QED
      BY <2>2, OneHand, Cast DEF SignIn
  <1> QED
    BY <1>1, <1>2, <1>3, <1>4, <1>5, <1>6 DEF TypeInv

LEMMA TypeCommitRelogin ==
  ASSUME NEW l \in Logins, TypeInv, CommitRelogin(l) PROVE TypeInv'
  <1>1. CountsOK' /\ EraOK'
    BY DEF TypeInv, CountsOK, EraOK, CommitRelogin
  <1>2. TablesOK'
    BY Cast DEF TypeInv, TablesOK, PCs, Verdicts, Reasons, CommitRelogin, Rest
  <1>3. HeldOK'
    BY Cast DEF TypeInv, HeldOK, CommitRelogin, Rest, SetFlag, Row
  <1>4. EntryOK'
    BY Cast DEF TypeInv, EntryOK, CommitRelogin, SetFlag, Row
  <1>5. SetsOK'
    BY Cast DEF TypeInv, SetsOK, CommitRelogin, Rest
  <1>6. RoleOK'
    BY Cast DEF TypeInv, RoleOK, Refreshing, TablesOK, CommitRelogin, Rest
  <1>7. HandOK'
    BY Cast DEF TypeInv, HandOK, Holds, TablesOK, HeldOK, RoleOK, Refreshing, CommitRelogin, Rest, SetFlag, Row
  <1> QED
    BY <1>1, <1>2, <1>3, <1>4, <1>5, <1>6, <1>7 DEF TypeInv

LEMMA TypeCommitLogin ==
  ASSUME NEW l \in Logins, TypeInv, CommitLogin(l) PROVE TypeInv'
  <1>1. EraOK'
    BY DEF TypeInv, EraOK, CommitLogin
  <1>2. CountsOK'
    BY Cast DEF TypeInv, CountsOK, CommitLogin, Row
  <1>3. TablesOK'
    BY Cast DEF TypeInv, TablesOK, PCs, Verdicts, Reasons, CommitLogin, Rest
  <1>4. HeldOK'
    BY Cast DEF TypeInv, HeldOK, CommitLogin, Rest, Row
  <1>5. EntryOK'
    <2>1. row' \in Row \cup {None}
      <3>1. CASE UNCHANGED row
        BY <3>1 DEF TypeInv, EntryOK
      <3>2. CASE \E i \in 0..MaxDeletes : row' = [id |-> i, stale |-> FALSE]
        BY <3>2 DEF Row
      <3> QED
        BY <3>1, <3>2 DEF CommitLogin
    <2> QED
      BY <2>1 DEF TypeInv, EntryOK, CommitLogin
  <1>6. SetsOK'
    BY Cast DEF TypeInv, SetsOK, CommitLogin, Rest
  <1>7. RoleOK'
    BY Cast DEF TypeInv, RoleOK, Refreshing, TablesOK, CommitLogin, Rest
  <1>8. HandOK'
    BY Cast DEF TypeInv, HandOK, Holds, TablesOK, HeldOK, RoleOK, Refreshing, CommitLogin, Rest, Row
  <1> QED
    BY <1>1, <1>2, <1>3, <1>4, <1>5, <1>6, <1>7, <1>8 DEF TypeInv

LEMMA TypeWipe ==
  ASSUME TypeInv, Wipe PROVE TypeInv'
  <1>1. TablesOK' /\ HeldOK' /\ RoleOK' /\ HandOK'
    BY DEF TypeInv, TablesOK, HeldOK, RoleOK, HandOK, Holds, Wipe
  <1>2. CountsOK'
    BY Cast DEF TypeInv, CountsOK, Wipe, Deleting
  <1>3. EntryOK'
    BY Cast DEF TypeInv, EntryOK, Wipe, Deleting
  <1>4. SetsOK'
    BY Cast DEF TypeInv, SetsOK, Wipe, Deleting, Outdoes, Unsettled
  <1>5. EraOK'
    BY Cast DEF TypeInv, EraOK, Wipe, Deleting, Outdoes, Unsettled
  <1> QED
    BY <1>1, <1>2, <1>3, <1>4, <1>5 DEF TypeInv

LEMMA TypeDropRow ==
  ASSUME TypeInv, DropRow PROVE TypeInv'
  <1>1. CountsOK' /\ TablesOK' /\ HeldOK' /\ SetsOK' /\ RoleOK' /\ HandOK'
    BY DEF TypeInv, CountsOK, TablesOK, HeldOK, SetsOK, RoleOK, HandOK, Holds, DropRow
  <1>2. EntryOK'
    BY Cast DEF TypeInv, EntryOK, DropRow, Deleting
  <1>3. EraOK'
    BY Cast DEF TypeInv, EraOK, DropRow, Deleting
  <1> QED
    BY <1>1, <1>2, <1>3 DEF TypeInv

LEMMA TypeForgetLock ==
  ASSUME TypeInv, ForgetLock PROVE TypeInv'
  <1>1. TablesOK' /\ HeldOK' /\ SetsOK' /\ RoleOK' /\ HandOK'
    BY DEF TypeInv, TablesOK, HeldOK, SetsOK, RoleOK, HandOK, Holds, ForgetLock
  <1>2. CountsOK'
    <2>1. era < MaxDeletes
      BY DEF TypeInv, EraOK, ForgetLock, Deleting
    <2>2. era' \in 0..MaxDeletes
      <3>1. era \in 0..MaxDeletes /\ era' = era + 1
        BY DEF TypeInv, CountsOK, ForgetLock
      <3> QED
        BY <2>1, <3>1, Cast
    <2> QED
      BY <2>2 DEF TypeInv, CountsOK, ForgetLock
  <1>3. EntryOK'
    BY Cast DEF TypeInv, EntryOK, ForgetLock, Deleting
  <1>4. EraOK'
    BY Cast DEF TypeInv, EraOK, ForgetLock, Deleting
  <1> QED
    BY <1>1, <1>2, <1>3, <1>4 DEF TypeInv

LEMMA TypeCrash ==
  ASSUME TypeInv, Crash PROVE TypeInv'
  <1>1. CountsOK'
    BY CountFault DEF TypeInv, CountsOK, Crash
  <1>2. TablesOK'
    BY Cast DEF TypeInv, TablesOK, PCs, Verdicts, Reasons, Crash
  <1>3. HeldOK'
    BY Cast DEF TypeInv, HeldOK, Crash
  <1>4. EntryOK'
    BY Cast DEF TypeInv, EntryOK, Crash
  <1>5. SetsOK'
    BY Cast DEF TypeInv, SetsOK, Crash
  <1>6. RoleOK'
    BY Cast DEF TypeInv, RoleOK, Refreshing, TablesOK, Crash
  <1>7. HandOK'
    BY Cast DEF TypeInv, HandOK, Holds, TablesOK, HeldOK, RoleOK, Refreshing, Crash
  <1>8. EraOK'
    BY Cast DEF TypeInv, EraOK, Crash
  <1> QED
    BY <1>1, <1>2, <1>3, <1>4, <1>5, <1>6, <1>7, <1>8 DEF TypeInv

LEMMA TypeInit == Init => TypeInv
  <1> SUFFICES ASSUME Init PROVE TypeInv
    OBVIOUS
  <1>0. 0 \in 0..MaxFam /\ 0 \in 0..MaxGen /\ 0 \in 0..MaxDeletes /\ 0 \in 0..MaxFaults
    BY Cast
  <1>1. PICK b \in Blob : vault = b
    BY DEF Init
  <1>2. row \in Row
    <2>1. PICK flag \in BOOLEAN : row = [id |-> 0, stale |-> flag]
      BY DEF Init
    <2> QED
      BY <1>0, <2>1 DEF Row
  <1>3. CountsOK /\ EntryOK /\ SetsOK /\ EraOK
    <2>1. /\ fams = 0 /\ saved = 0 /\ faults = 0 /\ era = 0 /\ lastId = 0
          /\ del = "idle" /\ spared = "no" /\ crossed = {} /\ outdone = {} /\ refused = {}
          /\ blind = {} /\ unsaved = {}
      BY DEF Init
    <2> QED
      BY <1>0, <1>1, <1>2, <2>1 DEF CountsOK, EntryOK, SetsOK, EraOK
  <1>4. TablesOK /\ RoleOK
    BY Cast DEF Init, TablesOK, PCs, Verdicts, RoleOK, Refreshing
  <1>5. HeldOK
    <2>1. live = [f \in 0..MaxFam |-> IF f = 0 THEN 0 ELSE None] /\ hand = [x \in Actors |-> None]
      BY DEF Init
    <2> QED
      BY <1>0, <2>1 DEF HeldOK
  <1>6. HandOK
    BY Cast DEF Init, HandOK, Holds
  <1> QED
    BY <1>3, <1>4, <1>5, <1>6 DEF TypeInv

LEMMA TypeStep == TypeInv /\ [Next]_vars => TypeInv'
  <1> SUFFICES ASSUME TypeInv, [Next]_vars PROVE TypeInv'
    OBVIOUS
  <1>1. CASE TickStart \/ Fetch \/ Throttled \/ \E r \in Revalidators : Revalidate(r)
    BY <1>1, TypeTickStart, TypeFetch, TypeThrottled, TypeRevalidate
  <1>2. ASSUME NEW r \in Refreshers, Refresh(r) PROVE TypeInv'
    BY <1>2, TypeGrab, TypePostAccepted, TypePostRejected, TypePostFailed, TypeApply DEF Refresh
  <1>3. ASSUME NEW x \in Actors, Delete(x) \/ Add(x) PROVE TypeInv'
    BY <1>3, TypeDelete, TypeAdd
  <1>4. ASSUME NEW l \in Logins, Login(l) PROVE TypeInv'
    BY <1>4, TypeSignIn, TypeCommitRelogin, TypeCommitLogin DEF Login
  <1>5. CASE Wipe \/ DropRow \/ ForgetLock \/ Crash
    BY <1>5, TypeWipe, TypeDropRow, TypeForgetLock, TypeCrash
  <1>6. CASE UNCHANGED vars
    BY <1>6 DEF vars, TypeInv, CountsOK, TablesOK, HeldOK, EntryOK, SetsOK, RoleOK, HandOK, Holds, EraOK
  <1> QED
    BY <1>1, <1>2, <1>3, <1>4, <1>5, <1>6 DEF Next

----------------------------------------------------------------------------
(* The entry: one writer, and what is wiped.                               *)

\* Steps that neither write the entry nor begin to.
LEMMA EntryFrame ==
  ASSUME TypeInv, EntryInv, UNCHANGED <<vault, del, spared>>,
         \A x \in Actors : pc'[x] = "add" => pc[x] = "add"
  PROVE  EntryInv'
  BY DEF EntryInv, WriterOK, Writing, SparedOK

LEMMA EntryOthers ==
  ASSUME TypeInv, EntryInv, NEW x \in Actors, NEW p, Goto(x, p), p # "add",
         UNCHANGED <<vault, del, spared>>
  PROVE  EntryInv'
  BY EntryFrame DEF TypeInv, TablesOK

LEMMA EntryDelete ==
  ASSUME TypeInv, EntryInv, NEW x \in Actors, Delete(x)
  PROVE  EntryInv'
  <1>1. pc' = [pc EXCEPT ![x] = pc'[x]] /\ (pc'[x] = "add" => vault' = None)
    BY DEF TypeInv, TablesOK, Delete, Saved, Conclude
  <1>2. (\A y \in Actors : ~At(y, "add")) /\ vault' \in {vault, None}
    BY DEF Delete, Writing
  <1>3. WriterOK'
    BY <1>1, <1>2 DEF TypeInv, TablesOK, WriterOK, Writing
  <1> QED
    BY <1>2, <1>3 DEF EntryInv, SparedOK, Delete

LEMMA EntryAdd ==
  ASSUME TypeInv, EntryInv, NEW x \in Actors, Add(x)
  PROVE  EntryInv'
  <1>1. \A y \in Actors : ~At(y, "add")'
    BY DEF TypeInv, TablesOK, EntryInv, WriterOK, Add, Saved, Conclude
  <1>2. SparedOK'
    BY DEF EntryInv, SparedOK, Add
  <1> QED
    BY <1>1, <1>2 DEF EntryInv, WriterOK, Writing

LEMMA EntryRemoval ==
  ASSUME TypeInv, EntryInv, Wipe \/ DropRow \/ ForgetLock \/ Crash
  PROVE  EntryInv'
  <1>1. CASE Wipe
    BY <1>1 DEF Wipe, Deleting, EntryInv, WriterOK, Writing, SparedOK
  <1>2. CASE DropRow \/ ForgetLock
    BY <1>2 DEF DropRow, ForgetLock, Deleting, EntryInv, WriterOK, Writing, SparedOK
  <1>3. CASE Crash
    BY <1>3 DEF Crash, EntryInv, WriterOK, Writing, SparedOK
  <1> QED
    BY <1>1, <1>2, <1>3

LEMMA EntryStep == TypeInv /\ EntryInv /\ [Next]_vars => EntryInv'
  <1> SUFFICES ASSUME TypeInv, EntryInv, [Next]_vars PROVE EntryInv'
    OBVIOUS
  <1>1. CASE TickStart \/ Fetch \/ Throttled
    BY <1>1, EntryOthers, Cast DEF TickStart, Fetch, Throttled, Conclude
  <1>2. ASSUME NEW r \in Revalidators, Revalidate(r) PROVE EntryInv'
    BY <1>2, EntryOthers, Cast DEF Revalidate
  <1>3. ASSUME NEW r \in Refreshers, Refresh(r) PROVE EntryInv'
    <2>1. CASE Grab(r)
      BY <2>1, EntryOthers, Cast DEF Grab, Conclude
    <2>2. CASE PostAccepted(r) \/ PostRejected(r) \/ PostFailed(r)
      BY <2>2, EntryOthers, Cast DEF PostAccepted, PostRejected, PostFailed, Conclude
    <2>3. CASE Apply(r)
      BY <2>3, EntryOthers, Cast DEF Apply, Rest
    <2> QED
      BY <1>3, <2>1, <2>2, <2>3 DEF Refresh
  <1>4. ASSUME NEW x \in Actors, Delete(x) \/ Add(x) PROVE EntryInv'
    BY <1>4, EntryDelete, EntryAdd
  <1>5. ASSUME NEW l \in Logins, Login(l) PROVE EntryInv'
    BY <1>5, EntryOthers, Cast DEF Login, SignIn, CommitRelogin, CommitLogin, Rest
  <1>6. CASE Wipe \/ DropRow \/ ForgetLock \/ Crash
    BY <1>6, EntryRemoval
  <1>7. CASE UNCHANGED vars
    BY <1>7, EntryFrame DEF vars
  <1> QED
    BY <1>1, <1>2, <1>3, <1>4, <1>5, <1>6, <1>7 DEF Next

----------------------------------------------------------------------------
(* Whose tokens are where.                                                 *)

\* Steps that bring no login's tokens anywhere new and forget nothing about those
\* who have some.
LEMMA TokenFrame ==
  ASSUME TypeInv', TokenInv, UNCHANGED <<saved, fams>>,
         vault' # None => vault # None /\ vault'.tok.fam = vault.tok.fam,
         \A x \in Actors : hand'[x] # None =>
           /\ hand[x] # None /\ hand'[x].tok.fam = hand[x].tok.fam
           /\ x \in crossed => x \in crossed'
           /\ x \in outdone => x \in outdone',
         \A l \in Logins :
           /\ pc'[l] \in {"write", "add"} => pc[l] \in {"write", "add"}
           /\ At(l, "write")' => At(l, "write")
  PROVE  TokenInv'
  <1>1. SavedOK' /\ FamOK'
    BY Cast DEF TokenInv, SavedOK, FamOK
  <1>2. FreshOK'
    BY Cast DEF TypeInv, HandOK, Holds, TokenInv, FreshOK
  <1>3. UnwrittenOK'
    BY Cast DEF TypeInv, HandOK, Holds, TokenInv, UnwrittenOK, FreshOK
  <1>4. ReadOK'
    BY Cast DEF TokenInv, ReadOK
  <1> QED
    BY <1>1, <1>2, <1>3, <1>4 DEF TokenInv


\* A refresher reads the entry.
LEMMA TokenRead ==
  ASSUME TypeInv, TypeInv', EntryInv, TokenInv, NEW r \in Refreshers, NEW p,
         Goto(r, p), p \in {"wait", "post"}, vault # None, hand' = [hand EXCEPT ![r] = vault],
         UNCHANGED <<vault, saved, fams, crossed, outdone>>
  PROVE  TokenInv'
  <1>1. /\ hand'[r] = vault /\ \A x \in Actors : x # r => hand'[x] = hand[x]
        /\ \A l \in Logins : pc'[l] = pc[l]
    BY Cast DEF TypeInv, HeldOK, TablesOK
  <1>2. vault.tok.fam = saved /\ saved \in Nat /\ fams \in Nat
    BY Cast DEF TokenInv, SavedOK, TypeInv, CountsOK
  <1>3. SavedOK' /\ FamOK'
    BY <1>1, <1>2 DEF TokenInv, SavedOK, FamOK
  <1>4. FreshOK'
    <2>1. \A l \in Logins : pc[l] \in {"write", "add"} => vault.tok.fam # hand[l].tok.fam
      BY Cast DEF TokenInv, UnwrittenOK, EntryInv, WriterOK, Writing
    <2> QED
      BY <1>1, <2>1, Cast DEF TokenInv, FreshOK
  <1>5. UnwrittenOK'
    BY <1>1, Cast DEF TokenInv, UnwrittenOK
  <1>6. ReadOK'
    BY <1>1, <1>2, Cast DEF TokenInv, ReadOK
  <1> QED
    BY <1>3, <1>4, <1>5, <1>6 DEF TokenInv

LEMMA TokenTick ==
  ASSUME TypeInv, TypeInv', EntryInv, TokenInv, TickStart \/ Fetch \/ Throttled
  PROVE  TokenInv'
  <1>1. CASE TickStart
    BY <1>1, TokenFrame, Cast DEF TickStart, TypeInv, TablesOK
  <1>2. ASSUME NEW v, Conclude(Tick, v), UNCHANGED <<vault, saved, fams, crossed, outdone>>
        PROVE  TokenInv'
    BY <1>2, TokenFrame, Cast DEF Conclude, TypeInv, TablesOK, HeldOK
  <1>3. CASE Fetch
    <2>1. PICK b \in {vault, None} : Fetch!2!(b)
      BY <1>3 DEF Fetch
    <2>2. UNCHANGED <<vault, saved, fams, crossed, outdone>>
      BY <1>3 DEF Fetch
    <2>3. CASE b # None /\ hand' = [hand EXCEPT ![Tick] = b] /\ Goto(Tick, "wait")
      BY <2>2, <2>3, TokenRead, Cast
    <2> QED
      BY <1>2, <2>1, <2>2, <2>3
  <1>4. CASE Throttled
    BY <1>2, <1>4 DEF Throttled
  <1> QED
    BY <1>1, <1>3, <1>4

LEMMA TokenRefresher ==
  ASSUME TypeInv, TypeInv', EntryInv, TokenInv, NEW r \in Refreshers,
         (r \in Revalidators /\ Revalidate(r)) \/ Refresh(r)
  PROVE  TokenInv'
  <1>1. CASE r \in Revalidators /\ Revalidate(r)
    BY <1>1, TokenFrame, Cast DEF Revalidate, TypeInv, TablesOK
  <1>2. ASSUME NEW v, Conclude(r, v), UNCHANGED <<vault, saved, fams, crossed>>,
               outdone \subseteq outdone'
        PROVE  TokenInv'
    BY <1>2, TokenFrame, Cast DEF Conclude, TypeInv, TablesOK, HeldOK
  <1>3. CASE Grab(r)
    <2>1. CASE hand[r] # None
      BY <1>3, <2>1, TokenFrame, Cast DEF Grab, TypeInv, TablesOK
    <2>2. CASE hand[r] = None
      <3>1. PICK b \in {vault, None} :
              IF b = None THEN Conclude(r, "missing")
              ELSE hand' = [hand EXCEPT ![r] = b] /\ Goto(r, "post")
        BY <1>3, <2>2 DEF Grab
      <3>2. UNCHANGED <<vault, saved, fams, crossed, outdone>>
        BY <1>3 DEF Grab
      <3> QED
        BY <1>2, <3>1, <3>2, TokenRead
    <2> QED
      BY <2>1, <2>2
  <1>4. CASE PostAccepted(r)
    <2>1. hand[r] # None /\ hand'[r].tok.fam = hand[r].tok.fam
      BY <1>4, PostTypes, Cast DEF PostAccepted, Accepted, TypeInv, HeldOK, Blob, Token
    <2>2. \A x \in Actors : x # r => hand'[x] = hand[x]
      BY <1>4 DEF PostAccepted, TypeInv, HeldOK
    <2>3. outdone \subseteq outdone'
      BY <1>4 DEF PostAccepted, Outdoes
    <2> QED
      BY <1>4, <2>1, <2>2, <2>3, TokenFrame, Cast DEF PostAccepted, TypeInv, TablesOK
  <1>5. CASE PostRejected(r) \/ PostFailed(r)
    BY <1>2, <1>5 DEF PostRejected, PostFailed, Outdoes
  <1>6. CASE Apply(r)
    BY <1>6, TokenFrame, Cast DEF Apply, Rest, TypeInv, TablesOK, HeldOK
  <1> QED
    BY <1>1, <1>3, <1>4, <1>5, <1>6 DEF Refresh

LEMMA TokenDelete ==
  ASSUME TypeInv, TypeInv', TokenInv, NEW x \in Actors, Delete(x)
  PROVE  TokenInv'
  <1>1. hand[x] # None /\ hand[x] \in Blob
    BY Cast DEF TypeInv, HeldOK, HandOK, Holds, Delete
  <1>2. hand'[x] # None => hand'[x].tok.fam = hand[x].tok.fam
    BY <1>1, Cast DEF TypeInv, HeldOK, Delete, Saved, Conclude, Merged, Blob
  <1>3. /\ \A y \in Actors : y # x => hand'[y] = hand[y] /\ pc'[y] = pc[y]
        /\ pc'[x] # "write"
    BY DEF TypeInv, HeldOK, TablesOK, Delete, Saved, Conclude
  <1>4. outdone \subseteq outdone' /\ (vault' = vault \/ vault' = None)
    BY DEF Delete, Outdoes
  <1> QED
    BY <1>1, <1>2, <1>3, <1>4, TokenFrame, Cast DEF Delete

LEMMA TokenRemoval ==
  ASSUME TypeInv, TypeInv', TokenInv, Wipe \/ DropRow \/ ForgetLock \/ Crash
  PROVE  TokenInv'
  <1>1. CASE Wipe
    BY <1>1, TokenFrame DEF Wipe, Outdoes
  <1>2. CASE DropRow \/ ForgetLock
    BY <1>2, TokenFrame DEF DropRow, ForgetLock
  <1>3. CASE Crash
    BY <1>3, TokenFrame, Cast DEF Crash
  <1> QED
    BY <1>1, <1>2, <1>3

LEMMA TokenSignIn ==
  ASSUME TypeInv, TypeInv', TokenInv, NEW l \in Logins, SignIn(l)
  PROVE  TokenInv'
  <1>1. /\ saved <= fams /\ saved \in Nat /\ fams \in Nat /\ fams' = fams + 1
        /\ UNCHANGED <<vault, saved, crossed, outdone>>
    BY Cast DEF TokenInv, FamOK, TypeInv, CountsOK, SignIn
  <1>2. /\ hand'[l].tok.fam = fams + 1
        /\ \A x \in Actors : x # l => hand'[x] = hand[x] /\ pc'[x] = pc[x]
    BY Cast DEF TypeInv, HeldOK, TablesOK, SignIn
  <1>3. \A x \in Actors : hand[x] # None => hand[x].tok.fam \in Nat /\ hand[x].tok.fam <= fams
    BY DEF TypeInv, HeldOK, Blob, Token, TokenInv, FamOK
  <1>4. SavedOK' /\ FamOK'
    BY <1>1, <1>2, <1>3 DEF TokenInv, SavedOK, FamOK
  <1>5. FreshOK'
    <2> SUFFICES ASSUME NEW k \in Logins, pc'[k] \in {"write", "add"},
                        NEW x \in Actors, x # k, hand'[x] # None
                 PROVE  hand'[x].tok.fam # hand'[k].tok.fam
      BY DEF FreshOK
    <2>1. CASE k = l
      BY <1>1, <1>2, <1>3, <2>1
    <2>2. CASE x = l
      <3>1. hand[k] # None
        BY <1>2, <2>2, Cast DEF TypeInv, HandOK, Holds
      <3> QED
        BY <1>1, <1>2, <1>3, <2>2, <3>1, Cast
    <2>3. CASE k # l /\ x # l
      BY <1>2, <2>3, Cast DEF TokenInv, FreshOK
    <2> QED
      BY <2>1, <2>2, <2>3
  <1>6. UnwrittenOK'
    BY <1>1, <1>2, Cast DEF TokenInv, UnwrittenOK, SavedOK
  <1>7. ReadOK'
    BY <1>1, <1>2, Cast DEF TokenInv, ReadOK
  <1> QED
    BY <1>4, <1>5, <1>6, <1>7 DEF TokenInv

LEMMA TokenCommit ==
  ASSUME TypeInv, TypeInv', TokenInv, NEW l \in Logins, CommitRelogin(l) \/ CommitLogin(l)
  PROVE  TokenInv'
  <1>1. CASE CommitRelogin(l)
    BY <1>1, TokenFrame, Cast DEF CommitRelogin, Rest, TypeInv, TablesOK, HeldOK
  <1>2. CASE CommitLogin(l)
    BY <1>2, TokenFrame, Cast DEF CommitLogin, Rest, TypeInv, TablesOK, HeldOK
  <1> QED
    BY <1>1, <1>2


\* Whoever has a blob is overtaken by whoever adds one.
LEMMA HoldersOvertaken ==
  ASSUME TypeInv, NEW r \in Refreshers, hand[r] # None
  PROVE  r \in Overtaken
  <1>1. Holds(r) /\ pc[r] # "write" /\ (r \in Revalidators => r # Tick)
    BY Cast DEF TypeInv, HandOK, RoleOK, Refreshing
  <1> QED
    BY <1>1, Cast DEF Holds, Overtaken, Locked

LEMMA TokenAdd ==
  ASSUME TypeInv, TypeInv', EntryInv, TokenInv, NEW x \in Actors, Add(x)
  PROVE  TokenInv'
  <1>1. /\ vault = None /\ hand[x] # None /\ hand[x] \in Blob
        /\ vault' = hand[x] \/ vault' = None
    BY Cast DEF TypeInv, HeldOK, HandOK, Holds, EntryInv, WriterOK, Writing, Add
  <1>2. /\ hand'[x] = None /\ pc'[x] \notin {"write", "add"}
        /\ \A y \in Actors : y # x => hand'[y] = hand[y] /\ pc'[y] = pc[y]
    BY DEF TypeInv, HeldOK, TablesOK, Add, Saved, Conclude
  <1>3. /\ UNCHANGED fams /\ outdone' = outdone \cup (Overtaken \ {x})
        /\ crossed \subseteq crossed'
    BY DEF Add, Outdoes
  <1>4. CASE vault' = None
    <2>1. UNCHANGED saved
      BY <1>4 DEF Add
    <2> QED
      BY <1>2, <1>3, <1>4, <2>1, TokenFrame, Cast
  <1>5. CASE vault' # None
    <2>1. /\ vault' = hand[x] /\ saved' = hand[x].tok.fam
          /\ x \in Logins \/ saved' > saved => crossed' = crossed \cup (Overtaken \ {x})
      BY <1>1, <1>5 DEF Add
    <2>2. SavedOK' /\ FamOK'
      BY <1>1, <1>2, <1>3, <2>1 DEF TokenInv, SavedOK, FamOK
    <2>3. FreshOK' /\ UnwrittenOK'
      BY <1>1, <1>2, <2>1, Cast DEF TokenInv, FreshOK, UnwrittenOK
    <2>4. ReadOK'
      <3> SUFFICES ASSUME NEW r \in Refreshers, hand'[r] # None
                   PROVE  /\ r \in outdone'
                          /\ hand'[r].tok.fam < saved' => r \in crossed'
        BY DEF ReadOK
      <3>1. r # x /\ hand'[r] = hand[r] /\ r \in Overtaken
        BY <1>2, HoldersOvertaken, Cast
      <3>2. CASE saved' > saved
        BY <1>3, <2>1, <3>1, <3>2
      <3>3. CASE ~(saved' > saved)
        <4>1. saved \in Nat /\ saved' \in Nat /\ hand[r].tok.fam \in Nat
          BY <3>1, Cast DEF TypeInv, CountsOK, HeldOK, Blob, Token
        <4> QED
          BY <1>3, <3>1, <3>3, <4>1 DEF TokenInv, ReadOK
      <3> QED
        BY <1>3, <3>1, <3>2, <3>3
    <2> QED
      BY <2>2, <2>3, <2>4 DEF TokenInv
  <1> QED
    BY <1>4, <1>5

LEMMA TokenStep == TypeInv /\ TypeInv' /\ EntryInv /\ TokenInv /\ [Next]_vars => TokenInv'
  <1> SUFFICES ASSUME TypeInv, TypeInv', EntryInv, TokenInv, [Next]_vars PROVE TokenInv'
    OBVIOUS
  <1>1. CASE TickStart \/ Fetch \/ Throttled
    BY <1>1, TokenTick
  <1>2. CASE (\E r \in Revalidators : Revalidate(r)) \/ (\E r \in Refreshers : Refresh(r))
    BY <1>2, TokenRefresher, Cast
  <1>3. ASSUME NEW x \in Actors, Delete(x) \/ Add(x) PROVE TokenInv'
    BY <1>3, TokenDelete, TokenAdd
  <1>4. ASSUME NEW l \in Logins, Login(l) PROVE TokenInv'
    BY <1>4, TokenSignIn, TokenCommit DEF Login
  <1>5. CASE Wipe \/ DropRow \/ ForgetLock \/ Crash
    BY <1>5, TokenRemoval
  <1>6. CASE UNCHANGED vars
    BY <1>6, TokenFrame DEF vars
  <1> QED
    BY <1>1, <1>2, <1>3, <1>4, <1>5, <1>6 DEF Next


----------------------------------------------------------------------------
(* What is known of the entry, and whether it is still so.                 *)

\* Nothing of an actor's own changes, and no note on it is lost.
Kept(y) ==
  /\ pc'[y] = pc[y] /\ hand'[y] = hand[y] /\ (y \in Refreshers => verdict'[y] = verdict[y])
  /\ (y \in crossed => y \in crossed') /\ (y \in outdone => y \in outdone')
  /\ (y \in blind => y \in blind') /\ (y \in unsaved => y \in unsaved')
  /\ (y = Tick => refused' = refused)

\* The entry is as good as it was.
SameEntry == (Takes(vault)' <=> Takes(vault)) /\ (vault = None <=> vault' = None)

\* What keeps a bystander honest: that it is told, that it has nothing to say yet,
\* or that what it has to say is as true as before.
LEMMA Bystander ==
  ASSUME NEW y \in Actors, Honest(y), Kept(y),
         \/ y \in outdone'
         \/ pc[y] \in {"idle", "fetch", "wait", "post"}
         \/ At(y, "write") /\ (Takes(hand[y]) => Takes(hand[y])')
         \/ SameEntry /\ (hand[y] # None => (Takes(hand[y]) => Takes(hand[y])'))
  PROVE  Honest(y)'
  <1>1. CASE y \in outdone'
    BY <1>1 DEF Honest, Good, Clear, Missing, Refused
  <1>2. CASE pc[y] \in {"idle", "fetch", "wait", "post"}
    BY <1>2 DEF Kept, Honest, Good, Clear, Missing, Refused
  <1>3. CASE At(y, "write") /\ (Takes(hand[y]) => Takes(hand[y])')
    BY <1>3 DEF Kept, Honest, Good, Clear, Missing, Refused
  <1>4. CASE SameEntry /\ (hand[y] # None => (Takes(hand[y]) => Takes(hand[y])'))
    <2>1. Good(y)'
      BY <1>4 DEF Kept, Honest, Good, Takes
    <2>2. Clear(y)' /\ Missing(y)' /\ Refused(y)'
      BY <1>4 DEF SameEntry, Kept, Honest, Clear, Missing, Refused
    <2> QED
      BY <2>1, <2>2 DEF Honest
  <1> QED
    BY <1>1, <1>2, <1>3, <1>4

\* Steps of one actor that leave the entry and the server as they are.
LEMMA FlagOne ==
  ASSUME FlagInv, NEW x \in Actors, Honest(x)', AskedOK', UNCHANGED <<vault, live>>,
         \A y \in Actors : y # x => Kept(y)
  PROVE  FlagInv'
  <1>1. SameEntry
    BY DEF SameEntry, Takes
  <1>2. ASSUME NEW y \in Actors, y # x PROVE Honest(y)'
    <2>1. Kept(y) /\ Honest(y)
      BY <1>2 DEF FlagInv
    <2>2. Takes(hand[y]) => Takes(hand[y])'
      BY <2>1 DEF Kept, Takes
    <2> QED
      BY <1>1, <2>1, <2>2, Bystander
  <1> QED
    BY <1>2 DEF FlagInv

\* A refresher that goes on, or comes to a verdict that says nothing of the entry.
LEMMA Silent ==
  ASSUME NEW r \in Refreshers,
         \/ pc'[r] \in {"idle", "fetch", "wait", "post"}
         \/ At(r, "apply")' /\ verdict'[r] \in {"keep", "failing", "later", "again"}
  PROVE  Honest(r)'
  BY Cast DEF Honest, Good, Clear, Missing, Refused

\* A lookup that finds nothing.
LEMMA FlagMissing ==
  ASSUME TypeInv, NEW r \in Refreshers, Lookup(r, None), Conclude(r, "missing"), UNCHANGED vault
  PROVE  Honest(r)'
  <1>1. vault' = None \/ r \in blind'
    BY DEF Lookup
  <1>2. At(r, "apply")' /\ verdict'[r] = "missing"
    BY Cast DEF Conclude, TypeInv, TablesOK
  <1> QED
    BY <1>1, <1>2, Cast DEF Honest, Good, Clear, Missing, Refused

LEMMA FlagTick ==
  ASSUME TypeInv, TypeInv', FlagInv, TickStart \/ Fetch \/ Throttled
  PROVE  FlagInv'
  <1>1. /\ \A y \in Actors : y # Tick => Kept(y)
        /\ UNCHANGED <<vault, live>>
    BY Cast DEF Kept, TickStart, Fetch, Throttled, Lookup, Conclude, TypeInv, TablesOK, HeldOK
  <1>2. AskedOK'
    BY Cast DEF FlagInv, AskedOK, TickStart, Fetch, Throttled, Conclude, TypeInv, TablesOK
  <1>3. Conclude(Tick, "keep") => Honest(Tick)'
    BY Silent, Cast DEF Conclude, TypeInv, TablesOK
  <1>4. CASE TickStart
    <2>1. Honest(Tick)'
      BY <1>4, Silent, Cast DEF TickStart, TypeInv, TablesOK
    <2> QED
      BY <1>1, <1>2, <2>1, FlagOne, Cast
  <1>5. CASE Throttled
    <2>1. Honest(Tick)'
      BY <1>3, <1>5 DEF Throttled
    <2> QED
      BY <1>1, <1>2, <2>1, FlagOne, Cast
  <1>6. CASE Fetch
    <2>1. Honest(Tick)'
      <3>1. PICK b \in {vault, None} : Fetch!2!(b)
        BY <1>6 DEF Fetch
      <3>2. CASE b = None /\ Conclude(Tick, "missing")
        BY <3>1, <3>2, <1>1, FlagMissing, Cast
      <3>3. CASE Conclude(Tick, "clear") /\ UNCHANGED refused
        <4>1. Tick \notin refused'
          BY <1>6, <3>3 DEF FlagInv, AskedOK, Fetch
        <4>2. At(Tick, "apply")' /\ verdict'[Tick] = "clear"
          BY <3>3, Cast DEF Conclude, TypeInv, TablesOK
        <4> QED
          BY <4>1, <4>2, Cast DEF Honest, Good, Clear, Missing, Refused
      <3>4. CASE Conclude(Tick, "keep")
        BY <1>3, <3>4
      <3>5. CASE Goto(Tick, "wait")
        BY <3>5, Silent, Cast DEF TypeInv, TablesOK
      <3> QED
        BY <3>1, <3>2, <3>3, <3>4, <3>5
    <2> QED
      BY <1>1, <1>2, <2>1, FlagOne, Cast
  <1> QED
    BY <1>4, <1>5, <1>6

\* The tick has been refused, or is at rest with that forgotten.
LEMMA StillAsked ==
  ASSUME TypeInv, FlagInv, NEW x \in Actors, NEW p, Goto(x, p), p \notin {"idle", "fetch"},
         UNCHANGED refused
  PROVE  AskedOK'
  BY Cast DEF TypeInv, TablesOK, FlagInv, AskedOK

LEMMA FlagGrab ==
  ASSUME TypeInv, TypeInv', FlagInv, NEW r \in Refreshers,
         (r \in Revalidators /\ Revalidate(r)) \/ Grab(r)
  PROVE  FlagInv'
  <1>1. /\ \A y \in Actors : y # r => Kept(y)
        /\ UNCHANGED <<vault, live, refused>>
    BY Cast DEF Kept, Revalidate, Grab, Lookup, Conclude, TypeInv, TablesOK, HeldOK
  <1>2. AskedOK'
    BY <1>1, StillAsked, Cast DEF Revalidate, Grab, Conclude
  <1>3. ASSUME NEW p \in {"wait", "post"}, Goto(r, p) PROVE Honest(r)'
    BY <1>3, Silent, Cast DEF TypeInv, TablesOK
  <1>4. CASE r \in Revalidators /\ Revalidate(r)
    BY <1>1, <1>2, <1>3, <1>4, FlagOne, Cast DEF Revalidate
  <1>5. CASE Grab(r)
    <2>1. CASE hand[r] # None
      BY <1>1, <1>2, <1>3, <1>5, <2>1, FlagOne, Cast DEF Grab
    <2>2. CASE hand[r] = None
      <3>1. PICK b \in {vault, None} :
              /\ Lookup(r, b)
              /\ IF b = None THEN Conclude(r, "missing")
                 ELSE hand' = [hand EXCEPT ![r] = b] /\ Goto(r, "post")
        BY <1>5, <2>2 DEF Grab
      <3>2. Honest(r)'
        BY <1>1, <1>3, <3>1, FlagMissing
      <3> QED
        BY <1>1, <1>2, <3>2, FlagOne, Cast
    <2> QED
      BY <2>1, <2>2
  <1> QED
    BY <1>4, <1>5

\* An actor that returns to rest.
LEMMA FlagRest ==
  ASSUME TypeInv, TypeInv', FlagInv, NEW x \in Actors, Rest(x), UNCHANGED <<vault, live>>,
         x \in Refreshers \/ UNCHANGED verdict,
         x \in Refreshers => \A r \in Refreshers : r # x => verdict'[r] = verdict[r]
  PROVE  FlagInv'
  <1>1. \A y \in Actors : y # x => Kept(y)
    BY Cast DEF Kept, Rest, TypeInv, TablesOK, HeldOK, SetsOK
  <1>2. AskedOK'
    BY Cast DEF Rest, TypeInv, TablesOK, SetsOK, FlagInv, AskedOK
  <1>3. Honest(x)'
    BY Cast DEF Rest, TypeInv, TablesOK, Honest, Good, Clear, Missing, Refused
  <1> QED
    BY <1>1, <1>2, <1>3, FlagOne

LEMMA FlagCommit ==
  ASSUME TypeInv, TypeInv', FlagInv,
         \/ \E r \in Refreshers : Apply(r)
         \/ \E l \in Logins : CommitRelogin(l) \/ CommitLogin(l)
  PROVE  FlagInv'
  <1>1. ASSUME NEW r \in Refreshers, Apply(r) PROVE FlagInv'
    BY <1>1, FlagRest, Cast DEF Apply, TypeInv, TablesOK
  <1>2. ASSUME NEW l \in Logins, CommitRelogin(l) \/ CommitLogin(l) PROVE FlagInv'
    BY <1>2, FlagRest, Cast DEF CommitRelogin, CommitLogin
  <1> QED
    BY <1>1, <1>2

\* The answer to a refresh is news to everybody but those about to write the tokens
\* of a login of their own.
LEMMA PostOthers ==
  ASSUME TypeInv, TokenInv, FlagInv, NEW r \in Refreshers, At(r, "post"), Outdoes(r, Unsettled),
         \A f \in 0..MaxFam : f # hand[r].tok.fam => live'[f] = live[f],
         NEW y \in Actors, y # r, Kept(y)
  PROVE  Honest(y)'
  <1>1. Honest(y)
    BY DEF FlagInv
  <1>2. CASE At(y, "write")
    <2>1. y \in Logins /\ hand[y] # None /\ hand[r] # None /\ hand[y] \in Blob
      BY <1>2, Cast DEF TypeInv, RoleOK, Refreshing, HandOK, Holds, HeldOK
    <2>2. hand[r].tok.fam # hand[y].tok.fam /\ hand[y].tok.fam \in 0..MaxFam
      BY <1>2, <2>1, Cast DEF TokenInv, FreshOK, Blob, Token
    <2> QED
      BY <1>1, <1>2, <2>2, Bystander DEF Kept, Takes
  <1>3. CASE ~At(y, "write")
    <2>1. y \in outdone' \/ pc[y] \in {"idle", "fetch", "wait", "post"}
      BY <1>3, Cast DEF Outdoes, Unsettled, TypeInv, RoleOK, Refreshing
    <2> QED
      BY <1>1, <2>1, Bystander
  <1> QED
    BY <1>2, <1>3

LEMMA FlagPostAccepted ==
  ASSUME TypeInv, TypeInv', TokenInv, FlagInv, NEW r \in Refreshers, PostAccepted(r)
  PROVE  FlagInv'
  <1>1. /\ hand[r] \in Blob /\ hand[r].tok.fam \in 0..MaxFam
        /\ live[hand[r].tok.fam] = hand[r].tok.gen
    BY PostTypes DEF PostAccepted, Accepted
  <1>2. \A f \in 0..MaxFam : f # hand[r].tok.fam => live'[f] = live[f]
    BY DEF PostAccepted, Rotate, TypeInv, HeldOK
  <1>3. \A y \in Actors : y # r => Kept(y)
    BY Cast DEF Kept, PostAccepted, Outdoes, TypeInv, TablesOK, HeldOK
  <1>4. AskedOK'
    BY StillAsked, Cast DEF PostAccepted
  <1>5. Honest(r)'
    <2>1. At(r, "save")'
      BY Cast DEF PostAccepted, TypeInv, TablesOK
    <2>2. /\ hand'[r] # None /\ hand'[r].tok.fam = hand[r].tok.fam
          /\ hand'[r].tok.gen = hand[r].tok.gen + 1
      BY <1>1, <2>1, Cast DEF PostAccepted, TypeInv, HeldOK, HandOK, Holds, Blob, Token
    <2>3. live'[hand[r].tok.fam] = live[hand[r].tok.fam] + 1
      BY <1>1 DEF PostAccepted, Rotate, TypeInv, HeldOK
    <2>4. Takes(hand[r])'
      BY <1>1, <2>2, <2>3 DEF Takes
    <2> QED
      BY <2>1, <2>4, Cast DEF Honest, Good, Clear, Missing, Refused
  <1> QED
    BY <1>2, <1>3, <1>4, <1>5, PostOthers DEF PostAccepted, Accepted, FlagInv

LEMMA FlagPostRejected ==
  ASSUME TypeInv, TypeInv', TokenInv, FlagInv, NEW r \in Refreshers, PostRejected(r)
  PROVE  FlagInv'
  <1>1. \A f \in 0..MaxFam : f # hand[r].tok.fam => live'[f] = live[f]
    BY DEF PostRejected, TypeInv, HeldOK
  <1>2. \A y \in Actors : y # r => Kept(y)
    BY Cast DEF Kept, PostRejected, Conclude, Outdoes, TypeInv, TablesOK, HeldOK
  <1>3. AskedOK'
    BY StillAsked, Cast DEF PostRejected, Conclude
  <1>4. At(r, "apply")' /\ verdict'[r] = "refused"
    BY Cast DEF PostRejected, Conclude, TypeInv, TablesOK
  <1>5. ~Takes(vault)' \/ r \in crossed' \cup outdone'
    <2> SUFFICES ASSUME vault # None, r \notin crossed \cup outdone
                 PROVE  live'[vault.tok.fam] # vault.tok.gen
      BY DEF Takes, PostRejected, Outdoes
    <2>1. hand[r] # None /\ hand[r] \in Blob /\ vault \in Blob
      <3>1. Holds(r)
        BY DEF PostRejected, Holds
      <3> QED
        BY <3>1, Cast DEF TypeInv, HandOK, HeldOK, EntryOK
    <2>2. /\ hand[r].tok.fam \in 0..MaxFam /\ vault.tok.fam \in 0..MaxFam
          /\ vault.tok.gen \in Nat
      BY <2>1, Cast DEF Blob, Token
    <2>3. hand[r].tok.fam = vault.tok.fam
      BY <2>1, <2>2, Cast DEF TokenInv, SavedOK, ReadOK
    <2> QED
      BY <2>2, <2>3, Cast DEF PostRejected, TypeInv, HeldOK
  <1>6. Honest(r)'
    BY <1>4, <1>5, Cast DEF Honest, Good, Clear, Missing, Refused
  <1> QED
    BY <1>1, <1>2, <1>3, <1>6, PostOthers DEF PostRejected, FlagInv

LEMMA FlagPostFailed ==
  ASSUME TypeInv, TypeInv', TokenInv, FlagInv, NEW r \in Refreshers, PostFailed(r)
  PROVE  FlagInv'
  <1>1. \A f \in 0..MaxFam : f # hand[r].tok.fam => live'[f] = live[f]
    BY DEF PostFailed, Rotate, TypeInv, HeldOK
  <1>2. \A y \in Actors : y # r => Kept(y)
    BY Cast DEF Kept, PostFailed, Conclude, Outdoes, TypeInv, TablesOK, HeldOK
  <1>3. AskedOK'
    <2>1. Goto(r, "apply") /\ UNCHANGED refused
      BY DEF PostFailed, Conclude
    <2> QED
      BY <2>1, StillAsked, Cast
  <1>4. At(r, "apply")' /\ verdict'[r] \in {"keep", "failing", "later"}
    BY Cast DEF PostFailed, Conclude, TypeInv, TablesOK
  <1>5. Honest(r)'
    BY <1>4, Silent
  <1> QED
    BY <1>1, <1>2, <1>3, <1>5, PostOthers DEF PostFailed, FlagInv

LEMMA FlagDelete ==
  ASSUME TypeInv, TypeInv', FlagInv, NEW x \in Actors, Delete(x)
  PROVE  FlagInv'
  <1>1. \A y \in Actors : y # x => Kept(y)
    BY Cast DEF Kept, Delete, Saved, Conclude, Outdoes, TypeInv, TablesOK, HeldOK
  <1>2. AskedOK'
    <2>1. UNCHANGED refused /\ \E p \in {"add", "apply", "commit"} : Goto(x, p)
      BY DEF Delete, Saved, Conclude
    <2> QED
      BY <2>1, StillAsked
  <1>3. UNCHANGED live /\ outdone' = outdone \cup (Unsettled \ {x})
    BY DEF Delete, Outdoes
  <1>4. ASSUME NEW y \in Actors, y # x PROVE Honest(y)'
    <2>1. Honest(y) /\ Kept(y)
      BY <1>1, <1>4 DEF FlagInv
    <2>2. \/ y \in outdone' \/ pc[y] \in {"idle", "fetch", "wait", "post"}
          \/ At(y, "write")
      BY <1>3, <1>4, Cast DEF Unsettled, TypeInv, RoleOK, Refreshing
    <2>3. Takes(hand[y]) => Takes(hand[y])'
      BY <1>3, <2>1 DEF Kept, Takes
    <2> QED
      BY <2>1, <2>2, <2>3, Bystander
  <1>5. Honest(x)'
    <2>1. CASE Saved(x) /\ unsaved' = unsaved \cup {x}
      <3>1. At(x, "commit")' \/ (At(x, "apply")' /\ verdict'[x] \in {"clear", "again"})
        BY <2>1, Cast DEF Saved, Conclude, TypeInv, TablesOK
      <3> QED
        BY <2>1, <3>1, Cast DEF Honest, Good, Clear, Missing, Refused
    <2>2. CASE /\ Goto(x, "add")
               /\ \/ hand' = [hand EXCEPT ![x] = Merged(x)]
                  \/ hand' = [hand EXCEPT ![x].label = FALSE]
      <3>1. hand[x] # None /\ hand[x] \in Blob
        BY Cast DEF TypeInv, HeldOK, HandOK, Holds, Delete
      <3>2. hand'[x] # None /\ hand'[x].tok = hand[x].tok
        BY <2>2, <3>1, Cast DEF TypeInv, TablesOK, HeldOK, HandOK, Holds, Merged, Blob
      <3>3. Takes(hand[x]) => Takes(hand[x])'
        BY <1>3, <3>2 DEF Takes
      <3>4. Good(x) /\ pc[x] \in {"save", "write"} /\ At(x, "add")'
        BY <2>2 DEF FlagInv, Honest, Delete, TypeInv, TablesOK
      <3> QED
        BY <1>3, <3>3, <3>4 DEF Honest, Good, Clear, Missing, Refused
    <2> QED
      BY <2>1, <2>2 DEF Delete
  <1> QED
    BY <1>2, <1>4, <1>5 DEF FlagInv

LEMMA FlagAdd ==
  ASSUME TypeInv, TypeInv', EntryInv, FlagInv, NEW x \in Actors, Add(x)
  PROVE  FlagInv'
  <1>1. \A y \in Actors : y # x => Kept(y)
    BY Cast DEF Kept, Add, Saved, Conclude, Outdoes, TypeInv, TablesOK, HeldOK
  <1>2. AskedOK'
    <2>1. UNCHANGED refused /\ \E p \in {"apply", "commit"} : Goto(x, p)
      BY DEF Add, Saved, Conclude
    <2> QED
      BY <2>1, StillAsked
  <1>3. UNCHANGED live /\ outdone' = outdone \cup (Overtaken \ {x})
    BY DEF Add, Outdoes
  <1>4. ASSUME NEW y \in Actors, y # x PROVE Honest(y)'
    <2>1. Honest(y) /\ Kept(y)
      BY <1>1, <1>4 DEF FlagInv
    <2>2. y \in outdone' \/ pc[y] \in {"idle", "fetch", "wait", "post"}
      BY <1>3, <1>4, Cast DEF Overtaken, Locked, TypeInv, RoleOK, Refreshing
    <2> QED
      BY <2>1, <2>2, Bystander
  <1>5. Honest(x)'
    <2>1. At(x, "commit")' \/ (At(x, "apply")' /\ verdict'[x] \in {"clear", "again"})
      BY Cast DEF Add, Saved, Conclude, TypeInv, TablesOK
    <2>2. x \in unsaved' \/ vault' = hand[x]
      BY Cast DEF Add, TypeInv, CountsOK
    <2>3. CASE vault' = hand[x]
      <3>1. Takes(hand[x]) \/ x \in outdone
        BY DEF FlagInv, Honest, Good, Add
      <3>2. Takes(vault)' \/ x \in outdone'
        BY <1>3, <2>3, <3>1 DEF Takes
      <3> QED
        BY <2>1, <3>2, Cast DEF Honest, Good, Clear, Missing, Refused
    <2>4. CASE x \in unsaved'
      BY <2>1, <2>4, Cast DEF Honest, Good, Clear, Missing, Refused
    <2> QED
      BY <2>2, <2>3, <2>4
  <1> QED
    BY <1>2, <1>4, <1>5 DEF FlagInv

LEMMA FlagSignIn ==
  ASSUME TypeInv, TypeInv', TokenInv, FlagInv, NEW l \in Logins, SignIn(l)
  PROVE  FlagInv'
  <1>1. \A y \in Actors : y # l => Kept(y)
    BY Cast DEF Kept, SignIn, TypeInv, TablesOK, HeldOK
  <1>2. AskedOK'
    BY StillAsked, Cast DEF SignIn
  <1>3. /\ fams \in Nat /\ fams + 1 \in 0..MaxFam
        /\ live'[fams + 1] = 0 /\ UNCHANGED <<vault, outdone>>
        /\ \A f \in 0..MaxFam : f <= fams => live'[f] = live[f]
    BY Cast DEF SignIn, TypeInv, CountsOK, HeldOK
  <1>4. SameEntry
    <2>1. vault # None => vault.tok.fam \in 0..MaxFam /\ vault.tok.fam <= fams
      BY <1>3, Cast DEF TokenInv, SavedOK, FamOK, TypeInv, CountsOK
    <2> QED
      BY <1>3, <2>1 DEF SameEntry, Takes
  <1>5. ASSUME NEW y \in Actors, y # l PROVE Honest(y)'
    <2>1. Honest(y) /\ Kept(y)
      BY <1>1, <1>5 DEF FlagInv
    <2>2. hand[y] # None => hand[y].tok.fam \in 0..MaxFam /\ hand[y].tok.fam <= fams
      BY Cast DEF TokenInv, FamOK, TypeInv, HeldOK, Blob, Token
    <2>3. hand[y] # None => (Takes(hand[y]) => Takes(hand[y])')
      BY <1>3, <2>1, <2>2 DEF Kept, Takes
    <2> QED
      BY <1>4, <2>1, <2>3, Bystander
  <1>6. Honest(l)'
    <2>1. At(l, "write")' /\ hand'[l] = [tok |-> [fam |-> fams + 1, gen |-> 0], label |-> TRUE]
      BY Cast DEF SignIn, TypeInv, TablesOK, HeldOK
    <2>2. hand'[l] # None
      BY <2>1, Cast DEF TypeInv, HandOK, Holds
    <2>3. Takes(hand[l])'
      BY <1>3, <2>1, <2>2 DEF Takes
    <2> QED
      BY <2>1, <2>3 DEF Honest, Good, Clear, Missing, Refused
  <1> QED
    BY <1>2, <1>5, <1>6 DEF FlagInv

\* Nobody's step.
LEMMA FlagNobody ==
  ASSUME TypeInv, TypeInv', FlagInv,
         UNCHANGED <<live, pc, hand, verdict, crossed, refused, blind, unsaved>>,
         \/ UNCHANGED <<vault, outdone>>
         \/ Outdoes(None, Unsettled)
  PROVE  FlagInv'
  <1>1. AskedOK'
    BY DEF FlagInv, AskedOK
  <1>2. ASSUME NEW y \in Actors PROVE Honest(y)'
    <2>1. Honest(y) /\ Kept(y)
      BY DEF FlagInv, Kept, Outdoes
    <2>2. Takes(hand[y]) => Takes(hand[y])'
      BY DEF Takes
    <2>3. CASE UNCHANGED <<vault, outdone>>
      BY <2>1, <2>2, <2>3, Bystander DEF SameEntry, Takes
    <2>4. CASE Outdoes(None, Unsettled)
      <3>1. \/ y \in outdone' \/ pc[y] \in {"idle", "fetch", "wait", "post"}
            \/ At(y, "write")
        BY <2>4, Cast DEF Outdoes, Unsettled, TypeInv, RoleOK, Refreshing
      <3> QED
        BY <2>1, <2>2, <3>1, Bystander
    <2> QED
      BY <2>3, <2>4
  <1> QED
    BY <1>1, <1>2 DEF FlagInv

LEMMA FlagRemoval ==
  ASSUME TypeInv, TypeInv', FlagInv, Wipe \/ DropRow \/ ForgetLock \/ Crash
  PROVE  FlagInv'
  <1>1. CASE Wipe \/ DropRow \/ ForgetLock
    BY <1>1, FlagNobody DEF Wipe, DropRow, ForgetLock
  <1>2. CASE Crash
    <2>1. \A x \in Actors : pc'[x] = "idle"
      BY <1>2 DEF Crash
    <2>2. refused' = {}
      BY <1>2 DEF Crash
    <2> QED
      BY <2>1, <2>2 DEF FlagInv, AskedOK, Honest, Good, Clear, Missing, Refused
  <1> QED
    BY <1>1, <1>2

LEMMA FlagStep ==
  TypeInv /\ TypeInv' /\ EntryInv /\ TokenInv /\ FlagInv /\ [Next]_vars => FlagInv'
  <1> SUFFICES ASSUME TypeInv, TypeInv', EntryInv, TokenInv, FlagInv, [Next]_vars
               PROVE  FlagInv'
    OBVIOUS
  <1>1. CASE TickStart \/ Fetch \/ Throttled
    BY <1>1, FlagTick
  <1>2. CASE \E r \in Revalidators : Revalidate(r)
    BY <1>2, FlagGrab, Cast
  <1>3. ASSUME NEW r \in Refreshers, Refresh(r) PROVE FlagInv'
    BY <1>3, FlagGrab, FlagPostAccepted, FlagPostRejected, FlagPostFailed, FlagCommit DEF Refresh
  <1>4. ASSUME NEW x \in Actors, Delete(x) \/ Add(x) PROVE FlagInv'
    BY <1>4, FlagDelete, FlagAdd
  <1>5. ASSUME NEW l \in Logins, Login(l) PROVE FlagInv'
    BY <1>5, FlagSignIn, FlagCommit DEF Login
  <1>6. CASE Wipe \/ DropRow \/ ForgetLock \/ Crash
    BY <1>6, FlagRemoval
  <1>7. CASE UNCHANGED vars
    BY <1>7, FlagNobody DEF vars
  <1> QED
    BY <1>1, <1>2, <1>3, <1>4, <1>5, <1>6, <1>7 DEF Next

----------------------------------------------------------------------------
(* The theorems.                                                           *)

LEMMA InitIInv == Init => IInv
  <1> SUFFICES ASSUME Init PROVE IInv
    OBVIOUS
  <1>1. TypeInv
    BY TypeInit
  <1>2. /\ \A x \in Actors : pc[x] = "idle" /\ hand[x] = None
        /\ del = "idle" /\ saved = 0 /\ fams = 0 /\ refused = {}
    BY Cast DEF Init
  <1>3. vault.tok.fam = 0
    BY DEF Init
  <1>4. EntryInv
    BY <1>2 DEF EntryInv, WriterOK, Writing, SparedOK
  <1>5. TokenInv
    BY <1>2, <1>3, Cast DEF TokenInv, SavedOK, FamOK, FreshOK, UnwrittenOK, ReadOK
  <1>6. FlagInv
    BY <1>2 DEF FlagInv, AskedOK, Honest, Good, Clear, Missing, Refused
  <1> QED
    BY <1>1, <1>4, <1>5, <1>6 DEF IInv

LEMMA StepIInv == IInv /\ [Next]_vars => IInv'
  BY TypeStep, EntryStep, TokenStep, FlagStep DEF IInv

LEMMA Invariant == Spec => []IInv
  BY InitIInv, StepIInv, PTL DEF Spec

\* Every variable has its type: the actors are at points of their own code, a
\* token in hand is of a login that has been, a lock is one that was handed out.
THEOREM TypeCorrect == Spec => []TypeOK
  <1>1. IInv => TypeOK
    BY TypeParts DEF IInv, TypeInv
  <1> QED
    BY Invariant, <1>1, PTL

\* Only an add changes whose tokens the entry was last given.
LEMMA SavedStep ==
  ASSUME [Next]_vars, saved' # saved PROVE \E x \in Actors : Add(x)
  <1>1. ~(TickStart \/ Fetch \/ Throttled) /\ ~(\E r \in Revalidators : Revalidate(r))
    BY DEF TickStart, Fetch, Throttled, Revalidate
  <1>2. ~(\E r \in Refreshers : Refresh(r))
    BY DEF Refresh, Grab, PostAccepted, PostRejected, PostFailed, Apply
  <1>3. ~(\E x \in Actors : Delete(x)) /\ ~(\E l \in Logins : Login(l))
    BY DEF Delete, Login, SignIn, CommitRelogin, CommitLogin
  <1>4. ~(Wipe \/ DropRow \/ ForgetLock \/ Crash) /\ ~UNCHANGED vars
    BY DEF Wipe, DropRow, ForgetLock, Crash, vars
  <1> QED
    BY <1>1, <1>2, <1>3, <1>4 DEF Next

\* A login is not undone, but by a refresh that read before its tokens were
\* written: a revalidation only if it was under the refresh lock by then.
THEOREM LoginsWin == Spec => LoginWins
  <1>1. ASSUME IInv, [Next]_vars, NEW r \in Refreshers, Leaves(r, "add"), saved' < saved
        PROVE  r \in crossed
    <2>1. saved \in Nat
      BY <1>1, Cast DEF IInv, TypeInv, CountsOK
    <2>2. PICK x \in Actors : Add(x)
      BY <1>1, <2>1, SavedStep
    <2>3. r = x
      BY <1>1, <2>2, Cast DEF Leaves, Add, Saved, Conclude, IInv, TypeInv, TablesOK
    <2>4. saved' = hand[r].tok.fam
      BY <1>1, <2>1, <2>2, <2>3 DEF Add
    <2>5. hand[r] # None
      BY <2>2, <2>3, <1>1, Cast DEF IInv, TypeInv, HandOK, Holds, Add
    <2> QED
      BY <1>1, <2>4, <2>5 DEF IInv, TokenInv, ReadOK
  <1>2. IInv /\ [Next]_vars =>
          [\A r \in Refreshers : Leaves(r, "add") /\ saved' < saved => r \in crossed]_vars
    BY <1>1
  <1> QED
    BY Invariant, <1>2, PTL DEF Spec, LoginWins

\* Who writes the row.
LEMMA RowStep ==
  ASSUME [Next]_vars, row' # row
  PROVE  \/ DropRow
         \/ \E r \in Refreshers : Apply(r)
         \/ \E l \in Logins : CommitRelogin(l) \/ CommitLogin(l)
  <1>1. ~(TickStart \/ Fetch \/ Throttled) /\ ~(\E r \in Revalidators : Revalidate(r))
    BY DEF TickStart, Fetch, Throttled, Revalidate
  <1>2. ~(\E r \in Refreshers : Grab(r) \/ PostAccepted(r) \/ PostRejected(r) \/ PostFailed(r))
    BY DEF Grab, PostAccepted, PostRejected, PostFailed
  <1>3. ~(\E x \in Actors : Delete(x) \/ Add(x)) /\ ~(\E l \in Logins : SignIn(l))
    BY DEF Delete, Add, SignIn
  <1>4. ~(Wipe \/ ForgetLock \/ Crash) /\ ~UNCHANGED vars
    BY DEF Wipe, ForgetLock, Crash, vars
  <1> QED
    BY <1>1, <1>2, <1>3, <1>4 DEF Next, Refresh, Login

\* Who writes the entry.
LEMMA VaultStep ==
  ASSUME TypeInv, [Next]_vars, vault' # vault, vault' # None
  PROVE  \E x \in Actors : Leaves(x, "add")
  <1>1. ~(TickStart \/ Fetch \/ Throttled) /\ ~(\E r \in Revalidators : Revalidate(r))
    BY DEF TickStart, Fetch, Throttled, Revalidate
  <1>2. ~(\E r \in Refreshers : Refresh(r))
    BY DEF Refresh, Grab, PostAccepted, PostRejected, PostFailed, Apply
  <1>3. ~(\E x \in Actors : Delete(x)) /\ ~(\E l \in Logins : Login(l))
    BY DEF Delete, Login, SignIn, CommitRelogin, CommitLogin
  <1>4. ~(Wipe \/ DropRow \/ ForgetLock \/ Crash) /\ ~UNCHANGED vars
    BY DEF Wipe, DropRow, ForgetLock, Crash, vars
  <1>5. PICK x \in Actors : Add(x)
    BY <1>1, <1>2, <1>3, <1>4 DEF Next
  <1>6. Leaves(x, "add")
    BY <1>5 DEF Leaves, Add, Saved, Conclude, TypeInv, TablesOK
  <1> QED
    BY <1>6

\* An update of the flag leaves the row a row.
LEMMA FlagRow ==
  ASSUME TypeInv, NEW x \in Actors, NEW b \in BOOLEAN, SetFlag(x, b)
  PROVE  /\ row # None => row' # None /\ (row' = row \/ row'.stale = b)
         /\ row = None => row' = None
  BY Cast DEF SetFlag, TypeInv, EntryOK, Row

LEMMA RowKept ==
  ASSUME TypeInv, [Next]_vars, row # None, row' = None
  PROVE  DropRow
  <1>1. ASSUME NEW r \in Refreshers, Apply(r) PROVE FALSE
    BY <1>1, FlagRow, Cast DEF Apply
  <1>2. ASSUME NEW l \in Logins, CommitRelogin(l) \/ CommitLogin(l) PROVE FALSE
    BY <1>2, FlagRow, Cast DEF CommitRelogin, CommitLogin
  <1> QED
    BY <1>1, <1>2, RowStep

\* Who gets from the read of a refresh's entry to its add.
LEMMA DeleteStep ==
  ASSUME TypeInv, [Next]_vars, NEW r \in Refreshers, Leaves(r, "save"), At(r, "add")'
  PROVE  Delete(r)
  <1>1. ~(TickStart \/ Fetch \/ Throttled) /\ ~(\E s \in Revalidators : Revalidate(s))
    BY Cast DEF Leaves, TickStart, Fetch, Throttled, Revalidate, Conclude, TypeInv, TablesOK
  <1>2. ~(\E s \in Refreshers : Refresh(s))
    <2>1. ASSUME NEW s \in Refreshers, NEW p, Goto(s, p), p # "add" PROVE FALSE
      BY <2>1, Cast DEF Leaves, TypeInv, TablesOK
    <2>2. ASSUME NEW s \in Refreshers, Grab(s) PROVE FALSE
      BY <2>1, <2>2 DEF Grab, Conclude
    <2>3. ASSUME NEW s \in Refreshers, PostAccepted(s) \/ PostRejected(s) \/ PostFailed(s)
          PROVE  FALSE
      BY <2>1, <2>3 DEF PostAccepted, PostRejected, PostFailed, Conclude
    <2>4. ASSUME NEW s \in Refreshers, Apply(s) PROVE FALSE
      BY <2>1, <2>4 DEF Apply, Rest
    <2> QED
      BY <2>2, <2>3, <2>4 DEF Refresh
  <1>3. ~(\E x \in Actors : Add(x)) /\ ~(\E l \in Logins : Login(l))
    BY Cast DEF Leaves, Add, Saved, Conclude, Login, SignIn, CommitRelogin, CommitLogin, Rest,
         TypeInv, TablesOK
  <1>4. ~(Wipe \/ DropRow \/ ForgetLock \/ Crash) /\ ~UNCHANGED vars
    BY Cast DEF Leaves, Wipe, DropRow, ForgetLock, Crash, vars
  <1>5. PICK x \in Actors : Delete(x)
    BY <1>1, <1>2, <1>3, <1>4 DEF Next
  <1>6. x = r
    BY <1>5, Cast DEF Leaves, Delete, Saved, Conclude, TypeInv, TablesOK
  <1> QED
    BY <1>5, <1>6

\* An entry comes to be without a row only by an add, or because the deletion
\* failed to wipe it or found it written again; and the oauthAccount is lost only
\* where there was none, or with a fault.
THEOREM EntriesPoint == Spec => EntryPoints
  <1>1. ASSUME IInv, [Next]_vars, Ghost', ~Ghost
        PROVE  (\E x \in Actors : Leaves(x, "add")) \/ (del = "drop" /\ spared # "no")
    <2>1. CASE vault' # vault
      BY <1>1, <2>1, VaultStep DEF IInv, Ghost
    <2>2. CASE vault' = vault
      <3>1. DropRow
        BY <1>1, <2>2, RowKept DEF IInv, Ghost
      <3> QED
        BY <1>1, <2>2, <3>1 DEF IInv, EntryInv, SparedOK, DropRow, Deleting, Ghost
    <2> QED
      BY <2>1, <2>2
  <1>2. ASSUME IInv, [Next]_vars, NEW r \in Refreshers,
               Leaves(r, "save"), At(r, "add")', ~hand'[r].label
        PROVE  vault = None \/ ~vault.label \/ faults' > faults
    <2>1. Delete(r)
      BY <1>2, DeleteStep DEF IInv
    <2>2. hand[r] \in Blob /\ r \notin Logins /\ faults \in Nat
      BY <1>2, <2>1, Cast DEF IInv, TypeInv, HeldOK, HandOK, Holds, CountsOK, Delete
    <2>3. CASE hand' = [hand EXCEPT ![r] = Merged(r)]
      <3>1. hand'[r].label = (r \in Logins \/ (vault # None /\ vault.label))
        BY <1>2, <2>2, <2>3, Cast DEF Merged, Blob, IInv, TypeInv, HeldOK
      <3> QED
        BY <1>2, <2>2, <3>1
    <2>4. CASE faults' = faults + 1
      BY <2>2, <2>4
    <2>5. CASE Saved(r)
      BY <1>2, <2>5, Cast DEF Saved, Conclude, IInv, TypeInv, TablesOK
    <2> QED
      BY <2>1, <2>3, <2>4, <2>5 DEF Delete
  <1>3. IInv /\ [Next]_vars =>
          [/\ Ghost' /\ ~Ghost =>
                \/ \E x \in Actors : Leaves(x, "add")
                \/ del = "drop" /\ spared # "no"
           /\ \A r \in Refreshers : Leaves(r, "save") /\ At(r, "add")' /\ ~hand'[r].label =>
                vault = None \/ ~vault.label \/ faults' > faults]_vars
    BY <1>1, <1>2
  <1> QED
    BY Invariant, <1>3, PTL DEF Spec, EntryPoints

\* The flag of an account that needs a new login stays, except for a tick whose GET
\* was not refused, a failed write, and a result that others have acted upon.
THEOREM FlagsStay == Spec => Unflagged
  <1>1. ASSUME IInv, [Next]_vars, row # None, row' # None, row.stale, ~row'.stale, ~Usable'
        PROVE  \/ Leaves(Tick, "apply") /\ Tick \notin refused
               \/ \E x \in Actors : /\ Leaves(x, "apply") \/ Leaves(x, "commit")
                                    /\ x \in unsaved \cup outdone
    <2>1. UNCHANGED <<vault, live>> => ~Takes(vault)
      BY <1>1 DEF Usable, Takes
    <2>2. ASSUME NEW r \in Refreshers, Apply(r)
          PROVE  \/ r = Tick /\ Leaves(Tick, "apply") /\ Tick \notin refused
                 \/ Leaves(r, "apply") /\ r \in unsaved \cup outdone
      <3>1. Leaves(r, "apply")
        BY <1>1, <2>2, Cast DEF Leaves, Apply, Rest, IInv, TypeInv, TablesOK
      <3>2. verdict[r] = "clear"
        BY <1>1, <2>2, FlagRow, Cast DEF Apply, IInv
      <3>3. Clear(r) /\ ~Takes(vault)
        BY <1>1, <2>1, <2>2, Cast DEF Apply, IInv, FlagInv, Honest
      <3> QED
        BY <2>2, <3>1, <3>2, <3>3 DEF Clear, Apply
    <2>3. ASSUME NEW l \in Logins, CommitRelogin(l) \/ CommitLogin(l)
          PROVE  Leaves(l, "commit") /\ l \in unsaved \cup outdone
      <3>1. Leaves(l, "commit")
        BY <1>1, <2>3, Cast DEF Leaves, CommitRelogin, CommitLogin, Rest, IInv, TypeInv, TablesOK
      <3>2. Clear(l) /\ ~Takes(vault)
        BY <1>1, <2>1, <2>3, Cast DEF CommitRelogin, CommitLogin, IInv, FlagInv, Honest
      <3> QED
        BY <3>1, <3>2 DEF Clear, Leaves
    <2> QED
      BY <1>1, <2>2, <2>3, RowStep, Cast DEF DropRow
  <1>2. IInv /\ [Next]_vars =>
          [row # None /\ row' # None /\ row.stale /\ ~row'.stale /\ ~Usable' =>
             \/ Leaves(Tick, "apply") /\ Tick \notin refused
             \/ \E x \in Actors : /\ Leaves(x, "apply") \/ Leaves(x, "commit")
                                  /\ x \in unsaved \cup outdone]_vars
    BY <1>1
  <1> QED
    BY Invariant, <1>2, PTL DEF Spec, Unflagged

\* The flag is put on an account whose entry has a token the server takes only for
\* what is not about the refresh token, a lookup that missed it, or a verdict that
\* has been overtaken.
THEOREM FlagsTrue == Spec => Flagged
  <1>1. ASSUME IInv, [Next]_vars, row # None, row' # None, ~row.stale, row'.stale,
               Takes(vault')
        PROVE  \E r \in Refreshers :
                 /\ Leaves(r, "apply")
                 /\ \/ verdict[r] \in {"failing", "later", "again"}
                    \/ verdict[r] = "missing" /\ r \in blind
                    \/ r \in crossed \cup outdone
    <2>1. ASSUME NEW l \in Logins, CommitRelogin(l) \/ CommitLogin(l) PROVE FALSE
      BY <1>1, <2>1, FlagRow, Cast DEF CommitRelogin, CommitLogin, IInv
    <2>2. PICK r \in Refreshers : Apply(r)
      BY <1>1, <2>1, RowStep DEF DropRow
    <2>3. Leaves(r, "apply")
      BY <1>1, <2>2, Cast DEF Leaves, Apply, Rest, IInv, TypeInv, TablesOK
    <2>4. verdict[r] \in Reasons
      BY <1>1, <2>2, FlagRow, Cast DEF Apply, IInv
    <2>5. Missing(r) /\ Refused(r) /\ Takes(vault)
      BY <1>1, <2>2, Cast DEF Apply, IInv, FlagInv, Honest
    <2> QED
      BY <2>3, <2>4, <2>5 DEF Reasons, Missing, Refused, Takes, Leaves
  <1>2. IInv /\ [Next]_vars =>
          [row # None /\ row' # None /\ ~row.stale /\ row'.stale /\ Takes(vault') =>
             \E r \in Refreshers :
               /\ Leaves(r, "apply")
               /\ \/ verdict[r] \in {"failing", "later", "again"}
                  \/ verdict[r] = "missing" /\ r \in blind
                  \/ r \in crossed \cup outdone]_vars
    BY <1>1
  <1> QED
    BY Invariant, <1>2, PTL DEF Spec, Flagged

=============================================================================
