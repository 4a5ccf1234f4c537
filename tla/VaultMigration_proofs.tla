------------------------ MODULE VaultMigration_proofs ------------------------
(***************************************************************************)
(* Type correctness of VaultMigration, that it implements Migration, where *)
(* it can lose a token and which account it makes active: for any number   *)
(* of accounts, rotations, failures and attempts.                          *)
(***************************************************************************)
EXTENDS VaultMigration, TLAPS

USE DEF legacy, outcome, database, locals, history, vars

\* Step 1 writes an account's vault entry only from credentials that are in
\* the old layout, and deletes them only once the vault has them.
SourceOK ==
  /\ pc \in {"vdel", "vadd"} => hashed[at] \in Gens \/ files[at] # None
  /\ pc = "hdel" => vault[at] # None

\* A row the loop has left is in the vault or remembered.
Begun == pc \notin {"down", "list", "backup", "done"}
FlagOK == Begun => \A a \in rows \ todo : vault[a] # None \/ a \in staleIds

\* The loop begins with every row; past it none is left.
LoopOK ==
  /\ pc = "backup" => todo = rows
  /\ pc \in {"load", "ident", "sdel", "sadd", "sweep", "unlink", "commit"}
       => todo = {}

DoneOK == dropped = (pc = "done")

IInv ==
  /\ TypeOK
  /\ SourceOK
  /\ FlagOK
  /\ LoopOK
  /\ DoneOK

----------------------------------------------------------------------------

LEMMA InitIInv == Init => IInv
  <1> SUFFICES ASSUME Init PROVE IInv
    OBVIOUS
  <1> USE ConstantsOK DEF Init
  <1>1. hashed \in [Accounts -> Gens \cup {Bare, None}] /\ files \in [Accounts -> Gens \cup {None}]
    BY DEF Gens
  <1>2. /\ vault \in [Accounts -> Gens \cup {None}] /\ backup \in [Accounts -> Gens \cup {Bare, None}]
        /\ issued \in [Accounts -> Gens] /\ faults \in 0..MaxFaults
    BY DEF Gens
  <1>3. TypeOK
    BY <1>1, <1>2 DEF TypeOK, PCs
  <1> QED
    BY <1>3 DEF IInv, SourceOK, FlagOK, Begun, LoopOK, DoneOK

LEMMA TypeStart == TypeOK /\ (Start \/ List \/ Crash \/ WriteBackup) => TypeOK'
  <1> SUFFICES ASSUME TypeOK, Start \/ List \/ Crash \/ WriteBackup PROVE TypeOK'
    OBVIOUS
  <1> USE ConstantsOK DEF TypeOK, PCs
  <1>1. CASE Start
    BY <1>1 DEF Start
  <1>2. CASE List
    BY <1>2 DEF List, Spend
  <1>3. CASE Crash
    BY <1>3 DEF Crash, Forget, Spend
  <1>4. CASE WriteBackup
    BY <1>4 DEF WriteBackup, Forget, Spend
  <1> QED
    BY <1>1, <1>2, <1>3, <1>4

\* An add leaves the entry that was there or what it was to add.
LEMMA AddLeaves ==
  ASSUME NEW e, NEW v, NEW o \in AddOutcomes(e, v)
  PROVE  (o.left = e \/ o.left = v) /\ o.ok \in BOOLEAN /\ (o.ok => o.left = v)
  <1>1. CASE e # None
    BY <1>1 DEF AddOutcomes
  <1>2. CASE e = None
    BY <1>2 DEF AddOutcomes
  <1> QED
    BY <1>1, <1>2

LEMMA TypeMove ==
  TypeOK /\ ((\E a \in Accounts : Look(a)) \/ ReadLegacy \/ VaultDelete \/ VaultAdd \/ HashedDelete)
    => TypeOK'
  <1> SUFFICES ASSUME TypeOK,
                      (\E a \in Accounts : Look(a)) \/ ReadLegacy \/ VaultDelete \/ VaultAdd
                        \/ HashedDelete
               PROVE  TypeOK'
    OBVIOUS
  <1> USE ConstantsOK DEF TypeOK, PCs, Spend, Continue
  <1>1. ASSUME NEW a \in Accounts, Look(a) PROVE TypeOK'
    BY <1>1 DEF Look, Reads
  <1>2. CASE ReadLegacy
    BY <1>2 DEF ReadLegacy, Reads
  <1>3. CASE VaultDelete
    BY <1>3 DEF VaultDelete, DeleteOutcomes
  <1>4. CASE VaultAdd
    <2>1. PICK o \in AddOutcomes(vault[at], hand) : VaultAdd!2!(o)
      BY <1>4 DEF VaultAdd
    <2>2. o.left = vault[at] \/ o.left = hand
      BY <2>1, AddLeaves
    <2>3. vault' \in [Accounts -> Gens \cup {None}]
      BY <1>4, <2>1, <2>2 DEF VaultAdd
    <2> QED
      BY <1>4, <2>1, <2>3 DEF VaultAdd
  <1>5. CASE HashedDelete
    BY <1>5 DEF HashedDelete, EraseOutcomes
  <1> QED
    BY <1>1, <1>2, <1>3, <1>4, <1>5

LEMMA TypePromote ==
  TypeOK /\ (Settle \/ Load \/ WriteIdentity \/ StandardDelete \/ StandardAdd) => TypeOK'
  <1> SUFFICES ASSUME TypeOK,
                      Settle \/ Load \/ WriteIdentity \/ StandardDelete \/ StandardAdd
               PROVE  TypeOK'
    OBVIOUS
  <1> USE ConstantsOK DEF TypeOK, PCs, Spend, Forget
  <1>1. CASE Settle
    BY <1>1 DEF Settle
  <1>2. CASE Load
    BY <1>2 DEF Load, Reads
  <1>3. CASE WriteIdentity
    BY <1>3 DEF WriteIdentity
  <1>4. CASE StandardDelete
    BY <1>4 DEF StandardDelete, DeleteOutcomes
  <1>5. CASE StandardAdd
    <2>1. PICK o \in AddOutcomes(standard, [own |-> active, gen |-> hand]) : StandardAdd!2!(o)
      BY <1>5 DEF StandardAdd
    <2>2. o.left = standard \/ o.left = [own |-> active, gen |-> hand]
      BY <2>1, AddLeaves
    <2>3. standard' \in [own : Accounts, gen : Gens \cup {None}] \cup {None}
      BY <1>5, <2>1, <2>2 DEF StandardAdd
    <2> QED
      BY <1>5, <2>1, <2>3 DEF StandardAdd
  <1> QED
    BY <1>1, <1>2, <1>3, <1>4, <1>5

LEMMA TypeClear ==
  TypeOK /\ ((\E a \in Accounts : Sweep(a)) \/ RemoveDirs \/ Unlink \/ Commit) => TypeOK'
  <1> SUFFICES ASSUME TypeOK, (\E a \in Accounts : Sweep(a)) \/ RemoveDirs \/ Unlink \/ Commit
               PROVE  TypeOK'
    OBVIOUS
  <1> USE ConstantsOK DEF TypeOK, PCs, Spend
  <1>1. ASSUME NEW a \in Accounts, Sweep(a) PROVE TypeOK'
    BY <1>1 DEF Sweep, EraseOutcomes
  <1>2. CASE RemoveDirs
    BY <1>2 DEF RemoveDirs
  <1>3. CASE Unlink
    BY <1>3 DEF Unlink
  <1>4. CASE Commit
    BY <1>4 DEF Commit
  <1> QED
    BY <1>1, <1>2, <1>3, <1>4

LEMMA TypeCli ==
  TypeOK /\ (\E a \in Accounts : CliRotatesOld(a) \/ CliRotatesStandard(a)) => TypeOK'
  <1> SUFFICES ASSUME TypeOK, NEW a \in Accounts, CliRotatesOld(a) \/ CliRotatesStandard(a)
               PROVE  TypeOK'
    OBVIOUS
  <1> USE ConstantsOK DEF TypeOK, PCs, Gens
  <1>1. CASE CliRotatesOld(a)
    BY <1>1 DEF CliRotatesOld
  <1>2. CASE CliRotatesStandard(a)
    BY <1>2 DEF CliRotatesStandard
  <1> QED
    BY <1>1, <1>2

LEMMA TypeStep == TypeOK /\ [Next]_vars => TypeOK'
  <1>1. TypeOK /\ UNCHANGED vars => TypeOK'
    BY DEF TypeOK
  <1> QED
    BY <1>1, TypeStart, TypeMove, TypePromote, TypeClear, TypeCli DEF Next, Step, Over

----------------------------------------------------------------------------
(* The invariant: each part with the actions that can disturb it.          *)

LEMMA SourceStep == IInv /\ [Next]_vars => SourceOK'
  <1> SUFFICES ASSUME IInv, [Next]_vars PROVE SourceOK'
    OBVIOUS
  <1> USE ConstantsOK DEF IInv, SourceOK, TypeOK, PCs
  <1>1. ASSUME NEW a \in Accounts, Look(a) PROVE SourceOK'
    BY <1>1 DEF Look, Continue
  <1>2. CASE ReadLegacy
    BY <1>2 DEF ReadLegacy, Reads, Continue
  <1>3. CASE VaultDelete
    BY <1>3 DEF VaultDelete, Continue
  <1>4. CASE VaultAdd
    <2>1. PICK o \in AddOutcomes(vault[at], hand) : VaultAdd!2!(o)
      BY <1>4 DEF VaultAdd
    <2>2. o.ok => o.left = hand
      BY <2>1, AddLeaves
    <2> QED
      BY <1>4, <2>1, <2>2 DEF VaultAdd, Continue
  <1>5. CASE HashedDelete
    BY <1>5 DEF HashedDelete, Continue
  <1>6. ASSUME NEW a \in Accounts, Sweep(a) \/ CliRotatesOld(a) PROVE SourceOK'
    <2>1. CASE Sweep(a)
      BY <2>1 DEF Sweep
    <2>2. CASE CliRotatesOld(a)
      BY <2>2 DEF CliRotatesOld, Gens
    <2> QED
      BY <1>6, <2>1, <2>2
  <1>7. CASE RemoveDirs
    BY <1>7 DEF RemoveDirs
  <1>8. CASE Start \/ List \/ WriteBackup \/ Crash \/ Settle \/ Load
    BY <1>8 DEF Start, List, WriteBackup, Crash, Forget, Settle, Load
  <1>9. CASE WriteIdentity \/ StandardDelete \/ StandardAdd \/ Unlink \/ Commit \/ Over
    BY <1>9 DEF WriteIdentity, StandardDelete, StandardAdd, Forget, Unlink, Commit, Over
  <1>10. ASSUME NEW a \in Accounts, CliRotatesStandard(a) PROVE SourceOK'
    BY <1>10 DEF CliRotatesStandard
  <1>11. CASE UNCHANGED vars
    BY <1>11
  <1> QED
    BY <1>1, <1>2, <1>3, <1>4, <1>5, <1>6, <1>7, <1>8, <1>9, <1>10, <1>11 DEF Next, Step

LEMMA FlagStep == IInv /\ [Next]_vars => FlagOK'
  <1> SUFFICES ASSUME IInv, [Next]_vars PROVE FlagOK'
    OBVIOUS
  <1> USE ConstantsOK DEF IInv, FlagOK, Begun, TypeOK, PCs
  <1>1. ASSUME NEW a \in Accounts, Look(a) PROVE FlagOK'
    BY <1>1 DEF Look, Reads, Continue
  <1>2. CASE ReadLegacy
    BY <1>2 DEF ReadLegacy, Continue
  <1>3. CASE VaultDelete
    BY <1>3 DEF VaultDelete, Continue
  <1>4. CASE VaultAdd
    BY <1>4 DEF VaultAdd, Continue
  <1>5. CASE HashedDelete
    BY <1>5 DEF HashedDelete, Continue, SourceOK
  <1>6. CASE Start \/ List \/ WriteBackup \/ Crash \/ Settle \/ Load
    BY <1>6 DEF LoopOK, Start, List, WriteBackup, Crash, Forget, Settle, Load
  <1>7. CASE WriteIdentity \/ StandardDelete \/ StandardAdd \/ RemoveDirs \/ Unlink \/ Commit \/ Over
    BY <1>7 DEF WriteIdentity, StandardDelete, StandardAdd, Forget, RemoveDirs, Unlink, Commit, Over
  <1>8. ASSUME NEW a \in Accounts, Sweep(a) \/ CliRotatesOld(a) \/ CliRotatesStandard(a)
        PROVE  FlagOK'
    BY <1>8 DEF Sweep, CliRotatesOld, CliRotatesStandard
  <1>9. CASE UNCHANGED vars
    BY <1>9
  <1> QED
    BY <1>1, <1>2, <1>3, <1>4, <1>5, <1>6, <1>7, <1>8, <1>9 DEF Next, Step

LEMMA LoopStep == IInv /\ [Next]_vars => LoopOK'
  <1> SUFFICES ASSUME IInv, [Next]_vars PROVE LoopOK'
    OBVIOUS
  <1> USE DEF IInv, LoopOK
  <1>1. ASSUME NEW a \in Accounts, Look(a) \/ Sweep(a) PROVE LoopOK'
    BY <1>1 DEF Look, Sweep, Continue
  <1>2. CASE ReadLegacy \/ VaultDelete \/ VaultAdd \/ HashedDelete
    BY <1>2 DEF ReadLegacy, VaultDelete, VaultAdd, HashedDelete, Continue
  <1>3. CASE Start \/ List \/ Crash \/ WriteBackup
    BY <1>3 DEF Start, List, WriteBackup, Crash, Forget
  <1>4. CASE Settle \/ Load
    BY <1>4 DEF Settle, Load
  <1>5. CASE WriteIdentity \/ StandardDelete \/ StandardAdd
    BY <1>5 DEF WriteIdentity, StandardDelete, StandardAdd, Forget
  <1>6. CASE RemoveDirs \/ Unlink \/ Commit \/ Over
    BY <1>6 DEF RemoveDirs, Unlink, Commit, Over
  <1>7. ASSUME NEW a \in Accounts, CliRotatesOld(a) \/ CliRotatesStandard(a) PROVE LoopOK'
    BY <1>7 DEF CliRotatesOld, CliRotatesStandard
  <1>8. CASE UNCHANGED vars
    BY <1>8
  <1> QED
    BY <1>1, <1>2, <1>3, <1>4, <1>5, <1>6, <1>7, <1>8 DEF Next, Step

LEMMA DoneStep == IInv /\ [Next]_vars => DoneOK'
  <1> SUFFICES ASSUME IInv, [Next]_vars PROVE DoneOK'
    OBVIOUS
  <1> USE DEF IInv, DoneOK
  <1>1. ASSUME NEW a \in Accounts, Look(a) \/ Sweep(a) PROVE DoneOK'
    BY <1>1 DEF Look, Sweep, Continue
  <1>2. CASE ReadLegacy \/ VaultDelete \/ VaultAdd \/ HashedDelete
    BY <1>2 DEF ReadLegacy, VaultDelete, VaultAdd, HashedDelete, Continue
  <1>3. CASE Start \/ List \/ Crash \/ WriteBackup
    BY <1>3 DEF Start, List, WriteBackup, Crash, Forget
  <1>4. CASE Settle \/ Load
    BY <1>4 DEF Settle, Load
  <1>5. CASE WriteIdentity \/ StandardDelete \/ StandardAdd
    BY <1>5 DEF WriteIdentity, StandardDelete, StandardAdd, Forget
  <1>6. CASE RemoveDirs \/ Unlink \/ Commit \/ Over
    BY <1>6 DEF RemoveDirs, Unlink, Commit, Over
  <1>7. ASSUME NEW a \in Accounts, CliRotatesOld(a) \/ CliRotatesStandard(a) PROVE DoneOK'
    BY <1>7 DEF CliRotatesOld, CliRotatesStandard
  <1>8. CASE UNCHANGED vars
    BY <1>8
  <1> QED
    BY <1>1, <1>2, <1>3, <1>4, <1>5, <1>6, <1>7, <1>8 DEF Next, Step

LEMMA StepIInv == IInv /\ [Next]_vars => IInv'
  BY TypeStep, SourceStep, FlagStep, LoopStep, DoneStep DEF IInv

LEMMA Invariance == Spec => []IInv
  <1>1. Init => IInv
    BY InitIInv
  <1>2. IInv /\ [Next]_vars => IInv'
    BY StepIInv
  <1> QED
    BY <1>1, <1>2, PTL DEF Spec

\* Every variable of the migration stays of its type, and at its control
\* points an attempt has the account and the token that point needs.
THEOREM TypeCorrect == Spec => []TypeOK
  <1>1. IInv => TypeOK
    BY DEF IInv
  <1> QED
    BY <1>1, Invariance, PTL

----------------------------------------------------------------------------
(* The refinement: what a step does to the promise.                        *)

LEMMA InitPromise == Init => Abs!Init
  <1> SUFFICES ASSUME Init PROVE Abs!Init
    OBVIOUS
  <1>1. ASSUME NEW a \in Accounts PROVE Home(a) \in {"legacy", "none"}
    BY DEF Init, Home
  <1>2. [a \in Accounts |-> Home(a)] \in [Accounts -> {"legacy", "none"}]
    BY <1>1
  <1> QED
    BY <1>2 DEF Init, Abs!Init

\* A step that leaves the stores' contents and the database alone stutters.
LEMMA Stutter ==
  UNCHANGED <<rows, hashed, files, vault, dropped, stale>> => UNCHANGED Abs!vars
  <1> SUFFICES ASSUME UNCHANGED <<rows, hashed, files, vault, dropped, stale>>
               PROVE  UNCHANGED Abs!vars
    OBVIOUS
  <1>1. \A a \in Accounts : Home(a)' = Home(a)
    BY DEF Home
  <1> QED
    BY <1>1 DEF Abs!vars

LEMMA MovePromise ==
  ASSUME IInv, VaultDelete \/ VaultAdd \/ HashedDelete
  PROVE  [Abs!Next]_Abs!vars
  <1> USE ConstantsOK DEF IInv, DoneOK, TypeOK, PCs, SourceOK
  <1>1. PICK c \in Accounts : c = at /\ c \in rows /\ ~dropped
    BY DEF VaultDelete, VaultAdd, HashedDelete
  <1>2. UNCHANGED <<rows, files, dropped, stale>>
    BY DEF VaultDelete, VaultAdd, HashedDelete
  <1>3. ASSUME NEW a \in Accounts, a # c PROVE Home(a)' = Home(a)
    <2>1. vault'[a] = vault[a] /\ hashed'[a] = hashed[a] /\ files'[a] = files[a]
      <3>1. CASE VaultDelete
        BY <1>1, <1>2, <1>3, <3>1 DEF VaultDelete
      <3>2. CASE VaultAdd
        BY <1>1, <1>2, <1>3, <3>2 DEF VaultAdd
      <3>3. CASE HashedDelete
        BY <1>1, <1>2, <1>3, <3>3 DEF HashedDelete
      <3> QED
        BY <3>1, <3>2, <3>3
    <2> QED
      BY <2>1 DEF Home
  <1>4. CASE VaultDelete
    <2>1. UNCHANGED hashed
      BY <1>4 DEF VaultDelete
    <2>2. Home(c)' = Home(c) \/ (Home(c) = "vault" /\ Home(c)' = "legacy")
      BY <1>1, <1>2, <1>4, <2>1 DEF VaultDelete, DeleteOutcomes, Home
    <2>3. CASE Home(c)' = Home(c)
      BY <1>2, <1>3, <2>3 DEF Abs!vars
    <2>4. CASE Home(c) = "vault" /\ Home(c)' = "legacy"
      <3>1. Abs!Return(c)
        BY <1>1, <1>2, <1>3, <2>4 DEF Abs!Return
      <3> QED
        BY <1>1, <3>1 DEF Abs!Next
    <2> QED
      BY <2>2, <2>3, <2>4
  <1>5. CASE VaultAdd
    <2>1. PICK o \in AddOutcomes(vault[at], hand) : VaultAdd!2!(o)
      BY <1>5 DEF VaultAdd
    <2>2. vault'[c] = vault[c] \/ vault'[c] = hand
      BY <1>1, <2>1, AddLeaves
    <2>3. UNCHANGED hashed /\ hand # None
      BY <1>5 DEF VaultAdd
    <2>4. Home(c)' = Home(c) \/ (Home(c) = "legacy" /\ Home(c)' = "vault")
      BY <1>1, <1>2, <1>5, <2>2, <2>3 DEF VaultAdd, Home
    <2>5. CASE Home(c)' = Home(c)
      BY <1>2, <1>3, <2>5 DEF Abs!vars
    <2>6. CASE Home(c) = "legacy" /\ Home(c)' = "vault"
      <3>1. Abs!Move(c)
        BY <1>1, <1>2, <1>3, <2>6 DEF Abs!Move
      <3> QED
        BY <1>1, <3>1 DEF Abs!Next
    <2> QED
      BY <2>4, <2>5, <2>6
  <1>6. CASE HashedDelete
    <2>1. Home(c)' = Home(c)
      BY <1>1, <1>6 DEF HashedDelete, Home
    <2> QED
      BY <1>2, <1>3, <2>1 DEF Abs!vars
  <1> QED
    BY <1>4, <1>5, <1>6

LEMMA ClearPromise ==
  ASSUME IInv, (\E a \in Accounts : Sweep(a)) \/ RemoveDirs
  PROVE  [Abs!Next]_Abs!vars
  <1> USE ConstantsOK DEF IInv, DoneOK, TypeOK
  <1> DEFINE gone == {a \in Accounts : Home(a) = "legacy" /\ Home(a)' = "none"}
  <1>1. ~dropped /\ UNCHANGED <<rows, vault, dropped, stale>>
    BY DEF Sweep, RemoveDirs
  <1>2. ASSUME NEW a \in Accounts PROVE Home(a)' = Home(a) \/ a \in gone
    <2>1. hashed'[a] \in {hashed[a], None}
      BY DEF Sweep, RemoveDirs, EraseOutcomes
    <2>2. files'[a] \in {files[a], None}
      BY DEF Sweep, RemoveDirs
    <2> QED
      BY <1>1, <2>1, <2>2 DEF Home
  <1>3. [a \in Accounts |-> Home(a)]' = [a \in Accounts |-> IF a \in gone THEN "none" ELSE Home(a)]
    BY <1>2
  <1>4. Abs!Clear(gone)
    BY <1>1, <1>3 DEF Abs!Clear
  <1> QED
    BY <1>4 DEF Abs!Next

LEMMA CommitPromise ==
  ASSUME IInv, Commit
  PROVE  Abs!Finish
  <1> USE DEF IInv, DoneOK, TypeOK, LoopOK, FlagOK, Begun
  <1>1. {a \in rows : [b \in Accounts |-> Home(b)][a] # "vault"} \subseteq staleIds
    BY DEF Commit, Home
  <1>2. [a \in Accounts |-> Home(a)]' = [a \in Accounts |-> Home(a)]
    BY DEF Commit, Home
  <1> QED
    BY <1>1, <1>2 DEF Commit, Abs!Finish

LEMMA StepPromise ==
  ASSUME IInv, [Next]_vars
  PROVE  [Abs!Next]_Abs!vars
  <1>1. CASE VaultDelete \/ VaultAdd \/ HashedDelete
    BY <1>1, MovePromise
  <1>2. CASE (\E a \in Accounts : Sweep(a)) \/ RemoveDirs
    BY <1>2, ClearPromise
  <1>3. CASE Commit
    BY <1>3, CommitPromise DEF Abs!Next
  <1>4. ASSUME NEW a \in Accounts, CliRotatesOld(a) PROVE UNCHANGED Abs!vars
    <2>1. ASSUME NEW b \in Accounts PROVE Home(b)' = Home(b)
      BY <1>4, ConstantsOK DEF CliRotatesOld, Home, IInv, TypeOK, Gens
    <2> QED
      BY <1>4, <2>1 DEF CliRotatesOld, Abs!vars
  <1>5. CASE \/ Start \/ List \/ WriteBackup \/ Crash \/ Settle \/ Load \/ WriteIdentity
             \/ StandardDelete \/ StandardAdd \/ Unlink \/ Over \/ ReadLegacy
             \/ UNCHANGED vars
    <2>1. UNCHANGED <<rows, hashed, files, vault, dropped, stale>>
      BY <1>5 DEF Start, List, WriteBackup, Crash, Settle, Load, WriteIdentity, StandardDelete,
                  StandardAdd, Unlink, Over, ReadLegacy
    <2> QED
      BY <2>1, Stutter
  <1>6. ASSUME NEW a \in Accounts, Look(a) \/ CliRotatesStandard(a) PROVE UNCHANGED Abs!vars
    <2>1. UNCHANGED <<rows, hashed, files, vault, dropped, stale>>
      BY <1>6 DEF Look, CliRotatesStandard
    <2> QED
      BY <2>1, Stutter
  <1> QED
    BY <1>1, <1>2, <1>3, <1>4, <1>5, <1>6 DEF Next, Step

\* However calls fail, the process dies and the CLI rotates, and however
\* often it is started again, the migration does what Migration says: a row
\* that is not in the vault at the commit is flagged for a new login.
THEOREM Implements == Spec => Promised
  <1>1. Init => Abs!Init
    BY InitPromise
  <1>2. IInv /\ [Next]_vars => [Abs!Next]_Abs!vars
    BY StepPromise
  <1> QED
    BY <1>1, <1>2, Invariance, PTL DEF Spec, Promised, Abs!Spec

----------------------------------------------------------------------------
(* Where an accepted token can be lost.                                    *)

\* No stored token is newer than the one the server accepts, and a file is
\* as old as the installation.
BoundOK ==
  /\ \A a \in Accounts : /\ hashed[a] \in (0..issued[a]) \cup {Bare, None}
                         /\ vault[a] \in (0..issued[a]) \cup {None}
                         /\ files[a] \in {0, None}
  /\ pc \in {"vdel", "vadd"} => hand \in 0..issued[at]

\* An old entry the CLI has not rotated since is in the backup, unless the
\* backup could not read it.
BackupOK ==
  pc \notin {"down", "list", "backup"} =>
    \A a \in Accounts \ (missed \cup rotated) : hashed[a] \in {None, backup[a]}

\* Before the first attempt has come so far there is no backup.
FirstOK == ~rerun => \A a \in Accounts : backup[a] = None

LInv == IInv /\ BoundOK /\ BackupOK /\ FirstOK

LEMMA InitLInv == Init => LInv
  <1>1. Init => BoundOK
    <2> SUFFICES ASSUME Init PROVE BoundOK
      OBVIOUS
    <2>1. ASSUME NEW a \in Accounts
          PROVE  hashed[a] \in {0, Bare, None} /\ files[a] \in {0, None} /\ vault[a] = None
                   /\ issued[a] = 0
      BY ConstantsOK DEF Init
    <2> QED
      BY <2>1 DEF Init, BoundOK
  <1>2. Init => BackupOK
    BY DEF Init, BackupOK
  <1>3. Init => FirstOK
    BY DEF Init, FirstOK
  <1> QED
    BY <1>1, <1>2, <1>3, InitIInv DEF LInv

LEMMA BoundStep == IInv /\ BoundOK /\ [Next]_vars => BoundOK'
  <1> SUFFICES ASSUME IInv, BoundOK, [Next]_vars PROVE BoundOK'
    OBVIOUS
  <1> USE ConstantsOK DEF IInv, BoundOK, TypeOK
  <1>1. ASSUME NEW a \in Accounts, Look(a) PROVE BoundOK'
    BY <1>1 DEF Look, Continue
  <1>2. CASE ReadLegacy
    BY <1>2 DEF ReadLegacy, Reads, Continue, Gens
  <1>3. CASE VaultDelete
    BY <1>3 DEF VaultDelete, DeleteOutcomes, Continue
  <1>4. CASE VaultAdd
    <2>1. PICK o \in AddOutcomes(vault[at], hand) : VaultAdd!2!(o)
      BY <1>4 DEF VaultAdd
    <2>2. o.left = vault[at] \/ o.left = hand
      BY <2>1, AddLeaves
    <2>3. pc' \notin {"vdel", "vadd"}
      BY <2>1 DEF Continue
    <2> QED
      BY <1>4, <2>1, <2>2, <2>3 DEF VaultAdd
  <1>5. CASE HashedDelete
    BY <1>5 DEF HashedDelete, EraseOutcomes, Continue
  <1>6. ASSUME NEW a \in Accounts, Sweep(a) PROVE BoundOK'
    BY <1>6 DEF Sweep, EraseOutcomes
  <1>7. CASE RemoveDirs
    BY <1>7 DEF RemoveDirs
  <1>8. ASSUME NEW a \in Accounts, CliRotatesOld(a) PROVE BoundOK'
    BY <1>8 DEF CliRotatesOld, Gens
  <1>9. ASSUME NEW a \in Accounts, CliRotatesStandard(a) PROVE BoundOK'
    BY <1>9 DEF CliRotatesStandard, Gens
  <1>10. CASE Start \/ List \/ WriteBackup \/ Crash \/ Settle \/ Load
    BY <1>10 DEF Start, List, WriteBackup, Crash, Forget, Settle, Load
  <1>11. CASE WriteIdentity \/ StandardDelete \/ StandardAdd \/ Unlink \/ Commit \/ Over
    BY <1>11 DEF WriteIdentity, StandardDelete, StandardAdd, Forget, Unlink, Commit, Over
  <1>12. CASE UNCHANGED vars
    BY <1>12
  <1> QED
    BY <1>1, <1>2, <1>3, <1>4, <1>5, <1>6, <1>7, <1>8, <1>9, <1>10, <1>11, <1>12 DEF Next, Step

LEMMA BackupStep == IInv /\ BackupOK /\ [Next]_vars => BackupOK'
  <1> SUFFICES ASSUME IInv, BackupOK, [Next]_vars PROVE BackupOK'
    OBVIOUS
  <1> USE DEF IInv, BackupOK, TypeOK
  <1>1. ASSUME NEW a \in Accounts, Look(a) \/ Sweep(a) PROVE BackupOK'
    BY <1>1 DEF Look, Sweep, EraseOutcomes, Continue
  <1>2. CASE ReadLegacy \/ VaultDelete \/ VaultAdd
    BY <1>2 DEF ReadLegacy, VaultDelete, VaultAdd, Continue
  <1>3. CASE HashedDelete
    BY <1>3 DEF HashedDelete, EraseOutcomes, Continue
  <1>4. CASE WriteBackup
    BY <1>4 DEF WriteBackup, Forget
  <1>5. CASE Start \/ List \/ Crash \/ Settle \/ Load
    BY <1>5 DEF Start, List, Crash, Forget, Settle, Load
  <1>6. CASE WriteIdentity \/ StandardDelete \/ StandardAdd
    BY <1>6 DEF WriteIdentity, StandardDelete, StandardAdd, Forget
  <1>7. CASE RemoveDirs \/ Unlink \/ Commit \/ Over
    BY <1>7 DEF RemoveDirs, Unlink, Commit, Over
  <1>8. ASSUME NEW a \in Accounts, CliRotatesOld(a) \/ CliRotatesStandard(a) PROVE BackupOK'
    BY <1>8 DEF CliRotatesOld, CliRotatesStandard
  <1>9. CASE UNCHANGED vars
    BY <1>9
  <1> QED
    BY <1>1, <1>2, <1>3, <1>4, <1>5, <1>6, <1>7, <1>8, <1>9 DEF Next, Step

\* The losses MigrationLosses names, in a step.
LossHere(a) ==
  \/ pc = "backup" /\ rerun
  \/ pc = "vdel" /\ at = a /\ vault[a] # None
  \/ pc = "sdel"
  \/ pc \in {"hdel", "sweep"} /\ a \in missed \cup rotated
  \/ pc = "sweep" /\ listed = {} /\ (a \in staleIds \/ a \notin rows)
\* An add to a place that is not empty changes nothing.
LEMMA AddKeeps ==
  ASSUME NEW e, e # None, NEW v, NEW o \in AddOutcomes(e, v)
  PROVE  o.left = e
  BY DEF AddOutcomes

LEMMA FirstStep == IInv /\ FirstOK /\ [Next]_vars => FirstOK'
  <1> SUFFICES ASSUME IInv, FirstOK, [Next]_vars, ~rerun' PROVE UNCHANGED <<backup, rerun>>
    BY DEF FirstOK
  <1> QED
    BY DEF Next, Step, Start, List, WriteBackup, Look, Sweep, ReadLegacy, VaultDelete, VaultAdd,
           HashedDelete, Settle, Load, WriteIdentity, StandardDelete, StandardAdd, RemoveDirs,
           Unlink, Commit, Crash, Over, CliRotatesOld, CliRotatesStandard

LEMMA StepLInv == LInv /\ [Next]_vars => LInv'
  BY StepIInv, BoundStep, BackupStep, FirstStep DEF LInv

LEMMA LossStep ==
  ASSUME LInv, [Next]_vars, NEW a \in Accounts, Held(a), ~Held(a)'
  PROVE  LossHere(a)
  <1> USE ConstantsOK DEF LInv, IInv, TypeOK, Held, LossHere
  <1>1. issued[a] # None
    OBVIOUS
  <1>2. ~UNCHANGED <<issued, vault, hashed, files, backup, standard>>
    OBVIOUS
  <1>3. CASE WriteBackup
    BY <1>1, <1>3 DEF WriteBackup, FirstOK
  <1>4. CASE VaultDelete
    BY <1>4 DEF VaultDelete, DeleteOutcomes
  <1>5. CASE VaultAdd
    <2>1. PICK o \in AddOutcomes(vault[at], hand) : VaultAdd!2!(o)
      BY <1>5 DEF VaultAdd
    <2>2. vault[at] # None => vault' = vault
      BY <2>1, AddKeeps
    <2>3. UNCHANGED <<issued, hashed, files, backup, standard>>
      BY <1>5 DEF VaultAdd
    <2>4. vault[a] # None => vault'[a] = vault[a]
      BY <2>1, <2>2
    <2> QED
      BY <1>1, <2>3, <2>4
  <1>6. CASE HashedDelete
    BY <1>1, <1>6 DEF HashedDelete, BackupOK, PCs
  <1>7. ASSUME NEW b \in Accounts, Sweep(b) PROVE LossHere(a)
    BY <1>1, <1>7 DEF Sweep, BackupOK, PCs
  <1>8. CASE StandardDelete
    BY <1>8 DEF StandardDelete
  <1>9. CASE StandardAdd
    <2>1. PICK o \in AddOutcomes(standard, [own |-> active, gen |-> hand]) : StandardAdd!2!(o)
      BY <1>9 DEF StandardAdd
    <2>2. standard # None => standard' = standard
      BY <2>1, AddKeeps
    <2>3. UNCHANGED <<issued, hashed, files, backup, vault>>
      BY <1>9 DEF StandardAdd
    <2> QED
      BY <1>1, <2>2, <2>3
  <1>10. CASE RemoveDirs
    <2>1. UNCHANGED <<issued, hashed, backup, vault, standard>> /\ pc = "sweep" /\ listed = {}
      BY <1>10 DEF RemoveDirs
    <2>2. files[a] = issued[a] /\ vault[a] # issued[a]
      BY <2>1
    <2>3. vault[a] = None
      BY <1>1, <2>2 DEF BoundOK, Gens
    <2>4. a \in rows => a \in staleIds
      BY <2>1, <2>3 DEF FlagOK, Begun, LoopOK, PCs
    <2> QED
      BY <2>1, <2>4
  <1>11. ASSUME NEW b \in Accounts, CliRotatesOld(b) PROVE LossHere(a)
    BY <1>11 DEF CliRotatesOld
  <1>12. ASSUME NEW b \in Accounts, CliRotatesStandard(b) PROVE LossHere(a)
    <2>1. CASE a = b
      BY <1>12, <2>1 DEF CliRotatesStandard
    <2>2. CASE a # b
      BY <1>12, <2>2 DEF CliRotatesStandard
    <2> QED
      BY <2>1, <2>2
  <1>13. CASE \/ Start \/ List \/ ReadLegacy \/ Settle \/ Load \/ WriteIdentity \/ Unlink \/ Commit
              \/ Crash \/ Over \/ UNCHANGED vars
    BY <1>2, <1>13 DEF Start, List, ReadLegacy, Settle, Load, WriteIdentity, Unlink, Commit, Crash,
                       Over
  <1>14. ASSUME NEW b \in Accounts, Look(b) PROVE LossHere(a)
    BY <1>2, <1>14 DEF Look
  <1> QED
    BY <1>3, <1>4, <1>5, <1>6, <1>7, <1>8, <1>9, <1>10, <1>11, <1>12, <1>13, <1>14 DEF Next, Step

\* A token the server accepts is dropped from every store at the five named
\* places only.
THEOREM OnlyNamedLosses == Spec => MigrationLosses
  <1>1. Init => LInv
    BY InitLInv
  <1>2. LInv /\ [Next]_vars => LInv'
    BY StepLInv
  <1>3. LInv /\ [Next]_vars =>
          [\A a \in Accounts : Held(a) /\ ~Held(a)' =>
             \/ pc = "backup" /\ rerun
             \/ pc = "vdel" /\ at = a /\ vault[a] # None
             \/ pc = "sdel"
             \/ pc \in {"hdel", "sweep"} /\ a \in missed \cup rotated
             \/ pc = "sweep" /\ listed = {} /\ (a \in staleIds \/ a \notin rows)]_vars
    BY LossStep DEF LossHere
  <1> QED
    BY <1>1, <1>2, <1>3, PTL DEF Spec, MigrationLosses

----------------------------------------------------------------------------
(* Which account is active.                                                *)

\* What steps 2 and 3 would settle on now.
Choice == IF pointer \in rows THEN pointer ELSE IF identity \in rows THEN identity ELSE None

\* The identity file names the account, or nothing will ever name it there:
\* its oauthAccount is neither in the vault nor in a config directory.
Told(a) == identity = a \/ a \notin named \cup labels

\* An entry is added with the oauthAccount its config directory has, and
\* config directories only go.
NamedOK == \A a \in Accounts : vault[a] # None /\ a \in labels => a \in named

\* An attempt's active account is its choice; once the standard entry is to
\* be written, and until the pointer goes, the identity file tells it.
ActiveOK ==
  /\ pc \in {"down", "list", "backup", "look", "legacy", "vdel", "vadd", "hdel"} => active = None
  /\ pc \in {"load", "ident"} => active = Choice
  /\ pc \in {"sdel", "sadd", "sweep", "unlink"} /\ pointer \in rows => active = pointer
  /\ pc \in {"sdel", "sadd"} => Told(active)
  /\ pc \in {"sweep", "unlink"} /\ active # None /\ ~skipped => Told(active)

\* What the first attempt settled on is what the pointer says, and when the
\* pointer is gone what the identity file tells.
AgreeOK ==
  /\ first # None /\ pointer \in rows => first = pointer
  /\ first # None /\ pointer \notin rows /\ ~skipped => Told(first)
  /\ active # None => first # None
  /\ active # None /\ ~skipped /\ first \in named \cup labels => active = first

\* A standard entry the migration has written is of the account every later
\* attempt settles on.
StandardOK ==
  standard # None /\ ~old /\ standard.own \in named \cup labels =>
    /\ identity = standard.own
    /\ standard.own \in rows
    /\ pointer \in rows => pointer = standard.own

\* An entry found at the start is replaced before the old layout is cleared
\* away, unless nothing is promoted.
OldOK ==
  /\ old => standard # None
  /\ old /\ pc \in {"sweep", "unlink", "commit", "done"} => active = None \/ skipped

AInv == IInv /\ NamedOK /\ ActiveOK /\ AgreeOK /\ StandardOK /\ OldOK

LEMMA InitAInv == Init => AInv
  <1>1. Init => NamedOK /\ ActiveOK /\ AgreeOK /\ StandardOK /\ OldOK
    BY DEF Init, NamedOK, ActiveOK, AgreeOK, StandardOK, OldOK
  <1> QED
    BY <1>1, InitIInv DEF AInv

\* No step outside VaultAdd names an account, and it names one only from its
\* config directory: what is not named nor labelled never will be.
LEMMA NeverNamed ==
  ASSUME IInv, [Next]_vars
  PROVE  (named \cup labels)' \subseteq named \cup labels
  <1>1. CASE VaultAdd
    BY <1>1 DEF VaultAdd
  <1>2. CASE RemoveDirs
    BY <1>2 DEF RemoveDirs
  <1>3. CASE ~VaultAdd /\ ~RemoveDirs
    <2>1. UNCHANGED <<named, labels>>
      BY <1>3 DEF Next, Step, Start, List, WriteBackup, Look, Sweep, ReadLegacy, VaultDelete,
                  HashedDelete, Settle, Load, WriteIdentity, StandardDelete, StandardAdd, Unlink,
                  Commit, Crash, Over, CliRotatesOld, CliRotatesStandard
    <2> QED
      BY <2>1
  <1> QED
    BY <1>1, <1>2, <1>3

\* Outside Settle, WriteIdentity and Unlink nobody touches what the choice
\* is made from.
LEMMA ChoiceKept ==
  ASSUME [Next]_vars, ~Settle, ~WriteIdentity, ~Unlink
  PROVE  UNCHANGED <<rows, pointer, identity, first>>
  BY DEF Next, Step, Start, List, WriteBackup, Look, Sweep, ReadLegacy, VaultDelete, VaultAdd,
         HashedDelete, Load, StandardDelete, StandardAdd, RemoveDirs, Commit, Crash, Over,
         CliRotatesOld, CliRotatesStandard

LEMMA NamedStep == IInv /\ NamedOK /\ [Next]_vars => NamedOK'
  <1> SUFFICES ASSUME IInv, NamedOK, [Next]_vars PROVE NamedOK'
    OBVIOUS
  <1> USE ConstantsOK DEF IInv, TypeOK, NamedOK, PCs
  <1>1. CASE VaultDelete
    BY <1>1 DEF VaultDelete, DeleteOutcomes
  <1>2. CASE VaultAdd
    <2>1. PICK o \in AddOutcomes(vault[at], hand) : VaultAdd!2!(o)
      BY <1>2 DEF VaultAdd
    <2>2. vault[at] # None => vault' = vault /\ named' = named
      BY <2>1, AddKeeps
    <2>3. vault[at] = None /\ o.left # None => vault[at] = None
            /\ named' = IF at \in labels THEN named \cup {at} ELSE named \ {at}
      BY <2>1
    <2> QED
      BY <1>2, <2>1, <2>2, <2>3 DEF VaultAdd
  <1>3. CASE RemoveDirs
    BY <1>3 DEF RemoveDirs
  <1>4. CASE ~VaultDelete /\ ~VaultAdd /\ ~RemoveDirs
    <2>1. UNCHANGED <<vault, named, labels>>
      BY <1>4 DEF Next, Step, Start, List, WriteBackup, Look, Sweep, ReadLegacy,
                  HashedDelete, Settle, Load, WriteIdentity, StandardDelete, StandardAdd, Unlink,
                  Commit, Crash, Over, CliRotatesOld, CliRotatesStandard
    <2> QED
      BY <2>1
  <1> QED
    BY <1>1, <1>2, <1>3, <1>4

LEMMA ActiveStep == AInv /\ [Next]_vars => ActiveOK'
  <1> SUFFICES ASSUME AInv, [Next]_vars PROVE ActiveOK'
    OBVIOUS
  <1>0. (named \cup labels)' \subseteq named \cup labels
    BY NeverNamed DEF AInv
  <1> USE DEF AInv, IInv, TypeOK, ActiveOK, Choice, Told
  <1>1. CASE Start \/ List \/ WriteBackup \/ Crash
    BY <1>1 DEF Start, List, WriteBackup, Crash, Forget
  <1>2. CASE (\E a \in Accounts : Look(a)) \/ ReadLegacy \/ VaultDelete \/ VaultAdd \/ HashedDelete
    BY <1>2 DEF Look, ReadLegacy, VaultDelete, VaultAdd, HashedDelete, Continue
  <1>3. CASE Settle
    BY <1>3, ConstantsOK DEF Settle
  <1>4. CASE Load
    BY <1>4 DEF Load, Reads, NamedOK
  <1>5. CASE WriteIdentity
    BY <1>5 DEF WriteIdentity, Forget
  <1>6. CASE StandardDelete \/ StandardAdd
    BY <1>6 DEF StandardDelete, StandardAdd, Forget
  <1>7. CASE (\E a \in Accounts : Sweep(a)) \/ RemoveDirs
    BY <1>0, <1>7 DEF Sweep, RemoveDirs
  <1>8. CASE Unlink \/ Commit \/ Over
    BY <1>8 DEF Unlink, Commit, Over
  <1>9. ASSUME NEW a \in Accounts, CliRotatesOld(a) \/ CliRotatesStandard(a) PROVE ActiveOK'
    BY <1>9 DEF CliRotatesOld, CliRotatesStandard
  <1>10. CASE UNCHANGED vars
    BY <1>10
  <1> QED
    BY <1>1, <1>2, <1>3, <1>4, <1>5, <1>6, <1>7, <1>8, <1>9, <1>10 DEF Next, Step

LEMMA AgreeStep == AInv /\ [Next]_vars => AgreeOK'
  <1> SUFFICES ASSUME AInv, [Next]_vars PROVE AgreeOK'
    OBVIOUS
  <1>0. (named \cup labels)' \subseteq named \cup labels
    BY NeverNamed DEF AInv
  <1> USE ConstantsOK DEF AInv, IInv, TypeOK, AgreeOK, ActiveOK, Choice, Told
  <1>1. CASE Settle
    BY <1>1 DEF Settle
  <1>2. CASE WriteIdentity
    BY <1>2 DEF WriteIdentity, Forget
  <1>3. CASE Unlink
    BY <1>3 DEF Unlink
  <1>4. CASE ~Settle /\ ~WriteIdentity /\ ~Unlink
    <2>1. UNCHANGED <<rows, pointer, identity, first>>
      BY <1>4, ChoiceKept
    <2>2. active' \in {active, None} /\ (skipped => skipped')
      BY <1>4 DEF Next, Step, Start, List, WriteBackup, Look, Sweep, ReadLegacy, VaultDelete,
         VaultAdd, HashedDelete, Load, StandardDelete, StandardAdd, RemoveDirs, Commit, Crash, Over,
         CliRotatesOld, CliRotatesStandard, Forget
    <2> QED
      BY <1>0, <2>1, <2>2
  <1> QED
    BY <1>1, <1>2, <1>3, <1>4

LEMMA StandardStep == AInv /\ [Next]_vars => StandardOK'
  <1> SUFFICES ASSUME AInv, [Next]_vars PROVE StandardOK'
    OBVIOUS
  <1>0. (named \cup labels)' \subseteq named \cup labels
    BY NeverNamed DEF AInv
  <1>00. ASSUME UNCHANGED <<rows, pointer, identity, old>>,
                standard' # None => standard # None /\ standard'.own = standard.own
         PROVE  StandardOK'
    BY <1>0, <1>00 DEF AInv, StandardOK
  <1> USE ConstantsOK DEF AInv, IInv, TypeOK, StandardOK, ActiveOK, Choice, Told
  <1>1. CASE Settle
    BY <1>00, <1>1 DEF Settle
  <1>2. CASE WriteIdentity
    <2>1. UNCHANGED <<rows, pointer, standard, old>> /\ identity' \in {identity, active}
      BY <1>2 DEF WriteIdentity
    <2>2. active = Choice
      BY <1>2 DEF WriteIdentity
    <2>3. standard # None /\ ~old /\ standard.own \in named \cup labels => Choice = standard.own
      OBVIOUS
    <2> QED
      BY <1>0, <2>1, <2>2, <2>3
  <1>3. CASE Unlink
    BY <1>0, <1>3 DEF Unlink
  <1>4. CASE StandardDelete
    BY <1>0, <1>4 DEF StandardDelete, DeleteOutcomes
  <1>5. CASE StandardAdd
    <2>1. PICK o \in AddOutcomes(standard, [own |-> active, gen |-> hand]) : StandardAdd!2!(o)
      BY <1>5 DEF StandardAdd
    <2>2. standard' = standard \/ standard' = [own |-> active, gen |-> hand]
      BY <2>1, AddLeaves
    <2>3. UNCHANGED <<rows, pointer, identity, old>>
      BY <1>5 DEF StandardAdd
    <2>4. CASE standard' = standard
      BY <1>00, <2>3, <2>4
    <2>5. CASE standard' = [own |-> active, gen |-> hand]
      <3>1. standard'.own = active /\ active \in rows /\ Told(active)
        BY <1>5, <2>5 DEF StandardAdd
      <3> QED
        BY <1>0, <1>5, <2>3, <3>1 DEF StandardAdd
    <2> QED
      BY <2>2, <2>4, <2>5
  <1>6. CASE ~Settle /\ ~WriteIdentity /\ ~Unlink /\ ~StandardDelete /\ ~StandardAdd
    <2>1. UNCHANGED <<rows, pointer, identity, first>>
      BY <1>6, ChoiceKept
    <2>2. ASSUME NEW a \in Accounts, CliRotatesStandard(a) PROVE StandardOK'
      <3>1. standard # None /\ standard' # None /\ standard.own = a /\ standard'.own = a
           /\ old' = old
        BY <2>2 DEF CliRotatesStandard, Gens
      <3> QED
        BY <1>00, <2>1, <3>1
    <2>3. CASE \A a \in Accounts : ~CliRotatesStandard(a)
      <3>1. UNCHANGED <<standard, old>>
        BY <1>6, <2>3 DEF Next, Step, Start, List, WriteBackup, Look, Sweep, ReadLegacy,
           VaultDelete, VaultAdd, HashedDelete, Load, RemoveDirs, Commit, Crash, Over, CliRotatesOld
      <3> QED
        BY <1>00, <2>1, <3>1
    <2> QED
      BY <2>2, <2>3
  <1> QED
    BY <1>1, <1>2, <1>3, <1>4, <1>5, <1>6

LEMMA OldStep == AInv /\ [Next]_vars => OldOK'
  <1> SUFFICES ASSUME AInv, [Next]_vars PROVE OldOK'
    OBVIOUS
  <1> USE ConstantsOK DEF AInv, IInv, TypeOK, OldOK, PCs
  <1>1. CASE Settle \/ Load
    BY <1>1 DEF Settle, Load
  <1>2. CASE StandardDelete
    BY <1>2 DEF StandardDelete, DeleteOutcomes, Forget
  <1>3. CASE StandardAdd
    <2>1. PICK o \in AddOutcomes(standard, [own |-> active, gen |-> hand]) : StandardAdd!2!(o)
      BY <1>3 DEF StandardAdd
    <2>2. standard # None => standard' = standard /\ ~o.ok
      BY <2>1 DEF AddOutcomes
    <2>3. old' = old /\ (o.ok \/ pc' = "down")
      BY <1>3, <2>1 DEF StandardAdd, Forget
    <2> QED
      BY <2>1, <2>2, <2>3 DEF Forget
  <1>4. ASSUME NEW a \in Accounts, CliRotatesOld(a) \/ CliRotatesStandard(a) PROVE OldOK'
    BY <1>4 DEF CliRotatesOld, CliRotatesStandard, Gens
  <1>5. CASE (\E a \in Accounts : Sweep(a)) \/ RemoveDirs \/ Unlink \/ Commit \/ Over
    BY <1>5 DEF Sweep, RemoveDirs, Unlink, Commit, Over
  <1>6. CASE Start \/ List
    <2>1. UNCHANGED <<standard, old>> /\ pc' \in {"list", "backup"}
      BY <1>6 DEF Start, List
    <2> QED
      BY <2>1
  <1>9. CASE WriteBackup \/ Crash \/ WriteIdentity
    <2>1. UNCHANGED <<standard, old>> /\ pc' \in {"down", "look", "sdel"}
      BY <1>9 DEF WriteBackup, Crash, WriteIdentity, Forget
    <2> QED
      BY <2>1
  <1>7. CASE (\E a \in Accounts : Look(a)) \/ ReadLegacy \/ VaultDelete \/ VaultAdd \/ HashedDelete
    BY <1>7 DEF Look, ReadLegacy, VaultDelete, VaultAdd, HashedDelete, Continue
  <1>8. CASE UNCHANGED vars
    BY <1>8
  <1> QED
    BY <1>1, <1>2, <1>3, <1>4, <1>5, <1>6, <1>7, <1>8, <1>9 DEF Next, Step

LEMMA ActiveInvariance == Spec => []AInv
  <1>1. Init => AInv
    BY InitAInv
  <1>2. AInv /\ [Next]_vars => AInv'
    BY StepIInv, NamedStep, ActiveStep, AgreeStep, StandardStep, OldStep DEF AInv
  <1> QED
    BY <1>1, <1>2, PTL DEF Spec

\* Attempts settle on one account, although the pointer one of them removed
\* is gone for the next.
THEOREM AttemptsAgree == Spec => []SameActive
  <1>1. AInv => SameActive
    BY DEF AInv, AgreeOK, SameActive
  <1> QED
    BY <1>1, ActiveInvariance, PTL

\* The CLI never finds a token the migration wrote beside an identity file
\* that names another account, unless there was no name to put there; and
\* after the commit it finds no other token beside it either, unless nothing
\* was promoted.
THEOREM StoresAgree == Spec => []OneActive
  <1>1. AInv => OneActive
    BY DEF AInv, IInv, DoneOK, StandardOK, OldOK, OneActive
  <1> QED
    BY <1>1, ActiveInvariance, PTL

=============================================================================
