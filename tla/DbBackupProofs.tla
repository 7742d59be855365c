--------------------------- MODULE DbBackupProofs ---------------------------
(***************************************************************************)
(* Proofs about DbBackup: types, and that the newest copies are kept, for  *)
(* every retention, every clock and any number of runs by hand.            *)
(*                                                                         *)
(* What a rotation deletes was selected from an earlier listing.  So the   *)
(* invariant counts the copies there have ever been: Retention of them are *)
(* newer than anything that is to be deleted (OldInv).  Since the newest   *)
(* copies are never missing, as many newer ones are in the folder at the   *)
(* moment of the deletion, whenever that is (Removal).                     *)
(***************************************************************************)
EXTENDS DbBackup, FiniteSetTheorems, TLAPS

\* A copy of which Retention newer ones have been seen.
Obsolete(n) == n \in Names /\ Cardinality(Newer(ever, n)) >= Retention

SeenInv  == disk \subseteq ever
NamedInv == \A p \in Processes :
              op[p].step \in {"dump", "folder", "upload", "put"} => op[p].name \in Names
OldInv   == /\ \A p \in Processes : \A n \in op[p].old : Obsolete(n)
            /\ \A n \in leaving : Obsolete(n)

BackupInv == TypeOK /\ SeenInv /\ NamedInv /\ OldInv /\ KeepsNewest

\* What a step may do to the folder.
FolderStep ==
  \/ UNCHANGED <<disk, ever>>
  \/ \E n \in Names : Holds(disk \union {n})
  \/ \E n \in Names : Obsolete(n) /\ Holds(disk \ {n})

-----------------------------------------------------------------------------
(* Counting.                                                               *)

LEMMA NamesAreIntegers == \A n \in Names : n \in Int /\ n <= n
<1>1. MaxTime \in Nat
  BY NumberAssumption
<1> QED
  BY <1>1 DEF Names

LEMMA NewerFinite ==
  ASSUME NEW files \in SUBSET Names, NEW n \in Names
  PROVE  /\ Newer(files, n) \subseteq files
         /\ IsFiniteSet(Newer(files, n))
         /\ Cardinality(Newer(files, n)) \in Nat
<1>1. IsFiniteSet(files)
  <2>1. 1 \in Int /\ MaxTime \in Int
    BY NumberAssumption
  <2>2. IsFiniteSet(Names)
    BY <2>1, FS_Interval DEF Names
  <2> QED
    BY <2>2, FS_Subset
<1>2. Newer(files, n) \subseteq files
  BY DEF Newer
<1> QED
  BY <1>1, <1>2, FS_Subset, FS_CardinalityType

\* If what is newer than n in one set is in another, where m is older, then
\* the other has as many that are newer than m.
LEMMA NewerGrows ==
  ASSUME NEW small \in SUBSET Names, NEW large \in SUBSET Names,
         NEW n \in Names, NEW m \in Names, m <= n, Newer(small, n) \subseteq large
  PROVE  Cardinality(Newer(small, n)) <= Cardinality(Newer(large, m))
<1>1. Newer(small, n) \subseteq Newer(large, m)
  BY NamesAreIntegers DEF Newer
<1>2. IsFiniteSet(Newer(large, m))
  BY NewerFinite
<1> QED
  BY <1>1, <1>2, FS_Subset

\* What counts as obsolete by all copies ever seen has Retention newer ones in
\* the folder as well.
LEMMA ObsoleteNow ==
  ASSUME TypeOK, SeenInv, KeepsNewest, NEW n, Obsolete(n)
  PROVE  Cardinality(Newer(disk, n)) >= Retention
<1> n \in Names /\ disk \in SUBSET Names /\ ever \in SUBSET Names
  BY DEF TypeOK, Obsolete
<1>1. CASE Newer(ever, n) \subseteq disk
  BY <1>1, NewerGrows, NewerFinite, NumberAssumption DEF Obsolete, Names
<1>2. CASE \E m \in Newer(ever, n) : m \notin disk
  <2>1. PICK m \in Newer(ever, n) : m \notin disk
    BY <1>2
  <2>2. m \in Names /\ m \in ever \ disk /\ n <= m
    BY <2>1, NamesAreIntegers DEF Newer
  <2>3. Cardinality(Newer(disk, m)) >= Retention
    BY <2>2 DEF KeepsNewest
  <2>4. Cardinality(Newer(disk, m)) <= Cardinality(Newer(disk, n))
    BY <2>2, NewerGrows, NewerFinite
  <2> QED
    BY <2>2, <2>3, <2>4, NewerFinite, NumberAssumption
<1> QED
  BY <1>1, <1>2

LEMMA Removal ==
  ASSUME TypeOK, SeenInv, KeepsNewest, NEW n, Obsolete(n), Holds(disk \ {n})
  PROVE  KeepsNewest'
<1> n \in Names /\ disk \in SUBSET Names /\ ever \in SUBSET Names
  BY DEF TypeOK, Obsolete
<1>1. disk' = disk \ {n} /\ ever' = ever /\ disk' \in SUBSET Names
  BY DEF Holds, SeenInv
<1> SUFFICES ASSUME NEW m \in ever \ disk'
             PROVE  Cardinality(Newer(disk', m)) >= Retention
  BY <1>1 DEF KeepsNewest
<1>2. m \in Names
  OBVIOUS
<1>3. CASE m <= n
  <2>1. Newer(disk, n) \subseteq disk'
    BY <1>1, NamesAreIntegers DEF Newer
  <2> QED
    BY <1>1, <1>2, <1>3, <2>1, ObsoleteNow, NewerGrows, NewerFinite, NumberAssumption
<1>4. CASE n < m
  <2>1. m \in ever \ disk
    BY <1>1, <1>4, NumberAssumption DEF Names
  <2>2. Newer(disk, m) \subseteq disk'
    BY <1>1, <1>2, <1>4, NamesAreIntegers DEF Newer
  <2>3. Cardinality(Newer(disk, m)) >= Retention
    BY <2>1 DEF KeepsNewest
  <2>4. m <= m
    BY <1>2, NumberAssumption DEF Names
  <2> QED
    BY <1>1, <1>2, <2>2, <2>3, <2>4, NewerGrows, NewerFinite, NumberAssumption
<1> QED
  BY <1>2, <1>3, <1>4, NumberAssumption DEF Names

LEMMA Addition ==
  ASSUME TypeOK, SeenInv, KeepsNewest, NEW n \in Names, Holds(disk \union {n})
  PROVE  KeepsNewest'
<1> disk \in SUBSET Names /\ ever \in SUBSET Names
  BY DEF TypeOK
<1>1. disk' = disk \union {n} /\ ever' = ever \union {n} /\ disk' \in SUBSET Names
  BY DEF Holds, SeenInv
<1> SUFFICES ASSUME NEW m \in ever' \ disk'
             PROVE  Cardinality(Newer(disk', m)) >= Retention
  BY DEF KeepsNewest
<1>2. m \in Names /\ m \in ever \ disk
  BY <1>1
<1>3. Newer(disk, m) \subseteq disk' /\ m <= m
  BY <1>1, <1>2, NamesAreIntegers DEF Newer
<1>4. Cardinality(Newer(disk, m)) >= Retention
  BY <1>2 DEF KeepsNewest
<1> QED
  BY <1>1, <1>2, <1>3, <1>4, NewerGrows, NewerFinite, NumberAssumption

\* No step on the folder loses one of the newest copies, or makes a copy less
\* obsolete.
LEMMA FolderStepKeeps ==
  ASSUME TypeOK, SeenInv, KeepsNewest, FolderStep
  PROVE  /\ disk' \subseteq Names /\ ever' \subseteq Names
         /\ SeenInv' /\ KeepsNewest'
         /\ \A n : Obsolete(n) => Obsolete(n)'
<1> disk \in SUBSET Names /\ ever \in SUBSET Names
  BY DEF TypeOK
<1>1. /\ disk' \in SUBSET Names /\ ever' \in SUBSET Names
      /\ SeenInv' /\ ever \subseteq ever'
  BY DEF FolderStep, Holds, SeenInv
<1>2. KeepsNewest'
  <2>1. CASE UNCHANGED <<disk, ever>>
    BY <2>1 DEF KeepsNewest, Newer
  <2>2. CASE \E n \in Names : Holds(disk \union {n})
    BY <2>2, Addition
  <2>3. CASE \E n \in Names : Obsolete(n) /\ Holds(disk \ {n})
    BY <2>3, Removal
  <2> QED
    BY <2>1, <2>2, <2>3 DEF FolderStep
<1>3. ASSUME NEW n, Obsolete(n) PROVE Obsolete(n)'
  <2>1. n \in Names /\ n <= n /\ Newer(ever, n) \subseteq ever'
    BY <1>1, <1>3, NamesAreIntegers DEF Obsolete, Newer
  <2>2. Cardinality(Newer(ever, n)) <= Cardinality(Newer(ever', n))
    BY <1>1, <2>1, NewerGrows
  <2> QED
    BY <1>1, <1>3, <2>1, <2>2, NewerFinite, NumberAssumption DEF Obsolete
<1> QED
  BY <1>1, <1>2, <1>3

-----------------------------------------------------------------------------
(* The steps.                                                              *)

\* The types of everything but the folder, with NamedInv.
OpsOK ==
  /\ now \in Names
  /\ landing \subseteq Names /\ leaving \subseteq Names
  /\ token \in [Processes -> {"none", "live", "stale"}]
  /\ op \in [Processes -> Op]
  /\ NamedInv

LEMMA EndsKeeps ==
  ASSUME BackupInv, NEW p \in Processes, NEW t \in {"none", "live", "stale"}, Ends(p, t)
  PROVE  /\ token' \in [Processes -> {"none", "live", "stale"}]
         /\ op' \in [Processes -> Op]
         /\ NamedInv'
         /\ \A q \in Processes : op'[q].old \subseteq op[q].old
  BY DEF BackupInv, TypeOK, NamedInv, Ends, Idle, Op

\* What a step of a run does, as far as the invariant is concerned.
StepKeeps ==
  /\ FolderStep
  /\ OpsOK'
  /\ \A q \in Processes : \A n \in op'[q].old : Obsolete(n)
  /\ \A n \in leaving' : Obsolete(n)

LEMMA RunKeeps ==
  ASSUME BackupInv, NEW p \in Processes, Run(p)
  PROVE  StepKeeps
<1> USE DEF store
<1>1. /\ TypeOK /\ NamedInv /\ OldInv
      /\ token[p] \in {"none", "live", "stale"} /\ op[p] \in Op
  BY DEF BackupInv, TypeOK
<1>2. CASE Start(p)
  BY <1>1, <1>2 DEF Start, StepKeeps, FolderStep, OpsOK, TypeOK, NamedInv, OldInv, Idle, Op
<1>3. CASE CreateDump(p)
  <2>1. UNCHANGED <<now, disk, landing, leaving, ever>>
    BY <1>3 DEF CreateDump
  <2>2. CASE Goes(p, "folder") /\ UNCHANGED token
    BY <1>1, <1>3, <2>1, <2>2
       DEF CreateDump, Goes, StepKeeps, FolderStep, OpsOK, TypeOK, NamedInv, OldInv, Op
  <2>3. CASE Ends(p, token[p])
    BY <1>1, <2>1, <2>3, EndsKeeps DEF StepKeeps, FolderStep, OpsOK, TypeOK, OldInv
  <2> QED
    BY <1>3, <2>2, <2>3 DEF CreateDump
<1>4. CASE EnsureFolder(p)
  <2>1. UNCHANGED <<now, disk, landing, leaving, ever>> /\ op[p].step = "folder"
    BY <1>4 DEF EnsureFolder
  <2>2. CASE Goes(p, "upload") /\ token' = [token EXCEPT ![p] = "live"]
    BY <1>1, <2>1, <2>2
       DEF Goes, StepKeeps, FolderStep, OpsOK, TypeOK, NamedInv, OldInv, Op
  <2>3. CASE \E t \in {"none", "live", "stale"} : Ends(p, t)
    BY <1>1, <2>1, <2>3, EndsKeeps DEF StepKeeps, FolderStep, OpsOK, TypeOK, OldInv
  <2> QED
    BY <1>1, <1>4, <2>2, <2>3 DEF EnsureFolder, EnsureAccessToken
<1>5. CASE RequestUploadHref(p)
  <2>1. UNCHANGED <<now, disk, landing, leaving, ever>> /\ op[p].step = "upload"
    BY <1>5 DEF RequestUploadHref
  <2>2. CASE Goes(p, "put") /\ UNCHANGED token
    BY <1>1, <2>1, <2>2
       DEF Goes, StepKeeps, FolderStep, OpsOK, TypeOK, NamedInv, OldInv, Op
  <2>3. CASE Ends(p, token[p])
    BY <1>1, <2>1, <2>3, EndsKeeps DEF StepKeeps, FolderStep, OpsOK, TypeOK, OldInv
  <2> QED
    BY <1>5, <2>2, <2>3 DEF RequestUploadHref
<1>6. CASE PutFile(p)
  <2>1. op[p].name \in Names /\ op[p].step = "put" /\ UNCHANGED <<now, leaving>>
    BY <1>1, <1>6 DEF PutFile, NamedInv
  <2>2. FolderStep
    BY <1>6, <2>1 DEF PutFile, Puts, FolderStep
  <2>3. landing' \subseteq Names
    BY <1>1, <1>6, <2>1 DEF PutFile, Puts, TypeOK
  <2>4. CASE op' = [op EXCEPT ![p] = [Idle EXCEPT !.step = "list"]] /\ UNCHANGED token
    BY <1>1, <2>1, <2>2, <2>3, <2>4
       DEF StepKeeps, OpsOK, TypeOK, NamedInv, OldInv, Idle, Op
  <2>5. CASE Ends(p, token[p])
    BY <1>1, <2>1, <2>2, <2>3, <2>5, EndsKeeps DEF StepKeeps, OpsOK, TypeOK, OldInv
  <2> QED
    BY <1>6, <2>4, <2>5 DEF PutFile
<1>7. CASE ListFiles(p)
  <2>1. UNCHANGED <<now, disk, landing, leaving, ever>> /\ op[p].step = "list"
    BY <1>7 DEF ListFiles
  <2>2. CASE /\ op' = [op EXCEPT ![p].step = "delete", ![p].old = SelectForDeletion(disk)]
             /\ UNCHANGED token
    <3>1. SelectForDeletion(disk) \in SUBSET Names
      BY <1>1 DEF SelectForDeletion, TypeOK
    <3>2. ASSUME NEW n \in SelectForDeletion(disk) PROVE Obsolete(n)
      <4>1. /\ n \in Names /\ n <= n /\ Newer(disk, n) \subseteq ever
            /\ disk \in SUBSET Names /\ ever \in SUBSET Names
        BY <1>1, <3>1, NamesAreIntegers DEF Newer, BackupInv, SeenInv, TypeOK
      <4>2. Cardinality(Newer(disk, n)) <= Cardinality(Newer(ever, n))
        BY <4>1, NewerGrows
      <4>3. Cardinality(Newer(disk, n)) >= Retention
        BY DEF SelectForDeletion
      <4>4. /\ Cardinality(Newer(disk, n)) \in Int
            /\ Cardinality(Newer(ever, n)) \in Int
        BY <4>1, NewerFinite
      <4> QED
        BY <4>1, <4>2, <4>3, <4>4, NumberAssumption DEF Obsolete
    <3>3. OpsOK'
      BY <1>1, <2>1, <2>2, <3>1 DEF OpsOK, TypeOK, NamedInv, Op
    <3>4. \A q \in Processes : \A n \in op'[q].old : Obsolete(n)
      BY <1>1, <2>2, <3>2 DEF OldInv, TypeOK, Op
    <3> QED
      BY <1>1, <2>1, <3>3, <3>4 DEF StepKeeps, FolderStep, OldInv
  <2>3. CASE Ends(p, token[p])
    BY <1>1, <2>1, <2>3, EndsKeeps DEF StepKeeps, FolderStep, OpsOK, TypeOK, OldInv
  <2> QED
    BY <1>7, <2>2, <2>3 DEF ListFiles
<1>8. CASE Delete(p)
  <2>1. op[p].step = "delete" /\ UNCHANGED <<now, landing>>
    BY <1>8 DEF Delete
  <2>2. PICK n \in op[p].old :
          /\ \/ Holds(disk \ {n}) \/ UNCHANGED <<disk, ever>>
          /\ leaving' \in {leaving, leaving \union {n}}
          /\ \/ op' = [op EXCEPT ![p].old = @ \ {n}] /\ UNCHANGED token
             \/ Ends(p, token[p])
    BY <1>8 DEF Delete, Removes
  <2>3. Obsolete(n) /\ n \in Names
    BY <1>1, <2>2 DEF OldInv, Obsolete
  <2>4. FolderStep
    BY <2>2, <2>3 DEF FolderStep
  <2>5. leaving' \subseteq Names /\ \A m \in leaving' : Obsolete(m)
    BY <1>1, <2>2, <2>3 DEF TypeOK, OldInv
  <2>6. CASE op' = [op EXCEPT ![p].old = @ \ {n}] /\ UNCHANGED token
    <3>1. OpsOK'
      BY <1>1, <2>1, <2>5, <2>6 DEF OpsOK, TypeOK, NamedInv, Op
    <3>2. \A q \in Processes : \A m \in op'[q].old : Obsolete(m)
      BY <1>1, <2>6 DEF OldInv, TypeOK, Op
    <3> QED
      BY <2>4, <2>5, <3>1, <3>2 DEF StepKeeps
  <2>7. CASE Ends(p, token[p])
    BY <1>1, <2>1, <2>4, <2>5, <2>7, EndsKeeps DEF StepKeeps, OpsOK, TypeOK, OldInv
  <2> QED
    BY <2>2, <2>6, <2>7
<1>9. CASE Finish(p)
  BY <1>1, <1>9, EndsKeeps DEF Finish, StepKeeps, FolderStep, OpsOK, TypeOK, OldInv
<1> QED
  BY <1>2, <1>3, <1>4, <1>5, <1>6, <1>7, <1>8, <1>9 DEF Run

LEMMA NextKeeps ==
  ASSUME BackupInv, [Next]_vars
  PROVE  StepKeeps
<1> USE DEF store
<1>1. TypeOK /\ NamedInv /\ OldInv
  BY DEF BackupInv
<1>2. ASSUME NEW p \in Processes, Run(p) PROVE StepKeeps
  BY <1>2, RunKeeps
<1>3. ASSUME NEW p \in Processes, Crash(p) PROVE StepKeeps
  BY <1>1, <1>3
     DEF Crash, StepKeeps, FolderStep, OpsOK, TypeOK, NamedInv, OldInv, Idle, Op
<1>4. CASE TokenExpires
  BY <1>1, <1>4 DEF TokenExpires, StepKeeps, FolderStep, OpsOK, TypeOK, NamedInv, OldInv
<1>5. ASSUME NEW n \in Names, Land(n) PROVE StepKeeps
  BY <1>1, <1>5 DEF Land, StepKeeps, FolderStep, OpsOK, TypeOK, NamedInv, OldInv
<1>6. ASSUME NEW n \in Names, Leave(n) PROVE StepKeeps
  <2>1. Obsolete(n)
    BY <1>1, <1>6 DEF Leave, OldInv
  <2> QED
    BY <1>1, <1>6, <2>1 DEF Leave, StepKeeps, FolderStep, OpsOK, TypeOK, NamedInv, OldInv
<1>7. CASE Tick
  BY <1>1, <1>7, NumberAssumption
     DEF Tick, StepKeeps, FolderStep, OpsOK, TypeOK, NamedInv, OldInv, Names
<1>8. CASE UNCHANGED vars
  BY <1>1, <1>8 DEF vars, StepKeeps, FolderStep, OpsOK, TypeOK, NamedInv, OldInv
<1> QED
  BY <1>2, <1>3, <1>4, <1>5, <1>6, <1>7, <1>8 DEF Next

-----------------------------------------------------------------------------
(* Theorems.                                                               *)

LEMMA InvInit == Init => BackupInv
  BY NumberAssumption
     DEF Init, BackupInv, TypeOK, SeenInv, NamedInv, OldInv, KeepsNewest, Op, Idle, Names

LEMMA InvNext == BackupInv /\ [Next]_vars => BackupInv'
<1> SUFFICES ASSUME BackupInv, [Next]_vars PROVE BackupInv'
  OBVIOUS
<1>1. StepKeeps
  BY NextKeeps
<1>2. /\ disk' \subseteq Names /\ ever' \subseteq Names
      /\ SeenInv' /\ KeepsNewest'
      /\ \A n : Obsolete(n) => Obsolete(n)'
  BY <1>1, FolderStepKeeps DEF BackupInv, StepKeeps
<1>3. TypeOK' /\ NamedInv'
  BY <1>1, <1>2 DEF StepKeeps, OpsOK, TypeOK
<1>4. OldInv'
  BY <1>1, <1>2 DEF StepKeeps, OldInv
<1> QED
  BY <1>2, <1>3, <1>4 DEF BackupInv

\* Every variable stays within its type.
THEOREM TypeOKCorrect == Spec => []TypeOK
<1>1. BackupInv => TypeOK
  BY DEF BackupInv
<1> QED
  BY <1>1, InvInit, InvNext, PTL DEF Spec

\* The newest Retention copies there have ever been are in the folder, whatever
\* fails and however rotations, late uploads and late deletions interleave.
THEOREM KeepsNewestCorrect == Spec => []KeepsNewest
<1>1. BackupInv => KeepsNewest
  BY DEF BackupInv
<1> QED
  BY <1>1, InvInit, InvNext, PTL DEF Spec

=============================================================================
