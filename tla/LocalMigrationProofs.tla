----------------------- MODULE LocalMigrationProofs -----------------------
(***************************************************************************)
(* The copies of the preimages survive every interruption, an active       *)
(* manifest stands for complete targets, and nothing a new writer wrote is *)
(* removed, for any plan, any targets and any number of interruptions; at  *)
(* the end the theorems about WriterAuthority: which server may write the  *)
(* store that others move to.                                              *)
(***************************************************************************)
EXTENDS LocalMigration, WriterAuthority, TLAPS

(***************************************************************************)
(* Where a command is tells the phase it found.                            *)
(***************************************************************************)
OpFollowsPhase ==
  /\ op.at \in {"fence", "backup"} => manifest.phase = "none"
  /\ op.at = "import" => manifest.phase \in Resumable
  /\ op.at = "cutover" => manifest.phase \in {"verified", "cutover"}
  /\ op.at \in {"restore", "released"} => manifest.phase = "rolling_back"
  /\ manifest.phase \in {"none", "rolled_back"} => ~manifest.available

(***************************************************************************)
(* What each step of a command has done already.                           *)
(***************************************************************************)
UntouchedBefore == manifest.phase = "none" => file = world.pre

CopiedSoFar ==
  op.at = "backup" =>
    \A t \in Targets \ op.left :
      world.pre[t].there => backup[t] = Copy(world.pre[t])

RestoredSoFar ==
  /\ op.at = "restore" => \A t \in Targets \ op.left : file[t] = manifest.copies[t]
  /\ op.at = "released" => file = manifest.copies /\ fence = {}

ImportedSoFar ==
  op.at = "import" => \A p \in 1..Pieces : p < op.next => p \in file[Home[p]].rows

(***************************************************************************)
(* A target with a new writer's data pins the phase to cutover.            *)
(***************************************************************************)
NewerPinsCutover ==
  /\ \A t \in Targets : file[t].newer => manifest.phase = "cutover"
  /\ \A t \in Targets : ~manifest.post[t].newer

KeptInv ==
  OpFollowsPhase /\ UntouchedBefore /\ CopiedSoFar /\ RestoredSoFar /\ PreimageKept

---------------------------------------------------------------------------
LEMMA NoFileType == NoFile \in Files /\ ~NoFile.newer
  BY DEF NoFile, Files

LEMMA NoManifestType ==
  /\ NoManifest \in Manifests
  /\ NoManifest.phase = "none" /\ ~NoManifest.available
  /\ \A t \in Targets : ~NoManifest.post[t].newer
  BY NoFileType DEF NoManifest, Manifests, Phases

LEMMA WorldType == \A w \in Worlds : w \in WorldSet /\ w.pre \in [Targets -> Files]
  BY WorldAssumption DEF WorldSet, Preimage

LEMMA CopyType ==
  ASSUME NEW f \in Files
  PROVE  Copy(f) \in Files /\ Copy(f).newer = f.newer /\ Copy(f).there = f.there
  BY DEF Copy, Files

LEMMA CopyOfPreimage ==
  ASSUME NEW f \in Preimage
  PROVE  /\ ~f.there => Copy(f) = NoFile
         /\ Copy(f) \in Files /\ ~Copy(f).newer
  <1>1. f \in Files /\ ~f.newer /\ (~f.there => f = NoFile)
    BY DEF Preimage
  <1>2. Copy(NoFile) = NoFile
    BY DEF Copy, NoFile
  <1> QED
    BY <1>1, <1>2, CopyType

(***************************************************************************)
(* What the commands and the writers do to a target file.                  *)
(***************************************************************************)
LEMMA Touched ==
  ASSUME NEW f \in Files
  PROVE  /\ [f EXCEPT !.there = TRUE] \in Files
         /\ [f EXCEPT !.there = TRUE].rows = f.rows
         /\ [f EXCEPT !.there = TRUE].newer = f.newer
         /\ [f EXCEPT !.newer = TRUE] \in Files
         /\ [f EXCEPT !.newer = TRUE].rows = f.rows
         /\ [f EXCEPT !.newer = TRUE].newer
         /\ [f EXCEPT !.wal = FALSE] \in Files
         /\ [f EXCEPT !.wal = FALSE].newer = f.newer
  BY DEF Files

LEMMA HomeType == ASSUME NEW p \in 1..Pieces PROVE Home[p] \in Targets
  BY MigrationAssumption

(***************************************************************************)
(* Every reachable state is well typed: the manifest is in one of its      *)
(* phases and a command is at one of the steps of apply_migration_012,     *)
(* cutover_migration_012 or rollback_migration_012.                        *)
(***************************************************************************)
LEMMA ImportedType ==
  ASSUME TypeOK, NEW t \in Targets, NEW p \in 1..Pieces
  PROVE  /\ Imported(t, p) \in Files
         /\ Imported(t, p).rows = file[t].rows \union {p}
         /\ Imported(t, p).newer = file[t].newer
  <1> DEFINE r == file[t].rows \union {p}
             b == file[t].native /\ p \in file[t].rows
             h == t \in world.held
  <1>1. file[t] \in Files
    BY DEF TypeOK
  <1>2. r \in SUBSET (1..Pieces) /\ b \in BOOLEAN /\ h \in BOOLEAN
    BY <1>1 DEF Files
  <1>3. Imported(t, p) = [file[t] EXCEPT !.there = TRUE, !.rows = r, !.native = b, !.wal = h]
    BY DEF Imported
  <1> DEFINE g == [file[t] EXCEPT !.there = TRUE, !.rows = r, !.native = b, !.wal = h]
  <1> HIDE DEF r, b, h
  <1>4. g \in Files /\ g.rows = r /\ g.newer = file[t].newer
    BY <1>1, <1>2 DEF Files
  <1> HIDE DEF g
  <1>5. Imported(t, p) = g
    BY <1>3 DEF g
  <1>6. r = file[t].rows \union {p}
    BY DEF r
  <1> QED
    BY <1>4, <1>5, <1>6

LEMMA InitType == Init => TypeOK
  <1> SUFFICES ASSUME Init PROVE TypeOK
    OBVIOUS
  <1>1. world \in WorldSet /\ file \in [Targets -> Files]
    BY WorldType DEF Init
  <1>2. backup \in [Targets -> Files]
    BY NoFileType DEF Init
  <1>3. op \in [at : {"idle", "fence", "backup", "import", "cutover", "restore", "released"},
                next : 1..(Pieces + 1), left : SUBSET Targets]
    BY MigrationAssumption DEF Init, Idle
  <1> QED
    BY <1>1, <1>2, <1>3, NoManifestType DEF Init, TypeOK

LEMMA AtType ==
  ASSUME NEW s \in {"idle", "fence", "backup", "import", "cutover", "restore", "released"},
         NEW n \in 1..(Pieces + 1), NEW l \in SUBSET Targets
  PROVE  At(s, n, l) \in
           [at : {"idle", "fence", "backup", "import", "cutover", "restore", "released"},
            next : 1..(Pieces + 1), left : SUBSET Targets]
  BY DEF At

LEMMA StepType == TypeOK /\ [Next]_vars => TypeOK'
  <1> SUFFICES ASSUME TypeOK, [Next]_vars PROVE TypeOK'
    OBVIOUS
  <1> USE DEF TypeOK
  <1>0. /\ 1 \in 1..(Pieces + 1) /\ {} \in SUBSET Targets /\ Targets \in SUBSET Targets
        /\ Idle = At("idle", 1, {})
    BY MigrationAssumption DEF Idle, At
  <1>1. CASE StartApply
    BY <1>0, <1>1, AtType DEF StartApply
  <1>2. CASE WriteFence
    BY <1>0, <1>2, AtType DEF WriteFence
  <1>3. CASE BackUp
    <2>1. PICK t \in op.left :
             /\ backup' = [backup EXCEPT ![t] = IF file[t].there THEN Copy(file[t]) ELSE @]
             /\ op' = [op EXCEPT !.left = @ \ {t}]
      BY <1>3 DEF BackUp
    <2>2. t \in Targets /\ Copy(file[t]) \in Files
      BY CopyType
    <2> QED
      BY <1>3, <2>1, <2>2 DEF BackUp
  <1>4. CASE SaveBackedUp
    <2>1. [t \in Targets |-> IF file[t].there THEN backup[t] ELSE NoFile] \in [Targets -> Files]
      BY NoFileType
    <2>2. manifest' \in Manifests
      BY <1>4, <2>1, NoManifestType DEF SaveBackedUp, Manifests, Phases
    <2> QED
      BY <1>0, <1>4, <2>2, AtType DEF SaveBackedUp
  <1>5. CASE Import
    <2>1. op.next \in 1..Pieces /\ Home[op.next] \in Targets
      BY <1>5, HomeType DEF Import
    <2>2. Imported(Home[op.next], op.next) \in Files
      BY <2>1, ImportedType
    <2>3. op.next + 1 \in 1..(Pieces + 1)
      BY <2>1, MigrationAssumption
    <2> QED
      BY <1>0, <1>5, <2>1, <2>2, <2>3, AtType DEF Import
  <1>6. CASE SaveApplied
    BY <1>0, <1>6, AtType DEF SaveApplied, Manifests, Phases
  <1>7. CASE Verify
    <2>1. file' \in [Targets -> Files]
      BY <1>7, Touched DEF Verify
    <2>2. manifest' \in Manifests
      BY <1>7 DEF Verify, Manifests, Phases, VerifiedPhase
    <2> QED
      BY <1>7, <2>1, <2>2 DEF Verify
  <1>8. CASE StartCutover
    BY <1>0, <1>8, AtType DEF StartCutover
  <1>9. CASE SaveCutover
    BY <1>0, <1>9, AtType DEF SaveCutover, Manifests, Phases
  <1>10. CASE StartRollback
    BY <1>0, <1>10, AtType DEF StartRollback, Manifests, Phases
  <1>11. CASE Restore
    <2>0. manifest.copies \in [Targets -> Files]
      BY DEF Manifests
    <2>a. PICK t \in op.left :
             \/ file' = [file EXCEPT ![t] = [file[t] EXCEPT !.wal = FALSE]]
             \/ file' = [file EXCEPT ![t] = manifest.copies[t]]
      BY <1>11 DEF Restore
    <2>b. t \in Targets /\ [file[t] EXCEPT !.wal = FALSE] \in Files
          /\ manifest.copies[t] \in Files
      BY <2>0, Touched
    <2>1. file' \in [Targets -> Files]
      BY <2>a, <2>b
    <2>2. op' \in [at : {"idle", "fence", "backup", "import", "cutover", "restore", "released"},
                   next : 1..(Pieces + 1), left : SUBSET Targets]
      BY <1>11 DEF Restore
    <2> QED
      BY <1>11, <2>1, <2>2 DEF Restore
  <1>12. CASE Release
    <2>1. marker' \in BOOLEAN
      BY <1>12 DEF Release
    <2>2. fence' \subseteq Sources
      BY <1>12 DEF Release
    <2>3. op' \in [at : {"idle", "fence", "backup", "import", "cutover", "restore", "released"},
                   next : 1..(Pieces + 1), left : SUBSET Targets]
      BY <1>0, <1>12, AtType DEF Release
    <2> QED
      BY <1>12, <2>1, <2>2, <2>3 DEF Release
  <1>13. CASE SaveRolledBack
    BY <1>0, <1>13, AtType DEF SaveRolledBack, Manifests, Phases
  <1>14. CASE Die
    <2>1. world' \in WorldSet
      BY <1>14 DEF Die, WorldSet
    <2> QED
      BY <1>0, <1>14, <2>1, AtType DEF Die
  <1>15. CASE LegacyWrites
    BY <1>15 DEF LegacyWrites
  <1>16. CASE NewWrites
    <2>a. PICK t \in Targets : file' = [file EXCEPT ![t] = [file[t] EXCEPT !.newer = TRUE]]
      BY <1>16 DEF NewWrites
    <2>1. file' \in [Targets -> Files]
      BY <2>a, Touched
    <2> QED
      BY <1>16, <2>1 DEF NewWrites
  <1>17. CASE UNCHANGED vars
    BY <1>17 DEF vars
  <1> QED
    BY <1>1, <1>2, <1>3, <1>4, <1>5, <1>6, <1>7, <1>8, <1>9, <1>10, <1>11, <1>12,
       <1>13, <1>14, <1>15, <1>16, <1>17 DEF Next, ApplyStep, RollbackStep

THEOREM TypeCorrect == Spec => []TypeOK
  <1>1. TypeOK /\ [Next]_vars => TypeOK'
    BY StepType
  <1> QED
    BY InitType, <1>1, PTL DEF Spec

---------------------------------------------------------------------------
LEMMA InitKept ==
  Init => KeptInv /\ ImportedSoFar /\ ActiveIsComplete /\ NewerPinsCutover
  <1> SUFFICES ASSUME Init
               PROVE  KeptInv /\ ImportedSoFar /\ ActiveIsComplete /\ NewerPinsCutover
    OBVIOUS
  <1>1. /\ manifest.phase = "none" /\ ~manifest.available /\ op.at = "idle"
        /\ \A t \in Targets : ~manifest.post[t].newer
        /\ file = world.pre /\ world \in WorldSet
    BY NoManifestType, WorldType DEF Init, Idle
  <1>2. \A t \in Targets : ~file[t].newer
    BY <1>1 DEF WorldSet, Preimage
  <1>3. KeptInv
    BY <1>1 DEF KeptInv, OpFollowsPhase, UntouchedBefore, CopiedSoFar, RestoredSoFar,
                PreimageKept
  <1> QED
    BY <1>1, <1>2, <1>3 DEF ImportedSoFar, ActiveIsComplete, Active, NewerPinsCutover

(***************************************************************************)
(* The phase and the place of a command move together.                     *)
(***************************************************************************)
LEMMA StepOp == TypeOK /\ OpFollowsPhase /\ [Next]_vars => OpFollowsPhase'
  <1> SUFFICES ASSUME TypeOK, OpFollowsPhase, [Next]_vars PROVE OpFollowsPhase'
    OBVIOUS
  <1>0. /\ Idle.at = "idle"
        /\ \A s, n, l : At(s, n, l).at = s
        /\ manifest \in Manifests
    BY DEF Idle, At, TypeOK
  <1> USE DEF OpFollowsPhase, Resumable
  <1>1. CASE StartApply
    BY <1>0, <1>1 DEF StartApply
  <1>2. CASE WriteFence
    BY <1>0, <1>2 DEF WriteFence
  <1>3. CASE BackUp
    BY <1>0, <1>3 DEF BackUp, TypeOK
  <1>4. CASE SaveBackedUp
    BY <1>0, <1>4, NoManifestType DEF SaveBackedUp, Manifests
  <1>5. CASE Import
    BY <1>0, <1>5 DEF Import, TypeOK
  <1>6. CASE SaveApplied
    BY <1>0, <1>6 DEF SaveApplied, Manifests
  <1>7. CASE Verify
    BY <1>0, <1>7 DEF Verify, VerifiedPhase, Manifests, Idle
  <1>8. CASE StartCutover
    BY <1>0, <1>8 DEF StartCutover
  <1>9. CASE SaveCutover
    BY <1>0, <1>9 DEF SaveCutover, Manifests
  <1>10. CASE StartRollback
    BY <1>0, <1>10 DEF StartRollback, Manifests
  <1>11. CASE Restore
    BY <1>0, <1>11 DEF Restore, TypeOK
  <1>12. CASE Release
    BY <1>0, <1>12 DEF Release, At
  <1>13. CASE SaveRolledBack
    BY <1>0, <1>13 DEF SaveRolledBack, Manifests
  <1>14. CASE Die
    BY <1>0, <1>14 DEF Die
  <1>15. CASE LegacyWrites \/ NewWrites \/ UNCHANGED vars
    BY <1>15 DEF LegacyWrites, NewWrites, vars
  <1> QED
    BY <1>1, <1>2, <1>3, <1>4, <1>5, <1>6, <1>7, <1>8, <1>9, <1>10, <1>11, <1>12,
       <1>13, <1>14, <1>15 DEF Next, ApplyStep, RollbackStep

(***************************************************************************)
(* The copies are made before anything is imported.                        *)
(***************************************************************************)
LEMMA StepKept == TypeOK /\ KeptInv /\ [Next]_vars => KeptInv'
  <1> SUFFICES ASSUME TypeOK, KeptInv, [Next]_vars PROVE KeptInv'
    OBVIOUS
  <1>0. /\ Idle.at = "idle" /\ OpFollowsPhase'
        /\ \A s, n, l : At(s, n, l).at = s /\ At(s, n, l).left = l
        /\ manifest \in Manifests
    BY StepOp DEF Idle, At, TypeOK, KeptInv
  <1> USE DEF KeptInv, OpFollowsPhase, UntouchedBefore, CopiedSoFar, RestoredSoFar,
              PreimageKept, Resumable
  <1>1. CASE StartApply
    BY <1>0, <1>1 DEF StartApply
  <1>2. CASE WriteFence
    BY <1>0, <1>2 DEF WriteFence
  <1>3. CASE BackUp
    <2>1. PICK t \in op.left :
             /\ backup' = [backup EXCEPT ![t] = IF file[t].there THEN Copy(file[t]) ELSE @]
             /\ op' = [op EXCEPT !.left = @ \ {t}]
      BY <1>3 DEF BackUp
    <2>2. /\ op'.at = "backup" /\ op'.left = op.left \ {t} /\ t \in Targets
          /\ world' = world /\ file' = file /\ manifest' = manifest
      BY <1>3, <2>1 DEF BackUp, TypeOK
    <2>3. file = world.pre /\ backup \in [Targets -> Files]
      BY <1>3 DEF BackUp, TypeOK
    <2>4. CopiedSoFar'
      BY <2>1, <2>2, <2>3
    <2> QED
      BY <1>0, <1>3, <2>2, <2>4 DEF BackUp
  <1>4. CASE SaveBackedUp
    <2>1. /\ manifest.phase = "none" /\ file = world.pre /\ world \in WorldSet
          /\ op.at = "backup" /\ op.left = {}
      BY <1>0, <1>4 DEF SaveBackedUp, TypeOK
    <2>2. \A t \in Targets :
            (IF file[t].there THEN backup[t] ELSE NoFile) = Copy(world.pre[t])
      <3> TAKE t \in Targets
      <3>1. world.pre[t] \in Preimage
        BY <2>1 DEF WorldSet
      <3> QED
        BY <2>1, <3>1, CopyOfPreimage
    <2>3. manifest'.copies = [t \in Targets |-> IF file[t].there THEN backup[t] ELSE NoFile]
          /\ manifest'.phase = "backed_up"
      BY <1>4, NoManifestType DEF SaveBackedUp, Manifests
    <2>4. manifest'.copies = [t \in Targets |-> Copy(world.pre[t])] /\ world' = world
      BY <1>4, <2>2, <2>3 DEF SaveBackedUp
    <2>5. op'.at \in {"idle", "import"}
      BY <1>0, <1>4 DEF SaveBackedUp
    <2> QED
      BY <1>0, <2>3, <2>4, <2>5
  <1>5. CASE Import
    <2>1. op'.at \in {"idle", "import"} /\ manifest.phase \in {"backed_up", "rolling_back"}
      BY <1>0, <1>5 DEF Import, TypeOK
    <2> QED
      BY <1>0, <1>5, <2>1 DEF Import
  <1>6. CASE SaveApplied
    <2>1. manifest'.phase = "applied" /\ manifest'.copies = manifest.copies
      BY <1>0, <1>6 DEF SaveApplied, Manifests
    <2> QED
      BY <1>0, <1>6, <2>1 DEF SaveApplied
  <1>7. CASE Verify
    <2>1. /\ manifest'.phase \in {manifest.phase, "verified", "cutover"}
          /\ manifest'.copies = manifest.copies
      BY <1>0, <1>7 DEF Verify, VerifiedPhase, Manifests
    <2> QED
      BY <1>0, <1>7, <2>1 DEF Verify
  <1>8. CASE StartCutover
    BY <1>0, <1>8 DEF StartCutover
  <1>9. CASE SaveCutover
    <2>1. manifest'.phase = "cutover" /\ manifest'.copies = manifest.copies
      BY <1>0, <1>9 DEF SaveCutover, Manifests
    <2> QED
      BY <1>0, <1>9, <2>1 DEF SaveCutover
  <1>10. CASE StartRollback
    <2>1. manifest'.phase = "rolling_back" /\ manifest'.copies = manifest.copies
          /\ manifest.phase # "none" /\ op'.at = "restore" /\ op'.left = Targets
      BY <1>0, <1>10 DEF StartRollback, Manifests
    <2> QED
      BY <1>0, <1>10, <2>1 DEF StartRollback
  <1>11. CASE Restore
    <2>1. PICK t \in op.left :
             \/ /\ file' = [file EXCEPT ![t] = [file[t] EXCEPT !.wal = FALSE]]
                /\ op' = op
             \/ /\ file' = [file EXCEPT ![t] = manifest.copies[t]]
                /\ op' = [op EXCEPT !.left = @ \ {t}]
      BY <1>11 DEF Restore
    <2>2. /\ op.at = "restore" /\ op'.at = "restore" /\ manifest' = manifest
          /\ world' = world /\ manifest.phase = "rolling_back" /\ t \in Targets
          /\ (op'.left = op.left \/ op'.left = op.left \ {t})
      BY <1>11, <2>1 DEF Restore, TypeOK
    <2>3. \A u \in Targets \ op'.left : file'[u] = manifest.copies[u]
      <3> SUFFICES ASSUME NEW u \in Targets \ op'.left PROVE file'[u] = manifest.copies[u]
        OBVIOUS
      <3>1. CASE op' = op
        BY <2>1, <2>2, <3>1 DEF TypeOK
      <3>2. CASE op' # op
        BY <2>1, <2>2, <3>2 DEF TypeOK
      <3> QED
        BY <3>1, <3>2
    <2> QED
      BY <1>0, <2>2, <2>3
  <1>12. CASE Release
    <2>1. /\ file \in [Targets -> Files] /\ manifest.copies \in [Targets -> Files]
          /\ op.at = "restore" /\ op.left = {} /\ manifest.phase = "rolling_back"
          /\ file' = file /\ manifest' = manifest /\ world' = world
      BY <1>0, <1>12 DEF Release, TypeOK, Manifests
    <2>2. file = manifest.copies
      BY <2>1
    <2>3. op' = op \/ (op'.at = "released" /\ fence = {} /\ fence' = fence)
      BY <1>0, <1>12 DEF Release
    <2> QED
      BY <1>0, <2>1, <2>2, <2>3
  <1>13. CASE SaveRolledBack
    <2>1. manifest'.phase = "rolled_back" /\ manifest'.copies = manifest.copies
          /\ file' = file /\ fence' = fence /\ world' = world /\ op'.at = "idle"
      BY <1>0, <1>13 DEF SaveRolledBack, Manifests
    <2> QED
      BY <1>0, <1>13, <2>1 DEF SaveRolledBack
  <1>14. CASE Die
    <2>1. world'.pre = world.pre
      BY <1>14 DEF Die, TypeOK, WorldSet
    <2> QED
      BY <1>0, <1>14, <2>1 DEF Die
  <1>15. CASE LegacyWrites
    BY <1>15 DEF LegacyWrites
  <1>16. CASE NewWrites
    BY <1>0, <1>16 DEF NewWrites
  <1>17. CASE UNCHANGED vars
    BY <1>17 DEF vars
  <1> QED
    BY <1>1, <1>2, <1>3, <1>4, <1>5, <1>6, <1>7, <1>8, <1>9, <1>10, <1>11, <1>12,
       <1>13, <1>14, <1>15, <1>16, <1>17 DEF Next, ApplyStep, RollbackStep

(***************************************************************************)
(* A rollback restores the targets as they were before the migration, for  *)
(* any targets, any import and any number of interrupted commands.         *)
(***************************************************************************)
THEOREM PreimagesAreKept == Spec => []PreimageKept
  <1>1. Init => TypeOK /\ KeptInv
    BY InitType, InitKept
  <1>2. (TypeOK /\ KeptInv) /\ [Next]_vars => (TypeOK /\ KeptInv)'
    BY StepType, StepKept
  <1>3. KeptInv => PreimageKept
    BY DEF KeptInv
  <1> QED
    BY <1>1, <1>2, <1>3, PTL DEF Spec
---------------------------------------------------------------------------
(***************************************************************************)
(* The import marks nothing as done that is not in its target, and only a  *)
(* rollback, which leaves the active phases first, takes rows away.        *)
(***************************************************************************)
ImportInv == OpFollowsPhase /\ ImportedSoFar /\ ActiveIsComplete

LEMMA StepComplete == TypeOK /\ ImportInv /\ [Next]_vars => ImportInv'
  <1> SUFFICES ASSUME TypeOK, ImportInv, [Next]_vars PROVE ImportInv'
    OBVIOUS
  <1>0. /\ Idle.at = "idle" /\ OpFollowsPhase'
        /\ \A s, n, l : At(s, n, l).at = s /\ At(s, n, l).next = n
        /\ manifest \in Manifests /\ Pieces \in Nat
        /\ \A p \in 1..Pieces : Home[p] \in Targets
    BY StepOp, HomeType, MigrationAssumption DEF Idle, At, TypeOK, ImportInv
  <1> USE DEF ImportInv, OpFollowsPhase, ImportedSoFar, ActiveIsComplete, Active, Missing,
              Resumable
  <1>1. CASE StartApply
    BY <1>0, <1>1 DEF StartApply
  <1>2. CASE WriteFence
    BY <1>0, <1>2 DEF WriteFence
  <1>3. CASE BackUp
    <2>1. op'.at = "backup" /\ file' = file /\ manifest' = manifest
      BY <1>3 DEF BackUp, TypeOK
    <2> QED
      BY <1>0, <2>1
  <1>4. CASE SaveBackedUp
    <2>1. /\ manifest'.phase = "backed_up" /\ op'.at \in {"idle", "import"}
          /\ op'.at = "import" => op'.next = 1
      BY <1>0, <1>4, NoManifestType DEF SaveBackedUp, Manifests
    <2> QED
      BY <1>0, <2>1
  <1>5. CASE Import
    <2> DEFINE q == op.next
               t == Home[op.next]
    <2>1. q \in 1..Pieces /\ t \in Targets /\ manifest' = manifest
          /\ manifest.phase \notin Active
      BY <1>0, <1>5 DEF Import
    <2>2. CASE op' = Idle
      BY <1>0, <2>1, <2>2
    <2>3. CASE op' # Idle
      <3>1. file' = [file EXCEPT ![t] = Imported(t, q)] /\ op' = [op EXCEPT !.next = @ + 1]
        BY <1>5, <2>3 DEF Import
      <3>2. Imported(t, q).rows = file[t].rows \union {q} /\ file \in [Targets -> Files]
        BY <2>1, ImportedType DEF TypeOK
      <3>3. op.at = "import" /\ op'.next = q + 1
        BY <1>5, <3>1 DEF Import, TypeOK
      <3>4. ASSUME NEW p \in 1..Pieces, p < op'.next PROVE p \in file'[Home[p]].rows
        <4>1. p = q \/ p < q
          BY <2>1, <3>3, <3>4
        <4>2. Home[p] \in Targets /\ (p < q => p \in file[Home[p]].rows)
          BY <1>0, <3>3
        <4> HIDE DEF t, q
        <4>3. CASE Home[p] = t
          BY <2>1, <3>1, <3>2, <4>1, <4>2, <4>3
        <4>4. CASE Home[p] # t
          <5>1. p # q
            BY <4>4 DEF t, q
          <5> QED
            BY <3>1, <3>2, <4>1, <4>2, <4>4, <5>1
        <4> QED
          BY <4>3, <4>4
      <3> QED
        BY <1>0, <2>1, <3>4
    <2> QED
      BY <2>2, <2>3
  <1>6. CASE SaveApplied
    <2>1. file' = file /\ op'.at = "idle"
      BY <1>0, <1>6 DEF SaveApplied
    <2>2. \A p \in 1..Pieces : p \in file[Home[p]].rows
      BY <1>0, <1>6 DEF SaveApplied
    <2> QED
      BY <1>0, <2>1, <2>2
  <1>7. CASE Verify
    <2>1. /\ op' = op /\ op.at = "idle"
          /\ manifest'.phase # manifest.phase => Missing = {}
      BY <1>0, <1>7 DEF Verify, Manifests, VerifiedPhase
    <2>2. \A t \in Targets : file'[t].rows = file[t].rows
      BY <1>7, Touched DEF Verify, TypeOK
    <2> QED
      BY <1>0, <2>1, <2>2
  <1>8. CASE StartCutover
    BY <1>0, <1>8 DEF StartCutover
  <1>9. CASE SaveCutover
    BY <1>0, <1>9 DEF SaveCutover, Manifests
  <1>10. CASE StartRollback
    <2>1. manifest'.phase = "rolling_back" /\ op'.at = "restore"
      BY <1>0, <1>10 DEF StartRollback, Manifests
    <2> QED
      BY <1>0, <2>1
  <1>11. CASE Restore
    <2>1. op'.at = "restore" /\ manifest' = manifest /\ manifest.phase = "rolling_back"
      BY <1>11 DEF Restore, TypeOK
    <2> QED
      BY <1>0, <2>1
  <1>12. CASE Release
    BY <1>0, <1>12 DEF Release
  <1>13. CASE SaveRolledBack
    <2>1. manifest'.phase = "rolled_back" /\ op'.at = "idle"
      BY <1>0, <1>13 DEF SaveRolledBack, Manifests
    <2> QED
      BY <1>0, <2>1
  <1>14. CASE Die
    BY <1>0, <1>14 DEF Die
  <1>15. CASE LegacyWrites
    BY <1>15 DEF LegacyWrites
  <1>16. CASE NewWrites
    <2>1. PICK t \in Targets : file' = [file EXCEPT ![t] = [file[t] EXCEPT !.newer = TRUE]]
      BY <1>16 DEF NewWrites
    <2>2. \A u \in Targets : file'[u].rows = file[u].rows
      BY <2>1, Touched DEF TypeOK
    <2> QED
      BY <1>0, <1>16, <2>2 DEF NewWrites
  <1>17. CASE UNCHANGED vars
    BY <1>17 DEF vars
  <1> QED
    BY <1>1, <1>2, <1>3, <1>4, <1>5, <1>6, <1>7, <1>8, <1>9, <1>10, <1>11, <1>12,
       <1>13, <1>14, <1>15, <1>16, <1>17 DEF Next, ApplyStep, RollbackStep

(***************************************************************************)
(* A manifest that is applied, verified or cutover stands for targets that *)
(* hold every imported identity, whatever was interrupted on the way.      *)
(***************************************************************************)
THEOREM ActiveTargetsComplete == Spec => []ActiveIsComplete
  <1>1. Init => TypeOK /\ ImportInv
    BY InitType, InitKept DEF ImportInv, KeptInv
  <1>2. (TypeOK /\ ImportInv) /\ [Next]_vars => (TypeOK /\ ImportInv)'
    BY StepType, StepComplete
  <1>3. ImportInv => ActiveIsComplete
    BY DEF ImportInv
  <1> QED
    BY <1>1, <1>2, <1>3, PTL DEF Spec

---------------------------------------------------------------------------
(***************************************************************************)
(* No copy and no recorded evidence holds a new writer's data, so a target *)
(* that does is never taken for one that may be restored.                  *)
(***************************************************************************)
NewerInv == KeptInv /\ NewerPinsCutover

LEMMA CopiesHoldNothingNew ==
  ASSUME TypeOK, KeptInv, NEW t \in Targets
  PROVE  ~manifest.copies[t].newer \/ manifest.phase = "none"
  <1>1. world.pre[t] \in Preimage
    BY DEF TypeOK, WorldSet
  <1> QED
    BY <1>1, CopyOfPreimage DEF KeptInv, PreimageKept

LEMMA StepNewer ==
  TypeOK /\ NewerInv /\ [Next]_vars =>
    /\ NewerInv'
    /\ \A t \in Targets : file[t].newer => file'[t].newer
  <1> SUFFICES ASSUME TypeOK, NewerInv, [Next]_vars
               PROVE  /\ NewerPinsCutover'
                      /\ \A t \in Targets : file[t].newer => file'[t].newer
    BY StepKept DEF NewerInv
  <1>0. /\ Idle.at = "idle" /\ KeptInv /\ OpFollowsPhase
        /\ manifest \in Manifests /\ file \in [Targets -> Files]
        /\ (\A t \in Targets : file[t].newer => manifest.phase = "cutover")
        /\ \A t \in Targets : ~manifest.post[t].newer
    BY DEF Idle, TypeOK, NewerInv, KeptInv, NewerPinsCutover
  <1> USE DEF NewerPinsCutover
  <1>1. CASE StartApply \/ WriteFence \/ BackUp \/ StartCutover \/ LegacyWrites \/ Die
    BY <1>0, <1>1 DEF StartApply, WriteFence, BackUp, StartCutover, LegacyWrites, Die
  <1>2. CASE SaveBackedUp
    <2>1. manifest.phase = "none" /\ file' = file
          /\ \A t \in Targets : ~manifest'.post[t].newer
      BY <1>0, <1>2, NoManifestType DEF SaveBackedUp, Manifests, OpFollowsPhase, At
    <2> QED
      BY <1>0, <2>1
  <1>3. CASE Import
    <2>1. op.next \in 1..Pieces /\ Home[op.next] \in Targets /\ manifest' = manifest
      BY <1>3, HomeType DEF Import
    <2>2. file' = file \/
          file' = [file EXCEPT ![Home[op.next]] = Imported(Home[op.next], op.next)]
      BY <1>3 DEF Import
    <2>3. Imported(Home[op.next], op.next).newer = file[Home[op.next]].newer
      BY <2>1, ImportedType
    <2>4. \A t \in Targets : file'[t].newer = file[t].newer
      BY <1>0, <2>1, <2>2, <2>3
    <2> QED
      BY <1>0, <2>1, <2>4
  <1>4. CASE SaveApplied
    <2>1. manifest.phase \in {"backed_up", "rolling_back"} /\ file' = file
          /\ manifest'.post = file
      BY <1>0, <1>4 DEF SaveApplied, OpFollowsPhase, Resumable, Manifests
    <2> QED
      BY <1>0, <2>1
  <1>5. CASE Verify
    <2>1. \A t \in Targets : file'[t].newer = file[t].newer
      BY <1>0, <1>5, Touched DEF Verify
    <2>2. manifest'.post = manifest.post
          /\ (manifest.phase = "cutover" => manifest'.phase = "cutover")
      BY <1>0, <1>5 DEF Verify, Manifests, VerifiedPhase
    <2> QED
      BY <1>0, <2>1, <2>2
  <1>6. CASE SaveCutover
    <2>1. manifest'.phase = "cutover" /\ manifest'.post = manifest.post /\ file' = file
      BY <1>0, <1>6 DEF SaveCutover, Manifests
    <2> QED
      BY <1>0, <2>1
  <1>7. CASE StartRollback
    <2>1. manifest.phase # "none" /\ file' = file /\ manifest'.post = manifest.post
      BY <1>0, <1>7 DEF StartRollback, OpFollowsPhase, Manifests
    <2>2. \A t \in Targets : ~file[t].newer
      BY <1>0, <1>7, <2>1, CopiesHoldNothingNew DEF StartRollback, TargetIsSafe
    <2> QED
      BY <1>0, <2>1, <2>2
  <1>8. CASE Restore
    <2>1. manifest.phase = "rolling_back" /\ manifest' = manifest
      BY <1>0, <1>8 DEF Restore, OpFollowsPhase
    <2>2. \A t \in Targets : ~file[t].newer
      BY <1>0, <2>1
    <2>3. PICK t \in op.left :
             \/ file' = [file EXCEPT ![t] = [file[t] EXCEPT !.wal = FALSE]]
             \/ file' = [file EXCEPT ![t] = manifest.copies[t]]
      BY <1>8 DEF Restore
    <2>4. t \in Targets
      BY <2>3 DEF TypeOK
    <2>5. ~[file[t] EXCEPT !.wal = FALSE].newer /\ ~manifest.copies[t].newer
      BY <1>0, <2>1, <2>2, <2>4, Touched, CopiesHoldNothingNew
    <2>6. \A u \in Targets : ~file'[u].newer
      BY <1>0, <2>2, <2>3, <2>4, <2>5
    <2> QED
      BY <1>0, <2>1, <2>2, <2>6
  <1>9. CASE Release \/ SaveRolledBack
    <2>a. op.at \in {"restore", "released"} /\ file' = file
      BY <1>9 DEF Release, SaveRolledBack, At
    <2>b. manifest'.post = manifest.post
      BY <1>0, <1>9 DEF Release, SaveRolledBack, Manifests
    <2>1. manifest.phase = "rolling_back" /\ manifest'.post = manifest.post /\ file' = file
      BY <1>0, <2>a, <2>b DEF OpFollowsPhase
    <2> QED
      BY <1>0, <2>1
  <1>10. CASE NewWrites
    <2>1. manifest.phase = "cutover" /\ manifest' = manifest
      BY <1>10 DEF NewWrites
    <2>2. PICK t \in Targets : file' = [file EXCEPT ![t] = [file[t] EXCEPT !.newer = TRUE]]
      BY <1>10 DEF NewWrites
    <2>3. \A u \in Targets : file[u].newer => file'[u].newer
      BY <1>0, <2>2, Touched
    <2> QED
      BY <1>0, <2>1, <2>3
  <1>11. CASE UNCHANGED vars
    BY <1>0, <1>11 DEF vars
  <1> QED
    BY <1>1, <1>2, <1>3, <1>4, <1>5, <1>6, <1>7, <1>8, <1>9, <1>10, <1>11
       DEF Next, ApplyStep, RollbackStep

(***************************************************************************)
(* No command removes what a new writer wrote into a target: rollback, the *)
(* only one that replaces a target, refuses it, however the operator mixes *)
(* and interrupts the commands.                                            *)
(***************************************************************************)
THEOREM NewerDataIsKept == Spec => NewerDataKept
  <1>1. Init => TypeOK /\ NewerInv
    BY InitType, InitKept DEF NewerInv
  <1>2. (TypeOK /\ NewerInv) /\ [Next]_vars => (TypeOK /\ NewerInv)'
    BY StepType, StepNewer
  <1>3. (TypeOK /\ NewerInv) /\ [Next]_vars =>
          [\A t \in Targets : file[t].newer => file'[t].newer]_vars
    BY StepNewer
  <1> QED
    BY <1>1, <1>2, <1>3, PTL DEF Spec, NewerDataKept

-----------------------------------------------------------------------------
(***************************************************************************)
(* The writer's authority over the PostgreSQL store: the theorems about    *)
(* WriterAuthority, for every number of servers and threads, every policy  *)
(* and every lease.  The invariant is stated for the state of one          *)
(* transaction, with the record, the primaries and the clock as            *)
(* parameters, so that it reads the same before and after a step.          *)
(***************************************************************************)
Keys == [server : Servers \cup {None}, fence : Nat, lease : Nat, expiry : Nat]

\* No lease outlives the time it is renewed for.
KeyOK(k, n) == k \in Keys /\ k.expiry <= n + Ttl

\* A lease that is reported to last until an instant does, and so does every
\* lease that succeeds it.
Covers(k, n, until) == until <= n + Ttl /\ (k.server # None => until <= k.expiry)

Until(g) == g.at + g.remaining

\* The server of a grant has the authority until the grant runs out, unless
\* it is no longer a primary.
Held(k, p, n, g) == k.server = g.server \/ n >= Until(g) \/ g.server \notin p

HasGrant(x) == x.at \in {"note", "verify", "config", "commit"}
HasTimer(x) == x.at = "body" \/ x.phase = "revalidate"

Usable(x) ==
  IF x.grant.remaining - Margin < MaxTransaction THEN x.grant.remaining - Margin
  ELSE MaxTransaction

\* Instants lie in the past and reports are covered.
Timely(k, n, x) ==
  /\ x.start <= n /\ x.grant.at <= n /\ x.admission.at <= n
  /\ x.at = "again" => Covers(k, n, x.start + x.ttl - Uncertainty)
  /\ Covers(k, n, Until(x.grant)) /\ Covers(k, n, Until(x.admission))

\* Where a transaction is, and what it knows there.
Placed(k, p, n, x) ==
  /\ x.at = "idle" => x = IdleTransaction
  /\ x.at \in {"config", "body"} => x.phase = "admit"
  /\ x.at = "commit" => x.phase = "revalidate"
  /\ HasGrant(x) => x.grant.server # None /\ Held(k, p, n, x.grant)
  /\ x.at \in {"config", "commit"} =>
       x.grant.server = x.server /\ x.server \in p /\ Usable(x) > 0

\* The timer of an open transaction runs out with its admission, if it was
\* set within the margin.
Timed(k, p, n, x) ==
  HasTimer(x) =>
    /\ x.admission.server = x.server /\ x.server # None /\ x.server \in p
    /\ Held(k, p, n, x.admission)
    /\ n < x.deadline
    /\ x.prompt => x.deadline <= Until(x.admission)

OpenNow(x) ==
  \/ x.phase = "admit" /\ x.at \in {"note", "verify", "config", "body"}
  \/ x.phase = "revalidate" /\ x.at \in {"range", "ttl", "again"}

\* A transaction that saw the authority move was admitted under an older
\* generation.
Fenced(k, x) ==
  /\ x.grant.fence <= k.fence /\ x.admission.fence <= k.fence
  /\ x.phase = "admit" /\ x.at \in {"idle", "range", "ttl", "again"} => ~x.moved
  /\ x.moved /\ x.phase = "admit" /\ x.at \in {"note", "verify", "config"} =>
       x.grant.fence < k.fence
  /\ x.moved /\ (x.at = "body" \/ (x.phase = "revalidate" /\ x.at \in {"range", "ttl", "again"})) =>
       x.admission.fence < k.fence
  /\ x.moved /\ x.phase = "revalidate" /\ x.at \in {"note", "verify"} =>
       x.admission.fence < x.grant.fence
  /\ x.at = "commit" => ~x.moved

Good(k, p, n, x) ==
  x \in Transactions /\ Timely(k, n, x) /\ Placed(k, p, n, x) /\ Timed(k, p, n, x) /\ Fenced(k, x)

AuthorityInv ==
  /\ now \in Nat /\ primary \subseteq Servers
  /\ latest \in [server : Servers \cup {None}, fence : Nat]
  /\ KeyOK(key, now)
  /\ DOMAIN txn = Threads /\ txn \in [Threads -> Transactions]
  /\ \A t \in Threads : Good(key, primary, now, txn[t])

-----------------------------------------------------------------------------
\* An idle transaction fits every state.
LEMMA IdleIsGood ==
  ASSUME NEW k \in Keys, NEW p, NEW n \in Nat
  PROVE  Good(k, p, n, IdleTransaction)
<1>1. IdleTransaction \in Transactions
  BY DEF IdleTransaction, Transactions, NoGrant, Grants, Places
<1>2. Timely(k, n, IdleTransaction)
  BY PolicyIsPositive DEF Timely, Covers, Until, IdleTransaction, NoGrant, Keys
<1>3. Placed(k, p, n, IdleTransaction)
  BY DEF Placed, HasGrant, IdleTransaction
<1>4. Timed(k, p, n, IdleTransaction)
  BY DEF Timed, HasTimer, IdleTransaction
<1>5. Fenced(k, IdleTransaction)
  BY DEF Fenced, IdleTransaction, NoGrant, Keys
<1> QED
  BY <1>1, <1>2, <1>3, <1>4, <1>5 DEF Good

LEMMA AuthorityBegins ==
  ASSUME AuthorityInit
  PROVE  AuthorityInv
<1>1. key \in Keys /\ KeyOK(key, now) /\ now \in Nat
  BY PolicyIsPositive DEF AuthorityInit, Keys, KeyOK
<1>2. \A t \in Threads : Good(key, primary, now, IdleTransaction)
  BY <1>1, IdleIsGood
<1>3. IdleTransaction \in Transactions
  BY DEF IdleTransaction, Transactions, NoGrant, Grants, Places
<1> QED
  BY <1>1, <1>2, <1>3 DEF AuthorityInit, AuthorityInv

-----------------------------------------------------------------------------
(***************************************************************************)
(* Steps of the environment keep every transaction good.                   *)
(***************************************************************************)
\* Time passes.
LEMMA TickGood ==
  ASSUME NEW k \in Keys, NEW p, NEW n \in Nat, NEW x \in Transactions,
         Good(k, p, n, x), x.deadline # n + 1
  PROVE  Good(k, p, n + 1, x)
<1>1. Timely(k, n + 1, x)
  BY PolicyIsPositive DEF Good, Timely, Covers, Until, Keys, Transactions, Grants
<1>2. Placed(k, p, n + 1, x)
  BY DEF Good, Placed, Held, Until, HasGrant, Keys, Transactions, Grants
<1>3. Timed(k, p, n + 1, x)
  BY DEF Good, Timed, Held, Until, Keys, Transactions, Grants
<1> QED
  BY <1>1, <1>2, <1>3 DEF Good

\* The authority is given to a server.
LEMMA WriteGood ==
  ASSUME NEW k \in Keys, NEW k1 \in Keys, NEW p, NEW n \in Nat, NEW x \in Transactions,
         NEW s \in Servers,
         Good(k, p, n, x),
         k1.server = s, k1.fence = k.fence + 1,
         \/ k.server = None /\ k1.expiry = n + Ttl
         \/ k.server # None /\ k1.expiry = k.expiry /\ (s = k.server \/ k.server \notin p)
  PROVE  Good(k1, p \cup {s}, n, [x EXCEPT !.moved = @ \/ (OpenNow(x) /\ x.server # s)])
<1> DEFINE q == p \cup {s}
           b == x.moved \/ (OpenNow(x) /\ x.server # s)
           y == [x EXCEPT !.moved = b]
<1>0. s # None
  BY NoneIsNoServer
<1>b. b \in BOOLEAN
  BY DEF Transactions
<1>y. /\ y \in Transactions
      /\ y.at = x.at /\ y.phase = x.phase /\ y.server = x.server /\ y.start = x.start
      /\ y.ttl = x.ttl /\ y.grant = x.grant /\ y.admission = x.admission
      /\ y.prompt = x.prompt /\ y.deadline = x.deadline /\ y.moved = b
  BY <1>b DEF Transactions
<1>i. x.at = "idle" => y = IdleTransaction
  <2> HAVE x.at = "idle"
  <2>1. x = IdleTransaction
    BY DEF Good, Placed
  <2>2. b = FALSE
    BY <2>1 DEF IdleTransaction, OpenNow
  <2>3. y = [IdleTransaction EXCEPT !.moved = FALSE]
    BY <2>1, <2>2
  <2>4. [IdleTransaction EXCEPT !.moved = FALSE] = IdleTransaction
    <3>1. IdleTransaction \in Transactions /\ IdleTransaction.moved = FALSE
      BY DEF IdleTransaction, Transactions, NoGrant, Grants, Places
    <3>2. \A r \in Transactions : [r EXCEPT !.moved = r.moved] = r
      BY DEF Transactions
    <3> QED
      BY <3>1, <3>2
  <2> QED
    BY <2>3, <2>4
<1>c. \A u \in Int : Covers(k, n, u) => Covers(k1, n, u)
  BY DEF Covers, Keys
<1>h. \A g \in Grants : g.server # None /\ Held(k, p, n, g) => Held(k1, q, n, g)
  BY <1>0 DEF Held
<1> HIDE DEF y, b, q
<1>1. Timely(k1, n, y)
  <2>1. x.start + x.ttl - Uncertainty \in Int
        /\ Until(x.grant) \in Int /\ Until(x.admission) \in Int
    BY PolicyIsPositive DEF Transactions, Grants, Until
  <2> QED
    BY <1>y, <1>c, <2>1 DEF Good, Timely
<1>2. Placed(k1, q, n, y)
  <2>1. x.grant \in Grants
    BY DEF Transactions
  <2>2. HasGrant(y) => y.grant.server # None /\ Held(k1, q, n, y.grant)
    BY <1>y, <1>h, <2>1 DEF Good, Placed, HasGrant
  <2>3. y.at \in {"config", "commit"} =>
          y.grant.server = y.server /\ y.server \in q /\ Usable(y) > 0
    BY <1>y DEF Good, Placed, Usable, q
  <2> QED
    BY <1>y, <1>i, <2>2, <2>3 DEF Good, Placed
<1>3. Timed(k1, q, n, y)
  <2>1. x.admission \in Grants
    BY DEF Transactions
  <2> QED
    BY <1>y, <1>h, <2>1 DEF Good, Timed, HasTimer, q
<1>4. Fenced(k1, y)
  <2>1. k.fence \in Nat /\ x.grant.fence \in Nat /\ x.admission.fence \in Nat /\ x.at \in Places
    BY DEF Keys, Transactions, Grants
  <2>2. x.phase \in {"admit", "revalidate"} /\ x.moved \in BOOLEAN
    BY DEF Transactions
  <2> QED
    BY <1>y, <2>1, <2>2 DEF Good, Placed, Fenced, OpenNow, b, Places
<1> QED
  BY <1>y, <1>1, <1>2, <1>3, <1>4 DEF Good, y, b, q

\* The lease is renewed or the record goes.
LEMMA LeaseGood ==
  ASSUME NEW k \in Keys, NEW k1 \in Keys, NEW p, NEW n \in Nat, NEW x \in Transactions,
         Good(k, p, n, x), k1.fence = k.fence, k.server # None,
         \/ k1.server = k.server /\ k1.expiry = n + Ttl
         \/ k1.server = None /\ (n >= k.expiry \/ k.server \notin p)
  PROVE  Good(k1, p, n, x)
<1>1. \A u \in Int : Covers(k, n, u) => Covers(k1, n, u)
  BY DEF Covers, Keys
<1>2. \A g \in Grants : g.server # None /\ Covers(k, n, Until(g)) /\ Held(k, p, n, g)
                          => Held(k1, p, n, g)
  BY DEF Held, Covers, Until, Grants, Keys
<1>3. x.grant \in Grants /\ x.admission \in Grants
  BY DEF Transactions
<1>4. x.start + x.ttl - Uncertainty \in Int
        /\ Until(x.grant) \in Int /\ Until(x.admission) \in Int
  BY <1>3, PolicyIsPositive DEF Transactions, Grants, Until
<1>5. Timely(k1, n, x)
  BY <1>1, <1>4 DEF Good, Timely
<1>6. Placed(k1, p, n, x)
  BY <1>2, <1>3 DEF Good, Timely, Placed
<1>7. Timed(k1, p, n, x)
  BY <1>2, <1>3 DEF Good, Timely, Timed
<1>8. Fenced(k1, x)
  BY DEF Good, Fenced
<1> QED
  BY <1>5, <1>6, <1>7, <1>8 DEF Good

\* Another server is demoted.
LEMMA DemoteGood ==
  ASSUME NEW k \in Keys, NEW p, NEW s, NEW n \in Nat, NEW x \in Transactions,
         Good(k, p, n, x), x.server # s
  PROVE  Good(k, p \ {s}, n, x)
BY DEF Good, Placed, Timed, Held

\* The environment keeps the invariant.
LEMMA EnvironmentInv ==
  ASSUME AuthorityInv, Tick \/ Controller
  PROVE  AuthorityInv'
<1> USE DEF KeyOK
<1>0. /\ now \in Nat /\ key \in Keys /\ key.expiry <= now + Ttl
      /\ \A t \in Threads : txn[t] \in Transactions /\ Good(key, primary, now, txn[t])
  BY DEF AuthorityInv
<1>i. IdleTransaction \in Transactions
  BY DEF IdleTransaction, Transactions, NoGrant, Grants, Places
<1>1. CASE Tick
  <2>1. now' \in Nat /\ now' = now + 1 /\ key' = key /\ primary' = primary /\ latest' = latest
    BY <1>1, <1>0 DEF Tick
  <2>2. key'.expiry <= now' + Ttl
    BY <1>0, <2>1, PolicyIsPositive DEF Keys
  <2>3. /\ DOMAIN txn' = Threads /\ txn' \in [Threads -> Transactions]
        /\ \A t \in Threads :
             txn'[t] = IF txn[t].deadline = now + 1 THEN IdleTransaction ELSE txn[t]
    BY <1>0, <1>1, <1>i DEF Tick
  <2>4. ASSUME NEW t \in Threads PROVE Good(key', primary', now', txn'[t])
    BY <1>0, <2>1, <2>3, <2>4, TickGood, IdleIsGood
  <2> QED
    BY <1>0, <2>1, <2>2, <2>3, <2>4 DEF AuthorityInv
<1>2. ASSUME NEW s \in Servers, Acquire(s) \/ HandOver(s) PROVE AuthorityInv'
  <2>1. /\ key'.server = s /\ key'.fence = key.fence + 1 /\ key' \in Keys
        /\ key'.expiry <= now + Ttl
        /\ \/ key.server = None /\ key'.expiry = now + Ttl
           \/ key.server # None /\ key'.expiry = key.expiry
              /\ (s = key.server \/ key.server \notin primary)
    BY <1>0, <1>2, PolicyIsPositive DEF Acquire, HandOver, Write, Keys
  <2>2. now' = now /\ latest' = latest /\ primary' = primary \cup {s}
    BY <1>2 DEF Acquire, HandOver, Write
  <2>3. txn' = [t \in Threads |->
                  [txn[t] EXCEPT !.moved = @ \/ (OpenNow(txn[t]) /\ txn[t].server # s)]]
    BY <1>2 DEF Acquire, HandOver, Write, Open, OpenNow
  <2>4. ASSUME NEW t \in Threads PROVE Good(key', primary', now', txn'[t])
    <3> DEFINE x == txn[t]
    <3>1. txn'[t] = [x EXCEPT !.moved = @ \/ (OpenNow(x) /\ x.server # s)]
      BY <2>3
    <3>2. x \in Transactions /\ Good(key, primary, now, x)
      BY <1>0
    <3> HIDE DEF x
    <3>3. Good(key', primary \cup {s}, now,
               [x EXCEPT !.moved = @ \/ (OpenNow(x) /\ x.server # s)])
      BY <1>0, <2>1, <3>2, WriteGood
    <3> QED
      BY <3>1, <3>3, <2>2
  <2>5. DOMAIN txn' = Threads /\ txn' \in [Threads -> Transactions]
    BY <2>3, <2>4 DEF Good
  <2> QED
    BY <1>0, <2>1, <2>2, <2>4, <2>5 DEF AuthorityInv
<1>3. CASE Renew \/ LeaseEnds
  <2>1. /\ key'.fence = key.fence /\ key.server # None /\ key' \in Keys
        /\ key'.expiry <= now + Ttl
        /\ \/ key'.server = key.server /\ key'.expiry = now + Ttl
           \/ key'.server = None /\ (now >= key.expiry \/ key.server \notin primary)
    BY <1>0, <1>3, PolicyIsPositive DEF Renew, LeaseEnds, Keys
  <2>2. now' = now /\ latest' = latest /\ primary' = primary /\ txn' = txn
    BY <1>3 DEF Renew, LeaseEnds
  <2>3. \A t \in Threads : Good(key', primary, now, txn[t])
    BY <1>0, <2>1, LeaseGood
  <2> QED
    BY <1>0, <2>1, <2>2, <2>3 DEF AuthorityInv
<1>4. ASSUME NEW s \in Servers, Demote(s) PROVE AuthorityInv'
  <2>1. now' = now /\ latest' = latest /\ key' = key /\ primary' = primary \ {s}
    BY <1>4 DEF Demote
  <2>2. /\ DOMAIN txn' = Threads /\ txn' \in [Threads -> Transactions]
        /\ \A t \in Threads : txn'[t] = IF txn[t].server = s THEN IdleTransaction ELSE txn[t]
    BY <1>0, <1>4, <1>i DEF Demote
  <2>3. ASSUME NEW t \in Threads PROVE Good(key', primary', now', txn'[t])
    <3>1. Good(key, primary \ {s}, now, IdleTransaction)
      BY <1>0, IdleIsGood
    <3>2. txn[t].server # s => Good(key, primary \ {s}, now, txn[t])
      BY <1>0, DemoteGood
    <3> QED
      BY <2>1, <2>2, <3>1, <3>2
  <2> QED
    BY <1>0, <2>1, <2>2, <2>3 DEF AuthorityInv
<1> QED
  BY <1>1, <1>2, <1>3, <1>4 DEF Controller

-----------------------------------------------------------------------------
(***************************************************************************)
(* Steps of a thread.                                                      *)
(***************************************************************************)
\* A step that only moves one transaction, to a good one, keeps the rest.
LEMMA BecomesInv ==
  ASSUME AuthorityInv, NEW t \in Threads, NEW x, Becomes(t, x), Good(key, primary, now, x),
         UNCHANGED <<now, key, primary>>,
         latest' \in [server : Servers \cup {None}, fence : Nat]
  PROVE  AuthorityInv'
<1>1. x \in Transactions
  BY DEF Good
<1>2. /\ DOMAIN txn' = Threads /\ txn' \in [Threads -> Transactions]
      /\ \A u \in Threads : txn'[u] = IF u = t THEN x ELSE txn[u]
  BY <1>1 DEF Becomes, AuthorityInv
<1>3. \A u \in Threads : Good(key', primary', now', txn'[u])
  BY <1>2 DEF AuthorityInv
<1> QED
  BY <1>2, <1>3 DEF AuthorityInv, KeyOK

LEMMA StepInv ==
  ASSUME AuthorityInv, NEW t \in Threads, Step(t)
  PROVE  AuthorityInv'
<1> DEFINE x == txn[t]
<1>0. /\ now \in Nat /\ key \in Keys /\ key.expiry <= now + Ttl
      /\ x \in Transactions /\ Good(key, primary, now, x)
      /\ latest \in [server : Servers \cup {None}, fence : Nat]
  BY DEF AuthorityInv, KeyOK
<1>g. x.grant \in Grants /\ x.admission \in Grants
  BY <1>0 DEF Transactions
<1>1. ASSUME NEW s \in Servers, Connect(t, s) PROVE AuthorityInv'
  <2> DEFINE y == [IdleTransaction EXCEPT !.at = "range", !.server = s, !.start = now]
  <2>1. /\ y.at = "range" /\ y.phase = "admit" /\ y.server = s /\ y.start = now
        /\ y.grant = NoGrant /\ y.admission = NoGrant /\ y.moved = FALSE
    BY DEF IdleTransaction
  <2>i. IdleTransaction \in Transactions
    BY DEF IdleTransaction, Transactions, NoGrant, Grants, Places
  <2>2. y \in Transactions
    BY <1>0, <2>i DEF Transactions, Places
  <2>3. Becomes(t, y) /\ UNCHANGED <<now, key, primary, latest>>
    BY <1>1 DEF Connect
  <2> HIDE DEF y
  <2>4. Timely(key, now, y)
    BY <1>0, <2>1, PolicyIsPositive DEF Timely, Covers, Until, NoGrant, Keys
  <2>5. Placed(key, primary, now, y) /\ Timed(key, primary, now, y)
    BY <2>1 DEF Placed, Timed, HasGrant, HasTimer
  <2>6. Fenced(key, y)
    BY <1>0, <2>1 DEF Fenced, NoGrant, Keys
  <2>7. Good(key, primary, now, y)
    BY <2>2, <2>4, <2>5, <2>6 DEF Good
  <2> QED
    BY <1>0, <2>3, <2>7, BecomesInv
<1>2. CASE Range(t)
  <2> DEFINE y == [x EXCEPT !.at = "ttl", !.seen = Record]
  <2>1. /\ x.at = "range" /\ y.at = "ttl" /\ y.phase = x.phase /\ y.server = x.server
        /\ y.start = x.start /\ y.grant = x.grant /\ y.admission = x.admission
        /\ y.moved = x.moved /\ y.prompt = x.prompt /\ y.deadline = x.deadline
    BY <1>0, <1>2 DEF Range, Transactions
  <2>2. y \in Transactions
    BY <1>0, <1>2 DEF Transactions, Record, Keys, Places
  <2>3. Becomes(t, y) /\ UNCHANGED <<now, key, primary, latest>>
    BY <1>2 DEF Range
  <2> HIDE DEF y
  <2>4. Timely(key, now, y)
    BY <1>0, <2>1 DEF Good, Timely
  <2>5. Placed(key, primary, now, y) /\ Timed(key, primary, now, y)
    BY <1>0, <2>1 DEF Good, Placed, Timed, HasGrant, HasTimer
  <2>6. Fenced(key, y)
    BY <1>0, <2>1 DEF Good, Fenced
  <2>7. Good(key, primary, now, y)
    BY <2>2, <2>4, <2>5, <2>6 DEF Good
  <2> QED
    BY <1>0, <2>3, <2>7, BecomesInv
<1>3. CASE LeaseTtl(t)
  <2> PICK ttl \in (key.expiry - now)..(key.expiry - now + Uncertainty) :
             ttl > 0 /\ Becomes(t, [x EXCEPT !.at = "again", !.ttl = ttl])
    BY <1>3 DEF LeaseTtl
  <2> DEFINE y == [x EXCEPT !.at = "again", !.ttl = ttl]
  <2>0. ttl \in Nat /\ ttl <= key.expiry - now + Uncertainty
    BY <1>0, PolicyIsPositive DEF Keys
  <2>1. /\ x.at = "ttl" /\ y.at = "again" /\ y.phase = x.phase /\ y.server = x.server
        /\ y.start = x.start /\ y.grant = x.grant /\ y.admission = x.admission
        /\ y.moved = x.moved /\ y.prompt = x.prompt /\ y.deadline = x.deadline /\ y.ttl = ttl
    BY <1>0, <1>3 DEF LeaseTtl, Transactions
  <2>2. y \in Transactions
    BY <1>0, <2>0 DEF Transactions, Places
  <2>3. Becomes(t, y) /\ UNCHANGED <<now, key, primary, latest>>
    BY <1>3 DEF LeaseTtl
  <2> HIDE DEF y
  <2>4. Timely(key, now, y)
    <3>1. x.start \in Nat /\ x.start <= now
      BY <1>0 DEF Good, Timely, Transactions
    <3>2. Covers(key, now, x.start + ttl - Uncertainty)
      BY <1>0, <2>0, <3>1, PolicyIsPositive DEF Covers, Keys
    <3> QED
      BY <1>0, <2>1, <3>2 DEF Good, Timely
  <2>5. Placed(key, primary, now, y) /\ Timed(key, primary, now, y)
    BY <1>0, <2>1 DEF Good, Placed, Timed, HasGrant, HasTimer
  <2>6. Fenced(key, y)
    BY <1>0, <2>1 DEF Good, Fenced
  <2>7. Good(key, primary, now, y)
    BY <2>2, <2>4, <2>5, <2>6 DEF Good
  <2> QED
    BY <1>0, <2>3, <2>7, BecomesInv
<1>4. CASE RangeAgain(t)
  <2> DEFINE g == [server |-> x.seen.server, fence |-> x.seen.fence,
                   remaining |-> Remaining(t), at |-> now]
             y == [x EXCEPT !.at = "note", !.seen = IdleTransaction.seen, !.ttl = 0, !.grant = g]
  <2>0. /\ g.server = key.server /\ g.fence = key.fence /\ g.at = now
        /\ g.remaining = x.ttl - (now - x.start) - Uncertainty
        /\ key.server # None
    BY <1>4 DEF RangeAgain, SameRecord, Record, Remaining, Elapsed
  <2>t. x.ttl \in Nat /\ x.start \in Nat
    BY <1>0 DEF Transactions
  <2>g. g \in Grants
    BY <1>0, <2>0, <2>t, PolicyIsPositive DEF Grants, Keys
  <2>1. /\ x.at = "again" /\ y.at = "note" /\ y.phase = x.phase /\ y.server = x.server
        /\ y.start = x.start /\ y.grant = g /\ y.admission = x.admission
        /\ y.moved = x.moved /\ y.prompt = x.prompt /\ y.deadline = x.deadline
    BY <1>0, <1>4 DEF RangeAgain, Transactions
  <2>2. y \in Transactions
    BY <1>0, <2>g DEF Transactions, Places, IdleTransaction
  <2>3. Becomes(t, y) /\ UNCHANGED <<now, key, primary, latest>>
    BY <1>4 DEF RangeAgain
  <2> HIDE DEF y, g
  <2>u. Until(g) = x.start + x.ttl - Uncertainty
    BY <1>0, <2>0, <2>t, PolicyIsPositive DEF Until
  <2>4. Timely(key, now, y)
    BY <1>0, <2>0, <2>1, <2>u DEF Good, Timely
  <2>5. Placed(key, primary, now, y)
    BY <2>0, <2>1 DEF Placed, HasGrant, Held
  <2>6. Timed(key, primary, now, y)
    BY <1>0, <2>1 DEF Good, Timed, HasTimer
  <2>7. Fenced(key, y)
    <3>1. key.fence \in Nat /\ x.phase \in {"admit", "revalidate"}
      BY <1>0 DEF Keys, Transactions
    <3> QED
      BY <1>0, <2>0, <2>1, <3>1 DEF Good, Fenced
  <2>8. Good(key, primary, now, y)
    BY <2>2, <2>4, <2>5, <2>6, <2>7 DEF Good
  <2> QED
    BY <1>0, <2>3, <2>8, BecomesInv
<1>5. CASE Note(t)
  <2> DEFINE y == [x EXCEPT !.at = "verify", !.start = 0]
  <2>1. /\ x.at = "note" /\ y.at = "verify" /\ y.phase = x.phase /\ y.server = x.server
        /\ y.start = 0 /\ y.grant = x.grant /\ y.admission = x.admission
        /\ y.moved = x.moved /\ y.prompt = x.prompt /\ y.deadline = x.deadline
    BY <1>0, <1>5 DEF Note, Transactions
  <2>2. y \in Transactions
    BY <1>0 DEF Transactions, Places
  <2>3. Becomes(t, y) /\ UNCHANGED <<now, key, primary>>
    BY <1>5 DEF Note
  <2>l. latest' \in [server : Servers \cup {None}, fence : Nat]
    BY <1>5, <1>g DEF Note, Grants
  <2> HIDE DEF y
  <2>4. Timely(key, now, y)
    BY <1>0, <2>1 DEF Good, Timely
  <2>5. Placed(key, primary, now, y) /\ Timed(key, primary, now, y)
    BY <1>0, <2>1 DEF Good, Placed, Timed, HasGrant, HasTimer
  <2>6. Fenced(key, y)
    BY <1>0, <2>1 DEF Good, Fenced
  <2>7. Good(key, primary, now, y)
    BY <2>2, <2>4, <2>5, <2>6 DEF Good
  <2> QED
    BY <1>0, <2>3, <2>l, <2>7, BecomesInv
<1>6. CASE VerifyServer(t)
  <2> DEFINE a == IF x.phase = "admit" THEN "config" ELSE "commit"
             y == [x EXCEPT !.at = a]
  <2>p. x.phase \in {"admit", "revalidate"}
    BY <1>0 DEF Transactions
  <2>1. /\ x.at = "verify" /\ y.at = a /\ y.phase = x.phase /\ y.server = x.server
        /\ y.start = x.start /\ y.grant = x.grant /\ y.admission = x.admission
        /\ y.moved = x.moved /\ y.prompt = x.prompt /\ y.deadline = x.deadline
    BY <1>0, <1>6 DEF VerifyServer, Transactions
  <2>2. y \in Transactions
    BY <1>0 DEF Transactions, Places
  <2>3. Becomes(t, y) /\ UNCHANGED <<now, key, primary, latest>>
    BY <1>6 DEF VerifyServer
  <2>v. x.server = x.grant.server /\ x.server \in primary /\ Usable(x) > 0
    BY <1>6 DEF VerifyServer, Timeout, Usable
  <2>f. x.phase = "revalidate" => x.grant.fence = x.admission.fence
    BY <1>6 DEF VerifyServer, SameGeneration
  <2>a. (x.phase = "admit" => a = "config") /\ (x.phase = "revalidate" => a = "commit")
    BY <2>p
  <2> HIDE DEF y, a
  <2>4. Timely(key, now, y)
    BY <1>0, <2>1, <2>a, <2>p DEF Good, Timely
  <2>5. Placed(key, primary, now, y) /\ Timed(key, primary, now, y)
    BY <1>0, <2>1, <2>a, <2>p, <2>v DEF Good, Placed, Timed, HasGrant, HasTimer, Usable
  <2>6. Fenced(key, y)
    <3>1. x.grant.fence \in Nat /\ x.admission.fence \in Nat
      BY <1>g DEF Grants
    <3> QED
      BY <1>0, <2>1, <2>a, <2>p, <2>f, <3>1 DEF Good, Fenced
  <2>7. Good(key, primary, now, y)
    BY <2>2, <2>4, <2>5, <2>6 DEF Good
  <2> QED
    BY <1>0, <2>3, <2>7, BecomesInv
<1>7. CASE SetTimeout(t)
  <2> DEFINE b == now - x.grant.at <= Margin
             y == [x EXCEPT !.at = "body", !.admission = x.grant, !.grant = NoGrant,
                            !.prompt = b, !.deadline = now + Usable(x)]
  <2>n. NoGrant \in Grants
    BY DEF NoGrant, Grants
  <2>u. Usable(x) \in Nat \ {0} /\ Usable(x) <= x.grant.remaining - Margin
    BY <1>0, <1>7, <1>g, PolicyIsPositive DEF SetTimeout, Good, Placed, Usable, Grants
  <2>b. b \in BOOLEAN
    OBVIOUS
  <2>1. /\ x.at = "config" /\ y.at = "body" /\ y.phase = x.phase /\ y.server = x.server
        /\ y.start = x.start /\ y.grant = NoGrant /\ y.admission = x.grant
        /\ y.moved = x.moved /\ y.prompt = b /\ y.deadline = now + Usable(x)
    BY <1>0, <1>7 DEF SetTimeout, Transactions
  <2>e. now + Usable(x) \in Nat
    BY <1>0, <2>u
  <2>2. y \in Transactions
    <3> DEFINE d == now + Usable(x)
    <3>1. d \in Nat
      BY <2>e
    <3> HIDE DEF b, d
    <3>2. [x EXCEPT !.at = "body", !.admission = x.grant, !.grant = NoGrant, !.prompt = b,
                    !.deadline = d] \in Transactions
      BY <1>0, <1>g, <2>n, <2>b, <3>1 DEF Transactions, Places
    <3> QED
      BY <3>2 DEF d
  <2>3. Becomes(t, y) /\ UNCHANGED <<now, key, primary, latest>>
    BY <1>7 DEF SetTimeout, Timeout, Usable
  <2>c. b => now + Usable(x) <= Until(x.grant)
    BY <1>0, <1>g, <2>u, PolicyIsPositive DEF Until, Grants
  <2>p. x.phase = "admit"
    BY <1>0, <2>1 DEF Good, Placed
  <2> HIDE DEF y, b
  <2>4. Timely(key, now, y)
    BY <1>0, <2>1, PolicyIsPositive DEF Good, Timely, Covers, Until, NoGrant, Keys
  <2>5. Placed(key, primary, now, y)
    BY <2>1, <2>p DEF Placed, HasGrant
  <2>6. Timed(key, primary, now, y)
    <3>1. x.server \in primary /\ x.grant.server = x.server /\ x.server # None
          /\ Held(key, primary, now, x.grant)
      BY <1>0, <2>1 DEF Good, Placed, HasGrant
    <3>2. now < now + Usable(x)
      BY <1>0, <2>u
    <3> QED
      BY <2>1, <2>c, <3>1, <3>2 DEF Timed
  <2>7. Fenced(key, y)
    BY <1>0, <2>1, <2>p DEF Good, Fenced, NoGrant, Keys
  <2>8. Good(key, primary, now, y)
    BY <2>2, <2>4, <2>5, <2>6, <2>7 DEF Good
  <2> QED
    BY <1>0, <2>3, <2>8, BecomesInv
<1>8. CASE Revalidate(t)
  <2> DEFINE y == [x EXCEPT !.at = "range", !.phase = "revalidate", !.start = now]
  <2>1. /\ x.at = "body" /\ y.at = "range" /\ y.phase = "revalidate" /\ y.server = x.server
        /\ y.start = now /\ y.grant = x.grant /\ y.admission = x.admission
        /\ y.moved = x.moved /\ y.prompt = x.prompt /\ y.deadline = x.deadline
    BY <1>0, <1>8 DEF Revalidate, Transactions
  <2>2. y \in Transactions
    BY <1>0 DEF Transactions, Places
  <2>3. Becomes(t, y) /\ UNCHANGED <<now, key, primary, latest>>
    BY <1>8 DEF Revalidate
  <2> HIDE DEF y
  <2>4. Timely(key, now, y)
    BY <1>0, <2>1 DEF Good, Timely
  <2>5. Placed(key, primary, now, y) /\ Timed(key, primary, now, y)
    BY <1>0, <2>1 DEF Good, Placed, Timed, HasGrant, HasTimer
  <2>6. Fenced(key, y)
    BY <1>0, <2>1 DEF Good, Fenced
  <2>7. Good(key, primary, now, y)
    BY <2>2, <2>4, <2>5, <2>6 DEF Good
  <2> QED
    BY <1>0, <2>3, <2>7, BecomesInv
<1>9. CASE Commit(t) \/ Refuse(t)
  <2>1. Becomes(t, IdleTransaction) /\ UNCHANGED <<now, key, primary, latest>>
    BY <1>9 DEF Commit, Refuse
  <2> QED
    BY <1>0, <2>1, IdleIsGood, BecomesInv
<1> QED
  BY <1>1, <1>2, <1>3, <1>4, <1>5, <1>6, <1>7, <1>8, <1>9 DEF Step

LEMMA AuthorityInvariant ==
  AuthoritySpec => []AuthorityInv
<1>1. AuthorityInv /\ [AuthorityNext]_authorityVars => AuthorityInv'
  <2> SUFFICES ASSUME AuthorityInv, [AuthorityNext]_authorityVars PROVE AuthorityInv'
    OBVIOUS
  <2>1. CASE UNCHANGED authorityVars
    BY <2>1 DEF authorityVars, AuthorityInv, KeyOK
  <2> QED
    BY <2>1, EnvironmentInv, StepInv DEF AuthorityNext
<1>2. AuthorityInit => AuthorityInv
  BY AuthorityBegins
<1> QED
  BY <1>1, <1>2, PTL DEF AuthoritySpec

-----------------------------------------------------------------------------
(***************************************************************************)
(* Theorems.                                                               *)
(***************************************************************************)
\* Every reachable state is well typed.
THEOREM AuthorityTypeCorrect ==
  AuthoritySpec => []AuthorityTypeOK
<1>1. AuthorityInv => AuthorityTypeOK
  BY DEF AuthorityInv, KeyOK, Keys, AuthorityTypeOK
<1>2. AuthoritySpec => []AuthorityInv
  BY AuthorityInvariant
<1> QED
  BY <1>1, <1>2, PTL

\* No transaction commits on a server that has lost the authority, whatever the
\* lease, the policy and the delays, if the timer was set or the commit sent
\* within the margin (admit, revalidate and transaction_timeout together).
THEOREM CommitsAreByHolder ==
  AuthoritySpec => []CommitsByHolder
<1>1. AuthorityInv => CommitsByHolder
  <2> SUFFICES ASSUME AuthorityInv, NEW t \in Threads, txn[t].at = "commit", OnTime(t)
               PROVE  key.server = txn[t].server
    BY DEF CommitsByHolder
  <2> DEFINE x == txn[t]
  <2>1. /\ now \in Nat /\ x \in Transactions /\ Placed(key, primary, now, x)
        /\ Timed(key, primary, now, x)
    BY DEF AuthorityInv, Good
  <2>2. x.phase = "revalidate" /\ x.grant.server = x.server /\ x.server \in primary
        /\ Usable(x) > 0 /\ Held(key, primary, now, x.grant)
    BY <2>1 DEF Placed, HasGrant
  <2>3. x.grant \in Grants /\ x.admission \in Grants /\ x.deadline \in Nat
    BY <2>1 DEF Transactions
  <2>4. CASE x.prompt
    <3>1. now < x.deadline /\ x.deadline <= Until(x.admission)
          /\ x.admission.server = x.server /\ Held(key, primary, now, x.admission)
      BY <2>1, <2>2, <2>4 DEF Timed, HasTimer
    <3>2. now < Until(x.admission)
      BY <2>1, <2>3, <3>1 DEF Until, Grants
    <3> QED
      BY <2>1, <2>2, <2>3, <3>1, <3>2 DEF Held, Until, Grants
  <2>5. CASE now - x.grant.at <= Margin
    <3>1. Margin < x.grant.remaining
      BY <2>2, <2>3, PolicyIsPositive DEF Usable, Grants
    <3>2. now < Until(x.grant)
      BY <2>1, <2>3, <2>5, <3>1, PolicyIsPositive DEF Until, Grants
    <3> QED
      BY <2>1, <2>2, <2>3, <3>2 DEF Held, Until, Grants
  <2> QED
    BY <2>4, <2>5 DEF OnTime
<1>2. AuthoritySpec => []AuthorityInv
  BY AuthorityInvariant
<1> QED
  BY <1>1, <1>2, PTL

\* What a transaction read and wrote belongs to one tenure of its server, for
\* any delays (the fence compared in revalidate).
THEOREM TenureIsOne ==
  AuthoritySpec => []OneTenure
<1>1. AuthorityInv => OneTenure
  BY DEF AuthorityInv, Good, Fenced, OneTenure
<1>2. AuthoritySpec => []AuthorityInv
  BY AuthorityInvariant
<1> QED
  BY <1>1, <1>2, PTL
=============================================================================
