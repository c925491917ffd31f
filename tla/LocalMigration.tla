-------------------------- MODULE LocalMigration --------------------------
(***************************************************************************)
(* The local 0.12 data migration (migration_apply.py): one operator runs   *)
(* the commands apply, verify, cutover and rollback, each of which reads   *)
(* and writes files one after the other and may die between any two of     *)
(* them.  The only thing that ties the commands together is the manifest.  *)
(*                                                                         *)
(* A target database is a record of what the commands can tell apart: is   *)
(* there a file, which imported identities it holds, which identities it   *)
(* holds with other content, did a new writer write to it, are its bytes   *)
(* those of before the migration (a restored copy has the same rows and    *)
(* other bytes), and are there WAL sidecar files beside it.                *)
(***************************************************************************)
EXTENDS Naturals, FiniteSets

CONSTANTS
  Sources,     \* the legacy stores a plan names
  Targets,     \* the databases it imports into
  Pieces,      \* imports are transactions 1..Pieces, in this order
  Home,        \* the target of each of them
  Worlds       \* what the targets hold at first, and how the operator works

ASSUME MigrationAssumption ==
  /\ Pieces \in Nat
  /\ Home \in [1..Pieces -> Targets]

Files == [there : BOOLEAN, rows : SUBSET (1..Pieces), clash : SUBSET (1..Pieces),
          newer : BOOLEAN, native : BOOLEAN, wal : BOOLEAN]

NoFile == [there |-> FALSE, rows |-> {}, clash |-> {},
           newer |-> FALSE, native |-> FALSE, wal |-> FALSE]

Phases == {"none", "backed_up", "applied", "verified", "cutover",
           "rolling_back", "rolled_back"}

Manifests == [phase : Phases, post : [Targets -> Files], copies : [Targets -> Files],
              imports : BOOLEAN, available : BOOLEAN, marker : BOOLEAN]

NoManifest == [phase |-> "none", post |-> [t \in Targets |-> NoFile],
               copies |-> [t \in Targets |-> NoFile],
               imports |-> FALSE, available |-> FALSE, marker |-> FALSE]

(***************************************************************************)
(* A world fixes the preimages, the targets a reader keeps open, whether   *)
(* the operator follows the runbook's table of phases (careful) or runs    *)
(* any command at any time, and how often a command dies.                  *)
(***************************************************************************)
Preimage == {f \in Files : ~f.newer /\ ~f.wal /\ (~f.there => f = NoFile)}

WorldSet == [pre : [Targets -> Preimage], held : SUBSET Targets,
             careful : BOOLEAN, deaths : Nat]

ASSUME WorldAssumption == Worlds \subseteq WorldSet

VARIABLES
  world,
  file,      \* the target databases
  backup,    \* their copies in the state directory
  fence,     \* the sources with a fence marker beside them
  drifted,   \* a legacy writer changed a source after planning
  marker,    \* cutover.json is in the state directory
  manifest,
  op         \* the running command: where it is and what it has left to do

vars == <<world, file, backup, fence, drifted, marker, manifest, op>>

Idle == [at |-> "idle", next |-> 1, left |-> {}]

At(step, next, left) == [at |-> step, next |-> next, left |-> left]

(***************************************************************************)
(* A copy made by the SQLite backup API has the rows of its original and   *)
(* bytes of its own.                                                       *)
(***************************************************************************)
Copy(f) == [there |-> f.there, rows |-> f.rows, clash |-> f.clash,
            newer |-> f.newer, native |-> FALSE, wal |-> FALSE]

Init ==
  /\ world \in Worlds
  /\ file = world.pre
  /\ backup = [t \in Targets |-> NoFile]
  /\ fence = {}
  /\ drifted = FALSE
  /\ marker = FALSE
  /\ manifest = NoManifest
  /\ op = Idle

---------------------------------------------------------------------------
(* apply *)

(* Mutant: every apply starts from the beginning and backs up again. *)
StartApplyMutant ==
  /\ op = Idle
  /\ ~drifted
  /\ manifest.phase \in {"none", "backed_up"}
  /\ op' = At("fence", 1, {})
  /\ UNCHANGED <<world, file, backup, fence, drifted, marker, manifest>>

(***************************************************************************)
(* A first apply fences the sources before anything else; one that finds a *)
(* manifest goes back to the import, in backed_up as in rolling_back.  In  *)
(* the phases where the import is done it returns the manifest.            *)
(***************************************************************************)
Resumable == {"backed_up", "rolling_back"}

StartApply ==
  /\ op = Idle
  /\ ~drifted
  /\ \/ /\ manifest.phase = "none"
        /\ op' = At("fence", 1, {})
     \/ /\ manifest.phase \in Resumable
        /\ world.careful => manifest.phase = "backed_up"
        /\ op' = At("import", 1, {})
  /\ UNCHANGED <<world, file, backup, fence, drifted, marker, manifest>>

WriteFence ==
  /\ op.at = "fence"
  /\ \/ \E s \in Sources \ fence : fence' = fence \union {s} /\ op' = op
     \/ Sources \subseteq fence /\ fence' = fence /\ op' = At("backup", 1, Targets)
  /\ UNCHANGED <<world, file, backup, drifted, marker, manifest>>

BackUp ==
  /\ op.at = "backup"
  /\ \E t \in op.left :
       /\ backup' = [backup EXCEPT ![t] = IF file[t].there THEN Copy(file[t]) ELSE @]
       /\ op' = [op EXCEPT !.left = @ \ {t}]
  /\ UNCHANGED <<world, file, fence, drifted, marker, manifest>>

(***************************************************************************)
(* The manifest is written once all copies are made, and the sources are   *)
(* compared with the plan again: a drift ends the command here.            *)
(***************************************************************************)
SaveBackedUp ==
  /\ op = At("backup", 1, {})
  /\ manifest' = [NoManifest EXCEPT !.phase = "backed_up",
                    !.copies = [t \in Targets |->
                                  IF file[t].there THEN backup[t] ELSE NoFile],
                    !.available = TRUE]
  /\ op' = IF drifted THEN Idle ELSE At("import", 1, {})
  /\ UNCHANGED <<world, file, backup, fence, drifted, marker>>

Imported(t, p) ==
  [file[t] EXCEPT !.there = TRUE, !.rows = @ \union {p},
                  !.native = @ /\ p \in file[t].rows, !.wal = t \in world.held]

(***************************************************************************)
(* One transaction of the import.  An identity that exists with the same   *)
(* content is skipped, one with other content ends the command and leaves  *)
(* the transactions before it committed.                                   *)
(***************************************************************************)
Import ==
  /\ op.at = "import"
  /\ op.next \in 1..Pieces
  /\ LET p == op.next
         t == Home[p]
     IN  \/ /\ p \notin file[t].clash
            /\ file' = [file EXCEPT ![t] = Imported(t, p)]
            /\ op' = [op EXCEPT !.next = @ + 1]
         \/ /\ p \in file[t].clash
            /\ op' = Idle
            /\ UNCHANGED file
  /\ UNCHANGED <<world, backup, fence, drifted, marker, manifest>>

SaveApplied ==
  /\ op.at = "import"
  /\ op.next = Pieces + 1
  /\ manifest' = [manifest EXCEPT !.phase = "applied", !.imports = TRUE, !.post = file]
  /\ op' = Idle
  /\ UNCHANGED <<world, file, backup, fence, drifted, marker>>

---------------------------------------------------------------------------
(* verify and cutover *)

Missing == {p \in 1..Pieces : p \notin file[Home[p]].rows}

(***************************************************************************)
(* The targets verify opens: those of the pieces up to the first one that  *)
(* is missing.  Opening a database that is not there creates its file.     *)
(***************************************************************************)
Opened == {Home[p] : p \in {q \in 1..Pieces : \A m \in Missing : q <= m}}

(***************************************************************************)
(* Verify reads the sources and the targets and compares them with the     *)
(* manifest.  It does not look at the phase, except that rolled_back is    *)
(* refused and cutover is kept.                                            *)
(***************************************************************************)
VerifiedPhase == IF manifest.phase = "cutover" THEN "cutover" ELSE "verified"

Verify ==
  /\ op = Idle
  /\ manifest.phase \notin {"none", "rolled_back"}
  /\ world.careful => manifest.phase \in {"applied", "verified", "cutover"}
  /\ ~drifted
  /\ file' = [t \in Targets |-> IF t \in Opened THEN [file[t] EXCEPT !.there = TRUE]
                                                ELSE file[t]]
  /\ manifest' = IF Missing = {} /\ manifest.imports
                 THEN [manifest EXCEPT !.phase = VerifiedPhase]
                 ELSE manifest
  /\ UNCHANGED <<world, backup, fence, drifted, marker, op>>

StartCutover ==
  /\ op = Idle
  /\ manifest.phase \in {"verified", "cutover"}
  /\ marker' = TRUE
  /\ op' = At("cutover", 1, {})
  /\ UNCHANGED <<world, file, backup, fence, drifted, manifest>>

SaveCutover ==
  /\ op.at = "cutover"
  /\ manifest' = [manifest EXCEPT !.phase = "cutover", !.marker = TRUE]
  /\ op' = Idle
  /\ UNCHANGED <<world, file, backup, fence, drifted, marker>>

---------------------------------------------------------------------------
(* rollback *)

(* Mutant: a target is safe if the imported identities are still there. *)
RowsRemainMutant(t) ==
  manifest.post[t].rows \subseteq file[t].rows \/ file[t] = manifest.copies[t]

(* Mutant: a target that was restored already is taken for a drifted one. *)
PostOnlyMutant(t) == file[t] = manifest.post[t]

(***************************************************************************)
(* A target may be restored if its bytes are those recorded after the      *)
(* import, or those of the copy it is to be restored from.                 *)
(***************************************************************************)
TargetIsSafe(t) == file[t] \in {manifest.post[t], manifest.copies[t]}

(* Mutant: the phase is not saved before the first target is restored. *)
StartRollbackMutant ==
  /\ op = Idle
  /\ manifest.available
  /\ ~drifted
  /\ \A t \in Targets : TargetIsSafe(t)
  /\ op' = At("restore", 1, Targets)
  /\ UNCHANGED <<world, file, backup, fence, drifted, marker, manifest>>

StartRollback ==
  /\ op = Idle
  /\ manifest.available
  /\ ~drifted
  /\ \A t \in Targets :
       TargetIsSafe(t) /\ (manifest.copies[t].there => backup[t] = manifest.copies[t])
  /\ world.careful => manifest.phase # "backed_up"
  /\ manifest' = [manifest EXCEPT !.phase = "rolling_back"]
  /\ op' = At("restore", 1, Targets)
  /\ UNCHANGED <<world, file, backup, fence, drifted, marker>>

(***************************************************************************)
(* The sidecars are removed before the database is replaced, or removed    *)
(* where there was none before the migration.                              *)
(***************************************************************************)
Restore ==
  /\ op.at = "restore"
  /\ \E t \in op.left :
       \/ /\ file[t].wal
          /\ file' = [file EXCEPT ![t].wal = FALSE]
          /\ op' = op
       \/ /\ ~file[t].wal
          /\ file' = [file EXCEPT ![t] = manifest.copies[t]]
          /\ op' = [op EXCEPT !.left = @ \ {t}]
  /\ UNCHANGED <<world, backup, fence, drifted, marker, manifest>>

Release ==
  /\ op = At("restore", 1, {})
  /\ \/ \E s \in fence : fence' = fence \ {s} /\ UNCHANGED <<marker, op>>
     \/ /\ fence = {}
        /\ marker' = (marker /\ ~manifest.marker)
        /\ op' = At("released", 1, {})
        /\ UNCHANGED fence
  /\ UNCHANGED <<world, file, backup, drifted, manifest>>

SaveRolledBack ==
  /\ op.at = "released"
  /\ manifest' = [manifest EXCEPT !.phase = "rolled_back", !.available = FALSE]
  /\ op' = Idle
  /\ UNCHANGED <<world, file, backup, fence, drifted, marker>>

---------------------------------------------------------------------------
(* The environment: a command dies, writers write. *)

Active == {"applied", "verified", "cutover"}

Die ==
  /\ op # Idle
  /\ world.deaths > 0
  /\ world' = [world EXCEPT !.deaths = @ - 1]
  /\ op' = Idle
  /\ UNCHANGED <<file, backup, fence, drifted, marker, manifest>>

(***************************************************************************)
(* A legacy writer that honours the fences; the operator stops it for the  *)
(* commands that change the targets, the fence is all that stops it while  *)
(* the migrated data is in use.                                            *)
(***************************************************************************)
LegacyWrites ==
  /\ op = Idle
  /\ manifest.phase \in Active \union {"none"}
  /\ Sources \ fence # {}
  /\ ~drifted
  /\ drifted' = TRUE
  /\ UNCHANGED <<world, file, backup, fence, marker, manifest, op>>

(* A writer of the new store runs after the cutover is recorded. *)
NewWrites ==
  /\ op = Idle
  /\ manifest.phase = "cutover"
  /\ \E t \in Targets : file[t].there /\ file' = [file EXCEPT ![t].newer = TRUE]
  /\ UNCHANGED <<world, backup, fence, drifted, marker, manifest, op>>

---------------------------------------------------------------------------
ApplyStep == WriteFence \/ BackUp \/ SaveBackedUp \/ Import \/ SaveApplied

RollbackStep == Restore \/ Release \/ SaveRolledBack

Next ==
  \/ StartApply \/ ApplyStep
  \/ Verify \/ StartCutover \/ SaveCutover
  \/ StartRollback \/ RollbackStep
  \/ Die \/ LegacyWrites \/ NewWrites

(***************************************************************************)
(* A command that started goes on, and the operator repeats the one that   *)
(* an interruption left unfinished.                                        *)
(***************************************************************************)
Fairness ==
  /\ WF_vars(ApplyStep) /\ WF_vars(SaveCutover) /\ WF_vars(RollbackStep)
  /\ WF_vars(StartApply /\ manifest.phase = "backed_up")
  /\ WF_vars(StartRollback /\ manifest.phase = "rolling_back")

Spec == Init /\ [][Next]_vars /\ Fairness

---------------------------------------------------------------------------
(* Every value is of its type: six phases, target files, and a command     *)
(* that is at a step of the code with pieces or targets left to handle.    *)
TypeOK ==
  /\ world \in WorldSet
  /\ file \in [Targets -> Files]
  /\ backup \in [Targets -> Files]
  /\ fence \subseteq Sources
  /\ drifted \in BOOLEAN
  /\ marker \in BOOLEAN
  /\ manifest \in Manifests
  /\ op \in [at : {"idle", "fence", "backup", "import", "cutover", "restore", "released"},
             next : 1..(Pieces + 1), left : SUBSET Targets]

(* However often apply and rollback are interrupted and repeated, the      *)
(* copies a rollback restores are of the targets as they were before the   *)
(* migration, and a rolled back target is that copy (apply_migration_012   *)
(* backs up before the first import and never again).                      *)
PreimageKept ==
  /\ manifest.phase # "none" =>
       manifest.copies = [t \in Targets |-> Copy(world.pre[t])]
  /\ manifest.phase = "rolled_back" => file = manifest.copies /\ fence = {}

(* A manifest in a phase that lets new writers start, or lets verify and   *)
(* cutover go on, stands for targets that hold every imported identity:    *)
(* a half imported or half restored target is never called applied,        *)
(* verified or cutover.                                                    *)
ActiveIsComplete == manifest.phase \in Active => Missing = {}

(* No command removes what a new writer wrote: rollback refuses a target   *)
(* that changed after the import, through any sequence of commands.        *)
NewerDataKept == [][\A t \in Targets : file[t].newer => file'[t].newer]_vars

(* An interrupted apply and an interrupted rollback are finished by        *)
(* repeating the command, if the operator follows the runbook, no reader   *)
(* holds a target open and no target identity has other content.           *)
InterruptedFinishes ==
  (world.careful /\ world.held = {} /\ \A t \in Targets : world.pre[t].clash = {}) =>
    /\ manifest.phase = "backed_up" ~> manifest.phase = "applied"
    /\ manifest.phase = "rolling_back" ~> manifest.phase = "rolled_back"
=============================================================================
