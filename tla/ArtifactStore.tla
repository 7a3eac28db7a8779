---------------------------- MODULE ArtifactStore ----------------------------
(***************************************************************************)
(* Artifacts, backups, restores and the upgrade of old databases           *)
(* (adapters/sqlite_store.py, lines 3873-3932, 3982-4010, 4062-4155,       *)
(* 4250-4357 and 4430-4485).                                               *)
(*                                                                         *)
(* An artifact is a file named by its digest beside the database; a row of *)
(* the database refers to it.  The database commits durably               *)
(* (synchronous=FULL).  A file is written and synced under another name    *)
(* and renamed; the new name survives a loss of power only once its        *)
(* directory was synced.  One thread of one process works at a time, and   *)
(* it may die, or fail, between any two steps.                             *)
(***************************************************************************)
EXTENDS Integers, FiniteSets

CONSTANTS
    Digests,
    Slots,          \* (operation_id, name) of a reference
    Names,          \* destinations of the backups that are asked for
    OldSchemas,     \* schema versions that a database may have at first; 0 is a new one
    MaxCrashes,     \* bound on the losses of a process or of power
    MaxDamages,     \* bound on the files somebody damages
    None

SchemaVersion == 6

ASSUME ArtifactAssumption ==
    /\ OldSchemas \subseteq 0..SchemaVersion
    /\ MaxCrashes \in Nat /\ MaxDamages \in Nat
    /\ None \notin Digests
    /\ None \notin [schema : 0..SchemaVersion, refs : [Slots -> Digests \cup {None}]]

\* The artifact directory is an entry of the directory of the database.
Directory == "artifacts"

VARIABLES
    refs,       \* refs[s]: the digest that the committed row names, or None
    schema,     \* user_version
    files,      \* files[d]: "none", "good" or "bad", as the process sees the directory
    directory,  \* whether the artifact directory is there
    synced,     \* the entries that survive a loss of power
    bundles,    \* the backups: their name, their image and their files
    kept,       \* the names of backups that survive a loss of power
    restored,   \* the restored database and its artifact directory, or None; whether it is complete
    task,       \* what the process is doing
    open,       \* whether a controller holds the store
    crashes, damages,
    original,   \* history: the image before the upgrade
    harmed,     \* history: the files of the store and the backups that somebody damaged
    blackout    \* history: power was lost

storeVars == <<refs, schema, files, directory, synced>>
historyVars == <<damages, original, harmed, blackout>>
vars == <<storeVars, bundles, kept, restored, task, open, crashes, historyVars>>

Idle == [kind |-> "idle", step |-> "none"]
Image == [schema |-> schema, refs |-> refs]

NothingRestored == [database |-> None, files |-> None, durable |-> FALSE]

\* What an image refers to.
Referenced(image) == {image.refs[s] : s \in Slots} \ {None}

\* A new database is empty, and the first version knew no artifacts.
Init ==
    /\ schema \in OldSchemas
    /\ refs \in [Slots -> Digests \cup {None}]
    /\ schema < 2 => \A s \in Slots : refs[s] = None
    /\ files = [d \in Digests |-> IF d \in Referenced(Image) THEN "good" ELSE "none"]
    /\ directory = (Referenced(Image) # {})
    /\ synced = Referenced(Image) \cup (IF directory THEN {Directory} ELSE {})
    /\ bundles = {} /\ kept = {} /\ restored = NothingRestored
    /\ task = Idle /\ open = FALSE /\ crashes = 0 /\ damages = 0
    /\ original = Image /\ harmed = {} /\ blackout = FALSE

At(kind, step) == task.kind = kind /\ task.step = step
Goto(step) == task' = [task EXCEPT !.step = step]

-----------------------------------------------------------------------------
(* finalize_artifact() *)

\* _verify_blob()
Verified(d) == files[d] = "good"

\* Mutant: the reference is committed before its file is there.
StepAfterCommitFirst(step) ==
    CASE step = "begin" -> "commit" [] step = "commit" -> "directory" [] step = "directory" -> "file"
      [] step = "file" -> "sync" [] step = "sync" -> "none"

\* The steps of _stage_blob() and the commit of the transaction around it.
StepAfter(step) ==
    CASE step = "begin" -> "directory" [] step = "directory" -> "file" [] step = "file" -> "sync"
      [] step = "sync" -> "commit" [] step = "commit" -> "none"

Proceed == IF StepAfter(task.step) = "none" THEN task' = Idle ELSE Goto(StepAfter(task.step))

\* An immutable reference is either new or names the same digest.
Finalize(s, d) ==
    /\ task = Idle /\ open
    /\ refs[s] \in {None, d}
    /\ task' = [kind |-> "finalize", step |-> StepAfter("begin"), slot |-> s, digest |-> d]
    /\ UNCHANGED <<storeVars, bundles, kept, restored, open, crashes, historyVars>>

\* mkdir() and the sync of its parent; the failure of the sync is MakeDirectoryFails.
MakeDirectory ==
    /\ At("finalize", "directory")
    /\ synced' = IF directory THEN synced ELSE synced \cup {Directory}
    /\ directory' = TRUE
    /\ Proceed
    /\ UNCHANGED <<refs, schema, files, bundles, kept, restored, open, crashes, historyVars>>

MakeDirectoryFails ==
    /\ At("finalize", "directory") /\ ~directory
    /\ directory' = TRUE
    /\ task' = Idle
    /\ UNCHANGED <<refs, schema, files, synced, bundles, kept, restored, open, crashes, historyVars>>

\* A file that is already there is verified and used; there is nothing to sync.
UseFile ==
    /\ At("finalize", "file") /\ Verified(task.digest)
    /\ Goto(StepAfter("sync"))
    /\ UNCHANGED <<storeVars, bundles, kept, restored, open, crashes, historyVars>>

\* Otherwise the bytes are written and synced under another name, and renamed.
ReplaceFile ==
    /\ At("finalize", "file") /\ files[task.digest] = "none"
    /\ files' = [files EXCEPT ![task.digest] = "good"]
    /\ Proceed
    /\ UNCHANGED <<refs, schema, directory, synced, bundles, kept, restored, open, crashes, historyVars>>

SyncDirectory ==
    /\ At("finalize", "sync")
    /\ synced' = synced \cup {d \in Digests : files[d] # "none"}
    /\ Proceed
    /\ UNCHANGED <<refs, schema, files, directory, bundles, kept, restored, open, crashes, historyVars>>

CommitReference ==
    /\ At("finalize", "commit")
    /\ refs' = [refs EXCEPT ![task.slot] = task.digest]
    /\ Proceed
    /\ UNCHANGED <<schema, files, directory, synced, bundles, kept, restored, open, crashes, historyVars>>

-----------------------------------------------------------------------------
(* backup(): under the store's gate, so nothing of the store changes meanwhile. *)

Exists(name) == \E b \in bundles : b.name = name

\* Mutant: the files are copied as they are.
CopyableAnyway(image) == TRUE

\* Every file that the image refers to is verified before and after it is copied.
Copyable(image) == \A d \in Referenced(image) : Verified(d)

Backup(name) ==
    /\ task = Idle /\ open /\ ~Exists(name)
    /\ task' = [kind |-> "backup", step |-> "copy", name |-> name]
    /\ UNCHANGED <<storeVars, bundles, kept, restored, open, crashes, historyVars>>

\* The next step of the task that asked for the backup.
BackupDone == IF task.kind = "open" THEN Goto("next") ELSE task' = Idle

\* Database image, files and manifest are synced in a directory that is then renamed.
PublishBundle ==
    /\ task.kind \in {"backup", "open"} /\ task.step = "copy"
    /\ Copyable(Image)
    /\ bundles' = bundles \cup {[name |-> task.name, image |-> Image,
                                 files |-> [d \in Referenced(Image) |-> files[d]]]}
    /\ Goto("publish")
    /\ UNCHANGED <<storeVars, kept, restored, open, crashes, historyVars>>

SyncBundle ==
    /\ task.kind \in {"backup", "open"} /\ task.step = "publish"
    /\ kept' = kept \cup {task.name}
    /\ BackupDone
    /\ UNCHANGED <<storeVars, bundles, restored, open, crashes, historyVars>>

-----------------------------------------------------------------------------
(* The start of a controller. *)

\* Mutant: only the next boundary is backed up.
TargetsNext(version) == {t \in 4..SchemaVersion : 0 < version /\ (t = version + 1 \/ (t = 4 /\ version < 4))}

\* The upgrades that each keep a backup of what was there before.
Targets(version) == {t \in 4..SchemaVersion : 0 < version /\ version < t}

\* A name that is qualified by the content, and the target.
UpgradeName(t) == [target |-> t, image |-> Image]

BeginOpen ==
    /\ task = Idle /\ ~open
    /\ task' = [kind |-> "open", step |-> "next", name |-> None]
    /\ UNCHANGED <<storeVars, bundles, kept, restored, open, crashes, historyVars>>

\* _verify_backup_manifest(): image and files are those of the manifest.
Intact(b) == \A d \in Referenced(b.image) : d \in DOMAIN b.files /\ b.files[d] = "good"

\* _backup_before_schema_four(): an intact backup of the same content is used again.
BackedUp(t) == \E b \in bundles : b.name = UpgradeName(t) /\ b.image = Image /\ Intact(b)

BackupBefore(t) ==
    /\ At("open", "next") /\ t \in Targets(schema)
    /\ \A u \in Targets(schema) : u < t => BackedUp(u)
    /\ ~Exists(UpgradeName(t))
    /\ task' = [task EXCEPT !.step = "copy", !.name = UpgradeName(t)]
    /\ UNCHANGED <<storeVars, bundles, kept, restored, open, crashes, historyVars>>

\* _migrate() in one transaction, the checks of the references, and the end of the start.
Upgrade ==
    /\ At("open", "next")
    /\ \A t \in Targets(schema) : BackedUp(t)
    /\ schema' = SchemaVersion
    /\ Goto("validate")
    /\ UNCHANGED <<refs, files, directory, synced, bundles, kept, restored, open, crashes, historyVars>>

\* _validate_operation_records(): what it refers to must be there.
Opened ==
    /\ At("open", "validate")
    /\ \A d \in Referenced(Image) : Verified(d)
    /\ open' = TRUE /\ task' = Idle
    /\ UNCHANGED <<storeVars, bundles, kept, restored, crashes, historyVars>>

-----------------------------------------------------------------------------
(* restore_backup(), at a new place. *)

Restore(b) ==
    /\ task = Idle
    /\ restored.database = None /\ restored.files = None
    /\ Intact(b)
    /\ task' = [kind |-> "restore", step |-> "files", name |-> b.name]
    /\ UNCHANGED <<storeVars, bundles, kept, restored, open, crashes, historyVars>>

\* Every copied file is synced and verified.
CopyVerified(copy, image) == \A d \in Referenced(image) : copy[d] = "good"

\* The files come first, in a directory that is only made for some.
CopyFiles ==
    /\ At("restore", "files")
    /\ \E b \in bundles :
        /\ b.name = task.name
        /\ CopyVerified(b.files, b.image)
        /\ restored' = [restored EXCEPT !.files = IF b.files = << >> THEN None ELSE b.files]
    /\ Goto("database")
    /\ UNCHANGED <<storeVars, bundles, kept, open, crashes, historyVars>>

\* A directory without some of its files is left where it is.
CopyFilesFails ==
    /\ At("restore", "files")
    /\ \E b \in bundles : b.name = task.name /\ b.files # << >>
    /\ restored' = [restored EXCEPT !.files = << >>]
    /\ task' = Idle
    /\ UNCHANGED <<storeVars, bundles, kept, open, crashes, historyVars>>

\* The image is copied, synced, verified and renamed.
CopyDatabase ==
    /\ At("restore", "database")
    /\ \E b \in bundles : b.name = task.name /\ restored' = [restored EXCEPT !.database = b.image]
    /\ Goto("sync")
    /\ UNCHANGED <<storeVars, bundles, kept, open, crashes, historyVars>>

\* The sync of the directory that holds both, and the return.
Restored ==
    /\ At("restore", "sync")
    /\ restored' = [restored EXCEPT !.durable = TRUE]
    /\ task' = Idle
    /\ UNCHANGED <<storeVars, bundles, kept, open, crashes, historyVars>>

-----------------------------------------------------------------------------
(* Failures. *)

\* Any step raises, and the exception reaches the caller; a start closes its connection.
Fails ==
    /\ task # Idle
    /\ task' = Idle
    /\ UNCHANGED <<storeVars, bundles, kept, restored, open, crashes, historyVars>>

\* The process ends, also by closing the store.
ProcessLost ==
    /\ crashes < MaxCrashes /\ (open \/ task # Idle)
    /\ crashes' = crashes + 1
    /\ task' = Idle /\ open' = FALSE
    /\ UNCHANGED <<storeVars, bundles, kept, restored, historyVars>>

\* What was not synced may be there afterwards, or not.
PowerLost ==
    /\ crashes < MaxCrashes
    /\ crashes' = crashes + 1
    /\ task' = Idle /\ open' = FALSE /\ blackout' = TRUE
    /\ \E survives \in SUBSET {d \in Digests : files[d] # "none"}, there \in BOOLEAN :
        /\ {d \in synced \ {Directory} : files[d] # "none"} \subseteq survives
        /\ Directory \in synced => there = directory
        /\ directory' = (directory /\ there)
        /\ files' = [d \in Digests |-> IF d \in survives /\ directory' THEN files[d] ELSE "none"]
        /\ synced' = {d \in Digests : files'[d] # "none"} \cup (IF directory' THEN {Directory} ELSE {})
    /\ \E lost \in SUBSET {b \in bundles : b.name \notin kept} :
        /\ bundles' = bundles \ lost
        /\ kept' = {b.name : b \in bundles'}
    /\ \E database \in {None, restored.database}, copied \in {None, << >>, restored.files} :
        /\ restored.durable => database = restored.database /\ copied = restored.files
        /\ restored.files = None => copied = None
        /\ restored' = [restored EXCEPT !.database = database, !.files = copied]
    /\ UNCHANGED <<refs, schema, damages, original, harmed>>

\* Somebody damages a file of the store or of a backup.
DamageFile(d) ==
    /\ damages < MaxDamages /\ files[d] = "good"
    /\ files' = [files EXCEPT ![d] = "bad"]
    /\ damages' = damages + 1 /\ harmed' = harmed \cup {d}
    /\ UNCHANGED <<refs, schema, directory, synced, bundles, kept, restored, task, open, crashes, original, blackout>>

DamageBundle(b, d) ==
    /\ damages < MaxDamages /\ d \in DOMAIN b.files
    /\ bundles' = (bundles \ {b}) \cup {[b EXCEPT !.files[d] = "bad"]}
    /\ damages' = damages + 1 /\ harmed' = harmed \cup {b.name}
    /\ UNCHANGED <<storeVars, kept, restored, task, open, crashes, original, blackout>>

Next ==
    \/ \E s \in Slots, d \in Digests : Finalize(s, d)
    \/ MakeDirectory \/ MakeDirectoryFails \/ UseFile \/ ReplaceFile \/ SyncDirectory \/ CommitReference
    \/ \E name \in Names : Backup(name)
    \/ PublishBundle \/ SyncBundle
    \/ BeginOpen \/ (\E t \in 4..SchemaVersion : BackupBefore(t)) \/ Upgrade \/ Opened
    \/ (\E b \in bundles : Restore(b)) \/ CopyFiles \/ CopyFilesFails \/ CopyDatabase \/ Restored
    \/ Fails \/ ProcessLost \/ PowerLost
    \/ \E d \in Digests : DamageFile(d) \/ \E b \in bundles : DamageBundle(b, d)

Spec == Init /\ [][Next]_vars

-----------------------------------------------------------------------------
(* Properties. *)

Backed == \A d \in Referenced(Image) : d \in harmed \/ Verified(d)

\* Whatever failed and whenever the process died, every committed reference has its
\* file, so that the next start accepts the store.
ReferencesBacked == ~blackout => Backed

\* The same also after a loss of power: "an accepted result must not refer to a
\* missing/unverified blob" (docs/adr/0003-durability-and-effects.md:36).
ReferencesSurvivePowerLoss == Backed

\* A backup that can be seen is complete: it has a good file for everything its image
\* refers to, unless somebody damaged it later, also after a loss of power.  A restore that
\* returned left a database with good files for all of its references, also when the
\* backup is damaged while it is copied.
BundlesComplete ==
    /\ \A b \in bundles : b.name \in harmed \/ Intact(b)
    /\ restored.durable =>
        /\ restored.database # None
        /\ \A d \in Referenced(restored.database) : restored.files[d] = "good"

\* Once an old database is upgraded, a backup of what it was exists for each boundary
\* it crossed, however often the upgrade was interrupted and begun again.
UpgradeKeepsOriginal ==
    schema # original.schema /\ original.schema > 0 /\ ~blackout =>
        \A t \in 4..SchemaVersion : original.schema < t =>
            \E b \in bundles : b.name = [target |-> t, image |-> original] /\ b.image = original

-----------------------------------------------------------------------------
(* The inductive strengthening, in parts. *)

Images == [schema : 0..SchemaVersion, refs : [Slots -> Digests \cup {None}]]
BundleNames == Names \cup [target : 4..SchemaVersion, image : Images]
FileStates == {"none", "good", "bad"}
Copies == UNION {[D -> FileStates] : D \in SUBSET Digests}
Bundles == [name : BundleNames, image : Images, files : Copies]

Tasks ==
    [kind : {"idle"}, step : {"none"}]
    \cup [kind : {"finalize"}, step : {"directory", "file", "sync", "commit"}, slot : Slots, digest : Digests]
    \cup [kind : {"backup"}, step : {"copy", "publish"}, name : BundleNames]
    \cup [kind : {"open"}, step : {"next", "copy", "publish", "validate"}, name : BundleNames \cup {None}]
    \cup [kind : {"restore"}, step : {"files", "database", "sync"}, name : BundleNames]

\* Every piece of the state that the other parts speak of has its type.
ArtifactTypeOK ==
    /\ refs \in [Slots -> Digests \cup {None}] /\ schema \in 0..SchemaVersion
    /\ files \in [Digests -> FileStates]
    /\ bundles \subseteq Bundles
    /\ restored \in [database : Images \cup {None}, files : Copies \cup {None}, durable : BOOLEAN]
    /\ task \in Tasks /\ open \in BOOLEAN
    /\ original \in Images

\* A file that is about to be referred to is there.
StagedBeforeCommit ==
    task.kind = "finalize" /\ task.step \in {"sync", "commit"} =>
        task.digest \in harmed \/ Verified(task.digest)

\* Backups have different names, and copies of exactly what their image refers to.
BundlesNamed ==
    /\ \A b, c \in bundles : b.name = c.name => b = c
    /\ \A b \in bundles : DOMAIN b.files = Referenced(b.image)
    /\ task.kind \in {"backup", "open"} /\ task.step = "copy" =>
          task.name \in BundleNames /\ ~Exists(task.name)

\* A restore goes from files to database, and none begins once one has returned.
RestoreOrdered ==
    /\ At("restore", "database") => \A b \in bundles : b.name = task.name =>
          \A d \in Referenced(b.image) : restored.files[d] = "good"
    /\ At("restore", "sync") => /\ restored.database # None
                                /\ \A d \in Referenced(restored.database) : restored.files[d] = "good"
    /\ restored.durable => task.kind # "restore"

\* Until it is upgraded a database is what it was, and nothing is finalized in it.
UpgradeComesFirst ==
    /\ open \/ task.kind = "finalize" \/ At("open", "validate") => schema = SchemaVersion
    /\ schema = SchemaVersion \/ Image = original

ArtifactInv ==
    /\ ArtifactTypeOK /\ StagedBeforeCommit /\ BundlesNamed /\ RestoreOrdered /\ UpgradeComesFirst
    /\ ReferencesBacked /\ BundlesComplete /\ UpgradeKeepsOriginal
==============================================================================
