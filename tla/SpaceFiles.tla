------------------------------- MODULE SpaceFiles ------------------------------
(***************************************************************************)
(* Spaces that are archived, restored and deleted for good, and the files  *)
(* they own: rows of the store with a body under the attachments root.     *)
(* Uploads, changes of sharing, deletions and the move to another root run *)
(* one after the other behind files.withExclusive, each in steps that may  *)
(* fail.  The deletion of a Space holds the memory lock and then joins     *)
(* that queue.                                                             *)
(*                                                                         *)
(* All roots are on one device, so that a directory moves by one rename,   *)
(* and an operation fails at most once: what it does to roll back works.   *)
(***************************************************************************)
EXTENDS Naturals, Sequences, FiniteSets

CONSTANTS
    Spaces, Files, Roots,   \* ids, directories
    FirstRoot,              \* the root of the configuration
    MaxFileOps,             \* bound: operations that are ever queued
    RemovalFails            \* whether the removal of a body in the trash may fail

(* No directory of files is called like one of the states of a body.       *)
ASSUME RootsAssumption ==
    /\ FirstRoot \in Roots /\ Roots \cap {"temp", "trash", "none"} = {}
    /\ "none" \notin Files

VARIABLES
    space,          \* spaces: id -> "active", "archived" or "gone"
    busy,           \* spaces with an active run, compaction or digest
    file,           \* files: id -> row
    body,           \* id -> where its bytes are: a root, "temp", "trash" or "none"
    root,           \* the root the service works with
    savedRoot,      \* paths.filesAttachmentsPath in settings.json
    fileQueue,      \* operations behind withExclusive; the first one runs
    deletion,       \* deleteArchivedSpace under way
    restored,       \* history: spaces restored during their deletion
    fileOps

fileVars == <<space, busy, file, body, root, savedRoot, fileQueue, deletion, restored, fileOps>>

NoFile     == [state |-> "none"]
NoDeletion == [at |-> "none"]
Live(f)    == file[f].state = "live"
Owned(s)   == {f \in Files : Live(f) /\ file[f].owner = s}
op1        == Head(fileQueue)
Running(kind, at) == fileQueue # << >> /\ op1.kind = kind /\ op1.at = at
Step(o)    == fileQueue' = <<o>> \o Tail(fileQueue)
Done       == fileQueue' = Tail(fileQueue)

Queue(o) ==
    /\ fileOps < MaxFileOps /\ fileOps' = fileOps + 1
    /\ fileQueue' = Append(fileQueue, o)

spaceVars == <<space, busy, deletion, restored>>
rootVars  == <<root, savedRoot>>

-----------------------------------------------------------------------------
(* Requests.  The Space is checked before the operation joins the queue.   *)

MayChange(s) == space[s] = "active"

RequestUpload(s, f) ==
    /\ MayChange(s)
    /\ file[f] = NoFile /\ \A i \in 1 .. Len(fileQueue) : fileQueue[i].file # f
    /\ Queue([kind |-> "upload", at |-> "stream", space |-> s, file |-> f])
    /\ UNCHANGED <<spaceVars, file, body, rootVars>>

(* With the version that the client has seen.                              *)
RequestSharing(s, f, shared) ==
    /\ MayChange(s) /\ Live(f)
    /\ Queue([kind |-> "share", at |-> "check", space |-> s, file |-> f,
              ifMatch |-> file[f].version, shared |-> shared])
    /\ UNCHANGED <<spaceVars, file, body, rootVars>>

RequestFileDeletion(s, f) ==
    /\ MayChange(s) /\ Live(f)
    /\ Queue([kind |-> "delete", at |-> "check", space |-> s, file |-> f,
              ifMatch |-> file[f].version])
    /\ UNCHANGED <<spaceVars, file, body, rootVars>>

(* Mutant of RequestMigration: the root is switched beside the queue.      *)
MigrateAtOnce(r) ==
    /\ r # root /\ \A f \in Files : body[f] \notin {r, "trash"}
    /\ body' = [f \in Files |-> IF body[f] = root THEN r ELSE body[f]]
    /\ root' = r /\ savedRoot' = r
    /\ UNCHANGED <<spaceVars, file, fileQueue, fileOps>>

RequestMigration(r) ==
    /\ r # root
    /\ Queue([kind |-> "migrate", at |-> "check", file |-> "none", to |-> r, moved |-> {}])
    /\ UNCHANGED <<spaceVars, file, body, rootVars>>

-----------------------------------------------------------------------------
(* upload *)

UploadStreams ==
    /\ Running("upload", "stream")
    /\ body' = [body EXCEPT ![op1.file] = "temp"]
    /\ Step([kind |-> "upload", at |-> "place", space |-> op1.space, file |-> op1.file,
             path |-> root])
    /\ UNCHANGED <<spaceVars, file, rootVars, fileOps>>

(* The body is renamed to its path and the row inserted, then saved.       *)
UploadPlaced ==
    /\ Running("upload", "place")
    /\ body' = [body EXCEPT ![op1.file] = op1.path]
    /\ file' = [file EXCEPT ![op1.file] =
                   [state |-> "live", owner |-> op1.space, shared |-> {}, version |-> 1]]
    /\ Step([op1 EXCEPT !.at = "flush"])
    /\ UNCHANGED <<spaceVars, rootVars, fileOps>>

(* The body is too large or breaks off, the rename or the save fails.      *)
UploadFails ==
    /\ fileQueue # << >> /\ op1.kind = "upload"
    /\ file' = [file EXCEPT ![op1.file] = NoFile]
    /\ body' = [body EXCEPT ![op1.file] = "none"]
    /\ Done
    /\ UNCHANGED <<spaceVars, rootVars, fileOps>>

-----------------------------------------------------------------------------
(* updateSharing, deleteFile *)

(* What the operation asks for is still what there is.                     *)
Matches == Live(op1.file) /\ file[op1.file].owner = op1.space
           /\ file[op1.file].version = op1.ifMatch

ChangeSharing ==
    /\ Running("share", "check")
    /\ IF Matches /\ \A s \in op1.shared : space[s] # "gone"
       THEN /\ file' = [file EXCEPT ![op1.file].shared = op1.shared,
                                    ![op1.file].version = @ + 1]
            /\ Step([kind |-> "share", at |-> "flush", file |-> op1.file,
                     old |-> file[op1.file]])
       ELSE Done /\ UNCHANGED file
    /\ UNCHANGED <<spaceVars, body, rootVars, fileOps>>

SharingNotSaved ==
    /\ Running("share", "flush")
    /\ file' = [file EXCEPT ![op1.file] = op1.old]
    /\ Done
    /\ UNCHANGED <<spaceVars, body, rootVars, fileOps>>

Deleted(row) == [row EXCEPT !.state = "deleted", !.version = @ + 1]

(* tombstoneRecord: the body goes to the trash before the row is changed.  *)
DeleteFile ==
    /\ Running("delete", "check")
    /\ IF Matches
       THEN /\ body' = [body EXCEPT ![op1.file] = "trash"]
            /\ file' = [file EXCEPT ![op1.file] = Deleted(@)]
            /\ Step([kind |-> "delete", at |-> "flush", file |-> op1.file,
                     old |-> file[op1.file]])
       ELSE Done /\ UNCHANGED <<file, body>>
    /\ UNCHANGED <<spaceVars, rootVars, fileOps>>

(* The row is saved and the trash removed.                                 *)
DeletionSaved ==
    /\ Running("delete", "flush")
    /\ body' = [body EXCEPT ![op1.file] = "none"]
    /\ Done
    /\ UNCHANGED <<spaceVars, file, rootVars, fileOps>>

DeletionNotSaved ==
    /\ Running("delete", "flush")
    /\ file' = [file EXCEPT ![op1.file] = op1.old]
    /\ body' = [body EXCEPT ![op1.file] = root]
    /\ Done
    /\ UNCHANGED <<spaceVars, rootVars, fileOps>>

(* An operation whose last step is to save what it did.                    *)
Saved ==
    /\ Running("upload", "flush") \/ Running("share", "flush")
    /\ Done
    /\ UNCHANGED <<spaceVars, file, body, rootVars, fileOps>>

(* The operation fails before it changed anything: a body does not verify. *)
RefusedAtOnce ==
    /\ Running("delete", "check") \/ Running("migrate", "check")
    /\ Done
    /\ UNCHANGED <<spaceVars, file, body, rootVars, fileOps>>

-----------------------------------------------------------------------------
(* migrateFilesPath: the directories of the Spaces are moved, the bodies   *)
(* verified, the setting saved, and the service opened on the new root.    *)

MigrationStarts ==
    /\ Running("migrate", "check")
    /\ root # op1.to /\ \A f \in Files : body[f] \notin {op1.to, "trash"}
    /\ Step([op1 EXCEPT !.at = "move"])
    /\ UNCHANGED <<spaceVars, file, body, rootVars, fileOps>>

MoveDirectory(s) ==
    /\ Running("migrate", "move") /\ s \notin op1.moved
    /\ body' = [f \in Files |-> IF body[f] = root /\ file[f].owner = s THEN op1.to ELSE body[f]]
    /\ Step([op1 EXCEPT !.moved = @ \cup {s}])
    /\ UNCHANGED <<spaceVars, file, rootVars, fileOps>>

(* verifyRoot, then the setting.                                           *)
SaveRoot ==
    /\ Running("migrate", "move") /\ op1.moved = Spaces
    /\ \A f \in Files : Live(f) => body[f] = op1.to
    /\ savedRoot' = op1.to
    /\ Step([op1 EXCEPT !.at = "reopen"])
    /\ UNCHANGED <<spaceVars, file, body, root, fileOps>>

Reopen ==
    /\ Running("migrate", "reopen")
    /\ root' = op1.to
    /\ Done
    /\ UNCHANGED <<spaceVars, file, body, savedRoot, fileOps>>

MigrationFails ==
    /\ Running("migrate", "move") \/ Running("migrate", "reopen")
    /\ savedRoot' = root
    /\ body' = [f \in Files |-> IF body[f] = op1.to THEN root ELSE body[f]]
    /\ Done
    /\ UNCHANGED <<spaceVars, file, root, fileOps>>

-----------------------------------------------------------------------------
(* Spaces *)

Work(s) ==
    /\ space[s] # "gone"
    /\ busy' = IF s \in busy THEN busy \ {s} ELSE busy \cup {s}
    /\ UNCHANGED <<space, file, body, rootVars, fileQueue, deletion, restored, fileOps>>

ArchiveSpace(s) ==
    /\ space[s] = "active" /\ s \notin busy
    /\ space' = [space EXCEPT ![s] = "archived"]
    /\ UNCHANGED <<busy, file, body, rootVars, fileQueue, deletion, restored, fileOps>>

Deleting(s) == deletion # NoDeletion /\ deletion.space = s

RestoreSpace(s) ==
    /\ space[s] = "archived"
    /\ space' = [space EXCEPT ![s] = "active"]
    /\ restored' = IF Deleting(s) THEN restored \cup {s} ELSE restored
    /\ UNCHANGED <<busy, file, body, rootVars, fileQueue, deletion, fileOps>>

(* deleteArchivedSpace up to its first await.                              *)
DeleteSpace(s) ==
    /\ deletion = NoDeletion
    /\ space[s] = "archived" /\ s \notin busy
    /\ deletion' = [at |-> "memory", space |-> s]
    /\ UNCHANGED <<space, busy, file, body, rootVars, fileQueue, restored, fileOps>>

(* The memory of every Agent has been read and rewritten, or could not be. *)
MemoryRewritten ==
    /\ deletion.at = "memory"
    /\ Queue([kind |-> "purge", at |-> "list", space |-> deletion.space, file |-> "none",
              rest |-> {}, moved |-> {}, old |-> << >>])
    /\ deletion' = [deletion EXCEPT !.at = "files"]
    /\ UNCHANGED <<space, busy, file, body, rootVars, restored>>

DeletionFails ==
    /\ deletion.at = "memory"
    /\ deletion' = NoDeletion
    /\ UNCHANGED <<space, busy, file, body, rootVars, fileQueue, restored, fileOps>>

(* deleteOwnedBySpace lists the files when its turn comes and moves every  *)
(* body to the trash.                                                      *)
PurgeLists ==
    /\ Running("purge", "list")
    /\ Step([op1 EXCEPT !.at = "move", !.rest = Owned(op1.space), !.old = file])
    /\ UNCHANGED <<spaceVars, file, body, rootVars, fileOps>>

PurgeMoves(f) ==
    /\ Running("purge", "move") /\ f \in op1.rest
    /\ body' = [body EXCEPT ![f] = "trash"]
    /\ Step([op1 EXCEPT !.rest = @ \ {f}, !.moved = @ \cup {f}])
    /\ UNCHANGED <<spaceVars, file, rootVars, fileOps>>

(* All rows are changed together and saved.                                *)
PurgeRows ==
    /\ Running("purge", "move") /\ op1.rest = {}
    /\ file' = [f \in Files |-> IF f \in op1.moved THEN Deleted(file[f]) ELSE file[f]]
    /\ Step([op1 EXCEPT !.at = "remove", !.rest = op1.moved])
    /\ UNCHANGED <<spaceVars, body, rootVars, fileOps>>

PurgeRemoves(f) ==
    /\ Running("purge", "remove") /\ f \in op1.rest
    /\ body' = [body EXCEPT ![f] = "none"]
    /\ Step([op1 EXCEPT !.rest = @ \ {f}])
    /\ UNCHANGED <<spaceVars, file, rootVars, fileOps>>

PurgeDone ==
    /\ Running("purge", "remove") /\ op1.rest = {}
    /\ Done
    /\ deletion' = [deletion EXCEPT !.at = "graph"]
    /\ UNCHANGED <<space, busy, file, body, rootVars, restored, fileOps>>

(* A move, the save or a removal fails: rows and bodies are put back, as   *)
(* far as there still is a body.                                           *)
PurgeFails ==
    /\ Running("purge", "move") \/ Running("purge", "remove")
    /\ op1.rest # {}
    /\ op1.at = "move" \/ op1.rest = op1.moved \/ RemovalFails
    /\ file' = [f \in Files |-> IF f \in op1.moved THEN op1.old[f] ELSE file[f]]
    /\ body' = [f \in Files |-> IF body[f] = "trash" THEN root ELSE body[f]]
    /\ Done
    /\ deletion' = NoDeletion
    /\ UNCHANGED <<space, busy, rootVars, restored, fileOps>>

(* purgeSpaceGraph, after the await.                                       *)
PurgeGraph ==
    /\ deletion.at = "graph"
    /\ space' = [space EXCEPT ![deletion.space] = "gone"]
    /\ busy' = busy \ {deletion.space}
    /\ deletion' = NoDeletion
    /\ UNCHANGED <<file, body, rootVars, fileQueue, restored, fileOps>>

-----------------------------------------------------------------------------
FilesInit ==
    /\ space = [s \in Spaces |-> "active"] /\ busy = {}
    /\ file = [f \in Files |-> NoFile] /\ body = [f \in Files |-> "none"]
    /\ root = FirstRoot /\ savedRoot = FirstRoot
    /\ fileQueue = << >> /\ deletion = NoDeletion /\ restored = {} /\ fileOps = 0

FilesNext ==
    \/ \E s \in Spaces :
          \/ Work(s) \/ ArchiveSpace(s) \/ RestoreSpace(s) \/ DeleteSpace(s) \/ MoveDirectory(s)
          \/ \E f \in Files :
                \/ RequestUpload(s, f) \/ RequestFileDeletion(s, f)
                \/ \E shared \in SUBSET (Spaces \ {s}) : RequestSharing(s, f, shared)
    \/ \E r \in Roots : RequestMigration(r)
    \/ UploadStreams \/ UploadPlaced \/ UploadFails \/ Saved \/ RefusedAtOnce
    \/ ChangeSharing \/ SharingNotSaved \/ DeleteFile \/ DeletionSaved \/ DeletionNotSaved
    \/ MigrationStarts \/ SaveRoot \/ Reopen \/ MigrationFails
    \/ MemoryRewritten \/ DeletionFails \/ PurgeLists \/ PurgeRows \/ PurgeDone \/ PurgeFails
    \/ PurgeGraph
    \/ \E f \in Files : PurgeMoves(f) \/ PurgeRemoves(f)

FilesSpec == FilesInit /\ [][FilesNext]_fileVars

-----------------------------------------------------------------------------
(* A file that nobody works on can be read where the service looks for it, *)
(* whatever operations failed half-way and however often the root moved;   *)
(* and after a restart, too: the saved root is the root.                   *)
FilesReadable ==
    /\ \A f \in Files : Live(f) /\ body[f] # root =>
          Running("purge", "move") \/ Running("migrate", "move") \/ Running("migrate", "reopen")
    /\ savedRoot # root => Running("migrate", "reopen")

(* A Space that is gone owns no file: uploads that passed the check before *)
(* the Space was archived come before its deletion in the queue.  Only a   *)
(* Space restored during its deletion can leave files behind.              *)
NoOrphanFile ==
    \A f \in Files : Live(f) => space[file[f].owner] # "gone" \/ file[f].owner \in restored

(* A row of a file (files-service.js, space-deletion.js) has its body and  *)
(* its Space.                                                              *)
FilesSound == FilesReadable /\ NoOrphanFile
=============================================================================
