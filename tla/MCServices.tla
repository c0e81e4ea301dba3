------------------------------ MODULE MCServices ------------------------------
(***************************************************************************)
(* The services around run execution for TLC, with the store and its       *)
(* migrations, and what a browser shows of a Space.  They share no state   *)
(* at the level at which they are modelled, so that a behaviour is one of  *)
(* them: `part` says which, and the others stay as they were at the start. *)
(***************************************************************************)
EXTENDS DaemonLink, MemoryMaintenance, MemoryTasks, Timeline,
        MemorySchedules, MemoryRecall, StoreStartup, StoreMigrations,
        ChatClient

VARIABLE part

memoryPart  == <<memoryVars, taskVars, scheduleVars, recallVars>>
browserPart == <<timelineVars, chatVars>>
storePart   == <<storeVars, migrationVars>>
partVars    == <<linkVars, memoryPart, browserPart, storePart>>

(* What a part that is not chosen starts with does not matter.             *)
MemoryIdle == file = [s \in Slugs |-> Absent] /\ kind = "dream" /\ ~marker
NoSchedule == memoryConfig = [digest |-> [mode |-> "manual"], dream |-> Manual]

ServicesInit ==
    /\ part \in {"link", "memory", "tasks", "digests", "dreams", "recall",
                 "timeline", "chat", "store", "migrations"}
    /\ LinkInit /\ MemoryInit /\ TasksInit /\ ScheduleInit /\ RecallInit
    /\ TimelineInit /\ ChatInit
    /\ StoreInit /\ MigrationsInit
    /\ part # "memory" => MemoryIdle
    /\ part \notin {"digests", "dreams"} => NoSchedule
    /\ part = "digests" => memoryConfig.dream = Manual
    /\ part = "dreams" => memoryConfig.digest.mode = "manual"
    /\ part # "store" => place = "file" /\ ~hasSpaces
    /\ part # "migrations" => onDisk = FirstStore

(* A digest is followed with one restart, and with edits of the owner      *)
(* before the last write.                                                  *)
MemoryPart ==
    /\ \/ /\ part = "memory" /\ MemoryNext
          /\ kind = "digest" => vaultFaults' <= 1 /\ (OwnerEdits => writes' <= 2)
          /\ UNCHANGED <<taskVars, scheduleVars, recallVars>>
       \/ /\ part = "tasks" /\ TasksNext
          /\ UNCHANGED <<memoryVars, scheduleVars, recallVars>>
       \/ /\ part = "digests" /\ (DigestSide \/ BothSides) /\ clock' <= 1 /\ patchCount' <= 1
          /\ UNCHANGED <<memoryVars, taskVars, recallVars>>
       \/ /\ part = "dreams" /\ (DreamSide \/ BothSides)
          /\ UNCHANGED <<memoryVars, taskVars, recallVars>>
       \/ /\ part = "recall" /\ RecallNext
          /\ UNCHANGED <<memoryVars, taskVars, scheduleVars>>
    /\ UNCHANGED <<linkVars, browserPart, storePart>>

BrowserPart ==
    /\ \/ part = "timeline" /\ TimelineNext /\ UNCHANGED chatVars
       \/ part = "chat"     /\ ChatNext     /\ UNCHANGED timelineVars
    /\ UNCHANGED <<linkVars, memoryPart, storePart>>

StorePart ==
    /\ \/ part = "store"      /\ StoreNext      /\ UNCHANGED migrationVars
       \/ part = "migrations" /\ MigrationsNext /\ UNCHANGED storeVars
    /\ UNCHANGED <<linkVars, memoryPart, browserPart>>

ServicesNext ==
    /\ UNCHANGED part
    /\ \/ part = "link" /\ LinkNext /\ UNCHANGED <<memoryPart, browserPart, storePart>>
       \/ MemoryPart
       \/ BrowserPart
       \/ StorePart

ServicesSpec == ServicesInit /\ [][ServicesNext]_<<part, partVars>>

(* One type invariant for all parts.                                       *)
ServicesTypeOK == LinkTypeOK /\ MemoryTypeOK /\ RecallTypeOK
=============================================================================
