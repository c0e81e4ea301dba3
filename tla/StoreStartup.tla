------------------------------ MODULE StoreStartup ------------------------------
(***************************************************************************)
(* The files of the store: one per collection and meta.json, written one   *)
(* after the other by a flush, and the start of the gateway, which adopts  *)
(* the single file of an older version, migrates it in phases that flush   *)
(* on their own, and recovers from a crash in the middle.                  *)
(*                                                                         *)
(* Two collections stand for all: "shaped" is rewritten by the migrations, *)
(* "plain" is not.  The content of a file is the number of its last edit:  *)
(* 0 if it does not exist, 1 as it was in the old file.                    *)
(***************************************************************************)
EXTENDS Naturals, FiniteSets

CONSTANTS
    MaxEdits,       \* bound: edits of a collection
    MaxCrashes      \* bound: crashes of the gateway

VARIABLES
    place,          \* dataPath is "absent", the old "file" or a "dir"
    storeJson,      \* <dataPath>/store.json exists
    sibling,        \* <dataPath>.legacy exists
    disk,           \* [shaped, plain, seq, version]; seq is 0 without meta.json
    torn,           \* files a crash left half written
    mem,            \* the same in memory
    dirty,          \* files to be written by the next flush
    writing,        \* files the flush in progress has still to write
    startMode,      \* what detectLegacySingleFile found
    startAt,        \* where createStore stands; "up" once it is done
    hasSpaces,      \* the old data has Spaces: sessions are inserted for them
    crashes

storeVars == <<place, storeJson, sibling, disk, torn, mem, dirty, writing, startMode, startAt,
               hasSpaces, crashes>>

StoreCollections == {"shaped", "plain"}
StoreFiles       == StoreCollections \cup {"meta"}
Migrated    == 3                    \* the version after the last phase

EmptyStore  == [shaped |-> 0, plain |-> 0, seq |-> 0, version |-> 0]
LegacyStore == [shaped |-> 1, plain |-> 1, seq |-> 1, version |-> 0]

HasMeta == disk.seq # 0

(* Mutant: the old file is adopted again although the store was complete.  *)
ModeWithoutMeta ==
    CASE place = "file" -> "single-file"
      [] place = "dir" /\ storeJson -> "dir-store-json"
      [] place # "file" /\ ~storeJson /\ sibling -> "crash-recover"
      [] OTHER -> "none"

(* detectLegacySingleFile.                                                 *)
Mode ==
    CASE place = "file" -> "single-file"
      [] place = "dir" /\ storeJson /\ HasMeta ->
            IF disk.seq = LegacyStore.seq THEN "self-heal-rename" ELSE "mixed-state-refuse"
      [] place = "dir" /\ storeJson /\ ~HasMeta -> "dir-store-json"
      [] place # "file" /\ ~storeJson /\ ~HasMeta /\ sibling -> "crash-recover"
      [] OTHER -> "none"

(* The file that is adopted is read at once.  A file that does not parse   *)
(* stops the start.                                                        *)
Detect ==
    /\ startAt = "down"
    /\ startMode' = Mode
    /\ mem' = IF Mode \in {"single-file", "dir-store-json", "crash-recover"} THEN LegacyStore
              ELSE [EmptyStore EXCEPT !.version = Migrated]
    /\ startAt' = IF storeJson /\ HasMeta /\ "meta" \in torn THEN "refused" ELSE
           CASE Mode = "single-file"        -> "rename"
             [] Mode = "crash-recover"      -> "mkdir"
             [] Mode = "dir-store-json"     -> "migrate"
             [] Mode = "self-heal-rename"   -> "rename"
             [] Mode = "mixed-state-refuse" -> "refused"
             [] OTHER -> IF place = "dir" THEN "load" ELSE "up"
    /\ UNCHANGED <<place, storeJson, sibling, disk, torn, dirty, writing, hasSpaces, crashes>>

(* renameLegacyAside, of the data path or of the file inside it.           *)
RenameAside ==
    /\ startAt = "rename"
    /\ IF startMode = "single-file"
       THEN place' = "absent" /\ sibling' = TRUE /\ startAt' = "mkdir" /\ UNCHANGED storeJson
       ELSE /\ storeJson' = FALSE
            /\ startAt' = IF startMode = "self-heal-rename" THEN "load" ELSE "up"
            /\ UNCHANGED <<place, sibling>>
    /\ UNCHANGED <<disk, torn, mem, dirty, writing, startMode, hasSpaces, crashes>>

MakeDirectory ==
    /\ startAt = "mkdir"
    /\ place' = "dir"
    /\ startAt' = "migrate"
    /\ UNCHANGED <<storeJson, sibling, disk, torn, mem, dirty, writing, startMode, hasSpaces,
                   crashes>>

(* loadDirectoryRegularly: what is missing stays empty.                    *)
LoadDirectory ==
    /\ startAt = "load"
    /\ IF torn # {} THEN startAt' = "refused" /\ UNCHANGED mem
                    ELSE startAt' = "migrate" /\ mem' = disk
    /\ UNCHANGED <<place, storeJson, sibling, disk, torn, dirty, writing, startMode, hasSpaces,
                   crashes>>

(* One migration phase and its flush: the connection fields of Agents,     *)
(* then context sessions and Account federation, then model selection and  *)
(* communication.  The first leaves meta.json alone.                       *)
MigratePhase ==
    /\ startAt = "migrate"
    /\ writing = {}
    /\ mem.version < Migrated
    /\ mem' = [mem EXCEPT !.version = @ + 1,
                          !.seq = IF mem.version = 1 /\ hasSpaces THEN @ + 1 ELSE @]
    /\ writing' = IF mem.version = 0 THEN {"shaped"} ELSE {"shaped", "meta"}
    /\ UNCHANGED <<place, storeJson, sibling, disk, torn, dirty, startMode, startAt, hasSpaces,
                   crashes>>

(* rebuildFromLegacy ends with a flush of everything.                      *)
FinishStart ==
    /\ startAt = "migrate"
    /\ writing = {}
    /\ mem.version = Migrated
    /\ IF startMode \in {"none", "self-heal-rename"}
       THEN startAt' = "up" /\ UNCHANGED writing
       ELSE startAt' = "rebuilt" /\ writing' = StoreFiles
    /\ UNCHANGED <<place, storeJson, sibling, disk, torn, mem, dirty, startMode, hasSpaces,
                   crashes>>

Rebuilt ==
    /\ startAt = "rebuilt"
    /\ writing = {}
    /\ startAt' = IF startMode = "dir-store-json" THEN "rename" ELSE "up"
    /\ UNCHANGED <<place, storeJson, sibling, disk, torn, mem, dirty, writing, startMode,
                   hasSpaces, crashes>>

(* insert, update and remove: the collection and meta.json get dirty.      *)
EditCollection(c) ==
    /\ startAt = "up"
    /\ mem[c] <= MaxEdits
    /\ mem' = [mem EXCEPT ![c] = @ + 1, !.seq = @ + 1]
    /\ dirty' = dirty \cup {c, "meta"}
    /\ UNCHANGED <<place, storeJson, sibling, disk, torn, writing, startMode, startAt, hasSpaces,
                   crashes>>

(* doFlush takes the dirty set.                                            *)
StartFlush ==
    /\ startAt = "up"
    /\ writing = {} /\ dirty # {}
    /\ writing' = dirty
    /\ dirty' = {}
    /\ place' = "dir"
    /\ UNCHANGED <<storeJson, sibling, disk, torn, mem, startMode, startAt, hasSpaces, crashes>>

NextFiles == IF writing = {"meta"} THEN writing ELSE writing \ {"meta"}

(* The next file is written with what memory holds by then: meta.json last.*)
WriteNext ==
    /\ \E k \in NextFiles :
          /\ writing' = writing \ {k}
          /\ disk' = IF k = "meta" THEN [disk EXCEPT !.seq = mem.seq, !.version = mem.version]
                                   ELSE [disk EXCEPT ![k] = mem[k]]
          /\ torn' = torn \ {k}
    /\ UNCHANGED <<place, storeJson, sibling, mem, dirty, startMode, startAt, hasSpaces, crashes>>

(* The process dies, possibly in the middle of a file.                     *)
Crash ==
    /\ startAt # "down"
    /\ crashes < MaxCrashes
    /\ crashes' = crashes + 1
    /\ startAt' = "down"
    /\ dirty' = {}
    /\ writing' = {}
    /\ mem' = EmptyStore
    /\ startMode' = "none"
    /\ \/ UNCHANGED <<disk, torn>>
       \/ \E k \in NextFiles :
             /\ torn' = torn \cup {k}
             /\ disk' = IF k = "meta" /\ ~HasMeta THEN [disk EXCEPT !.seq = 1] ELSE disk
    /\ UNCHANGED <<place, storeJson, sibling, hasSpaces>>

StoreInit ==
    /\ \/ place = "file" /\ storeJson = FALSE
       \/ place = "dir" /\ storeJson = TRUE
    /\ sibling = FALSE
    /\ disk = EmptyStore
    /\ torn = {}
    /\ mem = EmptyStore
    /\ dirty = {} /\ writing = {}
    /\ startMode = "none" /\ startAt = "down"
    /\ hasSpaces \in BOOLEAN
    /\ crashes = 0

StoreNext ==
    \/ Detect \/ RenameAside \/ MakeDirectory \/ LoadDirectory \/ MigratePhase \/ FinishStart
    \/ Rebuilt \/ StartFlush \/ WriteNext \/ Crash
    \/ \E c \in StoreCollections : EditCollection(c)

StoreSpec == StoreInit /\ [][StoreNext]_storeVars

-----------------------------------------------------------------------------
(* Properties *)

(* No write takes a collection back: neither the old single file nor what  *)
(* a start has read replaces what a later edit has put on disk.            *)
NewerNotOverwritten ==
    [][\A c \in StoreCollections : disk'[c] >= disk[c]]_storeVars
=============================================================================
