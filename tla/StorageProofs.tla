----------------------------- MODULE StorageProofs -----------------------------
(***************************************************************************)
(* Proofs about what the gateway keeps on disk: no write takes the store   *)
(* back, the directories of the store and of the memories are where a      *)
(* gateway that starts looks for them, and the files of Spaces are where   *)
(* their rows say, for any number of directories, Agents, Spaces, files,   *)
(* collections, edits, operations, failures and crashes.                   *)
(***************************************************************************)
EXTENDS StoreStartup, DataPaths, SpaceFiles, TLAPS

-----------------------------------------------------------------------------
(* The store *)

Legacy    == {"single-file", "dir-store-json", "crash-recover"}
StoreRows == [shaped : Nat, plain : Nat, seq : Nat, version : Nat]

StoreTypes ==
    /\ place \in {"absent", "file", "dir"} /\ storeJson \in BOOLEAN /\ sibling \in BOOLEAN
    /\ disk \in StoreRows /\ mem \in StoreRows
    /\ writing \in SUBSET StoreFiles /\ dirty \in SUBSET StoreFiles
    /\ startMode \in Legacy \union {"none", "self-heal-rename", "mixed-state-refuse"}
    /\ startAt \in {"down", "refused", "rename", "mkdir", "load", "migrate", "rebuilt", "up"}

(* Memory holds all that the disk has: it was loaded from it, or is the    *)
(* old file and nothing else has been written.                             *)
Loaded ==
    \/ startAt \in {"mkdir", "migrate", "rebuilt", "up"}
    \/ startAt = "rename" /\ startMode # "self-heal-rename"

(* The disk has a store, if it has meta.json, or what is left of the       *)
(* adoption of the old file, which is still there.                         *)
DiskSound ==
    /\ place # "dir" => ~HasMeta /\ ~storeJson
    /\ ~HasMeta => /\ storeJson \/ sibling \/ place = "file"
                   /\ \A c \in StoreCollections : disk[c] <= 1

StartSound ==
    /\ writing # {} => startAt \in {"migrate", "rebuilt", "up"}
    /\ startAt \in {"load", "migrate", "rebuilt", "up"} => place = "dir"
    /\ startAt = "rename" => place = IF startMode = "single-file" THEN "file" ELSE "dir"
    /\ startAt = "mkdir" => sibling
    /\ Loaded => mem.seq > 0 /\ \A c \in StoreCollections : disk[c] <= mem[c]
    /\ startAt \in {"rename", "mkdir", "migrate", "rebuilt"} /\ startMode \in Legacy
       => \A c \in StoreCollections : mem[c] = 1
    /\ startAt = "mkdir" => startMode \in Legacy
    /\ startAt = "load" => startMode \in {"none", "self-heal-rename"}
    /\ startAt \in {"rename", "migrate"} => startMode # "mixed-state-refuse"
    /\ startAt \in {"load", "up"} => HasMeta
    /\ startAt = "rename" /\ startMode # "single-file" => HasMeta
    /\ startAt = "migrate" /\ startMode \notin Legacy => HasMeta
    /\ startAt = "rebuilt" => startMode \in Legacy /\ ("meta" \in writing \/ HasMeta)

StoreInv == StoreTypes /\ DiskSound /\ StartSound

(* A gateway finds the old file, or nothing, as it was installed.          *)
LEMMA StoreInitInv ==
    ASSUME StoreInit
    PROVE  StoreInv
<1>1. disk \in StoreRows /\ mem \in StoreRows /\ disk.seq = 0
  BY DEF StoreInit, EmptyStore, StoreRows
<1>2. \A c \in StoreCollections : disk[c] = 0
  BY DEF StoreInit, EmptyStore, StoreCollections
<1>3. StoreTypes
  BY <1>1 DEF StoreInit, StoreTypes
<1>4. DiskSound
  BY <1>1, <1>2 DEF StoreInit, DiskSound, HasMeta
<1>5. StartSound
  BY DEF StoreInit, StartSound, Loaded
<1>6. QED
  BY <1>3, <1>4, <1>5 DEF StoreInv

(* What detectLegacySingleFile finds is what the disk has.                 *)
LEMMA ModeSound ==
    ASSUME StoreInv
    PROVE  /\ Mode \in Legacy \union {"none", "self-heal-rename", "mixed-state-refuse"}
           /\ Mode \in Legacy => ~HasMeta
           /\ Mode = "single-file" <=> place = "file"
           /\ Mode = "crash-recover" => sibling
           /\ Mode = "dir-store-json" => place = "dir"
           /\ Mode = "self-heal-rename" => HasMeta /\ place = "dir"
           /\ Mode = "none" => HasMeta /\ place = "dir"
<1>1. /\ place = "dir" \/ (~HasMeta /\ ~storeJson)
      /\ HasMeta \/ storeJson \/ sibling \/ place = "file"
  BY DEF StoreInv, DiskSound
<1>2. QED
  BY <1>1 DEF Mode, Legacy

LEMMA DetectInv ==
    ASSUME StoreInv, Detect
    PROVE  StoreInv'
<1>1. StoreTypes'
  <2>1. LegacyStore \in StoreRows /\ [EmptyStore EXCEPT !.version = Migrated] \in StoreRows
    BY DEF LegacyStore, EmptyStore, StoreRows, Migrated
  <2>2. startAt' \in {"rename", "mkdir", "migrate", "refused", "load", "up"}
    BY DEF Detect
  <2>3. mem' \in StoreRows
    BY <2>1 DEF Detect
  <2>4. QED
    BY <2>2, <2>3, ModeSound DEF Detect, StoreInv, StoreTypes
<1>2. DiskSound'
  BY DEF Detect, StoreInv, DiskSound, HasMeta
<1>3. StartSound'
  <2>1. writing' = {}
    BY DEF Detect, StoreInv, StartSound
  <2>2. startMode' = Mode /\ UNCHANGED <<place, sibling, disk>>
    BY DEF Detect
  <2>3. CASE startAt' = "refused"
    BY <2>1, <2>3 DEF StartSound, Loaded
  <2>4. CASE startAt' # "refused"
    <3>1. /\ Mode # "mixed-state-refuse"
          /\ Mode \in {"single-file", "self-heal-rename"} => startAt' = "rename"
          /\ Mode = "crash-recover" => startAt' = "mkdir"
          /\ Mode = "dir-store-json" => startAt' = "migrate"
          /\ Mode = "none" => startAt' = "load"
      BY <2>4, ModeSound DEF Detect
    <3>2. CASE Mode \in Legacy
      <4>1. mem' = LegacyStore
        BY <3>2 DEF Detect, Legacy
      <4>2. mem'.shaped = 1 /\ mem'.plain = 1 /\ mem'.seq = 1
        BY <4>1 DEF LegacyStore
      <4>3. \A c \in StoreCollections : mem'[c] = 1 /\ disk[c] <= 1
        BY <3>2, <4>2, ModeSound DEF StoreInv, DiskSound, StoreCollections
      <4>4. QED
        BY <2>1, <2>2, <3>1, <3>2, <4>2, <4>3, ModeSound DEF StartSound, Loaded, Legacy
    <3>3. CASE Mode \notin Legacy
      BY <2>1, <2>2, <3>1, <3>3, ModeSound DEF StartSound, Loaded, Legacy, HasMeta
    <3>4. QED
      BY <3>2, <3>3
  <2>5. QED
    BY <2>3, <2>4
<1>4. QED
  BY <1>1, <1>2, <1>3 DEF StoreInv

LEMMA StartStepInv ==
    ASSUME StoreInv, RenameAside \/ MakeDirectory \/ LoadDirectory \/ FinishStart \/ Rebuilt
    PROVE  StoreInv'
<1> USE DEF StoreInv
<1>1. UNCHANGED disk
  BY DEF RenameAside, MakeDirectory, LoadDirectory, FinishStart, Rebuilt
<1>2. CASE RenameAside
  <2>1. StoreTypes'
    BY <1>2 DEF RenameAside, StoreTypes
  <2>2. DiskSound'
    BY <1>1, <1>2 DEF RenameAside, DiskSound, StartSound, HasMeta
  <2>3. StartSound'
    BY <1>1, <1>2 DEF RenameAside, StartSound, Loaded, HasMeta, Legacy, StoreTypes, DiskSound
  <2>4. QED
    BY <2>1, <2>2, <2>3
<1>3. CASE MakeDirectory
  <2>1. StoreTypes'
    BY <1>3 DEF MakeDirectory, StoreTypes
  <2>2. DiskSound'
    BY <1>1, <1>3 DEF MakeDirectory, DiskSound, StartSound, HasMeta
  <2>3. StartSound'
    BY <1>1, <1>3 DEF MakeDirectory, StartSound, Loaded, HasMeta, Legacy
  <2>4. QED
    BY <2>1, <2>2, <2>3
<1>4. CASE LoadDirectory
  <2>1. StoreTypes'
    BY <1>4 DEF LoadDirectory, StoreTypes
  <2>2. DiskSound'
    BY <1>1, <1>4 DEF LoadDirectory, DiskSound, HasMeta
  <2>3. CASE torn # {}
    <3>1. startAt' = "refused" /\ writing' = {}
      BY <1>4, <2>3 DEF LoadDirectory, StartSound
    <3>2. QED
      BY <2>1, <2>2, <3>1 DEF StartSound, Loaded
  <2>4. CASE torn = {}
    <3>1. mem' = disk /\ startAt' = "migrate"
      BY <1>4, <2>4 DEF LoadDirectory
    <3>2. /\ disk.shaped \in Nat /\ disk.plain \in Nat /\ disk.seq \in Nat
          /\ HasMeta
      BY <1>4 DEF LoadDirectory, StoreTypes, StoreRows, StartSound
    <3>3. mem'.seq > 0 /\ \A c \in StoreCollections : disk'[c] <= mem'[c]
      BY <1>1, <3>1, <3>2 DEF HasMeta, StoreCollections
    <3>4. startMode \notin Legacy
      BY <1>4 DEF LoadDirectory, StartSound, Legacy
    <3>5. QED
      BY <1>1, <1>4, <2>1, <2>2, <3>1, <3>2, <3>3, <3>4
         DEF LoadDirectory, StartSound, Loaded, HasMeta, Legacy
  <2>5. QED
    BY <2>1, <2>2, <2>3, <2>4
<1>5. CASE FinishStart
  <2>1. StoreTypes'
    BY <1>5 DEF FinishStart, StoreTypes, StoreFiles
  <2>2. DiskSound'
    BY <1>1, <1>5 DEF FinishStart, DiskSound, HasMeta
  <2>3. StartSound'
    BY <1>1, <1>5 DEF FinishStart, StartSound, Loaded, HasMeta, Legacy, StoreFiles, StoreTypes
  <2>4. QED
    BY <2>1, <2>2, <2>3
<1>6. CASE Rebuilt
  <2>1. StoreTypes'
    BY <1>6 DEF Rebuilt, StoreTypes
  <2>2. DiskSound'
    BY <1>1, <1>6 DEF Rebuilt, DiskSound, HasMeta
  <2>3. StartSound'
    BY <1>1, <1>6 DEF Rebuilt, StartSound, Loaded, HasMeta, Legacy
  <2>4. QED
    BY <2>1, <2>2, <2>3
<1>7. QED
  BY <1>2, <1>3, <1>4, <1>5, <1>6

(* What only changes memory: migrations and edits.                         *)
LEMMA MemoryStepInv ==
    ASSUME StoreInv, MigratePhase \/ StartFlush \/ \E c \in StoreCollections : EditCollection(c)
    PROVE  StoreInv'
<1> USE DEF StoreInv
<1>1. mem \in StoreRows /\ mem.seq \in Nat /\ mem.version \in Nat /\ UNCHANGED disk
      /\ mem.shaped \in Nat /\ mem.plain \in Nat /\ disk.shaped \in Nat /\ disk.plain \in Nat
  BY DEF MigratePhase, StartFlush, EditCollection, StoreTypes, StoreRows
<1>2. CASE MigratePhase
  <2>1. PICK n \in Nat, v \in Nat :
            /\ v = mem.version + 1
            /\ n = IF mem.version = 1 /\ hasSpaces THEN mem.seq + 1 ELSE mem.seq
    BY <1>1
  <2>2. /\ mem' \in StoreRows /\ mem'.seq = n /\ n >= mem.seq
        /\ mem'.shaped = mem.shaped /\ mem'.plain = mem.plain
    <3>1. mem' = [mem EXCEPT !.version = v, !.seq = n]
      BY <1>2, <2>1 DEF MigratePhase
    <3>2. n >= mem.seq
      BY <1>1, <2>1
    <3>3. QED
      BY <1>1, <3>1, <3>2 DEF StoreRows
  <2>3. StoreTypes'
    BY <1>2, <2>2 DEF MigratePhase, StoreTypes, StoreFiles, StoreCollections
  <2>4. DiskSound'
    BY <1>1, <1>2 DEF MigratePhase, DiskSound, HasMeta
  <2>5. \A c \in StoreCollections : mem'[c] = mem[c]
    BY <2>2 DEF StoreCollections
  <2>6. StartSound'
    BY <1>1, <1>2, <2>1, <2>2, <2>5 DEF MigratePhase, StartSound, Loaded, HasMeta
  <2>7. QED
    BY <2>3, <2>4, <2>6
<1>3. CASE StartFlush
  <2>1. StoreTypes'
    BY <1>3 DEF StartFlush, StoreTypes
  <2>2. DiskSound'
    BY <1>1, <1>3 DEF StartFlush, DiskSound, StartSound, HasMeta
  <2>3. StartSound'
    BY <1>1, <1>3 DEF StartFlush, StartSound, Loaded, HasMeta
  <2>4. QED
    BY <2>1, <2>2, <2>3
<1>4. ASSUME NEW c \in StoreCollections, EditCollection(c)
      PROVE  StoreInv'
  <2>1. PICK n \in Nat, v \in Nat : n = mem.seq + 1 /\ v = mem[c] + 1
    BY <1>1 DEF StoreCollections
  <2>2. /\ mem' \in StoreRows /\ mem'.seq = mem.seq + 1
        /\ mem'.shaped \in {mem.shaped, mem.shaped + 1}
        /\ mem'.plain \in {mem.plain, mem.plain + 1}
    <3>1. mem' = [mem EXCEPT ![c] = v, !.seq = n]
      BY <1>4, <2>1 DEF EditCollection
    <3>2. CASE c = "shaped"
      <4>1. mem' = [mem EXCEPT !.shaped = v, !.seq = n]
        BY <3>1, <3>2
      <4>2. /\ mem' \in StoreRows /\ mem'.seq = n /\ mem'.shaped = v
            /\ mem'.plain = mem.plain
        BY <1>1, <4>1 DEF StoreRows
      <4>3. QED
        BY <1>1, <2>1, <3>2, <4>2
    <3>3. CASE c = "plain"
      <4>1. mem' = [mem EXCEPT !.plain = v, !.seq = n]
        BY <3>1, <3>3
      <4>2. /\ mem' \in StoreRows /\ mem'.seq = n /\ mem'.plain = v
            /\ mem'.shaped = mem.shaped
        BY <1>1, <4>1 DEF StoreRows
      <4>3. QED
        BY <1>1, <2>1, <3>3, <4>2
    <3>4. QED
      BY <3>2, <3>3 DEF StoreCollections
  <2>3. StoreTypes'
    BY <1>4, <2>2 DEF EditCollection, StoreTypes, StoreFiles
  <2>4. DiskSound'
    BY <1>1, <1>4 DEF EditCollection, DiskSound, HasMeta
  <2>5. startAt = "up" => \A x \in StoreCollections : disk[x] <= mem'[x]
    BY <1>1, <2>2 DEF StartSound, Loaded, StoreCollections
  <2>6. /\ startAt = "up" /\ mem'.seq > 0
        /\ UNCHANGED <<place, sibling, writing, startMode, startAt>>
    <3>1. mem'.seq > 0
      BY <1>1, <2>2
    <3>2. QED
      BY <1>4, <3>1 DEF EditCollection
  <2>7. StartSound'
    BY <1>1, <2>5, <2>6 DEF StartSound, Loaded, HasMeta
  <2>8. QED
    BY <2>3, <2>4, <2>7
<1>5. QED
  BY <1>2, <1>3, <1>4

(* A write brings the file to what memory holds, which is not older.       *)
LEMMA WriteNextInv ==
    ASSUME StoreInv, WriteNext
    PROVE  StoreInv' /\ \A c \in StoreCollections : disk'[c] >= disk[c]
<1> USE DEF StoreInv
<1>1. PICK k \in NextFiles :
          /\ writing' = writing \ {k}
          /\ disk' = IF k = "meta" THEN [disk EXCEPT !.seq = mem.seq, !.version = mem.version]
                                   ELSE [disk EXCEPT ![k] = mem[k]]
  BY DEF WriteNext
<1>2. k \in writing /\ k \in StoreFiles
  BY <1>1 DEF NextFiles, StoreTypes
<1>3. /\ startAt \in {"migrate", "rebuilt", "up"} /\ place = "dir"
      /\ mem.seq > 0 /\ \A c \in StoreCollections : disk[c] <= mem[c]
  BY <1>2 DEF StartSound, Loaded
<1>4. /\ mem \in StoreRows /\ mem.seq \in Nat /\ mem.version \in Nat
      /\ mem.shaped \in Nat /\ mem.plain \in Nat
      /\ disk \in StoreRows /\ disk.shaped \in Nat /\ disk.plain \in Nat /\ disk.seq \in Nat
  BY DEF StoreTypes, StoreRows
<1>5. /\ disk' \in StoreRows
      /\ disk'.seq = IF k = "meta" THEN mem.seq ELSE disk.seq
      /\ disk'.shaped = IF k = "shaped" THEN mem.shaped ELSE disk.shaped
      /\ disk'.plain = IF k = "plain" THEN mem.plain ELSE disk.plain
  <2>1. CASE k = "meta"
    BY <1>1, <1>4, <2>1 DEF StoreRows
  <2>2. CASE k = "shaped"
    BY <1>1, <1>4, <2>2 DEF StoreRows
  <2>3. CASE k = "plain"
    BY <1>1, <1>4, <2>3 DEF StoreRows
  <2>4. QED
    BY <1>2, <2>1, <2>2, <2>3 DEF StoreFiles, StoreCollections
<1>6. /\ disk.shaped <= mem.shaped /\ disk.plain <= mem.plain
  BY <1>3 DEF StoreCollections
<1>7. \A c \in StoreCollections : disk'[c] \in {disk[c], mem[c]} /\ disk'[c] \in Nat
                                  /\ disk[c] \in Nat /\ mem[c] \in Nat
  BY <1>4, <1>5 DEF StoreCollections
<1>8. \A c \in StoreCollections : disk'[c] >= disk[c] /\ disk'[c] <= mem[c]
  BY <1>3, <1>7
<1>9. HasMeta => HasMeta'
  BY <1>3, <1>4, <1>5 DEF HasMeta
<1>10. k = "meta" => HasMeta'
  BY <1>3, <1>4, <1>5 DEF HasMeta
<1>11. UNCHANGED <<place, storeJson, sibling, mem, dirty, startMode, startAt>>
  BY DEF WriteNext
<1>12. StoreTypes'
  BY <1>1, <1>5, <1>11 DEF StoreTypes
<1>13. DiskSound'
  <2>1. SUFFICES ASSUME ~HasMeta'
        PROVE  /\ storeJson \/ sibling \/ place = "file"
               /\ \A c \in StoreCollections : disk'[c] <= 1
    BY <1>3, <1>11 DEF DiskSound
  <2>2. ~HasMeta
    BY <1>9, <2>1
  <2>3. startMode \in Legacy /\ startAt \in {"migrate", "rebuilt"}
    BY <1>3, <2>2 DEF StartSound
  <2>4. \A c \in StoreCollections : mem[c] = 1
    BY <2>3 DEF StartSound
  <2>5. \A c \in StoreCollections : disk'[c] <= 1
    BY <1>8, <2>4
  <2>6. QED
    BY <2>2, <2>5 DEF DiskSound
<1>14. StartSound'
  <2>1. startAt = "rebuilt" => "meta" \in writing' \/ HasMeta'
    BY <1>1, <1>9, <1>10 DEF StartSound
  <2>2. QED
    BY <1>3, <1>8, <1>9, <1>11, <2>1 DEF StartSound, Loaded
<1>15. QED
  BY <1>8, <1>12, <1>13, <1>14

(* A crash may leave half a file, and a new meta.json counts from one.     *)
LEMMA CrashInv ==
    ASSUME StoreInv, Crash
    PROVE  StoreInv' /\ \A c \in StoreCollections : disk'[c] >= disk[c]
<1> USE DEF StoreInv
<1>1. /\ disk \in StoreRows /\ disk.shaped \in Nat /\ disk.plain \in Nat /\ disk.seq \in Nat
  BY DEF StoreTypes, StoreRows
<1>2. startAt' = "down" /\ writing' = {} /\ UNCHANGED <<place, storeJson, sibling>>
  BY DEF Crash
<1>3. /\ disk' \in StoreRows /\ disk'.shaped = disk.shaped /\ disk'.plain = disk.plain
      /\ \/ disk' = disk
         \/ disk'.seq = 1 /\ place = "dir"
  <2>1. CASE UNCHANGED disk
    BY <1>1, <2>1
  <2>2. ASSUME NEW k \in NextFiles, disk' = [disk EXCEPT !.seq = 1]
        PROVE  /\ disk' \in StoreRows /\ disk'.shaped = disk.shaped /\ disk'.plain = disk.plain
               /\ disk'.seq = 1 /\ place = "dir"
    <3>1. writing # {}
      BY <2>2 DEF NextFiles
    <3>2. place = "dir"
      BY <3>1 DEF StartSound
    <3>3. QED
      BY <1>1, <2>2, <3>2 DEF StoreRows
  <2>3. QED
    BY <2>1, <2>2 DEF Crash
<1>4. \A c \in StoreCollections : disk'[c] = disk[c] /\ disk[c] \in Nat
  BY <1>1, <1>3 DEF StoreCollections
<1>5. StoreTypes'
  <2>1. mem' \in StoreRows
    BY DEF Crash, EmptyStore, StoreRows
  <2>2. dirty' = {} /\ startMode' = "none"
    BY DEF Crash
  <2>3. QED
    BY <1>2, <1>3, <2>1, <2>2 DEF StoreTypes
<1>6. DiskSound'
  BY <1>2, <1>3, <1>4 DEF DiskSound, HasMeta
<1>7. StartSound'
  BY <1>2 DEF StartSound, Loaded
<1>8. QED
  BY <1>4, <1>5, <1>6, <1>7

LEMMA StoreNextInv ==
    ASSUME StoreInv, [StoreNext]_storeVars
    PROVE  StoreInv' /\ \A c \in StoreCollections : disk'[c] >= disk[c]
<1>1. \A c \in StoreCollections : disk[c] \in Nat
  BY DEF StoreInv, StoreTypes, StoreRows, StoreCollections
<1>2. CASE UNCHANGED storeVars
  <2>1. StoreInv'
    BY <1>2 DEF storeVars, StoreInv, StoreTypes, DiskSound, StartSound, Loaded, HasMeta
  <2>2. QED
    BY <1>1, <1>2, <2>1 DEF storeVars
<1>3. CASE WriteNext \/ Crash
  BY <1>3, WriteNextInv, CrashInv
<1>4. CASE \/ Detect \/ RenameAside \/ MakeDirectory \/ LoadDirectory \/ MigratePhase \/ FinishStart
           \/ Rebuilt \/ StartFlush \/ \E c \in StoreCollections : EditCollection(c)
  <2>1. UNCHANGED disk
    BY <1>4 DEF Detect, RenameAside, MakeDirectory, LoadDirectory, MigratePhase, FinishStart,
                Rebuilt, StartFlush, EditCollection
  <2>2. StoreInv'
    BY <1>4, DetectInv, StartStepInv, MemoryStepInv
  <2>3. QED
    BY <1>1, <2>1, <2>2
<1>5. QED
  BY <1>2, <1>3, <1>4 DEF StoreNext

(* The invariant of the files of the store and of a start over them.       *)
THEOREM StoreInvInductive == StoreSpec => []StoreInv
<1>1. StoreInit => StoreInv
  BY StoreInitInv
<1>2. StoreInv /\ [StoreNext]_storeVars => StoreInv'
  BY StoreNextInv
<1>3. QED
  BY <1>1, <1>2, PTL DEF StoreSpec

(* No write takes a collection back (store.js, store-helpers.js): neither  *)
(* the old file that a start adopts nor what a start has read replaces a   *)
(* later edit, wherever the starts before it have crashed.                 *)
THEOREM NothingIsTakenBack == StoreSpec => NewerNotOverwritten
<1>1. StoreInv /\ [StoreNext]_storeVars
      => [\A c \in StoreCollections : disk'[c] >= disk[c]]_storeVars
  BY StoreNextInv
<1>2. QED
  BY <1>1, StoreInvInductive, PTL DEF StoreSpec, NewerNotOverwritten

-----------------------------------------------------------------------------
(* The directories *)

Overrides == [vault : Vaults \union {Unset}, data : Dirs \union {Unset}]
Versions  == [Collections -> Nat]
Asides    == [held : {FALSE}] \union [held : {TRUE}, store : Versions, settings : Overrides]

MoveRows ==
    [kind : {"vault", "data"}, key : {"vault", "data"}, to : Dirs \union Vaults,
     at : {"begin", "copy", "flush", "anchor", "finish"},
     had : Dirs \union Vaults \union {Unset}, wroteAnchor : BOOLEAN,
     anchorHad : Dirs \union Vaults \union {Unset},
     done : SUBSET (Owners \union Collections \union {"settings"}), before : Versions]

VaultMove == move # NoMove /\ move.kind = "vault"
DataMove  == move # NoMove /\ move.kind = "data"

(* The settings of the anchor name the target of the move.                 *)
InForce == move.at = "finish" \/ (move.at = "anchor" /\ dataPath = Anchor)

PathTypes ==
    /\ settings \in [Dirs -> Overrides] /\ overrides \in Overrides
    /\ dataPath \in Dirs /\ vault \in Vaults /\ home \in [Owners -> Vaults]
    /\ stored \in [Dirs -> Versions] /\ promised \in Versions
    /\ setAside \in Asides /\ move \in MoveRows \union {NoMove}

(* A move of the data goes to a directory that no gateway starts from.     *)
MoveSound ==
    /\ VaultMove => /\ move.key = "vault" /\ move.to \in Vaults /\ move.at # "copy"
                    /\ move.had \in Vaults \union {Unset}
    /\ DataMove => /\ move.key = "data" /\ move.to \in Dirs \ {Anchor, dataPath}
                   /\ move.had \in Dirs \union {Unset} /\ move.anchorHad \in Dirs \union {Unset}
    /\ move # NoMove => move.wroteAnchor = (move.at = "finish" /\ dataPath # Anchor)

(* The settings store holds what its file has, but for the path that is    *)
(* about to be flushed.                                                    *)
OverridesKept ==
    /\ ~(VaultMove /\ move.at = "flush") => overrides.vault = settings[dataPath].vault
    /\ ~(DataMove /\ move.at = "flush") => overrides.data = settings[dataPath].data
    /\ VaultMove /\ move.at = "flush" => overrides.vault = move.to
    /\ DataMove /\ move.at = "flush" => overrides.data = move.to

(* The next gateway looks for the memories where they are, or are going.   *)
VaultSound ==
    /\ BootVault = IF VaultMove /\ InForce THEN move.to ELSE vault
    /\ \A a \in Owners : home[a] = IF VaultMove /\ a \in move.done THEN move.to ELSE vault
    /\ VaultMove /\ move.at # "begin" => \A a \in Owners : home[a] = move.to
    /\ VaultMove /\ dataPath = Anchor => Or(move.had, FirstVault) = vault

(* A directory a gateway may start from has every collection, as new as    *)
(* the move promised that it awaits.                                       *)
Whole(d) ==
    \A c \in Collections : stored[d][c] > 0 /\ (d # dataPath => stored[d][c] >= promised[c])

(* Where a gateway starts from again when the move fails.                  *)
Former ==
    IF dataPath = Anchor THEN Or(move.had, Anchor)
    ELSE IF move.at = "finish" THEN Or(move.anchorHad, Anchor) ELSE BootData

DataSound ==
    /\ Whole(dataPath) /\ Whole(BootData)
    /\ \A c \in Collections : promised[c] <= stored[dataPath][c]
    /\ DataMove =>
          /\ InForce <=> BootData = move.to
          /\ Former # move.to /\ Whole(Former)
          /\ \A c \in Collections :
                /\ promised[c] <= move.before[c] /\ move.before[c] <= stored[dataPath][c]
                /\ c \in move.done \/ move.at \in {"flush", "anchor", "finish"}
                   => stored[move.to][c] > 0 /\ stored[move.to][c] >= move.before[c]
          /\ move.at = "begin" => move.done = {}

PathsInv == PathTypes /\ MoveSound /\ OverridesKept /\ VaultSound /\ DataSound

(* The directories of a gateway that was just installed.                   *)
LEMMA PathInitInv ==
    ASSUME PathInit
    PROVE  PathsInv
<1> USE DEF PathInit
<1>1. NoOverrides \in Overrides /\ NoOverrides.vault = Unset /\ NoOverrides.data = Unset
  BY DEF NoOverrides, Overrides
<1>2. settings[Anchor] = NoOverrides /\ settings[dataPath] = NoOverrides
  BY AnchorAssumption
<1>3. ~VaultMove /\ ~DataMove /\ move.at = "none" /\ ~InForce
  BY DEF VaultMove, DataMove, NoMove, InForce
<1>4. PathTypes
  <2>1. setAside \in Asides
    BY DEF Asides
  <2>2. stored \in [Dirs -> Versions] /\ promised \in Versions
    BY DEF Versions, Empty
  <2>3. QED
    BY <1>1, <2>1, <2>2, AnchorAssumption DEF PathTypes
<1>5. MoveSound
  BY <1>3 DEF MoveSound
<1>6. OverridesKept
  BY <1>2, <1>3 DEF OverridesKept
<1>7. VaultSound
  BY <1>1, <1>2, <1>3, AnchorAssumption DEF VaultSound, BootVault, Or
<1>8. DataSound
  <2>1. BootData = Anchor
    BY <1>1, <1>2 DEF BootData, Or
  <2>2. \A c \in Collections : stored[Anchor][c] = 1 /\ promised[c] = 0
    BY AnchorAssumption DEF Empty
  <2>3. QED
    BY <1>3, <2>1, <2>2 DEF DataSound, Whole
<1>9. QED
  BY <1>4, <1>5, <1>6, <1>7, <1>8 DEF PathsInv

(* A path that a gateway starts from.                                      *)
LEMMA BootPaths ==
    ASSUME PathTypes
    PROVE  /\ BootData \in Dirs /\ BootVault \in Vaults /\ Anchor \in Dirs
           /\ settings[Anchor] \in Overrides /\ settings[dataPath] \in Overrides
           /\ \A d \in Dirs, c \in Collections : stored[d][c] \in Nat /\ promised[c] \in Nat
<1>1. settings[Anchor] \in Overrides /\ settings[dataPath] \in Overrides
  BY AnchorAssumption DEF PathTypes
<1>2. \A d \in Dirs, c \in Collections : stored[d][c] \in Nat /\ promised[c] \in Nat
  BY DEF PathTypes, Versions
<1>3. QED
  BY <1>1, <1>2, AnchorAssumption DEF BootData, BootVault, Or, Overrides

(* What begins a move.                                                     *)
LEMMA BeginFacts ==
    ASSUME PathTypes, move = NoMove, NEW kind \in {"vault", "data"}, NEW to \in Dirs \union Vaults,
           Begin(kind, kind, to)
    PROVE  /\ move' \in MoveRows /\ move' # NoMove /\ move'.kind = kind /\ move'.key = kind
           /\ move'.to = to /\ move'.at = "begin" /\ move'.had = overrides[kind]
           /\ move'.wroteAnchor = FALSE /\ move'.anchorHad = Unset /\ move'.done = {}
           /\ move'.before = stored[dataPath]
<1> DEFINE row == [kind |-> kind, key |-> kind, to |-> to, at |-> "begin", had |-> overrides[kind],
                   wroteAnchor |-> FALSE, anchorHad |-> Unset, done |-> {},
                   before |-> stored[dataPath]]
<1>1. move' = row
  BY DEF Begin
<1>2. overrides[kind] \in Dirs \union Vaults \union {Unset} /\ stored[dataPath] \in Versions
  BY DEF PathTypes, Overrides
<1>3. row \in MoveRows
  BY <1>2 DEF MoveRows
<1>4. row.at # NoMove.at
  BY DEF NoMove
<1>5. QED
  BY <1>1, <1>3, <1>4

LEMMA MigrateVaultInv ==
    ASSUME PathsInv, NEW to \in Vaults, MigrateVault(to)
    PROVE  PathsInv'
<1> USE DEF PathsInv
<1>1. /\ move = NoMove /\ Begin("vault", "vault", to)
      /\ UNCHANGED <<settings, overrides, dataPath, vault, home, stored, setAside, promised>>
  BY DEF MigrateVault
<1>2. /\ move' \in MoveRows /\ move' # NoMove /\ move'.kind = "vault" /\ move'.key = "vault"
      /\ move'.to = to /\ move'.at = "begin" /\ move'.had = overrides["vault"]
      /\ move'.wroteAnchor = FALSE /\ move'.done = {}
  BY <1>1, BeginFacts
<1>3. ~VaultMove /\ ~DataMove /\ VaultMove' /\ ~DataMove' /\ ~InForce /\ ~InForce'
  BY <1>1, <1>2 DEF VaultMove, DataMove, InForce, NoMove
<1>4. PathTypes'
  BY <1>1, <1>2 DEF PathTypes
<1>5. MoveSound'
  <2>1. overrides["vault"] \in Vaults \union {Unset}
    BY DEF PathTypes, Overrides
  <2>2. QED
    BY <1>1, <1>2, <1>3, <2>1 DEF MoveSound
<1>6. OverridesKept'
  BY <1>1, <1>2, <1>3 DEF OverridesKept
<1>7. VaultSound'
  <2>1. dataPath = Anchor => Or(overrides["vault"], FirstVault) = vault
    BY <1>3 DEF OverridesKept, VaultSound, BootVault
  <2>2. BootVault' = vault'
    BY <1>1, <1>3 DEF VaultSound, BootVault
  <2>3. \A a \in Owners : home'[a] = vault'
    BY <1>1, <1>3 DEF VaultSound
  <2>4. QED
    BY <1>1, <1>2, <1>3, <2>1, <2>2, <2>3 DEF VaultSound
<1>8. DataSound'
  BY <1>1, <1>3 DEF DataSound, Whole, BootData
<1>9. QED
  BY <1>4, <1>5, <1>6, <1>7, <1>8

LEMMA MigrateDataInv ==
    ASSUME PathsInv, NEW to \in Dirs, MigrateData(to)
    PROVE  PathsInv'
<1> USE DEF PathsInv
<1>1. /\ move = NoMove /\ Begin("data", "data", to) /\ to \in Dirs \ {Anchor, dataPath, BootData}
      /\ UNCHANGED <<settings, overrides, dataPath, vault, home, stored, setAside, promised>>
  BY DEF MigrateData, Targets
<1>2. /\ move' \in MoveRows /\ move' # NoMove /\ move'.kind = "data" /\ move'.key = "data"
      /\ move'.to = to /\ move'.at = "begin" /\ move'.had = overrides["data"]
      /\ move'.wroteAnchor = FALSE /\ move'.anchorHad = Unset /\ move'.done = {}
      /\ move'.before = stored[dataPath]
  BY <1>1, BeginFacts
<1>3. ~VaultMove /\ ~DataMove /\ ~VaultMove' /\ DataMove' /\ ~InForce /\ ~InForce'
  BY <1>1, <1>2 DEF VaultMove, DataMove, InForce, NoMove
<1>4. PathTypes'
  BY <1>1, <1>2 DEF PathTypes
<1>5. MoveSound'
  <2>1. overrides["data"] \in Dirs \union {Unset}
    BY DEF PathTypes, Overrides
  <2>2. QED
    BY <1>1, <1>2, <1>3, <2>1 DEF MoveSound
<1>6. OverridesKept'
  BY <1>1, <1>2, <1>3 DEF OverridesKept
<1>7. VaultSound'
  BY <1>1, <1>3 DEF VaultSound, BootVault
<1>8. DataSound'
  <2>1. BootData' = BootData
    BY <1>1 DEF BootData
  <2>2. Former' = BootData
    <3>1. dataPath = Anchor => overrides["data"] = settings[Anchor].data
      BY <1>3 DEF OverridesKept
    <3>2. QED
      BY <1>1, <1>2, <2>1, <3>1 DEF Former, BootData
  <2>3. \A d : Whole(d)' <=> Whole(d)
    BY <1>1 DEF Whole
  <2>4. \A c \in Collections : /\ promised'[c] = promised[c]
                               /\ stored'[dataPath'][c] = stored[dataPath][c]
                               /\ move'.before[c] = stored[dataPath][c]
                               /\ stored[dataPath][c] \in Nat
    BY <1>1, <1>2, BootPaths DEF PathTypes
  <2>5. \A c \in Collections : c \notin move'.done
    BY <1>2
  <2>6. QED
    BY <1>1, <1>2, <1>3, <2>1, <2>2, <2>3, <2>4, <2>5 DEF DataSound
<1>9. QED
  BY <1>4, <1>5, <1>6, <1>7, <1>8

(* A move goes one step further.                                           *)
LEMMA EnterFacts ==
    ASSUME PathTypes, move # NoMove, NEW at \in {"copy", "flush", "anchor"}, Enter(at)
    PROVE  /\ move' \in MoveRows /\ move' # NoMove /\ move'.at = at
           /\ move'.kind = move.kind /\ move'.key = move.key /\ move'.to = move.to
           /\ move'.had = move.had /\ move'.wroteAnchor = move.wroteAnchor
           /\ move'.anchorHad = move.anchorHad /\ move'.done = move.done
           /\ move'.before = move.before
<1>1. move \in MoveRows
  BY DEF PathTypes
<1>2. move' = [move EXCEPT !.at = at]
  BY DEF Enter
<1>3. /\ move' \in MoveRows /\ move'.at = at
      /\ move'.kind = move.kind /\ move'.key = move.key /\ move'.to = move.to
      /\ move'.had = move.had /\ move'.wroteAnchor = move.wroteAnchor
      /\ move'.anchorHad = move.anchorHad /\ move'.done = move.done
      /\ move'.before = move.before
  BY <1>1, <1>2 DEF MoveRows
<1>4. move' # NoMove
  BY <1>3 DEF NoMove
<1>5. QED
  BY <1>3, <1>4

LEMMA DoneFacts ==
    ASSUME PathTypes, move # NoMove, NEW x \in Owners \union Collections \union {"settings"},
           move' = [move EXCEPT !.done = @ \union {x}]
    PROVE  /\ move' \in MoveRows /\ move' # NoMove /\ move'.done = move.done \union {x}
           /\ move'.kind = move.kind /\ move'.key = move.key /\ move'.to = move.to
           /\ move'.had = move.had /\ move'.wroteAnchor = move.wroteAnchor
           /\ move'.anchorHad = move.anchorHad /\ move'.at = move.at
           /\ move'.before = move.before
<1>1. move \in MoveRows
  BY DEF PathTypes
<1>2. PICK done \in SUBSET (Owners \union Collections \union {"settings"}) :
          done = move.done \union {x}
  BY <1>1 DEF MoveRows
<1>3. move' = [move EXCEPT !.done = done]
  BY <1>2
<1>4. /\ move' \in MoveRows /\ move'.at = move.at
      /\ move'.kind = move.kind /\ move'.key = move.key /\ move'.to = move.to
      /\ move'.had = move.had /\ move'.wroteAnchor = move.wroteAnchor
      /\ move'.anchorHad = move.anchorHad /\ move'.done = done
      /\ move'.before = move.before
  BY <1>1, <1>3 DEF MoveRows
<1>5. move' # NoMove
  <2>1. move.at \in {"begin", "copy", "flush", "anchor", "finish"}
    BY <1>1 DEF MoveRows
  <2>2. QED
    BY <1>4, <2>1 DEF NoMove
<1>6. QED
  BY <1>2, <1>4, <1>5

(* The directories of the Agents move one by one.                          *)
LEMMA MoveAgentInv ==
    ASSUME PathsInv, NEW a \in Owners, MoveAgent(a)
    PROVE  PathsInv'
<1> USE DEF PathsInv
<1>1. /\ move.at = "begin" /\ move.kind = "vault" /\ a \notin move.done
      /\ home' = [home EXCEPT ![a] = move.to]
      /\ move' = [move EXCEPT !.done = @ \union {a}]
      /\ UNCHANGED <<settings, overrides, dataPath, vault, stored, setAside, promised>>
  BY DEF MoveAgent
<1>2. move # NoMove
  BY <1>1 DEF NoMove
<1>3. /\ move' \in MoveRows /\ move' # NoMove /\ move'.done = move.done \union {a}
      /\ move'.kind = move.kind /\ move'.key = move.key /\ move'.to = move.to
      /\ move'.had = move.had /\ move'.wroteAnchor = move.wroteAnchor
      /\ move'.anchorHad = move.anchorHad /\ move'.at = move.at
  BY <1>1, <1>2, DoneFacts
<1>4. VaultMove /\ ~DataMove /\ VaultMove' /\ ~DataMove' /\ ~InForce /\ ~InForce'
  BY <1>1, <1>2, <1>3 DEF VaultMove, DataMove, InForce
<1>5. PathTypes'
  BY <1>1, <1>3, <1>4 DEF PathTypes, MoveSound
<1>6. MoveSound'
  BY <1>1, <1>3, <1>4 DEF MoveSound, VaultMove
<1>7. OverridesKept'
  BY <1>1, <1>3, <1>4 DEF OverridesKept
<1>8. VaultSound'
  <2>1. BootVault' = vault'
    BY <1>1, <1>4 DEF VaultSound, BootVault
  <2>2. \A b \in Owners : home'[b] = IF b \in move'.done THEN move'.to ELSE vault'
    BY <1>1, <1>3, <1>4 DEF VaultSound, PathTypes
  <2>3. QED
    BY <1>1, <1>3, <1>4, <2>1, <2>2 DEF VaultSound
<1>9. DataSound'
  BY <1>1, <1>4 DEF DataSound, Whole, BootData
<1>10. QED
  BY <1>5, <1>6, <1>7, <1>8, <1>9

LEMMA MovedAllInv ==
    ASSUME PathsInv, MovedAll
    PROVE  PathsInv'
<1> USE DEF PathsInv
<1>1. /\ move.at = "begin" /\ move.kind = "vault" /\ \A a \in Owners : home[a] = move.to
      /\ overrides' = [overrides EXCEPT !["vault"] = move.to] /\ Enter("flush")
      /\ UNCHANGED <<settings, dataPath, vault, home, stored, setAside, promised>>
  BY DEF MovedAll, Override
<1>2. move # NoMove
  BY <1>1 DEF NoMove
<1>3. /\ move' \in MoveRows /\ move' # NoMove /\ move'.done = move.done
      /\ move'.kind = move.kind /\ move'.key = move.key /\ move'.to = move.to
      /\ move'.had = move.had /\ move'.wroteAnchor = move.wroteAnchor
      /\ move'.anchorHad = move.anchorHad /\ move'.at = "flush"
  BY <1>1, <1>2, EnterFacts
<1>4. VaultMove /\ ~DataMove /\ VaultMove' /\ ~DataMove' /\ ~InForce /\ ~InForce'
  BY <1>1, <1>2, <1>3 DEF VaultMove, DataMove, InForce
<1>5. move.to \in Vaults
  BY <1>4 DEF MoveSound
<1>6. overrides' \in Overrides /\ overrides'.vault = move.to /\ overrides'.data = overrides.data
  BY <1>1, <1>5 DEF PathTypes, Overrides
<1>7. PathTypes'
  BY <1>1, <1>3, <1>6 DEF PathTypes
<1>8. MoveSound'
  BY <1>1, <1>3, <1>4 DEF MoveSound, VaultMove
<1>9. OverridesKept'
  BY <1>1, <1>3, <1>4, <1>6 DEF OverridesKept
<1>10. VaultSound'
  BY <1>1, <1>3, <1>4 DEF VaultSound, BootVault
<1>11. DataSound'
  BY <1>1, <1>4 DEF DataSound, Whole, BootData
<1>12. QED
  BY <1>7, <1>8, <1>9, <1>10, <1>11

(* A step of a migration of the data that leaves alone what a gateway      *)
(* starts with: only the target changes.                                   *)
LEMMA TargetInv ==
    ASSUME PathsInv, DataMove, PathTypes', DataMove', move.at \in {"begin", "copy"},
           move'.at \in {"copy", "flush"}, move'.wroteAnchor = FALSE, move'.key = move.key,
           move'.to = move.to, move'.had = move.had, move'.anchorHad = move.anchorHad,
           move'.before = move.before,
           \A d \in Dirs \ {move.to} : settings'[d] = settings[d] /\ stored'[d] = stored[d],
           UNCHANGED <<dataPath, vault, home, promised>>,
           overrides'.vault = overrides.vault,
           overrides'.data = IF move'.at = "flush" THEN move.to ELSE overrides.data,
           \A c \in Collections : c \in move'.done \/ move'.at = "flush" =>
               stored'[move.to][c] > 0 /\ stored'[move.to][c] >= move.before[c]
    PROVE  PathsInv'
<1> USE DEF PathsInv
<1>1. ~VaultMove /\ ~VaultMove' /\ ~InForce /\ ~InForce'
  BY DEF VaultMove, DataMove, InForce
<1>2. /\ move.to \in Dirs /\ move.to # Anchor /\ move.to # dataPath /\ BootData # move.to
      /\ Former # move.to /\ move.wroteAnchor = FALSE
  BY <1>1 DEF MoveSound, DataSound, DataMove
<1>3. /\ Anchor \in Dirs /\ dataPath \in Dirs /\ BootData \in Dirs /\ Former \in Dirs
      /\ settings'[Anchor] = settings[Anchor] /\ settings'[dataPath'] = settings[dataPath]
  <2>1. move.had \in Dirs \union {Unset} /\ move.anchorHad \in Dirs \union {Unset}
    BY DEF MoveSound
  <2>2. QED
    BY <1>2, <2>1, BootPaths DEF PathTypes, Former, Or
<1>4. BootData' = BootData /\ BootVault' = BootVault
  BY <1>3 DEF BootData, BootVault
<1>5. Former' = Former
  BY <1>4 DEF Former
<1>6. \A d \in Dirs \ {move.to} : Whole(d) => Whole(d)'
  BY DEF Whole
<1>7. MoveSound'
  <2>1. move' # NoMove /\ move'.at # "finish"
    BY DEF DataMove
  <2>2. (move.key = "data" /\ move.to \in Dirs \ {Anchor, dataPath} /\ move.had \in Dirs \union {Unset}
         /\ move.anchorHad \in Dirs \union {Unset})
    BY DEF MoveSound
  <2>3. QED
    BY <1>1, <2>1, <2>2 DEF MoveSound
<1>8. OverridesKept'
  BY <1>1, <1>3 DEF OverridesKept
<1>9. VaultSound'
  BY <1>1, <1>4 DEF VaultSound
<1>10. DataSound'
  <2>1. Whole(dataPath)' /\ Whole(BootData)' /\ Whole(Former)'
    <3>1. Whole(dataPath) /\ Whole(BootData) /\ Whole(Former)
      BY DEF DataSound
    <3>2. PICK d \in Dirs \ {move.to}, b \in Dirs \ {move.to}, f \in Dirs \ {move.to} :
              d = dataPath /\ b = BootData /\ f = Former
      BY <1>2, <1>3
    <3>3. Whole(d)' /\ Whole(b)' /\ Whole(f)'
      BY <1>6, <3>1, <3>2
    <3>4. d = dataPath' /\ b = BootData' /\ f = Former'
      BY <1>4, <1>5, <3>2
    <3>5. QED
      BY <3>3, <3>4 DEF Whole
  <2>2. stored'[dataPath'] = stored[dataPath]
    BY <1>2, <1>3
  <2>3. QED
    BY <1>1, <1>2, <1>4, <1>5, <2>1, <2>2 DEF DataSound
<1>11. QED
  BY <1>7, <1>8, <1>9, <1>10

LEMMA SameOverrides ==
    ASSUME NEW r \in Overrides, NEW s \in Overrides, r.vault = s.vault, r.data = s.data
    PROVE  r = s
BY DEF Overrides

LEMMA BackUpInv ==
    ASSUME PathsInv, BackUp
    PROVE  PathsInv'
<1> USE DEF PathsInv
<1>1. /\ move.at = "begin" /\ move.kind = "data"
      /\ settings' = [settings EXCEPT ![dataPath] = overrides, ![move.to] = NoOverrides]
      /\ setAside' = IF stored[move.to] = Empty THEN [held |-> FALSE]
                     ELSE [held |-> TRUE, store |-> stored[move.to], settings |-> settings[move.to]]
      /\ stored' = [stored EXCEPT ![move.to] = Empty] /\ Enter("copy")
      /\ UNCHANGED <<overrides, dataPath, vault, home, promised>>
  BY DEF BackUp
<1>2. move # NoMove
  BY <1>1 DEF NoMove
<1>3. /\ move' \in MoveRows /\ move' # NoMove /\ move'.done = move.done
      /\ move'.kind = move.kind /\ move'.key = move.key /\ move'.to = move.to
      /\ move'.had = move.had /\ move'.wroteAnchor = move.wroteAnchor
      /\ move'.anchorHad = move.anchorHad /\ move'.at = "copy" /\ move'.before = move.before
  BY <1>1, <1>2, EnterFacts
<1>4. DataMove /\ DataMove' /\ ~VaultMove
  BY <1>1, <1>2, <1>3 DEF DataMove, VaultMove
<1>5. /\ move.to \in Dirs /\ move.to # dataPath /\ dataPath \in Dirs /\ overrides \in Overrides
      /\ move.wroteAnchor = FALSE /\ move.done = {}
  <2>1. move.to \in Dirs /\ move.to # dataPath /\ move.wroteAnchor = FALSE
    BY <1>1, <1>2, <1>4 DEF MoveSound
  <2>2. move.done = {}
    BY <1>1, <1>4 DEF DataSound
  <2>3. QED
    BY <2>1, <2>2 DEF PathTypes
<1>6. settings[dataPath] = overrides
  <2>1. overrides.vault = settings[dataPath].vault /\ overrides.data = settings[dataPath].data
    BY <1>1, <1>4 DEF OverridesKept
  <2>2. QED
    BY <2>1, BootPaths, SameOverrides, <1>5
<1>7. \A d \in Dirs \ {move.to} : settings'[d] = settings[d] /\ stored'[d] = stored[d]
  BY <1>1, <1>5, <1>6 DEF PathTypes
<1>8. PathTypes'
  <2>1. NoOverrides \in Overrides /\ Empty \in Versions
    BY DEF NoOverrides, Overrides, Empty, Versions
  <2>2. settings' \in [Dirs -> Overrides] /\ stored' \in [Dirs -> Versions]
    BY <1>1, <1>5, <2>1 DEF PathTypes
  <2>3. setAside' \in Asides
    <3>1. stored[move.to] \in Versions /\ settings[move.to] \in Overrides
      BY <1>5 DEF PathTypes
    <3>2. QED
      BY <1>1, <3>1 DEF Asides
  <2>4. QED
    BY <1>1, <1>3, <2>2, <2>3 DEF PathTypes
<1>9. \A c \in Collections : c \notin move'.done /\ move'.at # "flush"
  BY <1>3, <1>5
<1>10. QED
  BY <1>1, <1>3, <1>4, <1>5, <1>7, <1>8, <1>9, TargetInv

LEMMA CopyCollectionInv ==
    ASSUME PathsInv, NEW c \in Collections, CopyCollection(c)
    PROVE  PathsInv'
<1> USE DEF PathsInv
<1>1. /\ move.at = "copy"
      /\ stored' = [stored EXCEPT ![move.to][c] = stored[dataPath][c]]
      /\ move' = [move EXCEPT !.done = @ \union {c}]
      /\ UNCHANGED <<settings, overrides, dataPath, vault, home, setAside, promised>>
  BY DEF CopyCollection
<1>2. move # NoMove
  BY <1>1 DEF NoMove
<1>3. /\ move' \in MoveRows /\ move' # NoMove /\ move'.done = move.done \union {c}
      /\ move'.kind = move.kind /\ move'.key = move.key /\ move'.to = move.to
      /\ move'.had = move.had /\ move'.wroteAnchor = move.wroteAnchor
      /\ move'.anchorHad = move.anchorHad /\ move'.at = "copy" /\ move'.before = move.before
  BY <1>1, <1>2, DoneFacts
<1>4. move.kind = "data"
  <2>1. move.kind \in {"vault", "data"}
    BY <1>2 DEF PathTypes, MoveRows
  <2>2. QED
    BY <1>1, <1>2, <2>1 DEF MoveSound, VaultMove
<1>5. DataMove /\ DataMove' /\ ~VaultMove
  BY <1>2, <1>3, <1>4 DEF DataMove, VaultMove
<1>6. /\ move.to \in Dirs /\ move.to # dataPath /\ dataPath \in Dirs /\ move.wroteAnchor = FALSE
      /\ stored[dataPath][c] \in Nat /\ stored[dataPath][c] > 0 /\ stored[dataPath][c] >= move.before[c]
  BY <1>1, <1>5, BootPaths DEF MoveSound, DataSound, PathTypes, Whole, DataMove
<1>7. PICK n \in Nat : n = stored[dataPath][c]
  BY <1>6
<1>8. PICK row \in Versions : row = [stored[move.to] EXCEPT ![c] = n]
  <2>1. stored[move.to] \in Versions
    BY <1>6 DEF PathTypes
  <2>2. [stored[move.to] EXCEPT ![c] = n] \in Versions
    BY <2>1 DEF Versions
  <2>3. QED
    BY <2>2
<1>9. stored' = [stored EXCEPT ![move.to] = row]
  BY <1>1, <1>7, <1>8
<1>10. stored' \in [Dirs -> Versions] /\ stored'[move.to] = row
  BY <1>6, <1>9 DEF PathTypes
<1>11. PathTypes'
  BY <1>1, <1>3, <1>10 DEF PathTypes
<1>12. \A d \in Dirs \ {move.to} : settings'[d] = settings[d] /\ stored'[d] = stored[d]
  BY <1>1, <1>6, <1>9 DEF PathTypes
<1>13. \A d \in Collections : d \in move'.done \/ move'.at = "flush" =>
               stored'[move.to][d] > 0 /\ stored'[move.to][d] >= move.before[d]
  <2>1. stored[move.to] \in Versions
    BY <1>6 DEF PathTypes
  <2>2. \A d \in Collections : row[d] = IF d = c THEN n ELSE stored[move.to][d]
    BY <1>8, <2>1 DEF Versions
  <2>3. \A d \in Collections : d \in move.done =>
               stored[move.to][d] > 0 /\ stored[move.to][d] >= move.before[d]
    BY <1>5 DEF DataSound
  <2>4. QED
    BY <1>3, <1>6, <1>7, <1>10, <2>2, <2>3
<1>14. QED
  BY <1>1, <1>3, <1>5, <1>6, <1>11, <1>12, <1>13, TargetInv

LEMMA CopySettingsInv ==
    ASSUME PathsInv, CopySettings
    PROVE  PathsInv'
<1> USE DEF PathsInv
<1>1. /\ move.at = "copy"
      /\ settings' = [settings EXCEPT ![move.to] = settings[dataPath]]
      /\ move' = [move EXCEPT !.done = @ \union {"settings"}]
      /\ UNCHANGED <<overrides, dataPath, vault, home, stored, setAside, promised>>
  BY DEF CopySettings
<1>2. move # NoMove
  BY <1>1 DEF NoMove
<1>3. /\ move' \in MoveRows /\ move' # NoMove /\ move'.done = move.done \union {"settings"}
      /\ move'.kind = move.kind /\ move'.key = move.key /\ move'.to = move.to
      /\ move'.had = move.had /\ move'.wroteAnchor = move.wroteAnchor
      /\ move'.anchorHad = move.anchorHad /\ move'.at = "copy" /\ move'.before = move.before
  BY <1>1, <1>2, DoneFacts
<1>4. move.kind = "data"
  <2>1. move.kind \in {"vault", "data"}
    BY <1>2 DEF PathTypes, MoveRows
  <2>2. QED
    BY <1>1, <1>2, <2>1 DEF MoveSound, VaultMove
<1>5. DataMove /\ DataMove' /\ ~VaultMove
  BY <1>2, <1>3, <1>4 DEF DataMove, VaultMove
<1>6. move.to \in Dirs /\ move.to # dataPath /\ dataPath \in Dirs /\ move.wroteAnchor = FALSE
  BY <1>1, <1>5 DEF MoveSound, PathTypes, DataMove
<1>7. PathTypes'
  BY <1>1, <1>3, <1>6, BootPaths DEF PathTypes
<1>8. \A d \in Dirs \ {move.to} : settings'[d] = settings[d] /\ stored'[d] = stored[d]
  BY <1>1, <1>6 DEF PathTypes
<1>9. \A d \in Collections : d \in move'.done \/ move'.at = "flush" =>
               stored'[move.to][d] > 0 /\ stored'[move.to][d] >= move.before[d]
  <2>1. \A d \in Collections : d \in move.done =>
               stored[move.to][d] > 0 /\ stored[move.to][d] >= move.before[d]
    BY <1>5 DEF DataSound
  <2>2. \A d \in Collections : d # "settings"
    BY AnchorAssumption
  <2>3. QED
    BY <1>1, <1>3, <2>1, <2>2
<1>10. QED
  BY <1>1, <1>3, <1>5, <1>6, <1>7, <1>8, <1>9, TargetInv

LEMMA ValidateCopyInv ==
    ASSUME PathsInv, ValidateCopy
    PROVE  PathsInv'
<1> USE DEF PathsInv
<1>1. /\ move.at = "copy" /\ move.done = Collections \union {"settings"}
      /\ overrides' = [overrides EXCEPT !["data"] = move.to] /\ Enter("flush")
      /\ UNCHANGED <<settings, dataPath, vault, home, stored, setAside, promised>>
  BY DEF ValidateCopy, Override, Copied
<1>2. move # NoMove
  BY <1>1 DEF NoMove
<1>3. /\ move' \in MoveRows /\ move' # NoMove /\ move'.done = move.done
      /\ move'.kind = move.kind /\ move'.key = move.key /\ move'.to = move.to
      /\ move'.had = move.had /\ move'.wroteAnchor = move.wroteAnchor
      /\ move'.anchorHad = move.anchorHad /\ move'.at = "flush" /\ move'.before = move.before
  BY <1>1, <1>2, EnterFacts
<1>4. move.kind = "data"
  <2>1. move.kind \in {"vault", "data"}
    BY <1>2 DEF PathTypes, MoveRows
  <2>2. QED
    BY <1>1, <1>2, <2>1 DEF MoveSound, VaultMove
<1>5. DataMove /\ DataMove' /\ ~VaultMove
  BY <1>2, <1>3, <1>4 DEF DataMove, VaultMove
<1>6. move.to \in Dirs /\ move.wroteAnchor = FALSE
  BY <1>1, <1>5 DEF MoveSound, DataMove
<1>7. overrides' \in Overrides /\ overrides'.data = move.to /\ overrides'.vault = overrides.vault
  BY <1>1, <1>6 DEF PathTypes, Overrides
<1>8. PathTypes'
  BY <1>1, <1>3, <1>7 DEF PathTypes
<1>9. \A c \in Collections : stored[move.to][c] > 0 /\ stored[move.to][c] >= move.before[c]
  BY <1>1, <1>5 DEF DataSound
<1>10. QED
  BY <1>1, <1>3, <1>5, <1>6, <1>7, <1>8, <1>9, TargetInv

(* The override reaches the settings of the directory in use, which are    *)
(* in force when that directory is the anchor.                             *)
LEMMA FlushOverrideInv ==
    ASSUME PathsInv, FlushOverride
    PROVE  PathsInv'
<1> USE DEF PathsInv
<1>1. /\ move.at = "flush" /\ settings' = [settings EXCEPT ![dataPath] = overrides] /\ Enter("anchor")
      /\ UNCHANGED <<overrides, dataPath, vault, home, stored, setAside, promised>>
  BY DEF FlushOverride, Flushed
<1>2. move # NoMove
  BY <1>1 DEF NoMove
<1>3. /\ move' \in MoveRows /\ move' # NoMove /\ move'.done = move.done
      /\ move'.kind = move.kind /\ move'.key = move.key /\ move'.to = move.to
      /\ move'.had = move.had /\ move'.wroteAnchor = move.wroteAnchor
      /\ move'.anchorHad = move.anchorHad /\ move'.at = "anchor" /\ move'.before = move.before
  BY <1>1, <1>2, EnterFacts
<1>4. (VaultMove' <=> VaultMove) /\ (DataMove' <=> DataMove) /\ ~InForce /\ (InForce' <=> dataPath = Anchor)
  BY <1>1, <1>2, <1>3 DEF VaultMove, DataMove, InForce
<1>5. /\ settings'[dataPath] = overrides /\ overrides \in Overrides
      /\ dataPath # Anchor => settings'[Anchor] = settings[Anchor]
      /\ \A d \in Dirs \ {dataPath} : settings'[d] = settings[d]
  BY <1>1, AnchorAssumption DEF PathTypes
<1>6. PathTypes'
  BY <1>1, <1>3, <1>5 DEF PathTypes
<1>7. MoveSound'
  <2>1. move.wroteAnchor = FALSE
    BY <1>1, <1>2 DEF MoveSound
  <2>2. QED
    BY <1>1, <1>3, <1>4, <2>1 DEF MoveSound
<1>8. OverridesKept'
  BY <1>1, <1>3, <1>5 DEF OverridesKept
<1>9. VaultMove \/ DataMove
  BY <1>2 DEF VaultMove, DataMove, PathTypes, MoveRows
<1>10. CASE VaultMove
  <2>1. ~DataMove /\ ~DataMove' /\ VaultMove' /\ move.to \in Vaults
    BY <1>4, <1>10 DEF VaultMove, DataMove, MoveSound
  <2>2. overrides.vault = move.to /\ overrides.data = settings[dataPath].data
    BY <1>1, <1>10, <2>1 DEF OverridesKept
  <2>3. BootVault' = IF dataPath = Anchor THEN move.to ELSE vault
    <3>1. BootVault = vault
      BY <1>4 DEF VaultSound
    <3>2. QED
      BY <1>1, <1>5, <2>1, <2>2, <3>1, AnchorAssumption DEF BootVault, Or
  <2>4. BootData' = BootData
    BY <1>1, <1>5, <2>2 DEF BootData
  <2>5. VaultSound'
    BY <1>1, <1>3, <1>4, <1>10, <2>1, <2>3 DEF VaultSound
  <2>6. DataSound'
    BY <1>1, <2>1, <2>4 DEF DataSound, Whole
  <2>7. QED
    BY <1>6, <1>7, <1>8, <2>5, <2>6
<1>11. CASE DataMove
  <2>1. ~VaultMove /\ ~VaultMove' /\ DataMove' /\ move.to \in Dirs /\ move.to # dataPath
    BY <1>4, <1>11 DEF VaultMove, DataMove, MoveSound
  <2>2. overrides.data = move.to /\ overrides.vault = settings[dataPath].vault
    BY <1>1, <1>11, <2>1 DEF OverridesKept
  <2>3. BootVault' = BootVault
    BY <1>1, <1>5, <2>2 DEF BootVault
  <2>4. BootData' = IF dataPath = Anchor THEN move.to ELSE BootData
    BY <1>1, <1>5, <2>1, <2>2, AnchorAssumption DEF BootData, Or
  <2>5. Former' = Former /\ BootData # move.to
    <3>1. BootData # move.to
      BY <1>4, <1>11 DEF DataSound
    <3>2. QED
      BY <1>1, <1>3, <2>4, <3>1 DEF Former
  <2>6. Whole(move.to)
    <3>1. \A c \in Collections : /\ stored[move.to][c] > 0 /\ stored[move.to][c] >= move.before[c]
                                 /\ promised[c] <= move.before[c]
      BY <1>1, <1>11 DEF DataSound
    <3>2. \A c \in Collections : stored[move.to][c] \in Nat /\ promised[c] \in Nat /\ move.before[c] \in Nat
      BY <1>2, <2>1, BootPaths DEF PathTypes, MoveRows, Versions
    <3>3. QED
      BY <3>1, <3>2 DEF Whole
  <2>7. \A d : Whole(d) => Whole(d)'
    BY <1>1 DEF Whole
  <2>8. VaultSound'
    BY <1>1, <1>4, <2>1, <2>3 DEF VaultSound
  <2>9. DataSound'
    <3>1. Whole(dataPath)' /\ Whole(Former)' /\ Whole(BootData)'
      <4>1. Whole(dataPath) /\ Whole(Former) /\ Whole(BootData)
        BY <1>11 DEF DataSound
      <4>2. PICK b \in {BootData, move.to} : BootData' = b
        BY <2>4
      <4>3. Whole(b)
        BY <2>6, <4>1, <4>2
      <4>4. QED
        BY <1>1, <2>5, <4>1, <4>2, <4>3 DEF Whole
    <3>2. InForce' <=> BootData' = move.to
      BY <1>4, <2>4, <2>5
    <3>3. QED
      BY <1>1, <1>3, <1>11, <2>5, <3>1, <3>2 DEF DataSound
  <2>10. QED
    BY <1>6, <1>7, <1>8, <2>8, <2>9
<1>12. QED
  BY <1>9, <1>10, <1>11

(* The settings of the anchor name the target.                             *)
LEMMA WriteAnchorInv ==
    ASSUME PathsInv, WriteAnchor
    PROVE  PathsInv'
<1> USE DEF PathsInv
<1>1. /\ move.at = "anchor" /\ AnchorOverride(move.key, move.to)
      /\ move' = [move EXCEPT !.at = "finish", !.wroteAnchor = dataPath # Anchor,
                              !.anchorHad = settings[Anchor][move.key]]
      /\ UNCHANGED <<overrides, dataPath, vault, home, stored, setAside, promised>>
  BY DEF WriteAnchor
<1>2. move # NoMove /\ move \in MoveRows
  BY <1>1 DEF NoMove, PathTypes
<1>3. VaultMove \/ DataMove
  BY <1>2 DEF VaultMove, DataMove, MoveRows
<1>4. /\ settings[Anchor][move.key] \in Dirs \union Vaults \union {Unset}
      /\ DataMove => move.key = "data" /\ settings[Anchor][move.key] = settings[Anchor].data
                     /\ settings[Anchor].data \in Dirs \union {Unset}
  <2>1. settings[Anchor].vault \in Vaults \union {Unset} /\ settings[Anchor].data \in Dirs \union {Unset}
    BY BootPaths DEF Overrides
  <2>2. move.key \in {"vault", "data"} /\ (DataMove => move.key = "data")
    BY <1>2 DEF MoveRows, MoveSound
  <2>3. QED
    BY <2>1, <2>2
<1>5. PICK had \in Dirs \union Vaults \union {Unset}, far \in BOOLEAN :
          had = settings[Anchor][move.key] /\ far = (dataPath # Anchor)
  BY <1>4
<1>6. move' = [move EXCEPT !.at = "finish", !.wroteAnchor = far, !.anchorHad = had]
  BY <1>1, <1>5
<1>7. /\ move' \in MoveRows /\ move'.done = move.done
      /\ move'.kind = move.kind /\ move'.key = move.key /\ move'.to = move.to
      /\ move'.had = move.had /\ move'.wroteAnchor = far
      /\ move'.anchorHad = had /\ move'.at = "finish" /\ move'.before = move.before
  BY <1>2, <1>6 DEF MoveRows
<1>8. move' # NoMove
  BY <1>7 DEF NoMove
<1>9. (VaultMove' <=> VaultMove) /\ (DataMove' <=> DataMove) /\ InForce' /\ (InForce <=> dataPath = Anchor)
  BY <1>1, <1>2, <1>7, <1>8 DEF VaultMove, DataMove, InForce
<1>10. MoveSound'
  BY <1>1, <1>4, <1>5, <1>7, <1>8, <1>9 DEF MoveSound
<1>11. ASSUME VaultMove
       PROVE  PathsInv'
  <2>1. ~DataMove /\ ~DataMove' /\ VaultMove' /\ move.to \in Vaults /\ move.key = "vault"
    BY <1>9, <1>11 DEF VaultMove, DataMove, MoveSound
  <2>2. PICK row \in Overrides : row = [settings[Anchor] EXCEPT !.vault = move.to]
    <3>1. settings[Anchor] \in Overrides
      BY BootPaths
    <3>2. QED
      BY <2>1, <3>1 DEF Overrides
  <2>3. row.vault = move.to /\ row.data = settings[Anchor].data
    BY <2>2, BootPaths DEF Overrides
  <2>4. settings' = IF dataPath = Anchor THEN settings ELSE [settings EXCEPT ![Anchor] = row]
    BY <1>1, <2>1, <2>2 DEF AnchorOverride
  <2>5. /\ settings' \in [Dirs -> Overrides] /\ settings'[dataPath] = settings[dataPath]
        /\ settings'[Anchor] = IF dataPath = Anchor THEN settings[Anchor] ELSE row
    BY <2>4, AnchorAssumption DEF PathTypes
  <2>6. PathTypes'
    BY <1>1, <1>7, <2>5 DEF PathTypes
  <2>7. OverridesKept'
    BY <1>1, <1>7, <1>9, <2>1, <2>5 DEF OverridesKept
  <2>8. BootVault' = move.to /\ BootData' = BootData
    <3>1. dataPath = Anchor => BootVault = move.to
      BY <1>9, <1>11 DEF VaultSound
    <3>2. QED
      BY <2>1, <2>3, <2>5, <3>1, AnchorAssumption DEF BootVault, BootData, Or
  <2>9. VaultSound'
    BY <1>1, <1>7, <1>9, <1>11, <2>1, <2>8 DEF VaultSound
  <2>10. DataSound'
    BY <1>1, <2>1, <2>8 DEF DataSound, Whole
  <2>11. QED
    BY <1>10, <2>6, <2>7, <2>9, <2>10
<1>12. ASSUME DataMove
       PROVE  PathsInv'
  <2>1. ~VaultMove /\ ~VaultMove' /\ DataMove' /\ move.to \in Dirs /\ move.to # dataPath /\ move.key = "data"
    BY <1>9, <1>12 DEF VaultMove, DataMove, MoveSound
  <2>2. PICK row \in Overrides : row = [settings[Anchor] EXCEPT !.data = move.to]
    <3>1. settings[Anchor] \in Overrides
      BY BootPaths
    <3>2. QED
      BY <2>1, <3>1 DEF Overrides
  <2>3. row.data = move.to /\ row.vault = settings[Anchor].vault
    BY <2>2, BootPaths DEF Overrides
  <2>4. settings' = IF dataPath = Anchor THEN settings ELSE [settings EXCEPT ![Anchor] = row]
    BY <1>1, <2>1, <2>2 DEF AnchorOverride
  <2>5. /\ settings' \in [Dirs -> Overrides] /\ settings'[dataPath] = settings[dataPath]
        /\ settings'[Anchor] = IF dataPath = Anchor THEN settings[Anchor] ELSE row
    BY <2>4, AnchorAssumption DEF PathTypes
  <2>6. PathTypes'
    BY <1>1, <1>7, <2>5 DEF PathTypes
  <2>7. OverridesKept'
    BY <1>1, <1>7, <1>9, <2>1, <2>5 DEF OverridesKept
  <2>8. BootData' = move.to /\ BootVault' = BootVault
    <3>1. dataPath = Anchor => BootData = move.to
      BY <1>9, <1>12 DEF DataSound
    <3>2. QED
      BY <2>1, <2>3, <2>5, <3>1, AnchorAssumption DEF BootVault, BootData, Or
  <2>9. VaultSound'
    BY <1>1, <2>1, <2>8 DEF VaultSound
  <2>10. Former' = Former
    BY <1>1, <1>4, <1>5, <1>7, <1>12 DEF Former, BootData
  <2>11. Whole(move.to)
    <3>1. \A c \in Collections : /\ stored[move.to][c] > 0 /\ stored[move.to][c] >= move.before[c]
                                 /\ promised[c] <= move.before[c]
      BY <1>1, <1>12 DEF DataSound
    <3>2. \A c \in Collections : stored[move.to][c] \in Nat /\ promised[c] \in Nat /\ move.before[c] \in Nat
      BY <1>2, <2>1, BootPaths DEF MoveRows, Versions
    <3>3. QED
      BY <3>1, <3>2 DEF Whole
  <2>12. DataSound'
    <3>1. Whole(dataPath)' /\ Whole(Former)' /\ Whole(BootData)'
      <4>1. Whole(dataPath) /\ Whole(Former)
        BY <1>12 DEF DataSound
      <4>2. QED
        BY <1>1, <2>8, <2>10, <2>11, <4>1 DEF Whole
    <3>2. QED
      BY <1>1, <1>7, <1>9, <1>12, <2>8, <2>10, <3>1 DEF DataSound
  <2>13. QED
    BY <1>10, <2>6, <2>7, <2>9, <2>12
<1>13. QED
  BY <1>3, <1>11, <1>12

LEMMA FinishMoveInv ==
    ASSUME PathsInv, FinishMove
    PROVE  PathsInv'
<1> USE DEF PathsInv
<1>1. /\ move.at = "finish" /\ move' = NoMove /\ setAside' = [held |-> FALSE]
      /\ vault' = IF move.kind = "vault" THEN move.to ELSE vault
      /\ promised' = IF move.kind = "data" THEN move.before ELSE promised
      /\ UNCHANGED <<settings, overrides, dataPath, home, stored>>
  BY DEF FinishMove
<1>2. move # NoMove /\ move \in MoveRows /\ ~VaultMove' /\ ~DataMove' /\ InForce
  BY <1>1 DEF NoMove, PathTypes, VaultMove, DataMove, InForce
<1>3. /\ VaultMove <=> move.kind = "vault"
      /\ DataMove <=> move.kind = "data"
      /\ VaultMove \/ DataMove
  BY <1>2 DEF VaultMove, DataMove, MoveRows
<1>4. PathTypes'
  <2>1. setAside' \in Asides /\ promised' \in Versions
    BY <1>1, <1>2 DEF Asides, PathTypes, MoveRows
  <2>2. vault' \in Vaults
    BY <1>1, <1>3 DEF MoveSound, PathTypes
  <2>3. QED
    BY <1>1, <2>1, <2>2 DEF PathTypes
<1>5. MoveSound'
  BY <1>1, <1>2 DEF MoveSound
<1>6. OverridesKept'
  BY <1>1, <1>2 DEF OverridesKept
<1>7. BootVault' = BootVault /\ BootData' = BootData
  BY <1>1 DEF BootVault, BootData
<1>8. VaultSound'
  <2>1. CASE VaultMove
    BY <1>1, <1>2, <1>3, <1>7, <2>1 DEF VaultSound
  <2>2. CASE ~VaultMove
    BY <1>1, <1>2, <1>3, <1>7, <2>2 DEF VaultSound
  <2>3. QED
    BY <2>1, <2>2
<1>9. DataSound'
  <2>1. CASE VaultMove
    <3>1. promised' = promised
      BY <1>1, <1>3, <2>1
    <3>2. QED
      BY <1>1, <1>2, <1>7, <3>1 DEF DataSound, Whole
  <2>2. CASE DataMove
    <3>1. promised' = move.before /\ BootData = move.to
      BY <1>1, <1>2, <1>3, <2>2 DEF DataSound
    <3>2. QED
      BY <1>1, <1>2, <1>7, <2>2, <3>1 DEF DataSound, Whole
  <2>3. QED
    BY <1>3, <2>1, <2>2
<1>10. QED
  BY <1>4, <1>5, <1>6, <1>8, <1>9

(* A move that fails: the memories are back in the vault, and the next     *)
(* gateway starts from the directory it would have started from.           *)
LEMMA MoveFailsInv ==
    ASSUME PathsInv, NEW left \in SUBSET Collections, MoveFails(left)
    PROVE  PathsInv'
<1> USE DEF PathsInv
<1>1. /\ move # NoMove /\ (move.at = "finish" => move.kind = "data") /\ PutBack(move.key, move.had)
      /\ home' = [a \in Owners |-> IF move.kind = "vault" /\ a \in move.done THEN vault ELSE home[a]]
      /\ IF move.kind = "data" THEN RestoreTarget(left) ELSE UNCHANGED stored
      /\ move' = NoMove /\ setAside' = [held |-> FALSE]
      /\ move.at = "finish" => setAside.held
      /\ UNCHANGED <<dataPath, vault, promised>>
  BY DEF MoveFails
<1>2. /\ move \in MoveRows /\ ~VaultMove' /\ ~DataMove'
      /\ VaultMove <=> move.kind = "vault"
      /\ DataMove <=> move.kind = "data"
      /\ VaultMove \/ DataMove
  BY <1>1 DEF PathTypes, VaultMove, DataMove, MoveRows
<1>3. /\ overrides' \in Overrides
      /\ VaultMove => overrides'.vault = move.had /\ overrides'.data = overrides.data
      /\ DataMove => overrides'.data = move.had /\ overrides'.vault = overrides.vault
  <2>1. overrides' = [overrides EXCEPT ![move.key] = move.had]
    BY <1>1 DEF PutBack
  <2>2. CASE VaultMove
    <3>1. move.key = "vault" /\ move.had \in Vaults \union {Unset} /\ ~DataMove
      BY <1>2, <2>2 DEF MoveSound
    <3>2. QED
      BY <2>1, <2>2, <3>1 DEF PathTypes, Overrides
  <2>3. CASE DataMove
    <3>1. move.key = "data" /\ move.had \in Dirs \union {Unset} /\ ~VaultMove
      BY <1>2, <2>3 DEF MoveSound
    <3>2. QED
      BY <2>1, <2>3, <3>1 DEF PathTypes, Overrides
  <2>4. QED
    BY <1>2, <2>2, <2>3
<1>4. settings' = [d \in Dirs |->
          CASE move.kind = "data" /\ d = move.to -> IF setAside.held THEN setAside.settings ELSE NoOverrides
            [] d = dataPath -> overrides'
            [] d = Anchor /\ move.wroteAnchor -> [settings[d] EXCEPT ![move.key] = move.anchorHad]
            [] OTHER -> settings[d]]
  BY <1>1 DEF PutBack
<1>5. DataMove => move.to # dataPath /\ move.to # Anchor /\ move.to \in Dirs
  BY DEF MoveSound
<1>6. dataPath \in Dirs /\ Anchor \in Dirs
  BY AnchorAssumption DEF PathTypes
<1>7. /\ move.wroteAnchor <=> move.at = "finish" /\ dataPath # Anchor
      /\ move.wroteAnchor => DataMove
  BY <1>1, <1>2 DEF MoveSound
<1>8. ASSUME NEW d \in Dirs
      PROVE  /\ DataMove /\ d = move.to => settings'[d] = IF setAside.held THEN setAside.settings ELSE NoOverrides
             /\ d = dataPath => settings'[d] = overrides'
             /\ ~(DataMove /\ d = move.to) /\ d # dataPath /\ d = Anchor /\ move.wroteAnchor
                => settings'[d] = [settings[d] EXCEPT ![move.key] = move.anchorHad]
             /\ ~(DataMove /\ d = move.to) /\ d # dataPath /\ ~(d = Anchor /\ move.wroteAnchor)
                => settings'[d] = settings[d]
  <2>1. settings'[d] =
          CASE move.kind = "data" /\ d = move.to -> IF setAside.held THEN setAside.settings ELSE NoOverrides
            [] d = dataPath -> overrides'
            [] d = Anchor /\ move.wroteAnchor -> [settings[d] EXCEPT ![move.key] = move.anchorHad]
            [] OTHER -> settings[d]
    BY <1>4
  <2>2. CASE DataMove /\ d = move.to
    BY <1>2, <1>5, <2>1, <2>2
  <2>3. CASE ~(DataMove /\ d = move.to) /\ d = dataPath
    BY <1>2, <1>7, <2>1, <2>3
  <2>4. CASE ~(DataMove /\ d = move.to) /\ d # dataPath
    BY <1>2, <2>1, <2>4
  <2>5. QED
    BY <2>2, <2>3, <2>4
<1>9. \A d \in Dirs : settings'[d] \in Overrides
  <2>1. NoOverrides \in Overrides /\ (setAside.held => setAside.settings \in Overrides)
    BY DEF NoOverrides, Overrides, PathTypes, Asides
  <2>2. move.wroteAnchor => [settings[Anchor] EXCEPT ![move.key] = move.anchorHad] \in Overrides
    <3>1. move.wroteAnchor => move.key = "data" /\ move.anchorHad \in Dirs \union {Unset}
      BY <1>7 DEF MoveSound
    <3>2. settings[Anchor] \in Overrides
      BY BootPaths
    <3>3. QED
      BY <3>1, <3>2 DEF Overrides
  <2>3. \A d \in Dirs : settings[d] \in Overrides
    BY DEF PathTypes
  <2>4. TAKE d \in Dirs
  <2>5. CASE move.kind = "data" /\ d = move.to
    BY <1>2, <1>8, <2>1, <2>5
  <2>6. CASE ~(move.kind = "data" /\ d = move.to) /\ d = dataPath
    BY <1>3, <1>8, <2>6
  <2>7. CASE ~(move.kind = "data" /\ d = move.to) /\ d # dataPath /\ d = Anchor /\ move.wroteAnchor
    BY <1>2, <1>8, <2>2, <2>7
  <2>8. CASE /\ ~(move.kind = "data" /\ d = move.to) /\ d # dataPath
             /\ ~(d = Anchor /\ move.wroteAnchor)
    BY <1>2, <1>8, <2>3, <2>8
  <2>9. QED
    BY <2>5, <2>6, <2>7, <2>8
<1>10. /\ stored' \in [Dirs -> Versions]
       /\ \A d \in Dirs : ~(DataMove /\ d = move.to) => stored'[d] = stored[d]
  <2>1. CASE VaultMove
    BY <1>1, <1>2, <2>1 DEF PathTypes
  <2>2. CASE DataMove
    <3>1. PICK row : row = [c \in Collections |-> IF setAside.held /\ c \in left THEN setAside.store[c] ELSE 0]
      OBVIOUS
    <3>2. setAside.held => setAside.store \in Versions
      BY DEF PathTypes, Asides
    <3>3. row \in Versions
      BY <3>1, <3>2 DEF Versions
    <3>4. stored' = [stored EXCEPT ![move.to] = row]
      BY <1>1, <1>2, <2>2, <3>1 DEF RestoreTarget
    <3>5. QED
      BY <1>5, <2>2, <3>3, <3>4 DEF PathTypes
  <2>3. QED
    BY <1>2, <2>1, <2>2
<1>11. PathTypes'
  <2>1. settings' \in [Dirs -> Overrides]
    BY <1>4, <1>9
  <2>2. home' \in [Owners -> Vaults] /\ setAside' \in Asides
    BY <1>1 DEF PathTypes, Asides
  <2>3. QED
    BY <1>1, <1>3, <1>10, <2>1, <2>2 DEF PathTypes
<1>12. MoveSound'
  BY <1>1, <1>2 DEF MoveSound
<1>13. /\ settings'[dataPath] = overrides'
       /\ dataPath # Anchor /\ ~move.wroteAnchor => settings'[Anchor] = settings[Anchor]
       /\ move.wroteAnchor => settings'[Anchor] = [settings[Anchor] EXCEPT ![move.key] = move.anchorHad]
  BY <1>5, <1>6, <1>7, <1>8
<1>14. OverridesKept'
  BY <1>1, <1>2, <1>13 DEF OverridesKept
<1>15. ASSUME VaultMove
       PROVE  VaultSound' /\ DataSound'
  <2>1. ~DataMove /\ ~move.wroteAnchor /\ (dataPath # Anchor => ~InForce)
    <3>1. move.kind = "vault" /\ ~DataMove
      BY <1>2, <1>15 DEF VaultMove, DataMove
    <3>2. QED
      BY <1>1, <1>7, <3>1 DEF InForce
  <2>2. overrides.data = settings[dataPath].data
    BY <2>1 DEF OverridesKept
  <2>3. BootData' = BootData
    BY <1>1, <1>3, <1>13, <1>15, <2>1, <2>2 DEF BootData
  <2>4. BootVault' = vault'
    BY <1>1, <1>3, <1>13, <1>15, <2>1 DEF BootVault, VaultSound
  <2>5. \A a \in Owners : home'[a] = vault'
    BY <1>1, <1>2, <1>15 DEF VaultSound
  <2>6. stored' = stored
    BY <1>1, <1>2, <2>1
  <2>7. QED
    BY <1>1, <1>2, <2>1, <2>3, <2>4, <2>5, <2>6 DEF VaultSound, DataSound, Whole
<1>16. ASSUME DataMove
       PROVE  VaultSound' /\ DataSound'
  <2>1. ~VaultMove
    BY <1>2, <1>16 DEF VaultMove, DataMove
  <2>2. overrides.vault = settings[dataPath].vault
    BY <2>1 DEF OverridesKept
  <2>3. BootData' = Former /\ BootVault' = BootVault
    <3>1. CASE dataPath = Anchor
      BY <1>1, <1>3, <1>13, <1>16, <2>2, <3>1 DEF BootData, BootVault, Former
    <3>2. CASE dataPath # Anchor /\ move.at # "finish"
      BY <1>1, <1>13, <1>7, <3>2 DEF BootData, BootVault, Former
    <3>3. CASE dataPath # Anchor /\ move.at = "finish"
      <4>1. settings'[Anchor] = [settings[Anchor] EXCEPT ![move.key] = move.anchorHad]
        BY <1>7, <1>13, <3>3
      <4>2. move.key = "data"
        BY <1>16 DEF MoveSound
      <4>3. settings'[Anchor].data = move.anchorHad /\ settings'[Anchor].vault = settings[Anchor].vault
        BY <4>1, <4>2, BootPaths DEF Overrides
      <4>4. QED
        BY <1>1, <3>3, <4>3 DEF BootData, BootVault, Former
    <3>4. QED
      BY <3>1, <3>2, <3>3
  <2>4. Former \in Dirs
    <3>1. move.had \in Dirs \union {Unset} /\ move.anchorHad \in Dirs \union {Unset}
      BY <1>16 DEF MoveSound
    <3>2. QED
      BY <3>1, BootPaths DEF Former, Or
  <2>5. Former # move.to /\ Whole(Former) /\ Whole(dataPath)
    BY <1>16 DEF DataSound
  <2>6. stored'[dataPath] = stored[dataPath] /\ stored'[Former] = stored[Former]
    BY <1>5, <1>6, <1>10, <1>16, <2>4, <2>5
  <2>7. Whole(dataPath)' /\ Whole(BootData)'
    <3>1. PICK f \in Dirs : f = Former
      BY <2>4
    <3>2. stored'[f] = stored[f] /\ BootData' = f /\ Whole(f)
      BY <2>3, <2>5, <2>6, <3>1
    <3>3. QED
      BY <1>1, <2>5, <2>6, <3>2 DEF Whole
  <2>8. \A c \in Collections : promised'[c] <= stored'[dataPath'][c]
    BY <1>1, <2>6 DEF DataSound
  <2>9. BootVault' = vault' /\ \A a \in Owners : home'[a] = vault'
    BY <1>1, <1>2, <2>1, <2>3 DEF VaultSound
  <2>10. QED
    BY <1>2, <2>7, <2>8, <2>9 DEF VaultSound, DataSound
<1>17. QED
  BY <1>2, <1>11, <1>12, <1>14, <1>15, <1>16

LEMMA SaveInv ==
    ASSUME PathsInv, NEW c \in Collections, Save(c)
    PROVE  PathsInv'
<1> USE DEF PathsInv
<1>1. /\ stored' = [stored EXCEPT ![dataPath][c] = @ + 1]
      /\ UNCHANGED <<settings, overrides, dataPath, vault, home, setAside, move, promised>>
  BY DEF Save
<1>2. dataPath \in Dirs /\ stored[dataPath] \in Versions /\ stored[dataPath][c] \in Nat
  BY BootPaths DEF PathTypes
<1>3. PICK n \in Nat : n = stored[dataPath][c] + 1
  BY <1>2
<1>4. PICK row \in Versions : row = [stored[dataPath] EXCEPT ![c] = n]
  <2>1. [stored[dataPath] EXCEPT ![c] = n] \in Versions
    BY <1>2 DEF Versions
  <2>2. QED
    BY <2>1
<1>5. stored' = [stored EXCEPT ![dataPath] = row]
  BY <1>1, <1>3, <1>4
<1>6. /\ stored' \in [Dirs -> Versions] /\ stored'[dataPath] = row
      /\ \A d \in Dirs \ {dataPath} : stored'[d] = stored[d]
  BY <1>2, <1>5 DEF PathTypes
<1>7. \A d \in Collections : row[d] \in Nat /\ stored[dataPath][d] \in Nat /\ row[d] >= stored[dataPath][d]
  BY <1>2, <1>3, <1>4 DEF Versions
<1>8. /\ VaultMove' <=> VaultMove
      /\ DataMove' <=> DataMove
      /\ InForce' <=> InForce
      /\ BootData' = BootData /\ BootVault' = BootVault /\ Former' = Former
  BY <1>1 DEF VaultMove, DataMove, InForce, BootData, BootVault, Former
<1>9. PathTypes'
  BY <1>1, <1>6 DEF PathTypes
<1>10. MoveSound' /\ OverridesKept' /\ VaultSound'
  BY <1>1, <1>8 DEF MoveSound, OverridesKept, VaultSound
<1>11. \A d \in Dirs : Whole(d) => Whole(d)'
  <2>1. TAKE d \in Dirs
  <2>2. CASE d = dataPath
    BY <1>1, <1>6, <1>7, <2>2 DEF Whole
  <2>3. CASE d # dataPath
    BY <1>1, <1>6, <2>3 DEF Whole
  <2>4. QED
    BY <2>2, <2>3
<1>12. DataSound'
  <2>1. Whole(dataPath)' /\ Whole(BootData)'
    <3>1. PICK b \in Dirs : b = BootData
      BY BootPaths
    <3>2. Whole(b)' /\ Whole(dataPath)'
      BY <1>2, <1>1, <1>11, <3>1 DEF DataSound, Whole
    <3>3. QED
      BY <1>1, <1>8, <3>1, <3>2 DEF Whole
  <2>2. \A d \in Collections : promised'[d] <= stored'[dataPath'][d]
    <3>1. \A d \in Collections : promised[d] <= stored[dataPath][d] /\ promised[d] \in Nat
      BY <1>2, BootPaths DEF DataSound
    <3>2. QED
      BY <1>1, <1>6, <1>7, <3>1
  <2>3. ASSUME DataMove
        PROVE  /\ Whole(Former)' /\ move.to # dataPath /\ move.to \in Dirs
               /\ \A d \in Collections : move.before[d] <= stored'[dataPath][d]
    <3>1. move.to # dataPath /\ move.to \in Dirs
      BY <2>3 DEF MoveSound
    <3>2. Former \in Dirs
      <4>1. move.had \in Dirs \union {Unset} /\ move.anchorHad \in Dirs \union {Unset}
        BY <2>3 DEF MoveSound
      <4>2. QED
        BY <4>1, BootPaths DEF Former, Or
    <3>3. PICK f \in Dirs : f = Former
      BY <3>2
    <3>4. Whole(f)'
      BY <1>11, <2>3, <3>3 DEF DataSound
    <3>5. \A d \in Collections : move.before[d] <= stored[dataPath][d] /\ move.before[d] \in Nat
      BY <2>3 DEF DataSound, PathTypes, MoveRows, Versions, DataMove
    <3>6. QED
      BY <1>6, <1>7, <1>8, <3>1, <3>3, <3>4, <3>5 DEF Whole
  <2>4. DataMove => stored'[move.to] = stored[move.to]
    BY <1>6, <2>3
  <2>5. QED
    BY <1>1, <1>8, <2>1, <2>2, <2>3, <2>4 DEF DataSound
<1>13. QED
  BY <1>9, <1>10, <1>12

(* A gateway that starts over what is on disk: no migration of the vault   *)
(* was under way.                                                          *)
LEMMA BootInv ==
    ASSUME PathsInv, ~VaultMove, Boot(settings)
    PROVE  PathsInv'
<1> USE DEF PathsInv
<1>1. /\ settings' = settings /\ dataPath' = BootData /\ overrides' = settings[BootData]
      /\ vault' = BootVault /\ promised' = (IF BootData = dataPath THEN promised ELSE Empty)
      /\ move' = NoMove /\ setAside' = [held |-> FALSE] /\ UNCHANGED <<home, stored>>
  BY DEF Boot, BootData, BootVault
<1>2. BootData \in Dirs /\ BootVault \in Vaults
  BY BootPaths
<1>3. ~VaultMove' /\ ~DataMove'
  BY <1>1 DEF VaultMove, DataMove
<1>4. PathTypes'
  <2>1. settings[BootData] \in Overrides
    BY <1>2 DEF PathTypes
  <2>2. promised' \in Versions /\ setAside' \in Asides
    BY <1>1 DEF PathTypes, Versions, Empty, Asides
  <2>3. QED
    BY <1>1, <1>2, <2>1, <2>2 DEF PathTypes
<1>5. MoveSound' /\ OverridesKept'
  BY <1>1, <1>3 DEF MoveSound, OverridesKept
<1>6. BootData' = BootData /\ BootVault' = BootVault
  BY <1>1 DEF BootData, BootVault
<1>7. VaultSound'
  BY <1>1, <1>3, <1>6 DEF VaultSound
<1>8. DataSound'
  <2>1. \A c \in Collections : stored[BootData][c] \in Nat /\ Empty[c] = 0
    BY <1>2, BootPaths DEF Empty
  <2>2. \A c \in Collections : promised'[c] <= stored[BootData][c] /\ stored[BootData][c] > 0
    BY <1>1, <2>1 DEF DataSound, Whole
  <2>3. Whole(BootData)'
    BY <1>1, <1>6, <2>2 DEF Whole
  <2>4. QED
    BY <1>1, <1>3, <1>6, <2>2, <2>3 DEF DataSound, Whole
<1>9. QED
  BY <1>4, <1>5, <1>7, <1>8

LEMMA PathsNextInv ==
    ASSUME PathsInv, [PathsNext]_pathVars
    PROVE  PathsInv'
<1>1. CASE UNCHANGED pathVars
  BY <1>1 DEF pathVars, PathsInv, PathTypes, MoveSound, OverridesKept, VaultSound, DataSound,
              VaultMove, DataMove, InForce, Whole, Former, BootData, BootVault
<1>2. CASE Restart
  <2>1. move = NoMove /\ Boot([settings EXCEPT ![dataPath] = overrides])
    BY <1>2 DEF Restart
  <2>2. ~VaultMove /\ ~DataMove
    BY <2>1 DEF VaultMove, DataMove
  <2>3. overrides = settings[dataPath]
    <3>1. overrides.vault = settings[dataPath].vault /\ overrides.data = settings[dataPath].data
      BY <2>2 DEF PathsInv, OverridesKept
    <3>2. overrides \in Overrides /\ settings[dataPath] \in Overrides
      BY BootPaths DEF PathsInv, PathTypes
    <3>3. QED
      BY <3>1, <3>2, SameOverrides
  <2>4. [settings EXCEPT ![dataPath] = overrides] = settings
    BY <2>3 DEF PathsInv, PathTypes
  <2>5. QED
    BY <2>1, <2>2, <2>4, BootInv
<1>3. CASE DieInMigration
  <2>1. ~VaultMove /\ Boot(settings)
    BY <1>3 DEF DieInMigration, VaultMove
  <2>2. QED
    BY <2>1, BootInv
<1>4. CASE PathsNext /\ ~Restart /\ ~DieInMigration
  BY <1>4, MigrateVaultInv, MoveAgentInv, MovedAllInv, MigrateDataInv, BackUpInv, CopySettingsInv,
     ValidateCopyInv, CopyCollectionInv, SaveInv, FlushOverrideInv, WriteAnchorInv, FinishMoveInv,
     MoveFailsInv DEF PathsNext
<1>5. QED
  BY <1>1, <1>2, <1>3, <1>4

(* The invariant of the two settings files, the running gateway, the one   *)
(* that follows it and the migration under way.                            *)
THEOREM PathsInvInductive == PathsSpec => []PathsInv
<1>1. PathInit => PathsInv
  BY PathInitInv
<1>2. PathsInv /\ [PathsNext]_pathVars => PathsInv'
  BY PathsNextInv
<1>3. QED
  BY <1>1, <1>2, PTL DEF PathsSpec

(* The memories and the store are where the running gateway, and the one   *)
(* that follows it, look for them (owner-routes.js, config.js): whatever   *)
(* moves were made, failed, crashed or await the restart.                  *)
THEOREM PathsAlwaysAgree == PathsSpec => []PathsAgree
<1>1. PathsInv => PathsAgree
  <2>1. SUFFICES ASSUME PathsInv PROVE PathsAgree
    OBVIOUS
  <2>2. move = NoMove => \A a \in Owners : home[a] = vault /\ vault = BootVault
    BY <2>1 DEF PathsInv, VaultSound, VaultMove
  <2>3. \A c \in Collections : stored[BootData][c] > 0 /\ (BootData # dataPath => stored[BootData][c] >= promised[c])
    BY <2>1 DEF PathsInv, DataSound, Whole
  <2>4. stored[BootData] # Empty
    <3>1. PICK c \in Collections : TRUE
      BY AnchorAssumption
    <3>2. stored[BootData][c] # Empty[c]
      BY <2>3, <3>1 DEF Empty
    <3>3. QED
      BY <3>2
  <2>5. QED
    BY <2>2, <2>3, <2>4 DEF PathsAgree
<1>2. QED
  BY <1>1, PathsInvInductive, PTL

-----------------------------------------------------------------------------
(* The files of Spaces *)

LiveRows == [state : {"live"}, owner : Spaces, shared : SUBSET Spaces, version : Nat]
DeadRows == [state : {"deleted"}, owner : Spaces, shared : SUBSET Spaces, version : Nat]
Deletions == {NoDeletion} \cup [at : {"memory", "files", "graph"}, space : Spaces]
FileRows  == {NoFile} \cup LiveRows \cup DeadRows

(* What an operation is, by its kind.                                      *)
IsFileOp(o) ==
    /\ o.kind \in {"upload", "share", "delete", "migrate", "purge"}
    /\ o.kind = "upload" =>
          /\ o.at # "stream" => DOMAIN o = {"kind", "at", "space", "file", "path"}
          /\ o.at \in {"stream", "place", "flush"} /\ o.space \in Spaces /\ o.file \in Files
          /\ o.at # "stream" => o.path = root
          /\ o.at # "flush" => file[o.file] = NoFile
    /\ o.kind \in {"share", "delete"} =>
          /\ o.at \in {"check", "flush"} /\ o.file \in Files
          /\ o.at = "check" /\ o.kind = "share" => o.shared \in SUBSET Spaces
          /\ o.at = "flush" => /\ o.old \in LiveRows
                               /\ o.kind = "share" => Live(o.file)
                               /\ o.kind = "delete" => file[o.file] \in DeadRows
    /\ o.kind = "migrate" =>
          /\ DOMAIN o = {"kind", "at", "file", "to", "moved"}
          /\ o.at \in {"check", "move", "reopen"} /\ o.to \in Roots /\ o.moved \in SUBSET Spaces
          /\ o.at # "check" => o.to # root
          /\ o.file = "none"
    /\ o.kind = "purge" =>
          /\ DOMAIN o = {"kind", "at", "space", "file", "rest", "moved", "old"}
          /\ o.at \in {"list", "move", "remove"} /\ o.space \in Spaces /\ o.file = "none"
          /\ deletion.at = "files" /\ deletion.space = o.space
          /\ o.at = "list" => o.moved = {}
          /\ o.at # "list" =>
                /\ o.rest \in SUBSET Files /\ o.moved \in SUBSET Files
                /\ \A f \in o.rest \cup o.moved : o.old[f] \in LiveRows /\ o.old[f].owner = o.space
          /\ o.at = "move" =>
                /\ \A f \in o.rest \cup o.moved : Live(f)
                /\ Owned(o.space) = o.rest \cup o.moved
          /\ o.at = "remove" =>
                /\ o.rest \subseteq o.moved /\ Owned(o.space) = {}
                /\ \A f \in o.moved : file[f] \in DeadRows

IsSequence(q) == q \in Seq({q[i] : i \in DOMAIN q})

RowTypes ==
    /\ space \in [Spaces -> {"active", "archived", "gone"}]
    /\ file \in [Files -> FileRows]
    /\ body \in [Files -> Roots \cup {"temp", "trash", "none"}]
    /\ root \in Roots /\ savedRoot \in Roots
    /\ deletion \in Deletions

FileTypes == RowTypes /\ IsSequence(fileQueue)

(* Only the first operation has begun.                                     *)
HasToWait(o) == o.at \in {"stream", "check", "list"}

QueueSound ==
    \A i \in 1 .. Len(fileQueue) :
        IsFileOp(fileQueue[i]) /\ (i # 1 => HasToWait(fileQueue[i]))

(* A file that is uploaded is nobody else's business until it is there,    *)
(* and there is one deletion at a time.                                    *)
OpsApart ==
    \A i, j \in 1 .. Len(fileQueue) :
        i # j =>
           /\ fileQueue[j].kind = "upload" /\ fileQueue[j].at # "flush" =>
                 fileQueue[i].file # fileQueue[j].file
           /\ fileQueue[j].kind = "purge" => fileQueue[i].kind # "purge"

(* Where the body of a file may be, and who has it.                        *)
InTrash(f) ==
    \/ Running("delete", "flush") /\ op1.file = f
    \/ Running("purge", "move") /\ f \in op1.moved
    \/ Running("purge", "remove") /\ f \in op1.rest

BodiesSound ==
    \A f \in Files :
        /\ body[f] = "trash" <=> InTrash(f)
        /\ body[f] = "temp" <=> Running("upload", "place") /\ op1.file = f
        /\ ~Live(f) => body[f] \notin Roots
        /\ Live(f) =>
              \/ body[f] = root
              \/ Running("purge", "move") /\ f \in op1.moved
              \/ Running("migrate", "move") /\ body[f] = op1.to
              \/ Running("migrate", "reopen") /\ body[f] = op1.to
        /\ Running("migrate", "reopen") /\ Live(f) => body[f] = op1.to

RootSound == savedRoot = IF Running("migrate", "reopen") THEN op1.to ELSE root

(* Who may yet leave a file to a Space.                                    *)
MayOwn(s) ==
    \/ \E f \in Files : Live(f) /\ file[f].owner = s
    \/ \E i \in 1 .. Len(fileQueue) : fileQueue[i].kind = "upload" /\ fileQueue[i].space = s
    \/ (Running("share", "flush") \/ Running("delete", "flush")) /\ op1.old.owner = s

DeletionSound ==
    /\ deletion.at # "none" => space[deletion.space] = "archived" \/ deletion.space \in restored
    /\ \A s \in Spaces \ restored :
          /\ space[s] = "gone" => ~MayOwn(s)
          /\ deletion.at = "graph" /\ deletion.space = s => ~MayOwn(s)
          /\ \A i, j \in 1 .. Len(fileQueue) :
                (/\ fileQueue[i].kind = "upload" /\ fileQueue[j].kind = "purge"
                 /\ fileQueue[i].space = s /\ fileQueue[j].space = s)
                => i < j

FilesInv == FileTypes /\ QueueSound /\ OpsApart /\ BodiesSound /\ RootSound /\ DeletionSound

-----------------------------------------------------------------------------
(* Queues *)

LEMMA SequenceFacts ==
    ASSUME NEW q, IsSequence(q)
    PROVE  /\ Len(q) \in Nat /\ DOMAIN q = 1 .. Len(q)
           /\ q # << >> <=> Len(q) # 0
           /\ q # << >> => Head(q) = q[1] /\ 1 \in 1 .. Len(q)
BY DEF IsSequence

LEMMA SequenceOf ==
    ASSUME NEW S, NEW q \in Seq(S)
    PROVE  IsSequence(q)
<1> DEFINE R == {q[i] : i \in DOMAIN q}
<1>1. Len(q) \in Nat /\ q \in [1 .. Len(q) -> S]
  OBVIOUS
<1>2. q \in [1 .. Len(q) -> R]
  BY <1>1
<1>3. QED
  BY <1>1, <1>2 DEF IsSequence

LEMMA AppendFacts ==
    ASSUME NEW q, IsSequence(q), NEW o
    PROVE  LET r == Append(q, o)
           IN  /\ IsSequence(r) /\ Len(r) = Len(q) + 1 /\ r # << >> /\ Len(q) \in Nat
               /\ \A i \in 1 .. Len(q) : r[i] = q[i]
               /\ r[Len(q) + 1] = o
               /\ q # << >> => Head(r) = Head(q)
               /\ q = << >> => Head(r) = o
<1> DEFINE S == {q[i] : i \in DOMAIN q} \cup {o}
           r == Append(q, o)
<1>1. q \in Seq(S)
  <2>1. Len(q) \in Nat /\ q \in [1 .. Len(q) -> {q[i] : i \in DOMAIN q}]
    BY DEF IsSequence
  <2>2. q \in [1 .. Len(q) -> S]
    BY <2>1
  <2>3. QED
    BY <2>1, <2>2
<1>2. o \in S
  OBVIOUS
<1> HIDE DEF S
<1>3. /\ r \in Seq(S) /\ Len(r) = Len(q) + 1 /\ r # << >> /\ Len(q) \in Nat
      /\ \A i \in 1 .. Len(q) : r[i] = q[i]
      /\ r[Len(q) + 1] = o
  BY <1>1, <1>2
<1>4. IsSequence(r)
  BY <1>3, SequenceOf
<1>5. /\ q # << >> => Head(r) = Head(q)
      /\ q = << >> => Head(r) = o
  BY <1>1, <1>3
<1>6. QED
  BY <1>3, <1>4, <1>5

LEMMA TailFacts ==
    ASSUME NEW q, IsSequence(q), q # << >>
    PROVE  LET r == Tail(q)
           IN  /\ IsSequence(r) /\ Len(r) = Len(q) - 1 /\ Len(q) \in Nat \ {0}
               /\ \A i \in 1 .. Len(r) : i + 1 \in 1 .. Len(q) /\ i + 1 # 1 /\ r[i] = q[i + 1]
<1> DEFINE S == {q[i] : i \in DOMAIN q}
           r == Tail(q)
<1>1. q \in Seq(S)
  BY DEF IsSequence
<1> HIDE DEF S
<1>2. /\ r \in Seq(S) /\ Len(r) = Len(q) - 1 /\ Len(q) \in Nat \ {0}
      /\ \A i \in 1 .. Len(r) : i + 1 \in 1 .. Len(q) /\ i + 1 # 1 /\ r[i] = q[i + 1]
  BY <1>1
<1>3. QED
  BY <1>2, SequenceOf

LEMMA StepFacts ==
    ASSUME NEW q, IsSequence(q), q # << >>, NEW o
    PROVE  LET r == <<o>> \o Tail(q)
           IN  /\ IsSequence(r) /\ Len(r) = Len(q) /\ r # << >> /\ Head(r) = o
               /\ r[1] = o /\ Len(q) \in Nat \ {0}
               /\ \A i \in 1 .. Len(q) : i # 1 => r[i] = q[i]
<1> DEFINE S == {q[i] : i \in DOMAIN q} \cup {o}
           t == Tail(q)
           r == <<o>> \o t
<1>1. /\ IsSequence(t) /\ Len(t) = Len(q) - 1 /\ Len(q) \in Nat \ {0}
      /\ \A i \in 1 .. Len(t) : i + 1 \in 1 .. Len(q) /\ t[i] = q[i + 1]
  BY TailFacts
<1>2. t \in Seq(S)
  <2> HIDE DEF t
  <2>1. Len(t) \in Nat /\ t \in [1 .. Len(t) -> {t[i] : i \in DOMAIN t}] /\ DOMAIN t = 1 .. Len(t)
    BY <1>1 DEF IsSequence
  <2>2. DOMAIN q = 1 .. Len(q)
    BY SequenceFacts
  <2>3. \A i \in DOMAIN t : t[i] \in S
    BY <1>1, <2>1, <2>2
  <2> HIDE DEF S
  <2>4. t \in [1 .. Len(t) -> S]
    BY <2>1, <2>3
  <2>5. QED
    BY <2>1, <2>4
<1>8. <<o>> \in Seq(S) /\ Len(<<o>>) = 1 /\ <<o>>[1] = o
  OBVIOUS
<1> HIDE DEF S, t
<1>3. /\ r \in Seq(S) /\ Len(r) = 1 + Len(t) /\ r[1] = o
      /\ \A i \in 1 .. Len(t) : r[i + 1] = t[i]
  BY <1>1, <1>2, <1>8
<1>4. \A i \in 1 .. Len(q) : i # 1 => r[i] = q[i]
  <2> SUFFICES ASSUME NEW i \in 1 .. Len(q), i # 1
               PROVE  r[i] = q[i]
    OBVIOUS
  <2>1. i - 1 \in 1 .. Len(t) /\ (i - 1) + 1 = i
    BY <1>1
  <2>2. QED
    BY <1>1, <1>3, <2>1
<1>5. IsSequence(r)
  BY <1>3, SequenceOf
<1>6. r # << >> /\ Head(r) = o
  BY <1>1, <1>3
<1>7. QED
  BY <1>1, <1>3, <1>4, <1>5, <1>6 DEF t

LEMMA HeadOp ==
    ASSUME FilesInv, fileQueue # << >>
    PROVE  /\ op1 = fileQueue[1] /\ 1 \in 1 .. Len(fileQueue) /\ IsFileOp(op1)
           /\ Len(fileQueue) \in Nat \ {0}
BY SequenceFacts DEF FilesInv, FileTypes, QueueSound, op1

-----------------------------------------------------------------------------
(* What requests, steps and ends of operations preserve *)

(* An operation that waits only relies on a file that is not there yet,    *)
(* and on the deletion that it serves.                                     *)
LEMMA WaitersStay ==
    ASSUME NEW o, IsFileOp(o), HasToWait(o),
           o.kind = "upload" => file'[o.file] = NoFile,
           o.kind = "purge" => deletion'.at = "files" /\ deletion'.space = deletion.space
    PROVE  IsFileOp(o)' /\ o.at \notin {"place", "flush", "move", "reopen", "remove"}
BY DEF IsFileOp, HasToWait

(* An operation is queued behind the others.                               *)
LEMMA QueuedInv ==
    ASSUME FilesInv, NEW o, fileQueue' = Append(fileQueue, o),
           UNCHANGED <<space, restored, file, body, root, savedRoot>>,
           IsFileOp(o)', HasToWait(o),
           o.kind = "upload" => /\ space[o.space] = "active"
                                /\ \A i \in 1 .. Len(fileQueue) : fileQueue[i].file # o.file,
           o.kind \in {"share", "delete"} => Live(o.file),
           \/ o.kind # "purge" /\ UNCHANGED deletion
           \/ /\ o.kind = "purge" /\ deletion.at = "memory"
              /\ deletion'.at = "files" /\ deletion'.space = deletion.space /\ deletion' \in Deletions
    PROVE  FilesInv'
<1> DEFINE n == Len(fileQueue)
<1>1. /\ IsSequence(fileQueue) /\ n \in Nat
      /\ fileQueue = << >> <=> n = 0
  BY SequenceFacts DEF FilesInv, FileTypes
<1>2. /\ IsSequence(fileQueue') /\ Len(fileQueue') = n + 1 /\ fileQueue' # << >>
      /\ \A i \in 1 .. n : fileQueue'[i] = fileQueue[i]
      /\ fileQueue'[n + 1] = o
      /\ fileQueue # << >> => op1' = op1
      /\ fileQueue = << >> => op1' = o
  BY <1>1, AppendFacts DEF op1
<1> HIDE DEF n
<1>3. \A i \in 1 .. n + 1 : i \in 1 .. n \/ i = n + 1
  BY <1>1
<1>4. o.at \notin {"place", "flush", "move", "reopen", "remove"}
  BY DEF HasToWait
<1>5. \A kind, at : at \in {"place", "flush", "move", "reopen", "remove"} =>
         (Running(kind, at)' <=> Running(kind, at)) /\ (Running(kind, at) => op1' = op1)
  BY <1>2, <1>4 DEF Running
<1>6. FileTypes'
  BY <1>2 DEF FilesInv, FileTypes, RowTypes
<1>7. ASSUME NEW i \in 1 .. n
      PROVE  IsFileOp(fileQueue[i])' /\ (i # 1 => HasToWait(fileQueue[i]))
             /\ (fileQueue[i].kind = "purge" => o.kind # "purge")
  <2>1. IsFileOp(fileQueue[i]) /\ (i # 1 => HasToWait(fileQueue[i]))
    BY DEF FilesInv, QueueSound, n
  <2>2. PICK p : p = fileQueue[i]
    OBVIOUS
  <2>3. p.kind = "purge" => UNCHANGED deletion /\ o.kind # "purge"
    BY <2>1, <2>2 DEF IsFileOp
  <2>4. IsFileOp(p)'
    BY <2>1, <2>2, <2>3 DEF IsFileOp, Live, Owned
  <2>5. QED
    BY <1>2, <2>1, <2>2, <2>3, <2>4
<1>8. QueueSound'
  BY <1>2, <1>3, <1>7, <1>1 DEF QueueSound
<1>9. OpsApart'
  <2> SUFFICES ASSUME NEW i \in 1 .. n + 1, NEW j \in 1 .. n + 1, i # j
               PROVE  /\ fileQueue'[j].kind = "upload" /\ fileQueue'[j].at # "flush" =>
                            fileQueue'[i].file # fileQueue'[j].file
                      /\ fileQueue'[j].kind = "purge" => fileQueue'[i].kind # "purge"
    BY <1>2 DEF OpsApart
  <2>1. CASE i \in 1 .. n /\ j \in 1 .. n
    BY <1>2, <2>1 DEF FilesInv, OpsApart, n
  <2>2. CASE i = n + 1 /\ j \in 1 .. n
    <3>1. PICK p : p = fileQueue[j] /\ IsFileOp(p)
      BY <2>2 DEF FilesInv, QueueSound, n
    <3>2. p.kind = "upload" /\ p.at # "flush" => p.file \in Files /\ file[p.file] = NoFile
      BY <3>1 DEF IsFileOp
    <3>3. o.file # p.file \/ ~(p.kind = "upload" /\ p.at # "flush")
      <4>1. CASE o.kind = "upload"
        BY <2>2, <3>1, <4>1 DEF n
      <4>2. CASE o.kind \in {"share", "delete"}
        BY <3>2, <4>2 DEF Live, NoFile
      <4>3. CASE o.kind \in {"migrate", "purge"}
        BY <3>2, <4>3, RootsAssumption DEF IsFileOp
      <4>4. QED
        BY <4>1, <4>2, <4>3 DEF IsFileOp
    <3>4. QED
      BY <1>2, <1>7, <2>2, <3>1, <3>3
  <2>3. CASE j = n + 1 /\ i \in 1 .. n
    BY <1>2, <1>7, <2>3 DEF n
  <2>4. QED
    BY <1>3, <2>1, <2>2, <2>3
<1>10. BodiesSound' /\ RootSound'
  <2>1. \A f \in Files : InTrash(f)' <=> InTrash(f)
    BY <1>5 DEF InTrash
  <2>2. BodiesSound'
    BY <1>5, <2>1 DEF FilesInv, BodiesSound, Live
  <2>3. RootSound'
    BY <1>5 DEF FilesInv, RootSound
  <2>4. QED
    BY <2>2, <2>3
<1>11. DeletionSound'
  <2>1. \A s \in Spaces : MayOwn(s)' => MayOwn(s) \/ (o.kind = "upload" /\ o.space = s)
    BY <1>2, <1>3, <1>5 DEF MayOwn, Live, n
  <2>2. deletion'.at # "none" => deletion.at # "none" /\ deletion'.space = deletion.space
    BY DEF FilesInv, FileTypes, RowTypes
  <2>3. deletion'.at = "graph" => deletion.at = "graph"
    OBVIOUS
  <2>4. ASSUME NEW s \in Spaces \ restored, NEW i \in 1 .. n + 1, NEW j \in 1 .. n + 1,
               fileQueue'[i].kind = "upload", fileQueue'[j].kind = "purge",
               fileQueue'[i].space = s, fileQueue'[j].space = s
        PROVE  i < j
    <3>1. CASE i \in 1 .. n /\ j \in 1 .. n
      BY <1>2, <2>4, <3>1 DEF FilesInv, DeletionSound, n
    <3>2. CASE j = n + 1
      <4>1. i # n + 1
        BY <2>4, <3>2
      <4>2. QED
        BY <1>1, <1>3, <3>2, <4>1
    <3>3. CASE i = n + 1 /\ j \in 1 .. n
      <4>1. o.kind = "upload" /\ space[s] = "active"
        BY <1>2, <2>4, <3>3
      <4>2. IsFileOp(fileQueue[j]) /\ fileQueue[j].kind = "purge" /\ fileQueue[j].space = s
        BY <1>2, <2>4, <3>3 DEF FilesInv, QueueSound, n
      <4>3. deletion.at = "files" /\ deletion.space = s
        BY <4>2 DEF IsFileOp
      <4>4. QED
        BY <2>4, <4>1, <4>3 DEF FilesInv, DeletionSound
    <3>4. QED
      BY <1>3, <3>1, <3>2, <3>3
  <2>5. ASSUME NEW s \in Spaces \ restored
        PROVE  /\ space[s] = "gone" => ~MayOwn(s)'
               /\ deletion'.at = "graph" /\ deletion'.space = s => ~MayOwn(s)'
    BY <2>1, <2>2, <2>3 DEF FilesInv, DeletionSound
  <2>6. deletion'.at # "none" => space[deletion'.space] = "archived" \/ deletion'.space \in restored
    BY <2>2 DEF FilesInv, DeletionSound
  <2>7. QED
    BY <1>2, <2>4, <2>5, <2>6 DEF DeletionSound
<1>12. QED
  BY <1>6, <1>8, <1>9, <1>10, <1>11 DEF FilesInv

(* The first operation goes on.                                            *)
LEMMA StepInv ==
    ASSUME FilesInv, fileQueue # << >>, NEW o, Step(o),
           UNCHANGED <<space, restored, deletion>>,
           RowTypes',
           IsFileOp(o)', o.kind = op1.kind, o.file = op1.file,
           o.kind \in {"upload", "purge"} => o.space = op1.space,
           o.kind = "upload" /\ o.at # "flush" => op1.at # "flush",
           root' = root \/ o.kind = "migrate",
           \A f \in Files : file[f] = NoFile => file'[f] = NoFile \/ (op1.kind = "upload" /\ f = op1.file /\ op1.at # "flush"),
           \A f \in Files : Live(f)' => MayOwn(file'[f].owner),
           o.kind \in {"share", "delete"} /\ o.at = "flush" => MayOwn(o.old.owner),
           op1' = o /\ fileQueue' # << >> => BodiesSound' /\ RootSound'
    PROVE  FilesInv'
<1> DEFINE n == Len(fileQueue)
<1>1. /\ IsSequence(fileQueue) /\ n \in Nat \ {0} /\ op1 = fileQueue[1] /\ 1 \in 1 .. n
  BY HeadOp DEF FilesInv, FileTypes
<1>2. /\ IsSequence(fileQueue') /\ Len(fileQueue') = n /\ fileQueue' # << >>
      /\ op1' = o /\ fileQueue'[1] = o
      /\ \A i \in 1 .. n : i # 1 => fileQueue'[i] = fileQueue[i]
  BY <1>1, StepFacts DEF op1, Step
<1> HIDE DEF n
<1>3. FileTypes' /\ BodiesSound' /\ RootSound'
  BY <1>2 DEF FileTypes
<1>4. ASSUME NEW i \in 1 .. n, i # 1
      PROVE  IsFileOp(fileQueue[i])' /\ HasToWait(fileQueue'[i])
  <2>1. PICK p : p = fileQueue[i] /\ IsFileOp(p) /\ HasToWait(p)
    BY <1>4 DEF FilesInv, QueueSound, n
  <2>2. ASSUME p.kind = "upload"
        PROVE  file'[p.file] = NoFile
    <3>1. p.file \in Files /\ file[p.file] = NoFile /\ p.at # "flush"
      BY <2>1, <2>2 DEF IsFileOp, HasToWait
    <3>2. op1.file # p.file
      BY <1>1, <1>4, <2>1, <2>2, <3>1 DEF FilesInv, OpsApart, n
    <3>3. QED
      BY <3>1, <3>2
  <2>3. p.kind = "purge" => deletion'.at = "files" /\ deletion'.space = deletion.space
    BY <2>1 DEF IsFileOp
  <2>4. IsFileOp(p)'
    BY <2>1, <2>2, <2>3, WaitersStay
  <2>5. QED
    BY <1>2, <1>4, <2>1, <2>4
<1>5. QueueSound'
  <2>1. ASSUME NEW i \in 1 .. n
        PROVE  IsFileOp(fileQueue[i])' /\ (i # 1 => HasToWait(fileQueue'[i]))
    <3>1. CASE i = 1
      BY <1>2, <3>1
    <3>2. QED
      BY <1>4, <3>1
  <2>2. QED
    BY <1>2, <2>1 DEF QueueSound
<1>6. OpsApart'
  <2> SUFFICES ASSUME NEW i \in 1 .. n, NEW j \in 1 .. n, i # j
               PROVE  /\ fileQueue'[j].kind = "upload" /\ fileQueue'[j].at # "flush" =>
                            fileQueue'[i].file # fileQueue'[j].file
                      /\ fileQueue'[j].kind = "purge" => fileQueue'[i].kind # "purge"
    BY <1>2 DEF OpsApart
  <2>1. /\ fileQueue[j].kind = "upload" /\ fileQueue[j].at # "flush" =>
              fileQueue[i].file # fileQueue[j].file
        /\ fileQueue[j].kind = "purge" => fileQueue[i].kind # "purge"
    BY DEF FilesInv, OpsApart, n
  <2>2. \A k \in 1 .. n : /\ fileQueue'[k].kind = fileQueue[k].kind /\ fileQueue'[k].file = fileQueue[k].file
                          /\ fileQueue'[k].kind = "upload" /\ fileQueue'[k].at # "flush" =>
                                fileQueue[k].at # "flush"
    BY <1>1, <1>2
  <2>3. QED
    BY <2>1, <2>2
<1>7. DeletionSound'
  <2>1. \A k \in 1 .. n : /\ fileQueue'[k].kind = fileQueue[k].kind
                          /\ fileQueue'[k].kind \in {"upload", "purge"} => fileQueue'[k].space = fileQueue[k].space
    BY <1>1, <1>2
  <2>2. ASSUME NEW s \in Spaces, MayOwn(s)'
        PROVE  MayOwn(s)
    <3>1. CASE \E f \in Files : Live(f)' /\ file'[f].owner = s
      BY <3>1
    <3>2. CASE \E i \in 1 .. n : fileQueue'[i].kind = "upload" /\ fileQueue'[i].space = s
      BY <2>1, <3>2 DEF MayOwn, n
    <3>3. CASE o.kind \in {"share", "delete"} /\ o.at = "flush" /\ o.old.owner = s
      BY <3>3
    <3>4. QED
      BY <1>2, <2>2, <3>1, <3>2, <3>3 DEF MayOwn, Running
  <2>3. QED
    BY <1>2, <2>1, <2>2 DEF FilesInv, DeletionSound, n
<1>8. QED
  BY <1>3, <1>5, <1>6, <1>7 DEF FilesInv

(* The first operation ends, and leaves nothing half done.                 *)
LEMMA DoneInv ==
    ASSUME FilesInv, fileQueue # << >>, Done,
           UNCHANGED <<space, restored>>,
           RowTypes',
           \/ UNCHANGED deletion /\ op1.kind # "purge"
           \/ op1.kind = "purge" /\ deletion' = NoDeletion
           \/ /\ op1.kind = "purge" /\ deletion' = [deletion EXCEPT !.at = "graph"]
              /\ \A f \in Files : Live(f)' => file'[f].owner # op1.space,
           \A f \in Files : file[f] = NoFile => file'[f] = NoFile,
           \A f \in Files : Live(f)' => MayOwn(file'[f].owner) \/ (op1.kind = "purge" /\ deletion' = NoDeletion /\ file'[f].owner = op1.space),
           \A f \in Files : /\ body'[f] \notin {"trash", "temp"}
                            /\ Live(f)' <=> body'[f] = root'
                            /\ body'[f] \in Roots => body'[f] = root',
           savedRoot' = root'
    PROVE  FilesInv'
<1> DEFINE n == Len(fileQueue)
<1>1. /\ IsSequence(fileQueue) /\ n \in Nat \ {0} /\ op1 = fileQueue[1] /\ 1 \in 1 .. n /\ IsFileOp(op1)
  BY HeadOp DEF FilesInv, FileTypes
<1>2. /\ IsSequence(fileQueue') /\ Len(fileQueue') = n - 1
      /\ \A i \in 1 .. n - 1 : i + 1 \in 1 .. n /\ i + 1 # 1 /\ fileQueue'[i] = fileQueue[i + 1]
      /\ fileQueue' # << >> => op1' = fileQueue'[1] /\ 1 \in 1 .. n - 1
  <2>1. /\ IsSequence(fileQueue') /\ Len(fileQueue') = n - 1
        /\ \A i \in 1 .. n - 1 : i + 1 \in 1 .. n /\ i + 1 # 1 /\ fileQueue'[i] = fileQueue[i + 1]
    BY <1>1, TailFacts DEF Done
  <2>2. fileQueue' # << >> => op1' = fileQueue'[1] /\ 1 \in 1 .. Len(fileQueue')
    BY <2>1, SequenceFacts DEF op1
  <2>3. QED
    BY <2>1, <2>2
<1> HIDE DEF n
<1>3. FileTypes'
  BY <1>2 DEF FileTypes
<1>4. ASSUME NEW i \in 1 .. n, i # 1
      PROVE  /\ HasToWait(fileQueue[i])
             /\ \A p : p = fileQueue[i] => IsFileOp(p)'
             /\ op1.kind = "purge" => fileQueue[i].kind # "purge"
  <2>1. PICK p : p = fileQueue[i] /\ IsFileOp(p) /\ HasToWait(p)
    BY <1>4 DEF FilesInv, QueueSound, n
  <2>2. op1.kind = "purge" => p.kind # "purge"
    BY <1>1, <1>4, <2>1 DEF FilesInv, OpsApart, n
  <2>3. p.kind = "upload" => file'[p.file] = NoFile
    BY <2>1 DEF IsFileOp, HasToWait
  <2>4. p.kind = "purge" => deletion'.at = "files" /\ deletion'.space = deletion.space
    BY <2>1, <2>2 DEF IsFileOp
  <2>5. IsFileOp(p)'
    BY <2>1, <2>3, <2>4, WaitersStay
  <2>6. QED
    BY <2>1, <2>2, <2>5
<1>5. QueueSound'
  <2>1. ASSUME NEW i \in 1 .. n - 1
        PROVE  IsFileOp(fileQueue[i])' /\ HasToWait(fileQueue'[i])
    <3>1. PICK p : p = fileQueue[i + 1]
      OBVIOUS
    <3>2. i + 1 \in 1 .. n /\ i + 1 # 1 /\ fileQueue'[i] = p
      BY <1>2, <3>1
    <3>3. IsFileOp(p)' /\ HasToWait(p)
      BY <1>4, <3>1, <3>2
    <3>4. QED
      BY <3>2, <3>3
  <2>2. QED
    BY <1>2, <2>1 DEF QueueSound
<1>6. OpsApart'
  <2> SUFFICES ASSUME NEW i \in 1 .. n - 1, NEW j \in 1 .. n - 1, i # j
               PROVE  /\ fileQueue'[j].kind = "upload" /\ fileQueue'[j].at # "flush" =>
                            fileQueue'[i].file # fileQueue'[j].file
                      /\ fileQueue'[j].kind = "purge" => fileQueue'[i].kind # "purge"
    BY <1>2 DEF OpsApart
  <2>1. i + 1 \in 1 .. n /\ j + 1 \in 1 .. n /\ i + 1 # j + 1
    BY <1>2
  <2>2. QED
    BY <1>2, <2>1 DEF FilesInv, OpsApart, n
<1>7. \A kind, at : Running(kind, at)' => at \in {"stream", "check", "list"}
  <2>1. fileQueue' # << >> => HasToWait(op1')
    BY <1>2, <1>4
  <2>2. QED
    BY <2>1 DEF Running, HasToWait
<1>8. BodiesSound' /\ RootSound'
  <2>1. \A f \in Files : ~InTrash(f)'
    BY <1>7 DEF InTrash
  <2>2. QED
    BY <1>7, <2>1 DEF BodiesSound, RootSound
<1>9. DeletionSound'
  <2>1. ASSUME NEW s \in Spaces, MayOwn(s)'
        PROVE  \/ MayOwn(s) /\ \/ \E f \in Files : Live(f)' /\ file'[f].owner = s
                               \/ \E i \in 1 .. n : i # 1 /\ fileQueue[i].kind = "upload" /\ fileQueue[i].space = s
               \/ op1.kind = "purge" /\ deletion' = NoDeletion /\ op1.space = s
    <3>1. CASE \E f \in Files : Live(f)' /\ file'[f].owner = s
      BY <3>1
    <3>2. CASE \E i \in 1 .. n - 1 : fileQueue'[i].kind = "upload" /\ fileQueue'[i].space = s
      <4>1. PICK i \in 1 .. n - 1 : fileQueue'[i].kind = "upload" /\ fileQueue'[i].space = s
        BY <3>2
      <4>2. i + 1 \in 1 .. n /\ i + 1 # 1 /\ fileQueue[i + 1].kind = "upload" /\ fileQueue[i + 1].space = s
        BY <1>2, <4>1
      <4>3. QED
        BY <4>2 DEF MayOwn, n
    <3>3. QED
      BY <1>2, <1>7, <2>1, <3>1, <3>2 DEF MayOwn
  <2>2. op1.kind = "purge" => deletion.at = "files" /\ deletion.space = op1.space /\ op1.space \in Spaces
    BY <1>1 DEF IsFileOp
  <2>3. deletion'.at # "none" => deletion.at # "none" /\ deletion'.space = deletion.space
    BY <2>2 DEF FilesInv, FileTypes, RowTypes, Deletions, NoDeletion
  <2>4. ASSUME NEW s \in Spaces \ restored
        PROVE  /\ space[s] = "gone" => ~MayOwn(s)'
               /\ deletion'.at = "graph" /\ deletion'.space = s => ~MayOwn(s)'
    <3>1. CASE op1.kind = "purge" /\ deletion' = NoDeletion
      <4>1. op1.space = s => space[s] = "archived"
        BY <2>2, <3>1 DEF FilesInv, DeletionSound
      <4>2. QED
        BY <2>1, <3>1, <4>1 DEF FilesInv, DeletionSound, NoDeletion
    <3>2. CASE op1.kind # "purge"
      BY <2>1, <3>2 DEF FilesInv, DeletionSound
    <3>3. CASE /\ op1.kind = "purge" /\ deletion' = [deletion EXCEPT !.at = "graph"]
               /\ \A f \in Files : Live(f)' => file'[f].owner # op1.space
      <4>1. deletion'.space = op1.space /\ deletion' # NoDeletion
        BY <2>2, <3>3 DEF FilesInv, FileTypes, RowTypes, Deletions, NoDeletion
      <4>2. \/ op1.space \in restored
            \/ ~\E i \in 1 .. n : i # 1 /\ fileQueue[i].kind = "upload" /\ fileQueue[i].space = op1.space
        <5>1. ASSUME op1.space \notin restored, NEW i \in 1 .. n, i # 1,
                     fileQueue[i].kind = "upload", fileQueue[i].space = op1.space
              PROVE  FALSE
          <6>1. i < 1
            BY <1>1, <2>2, <3>3, <5>1 DEF FilesInv, DeletionSound, n
          <6>2. QED
            BY <6>1, <1>1
        <5>2. QED
          BY <5>1
      <4>3. QED
        BY <2>1, <3>3, <4>1, <4>2 DEF FilesInv, DeletionSound
    <3>4. QED
      BY <3>1, <3>2, <3>3
  <2>5. ASSUME NEW s \in Spaces \ restored, NEW i \in 1 .. n - 1, NEW j \in 1 .. n - 1,
               fileQueue'[i].kind = "upload", fileQueue'[j].kind = "purge",
               fileQueue'[i].space = s, fileQueue'[j].space = s
        PROVE  i < j
    <3>1. i + 1 < j + 1
      BY <1>2, <2>5 DEF FilesInv, DeletionSound, n
    <3>2. QED
      BY <3>1
  <2>6. deletion'.at # "none" => space[deletion'.space] = "archived" \/ deletion'.space \in restored
    BY <2>3 DEF FilesInv, DeletionSound
  <2>7. QED
    BY <1>2, <2>4, <2>5, <2>6 DEF DeletionSound
<1>10. QED
  BY <1>3, <1>5, <1>6, <1>8, <1>9 DEF FilesInv

(* What is done to Spaces leaves files and operations alone.               *)
LEMMA SpacesInv ==
    ASSUME FilesInv, UNCHANGED <<file, body, root, savedRoot, fileQueue>>,
           RowTypes', restored \subseteq restored',
           deletion.at = "files" => UNCHANGED deletion,
           deletion'.at # "none" => space'[deletion'.space] = "archived" \/ deletion'.space \in restored',
           \A s \in Spaces \ restored' :
              /\ space'[s] = "gone" => ~MayOwn(s)
              /\ deletion'.at = "graph" /\ deletion'.space = s => ~MayOwn(s)
    PROVE  FilesInv'
<1>1. FileTypes'
  BY DEF FilesInv, FileTypes
<1>2. ASSUME NEW i \in 1 .. Len(fileQueue)
      PROVE  IsFileOp(fileQueue[i])'
  <2>1. IsFileOp(fileQueue[i])
    BY DEF FilesInv, QueueSound
  <2>2. fileQueue[i].kind = "purge" => UNCHANGED deletion
    BY <2>1 DEF IsFileOp
  <2>3. QED
    BY <2>1, <2>2 DEF IsFileOp, Live, Owned
<1>3. QueueSound'
  BY <1>2 DEF FilesInv, QueueSound
<1>4. OpsApart' /\ BodiesSound' /\ RootSound'
  BY DEF FilesInv, OpsApart, BodiesSound, RootSound, InTrash, Running, op1, Live
<1>5. \A s \in Spaces : MayOwn(s)' <=> MayOwn(s)
  BY DEF MayOwn, Running, op1, Live
<1>6. DeletionSound'
  <2>1. \A s \in Spaces \ restored' : s \in Spaces \ restored
    OBVIOUS
  <2>2. QED
    BY <1>5, <2>1 DEF FilesInv, DeletionSound
<1>7. QED
  BY <1>1, <1>3, <1>4, <1>6 DEF FilesInv

LEMMA SpaceSteps ==
    ASSUME FilesInv, NEW s \in Spaces, Work(s) \/ ArchiveSpace(s) \/ RestoreSpace(s) \/ DeleteSpace(s)
    PROVE  FilesInv'
<1>1. RowTypes /\ DeletionSound /\ deletion \in Deletions /\ (deletion # NoDeletion <=> deletion.at # "none")
  BY DEF FilesInv, FileTypes, RowTypes, Deletions, NoDeletion
<1>2. CASE Work(s)
  BY <1>1, <1>2, SpacesInv DEF Work, RowTypes, DeletionSound, rootVars
<1>3. CASE ArchiveSpace(s)
  <2>1. RowTypes' /\ \A x \in Spaces : space'[x] = space[x] \/ (space[x] = "active" /\ space'[x] = "archived")
    BY <1>1, <1>3 DEF ArchiveSpace, RowTypes, rootVars
  <2>2. deletion.at # "none" => deletion.space \in Spaces
    BY <1>1 DEF Deletions, NoDeletion
  <2>3. QED
    BY <1>1, <1>3, <2>1, <2>2, SpacesInv DEF ArchiveSpace, DeletionSound, rootVars
<1>4. CASE RestoreSpace(s)
  <2>1. RowTypes' /\ \A x \in Spaces : x # s => space'[x] = space[x]
    BY <1>1, <1>4 DEF RestoreSpace, RowTypes, rootVars
  <2>2. space'[s] = "active"
    BY <1>1, <1>4 DEF RestoreSpace, RowTypes
  <2>3. deletion.at # "none" => deletion.space \in Spaces
    BY <1>1 DEF Deletions, NoDeletion
  <2>4. UNCHANGED <<deletion, file, body, root, savedRoot, fileQueue>> /\ restored \subseteq restored'
        /\ (deletion.at # "none" /\ deletion.space = s => s \in restored')
    BY <1>1, <1>4 DEF RestoreSpace, rootVars, Deleting
  <2>5. QED
    BY <1>1, <2>1, <2>2, <2>3, <2>4, SpacesInv DEF DeletionSound
<1>5. CASE DeleteSpace(s)
  <2>1. /\ UNCHANGED <<space, restored, file, body, root, savedRoot, fileQueue>> /\ space[s] = "archived"
        /\ deletion' = [at |-> "memory", space |-> s] /\ deletion.at = "none"
    BY <1>1, <1>5 DEF DeleteSpace, rootVars
  <2>2. RowTypes'
    BY <1>1, <2>1 DEF RowTypes, Deletions
  <2>3. QED
    BY <1>1, <2>1, <2>2, SpacesInv DEF DeletionSound
<1>6. QED
  BY <1>2, <1>3, <1>4, <1>5

LEMMA DeletionSteps ==
    ASSUME FilesInv, DeletionFails \/ PurgeGraph
    PROVE  FilesInv'
<1>1. RowTypes /\ DeletionSound /\ deletion \in Deletions
  BY DEF FilesInv, FileTypes, RowTypes
<1>2. CASE DeletionFails
  <2>1. /\ UNCHANGED <<space, restored, file, body, root, savedRoot, fileQueue>>
        /\ deletion' = NoDeletion /\ deletion.at = "memory"
    BY <1>2 DEF DeletionFails, rootVars
  <2>2. RowTypes'
    BY <1>1, <2>1 DEF RowTypes, Deletions
  <2>3. QED
    BY <1>1, <2>1, <2>2, SpacesInv DEF DeletionSound, NoDeletion
<1>3. CASE PurgeGraph
  <2>1. /\ UNCHANGED <<restored, file, body, root, savedRoot, fileQueue>>
        /\ deletion' = NoDeletion /\ deletion.at = "graph"
        /\ space' = [space EXCEPT ![deletion.space] = "gone"]
    BY <1>3 DEF PurgeGraph, rootVars
  <2>2. RowTypes' /\ \A x \in Spaces : space'[x] = space[x] \/ x = deletion.space
    BY <1>1, <2>1 DEF RowTypes, Deletions
  <2>3. QED
    BY <1>1, <2>1, <2>2, SpacesInv DEF DeletionSound, NoDeletion
<1>4. QED
  BY <1>2, <1>3

LEMMA RequestSteps ==
    ASSUME FilesInv,
           \/ \E s \in Spaces, f \in Files :
                 \/ RequestUpload(s, f) \/ RequestFileDeletion(s, f)
                 \/ \E shared \in SUBSET (Spaces \ {s}) : RequestSharing(s, f, shared)
           \/ \E r \in Roots : RequestMigration(r)
           \/ MemoryRewritten
    PROVE  FilesInv'
<1>1. RowTypes
  BY DEF FilesInv, FileTypes
<1>2. ASSUME NEW s \in Spaces, NEW f \in Files, RequestUpload(s, f)
      PROVE  FilesInv'
  <2> DEFINE o == [kind |-> "upload", at |-> "stream", space |-> s, file |-> f]
  <2>1. IsFileOp(o)' /\ HasToWait(o) /\ o.kind = "upload"
    BY <1>2 DEF RequestUpload, IsFileOp, HasToWait
  <2>2. QED
    BY <1>2, <2>1, QueuedInv DEF RequestUpload, Queue, MayChange, spaceVars, rootVars
<1>3. ASSUME NEW s \in Spaces, NEW f \in Files, RequestFileDeletion(s, f)
      PROVE  FilesInv'
  <2> DEFINE o == [kind |-> "delete", at |-> "check", space |-> s, file |-> f, ifMatch |-> file[f].version]
  <2>1. IsFileOp(o)' /\ HasToWait(o) /\ o.kind = "delete" /\ o.file = f
    BY <1>3 DEF RequestFileDeletion, IsFileOp, HasToWait
  <2>2. QED
    BY <1>3, <2>1, QueuedInv DEF RequestFileDeletion, Queue, spaceVars, rootVars
<1>4. ASSUME NEW s \in Spaces, NEW f \in Files, NEW shared \in SUBSET (Spaces \ {s}),
             RequestSharing(s, f, shared)
      PROVE  FilesInv'
  <2> DEFINE o == [kind |-> "share", at |-> "check", space |-> s, file |-> f,
                   ifMatch |-> file[f].version, shared |-> shared]
  <2>1. IsFileOp(o)' /\ HasToWait(o) /\ o.kind = "share" /\ o.file = f
    BY <1>4 DEF RequestSharing, IsFileOp, HasToWait
  <2>2. QED
    BY <1>4, <2>1, QueuedInv DEF RequestSharing, Queue, spaceVars, rootVars
<1>5. ASSUME NEW r \in Roots, RequestMigration(r)
      PROVE  FilesInv'
  <2> DEFINE o == [kind |-> "migrate", at |-> "check", file |-> "none", to |-> r, moved |-> {}]
  <2>1. DOMAIN o = {"kind", "at", "file", "to", "moved"}
    OBVIOUS
  <2>2. IsFileOp(o)' /\ HasToWait(o) /\ o.kind = "migrate"
    BY <1>5, <2>1 DEF RequestMigration, IsFileOp, HasToWait
  <2>3. QED
    BY <1>5, <2>2, QueuedInv DEF RequestMigration, Queue, spaceVars, rootVars
<1>6. CASE MemoryRewritten
  <2> DEFINE o == [kind |-> "purge", at |-> "list", space |-> deletion.space, file |-> "none",
                   rest |-> {}, moved |-> {}, old |-> << >>]
  <2>1. /\ deletion.at = "memory" /\ deletion.space \in Spaces
        /\ deletion'.at = "files" /\ deletion'.space = deletion.space /\ deletion' \in Deletions
    BY <1>1, <1>6 DEF MemoryRewritten, RowTypes, Deletions, NoDeletion
  <2>2. DOMAIN o = {"kind", "at", "space", "file", "rest", "moved", "old"}
    OBVIOUS
  <2>3. IsFileOp(o)' /\ HasToWait(o) /\ o.kind = "purge"
    BY <2>1, <2>2 DEF IsFileOp, HasToWait
  <2>4. QED
    BY <1>6, <2>1, <2>3, QueuedInv DEF MemoryRewritten, Queue, rootVars
<1>7. QED
  BY <1>2, <1>3, <1>4, <1>5, <1>6

-----------------------------------------------------------------------------
(* Operations *)

(* While no deletion and no move of the root is under way, every file has  *)
(* its body under the root, and nothing else is there.                     *)
LEMMA CalmBodies ==
    ASSUME FilesInv, fileQueue # << >>,
           HasToWait(op1) \/ op1.kind \in {"upload", "share"}
    PROVE  /\ savedRoot = root /\ root \in Roots
           /\ root \notin {"trash", "temp", "none"}
           /\ \A f \in Files : /\ body[f] # "trash"
                               /\ body[f] = "temp" => Running("upload", "place") /\ op1.file = f
                               /\ Live(f) <=> body[f] = root
                               /\ body[f] \in Roots => body[f] = root
<1>1. IsFileOp(op1)
  BY HeadOp
<1>2. ~Running("delete", "flush") /\ ~Running("purge", "move") /\ ~Running("purge", "remove")
      /\ ~Running("migrate", "move") /\ ~Running("migrate", "reopen")
  BY <1>1 DEF Running, HasToWait, IsFileOp
<1>3. savedRoot = root /\ root \in Roots /\ root \notin {"trash", "temp", "none"}
  BY <1>2, RootsAssumption DEF FilesInv, FileTypes, RowTypes, RootSound
<1>4. QED
  BY <1>2, <1>3 DEF FilesInv, BodiesSound, InTrash

LEMMA OwnersMayOwn ==
    ASSUME NEW f \in Files, Live(f)
    PROVE  MayOwn(file[f].owner)
BY DEF MayOwn

LEMMA UploadSteps ==
    ASSUME FilesInv, UploadStreams \/ UploadPlaced \/ UploadFails
    PROVE  FilesInv'
<1> DEFINE g == op1.file
<1>1. /\ fileQueue # << >> /\ op1.kind = "upload" /\ IsFileOp(op1) /\ RowTypes
      /\ op1 = fileQueue[1] /\ 1 \in 1 .. Len(fileQueue)
  <2>1. fileQueue # << >> /\ op1.kind = "upload"
    BY DEF UploadStreams, UploadPlaced, UploadFails, Running
  <2>2. QED
    BY <2>1, HeadOp DEF FilesInv, FileTypes
<1>2. g \in Files /\ op1.space \in Spaces /\ MayOwn(op1.space)
  BY <1>1 DEF IsFileOp, MayOwn
<1>3. CASE UploadStreams
  <2>8. PICK o : o = [kind |-> "upload", at |-> "place", space |-> op1.space, file |-> g, path |-> root]
    OBVIOUS
  <2>9. /\ DOMAIN o = {"kind", "at", "space", "file", "path"} /\ o.kind = "upload" /\ o.at = "place"
        /\ o.space = op1.space /\ o.file = g /\ o.path = root
    BY <2>8
  <2>1. /\ UNCHANGED <<space, deletion, restored, file, root, savedRoot>> /\ op1.at = "stream"
        /\ body' = [body EXCEPT ![g] = "temp"] /\ Step(o)
    BY <1>3, <2>8 DEF UploadStreams, spaceVars, rootVars, Running
  <2>2. IsFileOp(o)'
    BY <1>1, <1>2, <2>1, <2>9 DEF IsFileOp
  <2>3. RowTypes' /\ \A f \in Files : body'[f] = IF f = g THEN "temp" ELSE body[f]
    BY <1>1, <1>2, <2>1 DEF RowTypes
  <2>4. file[g] = NoFile
    BY <1>1, <2>1 DEF IsFileOp
  <2>5. ASSUME op1' = o, fileQueue' # << >>
        PROVE  BodiesSound' /\ RootSound'
    <3>1. \A f \in Files : ~InTrash(f)' /\ (Live(f)' <=> Live(f)) /\ body[f] # "temp" /\ ~Live(g)
      BY <1>1, <2>1, <2>4, <2>5, <2>9, CalmBodies DEF InTrash, Running, Live, NoFile
    <3>2. QED
      BY <1>1, <2>1, <2>3, <2>5, <2>9, <3>1, CalmBodies, RootsAssumption DEF BodiesSound, RootSound, Running
  <2>6. /\ o.kind = op1.kind /\ o.file = op1.file /\ o.space = op1.space
        /\ \A f \in Files : file[f] = NoFile => file'[f] = NoFile
        /\ \A f \in Files : Live(f)' => MayOwn(file'[f].owner)
    BY <1>1, <2>1, <2>9, OwnersMayOwn DEF Live
  <2>7. QED
    BY <1>1, <2>1, <2>2, <2>3, <2>5, <2>6, <2>9, StepInv
<1>4. CASE UploadPlaced
  <2>10. PICK o : o = [op1 EXCEPT !.at = "flush"]
    OBVIOUS
  <2> DEFINE row == [state |-> "live", owner |-> op1.space, shared |-> {}, version |-> 1]
  <2>1. /\ UNCHANGED <<space, deletion, restored, root, savedRoot>> /\ op1.at = "place"
        /\ body' = [body EXCEPT ![g] = op1.path] /\ file' = [file EXCEPT ![g] = row] /\ Step(o)
    BY <1>4, <2>10 DEF UploadPlaced, spaceVars, rootVars, Running
  <2>2. op1.path = root /\ DOMAIN op1 = {"kind", "at", "space", "file", "path"}
    BY <1>1, <2>1 DEF IsFileOp
  <2>3. /\ o.kind = "upload" /\ o.at = "flush" /\ o.space = op1.space /\ o.file = g /\ o.path = root
        /\ DOMAIN o = {"kind", "at", "space", "file", "path"}
    BY <1>1, <2>2, <2>10
  <2>4. IsFileOp(o)'
    BY <1>2, <2>1, <2>3 DEF IsFileOp
  <2>5. row \in LiveRows
    BY <1>2 DEF LiveRows
  <2>6. /\ RowTypes'
        /\ \A f \in Files : /\ body'[f] = IF f = g THEN root ELSE body[f]
                            /\ file'[f] = IF f = g THEN row ELSE file[f]
    BY <1>1, <1>2, <2>1, <2>2, <2>5 DEF RowTypes, FileRows
  <2>7. ASSUME op1' = o, fileQueue' # << >>
        PROVE  BodiesSound' /\ RootSound'
    <3>1. \A f \in Files : ~InTrash(f)' /\ (Live(f)' <=> Live(f) \/ f = g) /\ (body[f] = "temp" => f = g)
      BY <1>1, <2>1, <2>3, <2>6, <2>7, CalmBodies DEF InTrash, Running, Live
    <3>2. QED
      BY <1>1, <2>1, <2>3, <2>6, <2>7, <3>1, CalmBodies, RootsAssumption DEF BodiesSound, RootSound, Running
  <2>8. /\ \A f \in Files : file[f] = NoFile => file'[f] = NoFile \/ (op1.kind = "upload" /\ f = op1.file /\ op1.at # "flush")
        /\ \A f \in Files : Live(f)' => MayOwn(file'[f].owner)
    BY <1>1, <1>2, <2>1, <2>6, OwnersMayOwn DEF Live
  <2>9. QED
    BY <1>1, <2>1, <2>3, <2>4, <2>6, <2>7, <2>8, StepInv
<1>5. CASE UploadFails
  <2>1. /\ UNCHANGED <<space, deletion, restored, root, savedRoot>> /\ Done
        /\ body' = [body EXCEPT ![g] = "none"] /\ file' = [file EXCEPT ![g] = NoFile]
    BY <1>5 DEF UploadFails, spaceVars, rootVars
  <2>2. /\ RowTypes'
        /\ \A f \in Files : /\ body'[f] = IF f = g THEN "none" ELSE body[f]
                            /\ file'[f] = IF f = g THEN NoFile ELSE file[f]
    BY <1>1, <1>2, <2>1 DEF RowTypes, FileRows
  <2>3. \A f \in Files : Live(f)' <=> Live(f) /\ f # g
    BY <2>2 DEF Live, NoFile
  <2>4. /\ \A f \in Files : file[f] = NoFile => file'[f] = NoFile
        /\ \A f \in Files : Live(f)' => MayOwn(file'[f].owner)
    BY <2>2, <2>3, OwnersMayOwn
  <2>5. /\ \A f \in Files : /\ body'[f] \notin {"trash", "temp"}
                            /\ Live(f)' <=> body'[f] = root'
                            /\ body'[f] \in Roots => body'[f] = root'
        /\ savedRoot' = root'
    BY <1>1, <2>1, <2>2, <2>3, CalmBodies, RootsAssumption
  <2>6. QED
    BY <1>1, <2>1, <2>2, <2>4, <2>5, DoneInv
<1>6. QED
  BY <1>3, <1>4, <1>5

LEMMA SharingSteps ==
    ASSUME FilesInv, ChangeSharing \/ SharingNotSaved \/ Saved
    PROVE  FilesInv'
<1> DEFINE g == op1.file
<1>1. /\ fileQueue # << >> /\ op1.kind \in {"share", "upload"} /\ IsFileOp(op1) /\ RowTypes
  <2>1. fileQueue # << >> /\ op1.kind \in {"share", "upload"}
    BY DEF ChangeSharing, SharingNotSaved, Saved, Running
  <2>2. QED
    BY <2>1, HeadOp DEF FilesInv, FileTypes
<1>2. g \in Files
  BY <1>1 DEF IsFileOp
<1>3. CASE Done /\ UNCHANGED <<space, deletion, restored, root, savedRoot, file, body>> /\ ~Running("upload", "place")
  <2>1. \A f \in Files : (Live(f)' <=> Live(f)) /\ (Live(f)' => MayOwn(file'[f].owner))
    BY <1>3, OwnersMayOwn DEF Live
  <2>2. RowTypes'
    BY <1>1, <1>3 DEF RowTypes
  <2>3. /\ \A f \in Files : /\ body'[f] \notin {"trash", "temp"}
                            /\ Live(f)' <=> body'[f] = root'
                            /\ body'[f] \in Roots => body'[f] = root'
        /\ savedRoot' = root'
    BY <1>1, <1>3, <2>1, CalmBodies
  <2>4. QED
    BY <1>1, <1>3, <2>1, <2>2, <2>3, DoneInv
<1>4. CASE SharingNotSaved
  <2>1. /\ UNCHANGED <<space, deletion, restored, root, savedRoot, body>> /\ Done
        /\ op1.kind = "share" /\ op1.at = "flush" /\ file' = [file EXCEPT ![g] = op1.old]
    BY <1>4 DEF SharingNotSaved, spaceVars, rootVars, Running
  <2>2. op1.old \in LiveRows /\ Live(g) /\ op1.old.owner \in Spaces /\ op1.old.state = "live" /\ op1.old # NoFile
    BY <1>1, <2>1 DEF IsFileOp, LiveRows, NoFile
  <2>3. RowTypes' /\ \A f \in Files : file'[f] = IF f = g THEN op1.old ELSE file[f]
    BY <1>1, <1>2, <2>1, <2>2 DEF RowTypes, FileRows
  <2>4. \A f \in Files : /\ Live(f)' <=> Live(f)
                         /\ file[f] = NoFile => file'[f] = NoFile
    BY <2>2, <2>3 DEF Live, NoFile
  <2>5. \A f \in Files : Live(f)' => MayOwn(file'[f].owner)
    <3>1. MayOwn(op1.old.owner)
      BY <1>1, <2>1 DEF MayOwn, Running
    <3>2. QED
      BY <2>3, <2>4, <3>1, OwnersMayOwn
  <2>6. /\ \A f \in Files : /\ body'[f] \notin {"trash", "temp"}
                            /\ Live(f)' <=> body'[f] = root'
                            /\ body'[f] \in Roots => body'[f] = root'
        /\ savedRoot' = root'
    BY <1>1, <2>1, <2>4, CalmBodies DEF Running
  <2>7. QED
    BY <1>1, <2>1, <2>3, <2>4, <2>5, <2>6, DoneInv
<1>5. CASE ChangeSharing /\ ~Done
  <2>11. PICK o : o = [kind |-> "share", at |-> "flush", file |-> g, old |-> file[g]]
    OBVIOUS
  <2> DEFINE row == [file[g] EXCEPT !.shared = op1.shared, !.version = @ + 1]
  <2>1. /\ UNCHANGED <<space, deletion, restored, root, savedRoot, body>> /\ Step(o) /\ Matches
        /\ op1.kind = "share" /\ op1.at = "check"
        /\ file' = [file EXCEPT ![g].shared = op1.shared, ![g].version = @ + 1]
    BY <1>5, <2>11 DEF ChangeSharing, spaceVars, rootVars, Running
  <2>2. Live(g) /\ file[g] \in LiveRows /\ op1.shared \in SUBSET Spaces
    <3>1. Live(g) /\ file[g] \in FileRows
      BY <1>1, <1>2, <2>1 DEF Matches, RowTypes
    <3>2. file[g] \in LiveRows
      BY <3>1 DEF Live, FileRows, DeadRows, NoFile
    <3>3. op1.shared \in SUBSET Spaces
      BY <1>1, <2>1 DEF IsFileOp
    <3>4. QED
      BY <3>1, <3>2, <3>3
  <2>3. row \in LiveRows /\ row.state = "live" /\ row.owner = file[g].owner /\ row # NoFile
    <3>1. PICK x : x = file[g]
      OBVIOUS
    <3>2. x \in [state : {"live"}, owner : Spaces, shared : SUBSET Spaces, version : Nat]
      BY <2>2, <3>1 DEF LiveRows
    <3>3. row = [state |-> "live", owner |-> x.owner, shared |-> op1.shared, version |-> x.version + 1]
      <4>1. PICK y : y = [x EXCEPT !.shared = op1.shared]
        OBVIOUS
      <4>2. y = [state |-> "live", owner |-> x.owner, shared |-> op1.shared, version |-> x.version]
        BY <3>2, <4>1
      <4>3. row = [y EXCEPT !.version = @ + 1]
        BY <3>1, <4>1
      <4>4. QED
        BY <4>2, <4>3
    <3>4. x.owner \in Spaces /\ x.version + 1 \in Nat
      BY <3>2
    <3>5. row \in LiveRows
      BY <2>2, <3>3, <3>4 DEF LiveRows
    <3>6. row.state = "live" /\ row.owner = x.owner
      BY <3>3
    <3>7. row # NoFile
      BY <3>6 DEF NoFile
    <3>8. QED
      BY <3>1, <3>5, <3>6, <3>7
  <2>4. \A f \in Files : file'[f] = IF f = g THEN row ELSE file[f]
    BY <1>1, <1>2, <2>1, <2>2 DEF RowTypes
  <2>5. file' \in [Files -> FileRows]
    <3>1. file' = [f \in Files |-> file'[f]]
      BY <1>1, <2>1 DEF RowTypes
    <3> HIDE DEF row
    <3>2. \A f \in Files : file'[f] \in FileRows
      BY <1>1, <2>3, <2>4 DEF RowTypes, FileRows
    <3>3. QED
      BY <3>1, <3>2
  <2> HIDE DEF row
  <2>6. RowTypes' /\ \A f \in Files : (Live(f)' <=> Live(f)) /\ file'[f].owner = file[f].owner
                                      /\ (file[f] = NoFile => file'[f] = NoFile)
    <3>1. RowTypes'
      BY <1>1, <2>1, <2>5 DEF RowTypes
    <3>2. file[g].state = "live"
      BY <2>2 DEF Live
    <3>3. QED
      BY <2>3, <2>4, <3>1, <3>2 DEF Live, NoFile
  <2>7. IsFileOp(o)'
    BY <1>2, <2>2, <2>6, <2>11 DEF IsFileOp
  <2>8. ASSUME op1' = o, fileQueue' # << >>
        PROVE  BodiesSound' /\ RootSound'
    <3>1. \A f \in Files : ~InTrash(f)' /\ body[f] # "temp"
      BY <1>1, <2>1, <2>8, <2>11, CalmBodies DEF InTrash, Running
    <3>2. QED
      BY <1>1, <2>1, <2>6, <2>8, <2>11, <3>1, CalmBodies DEF BodiesSound, RootSound, Running
  <2>9. /\ o.kind = op1.kind /\ o.kind = "share" /\ o.file = op1.file /\ o.old.owner = file[g].owner
        /\ \A f \in Files : Live(f)' => MayOwn(file'[f].owner)
        /\ MayOwn(file[g].owner)
    BY <1>2, <2>1, <2>2, <2>6, <2>11, OwnersMayOwn
  <2>10. QED
    <3>1. o.at = "flush" /\ o.kind # "upload" /\ o.kind # "purge" /\ MayOwn(o.old.owner)
      BY <2>9, <2>11
    <3>2. RowTypes' /\ \A f \in Files : file[f] = NoFile => file'[f] = NoFile
      BY <2>6
    <3>3. QED
      BY <1>1, <2>1, <2>7, <2>8, <2>9, <3>1, <3>2, StepInv
<1>6. QED
  <2>1. CASE Saved
    BY <1>3, <2>1 DEF Saved, spaceVars, rootVars, Running
  <2>2. CASE ChangeSharing /\ Done
    <3>1. CASE UNCHANGED file
      BY <1>3, <2>2, <3>1 DEF ChangeSharing, spaceVars, rootVars, Running
    <3>2. CASE ~UNCHANGED file
      <4>1. PICK o : o = [kind |-> "share", at |-> "flush", file |-> g, old |-> file[g]] /\ Step(o)
        BY <2>2, <3>2 DEF ChangeSharing
      <4>2. Len(<<o>> \o Tail(fileQueue)) # Len(Tail(fileQueue))
        BY <1>1, StepFacts, TailFacts DEF FilesInv, FileTypes
      <4>3. QED
        BY <2>2, <4>1, <4>2 DEF Step, Done
    <3>3. QED
      BY <3>1, <3>2
  <2>3. QED
    BY <1>4, <1>5, <2>1, <2>2

LEMMA FileDeletionSteps ==
    ASSUME FilesInv, DeleteFile \/ DeletionSaved \/ DeletionNotSaved
    PROVE  FilesInv'
<1> DEFINE g == op1.file
<1>1. /\ fileQueue # << >> /\ op1.kind = "delete" /\ IsFileOp(op1) /\ RowTypes /\ g \in Files
  <2>1. fileQueue # << >> /\ op1.kind = "delete"
    BY DEF DeleteFile, DeletionSaved, DeletionNotSaved, Running
  <2>2. QED
    BY <2>1, HeadOp DEF FilesInv, FileTypes, IsFileOp
<1>2. CASE Running("delete", "check") /\ Done
           /\ UNCHANGED <<space, deletion, restored, root, savedRoot, file, body>>
  <2>1. \A f \in Files : (Live(f)' <=> Live(f)) /\ (Live(f)' => MayOwn(file'[f].owner))
    BY <1>2, OwnersMayOwn DEF Live
  <2>2. RowTypes' /\ HasToWait(op1)
    BY <1>1, <1>2 DEF RowTypes, HasToWait, Running
  <2>3. /\ \A f \in Files : /\ body'[f] \notin {"trash", "temp"}
                            /\ Live(f)' <=> body'[f] = root'
                            /\ body'[f] \in Roots => body'[f] = root'
        /\ savedRoot' = root'
    BY <1>1, <1>2, <2>1, <2>2, CalmBodies DEF Running
  <2>4. QED
    BY <1>1, <1>2, <2>1, <2>2, <2>3, DoneInv
<1>3. CASE DeleteFile /\ ~Done
  <2>1. PICK o : o = [kind |-> "delete", at |-> "flush", file |-> g, old |-> file[g]]
    OBVIOUS
  <2>2. o.kind = "delete" /\ o.at = "flush" /\ o.file = g /\ o.old = file[g]
    BY <2>1
  <2>3. /\ UNCHANGED <<space, deletion, restored, root, savedRoot>> /\ Step(o) /\ Matches
        /\ op1.at = "check" /\ HasToWait(op1)
        /\ body' = [body EXCEPT ![g] = "trash"] /\ file' = [file EXCEPT ![g] = Deleted(@)]
    BY <1>3, <2>1 DEF DeleteFile, spaceVars, rootVars, Running, HasToWait
  <2>4. Live(g) /\ file[g] \in LiveRows /\ file[g].state = "live"
    BY <1>1, <2>3 DEF Matches, Live, RowTypes, FileRows, DeadRows, NoFile
  <2>5. PICK row : row = Deleted(file[g])
    OBVIOUS
  <2>6. row \in DeadRows /\ row.state = "deleted"
    <3>1. PICK x : x = file[g]
      OBVIOUS
    <3>2. x \in [state : {"live"}, owner : Spaces, shared : SUBSET Spaces, version : Nat]
      BY <2>4, <3>1 DEF LiveRows
    <3>3. row = [state |-> "deleted", owner |-> x.owner, shared |-> x.shared, version |-> x.version + 1]
      BY <2>5, <3>1, <3>2 DEF Deleted
    <3>4. x.owner \in Spaces /\ x.version + 1 \in Nat /\ x.shared \in SUBSET Spaces
      BY <3>2
    <3>5. QED
      BY <3>3, <3>4 DEF DeadRows
  <2>7. /\ \A f \in Files : /\ body'[f] = IF f = g THEN "trash" ELSE body[f]
                            /\ file'[f] = IF f = g THEN row ELSE file[f]
        /\ RowTypes'
    BY <1>1, <2>3, <2>5, <2>6 DEF RowTypes, FileRows
  <2>8. /\ \A f \in Files : Live(f)' <=> Live(f) /\ f # g
        /\ \A f \in Files : file[f] = NoFile => file'[f] = NoFile
        /\ \A f \in Files : Live(f)' => MayOwn(file'[f].owner)
    BY <2>4, <2>6, <2>7, OwnersMayOwn DEF Live, NoFile
  <2>9. IsFileOp(o)'
    BY <1>1, <2>2, <2>4, <2>6, <2>7 DEF IsFileOp
  <2>10. ASSUME op1' = o, fileQueue' # << >>
         PROVE  BodiesSound' /\ RootSound'
    <3>1. \A f \in Files : (InTrash(f)' <=> f = g) /\ body[f] # "temp" /\ body[f] # "trash"
      BY <1>1, <2>2, <2>3, <2>10, CalmBodies DEF InTrash, Running
    <3>2. QED
      BY <1>1, <2>2, <2>3, <2>7, <2>8, <2>10, <3>1, CalmBodies, RootsAssumption DEF BodiesSound, RootSound, Running
  <2>11. MayOwn(o.old.owner) /\ o.kind = op1.kind
    BY <1>1, <2>2, <2>4, OwnersMayOwn
  <2>12. QED
    BY <1>1, <2>2, <2>3, <2>7, <2>8, <2>9, <2>10, <2>11, StepInv
<1>4. CASE Running("delete", "flush") /\ Done /\ UNCHANGED <<space, deletion, restored, root, savedRoot>>
           /\ \/ UNCHANGED file /\ body' = [body EXCEPT ![g] = "none"]
              \/ file' = [file EXCEPT ![g] = op1.old] /\ body' = [body EXCEPT ![g] = root]
  <2>1. /\ op1.old \in LiveRows /\ op1.old.state = "live" /\ file[g] \in DeadRows /\ file[g].state = "deleted"
    BY <1>1, <1>4 DEF Running, IsFileOp, LiveRows, DeadRows
  <2>2. /\ \A f \in Files : /\ body[f] = "trash" <=> f = g
                            /\ body[f] # "temp"
                            /\ ~Live(f) => body[f] \notin Roots
                            /\ Live(f) => body[f] = root
        /\ savedRoot = root /\ root \in Roots /\ root \notin {"trash", "temp", "none"}
    BY <1>1, <1>4, RootsAssumption DEF FilesInv, BodiesSound, RootSound, InTrash, Running, RowTypes
  <2>3. RowTypes' /\ \A f \in Files : /\ f # g => body'[f] = body[f] /\ file'[f] = file[f]
                                      /\ \/ file'[g] = file[g] /\ body'[g] = "none"
                                         \/ file'[g] = op1.old /\ body'[g] = root
    BY <1>1, <1>4, <2>1, <2>2 DEF RowTypes, FileRows
  <2>4. MayOwn(op1.old.owner)
    BY <1>1, <1>4 DEF MayOwn
  <2>5. /\ \A f \in Files : file[f] = NoFile => file'[f] = NoFile
        /\ \A f \in Files : Live(f)' => MayOwn(file'[f].owner)
    BY <2>1, <2>3, <2>4, OwnersMayOwn DEF Live, NoFile
  <2>6. /\ \A f \in Files : /\ body'[f] \notin {"trash", "temp"}
                            /\ Live(f)' <=> body'[f] = root'
                            /\ body'[f] \in Roots => body'[f] = root'
        /\ savedRoot' = root'
    <3>1. ASSUME NEW f \in Files
          PROVE  /\ body'[f] \notin {"trash", "temp"}
                 /\ Live(f)' <=> body'[f] = root
                 /\ body'[f] \in Roots => body'[f] = root
      <4>1. CASE f # g
        BY <2>2, <2>3, <4>1 DEF Live, RowTypes
      <4>2. CASE f = g
        BY <2>1, <2>2, <2>3, <4>2, RootsAssumption DEF Live
      <4>3. QED
        BY <4>1, <4>2
    <3>2. QED
      BY <1>4, <2>2, <3>1
  <2>7. QED
    BY <1>1, <1>4, <2>3, <2>5, <2>6, DoneInv
<1>5. QED
  <2>1. CASE DeletionSaved \/ DeletionNotSaved
    BY <1>4, <2>1 DEF DeletionSaved, DeletionNotSaved, spaceVars, rootVars
  <2>2. CASE DeleteFile /\ Done
    <3>1. CASE UNCHANGED <<file, body>>
      BY <1>2, <2>2, <3>1 DEF DeleteFile, spaceVars, rootVars
    <3>2. CASE ~UNCHANGED <<file, body>>
      <4>1. PICK o : o = [kind |-> "delete", at |-> "flush", file |-> g, old |-> file[g]] /\ Step(o)
        BY <2>2, <3>2 DEF DeleteFile
      <4>2. Len(<<o>> \o Tail(fileQueue)) # Len(Tail(fileQueue))
        BY <1>1, StepFacts, TailFacts DEF FilesInv, FileTypes
      <4>3. QED
        BY <2>2, <4>1, <4>2 DEF Step, Done
    <3>3. QED
      BY <3>1, <3>2
  <2>3. QED
    BY <1>3, <2>1, <2>2

-----------------------------------------------------------------------------
(* The move to another root *)

LEMMA RefusedStep ==
    ASSUME FilesInv, RefusedAtOnce
    PROVE  FilesInv'
<1>1. /\ fileQueue # << >> /\ op1.kind \in {"delete", "migrate"} /\ op1.at = "check" /\ HasToWait(op1)
      /\ Done /\ UNCHANGED <<space, deletion, restored, root, savedRoot, file, body>>
  BY DEF RefusedAtOnce, spaceVars, rootVars, Running, HasToWait
<1>2. \A f \in Files : (Live(f)' <=> Live(f)) /\ (Live(f)' => MayOwn(file'[f].owner))
  BY <1>1, OwnersMayOwn DEF Live
<1>3. RowTypes'
  BY <1>1 DEF FilesInv, FileTypes, RowTypes
<1>4. /\ \A f \in Files : /\ body'[f] \notin {"trash", "temp"}
                          /\ Live(f)' <=> body'[f] = root'
                          /\ body'[f] \in Roots => body'[f] = root'
      /\ savedRoot' = root'
  BY <1>1, <1>2, CalmBodies DEF Running
<1>5. QED
  BY <1>1, <1>2, <1>3, <1>4, DoneInv

(* Bodies are under the old root or under the new one.                     *)
LEMMA MovingBodies ==
    ASSUME FilesInv, Running("migrate", "move") \/ Running("migrate", "reopen")
    PROVE  /\ root \in Roots /\ op1.to \in Roots /\ op1.to # root
           /\ {root, op1.to} \cap {"trash", "temp", "none"} = {}
           /\ \A f \in Files : /\ body[f] \notin {"trash", "temp"}
                               /\ ~Live(f) => body[f] \notin Roots
                               /\ Live(f) => body[f] \in {root, op1.to}
<1>1. IsFileOp(op1) /\ op1.kind = "migrate" /\ op1.at # "check" /\ op1.at \in {"move", "reopen"}
  BY HeadOp DEF Running
<1>2. \A f \in Files : ~InTrash(f) /\ ~Running("upload", "place") /\ ~Running("purge", "move")
  BY <1>1 DEF InTrash, Running
<1>3. root \in Roots /\ op1.to \in Roots /\ op1.to # root
  BY <1>1 DEF IsFileOp, FilesInv, FileTypes, RowTypes
<1>4. QED
  BY <1>1, <1>2, <1>3, RootsAssumption DEF FilesInv, BodiesSound

LEMMA MigrationSteps ==
    ASSUME FilesInv,
           \/ MigrationStarts \/ \E s \in Spaces : MoveDirectory(s)
           \/ SaveRoot \/ Reopen \/ MigrationFails
    PROVE  FilesInv'
<1>1. /\ fileQueue # << >> /\ op1.kind = "migrate" /\ IsFileOp(op1) /\ RowTypes
      /\ op1.to \in Roots /\ op1.moved \in SUBSET Spaces /\ op1.file = "none"
      /\ DOMAIN op1 = {"kind", "at", "file", "to", "moved"}
      /\ UNCHANGED <<space, deletion, restored, file>>
  <2>1. fileQueue # << >> /\ op1.kind = "migrate" /\ UNCHANGED <<space, deletion, restored, file>>
    BY DEF MigrationStarts, MoveDirectory, SaveRoot, Reopen, MigrationFails, Running, spaceVars
  <2>2. QED
    BY <2>1, HeadOp DEF FilesInv, FileTypes, IsFileOp
<1>2. /\ \A f \in Files : (Live(f)' <=> Live(f)) /\ (Live(f)' => MayOwn(file'[f].owner))
      /\ \A f \in Files : file[f] = NoFile => file'[f] = NoFile
  BY <1>1, OwnersMayOwn DEF Live
<1>3. CASE MigrationStarts
  <2>1. PICK o : o = [op1 EXCEPT !.at = "move"]
    OBVIOUS
  <2>2. /\ o.kind = "migrate" /\ o.at = "move" /\ o.file = "none" /\ o.to = op1.to /\ o.moved = op1.moved
        /\ DOMAIN o = {"kind", "at", "file", "to", "moved"}
    BY <1>1, <2>1
  <2>3. Step(o) /\ UNCHANGED <<body, root, savedRoot>> /\ root # op1.to /\ HasToWait(op1)
    BY <1>3, <2>1 DEF MigrationStarts, rootVars, Running, HasToWait
  <2>4. IsFileOp(o)' /\ RowTypes'
    BY <1>1, <2>2, <2>3 DEF IsFileOp, RowTypes
  <2>5. ASSUME op1' = o, fileQueue' # << >>
        PROVE  BodiesSound' /\ RootSound'
    <3>1. \A f \in Files : ~InTrash(f)' /\ body[f] \notin {"temp", "trash"}
      BY <1>1, <2>2, <2>3, <2>5, CalmBodies DEF InTrash, Running
    <3>2. QED
      BY <1>1, <1>2, <2>2, <2>3, <2>5, <3>1, CalmBodies DEF BodiesSound, RootSound, Running
  <2>6. QED
    BY <1>1, <1>2, <2>2, <2>3, <2>4, <2>5, StepInv
<1>4. ASSUME NEW s \in Spaces, MoveDirectory(s)
      PROVE  FilesInv'
  <2>1. PICK o : o = [op1 EXCEPT !.moved = @ \cup {s}]
    OBVIOUS
  <2>2. Step(o) /\ UNCHANGED <<root, savedRoot>> /\ op1.at = "move" /\ Running("migrate", "move")
        /\ body' = [f \in Files |-> IF body[f] = root /\ file[f].owner = s THEN op1.to ELSE body[f]]
    BY <1>4, <2>1 DEF MoveDirectory, rootVars, Running
  <2>3. /\ o.kind = "migrate" /\ o.at = "move" /\ o.file = "none" /\ o.to = op1.to /\ o.moved = op1.moved \cup {s}
        /\ DOMAIN o = {"kind", "at", "file", "to", "moved"}
    BY <1>1, <2>1, <2>2
  <2>4. root # op1.to
    BY <1>1, <2>2 DEF IsFileOp
  <2>5. IsFileOp(o)' /\ RowTypes'
    <3>1. body' \in [Files -> Roots \cup {"temp", "trash", "none"}]
      BY <1>1, <2>2 DEF RowTypes
    <3>2. op1.moved \cup {s} \in SUBSET Spaces
      BY <1>1
    <3>3. QED
      BY <1>1, <2>2, <2>3, <2>4, <3>1, <3>2 DEF IsFileOp, RowTypes
  <2>6. ASSUME op1' = o, fileQueue' # << >>
        PROVE  BodiesSound' /\ RootSound'
    <3>1. \A f \in Files : ~InTrash(f)' /\ ~Running("upload", "place")' /\ ~Running("migrate", "reopen")'
      BY <2>3, <2>6 DEF InTrash, Running
    <3>2. \A f \in Files : /\ body'[f] \notin {"trash", "temp"}
                           /\ ~Live(f) => body'[f] \notin Roots
                           /\ Live(f) => body'[f] \in {root, op1.to}
      <4> SUFFICES ASSUME NEW f \in Files
                   PROVE  /\ body'[f] \notin {"trash", "temp"}
                          /\ ~Live(f) => body'[f] \notin Roots
                          /\ Live(f) => body'[f] \in {root, op1.to}
        OBVIOUS
      <4>1. body'[f] = body[f] \/ (body'[f] = op1.to /\ body[f] = root)
        BY <2>2
      <4>2. QED
        BY <2>2, <4>1, MovingBodies
    <3>3. savedRoot = root
      BY <2>2 DEF FilesInv, RootSound, Running
    <3>4. QED
      BY <1>1, <1>2, <2>2, <2>3, <2>6, <3>1, <3>2, <3>3 DEF BodiesSound, RootSound, Running
  <2>7. QED
    BY <1>1, <1>2, <2>2, <2>3, <2>5, <2>6, StepInv
<1>5. CASE SaveRoot
  <2>1. PICK o : o = [op1 EXCEPT !.at = "reopen"]
    OBVIOUS
  <2>2. /\ o.kind = "migrate" /\ o.at = "reopen" /\ o.file = "none" /\ o.to = op1.to /\ o.moved = op1.moved
        /\ DOMAIN o = {"kind", "at", "file", "to", "moved"}
    BY <1>1, <2>1
  <2>3. Step(o) /\ UNCHANGED <<body, root>> /\ savedRoot' = op1.to /\ Running("migrate", "move") /\ op1.at = "move"
        /\ \A f \in Files : Live(f) => body[f] = op1.to
    BY <1>5, <2>1 DEF SaveRoot, Running
  <2>4. root # op1.to
    BY <1>1, <2>3 DEF IsFileOp
  <2>5. IsFileOp(o)' /\ RowTypes'
    BY <1>1, <2>2, <2>3, <2>4 DEF IsFileOp, RowTypes
  <2>6. ASSUME op1' = o, fileQueue' # << >>
        PROVE  BodiesSound' /\ RootSound'
    <3>1. \A f \in Files : ~InTrash(f)' /\ ~Running("upload", "place")' /\ ~Running("migrate", "move")'
      BY <2>2, <2>6 DEF InTrash, Running
    <3>2. QED
      BY <1>1, <1>2, <2>2, <2>3, <2>6, <3>1, MovingBodies DEF BodiesSound, RootSound, Running
  <2>7. QED
    BY <1>1, <1>2, <2>2, <2>3, <2>5, <2>6, StepInv
<1>6. CASE Reopen
  <2>1. Done /\ UNCHANGED <<body, savedRoot>> /\ root' = op1.to /\ Running("migrate", "reopen")
    BY <1>6 DEF Reopen
  <2>2. savedRoot = op1.to /\ \A f \in Files : Live(f) => body[f] = op1.to
    BY <2>1 DEF FilesInv, RootSound, BodiesSound
  <2>3. /\ \A f \in Files : /\ body'[f] \notin {"trash", "temp"}
                            /\ Live(f)' <=> body'[f] = root'
                            /\ body'[f] \in Roots => body'[f] = root'
        /\ savedRoot' = root'
    BY <1>2, <2>1, <2>2, MovingBodies
  <2>4. RowTypes'
    BY <1>1, <2>1 DEF RowTypes
  <2>5. QED
    BY <1>1, <1>2, <2>1, <2>3, <2>4, DoneInv
<1>7. CASE MigrationFails
  <2>1. Done /\ UNCHANGED root /\ savedRoot' = root
        /\ (Running("migrate", "move") \/ Running("migrate", "reopen"))
        /\ body' = [f \in Files |-> IF body[f] = op1.to THEN root ELSE body[f]]
    BY <1>7 DEF MigrationFails
  <2>2. RowTypes'
    BY <1>1, <2>1 DEF RowTypes
  <2>3. ASSUME NEW f \in Files
        PROVE  /\ body'[f] \notin {"trash", "temp"}
               /\ Live(f)' <=> body'[f] = root'
               /\ body'[f] \in Roots => body'[f] = root'
    <3>1. body'[f] = IF body[f] = op1.to THEN root ELSE body[f]
      BY <2>1
    <3>2. QED
      BY <1>2, <2>1, <3>1, MovingBodies
  <2>4. QED
    BY <1>1, <1>2, <2>1, <2>2, <2>3, DoneInv
<1>8. QED
  BY <1>3, <1>4, <1>5, <1>6, <1>7

-----------------------------------------------------------------------------
(* The deletion of the files of a Space *)

LEMMA PurgingFacts ==
    ASSUME FilesInv, Running("purge", "list") \/ Running("purge", "move") \/ Running("purge", "remove")
    PROVE  /\ fileQueue # << >> /\ op1.kind = "purge" /\ IsFileOp(op1) /\ RowTypes
           /\ op1.space \in Spaces /\ op1.file = "none"
           /\ DOMAIN op1 = {"kind", "at", "space", "file", "rest", "moved", "old"}
           /\ deletion.at = "files" /\ deletion.space = op1.space
           /\ savedRoot = root /\ root \in Roots /\ root \notin {"trash", "temp", "none"}
           /\ \A f \in Files : /\ body[f] = "trash" <=> InTrash(f)
                               /\ body[f] # "temp"
                               /\ ~Live(f) => body[f] \notin Roots
                               /\ Live(f) => body[f] = root \/ (op1.at = "move" /\ f \in op1.moved)
<1>1. fileQueue # << >> /\ op1.kind = "purge"
  BY DEF Running
<1>2. IsFileOp(op1) /\ RowTypes
  BY <1>1, HeadOp DEF FilesInv, FileTypes
<1>3. \A at : ~Running("upload", at) /\ ~Running("migrate", at)
  BY <1>1 DEF Running
<1>4. savedRoot = root /\ root \in Roots /\ root \notin {"trash", "temp", "none"}
  BY <1>2, <1>3, RootsAssumption DEF FilesInv, RootSound, RowTypes
<1>5. \A f \in Files : /\ body[f] = "trash" <=> InTrash(f)
                       /\ body[f] # "temp"
                       /\ ~Live(f) => body[f] \notin Roots
                       /\ Live(f) => body[f] = root \/ (op1.at = "move" /\ f \in op1.moved)
  BY <1>3 DEF FilesInv, BodiesSound, Running
<1>6. QED
  BY <1>1, <1>2, <1>4, <1>5 DEF IsFileOp

LEMMA PurgeSteps ==
    ASSUME FilesInv,
           PurgeLists \/ PurgeRows \/ \E f \in Files : PurgeMoves(f) \/ PurgeRemoves(f)
    PROVE  FilesInv'
<1>1. Running("purge", "list") \/ Running("purge", "move") \/ Running("purge", "remove")
  BY DEF PurgeLists, PurgeRows, PurgeMoves, PurgeRemoves
<1>2. /\ fileQueue # << >> /\ op1.kind = "purge" /\ IsFileOp(op1) /\ RowTypes
      /\ op1.space \in Spaces /\ op1.file = "none"
      /\ DOMAIN op1 = {"kind", "at", "space", "file", "rest", "moved", "old"}
      /\ deletion.at = "files" /\ deletion.space = op1.space
      /\ savedRoot = root /\ root \in Roots /\ root \notin {"trash", "temp", "none"}
      /\ UNCHANGED <<space, restored, deletion, root, savedRoot>>
  BY <1>1, PurgingFacts DEF PurgeLists, PurgeRows, PurgeMoves, PurgeRemoves, spaceVars, rootVars
<1>3. CASE PurgeLists
  <2>1. PICK o : o = [op1 EXCEPT !.at = "move", !.rest = Owned(op1.space), !.old = file]
    OBVIOUS
  <2>2. Step(o) /\ UNCHANGED <<file, body>> /\ op1.at = "list" /\ HasToWait(op1)
    BY <1>3, <2>1 DEF PurgeLists, Running, HasToWait
  <2>3. /\ o.kind = "purge" /\ o.at = "move" /\ o.space = op1.space /\ o.file = "none"
        /\ o.rest = Owned(op1.space) /\ o.moved = op1.moved /\ o.old = file
        /\ DOMAIN o = {"kind", "at", "space", "file", "rest", "moved", "old"}
    BY <1>2, <2>1
  <2>4. op1.moved = {}
    BY <1>2, <2>2 DEF IsFileOp
  <2>5. \A f \in Owned(op1.space) : f \in Files /\ Live(f) /\ file[f] \in LiveRows /\ file[f].owner = op1.space
    BY <1>2 DEF Owned, Live, RowTypes, FileRows, DeadRows, NoFile
  <2>6. IsFileOp(o)' /\ RowTypes'
    <3>1. \A s : Owned(s)' = Owned(s)
      BY <2>2 DEF Owned, Live
    <3>2. \A f : Live(f)' <=> Live(f)
      BY <2>2 DEF Live
    <3>3. Owned(op1.space) \in SUBSET Files
      BY DEF Owned
    <3>4. QED
      BY <1>2, <2>2, <2>3, <2>4, <2>5, <3>1, <3>2, <3>3 DEF IsFileOp, RowTypes
  <2>7. ASSUME op1' = o, fileQueue' # << >>
        PROVE  BodiesSound' /\ RootSound'
    <3>1. \A f \in Files : ~InTrash(f)' /\ body[f] \notin {"temp", "trash"}
      BY <1>2, <2>2, <2>3, <2>4, <2>7, CalmBodies DEF InTrash, Running
    <3>2. QED
      BY <1>2, <2>2, <2>3, <2>7, <3>1, CalmBodies DEF BodiesSound, RootSound, Running, Live
  <2>8. \A f \in Files : Live(f)' => MayOwn(file'[f].owner)
    BY <2>2, OwnersMayOwn DEF Live
  <2>9. QED
    BY <1>2, <2>2, <2>3, <2>6, <2>7, <2>8, StepInv
<1>4. ASSUME NEW g \in Files, PurgeMoves(g)
      PROVE  FilesInv'
  <2>1. PICK o : o = [op1 EXCEPT !.rest = @ \ {g}, !.moved = @ \cup {g}]
    OBVIOUS
  <2>2. Step(o) /\ UNCHANGED file /\ op1.at = "move" /\ g \in op1.rest /\ Running("purge", "move")
        /\ body' = [body EXCEPT ![g] = "trash"]
    BY <1>4, <2>1 DEF PurgeMoves, Running
  <2>3. /\ o.kind = "purge" /\ o.at = "move" /\ o.space = op1.space /\ o.file = "none"
        /\ o.rest = op1.rest \ {g} /\ o.moved = op1.moved \cup {g} /\ o.old = op1.old
        /\ DOMAIN o = {"kind", "at", "space", "file", "rest", "moved", "old"}
    BY <1>2, <2>1, <2>2
  <2>4. o.rest \cup o.moved = op1.rest \cup op1.moved
    BY <2>2, <2>3
  <2>5. RowTypes' /\ \A f \in Files : body'[f] = IF f = g THEN "trash" ELSE body[f]
    BY <1>2, <2>2 DEF RowTypes
  <2>6. IsFileOp(o)'
    <3>1. \A s : Owned(s)' = Owned(s)
      BY <2>2 DEF Owned, Live
    <3>2. \A f : Live(f)' <=> Live(f)
      BY <2>2 DEF Live
    <3>3. /\ op1.rest \in SUBSET Files /\ op1.moved \in SUBSET Files
          /\ \A f \in op1.rest \cup op1.moved : op1.old[f] \in LiveRows /\ op1.old[f].owner = op1.space
          /\ \A f \in op1.rest \cup op1.moved : Live(f)
          /\ Owned(op1.space) = op1.rest \cup op1.moved
      BY <1>2, <2>2 DEF IsFileOp
    <3>4. o.rest \in SUBSET Files /\ o.moved \in SUBSET Files
      BY <2>3, <3>3
    <3>5. QED
      BY <1>2, <2>2, <2>3, <2>4, <3>1, <3>2, <3>3, <3>4 DEF IsFileOp
  <2>7. ASSUME op1' = o, fileQueue' # << >>
        PROVE  BodiesSound' /\ RootSound'
    <3>1. \A f \in Files : InTrash(f)' <=> InTrash(f) \/ f = g
      BY <1>2, <2>2, <2>3, <2>7 DEF InTrash, Running
    <3>2. \A f \in Files : Live(f)' <=> Live(f)
      BY <2>2 DEF Live
    <3>3. BodiesSound'
      BY <1>2, <2>2, <2>3, <2>5, <2>7, <3>1, <3>2, PurgingFacts, RootsAssumption DEF BodiesSound, Running
    <3>4. RootSound'
      BY <1>2, <2>3, <2>7 DEF RootSound, Running
    <3>5. QED
      BY <3>3, <3>4
  <2>8. \A f \in Files : Live(f)' => MayOwn(file'[f].owner)
    BY <2>2, OwnersMayOwn DEF Live
  <2>9. QED
    BY <1>2, <2>2, <2>3, <2>5, <2>6, <2>7, <2>8, StepInv
<1>5. CASE PurgeRows
  <2>1. PICK o : o = [op1 EXCEPT !.at = "remove", !.rest = op1.moved]
    OBVIOUS
  <2>2. Step(o) /\ UNCHANGED body /\ op1.at = "move" /\ op1.rest = {} /\ Running("purge", "move")
        /\ file' = [f \in Files |-> IF f \in op1.moved THEN Deleted(file[f]) ELSE file[f]]
    BY <1>5, <2>1 DEF PurgeRows, Running
  <2>3. /\ o.kind = "purge" /\ o.at = "remove" /\ o.space = op1.space /\ o.file = "none"
        /\ o.rest = op1.moved /\ o.moved = op1.moved /\ o.old = op1.old
        /\ DOMAIN o = {"kind", "at", "space", "file", "rest", "moved", "old"}
    BY <1>2, <2>1, <2>2
  <2>4. /\ op1.moved \in SUBSET Files
        /\ \A f \in op1.moved : op1.old[f] \in LiveRows /\ op1.old[f].owner = op1.space /\ Live(f)
        /\ Owned(op1.space) = op1.moved
    BY <1>2, <2>2 DEF IsFileOp
  <2>5. ASSUME NEW f \in op1.moved
        PROVE  file'[f] \in DeadRows /\ file'[f].state = "deleted"
    <3>1. PICK x : x = file[f]
      OBVIOUS
    <3>2. x \in [state : {"live"}, owner : Spaces, shared : SUBSET Spaces, version : Nat]
      <4>1. f \in Files /\ x.state = "live" /\ x \in FileRows
        BY <1>2, <2>4, <3>1 DEF Live, RowTypes
      <4>2. QED
        BY <4>1 DEF FileRows, LiveRows, DeadRows, NoFile
    <3>3. file'[f] = [x EXCEPT !.state = "deleted", !.version = @ + 1]
      BY <2>2, <2>4, <3>1 DEF Deleted
    <3>4. file'[f] = [state |-> "deleted", owner |-> x.owner, shared |-> x.shared, version |-> x.version + 1]
      BY <3>2, <3>3
    <3>5. x.owner \in Spaces /\ x.version + 1 \in Nat /\ x.shared \in SUBSET Spaces
      BY <3>2
    <3>6. QED
      BY <3>4, <3>5 DEF DeadRows
  <2>6. \A f \in Files : f \notin op1.moved => file'[f] = file[f]
    BY <2>2
  <2>7. RowTypes'
    <3>1. \A f \in Files : file'[f] \in FileRows
      BY <1>2, <2>5, <2>6 DEF RowTypes, FileRows
    <3>2. file' \in [Files -> FileRows]
      BY <2>2, <3>1
    <3>3. QED
      BY <1>2, <2>2, <3>2 DEF RowTypes
  <2>8. /\ \A f \in Files : Live(f)' <=> Live(f) /\ f \notin op1.moved
        /\ \A f \in Files : file[f] = NoFile => file'[f] = NoFile
        /\ \A f \in Files : Live(f)' => MayOwn(file'[f].owner)
    BY <2>4, <2>5, <2>6, OwnersMayOwn DEF Live, NoFile
  <2>9. Owned(op1.space) = {f \in Files : Live(f) /\ file[f].owner = op1.space}
    BY DEF Owned
  <2>10. {f \in Files : Live(f)' /\ file'[f].owner = op1.space} = {}
    BY <2>4, <2>6, <2>8, <2>9
  <2>11. IsFileOp(o)'
    <3>1. Owned(o.space)' = {f \in Files : Live(f)' /\ file'[f].owner = o.space}
      BY DEF Owned
    <3>2. Owned(o.space)' = {}
      BY <2>3, <2>10, <3>1
    <3>3. /\ o.rest \in SUBSET Files /\ o.moved \in SUBSET Files /\ o.rest \subseteq o.moved
          /\ \A f \in o.rest \cup o.moved : o.old[f] \in LiveRows /\ o.old[f].owner = o.space
          /\ \A f \in o.moved : file'[f] \in DeadRows
      BY <2>3, <2>4, <2>5
    <3>4. o.space \in Spaces /\ deletion'.at = "files" /\ deletion'.space = o.space
      BY <1>2, <2>3
    <3>5. QED
      BY <2>3, <3>2, <3>3, <3>4 DEF IsFileOp
  <2>12. ASSUME op1' = o, fileQueue' # << >>
         PROVE  BodiesSound' /\ RootSound'
    <3>1. \A f \in Files : (InTrash(f)' <=> f \in op1.moved) /\ (InTrash(f) <=> f \in op1.moved)
      BY <1>2, <2>2, <2>3, <2>12 DEF InTrash, Running
    <3>2. BodiesSound'
      BY <1>2, <2>2, <2>3, <2>8, <2>12, <3>1, PurgingFacts, RootsAssumption DEF BodiesSound, Running
    <3>3. RootSound'
      BY <1>2, <2>3, <2>12 DEF RootSound, Running
    <3>4. QED
      BY <3>2, <3>3
  <2>13. QED
    BY <1>2, <2>2, <2>3, <2>7, <2>8, <2>11, <2>12, StepInv
<1>6. ASSUME NEW g \in Files, PurgeRemoves(g)
      PROVE  FilesInv'
  <2>1. PICK o : o = [op1 EXCEPT !.rest = @ \ {g}]
    OBVIOUS
  <2>2. Step(o) /\ UNCHANGED file /\ op1.at = "remove" /\ g \in op1.rest /\ Running("purge", "remove")
        /\ body' = [body EXCEPT ![g] = "none"]
    BY <1>6, <2>1 DEF PurgeRemoves, Running
  <2>3. /\ o.kind = "purge" /\ o.at = "remove" /\ o.space = op1.space /\ o.file = "none"
        /\ o.rest = op1.rest \ {g} /\ o.moved = op1.moved /\ o.old = op1.old
        /\ DOMAIN o = {"kind", "at", "space", "file", "rest", "moved", "old"}
    BY <1>2, <2>1, <2>2
  <2>4. RowTypes' /\ \A f \in Files : body'[f] = IF f = g THEN "none" ELSE body[f]
    BY <1>2, <2>2 DEF RowTypes
  <2>5. \A f : Live(f)' <=> Live(f)
    BY <2>2 DEF Live
  <2>6. IsFileOp(o)'
    <3>1. \A s : Owned(s)' = Owned(s)
      BY <2>2 DEF Owned, Live
    <3>2. /\ op1.rest \in SUBSET Files /\ op1.moved \in SUBSET Files /\ op1.rest \subseteq op1.moved
          /\ \A f \in op1.rest \cup op1.moved : op1.old[f] \in LiveRows /\ op1.old[f].owner = op1.space
          /\ \A f \in op1.moved : file[f] \in DeadRows
          /\ Owned(op1.space) = {}
      BY <1>2, <2>2 DEF IsFileOp
    <3>3. o.rest \in SUBSET Files /\ o.rest \subseteq o.moved /\ o.rest \cup o.moved \subseteq op1.rest \cup op1.moved
      BY <2>3, <3>2
    <3>4. QED
      BY <1>2, <2>2, <2>3, <3>1, <3>2, <3>3 DEF IsFileOp
  <2>7. ASSUME op1' = o, fileQueue' # << >>
        PROVE  BodiesSound' /\ RootSound'
    <3>1. \A f \in Files : InTrash(f)' <=> InTrash(f) /\ f # g
      BY <1>2, <2>2, <2>3, <2>7 DEF InTrash, Running
    <3>2. ~Live(g)
      BY <1>2, <2>2 DEF IsFileOp, DeadRows, Live
    <3>3. BodiesSound'
      BY <1>2, <2>2, <2>3, <2>4, <2>5, <2>7, <3>1, <3>2, PurgingFacts, RootsAssumption DEF BodiesSound, Running
    <3>4. RootSound'
      BY <1>2, <2>3, <2>7 DEF RootSound, Running
    <3>5. QED
      BY <3>3, <3>4
  <2>8. \A f \in Files : Live(f)' => MayOwn(file'[f].owner)
    BY <2>2, OwnersMayOwn DEF Live
  <2>9. QED
    BY <1>2, <2>2, <2>3, <2>4, <2>6, <2>7, <2>8, StepInv
<1>7. QED
  BY <1>3, <1>4, <1>5, <1>6

(* A deletion that fails puts rows and bodies back.  Without RemovalFails  *)
(* no body has been removed by then.                                       *)
LEMMA PurgeEnds ==
    ASSUME FilesInv, PurgeDone \/ (PurgeFails /\ ~RemovalFails)
    PROVE  FilesInv'
<1>1. Running("purge", "move") \/ Running("purge", "remove")
  BY DEF PurgeDone, PurgeFails
<1>2. /\ fileQueue # << >> /\ op1.kind = "purge" /\ IsFileOp(op1) /\ RowTypes
      /\ op1.space \in Spaces
      /\ deletion.at = "files" /\ deletion.space = op1.space
      /\ savedRoot = root /\ root \in Roots /\ root \notin {"trash", "temp", "none"}
      /\ UNCHANGED <<space, restored, root, savedRoot>> /\ Done
  BY <1>1, PurgingFacts DEF PurgeDone, PurgeFails, rootVars
<1>3. CASE PurgeDone
  <2>1. /\ op1.at = "remove" /\ op1.rest = {} /\ UNCHANGED <<file, body>>
        /\ deletion' = [deletion EXCEPT !.at = "graph"] /\ Running("purge", "remove")
    BY <1>3 DEF PurgeDone, Running
  <2>2. RowTypes'
    <3>1. deletion' \in Deletions
      BY <1>2, <2>1 DEF RowTypes, Deletions, NoDeletion
    <3>2. QED
      BY <1>2, <2>1, <3>1 DEF RowTypes
  <2>3. Owned(op1.space) = {}
    BY <1>2, <2>1 DEF IsFileOp
  <2>4. /\ \A f \in Files : Live(f)' <=> Live(f)
        /\ \A f \in Files : Live(f)' => file'[f].owner # op1.space /\ MayOwn(file'[f].owner)
    BY <2>1, <2>3, OwnersMayOwn DEF Live, Owned
  <2>5. \A f \in Files : ~InTrash(f)
    BY <1>2, <2>1 DEF InTrash, Running
  <2>6. /\ \A f \in Files : /\ body'[f] \notin {"trash", "temp"}
                            /\ Live(f)' <=> body'[f] = root'
                            /\ body'[f] \in Roots => body'[f] = root'
        /\ savedRoot' = root'
    BY <1>2, <2>1, <2>4, <2>5, PurgingFacts
  <2>7. QED
    BY <1>2, <2>1, <2>2, <2>4, <2>6, DoneInv
<1>4. CASE PurgeFails /\ ~RemovalFails
  <2>1. /\ deletion' = NoDeletion
        /\ op1.at = "move" \/ (op1.at = "remove" /\ op1.rest = op1.moved)
        /\ file' = [f \in Files |-> IF f \in op1.moved THEN op1.old[f] ELSE file[f]]
        /\ body' = [f \in Files |-> IF body[f] = "trash" THEN root ELSE body[f]]
    BY <1>4 DEF PurgeFails, Running
  <2>2. /\ op1.moved \in SUBSET Files
        /\ \A f \in op1.moved : op1.old[f] \in LiveRows /\ op1.old[f].owner = op1.space
    BY <1>2, <2>1 DEF IsFileOp
  <2>3. \A f \in op1.moved : file'[f] = op1.old[f] /\ op1.old[f].state = "live"
    BY <2>1, <2>2 DEF LiveRows
  <2>4. \A f \in Files : f \notin op1.moved => file'[f] = file[f]
    BY <2>1
  <2>5. \A f \in Files : body[f] = "trash" <=> f \in op1.moved
    BY <1>1, <1>2, <2>1, PurgingFacts DEF InTrash, Running
  <2>6. RowTypes'
    <3>1. \A f \in Files : file'[f] \in FileRows
      BY <1>2, <2>2, <2>3, <2>4 DEF RowTypes, FileRows
    <3>2. file' \in [Files -> FileRows]
      BY <2>1, <3>1
    <3>3. body' \in [Files -> Roots \cup {"temp", "trash", "none"}]
      BY <1>2, <2>1 DEF RowTypes
    <3>4. QED
      BY <1>2, <2>1, <3>2, <3>3 DEF RowTypes, Deletions
  <2>7. \A f \in op1.moved : file[f] # NoFile
    BY <1>2, <2>1 DEF IsFileOp, Live, DeadRows, NoFile
  <2>8. /\ \A f \in Files : file[f] = NoFile => file'[f] = NoFile
        /\ \A f \in Files : Live(f)' => MayOwn(file'[f].owner) \/ file'[f].owner = op1.space
        /\ \A f \in Files : Live(f)' <=> Live(f) \/ f \in op1.moved
    BY <2>2, <2>3, <2>4, <2>7, OwnersMayOwn DEF Live
  <2>9. ASSUME NEW f \in Files
        PROVE  /\ body'[f] \notin {"trash", "temp"}
               /\ Live(f)' <=> body'[f] = root
               /\ body'[f] \in Roots => body'[f] = root
    <3>1. body'[f] = IF f \in op1.moved THEN root ELSE body[f]
      BY <2>1, <2>5
    <3>2. QED
      BY <1>1, <1>2, <2>5, <2>8, <3>1, PurgingFacts
  <2>10. QED
    BY <1>2, <2>1, <2>6, <2>8, <2>9, DoneInv
<1>5. QED
  BY <1>3, <1>4

-----------------------------------------------------------------------------
(* Theorems *)

LEMMA FilesStart == FilesInit => FilesInv
<1> SUFFICES ASSUME FilesInit
             PROVE  FilesInv
  OBVIOUS
<1>1. FileTypes
  <2>1. IsSequence(fileQueue)
    <3>1. << >> \in Seq({1})
      OBVIOUS
    <3>2. QED
      BY <3>1, SequenceOf DEF FilesInit
  <2>2. QED
    BY <2>1, RootsAssumption DEF FilesInit, FileTypes, RowTypes, FileRows, Deletions
<1>2. Len(fileQueue) = 0 /\ \A i : i \notin 1 .. Len(fileQueue)
  BY DEF FilesInit
<1>3. \A kind, at : ~Running(kind, at)
  BY DEF FilesInit, Running
<1>4. QueueSound /\ OpsApart
  BY <1>2 DEF QueueSound, OpsApart
<1>5. BodiesSound /\ RootSound
  BY <1>3, RootsAssumption DEF FilesInit, BodiesSound, RootSound, InTrash, Live, NoFile
<1>6. DeletionSound
  BY <1>2, <1>3 DEF FilesInit, DeletionSound, MayOwn, Live, NoFile, NoDeletion
<1>7. QED
  BY <1>1, <1>4, <1>5, <1>6 DEF FilesInv

LEMMA FilesStep ==
    ASSUME ~RemovalFails, FilesInv, [FilesNext]_fileVars
    PROVE  FilesInv'
<1>1. CASE UNCHANGED fileVars
  <2>1. RowTypes' /\ (deletion.at # "none" => space[deletion.space] = "archived" \/ deletion.space \in restored)
    BY <1>1 DEF fileVars, FilesInv, FileTypes, RowTypes, DeletionSound
  <2>2. QED
    BY <1>1, <2>1, SpacesInv DEF fileVars, FilesInv, DeletionSound
<1>2. CASE FilesNext
  <2>1. CASE \E s \in Spaces : Work(s) \/ ArchiveSpace(s) \/ RestoreSpace(s) \/ DeleteSpace(s)
    BY <2>1, SpaceSteps
  <2>2. CASE \/ \E s \in Spaces, f \in Files :
                   \/ RequestUpload(s, f) \/ RequestFileDeletion(s, f)
                   \/ \E shared \in SUBSET (Spaces \ {s}) : RequestSharing(s, f, shared)
             \/ \E r \in Roots : RequestMigration(r)
             \/ MemoryRewritten
    BY <2>2, RequestSteps
  <2>3. CASE \/ UploadStreams \/ UploadPlaced \/ UploadFails \/ ChangeSharing \/ SharingNotSaved \/ Saved
             \/ DeleteFile \/ DeletionSaved \/ DeletionNotSaved \/ RefusedAtOnce
    BY <2>3, UploadSteps, SharingSteps, FileDeletionSteps, RefusedStep
  <2>4. CASE \/ MigrationStarts \/ \E s \in Spaces : MoveDirectory(s)
             \/ SaveRoot \/ Reopen \/ MigrationFails
    BY <2>4, MigrationSteps
  <2>5. CASE \/ PurgeLists \/ PurgeRows \/ \E f \in Files : PurgeMoves(f) \/ PurgeRemoves(f)
             \/ PurgeDone \/ PurgeFails \/ DeletionFails \/ PurgeGraph
    BY <2>5, PurgeSteps, PurgeEnds, DeletionSteps
  <2>6. QED
    BY <1>2, <2>1, <2>2, <2>3, <2>4, <2>5 DEF FilesNext
<1>3. QED
  BY <1>1, <1>2

(* FilesInv is an inductive invariant of the files of Spaces               *)
(* (files-service.js, space-deletion.js), if bodies in the trash can be    *)
(* removed.                                                                *)
THEOREM FilesInvInductive == ASSUME ~RemovalFails PROVE FilesSpec => []FilesInv
<1>1. FilesInv /\ [FilesNext]_fileVars => FilesInv'
  BY FilesStep
<1>2. QED
  BY <1>1, FilesStart, PTL DEF FilesSpec

(* The row of a file has its body, where the service looks for it now and  *)
(* after a restart, and its Space, unless that was restored during its     *)
(* deletion; whatever operations failed half-way.                          *)
THEOREM FilesAreSound == ASSUME ~RemovalFails PROVE FilesSpec => []FilesSound
<1>1. FilesInv => FilesSound
  <2> SUFFICES ASSUME FilesInv
               PROVE  FilesSound
    OBVIOUS
  <2>1. FilesReadable
    BY DEF FilesInv, BodiesSound, RootSound, FilesReadable
  <2>2. NoOrphanFile
    <3> SUFFICES ASSUME NEW f \in Files, Live(f), file[f].owner \notin restored
                 PROVE  space[file[f].owner] # "gone"
      BY DEF NoOrphanFile
    <3>1. file[f].owner \in Spaces
      BY DEF FilesInv, FileTypes, RowTypes, FileRows, LiveRows, DeadRows, NoFile, Live
    <3>2. QED
      BY <3>1, OwnersMayOwn DEF FilesInv, DeletionSound
  <2>3. QED
    BY <2>1, <2>2 DEF FilesSound
<1>2. QED
  BY <1>1, FilesInvInductive, PTL
=============================================================================
