------------------------------- MODULE DataPaths -------------------------------
(***************************************************************************)
(* Where the gateway keeps its data and the Agents' memories, and how the  *)
(* owner moves both.  The data directory and the vault are settings, and   *)
(* the settings are a file of the data directory: a gateway that starts    *)
(* reads those of the directory it was configured with (the anchor) and    *)
(* goes on from the directory they name.  A migration therefore writes to  *)
(* two settings files, and takes back what it did when a step fails.       *)
(*                                                                         *)
(* Bounds on the owner: one migration at a time, none of the data back to  *)
(* the anchor or to a directory that already awaits the restart (README,   *)
(* further observations, says what the code does then).  A crash meets no  *)
(* migration of the vault.  Directories move by one rename.                *)
(***************************************************************************)
EXTENDS Naturals, FiniteSets

CONSTANTS
    Dirs, Anchor,           \* data directories, and the configured one
    Vaults, FirstVault,     \* roots of the memories, and the configured one
    Owners,                 \* Agents that have memories
    Collections,            \* files of the store
    Unset,                  \* a path that is not overridden
    MaxSaves, MaxMoves,     \* bounds: writes per collection, migrations asked for
    MaxBoots                \* bound: restarts

(* The store has collections, none of which is the file of the settings.   *)
ASSUME AnchorAssumption ==
    /\ Anchor \in Dirs /\ FirstVault \in Vaults /\ Unset \notin Dirs \union Vaults
    /\ Collections # {} /\ "settings" \notin Collections

VARIABLES
    settings,       \* settings.json of each directory
    overrides,      \* what the settings store has in memory
    dataPath,       \* config.dataPath of the running gateway
    vault,          \* the root memory.js works with
    home,           \* Agent -> the root that holds its directory
    stored,         \* directory -> collection -> version, 0 when there is none
    setAside,       \* what backupExistingTarget put away
    move,           \* the migration under way
    promised,       \* history: the store when the migration that succeeded last began
    moves, boots

pathVars == <<settings, overrides, dataPath, vault, home, stored, setAside, move, promised, moves, boots>>

NoOverrides == [vault |-> Unset, data |-> Unset]
NoMove      == [at |-> "none"]
Empty       == [c \in Collections |-> 0]
Or(path, default) == IF path = Unset THEN default ELSE path

(* applyBootPathOverrides: what a gateway that starts now would work with. *)
BootData  == Or(settings[Anchor].data, Anchor)
BootVault == Or(settings[Anchor].vault, FirstVault)

PathTypeOK ==
    /\ settings \in [Dirs -> [vault : Vaults \union {Unset}, data : Dirs \union {Unset}]]
    /\ overrides \in [vault : Vaults \union {Unset}, data : Dirs \union {Unset}]
    /\ dataPath \in Dirs /\ vault \in Vaults /\ home \in [Owners -> Vaults]
    /\ stored \in [Dirs -> [Collections -> 0 .. MaxSaves]]
    /\ moves \in 0 .. MaxMoves /\ boots \in 0 .. MaxBoots

(* Another directory may hold an older store, left by an earlier move.     *)
PathInit ==
    /\ settings = [d \in Dirs |-> NoOverrides] /\ overrides = NoOverrides
    /\ dataPath = Anchor /\ vault = FirstVault /\ home = [a \in Owners |-> FirstVault]
    /\ stored = [d \in Dirs |-> [c \in Collections |-> 1]]
    /\ setAside = [held |-> FALSE] /\ move = NoMove
    /\ promised = Empty /\ moves = 0 /\ boots = 0

-----------------------------------------------------------------------------
(* The settings store                                                      *)

(* setAll in memory, and flush, which writes every override.               *)
Override(key, path) == overrides' = [overrides EXCEPT ![key] = path]
Flushed  == settings' = [settings EXCEPT ![dataPath] = overrides]

(* restoreSetting, restoreAnchorOverride, and the settings of the target.  *)
PutBack(key, path) ==
    /\ overrides' = [overrides EXCEPT ![key] = path]
    /\ settings' = [d \in Dirs |->
          CASE move.kind = "data" /\ d = move.to -> IF setAside.held THEN setAside.settings ELSE NoOverrides
            [] d = dataPath -> overrides'
            [] d = Anchor /\ move.wroteAnchor -> [settings[d] EXCEPT ![key] = move.anchorHad]
            [] OTHER -> settings[d]]

(* Mutant of AnchorOverride: the running gateway's directory is enough.    *)
AnchorOverrideLocal(key, path) == UNCHANGED settings

(* writeAnchorOverride: nothing to do when the anchor is the directory the *)
(* settings store writes to.                                               *)
AnchorOverride(key, path) ==
    IF dataPath = Anchor THEN UNCHANGED settings
    ELSE settings' = [settings EXCEPT ![Anchor][key] = path]

Enter(at) == move' = [move EXCEPT !.at = at]
Begin(kind, key, to) ==
    /\ moves < MaxMoves /\ moves' = moves + 1
    /\ move' = [kind |-> kind, key |-> key, to |-> to, at |-> "begin", had |-> overrides[key],
                wroteAnchor |-> FALSE, anchorHad |-> Unset, done |-> {}, before |-> stored[dataPath]]

-----------------------------------------------------------------------------
(* migrateVaultPath, under the lock of the memories                        *)

MigrateVault(to) ==
    /\ move = NoMove /\ to # vault /\ Begin("vault", "vault", to)
    /\ UNCHANGED <<settings, overrides, dataPath, vault, home, stored, setAside, promised, boots>>

(* A directory of the same Agent under the target is a conflict, and       *)
(* there is none: the directories left are the source's.                   *)
MoveAgent(a) ==
    /\ move.at = "begin" /\ move.kind = "vault" /\ home[a] = vault /\ a \notin move.done
    /\ home' = [home EXCEPT ![a] = move.to]
    /\ move' = [move EXCEPT !.done = @ \union {a}]
    /\ UNCHANGED <<settings, overrides, dataPath, vault, stored, setAside, promised, moves, boots>>

(* Every directory was counted before and after its move.                  *)
MovedAll ==
    /\ move.at = "begin" /\ move.kind = "vault"
    /\ \A a \in Owners : home[a] = move.to
    /\ Override("vault", move.to) /\ Enter("flush")
    /\ UNCHANGED <<settings, dataPath, vault, home, stored, setAside, promised, moves, boots>>

-----------------------------------------------------------------------------
(* migrateDataPath, beside whatever the gateway is doing                   *)

(* Target directories the owner may name: see the bounds above.            *)
Targets == Dirs \ {Anchor, dataPath, BootData}

MigrateData(to) ==
    /\ move = NoMove /\ to \in Targets /\ Begin("data", "data", to)
    /\ UNCHANGED <<settings, overrides, dataPath, vault, home, stored, setAside, promised, boots>>

(* The source is saved and what the target holds is put aside.             *)
BackUp ==
    /\ move.at = "begin" /\ move.kind = "data"
    /\ settings' = [settings EXCEPT ![dataPath] = overrides, ![move.to] = NoOverrides]
    /\ setAside' = IF stored[move.to] = Empty THEN [held |-> FALSE]
                ELSE [held |-> TRUE, store |-> stored[move.to], settings |-> settings[move.to]]
    /\ stored' = [stored EXCEPT ![move.to] = Empty]
    /\ Enter("copy")
    /\ UNCHANGED <<overrides, dataPath, vault, home, promised, moves, boots>>

CopyCollection(c) ==
    /\ move.at = "copy" /\ c \notin move.done
    /\ stored' = [stored EXCEPT ![move.to][c] = stored[dataPath][c]]
    /\ move' = [move EXCEPT !.done = @ \union {c}]
    /\ UNCHANGED <<settings, overrides, dataPath, vault, home, setAside, promised, moves, boots>>

(* settings.json is one of the files copied, before it names the target.   *)
CopySettings ==
    /\ move.at = "copy" /\ "settings" \notin move.done
    /\ settings' = [settings EXCEPT ![move.to] = settings[dataPath]]
    /\ move' = [move EXCEPT !.done = @ \union {"settings"}]
    /\ UNCHANGED <<overrides, dataPath, vault, home, stored, setAside, promised, moves, boots>>

Copied == move.done = Collections \union {"settings"}

(* validateStoreDirectory has read every file of the copy.                 *)
ValidateCopy ==
    /\ move.at = "copy" /\ Copied
    /\ Override("data", move.to) /\ Enter("flush")
    /\ UNCHANGED <<settings, dataPath, vault, home, stored, setAside, promised, moves, boots>>

-----------------------------------------------------------------------------
(* The end of both                                                         *)

FlushOverride ==
    /\ move.at = "flush" /\ Flushed /\ Enter("anchor")
    /\ UNCHANGED <<overrides, dataPath, vault, home, stored, setAside, promised, moves, boots>>

WriteAnchor ==
    /\ move.at = "anchor" /\ AnchorOverride(move.key, move.to)
    /\ move' = [move EXCEPT !.at = "finish", !.wroteAnchor = dataPath # Anchor,
                            !.anchorHad = settings[Anchor][move.key]]
    /\ UNCHANGED <<overrides, dataPath, vault, home, stored, setAside, promised, moves, boots>>

(* memory.reopen for the vault; the data directory waits for the restart.  *)
FinishMove ==
    /\ move.at = "finish"
    /\ vault' = IF move.kind = "vault" THEN move.to ELSE vault
    /\ promised' = IF move.kind = "data" THEN move.before ELSE promised
    /\ setAside' = [held |-> FALSE] /\ move' = NoMove
    /\ UNCHANGED <<settings, overrides, dataPath, home, stored, moves, boots>>

(* restoreTarget: what was put aside, as far as it is still there; a       *)
(* target that was not put aside yet is emptied.                           *)
RestoreTarget(left) ==
    stored' = [stored EXCEPT ![move.to] =
                  [c \in Collections |-> IF setAside.held /\ c \in left THEN setAside.store[c] ELSE 0]]

(* The step at hand fails: the last one is the removal of what was put     *)
(* aside, of which only `left` remains.  The catch block takes the rest    *)
(* back.                                                                   *)
MoveFails(left) ==
    /\ move # NoMove
    /\ move.at = "finish" => move.kind = "data" /\ setAside.held
    /\ move.at # "finish" => left = Collections
    /\ PutBack(move.key, move.had)
    /\ home' = [a \in Owners |-> IF move.kind = "vault" /\ a \in move.done THEN vault ELSE home[a]]
    /\ IF move.kind = "data" THEN RestoreTarget(left) ELSE UNCHANGED stored
    /\ setAside' = [held |-> FALSE] /\ move' = NoMove
    /\ UNCHANGED <<dataPath, vault, promised, moves, boots>>

-----------------------------------------------------------------------------
(* The gateway saves, stops, dies and starts.                              *)

Save(c) ==
    /\ stored[dataPath][c] < MaxSaves
    /\ stored' = [stored EXCEPT ![dataPath][c] = @ + 1]
    /\ UNCHANGED <<settings, overrides, dataPath, vault, home, setAside, move, promised, moves, boots>>

(* What was saved after the copy stays behind in the old directory.        *)
Boot(disk) ==
    /\ settings' = disk
    /\ dataPath' = Or(disk[Anchor].data, Anchor) /\ overrides' = disk[dataPath']
    /\ vault' = Or(disk[Anchor].vault, FirstVault)
    /\ promised' = IF dataPath' = dataPath THEN promised ELSE Empty
    /\ move' = NoMove /\ setAside' = [held |-> FALSE]
    /\ boots < MaxBoots /\ boots' = boots + 1
    /\ UNCHANGED <<home, stored, moves>>

(* close() flushes the overrides.                                          *)
Restart == move = NoMove /\ Boot([settings EXCEPT ![dataPath] = overrides])

DieInMigration == move # NoMove /\ move.kind = "data" /\ Boot(settings)

PathsNext ==
    \/ \E to \in Vaults : MigrateVault(to)
    \/ \E a \in Owners : MoveAgent(a)
    \/ MovedAll
    \/ \E to \in Dirs : MigrateData(to)
    \/ BackUp \/ CopySettings \/ ValidateCopy
    \/ \E c \in Collections : CopyCollection(c) \/ Save(c)
    \/ FlushOverride \/ WriteAnchor \/ FinishMove
    \/ \E left \in SUBSET Collections : MoveFails(left)
    \/ Restart \/ DieInMigration

PathsSpec == PathInit /\ [][PathsNext]_pathVars

-----------------------------------------------------------------------------
(* Memories are where they are looked for, by the running gateway and by   *)
(* the next one, and the next one finds a whole store with all that was    *)
(* saved before the move: through moves of both kinds in any order, with   *)
(* the restart pending or not, steps that fail and crashes.  The settings  *)
(* of the anchor and of the data directory drift apart in between.         *)
PathsAgree ==
    /\ move = NoMove => \A a \in Owners : home[a] = vault /\ vault = BootVault
    /\ BootData # dataPath =>
          \A c \in Collections : stored[BootData][c] >= promised[c] /\ stored[BootData][c] > 0
    /\ stored[BootData] # Empty
=============================================================================
