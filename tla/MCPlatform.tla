------------------------------ MODULE MCPlatform ------------------------------
(***************************************************************************)
(* Contexts, forges, updates, account control, the directory of Spaces,    *)
(* their files, and the data directory and vault, for TLC.  They share no  *)
(* state at the level at which they are modelled, so that a behaviour is   *)
(* one of them: `part` says which, and the others stay as they were.       *)
(***************************************************************************)
EXTENDS ContextForges, GatewayUpdate, AccountControl, SpaceDirectory, SpaceFiles, DataPaths

VARIABLE part

diskVars     == <<fileVars, pathVars>>
platformVars == <<forgeVars, updateVars, accountVars, directoryVars, diskVars>>

Parts == {"contexts", "forges", "update", "accounts", "directory", "files", "paths"}

(* Contexts without forges have API seats and three posts; forges have     *)
(* CLI seats, which have no history, and two posts, and no model changes.  *)
PlatformInit ==
    /\ part \in Parts
    /\ ForgeInit /\ UpdateInit /\ AccountInit /\ DirectoryInit
    /\ FilesInit /\ PathInit
    /\ standing[CHOOSE m \in Members : TRUE] = "none"
    /\ cliSeats = IF part = "forges" THEN Seats ELSE {}

(* Requests that take time, and the Project, concern one of the Spaces;    *)
(* compactions and runs exclude each other.                                *)
BusyInOne ==
    LET one == {CHOOSE r \in Rooms : TRUE} IN
    /\ posting' \subseteq one /\ compacting' \subseteq one /\ deleting' \in one \union {Nowhere}
    /\ compacting' = {} \/ \A x \in DOMAIN work' : work'[x] = "none"
    /\ \A r \in Rooms \ one : Exists(r)' => room'[r].project = Nowhere

PlatformNext ==
    /\ UNCHANGED part
    /\ \/ /\ part = "contexts" /\ ContextNext /\ active' = 1
          /\ UNCHANGED <<draft, restarts, updateVars, accountVars, directoryVars, diskVars>>
       \/ /\ part = "forges"   /\ ForgeNext /\ runs'[MaxPosts] = NoRun
          /\ history' = history /\ UNCHANGED <<updateVars, accountVars, directoryVars, diskVars>>
       \/ /\ part = "update"   /\ UpdateNext
          /\ UNCHANGED <<forgeVars, accountVars, directoryVars, diskVars>>
       \/ /\ part = "accounts" /\ AccountNext
          /\ UNCHANGED <<forgeVars, updateVars, directoryVars, diskVars>>
       \/ /\ part = "directory" /\ DirectoryNext /\ BusyInOne
          /\ UNCHANGED <<forgeVars, updateVars, accountVars, diskVars>>
       \/ /\ part = "files" /\ FilesNext /\ busy' \subseteq {CHOOSE s \in Spaces : TRUE}
          /\ UNCHANGED <<forgeVars, updateVars, accountVars, directoryVars, pathVars>>
       \/ /\ part = "paths" /\ PathsNext
          /\ UNCHANGED <<forgeVars, updateVars, accountVars, directoryVars, fileVars>>

PlatformSpec == PlatformInit /\ [][PlatformNext]_<<part, platformVars>>

(* One type invariant for all parts.                                       *)
PlatformTypeOK == ContextTypeOK /\ UpdateTypeOK /\ AccountTypeOK /\ DirectoryTypeOK
=============================================================================
