------------------------------ MODULE MemoryVault ------------------------------
(***************************************************************************)
(* The markdown Memory of one Agent: one file per slug, the durable marker *)
(* of a batch in progress, and the queue through which every mutation of   *)
(* the gateway passes.  An operation that owns the queue is one step; a    *)
(* batch holds the queue over several.                                     *)
(*                                                                         *)
(* A text is known by who wrote it.  The version of a file is a hash of    *)
(* what it says and of its time: here, the number of the write.            *)
(***************************************************************************)
EXTENDS Naturals, Sequences

CONSTANTS
    Slugs,
    MaxWrites       \* bound: writes to the vault

VARIABLES
    file,           \* [version, text, archived] of each slug
    marker,         \* .vera-index/<agent>.batch.json exists
    held,           \* a batch owns the queue
    writes,         \* how many writes there were
    disturbed       \* history: somebody else wrote since what the job knows

vaultVars == <<file, marker, held, writes, disturbed>>

Writers == {"owner", "digest", "dream"}
Absent  == [version |-> 0, text |-> "none", archived |-> FALSE]
Page(n, text, archived) == [version |-> n, text |-> text, archived |-> archived]

Exists(s) == file[s].version # 0

(* scanAt: what the index shows of the vault.                              *)
Catalog == [s \in Slugs |-> file[s].version]

(* A scan fails while the marker of a batch is there.                      *)
Readable == ~marker

(* createMemory and updateMemoryFile: the file is replaced as a whole.     *)
Write(s, text, archived) ==
    /\ writes < MaxWrites
    /\ writes' = writes + 1
    /\ file' = [file EXCEPT ![s] = Page(writes + 1, text, archived)]

(* The owner, or a job of the other kind, creates, edits, archives or      *)
(* deletes a memory.                                                       *)
EditFile(s) ==
    /\ ~held
    /\ \/ Write(s, "owner", file[s].archived)
       \/ Exists(s) /\ Write(s, file[s].text, ~file[s].archived)
       \/ Exists(s) /\ file' = [file EXCEPT ![s] = Absent] /\ UNCHANGED writes
    /\ disturbed' = TRUE
    /\ UNCHANGED <<marker, held>>

VaultInit ==
    /\ file \in [Slugs -> {Absent, Page(1, "owner", FALSE)}]
    /\ marker \in BOOLEAN
    /\ disturbed = FALSE
    /\ held = FALSE
    /\ writes = 1
=============================================================================
