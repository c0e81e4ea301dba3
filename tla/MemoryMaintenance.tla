--------------------------- MODULE MemoryMaintenance ---------------------------
(***************************************************************************)
(* One Agent's vault and a job on it, with failing batches and restarts of *)
(* the gateway.  The job is a digest or a Dream; they meet in the vault    *)
(* only, so that one of them is followed and what the other writes is, to  *)
(* it, one more edit, and its marker one that is there from the start.     *)
(***************************************************************************)
EXTENDS MemoryDigest, MemoryDream

CONSTANTS MaxVaultFaults    \* bound: failed batches and roll-backs, restarts

VARIABLES
    kind,           \* the job that is followed
    vaultFaults,    \* faults so far
    restarted       \* history: the gateway restarted

memoryVars == <<vaultVars, digestVars, dreamVars, kind, vaultFaults, restarted>>

VaultFault == vaultFaults < MaxVaultFaults /\ vaultFaults' = vaultFaults + 1

Enqueued == digest.status # "none" \/ dream.status # "none"

OwnerEdits ==
    /\ Enqueued
    /\ \E s \in Slugs : EditFile(s)
    /\ UNCHANGED <<digestVars, dreamVars, kind, vaultFaults, restarted>>

(* The vault and the files of the store outlive the process.               *)
RestartMemory ==
    /\ Enqueued
    /\ VaultFault
    /\ RestartDigest
    /\ RestartDream
    /\ held' = FALSE
    /\ restarted' = TRUE
    /\ UNCHANGED <<file, marker, writes, disturbed, kind>>

MemoryInit ==
    /\ VaultInit /\ DigestInit /\ DreamInit
    /\ kind \in {"digest", "dream"}
    /\ kind = "dream" => ~marker
    /\ vaultFaults = 0
    /\ restarted = FALSE

MemoryNext ==
    \/ OwnerEdits \/ RestartMemory
    \/ /\ kind = "digest"
       /\ DigestNext
       /\ UNCHANGED <<dreamVars, kind, vaultFaults, restarted>>
    \/ /\ kind = "dream"
       /\ \/ DreamNext /\ UNCHANGED vaultFaults
          \/ DreamFault /\ VaultFault
       /\ UNCHANGED <<digestVars, kind, restarted>>

MemorySpec == MemoryInit /\ [][MemoryNext]_memoryVars

-----------------------------------------------------------------------------
(* Properties *)

MemoryTypeOK ==
    /\ file \in [Slugs -> [version : 0 .. MaxWrites, text : Writers \cup {"none"},
                           archived : BOOLEAN]]
    /\ {digest.status, dream.status} \subseteq
          {"none", "queued", "running", "applying", "succeeded", "failed", "cancelled"}
    /\ (digestAt = "idle") = (digest.status \notin {"running", "applying"})
    /\ (dreamAt = "idle") = (dream.status \notin {"running", "applying"})
    /\ held => marker /\ dreamAt = "batch"
    /\ vaultFaults <= MaxVaultFaults

(* A job replaces a text of the owner only in the version the job was      *)
(* enqueued or executed with: what was written since is not overwritten.   *)
(* The exception is a create, which updates a memory that came into being  *)
(* after the preflight.                                                    *)
OwnerEditsKept ==
    [][ \A s \in Slugs :
            Exists(s) /\ file[s].text = "owner" /\ file'[s].text \in {"digest", "dream"} =>
                \/ dreamAt = "batch" /\ file[s].version = dream.snapshot[s].version
                \/ digestAt = "apply" /\ file[s].version = KnownVersion(s)
                \/ digestAt = "apply" /\ \E i \in Pending :
                      digest.proposals[i] = [slug |-> s, action |-> "create"]
      ]_memoryVars

(* A Dream that did not succeed leaves nothing behind, unless the gateway  *)
(* died in the middle or a roll-back was cut short.                        *)
BatchAllOrNothing ==
    dream.status \in {"failed", "cancelled"} /\ ~restarted /\ ~halfUndone =>
        \A s \in Slugs : file[s].text # "dream"

(* Every operation of a Dream that succeeded was carried out: its memory   *)
(* says what the operation wants, or it was written since.                 *)
AllCarriedOut == \A i \in 1 .. Len(dream.plan) : Reached(dream.plan[i]) \/ ~Unchanged(i)

DreamCarriedOut == dream.status = "succeeded" /\ ~halfUndone => AllCarriedOut

DreamAllOrNothing == BatchAllOrNothing /\ DreamCarriedOut

(* What applyBatchesHeld says of a roll-back that fails: the flow retries  *)
(* and publishes complete generations.  A retry of the Dream that finds    *)
(* the marker gone has published one with all of its operations.  The code *)
(* takes receipts of operations that were taken back for operations done.  *)
RetryCompletes == dream.status = "succeeded" => AllCarriedOut

(* A conflict is always with somebody else's write, or with a memory the   *)
(* executor was told of and creates again: neither a restart nor a failed  *)
(* batch makes a job collide with its own writes.                          *)
ConflictIsForeign ==
    /\ digest.error = "conflict" =>
          \/ disturbed
          \/ \E i \in Pending : /\ digest.proposals[i].action = "create"
                                /\ digest.catalog[digest.proposals[i].slug] # 0
    /\ dream.error = "conflict" => disturbed

(* Memory maintenance (memory-dream-service.js, memory-digest-service.js,  *)
(* memory-operations.js) behaves like transactions: a Dream is carried out *)
(* as a whole or not at all, unless a roll-back of it was cut short, and a *)
(* job only fails for a conflict that somebody else has caused.            *)
JobsAreTransactions == DreamAllOrNothing /\ ConflictIsForeign
=============================================================================
