------------------------------ MODULE MemoryDream ------------------------------
(***************************************************************************)
(* A Dream job: the executor proposes to rewrite, archive or merge the     *)
(* memories of a frozen snapshot, and the planned operations are applied   *)
(* as one batch, which is rolled back when one of them fails.  The job     *)
(* survives a restart of the gateway at any point, and so do the marker of *)
(* the batch and what it had written.                                      *)
(***************************************************************************)
EXTENDS MemoryVault

CONSTANTS NoPlan            \* job.proposals is not set

VARIABLES
    dream,          \* the job in memory
    dreamSaved,     \* the job as of the last flush of the store
    dreamAt,        \* where run() stands, "idle" if it does not run
    dreamAborted,   \* its AbortController
    applied,        \* operations the batch has applied, with what was there
    rolling,        \* 0, or 1 + the operations of a failed batch still to undo
    halfUndone      \* history: a roll-back failed, or the gateway died in it

batchVars == <<applied, rolling, halfUndone>>
dreamVars == <<dream, dreamSaved, dreamAt, dreamAborted, batchVars>>

DreamActive == {"queued", "running", "applying"}

Ops         == [slug : Slugs, kind : {"update", "archive", "merge"}]
Op(s, kind) == [slug |-> s, kind |-> kind]

ASSUME NoPlanAssumption == NoPlan \notin Seq(Ops)

Frozen      == {s \in Slugs : dream.snapshot[s].version # 0}
Active      == {s \in Frozen : ~dream.snapshot[s].archived}

(* planDreamOperations: an update, an archive of a duplicate, a merge that *)
(* rewrites its target and archives the others, or nothing.                *)
Plans ==
    {<< >>} \cup {<<Op(s, "update")>> : s \in Frozen}
    \cup {<<Op(s, "archive")>> : s \in {q \in Frozen : Active \ {q} # {}}}
    \cup {<<Op(pair[1], "merge"), Op(pair[2], "archive")>> :
             pair \in {q \in Active \X Active : q[1] # q[2]}}

DreamQueued(job) == [job EXCEPT !.status = "queued", !.error = "none"]

FailDream(job, code) ==
    /\ dream' = [job EXCEPT !.status = IF dreamAborted THEN "cancelled" ELSE "failed",
                            !.error = IF dreamAborted THEN "cancelled" ELSE code]
    /\ dreamAt' = "idle"
    /\ dreamAborted' = FALSE

(* Mutant: the rewrite of a merge is never recognised.                     *)
ReachedUnlessMerge(op) ==
    IF op.kind = "archive" THEN Exists(op.slug) /\ file[op.slug].archived
    ELSE file[op.slug].text = "dream" /\ op.kind # "merge"

(* operationReached: the memory already says what the operation wants.     *)
Reached(op) ==
    IF op.kind = "archive" THEN Exists(op.slug) /\ file[op.slug].archived
    ELSE /\ file[op.slug].text = "dream"
         /\ op.kind = "merge" => ~file[op.slug].archived

(* enqueue: the memories are frozen.  A vault that cannot be read makes a  *)
(* job that will fail.                                                     *)
EnqueueDream ==
    /\ dream.status = "none"
    /\ ~held
    /\ dream' = DreamQueued([dream EXCEPT
                    !.unavailable = ~Readable,
                    !.snapshot = IF Readable THEN file ELSE [s \in Slugs |-> Absent]])
    /\ dreamSaved' = dream'
    /\ disturbed' = FALSE
    /\ UNCHANGED <<dreamAt, dreamAborted, batchVars, file, marker, held, writes>>

(* run, up to the executor.                                                *)
RunDream(valid) ==
    /\ dream.status = "queued"
    /\ dreamAt = "idle"
    /\ IF valid /\ ~dream.unavailable
       THEN /\ dream' = [dream EXCEPT !.status = "running"]
            /\ dreamAt' = "execute"
            /\ UNCHANGED dreamAborted
       ELSE FailDream(dream, "unavailable")
    /\ UNCHANGED <<dreamSaved, batchVars, vaultVars>>

DreamAnswered ==
    /\ dreamAt = "execute"
    /\ \/ /\ ~dreamAborted
          /\ \E plan \in IF dream.plan = NoPlan THEN Plans ELSE {dream.plan} :
                dream' = [dream EXCEPT !.plan = plan]
          /\ dreamSaved' = dream'
          /\ dreamAt' = "check"
          /\ UNCHANGED dreamAborted
       \/ FailDream(dream, "executor_failed") /\ UNCHANGED dreamSaved
    /\ UNCHANGED <<batchVars, vaultVars>>

Unreceipted == {i \in 1 .. Len(dream.plan) : i \notin dream.receipts}
ToApply     == {i \in Unreceipted : ~Reached(dream.plan[i])}
Unchanged(i) == Exists(dream.plan[i].slug)
                /\ file[dream.plan[i].slug].version = dream.snapshot[dream.plan[i].slug].version

(* The operations that are neither receipted nor reached must still find   *)
(* the frozen versions, and the batch marks the vault.                     *)
StartBatch ==
    /\ dreamAt = "check"
    /\ ~held
    /\ IF \A i \in ToApply : Unchanged(i)
       THEN /\ dream' = [dream EXCEPT !.status = "applying",
                                      !.receipts = 1 .. Len(dream.plan) \ ToApply]
            /\ dreamSaved' = dream'
            /\ IF ToApply # {}
               THEN dreamAt' = "batch" /\ held' = TRUE /\ marker' = TRUE
               ELSE dreamAt' = "finalize" /\ UNCHANGED <<held, marker>>
            /\ UNCHANGED dreamAborted
       ELSE /\ FailDream([dream EXCEPT !.receipts = @ \cup
                    {i \in Unreceipted \ ToApply : \A j \in ToApply : Unchanged(j) \/ i < j}],
                          "conflict")
            /\ UNCHANGED <<dreamSaved, held, marker>>
    /\ applied' = << >>
    /\ UNCHANGED <<rolling, halfUndone, disturbed, file, writes>>

(* The next operation is applied and gets its receipt.                     *)
ApplyNext(i) ==
    /\ dreamAt = "batch" /\ rolling = 0
    /\ i \in Unreceipted /\ \A j \in Unreceipted : i <= j
    /\ LET op == dream.plan[i]
       IN  /\ applied' = Append(applied, [index |-> i, before |-> file[op.slug]])
           /\ IF op.kind = "archive" THEN Write(op.slug, file[op.slug].text, TRUE)
              ELSE Write(op.slug, "dream", file[op.slug].archived)
    /\ dream' = [dream EXCEPT !.receipts = @ \cup {i}]
    /\ dreamSaved' = dream
    /\ UNCHANGED <<dreamAt, dreamAborted, rolling, halfUndone, disturbed, marker, held>>

(* All are applied: the index is published and the marker removed.         *)
CommitBatch ==
    /\ dreamAt = "batch" /\ rolling = 0
    /\ Unreceipted = {}
    /\ dreamSaved' = dream
    /\ marker' = FALSE
    /\ held' = FALSE
    /\ dreamAt' = "finalize"
    /\ UNCHANGED <<dream, dreamAborted, batchVars, disturbed, file, writes>>

(* Mutants: the operation that failed is taken for the last one applied,   *)
(* and a roll-back that leaves the receipts as they are.                   *)
FailBatchOffByOne ==
    /\ dreamAt = "batch" /\ rolling = 0
    /\ rolling' = IF applied = << >> THEN 1 ELSE Len(applied)
    /\ UNCHANGED <<dream, dreamSaved, dreamAt, dreamAborted, applied, halfUndone, vaultVars>>

(* An operation, its receipt or the publication fails.                     *)
FailBatch ==
    /\ dreamAt = "batch" /\ rolling = 0
    /\ rolling' = 1 + Len(applied)
    /\ UNCHANGED <<dream, dreamSaved, dreamAt, dreamAborted, applied, halfUndone, vaultVars>>

RollBackOne ==
    /\ rolling > 1
    /\ LET last == applied[rolling - 1]
       IN  file' = [file EXCEPT ![dream.plan[last.index].slug] = last.before]
    /\ rolling' = rolling - 1
    /\ UNCHANGED <<dream, dreamSaved, dreamAt, dreamAborted, applied, halfUndone, disturbed,
                   marker, held, writes>>

(* What the batch had applied loses its receipts, and the marker goes.     *)
ReceiptsLeft == dream.receipts \ {applied[k].index : k \in 1 .. Len(applied)}

RolledBack ==
    /\ rolling = 1
    /\ marker' = FALSE
    /\ held' = FALSE
    /\ LET job == [dream EXCEPT !.receipts = ReceiptsLeft]
       IN  FailDream(job, "write_failed") /\ dreamSaved' = job
    /\ rolling' = 0
    /\ applied' = << >>
    /\ UNCHANGED <<halfUndone, disturbed, file, writes>>

(* The roll-back fails: the marker stays, and so do the receipts.          *)
RollBackFails ==
    /\ rolling > 0
    /\ held' = FALSE
    /\ FailDream(dream, "write_failed")
    /\ rolling' = 0
    /\ applied' = << >>
    /\ halfUndone' = TRUE
    /\ UNCHANGED <<dreamSaved, disturbed, marker, file, writes>>

(* finalizeBatch removes a marker an earlier attempt left behind.          *)
DreamSucceeds ==
    /\ dreamAt = "finalize"
    /\ ~held
    /\ marker' = FALSE
    /\ applied' = << >>
    /\ dream' = [dream EXCEPT !.status = "succeeded"]
    /\ dreamAt' = "idle"
    /\ dreamAborted' = FALSE
    /\ UNCHANGED <<dreamSaved, rolling, halfUndone, disturbed, file, held, writes>>

CancelDream ==
    /\ IF dream.status = "queued"
       THEN dream' = [dream EXCEPT !.status = "cancelled"] /\ UNCHANGED dreamAborted
       ELSE dream.status = "running" /\ dreamAborted' = TRUE /\ UNCHANGED dream
    /\ UNCHANGED <<dreamSaved, dreamAt, batchVars, vaultVars>>

RetryDream ==
    /\ dream.status \in {"failed", "cancelled"}
    /\ dream' = DreamQueued(dream)
    /\ UNCHANGED <<dreamSaved, dreamAt, dreamAborted, batchVars, vaultVars>>

(* start() after a restart, from what the store last wrote.                *)
RestartDream ==
    /\ \E job \in {dream, dreamSaved} :
          dream' = IF job.status \in {"running", "applying"} THEN DreamQueued(job) ELSE job
    /\ dreamSaved' = dream'
    /\ dreamAt' = "idle"
    /\ dreamAborted' = FALSE
    /\ applied' = << >>
    /\ rolling' = 0
    /\ halfUndone' = (halfUndone \/ rolling # 0)

NoDream == [status |-> "none", error |-> "none", unavailable |-> FALSE,
            snapshot |-> [s \in Slugs |-> Absent], plan |-> NoPlan, receipts |-> {}]

DreamInit ==
    /\ dream = NoDream
    /\ dreamSaved = NoDream
    /\ dreamAt = "idle"
    /\ dreamAborted = FALSE
    /\ applied = << >>
    /\ rolling = 0
    /\ halfUndone = FALSE

DreamNext ==
    \/ EnqueueDream \/ DreamAnswered \/ StartBatch \/ CommitBatch \/ RollBackOne \/ RolledBack
    \/ CancelDream \/ RetryDream \/ DreamSucceeds
    \/ \E valid \in BOOLEAN : RunDream(valid)
    \/ \E i \in 1 .. 2 : ApplyNext(i)

DreamFault == FailBatch \/ RollBackFails
=============================================================================
