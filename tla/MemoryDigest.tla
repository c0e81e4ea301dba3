------------------------------ MODULE MemoryDigest ------------------------------
(***************************************************************************)
(* A digest job: the executor turns a range of messages into proposals,    *)
(* which are written to the vault one by one, each with a receipt in the   *)
(* store.  A proposal names one memory: it creates it, writes it or        *)
(* archives it; one that only adds sources to a fact that is known is left *)
(* out.  The job survives a restart of the gateway at any point.           *)
(***************************************************************************)
EXTENDS MemoryVault

CONSTANTS
    NoProposals,    \* job.proposals is not set
    MaxProposals    \* bound: proposals of a job

VARIABLES
    digest,         \* the job in memory
    digestSaved,    \* the job as of the last flush of the store
    digestAt,       \* where run() stands, "idle" if it does not run
    digestAborted   \* its AbortController

digestVars == <<digest, digestSaved, digestAt, digestAborted>>

Proposals == [slug : Slugs, action : {"create", "write", "archive"}]

ASSUME NoProposalsAssumption == NoProposals \notin Seq(Proposals)

(* At most one proposal for a memory.                                      *)
ProposalLists ==
    {ps \in UNION {[1 .. n -> Proposals] : n \in 0 .. MaxProposals} :
        \A i, j \in 1 .. Len(ps) : ps[i].slug = ps[j].slug => i = j}

DigestActive == {"queued", "running", "applying"}

(* The job is retried or resumed: schedule.                                *)
Queued(job) == [job EXCEPT !.status = "queued", !.error = "none"]

FailDigest(code) ==
    /\ digest' = [digest EXCEPT !.status = IF digestAborted THEN "cancelled" ELSE "failed",
                                !.error = IF digestAborted THEN "cancelled" ELSE code]
    /\ digestAt' = "idle"
    /\ digestAborted' = FALSE

(* targetStateMatches: the memory already says what the proposal wants.    *)
StateMatches(p) ==
    IF p.action = "archive" THEN Exists(p.slug) /\ file[p.slug].archived
    ELSE file[p.slug].text = "digest"

(* The version of the target the executor knew: that of the fact that maps *)
(* to the memory, or else that of the catalog it was given.                *)
KnownVersion(s) == IF digest.facts[s] # 0 THEN digest.facts[s] ELSE digest.catalog[s]

(* enqueue.  Facts of earlier jobs may map to memories, some of them       *)
(* edited since.                                                           *)
EnqueueDigest ==
    /\ digest.status = "none"
    /\ \E facts \in [Slugs -> {0, 1}] : digest' = Queued([digest EXCEPT !.facts = facts])
    /\ digestSaved' \in {digest', digestSaved}
    /\ disturbed' = \E s \in Slugs : digest'.facts[s] \notin {0, file[s].version}
    /\ UNCHANGED <<digestAt, digestAborted, file, marker, held, writes>>

(* run, up to the executor: the catalog of the memories it will be given.  *)
RunDigest(valid) ==
    /\ digest.status = "queued"
    /\ digestAt = "idle"
    /\ ~held
    /\ IF valid /\ Readable
       THEN /\ digest' = [digest EXCEPT !.status = "running",
                                        !.catalog = IF digest.proposals = NoProposals
                                                    THEN Catalog ELSE digest.catalog]
            /\ digestAt' = "execute"
            /\ UNCHANGED digestAborted
       ELSE FailDigest("unavailable")
    /\ UNCHANGED <<digestSaved, vaultVars>>

(* The executor answers, or fails, or the job was cancelled meanwhile.     *)
(* Proposals are validated and flushed with the catalog before anything is *)
(* written.                                                                *)
DigestAnswered ==
    /\ digestAt = "execute"
    /\ \/ /\ ~digestAborted
          /\ \E ps \in IF digest.proposals = NoProposals THEN ProposalLists
                       ELSE {digest.proposals} :
                digest' = [digest EXCEPT !.proposals = ps]
          /\ digestSaved' = digest'
          /\ digestAt' = "preflight"
          /\ UNCHANGED digestAborted
       \/ FailDigest("executor_failed") /\ UNCHANGED digestSaved
    /\ UNCHANGED vaultVars

Pending == {i \in 1 .. Len(digest.proposals) : i \notin digest.done}

(* Mutant: only a fact that is mapped is compared with its memory.         *)
StaleIfMapped(p) == p.action # "create" /\ file[p.slug].version # KnownVersion(p.slug)
                    /\ digest.facts[p.slug] # 0

Missing(p) == p.action # "create" /\ ~Exists(p.slug)
Stale(p)   == p.action # "create" /\ file[p.slug].version # KnownVersion(p.slug)

(* preflightProposals: every target is checked before the first write.     *)
Refusal(p) ==
    CASE StateMatches(p) -> "none"
      [] ~StateMatches(p) /\ Missing(p) -> "write_failed"
      [] ~StateMatches(p) /\ Exists(p.slug) /\ (Stale(p) \/ p.action = "create") -> "conflict"
      [] OTHER -> "none"

Preflight ==
    /\ digestAt = "preflight"
    /\ ~held
    /\ IF \A i \in Pending : Refusal(digest.proposals[i]) = "none"
       THEN /\ digest' = [digest EXCEPT !.status = "applying"]
            /\ digestAt' = "apply"
            /\ UNCHANGED digestAborted
       ELSE \E i \in Pending : /\ Refusal(digest.proposals[i]) # "none"
                             /\ FailDigest(Refusal(digest.proposals[i]))
    /\ UNCHANGED <<digestSaved, vaultVars>>

(* applyProposal: a create whose memory came into being since the          *)
(* preflight updates it.  The write may fail; the scan after it fails      *)
(* under a marker.                                                         *)
ApplyProposal(i) ==
    /\ digestAt = "apply"
    /\ i \in Pending /\ \A j \in Pending : i <= j
    /\ ~held
    /\ LET p == digest.proposals[i]
           s == p.slug
       IN  \/ /\ StateMatches(p)
              /\ digestAt' = "record"
              /\ UNCHANGED <<digest, digestAborted, file, writes>>
           \/ /\ ~StateMatches(p)
              /\ FailDigest(IF Stale(p) /\ ~Missing(p) THEN "conflict" ELSE "write_failed")
              /\ UNCHANGED <<file, writes>>
           \/ /\ ~StateMatches(p) /\ ~Missing(p) /\ ~Stale(p)
              /\ IF p.action = "archive" THEN Write(s, file[s].text, TRUE)
                 ELSE Write(s, "digest", file[s].archived)
              /\ IF Readable THEN digestAt' = "record" /\ UNCHANGED <<digest, digestAborted>>
                 ELSE FailDigest("unavailable")
    /\ UNCHANGED <<digestSaved, marker, held, disturbed>>

(* The receipt: the operation and the fact with its version are stored.    *)
RecordProposal(i) ==
    /\ digestAt = "record"
    /\ i \in Pending /\ \A j \in Pending : i <= j
    /\ LET p == digest.proposals[i]
           s == p.slug
       IN  digest' = [digest EXCEPT !.done = @ \cup {i},
                                    !.facts[s] = IF p.action = "archive" /\ @ = 0 THEN 0
                                                 ELSE file[s].version]
    /\ digestSaved' = digest'
    /\ digestAt' = "apply"
    /\ UNCHANGED <<digestAborted, vaultVars>>

DigestSucceeds ==
    /\ digestAt = "apply"
    /\ Pending = {}
    /\ digest' = [digest EXCEPT !.status = "succeeded"]
    /\ digestAt' = "idle"
    /\ digestAborted' = FALSE
    /\ UNCHANGED <<digestSaved, vaultVars>>

(* cancel: an applying job is not cancelled, but one that is about to      *)
(* apply carries on.                                                       *)
CancelDigest ==
    /\ IF digest.status = "queued"
       THEN digest' = [digest EXCEPT !.status = "cancelled"] /\ UNCHANGED digestAborted
       ELSE digest.status = "running" /\ digestAborted' = TRUE /\ UNCHANGED digest
    /\ UNCHANGED <<digestSaved, digestAt, vaultVars>>

RetryDigest ==
    /\ digest.status \in {"failed", "cancelled"}
    /\ digest' = Queued(digest)
    /\ UNCHANGED <<digestSaved, digestAt, digestAborted, vaultVars>>

(* start() after a restart, from what the store last wrote.                *)
Resumed(job) == IF job.status \in {"running", "applying"} THEN Queued(job) ELSE job

RestartDigest ==
    /\ \E job \in {digest, digestSaved} : digest' = Resumed(job)
    /\ digestSaved' = digest'
    /\ digestAt' = "idle"
    /\ digestAborted' = FALSE

NoDigest == [status |-> "none", error |-> "none", catalog |-> [s \in Slugs |-> 0],
             proposals |-> NoProposals, done |-> {}, facts |-> [s \in Slugs |-> 0]]

DigestInit ==
    /\ digest = NoDigest
    /\ digestSaved = NoDigest
    /\ digestAt = "idle"
    /\ digestAborted = FALSE

DigestNext ==
    \/ EnqueueDigest \/ DigestAnswered \/ Preflight \/ DigestSucceeds
    \/ CancelDigest \/ RetryDigest
    \/ \E valid \in BOOLEAN : RunDigest(valid)
    \/ \E i \in 1 .. MaxProposals : ApplyProposal(i) \/ RecordProposal(i)
=============================================================================
