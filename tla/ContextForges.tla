----------------------------- MODULE ContextForges -----------------------------
(***************************************************************************)
(* Forge drafts: for every seat a capsule is compiled from what was said   *)
(* in the active SpaceSession; the owner may edit the ready draft and      *)
(* confirms it, which archives the session and starts a new one from the   *)
(* capsules.  Compiling takes the account lock, but runs do not wait for   *)
(* it.  A capsule is the set of messages it was compiled from.             *)
(***************************************************************************)
EXTENDS ContextSessions

CONSTANTS
    Drafts,         \* ids of Forge drafts
    MaxEditions,    \* bound: version of a draft
    MaxRestarts     \* bound: restarts of the gateway

VARIABLES
    draft,          \* contextForgeDrafts
    restarts        \* restarts so far

forgeVars == <<contextVars, draft, restarts>>

NoDraft == [status |-> "none"]
NoTargets == [a \in Seats |-> [status |-> "cancelled", capsule |-> {}]]
Pending(t) == t.status \in {"queued", "running"}

(* Targets of a draft that is done with.                                   *)
Closed(d, status) ==
    draft' = [draft EXCEPT ![d] = [@ EXCEPT !.status = status, !.targets = NoTargets]]

(* deriveDraftStatus *)
DraftStatus(targets) ==
    CASE \E a \in Seats : Pending(targets[a])                -> "generating"
      [] \A a \in Seats : targets[a].status = "succeeded"    -> "ready"
      [] \A a \in Seats : targets[a].status = "cancelled"    -> "cancelled"
      [] OTHER                                               -> "failed"

(* updateTargetRecord *)
SetTarget(d, a, status, capsule) ==
    LET targets == [draft[d].targets EXCEPT ![a] = [status |-> status, capsule |-> capsule]]
    IN  draft' = [draft EXCEPT ![d].targets = targets, ![d].status = DraftStatus(targets)]

Generating(s) ==
    \E d \in Drafts : draft[d].status = "generating" /\ draft[d].session = s

(* createDraft: a seat with nothing to read gets the empty capsule.        *)
CreateDraft(d) ==
    /\ draft[d] = NoDraft
    /\ ~Busy({active}) /\ ~Generating(active)
    /\ LET empty == HighWater(active) = 0
           targets == [a \in Seats |-> [status |-> IF empty THEN "succeeded" ELSE "queued",
                                        capsule |-> {}]]
       IN  /\ draft' = [draft EXCEPT ![d] =
                 [status |-> DraftStatus(targets), session |-> active,
                  sourceSeq |-> HighWater(active), version |-> 1, edited |-> FALSE,
                  targets |-> targets]]
           /\ queue' = IF empty THEN queue ELSE [a \in Seats |-> Append(queue[a], d)]
    /\ UNCHANGED <<sessionVars, history, covered, logVars, runs, compaction, restarts>>

(* runTarget behind the lock: the source is read and sent; a target that   *)
(* was cancelled meanwhile is passed over.                                 *)
StartTarget(d, a) ==
    /\ First(a, d) /\ draft[d].targets[a].status # "running"
    /\ IF draft[d].status = "generating" /\ draft[d].targets[a].status = "queued"
       THEN /\ SetTarget(d, a, "running",
                         Candidates(draft[d].session, draft[d].sourceSeq, {}))
            /\ UNCHANGED queue
       ELSE Dequeue(a) /\ UNCHANGED draft
    /\ UNCHANGED <<sessionVars, history, covered, logVars, runs, compaction, restarts>>

(* The daemon's result, or the timeout.                                    *)
FinishTarget(d, a, status) ==
    /\ draft[d] # NoDraft /\ First(a, d) /\ draft[d].targets[a].status = "running"
    /\ SetTarget(d, a, status, IF status = "succeeded" THEN draft[d].targets[a].capsule ELSE {})
    /\ Dequeue(a)
    /\ UNCHANGED <<sessionVars, history, covered, logVars, runs, compaction, restarts>>

(* updateDraft: the owner edits a ready draft under its version.           *)
UpdateDraft(d) ==
    /\ draft[d].status = "ready" /\ draft[d].version < MaxEditions
    /\ draft' = [draft EXCEPT ![d].version = @ + 1, ![d].edited = TRUE]
    /\ UNCHANGED <<contextVars, restarts>>

(* cancelDraft: the waiters are settled, so that running tasks end.        *)
CancelDraft(d) ==
    /\ draft[d].status \in {"generating", "ready", "failed"}
    /\ Closed(d, "cancelled")
    /\ queue' = [a \in Seats |-> IF First(a, d) /\ draft[d].targets[a].status = "running"
                                 THEN Tail(queue[a]) ELSE queue[a]]
    /\ UNCHANGED <<sessionVars, history, covered, logVars, runs, compaction, restarts>>

(* Mutant of SourceUnchanged: only the session is compared.                *)
SourceSessionUnchanged(d) == draft[d].session = active

(* Nothing was completed in the source session since the draft was made.   *)
SourceUnchanged(d) == draft[d].session = active /\ HighWater(active) = draft[d].sourceSeq

(* confirmDraft with the version the owner saw.                            *)
ConfirmDraft(d, s) ==
    /\ draft[d].status = "ready"
    /\ IF ~SourceUnchanged(d)
       THEN /\ s = active
            /\ Closed(d, "stale")
            /\ UNCHANGED contextVars
       ELSE /\ NextSession(s) /\ ~Busy({active})
            /\ \A x \in Drafts \ {d} : ~(draft[x].status = "generating" /\ draft[x].session = active)
            /\ SwitchTo(s)
            /\ covered' = [x \in SpaceSessions \X Seats |->
                              IF x[1] = s THEN draft[d].targets[x[2]].capsule ELSE covered[x]]
            /\ Closed(d, "confirmed")
            /\ UNCHANGED <<history, logVars, runs, compaction, queue>>
    /\ UNCHANGED restarts

FailPending(targets) ==
    [a \in Seats |-> IF Pending(targets[a]) THEN [status |-> "failed", capsule |-> {}]
                     ELSE targets[a]]

(* A restart fails what was being generated, too.                          *)
RestartContexts ==
    /\ restarts < MaxRestarts /\ restarts' = restarts + 1
    /\ Interrupt
    /\ draft' = [d \in Drafts |->
          IF draft[d].status # "generating" THEN draft[d]
          ELSE [draft[d] EXCEPT !.status = "failed", !.targets = FailPending(@)]]

ForgeInit == ContextInit /\ draft = [d \in Drafts |-> NoDraft] /\ restarts = 0

ForgeNext ==
    \/ ContextNext /\ UNCHANGED <<draft, restarts>>
    \/ \E d \in Drafts :
          \/ CreateDraft(d) \/ UpdateDraft(d) \/ CancelDraft(d)
          \/ \E a \in Seats : StartTarget(d, a)
                              \/ \E status \in {"succeeded", "failed"} : FinishTarget(d, a, status)
          \/ \E s \in SpaceSessions : ConfirmDraft(d, s)
    \/ RestartContexts

ForgeSpec == ForgeInit /\ [][ForgeNext]_forgeVars

-----------------------------------------------------------------------------
(* A session is forged from all that was said in its source: at the moment *)
(* of the confirmation every capsule that was not edited was compiled from *)
(* exactly the completed messages of the archived session.                 *)
ForgeCoversSource ==
    [][\A d \in Drafts :
          draft[d].status # "confirmed" /\ draft'[d].status = "confirmed" /\ ~draft[d].edited
          => \A a \in Seats : draft[d].targets[a].capsule =
                                  {m \in In(draft[d].session) : Completed(m)}]_forgeVars
=============================================================================
