----------------------------- MODULE RunRecords -----------------------------
(***************************************************************************)
(* The `runs` rows of the gateway store, as far as the scheduler, the      *)
(* lifecycle and the run-message services read them.                       *)
(*                                                                         *)
(* An Account has one owner Agent, so an Agent is named by its Account.    *)
(* `parentRunId`, `rootRunId` and `depth` are frozen when a row is         *)
(* inserted; they are kept as one value, the path of run ids from the root *)
(* down to the parent (<<>> for a root run).                               *)
(***************************************************************************)
EXTENDS Naturals, Sequences, FiniteSets

CONSTANTS
    Runs,       \* run ids that newRunId can hand out
    Accounts,   \* accounts, each with its owner Agent
    None        \* the null of the store

VARIABLES
    status,             \* run id -> "unused" before insertion, then run.status
    account,            \* run id -> run.accountId
    lineage,            \* run id -> path of ancestors, root first
    outputPolicy,       \* run id -> "space" (public) or "source" (private)
    runSession          \* run id -> run.accountSessionId, frozen at insertion

runVars == <<status, account, lineage, outputPolicy, runSession>>

Active   == {"pending", "running"}
Terminal == {"completed", "failed", "cancelled"}

IsActive(r) == status[r] \in Active
ActiveRuns  == {r \in Runs : IsActive(r)}

IsChild(r)   == lineage[r] # << >>
Parent(r)    == lineage[r][Len(lineage[r])]
RootOf(r)    == IF IsChild(r) THEN lineage[r][1] ELSE r
Depth(r)     == Len(lineage[r])
Ancestors(r) == {lineage[r][i] : i \in 1 .. Len(lineage[r])}

(* The walk along parentRunId that several handlers repeat. *)
IsAncestor(a, r) == a \in Ancestors(r)

ActiveDescendants(r) == {d \in ActiveRuns : IsAncestor(r, d)}
Children(r)          == {c \in Runs : IsChild(c) /\ Parent(c) = r}
RunningOn(a)         == {r \in Runs : account[r] = a /\ status[r] = "running"}
=============================================================================
