--------------------------- MODULE RunBackground ----------------------------
(***************************************************************************)
(* The `runCatchups` rows: one record per root run that a user moved to    *)
(* the background of a group space, named by the id of that run.  While a  *)
(* record is collecting or awaiting its summary, root runs addressed to    *)
(* the same account are deferred; a settled record resumes them, and its   *)
(* summary is injected into the context of the next root runs.             *)
(*                                                                         *)
(* One space with one space session is modelled.  Whether any message of   *)
(* other speakers arrived in the meantime (`kept.length`) and which text   *)
(* the summary has are data: the first is a nondeterministic choice.       *)
(***************************************************************************)
EXTENDS RunRecords

CONSTANT GroupSpace     \* TRUE iff the space has at least two seats

ASSUME GroupAssumption == GroupSpace \in BOOLEAN

VARIABLES
    catchup,        \* run id -> status of its record, "none" without one
    catchupOrder,   \* the run ids with a record, in insertion order
    pendingRoots,   \* run id -> pendingRootRunIds of its record
    reserved,       \* run id -> reservedRunIds of its record
    consumedRuns    \* run id -> consumedRunIds of its record

backgroundVars == <<catchup, catchupOrder, pendingRoots, reserved, consumedRuns>>

CatchupStates  == {"none", "collecting", "awaiting_result", "ready", "failed", "consumed"}
Settled        == {"ready", "failed", "consumed"}

Elements(s) == {s[i] : i \in DOMAIN s}

RecordsOf(a, states) == {r \in Runs : account[r] = a /\ catchup[r] \in states}

(* The first, and the last, element of the sequence s that is in S. *)
FirstIn(s, S) ==
    LET F == {i \in DOMAIN s : s[i] \in S /\ \A j \in 1 .. (i - 1) : s[j] \notin S}
    IN  IF F = {} THEN None ELSE s[CHOOSE i \in F : TRUE]
LastIn(s, S) ==
    LET L == {i \in DOMAIN s : s[i] \in S /\ \A j \in (i + 1) .. Len(s) : s[j] \notin S}
    IN  IF L = {} THEN None ELSE s[CHOOSE i \in L : TRUE]

(* blockingFor: a collecting record comes before one awaiting its result.  *)
blockingFor(a) ==
    IF RecordsOf(a, {"collecting"}) # {}
    THEN FirstIn(catchupOrder, RecordsOf(a, {"collecting"}))
    ELSE FirstIn(catchupOrder, RecordsOf(a, {"awaiting_result"}))

(* readyFor: the newest settled record that is not consumed yet. *)
readyFor(a) == LastIn(catchupOrder, RecordsOf(a, {"ready", "failed"}))

(* contextForRun: the record whose summary the run r will be given. *)
contextForRun(r) ==
    LET c == readyFor(account[r])
    IN  IF c # None /\ (pendingRoots[c] = << >> \/ r \in Elements(pendingRoots[c]))
        THEN c ELSE None

-----------------------------------------------------------------------------
(* Mutants: plausible bugs that the properties of RunExecution catch *)

deferRootForgotten(a, r) == pendingRoots

FinishedStatusOfRun(r, final, news) ==
    IF catchup[r] # "collecting" THEN catchup[r]
    ELSE IF news THEN final ELSE "consumed"

FinishedStatusKeepsQuiet(r, final, news) ==
    IF catchup[r] # "collecting" \/ ~news THEN catchup[r]
    ELSE IF final # "completed" THEN "failed" ELSE "awaiting_result"

ResumedByFinishUnlessQuiet(r, final, news) ==
    IF catchup[r] = "collecting" /\ news /\ final # "completed"
    THEN {x \in Elements(pendingRoots[r]) : status[x] = "pending"} ELSE {}

AllServedAtOnce(c, r) == TRUE

-----------------------------------------------------------------------------
(* deferRoot(a, r): the new pendingRootRunIds. *)
deferRoot(a, r) ==
    IF blockingFor(a) = None THEN pendingRoots
    ELSE [pendingRoots EXCEPT ![blockingFor(a)] = Append(@, r)]

(* finishRun: the status of r's record when r ends with status final. *)
FinishedStatus(r, final, news) ==
    IF catchup[r] # "collecting" THEN catchup[r]
    ELSE IF ~news                THEN "consumed"
    ELSE IF final # "completed"  THEN "failed"
    ELSE "awaiting_result"

(* The pending root runs that resumePending dispatches when the record of  *)
(* r settles, in the order of their deferral.                              *)
Resumed(r) == {x \in Elements(pendingRoots[r]) : status[x] = "pending"}
FirstResumed(r) == FirstIn(pendingRoots[r], Resumed(r))

(* The deferred roots that finishRun resumes at the end of run r. *)
ResumedByFinish(r, final, news) ==
    IF catchup[r] = "collecting" /\ FinishedStatus(r, final, news) \in Settled
    THEN Resumed(r) ELSE {}

(* backgroundRun, with the eligibility delay abstracted away.  Only a run  *)
(* that the scheduler dispatched has a backgroundEligibleAt.               *)
MayBackground(r) ==
    /\ GroupSpace
    /\ catchup[r] = "none"
    /\ ~IsChild(r)
    /\ status[r] = "running"
    /\ outputPolicy[r] = "space"
    /\ RecordsOf(account[r], {"collecting"}) = {}

openRecord(r) ==
    /\ catchup' = [catchup EXCEPT ![r] = "collecting"]
    /\ catchupOrder' = Append(catchupOrder, r)
    /\ UNCHANGED <<pendingRoots, reserved, consumedRuns>>

reserve(c, r) ==
    reserved' = IF c = None THEN reserved
                ELSE [reserved EXCEPT ![c] = @ \cup {r}]

(* The record is consumed once every deferred root it resumed has got it.  *)
AllServed(c, r) == Elements(pendingRoots[c]) \subseteq consumedRuns[c] \cup {r}

markDispatched(c, r) ==
    IF c # None /\ r \in reserved[c] /\ catchup[c] # "consumed"
    THEN /\ consumedRuns' = [consumedRuns EXCEPT ![c] = @ \cup {r}]
         /\ catchup' = [catchup EXCEPT ![c] =
                            IF AllServed(c, r) THEN "consumed" ELSE @]
    ELSE UNCHANGED <<consumedRuns, catchup>>

releaseReservation(c, r) ==
    reserved' = IF c # None /\ catchup[c] # "consumed"
                THEN [reserved EXCEPT ![c] = @ \ {r}] ELSE reserved

(* The loop at the end of createRunBackground, after recoverInterruptedRuns *)
(* ended every active run; quiet are the records that collected nothing.    *)
recoverCatchups(quiet) ==
    catchup' = [r \in Runs |->
        CASE catchup[r] = "collecting" -> IF r \in quiet THEN "consumed" ELSE "failed"
          [] catchup[r] = "awaiting_result" -> "failed"
          [] OTHER -> catchup[r]]
=============================================================================
