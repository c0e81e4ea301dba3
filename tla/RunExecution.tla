---------------------------- MODULE RunExecution ----------------------------
(***************************************************************************)
(* Execution of runs by the gateway: the daemon run scheduler, the         *)
(* execution claim, the run lifecycle, the run messages and the background *)
(* overlay, over the shared store, for one space with one space session.   *)
(*                                                                         *)
(* The gateway is one Node.js process: a handler runs to its first await   *)
(* without interruption.  An action is such a stretch; `prep` is where the *)
(* asynchronous preparation of a run is suspended.  Every Account has one  *)
(* Agent, one daemon and one AgentSession in the space.                    *)
(***************************************************************************)
EXTENDS RunMessages, RunBackground

CONSTANTS
    MaxSessions,    \* bound: Account Sessions an Account gets
    MaxGeneration   \* bound: context generations of an AgentSession

ASSUME BoundsAssumption ==
    /\ MaxSessions \in Nat
    /\ MaxGeneration \in Nat \ {0}
    /\ None \notin Runs

VARIABLES
    session,            \* account -> its current Account Session, 0 without one
    sessionCount,       \* account -> sessions created so far
    generation,         \* account -> agentSession.generation
    pressure,           \* account -> assessContextPressure(...).shouldCompact
    compaction,         \* account -> status of its active compaction target
    compactFrom,        \* account -> fromGeneration of that target
    contextGeneration,  \* run -> run.contextGeneration (roots only)
    prep,               \* run -> await at which its preparation is suspended
    capGen,             \* run -> generation captured by its preparation
    capSession,         \* run -> Account Session captured by its preparation
    capCatchup,         \* run -> catch-up reserved by its preparation
    retried,            \* run -> its preparation was started by a retry timer
    gateway             \* "up", or "down" after an unhandled rejection

accountVars == <<session, sessionCount>>
contextVars == <<generation, pressure, compaction, compactFrom>>
prepVars    == <<prep, capGen, capSession, capCatchup, retried>>
vars == <<runVars, runMessages, backgroundVars, accountVars, contextVars,
          contextGeneration, prepVars, gateway>>

Preps == {"none", "deferred", "compact", "session", "prompt", "retry"}

Init ==
    /\ status = [r \in Runs |-> "unused"]
    /\ account = [r \in Runs |-> None]
    /\ lineage = [r \in Runs |-> << >>]
    /\ outputPolicy = [r \in Runs |-> "space"]
    /\ runSession = [r \in Runs |-> 0]
    /\ runMessages = {}
    /\ catchup = [r \in Runs |-> "none"]
    /\ catchupOrder = << >>
    /\ pendingRoots = [r \in Runs |-> << >>]
    /\ reserved = [r \in Runs |-> {}]
    /\ consumedRuns = [r \in Runs |-> {}]
    /\ session = [a \in Accounts |-> 0]
    /\ sessionCount = [a \in Accounts |-> 0]
    /\ generation = [a \in Accounts |-> 1]
    /\ pressure = [a \in Accounts |-> FALSE]
    /\ compaction = [a \in Accounts |-> "idle"]
    /\ compactFrom = [a \in Accounts |-> 0]
    /\ contextGeneration = [r \in Runs |-> 0]
    /\ prep = [r \in Runs |-> "none"]
    /\ capGen = [r \in Runs |-> 0]
    /\ capSession = [r \in Runs |-> 0]
    /\ capCatchup = [r \in Runs |-> None]
    /\ retried = [r \in Runs |-> FALSE]
    /\ gateway = "up"

Up == gateway = "up"

(* assertRunAuthority: the daemon that speaks for run r holds its lease. *)
HasAuthority(r) ==
    /\ status[r] = "running"
    /\ session[account[r]] # 0
    /\ runSession[r] = session[account[r]]
    /\ ~IsChild(r) => contextGeneration[r] = generation[account[r]]

-----------------------------------------------------------------------------
(* Mutants: plausible bugs that the properties below catch *)

releaseRunningExecutions(a) ==
    status' = [r \in Runs |-> IF status[r] = "running" /\ account[r] = a
                              THEN "failed" ELSE status[r]]

StartPhaseUnchecked(a, pressed, first) ==
    IF pressed THEN "compact"
    ELSE IF session[a] = 0 THEN "failed"
    ELSE IF compaction[a] # "idle" THEN "retry" ELSE "session"

FailedInAnyStatus(ph, base) == {x \in DOMAIN ph : ph[x] = "failed"}

AccountBusyInGeneration(r) ==
    \E x \in RunningOn(account[r]) \ {r} : contextGeneration[x] = contextGeneration[r]

DispatchBusyDropped(r) ==
    /\ Up /\ prep[r] = "prompt"
    /\ IsActive(r) /\ runSession[r] = capSession[r] /\ RunningOn(account[r]) \ {r} # {}
    /\ releaseReservation(capCatchup[r], r)
    /\ prep' = [prep EXCEPT ![r] = "none"]
    /\ UNCHANGED <<runVars, runMessages, catchup, catchupOrder, pendingRoots, consumedRuns,
                   accountVars, contextVars, contextGeneration, capGen, capSession,
                   capCatchup, retried, gateway>>

AsksToDelegateEnded(s) == HasAuthority(s) \/ outputPolicy[s] = "space"

-----------------------------------------------------------------------------
(* The account's owner: login, and everything that ends a session *)

Login(a) ==
    /\ Up /\ session[a] = 0
    /\ sessionCount[a] < MaxSessions
    /\ sessionCount' = [sessionCount EXCEPT ![a] = @ + 1]
    /\ session' = [session EXCEPT ![a] = sessionCount[a] + 1]
    /\ UNCHANGED <<runVars, runMessages, backgroundVars, contextVars,
                   contextGeneration, prepVars, gateway>>

(* releaseAccountExecutions ends the account's runs without telling the    *)
(* run messages, the background overlay or the descendants.                *)
releaseAccountExecutions(a) ==
    status' = [r \in Runs |-> IF IsActive(r) /\ account[r] = a
                              THEN "failed" ELSE status[r]]

(* logout, rotateAccessKey and revokeAccessKey. *)
Revoke(a) ==
    /\ Up /\ session[a] # 0
    /\ sessionCount[a] < MaxSessions
    /\ session' = [session EXCEPT ![a] = 0]
    /\ releaseAccountExecutions(a)
    /\ UNCHANGED <<account, lineage, outputPolicy, runSession, runMessages,
                   backgroundVars, sessionCount, contextVars,
                   contextGeneration, prepVars, gateway>>

-----------------------------------------------------------------------------
(* Preparation of root runs: prepareAndDispatch up to its first await *)

(* Past the compaction step: the checks that precede ensureSession. *)
Admission(a) ==
    IF session[a] = 0              THEN "failed"
    ELSE IF compaction[a] # "idle" THEN "retry"
    ELSE "session"

(* Of the runs started together on a pressed context, the first one        *)
(* creates the compaction job; session_busy fails the others.              *)
StartPhase(a, pressed, first) ==
    IF ~pressed THEN Admission(a)
    ELSE IF first /\ compaction[a] = "idle" THEN "compact"
    ELSE "failed"

StartPhases(roots, start, a, pressed) ==
    [x \in roots |-> StartPhase(a, pressed, x = start)]

(* The effect of an outcome ph (root run -> phase) on runs of account a,   *)
(* with base the status rows at that point.  failPending only touches a    *)
(* run that is still pending.                                              *)
FailedIn(ph, base) ==
    {x \in DOMAIN ph : ph[x] = "failed" /\ base[x] = "pending"}

StatusAfter(ph, base) ==
    [x \in Runs |-> IF x \in FailedIn(ph, base) THEN "failed" ELSE base[x]]

PrepAfter(ph) ==
    [x \in Runs |-> IF x \notin DOMAIN ph THEN prep[x]
                    ELSE IF ph[x] = "failed" THEN "none" ELSE ph[x]]

(* The session captured for a run that is admitted. *)
CaptureSession(ph, a) ==
    capSession' = [x \in Runs |-> IF x \in DOMAIN ph /\ ph[x] = "session"
                                  THEN session[a] ELSE capSession[x]]

CaptureGeneration(ph, a) ==
    capGen' = [x \in Runs |-> IF x \in DOMAIN ph THEN generation[a] ELSE capGen[x]]

(* createContextCompactionJob, when `wanted`. *)
RequestCompaction(a, wanted) ==
    IF wanted /\ compaction[a] = "idle"
    THEN /\ compaction' = [compaction EXCEPT ![a] = "queued"]
         /\ compactFrom' = [compactFrom EXCEPT ![a] = generation[a]]
    ELSE UNCHANGED <<compaction, compactFrom>>

(* prepareAndDispatch for new or resumed roots (dispatchPendingRoot), of   *)
(* which `start` comes first, on status rows base and message rows ms.     *)
StartRoots(roots, start, a, pressed, base, ms) ==
    LET ph == StartPhases(roots, start, a, pressed)
    IN  /\ status' = StatusAfter(ph, base)
        /\ runMessages' = FailRecipient(ms, FailedIn(ph, base))
        /\ prep' = PrepAfter(ph)
        /\ CaptureGeneration(ph, a)
        /\ CaptureSession(ph, a)
        /\ UNCHANGED <<capCatchup, retried>>

(* postMessage for one seat, with scheduleRootRun.  A message that is not  *)
(* addressed to a blocked account is skipped and schedules nothing.        *)
ScheduleRoot(r, a) ==
    /\ Up /\ status[r] = "unused" /\ session[a] # 0
    /\ account' = [account EXCEPT ![r] = a]
    /\ runSession' = [runSession EXCEPT ![r] = session[a]]
    /\ contextGeneration' = [contextGeneration EXCEPT ![r] = generation[a]]
    /\ IF blockingFor(a) # None
       THEN /\ status' = [status EXCEPT ![r] = "pending"]
            /\ pendingRoots' = deferRoot(a, r)
            /\ prep' = [prep EXCEPT ![r] = "deferred"]
            /\ UNCHANGED <<runMessages, capGen, capSession, capCatchup, retried,
                           compaction, compactFrom>>
       ELSE /\ StartRoots({r}, r, a, pressure[a], [status EXCEPT ![r] = "pending"],
                          runMessages)
            /\ RequestCompaction(a, pressure[a])
            /\ UNCHANGED pendingRoots
    /\ UNCHANGED <<lineage, outputPolicy, catchup, catchupOrder, reserved, consumedRuns,
                   accountVars, generation, pressure, gateway>>

-----------------------------------------------------------------------------
(* Preparation of root runs: the awaits *)

(* ensureSession returned; the catch-up is reserved, compilePrompt awaits. *)
SessionReady(r) ==
    /\ Up /\ prep[r] = "session"
    /\ prep' = [prep EXCEPT ![r] = "prompt"]
    /\ capCatchup' = [capCatchup EXCEPT ![r] = contextForRun(r)]
    /\ reserve(contextForRun(r), r)
    /\ UNCHANGED <<runVars, runMessages, catchup, catchupOrder, pendingRoots, consumedRuns,
                   accountVars, contextVars, contextGeneration, capGen, capSession,
                   retried, gateway>>

(* The claim of authorizeDaemonExecution. *)
MayClaim(r)    == IsActive(r) /\ runSession[r] = capSession[r]
AccountBusy(r) == RunningOn(account[r]) \ {r} # {}

(* compilePrompt returned and the run takes the account's lease. *)
Dispatch(r) ==
    /\ Up /\ prep[r] = "prompt"
    /\ MayClaim(r) /\ ~AccountBusy(r)
    /\ status' = [status EXCEPT ![r] = "running"]
    /\ markDispatched(capCatchup[r], r)
    /\ prep' = [prep EXCEPT ![r] = "none"]
    /\ UNCHANGED <<account, lineage, outputPolicy, runSession, runMessages, catchupOrder,
                   pendingRoots, reserved, accountVars, contextVars, contextGeneration,
                   capGen, capSession, capCatchup, retried, gateway>>

DispatchBusy(r) ==
    /\ Up /\ prep[r] = "prompt"
    /\ MayClaim(r) /\ AccountBusy(r)
    /\ releaseReservation(capCatchup[r], r)
    /\ prep' = [prep EXCEPT ![r] = "retry"]
    /\ UNCHANGED <<runVars, runMessages, catchup, catchupOrder, pendingRoots, consumedRuns,
                   accountVars, contextVars, contextGeneration, capGen, capSession,
                   capCatchup, retried, gateway>>

(* The prompt exceeds the context capacity, or the claim is refused.  The  *)
(* error is rethrown: nobody catches the rejection of a retried attempt.   *)
DispatchFails(r) ==
    /\ Up /\ prep[r] = "prompt"
    /\ releaseReservation(capCatchup[r], r)
    /\ status' = StatusAfter([x \in {r} |-> "failed"], status)
    /\ runMessages' = FailRecipient(runMessages, FailedIn([x \in {r} |-> "failed"], status))
    /\ prep' = [prep EXCEPT ![r] = "none"]
    /\ gateway' = IF retried[r] THEN "down" ELSE "up"
    /\ UNCHANGED <<account, lineage, outputPolicy, runSession, catchup, catchupOrder,
                   pendingRoots, consumedRuns, accountVars, contextVars,
                   contextGeneration, capGen, capSession, capCatchup, retried>>

(* The 100 ms timer of retryBusy for a root run: prepareAndDispatch again, *)
(* with the AgentSession captured by the first attempt.                    *)
RetryRoot(r) ==
    LET a  == account[r]
        ph == [x \in {r} |-> IF capGen[r] # generation[a] THEN "failed"
                             ELSE StartPhase(a, pressure[a], TRUE)]
    IN  /\ Up /\ prep[r] = "retry" /\ status[r] = "pending" /\ ~IsChild(r)
        /\ retried' = [retried EXCEPT ![r] = TRUE]
        /\ status' = StatusAfter(ph, status)
        /\ runMessages' = FailRecipient(runMessages, FailedIn(ph, status))
        /\ prep' = PrepAfter(ph)
        /\ CaptureSession(ph, a)
        /\ RequestCompaction(a, ph[r] = "compact")
        /\ gateway' = IF ph[r] = "failed" THEN "down" ELSE "up"
        /\ UNCHANGED <<account, lineage, outputPolicy, runSession, backgroundVars,
                       accountVars, generation, pressure, contextGeneration, capGen,
                       capCatchup>>

(* The timer finds that the run is not pending any more. *)
RetryDropped(r) ==
    /\ Up /\ prep[r] = "retry" /\ status[r] # "pending"
    /\ prep' = [prep EXCEPT ![r] = "none"]
    /\ UNCHANGED <<runVars, runMessages, backgroundVars, accountVars, contextVars,
                   contextGeneration, capGen, capSession, capCatchup, retried, gateway>>

-----------------------------------------------------------------------------
(* Child runs: createDelegate and prepareChildAndDispatch *)

InitialMessages(r) == {m \in runMessages : m.kind = "delegate" /\ m.to = r}

(* failPending of a child.  When the root has no room for the terminal     *)
(* message, completeSourceRun throws out of prepareChildAndDispatch, whose *)
(* rejection nobody catches.                                               *)
FailPendingChild(r, ms, notices, fits) ==
    IF fits
    THEN /\ status' = [status EXCEPT ![r] = "failed"]
         /\ runMessages' = FailRecipient(ms \cup notices, {r})
         /\ gateway' = "up"
    ELSE /\ status' = [status EXCEPT ![r] = "pending"]
         /\ runMessages' = ms
         /\ gateway' = "down"

(* A delegation is asked for by the executing daemon, or comes from a      *)
(* public message of an active run's account that addresses another seat   *)
(* (routeAccountMessage).                                                  *)
AsksToDelegate(s) == HasAuthority(s) \/ (IsActive(s) /\ outputPolicy[s] = "space")

(* createDelegate.  The first attempt of the child follows without an      *)
(* await: its packet may exceed the recipient's context, its account may   *)
(* be busy.                                                                *)
Delegate(s, r, a, key) ==
    LET packet == Posted(s, r, "delegate", key)
    IN  /\ Up /\ AsksToDelegate(s)
        /\ MayDelegate(s, a, key) /\ session[a] # 0
        /\ status[r] = "unused"
        /\ account' = [account EXCEPT ![r] = a]
        /\ lineage' = [lineage EXCEPT ![r] = Append(lineage[s], s)]
        /\ outputPolicy' = [outputPolicy EXCEPT ![r] = "source"]
        /\ runSession' = [runSession EXCEPT ![r] = session[a]]
        /\ \/ /\ FailPendingChild(r, runMessages \cup {packet},
                                  {Posted(r, s, "blocked", TerminalKey)},
                                  HasCapacity(RootOf(s), 2))
              /\ UNCHANGED prep
           \/ /\ RunningOn(a) # {}
              /\ status' = [status EXCEPT ![r] = "pending"]
              /\ runMessages' = runMessages \cup {packet}
              /\ prep' = [prep EXCEPT ![r] = "retry"]
              /\ UNCHANGED gateway
           \/ /\ RunningOn(a) = {}
              /\ status' = [status EXCEPT ![r] = "running"]
              /\ runMessages' = runMessages \cup {WithState(packet, "consumed")}
              /\ UNCHANGED <<prep, gateway>>
        /\ UNCHANGED <<backgroundVars, accountVars, contextVars, contextGeneration,
                       capGen, capSession, capCatchup, retried>>

(* The packet is still open and its recipient kept its session. *)
Deliverable(r) ==
    /\ \E m \in InitialMessages(r) : m.state \in OpenStates
    /\ session[account[r]] # 0
    /\ runSession[r] = session[account[r]]

(* The retry timer of a child, in its three outcomes. *)
RetryChildFails(r) ==
    /\ Up /\ prep[r] = "retry" /\ status[r] = "pending" /\ IsChild(r)
    /\ prep' = [prep EXCEPT ![r] = "none"]
    /\ \E expired \in SUBSET OpenFor(InitialMessages(r), {r}) :
           FailPendingChild(r, SetState(runMessages, expired, "failed"), Notices({r}, "blocked"),
                            NeedsNotice(r) => HasCapacity(RootOf(r), 1))
    /\ UNCHANGED <<account, lineage, outputPolicy, runSession, backgroundVars, accountVars,
                   contextVars, contextGeneration, capGen, capSession, capCatchup, retried>>

RetryChildBusy(r) ==
    /\ Up /\ prep[r] = "retry" /\ status[r] = "pending" /\ IsChild(r)
    /\ Deliverable(r) /\ AccountBusy(r)
    /\ UNCHANGED vars

RetryChildRuns(r) ==
    /\ Up /\ prep[r] = "retry" /\ status[r] = "pending" /\ IsChild(r)
    /\ Deliverable(r) /\ ~AccountBusy(r)
    /\ status' = [status EXCEPT ![r] = "running"]
    /\ runMessages' = SetState(runMessages, InitialMessages(r), "consumed")
    /\ prep' = [prep EXCEPT ![r] = "none"]
    /\ UNCHANGED <<account, lineage, outputPolicy, runSession, backgroundVars, accountVars,
                   contextVars, contextGeneration, capGen, capSession, capCatchup,
                   retried, gateway>>

-----------------------------------------------------------------------------
(* The end of a run *)

(* The row of r's catch-up record and the deferred roots, when r ends. *)
Settle(r, final, news, pressed, base, ms) ==
    /\ catchup' = [catchup EXCEPT ![r] = FinishedStatus(r, final, news)]
    /\ StartRoots(ResumedByFinish(r, final, news), FirstResumed(r), account[r], pressed,
                  base, ms)

(* updateRun with status completed; `usage` is what the daemon reports of  *)
(* the context, "high" when the new pressure asks for a compaction.        *)
CompleteRun(r, usage, news) ==
    LET a       == account[r]
        pressed == IF usage = "none" THEN pressure[a] ELSE usage = "high"
        fits    == NeedsNotice(r) => HasCapacity(RootOf(r), 1)
    IN  /\ Up /\ HasAuthority(r)
        /\ ActiveDescendants(r) = {}
        /\ outputPolicy[r] = "source" => HasTerminalMessage(r)
        /\ IsChild(r) => usage = "none"
        /\ usage = "high" => generation[a] < MaxGeneration
        /\ pressure' = [pressure EXCEPT ![a] = pressed]
        /\ IF fits
           THEN /\ Settle(r, "completed", news, pressed, [status EXCEPT ![r] = "completed"],
                          FailRecipient(runMessages \cup Notices({r}, "result"), {r}))
                /\ RequestCompaction(a, usage = "high" \/
                       (pressed /\ ResumedByFinish(r, "completed", news) # {}))
           ELSE UNCHANGED <<status, runMessages, catchup, prepVars, compaction, compactFrom>>
        /\ UNCHANGED <<account, lineage, outputPolicy, runSession, catchupOrder, pendingRoots,
                       reserved, consumedRuns, accountVars, generation, contextGeneration,
                       gateway>>

(* The runs of T are ended deepest first; the loop stops with an exception *)
(* at the first whose terminal message does not fit.  done are the runs    *)
(* that it reached.                                                        *)
EndedPrefix(T, root, done) ==
    /\ done \subseteq T
    /\ \A x \in done, y \in T \ done : Depth(x) >= Depth(y)
    /\ Notices(done, "blocked") # {} =>
           HasCapacity(root, Cardinality(Notices(done, "blocked")))
    /\ done # T =>
           \E x \in T \ done :
               /\ NeedsNotice(x)
               /\ ~HasCapacity(root, Cardinality(Notices(done, "blocked")) + 1)
               /\ \A y \in T \ done : Depth(y) <= Depth(x)

EndSubtree(r, T, final, news) ==
    \E done \in SUBSET T :
        LET a     == account[r]
            base  == [x \in Runs |-> IF x \notin done THEN status[x]
                                     ELSE IF x = r THEN final ELSE "cancelled"]
            ms    == FailRecipient(runMessages \cup Notices(done, "blocked"), done)
        IN  /\ EndedPrefix(T, RootOf(r), done)
            /\ IF r \in done
               THEN /\ Settle(r, final, news, pressure[a], base, ms)
                    /\ RequestCompaction(a, pressure[a] /\ ResumedByFinish(r, final, news) # {})
               ELSE /\ status' = base
                    /\ runMessages' = ms
                    /\ UNCHANGED <<catchup, prepVars, compaction, compactFrom>>
            /\ UNCHANGED <<account, lineage, outputPolicy, runSession, catchupOrder,
                           pendingRoots, reserved, consumedRuns, accountVars, generation,
                           pressure, contextGeneration, gateway>>

(* updateRun with status failed or cancelled. *)
EndRun(r, final, news) ==
    /\ Up /\ HasAuthority(r)
    /\ EndSubtree(r, {r} \cup ActiveDescendants(r), final, news)

(* POST /api/runs/:id/cancel; the run itself may have ended already. *)
CancelRequest(r, news) ==
    LET T == ({r} \cap ActiveRuns) \cup ActiveDescendants(r)
    IN  /\ Up /\ T # {}
        /\ EndSubtree(r, T, "cancelled", news)

-----------------------------------------------------------------------------
(* Context compaction and rotation *)

(* POST /api/spaces/:id/_compact: a job with a target per seat, whatever   *)
(* the accounts are executing.                                             *)
CompactSpace ==
    /\ Up
    /\ \A a \in Accounts : compaction[a] = "idle" /\ generation[a] < MaxGeneration
    /\ compaction' = [a \in Accounts |-> "queued"]
    /\ compactFrom' = generation
    /\ UNCHANGED <<runVars, runMessages, backgroundVars, accountVars, generation, pressure,
                   contextGeneration, prepVars, gateway>>

(* withAccountExecutionLock grants the lock; the daemon is asked. *)
CompactStart(a) ==
    /\ Up /\ compaction[a] = "queued"
    /\ generation[a] = compactFrom[a] /\ session[a] # 0
    /\ compaction' = [compaction EXCEPT ![a] = "running"]
    /\ UNCHANGED <<runVars, runMessages, backgroundVars, accountVars, generation, pressure,
                   compactFrom, contextGeneration, prepVars, gateway>>

(* The run whose preparation awaits compactAgent. *)
Compacting(a) == {r \in Runs : account[r] = a /\ prep[r] = "compact"}

(* submitDaemonResult with status succeeded: the context rotates, and the  *)
(* awaiting preparation adopts the generation and goes on.                 *)
CompactSucceeds(a) ==
    LET ph == [r \in Compacting(a) |-> "session"]
    IN  /\ Up /\ compaction[a] = "running" /\ session[a] # 0
        /\ generation[a] = compactFrom[a]
        /\ compaction' = [compaction EXCEPT ![a] = "idle"]
        /\ generation' = [generation EXCEPT ![a] = @ + 1]
        /\ pressure' = [pressure EXCEPT ![a] = FALSE]
        /\ contextGeneration' = [r \in Runs |-> IF r \in Compacting(a)
                                     THEN generation[a] + 1 ELSE contextGeneration[r]]
        /\ prep' = PrepAfter(ph)
        /\ CaptureSession(ph, a)
        /\ UNCHANGED <<runVars, runMessages, backgroundVars, accountVars, compactFrom,
                       capGen, capCatchup, retried, gateway>>

(* The job fails: the generation has moved before it started, the daemon   *)
(* is gone, reports a failure or does not answer within sessionTimeoutMs.  *)
(* The awaiting preparation fails its run and rethrows.                    *)
CompactFails(a) ==
    LET ph == [r \in Compacting(a) |-> "failed"]
    IN  /\ Up
        /\ \/ compaction[a] = "running"
           \/ compaction[a] = "queued" /\ (generation[a] # compactFrom[a] \/ session[a] = 0)
        /\ compaction' = [compaction EXCEPT ![a] = "idle"]
        /\ status' = StatusAfter(ph, status)
        /\ runMessages' = FailRecipient(runMessages, FailedIn(ph, status))
        /\ prep' = PrepAfter(ph)
        /\ gateway' = IF \E r \in Compacting(a) : retried[r] THEN "down" ELSE "up"
        /\ UNCHANGED <<account, lineage, outputPolicy, runSession, backgroundVars, accountVars,
                       generation, pressure, compactFrom, contextGeneration, capGen,
                       capSession, capCatchup, retried>>

(* rotateProviderBinding: the daemon found the provider session missing or *)
(* invalid before the first reply of its run.                              *)
RotateBinding(r) ==
    LET a == account[r]
    IN  /\ Up /\ HasAuthority(r) /\ ~IsChild(r)
        /\ generation[a] < MaxGeneration
        /\ generation' = [generation EXCEPT ![a] = @ + 1]
        /\ pressure' = [pressure EXCEPT ![a] = FALSE]
        /\ contextGeneration' = [contextGeneration EXCEPT ![r] = generation[a] + 1]
        /\ UNCHANGED <<runVars, runMessages, backgroundVars, accountVars, compaction,
                       compactFrom, prepVars, gateway>>

-----------------------------------------------------------------------------
(* Run messages: requests of the executing daemon and of the user *)

otherThanMessages == <<runVars, backgroundVars, accountVars, contextVars,
                       contextGeneration, prepVars, gateway>>

SendMessage(s, to, kind, key) ==
    /\ Up /\ HasAuthority(s) /\ CreateMessage(s, to, kind, key)
    /\ UNCHANGED otherThanMessages

(* Before a private run ends, its daemon sends the terminal message itself, *)
(* under the key that completeSourceRun uses.                              *)
SendTerminal(r, kind) ==
    /\ outputPolicy[r] = "source" /\ kind \in {"result", "blocked"}
    /\ SendMessage(r, IF IsChild(r) THEN Parent(r) ELSE User, kind, TerminalKey)

ReadInbox(r) == Up /\ HasAuthority(r) /\ Inbox(r) /\ UNCHANGED otherThanMessages

ConsumeMessage(r, m) ==
    Up /\ HasAuthority(r) /\ Consume(r, m) /\ UNCHANGED otherThanMessages

UserInstruction(r, key) ==
    Up /\ CreateUserInstruction(r, key) /\ UNCHANGED otherThanMessages

-----------------------------------------------------------------------------
(* The background overlay *)

BackgroundRun(r) ==
    /\ Up /\ MayBackground(r)
    /\ outputPolicy' = [outputPolicy EXCEPT ![r] = "source"]
    /\ openRecord(r)
    /\ UNCHANGED <<status, account, lineage, runSession, runMessages, accountVars,
                   contextVars, contextGeneration, prepVars, gateway>>

(* An awaited summary arrives, or fails to: deferred roots go on. *)
SettleAwaiting(c, outcome) ==
    LET a == account[c]
    IN  /\ Up /\ catchup[c] = "awaiting_result"
        /\ catchup' = [catchup EXCEPT ![c] = outcome]
        /\ StartRoots(Resumed(c), FirstResumed(c), a, pressure[a], status, runMessages)
        /\ RequestCompaction(a, pressure[a] /\ Resumed(c) # {})
        /\ UNCHANGED <<account, lineage, outputPolicy, runSession, catchupOrder, pendingRoots,
                       reserved, consumedRuns, accountVars, generation, pressure,
                       contextGeneration, gateway>>

CatchupResult(c, outcome) ==
    /\ catchup[c] = "awaiting_result"
    /\ session[account[c]] # 0
    /\ SettleAwaiting(c, outcome)

CatchupTimeout(c) == SettleAwaiting(c, "failed")

-----------------------------------------------------------------------------
(* The gateway process ends, or was ended, and starts again on its store.  *)

Restart ==
    /\ \E quiet \in SUBSET {r \in Runs : catchup[r] = "collecting"} : recoverCatchups(quiet)
    /\ status' = [r \in Runs |-> IF IsActive(r) THEN "failed" ELSE status[r]]
    /\ runMessages' = SetState(runMessages, OpenFor(runMessages, Runs), "failed")
    /\ session' = [a \in Accounts |-> 0]
    /\ compaction' = [a \in Accounts |-> "idle"]
    /\ prep' = [r \in Runs |-> "none"]
    /\ capGen' = [r \in Runs |-> 0]
    /\ capSession' = [r \in Runs |-> 0]
    /\ capCatchup' = [r \in Runs |-> None]
    /\ retried' = [r \in Runs |-> FALSE]
    /\ gateway' = "up"
    /\ UNCHANGED <<account, lineage, outputPolicy, runSession, catchupOrder, pendingRoots,
                   reserved, consumedRuns, sessionCount, generation, pressure, compactFrom,
                   contextGeneration>>

-----------------------------------------------------------------------------
AccountStep == \E a \in Accounts :
    \/ Login(a) \/ Revoke(a)
    \/ CompactStart(a) \/ CompactSucceeds(a) \/ CompactFails(a)
    \/ \E r \in Runs : ScheduleRoot(r, a)

PrepareStep(r) ==
    \/ SessionReady(r) \/ Dispatch(r) \/ DispatchBusy(r) \/ DispatchFails(r)
    \/ RetryRoot(r) \/ RetryDropped(r)
    \/ RetryChildFails(r) \/ RetryChildBusy(r) \/ RetryChildRuns(r)

EndStep(r) == \E news \in BOOLEAN :
    \/ \E usage \in {"none", "low", "high"} : CompleteRun(r, usage, news)
    \/ \E final \in {"failed", "cancelled"} : EndRun(r, final, news)
    \/ CancelRequest(r, news)

MessageStep(r) ==
    \/ \E a \in Accounts, c \in Runs, key \in Keys : Delegate(r, c, a, key)
    \/ \E to \in Runs \cup {User}, kind \in SentKinds, key \in Keys :
           SendMessage(r, to, kind, key)
    \/ \E kind \in SentKinds : SendTerminal(r, kind)
    \/ ReadInbox(r)
    \/ \E m \in runMessages : ConsumeMessage(r, m)
    \/ \E key \in Keys : UserInstruction(r, key)

BackgroundStep(r) ==
    \/ BackgroundRun(r)
    \/ \E outcome \in {"ready", "failed"} : CatchupResult(r, outcome)
    \/ CatchupTimeout(r)

Next ==
    \/ AccountStep
    \/ \E r \in Runs : PrepareStep(r) \/ EndStep(r) \/ MessageStep(r) \/ BackgroundStep(r)
                       \/ RotateBinding(r)
    \/ CompactSpace
    \/ Restart

Spec == Init /\ [][Next]_vars

-----------------------------------------------------------------------------
(* Type invariant *)

TypeOK ==
    /\ status \in [Runs -> Active \cup Terminal \cup {"unused"}]
    /\ account \in [Runs -> Accounts \cup {None}]
    /\ lineage \in [Runs -> Seq(Runs)]
    /\ outputPolicy \in [Runs -> {"space", "source"}]
    /\ runSession \in [Runs -> Nat]
    /\ runMessages \subseteq Message
    /\ catchup \in [Runs -> CatchupStates]
    /\ catchupOrder \in Seq(Runs)
    /\ pendingRoots \in [Runs -> Seq(Runs)]
    /\ reserved \in [Runs -> SUBSET Runs]
    /\ consumedRuns \in [Runs -> SUBSET Runs]
    /\ session \in [Accounts -> Nat]
    /\ sessionCount \in [Accounts -> Nat]
    /\ generation \in [Accounts -> Nat \ {0}]
    /\ pressure \in [Accounts -> BOOLEAN]
    /\ compaction \in [Accounts -> {"idle", "queued", "running"}]
    /\ compactFrom \in [Accounts -> Nat]
    /\ contextGeneration \in [Runs -> Nat]
    /\ prep \in [Runs -> Preps]
    /\ capGen \in [Runs -> Nat]
    /\ capSession \in [Runs -> Nat]
    /\ capCatchup \in [Runs -> Runs \cup {None}]
    /\ retried \in [Runs -> BOOLEAN]
    /\ gateway \in {"up", "down"}

-----------------------------------------------------------------------------
(* Safety *)

(* Two runs never hold the lease of one account together, although any     *)
(* number of preparations race for it (authorizeDaemonExecution).          *)
LeaseExclusive ==
    \A r1, r2 \in Runs :
        status[r1] = "running" /\ status[r2] = "running" /\ account[r1] = account[r2]
            => r1 = r2

(* An active run belongs to the session its account has now: the end of a  *)
(* session leaves no run behind that a later session could be handed       *)
(* (releaseAccountExecutions, recoverInterruptedRuns).                     *)
ActiveSession ==
    \A r \in Runs : IsActive(r) =>
        account[r] \in Accounts /\ session[account[r]] # 0 /\ runSession[r] = session[account[r]]

(* A terminal run never becomes active or changes its outcome, whatever    *)
(* await its preparation is still suspended at (failPending, cancelRun).   *)
TerminalStays ==
    [][\A r \in Runs : status[r] \in Terminal => status'[r] = status[r]]_vars

(* A run that completed or was cancelled has no active descendant: updateRun *)
(* waits for the subtree, cancelRun ends it first, and no child can be      *)
(* delegated by an ended run.                                               *)
EndedSubtreeQuiet ==
    \A r \in Runs : status[r] \in {"completed", "cancelled"} => ActiveDescendants(r) = {}

(* No pending run is forgotten: some continuation, timer, compaction or    *)
(* catch-up record still holds it (retryBusy, dispatchPendingRoot).        *)
NoAbandonedRun ==
    \A r \in Runs : status[r] = "pending" /\ Up => prep[r] # "none"

(* A deferred root is listed by a record that will resume it (deferRoot,   *)
(* finishRun, submitResult, failAwaiting).                                 *)
DeferredListed ==
    \A r \in Runs : status[r] = "pending" /\ prep[r] = "deferred" =>
        \E c \in Runs : /\ catchup[c] \in {"collecting", "awaiting_result"}
                        /\ account[c] = account[r]
                        /\ r \in Elements(pendingRoots[c])

(* A preparation that awaits a compaction has one to wait for, of the      *)
(* generation it captured, and is the only one of its account              *)
(* (compactAgent).                                                         *)
CompactionAwaited ==
    \A r1, r2 \in Runs : prep[r1] = "compact" =>
        /\ compaction[account[r1]] # "idle"
        /\ capGen[r1] = compactFrom[account[r1]]
        /\ prep[r2] = "compact" /\ account[r2] = account[r1] => r1 = r2

(* The limits of agentCommunication hold over whole trees, also when a     *)
(* cancellation writes several terminal messages at once.                  *)
LimitsHold ==
    \A r \in Runs :
        /\ Depth(r) <= MaxDepth
        /\ Cardinality(Children(r)) <= MaxChildrenPerRun
        /\ ~IsChild(r) => Cardinality(RootMessages(r)) <= MaxMessagesPerRoot

(* While no session ended early, an open message has a run to read it:     *)
(* whoever ends a run also fails its inbox (failRecipient).                *)
OpenMessagesReadable ==
    \A m \in runMessages : m.to \in Runs /\ m.state \in OpenStates => IsActive(m.to)

(* A delivery that was consumed or failed stays so, and no row is lost     *)
(* (consume, inbox, failRecipient, recoverInterruptedRuns).                *)
DeliveryFinal ==
    [][\A m \in runMessages : \E n \in runMessages' :
          /\ [n EXCEPT !.state = m.state] = m
          /\ m.state \notin OpenStates => n = m]_vars

(* A parent that is still active was told of the end of each child that    *)
(* completed or was cancelled (completeSourceRun): the parent's daemon     *)
(* waits for exactly this message.                                         *)
ParentInformed ==
    \A c \in Runs :
        status[c] \in {"completed", "cancelled"} /\ IsChild(c) /\ IsActive(Parent(c))
            => \E m \in runMessages : m.from = c /\ m.kind \in {"result", "blocked"}

(* Runs that wait for each other: a running run waits for a child, a       *)
(* pending one for the run that holds its account.                         *)
WaitSet(S) ==
    \A x \in S : IF status[x] = "running" THEN Children(x) \cap S # {}
                 ELSE RunningOn(account[x]) \cap S # {}

(* No set of runs waits for itself: createDelegate refuses a delegation    *)
(* that "would create a cyclic Account wait".                              *)
NoAccountWaitCycle ==
    \A S \in SUBSET ActiveRuns : WaitSet(S) => S = {}

(* A record collects only while its run executes privately (backgroundRun, *)
(* finishRun).                                                             *)
CollectingRuns ==
    \A c \in Runs : catchup[c] = "collecting" =>
        status[c] = "running" /\ outputPolicy[c] = "source"

(* A summary that was injected is consumed only after every root that was  *)
(* deferred behind it has got it (markDispatched).                         *)
SummaryServesDeferred ==
    \A c \in Runs : catchup[c] = "consumed" /\ consumedRuns[c] # {} =>
        Elements(pendingRoots[c]) \subseteq consumedRuns[c]

(* The overlay agrees with the runs: deferred roots are listed, quiet runs *)
(* are collected, and a summary serves every root deferred behind it.      *)
OverlayConsistent == DeferredListed /\ CollectingRuns /\ SummaryServesDeferred

-----------------------------------------------------------------------------
(* Liveness *)

(* Promises and timers of the gateway run; a daemon reports the end of its *)
(* run (daemon-run-handler always submits a terminal status).              *)
Fairness ==
    \A r \in Runs :
        /\ WF_vars(SessionReady(r))
        /\ WF_vars(Dispatch(r) \/ DispatchBusy(r) \/ DispatchFails(r))
        /\ WF_vars(RetryRoot(r) \/ RetryDropped(r))
        /\ WF_vars(EndRun(r, "failed", FALSE))
        /\ WF_vars(CatchupTimeout(r))

FairSpec == Spec /\ Fairness

(* Every pending root run is eventually started or ended, also when it was *)
(* deferred behind a background run, as long as the gateway stays up.  It  *)
(* is checked without compactions: one that overlaps the start of a run    *)
(* leaves a run whose daemon has no authority to end it.                   *)
PendingEnds ==
    \A r \in Runs : status[r] = "pending" ~> (status[r] # "pending" \/ ~Up)
=============================================================================
