------------------------------ MODULE DaemonRun ------------------------------
(***************************************************************************)
(* The runs a daemon executes, from the run.requested event to the end of  *)
(* the run: what the executor emits, the queue of reports, approvals, and  *)
(* what the gateway makes of each report.  Events reach the daemon as      *)
(* DirectedDelivery promises, which DaemonLink implements.                 *)
(*                                                                         *)
(* The executor (an adapter) is the environment: between the request and   *)
(* its return it emits outputs, asks for at most one approval per run and  *)
(* may fail at any point.  An output is known by its position in what the  *)
(* executor emits.  Child runs and source-only runs are in RunExecution.   *)
(***************************************************************************)
EXTENDS Naturals, Sequences

CONSTANTS
    Runs,           \* the runs of the Account, one at a time
    ApiRuns,        \* those of an API runtime, which commit a history turn
    StreamingRuns,  \* those whose executor emits before it returns a result
    MaxOutputs,     \* bound: outputs such an executor emits
    MaxFaults       \* bound: lost or unanswered requests, cut streams,
                    \*   resets, revocations, crashes and restarts

VARIABLES
    session, holder, unread, resets,    \* see DirectedDelivery
    issued,         \* Account Sessions ever issued
    faults,         \* faults so far
    \* rows of the gateway
    status,         \* run.status, "none" before the run exists
    runSession,     \* run.accountSessionId
    accepted,       \* outputs in the timeline, in order of arrival
    streaming,      \* the run has a message whose status is streaming
    approval,       \* status or answer of the run's approval row
    committed,      \* apiResultVersion is set
    \* the daemon's run handler
    stage,          \* where run() stands; "none" before, "done" after it
    emitted,        \* kinds of the outputs the executor has emitted
    reported,       \* how many of them the queue of reports is done with
    reportError,    \* the first report that failed stops the queue
    hasMessage,     \* assistantMessageIds is not empty
    aborted,        \* the run's AbortController
    ask,            \* the approval request: "none" "posted" "waiting" "done"
    answer,         \* what the executor was told
    sessionRules    \* sessions whose rule is in allowedSessionApprovalRules

EventTypes == {"run.requested", "run.cancelled", "approval.answered"}

INSTANCE DirectedDelivery
    WITH Events <- [type : EventTypes, run : Runs], Sessions <- Nat \ {0}

channelVars  == <<session, holder, unread, resets>>
linkVars     == <<channelVars, issued, faults>>
rowVars      == <<status, runSession, accepted, streaming, approval, committed>>
outputVars   == <<emitted, reported, reportError, hasMessage>>
approvalVars == <<ask, answer, sessionRules>>
handlerVars  == <<stage, outputVars, aborted, approvalVars>>
vars         == <<linkVars, rowVars, handlerVars>>

Terminal   == {"completed", "failed", "cancelled"}
Running    == {r \in Runs : status[r] = "running"}
ActiveRuns == {r \in Runs : stage[r] \notin {"none", "done"}}

Event(type, r) == [type |-> type, run |-> r]
Fault(on)      == faults' = faults + (IF on THEN 1 ELSE 0) /\ faults' <= MaxFaults

(* runAuthority: the daemon's session is current and the run is its run.   *)
Authorised(r) == holder # 0 /\ holder = session /\ runSession[r] = session
                 /\ status[r] = "running"

-----------------------------------------------------------------------------
(* The gateway *)

(* Mutant of EndRuns: the open message of an ended run is left open.       *)
EndRunsOpen(ended, s) ==
    /\ status'    = [r \in Runs |-> IF r \in ended THEN s ELSE status[r]]
    /\ streaming' = streaming
    /\ approval'  = [r \in Runs |-> IF r \in ended /\ approval[r] = "pending"
                                    THEN "expired" ELSE approval[r]]

(* The runs of ended reach status s; their open message is closed and a    *)
(* pending approval expires.                                               *)
EndRuns(ended, s) ==
    /\ status'    = [r \in Runs |-> IF r \in ended THEN s ELSE status[r]]
    /\ streaming' = [r \in Runs |-> streaming[r] /\ r \notin ended]
    /\ approval'  = [r \in Runs |-> IF r \in ended /\ approval[r] = "pending"
                                    THEN "expired" ELSE approval[r]]

(* What the daemon is told of an approval that expires.                    *)
Expiry(r) == IF approval[r] = "pending" THEN <<Event("approval.answered", r)>> ELSE << >>

(* The scheduler starts a run of the Account's session and dispatches it.  *)
RequestRun(r) ==
    /\ status[r] = "none"
    /\ Running = {}
    /\ Send(<<Event("run.requested", r)>>)
    /\ status' = [status EXCEPT ![r] = "running"]
    /\ runSession' = [runSession EXCEPT ![r] = session]
    /\ UNCHANGED <<issued, faults, accepted, streaming, approval, committed, handlerVars>>

(* The owner cancels it.                                                   *)
CancelRun(r) ==
    /\ status[r] = "running"
    /\ Send(<<Event("run.cancelled", r)>> \o Expiry(r))
    /\ EndRuns({r}, "cancelled")
    /\ UNCHANGED <<issued, faults, runSession, accepted, committed, handlerVars>>

(* The owner answers an approval card.                                     *)
AnswerApproval(r, a) ==
    /\ approval[r] = "pending"
    /\ approval' = [approval EXCEPT ![r] = a]
    /\ Send(<<Event("approval.answered", r)>>)
    /\ UNCHANGED <<issued, faults, status, runSession, accepted, streaming, committed, handlerVars>>

(* The session ends and every run of it fails: a revocation releases the   *)
(* executions of the Account, a restart recovers the interrupted runs.  A  *)
(* revocation that finds a pending approval ends the gateway process too:  *)
(* the promise of the answer dispatches to a session that is gone, and     *)
(* nobody handles the rejection.                                           *)
LoseSession ==
    /\ EndSession
    /\ Fault(TRUE)
    /\ EndRuns(Running, "failed")
    /\ UNCHANGED <<issued, runSession, accepted, committed, handlerVars>>

-----------------------------------------------------------------------------
(* The daemon process and what it handles *)

(* It logs in with the Account Key when it starts, and once more, in the   *)
(* same process, when a scheduled update ended its session.                *)
LogIn(answered) ==
    /\ session = 0
    /\ Login(issued + 1, answered)
    /\ issued' = issued + 1
    /\ Fault(~answered)
    /\ UNCHANGED <<rowVars, handlerVars>>

(* run(): a run of another session is refused, and a run is handled once.  *)
BeginRun(r) ==
    /\ stage' = IF stage[r] = "none" /\ runSession[r] = holder
                THEN [stage EXCEPT ![r] = "executing"] ELSE stage
    /\ UNCHANGED <<outputVars, aborted, approvalVars>>

(* run.cancelled aborts the controller, which denies the waiter.           *)
AbortRuns(rs) ==
    /\ aborted' = [r \in Runs |-> aborted[r] \/ r \in rs]
    /\ ask' = [r \in Runs |-> IF r \in rs /\ ask[r] = "waiting" THEN "done" ELSE ask[r]]
    /\ answer' = [r \in Runs |-> IF r \in rs /\ ask[r] = "waiting" THEN "deny" ELSE answer[r]]
    /\ UNCHANGED <<stage, outputVars, sessionRules>>

(* approval.answered: the answer of an approval nobody waits for yet is    *)
(* dropped; an allow_session is remembered for the session of the run.     *)
Resolve(r, a) ==
    /\ ask' = [ask EXCEPT ![r] = "done"]
    /\ answer' = [answer EXCEPT ![r] = IF a \in {"allow", "allow_session"} THEN "allow" ELSE "deny"]
    /\ sessionRules' = IF a = "allow_session" THEN sessionRules \cup {runSession[r]} ELSE sessionRules
    /\ UNCHANGED <<stage, outputVars, aborted>>

Handle(e) ==
    CASE e.type = "run.requested" -> BeginRun(e.run)
      [] e.type = "run.cancelled" -> AbortRuns({e.run} \cap ActiveRuns)
      [] e.type = "approval.answered" /\ ask[e.run] = "waiting" -> Resolve(e.run, approval[e.run])
      [] OTHER -> UNCHANGED handlerVars

HandleEvent ==
    /\ Deliver
    /\ Handle(Head(unread))
    /\ UNCHANGED <<issued, faults, rowVars>>

(* A stream that breaks or is reset denies every waiter.                   *)
StreamDisconnect ==
    /\ holder # 0
    /\ Fault(TRUE)
    /\ Reset \/ Lose \/ UNCHANGED channelVars
    /\ ask' = [r \in Runs |-> IF ask[r] = "waiting" THEN "done" ELSE ask[r]]
    /\ answer' = [r \in Runs |-> IF ask[r] = "waiting" THEN "deny" ELSE answer[r]]
    /\ UNCHANGED <<issued, rowVars, stage, outputVars, aborted, sessionRules>>

(* The daemon process ends.  terminate() aborts the runs and reports each  *)
(* of them failed, as far as the reports arrive; a crash reports nothing.  *)
DaemonEnds ==
    /\ LeaveSession
    /\ holder # 0
    /\ Fault(TRUE)
    /\ \E landed \in SUBSET {r \in ActiveRuns : Authorised(r)} : EndRuns(landed, "failed")
    /\ stage' = [r \in Runs |-> "none"]
    /\ aborted' = [r \in Runs |-> FALSE]
    /\ ask' = [r \in Runs |-> IF ask[r] \in {"posted", "waiting"} THEN "done" ELSE ask[r]]
    /\ sessionRules' = {}
    /\ UNCHANGED <<issued, runSession, accepted, committed, outputVars, answer>>

-----------------------------------------------------------------------------
(* Outputs *)

Alive(r)   == holder # 0 /\ stage[r] # "none"
Asking(r)  == ask[r] \in {"posted", "waiting"}

(* Mutant of Drained: nobody waits for the queue.                          *)
DrainedAlways(r) == TRUE

(* flushOutputs: nothing more will be reported.                            *)
Drained(r) == reportError[r] \/ reported[r] = Len(emitted[r])

(* onDelta and onMessage put a report in the queue.                        *)
Emit(r, kind) ==
    /\ Alive(r) /\ stage[r] = "executing" /\ ~Asking(r)
    /\ r \in StreamingRuns /\ Len(emitted[r]) < MaxOutputs
    /\ emitted' = [emitted EXCEPT ![r] = Append(@, kind)]
    /\ UNCHANGED <<linkVars, rowVars, stage, reported, reportError, hasMessage, aborted,
                   approvalVars>>

(* A report that is refused or not answered stops the queue for good.      *)
StopsQueue(lands, outcome) == ~(lands /\ outcome = "answered")

(* The queue reports one output after the other.  A delta opens or extends *)
(* the streaming message, a message completes it; an output of a run that  *)
(* is not the session's running run is refused.                            *)
Report(r, outcome) ==
    /\ Alive(r) /\ ~reportError[r] /\ reported[r] < Len(emitted[r])
    /\ Fault(outcome # "answered")
    /\ LET i == reported[r] + 1
           kind == emitted[r][i]
           lands == outcome # "lost" /\ Authorised(r)
       IN  /\ accepted' = IF lands THEN [accepted EXCEPT ![r] = Append(@, i)] ELSE accepted
           /\ streaming' = IF lands THEN [streaming EXCEPT ![r] = (kind = "delta")] ELSE streaming
           /\ reported' = [reported EXCEPT ![r] = i]
           /\ reportError' = [reportError EXCEPT ![r] = StopsQueue(lands, outcome)]
           /\ hasMessage' = [hasMessage EXCEPT
                                ![r] = @ \/ (lands /\ outcome = "answered" /\ kind = "message")]
    /\ UNCHANGED <<channelVars, issued, status, runSession, approval, committed, stage, emitted,
                   aborted, approvalVars>>

-----------------------------------------------------------------------------
(* Approvals *)

Told(r, a) == ask' = [ask EXCEPT ![r] = "done"] /\ answer' = [answer EXCEPT ![r] = a]

(* Mutant of Covered: the rule outlives the session it was allowed for.    *)
CoveredForever(r) == sessionRules # {}

(* A rule that was allowed for a session covers the session of the run.    *)
Covered(r) == runSession[r] \in sessionRules

CreateApprovalRequest(r, row) == approval' = [approval EXCEPT ![r] = row]

(* requestApproval: a rule allowed for the session answers at once; else   *)
(* the approval is posted after every output before it.  A seat may        *)
(* approve everything.                                                     *)
AskApproval(r, outcome) ==
    /\ Alive(r) /\ stage[r] = "executing" /\ ask[r] = "none"
    /\ \/ /\ Covered(r)
          /\ outcome = "answered"
          /\ Told(r, "allow")
          /\ UNCHANGED approval
       \/ /\ ~Covered(r)
          /\ Drained(r) /\ ~reportError[r]
          /\ IF outcome # "lost" /\ Authorised(r)
             THEN \E row \in {"pending", "approve"} :
                    /\ CreateApprovalRequest(r, row)
                    /\ CASE outcome = "unacknowledged" -> Told(r, "error")
                         [] outcome = "answered" /\ row = "approve" -> Told(r, "allow")
                         [] OTHER -> ask' = [ask EXCEPT ![r] = "posted"] /\ UNCHANGED answer
             ELSE UNCHANGED approval /\ Told(r, "error")
    /\ Fault(outcome # "answered")
    /\ UNCHANGED <<channelVars, issued, status, runSession, accepted, streaming,
                   committed, stage, outputVars, aborted, sessionRules>>

(* The answer of the post arrives and the waiter is registered.            *)
ApprovalPosted(r) ==
    /\ Alive(r) /\ ask[r] = "posted"
    /\ IF aborted[r] THEN Told(r, "deny")
       ELSE ask' = [ask EXCEPT ![r] = "waiting"] /\ UNCHANGED answer
    /\ UNCHANGED <<linkVars, rowVars, stage, outputVars, aborted, sessionRules>>

-----------------------------------------------------------------------------
(* The end of run() *)

Goto(r, s) == stage' = [stage EXCEPT ![r] = s]

(* The executor returns, or throws.                                        *)
Return(r) ==
    /\ Alive(r) /\ stage[r] = "executing" /\ ~Asking(r)
    /\ \/ Goto(r, IF aborted[r] THEN "failing" ELSE "returned")
       \/ Goto(r, "failing")
    /\ UNCHANGED <<linkVars, rowVars, outputVars, aborted, approvalVars>>

(* The content of the result becomes a message if none was created.        *)
LastMessage(r) ==
    /\ Alive(r) /\ stage[r] = "returned" /\ Drained(r) /\ ~reportError[r] /\ ~hasMessage[r]
    /\ emitted' = [emitted EXCEPT ![r] = Append(@, "message")]
    /\ Goto(r, "last")
    /\ UNCHANGED <<linkVars, rowVars, reported, reportError, hasMessage, aborted, approvalVars>>

(* PATCH completed, after the queue.  The run of an API runtime must       *)
(* commit its turn first.                                                  *)
Complete(r, outcome) ==
    /\ Alive(r) /\ stage[r] \in {"returned", "last", "completing"} /\ Drained(r) /\ ~reportError[r]
    /\ IF outcome # "lost" /\ Authorised(r) /\ (r \in ApiRuns => committed[r])
       THEN /\ EndRuns({r}, "completed")
            /\ Send(Expiry(r))
            /\ Goto(r, IF outcome = "answered" THEN "done" ELSE "failing")
       ELSE /\ Goto(r, IF outcome = "answered" /\ Authorised(r) /\ hasMessage[r]
                       THEN "committing" ELSE "failing")
            /\ UNCHANGED <<status, streaming, approval, channelVars>>
    /\ Fault(outcome # "answered")
    /\ UNCHANGED <<issued, runSession, accepted, committed,
                   outputVars, aborted, approvalVars>>

(* PUT api-result: the history may have moved on since the run was         *)
(* prepared, which fails the run then and there.                           *)
Commit(r, outcome, conflict) ==
    /\ Alive(r) /\ stage[r] = "committing"
    /\ LET lands == outcome # "lost" /\ Authorised(r)
       IN  /\ committed' = [committed EXCEPT ![r] = @ \/ (lands /\ ~conflict)]
           /\ status' = IF lands /\ conflict THEN [status EXCEPT ![r] = "failed"] ELSE status
           /\ Goto(r, IF lands /\ ~conflict /\ outcome = "answered" THEN "completing" ELSE "failing")
    /\ Fault(outcome # "answered")
    /\ UNCHANGED <<channelVars, issued, runSession, accepted, streaming,
                   approval, outputVars, aborted, approvalVars>>

(* PATCH failed or cancelled, after the queue; its failure is swallowed.   *)
ReportEnd(r, outcome) ==
    /\ Alive(r) /\ Drained(r)
    /\ stage[r] = "failing" \/ (stage[r] \in {"returned", "last"} /\ reportError[r])
    /\ IF outcome # "lost" /\ Authorised(r)
       THEN /\ EndRuns({r}, IF aborted[r] THEN "cancelled" ELSE "failed")
            /\ Send(Expiry(r))
       ELSE UNCHANGED <<status, streaming, approval, channelVars>>
    /\ Goto(r, "done")
    /\ Fault(outcome # "answered")
    /\ UNCHANGED <<issued, runSession, accepted, committed,
                   outputVars, aborted, approvalVars>>

-----------------------------------------------------------------------------
Outcomes == {"answered", "unacknowledged", "lost"}

DaemonInit ==
    /\ DeliveryInit
    /\ issued = 0
    /\ faults = 0
    /\ status = [r \in Runs |-> "none"]
    /\ runSession = [r \in Runs |-> 0]
    /\ accepted = [r \in Runs |-> << >>]
    /\ streaming = [r \in Runs |-> FALSE]
    /\ approval = [r \in Runs |-> "none"]
    /\ committed = [r \in Runs |-> FALSE]
    /\ stage = [r \in Runs |-> "none"]
    /\ emitted = [r \in Runs |-> << >>]
    /\ reported = [r \in Runs |-> 0]
    /\ reportError = [r \in Runs |-> FALSE]
    /\ hasMessage = [r \in Runs |-> FALSE]
    /\ aborted = [r \in Runs |-> FALSE]
    /\ ask = [r \in Runs |-> "none"]
    /\ answer = [r \in Runs |-> "none"]
    /\ sessionRules = {}

DaemonNext ==
    \/ HandleEvent \/ StreamDisconnect \/ DaemonEnds \/ LoseSession
    \/ \E answered \in BOOLEAN : LogIn(answered)
    \/ \E r \in Runs :
          \/ RequestRun(r) \/ CancelRun(r)
          \/ \E a \in {"allow", "allow_session", "deny"} : AnswerApproval(r, a)
          \/ \E kind \in {"delta", "message"} : Emit(r, kind)
          \/ ApprovalPosted(r) \/ Return(r) \/ LastMessage(r)
          \/ \E outcome \in Outcomes :
                \/ Report(r, outcome) \/ AskApproval(r, outcome)
                \/ Complete(r, outcome) \/ ReportEnd(r, outcome)
                \/ \E conflict \in BOOLEAN : Commit(r, outcome, conflict)

DaemonSpec == DaemonInit /\ [][DaemonNext]_vars

-----------------------------------------------------------------------------
(* Properties *)

DaemonTypeOK ==
    /\ session \in 0 .. issued /\ holder \in 0 .. issued
    /\ faults \in 0 .. MaxFaults
    /\ status \in [Runs -> {"none", "running"} \cup Terminal]
    /\ runSession \in [Runs -> 0 .. issued]
    /\ \A r \in Runs : Len(accepted[r]) <= MaxOutputs + 1 /\ reported[r] <= Len(emitted[r])
    /\ approval \in [Runs -> {"none", "pending", "approve", "allow", "allow_session", "deny",
                              "expired"}]
    /\ stage \in [Runs -> {"none", "executing", "returned", "last", "completing", "committing",
                           "failing", "done"}]
    /\ ask \in [Runs -> {"none", "posted", "waiting", "done"}]
    /\ answer \in [Runs -> {"none", "allow", "deny", "error"}]
    /\ sessionRules \subseteq 1 .. issued

(* The timeline of a run is a prefix of what the executor emitted: a lost  *)
(* or unanswered report never leaves a hole or a repetition behind it.     *)
OutputIsPrefix ==
    \A r \in Runs : \A i \in 1 .. Len(accepted[r]) : accepted[r][i] = i

(* A completed run shows all of its output.                                *)
CompletedIsWhole ==
    \A r \in Runs : status[r] = "completed" => Len(accepted[r]) = Len(emitted[r])

(* The gateway's timeline (message-stream.js, daemon-run-lifecycle.js) is  *)
(* what the daemon's executor put out, in order, and whole at the end.     *)
TimelineFaithful == OutputIsPrefix /\ CompletedIsWhole

(* The executor is told "allow" only if the seat approves everything, the  *)
(* owner allowed this request, or the owner allowed its rule for the same  *)
(* Account Session.                                                        *)
AllowIsGranted ==
    \A r \in Runs : answer[r] = "allow" =>
        \/ approval[r] \in {"approve", "allow", "allow_session"}
        \/ \E x \in Runs : approval[x] = "allow_session" /\ runSession[x] = runSession[r]

(* A run that ended has no open message and no approval that still waits   *)
(* for an answer, unless a history conflict ended it.                      *)
EndedRunSettled ==
    \A r \in Runs : status[r] \in Terminal /\ ~(r \in ApiRuns /\ status[r] = "failed") =>
        ~streaming[r] /\ approval[r] # "pending"
=============================================================================
