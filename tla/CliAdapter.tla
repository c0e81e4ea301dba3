------------------------------ MODULE CliAdapter ------------------------------
(***************************************************************************)
(* The adapters that run a command-line model (Codex, Claude Code,         *)
(* Antigravity) for one seat: every operation is a process that may resume *)
(* a thread of the provider, and the gateway keeps in a provider binding   *)
(* which thread the next run of this generation has to resume.             *)
(*                                                                         *)
(* The daemon's memory tasks and context compactions use the same code.    *)
(* What a process prints is a choice of its steps; the wording of errors   *)
(* and activities is left out.                                             *)
(***************************************************************************)
EXTENDS Naturals, FiniteSets

CONSTANTS
    Threads,        \* names the provider gives
    NoThread,       \* none of them
    MaxOps,         \* bound: operations, one after the other
    MaxCliFaults    \* bound: refused reports, lost threads, stops from outside

ASSUME ThreadsAssumption == NoThread \notin Threads /\ MaxOps \in Nat

VARIABLES
    provider,   \* which command-line model
    binding,    \* providerBindings: generation, version, thread
    thread,     \* thread -> whether the provider has it, and whose turns it holds
    op,         \* the operation in progress
    child,      \* its process
    completed,  \* completed main run -> its generation, or 0
    cliFaults

cliVars == <<provider, binding, thread, op, child, completed, cliFaults>>

Ops == 1 .. MaxOps
Kinds(p) == {"main", "isolated"} \cup (IF p = "codex" THEN {"task", "compact"} ELSE {})

NoChild == [is |-> "none", thread |-> NoThread, resumed |-> FALSE, asked |-> "none", failed |-> FALSE,
            missing |-> FALSE]
NoOp == [n |-> 0, kind |-> "main", at |-> "idle", prior |-> NoThread, version |-> 0,
         thread |-> NoThread, persist |-> "none", content |-> FALSE, denied |-> FALSE,
         retried |-> FALSE, continued |-> FALSE, error |-> "none", stop |-> "none",
         turn |-> "none", status |-> "none"]

CliFault == cliFaults < MaxCliFaults /\ cliFaults' = cliFaults + 1
Keep == UNCHANGED <<provider, completed, cliFaults>>

SettleOp(status) ==
    /\ completed' = IF op.kind = "main" /\ status = "completed"
                    THEN [completed EXCEPT ![op.n] = binding.generation] ELSE completed
    /\ op' = [NoOp EXCEPT !.n = op.n, !.status = status]

Settle(status) == SettleOp(status) /\ child' = NoChild /\ UNCHANGED <<provider, binding, thread>>

StopCode == IF op.stop = "timeout" THEN "failed" ELSE op.stop

-----------------------------------------------------------------------------
(* Start *)

(* An operation begins with the binding the gateway sent along; isolated   *)
(* runs and memory tasks have none.                                        *)
Begin(kind) ==
    /\ op.at = "idle" /\ op.n < MaxOps /\ child.is # "live"
    /\ kind \in Kinds(provider)
    /\ op' = [NoOp EXCEPT !.n = op.n + 1, !.kind = kind, !.at = "ready",
                          !.prior = IF kind \in {"main", "compact"} THEN binding.thread ELSE NoThread,
                          !.version = IF kind = "main" THEN binding.version ELSE 0]
    /\ UNCHANGED <<binding, thread, child>> /\ Keep

(* A wrong runtime, an executable or a model that is not there, a prompt   *)
(* that is too large, a compaction without a thread.                       *)
Unavailable ==
    /\ op.at = "ready"
    /\ \/ op.kind = "compact" /\ op.prior = NoThread /\ UNCHANGED cliFaults
       \/ CliFault
    /\ Settle("failed")

(* The gateway rotates before the first reply only: the generation goes on *)
(* and the new one has no binding.                                         *)
Rotate ==
    binding' = [generation |-> binding.generation + 1, version |-> 0, thread |-> NoThread,
                valid |-> TRUE]

RotateInvalid ==
    /\ op.at = "ready" /\ op.kind = "main" /\ binding.version > 0 /\ ~binding.valid
    /\ Rotate
    /\ op' = [op EXCEPT !.prior = NoThread, !.version = 0]
    /\ UNCHANGED <<thread, child>> /\ Keep

(* The answer of a rotation is lost: the run fails in the new generation.  *)
RotationLost ==
    /\ op.kind = "main" /\ op.stop = "none" /\ CliFault
    /\ \/ op.at = "ready" /\ binding.version > 0 /\ ~binding.valid
       \/ op.at = "running" /\ child.missing /\ ~op.retried /\ ~op.content
    /\ Rotate
    /\ SettleOp("failed")
    /\ child' = NoChild
    /\ UNCHANGED <<provider, thread>>

Usable == op.kind # "main" \/ binding.version = 0 \/ binding.valid

(* spawn, with the thread to resume.  An operation that was stopped before *)
(* does not start, except that Claude Code does and is not terminated.     *)
Spawn ==
    /\ op.at = "ready" /\ Usable /\ (op.stop = "none" \/ provider = "claude")
    /\ op.kind = "compact" => op.prior # NoThread
    /\ op' = [op EXCEPT !.at = IF op.kind = "compact" THEN "initialize" ELSE "running",
                        !.thread = op.prior]
    /\ child' = [NoChild EXCEPT !.is = "live"]
    /\ UNCHANGED <<binding, thread>> /\ Keep

StoppedBeforeSpawn ==
    /\ op.at = "ready" /\ op.stop # "none" /\ provider # "claude"
    /\ Settle(StopCode)
    /\ UNCHANGED cliFaults

-----------------------------------------------------------------------------
(* What the process does *)

Working == op.at = "running" /\ child.is = "live"
Known(t) == t # NoThread /\ thread[t].is = "live"

(* terminate: SIGTERM, and SIGKILL half a second later.                    *)
Terminate == child' = [child EXCEPT !.asked = IF @ = "none" THEN "term" ELSE @]

(* The thread the process works in: the one it resumed, a copy of it       *)
(* (Claude Code), or a new one.                                            *)
Opens(t) ==
    \/ Known(op.prior) /\ t = op.prior /\ UNCHANGED thread
    \/ /\ thread[t].is = "new"
       /\ \/ op.prior = NoThread
          \/ provider = "claude" /\ Known(op.prior)
          \/ provider = "antigravity" /\ ~Known(op.prior)
       /\ thread' = [thread EXCEPT ![t] =
              [is |-> "live", turns |-> IF Known(op.prior) THEN thread[op.prior].turns ELSE {}]]

(* Isolated runs and tasks have no binding; the binding names t already.   *)
MustPersist(t) == op.kind = "main" /\ t # op.prior

(* thread.started, session_id or init.  Antigravity opens another          *)
(* conversation when the one to resume is gone: the attempt is given up.   *)
Started(t) ==
    /\ Working /\ child.thread = NoThread
    /\ Opens(t)
    /\ IF provider = "antigravity" /\ op.prior # NoThread /\ t # op.prior
       THEN /\ op' = [op EXCEPT !.error = "missing"]
            /\ child' = [child EXCEPT !.thread = t, !.asked = "term"]
       ELSE /\ op' = [op EXCEPT !.thread = t,
                                !.persist = IF MustPersist(t) THEN "queued" ELSE "none"]
            /\ child' = [child EXCEPT !.thread = t]
    /\ UNCHANGED binding /\ Keep

(* compareAndSetProviderBinding, called in the order of the run's reports: *)
(* the version must be the one the operation began with.                   *)
Persist ==
    /\ op.at # "idle" /\ op.persist = "queued" /\ op.stop = "none"
    /\ IF binding.version = op.version
       THEN /\ binding' = [binding EXCEPT !.version = @ + 1, !.thread = op.thread, !.valid = TRUE]
            /\ op' = [op EXCEPT !.persist = "saved"]
       ELSE op' = [op EXCEPT !.persist = "failed"] /\ UNCHANGED binding
    /\ UNCHANGED <<thread, child>> /\ Keep

(* The report is refused or its answer is lost; a run that has ended at    *)
(* the gateway has no authority any more.                                  *)
PersistFails ==
    /\ op.at # "idle" /\ op.persist = "queued"
    /\ IF op.stop = "none" THEN CliFault ELSE UNCHANGED cliFaults
    /\ \/ UNCHANGED binding
       \/ /\ op.stop = "none" /\ binding.version = op.version
          /\ binding' = [binding EXCEPT !.version = @ + 1, !.thread = op.thread, !.valid = TRUE]
    /\ op' = [op EXCEPT !.persist = "failed"]
    /\ UNCHANGED <<provider, thread, child, completed>>

(* Text of the model; memory tasks must not use a tool.                    *)
Output ==
    /\ Working /\ child.thread # NoThread /\ ~op.content
    /\ op.error = "none"
    /\ op' = [op EXCEPT !.content = TRUE]
    /\ UNCHANGED <<binding, thread, child>> /\ Keep

ToolInTask ==
    /\ Working /\ op.kind = "task" /\ op.error = "none"
    /\ op' = [op EXCEPT !.error = "failed"]
    /\ Terminate
    /\ UNCHANGED <<binding, thread>> /\ Keep

(* A line that is not JSON, an unexpected workspace or model, an error     *)
(* result.                                                                 *)
BadEvent ==
    /\ Working /\ op.error = "none" /\ CliFault
    /\ op' = [op EXCEPT !.error = "failed"]
    /\ Terminate
    /\ UNCHANGED <<provider, binding, thread, completed>>

(* Antigravity denies a tool by itself and may end without an answer.      *)
Denied ==
    /\ Working /\ provider = "antigravity" /\ child.thread # NoThread /\ ~op.denied
    /\ op' = [op EXCEPT !.denied = TRUE]
    /\ UNCHANGED <<binding, thread, child>> /\ Keep

(* The process ends by itself: what it was asked is in its thread; a       *)
(* thread to resume that is gone makes Codex and Claude Code fail.         *)
Exits ==
    /\ Working
    /\ \/ /\ child.thread # NoThread
          /\ thread' = [thread EXCEPT ![child.thread].turns = @ \cup {op.n}]
          /\ child' = [child EXCEPT !.is = "gone"]
       \/ /\ op.kind = "task" /\ UNCHANGED thread /\ child' = [child EXCEPT !.is = "gone"]
       \/ /\ child.thread = NoThread /\ op.prior # NoThread /\ ~Known(op.prior)
          /\ provider # "antigravity"
          /\ child' = [child EXCEPT !.is = "gone", !.failed = TRUE, !.missing = TRUE]
          /\ UNCHANGED thread
       \/ /\ child.asked # "none" /\ UNCHANGED thread
          /\ child' = [child EXCEPT !.is = "gone", !.failed = TRUE]
    /\ UNCHANGED <<binding, op>> /\ Keep

(* The provider fails the call: quota, rate, login, model, service.        *)
ProviderFails ==
    /\ Working /\ CliFault
    /\ child' = [child EXCEPT !.is = "gone", !.failed = TRUE]
    /\ UNCHANGED <<provider, binding, thread, op, completed>>

(* Only Codex and Antigravity follow SIGTERM up with SIGKILL.              *)
Kill ==
    /\ child.is = "live" /\ child.asked = "term" /\ provider # "claude"
    /\ child' = [child EXCEPT !.is = "gone", !.failed = TRUE, !.asked = "kill"]
    /\ UNCHANGED <<binding, thread, op>> /\ Keep

-----------------------------------------------------------------------------
(* Stops from outside: the run is cancelled, the watchdog fires, the       *)
(* daemon shuts the adapter down.                                          *)

Stop(how) ==
    /\ op.at # "idle" /\ op.stop = "none" /\ CliFault
    /\ how = "timeout" => op.at # "ready"
    /\ op' = [op EXCEPT !.stop = how]
    /\ IF child.is = "live" THEN Terminate ELSE UNCHANGED child
    /\ UNCHANGED <<provider, binding, thread, completed>>

-----------------------------------------------------------------------------
(* The end of an attempt *)

Ended == op.at = "running" /\ child.is = "gone"
Missing == child.missing \/ op.error = "missing"
(* Codex and Antigravity look at the exit after their events.              *)
Clean == op.stop = "none" /\ op.error = "none" /\ ~child.failed

Stopped ==
    /\ Ended /\ op.stop # "none"
    /\ Settle(StopCode)
    /\ UNCHANGED cliFaults

(* One retry, in a new thread of a new generation; the rotation is refused *)
(* once the run has a reply.                                               *)
RetryInNewThread ==
    /\ Ended /\ op.stop = "none" /\ Missing /\ op.kind = "main" /\ ~op.retried /\ ~op.content
    /\ Rotate
    /\ op' = [op EXCEPT !.at = "ready", !.prior = NoThread, !.version = 0, !.thread = NoThread,
                        !.persist = "none", !.retried = TRUE, !.error = "none", !.denied = FALSE]
    /\ UNCHANGED <<thread, child>> /\ Keep

AttemptFails ==
    /\ Ended /\ op.stop = "none" /\ ~Clean
    /\ ~(Missing /\ op.kind = "main" /\ ~op.retried /\ ~op.content)
    /\ Settle("failed")
    /\ UNCHANGED cliFaults

(* After a denied tool and no answer Antigravity is asked once more, in    *)
(* the same conversation.                                                  *)
NeedsContinuation == provider = "antigravity" /\ op.denied /\ ~op.content

Continue ==
    /\ Ended /\ Clean /\ NeedsContinuation /\ ~op.continued
    /\ op.persist \in {"none", "saved"}
    /\ op' = [op EXCEPT !.at = "ready", !.prior = op.thread, !.version = binding.version,
                        !.persist = "none", !.continued = TRUE, !.denied = FALSE]
    /\ UNCHANGED <<binding, thread, child>> /\ Keep

(* Mutant of Persisted: the result does not wait for the binding.          *)
PersistedOrNot == op.persist # "none" \/ op.thread = op.prior \/ op.kind # "main"

Persisted == op.persist \in {"none", "saved"}

(* run() waits for the binding; without a thread there is no result.       *)
Completes ==
    /\ Ended /\ Clean /\ ~NeedsContinuation
    /\ op.kind # "task" /\ op.thread # NoThread
    /\ Persisted
    /\ Settle("completed")
    /\ UNCHANGED cliFaults

(* A digest or a Dream has an envelope, or none that can be read.          *)
TaskEnds ==
    /\ Ended /\ Clean /\ op.kind = "task"
    /\ \/ op.content /\ Settle("completed")
       \/ Settle("failed")
    /\ UNCHANGED cliFaults

EndsWithoutResult ==
    /\ Ended /\ Clean /\ op.kind # "task"
    /\ \/ op.persist = "failed"
       \/ op.thread = NoThread
       \/ NeedsContinuation /\ op.continued
    /\ Settle("failed")
    /\ UNCHANGED cliFaults

-----------------------------------------------------------------------------
(* Compaction of a Codex thread through its app-server *)

Compacting == op.kind = "compact" /\ child.is = "live"

Answered ==
    /\ Compacting /\ op.at \in {"initialize", "resume", "compact"} /\ op.stop = "none"
    /\ op.at = "resume" => Known(op.prior)
    /\ op' = [op EXCEPT !.at = CASE op.at = "initialize" -> "resume"
                                 [] op.at = "resume"     -> "compact"
                                 [] op.at = "compact"    -> "terminal"]
    /\ UNCHANGED <<binding, thread, child>> /\ Keep

(* Notices about the thread: a turn starts, its compaction is there, it    *)
(* ends.  They may come before the answer to the request.                  *)
TurnStarted ==
    /\ Compacting /\ op.at \in {"compact", "terminal"} /\ op.turn = "none"
    /\ op' = [op EXCEPT !.turn = "started"]
    /\ UNCHANGED <<binding, thread, child>> /\ Keep

ItemCompleted ==
    /\ Compacting /\ op.turn = "started"
    /\ op' = [op EXCEPT !.turn = "compacted"]
    /\ UNCHANGED <<binding, thread, child>> /\ Keep

TurnCompleted(good) ==
    /\ Compacting /\ op.turn \in {"started", "compacted"}
    /\ op.status = "none" /\ op.error = "none"
    /\ op' = IF op.turn = "compacted" /\ good THEN [op EXCEPT !.status = "compacted"]
             ELSE [op EXCEPT !.error = "failed"]
    /\ UNCHANGED <<binding, thread, child>> /\ Keep

(* The thread is unknown, a request is refused, the process dies.          *)
CompactionFails ==
    /\ Compacting /\ op.stop = "none" /\ op.error = "none"
    /\ \/ op.at = "resume" /\ ~Known(op.prior) /\ UNCHANGED cliFaults
       \/ CliFault
    /\ op' = [op EXCEPT !.error = "failed"]
    /\ UNCHANGED <<provider, binding, thread, completed>>
    /\ child' \in {child, [child EXCEPT !.is = "gone"]}

(* What fails or is aborted rejects every request; the process is then     *)
(* terminated and awaited for a while only.                                *)
CompactionEnds ==
    /\ op.kind = "compact" /\ op.at \in {"initialize", "resume", "compact", "terminal"}
    /\ \/ op.stop # "none" /\ SettleOp(StopCode)
       \/ op.stop = "none" /\ op.error # "none" /\ SettleOp("failed")
       \/ /\ op.stop = "none" /\ op.error = "none" /\ op.status = "compacted"
          /\ op.at = "terminal" /\ SettleOp("completed")
    /\ child' \in {NoChild, IF child.is = "live" THEN [child EXCEPT !.asked = "term"] ELSE NoChild}
    /\ UNCHANGED <<provider, binding, thread, cliFaults>>

(* The process of an operation that did not wait for it.                   *)
Leftover ==
    /\ op.at = "idle" /\ child.is = "live"
    /\ child' = NoChild
    /\ UNCHANGED <<binding, thread, op>> /\ Keep

-----------------------------------------------------------------------------
(* The provider forgets a thread between two operations.                   *)
LoseThread(t) ==
    /\ op.at = "idle" /\ thread[t].is = "live" /\ CliFault
    /\ thread' = [thread EXCEPT ![t].is = "lost"]
    /\ UNCHANGED <<provider, binding, op, child, completed>>

CliInit ==
    /\ provider \in {"codex", "claude", "antigravity"}
    /\ binding \in {[generation |-> 1, version |-> 0, thread |-> NoThread, valid |-> TRUE],
                    [generation |-> 1, version |-> 1, thread |-> NoThread, valid |-> FALSE]}
    /\ thread = [t \in Threads |-> [is |-> "new", turns |-> {}]]
    /\ op = NoOp /\ child = NoChild
    /\ completed = [o \in Ops |-> 0]
    /\ cliFaults = 0

CliNext ==
    \/ \E kind \in {"main", "isolated", "task", "compact"} : Begin(kind)
    \/ Unavailable \/ RotateInvalid \/ RotationLost \/ Spawn \/ StoppedBeforeSpawn
    \/ \E t \in Threads : Started(t) \/ LoseThread(t)
    \/ Persist \/ PersistFails \/ Output \/ ToolInTask \/ BadEvent \/ Denied \/ Exits
    \/ ProviderFails \/ Kill
    \/ \E how \in {"cancelled", "timeout"} : Stop(how)
    \/ Stopped \/ RetryInNewThread \/ AttemptFails \/ Continue \/ Completes \/ TaskEnds \/ EndsWithoutResult
    \/ Answered \/ TurnStarted \/ ItemCompleted \/ CompactionFails \/ CompactionEnds \/ Leftover
    \/ \E good \in BOOLEAN : TurnCompleted(good)

CliSpec == CliInit /\ [][CliNext]_cliVars

-----------------------------------------------------------------------------
(* What a seat was asked and answered is what the next run will resume:    *)
(* the thread the gateway's binding names holds the turns of all runs that *)
(* were completed in this generation.                                      *)
ThreadRemembers ==
    \A o \in Ops :
       completed[o] = binding.generation
       => binding.thread \in Threads /\ o \in thread[binding.thread].turns
=============================================================================
