------------------------------ MODULE MemoryTasks ------------------------------
(***************************************************************************)
(* The transport of memory tasks: the gateway dispatches the task of a     *)
(* digest or Dream job to the workers of an Agent, one for the daemon of   *)
(* each of its Accounts, and settles the dispatch with the first result,   *)
(* with a cancellation or with a timeout.  A stream carries no replay, and *)
(* a request and its answer are one step that may lose either.             *)
(***************************************************************************)
EXTENDS Naturals, Sequences

CONSTANTS
    Workers,            \* the memory workers of the Agent
    MaxDispatches,      \* bound: dispatches
    MaxWorkerFailures,  \* maxConnectionFailures of a worker's loop
    MaxTaskFaults       \* bound: cut streams, lost requests, restarts

VARIABLES
    revision,           \* agent.runtimeRevision
    dispatched,         \* [revision, status] of each dispatch
    terminal,           \* the result the gateway remembers, "none" if none
    ghost,              \* a listener whose connection is cut is still subscribed
    feed,               \* frames written to a worker and not yet read
    feedState,          \* its response: "open", "ended" or "none"
    loopAt,             \* where its loop stands
    loopFailures,
    workerRevision,     \* identity.runtime.revision of its process
    task,               \* what it does about each dispatch
    taskAborted,        \* dispatches whose controller is aborted
    taskFaults

workerVars == <<loopAt, loopFailures, workerRevision, task, taskAborted>>
feedVars   == <<ghost, feed, feedState>>
taskVars   == <<revision, dispatched, terminal, feedVars, workerVars, taskFaults>>

Dispatches == 1 .. MaxDispatches

TaskFault(on) == IF on THEN taskFaults < MaxTaskFaults /\ taskFaults' = taskFaults + 1
                       ELSE UNCHANGED taskFaults

Listening == {w \in Workers : feedState[w] = "open"}

(* publish: to every subscriber of the Agent.                              *)
Publish(d, type) ==
    feed' = [w \in Workers |-> IF w \in Listening THEN Append(feed[w], <<type, d>>) ELSE feed[w]]

(* dispatch: the frozen runtime is the Agent's, and a frame that reaches   *)
(* nobody settles it.                                                      *)
DispatchTask(d) ==
    /\ dispatched[d].status = "none"
    /\ \A e \in Dispatches : e < d => dispatched[e].status # "none"
    /\ Publish(d, "requested")
    /\ dispatched' = [dispatched EXCEPT ![d] = [revision |-> revision,
           status |-> IF Listening # {} \/ ghost THEN "pending" ELSE "unavailable"]]
    /\ UNCHANGED <<revision, terminal, ghost, feedState, workerVars, taskFaults>>

Settle(d, status) == dispatched' = [dispatched EXCEPT ![d].status = status]

(* The job is cancelled: onAbort.                                          *)
CancelTask(d) ==
    /\ dispatched[d].status = "pending"
    /\ Publish(d, "cancelled")
    /\ Settle(d, "cancelled")
    /\ UNCHANGED <<revision, terminal, ghost, feedState, workerVars, taskFaults>>

(* The timer: the workers are not told.                                    *)
TimeOutTask(d) ==
    /\ dispatched[d].status = "pending"
    /\ Settle(d, "timed_out")
    /\ UNCHANGED <<revision, terminal, feedVars, workerVars, taskFaults>>

(* Mutant: the frozen runtime is not checked again.                        *)
AcceptsAnyRuntime(d, status) ==
    terminal[d] = status \/ (terminal[d] = "none" /\ dispatched[d].status = "pending")

(* submitResult: a dispatch that is terminal accepts what it accepted; one *)
(* that is settled otherwise is not found; the frozen runtime must still   *)
(* be the Agent's.                                                         *)
Accepts(d, status) ==
    \/ terminal[d] = status
    \/ /\ terminal[d] = "none"
       /\ dispatched[d].status = "pending"
       /\ dispatched[d].revision = revision

SubmitResult(d, status) ==
    IF Accepts(d, status) /\ terminal[d] = "none"
    THEN Settle(d, status) /\ terminal' = [terminal EXCEPT ![d] = status]
    ELSE UNCHANGED <<dispatched, terminal>>

-----------------------------------------------------------------------------
(* A worker *)

(* handle and the start of execute: a request whose runtime is not that of *)
(* the worker is answered with a failure.                                  *)
ReadTaskFrame(w) ==
    /\ loopAt[w] = "reading"
    /\ feed[w] # << >>
    /\ feed' = [feed EXCEPT ![w] = Tail(@)]
    /\ LET d == Head(feed[w])[2]
       IN  \/ /\ Head(feed[w])[1] = "requested"
              /\ task' = [task EXCEPT ![w][d] =
                     IF dispatched[d].revision = workerRevision[w] THEN "executing" ELSE "failing"]
              /\ UNCHANGED taskAborted
           \/ /\ Head(feed[w])[1] = "cancelled"
              /\ taskAborted' = [taskAborted EXCEPT ![w] =
                     IF task[w][d] \in {"executing", "submitting"} THEN @ \cup {d} ELSE @]
              /\ UNCHANGED task
    /\ UNCHANGED <<revision, dispatched, terminal, ghost, feedState, loopAt, loopFailures,
                   workerRevision, taskFaults>>

(* The executor returns, or fails, or was aborted.                         *)
FinishTask(w, d) ==
    /\ task[w][d] = "executing"
    /\ \E next \in {"submitting", "failing"} :
          /\ next = "submitting" => d \notin taskAborted[w]
          /\ task' = [task EXCEPT ![w][d] = next]
    /\ UNCHANGED <<revision, dispatched, terminal, feedVars, loopAt, loopFailures,
                   workerRevision, taskAborted, taskFaults>>

(* The result is put.  A success that is not acknowledged is followed by a *)
(* failure; what becomes of the failure does not matter to the worker.     *)
SubmitTask(w, d) ==
    /\ task[w][d] \in {"submitting", "failing"}
    /\ LET status == IF task[w][d] = "submitting" THEN "succeeded" ELSE "failed"
       IN  \E asked, told \in BOOLEAN :
              /\ told => asked
              /\ TaskFault(~told)
              /\ IF asked THEN SubmitResult(d, status) ELSE UNCHANGED <<dispatched, terminal>>
              /\ task' = [task EXCEPT ![w][d] =
                     IF status = "succeeded" /\ ~(told /\ Accepts(d, status))
                     THEN "failing" ELSE "done"]
    /\ UNCHANGED <<revision, feedVars, loopAt, loopFailures, workerRevision, taskAborted>>

(* A heartbeat ends a row of failures.                                     *)
ReadHeartbeat(w) ==
    /\ loopAt[w] = "reading" /\ feedState[w] = "open"
    /\ loopFailures' = [loopFailures EXCEPT ![w] = 0]
    /\ UNCHANGED <<revision, dispatched, terminal, feedVars, loopAt, workerRevision, task,
                   taskAborted, taskFaults>>

(* Mutant: what runs goes on.                                              *)
LoopFailsSilently(w) ==
    /\ UNCHANGED taskAborted
    /\ loopFailures' = [loopFailures EXCEPT ![w] = @ + 1]
    /\ loopAt' = [loopAt EXCEPT ![w] =
           IF loopFailures[w] + 1 < MaxWorkerFailures THEN "connect" ELSE "stopped"]

(* The catch of the loop: what runs is aborted.                            *)
LoopFails(w) ==
    /\ taskAborted' = [taskAborted EXCEPT ![w] =
           @ \cup {d \in Dispatches : task[w][d] \in {"executing", "submitting"}}]
    /\ loopFailures' = [loopFailures EXCEPT ![w] = @ + 1]
    /\ loopAt' = [loopAt EXCEPT ![w] =
           IF loopFailures[w] + 1 < MaxWorkerFailures THEN "connect" ELSE "stopped"]

ConnectWorker(w) ==
    /\ loopAt[w] = "connect"
    /\ \/ /\ loopAt' = [loopAt EXCEPT ![w] = "reading"]
          /\ feedState' = [feedState EXCEPT ![w] = "open"]
          /\ UNCHANGED <<loopFailures, taskAborted, taskFaults>>
       \/ TaskFault(TRUE) /\ LoopFails(w) /\ UNCHANGED feedState
    /\ UNCHANGED <<revision, dispatched, terminal, ghost, feed, workerRevision, task>>

(* The stream has ended, and what had arrived is read.                     *)
FeedEnds(w) ==
    /\ loopAt[w] = "reading"
    /\ feedState[w] = "ended" /\ feed[w] = << >>
    /\ feedState' = [feedState EXCEPT ![w] = "none"]
    /\ LoopFails(w)
    /\ UNCHANGED <<revision, dispatched, terminal, ghost, feed, workerRevision, task, taskFaults>>

-----------------------------------------------------------------------------
(* Faults *)

(* A connection breaks: a part of what was written does not arrive, and    *)
(* the gateway notices later.                                              *)
CutFeed(w) ==
    /\ w \in Listening
    /\ TaskFault(TRUE)
    /\ feedState' = [feedState EXCEPT ![w] = "ended"]
    /\ \E n \in 0 .. Len(feed[w]) : feed' = [feed EXCEPT ![w] = SubSeq(@, 1, n)]
    /\ ghost' = TRUE
    /\ UNCHANGED <<revision, dispatched, terminal, workerVars>>

Unsubscribe ==
    /\ ghost
    /\ ghost' = FALSE
    /\ UNCHANGED <<revision, dispatched, terminal, feed, feedState, workerVars, taskFaults>>

(* A daemon starts anew, and its login may bring another runtime.          *)
RelaunchWorker(w, rev) ==
    /\ TaskFault(TRUE)
    /\ rev \in {revision, revision + 1}
    /\ revision' = rev
    /\ workerRevision' = [workerRevision EXCEPT ![w] = rev]
    /\ task' = [task EXCEPT ![w] = [d \in Dispatches |-> "none"]]
    /\ taskAborted' = [taskAborted EXCEPT ![w] = {}]
    /\ loopAt' = [loopAt EXCEPT ![w] = "connect"]
    /\ loopFailures' = [loopFailures EXCEPT ![w] = 0]
    /\ feed' = [feed EXCEPT ![w] = << >>]
    /\ feedState' = [feedState EXCEPT ![w] = "none"]
    /\ ghost' = (ghost \/ w \in Listening)
    /\ UNCHANGED <<dispatched, terminal>>

(* The gateway starts anew and knows no dispatch.                          *)
RestartTransport ==
    /\ TaskFault(TRUE)
    /\ dispatched' = [d \in Dispatches |-> IF dispatched[d].status = "pending"
                         THEN [dispatched[d] EXCEPT !.status = "forgotten"] ELSE dispatched[d]]
    /\ terminal' = [d \in Dispatches |-> "none"]
    /\ ghost' = FALSE
    /\ feedState' = [w \in Workers |-> IF w \in Listening THEN "ended" ELSE feedState[w]]
    /\ UNCHANGED <<revision, feed, workerVars>>

TasksInit ==
    /\ revision = 1
    /\ dispatched = [d \in Dispatches |-> [revision |-> 0, status |-> "none"]]
    /\ terminal = [d \in Dispatches |-> "none"]
    /\ ghost = FALSE
    /\ feed = [w \in Workers |-> << >>]
    /\ feedState = [w \in Workers |-> "none"]
    /\ loopAt = [w \in Workers |-> "connect"]
    /\ loopFailures = [w \in Workers |-> 0]
    /\ workerRevision = [w \in Workers |-> 1]
    /\ task = [w \in Workers |-> [d \in Dispatches |-> "none"]]
    /\ taskAborted = [w \in Workers |-> {}]
    /\ taskFaults = 0

TasksNext ==
    \/ Unsubscribe \/ RestartTransport
    \/ \E d \in Dispatches : DispatchTask(d) \/ CancelTask(d) \/ TimeOutTask(d)
    \/ \E w \in Workers :
          \/ ReadTaskFrame(w) \/ ReadHeartbeat(w) \/ ConnectWorker(w) \/ FeedEnds(w) \/ CutFeed(w)
          \/ \E d \in Dispatches : FinishTask(w, d) \/ SubmitTask(w, d)
          \/ \E rev \in 1 .. 2 : RelaunchWorker(w, rev)

TasksSpec == TasksInit /\ [][TasksNext]_taskVars

-----------------------------------------------------------------------------
(* Properties *)

(* A task whose job was cancelled does not run on unaware: the worker that *)
(* executes it is aborted, will read the cancellation, or will notice that *)
(* its stream is gone.  A timeout gives no such promise.                   *)
CancelReachesWorker ==
    \A w \in Workers, d \in Dispatches :
        dispatched[d].status = "cancelled" /\ task[w][d] = "executing" =>
            \/ d \in taskAborted[w]
            \/ \E i \in 1 .. Len(feed[w]) : feed[w][i] = <<"cancelled", d>>
            \/ feedState[w] = "ended"

(* A job goes on with the proposals of a runtime that is still the one it  *)
(* was enqueued with, computed by a process of that runtime.               *)
SuccessUnderFrozenRuntime ==
    [][ \A d \in Dispatches :
            dispatched[d].status # "succeeded" /\ dispatched'[d].status = "succeeded" =>
                /\ dispatched[d].revision = revision
                /\ \E w \in Workers : /\ workerRevision[w] = revision
                                      /\ task[w][d] = "submitting"
      ]_taskVars
=============================================================================
