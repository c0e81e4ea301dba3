---------------------------- MODULE ContextSessions ----------------------------
(***************************************************************************)
(* The contexts of one Space: its SpaceSessions, of which one is active,   *)
(* the AgentSession each seat has in each of them, with the generation of  *)
(* its context, the history or checkpoint that generation starts from, the *)
(* root runs that read and extend it, and the compactions that rotate it.  *)
(*                                                                         *)
(* A post addresses one seat and its run carries its number.  A message is *)
(* known by its run and who wrote it, its _seq by its position in `log`.   *)
(* Leases, retries and delegation are in RunExecution, and so are the      *)
(* compactions that a preparation waits for: here a compaction may be      *)
(* requested at any time.  A checkpoint is the set of messages it covers.  *)
(***************************************************************************)
EXTENDS Naturals, Sequences, FiniteSets, SequencesExt

CONSTANTS
    Seats,              \* the accounts seated in the Space
    RecentTurns,        \* config.context.checkpointRecentTurns
    MaxPosts,           \* bound: user messages
    MaxSpaceSessions,   \* bound: SpaceSessions
    MaxGenerations      \* bound: context generations of an AgentSession

(* A Space has a session, and config.js takes only a positive number of    *)
(* recent turns.                                                           *)
ASSUME ContextAssumption ==
    /\ RecentTurns \in Nat \ {0}
    /\ MaxPosts \in Nat /\ MaxGenerations \in Nat /\ MaxSpaceSessions \in Nat \ {0}

VARIABLES
    cliSeats,       \* seats with a CLI runtime, which keeps its own history
    active,         \* space.activeSpaceSessionId
    spaceSession,   \* spaceSessions: session -> status
    agentSession,   \* agentSessions: <<session, seat>> -> [status, generation]
    history,        \* API history of the current generation: [version, turns],
                    \* and the last run before it was emptied for a new model
    covered,        \* messages in the latest checkpoint of an AgentSession
    log,            \* messages of the Space in order of _seq
    replies,        \* run -> status of its reply
    runs,           \* run -> its row and what its preparation has read
    compaction,     \* seat -> target of its compaction job
    queue           \* seat -> tasks behind withAccountExecutionLock

sessionVars == <<cliSeats, active, spaceSession, agentSession>>
logVars     == <<log, replies>>
contextVars == <<sessionVars, history, covered, logVars, runs, compaction, queue>>

SpaceSessions == 1 .. MaxSpaceSessions
Posts         == 1 .. MaxPosts
Messages      == Posts \X {"user", "reply"}
EmptyHistory  == [version |-> 0, turns |-> << >>, since |-> 0]
NoRun         == [status |-> "none"]
NoCompaction  == [status |-> "none"]
Fresh(status) == [status |-> status, generation |-> 1]

Run(p)       == runs[p]
At(p)        == <<runs[p].session, runs[p].seat>>
IsActive(p)  == runs[p].status \in {"pending", "running"}
Compacting(a) == compaction[a].status \in {"queued", "running"}
SetRun(p, field, value) == runs' = [runs EXCEPT ![p][field] = value]

(* The row of an ended run; what its preparation read is gone.             *)
Ended(p, status) ==
    [runs[p] EXCEPT !.status = status, !.prepared = FALSE, !.base = 0, !.seen = << >>]
FinishRun(p, status) == runs' = [runs EXCEPT ![p] = Ended(p, status)]

-----------------------------------------------------------------------------
(* Messages *)

SessionOf(m) == runs[m[1]].session
Completed(m) == m[2] = "user" \/ replies[m[1]] = "completed"
Place(m)      == CHOOSE i \in 1 .. Len(log) : log[i] = m
In(s)        == {m \in Range(log) : SessionOf(m) = s}

(* completedMessageHighWater, and the largest _seq of any message.         *)
HighWater(s) ==
    LET seqs == {Place(m) : m \in {x \in In(s) : Completed(x)}}
    IN  IF seqs = {} THEN 0 ELSE Max(seqs)
SourceSeq(s) == IF In(s) = {} THEN 0 ELSE Max({Place(m) : m \in In(s)})

(* Completed messages up to a _seq, and the replies of the runs that were  *)
(* active when the job was made.                                           *)
Candidates(s, upTo, included) ==
    {m \in In(s) : Completed(m) /\ (Place(m) <= upTo \/ (m[2] = "reply" /\ m[1] \in included))}

-----------------------------------------------------------------------------
(* SpaceSessions *)

(* hasActiveContextWork: an active run or compaction of one of `sessions`. *)
Busy(sessions) ==
    \/ \E p \in Posts : IsActive(p) /\ runs[p].session \in sessions
    \/ \E a \in Seats : Compacting(a) /\ compaction[a].session \in sessions

(* The active session and its AgentSessions are archived and session s     *)
(* becomes active: a seat without an AgentSession there gets one.          *)
SwitchTo(s) ==
    /\ active' = s
    /\ spaceSession' = [spaceSession EXCEPT ![active] = "archived", ![s] = "active"]
    /\ UNCHANGED cliSeats
    /\ agentSession' = [x \in SpaceSessions \X Seats |->
          IF x[1] = s THEN IF agentSession[x].status = "none" THEN Fresh("active")
                           ELSE [agentSession[x] EXCEPT !.status = "active"]
          ELSE IF x[1] = active THEN [agentSession[x] EXCEPT !.status = "archived"]
          ELSE agentSession[x]]

NextSession(s) == s = Cardinality({t \in SpaceSessions : spaceSession[t] # "none"}) + 1

(* /new: the next session starts with empty contexts.                      *)
StartNewSpaceSession(s) ==
    /\ NextSession(s) /\ ~Busy({active})
    /\ SwitchTo(s)
    /\ UNCHANGED <<history, covered, logVars, runs, compaction, queue>>

(* /resume: an archived session goes on with the contexts it had.          *)
ResumeSpaceSession(s) ==
    /\ s # active /\ spaceSession[s] = "archived" /\ ~Busy({active, s})
    /\ SwitchTo(s)
    /\ UNCHANGED <<history, covered, logVars, runs, compaction, queue>>

-----------------------------------------------------------------------------
(* Runs *)

Posted == Cardinality({q \in Posts : runs[q] # NoRun})

(* postMessage for a seat that is online: the run freezes the generation.  *)
PostMessage(p, a) ==
    /\ p = Posted + 1
    /\ log' = Append(log, <<p, "user">>)
    /\ runs' = [runs EXCEPT ![p] =
          [status |-> "pending", seat |-> a, session |-> active,
           generation |-> agentSession[<<active, a>>].generation,
           prepared |-> FALSE, base |-> 0, seen |-> << >>, committed |-> FALSE]]
    /\ UNCHANGED <<sessionVars, history, covered, replies, compaction, queue>>

(* The run of an AgentSession in its current generation has authority.     *)
Current(p) ==
    /\ agentSession[At(p)].status = "active"
    /\ agentSession[At(p)].generation = runs[p].generation

(* prepareAndDispatch up to its awaits: a run of another generation fails, *)
(* a run that finds its account compacting comes back later, and the       *)
(* history version and the history of the prompt are read.                 *)
Prepare(p) ==
    /\ runs[p].status = "pending" /\ ~runs[p].prepared
    /\ \/ ~Current(p) /\ FinishRun(p, "failed")
       \/ /\ Current(p) /\ ~Compacting(runs[p].seat)
          /\ runs' = [runs EXCEPT ![p].prepared = TRUE,
                                  ![p].base = history[At(p)].version,
                                  ![p].seen = history[At(p)].turns]
    /\ UNCHANGED <<sessionVars, history, covered, logVars, compaction, queue>>

(* The claim after the awaits: a busy account sends the run back.          *)
Claim(p) ==
    /\ runs[p].status = "pending" /\ runs[p].prepared
    /\ IF \E q \in Posts \ {p} : runs[q].status = "running" /\ runs[q].seat = runs[p].seat
       THEN runs' = [runs EXCEPT ![p].prepared = FALSE, ![p].base = 0, ![p].seen = << >>]
       ELSE SetRun(p, "status", "running")
    /\ UNCHANGED <<sessionVars, history, covered, logVars, compaction, queue>>

(* The reply is opened, then completed.                                    *)
Reply(p) ==
    /\ runs[p].status = "running" /\ Current(p)
    /\ \/ /\ replies[p] = "none"
          /\ log' = Append(log, <<p, "reply">>)
          /\ replies' = [replies EXCEPT ![p] = "streaming"]
       \/ /\ replies[p] = "streaming"
          /\ replies' = [replies EXCEPT ![p] = "completed"]
          /\ UNCHANGED log
    /\ UNCHANGED <<sessionVars, history, covered, runs, compaction, queue>>

(* Mutant of Extends: the version of the history is not compared.          *)
ExtendsAny(p) == TRUE

(* compareAndSetApiHistory: the result extends the version it was based on.*)
Extends(p) == history[At(p)].version = runs[p].base

(* saveApiResult: the turn is appended once; a conflict fails the run.     *)
SaveApiResult(p) ==
    /\ runs[p].status = "running" /\ Current(p)
    /\ runs[p].seat \notin cliSeats /\ replies[p] = "completed" /\ ~runs[p].committed
    /\ IF Extends(p)
       THEN /\ history' = [history EXCEPT ![At(p)].version = @ + 1,
                                          ![At(p)].turns = Append(@, p)]
            /\ SetRun(p, "committed", TRUE)
       ELSE FinishRun(p, "failed") /\ UNCHANGED history
    /\ UNCHANGED <<sessionVars, covered, logVars, compaction, queue>>

(* The daemon completes its run; without a turn an API run cannot.         *)
CompleteRun(p) ==
    /\ runs[p].status = "running" /\ Current(p)
    /\ replies[p] = "completed" /\ (runs[p].committed \/ runs[p].seat \in cliSeats)
    /\ FinishRun(p, "completed")
    /\ UNCHANGED <<sessionVars, history, covered, logVars, compaction, queue>>

Interrupted(r) == IF r = "streaming" THEN "failed" ELSE r

(* A failure or the owner's cancellation.                                  *)
EndRun(p) ==
    /\ IsActive(p)
    /\ FinishRun(p, "failed")
    /\ replies' = [replies EXCEPT ![p] = Interrupted(@)]
    /\ UNCHANGED <<sessionVars, history, covered, log, compaction, queue>>

(* rotateProviderBinding: a CLI run that lost its provider session before  *)
(* its first reply goes on in a new generation, with a checkpoint.         *)
RotateProviderBinding(p) ==
    /\ runs[p].status = "running" /\ Current(p)
    /\ runs[p].seat \in cliSeats /\ replies[p] = "none"
    /\ runs[p].generation < MaxGenerations
    /\ agentSession' = [agentSession EXCEPT ![At(p)].generation = @ + 1]
    /\ covered' = [covered EXCEPT ![At(p)] =
                      @ \cup Candidates(runs[p].session, Len(log), {})]
    /\ SetRun(p, "generation", runs[p].generation + 1)
    /\ UNCHANGED <<cliSeats, active, spaceSession, history, logVars, compaction, queue>>

-----------------------------------------------------------------------------
(* Compactions *)

Enqueue(a, task) == queue' = [queue EXCEPT ![a] = Append(@, task)]
Dequeue(a)       == queue' = [queue EXCEPT ![a] = Tail(@)]
First(a, task)   == queue[a] # << >> /\ Head(queue[a]) = task
Settle(a)        == compaction' = [compaction EXCEPT ![a] = NoCompaction]

(* /compact: a target for every seat, none of which is compacting.         *)
RequestCompaction ==
    /\ \A a \in Seats : ~Compacting(a)
    /\ \A a \in Seats : agentSession[<<active, a>>].generation < MaxGenerations
    /\ compaction' = [a \in Seats |->
          [status |-> "queued", session |-> active,
           from |-> agentSession[<<active, a>>].generation,
           sourceSeq |-> SourceSeq(active),
           included |-> {p \in Posts : IsActive(p) /\ runs[p].session = active
                                       /\ runs[p].seat = a},
           checkpoint |-> {}]]
    /\ queue' = [a \in Seats |-> Append(queue[a], "compact")]
    /\ UNCHANGED <<sessionVars, history, covered, logVars, runs>>

Target(a) == <<compaction[a].session, a>>

(* runTarget behind the lock: the checkpoint is made and sent.             *)
StartCompaction(a) ==
    /\ First(a, "compact") /\ compaction[a].status = "queued"
    /\ IF agentSession[Target(a)].generation # compaction[a].from
       THEN Settle(a) /\ Dequeue(a)
       ELSE /\ compaction' = [compaction EXCEPT
                  ![a].status = "running",
                  ![a].checkpoint = covered[Target(a)] \cup
                      Candidates(compaction[a].session, compaction[a].sourceSeq,
                                 compaction[a].included)]
            /\ UNCHANGED queue
    /\ UNCHANGED <<sessionVars, history, covered, logVars, runs>>

(* Mutant of CarriedTurns: the next generation starts without turns.       *)
CarriedTurnsNone(turns) == << >>

(* The last turns of the history go into the next generation.              *)
CarriedTurns(turns) == SubSeq(turns, Max({1, Len(turns) - RecentTurns + 1}), Len(turns))

(* The daemon's result rotates the generation, if it is still the current  *)
(* one; otherwise only the timeout is left.                                *)
CompactionSucceeds(a) ==
    /\ compaction[a].status = "running"
    /\ agentSession[Target(a)] = [status |-> "active", generation |-> compaction[a].from]
    /\ agentSession' = [agentSession EXCEPT ![Target(a)].generation = @ + 1]
    /\ covered' = [covered EXCEPT ![Target(a)] = compaction[a].checkpoint]
    /\ history' = [history EXCEPT ![Target(a)].version = 0,
                                  ![Target(a)].turns = CarriedTurns(@)]
    /\ Settle(a) /\ Dequeue(a)
    /\ UNCHANGED <<cliSeats, active, spaceSession, logVars, runs>>

CompactionFails(a) ==
    /\ compaction[a].status = "running"
    /\ Settle(a) /\ Dequeue(a)
    /\ UNCHANGED <<sessionVars, history, covered, logVars, runs>>

-----------------------------------------------------------------------------
(* updateAccountModel: an idle account gets another model, which begins in *)
(* a new generation with an empty history.                                 *)
ChangeModel(a) ==
    /\ \A p \in Posts : ~(IsActive(p) /\ runs[p].seat = a)
    /\ ~Compacting(a)
    /\ agentSession[<<active, a>>].generation < MaxGenerations
    /\ agentSession' = [agentSession EXCEPT ![<<active, a>>].generation = @ + 1]
    /\ history' = [history EXCEPT ![<<active, a>>] = [EmptyHistory EXCEPT !.since = Posted]]
    /\ UNCHANGED <<cliSeats, active, spaceSession, covered, logVars, runs, compaction, queue>>

-----------------------------------------------------------------------------
(* A restart ends the active runs and compactions.                         *)
Interrupt ==
    /\ runs' = [p \in Posts |-> IF IsActive(p) THEN Ended(p, "failed") ELSE runs[p]]
    /\ replies' = [p \in Posts |-> Interrupted(replies[p])]
    /\ compaction' = [a \in Seats |-> NoCompaction]
    /\ queue' = [a \in Seats |-> << >>]
    /\ UNCHANGED <<sessionVars, history, covered, log>>

ContextInit ==
    /\ cliSeats \in SUBSET Seats
    /\ active = 1
    /\ spaceSession = [s \in SpaceSessions |-> IF s = 1 THEN "active" ELSE "none"]
    /\ agentSession = [x \in SpaceSessions \X Seats |->
                          Fresh(IF x[1] = 1 THEN "active" ELSE "none")]
    /\ history = [x \in SpaceSessions \X Seats |-> EmptyHistory]
    /\ covered = [x \in SpaceSessions \X Seats |-> {}]
    /\ log = << >>
    /\ replies = [p \in Posts |-> "none"]
    /\ runs = [p \in Posts |-> NoRun]
    /\ compaction = [a \in Seats |-> NoCompaction]
    /\ queue = [a \in Seats |-> << >>]

RunStep(p) ==
    \/ \E a \in Seats : PostMessage(p, a)
    \/ Prepare(p) \/ Claim(p) \/ Reply(p) \/ SaveApiResult(p) \/ CompleteRun(p) \/ EndRun(p)
    \/ RotateProviderBinding(p)

ContextNext ==
    \/ \E p \in Posts : RunStep(p)
    \/ \E s \in SpaceSessions : StartNewSpaceSession(s) \/ ResumeSpaceSession(s)
    \/ RequestCompaction
    \/ \E a \in Seats : StartCompaction(a) \/ CompactionSucceeds(a) \/ CompactionFails(a)
                          \/ ChangeModel(a)

-----------------------------------------------------------------------------
ContextTypeOK ==
    /\ {s \in SpaceSessions : spaceSession[s] = "active"} = {active}
    /\ \A s \in SpaceSessions, a \in Seats :
          agentSession[<<s, a>>].status = "active" <=> spaceSession[s] = "active"
    /\ \A x \in SpaceSessions \X Seats :
          /\ agentSession[x].generation \in 1 .. MaxGenerations
          /\ history[x].version \in 0 .. MaxPosts
          /\ covered[x] \subseteq Messages
    /\ Range(log) \subseteq Messages

(* The answer of a completed API run is never forgotten: the context of    *)
(* its AgentSession still holds its turn, or a checkpoint that covers it,  *)
(* however compactions overlap the runs, until the owner changes the model.*)
NothingForgotten ==
    \A p \in Posts : runs[p].status = "completed" /\ runs[p].seat \notin cliSeats =>
        \/ p \in Range(history[At(p)].turns) \/ p <= history[At(p)].since
        \/ <<p, "reply">> \in covered[At(p)]

(* A turn is appended only to the history that its prompt was made from:   *)
(* what another run of the session said in between is a conflict.          *)
ExtendsWhatItSaw ==
    [][\A p \in Posts :
          /\ runs[p] # NoRun /\ ~runs[p].committed /\ runs'[p].committed
          => history[At(p)].turns = runs[p].seen]_contextVars
=============================================================================
