---------------------------- MODULE MemorySchedules ----------------------------
(***************************************************************************)
(* When the memory of an Agent is maintained: the two schedulers with      *)
(* their minute timers, the digests a committed message triggers, what is  *)
(* caught up at a start, and the owner's changes of the configuration.     *)
(* One Agent with one Account in one Space Session.  Time is counted in    *)
(* minutes of a small calendar; a timer may fire late, but not early.      *)
(***************************************************************************)
EXTENDS Integers, Sequences, FiniteSets

CONSTANTS
    MaxMinutes,     \* bound: minutes of a behaviour
    MaxMessages,    \* bound: messages
    MaxDigests,     \* bound: digest jobs when another range is asked for
    MaxPatches,     \* bound: changes of the configuration
    MaxStops,       \* bound: restarts
    CatchUp         \* catchUpMinutes: how far a start looks back for Dreams

VARIABLES
    clock,          \* the minute
    serving,        \* BOOLEAN: the gateway runs
    digestTick,     \* lastTickMinute of the digest scheduler
    dreamTick,      \* lastTickMinute of the Dream scheduler
    memoryConfig,   \* the config of the Agent; its version is its content
    patches,        \* PATCH requests that wait for validateTaskSelection
    posted,         \* messages, in the order of their _seq: "open" or "completed"
    digestJobs,     \* memoryDigestJobs of the Agent
    dreamJobs,      \* scheduled memoryDreamJobs of the Agent
    freezing,       \* Dream requests that wait for freezeTask
    patchCount, stops

configVars == <<memoryConfig, patches, patchCount>>
scheduleVars == <<clock, serving, digestTick, dreamTick, configVars, posted, digestJobs,
                  dreamJobs, freezing, stops>>

-----------------------------------------------------------------------------
(* The calendar and the schedules.                                         *)

(* zonedParts: three minutes make a day, two days a week and four a month. *)
Parts3(t) == [minute |-> t % 3, weekday |-> (t \div 3) % 2, day |-> (t \div 3) % 4]

(* parseField: a field is a wildcard, or the values from start to end in   *)
(* steps.                                                                  *)
Field(start, end, step) ==
    [values |-> {v \in start .. end : (v - start) % step = 0}, wildcard |-> FALSE]
AnyValue == [values |-> 0 .. 3, wildcard |-> TRUE]

(* When both fields for days are given, one of them is enough.             *)
CronMatches(cron, date) ==
    LET dom == date.day \in cron.dayOfMonth.values
        dow == date.weekday \in cron.dayOfWeek.values
    IN  /\ date.minute \in cron.minute.values
        /\ CASE cron.dayOfMonth.wildcard -> dow
             [] cron.dayOfWeek.wildcard  -> dom
             [] OTHER -> dom \/ dow

Manual == [mode |-> "manual"]
Daily(time) == [mode |-> "daily", time |-> time]
Weekly(day, time) == [mode |-> "weekly", weekday |-> day, time |-> time]
Custom(cron) == [mode |-> "custom", cron |-> cron]
EveryMinuteOnDay(day) ==
    Custom([minute |-> Field(0, 2, 1), dayOfMonth |-> Field(day, day, 1), dayOfWeek |-> AnyValue])

(* weekday is 1 .. 7 in a schedule and 0 .. 6 in a date.                   *)
ScheduleMatches(schedule, t) ==
    LET local == Parts3(t)
    IN  CASE schedule.mode = "manual" -> FALSE
          [] schedule.mode = "daily"  -> local.minute = schedule.time
          [] schedule.mode = "weekly" -> /\ local.minute = schedule.time
                                         /\ local.weekday = schedule.weekday % 2
          [] schedule.mode = "custom" -> CronMatches(schedule.cron, local)

Due(schedule, first, last) == {t \in first .. last : ScheduleMatches(schedule, t)}

LatestSlot(slots) == CHOOSE t \in slots : \A u \in slots : u <= t

(* What validateDigest and validateDream let through, a few of them.       *)
DigestTriggers ==
    {[mode |-> "manual"], [mode |-> "realtime", threshold |-> 2],
     [mode |-> "scheduled", schedule |-> EveryMinuteOnDay(0)]}
DreamSchedules == {Manual, Daily(1), Weekly(2, 2)}

-----------------------------------------------------------------------------
(* Digests.                                                                *)

DigestOpen == {"queued", "running"}

(* resolveIncrementalDigestRange: the completed messages behind the last   *)
(* one an incremental job has digested.                                    *)
Watermark ==
    LET done == {0} \cup {j.to : j \in {k \in digestJobs : k.mode = "incremental"
                                                           /\ k.status = "succeeded"}}
    IN  CHOOSE n \in done : \A m \in done : m <= n
Visible(msgs) == {i \in 1 .. Len(msgs) : msgs[i] = "completed"}
PendingWindow(msgs) == {i \in Visible(msgs) : i > Watermark}

First(S) == CHOOSE i \in S : \A j \in S : i <= j
Last(S) == CHOOSE i \in S : \A j \in S : i >= j

DigestKey(window, mode) == [from |-> First(window), to |-> Last(window), mode |-> mode]

(* A job of one pair is active: no other is taken.                         *)
DigestBusy == \E j \in digestJobs : j.status \in DigestOpen

(* Mutant of WithJob: a job that is active is not looked for.              *)
WithJobUnlessKnown(window, mode, again) ==
    IF \/ window = {}
       \/ \E j \in digestJobs : [from |-> j.from, to |-> j.to, mode |-> j.mode] = DigestKey(window, mode)
    THEN digestJobs
    ELSE digestJobs \cup {[from |-> First(window), to |-> Last(window), mode |-> mode,
                           status |-> "queued", again |-> again]}

(* enqueue: nothing to digest, a job for that range already, one active.   *)
WithJob(window, mode, again) ==
    IF \/ window = {}
       \/ \E j \in digestJobs : [from |-> j.from, to |-> j.to, mode |-> j.mode] = DigestKey(window, mode)
       \/ DigestBusy
    THEN digestJobs
    ELSE digestJobs \cup {[from |-> First(window), to |-> Last(window), mode |-> mode,
                           status |-> "queued", again |-> again]}

(* onMessageCommitted: enough has gathered since the last digest.          *)
Realtime(msgs) ==
    LET trigger == memoryConfig.digest
        window  == PendingWindow(msgs)
    IN  IF trigger.mode = "realtime" /\ Cardinality(window) >= trigger.threshold
        THEN WithJob(window, "incremental", FALSE) ELSE digestJobs

(* enqueueCatchUp for a config, over jobs that may have been requeued.     *)
CaughtUp(config) ==
    IF config.digest.mode = "scheduled" THEN WithJob(PendingWindow(posted), "incremental", FALSE)
    ELSE digestJobs

(* A message is committed complete, or begins to stream.                   *)
PostMessage(status) ==
    /\ serving
    /\ Len(posted) < MaxMessages
    /\ posted' = Append(posted, status)
    /\ digestJobs' = IF status = "completed" THEN Realtime(posted') ELSE digestJobs
    /\ UNCHANGED <<clock, serving, digestTick, dreamTick, configVars, dreamJobs, freezing, stops>>

CompleteMessage(i) ==
    /\ serving
    /\ posted[i] = "open"
    /\ posted' = [posted EXCEPT ![i] = "completed"]
    /\ digestJobs' = Realtime(posted')
    /\ UNCHANGED <<clock, serving, digestTick, dreamTick, configVars, dreamJobs, freezing, stops>>

(* The owner asks for a digest of what is new, or of a range, which an     *)
(* incremental digest may name as well.                                    *)
RequestIncremental ==
    /\ serving
    /\ digestJobs' = WithJob(PendingWindow(posted), "incremental", FALSE)
    /\ digestJobs' # digestJobs
    /\ UNCHANGED <<clock, serving, digestTick, dreamTick, configVars, posted, dreamJobs, freezing, stops>>

RequestRange(from, to, mode) ==
    /\ serving
    /\ {from, to} \subseteq Visible(posted) /\ from <= to
    /\ Cardinality(digestJobs) < MaxDigests
    /\ digestJobs' = WithJob(Visible(posted) \cap (from .. to), mode, TRUE)
    /\ digestJobs' # digestJobs
    /\ UNCHANGED <<clock, serving, digestTick, dreamTick, configVars, posted, dreamJobs, freezing, stops>>

ChangeJob(j, changed) ==
    /\ digestJobs' = (digestJobs \ {j}) \cup {changed}
    /\ UNCHANGED <<clock, serving, digestTick, dreamTick, configVars, posted, dreamJobs, freezing, stops>>

(* One job of the Agent runs at a time: its tail.                          *)
JobRuns(j) ==
    /\ serving
    /\ j.status = "queued"
    /\ \A k \in digestJobs : k.status # "running"
    /\ ChangeJob(j, [j EXCEPT !.status = "running"])

JobSucceeds(j) ==
    /\ serving
    /\ j.status = "running"
    /\ ChangeJob(j, [j EXCEPT !.status = "succeeded"])

(* It failed, or was cancelled, also before it ran: "failed" stands for    *)
(* both.                                                                   *)
JobFails(j) ==
    /\ serving
    /\ j.status \in DigestOpen
    /\ ChangeJob(j, [j EXCEPT !.status = "failed"])

JobRetried(j) ==
    /\ serving
    /\ j.status = "failed"
    /\ ChangeJob(j, [j EXCEPT !.status = "queued", !.again = TRUE])

-----------------------------------------------------------------------------
(* Dreams.                                                                 *)

DreamKey(slot) == [slot |-> slot, config |-> memoryConfig]

DreamBusy == \E j \in dreamJobs : j.active

(* enqueue, before its first await: the same slot and config again is the  *)
(* job there is, and a job that is active serves instead of a new one.     *)
Requested(slots) ==
    IF slots = {} THEN freezing
    ELSE LET key == DreamKey(LatestSlot(slots))
         IN  IF DreamBusy \/ \E j \in dreamJobs : j.key = key THEN freezing
             ELSE freezing \cup {key}

(* The task and the memories are frozen, and the job is stored.            *)
DreamStored(key) ==
    /\ serving
    /\ key \in freezing
    /\ freezing' = freezing \ {key}
    /\ dreamJobs' = dreamJobs \cup
            {[key |-> key, active |-> TRUE,
              copy |-> Cardinality({j \in dreamJobs : j.key = key})]}
    /\ UNCHANGED <<clock, serving, digestTick, dreamTick, configVars, posted, digestJobs, stops>>

DreamEnds(j) ==
    /\ serving
    /\ j.active
    /\ dreamJobs' = (dreamJobs \ {j}) \cup {[j EXCEPT !.active = FALSE]}
    /\ UNCHANGED <<clock, serving, digestTick, dreamTick, configVars, posted, digestJobs, freezing, stops>>

-----------------------------------------------------------------------------
(* Time, timers and restarts.                                              *)

Minute ==
    /\ clock < MaxMinutes
    /\ clock' = clock + 1
    /\ UNCHANGED <<serving, digestTick, dreamTick, configVars, posted, digestJobs, dreamJobs,
                   freezing, stops>>

(* onTimer of the digest scheduler: a minute since its last tick matches.  *)
DigestTimer ==
    /\ serving
    /\ digestTick < clock
    /\ digestTick' = clock
    /\ digestJobs' =
            IF /\ memoryConfig.digest.mode = "scheduled"
               /\ Due(memoryConfig.digest.schedule, digestTick + 1, clock) # {}
            THEN WithJob(PendingWindow(posted), "incremental", FALSE) ELSE digestJobs
    /\ UNCHANGED <<clock, serving, dreamTick, configVars, posted, dreamJobs, freezing, stops>>

(* onTimer of the Dream scheduler: only the latest of the slots.           *)
DreamTimer ==
    /\ serving
    /\ dreamTick < clock
    /\ dreamTick' = clock
    /\ freezing' = Requested(Due(memoryConfig.dream, dreamTick + 1, clock))
    /\ UNCHANGED <<clock, serving, digestTick, configVars, posted, digestJobs, dreamJobs, stops>>

(* close and the end of the process: timers, requests and what waits.      *)
StopGateway ==
    /\ serving
    /\ stops < MaxStops
    /\ stops' = stops + 1
    /\ serving' = FALSE
    /\ patches' = {} /\ freezing' = {}
    /\ digestJobs' = {IF j.status = "running" THEN [j EXCEPT !.status = "queued"] ELSE j :
                        j \in digestJobs}
    /\ UNCHANGED <<clock, digestTick, dreamTick, memoryConfig, patchCount, posted, dreamJobs>>

(* start of both schedulers: the backlog, and the latest slot of the days  *)
(* the gateway may have been away.                                         *)
StartGateway ==
    /\ ~serving
    /\ serving' = TRUE
    /\ digestTick' = clock /\ dreamTick' = clock
    /\ digestJobs' = CaughtUp(memoryConfig)
    /\ freezing' = Requested(Due(memoryConfig.dream, clock - CatchUp + 1, clock))
    /\ UNCHANGED <<clock, configVars, posted, dreamJobs, stops>>

-----------------------------------------------------------------------------
(* The configuration.                                                      *)

(* patchConfig up to its await: ifMatch is the version the owner read.     *)
BeginPatch(digest, dream) ==
    /\ serving
    /\ patchCount < MaxPatches
    /\ patchCount' = patchCount + 1
    /\ [digest |-> digest, dream |-> dream] # memoryConfig
    /\ patches' = patches \cup {[digest |-> digest, dream |-> dream]}
    /\ UNCHANGED <<clock, serving, digestTick, dreamTick, memoryConfig, posted, digestJobs,
                   dreamJobs, freezing, stops>>

(* The selection is valid: the config as it was read with the sections     *)
(* replaced is written, refreshAgent catches up and refresh starts the     *)
(* Dream timer anew.                                                       *)
FinishPatch(next) ==
    /\ serving
    /\ next \in patches
    /\ patches' = patches \ {next}
    /\ memoryConfig' = next
    /\ digestJobs' = CaughtUp(next)
    /\ dreamTick' = clock
    /\ UNCHANGED <<clock, serving, digestTick, patchCount, posted, dreamJobs, freezing, stops>>

(* validateTaskSelection refuses.                                          *)
RefusePatch(next) ==
    /\ serving
    /\ next \in patches
    /\ patches' = patches \ {next}
    /\ UNCHANGED <<clock, serving, digestTick, dreamTick, memoryConfig, patchCount, posted,
                   digestJobs, dreamJobs, freezing, stops>>

-----------------------------------------------------------------------------
ScheduleInit ==
    /\ clock = 0 /\ serving = FALSE
    /\ digestTick = 0 /\ dreamTick = 0
    /\ memoryConfig \in [digest : DigestTriggers, dream : DreamSchedules]
    /\ patches = {} /\ posted = <<>>
    /\ digestJobs = {} /\ dreamJobs = {} /\ freezing = {}
    /\ patchCount = 0 /\ stops = 0

DigestSide ==
    \/ DigestTimer
    \/ \E s \in {"open", "completed"} : PostMessage(s)
    \/ \E i \in 1 .. Len(posted) : CompleteMessage(i)
    \/ RequestIncremental
    \/ \E i, k \in 1 .. Len(posted), mode \in {"incremental", "range"} : RequestRange(i, k, mode)
    \/ \E j \in digestJobs :
          JobRuns(j) \/ JobSucceeds(j) \/ JobFails(j) \/ JobRetried(j)
    \/ \E d \in DigestTriggers : BeginPatch(d, memoryConfig.dream)

DreamSide ==
    \/ DreamTimer
    \/ \E key \in freezing : DreamStored(key)
    \/ \E j \in dreamJobs : DreamEnds(j)
    \/ \E s \in DreamSchedules : BeginPatch(memoryConfig.digest, s)

BothSides ==
    \/ Minute \/ StopGateway \/ StartGateway
    \/ \E p \in patches : FinishPatch(p) \/ RefusePatch(p)

ScheduleNext == DigestSide \/ DreamSide \/ BothSides

ScheduleSpec == ScheduleInit /\ [][ScheduleNext]_scheduleVars

-----------------------------------------------------------------------------
(* No message is digested by two incremental jobs, unless the owner chose  *)
(* the range of one of them or had it retried: neither catching up, nor the realtime trigger, nor *)
(* a request of the owner takes what another job is at.                    *)
DigestedOnce ==
    \A j, k \in {d \in digestJobs : d.mode = "incremental" /\ d.status = "succeeded"} :
        j # k /\ ~j.again /\ ~k.again => j.to < k.from \/ k.to < j.from

(* No slot of a schedule is dreamt twice under one config, although timers *)
(* are late, every start looks back and the config changes to and fro.     *)
DreamtOnce == \A j, k \in dreamJobs : j.key = k.key => j = k

(* The schedules (memory-digest-scheduler.js, memory-dream-scheduler.js)   *)
(* start no work twice.                                                    *)
EachOnce == DigestedOnce /\ DreamtOnce
=============================================================================
