----------------------------- MODULE GatewayUpdate -----------------------------
(***************************************************************************)
(* Updates of the gateway.  The gateway's HTTP control and the candidate   *)
(* CLI queue requests by linking request.json; a runner that systemd       *)
(* starts for the file prepares a release, stops the service, copies its   *)
(* data, switches the link `current` and starts it again, and restores     *)
(* release and data when the service does not become healthy.              *)
(*                                                                         *)
(* The data directory is the set of the operations under whose release the *)
(* service wrote to it: 0 for the release it was installed with.           *)
(***************************************************************************)
EXTENDS Naturals, FiniteSets

CONSTANTS
    MaxRequests,    \* bound: requests that are ever prepared
    MaxUpdateFaults \* bound: file operations and commands that fail, crashes

ASSUME UpdateAssumption == MaxRequests \in Nat

VARIABLES
    remote,         \* head of the public branch (environment)
    preparing,      \* requests past the checks of their caller, not linked yet
    request,        \* request.json
    upStatus,       \* status.json
    release,        \* what the link `current` names
    releases,       \* prepared releases: <<commit, source of the marker>>
    service,        \* release of the running gateway, or Down
    data,           \* dataPath
    backups,        \* data copies: operation -> copy, under backupRoot
    aside,          \* data moved to <dataPath>.failed-update-<id>
    rollbackMeta,   \* rollback.json
    runner,         \* the runner's operation and where it stands
    before,         \* history: release and data when an operation stopped the service
    nextId, faults

updateVars == <<remote, preparing, request, upStatus, release, releases, service, data,
                backups, aside, rollbackMeta, runner, before, nextId, faults>>

Public     == {"p0", "p1"}
CandidateReleases == {"c1"}
Releases   == Public \cup CandidateReleases

Down      == "down"
NoRequest == [action |-> "none"]
NoMeta    == [candidate |-> "none"]
Missing   == {MaxRequests + 1}      \* no data directory
Partial   == {MaxRequests + 2}      \* a copy that broke off
NoRunner  == [at |-> "idle"]
Ids       == 1..MaxRequests

ActiveStates == {"checking", "queued", "updating"}

Status(state, id, target) == [state |-> state, id |-> id, target |-> target]

-----------------------------------------------------------------------------
(* Queueing.  The checks and the link are steps of their own: requests     *)
(* that pass the checks together race for the link.                        *)

PrepareRequest(r) ==
    /\ nextId <= MaxRequests /\ nextId' = nextId + 1
    /\ preparing' = preparing \cup {[r EXCEPT !.id = nextId]}
    /\ UNCHANGED <<remote, request, upStatus, release, releases, service, data, backups, aside,
                   rollbackMeta, runner, before, faults>>

(* queueCheck and rejectBusy                                               *)
NotBusy == request = NoRequest /\ upStatus.state \notin ActiveStates

QueueCheck ==
    /\ service # Down /\ NotBusy
    /\ PrepareRequest([id |-> 0, action |-> "check", target |-> "none"])

(* queueApply: the target that a check found and the owner confirmed.      *)
QueueApply ==
    /\ service # Down
    /\ upStatus.state = "available" /\ request = NoRequest
    /\ PrepareRequest([id |-> 0, action |-> "apply", target |-> upStatus.target])

(* The CLI works without the gateway.                                      *)
QueueCandidate(action, c) ==
    /\ NotBusy
    /\ PrepareRequest([id |-> 0, action |-> action, target |-> c])

(* link(2) refuses a name that exists.                                     *)
LinkRequest(r) ==
    /\ r \in preparing
    /\ preparing' = preparing \ {r}
    /\ request' = IF request = NoRequest THEN r ELSE request
    /\ UNCHANGED <<remote, upStatus, release, releases, service, data, backups, aside,
                   rollbackMeta, runner, before, nextId, faults>>

-----------------------------------------------------------------------------
(* The runner, one file operation or command after the other.              *)

Goto(at) == runner' = [runner EXCEPT !.at = at]
op == runner.req.id

(* The request is unlinked before anything is done for it.                 *)
TakeRequest ==
    /\ runner = NoRunner /\ request # NoRequest
    /\ runner' = [at |-> "taken", req |-> request, old |-> release, copy |-> 0]
    /\ request' = NoRequest
    /\ UNCHANGED <<remote, preparing, upStatus, release, releases, service, data, backups,
                   aside, rollbackMeta, before, nextId, faults>>

Announce ==
    /\ runner.at = "taken"
    /\ upStatus' = Status(IF runner.req.action = "check" THEN "checking" ELSE "queued",
                          op, runner.req.target)
    /\ Goto(IF runner.req.action = "rollback" THEN "checkRollback" ELSE "fetch")
    /\ UNCHANGED <<remote, preparing, request, release, releases, service, data, backups, aside,
                   rollbackMeta, before, nextId, faults>>

(* The catch of runGatewayUpdate: whatever request is there goes, too.     *)
FailRequest ==
    /\ request' = NoRequest
    /\ upStatus' = Status("failed", op, runner.req.target)
    /\ runner' = NoRunner

(* ensurePublicRepository, ensureCandidateRepository                       *)
Fetched == IF runner.req.action = "candidate" THEN runner.req.target ELSE remote

FinishCheck ==
    /\ runner.at = "fetch" /\ runner.req.action = "check"
    /\ upStatus' = Status(IF Fetched = release THEN "up_to_date" ELSE "available", op, Fetched)
    /\ runner' = NoRunner
    /\ UNCHANGED <<remote, preparing, request, release, releases, service, data, backups, aside,
                   rollbackMeta, before, nextId, faults>>

BeginUpdate ==
    /\ runner.at = "fetch" /\ runner.req.action # "check"
    /\ IF Fetched # runner.req.target
       THEN FailRequest
       ELSE /\ upStatus' = Status("updating", op, Fetched)
            /\ Goto("prepare")
            /\ UNCHANGED request
    /\ UNCHANGED <<remote, preparing, release, releases, service, data, backups, aside,
                   rollbackMeta, before, nextId, faults>>

(* prepareRelease, and currentTarget read before the service is stopped.   *)
Source == IF runner.req.action = "candidate" THEN "candidate" ELSE "public"

(* A commit that was prepared from the other source is refused.            *)
PrepareRelease ==
    /\ runner.at = "prepare"
    /\ IF \E r \in releases : r[1] = runner.req.target /\ r[2] # Source
       THEN FailRequest /\ UNCHANGED releases
       ELSE /\ releases' = releases \cup {<<runner.req.target, Source>>}
            /\ runner' = [runner EXCEPT !.at = "backup", !.old = release]
            /\ UNCHANGED <<request, upStatus>>
    /\ UNCHANGED <<remote, preparing, release, service, data, backups, aside, rollbackMeta,
                   before, nextId, faults>>

Noted == before' = [before EXCEPT ![op] = [release |-> release, data |-> data]]

(* Mutant of BackupData: a copy that broke off is taken for a backup.      *)
BackupUnchecked ==
    /\ runner.at = "backup"
    /\ service' = Down
    /\ \E copy \in {data, Partial} : backups' = [backups EXCEPT ![op] = copy]
    /\ runner' = [runner EXCEPT !.at = "switch", !.copy = op]
    /\ Noted
    /\ UNCHANGED <<remote, preparing, request, upStatus, release, releases, data, aside,
                   rollbackMeta, nextId, faults>>

(* backupData: the service is stopped and stays so if the copy succeeds.   *)
BackupData ==
    /\ runner.at = "backup"
    /\ service' = Down
    /\ backups' = [backups EXCEPT ![op] = data]
    /\ runner' = [runner EXCEPT !.at = "switch", !.copy = op]
    /\ Noted
    /\ UNCHANGED <<remote, preparing, request, upStatus, release, releases, data, aside,
                   rollbackMeta, nextId, faults>>

(* Mutant: the previous release is read after the switch.                  *)
SwitchBeforeRead ==
    /\ runner.at = "switch"
    /\ release' = runner.req.target
    /\ runner' = [runner EXCEPT !.at = "start", !.old = release']
    /\ UNCHANGED <<remote, preparing, request, upStatus, releases, service, data, backups, aside,
                   rollbackMeta, before, nextId, faults>>

SwitchCurrent ==
    /\ runner.at = "switch"
    /\ release' = runner.req.target
    /\ Goto("start")
    /\ UNCHANGED <<remote, preparing, request, upStatus, releases, service, data, backups, aside,
                   rollbackMeta, before, nextId, faults>>

(* systemctl start: the service opens its data, or a new directory.        *)
Serve(o) ==
    /\ service' = release
    /\ data' = (IF data = Missing THEN {} ELSE data) \cup {o}

StartRelease ==
    /\ runner.at = "start"
    /\ Serve(op)
    /\ Goto("healthy")
    /\ UNCHANGED <<remote, preparing, request, upStatus, release, releases, backups, aside,
                   rollbackMeta, before, nextId, faults>>

(* The health check answers and the way back is recorded or removed.       *)
RecordRollback ==
    /\ runner.at = "healthy"
    /\ rollbackMeta' = IF runner.req.action = "candidate"
                       THEN [candidate |-> runner.req.target, previous |-> runner.old,
                             copy |-> runner.copy]
                       ELSE NoMeta
    /\ Goto("succeed")
    /\ UNCHANGED <<remote, preparing, request, upStatus, release, releases, service, data,
                   backups, aside, before, nextId, faults>>

Succeed ==
    /\ runner.at = "succeed"
    /\ upStatus' = Status("succeeded", op, runner.req.target)
    /\ runner' = NoRunner
    /\ UNCHANGED <<remote, preparing, request, release, releases, service, data, backups, aside,
                   rollbackMeta, before, nextId, faults>>

(* runCandidateRollback: only the running candidate, and only the one that *)
(* the metadata names.                                                     *)
CheckRollback ==
    /\ runner.at = "checkRollback"
    /\ IF /\ <<release, "candidate">> \in releases /\ release = runner.req.target
          /\ rollbackMeta.candidate = release
       THEN /\ upStatus' = Status("updating", op, release)
            /\ runner' = [runner EXCEPT !.at = "restore", !.old = rollbackMeta.previous,
                                        !.copy = rollbackMeta.copy]
            /\ UNCHANGED request
       ELSE FailRequest
    /\ UNCHANGED <<remote, preparing, release, releases, service, data, backups, aside,
                   rollbackMeta, before, nextId, faults>>

(* restore and the rollback of a candidate: stop and switch, move the data *)
(* aside, copy the backup, start.                                          *)
Restore ==
    /\ runner.at = "restore"
    /\ service' = Down
    /\ release' = runner.old
    /\ IF runner.req.action = "rollback" THEN Noted ELSE UNCHANGED before
    /\ Goto("moveData")
    /\ UNCHANGED <<remote, preparing, request, upStatus, releases, data, backups, aside,
                   rollbackMeta, nextId, faults>>

MoveData ==
    /\ runner.at = "moveData" /\ data # Missing
    /\ aside' = aside \cup {data} /\ data' = Missing
    /\ Goto("copyData")
    /\ UNCHANGED <<remote, preparing, request, upStatus, release, releases, service, backups,
                   rollbackMeta, before, nextId, faults>>

CopyData ==
    /\ runner.at = "copyData"
    /\ data' = backups[runner.copy]
    /\ Goto("restart")
    /\ UNCHANGED <<remote, preparing, request, upStatus, release, releases, service, backups,
                   aside, rollbackMeta, before, nextId, faults>>

StartPrevious ==
    /\ runner.at = "restart"
    /\ service' = release
    /\ Goto("report")
    /\ UNCHANGED <<remote, preparing, request, upStatus, release, releases, data, backups, aside,
                   rollbackMeta, before, nextId, faults>>

ReportRollback ==
    /\ runner.at = "report"
    /\ rollbackMeta' = IF runner.req.action = "rollback" THEN NoMeta ELSE rollbackMeta
    /\ upStatus' = Status("rolled_back", op, runner.req.target)
    /\ runner' = NoRunner
    /\ UNCHANGED <<remote, preparing, request, release, releases, service, data, backups, aside,
                   before, nextId, faults>>

-----------------------------------------------------------------------------
(* Failures.                                                               *)

Restoring == {"restore", "moveData", "copyData", "restart", "report"}
Fault == faults < MaxUpdateFaults /\ faults' = faults + 1

(* Where the runner goes on: the catch around the switch restores.         *)
AfterFault(at) ==
    IF at \in {"switch", "start", "healthy", "succeed"} THEN "restore" ELSE "idle"

(* A step fails, the health check of a release among them.  A backup that  *)
(* fails starts the service again; a copy that fails leaves a part.        *)
StepFails ==
    /\ runner # NoRunner /\ Fault
    /\ IF AfterFault(runner.at) = "restore"
       THEN /\ Goto("restore")
            /\ UNCHANGED <<request, upStatus>>
       ELSE IF runner.at \in Restoring
       THEN /\ upStatus' = Status("failed", op, runner.req.target)
            /\ runner' = NoRunner
            /\ UNCHANGED request
       ELSE FailRequest
    /\ \/ runner.at # "copyData" /\ UNCHANGED data
       \/ runner.at = "copyData" /\ data' \in {Missing, Partial}
    /\ UNCHANGED <<remote, preparing, release, releases, service, backups, aside, rollbackMeta,
                   before, nextId>>

(* The machine stops and starts again, and with it the service; what was   *)
(* in memory of the queueing callers and the runner is gone.               *)
Crash ==
    /\ Fault
    /\ runner' = NoRunner /\ preparing' = {}
    /\ service' = release
    /\ data' = CASE data = Missing -> {}
                 [] runner # NoRunner /\ runner.at = "copyData" -> Partial
                 [] OTHER -> data
    /\ UNCHANGED <<remote, request, upStatus, release, releases, backups, aside, rollbackMeta,
                   before, nextId>>

(* The public branch moves on.                                             *)
Publish ==
    /\ remote = "p0" /\ remote' \in Releases \ {"p0"}
    /\ UNCHANGED <<preparing, request, upStatus, release, releases, service, data, backups,
                   aside, rollbackMeta, runner, before, nextId, faults>>

-----------------------------------------------------------------------------
UpdateInit ==
    /\ remote = "p0" /\ preparing = {} /\ request = NoRequest
    /\ upStatus = Status("idle", 0, "none")
    /\ release = "p0" /\ releases = {<<"p0", "public">>} /\ service = "p0" /\ data = {0}
    /\ backups = [i \in Ids |-> Missing] /\ aside = {}
    /\ rollbackMeta = NoMeta /\ runner = NoRunner
    /\ before = [i \in Ids |-> [release |-> "p0", data |-> Missing]]
    /\ nextId = 1 /\ faults = 0

UpdateNext ==
    \/ Publish \/ QueueCheck \/ QueueApply
    \/ \E a \in {"candidate", "rollback"}, c \in CandidateReleases : QueueCandidate(a, c)
    \/ \E r \in preparing : LinkRequest(r)
    \/ TakeRequest \/ Crash
    \/ /\ runner # NoRunner
       /\ \/ Announce \/ FinishCheck \/ BeginUpdate \/ PrepareRelease \/ BackupData
          \/ SwitchCurrent \/ StartRelease \/ RecordRollback \/ Succeed \/ CheckRollback
          \/ Restore \/ MoveData \/ CopyData \/ StartPrevious \/ ReportRollback \/ StepFails

UpdateSpec == UpdateInit /\ [][UpdateNext]_updateVars

UpdateTypeOK ==
    /\ request = NoRequest \/ request.id \in Ids
    /\ upStatus.state \in ActiveStates \cup {"idle", "up_to_date", "available", "succeeded",
                                             "failed", "rolled_back"}
    /\ {release, service} \ {Down} \subseteq {r[1] : r \in releases}
    /\ rollbackMeta = NoMeta \/ rollbackMeta.previous \in {r[1] : r \in releases}
    /\ faults <= MaxUpdateFaults

(* The data d is still somewhere, as it was.                               *)
Kept(d) == d = Missing \/ d = data \/ d \in aside \/ \E i \in Ids : backups[i] = d

(* No update loses data: whatever the data was when an operation stopped   *)
(* the service, it is still in place, in a backup or set aside, at every   *)
(* later moment and through every failure, though the service may have     *)
(* written to it since.                                                    *)
DataSurvives ==
    \A i \in Ids : LET d == before[i].data
                   IN  Kept(d) \/ (d # Partial /\ d \subseteq data)

(* An operation that reports "rolled_back" has put the service back where  *)
(* the operation that it undoes found it: the release that ran before, on  *)
(* the data of that moment, to which the target never wrote.               *)
RolledBackIsUndone ==
    [][upStatus.state # "rolled_back" /\ upStatus'.state = "rolled_back"
       => LET undone == runner.copy
          IN  /\ service' = before[undone].release /\ release' = before[undone].release
              /\ data' = before[undone].data /\ undone \notin data']_updateVars
=============================================================================
