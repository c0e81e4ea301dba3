----------------------------- MODULE StoreMigrations -----------------------------
(***************************************************************************)
(* The migrations that a start of the gateway runs on a data directory of  *)
(* an older version, and crashes between the files they write.  A file is  *)
(* written at once; StoreStartup has torn files and the old single file.   *)
(*                                                                         *)
(* One Space with a seat for every Agent stands for all.  The Account of   *)
(* an Agent is named by the Agent, whose id its own is derived from; what  *)
(* the migrations do with text, times and duplicate ids is left out.       *)
(***************************************************************************)
EXTENDS Naturals, Sequences, FiniteSets

LOCAL INSTANCE SequencesExt

CONSTANTS
    Agents,         \* the Agents of the store
    ApiAgents,      \* those whose runtime is an API, the others are CLIs
    Eras,           \* versions the directory may come from, out of 0 .. 2
    Null,           \* undefined or null
    MaxReplays      \* bound: crashes and restarts

ASSUME MigrationsAssumption == ApiAgents \subseteq Agents /\ Eras \subseteq 0 .. 2

VARIABLES
    onDisk,         \* [file -> content] on disk
    loaded,         \* the same in memory
    marked,         \* files marked dirty, in that order
    unwritten,      \* files the flush in progress has still to write
    awaiting,       \* the start awaits that everything marked is written
    migrating,      \* where loadDirectoryRegularly stands
    starts          \* starts so far, which name the ids they hand out

migrationVars == <<onDisk, loaded, marked, unwritten, awaiting, migrating, starts>>

-----------------------------------------------------------------------------
(* Stores of older versions *)

NoVersion == [ctx |-> 0, fed |-> 0, model |-> 0, comm |-> 0]
OldMode(a) == IF a \in ApiAgents THEN "focused" ELSE "silent"
OldSeats == {[agent |-> a, byAgent |-> TRUE, byAccount |-> FALSE, mode |-> OldMode(a)] : a \in Agents}

(* An Account that 4.1 derived; a null runtime is `lost`.                  *)
DerivedAccount(a, runtime) ==
    [agent |-> a, form |-> "owning", runtime |-> runtime, workspace |-> FALSE, model |-> FALSE]

OldRun(a, session, account, role, parent, agentSession) ==
    [agent |-> a, session |-> session, account |-> account, role |-> role, parent |-> parent,
     agentSession |-> agentSession, root |-> Null, depth |-> Null, transport |-> FALSE]

AgentSession(n, sid, a) == [id |-> <<n, sid, a>>, session |-> sid, agent |-> a, account |-> FALSE]

(* Before Accounts, and before roles and sessions of any kind.             *)
FirstStore ==
    [agents |-> [a \in Agents |-> "legacy"], accounts |-> {},
     spaces |-> [seats |-> OldSeats, active |-> Null, fields |-> FALSE, group |-> Null],
     groups |-> FALSE, messages |-> [session |-> Null, byAccount |-> FALSE],
     runs |-> {<<"top", OldRun(a, Null, FALSE, Null, Null, Null)>> : a \in ApiAgents},
     spaceSessions |-> {}, agentSessions |-> {}, providerBindings |-> {}, apiHistories |-> {},
     sessionStates |-> {[key |-> "agent", agent |-> a] : a \in Agents \ ApiAgents},
     meta |-> NoVersion]

(* With Accounts, before sessions.                                         *)
AccountStore ==
    [FirstStore EXCEPT !.agents = [a \in Agents |-> "plain"],
                       !.accounts = {DerivedAccount(a, "known") : a \in Agents},
                       !.runs = {<<p[1], [p[2] EXCEPT !.account = TRUE]>> : p \in @},
                       !.sessionStates = {[k EXCEPT !.key = "account"] : k \in @}]

(* With sessions and subagents, before Accounts had their own identity.    *)
SessionStore ==
    LET sessions == {AgentSession(0, 0, a) : a \in Agents} IN
    [agents |-> [a \in Agents |-> "plain"],
     accounts |-> {DerivedAccount(a, "known") : a \in Agents},
     spaces |-> [seats |-> OldSeats, active |-> 0, fields |-> FALSE, group |-> Null],
     groups |-> FALSE, messages |-> [session |-> 0, byAccount |-> FALSE],
     runs |-> {<<"top", OldRun(a, 0, TRUE, "main", "null", <<0, 0, a>>)>> : a \in ApiAgents}
              \cup {<<"sub", OldRun(a, 0, TRUE, "subagent", "top", Null)>> : a \in Agents \ ApiAgents},
     spaceSessions |-> {[id |-> 0, status |-> "active"]}, agentSessions |-> sessions,
     providerBindings |-> {s.id : s \in {x \in sessions : x.agent \notin ApiAgents}},
     apiHistories |-> {s.id : s \in {x \in sessions : x.agent \in ApiAgents}},
     sessionStates |-> {}, meta |-> [NoVersion EXCEPT !.ctx = 1]]

-----------------------------------------------------------------------------
(* 4.1: connection fields of Agents go to Accounts of their own *)

Owning(d, a) == {x \in d.accounts : x.agent = a /\ x.form = "owning"}

FederationShape(d) ==
    \/ d.meta.fed = 1
    \/ \E x \in d.accounts : x.form = "owner"
    \/ \E a \in Agents : d.agents[a] = "profile"

NeedsAccounts(d) ==
    /\ ~FederationShape(d)
    /\ \/ \E a \in Agents : d.agents[a] = "legacy" \/ Owning(d, a) = {}
       \/ \E t \in d.spaces.seats : t.byAccount
       \/ \E k \in d.sessionStates : k.key = "agent"

migrateAgentAccountsAndSeats(d) ==
    [d EXCEPT !.accounts = @ \cup {DerivedAccount(a, IF d.agents[a] = "legacy" THEN "known" ELSE "lost")
                                      : a \in {b \in Agents : Owning(d, b) = {}}},
              !.agents = [a \in Agents |-> "plain"],
              !.spaces.seats = {[t EXCEPT !.byAccount = FALSE] : t \in @},
              !.sessionStates = {[k EXCEPT !.key = "account"] : k \in @}]

-----------------------------------------------------------------------------
(* P5-C1: sessions of Spaces and Agents *)

Rows(d) == {p[2] : p \in d.runs}

(* The Account of a run cannot be told.                                    *)
ContextsBlocked(d) ==
    \E r \in Rows(d) : ~r.account /\ Cardinality(Owning(d, r.agent)) # 1

NeedsContexts(d) ==
    \/ d.meta.ctx = 0 \/ d.sessionStates # {} \/ d.spaces.active = Null
    \/ d.messages.session = Null
    \/ \E r \in Rows(d) :
          \/ r.session = Null \/ r.role = Null \/ r.parent = Null \/ ~r.account
          \/ r.role # "subagent" /\ r.agentSession = Null

(* Mutant: a start that replays the migration hands out an id of its own.  *)
SpaceSessionOfStart(d, n) == n

(* ensureSpaceSession: the id the Space points to, of a session that may   *)
(* not have reached the disk, or the active session, or a new one.          *)
EnsuredSpaceSession(d, n) ==
    LET active == {s \in d.spaceSessions : s.status = "active"} IN
    IF d.spaces.active # Null THEN d.spaces.active
    ELSE IF active # {} THEN (CHOOSE s \in active : TRUE).id ELSE n

SessionsOf(d, sid, a) == {s \in d.agentSessions : s.session = sid /\ s.agent = a}

(* ensureAgentSession, for the Agents that seats and runs name; the seat   *)
(* of an Account names none.                                               *)
EnsuredAgents(d) ==
    {IF t.byAgent THEN t.agent ELSE Null : t \in d.spaces.seats}
    \cup {r.agent : r \in {x \in Rows(d) : x.role # "subagent"}}

WithContext(r, sid, sessions) ==
    [r EXCEPT !.session = IF @ = Null THEN sid ELSE @,
              !.role    = IF @ = Null THEN "main" ELSE @,
              !.parent  = IF @ = Null THEN "null" ELSE @,
              !.account = TRUE,
              !.agentSession =
                  CASE r.role = "subagent" -> Null
                    [] r.role # "subagent" /\ @ # Null -> @
                    [] OTHER -> (CHOOSE s \in sessions : s.session = sid /\ s.agent = r.agent).id]

(* The provider states of CLIs become bindings, completed runs of APIs     *)
(* whose messages are all there become turns of a history.                 *)
BoundSessions(d, sid, sessions) ==
    {s.id : s \in {x \in sessions : /\ x.session = sid
                                    /\ \E k \in d.sessionStates : k.key = "account" /\ k.agent = x.agent
                                    /\ \E c \in Owning(d, x.agent) : x.agent \notin ApiAgents /\ c.runtime = "known"
                                    /\ \E t \in d.spaces.seats : t.byAgent /\ t.agent = x.agent}}

RebuiltHistories(d, sid, sessions) ==
    {s.id : s \in {x \in sessions : /\ x.session = sid
                                    /\ \E c \in Owning(d, x.agent) : x.agent \in ApiAgents /\ c.runtime = "known"
                                    /\ \E r \in Rows(d) : r.agent = x.agent /\ r.session \in {Null, sid}}}

migrateContextSessions(d, n) ==
    LET sid   == EnsuredSpaceSession(d, n)
        kept  == {s \in d.spaceSessions : s.id # sid}
        fresh == {AgentSession(n, sid, a) : a \in {b \in EnsuredAgents(d) : SessionsOf(d, sid, b) = {}}}
        all   == d.agentSessions \cup fresh
    IN  [d EXCEPT !.spaces.active = sid,
                  !.spaceSessions = {[s EXCEPT !.status = "archived"] : s \in kept}
                                    \cup {[id |-> sid, status |-> "active"]},
                  !.agentSessions = all,
                  !.messages.session = IF @ = Null THEN sid ELSE @,
                  !.runs = {<<p[1], WithContext(p[2], sid, all)>> : p \in @},
                  !.providerBindings = @ \cup BoundSessions(d, sid, all),
                  !.apiHistories = @ \cup RebuiltHistories(d, sid, all),
                  !.sessionStates = {},
                  !.meta.ctx = 1]

ContextFiles == <<"spaces", "messages", "runs", "spaceSessions", "agentSessions",
                  "providerBindings", "apiHistories", "meta">>

-----------------------------------------------------------------------------
(* 5.5: the runtime goes back to the Agent, everything else names Accounts *)

NeedsFederation(d) == d.meta.fed = 0

(* fail, anywhere in buildPlan.                                            *)
FederationBlocked(d) ==
    \/ \E a \in Agents :
          \/ Cardinality({x \in d.accounts : x.agent = a}) # 1
          \/ d.agents[a] # "profile" /\ \A x \in d.accounts : x.agent = a => x.runtime # "known"
          \/ \E x \in d.accounts : x.agent = a /\ x.runtime = "lost"
    \/ \E s \in d.agentSessions : s.agent = Null
    \/ \E s, t \in d.agentSessions : s # t /\ s.session = t.session /\ s.agent = t.agent

FederatedAccounts(d) ==
    {[agent |-> x.agent, form |-> "owner", runtime |-> "moved", workspace |-> TRUE, model |-> FALSE]
        : x \in d.accounts}

buildPlan(d) ==
    [d EXCEPT !.agents   = [a \in Agents |-> "profile"],
              !.accounts = FederatedAccounts(d),
              !.spaces.seats   = {[t EXCEPT !.byAgent = FALSE, !.byAccount = TRUE] : t \in @},
              !.agentSessions  = {[s EXCEPT !.account = TRUE] : s \in @},
              !.runs           = {<<p[1], [p[2] EXCEPT !.account = TRUE]>> : p \in @},
              !.messages.byAccount = TRUE,
              !.meta.fed = 1]

FederationFiles == <<"agents", "accounts", "spaces", "agentSessions", "runs", "messages">>

-----------------------------------------------------------------------------
(* Later: the model of an Account, and how Agents talk to each other *)

planAccountModelSelection(d) ==
    [d EXCEPT !.accounts = {[x EXCEPT !.model = TRUE] : x \in @}, !.meta.model = 1]

RenamedMode(mode) == IF mode = "silent" THEN "focused" ELSE IF mode = "focused" THEN "mentioned" ELSE mode
RenamedRole(role) == IF role = "main" THEN "root" ELSE IF role = "subagent" THEN "child" ELSE role

NeedsCommunication(d) == d.meta.comm = 0

(* A mode that nobody had before the migration is unknown to it.           *)
CommunicationBlocked(d) == \E t \in d.spaces.seats : t.mode = "mentioned"

(* A child is one below its parent: older stores have no deeper trees.     *)
InTree(p) ==
    LET role == RenamedRole(p[2].role) IN
    [p[2] EXCEPT !.role = role,
                 !.root = IF role = "root" THEN p[1] ELSE p[2].parent,
                 !.depth = IF role = "root" THEN 0 ELSE 1]

planAgentCommunicationMigration(d) ==
    [d EXCEPT !.spaces.seats = {[t EXCEPT !.mode = RenamedMode(@)] : t \in @},
              !.runs = {<<p[1], InTree(p)>> : p \in @},
              !.meta.comm = 1]

-----------------------------------------------------------------------------
(* Fields that every start fills in *)

WithTransport(d) == [d EXCEPT !.runs = {<<p[1], [p[2] EXCEPT !.transport = TRUE]>> : p \in @}]

(* A Space with several Accounts gets the Group of these Accounts.         *)
Grouped(d) ==
    IF Cardinality(Agents) < 2 THEN [d EXCEPT !.spaces.group = "direct"]
    ELSE [d EXCEPT !.spaces.group = "grouped", !.groups = TRUE]

(* Its Group is missing.                                                   *)
GroupBlocked(d) == d.spaces.group = "grouped" /\ ~d.groups

-----------------------------------------------------------------------------
(* Writing *)

(* dirty is a Set, which keeps the order of insertion.                     *)
Marked(files, more) == files \o SelectSeq(more, LAMBDA f : f \notin ToSet(files))

AllWritten == marked = << >> /\ unwritten = << >>

(* doFlush, by the timer or for a start that awaits it: meta comes last.   *)
FlushMarked ==
    /\ marked # << >> /\ unwritten = << >>
    /\ unwritten' = SelectSeq(marked, LAMBDA f : f # "meta") \o SelectSeq(marked, LAMBDA f : f = "meta")
    /\ marked' = << >>
    /\ UNCHANGED <<onDisk, loaded, awaiting, migrating, starts>>

WriteMarked ==
    /\ unwritten # << >>
    /\ onDisk' = [onDisk EXCEPT ![Head(unwritten)] = loaded[Head(unwritten)]]
    /\ unwritten' = Tail(unwritten)
    /\ UNCHANGED <<loaded, marked, awaiting, migrating, starts>>

-----------------------------------------------------------------------------
(* A start *)

(* preflightFinalFederationShape: the migrations are rehearsed on a copy.  *)
Refused(d) ==
    LET withAccounts == IF NeedsAccounts(d) THEN migrateAgentAccountsAndSeats(d) ELSE d
        withContexts == IF NeedsContexts(withAccounts) THEN migrateContextSessions(withAccounts, starts)
                        ELSE withAccounts
    IN  \/ NeedsContexts(withAccounts) /\ ContextsBlocked(withAccounts)
        \/ NeedsFederation(withContexts) /\ FederationBlocked(withContexts)
        \/ NeedsCommunication(withContexts) /\ CommunicationBlocked(withContexts)

WithWorkspace(x) == [x EXCEPT !.workspace = TRUE]

LoadStore ==
    /\ migrating = "down"
    /\ IF Refused(onDisk)
       THEN migrating' = "refused" /\ UNCHANGED <<loaded, marked>>
       ELSE /\ migrating' = "accounts"
            /\ loaded' = [onDisk EXCEPT !.accounts = {WithWorkspace(x) : x \in @}]
            /\ marked' = IF \E x \in onDisk.accounts : ~x.workspace THEN <<"accounts">> ELSE << >>
    /\ UNCHANGED <<onDisk, unwritten, awaiting, starts>>

(* A migration that is needed is followed by a flush that the start awaits.*)
Phase(here, needed, migrated, files, next) ==
    /\ migrating = here /\ migrating' = next
    /\ awaiting => AllWritten
    /\ IF needed
       THEN loaded' = migrated /\ marked' = Marked(marked, files) /\ awaiting' = TRUE
       ELSE UNCHANGED <<loaded, marked, awaiting>>
    /\ UNCHANGED <<onDisk, unwritten, starts>>

MigrateAccounts ==
    Phase("accounts", NeedsAccounts(loaded), migrateAgentAccountsAndSeats(loaded),
          <<"agents", "accounts", "spaces">>, "contexts")

MigrateContexts ==
    Phase("contexts", NeedsContexts(loaded), migrateContextSessions(loaded, starts),
          ContextFiles, "federation")

MigrateFederation ==
    LET next == buildPlan(loaded) IN
    Phase("federation", NeedsFederation(loaded), next,
          SelectSeq(FederationFiles, LAMBDA f : next[f] # loaded[f]) \o <<"meta">>, "model")

MigrateModel ==
    Phase("model", loaded.meta.model = 0, planAccountModelSelection(loaded),
          <<"accounts", "meta">>, "communication")

MigrateCommunication ==
    Phase("communication", NeedsCommunication(loaded), planAgentCommunicationMigration(loaded),
          <<"spaces", "runs", "meta">>, "normalize")

(* The fields of Spaces are marked before the Group they belong to.        *)
Normalize ==
    LET runsOld   == \E r \in Rows(loaded) : ~r.transport
        fieldsOld == ~loaded.spaces.fields
        groupOld  == loaded.spaces.group = Null
        filled    == [WithTransport(loaded) EXCEPT !.spaces.fields = TRUE]
    IN  /\ migrating = "normalize"
        /\ awaiting => AllWritten
        /\ IF GroupBlocked(loaded)
           THEN /\ migrating' = "refused"
                /\ marked' = << >> /\ unwritten' = << >>
                /\ UNCHANGED <<loaded, awaiting>>
           ELSE /\ migrating' = "retire"
                /\ loaded' = IF groupOld THEN Grouped(filled) ELSE filled
                /\ marked' = Marked(marked,
                       (IF runsOld THEN <<"runs">> ELSE << >>)
                       \o (IF fieldsOld THEN <<"spaces">> ELSE << >>)
                       \o (IF groupOld /\ loaded'.groups # loaded.groups THEN <<"groups", "meta">> ELSE << >>)
                       \o (IF groupOld /\ ~fieldsOld THEN <<"spaces">> ELSE << >>))
                /\ awaiting' = (runsOld \/ fieldsOld \/ groupOld \/ "accounts" \in ToSet(marked))
                /\ UNCHANGED unwritten
        /\ UNCHANGED <<onDisk, starts>>

(* The old file of session states goes last, before the last flush.        *)
Retire ==
    /\ migrating = "retire" /\ migrating' = "flush"
    /\ onDisk' = [onDisk EXCEPT !.sessionStates = {}]
    /\ loaded' = [loaded EXCEPT !.sessionStates = {}]
    /\ UNCHANGED <<marked, unwritten, awaiting, starts>>

Started ==
    /\ migrating = "flush" /\ migrating' = "up"
    /\ awaiting => AllWritten
    /\ awaiting' = FALSE
    /\ UNCHANGED <<onDisk, loaded, marked, unwritten, starts>>

(* The process dies, and is started again.                                 *)
CrashMigration ==
    /\ migrating \notin {"down", "refused"}
    /\ starts < MaxReplays /\ starts' = starts + 1
    /\ migrating' = "down"
    /\ marked' = << >> /\ unwritten' = << >> /\ awaiting' = FALSE
    /\ loaded' = onDisk
    /\ UNCHANGED onDisk

MigrationsInit ==
    /\ \E era \in Eras : onDisk = CASE era = 0 -> FirstStore [] era = 1 -> AccountStore [] era = 2 -> SessionStore
    /\ loaded = onDisk
    /\ marked = << >> /\ unwritten = << >> /\ awaiting = FALSE
    /\ migrating = "down" /\ starts = 1

MigrationsNext ==
    \/ LoadStore \/ MigrateAccounts \/ MigrateContexts \/ MigrateFederation \/ MigrateModel
    \/ MigrateCommunication \/ Normalize \/ Retire \/ Started
    \/ FlushMarked \/ WriteMarked \/ CrashMigration

MigrationsSpec == MigrationsInit /\ [][MigrationsNext]_migrationVars

-----------------------------------------------------------------------------
(* Properties *)

OwnersSound(d) ==
    \A a \in Agents :
        /\ d.agents[a] = "profile"
        /\ \E x \in d.accounts : /\ {y \in d.accounts : y.agent = a} = {x}
                                 /\ x.form = "owner" /\ x.workspace /\ x.model

SpacesSound(d) ==
    /\ \A t \in d.spaces.seats : t.byAccount /\ ~t.byAgent /\ t.mode # "silent"
    /\ d.spaces.fields /\ d.spaces.group # Null /\ ~GroupBlocked(d)
    /\ {s \in d.spaceSessions : s.status = "active"} = {[id |-> d.spaces.active, status |-> "active"]}

(* What is said and done in a Space belongs to sessions of it.             *)
SessionsKnown(d) ==
    LET known == {s.id : s \in d.spaceSessions} IN
    d.messages.session \in known /\ \A r \in Rows(d) : r.session \in known

HistorySound(d) ==
    /\ d.messages.byAccount
    /\ \A p \in d.runs :
          /\ p[2].account /\ p[2].transport
          /\ \/ p[2].role = "root"  /\ p[2].root = p[1] /\ p[2].depth = 0
             \/ p[2].role = "child" /\ p[2].root = p[2].parent /\ p[2].depth = 1

(* However often the gateway died among the files of its migrations: a     *)
(* start that has migrated the contexts knows the sessions its history     *)
(* belongs to, and one that succeeds has a store whose Agents own one      *)
(* Account each, whose Space has one active session, and whose runs form   *)
(* trees; and once it is written, this is what the disk has.               *)
MigratedSound ==
    /\ migrating \notin {"down", "refused", "accounts", "contexts"} => SessionsKnown(loaded)
    /\ migrating = "up" =>
          /\ OwnersSound(loaded) /\ SpacesSound(loaded) /\ HistorySound(loaded)
          /\ AllWritten => onDisk = loaded
=============================================================================
