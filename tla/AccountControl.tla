----------------------------- MODULE AccountControl ----------------------------
(***************************************************************************)
(* Accounts, the Agents that own them and the credentials between gateway  *)
(* and daemons: Account Keys, Agent Tokens, Account Sessions.  Operations  *)
(* of one Account run one after the other; the file of Agent Tokens is     *)
(* shared by all and written by reading it, changing it and writing it.    *)
(*                                                                         *)
(* An operation that is refused changes nothing but the login audit, which *)
(* is left out.  A Session is known by its number.                         *)
(***************************************************************************)
EXTENDS Naturals, FiniteSets

CONSTANTS
    Accounts, Agents,   \* ids
    Paths,              \* workspaces on the daemons' host
    NoOne,              \* not an id
    MaxKeys,            \* bound: versions of an Account Key
    MaxLogins,          \* bound: Sessions ever issued
    MaxAccountFaults    \* bound: failures of the token file, restarts

ASSUME NoOneAssumption == NoOne \notin Agents \union Paths

VARIABLES
    account,        \* accounts: id -> row, or NoAccount
    agents,         \* ids of the rows of agents
    tokens,         \* Agents whose fingerprint is in agent-tokens.json
    enrolling,      \* account -> the enrolment in progress and what it has read
    session,        \* account -> its Account Session
    lease,          \* account -> Session of its running execution, or 0
    credentials,    \* Agent Tokens that were handed to a daemon
    held,           \* account -> Session whose token its daemon holds, or 0
    issued, accountFaults

accountVars == <<account, agents, tokens, enrolling, session, lease, credentials, held, issued,
                 accountFaults>>

NoAccount == [exists |-> FALSE, owner |-> NoOne, online |-> FALSE, agent |-> NoOne,
              key |-> "revoked", keyVersion |-> 0, workspace |-> NoOne]
NoEnrolment == [at |-> "none", agent |-> NoOne, read |-> {}]
NoSession   == [id |-> 0, agent |-> NoOne, keyVersion |-> 0]

SetAccount(a, row) == account' = [account EXCEPT ![a] = row]
Idle(a) == account[a].exists /\ enrolling[a] = NoEnrolment
Enrol(a, at, read) == enrolling' = [enrolling EXCEPT ![a] = [@ EXCEPT !.at = at, !.read = read]]
AccountFault == accountFaults < MaxAccountFaults /\ accountFaults' = accountFaults + 1

-----------------------------------------------------------------------------
(* Creation *)

CreateUnownedAccount(a) ==
    /\ ~account[a].exists
    /\ SetAccount(a, [NoAccount EXCEPT !.exists = TRUE, !.key = "active", !.keyVersion = 1])
    /\ UNCHANGED <<agents, tokens, enrolling, session, lease, credentials, held, issued,
                   accountFaults>>

(* createAgent: the older way makes an Agent with its Account, without key *)
(* and without token.                                                      *)
CreateAgent(a, g) ==
    /\ ~account[a].exists /\ g \notin agents
    /\ agents' = agents \cup {g}
    /\ SetAccount(a, [NoAccount EXCEPT !.exists = TRUE, !.owner = g])
    /\ UNCHANGED <<tokens, enrolling, session, lease, credentials, held, issued, accountFaults>>

(* deleteAccount: an Account with an owner stays.                          *)
DeleteAccount(a) ==
    /\ account[a].exists /\ account[a].owner \notin agents
    /\ SetAccount(a, NoAccount)
    /\ UNCHANGED <<agents, tokens, enrolling, session, lease, credentials, held, issued,
                   accountFaults>>

-----------------------------------------------------------------------------
(* Enrolment: the Agent and its ownership are there before the token file  *)
(* is read; the token is handed out once it is written.                    *)

Enroll(a, g) ==
    /\ Idle(a) /\ account[a].key = "active" /\ account[a].owner = NoOne
    /\ g \notin agents \cup credentials
    /\ agents' = agents \cup {g}
    /\ SetAccount(a, [account[a] EXCEPT !.owner = g])
    /\ enrolling' = [enrolling EXCEPT ![a] = [at |-> "issuing", agent |-> g, read |-> {}]]
    /\ UNCHANGED <<tokens, session, lease, credentials, held, issued, accountFaults>>

(* readTokens of issue and of revoke.                                      *)
ReadTokens(a) ==
    /\ enrolling[a].at \in {"issuing", "revoking"}
    /\ Enrol(a, IF enrolling[a].at = "issuing" THEN "issue" ELSE "revoke", tokens)
    /\ UNCHANGED <<account, agents, tokens, session, lease, credentials, held, issued,
                   accountFaults>>

IssueToken(a) ==
    /\ enrolling[a].at = "issue"
    /\ tokens' = enrolling[a].read \cup {enrolling[a].agent}
    /\ credentials' = credentials \cup {enrolling[a].agent}
    /\ enrolling' = [enrolling EXCEPT ![a] = NoEnrolment]
    /\ UNCHANGED <<account, agents, session, lease, held, issued, accountFaults>>

(* Mutant of Disown: the Agent is removed, the Account keeps its owner.    *)
DisownAgentOnly(a) == agents' = agents \ {enrolling[a].agent} /\ UNCHANGED account

Disown(a) ==
    /\ agents' = agents \ {enrolling[a].agent}
    /\ SetAccount(a, [account[a] EXCEPT !.owner = NoOne])

(* The token file cannot be read or written, or what follows fails after   *)
(* it was written: the Account is free again and the token is revoked.     *)
EnrollFails(a) ==
    /\ enrolling[a].at \in {"issuing", "issue"} /\ AccountFault
    /\ Disown(a)
    /\ Enrol(a, "revoking", {})
    /\ tokens' \in {tokens} \cup (IF enrolling[a].at = "issue"
                                  THEN {enrolling[a].read \cup {enrolling[a].agent}} ELSE {})
    /\ UNCHANGED <<session, lease, credentials, held, issued>>

(* credentials.revoke; its own failure is ignored.                         *)
RevokeToken(a) ==
    /\ enrolling[a].at = "revoke"
    /\ tokens' = IF enrolling[a].agent \in enrolling[a].read
                 THEN enrolling[a].read \ {enrolling[a].agent} ELSE tokens
    /\ enrolling' = [enrolling EXCEPT ![a] = NoEnrolment]
    /\ UNCHANGED <<account, agents, session, lease, credentials, held, issued, accountFaults>>

RevokeTokenFails(a) ==
    /\ enrolling[a].at \in {"revoking", "revoke"} /\ AccountFault
    /\ enrolling' = [enrolling EXCEPT ![a] = NoEnrolment]
    /\ UNCHANGED <<account, agents, tokens, session, lease, credentials, held, issued>>

-----------------------------------------------------------------------------
(* Login *)

(* authenticateAgent: the daemon's token is in the file and names an Agent *)
(* that still exists, which owns the Account.                              *)
OwnerWithToken(a) ==
    account[a].owner \in agents \cap tokens \cap credentials

(* refreshWorkspaceBinding: a first binding takes a free path, a later one *)
(* must be the same.                                                       *)
MayBind(a, w) ==
    IF account[a].workspace = NoOne
    THEN \A b \in Accounts \ {a} : account[b].workspace # w
    ELSE account[a].workspace = w

Online(a, w) ==
    SetAccount(a, [account[a] EXCEPT !.workspace = w, !.online = TRUE, !.agent = account[a].owner])

(* With the key: refused while a Session is online or a run is active.     *)
LoginWithKey(a, w) ==
    /\ Idle(a) /\ OwnerWithToken(a) /\ account[a].key = "active" /\ MayBind(a, w)
    /\ session[a] = NoSession \/ (~account[a].online /\ lease[a] = 0)
    /\ issued < MaxLogins /\ issued' = issued + 1
    /\ Online(a, w)
    /\ session' = [session EXCEPT ![a] = [id |-> issued', agent |-> account[a].owner,
                                          keyVersion |-> account[a].keyVersion]]
    /\ held' \in {held, [held EXCEPT ![a] = issued']}       \* the answer may be lost
    /\ UNCHANGED <<agents, tokens, enrolling, lease, credentials, accountFaults>>

(* sessions.authenticate                                                   *)
Authentic(a) ==
    /\ Idle(a) /\ OwnerWithToken(a)
    /\ held[a] # 0 /\ session[a].id = held[a]
    /\ session[a].keyVersion = account[a].keyVersion

Reconnect(a, w) ==
    /\ Authentic(a) /\ MayBind(a, w)
    /\ Online(a, w)
    /\ UNCHANGED <<agents, tokens, enrolling, session, lease, credentials, held, issued,
                   accountFaults>>

(* The execution lease of a run, and its end.                              *)
AuthorizeWorkspace(a) ==
    /\ Authentic(a) /\ account[a].workspace # NoOne /\ lease[a] = 0
    /\ lease' = [lease EXCEPT ![a] = session[a].id]
    /\ UNCHANGED <<account, agents, tokens, enrolling, session, credentials, held, issued,
                   accountFaults>>

EndExecution(a) ==
    /\ lease[a] # 0
    /\ lease' = [lease EXCEPT ![a] = 0]
    /\ UNCHANGED <<account, agents, tokens, enrolling, session, credentials, held, issued,
                   accountFaults>>

-----------------------------------------------------------------------------
(* The end of Sessions *)

(* Mutant of RevokeSession: the Session stays valid.                       *)
RevokePresenceOnly(a, row) ==
    /\ SetAccount(a, [row EXCEPT !.online = FALSE, !.agent = NoOne])
    /\ UNCHANGED <<session, lease>>

(* revokeAccountSessionState on the row that was just written.             *)
RevokeSession(a, row) ==
    /\ session' = [session EXCEPT ![a] = NoSession]
    /\ lease' = [lease EXCEPT ![a] = 0]
    /\ SetAccount(a, [row EXCEPT !.online = FALSE, !.agent = NoOne])

Logout(a) ==
    /\ Authentic(a)
    /\ RevokeSession(a, account[a])
    /\ held' = [held EXCEPT ![a] = 0]
    /\ UNCHANGED <<agents, tokens, enrolling, credentials, issued, accountFaults>>

(* rotateAccessKey and revokeAccessKey                                     *)
ChangeKey(a, state) ==
    /\ Idle(a) /\ account[a].keyVersion < MaxKeys
    /\ RevokeSession(a, [account[a] EXCEPT !.key = state, !.keyVersion = @ + 1])
    /\ UNCHANGED <<agents, tokens, enrolling, credentials, held, issued, accountFaults>>

(* The daemon starts again: it only kept its token.                        *)
DaemonRestarts(a) ==
    /\ held[a] # 0 /\ held' = [held EXCEPT ![a] = 0]
    /\ UNCHANGED <<account, agents, tokens, enrolling, session, lease, credentials, issued,
                   accountFaults>>

(* A restart of the gateway: Sessions and enrolments are gone, runs are    *)
(* failed and Accounts go offline.                                         *)
GatewayRestarts ==
    /\ AccountFault
    /\ enrolling' = [a \in Accounts |-> NoEnrolment]
    /\ session' = [a \in Accounts |-> NoSession]
    /\ lease' = [a \in Accounts |-> 0]
    /\ account' = [a \in Accounts |-> [account[a] EXCEPT !.online = FALSE, !.agent = NoOne]]
    /\ UNCHANGED <<agents, tokens, credentials, held, issued>>

-----------------------------------------------------------------------------
AccountInit ==
    /\ account = [a \in Accounts |-> NoAccount]
    /\ agents = {} /\ tokens = {} /\ credentials = {}
    /\ enrolling = [a \in Accounts |-> NoEnrolment]
    /\ session = [a \in Accounts |-> NoSession]
    /\ lease = [a \in Accounts |-> 0] /\ held = [a \in Accounts |-> 0]
    /\ issued = 0 /\ accountFaults = 0

AccountNext ==
    \/ \E a \in Accounts :
          \/ CreateUnownedAccount(a) \/ DeleteAccount(a)
          \/ \E g \in Agents : CreateAgent(a, g) \/ Enroll(a, g)
          \/ ReadTokens(a) \/ IssueToken(a) \/ EnrollFails(a) \/ RevokeToken(a)
          \/ RevokeTokenFails(a)
          \/ \E w \in Paths : LoginWithKey(a, w) \/ Reconnect(a, w)
          \/ AuthorizeWorkspace(a) \/ EndExecution(a) \/ Logout(a) \/ DaemonRestarts(a)
          \/ \E state \in {"active", "revoked"} : ChangeKey(a, state)
    \/ GatewayRestarts

AccountSpec == AccountInit /\ [][AccountNext]_accountVars

-----------------------------------------------------------------------------
AccountTypeOK ==
    /\ agents \subseteq Agents /\ tokens \subseteq Agents /\ credentials \subseteq Agents
    /\ \A a \in Accounts :
          /\ account[a].owner \in Agents \cup {NoOne}
          /\ account[a].keyVersion \in 0 .. MaxKeys
          /\ session[a].id \in 0 .. MaxLogins /\ held[a] \in 0 .. MaxLogins
          /\ enrolling[a].at \in {"none", "issuing", "issue", "revoking", "revoke"}

(* What the gateway shows and what it accepts agree: an Account is online  *)
(* exactly while it has a Session, of its owner and under its current key, *)
(* and an execution is only leased to that Session.                        *)
OnlineHasSession ==
    \A a \in Accounts :
       /\ account[a].online <=> session[a] # NoSession
       /\ account[a].online => /\ session[a].agent = account[a].owner
                               /\ account[a].agent = account[a].owner
                               /\ session[a].keyVersion = account[a].keyVersion
       /\ lease[a] # 0 => lease[a] = session[a].id

(* Accounts do not share a workspace or an owner, and an owner exists:     *)
(* what a refused enrolment made is gone.                                  *)
OwnershipExclusive ==
    \A a, b \in Accounts :
       /\ account[a].owner # NoOne => account[a].owner \in agents
       /\ a # b => /\ account[a].owner # account[b].owner \/ account[a].owner = NoOne
                   /\ account[a].workspace # account[b].workspace \/ account[a].workspace = NoOne

(* An Account is what it was enrolled and logged in as.                    *)
AccountsSound == OnlineHasSession /\ OwnershipExclusive
=============================================================================
