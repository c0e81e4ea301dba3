---------------------------- MODULE PlatformProofs ----------------------------
(***************************************************************************)
(* Proofs about the parts of the gateway that requests change: Accounts    *)
(* with their owners and Sessions, the directory of Groups, Projects and   *)
(* Spaces, and the updates of the gateway itself.                          *)
(***************************************************************************)
EXTENDS AccountControl, SpaceDirectory, GatewayUpdate, FiniteSetTheorems, SequenceTheorems, TLAPS

-----------------------------------------------------------------------------
(* Accounts and their Sessions *)

Rows == [exists : BOOLEAN, owner : Agents \union {NoOne}, online : BOOLEAN,
         agent : Agents \union {NoOne}, key : {"active", "revoked"}, keyVersion : Nat,
         workspace : Paths \union {NoOne}]

Sessions == [id : Nat, agent : Agents \union {NoOne}, keyVersion : Nat]

Enrolments == [at : {"none", "issuing", "issue", "revoking", "revoke"},
               agent : Agents \union {NoOne}, read : SUBSET Agents]

AccountTypes ==
    /\ account \in [Accounts -> Rows]
    /\ agents \subseteq Agents /\ tokens \subseteq Agents /\ credentials \subseteq Agents
    /\ enrolling \in [Accounts -> Enrolments]
    /\ session \in [Accounts -> Sessions]
    /\ lease \in [Accounts -> Nat] /\ held \in [Accounts -> Nat]
    /\ issued \in Nat

(* Nothing is left of an Account that was deleted or never created.        *)
AbsentIsBlank == \A a \in Accounts : ~account[a].exists => account[a] = NoAccount

(* An Account is owned while it is online, and so cannot be deleted.       *)
OnlineIsOwned == \A a \in Accounts : account[a].online => account[a].owner # NoOne

(* While an Agent Token is being issued, the Account that is enrolled has  *)
(* its new owner and no Session: the owner can be taken back.              *)
EnrolledIsOffline ==
    \A a \in Accounts : enrolling[a].at \in {"issuing", "issue"} =>
        /\ account[a].exists /\ account[a].owner = enrolling[a].agent
        /\ enrolling[a].agent # NoOne
        /\ ~account[a].online

AccountInv ==
    /\ AccountTypes /\ AbsentIsBlank /\ OnlineIsOwned /\ EnrolledIsOffline
    /\ OnlineHasSession /\ OwnershipExclusive

USE NoOneAssumption DEF Rows, Sessions, Enrolments, NoAccount, NoEnrolment, NoSession

-----------------------------------------------------------------------------
(* Ending a Session leaves the row of an Account that is not there.        *)
LEMMA BlankStaysBlank == [NoAccount EXCEPT !.online = FALSE, !.agent = NoOne] = NoAccount
<1> DEFINE f == [NoAccount EXCEPT !.online = FALSE, !.agent = NoOne]
<1>1. DOMAIN f = DOMAIN NoAccount
  OBVIOUS
<1>2. ASSUME NEW x \in DOMAIN NoAccount PROVE f[x] = NoAccount[x]
  <2>1. DOMAIN NoAccount = {"exists", "owner", "online", "agent", "key", "keyVersion", "workspace"}
    OBVIOUS
  <2>2. /\ f["online"] = NoAccount["online"] /\ f["agent"] = NoAccount["agent"]
        /\ f["exists"] = NoAccount["exists"] /\ f["owner"] = NoAccount["owner"]
        /\ f["key"] = NoAccount["key"] /\ f["keyVersion"] = NoAccount["keyVersion"]
        /\ f["workspace"] = NoAccount["workspace"]
    OBVIOUS
  <2> HIDE DEF f, NoAccount
  <2>3. QED
    BY <2>1, <2>2
<1>3. f \in Rows /\ NoAccount \in Rows
  OBVIOUS
<1>4. QED
  BY <1>1, <1>2, <1>3

(* Steps that leave the rows of Accounts, Sessions, leases and Agents as   *)
(* they are cannot disturb what the invariant says of them.                *)
LEMMA QuietStep ==
    ASSUME AccountInv, AccountTypes', EnrolledIsOffline',
           UNCHANGED <<account, agents, session, lease>>
    PROVE  AccountInv'
BY DEF AccountInv, AbsentIsBlank, OnlineIsOwned, OnlineHasSession, OwnershipExclusive

(* The end of a Session leaves the Account offline and its owner alone.    *)
LEMMA RevokedStep ==
    ASSUME AccountInv, NEW a \in Accounts, NEW row \in Rows,
           row.exists = account[a].exists, row.owner = account[a].owner,
           row.workspace = account[a].workspace, ~row.exists => row = NoAccount,
           RevokeSession(a, row), UNCHANGED <<agents, tokens, enrolling, credentials, issued>>,
           held' \in [Accounts -> Nat]
    PROVE  AccountInv'
<1>1. /\ account' = [account EXCEPT ![a] = [row EXCEPT !.online = FALSE, !.agent = NoOne]]
      /\ session' = [session EXCEPT ![a] = NoSession]
      /\ lease' = [lease EXCEPT ![a] = 0]
  BY DEF RevokeSession, SetAccount
<1>2. AccountTypes'
  BY <1>1 DEF AccountInv, AccountTypes
<1>3. \A b \in Accounts : b # a => /\ account'[b] = account[b] /\ session'[b] = session[b]
                                   /\ lease'[b] = lease[b]
  BY <1>1 DEF AccountInv, AccountTypes
<1>4. /\ account'[a].exists = account[a].exists /\ account'[a].owner = account[a].owner
      /\ account'[a].workspace = account[a].workspace
      /\ account'[a].online = FALSE
      /\ session'[a] = NoSession /\ lease'[a] = 0
  BY <1>1 DEF AccountInv, AccountTypes
<1>10. ~account'[a].exists => account'[a] = NoAccount
  <2>1. account'[a] = [row EXCEPT !.online = FALSE, !.agent = NoOne]
    BY <1>1 DEF AccountInv, AccountTypes
  <2>3. CASE row = NoAccount
    BY <2>1, <2>3, BlankStaysBlank
  <2>4. CASE row.exists
    BY <1>4, <2>4
  <2>5. QED
    BY <2>3, <2>4
<1>5. AbsentIsBlank' /\ OnlineIsOwned'
  BY <1>3, <1>4, <1>10 DEF AccountInv, AbsentIsBlank, OnlineIsOwned
<1>6. EnrolledIsOffline'
  BY <1>3, <1>4 DEF AccountInv, EnrolledIsOffline
<1>7. OnlineHasSession'
  BY <1>3, <1>4 DEF AccountInv, OnlineHasSession
<1>8. OwnershipExclusive'
  <2>1. \A b \in Accounts : account'[b].owner = account[b].owner
                            /\ account'[b].workspace = account[b].workspace
    BY <1>3, <1>4
  <2>2. QED
    BY <2>1 DEF AccountInv, OwnershipExclusive
<1>9. QED
  BY <1>2, <1>5, <1>6, <1>7, <1>8 DEF AccountInv

(* An Account without Session goes from one row to another, and its new    *)
(* owner, if it has one, is an Agent that owns nothing else.               *)
LEMMA RowStep ==
    ASSUME AccountInv, NEW a \in Accounts, NEW row \in Rows, SetAccount(a, row),
           ~account[a].online, ~row.online, ~row.exists => row = NoAccount,
           row.workspace \in {account[a].workspace, NoOne},
           agents' \subseteq Agents,
           row.owner # NoOne => row.owner \in agents',
           \A b \in Accounts \ {a} : account[b].owner # NoOne =>
               account[b].owner # row.owner /\ account[b].owner \in agents',
           tokens' \subseteq Agents, enrolling' \in [Accounts -> Enrolments],
           \A b \in Accounts \ {a} : enrolling'[b] = enrolling[b],
           enrolling'[a].at \in {"issuing", "issue"} =>
               row.exists /\ row.owner = enrolling'[a].agent /\ row.owner # NoOne,
           UNCHANGED <<session, lease, credentials, held, issued>>
    PROVE  AccountInv'
<1>1. /\ account' = [account EXCEPT ![a] = row]
      /\ \A b \in Accounts \ {a} : account'[b] = account[b]
      /\ account'[a] = row
  BY DEF SetAccount, AccountInv, AccountTypes
<1>2. AccountTypes'
  BY <1>1 DEF AccountInv, AccountTypes
<1>3. AbsentIsBlank' /\ OnlineIsOwned'
  BY <1>1 DEF AccountInv, AbsentIsBlank, OnlineIsOwned
<1>4. EnrolledIsOffline'
  BY <1>1 DEF AccountInv, EnrolledIsOffline
<1>5. OnlineHasSession'
  BY <1>1 DEF AccountInv, OnlineHasSession
<1>6. OwnershipExclusive'
  BY <1>1 DEF AccountInv, OwnershipExclusive
<1>7. QED
  BY <1>2, <1>3, <1>4, <1>5, <1>6 DEF AccountInv

-----------------------------------------------------------------------------
(* Accounts and Agents are made and deleted *)

LEMMA CreateUnownedAccountInv ==
    ASSUME AccountInv, NEW a \in Accounts, CreateUnownedAccount(a)
    PROVE  AccountInv'
<1> DEFINE row == [NoAccount EXCEPT !.exists = TRUE, !.key = "active", !.keyVersion = 1]
<1>1. /\ row \in Rows /\ row.exists /\ ~row.online
      /\ row.owner = NoOne /\ row.workspace = NoOne
  OBVIOUS
<1>2. ~account[a].online /\ enrolling[a].at \notin {"issuing", "issue"}
  BY DEF CreateUnownedAccount, AccountInv, AbsentIsBlank, EnrolledIsOffline
<1>3. SetAccount(a, row)
  BY DEF CreateUnownedAccount
<1> HIDE DEF row
<1>4. \A b \in Accounts : account[b].owner # NoOne => account[b].owner \in agents
  BY DEF AccountInv, OwnershipExclusive
<1>5. agents \subseteq Agents /\ tokens \subseteq Agents /\ enrolling \in [Accounts -> Enrolments]
  BY DEF AccountInv, AccountTypes
<1>6. UNCHANGED <<agents, tokens, enrolling, session, lease, credentials, held, issued>>
  BY DEF CreateUnownedAccount
<1>7. QED
  BY <1>1, <1>2, <1>3, <1>4, <1>5, <1>6, RowStep

LEMMA CreateAgentInv ==
    ASSUME AccountInv, NEW a \in Accounts, NEW g \in Agents, CreateAgent(a, g)
    PROVE  AccountInv'
<1> DEFINE row == [NoAccount EXCEPT !.exists = TRUE, !.owner = g]
<1>1. /\ row \in Rows /\ row.exists /\ ~row.online
      /\ row.owner = g /\ row.workspace = NoOne
  OBVIOUS
<1>2. ~account[a].online /\ enrolling[a].at \notin {"issuing", "issue"}
  BY DEF CreateAgent, AccountInv, AbsentIsBlank, EnrolledIsOffline
<1>3. SetAccount(a, row) /\ agents' = agents \union {g} /\ g \notin agents
  BY DEF CreateAgent
<1> HIDE DEF row
<1>4. \A b \in Accounts : account[b].owner # NoOne => account[b].owner \in agents
  BY DEF AccountInv, OwnershipExclusive
<1>5. agents \subseteq Agents /\ tokens \subseteq Agents /\ enrolling \in [Accounts -> Enrolments]
  BY DEF AccountInv, AccountTypes
<1>6. UNCHANGED <<tokens, enrolling, session, lease, credentials, held, issued>>
  BY DEF CreateAgent
<1>7. QED
  BY <1>1, <1>2, <1>3, <1>4, <1>5, <1>6, RowStep

LEMMA DeleteAccountInv ==
    ASSUME AccountInv, NEW a \in Accounts, DeleteAccount(a)
    PROVE  AccountInv'
<1>1. /\ NoAccount \in Rows /\ ~NoAccount.online /\ ~NoAccount.exists
      /\ NoAccount.owner = NoOne /\ NoAccount.workspace = NoOne
  OBVIOUS
<1>2. \A b \in Accounts : account[b].owner # NoOne => account[b].owner \in agents
  BY DEF AccountInv, OwnershipExclusive
<1>3. account[a].owner = NoOne
  BY <1>2 DEF DeleteAccount
<1>4. ~account[a].online /\ enrolling[a].at \notin {"issuing", "issue"}
  BY <1>3 DEF AccountInv, OnlineIsOwned, EnrolledIsOffline
<1>5. agents \subseteq Agents /\ tokens \subseteq Agents /\ enrolling \in [Accounts -> Enrolments]
  BY DEF AccountInv, AccountTypes
<1>6. /\ SetAccount(a, NoAccount)
      /\ UNCHANGED <<agents, tokens, enrolling, session, lease, credentials, held, issued>>
  BY DEF DeleteAccount
<1> HIDE DEF NoAccount
<1>7. QED
  BY <1>1, <1>2, <1>4, <1>5, <1>6, RowStep

-----------------------------------------------------------------------------
(* Enrolment *)

LEMMA EnrollInv ==
    ASSUME AccountInv, NEW a \in Accounts, NEW g \in Agents, Enroll(a, g)
    PROVE  AccountInv'
<1> DEFINE row == [account[a] EXCEPT !.owner = g]
<1>1. account[a] \in Rows
  BY DEF AccountInv, AccountTypes
<1>2. /\ row \in Rows /\ row.owner = g /\ row.exists = account[a].exists
      /\ row.online = account[a].online /\ row.workspace = account[a].workspace
  BY <1>1
<1>3. account[a].exists /\ ~account[a].online
  BY DEF Enroll, Idle, AccountInv, OnlineIsOwned
<1>4. /\ SetAccount(a, row) /\ agents' = agents \union {g} /\ g \notin agents
      /\ enrolling' = [enrolling EXCEPT ![a] = [at |-> "issuing", agent |-> g, read |-> {}]]
  BY DEF Enroll
<1> HIDE DEF row
<1>5. \A b \in Accounts : account[b].owner # NoOne => account[b].owner \in agents
  BY DEF AccountInv, OwnershipExclusive
<1>6. agents \subseteq Agents /\ tokens \subseteq Agents /\ enrolling \in [Accounts -> Enrolments]
  BY DEF AccountInv, AccountTypes
<1>7. UNCHANGED <<tokens, session, lease, credentials, held, issued>>
  BY DEF Enroll
<1>8. /\ enrolling' \in [Accounts -> Enrolments] /\ enrolling'[a].agent = g
      /\ \A b \in Accounts \ {a} : enrolling'[b] = enrolling[b]
  BY <1>4, <1>6
<1>9. /\ agents' \subseteq Agents /\ row.owner \in agents' /\ row.owner # NoOne
      /\ tokens' \subseteq Agents
  BY <1>2, <1>4, <1>6, <1>7, NoOneAssumption
<1>10. \A b \in Accounts \ {a} : account[b].owner # NoOne =>
          account[b].owner # row.owner /\ account[b].owner \in agents'
  BY <1>2, <1>4, <1>5
<1>11. ~account[a].online /\ ~row.online /\ row.exists
  BY <1>2, <1>3
<1>12. QED
  BY <1>2, <1>4, <1>7, <1>8, <1>9, <1>10, <1>11, RowStep

(* The steps on the file of Agent Tokens touch no Account.                 *)
LEMMA TokenStepInv ==
    ASSUME AccountInv, NEW a \in Accounts,
           ReadTokens(a) \/ IssueToken(a) \/ RevokeToken(a) \/ RevokeTokenFails(a)
    PROVE  AccountInv'
<1> USE DEF AccountInv
<1>1. /\ UNCHANGED <<account, agents, session, lease, held, issued>>
      /\ \E e \in Enrolments :
            /\ enrolling' = [enrolling EXCEPT ![a] = e]
            /\ e.at \in {"issuing", "issue"} =>
                  enrolling[a].at \in {"issuing", "issue"} /\ e.agent = enrolling[a].agent
  <2>1. CASE ReadTokens(a)
    <3>1. PICK old \in Enrolments : old = enrolling[a]
      BY DEF AccountTypes
    <3>2. PICK at : at = IF old.at = "issuing" THEN "issue" ELSE "revoke"
      OBVIOUS
    <3>3. PICK e : e = [old EXCEPT !.at = at, !.read = tokens]
      OBVIOUS
    <3>4. e = [at |-> at, agent |-> old.agent, read |-> tokens]
      BY <3>3 DEF Enrolments
    <3>5. /\ e \in Enrolments /\ e.agent = old.agent
          /\ e.at \in {"issuing", "issue"} => old.at \in {"issuing", "issue"}
      BY <3>1, <3>2, <3>4 DEF Enrolments, AccountTypes
    <3>6. enrolling' = [enrolling EXCEPT ![a] = e]
      BY <2>1, <3>1, <3>2, <3>3 DEF ReadTokens, Enrol
    <3>7. UNCHANGED <<account, agents, session, lease, held, issued>>
      BY <2>1 DEF ReadTokens
    <3>8. QED
      BY <3>1, <3>5, <3>6, <3>7
  <2>2. CASE IssueToken(a) \/ RevokeToken(a) \/ RevokeTokenFails(a)
    BY <2>2 DEF IssueToken, RevokeToken, RevokeTokenFails
  <2>3. QED
    BY <2>1, <2>2
<1>2. tokens' \subseteq Agents /\ credentials' \subseteq Agents
  <2>1. CASE ReadTokens(a)
    BY <2>1 DEF ReadTokens, AccountTypes
  <2>2. CASE IssueToken(a)
    BY <2>2 DEF IssueToken, AccountTypes, EnrolledIsOffline
  <2>3. CASE RevokeToken(a)
    BY <2>3 DEF RevokeToken, AccountTypes
  <2>4. CASE RevokeTokenFails(a)
    BY <2>4 DEF RevokeTokenFails, AccountTypes
  <2>5. QED
    BY <2>1, <2>2, <2>3, <2>4
<1>3. AccountTypes'
  BY <1>1, <1>2 DEF AccountTypes
<1>4. EnrolledIsOffline'
  BY <1>1 DEF AccountTypes, EnrolledIsOffline
<1>5. QED
  BY <1>1, <1>3, <1>4, QuietStep

LEMMA EnrollFailsInv ==
    ASSUME AccountInv, NEW a \in Accounts, EnrollFails(a)
    PROVE  AccountInv'
<1> DEFINE row == [account[a] EXCEPT !.owner = NoOne]
           e == [enrolling[a] EXCEPT !.at = "revoking", !.read = {}]
           g == enrolling[a].agent
<1>1. account[a] \in Rows /\ enrolling[a] \in Enrolments
  BY DEF AccountInv, AccountTypes
<1>2. /\ row \in Rows /\ row.owner = NoOne /\ row.exists = account[a].exists
      /\ row.online = account[a].online /\ row.workspace = account[a].workspace
  BY <1>1
<1>3. e \in Enrolments /\ e.at = "revoking"
  BY <1>1
<1>4. account[a].exists /\ ~account[a].online /\ account[a].owner = g /\ g \in Agents
  BY <1>1 DEF EnrollFails, AccountInv, EnrolledIsOffline
<1>5. /\ SetAccount(a, row) /\ agents' = agents \ {g}
      /\ enrolling' = [enrolling EXCEPT ![a] = e]
      /\ tokens' \in {tokens} \union {enrolling[a].read \union {g}}
      /\ UNCHANGED <<session, lease, credentials, held, issued>>
  BY DEF EnrollFails, Disown, Enrol
<1>6. agents \subseteq Agents /\ tokens \subseteq Agents /\ enrolling \in [Accounts -> Enrolments]
  BY DEF AccountInv, AccountTypes
<1>7. tokens' \subseteq Agents
  BY <1>1, <1>4, <1>5, <1>6
<1>8. \A b \in Accounts \ {a} : account[b].owner # NoOne =>
          account[b].owner # NoOne /\ account[b].owner \in agents \ {g}
  BY <1>4 DEF AccountInv, OwnershipExclusive
<1> HIDE DEF row, e, g
<1>9. /\ enrolling' \in [Accounts -> Enrolments] /\ enrolling'[a] = e
      /\ \A b \in Accounts \ {a} : enrolling'[b] = enrolling[b]
  BY <1>3, <1>5, <1>6
<1>10. QED
  BY <1>2, <1>3, <1>4, <1>5, <1>6, <1>7, <1>8, <1>9, RowStep

-----------------------------------------------------------------------------
(* Sessions *)

(* A login or a reconnect shows the Account online under its owner.        *)
LEMMA OnlineStep ==
    ASSUME AccountInv, NEW a \in Accounts, NEW w \in Paths, Idle(a), OwnerWithToken(a),
           MayBind(a, w), Online(a, w),
           NEW s \in Sessions, s # NoSession, session' = [session EXCEPT ![a] = s],
           s.agent = account[a].owner, s.keyVersion = account[a].keyVersion,
           lease[a] \in {0, s.id},
           UNCHANGED <<agents, tokens, enrolling, lease, credentials>>,
           held' \in [Accounts -> Nat], issued' \in Nat
    PROVE  AccountInv'
<1> DEFINE row == [account[a] EXCEPT !.workspace = w, !.online = TRUE, !.agent = account[a].owner]
<1>1. account[a] \in Rows
  BY DEF AccountInv, AccountTypes
<1>2. /\ row \in Rows /\ row.owner = account[a].owner /\ row.exists = account[a].exists
      /\ row.online /\ row.workspace = w /\ row.agent = account[a].owner
      /\ row.keyVersion = account[a].keyVersion
  BY <1>1
<1>3. account' = [account EXCEPT ![a] = row]
  BY DEF Online, SetAccount
<1> HIDE DEF row
<1>4. /\ account'[a] = row /\ session'[a] = s
      /\ \A b \in Accounts \ {a} : account'[b] = account[b] /\ session'[b] = session[b]
  BY <1>3 DEF AccountInv, AccountTypes
<1>5. account[a].exists /\ enrolling[a].at = "none"
  BY DEF Idle
<1>6. account[a].owner # NoOne
  BY DEF OwnerWithToken, AccountInv, AccountTypes
<1>7. AccountTypes'
  BY <1>2, <1>3 DEF AccountInv, AccountTypes
<1>8. AbsentIsBlank' /\ OnlineIsOwned' /\ EnrolledIsOffline'
  <2>1. \A b \in Accounts : account'[b].exists = account[b].exists
    BY <1>2, <1>4
  <2>2. AbsentIsBlank'
    BY <1>4, <1>5, <2>1 DEF AccountInv, AbsentIsBlank
  <2>3. OnlineIsOwned'
    BY <1>2, <1>4, <1>6 DEF AccountInv, OnlineIsOwned
  <2>4. EnrolledIsOffline'
    BY <1>4, <1>5 DEF AccountInv, EnrolledIsOffline
  <2>5. QED
    BY <2>2, <2>3, <2>4
<1>9. OnlineHasSession'
  BY <1>2, <1>4 DEF AccountInv, OnlineHasSession
<1>10. OwnershipExclusive'
  <2>1. \A b \in Accounts \ {a} : account[b].workspace # w
    BY DEF MayBind, AccountInv, OwnershipExclusive
  <2>2. \A b \in Accounts : account'[b].owner = account[b].owner
    BY <1>2, <1>4
  <2>3. \A b \in Accounts : account'[b].workspace = IF b = a THEN w ELSE account[b].workspace
    BY <1>2, <1>4
  <2>4. QED
    BY <2>1, <2>2, <2>3 DEF AccountInv, OwnershipExclusive
<1>11. QED
  BY <1>7, <1>8, <1>9, <1>10 DEF AccountInv

LEMMA LoginInv ==
    ASSUME AccountInv, NEW a \in Accounts, NEW w \in Paths, LoginWithKey(a, w)
    PROVE  AccountInv'
<1> DEFINE s == [id |-> issued', agent |-> account[a].owner, keyVersion |-> account[a].keyVersion]
<1>1. /\ account[a] \in Rows /\ issued \in Nat /\ held \in [Accounts -> Nat]
      /\ lease \in [Accounts -> Nat]
  BY DEF AccountInv, AccountTypes
<1>2. issued' = issued + 1
  BY DEF LoginWithKey
<1>3. s \in Sessions /\ s # NoSession /\ s.agent = account[a].owner
      /\ s.keyVersion = account[a].keyVersion
  BY <1>1, <1>2
<1>4. lease[a] = 0
  <2>1. CASE session[a] = NoSession
    BY <2>1 DEF AccountInv, OnlineHasSession
  <2>2. CASE session[a] # NoSession
    BY <2>2 DEF LoginWithKey
  <2>3. QED
    BY <2>1, <2>2
<1>5. /\ Idle(a) /\ OwnerWithToken(a) /\ MayBind(a, w) /\ Online(a, w)
      /\ session' = [session EXCEPT ![a] = s]
      /\ held' \in {held, [held EXCEPT ![a] = issued']}
      /\ UNCHANGED <<agents, tokens, enrolling, lease, credentials>>
  BY DEF LoginWithKey
<1>6. held' \in [Accounts -> Nat]
  BY <1>1, <1>2, <1>5
<1>7. lease[a] \in {0, s.id} /\ issued' \in Nat
  BY <1>1, <1>2, <1>4
<1> HIDE DEF s, Sessions, NoSession
<1>8. QED
  BY <1>3, <1>5, <1>6, <1>7, OnlineStep

(* A Session that the gateway accepts is the one of the Account online.    *)
LEMMA AuthenticSession ==
    ASSUME AccountInv, NEW a \in Accounts, Authentic(a)
    PROVE  /\ session[a] \in Sessions /\ session[a] # NoSession
           /\ session[a].id # 0 /\ account[a].online
           /\ session[a].agent = account[a].owner
           /\ session[a].keyVersion = account[a].keyVersion
           /\ lease[a] \in {0, session[a].id}
BY DEF Authentic, AccountInv, AccountTypes, OnlineHasSession

LEMMA ReconnectInv ==
    ASSUME AccountInv, NEW a \in Accounts, NEW w \in Paths, Reconnect(a, w)
    PROVE  AccountInv'
<1> DEFINE s == session[a]
<1>1. Authentic(a)
  BY DEF Reconnect
<1>2. session' = [session EXCEPT ![a] = s]
  BY DEF Reconnect, AccountInv, AccountTypes
<1>3. /\ Idle(a) /\ OwnerWithToken(a) /\ MayBind(a, w) /\ Online(a, w)
      /\ UNCHANGED <<agents, tokens, enrolling, lease, credentials>>
  BY DEF Reconnect, Authentic
<1>4. held' \in [Accounts -> Nat] /\ issued' \in Nat
  BY DEF Reconnect, AccountInv, AccountTypes
<1>5. /\ s \in Sessions /\ s # NoSession /\ s.agent = account[a].owner
      /\ s.keyVersion = account[a].keyVersion /\ lease[a] \in {0, s.id}
  BY <1>1, AuthenticSession
<1> HIDE DEF s
<1>6. QED
  BY <1>2, <1>3, <1>4, <1>5, OnlineStep

LEMMA LogoutInv ==
    ASSUME AccountInv, NEW a \in Accounts, Logout(a)
    PROVE  AccountInv'
<1>1. account[a] \in Rows /\ (~account[a].exists => account[a] = NoAccount)
  BY DEF AccountInv, AccountTypes, AbsentIsBlank
<1>2. /\ RevokeSession(a, account[a])
      /\ UNCHANGED <<agents, tokens, enrolling, credentials, issued>>
  BY DEF Logout
<1>3. held' \in [Accounts -> Nat]
  BY DEF Logout, AccountInv, AccountTypes
<1>4. QED
  BY <1>1, <1>2, <1>3, RevokedStep

LEMMA ChangeKeyInv ==
    ASSUME AccountInv, NEW a \in Accounts, NEW state \in {"active", "revoked"}, ChangeKey(a, state)
    PROVE  AccountInv'
<1> DEFINE row == [account[a] EXCEPT !.key = state, !.keyVersion = @ + 1]
<1>1. account[a] \in Rows /\ account[a].exists
  BY DEF AccountInv, AccountTypes, ChangeKey, Idle
<1>2. /\ row \in Rows /\ row.exists = account[a].exists /\ row.owner = account[a].owner
      /\ row.workspace = account[a].workspace
  <2>1. account[a].keyVersion + 1 \in Nat
    BY <1>1
  <2> DEFINE v == account[a].keyVersion + 1
  <2> HIDE DEF v
  <2>2. row = [account[a] EXCEPT !.key = state, !.keyVersion = v]
    BY DEF v
  <2> HIDE DEF row
  <2>3. QED
    BY <1>1, <2>1, <2>2 DEF v
<1>3. /\ RevokeSession(a, row)
      /\ UNCHANGED <<agents, tokens, enrolling, credentials, issued, held>>
  BY DEF ChangeKey
<1>4. held' \in [Accounts -> Nat]
  BY <1>3 DEF AccountInv, AccountTypes
<1> HIDE DEF row
<1>5. QED
  BY <1>1, <1>2, <1>3, <1>4, RevokedStep

(* The execution of a run is leased to the Session that asks for it.       *)
LEMMA LeaseStepInv ==
    ASSUME AccountInv, NEW a \in Accounts,
           AuthorizeWorkspace(a) \/ EndExecution(a) \/ DaemonRestarts(a)
    PROVE  AccountInv'
<1>1. /\ UNCHANGED <<account, agents, tokens, enrolling, session, credentials, issued>>
      /\ lease' \in [Accounts -> Nat] /\ held' \in [Accounts -> Nat]
      /\ \A b \in Accounts : lease'[b] \in {lease[b], 0, session[b].id}
  <2>1. /\ lease \in [Accounts -> Nat] /\ held \in [Accounts -> Nat] /\ session[a].id \in Nat
    BY DEF AccountInv, AccountTypes
  <2>2. CASE AuthorizeWorkspace(a)
    BY <2>1, <2>2 DEF AuthorizeWorkspace
  <2>3. CASE EndExecution(a)
    BY <2>1, <2>3 DEF EndExecution
  <2>4. CASE DaemonRestarts(a)
    BY <2>1, <2>4 DEF DaemonRestarts
  <2>5. QED
    BY <2>2, <2>3, <2>4
<1>2. AccountTypes'
  BY <1>1 DEF AccountInv, AccountTypes
<1>3. OnlineHasSession'
  BY <1>1 DEF AccountInv, OnlineHasSession
<1>4. QED
  BY <1>1, <1>2, <1>3 DEF AccountInv, AbsentIsBlank, OnlineIsOwned, EnrolledIsOffline,
                          OwnershipExclusive

LEMMA GatewayRestartsInv ==
    ASSUME AccountInv, GatewayRestarts
    PROVE  AccountInv'
<1>1. \A a \in Accounts :
          /\ account'[a] = [account[a] EXCEPT !.online = FALSE, !.agent = NoOne]
          /\ enrolling'[a] = NoEnrolment /\ session'[a] = NoSession /\ lease'[a] = 0
  BY DEF GatewayRestarts
<1>2. \A row \in Rows :
          /\ [row EXCEPT !.online = FALSE, !.agent = NoOne] \in Rows
          /\ [row EXCEPT !.online = FALSE, !.agent = NoOne].exists = row.exists
          /\ [row EXCEPT !.online = FALSE, !.agent = NoOne].owner = row.owner
          /\ [row EXCEPT !.online = FALSE, !.agent = NoOne].workspace = row.workspace
          /\ [row EXCEPT !.online = FALSE, !.agent = NoOne].online = FALSE
  OBVIOUS
<1>3. \A a \in Accounts :
          /\ account'[a] \in Rows
          /\ account'[a].exists = account[a].exists /\ account'[a].owner = account[a].owner
          /\ account'[a].workspace = account[a].workspace
          /\ account'[a].online = FALSE
  <2>1. \A a \in Accounts : account[a] \in Rows
    BY DEF AccountInv, AccountTypes
  <2> HIDE DEF Rows
  <2>2. TAKE a \in Accounts
  <2>3. account[a] \in Rows
    BY <2>1
  <2>4. account'[a] = [account[a] EXCEPT !.online = FALSE, !.agent = NoOne]
    BY <1>1
  <2>5. QED
    BY <1>2, <2>3, <2>4
<1>8. AccountTypes'
  <2>1. /\ account' \in [Accounts -> Rows]
        /\ enrolling' \in [Accounts -> Enrolments]
        /\ session' \in [Accounts -> Sessions]
        /\ lease' \in [Accounts -> Nat]
    <3>1. NoEnrolment \in Enrolments /\ NoSession \in Sessions
      OBVIOUS
    <3> HIDE DEF Rows, Enrolments, Sessions, NoEnrolment, NoSession
    <3>2. QED
      BY <1>3, <3>1 DEF GatewayRestarts
  <2>2. QED
    BY <2>1 DEF GatewayRestarts, AccountInv, AccountTypes
<1>4. AbsentIsBlank'
  <2> SUFFICES ASSUME NEW a \in Accounts, ~account'[a].exists PROVE account'[a] = NoAccount
    BY DEF AbsentIsBlank
  <2>3. account[a] = NoAccount
    BY <1>3 DEF AccountInv, AbsentIsBlank
  <2>4. account'[a] = [account[a] EXCEPT !.online = FALSE, !.agent = NoOne]
    BY <1>1
  <2> HIDE DEF NoAccount
  <2>5. QED
    BY <2>3, <2>4, BlankStaysBlank
<1> HIDE DEF Rows
<1>5. OnlineIsOwned' /\ EnrolledIsOffline' /\ OnlineHasSession'
  <2>1. \A a \in Accounts : enrolling'[a].at = "none"
    <3>1. NoEnrolment.at = "none"
      OBVIOUS
    <3> HIDE DEF NoEnrolment
    <3>2. QED
      BY <1>1, <3>1
  <2>2. \A a \in Accounts : account'[a].online = FALSE /\ session'[a] = NoSession /\ lease'[a] = 0
    BY <1>1, <1>3
  <2> HIDE DEF NoSession
  <2>3. OnlineIsOwned' /\ EnrolledIsOffline'
    BY <2>1, <2>2 DEF OnlineIsOwned, EnrolledIsOffline
  <2>4. OnlineHasSession'
    BY <2>2 DEF OnlineHasSession
  <2>5. QED
    BY <2>3, <2>4
<1>6. OwnershipExclusive'
  <2>1. UNCHANGED agents
    BY DEF GatewayRestarts
  <2>2. OwnershipExclusive
    BY DEF AccountInv
  <2>3. QED
    BY <1>3, <2>1, <2>2 DEF OwnershipExclusive
<1>7. QED
  BY <1>4, <1>5, <1>6, <1>8 DEF AccountInv

-----------------------------------------------------------------------------
(* The invariant holds in every state: agents/control-service.js ends a    *)
(* Session, an enrolment and an Account only together with what they hold. *)
THEOREM AccountInvInductive == AccountSpec => []AccountInv
<1>1. AccountInit => AccountInv
  BY DEF AccountInit, AccountInv, AccountTypes, AbsentIsBlank, OnlineIsOwned, EnrolledIsOffline,
         OnlineHasSession, OwnershipExclusive
<1>2. AccountInv /\ [AccountNext]_accountVars => AccountInv'
  <2> SUFFICES ASSUME AccountInv, [AccountNext]_accountVars PROVE AccountInv'
    OBVIOUS
  <2>1. CASE UNCHANGED accountVars
    BY <2>1 DEF accountVars, AccountInv, AccountTypes, AbsentIsBlank, OnlineIsOwned,
                EnrolledIsOffline, OnlineHasSession, OwnershipExclusive
  <2>2. ASSUME NEW a \in Accounts, CreateUnownedAccount(a) \/ DeleteAccount(a)
        PROVE  AccountInv'
    BY <2>2, CreateUnownedAccountInv, DeleteAccountInv
  <2>3. ASSUME NEW a \in Accounts, NEW g \in Agents, CreateAgent(a, g) \/ Enroll(a, g)
        PROVE  AccountInv'
    BY <2>3, CreateAgentInv, EnrollInv
  <2>4. ASSUME NEW a \in Accounts,
               ReadTokens(a) \/ IssueToken(a) \/ EnrollFails(a) \/ RevokeToken(a)
                 \/ RevokeTokenFails(a)
        PROVE  AccountInv'
    BY <2>4, TokenStepInv, EnrollFailsInv
  <2>5. ASSUME NEW a \in Accounts, NEW w \in Paths, LoginWithKey(a, w) \/ Reconnect(a, w)
        PROVE  AccountInv'
    BY <2>5, LoginInv, ReconnectInv
  <2>6. ASSUME NEW a \in Accounts,
               AuthorizeWorkspace(a) \/ EndExecution(a) \/ Logout(a) \/ DaemonRestarts(a)
        PROVE  AccountInv'
    BY <2>6, LeaseStepInv, LogoutInv
  <2>7. ASSUME NEW a \in Accounts, NEW state \in {"active", "revoked"}, ChangeKey(a, state)
        PROVE  AccountInv'
    BY <2>7, ChangeKeyInv
  <2>8. CASE GatewayRestarts
    BY <2>8, GatewayRestartsInv
  <2>9. QED
    BY <2>1, <2>2, <2>3, <2>4, <2>5, <2>6, <2>7, <2>8 DEF AccountNext
<1>3. QED
  BY <1>1, <1>2, PTL DEF AccountSpec

(* An Account is online exactly while it has a Session of its owner under  *)
(* its current key, only that Session holds an execution, and Accounts     *)
(* share neither owner nor workspace (control-service.js).                 *)
THEOREM AccountsAreSound == AccountSpec => []AccountsSound
<1>1. AccountInv => AccountsSound
  BY DEF AccountInv, AccountsSound
<1>2. QED
  BY <1>1, AccountInvInductive, PTL

-----------------------------------------------------------------------------
(* The directory of Spaces *)

RoomRows == [seats : SUBSET Members, group : Groups \union {Nowhere},
             project : Projects \union {Nowhere}, archived : BOOLEAN]

Views == {"status-only", "observed"}
Jobs  == Rooms \X Members

(* A Space is there exactly while somebody has a seat in it.               *)
DirectoryTypes ==
    /\ standing \in [Members -> {"none", "free", "owned"}]
    /\ group \in [Groups -> SUBSET Members] /\ projects \subseteq Projects
    /\ DOMAIN room = Rooms
    /\ \A r \in Rooms : \/ room[r] \in {NoRoom, Gone}
                        \/ room[r] \in RoomRows /\ room[r].seats # {}
    /\ deleting \in Rooms \union {Nowhere} /\ purged \subseteq Rooms
    /\ work \in [Jobs -> {"none", "pending", "running"}]
    /\ watched \in Rooms \union {Nowhere}
    /\ told \in [Jobs -> Seq(Views)] /\ seen \in [Jobs -> Views]

(* Nothing works in a Space that is not there, and a Space whose deletion  *)
(* is still to be answered is gone.                                        *)
GoneIsIdle ==
    /\ \A r \in Rooms, m \in Members : ~Exists(r) => work[<<r, m>>] = "none"
    /\ \A r \in purged : room[r] = Gone

DirectoryInv == DirectoryTypes /\ GoneIsIdle /\ DirectorySound

USE NowhereAssumption DEF RoomRows, Views, Jobs

-----------------------------------------------------------------------------
(* RoomRows *)

(* A Space that is there is none of the two values that say it is not.     *)
LEMMA RowKinds ==
    /\ \A row \in RoomRows : row \notin {NoRoom, Gone}
    /\ NoRoom.seats = {} /\ Gone.seats = {}
<1>1. NoRoom.seats = {} /\ Gone.seats = {}
  BY DEF NoRoom, Gone
<1>2. /\ "archived" \notin DOMAIN NoRoom /\ "archived" \notin DOMAIN Gone
      /\ \A row \in RoomRows : "archived" \in DOMAIN row
  BY DEF NoRoom, Gone
<1>3. QED
  BY <1>1, <1>2

(* Who sits in a Space tells whether it is there.                          *)
LEMMA RowExists ==
    ASSUME DirectoryTypes, NEW r \in Rooms
    PROVE  /\ Exists(r) <=> room[r].seats # {}
           /\ Exists(r) <=> room[r] \in RoomRows
           /\ ~Exists(r) => room[r] \in {NoRoom, Gone} /\ room[r].seats = {}
<1> HIDE DEF RoomRows
<1>1. QED
  BY RowKinds DEF DirectoryTypes, Exists

(* A Group and a Space have somebody in them.                              *)
LEMMA GroupsAreInhabited ==
    ASSUME NEW ms, MakesGroup(ms)
    PROVE  ms \subseteq KnownAccounts /\ ms # {}
BY FS_EmptySet DEF MakesGroup

(* Seats that assertSpaceMembership accepts are Accounts that exist.        *)
LEMMA SeatsFitFacts ==
    ASSUME DirectoryTypes, ReferencesExist, NEW seats, NEW g \in Groups \union {Nowhere}, SeatsFit(seats, g)
    PROVE  /\ seats \subseteq KnownAccounts /\ seats \subseteq Members /\ seats # {}
           /\ IF g = Nowhere THEN Cardinality(seats) = 1 ELSE seats = group[g]
BY DEF SeatsFit, Seatable, KnownAccounts

-----------------------------------------------------------------------------
(* What the daemons are told *)

(* Only the observed Space is seen by anybody.                             *)
LEMMA VisibilityOfOthers ==
    \A d, w, r : r # w => Visibility(d, w, r) = "status-only"
BY DEF Visibility

(* The last update under way decides what a daemon will report.            *)
LEMMA WillSeeAppended ==
    ASSUME DirectoryTypes, NEW x \in Jobs, NEW v \in Views, told'[x] = Append(told[x], v)
    PROVE  WillSee(x)' = v
<1>1. told[x] \in Seq(Views)
  BY DEF DirectoryTypes
<1>2. /\ Len(Append(told[x], v)) = Len(told[x]) + 1
      /\ Append(told[x], v)[Len(told[x]) + 1] = v
      /\ Append(told[x], v) # <<>>
  BY <1>1, AppendProperties
<1>3. QED
  BY <1>2 DEF WillSee

(* What Reconcile and Observe leave behind is true of directory d: another *)
(* Space is observed, or it was observed and observable all along.         *)
LEMMA CommitWatchTells ==
    ASSUME DirectoryTypes, NEW d, NEW w \in Rooms \union {Nowhere}, w # watched, CommitWatch(d, w),
           UNCHANGED work,
           \A x \in Jobs : work[x] = "running" => WillSee(x) = Visibility(room, watched, x[1])
    PROVE  /\ watched' = w
           /\ told' \in [Jobs -> Seq(Views)] /\ seen' = seen
           /\ \A x \in Jobs : work'[x] = "running" => WillSee(x)' = Visibility(d, w, x[1])
<1>1. /\ watched' = w /\ seen' = seen
      /\ told' = [x \in Jobs |-> IF Affected(x, w) THEN Append(told[x], Visibility(d, w, x[1])) ELSE told[x]]
  BY DEF CommitWatch
<1>2. \A x \in Jobs : Visibility(d, w, x[1]) \in Views
  BY DEF Visibility
<1>3. told' \in [Jobs -> Seq(Views)]
  BY <1>1, <1>2 DEF DirectoryTypes
<1>4. ASSUME NEW x \in Jobs, work'[x] = "running"
      PROVE  WillSee(x)' = Visibility(d, w, x[1])
  <2>1. CASE x[1] \in {watched, w}
    BY <1>1, <1>2, <1>4, <2>1, WillSeeAppended DEF Affected
  <2>2. CASE x[1] \notin {watched, w}
    <3>1. told'[x] = told[x] /\ seen'[x] = seen[x]
      BY <1>1, <2>2 DEF Affected
    <3>2. WillSee(x)' = WillSee(x)
      BY <3>1 DEF WillSee
    <3>3. Visibility(room, watched, x[1]) = Visibility(d, w, x[1])
      BY <2>2, VisibilityOfOthers
    <3>4. QED
      BY <1>4, <3>2, <3>3
  <2>3. QED
    BY <2>1, <2>2
<1>5. QED
  BY <1>1, <1>3, <1>4

(* The rows of rs change, and reconcileSpace looks at them.                *)
LEMMA ReconcileTells ==
    ASSUME DirectoryInv, NEW rs, Reconcile(room', rs), UNCHANGED work,
           \A r \in Rooms \ rs : room'[r] = room[r],
           purged' \subseteq purged, purged \ purged' \subseteq rs,
           \A r \in purged : room'[r] = Gone
    PROVE  /\ watched' \in Rooms \union {Nowhere}
           /\ told' \in [Jobs -> Seq(Views)] /\ seen' = seen
           /\ ObserversAreTold'
<1>1. /\ watched \in Rooms \union {Nowhere}
      /\ told \in [Jobs -> Seq(Views)]
      /\ \A x \in Jobs : work[x] = "running" => WillSee(x) = Visibility(room, watched, x[1])
      /\ watched \in Rooms \ purged => IsObservable(room, watched)
  BY DEF DirectoryInv, DirectoryTypes, DirectorySound, ObserversAreTold
<1>2. CASE watched \in rs /\ ~IsObservable(room', watched) /\ watched # Nowhere
  <2>1. CommitWatch(room', Nowhere)
    BY <1>2 DEF Reconcile
  <2>2. /\ watched' = Nowhere
        /\ told' \in [Jobs -> Seq(Views)] /\ seen' = seen
        /\ \A x \in Jobs : work'[x] = "running" => WillSee(x)' = Visibility(room', Nowhere, x[1])
    BY <1>1, <1>2, <2>1, CommitWatchTells DEF DirectoryInv
  <2>3. QED
    BY <2>2 DEF ObserversAreTold
<1>3. CASE ~(watched \in rs /\ ~IsObservable(room', watched) /\ watched # Nowhere)
  <2>1. UNCHANGED watchVars
    BY <1>3 DEF Reconcile, CommitWatch, watchVars
  <2>2. \A x : WillSee(x)' = WillSee(x)
    BY <2>1 DEF WillSee, watchVars
  <2>3. watched \in Rooms => (IsObservable(room', watched) <=> IsObservable(room, watched))
    <3>1. CASE watched \in rs
      BY <1>1, <1>3, <3>1 DEF DirectoryInv, GoneIsIdle, IsObservable
    <3>2. CASE watched \in Rooms \ rs
      BY <3>2 DEF IsObservable
    <3>3. QED
      BY <3>1, <3>2
  <2>4. watched' \in Rooms \ purged' => IsObservable(room', watched')
    BY <1>1, <1>3, <2>1, <2>3 DEF watchVars
  <2>5. \A x \in Jobs : Visibility(room', watched', x[1]) = Visibility(room, watched, x[1])
    BY <2>1, <2>3, VisibilityOfOthers DEF Visibility, watchVars
  <2>6. QED
    BY <1>1, <2>1, <2>2, <2>4, <2>5 DEF ObserversAreTold, watchVars
<1>4. QED
  BY <1>2, <1>3

-----------------------------------------------------------------------------
(* Steps by what they change *)

(* Accounts, Groups and Projects come and go; no Space changes, and the    *)
(* Groups that have Spaces stay as they are.                               *)
LEMMA RegistryStep ==
    ASSUME DirectoryInv, UNCHANGED <<room, deleting, purged, work, watchVars>>,
           standing' \in [Members -> {"none", "free", "owned"}],
           group' \in [Groups -> SUBSET Members], projects' \subseteq Projects,
           \A g \in Groups : group'[g] \subseteq KnownAccounts',
           \A r \in Rooms : Exists(r) =>
               /\ room[r].seats \subseteq KnownAccounts'
               /\ room[r].project \in projects' \union {Nowhere}
               /\ room[r].group # Nowhere => group'[room[r].group] = group[room[r].group]
    PROVE  DirectoryInv'
<1>1. DirectoryTypes'
  BY DEF DirectoryInv, DirectoryTypes, watchVars
<1>2. \A r : Exists(r)' <=> Exists(r)
  BY DEF Exists
<1>3. GoneIsIdle'
  BY <1>2 DEF DirectoryInv, GoneIsIdle
<1>4. ReferencesExist'
  BY <1>2 DEF DirectoryInv, DirectorySound, ReferencesExist
<1>5. WorkersAreMembers'
  BY <1>2 DEF DirectoryInv, DirectorySound, WorkersAreMembers
<1>6. ObserversAreTold'
  <2>1. \A x : WillSee(x)' = WillSee(x)
    BY DEF WillSee, watchVars
  <2>2. QED
    BY <2>1 DEF DirectoryInv, DirectorySound, ObserversAreTold, watchVars
<1>7. QED
  BY <1>1, <1>3, <1>4, <1>5, <1>6 DEF DirectoryInv, DirectorySound

(* The rows of rs change, their Groups and who works in them do not, or    *)
(* nobody does, and reconcileSpace looks at them.                          *)
LEMMA RoomStep ==
    ASSUME DirectoryInv, NEW rs \in SUBSET Rooms, Reconcile(room', rs),
           UNCHANGED <<standing, projects, deleting, purged, work>>,
           group' \in [Groups -> SUBSET Members],
           \A g \in Groups : group'[g] \subseteq KnownAccounts,
           DOMAIN room' = Rooms,
           \A r \in Rooms \ rs :
               /\ room'[r] = room[r]
               /\ Exists(r) /\ room[r].group # Nowhere => group'[room[r].group] = group[room[r].group],
           \A r \in rs :
               /\ room'[r] \in RoomRows /\ room'[r].seats # {} /\ room'[r].seats \subseteq KnownAccounts
               /\ room'[r].project \in projects \union {Nowhere}
               /\ IF room'[r].group = Nowhere THEN Cardinality(room'[r].seats) = 1
                  ELSE room'[r].seats = group'[room'[r].group]
               /\ \A m \in Members : work[<<r, m>>] # "none" /\ room'[r].group # Nowhere =>
                     m \in group'[room'[r].group],
           \A r \in rs : r \notin purged
    PROVE  DirectoryInv'
<1>1. /\ watched' \in Rooms \union {Nowhere}
      /\ told' \in [Jobs -> Seq(Views)] /\ seen' = seen
      /\ ObserversAreTold'
  <2>1. \A r \in purged : room'[r] = Gone
    BY DEF DirectoryInv, DirectoryTypes, GoneIsIdle
  <2>2. QED
    BY <2>1, ReconcileTells
<1>2. DirectoryTypes'
  BY <1>1 DEF DirectoryInv, DirectoryTypes
<1>3. /\ \A r \in Rooms \ rs : Exists(r)' <=> Exists(r)
      /\ \A r \in rs : Exists(r)'
  <2> HIDE DEF RoomRows
  <2>1. QED
    BY RowKinds DEF Exists
<1>4. GoneIsIdle'
  BY <1>3 DEF DirectoryInv, DirectoryTypes, GoneIsIdle
<1>5. KnownAccounts' = KnownAccounts
  BY DEF KnownAccounts
<1> HIDE DEF RoomRows
<1>6. ReferencesExist'
  <2>1. ReferencesExist
    BY DEF DirectoryInv, DirectorySound
  <2>2. QED
    BY <1>3, <1>5, <2>1 DEF ReferencesExist
<1>7. WorkersAreMembers'
  <2>1. WorkersAreMembers
    BY DEF DirectoryInv, DirectorySound
  <2>2. QED
    BY <1>3, <2>1 DEF WorkersAreMembers
<1>8. QED
  BY <1>1, <1>2, <1>4, <1>6, <1>7 DEF DirectoryInv, DirectorySound

(* A run starts, ends or hears what it is told; no row changes.            *)
LEMMA WorkStep ==
    ASSUME DirectoryInv, UNCHANGED <<standing, group, projects, room>>,
           purged' \subseteq purged, deleting' \in Rooms \union {Nowhere},
           work' \in [Jobs -> {"none", "pending", "running"}],
           watched' \in Rooms \union {Nowhere},
           told' \in [Jobs -> Seq(Views)], seen' \in [Jobs -> Views],
           \A r \in Rooms, m \in Members :
               work'[<<r, m>>] # "none" => work[<<r, m>>] # "none" \/ (Exists(r) /\ m \in room[r].seats),
           ObserversAreTold'
    PROVE  DirectoryInv'
<1>1. DirectoryTypes'
  BY DEF DirectoryInv, DirectoryTypes
<1>2. \A r : Exists(r)' <=> Exists(r)
  BY DEF Exists
<1>3. GoneIsIdle'
  BY <1>2 DEF DirectoryInv, GoneIsIdle
<1>4. ReferencesExist'
  BY <1>2 DEF DirectoryInv, DirectorySound, ReferencesExist, KnownAccounts
<1>5. WorkersAreMembers'
  BY <1>2 DEF DirectoryInv, DirectorySound, ReferencesExist, WorkersAreMembers
<1>6. QED
  BY <1>1, <1>3, <1>4, <1>5 DEF DirectoryInv, DirectorySound

-----------------------------------------------------------------------------
(* Accounts, Groups and Projects *)

LEMMA AccountsComeAndGo ==
    ASSUME DirectoryInv, NEW m \in Members,
           CreateAccount(m) \/ DeleteUnownedAccount(m) \/ EnrolMember(m)
    PROVE  DirectoryInv'
<1>1. /\ UNCHANGED <<group, projects, room, deleting, purged, work, watchVars>>
      /\ \E st \in {"none", "free", "owned"} :
            /\ standing' = [standing EXCEPT ![m] = st]
            /\ st = "none" => Unreferenced(m)
  BY DEF CreateAccount, DeleteUnownedAccount, EnrolMember
<1>2. /\ standing \in [Members -> {"none", "free", "owned"}]
      /\ group \in [Groups -> SUBSET Members] /\ projects \subseteq Projects
      /\ ReferencesExist
  BY DEF DirectoryInv, DirectoryTypes, DirectorySound
<1>3. \A n \in KnownAccounts : n \in KnownAccounts' \/ (n = m /\ Unreferenced(m))
  BY <1>1, <1>2 DEF KnownAccounts
<1>4. /\ \A g \in Groups : group'[g] \subseteq KnownAccounts'
      /\ \A r \in Rooms : Exists(r) => room[r].seats \subseteq KnownAccounts'
  BY <1>1, <1>2, <1>3 DEF ReferencesExist, Unreferenced
<1>5. /\ standing' \in [Members -> {"none", "free", "owned"}]
      /\ \A r \in Rooms : Exists(r) => room[r].project \in projects' \union {Nowhere}
  BY <1>1, <1>2 DEF ReferencesExist
<1>6. QED
  BY <1>1, <1>2, <1>4, <1>5, RegistryStep

(* A Group is made or deleted while it has no Space.                       *)
LEMMA GroupsComeAndGo ==
    ASSUME DirectoryInv, NEW g \in Groups, NEW ms \in SUBSET Members,
           CreateGroup(g, ms) \/ DeleteGroup(g)
    PROVE  DirectoryInv'
<1>1. /\ UNCHANGED <<standing, projects, room, deleting, purged, work, watchVars>>
      /\ \E ns \in SUBSET KnownAccounts : group' = [group EXCEPT ![g] = ns]
  <2>1. CASE CreateGroup(g, ms)
    BY <2>1 DEF CreateGroup, MakesGroup
  <2>2. CASE DeleteGroup(g)
    BY <2>2 DEF DeleteGroup
  <2>3. QED
    BY <2>1, <2>2
<1>2. /\ standing \in [Members -> {"none", "free", "owned"}]
      /\ group \in [Groups -> SUBSET Members] /\ projects \subseteq Projects
      /\ ReferencesExist
  BY DEF DirectoryInv, DirectoryTypes, DirectorySound
<1>3. \A r \in Rooms : Exists(r) => room[r].group # g
  <2>1. CASE CreateGroup(g, ms)
    BY <1>2, <2>1 DEF CreateGroup, ReferencesExist
  <2>2. CASE DeleteGroup(g)
    BY <2>2 DEF DeleteGroup, RoomsOf
  <2>3. QED
    BY <2>1, <2>2
<1>4. KnownAccounts' = KnownAccounts /\ KnownAccounts \subseteq Members
  BY <1>1 DEF KnownAccounts
<1>5. group' \in [Groups -> SUBSET Members] /\ \A h \in Groups : group'[h] \subseteq KnownAccounts'
  BY <1>1, <1>2, <1>4 DEF ReferencesExist
<1>6. \A r \in Rooms : Exists(r) =>
        /\ room[r].seats \subseteq KnownAccounts'
        /\ room[r].project \in projects' \union {Nowhere}
        /\ room[r].group # Nowhere => group'[room[r].group] = group[room[r].group]
  BY <1>1, <1>2, <1>3, <1>4 DEF ReferencesExist
<1>7. QED
  BY <1>1, <1>2, <1>5, <1>6, RegistryStep

LEMMA ProjectsComeAndGo ==
    ASSUME DirectoryInv, NEW p \in Projects, CreateProject(p) \/ DeleteProject(p)
    PROVE  DirectoryInv'
<1>1. /\ UNCHANGED <<standing, group, room, deleting, purged, work, watchVars>>
      /\ projects' \in {projects \union {p}, projects \ {p}}
      /\ p \notin projects' => \A r \in Rooms : Exists(r) => room[r].project # p
  BY DEF CreateProject, DeleteProject
<1>2. /\ standing \in [Members -> {"none", "free", "owned"}]
      /\ group \in [Groups -> SUBSET Members] /\ projects \subseteq Projects
      /\ ReferencesExist
  BY DEF DirectoryInv, DirectoryTypes, DirectorySound
<1>3. KnownAccounts' = KnownAccounts
  BY <1>1 DEF KnownAccounts
<1>4. /\ \A h \in Groups : group'[h] \subseteq KnownAccounts'
      /\ \A r \in Rooms : Exists(r) =>
            /\ room[r].seats \subseteq KnownAccounts'
            /\ room[r].project \in projects' \union {Nowhere}
  BY <1>1, <1>2, <1>3 DEF ReferencesExist
<1>5. QED
  BY <1>1, <1>2, <1>4, RegistryStep

-----------------------------------------------------------------------------
(* Spaces *)

LEMMA UpdateGroupInv ==
    ASSUME DirectoryInv, NEW g \in Groups, NEW ms \in SUBSET Members, UpdateGroup(g, ms)
    PROVE  DirectoryInv'
<1> DEFINE rs == RoomsOf(g)
<1>1. /\ group' = [group EXCEPT ![g] = ms] /\ room' = SyncGroupSpaces(g, ms)
      /\ Reconcile(room', rs) /\ UNCHANGED <<standing, projects, deleting, purged, work>>
      /\ ms # group[g] => \A r \in rs : ~AtWork(r)
  BY DEF UpdateGroup
<1>2. ms \subseteq KnownAccounts /\ ms # {}
  BY GroupsAreInhabited DEF UpdateGroup
<1>3. /\ group \in [Groups -> SUBSET Members] /\ ReferencesExist /\ WorkersAreMembers
      /\ \A r \in purged : room[r] = Gone
  BY DEF DirectoryInv, DirectoryTypes, DirectorySound, GoneIsIdle
<1>4. rs \subseteq Rooms /\ \A r \in rs : Exists(r) /\ room[r].group = g
  BY DEF RoomsOf
<1>5. \A r \in Rooms : Exists(r) <=> room[r] \in RoomRows
  BY RowExists DEF DirectoryInv
<1>6. /\ DOMAIN room' = Rooms
      /\ \A r \in Rooms \ rs : room'[r] = room[r]
      /\ \A r \in rs : room'[r] = [room[r] EXCEPT !.seats = ms]
  BY <1>1, <1>4 DEF SyncGroupSpaces
<1>7. \A r \in rs : /\ room'[r] \in RoomRows /\ room'[r].seats = ms
                    /\ room'[r].group = g /\ room'[r].project = room[r].project
  <2> SUFFICES ASSUME NEW r \in rs
               PROVE  /\ room'[r] \in RoomRows /\ room'[r].seats = ms
                      /\ room'[r].group = g /\ room'[r].project = room[r].project
    OBVIOUS
  <2>1. room[r] \in RoomRows /\ room[r].group = g
    BY <1>4, <1>5
  <2>2. QED
    BY <1>6, <2>1
<1> HIDE DEF rs, RoomRows
<1>8. /\ group' \in [Groups -> SUBSET Members] /\ group'[g] = ms
      /\ \A h \in Groups : group'[h] \subseteq KnownAccounts
      /\ \A h \in Groups \ {g} : group'[h] = group[h]
  BY <1>1, <1>2, <1>3 DEF ReferencesExist
<1>9. \A r \in Rooms \ rs : Exists(r) /\ room[r].group # Nowhere =>
          group'[room[r].group] = group[room[r].group]
  BY <1>8, <1>1 DEF rs, RoomsOf
<1>10. \A r \in rs, m \in Members : work[<<r, m>>] # "none" => m \in ms
  <2>1. CASE ms = group[g]
    BY <1>3, <1>4, <2>1 DEF WorkersAreMembers
  <2>2. CASE ms # group[g]
    BY <1>1, <2>2 DEF AtWork
  <2>3. QED
    BY <2>1, <2>2
<1>11. \A r \in rs : room[r].project \in projects \union {Nowhere} /\ r \notin purged
  BY <1>3, <1>4 DEF ReferencesExist, Exists
<1>12. g # Nowhere
  OBVIOUS
<1>13. QED
  BY <1>1, <1>2, <1>4, <1>6, <1>7, <1>8, <1>9, <1>10, <1>11, <1>12, RoomStep

(* One row changes or is new, and its seats and Project are checked.       *)
LEMMA OneRoomStep ==
    ASSUME DirectoryInv, NEW r \in Rooms, NEW row \in RoomRows, room' = [room EXCEPT ![r] = row],
           Reconcile(room', {r}), r \notin purged,
           row.seats # {}, row.seats \subseteq KnownAccounts,
           row.project \in projects \union {Nowhere},
           IF row.group = Nowhere THEN Cardinality(row.seats) = 1 ELSE row.seats = group[row.group],
           Exists(r) => row.group = room[r].group,
           UNCHANGED <<standing, group, projects, deleting, purged, work>>
    PROVE  DirectoryInv'
<1>1. DOMAIN room = Rooms /\ group \in [Groups -> SUBSET Members]
  BY DEF DirectoryInv, DirectoryTypes
<1>2. DOMAIN room' = Rooms /\ room'[r] = row /\ \A q \in Rooms \ {r} : room'[q] = room[q]
  BY <1>1
<1>3. \A m \in Members : work[<<r, m>>] # "none" /\ row.group # Nowhere => m \in group[row.group]
  BY DEF DirectoryInv, GoneIsIdle, DirectorySound, WorkersAreMembers
<1>4. \A h \in Groups : group[h] \subseteq KnownAccounts
  BY DEF DirectoryInv, DirectorySound, ReferencesExist
<1> DEFINE rs == {r}
<1>5. /\ rs \in SUBSET Rooms /\ Reconcile(room', rs)
      /\ group' = group /\ group' \in [Groups -> SUBSET Members]
      /\ \A h \in Groups : group'[h] \subseteq KnownAccounts
      /\ \A q \in Rooms \ rs : room'[q] = room[q]
      /\ \A q \in rs : q = r
  BY <1>1, <1>2, <1>4
<1> HIDE DEF RoomRows, rs
<1>7. \A q \in rs :
        /\ room'[q] \in RoomRows /\ room'[q].seats # {} /\ room'[q].seats \subseteq KnownAccounts
        /\ room'[q].project \in projects \union {Nowhere}
        /\ IF room'[q].group = Nowhere THEN Cardinality(room'[q].seats) = 1
           ELSE room'[q].seats = group'[room'[q].group]
        /\ \A m \in Members : work[<<q, m>>] # "none" /\ room'[q].group # Nowhere =>
              m \in group'[room'[q].group]
        /\ q \notin purged
  BY <1>2, <1>3, <1>5
<1>8. \A q \in Rooms \ rs : Exists(q) /\ room[q].group # Nowhere =>
          group'[room[q].group] = group[room[q].group]
  BY <1>5
<1>6. QED
  BY <1>2, <1>5, <1>7, <1>8, RoomStep

(* What is known of a Space that is there.                                 *)
LEMMA ExistingRow ==
    ASSUME DirectoryInv, NEW r \in Rooms, Exists(r)
    PROVE  /\ room[r] \in RoomRows /\ r \notin purged
           /\ room[r].seats # {} /\ room[r].seats \subseteq KnownAccounts
           /\ room[r].project \in projects \union {Nowhere}
           /\ IF room[r].group = Nowhere THEN Cardinality(room[r].seats) = 1
              ELSE room[r].seats = group[room[r].group]
<1>1. room[r] \in RoomRows
  BY RowExists DEF DirectoryInv
<1>2. r \notin purged
  BY DEF DirectoryInv, GoneIsIdle, Exists
<1> HIDE DEF RoomRows
<1>3. QED
  BY <1>1, <1>2 DEF DirectoryInv, DirectorySound, ReferencesExist

LEMMA CreateSpaceInv ==
    ASSUME DirectoryInv, NEW r \in Rooms, NEW seats \in SUBSET Members,
           NEW g \in Groups \union {Nowhere}, NEW p \in Projects \union {Nowhere},
           CreateSpace(r, seats, g, p)
    PROVE  DirectoryInv'
<1> DEFINE row == [seats |-> seats, group |-> g, project |-> p, archived |-> FALSE]
<1>1. /\ row \in RoomRows /\ row.seats = seats /\ row.group = g /\ row.project = p
  OBVIOUS
<1>2. /\ room' = [room EXCEPT ![r] = row] /\ room[r] = NoRoom /\ SeatsFit(seats, g)
      /\ p \in projects \union {Nowhere}
      /\ UNCHANGED <<standing, group, projects, deleting, purged, work, watchVars>>
  BY DEF CreateSpace
<1> HIDE DEF row
<1>3. /\ seats \subseteq KnownAccounts /\ seats # {}
      /\ IF g = Nowhere THEN Cardinality(seats) = 1 ELSE seats = group[g]
  BY <1>2, SeatsFitFacts DEF DirectoryInv, DirectorySound
<1>4. r \notin purged
  BY <1>2 DEF DirectoryInv, GoneIsIdle, NoRoom, Gone
<1>5. ~Exists(r) /\ ~IsObservable(room, r)
  BY <1>2 DEF Exists, IsObservable
<1>6. watched # r
  BY <1>4, <1>5 DEF DirectoryInv, DirectorySound, ObserversAreTold
<1>7. Reconcile(room', {r})
  BY <1>2, <1>6 DEF Reconcile
<1> HIDE DEF RoomRows
<1>8. QED
  BY <1>1, <1>2, <1>3, <1>4, <1>5, <1>7, OneRoomStep

LEMMA UpdateSpaceInv ==
    ASSUME DirectoryInv, NEW r \in Rooms, NEW seats \in SUBSET Members,
           NEW p \in Projects \union {Nowhere}, UpdateSpace(r, seats, p)
    PROVE  DirectoryInv'
<1> DEFINE row == [room[r] EXCEPT !.seats = seats, !.project = p]
<1>1. Exists(r)
  BY DEF UpdateSpace
<1>2. /\ room[r] \in RoomRows /\ r \notin purged
      /\ room[r].seats # {} /\ room[r].seats \subseteq KnownAccounts
      /\ room[r].project \in projects \union {Nowhere}
      /\ IF room[r].group = Nowhere THEN Cardinality(room[r].seats) = 1
         ELSE room[r].seats = group[room[r].group]
  BY <1>1, ExistingRow
<1>3. row \in RoomRows /\ row.seats = seats /\ row.group = room[r].group /\ row.project = p
  BY <1>2
<1>4. room' = [room EXCEPT ![r] = row]
  <2>1. DOMAIN room = Rooms
    BY DEF DirectoryInv, DirectoryTypes
  <2>2. QED
    BY <2>1 DEF UpdateSpace
<1>5. /\ Reconcile(room', {r})
      /\ UNCHANGED <<standing, group, projects, deleting, purged, work>>
      /\ seats # room[r].seats => SeatsFit(seats, room[r].group)
      /\ p # room[r].project => p \in projects \union {Nowhere}
  BY DEF UpdateSpace
<1>6. room[r].group \in Groups \union {Nowhere}
  BY <1>2
<1> HIDE DEF row, RoomRows
<1>7. /\ seats # {} /\ seats \subseteq KnownAccounts
      /\ IF room[r].group = Nowhere THEN Cardinality(seats) = 1 ELSE seats = group[room[r].group]
  <2>1. CASE seats = room[r].seats
    BY <1>2, <2>1
  <2>2. CASE seats # room[r].seats
    BY <1>5, <1>6, <2>2, SeatsFitFacts DEF DirectoryInv, DirectorySound
  <2>3. QED
    BY <2>1, <2>2
<1>8. p \in projects \union {Nowhere}
  BY <1>2, <1>5
<1>9. QED
  BY <1>1, <1>2, <1>3, <1>4, <1>5, <1>7, <1>8, OneRoomStep

LEMMA ArchiveInv ==
    ASSUME DirectoryInv, NEW r \in Rooms, Archive(r) \/ RestoreArchived(r)
    PROVE  DirectoryInv'
<1>1. Exists(r)
  BY DEF Archive, RestoreArchived
<1>2. /\ room[r] \in RoomRows /\ r \notin purged
      /\ room[r].seats # {} /\ room[r].seats \subseteq KnownAccounts
      /\ room[r].project \in projects \union {Nowhere}
      /\ IF room[r].group = Nowhere THEN Cardinality(room[r].seats) = 1
         ELSE room[r].seats = group[room[r].group]
  BY <1>1, ExistingRow
<1>3. PICK b \in BOOLEAN :
         /\ room' = [room EXCEPT ![r].archived = b]
         /\ Reconcile(room', {r}) \/ (room[r].archived /\ UNCHANGED watchVars)
         /\ UNCHANGED <<standing, group, projects, deleting, purged, work>>
  BY DEF Archive, RestoreArchived
<1> DEFINE row == [room[r] EXCEPT !.archived = b]
<1>4. /\ row \in RoomRows /\ row.seats = room[r].seats /\ row.group = room[r].group
      /\ row.project = room[r].project
  BY <1>2
<1>5. room' = [room EXCEPT ![r] = row]
  BY <1>3 DEF DirectoryInv, DirectoryTypes
<1>6. Reconcile(room', {r})
  <2>1. CASE Reconcile(room', {r})
    BY <2>1
  <2>2. CASE room[r].archived /\ UNCHANGED watchVars
    <3>1. ~IsObservable(room, r)
      BY <2>2 DEF IsObservable
    <3>2. watched # r
      BY <1>2, <3>1 DEF DirectoryInv, DirectorySound, ObserversAreTold
    <3>3. QED
      BY <2>2, <3>2 DEF Reconcile
  <2>3. QED
    BY <1>3, <2>1, <2>2
<1> HIDE DEF row, RoomRows
<1>7. QED
  BY <1>1, <1>2, <1>3, <1>4, <1>5, <1>6, OneRoomStep

-----------------------------------------------------------------------------
(* The deletion of a Space *)

LEMMA PurgeInv ==
    ASSUME DirectoryInv, Purge
    PROVE  DirectoryInv'
<1>0. PICK d \in Rooms : d = deleting
  BY DEF Purge, DirectoryInv, DirectoryTypes
<1>1. /\ deleting' = Nowhere
      /\ room' = [room EXCEPT ![d] = Gone]
      /\ purged' = purged \union {d}
      /\ UNCHANGED <<standing, group, projects, watched>>
  BY <1>0 DEF Purge
<1>2. \A x \in Jobs :
          /\ work'[x] = IF x[1] = d THEN "none" ELSE work[x]
          /\ told'[x] = IF x[1] = d THEN <<>> ELSE told[x]
          /\ seen'[x] = IF x[1] = d THEN "status-only" ELSE seen[x]
  BY <1>0 DEF Purge
<1>3. DOMAIN room = Rooms
  BY DEF DirectoryInv, DirectoryTypes
<1>4. DOMAIN room' = Rooms /\ room'[d] = Gone /\ \A r \in Rooms \ {d} : room'[r] = room[r]
  BY <1>1, <1>3
<1>5. DirectoryTypes'
  <2>1. /\ work' \in [Jobs -> {"none", "pending", "running"}]
        /\ told' \in [Jobs -> Seq(Views)] /\ seen' \in [Jobs -> Views]
    BY DEF Purge, DirectoryInv, DirectoryTypes
  <2> HIDE DEF RoomRows, Jobs
  <2>2. QED
    BY <1>1, <1>4, <2>1 DEF DirectoryInv, DirectoryTypes
<1>6. /\ ~Exists(d)' /\ \A r \in Rooms \ {d} : Exists(r)' <=> Exists(r)
  BY <1>4 DEF Exists
<1>7. GoneIsIdle'
  <2>1. \A r \in Rooms, m \in Members : ~Exists(r)' => work'[<<r, m>>] = "none"
    BY <1>2, <1>6 DEF DirectoryInv, GoneIsIdle
  <2>2. \A r \in purged' : room'[r] = Gone
    BY <1>1, <1>4 DEF DirectoryInv, DirectoryTypes, GoneIsIdle
  <2>3. QED
    BY <2>1, <2>2 DEF GoneIsIdle
<1>8. ReferencesExist'
  BY <1>1, <1>4, <1>6 DEF DirectoryInv, DirectorySound, ReferencesExist, KnownAccounts
<1>9. WorkersAreMembers'
  BY <1>1, <1>2, <1>4, <1>6 DEF DirectoryInv, DirectorySound, WorkersAreMembers
<1>10. ObserversAreTold'
  <2>1. watched' \in Rooms \ purged' => IsObservable(room', watched')
    BY <1>1, <1>4 DEF DirectoryInv, DirectorySound, ObserversAreTold, IsObservable
  <2>2. ASSUME NEW x \in Jobs, work'[x] = "running"
        PROVE  WillSee(x)' = Visibility(room', watched', x[1])
    <3>1. x[1] \in Rooms \ {d} /\ work[x] = "running" /\ told'[x] = told[x] /\ seen'[x] = seen[x]
      BY <1>2, <2>2
    <3>2. WillSee(x)' = WillSee(x)
      BY <3>1 DEF WillSee
    <3>3. Visibility(room', watched', x[1]) = Visibility(room, watched, x[1])
      BY <1>1, <1>4, <3>1 DEF Visibility, IsObservable
    <3>4. QED
      BY <3>1, <3>2, <3>3 DEF DirectoryInv, DirectorySound, ObserversAreTold
  <2>3. QED
    BY <2>1, <2>2 DEF ObserversAreTold
<1>11. QED
  BY <1>5, <1>7, <1>8, <1>9, <1>10 DEF DirectoryInv, DirectorySound

LEMMA DeletionAnsweredInv ==
    ASSUME DirectoryInv, NEW r \in Rooms, DeletionAnswered(r)
    PROVE  DirectoryInv'
<1> DEFINE rs == {r}
<1>1. /\ purged' = purged \ {r} /\ UNCHANGED <<standing, group, projects, room, deleting, work>>
      /\ Reconcile(room', rs)
  BY DEF DeletionAnswered
<1>2. /\ \A q \in Rooms \ rs : room'[q] = room[q]
      /\ purged' \subseteq purged /\ purged \ purged' \subseteq rs
      /\ \A q \in purged : room'[q] = Gone
  BY <1>1 DEF DirectoryInv, GoneIsIdle
<1> HIDE DEF rs
<1>3. /\ watched' \in Rooms \union {Nowhere}
      /\ told' \in [Jobs -> Seq(Views)] /\ seen' = seen
      /\ ObserversAreTold'
  BY <1>1, <1>2, ReconcileTells
<1>4. /\ work' \in [Jobs -> {"none", "pending", "running"}] /\ seen' \in [Jobs -> Views]
      /\ deleting' \in Rooms \union {Nowhere}
  BY <1>1, <1>3 DEF DirectoryInv, DirectoryTypes
<1>5. QED
  BY <1>1, <1>2, <1>3, <1>4, WorkStep

-----------------------------------------------------------------------------
(* Messages, runs and what is observed *)

(* Steps that leave the runs and what is observed as they are.             *)
LEMMA RequestStep ==
    ASSUME DirectoryInv,
           UNCHANGED <<standing, group, projects, room, purged, work, watchVars>>,
           deleting' \in Rooms \union {Nowhere}
    PROVE  DirectoryInv'
<1>1. /\ work \in [Jobs -> {"none", "pending", "running"}]
      /\ watched \in Rooms \union {Nowhere}
      /\ told \in [Jobs -> Seq(Views)] /\ seen \in [Jobs -> Views]
  BY DEF DirectoryInv, DirectoryTypes
<1>2. \A x : WillSee(x)' = WillSee(x)
  BY DEF WillSee, watchVars
<1>3. ObserversAreTold'
  BY <1>2 DEF DirectoryInv, DirectorySound, ObserversAreTold, watchVars
<1>4. QED
  BY <1>1, <1>3, WorkStep DEF watchVars

(* Runs of one Space and Account begin, go on or end; the others hear and  *)
(* report what they did.                                                   *)
LEMMA RunStep ==
    ASSUME DirectoryInv, NEW x \in Jobs, NEW st \in {"none", "pending", "running"},
           NEW q \in Seq(Views), NEW v \in Views,
           work' = [work EXCEPT ![x] = st], told' = [told EXCEPT ![x] = q],
           seen' = [seen EXCEPT ![x] = v],
           st # "none" => work[x] # "none",
           st = "running" => WillSee(x)' = Visibility(room, watched, x[1]),
           UNCHANGED <<standing, group, projects, room, deleting, purged, watched>>
    PROVE  DirectoryInv'
<1>1. /\ work \in [Jobs -> {"none", "pending", "running"}]
      /\ watched \in Rooms \union {Nowhere} /\ deleting \in Rooms \union {Nowhere}
      /\ told \in [Jobs -> Seq(Views)] /\ seen \in [Jobs -> Views]
  BY DEF DirectoryInv, DirectoryTypes
<1>2. /\ work' \in [Jobs -> {"none", "pending", "running"}]
      /\ told' \in [Jobs -> Seq(Views)] /\ seen' \in [Jobs -> Views]
  BY <1>1
<1>3. \A r \in Rooms, m \in Members : work'[<<r, m>>] # "none" => work[<<r, m>>] # "none"
  BY <1>1
<1>4. ASSUME NEW y \in Jobs, work'[y] = "running"
      PROVE  WillSee(y)' = Visibility(room, watched, y[1])
  <2>1. CASE y = x
    BY <1>1, <1>4, <2>1
  <2>2. CASE y # x
    <3>1. work[y] = "running" /\ told'[y] = told[y] /\ seen'[y] = seen[y]
      BY <1>1, <1>4, <2>2
    <3>2. WillSee(y)' = WillSee(y)
      BY <3>1 DEF WillSee
    <3>3. QED
      BY <3>1, <3>2 DEF DirectoryInv, DirectorySound, ObserversAreTold
  <2>3. QED
    BY <2>1, <2>2
<1>5. ObserversAreTold'
  <2>1. watched' \in Rooms \ purged' => IsObservable(room', watched')
    BY DEF DirectoryInv, DirectorySound, ObserversAreTold
  <2>2. QED
    BY <1>4, <2>1 DEF ObserversAreTold
<1>6. QED
  BY <1>1, <1>2, <1>3, <1>5, WorkStep

LEMMA PostInv ==
    ASSUME DirectoryInv, NEW r \in Rooms, NEW respond \in SUBSET Members, Post(r, respond)
    PROVE  DirectoryInv'
<1>1. /\ work \in [Jobs -> {"none", "pending", "running"}]
      /\ watched \in Rooms \union {Nowhere} /\ deleting \in Rooms \union {Nowhere}
      /\ told \in [Jobs -> Seq(Views)] /\ seen \in [Jobs -> Views]
  BY DEF DirectoryInv, DirectoryTypes
<1>2. /\ Exists(r) /\ respond \subseteq room[r].seats
      /\ UNCHANGED <<standing, group, projects, room, deleting, purged, watched, told, seen>>
  BY DEF Post, MayRespond, watchVars
<1>3. work' = [x \in Jobs |->
                 IF x[1] = r /\ x[2] \in respond /\ work[x] = "none" THEN "pending" ELSE work[x]]
  BY DEF Post
<1>4. /\ work' \in [Jobs -> {"none", "pending", "running"}]
      /\ \A x \in Jobs : work'[x] = "running" => work[x] = "running"
  BY <1>1, <1>3
<1>5. \A q \in Rooms, m \in Members :
          work'[<<q, m>>] # "none" => work[<<q, m>>] # "none" \/ (Exists(q) /\ m \in room[q].seats)
  BY <1>2, <1>3
<1>6. ObserversAreTold'
  <2>1. \A x : WillSee(x)' = WillSee(x)
    BY <1>2 DEF WillSee
  <2>2. QED
    BY <1>2, <1>4, <2>1 DEF DirectoryInv, DirectorySound, ObserversAreTold
<1>7. QED
  BY <1>1, <1>2, <1>4, <1>5, <1>6, WorkStep

(* run.requested carries what is true at that moment.                      *)
LEMMA StartRunInv ==
    ASSUME DirectoryInv, NEW x \in Jobs, StartRun(x)
    PROVE  DirectoryInv'
<1> DEFINE v == Visibility(room, watched, x[1])
           q == <<>>
<1>1. v \in Views /\ q \in Seq(Views)
  BY DEF Visibility
<1>2. /\ work' = [work EXCEPT ![x] = "running"] /\ told' = [told EXCEPT ![x] = q]
      /\ seen' = [seen EXCEPT ![x] = v] /\ work[x] # "none"
      /\ UNCHANGED <<standing, group, projects, room, deleting, purged, watched>>
  BY DEF StartRun
<1>3. told'[x] = <<>> /\ seen'[x] = v
  BY <1>2 DEF DirectoryInv, DirectoryTypes
<1>4. WillSee(x)' = v
  BY <1>3 DEF WillSee
<1> HIDE DEF v, q
<1>5. QED
  BY <1>1, <1>2, <1>4, RunStep DEF v

LEMMA WorkEndsInv ==
    ASSUME DirectoryInv, NEW x \in Jobs, WorkEnds(x)
    PROVE  DirectoryInv'
<1> DEFINE q == <<>>
<1>1. q \in Seq(Views) /\ told' = [told EXCEPT ![x] = q]
      /\ work' = [work EXCEPT ![x] = "none"] /\ seen' = [seen EXCEPT ![x] = "status-only"]
      /\ UNCHANGED <<standing, group, projects, room, deleting, purged, watched>>
  BY DEF WorkEnds
<1> HIDE DEF q
<1>2. QED
  BY <1>1, RunStep

(* An update that is heard is replaced by the ones behind it.              *)
LEMMA HearVisibilityInv ==
    ASSUME DirectoryInv, NEW x \in Jobs, HearVisibility(x)
    PROVE  DirectoryInv'
<1> DEFINE q == Tail(told[x])
           v == Head(told[x])
<1>1. /\ told[x] \in Seq(Views) /\ told[x] # <<>> /\ work[x] \in {"none", "pending", "running"}
      /\ DOMAIN told = Jobs /\ DOMAIN seen = Jobs /\ DOMAIN work = Jobs
      /\ work \in [Jobs -> {"none", "pending", "running"}]
  BY DEF HearVisibility, DirectoryInv, DirectoryTypes
<1>2. q \in Seq(Views) /\ v \in Views
  BY <1>1, HeadTailProperties
<1>3. /\ told' = [told EXCEPT ![x] = q] /\ seen' = [seen EXCEPT ![x] = v]
      /\ work' = [work EXCEPT ![x] = work[x]]
      /\ UNCHANGED <<standing, group, projects, room, deleting, purged, watched>>
  BY <1>1 DEF HearVisibility
<1>4. told'[x] = q /\ seen'[x] = v
  BY <1>1, <1>3
<1>5. WillSee(x)' = WillSee(x)
  <2>1. /\ Len(q) \in Nat /\ Len(told[x]) \in Nat /\ Len(q) = Len(told[x]) - 1
        /\ v = told[x][1] /\ \A i \in 1 .. Len(q) : q[i] = told[x][i + 1]
    BY <1>1, HeadTailProperties
  <2>2. q = <<>> <=> Len(q) = 0
    BY <1>2, EmptySeq
  <2> DEFINE n == Len(q)
             k == Len(told[x])
  <2>3. WillSee(x) = told[x][k]
    BY <1>1 DEF WillSee
  <2>4. WillSee(x)' = IF n = 0 THEN v ELSE q[n]
    BY <1>4, <2>2 DEF WillSee
  <2>5. n \in Nat /\ k = n + 1 /\ \A i \in 1 .. n : q[i] = told[x][i + 1]
    BY <2>1
  <2> HIDE DEF n, k, q, v
  <2>6. QED
    BY <2>1, <2>3, <2>4, <2>5
<1>6. work[x] = "running" => WillSee(x)' = Visibility(room, watched, x[1])
  BY <1>5 DEF DirectoryInv, DirectorySound, ObserversAreTold
<1> HIDE DEF q, v
<1>7. QED
  BY <1>1, <1>2, <1>3, <1>6, RunStep

LEMMA ObserveInv ==
    ASSUME DirectoryInv, NEW w \in Rooms \union {Nowhere}, Observe(w)
    PROVE  DirectoryInv'
<1>1. /\ CommitWatch(room, w)
      /\ w # Nowhere => IsObservable(room, w)
      /\ UNCHANGED <<standing, group, projects, room, deleting, purged, work>>
  BY DEF Observe
<1>2. /\ work \in [Jobs -> {"none", "pending", "running"}]
      /\ deleting \in Rooms \union {Nowhere} /\ seen \in [Jobs -> Views]
      /\ \A x \in Jobs : work[x] = "running" => WillSee(x) = Visibility(room, watched, x[1])
  BY DEF DirectoryInv, DirectoryTypes, DirectorySound, ObserversAreTold
<1>3. CASE w = watched
  <2>1. UNCHANGED watchVars
    BY <1>1, <1>3 DEF CommitWatch, watchVars
  <2>2. QED
    BY <1>1, <1>2, <2>1, RequestStep
<1>4. CASE w # watched
  <2>1. /\ watched' = w
        /\ told' \in [Jobs -> Seq(Views)] /\ seen' = seen
        /\ \A x \in Jobs : work'[x] = "running" => WillSee(x)' = Visibility(room, w, x[1])
    BY <1>1, <1>2, <1>4, CommitWatchTells DEF DirectoryInv
  <2>2. ObserversAreTold'
    BY <1>1, <2>1 DEF ObserversAreTold
  <2>3. QED
    BY <1>1, <1>2, <2>1, <2>2, WorkStep
<1>5. QED
  BY <1>3, <1>4

(* A restart ends all runs and nothing is observed.                        *)
LEMMA RestartDirectoryInv ==
    ASSUME DirectoryInv, RestartDirectory
    PROVE  DirectoryInv'
<1>1. /\ UNCHANGED <<standing, group, projects, room>>
      /\ purged' = {} /\ deleting' = Nowhere /\ watched' = Nowhere
      /\ \A x \in Jobs : work'[x] = "none"
      /\ work' \in [Jobs -> {"none", "pending", "running"}]
      /\ told' \in [Jobs -> Seq(Views)] /\ seen' \in [Jobs -> Views]
  BY DEF RestartDirectory
<1>2. ObserversAreTold'
  BY <1>1 DEF ObserversAreTold
<1>3. QED
  BY <1>1, <1>2, WorkStep

-----------------------------------------------------------------------------
(* The invariant holds in every state: each request of spaces.js,          *)
(* groups.js, projects.js, accounts and observation.js checks what the     *)
(* others rely on, and a deletion leaves nothing behind that works.        *)
THEOREM DirectoryInvInductive == DirectorySpec => []DirectoryInv
<1>1. DirectoryInit => DirectoryInv
  <2> SUFFICES ASSUME DirectoryInit PROVE DirectoryInv
    OBVIOUS
  <2>1. \A r \in Rooms : ~Exists(r) /\ room[r] = NoRoom
    BY DEF DirectoryInit, Exists
  <2>2. DirectoryTypes
    BY DEF DirectoryInit, DirectoryTypes
  <2>3. GoneIsIdle
    BY DEF DirectoryInit, GoneIsIdle
  <2>4. ReferencesExist /\ WorkersAreMembers
    BY <2>1 DEF DirectoryInit, ReferencesExist, WorkersAreMembers
  <2>5. ObserversAreTold
    BY DEF DirectoryInit, ObserversAreTold
  <2>6. QED
    BY <2>2, <2>3, <2>4, <2>5 DEF DirectoryInv, DirectorySound
<1>2. DirectoryInv /\ [DirectoryNext]_directoryVars => DirectoryInv'
  <2> SUFFICES ASSUME DirectoryInv, [DirectoryNext]_directoryVars PROVE DirectoryInv'
    OBVIOUS
  <2> HIDE DEF RoomRows, Views, Jobs
  <2>1. CASE UNCHANGED directoryVars
    <3>1. deleting \in Rooms \union {Nowhere}
      BY DEF DirectoryInv, DirectoryTypes
    <3>2. QED
      BY <2>1, <3>1, RequestStep DEF directoryVars, watchVars
  <2>2. ASSUME NEW m \in Members, CreateAccount(m) \/ DeleteUnownedAccount(m) \/ EnrolMember(m)
        PROVE  DirectoryInv'
    BY <2>2, AccountsComeAndGo
  <2>3. ASSUME NEW g \in Groups, NEW ms \in SUBSET Members, CreateGroup(g, ms) \/ UpdateGroup(g, ms)
        PROVE  DirectoryInv'
    BY <2>3, GroupsComeAndGo, UpdateGroupInv
  <2>4. ASSUME NEW g \in Groups, DeleteGroup(g) PROVE DirectoryInv'
    <3>1. {} \in SUBSET Members
      OBVIOUS
    <3>2. QED
      BY <2>4, <3>1, GroupsComeAndGo
  <2>5. ASSUME NEW p \in Projects, CreateProject(p) \/ DeleteProject(p) PROVE DirectoryInv'
    BY <2>5, ProjectsComeAndGo
  <2>6. ASSUME NEW r \in Rooms, NEW seats \in SUBSET Members, NEW g \in Groups \union {Nowhere},
               NEW p \in Projects \union {Nowhere}, CreateSpace(r, seats, g, p)
        PROVE  DirectoryInv'
    BY <2>6, CreateSpaceInv
  <2>7. ASSUME NEW r \in Rooms, NEW seats \in SUBSET Members, NEW p \in Projects \union {Nowhere},
               UpdateSpace(r, seats, p)
        PROVE  DirectoryInv'
    BY <2>7, UpdateSpaceInv
  <2>8. ASSUME NEW r \in Rooms, Archive(r) \/ RestoreArchived(r) \/ DeletionAnswered(r)
        PROVE  DirectoryInv'
    BY <2>8, ArchiveInv, DeletionAnsweredInv
  <2>9. ASSUME NEW r \in Rooms, BeginDeletion(r) \/ BeginPost(r) \/ PostRefused(r) \/ Compact(r)
        PROVE  DirectoryInv'
    <3>1. /\ UNCHANGED <<standing, group, projects, room, purged, work, watchVars>>
          /\ deleting' \in Rooms \union {Nowhere}
      BY <2>9 DEF BeginDeletion, BeginPost, PostRefused, Compact, DirectoryInv, DirectoryTypes
    <3>2. QED
      BY <3>1, RequestStep
  <2>10. ASSUME NEW r \in Rooms, NEW respond \in SUBSET Members, Post(r, respond)
         PROVE  DirectoryInv'
    BY <2>10, PostInv
  <2>11. ASSUME NEW x \in Rooms \X Members, StartRun(x) \/ WorkEnds(x) \/ HearVisibility(x)
         PROVE  DirectoryInv'
    BY <2>11, StartRunInv, WorkEndsInv, HearVisibilityInv DEF Jobs
  <2>12. ASSUME NEW w \in Rooms \union {Nowhere}, Observe(w) PROVE DirectoryInv'
    BY <2>12, ObserveInv
  <2>13. CASE Purge
    BY <2>13, PurgeInv
  <2>14. CASE RestartDirectory
    BY <2>14, RestartDirectoryInv
  <2>15. QED
    BY <2>1, <2>2, <2>3, <2>4, <2>5, <2>6, <2>7, <2>8, <2>9, <2>10, <2>11, <2>12, <2>13, <2>14
       DEF DirectoryNext
<1>3. QED
  BY <1>1, <1>2, PTL DEF DirectorySpec

(* The directory stays consistent whatever requests meet: references       *)
(* exist, work in a Group's Space is its members', and who reports the     *)
(* details of what it does is told so (spaces.js, groups.js,               *)
(* observation.js).                                                        *)
THEOREM DirectoryIsSound == DirectorySpec => []DirectorySound
<1>1. DirectoryInv => DirectorySound
  BY DEF DirectoryInv
<1>2. QED
  BY <1>1, DirectoryInvInductive, PTL

-----------------------------------------------------------------------------
(* Updates of the gateway *)

Steps   == {"taken", "checkRollback", "fetch", "prepare", "backup", "switch", "start", "healthy",
            "succeed"} \union Restoring
Targets == Releases \union {"none"}

Requests == {r \in [id : Ids, action : {"check", "apply", "candidate", "rollback"}, target : Targets] :
               r.action \in {"candidate", "rollback"} => r.target \in Releases}

RunnerTypes == [at : Steps, req : Requests, old : Releases, copy : Nat]
MetaTypes   == [candidate : Releases, previous : Releases, copy : Ids]

UpdateTypes ==
    /\ remote \in Releases /\ release \in Releases
    /\ preparing \subseteq Requests /\ request \in Requests \union {NoRequest}
    /\ upStatus.target \in Targets
    /\ data \in SUBSET Nat /\ backups \in [Ids -> SUBSET Nat]
    /\ before \in [Ids -> [release : Releases, data : SUBSET Nat]]
    /\ runner \in RunnerTypes \union {NoRunner} /\ rollbackMeta \in MetaTypes \union {NoMeta}
    /\ nextId \in Nat \ {0}

(* The runner before it has stopped the service for an apply or candidate, *)
(* and for the whole of a rollback.                                        *)
Early    == {"taken", "checkRollback", "fetch", "prepare", "backup"}
RollsBack == runner.at \in Early \/ (runner.at \in Restoring /\ runner.req.action = "rollback")

(* Operations that have not noted what they found or will never copy it.   *)
Waiting(i) == \E r \in preparing \union {request} : r \in Requests /\ r.id = i
Unnoted(i) == i >= nextId \/ Waiting(i) \/ (RollsBack /\ op = i)

(* Operations that have not let a release write.                           *)
Unwritten(i) == Unnoted(i) \/ (runner.at \in {"switch", "start"} /\ op = i)

(* No two requests have the same operation.                                *)
RequestsApart ==
    /\ \A r \in preparing : r.id < nextId
    /\ \A r, q \in preparing : r.id = q.id => r = q
    /\ request # NoRequest => request.id < nextId /\ \A r \in preparing : r.id # request.id
    /\ runner # NoRunner => op < nextId /\ \A i \in Ids : Waiting(i) => i # op

(* The copy of an operation is what it found; before there is one there is *)
(* nothing, and nothing was written under its release.                     *)
CopiesSound ==
    /\ \A i \in Ids : Unnoted(i) => backups[i] = Missing
    /\ \A i \in Ids : i \notin backups[i]
    /\ \A i \in Ids : Unwritten(i) => i \notin data /\ \A j \in Ids : i \notin backups[j]

Undoes(i, was) == before[i].release = was /\ before[i].data = backups[i]

(* What the runner would go back to is what the operation found.           *)
RunnerSound ==
    /\ runner.at = "backup" => runner.old = release
    /\ runner.at = "fetch" => runner.req.action # "rollback"
    /\ runner.at = "checkRollback" => runner.req.action = "rollback"
    /\ runner.at \in {"prepare", "backup", "switch", "start", "healthy", "succeed"} =>
         runner.req.target \in Releases /\ runner.req.action \notin {"check", "rollback"}
    /\ runner.at \in {"switch", "start", "healthy", "succeed"} \union Restoring =>
         /\ runner.copy \in Ids /\ ~Unnoted(runner.copy) /\ Undoes(runner.copy, runner.old)
         /\ runner.req.action # "rollback" => runner.copy = op
    /\ runner.at \in {"switch", "start"} => data = backups[op]
    /\ runner.at \in Restoring \ {"restore"} => release = runner.old
    /\ runner.at = "copyData" => data = Missing
    /\ runner.at \in {"restart", "report"} => data = backups[runner.copy]
    /\ runner.at = "report" => service = release

MetaSound ==
    rollbackMeta # NoMeta => /\ ~Unnoted(rollbackMeta.copy)
                             /\ Undoes(rollbackMeta.copy, rollbackMeta.previous)

AllKept == \A i \in Ids : Kept(before[i].data)

UpdateInv == UpdateTypes /\ RequestsApart /\ CopiesSound /\ RunnerSound /\ MetaSound /\ AllKept

-----------------------------------------------------------------------------

(* A runner that is at work has an operation.                              *)
LEMMA RunnerFacts ==
    ASSUME UpdateTypes
    PROVE  /\ runner \in RunnerTypes <=> runner.at \in Steps
           /\ runner \in RunnerTypes <=> runner # NoRunner
           /\ runner \in RunnerTypes => runner.req \in Requests
           /\ runner \notin RunnerTypes => runner.at = "idle"
BY DEF UpdateTypes, RunnerTypes, NoRunner, Steps, Restoring

LEMMA RequestFacts ==
    ASSUME NEW r \in Requests
    PROVE  /\ r # NoRequest /\ r.id \in Ids /\ r.target \in Targets
           /\ r.action \in {"check", "apply", "candidate", "rollback"}
           /\ r.action \in {"candidate", "rollback"} => r.target \in Releases
BY DEF Requests, NoRequest

LEMMA CopyFacts == /\ Missing \in SUBSET Nat /\ Partial \in SUBSET Nat
                   /\ \A i \in Ids : i \in Nat /\ i \notin Missing /\ i \notin Partial
BY UpdateAssumption DEF Missing, Partial, Ids

-----------------------------------------------------------------------------
(* Steps by what they change *)

(* No operation is new: what was noted stays noted.                        *)
Fewer == \A i \in Ids : /\ Unnoted(i)' => Unnoted(i)
                        /\ Unwritten(i)' => Unwritten(i)

LEMMA CopiesStay ==
    ASSUME UpdateInv, Fewer, UNCHANGED <<data, backups, aside, before, rollbackMeta>>
    PROVE  CopiesSound' /\ MetaSound' /\ AllKept'
<1>1. CopiesSound'
  BY DEF UpdateInv, Fewer, CopiesSound
<1>2. MetaSound'
  BY DEF UpdateInv, Fewer, MetaSound, Undoes, UpdateTypes, MetaTypes, NoMeta
<1>3. AllKept'
  BY DEF UpdateInv, AllKept, Kept
<1>4. QED
  BY <1>1, <1>2, <1>3

(* The runner goes on, or ends.                                            *)
Onwards ==
    /\ runner \in RunnerTypes
    /\ preparing' = preparing /\ nextId' = nextId /\ request' \in {request, NoRequest}
    /\ \/ runner' = NoRunner
       \/ /\ runner' \in RunnerTypes /\ runner'.req = runner.req
          /\ RollsBack' => RollsBack
          /\ runner'.at \in {"switch", "start"} => RollsBack \/ runner.at \in {"switch", "start"}

LEMMA OnwardsFewer ==
    ASSUME UpdateInv, Onwards
    PROVE  Fewer /\ RequestsApart'
<1>1. \A i : Waiting(i)' => Waiting(i)
  BY RequestFacts DEF Onwards, Waiting
<1>2. runner' = NoRunner => ~RollsBack' /\ runner'.at \notin {"switch", "start"}
  BY DEF NoRunner, RollsBack, Early, Restoring
<1>3. runner' # NoRunner => op' = op
  BY DEF Onwards, op
<1>4. Fewer
  BY <1>1, <1>2, <1>3 DEF Fewer, Unnoted, Unwritten, Onwards
<1>5. RequestsApart'
  <2>1. runner # NoRunner
    BY RunnerFacts DEF UpdateInv, Onwards
  <2>2. /\ (\A r \in preparing : r.id < nextId)' /\ (\A r, q \in preparing : r.id = q.id => r = q)'
    BY DEF UpdateInv, RequestsApart, Onwards
  <2>3. (request # NoRequest => request.id < nextId /\ \A r \in preparing : r.id # request.id)'
    BY DEF UpdateInv, RequestsApart, Onwards
  <2>4. (runner # NoRunner => op < nextId /\ \A i \in Ids : Waiting(i) => i # op)'
    BY <2>1, <1>1, <1>3 DEF UpdateInv, RequestsApart, Onwards
  <2>5. QED
    BY <2>2, <2>3, <2>4 DEF RequestsApart
<1>6. QED
  BY <1>4, <1>5

(* A runner that ends has nothing to go back to.                           *)
LEMMA EndedRunner ==
    ASSUME runner' = NoRunner
    PROVE  RunnerSound'
BY DEF NoRunner, RunnerSound, Restoring
-----------------------------------------------------------------------------
(* The runner before it stops the service *)

USE DEF updateVars, Goto, Status

LEMMA AnnounceInv ==
    ASSUME UpdateInv, Announce
    PROVE  UpdateInv'
<1>1. runner \in RunnerTypes /\ runner.req \in Requests /\ UpdateTypes
  BY RunnerFacts DEF UpdateInv, Announce, Steps
<1>2. PICK at \in {"checkRollback", "fetch"} :
            /\ runner' = [runner EXCEPT !.at = at]
            /\ at = "fetch" <=> runner.req.action # "rollback"
  BY DEF Announce
<1>3. runner' \in RunnerTypes /\ runner'.at = at /\ runner'.req = runner.req
  BY <1>1, <1>2 DEF RunnerTypes, Steps
<1>4. UpdateTypes'
  BY <1>1, <1>3, RequestFacts DEF UpdateTypes, Announce
<1>5. Onwards
  BY <1>1, <1>3 DEF Onwards, Announce, RollsBack, Early, Restoring
<1>6. RunnerSound'
  BY <1>2, <1>3 DEF RunnerSound, Restoring
<1>7. QED
  BY <1>4, <1>5, <1>6, OnwardsFewer, CopiesStay DEF UpdateInv, Announce

LEMMA FinishCheckInv ==
    ASSUME UpdateInv, FinishCheck
    PROVE  UpdateInv'
<1>1. runner \in RunnerTypes /\ runner.req \in Requests /\ UpdateTypes
  BY RunnerFacts DEF UpdateInv, FinishCheck, Steps
<1>2. UpdateTypes'
  <2>1. upStatus'.target \in Targets
    BY <1>1, RequestFacts DEF FinishCheck, UpdateTypes, Fetched, Targets
  <2>2. QED
    BY <1>1, <2>1 DEF UpdateTypes, FinishCheck
<1>3. Onwards
  BY <1>1 DEF Onwards, FinishCheck
<1>4. QED
  BY <1>2, <1>3, OnwardsFewer, CopiesStay, EndedRunner DEF UpdateInv, FinishCheck

(* A request that fails is over.                                           *)
LEMMA FailRequestEnds ==
    ASSUME UpdateInv, runner \in RunnerTypes, FailRequest, preparing' = preparing, nextId' = nextId,
           UNCHANGED <<data, backups, aside, before, rollbackMeta, remote, release>>
    PROVE  UpdateInv'
<1>1. runner.req \in Requests /\ UpdateTypes
  BY RunnerFacts DEF UpdateInv
<1>2. UpdateTypes'
  BY <1>1, RequestFacts DEF UpdateTypes, FailRequest
<1>3. Onwards
  BY DEF Onwards, FailRequest
<1>4. QED
  BY <1>2, <1>3, OnwardsFewer, CopiesStay, EndedRunner DEF UpdateInv, FailRequest

LEMMA BeginUpdateInv ==
    ASSUME UpdateInv, BeginUpdate
    PROVE  UpdateInv'
<1>1. runner \in RunnerTypes /\ runner.req \in Requests /\ UpdateTypes
  BY RunnerFacts DEF UpdateInv, BeginUpdate, Steps
<1>2. CASE Fetched # runner.req.target
  BY <1>1, <1>2, FailRequestEnds DEF BeginUpdate
<1>3. CASE Fetched = runner.req.target
  <2>1. /\ runner' = [runner EXCEPT !.at = "prepare"] /\ UNCHANGED request
        /\ upStatus' = Status("updating", op, Fetched)
    BY <1>3 DEF BeginUpdate
  <2>2. runner' \in RunnerTypes /\ runner'.at = "prepare" /\ runner'.req = runner.req
    BY <1>1, <2>1 DEF RunnerTypes, Steps
  <2>3. UpdateTypes'
    BY <1>1, <1>3, <2>1, <2>2, RequestFacts DEF UpdateTypes, BeginUpdate
  <2>4. Onwards
    BY <1>1, <2>1, <2>2 DEF Onwards, BeginUpdate, RollsBack, Early
  <2>5. runner.req.target \in Releases /\ runner.req.action # "check"
    BY <1>1, <1>3, RequestFacts DEF BeginUpdate, Fetched, UpdateTypes
  <2>6. runner.req.action # "rollback"
    BY DEF UpdateInv, RunnerSound, BeginUpdate
  <2>7. RunnerSound'
    BY <2>2, <2>5, <2>6 DEF RunnerSound, Restoring
  <2>8. QED
    BY <2>3, <2>4, <2>7, OnwardsFewer, CopiesStay DEF UpdateInv, BeginUpdate
<1>4. QED
  BY <1>2, <1>3

LEMMA PrepareReleaseInv ==
    ASSUME UpdateInv, PrepareRelease
    PROVE  UpdateInv'
<1>1. runner \in RunnerTypes /\ runner.req \in Requests /\ UpdateTypes
  BY RunnerFacts DEF UpdateInv, PrepareRelease, Steps
<1>2. CASE FailRequest
  BY <1>1, <1>2, FailRequestEnds DEF PrepareRelease
<1>3. CASE /\ runner' = [runner EXCEPT !.at = "backup", !.old = release]
           /\ UNCHANGED <<request, upStatus>>
  <2>1. /\ runner' \in RunnerTypes /\ runner'.at = "backup" /\ runner'.req = runner.req
        /\ runner'.old = release
    BY <1>1, <1>3 DEF RunnerTypes, Steps, UpdateTypes
  <2>2. UpdateTypes'
    BY <1>1, <1>3, <2>1 DEF UpdateTypes, PrepareRelease
  <2>3. Onwards
    BY <1>1, <1>3, <2>1 DEF Onwards, PrepareRelease, RollsBack, Early
  <2>4. runner.req.target \in Releases /\ runner.req.action \notin {"check", "rollback"}
    BY DEF UpdateInv, RunnerSound, PrepareRelease
  <2>5. RunnerSound'
    BY <2>1, <2>4 DEF RunnerSound, Restoring, PrepareRelease
  <2>6. QED
    BY <2>2, <2>3, <2>5, OnwardsFewer, CopiesStay DEF UpdateInv, PrepareRelease
<1>4. QED
  BY <1>2, <1>3 DEF PrepareRelease
-----------------------------------------------------------------------------
(* From the copy to the end of an update *)

(* What was noted and copied for one operation only.                       *)
LEMMA BackupDataInv ==
    ASSUME UpdateInv, BackupData
    PROVE  UpdateInv'
<1>1. runner \in RunnerTypes /\ runner.req \in Requests /\ op \in Ids /\ UpdateTypes
  BY RunnerFacts, RequestFacts DEF UpdateInv, BackupData, Steps, op
<1>2. /\ runner' \in RunnerTypes /\ runner'.at = "switch" /\ runner'.req = runner.req
      /\ runner'.old = release /\ runner'.copy = op
  <2>1. runner' = [runner EXCEPT !.at = "switch", !.copy = op] /\ op \in Nat
    BY <1>1 DEF BackupData, Ids
  <2>2. runner.old = release
    BY DEF UpdateInv, RunnerSound, BackupData
  <2>3. QED
    BY <1>1, <2>1, <2>2 DEF RunnerTypes, Steps
<1>3. Onwards
  BY <1>1, <1>2 DEF Onwards, BackupData, RollsBack, Early, Restoring
<1>4. Fewer /\ RequestsApart' /\ \A i \in Ids : Unnoted(i)' => i # op
  <2>1. Fewer /\ RequestsApart'
    BY <1>3, OnwardsFewer
  <2>2. op < nextId /\ \A i \in Ids : Waiting(i) => i # op
    BY <1>1, RunnerFacts DEF UpdateInv, RequestsApart
  <2>3. \A i \in Ids : Waiting(i)' => i # op
    BY <2>2 DEF Waiting, BackupData
  <2>4. QED
    BY <1>1, <1>2, <2>1, <2>2, <2>3 DEF Unnoted, BackupData, RollsBack, Early, Restoring, UpdateTypes, Ids
<1>5. /\ backups' = [backups EXCEPT ![op] = data] /\ backups' \in [Ids -> SUBSET Nat]
      /\ before' = [before EXCEPT ![op] = [release |-> release, data |-> data]]
      /\ before' \in [Ids -> [release : Releases, data : SUBSET Nat]]
  BY <1>1 DEF BackupData, Noted, UpdateTypes
<1>6. UpdateTypes'
  BY <1>1, <1>2, <1>5 DEF UpdateTypes, BackupData
<1>7. Unnoted(op) /\ op \notin data /\ backups[op] = Missing
  <2>1. Unnoted(op)
    BY DEF Unnoted, RollsBack, Early, BackupData
  <2>2. QED
    BY <1>1, <2>1 DEF Unwritten, UpdateInv, CopiesSound
<1>8. CopiesSound'
  <2>1. \A i \in Ids : Unnoted(i)' => backups'[i] = Missing
    BY <1>1, <1>4, <1>5 DEF Fewer, UpdateInv, CopiesSound, UpdateTypes
  <2>2. \A i \in Ids : i \notin backups'[i]
    BY <1>1, <1>5, <1>7 DEF UpdateInv, CopiesSound, UpdateTypes
  <2>3. \A i \in Ids : Unwritten(i)' => i \notin data' /\ \A j \in Ids : i \notin backups'[j]
    BY <1>1, <1>4, <1>5 DEF Fewer, UpdateInv, CopiesSound, UpdateTypes, BackupData
  <2>4. Missing' = Missing
    BY DEF Missing
  <2>5. QED
    BY <2>1, <2>2, <2>3, <2>4 DEF CopiesSound
<1>9. RunnerSound'
  <2>1. Undoes(op, release)' /\ (data = backups[op])'
    BY <1>1, <1>2, <1>5 DEF Undoes, BackupData, UpdateTypes, op
  <2>2. runner.req.target \in Releases /\ runner.req.action \notin {"check", "rollback"}
    BY DEF UpdateInv, RunnerSound, BackupData
  <2>3. QED
    BY <1>1, <1>2, <1>4, <2>1, <2>2 DEF RunnerSound, Restoring, BackupData, op, Undoes
<1>10. MetaSound'
  <2>1. CASE rollbackMeta # NoMeta
    <3>1. /\ rollbackMeta.copy \in Ids /\ ~Unnoted(rollbackMeta.copy)
          /\ Undoes(rollbackMeta.copy, rollbackMeta.previous)
      BY <1>1, <2>1 DEF UpdateInv, MetaSound, UpdateTypes, MetaTypes
    <3>2. rollbackMeta.copy # op
      BY <3>1, <1>7
    <3>3. QED
      BY <1>1, <1>4, <1>5, <3>1, <3>2 DEF MetaSound, Undoes, Fewer, BackupData, UpdateTypes
  <2>2. CASE rollbackMeta = NoMeta
    BY <2>2 DEF MetaSound, BackupData
  <2>3. QED
    BY <2>1, <2>2
<1>11. AllKept'
  <2>1. \A i \in Ids : Kept(before[i].data)
    BY DEF UpdateInv, AllKept
  <2>2. \A d : Kept(d) => Kept(d)'
    BY <1>1, <1>5, <1>7 DEF Kept, BackupData, UpdateTypes, Missing
  <2>3. Kept(data)'
    BY DEF Kept, BackupData
  <2>4. \A i \in Ids : before'[i].data = data \/ before'[i].data = before[i].data
    BY <1>1, <1>5 DEF UpdateTypes
  <2>5. data' = data
    BY DEF BackupData
  <2>6. \A i \in Ids : (Kept(before[i].data))'
    BY <2>1, <2>2, <2>3, <2>4, <2>5 DEF Kept
  <2>7. QED
    BY <2>6 DEF AllKept
<1>12. QED
  BY <1>4, <1>6, <1>8, <1>9, <1>10, <1>11 DEF UpdateInv

(* What the runner holds once it has stopped the service.                  *)
LEMMA StoppedFacts ==
    ASSUME UpdateInv, runner.at \in {"switch", "start", "healthy", "succeed"} \union Restoring
    PROVE  /\ runner \in RunnerTypes /\ runner.req \in Requests /\ op \in Ids /\ UpdateTypes
           /\ runner.copy \in Ids /\ ~Unnoted(runner.copy) /\ Undoes(runner.copy, runner.old)
           /\ runner.old \in Releases
           /\ runner.req.action # "rollback" => runner.copy = op
           /\ runner.at \notin Restoring => runner.req.target \in Releases
                                            /\ runner.req.action \notin {"check", "rollback"}
<1>1. runner \in RunnerTypes /\ runner.req \in Requests /\ op \in Ids /\ UpdateTypes
  BY RunnerFacts, RequestFacts DEF UpdateInv, Steps, op
<1>2. runner.old \in Releases
  BY <1>1 DEF RunnerTypes
<1>3. QED
  BY <1>1, <1>2 DEF UpdateInv, RunnerSound

(* Steps that leave the copies and what was noted as they are.             *)
LEMMA StillUndoes ==
    ASSUME UpdateInv, Fewer, UNCHANGED <<backups, before>>,
           NEW i \in Ids, NEW was, ~Unnoted(i), Undoes(i, was)
    PROVE  ~Unnoted(i)' /\ Undoes(i, was)'
BY DEF Fewer, Undoes

LEMMA SwitchCurrentInv ==
    ASSUME UpdateInv, SwitchCurrent
    PROVE  UpdateInv'
<1>1. /\ runner \in RunnerTypes /\ runner.req \in Requests /\ op \in Ids /\ UpdateTypes
      /\ runner.copy \in Ids /\ ~Unnoted(runner.copy) /\ Undoes(runner.copy, runner.old)
      /\ runner.copy = op /\ runner.req.target \in Releases
      /\ runner.req.action \notin {"check", "rollback"}
  BY StoppedFacts DEF SwitchCurrent, Restoring
<1>2. /\ runner' \in RunnerTypes /\ runner'.at = "start" /\ runner'.req = runner.req
      /\ runner'.copy = runner.copy /\ runner'.old = runner.old
  BY <1>1 DEF SwitchCurrent, RunnerTypes, Steps
<1>3. UpdateTypes'
  BY <1>1, <1>2 DEF UpdateTypes, SwitchCurrent
<1>4. Onwards
  BY <1>1, <1>2 DEF Onwards, SwitchCurrent, RollsBack, Early, Restoring
<1>5. Fewer
  BY <1>4, OnwardsFewer
<1>6. RunnerSound'
  <2>1. data = backups[op]
    BY DEF UpdateInv, RunnerSound, SwitchCurrent
  <2>2. ~Unnoted(runner.copy)' /\ Undoes(runner.copy, runner.old)'
    BY <1>1, <1>2, <1>5 DEF Fewer, Undoes, SwitchCurrent, Unnoted, RollsBack, Waiting, Early, Restoring, op
  <2>3. QED
    BY <1>1, <1>2, <2>1, <2>2 DEF RunnerSound, Restoring, SwitchCurrent, op
<1>7. QED
  BY <1>3, <1>4, <1>5, <1>6, OnwardsFewer, CopiesStay DEF UpdateInv, SwitchCurrent

LEMMA StartReleaseInv ==
    ASSUME UpdateInv, StartRelease
    PROVE  UpdateInv'
<1>1. /\ runner \in RunnerTypes /\ runner.req \in Requests /\ op \in Ids /\ UpdateTypes
      /\ runner.copy \in Ids /\ ~Unnoted(runner.copy) /\ Undoes(runner.copy, runner.old)
      /\ runner.copy = op /\ runner.req.target \in Releases
      /\ runner.req.action \notin {"check", "rollback"}
  BY StoppedFacts DEF StartRelease, Restoring
<1>2. /\ runner' \in RunnerTypes /\ runner'.at = "healthy" /\ runner'.req = runner.req
      /\ runner'.copy = runner.copy /\ runner'.old = runner.old
  BY <1>1 DEF StartRelease, RunnerTypes, Steps
<1>3. /\ data' \in SUBSET Nat /\ data = backups[op]
      /\ \A i \in Ids : i \in data' => i = op \/ i \in data
  <2>1. data = backups[op]
    BY DEF UpdateInv, RunnerSound, StartRelease
  <2>2. op \in Nat
    BY <1>1 DEF Ids
  <2>3. QED
    BY <1>1, <2>1, <2>2 DEF StartRelease, Serve, UpdateTypes
<1>4. UpdateTypes'
  BY <1>1, <1>2, <1>3 DEF UpdateTypes, StartRelease
<1>5. Onwards
  BY <1>1, <1>2 DEF Onwards, StartRelease, RollsBack, Early, Restoring
<1>6. Fewer /\ RequestsApart'
  BY <1>5, OnwardsFewer
<1>7. \A i \in Ids : Unnoted(i)' => i # op
  BY <1>1, <1>6 DEF Fewer
<1>8. \A i \in Ids : Unwritten(i)' => i # op
  BY <1>2, <1>7 DEF Unwritten
<1>9. CopiesSound'
  <2>1. Missing' = Missing /\ backups' = backups
    BY DEF Missing, StartRelease
  <2>2. QED
    BY <2>1, <1>3, <1>6, <1>8 DEF CopiesSound, UpdateInv, Fewer
<1>10. RunnerSound'
  <2>1. \A i \in Ids : i = runner.copy => ~Unnoted(i)' /\ Undoes(i, runner.old)'
    BY <1>1, <1>7 DEF Undoes, StartRelease
  <2>2. ~Unnoted(runner.copy)' /\ Undoes(runner.copy, runner.old)'
    BY <1>1, <1>2, <2>1 DEF Unnoted, Undoes, RollsBack, Waiting, op
  <2>3. QED
    BY <1>1, <1>2, <2>2 DEF RunnerSound, Restoring, op
<1>11. MetaSound'
  BY <1>1, <1>6 DEF UpdateInv, MetaSound, StartRelease, Undoes, Fewer, UpdateTypes, MetaTypes
<1>12. AllKept'
  BY <1>1, <1>3 DEF UpdateInv, AllKept, Kept, StartRelease
<1>13. QED
  BY <1>4, <1>6, <1>9, <1>10, <1>11, <1>12 DEF UpdateInv

LEMMA RecordRollbackInv ==
    ASSUME UpdateInv, RecordRollback
    PROVE  UpdateInv'
<1>1. /\ runner \in RunnerTypes /\ runner.req \in Requests /\ op \in Ids /\ UpdateTypes
      /\ runner.copy \in Ids /\ ~Unnoted(runner.copy) /\ Undoes(runner.copy, runner.old)
      /\ runner.copy = op /\ runner.req.target \in Releases /\ runner.old \in Releases
      /\ runner.req.action \notin {"check", "rollback"}
  BY StoppedFacts DEF RecordRollback, Restoring
<1>2. /\ runner' \in RunnerTypes /\ runner'.at = "succeed" /\ runner'.req = runner.req
      /\ runner'.copy = runner.copy /\ runner'.old = runner.old
  BY <1>1 DEF RecordRollback, RunnerTypes, Steps
<1>3. \/ rollbackMeta' = NoMeta
      \/ /\ rollbackMeta' \in MetaTypes /\ rollbackMeta'.copy = runner.copy
         /\ rollbackMeta'.previous = runner.old
  BY <1>1 DEF RecordRollback, MetaTypes
<1>4. UpdateTypes'
  BY <1>1, <1>2, <1>3 DEF UpdateTypes, RecordRollback
<1>5. Onwards
  BY <1>1, <1>2 DEF Onwards, RecordRollback, RollsBack, Early, Restoring
<1>6. Fewer /\ RequestsApart'
  BY <1>5, OnwardsFewer
<1>7. \A i \in Ids : i = runner.copy => ~Unnoted(i)' /\ Undoes(i, runner.old)'
  BY <1>1, <1>6 DEF Fewer, Undoes, RecordRollback
<1>8. RunnerSound'
  <2>1. ~Unnoted(runner.copy)' /\ Undoes(runner.copy, runner.old)'
    BY <1>1, <1>2, <1>7 DEF Unnoted, Undoes, RollsBack, Waiting, op
  <2>2. QED
    BY <1>1, <1>2, <2>1 DEF RunnerSound, Restoring, op
<1>9. MetaSound'
  BY <1>1, <1>2, <1>3, <1>7 DEF MetaSound, Unnoted, Undoes, RollsBack, Waiting, op
<1>10. CopiesSound' /\ AllKept'
  <2>1. Missing' = Missing
    BY DEF Missing
  <2>2. QED
    BY <2>1, <1>6 DEF UpdateInv, CopiesSound, Fewer, AllKept, Kept, RecordRollback
<1>11. QED
  BY <1>4, <1>6, <1>8, <1>9, <1>10 DEF UpdateInv

LEMMA SucceedInv ==
    ASSUME UpdateInv, Succeed
    PROVE  UpdateInv'
<1>1. runner \in RunnerTypes /\ runner.req \in Requests /\ UpdateTypes
  BY StoppedFacts DEF Succeed, Restoring
<1>2. UpdateTypes'
  BY <1>1, RequestFacts DEF UpdateTypes, Succeed
<1>3. Onwards
  BY <1>1 DEF Onwards, Succeed
<1>4. QED
  BY <1>2, <1>3, OnwardsFewer, CopiesStay, EndedRunner DEF UpdateInv, Succeed

-----------------------------------------------------------------------------
(* The way back *)

LEMMA CheckRollbackInv ==
    ASSUME UpdateInv, CheckRollback
    PROVE  UpdateInv'
<1>1. runner \in RunnerTypes /\ runner.req \in Requests /\ UpdateTypes
  BY RunnerFacts DEF UpdateInv, CheckRollback, Steps
<1>2. CASE FailRequest
  BY <1>1, <1>2, FailRequestEnds DEF CheckRollback
<1>3. CASE ~FailRequest
  <2>1. /\ release = runner.req.target /\ rollbackMeta.candidate = release /\ UNCHANGED request
        /\ upStatus' = Status("updating", op, release)
        /\ runner' = [runner EXCEPT !.at = "restore", !.old = rollbackMeta.previous,
                                    !.copy = rollbackMeta.copy]
    BY <1>3 DEF CheckRollback
  <2>2. rollbackMeta \in MetaTypes /\ rollbackMeta # NoMeta
    BY <1>1, <2>1 DEF UpdateTypes, NoMeta, MetaTypes, Releases, Public, CandidateReleases
  <2>3. /\ rollbackMeta.copy \in Ids /\ rollbackMeta.copy \in Nat /\ rollbackMeta.previous \in Releases
        /\ ~Unnoted(rollbackMeta.copy) /\ Undoes(rollbackMeta.copy, rollbackMeta.previous)
    BY <2>2 DEF MetaTypes, UpdateInv, MetaSound, Ids
  <2>4. /\ runner' \in RunnerTypes /\ runner'.at = "restore" /\ runner'.req = runner.req
        /\ runner'.copy = rollbackMeta.copy /\ runner'.old = rollbackMeta.previous
    BY <1>1, <2>1, <2>3 DEF RunnerTypes, Steps, Restoring
  <2>5. UpdateTypes'
    BY <1>1, <2>1, <2>4 DEF UpdateTypes, CheckRollback, Targets
  <2>6. Onwards
    BY <1>1, <2>1, <2>4 DEF Onwards, CheckRollback, RollsBack, Early, Restoring
  <2>7. Fewer
    BY <2>6, OnwardsFewer
  <2>8. runner.req.action = "rollback"
    BY DEF UpdateInv, RunnerSound, CheckRollback
  <2>9. RunnerSound'
    <3>1. \A i \in Ids : i = rollbackMeta.copy => ~Unnoted(i)' /\ Undoes(i, rollbackMeta.previous)'
      BY <2>3, <2>7 DEF Fewer, Undoes, CheckRollback
    <3>2. ~Unnoted(runner.copy)' /\ Undoes(runner.copy, runner.old)'
      BY <2>3, <2>4, <3>1 DEF Unnoted, Undoes, RollsBack, Waiting, op, CheckRollback
    <3>3. QED
      BY <2>3, <2>4, <2>8, <3>2 DEF RunnerSound, Restoring, op
  <2>10. QED
    BY <2>5, <2>6, <2>9, OnwardsFewer, CopiesStay DEF UpdateInv, CheckRollback
<1>4. QED
  BY <1>2, <1>3

(* The catch around the switch, or a rollback's first step.                *)
LEMMA RestoreInv ==
    ASSUME UpdateInv, Restore
    PROVE  UpdateInv'
<1>1. /\ runner \in RunnerTypes /\ runner.req \in Requests /\ op \in Ids /\ UpdateTypes
      /\ runner.copy \in Ids /\ ~Unnoted(runner.copy) /\ Undoes(runner.copy, runner.old)
      /\ runner.old \in Releases
      /\ runner.req.action # "rollback" => runner.copy = op
  BY StoppedFacts DEF Restore, Restoring
<1>0. /\ runner.at = "restore" /\ release' = runner.old /\ Goto("moveData")
      /\ UNCHANGED <<remote, preparing, request, upStatus, data, backups, aside, rollbackMeta, nextId>>
  BY DEF Restore
<1>2. /\ runner' \in RunnerTypes /\ runner'.at = "moveData" /\ runner'.req = runner.req
      /\ runner'.copy = runner.copy /\ runner'.old = runner.old
  BY <1>0, <1>1 DEF RunnerTypes, Steps, Restoring
<1>3. /\ before' \in [Ids -> [release : Releases, data : SUBSET Nat]]
      /\ \A i \in Ids : before'[i] # before[i] => Unnoted(i)
      /\ \A i \in Ids : before'[i] = before[i] \/ before'[i].data = data
  <2>1. CASE runner.req.action = "rollback"
    <3>1. before' = [before EXCEPT ![op] = [release |-> release, data |-> data]]
      BY <2>1 DEF Restore, Noted
    <3>2. Unnoted(op)
      BY <2>1 DEF Unnoted, RollsBack, Restore, Restoring
    <3>3. \A i \in Ids : i # op => before'[i] = before[i]
      BY <1>1, <3>1 DEF UpdateTypes
    <3>4. QED
      BY <1>1, <3>1, <3>2, <3>3 DEF UpdateTypes
  <2>2. CASE runner.req.action # "rollback"
    BY <1>1, <2>2 DEF Restore, UpdateTypes
  <2>3. QED
    BY <2>1, <2>2
<1>4. UpdateTypes'
  BY <1>0, <1>1, <1>2, <1>3 DEF UpdateTypes
<1>5. Onwards
  BY <1>0, <1>1, <1>2 DEF Onwards, RollsBack, Early, Restoring
<1>6. Fewer /\ RequestsApart'
  BY <1>5, OnwardsFewer
<1>7. CopiesSound'
  <2>1. Missing' = Missing
    BY DEF Missing
  <2>2. QED
    BY <2>1, <1>6 DEF UpdateInv, CopiesSound, Fewer, Restore
<1>8. \A i \in Ids : ~Unnoted(i) => ~Unnoted(i)' /\ before'[i] = before[i] /\ backups'[i] = backups[i]
  BY <1>3, <1>6 DEF Fewer, Restore
<1>9. RunnerSound'
  <2>1. \A i \in Ids : i = runner.copy => ~Unnoted(i)' /\ Undoes(i, runner.old)'
    BY <1>1, <1>2, <1>8 DEF Undoes
  <2>2. ~Unnoted(runner.copy)' /\ Undoes(runner.copy, runner.old)'
    BY <1>1, <1>2, <2>1 DEF Unnoted, Undoes, RollsBack, Waiting, op
  <2>3. QED
    BY <1>0, <1>1, <1>2, <2>2 DEF RunnerSound, Restoring, op
<1>10. MetaSound'
  BY <1>1, <1>8 DEF UpdateInv, MetaSound, Restore, Undoes, UpdateTypes, MetaTypes
<1>11. AllKept'
  <2>1. \A i \in Ids : before'[i].data = data \/ before'[i].data = before[i].data
    BY <1>3
  <2>2. QED
    BY <2>1 DEF UpdateInv, AllKept, Kept, Restore
<1>12. QED
  BY <1>4, <1>6, <1>7, <1>9, <1>10, <1>11 DEF UpdateInv

(* The steps from there on leave what was noted and copied as it is.       *)
LEMMA RestoringStep ==
    ASSUME UpdateInv, runner.at \in Restoring \ {"restore"}, NEW at \in Restoring \ {"restore"}, Goto(at),
           UNCHANGED <<preparing, nextId, request, release, backups, before, rollbackMeta>>,
           data' \in SUBSET Nat, UpdateTypes',
           data' = data \/ data' = Missing \/ \E i \in Ids : data' = backups[i],
           at = "copyData" => data' = Missing,
           at \in {"restart", "report"} => data' = backups[runner.copy],
           at = "report" => service' = release,
           \A i \in Ids : Kept(before[i].data) => Kept(before[i].data)'
    PROVE  UpdateInv'
<1>1. /\ runner \in RunnerTypes /\ runner.req \in Requests /\ op \in Ids /\ UpdateTypes
      /\ runner.copy \in Ids /\ ~Unnoted(runner.copy) /\ Undoes(runner.copy, runner.old)
      /\ runner.req.action # "rollback" => runner.copy = op
  BY StoppedFacts
<1>2. /\ runner' \in RunnerTypes /\ runner'.at = at /\ runner'.req = runner.req
      /\ runner'.copy = runner.copy /\ runner'.old = runner.old
  BY <1>1 DEF RunnerTypes, Steps
<1>3. Onwards
  BY <1>1, <1>2 DEF Onwards, RollsBack, Early, Restoring
<1>4. Fewer /\ RequestsApart'
  BY <1>3, OnwardsFewer
<1>5. CopiesSound'
  <2>1. Missing' = Missing /\ \A i \in Ids : i \notin Missing
    BY CopyFacts DEF Missing
  <2>2. QED
    BY <2>1, <1>4 DEF UpdateInv, CopiesSound, Fewer
<1>6. RunnerSound'
  <2>1. \A i \in Ids : i = runner.copy => ~Unnoted(i)' /\ Undoes(i, runner.old)'
    BY <1>1, <1>4 DEF Fewer, Undoes
  <2>2. ~Unnoted(runner.copy)' /\ Undoes(runner.copy, runner.old)'
    BY <1>1, <1>2, <2>1 DEF Unnoted, Undoes, RollsBack, Waiting, op
  <2>3. release = runner.old
    BY DEF UpdateInv, RunnerSound
  <2>4. Missing' = Missing
    BY DEF Missing
  <2>5. QED
    BY <1>1, <1>2, <2>2, <2>3, <2>4 DEF RunnerSound, Restoring, op
<1>7. MetaSound'
  BY <1>1, <1>4 DEF UpdateInv, MetaSound, Undoes, Fewer, UpdateTypes, MetaTypes
<1>8. AllKept'
  BY DEF UpdateInv, AllKept
<1>9. QED
  BY <1>4, <1>5, <1>6, <1>7, <1>8 DEF UpdateInv

LEMMA MoveDataInv ==
    ASSUME UpdateInv, MoveData
    PROVE  UpdateInv'
<1>1. runner \in RunnerTypes /\ runner.at \in Restoring \ {"restore"} /\ UpdateTypes
  BY StoppedFacts DEF MoveData, Restoring
<1>2. Goto("copyData") /\ data' = Missing /\ Missing \in SUBSET Nat
  BY CopyFacts DEF MoveData
<1>3. UpdateTypes'
  BY <1>1, <1>2 DEF UpdateTypes, MoveData, RunnerTypes, Steps, Restoring
<1>4. \A i \in Ids : Kept(before[i].data) => Kept(before[i].data)'
  BY DEF Kept, MoveData, Missing
<1>5. QED
  BY <1>1, <1>2, <1>3, <1>4, RestoringStep DEF MoveData, Restoring

LEMMA CopyDataInv ==
    ASSUME UpdateInv, CopyData
    PROVE  UpdateInv'
<1>1. runner \in RunnerTypes /\ runner.at \in Restoring \ {"restore"} /\ UpdateTypes /\ runner.copy \in Ids
  BY StoppedFacts DEF CopyData, Restoring
<1>2. Goto("restart") /\ data' = backups[runner.copy] /\ data' \in SUBSET Nat /\ data = Missing
  BY <1>1 DEF CopyData, UpdateTypes, UpdateInv, RunnerSound
<1>3. UpdateTypes'
  BY <1>1, <1>2 DEF UpdateTypes, CopyData, RunnerTypes, Steps, Restoring
<1>4. \A i \in Ids : Kept(before[i].data) => Kept(before[i].data)'
  BY <1>2 DEF Kept, CopyData, Missing
<1>5. QED
  BY <1>1, <1>2, <1>3, <1>4, RestoringStep DEF CopyData, Restoring

LEMMA StartPreviousInv ==
    ASSUME UpdateInv, StartPrevious
    PROVE  UpdateInv'
<1>1. runner \in RunnerTypes /\ runner.at \in Restoring \ {"restore"} /\ UpdateTypes
  BY StoppedFacts DEF StartPrevious, Restoring
<1>2. Goto("report") /\ data' = data /\ data \in SUBSET Nat /\ data = backups[runner.copy]
  BY <1>1 DEF StartPrevious, UpdateTypes, UpdateInv, RunnerSound
<1>3. UpdateTypes'
  BY <1>1, <1>2 DEF UpdateTypes, StartPrevious, RunnerTypes, Steps, Restoring
<1>4. \A i \in Ids : Kept(before[i].data) => Kept(before[i].data)'
  BY DEF Kept, StartPrevious, Missing
<1>5. QED
  BY <1>1, <1>2, <1>3, <1>4, RestoringStep DEF StartPrevious, Restoring

(* The runner ends and leaves everything but the metadata as it is.        *)
LEMMA ReportRollbackInv ==
    ASSUME UpdateInv, ReportRollback
    PROVE  UpdateInv'
<1>1. runner \in RunnerTypes /\ runner.req \in Requests /\ UpdateTypes
  BY StoppedFacts DEF ReportRollback, Restoring
<1>2. UpdateTypes'
  BY <1>1, RequestFacts DEF UpdateTypes, ReportRollback
<1>3. Onwards
  BY <1>1 DEF Onwards, ReportRollback
<1>4. Fewer /\ RequestsApart' /\ RunnerSound'
  BY <1>3, OnwardsFewer, EndedRunner DEF ReportRollback
<1>5. CopiesSound' /\ AllKept'
  <2>1. Missing' = Missing
    BY DEF Missing
  <2>2. QED
    BY <2>1, <1>4 DEF UpdateInv, CopiesSound, Fewer, AllKept, Kept, ReportRollback
<1>6. MetaSound'
  <2>1. CASE rollbackMeta' = NoMeta
    BY <2>1 DEF MetaSound
  <2>2. CASE rollbackMeta' = rollbackMeta
    BY <2>2, <1>1, <1>4 DEF UpdateInv, MetaSound, Undoes, Fewer, UpdateTypes, MetaTypes, ReportRollback
  <2>3. QED
    BY <2>1, <2>2 DEF ReportRollback
<1>7. QED
  BY <1>2, <1>4, <1>5, <1>6 DEF UpdateInv

-----------------------------------------------------------------------------
(* Failures *)

(* The runner is gone, and the data is what it was, nothing or a part.     *)
LEMMA GoneRunner ==
    ASSUME UpdateInv, runner' = NoRunner, nextId' = nextId, UpdateTypes',
           preparing' \in {preparing, {}}, request' \in {request, NoRequest},
           UNCHANGED <<backups, aside, before, rollbackMeta>>,
           \/ data' = data
           \/ data = Missing /\ data' \in {{}, Missing, Partial}
    PROVE  UpdateInv'
<1>1. \A i : Waiting(i)' => Waiting(i)
  BY RequestFacts DEF Waiting
<1>2. ~RollsBack' /\ runner'.at \notin {"switch", "start"}
  BY DEF NoRunner, RollsBack, Early, Restoring
<1>3. Fewer
  BY <1>1, <1>2 DEF Fewer, Unnoted, Unwritten
<1>4. RequestsApart'
  BY DEF UpdateInv, RequestsApart
<1>5. CopiesSound'
  <2>1. Missing' = Missing
    BY DEF Missing
  <2>2. \A i \in Ids : i \in data' => i \in data
    BY CopyFacts
  <2>3. QED
    BY <2>1, <2>2, <1>3 DEF UpdateInv, CopiesSound, Fewer
<1>6. MetaSound'
  BY <1>3 DEF UpdateInv, MetaSound, Undoes, Fewer, UpdateTypes, MetaTypes
<1>7. AllKept'
  BY DEF UpdateInv, AllKept, Kept, Missing
<1>8. RunnerSound'
  BY EndedRunner
<1>9. QED
  BY <1>3, <1>4, <1>5, <1>6, <1>7, <1>8 DEF UpdateInv

LEMMA StepFailsInv ==
    ASSUME UpdateInv, StepFails
    PROVE  UpdateInv'
<1>1. runner \in RunnerTypes /\ runner.req \in Requests /\ UpdateTypes /\ runner.at \in Steps
  BY RunnerFacts DEF UpdateInv, StepFails
<1>2. /\ \/ data' = data
         \/ data = Missing /\ data' \in {Missing, Partial}
      /\ data' \in SUBSET Nat
  BY <1>1, CopyFacts DEF StepFails, UpdateInv, RunnerSound, UpdateTypes
<1>3. CASE AfterFault(runner.at) = "restore"
  <2>1. runner.at \in {"switch", "start", "healthy", "succeed"}
    BY <1>3 DEF AfterFault
  <2>2. Goto("restore") /\ UNCHANGED <<request, upStatus>> /\ data' = data
    BY <1>3, <2>1 DEF StepFails
  <2>3. /\ runner.copy \in Ids /\ ~Unnoted(runner.copy) /\ Undoes(runner.copy, runner.old)
        /\ runner.copy = op /\ runner.req.action \notin {"check", "rollback"}
    BY <2>1, StoppedFacts DEF Restoring
  <2>4. /\ runner' \in RunnerTypes /\ runner'.at = "restore" /\ runner'.req = runner.req
        /\ runner'.copy = runner.copy /\ runner'.old = runner.old
    BY <1>1, <2>2 DEF RunnerTypes, Steps, Restoring
  <2>5. UpdateTypes'
    BY <1>1, <2>2, <2>4 DEF UpdateTypes, StepFails
  <2>6. Onwards
    BY <1>1, <2>1, <2>2, <2>3, <2>4 DEF Onwards, StepFails, RollsBack, Early, Restoring
  <2>7. Fewer
    BY <2>6, OnwardsFewer
  <2>8. RunnerSound'
    <3>1. \A i \in Ids : i = runner.copy => ~Unnoted(i)' /\ Undoes(i, runner.old)'
      BY <2>3, <2>4, <2>7 DEF Fewer, Undoes, StepFails
    <3>2. ~Unnoted(runner.copy)' /\ Undoes(runner.copy, runner.old)'
      BY <2>3, <2>4, <3>1 DEF Unnoted, Undoes, RollsBack, Waiting, op
    <3>3. QED
      BY <2>3, <2>4, <3>2 DEF RunnerSound, Restoring, op
  <2>9. QED
    BY <2>2, <2>5, <2>6, <2>7, <2>8, OnwardsFewer, CopiesStay DEF UpdateInv, StepFails
<1>4. CASE AfterFault(runner.at) # "restore"
  <2>1. runner' = NoRunner /\ request' \in {request, NoRequest} /\ upStatus'.target = runner.req.target
    BY <1>4 DEF StepFails, FailRequest
  <2>2. UpdateTypes'
    BY <1>1, <1>2, <2>1, RequestFacts DEF UpdateTypes, StepFails
  <2>3. QED
    BY <1>2, <2>1, <2>2, GoneRunner DEF StepFails
<1>5. QED
  BY <1>3, <1>4

LEMMA CrashInv ==
    ASSUME UpdateInv, Crash
    PROVE  UpdateInv'
<1>1. UpdateTypes
  BY DEF UpdateInv
<1>2. runner # NoRunner /\ runner.at = "copyData" => data = Missing
  BY DEF UpdateInv, RunnerSound
<1>3. \/ data' = data
      \/ data = Missing /\ data' \in {{}, Missing, Partial}
  <2>1. data = Missing => data' = {} \/ data' = Partial
    BY DEF Crash
  <2>2. data # Missing => data' = data
    BY <1>2 DEF Crash
  <2>3. QED
    BY <2>1, <2>2
<1>4. UpdateTypes'
  BY <1>1, <1>3, CopyFacts DEF UpdateTypes, Crash
<1>5. QED
  BY <1>3, <1>4, GoneRunner DEF Crash

-----------------------------------------------------------------------------
(* Requests and what their operation is *)

(* A runner that is not concerned stays sound.                             *)
LEMMA RunnerStays ==
    ASSUME UpdateInv, Fewer, UNCHANGED <<runner, data, backups, before, release, service>>
    PROVE  RunnerSound'
<1>1. Missing' = Missing
  BY DEF Missing
<1>2. ASSUME NEW i \in Ids, NEW was, ~Unnoted(i), Undoes(i, was)
      PROVE  ~Unnoted(i)' /\ Undoes(i, was)'
  BY <1>2 DEF Fewer, Undoes
<1>3. /\ runner.at \in {"switch", "start", "healthy", "succeed"} \union Restoring =>
            runner.copy \in Ids /\ ~Unnoted(runner.copy) /\ Undoes(runner.copy, runner.old)
  BY DEF UpdateInv, RunnerSound
<1>4. /\ runner.at \in {"switch", "start", "healthy", "succeed"} \union Restoring =>
            (~Unnoted(runner.copy))' /\ Undoes(runner.copy, runner.old)'
  <2>1. \A i \in Ids : i = runner.copy /\ ~Unnoted(i) /\ Undoes(i, runner.old) =>
            ~Unnoted(i)' /\ Undoes(i, runner.old)'
    BY <1>2
  <2>2. \A i \in Ids : i = runner.copy /\ ~Unnoted(i)' => (~Unnoted(runner.copy))'
    BY DEF Unnoted, Waiting, RollsBack, op
  <2>3. QED
    BY <1>3, <2>1, <2>2 DEF Undoes
<1>5. QED
  BY <1>1, <1>4 DEF UpdateInv, RunnerSound, op

LEMMA PrepareRequestInv ==
    ASSUME UpdateInv, NEW r, r.target \in Targets, NEW a \in {"check", "apply", "candidate", "rollback"},
           NEW t \in Targets, r = [id |-> 0, action |-> a, target |-> t],
           a \in {"candidate", "rollback"} => t \in Releases,
           PrepareRequest(r)
    PROVE  UpdateInv'
<1>1. UpdateTypes
  BY DEF UpdateInv
<1>2. PICK q \in Requests : preparing' = preparing \union {q} /\ q.id = nextId
  <2>1. nextId \in Ids
    BY <1>1, UpdateAssumption DEF UpdateTypes, PrepareRequest, Ids
  <2>2. [r EXCEPT !.id = nextId] = [id |-> nextId, action |-> a, target |-> t]
    OBVIOUS
  <2>3. [r EXCEPT !.id = nextId] \in Requests
    BY <2>1, <2>2 DEF Requests
  <2>4. QED
    BY <2>2, <2>3 DEF PrepareRequest
<1>3. UpdateTypes'
  BY <1>1, <1>2 DEF UpdateTypes, PrepareRequest
<1>4. Fewer
  <2>1. \A i \in Ids : Waiting(i)' => Waiting(i) \/ i = nextId
    BY <1>2 DEF Waiting, PrepareRequest
  <2>2. op' = op /\ (RollsBack' <=> RollsBack) /\ nextId' = nextId + 1 /\ runner' = runner
    BY DEF op, RollsBack, PrepareRequest
  <2>3. \A i \in Ids : Unnoted(i)' => Unnoted(i)
    BY <1>1, <2>1, <2>2 DEF Unnoted, Ids, UpdateTypes
  <2>4. QED
    BY <2>2, <2>3 DEF Fewer, Unwritten
<1>5. RequestsApart'
  <2>1. nextId \in Nat /\ nextId' = nextId + 1 /\ request' = request /\ runner' = runner
    BY <1>1 DEF UpdateTypes, PrepareRequest
  <2>2. (\A p \in preparing : p.id < nextId)'
    BY <1>1, <1>2, <2>1, RequestFacts DEF UpdateInv, RequestsApart, UpdateTypes, Ids
  <2>3. (\A p, u \in preparing : p.id = u.id => p = u)'
    BY <1>1, <1>2, <2>1, RequestFacts DEF UpdateInv, RequestsApart, UpdateTypes, Ids
  <2>4. (request # NoRequest => request.id < nextId /\ \A p \in preparing : p.id # request.id)'
    BY <1>1, <1>2, <2>1, RequestFacts DEF UpdateInv, RequestsApart, UpdateTypes, Ids
  <2>5. (runner # NoRunner => op < nextId /\ \A i \in Ids : Waiting(i) => i # op)'
    <3>1. \A i \in Ids : Waiting(i)' => Waiting(i) \/ i = nextId
      BY <1>2 DEF Waiting, PrepareRequest
    <3>2. runner # NoRunner => op \in Nat
      BY <1>1, RunnerFacts, RequestFacts DEF op, Ids
    <3>3. op' = op
      BY <2>1 DEF op
    <3>4. QED
      BY <2>1, <3>1, <3>2, <3>3 DEF UpdateInv, RequestsApart
  <2>6. QED
    BY <2>2, <2>3, <2>4, <2>5 DEF RequestsApart
<1>6. RunnerSound'
  BY <1>4, RunnerStays DEF PrepareRequest
<1>7. QED
  BY <1>3, <1>4, <1>5, <1>6, CopiesStay DEF UpdateInv, PrepareRequest

LEMMA LinkRequestInv ==
    ASSUME UpdateInv, NEW r, LinkRequest(r)
    PROVE  UpdateInv'
<1>1. UpdateTypes /\ r \in preparing /\ r \in Requests
  BY DEF UpdateInv, LinkRequest, UpdateTypes
<1>2. /\ preparing' \subseteq preparing /\ r \notin preparing'
      /\ request' = request \/ (request = NoRequest /\ request' = r)
      /\ nextId' = nextId /\ runner' = runner
  BY DEF LinkRequest
<1>3. UpdateTypes'
  BY <1>1, <1>2 DEF UpdateTypes, LinkRequest
<1>4. \A i \in Ids : Waiting(i)' => Waiting(i)
  BY <1>1, <1>2 DEF Waiting
<1>5. op' = op /\ (RollsBack' <=> RollsBack)
  BY <1>2 DEF op, RollsBack
<1>6. Fewer
  BY <1>2, <1>4, <1>5 DEF Fewer, Unnoted, Unwritten
<1>7. RequestsApart'
  <2>1. (\A p \in preparing : p.id < nextId)' /\ (\A p, u \in preparing : p.id = u.id => p = u)'
    BY <1>2 DEF UpdateInv, RequestsApart
  <2>2. (request # NoRequest => request.id < nextId /\ \A p \in preparing : p.id # request.id)'
    BY <1>1, <1>2 DEF UpdateInv, RequestsApart
  <2>3. (runner # NoRunner => op < nextId /\ \A i \in Ids : Waiting(i) => i # op)'
    BY <1>2, <1>4, <1>5 DEF UpdateInv, RequestsApart
  <2>4. QED
    BY <2>1, <2>2, <2>3 DEF RequestsApart
<1>8. RunnerSound'
  BY <1>6, RunnerStays DEF LinkRequest
<1>9. QED
  BY <1>3, <1>6, <1>7, <1>8, CopiesStay DEF UpdateInv, LinkRequest

(* The operation that waited is the runner's.                              *)
LEMMA TakeRequestInv ==
    ASSUME UpdateInv, TakeRequest
    PROVE  UpdateInv'
<1>1. UpdateTypes /\ request \in Requests
  BY DEF UpdateInv, TakeRequest, UpdateTypes
<1>2. /\ runner' \in RunnerTypes /\ runner'.at = "taken" /\ runner'.req = request
  BY <1>1 DEF TakeRequest, RunnerTypes, Steps, UpdateTypes
<1>3. UpdateTypes'
  BY <1>1, <1>2 DEF UpdateTypes, TakeRequest
<1>4. \A i \in Ids : Waiting(i)' => Waiting(i) /\ i # request.id
  BY <1>1 DEF Waiting, TakeRequest, UpdateInv, RequestsApart, NoRequest, Requests
<1>5. Waiting(request.id) /\ op' = request.id /\ request.id < nextId
  BY <1>1, <1>2 DEF Waiting, op, UpdateInv, RequestsApart, TakeRequest
<1>6. Fewer
  BY <1>2, <1>4, <1>5 DEF Fewer, Unnoted, Unwritten, TakeRequest
<1>7. RequestsApart'
  BY <1>2, <1>4, <1>5 DEF UpdateInv, RequestsApart, TakeRequest
<1>8. RunnerSound'
  BY <1>2 DEF RunnerSound, Restoring
<1>9. QED
  BY <1>3, <1>6, <1>7, <1>8, CopiesStay DEF UpdateInv, TakeRequest

LEMMA PublishInv ==
    ASSUME UpdateInv, Publish
    PROVE  UpdateInv'
<1>1. UpdateTypes'
  BY DEF UpdateInv, UpdateTypes, Publish
<1>2. Fewer
  BY DEF Fewer, Unnoted, Unwritten, Waiting, op, RollsBack, Publish
<1>3. RequestsApart'
  BY DEF UpdateInv, RequestsApart, Publish, Waiting, op
<1>4. RunnerSound'
  BY <1>2, RunnerStays DEF Publish
<1>5. QED
  BY <1>1, <1>2, <1>3, <1>4, CopiesStay DEF UpdateInv, Publish

-----------------------------------------------------------------------------
(* The theorems *)

LEMMA UpdateInitInv ==
    ASSUME UpdateInit
    PROVE  UpdateInv
<1> USE DEF UpdateInit
<1>1. UpdateTypes
  BY CopyFacts DEF UpdateTypes, Releases, Public, Targets
<1>2. ~RollsBack /\ \A i : ~Waiting(i)
  BY RequestFacts DEF RollsBack, Waiting, NoRunner, Early, Restoring
<1>3. RequestsApart
  BY DEF RequestsApart
<1>4. CopiesSound
  <2>1. \A i \in Ids : i # 0 /\ backups[i] = Missing /\ i \notin Missing
    BY CopyFacts DEF Ids
  <2>2. QED
    BY <2>1 DEF CopiesSound
<1>5. RunnerSound
  BY DEF RunnerSound, NoRunner, Restoring
<1>6. MetaSound /\ AllKept
  BY DEF MetaSound, AllKept, Kept
<1>7. QED
  BY <1>1, <1>3, <1>4, <1>5, <1>6 DEF UpdateInv

LEMMA QueueInv ==
    ASSUME UpdateInv,
           \/ QueueCheck \/ QueueApply
           \/ \E a \in {"candidate", "rollback"}, c \in CandidateReleases : QueueCandidate(a, c)
    PROVE  UpdateInv'
<1>1. CASE QueueCheck
  <2>1. "none" \in Targets
    BY DEF Targets
  <2>2. QED
    BY <1>1, <2>1, PrepareRequestInv DEF QueueCheck
<1>2. CASE QueueApply
  <2>1. upStatus.target \in Targets
    BY DEF UpdateInv, UpdateTypes
  <2>2. QED
    BY <1>2, <2>1, PrepareRequestInv DEF QueueApply
<1>3. CASE \E a \in {"candidate", "rollback"}, c \in CandidateReleases : QueueCandidate(a, c)
  <2>1. PICK a \in {"candidate", "rollback"}, c \in CandidateReleases : QueueCandidate(a, c)
    BY <1>3
  <2>2. c \in Targets /\ c \in Releases
    BY DEF Targets, Releases
  <2>3. QED
    BY <2>1, <2>2, PrepareRequestInv DEF QueueCandidate
<1>4. QED
  BY <1>1, <1>2, <1>3

LEMMA UpdateNextInv ==
    ASSUME UpdateInv, [UpdateNext]_updateVars
    PROVE  UpdateInv'
<1>1. CASE UNCHANGED updateVars
  <2>1. UpdateTypes'
    BY <1>1 DEF UpdateInv, UpdateTypes
  <2>2. Fewer
    BY <1>1 DEF Fewer, Unnoted, Unwritten, Waiting, op, RollsBack
  <2>3. RequestsApart'
    BY <1>1 DEF UpdateInv, RequestsApart, Waiting, op
  <2>4. QED
    BY <1>1, <2>1, <2>2, <2>3, RunnerStays, CopiesStay DEF UpdateInv
<1>2. CASE \/ QueueCheck \/ QueueApply
           \/ \E a \in {"candidate", "rollback"}, c \in CandidateReleases : QueueCandidate(a, c)
  BY <1>2, QueueInv
<1>3. CASE Publish \/ TakeRequest \/ Crash \/ \E r \in preparing : LinkRequest(r)
  BY <1>3, PublishInv, TakeRequestInv, CrashInv, LinkRequestInv
<1>4. CASE Announce \/ FinishCheck \/ BeginUpdate \/ PrepareRelease \/ BackupData
  BY <1>4, AnnounceInv, FinishCheckInv, BeginUpdateInv, PrepareReleaseInv, BackupDataInv
<1>5. CASE SwitchCurrent \/ StartRelease \/ RecordRollback \/ Succeed \/ CheckRollback
  BY <1>5, SwitchCurrentInv, StartReleaseInv, RecordRollbackInv, SucceedInv, CheckRollbackInv
<1>6. CASE Restore \/ MoveData \/ CopyData \/ StartPrevious \/ ReportRollback \/ StepFails
  BY <1>6, RestoreInv, MoveDataInv, CopyDataInv, StartPreviousInv, ReportRollbackInv, StepFailsInv
<1>7. QED
  BY <1>1, <1>2, <1>3, <1>4, <1>5, <1>6 DEF UpdateNext

(* UpdateInv is an inductive invariant of updates and candidates, with     *)
(* their rollback, steps that fail and crashes (gateway-update-runner.mjs, *)
(* gateway-updates.js).                                                    *)
THEOREM UpdateInvInductive == UpdateSpec => []UpdateInv
<1>1. UpdateInit => UpdateInv
  BY UpdateInitInv
<1>2. UpdateInv /\ [UpdateNext]_updateVars => UpdateInv'
  BY UpdateNextInv
<1>3. QED
  BY <1>1, <1>2, PTL DEF UpdateSpec

(* No update loses data: what the service had when an operation stopped it *)
(* is in place, in a backup or set aside, whatever fails afterwards.       *)
THEOREM DataAlwaysSurvives == UpdateSpec => []DataSurvives
<1>1. UpdateInv => DataSurvives
  BY DEF UpdateInv, AllKept, DataSurvives
<1>2. QED
  BY <1>1, UpdateInvInductive, PTL

(* Only a runner that has restored says so.                                *)
LEMMA RolledBackStep ==
    ASSUME UpdateInv, [UpdateNext]_updateVars, upStatus.state # "rolled_back", upStatus'.state = "rolled_back"
    PROVE  ReportRollback
<1> USE DEF FailRequest
<1>1. ~UNCHANGED updateVars /\ ~Publish /\ ~TakeRequest /\ ~Crash /\ ~\E r \in preparing : LinkRequest(r)
  BY DEF Publish, TakeRequest, Crash, LinkRequest
<1>2. ~QueueCheck /\ ~QueueApply /\ ~\E a \in {"candidate", "rollback"}, c \in CandidateReleases : QueueCandidate(a, c)
  BY DEF QueueCheck, QueueApply, QueueCandidate, PrepareRequest
<1>3. ~Announce /\ ~FinishCheck /\ ~BeginUpdate /\ ~PrepareRelease /\ ~BackupData
  BY DEF Announce, FinishCheck, BeginUpdate, PrepareRelease, BackupData
<1>4. ~SwitchCurrent /\ ~StartRelease /\ ~RecordRollback /\ ~Succeed /\ ~CheckRollback
  BY DEF SwitchCurrent, StartRelease, RecordRollback, Succeed, CheckRollback
<1>5. ~Restore /\ ~MoveData /\ ~CopyData /\ ~StartPrevious /\ ~StepFails
  BY DEF Restore, MoveData, CopyData, StartPrevious, StepFails
<1>6. QED
  BY <1>1, <1>2, <1>3, <1>4, <1>5 DEF UpdateNext

(* A gateway that reports "rolled_back" runs the release that ran before   *)
(* the operation that was undone, on the data of that moment.              *)
THEOREM RollbacksUndo == UpdateSpec => RolledBackIsUndone
<1>1. ASSUME UpdateInv, [UpdateNext]_updateVars, upStatus.state # "rolled_back", upStatus'.state = "rolled_back"
      PROVE  LET undone == runner.copy
             IN  /\ service' = before[undone].release /\ release' = before[undone].release
                 /\ data' = before[undone].data /\ undone \notin data'
  <2>1. ReportRollback
    BY <1>1, RolledBackStep
  <2>2. /\ runner.copy \in Ids /\ Undoes(runner.copy, runner.old) /\ release = runner.old
        /\ data = backups[runner.copy] /\ service = release
    BY <1>1, <2>1, StoppedFacts DEF ReportRollback, UpdateInv, RunnerSound, Restoring
  <2>3. runner.copy \notin backups[runner.copy]
    BY <1>1, <2>2 DEF UpdateInv, CopiesSound
  <2>4. service' = service /\ release' = release /\ data' = data
    BY <2>1 DEF ReportRollback
  <2>5. QED
    BY <2>2, <2>3, <2>4 DEF Undoes
<1>2. UpdateInv /\ [UpdateNext]_updateVars =>
        [upStatus.state # "rolled_back" /\ upStatus'.state = "rolled_back"
         => LET undone == runner.copy
            IN  /\ service' = before[undone].release /\ release' = before[undone].release
                /\ data' = before[undone].data /\ undone \notin data']_updateVars
  BY <1>1
<1>3. QED
  BY <1>2, UpdateInvInductive, PTL DEF UpdateSpec, RolledBackIsUndone

=============================================================================
