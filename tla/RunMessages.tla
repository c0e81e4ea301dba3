---------------------------- MODULE RunMessages -----------------------------
(***************************************************************************)
(* The `runMessages` rows: private messages between the runs of one root   *)
(* run's tree and the user.  Contents are abstracted away.  A row is       *)
(*   [from, to, kind, key, state]                                          *)
(* where key is the sender's idempotencyKey and state is deliveryState.    *)
(* `sequence` numbers a root's rows in insertion order; no handler of the  *)
(* gateway decides on it except to sort an inbox, so it is left out.       *)
(***************************************************************************)
EXTENDS RunRecords

CONSTANTS
    User,               \* the { type: "user" } end of a message
    Keys,               \* idempotency keys an Agent uses besides the terminal one
    SentKinds,          \* kinds of messages that Agents write in a run of TLC
    MaxDepth,           \* config.agentCommunication.maxDepth
    MaxChildrenPerRun,  \* config.agentCommunication.maxChildrenPerRun
    MaxMessagesPerRoot  \* config.agentCommunication.maxMessagesPerRoot

ASSUME LimitsAssumption ==
    /\ MaxDepth \in Nat
    /\ MaxChildrenPerRun \in Nat
    /\ MaxMessagesPerRoot \in Nat
    /\ User \notin Runs
    /\ SentKinds \subseteq {"instruction", "progress", "result", "blocked"}

VARIABLE runMessages

TerminalKey  == "terminal"
OpenStates   == {"queued", "delivered"}
MessageKinds == {"delegate", "instruction", "progress", "result", "blocked"}

Message == [from  : Runs \cup {User},
            to    : Runs \cup {User},
            kind  : MessageKinds,
            key   : Keys \cup {TerminalKey},
            state : OpenStates \cup {"consumed", "failed"}]

Posted(from, to, kind, key) ==
    [from |-> from, to |-> to, kind |-> kind, key |-> key, state |-> "queued"]

MessageRoot(m)     == RootOf(IF m.from = User THEN m.to ELSE m.from)
RootMessages(root) == {m \in runMessages : MessageRoot(m) = root}

(* Mutant: the limit tested before the insertion with <= *)
HasCapacityOffByOne(root, extra) ==
    Cardinality(RootMessages(root)) + extra <= MaxMessagesPerRoot + 1

(* assertRootCapacity, for `extra` more rows of the root. *)
HasCapacity(root, extra) ==
    Cardinality(RootMessages(root)) + extra <= MaxMessagesPerRoot

(* The idempotency lookup: the sender already used this key. *)
Repeated(sender, key) ==
    \E m \in runMessages : m.from = sender /\ m.key = key

WithState(m, s) == [m EXCEPT !.state = s]

(* Sets the state of the rows of ms selected by the set sel. *)
SetState(ms, sel, s) ==
    {IF m \in sel THEN WithState(m, s) ELSE m : m \in ms}

OpenFor(ms, rs) == {m \in ms : m.to \in rs /\ m.state \in OpenStates}

-----------------------------------------------------------------------------
(* Mutants: plausible bugs that the properties of RunExecution catch *)

FailRecipientAnyState(ms, rs) ==
    SetState(ms, {m \in ms : m.to \in rs}, "failed")

FailRecipientSkipped(ms, rs) == ms

NeedsNoticeRunningParent(r) ==
    /\ outputPolicy[r] = "source"
    /\ IsChild(r) => status[Parent(r)] = "running"
    /\ ~Repeated(r, TerminalKey)

CreatesAccountCycleDirect(s, a) ==
    \E b, c \in ActiveRuns : account[b] = a /\ account[c] = account[s] /\ c = b

-----------------------------------------------------------------------------
(* Services called by the run lifecycle *)

(* failRecipient for every run of rs, applied to the rows ms. *)
FailRecipient(ms, rs) == SetState(ms, OpenFor(ms, rs), "failed")

(* completeSourceRun inserts a terminal row: the run is private, a child's *)
(* parent is still active, and the terminal key was not used before.       *)
NeedsNotice(r) ==
    /\ outputPolicy[r] = "source"
    /\ IsChild(r) => IsActive(Parent(r))
    /\ ~Repeated(r, TerminalKey)

Notice(r, kind) ==
    Posted(r, IF IsChild(r) THEN Parent(r) ELSE User, kind, TerminalKey)

Notices(rs, kind) == {Notice(r, kind) : r \in {x \in rs : NeedsNotice(x)}}

(* The awaitingSourceResult test of updateRun. *)
HasTerminalMessage(r) ==
    \E m \in runMessages : m.from = r /\ m.kind \in {"result", "blocked"}

(* createsAccountCycle: some active run of the sender's account is, or     *)
(* descends from, an active run of the recipient account.                  *)
CreatesAccountCycle(s, a) ==
    \E b, c \in ActiveRuns :
        /\ account[b] = a
        /\ account[c] = account[s]
        /\ c = b \/ IsAncestor(b, c)

(* The early returns of createDelegate that do not concern the recipient's *)
(* Account Session.                                                        *)
MayDelegate(s, a, key) ==
    /\ ~Repeated(s, key)
    /\ Depth(s) < MaxDepth
    /\ Cardinality(Children(s)) < MaxChildrenPerRun
    /\ HasCapacity(RootOf(s), 1)
    /\ a # account[s]
    /\ ~CreatesAccountCycle(s, a)

(* createMessage: who may address whom. *)
MayAddress(s, to, kind) ==
    IF to = User
    THEN /\ ~IsChild(s)
         /\ outputPolicy[s] = "source"
         /\ kind \in {"progress", "result", "blocked"}
    ELSE /\ IsActive(to)
         /\ IF kind = "instruction" THEN IsAncestor(s, to) ELSE IsAncestor(to, s)

-----------------------------------------------------------------------------
(* Requests of an Agent (its authority is checked by the composing module) *)

CreateMessage(s, to, kind, key) ==
    /\ kind \in SentKinds
    /\ ~Repeated(s, key)
    /\ HasCapacity(RootOf(s), 1)
    /\ MayAddress(s, to, kind)
    /\ runMessages' = runMessages \cup {Posted(s, to, kind, key)}

(* Rows older than deliveryTimeoutMs fail, the rest become delivered. Time *)
(* is abstracted: any of the open rows may have expired.                   *)
Inbox(r) ==
    \E expired \in SUBSET OpenFor(runMessages, {r}) :
        LET failed == SetState(runMessages, expired, "failed")
        IN  runMessages' = SetState(failed, OpenFor(failed, {r}), "delivered")

Consume(r, m) ==
    /\ m \in OpenFor(runMessages, {r})
    /\ runMessages' = SetState(runMessages, {m}, "consumed")

CreateUserInstruction(r, key) ==
    /\ IsActive(r) /\ ~IsChild(r) /\ outputPolicy[r] = "source"
    /\ \E m \in RootMessages(r) : m.to = User
    /\ ~\E m \in runMessages : m.from = User /\ m.to = r /\ m.key = key
    /\ HasCapacity(r, 1)
    /\ runMessages' = runMessages \cup {Posted(User, r, "instruction", key)}
=============================================================================
