-------------------------- MODULE RunExecutionProofs --------------------------
(***************************************************************************)
(* Type correctness of RunExecution for every set of runs, accounts and    *)
(* keys and every limit; and what holds of the status of runs: an          *)
(* account's lease is exclusive, an active run belongs to the current      *)
(* session of its account, and a run that ended stays as it ended.         *)
(***************************************************************************)
EXTENDS RunExecution, TLAPS

-----------------------------------------------------------------------------
(* The inductive invariant *)

Statuses == Active \cup Terminal \cup {"unused"}

(* A run that was inserted has an account, and only such a run has a       *)
(* catch-up record or reservations.  The types of what a preparation       *)
(* captures depend on it.                                                  *)
AccountKnown ==
    \A r \in Runs :
        /\ status[r] # "unused" => account[r] \in Accounts
        /\ catchup[r] # "none" => status[r] # "unused"
        /\ reserved[r] # {} => status[r] # "unused"

TypeInv == TypeOK /\ AccountKnown

-----------------------------------------------------------------------------
(* Message rows *)

(* Changing the delivery state of rows keeps them rows.                    *)
LEMMA SetStateType ==
    ASSUME NEW ms \in SUBSET Message, NEW sel,
           NEW s \in OpenStates \cup {"consumed", "failed"}
    PROVE  SetState(ms, sel, s) \subseteq Message
BY DEF SetState, WithState, Message, OpenStates

(* failRecipient keeps the type of the rows.                               *)
LEMMA FailRecipientType ==
    ASSUME NEW ms \in SUBSET Message, NEW rs
    PROVE  FailRecipient(ms, rs) \subseteq Message
BY SetStateType DEF FailRecipient

(* The parent of a child run is a run.                                     *)
LEMMA ParentType ==
    ASSUME TypeOK, NEW r \in Runs, IsChild(r)
    PROVE  Parent(r) \in Runs
BY DEF TypeOK, IsChild, Parent

(* A posted row with proper ends is a row.                                 *)
LEMMA PostedType ==
    ASSUME NEW from \in Runs \cup {User}, NEW to \in Runs \cup {User},
           NEW kind \in MessageKinds, NEW key \in Keys \cup {TerminalKey}
    PROVE  Posted(from, to, kind, key) \in Message
BY DEF Posted, Message, OpenStates

(* completeSourceRun writes rows.                                          *)
LEMMA NoticesType ==
    ASSUME TypeOK, NEW rs \in SUBSET Runs, NEW kind \in MessageKinds
    PROVE  Notices(rs, kind) \subseteq Message
<1>1. SUFFICES ASSUME NEW r \in rs PROVE Notice(r, kind) \in Message
  BY DEF Notices
<1>2. CASE IsChild(r)
  BY <1>2, ParentType, PostedType DEF Notice
<1>3. CASE ~IsChild(r)
  BY <1>3, PostedType DEF Notice
<1>4. QED
  BY <1>2, <1>3

(* A row that was waiting in an inbox may fail, the others stay rows.      *)
LEMMA CreatedType ==
    ASSUME TypeOK, NEW s \in Runs, NEW to \in Runs \cup {User}, NEW kind \in SentKinds,
           NEW key \in Keys \cup {TerminalKey}, CreateMessage(s, to, kind, key)
    PROVE  runMessages' \subseteq Message
<1>1. kind \in MessageKinds
  BY LimitsAssumption DEF LimitsAssumption, MessageKinds
<1>2. Posted(s, to, kind, key) \in Message
  BY <1>1, PostedType
<1>3. QED
  BY <1>2 DEF TypeOK, CreateMessage

-----------------------------------------------------------------------------
(* Operators of the preparation of runs *)

(* The catch-up chosen for a run is a run with a record, or null.          *)
LEMMA ContextForRunType ==
    ASSUME TypeOK, NEW r \in Runs
    PROVE  \/ contextForRun(r) = None
           \/ contextForRun(r) \in Runs /\ catchup[contextForRun(r)] # "none"
<1> DEFINE S == RecordsOf(account[r], {"ready", "failed"})
<1> DEFINE L == {i \in DOMAIN catchupOrder :
                   catchupOrder[i] \in S /\
                   \A j \in (i + 1) .. Len(catchupOrder) : catchupOrder[j] \notin S}
<1>1. S \subseteq {c \in Runs : catchup[c] # "none"}
  BY DEF RecordsOf
<1>2. readyFor(account[r]) = IF L = {} THEN None ELSE catchupOrder[CHOOSE i \in L : TRUE]
  BY DEF readyFor, LastIn
<1>3. ASSUME L # {} PROVE catchupOrder[CHOOSE i \in L : TRUE] \in S
  BY <1>3
<1>4. readyFor(account[r]) \in {c \in Runs : catchup[c] # "none"} \cup {None}
  BY <1>1, <1>2, <1>3
<1>5. QED
  BY <1>4 DEF contextForRun

(* deferRoot lists runs.                                                   *)
LEMMA DeferRootType ==
    ASSUME TypeOK, NEW r \in Runs, NEW a
    PROVE  deferRoot(a, r) \in [Runs -> Seq(Runs)]
<1> DEFINE b == blockingFor(a)
<1> DEFINE f == [pendingRoots EXCEPT ![b] = Append(pendingRoots[b], r)]
<1>1. \A x \in Runs : f[x] \in Seq(Runs)
  BY DEF TypeOK
<1>2. f \in [Runs -> Seq(Runs)]
  BY <1>1 DEF TypeOK
<1>3. deferRoot(a, r) = IF b = None THEN pendingRoots ELSE f
  BY DEF deferRoot
<1>4. QED
  BY <1>2, <1>3 DEF TypeOK

(* markDispatched changes a record that was reserved.                      *)
LEMMA MarkDispatchedType ==
    ASSUME TypeInv, NEW r \in Runs, markDispatched(capCatchup[r], r)
    PROVE  /\ catchup' \in [Runs -> CatchupStates]
           /\ consumedRuns' \in [Runs -> SUBSET Runs]
           /\ \A x \in Runs : catchup'[x] # "none" => status[x] # "unused"
<1> DEFINE c == capCatchup[r]
<1>1. CASE c # None /\ r \in reserved[c] /\ catchup[c] # "consumed"
  <2>1. c \in Runs /\ status[c] # "unused"
    BY <1>1 DEF TypeInv, TypeOK, AccountKnown
  <2>2. PICK v \in CatchupStates : catchup' = [catchup EXCEPT ![c] = v]
    BY <1>1, <2>1 DEF markDispatched, TypeInv, TypeOK, CatchupStates
  <2>3. consumedRuns' = [consumedRuns EXCEPT ![c] = consumedRuns[c] \cup {r}]
    BY <1>1 DEF markDispatched
  <2>4. QED
    BY <2>1, <2>2, <2>3 DEF TypeInv, TypeOK, AccountKnown
<1>2. CASE ~(c # None /\ r \in reserved[c] /\ catchup[c] # "consumed")
  BY <1>2 DEF markDispatched, TypeInv, TypeOK, AccountKnown
<1>3. QED
  BY <1>1, <1>2

(* Admission and StartPhase name a phase of the preparation, or a failure. *)
LEMMA PhaseType ==
    ASSUME NEW a, NEW pressed, NEW first
    PROVE  StartPhase(a, pressed, first) \in {"failed", "compact", "retry", "session"}
BY DEF StartPhase, Admission

(* What an outcome ph of preparations writes is well typed.                *)
LEMMA OutcomeType ==
    ASSUME TypeOK, NEW ph, NEW a \in Accounts, NEW base \in [Runs -> Statuses],
           \A x \in DOMAIN ph : ph[x] \in {"failed", "compact", "retry", "session"}
    PROVE  /\ StatusAfter(ph, base) \in [Runs -> Statuses]
           /\ \A x \in Runs : StatusAfter(ph, base)[x] = "unused" <=> base[x] = "unused"
           /\ PrepAfter(ph) \in [Runs -> Preps]
           /\ CaptureSession(ph, a) => capSession' \in [Runs -> Nat]
           /\ CaptureGeneration(ph, a) => capGen' \in [Runs -> Nat]
<1>1. StatusAfter(ph, base) \in [Runs -> Statuses]
  BY DEF StatusAfter, Statuses, Terminal
<1>5. \A x \in Runs : StatusAfter(ph, base)[x] = "unused" <=> base[x] = "unused"
  BY DEF StatusAfter, FailedIn
<1>2. PrepAfter(ph) \in [Runs -> Preps]
  BY DEF PrepAfter, Preps, TypeOK
<1>3. CaptureSession(ph, a) => capSession' \in [Runs -> Nat]
  BY DEF CaptureSession, TypeOK
<1>4. CaptureGeneration(ph, a) => capGen' \in [Runs -> Nat]
  BY DEF CaptureGeneration, TypeOK
<1>6. QED
  BY <1>1, <1>2, <1>3, <1>4, <1>5

(* The variables that StartRoots sets are well typed after it.             *)
LEMMA StartRootsType ==
    ASSUME TypeOK, NEW roots, NEW start, NEW a \in Accounts, NEW pressed,
           NEW base \in [Runs -> Statuses], NEW ms \in SUBSET Message,
           StartRoots(roots, start, a, pressed, base, ms)
    PROVE  /\ status' \in [Runs -> Statuses]
           /\ \A x \in Runs : status'[x] = "unused" <=> base[x] = "unused"
           /\ runMessages' \subseteq Message
           /\ prep' \in [Runs -> Preps]
           /\ capGen' \in [Runs -> Nat]
           /\ capSession' \in [Runs -> Nat]
           /\ capCatchup' \in [Runs -> Runs \cup {None}]
           /\ retried' \in [Runs -> BOOLEAN]
<1> DEFINE ph == StartPhases(roots, start, a, pressed)
<1>1. \A x \in DOMAIN ph : ph[x] \in {"failed", "compact", "retry", "session"}
  BY PhaseType DEF StartPhases
<1>2. /\ status' = StatusAfter(ph, base)
      /\ runMessages' = FailRecipient(ms, FailedIn(ph, base))
      /\ prep' = PrepAfter(ph)
      /\ CaptureGeneration(ph, a)
      /\ CaptureSession(ph, a)
      /\ UNCHANGED <<capCatchup, retried>>
  BY DEF StartRoots
<1> HIDE DEF ph
<1>3. runMessages' \subseteq Message
  BY <1>2, FailRecipientType
<1>4. capCatchup' \in [Runs -> Runs \cup {None}] /\ retried' \in [Runs -> BOOLEAN]
  BY <1>2 DEF TypeOK
<1>5. QED
  BY <1>1, <1>2, <1>3, <1>4, OutcomeType

(* So are the compaction variables after createContextCompactionJob.       *)
LEMMA RequestCompactionType ==
    ASSUME TypeOK, NEW a \in Accounts, NEW wanted \in BOOLEAN,
           RequestCompaction(a, wanted)
    PROVE  /\ compaction' \in [Accounts -> {"idle", "queued", "running"}]
           /\ compactFrom' \in [Accounts -> Nat]
<1>1. CASE wanted /\ compaction[a] = "idle"
  <2>1. /\ compaction' = [compaction EXCEPT ![a] = "queued"]
        /\ compactFrom' = [compactFrom EXCEPT ![a] = generation[a]]
    BY <1>1 DEF RequestCompaction
  <2>2. generation[a] \in Nat
    BY DEF TypeOK
  <2>3. QED
    BY <2>1, <2>2 DEF TypeOK
<1>2. CASE ~(wanted /\ compaction[a] = "idle")
  BY <1>2 DEF RequestCompaction, TypeOK
<1>3. QED
  BY <1>1, <1>2

-----------------------------------------------------------------------------
(* Every action keeps the types *)

USE DEF Statuses, Active, Terminal, Preps, CatchupStates,
        runVars, backgroundVars, accountVars, contextVars, prepVars

(* Login writes a session number.                                          *)
LEMMA LoginType ==
    ASSUME TypeInv, NEW a \in Accounts, Login(a)
    PROVE  TypeInv'
<1>1. sessionCount' \in [Accounts -> Nat] /\ session' \in [Accounts -> Nat]
  BY DEF TypeInv, TypeOK, Login
<1>2. QED
  BY <1>1 DEF TypeInv, TypeOK, AccountKnown, Login

(* The end of a session fails runs.                                        *)
LEMMA RevokeType ==
    ASSUME TypeInv, NEW a \in Accounts, Revoke(a)
    PROVE  TypeInv'
BY DEF TypeInv, TypeOK, AccountKnown, Revoke, releaseAccountExecutions, IsActive

(* A scheduled root is pending, or failed in its first attempt.            *)
LEMMA ScheduleRootType ==
    ASSUME TypeInv, NEW r \in Runs, NEW a \in Accounts, ScheduleRoot(r, a)
    PROVE  TypeInv'
<1>0. TypeOK /\ AccountKnown
  BY DEF TypeInv
<1> DEFINE base == [status EXCEPT ![r] = "pending"]
<1>1. /\ account' \in [Runs -> Accounts \cup {None}] /\ account'[r] = a
      /\ runSession' \in [Runs -> Nat] /\ contextGeneration' \in [Runs -> Nat]
      /\ \A x \in Runs \ {r} : account'[x] = account[x]
  BY <1>0 DEF TypeOK, ScheduleRoot
<1>2. /\ UNCHANGED <<lineage, outputPolicy, catchup, catchupOrder, reserved, consumedRuns,
                     session, sessionCount, generation, pressure, gateway>>
  BY DEF ScheduleRoot
<1>3. CASE blockingFor(a) # None
  <2>1. /\ status' = base
        /\ pendingRoots' = deferRoot(a, r)
        /\ prep' = [prep EXCEPT ![r] = "deferred"]
        /\ UNCHANGED <<runMessages, capGen, capSession, capCatchup, retried,
                       compaction, compactFrom>>
    BY <1>3 DEF ScheduleRoot
  <2>2. pendingRoots' \in [Runs -> Seq(Runs)]
    BY <1>0, <2>1, DeferRootType
  <2>a. status' \in [Runs -> Statuses] /\ prep' \in [Runs -> Preps]
    BY <1>0, <2>1 DEF TypeOK
  <2>3. TypeOK'
    BY <1>0, <1>1, <1>2, <2>1, <2>2, <2>a DEF TypeOK
  <2>4. AccountKnown'
    BY <1>0, <1>1, <1>2, <2>1 DEF TypeOK, AccountKnown
  <2>5. QED
    BY <2>3, <2>4 DEF TypeInv
<1>4. CASE blockingFor(a) = None
  <2>1. /\ StartRoots({r}, r, a, pressure[a], base, runMessages)
        /\ RequestCompaction(a, pressure[a])
        /\ UNCHANGED pendingRoots
    BY <1>4 DEF ScheduleRoot
  <2>2. base \in [Runs -> Statuses] /\ runMessages \in SUBSET Message
    BY <1>0 DEF TypeOK
  <2>3. /\ status' \in [Runs -> Statuses] /\ runMessages' \subseteq Message
        /\ prep' \in [Runs -> Preps] /\ capGen' \in [Runs -> Nat]
        /\ capSession' \in [Runs -> Nat] /\ capCatchup' \in [Runs -> Runs \cup {None}]
        /\ retried' \in [Runs -> BOOLEAN]
        /\ \A x \in Runs : status'[x] = "unused" <=> base[x] = "unused"
    BY <1>0, <2>1, <2>2, StartRootsType
  <2>4. /\ compaction' \in [Accounts -> {"idle", "queued", "running"}]
        /\ compactFrom' \in [Accounts -> Nat]
    <3>1. pressure[a] \in BOOLEAN
      BY <1>0 DEF TypeOK
    <3>2. QED
      BY <1>0, <2>1, <3>1, RequestCompactionType
  <2>5. \A x \in Runs \ {r} : status[x] = "unused" <=> status'[x] = "unused"
    BY <1>0, <2>3 DEF TypeOK
  <2>6. status[r] = "unused" /\ catchup[r] = "none"
    BY <1>0 DEF ScheduleRoot, AccountKnown
  <2>7. AccountKnown'
    BY <1>0, <1>1, <1>2, <2>5, <2>6 DEF AccountKnown
  <2>8. TypeOK'
    BY <1>0, <1>1, <1>2, <2>1, <2>3, <2>4 DEF TypeOK
  <2>9. QED
    BY <2>7, <2>8 DEF TypeInv
<1>5. QED
  BY <1>3, <1>4

(* The catch-up reserved for a run is a run or null.                       *)
LEMMA SessionReadyType ==
    ASSUME TypeInv, NEW r \in Runs, SessionReady(r)
    PROVE  TypeInv'
<1>1. \/ contextForRun(r) = None
      \/ contextForRun(r) \in Runs /\ catchup[contextForRun(r)] # "none"
  BY ContextForRunType DEF TypeInv
<1>2. reserved' \in [Runs -> SUBSET Runs] /\ capCatchup' \in [Runs -> Runs \cup {None}]
  BY <1>1 DEF TypeInv, TypeOK, SessionReady, reserve
<1>3. \A x \in Runs : reserved'[x] # {} => reserved[x] # {} \/ catchup[x] # "none"
  BY <1>1 DEF TypeInv, TypeOK, SessionReady, reserve
<1>4. QED
  BY <1>2, <1>3 DEF TypeInv, TypeOK, AccountKnown, SessionReady

(* A dispatched run was active before.                                     *)
LEMMA DispatchType ==
    ASSUME TypeInv, NEW r \in Runs, Dispatch(r)
    PROVE  TypeInv'
<1>1. /\ catchup' \in [Runs -> CatchupStates] /\ consumedRuns' \in [Runs -> SUBSET Runs]
      /\ \A x \in Runs : catchup'[x] # "none" => status[x] # "unused"
  BY MarkDispatchedType DEF Dispatch
<1>2. status[r] # "unused"
  BY DEF Dispatch, MayClaim, IsActive
<1>3. status' = [status EXCEPT ![r] = "running"] /\ prep' = [prep EXCEPT ![r] = "none"]
  BY DEF Dispatch
<1>4. UNCHANGED <<account, lineage, outputPolicy, runSession, runMessages, catchupOrder,
                  pendingRoots, reserved, accountVars, contextVars, contextGeneration,
                  capGen, capSession, capCatchup, retried, gateway>>
  BY DEF Dispatch
<1>a. status' \in [Runs -> Statuses] /\ prep' \in [Runs -> Preps]
  BY <1>3 DEF TypeInv, TypeOK
<1>5. TypeOK'
  BY <1>1, <1>4, <1>a DEF TypeInv, TypeOK
<1>6. AccountKnown'
  BY <1>1, <1>2, <1>3, <1>4 DEF TypeInv, TypeOK, AccountKnown
<1>7. QED
  BY <1>5, <1>6 DEF TypeInv

(* A claim that finds the account busy sets the timer.                     *)
LEMMA DispatchBusyType ==
    ASSUME TypeInv, NEW r \in Runs, DispatchBusy(r)
    PROVE  TypeInv'
BY DEF TypeInv, TypeOK, AccountKnown, DispatchBusy, releaseReservation

(* A failed start fails a pending run.                                     *)
LEMMA DispatchFailsType ==
    ASSUME TypeInv, NEW r \in Runs, DispatchFails(r)
    PROVE  TypeInv'
<1>1. runMessages' \subseteq Message
  BY FailRecipientType DEF TypeInv, TypeOK, DispatchFails
<1>2. status' \in [Runs -> Statuses] /\ \A x \in Runs : status[x] = "unused" <=> status'[x] = "unused"
  BY DEF TypeInv, TypeOK, DispatchFails, StatusAfter, FailedIn
<1>3. QED
  BY <1>1, <1>2 DEF TypeInv, TypeOK, AccountKnown, DispatchFails, releaseReservation

(* The second attempt of a root starts with the same types.                *)
LEMMA RetryRootType ==
    ASSUME TypeInv, NEW r \in Runs, RetryRoot(r)
    PROVE  TypeInv'
<1> DEFINE ph == [x \in {r} |-> IF capGen[r] # generation[account[r]] THEN "failed"
                                 ELSE StartPhase(account[r], pressure[account[r]], TRUE)]
<1>1. account[r] \in Accounts
  BY DEF TypeInv, AccountKnown, RetryRoot
<1>2. \A x \in DOMAIN ph : ph[x] \in {"failed", "compact", "retry", "session"}
  BY PhaseType
<1>3. ph[r] \in {"failed", "compact", "retry", "session"}
  BY <1>2
<1>4. /\ retried' = [retried EXCEPT ![r] = TRUE]
      /\ status' = StatusAfter(ph, status)
      /\ runMessages' = FailRecipient(runMessages, FailedIn(ph, status))
      /\ prep' = PrepAfter(ph)
      /\ CaptureSession(ph, account[r])
      /\ RequestCompaction(account[r], ph[r] = "compact")
      /\ gateway' = IF ph[r] = "failed" THEN "down" ELSE "up"
      /\ UNCHANGED <<account, lineage, outputPolicy, runSession, backgroundVars,
                     accountVars, generation, pressure, contextGeneration, capGen,
                     capCatchup>>
  BY DEF RetryRoot
<1> HIDE DEF ph
<1>5. /\ StatusAfter(ph, status) \in [Runs -> Statuses]
      /\ \A x \in Runs : StatusAfter(ph, status)[x] = "unused" <=> status[x] = "unused"
      /\ PrepAfter(ph) \in [Runs -> Preps]
      /\ capSession' \in [Runs -> Nat]
  <2>1. TypeOK /\ status \in [Runs -> Statuses]
    BY DEF TypeInv, TypeOK
  <2>2. QED
    BY <1>1, <1>2, <1>4, <2>1, OutcomeType
<1>6. runMessages' \subseteq Message
  BY <1>4, FailRecipientType DEF TypeInv, TypeOK
<1>7. /\ compaction' \in [Accounts -> {"idle", "queued", "running"}]
      /\ compactFrom' \in [Accounts -> Nat]
  BY <1>1, <1>4, RequestCompactionType DEF TypeInv
<1>8. TypeOK'
  BY <1>4, <1>5, <1>6, <1>7 DEF TypeInv, TypeOK
<1>9. AccountKnown'
  BY <1>4, <1>5 DEF TypeInv, TypeOK, AccountKnown
<1>10. QED
  BY <1>8, <1>9 DEF TypeInv

(* The timer of a run that ended does nothing.                             *)
LEMMA RetryDroppedType ==
    ASSUME TypeInv, NEW r \in Runs, RetryDropped(r)
    PROVE  TypeInv'
BY DEF TypeInv, TypeOK, AccountKnown, RetryDropped

(* failPending of a child writes a terminal row, or nothing.               *)
LEMMA FailPendingChildType ==
    ASSUME TypeInv, NEW r \in Runs, NEW ms \in SUBSET Message,
           NEW notices \in SUBSET Message, NEW fits,
           FailPendingChild(r, ms, notices, fits)
    PROVE  /\ status' \in [Runs -> Statuses]
           /\ \A x \in Runs : status'[x] # "unused" <=> status[x] # "unused" \/ x = r
           /\ runMessages' \subseteq Message
           /\ gateway' \in {"up", "down"}
<1>1. ms \cup notices \in SUBSET Message
  OBVIOUS
<1>2. runMessages' \subseteq Message
  BY <1>1, FailRecipientType DEF FailPendingChild
<1>3. QED
  BY <1>2 DEF FailPendingChild, TypeInv, TypeOK

(* A delegated child is pending, running, or failed at once.               *)
LEMMA DelegateType ==
    ASSUME TypeInv, NEW s \in Runs, NEW r \in Runs, NEW a \in Accounts, NEW key \in Keys, Delegate(s, r, a, key)
    PROVE  TypeInv'
<1> DEFINE packet == Posted(s, r, "delegate", key)
<1>0. TypeOK /\ AccountKnown
  BY DEF TypeInv
<1>1. /\ packet \in Message /\ WithState(packet, "consumed") \in Message
      /\ Posted(r, s, "blocked", TerminalKey) \in Message
  <2>1. packet \in Message /\ Posted(r, s, "blocked", TerminalKey) \in Message
    BY PostedType DEF MessageKinds
  <2>2. QED
    BY <2>1 DEF WithState, Message, OpenStates
<1>2. /\ account' = [account EXCEPT ![r] = a]
      /\ lineage' = [lineage EXCEPT ![r] = Append(lineage[s], s)]
      /\ outputPolicy' = [outputPolicy EXCEPT ![r] = "source"]
      /\ runSession' = [runSession EXCEPT ![r] = session[a]]
      /\ UNCHANGED <<backgroundVars, accountVars, contextVars, contextGeneration,
                     capGen, capSession, capCatchup, retried>>
  BY DEF Delegate
<1>3. /\ account' \in [Runs -> Accounts \cup {None}] /\ account'[r] = a
      /\ \A x \in Runs \ {r} : account'[x] = account[x]
      /\ lineage' \in [Runs -> Seq(Runs)]
      /\ outputPolicy' \in [Runs -> {"space", "source"}]
      /\ runSession' \in [Runs -> Nat]
  <2>1. Append(lineage[s], s) \in Seq(Runs) /\ session[a] \in Nat
    BY <1>0 DEF TypeOK
  <2>2. QED
    BY <1>0, <1>2, <2>1 DEF TypeOK
<1>4. /\ status' \in [Runs -> Statuses]
      /\ \A x \in Runs : status'[x] # "unused" <=> status[x] # "unused" \/ x = r
      /\ runMessages' \subseteq Message
      /\ prep' \in [Runs -> Preps]
      /\ gateway' \in {"up", "down"}
  <2>1. CASE /\ FailPendingChild(r, runMessages \cup {packet},
                                  {Posted(r, s, "blocked", TerminalKey)},
                                  HasCapacity(RootOf(s), 2))
             /\ UNCHANGED prep
    <3>1. runMessages \cup {packet} \in SUBSET Message
      BY <1>0, <1>1 DEF TypeOK
    <3>2. {Posted(r, s, "blocked", TerminalKey)} \in SUBSET Message
      BY <1>1
    <3>3. QED
      BY <1>0, <2>1, <3>1, <3>2, FailPendingChildType DEF TypeOK
  <2>2. CASE /\ status' = [status EXCEPT ![r] = "pending"]
             /\ runMessages' = runMessages \cup {packet}
             /\ prep' = [prep EXCEPT ![r] = "retry"]
             /\ UNCHANGED gateway
    BY <1>0, <1>1, <2>2 DEF TypeOK
  <2>3. CASE /\ status' = [status EXCEPT ![r] = "running"]
             /\ runMessages' = runMessages \cup {WithState(packet, "consumed")}
             /\ UNCHANGED <<prep, gateway>>
    BY <1>0, <1>1, <2>3 DEF TypeOK
  <2>4. QED
    BY <2>1, <2>2, <2>3 DEF Delegate
<1>5. TypeOK'
  BY <1>0, <1>2, <1>3, <1>4 DEF TypeOK
<1>6. AccountKnown'
  <2>1. /\ catchup' = catchup /\ reserved' = reserved
        /\ \A x \in Runs : status'[x] # "unused" => status[x] # "unused" \/ x = r
        /\ \A x \in Runs : status[x] # "unused" => status'[x] # "unused"
    BY <1>2, <1>4
  <2>2. \A x \in Runs : status'[x] # "unused" => account'[x] \in Accounts
    BY <1>0, <1>3, <2>1 DEF AccountKnown
  <2>3. QED
    BY <1>0, <2>1, <2>2 DEF AccountKnown
<1>7. QED
  BY <1>5, <1>6 DEF TypeInv

(* A retried child fails.                                                  *)
LEMMA RetryChildFailsType ==
    ASSUME TypeInv, NEW r \in Runs, RetryChildFails(r)
    PROVE  TypeInv'
<1>1. PICK expired \in SUBSET OpenFor(InitialMessages(r), {r}) :
           FailPendingChild(r, SetState(runMessages, expired, "failed"), Notices({r}, "blocked"),
                            NeedsNotice(r) => HasCapacity(RootOf(r), 1))
  BY DEF RetryChildFails
<1>2. SetState(runMessages, expired, "failed") \in SUBSET Message
  BY SetStateType DEF TypeInv, TypeOK
<1>3. Notices({r}, "blocked") \in SUBSET Message
  BY NoticesType DEF TypeInv, MessageKinds
<1>4. /\ status' \in [Runs -> Statuses]
      /\ \A x \in Runs : status'[x] # "unused" <=> status[x] # "unused" \/ x = r
      /\ runMessages' \subseteq Message
      /\ gateway' \in {"up", "down"}
  BY <1>1, <1>2, <1>3, FailPendingChildType
<1>5. QED
  BY <1>4 DEF TypeInv, TypeOK, AccountKnown, RetryChildFails

(* A child whose account is busy keeps its timer.                          *)
LEMMA RetryChildBusyType ==
    ASSUME TypeInv, NEW r \in Runs, RetryChildBusy(r)
    PROVE  TypeInv'
BY DEF TypeInv, TypeOK, AccountKnown, RetryChildBusy, vars

(* A retried child starts.                                                 *)
LEMMA RetryChildRunsType ==
    ASSUME TypeInv, NEW r \in Runs, RetryChildRuns(r)
    PROVE  TypeInv'
<1>1. runMessages' \subseteq Message
  BY SetStateType DEF TypeInv, TypeOK, RetryChildRuns
<1>2. QED
  BY <1>1 DEF TypeInv, TypeOK, AccountKnown, RetryChildRuns

(* The catch-up record of an ended run and the roots it resumes.           *)
LEMMA SettleType ==
    ASSUME TypeInv, NEW r \in Runs, account[r] \in Accounts, status[r] # "unused",
           NEW final, NEW news \in BOOLEAN, NEW pressed,
           NEW base \in [Runs -> Statuses],
           \A x \in Runs : base[x] = "unused" <=> status[x] = "unused",
           NEW ms \in SUBSET Message,
           Settle(r, final, news, pressed, base, ms)
    PROVE  /\ status' \in [Runs -> Statuses]
           /\ \A x \in Runs : status'[x] = "unused" <=> status[x] = "unused"
           /\ runMessages' \subseteq Message
           /\ prep' \in [Runs -> Preps]
           /\ capGen' \in [Runs -> Nat]
           /\ capSession' \in [Runs -> Nat]
           /\ capCatchup' \in [Runs -> Runs \cup {None}]
           /\ retried' \in [Runs -> BOOLEAN]
           /\ catchup' \in [Runs -> CatchupStates]
           /\ \A x \in Runs : catchup'[x] # "none" => status[x] # "unused"
<1>1. FinishedStatus(r, final, news) \in CatchupStates
  BY DEF FinishedStatus, TypeInv, TypeOK
<1>2. catchup' = [catchup EXCEPT ![r] = FinishedStatus(r, final, news)]
  BY DEF Settle
<1>3. /\ catchup' \in [Runs -> CatchupStates]
      /\ \A x \in Runs : catchup'[x] # "none" => status[x] # "unused"
  BY <1>1, <1>2 DEF TypeInv, TypeOK, AccountKnown
<1>4. StartRoots(ResumedByFinish(r, final, news), FirstResumed(r), account[r], pressed, base, ms)
  BY DEF Settle
<1>5. TypeOK
  BY DEF TypeInv
<1>6. /\ status' \in [Runs -> Statuses]
      /\ \A x \in Runs : status'[x] = "unused" <=> base[x] = "unused"
      /\ runMessages' \subseteq Message
      /\ prep' \in [Runs -> Preps]
      /\ capGen' \in [Runs -> Nat]
      /\ capSession' \in [Runs -> Nat]
      /\ capCatchup' \in [Runs -> Runs \cup {None}]
      /\ retried' \in [Runs -> BOOLEAN]
  BY <1>4, <1>5, StartRootsType
<1>7. QED
  BY <1>3, <1>6

(* A run completes, or its terminal row does not fit.                      *)
LEMMA CompleteRunType ==
    ASSUME TypeInv, NEW r \in Runs, NEW usage \in {"none", "low", "high"}, NEW news \in BOOLEAN, CompleteRun(r, usage, news)
    PROVE  TypeInv'
<1> DEFINE a       == account[r]
<1> DEFINE pressed == IF usage = "none" THEN pressure[a] ELSE usage = "high"
<1> DEFINE fits    == NeedsNotice(r) => HasCapacity(RootOf(r), 1)
<1> DEFINE base    == [status EXCEPT ![r] = "completed"]
<1> DEFINE ms      == FailRecipient(runMessages \cup Notices({r}, "result"), {r})
<1>0. TypeOK /\ AccountKnown
  BY DEF TypeInv
<1>1. status[r] = "running" /\ a \in Accounts
  BY <1>0 DEF CompleteRun, HasAuthority, AccountKnown
<1>2. pressed \in BOOLEAN /\ pressure' = [pressure EXCEPT ![a] = pressed]
  BY <1>0, <1>1 DEF TypeOK, CompleteRun
<1>3. pressure' \in [Accounts -> BOOLEAN]
  BY <1>0, <1>2 DEF TypeOK
<1>4. UNCHANGED <<account, lineage, outputPolicy, runSession, catchupOrder, pendingRoots,
                  reserved, consumedRuns, accountVars, generation, contextGeneration, gateway>>
  BY DEF CompleteRun
<1>5. CASE fits
  <2>1. /\ Settle(r, "completed", news, pressed, base, ms)
        /\ RequestCompaction(a, usage = "high" \/
               (pressed /\ ResumedByFinish(r, "completed", news) # {}))
    BY <1>5 DEF CompleteRun
  <2>2. base \in [Runs -> Statuses] /\ \A x \in Runs : base[x] = "unused" <=> status[x] = "unused"
    BY <1>0, <1>1 DEF TypeOK
  <2>3. ms \in SUBSET Message
    <3>1. Notices({r}, "result") \in SUBSET Message
      BY <1>0, NoticesType DEF MessageKinds
    <3>2. runMessages \cup Notices({r}, "result") \in SUBSET Message
      BY <1>0, <3>1 DEF TypeOK
    <3>3. QED
      BY <3>2, FailRecipientType
  <2>4. /\ compaction' \in [Accounts -> {"idle", "queued", "running"}]
        /\ compactFrom' \in [Accounts -> Nat]
    <3>1. (usage = "high" \/ (pressed /\ ResumedByFinish(r, "completed", news) # {})) \in BOOLEAN
      BY <1>2
    <3>2. QED
      BY <1>0, <1>1, <2>1, <3>1, RequestCompactionType
  <2> HIDE DEF base, ms, pressed, a, fits
  <2>5. /\ status' \in [Runs -> Statuses]
        /\ \A x \in Runs : status'[x] = "unused" <=> status[x] = "unused"
        /\ runMessages' \subseteq Message
        /\ prep' \in [Runs -> Preps]
        /\ capGen' \in [Runs -> Nat]
        /\ capSession' \in [Runs -> Nat]
        /\ capCatchup' \in [Runs -> Runs \cup {None}]
        /\ retried' \in [Runs -> BOOLEAN]
        /\ catchup' \in [Runs -> CatchupStates]
        /\ \A x \in Runs : catchup'[x] # "none" => status[x] # "unused"
    BY <1>1, <2>1, <2>2, <2>3, SettleType DEF a
  <2>6. TypeOK'
    BY <1>0, <1>3, <1>4, <2>4, <2>5 DEF TypeOK
  <2>7. AccountKnown'
    BY <1>0, <1>4, <2>5 DEF AccountKnown
  <2>8. QED
    BY <2>6, <2>7 DEF TypeInv
<1>6. CASE ~fits
  <2>1. UNCHANGED <<status, runMessages, catchup, prepVars, compaction, compactFrom>>
    BY <1>6 DEF CompleteRun
  <2>2. QED
    BY <1>0, <1>3, <1>4, <2>1 DEF TypeInv, TypeOK, AccountKnown
<1>7. QED
  BY <1>5, <1>6

(* The runs that an end reaches were active.                               *)
LEMMA EndSubtreeType ==
    ASSUME TypeInv, NEW r \in Runs, NEW T \in SUBSET ActiveRuns,
           NEW final \in {"failed", "cancelled"}, NEW news \in BOOLEAN, EndSubtree(r, T, final, news)
    PROVE  TypeInv'
<1> DEFINE a == account[r]
<1>0. TypeOK /\ AccountKnown
  BY DEF TypeInv
<1>1. PICK done \in SUBSET T :
        LET base  == [x \in Runs |-> IF x \notin done THEN status[x]
                                     ELSE IF x = r THEN final ELSE "cancelled"]
            ms    == FailRecipient(runMessages \cup Notices(done, "blocked"), done)
        IN  /\ EndedPrefix(T, RootOf(r), done)
            /\ IF r \in done
               THEN /\ Settle(r, final, news, pressure[a], base, ms)
                    /\ RequestCompaction(a, pressure[a] /\ ResumedByFinish(r, final, news) # {})
               ELSE /\ status' = base
                    /\ runMessages' = ms
                    /\ UNCHANGED <<catchup, prepVars, compaction, compactFrom>>
            /\ UNCHANGED <<account, lineage, outputPolicy, runSession, catchupOrder,
                           pendingRoots, reserved, consumedRuns, accountVars, generation,
                           pressure, contextGeneration, gateway>>
  BY DEF EndSubtree
<1> DEFINE base == [x \in Runs |-> IF x \notin done THEN status[x]
                                   ELSE IF x = r THEN final ELSE "cancelled"]
<1> DEFINE ms == FailRecipient(runMessages \cup Notices(done, "blocked"), done)
<1>2. done \in SUBSET Runs /\ \A x \in done : status[x] # "unused"
  BY DEF ActiveRuns, IsActive
<1>3. /\ base \in [Runs -> Statuses]
      /\ \A x \in Runs : base[x] = "unused" <=> status[x] = "unused"
  BY <1>0, <1>2 DEF TypeOK
<1>4. ms \in SUBSET Message
  <2>1. Notices(done, "blocked") \in SUBSET Message
    BY <1>0, <1>2, NoticesType DEF MessageKinds
  <2>2. runMessages \cup Notices(done, "blocked") \in SUBSET Message
    BY <1>0, <2>1 DEF TypeOK
  <2>3. QED
    BY <2>2, FailRecipientType
<1>5. UNCHANGED <<account, lineage, outputPolicy, runSession, catchupOrder, pendingRoots,
                  reserved, consumedRuns, accountVars, generation, pressure,
                  contextGeneration, gateway>>
  BY <1>1
<1>6. CASE r \in done
  <2>1. /\ Settle(r, final, news, pressure[a], base, ms)
        /\ RequestCompaction(a, pressure[a] /\ ResumedByFinish(r, final, news) # {})
    BY <1>1, <1>6
  <2>2. status[r] # "unused" /\ a \in Accounts
    BY <1>0, <1>2, <1>6 DEF AccountKnown
  <2>3. pressure[a] \in BOOLEAN
    BY <1>0, <2>2 DEF TypeOK
  <2>4. /\ compaction' \in [Accounts -> {"idle", "queued", "running"}]
        /\ compactFrom' \in [Accounts -> Nat]
    BY <1>0, <2>1, <2>2, <2>3, RequestCompactionType
  <2> HIDE DEF base, ms
  <2>5. /\ status' \in [Runs -> Statuses]
        /\ \A x \in Runs : status'[x] = "unused" <=> status[x] = "unused"
        /\ runMessages' \subseteq Message
        /\ prep' \in [Runs -> Preps]
        /\ capGen' \in [Runs -> Nat]
        /\ capSession' \in [Runs -> Nat]
        /\ capCatchup' \in [Runs -> Runs \cup {None}]
        /\ retried' \in [Runs -> BOOLEAN]
        /\ catchup' \in [Runs -> CatchupStates]
        /\ \A x \in Runs : catchup'[x] # "none" => status[x] # "unused"
    BY <1>3, <1>4, <2>1, <2>2, SettleType
  <2>6. TypeOK'
    BY <1>0, <1>5, <2>4, <2>5 DEF TypeOK
  <2>7. AccountKnown'
    BY <1>0, <1>5, <2>5 DEF AccountKnown
  <2>8. QED
    BY <2>6, <2>7 DEF TypeInv
<1>7. CASE r \notin done
  <2>1. /\ status' = base
        /\ runMessages' = ms
        /\ UNCHANGED <<catchup, prepVars, compaction, compactFrom>>
    BY <1>1, <1>7
  <2> HIDE DEF base, ms
  <2>2. QED
    BY <1>0, <1>3, <1>4, <1>5, <2>1 DEF TypeInv, TypeOK, AccountKnown
<1>8. QED
  BY <1>6, <1>7

(* A run that ends takes its active descendants along.                     *)
LEMMA EndRunType ==
    ASSUME TypeInv, NEW r \in Runs, NEW final \in {"failed", "cancelled"}, NEW news \in BOOLEAN, EndRun(r, final, news)
    PROVE  TypeInv'
<1>1. {r} \cup ActiveDescendants(r) \in SUBSET ActiveRuns
  BY DEF EndRun, HasAuthority, ActiveDescendants, ActiveRuns, IsActive
<1>2. QED
  BY <1>1, EndSubtreeType DEF EndRun

(* So does one that is cancelled.                                          *)
LEMMA CancelRequestType ==
    ASSUME TypeInv, NEW r \in Runs, NEW news \in BOOLEAN, CancelRequest(r, news)
    PROVE  TypeInv'
<1>1. ({r} \cap ActiveRuns) \cup ActiveDescendants(r) \in SUBSET ActiveRuns
  BY DEF ActiveDescendants
<1>2. QED
  BY <1>1, EndSubtreeType DEF CancelRequest

(* A requested compaction queues a target per account.                     *)
LEMMA CompactSpaceType ==
    ASSUME TypeInv, CompactSpace
    PROVE  TypeInv'
BY DEF TypeInv, TypeOK, AccountKnown, CompactSpace

(* A compaction starts.                                                    *)
LEMMA CompactStartType ==
    ASSUME TypeInv, NEW a \in Accounts, CompactStart(a)
    PROVE  TypeInv'
BY DEF TypeInv, TypeOK, AccountKnown, CompactStart

(* A compaction rotates the context and admits the run that awaits it.     *)
LEMMA CompactSucceedsType ==
    ASSUME TypeInv, NEW a \in Accounts, CompactSucceeds(a)
    PROVE  TypeInv'
<1> DEFINE ph == [r \in Compacting(a) |-> "session"]
<1>1. /\ generation' = [generation EXCEPT ![a] = generation[a] + 1]
      /\ contextGeneration' = [r \in Runs |-> IF r \in Compacting(a)
                                   THEN generation[a] + 1 ELSE contextGeneration[r]]
      /\ compaction' = [compaction EXCEPT ![a] = "idle"]
      /\ pressure' = [pressure EXCEPT ![a] = FALSE]
      /\ prep' = PrepAfter(ph)
      /\ CaptureSession(ph, a)
      /\ UNCHANGED <<runVars, runMessages, backgroundVars, accountVars, compactFrom,
                     capGen, capCatchup, retried, gateway>>
  BY DEF CompactSucceeds
<1>2. generation[a] + 1 \in Nat \ {0}
  BY DEF TypeInv, TypeOK
<1>3. /\ generation' \in [Accounts -> Nat \ {0}]
      /\ contextGeneration' \in [Runs -> Nat]
      /\ compaction' \in [Accounts -> {"idle", "queued", "running"}]
      /\ pressure' \in [Accounts -> BOOLEAN]
  BY <1>1, <1>2 DEF TypeInv, TypeOK
<1>4. \A x \in DOMAIN ph : ph[x] \in {"failed", "compact", "retry", "session"}
  OBVIOUS
<1> HIDE DEF ph
<1>5. prep' \in [Runs -> Preps] /\ capSession' \in [Runs -> Nat]
  <2>1. TypeOK /\ status \in [Runs -> Statuses]
    BY DEF TypeInv, TypeOK
  <2>2. QED
    BY <1>1, <1>4, <2>1, OutcomeType
<1>6. QED
  BY <1>1, <1>3, <1>5 DEF TypeInv, TypeOK, AccountKnown

(* A failed compaction fails the run that awaits it.                       *)
LEMMA CompactFailsType ==
    ASSUME TypeInv, NEW a \in Accounts, CompactFails(a)
    PROVE  TypeInv'
<1> DEFINE ph == [r \in Compacting(a) |-> "failed"]
<1>1. /\ compaction' = [compaction EXCEPT ![a] = "idle"]
      /\ status' = StatusAfter(ph, status)
      /\ runMessages' = FailRecipient(runMessages, FailedIn(ph, status))
      /\ prep' = PrepAfter(ph)
      /\ gateway' = IF \E r \in Compacting(a) : retried[r] THEN "down" ELSE "up"
      /\ UNCHANGED <<account, lineage, outputPolicy, runSession, backgroundVars, accountVars,
                     generation, pressure, compactFrom, contextGeneration, capGen,
                     capSession, capCatchup, retried>>
  BY DEF CompactFails
<1>2. \A x \in DOMAIN ph : ph[x] \in {"failed", "compact", "retry", "session"}
  OBVIOUS
<1> HIDE DEF ph
<1>3. TypeOK /\ status \in [Runs -> Statuses]
  BY DEF TypeInv, TypeOK
<1>4. /\ status' \in [Runs -> Statuses]
      /\ \A x \in Runs : status'[x] = "unused" <=> status[x] = "unused"
      /\ prep' \in [Runs -> Preps]
  BY <1>1, <1>2, <1>3, OutcomeType
<1>5. runMessages' \subseteq Message
  BY <1>1, <1>3, FailRecipientType DEF TypeOK
<1>6. compaction' \in [Accounts -> {"idle", "queued", "running"}] /\ gateway' \in {"up", "down"}
  BY <1>1, <1>3 DEF TypeOK
<1>7. TypeOK'
  BY <1>1, <1>3, <1>4, <1>5, <1>6 DEF TypeOK
<1>8. AccountKnown'
  BY <1>1, <1>4 DEF TypeInv, AccountKnown
<1>9. QED
  BY <1>7, <1>8 DEF TypeInv

(* A rotated binding advances the generation of a run's account.           *)
LEMMA RotateBindingType ==
    ASSUME TypeInv, NEW r \in Runs, RotateBinding(r)
    PROVE  TypeInv'
<1>1. account[r] \in Accounts
  BY DEF TypeInv, AccountKnown, RotateBinding, HasAuthority
<1>2. generation[account[r]] + 1 \in Nat \ {0}
  BY <1>1 DEF TypeInv, TypeOK
<1>3. /\ generation' \in [Accounts -> Nat \ {0}]
      /\ contextGeneration' \in [Runs -> Nat]
      /\ pressure' \in [Accounts -> BOOLEAN]
  BY <1>2 DEF TypeInv, TypeOK, RotateBinding
<1>4. QED
  BY <1>3 DEF TypeInv, TypeOK, AccountKnown, RotateBinding

(* The requests that only change message rows.                             *)
LEMMA MessagesOnlyType ==
    ASSUME TypeInv, runMessages' \subseteq Message, UNCHANGED otherThanMessages
    PROVE  TypeInv'
BY DEF TypeInv, TypeOK, AccountKnown, otherThanMessages

(* Requests of daemons and users about messages.                           *)
LEMMA MessageStepType ==
    ASSUME TypeInv, NEW s \in Runs, MessageStep(s)
    PROVE  TypeInv'
<1>0. TypeOK
  BY DEF TypeInv
<1>1. ASSUME NEW a \in Accounts, NEW c \in Runs, NEW key \in Keys, Delegate(s, c, a, key)
      PROVE  TypeInv'
  BY <1>1, DelegateType
<1>2. ASSUME NEW to \in Runs \cup {User}, NEW kind \in SentKinds,
             NEW key \in Keys \cup {TerminalKey}, SendMessage(s, to, kind, key)
      PROVE  TypeInv'
  BY <1>0, <1>2, CreatedType, MessagesOnlyType DEF SendMessage
<1>a. ASSUME NEW kind \in SentKinds, SendTerminal(s, kind) PROVE TypeInv'
  <2>1. (IF IsChild(s) THEN Parent(s) ELSE User) \in Runs \cup {User}
    BY <1>0, ParentType
  <2>2. QED
    BY <1>2, <1>a, <2>1 DEF SendTerminal
<1>3. ASSUME ReadInbox(s) PROVE TypeInv'
  <2>1. PICK expired \in SUBSET OpenFor(runMessages, {s}) :
           LET failed == SetState(runMessages, expired, "failed")
           IN  runMessages' = SetState(failed, OpenFor(failed, {s}), "delivered")
    BY <1>3 DEF ReadInbox, Inbox
  <2>2. SetState(runMessages, expired, "failed") \in SUBSET Message
    BY <1>0, SetStateType DEF TypeOK
  <2>3. runMessages' \subseteq Message
    BY <2>1, <2>2, SetStateType DEF OpenStates
  <2>4. QED
    BY <1>3, <2>3, MessagesOnlyType DEF ReadInbox
<1>4. ASSUME NEW m \in runMessages, ConsumeMessage(s, m) PROVE TypeInv'
  <2>1. runMessages' \subseteq Message
    BY <1>0, <1>4, SetStateType DEF TypeOK, ConsumeMessage, Consume
  <2>2. QED
    BY <1>4, <2>1, MessagesOnlyType DEF ConsumeMessage
<1>5. ASSUME NEW key \in Keys, UserInstruction(s, key) PROVE TypeInv'
  <2>1. Posted(User, s, "instruction", key) \in Message
    BY PostedType DEF MessageKinds
  <2>2. runMessages' \subseteq Message
    BY <1>0, <1>5, <2>1 DEF TypeOK, UserInstruction, CreateUserInstruction
  <2>3. QED
    BY <1>5, <2>2, MessagesOnlyType DEF UserInstruction
<1>6. QED
  BY <1>1, <1>2, <1>3, <1>4, <1>5, <1>a DEF MessageStep

(* A running run gets a record.                                            *)
LEMMA BackgroundRunType ==
    ASSUME TypeInv, NEW r \in Runs, BackgroundRun(r)
    PROVE  TypeInv'
<1>1. catchup' = [catchup EXCEPT ![r] = "collecting"] /\ status[r] = "running"
  BY DEF BackgroundRun, MayBackground, openRecord
<1>2. outputPolicy' \in [Runs -> {"space", "source"}] /\ catchupOrder' \in Seq(Runs)
  BY DEF TypeInv, TypeOK, BackgroundRun, openRecord
<1>3. /\ catchup' \in [Runs -> CatchupStates]
      /\ \A x \in Runs : catchup'[x] # "none" => status[x] # "unused"
  BY <1>1 DEF TypeInv, TypeOK, AccountKnown
<1>4. QED
  BY <1>2, <1>3 DEF TypeInv, TypeOK, AccountKnown, BackgroundRun, openRecord

(* A settled record resumes roots.                                         *)
LEMMA SettleAwaitingType ==
    ASSUME TypeInv, NEW c \in Runs, NEW outcome \in {"ready", "failed"}, SettleAwaiting(c, outcome)
    PROVE  TypeInv'
<1> DEFINE a == account[c]
<1>0. TypeOK /\ AccountKnown
  BY DEF TypeInv
<1>1. /\ catchup[c] = "awaiting_result"
      /\ catchup' = [catchup EXCEPT ![c] = outcome]
      /\ StartRoots(Resumed(c), FirstResumed(c), a, pressure[a], status, runMessages)
      /\ RequestCompaction(a, pressure[a] /\ Resumed(c) # {})
      /\ UNCHANGED <<account, lineage, outputPolicy, runSession, catchupOrder, pendingRoots,
                     reserved, consumedRuns, accountVars, generation, pressure,
                     contextGeneration, gateway>>
  BY DEF SettleAwaiting
<1>2. status[c] # "unused" /\ a \in Accounts
  BY <1>0, <1>1 DEF AccountKnown
<1>3. /\ pressure[a] \in BOOLEAN /\ status \in [Runs -> Statuses]
      /\ runMessages \in SUBSET Message
  BY <1>0, <1>2 DEF TypeOK
<1>4. /\ compaction' \in [Accounts -> {"idle", "queued", "running"}]
      /\ compactFrom' \in [Accounts -> Nat]
  BY <1>0, <1>1, <1>2, <1>3, RequestCompactionType
<1>5. /\ status' \in [Runs -> Statuses]
      /\ \A x \in Runs : status'[x] = "unused" <=> status[x] = "unused"
      /\ runMessages' \subseteq Message
      /\ prep' \in [Runs -> Preps]
      /\ capGen' \in [Runs -> Nat]
      /\ capSession' \in [Runs -> Nat]
      /\ capCatchup' \in [Runs -> Runs \cup {None}]
      /\ retried' \in [Runs -> BOOLEAN]
  BY <1>0, <1>1, <1>2, <1>3, StartRootsType
<1>6. /\ catchup' \in [Runs -> CatchupStates]
      /\ \A x \in Runs : catchup'[x] # "none" => status[x] # "unused"
  BY <1>0, <1>1, <1>2 DEF TypeOK, AccountKnown
<1>7. TypeOK'
  BY <1>0, <1>1, <1>4, <1>5, <1>6 DEF TypeOK
<1>8. AccountKnown'
  BY <1>0, <1>1, <1>5, <1>6 DEF AccountKnown
<1>9. QED
  BY <1>7, <1>8 DEF TypeInv

(* Recovery ends every active run and settles every record.                *)
LEMMA RestartType ==
    ASSUME TypeInv, Restart
    PROVE  TypeInv'
<1>1. runMessages' \subseteq Message
  BY SetStateType DEF TypeInv, TypeOK, Restart
<1>2. status' \in [Runs -> Statuses] /\ \A x \in Runs : status'[x] = "unused" <=> status[x] = "unused"
  BY DEF TypeInv, TypeOK, Restart, IsActive
<1>3. PICK quiet \in SUBSET {r \in Runs : catchup[r] = "collecting"} : recoverCatchups(quiet)
  BY DEF Restart
<1>4. /\ catchup' \in [Runs -> CatchupStates]
      /\ \A x \in Runs : catchup'[x] # "none" => catchup[x] # "none"
  BY <1>3 DEF recoverCatchups, TypeInv, TypeOK
<1>5. QED
  BY <1>1, <1>2, <1>4 DEF TypeInv, TypeOK, AccountKnown, Restart

-----------------------------------------------------------------------------
(* The invariant that makes the types inductive holds throughout.          *)
THEOREM TypeInductive == Spec => []TypeInv
<1>1. Init => TypeInv
  BY BoundsAssumption DEF Init, TypeInv, TypeOK, AccountKnown, BoundsAssumption, Message
<1>2. TypeInv /\ [Next]_vars => TypeInv'
  <2> SUFFICES ASSUME TypeInv, [Next]_vars PROVE TypeInv'
    OBVIOUS
  <2>1. CASE AccountStep
    BY <2>1, LoginType, RevokeType, CompactStartType, CompactSucceedsType, CompactFailsType,
       ScheduleRootType DEF AccountStep
  <2>2. ASSUME NEW r \in Runs, PrepareStep(r) PROVE TypeInv'
    BY <2>2, SessionReadyType, DispatchType, DispatchBusyType, DispatchFailsType,
       RetryRootType, RetryDroppedType, RetryChildFailsType, RetryChildBusyType,
       RetryChildRunsType DEF PrepareStep
  <2>3. ASSUME NEW r \in Runs, EndStep(r) PROVE TypeInv'
    BY <2>3, CompleteRunType, EndRunType, CancelRequestType DEF EndStep
  <2>4. ASSUME NEW r \in Runs, MessageStep(r) PROVE TypeInv'
    BY <2>4, MessageStepType
  <2>5. ASSUME NEW r \in Runs, BackgroundStep(r) PROVE TypeInv'
    BY <2>5, BackgroundRunType, SettleAwaitingType
       DEF BackgroundStep, CatchupResult, CatchupTimeout
  <2>6. ASSUME NEW r \in Runs, RotateBinding(r) PROVE TypeInv'
    BY <2>6, RotateBindingType
  <2>7. CASE CompactSpace \/ Restart
    BY <2>7, CompactSpaceType, RestartType
  <2>8. CASE UNCHANGED vars
    BY <2>8 DEF TypeInv, TypeOK, AccountKnown, vars
  <2>9. QED
    BY <2>1, <2>2, <2>3, <2>4, <2>5, <2>6, <2>7, <2>8 DEF Next
<1>3. QED
  BY <1>1, <1>2, PTL DEF Spec

(* Type correctness of RunExecution: whatever the interleaving, every row  *)
(* of the store and everything a suspended preparation captured stays of   *)
(* its type; in particular nothing ever captures the session of an account *)
(* that does not exist.                                                    *)
THEOREM TypeCorrect == Spec => []TypeOK
<1>1. TypeInv => TypeOK
  BY DEF TypeInv
<1>2. QED
  BY <1>1, TypeInductive, PTL

HIDE DEF Preps, CatchupStates
USE DEF IsActive

-----------------------------------------------------------------------------
(* Most steps only end runs *)

(* The step leaves sessions alone, and runs, unless it ends an active one. *)
OnlyEnds ==
    /\ UNCHANGED <<account, runSession, session>>
    /\ \A x \in Runs : \/ status'[x] = status[x]
                       \/ IsActive(x) /\ status'[x] \in Terminal

(* Status rows base in which only active runs have ended.                  *)
Ends(base) ==
    \A x \in Runs : \/ base[x] = status[x]
                    \/ IsActive(x) /\ base[x] \in Terminal

(* failPending only ends runs that are pending.                            *)
LEMMA OutcomeEnds ==
    ASSUME NEW ph, NEW base, Ends(base)
    PROVE  Ends(StatusAfter(ph, base))
BY DEF Ends, StatusAfter, FailedIn, IsActive

(* So does the first attempt of new or resumed roots.                      *)
LEMMA StartRootsEnds ==
    ASSUME NEW roots, NEW start, NEW a, NEW pressed, NEW base, NEW ms, Ends(base),
           StartRoots(roots, start, a, pressed, base, ms)
    PROVE  Ends(status')
BY OutcomeEnds DEF StartRoots

(* A subtree is ended by ending active runs.                               *)
LEMMA SubtreeEnds ==
    ASSUME NEW r \in Runs, NEW T \in SUBSET ActiveRuns, NEW final \in {"failed", "cancelled"},
           NEW news \in BOOLEAN, EndSubtree(r, T, final, news)
    PROVE  OnlyEnds
<1>1. PICK done \in SUBSET T :
        LET base == [x \in Runs |-> IF x \notin done THEN status[x]
                                    ELSE IF x = r THEN final ELSE "cancelled"]
            ms   == FailRecipient(runMessages \cup Notices(done, "blocked"), done)
        IN  /\ \/ Settle(r, final, news, pressure[account[r]], base, ms)
               \/ status' = base
            /\ UNCHANGED <<account, runSession, session>>
  BY DEF EndSubtree
<1> DEFINE base == [x \in Runs |-> IF x \notin done THEN status[x]
                                   ELSE IF x = r THEN final ELSE "cancelled"]
<1>2. Ends(base)
  BY DEF Ends, ActiveRuns, IsActive
<1>3. Ends(status')
  <2> HIDE DEF base
  <2>1. CASE status' = base
    BY <1>2, <2>1
  <2>2. CASE \E ms : Settle(r, final, news, pressure[account[r]], base, ms)
    BY <1>2, <2>2, StartRootsEnds DEF Settle
  <2>3. QED
    BY <1>1, <2>1, <2>2 DEF base
<1>4. QED
  BY <1>1, <1>3 DEF OnlyEnds, Ends

(* The end of a run, by its daemon or its user, only ends runs.            *)
LEMMA EndStepEnds ==
    ASSUME TypeInv, NEW r \in Runs, EndStep(r)
    PROVE  OnlyEnds
<1>1. ASSUME NEW usage \in {"none", "low", "high"}, NEW news \in BOOLEAN,
             CompleteRun(r, usage, news)
      PROVE  OnlyEnds
  <2> DEFINE base == [status EXCEPT ![r] = "completed"]
  <2>1. UNCHANGED <<account, runSession, session>> /\ status[r] = "running"
    BY <1>1 DEF CompleteRun, HasAuthority
  <2>2. \/ status' = status
        \/ \E pressed, ms : Settle(r, "completed", news, pressed, base, ms)
    BY <1>1 DEF CompleteRun
  <2>3. Ends(base) /\ Ends(status)
    BY <2>1 DEF Ends, TypeInv, TypeOK
  <2> HIDE DEF base
  <2>4. Ends(status')
    BY <2>2, <2>3, StartRootsEnds DEF Settle
  <2>5. QED
    BY <2>1, <2>4 DEF OnlyEnds, Ends
<1>2. ASSUME NEW final \in {"failed", "cancelled"}, NEW news \in BOOLEAN, EndRun(r, final, news)
      PROVE  OnlyEnds
  <2>1. {r} \cup ActiveDescendants(r) \in SUBSET ActiveRuns
    BY <1>2 DEF EndRun, HasAuthority, ActiveDescendants, ActiveRuns, IsActive
  <2>2. QED
    BY <1>2, <2>1, SubtreeEnds DEF EndRun
<1>3. ASSUME NEW news \in BOOLEAN, CancelRequest(r, news)
      PROVE  OnlyEnds
  <2>1. ({r} \cap ActiveRuns) \cup ActiveDescendants(r) \in SUBSET ActiveRuns
    BY DEF ActiveDescendants
  <2>2. QED
    BY <1>3, <2>1, SubtreeEnds DEF CancelRequest
<1>4. QED
  BY <1>1, <1>2, <1>3 DEF EndStep

(* Steps that only end runs.  The others are Login and Revoke, the         *)
(* insertion of a run, a run that takes the lease, and a restart.          *)
EndingStep ==
    \/ \E a \in Accounts : CompactStart(a) \/ CompactSucceeds(a) \/ CompactFails(a)
    \/ \E r \in Runs :
         \/ SessionReady(r) \/ DispatchBusy(r) \/ DispatchFails(r)
         \/ RetryRoot(r) \/ RetryDropped(r) \/ RetryChildFails(r) \/ RetryChildBusy(r)
         \/ EndStep(r) \/ BackgroundStep(r) \/ RotateBinding(r)
         \/ MessageStep(r) /\ UNCHANGED otherThanMessages
    \/ CompactSpace
    \/ UNCHANGED vars

(* Each of them leaves sessions and accounts alone and revives no run.     *)
LEMMA EndingStepEnds ==
    ASSUME TypeInv, EndingStep
    PROVE  OnlyEnds
<1>0. Ends(status)
  BY DEF Ends
<1>1. ASSUME NEW a \in Accounts, CompactStart(a) \/ CompactSucceeds(a)
      PROVE  OnlyEnds
  BY <1>1 DEF OnlyEnds, CompactStart, CompactSucceeds
<1>2. ASSUME NEW a \in Accounts, CompactFails(a)
      PROVE  OnlyEnds
  <2>1. \E ph : status' = StatusAfter(ph, status)
    BY <1>2 DEF CompactFails
  <2>2. Ends(status')
    BY <1>0, <2>1, OutcomeEnds
  <2>3. QED
    BY <1>2, <2>2 DEF OnlyEnds, Ends, CompactFails
<1>3. ASSUME NEW r \in Runs,
             SessionReady(r) \/ DispatchBusy(r) \/ RetryDropped(r) \/ RotateBinding(r)
      PROVE  OnlyEnds
  BY <1>3 DEF OnlyEnds, SessionReady, DispatchBusy, RetryDropped, RotateBinding
<1>4. ASSUME NEW r \in Runs, DispatchFails(r)
      PROVE  OnlyEnds
  <2>1. \E ph : status' = StatusAfter(ph, status)
    BY <1>4 DEF DispatchFails
  <2>2. Ends(status')
    BY <1>0, <2>1, OutcomeEnds
  <2>3. QED
    BY <1>4, <2>2 DEF OnlyEnds, Ends, DispatchFails
<1>5. ASSUME NEW r \in Runs, RetryRoot(r)
      PROVE  OnlyEnds
  <2>1. \E ph : status' = StatusAfter(ph, status)
    BY <1>5 DEF RetryRoot
  <2>2. Ends(status')
    BY <1>0, <2>1, OutcomeEnds
  <2>3. QED
    BY <1>5, <2>2 DEF OnlyEnds, Ends, RetryRoot
<1>6. ASSUME NEW r \in Runs, RetryChildFails(r)
      PROVE  OnlyEnds
  <2>1. status[r] = "pending"
    BY <1>6 DEF RetryChildFails
  <2>2. \/ status' = [status EXCEPT ![r] = "failed"]
        \/ status' = [status EXCEPT ![r] = "pending"]
    BY <1>6 DEF RetryChildFails, FailPendingChild
  <2>3. UNCHANGED <<account, runSession, session>>
    BY <1>6 DEF RetryChildFails
  <2>4. QED
    BY <2>1, <2>2, <2>3 DEF OnlyEnds, TypeInv, TypeOK
<1>7. ASSUME NEW r \in Runs, RetryChildBusy(r)
      PROVE  OnlyEnds
  BY <1>7 DEF OnlyEnds, RetryChildBusy, vars
<1>8. ASSUME NEW r \in Runs, BackgroundStep(r)
      PROVE  OnlyEnds
  <2>1. CASE BackgroundRun(r)
    BY <2>1 DEF OnlyEnds, BackgroundRun
  <2>2. ASSUME NEW outcome \in {"ready", "failed"}, SettleAwaiting(r, outcome)
        PROVE  OnlyEnds
    <3>1. Ends(status')
      BY <1>0, <2>2, StartRootsEnds DEF SettleAwaiting
    <3>2. QED
      BY <2>2, <3>1 DEF OnlyEnds, Ends, SettleAwaiting
  <2>3. QED
    BY <1>8, <2>1, <2>2 DEF BackgroundStep, CatchupResult, CatchupTimeout
<1>9. CASE CompactSpace
  BY <1>9 DEF OnlyEnds, CompactSpace
<1>10. CASE UNCHANGED otherThanMessages
  BY <1>10 DEF OnlyEnds, otherThanMessages
<1>11. CASE UNCHANGED vars
  BY <1>11 DEF OnlyEnds, vars
<1>12. QED
  BY <1>1, <1>2, <1>3, <1>4, <1>5, <1>6, <1>7, <1>8, <1>9, <1>10, <1>11, EndStepEnds
     DEF EndingStep

(* The steps of the specification.                                         *)
LEMMA StepCases ==
    ASSUME [Next]_vars
    PROVE  \/ EndingStep
           \/ \E a \in Accounts : Login(a) \/ Revoke(a)
           \/ \E a \in Accounts, r \in Runs : ScheduleRoot(r, a)
           \/ \E s, r \in Runs, a \in Accounts, key \in Keys : Delegate(s, r, a, key)
           \/ \E r \in Runs : Dispatch(r) \/ RetryChildRuns(r)
           \/ Restart
<1>1. ASSUME NEW r \in Runs, PrepareStep(r)
      PROVE  EndingStep \/ Dispatch(r) \/ RetryChildRuns(r)
  BY <1>1 DEF PrepareStep, EndingStep
<1>2. ASSUME NEW r \in Runs, MessageStep(r)
      PROVE  EndingStep \/ \E c \in Runs, a \in Accounts, key \in Keys : Delegate(r, c, a, key)
  BY <1>2 DEF MessageStep, EndingStep, SendMessage, SendTerminal, ReadInbox, ConsumeMessage, UserInstruction
<1>3. CASE AccountStep
  BY <1>3 DEF AccountStep, EndingStep
<1>4. ASSUME NEW r \in Runs, EndStep(r) \/ BackgroundStep(r) \/ RotateBinding(r)
      PROVE  EndingStep
  BY <1>4 DEF EndingStep
<1>5. CASE CompactSpace \/ Restart \/ UNCHANGED vars
  BY <1>5 DEF EndingStep
<1>6. QED
  BY <1>1, <1>2, <1>3, <1>4, <1>5 DEF Next

-----------------------------------------------------------------------------
(* What the other steps do to the status of runs *)

(* A root is inserted into an account that has a session.                  *)
LEMMA ScheduleRootFacts ==
    ASSUME TypeInv, NEW r \in Runs, NEW a \in Accounts, ScheduleRoot(r, a)
    PROVE  /\ status[r] = "unused" /\ status'[r] \in {"pending", "failed"}
           /\ account'[r] = a /\ runSession'[r] = session[a]
           /\ session[a] # 0 /\ UNCHANGED session
           /\ \A x \in Runs \ {r} : /\ status'[x] = status[x]
                                    /\ account'[x] = account[x]
                                    /\ runSession'[x] = runSession[x]
<1> DEFINE base == [status EXCEPT ![r] = "pending"]
<1>1. /\ status[r] = "unused" /\ session[a] # 0 /\ UNCHANGED session
      /\ account' = [account EXCEPT ![r] = a]
      /\ runSession' = [runSession EXCEPT ![r] = session[a]]
  BY DEF ScheduleRoot
<1>2. \/ status' = base
      \/ \E ph : /\ DOMAIN ph = {r} /\ status' = StatusAfter(ph, base)
  BY DEF ScheduleRoot, StartRoots, StartPhases
<1>3. /\ status'[r] \in {"pending", "failed"}
      /\ \A x \in Runs \ {r} : status'[x] = status[x]
  BY <1>2 DEF StatusAfter, FailedIn, TypeInv, TypeOK
<1>4. QED
  BY <1>1, <1>3 DEF TypeInv, TypeOK

(* So is a child, which runs at once only if nothing runs on the account.  *)
LEMMA DelegateFacts ==
    ASSUME TypeInv, NEW s \in Runs, NEW r \in Runs, NEW a \in Accounts, NEW key \in Keys,
           Delegate(s, r, a, key)
    PROVE  /\ status[r] = "unused"
           /\ \/ status'[r] \in {"pending", "failed"}
              \/ status'[r] = "running" /\ RunningOn(a) = {}
           /\ account'[r] = a /\ runSession'[r] = session[a]
           /\ session[a] # 0 /\ UNCHANGED session
           /\ \A x \in Runs \ {r} : /\ status'[x] = status[x]
                                    /\ account'[x] = account[x]
                                    /\ runSession'[x] = runSession[x]
<1>1. /\ status[r] = "unused" /\ session[a] # 0 /\ UNCHANGED session
      /\ account' = [account EXCEPT ![r] = a]
      /\ runSession' = [runSession EXCEPT ![r] = session[a]]
  BY DEF Delegate
<1>2. \/ status' = [status EXCEPT ![r] = "failed"]
      \/ status' = [status EXCEPT ![r] = "pending"]
      \/ status' = [status EXCEPT ![r] = "running"] /\ RunningOn(a) = {}
  BY DEF Delegate, FailPendingChild
<1>3. QED
  BY <1>1, <1>2 DEF TypeInv, TypeOK

(* An active run takes the lease of an account on which nothing else runs. *)
LEMMA ClaimFacts ==
    ASSUME TypeInv, NEW r \in Runs, Dispatch(r) \/ RetryChildRuns(r)
    PROVE  /\ IsActive(r) /\ ~AccountBusy(r)
           /\ status' = [status EXCEPT ![r] = "running"]
           /\ UNCHANGED <<account, runSession, session>>
BY DEF Dispatch, MayClaim, RetryChildRuns

(* No step rewrites how a run ended.                                       *)
LEMMA TerminalKept ==
    ASSUME TypeInv, [Next]_vars
    PROVE  \A r \in Runs : status[r] \in Terminal => status'[r] = status[r]
<1> DEFINE Stays == \A r \in Runs : status[r] \in Terminal => status'[r] = status[r]
<1>1. CASE EndingStep
  <2>1. OnlyEnds
    BY <1>1, EndingStepEnds
  <2>2. QED
    BY <2>1 DEF OnlyEnds
<1>2. ASSUME NEW a \in Accounts, Login(a) \/ Revoke(a) PROVE Stays
  BY <1>2 DEF Login, Revoke, releaseAccountExecutions
<1>3. ASSUME NEW a \in Accounts, NEW r \in Runs, ScheduleRoot(r, a) PROVE Stays
  BY <1>3, ScheduleRootFacts
<1>4. ASSUME NEW s \in Runs, NEW r \in Runs, NEW a \in Accounts, NEW key \in Keys,
             Delegate(s, r, a, key)
      PROVE  Stays
  BY <1>4, DelegateFacts
<1>5. ASSUME NEW r \in Runs, Dispatch(r) \/ RetryChildRuns(r) PROVE Stays
  <2>1. IsActive(r) /\ status' = [status EXCEPT ![r] = "running"]
    BY <1>5, ClaimFacts
  <2>2. QED
    BY <2>1 DEF TypeInv, TypeOK
<1>6. CASE Restart
  BY <1>6 DEF Restart
<1>7. QED
  BY <1>1, <1>2, <1>3, <1>4, <1>5, <1>6, StepCases

-----------------------------------------------------------------------------
(* Theorems *)

(* Only one run of an account executes: LeaseExclusive holds of every      *)
(* interleaving of preparations, retries, delegations, revocations and     *)
(* restarts (authorizeDaemonExecution checks the account at the claim, the *)
(* start of a child checks it where it sets the status).                   *)
THEOREM LeaseIsExclusive == Spec => []LeaseExclusive
<1>1. Init => LeaseExclusive
  BY DEF Init, LeaseExclusive
<1>2. TypeInv /\ LeaseExclusive /\ [Next]_vars => LeaseExclusive'
  <2> SUFFICES ASSUME TypeInv, LeaseExclusive, [Next]_vars
               PROVE  LeaseExclusive'
    OBVIOUS
  <2>1. CASE EndingStep
    <3>1. OnlyEnds
      BY <2>1, EndingStepEnds
    <3>2. QED
      BY <3>1 DEF OnlyEnds, LeaseExclusive
  <2>2. ASSUME NEW a \in Accounts, Login(a) \/ Revoke(a) PROVE LeaseExclusive'
    BY <2>2 DEF Login, Revoke, releaseAccountExecutions, LeaseExclusive
  <2>3. ASSUME NEW a \in Accounts, NEW r \in Runs, ScheduleRoot(r, a) PROVE LeaseExclusive'
    BY <2>3, ScheduleRootFacts DEF LeaseExclusive
  <2>4. ASSUME NEW s \in Runs, NEW r \in Runs, NEW a \in Accounts, NEW key \in Keys,
               Delegate(s, r, a, key)
        PROVE  LeaseExclusive'
    BY <2>4, DelegateFacts DEF LeaseExclusive, RunningOn
  <2>5. ASSUME NEW r \in Runs, Dispatch(r) \/ RetryChildRuns(r) PROVE LeaseExclusive'
    <3>1. /\ ~AccountBusy(r) /\ status' = [status EXCEPT ![r] = "running"]
          /\ UNCHANGED account
      BY <2>5, ClaimFacts
    <3>2. \A x \in Runs \ {r} : status[x] = "running" => account[x] # account[r]
      BY <3>1 DEF AccountBusy, RunningOn
    <3>3. QED
      BY <3>1, <3>2 DEF LeaseExclusive, TypeInv, TypeOK
  <2>6. CASE Restart
    BY <2>6 DEF Restart, LeaseExclusive
  <2>7. QED
    BY <2>1, <2>2, <2>3, <2>4, <2>5, <2>6, StepCases
<1>3. QED
  BY <1>1, <1>2, TypeInductive, PTL DEF Spec

(* An active run belongs to the session that its account has now: no login *)
(* inherits a run of an earlier session (ActiveSession).                   *)
THEOREM ActiveRunsHaveTheSession == Spec => []ActiveSession
<1>1. Init => ActiveSession
  BY DEF Init, ActiveSession
<1>2. TypeInv /\ ActiveSession /\ [Next]_vars => ActiveSession'
  <2> SUFFICES ASSUME TypeInv, ActiveSession, [Next]_vars
               PROVE  ActiveSession'
    OBVIOUS
  <2>1. CASE EndingStep
    <3>1. OnlyEnds
      BY <2>1, EndingStepEnds
    <3>2. QED
      BY <3>1 DEF OnlyEnds, ActiveSession
  <2>2. ASSUME NEW a \in Accounts, Login(a) PROVE ActiveSession'
    <3>1. /\ session[a] = 0 /\ UNCHANGED <<status, account, runSession>>
          /\ \A b \in Accounts \ {a} : session'[b] = session[b]
      BY <2>2 DEF Login, TypeInv, TypeOK
    <3>2. QED
      BY <3>1 DEF ActiveSession
  <2>3. ASSUME NEW a \in Accounts, Revoke(a) PROVE ActiveSession'
    <3>1. /\ UNCHANGED <<account, runSession>>
          /\ \A b \in Accounts \ {a} : session'[b] = session[b]
          /\ \A x \in Runs : IsActive(x)' => IsActive(x) /\ account[x] # a
      BY <2>3 DEF Revoke, releaseAccountExecutions, TypeInv, TypeOK
    <3>2. QED
      BY <3>1 DEF ActiveSession
  <2>4. ASSUME NEW a \in Accounts, NEW r \in Runs, ScheduleRoot(r, a) PROVE ActiveSession'
    BY <2>4, ScheduleRootFacts DEF ActiveSession
  <2>5. ASSUME NEW s \in Runs, NEW r \in Runs, NEW a \in Accounts, NEW key \in Keys,
               Delegate(s, r, a, key)
        PROVE  ActiveSession'
    BY <2>5, DelegateFacts DEF ActiveSession
  <2>6. ASSUME NEW r \in Runs, Dispatch(r) \/ RetryChildRuns(r) PROVE ActiveSession'
    <3>1. /\ IsActive(r) /\ status' = [status EXCEPT ![r] = "running"]
          /\ UNCHANGED <<account, runSession, session>>
      BY <2>6, ClaimFacts
    <3>2. QED
      BY <3>1 DEF ActiveSession, TypeInv, TypeOK
  <2>7. CASE Restart
    BY <2>7 DEF Restart, ActiveSession
  <2>8. QED
    BY <2>1, <2>2, <2>3, <2>4, <2>5, <2>6, <2>7, StepCases
<1>3. QED
  BY <1>1, <1>2, TypeInductive, PTL DEF Spec

(* A run that ended stays as it ended: no continuation of a preparation,   *)
(* no timer and no later end of another run rewrites it (TerminalStays).   *)
THEOREM TerminalIsFinal == Spec => TerminalStays
<1> DEFINE Stays == \A r \in Runs : status[r] \in Terminal => status'[r] = status[r]
<1>1. TypeInv /\ [Next]_vars => Stays
  BY TerminalKept
<1>2. TypeInv /\ [Next]_vars => [Stays]_vars
  BY <1>1
<1>3. QED
  BY <1>2, TypeInductive, PTL DEF Spec, TerminalStays
=============================================================================
