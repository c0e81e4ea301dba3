--------------------------- MODULE RunOverlayProofs ---------------------------
(***************************************************************************)
(* Proofs about suspended preparations and the background overlay: no      *)
(* pending run is forgotten, a preparation that awaits a compaction has    *)
(* one to wait for, and deferred roots are listed and served.              *)
(***************************************************************************)
EXTENDS RunExecutionProofs

USE DEF Statuses, Active, Terminal, IsActive, Preps,
        runVars, backgroundVars, accountVars, contextVars, prepVars

-----------------------------------------------------------------------------
(* Invariants that the properties rest on *)

(* A run that was not inserted has no preparation.                         *)
PreparedUsed == \A r \in Runs : prep[r] # "none" => status[r] # "unused"

(* A record lists runs of its own account.                                 *)
ListedOfAccount ==
    \A c \in Runs : \A x \in Elements(pendingRoots[c]) :
        /\ x \in Runs /\ account[x] = account[c]
        /\ status[x] # "unused" /\ status[c] # "unused"

(* Nobody has reserved or got the summary of a record that has none yet.   *)
UnsettledUnserved ==
    \A c \in Runs : catchup[c] \notin Settled =>
        reserved[c] = {} /\ consumedRuns[c] = {}

PrepInv == TypeInv /\ PreparedUsed /\ ListedOfAccount

-----------------------------------------------------------------------------
(* What the operators of the preparation do to one run *)

(* The members of an extended list.                                        *)
LEMMA ElementsAppend ==
    ASSUME NEW s \in Seq(Runs), NEW x \in Runs
    PROVE  Elements(Append(s, x)) = Elements(s) \cup {x}
<1>1. /\ DOMAIN s = 1 .. Len(s)
      /\ DOMAIN Append(s, x) = 1 .. (Len(s) + 1)
      /\ \A i \in 1 .. Len(s) : Append(s, x)[i] = s[i]
      /\ Append(s, x)[Len(s) + 1] = x
      /\ Len(s) \in Nat
  OBVIOUS
<1>2. QED
  BY <1>1 DEF Elements

(* The members of a list of runs are runs.                                 *)
LEMMA ElementsType ==
    ASSUME NEW s \in Seq(Runs)
    PROVE  Elements(s) \subseteq Runs
BY DEF Elements

(* The record that blocks an account is one of its unsettled records.      *)
LEMMA BlockingRecord ==
    ASSUME NEW a, blockingFor(a) # None
    PROVE  /\ blockingFor(a) \in Runs
           /\ account[blockingFor(a)] = a
           /\ catchup[blockingFor(a)] \in {"collecting", "awaiting_result"}
<1>1. ASSUME NEW S, FirstIn(catchupOrder, S) # None
      PROVE  FirstIn(catchupOrder, S) \in S
  BY <1>1 DEF FirstIn
<1>2. \E S \in {RecordsOf(a, {"collecting"}), RecordsOf(a, {"awaiting_result"})} :
          blockingFor(a) = FirstIn(catchupOrder, S)
  BY DEF blockingFor
<1>3. QED
  BY <1>1, <1>2 DEF RecordsOf

(* deferRoot adds the run to the record that blocks its account.           *)
LEMMA DeferredIsListed ==
    ASSUME TypeOK, NEW r \in Runs, NEW a, blockingFor(a) # None
    PROVE  \A c \in Runs : Elements(deferRoot(a, r)[c]) =
               Elements(pendingRoots[c]) \cup (IF c = blockingFor(a) THEN {r} ELSE {})
<1> DEFINE b == blockingFor(a)
<1>1. b \in Runs
  BY BlockingRecord
<1>2. deferRoot(a, r) = [pendingRoots EXCEPT ![b] = Append(pendingRoots[b], r)]
  BY DEF deferRoot
<1>3. pendingRoots[b] \in Seq(Runs)
  BY <1>1 DEF TypeOK
<1> HIDE DEF b
<1>4. Elements(Append(pendingRoots[b], r)) = Elements(pendingRoots[b]) \cup {r}
  BY <1>3, ElementsAppend
<1>5. \A c \in Runs : deferRoot(a, r)[c] =
          IF c = b THEN Append(pendingRoots[b], r) ELSE pendingRoots[c]
  BY <1>2 DEF TypeOK
<1>6. QED
  BY <1>4, <1>5 DEF b

(* The first attempt of roots leaves each of them failed, suspended, or    *)
(* awaiting a compaction that was not there before.                        *)
StartedAs(x, start, a, pressed, base) ==
    /\ capGen'[x] = generation[a]
    /\ \/ prep'[x] = "none" /\ status'[x] # "pending"
       \/ prep'[x] \in {"retry", "session"}
       \/ prep'[x] = "compact" /\ x = start /\ pressed /\ compaction[a] = "idle"
    /\ base[x] = "unused" <=> status'[x] = "unused"

(* What StartRoots does to each root that it starts, and to no other run.  *)
LEMMA StartRootsFacts ==
    ASSUME TypeOK, NEW roots \in SUBSET Runs, NEW start, NEW a \in Accounts,
           NEW pressed \in BOOLEAN, NEW base \in [Runs -> Statuses], NEW ms,
           StartRoots(roots, start, a, pressed, base, ms)
    PROVE  \A x \in Runs :
             /\ x \in roots => StartedAs(x, start, a, pressed, base)
             /\ x \notin roots => /\ prep'[x] = prep[x] /\ capGen'[x] = capGen[x]
                                  /\ status'[x] = base[x]
<1> DEFINE ph == StartPhases(roots, start, a, pressed)
<1>1. /\ status' = StatusAfter(ph, base)
      /\ prep' = PrepAfter(ph)
      /\ CaptureGeneration(ph, a)
  BY DEF StartRoots
<1>2. /\ DOMAIN ph = roots
      /\ \A x \in roots : ph[x] = StartPhase(a, pressed, x = start)
  BY DEF StartPhases
<1>3. \A x \in roots : \/ ph[x] \in {"failed", "retry", "session"}
                       \/ ph[x] = "compact" /\ x = start /\ pressed /\ compaction[a] = "idle"
  BY <1>2 DEF StartPhase, Admission
<1> HIDE DEF ph
<1>4. TAKE x \in Runs
<1>5. CASE x \in roots
  <2>1. capGen'[x] = generation[a]
    BY <1>1, <1>2, <1>5 DEF CaptureGeneration
  <2>2. prep'[x] = IF ph[x] = "failed" THEN "none" ELSE ph[x]
    BY <1>1, <1>2, <1>5 DEF PrepAfter
  <2>3. status'[x] = IF ph[x] = "failed" /\ base[x] = "pending" THEN "failed" ELSE base[x]
    BY <1>1, <1>2, <1>5 DEF StatusAfter, FailedIn
  <2>4. QED
    BY <1>3, <1>5, <2>1, <2>2, <2>3 DEF StartedAs
<1>6. CASE x \notin roots
  BY <1>1, <1>2, <1>6 DEF CaptureGeneration, PrepAfter, StatusAfter, FailedIn
<1>7. QED
  BY <1>5, <1>6

-----------------------------------------------------------------------------
(* How runs end *)

(* Status rows base in which r, an active run, has ended, and with it only *)
(* child runs.                                                             *)
EndedRows(r, base) ==
    /\ base \in [Runs -> Statuses] /\ Ends(base)
    /\ \A x \in Runs : base[x] # status[x] => x = r \/ IsChild(x)

(* An end that does not reach r, or that finds no room for its message.    *)
EndsAround(r) ==
    /\ EndedRows(r, status') /\ status'[r] = status[r]
    /\ UNCHANGED <<catchup, prepVars, compaction, compactFrom>>

(* The end of r: its record settles and deferred roots resume.             *)
EndsWithRecord(r) ==
    \E final \in Terminal, news, pressed, wanted \in BOOLEAN,
       base \in [Runs -> Statuses], ms \in SUBSET Message :
        /\ Settle(r, final, news, pressed, base, ms)
        /\ EndedRows(r, base) /\ base[r] \in Terminal
        /\ RequestCompaction(account[r], wanted)
        /\ pressed /\ ResumedByFinish(r, final, news) # {} => wanted

EndFrame == UNCHANGED <<account, lineage, outputPolicy, runSession, catchupOrder, pendingRoots,
                        reserved, consumedRuns, accountVars, generation, contextGeneration,
                        gateway>>

(* A subtree ends in one of the two ways.                                  *)
LEMMA SubtreeCases ==
    ASSUME TypeInv, NEW r \in Runs, NEW T \in SUBSET ActiveRuns,
           \A x \in T : x = r \/ IsChild(x),
           NEW final \in {"failed", "cancelled"}, NEW news \in BOOLEAN,
           EndSubtree(r, T, final, news)
    PROVE  EndFrame /\ (EndsAround(r) \/ EndsWithRecord(r))
<1>1. PICK done \in SUBSET T :
        LET a    == account[r]
            base == [x \in Runs |-> IF x \notin done THEN status[x]
                                     ELSE IF x = r THEN final ELSE "cancelled"]
            ms   == FailRecipient(runMessages \cup Notices(done, "blocked"), done)
        IN  /\ IF r \in done
               THEN /\ Settle(r, final, news, pressure[a], base, ms)
                    /\ RequestCompaction(a, pressure[a] /\ ResumedByFinish(r, final, news) # {})
               ELSE /\ status' = base
                    /\ runMessages' = ms
                    /\ UNCHANGED <<catchup, prepVars, compaction, compactFrom>>
            /\ UNCHANGED <<account, lineage, outputPolicy, runSession, catchupOrder,
                           pendingRoots, reserved, consumedRuns, accountVars, generation,
                           pressure, contextGeneration, gateway>>
  BY DEF EndSubtree
<1> DEFINE base == [x \in Runs |-> IF x \notin done THEN status[x]
                                    ELSE IF x = r THEN final ELSE "cancelled"]
           ms == FailRecipient(runMessages \cup Notices(done, "blocked"), done)
<1>2. EndFrame
  BY <1>1 DEF EndFrame
<1>3. done \in SUBSET Runs /\ \A x \in done : IsActive(x) /\ (x = r \/ IsChild(x))
  BY DEF ActiveRuns
<1>4. EndedRows(r, base)
  BY <1>3 DEF EndedRows, Ends, TypeInv, TypeOK
<1>5. ms \in SUBSET Message
  <2>1. Notices(done, "blocked") \subseteq Message
    BY <1>3, NoticesType DEF TypeInv, MessageKinds
  <2>2. runMessages \cup Notices(done, "blocked") \in SUBSET Message
    BY <2>1 DEF TypeInv, TypeOK
  <2>3. QED
    BY <2>2, FailRecipientType
<1>6. CASE r \in done
  <2>1. /\ Settle(r, final, news, pressure[account[r]], base, ms)
        /\ RequestCompaction(account[r],
                pressure[account[r]] /\ ResumedByFinish(r, final, news) # {})
    BY <1>1, <1>6
  <2>2. base[r] \in Terminal /\ base \in [Runs -> Statuses]
    BY <1>4, <1>6 DEF EndedRows
  <2>3. pressure[account[r]] \in BOOLEAN
    BY <1>3, <1>6 DEF TypeInv, TypeOK, AccountKnown
  <2> DEFINE wanted == pressure[account[r]] /\ ResumedByFinish(r, final, news) # {}
  <2>4. /\ final \in Terminal /\ wanted \in BOOLEAN
        /\ pressure[account[r]] /\ ResumedByFinish(r, final, news) # {} => wanted
    OBVIOUS
  <2>6. RequestCompaction(account[r], wanted)
    BY <2>1
  <2> HIDE DEF base, ms, wanted
  <2>7. EndsWithRecord(r)
    <3>1. pressure[account[r]] \in BOOLEAN /\ wanted \in BOOLEAN /\ final \in Terminal
      BY <2>3, <2>4
    <3>2. EndedRows(r, base)
      BY <1>4
    <3> SUFFICES \E f \in Terminal, n, pressed, w \in BOOLEAN,
                    b \in [Runs -> Statuses], m \in SUBSET Message :
                     /\ Settle(r, f, n, pressed, b, m)
                     /\ EndedRows(r, b) /\ b[r] \in Terminal
                     /\ RequestCompaction(account[r], w)
                     /\ pressed /\ ResumedByFinish(r, f, n) # {} => w
      BY DEF EndsWithRecord
    <3> USE <1>5, <2>2, <3>1
    <3> WITNESS final \in Terminal, news \in BOOLEAN, pressure[account[r]] \in BOOLEAN,
                wanted \in BOOLEAN, base \in [Runs -> Statuses], ms \in SUBSET Message
    <3>3. QED
      BY <2>1, <2>2, <2>4, <2>6, <3>2
  <2>8. QED
    BY <1>2, <2>7
<1>7. CASE r \notin done
  <2>1. status' = base /\ UNCHANGED <<catchup, prepVars, compaction, compactFrom>>
    BY <1>1, <1>7
  <2>2. base[r] = status[r]
    BY <1>7
  <2>3. QED
    BY <1>2, <1>4, <2>1, <2>2 DEF EndsAround
<1>8. QED
  BY <1>6, <1>7

(* So does every step that ends a run.                                     *)
LEMMA EndCases ==
    ASSUME TypeInv, NEW r \in Runs, EndStep(r)
    PROVE  EndFrame /\ (EndsAround(r) \/ EndsWithRecord(r))
<1>1. ASSUME NEW usage \in {"none", "low", "high"}, NEW news \in BOOLEAN,
             CompleteRun(r, usage, news)
      PROVE  EndFrame /\ (EndsAround(r) \/ EndsWithRecord(r))
  <2> DEFINE a == account[r]
             pressed == IF usage = "none" THEN pressure[a] ELSE usage = "high"
             base == [status EXCEPT ![r] = "completed"]
             ms == FailRecipient(runMessages \cup Notices({r}, "result"), {r})
             wanted == usage = "high" \/
                       (pressed /\ ResumedByFinish(r, "completed", news) # {})
  <2>1. /\ status[r] = "running"
        /\ \/ /\ Settle(r, "completed", news, pressed, base, ms)
              /\ RequestCompaction(a, wanted)
           \/ UNCHANGED <<status, runMessages, catchup, prepVars, compaction, compactFrom>>
        /\ EndFrame
    BY <1>1 DEF CompleteRun, HasAuthority, EndFrame
  <2>2. a \in Accounts /\ pressed \in BOOLEAN /\ wanted \in BOOLEAN
    BY <2>1 DEF TypeInv, TypeOK, AccountKnown
  <2>3. EndedRows(r, base) /\ base[r] = "completed" /\ base \in [Runs -> Statuses]
    BY <2>1 DEF EndedRows, Ends, TypeInv, TypeOK
  <2>4. ms \in SUBSET Message
    <3>1. Notices({r}, "result") \subseteq Message
      BY NoticesType DEF TypeInv, MessageKinds
    <3>2. runMessages \cup Notices({r}, "result") \in SUBSET Message
      BY <3>1 DEF TypeInv, TypeOK
    <3>3. QED
      BY <3>2, FailRecipientType
  <2>5. pressed /\ ResumedByFinish(r, "completed", news) # {} => wanted
    OBVIOUS
  <2>6. CASE Settle(r, "completed", news, pressed, base, ms) /\ RequestCompaction(a, wanted)
    <3> HIDE DEF pressed, base, ms, wanted
    <3>1. EndsWithRecord(r)
      BY <2>2, <2>3, <2>4, <2>5, <2>6 DEF EndsWithRecord
    <3>2. QED
      BY <2>1, <3>1
  <2>7. CASE UNCHANGED <<status, runMessages, catchup, prepVars, compaction, compactFrom>>
    BY <2>1, <2>7 DEF EndsAround, EndedRows, Ends, TypeInv, TypeOK
  <2>8. QED
    BY <2>1, <2>6, <2>7
<1>2. ASSUME NEW T \in SUBSET ActiveRuns, NEW final \in {"failed", "cancelled"},
             NEW news \in BOOLEAN, T \subseteq {r} \cup ActiveDescendants(r),
             EndSubtree(r, T, final, news)
      PROVE  EndFrame /\ (EndsAround(r) \/ EndsWithRecord(r))
  <2>1. \A x \in T : x = r \/ IsChild(x)
    BY <1>2 DEF ActiveDescendants, IsAncestor, Ancestors, IsChild, TypeInv, TypeOK, ActiveRuns
  <2>2. QED
    BY <1>2, <2>1, SubtreeCases
<1>3. ASSUME NEW final \in {"failed", "cancelled"}, NEW news \in BOOLEAN, EndRun(r, final, news)
      PROVE  EndFrame /\ (EndsAround(r) \/ EndsWithRecord(r))
  <2>1. {r} \cup ActiveDescendants(r) \in SUBSET ActiveRuns
    BY <1>3 DEF EndRun, HasAuthority, ActiveDescendants, ActiveRuns
  <2>2. QED
    BY <1>2, <1>3, <2>1 DEF EndRun
<1>4. ASSUME NEW news \in BOOLEAN, CancelRequest(r, news)
      PROVE  EndFrame /\ (EndsAround(r) \/ EndsWithRecord(r))
  <2>1. ({r} \cap ActiveRuns) \cup ActiveDescendants(r) \in SUBSET ActiveRuns
    BY DEF ActiveDescendants
  <2>2. QED
    BY <1>2, <1>4, <2>1 DEF CancelRequest
<1>5. QED
  BY <1>1, <1>3, <1>4 DEF EndStep

-----------------------------------------------------------------------------
(* Rows that were inserted keep their account                              *)

UsedStay ==
    \A x \in Runs : status[x] # "unused" => status'[x] # "unused" /\ account'[x] = account[x]

(* No step frees the id of a run that was inserted.                        *)
LEMMA RowsStay ==
    ASSUME TypeInv, [Next]_vars
    PROVE  UsedStay
<1>1. CASE EndingStep
  <2>1. OnlyEnds
    BY <1>1, EndingStepEnds
  <2>2. QED
    BY <2>1 DEF OnlyEnds, UsedStay
<1>2. ASSUME NEW a \in Accounts, Login(a) \/ Revoke(a) PROVE UsedStay
  BY <1>2 DEF Login, Revoke, releaseAccountExecutions, UsedStay
<1>3. ASSUME NEW a \in Accounts, NEW r \in Runs, ScheduleRoot(r, a) PROVE UsedStay
  BY <1>3, ScheduleRootFacts DEF UsedStay
<1>4. ASSUME NEW s \in Runs, NEW r \in Runs, NEW a \in Accounts, NEW key \in Keys,
             Delegate(s, r, a, key)
      PROVE  UsedStay
  BY <1>4, DelegateFacts DEF UsedStay
<1>5. ASSUME NEW r \in Runs, Dispatch(r) \/ RetryChildRuns(r) PROVE UsedStay
  <2>1. status' = [status EXCEPT ![r] = "running"] /\ UNCHANGED account
    BY <1>5, ClaimFacts
  <2>2. QED
    BY <2>1 DEF UsedStay, TypeInv, TypeOK
<1>6. CASE Restart
  BY <1>6 DEF Restart, UsedStay
<1>7. QED
  BY <1>1, <1>2, <1>3, <1>4, <1>5, <1>6, StepCases

(* Only the insertion of a root changes a list of deferred roots.          *)
LEMMA ListsStay ==
    ASSUME TypeInv, [Next]_vars
    PROVE  \/ UNCHANGED pendingRoots
           \/ \E a \in Accounts, r \in Runs : ScheduleRoot(r, a)
<1>1. CASE AccountStep
  BY <1>1 DEF AccountStep, Login, Revoke, CompactStart, CompactSucceeds, CompactFails
<1>2. ASSUME NEW r \in Runs, PrepareStep(r) PROVE UNCHANGED pendingRoots
  BY <1>2 DEF PrepareStep, SessionReady, Dispatch, DispatchBusy, DispatchFails, RetryRoot,
     RetryDropped, RetryChildFails, RetryChildBusy, RetryChildRuns, vars
<1>3. ASSUME NEW r \in Runs, EndStep(r) PROVE UNCHANGED pendingRoots
  BY <1>3, EndCases DEF EndFrame
<1>4. ASSUME NEW r \in Runs, MessageStep(r) PROVE UNCHANGED pendingRoots
  BY <1>4 DEF MessageStep, Delegate, SendMessage, SendTerminal, ReadInbox, ConsumeMessage,
     UserInstruction, otherThanMessages
<1>5. ASSUME NEW r \in Runs, BackgroundStep(r) PROVE UNCHANGED pendingRoots
  BY <1>5 DEF BackgroundStep, BackgroundRun, openRecord, CatchupResult, CatchupTimeout,
     SettleAwaiting
<1>6. ASSUME NEW r \in Runs, RotateBinding(r) PROVE UNCHANGED pendingRoots
  BY <1>6 DEF RotateBinding
<1>7. CASE CompactSpace \/ Restart \/ UNCHANGED vars
  BY <1>7 DEF CompactSpace, Restart, vars
<1>8. QED
  BY <1>1, <1>2, <1>3, <1>4, <1>5, <1>6, <1>7 DEF Next

(* A record only ever lists inserted runs of its own account.              *)
LEMMA ListedStay ==
    ASSUME TypeInv, ListedOfAccount, [Next]_vars
    PROVE  ListedOfAccount'
<1>1. UsedStay
  BY RowsStay
<1>2. CASE UNCHANGED pendingRoots
  BY <1>1, <1>2 DEF ListedOfAccount, UsedStay
<1>3. ASSUME NEW a \in Accounts, NEW r \in Runs, ScheduleRoot(r, a), ~UNCHANGED pendingRoots
      PROVE  ListedOfAccount'
  <2> DEFINE b == blockingFor(a)
  <2>1. b # None /\ pendingRoots' = deferRoot(a, r)
    BY <1>3 DEF ScheduleRoot
  <2>2. b \in Runs /\ account[b] = a /\ catchup[b] # "none"
    BY <2>1, BlockingRecord
  <2>3. status[b] # "unused"
    BY <2>2 DEF TypeInv, AccountKnown
  <2>4. status'[r] # "unused" /\ account'[r] = a
    BY <1>3, ScheduleRootFacts
  <2>5. \A c \in Runs : Elements(pendingRoots'[c]) \subseteq
            Elements(pendingRoots[c]) \cup (IF c = b THEN {r} ELSE {})
    BY <2>1, DeferredIsListed DEF TypeInv
  <2> HIDE DEF b
  <2>6. QED
    BY <1>1, <2>2, <2>3, <2>4, <2>5 DEF ListedOfAccount, UsedStay
<1>4. QED
  BY <1>2, <1>3, ListsStay

-----------------------------------------------------------------------------
(* No pending run is forgotten *)

(* The roots that a settled record resumes are listed by it.               *)
LEMMA ResumedType ==
    ASSUME TypeOK, NEW c \in Runs
    PROVE  /\ Resumed(c) \in SUBSET Runs
           /\ Resumed(c) \subseteq Elements(pendingRoots[c])
           /\ \A final, news : ResumedByFinish(c, final, news) \subseteq Resumed(c)
<1>1. Elements(pendingRoots[c]) \subseteq Runs
  BY ElementsType DEF TypeOK
<1>2. QED
  BY <1>1 DEF Resumed, ResumedByFinish

(* A pending run is still held after roots have been started.              *)
Held == \A x \in Runs : status'[x] = "pending" => prep'[x] # "none"

(* Roots that are started leave no pending run without a preparation.      *)
LEMMA StartKeepsHeld ==
    ASSUME TypeOK, NEW roots \in SUBSET Runs, NEW start, NEW a \in Accounts,
           NEW pressed \in BOOLEAN, NEW base \in [Runs -> Statuses], NEW ms,
           \A x \in Runs \ roots : base[x] = "pending" => prep[x] # "none",
           StartRoots(roots, start, a, pressed, base, ms)
    PROVE  Held
BY StartRootsFacts DEF StartedAs, Held

(* The phases of an outcome keep or end what they hold.                    *)
LEMMA OutcomeKeepsHeld ==
    ASSUME TypeOK, NEW ph, \A x \in Runs : status[x] = "pending" => prep[x] # "none",
           status' = StatusAfter(ph, status), prep' = PrepAfter(ph),
           \A x \in DOMAIN ph : ph[x] # "none"
    PROVE  Held
BY DEF StatusAfter, FailedIn, PrepAfter, Held, TypeOK

(* A run that waits for its start, its turn or its session is not lost: no *)
(* failure, retry, revocation, compaction or restart leaves a pending run  *)
(* that nothing will go on with, unless the gateway ended (NoAbandonedRun).*)
THEOREM PendingIsHeld == Spec => []NoAbandonedRun
<1>1. Init => NoAbandonedRun
  BY DEF Init, NoAbandonedRun
<1>2. TypeInv /\ NoAbandonedRun /\ [Next]_vars => NoAbandonedRun'
  <2> SUFFICES ASSUME TypeInv, NoAbandonedRun, [Next]_vars
               PROVE  NoAbandonedRun'
    OBVIOUS
  <2>0. TypeOK
    BY DEF TypeInv
  <2>1. ASSUME Held PROVE NoAbandonedRun'
    BY <2>1 DEF Held, NoAbandonedRun
  <2>a. Up => \A x \in Runs : status[x] = "pending" => prep[x] # "none"
    BY DEF NoAbandonedRun
  <2>2. ASSUME NEW a \in Accounts, Login(a) \/ Revoke(a) \/ CompactStart(a)
        PROVE  NoAbandonedRun'
    BY <2>2, <2>a DEF Login, Revoke, CompactStart, releaseAccountExecutions, NoAbandonedRun
  <2>3. ASSUME NEW a \in Accounts, CompactSucceeds(a) PROVE NoAbandonedRun'
    BY <2>3, <2>a, <2>0 DEF CompactSucceeds, PrepAfter, NoAbandonedRun, TypeOK
  <2>4. ASSUME NEW a \in Accounts, CompactFails(a) PROVE NoAbandonedRun'
    <3> DEFINE ph == [r \in Compacting(a) |-> "failed"]
    <3>1. status' = StatusAfter(ph, status) /\ prep' = PrepAfter(ph) /\ Up
      BY <2>4 DEF CompactFails
    <3>2. QED
      BY <2>0, <2>1, <2>a, <3>1, OutcomeKeepsHeld
  <2>5. ASSUME NEW a \in Accounts, NEW r \in Runs, ScheduleRoot(r, a) PROVE NoAbandonedRun'
    <3> DEFINE base == [status EXCEPT ![r] = "pending"]
    <3>1. base \in [Runs -> Statuses] /\ pressure[a] \in BOOLEAN /\ Up
      BY <2>0, <2>5 DEF TypeOK, ScheduleRoot
    <3>2. \A x \in Runs \ {r} : base[x] = "pending" => prep[x] # "none"
      BY <2>0, <2>a, <3>1 DEF TypeOK
    <3>3. CASE blockingFor(a) # None
      <4>1. status' = base /\ prep' = [prep EXCEPT ![r] = "deferred"]
        BY <2>5, <3>3 DEF ScheduleRoot
      <4>2. QED
        BY <2>0, <2>1, <3>2, <4>1 DEF TypeOK, Held
    <3>4. CASE blockingFor(a) = None
      <4>1. StartRoots({r}, r, a, pressure[a], base, runMessages)
        BY <2>5, <3>4 DEF ScheduleRoot
      <4> HIDE DEF base
      <4>2. Held
        BY <2>0, <3>1, <3>2, <4>1, StartKeepsHeld
      <4>3. QED
        BY <2>1, <4>2
    <3>5. QED
      BY <3>3, <3>4
  <2>6. ASSUME NEW r \in Runs,
               SessionReady(r) \/ Dispatch(r) \/ DispatchBusy(r) \/ RetryDropped(r)
        PROVE  NoAbandonedRun'
    BY <2>0, <2>6, <2>a
       DEF SessionReady, Dispatch, DispatchBusy, RetryDropped, NoAbandonedRun, TypeOK
  <2>7. ASSUME NEW r \in Runs, DispatchFails(r) PROVE NoAbandonedRun'
    BY <2>0, <2>7, <2>a DEF DispatchFails, StatusAfter, FailedIn, NoAbandonedRun, TypeOK
  <2>8. ASSUME NEW r \in Runs, RetryRoot(r) PROVE NoAbandonedRun'
    <3> DEFINE ph == [x \in {r} |-> IF capGen[r] # generation[account[r]] THEN "failed"
                                     ELSE StartPhase(account[r], pressure[account[r]], TRUE)]
    <3>1. status' = StatusAfter(ph, status) /\ prep' = PrepAfter(ph) /\ Up
      BY <2>8 DEF RetryRoot
    <3>2. \A x \in DOMAIN ph : ph[x] # "none"
      BY PhaseType
    <3> HIDE DEF ph
    <3>3. QED
      BY <2>0, <2>1, <2>a, <3>1, <3>2, OutcomeKeepsHeld
  <2>9. ASSUME NEW r \in Runs, RetryChildFails(r) PROVE NoAbandonedRun'
    BY <2>0, <2>9, <2>a DEF RetryChildFails, FailPendingChild, NoAbandonedRun, TypeOK, Up
  <2>10. ASSUME NEW r \in Runs, RetryChildBusy(r) \/ RetryChildRuns(r) PROVE NoAbandonedRun'
    BY <2>0, <2>10, <2>a DEF RetryChildBusy, RetryChildRuns, NoAbandonedRun, TypeOK, vars
  <2>11. ASSUME NEW s \in Runs, NEW r \in Runs, NEW a \in Accounts, NEW key \in Keys,
                Delegate(s, r, a, key)
         PROVE  NoAbandonedRun'
    BY <2>0, <2>11, <2>a DEF Delegate, FailPendingChild, NoAbandonedRun, TypeOK, Up
  <2>12. ASSUME NEW r \in Runs, EndStep(r) PROVE NoAbandonedRun'
    <3>1. EndFrame /\ Up
      BY <2>12, EndCases DEF EndStep, CompleteRun, EndRun, CancelRequest
    <3>2. CASE EndsAround(r)
      BY <2>1, <2>a, <3>1, <3>2 DEF EndsAround, EndedRows, Ends, Held
    <3>3. CASE EndsWithRecord(r)
      <4>1. PICK final \in Terminal, news \in BOOLEAN, pressed \in BOOLEAN,
                 base \in [Runs -> Statuses], ms \in SUBSET Message :
               Settle(r, final, news, pressed, base, ms) /\ EndedRows(r, base)
                 /\ base[r] \in Terminal
        BY <3>3 DEF EndsWithRecord
      <4>2. account[r] \in Accounts
        BY <4>1 DEF EndedRows, Ends, TypeInv, AccountKnown, TypeOK
      <4>3. \A x \in Runs : base[x] = "pending" => prep[x] # "none"
        BY <2>a, <3>1, <4>1 DEF EndedRows, Ends
      <4>4. Held
        BY <2>0, <4>1, <4>2, <4>3, StartKeepsHeld, ResumedType DEF Settle
      <4>5. QED
        BY <2>1, <4>4
    <3>4. QED
      BY <2>12, <3>2, <3>3, EndCases
  <2>13. ASSUME NEW r \in Runs, BackgroundRun(r) \/ RotateBinding(r) PROVE NoAbandonedRun'
    BY <2>13, <2>a DEF BackgroundRun, RotateBinding, NoAbandonedRun
  <2>14. ASSUME NEW c \in Runs, NEW outcome \in {"ready", "failed"}, SettleAwaiting(c, outcome)
         PROVE  NoAbandonedRun'
    <3>1. /\ StartRoots(Resumed(c), FirstResumed(c), account[c], pressure[account[c]],
                        status, runMessages)
          /\ Up /\ catchup[c] = "awaiting_result"
      BY <2>14 DEF SettleAwaiting
    <3>2. account[c] \in Accounts
      BY <3>1 DEF TypeInv, AccountKnown
    <3>3. pressure[account[c]] \in BOOLEAN /\ status \in [Runs -> Statuses]
      BY <2>0, <3>2 DEF TypeOK
    <3>4. Held
      BY <2>0, <2>a, <3>1, <3>2, <3>3, StartKeepsHeld, ResumedType
    <3>5. QED
      BY <2>1, <3>4
  <2>15. CASE CompactSpace \/ Restart \/ UNCHANGED vars \/ UNCHANGED otherThanMessages
    BY <2>15 DEF CompactSpace, Restart, NoAbandonedRun, vars, otherThanMessages, Up
  <2>16. ASSUME NEW r \in Runs, MessageStep(r) PROVE NoAbandonedRun'
    BY <2>11, <2>15, <2>16
       DEF MessageStep, SendMessage, SendTerminal, ReadInbox, ConsumeMessage, UserInstruction
  <2>17. ASSUME NEW r \in Runs, BackgroundStep(r) PROVE NoAbandonedRun'
    BY <2>13, <2>14, <2>17 DEF BackgroundStep, CatchupResult, CatchupTimeout
  <2>18. QED
    BY <2>2, <2>3, <2>4, <2>5, <2>6, <2>7, <2>8, <2>9, <2>10, <2>12, <2>13, <2>15, <2>16,
       <2>17 DEF Next, AccountStep, PrepareStep
<1>3. QED
  BY <1>1, <1>2, TypeInductive, PTL DEF Spec

-----------------------------------------------------------------------------
(* Preparations that await a compaction *)

(* createContextCompactionJob leaves a compaction under way alone.         *)
LEMMA RequestFacts ==
    ASSUME TypeOK, NEW a \in Accounts, NEW wanted \in BOOLEAN,
           RequestCompaction(a, wanted)
    PROVE  /\ \A b \in Accounts : compaction[b] # "idle" \/ b # a =>
                  compaction'[b] = compaction[b] /\ compactFrom'[b] = compactFrom[b]
           /\ wanted => compaction'[a] # "idle"
           /\ wanted /\ compaction[a] = "idle" => compactFrom'[a] = generation[a]
BY DEF RequestCompaction, TypeOK

(* The step suspends no preparation anew, captures no generation for one   *)
(* that awaits a compaction, and no compaction that one awaits ends.       *)
CompactionUndisturbed ==
    \A x \in Runs : prep'[x] # "none" =>
        \/ prep[x] = "none" /\ status'[x] # "unused" /\ prep'[x] # "compact"
        \/ prep[x] # "none" /\ prep'[x] # "compact"
        \/ /\ prep[x] = "compact" /\ capGen'[x] = capGen[x]
           /\ compaction'[account[x]] # "idle"
           /\ compactFrom'[account[x]] = compactFrom[account[x]]

CompactInv == PreparedUsed /\ ListedOfAccount /\ CompactionAwaited

(* Such a step keeps what suspended preparations and compactions share.    *)
LEMMA UndisturbedKeeps ==
    ASSUME TypeInv, CompactInv, UsedStay, CompactionUndisturbed
    PROVE  PreparedUsed' /\ CompactionAwaited'
<1>1. PreparedUsed'
  BY DEF CompactInv, PreparedUsed, CompactionUndisturbed, UsedStay
<1>2. \A x \in Runs : prep'[x] = "compact" =>
          /\ prep[x] = "compact" /\ account'[x] = account[x] /\ capGen'[x] = capGen[x]
          /\ compaction'[account[x]] # "idle"
          /\ compactFrom'[account[x]] = compactFrom[account[x]]
  BY DEF CompactInv, PreparedUsed, CompactionUndisturbed, UsedStay
<1>3. CompactionAwaited'
  BY <1>2 DEF CompactInv, CompactionAwaited
<1>4. QED
  BY <1>1, <1>3

(* Roots of one account start together: the first may create a compaction  *)
(* if there is none, and is then the only one that awaits it.              *)
LEMMA StartKeepsCompaction ==
    ASSUME TypeInv, CompactInv, UsedStay,
           NEW roots \in SUBSET Runs, NEW start, NEW a \in Accounts,
           NEW pressed \in BOOLEAN, NEW wanted \in BOOLEAN,
           NEW base \in [Runs -> Statuses], NEW ms,
           \A x \in roots : account'[x] = a /\ base[x] # "unused",
           StartRoots(roots, start, a, pressed, base, ms),
           RequestCompaction(a, wanted), pressed /\ roots # {} => wanted
    PROVE  PreparedUsed' /\ CompactionAwaited'
<1>0. TypeOK
  BY DEF TypeInv
<1>1. \A x \in Runs :
         /\ x \in roots => StartedAs(x, start, a, pressed, base)
         /\ x \notin roots => prep'[x] = prep[x] /\ capGen'[x] = capGen[x]
  BY <1>0, StartRootsFacts
<1>2. PreparedUsed'
  BY <1>1 DEF CompactInv, PreparedUsed, UsedStay, StartedAs
<1>3. /\ \A b \in Accounts : compaction[b] # "idle" \/ b # a =>
             compaction'[b] = compaction[b] /\ compactFrom'[b] = compactFrom[b]
      /\ wanted => compaction'[a] # "idle"
      /\ wanted /\ compaction[a] = "idle" => compactFrom'[a] = generation[a]
  BY <1>0, RequestFacts
<1>4. \A x \in Runs : prep'[x] = "compact" =>
         \/ /\ x \in roots /\ x = start /\ account'[x] = a /\ compaction[a] = "idle"
            /\ capGen'[x] = generation[a] /\ wanted
         \/ /\ x \notin roots /\ prep[x] = "compact" /\ account'[x] = account[x]
            /\ capGen'[x] = capGen[x] /\ account[x] \in Accounts
            /\ compaction[account[x]] # "idle"
            /\ capGen[x] = compactFrom[account[x]]
  BY <1>1 DEF StartedAs, CompactInv, CompactionAwaited, PreparedUsed, UsedStay, TypeInv, AccountKnown
<1>5. CompactionAwaited'
  <2> SUFFICES ASSUME NEW r1 \in Runs, NEW r2 \in Runs, prep'[r1] = "compact"
               PROVE  /\ compaction'[account'[r1]] # "idle"
                      /\ capGen'[r1] = compactFrom'[account'[r1]]
                      /\ prep'[r2] = "compact" /\ account'[r2] = account'[r1] => r1 = r2
    BY DEF CompactionAwaited
  <2>1. /\ compaction'[account'[r1]] # "idle"
        /\ capGen'[r1] = compactFrom'[account'[r1]]
    BY <1>3, <1>4
  <2>2. ASSUME prep'[r2] = "compact", account'[r2] = account'[r1] PROVE r1 = r2
    BY <1>4, <2>2 DEF CompactInv, CompactionAwaited
  <2>3. QED
    BY <2>1, <2>2
<1>6. QED
  BY <1>2, <1>5

(* The timer of a root may be the one that creates the compaction.         *)
LEMMA RetryKeepsCompaction ==
    ASSUME TypeInv, CompactInv, UsedStay, NEW r \in Runs, RetryRoot(r)
    PROVE  PreparedUsed' /\ CompactionAwaited'
<1> DEFINE a == account[r]
           ph == [x \in {r} |-> IF capGen[r] # generation[a] THEN "failed"
                                 ELSE StartPhase(a, pressure[a], TRUE)]
<1>1. /\ prep[r] = "retry" /\ status[r] = "pending"
      /\ prep' = PrepAfter(ph)
      /\ RequestCompaction(a, ph[r] = "compact")
      /\ UNCHANGED <<account, capGen, generation>>
  BY DEF RetryRoot
<1>2. TypeOK /\ a \in Accounts
  BY <1>1 DEF TypeInv, AccountKnown
<1>3. ph[r] = "compact" => capGen[r] = generation[a] /\ compaction[a] = "idle"
  BY DEF StartPhase, Admission
<1>4. DOMAIN ph = {r}
  OBVIOUS
<1> HIDE DEF ph, a
<1>5. /\ \A b \in Accounts : compaction[b] # "idle" \/ b # a =>
             compaction'[b] = compaction[b] /\ compactFrom'[b] = compactFrom[b]
      /\ ph[r] = "compact" => compaction'[a] # "idle" /\ compactFrom'[a] = generation[a]
  BY <1>1, <1>2, <1>3, RequestFacts
<1>6. \A x \in Runs : prep'[x] # prep[x] => x = r /\ (prep'[r] = "compact" => ph[r] = "compact")
  BY <1>1, <1>4 DEF PrepAfter
<1>7. PreparedUsed'
  BY <1>1, <1>6 DEF UsedStay, CompactInv, PreparedUsed
<1>8. \A x \in Runs : prep'[x] = "compact" =>
         \/ /\ x = r /\ ph[r] = "compact" /\ account[r] = a /\ compaction[a] = "idle"
            /\ capGen[r] = generation[a]
         \/ /\ prep[x] = "compact" /\ account[x] \in Accounts
            /\ compaction[account[x]] # "idle"
            /\ capGen[x] = compactFrom[account[x]]
  BY <1>1, <1>3, <1>6 DEF a, CompactInv, CompactionAwaited, PreparedUsed, TypeInv, AccountKnown
<1>9. CompactionAwaited'
  <2> SUFFICES ASSUME NEW r1 \in Runs, NEW r2 \in Runs, prep'[r1] = "compact"
               PROVE  /\ compaction'[account[r1]] # "idle"
                      /\ capGen[r1] = compactFrom'[account[r1]]
                      /\ prep'[r2] = "compact" /\ account[r2] = account[r1] => r1 = r2
    BY <1>1 DEF CompactionAwaited
  <2>1. /\ compaction'[account[r1]] # "idle"
        /\ capGen[r1] = compactFrom'[account[r1]]
    BY <1>5, <1>8
  <2>2. ASSUME prep'[r2] = "compact", account[r2] = account[r1] PROVE r1 = r2
    BY <1>8, <2>2 DEF CompactInv, CompactionAwaited
  <2>3. QED
    BY <2>1, <2>2
<1>10. QED
  BY <1>7, <1>9

(* The steps that neither start roots nor retry one leave the compactions  *)
(* that preparations await alone, or end the preparation with them.        *)
LEMMA OthersUndisturbed ==
    ASSUME TypeInv, CompactInv, UsedStay,
           \/ \E a \in Accounts : \/ Login(a) \/ Revoke(a) \/ CompactStart(a)
                                 \/ CompactSucceeds(a) \/ CompactFails(a)
           \/ \E r \in Runs : \/ SessionReady(r) \/ Dispatch(r) \/ DispatchBusy(r)
                             \/ DispatchFails(r) \/ RetryDropped(r) \/ RetryChildFails(r)
                             \/ RetryChildBusy(r) \/ RetryChildRuns(r)
                             \/ BackgroundRun(r) \/ RotateBinding(r)
           \/ \E s, r \in Runs, a \in Accounts, key \in Keys : Delegate(s, r, a, key)
           \/ CompactSpace \/ Restart \/ UNCHANGED otherThanMessages
    PROVE  CompactionUndisturbed
<1>0. TypeOK
  BY DEF TypeInv
<1>1. \A x \in Runs : prep[x] = "compact" =>
         /\ account[x] \in Accounts /\ compaction[account[x]] # "idle"
         /\ status[x] # "unused"
  BY DEF CompactInv, PreparedUsed, CompactionAwaited, TypeInv, AccountKnown
<1>2. ASSUME UNCHANGED <<prep, capGen, compaction, compactFrom>> PROVE CompactionUndisturbed
  BY <1>1, <1>2 DEF CompactionUndisturbed
<1>3. ASSUME NEW a \in Accounts, Login(a) \/ Revoke(a) PROVE CompactionUndisturbed
  BY <1>2, <1>3 DEF Login, Revoke
<1>4. ASSUME NEW a \in Accounts, CompactStart(a) PROVE CompactionUndisturbed
  BY <1>0, <1>1, <1>4 DEF CompactStart, CompactionUndisturbed, TypeOK
<1>5. ASSUME NEW a \in Accounts, NEW ph, DOMAIN ph = Compacting(a),
             \A x \in DOMAIN ph : ph[x] \in {"session", "failed"},
             prep' = PrepAfter(ph), compaction' = [compaction EXCEPT ![a] = "idle"],
             UNCHANGED <<capGen, compactFrom>>
      PROVE  CompactionUndisturbed
  <2>1. \A x \in Runs : /\ x \in DOMAIN ph => prep[x] = "compact" /\ prep'[x] # "compact"
                        /\ x \notin DOMAIN ph => prep'[x] = prep[x]
    BY <1>5 DEF PrepAfter, Compacting
  <2>2. \A x \in Runs : prep[x] = "compact" /\ x \notin DOMAIN ph => account[x] # a
    BY <1>5 DEF Compacting
  <2>3. \A b \in Accounts \ {a} : compaction'[b] = compaction[b]
    BY <1>0, <1>5 DEF TypeOK
  <2>4. QED
    BY <1>1, <1>5, <2>1, <2>2, <2>3 DEF CompactionUndisturbed
<1>6. ASSUME NEW a \in Accounts, CompactSucceeds(a) PROVE CompactionUndisturbed
  <2> DEFINE ph == [x \in Compacting(a) |-> "session"]
  <2>1. /\ prep' = PrepAfter(ph) /\ compaction' = [compaction EXCEPT ![a] = "idle"]
        /\ UNCHANGED <<capGen, compactFrom>>
    BY <1>6 DEF CompactSucceeds
  <2>2. QED
    BY <1>5, <2>1
<1>7. ASSUME NEW a \in Accounts, CompactFails(a) PROVE CompactionUndisturbed
  <2> DEFINE ph == [x \in Compacting(a) |-> "failed"]
  <2>1. /\ prep' = PrepAfter(ph) /\ compaction' = [compaction EXCEPT ![a] = "idle"]
        /\ UNCHANGED <<capGen, compactFrom>>
    BY <1>7 DEF CompactFails
  <2>2. QED
    BY <1>5, <2>1
<1>8. ASSUME NEW r \in Runs, UNCHANGED <<compaction, compactFrom, capGen>>,
             \A x \in Runs \ {r} : prep'[x] = prep[x],
             prep'[r] # "none" => prep'[r] # "compact" /\ status'[r] # "unused"
      PROVE  CompactionUndisturbed
  BY <1>1, <1>8 DEF CompactionUndisturbed
<1>9. ASSUME NEW r \in Runs,
             \/ SessionReady(r) \/ Dispatch(r) \/ DispatchBusy(r) \/ DispatchFails(r)
             \/ RetryDropped(r) \/ RetryChildFails(r) \/ RetryChildRuns(r)
      PROVE  CompactionUndisturbed
  <2>1. /\ UNCHANGED <<compaction, compactFrom, capGen>>
        /\ prep[r] # "none"
        /\ \E v \in {"none", "prompt", "retry"} : prep' = [prep EXCEPT ![r] = v]
    BY <1>9 DEF SessionReady, Dispatch, DispatchBusy, DispatchFails, RetryDropped,
       RetryChildFails, RetryChildRuns
  <2>2. status'[r] # "unused"
    BY <2>1 DEF CompactInv, PreparedUsed, UsedStay
  <2>3. QED
    BY <1>0, <1>8, <2>1, <2>2 DEF TypeOK
<1>10. ASSUME NEW r \in Runs, RetryChildBusy(r) \/ BackgroundRun(r) \/ RotateBinding(r)
       PROVE  CompactionUndisturbed
  BY <1>2, <1>10 DEF RetryChildBusy, BackgroundRun, RotateBinding, vars
<1>11. ASSUME NEW s \in Runs, NEW r \in Runs, NEW a \in Accounts, NEW key \in Keys,
              Delegate(s, r, a, key)
       PROVE  CompactionUndisturbed
  <2>1. /\ UNCHANGED <<compaction, compactFrom, capGen>>
        /\ prep' = prep \/ prep' = [prep EXCEPT ![r] = "retry"]
        /\ status[r] = "unused"
    BY <1>11 DEF Delegate
  <2>2. status'[r] # "unused" /\ prep[r] = "none"
    BY <1>11, <2>1, DelegateFacts DEF CompactInv, PreparedUsed
  <2>3. QED
    BY <1>0, <1>8, <2>1, <2>2 DEF TypeOK
<1>12. CASE CompactSpace
  <2>1. UNCHANGED <<prep, capGen>> /\ \A a \in Accounts : compaction[a] = "idle"
    BY <1>12 DEF CompactSpace
  <2>2. QED
    BY <1>1, <2>1 DEF CompactionUndisturbed
<1>13. CASE Restart
  BY <1>13 DEF Restart, CompactionUndisturbed
<1>14. CASE UNCHANGED otherThanMessages
  BY <1>2, <1>14 DEF otherThanMessages
<1>15. QED
  BY <1>3, <1>4, <1>6, <1>7, <1>9, <1>10, <1>11, <1>12, <1>13, <1>14

(* The inductive step for preparations that await a compaction.            *)
LEMMA CompactInvStep ==
    ASSUME TypeInv, CompactInv, [Next]_vars
    PROVE  CompactInv'
<1>0. TypeOK /\ UsedStay /\ ListedOfAccount'
  BY RowsStay, ListedStay DEF TypeInv, CompactInv
<1>1. ASSUME PreparedUsed' /\ CompactionAwaited' PROVE CompactInv'
  BY <1>0, <1>1 DEF CompactInv
<1>2. ASSUME CompactionUndisturbed PROVE CompactInv'
  BY <1>0, <1>1, <1>2, UndisturbedKeeps
<1>3. ASSUME NEW a \in Accounts, NEW r \in Runs, ScheduleRoot(r, a) PROVE CompactInv'
  <2> DEFINE base == [status EXCEPT ![r] = "pending"]
  <2>1. base \in [Runs -> Statuses] /\ base[r] # "unused" /\ pressure[a] \in BOOLEAN
    BY <1>0 DEF TypeOK
  <2>2. account'[r] = a
    BY <1>3, ScheduleRootFacts
  <2>3. CASE blockingFor(a) = None
    <3>1. /\ StartRoots({r}, r, a, pressure[a], base, runMessages)
          /\ RequestCompaction(a, pressure[a])
      BY <1>3, <2>3 DEF ScheduleRoot
    <3> HIDE DEF base
    <3>2. QED
      BY <1>0, <1>1, <2>1, <2>2, <3>1, StartKeepsCompaction
  <2>4. CASE blockingFor(a) # None
    <3>1. /\ prep' = [prep EXCEPT ![r] = "deferred"]
          /\ UNCHANGED <<capGen, compaction, compactFrom>>
      BY <1>3, <2>4 DEF ScheduleRoot
    <3>2. prep[r] = "none" /\ status'[r] # "unused"
      BY <1>3, ScheduleRootFacts DEF CompactInv, PreparedUsed
    <3>3. \A x \in Runs \ {r} : prep'[x] = prep[x]
      BY <1>0, <3>1 DEF TypeOK
    <3>4. \A x \in Runs : prep[x] = "compact" => compaction[account[x]] # "idle"
      BY DEF CompactInv, CompactionAwaited
    <3>5. prep'[r] = "deferred"
      BY <1>0, <3>1 DEF TypeOK
    <3>6. CompactionUndisturbed
      BY <3>1, <3>2, <3>3, <3>4, <3>5 DEF CompactionUndisturbed
    <3>7. QED
      BY <1>2, <3>6
  <2>5. QED
    BY <2>3, <2>4
<1>4. ASSUME NEW r \in Runs, EndStep(r) PROVE CompactInv'
  <2>1. EndFrame
    BY <1>4, EndCases
  <2>2. CASE EndsAround(r)
    <3>1. CompactionUndisturbed
      BY <2>2 DEF EndsAround, CompactionUndisturbed, CompactInv, CompactionAwaited
    <3>2. QED
      BY <1>2, <3>1
  <2>3. CASE EndsWithRecord(r)
    <3>1. PICK final \in Terminal, news \in BOOLEAN, pressed \in BOOLEAN,
               wanted \in BOOLEAN, base \in [Runs -> Statuses], ms \in SUBSET Message :
             /\ Settle(r, final, news, pressed, base, ms)
             /\ EndedRows(r, base) /\ base[r] \in Terminal
             /\ RequestCompaction(account[r], wanted)
             /\ pressed /\ ResumedByFinish(r, final, news) # {} => wanted
      BY <2>3 DEF EndsWithRecord
    <3> DEFINE roots == ResumedByFinish(r, final, news)
    <3>2. account[r] \in Accounts
      BY <3>1 DEF EndedRows, Ends, TypeInv, AccountKnown
    <3>3. roots \in SUBSET Runs /\ roots \subseteq Elements(pendingRoots[r])
      BY <1>0, ResumedType
    <3>4. \A x \in roots : account'[x] = account[r] /\ base[x] # "unused"
      BY <2>1, <3>1, <3>3 DEF EndFrame, EndedRows, Ends, CompactInv, ListedOfAccount
    <3>5. StartRoots(roots, FirstResumed(r), account[r], pressed, base, ms)
      BY <3>1 DEF Settle
    <3> HIDE DEF roots
    <3>6. pressed /\ roots # {} => wanted
      BY <3>1 DEF roots
    <3>7. QED
      BY <1>0, <1>1, <3>1, <3>2, <3>3, <3>4, <3>5, <3>6, StartKeepsCompaction
  <2>4. QED
    BY <1>4, <2>2, <2>3, EndCases
<1>5. ASSUME NEW c \in Runs, NEW outcome \in {"ready", "failed"}, SettleAwaiting(c, outcome)
      PROVE  CompactInv'
  <2> DEFINE a == account[c]
             roots == Resumed(c)
             wanted == pressure[a] /\ roots # {}
  <2>1. /\ StartRoots(roots, FirstResumed(c), a, pressure[a], status, runMessages)
        /\ RequestCompaction(a, wanted)
        /\ catchup[c] = "awaiting_result" /\ UNCHANGED account
    BY <1>5 DEF SettleAwaiting
  <2>2. a \in Accounts
    BY <2>1 DEF TypeInv, AccountKnown
  <2>3. pressure[a] \in BOOLEAN /\ status \in [Runs -> Statuses] /\ wanted \in BOOLEAN
    BY <1>0, <2>2 DEF TypeOK
  <2>4. roots \in SUBSET Runs /\ roots \subseteq Elements(pendingRoots[c])
    BY <1>0, ResumedType
  <2>5. \A x \in roots : account'[x] = a /\ status[x] # "unused"
    BY <2>1, <2>4 DEF CompactInv, ListedOfAccount
  <2>6. pressure[a] /\ roots # {} => wanted
    OBVIOUS
  <2> HIDE DEF a, roots, wanted
  <2>7. QED
    BY <1>0, <1>1, <2>1, <2>2, <2>3, <2>4, <2>5, <2>6, StartKeepsCompaction
<1>6. ASSUME NEW r \in Runs, RetryRoot(r) PROVE CompactInv'
  BY <1>0, <1>1, <1>6, RetryKeepsCompaction
<1>7. ASSUME UNCHANGED vars PROVE CompactInv'
  BY <1>7 DEF vars, CompactInv, PreparedUsed, ListedOfAccount, CompactionAwaited
<1>8. CASE AccountStep
  BY <1>0, <1>2, <1>3, <1>8, OthersUndisturbed DEF AccountStep
<1>9. ASSUME NEW r \in Runs, PrepareStep(r) \/ RotateBinding(r) PROVE CompactInv'
  BY <1>0, <1>2, <1>6, <1>9, OthersUndisturbed DEF PrepareStep
<1>10. ASSUME NEW r \in Runs, MessageStep(r) PROVE CompactInv'
  <2>1. \/ \E c \in Runs, a \in Accounts, key \in Keys : Delegate(r, c, a, key)
        \/ UNCHANGED otherThanMessages
    BY <1>10 DEF MessageStep, SendMessage, SendTerminal, ReadInbox, ConsumeMessage, UserInstruction
  <2>2. QED
    BY <1>0, <1>2, <2>1, OthersUndisturbed
<1>11. ASSUME NEW r \in Runs, BackgroundStep(r) PROVE CompactInv'
  <2>1. CASE BackgroundRun(r)
    BY <1>0, <1>2, <2>1, OthersUndisturbed
  <2>2. QED
    BY <1>5, <1>11, <2>1 DEF BackgroundStep, CatchupResult, CatchupTimeout
<1>12. CASE CompactSpace \/ Restart
  BY <1>0, <1>2, <1>12, OthersUndisturbed
<1>13. QED
  BY <1>4, <1>7, <1>8, <1>9, <1>10, <1>11, <1>12 DEF Next

(* The strengthening of CompactionAwaited is inductive.                    *)
THEOREM CompactInvInductive == Spec => []CompactInv
<1>1. Init => CompactInv
  BY DEF Init, CompactInv, PreparedUsed, ListedOfAccount, CompactionAwaited, Elements
<1>2. TypeInv /\ CompactInv /\ [Next]_vars => CompactInv'
  BY CompactInvStep
<1>3. QED
  BY <1>1, <1>2, TypeInductive, PTL DEF Spec

(* Whoever awaits a compaction has one under way, of the generation it     *)
(* captured, and awaits it alone: a compaction never ends unnoticed by the *)
(* run that asked for it (CompactionAwaited).                              *)
THEOREM CompactionIsAwaited == Spec => []CompactionAwaited
<1>1. CompactInv => CompactionAwaited
  BY DEF CompactInv
<1>2. QED
  BY <1>1, CompactInvInductive, PTL

-----------------------------------------------------------------------------
(* The background overlay *)

Unsettled == {"collecting", "awaiting_result"}

OverlayInv == UnsettledUnserved /\ DeferredListed /\ SummaryServesDeferred

NoNewDeferral ==
    \A x \in Runs : status'[x] = "pending" /\ prep'[x] = "deferred" =>
        status[x] = "pending" /\ prep[x] = "deferred"

(* A step that settles no record, serves none and defers nothing.          *)
OverlayQuiet ==
    /\ UNCHANGED <<catchup, pendingRoots, consumedRuns>>
    /\ \A c \in Runs : catchup[c] \notin Settled => reserved'[c] \subseteq reserved[c]
    /\ NoNewDeferral

(* Such a step keeps the overlay invariant.                                *)
LEMMA QuietKeeps ==
    ASSUME TypeInv, OverlayInv, ListedOfAccount, UsedStay, OverlayQuiet
    PROVE  OverlayInv'
<1>1. UnsettledUnserved' /\ SummaryServesDeferred'
  BY DEF OverlayQuiet, OverlayInv, UnsettledUnserved, SummaryServesDeferred
<1>2. DeferredListed'
  <2> SUFFICES ASSUME NEW r \in Runs, status'[r] = "pending", prep'[r] = "deferred"
               PROVE  \E c \in Runs : /\ catchup'[c] \in {"collecting", "awaiting_result"}
                                      /\ account'[c] = account'[r]
                                      /\ r \in Elements(pendingRoots'[c])
    BY DEF DeferredListed
  <2>1. status[r] = "pending" /\ prep[r] = "deferred"
    BY DEF OverlayQuiet, NoNewDeferral
  <2>2. PICK c \in Runs : /\ catchup[c] \in {"collecting", "awaiting_result"}
                          /\ account[c] = account[r]
                          /\ r \in Elements(pendingRoots[c])
    BY <2>1 DEF OverlayInv, DeferredListed
  <2>3. account'[c] = account[c] /\ account'[r] = account[r]
    BY <2>2 DEF ListedOfAccount, UsedStay
  <2>4. QED
    BY <2>2, <2>3 DEF OverlayQuiet
<1>3. QED
  BY <1>1, <1>2 DEF OverlayInv

(* The summary injected into a run is that of a settled record.            *)
LEMMA ContextIsSettled ==
    ASSUME NEW r, contextForRun(r) # None
    PROVE  contextForRun(r) \in Runs /\ catchup[contextForRun(r)] \in {"ready", "failed"}
<1> DEFINE S == RecordsOf(account[r], {"ready", "failed"})
<1>1. LastIn(catchupOrder, S) # None => LastIn(catchupOrder, S) \in S
  BY DEF LastIn
<1>2. contextForRun(r) \in {LastIn(catchupOrder, S), None}
  BY DEF contextForRun, readyFor
<1>3. QED
  BY <1>1, <1>2 DEF RecordsOf

(* A summary that is handed out serves its record.                         *)
LEMMA DispatchServes ==
    ASSUME TypeInv, OverlayInv, ListedOfAccount, UsedStay, NEW r \in Runs, Dispatch(r)
    PROVE  OverlayInv'
<1> DEFINE c == capCatchup[r]
<1>1. /\ markDispatched(c, r) /\ UNCHANGED <<account, pendingRoots, reserved>>
      /\ status' = [status EXCEPT ![r] = "running"] /\ prep' = [prep EXCEPT ![r] = "none"]
  BY DEF Dispatch
<1>2. NoNewDeferral
  BY <1>1 DEF NoNewDeferral, TypeInv, TypeOK
<1>3. CASE ~(c # None /\ r \in reserved[c] /\ catchup[c] # "consumed")
  <2>1. OverlayQuiet
    BY <1>1, <1>2, <1>3 DEF markDispatched, OverlayQuiet
  <2>2. QED
    BY <2>1, QuietKeeps
<1>4. CASE c # None /\ r \in reserved[c] /\ catchup[c] # "consumed"
  <2>1. c \in Runs /\ catchup[c] \in Settled
    BY <1>4 DEF OverlayInv, UnsettledUnserved, TypeInv, TypeOK
  <2>2. /\ consumedRuns' = [consumedRuns EXCEPT ![c] = consumedRuns[c] \cup {r}]
        /\ catchup' = [catchup EXCEPT ![c] = IF AllServed(c, r) THEN "consumed" ELSE catchup[c]]
    BY <1>1, <1>4 DEF markDispatched
  <2>3. /\ \A x \in Runs \ {c} : consumedRuns'[x] = consumedRuns[x] /\ catchup'[x] = catchup[x]
        /\ consumedRuns'[c] = consumedRuns[c] \cup {r}
        /\ \/ catchup'[c] = "consumed" /\ AllServed(c, r)
           \/ catchup'[c] = catchup[c]
    BY <2>1, <2>2 DEF TypeInv, TypeOK
  <2> HIDE DEF c
  <2>4. UnsettledUnserved'
    BY <1>1, <2>1, <2>3 DEF OverlayInv, UnsettledUnserved, Settled
  <2>5. SummaryServesDeferred'
    BY <1>1, <1>4, <2>3 DEF OverlayInv, SummaryServesDeferred, AllServed
  <2>6. DeferredListed'
    BY <1>1, <1>2, <2>1, <2>3 DEF OverlayInv, DeferredListed, NoNewDeferral, Settled
  <2>7. QED
    BY <2>4, <2>5, <2>6 DEF OverlayInv
<1>5. QED
  BY <1>3, <1>4

(* A deferred root is listed by the record that blocks its account.        *)
LEMMA DeferralLists ==
    ASSUME TypeInv, OverlayInv, PreparedUsed, ListedOfAccount, UsedStay,
           NEW a \in Accounts, NEW r \in Runs, ScheduleRoot(r, a)
    PROVE  OverlayInv'
<1>0. TypeOK
  BY DEF TypeInv
<1>1. /\ UNCHANGED <<catchup, reserved, consumedRuns>>
      /\ status[r] = "unused" /\ account'[r] = a
      /\ \A x \in Runs \ {r} : status'[x] = status[x] /\ account'[x] = account[x]
  BY ScheduleRootFacts DEF ScheduleRoot
<1>2. CASE blockingFor(a) = None
  <2> DEFINE base == [status EXCEPT ![r] = "pending"]
  <2>1. StartRoots({r}, r, a, pressure[a], base, runMessages) /\ UNCHANGED pendingRoots
    BY <1>2 DEF ScheduleRoot
  <2>2. base \in [Runs -> Statuses] /\ pressure[a] \in BOOLEAN
    BY <1>0 DEF TypeOK
  <2> HIDE DEF base
  <2>3. NoNewDeferral
    BY <1>0, <1>1, <2>1, <2>2, StartRootsFacts DEF StartedAs, NoNewDeferral
  <2>4. OverlayQuiet
    BY <1>1, <2>1, <2>3 DEF OverlayQuiet
  <2>5. QED
    BY <2>4, QuietKeeps
<1>3. CASE blockingFor(a) # None
  <2> DEFINE b == blockingFor(a)
  <2>1. /\ pendingRoots' = deferRoot(a, r)
        /\ prep' = [prep EXCEPT ![r] = "deferred"]
    BY <1>3 DEF ScheduleRoot
  <2>2. b \in Runs /\ account[b] = a /\ catchup[b] \in {"collecting", "awaiting_result"}
    BY <1>3, BlockingRecord
  <2>3. \A c \in Runs : Elements(pendingRoots'[c]) =
            Elements(pendingRoots[c]) \cup (IF c = b THEN {r} ELSE {})
    BY <1>0, <1>3, <2>1, DeferredIsListed
  <2>4. b # r
    BY <1>1, <2>2 DEF TypeInv, AccountKnown
  <2> HIDE DEF b
  <2>5. UnsettledUnserved' /\ SummaryServesDeferred'
    BY <1>1, <2>2, <2>3 DEF OverlayInv, UnsettledUnserved, SummaryServesDeferred
  <2>6. DeferredListed'
    <3> SUFFICES ASSUME NEW x \in Runs, status'[x] = "pending", prep'[x] = "deferred"
                 PROVE  \E c \in Runs : /\ catchup'[c] \in {"collecting", "awaiting_result"}
                                        /\ account'[c] = account'[x]
                                        /\ x \in Elements(pendingRoots'[c])
      BY DEF DeferredListed
    <3>1. CASE x = r
      BY <1>1, <2>2, <2>3, <2>4, <3>1
    <3>2. CASE x # r
      <4>1. status[x] = "pending" /\ prep[x] = "deferred"
        BY <1>0, <1>1, <2>1, <3>2 DEF TypeOK
      <4>2. PICK c \in Runs : /\ catchup[c] \in {"collecting", "awaiting_result"}
                              /\ account[c] = account[x]
                              /\ x \in Elements(pendingRoots[c])
        BY <4>1 DEF OverlayInv, DeferredListed
      <4>3. account'[c] = account[c] /\ account'[x] = account[x]
        BY <4>2 DEF ListedOfAccount, UsedStay
      <4>4. QED
        BY <1>1, <2>3, <4>2, <4>3
    <3>3. QED
      BY <3>1, <3>2
  <2>7. QED
    BY <2>5, <2>6 DEF OverlayInv
<1>4. QED
  BY <1>2, <1>3

(* A record that settles resumes every root that only it lists.            *)
Settling(c, st, roots, start, a, pressed, base, ms) ==
    /\ catchup' = [catchup EXCEPT ![c] = st]
    /\ \/ st \in Settled /\ catchup[c] \in Unsettled /\ roots = Resumed(c)
       \/ st = "awaiting_result" /\ catchup[c] = "collecting"
       \/ st = catchup[c]
    /\ \A x \in Runs : base[x] = "pending" => status[x] = "pending"
    /\ StartRoots(roots, start, a, pressed, base, ms)
    /\ UNCHANGED <<pendingRoots, reserved, consumedRuns>>

(* Settling a record keeps the overlay invariant.                          *)
LEMMA SettlingServes ==
    ASSUME TypeInv, OverlayInv, ListedOfAccount, UsedStay,
           NEW c \in Runs, NEW st, NEW roots \in SUBSET Runs, NEW start, NEW a \in Accounts,
           NEW pressed \in BOOLEAN, NEW base \in [Runs -> Statuses], NEW ms,
           Settling(c, st, roots, start, a, pressed, base, ms)
    PROVE  OverlayInv'
<1>s. /\ catchup' = [catchup EXCEPT ![c] = st]
      /\ \/ st \in Settled /\ catchup[c] \in Unsettled /\ roots = Resumed(c)
         \/ st = "awaiting_result" /\ catchup[c] = "collecting"
         \/ st = catchup[c]
      /\ \A x \in Runs : base[x] = "pending" => status[x] = "pending"
      /\ StartRoots(roots, start, a, pressed, base, ms)
      /\ UNCHANGED <<pendingRoots, reserved, consumedRuns>>
  BY DEF Settling
<1>0. TypeOK /\ catchup'[c] = st /\ \A x \in Runs \ {c} : catchup'[x] = catchup[x]
  BY <1>s DEF TypeInv, TypeOK
<1>1. UnsettledUnserved' /\ SummaryServesDeferred'
  BY <1>0, <1>s DEF OverlayInv, UnsettledUnserved, SummaryServesDeferred, Settled, Unsettled
<1>2. \A x \in Runs : status'[x] = "pending" /\ prep'[x] = "deferred" =>
          status[x] = "pending" /\ prep[x] = "deferred" /\ x \notin roots
  <2>1. TypeOK /\ StartRoots(roots, start, a, pressed, base, ms)
    BY <1>0, <1>s
  <2>2. \A x \in Runs :
           /\ x \in roots => StartedAs(x, start, a, pressed, base)
           /\ x \notin roots => prep'[x] = prep[x] /\ status'[x] = base[x]
    BY <2>1, StartRootsFacts
  <2>3. QED
    BY <1>s, <2>2 DEF StartedAs
<1>3. DeferredListed'
  <2> SUFFICES ASSUME NEW r \in Runs, status'[r] = "pending", prep'[r] = "deferred"
               PROVE  \E d \in Runs : /\ catchup'[d] \in {"collecting", "awaiting_result"}
                                      /\ account'[d] = account'[r]
                                      /\ r \in Elements(pendingRoots'[d])
    BY DEF DeferredListed
  <2>1. status[r] = "pending" /\ prep[r] = "deferred" /\ r \notin roots
    BY <1>2
  <2>2. PICK d \in Runs : /\ catchup[d] \in {"collecting", "awaiting_result"}
                          /\ account[d] = account[r]
                          /\ r \in Elements(pendingRoots[d])
    BY <2>1 DEF OverlayInv, DeferredListed
  <2>3. account'[d] = account[d] /\ account'[r] = account[r]
    BY <2>2 DEF ListedOfAccount, UsedStay
  <2>4. catchup'[d] \in {"collecting", "awaiting_result"}
    <3>1. CASE d # c
      BY <1>0, <2>2, <3>1
    <3>2. CASE d = c /\ roots = Resumed(c)
      BY <2>1, <2>2, <3>2 DEF Resumed
    <3>3. CASE d = c /\ (st = "awaiting_result" \/ st = catchup[c])
      BY <1>0, <1>s, <2>2, <3>3
    <3>4. QED
      BY <1>s, <2>2, <3>1, <3>2, <3>3 DEF Unsettled, Settled
  <2>5. QED
    BY <1>s, <2>2, <2>3, <2>4
<1>4. QED
  BY <1>1, <1>3 DEF OverlayInv

(* The steps that change neither records nor lists.                        *)
LEMMA OthersQuiet ==
    ASSUME TypeInv, PreparedUsed, UsedStay,
           \/ \E a \in Accounts : \/ Login(a) \/ Revoke(a) \/ CompactStart(a)
                                 \/ CompactSucceeds(a) \/ CompactFails(a)
           \/ \E r \in Runs : \/ SessionReady(r) \/ DispatchBusy(r)
                             \/ DispatchFails(r) \/ RetryRoot(r) \/ RetryDropped(r)
                             \/ RetryChildFails(r) \/ RetryChildBusy(r) \/ RetryChildRuns(r)
                             \/ RotateBinding(r)
           \/ \E s, r \in Runs, a \in Accounts, key \in Keys : Delegate(s, r, a, key)
           \/ CompactSpace \/ UNCHANGED otherThanMessages
    PROVE  OverlayQuiet
<1>0. TypeOK
  BY DEF TypeInv
<1>1. ASSUME UNCHANGED backgroundVars, NoNewDeferral PROVE OverlayQuiet
  BY <1>1 DEF OverlayQuiet
<1>2. ASSUME NEW a \in Accounts, Login(a) \/ Revoke(a) \/ CompactStart(a)
      PROVE  OverlayQuiet
  BY <1>1, <1>2 DEF Login, Revoke, CompactStart, releaseAccountExecutions, NoNewDeferral
<1>3. ASSUME NEW ph, \A x \in DOMAIN ph : ph[x] # "deferred", prep' = PrepAfter(ph),
             status' = status \/ status' = StatusAfter(ph, status)
      PROVE  NoNewDeferral
  BY <1>3 DEF NoNewDeferral, PrepAfter, StatusAfter, FailedIn
<1>4. ASSUME NEW a \in Accounts, CompactSucceeds(a) \/ CompactFails(a) PROVE OverlayQuiet
  <2>1. ASSUME NEW v \in {"session", "failed"}, NEW ph, ph = [r \in Compacting(a) |-> v]
        PROVE  \A x \in DOMAIN ph : ph[x] # "deferred"
    BY <2>1
  <2>2. UNCHANGED backgroundVars
    BY <1>4 DEF CompactSucceeds, CompactFails
  <2>3. NoNewDeferral
    BY <1>3, <1>4, <2>1 DEF CompactSucceeds, CompactFails
  <2>4. QED
    BY <1>1, <2>2, <2>3
<1>5. ASSUME NEW r \in Runs, SessionReady(r) PROVE OverlayQuiet
  <2>1. /\ UNCHANGED <<status, catchup, pendingRoots, consumedRuns>>
        /\ prep' = [prep EXCEPT ![r] = "prompt"]
        /\ reserve(contextForRun(r), r)
    BY <1>5 DEF SessionReady
  <2>2. NoNewDeferral
    BY <1>0, <2>1 DEF NoNewDeferral, TypeOK
  <2>3. \A c \in Runs : catchup[c] \notin Settled => reserved'[c] = reserved[c]
    BY <1>0, <2>1, ContextIsSettled DEF reserve, Settled, TypeOK
  <2>4. QED
    BY <2>1, <2>2, <2>3 DEF OverlayQuiet
<1>6. ASSUME NEW r \in Runs, DispatchBusy(r) \/ DispatchFails(r) PROVE OverlayQuiet
  <2>1. /\ UNCHANGED <<catchup, pendingRoots, consumedRuns>>
        /\ prep' = [prep EXCEPT ![r] = "retry"] \/ prep' = [prep EXCEPT ![r] = "none"]
        /\ releaseReservation(capCatchup[r], r)
        /\ status' = status \/ \E ph : status' = StatusAfter(ph, status)
    BY <1>6 DEF DispatchBusy, DispatchFails
  <2>2. \A x \in Runs : status'[x] = "pending" => status[x] = "pending"
    BY <2>1 DEF StatusAfter, FailedIn
  <2>3. NoNewDeferral
    BY <1>0, <2>1, <2>2 DEF NoNewDeferral, TypeOK
  <2>4. \A c \in Runs : reserved'[c] \subseteq reserved[c]
    BY <1>0, <2>1 DEF releaseReservation, TypeOK
  <2>5. QED
    BY <2>1, <2>3, <2>4 DEF OverlayQuiet
<1>7. ASSUME NEW r \in Runs, RetryRoot(r) PROVE OverlayQuiet
  <2> DEFINE ph == [x \in {r} |-> IF capGen[r] # generation[account[r]] THEN "failed"
                                   ELSE StartPhase(account[r], pressure[account[r]], TRUE)]
  <2>1. status' = StatusAfter(ph, status) /\ prep' = PrepAfter(ph) /\ UNCHANGED backgroundVars
    BY <1>7 DEF RetryRoot
  <2>2. \A x \in DOMAIN ph : ph[x] # "deferred"
    BY PhaseType
  <2> HIDE DEF ph
  <2>3. QED
    BY <1>1, <1>3, <2>1, <2>2
<1>8. ASSUME NEW r \in Runs, RetryDropped(r) \/ RetryChildFails(r) \/ RetryChildRuns(r)
      PROVE  OverlayQuiet
  <2>1. UNCHANGED backgroundVars /\ prep' = [prep EXCEPT ![r] = "none"]
    BY <1>8 DEF RetryDropped, RetryChildFails, RetryChildRuns
  <2>2. \A x \in Runs \ {r} : status'[x] = status[x]
    <3>1. CASE RetryDropped(r)
      BY <3>1 DEF RetryDropped
    <3>2. CASE RetryChildFails(r)
      <4>1. \/ status' = [status EXCEPT ![r] = "failed"]
            \/ status' = [status EXCEPT ![r] = "pending"]
        BY <3>2 DEF RetryChildFails, FailPendingChild
      <4>2. QED
        BY <1>0, <4>1 DEF TypeOK
    <3>3. CASE RetryChildRuns(r)
      <4>1. status' = [status EXCEPT ![r] = "running"]
        BY <3>3 DEF RetryChildRuns
      <4>2. QED
        BY <1>0, <4>1 DEF TypeOK
    <3>4. QED
      BY <1>8, <3>1, <3>2, <3>3
  <2>3. NoNewDeferral
    BY <1>0, <2>1, <2>2 DEF NoNewDeferral, TypeOK
  <2>4. QED
    BY <1>1, <2>1, <2>3
<1>9. ASSUME NEW r \in Runs, RetryChildBusy(r) \/ RotateBinding(r) PROVE OverlayQuiet
  BY <1>1, <1>9 DEF RetryChildBusy, RotateBinding, vars, NoNewDeferral
<1>10. ASSUME NEW s \in Runs, NEW r \in Runs, NEW a \in Accounts, NEW key \in Keys,
              Delegate(s, r, a, key)
       PROVE  OverlayQuiet
  <2>1. UNCHANGED backgroundVars /\ (prep' = prep \/ prep' = [prep EXCEPT ![r] = "retry"])
    BY <1>10 DEF Delegate
  <2>2. status[r] = "unused" /\ \A x \in Runs \ {r} : status'[x] = status[x]
    BY <1>10, DelegateFacts
  <2>3. NoNewDeferral
    BY <1>0, <2>1, <2>2 DEF NoNewDeferral, PreparedUsed, TypeOK
  <2>4. QED
    BY <1>1, <2>1, <2>3
<1>11. CASE CompactSpace \/ UNCHANGED otherThanMessages
  BY <1>1, <1>11 DEF CompactSpace, otherThanMessages, NoNewDeferral
<1>12. QED
  BY <1>2, <1>4, <1>5, <1>6, <1>7, <1>8, <1>9, <1>10, <1>11

(* The inductive step of the overlay.                                      *)
LEMMA OverlayInvStep ==
    ASSUME TypeInv, CompactInv, OverlayInv, [Next]_vars
    PROVE  OverlayInv'
<1>0. TypeOK /\ UsedStay /\ PreparedUsed /\ ListedOfAccount
  BY RowsStay DEF TypeInv, CompactInv
<1>1. ASSUME OverlayQuiet PROVE OverlayInv'
  BY <1>0, <1>1, QuietKeeps
<1>2. ASSUME NEW a \in Accounts, NEW r \in Runs, ScheduleRoot(r, a) PROVE OverlayInv'
  BY <1>0, <1>2, DeferralLists
<1>3. ASSUME NEW r \in Runs, EndStep(r) PROVE OverlayInv'
  <2>1. EndFrame
    BY <1>3, EndCases
  <2>2. CASE EndsAround(r)
    <3>1. OverlayQuiet
      BY <2>1, <2>2 DEF EndsAround, EndFrame, EndedRows, Ends, OverlayQuiet, NoNewDeferral
    <3>2. QED
      BY <1>1, <3>1
  <2>3. CASE EndsWithRecord(r)
    <3>1. PICK final \in Terminal, news \in BOOLEAN, pressed \in BOOLEAN,
               base \in [Runs -> Statuses], ms \in SUBSET Message :
             /\ Settle(r, final, news, pressed, base, ms)
             /\ EndedRows(r, base) /\ base[r] \in Terminal
      BY <2>3 DEF EndsWithRecord
    <3> DEFINE roots == ResumedByFinish(r, final, news)
               st == FinishedStatus(r, final, news)
    <3>2. account[r] \in Accounts
      BY <3>1 DEF EndedRows, Ends, TypeInv, AccountKnown
    <3>3. roots \in SUBSET Runs
      BY <1>0, ResumedType
    <3>4. \/ st \in Settled /\ catchup[r] \in Unsettled /\ roots = Resumed(r)
          \/ st = "awaiting_result" /\ catchup[r] = "collecting"
          \/ st = catchup[r]
      BY DEF FinishedStatus, ResumedByFinish, Settled, Unsettled
    <3>5. /\ catchup' = [catchup EXCEPT ![r] = st]
          /\ StartRoots(roots, FirstResumed(r), account[r], pressed, base, ms)
      BY <3>1 DEF Settle
    <3>6. \A x \in Runs : base[x] = "pending" => status[x] = "pending"
      BY <3>1 DEF EndedRows, Ends
    <3>7. UNCHANGED <<pendingRoots, reserved, consumedRuns>>
      BY <2>1 DEF EndFrame
    <3> HIDE DEF roots, st
    <3>8. Settling(r, st, roots, FirstResumed(r), account[r], pressed, base, ms)
      BY <3>4, <3>5, <3>6, <3>7 DEF Settling
    <3>9. QED
      BY <1>0, <3>2, <3>3, <3>8, SettlingServes
  <2>4. QED
    BY <1>3, <2>2, <2>3, EndCases
<1>4. ASSUME NEW c \in Runs, NEW outcome \in {"ready", "failed"}, SettleAwaiting(c, outcome)
      PROVE  OverlayInv'
  <2>1. /\ StartRoots(Resumed(c), FirstResumed(c), account[c], pressure[account[c]],
                      status, runMessages)
        /\ catchup' = [catchup EXCEPT ![c] = outcome]
        /\ catchup[c] = "awaiting_result"
        /\ UNCHANGED <<pendingRoots, reserved, consumedRuns>>
    BY <1>4 DEF SettleAwaiting
  <2>2. account[c] \in Accounts
    BY <2>1 DEF TypeInv, AccountKnown
  <2>3. pressure[account[c]] \in BOOLEAN /\ status \in [Runs -> Statuses]
    BY <1>0, <2>2 DEF TypeOK
  <2>4. Resumed(c) \in SUBSET Runs
    BY <1>0, ResumedType
  <2>5. outcome \in Settled /\ catchup[c] \in Unsettled
    BY <2>1 DEF Settled, Unsettled
  <2>6. Settling(c, outcome, Resumed(c), FirstResumed(c), account[c], pressure[account[c]],
                 status, runMessages)
    BY <2>1, <2>5 DEF Settling
  <2>7. QED
    BY <1>0, <2>2, <2>3, <2>4, <2>6, SettlingServes
<1>5. ASSUME NEW r \in Runs, BackgroundRun(r) PROVE OverlayInv'
  <2>1. /\ UNCHANGED <<status, account, prep, pendingRoots, reserved, consumedRuns>>
        /\ catchup[r] = "none" /\ catchup' = [catchup EXCEPT ![r] = "collecting"]
    BY <1>5 DEF BackgroundRun, openRecord, MayBackground
  <2>2. /\ catchup'[r] = "collecting" /\ \A x \in Runs \ {r} : catchup'[x] = catchup[x]
    BY <1>0, <2>1 DEF TypeOK
  <2>3. UnsettledUnserved' /\ SummaryServesDeferred'
    BY <2>1, <2>2 DEF OverlayInv, UnsettledUnserved, SummaryServesDeferred, Settled
  <2>4. DeferredListed'
    BY <2>1, <2>2 DEF OverlayInv, DeferredListed
  <2>5. QED
    BY <2>3, <2>4 DEF OverlayInv
<1>6. CASE Restart
  <2>1. /\ \A x \in Runs : prep'[x] = "none"
        /\ UNCHANGED <<pendingRoots, reserved, consumedRuns>>
    BY <1>6 DEF Restart
  <2>2. \A x \in Runs : catchup'[x] = catchup[x] \/ catchup[x] \notin Settled
    BY <1>6 DEF Restart, recoverCatchups, Settled
  <2>3. \A x \in Runs : catchup'[x] \notin Settled => catchup[x] \notin Settled
    BY <1>6 DEF Restart, recoverCatchups, Settled
  <2>4. UnsettledUnserved' /\ SummaryServesDeferred'
    BY <2>1, <2>2, <2>3 DEF OverlayInv, UnsettledUnserved, SummaryServesDeferred
  <2>5. DeferredListed'
    BY <2>1 DEF DeferredListed
  <2>6. QED
    BY <2>4, <2>5 DEF OverlayInv
<1>7. CASE UNCHANGED vars
  BY <1>7 DEF vars, OverlayInv, UnsettledUnserved, DeferredListed, SummaryServesDeferred
<1>8. ASSUME NEW r \in Runs, Dispatch(r) PROVE OverlayInv'
  BY <1>0, <1>8, DispatchServes
<1>9. CASE AccountStep
  BY <1>0, <1>1, <1>2, <1>9, OthersQuiet DEF AccountStep
<1>10. ASSUME NEW r \in Runs, PrepareStep(r) \/ RotateBinding(r) PROVE OverlayInv'
  BY <1>0, <1>1, <1>8, <1>10, OthersQuiet DEF PrepareStep
<1>11. ASSUME NEW r \in Runs, MessageStep(r) PROVE OverlayInv'
  <2>1. \/ \E c \in Runs, a \in Accounts, key \in Keys : Delegate(r, c, a, key)
        \/ UNCHANGED otherThanMessages
    BY <1>11 DEF MessageStep, SendMessage, SendTerminal, ReadInbox, ConsumeMessage, UserInstruction
  <2>2. QED
    BY <1>0, <1>1, <2>1, OthersQuiet
<1>12. ASSUME NEW r \in Runs, BackgroundStep(r) PROVE OverlayInv'
  BY <1>4, <1>5, <1>12 DEF BackgroundStep, CatchupResult, CatchupTimeout
<1>13. CASE CompactSpace
  BY <1>0, <1>1, <1>13, OthersQuiet
<1>14. QED
  BY <1>3, <1>6, <1>7, <1>9, <1>10, <1>11, <1>12, <1>13 DEF Next

(* The overlay invariant is inductive, whatever happens to sessions.       *)
THEOREM OverlayInvInductive == Spec => []OverlayInv
<1>1. Init => OverlayInv
  BY DEF Init, OverlayInv, UnsettledUnserved, DeferredListed, SummaryServesDeferred
<1>2. TypeInv /\ CompactInv /\ OverlayInv /\ [Next]_vars => OverlayInv'
  BY OverlayInvStep
<1>3. QED
  BY <1>1, <1>2, TypeInductive, CompactInvInductive, PTL DEF Spec

(* A root deferred behind a background run is listed by a record that will *)
(* still resume it, whatever ends, settles, is served or is revoked in the *)
(* meantime (DeferredListed).                                              *)
THEOREM DeferredAreListed == Spec => []DeferredListed
<1>1. OverlayInv => DeferredListed
  BY DEF OverlayInv
<1>2. QED
  BY <1>1, OverlayInvInductive, PTL

-----------------------------------------------------------------------------
(* Collecting records *)

(* No session of an account is revoked: releaseAccountExecutions ends runs *)
(* without telling the overlay, whose record then collects for no run.     *)
NoRevocation == [][\A a \in Accounts : ~Revoke(a)]_vars

(* Only root runs have records.                                            *)
RecordsOfRoots == \A c \in Runs : catchup[c] # "none" => ~IsChild(c)

CollectingInv == CollectingRuns /\ RecordsOfRoots

(* A step that opens no record and leaves the runs of collecting ones.     *)
CollectingStays ==
    /\ \A c \in Runs : catchup'[c] # "none" => catchup[c] # "none" /\ lineage'[c] = lineage[c]
    /\ \A c \in Runs : catchup'[c] = "collecting" =>
          /\ catchup[c] = "collecting"
          /\ status[c] = "running" => status'[c] = "running"
          /\ outputPolicy[c] = "source" => outputPolicy'[c] = "source"

(* Such a step keeps the invariant of collecting records.                  *)
LEMMA CollectingKept ==
    ASSUME CollectingInv, CollectingStays
    PROVE  CollectingInv'
BY DEF CollectingInv, CollectingRuns, RecordsOfRoots, CollectingStays, IsChild

(* What ends or delays preparations does not touch collecting runs.        *)
LEMMA OthersCollect ==
    ASSUME TypeInv, UnsettledUnserved,
           \/ \E a \in Accounts : \/ Login(a) \/ CompactStart(a)
                                 \/ CompactSucceeds(a) \/ CompactFails(a)
                                 \/ \E r \in Runs : ScheduleRoot(r, a)
           \/ \E r \in Runs : PrepareStep(r) \/ RotateBinding(r)
           \/ \E s, r \in Runs, a \in Accounts, key \in Keys : Delegate(s, r, a, key)
           \/ CompactSpace \/ Restart \/ UNCHANGED otherThanMessages
    PROVE  CollectingStays
<1>0. TypeOK
  BY DEF TypeInv
<1>1. ASSUME UNCHANGED <<catchup, lineage, outputPolicy>>,
             \A x \in Runs : status[x] = "running" => status'[x] = "running"
      PROVE  CollectingStays
  BY <1>1 DEF CollectingStays
<1>2. ASSUME NEW ph, status' = StatusAfter(ph, status)
      PROVE  \A x \in Runs : status[x] = "running" => status'[x] = "running"
  BY <1>2 DEF StatusAfter, FailedIn
<1>3. ASSUME NEW a \in Accounts, Login(a) \/ CompactStart(a) \/ CompactSucceeds(a)
      PROVE  CollectingStays
  BY <1>1, <1>3 DEF Login, CompactStart, CompactSucceeds
<1>4. ASSUME NEW a \in Accounts, CompactFails(a) PROVE CollectingStays
  BY <1>1, <1>2, <1>4 DEF CompactFails
<1>5. ASSUME NEW a \in Accounts, NEW r \in Runs, ScheduleRoot(r, a) PROVE CollectingStays
  <2>1. UNCHANGED <<catchup, lineage, outputPolicy>>
    BY <1>5 DEF ScheduleRoot
  <2>2. QED
    BY <1>1, <1>5, <2>1, ScheduleRootFacts
<1>6. ASSUME NEW r \in Runs, Dispatch(r) PROVE CollectingStays
  <2>1. /\ markDispatched(capCatchup[r], r) /\ UNCHANGED <<lineage, outputPolicy>>
        /\ status' = [status EXCEPT ![r] = "running"]
    BY <1>6 DEF Dispatch
  <2>2. \A c \in Runs : \/ catchup'[c] = catchup[c]
                        \/ catchup[c] \in Settled /\ catchup'[c] = "consumed"
    <3>1. capCatchup[r] # None /\ r \in reserved[capCatchup[r]] =>
              capCatchup[r] \in Runs /\ catchup[capCatchup[r]] \in Settled
      BY <1>0 DEF UnsettledUnserved, TypeOK
    <3>2. QED
      BY <1>0, <2>1, <3>1 DEF markDispatched, TypeOK
  <2>3. \A x \in Runs : status[x] = "running" => status'[x] = "running"
    BY <1>0, <2>1 DEF TypeOK
  <2>4. QED
    BY <2>1, <2>2, <2>3 DEF CollectingStays, Settled
<1>7. ASSUME NEW r \in Runs, PrepareStep(r), ~Dispatch(r) PROVE CollectingStays
  <2>1. UNCHANGED <<catchup, lineage, outputPolicy>>
    BY <1>7 DEF PrepareStep, SessionReady, DispatchBusy, DispatchFails, RetryRoot,
       RetryDropped, RetryChildFails, RetryChildBusy, RetryChildRuns, vars
  <2>2. \A x \in Runs : status[x] = "running" => status'[x] = "running"
    <3>1. CASE SessionReady(r) \/ DispatchBusy(r) \/ RetryDropped(r) \/ RetryChildBusy(r)
      BY <3>1 DEF SessionReady, DispatchBusy, RetryDropped, RetryChildBusy, vars
    <3>2. CASE DispatchFails(r) \/ RetryRoot(r)
      BY <1>2, <3>2 DEF DispatchFails, RetryRoot
    <3>3. CASE RetryChildFails(r) \/ RetryChildRuns(r)
      <4>1. /\ status[r] = "pending"
            /\ \/ status' = [status EXCEPT ![r] = "pending"]
               \/ status' = [status EXCEPT ![r] = "failed"]
               \/ status' = [status EXCEPT ![r] = "running"]
        BY <3>3 DEF RetryChildFails, RetryChildRuns, FailPendingChild
      <4>2. QED
        BY <1>0, <4>1 DEF TypeOK
    <3>4. QED
      BY <1>7, <3>1, <3>2, <3>3 DEF PrepareStep
  <2>3. QED
    BY <1>1, <2>1, <2>2
<1>8. ASSUME NEW r \in Runs, RotateBinding(r) PROVE CollectingStays
  BY <1>1, <1>8 DEF RotateBinding
<1>9. ASSUME NEW s \in Runs, NEW r \in Runs, NEW a \in Accounts, NEW key \in Keys,
             Delegate(s, r, a, key)
      PROVE  CollectingStays
  <2>1. /\ UNCHANGED catchup /\ status[r] = "unused"
        /\ lineage' = [lineage EXCEPT ![r] = Append(lineage[s], s)]
        /\ outputPolicy' = [outputPolicy EXCEPT ![r] = "source"]
    BY <1>9 DEF Delegate
  <2>2. catchup[r] = "none"
    BY <2>1 DEF TypeInv, AccountKnown
  <2>3. \A x \in Runs \ {r} : status'[x] = status[x]
    BY <1>9, DelegateFacts
  <2>4. QED
    BY <1>0, <2>1, <2>2, <2>3 DEF CollectingStays, TypeOK
<1>10. CASE CompactSpace \/ UNCHANGED otherThanMessages
  BY <1>1, <1>10 DEF CompactSpace, otherThanMessages
<1>11. CASE Restart
  BY <1>11 DEF Restart, recoverCatchups, CollectingStays
<1>12. QED
  BY <1>3, <1>4, <1>5, <1>6, <1>7, <1>8, <1>9, <1>10, <1>11

(* The inductive step, while no session is revoked.                        *)
LEMMA CollectingInvStep ==
    ASSUME TypeInv, UnsettledUnserved, CollectingInv, [Next]_vars,
           \A a \in Accounts : ~Revoke(a)
    PROVE  CollectingInv'
<1>0. TypeOK
  BY DEF TypeInv
<1>1. ASSUME CollectingStays PROVE CollectingInv'
  BY <1>1, CollectingKept
<1>2. ASSUME NEW r \in Runs, EndStep(r) PROVE CollectingInv'
  <2>1. EndFrame
    BY <1>2, EndCases
  <2>2. ASSUME NEW base, EndedRows(r, base), NEW x \in Runs, x # r, catchup[x] # "none"
        PROVE  base[x] = status[x]
    BY <2>2 DEF EndedRows, CollectingInv, RecordsOfRoots
  <2>3. CASE EndsAround(r)
    BY <1>1, <2>1, <2>2, <2>3 DEF EndsAround, EndFrame, CollectingStays
  <2>4. CASE EndsWithRecord(r)
    <3>1. PICK final \in Terminal, news \in BOOLEAN, pressed \in BOOLEAN,
               base \in [Runs -> Statuses], ms \in SUBSET Message :
             /\ Settle(r, final, news, pressed, base, ms)
             /\ EndedRows(r, base) /\ base[r] \in Terminal
      BY <2>4 DEF EndsWithRecord
    <3>2. /\ status[r] # "unused"
          /\ catchup' = [catchup EXCEPT ![r] = FinishedStatus(r, final, news)]
      BY <3>1 DEF Settle, EndedRows, Ends
    <3>3. /\ catchup'[r] # "none" => catchup[r] # "none"
          /\ catchup'[r] # "collecting"
          /\ \A x \in Runs \ {r} : catchup'[x] = catchup[x]
      BY <1>0, <3>2 DEF FinishedStatus, TypeOK
    <3>4. \A x \in Runs : base[x] = "running" => status'[x] = "running"
      BY <3>1 DEF Settle, StartRoots, StatusAfter, FailedIn
    <3>5. \A x \in Runs \ {r} : catchup[x] # "none" => base[x] = status[x]
      BY <2>2, <3>1
    <3>6. CollectingStays
      BY <2>1, <3>3, <3>4, <3>5 DEF EndFrame, CollectingStays
    <3>7. QED
      BY <1>1, <3>6
  <2>5. QED
    BY <1>2, <2>3, <2>4, EndCases
<1>3. ASSUME NEW r \in Runs, BackgroundRun(r) PROVE CollectingInv'
  <2>1. /\ UNCHANGED <<status, lineage>> /\ status[r] = "running" /\ ~IsChild(r)
        /\ outputPolicy' = [outputPolicy EXCEPT ![r] = "source"]
        /\ catchup' = [catchup EXCEPT ![r] = "collecting"]
    BY <1>3 DEF BackgroundRun, openRecord, MayBackground
  <2>2. QED
    BY <1>0, <2>1 DEF CollectingInv, CollectingRuns, RecordsOfRoots, IsChild, TypeOK
<1>4. ASSUME NEW c \in Runs, NEW outcome \in {"ready", "failed"}, SettleAwaiting(c, outcome)
      PROVE  CollectingInv'
  <2>1. /\ catchup[c] = "awaiting_result" /\ catchup' = [catchup EXCEPT ![c] = outcome]
        /\ UNCHANGED <<lineage, outputPolicy>>
        /\ \E ph : status' = StatusAfter(ph, status)
    BY <1>4 DEF SettleAwaiting, StartRoots
  <2>2. \A x \in Runs : status[x] = "running" => status'[x] = "running"
    BY <2>1 DEF StatusAfter, FailedIn
  <2>3. /\ catchup'[c] # "collecting" /\ \A x \in Runs \ {c} : catchup'[x] = catchup[x]
    BY <1>0, <2>1 DEF TypeOK
  <2>4. CollectingStays
    BY <2>1, <2>2, <2>3 DEF CollectingStays
  <2>5. QED
    BY <1>1, <2>4
<1>5. CASE UNCHANGED vars
  BY <1>1, <1>5 DEF vars, CollectingStays
<1>6. CASE AccountStep
  BY <1>1, <1>6, OthersCollect DEF AccountStep
<1>7. ASSUME NEW r \in Runs, PrepareStep(r) \/ RotateBinding(r) PROVE CollectingInv'
  BY <1>1, <1>7, OthersCollect
<1>8. ASSUME NEW r \in Runs, MessageStep(r) PROVE CollectingInv'
  <2>1. \/ \E c \in Runs, a \in Accounts, key \in Keys : Delegate(r, c, a, key)
        \/ UNCHANGED otherThanMessages
    BY <1>8 DEF MessageStep, SendMessage, SendTerminal, ReadInbox, ConsumeMessage, UserInstruction
  <2>2. QED
    BY <1>1, <2>1, OthersCollect
<1>9. ASSUME NEW r \in Runs, BackgroundStep(r) PROVE CollectingInv'
  BY <1>3, <1>4, <1>9 DEF BackgroundStep, CatchupResult, CatchupTimeout
<1>10. CASE CompactSpace \/ Restart
  BY <1>1, <1>10, OthersCollect
<1>11. QED
  BY <1>2, <1>5, <1>6, <1>7, <1>8, <1>9, <1>10 DEF Next

(* While no session is revoked the overlay agrees with the runs: a record  *)
(* collects only for a private run that executes, deferred roots are       *)
(* listed, and a summary serves every root that was deferred behind it     *)
(* before it is consumed (OverlayConsistent).                              *)
THEOREM OverlayIsConsistent == Spec /\ NoRevocation => []OverlayConsistent
<1>1. Init => CollectingInv
  BY DEF Init, CollectingInv, CollectingRuns, RecordsOfRoots
<1>2. TypeInv /\ OverlayInv /\ CollectingInv /\ [Next]_vars
        /\ [\A a \in Accounts : ~Revoke(a)]_vars => CollectingInv'
  <2>1. UNCHANGED vars /\ CollectingInv => CollectingInv'
    BY DEF vars, CollectingInv, CollectingRuns, RecordsOfRoots, IsChild
  <2>2. QED
    BY <2>1, CollectingInvStep DEF OverlayInv
<1>3. OverlayInv /\ CollectingInv => OverlayConsistent
  BY DEF OverlayInv, CollectingInv, OverlayConsistent
<1>4. QED
  BY <1>1, <1>2, <1>3, TypeInductive, OverlayInvInductive, PTL DEF Spec, NoRevocation
=============================================================================
