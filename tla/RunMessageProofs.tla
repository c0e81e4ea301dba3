---------------------------- MODULE RunMessageProofs ----------------------------
(***************************************************************************)
(* Proofs about the tree of runs and its private messages: the path of a   *)
(* run is the path of its parent and the parent, a run that completed or   *)
(* was cancelled leaves no active descendant, what was consumed or failed  *)
(* stays so and no row is lost, a tree keeps within its limits, an open    *)
(* message has a reader, and a parent is told of the end of its child.     *)
(***************************************************************************)
EXTENDS RunOverlayProofs, FiniteSetTheorems

USE DEF Statuses, Active, Terminal, IsActive,
        runVars, backgroundVars, accountVars, contextVars, prepVars

-----------------------------------------------------------------------------
(* Paths *)

(* The ancestors of a run were inserted, and their paths are the prefixes  *)
(* of its own.                                                             *)
PathOf(r) ==
    \A i \in 1 .. Len(lineage[r]) :
        /\ status[lineage[r][i]] # "unused"
        /\ Len(lineage[lineage[r][i]]) = i - 1
        /\ \A j \in 1 .. (i - 1) : lineage[lineage[r][i]][j] = lineage[r][j]

(* A run id that was not handed out has no path yet.                       *)
Paths ==
    /\ \A r \in Runs : PathOf(r)
    /\ \A r \in Runs : status[r] = "unused" => lineage[r] = << >>

(* Only a delegation writes a path.                                        *)
LEMMA PathsStay ==
    ASSUME TypeInv, [Next]_vars
    PROVE  \/ UNCHANGED lineage
           \/ \E s, r \in Runs, a \in Accounts, key \in Keys : Delegate(s, r, a, key)
<1>1. CASE AccountStep
  BY <1>1 DEF AccountStep, Login, Revoke, CompactStart, CompactSucceeds, CompactFails,
     ScheduleRoot
<1>2. ASSUME NEW r \in Runs, PrepareStep(r) PROVE UNCHANGED lineage
  BY <1>2 DEF PrepareStep, SessionReady, Dispatch, DispatchBusy, DispatchFails, RetryRoot,
     RetryDropped, RetryChildFails, RetryChildBusy, RetryChildRuns, vars
<1>3. ASSUME NEW r \in Runs, EndStep(r) PROVE UNCHANGED lineage
  BY <1>3, EndCases DEF EndFrame
<1>4. ASSUME NEW s \in Runs, MessageStep(s)
      PROVE  \/ UNCHANGED lineage
             \/ \E r \in Runs, a \in Accounts, key \in Keys : Delegate(s, r, a, key)
  BY <1>4 DEF MessageStep, SendMessage, SendTerminal, ReadInbox, ConsumeMessage,
     UserInstruction, otherThanMessages
<1>5. ASSUME NEW r \in Runs, BackgroundStep(r) PROVE UNCHANGED lineage
  BY <1>5 DEF BackgroundStep, BackgroundRun, CatchupResult, CatchupTimeout, SettleAwaiting
<1>6. ASSUME NEW r \in Runs, RotateBinding(r) PROVE UNCHANGED lineage
  BY <1>6 DEF RotateBinding
<1>7. CASE CompactSpace \/ Restart \/ UNCHANGED vars
  BY <1>7 DEF CompactSpace, Restart, vars
<1>8. QED
  BY <1>1, <1>2, <1>3, <1>4, <1>5, <1>6, <1>7 DEF Next

(* The path that createDelegate gives to a child.                          *)
LEMMA DelegatePath ==
    ASSUME TypeInv, Paths, NEW s \in Runs, NEW r \in Runs, NEW a \in Accounts,
           NEW key \in Keys, Delegate(s, r, a, key)
    PROVE  /\ IsActive(s) /\ s # r /\ status[r] = "unused"
           /\ Depth(s) < MaxDepth
           /\ Cardinality(Children(s)) < MaxChildrenPerRun
           /\ lineage[r] = << >>
           /\ \A x \in Runs \ {r} : lineage'[x] = lineage[x]
           /\ Len(lineage'[r]) = Len(lineage[s]) + 1
           /\ lineage'[r][Len(lineage[s]) + 1] = s
           /\ \A i \in 1 .. Len(lineage[s]) : lineage'[r][i] = lineage[s][i]
<1>1. /\ status[r] = "unused"
      /\ lineage' = [lineage EXCEPT ![r] = Append(lineage[s], s)]
      /\ AsksToDelegate(s) /\ MayDelegate(s, a, key)
  BY DEF Delegate
<1>2. IsActive(s)
  BY <1>1 DEF AsksToDelegate, HasAuthority
<1>3. lineage[s] \in Seq(Runs) /\ lineage'[r] = Append(lineage[s], s)
  BY <1>1 DEF TypeInv, TypeOK
<1>4. QED
  BY <1>1, <1>2, <1>3 DEF MayDelegate, Paths, TypeInv, TypeOK

(* Paths stay paths: a child gets the path of its parent and the parent.   *)
LEMMA PathsStep ==
    ASSUME TypeInv, Paths, [Next]_vars
    PROVE  Paths'
<1>1. UsedStay
  BY RowsStay
<1>2. CASE UNCHANGED lineage
  <2>1. \A r \in Runs : \A i \in 1 .. Len(lineage[r]) : lineage[r][i] \in Runs
    BY DEF TypeInv, TypeOK
  <2>2. QED
    BY <1>1, <1>2, <2>1 DEF Paths, PathOf, UsedStay
<1>3. ASSUME NEW s \in Runs, NEW r \in Runs, NEW a \in Accounts, NEW key \in Keys,
             Delegate(s, r, a, key)
      PROVE  Paths'
  <2>1. /\ IsActive(s) /\ s # r /\ status[r] = "unused"
        /\ lineage[r] = << >>
        /\ \A x \in Runs \ {r} : lineage'[x] = lineage[x]
        /\ Len(lineage'[r]) = Len(lineage[s]) + 1
        /\ lineage'[r][Len(lineage[s]) + 1] = s
        /\ \A i \in 1 .. Len(lineage[s]) : lineage'[r][i] = lineage[s][i]
    BY <1>3, DelegatePath
  <2>2. /\ \A x \in Runs : Len(lineage[x]) \in Nat
        /\ \A x \in Runs : \A i \in 1 .. Len(lineage[x]) : lineage[x][i] \in Runs
    <3>1. \A x \in Runs : lineage[x] \in Seq(Runs)
      BY DEF TypeInv, TypeOK
    <3>2. QED
      BY <3>1
  <2>3. ASSUME NEW x \in Runs \ {r} PROVE PathOf(x)'
    <3>1. \A i \in 1 .. Len(lineage[x]) : lineage[x][i] \in Runs \ {r}
      BY <2>1, <2>2 DEF Paths, PathOf
    <3>2. lineage'[x] = lineage[x]
      BY <2>1
    <3>3. SUFFICES ASSUME NEW i \in 1 .. Len(lineage[x])
                   PROVE  /\ status'[lineage[x][i]] # "unused"
                          /\ Len(lineage'[lineage[x][i]]) = i - 1
                          /\ \A j \in 1 .. (i - 1) :
                                 lineage'[lineage[x][i]][j] = lineage[x][j]
      BY <3>2 DEF PathOf
    <3> DEFINE b == lineage[x][i]
    <3>4. b \in Runs \ {r} /\ lineage'[b] = lineage[b]
      BY <2>1, <3>1
    <3>5. /\ status[b] # "unused"
          /\ Len(lineage[b]) = i - 1
          /\ \A j \in 1 .. (i - 1) : lineage[b][j] = lineage[x][j]
      BY DEF Paths, PathOf
    <3> HIDE DEF b
    <3>6. status'[b] # "unused"
      BY <1>1, <3>4, <3>5 DEF UsedStay
    <3>7. QED
      BY <3>4, <3>5, <3>6 DEF b
  <2>4. PathOf(r)'
    <3>1. \A i \in 1 .. Len(lineage[s]) : lineage[s][i] \in Runs \ {r}
      BY <2>1, <2>2 DEF Paths, PathOf
    <3>2. status'[s] # "unused" /\ PathOf(s)
      BY <1>1, <2>1 DEF UsedStay, Paths
    <3>3. SUFFICES ASSUME NEW i \in 1 .. (Len(lineage[s]) + 1)
                   PROVE  /\ status'[lineage'[r][i]] # "unused"
                          /\ Len(lineage'[lineage'[r][i]]) = i - 1
                          /\ \A j \in 1 .. (i - 1) :
                                 lineage'[lineage'[r][i]][j] = lineage'[r][j]
      BY <2>1 DEF PathOf
    <3>4. CASE i = Len(lineage[s]) + 1
      BY <2>1, <2>2, <3>2, <3>4
    <3>5. CASE i \in 1 .. Len(lineage[s])
      <4> DEFINE b == lineage[s][i]
      <4>1. b \in Runs \ {r} /\ lineage'[b] = lineage[b] /\ lineage'[r][i] = b
        BY <2>1, <3>1, <3>5
      <4>2. /\ status[b] # "unused"
            /\ Len(lineage[b]) = i - 1
            /\ \A j \in 1 .. (i - 1) : lineage[b][j] = lineage[s][j]
        BY <3>2, <3>5 DEF PathOf
      <4>3. \A j \in 1 .. (i - 1) : lineage'[r][j] = lineage[s][j]
        BY <2>1, <2>2, <3>5
      <4> HIDE DEF b
      <4>4. status'[b] # "unused"
        BY <1>1, <4>1, <4>2 DEF UsedStay
      <4>5. QED
        BY <4>1, <4>2, <4>3, <4>4
    <3>6. QED
      BY <2>2, <3>4, <3>5
  <2>5. status'[r] # "unused"
    BY <1>3, DelegateFacts
  <2>6. \A x \in Runs : status'[x] = "unused" => lineage'[x] = << >>
    BY <1>1, <2>1, <2>5 DEF UsedStay, Paths
  <2>7. QED
    BY <2>3, <2>4, <2>6 DEF Paths
<1>4. QED
  BY <1>2, <1>3, PathsStay

(* In every reachable state the ancestors of a run are inserted runs whose *)
(* own ancestors are the ones before them on its path.                     *)
THEOREM PathsInductive == Spec => []Paths
<1>1. Init => Paths
  BY DEF Init, Paths, PathOf
<1>2. QED
  BY <1>1, PathsStep, TypeInductive, PTL DEF Spec

(* What the walk along parentRunId relies on: the ancestors of an ancestor *)
(* are ancestors, nearer to the root, and of the same root.                *)
LEMMA AncestorFacts ==
    ASSUME TypeInv, Paths, NEW x \in Runs, NEW a \in Runs, IsAncestor(a, x)
    PROVE  /\ status[a] # "unused" /\ a # x
           /\ Depth(a) \in Nat /\ Depth(x) \in Nat /\ Depth(a) < Depth(x)
           /\ Ancestors(a) \subseteq Ancestors(x)
           /\ RootOf(a) = RootOf(x)
<1>1. PICK i \in 1 .. Len(lineage[x]) : a = lineage[x][i]
  BY DEF IsAncestor, Ancestors
<1>2. /\ status[a] # "unused"
      /\ Len(lineage[a]) = i - 1
      /\ \A j \in 1 .. (i - 1) : lineage[a][j] = lineage[x][j]
  BY <1>1 DEF Paths, PathOf
<1>3. lineage[a] \in Seq(Runs) /\ lineage[x] \in Seq(Runs)
  BY DEF TypeInv, TypeOK
<1>4. Ancestors(a) \subseteq Ancestors(x)
  BY <1>1, <1>2, <1>3 DEF Ancestors
<1>5. Depth(a) \in Nat /\ Depth(x) \in Nat /\ Depth(a) < Depth(x)
  BY <1>1, <1>2, <1>3 DEF Depth
<1>6. RootOf(a) = RootOf(x)
  <2>1. lineage[x] # << >>
    BY <1>1, <1>3
  <2>2. CASE i = 1
    BY <1>1, <1>2, <1>3, <2>1, <2>2 DEF RootOf, IsChild
  <2>3. CASE i # 1
    <3>1. lineage[a] # << >> /\ lineage[a][1] = lineage[x][1]
      BY <1>1, <1>2, <1>3, <2>3
    <3>2. QED
      BY <2>1, <3>1 DEF RootOf, IsChild
  <2>4. QED
    BY <2>2, <2>3
<1>7. QED
  BY <1>2, <1>4, <1>5, <1>6

-----------------------------------------------------------------------------
(* A run that completed or was cancelled leaves nobody behind *)

(* The step ends runs only by failure, starts none that has ancestors, and *)
(* leaves the tree alone.                                                  *)
TreeUndisturbed ==
    /\ UNCHANGED lineage
    /\ \A x \in Runs : /\ IsActive(x)' => IsActive(x) \/ ~IsChild(x)
                       /\ \/ status'[x] = status[x]
                          \/ status'[x] \in Active \cup {"failed"}

(* Such a step keeps ended subtrees quiet.                                 *)
LEMMA UndisturbedQuiet ==
    ASSUME TypeInv, Paths, EndedSubtreeQuiet, TreeUndisturbed
    PROVE  EndedSubtreeQuiet'
<1>1. SUFFICES ASSUME NEW r \in Runs, status'[r] \in {"completed", "cancelled"},
                      NEW d \in Runs, IsActive(d)', IsAncestor(r, d)'
               PROVE  FALSE
  BY DEF EndedSubtreeQuiet, ActiveDescendants, ActiveRuns
<1>2. status[r] \in {"completed", "cancelled"}
  BY <1>1 DEF TreeUndisturbed
<1>3. IsAncestor(r, d)
  BY <1>1 DEF TreeUndisturbed, IsAncestor, Ancestors
<1>4. IsChild(d)
  BY <1>3 DEF IsAncestor, Ancestors, IsChild, TypeInv, TypeOK
<1>5. IsActive(d)
  BY <1>1, <1>4 DEF TreeUndisturbed
<1>6. QED
  BY <1>2, <1>3, <1>5 DEF EndedSubtreeQuiet, ActiveDescendants, ActiveRuns

(* failPending ends by failure.                                            *)
LEMMA OutcomeFails ==
    ASSUME NEW ph, NEW base
    PROVE  \A x \in Runs : \/ StatusAfter(ph, base)[x] = base[x]
                           \/ base[x] = "pending" /\ StatusAfter(ph, base)[x] = "failed"
BY DEF StatusAfter, FailedIn

(* Most steps leave ended subtrees alone.                                  *)
LEMMA OthersUndisturb ==
    ASSUME TypeInv, Paths, [Next]_vars
    PROVE  \/ TreeUndisturbed
           \/ \E r \in Runs : EndStep(r)
           \/ \E s, r \in Runs, a \in Accounts, key \in Keys : Delegate(s, r, a, key)
<1>1. ASSUME NEW a \in Accounts,
             Login(a) \/ Revoke(a) \/ CompactStart(a) \/ CompactSucceeds(a)
      PROVE  TreeUndisturbed
  BY <1>1 DEF Login, Revoke, releaseAccountExecutions, CompactStart, CompactSucceeds,
     TreeUndisturbed
<1>2. ASSUME NEW a \in Accounts, CompactFails(a) PROVE TreeUndisturbed
  <2>1. UNCHANGED lineage /\ \E ph : status' = StatusAfter(ph, status)
    BY <1>2 DEF CompactFails
  <2>2. QED
    BY <2>1, OutcomeFails DEF TreeUndisturbed
<1>3. ASSUME NEW a \in Accounts, NEW r \in Runs, ScheduleRoot(r, a) PROVE TreeUndisturbed
  <2>1. UNCHANGED lineage
    BY <1>3 DEF ScheduleRoot
  <2>2. /\ status[r] = "unused" /\ status'[r] \in {"pending", "failed"}
        /\ \A x \in Runs \ {r} : status'[x] = status[x]
    BY <1>3, ScheduleRootFacts
  <2>3. ~IsChild(r)
    BY <2>2 DEF Paths, IsChild
  <2>4. QED
    BY <2>1, <2>2, <2>3 DEF TreeUndisturbed
<1>4. ASSUME NEW r \in Runs, PrepareStep(r) PROVE TreeUndisturbed
  <2>1. CASE SessionReady(r) \/ DispatchBusy(r) \/ RetryDropped(r) \/ RetryChildBusy(r)
    BY <2>1 DEF SessionReady, DispatchBusy, RetryDropped, RetryChildBusy, vars,
       TreeUndisturbed
  <2>2. CASE DispatchFails(r) \/ RetryRoot(r)
    <3>1. UNCHANGED lineage /\ \E ph : status' = StatusAfter(ph, status)
      BY <2>2 DEF DispatchFails, RetryRoot
    <3>2. QED
      BY <3>1, OutcomeFails DEF TreeUndisturbed
  <2>3. CASE Dispatch(r) \/ RetryChildRuns(r)
    <3>1. IsActive(r) /\ status' = [status EXCEPT ![r] = "running"] /\ UNCHANGED lineage
      BY <2>3, ClaimFacts DEF Dispatch, RetryChildRuns
    <3>2. QED
      BY <3>1 DEF TreeUndisturbed, TypeInv, TypeOK
  <2>4. CASE RetryChildFails(r)
    <3>1. /\ status[r] = "pending" /\ UNCHANGED lineage
          /\ \/ status' = [status EXCEPT ![r] = "failed"]
             \/ status' = [status EXCEPT ![r] = "pending"]
      BY <2>4 DEF RetryChildFails, FailPendingChild
    <3>2. QED
      BY <3>1 DEF TreeUndisturbed, TypeInv, TypeOK
  <2>5. QED
    BY <1>4, <2>1, <2>2, <2>3, <2>4 DEF PrepareStep
<1>5. ASSUME NEW s \in Runs, MessageStep(s)
      PROVE  \/ TreeUndisturbed
             \/ \E r \in Runs, a \in Accounts, key \in Keys : Delegate(s, r, a, key)
  BY <1>5 DEF MessageStep, SendMessage, SendTerminal, ReadInbox, ConsumeMessage,
     UserInstruction, otherThanMessages, TreeUndisturbed
<1>6. ASSUME NEW r \in Runs, BackgroundStep(r) PROVE TreeUndisturbed
  <2>1. CASE BackgroundRun(r)
    BY <2>1 DEF BackgroundRun, TreeUndisturbed
  <2>2. ASSUME NEW outcome, SettleAwaiting(r, outcome) PROVE TreeUndisturbed
    <3>1. UNCHANGED lineage /\ \E ph : status' = StatusAfter(ph, status)
      BY <2>2 DEF SettleAwaiting, StartRoots
    <3>2. QED
      BY <3>1, OutcomeFails DEF TreeUndisturbed
  <2>3. QED
    BY <1>6, <2>1, <2>2 DEF BackgroundStep, CatchupResult, CatchupTimeout
<1>7. ASSUME NEW r \in Runs, RotateBinding(r) PROVE TreeUndisturbed
  BY <1>7 DEF RotateBinding, TreeUndisturbed
<1>8. CASE CompactSpace \/ Restart \/ UNCHANGED vars
  BY <1>8 DEF CompactSpace, Restart, vars, TreeUndisturbed
<1>9. QED
  BY <1>1, <1>2, <1>3, <1>4, <1>5, <1>6, <1>7, <1>8 DEF Next, AccountStep

(* A run ends as part of a set T of active runs that contains, with each   *)
(* of its runs, the active descendants of that run.                        *)
ClosedBelow(T) ==
    /\ T \subseteq ActiveRuns
    /\ \A x \in T : ActiveDescendants(x) \subseteq T

(* The subtree of a run is such a set, with or without the run itself.     *)
LEMMA SubtreeClosed ==
    ASSUME TypeInv, Paths, NEW r \in Runs
    PROVE  /\ ClosedBelow(ActiveDescendants(r))
           /\ IsActive(r) => ClosedBelow({r} \cup ActiveDescendants(r))
<1>1. ASSUME NEW x \in ActiveDescendants(r), NEW d \in ActiveDescendants(x)
      PROVE  d \in ActiveDescendants(r)
  <2>1. x \in Runs /\ d \in Runs /\ IsAncestor(r, x) /\ IsAncestor(x, d) /\ d \in ActiveRuns
    BY <1>1 DEF ActiveDescendants, ActiveRuns
  <2>2. Ancestors(x) \subseteq Ancestors(d)
    BY <2>1, AncestorFacts
  <2>3. QED
    BY <2>1, <2>2 DEF ActiveDescendants, IsAncestor
<1>2. ActiveDescendants(r) \subseteq ActiveRuns
  BY DEF ActiveDescendants
<1>3. QED
  BY <1>1, <1>2 DEF ClosedBelow, ActiveRuns

(* The end of such a set, deepest first, also when it stops half way.      *)
LEMMA EndSubtreeQuiet ==
    ASSUME TypeInv, Paths, EndedSubtreeQuiet, NEW r \in Runs, NEW T, ClosedBelow(T),
           NEW final \in {"failed", "cancelled"}, NEW news \in BOOLEAN,
           EndSubtree(r, T, final, news)
    PROVE  EndedSubtreeQuiet'
<1>1. PICK done \in SUBSET T :
        LET base == [x \in Runs |-> IF x \notin done THEN status[x]
                                    ELSE IF x = r THEN final ELSE "cancelled"]
            ms   == FailRecipient(runMessages \cup Notices(done, "blocked"), done)
        IN  /\ EndedPrefix(T, RootOf(r), done)
            /\ \/ Settle(r, final, news, pressure[account[r]], base, ms)
               \/ status' = base
            /\ UNCHANGED lineage
  BY DEF EndSubtree
<1> DEFINE base == [x \in Runs |-> IF x \notin done THEN status[x]
                                   ELSE IF x = r THEN final ELSE "cancelled"]
<1>2. \A x \in Runs : \/ status'[x] = base[x]
                      \/ base[x] = "pending" /\ status'[x] = "failed"
  <2> DEFINE ms == FailRecipient(runMessages \cup Notices(done, "blocked"), done)
  <2>1. status' = base \/ \E ph : status' = StatusAfter(ph, base)
    <3> HIDE DEF base, ms
    <3>1. status' = base \/ Settle(r, final, news, pressure[account[r]], base, ms)
      BY <1>1 DEF base, ms
    <3>2. QED
      BY <3>1 DEF Settle, StartRoots
  <2> HIDE DEF base, ms
  <2>2. QED
    BY <2>1, OutcomeFails
<1>3. SUFFICES ASSUME NEW x \in Runs, status'[x] \in {"completed", "cancelled"},
                      NEW d \in Runs, IsActive(d)', IsAncestor(x, d)'
               PROVE  FALSE
  BY DEF EndedSubtreeQuiet, ActiveDescendants, ActiveRuns
<1>4. IsActive(d) /\ d \notin done
  BY <1>2, <1>3
<1>5. IsAncestor(x, d)
  BY <1>1, <1>3 DEF IsAncestor, Ancestors
<1>6. CASE x \in done
  <2>1. d \in T
    BY <1>4, <1>5, <1>6 DEF ClosedBelow, ActiveDescendants, ActiveRuns
  <2>2. Depth(x) >= Depth(d)
    BY <1>1, <1>4, <1>6, <2>1 DEF EndedPrefix
  <2>3. Depth(x) \in Nat /\ Depth(d) \in Nat /\ Depth(x) < Depth(d)
    BY <1>5, AncestorFacts
  <2>4. QED
    BY <2>2, <2>3
<1>7. CASE x \notin done
  <2>1. status[x] \in {"completed", "cancelled"}
    BY <1>2, <1>3, <1>7
  <2>2. QED
    BY <1>4, <1>5, <2>1 DEF EndedSubtreeQuiet, ActiveDescendants, ActiveRuns
<1>8. QED
  BY <1>6, <1>7

(* updateRun and cancelRun wait for, or end, the subtree first.            *)
LEMMA EndStepQuiet ==
    ASSUME TypeInv, Paths, EndedSubtreeQuiet, NEW r \in Runs, EndStep(r)
    PROVE  EndedSubtreeQuiet'
<1>1. ASSUME NEW usage \in {"none", "low", "high"}, NEW news \in BOOLEAN,
             CompleteRun(r, usage, news)
      PROVE  EndedSubtreeQuiet'
  <2> DEFINE base == [status EXCEPT ![r] = "completed"]
  <2>1. /\ UNCHANGED lineage /\ status[r] = "running" /\ ActiveDescendants(r) = {}
        /\ \/ status' = status
           \/ \E pressed, ms : Settle(r, "completed", news, pressed, base, ms)
    BY <1>1 DEF CompleteRun, HasAuthority
  <2>2. \A x \in Runs : x # r => base[x] = status[x]
    BY DEF TypeInv, TypeOK
  <2>3. base[r] = "completed"
    BY DEF TypeInv, TypeOK
  <2> HIDE DEF base
  <2>4. CASE status' = status
    BY <2>1, <2>4 DEF EndedSubtreeQuiet, ActiveDescendants, ActiveRuns, IsAncestor, Ancestors
  <2>5. CASE \E pressed, ms : Settle(r, "completed", news, pressed, base, ms)
    <3>1. \E ph : status' = StatusAfter(ph, base)
      BY <2>5 DEF Settle, StartRoots
    <3>2. \A x \in Runs : \/ status'[x] = base[x]
                          \/ base[x] = "pending" /\ status'[x] = "failed"
      BY <3>1, OutcomeFails
    <3>3. SUFFICES ASSUME NEW x \in Runs, status'[x] \in {"completed", "cancelled"},
                          NEW d \in Runs, IsActive(d)', IsAncestor(x, d)'
                   PROVE  FALSE
      BY DEF EndedSubtreeQuiet, ActiveDescendants, ActiveRuns
    <3>4. IsActive(d) /\ IsAncestor(x, d)
      BY <2>1, <2>2, <2>3, <3>2, <3>3 DEF IsAncestor, Ancestors
    <3>5. x = r \/ status[x] \in {"completed", "cancelled"}
      BY <2>2, <3>2, <3>3
    <3>6. QED
      BY <2>1, <3>4, <3>5 DEF EndedSubtreeQuiet, ActiveDescendants, ActiveRuns
  <2>6. QED
    BY <2>1, <2>4, <2>5
<1>2. ASSUME NEW final \in {"failed", "cancelled"}, NEW news \in BOOLEAN, EndRun(r, final, news)
      PROVE  EndedSubtreeQuiet'
  <2>1. IsActive(r) /\ EndSubtree(r, {r} \cup ActiveDescendants(r), final, news)
    BY <1>2 DEF EndRun, HasAuthority
  <2>2. QED
    BY <2>1, SubtreeClosed, EndSubtreeQuiet
<1>3. ASSUME NEW news \in BOOLEAN, CancelRequest(r, news)
      PROVE  EndedSubtreeQuiet'
  <2> DEFINE T == ({r} \cap ActiveRuns) \cup ActiveDescendants(r)
  <2>1. EndSubtree(r, T, "cancelled", news)
    BY <1>3 DEF CancelRequest
  <2>2. ClosedBelow(T)
    <3>1. CASE IsActive(r)
      BY <3>1, SubtreeClosed DEF ActiveRuns
    <3>2. CASE ~IsActive(r)
      <4>1. T = ActiveDescendants(r)
        BY <3>2 DEF ActiveRuns
      <4> HIDE DEF T
      <4>2. QED
        BY <4>1, SubtreeClosed
    <3>3. QED
      BY <3>1, <3>2
  <2> HIDE DEF T
  <2>3. QED
    BY <2>1, <2>2, EndSubtreeQuiet
<1>4. QED
  BY <1>1, <1>2, <1>3 DEF EndStep

(* No run that completed or was cancelled has an active descendant, also   *)
(* when a cancellation stops half way, a child is delegated meanwhile, or  *)
(* a session is revoked under a tree (EndedSubtreeQuiet).                  *)
THEOREM SubtreesEndFirst == Spec => []EndedSubtreeQuiet
<1>1. Init => EndedSubtreeQuiet
  BY DEF Init, EndedSubtreeQuiet
<1>2. TypeInv /\ Paths /\ EndedSubtreeQuiet /\ [Next]_vars => EndedSubtreeQuiet'
  <2> SUFFICES ASSUME TypeInv, Paths, EndedSubtreeQuiet, [Next]_vars
               PROVE  EndedSubtreeQuiet'
    OBVIOUS
  <2>1. CASE TreeUndisturbed
    BY <2>1, UndisturbedQuiet
  <2>2. ASSUME NEW r \in Runs, EndStep(r) PROVE EndedSubtreeQuiet'
    BY <2>2, EndStepQuiet
  <2>3. ASSUME NEW s \in Runs, NEW r \in Runs, NEW a \in Accounts, NEW key \in Keys,
               Delegate(s, r, a, key)
        PROVE  EndedSubtreeQuiet'
    <3>1. /\ IsActive(s) /\ s # r /\ status[r] = "unused"
          /\ \A x \in Runs \ {r} : lineage'[x] = lineage[x]
          /\ Len(lineage'[r]) = Len(lineage[s]) + 1
          /\ lineage'[r][Len(lineage[s]) + 1] = s
          /\ \A i \in 1 .. Len(lineage[s]) : lineage'[r][i] = lineage[s][i]
      BY <2>3, DelegatePath
    <3>2. /\ status'[r] \in {"pending", "failed", "running"}
          /\ \A x \in Runs \ {r} : status'[x] = status[x]
      BY <2>3, DelegateFacts
    <3>3. SUFFICES ASSUME NEW x \in Runs, status'[x] \in {"completed", "cancelled"},
                          NEW d \in Runs, IsActive(d)', IsAncestor(x, d)'
                   PROVE  FALSE
      BY DEF EndedSubtreeQuiet, ActiveDescendants, ActiveRuns
    <3>4. x # r /\ status[x] \in {"completed", "cancelled"}
      BY <3>2, <3>3
    <3>5. CASE d = r
      <4>1. Len(lineage[s]) \in Nat
        BY DEF TypeInv, TypeOK
      <4>2. x = s \/ IsAncestor(x, s)
        BY <3>1, <3>3, <3>5, <4>1 DEF IsAncestor, Ancestors
      <4>3. QED
        BY <3>1, <3>4, <4>2 DEF EndedSubtreeQuiet, ActiveDescendants, ActiveRuns
    <3>6. CASE d # r
      <4>1. IsActive(d) /\ IsAncestor(x, d)
        BY <3>1, <3>2, <3>3, <3>6 DEF IsAncestor, Ancestors
      <4>2. QED
        BY <3>4, <4>1 DEF EndedSubtreeQuiet, ActiveDescendants, ActiveRuns
    <3>7. QED
      BY <3>5, <3>6
  <2>4. QED
    BY <2>1, <2>2, <2>3, OthersUndisturb
<1>3. QED
  BY <1>1, <1>2, TypeInductive, PathsInductive, PTL DEF Spec

-----------------------------------------------------------------------------
(* Deliveries that go on *)

(* The row n is the row m, except that its delivery may have gone on.      *)
GoesOn(m, n) ==
    /\ n \in Message
    /\ n.from = m.from /\ n.to = m.to /\ n.kind = m.kind /\ n.key = m.key
    /\ m.state \notin OpenStates => n = m

(* The rows ms are the rows of old, whose deliveries may have gone on.     *)
Advance(old, ms) ==
    \E f \in [old -> Message] :
        /\ \A m \in old : GoesOn(m, f[m])
        /\ ms = {f[m] : m \in old}

(* No row of ms waits for a run of E.                                      *)
Closed(ms, E) == \A m \in ms : m.to \in E => m.state \notin OpenStates

(* What Advance says of single rows.                                       *)
LEMMA AdvanceFacts ==
    ASSUME NEW old \in SUBSET Message, NEW ms, Advance(old, ms)
    PROVE  /\ ms \subseteq Message
           /\ \A m \in old : \E n \in ms : GoesOn(m, n)
           /\ \A n \in ms : \E m \in old : GoesOn(m, n)
BY DEF Advance

(* Rows may stay as they are.                                              *)
LEMMA AdvanceNone ==
    ASSUME NEW old \in SUBSET Message
    PROVE  Advance(old, old)
<1> DEFINE f == [m \in old |-> m]
<1>1. f \in [old -> Message] /\ old = {f[m] : m \in old}
  OBVIOUS
<1>2. \A m \in old : GoesOn(m, f[m])
  BY DEF GoesOn
<1>3. QED
  BY <1>1, <1>2 DEF Advance

(* Two changes of deliveries make one.                                     *)
LEMMA AdvanceTwice ==
    ASSUME NEW old \in SUBSET Message, NEW mid, NEW ms, Advance(old, mid), Advance(mid, ms)
    PROVE  Advance(old, ms)
<1>1. PICK f \in [old -> Message] :
          /\ \A m \in old : GoesOn(m, f[m])
          /\ mid = {f[m] : m \in old}
  BY DEF Advance
<1>2. PICK g \in [mid -> Message] :
          /\ \A m \in mid : GoesOn(m, g[m])
          /\ ms = {g[m] : m \in mid}
  BY DEF Advance
<1> DEFINE h == [m \in old |-> g[f[m]]]
<1>3. h \in [old -> Message] /\ ms = {h[m] : m \in old}
  BY <1>1, <1>2
<1>4. \A m \in old : GoesOn(m, h[m])
  BY <1>1, <1>2 DEF GoesOn
<1>5. QED
  BY <1>3, <1>4 DEF Advance

(* Rows that are open may get any state.                                   *)
LEMMA SetStateAdvances ==
    ASSUME NEW old \in SUBSET Message, NEW sel,
           \A m \in old : m \in sel => m.state \in OpenStates,
           NEW s \in OpenStates \cup {"consumed", "failed"}
    PROVE  Advance(old, SetState(old, sel, s))
<1> DEFINE f == [m \in old |-> IF m \in sel THEN WithState(m, s) ELSE m]
<1>1. SetState(old, sel, s) = {f[m] : m \in old}
  BY DEF SetState
<1>2. \A m \in old : GoesOn(m, f[m])
  BY DEF GoesOn, WithState, Message
<1>3. f \in [old -> Message]
  BY <1>2 DEF GoesOn
<1>4. QED
  BY <1>1, <1>2, <1>3 DEF Advance

(* failRecipient closes the inboxes of ended runs.                         *)
LEMMA FailRecipientAdvances ==
    ASSUME NEW old \in SUBSET Message, NEW E
    PROVE  /\ Advance(old, FailRecipient(old, E))
           /\ Closed(FailRecipient(old, E), E)
<1>1. Advance(old, FailRecipient(old, E))
  BY SetStateAdvances DEF FailRecipient, OpenFor
<1>2. Closed(FailRecipient(old, E), E)
  BY DEF Closed, FailRecipient, SetState, OpenFor, WithState, OpenStates, Message
<1>3. QED
  BY <1>1, <1>2

(* An inbox that is closed stays closed.                                   *)
LEMMA ClosedStays ==
    ASSUME NEW old \in SUBSET Message, NEW ms, NEW E, Advance(old, ms), Closed(old, E)
    PROVE  Closed(ms, E)
BY AdvanceFacts DEF Closed, GoesOn

(* The inboxes of ended runs, and of others, are closed one after another. *)
LEMMA FailTwice ==
    ASSUME NEW old \in SUBSET Message, NEW D, NEW E
    PROVE  LET ms == FailRecipient(FailRecipient(old, D), E)
           IN  Advance(old, ms) /\ Closed(ms, D \cup E)
<1> DEFINE mid == FailRecipient(old, D)
           ms  == FailRecipient(mid, E)
<1>1. Advance(old, mid) /\ Closed(mid, D)
  BY FailRecipientAdvances
<1>2. mid \in SUBSET Message
  BY <1>1, AdvanceFacts
<1>3. Advance(mid, ms) /\ Closed(ms, E)
  BY <1>2, FailRecipientAdvances
<1> HIDE DEF mid, ms
<1>4. Advance(old, ms) /\ Closed(ms, D)
  BY <1>1, <1>2, <1>3, AdvanceTwice, ClosedStays
<1>5. Advance(old, ms) /\ Closed(ms, D \cup E)
  BY <1>3, <1>4 DEF Closed
<1>6. QED
  BY <1>5 DEF ms, mid

-----------------------------------------------------------------------------
(* The rows of the store *)

(* The ends of a row are inserted runs, or one of them is the user.        *)
EndsKnown ==
    \A m \in runMessages :
        /\ m.from = User => m.to \in Runs
        /\ m.from \in Runs => status[m.from] # "unused"
        /\ m.to \in Runs => status[m.to] # "unused"

(* A child has one packet of its delegation.                               *)
OnePacket ==
    \A m, n \in runMessages :
        m.kind = "delegate" /\ n.kind = "delegate" /\ m.to = n.to => m = n

(* Only results and blocks are sent under the terminal key.                *)
KeysOfKinds ==
    \A m \in runMessages : m.kind \in {"result", "blocked"} \/ m.key \in Keys

UsedRuns == {x \in Runs : status[x] # "unused"}

(* Cardinalities mean something: finitely many runs were inserted.         *)
RowsInv == EndsKnown /\ OnePacket /\ KeysOfKinds /\ IsFiniteSet(UsedRuns)

(* What a step inserts: rows of one tree, which has room for them, and     *)
(* none of them to a run that had ended.                                   *)
Inserted(new) ==
    /\ new \in SUBSET Message /\ IsFiniteSet(new)
    /\ \A m \in new :
        /\ m.from = User => m.to \in Runs
        /\ m.from \in Runs => status'[m.from] # "unused"
        /\ m.to \in Runs => status'[m.to] # "unused" /\ (IsActive(m.to) \/ status[m.to] = "unused")
        /\ m.kind = "delegate" => m.to \in Runs /\ status[m.to] = "unused"
        /\ m.kind \in {"result", "blocked"} \/ m.key \in Keys
    /\ \A m, n \in new : m.kind = "delegate" /\ n.kind = "delegate" => m = n
    /\ new # {} =>
         \E root \in Runs : /\ HasCapacity(root, Cardinality(new))
                            /\ \A m \in new : MessageRoot(m)' = root

(* The runs that a step ends, or inserts as failed.                        *)
JustEnded ==
    {x \in Runs : status'[x] \notin Active \cup {"unused"} /\ status[x] \in Active \cup {"unused"}}

(* A step inserts rows, deliveries go on, and the inboxes of the runs that *)
(* the step ends are closed.                                               *)
RowsStep(new) ==
    /\ Inserted(new)
    /\ Advance(runMessages \cup new, runMessages')
    /\ Closed(runMessages', JustEnded)

(* Nothing is inserted.                                                    *)
LEMMA InsertedNone == Inserted({})
BY FS_EmptySet DEF Inserted

(* A step that leaves the rows alone and ends no run.                      *)
LEMMA QuietRows ==
    ASSUME TypeInv, UNCHANGED runMessages, JustEnded = {}
    PROVE  RowsStep({})
<1>1. Advance(runMessages \cup {}, runMessages')
  BY AdvanceNone DEF TypeInv, TypeOK
<1>2. QED
  BY <1>1, InsertedNone DEF RowsStep, Closed

(* A step that ends runs and fails their inboxes.                          *)
LEMMA FailingRows ==
    ASSUME TypeInv, NEW E, runMessages' = FailRecipient(runMessages, E), JustEnded \subseteq E
    PROVE  RowsStep({})
<1>1. Advance(runMessages, runMessages') /\ Closed(runMessages', E)
  BY FailRecipientAdvances DEF TypeInv, TypeOK
<1>2. runMessages \cup {} = runMessages
  OBVIOUS
<1>3. Closed(runMessages', JustEnded)
  BY <1>1 DEF Closed
<1>4. QED
  BY <1>1, <1>2, <1>3, InsertedNone DEF RowsStep

(* A step of an outcome of preparations.                                   *)
LEMMA OutcomeRows ==
    ASSUME TypeInv, NEW ph, NEW base,
           \A x \in Runs : base[x] # status[x] => status[x] = "unused" /\ base[x] = "pending",
           status' = StatusAfter(ph, base),
           runMessages' = FailRecipient(runMessages, FailedIn(ph, base))
    PROVE  RowsStep({})
<1>1. JustEnded \subseteq FailedIn(ph, base)
  BY DEF JustEnded, StatusAfter
<1>2. QED
  BY <1>1, FailingRows

(* The steps that insert no row, except those of the messages themselves   *)
(* and the ends of runs.                                                   *)
LEMMA PreparingRows ==
    ASSUME TypeInv, RowsInv, NEW r \in Runs,
           \/ SessionReady(r) \/ Dispatch(r) \/ DispatchBusy(r) \/ DispatchFails(r)
           \/ RetryRoot(r) \/ RetryDropped(r) \/ RetryChildBusy(r) \/ RetryChildRuns(r)
           \/ RotateBinding(r) \/ BackgroundStep(r)
    PROVE  RowsStep({})
<1>1. CASE SessionReady(r) \/ DispatchBusy(r) \/ RetryDropped(r) \/ RetryChildBusy(r)
            \/ RotateBinding(r) \/ BackgroundRun(r)
  BY <1>1, QuietRows DEF SessionReady, DispatchBusy, RetryDropped, RetryChildBusy,
     RotateBinding, BackgroundRun, vars, JustEnded
<1>2. CASE Dispatch(r)
  <2>1. UNCHANGED runMessages /\ status' = [status EXCEPT ![r] = "running"]
    BY <1>2 DEF Dispatch
  <2>2. QED
    BY <2>1, QuietRows DEF JustEnded, TypeInv, TypeOK
<1>3. CASE DispatchFails(r) \/ RetryRoot(r)
  <2>1. \E ph : /\ status' = StatusAfter(ph, status)
                /\ runMessages' = FailRecipient(runMessages, FailedIn(ph, status))
    BY <1>3 DEF DispatchFails, RetryRoot
  <2>2. QED
    BY <2>1, OutcomeRows
<1>4. CASE RetryChildRuns(r)
  <2>1. /\ status' = [status EXCEPT ![r] = "running"]
        /\ runMessages' = SetState(runMessages, InitialMessages(r), "consumed")
        /\ \E m \in InitialMessages(r) : m.state \in OpenStates
    BY <1>4 DEF RetryChildRuns, Deliverable
  <2>2. \A m \in InitialMessages(r) : m.state \in OpenStates
    BY <2>1 DEF RowsInv, OnePacket, InitialMessages
  <2>3. Advance(runMessages, runMessages')
    BY <2>1, <2>2, SetStateAdvances DEF TypeInv, TypeOK
  <2>4. JustEnded = {}
    BY <2>1 DEF JustEnded, TypeInv, TypeOK
  <2>5. runMessages \cup {} = runMessages
    OBVIOUS
  <2>6. QED
    BY <2>3, <2>4, <2>5, InsertedNone DEF RowsStep, Closed
<1>5. ASSUME NEW outcome, SettleAwaiting(r, outcome) PROVE RowsStep({})
  <2>1. \E ph : /\ status' = StatusAfter(ph, status)
                /\ runMessages' = FailRecipient(runMessages, FailedIn(ph, status))
    BY <1>5 DEF SettleAwaiting, StartRoots
  <2>2. QED
    BY <2>1, OutcomeRows
<1>6. QED
  BY <1>1, <1>2, <1>3, <1>4, <1>5 DEF BackgroundStep, CatchupResult, CatchupTimeout

(* So do the steps of accounts and of the gateway, but for a revocation.   *)
LEMMA AccountRows ==
    ASSUME TypeInv, RowsInv,
           \/ \E a \in Accounts : Login(a) \/ CompactStart(a) \/ CompactSucceeds(a) \/ CompactFails(a)
           \/ \E a \in Accounts, r \in Runs : ScheduleRoot(r, a)
           \/ CompactSpace \/ Restart \/ UNCHANGED vars
    PROVE  RowsStep({})
<1>1. ASSUME NEW a \in Accounts, Login(a) \/ CompactStart(a) \/ CompactSucceeds(a)
      PROVE  RowsStep({})
  BY <1>1, QuietRows DEF Login, CompactStart, CompactSucceeds, JustEnded
<1>2. ASSUME NEW a \in Accounts, CompactFails(a) PROVE RowsStep({})
  <2>1. \E ph : /\ status' = StatusAfter(ph, status)
                /\ runMessages' = FailRecipient(runMessages, FailedIn(ph, status))
    BY <1>2 DEF CompactFails
  <2>2. QED
    BY <2>1, OutcomeRows
<1>3. ASSUME NEW a \in Accounts, NEW r \in Runs, ScheduleRoot(r, a) PROVE RowsStep({})
  <2> DEFINE base == [status EXCEPT ![r] = "pending"]
  <2>1. \A x \in Runs : base[x] # status[x] => status[x] = "unused" /\ base[x] = "pending"
    BY <1>3 DEF ScheduleRoot, TypeInv, TypeOK
  <2>2. \/ status' = base /\ UNCHANGED runMessages
        \/ \E ph : /\ status' = StatusAfter(ph, base)
                   /\ runMessages' = FailRecipient(runMessages, FailedIn(ph, base))
    BY <1>3 DEF ScheduleRoot, StartRoots
  <2> HIDE DEF base
  <2>3. CASE status' = base /\ UNCHANGED runMessages
    BY <2>1, <2>3, QuietRows DEF JustEnded
  <2>4. QED
    BY <2>1, <2>2, <2>3, OutcomeRows
<1>4. CASE CompactSpace \/ UNCHANGED vars
  BY <1>4, QuietRows DEF CompactSpace, vars, JustEnded
<1>5. CASE Restart
  <2>1. runMessages' = FailRecipient(runMessages, Runs)
    BY <1>5 DEF Restart, FailRecipient
  <2>2. QED
    BY <2>1, FailingRows DEF JustEnded
<1>6. QED
  BY <1>1, <1>2, <1>3, <1>4, <1>5

-----------------------------------------------------------------------------
(* Terminal messages *)

(* The terminal messages of active runs of one tree that has room for      *)
(* them.                                                                   *)
LEMMA NoticesInserted ==
    ASSUME TypeInv, RowsInv, Paths, NEW S \in SUBSET ActiveRuns, NEW root \in Runs,
           \A x \in S : RootOf(x) = root,
           NEW kind \in {"result", "blocked"},
           Notices(S, kind) # {} => HasCapacity(root, Cardinality(Notices(S, kind))),
           UNCHANGED lineage, UsedStay
    PROVE  Inserted(Notices(S, kind))
<1> DEFINE new == Notices(S, kind)
           N == {x \in S : NeedsNotice(x)}
           f == [x \in N |-> Notice(x, kind)]
<1>1. S \subseteq Runs /\ S \subseteq UsedRuns /\ kind \in MessageKinds
  BY DEF ActiveRuns, UsedRuns, MessageKinds
<1>2. new \in SUBSET Message
  BY <1>1, NoticesType DEF TypeInv
<1>3. IsFiniteSet(new)
  <2>1. IsFiniteSet(N)
    BY <1>1, FS_Subset DEF RowsInv
  <2>2. f \in Surjection(N, new)
    BY DEF Surjection, Notices
  <2> HIDE DEF N, f, new
  <2>3. QED
    BY <2>1, <2>2, FS_Surjection
<1>4. ASSUME NEW x \in N
      PROVE  /\ Notice(x, kind).from = x /\ x \in Runs /\ x # User
             /\ Notice(x, kind).kind = kind
             /\ \/ Notice(x, kind).to = User
                \/ Notice(x, kind).to \in Runs /\ IsActive(Notice(x, kind).to)
  <2>1. x \in Runs /\ NeedsNotice(x)
    BY <1>1
  <2>2. IsChild(x) => Parent(x) \in Runs /\ IsActive(Parent(x))
    BY <2>1, ParentType DEF NeedsNotice, TypeInv
  <2>3. QED
    BY <2>1, <2>2, LimitsAssumption DEF Notice, Posted, LimitsAssumption
<1>5. ASSUME NEW m \in new
      PROVE  /\ m.from # User /\ m.from \in Runs /\ status'[m.from] # "unused"
             /\ m.to \in Runs => status'[m.to] # "unused" /\ IsActive(m.to)
             /\ m.kind \in {"result", "blocked"}
             /\ MessageRoot(m)' = root
  <2>1. PICK x \in N : m = Notice(x, kind)
    BY DEF Notices
  <2>2. m.from = x /\ m.from \in S /\ m.from \in Runs /\ m.from # User
    BY <1>4, <2>1
  <2>3. status[m.from] # "unused"
    BY <1>1, <2>2 DEF UsedRuns
  <2>4. m.to \in Runs => IsActive(m.to)
    BY <1>4, <2>1, LimitsAssumption DEF LimitsAssumption
  <2>5. MessageRoot(m)' = root
    BY <2>2 DEF MessageRoot, RootOf, IsChild
  <2>6. QED
    BY <1>4, <2>1, <2>2, <2>3, <2>4, <2>5 DEF UsedStay
<1> HIDE DEF new
<1>6. QED
  BY <1>2, <1>3, <1>5 DEF Inserted, new

(* A run of the subtree of r has the root of r.                            *)
LEMMA SubtreeRoot ==
    ASSUME TypeInv, Paths, NEW r \in Runs
    PROVE  RootOf(r) \in Runs /\ \A x \in {r} \cup ActiveDescendants(r) : RootOf(x) = RootOf(r)
<1>1. RootOf(r) \in Runs
  BY DEF RootOf, IsChild, TypeInv, TypeOK
<1>2. \A x \in ActiveDescendants(r) : RootOf(x) = RootOf(r)
  BY AncestorFacts DEF ActiveDescendants, ActiveRuns
<1>3. QED
  BY <1>1, <1>2

(* What the end of the runs of `done` does, `base` being the status rows   *)
(* before deferred roots resume.                                           *)
Ending(done, base, kind, ms, st) ==
    /\ \A x \in Runs \ done : base[x] = status[x]
    /\ ms = FailRecipient(runMessages \cup Notices(done, kind), done)
    /\ \/ st = base /\ runMessages' = ms
       \/ \E ph : /\ st = StatusAfter(ph, base)
                  /\ runMessages' = FailRecipient(ms, FailedIn(ph, base))

(* Runs end: their terminal messages are written, their inboxes fail.      *)
LEMMA EndingRows ==
    ASSUME TypeInv, NEW done, NEW base, NEW kind, NEW ms, Ending(done, base, kind, ms, status'),
           Inserted(Notices(done, kind))
    PROVE  RowsStep(Notices(done, kind))
<1> DEFINE old == runMessages \cup Notices(done, kind)
<1>1. old \in SUBSET Message
  BY DEF Inserted, TypeInv, TypeOK
<1>2. CASE status' = base /\ runMessages' = ms
  <2>1. JustEnded \subseteq done
    BY <1>2 DEF Ending, JustEnded
  <2>2. runMessages' = FailRecipient(old, done)
    BY <1>2 DEF Ending
  <2> HIDE DEF old
  <2>3. Advance(old, runMessages') /\ Closed(runMessages', done)
    BY <1>1, <2>2, FailRecipientAdvances
  <2>4. Closed(runMessages', JustEnded)
    BY <2>1, <2>3 DEF Closed
  <2>5. QED
    BY <2>3, <2>4 DEF RowsStep, old
<1>3. ASSUME NEW ph, status' = StatusAfter(ph, base),
             runMessages' = FailRecipient(ms, FailedIn(ph, base))
      PROVE  RowsStep(Notices(done, kind))
  <2> DEFINE E == FailedIn(ph, base)
  <2>1. JustEnded \subseteq done \cup E
    BY <1>3 DEF Ending, JustEnded, StatusAfter
  <2>2. runMessages' = FailRecipient(FailRecipient(old, done), E)
    BY <1>3 DEF Ending
  <2> HIDE DEF old, E
  <2>3. Advance(old, runMessages') /\ Closed(runMessages', done \cup E)
    BY <1>1, <2>2, FailTwice
  <2>4. Closed(runMessages', JustEnded)
    BY <2>1, <2>3 DEF Closed
  <2>5. QED
    BY <2>3, <2>4 DEF RowsStep, old
<1>4. QED
  BY <1>2, <1>3 DEF Ending

(* Some runs of T ended and sent their terminal messages; the others, but  *)
(* for a resumed root that failed, are as they were.                       *)
EndedWithin(T) ==
    \E done \in SUBSET T : \E base :
        /\ RowsStep(Notices(done, "blocked"))
        /\ \A x \in Runs : status'[x] = base[x] \/ status'[x] = "failed"
        /\ \A x \in Runs \ done : base[x] = status[x]

(* A subtree ends, or part of it.                                          *)
LEMMA SubtreeRows ==
    ASSUME TypeInv, RowsInv, Paths, UsedStay, NEW r \in Runs, NEW T \in SUBSET ActiveRuns,
           T \subseteq {r} \cup ActiveDescendants(r),
           NEW final \in {"failed", "cancelled"}, NEW news \in BOOLEAN,
           EndSubtree(r, T, final, news)
    PROVE  EndedWithin(T)
<1>1. PICK done \in SUBSET T :
        LET base == [x \in Runs |-> IF x \notin done THEN status[x]
                                    ELSE IF x = r THEN final ELSE "cancelled"]
            ms   == FailRecipient(runMessages \cup Notices(done, "blocked"), done)
        IN  /\ EndedPrefix(T, RootOf(r), done)
            /\ \/ Settle(r, final, news, pressure[account[r]], base, ms)
               \/ status' = base /\ runMessages' = ms
            /\ UNCHANGED lineage
  BY DEF EndSubtree
<1> DEFINE base == [x \in Runs |-> IF x \notin done THEN status[x]
                                   ELSE IF x = r THEN final ELSE "cancelled"]
           ms   == FailRecipient(runMessages \cup Notices(done, "blocked"), done)
<1>2. \A x \in Runs \ done : base[x] = status[x]
  OBVIOUS
<1>3. \/ Settle(r, final, news, pressure[account[r]], base, ms)
      \/ status' = base /\ runMessages' = ms
  BY <1>1
<1>4. ms = FailRecipient(runMessages \cup Notices(done, "blocked"), done)
  OBVIOUS
<1> HIDE DEF base, ms
<1>5. Ending(done, base, "blocked", ms, status')
  BY <1>2, <1>3, <1>4 DEF Ending, Settle, StartRoots
<1>6. Inserted(Notices(done, "blocked"))
  <2>1. UNCHANGED lineage
    BY <1>1
  <2>2. Notices(done, "blocked") # {} =>
            HasCapacity(RootOf(r), Cardinality(Notices(done, "blocked")))
    BY <1>1 DEF EndedPrefix
  <2>3. done \in SUBSET ActiveRuns /\ RootOf(r) \in Runs /\ \A x \in done : RootOf(x) = RootOf(r)
    BY SubtreeRoot
  <2>4. QED
    BY <2>1, <2>2, <2>3, NoticesInserted
<1>7. RowsStep(Notices(done, "blocked"))
  BY <1>5, <1>6, EndingRows
<1>8. \A x \in Runs : status'[x] = base[x] \/ status'[x] = "failed"
  BY <1>5 DEF Ending, StatusAfter
<1>9. QED
  BY <1>2, <1>7, <1>8 DEF EndedWithin

(* A run that the step completes or cancels.                               *)
NewlyQuiet(x) == status'[x] \in {"completed", "cancelled"} /\ status'[x] # status[x]

(* It had sent a terminal message, or it sends one if it has to.           *)
Informs(x, new) ==
    \/ outputPolicy[x] = "source" => HasTerminalMessage(x)
    \/ NeedsNotice(x) => Notice(x, "blocked") \in new

(* Every end of a run inserts the rows it has to, and none that do not fit. *)
LEMMA EndRows ==
    ASSUME TypeInv, RowsInv, Paths, UsedStay, NEW r \in Runs, EndStep(r)
    PROVE  \E new : RowsStep(new) /\ \A x \in Runs : NewlyQuiet(x) => Informs(x, new)
<1>1. ASSUME NEW usage \in {"none", "low", "high"}, NEW news \in BOOLEAN,
             CompleteRun(r, usage, news)
      PROVE  \E new : RowsStep(new) /\ \A x \in Runs : NewlyQuiet(x) => Informs(x, new)
  <2> DEFINE base == [status EXCEPT ![r] = "completed"]
             ms   == FailRecipient(runMessages \cup Notices({r}, "result"), {r})
             new  == Notices({r}, "result")
  <2>1. /\ UNCHANGED lineage /\ status[r] = "running"
        /\ outputPolicy[r] = "source" => HasTerminalMessage(r)
        /\ \/ UNCHANGED <<status, runMessages>>
           \/ /\ NeedsNotice(r) => HasCapacity(RootOf(r), 1)
              /\ \E pressed : Settle(r, "completed", news, pressed, base, ms)
    BY <1>1 DEF CompleteRun, HasAuthority
  <2>2. \A x \in Runs \ {r} : base[x] = status[x]
    BY DEF TypeInv, TypeOK
  <2>3. ms = FailRecipient(runMessages \cup Notices({r}, "result"), {r})
    OBVIOUS
  <2>4. CASE UNCHANGED <<status, runMessages>>
    <3>1. JustEnded = {}
      BY <2>4 DEF JustEnded
    <3>2. RowsStep({})
      BY <2>4, <3>1, QuietRows
    <3>3. \A x \in Runs : ~NewlyQuiet(x)
      BY <2>4 DEF NewlyQuiet
    <3>4. QED
      BY <3>2, <3>3
  <2>5. CASE /\ NeedsNotice(r) => HasCapacity(RootOf(r), 1)
             /\ \E pressed : Settle(r, "completed", news, pressed, base, ms)
    <3> HIDE DEF base, ms
    <3>1. Ending({r}, base, "result", ms, status')
      BY <2>2, <2>3, <2>5 DEF Ending, Settle, StartRoots
    <3>2. new # {} => HasCapacity(RootOf(r), Cardinality(new))
      <4>1. new # {} => NeedsNotice(r) /\ new = {Notice(r, "result")}
        BY DEF Notices
      <4> HIDE DEF new
      <4>2. Cardinality({Notice(r, "result")}) = 1
        BY FS_Singleton
      <4>3. QED
        BY <2>5, <4>1, <4>2
    <3>3. {r} \in SUBSET ActiveRuns /\ RootOf(r) \in Runs
      BY <2>1, SubtreeRoot DEF ActiveRuns
    <3>4. Inserted(new)
      BY <2>1, <3>2, <3>3, NoticesInserted
    <3>5. RowsStep(new)
      BY <3>1, <3>4, EndingRows
    <3>6. \A x \in Runs : NewlyQuiet(x) => x = r
      BY <2>2, <3>1 DEF NewlyQuiet, Ending, StatusAfter
    <3>7. QED
      BY <2>1, <3>5, <3>6 DEF Informs
  <2>6. QED
    BY <2>1, <2>4, <2>5
<1>2. ASSUME NEW T \in SUBSET ActiveRuns, T \subseteq {r} \cup ActiveDescendants(r),
             NEW final \in {"failed", "cancelled"}, NEW news \in BOOLEAN,
             EndSubtree(r, T, final, news)
      PROVE  \E new : RowsStep(new) /\ \A x \in Runs : NewlyQuiet(x) => Informs(x, new)
  <2>1. PICK done \in SUBSET T :
          /\ RowsStep(Notices(done, "blocked"))
          /\ \A x \in Runs \ done : status'[x] = status[x] \/ status'[x] = "failed"
    <3>1. EndedWithin(T)
      BY <1>2, SubtreeRows
    <3>2. QED
      BY <3>1 DEF EndedWithin
  <2>2. ASSUME NEW x \in Runs, NewlyQuiet(x)
        PROVE  Informs(x, Notices(done, "blocked"))
    <3>1. x \in done
      BY <2>1, <2>2 DEF NewlyQuiet
    <3>2. QED
      BY <3>1 DEF Informs, Notices
  <2>3. QED
    BY <2>1, <2>2
<1>3. ASSUME NEW final \in {"failed", "cancelled"}, NEW news \in BOOLEAN, EndRun(r, final, news)
      PROVE  \E new : RowsStep(new) /\ \A x \in Runs : NewlyQuiet(x) => Informs(x, new)
  <2>1. /\ EndSubtree(r, {r} \cup ActiveDescendants(r), final, news)
        /\ {r} \cup ActiveDescendants(r) \in SUBSET ActiveRuns
    BY <1>3 DEF EndRun, HasAuthority, ActiveDescendants, ActiveRuns
  <2>2. QED
    BY <1>2, <2>1
<1>4. ASSUME NEW news \in BOOLEAN, CancelRequest(r, news)
      PROVE  \E new : RowsStep(new) /\ \A x \in Runs : NewlyQuiet(x) => Informs(x, new)
  <2>1. /\ EndSubtree(r, ({r} \cap ActiveRuns) \cup ActiveDescendants(r), "cancelled", news)
        /\ ({r} \cap ActiveRuns) \cup ActiveDescendants(r) \in SUBSET ActiveRuns
    BY <1>4 DEF CancelRequest, ActiveDescendants
  <2>2. QED
    BY <1>2, <2>1
<1>5. QED
  BY <1>1, <1>3, <1>4 DEF EndStep

-----------------------------------------------------------------------------
(* Delegations and messages *)

(* A packet and what else a step inserts by itself: rows of one tree.      *)
LEMMA PostedInserted ==
    ASSUME TypeInv, RowsInv, UsedStay, NEW root \in Runs, NEW new \in SUBSET Message,
           IsFiniteSet(new), HasCapacity(root, Cardinality(new)),
           \A m \in new :
             /\ m.from = User => m.to \in Runs
             /\ m.from \in Runs => status'[m.from] # "unused"
             /\ m.to \in Runs => status'[m.to] # "unused" /\ (IsActive(m.to) \/ status[m.to] = "unused")
             /\ m.kind = "delegate" => m.to \in Runs /\ status[m.to] = "unused"
             /\ m.kind \in {"result", "blocked"} \/ m.key \in Keys
             /\ MessageRoot(m)' = root,
           \A m, n \in new : m.kind = "delegate" /\ n.kind = "delegate" => m = n
    PROVE  Inserted(new)
BY DEF Inserted

(* A single row that a request inserts.                                    *)
LEMMA RequestRows ==
    ASSUME TypeInv, RowsInv, Paths, UsedStay, NEW p \in Message,
           runMessages' = runMessages \cup {p}, UNCHANGED <<status, lineage>>,
           p.kind # "delegate",
           p.kind \in {"result", "blocked"} \/ p.key \in Keys,
           p.from = User => p.to \in Runs,
           p.from \in Runs => IsActive(p.from),
           p.to \in Runs => IsActive(p.to),
           MessageRoot(p) \in Runs, HasCapacity(MessageRoot(p), 1)
    PROVE  RowsStep({p})
<1>1. IsFiniteSet({p}) /\ Cardinality({p}) = 1
  BY FS_Singleton
<1>2. MessageRoot(p)' = MessageRoot(p)
  BY DEF MessageRoot, RootOf, IsChild
<1>3. \A m \in {p} :
        /\ m.from = User => m.to \in Runs
        /\ m.from \in Runs => status'[m.from] # "unused"
        /\ m.to \in Runs => status'[m.to] # "unused" /\ (IsActive(m.to) \/ status[m.to] = "unused")
        /\ m.kind = "delegate" => m.to \in Runs /\ status[m.to] = "unused"
        /\ m.kind \in {"result", "blocked"} \/ m.key \in Keys
        /\ MessageRoot(m)' = MessageRoot(p)
  BY <1>2
<1>4. HasCapacity(MessageRoot(p), Cardinality({p}))
  BY <1>1
<1>5. Inserted({p})
  BY <1>1, <1>3, <1>4, PostedInserted
<1>6. runMessages \cup {p} \in SUBSET Message
  BY DEF TypeInv, TypeOK
<1>7. Advance(runMessages \cup {p}, runMessages')
  BY <1>6, AdvanceNone
<1>8. JustEnded = {}
  BY DEF JustEnded
<1>9. QED
  BY <1>5, <1>7, <1>8 DEF RowsStep, Closed

(* createMessage, by a run that executes.                                  *)
LEMMA SendRows ==
    ASSUME TypeInv, RowsInv, Paths, UsedStay, NEW s \in Runs, NEW to \in Runs \cup {User},
           NEW kind \in SentKinds, NEW key \in Keys \cup {TerminalKey},
           kind \in {"result", "blocked"} \/ key \in Keys,
           SendMessage(s, to, kind, key)
    PROVE  RowsStep({Posted(s, to, kind, key)})
<1> DEFINE p == Posted(s, to, kind, key)
<1>1. kind \in MessageKinds /\ kind # "delegate"
  BY LimitsAssumption DEF LimitsAssumption, MessageKinds
<1>2. p \in Message
  BY <1>1, PostedType
<1>3. /\ IsActive(s) /\ HasCapacity(RootOf(s), 1) /\ MayAddress(s, to, kind)
      /\ runMessages' = runMessages \cup {p}
      /\ UNCHANGED <<status, lineage>>
  BY DEF SendMessage, CreateMessage, HasAuthority, otherThanMessages
<1>4. s # User /\ (to \in Runs => IsActive(to))
  BY <1>3, LimitsAssumption DEF MayAddress, LimitsAssumption
<1>5. p.from = s /\ p.to = to /\ p.kind = kind /\ p.key = key
  BY DEF Posted
<1>6. MessageRoot(p) = RootOf(s) /\ RootOf(s) \in Runs
  BY <1>4, <1>5, SubtreeRoot DEF MessageRoot
<1> HIDE DEF p
<1>7. RowsStep({p})
  BY <1>1, <1>2, <1>3, <1>4, <1>5, <1>6, RequestRows
<1>8. QED
  BY <1>7 DEF p

(* The steps of the messages, but for delegations.                         *)
LEMMA MessageRows ==
    ASSUME TypeInv, RowsInv, Paths, UsedStay, NEW r \in Runs, MessageStep(r)
    PROVE  \/ \E new : RowsStep(new)
           \/ \E c \in Runs, a \in Accounts, key \in Keys : Delegate(r, c, a, key)
<1>1. ASSUME NEW to \in Runs \cup {User}, NEW kind \in SentKinds, NEW key \in Keys,
             SendMessage(r, to, kind, key)
      PROVE  \E new : RowsStep(new)
  BY <1>1, SendRows
<1>2. ASSUME NEW kind \in SentKinds, SendTerminal(r, kind) PROVE \E new : RowsStep(new)
  <2> DEFINE to == IF IsChild(r) THEN Parent(r) ELSE User
  <2>1. to \in Runs \cup {User}
    BY ParentType DEF TypeInv
  <2>2. SendMessage(r, to, kind, TerminalKey) /\ kind \in {"result", "blocked"}
    BY <1>2 DEF SendTerminal
  <2> HIDE DEF to
  <2>3. QED
    BY <2>1, <2>2, SendRows
<1>3. CASE ReadInbox(r)
  <2>1. PICK expired \in SUBSET OpenFor(runMessages, {r}) :
          LET failed == SetState(runMessages, expired, "failed")
          IN  runMessages' = SetState(failed, OpenFor(failed, {r}), "delivered")
    BY <1>3 DEF ReadInbox, Inbox
  <2> DEFINE failed == SetState(runMessages, expired, "failed")
  <2>2. Advance(runMessages, failed)
    BY SetStateAdvances DEF OpenFor, TypeInv, TypeOK
  <2>3. failed \in SUBSET Message
    BY <2>2, AdvanceFacts DEF TypeInv, TypeOK
  <2>4. runMessages' = SetState(failed, OpenFor(failed, {r}), "delivered")
    BY <2>1
  <2> HIDE DEF failed
  <2>5. Advance(failed, runMessages')
    BY <2>3, <2>4, SetStateAdvances DEF OpenFor, OpenStates
  <2>6. Advance(runMessages \cup {}, runMessages')
    BY <2>2, <2>5, AdvanceTwice DEF TypeInv, TypeOK
  <2>7. JustEnded = {}
    BY <1>3 DEF ReadInbox, otherThanMessages, JustEnded
  <2>8. QED
    BY <2>6, <2>7, InsertedNone DEF RowsStep, Closed
<1>4. ASSUME NEW m \in runMessages, ConsumeMessage(r, m) PROVE \E new : RowsStep(new)
  <2>1. m.state \in OpenStates /\ runMessages' = SetState(runMessages, {m}, "consumed")
    BY <1>4 DEF ConsumeMessage, Consume, OpenFor
  <2>2. Advance(runMessages, runMessages')
    BY <2>1, SetStateAdvances DEF TypeInv, TypeOK
  <2>3. JustEnded = {} /\ runMessages \cup {} = runMessages
    BY <1>4 DEF ConsumeMessage, otherThanMessages, JustEnded
  <2>4. QED
    BY <2>2, <2>3, InsertedNone DEF RowsStep, Closed
<1>5. ASSUME NEW key \in Keys, UserInstruction(r, key) PROVE \E new : RowsStep(new)
  <2> DEFINE p == Posted(User, r, "instruction", key)
  <2>1. p \in Message
    BY PostedType DEF MessageKinds
  <2>2. /\ IsActive(r) /\ ~IsChild(r) /\ HasCapacity(r, 1)
        /\ runMessages' = runMessages \cup {p}
        /\ UNCHANGED <<status, lineage>>
    BY <1>5 DEF UserInstruction, CreateUserInstruction, otherThanMessages
  <2>3. p.from = User /\ p.to = r /\ p.kind = "instruction" /\ p.key = key /\ User \notin Runs
    BY LimitsAssumption DEF Posted, LimitsAssumption
  <2>4. MessageRoot(p) = r
    BY <2>2, <2>3 DEF MessageRoot, RootOf
  <2> HIDE DEF p
  <2>5. RowsStep({p})
    BY <2>1, <2>2, <2>3, <2>4, RequestRows
  <2>6. QED
    BY <2>5
<1>6. QED
  BY <1>1, <1>2, <1>3, <1>4, <1>5 DEF MessageStep

(* A child whose packet expired or cannot be delivered fails, and tells    *)
(* its parent if it has to.                                                *)
LEMMA ChildFailsRows ==
    ASSUME TypeInv, RowsInv, Paths, UsedStay, NEW r \in Runs, RetryChildFails(r)
    PROVE  \E new : RowsStep(new)
<1> DEFINE N == Notices({r}, "blocked")
           fits == NeedsNotice(r) => HasCapacity(RootOf(r), 1)
<1>1. PICK expired \in SUBSET OpenFor(InitialMessages(r), {r}) :
          FailPendingChild(r, SetState(runMessages, expired, "failed"), N, fits)
  BY DEF RetryChildFails
<1> DEFINE mid == SetState(runMessages, expired, "failed")
<1>2. /\ status[r] = "pending" /\ UNCHANGED lineage
      /\ \/ /\ fits /\ status' = [status EXCEPT ![r] = "failed"]
            /\ runMessages' = FailRecipient(mid \cup N, {r})
         \/ status' = [status EXCEPT ![r] = "pending"] /\ runMessages' = mid
  BY <1>1 DEF RetryChildFails, FailPendingChild
<1>3. expired \subseteq runMessages /\ \A m \in expired : m.state \in OpenStates
  BY DEF OpenFor, InitialMessages
<1>4. CASE status' = [status EXCEPT ![r] = "pending"] /\ runMessages' = mid
  <2>1. Advance(runMessages, runMessages')
    BY <1>3, <1>4, SetStateAdvances DEF TypeInv, TypeOK
  <2>2. JustEnded = {} /\ runMessages \cup {} = runMessages
    BY <1>2, <1>4 DEF JustEnded, TypeInv, TypeOK
  <2>3. RowsStep({})
    BY <2>1, <2>2, InsertedNone DEF RowsStep, Closed
  <2>4. QED
    BY <2>3
<1>5. CASE /\ fits /\ status' = [status EXCEPT ![r] = "failed"]
           /\ runMessages' = FailRecipient(mid \cup N, {r})
  <2>1. N # {} => NeedsNotice(r) /\ N = {Notice(r, "blocked")}
    BY DEF Notices
  <2>2. N # {} => HasCapacity(RootOf(r), Cardinality(N))
    <3> HIDE DEF N
    <3>1. Cardinality({Notice(r, "blocked")}) = 1
      BY FS_Singleton
    <3>2. QED
      BY <1>5, <2>1, <3>1
  <2>3. {r} \in SUBSET ActiveRuns /\ RootOf(r) \in Runs
    BY <1>2, SubtreeRoot DEF ActiveRuns
  <2>4. Inserted(N)
    BY <1>2, <2>2, <2>3, NoticesInserted
  <2>5. N \cap runMessages = {}
    BY <2>1 DEF NeedsNotice, Repeated, Notice, Posted
  <2>6. mid \cup N = SetState(runMessages \cup N, expired, "failed")
    BY <1>3, <2>5 DEF SetState
  <2>7. runMessages \cup N \in SUBSET Message
    BY <2>4 DEF Inserted, TypeInv, TypeOK
  <2>8. Advance(runMessages \cup N, mid \cup N)
    <3> HIDE DEF N
    <3>1. QED
      BY <1>3, <2>6, <2>7, SetStateAdvances
  <2> HIDE DEF mid, N
  <2>9. mid \cup N \in SUBSET Message
    BY <2>7, <2>8, AdvanceFacts
  <2>10. Advance(mid \cup N, runMessages') /\ Closed(runMessages', {r})
    BY <1>5, <2>9, FailRecipientAdvances
  <2>11. Advance(runMessages \cup N, runMessages')
    BY <2>7, <2>8, <2>10, AdvanceTwice
  <2>12. JustEnded \subseteq {r}
    BY <1>5 DEF JustEnded, TypeInv, TypeOK
  <2>13. Closed(runMessages', JustEnded)
    BY <2>10, <2>12 DEF Closed
  <2>14. QED
    BY <2>4, <2>11, <2>13 DEF RowsStep
<1>6. QED
  BY <1>2, <1>4, <1>5

(* Two rows that differ are two rows.                                      *)
LEMMA TwoRows ==
    ASSUME NEW m, NEW n, m # n
    PROVE  IsFiniteSet({m, n}) /\ Cardinality({m, n}) = 2
<1> DEFINE S == {m}
<1>1. IsFiniteSet(S) /\ Cardinality(S) = 1
  BY FS_Singleton
<1>2. n \notin S /\ {m, n} = S \cup {n}
  OBVIOUS
<1> HIDE DEF S
<1>3. IsFiniteSet(S \cup {n}) /\ Cardinality(S \cup {n}) = 1 + 1
  BY <1>1, <1>2, FS_AddElement
<1>4. QED
  BY <1>2, <1>3

(* createDelegate writes the packet, and the message of a child that fails *)
(* at once.                                                                *)
LEMMA DelegateRows ==
    ASSUME TypeInv, RowsInv, Paths, UsedStay, NEW s \in Runs, NEW r \in Runs,
           NEW a \in Accounts, NEW key \in Keys, Delegate(s, r, a, key)
    PROVE  \E new : RowsStep(new)
<1> DEFINE packet == Posted(s, r, "delegate", key)
           blocked == Posted(r, s, "blocked", TerminalKey)
           root == RootOf(s)
<1>1. /\ IsActive(s) /\ s # r /\ status[r] = "unused"
      /\ \A x \in Runs \ {r} : lineage'[x] = lineage[x]
      /\ Len(lineage'[r]) = Len(lineage[s]) + 1
      /\ lineage'[r][Len(lineage[s]) + 1] = s
      /\ \A i \in 1 .. Len(lineage[s]) : lineage'[r][i] = lineage[s][i]
  BY DelegatePath
<1>2. /\ status'[r] \in {"pending", "failed", "running"}
      /\ \A x \in Runs \ {r} : status'[x] = status[x]
  BY DelegateFacts
<1>3. /\ packet \in Message /\ packet.from = s /\ packet.to = r /\ packet.kind = "delegate"
      /\ packet.key = key
      /\ blocked \in Message /\ blocked.from = r /\ blocked.to = s /\ blocked.kind = "blocked"
  <2>1. packet \in Message /\ blocked \in Message
    BY PostedType DEF MessageKinds
  <2>2. QED
    BY <2>1 DEF Posted
<1>4. s # User /\ r # User /\ root \in Runs
  BY LimitsAssumption, SubtreeRoot DEF LimitsAssumption
<1>5. RootOf(s)' = root /\ RootOf(r)' = root
  <2>1. lineage[s] \in Seq(Runs)
    BY DEF TypeInv, TypeOK
  <2>2. lineage'[r] # << >>
    <3>1. lineage' = [lineage EXCEPT ![r] = Append(lineage[s], s)]
      BY DEF Delegate
    <3>2. Append(lineage[s], s) # << >>
      BY <2>1
    <3>3. lineage'[r] = Append(lineage[s], s)
      BY <3>1 DEF TypeInv, TypeOK
    <3>4. QED
      BY <3>2, <3>3
  <2>3. RootOf(s)' = root
    BY <1>1 DEF RootOf, IsChild
  <2>4. CASE lineage[s] = << >>
    BY <1>1, <2>2, <2>4 DEF RootOf, IsChild
  <2>5. CASE lineage[s] # << >>
    <3>1. lineage'[r][1] = lineage[s][1]
      BY <1>1, <2>1, <2>5
    <3>2. QED
      BY <2>2, <2>3, <2>5, <3>1 DEF RootOf, IsChild
  <2>6. QED
    BY <2>3, <2>4, <2>5
<1>6. ASSUME NEW m \in Message, m.from = packet.from, m.to = packet.to, m.kind = packet.kind,
             m.key = packet.key
      PROVE  Inserted({m})
  <2>1. IsFiniteSet({m}) /\ Cardinality({m}) = 1
    BY FS_Singleton
  <2>2. HasCapacity(root, Cardinality({m}))
    BY <2>1 DEF Delegate, MayDelegate
  <2>3. m.from = s /\ m.to = r /\ m.kind = "delegate" /\ m.key = key
    BY <1>3, <1>6
  <2>4. MessageRoot(m)' = root
    BY <1>4, <1>5, <2>3 DEF MessageRoot
  <2> HIDE DEF packet, root
  <2>5. QED
    BY <1>1, <1>2, <1>4, <2>1, <2>2, <2>3, <2>4, PostedInserted
<1>7. HasCapacity(root, 2) => Inserted({packet, blocked})
  <2>1. packet # blocked
    BY <1>1, <1>3
  <2>4. IsFiniteSet({packet, blocked}) /\ Cardinality({packet, blocked}) = 2
    BY <2>1, TwoRows
  <2>5. MessageRoot(packet)' = root /\ MessageRoot(blocked)' = root
    BY <1>3, <1>4, <1>5 DEF MessageRoot
  <2> HIDE DEF packet, blocked, root
  <2>6. \A m \in {packet, blocked} :
          /\ m.from = User => m.to \in Runs
          /\ m.from \in Runs => status'[m.from] # "unused"
          /\ m.to \in Runs => status'[m.to] # "unused" /\ (IsActive(m.to) \/ status[m.to] = "unused")
          /\ m.kind = "delegate" => m.to \in Runs /\ status[m.to] = "unused"
          /\ m.kind \in {"result", "blocked"} \/ m.key \in Keys
          /\ MessageRoot(m)' = root
    BY <1>1, <1>2, <1>3, <1>4, <2>5
  <2>7. \A m, n \in {packet, blocked} : m.kind = "delegate" /\ n.kind = "delegate" => m = n
    BY <1>3
  <2>8. {packet, blocked} \in SUBSET Message
    BY <1>3
  <2>9. QED
    BY <1>4, <2>4, <2>6, <2>7, <2>8, PostedInserted
<1>8. JustEnded \subseteq {r} /\ (status'[r] # "failed" => JustEnded = {})
  BY <1>2 DEF JustEnded
<1>9. ASSUME NEW m \in Message, m.from = packet.from, m.to = packet.to, m.kind = packet.kind,
             m.key = packet.key, runMessages' = runMessages \cup {m}, JustEnded = {}
      PROVE  RowsStep({m})
  <2>1. Inserted({m})
    BY <1>6, <1>9
  <2>2. runMessages \cup {m} \in SUBSET Message
    BY DEF TypeInv, TypeOK
  <2>3. Advance(runMessages \cup {m}, runMessages')
    BY <1>9, <2>2, AdvanceNone
  <2>4. QED
    BY <1>9, <2>1, <2>3 DEF RowsStep, Closed
<1>10. CASE /\ HasCapacity(root, 2)
            /\ runMessages' = FailRecipient(runMessages \cup {packet} \cup {blocked}, {r})
  <2> DEFINE old == runMessages \cup {packet, blocked}
  <2>1. runMessages \cup {packet} \cup {blocked} = old
    OBVIOUS
  <2>2. old \in SUBSET Message
    BY <1>3 DEF TypeInv, TypeOK
  <2>3. runMessages' = FailRecipient(old, {r})
    BY <1>10, <2>1
  <2> HIDE DEF old
  <2>4. Advance(old, runMessages') /\ Closed(runMessages', {r})
    BY <2>2, <2>3, FailRecipientAdvances
  <2>5. Closed(runMessages', JustEnded)
    BY <1>8, <2>4 DEF Closed
  <2>6. RowsStep({packet, blocked})
    BY <1>7, <1>10, <2>4, <2>5 DEF RowsStep, old
  <2>7. QED
    BY <2>6
<1>11. CASE /\ status'[r] # "failed"
            /\ \/ runMessages' = runMessages \cup {packet}
               \/ runMessages' = runMessages \cup {WithState(packet, "consumed")}
  <2>1. /\ WithState(packet, "consumed") \in Message
        /\ WithState(packet, "consumed").from = packet.from
        /\ WithState(packet, "consumed").to = packet.to
        /\ WithState(packet, "consumed").kind = packet.kind
        /\ WithState(packet, "consumed").key = packet.key
    <3> HIDE DEF packet
    <3>1. QED
      BY <1>3 DEF WithState, Message
  <2> HIDE DEF packet
  <2>2. QED
    BY <1>3, <1>8, <1>9, <1>11, <2>1
<1>12. QED
  <2>1. \/ /\ HasCapacity(root, 2)
           /\ runMessages' = FailRecipient(runMessages \cup {packet} \cup {blocked}, {r})
        \/ /\ status' = [status EXCEPT ![r] = "pending"] \/ status' = [status EXCEPT ![r] = "running"]
           /\ \/ runMessages' = runMessages \cup {packet}
              \/ runMessages' = runMessages \cup {WithState(packet, "consumed")}
    BY DEF Delegate, FailPendingChild
  <2>2. \/ status' = [status EXCEPT ![r] = "pending"]
        \/ status' = [status EXCEPT ![r] = "running"]
        => status'[r] # "failed"
    BY DEF TypeInv, TypeOK
  <2>3. QED
    BY <1>10, <1>11, <2>1, <2>2

(* What a step does to the rows, unless it revokes a session: every step   *)
(* that completes or cancels runs also says what their parents are told.   *)
LEMMA StepRows ==
    ASSUME TypeInv, RowsInv, Paths, [Next]_vars
    PROVE  \/ \E new : RowsStep(new)
           \/ \E a \in Accounts : Revoke(a)
<1>1. UsedStay
  BY RowsStay
<1>2. ASSUME NEW r \in Runs, PrepareStep(r) PROVE \E new : RowsStep(new)
  BY <1>1, <1>2, PreparingRows, ChildFailsRows DEF PrepareStep
<1>3. ASSUME NEW r \in Runs, EndStep(r) PROVE \E new : RowsStep(new)
  BY <1>1, <1>3, EndRows
<1>4. ASSUME NEW r \in Runs, MessageStep(r) PROVE \E new : RowsStep(new)
  BY <1>1, <1>4, MessageRows, DelegateRows
<1>5. ASSUME NEW r \in Runs, BackgroundStep(r) \/ RotateBinding(r) PROVE \E new : RowsStep(new)
  BY <1>5, PreparingRows
<1>6. CASE AccountStep \/ CompactSpace \/ Restart \/ UNCHANGED vars
  BY <1>6, AccountRows DEF AccountStep
<1>7. QED
  BY <1>2, <1>3, <1>4, <1>5, <1>6 DEF Next

-----------------------------------------------------------------------------
(* The rows stay consistent *)

(* A step inserts at most one run.                                         *)
LEMMA OneInserted ==
    ASSUME TypeInv, [Next]_vars
    PROVE  \E x \in Runs \cup {None} : UsedRuns' \subseteq UsedRuns \cup {x}
<1>1. CASE EndingStep
  <2>1. OnlyEnds
    BY <1>1, EndingStepEnds
  <2>2. QED
    BY <2>1 DEF OnlyEnds, UsedRuns
<1>2. ASSUME NEW a \in Accounts, Login(a) \/ Revoke(a) PROVE UsedRuns' \subseteq UsedRuns
  BY <1>2 DEF Login, Revoke, releaseAccountExecutions, UsedRuns
<1>3. ASSUME NEW a \in Accounts, NEW r \in Runs, ScheduleRoot(r, a)
      PROVE  UsedRuns' \subseteq UsedRuns \cup {r}
  BY <1>3, ScheduleRootFacts DEF UsedRuns
<1>4. ASSUME NEW s \in Runs, NEW r \in Runs, NEW a \in Accounts, NEW key \in Keys,
             Delegate(s, r, a, key)
      PROVE  UsedRuns' \subseteq UsedRuns \cup {r}
  BY <1>4, DelegateFacts DEF UsedRuns
<1>5. ASSUME NEW r \in Runs, Dispatch(r) \/ RetryChildRuns(r)
      PROVE  UsedRuns' \subseteq UsedRuns
  <2>1. IsActive(r) /\ status' = [status EXCEPT ![r] = "running"]
    BY <1>5, ClaimFacts
  <2>2. QED
    BY <2>1 DEF UsedRuns
<1>6. CASE Restart
  BY <1>6 DEF Restart, UsedRuns
<1>7. QED
  BY <1>1, <1>2, <1>3, <1>4, <1>5, <1>6, StepCases

(* Where the rows of the next state come from, a revocation included.      *)
RowsFrom(new) == Inserted(new) /\ Advance(runMessages \cup new, runMessages')

(* Every step inserts rows that fit and lets deliveries go on.             *)
LEMMA RowsOrigin ==
    ASSUME TypeInv, RowsInv, Paths, [Next]_vars
    PROVE  \E new : RowsFrom(new)
<1>1. ASSUME NEW a \in Accounts, Revoke(a) PROVE RowsFrom({})
  <2>1. UNCHANGED runMessages /\ runMessages \cup {} = runMessages
    BY <1>1 DEF Revoke
  <2>2. QED
    BY <2>1, AdvanceNone, InsertedNone DEF RowsFrom, TypeInv, TypeOK
<1>2. QED
  BY <1>1, StepRows DEF RowsStep, RowsFrom

(* The ends, the packets and the keys of rows stay as they should.         *)
LEMMA RowsInvStep ==
    ASSUME TypeInv, RowsInv, Paths, [Next]_vars
    PROVE  RowsInv'
<1>1. UsedStay
  BY RowsStay
<1>2. PICK new : RowsFrom(new)
  BY RowsOrigin
<1> DEFINE old == runMessages \cup new
<1>3. old \in SUBSET Message /\ Advance(old, runMessages')
  BY <1>2 DEF RowsFrom, Inserted, TypeInv, TypeOK
<1>4. \A m \in old :
        /\ m.from = User => m.to \in Runs
        /\ m.from \in Runs => status'[m.from] # "unused"
        /\ m.to \in Runs => status'[m.to] # "unused"
        /\ m.kind \in {"result", "blocked"} \/ m.key \in Keys
  BY <1>1, <1>2 DEF RowsFrom, Inserted, RowsInv, EndsKnown, KeysOfKinds, UsedStay
<1>5. \A m, n \in old : m.kind = "delegate" /\ n.kind = "delegate" /\ m.to = n.to => m = n
  BY <1>2 DEF RowsFrom, Inserted, RowsInv, EndsKnown, OnePacket
<1> HIDE DEF old
<1>6. EndsKnown' /\ KeysOfKinds'
  <2>1. \A n \in runMessages' : \E m \in old : GoesOn(m, n)
    BY <1>3, AdvanceFacts
  <2>2. QED
    BY <1>4, <2>1 DEF EndsKnown, KeysOfKinds, GoesOn
<1>7. OnePacket'
  <2>1. PICK f \in [old -> Message] :
          /\ \A m \in old : GoesOn(m, f[m])
          /\ runMessages' = {f[m] : m \in old}
    BY <1>3 DEF Advance
  <2>2. QED
    BY <1>5, <2>1 DEF OnePacket, GoesOn
<1>8. IsFiniteSet(UsedRuns)'
  <2>1. PICK x \in Runs \cup {None} : UsedRuns' \subseteq UsedRuns \cup {x}
    BY OneInserted
  <2>2. IsFiniteSet(UsedRuns \cup {x})
    BY FS_AddElement DEF RowsInv
  <2>3. QED
    BY <2>1, <2>2, FS_Subset
<1>9. QED
  BY <1>6, <1>7, <1>8 DEF RowsInv

(* The ends of every row are known, a child has one packet, and only       *)
(* results and blocks carry the terminal key.                              *)
THEOREM RowsInductive == Spec => []RowsInv
<1>1. Init => RowsInv
  <2>1. ASSUME Init PROVE RowsInv
    <3>1. runMessages = {} /\ UsedRuns = {}
      BY <2>1 DEF Init, UsedRuns
    <3>2. QED
      BY <3>1, FS_EmptySet DEF RowsInv, EndsKnown, OnePacket, KeysOfKinds
  <2>2. QED
    BY <2>1
<1>2. QED
  BY <1>1, RowsInvStep, TypeInductive, PathsInductive, PTL DEF Spec

(* A delivery that was consumed or failed stays so and no row is lost,     *)
(* although inboxes are read, expire, are failed by the ends of runs and   *)
(* by a restart, and a start consumes packets unseen (DeliveryFinal).      *)
THEOREM DeliveriesAreFinal == Spec => DeliveryFinal
<1> DEFINE Final == \A m \in runMessages : \E n \in runMessages' :
                       /\ [n EXCEPT !.state = m.state] = m
                       /\ m.state \notin OpenStates => n = m
<1>1. TypeInv /\ RowsInv /\ Paths /\ [Next]_vars => Final
  <2> SUFFICES ASSUME TypeInv, RowsInv, Paths, [Next]_vars, NEW m \in runMessages
               PROVE  \E n \in runMessages' : /\ [n EXCEPT !.state = m.state] = m
                                              /\ m.state \notin OpenStates => n = m
    OBVIOUS
  <2>1. PICK new : RowsFrom(new)
    BY RowsOrigin
  <2>2. runMessages \cup new \in SUBSET Message
    BY <2>1 DEF RowsFrom, Inserted, TypeInv, TypeOK
  <2>3. PICK n \in runMessages' : GoesOn(m, n)
    BY <2>1, <2>2, AdvanceFacts DEF RowsFrom
  <2>4. m \in Message
    BY DEF TypeInv, TypeOK
  <2>5. [n EXCEPT !.state = m.state] = m
    BY <2>3, <2>4 DEF GoesOn, Message
  <2>6. QED
    BY <2>3, <2>5 DEF GoesOn
<1>2. TypeInv /\ RowsInv /\ Paths /\ [Next]_vars => [Final]_vars
  BY <1>1
<1>3. QED
  BY <1>2, TypeInductive, RowsInductive, PathsInductive, PTL DEF Spec, DeliveryFinal

-----------------------------------------------------------------------------
(* The limits of agentCommunication *)

LimitsInv == LimitsHold /\ IsFiniteSet(runMessages)

(* Rows of one tree, whatever the deliveries, are no more than before.     *)
LEMMA AdvanceCardinality ==
    ASSUME NEW old \in SUBSET Message, IsFiniteSet(old), NEW ms, Advance(old, ms),
           NEW R \in SUBSET old, NEW S \in SUBSET ms,
           \A m \in old, n \in S : GoesOn(m, n) => m \in R
    PROVE  IsFiniteSet(S) /\ Cardinality(S) <= Cardinality(R)
<1>1. PICK f \in [old -> Message] :
          /\ \A m \in old : GoesOn(m, f[m])
          /\ ms = {f[m] : m \in old}
  BY DEF Advance
<1> DEFINE Q == {m \in R : f[m] \in S}
           g == [m \in Q |-> f[m]]
<1>2. IsFiniteSet(R)
  BY FS_Subset
<1>3. IsFiniteSet(Q) /\ Cardinality(Q) <= Cardinality(R)
  BY <1>2, FS_Subset
<1>4. \A n \in S : \E m \in Q : f[m] = n
  BY <1>1
<1>5. g \in Surjection(Q, S)
  BY <1>4 DEF Surjection
<1> HIDE DEF Q, g
<1>6. IsFiniteSet(S) /\ Cardinality(S) <= Cardinality(Q)
  BY <1>3, <1>5, FS_Surjection
<1>7. Cardinality(S) \in Nat /\ Cardinality(Q) \in Nat /\ Cardinality(R) \in Nat
  BY <1>2, <1>3, <1>6, FS_CardinalityType
<1>8. QED
  BY <1>3, <1>6, <1>7

(* The root of a row does not change.                                      *)
LEMMA RootStays ==
    ASSUME TypeInv, RowsInv, Paths, [Next]_vars, NEW m \in runMessages
    PROVE  MessageRoot(m)' = MessageRoot(m)
<1> DEFINE x == IF m.from = User THEN m.to ELSE m.from
<1>1. x \in Runs /\ status[x] # "unused"
  BY DEF RowsInv, EndsKnown, TypeInv, TypeOK, Message
<1>2. lineage'[x] = lineage[x]
  <2>1. CASE UNCHANGED lineage
    BY <2>1
  <2>2. ASSUME NEW s \in Runs, NEW r \in Runs, NEW a \in Accounts, NEW key \in Keys,
               Delegate(s, r, a, key)
        PROVE  lineage'[x] = lineage[x]
    BY <1>1, <2>2, DelegatePath
  <2>3. QED
    BY <2>1, <2>2, PathsStay
<1> HIDE DEF x
<1>3. RootOf(x)' = RootOf(x)
  BY <1>2 DEF RootOf, IsChild
<1>4. QED
  BY <1>3 DEF MessageRoot, x

(* A tree gets no more rows than fit.                                      *)
LEMMA RootLimitStep ==
    ASSUME TypeInv, RowsInv, Paths, LimitsInv, [Next]_vars
    PROVE  /\ IsFiniteSet(runMessages)'
           /\ \A r \in Runs : ~IsChild(r)' => Cardinality(RootMessages(r))' <= MaxMessagesPerRoot
<1>1. PICK new : RowsFrom(new)
  BY RowsOrigin
<1> DEFINE old == runMessages \cup new
<1>2. old \in SUBSET Message /\ Advance(old, runMessages') /\ IsFiniteSet(new)
  BY <1>1 DEF RowsFrom, Inserted, TypeInv, TypeOK
<1>3. IsFiniteSet(old)
  BY <1>2, FS_Union DEF LimitsInv
<1>4. runMessages' \subseteq Message
  BY <1>2, AdvanceFacts
<1> HIDE DEF old
<1>5. IsFiniteSet(runMessages')
  <2>1. \A m \in old, n \in runMessages' : GoesOn(m, n) => m \in old
    OBVIOUS
  <2>2. old \in SUBSET old /\ runMessages' \in SUBSET runMessages'
    OBVIOUS
  <2>3. QED
    BY <1>2, <1>3, <2>1, <2>2, AdvanceCardinality
<1>6. ASSUME NEW r \in Runs, ~IsChild(r)'
      PROVE  Cardinality(RootMessages(r)') <= MaxMessagesPerRoot
  <2> DEFINE R == {m \in old : MessageRoot(m)' = r}
             S == RootMessages(r)'
             P == RootMessages(r)
             N == {m \in new : MessageRoot(m)' = r}
  <2>1. S \in SUBSET runMessages' /\ R \in SUBSET old
    BY DEF RootMessages
  <2>2. \A m \in old, n \in S : GoesOn(m, n) => m \in R
    BY DEF GoesOn, MessageRoot, RootMessages
  <2>3. Cardinality(S) <= Cardinality(R)
    <3> HIDE DEF R, S
    <3>1. QED
      BY <1>2, <1>3, <2>1, <2>2, AdvanceCardinality
  <2>4. R = P \cup N
    BY RootStays DEF old, RootMessages
  <2>5. IsFiniteSet(P) /\ IsFiniteSet(N) /\ Cardinality(N) <= Cardinality(new)
    BY <1>2, FS_Subset DEF LimitsInv, RootMessages
  <2>6. ~IsChild(r)
    <3>1. CASE UNCHANGED lineage
      BY <1>6, <3>1 DEF IsChild
    <3>2. ASSUME NEW s \in Runs, NEW c \in Runs, NEW a \in Accounts, NEW key \in Keys,
                 Delegate(s, c, a, key)
          PROVE  ~IsChild(r)
      BY <1>6, <3>2, DelegatePath DEF IsChild
    <3>3. QED
      BY <3>1, <3>2, PathsStay
  <2>7. Cardinality(P) <= MaxMessagesPerRoot
    BY <2>6 DEF LimitsInv, LimitsHold
  <2>8. N # {} => HasCapacity(r, Cardinality(new))
    BY <1>1 DEF RowsFrom, Inserted
  <2> HIDE DEF S, R, N, P
  <2>9. /\ Cardinality(P) \in Nat /\ Cardinality(N) \in Nat /\ Cardinality(new) \in Nat
        /\ Cardinality(R) <= Cardinality(P) + Cardinality(N)
        /\ Cardinality(R) \in Nat
    <3>1. IsFiniteSet(R) /\ Cardinality(R) = Cardinality(P) + Cardinality(N) - Cardinality(P \cap N)
      BY <2>4, <2>5, FS_Union
    <3>2. IsFiniteSet(P \cap N)
      BY <2>5, FS_Intersection
    <3>3. Cardinality(P \cap N) \in Nat /\ Cardinality(R) \in Nat
      BY <3>1, <3>2, FS_CardinalityType
    <3>4. Cardinality(P) \in Nat /\ Cardinality(N) \in Nat /\ Cardinality(new) \in Nat
      BY <1>2, <2>5, FS_CardinalityType
    <3>5. QED
      BY <3>1, <3>3, <3>4
  <2>10. Cardinality(S) \in Nat
    <3>1. IsFiniteSet(S)
      BY <1>5, <2>1, FS_Subset
    <3>2. QED
      BY <3>1, FS_CardinalityType
  <2>11. CASE N = {}
    <3>1. Cardinality(N) = 0
      BY <2>11, FS_EmptySet
    <3>2. QED
      BY <2>3, <2>7, <2>9, <2>10, <3>1, LimitsAssumption DEF LimitsAssumption, S
  <2>12. CASE N # {}
    <3>1. Cardinality(P) + Cardinality(new) <= MaxMessagesPerRoot
      BY <2>8, <2>12 DEF HasCapacity, P
    <3>2. QED
      BY <2>3, <2>5, <2>9, <2>10, <3>1, LimitsAssumption DEF LimitsAssumption, S
  <2>13. QED
    BY <2>11, <2>12
<1>7. QED
  BY <1>5, <1>6

(* A run gets no more children, and a tree no more levels, than allowed.   *)
LEMMA ChildLimitStep ==
    ASSUME TypeInv, RowsInv, Paths, LimitsHold, [Next]_vars, NEW r \in Runs
    PROVE  Depth(r)' <= MaxDepth /\ Cardinality(Children(r)') <= MaxChildrenPerRun
<1>1. CASE UNCHANGED lineage
  BY <1>1 DEF LimitsHold, Depth, Children, IsChild, Parent
<1>2. ASSUME NEW s \in Runs, NEW c \in Runs, NEW a \in Accounts, NEW key \in Keys,
             Delegate(s, c, a, key)
      PROVE  Depth(r)' <= MaxDepth /\ Cardinality(Children(r)') <= MaxChildrenPerRun
  <2>1. /\ Depth(s) < MaxDepth
        /\ Cardinality(Children(s)) < MaxChildrenPerRun
        /\ lineage[c] = << >>
        /\ \A x \in Runs \ {c} : lineage'[x] = lineage[x]
        /\ Len(lineage'[c]) = Len(lineage[s]) + 1
        /\ lineage'[c][Len(lineage[s]) + 1] = s
    BY <1>2, DelegatePath
  <2>2. Depth(r)' <= MaxDepth
    <3>1. lineage[s] \in Seq(Runs) /\ Len(lineage[s]) \in Nat
      BY DEF TypeInv, TypeOK
    <3>2. CASE r = c
      BY <2>1, <3>1, <3>2, LimitsAssumption DEF Depth, LimitsAssumption
    <3>3. CASE r # c
      BY <2>1, <3>3 DEF LimitsHold, Depth
    <3>4. QED
      BY <3>2, <3>3
  <2>3. Parent(c)' = s
    BY <2>1 DEF Parent
  <2>4. CASE r = s
    <3>1. Children(r)' \subseteq Children(r) \cup {c}
      BY <2>1, <2>3, <2>4 DEF Children, IsChild, Parent
    <3>2. Children(r) \subseteq UsedRuns
      BY DEF Children, IsChild, Paths, UsedRuns
    <3>3. IsFiniteSet(Children(r))
      BY <3>2, FS_Subset DEF RowsInv
    <3>4. /\ IsFiniteSet(Children(r) \cup {c})
          /\ Cardinality(Children(r) \cup {c}) \in
                {Cardinality(Children(r)), Cardinality(Children(r)) + 1}
      BY <3>3, FS_AddElement
    <3>5. IsFiniteSet(Children(r)') /\ Cardinality(Children(r)') <= Cardinality(Children(r) \cup {c})
      BY <3>1, <3>4, FS_Subset
    <3>6. Cardinality(Children(r)') \in Nat /\ Cardinality(Children(r)) \in Nat
      BY <3>3, <3>5, FS_CardinalityType
    <3>7. QED
      BY <2>1, <2>2, <2>4, <3>4, <3>5, <3>6, LimitsAssumption DEF LimitsAssumption
  <2>5. CASE r # s
    <3>1. Children(r)' \subseteq Children(r)
      BY <2>1, <2>3, <2>5 DEF Children, IsChild, Parent
    <3>2. Children(r) \subseteq Children(r)'
      BY <2>1 DEF Children, IsChild, Parent
    <3>3. Children(r)' = Children(r)
      BY <3>1, <3>2
    <3>4. Cardinality(Children(r)) <= MaxChildrenPerRun
      BY DEF LimitsHold
    <3>5. QED
      BY <2>2, <3>3, <3>4
  <2>6. QED
    BY <2>4, <2>5
<1>3. QED
  BY <1>1, <1>2, PathsStay

(* No tree grows beyond its limits: not by concurrent delegations, not by  *)
(* the messages a child sends when it fails at once, and not by a          *)
(* cancellation that writes several terminal messages (LimitsHold).        *)
THEOREM TreesAreLimited == Spec => []LimitsHold
<1>1. Init => LimitsInv
  <2>1. ASSUME Init PROVE LimitsInv
    <3>1. /\ runMessages = {}
          /\ \A r \in Runs : lineage[r] = << >>
      BY <2>1 DEF Init
    <3>2. \A r \in Runs : Children(r) = {} /\ RootMessages(r) = {} /\ Depth(r) = 0
      BY <3>1 DEF Children, IsChild, RootMessages, Depth
    <3>3. IsFiniteSet({}) /\ Cardinality({}) = 0
      BY FS_EmptySet
    <3>4. \A r \in Runs : Cardinality(Children(r)) = 0 /\ Cardinality(RootMessages(r)) = 0
      BY <3>2, <3>3
    <3>5. IsFiniteSet(runMessages)
      BY <3>1, <3>3
    <3>6. QED
      BY <3>2, <3>4, <3>5, LimitsAssumption DEF LimitsInv, LimitsHold, LimitsAssumption
  <2>2. QED
    BY <2>1
<1>2. TypeInv /\ RowsInv /\ Paths /\ LimitsInv /\ [Next]_vars => LimitsInv'
  <2> SUFFICES ASSUME TypeInv, RowsInv, Paths, LimitsInv, [Next]_vars
               PROVE  LimitsInv'
    OBVIOUS
  <2>1. \A r \in Runs : Depth(r)' <= MaxDepth /\ Cardinality(Children(r)') <= MaxChildrenPerRun
    BY ChildLimitStep DEF LimitsInv
  <2>2. /\ IsFiniteSet(runMessages)'
        /\ \A r \in Runs : ~IsChild(r)' => Cardinality(RootMessages(r))' <= MaxMessagesPerRoot
    BY RootLimitStep
  <2>3. QED
    BY <2>1, <2>2 DEF LimitsInv, LimitsHold
<1>3. LimitsInv => LimitsHold
  BY DEF LimitsInv
<1>4. QED
  BY <1>1, <1>2, <1>3, TypeInductive, RowsInductive, PathsInductive, PTL DEF Spec

-----------------------------------------------------------------------------
(* Somebody reads an open message *)

(* While no session is revoked, a message that waits in an inbox has an    *)
(* active run to read it: whatever ends a run fails its inbox, and no step *)
(* writes to a run that it ends, or that had ended (OpenMessagesReadable). *)
THEOREM OpenMessagesAreReadable == Spec /\ NoRevocation => []OpenMessagesReadable
<1>1. Init => OpenMessagesReadable
  BY DEF Init, OpenMessagesReadable
<1>2. TypeInv /\ RowsInv /\ Paths /\ OpenMessagesReadable /\ [Next]_vars
        /\ [\A a \in Accounts : ~Revoke(a)]_vars => OpenMessagesReadable'
  <2>1. UNCHANGED vars /\ OpenMessagesReadable => OpenMessagesReadable'
    BY DEF vars, OpenMessagesReadable
  <2>2. ASSUME TypeInv, RowsInv, Paths, OpenMessagesReadable, [Next]_vars,
               \A a \in Accounts : ~Revoke(a)
        PROVE  OpenMessagesReadable'
    <3>1. PICK new : RowsStep(new)
      BY <2>2, StepRows
    <3>2. runMessages \cup new \in SUBSET Message
      BY <2>2, <3>1 DEF RowsStep, Inserted, TypeInv, TypeOK
    <3>3. SUFFICES ASSUME NEW n \in runMessages', n.to \in Runs, n.state \in OpenStates
                   PROVE  IsActive(n.to)'
      BY DEF OpenMessagesReadable
    <3>4. PICK m \in runMessages \cup new : GoesOn(m, n)
      BY <3>1, <3>2, AdvanceFacts DEF RowsStep
    <3>5. m.to = n.to /\ m.state \in OpenStates
      BY <3>3, <3>4 DEF GoesOn
    <3>6. UsedStay
      BY <2>2, RowsStay
    <3>7. /\ status'[n.to] # "unused"
          /\ IsActive(n.to) \/ status[n.to] = "unused"
      <4>1. CASE m \in runMessages
        BY <2>2, <3>3, <3>5, <3>6, <4>1 DEF OpenMessagesReadable, UsedStay
      <4>2. CASE m \in new
        BY <3>1, <3>3, <3>5, <4>2 DEF RowsStep, Inserted
      <4>3. QED
        BY <4>1, <4>2
    <3>8. n.to \notin JustEnded
      BY <3>1, <3>3 DEF RowsStep, Closed
    <3>9. QED
      BY <3>3, <3>7, <3>8 DEF JustEnded
  <2>3. QED
    BY <2>1, <2>2
<1>3. QED
  BY <1>1, <1>2, TypeInductive, RowsInductive, PathsInductive, PTL DEF Spec, NoRevocation

-----------------------------------------------------------------------------
(* A parent is told of the end of its child *)

(* A child runs privately from its insertion on.                           *)
ChildrenPrivate == \A r \in Runs : IsChild(r) => outputPolicy[r] = "source"

(* Only a delegation and a backgrounding set the output policy, and both   *)
(* make a run private.                                                     *)
LEMMA PolicyStep ==
    ASSUME TypeInv, [Next]_vars
    PROVE  /\ \A r \in Runs : outputPolicy[r] = "source" => outputPolicy'[r] = "source"
           /\ \A s, r \in Runs, a \in Accounts, key \in Keys :
                 Delegate(s, r, a, key) => outputPolicy'[r] = "source"
<1>1. ASSUME NEW s \in Runs, NEW r \in Runs, NEW a \in Accounts, NEW key \in Keys,
             Delegate(s, r, a, key)
      PROVE  outputPolicy' = [outputPolicy EXCEPT ![r] = "source"]
  BY <1>1 DEF Delegate
<1>2. ASSUME AccountStep PROVE UNCHANGED outputPolicy
  BY <1>2 DEF AccountStep, Login, Revoke, CompactStart, CompactSucceeds, CompactFails,
     ScheduleRoot
<1>3. ASSUME NEW r \in Runs, PrepareStep(r) PROVE UNCHANGED outputPolicy
  BY <1>3 DEF PrepareStep, SessionReady, Dispatch, DispatchBusy, DispatchFails, RetryRoot,
     RetryDropped, RetryChildFails, RetryChildBusy, RetryChildRuns, vars
<1>4. ASSUME NEW r \in Runs, EndStep(r) PROVE UNCHANGED outputPolicy
  BY <1>4, EndCases DEF EndFrame
<1>5. ASSUME NEW s \in Runs, MessageStep(s)
      PROVE  \/ UNCHANGED outputPolicy
             \/ \E r \in Runs, a \in Accounts, key \in Keys : Delegate(s, r, a, key)
  BY <1>5 DEF MessageStep, SendMessage, SendTerminal, ReadInbox, ConsumeMessage,
     UserInstruction, otherThanMessages
<1>6. ASSUME NEW r \in Runs, BackgroundStep(r)
      PROVE  UNCHANGED outputPolicy \/ outputPolicy' = [outputPolicy EXCEPT ![r] = "source"]
  BY <1>6 DEF BackgroundStep, BackgroundRun, CatchupResult, CatchupTimeout, SettleAwaiting
<1>7. ASSUME NEW r \in Runs, RotateBinding(r) PROVE UNCHANGED outputPolicy
  BY <1>7 DEF RotateBinding
<1>8. ASSUME CompactSpace \/ Restart \/ UNCHANGED vars PROVE UNCHANGED outputPolicy
  BY <1>8 DEF CompactSpace, Restart, vars
<1>9. UNCHANGED outputPolicy \/ \E r \in Runs : outputPolicy' = [outputPolicy EXCEPT ![r] = "source"]
  BY <1>1, <1>2, <1>3, <1>4, <1>5, <1>6, <1>7, <1>8 DEF Next
<1>10. \A r \in Runs : outputPolicy[r] = "source" => outputPolicy'[r] = "source"
  BY <1>9 DEF TypeInv, TypeOK
<1>11. \A s, r \in Runs, a \in Accounts, key \in Keys :
          Delegate(s, r, a, key) => outputPolicy'[r] = "source"
  <2>1. TAKE s \in Runs, r \in Runs, a \in Accounts, key \in Keys
  <2>2. HAVE Delegate(s, r, a, key)
  <2>3. outputPolicy' = [outputPolicy EXCEPT ![r] = "source"]
    BY <1>1, <2>2
  <2>4. QED
    BY <2>3 DEF TypeInv, TypeOK
<1>12. QED
  BY <1>10, <1>11

(* Children stay private.                                                  *)
LEMMA PrivateStep ==
    ASSUME TypeInv, Paths, ChildrenPrivate, [Next]_vars
    PROVE  ChildrenPrivate'
<1>1. CASE UNCHANGED lineage
  BY <1>1, PolicyStep DEF ChildrenPrivate, IsChild
<1>2. ASSUME NEW s \in Runs, NEW c \in Runs, NEW a \in Accounts, NEW key \in Keys,
             Delegate(s, c, a, key)
      PROVE  ChildrenPrivate'
  <2>1. outputPolicy'[c] = "source" /\ \A x \in Runs \ {c} : lineage'[x] = lineage[x]
    BY <1>2, PolicyStep, DelegatePath
  <2>2. QED
    BY <2>1, PolicyStep DEF ChildrenPrivate, IsChild
<1>3. QED
  BY <1>1, <1>2, PathsStay

(* The parent of an inserted child, and whether it is active, do not       *)
(* change to what the child could still count on.                          *)
LEMMA ParentStays ==
    ASSUME TypeInv, Paths, [Next]_vars, NEW c \in Runs, status[c] # "unused",
           IsChild(c)', IsActive(Parent(c))'
    PROVE  IsChild(c) /\ Parent(c)' = Parent(c) /\ IsActive(Parent(c))
<1>1. lineage'[c] = lineage[c]
  <2>1. CASE UNCHANGED lineage
    BY <2>1
  <2>2. ASSUME NEW s \in Runs, NEW r \in Runs, NEW a \in Accounts, NEW key \in Keys,
               Delegate(s, r, a, key)
        PROVE  lineage'[c] = lineage[c]
    BY <2>2, DelegatePath
  <2>3. QED
    BY <2>1, <2>2, PathsStay
<1>2. IsChild(c) /\ Parent(c)' = Parent(c)
  BY <1>1 DEF IsChild, Parent
<1>3. Parent(c) \in Runs
  BY <1>2, ParentType DEF TypeInv
<1>4. status[Parent(c)] # "unused"
  <2>1. lineage[c] \in Seq(Runs) /\ lineage[c] # << >>
    BY <1>2 DEF IsChild, TypeInv, TypeOK
  <2>2. Len(lineage[c]) \in 1 .. Len(lineage[c])
    BY <2>1
  <2>3. QED
    BY <2>2 DEF Parent, Paths, PathOf
<1>6. status[Parent(c)] \notin Terminal
  <2> DEFINE p == Parent(c)
  <2>1. status'[p] \in Active
    BY <1>2
  <2> HIDE DEF p
  <2>2. status[p] \in Terminal => status'[p] = status[p]
    BY <1>3, TerminalKept DEF p
  <2>3. status[p] \notin Terminal
    BY <2>1, <2>2
  <2>4. QED
    BY <2>3 DEF p
<1>7. status[Parent(c)] \in Statuses
  BY <1>3 DEF TypeInv, TypeOK
<1>8. QED
  BY <1>2, <1>4, <1>6, <1>7

(* A message of a run, once written, stays.                                *)
LEMMA TerminalMessageStays ==
    ASSUME TypeInv, NEW new, RowsFrom(new), NEW c \in Runs,
           \E m \in runMessages \cup new : m.from = c /\ m.kind \in {"result", "blocked"}
    PROVE  \E m \in runMessages' : m.from = c /\ m.kind \in {"result", "blocked"}
<1>1. runMessages \cup new \in SUBSET Message
  BY DEF RowsFrom, Inserted, TypeInv, TypeOK
<1>2. \A m \in runMessages \cup new : \E n \in runMessages' : GoesOn(m, n)
  BY <1>1, AdvanceFacts DEF RowsFrom
<1>3. QED
  BY <1>2 DEF GoesOn

(* Runs are completed and cancelled by EndStep only.                       *)
LEMMA QuietByEnds ==
    ASSUME TypeInv, Paths, [Next]_vars, NEW x \in Runs, NewlyQuiet(x)
    PROVE  \E r \in Runs : EndStep(r)
<1>1. CASE TreeUndisturbed
  BY <1>1 DEF TreeUndisturbed, NewlyQuiet
<1>2. ASSUME NEW s \in Runs, NEW r \in Runs, NEW a \in Accounts, NEW key \in Keys,
             Delegate(s, r, a, key)
      PROVE  FALSE
  BY <1>2, DelegateFacts DEF NewlyQuiet
<1>3. QED
  BY <1>1, <1>2, OthersUndisturb

(* When the step completes or cancels a child of an active parent, the     *)
(* child has sent its terminal message, or sends it now.                   *)
LEMMA EndInforms ==
    ASSUME TypeInv, RowsInv, Paths, ChildrenPrivate, TerminalKey \notin Keys, [Next]_vars,
           NEW c \in Runs, NewlyQuiet(c), IsChild(c), IsActive(Parent(c))
    PROVE  \E m \in runMessages' : m.from = c /\ m.kind \in {"result", "blocked"}
<1>1. PICK r \in Runs : EndStep(r)
  BY QuietByEnds
<1>2. PICK new : RowsStep(new) /\ \A x \in Runs : NewlyQuiet(x) => Informs(x, new)
  BY <1>1, RowsStay, EndRows
<1>3. RowsFrom(new) /\ Informs(c, new)
  BY <1>2 DEF RowsStep, RowsFrom
<1>4. outputPolicy[c] = "source"
  BY DEF ChildrenPrivate
<1>5. CASE HasTerminalMessage(c)
  BY <1>3, <1>5, TerminalMessageStays DEF HasTerminalMessage
<1>6. CASE NeedsNotice(c) /\ Notice(c, "blocked") \in new
  <2>1. Notice(c, "blocked").from = c /\ Notice(c, "blocked").kind = "blocked"
    BY DEF Notice, Posted
  <2>2. QED
    BY <1>3, <1>6, <2>1, TerminalMessageStays
<1>7. CASE ~NeedsNotice(c)
  <2>1. PICK m \in runMessages : m.from = c /\ m.key = TerminalKey
    BY <1>4, <1>7 DEF NeedsNotice, Repeated
  <2>2. m.kind \in {"result", "blocked"}
    BY <2>1 DEF RowsInv, KeysOfKinds
  <2>3. QED
    BY <1>3, <2>1, <2>2, TerminalMessageStays
<1>8. QED
  BY <1>3, <1>4, <1>5, <1>6, <1>7 DEF Informs

(* A parent that is still active was told of the end of each child that    *)
(* completed or was cancelled, also when the cancellation of a tree stops  *)
(* half way or a session is revoked (ParentInformed).  It rests on Agents  *)
(* not using the key of the terminal message for another message, which    *)
(* the gateway does not enforce.                                           *)
THEOREM ParentsAreInformed == TerminalKey \notin Keys /\ Spec => []ParentInformed
<1> SUFFICES ASSUME TerminalKey \notin Keys
             PROVE  Spec => []ParentInformed
  OBVIOUS
<1>1. Init => ParentInformed /\ ChildrenPrivate
  BY DEF Init, ParentInformed, ChildrenPrivate, IsChild
<1>2. TypeInv /\ RowsInv /\ Paths /\ ParentInformed /\ ChildrenPrivate /\ [Next]_vars
        => (ParentInformed /\ ChildrenPrivate)'
  <2> SUFFICES ASSUME TypeInv, RowsInv, Paths, ParentInformed, ChildrenPrivate, [Next]_vars
               PROVE  ParentInformed' /\ ChildrenPrivate'
    OBVIOUS
  <2>1. ChildrenPrivate'
    BY PrivateStep
  <2>2. SUFFICES ASSUME NEW c \in Runs, status'[c] \in {"completed", "cancelled"},
                        IsChild(c)', IsActive(Parent(c))'
                 PROVE  \E m \in runMessages' : m.from = c /\ m.kind \in {"result", "blocked"}
    BY <2>1 DEF ParentInformed
  <2>3. status[c] # "unused"
    <3>1. status[c] = "unused" => NewlyQuiet(c)
      BY <2>2 DEF NewlyQuiet
    <3>2. NewlyQuiet(c) => \E r \in Runs : EndStep(r)
      BY QuietByEnds
    <3>3. ASSUME NEW r \in Runs, EndStep(r) PROVE status[c] # "unused"
      BY <2>2, <3>3, EndStepEnds DEF OnlyEnds
    <3>4. QED
      BY <3>1, <3>2, <3>3
  <2>4. IsChild(c) /\ IsActive(Parent(c))
    BY <2>2, <2>3, ParentStays
  <2>5. CASE NewlyQuiet(c)
    BY <2>4, <2>5, EndInforms
  <2>6. CASE ~NewlyQuiet(c)
    <3>1. status[c] \in {"completed", "cancelled"}
      BY <2>2, <2>6 DEF NewlyQuiet
    <3>2. \E m \in runMessages : m.from = c /\ m.kind \in {"result", "blocked"}
      BY <2>4, <3>1 DEF ParentInformed
    <3>3. PICK new : RowsFrom(new)
      BY RowsOrigin
    <3>4. QED
      BY <3>2, <3>3, TerminalMessageStays
  <2>7. QED
    BY <2>5, <2>6
<1>3. QED
  BY <1>1, <1>2, TypeInductive, RowsInductive, PathsInductive, PTL DEF Spec
================================================================================
