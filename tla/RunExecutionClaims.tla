------------------------- MODULE RunExecutionClaims -------------------------
(***************************************************************************)
(* What comments and tests of the repository say about the execution of    *)
(* runs, and the code does not do: each of these is checked by a run of    *)
(* its own that TLC finds violated (see the findings in the README).       *)
(***************************************************************************)
EXTENDS MCRunExecution

(* execution-lock.js:2-3: "the invariant is already Account-wide: a Run    *)
(* and a context compaction using the same Account must never overlap".    *)
RunCompactionExclusive ==
    \A a \in Accounts : ~(compaction[a] = "running" /\ RunningOn(a) # {})

(* test/spaces/run-controller.test.js:622: a failure before the start      *)
(* "ends the pending Run", and only that: the gateway goes on.             *)
StartFailureContained == Up
=============================================================================
