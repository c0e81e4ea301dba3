--------------------------- MODULE MCRunExecution ---------------------------
(***************************************************************************)
(* RunExecution for TLC: the symmetry of interchangeable ids, and a view   *)
(* that leaves out what a preparation captured once nothing reads it any   *)
(* more (the closure of a promise that settled).                           *)
(***************************************************************************)
EXTENDS RunExecution, TLC

Symmetry == Permutations(Runs) \cup Permutations(Accounts) \cup Permutations(Keys)

Suspended(r)  == prep[r] \in {"compact", "session", "prompt", "retry"}
InSession(r)  == prep[r] \in {"session", "prompt"}

LiveState ==
    <<runVars, runMessages, backgroundVars, accountVars, contextVars,
      contextGeneration, prep, gateway,
      [r \in Runs |-> <<IF Suspended(r) THEN capGen[r] ELSE 0,
                        IF Suspended(r) THEN retried[r] ELSE FALSE,
                        IF InSession(r) THEN capSession[r] ELSE 0,
                        IF prep[r] = "prompt" THEN capCatchup[r] ELSE None>>]>>
=============================================================================
