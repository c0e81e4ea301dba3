----------------------------- MODULE MCDaemonRun -----------------------------
(***************************************************************************)
(* The daemon for TLC: its runs against the gateway, its command-line      *)
(* adapters, its server adapter; and the Forge dialog of a browser, the    *)
(* gateway's other client.  `part` says which of them a behaviour is       *)
(* about; the others stay as they were.                                    *)
(*                                                                         *)
(* The view drops what is left of a run once it ended at the gateway and   *)
(* in the daemon and no event about it is on its way: no action reads it   *)
(* any more, and the view keeps whether it satisfies the invariants.       *)
(***************************************************************************)
EXTENDS DaemonRun, CliAdapter, ServerAdapter, ForgeDialog

VARIABLE part

adapterVars == <<cliVars, serverVars>>

MCInit ==
    /\ part \in {"runs", "cli", "server", "dialog"}
    /\ DaemonInit /\ CliInit /\ ServerInit /\ DialogInit
    /\ part # "cli" => provider = "codex" /\ binding.valid

MCNext ==
    /\ UNCHANGED part
    /\ \/ part = "runs"   /\ DaemonNext /\ UNCHANGED <<adapterVars, dialogVars>>
       \/ part = "cli"    /\ CliNext    /\ UNCHANGED <<vars, serverVars, dialogVars>>
       \/ part = "server" /\ ServerNext /\ UNCHANGED <<vars, cliVars, dialogVars>>
       \/ part = "dialog" /\ DialogNext /\ UNCHANGED <<vars, adapterVars>>

MCSpec == MCInit /\ [][MCNext]_<<part, vars, adapterVars, dialogVars>>

Over(r) == /\ status[r] \in Terminal
           /\ stage[r] \in {"none", "done"}
           /\ \A i \in 1 .. Len(unread) : unread[i].run # r

Sound == DaemonTypeOK /\ TimelineFaithful /\ AllowIsGranted /\ EndedRunSettled

View ==
    <<part, adapterVars, dialogVars, linkVars, sessionRules, Sound,
      [r \in Runs |->
          IF Over(r) THEN <<runSession[r], approval[r] = "allow_session">>
          ELSE <<runSession[r], approval[r], status[r], accepted[r], streaming[r], committed[r],
                 stage[r], emitted[r], reported[r], reportError[r], hasMessage[r], aborted[r],
                 ask[r], answer[r]>>]>>
=============================================================================
