---------------------------- MODULE ServerAdapter ----------------------------
(***************************************************************************)
(* The OpenCode adapter: runs and memory digests of a daemon share one     *)
(* local server, which is started when it is needed, watched through an    *)
(* event stream, and stopped when nobody used it for a while.              *)
(*                                                                         *)
(* Sessions of the server, the short-lived runner process and the events   *)
(* that end a run are modelled by their outcome; HTTP, tool activities and *)
(* the text of a model are left out.                                       *)
(***************************************************************************)
EXTENDS Naturals, FiniteSets

CONSTANTS
    Calls,          \* runs and digests, each happens once
    NoCall,         \* none of them
    DigestCalls,    \* those that are memory digests
    MaxServers,     \* bound: servers ever started
    MaxServerFaults \* bound: servers that do not start or die, refused requests, stops

ASSUME CallsAssumption == IsFiniteSet(Calls) /\ NoCall \notin Calls /\ MaxServers \in Nat

VARIABLES
    server,     \* number -> its process
    daemon,     \* number of the server in use, or 0
    starting,   \* number of the server being started, or 0
    call,       \* call -> where it is, which server it got, how it ended
    listener,   \* the call that receives the events of the shared session
    turn,       \* the call whose turn the server works at in that session
    inFlight,   \* calls between their start and their end
    idleTimer,  \* the idle timer is set
    closed,     \* shutdown() was called
    serverFaults

serverVars == <<server, daemon, starting, call, listener, turn, inFlight, idleTimer, closed,
                serverFaults>>

Servers == 1 .. MaxServers
Up(s)   == s # 0 /\ server[s] = "up"
InFlight(c) == call[c].at \notin {"none", "done"}
ServerFault == serverFaults < MaxServerFaults /\ serverFaults' = serverFaults + 1
At(c, place) == call' = [call EXCEPT ![c].at = place]

-----------------------------------------------------------------------------
(* Entering and leaving: what keeps the server *)

(* Mutant of Entered: the call is not counted.                             *)
EnteredUncounted == idleTimer' = FALSE /\ UNCHANGED inFlight

Entered == idleTimer' = FALSE /\ inFlight' = inFlight + 1

Enter(c) ==
    /\ call[c].at = "none" /\ ~closed
    /\ Entered
    /\ At(c, "ensuring")
    /\ UNCHANGED <<server, daemon, starting, listener, turn, closed, serverFaults>>

(* finally: the listener of the session is deleted, whoever it is; the     *)
(* last call starts the idle timer.                                        *)
Leave(c, how) ==
    /\ call' = [call EXCEPT ![c].at = "done", ![c].how = how]
    /\ listener' = IF c \in DigestCalls \/ call[c].at = "ensuring" THEN listener ELSE NoCall
    /\ inFlight' = inFlight - 1
    /\ idleTimer' = (idleTimer \/ inFlight' = 0)
    /\ UNCHANGED <<server, daemon, starting, closed>>

(* A digest looks at its signal before it begins, and a run that is        *)
(* cancelled before it begins is not entered.                              *)
GiveUp(c) ==
    /\ call[c].at = "ensuring" /\ call[c].handle = 0 /\ c \in DigestCalls /\ call[c].stopped
    /\ Leave(c, "cancelled") /\ UNCHANGED <<turn, serverFaults>>

-----------------------------------------------------------------------------
(* ensureDaemon *)

UseDaemon(c) ==
    /\ call[c].at = "ensuring" /\ Up(daemon)
    /\ call' = [call EXCEPT ![c].at = "session", ![c].handle = daemon]
    /\ idleTimer' = FALSE
    /\ UNCHANGED <<server, daemon, starting, listener, turn, inFlight, closed, serverFaults>>

(* Calls that come while a server is started wait for the same one.        *)
StartDaemon(c) ==
    /\ call[c].at = "ensuring" /\ ~Up(daemon) /\ starting = 0
    /\ \E s \in Servers :
          /\ server[s] = "none" /\ \A o \in Servers : o < s => server[o] # "none"
          /\ server' = [server EXCEPT ![s] = "starting"]
          /\ starting' = s
    /\ At(c, "joined") /\ idleTimer' = FALSE
    /\ UNCHANGED <<daemon, listener, turn, inFlight, closed, serverFaults>>

JoinStart(c) ==
    /\ call[c].at = "ensuring" /\ ~Up(daemon) /\ starting # 0
    /\ At(c, "joined") /\ idleTimer' = FALSE
    /\ UNCHANGED <<server, daemon, starting, listener, turn, inFlight, closed, serverFaults>>

(* The health check succeeds: the promise hands the server to all who      *)
(* wait, also after shutdown().                                            *)
Healthy ==
    /\ starting # 0
    /\ server' = [server EXCEPT ![starting] = "up"]
    /\ daemon' = starting /\ starting' = 0
    /\ call' = [c \in Calls |-> IF call[c].at = "joined"
                                THEN [call[c] EXCEPT !.at = "session", !.handle = starting]
                                ELSE call[c]]
    /\ UNCHANGED <<listener, turn, inFlight, idleTimer, closed, serverFaults>>

(* The check fails or the process exits: it is killed, and all fail.       *)
Unhealthy ==
    /\ starting # 0 /\ ServerFault
    /\ server' = [server EXCEPT ![starting] = "gone"]
    /\ starting' = 0
    /\ call' = [c \in Calls |-> IF call[c].at = "joined"
                                THEN [call[c] EXCEPT !.at = "failing"] ELSE call[c]]
    /\ UNCHANGED <<daemon, listener, turn, inFlight, idleTimer, closed>>

Fails(c) ==
    /\ call[c].at = "failing"
    /\ Leave(c, "failed") /\ UNCHANGED <<turn, serverFaults>>

-----------------------------------------------------------------------------
(* stopDaemon *)

StopDaemon ==
    /\ daemon' = 0
    /\ server' = IF Up(daemon) THEN [server EXCEPT ![daemon] = "stopping"] ELSE server

IdleTimerFires ==
    /\ idleTimer /\ idleTimer' = FALSE
    /\ IF inFlight = 0 THEN StopDaemon ELSE UNCHANGED <<server, daemon>>
    /\ UNCHANGED <<starting, call, listener, turn, inFlight, closed, serverFaults>>

(* shutdown does not wait for calls nor for a server that is starting.     *)
Shutdown ==
    /\ ~closed /\ closed' = TRUE
    /\ idleTimer' = FALSE
    /\ StopDaemon
    /\ UNCHANGED <<starting, call, listener, turn, inFlight, serverFaults>>

(* SIGTERM takes effect; the SIGKILL after it does nothing, because the    *)
(* child counts as killed.                                                 *)
ServerExits(s) ==
    /\ server[s] = "stopping"
    /\ server' = [server EXCEPT ![s] = "gone"]
    /\ UNCHANGED <<daemon, starting, call, listener, turn, inFlight, idleTimer, closed,
                   serverFaults>>

ServerDies(s) ==
    /\ server[s] = "up" /\ ServerFault
    /\ server' = [server EXCEPT ![s] = "gone"]
    /\ daemon' = IF daemon = s THEN 0 ELSE daemon
    /\ turn' = NoCall
    /\ UNCHANGED <<starting, call, listener, inFlight, idleTimer, closed>>

-----------------------------------------------------------------------------
(* A run *)

(* The session of the binding is there, or a new one is made and persisted *)
(* after a rotation; the listener is set and the runner spawned.           *)
OpenSession(c) ==
    /\ call[c].at = "session" /\ c \notin DigestCalls /\ Up(call[c].handle)
    /\ listener' = c /\ turn' = c
    /\ At(c, "running")
    /\ UNCHANGED <<server, daemon, starting, inFlight, idleTimer, closed, serverFaults>>

SessionFails(c) ==
    /\ call[c].at = "session"
    /\ IF Up(call[c].handle) THEN ServerFault ELSE UNCHANGED serverFaults
    /\ Leave(c, "failed") /\ UNCHANGED turn

(* session.idle goes to the listener of the session, whosever turn ended.  *)
SessionIdle ==
    /\ turn # NoCall /\ turn' = NoCall
    /\ IF listener # NoCall /\ call[listener].at = "running"
       THEN Leave(listener, "completed")
       ELSE UNCHANGED <<server, daemon, starting, call, listener, inFlight, idleTimer, closed>>
    /\ UNCHANGED serverFaults

(* The runner process exits: with 0, or with an error; the watchdog fires; *)
(* an error event arrives.                                                 *)
RunnerExits(c) ==
    /\ call[c].at = "running" /\ c \notin DigestCalls
    /\ \/ Leave(c, "completed") /\ UNCHANGED serverFaults
       \/ ServerFault /\ Leave(c, "failed")
    /\ turn' \in {turn, IF turn = c THEN NoCall ELSE turn}

(* Cancellation is heard from the moment the runner was spawned only.      *)
Cancel(c) ==
    /\ InFlight(c) /\ ~call[c].stopped /\ ServerFault
    /\ IF call[c].at = "running" THEN Leave(c, "cancelled")
       ELSE /\ call' = [call EXCEPT ![c].stopped = TRUE]
            /\ UNCHANGED <<server, daemon, starting, listener, inFlight, idleTimer, closed>>
    /\ UNCHANGED turn

-----------------------------------------------------------------------------
(* A digest: its own session, tools denied, its own signal in every        *)
(* request.                                                                *)
DigestRequest(c) ==
    /\ call[c].at = "session" /\ c \in DigestCalls /\ Up(call[c].handle) /\ ~call[c].stopped
    /\ At(c, "running")
    /\ UNCHANGED <<server, daemon, starting, listener, turn, inFlight, idleTimer, closed,
                   serverFaults>>

(* The answer and the session's error and tool events race; the session is *)
(* deleted before the call is over.                                        *)
DigestEnds(c) ==
    /\ call[c].at \in {"session", "running"} /\ c \in DigestCalls
    /\ \/ /\ call[c].at = "running" /\ Up(call[c].handle)
          /\ Leave(c, "completed") /\ UNCHANGED serverFaults
       \/ call[c].stopped /\ Leave(c, "cancelled") /\ UNCHANGED serverFaults
       \/ ServerFault /\ Leave(c, "failed")
       \/ ServerFault /\ Leave(c, "quota")
    /\ UNCHANGED turn

(* An exhausted quota is tried once more with the model configured for it. *)
Fallback(c) ==
    /\ call[c].how = "quota" /\ call[c].handle # 0
    /\ call' = [call EXCEPT ![c].at = "ensuring", ![c].how = "fallback", ![c].handle = 0]
    /\ Entered
    /\ UNCHANGED <<server, daemon, starting, listener, turn, closed, serverFaults>>

-----------------------------------------------------------------------------
ServerInit ==
    /\ server = [s \in Servers |-> "none"]
    /\ daemon = 0 /\ starting = 0
    /\ call = [c \in Calls |-> [at |-> "none", handle |-> 0, how |-> "open", stopped |-> FALSE]]
    /\ listener = NoCall /\ turn = NoCall
    /\ inFlight = 0 /\ idleTimer = FALSE /\ closed = FALSE /\ serverFaults = 0

ServerNext ==
    \/ \E c \in Calls :
          \/ Enter(c) \/ GiveUp(c) \/ UseDaemon(c) \/ StartDaemon(c) \/ JoinStart(c) \/ Fails(c)
          \/ OpenSession(c) \/ SessionFails(c) \/ RunnerExits(c) \/ Cancel(c)
          \/ DigestRequest(c) \/ DigestEnds(c) \/ Fallback(c)
    \/ Healthy \/ Unhealthy \/ IdleTimerFires \/ Shutdown \/ SessionIdle
    \/ \E s \in Servers : ServerExits(s) \/ ServerDies(s)

ServerSpec == ServerInit /\ [][ServerNext]_serverVars

-----------------------------------------------------------------------------
(* The server serves its calls and no longer: until the adapter is shut    *)
(* down, no server is stopped while a call uses it, and a server that      *)
(* nobody uses has a timer that will stop it.                              *)
ServerOutlivesItsCalls ==
    ~closed =>
       /\ \A c \in Calls : call[c].at \in {"session", "running"} =>
             server[call[c].handle] # "stopping"
       /\ Up(daemon) /\ (\A c \in Calls : ~InFlight(c)) => idleTimer
=============================================================================
