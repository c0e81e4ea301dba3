------------------------------ MODULE DaemonLink ------------------------------
(***************************************************************************)
(* The link between the gateway and the daemon of one Account: the Account *)
(* Session, the directed event channel with its ring buffer, the wake      *)
(* supervisor, and the daemon's connection loop.                           *)
(*                                                                         *)
(* A request and its answer are one step; the step also stands for the     *)
(* cases in which the request or the answer is lost.  An open stream is a  *)
(* FIFO of frames.  A session is named by its number, 0 is no session; the *)
(* token of a session is never handed out again.  Time is not modelled: a  *)
(* timer may fire whenever it is armed.                                    *)
(***************************************************************************)
EXTENDS Integers, Sequences, FiniteSets

CONSTANTS
    None,                   \* null
    BufferSize,             \* agentDaemon.eventBufferSize
    MaxConnectionFailures,  \* maxConnectionFailures of the connection loop
    MaxSessions,            \* bound: sessions the gateways ever issue
    MaxSeq,                 \* bound: frames a channel publishes
    MaxFaults               \* bound: lost requests and answers, cut streams,
                            \*   crashes and restarts

ASSUME LinkAssumption ==
    /\ BufferSize \in Nat \ {0} /\ MaxConnectionFailures \in Nat \ {0}
    /\ MaxSessions \in Nat /\ MaxSeq \in Nat /\ MaxFaults \in Nat
    /\ None \notin Nat

VARIABLES
    \* the gateway process
    gwSession,      \* the live Account Session in memory
    issued,         \* how many were ever issued
    online,         \* account.presence = "online"
    channel,        \* the hub of the Account's directed channel
    listener,       \* session of the connection that subscribes to it
    \* the network
    stream,         \* the daemon's side of the response: "none" "open" "ended"
    wire,           \* frames written to it and not yet read
    faults,         \* faults so far
    \* the daemon process
    dpc,            \* "off" or where its connection loop stands
    token,          \* the session it holds
    lastEventId,    \* its resume cursor
    failures,       \* consecutive failures of its connection loop
    updating,       \* gatewayUpdateScheduled()
    wake,           \* a wake request is on its way to the supervisor
    \* history, for the refinement
    log,            \* every frame the channel published
    resets          \* resets the daemon read

gatewayVars == <<gwSession, issued, online, channel, listener, log>>
wireVars    == <<stream, wire>>
daemonVars  == <<dpc, token, lastEventId, failures, updating, resets>>
linkVars    == <<gatewayVars, wireVars, faults, daemonVars, wake>>

Fault(on) == IF on THEN faults < MaxFaults /\ faults' = faults + 1
                   ELSE UNCHANGED faults

-----------------------------------------------------------------------------
(* The event hub *)

EventTypes == {"run.requested", "agent.heartbeat", "gateway.update.scheduled"}

Frame(n, t)    == [seq |-> n, type |-> t]
EventHub(s)    == [session |-> s, seq |-> 0, buffer |-> << >>]

(* Mutant of HasGap: one event of a gap is forgotten.                       *)
HasGapOffByOne(h, since) ==
    \/ since > h.seq
    \/ since < h.seq /\ (h.buffer = << >> \/ since + 1 < h.buffer[1].seq - 1)

HubPublish(h, type) ==
    LET b == Append(h.buffer, Frame(h.seq + 1, type))
    IN  [session |-> h.session, seq |-> h.seq + 1,
         buffer |-> IF Len(b) > BufferSize THEN Tail(b) ELSE b]

HasGap(h, since) ==
    \/ since > h.seq
    \/ since < h.seq /\ (h.buffer = << >> \/ since < h.buffer[1].seq - 1)

(* The buffered frames after `since`: their numbers run up to h.seq.       *)
ReplaySince(h, since) ==
    LET n == Len(h.buffer) - (h.seq - since)
    IN  IF n <= 0 THEN h.buffer ELSE SubSeq(h.buffer, n + 1, Len(h.buffer))

(* What a new subscriber is sent first: the frames after its cursor, or a  *)
(* reset that carries the current number.                                  *)
Replay(h, since) ==
    IF HasGap(h, since) THEN <<Frame(h.seq, "stream.reset")>> ELSE ReplaySince(h, since)

(* A subscriber whose response is still connected gets the frame f.        *)
Written(f) == IF listener # 0 /\ stream = "open" THEN Append(wire, f) ELSE wire

EndedStream == IF stream = "open" THEN "ended" ELSE stream

-----------------------------------------------------------------------------
(* The gateway *)

(* dispatchEvent.  A channel of an earlier session is replaced.            *)
Dispatch(type) ==
    /\ gwSession # 0
    /\ IF channel.session = gwSession
       THEN /\ channel.seq < MaxSeq
            /\ channel' = HubPublish(channel, type)
            /\ log' = Append(log, Frame(channel.seq + 1, type))
            /\ wire' = Written(Frame(channel.seq + 1, type))
            /\ UNCHANGED <<listener, stream>>
       ELSE /\ 0 < MaxSeq
            /\ channel' = HubPublish(EventHub(gwSession), type)
            /\ log' = <<Frame(1, type)>>
            /\ listener' = 0
            /\ stream' = EndedStream
            /\ UNCHANGED wire

(* The notice of a scheduled gateway update.                               *)
ScheduleUpdate ==
    /\ online
    /\ Dispatch("gateway.update.scheduled")
    /\ UNCHANGED <<gwSession, issued, online, faults, daemonVars, wake>>

(* The heartbeat timer of a connection: it closes the connection of a      *)
(* session that is no longer current.                                      *)
Heartbeat ==
    /\ listener # 0
    /\ IF listener = gwSession
       THEN Dispatch("agent.heartbeat")
       ELSE /\ listener' = 0
            /\ stream' = EndedStream
            /\ UNCHANGED <<channel, log, wire>>
    /\ UNCHANGED <<gwSession, issued, online, faults, daemonVars, wake>>

(* revokeAccountSessionState.  Nobody closes the stream: the heartbeat     *)
(* timer notices.                                                          *)
RevokeSession ==
    /\ gwSession' = 0
    /\ online' = FALSE
    /\ UNCHANGED <<issued, channel, listener, log, wireVars, daemonVars, wake>>

(* The gateway process starts again: sessions and channels were in memory, *)
(* and recoverAccountPresence marks the Account offline.                   *)
RestartGateway ==
    /\ gwSession' = 0
    /\ online' = FALSE
    /\ channel' = EventHub(0)
    /\ log' = << >>
    /\ listener' = 0
    /\ stream' = IF stream = "none" THEN "none" ELSE "ended"
    /\ \E n \in 0 .. Len(wire) : wire' = SubSeq(wire, 1, n)
    /\ wake' = FALSE
    /\ UNCHANGED <<issued, daemonVars>>

(* requestWake of an Account that is offline.  A request that no           *)
(* supervisor hears is refused, one that finds the daemon alive is dropped.*)
RequestWake ==
    /\ ~online
    /\ dpc = "off"
    /\ wake' = TRUE
    /\ UNCHANGED <<gatewayVars, wireVars, faults, daemonVars>>

-----------------------------------------------------------------------------
(* Login *)

(* The Account Key is refused while the session is in use, and `busy` says *)
(* whether the Account has an active run; a key login issues a session and *)
(* revokes the one before it.                                              *)
KeyAccepted(busy) == ~(gwSession # 0 /\ (online \/ busy)) /\ issued < MaxSessions

IssueSession ==
    /\ issued' = issued + 1
    /\ gwSession' = issued + 1
    /\ online' = TRUE
    /\ UNCHANGED <<channel, listener, log>>

(* A login by session token keeps the session.                             *)
ResumeAccepted == token # 0 /\ token = gwSession

ResumeSession ==
    /\ online' = TRUE
    /\ UNCHANGED <<gwSession, issued, channel, listener, log>>

-----------------------------------------------------------------------------
(* The daemon *)

Stop(code) == dpc' = code

(* The waker spawns the daemon when it starts and at each wake request;    *)
(* start() logs in with the Account Key and gives up when that fails.      *)
StartDaemon(busy, outcome) ==
    /\ dpc = "off"
    /\ Fault(outcome = "lost")
    /\ \/ /\ KeyAccepted(busy)
          /\ IssueSession
          /\ IF outcome = "lost"
             THEN UNCHANGED daemonVars
             ELSE /\ dpc' = "connect"
                  /\ token' = issued + 1
                  /\ lastEventId' = None
                  /\ failures' = 0
                  /\ updating' = FALSE
                  /\ UNCHANGED resets
          /\ wake' = FALSE
       \/ /\ ~KeyAccepted(busy)
          /\ outcome = "answered"
          /\ wake
          /\ wake' = FALSE
          /\ UNCHANGED <<gatewayVars, daemonVars>>
    /\ UNCHANGED wireVars

(* One failure of the connection loop.                                     *)
Fail ==
    /\ failures' = failures + 1
    /\ dpc' = IF failures + 1 >= MaxConnectionFailures /\ ~updating
              THEN "gateway_unreachable" ELSE "backoff"
    /\ stream' = "none"
    /\ wire' = << >>
    /\ UNCHANGED <<token, lastEventId, updating, resets>>

(* A daemon that has read nothing yet asks for everything.                 *)
Cursor == IF lastEventId = None THEN 0 ELSE lastEventId

(* The event stream of the current session is opened: openEvents.          *)
Connect ==
    /\ dpc = "connect"
    /\ token = gwSession
    /\ channel' = IF channel.session = gwSession THEN channel ELSE EventHub(gwSession)
    /\ log' = IF channel.session = gwSession THEN log ELSE << >>
    /\ listener' = gwSession
    /\ \/ /\ wire' = Replay(channel', Cursor)
          /\ stream' = "open"
          /\ dpc' = "reading"
          /\ Fault(FALSE)
          /\ UNCHANGED <<token, lastEventId, failures, updating, resets>>
       \/ Fault(TRUE) /\ Fail
    /\ UNCHANGED <<gwSession, issued, online, wake>>

(* It cannot be reached, or it does not know the session.                  *)
ConnectRefused ==
    /\ dpc = "connect"
    /\ \/ Fault(TRUE) /\ Fail
       \/ /\ token # gwSession
          /\ Stop("account_reauthentication_required")
          /\ failures' = failures + 1
          /\ Fault(FALSE)
          /\ UNCHANGED <<wireVars, token, lastEventId, updating, resets>>
    /\ UNCHANGED <<gatewayVars, wake>>

(* The frame at the head of the stream, handled by the connection loop.    *)
ReadFrame ==
    /\ dpc = "reading"
    /\ wire # << >>
    /\ lastEventId' = Head(wire).seq
    /\ IF Head(wire).type = "stream.reset"
       THEN /\ failures' = 1
            /\ dpc' = IF MaxConnectionFailures = 1 /\ ~updating
                      THEN "gateway_unreachable" ELSE "backoff"
            /\ stream' = "none"
            /\ wire' = << >>
            /\ resets' = resets + 1
            /\ UNCHANGED <<listener, updating>>
       ELSE /\ failures' = 0
            /\ wire' = Tail(wire)
            /\ updating' = (updating \/ Head(wire).type = "gateway.update.scheduled")
            /\ UNCHANGED <<listener, dpc, stream, resets>>
    /\ UNCHANGED <<gwSession, issued, online, channel, log, faults, token, wake>>

(* The response ended, or the connection broke with frames on the way;     *)
(* the gateway may take a while to notice.                                 *)
StreamEnds ==
    /\ dpc = "reading"
    /\ \/ stream = "ended" /\ wire = << >> /\ Fault(FALSE) /\ UNCHANGED listener
       \/ stream # "none" /\ Fault(TRUE) /\ listener' \in {listener, 0}
    /\ Fail
    /\ UNCHANGED <<gwSession, issued, online, channel, log, wake>>

(* After the backoff the daemon resumes its session.  Under a scheduled    *)
(* update a gateway that has forgotten the session is logged in to again   *)
(* with the Account Key, and the cursor starts over.                       *)
Relogin(busy) ==
    /\ dpc = "backoff"
    /\ \/ /\ ResumeAccepted
          /\ ResumeSession
          /\ dpc' = "connect"
          /\ failures' = IF updating THEN 0 ELSE failures
          /\ updating' = FALSE
          /\ Fault(FALSE)
          /\ UNCHANGED <<token, lastEventId, resets>>
       \/ /\ ~ResumeAccepted /\ updating /\ KeyAccepted(busy)
          /\ IssueSession
          /\ dpc' = "connect"
          /\ lastEventId' = None
          /\ \/ /\ token' = issued + 1
                /\ failures' = 0
                /\ updating' = FALSE
                /\ UNCHANGED resets
                /\ Fault(FALSE)
             \/ Fault(TRUE) /\ UNCHANGED <<token, failures, updating, resets>>
    /\ UNCHANGED <<wireVars, wake>>

ReloginRefused(busy) ==
    /\ dpc = "backoff"
    /\ \/ /\ Fault(TRUE)
          /\ dpc' = "connect"
          /\ UNCHANGED lastEventId
       \/ /\ ~ResumeAccepted /\ ~updating
          /\ Fault(FALSE)
          /\ Stop("account_reauthentication_required")
          /\ UNCHANGED lastEventId
       \/ /\ ~ResumeAccepted /\ updating /\ ~KeyAccepted(busy)
          /\ Fault(FALSE)
          /\ dpc' = "connect"
          /\ lastEventId' = None
    /\ UNCHANGED <<gatewayVars, wireVars, token, failures, updating, resets, wake>>

(* The time of the notice is over.                                         *)
UpdateExpires ==
    /\ updating
    /\ updating' = FALSE
    /\ UNCHANGED <<gatewayVars, wireVars, faults, dpc, token, lastEventId, failures, resets,
                   wake>>

Looping == {"connect", "reading", "backoff"}

(* No frame for three heartbeat intervals.                                 *)
HeartbeatLost ==
    /\ dpc \in Looping
    /\ ~updating
    /\ Stop("gateway_unreachable")
    /\ Fault(TRUE)
    /\ UNCHANGED <<gatewayVars, wireVars, token, lastEventId, failures, updating, resets,
                   wake>>

(* terminate() is over and the process exits, or the process crashed.  In  *)
(* neither case is the gateway told.                                       *)
ExitDaemon ==
    /\ dpc' = "off"
    /\ token' = 0
    /\ lastEventId' = None
    /\ failures' = 0
    /\ updating' = FALSE
    /\ UNCHANGED resets
    /\ stream' = "none"
    /\ wire' = << >>
    /\ UNCHANGED <<gwSession, issued, online, channel, log, wake>>
    /\ listener' \in {listener, 0}

Stopping == {"gateway_unreachable", "account_reauthentication_required"}

LinkInit ==
    /\ gwSession = 0
    /\ issued = 0
    /\ online = FALSE
    /\ channel = EventHub(0)
    /\ listener = 0
    /\ stream = "none"
    /\ wire = << >>
    /\ faults = 0
    /\ dpc = "off"
    /\ token = 0
    /\ lastEventId = None
    /\ failures = 0
    /\ updating = FALSE
    /\ wake = TRUE
    /\ log = << >>
    /\ resets = 0

LinkTypeOK ==
    /\ {gwSession, issued, token, listener} \subseteq 0 .. MaxSessions
    /\ online \in BOOLEAN /\ updating \in BOOLEAN /\ wake \in BOOLEAN
    /\ channel.session \in 0 .. MaxSessions /\ channel.seq \in 0 .. MaxSeq
    /\ Len(channel.buffer) <= BufferSize
    /\ stream \in {"none", "open", "ended"}
    /\ dpc \in {"off"} \cup Looping \cup Stopping
    /\ lastEventId \in {None} \cup 0 .. MaxSeq
    /\ failures \in 0 .. MaxConnectionFailures + MaxFaults
    /\ faults \in 0 .. MaxFaults

-----------------------------------------------------------------------------
(* The link on its own: the rest of the gateway sends run events *)

SendRun ==
    /\ Dispatch("run.requested")
    /\ UNCHANGED <<gwSession, issued, online, faults, daemonVars, wake>>

Revoke  == gwSession # 0 /\ Fault(TRUE) /\ RevokeSession
Restart == Fault(TRUE) /\ RestartGateway
Exit    == ExitDaemon /\ \/ dpc \in Stopping /\ Fault(FALSE)
                         \/ dpc \in Looping /\ Fault(TRUE)

LinkNext ==
    \/ SendRun \/ ScheduleUpdate \/ Heartbeat \/ Revoke \/ Restart \/ RequestWake
    \/ \E busy \in BOOLEAN :
          \/ \E outcome \in {"answered", "lost"} : StartDaemon(busy, outcome)
          \/ Relogin(busy) \/ ReloginRefused(busy)
    \/ Connect \/ ConnectRefused \/ ReadFrame \/ StreamEnds
    \/ UpdateExpires \/ HeartbeatLost \/ Exit

LinkSpec == LinkInit /\ [][LinkNext]_linkVars

-----------------------------------------------------------------------------
(* Properties *)

(* Events the daemon has still to handle: of a live session, those the     *)
(* channel numbered after its cursor; of one that is over, those that are  *)
(* still on the wire.                                                      *)
Live == token # 0 /\ token = gwSession /\ token = channel.session

Unread ==
    IF Live THEN SubSeq(log, Cursor + 1, Len(log))
    ELSE IF wire # << >> /\ Head(wire).type = "stream.reset" THEN << >> ELSE wire

Delivery == INSTANCE DirectedDelivery
            WITH Events <- {Frame(n, type) : n \in 1 .. MaxSeq, type \in EventTypes},
                 Sessions <- 1 .. MaxSessions,
                 session <- gwSession, holder <- token, unread <- Unread

(* The channel with its ring buffer, cursors, cut streams, reconnects,     *)
(* logins and restarts implements DirectedDelivery: no frame of a live     *)
(* session, be it a run, a heartbeat or a notice, is skipped, repeated or  *)
(* reordered without a stream.reset.                                       *)
ImplementsDelivery == Delivery!DeliverySpec
=============================================================================
