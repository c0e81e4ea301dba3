------------------------------- MODULE Timeline -------------------------------
(***************************************************************************)
(* The timeline of a Space as a browser shows it: the gateway's messages   *)
(* and its event stream with the ring buffer, the stream that reconnects,  *)
(* the app runtime that fetches everything again after a reset, and the    *)
(* Space view that fetches the timeline and applies events to it.          *)
(*                                                                         *)
(* A message is "none", "streaming" or "completed" and has a number of     *)
(* deltas.  A fetch has two steps, the answer and its arrival; an event    *)
(* may arrive in between.  One Space and one session of it are shown, and  *)
(* fewer messages than a page has.                                         *)
(***************************************************************************)
EXTENDS Naturals, Sequences

CONSTANTS
    Messages,
    SseBuffer,      \* sse.bufferSize
    ResetBuffer,    \* maxBufferedEvents
    MaxDeltas,      \* bound: deltas of a message
    MaxEvents,      \* bound: number of the last event
    MaxBreaks       \* bound: lost connections, failed fetches, restarts

VARIABLES
    \* the gateway
    rows,           \* messages in memory
    ring,           \* buffered events
    eventSeq,
    saved,          \* [rows, seq] as the store has last written them
    \* the connection
    linked,         \* the browser's source is open
    frames,         \* events written to it and not yet read
    breaks,
    \* the browser
    since,          \* the cursor of the reconnecting stream
    bootstrap,      \* the fetch of a reset, Idle if none is pending
    resetBuffer,    \* events that arrive during it
    resetOverflow,
    hydration,      \* the fetch of hydrateFromBootstrap, Idle if none
    baseline,       \* baselineSeq of it
    pendingEvents,  \* events that arrive during it
    reload,         \* the fetch of reloadActiveTimeline, Idle if none
    shown,          \* the messages of the view
    \* history
    unsynced        \* the view knowingly or unknowingly lost an event

gatewayRows == <<rows, ring, eventSeq, saved>>
viewVars    == <<hydration, baseline, pendingEvents, reload, shown>>
resetVars   == <<bootstrap, resetBuffer, resetOverflow>>
browserVars == <<since, resetVars, viewVars, unsynced>>
timelineVars == <<gatewayRows, linked, frames, breaks, browserVars>>

NoRow  == [state |-> "none", deltas |-> 0]
Idle   == [at |-> "idle"]
Asked  == [at |-> "asked"]
Answer(snapshot, n) == [at |-> "answered", rows |-> snapshot, seq |-> n]

Break == breaks < MaxBreaks /\ breaks' = breaks + 1

-----------------------------------------------------------------------------
(* The gateway *)

(* Mutant: the event before the oldest buffered one is forgotten.          *)
HasHoleOffByOne(n) ==
    \/ n > eventSeq
    \/ n < eventSeq /\ (ring = << >> \/ n + 1 < ring[1].seq - 1)

HasHole(n) ==
    \/ n > eventSeq
    \/ n < eventSeq /\ (ring = << >> \/ n < ring[1].seq - 1)

(* publish: buffered, written to the subscriber, and the watermark raised. *)
PublishEvent(type, m, row) ==
    LET e == [seq |-> eventSeq + 1, type |-> type, message |-> m, row |-> row]
        b == Append(ring, e)
    IN  /\ eventSeq < MaxEvents
        /\ eventSeq' = eventSeq + 1
        /\ ring' = IF Len(b) > SseBuffer THEN Tail(b) ELSE b
        /\ frames' = IF linked THEN Append(frames, e) ELSE frames

(* A message is opened, grows and is closed; or a file changes.            *)
StreamMessage(m) ==
    /\ eventSeq + 1 < saved.seq + SseBuffer
    /\ \E type \in {"created", "delta", "completed"} :
          LET row == CASE type = "created"   -> [state |-> "streaming", deltas |-> 0]
                       [] type = "delta"     -> [rows[m] EXCEPT !.deltas = @ + 1]
                       [] type = "completed" -> [rows[m] EXCEPT !.state = "completed"]
          IN  /\ type = "created" <=> rows[m].state = "none"
              /\ type # "created" => rows[m].state = "streaming"
              /\ type = "delta" => rows[m].deltas < MaxDeltas
              /\ rows' = [rows EXCEPT ![m] = row]
              /\ PublishEvent(type, m, row)
    /\ UNCHANGED <<saved, linked, breaks, browserVars>>

UpdateFile ==
    /\ eventSeq + 1 < saved.seq + SseBuffer
    /\ \E m \in Messages : PublishEvent("file", m, rows[m])
    /\ UNCHANGED <<rows, saved, linked, breaks, browserVars>>

(* A flush of the store, or one that dies before meta.json.                *)
SaveRows ==
    /\ saved.rows # rows \/ saved.seq # eventSeq
    /\ \E n \in {saved.seq, eventSeq} : saved' = [rows |-> rows, seq |-> n]
    /\ UNCHANGED <<rows, ring, eventSeq, linked, frames, breaks, browserVars>>

(* The gateway starts anew: interrupted messages are closed, and the       *)
(* numbers jump ahead of what was saved.                                   *)
Recovered(r) == IF r.state = "streaming" THEN [r EXCEPT !.state = "completed"] ELSE r

RestartHub ==
    /\ Break
    /\ saved.seq + SseBuffer <= MaxEvents
    /\ rows' = [m \in Messages |-> Recovered(saved.rows[m])]
    /\ eventSeq' = IF saved.seq > 0 THEN saved.seq + SseBuffer ELSE 0
    /\ ring' = << >>
    /\ saved' = [saved EXCEPT !.rows = rows']
    /\ linked' = FALSE
    /\ \E n \in 0 .. Len(frames) : frames' = SubSeq(frames, 1, n)
    /\ UNCHANGED browserVars

-----------------------------------------------------------------------------
(* The browser: the Space view *)

(* ingestEvent of the timeline store.                                      *)
Ingested(view, e) ==
    CASE e.type = "created" -> [view EXCEPT ![e.message] = e.row]
      [] e.type = "delta" /\ view[e.message] # NoRow ->
            [view EXCEPT ![e.message] = [state |-> "streaming", deltas |-> @.deltas + 1]]
      [] e.type = "completed" /\ view[e.message] # NoRow -> [view EXCEPT ![e.message] = e.row]
      [] OTHER -> view

IngestAll(view, es) ==
    LET after[i \in 0 .. Len(es)] == IF i = 0 THEN view ELSE Ingested(after[i - 1], es[i])
    IN  after[Len(es)]

Newer(es, n) == SelectSeq(es, LAMBDA e : e.seq > n)

(* handleRuntimeEvent: a file event makes the view fetch its timeline      *)
(* again, any other is applied, or kept while the view hydrates.           *)
HandleEvent(e) ==
    IF e.type = "file"
    THEN reload' = Asked /\ UNCHANGED <<hydration, baseline, pendingEvents, shown>>
    ELSE /\ IF hydration # Idle
            THEN pendingEvents' = Append(pendingEvents, e) /\ UNCHANGED shown
            ELSE /\ shown' = Ingested(shown, e)
                 /\ UNCHANGED pendingEvents
         /\ UNCHANGED <<hydration, baseline, reload>>

AnswerFetch ==
    /\ \/ /\ hydration = Asked
          /\ hydration' = Answer(rows, eventSeq)
          /\ UNCHANGED <<reload, bootstrap>>
       \/ /\ reload = Asked
          /\ reload' = Answer(rows, eventSeq)
          /\ UNCHANGED <<hydration, bootstrap>>
       \/ /\ bootstrap = Asked
          /\ bootstrap' = Answer(rows, eventSeq)
          /\ UNCHANGED <<hydration, reload>>
    /\ UNCHANGED <<gatewayRows, linked, frames, breaks, since, resetBuffer, resetOverflow,
                   baseline, pendingEvents, shown, unsynced>>

(* hydrateFromBootstrap, once the timeline has arrived.                    *)
Hydrated ==
    /\ hydration.at = "answered"
    /\ shown' = IngestAll(hydration.rows, Newer(pendingEvents, baseline))
    /\ pendingEvents' = << >>
    /\ hydration' = Idle
    /\ UNCHANGED <<gatewayRows, linked, frames, breaks, since, resetVars, baseline, reload, unsynced>>

(* A fetch fails: handleHydrationError, which gives up what is kept.       *)
FetchFails ==
    /\ Break
    /\ \/ hydration # Idle /\ hydration' = Idle /\ UNCHANGED reload
       \/ reload # Idle /\ reload' = Idle /\ hydration' = Idle
    /\ pendingEvents' = << >>
    /\ unsynced' = TRUE
    /\ UNCHANGED <<gatewayRows, linked, frames, since, resetVars, baseline, shown>>

(* reloadActiveTimeline: what has arrived replaces the view, whatever was  *)
(* applied to it since the answer.                                         *)
Reloaded ==
    /\ reload.at = "answered"
    /\ shown' = reload.rows
    /\ unsynced' = (unsynced \/ since > reload.seq)
    /\ reload' = Idle
    /\ UNCHANGED <<gatewayRows, linked, frames, breaks, since, resetVars, hydration, baseline,
                   pendingEvents>>

-----------------------------------------------------------------------------
(* The browser: the app runtime and the stream *)

(* A reset starts a new fetch, one that comes during a reset is dropped.   *)
(* Other events are kept during a reset.                                   *)
ReadEvent ==
    /\ frames # << >>
    /\ frames' = Tail(frames)
    /\ LET e == Head(frames)
       IN  IF e.type = "stream.reset"
           THEN /\ IF bootstrap = Idle
                   THEN /\ bootstrap' = Asked
                        /\ resetBuffer' = << >>
                        /\ resetOverflow' = FALSE
                        /\ UNCHANGED unsynced
                   ELSE unsynced' = TRUE /\ UNCHANGED resetVars
                /\ UNCHANGED <<since, viewVars>>
           ELSE /\ since' = e.seq
                /\ IF bootstrap # Idle
                   THEN /\ resetBuffer' = IF Len(resetBuffer) < ResetBuffer
                                          THEN Append(resetBuffer, e)
                                          ELSE Tail(Append(resetBuffer, e))
                        /\ resetOverflow' = (resetOverflow \/ Len(resetBuffer) = ResetBuffer)
                        /\ UNCHANGED <<bootstrap, viewVars>>
                   ELSE HandleEvent(e) /\ UNCHANGED resetVars
                /\ UNCHANGED unsynced
    /\ UNCHANGED <<gatewayRows, linked, breaks>>

(* reset, once the bootstrap has arrived: the view hydrates anew and gets  *)
(* what was kept.  After an overflow it is fetched again.                  *)
BootstrapArrives ==
    /\ bootstrap.at = "answered"
    /\ resetBuffer' = << >>
    /\ resetOverflow' = FALSE
    /\ IF resetOverflow
       THEN bootstrap' = Asked /\ UNCHANGED <<since, viewVars>>
       ELSE LET kept == Newer(resetBuffer, bootstrap.seq)
            IN  /\ bootstrap' = Idle
                /\ since' = IF kept = << >> THEN bootstrap.seq ELSE kept[Len(kept)].seq
                /\ hydration' = Asked
                /\ baseline' = bootstrap.seq
                /\ pendingEvents' = SelectSeq(kept, LAMBDA e : e.type # "file")
                /\ reload' = IF \E i \in 1 .. Len(kept) : kept[i].type = "file" THEN Asked
                             ELSE reload
                /\ UNCHANGED shown
    /\ UNCHANGED <<gatewayRows, linked, frames, breaks, unsynced>>

(* The fetch of a reset fails; after a delay it is made again.             *)
BootstrapFails ==
    /\ bootstrap # Idle
    /\ Break
    /\ bootstrap' = Asked
    /\ resetBuffer' = << >>
    /\ resetOverflow' = FALSE
    /\ UNCHANGED <<gatewayRows, linked, frames, since, viewVars, unsynced>>

(* The source fails, its late events are ignored; the stream opens a new   *)
(* one with its cursor, and the hub replays or resets.                     *)
LoseConnection ==
    /\ linked
    /\ Break
    /\ linked' = FALSE
    /\ \E n \in 0 .. Len(frames) : frames' = SubSeq(frames, 1, n)
    /\ UNCHANGED <<gatewayRows, browserVars>>

Reconnect ==
    /\ ~linked
    /\ frames = << >>
    /\ linked' = TRUE
    /\ frames' = IF HasHole(since)
                 THEN << [seq |-> eventSeq, type |-> "stream.reset"] >>
                 ELSE Newer(ring, since)
    /\ UNCHANGED <<gatewayRows, breaks, browserVars>>

(* The page opens: the bootstrap is there, the timeline is fetched, and    *)
(* the stream is opened from the number of the bootstrap.  The gateway has *)
(* saved a watermark before.                                               *)
TimelineInit ==
    /\ rows = [m \in Messages |-> NoRow]
    /\ ring = << >> /\ eventSeq = 1
    /\ saved = [rows |-> rows, seq |-> 1]
    /\ linked = FALSE /\ frames = << >> /\ breaks = 0
    /\ since = 1
    /\ bootstrap = Idle /\ resetBuffer = << >> /\ resetOverflow = FALSE
    /\ hydration = Asked /\ baseline = 1 /\ pendingEvents = << >>
    /\ reload = Idle
    /\ shown = [m \in Messages |-> NoRow]
    /\ unsynced = FALSE

TimelineNext ==
    \/ UpdateFile \/ SaveRows \/ RestartHub
    \/ AnswerFetch \/ Hydrated \/ FetchFails \/ Reloaded
    \/ ReadEvent \/ BootstrapArrives \/ BootstrapFails \/ LoseConnection \/ Reconnect
    \/ \E m \in Messages : StreamMessage(m)

TimelineSpec == TimelineInit /\ [][TimelineNext]_timelineVars

-----------------------------------------------------------------------------
(* Properties *)

Quiet == linked /\ frames = << >> /\ bootstrap = Idle /\ hydration = Idle /\ reload = Idle

(* A browser that has nothing more to read or to fetch shows every message *)
(* that is completed as the gateway has it, through lost connections,      *)
(* resets and restarts; unless a fetch failed, a reset came during a reset *)
(* or an event overtook the answer of a reload.                            *)
QuietViewIsCurrent ==
    Quiet /\ ~unsynced =>
        \A m \in Messages : rows[m].state # "streaming" => shown[m] = rows[m]
=============================================================================
