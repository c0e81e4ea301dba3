------------------------------ MODULE ChatClient ------------------------------
(***************************************************************************)
(* What a browser shows of the runs of a Space, and what it lets the owner *)
(* do: the composer, the run progress and the Space view around them.      *)
(*                                                                         *)
(* Runs, their events and the owner's requests meet in three ways: events  *)
(* arrive in order, answers of requests and of timeline fetches arrive     *)
(* whenever they do.  One group Space, root runs, one request of the       *)
(* composer and one of the run buttons at a time; other owners' devices    *)
(* post, stop and switch sessions, too.  Lost events are in Timeline.      *)
(***************************************************************************)
EXTENDS Naturals, Sequences

CONSTANTS
    ChatRuns,
    ChatSessions,   \* ids of SpaceSessions
    FirstSession,
    NoEntry,        \* no entry in the run progress
    MaxNews,        \* bound: events
    MaxFetches,     \* bound: timeline fetches at a time
    MaxLost         \* bound: failed requests

(* No entry of the run progress is none of its records.                   *)
ASSUME ChatAssumption ==
    /\ FirstSession \in ChatSessions
    /\ NoEntry \notin [state : {"pending", "running"}, source : BOOLEAN, said : BOOLEAN]

VARIABLES
    chatRun,        \* runs of the gateway
    chatSession,    \* activeSpaceSessionId of the gateway
    opened,         \* sessions there have been
    news,           \* events published
    heard,          \* number of those the view has handled
    viewed,         \* space.activeSpaceSessionId of the view
    context,        \* the session the run progress is set to
    progress,       \* entries of the run progress
    fetches,        \* reloadActiveTimeline calls under way
    request,        \* what the composer waits for
    control,        \* what a stop or background button waits for
    lost,
    overtaken       \* history: runs whose events overtook an answer

gatewaySide == <<chatRun, chatSession, opened, news>>
waiting     == <<fetches, request, control>>
progressVars   == <<viewed, context, progress>>
chatVars    == <<gatewaySide, waiting, progressVars, heard, lost, overtaken>>

NoRun == [state |-> "none", session |-> FirstSession, source |-> FALSE, said |-> FALSE]
Nothing == [kind |-> "nothing"]
NewFetch(own) == [kind |-> "asked", own |-> own]

Working(row) == row.state \in {"pending", "running"}

-----------------------------------------------------------------------------
(* The gateway *)

Announce(type, r, row) ==
    /\ Len(news) < MaxNews
    /\ news' = Append(news, [type |-> type, run |-> r, row |-> row])

Tell(type, r, row) ==
    /\ chatRun' = [chatRun EXCEPT ![r] = row]
    /\ Announce(type, r, row)
    /\ UNCHANGED <<chatSession, opened>>

RunCreated(r) ==
    /\ chatRun[r] = NoRun
    /\ chatRun' = [chatRun EXCEPT ![r] = [NoRun EXCEPT !.state = "pending", !.session = chatSession]]
    /\ UNCHANGED <<chatSession, opened, news>>

RunStarted(r) ==
    chatRun[r].state = "pending" /\ Tell("started", r, [chatRun[r] EXCEPT !.state = "running"])

(* A backgrounded run writes no message into the Space.                    *)
Speaks(r) ==
    /\ chatRun[r].state = "running" /\ ~chatRun[r].source /\ ~chatRun[r].said
    /\ Tell("message", r, [chatRun[r] EXCEPT !.said = TRUE])

Backgrounded(r) ==
    /\ chatRun[r].state = "running" /\ ~chatRun[r].source
    /\ Tell("backgrounded", r, [chatRun[r] EXCEPT !.source = TRUE])

RunEnded(r) == Working(chatRun[r]) /\ Tell("ended", r, [chatRun[r] EXCEPT !.state = "ended"])

(* Another session becomes active: refused while a run of the old works.   *)
Switched(s) ==
    /\ s # chatSession
    /\ \A r \in ChatRuns : ~(chatRun[r].session = chatSession /\ Working(chatRun[r]))
    /\ chatSession' = s /\ opened' = opened \union {s}
    /\ Len(news) < MaxNews
    /\ news' = Append(news, [type |-> "session", session |-> s])
    /\ UNCHANGED chatRun

(* Daemons and other devices.                                              *)
Elsewhere ==
    /\ \/ \E r \in ChatRuns : RunCreated(r) \/ RunStarted(r) \/ Speaks(r) \/ Backgrounded(r) \/ RunEnded(r)
       \/ \E s \in ChatSessions : Switched(s)
    /\ UNCHANGED <<waiting, progressVars, heard, lost, overtaken>>

-----------------------------------------------------------------------------
(* The run progress *)

(* foregroundRuns: what the composer's stop button is about.               *)
Foreground == {r \in ChatRuns : progress[r] # NoEntry /\ ~progress[r].source}

(* upsert: a run of another session, or one that is over, is passed over.  *)
Upsert(es, r, row, session) ==
    IF row.session # session \/ ~Working(row) THEN es
    ELSE [es EXCEPT ![r] = [state |-> row.state, source |-> row.source,
                            said |-> @ # NoEntry /\ @.said]]

(* Mutant of HandleRunEvent: the end of a backgrounded run is not heard.   *)
HandleForegroundEvent(es, e) ==
    CASE e.type \in {"started", "backgrounded"} -> Upsert(es, e.run, e.row, context)
      [] e.type = "message" /\ es[e.run] # NoEntry -> [es EXCEPT ![e.run].said = TRUE]
      [] e.type = "ended" /\ ~e.row.source -> [es EXCEPT ![e.run] = NoEntry]
      [] OTHER -> es

(* handleEvent                                                             *)
HandleRunEvent(es, e) ==
    CASE e.type \in {"started", "backgrounded"} -> Upsert(es, e.run, e.row, context)
      [] e.type = "message" /\ es[e.run] # NoEntry -> [es EXCEPT ![e.run].said = TRUE]
      [] e.type = "ended" -> [es EXCEPT ![e.run] = NoEntry]
      [] OTHER -> es

NoEntries == [r \in ChatRuns |-> NoEntry]

(* hydrate: the live runs of the timeline, those with a message marked.    *)
HydratedEntries(rows, session) ==
    [r \in ChatRuns |->
        IF rows[r].session = session /\ Working(rows[r])
        THEN [state |-> rows[r].state, source |-> rows[r].source, said |-> rows[r].said]
        ELSE NoEntry]

(* Runs the view has heard of since an answer was given.                   *)
Overtook(n) ==
    LET late == {news[i] : i \in n + 1 .. heard}
    IN  IF \E e \in late : e.type = "session" THEN ChatRuns ELSE {e.run : e \in late}

-----------------------------------------------------------------------------
(* The Space view *)

Reload(own) ==
    \E i \in 1 .. MaxFetches :
        /\ fetches[i] = Nothing
        /\ \A j \in 1 .. i - 1 : fetches[j] # Nothing
        /\ fetches' = [fetches EXCEPT ![i] = NewFetch(own)]

(* handleRuntimeEvent: a session event empties the progress and reloads.   *)
HearNews ==
    /\ heard < Len(news)
    /\ heard' = heard + 1
    /\ LET e == news[heard + 1]
       IN  IF e.type = "session"
           THEN /\ viewed' = e.session
                /\ progress' = NoEntries
                /\ Reload(FALSE)
                /\ UNCHANGED overtaken
           ELSE /\ progress' = HandleRunEvent(progress, e)
                /\ overtaken' = IF e.type = "ended" THEN overtaken \ {e.run} ELSE overtaken
                /\ UNCHANGED <<viewed, fetches>>
    /\ UNCHANGED <<gatewaySide, request, control, context, lost>>

AnswerTimeline(i) ==
    /\ fetches[i].kind = "asked"
    /\ fetches' = [fetches EXCEPT ![i] = [kind |-> "answered", own |-> @.own, at |-> Len(news),
                                         session |-> chatSession, runs |-> chatRun]]
    /\ UNCHANGED <<gatewaySide, request, control, progressVars, heard, lost, overtaken>>

(* What arrives is shown; nothing tells an older answer from a newer one.  *)
TimelineArrives(i) ==
    /\ fetches[i].kind = "answered"
    /\ LET answer == fetches[i]
       IN  /\ viewed' = answer.session /\ context' = answer.session
           /\ progress' = HydratedEntries(answer.runs, answer.session)
           /\ overtaken' = Overtook(answer.at)
           /\ request' = IF answer.own THEN Nothing ELSE request
    /\ fetches' = [fetches EXCEPT ![i] = Nothing]
    /\ UNCHANGED <<gatewaySide, control, heard, lost>>

-----------------------------------------------------------------------------
(* The composer *)

(* submit: not while a run works in the foreground or a request is under   *)
(* way.  A message, /new, or a session of the history.                     *)
Submit(content) ==
    /\ request = Nothing /\ Foreground = {}
    /\ request' = content
    /\ UNCHANGED <<gatewaySide, fetches, control, progressVars, heard, lost, overtaken>>

ServeMessage(r) ==
    /\ request.kind = "message" /\ request.stage = "asked"
    /\ RunCreated(r)
    /\ request' = [kind |-> "message", stage |-> "answered", run |-> r, row |-> chatRun'[r],
                   at |-> Len(news)]
    /\ UNCHANGED <<fetches, control, progressVars, heard, lost, overtaken>>

(* /new and /resume, or their refusal.                                     *)
ServeSwitch(s) ==
    /\ request.kind \in {"new", "resume"} /\ request.stage = "asked"
    /\ IF request.kind = "new" THEN s \notin opened ELSE s = request.session /\ s \in opened
    /\ Switched(s)
    /\ request' = [kind |-> "switch", stage |-> "answered", session |-> s,
                   resumed |-> request.kind = "resume"]
    /\ UNCHANGED <<fetches, control, progressVars, heard, lost, overtaken>>

(* registerRuns; only a resumed session empties the progress at once.      *)
RequestArrives ==
    /\ request.kind \in {"message", "switch"} /\ request.stage = "answered"
    /\ IF request.kind = "message"
       THEN /\ progress' = Upsert(progress, request.run, request.row, context)
            /\ overtaken' = overtaken \union ({request.run} \intersect Overtook(request.at))
            /\ request' = Nothing
            /\ UNCHANGED <<viewed, fetches>>
       ELSE /\ viewed' = request.session
            /\ progress' = IF request.resumed THEN NoEntries ELSE progress
            /\ Reload(TRUE)
            /\ request' = [kind |-> "reload", stage |-> "asked"]
            /\ UNCHANGED overtaken
    /\ UNCHANGED <<gatewaySide, control, context, heard, lost>>

-----------------------------------------------------------------------------
(* The buttons of a run *)

Press(kind, r) ==
    /\ control = Nothing
    /\ progress[r] # NoEntry
    /\ kind = "background" => progress[r].state = "running" /\ ~progress[r].source
    /\ control' = [kind |-> kind, stage |-> "asked", run |-> r]
    /\ UNCHANGED <<gatewaySide, fetches, request, progressVars, heard, lost, overtaken>>

(* The stop of a run that is over is answered with the run as it is, and   *)
(* so is the backgrounding of one that is in the background; a run that    *)
(* cannot be backgrounded is refused.                                      *)
ServeControl ==
    /\ control # Nothing /\ control.stage = "asked"
    /\ LET r == control.run
           refused == control.kind = "background" /\ ~chatRun[r].source /\ chatRun[r].state # "running"
       IN  /\ CASE control.kind = "stop" /\ Working(chatRun[r]) -> RunEnded(r)
                [] control.kind = "background" /\ chatRun[r].state = "running"
                                               /\ ~chatRun[r].source -> Backgrounded(r)
                [] OTHER -> UNCHANGED gatewaySide
           /\ control' = IF refused THEN Nothing
                         ELSE [kind |-> control.kind, stage |-> "answered", run |-> r,
                               row |-> chatRun'[r], at |-> Len(news)]
    /\ UNCHANGED <<fetches, request, progressVars, heard, lost, overtaken>>

(* The answer is handled as the event would be.                            *)
ControlArrives ==
    /\ control # Nothing /\ control.stage = "answered"
    /\ progress' = IF control.kind = "stop" THEN [progress EXCEPT ![control.run] = NoEntry]
                ELSE Upsert(progress, control.run, control.row, context)
    /\ overtaken' = IF control.kind = "stop" THEN overtaken
                    ELSE overtaken \union ({control.run} \intersect Overtook(control.at))
    /\ control' = Nothing
    /\ UNCHANGED <<gatewaySide, fetches, request, viewed, context, heard, lost>>

(* A request or its answer is lost, or it is refused.                      *)
LoseRequest ==
    /\ lost < MaxLost /\ lost' = lost + 1
    /\ \/ request # Nothing /\ request.kind # "reload" /\ request' = Nothing /\ UNCHANGED control
       \/ control # Nothing /\ control' = Nothing /\ UNCHANGED request
    /\ UNCHANGED <<gatewaySide, fetches, progressVars, heard, overtaken>>

ChatInit ==
    /\ chatRun = [r \in ChatRuns |-> NoRun]
    /\ chatSession = FirstSession /\ opened = {FirstSession}
    /\ news = << >> /\ heard = 0
    /\ viewed = FirstSession /\ context = FirstSession /\ progress = NoEntries
    /\ fetches = [i \in 1 .. MaxFetches |-> Nothing]
    /\ request = Nothing /\ control = Nothing
    /\ lost = 0 /\ overtaken = {}

ChatNext ==
    \/ Elsewhere \/ HearNews
    \/ \E i \in 1 .. MaxFetches : AnswerTimeline(i) \/ TimelineArrives(i)
    \/ \E kind \in {"message", "new"} : Submit([kind |-> kind, stage |-> "asked"])
    \/ \E s \in opened \ {viewed} : Submit([kind |-> "resume", stage |-> "asked", session |-> s])
    \/ \E r \in ChatRuns : ServeMessage(r) \/ \E kind \in {"stop", "background"} : Press(kind, r)
    \/ \E s \in ChatSessions : ServeSwitch(s)
    \/ RequestArrives \/ ServeControl \/ ControlArrives \/ LoseRequest

ChatSpec == ChatInit /\ [][ChatNext]_chatVars

-----------------------------------------------------------------------------
(* Properties *)

Settled ==
    /\ heard = Len(news) /\ request = Nothing /\ control = Nothing
    /\ \A i \in 1 .. MaxFetches : fetches[i] = Nothing

(* A view that has heard everything and waits for nothing shows the run    *)
(* feedback of exactly the runs at work in the active session, with the    *)
(* button that applies to each, so that the composer is not left in stop   *)
(* mode; unless an answer of a run was overtaken by its later events.      *)
ShownRunsAreTrue ==
    Settled =>
        \A r \in ChatRuns \ overtaken :
            LET row == chatRun[r]
            IN  IF row.session = chatSession /\ row.state = "running"
                THEN progress[r] = [state |-> "running", source |-> row.source, said |-> row.said]
                ELSE progress[r] # NoEntry => row.session = chatSession /\ row.state = "pending"
=============================================================================
