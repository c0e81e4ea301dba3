---------------------------- MODULE DaemonRunProofs ----------------------------
(***************************************************************************)
(* Proofs about the runs of a daemon: the timeline is what the executor    *)
(* put out, "allow" was granted for the session, and an ended run leaves   *)
(* nothing open.  Then about the adapters that execute them: the threads   *)
(* of command-line models and the server that runs share.                  *)
(***************************************************************************)
EXTENDS DaemonRun, CliAdapter, ServerAdapter, FiniteSetTheorems, SequenceTheorems, TLAPS

USE DEF channelVars, linkVars, rowVars, outputVars, approvalVars, handlerVars, Terminal

-----------------------------------------------------------------------------
(* The invariant *)

Statuses  == {"none", "running"} \union Terminal
Stages    == {"none", "executing", "returned", "last", "completing", "committing", "failing", "done"}
Approvals == {"none", "pending", "approve", "allow", "allow_session", "deny", "expired"}
AnEvent   == [type : EventTypes, run : Runs]

GatewayTypes ==
    /\ session \in Nat /\ holder \in Nat /\ issued \in Nat /\ unread \in Seq(AnEvent)
    /\ status \in [Runs -> Statuses] /\ runSession \in [Runs -> Nat]
    /\ accepted \in [Runs -> Seq(Nat)] /\ streaming \in [Runs -> BOOLEAN]
    /\ approval \in [Runs -> Approvals] /\ committed \in [Runs -> BOOLEAN]

HandlerTypes ==
    /\ stage \in [Runs -> Stages] /\ emitted \in [Runs -> Seq({"delta", "message"})]
    /\ reported \in [Runs -> Nat] /\ reportError \in [Runs -> BOOLEAN]
    /\ hasMessage \in [Runs -> BOOLEAN] /\ aborted \in [Runs -> BOOLEAN]
    /\ ask \in [Runs -> {"none", "posted", "waiting", "done"}]
    /\ answer \in [Runs -> {"none", "allow", "deny", "error"}]
    /\ sessionRules \in SUBSET Nat

(* A request is delivered at most once, before its run has begun.          *)
Requested(r) == \E i \in 1 .. Len(unread) : unread[i] = Event("run.requested", r)
RequestsSound ==
    /\ \A i, j \in 1 .. Len(unread) :
          unread[i].type = "run.requested" /\ unread[i] = unread[j] => i = j
    /\ \A r \in Runs : Requested(r) => stage[r] = "none" /\ status[r] \notin {"none", "completed"}

(* A run that is not there was not begun, and nothing was asked for it.    *)
BegunSound ==
    \A r \in Runs :
        /\ status[r] = "none" => stage[r] = "none" /\ ask[r] = "none"
        /\ ask[r] = "none" => approval[r] = "none" /\ answer[r] = "none"
        /\ stage[r] = "committing" => r \in ApiRuns

(* What arrived is what the queue is done with, up to its first failure,   *)
(* and the queue of a completed run is and stays empty.                    *)
OutputSound ==
    \A r \in Runs :
        /\ \A i \in 1 .. Len(accepted[r]) : accepted[r][i] = i
        /\ Len(accepted[r]) <= reported[r] /\ reported[r] <= Len(emitted[r])
        /\ ~reportError[r] => Len(accepted[r]) = reported[r]
        /\ status[r] = "completed" => /\ Len(accepted[r]) = Len(emitted[r])
                                      /\ stage[r] \in {"none", "failing", "done"}

(* A rule is there because of an answer for its session.                   *)
Granted(s)  == \E x \in Runs : approval[x] = "allow_session" /\ runSession[x] = s
RulesSound  == \A s \in sessionRules : Granted(s)

DaemonInv ==
    /\ GatewayTypes /\ HandlerTypes
    /\ RequestsSound /\ BegunSound /\ OutputSound
    /\ RulesSound /\ AllowIsGranted /\ EndedRunSettled

LEMMA DaemonInitInv ==
    ASSUME DaemonInit
    PROVE  DaemonInv
<1> USE DEF DaemonInit, DeliveryInit
<1>1. GatewayTypes /\ HandlerTypes
  BY DEF GatewayTypes, HandlerTypes, Statuses, Stages, Approvals
<1>2. RequestsSound
  BY DEF RequestsSound, Requested
<1>3. BegunSound /\ OutputSound
  BY DEF BegunSound, OutputSound
<1>4. RulesSound /\ AllowIsGranted /\ EndedRunSettled
  BY DEF RulesSound, AllowIsGranted, EndedRunSettled
<1>5. QED
  BY <1>1, <1>2, <1>3, <1>4 DEF DaemonInv

-----------------------------------------------------------------------------
(* The channel *)

(* What is left of a sequence of events when some are read or lost.        *)
PartOf(new, old) ==
    /\ new \in Seq(AnEvent)
    /\ \E k \in Nat : \A i \in 1 .. Len(new) : i + k \in 1 .. Len(old) /\ new[i] = old[i + k]

LEMMA PartOfSame ==
    ASSUME NEW old \in Seq(AnEvent)
    PROVE  PartOf(old, old) /\ PartOf(<< >>, old)
<1>1. \A i \in 1 .. Len(old) : i + 0 \in 1 .. Len(old) /\ old[i] = old[i + 0]
  OBVIOUS
<1>2. QED
  BY <1>1 DEF PartOf

LEMMA PartOfTail ==
    ASSUME NEW old \in Seq(AnEvent), old # << >>
    PROVE  PartOf(Tail(old), old) /\ Head(old) = old[1] /\ Len(old) > 0 /\ old[1] \in AnEvent
<1>1. PICK t \in Seq(AnEvent) : t = Tail(old)
  <2>1. Tail(old) \in Seq(AnEvent)
    OBVIOUS
  <2>2. QED
    BY <2>1
<1>2. Len(t) = Len(old) - 1 /\ Len(old) \in Nat /\ Len(old) > 0
  BY <1>1
<1>3. \A i \in 1 .. (Len(old) - 1) : t[i] = old[i + 1]
  BY <1>1
<1>4. \A i \in 1 .. Len(t) : i + 1 \in 1 .. Len(old) /\ t[i] = old[i + 1]
  BY <1>2, <1>3
<1>5. PartOf(t, old)
  BY <1>4 DEF PartOf
<1>6. QED
  BY <1>1, <1>2, <1>5

LEMMA PartOfSubSeq ==
    ASSUME NEW old \in Seq(AnEvent), NEW m \in Nat, NEW n \in Nat, m >= 1, m <= Len(old) + 1, n <= Len(old)
    PROVE  PartOf(SubSeq(old, m, n), old)
<1>1. /\ SubSeq(old, m, n) \in Seq(AnEvent)
      /\ Len(SubSeq(old, m, n)) = IF m <= n THEN n - m + 1 ELSE 0
      /\ \A i \in 1 .. (n - m + 1) : SubSeq(old, m, n)[i] = old[m + i - 1]
  OBVIOUS
<1>2. m - 1 \in Nat
  OBVIOUS
<1>3. \A i \in 1 .. Len(SubSeq(old, m, n)) :
          i + (m - 1) \in 1 .. Len(old) /\ SubSeq(old, m, n)[i] = old[i + (m - 1)]
  BY <1>1
<1>4. QED
  BY <1>1, <1>2, <1>3 DEF PartOf

(* Events that are read or lost take no run back.                          *)
LEMMA PartRequests ==
    ASSUME GatewayTypes, RequestsSound, PartOf(unread', unread)
    PROVE  /\ \A i, j \in 1 .. Len(unread') :
                 unread'[i].type = "run.requested" /\ unread'[i] = unread'[j] => i = j
           /\ \A r \in Runs : Requested(r)' => Requested(r)
<1>1. PICK k \in Nat : \A i \in 1 .. Len(unread') : i + k \in 1 .. Len(unread) /\ unread'[i] = unread[i + k]
  BY DEF PartOf
<1>2. \A i, j \in 1 .. Len(unread') :
                 unread'[i].type = "run.requested" /\ unread'[i] = unread'[j] => i = j
  <2>1. SUFFICES ASSUME NEW i \in 1 .. Len(unread'), NEW j \in 1 .. Len(unread'),
                        unread'[i].type = "run.requested", unread'[i] = unread'[j]
                 PROVE  i = j
    OBVIOUS
  <2>2. i + k = j + k
    <3>1. PICK a \in 1 .. Len(unread), b \in 1 .. Len(unread) : a = i + k /\ b = j + k
      BY <1>1
    <3>2. unread[a] = unread'[i] /\ unread[b] = unread'[j]
      BY <1>1, <3>1
    <3>3. unread[a].type = "run.requested" /\ unread[a] = unread[b]
      BY <2>1, <3>2
    <3>4. a = b
      BY <3>3, Zenon DEF RequestsSound
    <3>5. QED
      BY <3>1, <3>4
  <2>3. i \in Nat /\ j \in Nat
    BY DEF PartOf
  <2>4. QED
    BY <2>2, <2>3
<1>3. ASSUME NEW r \in Runs, Requested(r)'
      PROVE  Requested(r)
  <2>1. PICK i \in 1 .. Len(unread') : unread'[i] = Event("run.requested", r)
    BY <1>3 DEF Requested, Event
  <2>2. QED
    BY <1>1, <2>1 DEF Requested
<1>4. QED
  BY <1>2, <1>3

(* More events are sent, none of which requests a run.                     *)
LEMMA SendFacts ==
    ASSUME GatewayTypes, NEW es \in Seq(AnEvent), Send(es)
    PROVE  /\ session' = session /\ holder' = holder /\ session # 0
           /\ unread' \in Seq(AnEvent)
           /\ Len(unread') >= Len(unread) /\ Len(unread') <= Len(unread) + Len(es)
           /\ \A i \in 1 .. Len(unread) : unread'[i] = unread[i]
           /\ \A i \in 1 .. Len(unread') :
                 i > Len(unread) => i - Len(unread) \in 1 .. Len(es) /\ unread'[i] = es[i - Len(unread)]
<1>1. unread \in Seq(AnEvent) /\ Len(unread) \in Nat /\ Len(es) \in Nat
  BY DEF GatewayTypes
<1>2. CASE session = holder
  <2>1. unread' = unread \o es
    BY <1>2 DEF Send
  <2>2. Len(unread') = Len(unread) + Len(es) /\ unread' \in Seq(AnEvent)
    BY <1>1, <2>1
  <2>3. \A i \in 1 .. Len(unread') :
            unread'[i] = IF i <= Len(unread) THEN unread[i] ELSE es[i - Len(unread)]
    BY <1>1, <2>1
  <2>4. QED
    BY <1>1, <2>2, <2>3 DEF Send
<1>3. CASE session # holder
  BY <1>1, <1>3 DEF Send
<1>4. QED
  BY <1>2, <1>3

LEMMA SendRequests ==
    ASSUME GatewayTypes, RequestsSound, NEW es \in Seq(AnEvent), Send(es),
           \A i \in 1 .. Len(es) : es[i].type # "run.requested"
    PROVE  /\ \A i, j \in 1 .. Len(unread') :
                 unread'[i].type = "run.requested" /\ unread'[i] = unread'[j] => i = j
           /\ \A r \in Runs : Requested(r)' => Requested(r)
<1>1. /\ unread' \in Seq(AnEvent) /\ unread \in Seq(AnEvent)
      /\ \A i \in 1 .. Len(unread) : unread'[i] = unread[i]
      /\ \A i \in 1 .. Len(unread') :
            i > Len(unread) => i - Len(unread) \in 1 .. Len(es) /\ unread'[i] = es[i - Len(unread)]
  BY SendFacts DEF GatewayTypes
<1>2. \A i \in 1 .. Len(unread') : unread'[i].type = "run.requested" =>
            i \in 1 .. Len(unread) /\ unread'[i] = unread[i]
  <2>1. SUFFICES ASSUME NEW i \in 1 .. Len(unread'), unread'[i].type = "run.requested"
                 PROVE  i \in 1 .. Len(unread) /\ unread'[i] = unread[i]
    OBVIOUS
  <2>2. ~(i > Len(unread))
    BY <1>1, <2>1
  <2>3. i \in Nat /\ i >= 1 /\ Len(unread) \in Nat
    BY <1>1
  <2>4. QED
    BY <1>1, <2>2, <2>3
<1>3. \A i, j \in 1 .. Len(unread') :
                 unread'[i].type = "run.requested" /\ unread'[i] = unread'[j] => i = j
  BY <1>2 DEF RequestsSound
<1>4. ASSUME NEW r \in Runs, Requested(r)'
      PROVE  Requested(r)
  <2>1. PICK i \in 1 .. Len(unread') : unread'[i] = Event("run.requested", r)
    BY <1>4 DEF Requested, Event
  <2>2. unread'[i].type = "run.requested"
    BY <2>1 DEF Event
  <2>3. QED
    BY <1>2, <2>1, <2>2 DEF Requested
<1>5. QED
  BY <1>3, <1>4

LEMMA EventType ==
    ASSUME NEW r \in Runs, NEW type \in EventTypes
    PROVE  /\ Event(type, r) \in AnEvent /\ Event(type, r).type = type /\ Event(type, r).run = r
           /\ <<Event(type, r)>> \in Seq(AnEvent)
<1>1. Event(type, r) \in AnEvent /\ Event(type, r).type = type /\ Event(type, r).run = r
  BY DEF Event, AnEvent
<1>2. QED
  BY <1>1

LEMMA ExpiryFacts ==
    ASSUME NEW r \in Runs
    PROVE  /\ Expiry(r) \in Seq(AnEvent)
           /\ \A i \in 1 .. Len(Expiry(r)) : Expiry(r)[i].type # "run.requested"
<1>1. /\ <<Event("approval.answered", r)>> \in Seq(AnEvent)
      /\ Event("approval.answered", r).type = "approval.answered"
  BY EventType DEF EventTypes
<1>2. CASE approval[r] = "pending"
  BY <1>1, <1>2 DEF Expiry
<1>3. CASE approval[r] # "pending"
  BY <1>3 DEF Expiry
<1>4. QED
  BY <1>2, <1>3

(* The end of some running runs closes what they have open.                *)
LEMMA EndRunsFacts ==
    ASSUME GatewayTypes, NEW ended \in SUBSET Runs, NEW s \in Terminal, EndRuns(ended, s)
    PROVE  /\ status' \in [Runs -> Statuses] /\ streaming' \in [Runs -> BOOLEAN]
           /\ approval' \in [Runs -> Approvals]
           /\ \A x \in Runs :
                 /\ status'[x] = IF x \in ended THEN s ELSE status[x]
                 /\ streaming'[x] => streaming[x] /\ x \notin ended
                 /\ approval'[x] = IF x \in ended /\ approval[x] = "pending" THEN "expired" ELSE approval[x]
<1>1. \A x \in Runs : status[x] \in Statuses /\ approval[x] \in Approvals /\ streaming[x] \in BOOLEAN
  BY DEF GatewayTypes
<1>2. \A x \in Runs :
         /\ status'[x] = IF x \in ended THEN s ELSE status[x]
         /\ streaming'[x] = (streaming[x] /\ x \notin ended)
         /\ approval'[x] = IF x \in ended /\ approval[x] = "pending" THEN "expired" ELSE approval[x]
  BY DEF EndRuns
<1>3. "expired" \in Approvals /\ s \in Statuses
  BY DEF Approvals, Statuses
<1>4. QED
  BY <1>1, <1>2, <1>3 DEF EndRuns

(* Rows whose runs fail or are cancelled keep the invariant.               *)
LEMMA EndedRows ==
    ASSUME DaemonInv, NEW ended \in SUBSET Runs, NEW s \in {"failed", "cancelled"}, EndRuns(ended, s),
           \A x \in ended : status[x] = "running",
           UNCHANGED <<runSession, accepted, emitted, reported, reportError>>
    PROVE  /\ \A x \in Runs : /\ status'[x] \in {"none", "completed"} => status'[x] = status[x]
                              /\ status[x] \in {"none", "completed"} => status'[x] = status[x]
           /\ \A x \in Runs : approval[x] \in {"approve", "allow", "allow_session", "none"}
                                 => approval'[x] = approval[x]
           /\ EndedRunSettled'
<1>1. \A x \in Runs :
         /\ status'[x] = IF x \in ended THEN s ELSE status[x]
         /\ streaming'[x] => streaming[x] /\ x \notin ended
         /\ approval'[x] = IF x \in ended /\ approval[x] = "pending" THEN "expired" ELSE approval[x]
  BY EndRunsFacts DEF DaemonInv
<1>2. EndedRunSettled'
  BY <1>1 DEF DaemonInv, EndedRunSettled
<1>3. QED
  BY <1>1, <1>2

LEMMA RequestRunInv ==
    ASSUME DaemonInv, NEW r \in Runs, RequestRun(r)
    PROVE  DaemonInv'
<1> USE DEF DaemonInv
<1>1. /\ status[r] = "none" /\ Send(<<Event("run.requested", r)>>)
      /\ status' = [status EXCEPT ![r] = "running"] /\ runSession' = [runSession EXCEPT ![r] = session]
      /\ UNCHANGED <<issued, faults, accepted, streaming, approval, committed, handlerVars>>
  BY DEF RequestRun
<1>2. PICK e \in AnEvent : e = Event("run.requested", r) /\ e.type = "run.requested" /\ e.run = r
  BY EventType DEF EventTypes
<1>3. /\ session' = session /\ holder' = holder /\ unread' \in Seq(AnEvent)
      /\ \A i \in 1 .. Len(unread) : unread'[i] = unread[i]
      /\ \A i \in 1 .. Len(unread') :
            i > Len(unread) => i - Len(unread) \in 1 .. Len(<<e>>) /\ unread'[i] = <<e>>[i - Len(unread)]
  <2>1. <<e>> \in Seq(AnEvent) /\ Send(<<e>>)
    BY <1>1, <1>2
  <2>2. QED
    BY <2>1, SendFacts
<1>4. GatewayTypes'
  BY <1>1, <1>3 DEF GatewayTypes, Statuses
<1>5. HandlerTypes'
  BY <1>1 DEF HandlerTypes
<1>6. RequestsSound'
  <2>1. Len(unread) \in Nat /\ Len(unread') \in Nat
    BY <1>3 DEF GatewayTypes
  <2>2. \A i \in 1 .. Len(unread') : \/ i \in 1 .. Len(unread) /\ unread'[i] = unread[i]
                                     \/ i = Len(unread) + 1 /\ unread'[i] = e
    <3>1. Len(<<e>>) = 1 /\ <<e>>[1] = e
      OBVIOUS
    <3>2. TAKE i \in 1 .. Len(unread')
    <3>3. CASE i > Len(unread)
      <4>1. i - Len(unread) \in 1 .. Len(<<e>>) /\ unread'[i] = <<e>>[i - Len(unread)]
        BY <1>3, <3>3
      <4>2. i - Len(unread) = 1 /\ i \in Nat
        BY <2>1, <3>1, <4>1
      <4>3. unread'[i] = e
        BY <3>1, <4>1, <4>2
      <4>4. QED
        BY <2>1, <4>2, <4>3
    <3>4. CASE ~(i > Len(unread))
      <4>1. i \in 1 .. Len(unread)
        BY <2>1, <3>4
      <4>2. unread'[i] = unread[i]
        BY <1>3, <4>1
      <4>3. QED
        BY <4>1, <4>2
    <3>5. QED
      BY <3>3, <3>4
  <2>3. \A i \in 1 .. Len(unread) : unread[i] # e
    BY <1>1, <1>2 DEF RequestsSound, Requested
  <2>4. \A i, j \in 1 .. Len(unread') :
          unread'[i].type = "run.requested" /\ unread'[i] = unread'[j] => i = j
    BY <2>2, <2>3 DEF RequestsSound
  <2>5. ASSUME NEW x \in Runs, Requested(x)'
        PROVE  x = r \/ Requested(x)
    <3>1. PICK i \in 1 .. Len(unread') : unread'[i] = Event("run.requested", x)
      BY <2>5 DEF Requested, Event
    <3>2. Event("run.requested", x).run = x
      BY EventType DEF EventTypes
    <3>3. QED
      BY <1>2, <2>2, <3>1, <3>2 DEF Requested
  <2>6. stage'[r] = "none" /\ status'[r] = "running"
    BY <1>1 DEF BegunSound, GatewayTypes
  <2>7. \A x \in Runs \ {r} : stage'[x] = stage[x] /\ status'[x] = status[x]
    BY <1>1 DEF GatewayTypes
  <2>8. ASSUME NEW x \in Runs, Requested(x)'
        PROVE  stage'[x] = "none" /\ status'[x] \notin {"none", "completed"}
    BY <2>5, <2>6, <2>7, <2>8 DEF RequestsSound
  <2>9. QED
    BY <2>4, <2>8 DEF RequestsSound
<1>7. \A x \in Runs : /\ status'[x] = IF x = r THEN "running" ELSE status[x]
                      /\ x # r => runSession'[x] = runSession[x]
  BY <1>1 DEF GatewayTypes
<1>8. BegunSound' /\ OutputSound'
  BY <1>1, <1>7 DEF BegunSound, OutputSound
<1>9. approval[r] = "none" /\ answer[r] = "none"
  BY <1>1 DEF BegunSound
<1>10. RulesSound' /\ AllowIsGranted'
  BY <1>1, <1>7, <1>9 DEF RulesSound, Granted, AllowIsGranted
<1>11. EndedRunSettled'
  BY <1>1, <1>7 DEF EndedRunSettled
<1>12. QED
  BY <1>4, <1>5, <1>6, <1>8, <1>10, <1>11

(* What EndedRows leaves to show: the channel and the handler.             *)
LEMMA EndedStep ==
    ASSUME DaemonInv, NEW ended \in SUBSET Runs, NEW s \in {"failed", "cancelled"}, EndRuns(ended, s),
           \A x \in ended : status[x] = "running",
           UNCHANGED <<runSession, accepted, emitted, reported, reportError>>,
           GatewayTypes', HandlerTypes',
           \A i, j \in 1 .. Len(unread') :
                 unread'[i].type = "run.requested" /\ unread'[i] = unread'[j] => i = j,
           \A x \in Runs : Requested(x)' => Requested(x),
           \A x \in Runs : stage'[x] \in {stage[x], "none"} \/ (stage[x] # "none" /\ stage'[x] = "done"),
           \A x \in Runs : ask'[x] \in {ask[x], "done"} /\ (ask[x] = "none" => ask'[x] = "none"),
           answer' = answer, sessionRules' \subseteq sessionRules
    PROVE  DaemonInv'
<1> USE DEF DaemonInv
<1>1. /\ \A x \in Runs : /\ status'[x] \in {"none", "completed"} => status'[x] = status[x]
                         /\ status[x] \in {"none", "completed"} => status'[x] = status[x]
      /\ \A x \in Runs : approval[x] \in {"approve", "allow", "allow_session", "none"}
                                 => approval'[x] = approval[x]
      /\ EndedRunSettled'
  BY EndedRows
<1>2. RequestsSound'
  <2>1. \A x \in Runs : Requested(x)' => stage'[x] = "none" /\ status'[x] \notin {"none", "completed"}
    <3>1. SUFFICES ASSUME NEW x \in Runs, Requested(x)'
                   PROVE  stage'[x] = "none" /\ status'[x] \notin {"none", "completed"}
      OBVIOUS
    <3>2. stage[x] = "none" /\ status[x] \notin {"none", "completed"}
      BY <3>1 DEF RequestsSound
    <3>3. status'[x] \notin {"none", "completed"}
      BY <1>1, <3>2
    <3>4. QED
      BY <3>2, <3>3
  <2>2. QED
    BY <2>1 DEF RequestsSound
<1>3. BegunSound'
  BY <1>1 DEF BegunSound
<1>4. OutputSound'
  BY <1>1 DEF OutputSound
<1>5. RulesSound'
  BY <1>1 DEF RulesSound, Granted
<1>6. AllowIsGranted'
  BY <1>1 DEF AllowIsGranted
<1>7. QED
  BY <1>1, <1>2, <1>3, <1>4, <1>5, <1>6

LEMMA CancelRunInv ==
    ASSUME DaemonInv, NEW r \in Runs, CancelRun(r)
    PROVE  DaemonInv'
<1> USE DEF DaemonInv
<1>1. /\ status[r] = "running" /\ Send(<<Event("run.cancelled", r)>> \o Expiry(r))
      /\ EndRuns({r}, "cancelled")
      /\ UNCHANGED <<issued, faults, runSession, accepted, committed, handlerVars>>
  BY DEF CancelRun
<1>2. PICK es \in Seq(AnEvent) : /\ es = <<Event("run.cancelled", r)>> \o Expiry(r)
                                 /\ \A i \in 1 .. Len(es) : es[i].type # "run.requested"
  <2>1. PICK e \in AnEvent : e = Event("run.cancelled", r) /\ e.type = "run.cancelled"
    BY EventType DEF EventTypes
  <2>2. PICK ex \in Seq(AnEvent) : ex = Expiry(r) /\ \A i \in 1 .. Len(ex) : ex[i].type # "run.requested"
    BY ExpiryFacts
  <2>3. <<e>> \o ex \in Seq(AnEvent)
    OBVIOUS
  <2>4. \A i \in 1 .. Len(<<e>> \o ex) : (<<e>> \o ex)[i].type # "run.requested"
    <3>1. \A i \in 1 .. Len(<<e>> \o ex) : (<<e>> \o ex)[i] = IF i = 1 THEN e ELSE ex[i - 1]
      OBVIOUS
    <3>2. Len(<<e>> \o ex) = Len(ex) + 1 /\ Len(ex) \in Nat
      OBVIOUS
    <3>3. \A i \in 1 .. (Len(ex) + 1) : i # 1 => i - 1 \in 1 .. Len(ex)
      BY <3>2
    <3>4. QED
      BY <2>1, <2>2, <3>1, <3>2, <3>3
  <2>5. QED
    BY <2>1, <2>2, <2>3, <2>4
<1>3. session' = session /\ holder' = holder /\ unread' \in Seq(AnEvent)
  BY <1>1, <1>2, SendFacts
<1>4. /\ \A i, j \in 1 .. Len(unread') :
            unread'[i].type = "run.requested" /\ unread'[i] = unread'[j] => i = j
      /\ \A x \in Runs : Requested(x)' => Requested(x)
  BY <1>1, <1>2, SendRequests
<1>5. GatewayTypes' /\ HandlerTypes'
  <2>1. /\ status' \in [Runs -> Statuses] /\ streaming' \in [Runs -> BOOLEAN]
        /\ approval' \in [Runs -> Approvals]
    BY <1>1, EndRunsFacts
  <2>2. QED
    BY <1>1, <1>3, <2>1 DEF GatewayTypes, HandlerTypes
<1>6. QED
  BY <1>1, <1>4, <1>5, EndedStep

LEMMA LoseSessionInv ==
    ASSUME DaemonInv, LoseSession
    PROVE  DaemonInv'
<1> USE DEF DaemonInv
<1>1. /\ session' = 0 /\ holder' = holder /\ EndRuns(Running, "failed")
      /\ UNCHANGED <<issued, runSession, accepted, committed, handlerVars>>
  BY DEF LoseSession, EndSession
<1>2. PartOf(unread', unread)
  <2>1. PICK n \in 0 .. Len(unread) : unread' = SubSeq(unread, 1, n)
    BY DEF LoseSession, EndSession, Shortened
  <2>2. QED
    BY <2>1, PartOfSubSeq DEF GatewayTypes
<1>3. Running \in SUBSET Runs /\ \A x \in Running : status[x] = "running"
  BY DEF Running
<1>4. GatewayTypes' /\ HandlerTypes'
  <2>1. /\ status' \in [Runs -> Statuses] /\ streaming' \in [Runs -> BOOLEAN]
        /\ approval' \in [Runs -> Approvals]
    BY <1>1, <1>3, EndRunsFacts
  <2>2. QED
    BY <1>1, <1>2, <2>1 DEF GatewayTypes, HandlerTypes, PartOf
<1>5. QED
  BY <1>1, <1>2, <1>3, <1>4, PartRequests, EndedStep

LEMMA DaemonEndsInv ==
    ASSUME DaemonInv, DaemonEnds
    PROVE  DaemonInv'
<1> USE DEF DaemonInv
<1>1. /\ holder' = 0 /\ unread' = << >> /\ session' = session
      /\ stage' = [r \in Runs |-> "none"] /\ aborted' = [r \in Runs |-> FALSE]
      /\ ask' = [r \in Runs |-> IF ask[r] \in {"posted", "waiting"} THEN "done" ELSE ask[r]]
      /\ sessionRules' = {}
      /\ UNCHANGED <<issued, runSession, accepted, committed, outputVars, answer>>
  BY DEF DaemonEnds, LeaveSession
<1>2. PICK landed \in SUBSET {r \in ActiveRuns : Authorised(r)} : EndRuns(landed, "failed")
  BY DEF DaemonEnds
<1>3. landed \in SUBSET Runs /\ \A x \in landed : status[x] = "running"
  BY DEF ActiveRuns, Authorised
<1>4. GatewayTypes' /\ HandlerTypes'
  <2>1. /\ status' \in [Runs -> Statuses] /\ streaming' \in [Runs -> BOOLEAN]
        /\ approval' \in [Runs -> Approvals]
    BY <1>2, <1>3, EndRunsFacts
  <2>2. QED
    BY <1>1, <2>1 DEF GatewayTypes, HandlerTypes, Stages
<1>5. PartOf(unread', unread)
  BY <1>1, PartOfSame DEF GatewayTypes
<1>6. /\ \A x \in Runs : stage'[x] = "none"
      /\ \A x \in Runs : ask'[x] \in {ask[x], "done"} /\ (ask[x] = "none" => ask'[x] = "none")
  BY <1>1
<1>7. QED
  BY <1>1, <1>2, <1>3, <1>4, <1>5, <1>6, PartRequests, EndedStep

LEMMA AnswerApprovalInv ==
    ASSUME DaemonInv, NEW r \in Runs, NEW a \in {"allow", "allow_session", "deny"}, AnswerApproval(r, a)
    PROVE  DaemonInv'
<1> USE DEF DaemonInv
<1>1. /\ approval[r] = "pending" /\ approval' = [approval EXCEPT ![r] = a]
      /\ Send(<<Event("approval.answered", r)>>)
      /\ UNCHANGED <<issued, faults, status, runSession, accepted, streaming, committed, handlerVars>>
  BY DEF AnswerApproval
<1>2. PICK e \in AnEvent : e = Event("approval.answered", r) /\ e.type = "approval.answered"
  BY EventType DEF EventTypes
<1>3. <<e>> \in Seq(AnEvent) /\ \A i \in 1 .. Len(<<e>>) : <<e>>[i].type # "run.requested"
  BY <1>2
<1>4. session' = session /\ holder' = holder /\ unread' \in Seq(AnEvent)
  BY <1>1, <1>2, <1>3, SendFacts
<1>5. /\ \A i, j \in 1 .. Len(unread') :
            unread'[i].type = "run.requested" /\ unread'[i] = unread'[j] => i = j
      /\ \A x \in Runs : Requested(x)' => Requested(x)
  BY <1>1, <1>2, <1>3, SendRequests
<1>6. GatewayTypes' /\ HandlerTypes'
  BY <1>1, <1>4 DEF GatewayTypes, HandlerTypes, Approvals
<1>7. RequestsSound'
  BY <1>1, <1>5 DEF RequestsSound
<1>8. \A x \in Runs : approval'[x] = IF x = r THEN a ELSE approval[x]
  BY <1>1 DEF GatewayTypes
<1>9. BegunSound' /\ OutputSound'
  BY <1>1, <1>8 DEF BegunSound, OutputSound
<1>10. RulesSound' /\ AllowIsGranted' /\ EndedRunSettled'
  BY <1>1, <1>8 DEF RulesSound, Granted, AllowIsGranted, EndedRunSettled
<1>11. QED
  BY <1>6, <1>7, <1>9, <1>10

(* Steps of the channel and of waiters that leave the rows alone.          *)
LEMMA LogInInv ==
    ASSUME DaemonInv, NEW answered \in BOOLEAN, LogIn(answered)
    PROVE  DaemonInv'
<1> USE DEF DaemonInv
<1>1. /\ session' = issued + 1 /\ issued' = issued + 1
      /\ holder' = IF answered THEN issued + 1 ELSE holder
      /\ unread' = IF answered THEN << >> ELSE unread
      /\ UNCHANGED <<rowVars, handlerVars>>
  BY DEF LogIn, Login
<1>2. PartOf(unread', unread)
  BY <1>1, PartOfSame DEF GatewayTypes
<1>3. GatewayTypes' /\ HandlerTypes'
  BY <1>1, <1>2 DEF GatewayTypes, HandlerTypes, PartOf
<1>4. RequestsSound'
  BY <1>1, <1>2, PartRequests DEF RequestsSound
<1>5. BegunSound' /\ OutputSound' /\ RulesSound' /\ AllowIsGranted' /\ EndedRunSettled'
  BY <1>1 DEF BegunSound, OutputSound, RulesSound, Granted, AllowIsGranted, EndedRunSettled
<1>6. QED
  BY <1>3, <1>4, <1>5

LEMMA StreamDisconnectInv ==
    ASSUME DaemonInv, StreamDisconnect
    PROVE  DaemonInv'
<1> USE DEF DaemonInv
<1>1. /\ ask' = [r \in Runs |-> IF ask[r] = "waiting" THEN "done" ELSE ask[r]]
      /\ answer' = [r \in Runs |-> IF ask[r] = "waiting" THEN "deny" ELSE answer[r]]
      /\ session' = session /\ holder' = holder
      /\ UNCHANGED <<issued, rowVars, stage, outputVars, aborted, sessionRules>>
  BY DEF StreamDisconnect, Reset, Lose
<1>2. PartOf(unread', unread)
  <2>1. \/ \E n \in 0 .. Len(unread) : unread' = SubSeq(unread, n + 1, Len(unread))
        \/ \E n \in 0 .. Len(unread) : unread' = SubSeq(unread, 1, n)
        \/ unread' = unread
    BY DEF StreamDisconnect, Reset, Lose, Shortened
  <2>2. unread \in Seq(AnEvent) /\ Len(unread) \in Nat
    BY DEF GatewayTypes
  <2>3. ASSUME NEW n \in 0 .. Len(unread)
        PROVE  PartOf(SubSeq(unread, n + 1, Len(unread)), unread) /\ PartOf(SubSeq(unread, 1, n), unread)
    BY <2>2, PartOfSubSeq
  <2>4. QED
    BY <2>1, <2>2, <2>3, PartOfSame
<1>3. GatewayTypes' /\ HandlerTypes'
  BY <1>1, <1>2 DEF GatewayTypes, HandlerTypes, PartOf
<1>4. RequestsSound'
  BY <1>1, <1>2, PartRequests DEF RequestsSound
<1>5. \A x \in Runs : /\ ask'[x] = IF ask[x] = "waiting" THEN "done" ELSE ask[x]
                      /\ answer'[x] = IF ask[x] = "waiting" THEN "deny" ELSE answer[x]
  BY <1>1
<1>6. BegunSound' /\ OutputSound'
  BY <1>1, <1>5 DEF BegunSound, OutputSound
<1>7. RulesSound' /\ EndedRunSettled'
  BY <1>1 DEF RulesSound, Granted, EndedRunSettled
<1>8. AllowIsGranted'
  BY <1>1, <1>5 DEF AllowIsGranted
<1>9. QED
  BY <1>3, <1>4, <1>6, <1>7, <1>8

-----------------------------------------------------------------------------
(* The daemon handles an event *)

LEMMA HandleFacts ==
    ASSUME NEW e \in AnEvent, Handle(e)
    PROVE  /\ e.run \in Runs
           /\ e.type = "run.requested" => BeginRun(e.run)
           /\ e.type = "run.cancelled" => AbortRuns({e.run} \cap ActiveRuns)
           /\ e.type = "approval.answered" /\ ask[e.run] = "waiting" => Resolve(e.run, approval[e.run])
           /\ e.type = "approval.answered" /\ ask[e.run] # "waiting" => UNCHANGED handlerVars
           /\ e.type \in {"run.requested", "run.cancelled", "approval.answered"}
<1>1. e.run \in Runs /\ e.type \in {"run.requested", "run.cancelled", "approval.answered"}
  BY DEF AnEvent, EventTypes
<1>2. CASE e.type = "run.requested"
  BY <1>1, <1>2 DEF Handle
<1>3. CASE e.type = "run.cancelled"
  BY <1>1, <1>3 DEF Handle
<1>4. CASE e.type = "approval.answered" /\ ask[e.run] = "waiting"
  BY <1>1, <1>4 DEF Handle
<1>5. CASE e.type = "approval.answered" /\ ask[e.run] # "waiting"
  BY <1>1, <1>5 DEF Handle
<1>6. QED
  BY <1>1, <1>2, <1>3, <1>4, <1>5

LEMMA HandleEventInv ==
    ASSUME DaemonInv, HandleEvent
    PROVE  DaemonInv'
<1> USE DEF DaemonInv
<1>1. /\ unread # << >> /\ unread' = Tail(unread) /\ Handle(Head(unread))
      /\ UNCHANGED <<session, holder, issued, rowVars>>
  BY DEF HandleEvent, Deliver
<1>2. PICK e \in AnEvent : e = Head(unread) /\ e = unread[1]
  BY <1>1, PartOfTail DEF GatewayTypes
<1>3. /\ e.run \in Runs
      /\ e.type = "run.requested" => BeginRun(e.run)
      /\ e.type = "run.cancelled" => AbortRuns({e.run} \cap ActiveRuns)
      /\ e.type = "approval.answered" /\ ask[e.run] = "waiting" => Resolve(e.run, approval[e.run])
      /\ e.type = "approval.answered" /\ ask[e.run] # "waiting" => UNCHANGED handlerVars
      /\ e.type \in {"run.requested", "run.cancelled", "approval.answered"}
  BY <1>1, <1>2, HandleFacts
<1>4. PartOf(unread', unread)
  BY <1>1, PartOfTail DEF GatewayTypes
<1>5. /\ \A i, j \in 1 .. Len(unread') :
            unread'[i].type = "run.requested" /\ unread'[i] = unread'[j] => i = j
      /\ \A x \in Runs : Requested(x)' => Requested(x)
  BY <1>4, PartRequests
<1>6. GatewayTypes'
  BY <1>1, <1>4 DEF GatewayTypes, PartOf
<1>7. ASSUME e.type = "run.requested"
      PROVE  DaemonInv'
  <2>1. PICK r \in Runs : r = e.run
    BY <1>3
  <2>2. /\ stage' = IF stage[r] = "none" /\ runSession[r] = holder
                    THEN [stage EXCEPT ![r] = "executing"] ELSE stage
        /\ UNCHANGED <<outputVars, aborted, approvalVars>>
    BY <1>3, <1>7, <2>1 DEF BeginRun
  <2>3. \A x \in Runs : /\ stage'[x] = IF x = r /\ stage[r] = "none" /\ runSession[r] = holder
                                       THEN "executing" ELSE stage[x]
    BY <2>2 DEF HandlerTypes
  <2>4. HandlerTypes'
    BY <2>2 DEF HandlerTypes, Stages
  <2>5. e = Event("run.requested", r)
    BY <1>7, <2>1 DEF Event, AnEvent
  <2>6. Requested(r)
    <3>1. 1 \in 1 .. Len(unread)
      BY <1>1, PartOfTail DEF GatewayTypes
    <3>2. QED
      BY <1>2, <2>5, <3>1 DEF Requested
  <2>7. ~Requested(r)'
    <3>1. SUFFICES ASSUME Requested(r)' PROVE FALSE
      OBVIOUS
    <3>2. PICK i \in 1 .. Len(unread') : unread'[i] = e
      BY <2>5, <3>1 DEF Requested, Event
    <3>3. PICK t \in Seq(AnEvent) : t = unread' /\ t = Tail(unread)
      BY <1>1, <1>4 DEF PartOf
    <3>4. /\ Len(t) = Len(unread) - 1 /\ Len(unread) \in Nat
          /\ \A k \in 1 .. (Len(unread) - 1) : t[k] = unread[k + 1]
      BY <1>1, <3>3 DEF GatewayTypes
    <3>5. i + 1 \in 1 .. Len(unread) /\ unread[i + 1] = e /\ i \in Nat /\ i >= 1
      BY <3>2, <3>3, <3>4
    <3>6. PICK a \in 1 .. Len(unread), b \in 1 .. Len(unread) : a = i + 1 /\ b = 1
      BY <3>5
    <3>7. unread[a].type = "run.requested" /\ unread[a] = unread[b]
      BY <1>2, <1>7, <3>5, <3>6
    <3>8. a = b
      BY <3>7, Zenon DEF RequestsSound
    <3>9. QED
      BY <3>5, <3>6, <3>8
  <2>8. RequestsSound'
    BY <1>1, <1>5, <2>3, <2>7 DEF RequestsSound
  <2>9. status[r] \notin {"none", "completed"}
    BY <2>6 DEF RequestsSound
  <2>10. BegunSound' /\ OutputSound'
    BY <1>1, <2>2, <2>3, <2>9 DEF BegunSound, OutputSound
  <2>11. RulesSound' /\ AllowIsGranted' /\ EndedRunSettled'
    BY <1>1, <2>2 DEF RulesSound, Granted, AllowIsGranted, EndedRunSettled
  <2>12. QED
    BY <1>6, <2>4, <2>8, <2>10, <2>11
<1>8. ASSUME e.type = "run.cancelled"
      PROVE  DaemonInv'
  <2>1. PICK rs \in SUBSET Runs : rs = {e.run} \cap ActiveRuns
    BY <1>3
  <2>2. /\ aborted' = [r \in Runs |-> aborted[r] \/ r \in rs]
        /\ ask' = [r \in Runs |-> IF r \in rs /\ ask[r] = "waiting" THEN "done" ELSE ask[r]]
        /\ answer' = [r \in Runs |-> IF r \in rs /\ ask[r] = "waiting" THEN "deny" ELSE answer[r]]
        /\ UNCHANGED <<stage, outputVars, sessionRules>>
    BY <1>3, <1>8, <2>1 DEF AbortRuns
  <2>3. HandlerTypes'
    BY <2>2 DEF HandlerTypes
  <2>4. RequestsSound'
    BY <1>1, <1>5, <2>2 DEF RequestsSound
  <2>5. \A x \in Runs : \/ ask'[x] = ask[x] /\ answer'[x] = answer[x]
                        \/ ask[x] = "waiting" /\ ask'[x] = "done" /\ answer'[x] = "deny"
    BY <2>2
  <2>6. BegunSound' /\ OutputSound'
    BY <1>1, <2>2, <2>5 DEF BegunSound, OutputSound
  <2>7. RulesSound' /\ EndedRunSettled'
    BY <1>1, <2>2 DEF RulesSound, Granted, EndedRunSettled
  <2>8. AllowIsGranted'
    BY <1>1, <2>5 DEF AllowIsGranted
  <2>9. QED
    BY <1>6, <2>3, <2>4, <2>6, <2>7, <2>8
<1>9. ASSUME e.type = "approval.answered", ask[e.run] = "waiting"
      PROVE  DaemonInv'
  <2>1. PICK r \in Runs, a \in Approvals : r = e.run /\ a = approval[r]
    BY <1>3 DEF GatewayTypes
  <2>2. /\ ask' = [ask EXCEPT ![r] = "done"]
        /\ answer' = [answer EXCEPT ![r] = IF a \in {"allow", "allow_session"} THEN "allow" ELSE "deny"]
        /\ sessionRules' = (IF a = "allow_session" THEN sessionRules \cup {runSession[r]} ELSE sessionRules)
        /\ UNCHANGED <<stage, outputVars, aborted>>
    BY <1>3, <1>9, <2>1 DEF Resolve
  <2>3. runSession[r] \in Nat
    BY DEF GatewayTypes
  <2>4. HandlerTypes'
    BY <2>2, <2>3 DEF HandlerTypes
  <2>5. RequestsSound'
    BY <1>1, <1>5, <2>2 DEF RequestsSound
  <2>6. \A x \in Runs :
           /\ ask'[x] = IF x = r THEN "done" ELSE ask[x]
           /\ answer'[x] = IF x # r THEN answer[x]
                           ELSE IF a \in {"allow", "allow_session"} THEN "allow" ELSE "deny"
    BY <2>2 DEF HandlerTypes
  <2>7. BegunSound' /\ OutputSound'
    BY <1>1, <1>9, <2>1, <2>2, <2>6 DEF BegunSound, OutputSound
  <2>8. RulesSound'
    BY <1>1, <2>1, <2>2 DEF RulesSound, Granted
  <2>9. AllowIsGranted'
    BY <1>1, <2>1, <2>6 DEF AllowIsGranted
  <2>10. EndedRunSettled'
    BY <1>1 DEF EndedRunSettled
  <2>11. QED
    BY <1>6, <2>4, <2>5, <2>7, <2>8, <2>9, <2>10
<1>10. ASSUME e.type = "approval.answered", ask[e.run] # "waiting"
       PROVE  DaemonInv'
  <2>1. UNCHANGED handlerVars
    BY <1>3, <1>10
  <2>2. HandlerTypes' /\ RequestsSound'
    BY <1>1, <1>5, <2>1 DEF HandlerTypes, RequestsSound
  <2>3. BegunSound' /\ OutputSound' /\ RulesSound' /\ AllowIsGranted' /\ EndedRunSettled'
    BY <1>1, <2>1 DEF BegunSound, OutputSound, RulesSound, Granted, AllowIsGranted, EndedRunSettled
  <2>4. QED
    BY <1>6, <2>2, <2>3
<1>11. QED
  BY <1>3, <1>7, <1>8, <1>9, <1>10

-----------------------------------------------------------------------------
(* Outputs and approvals *)

(* Steps of the handler of one run that send nothing.                      *)
LEMMA QuietStep ==
    ASSUME DaemonInv, NEW r \in Runs, stage[r] # "none",
           UNCHANGED <<session, holder, unread, issued, runSession, status>>,
           \A x \in Runs \ {r} : stage'[x] = stage[x]
    PROVE  RequestsSound'
<1>1. \A x \in Runs : Requested(x)' => Requested(x) /\ x # r
  BY DEF DaemonInv, RequestsSound, Requested, Event
<1>2. \A i, j \in 1 .. Len(unread') :
            unread'[i].type = "run.requested" /\ unread'[i] = unread'[j] => i = j
  BY DEF DaemonInv, RequestsSound
<1>3. QED
  BY <1>1, <1>2 DEF DaemonInv, RequestsSound

LEMMA AddOutput ==
    ASSUME DaemonInv, NEW r \in Runs, NEW kind \in {"delta", "message"}, status[r] # "completed",
           emitted' = [emitted EXCEPT ![r] = Append(@, kind)],
           UNCHANGED <<accepted, reported, reportError, status>>,
           \A x \in Runs \ {r} : stage'[x] = stage[x]
    PROVE  OutputSound' /\ emitted' \in [Runs -> Seq({"delta", "message"})]
<1> USE DEF DaemonInv
<1>1. PICK out \in Seq({"delta", "message"}) : out = Append(emitted[r], kind) /\ Len(out) = Len(emitted[r]) + 1
  <2>1. emitted[r] \in Seq({"delta", "message"})
    BY DEF HandlerTypes
  <2>2. /\ Append(emitted[r], kind) \in Seq({"delta", "message"})
        /\ Len(Append(emitted[r], kind)) = Len(emitted[r]) + 1
    BY <2>1
  <2>3. QED
    BY <2>2
<1>2. emitted' = [emitted EXCEPT ![r] = out]
  BY <1>1
<1>3. emitted' \in [Runs -> Seq({"delta", "message"})] /\ \A x \in Runs : emitted'[x] = IF x = r THEN out ELSE emitted[x]
  BY <1>2 DEF HandlerTypes
<1>4. \A x \in Runs : Len(emitted[x]) \in Nat /\ reported[x] \in Nat /\ Len(accepted[x]) \in Nat
  BY DEF HandlerTypes, GatewayTypes
<1>5. OutputSound'
  <2>1. SUFFICES ASSUME NEW x \in Runs
                 PROVE  /\ \A i \in 1 .. Len(accepted[x]) : accepted[x][i] = i
                        /\ Len(accepted[x]) <= reported[x] /\ reported[x] <= Len(emitted'[x])
                        /\ ~reportError[x] => Len(accepted[x]) = reported[x]
                        /\ status[x] = "completed" => /\ Len(accepted[x]) = Len(emitted'[x])
                                                      /\ stage'[x] \in {"none", "failing", "done"}
    BY DEF OutputSound
  <2>2. CASE x = r
    BY <1>1, <1>3, <1>4, <2>2 DEF OutputSound
  <2>3. CASE x # r
    BY <1>3, <2>3 DEF OutputSound
  <2>4. QED
    BY <2>2, <2>3
<1>6. QED
  BY <1>3, <1>5

LEMMA EmitInv ==
    ASSUME DaemonInv, NEW r \in Runs, NEW kind \in {"delta", "message"}, Emit(r, kind)
    PROVE  DaemonInv'
<1> USE DEF DaemonInv
<1>1. /\ stage[r] = "executing" /\ emitted' = [emitted EXCEPT ![r] = Append(@, kind)]
      /\ UNCHANGED <<linkVars, rowVars, stage, reported, reportError, hasMessage, aborted, approvalVars>>
  BY DEF Emit
<1>2. status[r] # "completed"
  BY <1>1 DEF OutputSound
<1>3. OutputSound' /\ emitted' \in [Runs -> Seq({"delta", "message"})]
  BY <1>1, <1>2, AddOutput
<1>4. GatewayTypes' /\ HandlerTypes'
  BY <1>1, <1>3 DEF GatewayTypes, HandlerTypes
<1>5. RequestsSound'
  BY <1>1, QuietStep
<1>6. BegunSound' /\ RulesSound' /\ AllowIsGranted' /\ EndedRunSettled'
  BY <1>1 DEF BegunSound, RulesSound, Granted, AllowIsGranted, EndedRunSettled
<1>7. QED
  BY <1>3, <1>4, <1>5, <1>6

LEMMA LastMessageInv ==
    ASSUME DaemonInv, NEW r \in Runs, LastMessage(r)
    PROVE  DaemonInv'
<1> USE DEF DaemonInv
<1>1. /\ stage[r] = "returned" /\ emitted' = [emitted EXCEPT ![r] = Append(@, "message")]
      /\ stage' = [stage EXCEPT ![r] = "last"]
      /\ UNCHANGED <<linkVars, rowVars, reported, reportError, hasMessage, aborted, approvalVars>>
  BY DEF LastMessage, Goto
<1>2. status[r] # "completed" /\ status[r] # "none"
  BY <1>1 DEF OutputSound, BegunSound
<1>3. \A x \in Runs : stage'[x] = IF x = r THEN "last" ELSE stage[x]
  BY <1>1 DEF HandlerTypes
<1>4. OutputSound' /\ emitted' \in [Runs -> Seq({"delta", "message"})]
  BY <1>1, <1>2, <1>3, AddOutput
<1>5. GatewayTypes' /\ HandlerTypes'
  BY <1>1, <1>4 DEF GatewayTypes, HandlerTypes, Stages
<1>6. RequestsSound'
  BY <1>1, <1>3, QuietStep
<1>7. BegunSound' /\ RulesSound' /\ AllowIsGranted' /\ EndedRunSettled'
  BY <1>1, <1>2, <1>3 DEF BegunSound, RulesSound, Granted, AllowIsGranted, EndedRunSettled
<1>8. QED
  BY <1>4, <1>5, <1>6, <1>7

LEMMA ReturnInv ==
    ASSUME DaemonInv, NEW r \in Runs, Return(r)
    PROVE  DaemonInv'
<1> USE DEF DaemonInv
<1>1. /\ stage[r] = "executing"
      /\ UNCHANGED <<linkVars, rowVars, outputVars, aborted, approvalVars>>
  BY DEF Return
<1>2. PICK s \in {"failing", "returned"} : stage' = [stage EXCEPT ![r] = s]
  BY DEF Return, Goto
<1>3. status[r] # "completed" /\ status[r] # "none"
  BY <1>1 DEF OutputSound, BegunSound
<1>4. \A x \in Runs : stage'[x] = IF x = r THEN s ELSE stage[x]
  BY <1>2 DEF HandlerTypes
<1>5. GatewayTypes' /\ HandlerTypes'
  BY <1>1, <1>2 DEF GatewayTypes, HandlerTypes, Stages
<1>6. RequestsSound'
  BY <1>1, <1>4, QuietStep
<1>7. OutputSound'
  BY <1>1, <1>3, <1>4 DEF OutputSound
<1>8. BegunSound' /\ RulesSound' /\ AllowIsGranted' /\ EndedRunSettled'
  BY <1>1, <1>3, <1>4 DEF BegunSound, RulesSound, Granted, AllowIsGranted, EndedRunSettled
<1>9. QED
  BY <1>5, <1>6, <1>7, <1>8

(* A report lands in order, or the queue stops.                            *)
LEMMA ReportInv ==
    ASSUME DaemonInv, NEW r \in Runs, NEW outcome \in Outcomes, Report(r, outcome)
    PROVE  DaemonInv'
<1> USE DEF DaemonInv
<1>1. PICK lands \in BOOLEAN, n \in Nat, stops \in BOOLEAN :
          /\ n = reported[r] + 1
          /\ lands <=> (outcome # "lost" /\ Authorised(r))
          /\ stops <=> ~(lands /\ outcome = "answered")
          /\ reportError[r] = FALSE /\ reported[r] < Len(emitted[r])
          /\ accepted' = (IF lands THEN [accepted EXCEPT ![r] = Append(@, n)] ELSE accepted)
          /\ streaming' = (IF lands THEN [streaming EXCEPT ![r] = (emitted[r][n] = "delta")] ELSE streaming)
          /\ reported' = [reported EXCEPT ![r] = n]
          /\ reportError' = [reportError EXCEPT ![r] = stops]
          /\ \E m \in BOOLEAN : hasMessage' = [hasMessage EXCEPT ![r] = m]
          /\ UNCHANGED <<channelVars, issued, status, runSession, approval, committed, stage, emitted,
                         aborted, approvalVars>>
  <2>1. reported[r] + 1 \in Nat /\ hasMessage[r] \in BOOLEAN /\ reportError[r] \in BOOLEAN
    BY DEF HandlerTypes
  <2>2. (reportError[r] = FALSE) <=> ~reportError[r]
    BY <2>1
  <2>3. QED
    BY <2>1, <2>2 DEF Report, StopsQueue
<1>2. lands => status[r] = "running"
  BY <1>1 DEF Authorised
<1>3. PICK row \in Seq(Nat) :
          /\ row = IF lands THEN Append(accepted[r], n) ELSE accepted[r]
          /\ \A i \in 1 .. Len(row) : row[i] = i
          /\ Len(row) <= n /\ (~stops => Len(row) = n)
  <2>1. /\ accepted[r] \in Seq(Nat) /\ Len(accepted[r]) = n - 1
        /\ \A i \in 1 .. Len(accepted[r]) : accepted[r][i] = i
    BY <1>1 DEF OutputSound, GatewayTypes, HandlerTypes
  <2>2. CASE lands
    <3>1. PICK s \in Seq(Nat) : s = accepted[r]
      BY <2>1
    <3>2. n \in Nat /\ Len(s) = n - 1 /\ \A i \in 1 .. n - 1 : s[i] = i
      BY <1>1, <2>1, <3>1
    <3>3. PICK a : a = Append(s, n)
      OBVIOUS
    <3>4. a \in Seq(Nat) /\ Len(a) = n /\ a[n] = n /\ \A i \in 1 .. n - 1 : a[i] = s[i]
      BY <3>2, <3>3, AppendProperties
    <3>5. \A i \in 1 .. n : i \in 1 .. n - 1 \/ i = n
      BY <3>2
    <3>6. \A i \in 1 .. n : a[i] = i
      BY <3>2, <3>4, <3>5
    <3>7. a = Append(accepted[r], n)
      BY <3>1, <3>3
    <3>8. a = IF lands THEN Append(accepted[r], n) ELSE accepted[r]
      BY <2>2, <3>7
    <3>9. Len(a) <= n /\ (~stops => Len(a) = n) /\ \A i \in 1 .. Len(a) : a[i] = i
      BY <3>2, <3>4, <3>6
    <3>10. QED
      BY <3>4, <3>8, <3>9
  <2>3. CASE ~lands
    BY <1>1, <2>1, <2>3
  <2>4. QED
    BY <2>2, <2>3
<1>4. /\ accepted' = [accepted EXCEPT ![r] = row] /\ accepted' \in [Runs -> Seq(Nat)]
      /\ \A x \in Runs : accepted'[x] = IF x = r THEN row ELSE accepted[x]
  BY <1>1, <1>3 DEF GatewayTypes
<1>5. streaming' \in [Runs -> BOOLEAN] /\ \A x \in Runs : x # r \/ ~lands => streaming'[x] = streaming[x]
  BY <1>1 DEF GatewayTypes
<1>6. GatewayTypes' /\ HandlerTypes'
  BY <1>1, <1>4, <1>5 DEF GatewayTypes, HandlerTypes
<1>7. RequestsSound'
  BY <1>1 DEF RequestsSound, Requested
<1>8. \A x \in Runs : /\ reported'[x] = IF x = r THEN n ELSE reported[x]
                      /\ reportError'[x] = IF x = r THEN stops ELSE reportError[x]
                      /\ Len(emitted[x]) \in Nat
  BY <1>1 DEF HandlerTypes
<1>9. status[r] # "completed"
  <2>1. status[r] = "completed" => Len(accepted[r]) = Len(emitted[r])
    BY DEF OutputSound
  <2>2. Len(accepted[r]) = reported[r] /\ reported[r] \in Nat /\ Len(emitted[r]) \in Nat
    BY <1>1, <1>8 DEF OutputSound, HandlerTypes
  <2>3. QED
    BY <1>1, <2>1, <2>2
<1>10. OutputSound'
  BY <1>1, <1>3, <1>4, <1>8, <1>9 DEF OutputSound
<1>11. BegunSound' /\ RulesSound' /\ AllowIsGranted'
  BY <1>1 DEF BegunSound, RulesSound, Granted, AllowIsGranted
<1>12. EndedRunSettled'
  BY <1>1, <1>2, <1>5 DEF EndedRunSettled
<1>13. QED
  BY <1>6, <1>7, <1>10, <1>11, <1>12

LEMMA AskApprovalInv ==
    ASSUME DaemonInv, NEW r \in Runs, NEW outcome \in Outcomes, AskApproval(r, outcome)
    PROVE  DaemonInv'
<1> USE DEF DaemonInv
<1>1. /\ stage[r] = "executing" /\ ask[r] = "none"
      /\ UNCHANGED <<channelVars, issued, status, runSession, accepted, streaming,
                     committed, stage, outputVars, aborted, sessionRules>>
  BY DEF AskApproval
<1>2. PICK row \in Approvals, now \in {"posted", "done"}, told \in {"none", "allow", "error"} :
          /\ approval' = [approval EXCEPT ![r] = row]
          /\ ask' = [ask EXCEPT ![r] = now] /\ answer' = [answer EXCEPT ![r] = told]
          /\ row \in {"none", "pending", "approve"}
          /\ row # "none" => status[r] = "running"
          /\ told = "allow" => row = "approve" \/ runSession[r] \in sessionRules
  <2>1. approval[r] = "none" /\ answer[r] = "none"
    BY <1>1 DEF BegunSound
  <2>2. approval = [approval EXCEPT ![r] = "none"] /\ answer = [answer EXCEPT ![r] = "none"]
    BY <2>1 DEF GatewayTypes, HandlerTypes
  <2>3. {"none", "pending", "approve"} \subseteq Approvals
    BY DEF Approvals
  <2>4. CASE Covered(r) /\ Told(r, "allow") /\ UNCHANGED approval
    BY <2>2, <2>3, <2>4 DEF Covered, Told
  <2>5. CASE UNCHANGED approval /\ Told(r, "error")
    BY <2>2, <2>3, <2>5 DEF Told
  <2>6. ASSUME NEW row \in {"pending", "approve"}, Authorised(r), CreateApprovalRequest(r, row),
               CASE outcome = "unacknowledged" -> Told(r, "error")
                 [] outcome = "answered" /\ row = "approve" -> Told(r, "allow")
                 [] OTHER -> ask' = [ask EXCEPT ![r] = "posted"] /\ UNCHANGED answer
        PROVE  \E now \in {"posted", "done"}, told \in {"none", "allow", "error"} :
                  /\ approval' = [approval EXCEPT ![r] = row]
                  /\ ask' = [ask EXCEPT ![r] = now] /\ answer' = [answer EXCEPT ![r] = told]
                  /\ status[r] = "running" /\ (told = "allow" => row = "approve")
    <3>1. approval' = [approval EXCEPT ![r] = row] /\ status[r] = "running"
      BY <2>6 DEF CreateApprovalRequest, Authorised
    <3>2. CASE outcome = "unacknowledged"
      BY <2>6, <3>1, <3>2 DEF Told
    <3>3. CASE outcome = "answered" /\ row = "approve"
      BY <2>6, <3>1, <3>3 DEF Told
    <3>4. CASE outcome # "unacknowledged" /\ ~(outcome = "answered" /\ row = "approve")
      BY <2>2, <2>6, <3>1, <3>4
    <3>5. QED
      BY <3>2, <3>3, <3>4
  <2>7. \/ Covered(r) /\ Told(r, "allow") /\ UNCHANGED approval
        \/ UNCHANGED approval /\ Told(r, "error")
        \/ \E row \in {"pending", "approve"} :
              /\ Authorised(r) /\ CreateApprovalRequest(r, row)
              /\ CASE outcome = "unacknowledged" -> Told(r, "error")
                   [] outcome = "answered" /\ row = "approve" -> Told(r, "allow")
                   [] OTHER -> ask' = [ask EXCEPT ![r] = "posted"] /\ UNCHANGED answer
    BY DEF AskApproval
  <2>8. CASE \E row \in {"pending", "approve"} :
              /\ Authorised(r) /\ CreateApprovalRequest(r, row)
              /\ CASE outcome = "unacknowledged" -> Told(r, "error")
                   [] outcome = "answered" /\ row = "approve" -> Told(r, "allow")
                   [] OTHER -> ask' = [ask EXCEPT ![r] = "posted"] /\ UNCHANGED answer
    BY <2>3, <2>6, <2>8
  <2>9. QED
    BY <2>4, <2>5, <2>7, <2>8
<1>3. status[r] \notin {"none"}
  BY <1>1 DEF BegunSound
<1>4. GatewayTypes' /\ HandlerTypes'
  BY <1>1, <1>2 DEF GatewayTypes, HandlerTypes
<1>5. RequestsSound' /\ OutputSound'
  BY <1>1 DEF RequestsSound, Requested, OutputSound
<1>6. \A x \in Runs : /\ approval'[x] = IF x = r THEN row ELSE approval[x]
                      /\ ask'[x] = IF x = r THEN now ELSE ask[x]
                      /\ answer'[x] = IF x = r THEN told ELSE answer[x]
  BY <1>2 DEF GatewayTypes, HandlerTypes
<1>7. approval[r] = "none"
  BY <1>1 DEF BegunSound
<1>8. BegunSound'
  BY <1>1, <1>2, <1>3, <1>6 DEF BegunSound
<1>9. \A s : Granted(s) => Granted(s)'
  BY <1>1, <1>6, <1>7 DEF Granted
<1>10. RulesSound'
  BY <1>1, <1>9 DEF RulesSound
<1>11. AllowIsGranted'
  <2>1. SUFFICES ASSUME NEW x \in Runs, answer'[x] = "allow"
                 PROVE  \/ approval'[x] \in {"approve", "allow", "allow_session"}
                        \/ \E y \in Runs : approval'[y] = "allow_session" /\ runSession[y] = runSession[x]
    BY <1>1 DEF AllowIsGranted
  <2>2. PICK s : s = runSession[x]
    OBVIOUS
  <2>3. Granted(s)' => \E y \in Runs : approval'[y] = "allow_session" /\ runSession[y] = runSession[x]
    BY <1>1, <2>2 DEF Granted
  <2>4. CASE x = r
    <3>1. row = "approve" \/ Granted(s)
      BY <1>2, <1>6, <2>1, <2>2, <2>4 DEF RulesSound
    <3>2. QED
      BY <1>6, <1>9, <2>3, <2>4, <3>1
  <2>5. CASE x # r
    <3>1. approval[x] \in {"approve", "allow", "allow_session"} \/ Granted(s)
      BY <1>6, <2>1, <2>2, <2>5 DEF AllowIsGranted, Granted
    <3>2. QED
      BY <1>6, <1>9, <2>3, <2>5, <3>1
  <2>6. QED
    BY <2>4, <2>5
<1>12. EndedRunSettled'
  BY <1>1, <1>2, <1>6 DEF EndedRunSettled
<1>13. QED
  BY <1>4, <1>5, <1>8, <1>10, <1>11, <1>12

LEMMA ApprovalPostedInv ==
    ASSUME DaemonInv, NEW r \in Runs, ApprovalPosted(r)
    PROVE  DaemonInv'
<1> USE DEF DaemonInv
<1>1. /\ ask[r] = "posted" /\ UNCHANGED <<linkVars, rowVars, stage, outputVars, aborted, sessionRules>>
  BY DEF ApprovalPosted
<1>2. PICK now \in {"waiting", "done"} :
          /\ ask' = [ask EXCEPT ![r] = now]
          /\ answer' = answer \/ answer' = [answer EXCEPT ![r] = "deny"]
  BY DEF ApprovalPosted, Told
<1>3. \A x \in Runs : /\ ask'[x] = IF x = r THEN now ELSE ask[x]
                      /\ answer'[x] = answer[x] \/ (x = r /\ answer'[x] = "deny")
  BY <1>2 DEF HandlerTypes
<1>4. GatewayTypes' /\ HandlerTypes'
  BY <1>1, <1>2 DEF GatewayTypes, HandlerTypes
<1>5. RequestsSound' /\ OutputSound' /\ RulesSound' /\ EndedRunSettled'
  BY <1>1 DEF RequestsSound, Requested, OutputSound, RulesSound, Granted, EndedRunSettled
<1>6. BegunSound' /\ AllowIsGranted'
  BY <1>1, <1>3 DEF BegunSound, AllowIsGranted
<1>7. QED
  BY <1>4, <1>5, <1>6

-----------------------------------------------------------------------------
(* The end of a run *)

(* A report of the end tells the daemon of an approval that expires.       *)
LEMMA SendExpiry ==
    ASSUME DaemonInv, NEW r \in Runs, Send(Expiry(r))
    PROVE  /\ session' = session /\ holder' = holder /\ unread' \in Seq(AnEvent)
           /\ \A i, j \in 1 .. Len(unread') :
                 unread'[i].type = "run.requested" /\ unread'[i] = unread'[j] => i = j
           /\ \A x \in Runs : Requested(x)' => Requested(x)
<1>1. PICK es \in Seq(AnEvent) : es = Expiry(r) /\ \A i \in 1 .. Len(es) : es[i].type # "run.requested"
  BY ExpiryFacts
<1>2. Send(es) /\ GatewayTypes /\ RequestsSound
  BY <1>1 DEF DaemonInv
<1>3. QED
  BY <1>1, <1>2, SendFacts, SendRequests

LEMMA ReportEndInv ==
    ASSUME DaemonInv, NEW r \in Runs, NEW outcome \in Outcomes, ReportEnd(r, outcome)
    PROVE  DaemonInv'
<1> USE DEF DaemonInv
<1>1. /\ stage[r] \in {"failing", "returned", "last"} /\ stage' = [stage EXCEPT ![r] = "done"]
      /\ UNCHANGED <<issued, runSession, accepted, committed, outputVars, aborted, approvalVars>>
  BY DEF ReportEnd, Goto
<1>2. \A x \in Runs : stage'[x] = IF x = r THEN "done" ELSE stage[x]
  BY <1>1 DEF HandlerTypes
<1>3. HandlerTypes'
  BY <1>1 DEF HandlerTypes, Stages
<1>4. PICK s \in {"failed", "cancelled"} :
          \/ EndRuns({r}, s) /\ Send(Expiry(r)) /\ status[r] = "running"
          \/ UNCHANGED <<status, streaming, approval, channelVars>>
  BY DEF ReportEnd, Authorised
<1>5. ASSUME EndRuns({r}, s), Send(Expiry(r)), status[r] = "running"
      PROVE  DaemonInv'
  <2>1. /\ session' = session /\ holder' = holder /\ unread' \in Seq(AnEvent)
        /\ \A i, j \in 1 .. Len(unread') :
              unread'[i].type = "run.requested" /\ unread'[i] = unread'[j] => i = j
        /\ \A x \in Runs : Requested(x)' => Requested(x)
    BY <1>5, SendExpiry
  <2>2. GatewayTypes'
    <3>1. /\ status' \in [Runs -> Statuses] /\ streaming' \in [Runs -> BOOLEAN]
          /\ approval' \in [Runs -> Approvals]
      BY <1>5, EndRunsFacts
    <3>2. QED
      BY <1>1, <2>1, <3>1 DEF GatewayTypes
  <2>3. QED
    BY <1>1, <1>2, <1>3, <1>5, <2>1, <2>2, EndedStep
<1>6. ASSUME UNCHANGED <<status, streaming, approval, channelVars>>
      PROVE  DaemonInv'
  <2>1. GatewayTypes'
    BY <1>1, <1>6 DEF GatewayTypes
  <2>2. RequestsSound'
    BY <1>1, <1>2, <1>6, QuietStep
  <2>3. status[r] # "none"
    BY <1>1 DEF BegunSound
  <2>4. BegunSound' /\ OutputSound'
    BY <1>1, <1>2, <1>6, <2>3 DEF BegunSound, OutputSound
  <2>5. RulesSound' /\ AllowIsGranted' /\ EndedRunSettled'
    BY <1>1, <1>6 DEF RulesSound, Granted, AllowIsGranted, EndedRunSettled
  <2>6. QED
    BY <1>3, <2>1, <2>2, <2>4, <2>5
<1>7. QED
  BY <1>4, <1>5, <1>6

(* A run completes when nothing is left to report.                         *)
LEMMA CompleteInv ==
    ASSUME DaemonInv, NEW r \in Runs, NEW outcome \in Outcomes, Complete(r, outcome)
    PROVE  DaemonInv'
<1> USE DEF DaemonInv
<1>1. /\ stage[r] \in {"returned", "last", "completing"} /\ Drained(r) /\ ~reportError[r]
      /\ UNCHANGED <<issued, runSession, accepted, committed, outputVars, aborted, approvalVars>>
  BY DEF Complete
<1>2. PICK s \in {"done", "failing", "committing"} :
          /\ stage' = [stage EXCEPT ![r] = s]
          /\ \/ EndRuns({r}, "completed") /\ Send(Expiry(r)) /\ status[r] = "running" /\ s # "committing"
             \/ /\ UNCHANGED <<status, streaming, approval, channelVars>>
                /\ s # "done" /\ (s = "committing" => r \in ApiRuns)
  <2>1. CASE outcome # "lost" /\ Authorised(r) /\ (r \in ApiRuns => committed[r])
    BY <2>1 DEF Complete, Goto, Authorised
  <2>2. CASE ~(outcome # "lost" /\ Authorised(r) /\ (r \in ApiRuns => committed[r]))
    BY <2>2 DEF Complete, Goto
  <2>3. QED
    BY <2>1, <2>2
<1>3. \A x \in Runs : stage'[x] = IF x = r THEN s ELSE stage[x]
  BY <1>2 DEF HandlerTypes
<1>4. HandlerTypes'
  BY <1>1, <1>2 DEF HandlerTypes, Stages
<1>5. status[r] \notin {"none", "completed"}
  BY <1>1 DEF BegunSound, OutputSound
<1>6. ASSUME EndRuns({r}, "completed"), Send(Expiry(r)), status[r] = "running", s # "committing"
      PROVE  DaemonInv'
  <2>1. /\ session' = session /\ holder' = holder /\ unread' \in Seq(AnEvent)
        /\ \A i, j \in 1 .. Len(unread') :
              unread'[i].type = "run.requested" /\ unread'[i] = unread'[j] => i = j
        /\ \A x \in Runs : Requested(x)' => Requested(x)
    BY <1>6, SendExpiry
  <2>2. /\ status' \in [Runs -> Statuses] /\ streaming' \in [Runs -> BOOLEAN]
        /\ approval' \in [Runs -> Approvals]
        /\ \A x \in Runs :
              /\ status'[x] = IF x = r THEN "completed" ELSE status[x]
              /\ streaming'[x] => streaming[x] /\ x # r
              /\ approval'[x] = IF x = r /\ approval[x] = "pending" THEN "expired" ELSE approval[x]
    BY <1>6, EndRunsFacts
  <2>3. GatewayTypes'
    BY <1>1, <2>1, <2>2 DEF GatewayTypes
  <2>4. RequestsSound'
    <3>1. \A x \in Runs : Requested(x)' => Requested(x) /\ x # r
      BY <1>1, <2>1 DEF RequestsSound
    <3>2. QED
      BY <1>3, <2>1, <2>2, <3>1 DEF RequestsSound
  <2>5. BegunSound'
    BY <1>1, <1>3, <1>5, <1>6, <2>2 DEF BegunSound
  <2>6. OutputSound'
    <3>1. Len(accepted[r]) = Len(emitted[r])
      BY <1>1 DEF OutputSound, Drained
    <3>2. QED
      BY <1>1, <1>3, <1>6, <2>2, <3>1 DEF OutputSound
  <2>7. RulesSound' /\ AllowIsGranted'
    BY <1>1, <2>2 DEF RulesSound, Granted, AllowIsGranted
  <2>8. EndedRunSettled'
    BY <2>2 DEF EndedRunSettled
  <2>9. QED
    BY <1>4, <2>3, <2>4, <2>5, <2>6, <2>7, <2>8
<1>7. ASSUME UNCHANGED <<status, streaming, approval, channelVars>>,
             s # "done", s = "committing" => r \in ApiRuns
      PROVE  DaemonInv'
  <2>1. GatewayTypes'
    BY <1>1, <1>7 DEF GatewayTypes
  <2>2. RequestsSound'
    BY <1>1, <1>3, <1>7, QuietStep
  <2>3. BegunSound' /\ OutputSound'
    BY <1>1, <1>3, <1>5, <1>7 DEF BegunSound, OutputSound
  <2>4. RulesSound' /\ AllowIsGranted' /\ EndedRunSettled'
    BY <1>1, <1>7 DEF RulesSound, Granted, AllowIsGranted, EndedRunSettled
  <2>5. QED
    BY <1>4, <2>1, <2>2, <2>3, <2>4
<1>8. QED
  BY <1>2, <1>6, <1>7

(* A history conflict fails the run of an API runtime then and there.      *)
LEMMA CommitInv ==
    ASSUME DaemonInv, NEW r \in Runs, NEW outcome \in Outcomes, NEW conflict \in BOOLEAN,
           Commit(r, outcome, conflict)
    PROVE  DaemonInv'
<1> USE DEF DaemonInv
<1>1. PICK s \in {"completing", "failing"}, lands \in BOOLEAN :
          /\ stage[r] = "committing" /\ stage' = [stage EXCEPT ![r] = s]
          /\ lands => status[r] = "running"
          /\ status' = IF lands /\ conflict THEN [status EXCEPT ![r] = "failed"] ELSE status
          /\ \E done \in BOOLEAN : committed' = [committed EXCEPT ![r] = done]
          /\ s = "completing" => lands /\ ~conflict
          /\ UNCHANGED <<channelVars, issued, runSession, accepted, streaming,
                         approval, outputVars, aborted, approvalVars>>
  <2>1. committed[r] \in BOOLEAN
    BY DEF GatewayTypes
  <2>2. PICK lands \in BOOLEAN : lands <=> (outcome # "lost" /\ Authorised(r))
    OBVIOUS
  <2>3. PICK s \in {"completing", "failing"} :
            s = IF lands /\ ~conflict /\ outcome = "answered" THEN "completing" ELSE "failing"
    OBVIOUS
  <2>4. stage[r] = "committing" /\ stage' = [stage EXCEPT ![r] = s]
    BY <2>2, <2>3 DEF Commit, Goto
  <2>5. /\ status' = IF lands /\ conflict THEN [status EXCEPT ![r] = "failed"] ELSE status
        /\ \E done \in BOOLEAN : committed' = [committed EXCEPT ![r] = done]
        /\ UNCHANGED <<channelVars, issued, runSession, accepted, streaming,
                       approval, outputVars, aborted, approvalVars>>
    BY <2>1, <2>2 DEF Commit
  <2>6. lands => status[r] = "running"
    BY <2>2 DEF Authorised
  <2>7. QED
    BY <2>3, <2>4, <2>5, <2>6
<1>2. r \in ApiRuns /\ status[r] \notin {"none", "completed"}
  BY <1>1 DEF BegunSound, OutputSound
<1>3. \A x \in Runs : /\ stage'[x] = IF x = r THEN s ELSE stage[x]
                      /\ status'[x] = IF x = r /\ lands /\ conflict THEN "failed" ELSE status[x]
  BY <1>1 DEF HandlerTypes, GatewayTypes
<1>4. GatewayTypes' /\ HandlerTypes'
  BY <1>1 DEF GatewayTypes, HandlerTypes, Stages, Statuses
<1>5. RequestsSound'
  <2>1. \A x \in Runs : Requested(x)' => Requested(x) /\ x # r
    BY <1>1 DEF RequestsSound, Requested, Event
  <2>2. \A i, j \in 1 .. Len(unread') :
              unread'[i].type = "run.requested" /\ unread'[i] = unread'[j] => i = j
    BY <1>1 DEF RequestsSound
  <2>3. QED
    BY <1>3, <2>1, <2>2 DEF RequestsSound
<1>6. BegunSound' /\ OutputSound'
  BY <1>1, <1>2, <1>3 DEF BegunSound, OutputSound
<1>7. RulesSound' /\ AllowIsGranted'
  BY <1>1 DEF RulesSound, Granted, AllowIsGranted
<1>8. EndedRunSettled'
  BY <1>1, <1>2, <1>3 DEF EndedRunSettled
<1>9. QED
  BY <1>4, <1>5, <1>6, <1>7, <1>8

-----------------------------------------------------------------------------
(* The theorems *)

LEMMA DaemonNextInv ==
    ASSUME DaemonInv, [DaemonNext]_vars
    PROVE  DaemonInv'
<1>1. CASE UNCHANGED vars
  BY <1>1 DEF vars, DaemonInv, GatewayTypes, HandlerTypes, RequestsSound, Requested, BegunSound,
              OutputSound, RulesSound, Granted, AllowIsGranted, EndedRunSettled
<1>2. CASE HandleEvent \/ StreamDisconnect \/ DaemonEnds \/ LoseSession
           \/ \E answered \in BOOLEAN : LogIn(answered)
  BY <1>2, HandleEventInv, StreamDisconnectInv, DaemonEndsInv, LoseSessionInv, LogInInv
<1>3. ASSUME NEW r \in Runs,
             \/ RequestRun(r) \/ CancelRun(r)
             \/ \E a \in {"allow", "allow_session", "deny"} : AnswerApproval(r, a)
             \/ \E kind \in {"delta", "message"} : Emit(r, kind)
             \/ ApprovalPosted(r) \/ Return(r) \/ LastMessage(r)
      PROVE  DaemonInv'
  BY <1>3, RequestRunInv, CancelRunInv, AnswerApprovalInv, EmitInv, ApprovalPostedInv, ReturnInv,
     LastMessageInv
<1>4. ASSUME NEW r \in Runs, NEW outcome \in Outcomes,
             \/ Report(r, outcome) \/ AskApproval(r, outcome)
             \/ Complete(r, outcome) \/ ReportEnd(r, outcome)
             \/ \E conflict \in BOOLEAN : Commit(r, outcome, conflict)
      PROVE  DaemonInv'
  BY <1>4, ReportInv, AskApprovalInv, CompleteInv, ReportEndInv, CommitInv
<1>5. QED
  BY <1>1, <1>2, <1>3, <1>4 DEF DaemonNext

(* The invariant of a daemon's runs and of what the gateway has of them.   *)
THEOREM DaemonInvInductive == DaemonSpec => []DaemonInv
<1>1. DaemonInit => DaemonInv
  BY DaemonInitInv
<1>2. DaemonInv /\ [DaemonNext]_vars => DaemonInv'
  BY DaemonNextInv
<1>3. QED
  BY <1>1, <1>2, PTL DEF DaemonSpec

(* What the gateway has of a run (daemon-run-handler.js, the queue of      *)
(* outputs; message-stream.js) is a prefix of what the executor put out,   *)
(* and all of it once the run completed.                                   *)
THEOREM TimelinesAreFaithful == DaemonSpec => []TimelineFaithful
<1>1. DaemonInv => TimelineFaithful
  BY DEF DaemonInv, OutputSound, TimelineFaithful, OutputIsPrefix, CompletedIsWhole
<1>2. QED
  BY <1>1, DaemonInvInductive, PTL

(* An executor is told "allow" only by the seat, by the owner, or by a     *)
(* rule the owner allowed for the same session (approvals).                *)
THEOREM AllowsAreGranted == DaemonSpec => []AllowIsGranted
<1>1. DaemonInv => AllowIsGranted
  BY DEF DaemonInv
<1>2. QED
  BY <1>1, DaemonInvInductive, PTL

(* The end of a run closes its open message and its approval               *)
(* (daemon-run-lifecycle.js), unless a history conflict ended it.          *)
THEOREM EndedRunsAreSettled == DaemonSpec => []EndedRunSettled
<1>1. DaemonInv => EndedRunSettled
  BY DEF DaemonInv
<1>2. QED
  BY <1>1, DaemonInvInductive, PTL

-----------------------------------------------------------------------------
(* The threads of a command-line model *)

Names == Threads \union {NoThread}

BindingRows == [generation : Nat \ {0}, version : Nat, thread : Names, valid : BOOLEAN]
ThreadRows  == [is : {"new", "live", "lost"}, turns : SUBSET Ops]
ChildRows   == [is : {"none", "live", "gone"}, thread : Names, resumed : BOOLEAN,
                asked : {"none", "term", "kill"}, failed : BOOLEAN, missing : BOOLEAN]
CompactionStages == {"initialize", "resume", "compact", "terminal"}
OpFields == {"n", "kind", "at", "prior", "version", "thread", "persist", "content", "denied", "retried",
             "continued", "error", "stop", "turn", "status"}

(* The fields of an operation that matter here.                            *)
IsOp(o) ==
    /\ DOMAIN o = OpFields
    /\ o.n \in Nat /\ o.kind \in {"main", "isolated", "task", "compact"}
    /\ o.at \in {"idle", "ready", "running"} \union CompactionStages
    /\ o.prior \in Names /\ o.thread \in Names
    /\ o.persist \in {"none", "queued", "saved", "failed"}
    /\ o.stop \in {"none", "cancelled", "timeout"}

CliTypes ==
    /\ provider \in {"codex", "claude", "antigravity"}
    /\ binding \in BindingRows /\ thread \in [Threads -> ThreadRows]
    /\ IsOp(op) /\ child \in ChildRows /\ completed \in [Ops -> Nat]
    /\ op.at # "idle" => op.n \in Ops

(* A thread that was not opened holds nothing, and no run was completed in *)
(* a generation that is still to come.                                     *)
ThreadsSound ==
    /\ \A t \in Threads : thread[t].is = "new" => thread[t].turns = {}
    /\ \A o \in Ops : completed[o] <= binding.generation

(* Until its own thread is saved a run resumes the thread of the binding;  *)
(* what it is about to save holds all that the binding's thread does.      *)
PersistSound ==
    op.at # "idle" =>
        /\ op.kind # "main" => op.persist = "none"
        /\ op.kind = "main" =>
              /\ op.persist \in {"none", "queued"} => op.prior = binding.thread
              /\ op.persist = "saved" => op.thread = binding.thread
        /\ op.at = "ready" \/ (op.at = "running" /\ child.thread = NoThread) => op.persist = "none"
        /\ op.persist = "queued" =>
              /\ op.thread \in Threads
              /\ \A o \in Ops : completed[o] = binding.generation => o \in thread[op.thread].turns

(* A process that ended well was asked in the run's thread.                *)
AttemptSound ==
    op.at = "running" /\ op.kind = "main" =>
        /\ child.thread # NoThread /\ op.error # "missing" =>
              /\ op.thread = child.thread
              /\ op.persist = "none" => op.thread = op.prior
        /\ child.is = "gone" /\ child.failed = FALSE =>
              child.thread \in Threads /\ op.n \in thread[child.thread].turns

(* A process works in a thread that was opened.                            *)
OpenedSound == child.thread # NoThread => thread[child.thread].is # "new"

CliInv == CliTypes /\ OpenedSound /\ ThreadsSound /\ PersistSound /\ AttemptSound /\ ThreadRemembers

LEMMA IdleRows == /\ IsOp(NoOp) /\ NoOp.at = "idle" /\ NoOp.persist = "none" /\ NoOp.error = "none"
                  /\ NoChild \in ChildRows /\ NoChild.thread = NoThread
<1>1. NoThread \in Names
  BY DEF Names
<1>2. IsOp(NoOp)
  BY <1>1 DEF NoOp, IsOp, OpFields
<1>3. NoChild \in ChildRows
  BY <1>1 DEF NoChild, ChildRows
<1>4. QED
  BY <1>2, <1>3 DEF NoOp, NoChild

LEMMA CliInitInv ==
    ASSUME CliInit
    PROVE  CliInv
<1> USE IdleRows DEF CliInit
<1>1. CliTypes
  <2>1. /\ [generation |-> 1, version |-> 0, thread |-> NoThread, valid |-> TRUE] \in BindingRows
        /\ [generation |-> 1, version |-> 1, thread |-> NoThread, valid |-> FALSE] \in BindingRows
    BY DEF BindingRows, Names
  <2>2. binding \in BindingRows
    BY <2>1, Zenon
  <2>3. thread \in [Threads -> ThreadRows]
    BY DEF ThreadRows
  <2>4. QED
    BY <2>2, <2>3 DEF CliTypes
<1>2. OpenedSound /\ ThreadsSound /\ PersistSound /\ AttemptSound
  BY <1>1 DEF OpenedSound, ThreadsSound, PersistSound, AttemptSound, CliTypes, BindingRows
<1>3. ThreadRemembers
  BY DEF ThreadRemembers
<1>4. QED
  BY <1>1, <1>2, <1>3 DEF CliInv

-----------------------------------------------------------------------------
(* Steps by what they change *)

(* What a process says about its turn, and stops from outside.             *)
NotesOnly(o, c) ==
    /\ IsOp(o) /\ c \in ChildRows
    /\ o.n = op.n /\ o.kind = op.kind /\ o.prior = op.prior /\ o.thread = op.thread /\ o.persist = op.persist
    /\ o.at = op.at \/ (op.kind = "compact" /\ op.at \in CompactionStages /\ o.at \in CompactionStages)
    /\ o.error = "missing" <=> op.error = "missing"
    /\ c.thread = child.thread
    /\ op.kind = "main" /\ c.is = "gone" /\ c.failed = FALSE => child.is = "gone" /\ child.failed = FALSE

LEMMA NotesInv ==
    ASSUME CliInv, UNCHANGED <<provider, binding, thread, completed>>, NotesOnly(op', child')
    PROVE  CliInv'
<1>1. CliTypes'
  BY DEF CliInv, CliTypes, NotesOnly, CompactionStages
<1>2. OpenedSound' /\ ThreadsSound' /\ ThreadRemembers'
  BY DEF CliInv, OpenedSound, ThreadsSound, ThreadRemembers, NotesOnly
<1>3. PersistSound'
  BY DEF CliInv, PersistSound, NotesOnly, CompactionStages
<1>4. AttemptSound'
  BY DEF CliInv, AttemptSound, NotesOnly, CompactionStages
<1>5. QED
  BY <1>1, <1>2, <1>3, <1>4 DEF CliInv

(* A new generation has no thread and no completed run.                    *)
LEMMA RotateFacts ==
    ASSUME CliInv, Rotate, UNCHANGED <<thread, completed>>
    PROVE  /\ binding' \in BindingRows /\ binding'.thread = NoThread
           /\ binding'.generation = binding.generation + 1
           /\ ThreadsSound' /\ ThreadRemembers'
           /\ \A o \in Ops : completed'[o] # binding'.generation
<1>1. /\ binding.generation \in Nat \ {0} /\ binding'.thread = NoThread
      /\ binding'.generation = binding.generation + 1 /\ binding' \in BindingRows
  BY DEF CliInv, CliTypes, BindingRows, Rotate, Names
<1>2. \A o \in Ops : completed[o] \in Nat /\ completed[o] <= binding.generation
  BY DEF CliInv, CliTypes, ThreadsSound
<1>3. \A o \in Ops : completed'[o] # binding'.generation /\ completed'[o] <= binding'.generation
  BY <1>1, <1>2
<1>4. ThreadsSound' /\ ThreadRemembers'
  BY <1>3 DEF CliInv, ThreadsSound, ThreadRemembers
<1>5. QED
  BY <1>1, <1>3, <1>4

(* An operation that has ended claims nothing.                             *)
LEMMA EndedOp ==
    ASSUME IsOp(op'), op'.at = "idle", child' \in ChildRows,
           provider' = provider, provider \in {"codex", "claude", "antigravity"},
           (binding \in BindingRows)', (thread \in [Threads -> ThreadRows])', (completed \in [Ops -> Nat])',
           OpenedSound', ThreadsSound', ThreadRemembers'
    PROVE  CliInv'
BY DEF CliInv, CliTypes, PersistSound, AttemptSound

LEMMA SettledOp ==
    ASSUME CliTypes, NEW end \in {"failed", "cancelled", "completed"}, SettleOp(end)
    PROVE  IsOp(op') /\ op'.at = "idle"
<1>1. IsOp(NoOp) /\ NoOp.at = "idle" /\ op.n \in Nat
  BY IdleRows DEF CliTypes, IsOp
<1>2. op' = [NoOp EXCEPT !.n = op.n, !.status = end]
  BY DEF SettleOp
<1>3. QED
  BY <1>1, <1>2 DEF IsOp, OpFields

-----------------------------------------------------------------------------
(* What processes say, and stops from outside *)

LEMMA NotesStepInv ==
    ASSUME CliInv,
           \/ Output \/ ToolInTask \/ BadEvent \/ Denied \/ ProviderFails \/ Kill
           \/ \E how \in {"cancelled", "timeout"} : Stop(how)
           \/ Answered \/ TurnStarted \/ ItemCompleted \/ CompactionFails
           \/ \E good \in BOOLEAN : TurnCompleted(good)
    PROVE  CliInv'
<1>1. /\ IsOp(op) /\ child \in ChildRows
      /\ op.at # "idle" => op.n \in Ops
  BY DEF CliInv, CliTypes
<1>2. UNCHANGED <<provider, binding, thread, completed>>
  BY DEF Output, ToolInTask, BadEvent, Denied, ProviderFails, Kill, Stop, Answered, TurnStarted,
         ItemCompleted, CompactionFails, TurnCompleted, Keep
<1>3. IsOp(op) => /\ NotesOnly(op, child)
                  /\ op.error = "none" => \A e \in {"failed"} : NotesOnly([op EXCEPT !.error = e], child)
                  /\ NotesOnly([op EXCEPT !.content = TRUE], child) /\ NotesOnly([op EXCEPT !.denied = TRUE], child)
                  /\ \A x \in {"none", "started", "compacted"} : NotesOnly([op EXCEPT !.turn = x], child)
                  /\ \A x \in {"compacted"} : NotesOnly([op EXCEPT !.status = x], child)
                  /\ \A x \in {"cancelled", "timeout"} : NotesOnly([op EXCEPT !.stop = x], child)
  BY <1>1 DEF NotesOnly, IsOp, OpFields
<1>4. op.kind = "compact" /\ op.at \in CompactionStages =>
         \A x \in CompactionStages : NotesOnly([op EXCEPT !.at = x], child)
  BY <1>1 DEF NotesOnly, IsOp, OpFields
<1>5. /\ child.is = "live" => \A x \in {"none", "term", "kill"} :
              LET c == [child EXCEPT !.asked = x] IN c \in ChildRows /\ c.thread = child.thread /\ c.is = "live"
      /\ LET c == [child EXCEPT !.is = "gone", !.failed = TRUE]
         IN  c \in ChildRows /\ c.thread = child.thread /\ c.failed = TRUE
      /\ LET c == [child EXCEPT !.is = "gone", !.failed = TRUE, !.asked = "kill"]
         IN  c \in ChildRows /\ c.thread = child.thread /\ c.failed = TRUE
      /\ LET c == [child EXCEPT !.is = "gone"] IN c \in ChildRows /\ c.thread = child.thread
  BY <1>1 DEF ChildRows
<1>6. \A o, c : NotesOnly(o, child) /\ c \in ChildRows /\ c.thread = child.thread
                /\ (c.is = "live" \/ c.failed = TRUE \/ op.kind # "main") => NotesOnly(o, c)
  BY DEF NotesOnly
<1>7. child.is = "live" /\ Terminate =>
         child' \in ChildRows /\ child'.thread = child.thread /\ child'.is = "live"
  <2>1. child.asked \in {"none", "term", "kill"}
    BY <1>1 DEF ChildRows
  <2>2. QED
    BY <1>1, <1>5, <2>1 DEF Terminate
<1>8. NotesOnly(op', child')
  <2>1. CASE Output \/ Denied
    BY <1>1, <1>3, <2>1 DEF Output, Denied, Keep
  <2>2. CASE ToolInTask \/ BadEvent
    BY <1>1, <1>3, <1>6, <1>7, <2>2 DEF ToolInTask, BadEvent, Working
  <2>3. CASE ProviderFails \/ Kill
    BY <1>1, <1>3, <1>5, <1>6, <2>3 DEF ProviderFails, Kill
  <2>4. CASE \E how \in {"cancelled", "timeout"} : Stop(how)
    <3>1. PICK how \in {"cancelled", "timeout"} : Stop(how)
      BY <2>4
    <3>2. NotesOnly(op', child)
      BY <1>1, <1>3, <3>1 DEF Stop
    <3>3. CASE child.is = "live"
      BY <1>6, <1>7, <3>1, <3>2, <3>3 DEF Stop
    <3>4. CASE child.is # "live"
      BY <3>1, <3>2, <3>4 DEF Stop
    <3>5. QED
      BY <3>3, <3>4
  <2>5. CASE Answered
    <3>1. PICK x \in CompactionStages : op' = [op EXCEPT !.at = x] /\ child' = child
      BY <2>5 DEF Answered, CompactionStages
    <3>2. QED
      BY <1>4, <2>5, <3>1 DEF Answered, Compacting, CompactionStages
  <2>6. CASE TurnStarted \/ ItemCompleted
    BY <1>1, <1>3, <2>6 DEF TurnStarted, ItemCompleted
  <2>7. CASE CompactionFails
    <3>1. op.kind = "compact" /\ op.error = "none"
      BY <2>7 DEF CompactionFails, Compacting
    <3>2. NotesOnly(op', child)
      BY <1>1, <1>3, <2>7, <3>1 DEF CompactionFails
    <3>3. child' \in ChildRows /\ child'.thread = child.thread
      BY <1>1, <1>5, <2>7 DEF CompactionFails
    <3>4. QED
      BY <1>6, <3>1, <3>2, <3>3
  <2>8. CASE \E good \in BOOLEAN : TurnCompleted(good)
    <3>1. PICK good \in BOOLEAN : TurnCompleted(good)
      BY <2>8
    <3>2. /\ child' = child /\ op.error = "none"
          /\ op' = [op EXCEPT !.status = "compacted"] \/ op' = [op EXCEPT !.error = "failed"]
      BY <3>1 DEF TurnCompleted
    <3>3. QED
      BY <1>1, <1>3, <3>2
  <2>9. QED
    BY <2>1, <2>2, <2>3, <2>4, <2>5, <2>6, <2>7, <2>8
<1>9. QED
  BY <1>2, <1>8, NotesInv

-----------------------------------------------------------------------------
(* The end of an operation *)

LEMMA SettleStepInv ==
    ASSUME CliInv,
           \/ Unavailable \/ RotationLost \/ StoppedBeforeSpawn \/ Stopped \/ AttemptFails
           \/ TaskEnds \/ EndsWithoutResult \/ CompactionEnds
    PROVE  CliInv'
<1>1. /\ CliTypes /\ ThreadsSound /\ ThreadRemembers /\ IsOp(op) /\ child \in ChildRows
      /\ StopCode \in {"failed", "cancelled"} \/ op.stop = "none"
  BY DEF CliInv, CliTypes, IsOp, StopCode
<1>2. PICK end \in {"failed", "cancelled", "completed"} : SettleOp(end) /\ (end # "completed" \/ op.kind # "main")
  BY <1>1 DEF Unavailable, RotationLost, StoppedBeforeSpawn, Stopped, AttemptFails, TaskEnds,
              EndsWithoutResult, CompactionEnds, Settle
<1>3. IsOp(op') /\ op'.at = "idle" /\ completed' = completed
  BY <1>1, <1>2, SettledOp DEF SettleOp
<1>4. UNCHANGED <<provider, thread>> /\ (binding' = binding \/ Rotate)
  BY DEF Unavailable, RotationLost, StoppedBeforeSpawn, Stopped, AttemptFails, TaskEnds,
         EndsWithoutResult, CompactionEnds, Settle
<1>5. child' \in ChildRows /\ child'.thread \in {child.thread, NoThread}
  <2>1. LET c == [child EXCEPT !.asked = "term"] IN c \in ChildRows /\ c.thread = child.thread
    BY <1>1 DEF ChildRows
  <2>2. QED
    BY <2>1, IdleRows DEF Unavailable, RotationLost, StoppedBeforeSpawn, Stopped, AttemptFails, TaskEnds,
                         EndsWithoutResult, CompactionEnds, Settle
<1>6. binding' \in BindingRows /\ ThreadsSound' /\ ThreadRemembers'
  <2>1. CASE binding' = binding
    BY <1>1, <1>3, <1>4, <2>1 DEF CliTypes, ThreadsSound, ThreadRemembers
  <2>2. CASE Rotate
    BY <1>3, <1>4, <2>2, RotateFacts
  <2>3. QED
    BY <1>4, <2>1, <2>2
<1>7. QED
  <2>1. OpenedSound'
    BY <1>4, <1>5 DEF CliInv, OpenedSound
  <2>2. QED
    BY <2>1, <1>1, <1>3, <1>4, <1>5, <1>6, EndedOp DEF CliTypes

-----------------------------------------------------------------------------
(* The start of an attempt *)

(* An attempt that is ready to begin resumes what the binding names.       *)
LEMMA ReadyOp ==
    ASSUME CliInv, IsOp(op'), op'.at = "ready", op'.n \in Ops, op'.persist = "none",
           op'.kind = "main" => op'.prior = binding'.thread,
           UNCHANGED <<provider, thread, completed, child>>,
           binding' \in BindingRows, ThreadsSound', ThreadRemembers'
    PROVE  CliInv'
<1>1. CliTypes'
  BY DEF CliInv, CliTypes
<1>2. PersistSound' /\ AttemptSound' /\ OpenedSound'
  BY DEF CliInv, PersistSound, AttemptSound, OpenedSound
<1>3. QED
  BY <1>1, <1>2 DEF CliInv

LEMMA ReadyStepInv ==
    ASSUME CliInv,
           \/ \E kind \in {"main", "isolated", "task", "compact"} : Begin(kind)
           \/ RotateInvalid \/ RetryInNewThread \/ Continue
    PROVE  CliInv'
<1>1. /\ CliTypes /\ ThreadsSound /\ ThreadRemembers /\ IsOp(op) /\ binding \in BindingRows
      /\ binding.thread \in Names /\ binding.version \in Nat /\ NoThread \in Names
  BY DEF CliInv, CliTypes, BindingRows, Names
<1>2. UNCHANGED <<provider, thread, completed, child>>
  BY DEF Begin, RotateInvalid, RetryInNewThread, Continue, Keep
<1>3. CASE \E kind \in {"main", "isolated", "task", "compact"} : Begin(kind)
  <2>1. PICK kind \in {"main", "isolated", "task", "compact"} : Begin(kind)
    BY <1>3
  <2>2. PICK p \in Names : p = IF kind \in {"main", "compact"} THEN binding.thread ELSE NoThread
    BY <1>1
  <2>3. PICK v \in Nat : v = IF kind = "main" THEN binding.version ELSE 0
    BY <1>1
  <2>4. op' = [NoOp EXCEPT !.n = op.n + 1, !.kind = kind, !.at = "ready", !.prior = p, !.version = v]
    BY <2>1, <2>2, <2>3 DEF Begin
  <2>5. /\ IsOp(op') /\ op'.at = "ready" /\ op'.persist = "none" /\ op'.n = op.n + 1 /\ op'.kind = kind
        /\ op'.prior = p
    BY <1>1, <2>4, IdleRows DEF IsOp, OpFields
  <2>6. op'.n \in Ops
    BY <1>1, <2>1, <2>5, ThreadsAssumption DEF Begin, Ops, IsOp
  <2>7. binding' = binding /\ ThreadsSound' /\ ThreadRemembers'
    BY <1>1, <1>2, <2>1 DEF Begin, ThreadsSound, ThreadRemembers
  <2>8. QED
    BY <1>1, <1>2, <2>2, <2>5, <2>6, <2>7, ReadyOp
<1>4. CASE RotateInvalid \/ RetryInNewThread
  <2>1. Rotate /\ op.n \in Ops
    BY <1>1, <1>4 DEF RotateInvalid, RetryInNewThread, CliTypes, Ended
  <2>2. binding' \in BindingRows /\ binding'.thread = NoThread /\ ThreadsSound' /\ ThreadRemembers'
    BY <1>2, <2>1, RotateFacts
  <2>3. op.at = "ready" => op.persist = "none"
    BY DEF CliInv, PersistSound
  <2>4. /\ IsOp(op') /\ op'.at = "ready" /\ op'.persist = "none" /\ op'.n = op.n
        /\ op'.prior = NoThread
    <3>1. CASE RotateInvalid
      BY <1>1, <2>3, <3>1 DEF RotateInvalid, IsOp, OpFields
    <3>2. CASE RetryInNewThread
      BY <1>1, <3>2 DEF RetryInNewThread, IsOp, OpFields
    <3>3. QED
      BY <1>4, <3>1, <3>2
  <2>5. QED
    BY <1>2, <2>1, <2>2, <2>4, ReadyOp
<1>5. CASE Continue
  <2>1. /\ op' = [op EXCEPT !.at = "ready", !.prior = op.thread, !.version = binding.version,
                            !.persist = "none", !.continued = TRUE, !.denied = FALSE]
        /\ binding' = binding /\ op.at = "running" /\ child.is = "gone" /\ child.failed = FALSE
        /\ op.error = "none" /\ op.persist \in {"none", "saved"}
    <3>1. ~child.failed => child.failed = FALSE
      BY DEF CliInv, CliTypes, ChildRows
    <3>2. QED
      BY <1>5, <3>1 DEF Continue, Ended, Clean
  <2>2. /\ IsOp(op') /\ op'.at = "ready" /\ op'.persist = "none" /\ op'.n = op.n
        /\ op'.prior = op.thread /\ op'.kind = op.kind
    BY <1>1, <2>1 DEF IsOp, OpFields
  <2>3. op.n \in Ops
    BY <1>1, <2>1 DEF CliTypes
  <2>4. op.kind = "main" => op.thread = binding.thread
    BY <2>1, ThreadsAssumption DEF CliInv, PersistSound, AttemptSound
  <2>5. ThreadsSound' /\ ThreadRemembers'
    BY <1>1, <1>2, <2>1 DEF ThreadsSound, ThreadRemembers
  <2>6. QED
    BY <1>1, <1>2, <2>1, <2>2, <2>3, <2>4, <2>5, ReadyOp
<1>6. QED
  BY <1>3, <1>4, <1>5

LEMMA SpawnInv ==
    ASSUME CliInv, Spawn
    PROVE  CliInv'
<1>1. /\ CliTypes /\ IsOp(op) /\ op.at = "ready" /\ op.persist = "none" /\ op.n \in Ops
      /\ op.kind = "main" => op.prior = binding.thread
  BY DEF CliInv, CliTypes, PersistSound, Spawn
<1>2. /\ IsOp(op') /\ op'.at \in {"initialize", "running"} /\ op'.persist = "none" /\ op'.n = op.n
      /\ op'.prior = op.prior /\ op'.kind = op.kind
  <2>1. PICK at \in {"initialize", "running"} : op' = [op EXCEPT !.at = at, !.thread = op.prior]
    BY DEF Spawn
  <2>2. QED
    BY <1>1, <2>1 DEF IsOp, OpFields, CompactionStages
<1>3. child' \in ChildRows /\ child'.thread = NoThread /\ child'.is = "live"
  BY DEF Spawn, NoChild, ChildRows, Names
<1>4. UNCHANGED <<provider, binding, thread, completed>>
  BY DEF Spawn, Keep
<1>5. CliTypes'
  BY <1>1, <1>2, <1>3, <1>4 DEF CliTypes
<1>6. ThreadsSound' /\ ThreadRemembers'
  BY <1>4 DEF CliInv, ThreadsSound, ThreadRemembers
<1>7. PersistSound' /\ AttemptSound' /\ OpenedSound'
  BY <1>1, <1>2, <1>3, <1>4 DEF PersistSound, AttemptSound, OpenedSound
<1>8. QED
  BY <1>5, <1>6, <1>7 DEF CliInv

-----------------------------------------------------------------------------
(* The thread of an attempt *)

(* A thread is opened: it holds what the one it continues holds.           *)
LEMMA OpensFacts ==
    ASSUME CliInv, NEW t \in Threads, Opens(t), UNCHANGED <<binding, completed>>
    PROVE  /\ thread' \in [Threads -> ThreadRows] /\ ThreadsSound' /\ ThreadRemembers'
           /\ \A x \in Threads : x = t \/ thread'[x] = thread[x]
           /\ thread'[t].is # "new"
           /\ t # op.prior /\ op.prior \in Threads /\ Known(op.prior) => thread'[t].turns = thread[op.prior].turns
<1>1. CliTypes /\ ThreadsSound /\ ThreadRemembers /\ t # NoThread
  BY ThreadsAssumption DEF CliInv
<1>2. CASE Known(op.prior) /\ UNCHANGED thread /\ t = op.prior
  <2>1. thread[t].is # "new"
    BY <1>2 DEF Known
  <2>2. QED
    BY <1>1, <1>2, <2>1 DEF CliTypes, ThreadsSound, ThreadRemembers
<1>3. CASE ~(Known(op.prior) /\ UNCHANGED thread /\ t = op.prior)
  <2>1. /\ thread[t].is = "new"
        /\ thread' = [thread EXCEPT ![t] =
              [is |-> "live", turns |-> IF Known(op.prior) THEN thread[op.prior].turns ELSE {}]]
    BY <1>3 DEF Opens
  <2>2. PICK ts \in SUBSET Ops : ts = IF Known(op.prior) THEN thread[op.prior].turns ELSE {}
    <3>1. Known(op.prior) => op.prior \in Threads
      BY DEF Known, CliInv, CliTypes, IsOp, Names
    <3>2. QED
      BY <1>1, <3>1 DEF CliTypes, ThreadRows
  <2>3. /\ thread' \in [Threads -> ThreadRows] /\ thread'[t].turns = ts /\ thread'[t].is = "live"
        /\ \A x \in Threads : x = t \/ thread'[x] = thread[x]
    BY <1>1, <2>1, <2>2 DEF CliTypes, ThreadRows
  <2>4. thread[t].turns = {}
    BY <1>1, <2>1 DEF ThreadsSound
  <2>5. ThreadsSound' /\ ThreadRemembers'
    BY <1>1, <2>3, <2>4 DEF ThreadsSound, ThreadRemembers
  <2>6. QED
    BY <1>1, <2>1, <2>2, <2>3, <2>5
<1>4. QED
  BY <1>2, <1>3

LEMMA StartedInv ==
    ASSUME CliInv, NEW t \in Threads, Started(t)
    PROVE  CliInv'
<1>1. /\ CliTypes /\ ThreadRemembers /\ IsOp(op) /\ child \in ChildRows /\ op.at = "running" /\ op.n \in Ops
      /\ op.persist = "none" /\ child.thread = NoThread /\ child.is = "live" /\ Opens(t)
      /\ UNCHANGED <<provider, binding, completed>> /\ t # NoThread /\ t \in Names
      /\ op.kind = "main" => op.prior = binding.thread
  BY ThreadsAssumption DEF CliInv, CliTypes, PersistSound, Started, Working, Keep, Names
<1>2. /\ thread' \in [Threads -> ThreadRows] /\ ThreadsSound' /\ ThreadRemembers' /\ thread'[t].is # "new"
      /\ t # op.prior /\ op.prior \in Threads /\ Known(op.prior) => thread'[t].turns = thread[op.prior].turns
  BY <1>1, OpensFacts
<1>3. child' \in ChildRows /\ child'.thread = t /\ child'.is = "live"
  <2>1. \/ child' = [child EXCEPT !.thread = t]
        \/ child' = [child EXCEPT !.thread = t, !.asked = "term"]
    BY DEF Started
  <2>2. QED
    BY <1>1, <2>1 DEF ChildRows
<1>0. OpenedSound'
  BY <1>2, <1>3 DEF OpenedSound
<1>4. CASE provider = "antigravity" /\ op.prior # NoThread /\ t # op.prior
  <2>1. op' = [op EXCEPT !.error = "missing"]
    BY <1>4 DEF Started
  <2>2. /\ IsOp(op') /\ op'.at = "running" /\ op'.persist = "none" /\ op'.n = op.n /\ op'.kind = op.kind
        /\ op'.prior = op.prior /\ op'.error = "missing"
    BY <1>1, <2>1 DEF IsOp, OpFields
  <2>3. CliTypes'
    BY <1>1, <1>2, <1>3, <2>2 DEF CliTypes
  <2>4. PersistSound' /\ AttemptSound'
    BY <1>1, <1>3, <2>2 DEF PersistSound, AttemptSound
  <2>5. QED
    BY <1>0, <1>2, <2>3, <2>4 DEF CliInv
<1>5. CASE ~(provider = "antigravity" /\ op.prior # NoThread /\ t # op.prior)
  <2>1. PICK p \in {"queued", "none"} : op' = [op EXCEPT !.thread = t, !.persist = p] /\ (p = "queued" <=> MustPersist(t))
    BY <1>5 DEF Started
  <2>2. /\ IsOp(op') /\ op'.at = "running" /\ op'.persist = p /\ op'.n = op.n /\ op'.kind = op.kind
        /\ op'.prior = op.prior /\ op'.error = op.error /\ op'.thread = t
    BY <1>1, <2>1 DEF IsOp, OpFields
  <2>3. CliTypes'
    BY <1>1, <1>2, <1>3, <2>2 DEF CliTypes
  <2>4. ASSUME p = "queued", NEW o \in Ops, completed[o] = binding.generation
        PROVE  o \in thread'[t].turns
    <3>1. op.kind = "main" /\ t # op.prior /\ op.prior = binding.thread
      BY <1>1, <2>1, <2>4 DEF MustPersist
    <3>2. binding.thread \in Threads /\ o \in thread[binding.thread].turns
      BY <1>1, <2>4 DEF ThreadRemembers
    <3>3. Known(op.prior)
      BY <1>1, <1>5, <3>1, <3>2, ThreadsAssumption DEF Opens
    <3>4. QED
      BY <1>2, <3>1, <3>2, <3>3
  <2>5. PersistSound'
    BY <1>1, <1>3, <2>1, <2>2, <2>4 DEF PersistSound, MustPersist
  <2>6. AttemptSound'
    BY <1>1, <1>3, <2>1, <2>2 DEF AttemptSound, MustPersist
  <2>7. QED
    BY <1>0, <1>2, <2>3, <2>5, <2>6 DEF CliInv
<1>6. QED
  BY <1>4, <1>5

(* The binding takes the thread of the run, which holds what was there.    *)
LEMMA PersistInv ==
    ASSUME CliInv, Persist \/ PersistFails
    PROVE  CliInv'
<1>1. /\ CliTypes /\ IsOp(op) /\ op.at # "idle" /\ op.persist = "queued" /\ binding \in BindingRows
      /\ op.thread \in Threads /\ op.n \in Ops /\ op.kind = "main"
      /\ \A o \in Ops : completed[o] = binding.generation => o \in thread[op.thread].turns
      /\ UNCHANGED <<provider, thread, child, completed>>
  BY DEF CliInv, CliTypes, PersistSound, Persist, PersistFails, Keep, IsOp
<1>2. \/ binding' = binding /\ op' = [op EXCEPT !.persist = "failed"]
      \/ /\ binding' = [binding EXCEPT !.version = @ + 1, !.thread = op.thread, !.valid = TRUE]
         /\ op' = [op EXCEPT !.persist = "saved"] \/ op' = [op EXCEPT !.persist = "failed"]
  BY DEF Persist, PersistFails
<1>3. /\ IsOp(op') /\ op'.at = op.at /\ op'.persist \in {"saved", "failed"} /\ op'.n = op.n /\ op'.kind = op.kind
      /\ op'.prior = op.prior /\ op'.error = op.error /\ op'.thread = op.thread
  BY <1>1, <1>2 DEF IsOp, OpFields
<1>4. /\ binding' \in BindingRows /\ binding'.generation = binding.generation
      /\ binding' = binding \/ binding'.thread = op.thread
      /\ op'.persist = "saved" => binding'.thread = op.thread
  <2>1. op.thread \in Names
    BY <1>1 DEF Names
  <2>2. CASE binding' = binding /\ op' = [op EXCEPT !.persist = "failed"]
    BY <1>1, <2>2 DEF IsOp, OpFields
  <2>3. CASE binding' = [binding EXCEPT !.version = @ + 1, !.thread = op.thread, !.valid = TRUE]
    <3>1. PICK v \in Nat : v = binding.version + 1
      BY <1>1 DEF BindingRows
    <3>2. binding' = [binding EXCEPT !.version = v, !.thread = op.thread, !.valid = TRUE]
      BY <2>3, <3>1
    <3>3. binding' \in BindingRows
      BY <1>1, <2>1, <3>2 DEF BindingRows
    <3>4. binding'.generation = binding.generation /\ binding'.thread = op.thread
      BY <1>1, <3>2 DEF BindingRows
    <3>5. QED
      BY <3>3, <3>4
  <2>4. QED
    BY <1>2, <2>2, <2>3
<1>5. CliTypes'
  BY <1>1, <1>3, <1>4 DEF CliTypes
<1>6. ThreadsSound' /\ ThreadRemembers'
  BY <1>1, <1>4 DEF CliInv, ThreadsSound, ThreadRemembers
<1>7. PersistSound'
  BY <1>1, <1>3, <1>4 DEF CliInv, PersistSound
<1>8. AttemptSound' /\ OpenedSound'
  BY <1>1, <1>3 DEF CliInv, AttemptSound, OpenedSound
<1>9. QED
  BY <1>5, <1>6, <1>7, <1>8 DEF CliInv

-----------------------------------------------------------------------------
(* The end of an attempt *)

LEMMA ExitsInv ==
    ASSUME CliInv, Exits
    PROVE  CliInv'
<1>1. /\ CliTypes /\ IsOp(op) /\ op.at = "running" /\ op.n \in Ops /\ child \in ChildRows
      /\ UNCHANGED <<provider, binding, op, completed>>
  BY DEF CliInv, CliTypes, Exits, Working, Keep
<1>2. child' \in ChildRows /\ child'.thread = child.thread
  <2>1. \/ child' = [child EXCEPT !.is = "gone"]
        \/ child' = [child EXCEPT !.is = "gone", !.failed = TRUE, !.missing = TRUE]
        \/ child' = [child EXCEPT !.is = "gone", !.failed = TRUE]
    BY DEF Exits
  <2>2. QED
    BY <1>1, <2>1 DEF ChildRows
<1>3. \/ UNCHANGED thread
      \/ /\ child.thread \in Threads
         /\ thread' = [thread EXCEPT ![child.thread].turns = @ \union {op.n}]
  BY <1>1 DEF Exits, ChildRows, Names
<1>4. /\ thread' \in [Threads -> ThreadRows]
      /\ \A x \in Threads : thread'[x].is = thread[x].is /\ thread[x].turns \subseteq thread'[x].turns
      /\ \A x \in Threads : thread[x].is = "new" => thread'[x].turns = thread[x].turns
  <2>1. CASE UNCHANGED thread
    BY <1>1, <2>1 DEF CliTypes, ThreadRows
  <2>2. CASE /\ child.thread \in Threads
             /\ thread' = [thread EXCEPT ![child.thread].turns = @ \union {op.n}]
    <3>1. PICK old \in ThreadRows : old = thread[child.thread]
      BY <1>1, <2>2 DEF CliTypes
    <3>2. PICK row \in ThreadRows : /\ row = [old EXCEPT !.turns = @ \union {op.n}]
                                   /\ row.is = old.is /\ old.turns \subseteq row.turns
      <4>1. old.turns \in SUBSET Ops
        BY DEF ThreadRows
      <4>2. PICK ts \in SUBSET Ops : ts = old.turns \union {op.n}
        BY <1>1, <4>1
      <4>3. /\ [old EXCEPT !.turns = ts] \in ThreadRows
            /\ [old EXCEPT !.turns = ts].is = old.is /\ [old EXCEPT !.turns = ts].turns = ts
        BY DEF ThreadRows
      <4>4. QED
        BY <4>2, <4>3
    <3>3. thread' = [thread EXCEPT ![child.thread] = row]
      BY <2>2, <3>1, <3>2
    <3>4. old.is # "new"
      BY <2>2, <3>1, ThreadsAssumption DEF CliInv, OpenedSound
    <3>5. QED
      BY <1>1, <2>2, <3>1, <3>2, <3>3, <3>4 DEF CliTypes
  <2>3. QED
    BY <1>3, <2>1, <2>2
<1>5. op.kind = "main" /\ child'.failed = FALSE =>
         child.thread \in Threads /\ op.n \in thread'[child.thread].turns
  <2>1. CASE child.thread # NoThread /\ thread' = [thread EXCEPT ![child.thread].turns = @ \union {op.n}]
    BY <1>1, <2>1 DEF CliTypes, ThreadRows, ChildRows, Names
  <2>2. CASE op.kind = "task"
    BY <2>2
  <2>3. CASE \/ child' = [child EXCEPT !.is = "gone", !.failed = TRUE, !.missing = TRUE]
             \/ child' = [child EXCEPT !.is = "gone", !.failed = TRUE]
    BY <1>1, <2>3 DEF ChildRows
  <2>4. QED
    BY <2>1, <2>2, <2>3 DEF Exits
<1>6. CliTypes'
  BY <1>1, <1>2, <1>4 DEF CliTypes
<1>7. ThreadRemembers'
  BY <1>1, <1>4 DEF CliInv, ThreadRemembers
<1>8. ThreadsSound' /\ OpenedSound'
  BY <1>1, <1>2, <1>4 DEF CliInv, ThreadsSound, OpenedSound, ChildRows, Names
<1>9. PersistSound'
  BY <1>1, <1>2, <1>4 DEF CliInv, PersistSound
<1>10. AttemptSound'
  BY <1>1, <1>2, <1>5 DEF CliInv, AttemptSound
<1>11. QED
  BY <1>6, <1>7, <1>8, <1>9, <1>10 DEF CliInv

(* A main run that completes has spoken in the thread of the binding.      *)
LEMMA CompletesInv ==
    ASSUME CliInv, Completes
    PROVE  CliInv'
<1>1. /\ CliTypes /\ IsOp(op) /\ op.at = "running" /\ op.n \in Ops /\ child \in ChildRows
      /\ op.persist \in {"none", "saved"} /\ op.error = "none" /\ child.is = "gone" /\ child.failed = FALSE
      /\ UNCHANGED <<provider, binding, thread>> /\ SettleOp("completed") /\ child' = NoChild
  BY DEF CliInv, CliTypes, Completes, Ended, Clean, Persisted, Settle, ChildRows
<1>2. IsOp(op') /\ op'.at = "idle" /\ child' \in ChildRows /\ OpenedSound'
  BY <1>1, SettledOp, IdleRows DEF OpenedSound
<1>3. binding.generation \in Nat
  BY <1>1 DEF CliTypes, BindingRows
<1>4. CASE op.kind # "main"
  <2>1. completed' = completed
    BY <1>1, <1>4 DEF SettleOp
  <2>2. ThreadsSound' /\ ThreadRemembers'
    BY <1>1, <2>1 DEF CliInv, ThreadsSound, ThreadRemembers
  <2>3. QED
    BY <1>1, <1>2, <2>1, <2>2, EndedOp DEF CliTypes
<1>5. CASE op.kind = "main"
  <2>1. completed' = [completed EXCEPT ![op.n] = binding.generation]
    BY <1>1, <1>5 DEF SettleOp
  <2>2. op.thread = binding.thread /\ op.thread \in Threads /\ op.n \in thread[op.thread].turns
    BY <1>1, <1>5, ThreadsAssumption DEF CliInv, PersistSound, AttemptSound
  <2>3. (completed \in [Ops -> Nat])' /\ ThreadsSound' /\ ThreadRemembers'
    BY <1>1, <1>3, <2>1, <2>2 DEF CliInv, CliTypes, ThreadsSound, ThreadRemembers
  <2>4. QED
    BY <1>1, <1>2, <2>3, EndedOp DEF CliTypes
<1>6. QED
  BY <1>4, <1>5

-----------------------------------------------------------------------------
(* Between two operations *)

LEMMA LeftoverInv ==
    ASSUME CliInv, Leftover \/ \E t \in Threads : LoseThread(t)
    PROVE  CliInv'
<1>1. CliTypes /\ op.at = "idle" /\ UNCHANGED <<provider, binding, op, completed>>
  BY DEF CliInv, Leftover, LoseThread, Keep
<1>2. child' \in ChildRows /\ (child'.thread = NoThread \/ child' = child)
  BY <1>1, IdleRows DEF Leftover, LoseThread, CliTypes
<1>3. /\ thread' \in [Threads -> ThreadRows]
      /\ \A x \in Threads : /\ thread'[x].turns = thread[x].turns
                            /\ thread'[x].is = "new" <=> thread[x].is = "new"
  <2>1. CASE Leftover
    BY <1>1, <2>1 DEF Leftover, CliTypes
  <2>2. CASE \E t \in Threads : LoseThread(t)
    <3>1. PICK t \in Threads : thread' = [thread EXCEPT ![t].is = "lost"] /\ thread[t].is = "live"
      BY <2>2 DEF LoseThread
    <3>2. PICK old \in ThreadRows : old = thread[t]
      BY <1>1 DEF CliTypes
    <3>3. PICK row \in ThreadRows : row = [old EXCEPT !.is = "lost"] /\ row.is = "lost" /\ row.turns = old.turns
      <4>1. /\ [old EXCEPT !.is = "lost"] \in ThreadRows
            /\ [old EXCEPT !.is = "lost"].is = "lost" /\ [old EXCEPT !.is = "lost"].turns = old.turns
        BY DEF ThreadRows
      <4>2. QED
        BY <4>1
    <3>4. thread' = [thread EXCEPT ![t] = row]
      BY <3>1, <3>2, <3>3
    <3>5. QED
      BY <1>1, <3>1, <3>2, <3>3, <3>4 DEF CliTypes
  <2>3. QED
    BY <2>1, <2>2
<1>4. OpenedSound' /\ ThreadsSound' /\ ThreadRemembers'
  BY <1>1, <1>2, <1>3 DEF CliInv, OpenedSound, ThreadsSound, ThreadRemembers, ChildRows, Names, CliTypes
<1>5. QED
  BY <1>1, <1>2, <1>3, <1>4, EndedOp DEF CliTypes

LEMMA CliNextInv ==
    ASSUME CliInv, [CliNext]_cliVars
    PROVE  CliInv'
<1>1. CASE UNCHANGED cliVars
  BY <1>1 DEF CliInv, cliVars, CliTypes, OpenedSound, ThreadsSound, PersistSound, AttemptSound, ThreadRemembers
<1>2. CASE \/ Output \/ ToolInTask \/ BadEvent \/ Denied \/ ProviderFails \/ Kill
           \/ \E how \in {"cancelled", "timeout"} : Stop(how)
           \/ Answered \/ TurnStarted \/ ItemCompleted \/ CompactionFails
           \/ \E good \in BOOLEAN : TurnCompleted(good)
  BY <1>2, NotesStepInv
<1>3. CASE \/ Unavailable \/ RotationLost \/ StoppedBeforeSpawn \/ Stopped \/ AttemptFails
           \/ TaskEnds \/ EndsWithoutResult \/ CompactionEnds
  BY <1>3, SettleStepInv
<1>4. CASE \/ \E kind \in {"main", "isolated", "task", "compact"} : Begin(kind)
           \/ RotateInvalid \/ RetryInNewThread \/ Continue
  BY <1>4, ReadyStepInv
<1>5. CASE Spawn \/ Persist \/ PersistFails \/ Exits \/ Completes \/ \E t \in Threads : Started(t)
  BY <1>5, SpawnInv, PersistInv, ExitsInv, CompletesInv, StartedInv
<1>6. CASE Leftover \/ \E t \in Threads : LoseThread(t)
  BY <1>6, LeftoverInv
<1>7. QED
  BY <1>1, <1>2, <1>3, <1>4, <1>5, <1>6 DEF CliNext

(* CliInv is an inductive invariant of the command-line adapters           *)
(* (codex-adapter.js, claude-code-adapter.js, antigravity-adapter.js).     *)
THEOREM CliInvInductive == CliSpec => []CliInv
<1>1. CliInit => CliInv
  BY CliInitInv
<1>2. CliInv /\ [CliNext]_cliVars => CliInv'
  BY CliNextInv
<1>3. QED
  BY <1>1, <1>2, PTL DEF CliSpec

(* The thread that the next run resumes holds the turns of all runs that   *)
(* were completed in this generation.                                      *)
THEOREM ThreadsRemember == CliSpec => []ThreadRemembers
<1>1. CliInv => ThreadRemembers
  BY DEF CliInv
<1>2. QED
  BY <1>1, CliInvInductive, PTL

-----------------------------------------------------------------------------
(* The server of OpenCode *)

CallRows == [at : {"none", "ensuring", "joined", "failing", "session", "running", "done"},
             handle : Servers \union {0},
             how : {"open", "fallback", "completed", "failed", "cancelled", "quota"},
             stopped : BOOLEAN]

ServerTypes ==
    /\ server \in [Servers -> {"none", "starting", "up", "stopping", "gone"}]
    /\ daemon \in Servers \union {0} /\ starting \in Servers \union {0}
    /\ call \in [Calls -> CallRows] /\ listener \in Calls \union {NoCall}
    /\ inFlight \in Nat /\ idleTimer \in BOOLEAN /\ closed \in BOOLEAN

(* inFlight counts the calls between their start and their end.            *)
FlyingCalls == {c \in Calls : InFlight(c)}
CountSound  == inFlight = Cardinality(FlyingCalls)

(* Somebody waits for a server that is starting; a call has its server,    *)
(* and one whose quota is exhausted has ended.                             *)
CallsSound ==
    /\ starting # 0 => \E c \in Calls : call[c].at = "joined"
    /\ \A c \in Calls : call[c].at \in {"session", "running"} => call[c].handle \in Servers
    /\ \A c \in Calls : call[c].how = "quota" => call[c].at = "done"

ServerInv == ServerTypes /\ CountSound /\ CallsSound /\ ServerOutlivesItsCalls

LEMMA ServerInitInv ==
    ASSUME ServerInit
    PROVE  ServerInv
<1> USE CallsAssumption DEF ServerInit
<1>1. ServerTypes
  BY DEF ServerTypes, CallRows
<1>2. CountSound
  <2>1. FlyingCalls = {}
    BY DEF FlyingCalls, InFlight
  <2>2. QED
    BY <2>1, FS_EmptySet DEF CountSound
<1>3. CallsSound /\ ServerOutlivesItsCalls
  BY DEF CallsSound, ServerOutlivesItsCalls, Up
<1>4. QED
  BY <1>1, <1>2, <1>3 DEF ServerInv

(* The count of calls when one begins or ends.                             *)
LEMMA CountWhenCallsMove ==
    ASSUME ServerInv
    PROVE  /\ FlyingCalls' = FlyingCalls => Cardinality(FlyingCalls') = inFlight
           /\ \A c \in Calls : ~InFlight(c) /\ FlyingCalls' = FlyingCalls \union {c} =>
                Cardinality(FlyingCalls') = inFlight + 1
           /\ \A c \in Calls : InFlight(c) /\ FlyingCalls' = FlyingCalls \ {c} =>
                /\ inFlight - 1 \in Nat
                /\ Cardinality(FlyingCalls') = inFlight - 1
                /\ inFlight - 1 = 0 <=> FlyingCalls' = {}
<1>1. IsFiniteSet(FlyingCalls) /\ inFlight = Cardinality(FlyingCalls) /\ inFlight \in Nat
  BY CallsAssumption, FS_Subset DEF ServerInv, CountSound, FlyingCalls, ServerTypes
<1>2. ASSUME NEW c \in Calls, ~InFlight(c), FlyingCalls' = FlyingCalls \union {c}
      PROVE  Cardinality(FlyingCalls') = inFlight + 1
  BY <1>1, <1>2, FS_AddElement DEF FlyingCalls
<1>3. ASSUME NEW c \in Calls, InFlight(c), FlyingCalls' = FlyingCalls \ {c}
      PROVE  /\ inFlight - 1 \in Nat
             /\ Cardinality(FlyingCalls') = inFlight - 1
             /\ inFlight - 1 = 0 <=> FlyingCalls' = {}
  <2>1. /\ IsFiniteSet(FlyingCalls \ {c})
        /\ Cardinality(FlyingCalls \ {c}) = inFlight - 1
    BY <1>1, <1>3, FS_RemoveElement DEF FlyingCalls
  <2>2. Cardinality(FlyingCalls \ {c}) \in Nat /\ (Cardinality(FlyingCalls \ {c}) = 0 <=> FlyingCalls \ {c} = {})
    BY <2>1, FS_CardinalityType, FS_EmptySet
  <2>3. QED
    BY <1>3, <2>1, <2>2
<1>4. QED
  BY <1>1, <1>2, <1>3

(* A call that leaves lets the server go, if it was the last one.          *)
LEMMA LeaveInv ==
    ASSUME ServerInv, NEW c \in Calls, InFlight(c), call[c].at # "joined",
           NEW how \in {"completed", "failed", "cancelled", "quota"}, Leave(c, how)
    PROVE  ServerInv'
<1>1. ServerTypes
  BY DEF ServerInv
<1>2. /\ call' = [call EXCEPT ![c].at = "done", ![c].how = how] /\ call' \in [Calls -> CallRows]
      /\ call'[c].at = "done" /\ \A x \in Calls : x # c => call'[x] = call[x]
  <2>1. PICK old : old = call[c]
    OBVIOUS
  <2>2. PICK row : row = [at |-> "done", handle |-> old.handle, how |-> how, stopped |-> old.stopped]
    OBVIOUS
  <2>3. call \in [Calls -> CallRows] /\ old \in CallRows
    BY <1>1, <2>1 DEF ServerTypes
  <2>4. row \in CallRows /\ row.at = "done"
    BY <2>2, <2>3 DEF CallRows
  <2>5. call' = [call EXCEPT ![c].at = "done", ![c].how = how]
    BY DEF Leave
  <2>6. PICK z : z = [call EXCEPT ![c].at = "done"]
    OBVIOUS
  <2>7. z[c] = [old EXCEPT !.at = "done"] /\ DOMAIN z = Calls /\ \A x \in Calls : x # c => z[x] = call[x]
    BY <2>1, <2>3, <2>6
  <2>8. call' = [z EXCEPT ![c].how = how]
    BY <2>5, <2>6
  <2>9. call'[c] = [[old EXCEPT !.at = "done"] EXCEPT !.how = how]
    BY <2>7, <2>8
  <2>10. call'[c] = row
    BY <2>2, <2>3, <2>9 DEF CallRows
  <2>11. DOMAIN call' = Calls /\ \A x \in Calls : x # c => call'[x] = call[x]
    BY <2>7, <2>8
  <2>12. call' = [x \in DOMAIN call' |-> call'[x]]
    BY <2>8
  <2>13. call' \in [Calls -> CallRows]
    BY <2>3, <2>4, <2>10, <2>11, <2>12
  <2>14. QED
    BY <2>4, <2>5, <2>10, <2>11, <2>13
<1>3. FlyingCalls' = FlyingCalls \ {c}
  <2>1. ~InFlight(c)'
    BY <1>2 DEF InFlight
  <2>2. ASSUME NEW x \in Calls, x # c PROVE InFlight(x)' <=> InFlight(x)
    BY <1>2, <2>2 DEF InFlight
  <2>3. QED
    BY <2>1, <2>2 DEF FlyingCalls
<1>4. /\ inFlight' \in Nat /\ inFlight' = Cardinality(FlyingCalls')
      /\ inFlight' = 0 <=> FlyingCalls' = {}
  BY <1>3, CountWhenCallsMove DEF Leave
<1>5. ServerTypes'
  BY <1>1, <1>2, <1>4 DEF ServerTypes, Leave
<1>6. CallsSound'
  <2>1. \A x \in Calls : call[x].at = "joined" => call'[x].at = "joined"
    BY <1>2
  <2>3. \A x \in Calls : /\ call'[x].at \in {"session", "running"} => call'[x].handle \in Servers
                         /\ call'[x].how = "quota" => call'[x].at = "done"
    BY <1>2 DEF ServerInv, CallsSound
  <2>4. starting' = starting
    BY DEF Leave
  <2>5. QED
    BY <2>1, <2>3, <2>4 DEF ServerInv, CallsSound
<1>7. ServerOutlivesItsCalls'
  BY <1>2, <1>4 DEF ServerInv, ServerOutlivesItsCalls, Leave, FlyingCalls, Up
<1>8. QED
  BY <1>4, <1>5, <1>6, <1>7 DEF ServerInv, CountSound

(* A call moves on, or begins.                                             *)
LEMMA CallMoves ==
    ASSUME ServerInv, NEW c \in Calls, NEW row \in CallRows, call' = [call EXCEPT ![c] = row],
           row.at \notin {"none", "done"}, row.how # "quota",
           row.at \in {"session", "running"} =>
               row.handle \in Servers /\ (closed \/ server[row.handle] # "stopping"),
           call[c].at = "joined" => row.at = "joined",
           inFlight' = IF InFlight(c) THEN inFlight ELSE inFlight + 1,
           UNCHANGED <<server, daemon, starting, closed>>,
           idleTimer' \in BOOLEAN, listener' \in Calls \union {NoCall}
    PROVE  ServerInv'
<1>1. ServerTypes
  BY DEF ServerInv
<1>2. call'[c] = row /\ call' \in [Calls -> CallRows] /\ \A x \in Calls : x # c => call'[x] = call[x]
  BY <1>1 DEF ServerTypes
<1>3. FlyingCalls' = IF InFlight(c) THEN FlyingCalls ELSE FlyingCalls \union {c}
  BY <1>2 DEF FlyingCalls, InFlight
<1>4. ServerTypes'
  BY <1>1, <1>2 DEF ServerTypes
<1>5. CountSound'
  BY <1>3, CountWhenCallsMove DEF CountSound
<1>6. CallsSound'
  <2>1. \A x \in Calls : call[x].at = "joined" => call'[x].at = "joined"
    BY <1>2
  <2>2. \A x \in Calls : /\ call'[x].at \in {"session", "running"} => call'[x].handle \in Servers
                         /\ call'[x].how = "quota" => call'[x].at = "done"
    BY <1>2 DEF ServerInv, CallsSound
  <2>3. QED
    BY <2>1, <2>2 DEF ServerInv, CallsSound
<1>7. ServerOutlivesItsCalls'
  <2>1. InFlight(c)'
    BY <1>2 DEF InFlight
  <2>2. \A x \in Calls : ~closed' /\ call'[x].at \in {"session", "running"} => server'[call'[x].handle] # "stopping"
    BY <1>2 DEF ServerInv, ServerOutlivesItsCalls
  <2>3. QED
    BY <2>1, <2>2 DEF ServerOutlivesItsCalls
<1>8. QED
  BY <1>4, <1>5, <1>6, <1>7 DEF ServerInv

LEMMA CallStepInv ==
    ASSUME ServerInv, NEW c \in Calls,
           \/ Enter(c) \/ GiveUp(c) \/ UseDaemon(c) \/ JoinStart(c) \/ Fails(c)
           \/ OpenSession(c) \/ SessionFails(c) \/ RunnerExits(c) \/ Cancel(c)
           \/ DigestRequest(c) \/ DigestEnds(c) \/ Fallback(c)
    PROVE  ServerInv'
<1>1. ServerTypes /\ call[c] \in CallRows
  BY DEF ServerInv, ServerTypes
<1>2. CASE Enter(c)
  <2>1. PICK row \in CallRows : row = [call[c] EXCEPT !.at = "ensuring"]
    BY <1>1 DEF CallRows
  <2>2. call' = [call EXCEPT ![c] = row] /\ row.at = "ensuring" /\ row.how = call[c].how
    BY <1>1, <1>2, <2>1 DEF Enter, At, CallRows, ServerTypes
  <2>3. call[c].how # "quota" /\ call[c].at = "none" /\ ~InFlight(c)
    BY <1>2 DEF ServerInv, CallsSound, Enter, InFlight
  <2>4. QED
    BY <1>1, <1>2, <2>2, <2>3, CallMoves DEF Enter, Entered, ServerTypes
<1>3. CASE GiveUp(c) \/ Fails(c) \/ SessionFails(c) \/ DigestEnds(c)
  BY <1>3, LeaveInv DEF GiveUp, Fails, SessionFails, DigestEnds, InFlight
<1>4. CASE UseDaemon(c)
  <2>1. PICK row \in CallRows : row = [call[c] EXCEPT !.at = "session", !.handle = daemon]
    BY <1>1 DEF CallRows, ServerTypes
  <2>2. call' = [call EXCEPT ![c] = row] /\ row.at = "session" /\ row.how = call[c].how /\ row.handle = daemon
    BY <1>1, <1>4, <2>1 DEF UseDaemon, CallRows, ServerTypes
  <2>3. call[c].how # "quota" /\ call[c].at = "ensuring" /\ InFlight(c)
    BY <1>4 DEF ServerInv, CallsSound, UseDaemon, InFlight
  <2>4. daemon \in Servers /\ server[daemon] = "up"
    BY <1>1, <1>4 DEF UseDaemon, Up, ServerTypes
  <2>5. QED
    BY <1>1, <1>4, <2>2, <2>3, <2>4, CallMoves DEF UseDaemon, ServerTypes
<1>5. CASE JoinStart(c)
  <2>1. PICK row \in CallRows : row = [call[c] EXCEPT !.at = "joined"]
    BY <1>1 DEF CallRows
  <2>2. call' = [call EXCEPT ![c] = row] /\ row.at = "joined" /\ row.how = call[c].how
    BY <1>1, <1>5, <2>1 DEF JoinStart, At, CallRows, ServerTypes
  <2>3. call[c].how # "quota" /\ call[c].at = "ensuring" /\ InFlight(c)
    BY <1>5 DEF ServerInv, CallsSound, JoinStart, InFlight
  <2>4. QED
    BY <1>1, <1>5, <2>2, <2>3, CallMoves DEF JoinStart, ServerTypes
<1>6. CASE OpenSession(c) \/ DigestRequest(c)
  <2>1. PICK row \in CallRows : row = [call[c] EXCEPT !.at = "running"]
    BY <1>1 DEF CallRows
  <2>2. /\ call' = [call EXCEPT ![c] = row] /\ row.at = "running" /\ row.how = call[c].how
        /\ row.handle = call[c].handle
    BY <1>1, <1>6, <2>1 DEF OpenSession, DigestRequest, At, CallRows, ServerTypes
  <2>3. call[c].how # "quota" /\ call[c].at = "session" /\ InFlight(c) /\ call[c].handle \in Servers
    BY <1>6 DEF ServerInv, CallsSound, OpenSession, DigestRequest, InFlight
  <2>4. server[call[c].handle] = "up"
    BY <1>6 DEF OpenSession, DigestRequest, Up
  <2>5. QED
    BY <1>1, <1>6, <2>2, <2>3, <2>4, CallMoves DEF OpenSession, DigestRequest, ServerTypes
<1>7. CASE RunnerExits(c)
  BY <1>7, LeaveInv DEF RunnerExits, InFlight
<1>8. CASE Cancel(c)
  <2>1. CASE call[c].at = "running"
    BY <1>8, <2>1, LeaveInv DEF Cancel
  <2>2. CASE call[c].at # "running"
    <3>1. PICK row \in CallRows : row = [call[c] EXCEPT !.stopped = TRUE]
      BY <1>1 DEF CallRows
    <3>2. /\ call' = [call EXCEPT ![c] = row] /\ row.at = call[c].at /\ row.how = call[c].how
          /\ row.handle = call[c].handle
      BY <1>1, <1>8, <2>2, <3>1 DEF Cancel, CallRows, ServerTypes
    <3>3. /\ call[c].how # "quota" /\ call[c].at \notin {"none", "done"} /\ InFlight(c)
          /\ call[c].at = "session" => call[c].handle \in Servers
      BY <1>8 DEF ServerInv, CallsSound, Cancel, InFlight
    <3>4. call[c].at = "session" => closed \/ server[call[c].handle] # "stopping"
      BY DEF ServerInv, ServerOutlivesItsCalls
    <3>5. QED
      BY <1>1, <1>8, <2>2, <3>2, <3>3, <3>4, CallMoves DEF Cancel, ServerTypes
  <2>3. QED
    BY <2>1, <2>2
<1>9. CASE Fallback(c)
  <2>1. PICK row \in CallRows : row = [call[c] EXCEPT !.at = "ensuring", !.how = "fallback", !.handle = 0]
    BY <1>1 DEF CallRows
  <2>2. call' = [call EXCEPT ![c] = row] /\ row.at = "ensuring" /\ row.how = "fallback"
    BY <1>1, <1>9, <2>1 DEF Fallback, CallRows, ServerTypes
  <2>3. call[c].at = "done" /\ ~InFlight(c)
    BY <1>9 DEF ServerInv, CallsSound, Fallback, InFlight
  <2>4. QED
    BY <1>1, <1>9, <2>2, <2>3, CallMoves DEF Fallback, Entered, ServerTypes
<1>10. QED
  BY <1>2, <1>3, <1>4, <1>5, <1>6, <1>7, <1>8, <1>9

(* The first call that finds no server starts one.                         *)
LEMMA StartDaemonInv ==
    ASSUME ServerInv, NEW c \in Calls, StartDaemon(c)
    PROVE  ServerInv'
<1>1. ServerTypes /\ call[c].at = "ensuring"
  BY DEF ServerInv, StartDaemon
<1>2. PICK s \in Servers : /\ server[s] = "none" /\ server' = [server EXCEPT ![s] = "starting"]
                           /\ starting' = s
  BY DEF StartDaemon
<1>3. call' = [call EXCEPT ![c].at = "joined"] /\ UNCHANGED <<daemon, listener, inFlight, closed>>
  BY DEF StartDaemon, At
<1>4. /\ call' \in [Calls -> CallRows] /\ call'[c].at = "joined" /\ call'[c].how = call[c].how
      /\ \A x \in Calls : x # c => call'[x] = call[x]
  BY <1>1, <1>3 DEF ServerTypes, CallRows
<1>5. ServerTypes'
  BY <1>1, <1>2, <1>3, <1>4 DEF ServerTypes, StartDaemon
<1>6. CountSound'
  <2>1. FlyingCalls' = FlyingCalls
    BY <1>1, <1>4 DEF FlyingCalls, InFlight
  <2>2. QED
    BY <1>3, <2>1, CountWhenCallsMove DEF CountSound
<1>7. CallsSound'
  <2>1. \E x \in Calls : call'[x].at = "joined"
    BY <1>4
  <2>2. \A x \in Calls : /\ call'[x].at \in {"session", "running"} => call'[x].handle \in Servers
                         /\ call'[x].how = "quota" => call'[x].at = "done"
    BY <1>1, <1>4 DEF ServerInv, CallsSound
  <2>3. QED
    BY <2>1, <2>2 DEF CallsSound
<1>8. ServerOutlivesItsCalls'
  <2>1. InFlight(c)'
    BY <1>4 DEF InFlight
  <2>2. \A x \in Calls : ~closed /\ call'[x].at \in {"session", "running"} => server'[call'[x].handle] # "stopping"
    BY <1>1, <1>2, <1>4 DEF ServerInv, ServerOutlivesItsCalls, CallsSound, ServerTypes
  <2>3. QED
    BY <1>3, <2>1, <2>2 DEF ServerOutlivesItsCalls
<1>9. QED
  BY <1>5, <1>6, <1>7, <1>8 DEF ServerInv

(* Everybody who joined gets the server, or fails.                         *)
LEMMA StartEndsInv ==
    ASSUME ServerInv, Healthy \/ Unhealthy
    PROVE  ServerInv'
<1>1. ServerTypes /\ starting \in Servers
  BY DEF ServerInv, ServerTypes, Healthy, Unhealthy
<1>2. \A x \in Calls : call[x].at # "joined" => call'[x] = call[x]
  BY <1>1 DEF Healthy, Unhealthy, ServerTypes
<1>3. \A x \in Calls : call[x].at = "joined" =>
        /\ call'[x] \in CallRows /\ call'[x].how = call[x].how
        /\ \/ call'[x].at = "session" /\ call'[x].handle = starting /\ Healthy
           \/ call'[x].at = "failing" /\ Unhealthy
  <2>1. ASSUME NEW x \in Calls, call[x].at = "joined"
        PROVE  /\ call'[x] \in CallRows /\ call'[x].how = call[x].how
               /\ \/ call'[x].at = "session" /\ call'[x].handle = starting /\ Healthy
                  \/ call'[x].at = "failing" /\ Unhealthy
    <3>1. PICK row \in CallRows : row = call[x]
      BY <1>1 DEF ServerTypes
    <3>2. CASE Healthy
      <4>1. call'[x] = [row EXCEPT !.at = "session", !.handle = starting]
        BY <2>1, <3>1, <3>2 DEF Healthy
      <4>2. QED
        BY <1>1, <3>1, <3>2, <4>1 DEF CallRows
    <3>3. CASE Unhealthy
      <4>1. call'[x] = [row EXCEPT !.at = "failing"]
        BY <2>1, <3>1, <3>3 DEF Unhealthy
      <4>2. QED
        BY <3>1, <3>3, <4>1 DEF CallRows
    <3>4. QED
      BY <3>2, <3>3
  <2>2. QED
    BY <2>1
<1>4. call' \in [Calls -> CallRows]
  <2>1. \A x \in Calls : call'[x] \in CallRows
    BY <1>1, <1>2, <1>3 DEF ServerTypes
  <2>2. call' = [x \in Calls |-> call'[x]]
    BY DEF Healthy, Unhealthy
  <2>3. QED
    BY <2>1, <2>2
<1>5. /\ server' \in [Servers -> {"none", "starting", "up", "stopping", "gone"}]
      /\ \A s \in Servers : server'[s] = "stopping" => server[s] = "stopping" /\ s # starting
      /\ starting' = 0 /\ daemon' \in {daemon, starting} /\ UNCHANGED <<listener, inFlight, idleTimer, closed>>
  BY <1>1 DEF Healthy, Unhealthy, ServerTypes
<1>6. ServerTypes'
  BY <1>1, <1>4, <1>5 DEF ServerTypes
<1>7. CountSound'
  <2>1. FlyingCalls' = FlyingCalls
    BY <1>2, <1>3 DEF FlyingCalls, InFlight
  <2>2. QED
    BY <1>5, <2>1, CountWhenCallsMove DEF CountSound
<1>8. CallsSound'
  BY <1>1, <1>2, <1>3, <1>5 DEF ServerInv, CallsSound
<1>9. ServerOutlivesItsCalls'
  <2>1. \A x \in Calls : ~closed /\ call'[x].at \in {"session", "running"} => server'[call'[x].handle] # "stopping"
    BY <1>1, <1>2, <1>3, <1>5 DEF ServerInv, ServerOutlivesItsCalls, CallsSound
  <2>2. PICK x \in Calls : call[x].at = "joined"
    BY <1>1 DEF ServerInv, CallsSound, Servers
  <2>3. InFlight(x)'
    BY <1>3, <2>2 DEF InFlight
  <2>4. QED
    BY <1>5, <2>1, <2>3 DEF ServerOutlivesItsCalls
<1>10. QED
  BY <1>6, <1>7, <1>8, <1>9 DEF ServerInv

(* A server stops when no call is there, or when the adapter is shut down. *)
LEMMA StopInv ==
    ASSUME ServerInv, IdleTimerFires \/ Shutdown
    PROVE  ServerInv'
<1>1. ServerTypes
  BY DEF ServerInv
<1>2. UNCHANGED <<starting, call, listener, inFlight>>
  BY DEF IdleTimerFires, Shutdown
<1>3. ServerTypes'
  BY <1>1, <1>2 DEF IdleTimerFires, Shutdown, StopDaemon, Up, ServerTypes
<1>4. CountSound' /\ CallsSound'
  BY <1>2 DEF ServerInv, CountSound, CallsSound, FlyingCalls, InFlight
<1>5. CASE closed'
  BY <1>3, <1>4, <1>5 DEF ServerInv, ServerOutlivesItsCalls
<1>6. CASE ~closed'
  <2>1. IdleTimerFires /\ ~closed
    BY <1>6 DEF IdleTimerFires, Shutdown
  <2>2. CASE inFlight = 0
    <3>1. IsFiniteSet(FlyingCalls) /\ Cardinality(FlyingCalls) = 0
      BY <2>2, CallsAssumption, FS_Subset DEF ServerInv, CountSound, FlyingCalls
    <3>2. FlyingCalls = {}
      BY <3>1, FS_EmptySet
    <3>3. \A x \in Calls : call'[x].at \notin {"session", "running"}
      BY <1>2, <3>2 DEF FlyingCalls, InFlight
    <3>4. daemon' = 0
      BY <2>1, <2>2 DEF IdleTimerFires, StopDaemon
    <3>5. QED
      BY <1>3, <1>4, <3>3, <3>4 DEF ServerInv, ServerOutlivesItsCalls, Up
  <2>3. CASE inFlight # 0
    <3>1. \E x \in Calls : InFlight(x)
      BY <2>3, FS_EmptySet DEF ServerInv, CountSound, FlyingCalls
    <3>2. QED
      BY <1>2, <1>3, <1>4, <2>1, <2>3, <3>1 DEF ServerInv, ServerOutlivesItsCalls, IdleTimerFires, InFlight
  <2>4. QED
    BY <2>2, <2>3
<1>7. QED
  BY <1>5, <1>6

LEMMA ServerEndsInv ==
    ASSUME ServerInv, NEW s \in Servers, ServerExits(s) \/ ServerDies(s)
    PROVE  ServerInv'
<1>1. ServerTypes
  BY DEF ServerInv
<1>2. /\ server' = [server EXCEPT ![s] = "gone"] /\ daemon' \in {daemon, 0}
      /\ UNCHANGED <<starting, call, listener, inFlight, idleTimer, closed>>
  BY DEF ServerExits, ServerDies
<1>3. ServerTypes'
  BY <1>1, <1>2 DEF ServerTypes
<1>4. CountSound' /\ CallsSound'
  BY <1>2 DEF ServerInv, CountSound, CallsSound, FlyingCalls, InFlight
<1>5. \A d \in Servers : server'[d] \in {server[d], "gone"}
  BY <1>1, <1>2 DEF ServerTypes
<1>6. Up(daemon)' => Up(daemon)
  BY <1>1, <1>2, <1>5 DEF Up, ServerTypes
<1>7. ServerOutlivesItsCalls'
  <2>1. \A x \in Calls : ~closed /\ call[x].at \in {"session", "running"} => server'[call[x].handle] # "stopping"
    BY <1>5 DEF ServerInv, ServerOutlivesItsCalls, CallsSound
  <2>2. QED
    BY <1>2, <1>6, <2>1 DEF ServerInv, ServerOutlivesItsCalls, InFlight
<1>8. QED
  BY <1>3, <1>4, <1>7 DEF ServerInv

LEMMA ServerNextInv ==
    ASSUME ServerInv, [ServerNext]_serverVars
    PROVE  ServerInv'
<1>1. CASE UNCHANGED serverVars
  BY <1>1 DEF ServerInv, serverVars, ServerTypes, CountSound, CallsSound, ServerOutlivesItsCalls,
              FlyingCalls, InFlight, Up
<1>2. CASE \E c \in Calls :
          \/ Enter(c) \/ GiveUp(c) \/ UseDaemon(c) \/ StartDaemon(c) \/ JoinStart(c) \/ Fails(c)
          \/ OpenSession(c) \/ SessionFails(c) \/ RunnerExits(c) \/ Cancel(c)
          \/ DigestRequest(c) \/ DigestEnds(c) \/ Fallback(c)
  BY <1>2, StartDaemonInv, CallStepInv
<1>3. CASE SessionIdle
  <2>1. CASE listener # NoCall /\ call[listener].at = "running"
    <3>1. listener \in Calls /\ InFlight(listener)
      BY <2>1 DEF ServerInv, ServerTypes, InFlight
    <3>2. Leave(listener, "completed")
      BY <1>3, <2>1 DEF SessionIdle
    <3>3. QED
      BY <2>1, <3>1, <3>2, LeaveInv
  <2>2. CASE ~(listener # NoCall /\ call[listener].at = "running")
    BY <1>3, <2>2 DEF SessionIdle, ServerInv, ServerTypes, CountSound, CallsSound, ServerOutlivesItsCalls,
                     FlyingCalls, InFlight, Up
  <2>3. QED
    BY <2>1, <2>2
<1>4. CASE Healthy \/ Unhealthy
  BY <1>4, StartEndsInv
<1>5. CASE IdleTimerFires \/ Shutdown
  BY <1>5, StopInv
<1>6. CASE \E s \in Servers : ServerExits(s) \/ ServerDies(s)
  BY <1>6, ServerEndsInv
<1>7. QED
  BY <1>1, <1>2, <1>3, <1>4, <1>5, <1>6 DEF ServerNext

(* The server of OpenCode (opencode-adapter.js) serves its calls and no    *)
(* longer: it is not stopped under a call, and a server that nobody uses   *)
(* has a timer, for any number of runs and digests that share it.          *)
THEOREM ServerServesItsCalls == ServerSpec => []ServerOutlivesItsCalls
<1>1. ServerInit => ServerInv
  BY ServerInitInv
<1>2. ServerInv /\ [ServerNext]_serverVars => ServerInv'
  BY ServerNextInv
<1>3. ServerInv => ServerOutlivesItsCalls
  BY DEF ServerInv
<1>4. QED
  BY <1>1, <1>2, <1>3, PTL DEF ServerSpec

=============================================================================
