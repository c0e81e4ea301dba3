--------------------------- MODULE DaemonLinkProofs ---------------------------
(***************************************************************************)
(* The link between gateway and daemon implements DirectedDelivery, for    *)
(* every size of the ring buffer and every number of faults, sessions and  *)
(* frames.                                                                 *)
(*                                                                         *)
(* The inductive invariant LinkInv says where the frames are: the channel  *)
(* has numbered all it published without a gap, the ring buffer is the end *)
(* of that log, and what is on the wire to a daemon that holds the live    *)
(* session is the part of the log right after its cursor, or begins with a *)
(* reset.  A step then changes what is unread as DirectedDelivery allows.  *)
(*                                                                         *)
(* The tasks of digests and dreams travel on the same stream: the second   *)
(* part is about what of them reaches a daemon and what comes back.        *)
(*                                                                         *)
(* The third part is about the jobs these tasks belong to and the vault    *)
(* they write: what is stored of a job, what was known when it was         *)
(* decided, and what the files say.                                        *)
(*                                                                         *)
(* The fourth part is about the other receiver of events, a browser: an    *)
(* entry of the run progress, or a row in an answer on its way, differs    *)
(* from the run by what the events still to be handled will change.        *)
(***************************************************************************)
EXTENDS DaemonLink, MemoryTasks, MemoryMaintenance, ChatClient, SequenceTheorems, TLAPS

AnyType == EventTypes \cup {"stream.reset"}
EventFrames == [seq : Nat, type : EventTypes]
WireFrames  == [seq : Nat, type : AnyType]

Hubs == [session : Nat, seq : Nat, buffer : Seq(EventFrames)]

States == {"off"} \cup Looping \cup Stopping

Reset0 == wire # << >> /\ Head(wire).type = "stream.reset"

(* The types the proofs need.                                              *)
LinkTypes ==
    /\ gwSession \in Nat /\ issued \in Nat /\ token \in Nat /\ listener \in Nat
    /\ channel \in Hubs
    /\ log \in Seq(EventFrames) /\ wire \in Seq(WireFrames)
    /\ stream \in {"none", "open", "ended"}
    /\ dpc \in States
    /\ lastEventId \in {None} \cup Nat
    /\ resets \in Nat

(* Session numbers are handed out once and in order.                       *)
SessionsIssued ==
    /\ issued <= MaxSessions
    /\ gwSession <= issued /\ token <= issued /\ channel.session <= issued
    /\ listener # 0 => listener = channel.session

(* A channel h numbers its frames l from 1; its buffer has the last of them.*)
Numbered(h, l) ==
    /\ Len(l) = h.seq
    /\ \A i \in 1 .. Len(l) : l[i].seq = i
    /\ Len(h.buffer) <= Len(l)
    /\ \A i \in 1 .. Len(h.buffer) : h.buffer[i] = l[Len(l) - Len(h.buffer) + i]

ChannelNumbered == Numbered(channel, log) /\ channel.seq <= MaxSeq

(* Where the daemon stands and what it holds.                              *)
DaemonConnected ==
    /\ dpc = "off" <=> token = 0
    /\ dpc \in {"off", "connect", "backoff"} => stream = "none"
    /\ stream = "none" => wire = << >>
    /\ token = 0 => lastEventId = None
    /\ token # 0 /\ token = gwSession /\ channel.session # token =>
          wire = << >> /\ lastEventId = None
    /\ listener # 0 /\ stream = "open" => listener = token

(* What is on the wire.                                                    *)
WireFollows ==
    /\ \A i \in 2 .. Len(wire) : wire[i].type \in EventTypes
    /\ Live => /\ Cursor <= Len(log)
               /\ Reset0 => Cursor <= Head(wire).seq /\ Head(wire).seq <= Len(log)
               /\ ~Reset0 => /\ Cursor + Len(wire) <= Len(log)
                             /\ \A i \in 1 .. Len(wire) : wire[i] = log[Cursor + i]
                             /\ listener # 0 /\ stream = "open" => Cursor + Len(wire) = Len(log)

LinkInv ==
    LinkTypes /\ SessionsIssued /\ ChannelNumbered /\ DaemonConnected /\ WireFollows

-----------------------------------------------------------------------------
(* The end of a sequence *)

(* What is left of a sequence behind a position.                           *)
LEMMA Suffix ==
    ASSUME NEW S, NEW s \in Seq(S), NEW c \in Nat, c <= Len(s)
    PROVE  /\ SubSeq(s, c + 1, Len(s)) \in Seq(S)
           /\ Len(SubSeq(s, c + 1, Len(s))) = Len(s) - c
           /\ \A i \in 1 .. Len(s) - c : SubSeq(s, c + 1, Len(s))[i] = s[c + i]
<1>1. \A i \in c + 1 .. Len(s) : s[i] \in S
  BY ElementOfSeq
<1>2. QED
  BY <1>1, SubSeqProperties

(* Sequences with the same elements are equal.                             *)
LEMMA SameSeq ==
    ASSUME NEW S, NEW s \in Seq(S), NEW t \in Seq(S), NEW n \in Nat, Len(s) = n, Len(t) = n,
           \A i \in 1 .. n : s[i] = t[i]
    PROVE  s = t
BY SeqEqual

(* One more element at the end.                                            *)
LEMMA SuffixOfAppend ==
    ASSUME NEW S, NEW s \in Seq(S), NEW c \in Nat, c <= Len(s), NEW e \in S
    PROVE  SubSeq(Append(s, e), c + 1, Len(s) + 1) = SubSeq(s, c + 1, Len(s)) \o <<e>>
<1> DEFINE t == Append(s, e)
<1>1. Len(s) \in Nat
  BY LenProperties
<1>2. t \in Seq(S) /\ Len(t) = Len(s) + 1 /\ t[Len(s) + 1] = e /\ t = s \o <<e>>
  BY AppendProperties, AppendIsConcat
<1>3. SubSeq(t, c + 1, Len(s)) = SubSeq(s, c + 1, Len(s))
  <2>1. CASE c = Len(s)
    <3>1. c + 1 \in Int /\ Len(s) \in Int /\ Len(s) < c + 1
      BY <1>1, <2>1
    <3>2. QED
      BY <3>1, SubSeqEmpty
  <2>2. CASE c < Len(s)
    <3>1. c + 1 \in 1 .. Len(s) /\ Len(s) \in 1 .. Len(s) /\ <<e>> \in Seq(S)
      BY <1>1, <2>2
    <3>2. SubSeq(s \o <<e>>, c + 1, Len(s)) = SubSeq(s, c + 1, Len(s))
      BY <3>1, SubSeqOfConcat1
    <3>3. QED
      BY <1>2, <3>2
  <2>3. QED
    BY <1>1, <2>1, <2>2
<1> DEFINE m == c + 1
           n == Len(s) + 1
<1>4. m \in 1 .. Len(t) /\ n \in m .. Len(t) /\ n - 1 = Len(s)
  BY <1>1, <1>2
<1>5. SubSeq(t, m, n) = SubSeq(t, m, n - 1) \o <<t[n]>>
  <2> HIDE DEF t, m, n
  <2>1. QED
    BY <1>2, <1>4, SubSeqRecursiveSecond
<1>6. QED
  BY <1>2, <1>3, <1>4, <1>5

(* A later position.                                                       *)
LEMMA SuffixOfSuffix ==
    ASSUME NEW S, NEW s \in Seq(S), NEW c \in Nat, NEW d \in Nat, c <= d, d <= Len(s)
    PROVE  SubSeq(s, d + 1, Len(s)) = SubSeq(SubSeq(s, c + 1, Len(s)), d - c + 1, Len(s) - c)
<1>1. Len(s) \in Nat
  BY LenProperties
<1>2. CASE d = Len(s)
  <2>1. /\ d + 1 \in Int /\ Len(s) \in Int /\ Len(s) < d + 1
        /\ d - c + 1 \in Int /\ Len(s) - c \in Int /\ Len(s) - c < d - c + 1
    BY <1>1, <1>2
  <2>2. SubSeq(s, d + 1, Len(s)) = << >>
    BY <2>1, SubSeqEmpty
  <2>3. SubSeq(SubSeq(s, c + 1, Len(s)), d - c + 1, Len(s) - c) = << >>
    BY <2>1, SubSeqEmpty
  <2>4. QED
    BY <2>2, <2>3
<1>3. CASE d < Len(s)
  <2>1. /\ c + 1 \in 1 .. Len(s) /\ Len(s) \in 1 .. Len(s)
        /\ d - c + 1 \in 1 .. Len(s) - (c + 1) + 1 /\ Len(s) - c \in 1 .. Len(s) - (c + 1) + 1
        /\ c + 1 + (d - c + 1) - 1 = d + 1 /\ c + 1 + (Len(s) - c) - 1 = Len(s)
    BY <1>1, <1>3
  <2>2. SubSeq(SubSeq(s, c + 1, Len(s)), d - c + 1, Len(s) - c)
            = SubSeq(s, c + 1 + (d - c + 1) - 1, c + 1 + (Len(s) - c) - 1)
    BY <2>1, SubSeqOfSubSeq
  <2>3. QED
    BY <2>1, <2>2
<1>4. QED
  BY <1>1, <1>2, <1>3

(* A sequence that repeats what comes behind a position is the beginning   *)
(* of that end.                                                            *)
LEMMA PrefixOfSuffix ==
    ASSUME NEW S, NEW T, NEW s \in Seq(S), NEW c \in Nat, S \subseteq T,
           NEW w \in Seq(T), c + Len(w) <= Len(s), \A i \in 1 .. Len(w) : w[i] = s[c + i]
    PROVE  w = SubSeq(SubSeq(s, c + 1, Len(s)), 1, Len(w))
<1> DEFINE u == SubSeq(s, c + 1, Len(s))
           b == SubSeq(u, 1, Len(w))
           n == Len(w)
<1>0. n \in Nat /\ Len(s) \in Nat /\ c <= Len(s)
  BY LenProperties
<1>1. u \in Seq(S) /\ Len(u) = Len(s) - c /\ \A i \in 1 .. Len(s) - c : u[i] = s[c + i]
  BY <1>0, Suffix
<1> HIDE DEF u
<1>2. \A i \in 1 .. n : u[i] \in S
  BY <1>0, <1>1, ElementOfSeq
<1>3. b \in Seq(S) /\ Len(b) = n /\ \A i \in 1 .. n : b[i] = u[i]
  BY <1>0, <1>1, <1>2, SubSeqProperties
<1>4. b \in Seq(T)
  BY <1>3, SeqMonotonic
<1>5. \A i \in 1 .. n : w[i] = b[i]
  BY <1>0, <1>1, <1>3
<1>6. Len(w) = n
  OBVIOUS
<1> HIDE DEF b, n
<1>7. w = b
  BY <1>0, <1>3, <1>4, <1>5, <1>6, SameSeq
<1>8. QED
  BY <1>7 DEF b, u

-----------------------------------------------------------------------------
(* Steps that move no frame *)

(* The daemon's connection loop moves on, or the gateway drops a listener. *)
QuietStep ==
    /\ UNCHANGED <<gwSession, issued, channel, log, wire, token, lastEventId, resets>>
    /\ listener' \in {listener, 0}
    /\ \/ stream' = stream
       \/ stream = "open" /\ stream' = "ended" /\ listener' = 0
    /\ dpc' \in States
    /\ dpc' = "off" <=> dpc = "off"
    /\ dpc' \in {"connect", "backoff"} => stream = "none"

LEMMA QuietKeeps ==
    ASSUME LinkInv, QuietStep
    PROVE  LinkInv' /\ UNCHANGED <<gwSession, token, Unread, resets>>
<1>1. Cursor' = Cursor /\ Live' = Live /\ Reset0' = Reset0
  BY DEF QuietStep, Cursor, Live, Reset0
<1>2. LinkTypes'
  BY DEF LinkInv, LinkTypes, QuietStep
<1>3. SessionsIssued'
  BY DEF LinkInv, LinkTypes, SessionsIssued, QuietStep
<1>4. ChannelNumbered'
  BY DEF LinkInv, ChannelNumbered, QuietStep
<1>5. DaemonConnected'
  BY DEF LinkInv, LinkTypes, DaemonConnected, QuietStep
<1>6. WireFollows'
  BY <1>1 DEF LinkInv, WireFollows, QuietStep
<1>7. Unread' = Unread
  BY <1>1 DEF Unread, QuietStep, Reset0
<1>8. QED
  BY <1>2, <1>3, <1>4, <1>5, <1>6, <1>7 DEF LinkInv, QuietStep

(* Which steps these are.                                                  *)
LEMMA QuietSteps ==
    ASSUME LinkInv,
           \/ RequestWake \/ UpdateExpires \/ HeartbeatLost \/ ConnectRefused
           \/ Heartbeat /\ listener # gwSession
           \/ \E busy \in BOOLEAN : Relogin(busy) /\ ResumeAccepted
           \/ \E busy \in BOOLEAN, outcome \in {"answered", "lost"} :
                 StartDaemon(busy, outcome) /\ ~KeyAccepted(busy)
           \/ \E busy \in BOOLEAN : ReloginRefused(busy) /\ lastEventId' = lastEventId
    PROVE  QuietStep
<1> USE DEF LinkInv, LinkTypes, DaemonConnected, QuietStep, gatewayVars, wireVars, daemonVars,
            States, Looping, Stopping
<1>1. CASE RequestWake \/ UpdateExpires
  BY <1>1 DEF RequestWake, UpdateExpires
<1>2. CASE HeartbeatLost
  BY <1>2 DEF HeartbeatLost, Stop
<1>3. CASE ConnectRefused
  <2>1. stream = "none" /\ wire = << >> /\ dpc = "connect"
    BY <1>3 DEF ConnectRefused
  <2>2. QED
    BY <1>3, <2>1 DEF ConnectRefused, Fail, Stop
<1>4. CASE Heartbeat /\ listener # gwSession
  BY <1>4 DEF Heartbeat, EndedStream
<1>5. ASSUME NEW busy \in BOOLEAN, Relogin(busy), ResumeAccepted
      PROVE  QuietStep
  BY <1>5 DEF Relogin, ResumeSession
<1>6. ASSUME NEW busy \in BOOLEAN, NEW outcome \in {"answered", "lost"},
             StartDaemon(busy, outcome), ~KeyAccepted(busy)
      PROVE  QuietStep
  BY <1>6 DEF StartDaemon
<1>7. ASSUME NEW busy \in BOOLEAN, ReloginRefused(busy), lastEventId' = lastEventId
      PROVE  QuietStep
  BY <1>7 DEF ReloginRefused, Stop
<1>8. QED
  BY <1>1, <1>2, <1>3, <1>4, <1>5, <1>6, <1>7

-----------------------------------------------------------------------------
(* What is unread *)

OnWire == IF Reset0 THEN << >> ELSE wire

(* What is unread is a sequence of frames; nothing is, if nothing is on    *)
(* the wire to a daemon that does not follow the channel.                  *)
LEMMA UnreadFrames ==
    ASSUME LinkInv
    PROVE  /\ Unread = IF Live THEN SubSeq(log, Cursor + 1, Len(log)) ELSE OnWire
           /\ Cursor \in Nat /\ Len(log) \in Nat /\ Len(wire) \in Nat
           /\ Live => /\ Unread \in Seq(EventFrames) /\ Len(Unread) = Len(log) - Cursor
                      /\ \A i \in 1 .. Len(log) - Cursor : Unread[i] = log[Cursor + i]
           /\ OnWire \in Seq(WireFrames)
           /\ wire = << >> => OnWire = << >>
<1>1. Unread = IF Live THEN SubSeq(log, Cursor + 1, Len(log)) ELSE OnWire
  BY DEF Unread, OnWire, Reset0
<1>2. Cursor \in Nat /\ Len(log) \in Nat /\ Len(wire) \in Nat
  BY DEF LinkInv, LinkTypes, Cursor
<1>3. ASSUME Live
      PROVE  /\ Unread \in Seq(EventFrames) /\ Len(Unread) = Len(log) - Cursor
             /\ \A i \in 1 .. Len(log) - Cursor : Unread[i] = log[Cursor + i]
  <2>1. log \in Seq(EventFrames) /\ Cursor <= Len(log)
    BY <1>3 DEF LinkInv, LinkTypes, WireFollows
  <2>2. QED
    BY <1>1, <1>2, <1>3, <2>1, Suffix
<1>4. OnWire \in Seq(WireFrames) /\ (wire = << >> => OnWire = << >>)
  BY DEF OnWire, LinkInv, LinkTypes, Reset0
<1>5. QED
  BY <1>1, <1>2, <1>3, <1>4

(* A sequence is a beginning of itself, and so is the empty one.           *)
LEMMA Beginnings ==
    ASSUME NEW S, NEW s \in Seq(S)
    PROVE  /\ \E n \in 0 .. Len(s) : s = SubSeq(s, 1, n)
           /\ \E n \in 0 .. Len(s) : << >> = SubSeq(s, 1, n)
<1>1. Len(s) \in Nat
  BY LenProperties
<1>2. s = SubSeq(s, 1, Len(s))
  BY SubSeqFull
<1>3. << >> = SubSeq(s, 1, 0)
  BY SubSeqEmpty
<1>4. 0 \in 0 .. Len(s) /\ Len(s) \in 0 .. Len(s)
  BY <1>1
<1>5. QED
  BY <1>2, <1>3, <1>4, Zenon

-----------------------------------------------------------------------------
(* The connection ends *)

(* The connection breaks: a daemon that follows the channel misses nothing.*)
LEMMA StreamEndsSound ==
    ASSUME LinkInv, StreamEnds
    PROVE  LinkInv' /\ (Delivery!Lose \/ UNCHANGED <<gwSession, token, Unread, resets>>)
<1> DEFINE Rest == UNCHANGED <<gwSession, issued, channel, log, token, lastEventId, resets>>
<1>1. /\ Rest /\ wire' = << >> /\ stream' = "none" /\ listener' \in {listener, 0}
      /\ dpc = "reading" /\ dpc' \in {"gateway_unreachable", "backoff"}
  BY DEF StreamEnds, Fail
<1>2. Cursor' = Cursor /\ Live' = Live /\ ~Reset0' /\ OnWire' = << >>
  BY <1>1 DEF Cursor, Live, Reset0, OnWire
<1>3. LinkTypes'
  BY <1>1, EmptySeq DEF LinkInv, LinkTypes, States, Looping, Stopping
<1>4. SessionsIssued' /\ ChannelNumbered'
  BY <1>1 DEF LinkInv, LinkTypes, SessionsIssued, ChannelNumbered
<1>5. DaemonConnected'
  BY <1>1 DEF LinkInv, LinkTypes, DaemonConnected
<1>6. WireFollows'
  <2>1. Len(wire') = 0 /\ Cursor \in Nat
    BY <1>1, UnreadFrames
  <2>2. QED
    BY <1>1, <1>2, <2>1, UnreadFrames DEF LinkInv, WireFollows
<1>7. LinkInv'
  BY <1>3, <1>4, <1>5, <1>6 DEF LinkInv
<1>8. CASE Live
  BY <1>1, <1>2, <1>7, <1>8 DEF Unread
<1>9. CASE ~Live /\ gwSession = token
  <2>1. wire = << >>
    BY <1>1, <1>9 DEF LinkInv, DaemonConnected, Live
  <2>2. Unread = << >> /\ Unread' = << >>
    BY <1>1, <1>2, <1>9, <2>1 DEF Unread
  <2>3. QED
    BY <1>1, <1>7, <2>2
<1>10. CASE ~Live /\ gwSession # token
  <2>1. Unread = OnWire /\ Unread' = << >>
    BY <1>1, <1>2, <1>10 DEF Unread, OnWire, Reset0
  <2>2. \E n \in 0 .. Len(Unread) : Unread' = SubSeq(Unread, 1, n)
    BY <2>1, UnreadFrames, Beginnings
  <2>3. QED
    BY <1>1, <1>7, <1>10, <2>2 DEF Delivery!Lose, Delivery!Shortened
<1>11. QED
  BY <1>8, <1>9, <1>10

(* The daemon process is gone.                                             *)
LEMMA ExitSound ==
    ASSUME LinkInv, Exit
    PROVE  LinkInv' /\ Delivery!LeaveSession
<1>1. /\ UNCHANGED <<gwSession, issued, channel, log, resets>> /\ token' = 0
      /\ lastEventId' = None /\ wire' = << >> /\ stream' = "none" /\ dpc' = "off"
      /\ listener' \in {listener, 0}
  BY DEF Exit, ExitDaemon
<1>2. ~Live' /\ ~Reset0'
  BY <1>1 DEF Live, Reset0
<1>3. LinkTypes'
  BY <1>1, EmptySeq DEF LinkInv, LinkTypes, States
<1>4. SessionsIssued'
  BY <1>1 DEF LinkInv, LinkTypes, SessionsIssued
<1>4a. ChannelNumbered'
  BY <1>1 DEF LinkInv, ChannelNumbered
<1>5. DaemonConnected'
  BY <1>1 DEF LinkInv, LinkTypes, DaemonConnected
<1>6. WireFollows'
  BY <1>1, <1>2 DEF WireFollows
<1>7. Unread' = << >>
  BY <1>1, <1>2 DEF Unread
<1>8. QED
  BY <1>1, <1>3, <1>4, <1>4a, <1>5, <1>6, <1>7 DEF LinkInv, Delivery!LeaveSession

(* What is on the wire is the beginning of what is unread.                 *)
LEMMA WireIsUnread ==
    ASSUME LinkInv
    PROVE  \E n \in 0 .. Len(Unread) : OnWire = SubSeq(Unread, 1, n)
<1>1. CASE ~Live
  BY <1>1, UnreadFrames, Beginnings
<1>2. CASE Live /\ Reset0
  BY <1>2, UnreadFrames, Beginnings DEF OnWire
<1>3. CASE Live /\ ~Reset0
  <2>1. /\ Unread = SubSeq(log, Cursor + 1, Len(log)) /\ Len(Unread) = Len(log) - Cursor
        /\ Cursor \in Nat /\ Len(log) \in Nat /\ Len(wire) \in Nat
    BY <1>3, UnreadFrames
  <2>2. /\ log \in Seq(EventFrames) /\ wire \in Seq(WireFrames) /\ EventFrames \subseteq WireFrames
        /\ Cursor + Len(wire) <= Len(log) /\ \A i \in 1 .. Len(wire) : wire[i] = log[Cursor + i]
    BY <1>3 DEF LinkInv, LinkTypes, WireFollows, EventFrames, WireFrames, AnyType
  <2>3. wire = SubSeq(SubSeq(log, Cursor + 1, Len(log)), 1, Len(wire))
    BY <2>1, <2>2, PrefixOfSuffix
  <2>4. OnWire = SubSeq(Unread, 1, Len(wire)) /\ Len(wire) \in 0 .. Len(Unread)
    BY <1>3, <2>1, <2>2, <2>3 DEF OnWire
  <2>5. QED
    BY <2>4, Zenon
<1>4. QED
  BY <1>1, <1>2, <1>3

(* The session is revoked; what is on the wire may still be read.          *)
LEMMA RevokeSound ==
    ASSUME LinkInv, Revoke
    PROVE  LinkInv' /\ Delivery!EndSession
<1>1. /\ UNCHANGED <<issued, channel, log, listener, wire, stream, dpc, token, lastEventId, resets>>
      /\ gwSession # 0 /\ gwSession' = 0
  BY DEF Revoke, RevokeSession, wireVars, daemonVars
<1>2. ~Live' /\ Cursor' = Cursor /\ Reset0' = Reset0 /\ OnWire' = OnWire
  BY <1>1 DEF Live, Cursor, Reset0, OnWire
<1>3. LinkTypes' /\ SessionsIssued'
  BY <1>1 DEF LinkInv, LinkTypes, SessionsIssued
<1>3a. ChannelNumbered'
  BY <1>1 DEF LinkInv, ChannelNumbered
<1>3b. DaemonConnected'
  BY <1>1 DEF LinkInv, LinkTypes, DaemonConnected
<1>4. WireFollows'
  BY <1>1, <1>2 DEF LinkInv, WireFollows
<1>5. Unread' = OnWire
  BY <1>1, <1>2 DEF Unread, OnWire, Reset0
<1>6. QED
  BY <1>1, <1>3, <1>3a, <1>3b, <1>4, <1>5, WireIsUnread
     DEF LinkInv, Delivery!EndSession, Delivery!Shortened

(* The beginning of a beginning.                                           *)
LEMMA ShorterStill ==
    ASSUME NEW S, NEW s \in Seq(S), NEW n \in 0 .. Len(s),
           NEW m \in 0 .. Len(SubSeq(s, 1, n))
    PROVE  \E k \in 0 .. Len(s) : SubSeq(SubSeq(s, 1, n), 1, m) = SubSeq(s, 1, k)
<1>1. Len(s) \in Nat
  BY LenProperties
<1>2. Len(SubSeq(s, 1, n)) = n
  <2>1. \A i \in 1 .. n : s[i] \in S
    BY <1>1, ElementOfSeq
  <2>2. QED
    BY <1>1, <2>1, SubSeqProperties
<1>3. CASE m = 0
  <2>1. SubSeq(SubSeq(s, 1, n), 1, m) = << >> /\ SubSeq(s, 1, 0) = << >>
    BY <1>3, SubSeqEmpty
  <2>2. 0 \in 0 .. Len(s)
    BY <1>1
  <2>3. QED
    BY <2>1, <2>2, Zenon
<1>4. CASE m # 0
  <2>1. /\ 1 \in 1 .. Len(s) /\ n \in 1 .. Len(s) /\ 1 \in 1 .. n - 1 + 1 /\ m \in 1 .. n - 1 + 1
        /\ 1 + 1 - 1 = 1 /\ 1 + m - 1 = m /\ m \in 0 .. Len(s)
    BY <1>1, <1>2, <1>4
  <2>2. SubSeq(SubSeq(s, 1, n), 1, m) = SubSeq(s, 1 + 1 - 1, 1 + m - 1)
    BY <2>1, SubSeqOfSubSeq
  <2>3. SubSeq(SubSeq(s, 1, n), 1, m) = SubSeq(s, 1, m)
    BY <2>1, <2>2
  <2>4. QED
    BY <2>1, <2>3, Zenon
<1>5. QED
  BY <1>3, <1>4

(* The gateway restarts.                                                   *)
LEMMA RestartSound ==
    ASSUME LinkInv, Restart
    PROVE  LinkInv' /\ \/ Delivery!EndSession \/ Delivery!Lose
                       \/ UNCHANGED <<gwSession, token, Unread, resets>>
<1>1. /\ UNCHANGED <<issued, dpc, token, lastEventId, resets>>
      /\ gwSession' = 0 /\ channel' = EventHub(0) /\ log' = << >> /\ listener' = 0
      /\ stream' = IF stream = "none" THEN "none" ELSE "ended"
  BY DEF Restart, RestartGateway, daemonVars
<1>2. PICK n \in 0 .. Len(wire) : wire' = SubSeq(wire, 1, n)
  BY DEF Restart, RestartGateway
<1>3. /\ wire \in Seq(WireFrames) /\ wire' \in Seq(WireFrames) /\ Len(wire') = n /\ n \in Nat
      /\ \A i \in 1 .. n : wire'[i] = wire[i]
  <2>1. wire \in Seq(WireFrames) /\ Len(wire) \in Nat
    BY DEF LinkInv, LinkTypes
  <2>2. \A i \in 1 .. n : wire[i] \in WireFrames
    BY <2>1, ElementOfSeq
  <2>3. QED
    BY <1>2, <2>1, <2>2, SubSeqProperties
<1>4. ~Live'
  BY <1>1 DEF Live
<1>5. OnWire' = IF Reset0 THEN << >> ELSE wire'
  <2>1. CASE n = 0
    <3>1. wire' = << >>
      BY <1>2, <2>1, SubSeqEmpty
    <3>2. QED
      BY <3>1 DEF OnWire
  <2>2. CASE n # 0
    <3>1. wire # << >> /\ wire' # << >> /\ Head(wire') = Head(wire)
      BY <1>3, <2>2
    <3>2. QED
      BY <3>1 DEF OnWire, Reset0
  <2>3. QED
    BY <2>1, <2>2
<1>6. LinkTypes'
  BY <1>1, <1>3, EmptySeq DEF LinkInv, LinkTypes, Hubs, EventHub
<1>7. SessionsIssued'
  BY <1>1 DEF LinkInv, LinkTypes, SessionsIssued, EventHub
<1>8. ChannelNumbered'
  BY <1>1, LinkAssumption DEF ChannelNumbered, Numbered, EventHub
<1>9. DaemonConnected'
  <2>1. stream = "none" => wire' = << >>
    <3>1. ASSUME stream = "none"
          PROVE  wire' = << >>
      <4>1. n = 0
        BY <3>1 DEF LinkInv, DaemonConnected
      <4>2. QED
        BY <1>2, <4>1, SubSeqEmpty
    <3>2. QED
      BY <3>1
  <2>2. QED
    BY <1>1, <2>1 DEF LinkInv, LinkTypes, DaemonConnected
<1>10. WireFollows'
  <2>1. \A i \in 2 .. Len(wire') : wire'[i].type \in EventTypes
    BY <1>3 DEF LinkInv, WireFollows
  <2>2. QED
    BY <1>4, <2>1 DEF WireFollows
<1>11. LinkInv'
  BY <1>6, <1>7, <1>8, <1>9, <1>10 DEF LinkInv
<1>12. Unread' = OnWire'
  BY <1>4 DEF Unread, OnWire, Reset0
<1>13. Unread \in Seq(WireFrames)
  <2>1. EventFrames \subseteq WireFrames
    BY DEF EventFrames, WireFrames, AnyType
  <2>2. QED
    BY <2>1, UnreadFrames, SeqMonotonic
<1>14. \E k \in 0 .. Len(Unread) : Unread' = SubSeq(Unread, 1, k)
  <2>1. CASE Reset0
    BY <1>5, <1>12, <1>13, <2>1, Beginnings
  <2>2. CASE ~Reset0
    <3>1. PICK m \in 0 .. Len(Unread) : wire = SubSeq(Unread, 1, m)
      BY <2>2, WireIsUnread DEF OnWire
    <3>2. n \in 0 .. Len(SubSeq(Unread, 1, m)) /\ Unread' = SubSeq(SubSeq(Unread, 1, m), 1, n)
      BY <1>2, <1>5, <1>12, <2>2, <3>1
    <3>3. \E k \in 0 .. Len(Unread) : SubSeq(SubSeq(Unread, 1, m), 1, n) = SubSeq(Unread, 1, k)
      BY <1>13, <3>2, ShorterStill
    <3>4. QED
      BY <3>2, <3>3
  <2>3. QED
    BY <2>1, <2>2
<1>15. CASE gwSession # 0
  BY <1>1, <1>11, <1>14, <1>15 DEF Delivery!EndSession, Delivery!Shortened
<1>16. CASE gwSession = 0 /\ token # 0
  BY <1>1, <1>11, <1>14, <1>16 DEF Delivery!Lose, Delivery!Shortened
<1>17. CASE gwSession = 0 /\ token = 0
  <2>1. wire = << >> /\ n = 0
    BY <1>17 DEF LinkInv, DaemonConnected
  <2>2. wire' = << >>
    BY <1>2, <2>1, SubSeqEmpty
  <2>3. Unread = << >> /\ Unread' = << >>
    BY <1>4, <1>17, <2>1, <2>2 DEF Unread, Live
  <2>4. QED
    BY <1>1, <1>11, <1>17, <2>3
<1>18. QED
  BY <1>15, <1>16, <1>17

-----------------------------------------------------------------------------
(* Logins *)

(* A login issues a session; its answer may be lost.                       *)
LEMMA LoginSound ==
    ASSUME LinkInv,
           \/ \E busy \in BOOLEAN, outcome \in {"answered", "lost"} :
                 StartDaemon(busy, outcome) /\ KeyAccepted(busy)
           \/ \E busy \in BOOLEAN : Relogin(busy) /\ ~ResumeAccepted
    PROVE  /\ LinkInv'
           /\ \E new \in 1 .. MaxSessions, answered \in BOOLEAN : Delivery!Login(new, answered)
<1> DEFINE Answered == token' = issued + 1 /\ lastEventId' = None /\ dpc' = "connect"
           Lost     == /\ token' = token /\ lastEventId' \in {None, lastEventId}
                       /\ dpc' \in {"off", "connect"} /\ (dpc' = "off" <=> dpc = "off")
<1>1. /\ UNCHANGED <<channel, log, listener, stream, wire, resets>>
      /\ issued' = issued + 1 /\ gwSession' = issued + 1 /\ issued < MaxSessions
      /\ dpc \in {"off", "backoff"} /\ (token = 0 \/ token # gwSession)
      /\ Answered \/ Lost
  <2>1. ASSUME NEW busy \in BOOLEAN, NEW outcome \in {"answered", "lost"},
               StartDaemon(busy, outcome), KeyAccepted(busy)
        PROVE  <1>1!:
    <3>1. token = 0 /\ dpc = "off"
      BY <2>1 DEF StartDaemon, LinkInv, DaemonConnected
    <3>2. issued < MaxSessions
      BY <2>1 DEF KeyAccepted
    <3>3. IssueSession /\ UNCHANGED wireVars /\ UNCHANGED resets /\ (Answered \/ Lost)
      BY <2>1, <3>1 DEF StartDaemon, daemonVars
    <3>4. QED
      BY <3>1, <3>2, <3>3 DEF IssueSession, wireVars
  <2>2. ASSUME NEW busy \in BOOLEAN, Relogin(busy), ~ResumeAccepted
        PROVE  <1>1!:
    <3>1. KeyAccepted(busy) /\ IssueSession /\ dpc = "backoff"
      BY <2>2 DEF Relogin
    <3>2. issued < MaxSessions
      BY <3>1 DEF KeyAccepted
    <3>3. UNCHANGED wireVars /\ UNCHANGED resets /\ (Answered \/ Lost)
      BY <2>2 DEF Relogin
    <3>4. token = 0 \/ token # gwSession
      BY <2>2 DEF ResumeAccepted
    <3>5. QED
      BY <3>1, <3>2, <3>3, <3>4 DEF IssueSession, wireVars
  <2>3. QED
    BY <2>1, <2>2
<1>2. wire = << >> /\ stream = "none"
  BY <1>1 DEF LinkInv, DaemonConnected
<1>3. /\ gwSession \in Nat /\ issued \in Nat /\ token \in Nat /\ channel.session \in Nat
      /\ gwSession <= issued /\ token <= issued /\ channel.session <= issued
  BY DEF LinkInv, LinkTypes, SessionsIssued, Hubs
<1>4. ~Live /\ ~Live' /\ ~Reset0 /\ ~Reset0'
  BY <1>1, <1>2, <1>3 DEF Live, Reset0
<1>5. Unread = << >> /\ Unread' = << >>
  BY <1>1, <1>2, <1>4 DEF Unread
<1>6. LinkTypes'
  BY <1>1, <1>3 DEF LinkInv, LinkTypes, States, Looping
<1>7. SessionsIssued'
  BY <1>1, <1>3, LinkAssumption DEF LinkInv, LinkTypes, SessionsIssued
<1>8. ChannelNumbered'
  BY <1>1 DEF LinkInv, ChannelNumbered
<1>9. DaemonConnected'
  <2>1. dpc' = "off" <=> token' = 0
    BY <1>1, <1>3 DEF LinkInv, DaemonConnected
  <2>2. token' = 0 => lastEventId' = None
    BY <1>1, <1>3 DEF LinkInv, DaemonConnected
  <2>3. token' = gwSession' => lastEventId' = None
    BY <1>1, <1>3
  <2>4. QED
    BY <1>1, <1>2, <2>1, <2>2, <2>3 DEF DaemonConnected
<1>10. WireFollows'
  BY <1>1, <1>4 DEF LinkInv, WireFollows
<1>11. LinkInv'
  BY <1>6, <1>7, <1>8, <1>9, <1>10 DEF LinkInv
<1>12. issued + 1 \in 1 .. MaxSessions /\ issued + 1 \notin {gwSession, token}
  BY <1>1, <1>3, LinkAssumption
<1>13. CASE Answered
  <2>1. Delivery!Login(issued + 1, TRUE)
    BY <1>1, <1>5, <1>12, <1>13 DEF Delivery!Login
  <2>2. QED
    BY <1>11, <1>12, <2>1
<1>14. CASE Lost
  <2>1. Delivery!Login(issued + 1, FALSE)
    BY <1>1, <1>5, <1>12, <1>14 DEF Delivery!Login
  <2>2. QED
    BY <1>11, <1>12, <2>1
<1>15. QED
  BY <1>1, <1>13, <1>14

(* A daemon that is refused under an update forgets its cursor.            *)
LEMMA ForgetSound ==
    ASSUME LinkInv, NEW busy \in BOOLEAN, ReloginRefused(busy), lastEventId' # lastEventId
    PROVE  LinkInv' /\ UNCHANGED <<gwSession, token, Unread, resets>>
<1>1. /\ UNCHANGED <<gwSession, issued, channel, log, listener, stream, wire, token, resets>>
      /\ lastEventId' = None /\ dpc = "backoff" /\ dpc' = "connect"
      /\ token = 0 \/ token # gwSession
  BY DEF ReloginRefused, gatewayVars, wireVars, ResumeAccepted
<1>2. ~Live /\ ~Live' /\ Reset0' = Reset0
  BY <1>1 DEF Live, Reset0
<1>3. Unread' = Unread
  BY <1>1, <1>2 DEF Unread
<1>4. LinkTypes' /\ SessionsIssued'
  BY <1>1 DEF LinkInv, LinkTypes, SessionsIssued, States, Looping
<1>5. ChannelNumbered'
  BY <1>1 DEF LinkInv, ChannelNumbered
<1>6. DaemonConnected'
  BY <1>1 DEF LinkInv, DaemonConnected
<1>7. WireFollows'
  BY <1>1, <1>2 DEF LinkInv, WireFollows
<1>8. QED
  BY <1>1, <1>3, <1>4, <1>5, <1>6, <1>7 DEF LinkInv

-----------------------------------------------------------------------------
(* The daemon reads *)

(* The frame at the head of the stream is handled.                         *)
LEMMA ReadSound ==
    ASSUME LinkInv, ReadFrame
    PROVE  LinkInv' /\ (Delivery!Deliver \/ Delivery!Reset)
<1>1. /\ UNCHANGED <<gwSession, issued, channel, log, listener, token>>
      /\ dpc = "reading" /\ wire # << >> /\ lastEventId' = Head(wire).seq
  BY DEF ReadFrame
<1>2. /\ wire \in Seq(WireFrames) /\ Len(wire) \in Nat \ {0} /\ Head(wire) \in WireFrames
      /\ Head(wire) = wire[1] /\ token # 0 /\ Head(wire).seq \in Nat
  <2>1. wire \in Seq(WireFrames) /\ token # 0
    BY <1>1 DEF LinkInv, LinkTypes, DaemonConnected
  <2>2. Len(wire) \in Nat \ {0} /\ Head(wire) \in WireFrames /\ Head(wire) = wire[1]
    BY <1>1, <2>1, EmptySeq, HeadTailProperties
  <2>3. Head(wire).seq \in Nat
    BY <2>2 DEF WireFrames
  <2>4. QED
    BY <2>1, <2>2, <2>3
<1>3. Live' = Live /\ Cursor' = Head(wire).seq
  BY <1>1, <1>2, LinkAssumption DEF Live, Cursor
<1>4. SessionsIssued' /\ ChannelNumbered'
  <2>1. SessionsIssued'
    BY <1>1 DEF LinkInv, SessionsIssued
  <2>2. ChannelNumbered'
    BY <1>1 DEF LinkInv, ChannelNumbered
  <2>3. QED
    BY <2>1, <2>2
<1>5. log \in Seq(EventFrames) /\ Len(log) \in Nat /\ Cursor \in Nat
  BY UnreadFrames DEF LinkInv, LinkTypes
<1>6. ~(token = gwSession /\ channel.session # token)
  BY <1>1, <1>2 DEF LinkInv, DaemonConnected
<1>7. CASE Reset0
  <2> DEFINE d == Head(wire).seq
  <2>1. /\ wire' = << >> /\ stream' = "none" /\ resets' = resets + 1
        /\ dpc' \in {"gateway_unreachable", "backoff"}
    BY <1>7 DEF ReadFrame, Reset0
  <2>2. ~Reset0' /\ Len(wire') = 0
    BY <2>1 DEF Reset0
  <2>3. Live => Cursor <= d /\ d <= Len(log)
    BY <1>7 DEF LinkInv, WireFollows
  <2>4. LinkTypes'
    BY <1>1, <1>2, <2>1, EmptySeq DEF LinkInv, LinkTypes, States, Looping, Stopping
  <2>5. DaemonConnected'
    BY <1>1, <1>2, <1>6, <2>1 DEF LinkInv, DaemonConnected
  <2>6. WireFollows'
    BY <1>1, <1>2, <1>3, <1>5, <2>1, <2>2, <2>3 DEF WireFollows
  <2>7. \E n \in 0 .. Len(Unread) : Unread' = SubSeq(Unread, n + 1, Len(Unread))
    <3>1. CASE Live
      <4>1. /\ Unread = SubSeq(log, Cursor + 1, Len(log)) /\ Len(Unread) = Len(log) - Cursor
            /\ Unread' = SubSeq(log, d + 1, Len(log))
        BY <1>1, <1>3, <3>1, UnreadFrames DEF Unread
      <4>2. SubSeq(log, d + 1, Len(log))
                = SubSeq(SubSeq(log, Cursor + 1, Len(log)), d - Cursor + 1, Len(log) - Cursor)
        BY <1>2, <1>5, <2>3, <3>1, SuffixOfSuffix
      <4>3. d - Cursor \in 0 .. Len(Unread)
        BY <1>2, <1>5, <2>3, <3>1, <4>1
      <4>4. Unread' = SubSeq(Unread, d - Cursor + 1, Len(Unread))
        BY <4>1, <4>2
      <4>5. QED
        BY <4>3, <4>4, Zenon
    <3>2. CASE ~Live
      <4>1. Unread = << >> /\ Unread' = << >>
        BY <1>3, <1>7, <2>1, <2>2, <3>2, UnreadFrames DEF Unread, OnWire
      <4>2. 0 \in 0 .. Len(Unread) /\ SubSeq(Unread, 0 + 1, Len(Unread)) = << >>
        BY <4>1, SubSeqEmpty
      <4>3. QED
        BY <4>1, <4>2, Zenon
    <3>3. QED
      BY <3>1, <3>2
  <2>8. Delivery!Reset
    BY <1>1, <1>2, <2>1, <2>7 DEF Delivery!Reset
  <2>9. QED
    BY <1>4, <2>4, <2>5, <2>6, <2>8 DEF LinkInv
<1>8. CASE ~Reset0
  <2>1. wire' = Tail(wire) /\ UNCHANGED <<dpc, stream, resets>>
    BY <1>1, <1>8 DEF ReadFrame, Reset0
  <2>2. /\ wire' \in Seq(WireFrames) /\ Len(wire') = Len(wire) - 1
        /\ \A i \in 1 .. Len(wire) - 1 : wire'[i] = wire[i + 1]
    BY <1>1, <1>2, <2>1, HeadTailProperties
  <2>3. \A i \in 1 .. Len(wire') : wire'[i].type \in EventTypes
    BY <1>2, <2>2 DEF LinkInv, WireFollows
  <2>4. ~Reset0'
    BY <2>2, <2>3, HeadTailProperties DEF Reset0, EventTypes
  <2>5. ASSUME Live
        PROVE  /\ Cursor + Len(wire) <= Len(log) /\ Head(wire) = log[Cursor + 1]
               /\ \A i \in 1 .. Len(wire) : wire[i] = log[Cursor + i]
               /\ listener # 0 /\ stream = "open" => Cursor + Len(wire) = Len(log)
               /\ Head(wire).seq = Cursor + 1
    <3>1. /\ Cursor + Len(wire) <= Len(log) /\ Head(wire) = log[Cursor + 1]
          /\ \A i \in 1 .. Len(wire) : wire[i] = log[Cursor + i]
          /\ listener # 0 /\ stream = "open" => Cursor + Len(wire) = Len(log)
      BY <1>2, <1>8, <2>5 DEF LinkInv, WireFollows
    <3>2. Cursor + 1 \in 1 .. Len(log)
      BY <1>2, <1>5, <3>1
    <3>3. QED
      BY <3>1, <3>2 DEF LinkInv, ChannelNumbered, Numbered
  <2>6. LinkTypes'
    BY <1>1, <1>2, <2>1, <2>2 DEF LinkInv, LinkTypes
  <2>7. DaemonConnected'
    BY <1>1, <1>2, <1>6, <2>1 DEF LinkInv, DaemonConnected
  <2>8. WireFollows'
    <3>1. \A i \in 2 .. Len(wire') : wire'[i].type \in EventTypes
      BY <1>2, <2>2, <2>3
    <3>2. ASSUME Live
          PROVE  /\ Cursor' <= Len(log') /\ Cursor' + Len(wire') <= Len(log')
                 /\ listener' # 0 /\ stream' = "open" => Cursor' + Len(wire') = Len(log')
      BY <1>1, <1>2, <1>3, <1>5, <2>1, <2>2, <2>5, <3>2
    <3>3. ASSUME Live, NEW i \in 1 .. Len(wire')
          PROVE  wire'[i] = log'[Cursor' + i]
      <4>1. i \in 1 .. Len(wire) - 1 /\ i + 1 \in 1 .. Len(wire)
        BY <1>2, <2>2, <3>3
      <4>1a. Cursor' = Cursor + 1
        BY <1>3, <2>5, <3>3
      <4>1b. Cursor + (i + 1) = Cursor' + i
        BY <1>5, <4>1, <4>1a
      <4>2. QED
        BY <1>1, <2>2, <2>5, <3>3, <4>1, <4>1b
    <3>4. QED
      BY <1>3, <2>4, <3>1, <3>2, <3>3 DEF WireFollows
  <2>9. Unread # << >> /\ Unread' = Tail(Unread)
    <3>1. CASE Live
      <4>1. /\ Unread = SubSeq(log, Cursor + 1, Len(log))
            /\ Unread' = SubSeq(log, Cursor + 1 + 1, Len(log))
        BY <1>1, <1>3, <2>5, <3>1 DEF Unread
      <4>2. Cursor + 1 \in 1 .. Len(log) /\ Len(log) \in Cursor + 1 .. Len(log)
        BY <1>2, <1>5, <2>5, <3>1
      <4>3. Tail(SubSeq(log, Cursor + 1, Len(log))) = SubSeq(log, Cursor + 1 + 1, Len(log))
        BY <1>5, <4>2, HeadTailOfSubSeq
      <4>4. Len(Unread) = Len(log) - Cursor
        BY <3>1, UnreadFrames
      <4>5. Unread # << >>
        BY <1>5, <4>2, <4>4
      <4>6. QED
        BY <4>1, <4>3, <4>5
    <3>2. CASE ~Live
      BY <1>1, <1>3, <1>8, <2>1, <2>4, <3>2 DEF Unread, Reset0
    <3>3. QED
      BY <3>1, <3>2
  <2>10. Delivery!Deliver
    BY <1>1, <1>2, <2>1, <2>9 DEF Delivery!Deliver
  <2>11. QED
    BY <1>4, <2>6, <2>7, <2>8, <2>10 DEF LinkInv
<1>9. QED
  BY <1>7, <1>8

-----------------------------------------------------------------------------
(* The event hub *)

(* A new hub has numbered nothing.                                         *)
LEMMA NewHub ==
    ASSUME NEW n \in Nat
    PROVE  /\ EventHub(n) \in Hubs /\ EventHub(n).session = n /\ EventHub(n).seq = 0
           /\ Numbered(EventHub(n), << >>)
BY EmptySeq DEF EventHub, Hubs, Numbered

(* Publishing numbers one more frame and keeps the end in the buffer.      *)
LEMMA PublishNumbers ==
    ASSUME NEW h \in Hubs, NEW l \in Seq(EventFrames), Numbered(h, l), NEW t \in EventTypes
    PROVE  /\ HubPublish(h, t) \in Hubs
           /\ HubPublish(h, t).session = h.session /\ HubPublish(h, t).seq = h.seq + 1
           /\ Frame(h.seq + 1, t) \in EventFrames
           /\ Append(l, Frame(h.seq + 1, t)) \in Seq(EventFrames)
           /\ Numbered(HubPublish(h, t), Append(l, Frame(h.seq + 1, t)))
<1> DEFINE f == Frame(h.seq + 1, t)
           b == Append(h.buffer, f)
           k == Append(l, f)
           n == Len(l)
           m == Len(h.buffer)
           x == IF Len(b) > BufferSize THEN Tail(b) ELSE b
<1>1. h.buffer \in Seq(EventFrames) /\ h.seq \in Nat /\ n = h.seq /\ m \in Nat /\ m <= n
  BY DEF Hubs, Numbered
<1>2. f \in EventFrames /\ f.seq = n + 1
  BY <1>1 DEF Frame, EventFrames
<1> HIDE DEF f, n, m
<1>3. /\ b \in Seq(EventFrames) /\ Len(b) = m + 1 /\ b # << >> /\ b[m + 1] = f
      /\ \A i \in 1 .. m : b[i] = h.buffer[i]
  BY <1>1, <1>2, AppendProperties DEF m
<1>4. /\ k \in Seq(EventFrames) /\ Len(k) = n + 1 /\ k[n + 1] = f
      /\ \A i \in 1 .. n : k[i] = l[i]
  BY <1>1, <1>2, AppendProperties DEF n
<1> HIDE DEF b, k
<1>5. \A i \in 1 .. m + 1 : b[i] = k[n - m + i]
  <2>1. ASSUME NEW i \in 1 .. m
        PROVE  b[i] = k[n - m + i]
    <3>1. n - m + i \in 1 .. n
      BY <1>1
    <3>2. h.buffer[i] = l[n - m + i]
      BY DEF Numbered, n, m
    <3>3. QED
      BY <1>3, <1>4, <3>1, <3>2
  <2>2. b[m + 1] = k[n - m + (m + 1)]
    <3>1. n - m + (m + 1) = n + 1
      BY <1>1
    <3>2. QED
      BY <1>3, <1>4, <3>1
  <2>3. QED
    BY <1>1, <2>1, <2>2
<1>6. \A i \in 1 .. n + 1 : k[i].seq = i
  <2>1. \A i \in 1 .. n : l[i].seq = i
    BY DEF Numbered, n
  <2>2. k[n + 1].seq = n + 1
    BY <1>2, <1>4
  <2>3. ASSUME NEW i \in 1 .. n + 1, i # n + 1
        PROVE  k[i].seq = i
    <3>1. i \in 1 .. n
      BY <1>1, <2>3
    <3>2. QED
      BY <1>4, <2>1, <3>1
  <2>4. QED
    BY <2>2, <2>3
<1>7. /\ x \in Seq(EventFrames) /\ Len(x) <= n + 1 /\ Len(x) \in Nat
      /\ \A i \in 1 .. Len(x) : x[i] = k[n + 1 - Len(x) + i]
  <2>1. CASE x = b
    <3> HIDE DEF x
    <3>1. x \in Seq(EventFrames) /\ Len(x) = m + 1
      BY <1>3, <2>1
    <3>2. n + 1 - (m + 1) = n - m /\ m + 1 <= n + 1 /\ m + 1 \in Nat
      BY <1>1
    <3>3. \A i \in 1 .. m + 1 : x[i] = k[n - m + i]
      BY <1>5, <2>1
    <3>4. QED
      BY <3>1, <3>2, <3>3
  <2>2. CASE x = Tail(b)
    <3> HIDE DEF x
    <3>1. /\ x \in Seq(EventFrames) /\ Len(x) = m /\ \A i \in 1 .. m : x[i] = b[i + 1]
      <4>1. b \in Seq(EventFrames) /\ b # << >> /\ Len(b) = m + 1
        BY <1>3
      <4>2. /\ Tail(b) \in Seq(EventFrames) /\ Len(Tail(b)) = Len(b) - 1
            /\ \A i \in 1 .. Len(Tail(b)) : Tail(b)[i] = b[i + 1]
        BY <4>1, HeadTailProperties
      <4>3. /\ x \in Seq(EventFrames) /\ Len(x) = Len(b) - 1
            /\ \A i \in 1 .. Len(x) : x[i] = b[i + 1]
        BY <2>2, <4>2, Zenon
      <4>4. Len(x) = m
        BY <1>1, <4>1, <4>3
      <4>5. QED
        BY <4>3, <4>4, Zenon
    <3>2. ASSUME NEW i \in 1 .. m
          PROVE  x[i] = k[n + 1 - m + i]
      <4>1. i + 1 \in 1 .. m + 1 /\ n - m + (i + 1) = n + 1 - m + i
        <5>1. m \in Nat /\ n \in Nat
          BY <1>1
        <5>2. QED
          BY <5>1
      <4>2. b[i + 1] = k[n - m + (i + 1)]
        BY <1>5, <4>1
      <4>3. QED
        BY <3>1, <4>1, <4>2
    <3>3. QED
      BY <1>1, <3>1, <3>2
  <2>3. QED
    <3>1. x = b \/ x = Tail(b)
      OBVIOUS
    <3>2. QED
      BY <2>1, <2>2, <3>1
<1>8. /\ HubPublish(h, t).buffer = x /\ HubPublish(h, t).seq = n + 1
      /\ HubPublish(h, t).session = h.session /\ HubPublish(h, t) \in Hubs
  <2>1. HubPublish(h, t) = [session |-> h.session, seq |-> h.seq + 1, buffer |-> x]
    BY DEF HubPublish, b, f
  <2>2. x \in Seq(EventFrames) /\ h.seq \in Nat /\ n = h.seq
    BY <1>1, <1>7
  <2> HIDE DEF x
  <2>3. h.session \in Nat
    BY DEF Hubs
  <2>4. QED
    BY <2>1, <2>2, <2>3 DEF Hubs
<1>9. Numbered(HubPublish(h, t), k)
  <2> HIDE DEF x
  <2>1. /\ Len(k) = HubPublish(h, t).seq
        /\ Len(HubPublish(h, t).buffer) <= Len(k)
    BY <1>4, <1>7, <1>8
  <2>2. \A i \in 1 .. Len(k) : k[i].seq = i
    BY <1>4, <1>6
  <2>3. \A i \in 1 .. Len(HubPublish(h, t).buffer) :
           HubPublish(h, t).buffer[i] = k[Len(k) - Len(HubPublish(h, t).buffer) + i]
    <3>1. /\ Len(k) = n + 1 /\ HubPublish(h, t).buffer = x
          /\ n \in Nat /\ Len(x) \in Nat
      BY <1>1, <1>4, <1>7, <1>8
    <3>2. ASSUME NEW i \in 1 .. Len(x)
          PROVE  x[i] = k[Len(k) - Len(x) + i]
      <4>1. Len(k) - Len(x) + i = n + 1 - Len(x) + i
        BY <3>1
      <4>2. x[i] = k[n + 1 - Len(x) + i]
        BY <1>7
      <4>3. QED
        BY <4>1, <4>2
    <3>3. QED
      BY <3>1, <3>2
  <2>4. QED
    BY <2>1, <2>2, <2>3 DEF Numbered
<1>10. QED
  BY <1>1, <1>2, <1>4, <1>8, <1>9 DEF f, k, n

(* A subscriber is sent what follows its cursor, or a reset.               *)
LEMMA ReplayFollows ==
    ASSUME NEW h \in Hubs, NEW l \in Seq(EventFrames), Numbered(h, l),
           NEW c \in Nat, c <= Len(l)
    PROVE  /\ Replay(h, c) \in Seq(WireFrames)
           /\ \/ Replay(h, c) = <<Frame(Len(l), "stream.reset")>>
              \/ /\ Replay(h, c) \in Seq(EventFrames) /\ Len(Replay(h, c)) = Len(l) - c
                 /\ \A i \in 1 .. Len(l) - c : Replay(h, c)[i] = l[c + i]
<1> DEFINE n == Len(l)
           b == h.buffer
           m == Len(b)
<1>1. /\ b \in Seq(EventFrames) /\ n = h.seq /\ n \in Nat /\ m \in Nat /\ m <= n
      /\ \A i \in 1 .. m : b[i] = l[n - m + i]
      /\ \A i \in 1 .. n : l[i].seq = i
  BY DEF Hubs, Numbered
<1>2. CASE HasGap(h, c)
  <2>1. Replay(h, c) = <<Frame(n, "stream.reset")>>
    BY <1>1, <1>2 DEF Replay
  <2>2. Frame(n, "stream.reset") \in WireFrames
    BY <1>1 DEF Frame, WireFrames, AnyType
  <2>3. QED
    BY <2>1, <2>2
<1>3. CASE ~HasGap(h, c)
  <2>1. n - c <= m
    <3>1. CASE c = n
      BY <1>1, <3>1
    <3>2. CASE c < n
      <4>1. b # << >> /\ ~(c < b[1].seq - 1)
        BY <1>1, <1>3, <3>2 DEF HasGap
      <4>2. m # 0 /\ 1 \in 1 .. m /\ n - m + 1 \in 1 .. n
        BY <1>1, <4>1
      <4>3. b[1].seq = n - m + 1
        BY <1>1, <4>2
      <4>4. QED
        BY <1>1, <4>1, <4>3
    <3>3. QED
      BY <1>1, <3>1, <3>2
  <2> DEFINE e == m - (n - c)
             r == SubSeq(b, e + 1, m)
  <2>2. e \in Nat /\ e <= m /\ m - e = n - c
    BY <1>1, <2>1
  <2>3. Replay(h, c) = r
    <3>1. m - (h.seq - c) = e
      BY <1>1
    <3>2. CASE e = 0
      <4>1. r = b
        BY <1>1, <3>2, SubSeqFull
      <4>2. Replay(h, c) = b
        BY <1>3, <3>1, <3>2 DEF Replay, ReplaySince
      <4>3. QED
        BY <4>1, <4>2
    <3>3. CASE e # 0
      <4>1. ~(e <= 0)
        <5> HIDE DEF e
        <5>1. QED
          BY <2>2, <3>3
      <4>2. QED
        BY <1>3, <3>1, <4>1 DEF Replay, ReplaySince
    <3>4. QED
      BY <3>2, <3>3
  <2>4. r \in Seq(EventFrames) /\ Len(r) = m - e /\ \A i \in 1 .. m - e : r[i] = b[e + i]
    <3> HIDE DEF e
    <3>1. QED
      BY <1>1, <2>2, Suffix
  <2>5. ASSUME NEW i \in 1 .. n - c
        PROVE  r[i] = l[c + i]
    <3>1. e + i \in 1 .. m /\ n - m + (e + i) = c + i /\ i \in 1 .. m - e
      BY <1>1, <2>1
    <3>2. b[e + i] = l[n - m + (e + i)]
      BY <1>1, <3>1
    <3>3. QED
      BY <2>4, <3>1, <3>2
  <2>6. EventFrames \subseteq WireFrames
    BY DEF EventFrames, WireFrames, AnyType
  <2>7. QED
    <3> HIDE DEF r
    <3>1. r \in Seq(WireFrames)
      BY <2>4, <2>6, SeqMonotonic
    <3>2. QED
      BY <2>2, <2>3, <2>4, <2>5, <3>1
<1>4. QED
  BY <1>2, <1>3

-----------------------------------------------------------------------------
(* The gateway sends *)

(* A frame for the session of the channel.                                 *)
LEMMA SendSame ==
    ASSUME LinkInv, NEW type \in EventTypes, Dispatch(type), channel.session = gwSession,
           UNCHANGED <<gwSession, issued, dpc, token, lastEventId, resets>>
    PROVE  LinkInv' /\ \E n \in 1 .. MaxSeq : Delivery!Send(<<Frame(n, type)>>)
<1> DEFINE f == Frame(channel.seq + 1, type)
<1>1. /\ gwSession # 0 /\ channel.seq < MaxSeq /\ UNCHANGED <<listener, stream>>
      /\ channel' = HubPublish(channel, type) /\ log' = Append(log, f) /\ wire' = Written(f)
  BY DEF Dispatch
<1>2. /\ channel \in Hubs /\ log \in Seq(EventFrames) /\ Numbered(channel, log)
      /\ wire \in Seq(WireFrames) /\ channel.seq \in Nat /\ Len(log) = channel.seq
      /\ Cursor \in Nat /\ Len(wire) \in Nat
  BY UnreadFrames DEF LinkInv, LinkTypes, ChannelNumbered, Numbered, Hubs
<1>3. /\ channel' \in Hubs /\ channel'.session = channel.session
      /\ channel'.seq = channel.seq + 1 /\ f \in EventFrames
      /\ log' \in Seq(EventFrames) /\ Numbered(channel', log')
  BY <1>1, <1>2, PublishNumbers
<1>4. /\ Len(log') = Len(log) + 1 /\ log'[Len(log) + 1] = f
      /\ \A i \in 1 .. Len(log) : log'[i] = log[i]
  BY <1>1, <1>2, <1>3, AppendProperties
<1>5. f \in WireFrames /\ f.type \in EventTypes /\ f.type # "stream.reset"
  BY <1>3 DEF EventFrames, WireFrames, AnyType, EventTypes
<1> HIDE DEF f
<1> DEFINE Written0 == listener # 0 /\ stream = "open"
<1>6. Written0 => token = gwSession /\ token # 0
  BY <1>1 DEF LinkInv, SessionsIssued, DaemonConnected
<1>7. /\ wire' \in Seq(WireFrames)
      /\ ~Written0 => wire' = wire
      /\ Written0 => /\ Len(wire') = Len(wire) + 1 /\ wire'[Len(wire) + 1] = f
                     /\ \A i \in 1 .. Len(wire) : wire'[i] = wire[i]
  BY <1>1, <1>2, <1>5, AppendProperties DEF Written
<1>8. Live' = Live /\ Cursor' = Cursor
  BY <1>1, <1>3 DEF Live, Cursor
<1>9. Reset0' = Reset0 /\ (wire # << >> => Head(wire') = Head(wire))
  <2>1. CASE ~Written0
    BY <1>7, <2>1 DEF Reset0
  <2>2. CASE Written0 /\ wire = << >>
    <3>1. Len(wire') = 1 /\ wire'[1] = f
      BY <1>7, <2>2
    <3>2. wire' # << >> /\ Head(wire') = f
      <4>1. wire' # << >>
        BY <3>1
      <4>2. wire' \in Seq(WireFrames)
        BY <1>7
      <4>3. QED
        BY <3>1, <4>1, <4>2
    <3>3. QED
      BY <1>5, <2>2, <3>2 DEF Reset0
  <2>3. CASE Written0 /\ wire # << >>
    <3>1. Len(wire) # 0 /\ wire'[1] = wire[1] /\ Len(wire') = Len(wire) + 1
      BY <1>2, <1>7, <2>3, EmptySeq
    <3>2. wire' # << >> /\ Head(wire') = Head(wire)
      BY <1>2, <1>7, <2>3, <3>1
    <3>3. QED
      BY <2>3, <3>2 DEF Reset0
  <2>4. QED
    BY <2>1, <2>2, <2>3
<1>10. LinkTypes'
  BY <1>1, <1>3, <1>7 DEF LinkInv, LinkTypes
<1>11. SessionsIssued'
  BY <1>1, <1>3 DEF LinkInv, SessionsIssued
<1>12. ChannelNumbered'
  BY <1>1, <1>2, <1>3, LinkAssumption DEF ChannelNumbered
<1>13. DaemonConnected'
  <2>1. stream = "none" => wire' = << >>
    BY <1>7 DEF LinkInv, DaemonConnected
  <2>2. QED
    BY <1>1, <1>3, <2>1 DEF LinkInv, DaemonConnected
<1>14. WireFollows'
  <2>1. \A i \in 2 .. Len(wire') : wire'[i].type \in EventTypes
    <3>1. \A i \in 2 .. Len(wire) : wire[i].type \in EventTypes
      BY DEF LinkInv, WireFollows
    <3>2. QED
      BY <1>2, <1>5, <1>7, <3>1
  <2>2. ASSUME Live
        PROVE  /\ Cursor <= Len(log')
               /\ Reset0 => Cursor <= Head(wire').seq /\ Head(wire').seq <= Len(log')
    <3>1. /\ Cursor <= Len(log)
          /\ Reset0 => Cursor <= Head(wire).seq /\ Head(wire).seq <= Len(log)
      BY <2>2 DEF LinkInv, WireFollows
    <3>2. Reset0 => Head(wire).seq \in Nat /\ Head(wire') = Head(wire)
      <4>1. ASSUME Reset0
            PROVE  Head(wire) \in WireFrames /\ Head(wire') = Head(wire)
        BY <1>2, <1>9, <4>1, HeadTailProperties DEF Reset0
      <4>2. QED
        BY <4>1 DEF WireFrames
    <3>3. QED
      BY <1>2, <1>4, <3>1, <3>2
  <2>3. ASSUME Live, ~Reset0
        PROVE  /\ Cursor + Len(wire') <= Len(log')
               /\ \A i \in 1 .. Len(wire') : wire'[i] = log'[Cursor + i]
               /\ Written0 => Cursor + Len(wire') = Len(log')
    <3>1. /\ Cursor + Len(wire) <= Len(log)
          /\ \A i \in 1 .. Len(wire) : wire[i] = log[Cursor + i]
          /\ Written0 => Cursor + Len(wire) = Len(log)
      BY <2>3 DEF LinkInv, WireFollows
    <3>2. \A i \in 1 .. Len(wire) : wire[i] = log'[Cursor + i]
      <4>1. \A i \in 1 .. Len(wire) : Cursor + i \in 1 .. Len(log)
        BY <1>2, <3>1
      <4>2. QED
        BY <1>4, <3>1, <4>1
    <3>3. CASE ~Written0
      BY <1>2, <1>4, <1>7, <3>1, <3>2, <3>3
    <3>4. CASE Written0
      <4>1. /\ Len(wire') = Len(wire) + 1 /\ Len(log') = Len(log) + 1
            /\ Cursor + (Len(wire) + 1) = Len(log) + 1
        BY <1>2, <1>4, <1>7, <3>1, <3>4
      <4>2. wire'[Len(wire) + 1] = log'[Cursor + (Len(wire) + 1)]
        BY <1>4, <1>7, <3>4, <4>1
      <4>3. \A i \in 1 .. Len(wire) : wire'[i] = log'[Cursor + i]
        BY <1>7, <3>2, <3>4
      <4>4. \A i \in 1 .. Len(wire') : i \in 1 .. Len(wire) \/ i = Len(wire) + 1
        BY <1>2, <4>1
      <4>5. \A i \in 1 .. Len(wire') : wire'[i] = log'[Cursor + i]
        BY <4>2, <4>3, <4>4
      <4>6. QED
        BY <1>2, <4>1, <4>5
    <3>5. QED
      BY <3>3, <3>4
  <2>4. QED
    BY <1>1, <1>8, <1>9, <2>1, <2>2, <2>3 DEF WireFollows
<1>15. LinkInv'
  BY <1>10, <1>11, <1>12, <1>13, <1>14 DEF LinkInv
<1>16. Unread' = IF gwSession = token THEN Unread \o <<f>> ELSE Unread
  <2>1. CASE gwSession = token
    <3>1. Live /\ Live'
      BY <1>1, <1>8, <2>1 DEF Live
    <3>2. Cursor <= Len(log)
      BY <3>1 DEF LinkInv, WireFollows
    <3>3. SubSeq(Append(log, f), Cursor + 1, Len(log) + 1)
              = SubSeq(log, Cursor + 1, Len(log)) \o <<f>>
      BY <1>2, <1>3, <3>2, SuffixOfAppend
    <3>4. QED
      BY <1>1, <1>4, <1>8, <2>1, <3>1, <3>3 DEF Unread
  <2>2. CASE gwSession # token
    <3>1. ~Live /\ ~Live' /\ wire' = wire
      BY <1>6, <1>7, <1>8, <2>2 DEF Live
    <3>2. QED
      BY <2>2, <3>1 DEF Unread
  <2>3. QED
    BY <2>1, <2>2
<1>17. Delivery!Send(<<f>>)
  BY <1>1, <1>16 DEF Delivery!Send
<1>18. channel.seq + 1 \in 1 .. MaxSeq
  BY <1>1, <1>2, LinkAssumption
<1>19. QED
  BY <1>15, <1>17, <1>18 DEF f

(* The first frame for a new session.                                      *)
LEMMA SendNew ==
    ASSUME LinkInv, NEW type \in EventTypes, Dispatch(type), channel.session # gwSession,
           UNCHANGED <<gwSession, issued, dpc, token, lastEventId, resets>>
    PROVE  LinkInv' /\ \E n \in 1 .. MaxSeq : Delivery!Send(<<Frame(n, type)>>)
<1> DEFINE f == Frame(1, type)
<1>1. /\ gwSession # 0 /\ 0 < MaxSeq /\ UNCHANGED wire
      /\ channel' = HubPublish(EventHub(gwSession), type) /\ log' = <<f>>
      /\ listener' = 0 /\ stream' = EndedStream
  BY DEF Dispatch
<1>2. /\ gwSession \in Nat /\ << >> \in Seq(EventFrames) /\ Append(<< >>, f) = log'
      /\ EventHub(gwSession) \in Hubs /\ EventHub(gwSession).seq = 0
      /\ EventHub(gwSession).session = gwSession /\ Numbered(EventHub(gwSession), << >>)
  BY <1>1, NewHub DEF LinkInv, LinkTypes
<1>3. /\ channel' \in Hubs /\ channel'.session = gwSession /\ channel'.seq = 1
      /\ log' \in Seq(EventFrames) /\ Numbered(channel', log') /\ Len(log') = 1
  <2>1. /\ channel' \in Hubs /\ channel'.session = gwSession /\ channel'.seq = 0 + 1
        /\ Append(<< >>, Frame(0 + 1, type)) \in Seq(EventFrames)
        /\ Numbered(channel', Append(<< >>, Frame(0 + 1, type)))
    BY <1>1, <1>2, PublishNumbers
  <2>2. 0 + 1 = 1
    OBVIOUS
  <2>3. Append(<< >>, Frame(0 + 1, type)) = log'
    BY <1>1, <1>2, <2>2
  <2>4. Len(log') = 1
    BY <1>1
  <2>5. QED
    BY <2>1, <2>2, <2>3, <2>4
<1>4. token = gwSession => wire = << >> /\ lastEventId = None
  BY <1>1 DEF LinkInv, DaemonConnected
<1>5. ~Live /\ (Live' <=> token = gwSession) /\ Cursor' = Cursor /\ Reset0' = Reset0
  BY <1>1, <1>3 DEF Live, Cursor, Reset0
<1>6. stream' \in {"none", "ended"} /\ (stream' = "none" <=> stream = "none")
  BY <1>1 DEF EndedStream, LinkInv, LinkTypes
<1>7. LinkTypes'
  BY <1>1, <1>3, <1>6 DEF LinkInv, LinkTypes
<1>8. SessionsIssued'
  BY <1>1, <1>3 DEF LinkInv, SessionsIssued
<1>9. ChannelNumbered'
  BY <1>1, <1>3, LinkAssumption DEF ChannelNumbered
<1>10. DaemonConnected'
  BY <1>1, <1>3, <1>6 DEF LinkInv, DaemonConnected
<1>11. WireFollows'
  <2>1. \A i \in 2 .. Len(wire') : wire'[i].type \in EventTypes
    BY <1>1 DEF LinkInv, WireFollows
  <2>2. Live' => Cursor' = 0 /\ Len(wire') = 0 /\ ~Reset0'
    BY <1>1, <1>4, <1>5 DEF Cursor, Reset0
  <2>3. QED
    BY <1>1, <1>3, <2>1, <2>2 DEF WireFollows
<1>12. LinkInv'
  BY <1>7, <1>8, <1>9, <1>10, <1>11 DEF LinkInv
<1>13. Unread' = IF gwSession = token THEN Unread \o <<f>> ELSE Unread
  <2>1. CASE gwSession = token
    <3>1. Unread = << >>
      BY <1>4, <1>5, <2>1 DEF Unread
    <3>2. Cursor' = 0 /\ Len(log') = 1 /\ Unread' = SubSeq(log', 0 + 1, 1)
      BY <1>3, <1>4, <1>5, <2>1 DEF Cursor, Unread
    <3>3. SubSeq(log', 1, 1) = log'
      BY <1>3, SubSeqFull
    <3>4. << >> \o <<f>> = <<f>>
      OBVIOUS
    <3>5. QED
      BY <1>1, <2>1, <3>1, <3>2, <3>3, <3>4
  <2>2. CASE gwSession # token
    BY <1>1, <1>5, <2>2 DEF Unread, Reset0
  <2>3. QED
    BY <2>1, <2>2
<1>14. Delivery!Send(<<f>>)
  BY <1>1, <1>13 DEF Delivery!Send
<1>15. 1 \in 1 .. MaxSeq
  BY <1>1, LinkAssumption
<1>16. QED
  BY <1>12, <1>14, <1>15

-----------------------------------------------------------------------------
(* The daemon connects *)

(* The stream is opened: what is unread stays the same.                    *)
LEMMA ConnectSound ==
    ASSUME LinkInv, Connect
    PROVE  LinkInv' /\ UNCHANGED <<gwSession, token, Unread, resets>>
<1> DEFINE Opened == wire' = Replay(channel', Cursor) /\ stream' = "open" /\ dpc' = "reading"
           Failed == /\ wire' = << >> /\ stream' = "none"
                     /\ dpc' \in {"gateway_unreachable", "backoff"}
<1>1. /\ UNCHANGED <<gwSession, issued, token, lastEventId, resets>>
      /\ dpc = "connect" /\ token = gwSession /\ listener' = gwSession
      /\ channel' = IF channel.session = gwSession THEN channel ELSE EventHub(gwSession)
      /\ log' = IF channel.session = gwSession THEN log ELSE << >>
      /\ Opened \/ Failed
  BY DEF Connect, Fail
<1>2. /\ wire = << >> /\ token # 0 /\ token \in Nat /\ Cursor \in Nat
      /\ channel.session # token => lastEventId = None
  BY <1>1, UnreadFrames DEF LinkInv, DaemonConnected, LinkTypes
<1>3. /\ channel' \in Hubs /\ channel'.session = gwSession /\ log' \in Seq(EventFrames)
      /\ Numbered(channel', log') /\ channel'.seq <= MaxSeq /\ Cursor <= Len(log')
      /\ Unread = SubSeq(log', Cursor + 1, Len(log')) /\ Len(log') \in Nat
  <2>1. CASE channel.session = gwSession
    <3>1. Live
      BY <1>1, <1>2, <2>1 DEF Live
    <3>2. channel' = channel /\ log' = log
      BY <1>1, <2>1
    <3>3. Cursor <= Len(log) /\ Unread = SubSeq(log, Cursor + 1, Len(log)) /\ Len(log) \in Nat
      BY <3>1, UnreadFrames DEF LinkInv, WireFollows
    <3>4. QED
      BY <2>1, <3>2, <3>3 DEF LinkInv, LinkTypes, ChannelNumbered
  <2>2. CASE channel.session # gwSession
    <3>1. channel' = EventHub(gwSession) /\ log' = << >> /\ lastEventId = None
      BY <1>1, <1>2, <2>2
    <3>2. Cursor = 0 /\ Len(log') = 0 /\ log' \in Seq(EventFrames)
      BY <3>1, EmptySeq DEF Cursor
    <3>3. ~Live
      BY <1>1, <2>2 DEF Live
    <3>4. Unread = << >>
      BY <1>2, <3>3 DEF Unread
    <3>5. SubSeq(log', 0 + 1, 0) = << >>
      BY SubSeqEmpty
    <3>6. /\ channel' \in Hubs /\ channel'.session = gwSession /\ channel'.seq = 0
          /\ Numbered(channel', log')
      BY <1>1, <1>2, <3>1, NewHub
    <3>7. QED
      BY <3>2, <3>4, <3>5, <3>6, LinkAssumption
  <2>3. QED
    BY <2>1, <2>2
<1>4. Live' /\ Cursor' = Cursor
  BY <1>1, <1>2, <1>3 DEF Live, Cursor
<1>5. Unread' = Unread
  BY <1>3, <1>4 DEF Unread
<1>6. /\ wire' \in Seq(WireFrames)
      /\ \/ stream' = "none" /\ wire' = << >>
         \/ wire' = <<Frame(Len(log'), "stream.reset")>>
         \/ /\ wire' \in Seq(EventFrames) /\ Len(wire') = Len(log') - Cursor
            /\ \A i \in 1 .. Len(log') - Cursor : wire'[i] = log'[Cursor + i]
  <2>1. CASE Opened
    BY <1>2, <1>3, <2>1, ReplayFollows
  <2>2. CASE Failed
    BY <2>2, EmptySeq
  <2>3. QED
    BY <1>1, <2>1, <2>2
<1>7. LinkTypes'
  BY <1>1, <1>3, <1>6 DEF LinkInv, LinkTypes, States, Looping, Stopping
<1>8. SessionsIssued'
  BY <1>1, <1>3 DEF LinkInv, SessionsIssued
<1>9. ChannelNumbered'
  BY <1>3 DEF ChannelNumbered
<1>10. DaemonConnected'
  BY <1>1, <1>2, <1>3 DEF DaemonConnected
<1>11. WireFollows'
  <2>1. CASE stream' = "none" /\ wire' = << >>
    <3>1. ~Reset0' /\ Len(wire') = 0
      BY <2>1 DEF Reset0
    <3>2. QED
      BY <1>2, <1>3, <1>4, <2>1, <3>1 DEF WireFollows
  <2>2. CASE wire' = <<Frame(Len(log'), "stream.reset")>>
    <3>1. Reset0' /\ Len(wire') = 1 /\ Head(wire').seq = Len(log')
      BY <2>2 DEF Reset0, Frame
    <3>2. QED
      BY <1>2, <1>3, <1>4, <3>1 DEF WireFollows
  <2>3. CASE /\ wire' \in Seq(EventFrames) /\ Len(wire') = Len(log') - Cursor
             /\ \A i \in 1 .. Len(log') - Cursor : wire'[i] = log'[Cursor + i]
    <3>1. \A i \in 1 .. Len(wire') : wire'[i].type \in EventTypes
      <4>1. \A i \in 1 .. Len(wire') : wire'[i] \in EventFrames
        BY <2>3, ElementOfSeq
      <4>2. QED
        BY <4>1 DEF EventFrames
    <3>2. ~Reset0'
      <4>1. ASSUME wire' # << >>
            PROVE  Head(wire') \in EventFrames
        BY <2>3, <4>1, HeadTailProperties
      <4>2. QED
        BY <4>1 DEF Reset0, EventFrames, EventTypes
    <3>3. \A i \in 2 .. Len(wire') : wire'[i].type \in EventTypes
      BY <1>2, <1>3, <2>3, <3>1
    <3>4. Cursor + Len(wire') = Len(log')
      BY <1>2, <1>3, <2>3
    <3>5. QED
      BY <1>2, <1>3, <1>4, <2>3, <3>2, <3>3, <3>4 DEF WireFollows
  <2>4. QED
    BY <1>6, <2>1, <2>2, <2>3
<1>12. QED
  BY <1>1, <1>5, <1>7, <1>8, <1>9, <1>10, <1>11 DEF LinkInv

-----------------------------------------------------------------------------
(* Every step *)

(* A step of DirectedDelivery or none.                                     *)
AbstractStep == Delivery!DeliveryNext \/ UNCHANGED <<gwSession, token, Unread, resets>>

LEMMA DispatchSound ==
    ASSUME LinkInv, NEW type \in EventTypes, Dispatch(type),
           UNCHANGED <<gwSession, issued, dpc, token, lastEventId, resets>>
    PROVE  LinkInv' /\ AbstractStep
<1>1. LinkInv' /\ \E n \in 1 .. MaxSeq : Delivery!Send(<<Frame(n, type)>>)
  BY SendSame, SendNew
<1>2. PICK n \in 1 .. MaxSeq : Delivery!Send(<<Frame(n, type)>>)
  BY <1>1
<1>3. Frame(n, type) \in {Frame(k, t) : k \in 1 .. MaxSeq, t \in EventTypes}
  OBVIOUS
<1>4. Delivery!DeliveryNext
  BY <1>2, <1>3 DEF Delivery!DeliveryNext
<1>5. QED
  BY <1>1, <1>4 DEF AbstractStep

(* Every step of the link keeps the invariant and is, of what is unread, a *)
(* step of DirectedDelivery.                                               *)
LEMMA LinkStep ==
    ASSUME LinkInv, [LinkNext]_linkVars
    PROVE  LinkInv' /\ AbstractStep
<1>1. ASSUME RequestWake \/ UpdateExpires \/ HeartbeatLost \/ ConnectRefused
      PROVE  LinkInv' /\ AbstractStep
  BY <1>1, QuietSteps, QuietKeeps DEF AbstractStep
<1>2. CASE SendRun
  BY <1>2, DispatchSound DEF SendRun, daemonVars, EventTypes
<1>3. CASE ScheduleUpdate
  BY <1>3, DispatchSound DEF ScheduleUpdate, daemonVars, EventTypes
<1>4. CASE Heartbeat
  <2>1. CASE listener = gwSession
    BY <1>4, <2>1, DispatchSound DEF Heartbeat, daemonVars, EventTypes
  <2>2. CASE listener # gwSession
    BY <1>4, <2>2, QuietSteps, QuietKeeps DEF AbstractStep
  <2>3. QED
    BY <2>1, <2>2
<1>5. CASE Revoke
  BY <1>5, RevokeSound DEF AbstractStep, Delivery!DeliveryNext
<1>6. CASE Restart
  BY <1>6, RestartSound DEF AbstractStep, Delivery!DeliveryNext
<1>7. ASSUME NEW busy \in BOOLEAN, NEW outcome \in {"answered", "lost"},
             StartDaemon(busy, outcome)
      PROVE  LinkInv' /\ AbstractStep
  <2>1. CASE KeyAccepted(busy)
    BY <1>7, <2>1, LoginSound DEF AbstractStep, Delivery!DeliveryNext
  <2>2. CASE ~KeyAccepted(busy)
    BY <1>7, <2>2, QuietSteps, QuietKeeps DEF AbstractStep
  <2>3. QED
    BY <2>1, <2>2
<1>8. ASSUME NEW busy \in BOOLEAN, Relogin(busy)
      PROVE  LinkInv' /\ AbstractStep
  <2>1. CASE ~ResumeAccepted
    BY <1>8, <2>1, LoginSound DEF AbstractStep, Delivery!DeliveryNext
  <2>2. CASE ResumeAccepted
    BY <1>8, <2>2, QuietSteps, QuietKeeps DEF AbstractStep
  <2>3. QED
    BY <2>1, <2>2
<1>9. ASSUME NEW busy \in BOOLEAN, ReloginRefused(busy)
      PROVE  LinkInv' /\ AbstractStep
  <2>1. CASE lastEventId' # lastEventId
    BY <1>9, <2>1, ForgetSound DEF AbstractStep
  <2>2. CASE lastEventId' = lastEventId
    BY <1>9, <2>2, QuietSteps, QuietKeeps DEF AbstractStep
  <2>3. QED
    BY <2>1, <2>2
<1>10. CASE Connect
  BY <1>10, ConnectSound DEF AbstractStep
<1>11. CASE ReadFrame
  BY <1>11, ReadSound DEF AbstractStep, Delivery!DeliveryNext
<1>12. CASE StreamEnds
  BY <1>12, StreamEndsSound DEF AbstractStep, Delivery!DeliveryNext
<1>13. CASE Exit
  BY <1>13, ExitSound DEF AbstractStep, Delivery!DeliveryNext
<1>14. CASE UNCHANGED linkVars
  <2>1. QuietStep
    BY <1>14 DEF linkVars, gatewayVars, wireVars, daemonVars, QuietStep, LinkInv, LinkTypes,
                 DaemonConnected
  <2>2. QED
    BY <2>1, QuietKeeps DEF AbstractStep
<1>15. QED
  BY <1>1, <1>2, <1>3, <1>4, <1>5, <1>6, <1>7, <1>8, <1>9, <1>10, <1>11, <1>12, <1>13, <1>14
     DEF LinkNext

LEMMA LinkStart == LinkInit => LinkInv /\ Delivery!DeliveryInit
<1> SUFFICES ASSUME LinkInit
             PROVE  LinkInv /\ Delivery!DeliveryInit
  OBVIOUS
<1>1. /\ EventHub(0) \in Hubs /\ EventHub(0).session = 0 /\ EventHub(0).seq = 0
      /\ Numbered(EventHub(0), << >>)
  BY NewHub
<1>2. LinkTypes
  BY <1>1, EmptySeq DEF LinkInit, LinkTypes, States
<1>3. SessionsIssued /\ ChannelNumbered /\ DaemonConnected
  BY <1>1, LinkAssumption DEF LinkInit, SessionsIssued, ChannelNumbered, DaemonConnected
<1>4. WireFollows
  BY DEF LinkInit, WireFollows, Live
<1>5. Unread = << >>
  BY DEF LinkInit, Unread, Live
<1>6. QED
  BY <1>2, <1>3, <1>4, <1>5 DEF LinkInv, LinkInit, Delivery!DeliveryInit

(* The frames of a channel, the ring buffer, the wire and the cursor are   *)
(* where LinkInv says they are, in every reachable state.                  *)
THEOREM LinkInvInductive == LinkSpec => []LinkInv
<1>1. LinkInit => LinkInv
  BY LinkStart
<1>2. LinkInv /\ [LinkNext]_linkVars => LinkInv'
  BY LinkStep
<1>3. QED
  BY <1>1, <1>2, PTL DEF LinkSpec

(* The link implements DirectedDelivery (openEvents, connectionLoop): no   *)
(* frame of a live session is skipped, repeated or reordered without a     *)
(* stream.reset, for every buffer size and every number of cut streams,    *)
(* logins, revocations and restarts.                                       *)
THEOREM LinkImplementsDelivery == LinkSpec => ImplementsDelivery
<1>1. LinkInit => Delivery!DeliveryInit
  BY LinkStart
<1>2. LinkInv /\ [LinkNext]_linkVars
          => [Delivery!DeliveryNext]_<<gwSession, token, Unread, resets>>
  BY LinkStep DEF AbstractStep
<1>3. LinkSpec => []LinkInv
  BY LinkInvInductive
<1>4. QED
  BY <1>1, <1>2, <1>3, PTL DEF LinkSpec, ImplementsDelivery, Delivery!DeliverySpec,
                               Delivery!deliveryVars

-----------------------------------------------------------------------------
(* Memory tasks *)

TaskFrames == {"requested", "cancelled"} \X Dispatches
Statuses   == {"none", "pending", "unavailable", "cancelled", "timed_out", "succeeded", "failed",
               "forgotten"}

TaskTypes ==
    /\ dispatched \in [Dispatches -> [revision : Nat, status : Statuses]]
    /\ feed \in [Workers -> Seq(TaskFrames)]
    /\ feedState \in [Workers -> {"open", "ended", "none"}]
    /\ loopAt \in [Workers -> {"connect", "reading", "stopped"}]
    /\ task \in [Workers -> [Dispatches -> {"none", "executing", "submitting", "failing", "done"}]]
    /\ taskAborted \in [Workers -> SUBSET Dispatches]
    /\ workerRevision \in [Workers -> Nat] /\ revision \in Nat

(* A worker reads a stream, and only of a stream something is to be read.  *)
StreamsSound ==
    \A w \in Workers :
        /\ loopAt[w] = "reading" <=> feedState[w] # "none"
        /\ feedState[w] = "none" => feed[w] = << >>

(* When its stream is gone, a worker has aborted what it executed.         *)
GoneAreAborted ==
    \A w \in Workers, d \in Dispatches :
        task[w][d] = "executing" /\ feedState[w] = "none" => d \in taskAborted[w]

(* A cancellation follows its request on the stream.                       *)
CancelFollowsFor(w, d) ==
    \A i \in Nat :
        (/\ i \in DOMAIN feed[w] /\ feed[w][i] = <<"requested", d>>
         /\ dispatched[d].status = "cancelled" /\ feedState[w] = "open")
        => \E j \in DOMAIN feed[w] : i < j /\ feed[w][j] = <<"cancelled", d>>

CancelFollows == \A w \in Workers, d \in Dispatches : CancelFollowsFor(w, d)

(* What a worker knows of was dispatched, for the runtime it runs with.    *)
TasksWereDispatched ==
    \A w \in Workers, d \in Dispatches :
        /\ dispatched[d].status = "none" =>
              /\ task[w][d] = "none"
              /\ \A i \in DOMAIN feed[w] : feed[w][i][2] # d
        /\ task[w][d] \in {"executing", "submitting"} =>
              workerRevision[w] = dispatched[d].revision

TasksInv ==
    /\ TaskTypes /\ StreamsSound /\ GoneAreAborted /\ CancelFollows /\ TasksWereDispatched
    /\ CancelReachesWorker

(* How a worker learns of a cancellation.                                  *)
Reaches(w, d) ==
    \/ d \in taskAborted[w]
    \/ \E i \in 1 .. Len(feed[w]) : feed[w][i] = <<"cancelled", d>>
    \/ feedState[w] = "ended"

LEMMA CancelReaches ==
    ASSUME CancelReachesWorker, NEW w \in Workers, NEW d \in Dispatches,
           dispatched[d].status = "cancelled", task[w][d] = "executing"
    PROVE  Reaches(w, d)
<1>1. dispatched[d].status = "cancelled" /\ task[w][d] = "executing" => Reaches(w, d)
  BY Zenon DEF CancelReachesWorker, Reaches
<1>2. QED
  BY <1>1

LEMMA CancelReachesAgain ==
    ASSUME \A w \in Workers, d \in Dispatches :
              dispatched'[d].status = "cancelled" /\ task'[w][d] = "executing" => Reaches(w, d)'
    PROVE  CancelReachesWorker'
BY Zenon DEF CancelReachesWorker, Reaches

(* Steps that cancel nothing, start nothing and write nothing.             *)
LEMMA MildTaskStep ==
    ASSUME TasksInv, TaskTypes',
           \A d \in Dispatches :
              /\ dispatched'[d].revision = dispatched[d].revision
              /\ dispatched'[d].status \in {"none", "cancelled"} => dispatched'[d].status = dispatched[d].status,
           \A w \in Workers, d \in Dispatches :
              /\ task'[w][d] = "executing" => task[w][d] = "executing"
              /\ task'[w][d] = "submitting" => task[w][d] \in {"executing", "submitting"}
              /\ task[w][d] = "none" => task'[w][d] = "none",
           \A w \in Workers :
              /\ loopAt'[w] = "reading" <=> loopAt[w] = "reading"
              /\ feedState'[w] = "none" <=> feedState[w] = "none"
              /\ feedState[w] = "ended" => feedState'[w] = "ended"
              /\ taskAborted[w] \subseteq taskAborted'[w]
              /\ workerRevision'[w] = workerRevision[w]
              /\ \/ feed'[w] = feed[w]
                 \/ /\ feedState'[w] = "ended"
                    /\ DOMAIN feed'[w] \subseteq DOMAIN feed[w]
                    /\ \A i \in DOMAIN feed'[w] : feed'[w][i] = feed[w][i]
    PROVE  TasksInv'
<1>1. StreamsSound'
  <2> SUFFICES ASSUME NEW w \in Workers
               PROVE  /\ loopAt'[w] = "reading" <=> feedState'[w] # "none"
                      /\ feedState'[w] = "none" => feed'[w] = << >>
    BY DEF StreamsSound
  <2>1. QED
    BY DEF TasksInv, StreamsSound
<1>2. GoneAreAborted'
  BY DEF TasksInv, GoneAreAborted
<1>3. CancelFollows'
  <2>1. ASSUME NEW w \in Workers, NEW d \in Dispatches, CancelFollowsFor(w, d)
        PROVE  CancelFollowsFor(w, d)'
    <3> SUFFICES ASSUME NEW i \in Nat,
                        i \in DOMAIN feed'[w], feed'[w][i] = <<"requested", d>>,
                        dispatched'[d].status = "cancelled", feedState'[w] = "open"
                 PROVE  \E j \in DOMAIN feed'[w] : i < j /\ feed'[w][j] = <<"cancelled", d>>
      BY DEF CancelFollowsFor
    <3>1. feed'[w] = feed[w]
      OBVIOUS
    <3>2. feedState[w] = "open" /\ dispatched[d].status = "cancelled"
      <4>1. feedState[w] \in {"open", "ended", "none"}
        BY DEF TasksInv, TaskTypes
      <4>2. feedState[w] = "open"
        BY <4>1
      <4>3. dispatched[d].status = "cancelled"
        BY Zenon
      <4>4. QED
        BY <4>2, <4>3
    <3>3. PICK j \in DOMAIN feed[w] : i < j /\ feed[w][j] = <<"cancelled", d>>
      <4>1. i \in DOMAIN feed[w] /\ feed[w][i] = <<"requested", d>>
        BY <3>1
      <4>2. QED
        BY <2>1, <3>2, <4>1, Zenon DEF CancelFollowsFor
    <3>4. QED
      BY <3>1, <3>3
  <2>2. QED
    BY <2>1 DEF TasksInv, CancelFollows
<1>4. TasksWereDispatched'
  BY DEF TasksInv, TasksWereDispatched
<1>5. CancelReachesWorker'
  <2>1. ASSUME NEW w \in Workers, NEW d \in Dispatches,
               Reaches(w, d), dispatched[d].status = "cancelled" /\ task[w][d] = "executing"
        PROVE  Reaches(w, d)'
    <3>1. CASE d \in taskAborted[w] \/ feedState[w] = "ended"
      BY <3>1 DEF Reaches
    <3>2. CASE feed'[w] # feed[w]
      BY <3>2 DEF Reaches
    <3>3. CASE feed'[w] = feed[w] /\ \E i \in 1 .. Len(feed[w]) : feed[w][i] = <<"cancelled", d>>
      BY <3>3 DEF Reaches
    <3>4. QED
      BY <2>1, <3>1, <3>2, <3>3 DEF Reaches
  <2>2. QED
    BY <2>1, CancelReaches, CancelReachesAgain DEF TasksInv, TaskTypes
<1>6. QED
  BY <1>1, <1>2, <1>3, <1>4, <1>5 DEF TasksInv

LEMMA MildTaskSteps ==
    ASSUME TasksInv,
           \/ Unsubscribe \/ RestartTransport
           \/ \E d \in Dispatches : TimeOutTask(d)
           \/ \E w \in Workers :
                 \/ ReadHeartbeat(w) \/ CutFeed(w)
                 \/ \E d \in Dispatches : FinishTask(w, d) \/ SubmitTask(w, d)
    PROVE  TasksInv'
<1> USE DEF TasksInv, TaskTypes, Statuses, taskVars, workerVars, feedVars
<1>1. CASE Unsubscribe \/ \E w \in Workers : ReadHeartbeat(w)
  BY <1>1, MildTaskStep DEF Unsubscribe, ReadHeartbeat
<1>2. CASE RestartTransport
  <2>1. TaskTypes'
    BY <1>2 DEF RestartTransport, Listening
  <2>2. QED
    BY <1>2, <2>1, MildTaskStep DEF RestartTransport, Listening
<1>3. ASSUME NEW d \in Dispatches, TimeOutTask(d)
      PROVE  TasksInv'
  <2>1. TaskTypes'
    BY <1>3 DEF TimeOutTask, Settle
  <2>2. QED
    BY <1>3, <2>1, MildTaskStep DEF TimeOutTask, Settle
<1>4. ASSUME NEW w \in Workers, CutFeed(w)
      PROVE  TasksInv'
  <2>1. PICK n \in 0 .. Len(feed[w]) : feed' = [feed EXCEPT ![w] = SubSeq(@, 1, n)]
    BY <1>4 DEF CutFeed
  <2>2. feed[w] \in Seq(TaskFrames) /\ 1 .. n \subseteq DOMAIN feed[w]
    OBVIOUS
  <2>3. /\ SubSeq(feed[w], 1, n) \in Seq(TaskFrames)
        /\ DOMAIN SubSeq(feed[w], 1, n) = 1 .. n
        /\ \A i \in 1 .. n : SubSeq(feed[w], 1, n)[i] = feed[w][i]
    BY <2>2
  <2>4. feedState[w] = "open" /\ feedState' = [feedState EXCEPT ![w] = "ended"]
    BY <1>4 DEF CutFeed, Listening
  <2>5. TaskTypes'
    BY <1>4, <2>1, <2>3, <2>4 DEF CutFeed
  <2>6. \A v \in Workers :
           \/ feed'[v] = feed[v]
           \/ /\ feedState'[v] = "ended"
              /\ DOMAIN feed'[v] \subseteq DOMAIN feed[v]
              /\ \A i \in DOMAIN feed'[v] : feed'[v][i] = feed[v][i]
    BY <2>1, <2>2, <2>3, <2>4
  <2>7. QED
    BY <1>4, <2>4, <2>5, <2>6, MildTaskStep DEF CutFeed
<1>5. ASSUME NEW w \in Workers, NEW d \in Dispatches, FinishTask(w, d) \/ SubmitTask(w, d)
      PROVE  TasksInv'
  <2>3. UNCHANGED <<revision, feedVars, workerRevision, loopAt, taskAborted>>
    BY <1>5 DEF FinishTask, SubmitTask
  <2>4. PICK x \in {"submitting", "failing", "done"} :
           task' = [task EXCEPT ![w][d] = x] /\ (x = "submitting" => task[w][d] = "executing")
    BY <1>5 DEF FinishTask, SubmitTask
  <2>5. /\ task[w][d] \in {"executing", "submitting", "failing"}
        /\ \/ dispatched' = dispatched
           \/ \E end \in {"succeeded", "failed"} : dispatched' = [dispatched EXCEPT ![d].status = end]
    BY <1>5 DEF FinishTask, SubmitTask, SubmitResult, Settle
  <2>1. /\ TaskTypes'
        /\ \A e \in Dispatches :
              /\ dispatched'[e].revision = dispatched[e].revision
              /\ dispatched'[e].status \in {"none", "cancelled"} => dispatched'[e].status = dispatched[e].status
    <3>1. dispatched' \in [Dispatches -> [revision : Nat, status : Statuses]]
          /\ \A e \in Dispatches :
              /\ dispatched'[e].revision = dispatched[e].revision
              /\ dispatched'[e].status \in {"none", "cancelled"} => dispatched'[e].status = dispatched[e].status
      <4>1. dispatched \in [Dispatches -> [revision : Nat, status : Statuses]]
            /\ {"succeeded", "failed"} \subseteq Statuses
        OBVIOUS
      <4>2. ASSUME NEW end \in {"succeeded", "failed"}, dispatched' = [dispatched EXCEPT ![d].status = end]
            PROVE  /\ dispatched' \in [Dispatches -> [revision : Nat, status : Statuses]]
                   /\ dispatched'[d].revision = dispatched[d].revision
                   /\ dispatched'[d].status = end
                   /\ \A e \in Dispatches : e # d => dispatched'[e] = dispatched[e]
        <5> HIDE DEF Statuses
        <5>1. QED
          BY <4>1, <4>2
      <4>3. QED
        BY <2>5, <4>1, <4>2
    <3>2. task' \in [Workers -> [Dispatches -> {"none", "executing", "submitting", "failing", "done"}]]
      BY <2>4
    <3>3. QED
      BY <2>3, <3>1, <3>2
  <2>2. \A v \in Workers, e \in Dispatches :
              /\ task'[v][e] = "executing" => task[v][e] = "executing"
              /\ task'[v][e] = "submitting" => task[v][e] \in {"executing", "submitting"}
              /\ task[v][e] = "none" => task'[v][e] = "none"
    BY <2>4, <2>5
  <2>6. QED
    BY <2>1, <2>2, <2>3, MildTaskStep
<1>6. QED
  BY <1>1, <1>2, <1>3, <1>4, <1>5

(* A cancellation, like a request, goes to every stream that is open.      *)
LEMMA PublishFacts ==
    ASSUME TaskTypes, NEW d \in Dispatches, NEW type \in {"requested", "cancelled"}, Publish(d, type)
    PROVE  /\ feed' \in [Workers -> Seq(TaskFrames)]
           /\ \A w \in Workers : feedState[w] # "open" => feed'[w] = feed[w]
           /\ \A w \in Workers : feedState[w] = "open" =>
                 /\ DOMAIN feed'[w] = 1 .. Len(feed[w]) + 1
                 /\ DOMAIN feed[w] = 1 .. Len(feed[w]) /\ Len(feed[w]) \in Nat
                 /\ feed'[w][Len(feed[w]) + 1] = <<type, d>>
                 /\ \A i \in DOMAIN feed[w] : feed'[w][i] = feed[w][i]
<1>1. <<type, d>> \in TaskFrames
  BY DEF TaskFrames
<1>2. QED
  BY <1>1 DEF TaskTypes, Publish, Listening

LEMMA PublishSteps ==
    ASSUME TasksInv, NEW d \in Dispatches, DispatchTask(d) \/ CancelTask(d)
    PROVE  TasksInv'
<1>1. PICK type \in {"requested", "cancelled"} : Publish(d, type)
      /\ (type = "requested" => DispatchTask(d)) /\ (type = "cancelled" => CancelTask(d))
  BY DEF DispatchTask, CancelTask
<1>a. /\ dispatched \in [Dispatches -> [revision : Nat, status : Statuses]] /\ revision \in Nat
      /\ {"pending", "unavailable", "cancelled"} \subseteq Statuses
  BY DEF TasksInv, TaskTypes, Statuses
<1>2. /\ UNCHANGED <<revision, feedState, loopAt, task, taskAborted, workerRevision>>
      /\ dispatched' \in [Dispatches -> [revision : Nat, status : Statuses]]
      /\ \A e \in Dispatches : e # d => dispatched'[e] = dispatched[e]
      /\ dispatched'[d].status # "none"
      /\ type = "requested" => /\ dispatched[d].status = "none"
                               /\ dispatched'[d].status \in {"pending", "unavailable"}
      /\ type = "cancelled" => /\ dispatched[d].status = "pending"
                               /\ dispatched'[d].status = "cancelled"
                               /\ dispatched'[d].revision = dispatched[d].revision
  <2>1. CASE type = "requested"
    <3>1. PICK x \in {"pending", "unavailable"} :
             dispatched' = [dispatched EXCEPT ![d] = [revision |-> revision, status |-> x]]
      BY <1>1, <2>1 DEF DispatchTask
    <3>2. dispatched[d].status = "none" /\ UNCHANGED <<revision, feedState, workerVars>>
      BY <1>1, <2>1 DEF DispatchTask
    <3>3. QED
      BY <3>1, <3>2, <1>a, <2>1 DEF workerVars
  <2>2. CASE type = "cancelled"
    <3>1. dispatched' = [dispatched EXCEPT ![d].status = "cancelled"]
      BY <1>1, <2>2 DEF CancelTask, Settle
    <3>2. dispatched[d].status = "pending" /\ UNCHANGED <<revision, feedState, workerVars>>
      BY <1>1, <2>2 DEF CancelTask
    <3>3. QED
      BY <3>1, <3>2, <1>a, <2>2 DEF workerVars
  <2>3. QED
    BY <2>1, <2>2
<1>3. TaskTypes /\ TaskTypes'
  BY <1>1, <1>2, PublishFacts DEF TasksInv, TaskTypes
<1>4. StreamsSound' /\ GoneAreAborted'
  BY <1>1, <1>2, <1>3, PublishFacts DEF TasksInv, StreamsSound, GoneAreAborted
<1>5. CancelFollows'
  <2> SUFFICES ASSUME NEW w \in Workers, NEW e \in Dispatches
               PROVE  CancelFollowsFor(w, e)'
    BY DEF CancelFollows
  <2> SUFFICES ASSUME NEW i \in Nat,
                      i \in DOMAIN feed'[w], feed'[w][i] = <<"requested", e>>,
                      dispatched'[e].status = "cancelled", feedState'[w] = "open"
               PROVE  \E j \in DOMAIN feed'[w] : i < j /\ feed'[w][j] = <<"cancelled", e>>
    BY DEF CancelFollowsFor
  <2> DEFINE n == Len(feed[w])
  <2>1. /\ n \in Nat /\ DOMAIN feed[w] = 1 .. n /\ DOMAIN feed'[w] = 1 .. n + 1
        /\ feed'[w][n + 1] = <<type, d>> /\ \A k \in 1 .. n : feed'[w][k] = feed[w][k]
    BY <1>1, <1>2, <1>3, PublishFacts
  <2>2. i \in 1 .. n
    <3>1. CASE i = n + 1
      <4>1. <<type, d>> = <<"requested", e>>
        BY <2>1, <3>1
      <4>2. type = "requested" /\ d = e
        BY <4>1
      <4>3. QED
        BY <4>2, <1>2
    <3>2. QED
      BY <2>1, <3>1
  <2>3. CASE e = d
    <3>1. type = "cancelled"
      BY <1>2, <2>3
    <3>2. n + 1 \in DOMAIN feed'[w] /\ i < n + 1 /\ feed'[w][n + 1] = <<"cancelled", e>>
      BY <2>1, <2>2, <2>3, <3>1
    <3>3. QED
      BY <3>2
  <2>4. CASE e # d
    <3>1. PICK j \in 1 .. n : i < j /\ feed[w][j] = <<"cancelled", e>>
      <4>1. CancelFollowsFor(w, e)
        BY DEF TasksInv, CancelFollows
      <4>2. /\ i \in DOMAIN feed[w] /\ feed[w][i] = <<"requested", e>>
            /\ dispatched[e].status = "cancelled" /\ feedState[w] = "open"
        BY <1>2, <2>1, <2>2, <2>4
      <4>3. \E j \in DOMAIN feed[w] : i < j /\ feed[w][j] = <<"cancelled", e>>
        BY <4>1, <4>2, Zenon DEF CancelFollowsFor
      <4>4. QED
        BY <2>1, <4>3
    <3>2. QED
      BY <2>1, <3>1
  <2>5. QED
    BY <2>3, <2>4
<1>6. TasksWereDispatched'
  <2> SUFFICES ASSUME NEW w \in Workers, NEW e \in Dispatches
               PROVE  /\ dispatched'[e].status = "none" =>
                            /\ task'[w][e] = "none"
                            /\ \A i \in DOMAIN feed'[w] : feed'[w][i][2] # e
                      /\ task'[w][e] \in {"executing", "submitting"} =>
                            workerRevision'[w] = dispatched'[e].revision
    BY DEF TasksWereDispatched
  <2>1. CASE e = d
    BY <1>2, <2>1 DEF TasksInv, TasksWereDispatched
  <2>2. CASE e # d
    <3>1. CASE feedState[w] # "open"
      BY <1>1, <1>2, <1>3, <2>2, <3>1, PublishFacts DEF TasksInv, TasksWereDispatched
    <3>2. CASE feedState[w] = "open"
      <4>1. \A i \in DOMAIN feed'[w] :
               (i \in DOMAIN feed[w] /\ feed'[w][i] = feed[w][i]) \/ feed'[w][i] = <<type, d>>
        <5> DEFINE n == Len(feed[w])
        <5>1. /\ n \in Nat /\ DOMAIN feed[w] = 1 .. n /\ DOMAIN feed'[w] = 1 .. n + 1
              /\ feed'[w][n + 1] = <<type, d>> /\ \A k \in DOMAIN feed[w] : feed'[w][k] = feed[w][k]
          BY <1>1, <1>3, <3>2, PublishFacts
        <5> HIDE DEF n
        <5>2. \A i \in 1 .. n + 1 : i \in 1 .. n \/ i = n + 1
          BY <5>1
        <5>3. QED
          BY <5>1, <5>2
      <4>2. QED
        BY <1>2, <2>2, <4>1 DEF TasksInv, TasksWereDispatched
    <3>3. QED
      BY <3>1, <3>2
  <2>3. QED
    BY <2>1, <2>2
<1>7. CancelReachesWorker'
  <2> SUFFICES ASSUME NEW w \in Workers, NEW e \in Dispatches,
                      dispatched'[e].status = "cancelled", task'[w][e] = "executing"
               PROVE  Reaches(w, e)'
    BY CancelReachesAgain
  <2> SUFFICES ASSUME feedState'[w] # "ended", e \notin taskAborted'[w]
               PROVE  \E i \in 1 .. Len(feed'[w]) : feed'[w][i] = <<"cancelled", e>>
    BY DEF Reaches
  <2>1. feedState[w] = "open" /\ e \notin taskAborted[w] /\ task[w][e] = "executing"
    BY <1>2, <1>3 DEF TasksInv, TaskTypes, GoneAreAborted
  <2> DEFINE n == Len(feed[w])
  <2>2. /\ n \in Nat /\ DOMAIN feed[w] = 1 .. n /\ DOMAIN feed'[w] = 1 .. n + 1
        /\ feed'[w][n + 1] = <<type, d>> /\ \A k \in 1 .. n : feed'[w][k] = feed[w][k]
    BY <1>1, <1>3, <2>1, PublishFacts
  <2>3. 1 .. Len(feed'[w]) = 1 .. n + 1
    BY <1>3, <2>2 DEF TaskTypes
  <2>4. CASE e = d
    <3>1. feed'[w][n + 1] = <<"cancelled", e>>
      BY <1>2, <2>2, <2>4
    <3>2. n + 1 \in 1 .. Len(feed'[w])
      BY <2>2, <2>3
    <3>3. QED
      BY <3>1, <3>2
  <2>5. CASE e # d
    <3>1. PICK j \in 1 .. n : feed[w][j] = <<"cancelled", e>>
      BY <1>2, <2>1, <2>5, CancelReaches DEF TasksInv, Reaches
    <3>2. QED
      BY <2>2, <2>3, <3>1
  <2>6. QED
    BY <2>4, <2>5
<1>8. QED
  BY <1>3, <1>4, <1>5, <1>6, <1>7 DEF TasksInv

LEMMA ReadTaskStep ==
    ASSUME TasksInv, NEW w \in Workers, ReadTaskFrame(w)
    PROVE  TasksInv'
<1> DEFINE q == feed[w]
           d == q[1][2]
<1>1. /\ TaskTypes /\ q \in Seq(TaskFrames) /\ q # << >> /\ loopAt[w] = "reading"
      /\ feed' = [feed EXCEPT ![w] = Tail(q)]
      /\ UNCHANGED <<revision, dispatched, feedState, loopAt, workerRevision>>
  BY DEF ReadTaskFrame, TasksInv, TaskTypes
<1>2. /\ Len(q) \in Nat \ {0} /\ DOMAIN q = 1 .. Len(q) /\ Head(q) = q[1] /\ 1 \in DOMAIN q
      /\ Tail(q) \in Seq(TaskFrames) /\ Len(Tail(q)) = Len(q) - 1 /\ DOMAIN Tail(q) = 1 .. Len(q) - 1
      /\ \A i \in 1 .. Len(q) - 1 : Tail(q)[i] = q[i + 1]
  BY <1>1
<1>3. q[1] \in TaskFrames /\ d \in Dispatches /\ q[1] = <<q[1][1], d>>
  BY <1>1, <1>2 DEF TaskFrames
<1>4. /\ feed' \in [Workers -> Seq(TaskFrames)] /\ feed'[w] = Tail(q)
      /\ \A v \in Workers : v # w => feed'[v] = feed[v]
  BY <1>1, <1>2 DEF TaskTypes
<1> HIDE DEF q
<1>5. \/ /\ q[1][1] = "requested" /\ taskAborted' = taskAborted
         /\ \E x \in {"executing", "failing"} :
               /\ task' = [task EXCEPT ![w][d] = x]
               /\ x = "executing" => dispatched[d].revision = workerRevision[w]
      \/ /\ q[1][1] = "cancelled" /\ task' = task
         /\ taskAborted' = [taskAborted EXCEPT ![w] =
                 IF task[w][d] \in {"executing", "submitting"} THEN @ \cup {d} ELSE @]
  BY <1>2 DEF ReadTaskFrame, q
<1>6. /\ TaskTypes'
      /\ \A v \in Workers : taskAborted[v] \subseteq taskAborted'[v]
      /\ \A v \in Workers, e \in Dispatches : <<v, e>> # <<w, d>> => task'[v][e] = task[v][e]
  <2>1. CASE q[1][1] = "requested"
    <3>1. PICK x \in {"executing", "failing"} : task' = [task EXCEPT ![w][d] = x]
      BY <1>5, <2>1
    <3>2. taskAborted' = taskAborted
      BY <1>5, <2>1
    <3>3. QED
      BY <1>1, <1>3, <1>4, <3>1, <3>2 DEF TaskTypes
  <2>2. CASE q[1][1] = "cancelled"
    <3>1. task' = task
      BY <1>5, <2>2
    <3>2. PICK s \in SUBSET Dispatches : taskAborted[w] \subseteq s /\ taskAborted' = [taskAborted EXCEPT ![w] = s]
      BY <1>1, <1>3, <1>5, <2>2 DEF TaskTypes
    <3>3. QED
      BY <1>1, <1>4, <3>1, <3>2 DEF TaskTypes
  <2>3. QED
    BY <1>5, <2>1, <2>2
<1>7. StreamsSound'
  <2>1. feedState[w] # "none"
    BY <1>1 DEF TasksInv, StreamsSound
  <2>2. QED
    BY <1>1, <1>4, <2>1 DEF TasksInv, StreamsSound
<1>8. GoneAreAborted'
  <2>1. feedState[w] # "none"
    BY <1>1 DEF TasksInv, StreamsSound
  <2>2. QED
    BY <1>1, <1>6, <2>1 DEF TasksInv, GoneAreAborted
<1>9. ASSUME NEW v \in Workers, NEW e \in Dispatches
      PROVE  CancelFollowsFor(v, e)'
  <2>1. CancelFollowsFor(v, e)
    BY DEF TasksInv, CancelFollows
  <2>2. CASE v # w
    BY <1>1, <1>4, <2>1, <2>2 DEF CancelFollowsFor
  <2>3. CASE v = w
    <3> SUFFICES ASSUME NEW i \in Nat, i \in DOMAIN feed'[w], feed'[w][i] = <<"requested", e>>,
                        dispatched[e].status = "cancelled", feedState[w] = "open"
                 PROVE  \E j \in DOMAIN feed'[w] : i < j /\ feed'[w][j] = <<"cancelled", e>>
      BY <1>1, <2>3 DEF CancelFollowsFor
    <3>1. i \in 1 .. Len(q) - 1 /\ i + 1 \in DOMAIN q /\ q[i + 1] = <<"requested", e>>
      BY <1>2, <1>4
    <3>2. PICK k \in DOMAIN q : i + 1 < k /\ q[k] = <<"cancelled", e>>
      <4>1. (/\ i + 1 \in DOMAIN feed[w] /\ feed[w][i + 1] = <<"requested", e>>
             /\ dispatched[e].status = "cancelled" /\ feedState[w] = "open")
            => \E j \in DOMAIN feed[w] : i + 1 < j /\ feed[w][j] = <<"cancelled", e>>
        <5>1. i + 1 \in Nat
          OBVIOUS
        <5>2. QED
          BY <2>1, <2>3, <5>1 DEF CancelFollowsFor
      <4>2. QED
        BY <3>1, <4>1 DEF q
    <3>3. k - 1 \in 1 .. Len(q) - 1 /\ i < k - 1 /\ Tail(q)[k - 1] = q[k]
      BY <1>2, <3>1, <3>2
    <3>4. QED
      BY <1>2, <1>4, <3>2, <3>3
  <2>4. QED
    BY <2>2, <2>3
<1>10. TasksWereDispatched'
  <2> SUFFICES ASSUME NEW v \in Workers, NEW e \in Dispatches
               PROVE  /\ dispatched'[e].status = "none" =>
                            /\ task'[v][e] = "none"
                            /\ \A i \in DOMAIN feed'[v] : feed'[v][i][2] # e
                      /\ task'[v][e] \in {"executing", "submitting"} =>
                            workerRevision'[v] = dispatched'[e].revision
    BY DEF TasksWereDispatched
  <2>1. dispatched[d].status # "none"
    BY <1>2, <1>3 DEF TasksInv, TasksWereDispatched, q
  <2>2. dispatched[e].status = "none" => \A i \in DOMAIN feed'[v] : feed'[v][i][2] # e
    <3>1. CASE v # w
      BY <1>4, <3>1 DEF TasksInv, TasksWereDispatched
    <3>2. CASE v = w
      <4>1. \A i \in DOMAIN feed'[w] : i + 1 \in DOMAIN q /\ feed'[w][i] = q[i + 1]
        BY <1>2, <1>4
      <4>2. QED
        BY <3>2, <4>1 DEF TasksInv, TasksWereDispatched, q
    <3>3. QED
      BY <3>1, <3>2
  <2>3. CASE e # d \/ v # w
    <3>1. task'[v][e] = task[v][e]
      BY <1>6, <2>3
    <3>2. QED
      BY <1>1, <2>2, <3>1 DEF TasksInv, TasksWereDispatched
  <2>4. CASE e = d /\ v = w
    <3>1. CASE task' = task
      BY <1>1, <2>1, <2>4, <3>1 DEF TasksInv, TasksWereDispatched
    <3>2. ASSUME NEW x \in {"executing", "failing"}, task' = [task EXCEPT ![w][d] = x],
                 x = "executing" => dispatched[d].revision = workerRevision[w]
          PROVE  task'[w][d] \in {"executing", "submitting"} => workerRevision[w] = dispatched[d].revision
      BY <1>1, <1>3, <3>2 DEF TaskTypes
    <3>3. QED
      BY <1>1, <1>5, <2>1, <2>4, <3>1, <3>2
  <2>5. QED
    BY <2>3, <2>4
<1>11. CancelReachesWorker'
  <2> SUFFICES ASSUME NEW v \in Workers, NEW e \in Dispatches,
                      dispatched'[e].status = "cancelled", task'[v][e] = "executing"
               PROVE  Reaches(v, e)'
    BY CancelReachesAgain
  <2>1. CASE v # w
    <3>1. Reaches(v, e)
      BY <1>1, <1>6, <2>1, CancelReaches DEF TasksInv
    <3>2. QED
      BY <1>1, <1>4, <1>6, <2>1, <3>1 DEF Reaches
  <2>2. CASE v = w /\ q[1] = <<"requested", e>>
    <3>1. CASE feedState[w] = "open"
      <4>1. PICK k \in DOMAIN q : 1 < k /\ q[k] = <<"cancelled", e>>
        <5>1. CancelFollowsFor(w, e) /\ task'[w][e] = "executing" /\ dispatched[e].status = "cancelled"
          BY <1>1, <2>2 DEF TasksInv, CancelFollows
        <5>2. 1 \in Nat /\ 1 \in DOMAIN feed[w] /\ feed[w][1] = <<"requested", e>>
          BY <1>2, <2>2 DEF q
        <5>3. QED
          BY <3>1, <5>1, <5>2, Zenon DEF CancelFollowsFor, q
      <4>2. k - 1 \in 1 .. Len(q) - 1 /\ Tail(q)[k - 1] = q[k]
        BY <1>2, <4>1
      <4>3. QED
        BY <1>2, <1>4, <2>2, <4>1, <4>2 DEF Reaches
    <3>2. CASE feedState[w] # "open"
      <4>1. feedState[w] = "ended"
        BY <1>1, <3>2 DEF TasksInv, TaskTypes, StreamsSound
      <4>2. QED
        BY <1>1, <2>2, <4>1 DEF Reaches
    <3>3. QED
      BY <3>1, <3>2
  <2>3. CASE v = w /\ q[1] = <<"cancelled", e>>
    <3>1. d = e /\ q[1][1] = "cancelled"
      BY <2>3
    <3>2. task' = task /\ taskAborted' = [taskAborted EXCEPT ![w] =
                 IF task[w][d] \in {"executing", "submitting"} THEN @ \cup {d} ELSE @]
      BY <1>5, <3>1
    <3>3. e \in taskAborted'[w]
      BY <1>1, <2>3, <3>1, <3>2 DEF TaskTypes
    <3>4. QED
      BY <2>3, <3>3 DEF Reaches
  <2>4. CASE v = w /\ q[1] # <<"requested", e>> /\ q[1] # <<"cancelled", e>>
    <3>1. task'[w][e] = task[w][e]
      <4>1. d # e
        BY <1>3, <2>4 DEF TaskFrames
      <4>2. QED
        BY <1>6, <4>1
    <3>2. Reaches(w, e)
      BY <1>1, <2>4, <3>1, CancelReaches DEF TasksInv
    <3>3. CASE e \in taskAborted[w] \/ feedState[w] = "ended"
      BY <1>1, <1>6, <2>4, <3>3 DEF Reaches
    <3>4. ASSUME NEW k \in 1 .. Len(q), q[k] = <<"cancelled", e>>
          PROVE  Reaches(w, e)'
      <4>1. k # 1
        BY <2>4, <3>4
      <4>2. k - 1 \in 1 .. Len(q) - 1 /\ Tail(q)[k - 1] = q[k]
        BY <1>2, <3>4, <4>1
      <4>3. QED
        BY <1>2, <1>4, <3>4, <4>2 DEF Reaches
    <3>5. QED
      BY <2>4, <3>2, <3>3, <3>4 DEF Reaches, q
  <2>5. QED
    BY <2>1, <2>2, <2>3, <2>4
<1>12. QED
  BY <1>6, <1>7, <1>8, <1>9, <1>10, <1>11 DEF TasksInv, CancelFollows

(* The ends and beginnings of streams.                                     *)
LEMMA StreamSteps ==
    ASSUME TasksInv, NEW w \in Workers,
           ConnectWorker(w) \/ FeedEnds(w) \/ \E rev \in 1 .. 2 : RelaunchWorker(w, rev)
    PROVE  TasksInv'
<1>1. UNCHANGED dispatched
      /\ \A v \in Workers : v # w => /\ feed'[v] = feed[v] /\ feedState'[v] = feedState[v]
                                     /\ loopAt'[v] = loopAt[v] /\ task'[v] = task[v]
                                     /\ taskAborted'[v] = taskAborted[v]
                                     /\ workerRevision'[v] = workerRevision[v]
  BY DEF TasksInv, TaskTypes, ConnectWorker, FeedEnds, RelaunchWorker, LoopFails
<1>2. TaskTypes'
  <2>1. CASE ConnectWorker(w) \/ FeedEnds(w)
    <3>1. UNCHANGED <<dispatched, feed, task, workerRevision, revision>>
      BY <2>1 DEF ConnectWorker, FeedEnds
    <3>2. /\ feedState' \in [Workers -> {"open", "ended", "none"}]
          /\ loopAt' \in [Workers -> {"connect", "reading", "stopped"}]
          /\ taskAborted' \in [Workers -> SUBSET Dispatches]
      <4> USE DEF TasksInv, TaskTypes
      <4>1. CASE FeedEnds(w)
        BY <4>1 DEF FeedEnds, LoopFails
      <4>2. CASE ConnectWorker(w) /\ ~LoopFails(w)
        BY <4>2 DEF ConnectWorker
      <4>3. CASE ConnectWorker(w) /\ LoopFails(w)
        <5>1. feedState' \in [Workers -> {"open", "ended", "none"}]
          BY <4>3 DEF ConnectWorker
        <5>2. QED
          BY <4>3, <5>1 DEF LoopFails
      <4>4. QED
        BY <2>1, <4>1, <4>2, <4>3
    <3>3. QED
      BY <3>1, <3>2 DEF TasksInv, TaskTypes
  <2>2. ASSUME NEW rev \in 1 .. 2, RelaunchWorker(w, rev)
        PROVE  TaskTypes'
    <3>1. << >> \in Seq(TaskFrames)
      OBVIOUS
    <3>2. QED
      BY <2>2, <3>1 DEF RelaunchWorker, TasksInv, TaskTypes
  <2>3. QED
    BY <2>1, <2>2
<1>3. /\ loopAt'[w] = "reading" <=> feedState'[w] # "none"
      /\ feed'[w] = << >>
      /\ (task'[w] = task[w] /\ workerRevision'[w] = workerRevision[w]) \/ \A d \in Dispatches : task'[w][d] = "none"
      /\ feedState'[w] = "none" => \A d \in Dispatches : task'[w][d] = "executing" => d \in taskAborted'[w]
      /\ \A d \in Dispatches : task'[w][d] = "executing" => d \in taskAborted'[w]
  <2>1. CASE ConnectWorker(w)
    <3>1. /\ TaskTypes /\ loopAt[w] = "connect"
          /\ feed' = feed /\ task' = task /\ workerRevision' = workerRevision
      BY <2>1 DEF ConnectWorker, TasksInv
    <3>2. /\ feedState[w] = "none" /\ feed[w] = << >>
          /\ \A d \in Dispatches : task[w][d] = "executing" => d \in taskAborted[w]
      BY <3>1 DEF TasksInv, StreamsSound, GoneAreAborted
    <3>3. /\ taskAborted[w] \subseteq taskAborted'[w]
          /\ loopAt'[w] = "reading" <=> feedState'[w] # "none"
      <4>1. CASE taskAborted' = taskAborted /\ loopAt' = [loopAt EXCEPT ![w] = "reading"]
                                           /\ feedState' = [feedState EXCEPT ![w] = "open"]
        BY <3>1, <4>1 DEF TaskTypes
      <4>2. CASE LoopFails(w) /\ feedState' = feedState
        BY <3>1, <3>2, <4>2 DEF TaskTypes, LoopFails
      <4>3. QED
        BY <2>1, <4>1, <4>2 DEF ConnectWorker
    <3>4. QED
      BY <3>1, <3>2, <3>3
  <2>2. CASE FeedEnds(w)
    BY <2>2 DEF FeedEnds, LoopFails, TasksInv, TaskTypes
  <2>3. ASSUME NEW rev \in 1 .. 2, RelaunchWorker(w, rev)
        PROVE  /\ loopAt'[w] = "connect" /\ feedState'[w] = "none" /\ feed'[w] = << >>
               /\ \A d \in Dispatches : task'[w][d] = "none"
    BY <2>3 DEF RelaunchWorker, TasksInv, TaskTypes
  <2>4. QED
    BY <2>1, <2>2, <2>3
<1>4. StreamsSound' /\ GoneAreAborted'
  BY <1>1, <1>3 DEF TasksInv, StreamsSound, GoneAreAborted
<1>5. ASSUME NEW v \in Workers, NEW e \in Dispatches
      PROVE  CancelFollowsFor(v, e)'
  <2>1. CancelFollowsFor(v, e)
    BY DEF TasksInv, CancelFollows
  <2>2. CASE v # w
    BY <1>1, <2>1, <2>2 DEF CancelFollowsFor
  <2>3. CASE v = w
    BY <1>3, <2>3 DEF CancelFollowsFor
  <2>4. QED
    BY <2>2, <2>3
<1>6. TasksWereDispatched'
  BY <1>1, <1>3 DEF TasksInv, TasksWereDispatched
<1>7. CancelReachesWorker'
  <2> SUFFICES ASSUME NEW v \in Workers, NEW e \in Dispatches,
                      dispatched'[e].status = "cancelled", task'[v][e] = "executing"
               PROVE  Reaches(v, e)'
    BY CancelReachesAgain
  <2>1. CASE v # w
    <3>1. Reaches(v, e)
      BY <1>1, <2>1, CancelReaches DEF TasksInv
    <3>2. QED
      BY <1>1, <2>1, <3>1 DEF Reaches
  <2>2. CASE v = w
    BY <1>3, <2>2 DEF Reaches
  <2>3. QED
    BY <2>1, <2>2
<1>8. QED
  BY <1>2, <1>4, <1>5, <1>6, <1>7 DEF TasksInv, CancelFollows

LEMMA TasksStart == TasksInit => TasksInv
<1> SUFFICES ASSUME TasksInit
             PROVE  TasksInv
  OBVIOUS
<1>1. TaskTypes /\ StreamsSound
  <2>1. << >> \in Seq(TaskFrames)
    OBVIOUS
  <2>2. QED
    BY <2>1 DEF TasksInit, TaskTypes, Statuses, StreamsSound
<1>2. GoneAreAborted /\ TasksWereDispatched /\ CancelFollows
  BY DEF TasksInit, GoneAreAborted, TasksWereDispatched, CancelFollows, CancelFollowsFor
<1>3. CancelReachesWorker
  BY DEF TasksInit, CancelReachesWorker
<1>4. QED
  BY <1>1, <1>2, <1>3 DEF TasksInv

LEMMA TasksStep == TasksInv /\ [TasksNext]_taskVars => TasksInv'
<1> SUFFICES ASSUME TasksInv, [TasksNext]_taskVars
             PROVE  TasksInv'
  OBVIOUS
<1>1. CASE UNCHANGED taskVars
  BY <1>1, MildTaskStep DEF taskVars, feedVars, workerVars, TasksInv, TaskTypes
<1>2. CASE TasksNext
  BY <1>2, MildTaskSteps, PublishSteps, ReadTaskStep, StreamSteps DEF TasksNext
<1>3. QED
  BY <1>1, <1>2

(* TasksInv is an inductive invariant of the transport of memory tasks     *)
(* (memory-tasks.js, memory-worker.js).                                    *)
THEOREM TasksInvInductive == TasksSpec => []TasksInv
<1>1. QED
  BY TasksStart, TasksStep, PTL DEF TasksSpec

(* A worker that executes a task that was cancelled learns of it, however  *)
(* its stream breaks, is replaced or delays what it carries.               *)
THEOREM CancellationsArrive == TasksSpec => []CancelReachesWorker
<1>1. TasksInv => CancelReachesWorker
  BY DEF TasksInv
<1>2. QED
  BY <1>1, TasksInvInductive, PTL

(* A task succeeds only under the runtime it was dispatched for, with what *)
(* a worker of that runtime computed.                                      *)
THEOREM SuccessesAreCurrent == TasksSpec => SuccessUnderFrozenRuntime
<1>1. ASSUME TasksInv, [TasksNext]_taskVars, NEW d \in Dispatches,
             dispatched[d].status # "succeeded", dispatched'[d].status = "succeeded"
      PROVE  /\ dispatched[d].revision = revision
             /\ \E w \in Workers : workerRevision[w] = revision /\ task[w][d] = "submitting"
  <2>1. PICK w \in Workers, e \in Dispatches : SubmitTask(w, e)
    <3> USE DEF TasksInv, TaskTypes
    <3>1. ~UNCHANGED dispatched
      BY <1>1
    <3>2. ~Unsubscribe /\ ~RestartTransport
      <4>1. ~Unsubscribe
        BY <3>1 DEF Unsubscribe
      <4>2. ASSUME RestartTransport
            PROVE  FALSE
        <5>1. dispatched'[d] = IF dispatched[d].status = "pending"
                               THEN [dispatched[d] EXCEPT !.status = "forgotten"] ELSE dispatched[d]
          BY <4>2 DEF RestartTransport
        <5>2. QED
          BY <1>1, <5>1
      <4>3. QED
        BY <4>1, <4>2
    <3>3. ~\E e \in Dispatches : DispatchTask(e) \/ CancelTask(e) \/ TimeOutTask(e)
      <4>1. ASSUME NEW e \in Dispatches, DispatchTask(e) \/ CancelTask(e) \/ TimeOutTask(e)
            PROVE  \E x \in {"pending", "unavailable", "cancelled", "timed_out"} :
                      \/ dispatched' = [dispatched EXCEPT ![e].status = x]
                      \/ dispatched' = [dispatched EXCEPT ![e] = [revision |-> revision, status |-> x]]
        BY <4>1 DEF DispatchTask, CancelTask, TimeOutTask, Settle
      <4>2. ASSUME NEW e \in Dispatches, NEW x \in {"pending", "unavailable", "cancelled", "timed_out"},
                   \/ dispatched' = [dispatched EXCEPT ![e].status = x]
                   \/ dispatched' = [dispatched EXCEPT ![e] = [revision |-> revision, status |-> x]]
            PROVE  dispatched'[d].status # "succeeded"
        <5>1. CASE e # d
          BY <1>1, <4>2, <5>1
        <5>2. CASE dispatched' = [dispatched EXCEPT ![e].status = x] /\ e = d
          BY <1>1, <5>2
        <5>3. CASE dispatched' = [dispatched EXCEPT ![e] = [revision |-> revision, status |-> x]] /\ e = d
          BY <1>1, <5>3
        <5>4. QED
          BY <4>2, <5>1, <5>2, <5>3
      <4>3. QED
        BY <1>1, <4>1, <4>2
    <3>4. ~\E w \in Workers : \/ ReadTaskFrame(w) \/ ReadHeartbeat(w) \/ ConnectWorker(w) \/ FeedEnds(w)
                              \/ CutFeed(w) \/ \E e \in Dispatches : FinishTask(w, e)
                              \/ \E rev \in 1 .. 2 : RelaunchWorker(w, rev)
      BY <3>1 DEF ReadTaskFrame, ReadHeartbeat, ConnectWorker, FeedEnds, CutFeed, FinishTask,
                  RelaunchWorker
    <3>5. QED
      BY <1>1, <3>1, <3>2, <3>3, <3>4 DEF TasksNext, taskVars
  <2>2. PICK end \in {"succeeded", "failed"} :
           /\ (task[w][e] = "submitting" <=> end = "succeeded")
           /\ SubmitResult(e, end)
    <3>1. dispatched' # dispatched
      BY <1>1
    <3>2. QED
      BY <2>1, <3>1 DEF SubmitTask
  <2>3. Accepts(e, end) /\ terminal[e] = "none" /\ dispatched' = [dispatched EXCEPT ![e].status = end]
    BY <1>1, <2>2 DEF SubmitResult, Settle
  <2>4. e = d /\ end = "succeeded" /\ task[w][d] = "submitting"
    BY <1>1, <2>2, <2>3 DEF TasksInv, TaskTypes
  <2>5. dispatched[d].revision = revision
    BY <2>3, <2>4 DEF Accepts
  <2>6. workerRevision[w] = dispatched[d].revision
    BY <1>1, <2>4 DEF TasksInv, TasksWereDispatched
  <2>7. QED
    BY <2>4, <2>5, <2>6
<1>2. TasksInv /\ [TasksNext]_taskVars =>
         \A d \in Dispatches :
            dispatched[d].status # "succeeded" /\ dispatched'[d].status = "succeeded" =>
                /\ dispatched[d].revision = revision
                /\ \E w \in Workers : /\ workerRevision[w] = revision
                                      /\ task[w][d] = "submitting"
  BY <1>1
<1>3. QED
  BY <1>2, TasksInvInductive, PTL DEF TasksSpec, SuccessUnderFrozenRuntime

-----------------------------------------------------------------------------
(* Memory maintenance: what a job and the vault know of each other.        *)

Pages       == [version : Nat, text : Writers \cup {"none"}, archived : BOOLEAN]
JobStatuses == {"none", "queued", "running", "applying", "succeeded", "failed", "cancelled"}
JobErrors   == {"none", "unavailable", "executor_failed", "conflict", "write_failed", "cancelled"}

VaultType ==
    /\ file \in [Slugs -> Pages]
    /\ writes \in Nat /\ disturbed \in BOOLEAN

DigestJobs == [status : JobStatuses, error : JobErrors, catalog : [Slugs -> Nat],
               proposals : Seq(Proposals) \cup {NoProposals}, done : SUBSET Nat,
               facts : [Slugs -> Nat]]

(* The job in memory and in the store agree on all that was decided, and   *)
(* nothing is decided before there are proposals.                          *)
DigestType ==
    /\ digest \in DigestJobs /\ digestSaved \in DigestJobs
    /\ digestAt \in {"idle", "execute", "preflight", "apply", "record"}
    /\ digestAt # "idle" => digest.status \in {"running", "applying"}
    /\ digestAt \notin {"idle", "execute"} => digest.proposals # NoProposals
    /\ digest.status = "none" => digest = NoDigest /\ digestSaved = NoDigest
    /\ digestSaved.status = "none" => digestSaved = NoDigest
    /\ digest.status \in DigestActive => digest.error = "none"
    /\ digestSaved.status \in DigestActive => digestSaved.error = "none"

DigestSavedInv ==
    /\ digestSaved.proposals = digest.proposals
    /\ digest.proposals # NoProposals =>
          /\ digestSaved.catalog = digest.catalog
          /\ digestSaved.done = digest.done
          /\ digestSaved.facts = digest.facts
          /\ \A i, j \in 1 .. Len(digest.proposals) :
                digest.proposals[i].slug = digest.proposals[j].slug => i = j

(* While nobody else writes, the executor knows the vault as it is.        *)
ExecutorKnows ==
    ~disturbed /\ digest.proposals = NoProposals =>
        \A s \in Slugs :
            /\ {digest.facts[s], digestSaved.facts[s]} \subseteq {0, file[s].version}
            /\ digestAt = "execute" => digest.catalog[s] = file[s].version

(* A proposal finds what the executor knew, or what it wants, or it is the *)
(* creation of what was not there.                                         *)
Applicable(p) ==
    \/ StateMatches(p)
    \/ p.action = "create" /\ (digest.catalog[p.slug] # 0 \/ ~Exists(p.slug))
    \/ p.action # "create" /\ file[p.slug].version = KnownVersion(p.slug)

PendingApplicable ==
    ~disturbed /\ digest.proposals # NoProposals =>
        \A i \in Pending : Applicable(digest.proposals[i])

Foreign ==
    /\ digest.proposals # NoProposals
    /\ \/ disturbed
       \/ \E i \in Pending : /\ digest.proposals[i].action = "create"
                             /\ digest.catalog[digest.proposals[i].slug] # 0

DigestInv ==
    /\ DigestType /\ DigestSavedInv /\ ExecutorKnows /\ PendingApplicable
    /\ "conflict" \in {digest.error, digestSaved.error} => Foreign

DreamJobs == [status : JobStatuses, error : JobErrors, unavailable : BOOLEAN,
              snapshot : [Slugs -> Pages],
              plan : Seq(Ops) \cup {NoPlan},
              receipts : SUBSET Nat]

DreamType ==
    /\ dream \in DreamJobs /\ dreamSaved \in DreamJobs
    /\ applied \in Seq([index : Nat, before : Pages])
    /\ rolling \in Nat
    /\ {halfUndone, restarted} \subseteq BOOLEAN
    /\ dreamAt \in {"idle", "execute", "check", "batch", "finalize"}
    /\ dreamAt # "idle" => dream.status \in {"running", "applying"}
    /\ dreamAt \notin {"idle", "execute"} => dream.plan # NoPlan

(* The stored job is the one in memory, with fewer receipts.               *)
DreamSavedInv ==
    /\ dreamSaved.plan = dream.plan
    /\ dreamSaved.snapshot = dream.snapshot
    /\ dreamSaved.receipts \subseteq dream.receipts
    /\ dream.status = "none" => dream.plan = NoPlan
    /\ dreamSaved.status = "none" <=> dream.status = "none"

Covered(job) == job.plan # NoPlan /\ 1 .. Len(job.plan) \subseteq job.receipts

PlanSound ==
    /\ dream.plan = NoPlan => dream.receipts = {}
    /\ dream.plan # NoPlan =>
          /\ dream.receipts \subseteq 1 .. Len(dream.plan)
          /\ \A i \in 1 .. Len(dream.plan) :
                LET op == dream.plan[i] IN
                /\ dream.snapshot[op.slug].version # 0
                /\ op.kind = "merge" => ~dream.snapshot[op.slug].archived
          /\ \A i, j \in 1 .. Len(dream.plan) :
                dream.plan[i].slug = dream.plan[j].slug => i = j
    /\ dreamAt = "finalize" \/ dream.status = "succeeded" => Covered(dream)
    /\ dreamSaved.status = "succeeded" => Covered(dreamSaved)

(* A version names one state of a memory.                                  *)
VersionsName ==
    \A s \in Slugs :
        /\ file[s].version <= writes /\ dream.snapshot[s].version <= writes
        /\ dream.snapshot[s].text # "dream"
        /\ dream.snapshot[s].version # 0 /\ file[s].version = dream.snapshot[s].version =>
              file[s] = dream.snapshot[s]

(* While nobody else writes, a memory is as it was frozen or as an         *)
(* operation of the plan wants it.                                         *)
OnlyTheDream ==
    ~disturbed =>
        /\ dream.plan = NoPlan /\ dream.status # "none" =>
              \A s \in Slugs : dream.snapshot[s].version # 0 => file[s] = dream.snapshot[s]
        /\ dream.plan # NoPlan =>
              \A i \in 1 .. Len(dream.plan) : Reached(dream.plan[i]) \/ Unchanged(i)

(* A receipt is that of an operation carried out, but for those a          *)
(* roll-back has just taken back.                                          *)
Undone(i) == rolling # 0 /\ \E k \in rolling .. Len(applied) : applied[k].index = i

ReceiptsTrue ==
    ~halfUndone =>
        \A i \in dream.receipts : Reached(dream.plan[i]) \/ ~Unchanged(i) \/ Undone(i)

BatchSound ==
    /\ rolling # 0 => dreamAt = "batch"
    /\ dreamAt = "batch" =>
          /\ held
          /\ dream.status = "applying"
          /\ rolling <= Len(applied) + 1
          /\ \A k \in 1 .. Len(applied) :
                /\ applied[k].index \in 1 .. Len(dream.plan)
                /\ applied[k].before = dream.snapshot[dream.plan[applied[k].index].slug]
          /\ rolling = 0 => \A i \in Unreceipted : Unchanged(i)

(* What a Dream has written and not taken back is in the batch, until the  *)
(* batch is committed.                                                     *)
InBatch(s) ==
    /\ dreamAt = "batch"
    /\ \E k \in 1 .. Len(applied) : /\ rolling = 0 \/ k < rolling
                                    /\ dream.plan[applied[k].index].slug = s

WrittenInBatch ==
    (~restarted /\ ~halfUndone) \/ dream.status = "none" =>
        \A s \in Slugs : file[s].text = "dream" =>
            dreamAt = "finalize" \/ dream.status = "succeeded" \/ InBatch(s)

DreamInv ==
    /\ DreamType /\ DreamSavedInv /\ PlanSound /\ VersionsName /\ OnlyTheDream
    /\ ReceiptsTrue /\ BatchSound /\ WrittenInBatch
    /\ "conflict" \in {dream.error, dreamSaved.error} => disturbed

(* No digest writes beside a Dream that is followed.                       *)
NotDigested == \A s \in Slugs : "digest" \notin {file[s].text, dream.snapshot[s].text}

MaintenanceInv ==
    /\ VaultType
    /\ \/ /\ kind = "digest"
          /\ dream = NoDream /\ dreamSaved = NoDream /\ dreamAt = "idle" /\ rolling = 0
          /\ DigestInv
       \/ /\ kind = "dream"
          /\ digest = NoDigest /\ digestSaved = NoDigest /\ digestAt = "idle"
          /\ DreamInv /\ NotDigested

LEMMA WriteFacts ==
    ASSUME VaultType, NEW s \in Slugs, NEW text \in Writers \cup {"none"},
           NEW archived \in BOOLEAN, Write(s, text, archived)
    PROVE  /\ writes' = writes + 1 /\ file' \in [Slugs -> Pages]
           /\ file'[s] = Page(writes + 1, text, archived)
           /\ \A q \in Slugs \ {s} : file'[q] = file[q]
  BY DEF VaultType, Write, Page, Pages

LEMMA EditFacts ==
    ASSUME VaultType, NEW s \in Slugs, EditFile(s)
    PROVE  /\ VaultType' /\ disturbed' = TRUE
           /\ UNCHANGED <<marker, held>>
           /\ writes <= writes' /\ writes' <= writes + 1
           /\ file'[s].version \in {0, writes + 1}
           /\ file'[s].text = "dream" => file[s].text = "dream"
           /\ file'[s].text \in {"none", "owner", file[s].text}
           /\ \A q \in Slugs \ {s} : file'[q] = file[q]
<1>1. file[s] \in Pages /\ writes \in Nat  BY DEF VaultType
<1>2. CASE Write(s, "owner", file[s].archived)
  <2>1. "owner" \in Writers \cup {"none"} /\ file[s].archived \in BOOLEAN  BY <1>1 DEF Writers, Pages
  <2>2. /\ writes' = writes + 1 /\ file' \in [Slugs -> Pages]
        /\ file'[s] = Page(writes + 1, "owner", file[s].archived)
        /\ \A q \in Slugs \ {s} : file'[q] = file[q]
        BY <1>2, <2>1, WriteFacts
  <2>3. file'[s].version = writes + 1 /\ file'[s].text = "owner"  BY <2>2 DEF Page
  <2> QED  BY <1>1, <2>2, <2>3 DEF EditFile, VaultType
<1>3. CASE Write(s, file[s].text, ~file[s].archived)
  <2>1. file[s].text \in Writers \cup {"none"} /\ (~file[s].archived) \in BOOLEAN  BY <1>1 DEF Pages
  <2>2. /\ writes' = writes + 1 /\ file' \in [Slugs -> Pages]
        /\ file'[s] = Page(writes + 1, file[s].text, ~file[s].archived)
        /\ \A q \in Slugs \ {s} : file'[q] = file[q]
        BY <1>3, <2>1, WriteFacts
  <2>3. file'[s].version = writes + 1 /\ file'[s].text = file[s].text  BY <2>2 DEF Page
  <2> QED  BY <1>1, <2>2, <2>3 DEF EditFile, VaultType
<1>4. CASE Exists(s) /\ file' = [file EXCEPT ![s] = Absent] /\ UNCHANGED writes
  <2>1. Absent \in Pages  BY DEF Absent, Pages
  <2> QED  BY <1>1, <1>4, <2>1 DEF EditFile, VaultType, Absent
<1> QED  BY <1>2, <1>3, <1>4 DEF EditFile

-----------------------------------------------------------------------------
(* Digests *)

LEMMA NoDigestType == NoDigest \in DigestJobs /\ NoDigest.error = "none"
                      /\ NoDigest.status = "none" /\ NoDigest.proposals = NoProposals
<1>1. [s \in Slugs |-> 0] \in [Slugs -> Nat]  OBVIOUS
<1>2. "none" \in JobErrors /\ "none" \in JobStatuses /\ {} \in SUBSET Nat  BY DEF JobStatuses, JobErrors
<1> QED  BY <1>1, <1>2 DEF NoDigest, DigestJobs

(* A step that writes nothing and leaves what was decided as it was.       *)
LEMMA DigestMild ==
    ASSUME DigestInv, VaultType, file' = file, disturbed' = disturbed,
           DigestType', DigestSavedInv',
           digest'.proposals = digest.proposals, digest'.done = digest.done,
           digest'.facts = digest.facts, digestSaved' = digestSaved,
           digest'.catalog = digest.catalog,
           digestAt' = "execute" => digestAt = "execute",
           digest'.error = "conflict" => digest.error = "conflict" \/ Foreign
    PROVE  DigestInv'
<1>1. Pending' = Pending  BY DEF Pending
<1>2. ExecutorKnows'  BY DEF DigestInv, ExecutorKnows
<1>3. PendingApplicable'
      BY <1>1 DEF DigestInv, PendingApplicable, Applicable, StateMatches, KnownVersion, Exists
<1>4. Foreign => Foreign'  BY <1>1 DEF Foreign
<1> QED  BY <1>2, <1>3, <1>4 DEF DigestInv

LEMMA DigestEdited ==
    ASSUME DigestInv, VaultType, NEW s \in Slugs, EditFile(s), UNCHANGED digestVars
    PROVE  DigestInv'
<1>1. disturbed' = TRUE  BY DEF EditFile
<1>2. DigestType' /\ DigestSavedInv'
      BY DEF DigestInv, DigestType, DigestSavedInv, digestVars
<1>3. ExecutorKnows' /\ PendingApplicable'  BY <1>1 DEF ExecutorKnows, PendingApplicable
<1>4. Foreign => Foreign'  BY <1>1 DEF Foreign, digestVars
<1> QED  BY <1>2, <1>3, <1>4 DEF DigestInv, digestVars

LEMMA DigestEnqueued ==
    ASSUME DigestInv, VaultType, EnqueueDigest
    PROVE  DigestInv'
<1>1. digest = NoDigest /\ digestSaved = NoDigest  BY DEF EnqueueDigest, DigestInv, DigestType
<1>2. PICK facts \in [Slugs -> {0, 1}] :
          digest' = [NoDigest EXCEPT !.facts = facts, !.status = "queued", !.error = "none"]
      BY <1>1 DEF EnqueueDigest, Queued
<1>3. /\ digest' \in DigestJobs /\ digest'.status = "queued" /\ digest'.error = "none"
      /\ digest'.proposals = NoProposals /\ digest'.facts = facts
  <2>1. facts \in [Slugs -> Nat]  OBVIOUS
  <2>2. "queued" \in JobStatuses /\ "none" \in JobErrors  BY DEF JobStatuses, JobErrors
  <2> QED  BY <1>2, <2>1, <2>2, NoDigestType DEF DigestJobs
<1>4. digestSaved' \in {digest', NoDigest} /\ digestAt = "idle" /\ digestAt' = "idle"
      BY <1>1, NoDigestType DEF EnqueueDigest, DigestInv, DigestType
<1>5. DigestType' /\ DigestSavedInv'
      BY <1>3, <1>4, NoDigestType DEF DigestType, DigestSavedInv
<1>6. ExecutorKnows'
  <2> SUFFICES ASSUME ~disturbed', NEW s \in Slugs
               PROVE  {digest'.facts[s], digestSaved'.facts[s]} \subseteq {0, file'[s].version}
    BY <1>4 DEF ExecutorKnows
  <2>1. digest'.facts[s] \in {0, file'[s].version}  BY DEF EnqueueDigest
  <2>2. NoDigest.facts[s] = 0  BY DEF NoDigest
  <2> QED  BY <1>4, <2>1, <2>2
<1>7. PendingApplicable'  BY <1>3 DEF PendingApplicable
<1> QED  BY <1>3, <1>4, <1>5, <1>6, <1>7, NoDigestType DEF DigestInv

(* A job that fails, succeeds, waits or is cancelled decides nothing.      *)
LEMMA DigestMoved ==
    ASSUME DigestInv, VaultType, file' = file, disturbed' = disturbed,
           NEW status \in JobStatuses, NEW error \in JobErrors,
           digest' = [digest EXCEPT !.status = status, !.error = error],
           digest.status # "none", status # "none",
           digestSaved' = digestSaved,
           digestAt' \in {"idle", "execute", "preflight", "apply", "record"},
           digestAt' # "idle" => status \in {"running", "applying"},
           digestAt' \notin {"idle", "execute"} => digest.proposals # NoProposals,
           digestAt' = "execute" => digestAt = "execute",
           status \in DigestActive => error = "none",
           error = "conflict" => digest.error = "conflict" \/ Foreign
    PROVE  DigestInv'
<1>1. /\ digest' \in DigestJobs /\ digest'.status = status /\ digest'.error = error
      /\ digest'.proposals = digest.proposals /\ digest'.done = digest.done
      /\ digest'.facts = digest.facts /\ digest'.catalog = digest.catalog
      BY DEF DigestInv, DigestType, DigestJobs
<1>2. DigestType'  BY <1>1 DEF DigestInv, DigestType
<1>3. DigestSavedInv'  BY <1>1 DEF DigestInv, DigestSavedInv
<1> QED  BY <1>1, <1>2, <1>3, DigestMild

LEMMA DigestFails ==
    ASSUME DigestInv, VaultType, file' = file, disturbed' = disturbed,
           NEW code \in JobErrors, FailDigest(code), digestSaved' = digestSaved,
           digest.status # "none", code = "conflict" => Foreign
    PROVE  DigestInv'
<1>1. PICK status \in {"cancelled", "failed"}, error \in {"cancelled", code} :
          digest' = [digest EXCEPT !.status = status, !.error = error]
      BY DEF FailDigest
<1>2. status \in JobStatuses /\ error \in JobErrors /\ status \notin DigestActive
      BY DEF JobStatuses, JobErrors, DigestActive
<1>3. digestAt' = "idle"  BY DEF FailDigest
<1> QED  BY <1>1, <1>2, <1>3, DigestMoved

LEMMA RunDigestKeeps ==
    ASSUME DigestInv, VaultType, NEW valid \in BOOLEAN, RunDigest(valid)
    PROVE  DigestInv'
<1>1. file' = file /\ disturbed' = disturbed /\ digestSaved' = digestSaved
      /\ digest.status = "queued" /\ digestAt = "idle"
      BY DEF RunDigest, vaultVars
<1>2. CASE ~(valid /\ Readable)
  <2>1. FailDigest("unavailable")  BY <1>2 DEF RunDigest
  <2>2. "unavailable" \in JobErrors  BY DEF JobErrors
  <2> QED  BY <1>1, <2>1, <2>2, DigestFails
<1>3. CASE valid /\ Readable
  <2>1. /\ digest' = [digest EXCEPT !.status = "running",
                                    !.catalog = IF digest.proposals = NoProposals
                                                THEN Catalog ELSE digest.catalog]
        /\ digestAt' = "execute"
        BY <1>3 DEF RunDigest
  <2>2. digest \in DigestJobs /\ digest.error = "none"
        BY <1>1 DEF DigestInv, DigestType, DigestActive
  <2>3. Catalog \in [Slugs -> Nat]  BY DEF Catalog, VaultType, Pages
  <2>4. "running" \in JobStatuses  BY DEF JobStatuses
  <2>5. CASE digest.proposals = NoProposals
    <3>1. /\ digest' \in DigestJobs /\ digest'.status = "running" /\ digest'.error = "none"
          /\ digest'.catalog = Catalog /\ digest'.proposals = NoProposals
          /\ digest'.facts = digest.facts
          BY <2>1, <2>2, <2>3, <2>4, <2>5 DEF DigestJobs
    <3>2. DigestType'  BY <1>1, <2>1, <3>1 DEF DigestInv, DigestType
    <3>3. DigestSavedInv'  BY <1>1, <2>5, <3>1 DEF DigestInv, DigestSavedInv
    <3>4. ExecutorKnows'
          BY <1>1, <2>1, <2>5, <3>1 DEF DigestInv, ExecutorKnows, Catalog
    <3>5. PendingApplicable'  BY <3>1 DEF PendingApplicable
    <3>6. ~Foreign  BY <2>5 DEF Foreign
    <3> QED  BY <1>1, <3>1, <3>2, <3>3, <3>4, <3>5, <3>6 DEF DigestInv
  <2>6. CASE digest.proposals # NoProposals
    <3>1. /\ digest' \in DigestJobs /\ digest'.status = "running" /\ digest'.error = "none"
          /\ digest'.catalog = digest.catalog /\ digest'.proposals = digest.proposals
          /\ digest'.facts = digest.facts /\ digest'.done = digest.done
          BY <2>1, <2>2, <2>4, <2>6 DEF DigestJobs
    <3>2. DigestType'  BY <1>1, <2>1, <3>1 DEF DigestInv, DigestType
    <3>3. DigestSavedInv'  BY <1>1, <3>1 DEF DigestInv, DigestSavedInv
    <3>4. Pending' = Pending  BY <3>1 DEF Pending
    <3>5. ExecutorKnows'  BY <2>6, <3>1 DEF ExecutorKnows
    <3>6. PendingApplicable'
          BY <1>1, <3>1, <3>4
          DEF DigestInv, PendingApplicable, Applicable, StateMatches, KnownVersion, Exists
    <3>7. Foreign => Foreign'  BY <1>1, <3>1, <3>4 DEF Foreign
    <3> QED  BY <1>1, <3>1, <3>2, <3>3, <3>5, <3>6, <3>7 DEF DigestInv
  <2> QED  BY <2>5, <2>6
<1> QED  BY <1>2, <1>3

LEMMA ListFacts ==
    ASSUME NEW ps \in ProposalLists
    PROVE  /\ ps \in Seq(Proposals)
           /\ \A i, j \in 1 .. Len(ps) : ps[i].slug = ps[j].slug => i = j
<1>1. PICK n \in 0 .. MaxProposals : ps \in [1 .. n -> Proposals]  BY DEF ProposalLists
<1>2. ps \in Seq(Proposals)
  <2>1. n \in Nat  OBVIOUS
  <2> QED  BY <1>1, <2>1
<1> QED  BY <1>2 DEF ProposalLists

LEMMA DigestAnsweredKeeps ==
    ASSUME DigestInv, VaultType, DigestAnswered
    PROVE  DigestInv'
<1>1. file' = file /\ disturbed' = disturbed /\ digestAt = "execute"
      BY DEF DigestAnswered, vaultVars
<1>2. digest \in DigestJobs /\ digest.status \in {"running", "applying"} /\ digest.error = "none"
      BY <1>1 DEF DigestInv, DigestType, DigestActive
<1>3. CASE FailDigest("executor_failed") /\ UNCHANGED digestSaved
  <2>1. "executor_failed" \in JobErrors  BY DEF JobErrors
  <2> QED  BY <1>1, <1>2, <1>3, <2>1, DigestFails
<1>4. ASSUME NEW ps \in IF digest.proposals = NoProposals THEN ProposalLists
                        ELSE {digest.proposals},
             digest' = [digest EXCEPT !.proposals = ps],
             digestSaved' = digest', digestAt' = "preflight"
      PROVE  DigestInv'
  <2>1. /\ ps \in Seq(Proposals)
        /\ \A i, j \in 1 .. Len(ps) : ps[i].slug = ps[j].slug => i = j
    <3>1. CASE digest.proposals = NoProposals  BY <1>4, <3>1, ListFacts
    <3>2. CASE digest.proposals # NoProposals
          BY <1>2, <1>4, <3>2 DEF DigestJobs, DigestInv, DigestSavedInv
    <3> QED  BY <3>1, <3>2
  <2>2. ps # NoProposals  BY <2>1, NoProposalsAssumption
  <2>3. /\ digest' \in DigestJobs /\ digest'.proposals = ps /\ digest'.done = digest.done
        /\ digest'.facts = digest.facts /\ digest'.catalog = digest.catalog
        /\ digest'.status = digest.status /\ digest'.error = "none"
        BY <1>2, <1>4, <2>1 DEF DigestJobs
  <2>4. DigestType'  BY <1>2, <1>4, <2>2, <2>3 DEF DigestInv, DigestType
  <2>5. DigestSavedInv'  BY <1>4, <2>1, <2>3 DEF DigestSavedInv
  <2>6. ExecutorKnows'  BY <2>2, <2>3 DEF ExecutorKnows
  <2>7. PendingApplicable'
    <3> SUFFICES ASSUME ~disturbed, NEW i \in 1 .. Len(ps), i \notin digest.done
                 PROVE  Applicable(ps[i])'
      BY <1>1, <2>2, <2>3 DEF PendingApplicable, Pending
    <3>1. CASE digest.proposals = NoProposals
      <4>1. ps[i] \in Proposals  BY <2>1, ElementOfSeq
      <4>2. ps[i].slug \in Slugs  BY <4>1 DEF Proposals
      <4>3. /\ digest.facts[ps[i].slug] \in {0, file[ps[i].slug].version}
            /\ digest.catalog[ps[i].slug] = file[ps[i].slug].version
            BY <1>1, <3>1, <4>2 DEF DigestInv, ExecutorKnows
      <4> QED  BY <1>1, <2>3, <4>3 DEF Applicable, KnownVersion, Exists
    <3>2. CASE digest.proposals # NoProposals
      <4>1. ps = digest.proposals  BY <1>4, <3>2
      <4>2. Applicable(ps[i])  BY <3>2, <4>1 DEF DigestInv, PendingApplicable, Pending
      <4> QED  BY <1>1, <2>3, <4>2 DEF Applicable, StateMatches, KnownVersion, Exists
    <3> QED  BY <3>1, <3>2
  <2> QED  BY <1>4, <2>3, <2>4, <2>5, <2>6, <2>7 DEF DigestInv
<1> QED  BY <1>3, <1>4 DEF DigestAnswered

LEMMA PendingFacts ==
    ASSUME DigestInv, digest.proposals # NoProposals, NEW i \in Pending
    PROVE  /\ digest.proposals \in Seq(Proposals) /\ i \in 1 .. Len(digest.proposals)
           /\ digest.proposals[i].slug \in Slugs
           /\ digest.proposals[i] \in Proposals
<1>1. digest.proposals \in Seq(Proposals)  BY DEF DigestInv, DigestType, DigestJobs
<1>2. i \in 1 .. Len(digest.proposals)  BY DEF Pending
<1>3. digest.proposals[i] \in Proposals  BY <1>1, <1>2, ElementOfSeq
<1> QED  BY <1>1, <1>2, <1>3 DEF Proposals

(* A proposal meets a conflict only with a write of somebody else.         *)
LEMMA ConflictsAreForeign ==
    ASSUME DigestInv, digest.proposals # NoProposals, NEW i \in Pending,
           ~StateMatches(digest.proposals[i]), Exists(digest.proposals[i].slug),
           Stale(digest.proposals[i]) \/ digest.proposals[i].action = "create"
    PROVE  Foreign
<1>1. CASE disturbed  BY <1>1 DEF Foreign
<1>2. CASE ~disturbed
  <2>1. Applicable(digest.proposals[i])  BY <1>2 DEF DigestInv, PendingApplicable
  <2> QED  BY <2>1 DEF Applicable, Stale, Foreign
<1> QED  BY <1>1, <1>2

LEMMA PreflightKeeps ==
    ASSUME DigestInv, VaultType, Preflight
    PROVE  DigestInv'
<1>1. /\ file' = file /\ disturbed' = disturbed /\ digestAt = "preflight"
      /\ digestSaved' = digestSaved
      BY DEF Preflight, vaultVars
<1>2. /\ digest \in DigestJobs /\ digest.status \in {"running", "applying"}
      /\ digest.error = "none" /\ digest.proposals # NoProposals
      BY <1>1 DEF DigestInv, DigestType, DigestActive
<1>3. CASE \A i \in Pending : Refusal(digest.proposals[i]) = "none"
  <2>1. digest' = [digest EXCEPT !.status = "applying", !.error = "none"] /\ digestAt' = "apply"
        BY <1>2, <1>3 DEF Preflight, DigestJobs
  <2>2. "applying" \in JobStatuses /\ "none" \in JobErrors  BY DEF JobStatuses, JobErrors
  <2> QED  BY <1>1, <1>2, <2>1, <2>2, DigestMoved
<1>4. ASSUME NEW i \in Pending, Refusal(digest.proposals[i]) # "none",
             FailDigest(Refusal(digest.proposals[i]))
      PROVE  DigestInv'
  <2> DEFINE p == digest.proposals[i]
  <2>1. CASE ~StateMatches(p) /\ Missing(p)
    <3>1. Refusal(p) = "write_failed"  BY <2>1 DEF Refusal, Missing
    <3>2. "write_failed" \in JobErrors  BY DEF JobErrors
    <3> QED  BY <1>1, <1>2, <1>4, <3>1, <3>2, DigestFails
  <2>2. CASE ~StateMatches(p) /\ Exists(p.slug) /\ (Stale(p) \/ p.action = "create")
    <3>1. Refusal(p) = "conflict"  BY <2>2 DEF Refusal, Missing
    <3>2. "conflict" \in JobErrors  BY DEF JobErrors
    <3>3. Foreign  BY <1>2, <2>2, ConflictsAreForeign
    <3> QED  BY <1>1, <1>2, <1>4, <3>1, <3>2, <3>3, DigestFails
  <2>3. CASE /\ StateMatches(p) \/ ~Missing(p)
             /\ StateMatches(p) \/ ~(Exists(p.slug) /\ (Stale(p) \/ p.action = "create"))
    <3>1. Refusal(p) = "none"  BY <2>3 DEF Refusal
    <3> QED  BY <1>4, <3>1
  <2> QED  BY <2>1, <2>2, <2>3
<1> QED  BY <1>3, <1>4 DEF Preflight

(* The write of a proposal is what the proposal wants.                     *)
LEMMA ProposalWritten ==
    ASSUME DigestInv, VaultType, digest.proposals # NoProposals, NEW i \in Pending,
           NEW text \in Writers \cup {"none"}, NEW archived \in BOOLEAN,
           Write(digest.proposals[i].slug, text, archived),
           IF digest.proposals[i].action = "archive" THEN archived = TRUE ELSE text = "digest",
           disturbed' = disturbed, digestSaved' = digestSaved,
           digest'.proposals = digest.proposals, digest'.done = digest.done,
           digest'.facts = digest.facts, digest'.catalog = digest.catalog,
           digest'.error # "conflict", DigestType', DigestSavedInv'
    PROVE  DigestInv'
<1> DEFINE s == digest.proposals[i].slug
<1>1. s \in Slugs /\ i \in 1 .. Len(digest.proposals)  BY PendingFacts
<1>2. /\ file'[s] = Page(writes + 1, text, archived)
      /\ \A q \in Slugs \ {s} : file'[q] = file[q]
      BY <1>1, WriteFacts
<1>3. file'[s].version = writes + 1 /\ file'[s].version # 0 /\ file'[s].text = text
      /\ file'[s].archived = archived
      BY <1>2 DEF Page, VaultType
<1>4. Pending' = Pending  BY DEF Pending
<1>5. ExecutorKnows'  BY DEF ExecutorKnows
<1>6. PendingApplicable'
  <2> SUFFICES ASSUME ~disturbed, NEW j \in Pending
               PROVE  Applicable(digest.proposals[j])'
    BY <1>4 DEF PendingApplicable
  <2>1. digest.proposals[j].slug \in Slugs /\ j \in 1 .. Len(digest.proposals)
        BY PendingFacts
  <2>2. CASE j = i  BY <1>3, <2>2 DEF Applicable, StateMatches, Exists
  <2>3. CASE j # i
    <3>1. digest.proposals[j].slug # s  BY <1>1, <2>1, <2>3 DEF DigestInv, DigestSavedInv
    <3>2. file'[digest.proposals[j].slug] = file[digest.proposals[j].slug]  BY <1>2, <2>1, <3>1
    <3>3. Applicable(digest.proposals[j])  BY DEF DigestInv, PendingApplicable
    <3> QED  BY <3>2, <3>3 DEF Applicable, StateMatches, Exists, KnownVersion
  <2> QED  BY <2>2, <2>3
<1>7. Foreign => Foreign'  BY <1>4 DEF Foreign
<1> QED  BY <1>5, <1>6, <1>7 DEF DigestInv

LEMMA ApplyProposalKeeps ==
    ASSUME DigestInv, VaultType, NEW i \in 1 .. MaxProposals, ApplyProposal(i)
    PROVE  DigestInv'
<1> DEFINE p == digest.proposals[i]
           s == p.slug
<1>1. /\ digestAt = "apply" /\ i \in Pending /\ disturbed' = disturbed
      /\ digestSaved' = digestSaved
      BY DEF ApplyProposal
<1>2. /\ digest \in DigestJobs /\ digest.status \in {"running", "applying"}
      /\ digest.error = "none" /\ digest.proposals # NoProposals
      BY <1>1 DEF DigestInv, DigestType, DigestActive
<1>3. s \in Slugs /\ p \in Proposals  BY <1>1, <1>2, PendingFacts
<1>4. CASE /\ StateMatches(p) /\ digestAt' = "record"
           /\ UNCHANGED <<digest, digestAborted, file, writes>>
  <2>1. DigestType'  BY <1>1, <1>2, <1>4 DEF DigestInv, DigestType
  <2>2. DigestSavedInv'  BY <1>1, <1>4 DEF DigestInv, DigestSavedInv
  <2> QED  BY <1>1, <1>4, <2>1, <2>2, DigestMild
<1>5. CASE /\ ~StateMatches(p)
           /\ FailDigest(IF Stale(p) /\ ~Missing(p) THEN "conflict" ELSE "write_failed")
           /\ UNCHANGED <<file, writes>>
  <2>1. "conflict" \in JobErrors /\ "write_failed" \in JobErrors  BY DEF JobErrors
  <2>2. CASE Stale(p) /\ ~Missing(p)
    <3>1. Exists(s)  BY <2>2 DEF Stale, Missing
    <3>2. Foreign  BY <1>1, <1>2, <1>5, <2>2, <3>1, ConflictsAreForeign
    <3> QED  BY <1>1, <1>2, <1>5, <2>1, <2>2, <3>2, DigestFails
  <2>3. CASE ~(Stale(p) /\ ~Missing(p))
    <3>1. FailDigest("write_failed")  BY <1>5, <2>3
    <3> QED  BY <1>1, <1>2, <1>5, <2>1, <3>1, DigestFails
  <2> QED  BY <2>2, <2>3
<1>6. ASSUME IF p.action = "archive" THEN Write(s, file[s].text, TRUE)
             ELSE Write(s, "digest", file[s].archived),
             IF Readable THEN digestAt' = "record" /\ UNCHANGED <<digest, digestAborted>>
             ELSE FailDigest("unavailable")
      PROVE  DigestInv'
  <2>1. /\ digest'.proposals = digest.proposals /\ digest'.done = digest.done
        /\ digest'.facts = digest.facts /\ digest'.catalog = digest.catalog
        /\ digest'.error # "conflict" /\ DigestType' /\ DigestSavedInv'
    <3>1. CASE Readable
      <4>1. digest' = digest /\ digestAt' = "record"  BY <1>6, <3>1
      <4>2. DigestType'  BY <1>1, <1>2, <4>1 DEF DigestInv, DigestType
      <4>3. DigestSavedInv'  BY <1>1, <4>1 DEF DigestInv, DigestSavedInv
      <4> QED  BY <1>2, <4>1, <4>2, <4>3
    <3>2. CASE ~Readable
      <4>1. PICK status \in {"cancelled", "failed"}, error \in {"cancelled", "unavailable"} :
                digest' = [digest EXCEPT !.status = status, !.error = error]
            BY <1>6, <3>2 DEF FailDigest
      <4>2. status \in JobStatuses /\ error \in JobErrors /\ status \notin DigestActive
            BY DEF JobStatuses, JobErrors, DigestActive
      <4>3. digestAt' = "idle"  BY <1>6, <3>2 DEF FailDigest
      <4>4. /\ digest' \in DigestJobs /\ digest'.status = status /\ digest'.error = error
            /\ digest'.proposals = digest.proposals /\ digest'.done = digest.done
            /\ digest'.facts = digest.facts /\ digest'.catalog = digest.catalog
            BY <1>2, <4>1, <4>2 DEF DigestJobs
      <4>5. DigestType'  BY <1>1, <1>2, <4>2, <4>3, <4>4 DEF DigestInv, DigestType
      <4>6. DigestSavedInv'  BY <1>1, <4>4 DEF DigestInv, DigestSavedInv
      <4> QED  BY <4>4, <4>5, <4>6
    <3> QED  BY <3>1, <3>2
  <2>2. file[s].text \in Writers \cup {"none"} /\ file[s].archived \in BOOLEAN
        BY <1>3 DEF VaultType, Pages
  <2>3. "digest" \in Writers \cup {"none"} /\ TRUE \in BOOLEAN  BY DEF Writers
  <2>4. CASE p.action = "archive"
        BY <1>1, <1>2, <1>6, <2>1, <2>2, <2>3, <2>4, ProposalWritten
  <2>5. CASE p.action # "archive"
        BY <1>1, <1>2, <1>6, <2>1, <2>2, <2>3, <2>5, ProposalWritten
  <2> QED  BY <2>4, <2>5
<1> QED  BY <1>4, <1>5, <1>6 DEF ApplyProposal

LEMMA RecordProposalKeeps ==
    ASSUME DigestInv, VaultType, NEW i \in 1 .. MaxProposals, RecordProposal(i)
    PROVE  DigestInv'
<1> DEFINE s == digest.proposals[i].slug
           fact == IF digest.proposals[i].action = "archive" /\ digest.facts[s] = 0 THEN 0
                   ELSE file[s].version
<1>1. /\ digestAt = "record" /\ digestAt' = "apply" /\ i \in Pending
      /\ file' = file /\ disturbed' = disturbed
      BY DEF RecordProposal, vaultVars
<1>2. /\ digest \in DigestJobs /\ digest.status \in {"running", "applying"}
      /\ digest.error = "none" /\ digest.proposals # NoProposals
      BY <1>1 DEF DigestInv, DigestType, DigestActive
<1>3. s \in Slugs /\ i \in 1 .. Len(digest.proposals)  BY <1>1, <1>2, PendingFacts
<1>4. fact \in Nat  BY <1>3 DEF VaultType, Pages
<1>5. /\ digest' = [digest EXCEPT !.done = @ \cup {i}, !.facts[s] = fact]
      /\ digestSaved' = digest'
      BY DEF RecordProposal
<1>6. /\ digest' \in DigestJobs /\ digest'.status = digest.status /\ digest'.error = "none"
      /\ digest'.proposals = digest.proposals /\ digest'.catalog = digest.catalog
      /\ digest'.done = digest.done \cup {i}
      /\ digest'.facts = [digest.facts EXCEPT ![s] = fact]
  <2>1. digest.done \cup {i} \in SUBSET Nat  BY <1>2 DEF DigestJobs
  <2>2. [digest.facts EXCEPT ![s] = fact] \in [Slugs -> Nat]
        BY <1>2, <1>3, <1>4 DEF DigestJobs
  <2>3. digest' = [digest EXCEPT !.done = digest.done \cup {i},
                                 !.facts = [digest.facts EXCEPT ![s] = fact]]
        BY <1>2, <1>5 DEF DigestJobs
  <2> QED  BY <1>2, <2>1, <2>2, <2>3 DEF DigestJobs
<1>7. DigestType'  BY <1>1, <1>2, <1>5, <1>6 DEF DigestInv, DigestType
<1>8. DigestSavedInv'  BY <1>5, <1>6 DEF DigestInv, DigestSavedInv
<1>9. ExecutorKnows'  BY <1>2, <1>6 DEF ExecutorKnows
<1>10. PendingApplicable'
  <2> SUFFICES ASSUME ~disturbed, NEW j \in Pending, j # i
               PROVE  Applicable(digest.proposals[j])'
    BY <1>1, <1>6 DEF PendingApplicable, Pending
  <2>1. digest.proposals[j].slug \in Slugs /\ j \in 1 .. Len(digest.proposals)
        BY <1>2, PendingFacts
  <2>2. digest.proposals[j].slug # s  BY <1>2, <1>3, <2>1 DEF DigestInv, DigestSavedInv
  <2>3. digest'.facts[digest.proposals[j].slug] = digest.facts[digest.proposals[j].slug]
        BY <1>2, <1>3, <1>6, <2>1, <2>2 DEF DigestJobs
  <2>4. Applicable(digest.proposals[j])  BY <1>2 DEF DigestInv, PendingApplicable
  <2> QED  BY <1>1, <1>6, <2>3, <2>4 DEF Applicable, StateMatches, Exists, KnownVersion
<1> QED  BY <1>5, <1>6, <1>7, <1>8, <1>9, <1>10 DEF DigestInv

LEMMA DigestEndsKeep ==
    ASSUME DigestInv, VaultType, DigestSucceeds \/ CancelDigest \/ RetryDigest
    PROVE  DigestInv'
<1>1. file' = file /\ disturbed' = disturbed /\ digestSaved' = digestSaved
      BY DEF DigestSucceeds, CancelDigest, RetryDigest, vaultVars
<1>2. digest \in DigestJobs  BY DEF DigestInv, DigestType
<1>3. digest.status \in JobStatuses /\ digest.error \in JobErrors /\ "none" \in JobErrors
      /\ {"succeeded", "cancelled", "queued"} \subseteq JobStatuses
      BY <1>2 DEF DigestJobs, JobStatuses, JobErrors
<1>4. digest = [digest EXCEPT !.status = digest.status, !.error = digest.error]
      BY <1>2 DEF DigestJobs
<1>5. CASE DigestSucceeds
  <2>1. /\ digest' = [digest EXCEPT !.status = "succeeded", !.error = digest.error]
        /\ digestAt' = "idle" /\ digestAt = "apply"
        BY <1>2, <1>5 DEF DigestSucceeds, DigestJobs
  <2>2. digest.status # "none"  BY <2>1 DEF DigestInv, DigestType
  <2> QED  BY <1>1, <1>3, <2>1, <2>2, DigestMoved DEF DigestActive
<1>6. CASE CancelDigest
  <2>1. CASE digest.status = "queued"
    <3>1. /\ digest' = [digest EXCEPT !.status = "cancelled", !.error = digest.error]
          /\ digestAt' = digestAt /\ digestAt = "idle"
          BY <1>2, <1>6, <2>1 DEF CancelDigest, DigestJobs, DigestInv, DigestType
    <3> QED  BY <1>1, <1>3, <2>1, <3>1, DigestMoved DEF DigestActive
  <2>2. CASE digest.status # "queued"
    <3>1. digest' = digest /\ digestAt' = digestAt /\ digest.status = "running"
          BY <1>6, <2>2 DEF CancelDigest
    <3>2. DigestType' /\ DigestSavedInv'
          BY <1>1, <3>1 DEF DigestInv, DigestType, DigestSavedInv
    <3> QED  BY <1>1, <3>1, <3>2, DigestMild
  <2> QED  BY <2>1, <2>2
<1>7. CASE RetryDigest
  <2>1. /\ digest' = [digest EXCEPT !.status = "queued", !.error = "none"]
        /\ digestAt' = digestAt /\ digest.status \in {"failed", "cancelled"}
        BY <1>7 DEF RetryDigest, Queued
  <2>2. digestAt = "idle"  BY <2>1 DEF DigestInv, DigestType
  <2> QED  BY <1>1, <1>3, <2>1, <2>2, DigestMoved
<1> QED  BY <1>5, <1>6, <1>7

(* What the store last wrote is what was decided.                          *)
LEMMA DigestRestarts ==
    ASSUME DigestInv, VaultType, RestartDigest, file' = file, disturbed' = disturbed
    PROVE  DigestInv'
<1>1. PICK job \in {digest, digestSaved} : digest' = Resumed(job)  BY DEF RestartDigest
<1>2. /\ job \in DigestJobs
      /\ job.status = "none" => job = NoDigest
      BY DEF DigestInv, DigestType, DigestActive
<1>3. digestSaved' = digest' /\ digestAt' = "idle"  BY DEF RestartDigest
<1>4. /\ digest' \in DigestJobs /\ digest'.proposals = job.proposals
      /\ digest'.done = job.done /\ digest'.facts = job.facts /\ digest'.catalog = job.catalog
      /\ digest'.error \in {"none", job.error}
      /\ digest'.status = "none" => digest' = NoDigest
      /\ digest'.status \in DigestActive => digest'.error = "none"
  <2>1. CASE job.status \in {"running", "applying"}
    <3>1. digest' = [job EXCEPT !.status = "queued", !.error = "none"]
          BY <1>1, <2>1 DEF Resumed, Queued
    <3> QED  BY <1>2, <3>1 DEF DigestJobs, JobStatuses, JobErrors
  <2>2. CASE job.status \notin {"running", "applying"}
    <3>1. digest' = job  BY <1>1, <2>2 DEF Resumed
    <3>2. job.status \in DigestActive => job.error = "none"  BY DEF DigestInv, DigestType
    <3> QED  BY <1>2, <3>1, <3>2
  <2> QED  BY <2>1, <2>2
<1>5. /\ job.proposals = digest.proposals
      /\ digest.proposals # NoProposals =>
            job.done = digest.done /\ job.facts = digest.facts /\ job.catalog = digest.catalog
      BY DEF DigestInv, DigestSavedInv
<1>6. DigestType'
      BY <1>3, <1>4 DEF DigestType
<1>7. DigestSavedInv'
      BY <1>3, <1>4, <1>5 DEF DigestInv, DigestSavedInv
<1>8. ExecutorKnows'
      BY <1>3, <1>4, <1>5 DEF DigestInv, ExecutorKnows
<1>9. digest.proposals # NoProposals => Pending' = Pending  BY <1>4, <1>5 DEF Pending
<1>10. PendingApplicable'
      BY <1>4, <1>5, <1>9
      DEF DigestInv, PendingApplicable, Applicable, StateMatches, KnownVersion, Exists
<1>11. Foreign => Foreign'  BY <1>4, <1>5, <1>9 DEF Foreign
<1> QED  BY <1>3, <1>4, <1>6, <1>7, <1>8, <1>10, <1>11 DEF DigestInv

-----------------------------------------------------------------------------
(* Dreams *)

LEMMA NoDreamType ==
    /\ NoDream \in DreamJobs /\ NoDream.status = "none" /\ NoDream.error = "none"
    /\ NoDream.plan = NoPlan /\ NoDream.receipts = {}
    /\ NoDream.snapshot = [s \in Slugs |-> Absent]
<1>1. [s \in Slugs |-> Absent] \in [Slugs -> Pages]  BY DEF Absent, Pages
<1>2. "none" \in JobErrors /\ "none" \in JobStatuses /\ {} \in SUBSET Nat
      BY DEF JobStatuses, JobErrors
<1> QED  BY <1>1, <1>2 DEF NoDream, DreamJobs

LEMMA OpFacts ==
    ASSUME DreamInv, dream.plan # NoPlan, NEW i \in 1 .. Len(dream.plan)
    PROVE  /\ dream.plan \in Seq(Ops) /\ dream.plan[i] \in Ops /\ dream.plan[i].slug \in Slugs
           /\ dream.snapshot[dream.plan[i].slug].version # 0
           /\ dream.plan[i].kind = "merge" => ~dream.snapshot[dream.plan[i].slug].archived
           /\ \A j \in 1 .. Len(dream.plan) :
                 dream.plan[i].slug = dream.plan[j].slug => i = j
<1>1. dream.plan \in Seq(Ops)  BY DEF DreamInv, DreamType, DreamJobs
<1>2. dream.plan[i] \in Ops  BY <1>1, ElementOfSeq
<1>3. dream.plan[i].slug \in Slugs  BY <1>2 DEF Ops
<1> QED  BY <1>1, <1>2, <1>3 DEF DreamInv, PlanSound

(* What is said of the vault holds while the vault and the plan stay.      *)
LEMMA DreamFrame ==
    ASSUME DreamInv, VaultType, file' = file, writes' = writes, disturbed' = disturbed,
           dream'.plan = dream.plan, dream'.snapshot = dream.snapshot,
           dream'.status # "none" => dream.status # "none"
    PROVE  /\ VersionsName' /\ OnlyTheDream'
           /\ \A i : Unchanged(i)' = Unchanged(i)
           /\ \A op : Reached(op)' = Reached(op)
<1>1. VersionsName'  BY DEF DreamInv, VersionsName
<1>2. \A i : Unchanged(i)' = Unchanged(i)  BY DEF Unchanged, Exists
<1>3. \A op : Reached(op)' = Reached(op)  BY DEF Reached, Exists
<1>4. OnlyTheDream'  BY <1>2, <1>3 DEF DreamInv, OnlyTheDream
<1> QED  BY <1>1, <1>2, <1>3, <1>4

(* A job that starts, fails, is cancelled or retried outside a batch.      *)
LEMMA DreamMoved ==
    ASSUME DreamInv, VaultType, file' = file, writes' = writes, disturbed' = disturbed,
           held' = held, UNCHANGED <<applied, rolling, halfUndone, restarted>>,
           NEW status \in JobStatuses, NEW error \in JobErrors,
           dream' = [dream EXCEPT !.status = status, !.error = error],
           dreamSaved' = dreamSaved,
           status \notin {"none", "succeeded"}, dream.status \notin {"none", "succeeded"},
           {dreamAt, dreamAt'} \subseteq {"idle", "execute", "check"},
           dreamAt' # "idle" => status \in {"running", "applying"},
           dreamAt' = "check" => dream.plan # NoPlan,
           error = "conflict" => dream.error = "conflict" \/ disturbed
    PROVE  DreamInv'
<1>1. /\ dream' \in DreamJobs /\ dream'.status = status /\ dream'.error = error
      /\ dream'.plan = dream.plan /\ dream'.receipts = dream.receipts
      /\ dream'.snapshot = dream.snapshot
      BY DEF DreamInv, DreamType, DreamJobs
<1>2. DreamType'  BY <1>1 DEF DreamInv, DreamType
<1>3. DreamSavedInv'  BY <1>1 DEF DreamInv, DreamSavedInv
<1>4. PlanSound'  BY <1>1 DEF DreamInv, PlanSound, Covered
<1>5. /\ VersionsName' /\ OnlyTheDream'
      /\ \A i : Unchanged(i)' = Unchanged(i)
      /\ \A op : Reached(op)' = Reached(op)
      BY <1>1, DreamFrame
<1>6. ReceiptsTrue'  BY <1>1, <1>5 DEF DreamInv, ReceiptsTrue, Undone
<1>7. BatchSound'  BY <1>1 DEF DreamInv, BatchSound
<1>8. WrittenInBatch'  BY <1>1 DEF DreamInv, WrittenInBatch, InBatch
<1> QED  BY <1>1, <1>2, <1>3, <1>4, <1>5, <1>6, <1>7, <1>8 DEF DreamInv

LEMMA DreamFails ==
    ASSUME DreamInv, VaultType, file' = file, writes' = writes, disturbed' = disturbed,
           held' = held, UNCHANGED <<applied, rolling, halfUndone, restarted>>,
           NEW code \in JobErrors, FailDream(dream, code), dreamSaved' = dreamSaved,
           dream.status \notin {"none", "succeeded"}, dreamAt \in {"idle", "execute", "check"},
           code = "conflict" => disturbed
    PROVE  DreamInv'
<1>1. PICK status \in {"cancelled", "failed"}, error \in {"cancelled", code} :
          dream' = [dream EXCEPT !.status = status, !.error = error]
      BY DEF FailDream
<1>2. status \in JobStatuses /\ error \in JobErrors  BY DEF JobStatuses, JobErrors
<1>3. dreamAt' = "idle"  BY DEF FailDream
<1> QED  BY <1>1, <1>2, <1>3, DreamMoved

LEMMA RunDreamKeeps ==
    ASSUME DreamInv, VaultType, NEW valid \in BOOLEAN, RunDream(valid), restarted' = restarted
    PROVE  DreamInv'
<1>1. /\ file' = file /\ writes' = writes /\ disturbed' = disturbed /\ held' = held
      /\ UNCHANGED <<applied, rolling, halfUndone>>
      /\ dreamSaved' = dreamSaved /\ dream.status = "queued" /\ dreamAt = "idle"
      BY DEF RunDream, vaultVars, batchVars
<1>2. dream \in DreamJobs  BY DEF DreamInv, DreamType
<1>3. CASE valid /\ ~dream.unavailable
  <2>1. dream' = [dream EXCEPT !.status = "running", !.error = dream.error]
        BY <1>2, <1>3 DEF RunDream, DreamJobs
  <2>2. dreamAt' = "execute" /\ "running" \in JobStatuses /\ dream.error \in JobErrors
        BY <1>2, <1>3 DEF RunDream, JobStatuses, DreamJobs
  <2> QED  BY <1>1, <2>1, <2>2, DreamMoved
<1>4. CASE ~(valid /\ ~dream.unavailable)
  <2>1. FailDream(dream, "unavailable") /\ "unavailable" \in JobErrors
        BY <1>4 DEF RunDream, JobErrors
  <2> QED  BY <1>1, <2>1, DreamFails
<1> QED  BY <1>3, <1>4

LEMMA DreamEndsKeep ==
    ASSUME DreamInv, VaultType, CancelDream \/ RetryDream, restarted' = restarted
    PROVE  DreamInv'
<1>1. /\ file' = file /\ writes' = writes /\ disturbed' = disturbed /\ held' = held
      /\ UNCHANGED <<applied, rolling, halfUndone>>
      /\ dreamSaved' = dreamSaved /\ dreamAt' = dreamAt
      BY DEF CancelDream, RetryDream, vaultVars, batchVars
<1>2. dream \in DreamJobs  BY DEF DreamInv, DreamType
<1>3. dream.error \in JobErrors /\ "none" \in JobErrors
      /\ {"cancelled", "queued"} \subseteq JobStatuses
      BY <1>2 DEF DreamJobs, JobStatuses, JobErrors
<1>4. CASE CancelDream /\ dream.status = "queued"
  <2>1. /\ dream' = [dream EXCEPT !.status = "cancelled", !.error = dream.error]
        /\ dreamAt = "idle"
        BY <1>2, <1>4 DEF CancelDream, DreamJobs, DreamInv, DreamType
  <2> QED  BY <1>1, <1>3, <1>4, <2>1, DreamMoved
<1>5. CASE CancelDream /\ dream.status # "queued"
  <2>1. dream' = dream /\ dream.status = "running"  BY <1>5 DEF CancelDream
  <2>2. UNCHANGED <<dream, dreamSaved, dreamAt, applied, rolling, halfUndone, restarted,
                    file, writes, disturbed, held>>
        BY <1>1, <2>1
  <2>3. DreamType' /\ DreamSavedInv' /\ PlanSound'
        BY <2>2 DEF DreamInv, DreamType, DreamSavedInv, PlanSound, Covered
  <2>4. /\ VersionsName' /\ OnlyTheDream'
        /\ \A i : Unchanged(i)' = Unchanged(i)
        /\ \A op : Reached(op)' = Reached(op)
        BY <2>2, DreamFrame
  <2>5. ReceiptsTrue' /\ BatchSound'
        BY <2>2, <2>4 DEF DreamInv, ReceiptsTrue, Undone, BatchSound, Unreceipted
  <2>6. WrittenInBatch'  BY <2>2 DEF DreamInv, WrittenInBatch, InBatch
  <2> QED  BY <2>2, <2>3, <2>4, <2>5, <2>6 DEF DreamInv
<1>6. CASE RetryDream
  <2>1. /\ dream' = [dream EXCEPT !.status = "queued", !.error = "none"]
        /\ dream.status \in {"failed", "cancelled"}
        BY <1>6 DEF RetryDream, DreamQueued
  <2>2. dreamAt = "idle"  BY <2>1 DEF DreamInv, DreamType
  <2> QED  BY <1>1, <1>3, <2>1, <2>2, DreamMoved
<1> QED  BY <1>4, <1>5, <1>6

SoundPlan(plan) ==
    /\ plan \in Seq(Ops)
    /\ \A i \in 1 .. Len(plan) :
          /\ plan[i].slug \in Slugs
          /\ dream.snapshot[plan[i].slug].version # 0
          /\ plan[i].kind = "merge" => ~dream.snapshot[plan[i].slug].archived
    /\ \A i, j \in 1 .. Len(plan) : plan[i].slug = plan[j].slug => i = j

LEMMA PlansFacts ==
    ASSUME dream.snapshot \in [Slugs -> Pages], NEW plan \in Plans
    PROVE  SoundPlan(plan)
<1> USE DEF SoundPlan
<1>1. CASE plan = << >>  BY <1>1
<1>2. ASSUME NEW s \in Frozen, NEW k \in {"update", "archive"}, plan = <<Op(s, k)>>
      PROVE  SoundPlan(plan)
  <2>1. s \in Slugs /\ dream.snapshot[s].version # 0  BY DEF Frozen
  <2>2. Op(s, k) \in Ops /\ Op(s, k).slug = s /\ Op(s, k).kind # "merge"
        BY <2>1 DEF Op, Ops
  <2>3. plan \in Seq(Ops) /\ Len(plan) = 1 /\ plan[1] = Op(s, k)  BY <1>2, <2>2
  <2>4. 1 .. Len(plan) = {1}  BY <2>3
  <2> QED  BY <2>1, <2>2, <2>3, <2>4
<1>3. ASSUME NEW s \in Active, NEW q \in Active, s # q,
             plan = <<Op(s, "merge"), Op(q, "archive")>>
      PROVE  SoundPlan(plan)
  <2>1. /\ {s, q} \subseteq Slugs /\ dream.snapshot[s].version # 0
        /\ dream.snapshot[q].version # 0 /\ ~dream.snapshot[s].archived
        BY DEF Active, Frozen
  <2>2. /\ Op(s, "merge") \in Ops /\ Op(s, "merge").slug = s
        /\ Op(q, "archive") \in Ops /\ Op(q, "archive").slug = q
        /\ Op(q, "archive").kind = "archive"
        BY <2>1 DEF Op, Ops
  <2>3. /\ plan \in Seq(Ops) /\ Len(plan) = 2 /\ plan[1] = Op(s, "merge")
        /\ plan[2] = Op(q, "archive")
        BY <1>3, <2>2
  <2>4. 1 .. Len(plan) = {1, 2}  BY <2>3
  <2> QED  BY <1>3, <2>1, <2>2, <2>3, <2>4
<1> QED
  <2>2. CASE plan \in {<<Op(s, "update")>> : s \in Frozen}  BY <1>2, <2>2
  <2>3. CASE plan \in {<<Op(s, "archive")>> : s \in {q \in Frozen : Active \ {q} # {}}}
        BY <1>2, <2>3
  <2>4. CASE plan \in {<<Op(pair[1], "merge"), Op(pair[2], "archive")>> :
                          pair \in {q \in Active \X Active : q[1] # q[2]}}
    <3>1. PICK pair \in Active \X Active :
              pair[1] # pair[2] /\ plan = <<Op(pair[1], "merge"), Op(pair[2], "archive")>>
          BY <2>4
    <3> QED  BY <1>3, <3>1
  <2> QED  BY <1>1, <2>2, <2>3, <2>4 DEF Plans

LEMMA EnqueueDreamKeeps ==
    ASSUME DreamInv, VaultType, EnqueueDream, restarted' = restarted
    PROVE  DreamInv'
<1>1. /\ file' = file /\ writes' = writes /\ disturbed' = FALSE /\ held' = held
      /\ UNCHANGED <<applied, rolling, halfUndone>>
      /\ dreamSaved' = dream' /\ dreamAt' = dreamAt /\ dream.status = "none"
      BY DEF EnqueueDream, batchVars
<1>2. dream \in DreamJobs /\ dreamAt = "idle" /\ dream.plan = NoPlan /\ dream.receipts = {}
      BY <1>1 DEF DreamInv, DreamType, DreamSavedInv, PlanSound
<1> DEFINE frozen == IF Readable THEN file ELSE [s \in Slugs |-> Absent]
<1>3. frozen \in [Slugs -> Pages] /\ \A s \in Slugs : frozen[s] \in {file[s], Absent}
      BY DEF VaultType, Absent, Pages
<1>4. /\ dream' \in DreamJobs /\ dream'.status = "queued" /\ dream'.error = "none"
      /\ dream'.plan = NoPlan /\ dream'.receipts = {} /\ dream'.snapshot = frozen
  <2>1. dream' = [[dream EXCEPT !.unavailable = ~Readable, !.snapshot = frozen]
                      EXCEPT !.status = "queued", !.error = "none"]
        BY DEF EnqueueDream, DreamQueued
  <2>2. "queued" \in JobStatuses /\ "none" \in JobErrors /\ (~Readable) \in BOOLEAN
        BY DEF JobStatuses, JobErrors, Readable
  <2> QED  BY <1>2, <1>3, <2>1, <2>2 DEF DreamJobs
<1>5. \A s \in Slugs : file[s].text # "dream"
      BY <1>1, <1>2 DEF DreamInv, WrittenInBatch, InBatch
<1>6. rolling = 0  BY <1>2 DEF DreamInv, BatchSound
<1>7. DreamType'  BY <1>1, <1>2, <1>4 DEF DreamInv, DreamType
<1>8. DreamSavedInv'  BY <1>1, <1>4 DEF DreamSavedInv
<1>9. PlanSound'  BY <1>1, <1>2, <1>4 DEF PlanSound
<1>10. VersionsName'
  <2> SUFFICES ASSUME NEW s \in Slugs
               PROVE  /\ file[s].version <= writes /\ frozen[s].version <= writes
                      /\ frozen[s].text # "dream"
                      /\ frozen[s].version # 0 => file[s] = frozen[s]
    BY <1>1, <1>4 DEF VersionsName
  <2>1. file[s].version <= writes  BY DEF DreamInv, VersionsName
  <2>2. Absent.version = 0 /\ Absent.text = "none" /\ writes \in Nat  BY DEF Absent, VaultType
  <2> QED  BY <1>3, <1>5, <2>1, <2>2
<1>11. OnlyTheDream'
  <2>1. Absent.version = 0  BY DEF Absent
  <2> QED  BY <1>1, <1>3, <1>4, <2>1 DEF OnlyTheDream
<1>12. ReceiptsTrue'  BY <1>4 DEF ReceiptsTrue
<1>13. BatchSound'  BY <1>1, <1>2, <1>6 DEF BatchSound
<1>14. WrittenInBatch'  BY <1>1, <1>5 DEF WrittenInBatch
<1> QED  BY <1>1, <1>4, <1>7, <1>8, <1>9, <1>10, <1>11, <1>12, <1>13, <1>14 DEF DreamInv

LEMMA DreamAnsweredKeeps ==
    ASSUME DreamInv, VaultType, DreamAnswered, restarted' = restarted
    PROVE  DreamInv'
<1>1. /\ file' = file /\ writes' = writes /\ disturbed' = disturbed /\ held' = held
      /\ UNCHANGED <<applied, rolling, halfUndone>> /\ dreamAt = "execute"
      BY DEF DreamAnswered, vaultVars, batchVars
<1>2. dream \in DreamJobs /\ dream.status \in {"running", "applying"} /\ rolling = 0
      BY <1>1 DEF DreamInv, DreamType, BatchSound
<1>3. CASE FailDream(dream, "executor_failed") /\ UNCHANGED dreamSaved
  <2>1. "executor_failed" \in JobErrors  BY DEF JobErrors
  <2> QED  BY <1>1, <1>2, <1>3, <2>1, DreamFails
<1>4. ASSUME NEW plan \in IF dream.plan = NoPlan THEN Plans ELSE {dream.plan},
             dream' = [dream EXCEPT !.plan = plan],
             dreamSaved' = dream', dreamAt' = "check"
      PROVE  DreamInv'
  <2>1. SoundPlan(plan)
    <3>1. CASE dream.plan = NoPlan  BY <1>2, <1>4, <3>1, PlansFacts DEF DreamJobs
    <3>2. CASE dream.plan # NoPlan
      <4>1. plan = dream.plan /\ plan \in Seq(Ops)  BY <1>2, <1>4, <3>2 DEF DreamJobs
      <4> QED  BY <3>2, <4>1, OpFacts DEF SoundPlan
    <3> QED  BY <3>1, <3>2
  <2>2. plan # NoPlan /\ plan \in Seq(Ops)  BY <2>1, NoPlanAssumption DEF SoundPlan
  <2>3. /\ dream' \in DreamJobs /\ dream'.plan = plan /\ dream'.receipts = dream.receipts
        /\ dream'.snapshot = dream.snapshot /\ dream'.status = dream.status
        /\ dream'.error = dream.error
        BY <1>2, <1>4, <2>2 DEF DreamJobs
  <2>4. DreamType'  BY <1>1, <1>2, <1>4, <2>2, <2>3 DEF DreamInv, DreamType
  <2>5. DreamSavedInv'  BY <1>2, <1>4, <2>3 DEF DreamSavedInv
  <2>6. dream.receipts \subseteq 1 .. Len(plan)
    <3>1. CASE dream.plan = NoPlan  BY <3>1 DEF DreamInv, PlanSound
    <3>2. CASE dream.plan # NoPlan  BY <1>4, <3>2 DEF DreamInv, PlanSound
    <3> QED  BY <3>1, <3>2
  <2>7. PlanSound'  BY <1>2, <1>4, <2>1, <2>2, <2>3, <2>6 DEF PlanSound, SoundPlan
  <2>8. VersionsName'  BY <1>1, <2>3 DEF DreamInv, VersionsName
  <2>9. OnlyTheDream'
    <3> SUFFICES ASSUME ~disturbed, NEW i \in 1 .. Len(plan)
                 PROVE  (Reached(plan[i]) \/ Unchanged(i))'
      BY <1>1, <2>2, <2>3 DEF OnlyTheDream
    <3>1. CASE dream.plan = NoPlan
      <4>1. file[plan[i].slug] = dream.snapshot[plan[i].slug]
            BY <1>2, <2>1, <3>1 DEF DreamInv, OnlyTheDream, SoundPlan
      <4> QED  BY <1>1, <2>1, <2>3, <4>1 DEF Unchanged, Exists, SoundPlan
    <3>2. CASE dream.plan # NoPlan
      <4>1. plan = dream.plan  BY <1>4, <3>2
      <4>2. Reached(plan[i]) \/ Unchanged(i)  BY <3>2, <4>1 DEF DreamInv, OnlyTheDream
      <4> QED  BY <1>1, <2>3, <4>1, <4>2 DEF Reached, Unchanged, Exists
    <3> QED  BY <3>1, <3>2
  <2>10. ReceiptsTrue'
    <3>1. CASE dream.plan = NoPlan
      <4>1. dream.receipts = {}  BY <3>1 DEF DreamInv, PlanSound
      <4> QED  BY <2>3, <4>1 DEF ReceiptsTrue
    <3>2. CASE dream.plan # NoPlan
      <4>1. plan = dream.plan  BY <1>4, <3>2
      <4> QED  BY <1>1, <2>3, <4>1
               DEF DreamInv, ReceiptsTrue, Reached, Unchanged, Exists, Undone
    <3> QED  BY <3>1, <3>2
  <2>11. BatchSound'  BY <1>1, <1>2, <1>4 DEF BatchSound
  <2>12. WrittenInBatch'
         BY <1>1, <1>2, <1>4, <2>3 DEF DreamInv, WrittenInBatch, InBatch
  <2> QED  BY <1>1, <1>4, <2>3, <2>4, <2>5, <2>7, <2>8, <2>9, <2>10, <2>11, <2>12 DEF DreamInv
<1> QED  BY <1>3, <1>4 DEF DreamAnswered

LEMMA DreamEdited ==
    ASSUME DreamInv, VaultType, NEW s \in Slugs, EditFile(s),
           UNCHANGED <<dreamVars, restarted>>
    PROVE  DreamInv'
<1>1. /\ disturbed' = TRUE /\ held' = held /\ ~held
      /\ writes <= writes' /\ file'[s].version \in {0, writes + 1}
      /\ file'[s].version <= writes'
      /\ file'[s].text = "dream" => file[s].text = "dream"
      /\ \A q \in Slugs \ {s} : file'[q] = file[q]
  <2>1. VaultType' /\ writes <= writes'  BY EditFacts
  <2>2. file'[s].version = writes + 1 => writes' = writes + 1
        BY WriteFacts, EditFacts DEF EditFile, Write, VaultType, Absent, Exists
  <2> QED  BY <2>1, <2>2, EditFacts DEF EditFile, VaultType
<1>2. UNCHANGED <<dream, dreamSaved, dreamAt, applied, rolling, halfUndone, restarted>>
      BY DEF dreamVars, batchVars
<1>3. dreamAt # "batch" /\ rolling = 0  BY <1>1 DEF DreamInv, BatchSound
<1>4. DreamType' /\ DreamSavedInv' /\ PlanSound' /\ BatchSound' /\ OnlyTheDream'
      BY <1>1, <1>2, <1>3
      DEF DreamInv, DreamType, DreamSavedInv, PlanSound, Covered, BatchSound, OnlyTheDream
<1>5. dream.snapshot \in [Slugs -> Pages] /\ writes \in Nat /\ writes' \in Nat
      BY EditFacts DEF DreamInv, DreamType, DreamJobs, VaultType
<1>6. VersionsName'
  <2> SUFFICES ASSUME NEW q \in Slugs
               PROVE  /\ file'[q].version <= writes' /\ dream.snapshot[q].version <= writes'
                      /\ dream.snapshot[q].text # "dream"
                      /\ dream.snapshot[q].version # 0
                         /\ file'[q].version = dream.snapshot[q].version =>
                            file'[q] = dream.snapshot[q]
    BY <1>2 DEF VersionsName
  <2>1. /\ file[q].version <= writes /\ dream.snapshot[q].version <= writes
        /\ dream.snapshot[q].text # "dream"
        /\ dream.snapshot[q].version # 0 /\ file[q].version = dream.snapshot[q].version =>
              file[q] = dream.snapshot[q]
        /\ file[q].version \in Nat /\ dream.snapshot[q].version \in Nat
        BY <1>5 DEF DreamInv, VersionsName, VaultType, Pages
  <2> QED  BY <1>1, <1>5, <2>1
<1>7. ReceiptsTrue'
  <2> SUFFICES ASSUME ~halfUndone, NEW i \in dream.receipts
               PROVE  (Reached(dream.plan[i]) \/ ~Unchanged(i))'
    BY <1>2 DEF ReceiptsTrue
  <2>1. dream.plan # NoPlan /\ i \in 1 .. Len(dream.plan)  BY DEF DreamInv, PlanSound
  <2>2. dream.plan[i].slug \in Slugs /\ dream.snapshot[dream.plan[i].slug].version # 0
        BY <2>1, OpFacts
  <2>3. Reached(dream.plan[i]) \/ ~Unchanged(i)
        BY <1>3 DEF DreamInv, ReceiptsTrue, Undone
  <2>4. dream.snapshot[dream.plan[i].slug].version <= writes
        /\ dream.snapshot[dream.plan[i].slug].version \in Nat
        BY <1>5, <2>2 DEF DreamInv, VersionsName, Pages
  <2>5. CASE dream.plan[i].slug = s
        BY <1>1, <1>2, <1>5, <2>2, <2>4, <2>5 DEF Unchanged, Exists
  <2>6. CASE dream.plan[i].slug # s
        BY <1>1, <1>2, <2>2, <2>3, <2>6 DEF Reached, Unchanged, Exists
  <2> QED  BY <2>5, <2>6
<1>8. WrittenInBatch'
      BY <1>1, <1>2, <1>3 DEF DreamInv, WrittenInBatch, InBatch
<1> QED  BY <1>1, <1>2, <1>4, <1>6, <1>7, <1>8 DEF DreamInv

LEMMA StartBatchKeeps ==
    ASSUME DreamInv, VaultType, StartBatch, restarted' = restarted
    PROVE  DreamInv'
<1>1. /\ file' = file /\ writes' = writes /\ disturbed' = disturbed
      /\ UNCHANGED <<rolling, halfUndone>> /\ dreamAt = "check" /\ applied' = << >>
      BY DEF StartBatch
<1>2. /\ dream \in DreamJobs /\ dream.status \in {"running", "applying"} /\ rolling = 0
      /\ dream.plan # NoPlan /\ dream.plan \in Seq(Ops)
      BY <1>1 DEF DreamInv, DreamType, BatchSound, DreamJobs
<1>3. /\ dream.receipts \subseteq 1 .. Len(dream.plan) /\ Len(dream.plan) \in Nat
      /\ \A i \in dream.receipts : ~halfUndone => Reached(dream.plan[i]) \/ ~Unchanged(i)
      BY <1>2 DEF DreamInv, PlanSound, ReceiptsTrue, Undone
<1>4. CASE \A i \in ToApply : Unchanged(i)
  <2> DEFINE done == 1 .. Len(dream.plan) \ ToApply
  <2>1. /\ dream' = [dream EXCEPT !.status = "applying", !.receipts = done]
        /\ dreamSaved' = dream'
        /\ IF ToApply # {}
           THEN dreamAt' = "batch" /\ held' = TRUE
           ELSE dreamAt' = "finalize" /\ held' = held
        BY <1>4 DEF StartBatch
  <2>2. done \in SUBSET Nat /\ dream.receipts \subseteq done /\ "applying" \in JobStatuses
        BY <1>3 DEF ToApply, Unreceipted, JobStatuses
  <2>3. /\ dream' \in DreamJobs /\ dream'.plan = dream.plan /\ dream'.receipts = done
        /\ dream'.snapshot = dream.snapshot /\ dream'.status = "applying"
        /\ dream'.error = dream.error
        BY <1>2, <2>1, <2>2 DEF DreamJobs
  <2>4. DreamType'  BY <1>1, <1>2, <2>1, <2>3 DEF DreamInv, DreamType
  <2>5. DreamSavedInv'  BY <2>1, <2>3 DEF DreamSavedInv
  <2>6. PlanSound'
        BY <1>2, <2>1, <2>3 DEF DreamInv, PlanSound, Covered
  <2>7. /\ VersionsName' /\ OnlyTheDream'
        /\ \A i : Unchanged(i)' = Unchanged(i)
        /\ \A op : Reached(op)' = Reached(op)
        BY <1>1, <1>2, <2>3, DreamFrame
  <2>8. ReceiptsTrue'
    <3> SUFFICES ASSUME ~halfUndone, NEW i \in done
                 PROVE  Reached(dream.plan[i]) \/ ~Unchanged(i)
      BY <1>1, <2>3, <2>7 DEF ReceiptsTrue
    <3> QED  BY <1>3 DEF ToApply, Unreceipted
  <2>9. Unreceipted' = ToApply  BY <2>3 DEF Unreceipted, ToApply
  <2>10. BatchSound'
         BY <1>1, <1>2, <1>4, <2>1, <2>3, <2>7, <2>9 DEF BatchSound
  <2>11. WrittenInBatch'  BY <1>1, <1>2, <2>1, <2>3 DEF DreamInv, WrittenInBatch, InBatch
  <2> QED  BY <1>1, <2>1, <2>3, <2>4, <2>5, <2>6, <2>7, <2>8, <2>10, <2>11 DEF DreamInv
<1>5. CASE ~ \A i \in ToApply : Unchanged(i)
  <2> DEFINE more == {i \in Unreceipted \ ToApply : \A j \in ToApply : Unchanged(j) \/ i < j}
             job == [dream EXCEPT !.receipts = dream.receipts \cup more]
  <2>1. FailDream(job, "conflict") /\ dreamSaved' = dreamSaved /\ held' = held
        BY <1>2, <1>5 DEF StartBatch, DreamJobs
  <2>2. more \subseteq 1 .. Len(dream.plan) /\ \A i \in more : Reached(dream.plan[i])
        BY DEF ToApply, Unreceipted
  <2>3. job \in DreamJobs /\ job.receipts = dream.receipts \cup more
        /\ job.plan = dream.plan /\ job.snapshot = dream.snapshot
        BY <1>2, <1>3, <2>2 DEF DreamJobs
  <2>4. PICK status \in {"cancelled", "failed"}, error \in {"cancelled", "conflict"} :
            dream' = [job EXCEPT !.status = status, !.error = error] /\ dreamAt' = "idle"
        BY <2>1 DEF FailDream
  <2>5. status \in JobStatuses /\ error \in JobErrors  BY DEF JobStatuses, JobErrors
  <2>6. /\ dream' \in DreamJobs /\ dream'.plan = dream.plan
        /\ dream'.receipts = dream.receipts \cup more
        /\ dream'.snapshot = dream.snapshot /\ dream'.status = status
        /\ dream'.error = error
        BY <2>3, <2>4, <2>5 DEF DreamJobs
  <2>7. disturbed
    <3>1. PICK i \in ToApply : ~Unchanged(i)  BY <1>5
    <3>2. i \in 1 .. Len(dream.plan) /\ ~Reached(dream.plan[i])
          BY <3>1 DEF ToApply, Unreceipted
    <3> QED  BY <1>2, <3>1, <3>2 DEF DreamInv, OnlyTheDream
  <2>8. DreamType'  BY <1>1, <1>2, <2>1, <2>4, <2>6 DEF DreamInv, DreamType
  <2>9. DreamSavedInv'
        BY <1>2, <2>1, <2>6 DEF DreamInv, DreamSavedInv
  <2>10. PlanSound'
         BY <1>2, <2>1, <2>2, <2>4, <2>6 DEF DreamInv, PlanSound, Covered
  <2>11. /\ VersionsName' /\ OnlyTheDream'
         /\ \A i : Unchanged(i)' = Unchanged(i)
         /\ \A op : Reached(op)' = Reached(op)
         BY <1>1, <1>2, <2>6, DreamFrame
  <2>12. ReceiptsTrue'
    <3> SUFFICES ASSUME ~halfUndone, NEW i \in dream.receipts \cup more
                 PROVE  Reached(dream.plan[i]) \/ ~Unchanged(i)
      BY <1>1, <2>6, <2>11 DEF ReceiptsTrue
    <3> QED  BY <1>3, <2>2
  <2>13. BatchSound'  BY <1>1, <1>2, <2>4 DEF BatchSound
  <2>14. WrittenInBatch'
         BY <1>1, <1>2, <2>4, <2>6 DEF DreamInv, WrittenInBatch, InBatch
  <2> QED  BY <1>1, <2>1, <2>6, <2>7, <2>8, <2>9, <2>10, <2>11, <2>12, <2>13, <2>14 DEF DreamInv
<1> QED  BY <1>4, <1>5

LEMMA BatchFacts ==
    ASSUME DreamInv, dreamAt = "batch"
    PROVE  /\ dream \in DreamJobs /\ dream.plan # NoPlan /\ dream.plan \in Seq(Ops)
           /\ dream.status = "applying" /\ held /\ Len(dream.plan) \in Nat
           /\ dream.receipts \subseteq 1 .. Len(dream.plan)
           /\ applied \in Seq([index : Nat, before : Pages]) /\ Len(applied) \in Nat
           /\ rolling \in Nat /\ rolling <= Len(applied) + 1
           /\ dream.snapshot \in [Slugs -> Pages]
           /\ \A k \in 1 .. Len(applied) :
                 /\ applied[k].index \in 1 .. Len(dream.plan)
                 /\ applied[k].before = dream.snapshot[dream.plan[applied[k].index].slug]
<1>1. dream \in DreamJobs /\ dream.plan # NoPlan
      /\ applied \in Seq([index : Nat, before : Pages]) /\ rolling \in Nat
      BY DEF DreamInv, DreamType
<1>2. dream.plan \in Seq(Ops) /\ dream.snapshot \in [Slugs -> Pages]  BY <1>1 DEF DreamJobs
<1>3. Len(dream.plan) \in Nat /\ Len(applied) \in Nat  BY <1>1, <1>2
<1> QED  BY <1>1, <1>2, <1>3 DEF DreamInv, PlanSound, BatchSound

LEMMA ApplyNextKeeps ==
    ASSUME DreamInv, VaultType, NEW i \in 1 .. 2, ApplyNext(i), restarted' = restarted
    PROVE  DreamInv' /\ VaultType'
<1> DEFINE op == dream.plan[i]
           s == op.slug
           entry == [index |-> i, before |-> file[s]]
           text == IF op.kind = "archive" THEN file[s].text ELSE "dream"
           archived == IF op.kind = "archive" THEN TRUE ELSE file[s].archived
<1>1. /\ dreamAt = "batch" /\ dreamAt' = "batch" /\ rolling = 0 /\ rolling' = 0
      /\ halfUndone' = halfUndone /\ disturbed' = disturbed /\ held' = held
      /\ i \in Unreceipted /\ i \in 1 .. Len(dream.plan) /\ i \notin dream.receipts
      /\ applied' = Append(applied, entry)
      /\ dreamSaved' = dream
      BY DEF ApplyNext, Unreceipted
<1>2. /\ dream \in DreamJobs /\ dream.plan # NoPlan /\ dream.plan \in Seq(Ops)
      /\ dream.status = "applying" /\ held /\ Len(dream.plan) \in Nat
      /\ dream.receipts \subseteq 1 .. Len(dream.plan)
      /\ applied \in Seq([index : Nat, before : Pages]) /\ Len(applied) \in Nat
      /\ dream.snapshot \in [Slugs -> Pages]
      BY <1>1, BatchFacts
<1>3. /\ op \in Ops /\ s \in Slugs /\ dream.snapshot[s].version # 0
      /\ op.kind = "merge" => ~dream.snapshot[s].archived
      /\ \A j \in 1 .. Len(dream.plan) : j # i => dream.plan[j].slug # s
      BY <1>1, <1>2, OpFacts
<1>4. file[s] = dream.snapshot[s] /\ Unchanged(i) /\ file[s] \in Pages
      BY <1>1, <1>3 DEF DreamInv, BatchSound, Unchanged, VersionsName, VaultType
<1>5. /\ Write(s, text, archived)
      /\ text \in Writers \cup {"none"} /\ archived \in BOOLEAN
      BY <1>4 DEF ApplyNext, Pages, Writers
<1>6. /\ writes' = writes + 1 /\ file' \in [Slugs -> Pages]
      /\ file'[s] = Page(writes + 1, text, archived)
      /\ \A q \in Slugs \ {s} : file'[q] = file[q]
      BY <1>3, <1>5, WriteFacts
<1>7. file'[s].version = writes + 1 /\ file'[s].text = text /\ file'[s].archived = archived
      BY <1>6 DEF Page
<1>8. VaultType' /\ writes \in Nat  BY <1>1, <1>6 DEF VaultType
<1>9. dream' = [dream EXCEPT !.receipts = dream.receipts \cup {i}]
      BY <1>2 DEF ApplyNext, DreamJobs
<1>10. /\ dream' \in DreamJobs /\ dream'.plan = dream.plan
       /\ dream'.receipts = dream.receipts \cup {i}
       /\ dream'.snapshot = dream.snapshot /\ dream'.status = "applying"
       /\ dream'.error = dream.error
       BY <1>2, <1>9 DEF DreamJobs
<1>11. /\ applied' \in Seq([index : Nat, before : Pages]) /\ Len(applied') = Len(applied) + 1
       /\ applied'[Len(applied) + 1] = entry
       /\ \A k \in 1 .. Len(applied) : applied'[k] = applied[k]
  <2>1. entry \in [index : Nat, before : Pages]  BY <1>4
  <2> QED  BY <1>1, <1>2, <2>1, AppendProperties
<1>12. DreamType'  BY <1>1, <1>2, <1>10, <1>11 DEF DreamInv, DreamType
<1>13. DreamSavedInv'  BY <1>1, <1>2, <1>10 DEF DreamSavedInv
<1>14. PlanSound'  BY <1>1, <1>2, <1>10 DEF DreamInv, PlanSound
<1>15. dream.snapshot[s].version \in Nat /\ dream.snapshot[s].version <= writes
       BY <1>2, <1>3 DEF DreamInv, VersionsName, Pages
<1>16. VersionsName'
  <2> SUFFICES ASSUME NEW q \in Slugs
               PROVE  /\ file'[q].version <= writes + 1
                      /\ dream.snapshot[q].version <= writes + 1
                      /\ dream.snapshot[q].text # "dream"
                      /\ dream.snapshot[q].version # 0
                         /\ file'[q].version = dream.snapshot[q].version =>
                            file'[q] = dream.snapshot[q]
    BY <1>6, <1>10 DEF VersionsName
  <2>1. /\ file[q].version <= writes /\ dream.snapshot[q].version <= writes
        /\ dream.snapshot[q].text # "dream"
        /\ dream.snapshot[q].version # 0 /\ file[q].version = dream.snapshot[q].version =>
              file[q] = dream.snapshot[q]
        /\ file[q].version \in Nat /\ dream.snapshot[q].version \in Nat
        BY <1>2 DEF DreamInv, VersionsName, VaultType, Pages
  <2>2. CASE q = s  BY <1>7, <1>8, <2>1, <2>2
  <2>3. CASE q # s  BY <1>6, <1>8, <2>1, <2>3
  <2> QED  BY <2>2, <2>3
<1>17. ASSUME NEW j \in 1 .. Len(dream.plan), j # i
       PROVE  /\ Unchanged(j)' = Unchanged(j)
              /\ Reached(dream.plan[j])' = Reached(dream.plan[j])
  <2>1. dream.plan[j].slug \in Slugs /\ dream.plan[j].slug # s  BY <1>2, <1>3, <1>17, OpFacts
  <2> QED  BY <1>6, <1>10, <2>1 DEF Unchanged, Reached, Exists
<1>18. ~Unchanged(i)'  BY <1>7, <1>8, <1>10, <1>15 DEF Unchanged
<1>19. Reached(op)'
  <2>1. op' = op  BY <1>10
  <2>2. Exists(s)'  BY <1>7, <1>8, <1>10 DEF Exists
  <2>3. CASE op.kind = "archive"  BY <1>7, <2>1, <2>2, <2>3 DEF Reached
  <2>4. CASE op.kind # "archive"  BY <1>3, <1>4, <1>7, <2>1, <2>4 DEF Reached
  <2> QED  BY <2>3, <2>4
<1>20. OnlyTheDream'
  <2> SUFFICES ASSUME ~disturbed, NEW j \in 1 .. Len(dream.plan)
               PROVE  (Reached(dream.plan[j]) \/ Unchanged(j))'
    BY <1>1, <1>2, <1>10 DEF OnlyTheDream
  <2>1. CASE j = i  BY <1>10, <1>19, <2>1
  <2>2. CASE j # i
    <3>1. Reached(dream.plan[j]) \/ Unchanged(j)  BY <1>2 DEF DreamInv, OnlyTheDream
    <3> QED  BY <1>10, <1>17, <2>2, <3>1
  <2> QED  BY <2>1, <2>2
<1>21. ReceiptsTrue'
  <2> SUFFICES ASSUME ~halfUndone, NEW j \in dream.receipts \cup {i}
               PROVE  (Reached(dream.plan[j]) \/ ~Unchanged(j))'
    BY <1>1, <1>10 DEF ReceiptsTrue
  <2>1. CASE j = i  BY <1>18, <2>1
  <2>2. CASE j # i
    <3>1. Reached(dream.plan[j]) \/ ~Unchanged(j)
          BY <1>1, <2>2 DEF DreamInv, ReceiptsTrue, Undone
    <3>2. j \in 1 .. Len(dream.plan)  BY <1>2, <2>2
    <3> QED  BY <1>10, <1>17, <2>2, <3>1, <3>2
  <2> QED  BY <2>1, <2>2
<1>22. BatchSound'
  <2>1. ASSUME NEW k \in 1 .. Len(applied')
        PROVE  /\ applied'[k].index \in 1 .. Len(dream.plan)
               /\ applied'[k].before = dream.snapshot[dream.plan[applied'[k].index].slug]
    <3>1. CASE k \in 1 .. Len(applied)  BY <1>1, <1>11, <3>1, BatchFacts
    <3>2. CASE k = Len(applied) + 1  BY <1>1, <1>4, <1>11, <3>2
    <3> QED  BY <1>2, <1>11, <3>1, <3>2
  <2>2. ASSUME NEW j \in Unreceipted'  PROVE  Unchanged(j)'
    <3>1. j \in Unreceipted /\ j # i /\ j \in 1 .. Len(dream.plan)
          BY <1>10 DEF Unreceipted
    <3>2. Unchanged(j)  BY <1>1, <3>1 DEF DreamInv, BatchSound
    <3> QED  BY <1>17, <3>1, <3>2
  <2> QED  BY <1>1, <1>2, <1>10, <1>11, <2>1, <2>2 DEF BatchSound
<1>23. WrittenInBatch'
  <2> SUFFICES ASSUME ~restarted, ~halfUndone, NEW q \in Slugs, file'[q].text = "dream"
               PROVE  InBatch(q)'
    BY <1>1, <1>10 DEF WrittenInBatch
  <2>1. CASE q = s
        BY <1>1, <1>2, <1>10, <1>11, <2>1 DEF InBatch
  <2>2. CASE q # s
    <3>1. InBatch(q)
          BY <1>1, <1>2, <1>6, <2>2 DEF DreamInv, WrittenInBatch
    <3>2. PICK k \in 1 .. Len(applied) : dream.plan[applied[k].index].slug = q
          BY <3>1 DEF InBatch
    <3>3. k \in 1 .. Len(applied') /\ applied'[k] = applied[k]  BY <1>2, <1>11
    <3> QED  BY <1>1, <1>10, <3>2, <3>3 DEF InBatch
  <2> QED  BY <2>1, <2>2
<1> QED  BY <1>1, <1>8, <1>10, <1>12, <1>13, <1>14, <1>16, <1>20, <1>21, <1>22, <1>23 DEF DreamInv

LEMMA CommitBatchKeeps ==
    ASSUME DreamInv, VaultType, CommitBatch, restarted' = restarted
    PROVE  DreamInv'
<1>1. /\ file' = file /\ writes' = writes /\ disturbed' = disturbed
      /\ UNCHANGED <<dream, applied, rolling, halfUndone>>
      /\ dreamAt = "batch" /\ rolling = 0 /\ Unreceipted = {}
      /\ dreamSaved' = dream /\ dreamAt' = "finalize"
      BY DEF CommitBatch, batchVars
<1>2. dream \in DreamJobs /\ dream.plan # NoPlan /\ dream.status = "applying"
      BY <1>1, BatchFacts
<1>3. DreamType'  BY <1>1, <1>2 DEF DreamInv, DreamType
<1>4. DreamSavedInv'  BY <1>1, <1>2 DEF DreamSavedInv
<1>5. PlanSound'
      BY <1>1, <1>2 DEF DreamInv, PlanSound, Covered, Unreceipted
<1>6. /\ VersionsName' /\ OnlyTheDream'
      /\ \A i : Unchanged(i)' = Unchanged(i)
      /\ \A op : Reached(op)' = Reached(op)
      BY <1>1, DreamFrame
<1>7. ReceiptsTrue'  BY <1>1, <1>6 DEF DreamInv, ReceiptsTrue, Undone
<1>8. BatchSound' /\ WrittenInBatch'  BY <1>1, <1>2 DEF BatchSound, WrittenInBatch
<1> QED  BY <1>1, <1>3, <1>4, <1>5, <1>6, <1>7, <1>8 DEF DreamInv

LEMMA FailBatchKeeps ==
    ASSUME DreamInv, VaultType, FailBatch, restarted' = restarted
    PROVE  DreamInv'
<1>1. /\ file' = file /\ writes' = writes /\ disturbed' = disturbed /\ held' = held
      /\ UNCHANGED <<dream, dreamSaved, dreamAt, applied, halfUndone>>
      /\ dreamAt = "batch" /\ rolling = 0 /\ rolling' = 1 + Len(applied)
      BY DEF FailBatch, vaultVars
<1>2. dream.status = "applying" /\ Len(applied) \in Nat  BY <1>1, BatchFacts
<1>3. DreamType' /\ DreamSavedInv' /\ PlanSound'
      BY <1>1, <1>2 DEF DreamInv, DreamType, DreamSavedInv, PlanSound, Covered
<1>4. /\ VersionsName' /\ OnlyTheDream'
      /\ \A i : Unchanged(i)' = Unchanged(i)
      /\ \A op : Reached(op)' = Reached(op)
      BY <1>1, DreamFrame
<1>5. ReceiptsTrue'  BY <1>1, <1>4 DEF DreamInv, ReceiptsTrue, Undone
<1>6. BatchSound'  BY <1>1, <1>2 DEF DreamInv, BatchSound
<1>7. WrittenInBatch'  BY <1>1, <1>2 DEF DreamInv, WrittenInBatch, InBatch
<1> QED  BY <1>1, <1>3, <1>4, <1>5, <1>6, <1>7 DEF DreamInv

LEMMA RollBackOneKeeps ==
    ASSUME DreamInv, VaultType, RollBackOne, restarted' = restarted
    PROVE  DreamInv' /\ VaultType'
<1> DEFINE n == rolling - 1
           i == applied[n].index
           s == dream.plan[i].slug
<1>1. /\ writes' = writes /\ disturbed' = disturbed /\ held' = held
      /\ UNCHANGED <<dream, dreamSaved, dreamAt, applied, halfUndone>>
      /\ rolling > 1 /\ rolling' = rolling - 1
      /\ file' = [file EXCEPT ![s] = applied[n].before]
      BY DEF RollBackOne
<1>2. rolling \in Nat  BY DEF DreamInv, DreamType
<1>3. dreamAt = "batch"  BY <1>1, <1>2 DEF DreamInv, BatchSound
<1>4. /\ dream \in DreamJobs /\ dream.plan # NoPlan /\ dream.plan \in Seq(Ops)
      /\ dream.status = "applying" /\ Len(dream.plan) \in Nat
      /\ dream.receipts \subseteq 1 .. Len(dream.plan)
      /\ Len(applied) \in Nat /\ rolling <= Len(applied) + 1
      /\ dream.snapshot \in [Slugs -> Pages]
      BY <1>3, BatchFacts
<1>5. n \in 1 .. Len(applied)  BY <1>1, <1>2, <1>4
<1>6. i \in 1 .. Len(dream.plan) /\ applied[n].before = dream.snapshot[s]
      BY <1>3, <1>5, BatchFacts
<1>7. /\ s \in Slugs /\ dream.snapshot[s].version # 0
      /\ \A j \in 1 .. Len(dream.plan) : j # i => dream.plan[j].slug # s
      BY <1>4, <1>6, OpFacts
<1>8. /\ file' \in [Slugs -> Pages] /\ file'[s] = dream.snapshot[s]
      /\ \A q \in Slugs \ {s} : file'[q] = file[q]
      BY <1>1, <1>4, <1>6, <1>7 DEF VaultType
<1>9. VaultType'  BY <1>1, <1>8 DEF VaultType
<1>10. DreamType'
  <2>1. rolling' \in Nat  BY <1>1, <1>2
  <2> QED  BY <1>1, <2>1 DEF DreamInv, DreamType
<1>11. DreamSavedInv' /\ PlanSound'
       BY <1>1 DEF DreamInv, DreamSavedInv, PlanSound, Covered
<1>12. VersionsName'
  <2> SUFFICES ASSUME NEW q \in Slugs
               PROVE  /\ file'[q].version <= writes /\ dream.snapshot[q].version <= writes
                      /\ dream.snapshot[q].text # "dream"
                      /\ dream.snapshot[q].version # 0
                         /\ file'[q].version = dream.snapshot[q].version =>
                            file'[q] = dream.snapshot[q]
    BY <1>1 DEF VersionsName
  <2>1. CASE q = s  BY <1>8, <2>1 DEF DreamInv, VersionsName
  <2>2. CASE q # s  BY <1>8, <2>2 DEF DreamInv, VersionsName
  <2> QED  BY <2>1, <2>2
<1>13. ASSUME NEW j \in 1 .. Len(dream.plan), j # i
       PROVE  /\ Unchanged(j)' = Unchanged(j)
              /\ Reached(dream.plan[j])' = Reached(dream.plan[j])
  <2>1. dream.plan[j].slug \in Slugs /\ dream.plan[j].slug # s
        BY <1>4, <1>7, <1>13, OpFacts
  <2> QED  BY <1>1, <1>8, <2>1 DEF Unchanged, Reached, Exists
<1>14. ASSUME NEW j \in 1 .. Len(dream.plan), j = i
       PROVE  Unchanged(j)'
  <2>1. dream.plan[j].slug = s  BY <1>14
  <2> QED  BY <1>1, <1>7, <1>8, <2>1 DEF Unchanged, Exists
<1>15. OnlyTheDream'
  <2> SUFFICES ASSUME ~disturbed, NEW j \in 1 .. Len(dream.plan)
               PROVE  (Reached(dream.plan[j]) \/ Unchanged(j))'
    BY <1>1, <1>4 DEF OnlyTheDream
  <2>1. CASE j = i  BY <1>14, <2>1
  <2>2. CASE j # i
    <3>1. Reached(dream.plan[j]) \/ Unchanged(j)  BY <1>4 DEF DreamInv, OnlyTheDream
    <3> QED  BY <1>13, <2>2, <3>1
  <2> QED  BY <2>1, <2>2
<1>16. ReceiptsTrue'
  <2> SUFFICES ASSUME ~halfUndone, NEW j \in dream.receipts
               PROVE  (Reached(dream.plan[j]) \/ ~Unchanged(j) \/ Undone(j))'
    BY <1>1 DEF ReceiptsTrue
  <2>1. n \in rolling' .. Len(applied) /\ rolling' # 0  BY <1>1, <1>2, <1>4
  <2>2. CASE j = i  BY <1>1, <2>1, <2>2 DEF Undone
  <2>3. CASE j # i
    <3>1. Reached(dream.plan[j]) \/ ~Unchanged(j) \/ Undone(j)  BY DEF DreamInv, ReceiptsTrue
    <3>2. Undone(j) => Undone(j)'
      <4> SUFFICES ASSUME NEW k \in rolling .. Len(applied), applied[k].index = j
                   PROVE  Undone(j)'
        BY DEF Undone
      <4>1. k \in rolling' .. Len(applied)  BY <1>1, <1>2
      <4> QED  BY <1>1, <2>1, <4>1 DEF Undone
    <3>3. j \in 1 .. Len(dream.plan)  BY <1>4
    <3> QED  BY <1>13, <2>3, <3>1, <3>2, <3>3
  <2> QED  BY <2>2, <2>3
<1>17. BatchSound'
  <2>1. rolling' # 0 /\ rolling' <= Len(applied) + 1  BY <1>1, <1>2, <1>4
  <2> QED  BY <1>1, <1>3, <2>1 DEF DreamInv, BatchSound
<1>18. WrittenInBatch'
  <2> SUFFICES ASSUME ~restarted, ~halfUndone, NEW q \in Slugs, file'[q].text = "dream"
               PROVE  InBatch(q)'
    BY <1>1, <1>4 DEF WrittenInBatch
  <2>1. q # s  BY <1>7, <1>8 DEF DreamInv, VersionsName
  <2>2. InBatch(q)  BY <1>3, <1>4, <1>8, <2>1 DEF DreamInv, WrittenInBatch
  <2>3. PICK k \in 1 .. Len(applied) : k < rolling /\ dream.plan[applied[k].index].slug = q
        BY <1>1, <1>2, <2>2 DEF InBatch
  <2>4. k # n /\ k < rolling'  BY <1>1, <1>2, <2>1, <2>3
  <2> QED  BY <1>1, <1>3, <2>3, <2>4 DEF InBatch
<1> QED  BY <1>1, <1>9, <1>10, <1>11, <1>12, <1>15, <1>16, <1>17, <1>18 DEF DreamInv

LEMMA RolledBackKeeps ==
    ASSUME DreamInv, VaultType, RolledBack, restarted' = restarted
    PROVE  DreamInv'
<1> DEFINE job == [dream EXCEPT !.receipts = ReceiptsLeft]
<1>1. /\ file' = file /\ writes' = writes /\ disturbed' = disturbed
      /\ halfUndone' = halfUndone /\ rolling = 1 /\ rolling' = 0 /\ applied' = << >>
      /\ FailDream(job, "write_failed") /\ dreamSaved' = job
      BY DEF RolledBack
<1>2. dreamAt = "batch"  BY <1>1 DEF DreamInv, BatchSound
<1>3. /\ dream \in DreamJobs /\ dream.plan # NoPlan /\ dream.status = "applying"
      /\ dream.receipts \subseteq 1 .. Len(dream.plan) /\ Len(applied) \in Nat
      BY <1>2, BatchFacts
<1>4. ReceiptsLeft \subseteq dream.receipts /\ ReceiptsLeft \in SUBSET Nat
      BY <1>3 DEF ReceiptsLeft, DreamJobs
<1>5. /\ job \in DreamJobs /\ job.receipts = ReceiptsLeft /\ job.plan = dream.plan
      /\ job.snapshot = dream.snapshot /\ job.status = "applying" /\ job.error = dream.error
      BY <1>3, <1>4 DEF DreamJobs
<1>6. PICK status \in {"cancelled", "failed"}, error \in {"cancelled", "write_failed"} :
          dream' = [job EXCEPT !.status = status, !.error = error] /\ dreamAt' = "idle"
      BY <1>1 DEF FailDream
<1>7. status \in JobStatuses /\ error \in JobErrors  BY DEF JobStatuses, JobErrors
<1>8. /\ dream' \in DreamJobs /\ dream'.plan = dream.plan /\ dream'.receipts = ReceiptsLeft
      /\ dream'.snapshot = dream.snapshot /\ dream'.status = status /\ dream'.error = error
      BY <1>5, <1>6, <1>7 DEF DreamJobs
<1>9. DreamType'  BY <1>1, <1>5, <1>6, <1>8 DEF DreamInv, DreamType
<1>10. DreamSavedInv'  BY <1>1, <1>5, <1>8 DEF DreamSavedInv
<1>11. PlanSound'
       BY <1>1, <1>3, <1>4, <1>5, <1>6, <1>8 DEF DreamInv, PlanSound
<1>12. /\ VersionsName' /\ OnlyTheDream'
       /\ \A i : Unchanged(i)' = Unchanged(i)
       /\ \A op : Reached(op)' = Reached(op)
       BY <1>1, <1>3, <1>8, DreamFrame
<1>13. ReceiptsTrue'
  <2> SUFFICES ASSUME ~halfUndone, NEW i \in ReceiptsLeft
               PROVE  Reached(dream.plan[i]) \/ ~Unchanged(i)
    BY <1>1, <1>8, <1>12 DEF ReceiptsTrue
  <2>1. ~Undone(i)  BY <1>1, <1>3 DEF Undone, ReceiptsLeft
  <2> QED  BY <1>4, <2>1 DEF DreamInv, ReceiptsTrue
<1>14. BatchSound'  BY <1>1, <1>6 DEF BatchSound
<1>15. WrittenInBatch'
  <2>1. \A q : ~InBatch(q)  BY <1>1, <1>3 DEF InBatch
  <2> QED  BY <1>1, <1>2, <1>3, <1>6, <1>8, <2>1 DEF DreamInv, WrittenInBatch
<1> QED  BY <1>1, <1>5, <1>8, <1>9, <1>10, <1>11, <1>12, <1>13, <1>14, <1>15 DEF DreamInv

LEMMA RollBackFailsKeeps ==
    ASSUME DreamInv, VaultType, RollBackFails, restarted' = restarted
    PROVE  DreamInv'
<1>1. /\ file' = file /\ writes' = writes /\ disturbed' = disturbed
      /\ halfUndone' = TRUE /\ rolling > 0 /\ rolling' = 0 /\ applied' = << >>
      /\ FailDream(dream, "write_failed") /\ dreamSaved' = dreamSaved
      BY DEF RollBackFails
<1>2. dreamAt = "batch"  BY <1>1 DEF DreamInv, BatchSound, DreamType
<1>3. dream \in DreamJobs /\ dream.plan # NoPlan /\ dream.status = "applying"
      BY <1>2, BatchFacts
<1>4. PICK status \in {"cancelled", "failed"}, error \in {"cancelled", "write_failed"} :
          dream' = [dream EXCEPT !.status = status, !.error = error] /\ dreamAt' = "idle"
      BY <1>1 DEF FailDream
<1>5. status \in JobStatuses /\ error \in JobErrors  BY DEF JobStatuses, JobErrors
<1>6. /\ dream' \in DreamJobs /\ dream'.plan = dream.plan
      /\ dream'.receipts = dream.receipts
      /\ dream'.snapshot = dream.snapshot /\ dream'.status = status /\ dream'.error = error
      BY <1>3, <1>4, <1>5 DEF DreamJobs
<1>7. DreamType'  BY <1>1, <1>4, <1>6 DEF DreamInv, DreamType
<1>8. DreamSavedInv'  BY <1>1, <1>3, <1>6 DEF DreamInv, DreamSavedInv
<1>9. PlanSound'  BY <1>1, <1>3, <1>4, <1>6 DEF DreamInv, PlanSound, Covered
<1>10. VersionsName' /\ OnlyTheDream'  BY <1>1, <1>3, <1>6, DreamFrame
<1>11. ReceiptsTrue' /\ BatchSound' /\ WrittenInBatch'
       BY <1>1, <1>4, <1>6 DEF ReceiptsTrue, BatchSound, WrittenInBatch
<1> QED  BY <1>1, <1>6, <1>7, <1>8, <1>9, <1>10, <1>11 DEF DreamInv

LEMMA DreamSucceedsKeeps ==
    ASSUME DreamInv, VaultType, DreamSucceeds, restarted' = restarted
    PROVE  DreamInv'
<1>1. /\ file' = file /\ writes' = writes /\ disturbed' = disturbed /\ held' = held
      /\ UNCHANGED <<dreamSaved, rolling, halfUndone>>
      /\ dreamAt = "finalize" /\ dreamAt' = "idle" /\ applied' = << >>
      BY DEF DreamSucceeds
<1>2. dream \in DreamJobs /\ dream.plan # NoPlan /\ dream.status \in {"running", "applying"}
      /\ Covered(dream)
      BY <1>1 DEF DreamInv, DreamType, PlanSound
<1>3. /\ dream' \in DreamJobs /\ dream'.plan = dream.plan
      /\ dream'.receipts = dream.receipts
      /\ dream'.snapshot = dream.snapshot /\ dream'.status = "succeeded"
      /\ dream'.error = dream.error
      BY <1>2 DEF DreamSucceeds, DreamJobs, JobStatuses
<1>4. rolling = 0  BY <1>1 DEF DreamInv, BatchSound
<1>5. DreamType'  BY <1>1, <1>3 DEF DreamInv, DreamType
<1>6. DreamSavedInv'  BY <1>1, <1>2, <1>3 DEF DreamInv, DreamSavedInv
<1>7. PlanSound'  BY <1>1, <1>2, <1>3 DEF DreamInv, PlanSound, Covered
<1>8. /\ VersionsName' /\ OnlyTheDream'
      /\ \A i : Unchanged(i)' = Unchanged(i)
      /\ \A op : Reached(op)' = Reached(op)
      BY <1>1, <1>2, <1>3, DreamFrame
<1>9. ReceiptsTrue'  BY <1>1, <1>3, <1>4, <1>8 DEF DreamInv, ReceiptsTrue, Undone
<1>10. BatchSound' /\ WrittenInBatch'  BY <1>1, <1>3, <1>4 DEF BatchSound, WrittenInBatch
<1> QED  BY <1>1, <1>3, <1>5, <1>6, <1>7, <1>8, <1>9, <1>10 DEF DreamInv

LEMMA DreamRestarts ==
    ASSUME DreamInv, VaultType, RestartDream, file' = file, writes' = writes,
           disturbed' = disturbed, restarted' = TRUE
    PROVE  DreamInv'
<1>1. PICK job \in {dream, dreamSaved} :
          dream' = IF job.status \in {"running", "applying"} THEN DreamQueued(job) ELSE job
      BY DEF RestartDream
<1>2. /\ dreamSaved' = dream' /\ dreamAt' = "idle" /\ applied' = << >> /\ rolling' = 0
      /\ halfUndone' = (halfUndone \/ rolling # 0)
      BY DEF RestartDream
<1>3. /\ job \in DreamJobs /\ job.plan = dream.plan /\ job.snapshot = dream.snapshot
      /\ job.receipts \subseteq dream.receipts
      /\ job.status = "none" <=> dream.status = "none"
      /\ job.status = "succeeded" => Covered(job)
      /\ job.error = "conflict" => disturbed
      BY DEF DreamInv, DreamType, DreamSavedInv, PlanSound
<1>4. /\ dream' \in DreamJobs /\ dream'.plan = dream.plan
      /\ dream'.snapshot = dream.snapshot /\ dream'.receipts = job.receipts
      /\ dream'.status = "none" <=> job.status = "none"
      /\ dream'.status = "succeeded" => job.status = "succeeded"
      /\ dream'.error \in {"none", job.error}
  <2>1. CASE job.status \in {"running", "applying"}
    <3>1. dream' = [job EXCEPT !.status = "queued", !.error = "none"]
          BY <1>1, <2>1 DEF DreamQueued
    <3> QED  BY <1>3, <2>1, <3>1 DEF DreamJobs, JobStatuses, JobErrors
  <2>2. CASE job.status \notin {"running", "applying"}
        BY <1>1, <1>3, <2>2
  <2> QED  BY <2>1, <2>2
<1>5. DreamType'
  <2>1. << >> \in Seq([index : Nat, before : Pages])  OBVIOUS
  <2>2. halfUndone \in BOOLEAN /\ rolling \in Nat  BY DEF DreamInv, DreamType
  <2> QED  BY <1>2, <1>4, <2>1, <2>2 DEF DreamType
<1>6. DreamSavedInv'  BY <1>2, <1>3, <1>4 DEF DreamInv, DreamSavedInv
<1>7. PlanSound'  BY <1>2, <1>3, <1>4 DEF DreamInv, PlanSound, Covered
<1>8. /\ VersionsName' /\ OnlyTheDream'
      /\ \A i : Unchanged(i)' = Unchanged(i)
      /\ \A op : Reached(op)' = Reached(op)
      BY <1>3, <1>4, DreamFrame
<1>9. ReceiptsTrue'  BY <1>2, <1>3, <1>4, <1>8 DEF DreamInv, ReceiptsTrue, Undone
<1>10. BatchSound'  BY <1>2 DEF BatchSound
<1>11. WrittenInBatch'
  <2> SUFFICES ASSUME dream'.status = "none"
               PROVE  \A s \in Slugs : file[s].text # "dream"
    BY DEF WrittenInBatch
  <2>1. dream.status = "none"  BY <1>3, <1>4
  <2>2. dreamAt = "idle"  BY <2>1 DEF DreamInv, DreamType
  <2> QED  BY <2>1, <2>2 DEF DreamInv, WrittenInBatch, InBatch
<1> QED  BY <1>2, <1>3, <1>4, <1>5, <1>6, <1>7, <1>8, <1>9, <1>10, <1>11 DEF DreamInv

-----------------------------------------------------------------------------
(* Both *)

LEMMA MaintenanceStarts == MemoryInit => MaintenanceInv
<1> SUFFICES ASSUME MemoryInit  PROVE MaintenanceInv
  OBVIOUS
<1>1. /\ file \in [Slugs -> {Absent, Page(1, "owner", FALSE)}]
      /\ disturbed = FALSE /\ writes = 1
      /\ digest = NoDigest /\ digestSaved = NoDigest /\ digestAt = "idle"
      /\ dream = NoDream /\ dreamSaved = NoDream /\ dreamAt = "idle"
      /\ applied = << >> /\ rolling = 0 /\ halfUndone = FALSE /\ restarted = FALSE
      /\ kind \in {"digest", "dream"}
      BY DEF MemoryInit, VaultInit, DigestInit, DreamInit
<1>2. \A s \in Slugs : /\ file[s] \in Pages /\ file[s].version <= writes
                       /\ file[s].text \notin {"digest", "dream"}
  <2> SUFFICES ASSUME NEW s \in Slugs
               PROVE  /\ file[s] \in Pages /\ file[s].version <= 1
                      /\ file[s].text \notin {"digest", "dream"}
    BY <1>1
  <2>1. file[s] = Absent \/ file[s] = Page(1, "owner", FALSE)  BY <1>1
  <2>2. CASE file[s] = Absent  BY <2>2 DEF Absent, Pages
  <2>3. CASE file[s] = Page(1, "owner", FALSE)
        BY <2>3 DEF Page, Pages, Writers
  <2> QED  BY <2>1, <2>2, <2>3
<1>3. VaultType  BY <1>1, <1>2 DEF VaultType
<1>4. CASE kind = "digest"
  <2>1. DigestType /\ DigestSavedInv
        BY <1>1, NoDigestType DEF DigestType, DigestSavedInv, DigestActive
  <2>2. ExecutorKnows  BY <1>1 DEF ExecutorKnows, NoDigest
  <2>3. PendingApplicable  BY <1>1, NoDigestType DEF PendingApplicable
  <2>4. DigestInv  BY <1>1, <2>1, <2>2, <2>3, NoDigestType DEF DigestInv
  <2> QED  BY <1>1, <1>3, <1>4, <2>4 DEF MaintenanceInv
<1>5. CASE kind = "dream"
  <2>1. \A s \in Slugs : dream.snapshot[s].version = 0 /\ dream.snapshot[s].text = "none"
    <3> SUFFICES ASSUME NEW s \in Slugs
                 PROVE  dream.snapshot[s].version = 0 /\ dream.snapshot[s].text = "none"
      OBVIOUS
    <3>1. dream.snapshot[s] = Absent  BY <1>1, NoDreamType
    <3> QED  BY <3>1 DEF Absent
  <2>2. DreamType
    <3>1. << >> \in Seq([index : Nat, before : Pages])  OBVIOUS
    <3> QED  BY <1>1, <3>1, NoDreamType DEF DreamType
  <2>3. DreamSavedInv /\ PlanSound  BY <1>1, NoDreamType DEF DreamSavedInv, PlanSound
  <2>4. VersionsName
    <3> SUFFICES ASSUME NEW s \in Slugs
                 PROVE  /\ file[s].version <= writes /\ dream.snapshot[s].version <= writes
                        /\ dream.snapshot[s].text # "dream" /\ dream.snapshot[s].version = 0
      BY DEF VersionsName
    <3>1. writes = 1  BY <1>1
    <3> QED  BY <1>2, <2>1, <3>1
  <2>5. OnlyTheDream /\ ReceiptsTrue  BY <1>1, NoDreamType DEF OnlyTheDream, ReceiptsTrue
  <2>6. BatchSound /\ WrittenInBatch  BY <1>1, <1>2 DEF BatchSound, WrittenInBatch
  <2>7. NotDigested  BY <1>2, <2>1 DEF NotDigested
  <2>8. DreamInv  BY <1>1, <2>2, <2>3, <2>4, <2>5, <2>6, NoDreamType DEF DreamInv
  <2> QED  BY <1>1, <1>3, <1>5, <2>7, <2>8 DEF MaintenanceInv
<1> QED  BY <1>1, <1>4, <1>5

LEMMA DigestSteps ==
    ASSUME DigestInv, VaultType, DigestNext
    PROVE  DigestInv' /\ VaultType'
<1>1. CASE EnqueueDigest
  <2>1. VaultType'  BY <1>1 DEF VaultType, EnqueueDigest
  <2> QED  BY <1>1, <2>1, DigestEnqueued
<1>2. CASE DigestAnswered  BY <1>2, DigestAnsweredKeeps DEF DigestAnswered, VaultType, vaultVars
<1>3. CASE Preflight  BY <1>3, PreflightKeeps DEF Preflight, VaultType, vaultVars
<1>4. CASE DigestSucceeds \/ CancelDigest \/ RetryDigest
  <2>1. UNCHANGED vaultVars  BY <1>4 DEF DigestSucceeds, CancelDigest, RetryDigest
  <2> QED  BY <1>4, <2>1, DigestEndsKeep DEF VaultType, vaultVars
<1>5. ASSUME NEW valid \in BOOLEAN, RunDigest(valid)  PROVE DigestInv' /\ VaultType'
      BY <1>5, RunDigestKeeps DEF RunDigest, VaultType, vaultVars
<1>6. ASSUME NEW i \in 1 .. MaxProposals, RecordProposal(i)  PROVE DigestInv' /\ VaultType'
      BY <1>6, RecordProposalKeeps DEF RecordProposal, VaultType, vaultVars
<1>7. ASSUME NEW i \in 1 .. MaxProposals, ApplyProposal(i)  PROVE DigestInv' /\ VaultType'
  <2> DEFINE p == digest.proposals[i]
  <2>1. DigestInv'  BY <1>7, ApplyProposalKeeps
  <2>2. disturbed' = disturbed /\ digestAt = "apply" /\ i \in Pending
        BY <1>7 DEF ApplyProposal
  <2>3. digest.proposals # NoProposals  BY <2>2 DEF DigestInv, DigestType
  <2>4. p.slug \in Slugs /\ file[p.slug] \in Pages  BY <2>2, <2>3, PendingFacts DEF VaultType
  <2>5. \/ UNCHANGED <<file, writes>>
        \/ Write(p.slug, file[p.slug].text, TRUE)
        \/ Write(p.slug, "digest", file[p.slug].archived)
        BY <1>7 DEF ApplyProposal
  <2>6. ASSUME NEW text \in Writers \cup {"none"}, NEW archived \in BOOLEAN,
               Write(p.slug, text, archived)
        PROVE  VaultType'
        BY <2>2, <2>4, <2>6, WriteFacts DEF VaultType
  <2>7. /\ {file[p.slug].text, "digest"} \subseteq Writers \cup {"none"}
        /\ file[p.slug].archived \in BOOLEAN
        BY <2>4 DEF Pages, Writers
  <2>8. ASSUME UNCHANGED <<file, writes>>  PROVE VaultType'
        BY <2>2, <2>8 DEF VaultType
  <2> QED  BY <2>1, <2>5, <2>6, <2>7, <2>8
<1> QED  BY <1>1, <1>2, <1>3, <1>4, <1>5, <1>6, <1>7 DEF DigestNext

LEMMA DreamSteps ==
    ASSUME DreamInv, VaultType, DreamNext \/ DreamFault, restarted' = restarted
    PROVE  DreamInv' /\ VaultType'
<1>1. CASE EnqueueDream
  <2>1. VaultType'  BY <1>1 DEF VaultType, EnqueueDream
  <2> QED  BY <1>1, <2>1, EnqueueDreamKeeps
<1>2. CASE DreamAnswered  BY <1>2, DreamAnsweredKeeps DEF DreamAnswered, VaultType, vaultVars
<1>3. CASE StartBatch  BY <1>3, StartBatchKeeps DEF StartBatch, VaultType
<1>4. CASE CommitBatch  BY <1>4, CommitBatchKeeps DEF CommitBatch, VaultType
<1>5. CASE RollBackOne  BY <1>5, RollBackOneKeeps
<1>6. CASE RolledBack  BY <1>6, RolledBackKeeps DEF RolledBack, VaultType
<1>7. CASE CancelDream \/ RetryDream
  <2>1. UNCHANGED vaultVars  BY <1>7 DEF CancelDream, RetryDream
  <2> QED  BY <1>7, <2>1, DreamEndsKeep DEF VaultType, vaultVars
<1>8. CASE DreamSucceeds  BY <1>8, DreamSucceedsKeeps DEF DreamSucceeds, VaultType
<1>9. ASSUME NEW valid \in BOOLEAN, RunDream(valid)  PROVE DreamInv' /\ VaultType'
      BY <1>9, RunDreamKeeps DEF RunDream, VaultType, vaultVars
<1>10. ASSUME NEW i \in 1 .. 2, ApplyNext(i)  PROVE DreamInv' /\ VaultType'
       BY <1>10, ApplyNextKeeps
<1>11. CASE FailBatch  BY <1>11, FailBatchKeeps DEF FailBatch, VaultType, vaultVars
<1>12. CASE RollBackFails  BY <1>12, RollBackFailsKeeps DEF RollBackFails, VaultType
<1> QED  BY <1>1, <1>2, <1>3, <1>4, <1>5, <1>6, <1>7, <1>8, <1>9, <1>10, <1>11, <1>12
         DEF DreamNext, DreamFault

(* What a step of a Dream, or an edit beside it, makes of the texts.       *)
LEMMA DreamTexts ==
    ASSUME DreamInv, VaultType, NotDigested, DreamNext \/ DreamFault
    PROVE  NotDigested'
<1>1. CASE UNCHANGED file /\ dream'.snapshot = dream.snapshot
      BY <1>1 DEF NotDigested
<1>2. dream \in DreamJobs  BY DEF DreamInv, DreamType
<1>3. CASE EnqueueDream
  <2>1. UNCHANGED file /\ dream'.snapshot \in {file, [s \in Slugs |-> Absent]}
        BY <1>2, <1>3 DEF EnqueueDream, DreamQueued, DreamJobs
  <2> QED  BY <2>1 DEF NotDigested, Absent
<1>4. ASSUME NEW i \in 1 .. 2, ApplyNext(i)  PROVE NotDigested'
  <2> DEFINE op == dream.plan[i]
             text == IF op.kind = "archive" THEN file[op.slug].text ELSE "dream"
             archived == IF op.kind = "archive" THEN TRUE ELSE file[op.slug].archived
  <2>1. dreamAt = "batch" /\ i \in 1 .. Len(dream.plan)  BY <1>4 DEF ApplyNext, Unreceipted
  <2>2. op.slug \in Slugs  BY <2>1, BatchFacts, OpFacts
  <2>3. /\ text \in Writers \cup {"none"} /\ archived \in BOOLEAN
        /\ Write(op.slug, text, archived) /\ text # "digest"
        BY <1>4, <2>2 DEF ApplyNext, VaultType, Pages, Writers, NotDigested
  <2>4. /\ file'[op.slug] = Page(writes + 1, text, archived)
        /\ \A q \in Slugs \ {op.slug} : file'[q] = file[q]
        BY <2>2, <2>3, WriteFacts
  <2>5. file'[op.slug].text = text  BY <2>4 DEF Page
  <2>6. dream'.snapshot = dream.snapshot  BY <1>2, <1>4 DEF ApplyNext, DreamJobs
  <2> QED  BY <2>3, <2>4, <2>5, <2>6 DEF NotDigested
<1>5. CASE RollBackOne
  <2>1. rolling \in Nat /\ rolling > 1  BY <1>5 DEF RollBackOne, DreamInv, DreamType
  <2>2. dreamAt = "batch"  BY <2>1 DEF DreamInv, BatchSound
  <2>3. rolling - 1 \in 1 .. Len(applied)  BY <2>1, <2>2, BatchFacts
  <2> DEFINE i == applied[rolling - 1].index
             s == dream.plan[i].slug
  <2>4. i \in 1 .. Len(dream.plan) /\ applied[rolling - 1].before = dream.snapshot[s]
        BY <2>2, <2>3, BatchFacts
  <2>5. s \in Slugs  BY <2>2, <2>4, BatchFacts, OpFacts
  <2>6. file' = [file EXCEPT ![s] = dream.snapshot[s]] /\ dream' = dream
        BY <1>5, <2>4 DEF RollBackOne
  <2> QED  BY <2>5, <2>6 DEF NotDigested, VaultType
<1>6. ASSUME NEW valid \in BOOLEAN, RunDream(valid)
      PROVE  UNCHANGED file /\ dream'.snapshot = dream.snapshot
      BY <1>2, <1>6 DEF RunDream, FailDream, vaultVars, DreamJobs
<1>7. ASSUME StartBatch \/ RolledBack
      PROVE  UNCHANGED file /\ dream'.snapshot = dream.snapshot
      BY <1>2, <1>7 DEF StartBatch, RolledBack, FailDream, DreamJobs
<1>8. ASSUME DreamAnswered \/ CancelDream \/ RetryDream \/ DreamSucceeds \/ DreamFault
             \/ CommitBatch
      PROVE  UNCHANGED file /\ dream'.snapshot = dream.snapshot
      BY <1>2, <1>8 DEF DreamAnswered, CancelDream, RetryDream, DreamSucceeds, DreamFault,
         FailBatch, RollBackFails, CommitBatch, FailDream, DreamQueued, vaultVars, DreamJobs,
         batchVars
<1> QED  BY <1>1, <1>3, <1>4, <1>5, <1>6, <1>7, <1>8 DEF DreamNext

LEMMA MaintenanceEdited ==
    ASSUME MaintenanceInv, OwnerEdits
    PROVE  MaintenanceInv'
<1>1. PICK s \in Slugs : EditFile(s)  BY DEF OwnerEdits
<1>2. UNCHANGED <<digestVars, dreamVars, kind, restarted>>  BY DEF OwnerEdits
<1>3. VaultType  BY DEF MaintenanceInv
<1>4. /\ VaultType' /\ file'[s].text \in {"none", "owner", file[s].text}
      /\ \A q \in Slugs \ {s} : file'[q] = file[q]
      BY <1>1, <1>3, EditFacts
<1>5. CASE kind = "digest" /\ DigestInv
  <2>1. DigestInv'  BY <1>1, <1>2, <1>3, <1>5, DigestEdited DEF digestVars
  <2> QED  BY <1>2, <1>4, <1>5, <2>1 DEF MaintenanceInv, dreamVars, batchVars
<1>6. CASE kind = "dream" /\ DreamInv /\ NotDigested
  <2>1. DreamInv'  BY <1>1, <1>2, <1>3, <1>6, DreamEdited DEF dreamVars
  <2>2. NotDigested'  BY <1>2, <1>4, <1>6 DEF NotDigested, dreamVars
  <2> QED  BY <1>2, <1>4, <1>6, <2>1, <2>2 DEF MaintenanceInv, digestVars
<1> QED  BY <1>5, <1>6 DEF MaintenanceInv

LEMMA MaintenanceRestarts ==
    ASSUME MaintenanceInv, RestartMemory
    PROVE  MaintenanceInv'
<1>1. /\ RestartDigest /\ RestartDream /\ restarted' = TRUE /\ kind' = kind
      /\ file' = file /\ writes' = writes /\ disturbed' = disturbed
      BY DEF RestartMemory
<1>2. VaultType /\ VaultType'  BY <1>1 DEF MaintenanceInv, VaultType
<1>3. CASE kind = "digest" /\ DigestInv /\ dream = NoDream /\ dreamSaved = NoDream
  <2>1. DigestInv'  BY <1>1, <1>2, <1>3, DigestRestarts
  <2>2. dream' = NoDream /\ dreamSaved' = NoDream /\ dreamAt' = "idle" /\ rolling' = 0
        BY <1>1, <1>3, NoDreamType DEF RestartDream
  <2> QED  BY <1>1, <1>2, <1>3, <2>1, <2>2 DEF MaintenanceInv
<1>4. CASE kind = "dream" /\ DreamInv /\ NotDigested /\ digest = NoDigest /\ digestSaved = NoDigest
  <2>1. DreamInv'  BY <1>1, <1>2, <1>4, DreamRestarts
  <2>2. digest' = NoDigest /\ digestSaved' = NoDigest /\ digestAt' = "idle"
        BY <1>1, <1>4, NoDigestType DEF RestartDigest, Resumed
  <2>3. dream'.snapshot = dream.snapshot
        BY <1>1, <1>4 DEF RestartDream, DreamInv, DreamType, DreamSavedInv, DreamQueued, DreamJobs
  <2>4. NotDigested'  BY <1>1, <1>4, <2>3 DEF NotDigested
  <2> QED  BY <1>1, <1>2, <1>4, <2>1, <2>2, <2>4 DEF MaintenanceInv
<1> QED  BY <1>3, <1>4 DEF MaintenanceInv

LEMMA MaintenanceKept ==
    ASSUME MaintenanceInv, [MemoryNext]_memoryVars
    PROVE  MaintenanceInv'
<1>1. VaultType  BY DEF MaintenanceInv
<1>2. CASE kind = "digest" /\ DigestNext /\ UNCHANGED <<dreamVars, kind, restarted>>
  <2>1. DigestInv' /\ VaultType'  BY <1>1, <1>2, DigestSteps DEF MaintenanceInv
  <2> QED  BY <1>2, <2>1 DEF MaintenanceInv, dreamVars, batchVars
<1>3. CASE kind = "dream" /\ (DreamNext \/ DreamFault) /\ UNCHANGED <<digestVars, kind, restarted>>
  <2>1. DreamInv /\ NotDigested  BY <1>3 DEF MaintenanceInv
  <2>2. DreamInv' /\ VaultType'  BY <1>1, <1>3, <2>1, DreamSteps
  <2>3. NotDigested'  BY <1>1, <1>3, <2>1, DreamTexts
  <2> QED  BY <1>3, <2>2, <2>3 DEF MaintenanceInv, digestVars
<1>4. CASE UNCHANGED memoryVars
  <2>1. UNCHANGED <<vaultVars, digestVars, dreamVars, kind, restarted>>  BY <1>4 DEF memoryVars
  <2>2. VaultType'  BY <1>1, <2>1 DEF VaultType, vaultVars
  <2>3. DigestInv => DigestInv'
        BY <2>1 DEF DigestInv, DigestType, DigestSavedInv, ExecutorKnows, PendingApplicable,
           Applicable, StateMatches, KnownVersion, Exists, Foreign, Pending, digestVars, vaultVars
  <2>4. DreamInv /\ NotDigested => DreamInv' /\ NotDigested'
    <3> SUFFICES ASSUME DreamInv, NotDigested  PROVE DreamInv' /\ NotDigested'
      OBVIOUS
    <3>1. /\ UNCHANGED <<file, writes, disturbed, held, restarted>>
          /\ UNCHANGED <<dream, dreamSaved, dreamAt, applied, rolling, halfUndone>>
          BY <2>1 DEF dreamVars, batchVars, vaultVars
    <3>2. DreamType' /\ DreamSavedInv' /\ PlanSound'
          BY <3>1 DEF DreamInv, DreamType, DreamSavedInv, PlanSound, Covered
    <3>3. /\ VersionsName' /\ OnlyTheDream'
          /\ \A i : Unchanged(i)' = Unchanged(i)
          /\ \A op : Reached(op)' = Reached(op)
          BY <1>1, <3>1, DreamFrame
    <3>4. ReceiptsTrue'  BY <3>1, <3>3 DEF DreamInv, ReceiptsTrue, Undone
    <3>5. BatchSound'  BY <3>1, <3>3 DEF DreamInv, BatchSound, Unreceipted
    <3>6. WrittenInBatch'  BY <3>1 DEF DreamInv, WrittenInBatch, InBatch
    <3> QED  BY <3>1, <3>2, <3>3, <3>4, <3>5, <3>6 DEF DreamInv, NotDigested
  <2> QED  BY <2>1, <2>2, <2>3, <2>4 DEF MaintenanceInv, digestVars, dreamVars, batchVars
<1> QED  BY <1>2, <1>3, <1>4, MaintenanceEdited, MaintenanceRestarts DEF MemoryNext

(* MaintenanceInv relates the job that is followed, what is stored of it,  *)
(* and the vault (run in memory-dream-service.js and in                    *)
(* memory-digest-service.js, applyBatchesHeld in memory-operations.js).    *)
THEOREM MaintenanceInvInductive == MemorySpec => []MaintenanceInv
<1>1. MemoryInit => MaintenanceInv  BY MaintenanceStarts
<1>2. MaintenanceInv /\ [MemoryNext]_memoryVars => MaintenanceInv'  BY MaintenanceKept
<1> QED  BY <1>1, <1>2, PTL DEF MemorySpec

LEMMA MaintenanceTransacts == MaintenanceInv => JobsAreTransactions
<1> SUFFICES ASSUME MaintenanceInv  PROVE JobsAreTransactions
  OBVIOUS
<1>1. CASE kind = "digest" /\ DigestInv /\ dream = NoDream
  <2>1. dream.status = "none" /\ dream.error = "none"  BY <1>1, NoDreamType
  <2>2. digest.error = "conflict" => Foreign  BY <1>1 DEF DigestInv
  <2> QED  BY <2>1, <2>2 DEF JobsAreTransactions, DreamAllOrNothing, BatchAllOrNothing,
           DreamCarriedOut, ConflictIsForeign, Foreign
<1>2. CASE kind = "dream" /\ DreamInv /\ digest = NoDigest
  <2>1. ConflictIsForeign  BY <1>2, NoDigestType DEF DreamInv, ConflictIsForeign
  <2>2. BatchAllOrNothing
    <3> SUFFICES ASSUME dream.status \in {"failed", "cancelled"}, ~restarted, ~halfUndone,
                        NEW s \in Slugs, file[s].text = "dream"
                 PROVE  FALSE
      BY DEF BatchAllOrNothing
    <3>1. dreamAt = "idle"  BY <1>2 DEF DreamInv, DreamType
    <3> QED  BY <1>2, <3>1 DEF DreamInv, WrittenInBatch, InBatch
  <2>3. DreamCarriedOut
    <3> SUFFICES ASSUME dream.status = "succeeded", ~halfUndone,
                        NEW i \in 1 .. Len(dream.plan)
                 PROVE  Reached(dream.plan[i]) \/ ~Unchanged(i)
      BY DEF DreamCarriedOut, AllCarriedOut
    <3>1. dreamAt = "idle"  BY <1>2 DEF DreamInv, DreamType
    <3>2. ~Undone(i)  BY <1>2, <3>1 DEF DreamInv, BatchSound, Undone
    <3>3. i \in dream.receipts  BY <1>2 DEF DreamInv, PlanSound, Covered
    <3> QED  BY <1>2, <3>2, <3>3 DEF DreamInv, ReceiptsTrue
  <2> QED  BY <2>1, <2>2, <2>3 DEF JobsAreTransactions, DreamAllOrNothing
<1> QED  BY <1>1, <1>2 DEF MaintenanceInv

(* Memory maintenance behaves like transactions, for any vault, number of  *)
(* edits, failed batches and restarts: a Dream that did not succeed leaves *)
(* nothing behind and one that did was carried out, but for a roll-back    *)
(* cut short, and no job collides with its own writes                      *)
(* (JobsAreTransactions).                                                  *)
THEOREM JobsAreAlwaysTransactions == MemorySpec => []JobsAreTransactions
<1> QED  BY MaintenanceTransacts, MaintenanceInvInductive, PTL

LEMMA EditsKept ==
    ASSUME MaintenanceInv, [MemoryNext]_memoryVars, NEW s \in Slugs,
           Exists(s), file[s].text = "owner", file'[s].text \in {"digest", "dream"}
    PROVE  \/ dreamAt = "batch" /\ file[s].version = dream.snapshot[s].version
           \/ digestAt = "apply" /\ file[s].version = KnownVersion(s)
           \/ digestAt = "apply" /\ \E i \in Pending :
                 digest.proposals[i] = [slug |-> s, action |-> "create"]
<1>1. VaultType /\ file[s] \in Pages  BY DEF MaintenanceInv, VaultType
<1>2. file' # file  OBVIOUS
<1>3. CASE kind = "digest" /\ DigestNext /\ DigestInv
  <2>1. PICK i \in 1 .. MaxProposals : ApplyProposal(i)
        BY <1>2, <1>3 DEF DigestNext, EnqueueDigest, DigestAnswered, Preflight, DigestSucceeds,
           CancelDigest, RetryDigest, RunDigest, RecordProposal, vaultVars
  <2> DEFINE p == digest.proposals[i]
  <2>2. digestAt = "apply" /\ i \in Pending  BY <2>1 DEF ApplyProposal
  <2>3. digest.proposals # NoProposals  BY <1>3, <2>2 DEF DigestInv, DigestType
  <2>4. p \in Proposals /\ p.slug \in Slugs /\ file[p.slug] \in Pages
        BY <1>1, <1>3, <2>2, <2>3, PendingFacts DEF VaultType
  <2>5. /\ ~Stale(p)
        /\ \E text, archived : Write(p.slug, text, archived)
        BY <1>2, <2>1 DEF ApplyProposal
  <2>6. p.slug = s  BY <1>1, <2>4, <2>5 DEF Write, VaultType
  <2>7. CASE p.action = "create"
    <3>1. p = [slug |-> s, action |-> "create"]  BY <2>4, <2>6, <2>7 DEF Proposals
    <3> QED  BY <2>2, <3>1
  <2>8. CASE p.action # "create"  BY <2>2, <2>5, <2>6, <2>8 DEF Stale
  <2> QED  BY <2>7, <2>8
<1>4. CASE kind = "dream" /\ (DreamNext \/ DreamFault) /\ DreamInv /\ NotDigested
  <2>1. \/ \E i \in 1 .. 2 : ApplyNext(i)
        \/ RollBackOne
        BY <1>2, <1>4 DEF DreamNext, DreamFault, EnqueueDream, DreamAnswered, StartBatch,
           CommitBatch, RolledBack, CancelDream, RetryDream, DreamSucceeds, RunDream,
           FailBatch, RollBackFails, vaultVars
  <2>2. ASSUME NEW i \in 1 .. 2, ApplyNext(i)
        PROVE  dreamAt = "batch" /\ file[s].version = dream.snapshot[s].version
    <3>1. dreamAt = "batch" /\ rolling = 0 /\ i \in Unreceipted  BY <2>2 DEF ApplyNext
    <3>2. i \in 1 .. Len(dream.plan) /\ dream.plan[i].slug \in Slugs
          BY <1>4, <3>1, BatchFacts, OpFacts DEF Unreceipted
    <3>3. Unchanged(i)  BY <1>4, <3>1 DEF DreamInv, BatchSound
    <3>4. \E text, archived : Write(dream.plan[i].slug, text, archived)
          BY <2>2 DEF ApplyNext
    <3>5. dream.plan[i].slug = s  BY <1>1, <3>2, <3>4 DEF Write, VaultType
    <3> QED  BY <3>1, <3>3, <3>5 DEF Unchanged
  <2>3. ASSUME RollBackOne  PROVE FALSE
    <3>1. rolling \in Nat /\ rolling > 1
          BY <1>4, <2>3 DEF RollBackOne, DreamInv, DreamType
    <3>2. dreamAt = "batch"  BY <1>4, <3>1 DEF DreamInv, BatchSound
    <3>3. rolling - 1 \in 1 .. Len(applied)  BY <1>4, <3>1, <3>2, BatchFacts
    <3> DEFINE i == applied[rolling - 1].index
               q == dream.plan[i].slug
    <3>4. i \in 1 .. Len(dream.plan) /\ applied[rolling - 1].before = dream.snapshot[q]
          BY <1>4, <3>2, <3>3, BatchFacts
    <3>5. q \in Slugs  BY <1>4, <3>2, <3>4, BatchFacts, OpFacts
    <3>6. file' = [file EXCEPT ![q] = dream.snapshot[q]]  BY <2>3, <3>4 DEF RollBackOne
    <3>7. dream.snapshot[q].text \notin {"digest", "dream"}
          BY <1>4, <3>5 DEF DreamInv, VersionsName, NotDigested
    <3> QED  BY <1>1, <3>5, <3>6, <3>7 DEF VaultType
  <2> QED  BY <2>1, <2>2, <2>3
<1>5. CASE OwnerEdits
  <2>1. PICK q \in Slugs : EditFile(q)  BY <1>5 DEF OwnerEdits
  <2>2. /\ file'[q].text \in {"none", "owner", file[q].text}
        /\ \A r \in Slugs \ {q} : file'[r] = file[r]
        BY <1>1, <2>1, EditFacts
  <2> QED  BY <2>2
<1>6. CASE RestartMemory \/ UNCHANGED memoryVars
      BY <1>2, <1>6 DEF RestartMemory, memoryVars, vaultVars
<1> QED  BY <1>3, <1>4, <1>5, <1>6 DEF MemoryNext, MaintenanceInv

(* A job replaces a text of the owner only in the version the job knew, or *)
(* when it creates what came into being meanwhile, for any vault and any   *)
(* order of edits, failures and restarts (OwnerEditsKept; runDream's       *)
(* applyBatchesHeld and applyProposal).                                    *)
THEOREM OwnersAreKept == MemorySpec => OwnerEditsKept
<1>1. MaintenanceInv /\ [MemoryNext]_memoryVars =>
        [ \A s \in Slugs :
            Exists(s) /\ file[s].text = "owner" /\ file'[s].text \in {"digest", "dream"} =>
                \/ dreamAt = "batch" /\ file[s].version = dream.snapshot[s].version
                \/ digestAt = "apply" /\ file[s].version = KnownVersion(s)
                \/ digestAt = "apply" /\ \E i \in Pending :
                      digest.proposals[i] = [slug |-> s, action |-> "create"] ]_memoryVars
      BY EditsKept
<1> QED  BY <1>1, MaintenanceInvInductive, PTL DEF MemorySpec, OwnerEditsKept

-----------------------------------------------------------------------------
(* The runs a browser shows *)

RunNews  == {"started", "message", "backgrounded", "ended"}
ChatRows ==
    {NoRun} \cup [state : {"pending"}, session : ChatSessions, source : {FALSE}, said : {FALSE}]
            \cup [state : {"running", "ended"}, session : ChatSessions, source : BOOLEAN, said : BOOLEAN]

Entries == [state : {"pending", "running"}, source : BOOLEAN, said : BOOLEAN]

Announcements == [type : RunNews, run : ChatRuns, row : ChatRows] \cup [type : {"session"}, session : ChatSessions]

ChatTypes ==
    /\ chatRun \in [ChatRuns -> ChatRows]
    /\ chatSession \in ChatSessions
    /\ news \in Seq(Announcements) /\ heard \in 0 .. Len(news)
    /\ progress \in [ChatRuns -> {NoEntry} \cup Entries]
    /\ overtaken \subseteq ChatRuns
    /\ DOMAIN fetches = 1 .. MaxFetches

(* News i is about run r.                                                  *)
About(i, r) == news[i].type \in RunNews /\ news[i].run = r

(* What the events of a run say: each at most once, the start first and    *)
(* the end last, with the row as it was then.                              *)
NewsOrder ==
    \A i, j \in 1 .. Len(news) : \A r \in ChatRuns :
        About(i, r) /\ About(j, r) /\ i # j =>
            /\ news[i].type # news[j].type
            /\ news[i].type = "started" => i < j
            /\ news[i].type = "ended" => j < i

NewsSound ==
    \A i \in 1 .. Len(news) : \A r \in ChatRuns :
        About(i, r) =>
            LET old == news[i].row  row == chatRun[r] IN
            /\ old.session = row.session
            /\ row.state \in {"running", "ended"}
            /\ news[i].type = "started"      => old.state = "running" /\ ~old.source
            /\ news[i].type = "backgrounded" => old.state = "running" /\ old.source /\ row.source
            /\ news[i].type = "message"      => row.said
            /\ news[i].type = "ended"        => row.state = "ended"

(* An event of a run after the first n.                                    *)
Later(n, type, r) == \E i \in n + 1 .. Len(news) : news[i].type = type /\ news[i].run = r

NewsComplete ==
    \A r \in ChatRuns :
        LET row == chatRun[r] IN
        /\ row.source => Later(0, "backgrounded", r)
        /\ row.said => Later(0, "message", r)
        /\ row.state = "ended" => Later(0, "ended", r)

(* Only runs of the active session are at work.                            *)
WorkHere == \A r \in ChatRuns : Working(chatRun[r]) => chatRun[r].session = chatSession

NewsInv == NewsOrder /\ NewsSound /\ NewsComplete /\ WorkHere

(* Entry x, made when n events had been heard, differs from the run by     *)
(* what the later ones are going to change.                                *)
Fits(x, n, r) ==
    LET row == chatRun[r] IN
    /\ row.state = "none" => x = NoEntry
    /\ row.state = "pending" => x \in {NoEntry, [state |-> "pending", source |-> FALSE, said |-> FALSE]}
    /\ row.state = "running" =>
          /\ x # NoEntry => (x.source => row.source) /\ (x.said => row.said)
          /\ ~Later(n, "started", r) =>
                /\ x # NoEntry /\ x.state = "running"
                /\ row.source => x.source \/ Later(n, "backgrounded", r)
                /\ row.said => x.said \/ Later(n, "message", r)
    /\ row.state = "ended" => x = NoEntry \/ Later(n, "ended", r)

EntryOf(row) ==
    IF Working(row) THEN [state |-> row.state, source |-> row.source, said |-> row.said] ELSE NoEntry

SwitchAfter(n) == \E i \in n + 1 .. Len(news) : news[i].type = "session"

(* A row of an answer that was given after n events.                       *)
FormerRow(row, n, r) ==
    /\ row \in ChatRows /\ n \in 0 .. Len(news)
    /\ Fits(EntryOf(row), n, r)
    /\ Working(row) => row.session = chatRun[r].session

FetchSound(f) ==
    /\ f.kind \in {"nothing", "asked", "answered"}
    /\ f.kind = "nothing" => f = Nothing
    /\ f.kind = "answered" =>
          /\ f.session \in ChatSessions /\ f.at \in 0 .. Len(news)
          /\ SwitchAfter(f.at) \/ f.session = chatSession
          /\ \A r \in ChatRuns :
                /\ FormerRow(f.runs[r], f.at, r)
                /\ Working(f.runs[r]) => f.runs[r].session = f.session

FetchesSound == \A i \in 1 .. MaxFetches : FetchSound(fetches[i])

RequestSound ==
    /\ request.kind \in {"nothing", "message", "new", "resume", "switch", "reload"}
    /\ request.kind = "message" /\ request.stage = "answered" =>
          /\ request.run \in ChatRuns /\ request.row.state = "pending"
          /\ FormerRow(request.row, request.at, request.run)

ControlSound ==
    /\ control.kind \in {"nothing", "stop", "background"}
    /\ control.kind = "nothing" => control = Nothing
    /\ control.kind # "nothing" =>
          /\ control.stage \in {"asked", "answered"}
          /\ control.run \in ChatRuns /\ chatRun[control.run] # NoRun
          /\ control.stage = "answered" =>
                /\ control.kind = "stop" => chatRun[control.run].state = "ended"
                /\ control.kind = "background" =>
                      /\ FormerRow(control.row, control.at, control.run)
                      /\ Working(control.row) => control.row.state = "running" /\ control.row.source

RequestsSound == RequestSound /\ ControlSound

(* The view is about to be replaced.                                       *)
Suspended == SwitchAfter(heard) \/ \E i \in 1 .. MaxFetches : fetches[i] # Nothing

ShownSound ==
    /\ \A r \in ChatRuns : progress[r] # NoEntry => chatRun[r].state # "none"
    /\ ~Suspended =>
          \A r \in ChatRuns \ overtaken :
              /\ Fits(progress[r], heard, r)
              /\ chatRun[r].state # "ended" => context = chatSession

ChatInv == ChatTypes /\ NewsInv /\ FetchesSound /\ RequestsSound /\ ShownSound

-----------------------------------------------------------------------------
(* The gateway's part in it *)

USE DEF gatewaySide, waiting, progressVars, RunNews, Working, NoRun, Nothing

LEMMA RowsOfRuns ==
    ASSUME NEW row \in ChatRows
    PROVE  /\ row.state \in {"none", "pending", "running", "ended"}
           /\ row.session \in ChatSessions /\ row.source \in BOOLEAN /\ row.said \in BOOLEAN
           /\ DOMAIN row = {"state", "session", "source", "said"}
           /\ row.state = "none" => row = NoRun
           /\ row.state \in {"none", "pending"} => ~row.source /\ ~row.said
           /\ row.state # "none" =>
                 row \in [state : {"pending"}, session : ChatSessions, source : {FALSE}, said : {FALSE}]
                         \cup [state : {"running", "ended"}, session : ChatSessions, source : BOOLEAN, said : BOOLEAN]
<1>1. CASE row = NoRun
  BY <1>1, ChatAssumption DEF ChatRows
<1>2. CASE row \in [state : {"pending"}, session : ChatSessions, source : {FALSE}, said : {FALSE}]
  BY <1>2
<1>3. CASE row \in [state : {"running", "ended"}, session : ChatSessions, source : BOOLEAN, said : BOOLEAN]
  BY <1>3
<1>4. QED
  BY <1>1, <1>2, <1>3 DEF ChatRows

LEMMA NewsOfRuns ==
    ASSUME ChatTypes, NEW i \in 1 .. Len(news)
    PROVE  /\ news[i] \in Announcements
           /\ news[i].type \in RunNews => news[i].run \in ChatRuns /\ news[i].row \in ChatRows
           /\ news[i].type \in RunNews \cup {"session"}
           /\ news[i].type = "session" => news[i].session \in ChatSessions
<1>1. news[i] \in Announcements
  BY ElementOfSeq DEF ChatTypes
<1>2. QED
  BY <1>1 DEF Announcements

(* What is published is appended.                                          *)
LEMMA Announced ==
    ASSUME ChatTypes, NEW e \in Announcements, news' = Append(news, e)
    PROVE  /\ news' \in Seq(Announcements)
           /\ Len(news) \in Nat /\ Len(news') = Len(news) + 1
           /\ \A i \in 1 .. Len(news) : news'[i] = news[i]
           /\ news'[Len(news) + 1] = e
<1>1. news \in Seq(Announcements)
  BY DEF ChatTypes
<1>2. QED
  BY <1>1, AppendProperties

(* How a row may change, and what is told of it.                           *)
Changed(type, r) ==
    LET old == chatRun[r]  row == chatRun'[r] IN
    /\ row.session = old.session
    /\ CASE type = "started"      -> /\ old.state = "pending" /\ row.state = "running"
                                     /\ row.source = old.source /\ row.said = old.said
         [] type = "message"      -> /\ old.state = "running" /\ row.state = "running"
                                     /\ ~old.said /\ row.said /\ row.source = old.source
         [] type = "backgrounded" -> /\ old.state = "running" /\ row.state = "running"
                                     /\ ~old.source /\ row.source /\ row.said = old.said
         [] type = "ended"        -> /\ old.state \in {"pending", "running"} /\ row.state = "ended"
                                     /\ row.source = old.source /\ row.said = old.said

Told(type, r) ==
    /\ type \in RunNews /\ r \in ChatRuns
    /\ chatRun' \in [ChatRuns -> ChatRows] /\ Changed(type, r)
    /\ \A q \in ChatRuns : q # r => chatRun'[q] = chatRun[q]
    /\ chatSession' = chatSession
    /\ news' = Append(news, [type |-> type, run |-> r, row |-> chatRun'[r]])

LEMMA RowChanges ==
    ASSUME ChatTypes, NEW r \in ChatRuns
    PROVE  /\ RunStarted(r) => Told("started", r)
           /\ Speaks(r) => Told("message", r)
           /\ Backgrounded(r) => Told("backgrounded", r)
           /\ RunEnded(r) => Told("ended", r)
<1>1. PICK old : old = chatRun[r]
  OBVIOUS
<1>2. old \in ChatRows /\ chatRun \in [ChatRuns -> ChatRows]
  BY <1>1 DEF ChatTypes
<1>3. old.state # "none" =>
          old \in [state : {"pending"}, session : ChatSessions, source : {FALSE}, said : {FALSE}]
                  \cup [state : {"running", "ended"}, session : ChatSessions, source : BOOLEAN, said : BOOLEAN]
  BY <1>2, RowsOfRuns
<1>4. ASSUME NEW type \in RunNews, NEW row, Tell(type, r, row), row \in ChatRows
      PROVE  /\ chatRun' \in [ChatRuns -> ChatRows] /\ chatRun'[r] = row
             /\ \A q \in ChatRuns : q # r => chatRun'[q] = chatRun[q]
             /\ chatSession' = chatSession
             /\ news' = Append(news, [type |-> type, run |-> r, row |-> chatRun'[r]])
  BY <1>2, <1>4 DEF Tell, Announce
<1>5. ASSUME RunStarted(r)
      PROVE  Told("started", r)
  <2>1. PICK row : row = [old EXCEPT !.state = "running"]
    OBVIOUS
  <2>2. old.state = "pending" /\ Tell("started", r, row)
    BY <1>1, <1>5, <2>1 DEF RunStarted
  <2>3. /\ row \in ChatRows /\ row.state = "running" /\ row.session = old.session
        /\ row.source = old.source /\ row.said = old.said
    BY <1>3, <2>1, <2>2 DEF ChatRows
  <2>4. QED
    BY <1>1, <1>4, <2>2, <2>3 DEF Told, Changed
<1>6. ASSUME Speaks(r)
      PROVE  Told("message", r)
  <2>1. PICK row : row = [old EXCEPT !.said = TRUE]
    OBVIOUS
  <2>2. old.state = "running" /\ ~old.said /\ Tell("message", r, row)
    BY <1>1, <1>6, <2>1 DEF Speaks
  <2>3. /\ row \in ChatRows /\ row.state = "running" /\ row.session = old.session
        /\ row.source = old.source /\ row.said
    BY <1>3, <2>1, <2>2 DEF ChatRows
  <2>4. QED
    BY <1>1, <1>4, <2>2, <2>3 DEF Told, Changed
<1>7. ASSUME Backgrounded(r)
      PROVE  Told("backgrounded", r)
  <2>1. PICK row : row = [old EXCEPT !.source = TRUE]
    OBVIOUS
  <2>2. old.state = "running" /\ ~old.source /\ Tell("backgrounded", r, row)
    BY <1>1, <1>7, <2>1 DEF Backgrounded
  <2>3. /\ row \in ChatRows /\ row.state = "running" /\ row.session = old.session
        /\ row.source /\ row.said = old.said
    BY <1>3, <2>1, <2>2 DEF ChatRows
  <2>4. QED
    BY <1>1, <1>4, <2>2, <2>3 DEF Told, Changed
<1>8. ASSUME RunEnded(r)
      PROVE  Told("ended", r)
  <2>1. PICK row : row = [old EXCEPT !.state = "ended"]
    OBVIOUS
  <2>2. old.state \in {"pending", "running"} /\ Tell("ended", r, row)
    BY <1>1, <1>8, <2>1 DEF RunEnded
  <2>3. /\ row \in ChatRows /\ row.state = "ended" /\ row.session = old.session
        /\ row.source = old.source /\ row.said = old.said
    BY <1>3, <2>1, <2>2 DEF ChatRows
  <2>4. QED
    BY <1>1, <1>4, <2>2, <2>3 DEF Told, Changed
<1>9. QED
  BY <1>5, <1>6, <1>7, <1>8

(* A later event of a run explains what it changes of the row.             *)
LEMMA LaterTold ==
    ASSUME ChatTypes, NEW t, NEW q, Told(t, q), NEW n \in 0 .. Len(news)
    PROVE  /\ SwitchAfter(n)' <=> SwitchAfter(n)
           /\ \A type \in RunNews : \A r \in ChatRuns :
                 Later(n, type, r)' <=> (Later(n, type, r) \/ (type = t /\ r = q))
<1>1. PICK e : e = [type |-> t, run |-> q, row |-> chatRun'[q]]
  OBVIOUS
<1>2. e \in Announcements /\ news' = Append(news, e) /\ e.type = t /\ e.run = q /\ t # "session"
  <2>1. chatRun'[q] \in ChatRows /\ t \in RunNews /\ q \in ChatRuns
    BY DEF Told
  <2>2. QED
    BY <1>1, <2>1 DEF Announcements, Told
<1>3. /\ Len(news) \in Nat /\ Len(news') = Len(news) + 1
      /\ \A i \in 1 .. Len(news) : news'[i] = news[i]
      /\ news'[Len(news) + 1] = e
  BY <1>2, Announced
<1>4. SwitchAfter(n)' <=> SwitchAfter(n)
  BY <1>2, <1>3 DEF SwitchAfter
<1>5. ASSUME NEW type \in RunNews, NEW r \in ChatRuns
      PROVE  Later(n, type, r)' <=> (Later(n, type, r) \/ (type = t /\ r = q))
  <2>1. Len(news) + 1 \in n + 1 .. Len(news')
    BY <1>3
  <2>2. \A i \in n + 1 .. Len(news') : i = Len(news) + 1 \/ i \in n + 1 .. Len(news)
    BY <1>3
  <2>3. \A i \in n + 1 .. Len(news) : i \in n + 1 .. Len(news') /\ i \in 1 .. Len(news)
    BY <1>3
  <2>4. QED
    BY <1>2, <1>3, <2>1, <2>2, <2>3 DEF Later
<1>6. QED
  BY <1>4, <1>5

LEMMA FitsTold ==
    ASSUME ChatTypes, NEW t, NEW q, Told(t, q), NEW n \in 0 .. Len(news), NEW r \in ChatRuns,
           NEW x \in {NoEntry} \cup Entries, Fits(x, n, r)
    PROVE  Fits(x, n, r)'
<1>1. \A type \in RunNews : Later(n, type, r)' <=> (Later(n, type, r) \/ (type = t /\ r = q))
  BY LaterTold
<1>2. CASE r # q
  <2>1. chatRun'[r] = chatRun[r]
    BY <1>2 DEF Told
  <2>2. QED
    BY <1>1, <1>2, <2>1 DEF Fits
<1>3. CASE r = q
  <2>1. PICK old, row : old = chatRun[r] /\ row = chatRun'[r]
    OBVIOUS
  <2>2. /\ old.source \in BOOLEAN /\ old.said \in BOOLEAN /\ row.source \in BOOLEAN /\ row.said \in BOOLEAN
        /\ old.state = "pending" => ~old.source /\ ~old.said
    BY <1>3, <2>1, RowsOfRuns DEF ChatTypes, Told
  <2>3. t \in RunNews /\ Changed(t, r)
    BY <1>3 DEF Told
  <2>4. x = NoEntry \/ (x.source \in BOOLEAN /\ x.said \in BOOLEAN)
    BY DEF Entries
  <2>5. CASE t = "started"
    <3>1. /\ old.state = "pending" /\ row.state = "running" /\ row.source = old.source /\ row.said = old.said
          /\ Later(n, "started", r)'
      BY <1>1, <1>3, <2>1, <2>3, <2>5 DEF Changed
    <3>2. x = NoEntry \/ (x.source = FALSE /\ x.said = FALSE)
      BY <2>1, <3>1 DEF Fits
    <3>3. QED
      BY <2>1, <2>2, <3>1, <3>2 DEF Fits
  <2>6. CASE t = "message"
    <3>1. /\ old.state = "running" /\ row.state = "running" /\ row.source = old.source /\ row.said
          /\ Later(n, "message", r)'
      BY <1>1, <1>3, <2>1, <2>3, <2>6 DEF Changed
    <3>2. QED
      BY <1>1, <2>1, <2>2, <2>6, <3>1 DEF Fits
  <2>7. CASE t = "backgrounded"
    <3>1. /\ old.state = "running" /\ row.state = "running" /\ row.source /\ row.said = old.said
          /\ Later(n, "backgrounded", r)'
      BY <1>1, <1>3, <2>1, <2>3, <2>7 DEF Changed
    <3>2. QED
      BY <1>1, <2>1, <2>2, <2>7, <3>1 DEF Fits
  <2>8. CASE t = "ended"
    <3>1. row.state = "ended" /\ Later(n, "ended", r)'
      BY <1>1, <1>3, <2>1, <2>3, <2>8 DEF Changed
    <3>2. QED
      BY <2>1, <3>1 DEF Fits
  <2>9. QED
    BY <2>3, <2>5, <2>6, <2>7, <2>8
<1>4. QED
  BY <1>2, <1>3

LEMMA NewsTold ==
    ASSUME ChatTypes, NewsInv, NEW t, NEW q, Told(t, q)
    PROVE  NewsInv'
<1>1. PICK e : e = [type |-> t, run |-> q, row |-> chatRun'[q]]
  OBVIOUS
<1>2. /\ e \in Announcements /\ news' = Append(news, e)
      /\ e.type = t /\ e.run = q /\ e.row = chatRun'[q] /\ t \in RunNews /\ q \in ChatRuns
  <2>1. chatRun'[q] \in ChatRows /\ t \in RunNews /\ q \in ChatRuns
    BY DEF Told
  <2>2. QED
    BY <1>1, <2>1 DEF Announcements, Told
<1>3. /\ Len(news) \in Nat /\ Len(news') = Len(news) + 1
      /\ \A i \in 1 .. Len(news) : news'[i] = news[i]
      /\ news'[Len(news) + 1] = e
  BY <1>2, Announced
<1> PICK k : k = Len(news) + 1
  OBVIOUS
<1>4. /\ \A i \in 1 .. Len(news') : i \in 1 .. Len(news) \/ i = k
      /\ \A i \in 1 .. Len(news) : i < k /\ i \in Int
      /\ news'[k] = e /\ k \in Nat
  BY <1>3
<1>5. /\ \A i \in 1 .. Len(news) : \A r \in ChatRuns : About(i, r)' <=> About(i, r)
      /\ \A r \in ChatRuns : About(k, r)' <=> (r = q)
  BY <1>2, <1>3, <1>4 DEF About
<1>6. PICK old, row : old = chatRun[q] /\ row = chatRun'[q]
  OBVIOUS
<1>7. Changed(t, q)
  BY DEF Told
<1>8. /\ row.session = old.session /\ row.state \in {"running", "ended"}
      /\ t = "started" => row.state = "running" /\ ~row.source /\ old.state = "pending"
      /\ t = "message" => old.state = "running" /\ row.said /\ ~old.said
      /\ t = "backgrounded" => old.state = "running" /\ row.state = "running" /\ ~old.source /\ row.source
      /\ t = "ended" => row.state = "ended"
      /\ old.state # "ended"
      /\ old.source => row.source
      /\ old.said => row.said
  <2>1. old.source \in BOOLEAN /\ old.said \in BOOLEAN /\ (old.state = "pending" => ~old.source)
    BY <1>2, <1>6, RowsOfRuns DEF ChatTypes
  <2>2. QED
    BY <1>2, <1>6, <1>7, <2>1 DEF Changed
<1>9. \A i \in 1 .. Len(news) : About(i, q) =>
         /\ news[i].type \in RunNews /\ news[i].type # "ended" /\ news[i].type # t /\ t # "started"
         /\ old.state = "running"
  <2>1. \A i \in 1 .. Len(news) : About(i, q) =>
           /\ old.state \in {"running", "ended"}
           /\ news[i].type = "backgrounded" => old.source
           /\ news[i].type = "message" => old.said
           /\ news[i].type = "ended" => old.state = "ended"
    BY <1>2, <1>6 DEF NewsInv, NewsSound
  <2>2. \A i : About(i, q) => news[i].type \in RunNews
    BY DEF About
  <2>3. QED
    BY <1>2, <1>8, <2>1, <2>2
<1>10. NewsOrder'
  <2> SUFFICES ASSUME NEW i \in 1 .. Len(news'), NEW j \in 1 .. Len(news'), NEW r \in ChatRuns,
                      About(i, r)', About(j, r)', i # j
               PROVE  /\ news'[i].type # news'[j].type
                      /\ news'[i].type = "started" => i < j
                      /\ news'[i].type = "ended" => j < i
    BY DEF NewsOrder
  <2>1. CASE i \in 1 .. Len(news) /\ j \in 1 .. Len(news)
    BY <1>3, <1>5, <2>1 DEF NewsInv, NewsOrder
  <2>2. CASE i \in 1 .. Len(news) /\ j = k
    BY <1>2, <1>3, <1>4, <1>5, <1>9, <2>2
  <2>3. CASE i = k /\ j \in 1 .. Len(news)
    BY <1>2, <1>3, <1>4, <1>5, <1>9, <2>3
  <2>4. QED
    BY <1>4, <2>1, <2>2, <2>3
<1>11. NewsSound'
  <2> SUFFICES ASSUME NEW i \in 1 .. Len(news'), NEW r \in ChatRuns, About(i, r)'
               PROVE  /\ news'[i].row.session = chatRun'[r].session
                      /\ chatRun'[r].state \in {"running", "ended"}
                      /\ news'[i].type = "started" => news'[i].row.state = "running" /\ ~news'[i].row.source
                      /\ news'[i].type = "backgrounded" =>
                            news'[i].row.state = "running" /\ news'[i].row.source /\ chatRun'[r].source
                      /\ news'[i].type = "message" => chatRun'[r].said
                      /\ news'[i].type = "ended" => chatRun'[r].state = "ended"
    BY DEF NewsSound
  <2>1. CASE i = k
    BY <1>2, <1>4, <1>5, <1>6, <1>8, <2>1
  <2>2. CASE i \in 1 .. Len(news)
    <3>1. /\ news'[i] = news[i] /\ About(i, r)
          /\ news[i].row.session = chatRun[r].session
          /\ chatRun[r].state \in {"running", "ended"}
          /\ news[i].type = "started" => news[i].row.state = "running" /\ ~news[i].row.source
          /\ news[i].type = "backgrounded" =>
                news[i].row.state = "running" /\ news[i].row.source /\ chatRun[r].source
          /\ news[i].type = "message" => chatRun[r].said
          /\ news[i].type = "ended" => chatRun[r].state = "ended"
      BY <1>3, <1>5, <2>2 DEF NewsInv, NewsSound
    <3>2. CASE r = q
      BY <1>6, <1>8, <1>9, <2>2, <3>1, <3>2
    <3>3. CASE r # q
      BY <3>1, <3>3 DEF Told
    <3>4. QED
      BY <3>2, <3>3
  <2>3. QED
    BY <1>4, <2>1, <2>2
<1>12. NewsComplete'
  <2>1. \A type \in RunNews : \A r \in ChatRuns :
           Later(0, type, r)' <=> (Later(0, type, r) \/ (type = t /\ r = q))
    BY <1>3, LaterTold
  <2>2. \A r \in ChatRuns : r # q => chatRun'[r] = chatRun[r]
    BY DEF Told
  <2>3. /\ row.source = old.source \/ t = "backgrounded"
        /\ row.said = old.said \/ t = "message"
        /\ row.state = "ended" => t = "ended"
    BY <1>2, <1>6, <1>7 DEF Changed
  <2>4. ASSUME NEW r \in ChatRuns
        PROVE  /\ chatRun'[r].source => Later(0, "backgrounded", r)'
               /\ chatRun'[r].said => Later(0, "message", r)'
               /\ chatRun'[r].state = "ended" => Later(0, "ended", r)'
    <3>1. /\ chatRun[r].source => Later(0, "backgrounded", r)
          /\ chatRun[r].said => Later(0, "message", r)
          /\ chatRun[r].state = "ended" => Later(0, "ended", r)
      BY DEF NewsInv, NewsComplete
    <3>2. CASE r = q
      BY <1>6, <2>1, <2>3, <3>1, <3>2
    <3>3. CASE r # q
      BY <2>1, <2>2, <3>1, <3>3
    <3>4. QED
      BY <3>2, <3>3
  <2>5. QED
    BY <2>4 DEF NewsComplete
<1>13. WorkHere'
  <2>1. \A r \in ChatRuns : r # q => chatRun'[r] = chatRun[r]
    BY DEF Told
  <2>2. old.state \in {"pending", "running"}
    BY <1>2, <1>6, <1>7 DEF Changed
  <2>3. old.session = chatSession /\ chatSession' = chatSession
    BY <1>2, <1>6, <2>2 DEF NewsInv, WorkHere, Told
  <2>4. QED
    BY <1>2, <1>6, <1>8, <2>1, <2>3 DEF NewsInv, WorkHere
<1>14. QED
  BY <1>10, <1>11, <1>12, <1>13 DEF NewsInv

(* What a step of the gateway leaves true.                                 *)
GatewayKeeps ==
    /\ chatRun' \in [ChatRuns -> ChatRows] /\ chatSession' \in ChatSessions
    /\ news' \in Seq(Announcements) /\ Len(news) \in Nat /\ Len(news') \in Nat /\ Len(news) <= Len(news')
    /\ NewsInv'
    /\ \A r \in ChatRuns :
          /\ chatRun[r].state # "none" =>
                chatRun'[r].state # "none" /\ chatRun'[r].session = chatRun[r].session
          /\ chatRun[r].state = "ended" => chatRun'[r].state = "ended"
    /\ \A n \in 0 .. Len(news) :
          /\ SwitchAfter(n) => SwitchAfter(n)'
          /\ SwitchAfter(n)' \/ chatSession' = chatSession
          /\ \A r \in ChatRuns : \A x \in {NoEntry} \cup Entries : Fits(x, n, r) => Fits(x, n, r)'

LEMMA GatewayTells ==
    ASSUME ChatTypes, NewsInv, NEW t, NEW q, Told(t, q)
    PROVE  GatewayKeeps
<1>1. chatRun' \in [ChatRuns -> ChatRows] /\ chatSession' \in ChatSessions /\ chatSession' = chatSession
  BY DEF Told, ChatTypes
<1>2. PICK e : e = [type |-> t, run |-> q, row |-> chatRun'[q]]
  OBVIOUS
<1>3. e \in Announcements /\ news' = Append(news, e)
  <2>1. chatRun'[q] \in ChatRows /\ t \in RunNews /\ q \in ChatRuns
    BY DEF Told
  <2>2. QED
    BY <1>2, <2>1 DEF Announcements, Told
<1>4. news' \in Seq(Announcements) /\ Len(news) \in Nat /\ Len(news') = Len(news) + 1
  BY <1>3, Announced
<1>5. NewsInv'
  BY NewsTold
<1>6. \A r \in ChatRuns :
         /\ chatRun[r].state # "none" =>
               chatRun'[r].state # "none" /\ chatRun'[r].session = chatRun[r].session
         /\ chatRun[r].state = "ended" => chatRun'[r].state = "ended"
  <2>1. Changed(t, q) /\ t \in RunNews /\ \A r \in ChatRuns : r # q => chatRun'[r] = chatRun[r]
    BY DEF Told
  <2>2. /\ chatRun'[q].state # "none" /\ chatRun'[q].session = chatRun[q].session
        /\ chatRun[q].state # "ended"
    BY <2>1 DEF Changed
  <2>3. QED
    BY <2>1, <2>2
<1>7. \A n \in 0 .. Len(news) :
         /\ SwitchAfter(n) => SwitchAfter(n)'
         /\ SwitchAfter(n)' \/ chatSession' = chatSession
         /\ \A r \in ChatRuns : \A x \in {NoEntry} \cup Entries : Fits(x, n, r) => Fits(x, n, r)'
  <2>1. \A n \in 0 .. Len(news) : SwitchAfter(n) => SwitchAfter(n)'
    BY LaterTold
  <2>2. QED
    BY <1>1, <2>1, FitsTold
<1>8. Len(news') \in Nat /\ Len(news) <= Len(news')
  BY <1>4
<1>9. QED
  BY <1>1, <1>4, <1>5, <1>6, <1>7, <1>8, Zenon DEF GatewayKeeps

LEMMA GatewayCreates ==
    ASSUME ChatTypes, NewsInv, NEW q \in ChatRuns, RunCreated(q)
    PROVE  GatewayKeeps
<1>1. PICK row : row = [state |-> "pending", session |-> chatSession, source |-> FALSE, said |-> FALSE]
  OBVIOUS
<1>2. /\ chatRun' = [chatRun EXCEPT ![q] = row] /\ chatRun[q] = NoRun
      /\ chatSession' = chatSession /\ news' = news
  <2>1. PICK y : y = [NoRun EXCEPT !.state = "pending", !.session = chatSession]
    OBVIOUS
  <2>2. PICK z : z = [NoRun EXCEPT !.state = "pending"]
    OBVIOUS
  <2>3. z = [state |-> "pending", session |-> FirstSession, source |-> FALSE, said |-> FALSE]
    BY <2>2
  <2>4. y = [z EXCEPT !.session = chatSession]
    BY <2>1, <2>2
  <2>5. y = row
    <3>1. DOMAIN y = {"state", "session", "source", "said"}
      BY <2>3, <2>4
    <3>2. y.state = "pending" /\ y.session = chatSession /\ y.source = FALSE /\ y.said = FALSE
      BY <2>3, <2>4
    <3>3. y = [f \in {"state", "session", "source", "said"} |-> y[f]]
      BY <2>3, <2>4
    <3>4. QED
      BY <1>1, <3>1, <3>2, <3>3
  <2>6. QED
    BY <2>1, <2>5 DEF RunCreated
<1>3. row \in ChatRows
  BY <1>1 DEF ChatTypes, ChatRows
<1>4. /\ chatRun' \in [ChatRuns -> ChatRows] /\ chatRun'[q] = row
      /\ \A r \in ChatRuns : r # q => chatRun'[r] = chatRun[r]
      /\ chatRun[q].state = "none" /\ ~chatRun[q].source /\ ~chatRun[q].said
  BY <1>2, <1>3 DEF ChatTypes
<1>5. /\ \A n, type, r : Later(n, type, r)' <=> Later(n, type, r)
      /\ \A n : SwitchAfter(n)' <=> SwitchAfter(n)
      /\ \A i, r : About(i, r)' <=> About(i, r)
  BY <1>2 DEF Later, SwitchAfter, About
<1>6. \A i \in 1 .. Len(news) : ~About(i, q)
  BY <1>4 DEF NewsInv, NewsSound
<1>7. NewsInv'
  <2>1. NewsOrder'
    BY <1>2, <1>5 DEF NewsInv, NewsOrder
  <2>2. NewsSound'
    BY <1>2, <1>4, <1>5, <1>6 DEF NewsInv, NewsSound
  <2>3. NewsComplete'
    BY <1>1, <1>4, <1>5 DEF NewsInv, NewsComplete
  <2>4. WorkHere'
    BY <1>1, <1>2, <1>4 DEF NewsInv, WorkHere
  <2>5. QED
    BY <2>1, <2>2, <2>3, <2>4 DEF NewsInv
<1>8. ASSUME NEW n \in 0 .. Len(news), NEW r \in ChatRuns, NEW x \in {NoEntry} \cup Entries, Fits(x, n, r)
      PROVE  Fits(x, n, r)'
  <2>1. CASE r = q
    <3>1. x = NoEntry
      BY <1>4, <1>8, <2>1 DEF Fits
    <3>2. QED
      BY <1>1, <1>4, <2>1, <3>1 DEF Fits
  <2>2. CASE r # q
    BY <1>4, <1>5, <1>8, <2>2 DEF Fits
  <2>3. QED
    BY <2>1, <2>2
<1>9. /\ news \in Seq(Announcements) /\ Len(news) \in Nat /\ Len(news) <= Len(news')
      /\ chatSession \in ChatSessions
  BY <1>2 DEF ChatTypes
<1>10. \A r \in ChatRuns :
         /\ chatRun[r].state # "none" =>
               chatRun'[r].state # "none" /\ chatRun'[r].session = chatRun[r].session
         /\ chatRun[r].state = "ended" => chatRun'[r].state = "ended"
  BY <1>4
<1>11. \A n : SwitchAfter(n) => SwitchAfter(n)'
  BY <1>5
<1>12. QED
  BY <1>2, <1>4, <1>7, <1>8, <1>9, <1>10, <1>11, Zenon DEF GatewayKeeps

LEMMA GatewaySwitches ==
    ASSUME ChatTypes, NewsInv, NEW s \in ChatSessions, Switched(s)
    PROVE  GatewayKeeps /\ chatRun' = chatRun /\ \A n \in 0 .. Len(news) : SwitchAfter(n)'
<1>1. PICK e : e = [type |-> "session", session |-> s]
  OBVIOUS
<1>2. e \in Announcements /\ news' = Append(news, e) /\ e.type = "session"
  BY <1>1 DEF Announcements, Switched
<1>3. /\ news' \in Seq(Announcements) /\ Len(news) \in Nat /\ Len(news') = Len(news) + 1
      /\ \A i \in 1 .. Len(news) : news'[i] = news[i]
      /\ news'[Len(news) + 1] = e
  BY <1>2, Announced
<1> PICK k : k = Len(news) + 1
  OBVIOUS
<1>4. /\ \A n \in 0 .. Len(news) : k \in n + 1 .. Len(news')
      /\ \A n \in 0 .. Len(news) : \A i \in n + 1 .. Len(news') : i = k \/ (i \in n + 1 .. Len(news) /\ i \in 1 .. Len(news))
      /\ \A n \in 0 .. Len(news) : \A i \in n + 1 .. Len(news) : i \in n + 1 .. Len(news') /\ i \in 1 .. Len(news)
      /\ news'[k] = e /\ 0 \in 0 .. Len(news)
  BY <1>3
<1>5. \A n \in 0 .. Len(news) : SwitchAfter(n)'
  BY <1>2, <1>4 DEF SwitchAfter
<1>6. \A n \in 0 .. Len(news) : \A type \in RunNews : \A r \in ChatRuns : Later(n, type, r)' <=> Later(n, type, r)
  BY <1>2, <1>3, <1>4 DEF Later
<1>7. /\ \A i \in 1 .. Len(news) : \A r \in ChatRuns : About(i, r)' <=> About(i, r)
      /\ \A r \in ChatRuns : ~About(k, r)'
      /\ \A i \in 1 .. Len(news') : i \in 1 .. Len(news) \/ i = k
  BY <1>2, <1>3, <1>4 DEF About
<1>8. chatRun' = chatRun /\ \A r \in ChatRuns : ~(chatRun[r].session = chatSession /\ Working(chatRun[r]))
  BY DEF Switched
<1>9. NewsInv'
  <2>1. NewsOrder'
    BY <1>3, <1>7 DEF NewsInv, NewsOrder
  <2>2. NewsSound'
    BY <1>3, <1>7, <1>8 DEF NewsInv, NewsSound
  <2>3. NewsComplete'
    BY <1>4, <1>6, <1>8 DEF NewsInv, NewsComplete
  <2>4. WorkHere'
    BY <1>8 DEF NewsInv, WorkHere
  <2>5. QED
    BY <2>1, <2>2, <2>3, <2>4 DEF NewsInv
<1>10. \A n \in 0 .. Len(news) : \A r \in ChatRuns : \A x \in {NoEntry} \cup Entries : Fits(x, n, r) => Fits(x, n, r)'
  BY <1>6, <1>8 DEF Fits
<1>11. chatSession' \in ChatSessions
  BY DEF Switched
<1>12. Len(news') \in Nat /\ Len(news) <= Len(news') /\ chatRun \in [ChatRuns -> ChatRows]
  BY <1>3 DEF ChatTypes
<1>13. QED
  BY <1>3, <1>5, <1>8, <1>9, <1>10, <1>11, <1>12, Zenon DEF GatewayKeeps

(* What is known about a row stays true of it.                             *)
LEMMA FormerStays ==
    ASSUME ChatTypes, GatewayKeeps, NEW r \in ChatRuns, NEW row, NEW n, FormerRow(row, n, r)
    PROVE  FormerRow(row, n, r)'
<1>1. row \in ChatRows /\ n \in 0 .. Len(news) /\ Fits(EntryOf(row), n, r)
  BY DEF FormerRow
<1>2. PICK x : x = EntryOf(row)
  OBVIOUS
<1>3. x \in {NoEntry} \cup Entries
  BY <1>1, <1>2, RowsOfRuns DEF EntryOf, Entries
<1>4. Fits(x, n, r)'
  BY <1>1, <1>2, <1>3 DEF GatewayKeeps
<1>5. n \in 0 .. Len(news')
  BY <1>1 DEF GatewayKeeps
<1>6. ASSUME Working(row)
      PROVE  row.session = chatRun'[r].session
  <2>1. x # NoEntry
    <3>1. x = [state |-> row.state, source |-> row.source, said |-> row.said]
      BY <1>2, <1>6 DEF EntryOf
    <3>2. row.state \in {"pending", "running"} /\ row.source \in BOOLEAN /\ row.said \in BOOLEAN
      BY <1>1, <1>6, RowsOfRuns
    <3>3. QED
      BY <3>1, <3>2, ChatAssumption
  <2>2. chatRun[r].state # "none"
    BY <1>1, <1>2, <2>1 DEF Fits
  <2>3. QED
    BY <1>6, <2>2 DEF FormerRow, GatewayKeeps
<1>7. Fits(EntryOf(row), n, r)'
  BY <1>2, <1>4
<1>8. QED
  BY <1>1, <1>5, <1>6, <1>7 DEF FormerRow

LEMMA FetchStays ==
    ASSUME ChatTypes, GatewayKeeps, NEW f, FetchSound(f)
    PROVE  FetchSound(f)'
<1>1. /\ f.kind \in {"nothing", "asked", "answered"}
      /\ f.kind = "nothing" => f = Nothing
      /\ f.kind = "answered" =>
            /\ f.session \in ChatSessions /\ f.at \in 0 .. Len(news)
            /\ SwitchAfter(f.at) \/ f.session = chatSession
            /\ \A r \in ChatRuns :
                  /\ FormerRow(f.runs[r], f.at, r)
                  /\ Working(f.runs[r]) => f.runs[r].session = f.session
  BY DEF FetchSound
<1>2. f.kind = "answered" => \A r \in ChatRuns : FormerRow(f.runs[r], f.at, r)'
  BY <1>1, FormerStays
<1>3. ASSUME f.kind = "answered"
      PROVE  (SwitchAfter(f.at)' \/ f.session = chatSession') /\ f.at \in 0 .. Len(news')
  <2>1. f.at \in 0 .. Len(news) /\ f.at \in 0 .. Len(news')
    BY <1>1, <1>3 DEF GatewayKeeps
  <2>2. PICK n : n = f.at
    OBVIOUS
  <2>3. (SwitchAfter(n) => SwitchAfter(n)') /\ (SwitchAfter(n)' \/ chatSession' = chatSession)
    BY <2>1, <2>2 DEF GatewayKeeps
  <2>4. QED
    BY <1>1, <1>3, <2>1, <2>2, <2>3
<1>4. QED
  BY <1>1, <1>2, <1>3 DEF FetchSound

(* The gateway does something while the view stays as it is.               *)
LEMMA GatewayInv ==
    ASSUME ChatInv, GatewayKeeps,
           \A r \in ChatRuns : chatRun[r].state = "none" /\ chatRun'[r].state # "none" => chatSession' = chatSession,
           UNCHANGED <<fetches, progress, viewed, context, heard, overtaken>>
    PROVE  ChatTypes' /\ NewsInv' /\ FetchesSound' /\ ShownSound'
<1>1. ChatTypes
  BY DEF ChatInv
<1>2. ChatTypes' /\ NewsInv'
  <2>1. heard' \in 0 .. Len(news')
    BY <1>1 DEF GatewayKeeps, ChatTypes
  <2>2. QED
    BY <1>1, <2>1 DEF GatewayKeeps, ChatTypes
<1>3. FetchesSound'
  <2> SUFFICES ASSUME NEW i \in 1 .. MaxFetches, NEW f, f = fetches[i]
               PROVE  FetchSound(f)'
    BY DEF FetchesSound
  <2>1. FetchSound(f)
    BY DEF ChatInv, FetchesSound
  <2>2. QED
    BY <1>1, <2>1, FetchStays
<1>4. ShownSound'
  <2>1. heard \in 0 .. Len(news) /\ heard' = heard /\ progress \in [ChatRuns -> {NoEntry} \cup Entries]
    BY <1>1 DEF ChatTypes
  <2>2. PICK h : h = heard
    OBVIOUS
  <2>3. (SwitchAfter(h) => SwitchAfter(h)') /\ (SwitchAfter(h)' \/ chatSession' = chatSession)
    BY <2>1, <2>2 DEF GatewayKeeps
  <2>4. \A r \in ChatRuns : progress'[r] # NoEntry => chatRun'[r].state # "none"
    BY DEF ChatInv, ShownSound, GatewayKeeps
  <2>5. ASSUME ~Suspended', NEW r \in ChatRuns \ overtaken'
        PROVE  Fits(progress[r], h, r)' /\ (chatRun'[r].state # "ended" => context' = chatSession')
    <3>1. ~SwitchAfter(h)' /\ \A i \in 1 .. MaxFetches : fetches[i] = Nothing
      BY <2>1, <2>2, <2>5 DEF Suspended
    <3>2. ~Suspended
      BY <2>2, <2>3, <3>1 DEF Suspended
    <3>3. Fits(progress[r], h, r) /\ (chatRun[r].state # "ended" => context = chatSession)
      BY <2>2, <2>5, <3>2 DEF ChatInv, ShownSound
    <3>4. PICK x : x = progress[r]
      OBVIOUS
    <3>5. x \in {NoEntry} \cup Entries
      BY <2>1, <2>5, <3>4
    <3>6. Fits(x, h, r)'
      BY <2>1, <2>2, <2>5, <3>3, <3>4, <3>5 DEF GatewayKeeps
    <3>7. chatRun'[r].state # "ended" => chatRun[r].state # "ended"
      BY <2>5 DEF GatewayKeeps
    <3>8. progress' = progress
      OBVIOUS
    <3>9. QED
      BY <2>3, <3>1, <3>3, <3>4, <3>6, <3>7, <3>8
  <2>6. QED
    BY <2>1, <2>2, <2>4, <2>5 DEF ShownSound
<1>5. QED
  BY <1>2, <1>3, <1>4

-----------------------------------------------------------------------------
(* The composer and the buttons *)

(* The gateway does nothing.                                               *)
LEMMA GatewayIdle ==
    ASSUME ChatInv, UNCHANGED gatewaySide
    PROVE  /\ GatewayKeeps
           /\ \A n : SwitchAfter(n)' <=> SwitchAfter(n)
           /\ \A n, type, r : Later(n, type, r)' <=> Later(n, type, r)
<1>1. chatRun' = chatRun /\ chatSession' = chatSession /\ news' = news
  OBVIOUS
<1>2. /\ \A n, type, r : Later(n, type, r)' <=> Later(n, type, r)
      /\ \A n : SwitchAfter(n)' <=> SwitchAfter(n)
      /\ \A i, r : About(i, r)' <=> About(i, r)
  BY <1>1 DEF Later, SwitchAfter, About
<1>3. NewsInv'
  <2>1. NewsOrder'
    BY <1>1, <1>2 DEF ChatInv, NewsInv, NewsOrder
  <2>2. NewsSound'
    BY <1>1, <1>2 DEF ChatInv, NewsInv, NewsSound
  <2>3. NewsComplete'
    BY <1>1, <1>2 DEF ChatInv, NewsInv, NewsComplete
  <2>4. WorkHere'
    BY <1>1 DEF ChatInv, NewsInv, WorkHere
  <2>5. QED
    BY <2>1, <2>2, <2>3, <2>4 DEF NewsInv
<1>4. \A x, n, r : Fits(x, n, r) => Fits(x, n, r)'
  BY <1>1, <1>2 DEF Fits
<1>5. \A n : SwitchAfter(n) => SwitchAfter(n)'
  BY <1>2
<1>6. /\ chatRun' \in [ChatRuns -> ChatRows] /\ chatSession' \in ChatSessions
      /\ news' \in Seq(Announcements) /\ Len(news) \in Nat /\ Len(news') \in Nat /\ Len(news) <= Len(news')
  BY <1>1 DEF ChatInv, ChatTypes
<1>7. \A r \in ChatRuns :
         /\ chatRun[r].state # "none" =>
               chatRun'[r].state # "none" /\ chatRun'[r].session = chatRun[r].session
         /\ chatRun[r].state = "ended" => chatRun'[r].state = "ended"
  BY <1>1
<1>8. GatewayKeeps
  BY <1>1, <1>3, <1>4, <1>5, <1>6, <1>7, Zenon DEF GatewayKeeps
<1>9. QED
  BY <1>2, <1>8

LEMMA RequestStays ==
    ASSUME ChatInv, GatewayKeeps, request' = request
    PROVE  RequestSound'
<1> PICK q : q = request
  OBVIOUS
<1>1. /\ q.kind \in {"nothing", "message", "new", "resume", "switch", "reload"}
      /\ q.kind = "message" /\ q.stage = "answered" =>
            q.run \in ChatRuns /\ q.row.state = "pending" /\ FormerRow(q.row, q.at, q.run)
  BY DEF ChatInv, RequestsSound, RequestSound
<1>2. q.kind = "message" /\ q.stage = "answered" => FormerRow(q.row, q.at, q.run)'
  BY <1>1, FormerStays DEF ChatInv
<1>3. request' = q
  OBVIOUS
<1>4. QED
  BY <1>1, <1>2, <1>3 DEF RequestSound

LEMMA ControlStays ==
    ASSUME ChatInv, GatewayKeeps, control' = control
    PROVE  ControlSound'
<1> PICK q : q = control
  OBVIOUS
<1>1. ControlSound /\ ChatTypes
  BY DEF ChatInv, RequestsSound
<1>2. q.kind = "background" /\ q.stage = "answered" => FormerRow(q.row, q.at, q.run)'
  BY <1>1, FormerStays DEF ControlSound
<1>3. q.kind # "nothing" =>
         /\ q.run \in ChatRuns /\ chatRun'[q.run] # NoRun
         /\ q.stage = "answered" /\ q.kind = "stop" => chatRun'[q.run].state = "ended"
  <2>1. ASSUME q.kind # "nothing"
        PROVE  /\ q.run \in ChatRuns /\ chatRun'[q.run] # NoRun
               /\ q.stage = "answered" /\ q.kind = "stop" => chatRun'[q.run].state = "ended"
    <3>1. q.run \in ChatRuns /\ chatRun[q.run] # NoRun
      BY <1>1, <2>1 DEF ControlSound
    <3>2. chatRun[q.run] \in ChatRows
      BY <1>1, <3>1 DEF ChatTypes
    <3>3. chatRun[q.run].state # "none"
      BY <3>1, <3>2, RowsOfRuns
    <3>4. chatRun'[q.run].state # "none"
      BY <3>1, <3>3 DEF GatewayKeeps
    <3>5. q.stage = "answered" /\ q.kind = "stop" => chatRun'[q.run].state = "ended"
      BY <1>1, <2>1, <3>1 DEF ControlSound, GatewayKeeps
    <3>6. QED
      BY <3>1, <3>4, <3>5
  <2>2. QED
    BY <2>1
<1>4. /\ q.kind \in {"nothing", "stop", "background"}
      /\ q.kind = "nothing" => q = Nothing
      /\ q.kind # "nothing" => q.stage \in {"asked", "answered"}
      /\ q.kind = "background" /\ q.stage = "answered" /\ Working(q.row) => q.row.state = "running" /\ q.row.source
  BY <1>1 DEF ControlSound
<1>5. control' = q
  OBVIOUS
<1>6. QED
  BY <1>2, <1>3, <1>4, <1>5 DEF ControlSound

LEMMA ElsewhereKeeps ==
    ASSUME ChatInv, Elsewhere
    PROVE  ChatInv'
<1>1. ChatTypes /\ NewsInv
  BY DEF ChatInv
<1>2. GatewayKeeps /\ (chatSession' = chatSession \/ chatRun' = chatRun)
  <2>1. ASSUME NEW r \in ChatRuns,
               RunCreated(r) \/ RunStarted(r) \/ Speaks(r) \/ Backgrounded(r) \/ RunEnded(r)
        PROVE  GatewayKeeps /\ chatSession' = chatSession
    <3>1. CASE RunCreated(r)
      BY <1>1, <3>1, GatewayCreates DEF RunCreated
    <3>2. CASE RunStarted(r) \/ Speaks(r) \/ Backgrounded(r) \/ RunEnded(r)
      <4>1. PICK t : Told(t, r)
        BY <1>1, <3>2, RowChanges
      <4>2. QED
        BY <1>1, <4>1, GatewayTells DEF Told
    <3>3. QED
      BY <2>1, <3>1, <3>2
  <2>2. ASSUME NEW s \in ChatSessions, Switched(s)
        PROVE  GatewayKeeps /\ chatRun' = chatRun
    BY <1>1, <2>2, GatewaySwitches
  <2>3. QED
    BY <2>1, <2>2 DEF Elsewhere
<1>3. UNCHANGED <<fetches, request, control, progress, viewed, context, heard, overtaken>>
  BY DEF Elsewhere
<1>4. ChatTypes' /\ NewsInv' /\ FetchesSound' /\ ShownSound'
  BY <1>2, <1>3, GatewayInv
<1>5. RequestSound' /\ ControlSound'
  BY <1>2, <1>3, RequestStays, ControlStays
<1>6. QED
  BY <1>4, <1>5 DEF ChatInv, RequestsSound

(* Steps that ask for something, or give it up.                            *)
LEMMA AskingKeeps ==
    ASSUME ChatInv,
           \/ \E k \in {"message", "new"} : Submit([kind |-> k, stage |-> "asked"])
           \/ \E s \in opened \ {viewed} : Submit([kind |-> "resume", stage |-> "asked", session |-> s])
           \/ \E r \in ChatRuns : \E k \in {"stop", "background"} : Press(k, r)
           \/ LoseRequest
    PROVE  ChatInv'
<1>1. UNCHANGED gatewaySide /\ UNCHANGED <<fetches, progress, viewed, context, heard, overtaken>>
  BY DEF Submit, Press, LoseRequest
<1>2. GatewayKeeps /\ chatSession' = chatSession
  BY <1>1, GatewayIdle
<1>3. ChatTypes' /\ NewsInv' /\ FetchesSound' /\ ShownSound'
  BY <1>1, <1>2, GatewayInv
<1>4. RequestSound' /\ ControlSound'
  <2>1. CASE \/ \E k \in {"message", "new"} : Submit([kind |-> k, stage |-> "asked"])
             \/ \E s \in opened \ {viewed} : Submit([kind |-> "resume", stage |-> "asked", session |-> s])
    <3>1. control' = control /\ request'.kind \in {"message", "new", "resume"} /\ request'.stage = "asked"
      BY <2>1 DEF Submit
    <3>2. QED
      BY <1>2, <3>1, ControlStays DEF RequestSound
  <2>2. ASSUME NEW r \in ChatRuns, NEW k \in {"stop", "background"}, Press(k, r)
        PROVE  RequestSound' /\ ControlSound'
    <3>1. request' = request /\ progress[r] # NoEntry /\ control' = [kind |-> k, stage |-> "asked", run |-> r]
      BY <2>2 DEF Press
    <3>2. control'.kind = k /\ control'.stage = "asked" /\ control'.run = r
      BY <3>1
    <3>3. chatRun[r].state # "none" /\ chatRun' = chatRun
      BY <1>1, <3>1 DEF ChatInv, ShownSound
    <3>4. chatRun'[r] # NoRun
      BY <3>3
    <3>5. ControlSound'
      BY <3>2, <3>4 DEF ControlSound
    <3>6. QED
      BY <1>2, <3>1, <3>5, RequestStays
  <2>3. CASE LoseRequest
    <3>1. \/ request' = Nothing /\ control' = control
          \/ request' = request /\ control' = Nothing
      BY <2>3 DEF LoseRequest
    <3>2. (request' = Nothing => RequestSound') /\ (control' = Nothing => ControlSound')
      BY DEF RequestSound, ControlSound
    <3>3. QED
      BY <1>2, <3>1, <3>2, RequestStays, ControlStays
  <2>4. QED
    BY <2>1, <2>2, <2>3
<1>5. QED
  BY <1>3, <1>4 DEF ChatInv, RequestsSound

(* A row that is read now.                                                 *)
LEMMA FreshRow ==
    ASSUME ChatTypes, NEW r \in ChatRuns
    PROVE  FormerRow(chatRun[r], Len(news), r)
<1> PICK row : row = chatRun[r]
  OBVIOUS
<1> PICK n : n = Len(news)
  OBVIOUS
<1>1. row \in ChatRows /\ n \in 0 .. Len(news)
  BY DEF ChatTypes
<1>2. /\ row.state \in {"none", "pending", "running", "ended"} /\ row.source \in BOOLEAN /\ row.said \in BOOLEAN
      /\ row.state = "pending" => ~row.source /\ ~row.said
  BY <1>1, RowsOfRuns
<1>3. \A type : ~Later(n, type, r)
  BY <1>1 DEF Later
<1>4. Fits(EntryOf(row), n, r)
  <2>1. PICK x : x = EntryOf(row)
    OBVIOUS
  <2>2. CASE Working(row)
    <3>1. x = [state |-> row.state, source |-> row.source, said |-> row.said]
      BY <2>1, <2>2 DEF EntryOf
    <3>2. x # NoEntry
      BY <1>2, <2>2, <3>1, ChatAssumption
    <3>3. x.state = row.state /\ x.source = row.source /\ x.said = row.said
      BY <3>1
    <3>4. row.state = "pending" => x = [state |-> "pending", source |-> FALSE, said |-> FALSE]
      BY <1>2, <3>1
    <3>5. Fits(x, n, r)
      BY <2>2, <3>2, <3>3, <3>4 DEF Fits
    <3>6. QED
      BY <2>1, <3>5
  <2>3. CASE ~Working(row)
    <3>1. x = NoEntry /\ row.state \notin {"pending", "running"}
      BY <2>1, <2>3 DEF EntryOf
    <3>2. Fits(x, n, r)
      BY <1>2, <3>1 DEF Fits
    <3>3. QED
      BY <2>1, <3>2
  <2>4. QED
    BY <2>2, <2>3
<1>5. QED
  BY <1>1, <1>4 DEF FormerRow

LEMMA ServeMessageKeeps ==
    ASSUME ChatInv, NEW q \in ChatRuns, ServeMessage(q)
    PROVE  ChatInv'
<1>1. RunCreated(q) /\ UNCHANGED <<fetches, control, progress, viewed, context, heard, overtaken>>
  BY DEF ServeMessage
<1>2. GatewayKeeps /\ chatSession' = chatSession /\ news' = news
  BY <1>1, GatewayCreates DEF ChatInv, RunCreated
<1>3. ChatTypes' /\ NewsInv' /\ FetchesSound' /\ ShownSound'
  BY <1>1, <1>2, GatewayInv
<1>4. PICK row, n : row = chatRun'[q] /\ n = Len(news)
  OBVIOUS
<1>5. /\ row.state = "pending" /\ row \in ChatRows /\ ~row.source /\ ~row.said
      /\ n \in 0 .. Len(news')
  <2>1. chatRun \in [ChatRuns -> ChatRows] /\ chatRun' \in [ChatRuns -> ChatRows]
    BY <1>2 DEF ChatInv, ChatTypes, GatewayKeeps
  <2>2. chatRun'[q] = [NoRun EXCEPT !.state = "pending", !.session = chatSession]
    BY <1>1, <2>1 DEF RunCreated
  <2>3. row.state = "pending" /\ row.source = FALSE /\ row.said = FALSE
    BY <1>4, <2>2
  <2>4. QED
    BY <1>2, <1>4, <2>1, <2>3 DEF GatewayKeeps
<1>6. PICK x : x = EntryOf(row)
  OBVIOUS
<1>7. x = [state |-> "pending", source |-> FALSE, said |-> FALSE]
  <2>1. x = [state |-> row.state, source |-> row.source, said |-> row.said]
    BY <1>5, <1>6 DEF EntryOf
  <2>2. row.source = FALSE /\ row.said = FALSE
    BY <1>5, RowsOfRuns
  <2>3. QED
    BY <1>5, <2>1, <2>2
<1>8. Fits(x, n, q)'
  BY <1>4, <1>5, <1>7 DEF Fits
<1>9. FormerRow(row, n, q)'
  BY <1>4, <1>5, <1>6, <1>8 DEF FormerRow
<1>10. PICK p : p = [kind |-> "message", stage |-> "answered", run |-> q, row |-> row, at |-> n]
  OBVIOUS
<1>11. request' = p
  BY <1>4, <1>10 DEF ServeMessage
<1>12. RequestSound'
  BY <1>5, <1>9, <1>10, <1>11 DEF RequestSound
<1>13. ControlSound'
  BY <1>1, <1>2, ControlStays
<1>14. QED
  BY <1>3, <1>12, <1>13 DEF ChatInv, RequestsSound

LEMMA ServeSwitchKeeps ==
    ASSUME ChatInv, NEW s \in ChatSessions, ServeSwitch(s)
    PROVE  ChatInv'
<1>1. Switched(s) /\ UNCHANGED <<fetches, control, progress, viewed, context, heard, overtaken>>
  BY DEF ServeSwitch
<1>2. GatewayKeeps /\ chatRun' = chatRun
  BY <1>1, GatewaySwitches DEF ChatInv
<1>3. ChatTypes' /\ NewsInv' /\ FetchesSound' /\ ShownSound'
  BY <1>1, <1>2, GatewayInv
<1>4. request'.kind = "switch"
  BY DEF ServeSwitch
<1>5. RequestSound' /\ ControlSound'
  BY <1>1, <1>2, <1>4, ControlStays DEF RequestSound
<1>6. QED
  BY <1>3, <1>5 DEF ChatInv, RequestsSound

LEMMA ServeControlKeeps ==
    ASSUME ChatInv, ServeControl
    PROVE  ChatInv'
<1> PICK q : q = control.run
  OBVIOUS
<1>1. /\ q \in ChatRuns /\ chatRun[q] # NoRun /\ control.kind \in {"stop", "background"}
      /\ control # Nothing
  BY DEF ServeControl, ChatInv, RequestsSound, ControlSound
<1>2. /\ ChatTypes /\ NewsInv
      /\ UNCHANGED <<fetches, request, progress, viewed, context, heard, overtaken>>
  BY DEF ChatInv, ServeControl
<1>3. PICK old, n : old = chatRun[q] /\ n = Len(news)
  OBVIOUS
<1>4. old \in ChatRows /\ old.state \in {"pending", "running", "ended"} /\ (old.state = "pending" => ~old.source)
  BY <1>1, <1>2, <1>3, RowsOfRuns DEF ChatTypes
<1>5. PICK refused : refused = (control.kind = "background" /\ ~old.source /\ old.state # "running")
  OBVIOUS
<1>6. /\ control' = IF refused THEN Nothing
                    ELSE [kind |-> control.kind, stage |-> "answered", run |-> q, row |-> chatRun'[q], at |-> n]
      /\ \/ control.kind = "stop" /\ Working(old) /\ RunEnded(q)
         \/ control.kind = "background" /\ old.state = "running" /\ ~old.source /\ Backgrounded(q)
         \/ /\ UNCHANGED gatewaySide
            /\ ~(control.kind = "stop" /\ Working(old))
            /\ ~(control.kind = "background" /\ old.state = "running" /\ ~old.source)
  BY <1>1, <1>3, <1>5 DEF ServeControl
<1>7. PICK row : row = chatRun'[q]
  OBVIOUS
<1>8. /\ GatewayKeeps /\ chatSession' = chatSession
      /\ control.kind = "stop" => row.state = "ended"
      /\ control.kind = "background" /\ ~refused =>
            FormerRow(row, n, q)' /\ (Working(row) => row.state = "running" /\ row.source)
  <2>1. CASE control.kind = "stop" /\ Working(old) /\ RunEnded(q)
    <3>1. Told("ended", q)
      BY <1>1, <1>2, <2>1, RowChanges
    <3>2. row.state = "ended"
      BY <1>7, <3>1 DEF Told, Changed
    <3>3. QED
      BY <1>2, <2>1, <3>1, <3>2, GatewayTells DEF Told
  <2>2. CASE control.kind = "background" /\ old.state = "running" /\ ~old.source /\ Backgrounded(q)
    <3>1. Told("backgrounded", q)
      BY <1>1, <1>2, <2>2, RowChanges
    <3>2. row.state = "running" /\ row.source /\ row \in ChatRows
      BY <1>1, <1>7, <3>1 DEF Told, Changed
    <3>3. GatewayKeeps /\ chatSession' = chatSession
      BY <1>2, <3>1, GatewayTells DEF Told
    <3>4. PICK x : x = EntryOf(row)
      OBVIOUS
    <3>5. row.source = TRUE /\ row.said \in BOOLEAN
      BY <3>2, RowsOfRuns
    <3>6. x = [state |-> "running", source |-> row.source, said |-> row.said]
      BY <3>2, <3>4 DEF EntryOf
    <3>7. x # NoEntry /\ x.state = "running" /\ x.source = row.source /\ x.said = row.said
      <4>1. x.state = "running" /\ x.source = row.source /\ x.said = row.said
        BY <3>6
      <4>2. x \in [state : {"pending", "running"}, source : BOOLEAN, said : BOOLEAN]
        BY <3>5, <3>6
      <4>3. QED
        BY <4>1, <4>2, ChatAssumption
    <3>8. Fits(x, n, q)'
      BY <1>7, <3>2, <3>5, <3>7 DEF Fits
    <3>9. n \in 0 .. Len(news')
      BY <1>3, <3>3 DEF GatewayKeeps
    <3>10. Fits(EntryOf(row), n, q)'
      BY <3>4, <3>8
    <3>11. FormerRow(row, n, q)'
      BY <1>7, <3>2, <3>9, <3>10 DEF FormerRow
    <3>12. QED
      BY <2>2, <3>2, <3>3, <3>11
  <2>3. CASE /\ UNCHANGED gatewaySide
             /\ ~(control.kind = "stop" /\ Working(old))
             /\ ~(control.kind = "background" /\ old.state = "running" /\ ~old.source)
    <3>1. GatewayKeeps /\ chatSession' = chatSession /\ row = old
      BY <1>3, <1>7, <2>3, GatewayIdle
    <3>2. FormerRow(old, n, q)
      BY <1>1, <1>2, <1>3, FreshRow
    <3>3. FormerRow(row, n, q)'
      BY <1>1, <1>2, <3>1, <3>2, FormerStays
    <3>4. control.kind = "stop" => row.state = "ended"
      BY <1>4, <2>3, <3>1
    <3>5. control.kind = "background" /\ ~refused => (Working(row) => row.state = "running" /\ row.source)
      BY <1>4, <1>5, <2>3, <3>1
    <3>6. QED
      BY <3>1, <3>3, <3>4, <3>5
  <2>4. QED
    BY <1>6, <2>1, <2>2, <2>3
<1>9. ChatTypes' /\ NewsInv' /\ FetchesSound' /\ ShownSound'
  BY <1>2, <1>8, GatewayInv
<1>10. RequestSound'
  BY <1>2, <1>8, RequestStays
<1>11. ControlSound'
  <2>1. CASE refused
    <3>1. control' = Nothing
      BY <1>6, <2>1
    <3>2. QED
      BY <3>1 DEF ControlSound
  <2>2. CASE ~refused
    <3>1. PICK p : p = [kind |-> control.kind, stage |-> "answered", run |-> q, row |-> row, at |-> n]
      OBVIOUS
    <3>2. control' = p /\ p.kind = control.kind /\ p.stage = "answered" /\ p.run = q /\ p.row = row /\ p.at = n
      BY <1>6, <1>7, <2>2, <3>1
    <3>3. chatRun'[q] # NoRun
      <4>1. chatRun[q].state # "none"
        BY <1>3, <1>4
      <4>2. chatRun'[q].state # "none"
        BY <1>1, <1>8, <4>1 DEF GatewayKeeps
      <4>3. QED
        BY <4>2
    <3>4. QED
      BY <1>1, <1>7, <1>8, <2>2, <3>2, <3>3 DEF ControlSound
  <2>3. QED
    BY <2>1, <2>2
<1>12. QED
  BY <1>9, <1>10, <1>11 DEF ChatInv, RequestsSound

-----------------------------------------------------------------------------
(* What the view hears *)

EntriesOfRuns == [ChatRuns -> {NoEntry} \cup Entries]

LEMMA UpsertTypes ==
    ASSUME NEW es \in EntriesOfRuns, NEW q \in ChatRuns, NEW row \in ChatRows, NEW s
    PROVE  /\ Upsert(es, q, row, s) \in EntriesOfRuns
           /\ \A r \in ChatRuns : r # q => Upsert(es, q, row, s)[r] = es[r]
<1>1. PICK x : x = [state |-> row.state, source |-> row.source, said |-> es[q] # NoEntry /\ es[q].said]
  OBVIOUS
<1>2. CASE row.session # s \/ ~Working(row)
  BY <1>2 DEF Upsert
<1>3. CASE row.session = s /\ Working(row)
  <2>1. Upsert(es, q, row, s) = [es EXCEPT ![q] = x]
    BY <1>1, <1>3 DEF Upsert
  <2>2. row.state \in {"pending", "running"} /\ row.source \in BOOLEAN
    BY <1>3, RowsOfRuns
  <2>3. (es[q] # NoEntry /\ es[q].said) \in BOOLEAN
    OBVIOUS
  <2>4. x \in Entries
    BY <1>1, <2>2, <2>3 DEF Entries
  <2>5. QED
    BY <1>1, <1>3, <2>1, <2>4 DEF EntriesOfRuns
<1>4. QED
  BY <1>2, <1>3

LEMMA UpsertAt ==
    ASSUME NEW es \in EntriesOfRuns, NEW q \in ChatRuns, NEW row \in ChatRows, NEW s
    PROVE  /\ row.session # s \/ ~Working(row) => Upsert(es, q, row, s)[q] = es[q]
           /\ row.session = s /\ Working(row) =>
                 Upsert(es, q, row, s)[q] = [state |-> row.state, source |-> row.source,
                                             said |-> es[q] # NoEntry /\ es[q].said]
<1>1. PICK x : x = [state |-> row.state, source |-> row.source, said |-> es[q] # NoEntry /\ es[q].said]
  OBVIOUS
<1>2. CASE row.session # s \/ ~Working(row)
  BY <1>2 DEF Upsert
<1>3. CASE row.session = s /\ Working(row)
  <2>1. Upsert(es, q, row, s) = [es EXCEPT ![q] = x]
    BY <1>1, <1>3 DEF Upsert
  <2>2. QED
    BY <1>1, <1>3, <2>1 DEF EntriesOfRuns
<1>4. QED
  BY <1>2, <1>3

(* What comes after an event of a run.                                     *)
LEMMA NewsAround ==
    ASSUME ChatTypes, NewsInv, NEW h \in Nat, NEW k, k = h + 1, k \in 1 .. Len(news),
           NEW q \in ChatRuns, About(k, q)
    PROVE  /\ \A type \in RunNews : Later(h, type, q) => type = news[k].type \/ Later(k, type, q)
           /\ ~Later(k, news[k].type, q)
           /\ ~Later(k, "started", q)
           /\ news[k].type = "started" =>
                 \A type \in RunNews : type # "started" /\ Later(0, type, q) => Later(k, type, q)
           /\ news[k].type # "ended" /\ Later(0, "ended", q) => Later(k, "ended", q)
           /\ \A r \in ChatRuns : r # q =>
                 \A type \in RunNews : Later(h, type, r) => Later(k, type, r)
           /\ SwitchAfter(h) => SwitchAfter(k)
<1>1. Len(news) \in Nat /\ news[k].type \in RunNews /\ news[k].run = q
  BY DEF ChatTypes, About
<1>2. /\ \A i \in h + 1 .. Len(news) : i = k \/ i \in k + 1 .. Len(news)
      /\ \A i \in k + 1 .. Len(news) : i \in 1 .. Len(news) /\ i # k /\ ~(i < k) /\ k < i
      /\ \A i \in 1 .. Len(news) : k < i => i \in k + 1 .. Len(news)
      /\ \A i \in 0 + 1 .. Len(news) : i \in 1 .. Len(news)
  BY <1>1
<1>3. \A i \in 1 .. Len(news) : \A type \in RunNews : news[i].type = type /\ news[i].run = q => About(i, q)
  BY DEF About
<1>4. /\ \A type \in RunNews : Later(h, type, q) => type = news[k].type \/ Later(k, type, q)
      /\ \A r \in ChatRuns : r # q =>
            \A type \in RunNews : Later(h, type, r) => Later(k, type, r)
      /\ SwitchAfter(h) => SwitchAfter(k)
  BY <1>1, <1>2 DEF Later, SwitchAfter
<1>5. \A i \in 1 .. Len(news) : About(i, q) /\ i # k =>
         /\ news[i].type # news[k].type
         /\ news[k].type = "started" => k < i
         /\ news[i].type = "started" => i < k
         /\ news[i].type = "ended" => k < i
  BY DEF NewsInv, NewsOrder
<1>6. ~Later(k, news[k].type, q) /\ ~Later(k, "started", q)
  BY <1>1, <1>2, <1>3, <1>5 DEF Later
<1>7. ASSUME NEW type \in RunNews, Later(0, type, q), type # news[k].type,
             news[k].type = "started" \/ type = "ended"
      PROVE  Later(k, type, q)
  <2>1. PICK i \in 0 + 1 .. Len(news) : news[i].type = type /\ news[i].run = q
    BY <1>7 DEF Later
  <2>2. i \in 1 .. Len(news) /\ About(i, q) /\ i # k
    BY <1>2, <1>3, <1>7, <2>1
  <2>3. k < i
    BY <1>5, <1>7, <2>1, <2>2
  <2>4. QED
    BY <1>2, <2>1, <2>2, <2>3 DEF Later
<1>8. QED
  BY <1>1, <1>4, <1>6, <1>7

LEMMA HeardFits ==
    ASSUME ChatTypes, NewsInv, NEW h \in Nat, NEW k, k = h + 1, k \in 1 .. Len(news),
           NEW q \in ChatRuns, About(k, q), NEW x \in {NoEntry} \cup Entries, x = progress[q], Fits(x, h, q),
           chatRun[q].state # "ended" => context = chatSession
    PROVE  Fits(HandleRunEvent(progress, news[k])[q], k, q)
<1> PICK y : y = HandleRunEvent(progress, news[k])[q]
  OBVIOUS
<1> PICK e : e = news[k]
  OBVIOUS
<1> PICK row : row = chatRun[q]
  OBVIOUS
<1> SUFFICES Fits(y, k, q)
  OBVIOUS
<1>1. e.type \in RunNews /\ e.run = q /\ e.row \in ChatRows
  BY NewsOfRuns DEF About
<1>2. row \in ChatRows /\ row.source \in BOOLEAN /\ row.said \in BOOLEAN /\ progress \in EntriesOfRuns
  BY RowsOfRuns DEF ChatTypes, EntriesOfRuns
<1>3. /\ e.row.session = row.session
      /\ row.state \in {"running", "ended"}
      /\ e.type = "started" => e.row.state = "running" /\ ~e.row.source
      /\ e.type = "backgrounded" => e.row.state = "running" /\ e.row.source /\ row.source
      /\ e.type = "message" => row.said
      /\ e.type = "ended" => row.state = "ended"
  BY DEF NewsInv, NewsSound
<1>4. /\ \A type \in RunNews : Later(h, type, q) => type = e.type \/ Later(k, type, q)
      /\ ~Later(k, "started", q)
      /\ e.type = "started" => \A type \in RunNews : type # "started" /\ Later(0, type, q) => Later(k, type, q)
      /\ e.type # "ended" /\ Later(0, "ended", q) => Later(k, "ended", q)
  BY NewsAround
<1>5. /\ row.source => Later(0, "backgrounded", q)
      /\ row.said => Later(0, "message", q)
      /\ row.state = "ended" => Later(0, "ended", q)
  BY DEF NewsInv, NewsComplete
<1>6. row.state = "running" => context = row.session
  BY DEF NewsInv, WorkHere
<1>7. x = NoEntry \/ (x.source \in BOOLEAN /\ x.said \in BOOLEAN /\ x \in Entries)
  BY DEF Entries
<1>8. CASE row.state = "ended" /\ e.type # "ended"
  BY <1>4, <1>5, <1>8 DEF Fits
<1>9. CASE e.type = "ended"
  <2>1. y = NoEntry
    BY <1>1, <1>2, <1>9 DEF HandleRunEvent, EntriesOfRuns
  <2>2. QED
    BY <1>3, <1>9, <2>1 DEF Fits
<1>10. CASE row.state = "running" /\ e.type \in {"started", "backgrounded"}
  <2>1. HandleRunEvent(progress, e) = Upsert(progress, q, e.row, context)
    BY <1>1, <1>10 DEF HandleRunEvent
  <2>2. e.row.session = context /\ e.row.state = "running"
    BY <1>3, <1>6, <1>10
  <2>3. y = [state |-> "running", source |-> e.row.source, said |-> x # NoEntry /\ x.said]
    BY <1>1, <1>2, <2>1, <2>2, UpsertAt
  <2>4. y.state = "running" /\ y.source = e.row.source /\ y.said = (x # NoEntry /\ x.said)
    BY <2>3
  <2>5. e.row.source \in BOOLEAN
    BY <1>1, RowsOfRuns
  <2>6. y # NoEntry
    <3>1. (x # NoEntry /\ x.said) \in BOOLEAN
      OBVIOUS
    <3>2. y \in [state : {"pending", "running"}, source : BOOLEAN, said : BOOLEAN]
      BY <2>3, <2>5, <3>1
    <3>3. QED
      BY <3>2, ChatAssumption
  <2>7. x # NoEntry => (x.source => row.source) /\ (x.said => row.said)
    BY <1>10 DEF Fits
  <2>8. CASE e.type = "started"
    <3>1. ~e.row.source /\ (row.source => Later(k, "backgrounded", q)) /\ (row.said => Later(k, "message", q))
      BY <1>3, <1>4, <1>5, <2>8
    <3>2. QED
      BY <1>2, <1>10, <2>4, <2>5, <2>6, <2>7, <3>1 DEF Fits
  <2>9. CASE e.type = "backgrounded"
    <3>1. ~Later(h, "started", q)
      BY <1>4, <2>9
    <3>2. x # NoEntry /\ (row.said => x.said \/ Later(h, "message", q))
      BY <1>10, <3>1 DEF Fits
    <3>3. row.said => x.said \/ Later(k, "message", q)
      BY <1>4, <2>9, <3>2
    <3>4. y.source /\ row.source
      BY <1>3, <2>4, <2>9
    <3>5. QED
      BY <1>2, <1>7, <1>10, <2>4, <2>6, <2>7, <3>2, <3>3, <3>4 DEF Fits
  <2>10. QED
    BY <1>10, <2>8, <2>9
<1>11. CASE row.state = "running" /\ e.type = "message"
  <2>1. ~Later(h, "started", q)
    BY <1>4, <1>11
  <2>2. /\ x # NoEntry /\ x.state = "running" /\ (x.source => row.source)
        /\ row.source => x.source \/ Later(h, "backgrounded", q)
    BY <1>11, <2>1 DEF Fits
  <2>3. HandleRunEvent(progress, e) = [progress EXCEPT ![q].said = TRUE]
    BY <1>1, <1>11, <2>2 DEF HandleRunEvent
  <2>4. y = [x EXCEPT !.said = TRUE]
    BY <1>2, <2>3 DEF EntriesOfRuns
  <2>5. x \in Entries
    BY <2>2
  <2>6. y.state = x.state /\ y.source = x.source /\ y.said = TRUE /\ y \in Entries
    BY <2>4, <2>5 DEF Entries
  <2>7. y # NoEntry
    BY <2>6, ChatAssumption DEF Entries
  <2>8. row.said /\ (row.source => x.source \/ Later(k, "backgrounded", q))
    BY <1>3, <1>4, <1>11, <2>2
  <2>9. QED
    BY <1>11, <2>2, <2>6, <2>7, <2>8 DEF Fits
<1>12. QED
  BY <1>1, <1>3, <1>8, <1>9, <1>10, <1>11 DEF RunNews

LEMMA HandleTypes ==
    ASSUME ChatTypes, NewsInv, NEW k \in 1 .. Len(news), NEW q \in ChatRuns, About(k, q)
    PROVE  /\ HandleRunEvent(progress, news[k]) \in EntriesOfRuns
           /\ \A r \in ChatRuns : r # q => HandleRunEvent(progress, news[k])[r] = progress[r]
           /\ news[k].type = "ended" => HandleRunEvent(progress, news[k])[q] = NoEntry
<1> PICK e : e = news[k]
  OBVIOUS
<1>1. e.type \in RunNews /\ e.run = q /\ e.row \in ChatRows
  BY NewsOfRuns DEF About
<1>2. progress \in EntriesOfRuns
  BY DEF ChatTypes, EntriesOfRuns
<1>3. CASE e.type \in {"started", "backgrounded"}
  <2>1. HandleRunEvent(progress, e) = Upsert(progress, q, e.row, context)
    BY <1>1, <1>3 DEF HandleRunEvent
  <2>2. PICK es : es = Upsert(progress, q, e.row, context)
    OBVIOUS
  <2>3. es \in EntriesOfRuns /\ \A r \in ChatRuns : r # q => es[r] = progress[r]
    BY <1>1, <1>2, <2>2, UpsertTypes
  <2>4. QED
    BY <1>3, <2>1, <2>2, <2>3
<1>4. CASE e.type = "message" /\ progress[q] # NoEntry
  <2>1. HandleRunEvent(progress, e) = [progress EXCEPT ![q].said = TRUE]
    BY <1>1, <1>4 DEF HandleRunEvent
  <2>2. progress[q] \in Entries
    BY <1>2, <1>4 DEF EntriesOfRuns
  <2>3. PICK y : y = [progress[q] EXCEPT !.said = TRUE]
    OBVIOUS
  <2>4. y \in Entries
    BY <2>2, <2>3 DEF Entries
  <2>5. HandleRunEvent(progress, e) = [progress EXCEPT ![q] = y]
    BY <2>1, <2>3
  <2>6. QED
    BY <1>2, <1>4, <2>4, <2>5 DEF EntriesOfRuns
<1>5. CASE e.type = "message" /\ progress[q] = NoEntry
  <2>1. HandleRunEvent(progress, e) = progress
    BY <1>1, <1>5 DEF HandleRunEvent
  <2>2. QED
    BY <1>2, <1>5, <2>1
<1>6. CASE e.type = "ended"
  <2>1. HandleRunEvent(progress, e) = [progress EXCEPT ![q] = NoEntry]
    BY <1>1, <1>6 DEF HandleRunEvent
  <2>2. QED
    BY <1>2, <2>1 DEF EntriesOfRuns
<1>7. QED
  BY <1>1, <1>3, <1>4, <1>5, <1>6 DEF RunNews

(* An entry that fits goes on doing so while nothing is heard of its run.  *)
LEMMA FitsFurther ==
    ASSUME NEW r, NEW n, NEW m, NEW x, Fits(x, n, r),
           \A type \in RunNews : Later(n, type, r) => Later(m, type, r)
    PROVE  Fits(x, m, r)
  BY DEF Fits

(* A fetch that is asked for is one more pending fetch.                    *)
LEMMA AskedFetch ==
    ASSUME ChatInv, GatewayKeeps, NEW own, Reload(own)
    PROVE  FetchesSound' /\ DOMAIN fetches' = 1 .. MaxFetches /\ \E i \in 1 .. MaxFetches : fetches'[i] # Nothing
<1>1. PICK i \in 1 .. MaxFetches : fetches' = [fetches EXCEPT ![i] = NewFetch(own)]
  BY DEF Reload
<1>2. DOMAIN fetches = 1 .. MaxFetches /\ ChatTypes
  BY DEF ChatInv, ChatTypes
<1>3. PICK f : f = NewFetch(own)
  OBVIOUS
<1>4. f.kind = "asked"
  BY <1>3 DEF NewFetch
<1>5. /\ DOMAIN fetches' = 1 .. MaxFetches /\ fetches'[i] = f
      /\ \A j \in 1 .. MaxFetches : j # i => fetches'[j] = fetches[j]
  BY <1>1, <1>2, <1>3
<1>6. f # Nothing /\ FetchSound(f)'
  BY <1>4 DEF FetchSound
<1>7. ASSUME NEW j \in 1 .. MaxFetches
      PROVE  FetchSound(fetches[j])'  \/ j = i
  <2>1. CASE j # i
    <3>1. PICK g : g = fetches[j]
      OBVIOUS
    <3>2. FetchSound(g)'
      BY <1>2, <3>1, FetchStays DEF ChatInv, FetchesSound
    <3>3. fetches'[j] = g
      BY <1>5, <2>1, <3>1
    <3>4. QED
      BY <3>2, <3>3
  <2>2. QED
    BY <2>1
<1>8. FetchSound(fetches[i])'
  <2>1. fetches'[i] = f
    BY <1>5
  <2>2. QED
    BY <1>6, <2>1
<1>9. FetchesSound'
  BY <1>7, <1>8 DEF FetchesSound
<1>10. QED
  BY <1>5, <1>6, <1>9

LEMMA HearingKeeps ==
    ASSUME ChatInv, HearNews
    PROVE  ChatInv'
<1>1. /\ UNCHANGED gatewaySide /\ UNCHANGED <<request, control, context>>
      /\ heard < Len(news) /\ heard' = heard + 1
  BY DEF HearNews
<1>2. ChatTypes /\ NewsInv /\ ShownSound
  BY DEF ChatInv
<1>3. /\ GatewayKeeps /\ \A n : SwitchAfter(n)' <=> SwitchAfter(n)
      /\ \A n, type, r : Later(n, type, r)' <=> Later(n, type, r)
  BY <1>1, GatewayIdle
<1>4. PICK h : h = heard
  OBVIOUS
<1>5. PICK k : k = h + 1
  OBVIOUS
<1>6. h \in Nat /\ k \in 1 .. Len(news) /\ heard' = k /\ k \in 0 .. Len(news') /\ news' = news /\ chatRun' = chatRun
  BY <1>1, <1>2, <1>4, <1>5 DEF ChatTypes
<1>7. RequestSound' /\ ControlSound'
  BY <1>1, <1>3, RequestStays, ControlStays
<1>8. CASE news[k].type = "session"
  <2>1. progress' = NoEntries /\ Reload(FALSE) /\ overtaken' = overtaken
    BY <1>4, <1>5, <1>8 DEF HearNews
  <2>2. FetchesSound' /\ DOMAIN fetches' = 1 .. MaxFetches /\ Suspended'
    BY <1>3, <2>1, AskedFetch DEF Suspended
  <2>3. ShownSound'
    BY <2>1, <2>2 DEF ShownSound, NoEntries
  <2>4. ChatTypes'
    BY <1>2, <1>3, <1>6, <2>1, <2>2 DEF ChatTypes, NoEntries, GatewayKeeps
  <2>5. QED
    BY <1>3, <1>7, <2>2, <2>3, <2>4 DEF ChatInv, RequestsSound, GatewayKeeps
<1>9. CASE news[k].type # "session"
  <2>1. PICK q : q = news[k].run
    OBVIOUS
  <2>2. q \in ChatRuns /\ About(k, q)
    BY <1>2, <1>6, <1>9, <2>1, NewsOfRuns DEF About
  <2>3. PICK es : es = HandleRunEvent(progress, news[k])
    OBVIOUS
  <2>4. /\ progress' = es /\ UNCHANGED <<viewed, fetches>>
        /\ overtaken' = IF news[k].type = "ended" THEN overtaken \ {q} ELSE overtaken
    BY <1>4, <1>5, <1>9, <2>1, <2>3 DEF HearNews
  <2>5. /\ es \in EntriesOfRuns
        /\ \A r \in ChatRuns : r # q => es[r] = progress[r]
        /\ news[k].type = "ended" => es[q] = NoEntry
    BY <1>2, <1>6, <2>2, <2>3, HandleTypes
  <2>6. ChatTypes'
    BY <1>2, <1>3, <1>6, <2>4, <2>5 DEF ChatTypes, GatewayKeeps, EntriesOfRuns
  <2>7. FetchesSound'
    <3> SUFFICES ASSUME NEW i \in 1 .. MaxFetches, NEW f, f = fetches[i]
                 PROVE  FetchSound(f)'
      BY <2>4 DEF FetchesSound
    <3>1. FetchSound(f)
      BY DEF ChatInv, FetchesSound
    <3>2. QED
      BY <1>2, <1>3, <3>1, FetchStays
  <2>8. /\ chatRun[q].state \in {"running", "ended"}
        /\ news[k].type = "ended" => chatRun[q].state = "ended"
    BY <1>2, <1>6, <2>2 DEF NewsInv, NewsSound
  <2>9. \A r \in ChatRuns : progress'[r] # NoEntry => chatRun'[r].state # "none"
    BY <1>2, <1>6, <2>4, <2>5, <2>8 DEF ShownSound
  <2>10. /\ \A r \in ChatRuns : r # q =>
               \A type \in RunNews : Later(h, type, r) => Later(k, type, r)
         /\ SwitchAfter(h) => SwitchAfter(k)
    BY <1>2, <1>5, <1>6, <2>2, NewsAround
  <2>11. ASSUME ~Suspended', NEW r \in ChatRuns \ overtaken'
         PROVE  Fits(progress[r], heard, r)' /\ (chatRun'[r].state # "ended" => context' = chatSession')
    <3>1. PICK y : y = es[r]
      OBVIOUS
    <3>2. ~SwitchAfter(k) /\ \A i \in 1 .. MaxFetches : fetches[i] = Nothing
      <4>1. ~SwitchAfter(k)'
        BY <1>6, <2>11 DEF Suspended
      <4>2. QED
        BY <1>3, <2>4, <2>11, <4>1 DEF Suspended
    <3>3. ~Suspended
      BY <1>4, <2>10, <3>2 DEF Suspended
    <3>4. r \notin overtaken => Fits(progress[r], h, r) /\ (chatRun[r].state # "ended" => context = chatSession)
      BY <1>2, <1>4, <2>11, <3>3 DEF ShownSound
    <3>5. Fits(y, k, r) /\ (chatRun[r].state # "ended" => context = chatSession)
      <4>1. CASE r # q
        <5>1. r \notin overtaken /\ y = progress[r]
          BY <2>4, <2>5, <2>11, <3>1, <4>1
        <5>2. QED
          BY <2>10, <2>11, <3>4, <4>1, <5>1, FitsFurther
      <4>2. CASE r = q /\ r \in overtaken
        <5>1. news[k].type = "ended"
          BY <2>4, <2>11, <4>2
        <5>2. y = NoEntry /\ chatRun[r].state = "ended"
          BY <2>5, <2>8, <3>1, <4>2, <5>1
        <5>3. QED
          BY <5>2 DEF Fits
      <4>3. CASE r = q /\ r \notin overtaken
        <5>1. PICK x : x = progress[q]
          OBVIOUS
        <5>2. x \in {NoEntry} \cup Entries
          BY <1>2, <2>2, <5>1 DEF ChatTypes
        <5>3. Fits(y, k, r)
          BY <1>2, <1>5, <1>6, <2>2, <2>3, <3>1, <3>4, <4>3, <5>1, <5>2, HeardFits
        <5>4. QED
          BY <3>4, <4>3, <5>3
      <4>4. QED
        BY <4>1, <4>2, <4>3
    <3>6. Fits(y, k, r)'
      BY <1>3, <1>6, <3>5 DEF Fits
    <3>7. progress'[r] = y /\ heard' = k
      BY <1>6, <2>4, <3>1
    <3>8. QED
      BY <1>1, <1>6, <3>5, <3>6, <3>7
  <2>12. ShownSound'
    BY <2>9, <2>11 DEF ShownSound
  <2>13. QED
    BY <1>3, <1>7, <2>6, <2>7, <2>12 DEF ChatInv, RequestsSound, GatewayKeeps
<1>10. QED
  BY <1>8, <1>9

-----------------------------------------------------------------------------
(* What is answered and arrives *)

LEMMA AnswerKeeps ==
    ASSUME ChatInv, NEW i \in 1 .. MaxFetches, AnswerTimeline(i)
    PROVE  ChatInv'
<1>1. /\ UNCHANGED gatewaySide
      /\ UNCHANGED <<request, control, progress, viewed, context, heard, overtaken>>
      /\ fetches[i].kind = "asked"
  BY DEF AnswerTimeline
<1>2. GatewayKeeps /\ ChatTypes /\ \A n : SwitchAfter(n)' <=> SwitchAfter(n)
  BY <1>1, GatewayIdle DEF ChatInv
<1>3. PICK f : f = [kind |-> "answered", own |-> fetches[i].own, at |-> Len(news),
                    session |-> chatSession, runs |-> chatRun]
  OBVIOUS
<1>4. /\ DOMAIN fetches' = 1 .. MaxFetches /\ fetches'[i] = f
      /\ \A j \in 1 .. MaxFetches : j # i => fetches'[j] = fetches[j]
  BY <1>2, <1>3 DEF ChatTypes, AnswerTimeline
<1>5. FetchSound(f)
  <2>1. f.kind = "answered" /\ f.at = Len(news) /\ f.session = chatSession /\ f.runs = chatRun
    BY <1>3
  <2>2. \A r \in ChatRuns : FormerRow(chatRun[r], Len(news), r) /\ (Working(chatRun[r]) => chatRun[r].session = chatSession)
    BY <1>2, FreshRow DEF ChatInv, NewsInv, WorkHere
  <2>3. chatSession \in ChatSessions /\ Len(news) \in 0 .. Len(news)
    BY <1>2 DEF ChatTypes
  <2>4. QED
    BY <2>1, <2>2, <2>3 DEF FetchSound
<1>6. FetchesSound'
  <2> SUFFICES ASSUME NEW j \in 1 .. MaxFetches, NEW g, g = fetches'[j]
               PROVE  FetchSound(g)'
    BY DEF FetchesSound
  <2>1. FetchSound(g)
    BY <1>4, <1>5 DEF ChatInv, FetchesSound
  <2>2. QED
    BY <1>2, <2>1, FetchStays
<1>7. ShownSound'
  <2>1. chatRun' = chatRun /\ progress' = progress /\ overtaken' = overtaken
    BY <1>1
  <2>2. \A j \in 1 .. MaxFetches : j # i => fetches'[j] = fetches[j]
    BY <1>4
  <2>3. f # Nothing
    <3>1. f.kind = "answered"
      BY <1>3
    <3>2. QED
      BY <3>1
  <2>4. Suspended'
    BY <1>4, <2>3 DEF Suspended
  <2>5. QED
    BY <2>1, <2>4 DEF ChatInv, ShownSound
<1>8. ChatTypes'
  BY <1>1, <1>2, <1>4 DEF ChatTypes, GatewayKeeps
<1>9. RequestSound' /\ ControlSound'
  BY <1>1, <1>2, RequestStays, ControlStays
<1>10. QED
  BY <1>2, <1>6, <1>7, <1>8, <1>9 DEF ChatInv, RequestsSound, GatewayKeeps

(* An answer that was not overtaken lacks nothing the view has heard.      *)
LEMMA NotOvertaken ==
    ASSUME ChatTypes, NEW n \in 0 .. Len(news)
    PROVE  /\ \A r \in ChatRuns \ Overtook(n) :
                 /\ \A type \in RunNews : Later(n, type, r) => Later(heard, type, r)
                 /\ SwitchAfter(n) => SwitchAfter(heard)
           /\ Overtook(n) \subseteq ChatRuns
<1> PICK late : late = {news[i] : i \in n + 1 .. heard}
  OBVIOUS
<1>1. Overtook(n) = IF \E e \in late : e.type = "session" THEN ChatRuns ELSE {e.run : e \in late}
  BY DEF Overtook
<1>2. /\ heard \in Nat /\ n \in Nat /\ Len(news) \in Nat /\ heard <= Len(news)
      /\ \A i \in n + 1 .. heard : i \in 1 .. Len(news)
      /\ \A i \in n + 1 .. Len(news) : i \in n + 1 .. heard \/ i \in heard + 1 .. Len(news)
  BY DEF ChatTypes
<1>3. ASSUME NEW r \in ChatRuns \ Overtook(n)
      PROVE  \A i \in n + 1 .. heard : news[i].type # "session" /\ news[i].run # r
  BY <1>1, <1>3
<1>4. ASSUME NEW r \in ChatRuns \ Overtook(n)
      PROVE  /\ \A type \in RunNews : Later(n, type, r) => Later(heard, type, r)
             /\ SwitchAfter(n) => SwitchAfter(heard)
  BY <1>2, <1>3, <1>4 DEF Later, SwitchAfter
<1>5. Overtook(n) \subseteq ChatRuns
  <2>1. CASE \E e \in late : e.type = "session"
    BY <1>1, <2>1
  <2>2. CASE ~\E e \in late : e.type = "session"
    <3>1. \A i \in n + 1 .. heard : news[i].type # "session"
      BY <2>2
    <3>2. \A i \in n + 1 .. heard : news[i].run \in ChatRuns
      BY <1>2, <3>1, NewsOfRuns
    <3>3. QED
      BY <1>1, <2>2, <3>2
  <2>3. QED
    BY <2>1, <2>2
<1>6. QED
  BY <1>4, <1>5

LEMMA ArrivalKeeps ==
    ASSUME ChatInv, NEW i \in 1 .. MaxFetches, TimelineArrives(i)
    PROVE  ChatInv'
<1>1. UNCHANGED gatewaySide /\ UNCHANGED <<control, heard>> /\ fetches[i].kind = "answered"
  BY DEF TimelineArrives
<1>2. /\ GatewayKeeps /\ ChatTypes /\ \A n : SwitchAfter(n)' <=> SwitchAfter(n)
      /\ \A n, type, r : Later(n, type, r)' <=> Later(n, type, r)
  BY <1>1, GatewayIdle DEF ChatInv
<1>3. PICK f : f = fetches[i]
  OBVIOUS
<1>4. /\ f.kind = "answered" /\ f.session \in ChatSessions /\ f.at \in 0 .. Len(news)
      /\ SwitchAfter(f.at) \/ f.session = chatSession
      /\ \A r \in ChatRuns :
            /\ FormerRow(f.runs[r], f.at, r)
            /\ Working(f.runs[r]) => f.runs[r].session = f.session
  BY <1>1, <1>3 DEF ChatInv, FetchesSound, FetchSound
<1>5. /\ context' = f.session
      /\ progress' = HydratedEntries(f.runs, f.session)
      /\ overtaken' = Overtook(f.at)
      /\ request' = request \/ request' = Nothing
      /\ fetches' = [fetches EXCEPT ![i] = Nothing]
  BY <1>3 DEF TimelineArrives
<1>6. \A r \in ChatRuns : progress'[r] = EntryOf(f.runs[r])
  BY <1>4, <1>5 DEF HydratedEntries, EntryOf
<1>7. \A r \in ChatRuns : EntryOf(f.runs[r]) \in {NoEntry} \cup Entries
  <2> SUFFICES ASSUME NEW r \in ChatRuns
               PROVE  EntryOf(f.runs[r]) \in {NoEntry} \cup Entries
    OBVIOUS
  <2>1. PICK row : row = f.runs[r]
    OBVIOUS
  <2>2. row \in ChatRows
    BY <1>4, <2>1 DEF FormerRow
  <2>3. EntryOf(row) \in {NoEntry} \cup Entries
    BY <2>2, RowsOfRuns DEF EntryOf, Entries
  <2>4. QED
    BY <2>1, <2>3
<1>8. /\ \A r \in ChatRuns \ overtaken' :
            /\ \A type \in RunNews : Later(f.at, type, r) => Later(heard, type, r)
            /\ SwitchAfter(f.at) => SwitchAfter(heard)
      /\ overtaken' \subseteq ChatRuns
  BY <1>2, <1>4, <1>5, NotOvertaken
<1>9. ChatTypes'
  <2>1. progress' \in [ChatRuns -> {NoEntry} \cup Entries]
    <3>1. progress' = [r \in ChatRuns |-> progress'[r]]
      BY <1>5 DEF HydratedEntries
    <3>2. QED
      BY <1>6, <1>7, <3>1
  <2>2. DOMAIN fetches' = 1 .. MaxFetches
    BY <1>2, <1>5 DEF ChatTypes
  <2>3. QED
    BY <1>1, <1>2, <1>8, <2>1, <2>2 DEF ChatTypes, GatewayKeeps
<1>10. FetchesSound'
  <2> SUFFICES ASSUME NEW j \in 1 .. MaxFetches, NEW g, g = fetches'[j]
               PROVE  FetchSound(g)'
    BY DEF FetchesSound
  <2>1. CASE j = i
    <3>1. g = Nothing
      BY <1>2, <1>5, <2>1 DEF ChatTypes
    <3>2. QED
      BY <3>1 DEF FetchSound
  <2>2. CASE j # i
    <3>1. FetchSound(g)
      BY <1>2, <1>5, <2>2 DEF ChatTypes, ChatInv, FetchesSound
    <3>2. QED
      BY <1>2, <3>1, FetchStays
  <2>3. QED
    BY <2>1, <2>2
<1>11. ShownSound'
  <2>1. chatRun' = chatRun /\ chatSession' = chatSession /\ heard' = heard
    BY <1>1
  <2>2. \A r \in ChatRuns : progress'[r] # NoEntry => chatRun'[r].state # "none"
    BY <1>4, <1>6, <2>1 DEF FormerRow, Fits
  <2>3. PICK h : h = heard
    OBVIOUS
  <2>4. ASSUME ~Suspended', NEW r \in ChatRuns \ overtaken'
        PROVE  Fits(progress[r], heard, r)' /\ (chatRun'[r].state # "ended" => context' = chatSession')
    <3>1. PICK x : x = EntryOf(f.runs[r])
      OBVIOUS
    <3>2. ~SwitchAfter(h)
      <4>1. ~SwitchAfter(h)'
        BY <2>1, <2>3, <2>4 DEF Suspended
      <4>2. QED
        BY <1>2, <4>1
    <3>3. f.session = chatSession
      BY <1>4, <1>8, <2>3, <2>4, <3>2
    <3>4. Fits(x, f.at, r)
      BY <1>4, <3>1 DEF FormerRow
    <3>5. \A type \in RunNews : Later(f.at, type, r) => Later(h, type, r)
      BY <1>8, <2>3, <2>4
    <3>6. Fits(x, h, r)
      BY <3>4, <3>5, FitsFurther
    <3>7. Fits(x, h, r)'
      BY <1>2, <2>1, <3>6 DEF Fits
    <3>8. progress'[r] = x /\ heard' = h
      BY <1>6, <2>1, <2>3, <3>1
    <3>9. QED
      BY <1>5, <2>1, <3>3, <3>7, <3>8
  <2>5. QED
    BY <2>2, <2>4 DEF ShownSound
<1>12. RequestSound' /\ ControlSound'
  <2>1. request' = Nothing => RequestSound'
    BY DEF RequestSound
  <2>2. QED
    BY <1>1, <1>2, <1>5, <2>1, RequestStays, ControlStays
<1>13. QED
  BY <1>2, <1>9, <1>10, <1>11, <1>12 DEF ChatInv, RequestsSound, GatewayKeeps

(* registerRuns, and the answer of a button: the row may be older than the *)
(* entry, but nothing the view has heard came in between.                  *)
LEMMA UpsertFits ==
    ASSUME ChatTypes, NEW q \in ChatRuns, NEW row \in ChatRows, NEW n \in 0 .. Len(news), FormerRow(row, n, q),
           row.state # "running" \/ row.source,
           NEW x \in {NoEntry} \cup Entries, x = progress[q], Fits(x, heard, q),
           q \notin Overtook(n)
    PROVE  Fits(Upsert(progress, q, row, context)[q], heard, q)
<1> PICK y : y = Upsert(progress, q, row, context)[q]
  OBVIOUS
<1> PICK h : h = heard
  OBVIOUS
<1>1. progress \in EntriesOfRuns
  BY DEF ChatTypes, EntriesOfRuns
<1>2. CASE row.session # context \/ ~Working(row)
  <2>1. Upsert(progress, q, row, context) = progress
    BY <1>2 DEF Upsert
  <2>2. y = x
    BY <2>1
  <2>3. QED
    BY <2>2
<1>3. CASE row.session = context /\ Working(row)
  <2>1. y = [state |-> row.state, source |-> row.source, said |-> x # NoEntry /\ x.said]
    BY <1>1, <1>3, UpsertAt
  <2>2. y.state = row.state /\ y.source = row.source /\ y.said = (x # NoEntry /\ x.said)
    BY <2>1
  <2>3. /\ row.state \in {"pending", "running"} /\ row.source \in BOOLEAN /\ row.said \in BOOLEAN
        /\ row.state = "pending" => ~row.source /\ ~row.said
    BY <1>3, RowsOfRuns
  <2>4. PICK pe : pe = EntryOf(row)
    OBVIOUS
  <2>5. pe = [state |-> row.state, source |-> row.source, said |-> row.said]
    BY <1>3, <2>4 DEF EntryOf
  <2>6. pe # NoEntry /\ y # NoEntry
    <3>1. pe \in [state : {"pending", "running"}, source : BOOLEAN, said : BOOLEAN]
      BY <2>3, <2>5
    <3>2. (x # NoEntry /\ x.said) \in BOOLEAN
      OBVIOUS
    <3>3. y \in [state : {"pending", "running"}, source : BOOLEAN, said : BOOLEAN]
      BY <2>1, <2>3, <3>2
    <3>4. QED
      BY <3>1, <3>3, ChatAssumption
  <2>7. pe.state = row.state /\ pe.source = row.source
    BY <2>5
  <2>8. Fits(pe, h, q)
    <3>1. Fits(pe, n, q)
      BY <2>4 DEF FormerRow
    <3>2. \A type \in RunNews : Later(n, type, q) => Later(h, type, q)
      BY NotOvertaken
    <3>3. QED
      BY <3>1, <3>2, FitsFurther
  <2>9. Fits(x, h, q)
    OBVIOUS
  <2>10. chatRun[q].state \in {"pending", "running", "ended"} /\ chatRun[q].source \in BOOLEAN /\ chatRun[q].said \in BOOLEAN
    <3>1. chatRun[q] \in ChatRows
      BY DEF ChatTypes
    <3>2. chatRun[q].state # "none"
      BY <2>6, <2>8 DEF Fits
    <3>3. QED
      BY <3>1, <3>2, RowsOfRuns
  <2>11. CASE chatRun[q].state = "pending"
    <3>1. pe = [state |-> "pending", source |-> FALSE, said |-> FALSE]
      BY <2>6, <2>8, <2>11 DEF Fits
    <3>2. x \in {NoEntry, [state |-> "pending", source |-> FALSE, said |-> FALSE]}
      BY <2>9, <2>11 DEF Fits
    <3>3. row.state = "pending" /\ row.source = FALSE
      <4>1. pe.state = "pending" /\ pe.source = FALSE
        BY <3>1
      <4>2. QED
        BY <2>7, <4>1
    <3>4. (x # NoEntry /\ x.said) = FALSE
      <4>1. CASE x = NoEntry
        BY <4>1
      <4>2. CASE x = [state |-> "pending", source |-> FALSE, said |-> FALSE]
        <5>1. x.said = FALSE
          BY <4>2
        <5>2. QED
          BY <5>1
      <4>3. QED
        BY <3>2, <4>1, <4>2
    <3>5. y = [state |-> "pending", source |-> FALSE, said |-> FALSE]
      BY <2>1, <3>3, <3>4
    <3>6. Fits(y, h, q)
      BY <2>11, <3>5 DEF Fits
    <3>7. QED
      BY <3>6
  <2>12. CASE chatRun[q].state = "running"
    <3>1. /\ pe.source => chatRun[q].source
          /\ ~Later(h, "started", q) => pe.state = "running"
      BY <2>6, <2>8, <2>12 DEF Fits
    <3>2. /\ x # NoEntry => (x.said => chatRun[q].said)
          /\ ~Later(h, "started", q) =>
                x # NoEntry /\ (chatRun[q].said => x.said \/ Later(h, "message", q))
      BY <2>9, <2>12 DEF Fits
    <3>3. y.source => chatRun[q].source
      BY <2>2, <2>7, <3>1
    <3>4. y.said => chatRun[q].said
      BY <2>2, <3>2
    <3>5. ~Later(h, "started", q) =>
             /\ y.state = "running" /\ y.source
             /\ chatRun[q].said => y.said \/ Later(h, "message", q)
      BY <2>2, <2>7, <3>1, <3>2
    <3>6. Fits(y, h, q)
      BY <2>6, <2>12, <3>3, <3>4, <3>5 DEF Fits
    <3>7. QED
      BY <3>6
  <2>13. CASE chatRun[q].state = "ended"
    <3>1. Later(h, "ended", q)
      BY <2>6, <2>8, <2>13 DEF Fits
    <3>2. Fits(y, h, q)
      BY <2>13, <3>1 DEF Fits
    <3>3. QED
      BY <3>2
  <2>14. QED
    BY <2>10, <2>11, <2>12, <2>13
<1>4. QED
  BY <1>2, <1>3

(* The view does something while the gateway and the fetches stay.         *)
LEMMA ShownStays ==
    ASSUME ChatInv, UNCHANGED gatewaySide, UNCHANGED <<fetches, context, heard>>,
           progress' \in EntriesOfRuns, overtaken' \subseteq ChatRuns,
           \A r \in ChatRuns :
              /\ progress'[r] # NoEntry => chatRun[r].state # "none"
              /\ ~Suspended /\ r \notin overtaken' =>
                    Fits(progress'[r], heard, r) /\ (chatRun[r].state # "ended" => context = chatSession)
    PROVE  ChatTypes' /\ NewsInv' /\ FetchesSound' /\ ShownSound'
<1>1. /\ GatewayKeeps /\ ChatTypes /\ \A n : SwitchAfter(n)' <=> SwitchAfter(n)
      /\ \A n, type, r : Later(n, type, r)' <=> Later(n, type, r)
  BY GatewayIdle DEF ChatInv
<1>2. ChatTypes'
  BY <1>1 DEF ChatTypes, GatewayKeeps, EntriesOfRuns
<1>3. FetchesSound'
  <2> SUFFICES ASSUME NEW i \in 1 .. MaxFetches, NEW f, f = fetches[i]
               PROVE  FetchSound(f)'
    BY DEF FetchesSound
  <2>1. FetchSound(f)
    BY DEF ChatInv, FetchesSound
  <2>2. QED
    BY <1>1, <2>1, FetchStays
<1>4. ShownSound'
  <2>1. chatRun' = chatRun /\ chatSession' = chatSession /\ heard' = heard /\ context' = context /\ fetches' = fetches
    OBVIOUS
  <2>2. PICK h : h = heard
    OBVIOUS
  <2>3. ~Suspended' => ~Suspended
    <3>1. SwitchAfter(h)' <=> SwitchAfter(h)
      BY <1>1
    <3>2. QED
      BY <2>1, <2>2, <3>1 DEF Suspended
  <2>4. ASSUME ~Suspended', NEW r \in ChatRuns \ overtaken'
        PROVE  Fits(progress[r], heard, r)' /\ (chatRun'[r].state # "ended" => context' = chatSession')
    <3>1. PICK y : y = progress'[r]
      OBVIOUS
    <3>2. Fits(y, h, r) /\ (chatRun[r].state # "ended" => context = chatSession)
      BY <2>2, <2>3, <2>4, <3>1
    <3>3. Fits(y, h, r)'
      BY <1>1, <2>1, <3>2 DEF Fits
    <3>4. QED
      BY <2>1, <2>2, <3>1, <3>2, <3>3
  <2>5. QED
    BY <2>1, <2>4 DEF ShownSound
<1>5. QED
  BY <1>1, <1>2, <1>3, <1>4 DEF GatewayKeeps

LEMMA RequestArrivesKeeps ==
    ASSUME ChatInv, RequestArrives
    PROVE  ChatInv'
<1>1. UNCHANGED gatewaySide /\ UNCHANGED <<control, context, heard>> /\ request.stage = "answered"
  BY DEF RequestArrives
<1>2. GatewayKeeps /\ ChatTypes
  BY <1>1, GatewayIdle DEF ChatInv
<1>3. ControlSound'
  BY <1>1, <1>2, ControlStays
<1>4. progress \in EntriesOfRuns
  BY <1>2 DEF ChatTypes, EntriesOfRuns
<1>5. CASE request.kind = "message"
  <2>1. PICK q, row, n : q = request.run /\ row = request.row /\ n = request.at
    OBVIOUS
  <2>2. q \in ChatRuns /\ row.state = "pending" /\ FormerRow(row, n, q) /\ row \in ChatRows /\ n \in 0 .. Len(news)
    BY <1>1, <1>5, <2>1 DEF ChatInv, RequestsSound, RequestSound, FormerRow
  <2>3. PICK es : es = Upsert(progress, q, row, context)
    OBVIOUS
  <2>4. /\ progress' = es /\ UNCHANGED fetches
        /\ overtaken' = overtaken \cup ({q} \cap Overtook(n))
        /\ request' = Nothing
    BY <1>5, <2>1, <2>3 DEF RequestArrives
  <2>5. es \in EntriesOfRuns /\ \A r \in ChatRuns : r # q => es[r] = progress[r]
    BY <1>4, <2>2, <2>3, UpsertTypes
  <2>6. overtaken' \subseteq ChatRuns
    BY <1>2, <2>2, <2>4 DEF ChatTypes
  <2>7. chatRun[q].state # "none"
    <3>1. Fits(EntryOf(row), n, q)
      BY <2>2 DEF FormerRow
    <3>2. PICK pe : pe = EntryOf(row)
      OBVIOUS
    <3>3. row.source \in BOOLEAN /\ row.said \in BOOLEAN
      BY <2>2, RowsOfRuns
    <3>4. pe \in [state : {"pending", "running"}, source : BOOLEAN, said : BOOLEAN]
      BY <2>2, <3>2, <3>3 DEF EntryOf
    <3>5. QED
      BY <3>1, <3>2, <3>4, ChatAssumption DEF Fits
  <2>8. ASSUME NEW r \in ChatRuns
        PROVE  /\ progress'[r] # NoEntry => chatRun[r].state # "none"
               /\ ~Suspended /\ r \notin overtaken' =>
                     Fits(progress'[r], heard, r) /\ (chatRun[r].state # "ended" => context = chatSession)
    <3>1. /\ progress[r] # NoEntry => chatRun[r].state # "none"
          /\ ~Suspended /\ r \notin overtaken =>
                Fits(progress[r], heard, r) /\ (chatRun[r].state # "ended" => context = chatSession)
      BY DEF ChatInv, ShownSound
    <3>2. CASE r # q
      BY <2>4, <2>5, <3>1, <3>2
    <3>3. CASE r = q
      <4>1. ASSUME ~Suspended, q \notin overtaken'
            PROVE  Fits(progress'[q], heard, q) /\ (chatRun[q].state # "ended" => context = chatSession)
        <5>1. q \notin overtaken /\ q \notin Overtook(n)
          BY <2>4, <4>1
        <5>2. Fits(progress[q], heard, q) /\ (chatRun[q].state # "ended" => context = chatSession)
          BY <3>1, <3>3, <4>1, <5>1
        <5>3. PICK x : x = progress[q]
          OBVIOUS
        <5>4. x \in {NoEntry} \cup Entries /\ row.state # "running"
          BY <1>2, <2>2, <5>3 DEF ChatTypes
        <5>5. Fits(es[q], heard, q)
          BY <1>2, <2>2, <2>3, <5>1, <5>2, <5>3, <5>4, UpsertFits
        <5>6. QED
          BY <2>4, <5>2, <5>5
      <4>2. QED
        BY <2>7, <3>3, <4>1
    <3>4. QED
      BY <3>2, <3>3
  <2>9. ChatTypes' /\ NewsInv' /\ FetchesSound' /\ ShownSound'
    BY <1>1, <2>4, <2>5, <2>6, <2>8, ShownStays
  <2>10. RequestSound'
    BY <2>4 DEF RequestSound
  <2>11. QED
    BY <1>3, <2>9, <2>10 DEF ChatInv, RequestsSound
<1>6. CASE request.kind # "message"
  <2>1. /\ progress' \in {progress, NoEntries} /\ overtaken' = overtaken /\ Reload(TRUE)
        /\ request' = [kind |-> "reload", stage |-> "asked"]
    BY <1>6 DEF RequestArrives
  <2>2. FetchesSound' /\ DOMAIN fetches' = 1 .. MaxFetches /\ Suspended'
    BY <1>2, <2>1, AskedFetch DEF Suspended
  <2>3. \A r \in ChatRuns : progress'[r] = progress[r] \/ progress'[r] = NoEntry
    BY <2>1 DEF NoEntries
  <2>4. ShownSound'
    BY <1>1, <2>2, <2>3 DEF ChatInv, ShownSound
  <2>5. progress' \in EntriesOfRuns
    BY <1>4, <2>1 DEF NoEntries, EntriesOfRuns
  <2>6. ChatTypes'
    BY <1>1, <1>2, <2>1, <2>2, <2>5 DEF ChatTypes, EntriesOfRuns, GatewayKeeps
  <2>7. RequestSound'
    BY <2>1 DEF RequestSound
  <2>8. QED
    BY <1>2, <1>3, <2>2, <2>4, <2>6, <2>7 DEF ChatInv, RequestsSound, GatewayKeeps
<1>7. QED
  BY <1>5, <1>6

LEMMA ControlArrivesKeeps ==
    ASSUME ChatInv, ControlArrives
    PROVE  ChatInv'
<1>1. /\ UNCHANGED gatewaySide /\ UNCHANGED <<request, fetches, context, heard>>
      /\ control # Nothing /\ control.stage = "answered" /\ control' = Nothing
  BY DEF ControlArrives
<1>2. GatewayKeeps /\ ChatTypes
  BY <1>1, GatewayIdle DEF ChatInv
<1>3. RequestSound' /\ ControlSound'
  BY <1>1, <1>2, RequestStays DEF ControlSound
<1>4. progress \in EntriesOfRuns /\ overtaken \subseteq ChatRuns
  BY <1>2 DEF ChatTypes, EntriesOfRuns
<1>5. PICK q, row, n : q = control.run /\ row = control.row /\ n = control.at
  OBVIOUS
<1>6. /\ q \in ChatRuns /\ chatRun[q] # NoRun /\ control.kind \in {"stop", "background"}
      /\ control.kind = "stop" => chatRun[q].state = "ended"
      /\ control.kind = "background" =>
            FormerRow(row, n, q) /\ (Working(row) => row.state = "running" /\ row.source)
  BY <1>1, <1>5 DEF ChatInv, RequestsSound, ControlSound
<1>7. chatRun[q].state # "none"
  <2>1. chatRun[q] \in ChatRows
    BY <1>2, <1>6 DEF ChatTypes
  <2>2. QED
    BY <1>6, <2>1, RowsOfRuns
<1>8. \A r \in ChatRuns :
         /\ progress[r] # NoEntry => chatRun[r].state # "none"
         /\ ~Suspended /\ r \notin overtaken =>
               Fits(progress[r], heard, r) /\ (chatRun[r].state # "ended" => context = chatSession)
  BY DEF ChatInv, ShownSound
<1>9. CASE control.kind = "stop"
  <2>1. progress' = [progress EXCEPT ![q] = NoEntry] /\ overtaken' = overtaken
    BY <1>5, <1>9 DEF ControlArrives
  <2>2. /\ progress' \in EntriesOfRuns /\ progress'[q] = NoEntry
        /\ \A r \in ChatRuns : r # q => progress'[r] = progress[r]
    BY <1>4, <1>6, <2>1 DEF EntriesOfRuns
  <2>3. Fits(NoEntry, heard, q)
    BY <1>6, <1>9 DEF Fits
  <2>4. \A r \in ChatRuns :
           /\ progress'[r] # NoEntry => chatRun[r].state # "none"
           /\ ~Suspended /\ r \notin overtaken' =>
                 Fits(progress'[r], heard, r) /\ (chatRun[r].state # "ended" => context = chatSession)
    BY <1>7, <1>8, <2>1, <2>2, <2>3
  <2>5. ChatTypes' /\ NewsInv' /\ FetchesSound' /\ ShownSound'
    BY <1>1, <1>4, <2>1, <2>2, <2>4, ShownStays
  <2>6. QED
    BY <1>3, <2>5 DEF ChatInv, RequestsSound
<1>10. CASE control.kind = "background"
  <2>1. row \in ChatRows /\ n \in 0 .. Len(news) /\ FormerRow(row, n, q) /\ (row.state # "running" \/ row.source)
    BY <1>6, <1>10 DEF FormerRow
  <2>2. PICK es : es = Upsert(progress, q, row, context)
    OBVIOUS
  <2>3. progress' = es /\ overtaken' = overtaken \cup ({q} \cap Overtook(n))
    BY <1>5, <1>10, <2>2 DEF ControlArrives
  <2>4. es \in EntriesOfRuns /\ \A r \in ChatRuns : r # q => es[r] = progress[r]
    BY <1>4, <1>6, <2>1, <2>2, UpsertTypes
  <2>5. overtaken' \subseteq ChatRuns
    BY <1>4, <1>6, <2>3
  <2>6. ASSUME ~Suspended, q \notin overtaken'
        PROVE  Fits(es[q], heard, q)
    <3>1. q \notin overtaken /\ q \notin Overtook(n)
      BY <2>3, <2>6
    <3>2. Fits(progress[q], heard, q)
      BY <1>6, <1>8, <2>6, <3>1
    <3>3. PICK x : x = progress[q]
      OBVIOUS
    <3>4. x \in {NoEntry} \cup Entries
      BY <1>2, <1>6, <3>3 DEF ChatTypes
    <3>5. QED
      BY <1>2, <1>6, <2>1, <2>2, <3>1, <3>2, <3>3, <3>4, UpsertFits
  <2>7. \A r \in ChatRuns :
           /\ progress'[r] # NoEntry => chatRun[r].state # "none"
           /\ ~Suspended /\ r \notin overtaken' =>
                 Fits(progress'[r], heard, r) /\ (chatRun[r].state # "ended" => context = chatSession)
    BY <1>7, <1>8, <2>3, <2>4, <2>6
  <2>8. ChatTypes' /\ NewsInv' /\ FetchesSound' /\ ShownSound'
    BY <1>1, <2>3, <2>4, <2>5, <2>7, ShownStays
  <2>9. QED
    BY <1>3, <2>8 DEF ChatInv, RequestsSound
<1>11. QED
  BY <1>6, <1>9, <1>10

-----------------------------------------------------------------------------
(* Theorems *)

LEMMA ChatStart == ChatInit => ChatInv
<1> SUFFICES ASSUME ChatInit
             PROVE  ChatInv
  OBVIOUS
<1>1. news = << >> /\ Len(news) = 0 /\ heard = 0 /\ \A i : i \notin 1 .. Len(news)
  BY DEF ChatInit
<1>2. chatRun = [r \in ChatRuns |-> NoRun] /\ progress = [r \in ChatRuns |-> NoEntry]
  BY DEF ChatInit, NoEntries
<1>3. NoRun \in ChatRows
  BY DEF ChatRows
<1>4. ChatTypes
  BY <1>1, <1>2, <1>3, ChatAssumption DEF ChatInit, ChatTypes
<1>5. NewsInv
  <2>1. NewsOrder /\ NewsSound
    BY <1>1 DEF NewsOrder, NewsSound
  <2>2. NewsComplete /\ WorkHere
    BY <1>2 DEF NewsComplete, WorkHere
  <2>3. QED
    BY <2>1, <2>2 DEF NewsInv
<1>6. \A i \in 1 .. MaxFetches : fetches[i] = Nothing
  BY DEF ChatInit
<1>7. FetchesSound
  <2>1. FetchSound(Nothing)
    BY DEF FetchSound
  <2>2. QED
    BY <1>6, <2>1 DEF FetchesSound
<1>8. RequestsSound
  BY DEF ChatInit, RequestsSound, RequestSound, ControlSound
<1>9. ShownSound
  <2>1. \A r \in ChatRuns : progress[r] = NoEntry /\ chatRun[r].state = "none"
    BY <1>2
  <2>2. context = chatSession
    BY DEF ChatInit
  <2>3. \A r \in ChatRuns : Fits(progress[r], heard, r)
    BY <2>1 DEF Fits
  <2>4. QED
    BY <2>1, <2>2, <2>3 DEF ShownSound
<1>10. QED
  BY <1>4, <1>5, <1>7, <1>8, <1>9 DEF ChatInv

LEMMA ChatStep ==
    ASSUME ChatInv, [ChatNext]_chatVars
    PROVE  ChatInv'
<1>1. CASE UNCHANGED chatVars
  <2>1. /\ UNCHANGED gatewaySide
        /\ UNCHANGED <<fetches, request, control, progress, viewed, context, heard, overtaken>>
    BY <1>1 DEF chatVars
  <2>2. GatewayKeeps /\ chatSession' = chatSession
    BY <2>1, GatewayIdle
  <2>3. QED
    BY <2>1, <2>2, GatewayInv, RequestStays, ControlStays DEF ChatInv, RequestsSound
<1>2. CASE ChatNext
  <2>1. CASE Elsewhere
    BY <2>1, ElsewhereKeeps
  <2>2. CASE HearNews
    BY <2>2, HearingKeeps
  <2>3. CASE \E i \in 1 .. MaxFetches : AnswerTimeline(i) \/ TimelineArrives(i)
    BY <2>3, AnswerKeeps, ArrivalKeeps
  <2>4. CASE \/ \E k \in {"message", "new"} : Submit([kind |-> k, stage |-> "asked"])
             \/ \E s \in opened \ {viewed} : Submit([kind |-> "resume", stage |-> "asked", session |-> s])
             \/ \E r \in ChatRuns : \E k \in {"stop", "background"} : Press(k, r)
             \/ LoseRequest
    BY <2>4, AskingKeeps
  <2>5. CASE \E r \in ChatRuns : ServeMessage(r)
    BY <2>5, ServeMessageKeeps
  <2>6. CASE \E s \in ChatSessions : ServeSwitch(s)
    BY <2>6, ServeSwitchKeeps
  <2>7. CASE RequestArrives \/ ServeControl \/ ControlArrives
    BY <2>7, RequestArrivesKeeps, ServeControlKeeps, ControlArrivesKeeps
  <2>8. QED
    BY <1>2, <2>1, <2>2, <2>3, <2>4, <2>5, <2>6, <2>7 DEF ChatNext
<1>3. QED
  BY <1>1, <1>2

(* ChatInv is an inductive invariant of the Space view (space-view.js,     *)
(* run-progress.js, composer.js) and the gateway it is about.              *)
THEOREM ChatInvInductive == ChatSpec => []ChatInv
<1>1. QED
  BY ChatStart, ChatStep, PTL DEF ChatSpec

(* A view that has heard everything and waits for nothing shows the run    *)
(* feedback of exactly the runs at work in the active session, with the    *)
(* button that applies to each, unless an answer of a run was overtaken by *)
(* its later events.                                                       *)
THEOREM ShownRunsAreAlwaysTrue == ChatSpec => []ShownRunsAreTrue
<1>1. ChatInv => ShownRunsAreTrue
  <2> SUFFICES ASSUME ChatInv, Settled, NEW r \in ChatRuns \ overtaken
               PROVE  IF chatRun[r].session = chatSession /\ chatRun[r].state = "running"
                      THEN progress[r] = [state |-> "running", source |-> chatRun[r].source, said |-> chatRun[r].said]
                      ELSE progress[r] # NoEntry => chatRun[r].session = chatSession /\ chatRun[r].state = "pending"
    BY DEF ShownRunsAreTrue
  <2>1. PICK x, row : x = progress[r] /\ row = chatRun[r]
    OBVIOUS
  <2>2. /\ heard = Len(news) /\ Len(news) \in Nat /\ row \in ChatRows /\ x \in {NoEntry} \cup Entries
        /\ \A i \in 1 .. MaxFetches : fetches[i] = Nothing
    BY <2>1 DEF Settled, ChatInv, ChatTypes
  <2>3. \A i : i \notin heard + 1 .. Len(news)
    BY <2>2
  <2>4. ~Suspended /\ \A type : ~Later(heard, type, r)
    BY <2>2, <2>3 DEF Suspended, SwitchAfter, Later
  <2>5. Fits(x, heard, r)
    BY <2>1, <2>4 DEF ChatInv, ShownSound
  <2>6. row.source \in BOOLEAN /\ row.said \in BOOLEAN /\ row.state \in {"none", "pending", "running", "ended"}
    BY <2>2, RowsOfRuns
  <2>7. Working(row) => row.session = chatSession
    BY <2>1 DEF ChatInv, NewsInv, WorkHere
  <2>8. CASE row.state = "running"
    <3>1. /\ x # NoEntry /\ x.state = "running" /\ (x.source => row.source) /\ (x.said => row.said)
          /\ (row.source => x.source) /\ (row.said => x.said)
      BY <2>1, <2>4, <2>5, <2>8 DEF Fits
    <3>2. x \in [state : {"pending", "running"}, source : BOOLEAN, said : BOOLEAN]
      BY <2>2, <3>1 DEF Entries
    <3>3. x.source = row.source /\ x.said = row.said
      BY <2>6, <3>1, <3>2
    <3>4. x = [state |-> "running", source |-> row.source, said |-> row.said]
      BY <3>1, <3>2, <3>3
    <3>5. QED
      BY <2>1, <2>7, <2>8, <3>4
  <2>9. CASE row.state # "running"
    <3>1. x = NoEntry \/ row.state = "pending"
      BY <2>1, <2>4, <2>5, <2>6, <2>9 DEF Fits
    <3>2. QED
      BY <2>1, <2>7, <2>9, <3>1
  <2>10. QED
    BY <2>8, <2>9
<1>2. QED
  BY <1>1, ChatInvInductive, PTL
=============================================================================
