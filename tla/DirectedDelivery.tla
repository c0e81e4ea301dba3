-------------------------- MODULE DirectedDelivery --------------------------
(***************************************************************************)
(* What the directed event channel of an Account promises: while a session *)
(* lives, the daemon that holds it handles every event sent to it, once    *)
(* and in the order of sending, unless it is told that it lost some.       *)
(***************************************************************************)
EXTENDS Naturals, Sequences

CONSTANTS
    Events,     \* the events that may be sent
    Sessions    \* the sessions that may be issued, positive numbers

VARIABLES
    session,    \* the live session at the gateway, 0 for none
    holder,     \* the session the daemon holds, 0 for none
    unread,     \* events sent to the holder that it has not handled
    resets      \* how often the daemon was told that it lost events

deliveryVars == <<session, holder, unread, resets>>

(* Events for a session nobody holds are never read.                       *)
Send(es) ==
    /\ session # 0
    /\ unread' = IF session = holder THEN unread \o es ELSE unread
    /\ UNCHANGED <<session, holder, resets>>

Deliver ==
    /\ holder # 0
    /\ unread # << >>
    /\ unread' = Tail(unread)
    /\ UNCHANGED <<session, holder, resets>>

(* The daemon learns that the oldest of what it has not read is lost.      *)
Reset ==
    /\ holder # 0
    /\ \E n \in 0 .. Len(unread) : unread' = SubSeq(unread, n + 1, Len(unread))
    /\ resets' = resets + 1
    /\ UNCHANGED <<session, holder>>

Shortened == \E n \in 0 .. Len(unread) : unread' = SubSeq(unread, 1, n)

(* What was sent to a session that is over may be lost without notice.     *)
Lose ==
    /\ session # holder
    /\ Shortened
    /\ UNCHANGED <<session, holder, resets>>

(* The session ends: its key was revoked or the gateway restarted.         *)
EndSession ==
    /\ session # 0
    /\ session' = 0
    /\ Shortened
    /\ UNCHANGED <<holder, resets>>

(* A login issues another session; its answer may not reach the daemon.    *)
Login(new, answered) ==
    /\ new \notin {session, holder}
    /\ session' = new
    /\ holder' = IF answered THEN new ELSE holder
    /\ unread' = IF answered THEN << >> ELSE unread
    /\ UNCHANGED resets

(* The daemon process is gone.                                             *)
LeaveSession ==
    /\ holder' = 0
    /\ unread' = << >>
    /\ UNCHANGED <<session, resets>>

DeliveryInit == session = 0 /\ holder = 0 /\ unread = << >> /\ resets = 0

DeliveryNext ==
    \/ \E e \in Events : Send(<<e>>)
    \/ \E new \in Sessions, answered \in BOOLEAN : Login(new, answered)
    \/ Deliver \/ Reset \/ Lose \/ EndSession \/ LeaveSession

DeliverySpec == DeliveryInit /\ [][DeliveryNext]_deliveryVars
=============================================================================
