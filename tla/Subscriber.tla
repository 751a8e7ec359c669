----------------------------- MODULE Subscriber -----------------------------
(* The thread that receives published messages: Sentinel::subscribe_event    *)
(* picks a connection and subscribes on it, Subscriber::do_recv_msg hands    *)
(* each message to the callback, another thread calls stop_subscribe_event.  *)
(*                                                                           *)
(* The stream of the subscribed connection starts with one acknowledgement   *)
(* per channel; messages follow.  Reply n is the units 2n-1 and 2n of the    *)
(* stream, so that it can be cut.  Replies to commands that timed out may    *)
(* come in front.  What the connection promises below a reply (buffer,       *)
(* bytes, drain) is in RClient and RespParser.                               *)
EXTENDS Integers, Sequences

CONSTANTS
    Nodes,      \* number of connections the sentinel client has
    Channels,   \* number of channels or patterns subscribed
    Pattern,    \* TRUE for p_subscribe and recv_p_msg
    MaxEvents,  \* bound on the messages published
    MaxLate     \* bound on the late replies of earlier commands

ASSUME NodesAssumption == Nodes \in Nat \ {0}
ASSUME ChannelsAssumption == Channels \in Nat \ {0}
ASSUME PatternAssumption == Pattern \in BOOLEAN
ASSUME MaxEventsAssumption == MaxEvents \in Nat
ASSUME MaxLateAssumption == MaxLate \in Nat

VARIABLES
    pc,       \* where the receiving thread is
    node,     \* the connection do_subscribe_event is at
    listed,   \* the subscriber is in _subscribers
    isStop,   \* _is_stop
    stopped,  \* stop_subscribe_event has been called
    code,     \* ret_code of do_recv_msg
    sent,     \* replies the server has sent on the subscribed connection
    late,     \* late replies still to come in front of the stream
    made,     \* units that have reached the socket
    got,      \* units that have been read into the buffer
    head,     \* units that have been parsed
    closed,   \* the connection is closed
    handled   \* the replies given to the callback, oldest first

vars == <<pc, node, listed, isStop, stopped, code, sent, late, made, got, head, closed, handled>>

stream == <<sent, late, made, got, head, closed>>

Receiving == {"loop", "wait", "handle", "drain"}

Init ==
    /\ pc = "idle" /\ node = 1 /\ code = "OK"
    /\ listed = FALSE /\ isStop = TRUE /\ stopped = FALSE
    /\ sent = 0 /\ late = 0 /\ made = 0 /\ got = 0 /\ head = 0 /\ closed = FALSE
    /\ handled = <<>>

(* The number of the reply that ends at unit h. *)
Reply(h) == h \div 2

IsAck(n) == n <= Channels

(* A whole reply, or a part of one, is unread. *)
Whole == got >= head + 2
Part == got = head + 1

(* results.size() of reply n. *)
Elements(n) == IF IsAck(n) \/ ~Pattern THEN 3 ELSE 4

-----------------------------------------------------------------------------
(* Sentinel::do_subscribe_event *)

subscribe_event ==
    /\ pc = "idle"
    /\ pc' = "check" /\ listed' = FALSE
    /\ UNCHANGED <<node, isStop, stopped, code, stream, handled>>

(* check_connection fails: the next connection, if there is one. *)
CheckFails ==
    /\ pc = "check"
    /\ node' = node + 1
    /\ pc' = IF node = Nodes THEN "done" ELSE "check"
    /\ UNCHANGED <<listed, isStop, stopped, code, stream, handled>>

(* The subscriber joins the list, with _subs_mutex held. *)
CheckPasses ==
    /\ pc = "check"
    /\ pc' = "send" /\ listed' = TRUE
    /\ UNCHANGED <<node, isStop, stopped, code, stream, handled>>

(* The command is written whole or not; the server answers all of it.        *)
(* Replies to earlier commands that had not arrived come before.             *)
Send ==
    /\ pc = "send"
    /\ \/ pc' = "ack" /\ sent' = Channels /\ late' \in 0 .. MaxLate
       \/ pc' = "done" /\ UNCHANGED <<sent, late>>
    /\ UNCHANGED <<node, listed, isStop, stopped, code, made, got, head, closed, handled>>

-----------------------------------------------------------------------------
(* RClient::get_results, called for the first acknowledgement and in the     *)
(* receive loop.                                                             *)

(* Mutant: a part of a reply is parsed like a whole one. *)
Receive_PartIsWhole(k) ==
    /\ pc \in {"ack", "wait"} /\ late = 0
    /\ got' = got + k /\ head' = head + 2
    /\ pc' = IF pc = "ack" THEN "rest" ELSE "handle"
    /\ code' = "OK"
    /\ UNCHANGED <<node, listed, isStop, stopped, sent, late, made, closed, handled>>

(* Bytes are read and the first reply is parsed; when it is not whole the    *)
(* call reads again.                                                         *)
Receive(k) ==
    /\ pc \in {"ack", "wait"} /\ late = 0
    /\ got' = got + k
    /\ IF got' >= head + 2
       THEN /\ head' = head + 2
            /\ pc' = IF pc = "ack" THEN "rest" ELSE "handle"
            /\ code' = "OK"
       ELSE UNCHANGED <<head, pc, code>>
    /\ UNCHANGED <<node, listed, isStop, stopped, sent, late, made, closed, handled>>

(* The first of l late replies is taken for the acknowledgement; the rest of *)
(* them, and k units of the stream behind the last one, came with it.        *)
ReceiveLate(l, k) ==
    /\ pc = "ack" /\ (l = late \/ k = 0)
    /\ late' = late - l /\ got' = got + k
    /\ pc' = "rest" /\ code' = "OK"
    /\ UNCHANGED <<node, listed, isStop, stopped, sent, made, head, closed, handled>>

(* Mutant: get_results waits again when it times out. *)
TimesOut_Retries ==
    /\ pc \in {"ack", "wait"} /\ made = got /\ ~closed
    /\ UNCHANGED vars

TimesOut ==
    /\ pc \in {"ack", "wait"} /\ made = got /\ ~closed
    /\ code' = "TCP_TIMEOUT"
    /\ pc' = IF pc = "ack" THEN "done" ELSE "loop"
    /\ UNCHANGED <<node, listed, isStop, stopped, stream, handled>>

(* A read of 0 bytes: both callers give up. *)
ReadsEnd ==
    /\ pc \in {"ack", "wait"} /\ made = got /\ closed
    /\ code' = "TCP_CONNECTION_ERROR"
    /\ pc' = "done"
    /\ UNCHANGED <<node, listed, isStop, stopped, stream, handled>>

-----------------------------------------------------------------------------
(* Subscriber::handle_subscribe_res, behind the first acknowledgement *)

(* do_parse takes the next reply.  For a part of one it returns an array     *)
(* without its elements and puts the read position back: the loop comes to   *)
(* the same state, for ever.                                                 *)
RestNext ==
    /\ pc = "rest" /\ Whole
    /\ head' = head + 2
    /\ UNCHANGED <<pc, node, listed, isStop, stopped, code, sent, late, made, got, closed, handled>>

(* The last reply parsed gives the count: its third element if that is a     *)
(* number, as in an acknowledgement, else 0 (0 too for a late reply).  The   *)
(* caller receives only when it is the number of channels.                   *)
Acknowledged ==
    /\ pc = "rest" /\ got = head
    /\ LET n == Reply(head)
           count == IF IsAck(n) THEN n ELSE 0
       IN  pc' = IF count = Channels THEN "enter" ELSE "done"
    /\ UNCHANGED <<node, listed, isStop, stopped, code, stream, handled>>

-----------------------------------------------------------------------------
(* Subscriber::do_recv_msg *)

Enter ==
    /\ pc = "enter"
    /\ pc' = "loop" /\ isStop' = FALSE /\ code' = "OK"
    /\ UNCHANGED <<node, listed, stopped, stream, handled>>

Loop ==
    /\ pc = "loop"
    /\ pc' = IF isStop THEN "done" ELSE "wait"
    /\ UNCHANGED <<node, listed, isStop, stopped, code, stream, handled>>

(* handle_publish or handle_p_publish, then the callback; a reply with       *)
(* another number of elements leaves the inner loop.                         *)
Handle ==
    /\ pc = "handle"
    /\ IF Elements(Reply(head)) = (IF Pattern THEN 4 ELSE 3)
       THEN pc' = "drain" /\ handled' = Append(handled, Reply(head))
       ELSE pc' = "loop" /\ UNCHANGED handled
    /\ UNCHANGED <<node, listed, isStop, stopped, code, stream>>

(* Mutant: one reply for each read. *)
Drain_Once ==
    /\ pc = "drain"
    /\ pc' = "loop"
    /\ UNCHANGED <<node, listed, isStop, stopped, code, stream, handled>>

(* Mutant: the reply just handled is parsed again. *)
Drain_Repeats ==
    /\ pc = "drain"
    /\ IF got > head THEN pc' = "handle" ELSE pc' = "loop"
    /\ UNCHANGED <<node, listed, isStop, stopped, code, stream, handled>>

(* What is left in the buffer: nothing, another reply, or a part of one, for *)
(* which do_parse returns an array without its elements and NEED_MORE_DATA;  *)
(* that ends the inner loop and then do_recv_msg.                            *)
Drain ==
    /\ pc = "drain"
    /\ CASE Whole -> pc' = "handle" /\ head' = head + 2 /\ code' = "OK"
         [] Part -> pc' = "done" /\ code' = "NEED_MORE_DATA" /\ UNCHANGED head
         [] OTHER -> pc' = "loop" /\ UNCHANGED <<head, code>>
    /\ UNCHANGED <<node, listed, isStop, stopped, sent, late, made, got, closed, handled>>

-----------------------------------------------------------------------------
(* The other thread, the server and the network *)

(* stop_recv on every listed subscriber, with _subs_mutex held. *)
stop_subscribe_event ==
    /\ ~stopped
    /\ stopped' = TRUE
    /\ isStop' = (listed \/ isStop)
    /\ UNCHANGED <<pc, node, listed, code, stream, handled>>

Publish ==
    /\ sent >= Channels /\ sent < Channels + MaxEvents /\ ~closed
    /\ sent' = sent + 1
    /\ UNCHANGED <<pc, node, listed, isStop, stopped, code, late, made, got, head, closed, handled>>

Arrive ==
    /\ made < 2 * sent /\ ~closed
    /\ made' = made + 1
    /\ UNCHANGED <<pc, node, listed, isStop, stopped, code, sent, late, got, head, closed, handled>>

Close ==
    /\ sent > 0 /\ ~closed
    /\ closed' = TRUE
    /\ UNCHANGED <<pc, node, listed, isStop, stopped, code, sent, late, made, got, head, handled>>

-----------------------------------------------------------------------------

(* A step of the receiving thread once subscribe_event was called. *)
Work ==
    \/ CheckFails \/ CheckPasses \/ Send
    \/ \E k \in 1 .. made - got : Receive(k)
    \/ \E l \in 1 .. late, k \in 0 .. made - got : ReceiveLate(l, k)
    \/ TimesOut \/ ReadsEnd
    \/ RestNext \/ Acknowledged
    \/ Enter \/ Loop \/ Handle \/ Drain

Next ==
    \/ subscribe_event \/ Work
    \/ stop_subscribe_event
    \/ Publish \/ Arrive \/ Close

Spec == Init /\ [][Next]_vars

(* Every blocking call of the thread ends: select has a time-out. *)
FairSpec == Spec /\ WF_vars(Work)

-----------------------------------------------------------------------------
(* Properties *)

TypeOK ==
    /\ pc \in {"idle", "check", "send", "ack", "rest", "enter", "done"} \cup Receiving
    /\ node \in 1 .. Nodes + 1
    /\ listed \in BOOLEAN /\ isStop \in BOOLEAN /\ stopped \in BOOLEAN /\ closed \in BOOLEAN
    /\ code \in {"OK", "TCP_TIMEOUT", "TCP_CONNECTION_ERROR", "NEED_MORE_DATA"}
    /\ sent \in 0 .. Channels + MaxEvents
    /\ late \in 0 .. MaxLate
    /\ made \in 0 .. 2 * sent /\ got \in 0 .. made /\ head \in 0 .. got
    /\ handled \in Seq(Nat)

(* The callback gets every message once, in the order published, from the    *)
(* first one behind the acknowledgements on, and no acknowledgement          *)
(* (handle_subscribe_res, the two loops of do_recv_msg).                     *)
MessagesInOrder == \A i \in DOMAIN handled : handled[i] = Channels + i

(* The thread never waits for the socket with a whole reply in the buffer    *)
(* (the has_more_data loop of do_recv_msg).                                  *)
WaitsEmptyHanded == pc = "wait" => ~Whole

(* A message that has reached the socket of a receiving thread is handled    *)
(* before the thread does anything else than return.                         *)
MessageIsHandled ==
    \A n \in 1..MaxEvents :
        (pc \in Receiving /\ made >= 2 * (Channels + n)) ~> (Len(handled) >= n \/ pc = "done")

(* A stop that comes while the thread receives makes do_recv_msg return      *)
(* (_is_stop, the time-out of one second).                                   *)
StopEndsRecvMsg == (pc \in Receiving /\ isStop) ~> pc = "done"

=============================================================================
