-------------------------- MODULE SubscriberProofs --------------------------
(***************************************************************************)
(* The receiving thread, for every number of connections, channels and     *)
(* messages: it hands over the messages in order, each once, and never     *)
(* waits with a whole reply in its buffer.                                 *)
(***************************************************************************)
EXTENDS Subscriber, TLAPS

USE NodesAssumption, ChannelsAssumption, PatternAssumption, MaxEventsAssumption, MaxLateAssumption

(* Replies are parsed whole; nothing is sent before the command is; a        *)
(* connection is checked only if there is one.                               *)
StreamInv ==
    /\ head % 2 = 0
    /\ pc \in {"idle", "check", "send"} => sent = 0
    /\ pc \in {"idle", "check"} => node <= Nodes

(* While the thread receives, the parsed replies are the acknowledgements    *)
(* and the messages handled; it starts receiving with an empty buffer.       *)
PlaceInv ==
    /\ pc = "enter" => got = head
    /\ pc = "loop" => ~Whole
    /\ pc \in {"enter", "loop", "wait", "drain"} => head = 2 * (Channels + Len(handled))
    /\ pc = "handle" => head = 2 * (Channels + Len(handled) + 1)
    /\ pc \notin Receiving \cup {"done"} => handled = <<>>

IInv == TypeOK /\ StreamInv /\ PlaceInv /\ MessagesInOrder /\ WaitsEmptyHanded

(* Half of an even number of units is a number of replies. *)
LEMMA ReplyFact ==
    ASSUME NEW h \in Nat, h % 2 = 0
    PROVE  /\ Reply(h) \in Nat /\ 2 * Reply(h) = h
           /\ (h + 2) % 2 = 0
BY DEF Reply

LEMMA InitInv == Init => IInv
<1> SUFFICES ASSUME Init PROVE IInv OBVIOUS
<1> USE DEF Init
<1>1. TypeOK
  <2>1. /\ pc = "idle" /\ code = "OK"
        /\ listed \in BOOLEAN /\ isStop \in BOOLEAN /\ stopped \in BOOLEAN /\ closed \in BOOLEAN
    BY Zenon
  <2>4. node \in 1 .. Nodes + 1
    OBVIOUS
  <2>2. /\ sent \in 0 .. Channels + MaxEvents /\ made \in 0 .. 2 * sent
        /\ late \in 0 .. MaxLate /\ got \in 0 .. made /\ head \in 0 .. got
    OBVIOUS
  <2>3. handled \in Seq(Nat)
    OBVIOUS
  <2> QED BY <2>1, <2>2, <2>3, <2>4 DEF TypeOK
<1>2. StreamInv
  BY DEF StreamInv
<1>3. PlaceInv
  BY DEF PlaceInv, Receiving
<1>4. MessagesInOrder /\ WaitsEmptyHanded
  BY DEF MessagesInOrder, WaitsEmptyHanded
<1> QED BY <1>1, <1>2, <1>3, <1>4 DEF IInv

-----------------------------------------------------------------------------
LEMMA NextInv == IInv /\ [Next]_vars => IInv'
<1> SUFFICES ASSUME IInv, [Next]_vars PROVE IInv' OBVIOUS
<1>0. TypeOK /\ StreamInv /\ PlaceInv /\ MessagesInOrder /\ WaitsEmptyHanded
  BY DEF IInv
<1>1. CASE subscribe_event
  <2>1. TypeOK'
    BY <1>0, <1>1 DEF subscribe_event, stream, TypeOK
  <2>2. StreamInv'
    BY <1>0, <1>1 DEF subscribe_event, stream, StreamInv
  <2>3. PlaceInv'
    BY <1>0, <1>1 DEF subscribe_event, PlaceInv, Receiving
  <2>4. MessagesInOrder'
    BY <1>0, <1>1 DEF subscribe_event, MessagesInOrder
  <2>5. WaitsEmptyHanded'
    BY <1>0, <1>1 DEF subscribe_event, WaitsEmptyHanded
  <2> QED BY <2>1, <2>2, <2>3, <2>4, <2>5 DEF IInv
<1>2. CASE CheckFails
  <2>1. TypeOK'
    BY <1>0, <1>2 DEF CheckFails, stream, TypeOK, StreamInv
  <2>2. StreamInv'
    BY <1>0, <1>2 DEF CheckFails, stream, TypeOK, StreamInv
  <2>3. PlaceInv'
    BY <1>0, <1>2 DEF CheckFails, PlaceInv
  <2>4. MessagesInOrder'
    BY <1>0, <1>2 DEF CheckFails, MessagesInOrder
  <2>5. WaitsEmptyHanded'
    BY <1>0, <1>2 DEF CheckFails, WaitsEmptyHanded
  <2> QED BY <2>1, <2>2, <2>3, <2>4, <2>5 DEF IInv
<1>3. CASE CheckPasses
  <2>1. TypeOK'
    BY <1>0, <1>3 DEF CheckPasses, stream, TypeOK
  <2>2. StreamInv'
    BY <1>0, <1>3 DEF CheckPasses, stream, StreamInv
  <2>3. PlaceInv'
    BY <1>0, <1>3 DEF CheckPasses, PlaceInv, Receiving
  <2>4. MessagesInOrder'
    BY <1>0, <1>3 DEF CheckPasses, MessagesInOrder
  <2>5. WaitsEmptyHanded'
    BY <1>0, <1>3 DEF CheckPasses, WaitsEmptyHanded
  <2> QED BY <2>1, <2>2, <2>3, <2>4, <2>5 DEF IInv
<1>4. CASE Send
  <2>1. TypeOK'
    BY <1>0, <1>4 DEF Send, TypeOK, StreamInv
  <2>2. StreamInv'
    BY <1>0, <1>4 DEF Send, StreamInv
  <2>3. PlaceInv'
    BY <1>0, <1>4 DEF Send, PlaceInv, Receiving
  <2>4. MessagesInOrder'
    BY <1>0, <1>4 DEF Send, MessagesInOrder
  <2>5. WaitsEmptyHanded'
    BY <1>0, <1>4 DEF Send, WaitsEmptyHanded
  <2> QED BY <2>1, <2>2, <2>3, <2>4, <2>5 DEF IInv
<1>5. ASSUME NEW k \in 1 .. made - got, Receive(k) PROVE IInv'
  <2>0. /\ pc \in {"ack", "wait"} /\ got' = got + k /\ got' \in 0 .. made
        /\ UNCHANGED <<node, listed, isStop, stopped, sent, late, made, closed, handled>>
    BY <1>0, <1>5 DEF Receive, TypeOK
  <2>1. CASE got' >= head + 2
    <3>0. head' = head + 2 /\ code' = "OK" /\ pc' = IF pc = "ack" THEN "rest" ELSE "handle"
      BY <1>5, <2>1 DEF Receive
    <3>1. TypeOK'
      BY <1>0, <2>0, <2>1, <3>0 DEF TypeOK, Receiving
    <3>2. StreamInv'
      BY <1>0, <2>0, <3>0 DEF TypeOK, StreamInv
    <3>3. PlaceInv'
      <4>1. pc = "wait" => head = 2 * (Channels + Len(handled))
        BY <1>0 DEF PlaceInv
      <4>2. pc = "wait" => head' = 2 * (Channels + Len(handled) + 1)
        BY <1>0, <3>0, <4>1 DEF TypeOK
      <4>3. pc = "ack" => handled = <<>>
        BY <1>0 DEF PlaceInv, Receiving
      <4> QED BY <2>0, <3>0, <4>2, <4>3 DEF PlaceInv, Receiving
    <3>4. MessagesInOrder' /\ WaitsEmptyHanded'
      BY <1>0, <2>0, <3>0 DEF MessagesInOrder, WaitsEmptyHanded
    <3> QED BY <3>1, <3>2, <3>3, <3>4 DEF IInv
  <2>2. CASE ~(got' >= head + 2)
    <3>0. UNCHANGED <<head, pc, code>>
      BY <1>5, <2>2 DEF Receive
    <3>1. TypeOK'
      BY <1>0, <2>0, <3>0 DEF TypeOK, Receiving
    <3>2. StreamInv' /\ PlaceInv' /\ MessagesInOrder'
      BY <1>0, <2>0, <3>0 DEF StreamInv, PlaceInv, MessagesInOrder
    <3>3. WaitsEmptyHanded'
      BY <2>2, <3>0 DEF WaitsEmptyHanded, Whole
    <3> QED BY <3>1, <3>2, <3>3 DEF IInv
  <2> QED BY <2>1, <2>2
<1>6. CASE TimesOut
  <2>1. TypeOK'
    BY <1>0, <1>6 DEF TimesOut, stream, TypeOK, Receiving
  <2>2. StreamInv'
    BY <1>0, <1>6 DEF TimesOut, stream, StreamInv
  <2>3. PlaceInv'
    BY <1>0, <1>6 DEF TimesOut, stream, PlaceInv, Receiving, Whole, WaitsEmptyHanded
  <2>4. MessagesInOrder'
    BY <1>0, <1>6 DEF TimesOut, MessagesInOrder
  <2>5. WaitsEmptyHanded'
    BY <1>0, <1>6 DEF TimesOut, WaitsEmptyHanded
  <2> QED BY <2>1, <2>2, <2>3, <2>4, <2>5 DEF IInv
<1>7. CASE ReadsEnd
  <2>1. TypeOK'
    BY <1>0, <1>7 DEF ReadsEnd, stream, TypeOK
  <2>2. StreamInv'
    BY <1>0, <1>7 DEF ReadsEnd, stream, StreamInv
  <2>3. PlaceInv'
    BY <1>0, <1>7 DEF ReadsEnd, PlaceInv
  <2>4. MessagesInOrder'
    BY <1>0, <1>7 DEF ReadsEnd, MessagesInOrder
  <2>5. WaitsEmptyHanded'
    BY <1>0, <1>7 DEF ReadsEnd, WaitsEmptyHanded
  <2> QED BY <2>1, <2>2, <2>3, <2>4, <2>5 DEF IInv
<1>8. CASE RestNext
  <2>1. TypeOK'
    BY <1>0, <1>8 DEF RestNext, Whole, TypeOK
  <2>2. StreamInv'
    BY <1>0, <1>8 DEF RestNext, TypeOK, StreamInv
  <2>3. PlaceInv'
    BY <1>0, <1>8 DEF RestNext, PlaceInv
  <2>4. MessagesInOrder'
    BY <1>0, <1>8 DEF RestNext, MessagesInOrder
  <2>5. WaitsEmptyHanded'
    BY <1>0, <1>8 DEF RestNext, WaitsEmptyHanded
  <2> QED BY <2>1, <2>2, <2>3, <2>4, <2>5 DEF IInv
<1>9. CASE Acknowledged
  <2>1. TypeOK'
    BY <1>0, <1>9 DEF Acknowledged, stream, TypeOK
  <2>2. StreamInv'
    BY <1>0, <1>9 DEF Acknowledged, stream, StreamInv
  <2>3. PlaceInv'
    <3>1. /\ pc = "rest" /\ got = head /\ handled = <<>>
          /\ UNCHANGED <<got, head, handled>> /\ pc' \in {"enter", "done"}
      BY <1>0, <1>9 DEF Acknowledged, stream, PlaceInv, Receiving
    <3>2. pc' = "enter" => Reply(head) = Channels
      BY <1>9 DEF Acknowledged, IsAck
    <3>3. 2 * Reply(head) = head
      BY <1>0, ReplyFact DEF TypeOK, StreamInv
    <3>4. pc' = "enter" => head = 2 * (Channels + Len(handled))
      BY <3>1, <3>2, <3>3
    <3> QED BY <3>1, <3>4 DEF PlaceInv, Receiving
  <2>4. MessagesInOrder'
    BY <1>0, <1>9 DEF Acknowledged, MessagesInOrder
  <2>5. WaitsEmptyHanded'
    BY <1>0, <1>9 DEF Acknowledged, WaitsEmptyHanded
  <2> QED BY <2>1, <2>2, <2>3, <2>4, <2>5 DEF IInv
<1>10. CASE Enter
  <2>1. TypeOK'
    BY <1>0, <1>10 DEF Enter, stream, TypeOK, Receiving
  <2>2. StreamInv'
    BY <1>0, <1>10 DEF Enter, stream, StreamInv
  <2>3. PlaceInv'
    BY <1>0, <1>10 DEF Enter, stream, PlaceInv, Receiving, Whole
  <2>4. MessagesInOrder'
    BY <1>0, <1>10 DEF Enter, MessagesInOrder
  <2>5. WaitsEmptyHanded'
    BY <1>0, <1>10 DEF Enter, WaitsEmptyHanded
  <2> QED BY <2>1, <2>2, <2>3, <2>4, <2>5 DEF IInv
<1>11. CASE Loop
  <2>1. TypeOK'
    BY <1>0, <1>11 DEF Loop, stream, TypeOK, Receiving
  <2>2. StreamInv'
    BY <1>0, <1>11 DEF Loop, stream, StreamInv
  <2>3. PlaceInv'
    BY <1>0, <1>11 DEF Loop, stream, PlaceInv, Receiving
  <2>4. MessagesInOrder'
    BY <1>0, <1>11 DEF Loop, MessagesInOrder
  <2>5. WaitsEmptyHanded'
    BY <1>0, <1>11 DEF Loop, stream, PlaceInv, WaitsEmptyHanded, Whole
  <2> QED BY <2>1, <2>2, <2>3, <2>4, <2>5 DEF IInv
<1>12. CASE Handle
  <2>0. /\ pc = "handle"
        /\ UNCHANGED <<node, listed, isStop, stopped, code, sent, late, made, got, head, closed>>
    BY <1>12 DEF Handle, stream
  <2>1. Len(handled) \in Nat /\ head = 2 * (Channels + Len(handled) + 1)
    BY <1>0, <2>0 DEF TypeOK, PlaceInv
  <2>2. Reply(head) = Channels + Len(handled) + 1
    <3>1. head \in Nat /\ head % 2 = 0
      BY <1>0 DEF TypeOK, StreamInv
    <3>2. Reply(head) \in Nat /\ 2 * Reply(head) = head
      BY <3>1, ReplyFact
    <3> QED BY <2>1, <3>2
  <2>3. Elements(Reply(head)) = (IF Pattern THEN 4 ELSE 3)
    BY <2>1, <2>2 DEF Elements, IsAck
  <2>4. pc' = "drain" /\ handled' = Append(handled, Reply(head))
    BY <1>12, <2>3 DEF Handle
  <2>5. /\ handled \in Seq(Nat) /\ Reply(head) \in Nat
        /\ handled' \in Seq(Nat) /\ Len(handled') = Len(handled) + 1
        /\ \A i \in 1 .. Len(handled) : handled'[i] = handled[i]
        /\ handled'[Len(handled) + 1] = Reply(head)
    BY <1>0, <2>1, <2>2, <2>4 DEF TypeOK
  <2>6. TypeOK'
    BY <1>0, <2>0, <2>4, <2>5 DEF TypeOK, Receiving
  <2>7. StreamInv'
    BY <1>0, <2>0, <2>4 DEF StreamInv
  <2>8. PlaceInv'
    BY <2>0, <2>1, <2>4, <2>5 DEF PlaceInv, Receiving
  <2>9. MessagesInOrder'
    <3> SUFFICES ASSUME NEW i \in DOMAIN handled' PROVE handled'[i] = Channels + i
      BY DEF MessagesInOrder
    <3>1. i \in 1 .. Len(handled) + 1 /\ DOMAIN handled = 1 .. Len(handled)
      BY <2>5
    <3>2. CASE i \in 1 .. Len(handled)
      BY <1>0, <2>5, <3>1, <3>2 DEF MessagesInOrder
    <3>3. CASE i = Len(handled) + 1
      BY <2>1, <2>2, <2>5, <3>3
    <3> QED BY <2>1, <3>1, <3>2, <3>3
  <2>10. WaitsEmptyHanded'
    BY <2>4 DEF WaitsEmptyHanded
  <2> QED BY <2>6, <2>7, <2>8, <2>9, <2>10 DEF IInv
<1>13. CASE Drain
  <2>0. /\ pc = "drain"
        /\ UNCHANGED <<node, listed, isStop, stopped, sent, late, made, got, closed, handled>>
    BY <1>13 DEF Drain
  <2>1. Len(handled) \in Nat /\ head = 2 * (Channels + Len(handled))
    BY <1>0, <2>0 DEF TypeOK, PlaceInv
  <2>2. CASE Whole
    <3>0. pc' = "handle" /\ head' = head + 2 /\ code' = "OK"
      BY <1>0, <1>13, <2>2 DEF Drain, Whole, Part, TypeOK
    <3>1. TypeOK'
      BY <1>0, <2>0, <2>2, <3>0 DEF TypeOK, Receiving, Whole
    <3>2. StreamInv'
      BY <1>0, <2>0, <3>0 DEF TypeOK, StreamInv
    <3>3. PlaceInv' /\ MessagesInOrder' /\ WaitsEmptyHanded'
      BY <1>0, <2>0, <2>1, <3>0 DEF PlaceInv, MessagesInOrder, WaitsEmptyHanded, Receiving
    <3> QED BY <3>1, <3>2, <3>3 DEF IInv
  <2>3. CASE Part
    <3>0. pc' = "done" /\ head' = head /\ code' = "NEED_MORE_DATA"
      BY <1>0, <1>13, <2>3 DEF Drain
    <3>1. TypeOK'
      BY <1>0, <2>0, <3>0 DEF TypeOK, Receiving
    <3>2. StreamInv' /\ PlaceInv' /\ MessagesInOrder' /\ WaitsEmptyHanded'
      BY <1>0, <2>0, <3>0 DEF StreamInv, PlaceInv, MessagesInOrder, WaitsEmptyHanded
    <3> QED BY <3>1, <3>2 DEF IInv
  <2>4. CASE ~Whole /\ ~Part
    <3>0. pc' = "loop" /\ head' = head /\ code' = code
      BY <1>13, <2>4 DEF Drain
    <3>1. TypeOK'
      BY <1>0, <2>0, <3>0 DEF TypeOK, Receiving
    <3>2. StreamInv' /\ PlaceInv' /\ MessagesInOrder' /\ WaitsEmptyHanded'
      BY <1>0, <2>0, <2>1, <2>4, <3>0
         DEF StreamInv, PlaceInv, MessagesInOrder, WaitsEmptyHanded, Receiving, Whole
    <3> QED BY <3>1, <3>2 DEF IInv
  <2> QED BY <2>2, <2>3, <2>4
<1>14. CASE stop_subscribe_event
  <2>1. TypeOK'
    BY <1>0, <1>14 DEF stop_subscribe_event, stream, TypeOK
  <2>2. StreamInv'
    BY <1>0, <1>14 DEF stop_subscribe_event, stream, StreamInv
  <2>3. PlaceInv'
    BY <1>0, <1>14 DEF stop_subscribe_event, stream, PlaceInv, Whole
  <2>4. MessagesInOrder'
    BY <1>0, <1>14 DEF stop_subscribe_event, MessagesInOrder
  <2>5. WaitsEmptyHanded'
    BY <1>0, <1>14 DEF stop_subscribe_event, stream, WaitsEmptyHanded, Whole
  <2> QED BY <2>1, <2>2, <2>3, <2>4, <2>5 DEF IInv
<1>15. CASE Publish
  <2>1. TypeOK'
    BY <1>0, <1>15 DEF Publish, TypeOK
  <2>2. StreamInv'
    BY <1>0, <1>15 DEF Publish, StreamInv
  <2>3. PlaceInv'
    BY <1>0, <1>15 DEF Publish, PlaceInv, Whole
  <2>4. MessagesInOrder'
    BY <1>0, <1>15 DEF Publish, MessagesInOrder
  <2>5. WaitsEmptyHanded'
    BY <1>0, <1>15 DEF Publish, WaitsEmptyHanded, Whole
  <2> QED BY <2>1, <2>2, <2>3, <2>4, <2>5 DEF IInv
<1>16. CASE Arrive
  <2>1. TypeOK'
    BY <1>0, <1>16 DEF Arrive, TypeOK
  <2>2. StreamInv'
    BY <1>0, <1>16 DEF Arrive, StreamInv
  <2>3. PlaceInv'
    BY <1>0, <1>16 DEF Arrive, PlaceInv, Whole
  <2>4. MessagesInOrder'
    BY <1>0, <1>16 DEF Arrive, MessagesInOrder
  <2>5. WaitsEmptyHanded'
    BY <1>0, <1>16 DEF Arrive, WaitsEmptyHanded, Whole
  <2> QED BY <2>1, <2>2, <2>3, <2>4, <2>5 DEF IInv
<1>17. CASE Close
  <2>1. TypeOK'
    BY <1>0, <1>17 DEF Close, TypeOK
  <2>2. StreamInv'
    BY <1>0, <1>17 DEF Close, StreamInv
  <2>3. PlaceInv'
    BY <1>0, <1>17 DEF Close, PlaceInv, Whole
  <2>4. MessagesInOrder'
    BY <1>0, <1>17 DEF Close, MessagesInOrder
  <2>5. WaitsEmptyHanded'
    BY <1>0, <1>17 DEF Close, WaitsEmptyHanded, Whole
  <2> QED BY <2>1, <2>2, <2>3, <2>4, <2>5 DEF IInv
<1>18. CASE UNCHANGED vars
  BY <1>0, <1>18 DEF vars, IInv, TypeOK, StreamInv, PlaceInv, MessagesInOrder,
     WaitsEmptyHanded, Whole
<1>19. ASSUME NEW l \in 1 .. late, NEW k \in 0 .. made - got, ReceiveLate(l, k) PROVE IInv'
  <2>1. TypeOK'
    BY <1>0, <1>19 DEF ReceiveLate, TypeOK
  <2>2. StreamInv'
    BY <1>0, <1>19 DEF ReceiveLate, StreamInv
  <2>3. PlaceInv'
    BY <1>0, <1>19 DEF ReceiveLate, PlaceInv, Receiving
  <2>4. MessagesInOrder'
    BY <1>0, <1>19 DEF ReceiveLate, MessagesInOrder
  <2>5. WaitsEmptyHanded'
    BY <1>0, <1>19 DEF ReceiveLate, WaitsEmptyHanded
  <2> QED BY <2>1, <2>2, <2>3, <2>4, <2>5 DEF IInv
<1> QED
  BY <1>1, <1>2, <1>3, <1>4, <1>5, <1>6, <1>7, <1>8, <1>9, <1>10, <1>11, <1>12,
     <1>13, <1>14, <1>15, <1>16, <1>17, <1>18, <1>19 DEF Next, Work

-----------------------------------------------------------------------------
(* IInv holds in every reachable state. *)
THEOREM Invariance == Spec => []IInv
BY InitInv, NextInv, PTL DEF Spec

(* Type correctness of the subscriber (the fields of Subscriber and          *)
(* Sentinel, and the bounds of the stream).                                  *)
THEOREM TypeCorrect == Spec => []TypeOK
<1>1. IInv => TypeOK
  BY DEF IInv
<1> QED BY <1>1, Invariance, PTL

(* The callback gets every message once and in order, and no                 *)
(* acknowledgement (handle_subscribe_res, do_recv_msg).                      *)
THEOREM HandlesInOrder == Spec => []MessagesInOrder
<1>1. IInv => MessagesInOrder
  BY DEF IInv
<1> QED BY <1>1, Invariance, PTL

(* do_recv_msg waits for the socket only when no whole reply is in the       *)
(* buffer.                                                                   *)
THEOREM NeverWaitsOnWhole == Spec => []WaitsEmptyHanded
<1>1. IInv => WaitsEmptyHanded
  BY DEF IInv
<1> QED BY <1>1, Invariance, PTL

=============================================================================
