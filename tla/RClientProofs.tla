---------------------------- MODULE RClientProofs ----------------------------
(***************************************************************************)
(* Replies and error codes of a connection, for every number of commands   *)
(* and every buffer size; and that the connection is a RequestReply.       *)
(***************************************************************************)
EXTENDS RClient, TLAPS

USE CommandsAssumption, CapAssumption, PasswordAssumption

(* A reply returned is one the server gave, and a fresh one; what is still   *)
(* in the buffer is fresh too.  Only if the last drain cut a reply in two is *)
(* there an orphaned tail, a part returned, a format error.  A call has      *)
(* ended when it has a code; a command is begun only within the bound; only  *)
(* calls that wait read.                                                     *)
ReplyInv ==
    /\ drained < head
    /\ head % 2 = 0 => drained % 2 = 1
    /\ code = "format" => drained % 2 = 1
    /\ Answered => ret <= sent
    /\ Answered /\ ret = 0 => drained % 2 = 1
    /\ Answered /\ ret # 0 => drained < 2 * ret - 1
    /\ pc # "idle" => code = "none"
    /\ pc \in {"drain", "write"} => sent < MaxCommands /\ op # "connect"
    /\ pc \in {"read", "parse"} => op \notin {"command", "connect"}

(* The buffer is full only behind an orphaned tail, or between a read and    *)
(* the parse that follows it.                                                *)
RoomInv ==
    /\ Held <= cap
    /\ pc # "parse" /\ head % 2 = 1 => Held < cap

IInv == TypeOK /\ ReplyInv /\ RoomInv /\ HonestError

(* Arithmetic of units. *)
LEMMA OddFact ==
    ASSUME NEW h \in Nat, h % 2 = 1
    PROVE  /\ (h + 1) \div 2 \in Nat
           /\ 2 * ((h + 1) \div 2) = h + 1
           /\ (h + 2) % 2 = 1
           /\ (h + 2) \div 2 = (h \div 2) + 1
           /\ (h + 1) \div 2 = (h \div 2) + 1
OBVIOUS

LEMMA MinFact ==
    ASSUME NEW a \in Int, NEW b \in Int
    PROVE  Min(a, b) \in Int /\ Min(a, b) <= a /\ Min(a, b) <= b
           /\ (Min(a, b) = a \/ Min(a, b) = b)
BY DEF Min

LEMMA InitInv == Init => IInv
<1> SUFFICES ASSUME Init PROVE IInv OBVIOUS
<1> USE DEF Init
<1>1. TypeOK
  <2>1. op \in Calls /\ code \in Codes /\ pc = "idle" /\ tcp = "none" /\ connected \in BOOLEAN
    BY DEF Calls, Codes
  <2>2. /\ sent \in 0 .. MaxCommands /\ ret \in 0 .. MaxCommands
        /\ made \in 0 .. 2 * sent /\ got \in 0 .. made /\ drained \in 0 .. made
        /\ last \in 0 .. got /\ head \in 1 .. last + 1 /\ cap \in Nat \ {0}
    OBVIOUS
  <2> QED BY <2>1, <2>2 DEF TypeOK
<1>2. ReplyInv
  BY DEF ReplyInv, Answered
<1>3. RoomInv
  BY DEF RoomInv, Held
<1>4. HonestError
  BY DEF HonestError
<1> QED BY <1>1, <1>2, <1>3, <1>4 DEF IInv

-----------------------------------------------------------------------------
LEMMA NextInv == IInv /\ [Next]_vars => IInv'
<1> SUFFICES ASSUME IInv, [Next]_vars PROVE IInv' OBVIOUS
<1>0. TypeOK /\ ReplyInv /\ RoomInv /\ HonestError
  BY DEF IInv
<1>1. CASE ConnectOk
  <2>1. TypeOK'
    BY <1>0, <1>1 DEF ConnectOk, NewSocket, Enter, netVars, bufVars, TypeOK, Calls, Codes
  <2>2. ReplyInv'
    BY <1>0, <1>1 DEF ConnectOk, NewSocket, Enter, netVars, bufVars, TypeOK, ReplyInv, Answered
  <2>3. RoomInv'
    BY <1>0, <1>1 DEF ConnectOk, NewSocket, Enter, netVars, bufVars, TypeOK, RoomInv, Held
  <2>4. HonestError'
    BY <1>0, <1>1 DEF ConnectOk, NewSocket, Enter, netVars, bufVars, TypeOK, ReplyInv, RoomInv, Held, HonestError
  <2> QED BY <2>1, <2>2, <2>3, <2>4 DEF IInv
<1>2. CASE ConnectFails
  <2>1. TypeOK'
    <3>1. /\ tcp' \in {"none", "opening", "up"} /\ NewSocket
          /\ op' = "connect" /\ pc' = "idle" /\ code' = "conn" /\ ret' = ret
      BY <1>2 DEF ConnectFails
    <3>2. connected' \in BOOLEAN
      BY <1>0, <1>2, Zenon DEF ConnectFails, TypeOK
    <3>3. 2 * sent \in Nat /\ made' = 2 * sent /\ got' = 2 * sent
          /\ UNCHANGED <<sent, head, last, cap, drained>>
      BY <1>0, <3>1 DEF NewSocket, TypeOK
    <3>4. made \in 0 .. 2 * sent /\ last \in 0 .. 2 * sent /\ drained \in 0 .. 2 * sent
      BY <1>0, <3>3 DEF TypeOK
    <3>5. made' \in 0 .. 2 * sent' /\ got' \in 0 .. made' /\ drained' \in 0 .. made'
          /\ last' \in 0 .. got' /\ head' \in 1 .. last' + 1
      BY <1>0, <3>3, <3>4 DEF TypeOK
    <3> QED BY <1>0, <3>1, <3>2, <3>3, <3>5 DEF TypeOK, Calls, Codes
  <2>2. ReplyInv'
    BY <1>0, <1>2 DEF ConnectFails, NewSocket, netVars, bufVars, TypeOK, ReplyInv, Answered
  <2>3. RoomInv'
    BY <1>0, <1>2 DEF ConnectFails, NewSocket, netVars, bufVars, TypeOK, RoomInv, Held
  <2>4. HonestError'
    BY <1>0, <1>2 DEF ConnectFails, NewSocket, netVars, bufVars, TypeOK, ReplyInv, RoomInv, Held, HonestError
  <2> QED BY <2>1, <2>2, <2>3, <2>4 DEF IInv
<1>3. CASE close
  <2>1. TypeOK'
    <3>1. tcp' = "none" /\ connected' = FALSE /\ UNCHANGED <<pc, op, code, ret>> /\ NewSocket
      BY <1>3 DEF close
    <3>2. 2 * sent \in Nat /\ made' = 2 * sent /\ got' = 2 * sent
          /\ UNCHANGED <<sent, head, last, cap, drained>>
      BY <1>0, <3>1 DEF NewSocket, TypeOK
    <3>3. made \in 0 .. 2 * sent /\ got \in 0 .. 2 * sent
          /\ last \in 0 .. 2 * sent /\ drained \in 0 .. 2 * sent
      BY <1>0, <3>2 DEF TypeOK
    <3>4. made' \in 0 .. 2 * sent' /\ got' \in 0 .. made' /\ drained' \in 0 .. made'
          /\ last' \in 0 .. got' /\ head' \in 1 .. last' + 1
      BY <1>0, <3>2, <3>3 DEF TypeOK
    <3> QED BY <1>0, <3>1, <3>2, <3>4 DEF TypeOK
  <2>2. ReplyInv'
    BY <1>0, <1>3 DEF close, NewSocket, netVars, bufVars, TypeOK, ReplyInv, Answered
  <2>3. RoomInv'
    BY <1>0, <1>3 DEF close, NewSocket, netVars, bufVars, TypeOK, RoomInv, Held
  <2>4. HonestError'
    BY <1>0, <1>3 DEF close, NewSocket, netVars, bufVars, TypeOK, ReplyInv, RoomInv, Held, HonestError
  <2> QED BY <2>1, <2>2, <2>3, <2>4 DEF IInv
<1>4. ASSUME NEW o \in Calls, Call(o)
      PROVE  IInv'
  <2>1. TypeOK'
    BY <1>0, <1>4 DEF Call, Enter, netVars, bufVars, TypeOK, Calls, Codes
  <2>2. ReplyInv'
    BY <1>0, <1>4 DEF Call, Enter, netVars, bufVars, TypeOK, ReplyInv, Answered
  <2>3. RoomInv'
    BY <1>0, <1>4 DEF Call, Enter, netVars, bufVars, TypeOK, RoomInv, Held
  <2>4. HonestError'
    BY <1>0, <1>4 DEF Call, Enter, netVars, bufVars, TypeOK, ReplyInv, RoomInv, Held, HonestError
  <2> QED BY <2>1, <2>2, <2>3, <2>4 DEF IInv
<1>5. CASE GetResults
  <2>1. TypeOK'
    BY <1>0, <1>5 DEF GetResults, Enter, netVars, bufVars, TypeOK, Calls, Codes
  <2>2. ReplyInv'
    BY <1>0, <1>5 DEF GetResults, Enter, netVars, bufVars, TypeOK, ReplyInv, Answered
  <2>3. RoomInv'
    BY <1>0, <1>5 DEF GetResults, Enter, netVars, bufVars, TypeOK, RoomInv, Held
  <2>4. HonestError'
    BY <1>0, <1>5 DEF GetResults, Enter, netVars, bufVars, TypeOK, ReplyInv, RoomInv, Held, HonestError
  <2> QED BY <2>1, <2>2, <2>3, <2>4 DEF IInv
<1>6. CASE DoParse
  <2>1. TypeOK'
    BY <1>0, <1>6, OddFact DEF DoParse, Answer, AnswerPart, Whole, Orphan, NeedMore, netVars, bufVars, TypeOK, Calls, Codes
  <2>2. ReplyInv'
    BY <1>0, <1>6, OddFact DEF DoParse, Answer, AnswerPart, Whole, Orphan, NeedMore, netVars, bufVars, TypeOK, ReplyInv, Answered
  <2>3. RoomInv'
    BY <1>0, <1>6, OddFact DEF DoParse, Answer, AnswerPart, Whole, Orphan, NeedMore, netVars, bufVars, TypeOK, RoomInv, Held
  <2>4. HonestError'
    BY <1>0, <1>6, OddFact DEF DoParse, Answer, AnswerPart, Whole, Orphan, NeedMore, netVars, bufVars, TypeOK, ReplyInv, RoomInv, Held, HonestError
  <2> QED BY <2>1, <2>2, <2>3, <2>4 DEF IInv
<1>7. CASE Drain
  <2>1. TypeOK'
    BY <1>0, <1>7 DEF Drain, netVars, bufVars, TypeOK, Calls, Codes
  <2>2. ReplyInv'
    BY <1>0, <1>7 DEF Drain, netVars, bufVars, TypeOK, ReplyInv, Answered
  <2>3. RoomInv'
    BY <1>0, <1>7 DEF Drain, netVars, bufVars, TypeOK, RoomInv, Held
  <2>4. HonestError'
    BY <1>0, <1>7 DEF Drain, netVars, bufVars, TypeOK, ReplyInv, RoomInv, Held, HonestError
  <2> QED BY <2>1, <2>2, <2>3, <2>4 DEF IInv
<1>8. CASE WriteOk
  <2>1. TypeOK'
    <3>1. pc' \in {"idle", "read"} /\ op' = op /\ code' \in {code, "ok"} /\ ret' \in {0, ret}
      BY <1>0, <1>8 DEF WriteOk, Return
    <3>2. sent < MaxCommands
      BY <1>0, <1>8 DEF WriteOk, ReplyInv
    <3>3. sent' \in 1 .. MaxCommands /\ sent' = sent + 1 /\ sent \in Nat
          /\ UNCHANGED <<tcp, connected, bufVars>>
      BY <1>0, <1>8, <3>2 DEF WriteOk, TypeOK
    <3>4. made' \in 0 .. 2 * sent'
      BY <1>0, <3>3 DEF bufVars, TypeOK
    <3> QED BY <1>0, <3>1, <3>3, <3>4 DEF bufVars, TypeOK, Codes
  <2>2. ReplyInv'
    BY <1>0, <1>8 DEF WriteOk, Return, netVars, bufVars, TypeOK, ReplyInv, Answered
  <2>3. RoomInv'
    BY <1>0, <1>8 DEF WriteOk, Return, netVars, bufVars, TypeOK, RoomInv, Held
  <2>4. HonestError'
    BY <1>0, <1>8 DEF WriteOk, Return, netVars, bufVars, TypeOK, ReplyInv, RoomInv, Held, HonestError
  <2> QED BY <2>1, <2>2, <2>3, <2>4 DEF IInv
<1>9. CASE WriteShort
  <2>1. TypeOK'
    BY <1>0, <1>9 DEF WriteShort, Return, netVars, bufVars, TypeOK, Calls, Codes
  <2>2. ReplyInv'
    BY <1>0, <1>9 DEF WriteShort, Return, netVars, bufVars, TypeOK, ReplyInv, Answered
  <2>3. RoomInv'
    BY <1>0, <1>9 DEF WriteShort, Return, netVars, bufVars, TypeOK, RoomInv, Held
  <2>4. HonestError'
    BY <1>0, <1>9 DEF WriteShort, Return, netVars, bufVars, TypeOK, ReplyInv, RoomInv, Held, HonestError
  <2> QED BY <2>1, <2>2, <2>3, <2>4 DEF IInv
<1>10. CASE WriteSpins
  <2>1. TypeOK'
    BY <1>0, <1>10 DEF WriteSpins, netVars, bufVars, TypeOK, Calls, Codes
  <2>2. ReplyInv'
    BY <1>0, <1>10 DEF WriteSpins, netVars, bufVars, TypeOK, ReplyInv, Answered
  <2>3. RoomInv'
    BY <1>0, <1>10 DEF WriteSpins, netVars, bufVars, TypeOK, RoomInv, Held
  <2>4. HonestError'
    BY <1>0, <1>10 DEF WriteSpins, netVars, bufVars, TypeOK, ReplyInv, RoomInv, Held, HonestError
  <2> QED BY <2>1, <2>2, <2>3, <2>4 DEF IInv
<1>11. CASE WriteBad
  <2>1. TypeOK'
    BY <1>0, <1>11 DEF WriteBad, Return, netVars, bufVars, TypeOK, Calls, Codes
  <2>2. ReplyInv'
    BY <1>0, <1>11 DEF WriteBad, Return, netVars, bufVars, TypeOK, ReplyInv, Answered
  <2>3. RoomInv'
    BY <1>0, <1>11 DEF WriteBad, Return, netVars, bufVars, TypeOK, RoomInv, Held
  <2>4. HonestError'
    BY <1>0, <1>11 DEF WriteBad, Return, netVars, bufVars, TypeOK, ReplyInv, RoomInv, Held, HonestError
  <2> QED BY <2>1, <2>2, <2>3, <2>4 DEF IInv
<1>12. ASSUME NEW k \in 1 .. made - got, Receive(k)
      PROVE  IInv'
  <2>0. made - got \in Nat /\ Room \in Int
    BY <1>0 DEF TypeOK, Room, Held
  <2>5. k \in Nat /\ 1 <= k /\ k <= Room /\ got + k <= made
    BY <1>0, <1>12, <2>0, MinFact DEF Receive, TypeOK
  <2>1. TypeOK'
    BY <1>0, <1>12, <2>5 DEF Receive, netVars, TypeOK
  <2>2. ReplyInv'
    BY <1>0, <1>12, <2>5 DEF Receive, Room, netVars, bufVars, TypeOK, ReplyInv, Answered
  <2>3. RoomInv'
    BY <1>0, <1>12, <2>5 DEF Receive, Room, netVars, bufVars, TypeOK, RoomInv, Held
  <2>4. HonestError'
    BY <1>0, <1>12, <2>5 DEF Receive, Room, netVars, bufVars, TypeOK, ReplyInv, RoomInv, Held, HonestError
  <2> QED BY <2>1, <2>2, <2>3, <2>4 DEF IInv
<1>13. CASE ReadZero
  <2>1. TypeOK'
    BY <1>0, <1>13 DEF ReadZero, Return, Room, netVars, bufVars, TypeOK, Calls, Codes
  <2>2. ReplyInv'
    BY <1>0, <1>13 DEF ReadZero, Return, Room, netVars, bufVars, TypeOK, ReplyInv, Answered
  <2>3. RoomInv'
    BY <1>0, <1>13 DEF ReadZero, Return, Room, netVars, bufVars, TypeOK, RoomInv, Held
  <2>4. HonestError'
    BY <1>0, <1>13 DEF ReadZero, Return, Room, netVars, bufVars, TypeOK, ReplyInv, RoomInv, Held, HonestError
  <2> QED BY <2>1, <2>2, <2>3, <2>4 DEF IInv
<1>14. CASE ReadTimesOut
  <2>1. TypeOK'
    BY <1>0, <1>14 DEF ReadTimesOut, Return, netVars, bufVars, TypeOK, Calls, Codes
  <2>2. ReplyInv'
    BY <1>0, <1>14 DEF ReadTimesOut, Return, netVars, bufVars, TypeOK, ReplyInv, Answered
  <2>3. RoomInv'
    BY <1>0, <1>14 DEF ReadTimesOut, Return, netVars, bufVars, TypeOK, RoomInv, Held
  <2>4. HonestError'
    BY <1>0, <1>14 DEF ReadTimesOut, Return, netVars, bufVars, TypeOK, ReplyInv, RoomInv, Held, HonestError
  <2> QED BY <2>1, <2>2, <2>3, <2>4 DEF IInv
<1>15. CASE ParseAnswer
  <2>1. TypeOK'
    BY <1>0, <1>15, OddFact DEF ParseAnswer, Answer, Whole, netVars, bufVars, TypeOK, Calls, Codes
  <2>2. ReplyInv'
    BY <1>0, <1>15, OddFact DEF ParseAnswer, Answer, Whole, netVars, bufVars, TypeOK, ReplyInv, Answered
  <2>3. RoomInv'
    BY <1>0, <1>15, OddFact DEF ParseAnswer, Answer, Whole, netVars, bufVars, TypeOK, RoomInv, Held
  <2>4. HonestError'
    BY <1>0, <1>15, OddFact DEF ParseAnswer, Answer, Whole, netVars, bufVars, TypeOK, ReplyInv, RoomInv, Held, HonestError
  <2> QED BY <2>1, <2>2, <2>3, <2>4 DEF IInv
<1>16. CASE ParsePart
  <2>1. TypeOK'
    BY <1>0, <1>16 DEF ParsePart, AnswerPart, Orphan, netVars, TypeOK, Calls, Codes
  <2>2. ReplyInv'
    BY <1>0, <1>16 DEF ParsePart, AnswerPart, Orphan, netVars, TypeOK, ReplyInv, Answered
  <2>3. RoomInv'
    BY <1>0, <1>16 DEF ParsePart, AnswerPart, Orphan, netVars, TypeOK, RoomInv, Held
  <2>4. HonestError'
    BY <1>0, <1>16 DEF ParsePart, AnswerPart, Orphan, netVars, TypeOK, ReplyInv, RoomInv, Held, HonestError
  <2> QED BY <2>1, <2>2, <2>3, <2>4 DEF IInv
<1>17. CASE ParseNeedsMore
  <2>0. cap' \in Nat \ {0} /\ cap' = 2 * cap
    BY <1>0, <1>17 DEF ParseNeedsMore, TypeOK
  <2>1. TypeOK'
    BY <1>0, <1>17, <2>0 DEF ParseNeedsMore, netVars, TypeOK
  <2>2. ReplyInv'
    BY <1>0, <1>17, <2>0 DEF ParseNeedsMore, netVars, bufVars, TypeOK, ReplyInv, Answered
  <2>3. RoomInv'
    BY <1>0, <1>17, <2>0 DEF ParseNeedsMore, netVars, bufVars, TypeOK, RoomInv, Held
  <2>4. HonestError'
    BY <1>0, <1>17, <2>0 DEF ParseNeedsMore, netVars, bufVars, TypeOK, ReplyInv, RoomInv, Held, HonestError
  <2> QED BY <2>1, <2>2, <2>3, <2>4 DEF IInv
<1>18. CASE Serve
  <2>1. TypeOK'
    BY <1>0, <1>18 DEF Serve, netVars, bufVars, TypeOK, Calls, Codes
  <2>2. ReplyInv'
    BY <1>0, <1>18 DEF Serve, netVars, bufVars, TypeOK, ReplyInv, Answered
  <2>3. RoomInv'
    BY <1>0, <1>18 DEF Serve, netVars, bufVars, TypeOK, RoomInv, Held
  <2>4. HonestError'
    BY <1>0, <1>18 DEF Serve, netVars, bufVars, TypeOK, ReplyInv, RoomInv, Held, HonestError
  <2> QED BY <2>1, <2>2, <2>3, <2>4 DEF IInv
<1>19. CASE PeerCloses
  <2>1. TypeOK'
    BY <1>0, <1>19 DEF PeerCloses, netVars, bufVars, TypeOK, Calls, Codes
  <2>2. ReplyInv'
    BY <1>0, <1>19 DEF PeerCloses, netVars, bufVars, TypeOK, ReplyInv, Answered
  <2>3. RoomInv'
    BY <1>0, <1>19 DEF PeerCloses, netVars, bufVars, TypeOK, RoomInv, Held
  <2>4. HonestError'
    BY <1>0, <1>19 DEF PeerCloses, netVars, bufVars, TypeOK, ReplyInv, RoomInv, Held, HonestError
  <2> QED BY <2>1, <2>2, <2>3, <2>4 DEF IInv
<1>20. CASE Opens
  <2>1. TypeOK'
    BY <1>0, <1>20 DEF Opens, bufVars, TypeOK
  <2>2. ReplyInv'
    BY <1>0, <1>20 DEF Opens, bufVars, TypeOK, ReplyInv, Answered
  <2>3. RoomInv'
    BY <1>0, <1>20 DEF Opens, bufVars, TypeOK, RoomInv, Held
  <2>4. HonestError'
    BY <1>0, <1>20 DEF Opens, bufVars, HonestError
  <2> QED BY <2>1, <2>2, <2>3, <2>4 DEF IInv
<1>21. CASE UNCHANGED vars
  BY <1>0, <1>21 DEF vars, IInv, TypeOK, Calls, Codes, ReplyInv, Answered, RoomInv, Held, HonestError
<1> QED BY <1>1, <1>2, <1>3, <1>4, <1>5, <1>6, <1>7, <1>8, <1>9, <1>10, <1>11, <1>12, <1>13, <1>14, <1>15, <1>16, <1>17, <1>18, <1>19, <1>20, <1>21 DEF Next, Work

-----------------------------------------------------------------------------
(* Types and bounds of the connection's counters. *)
THEOREM TypeCorrect == Spec => []TypeOK
<1>1. IInv => TypeOK
  BY DEF IInv
<1> QED BY InitInv, NextInv, <1>1, PTL DEF Spec

(* No reply that had begun to arrive when the last command emptied the       *)
(* socket is ever returned, by get_results or do_parse, except the rest of   *)
(* the one that was cut in two by it, in parts.                              *)
THEOREM RepliesAreFresh == Spec => []FreshReply
<1>1. IInv => FreshReply
  BY DEF IInv, TypeOK, ReplyInv, FreshReply
<1> QED BY InitInv, NextInv, <1>1, PTL DEF Spec

(* A caller whose earlier replies had all arrived gets the reply to its last *)
(* command: going out of step takes a reply still owed when it is sent.       *)
THEOREM RepliesInStep == Spec => []InStep
<1>1. IInv => InStep
  BY DEF IInv, TypeOK, ReplyInv, InStep
<1> QED BY InitInv, NextInv, <1>1, PTL DEF Spec

(* A connection error is reported for a closed connection only, or behind an *)
(* orphaned tail; never because a reply is larger than the buffer.           *)
THEOREM ErrorsAreHonest == Spec => []HonestError
<1>1. IInv => HonestError
  BY DEF IInv
<1> QED BY InitInv, NextInv, <1>1, PTL DEF Spec

-----------------------------------------------------------------------------
(* The refinement. *)
settled == head \div 2
isTorn == head % 2 = 0
answer == IF ~Answered THEN 0 ELSE IF ret = 0 THEN -1 ELSE ret

LEMMA HalfFact ==
    ASSUME NEW a \in Nat, NEW b \in Nat, NEW c \in Nat, a <= b, b <= 2 * c + 1
    PROVE  /\ a \div 2 \in Nat /\ a \div 2 <= b \div 2 /\ b \div 2 <= c
           /\ b % 2 = 0 => a % 2 = 0 \/ b \div 2 > a \div 2
OBVIOUS

(* The read position moves on, within what the server has sent. *)
LEMMA PassRefines ==
    ASSUME head \in Nat, head' \in Nat, head <= head', head' <= 2 * sent + 1, sent \in Nat,
           sent' = sent, answer' = 0 \/ (isTorn /\ answer' = -1)
    PROVE  Promise!Next
<1>1. /\ settled' \in settled .. sent /\ settled \in Nat
      /\ isTorn' => isTorn \/ settled' > settled
  <2>1. /\ head \div 2 \in Nat /\ head \div 2 <= head' \div 2 /\ head' \div 2 <= sent
        /\ head' % 2 = 0 => head % 2 = 0 \/ head' \div 2 > head \div 2
    BY HalfFact
  <2>2. settled' = head' \div 2 /\ settled = head \div 2 /\ head' \div 2 \in Int
    BY DEF settled
  <2>3. (isTorn' <=> head' % 2 = 0) /\ (isTorn <=> head % 2 = 0)
    BY DEF isTorn
  <2>4. settled' \in settled .. sent /\ settled \in Nat
    <3>1. settled \in Nat BY <2>1, <2>2
    <3>2. settled' \in Int BY <2>2
    <3>3. settled <= settled' /\ settled' <= sent BY <2>1, <2>2
    <3> QED BY <3>1, <3>2, <3>3
  <2>5. isTorn' => isTorn \/ settled' > settled
    BY <2>1, <2>2, <2>3
  <2> QED BY <2>4, <2>5
<1>2. isTorn' \in BOOLEAN
  BY Zenon DEF isTorn
<1> QED BY <1>1, <1>2
        DEF Promise!Next, Promise!Forget, Promise!Rest, Promise!Pass, Promise!APart, settled, isTorn, answer

LEMMA ReplyRefines ==
    ASSUME ~isTorn, isTorn' = isTorn, settled \in Nat, settled < sent,
           settled' = settled + 1, answer' = settled', sent' = sent
    PROVE  Promise!Next
BY DEF Promise!Next, Promise!Reply, settled, isTorn, answer

LEMMA StutterRefines ==
    ASSUME settled' = settled, isTorn' = isTorn, answer' = answer, sent' = sent
    PROVE  UNCHANGED Promise!vars
BY DEF Promise!vars, settled, isTorn, answer

LEMMA NextRefines == IInv /\ [Next]_vars => [Promise!Next]_(Promise!vars)
<1> SUFFICES ASSUME IInv, [Next]_vars PROVE Promise!Next \/ UNCHANGED Promise!vars
  OBVIOUS
<1>0. TypeOK /\ ReplyInv
  BY DEF IInv
<1>a. /\ sent \in Nat /\ made \in Nat /\ head \in Nat /\ last \in Nat
      /\ head <= last + 1 /\ last <= made /\ made <= 2 * sent
  BY <1>0 DEF TypeOK
<1>b. settled \in Nat /\ settled <= sent
  BY <1>a, HalfFact DEF settled
(* Steps that end or begin a call without a reply. *)
<1>1. ASSUME UNCHANGED <<head, sent>>, answer' = 0
      PROVE  Promise!Next
  BY <1>1, <1>a, PassRefines
(* Steps that change nothing a user sees. *)
<1>2. ASSUME UNCHANGED <<head, sent, op, code, ret>>
      PROVE  UNCHANGED Promise!vars
  BY <1>2, StutterRefines DEF settled, isTorn, answer, Answered
(* A reply. *)
<1>3. ASSUME Answer, sent' = sent, op' \notin {"command", "connect"}
      PROVE  Promise!Next
  <2>0. head % 2 = 1 /\ head < last /\ head' = head + 2 /\ code' = "ok" /\ ret' = (head + 1) \div 2
    BY <1>3 DEF Answer, Whole
  <2>1. settled' = settled + 1 /\ ret' = settled + 1 /\ ~isTorn /\ isTorn' = isTorn
    BY <2>0, <1>a, OddFact DEF settled, isTorn
  <2>2. answer' = settled'
    BY <1>3, <1>b, <2>0, <2>1 DEF answer, Answered
  <2>3. settled < sent
    <3>1. 2 * ((head + 1) \div 2) = head + 1
      BY <2>0, <1>a, OddFact
    <3>2. head + 1 <= 2 * sent
      BY <2>0, <1>a
    <3> QED BY <2>0, <1>a, <1>b, <2>1, <3>1, <3>2
  <2> QED BY <1>3, <1>b, <2>1, <2>2, <2>3, ReplyRefines
(* What becomes of an orphaned tail. *)
<1>4. ASSUME AnswerPart, sent' = sent, op' \notin {"command", "connect"}
      PROVE  Promise!Next
  <2>1. isTorn /\ head' \in head .. last + 1
    BY <1>4, <1>a DEF AnswerPart, Orphan, isTorn
  <2>2. answer' = 0 \/ answer' = -1
    BY <1>4 DEF AnswerPart, answer, Answered
  <2> QED BY <1>4, <1>a, <2>1, <2>2, PassRefines
<1>5. CASE ConnectOk \/ ConnectFails
  <2>1. UNCHANGED <<head, sent>> /\ answer' = 0
    BY <1>5 DEF ConnectOk, ConnectFails, NewSocket, Enter, answer, Answered
  <2> QED BY <1>1, <2>1
<1>6. CASE close
  BY <1>2, <1>6 DEF close, NewSocket
<1>7. ASSUME NEW o \in Calls, Call(o)
      PROVE  Promise!Next
  <2>1. UNCHANGED <<head, sent>> /\ answer' = 0
    BY <1>7 DEF Call, Enter, netVars, bufVars, answer, Answered
  <2> QED BY <1>1, <2>1
<1>8. CASE GetResults
  <2>1. UNCHANGED <<head, sent>> /\ answer' = 0
    BY <1>8 DEF GetResults, Enter, netVars, bufVars, answer, Answered
  <2> QED BY <1>1, <2>1
<1>9. CASE DoParse
  <2>1. op' = "parse" /\ sent' = sent
    BY <1>9 DEF DoParse, netVars
  <2>2. CASE Answer \/ AnswerPart
    BY <1>3, <1>4, <2>1, <2>2
  <2>3. CASE ~Answer /\ ~AnswerPart
    <3>1. UNCHANGED <<head, sent>> /\ answer' = 0
      BY <1>9, <2>3 DEF DoParse, netVars, answer, Answered
    <3> QED BY <1>1, <3>1
  <2> QED BY <2>2, <2>3
<1>10. CASE Drain
  <2>1. head' = made + 1 /\ sent' = sent
    BY <1>10 DEF Drain, netVars
  <2>2. answer' = 0
    BY <1>10, <1>0 DEF Drain, ReplyInv, answer, Answered
  <2> QED BY <1>a, <2>1, <2>2, PassRefines
<1>11. CASE WriteOk
  <2>1. sent' = sent + 1 /\ head' = head /\ answer' = 0
    BY <1>11, <1>0 DEF WriteOk, Return, bufVars, ReplyInv, answer, Answered
  <2> QED BY <2>1 DEF Promise!Next, Promise!Send, settled, isTorn, answer
<1>12. CASE WriteShort \/ WriteBad \/ ReadZero \/ ReadTimesOut
  <2>1. UNCHANGED <<head, sent>> /\ answer' = 0
    BY <1>12 DEF WriteShort, WriteBad, ReadZero, ReadTimesOut, Return,
                 netVars, bufVars, answer, Answered
  <2> QED BY <1>1, <2>1
<1>13. CASE WriteSpins \/ ParseNeedsMore \/ Serve \/ PeerCloses \/ Opens
  BY <1>2, <1>13 DEF WriteSpins, ParseNeedsMore, Serve, PeerCloses, Opens, netVars, bufVars
<1>14. ASSUME NEW k \in 1 .. made - got, Receive(k)
       PROVE  UNCHANGED Promise!vars
  BY <1>2, <1>14 DEF Receive, netVars
<1>15. CASE ParseAnswer \/ ParsePart
  <2>1. op' \notin {"command", "connect"} /\ sent' = sent
    BY <1>0, <1>15 DEF ParseAnswer, ParsePart, ReplyInv, netVars
  <2> QED BY <1>3, <1>4, <1>15, <2>1 DEF ParseAnswer, ParsePart
<1>16. CASE UNCHANGED vars
  BY <1>2, <1>16 DEF vars
<1> QED BY <1>5, <1>6, <1>7, <1>8, <1>9, <1>10, <1>11, <1>12, <1>13, <1>14, <1>15, <1>16
    DEF Next, Work

LEMMA InitRefines == Init => Promise!Init
BY DEF Init, Promise!Init, Answered

(* The users of a connection see a RequestReply: each reply at most once,    *)
(* after its command, in the order of the commands, with gaps where replies  *)
(* were drained, cut or lost, and the rest of a cut one in parts.            *)
THEOREM ImplementsRequestReply == Spec => IsRequestReply
<1>1. Spec => []IInv
  BY InitInv, NextInv, PTL DEF Spec
<1> QED BY <1>1, InitRefines, NextRefines, PTL DEF Spec, IsRequestReply, Promise!Spec

=============================================================================
