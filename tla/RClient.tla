------------------------------- MODULE RClient -------------------------------
(***************************************************************************)
(* core/rclient: one connection, used by one thread.                       *)
(*                                                                         *)
(* Commands are numbered as they are written; the reply to command n is    *)
(* the two units 2n-1 (its head) and 2n (its tail), so that a read can end *)
(* inside a reply.  The server answers in order, so every queue on the way *)
(* is an interval of units: made is the last unit that has reached the     *)
(* client's socket, got the last one taken from it, and the receive buffer *)
(* holds head .. last.  A reconnect loses what had not arrived: the units  *)
(* of all commands sent so far count as taken.                             *)
(***************************************************************************)
EXTENDS Integers

CONSTANTS MaxCommands,  \* bound: commands written
          InitCap,      \* size of a new receive buffer, in units
          Password      \* TRUE: connect sends AUTH

ASSUME CommandsAssumption == MaxCommands \in Nat
ASSUME CapAssumption == InitCap \in Nat \ {0}
ASSUME PasswordAssumption == Password \in BOOLEAN

VARIABLES
    tcp,        \* the socket: "none" not connected, "opening": still connecting
                \* after connect has given up, "up", "gone": closed by the peer
    connected,  \* _is_connect
    pc,         \* where the thread is: "idle" between two calls
    op,         \* the call it is in, or was in last
    sent,       \* number of commands written
    made, got,
    head, last, \* the unread units of the receive buffer
    cap,        \* _bufptr->size()
    drained,    \* history: made when the last command had emptied the socket
    code,       \* how the last call ended; "none" while it runs
    ret         \* the reply it returned; 0: a part of a reply cut in two

vars == <<tcp, connected, pc, op, sent, made, got, head, last, cap, drained, code, ret>>
netVars == <<tcp, connected, sent>>
bufVars == <<made, got, head, last, cap, drained>>

(* "query" sends a command and waits for its reply: check_connection,        *)
(* get_role, use_resp3, and do_connect for AUTH.                             *)
Calls == {"command", "bad", "query", "results", "parse", "connect"}

(* "ok" is also NIL_VALUE, which comes with a value; "format" is any other   *)
(* error of a parser, "unknown" is RESP_FORMAT_UNKNOWN.                      *)
Codes == {"none", "ok", "nothing", "more", "format", "unknown",
          "timeout", "conn", "send", "syntax"}

TypeOK ==
    /\ tcp \in {"none", "opening", "up", "gone"} /\ connected \in BOOLEAN
    /\ pc \in {"idle", "drain", "write", "read", "parse", "spin"}
    /\ op \in Calls /\ code \in Codes
    /\ sent \in 0 .. MaxCommands /\ ret \in 0 .. MaxCommands
    /\ made \in 0 .. 2 * sent /\ got \in 0 .. made /\ drained \in 0 .. made
    /\ last \in 0 .. got /\ head \in 1 .. last + 1
    /\ cap \in Nat \ {0}

Init ==
    /\ tcp = "none" /\ connected = FALSE /\ pc = "idle" /\ op = "connect"
    /\ sent = 0 /\ made = 0 /\ got = 0 /\ head = 1 /\ last = 0 /\ cap = InitCap
    /\ drained = 0 /\ code = "none" /\ ret = 0

Held == last - head + 1

Room == cap - Held

Min(a, b) == IF a < b THEN a ELSE b

(* The call ends with code c. *)
Return(c) == pc' = "idle" /\ code' = c /\ UNCHANGED <<op, ret>>

Enter(o, p) == op' = o /\ pc' = p /\ code' = "none" /\ UNCHANGED ret

-----------------------------------------------------------------------------
(* Connecting and closing.                                                  *)

(* What is under way on the old socket is lost. *)
NewSocket == made' = 2 * sent /\ got' = 2 * sent /\ UNCHANGED <<sent, head, last, cap, drained>>

(* connect and reconnect.  The receive buffer is not reset; a refused AUTH    *)
(* leaves _is_connect set, as its reply is a reply like any other.           *)
ConnectOk ==
    /\ pc = "idle" /\ (Password => sent < MaxCommands)
    /\ tcp' = "up" /\ connected' = TRUE
    /\ NewSocket
    /\ IF Password
         THEN Enter("query", "drain")
         ELSE op' = "connect" /\ pc' = "idle" /\ code' = "ok" /\ UNCHANGED ret

(* Refused, or given up while the socket is still connecting: _is_connect    *)
(* keeps its value.  If a socket option cannot be set, _is_connect is set    *)
(* and no AUTH is sent.                                                      *)
ConnectFails ==
    /\ pc = "idle"
    /\ \/ tcp' \in {"none", "opening"} /\ UNCHANGED connected
       \/ tcp' = "up" /\ connected' = TRUE
    /\ NewSocket
    /\ op' = "connect" /\ pc' = "idle" /\ code' = "conn"
    /\ UNCHANGED ret

(* It closes the number of the last socket that was connected; after a       *)
(* failed reconnect the new socket has that number.                          *)
close ==
    /\ pc = "idle" /\ connected
    /\ tcp' = "none" /\ connected' = FALSE
    /\ NewSocket
    /\ UNCHANGED <<pc, op, code, ret>>

-----------------------------------------------------------------------------
(* command(), and the calls that start with it.                             *)

(* "bad": a command that does not end in CRLF.  One of less than three bytes *)
(* is refused at once.                                                       *)
Call(o) ==
    /\ pc = "idle" /\ o \in {"command", "bad", "query"}
    /\ sent < MaxCommands
    /\ \/ connected /\ Enter(o, "drain")
       \/ ~connected /\ op' = o /\ pc' = "idle" /\ code' = "conn" /\ UNCHANGED ret
       \/ connected /\ o = "bad" /\ op' = o /\ pc' = "idle" /\ code' = "syntax" /\ UNCHANGED ret
    /\ UNCHANGED <<netVars, bufVars>>

(* Mutant: the socket is read once, not until it is empty. *)
Drain_Once ==
    /\ pc = "drain"
    /\ got' = Min(got + cap, made) /\ head' = got' + 1 /\ last' = got' /\ drained' = made
    /\ pc' = "write"
    /\ UNCHANGED <<netVars, made, cap, op, code, ret>>

(* Mutant: the receive buffer is not reset. *)
Drain_KeepsBuffer ==
    /\ pc = "drain"
    /\ got' = made /\ last' = made /\ drained' = made
    /\ pc' = "write"
    /\ UNCHANGED <<netVars, made, head, cap, op, code, ret>>

(* The buffer is reset and the socket read until it has nothing more. *)
Drain ==
    /\ pc = "drain"
    /\ got' = made /\ head' = made + 1 /\ last' = made /\ drained' = made
    /\ pc' = "write"
    /\ UNCHANGED <<netVars, made, cap, op, code, ret>>

WriteOk ==
    /\ pc = "write" /\ op # "bad" /\ tcp \in {"up", "gone"}
    /\ sent' = sent + 1
    /\ IF op = "command"
         THEN Return("ok") /\ ret' = 0
         ELSE pc' = "read" /\ UNCHANGED <<op, code, ret>>
    /\ UNCHANGED <<tcp, connected, bufVars>>

(* The wait for room in the socket times out.  What was written of the line  *)
(* is completed by the next command, and both get one reply.                 *)
WriteShort ==
    /\ pc = "write" /\ op # "bad" /\ tcp \in {"up", "opening"}
    /\ Return("send")
    /\ UNCHANGED <<netVars, bufVars>>

(* AsyncSocketClient::write adds the -1 of each failed write to the count    *)
(* of bytes written, and goes on.                                            *)
WriteSpins ==
    /\ pc = "write" /\ op # "bad" /\ tcp \in {"none", "gone"}
    /\ pc' = "spin"
    /\ UNCHANGED <<netVars, bufVars, op, code, ret>>

WriteBad ==
    /\ pc = "write" /\ op = "bad"
    /\ Return("syntax")
    /\ UNCHANGED <<netVars, bufVars>>

-----------------------------------------------------------------------------
(* get_results() and do_parse().                                            *)

GetResults ==
    /\ pc = "idle"
    /\ Enter("results", "read")
    /\ UNCHANGED <<netVars, bufVars>>

Receive(k) ==
    /\ pc = "read"
    /\ k \in 1 .. Min(Room, made - got)
    /\ got' = got + k /\ last' = last + k
    /\ pc' = "parse"
    /\ UNCHANGED <<netVars, made, head, cap, drained, op, code, ret>>

(* A read of 0 bytes: the peer closed, or the buffer has no room. *)
ReadZero ==
    /\ pc = "read"
    /\ \/ Room = 0
       \/ tcp = "gone" /\ got = made
    /\ Return("conn")
    /\ UNCHANGED <<netVars, bufVars>>

(* Mutant: a time-out is taken as "no answer yet". *)
ReadTimesOut_Retries ==
    /\ pc = "read" /\ got = made
    /\ UNCHANGED vars

(* A read on a closed descriptor fails, with room or without. *)
ReadTimesOut ==
    /\ pc = "read" /\ got = made /\ (Room > 0 \/ tcp = "none")
    /\ Return("timeout")
    /\ UNCHANGED <<netVars, bufVars>>

(* Mutant: a head is taken for a reply. *)
Whole_TailUnchecked == head % 2 = 1 /\ head <= last

(* The reply whose head is at the read position is all there. *)
Whole == head % 2 = 1 /\ head < last

(* Mutant: the reply is not consumed. *)
Answer_NotConsumed ==
    /\ Whole
    /\ code' = "ok" /\ ret' = (head + 1) \div 2
    /\ UNCHANGED head

Answer ==
    /\ Whole
    /\ head' = head + 2
    /\ code' = "ok" /\ ret' = (head + 1) \div 2

(* The tail of a reply whose head is gone: a command's drain came between.   *)
Orphan == head % 2 = 0 /\ head <= last

(* do_parse looks at the first byte only.  What the tail begins with may be  *)
(* an element of an aggregate, or look like one: it is returned as a reply,  *)
(* or a parser gives up on it, with as much consumed as it takes for its     *)
(* own, the replies behind it included.  While a rest of a reply is in       *)
(* front, the position counts as in a tail.                                  *)
AnswerPart ==
    /\ Orphan
    /\ \/ code' = "ok" /\ ret' = 0 /\ head' \in head .. last + 1
       \/ code' = "format" /\ head' \in head .. last + 1 /\ UNCHANGED ret
       \/ code' = "unknown" /\ UNCHANGED <<head, ret>>

(* A reply, or what an orphaned tail looks like, goes on behind the buffer. *)
NeedMore == (head % 2 = 1 /\ head = last) \/ Orphan

ParseAnswer ==
    /\ pc = "parse" /\ pc' = "idle"
    /\ Answer
    /\ UNCHANGED <<netVars, made, got, last, cap, drained, op>>

ParsePart ==
    /\ pc = "parse" /\ pc' = "idle"
    /\ AnswerPart
    /\ UNCHANGED <<netVars, made, got, last, cap, drained, op>>

(* Mutant: the buffer does not grow. *)
ParseNeedsMore_SameSize ==
    /\ pc = "parse" /\ NeedMore
    /\ pc' = "read"
    /\ UNCHANGED <<netVars, bufVars, op, code, ret>>

(* The read position goes back to where it was and the buffer doubles. *)
ParseNeedsMore ==
    /\ pc = "parse" /\ NeedMore
    /\ cap' = 2 * cap
    /\ pc' = "read"
    /\ UNCHANGED <<netVars, made, got, head, last, drained, op, code, ret>>

(* do_parse() called for what has_more_data() reports. *)
DoParse ==
    /\ pc = "idle" /\ op' = "parse"
    /\ \/ Answer
       \/ AnswerPart
       \/ NeedMore /\ code' = "more" /\ UNCHANGED <<head, ret>>
       \/ head > last /\ code' = "nothing" /\ UNCHANGED <<head, ret>>
    /\ UNCHANGED <<netVars, made, got, last, cap, drained, pc>>

-----------------------------------------------------------------------------
(* The server and the network.                                              *)

Serve ==
    /\ tcp = "up" /\ made < 2 * sent
    /\ made' = made + 1
    /\ UNCHANGED <<netVars, got, head, last, cap, drained, pc, op, code, ret>>

PeerCloses ==
    /\ tcp \in {"up", "opening"} /\ tcp' = "gone"
    /\ UNCHANGED <<connected, sent, bufVars, pc, op, code, ret>>

Opens ==
    /\ tcp = "opening" /\ tcp' = "up"
    /\ UNCHANGED <<connected, sent, bufVars, pc, op, code, ret>>

(* The steps of a call that has begun. *)
Work ==
    \/ Drain \/ WriteOk \/ WriteShort \/ WriteSpins \/ WriteBad
    \/ \E k \in 1 .. made - got : Receive(k)
    \/ ReadZero \/ ReadTimesOut
    \/ ParseAnswer \/ ParsePart \/ ParseNeedsMore

Next ==
    \/ ConnectOk \/ ConnectFails \/ close
    \/ \E o \in Calls : Call(o)
    \/ GetResults \/ DoParse
    \/ Work
    \/ Serve \/ PeerCloses \/ Opens

Spec == Init /\ [][Next]_vars

-----------------------------------------------------------------------------
Answered == code = "ok" /\ op \notin {"command", "connect"}

(* A reply of which any part had arrived when the last command emptied the   *)
(* socket is not returned as such afterwards, by get_results or by do_parse, *)
(* across reconnects too.  What had not arrived of it may still be returned, *)
(* in parts, so a part is returned only if that drain cut a reply in two.    *)
FreshReply ==
    Answered => IF ret = 0 THEN drained % 2 = 1 ELSE 2 * ret - 1 > drained

(* If every earlier reply had arrived by then, the reply returned is that of *)
(* the last command.                                                         *)
InStep == Answered /\ drained = 2 * (sent - 1) => ret = sent

(* get_results reports TCP_CONNECTION_ERROR only for a connection the peer   *)
(* closed, or when a reply cut in two by a command's drain blocks a full     *)
(* buffer: a reply larger than the buffer is no reason.                      *)
HonestError ==
    code = "conn" /\ op \notin {"connect", "command", "bad"} /\ connected
      => tcp = "gone" \/ head % 2 = 0

Promise == INSTANCE RequestReply
             WITH settled <- head \div 2,
                  torn <- head % 2 = 0,
                  answer <- IF ~Answered THEN 0 ELSE IF ret = 0 THEN -1 ELSE ret

(* The users of a connection see a RequestReply. *)
IsRequestReply == Promise!Spec

=============================================================================
