------------------------------ MODULE Sentinel ------------------------------
(***************************************************************************)
(* ds/sentinel with the address SentinelFactory keeps: check() connects to *)
(* the sentinels, get_masters, get_slaves and get_master_by_name ask them  *)
(* one after the other, subscribe_event hands over to the Subscriber       *)
(* module, and each message it handles goes through event_funcp to         *)
(* sentinel_event_handle.                                                  *)
(*                                                                         *)
(* The master's address is the number of switches before it.  The          *)
(* sentinels agree on it and publish every switch when it happens.         *)
(***************************************************************************)
EXTENDS Subscriber

CONSTANTS
    MaxCalls,    \* bound: calls of check() and of the queries
    MaxSwitches  \* bound: switches of the master

ASSUME SentinelAssumption == MaxCalls \in Nat /\ MaxSwitches \in Nat

VARIABLES
    call,     \* the call in progress; "none": between two; "known": an address was found
    at,       \* the node or the connection it is at
    conns,    \* _sentinel_connetions.size()
    owed,     \* per connection: the replies that had not come when their call gave up
    calls,    \* number of calls up to now
    known,    \* _master_node
    truth,    \* the address of the master
    asked,    \* history: truth when the call began
    lookups,  \* history: calls of get_master_by_name on these connections
    behind,   \* history: the subscription began with another address than the master's
    news      \* what the messages published on the connection say

client == <<call, at, conns, owed, calls, known, asked, lookups>>
world == <<truth, behind, news>>
allVars == <<vars, client, world>>

Addresses == 0 .. MaxSwitches

NoNode == -1   \* nullptr
Empty == -2    \* a node with neither ip nor port
Foreign == -3  \* the master of another name

(* What a message can be about: a switch of this master, of another one, or  *)
(* something that leaves the address alone.                                  *)
Other == -4

Connections == 1 .. Nodes

(* Replies: "hello" to HELLO 3, also an error or a nil: no array; "pong"; a  *)
(* list of masters or slaves, "two" when it has two; an address.             *)
Texts == [kind : {"hello", "pong", "list", "two"}, addr : {NoNode}]
Address(a) == [kind |-> "addr", addr |-> a]
Text(k) == [kind |-> k, addr |-> NoNode]
Replies == Texts \cup {Address(a) : a \in Addresses}

SentinelInit ==
    /\ Init
    /\ call = "none" /\ at = 1 /\ conns = 0 /\ owed = [c \in Connections |-> <<>>]
    /\ calls = 0 /\ known = NoNode
    /\ truth = 0 /\ asked = 0 /\ lookups = 0 /\ behind = FALSE /\ news = <<>>

-----------------------------------------------------------------------------
(* Sentinel::check() *)

(* Mutant: the clients of the last check stay. *)
check_KeepsClients ==
    /\ pc = "idle" /\ call = "none" /\ calls < MaxCalls
    /\ calls' = calls + 1 /\ call' = "check" /\ at' = 1
    /\ conns' = 0 /\ lookups' = 0
    /\ UNCHANGED <<vars, owed, known, asked, world>>

check ==
    /\ pc = "idle" /\ call = "none" /\ calls < MaxCalls
    /\ calls' = calls + 1 /\ call' = "check" /\ at' = 1
    /\ conns' = 0 /\ owed' = [c \in Connections |-> <<>>] /\ lookups' = 0
    /\ UNCHANGED <<vars, known, asked, world>>

(* The next node, or the end of check(). *)
NextNode ==
    /\ at' = IF at < Nodes THEN at + 1 ELSE 1
    /\ call' = IF at < Nodes THEN "check" ELSE "none"

NodeRefuses ==
    /\ call = "check"
    /\ NextNode
    /\ UNCHANGED <<vars, conns, owed, calls, known, asked, lookups, world>>

(* A new client.  A failed HELLO is only printed; its reply may come later.  *)
NodeConnects ==
    /\ call = "check"
    /\ NextNode
    /\ conns' = conns + 1
    /\ \E s \in {<<>>, <<Text("hello")>>} : owed' = [owed EXCEPT ![conns + 1] = @ \o s]
    /\ UNCHANGED <<vars, calls, known, asked, lookups, world>>

-----------------------------------------------------------------------------
(* get_masters() and get_slaves() ("list"), get_master_by_name() ("addr"):   *)
(* one connection after the other, until one has an answer.                  *)

Begin(o) ==
    /\ pc = "idle" /\ call = "none" /\ calls > 0 /\ calls < MaxCalls
    /\ call' = IF conns = 0 THEN "none" ELSE o
    /\ calls' = calls + 1 /\ at' = 1
    /\ asked' = truth /\ lookups' = IF o = "addr" THEN lookups + 1 ELSE lookups
    /\ UNCHANGED <<vars, conns, owed, known, world>>

(* What the server says to each of them; "list" is also the array of -1      *)
(* elements by which RESP2 says nil.                                         *)
Own(o) ==
    IF o = "list" THEN {Text("list"), Text("two"), Text("hello")}
                  ELSE {Address(truth), Text("hello"), Text("list")}

(* A command first drops what has come of the replies owed.                  *)
Undropped(s) == {SubSeq(s, i, Len(s)) : i \in 1 .. Len(s) + 1}

(* Mutant: one connection too many. *)
NextConnection_OffByOne ==
    /\ at' = IF at <= conns THEN at + 1 ELSE 1
    /\ call' = IF at <= conns THEN call ELSE "none"

NextConnection ==
    /\ at' = IF at < conns THEN at + 1 ELSE 1
    /\ call' = IF at < conns THEN call ELSE "none"

(* The command is written in part, or no reply comes in time.                *)
NoReply ==
    /\ call \in {"list", "addr"}
    /\ NextConnection
    /\ \E s \in Undropped(owed[at]), r \in Own(call) :
         \E t \in {s, Append(s, r)} : Len(t) <= MaxLate /\ owed' = [owed EXCEPT ![at] = t]
    /\ UNCHANGED <<vars, conns, calls, known, asked, lookups, world>>

(* get_results returns the first reply that comes, r.                        *)
TakesReply(r) ==
    \E s \in Undropped(owed[at]), own \in Own(call) :
        LET queue == Append(s, own)
        IN  /\ r = Head(queue)
            /\ owed' = [owed EXCEPT ![at] = Tail(queue)]

(* Any array ends the search; no array, and the next connection is asked.    *)
ListReply ==
    /\ call = "list"
    /\ \E r \in Replies :
         /\ TakesReply(r)
         /\ IF r.kind \in {"hello", "pong"}
              THEN NextConnection
              ELSE call' = "none" /\ at' = 1
    /\ UNCHANGED <<vars, conns, calls, known, asked, lookups, world>>

(* An array of two is the address (without text in it, if its elements are   *)
(* arrays); another array is no master.                                      *)
AddrReply ==
    /\ call = "addr"
    /\ \E r \in Replies :
         /\ TakesReply(r)
         /\ \/ r.kind = "addr" /\ call' = "known" /\ at' = 1 /\ known' = r.addr
            \/ r.kind = "two" /\ call' = "known" /\ at' = 1 /\ known' = Empty
            \/ r.kind = "list" /\ call' = "none" /\ at' = 1 /\ UNCHANGED known
            \/ r.kind \in {"hello", "pong"} /\ NextConnection /\ UNCHANGED known
    /\ UNCHANGED <<vars, conns, calls, asked, lookups, world>>

-----------------------------------------------------------------------------
(* do_subscribe_event(): the Subscriber, on the connections that are there.  *)

(* What the replies owed say matters no more.                                *)
Subscribe ==
    /\ call = "known"
    /\ subscribe_event
    /\ owed' = [c \in Connections |-> [i \in DOMAIN owed[c] |-> Text("pong")]]
    /\ asked' = 0 /\ lookups' = 0
    /\ UNCHANGED <<call, at, conns, calls, known, world>>

PingFails ==
    /\ CheckFails
    /\ UNCHANGED <<client, world>>

(* Any reply will do for check_connection.                                   *)
PingPasses ==
    /\ node <= conns
    /\ CheckPasses
    /\ \E s \in Undropped(owed[node]) :
         owed' = [owed EXCEPT ![node] = Tail(Append(s, Text("pong")))]
    /\ UNCHANGED <<call, at, conns, calls, known, asked, lookups, world>>

(* From now on the server publishes to this connection; the replies owed on  *)
(* it come first, and the other connections are not used again.              *)
PSubscribe ==
    /\ Send
    /\ pc' = "ack" => \E s \in Undropped(owed[node]) : late' = Len(s)
    /\ behind' = (pc' = "ack" /\ known # truth)
    /\ owed' = [c \in Connections |-> <<>>]
    /\ UNCHANGED <<call, at, conns, calls, known, asked, lookups, truth, news>>

(* Mutant: the old address of the message is taken. *)
Event_OldAddress ==
    /\ Handle
    /\ LET m == news[Reply(head) - Channels]
       IN  known' = IF m = Other THEN known ELSE IF m = Foreign THEN m ELSE m - 1
    /\ UNCHANGED <<call, at, conns, owed, calls, asked, lookups, world>>

(* event_funcp, and sentinel_event_handle for a switch of whatever name.     *)
Event ==
    /\ Handle
    /\ LET m == news[Reply(head) - Channels]
       IN  known' = IF m = Other THEN known ELSE m
    /\ UNCHANGED <<call, at, conns, owed, calls, asked, lookups, world>>

(* The other steps of the receiving thread.                                  *)
Reads ==
    /\ \/ \E k \in 1 .. made - got : Receive(k)
       \/ \E l \in 1 .. late, k \in 0 .. made - got : ReceiveLate(l, k)
       \/ TimesOut \/ ReadsEnd \/ RestNext \/ Acknowledged
       \/ Enter \/ Loop \/ Drain
    /\ UNCHANGED <<client, world>>

-----------------------------------------------------------------------------
(* The sentinels and the network. *)

(* A switch is published to the subscribed connection as long as it is open. *)
Switch ==
    /\ truth < MaxSwitches
    /\ truth' = truth + 1
    /\ IF sent >= Channels /\ ~closed
         THEN Publish /\ news' = Append(news, truth')
         ELSE UNCHANGED <<vars, news>>
    /\ UNCHANGED <<client, behind>>

Message ==
    /\ Publish
    /\ \E m \in {Other, Foreign} : news' = Append(news, m)
    /\ UNCHANGED <<client, truth, behind>>

Outside ==
    /\ stop_subscribe_event \/ Arrive \/ Close
    /\ UNCHANGED <<client, world>>

-----------------------------------------------------------------------------

Receiver == PingFails \/ PingPasses \/ PSubscribe \/ Event \/ Reads

SentinelNext ==
    \/ check \/ NodeRefuses \/ NodeConnects
    \/ \E o \in {"list", "addr"} : Begin(o)
    \/ NoReply \/ ListReply \/ AddrReply
    \/ Subscribe \/ Receiver
    \/ Switch \/ Message \/ Outside

SentinelSpec == SentinelInit /\ [][SentinelNext]_allVars

(* The receiving thread runs, and its reads have a time-out.                 *)
FairSentinel == SentinelSpec /\ WF_allVars(Receiver)

-----------------------------------------------------------------------------
(* Properties *)

SentinelTypeOK ==
    /\ TypeOK
    /\ call \in {"none", "check", "list", "addr", "known"}
    /\ at \in Connections /\ conns \in 0 .. Nodes
    /\ owed \in [Connections -> Seq(Replies)]
    /\ calls \in 0 .. MaxCalls
    /\ known \in Addresses \cup {NoNode, Empty, Foreign}
    /\ truth \in Addresses /\ asked \in 0 .. truth
    /\ lookups \in 0 .. MaxCalls /\ behind \in BOOLEAN
    /\ news \in Seq(Addresses \cup {Foreign, Other})
    /\ Len(news) <= MaxEvents

(* The address get_master_by_name returns was the master's at some time      *)
(* since the call, whatever late replies of check(), of get_masters and of   *)
(* get_slaves it meets and whatever connections it skips, if it is the first *)
(* call of it since check(), which makes new connections.  A late list of    *)
(* two masters makes the address empty.                                      *)
AnswerIsCurrent ==
    call = "known" /\ pc = "idle" /\ lookups = 1 => known = Empty \/ known >= asked

(* The receiving thread will come to every message that reaches it: the      *)
(* subscription is acknowledged with nothing dropped behind it, no stop is   *)
(* under way, and what it has read does not end in a part of a message, for  *)
(* which do_recv_msg would return.                                           *)
Attends ==
    \/ pc = "enter"
    \/ pc \in Receiving /\ ~isStop /\ (pc \in {"handle", "drain"} => got % 2 = 0)

(* Message i is not parsed yet, or it is the one about to be handled.        *)
Ahead(i) == 2 * (Channels + i) > head \/ (pc = "handle" /\ Reply(head) = Channels + i)

(* A client that subscribed with the right address has the right one, or a   *)
(* message that names it is ahead of the thread, which will come to it, as   *)
(* long as the connection is open; unless the last switch it heard of was    *)
(* another master's (sentinel_event_handle does not compare the name).       *)
KnowsMaster ==
    Attends /\ ~behind /\ ~closed /\ known # Foreign =>
        known = truth \/ \E i \in DOMAIN news : Ahead(i) /\ news[i] = truth

(* A switch whose message reaches the socket of a receiving thread becomes   *)
(* the known address, unless the thread ends or a later message changed it.  *)
HearsOfSwitch ==
    \A m \in 1 .. MaxEvents :
        /\ pc \in Receiving /\ made >= 2 * (Channels + m)
        /\ m \in DOMAIN news /\ news[m] \in Addresses
        ~> (m \in DOMAIN news /\ known = news[m]) \/ Len(handled) > m \/ pc = "done"

=============================================================================
