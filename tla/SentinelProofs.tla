--------------------------- MODULE SentinelProofs ---------------------------
(***************************************************************************)
(* The sentinel client, for every number of sentinels, channels, calls,    *)
(* late replies, messages and switches: the address it returns is current, *)
(* and who subscribes in time knows the master or is about to hear of it.  *)
(***************************************************************************)
EXTENDS Sentinel, SubscriberProofs, SequenceTheorems

USE SentinelAssumption, NodesAssumption, ChannelsAssumption, MaxEventsAssumption, MaxLateAssumption

(* Once it subscribes, the client makes no other call. *)
CallInv ==
    /\ pc # "idle" => call = "known"
    /\ call = "check" => conns < at
    /\ call = "addr" => lookups >= 1
    /\ lookups <= calls

(* Late replies in which no address is, or none older than n. *)
Plain == {r \in Replies : r.kind # "addr"}
Recent(n) == {r \in Replies : r.kind = "addr" => r.addr >= n}

(* What can still come from the connections before and in the first query.   *)
OwedInv ==
    pc = "idle" =>
        /\ lookups = 0 => owed \in [Connections -> Seq(Plain)]
        /\ lookups = 1 /\ call = "addr" => owed \in [Connections -> Seq(Recent(asked))]

(* There is one entry for each message, handled or not.  The last one that   *)
(* names this master names the right one.                                    *)
FeedInv ==
    /\ sent = 0 \/ sent >= Channels
    /\ Len(news) = IF sent >= Channels THEN sent - Channels ELSE 0
    /\ Len(handled) <= Len(news)
    /\ sent >= Channels /\ ~closed =>
         \A i \in DOMAIN news : news[i] \in Addresses =>
             news[i] = truth \/ \E j \in i + 1 .. Len(news) : news[j] = truth

(* The right address is known, or a message without a callback names it.     *)
NewsInv ==
    sent >= Channels /\ ~behind /\ ~closed /\ known # Foreign =>
        known = truth \/ \E i \in Len(handled) + 1 .. Len(news) : news[i] = truth

SentinelInv ==
    IInv /\ SentinelTypeOK /\ CallInv /\ OwedInv /\ AnswerIsCurrent /\ FeedInv /\ NewsInv

-----------------------------------------------------------------------------
(* Queues of late replies. *)

(* Every kind of reply is what its name says. *)
LEMMA ReplyTypes ==
    /\ \A k \in {"hello", "pong", "list", "two"} : Text(k) \in Plain
    /\ \A a \in Addresses : Address(a) \in Replies
    /\ \A r \in Replies : r.kind = "addr" => r.addr \in Addresses
    /\ Plain \subseteq Replies
<1>1. \A k \in {"hello", "pong", "list", "two"} : Text(k) \in Plain
  BY DEF Text, Texts, Plain, Replies
<1>2. \A a \in Addresses : Address(a) \in Replies
  BY DEF Replies
<1>3. \A r \in Replies : r.kind = "addr" => r.addr \in Addresses
  BY DEF Replies, Texts, Address
<1>4. Plain \subseteq Replies
  BY DEF Plain
<1> QED BY <1>1, <1>2, <1>3, <1>4

(* What a command leaves of a queue, with one reply more, without the first. *)
LEMMA QueueTypes ==
    ASSUME NEW S, NEW q \in Seq(S), NEW s \in Undropped(q), NEW r \in S
    PROVE  /\ s \in Seq(S) /\ Append(s, r) \in Seq(S)
           /\ Head(Append(s, r)) \in S /\ Tail(Append(s, r)) \in Seq(S)
<1>1. PICK i \in 1 .. Len(q) + 1 : s = SubSeq(q, i, Len(q))
  BY DEF Undropped
<1>2. s \in Seq(S)
  BY <1>1
<1>3. Append(s, r) \in Seq(S) /\ Append(s, r) # <<>>
  BY <1>2
<1> QED BY <1>2, <1>3

(* The reply a sentinel gives is current. *)
LEMMA OwnTypes ==
    ASSUME SentinelTypeOK, NEW r \in Own(call)
    PROVE  /\ r \in Recent(asked)
           /\ r \in Replies
           /\ call = "list" => r \in Plain
<1> USE ReplyTypes
<1>1. truth \in Addresses /\ asked \in 0 .. truth
  BY DEF SentinelTypeOK
<1>2. \A p \in Plain : p \in Recent(asked)
  BY DEF Plain, Recent
<1>3. Address(truth) \in Recent(asked)
  BY <1>1 DEF Recent, Address, Addresses
<1>4. call = "list" => r \in Plain
  BY DEF Own
<1>5. r \in Plain \/ r = Address(truth)
  BY DEF Own
<1> QED BY <1>2, <1>3, <1>4, <1>5 DEF Recent

-----------------------------------------------------------------------------
(* A step of the sentinel client is a step of the Subscriber or none of its. *)
LEMMA StepIsStep == [SentinelNext]_allVars => [Next]_vars
<1> SUFFICES ASSUME [SentinelNext]_allVars PROVE Next \/ UNCHANGED vars
  OBVIOUS
<1>1. ASSUME check \/ NodeRefuses \/ NodeConnects \/ NoReply \/ ListReply \/ AddrReply
      PROVE  UNCHANGED vars
  BY <1>1 DEF check, NodeRefuses, NodeConnects, NoReply, ListReply, AddrReply
<1>2. ASSUME NEW o \in {"list", "addr"}, Begin(o) PROVE UNCHANGED vars
  BY <1>2 DEF Begin
<1>3. CASE Subscribe
  BY <1>3 DEF Subscribe, Next
<1>4. CASE Receiver
  BY <1>4 DEF Receiver, PingFails, PingPasses, PSubscribe, Event, Reads, Next, Work
<1>5. CASE Switch \/ Message \/ Outside
  BY <1>5 DEF Switch, Message, Outside, Next
<1>6. CASE UNCHANGED allVars
  BY <1>6 DEF allVars
<1> QED BY <1>1, <1>2, <1>3, <1>4, <1>5, <1>6 DEF SentinelNext

-----------------------------------------------------------------------------
LEMMA SentinelInitInv == SentinelInit => SentinelInv
<1> SUFFICES ASSUME SentinelInit PROVE SentinelInv OBVIOUS
<1> USE DEF SentinelInit
<1>1. IInv
  BY InitInv
<1>2. SentinelTypeOK
  <2>1. owed \in [Connections -> Seq(Replies)]
    OBVIOUS
  <2>2. news \in Seq(Addresses \cup {Foreign, Other}) /\ Len(news) <= MaxEvents
    OBVIOUS
  <2>3. /\ call \in {"none", "check", "list", "addr", "known"}
        /\ at \in Connections /\ conns \in 0 .. Nodes
        /\ calls \in 0 .. MaxCalls /\ lookups \in 0 .. MaxCalls
        /\ known \in Addresses \cup {NoNode, Empty, Foreign}
        /\ truth \in Addresses /\ asked \in 0 .. truth
    BY DEF Connections, Addresses
  <2>4. behind \in BOOLEAN
    OBVIOUS
  <2> QED BY <1>1, <2>1, <2>2, <2>3, <2>4 DEF SentinelTypeOK, IInv
<1>3. CallInv
  BY DEF CallInv, Init
<1>4. OwedInv
  BY DEF OwedInv
<1>5. AnswerIsCurrent
  BY DEF AnswerIsCurrent
<1>6. FeedInv /\ NewsInv
  BY DEF FeedInv, NewsInv, Init
<1> QED BY <1>1, <1>2, <1>3, <1>4, <1>5, <1>6 DEF SentinelInv

-----------------------------------------------------------------------------
(* What the steps that leave the feed alone preserve. *)
LEMMA SameFeed ==
    ASSUME SentinelInv, UNCHANGED <<sent, closed, handled, world>>,
           UNCHANGED known \/ pc = "idle"
    PROVE  FeedInv' /\ NewsInv'
<1>1. FeedInv'
  BY DEF SentinelInv, FeedInv, world
<1>2. NewsInv'
  BY DEF SentinelInv, NewsInv, world, IInv, StreamInv
<1> QED BY <1>1, <1>2

(* The steps that leave the client alone, and its thread. *)
LEMMA SameClient ==
    ASSUME SentinelInv, IInv', UNCHANGED <<client, pc>>,
           truth' \in Addresses, truth' >= truth, behind' \in BOOLEAN,
           news' \in Seq(Addresses \cup {Foreign, Other}), Len(news') <= MaxEvents
    PROVE  SentinelTypeOK' /\ CallInv' /\ OwedInv' /\ AnswerIsCurrent'
<1>1. SentinelTypeOK'
  BY DEF SentinelInv, SentinelTypeOK, client, IInv, Addresses
<1>2. CallInv'
  BY DEF SentinelInv, CallInv, client
<1>3. OwedInv'
  BY DEF SentinelInv, OwedInv, client, Recent, Plain, Replies, Addresses
<1>4. AnswerIsCurrent'
  BY DEF SentinelInv, AnswerIsCurrent, client
<1> QED BY <1>1, <1>2, <1>3, <1>4

LEMMA SameWorld ==
    ASSUME SentinelInv, IInv', UNCHANGED <<client, world, pc>>
    PROVE  SentinelTypeOK' /\ CallInv' /\ OwedInv' /\ AnswerIsCurrent'
<1>1. SentinelTypeOK
  BY DEF SentinelInv
<1>2. UNCHANGED <<client, pc>> /\ UNCHANGED <<truth, behind, news>>
  BY DEF world
<1>3. truth' \in Addresses /\ truth' >= truth
  BY <1>1, <1>2 DEF SentinelTypeOK, Addresses
<1>4. behind' \in BOOLEAN
  BY <1>1, <1>2, Zenon DEF SentinelTypeOK
<1>5. news' \in Seq(Addresses \cup {Foreign, Other}) /\ Len(news') <= MaxEvents
  BY <1>1, <1>2 DEF SentinelTypeOK
<1> QED BY <1>2, <1>3, <1>4, <1>5, SameClient

-----------------------------------------------------------------------------
(* The steps of check() and of the queries. *)

LEMMA CheckSteps ==
    ASSUME SentinelInv, check \/ NodeRefuses \/ NodeConnects
    PROVE  SentinelTypeOK' /\ CallInv' /\ OwedInv' /\ AnswerIsCurrent' /\ FeedInv' /\ NewsInv'
<1> USE DEF NextNode
<1>0. /\ SentinelTypeOK /\ CallInv /\ OwedInv /\ AnswerIsCurrent
      /\ UNCHANGED <<vars, known, asked, world>> /\ pc = "idle"
  BY DEF SentinelInv, CallInv, check, NodeRefuses, NodeConnects
<1>1. FeedInv' /\ NewsInv'
  BY <1>0, SameFeed DEF vars, stream
<1>2. CASE check
  <2>1. owed' = [c \in Connections |-> <<>>] /\ lookups' = 0 /\ call' = "check"
    BY <1>2 DEF check
  <2>2. owed' \in [Connections -> Seq(Plain)] /\ owed' \in [Connections -> Seq(Replies)]
    BY <2>1
  <2>3. SentinelTypeOK'
    BY <1>0, <1>2, <2>2 DEF check, SentinelTypeOK, TypeOK, vars, stream, world, Connections
  <2>4. CallInv'
    BY <1>0, <1>2 DEF check, CallInv, vars, SentinelTypeOK
  <2>5. OwedInv' /\ AnswerIsCurrent'
    BY <2>1, <2>2 DEF OwedInv, AnswerIsCurrent
  <2> QED BY <1>1, <2>3, <2>4, <2>5
<1>3. CASE NodeRefuses
  <2>1. SentinelTypeOK'
    BY <1>0, <1>3 DEF NodeRefuses, SentinelTypeOK, TypeOK, vars, stream, world, Connections
  <2>2. CallInv'
    BY <1>0, <1>3 DEF NodeRefuses, CallInv, vars, SentinelTypeOK, Connections
  <2>3. OwedInv' /\ AnswerIsCurrent'
    BY <1>0, <1>3 DEF NodeRefuses, OwedInv, AnswerIsCurrent, vars
  <2> QED BY <1>1, <2>1, <2>2, <2>3
<1>4. CASE NodeConnects
  <2>1. PICK s \in {<<>>, <<Text("hello")>>} : owed' = [owed EXCEPT ![conns + 1] = @ \o s]
    BY <1>4 DEF NodeConnects
  <2>2. s \in Seq(Plain) /\ s \in Seq(Replies)
    <3>1. Text("hello") \in Plain /\ Text("hello") \in Replies
      BY ReplyTypes
    <3>2. CASE s = <<>>
      BY <3>2
    <3>3. CASE s = <<Text("hello")>>
      BY <3>1, <3>3
    <3> QED BY <2>1, <3>2, <3>3
  <2>3. conns + 1 \in Connections
    BY <1>0, <1>4 DEF NodeConnects, CallInv, SentinelTypeOK, Connections
  <2>4. owed' \in [Connections -> Seq(Replies)]
    BY <1>0, <2>1, <2>2, <2>3 DEF SentinelTypeOK
  <2>5. lookups = 0 => owed' \in [Connections -> Seq(Plain)]
    BY <1>0, <2>1, <2>2, <2>3 DEF OwedInv
  <2>6. SentinelTypeOK'
    BY <1>0, <1>4, <2>4 DEF NodeConnects, SentinelTypeOK, TypeOK, CallInv, vars, stream, world, Connections
  <2>7. CallInv'
    BY <1>0, <1>4 DEF NodeConnects, CallInv, vars, SentinelTypeOK, Connections
  <2>8. OwedInv' /\ AnswerIsCurrent'
    BY <1>0, <1>4, <2>5 DEF NodeConnects, OwedInv, AnswerIsCurrent, vars
  <2> QED BY <1>1, <2>6, <2>7, <2>8
<1> QED BY <1>2, <1>3, <1>4

LEMMA BeginStep ==
    ASSUME SentinelInv, NEW o \in {"list", "addr"}, Begin(o)
    PROVE  SentinelTypeOK' /\ CallInv' /\ OwedInv' /\ AnswerIsCurrent' /\ FeedInv' /\ NewsInv'
<1> USE DEF Begin
<1>0. /\ SentinelTypeOK /\ CallInv /\ OwedInv
      /\ UNCHANGED <<vars, known, world, owed>> /\ pc = "idle" /\ call' \in {"none", o}
      /\ asked' = truth /\ lookups' = IF o = "addr" THEN lookups + 1 ELSE lookups
  BY DEF SentinelInv
<1>1. FeedInv' /\ NewsInv'
  BY <1>0, SameFeed DEF vars, stream
<1>2. SentinelTypeOK'
  BY <1>0 DEF SentinelTypeOK, CallInv, TypeOK, vars, stream, world, Connections, Addresses
<1>3. CallInv'
  BY <1>0 DEF CallInv, vars, SentinelTypeOK
<1>4. OwedInv'
  <2>1. Plain \subseteq Recent(truth)
    BY DEF Plain, Recent
  <2>2. owed \in [Connections -> Seq(Plain)] => owed \in [Connections -> Seq(Recent(truth))]
    BY <2>1
  <2> QED BY <1>0, <2>2 DEF OwedInv, vars, SentinelTypeOK
<1>5. AnswerIsCurrent'
  BY <1>0 DEF AnswerIsCurrent
<1> QED BY <1>1, <1>2, <1>3, <1>4, <1>5

(* A query at connection at: what it leaves of the queue. *)
LEMMA QueryQueue ==
    ASSUME SentinelInv, call \in {"list", "addr"}, pc = "idle", at \in Connections,
           NEW s \in Undropped(owed[at]), NEW r \in Own(call),
           NEW t \in {s, Append(s, r), Tail(Append(s, r))}
    PROVE  LET q == [owed EXCEPT ![at] = t]
               h == Head(Append(s, r))
           IN  /\ q \in [Connections -> Seq(Replies)] /\ h \in Replies
               /\ lookups = 0 => q \in [Connections -> Seq(Plain)]
               /\ lookups = 1 /\ call = "addr" =>
                    q \in [Connections -> Seq(Recent(asked))] /\ h \in Recent(asked)
<1>0. SentinelTypeOK /\ CallInv /\ OwedInv
  BY DEF SentinelInv
<1>1. r \in Recent(asked) /\ r \in Replies /\ (call = "list" => r \in Plain)
  BY <1>0, OwnTypes
<1>2. t \in Seq(Replies) /\ Head(Append(s, r)) \in Replies
  <2>1. owed[at] \in Seq(Replies)
    BY <1>0 DEF SentinelTypeOK
  <2>2. /\ s \in Seq(Replies) /\ Append(s, r) \in Seq(Replies)
        /\ Head(Append(s, r)) \in Replies /\ Tail(Append(s, r)) \in Seq(Replies)
    BY <1>1, <2>1, QueueTypes, Zenon
  <2> QED BY <2>2, Zenon
<1>3. ASSUME lookups = 0 PROVE t \in Seq(Plain)
  <2>1. owed[at] \in Seq(Plain) /\ r \in Plain
    BY <1>0, <1>1, <1>3 DEF OwedInv, CallInv, SentinelTypeOK
  <2>2. s \in Seq(Plain) /\ Append(s, r) \in Seq(Plain) /\ Tail(Append(s, r)) \in Seq(Plain)
    BY <2>1, QueueTypes, Zenon
  <2> QED BY <2>2, Zenon
<1>4. ASSUME lookups = 1, call = "addr"
      PROVE  t \in Seq(Recent(asked)) /\ Head(Append(s, r)) \in Recent(asked)
  <2>1. owed[at] \in Seq(Recent(asked))
    BY <1>0, <1>4 DEF OwedInv
  <2>2. /\ s \in Seq(Recent(asked)) /\ Append(s, r) \in Seq(Recent(asked))
        /\ Head(Append(s, r)) \in Recent(asked) /\ Tail(Append(s, r)) \in Seq(Recent(asked))
    BY <1>1, <2>1, QueueTypes, Zenon
  <2> QED BY <2>2, Zenon
<1>5. [owed EXCEPT ![at] = t] \in [Connections -> Seq(Replies)]
  BY <1>0, <1>2 DEF SentinelTypeOK
<1>6. lookups = 0 => [owed EXCEPT ![at] = t] \in [Connections -> Seq(Plain)]
  BY <1>0, <1>3 DEF OwedInv
<1>7. lookups = 1 /\ call = "addr" => [owed EXCEPT ![at] = t] \in [Connections -> Seq(Recent(asked))]
  BY <1>0, <1>4 DEF OwedInv
<1> QED BY <1>2, <1>4, <1>5, <1>6, <1>7

LEMMA QuerySteps ==
    ASSUME SentinelInv, NoReply \/ ListReply \/ AddrReply
    PROVE  SentinelTypeOK' /\ CallInv' /\ OwedInv' /\ AnswerIsCurrent' /\ FeedInv' /\ NewsInv'
<1>0. /\ SentinelTypeOK /\ CallInv /\ OwedInv /\ AnswerIsCurrent
      /\ UNCHANGED <<vars, conns, calls, asked, lookups, world>>
      /\ pc = "idle" /\ call \in {"list", "addr"} /\ at \in Connections
  BY DEF SentinelInv, CallInv, NoReply, ListReply, AddrReply, SentinelTypeOK
<1>1. FeedInv' /\ NewsInv'
  BY <1>0, SameFeed DEF vars, stream
(* What holds of the queue in each of the three. *)
<1>2. PICK s \in Undropped(owed[at]), r \in Own(call) :
        /\ \E t \in {s, Append(s, r), Tail(Append(s, r))} : owed' = [owed EXCEPT ![at] = t]
        /\ AddrReply =>
             LET h == Head(Append(s, r))
             IN  \/ h.kind = "addr" /\ call' = "known" /\ at' = 1 /\ known' = h.addr
                 \/ call' = "known" /\ at' = 1 /\ known' = Empty
                 \/ call' = "none" /\ at' = 1 /\ UNCHANGED known
                 \/ NextConnection /\ UNCHANGED known
  <2>1. CASE NoReply /\ ~ListReply /\ ~AddrReply
    BY <2>1 DEF NoReply
  <2>2. CASE ListReply
    <3>1. PICK r \in Replies : TakesReply(r)
      BY <2>2 DEF ListReply
    <3>2. ~AddrReply
      BY <2>2 DEF ListReply, AddrReply
    <3> QED BY <3>1, <3>2 DEF TakesReply
  <2>3. CASE AddrReply
    <3>1. PICK r \in Replies :
            /\ TakesReply(r)
            /\ \/ r.kind = "addr" /\ call' = "known" /\ at' = 1 /\ known' = r.addr
               \/ call' = "known" /\ at' = 1 /\ known' = Empty
               \/ call' = "none" /\ at' = 1 /\ UNCHANGED known
               \/ NextConnection /\ UNCHANGED known
      BY <2>3 DEF AddrReply
    <3> QED BY <3>1 DEF TakesReply
  <2> QED BY <2>1, <2>2, <2>3
<1> DEFINE h == Head(Append(s, r))
<1>3. /\ owed' \in [Connections -> Seq(Replies)] /\ h \in Replies
      /\ lookups = 0 => owed' \in [Connections -> Seq(Plain)]
      /\ lookups = 1 /\ call = "addr" => owed' \in [Connections -> Seq(Recent(asked))] /\ h \in Recent(asked)
  <2>1. PICK t \in {s, Append(s, r), Tail(Append(s, r))} : owed' = [owed EXCEPT ![at] = t]
    BY <1>2
  <2>2. /\ [owed EXCEPT ![at] = t] \in [Connections -> Seq(Replies)] /\ h \in Replies
        /\ lookups = 0 => [owed EXCEPT ![at] = t] \in [Connections -> Seq(Plain)]
        /\ lookups = 1 /\ call = "addr" =>
             [owed EXCEPT ![at] = t] \in [Connections -> Seq(Recent(asked))] /\ h \in Recent(asked)
    BY <1>0, QueryQueue, Zenon
  <2> QED BY <2>1, <2>2, Zenon
<1>4. at' \in Connections /\ call' \in {call, "none", "known"} /\ (call' = "known" => AddrReply)
  <2>1. NextConnection => at' \in Connections /\ call' \in {call, "none"}
    BY <1>0 DEF NextConnection, SentinelTypeOK, Connections
  <2>2. 1 \in Connections
    BY DEF Connections
  <2> QED BY <1>0, <1>2, <2>1, <2>2 DEF NoReply, ListReply
<1>5. known' \in {known, Empty} \/ (AddrReply /\ call' = "known" /\ h.kind = "addr" /\ known' = h.addr)
  <2>1. CASE AddrReply
    BY <1>2, <2>1
  <2>2. CASE NoReply \/ ListReply
    BY <2>2 DEF NoReply, ListReply
  <2> QED BY <2>1, <2>2
<1>6. known' \in Addresses \cup {NoNode, Empty, Foreign}
  BY <1>0, <1>3, <1>5, ReplyTypes DEF SentinelTypeOK
<1>7. SentinelTypeOK'
  BY <1>0, <1>3, <1>4, <1>6 DEF SentinelTypeOK, TypeOK, vars, stream, world
<1>8. CallInv'
  BY <1>0, <1>4 DEF CallInv, vars
<1>9. OwedInv'
  BY <1>0, <1>3, <1>4 DEF OwedInv, vars
<1>10. AnswerIsCurrent'
  <2>1. SUFFICES ASSUME call' = "known", lookups = 1 PROVE known' = Empty \/ known' >= asked
    BY <1>0 DEF AnswerIsCurrent
  <2>2. AddrReply /\ call = "addr"
    BY <1>4, <2>1 DEF AddrReply
  <2>3. h.kind = "addr" => h.addr >= asked
    BY <1>3, <2>1, <2>2 DEF Recent
  <2>4. \/ h.kind = "addr" /\ known' = h.addr
        \/ known' = Empty
        \/ NextConnection
    BY <1>2, <2>1, <2>2
  <2>5. ~NextConnection
    BY <2>1, <2>2 DEF NextConnection
  <2> QED BY <2>3, <2>4, <2>5
<1> QED BY <1>1, <1>7, <1>8, <1>9, <1>10

-----------------------------------------------------------------------------
(* The steps of the subscription. *)

LEMMA SubscribeStep ==
    ASSUME SentinelInv, IInv', Subscribe
    PROVE  SentinelTypeOK' /\ CallInv' /\ OwedInv' /\ AnswerIsCurrent' /\ FeedInv' /\ NewsInv'
<1>0. /\ SentinelTypeOK /\ CallInv /\ call = "known" /\ pc' = "check"
      /\ UNCHANGED <<call, at, conns, calls, known, world>>
      /\ UNCHANGED <<sent, closed, handled>> /\ asked' = 0 /\ lookups' = 0
  BY DEF SentinelInv, Subscribe, subscribe_event, stream
<1>1. FeedInv' /\ NewsInv'
  BY <1>0, SameFeed
<1>2. owed' \in [Connections -> Seq(Replies)]
  <2>1. \A c \in Connections : [i \in DOMAIN owed[c] |-> Text("pong")] \in Seq(Replies)
    <3> TAKE c \in Connections
    <3>1. owed[c] \in Seq(Replies) /\ Text("pong") \in Replies
      BY <1>0, ReplyTypes DEF SentinelTypeOK
    <3>2. DOMAIN owed[c] = 1 .. Len(owed[c]) /\ Len(owed[c]) \in Nat
      BY <3>1
    <3> QED BY <3>1, <3>2
  <2> QED BY <2>1 DEF Subscribe
<1>3. SentinelTypeOK'
  BY <1>0, <1>2 DEF SentinelTypeOK, IInv, world, Addresses
<1>4. CallInv' /\ OwedInv' /\ AnswerIsCurrent'
  BY <1>0 DEF CallInv, OwedInv, AnswerIsCurrent, SentinelTypeOK
<1> QED BY <1>1, <1>3, <1>4

(* Every step of the thread after that leaves "idle" alone. *)
LEMMA ThreadRuns ==
    ASSUME SentinelInv, Work
    PROVE  pc # "idle" /\ pc' # "idle" /\ call = "known"
<1>1. pc # "idle"
  BY DEF Work, CheckFails, CheckPasses, Send, Receive, ReceiveLate, TimesOut, ReadsEnd, RestNext,
         Acknowledged, Enter, Loop, Handle, Drain
<1>2. call = "known"
  BY <1>1 DEF SentinelInv, CallInv
<1>3. ASSUME CheckFails \/ CheckPasses \/ Send PROVE pc' # "idle"
  BY <1>3 DEF CheckFails, CheckPasses, Send
<1>4. ASSUME TimesOut \/ ReadsEnd \/ Acknowledged PROVE pc' # "idle"
  BY <1>4 DEF TimesOut, ReadsEnd, Acknowledged
<1>5. ASSUME RestNext PROVE pc' # "idle"
  BY <1>1, <1>5 DEF RestNext
<1>6. ASSUME Enter \/ Loop \/ Handle PROVE pc' # "idle"
  BY <1>6 DEF Enter, Loop, Handle
<1>7. ASSUME Drain PROVE pc' # "idle"
  <2>1. CASE Whole
    BY <1>7, <2>1, Zenon DEF Drain
  <2>2. CASE ~Whole /\ Part
    BY <1>7, <2>2, Zenon DEF Drain
  <2>3. CASE ~Whole /\ ~Part
    BY <1>7, <2>3, Zenon DEF Drain
  <2> QED BY <2>1, <2>2, <2>3
<1>8. ASSUME NEW k \in 1 .. made - got, Receive(k) PROVE pc' # "idle"
  BY <1>1, <1>8 DEF Receive
<1>9. ASSUME NEW l \in 1 .. late, NEW k \in 0 .. made - got, ReceiveLate(l, k) PROVE pc' # "idle"
  BY <1>9 DEF ReceiveLate
<1> QED BY <1>1, <1>2, <1>3, <1>4, <1>5, <1>6, <1>7, <1>8, <1>9 DEF Work

(* What a step of the thread may do to the client and to the feed. *)
LEMMA ThreadLeaves ==
    ASSUME SentinelInv, IInv', Work, UNCHANGED <<call, at, conns, calls, asked, lookups, truth, news>>,
           owed' \in [Connections -> Seq(Replies)], behind' \in BOOLEAN,
           known' \in Addresses \cup {NoNode, Empty, Foreign}
    PROVE  SentinelTypeOK' /\ CallInv' /\ OwedInv' /\ AnswerIsCurrent'
<1>0. SentinelTypeOK /\ CallInv /\ pc' # "idle" /\ call = "known"
  BY ThreadRuns DEF SentinelInv
<1>1. SentinelTypeOK'
  BY <1>0 DEF SentinelTypeOK, IInv, Addresses
<1>2. CallInv'
  BY <1>0 DEF CallInv, SentinelTypeOK
<1>3. OwedInv' /\ AnswerIsCurrent'
  BY <1>0 DEF OwedInv, AnswerIsCurrent
<1> QED BY <1>1, <1>2, <1>3

LEMMA PingSteps ==
    ASSUME SentinelInv, IInv', PingFails \/ PingPasses
    PROVE  SentinelTypeOK' /\ CallInv' /\ OwedInv' /\ AnswerIsCurrent' /\ FeedInv' /\ NewsInv'
<1>0. /\ SentinelTypeOK /\ Work
      /\ UNCHANGED <<call, at, conns, calls, known, asked, lookups, world, sent, closed, handled>>
  BY DEF SentinelInv, PingFails, PingPasses, CheckFails, CheckPasses, Work, stream, client
<1>1. owed' \in [Connections -> Seq(Replies)]
  <2>1. CASE PingFails
    BY <1>0, <2>1 DEF PingFails, client, SentinelTypeOK
  <2>2. CASE PingPasses
    <3>1. PICK s \in Undropped(owed[node]) :
            owed' = [owed EXCEPT ![node] = Tail(Append(s, Text("pong")))]
      BY <2>2 DEF PingPasses
    <3>2. node \in Connections
      BY <1>0, <2>2 DEF PingPasses, SentinelTypeOK, TypeOK, Connections
    <3>3. owed[node] \in Seq(Replies) /\ Text("pong") \in Replies
      BY <1>0, <3>2, ReplyTypes DEF SentinelTypeOK
    <3>4. Tail(Append(s, Text("pong"))) \in Seq(Replies)
      BY <3>3, QueueTypes, Zenon
    <3> QED BY <1>0, <3>1, <3>4 DEF SentinelTypeOK
  <2> QED BY <2>1, <2>2
<1>2. FeedInv' /\ NewsInv'
  BY <1>0, SameFeed
<1>3. SentinelTypeOK' /\ CallInv' /\ OwedInv' /\ AnswerIsCurrent'
  BY <1>0, <1>1, ThreadLeaves DEF world, SentinelTypeOK
<1> QED BY <1>2, <1>3

LEMMA PSubscribeStep ==
    ASSUME SentinelInv, IInv', PSubscribe
    PROVE  SentinelTypeOK' /\ CallInv' /\ OwedInv' /\ AnswerIsCurrent' /\ FeedInv' /\ NewsInv'
<1> USE DEF PSubscribe
<1>0. /\ SentinelTypeOK /\ FeedInv /\ Work /\ Send
      /\ UNCHANGED <<call, at, conns, calls, known, asked, lookups, truth, news, closed, handled>>
  BY DEF SentinelInv, Send, Work
<1>1. owed' \in [Connections -> Seq(Replies)] /\ behind' \in BOOLEAN
  BY <1>0
<1>2. SentinelTypeOK' /\ CallInv' /\ OwedInv' /\ AnswerIsCurrent'
  BY <1>0, <1>1, ThreadLeaves DEF SentinelTypeOK
<1>3. sent = 0 /\ Len(news) = 0 /\ Len(handled) = 0
  BY <1>0 DEF SentinelInv, IInv, StreamInv, PlaceInv, Receiving, Send, FeedInv
<1>4. (sent' = Channels /\ pc' = "ack") \/ (sent' = 0 /\ pc' = "done")
  BY <1>0, <1>3 DEF Send
<1>5. FeedInv'
  BY <1>0, <1>3, <1>4 DEF FeedInv, SentinelTypeOK
<1>6. NewsInv'
  <2>1. ASSUME ~behind', pc' = "ack" PROVE known = truth
    BY <2>1
  <2>2. pc' = "done" => ~(sent' >= Channels)
    BY <1>4
  <2> QED BY <1>0, <1>4, <2>1, <2>2 DEF NewsInv
<1> QED BY <1>2, <1>5, <1>6

(* The message handled is the first one not yet handled; it is the last word *)
(* on the master, or the last word is still to come.                         *)
LEMMA EventStep ==
    ASSUME SentinelInv, IInv', Event
    PROVE  SentinelTypeOK' /\ CallInv' /\ OwedInv' /\ AnswerIsCurrent' /\ FeedInv' /\ NewsInv'
<1>0. /\ SentinelTypeOK /\ FeedInv /\ NewsInv /\ TypeOK /\ Work /\ Handle /\ pc = "handle"
      /\ UNCHANGED <<call, at, conns, owed, calls, asked, lookups, world, sent, closed, head>>
  BY DEF SentinelInv, IInv, Event, Handle, Work, stream
<1> DEFINE n == Len(handled) + 1
           m == news[n]
<1>1. Reply(head) = Channels + n /\ n \in Nat
  <2>1. head = 2 * (Channels + n) /\ head \in Nat /\ n \in Nat
    BY <1>0 DEF SentinelInv, IInv, PlaceInv, TypeOK
  <2> HIDE DEF n
  <2> QED BY <2>1 DEF Reply
<1>2. n \in 1 .. Len(news)
  <2>1. 2 * (Channels + n) <= 2 * sent
    BY <1>0 DEF SentinelInv, IInv, PlaceInv, TypeOK
  <2>2. n <= sent - Channels /\ sent \in Nat /\ n >= 1
    BY <1>0, <1>1, <2>1 DEF TypeOK
  <2> QED BY <1>0, <1>1, <2>2 DEF FeedInv
<1>3. handled' = Append(handled, Channels + n) /\ Len(handled') = n
  <2>1. Elements(Reply(head)) = IF Pattern THEN 4 ELSE 3
    BY <1>1, <1>2 DEF Elements, IsAck
  <2>2. handled' = Append(handled, Reply(head))
    BY <1>0, <2>1 DEF Handle
  <2> QED BY <1>0, <1>1, <2>2 DEF TypeOK
<1>4. known' = (IF m = Other THEN known ELSE m) /\ m \in Addresses \cup {Foreign, Other}
  <2>1. Reply(head) - Channels = n
    BY <1>1
  <2>2. m \in Addresses \cup {Foreign, Other}
    BY <1>0, <1>2 DEF SentinelTypeOK
  <2> QED BY <2>1, <2>2 DEF Event
<1>5. SentinelTypeOK' /\ CallInv' /\ OwedInv' /\ AnswerIsCurrent'
  <2>1. known' \in Addresses \cup {NoNode, Empty, Foreign}
    BY <1>0, <1>4 DEF SentinelTypeOK
  <2> QED BY <1>0, <2>1, ThreadLeaves DEF SentinelTypeOK, world
<1> HIDE DEF n
<1>6. FeedInv'
  BY <1>0, <1>2, <1>3 DEF FeedInv, world
<1>7. NewsInv'
  <2>1. SUFFICES ASSUME sent >= Channels, ~behind, ~closed, known' # Foreign
                 PROVE  known' = truth \/ \E i \in n + 1 .. Len(news) : news[i] = truth
    BY <1>0, <1>3 DEF NewsInv, world
  <2>2. CASE m = Other
    <3>1. truth # Other
      BY <1>0 DEF SentinelTypeOK, Addresses, Other
    <3>2. known = truth \/ \E i \in n .. Len(news) : news[i] = truth
      BY <1>0, <1>4, <2>1, <2>2 DEF NewsInv, n
    <3> QED BY <1>2, <1>4, <2>2, <3>1, <3>2
  <2>3. CASE m \in Addresses
    <3>1. m # Other
      BY <2>3 DEF Addresses, Other
    <3>2. m = truth \/ \E j \in n + 1 .. Len(news) : news[j] = truth
      BY <1>0, <1>2, <2>1, <2>3 DEF FeedInv, SentinelTypeOK
    <3> QED BY <1>4, <3>1, <3>2
  <2>4. m # Foreign
    BY <1>4, <2>1 DEF Foreign, Other
  <2> QED BY <1>4, <2>2, <2>3, <2>4
<1> QED BY <1>5, <1>6, <1>7

LEMMA ReadsStep ==
    ASSUME SentinelInv, IInv', Reads
    PROVE  SentinelTypeOK' /\ CallInv' /\ OwedInv' /\ AnswerIsCurrent' /\ FeedInv' /\ NewsInv'
<1>1. Work /\ UNCHANGED <<client, world>> /\ SentinelTypeOK
  BY DEF Reads, Work, SentinelInv
<1>2. UNCHANGED <<sent, closed, handled>>
  BY DEF Reads, Receive, ReceiveLate, TimesOut, ReadsEnd, RestNext, Acknowledged,
         Enter, Loop, Drain, stream
<1>3. FeedInv' /\ NewsInv'
  BY <1>1, <1>2, SameFeed DEF client
<1>4. SentinelTypeOK' /\ CallInv' /\ OwedInv' /\ AnswerIsCurrent'
  BY <1>1, ThreadLeaves DEF client, world, SentinelTypeOK
<1> QED BY <1>3, <1>4

-----------------------------------------------------------------------------
(* The sentinels and the network. *)

LEMMA SwitchStep ==
    ASSUME SentinelInv, IInv', Switch
    PROVE  SentinelTypeOK' /\ CallInv' /\ OwedInv' /\ AnswerIsCurrent' /\ FeedInv' /\ NewsInv'
<1>0. /\ SentinelTypeOK /\ FeedInv /\ truth' = truth + 1 /\ truth' \in Addresses /\ truth \in Nat
      /\ UNCHANGED <<client, behind, pc, handled, closed>>
  BY SentinelAssumption DEF SentinelInv, Switch, SentinelTypeOK, Addresses, Publish, vars
<1>9. truth' >= truth /\ behind' \in BOOLEAN
  <2>1. behind' \in BOOLEAN
    BY <1>0, Zenon DEF SentinelTypeOK
  <2> QED BY <1>0, <2>1
<1>1. CASE sent >= Channels /\ ~closed
  <2>1. Publish /\ news' = Append(news, truth')
    BY <1>1 DEF Switch
  <2>2. /\ Len(news') = Len(news) + 1 /\ Len(news') <= MaxEvents
        /\ news' \in Seq(Addresses \cup {Foreign, Other})
        /\ news'[Len(news')] = truth' /\ Len(news) \in Nat
    <3>1. /\ news \in Seq(Addresses \cup {Foreign, Other})
          /\ truth' \in Addresses \cup {Foreign, Other}
      BY <1>0 DEF SentinelTypeOK
    <3>2. Len(news) < MaxEvents
      BY <1>0, <1>1, <2>1 DEF SentinelTypeOK, FeedInv, Publish, TypeOK
    <3> QED BY <2>1, <3>1, <3>2
  <2>3. SentinelTypeOK' /\ CallInv' /\ OwedInv' /\ AnswerIsCurrent'
    BY <1>0, <1>9, <2>2, SameClient
  <2>4. FeedInv'
    <3>1. sent' = sent + 1 /\ sent \in Nat
      BY <1>0, <2>1 DEF Publish, SentinelTypeOK, TypeOK
    <3>2. ASSUME NEW i \in DOMAIN news' PROVE news'[i] = truth' \/ \E j \in i + 1 .. Len(news') : news'[j] = truth'
      BY <2>2
    <3>3. Len(handled) <= Len(news)
      BY <1>0 DEF FeedInv
    <3>4. Len(handled) \in Nat
      BY <1>0 DEF SentinelTypeOK, TypeOK
    <3> QED BY <1>0, <1>1, <2>2, <3>1, <3>2, <3>3, <3>4 DEF FeedInv
  <2>5. NewsInv'
    <3>1. Len(handled) \in Nat /\ Len(handled) <= Len(news) /\ handled' = handled
      BY <1>0 DEF FeedInv, SentinelTypeOK, TypeOK
    <3> QED BY <2>2, <3>1 DEF NewsInv
  <2> QED BY <2>3, <2>4, <2>5
<1>2. CASE ~(sent >= Channels /\ ~closed)
  <2>1. UNCHANGED <<sent, news>>
    BY <1>2 DEF Switch, vars, stream
  <2>2. SentinelTypeOK' /\ CallInv' /\ OwedInv' /\ AnswerIsCurrent'
    <3>1. news' \in Seq(Addresses \cup {Foreign, Other}) /\ Len(news') <= MaxEvents
      BY <1>0, <2>1 DEF SentinelTypeOK
    <3> QED BY <1>0, <1>9, <3>1, SameClient
  <2>3. FeedInv' /\ NewsInv'
    BY <1>0, <1>2, <2>1 DEF FeedInv, NewsInv
  <2> QED BY <2>2, <2>3
<1> QED BY <1>1, <1>2

LEMMA MessageStep ==
    ASSUME SentinelInv, IInv', Message
    PROVE  SentinelTypeOK' /\ CallInv' /\ OwedInv' /\ AnswerIsCurrent' /\ FeedInv' /\ NewsInv'
<1>1. PICK m \in {Other, Foreign} : news' = Append(news, m)
  BY DEF Message
<1>0. /\ SentinelTypeOK /\ FeedInv /\ NewsInv /\ Publish
      /\ UNCHANGED <<client, truth, behind, pc, handled, closed>>
      /\ sent' = sent + 1 /\ sent \in Nat /\ sent >= Channels
  BY DEF SentinelInv, Message, SentinelTypeOK, TypeOK, Publish
<1>2. /\ Len(news') = Len(news) + 1 /\ Len(news') <= MaxEvents
      /\ news' \in Seq(Addresses \cup {Foreign, Other})
      /\ news'[Len(news')] \notin Addresses
      /\ \A i \in 1 .. Len(news) : news'[i] = news[i]
      /\ Len(news) \in Nat
  BY <1>0, <1>1 DEF SentinelTypeOK, FeedInv, Publish, TypeOK, Addresses, Other, Foreign
<1>3. SentinelTypeOK' /\ CallInv' /\ OwedInv' /\ AnswerIsCurrent'
  <2>1. truth' \in Addresses /\ truth' >= truth
    BY <1>0 DEF SentinelTypeOK, Addresses
  <2>2. behind' \in BOOLEAN
    BY <1>0, Zenon DEF SentinelTypeOK
  <2> QED BY <1>0, <1>2, <2>1, <2>2, SameClient
<1>4. Len(handled) \in Nat /\ Len(handled) <= Len(news) /\ handled' = handled /\ known' = known
  BY <1>0 DEF FeedInv, SentinelTypeOK, TypeOK, client
<1>5. FeedInv'
  <2>1. ASSUME ~closed, NEW i \in DOMAIN news', news'[i] \in Addresses
        PROVE  news'[i] = truth \/ \E j \in i + 1 .. Len(news') : news'[j] = truth
    <3>1. i \in 1 .. Len(news) /\ news[i] \in Addresses /\ news'[i] = news[i] /\ i \in DOMAIN news
      BY <1>0, <1>2, <2>1 DEF SentinelTypeOK
    <3>2. news[i] = truth \/ \E j \in i + 1 .. Len(news) : news[j] = truth
      BY <1>0, <2>1, <3>1 DEF FeedInv
    <3> QED BY <1>2, <3>1, <3>2
  <2>2. Len(news) = sent - Channels
    BY <1>0 DEF FeedInv
  <2> QED BY <1>0, <1>2, <1>4, <2>1, <2>2 DEF FeedInv
<1>6. NewsInv'
  BY <1>0, <1>2, <1>4 DEF NewsInv
<1> QED BY <1>3, <1>5, <1>6

LEMMA OutsideStep ==
    ASSUME SentinelInv, IInv', Outside
    PROVE  SentinelTypeOK' /\ CallInv' /\ OwedInv' /\ AnswerIsCurrent' /\ FeedInv' /\ NewsInv'
<1>0. /\ SentinelTypeOK /\ FeedInv /\ NewsInv
      /\ UNCHANGED <<client, world, pc, handled, sent>> /\ (closed' = closed \/ closed')
  BY DEF SentinelInv, Outside, stop_subscribe_event, Arrive, Close, stream
<1>1. SentinelTypeOK' /\ CallInv' /\ OwedInv' /\ AnswerIsCurrent'
  BY <1>0, SameWorld
<1>2. FeedInv'
  BY <1>0 DEF FeedInv, world
<1>3. NewsInv'
  BY <1>0 DEF NewsInv, world, client
<1> QED BY <1>1, <1>2, <1>3

-----------------------------------------------------------------------------
LEMMA SentinelNextInv == SentinelInv /\ [SentinelNext]_allVars => SentinelInv'
<1> SUFFICES ASSUME SentinelInv, [SentinelNext]_allVars PROVE SentinelInv' OBVIOUS
<1>0. IInv'
  BY StepIsStep, NextInv DEF SentinelInv
<1> DEFINE Goal == SentinelTypeOK' /\ CallInv' /\ OwedInv' /\ AnswerIsCurrent' /\ FeedInv' /\ NewsInv'
<1>1. ASSUME check \/ NodeRefuses \/ NodeConnects PROVE Goal
  BY <1>1, CheckSteps
<1>2. ASSUME NEW o \in {"list", "addr"}, Begin(o) PROVE Goal
  BY <1>2, BeginStep
<1>3. ASSUME NoReply \/ ListReply \/ AddrReply PROVE Goal
  BY <1>3, QuerySteps
<1>4. ASSUME Subscribe PROVE Goal
  BY <1>0, <1>4, SubscribeStep
<1>5. ASSUME Receiver PROVE Goal
  BY <1>0, <1>5, PingSteps, PSubscribeStep, EventStep, ReadsStep DEF Receiver
<1>6. ASSUME Switch PROVE Goal
  BY <1>0, <1>6, SwitchStep
<1>7. ASSUME Message PROVE Goal
  BY <1>0, <1>7, MessageStep
<1>8. ASSUME Outside PROVE Goal
  BY <1>0, <1>8, OutsideStep
<1>9. ASSUME UNCHANGED allVars PROVE Goal
  <2>1. UNCHANGED <<vars, client, world>>
    BY <1>9 DEF allVars
  <2>2. SentinelTypeOK' /\ CallInv' /\ OwedInv' /\ AnswerIsCurrent'
    BY <1>0, <2>1, SameWorld DEF vars
  <2>3. FeedInv' /\ NewsInv'
    BY <2>1, SameFeed DEF vars, stream, client
  <2> QED BY <2>2, <2>3
<1>10. Goal
  BY <1>1, <1>2, <1>3, <1>4, <1>5, <1>6, <1>7, <1>8, <1>9 DEF SentinelNext
<1> QED BY <1>0, <1>10 DEF SentinelInv

THEOREM SentinelSpecInv == SentinelSpec => []SentinelInv
BY SentinelInitInv, SentinelNextInv, PTL DEF SentinelSpec

(* The client is what its declarations say: every connection queries one of  *)
(* the nodes, every reply is of a kind a sentinel sends.                     *)
THEOREM SentinelTypeCorrect == SentinelSpec => []SentinelTypeOK
<1>1. SentinelInv => SentinelTypeOK
  BY DEF SentinelInv
<1> QED BY <1>1, SentinelSpecInv, PTL

(* The address the first get_master_by_name after check() returns is not     *)
(* older than the call, whatever came late to the calls before.              *)
THEOREM AnswerCurrent == SentinelSpec => []AnswerIsCurrent
<1>1. SentinelInv => AnswerIsCurrent
  BY DEF SentinelInv
<1> QED BY <1>1, SentinelSpecInv, PTL

(* Where the thread is, a message without a callback is ahead of it. *)
LEMMA NotHandledIsAhead ==
    ASSUME SentinelInv, Attends, NEW i \in Len(handled) + 1 .. Len(news)
    PROVE  i \in DOMAIN news /\ Ahead(i)
<1>1. TypeOK /\ PlaceInv /\ Len(news) \in Nat /\ Len(handled) \in Nat /\ DOMAIN news = 1 .. Len(news)
  BY DEF SentinelInv, IInv, SentinelTypeOK, TypeOK
<1>2. i \in DOMAIN news /\ i \in Nat /\ i > Len(handled)
  BY <1>1
<1>3. CASE pc = "handle"
  <2>1. head = 2 * (Channels + Len(handled) + 1)
    BY <1>1, <1>3 DEF PlaceInv
  <2>2. Reply(head) = Channels + Len(handled) + 1
    BY <1>1, <2>1 DEF Reply
  <2> QED BY <1>1, <1>2, <1>3, <2>1, <2>2 DEF Ahead
<1>4. CASE pc \in {"enter", "loop", "wait", "drain"}
  <2>1. head = 2 * (Channels + Len(handled))
    BY <1>1, <1>4 DEF PlaceInv
  <2> QED BY <1>1, <1>2, <2>1 DEF Ahead
<1> QED BY <1>2, <1>3, <1>4 DEF Attends, Receiving

(* A client that subscribed with the right address knows the master's, or a  *)
(* message that names it is ahead of its thread, which will come to it,      *)
(* while the connection is open.                                             *)
THEOREM MasterKnown == SentinelSpec => []KnowsMaster
<1>1. SentinelInv => KnowsMaster
  <2> SUFFICES ASSUME SentinelInv, Attends, ~behind, ~closed, known # Foreign, known # truth
               PROVE  \E i \in DOMAIN news : Ahead(i) /\ news[i] = truth
    BY DEF KnowsMaster
  <2>1. sent >= Channels
    <3>1. pc # "idle" /\ head >= 2 * Channels /\ head <= 2 * sent
      BY DEF SentinelInv, IInv, TypeOK, PlaceInv, Attends, Receiving
    <3> QED BY <3>1 DEF SentinelInv, IInv, TypeOK
  <2>2. PICK i \in Len(handled) + 1 .. Len(news) : news[i] = truth
    BY <2>1 DEF SentinelInv, NewsInv
  <2> QED BY <2>2, NotHandledIsAhead
<1> QED BY <1>1, SentinelSpecInv, PTL

(* The calls of the client and its sentinels are a way to run the Subscriber *)
(* module: what is proved of its specification holds of the sentinel client. *)
THEOREM SentinelRunsSubscriber == SentinelSpec => Spec
<1>1. SentinelInit => Init
  BY DEF SentinelInit
<1> QED BY <1>1, StepIsStep, PTL DEF SentinelSpec, Spec

=============================================================================
