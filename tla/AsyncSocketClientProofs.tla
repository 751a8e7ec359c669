----------------------- MODULE AsyncSocketClientProofs -----------------------
(***************************************************************************)
(* Descriptors and the write loop, for every number of threads, of         *)
(* descriptors and of sockets, and every length of a command.              *)
(***************************************************************************)
EXTENDS AsyncSocketClient, SequenceTheorems, TLAPS

USE BoundsAssumption, SizeAssumption, NoneAssumption

(* NothingLeaks, with the connection: a client that holds the number of a    *)
(* socket it opened, and did not abandon, opened it last.                    *)
HeldInv ==
    \A n \in Fds :
        \/ table[n] = None \/ table[n] \in abandoned
        \/ \E t \in Threads : afd[t] = n /\ table[n] = Own(t)

(* What a command has put on its socket, while it is written and after.  On  *)
(* a broken connection the count goes down and nothing more is put.          *)
Sent(t) == \E i \in {0, -1} : put[t] = Bytes(i, count[t] - 1)

PutInv ==
    ~closed => \A t \in Threads :
        /\ pc[t] # "loop" => Sent(t)
        /\ pc[t] = "loop" =>
              \/ Sent(t) /\ count[t] \in -1 .. Size - 1
              \/ afd[t] # 0 /\ Own(t) \in broken

(* A connect has a socket, and the first write starts from nothing.          *)
PcInv ==
    \A t \in Threads :
        /\ pc[t] = "connect" => opens[t] # 0
        /\ pc[t] = "first" => count[t] = 0 /\ put[t] = <<>>

IInv == TypeOK /\ PcInv /\ HeldInv /\ OwnDescriptor /\ PutInv

-----------------------------------------------------------------------------
(* Bytes of a command. *)

LEMMA BytesType ==
    ASSUME NEW i \in Int, NEW j \in Int
    PROVE  Bytes(i, j) \in Seq(Int)
<1> DEFINE n == IF j - i + 1 > 0 THEN j - i + 1 ELSE 0
<1>1. n \in Nat /\ 1 .. j - i + 1 = 1 .. n
  OBVIOUS
<1>2. Bytes(i, j) \in [1 .. n -> Int]
  BY <1>1 DEF Bytes
<1> QED BY <1>1, <1>2

(* No bytes, and one run behind another. *)
LEMMA NoBytes ==
    /\ Bytes(0, -1) = <<>> /\ Bytes(-1, -2) = <<>> /\ Bytes(0, -2) = <<>>
BY DEF Bytes

LEMMA BytesAppend ==
    ASSUME NEW i \in Int, NEW c \in Int, NEW k \in Nat, i <= c, k >= 1
    PROVE  Bytes(i, c - 1) \o Bytes(c, c + k - 1) = Bytes(i, c + k - 1)
<1> DEFINE a == Bytes(i, c - 1)
           b == Bytes(c, c + k - 1)
           r == Bytes(i, c + k - 1)
<1>1. /\ a \in Seq(Int) /\ Len(a) = c - i /\ \A x \in 1 .. c - i : a[x] = i + x - 1
  BY BytesType DEF Bytes
<1>2. /\ b \in Seq(Int) /\ Len(b) = k /\ \A x \in 1 .. k : b[x] = c + x - 1
  BY BytesType DEF Bytes
<1>3. /\ r \in Seq(Int) /\ Len(r) = c - i + k /\ \A x \in 1 .. c - i + k : r[x] = i + x - 1
  BY BytesType DEF Bytes
<1> HIDE DEF a, b, r
<1>4. /\ a \o b \in Seq(Int) /\ Len(a \o b) = c - i + k
      /\ \A x \in 1 .. c - i + k : (a \o b)[x] = IF x <= c - i THEN a[x] ELSE b[x - (c - i)]
  BY <1>1, <1>2, ConcatProperties
<1>5. ASSUME NEW x \in 1 .. c - i + k PROVE (a \o b)[x] = r[x]
  <2>1. CASE x <= c - i
    <3>1. x \in 1 .. c - i
      BY <2>1
    <3>2. (a \o b)[x] = a[x] /\ a[x] = i + x - 1 /\ r[x] = i + x - 1
      BY <1>1, <1>3, <1>4, <2>1, <3>1
    <3> QED BY <3>2
  <2>2. CASE ~(x <= c - i)
    <3>1. x - (c - i) \in 1 .. k
      BY <2>2
    <3>2. (a \o b)[x] = b[x - (c - i)] /\ b[x - (c - i)] = c + (x - (c - i)) - 1
      BY <1>2, <1>4, <2>2, <3>1
    <3>3. r[x] = i + x - 1
      BY <1>3
    <3> QED BY <3>2, <3>3
  <2> QED BY <2>1, <2>2
<1>6. a \o b = r
  BY <1>3, <1>4, <1>5, SeqEqual
<1> QED BY <1>6 DEF a, b, r

-----------------------------------------------------------------------------
(* The helpers of the steps. *)

LEMMA OwnFact ==
    ASSUME TypeOK, NEW t \in Threads
    PROVE  /\ Own(t) # None /\ Own(t)[1] = t
           /\ \A u \in Threads : Own(u) = Own(t) => u = t
BY DEF TypeOK, Own

LEMMA CloseFact ==
    ASSUME TypeOK, NEW n \in 0 .. MaxFd, Close(n)
    PROVE  /\ table' \in [Fds -> Connections \cup {None}] /\ broken' \in SUBSET Connections
           /\ \A m \in Fds : table'[m] = IF m = n THEN None ELSE table[m]
           /\ \A c \in broken : n = 0 \/ c # table[n] => c \in broken'
<1>1. table \in [Fds -> Connections \cup {None}] /\ broken \in SUBSET Connections
  BY DEF TypeOK
<1>2. CASE n = 0
  <2>1. table' = table /\ broken' = broken /\ n \notin Fds
    BY <1>2 DEF Close, kernel, Fds
  <2> QED BY <1>1, <1>2, <2>1
<1>3. CASE n # 0
  <2>1. table' = [table EXCEPT ![n] = None] /\ broken' = broken \ {table[n]}
    BY <1>3 DEF Close
  <2> QED BY <1>1, <1>3, <2>1
<1> QED BY <1>2, <1>3

LEMMA GotoFact ==
    ASSUME TypeOK, NEW t \in Threads, NEW p, Goto(t, p)
    PROVE  /\ p \in {"idle", "open", "connect", "first", "loop"}
                => pc' \in [Threads -> {"idle", "open", "connect", "first", "loop"}]
           /\ pc'[t] = p /\ \A u \in Threads \ {t} : pc'[u] = pc[u]
BY DEF Goto, TypeOK

LEMMA EnterFact ==
    ASSUME TypeOK, NEW t \in Threads, Enter(t)
    PROVE  /\ count' \in [Threads -> -MaxErrors .. Size] /\ put' \in [Threads -> Seq(Int)]
           /\ count'[t] = 0 /\ put'[t] = <<>>
           /\ \A u \in Threads \ {t} : count'[u] = count[u] /\ put'[u] = put[u]
<1>1. count' \in [Threads -> -MaxErrors .. Size]
  BY DEF Enter, TypeOK
<1>2. <<>> \in Seq(Int)
  OBVIOUS
<1>3. put' \in [Threads -> Seq(Int)]
  BY <1>2 DEF Enter, TypeOK
<1> QED BY <1>1, <1>3 DEF Enter, TypeOK

LEMMA WrittenFact ==
    ASSUME TypeOK, NEW t \in Threads, NEW k \in 1 .. Size - count[t], Written(t, k)
    PROVE  /\ count' \in [Threads -> -MaxErrors .. Size] /\ put' \in [Threads -> Seq(Int)]
           /\ count'[t] = count[t] + k
           /\ put'[t] = put[t] \o Bytes(count[t], count[t] + k - 1)
           /\ pc'[t] = IF count[t] + k = Size THEN "idle" ELSE "loop"
           /\ pc' \in [Threads -> {"idle", "open", "connect", "first", "loop"}]
           /\ \A u \in Threads \ {t} :
                 count'[u] = count[u] /\ put'[u] = put[u] /\ pc'[u] = pc[u]
           /\ UNCHANGED <<kernel, client, history>>
<1>1. count[t] \in -MaxErrors .. Size /\ k \in Nat /\ count[t] + k \in -MaxErrors .. Size
  BY DEF TypeOK
<1>2. count' \in [Threads -> -MaxErrors .. Size] /\ count'[t] = count[t] + k
  BY <1>1 DEF Written, TypeOK
<1>3. Bytes(count[t], count[t] + k - 1) \in Seq(Int)
  <2>1. count[t] \in Int /\ count[t] + k - 1 \in Int
    BY <1>1
  <2> QED BY <2>1, BytesType
<1>4. put[t] \o Bytes(count[t], count[t] + k - 1) \in Seq(Int)
  BY <1>3, ConcatProperties DEF TypeOK
<1>5. put' \in [Threads -> Seq(Int)] /\ put'[t] = put[t] \o Bytes(count[t], count[t] + k - 1)
  BY <1>4 DEF Written, TypeOK
<1>6. /\ pc'[t] = IF count[t] + k = Size THEN "idle" ELSE "loop"
      /\ pc' \in [Threads -> {"idle", "open", "connect", "first", "loop"}]
  BY DEF Written, Goto, TypeOK
<1>7. \A u \in Threads \ {t} : count'[u] = count[u] /\ put'[u] = put[u] /\ pc'[u] = pc[u]
  BY DEF Written, Goto, TypeOK
<1>8. UNCHANGED <<kernel, client, history>>
  BY DEF Written
<1> QED BY <1>2, <1>5, <1>6, <1>7, <1>8

-----------------------------------------------------------------------------
(* Types, and the start of a command. *)

LEMMA TypeStep ==
    ASSUME TypeOK, PcInv, [Next]_vars
    PROVE  TypeOK' /\ PcInv'
<1> DEFINE Pcs == {"idle", "open", "connect", "first", "loop"}
<1>1. ASSUME NEW t \in Threads, NewClient(t)
      PROVE  TypeOK' /\ PcInv'
  <2>1. afd[t] \in 0 .. MaxFd
    BY DEF TypeOK
  <2>2. table' \in [Fds -> Connections \cup {None}] /\ broken' \in SUBSET Connections
    BY <1>1, <2>1, CloseFact DEF NewClient
  <2>3. afd' \in [Threads -> 0 .. MaxFd] /\ rfd' \in [Threads -> 0 .. MaxFd]
    BY <1>1 DEF NewClient, TypeOK
  <2> QED BY <1>1, <2>2, <2>3, EnterFact DEF NewClient, TypeOK, PcInv, history
<1>2. ASSUME NEW t \in Threads, connect(t)
      PROVE  TypeOK' /\ PcInv'
  <2>1. pc' \in [Threads -> Pcs] /\ pc'[t] = "open" /\ \A u \in Threads \ {t} : pc'[u] = pc[u]
    BY <1>2, GotoFact DEF connect
  <2> QED BY <1>2, <2>1, EnterFact DEF connect, TypeOK, PcInv, kernel, client, history
<1>3. ASSUME NEW t \in Threads, reconnect(t)
      PROVE  TypeOK' /\ PcInv'
  <2>1. afd[t] \in 0 .. MaxFd
    BY DEF TypeOK
  <2>2. table' \in [Fds -> Connections \cup {None}] /\ broken' \in SUBSET Connections
    BY <1>3, <2>1, CloseFact DEF reconnect
  <2>3. afd' \in [Threads -> 0 .. MaxFd]
    BY <1>3 DEF reconnect, TypeOK
  <2>4. pc' \in [Threads -> Pcs] /\ pc'[t] = "open" /\ \A u \in Threads \ {t} : pc'[u] = pc[u]
    BY <1>3, GotoFact DEF reconnect
  <2> QED BY <1>3, <2>2, <2>3, <2>4, EnterFact DEF reconnect, TypeOK, PcInv, history
<1>4. ASSUME NEW t \in Threads, Socket(t)
      PROVE  TypeOK' /\ PcInv'
  <2>1. opens[t] + 1 \in 1 .. MaxOpens /\ opens' \in [Threads -> 0 .. MaxOpens]
    BY <1>4 DEF Socket, TypeOK
  <2>2. PICK n \in Fds : /\ table' = [table EXCEPT ![n] = <<t, opens[t] + 1>>]
                         /\ afd' = [afd EXCEPT ![t] = n]
    BY <1>4 DEF Socket
  <2>3. <<t, opens[t] + 1>> \in Connections
    BY <2>1 DEF Connections
  <2>4. table' \in [Fds -> Connections \cup {None}] /\ afd' \in [Threads -> 0 .. MaxFd]
    BY <2>2, <2>3 DEF TypeOK, Fds
  <2>5. abandoned' \in SUBSET Connections
    <3>1. afd[t] # 0 => afd[t] \in Fds /\ table[afd[t]] \in Connections \cup {None}
      BY DEF TypeOK, Fds
    <3>2. \A c \in abandoned' : c \in abandoned \/ (c = Own(t) /\ afd[t] # 0 /\ table[afd[t]] = c)
      BY <1>4 DEF Socket
    <3> QED BY <3>1, <3>2, OwnFact DEF TypeOK
  <2>6. pc' \in [Threads -> Pcs] /\ pc'[t] = "connect" /\ \A u \in Threads \ {t} : pc'[u] = pc[u]
    BY <1>4, GotoFact DEF Socket
  <2> QED BY <1>4, <2>1, <2>4, <2>5, <2>6 DEF Socket, TypeOK, PcInv, write
<1>5. ASSUME NEW t \in Threads, SocketFails(t)
      PROVE  TypeOK' /\ PcInv'
  BY <1>5, GotoFact DEF SocketFails, TypeOK, PcInv, kernel, client, write, history
<1>6. ASSUME NEW t \in Threads, ConnectOk(t)
      PROVE  TypeOK' /\ PcInv'
  <2>1. connected' \in [Threads -> BOOLEAN] /\ rfd' \in [Threads -> 0 .. MaxFd]
    BY <1>6 DEF ConnectOk, TypeOK
  <2> QED BY <1>6, <2>1, GotoFact DEF ConnectOk, TypeOK, PcInv, kernel, write, history
<1>7. ASSUME NEW t \in Threads, ConnectFails(t)
      PROVE  TypeOK' /\ PcInv'
  <2>1. broken' \in SUBSET Connections
    <3>1. CASE broken' = broken
      BY <3>1 DEF TypeOK
    <3>2. CASE broken' = broken \cup {Own(t)}
      <4>1. opens[t] # 0
        BY <1>7 DEF ConnectFails, PcInv
      <4> QED BY <3>2, <4>1 DEF TypeOK, Own, Connections
    <3> QED BY <1>7, <3>1, <3>2 DEF ConnectFails
  <2> QED BY <1>7, <2>1, GotoFact DEF ConnectFails, TypeOK, PcInv, client, write, history
<1>8. ASSUME NEW t \in Threads, close(t)
      PROVE  TypeOK' /\ PcInv'
  <2>1. rfd[t] \in 0 .. MaxFd
    BY DEF TypeOK
  <2>2. table' \in [Fds -> Connections \cup {None}] /\ broken' \in SUBSET Connections
    BY <1>8, <2>1, CloseFact DEF close
  <2>3. rfd' \in [Threads -> 0 .. MaxFd] /\ connected' \in [Threads -> BOOLEAN]
    BY <1>8 DEF close, TypeOK
  <2> QED BY <1>8, <2>2, <2>3, EnterFact DEF close, TypeOK, PcInv
<1>9. ASSUME NEW t \in Threads, command(t)
      PROVE  TypeOK' /\ PcInv'
  <2>1. pc' \in [Threads -> Pcs] /\ pc'[t] = "first" /\ \A u \in Threads \ {t} : pc'[u] = pc[u]
    BY <1>9, GotoFact DEF command
  <2> QED BY <1>9, <2>1, EnterFact DEF command, TypeOK, PcInv, kernel, client, history
<1>10. ASSUME NEW t \in Threads, FirstWrite(t) \/ WriteMore(t)
       PROVE  TypeOK' /\ PcInv'
  <2>1. PICK k \in 1 .. Size - count[t] : Written(t, k)
    <3>1. CASE FirstWrite(t)
      <4>1. count[t] = 0
        BY <3>1 DEF FirstWrite, PcInv
      <4> QED BY <3>1, <4>1 DEF FirstWrite
    <3>2. CASE WriteMore(t)
      BY <3>2 DEF WriteMore
    <3> QED BY <1>10, <3>1, <3>2
  <2> QED BY <2>1, WrittenFact DEF TypeOK, PcInv, kernel, client, history
<1>11. ASSUME NEW t \in Threads, FirstWriteFails(t)
       PROVE  TypeOK' /\ PcInv'
  <2>1. count' \in [Threads -> -MaxErrors .. Size] /\ \A u \in Threads \ {t} : count'[u] = count[u]
    BY <1>11 DEF FirstWriteFails, TypeOK
  <2> QED BY <1>11, <2>1, GotoFact DEF FirstWriteFails, TypeOK, PcInv, kernel, client, history
<1>12. ASSUME NEW t \in Threads, SelectTimesOut(t)
       PROVE  TypeOK' /\ PcInv'
  BY <1>12, GotoFact DEF SelectTimesOut, TypeOK, PcInv, kernel, client, write, history
<1>13. ASSUME NEW t \in Threads, WriteFails(t)
       PROVE  TypeOK' /\ PcInv'
  <2>1. count' \in [Threads -> -MaxErrors .. Size] /\ \A u \in Threads \ {t} : count'[u] = count[u]
    BY <1>13 DEF WriteFails, TypeOK
  <2> QED BY <1>13, <2>1 DEF WriteFails, TypeOK, PcInv, kernel, client, history
<1>14. ASSUME NEW n \in Fds, Break(n)
       PROVE  TypeOK' /\ PcInv'
  <2>1. table[n] \in Connections
    BY <1>14 DEF Break, Up, TypeOK
  <2> QED BY <1>14, <2>1 DEF Break, TypeOK, PcInv, client, write, history
<1>15. CASE UNCHANGED vars
  BY <1>15 DEF vars, TypeOK, PcInv, kernel, client, write, history
<1> QED BY <1>1, <1>2, <1>3, <1>4, <1>5, <1>6, <1>7, <1>8, <1>9, <1>10, <1>11, <1>12, <1>13, <1>14, <1>15
        DEF Next, Call, Alone, Served
-----------------------------------------------------------------------------
(* Sockets and their holders. *)

LEMMA HeldStep ==
    ASSUME TypeOK, HeldInv, [Next]_vars
    PROVE  HeldInv'
<1>1. ASSUME NEW t \in Threads, NewClient(t) \/ reconnect(t)
      PROVE  HeldInv'
  <2>1. /\ \A m \in Fds : table'[m] = IF m = afd[t] THEN None ELSE table[m]
        /\ afd' = [afd EXCEPT ![t] = 0] /\ UNCHANGED <<opens, abandoned>>
    <3>1. afd[t] \in 0 .. MaxFd
      BY DEF TypeOK
    <3> QED BY <1>1, <3>1, CloseFact DEF NewClient, reconnect, history
  <2> QED BY <2>1 DEF HeldInv, TypeOK, Own
<1>2. ASSUME NEW t \in Threads, Socket(t)
      PROVE  HeldInv'
  <2>1. PICK n \in Fds : /\ table' = [table EXCEPT ![n] = <<t, opens[t] + 1>>]
                         /\ afd' = [afd EXCEPT ![t] = n]
    BY <1>2 DEF Socket
  <2>2. /\ opens' = [opens EXCEPT ![t] = @ + 1]
        /\ abandoned' = abandoned \cup {c \in {Own(t)} : afd[t] # 0 /\ table[afd[t]] = c}
    BY <1>2 DEF Socket
  <2>3. n # 0
    BY DEF Fds
  <2>4. ASSUME NEW m \in Fds
        PROVE  \/ table'[m] = None \/ table'[m] \in abandoned'
               \/ \E u \in Threads : afd'[u] = m /\ table'[m] = Own(u)'
    <3>1. CASE m = n
      <4>1. afd'[t] = m /\ table'[m] = Own(t)'
        BY <2>1, <2>2, <3>1 DEF TypeOK, Own
      <4> QED BY <4>1
    <3>2. CASE m # n
      <4>1. table'[m] = table[m]
        BY <2>1, <3>2 DEF TypeOK
      <4>2. ASSUME NEW u \in Threads, afd[u] = m, table[m] = Own(u)
            PROVE  table'[m] \in abandoned' \/ (afd'[u] = m /\ table'[m] = Own(u)')
        <5>1. CASE u = t
          BY <2>2, <4>1, <4>2, <5>1 DEF Fds
        <5>2. CASE u # t
          BY <2>1, <2>2, <4>1, <4>2, <5>2 DEF TypeOK, Own
        <5> QED BY <5>1, <5>2
      <4> QED BY <2>2, <4>1, <4>2 DEF HeldInv
    <3> QED BY <3>1, <3>2
  <2> QED BY <2>4 DEF HeldInv
<1>3. ASSUME NEW t \in Threads, close(t)
      PROVE  HeldInv'
  <2>1. /\ \A m \in Fds : table'[m] = IF m = rfd[t] THEN None ELSE table[m]
        /\ UNCHANGED <<opens, afd, abandoned>>
    <3>1. rfd[t] \in 0 .. MaxFd
      BY DEF TypeOK
    <3> QED BY <1>3, <3>1, CloseFact DEF close
  <2> QED BY <2>1 DEF HeldInv, Own
<1>4. CASE UNCHANGED <<table, opens, afd, abandoned>>
  BY <1>4 DEF HeldInv, Own
<1> QED BY <1>1, <1>2, <1>3, <1>4
        DEF Next, Call, Alone, Served, connect, SocketFails, ConnectOk, ConnectFails, command, FirstWrite,
            FirstWriteFails, WriteMore, Written, SelectTimesOut, WriteFails, Break,
            vars, kernel, client, history

LEMMA OwnStep ==
    ASSUME TypeOK, OwnDescriptor, [Next]_vars
    PROVE  OwnDescriptor'
<1>1. ASSUME NEW t \in Threads, NewClient(t) \/ reconnect(t)
      PROVE  OwnDescriptor'
  <2>1. /\ \A m \in Fds : table'[m] = IF m = afd[t] THEN None ELSE table[m]
        /\ afd' = [afd EXCEPT ![t] = 0] /\ UNCHANGED <<opens, closed>>
    <3>1. afd[t] \in 0 .. MaxFd
      BY DEF TypeOK
    <3> QED BY <1>1, <3>1, CloseFact DEF NewClient, reconnect, history
  <2>2. ASSUME ~closed, NEW u \in Threads, u # t, afd[u] # 0
        PROVE  table'[afd[u]] = Own(u)
    <3>1. afd[u] \in Fds /\ table[afd[u]] = Own(u)
      BY <2>2 DEF OwnDescriptor, TypeOK, Fds
    <3>2. afd[t] # afd[u]
      BY <2>2, <3>1, OwnFact DEF OwnDescriptor
    <3> QED BY <2>1, <3>1, <3>2
  <2> QED BY <2>1, <2>2 DEF OwnDescriptor, TypeOK, Own
<1>2. ASSUME NEW t \in Threads, Socket(t)
      PROVE  OwnDescriptor'
  <2>1. PICK n \in Fds : /\ table[n] = None
                         /\ table' = [table EXCEPT ![n] = <<t, opens[t] + 1>>]
                         /\ afd' = [afd EXCEPT ![t] = n]
    BY <1>2 DEF Socket
  <2>2. opens' = [opens EXCEPT ![t] = @ + 1] /\ closed' = closed
    BY <1>2 DEF Socket
  <2>3. ASSUME ~closed, NEW u \in Threads, afd'[u] # 0
        PROVE  table'[afd'[u]] = Own(u)'
    <3>1. CASE u = t
      BY <2>1, <2>2, <3>1 DEF TypeOK, Own
    <3>2. CASE u # t
      <4>1. afd'[u] = afd[u] /\ Own(u)' = Own(u)
        BY <2>1, <2>2, <3>2 DEF TypeOK, Own
      <4>2. table[afd[u]] = Own(u) /\ afd[u] # n
        BY <2>1, <2>3, <4>1, OwnFact DEF OwnDescriptor
      <4> QED BY <2>1, <4>1, <4>2 DEF TypeOK, Fds
    <3> QED BY <3>1, <3>2
  <2> QED BY <2>2, <2>3 DEF OwnDescriptor
<1>3. ASSUME NEW t \in Threads, close(t)
      PROVE  OwnDescriptor'
  BY <1>3 DEF close, OwnDescriptor
<1>4. CASE UNCHANGED <<table, opens, afd, closed>>
  BY <1>4 DEF OwnDescriptor, Own
<1> QED BY <1>1, <1>2, <1>3, <1>4
        DEF Next, Call, Alone, Served, connect, SocketFails, ConnectOk, ConnectFails, command, FirstWrite,
            FirstWriteFails, WriteMore, Written, SelectTimesOut, WriteFails, Break,
            vars, kernel, client, history

-----------------------------------------------------------------------------
(* The bytes of a command. *)

(* k more bytes are put on a connection that takes them. *)
LEMMA WrittenSent ==
    ASSUME TypeOK, PcInv, NEW t \in Threads, NEW k \in 1 .. Size - count[t], Written(t, k),
           \/ pc[t] = "first"
           \/ Sent(t) /\ count[t] \in -1 .. Size - 1
    PROVE  Sent(t)' /\ (pc'[t] = "loop" => count'[t] \in -1 .. Size - 1)
<1>1. count[t] \in -1 .. Size - 1 /\ k \in Nat /\ k >= 1 /\ count[t] + k <= Size
  BY DEF PcInv
<1>2. count'[t] = count[t] + k /\ put'[t] = put[t] \o Bytes(count[t], count[t] + k - 1)
  BY WrittenFact
<1>3. pc'[t] = "loop" => count'[t] \in -1 .. Size - 1
  <2>1. pc'[t] = "loop" => count[t] + k # Size
    BY WrittenFact
  <2> QED BY <1>1, <1>2, <2>1
<1>4. PICK i \in {0, -1} : put[t] = Bytes(i, count[t] - 1) /\ i <= count[t]
  <2>1. CASE pc[t] = "first"
    BY <2>1, NoBytes DEF PcInv
  <2>2. CASE Sent(t) /\ count[t] = -1
    <3>1. put[t] = Bytes(-1, -2)
      BY <2>2, NoBytes DEF Sent
    <3> QED BY <2>2, <3>1
  <2>3. CASE Sent(t) /\ count[t] >= 0
    <3>1. PICK i \in {0, -1} : put[t] = Bytes(i, count[t] - 1)
      BY <2>3 DEF Sent
    <3> QED BY <1>1, <2>3, <3>1
  <2> QED BY <1>1, <2>1, <2>2, <2>3
<1>5. put'[t] = Bytes(i, count'[t] - 1)
  <2> DEFINE c == count[t]
  <2>1. c \in Int /\ i \in Int /\ i <= c /\ put[t] = Bytes(i, c - 1)
    BY <1>1, <1>4
  <2> HIDE DEF c
  <2>2. Bytes(i, c - 1) \o Bytes(c, c + k - 1) = Bytes(i, c + k - 1)
    BY <1>1, <2>1, BytesAppend
  <2>3. put'[t] = Bytes(i, c + k - 1)
    BY <1>2, <2>1, <2>2 DEF c
  <2>4. count'[t] - 1 = c + k - 1
    BY <1>1, <1>2, <2>1 DEF c
  <2> QED BY <2>3, <2>4
<1> QED BY <1>3, <1>5 DEF Sent

(* A thread whose own part of the state does not change. *)
LEMMA OtherSent ==
    ASSUME PutInv, ~closed, NEW u \in Threads,
           pc'[u] = pc[u], count'[u] = count[u], put'[u] = put[u], afd'[u] = afd[u], Own(u)' = Own(u),
           afd[u] # 0 /\ Own(u) \in broken => Own(u) \in broken'
    PROVE  /\ pc'[u] # "loop" => Sent(u)'
           /\ pc'[u] = "loop" =>
                 \/ Sent(u)' /\ count'[u] \in -1 .. Size - 1
                 \/ afd'[u] # 0 /\ Own(u)' \in broken'
<1>1. Sent(u)' <=> Sent(u)
  BY DEF Sent
<1> QED BY <1>1 DEF PutInv

LEMMA PutStep ==
    ASSUME TypeOK, PcInv, OwnDescriptor, PutInv, [Next]_vars
    PROVE  PutInv'
<1>1. ASSUME NEW t \in Threads, NewClient(t) \/ reconnect(t)
      PROVE  PutInv'
  <2>1. /\ \A c \in broken : afd[t] = 0 \/ c # table[afd[t]] => c \in broken'
        /\ afd' = [afd EXCEPT ![t] = 0] /\ UNCHANGED <<opens, closed>>
        /\ pc'[t] # "loop" /\ \A u \in Threads \ {t} : pc'[u] = pc[u]
    <3>1. afd[t] \in 0 .. MaxFd
      BY DEF TypeOK
    <3> QED BY <1>1, <3>1, CloseFact, GotoFact DEF NewClient, reconnect, history
  <2>2. /\ count'[t] = 0 /\ put'[t] = <<>>
        /\ \A u \in Threads \ {t} : count'[u] = count[u] /\ put'[u] = put[u]
    BY <1>1, EnterFact DEF NewClient, reconnect
  <2>3. Sent(t)'
    BY <2>2, NoBytes DEF Sent
  <2>4. ASSUME ~closed, NEW u \in Threads \ {t}, afd[u] # 0 /\ Own(u) \in broken
        PROVE  Own(u) \in broken'
    BY <2>1, <2>4, OwnFact DEF OwnDescriptor
  <2>5. \A u \in Threads \ {t} : afd'[u] = afd[u] /\ Own(u)' = Own(u)
    BY <2>1 DEF TypeOK, Own
  <2> QED BY <2>1, <2>2, <2>3, <2>4, <2>5, OtherSent DEF PutInv
<1>2. ASSUME NEW t \in Threads, connect(t) \/ command(t)
      PROVE  PutInv'
  <2>1. /\ count'[t] = 0 /\ put'[t] = <<>>
        /\ \A u \in Threads \ {t} : count'[u] = count[u] /\ put'[u] = put[u]
        /\ pc'[t] # "loop" /\ \A u \in Threads \ {t} : pc'[u] = pc[u]
        /\ UNCHANGED <<kernel, client, history>>
    BY <1>2, EnterFact, GotoFact DEF connect, command
  <2>2. Sent(t)'
    BY <2>1, NoBytes DEF Sent
  <2> QED BY <2>1, <2>2, OtherSent DEF PutInv, kernel, client, history, Own
<1>3. ASSUME NEW t \in Threads, Socket(t)
      PROVE  PutInv'
  <2>1. /\ pc'[t] = "connect" /\ \A u \in Threads \ {t} : pc'[u] = pc[u]
        /\ UNCHANGED <<broken, count, put, closed>>
    BY <1>3, GotoFact DEF Socket, write
  <2>2. \A u \in Threads \ {t} : afd'[u] = afd[u] /\ Own(u)' = Own(u)
    BY <1>3 DEF Socket, TypeOK, Own
  <2>3. ~closed => Sent(t)'
    BY <1>3, <2>1 DEF Socket, PutInv, Sent
  <2> QED BY <2>1, <2>2, <2>3, OtherSent DEF PutInv
<1>4. ASSUME NEW t \in Threads, SocketFails(t) \/ ConnectOk(t) \/ ConnectFails(t)
      PROVE  PutInv'
  <2>1. /\ pc'[t] = "idle" /\ \A u \in Threads \ {t} : pc'[u] = pc[u]
        /\ UNCHANGED <<opens, afd, count, put, closed>>
    BY <1>4, GotoFact DEF SocketFails, ConnectOk, ConnectFails, client, write, history
  <2>2. broken \subseteq broken'
    BY <1>4 DEF SocketFails, ConnectOk, ConnectFails, kernel
  <2>3. ~closed => Sent(t)'
    BY <1>4, <2>1 DEF SocketFails, ConnectOk, ConnectFails, PutInv, Sent
  <2> QED BY <2>1, <2>2, <2>3, OtherSent DEF PutInv, Own
<1>5. ASSUME NEW t \in Threads, close(t)
      PROVE  PutInv'
  BY <1>5 DEF close, PutInv
<1>6. ASSUME NEW t \in Threads, FirstWrite(t) \/ WriteMore(t), ~closed
      PROVE  PutInv'
  <2>1. PICK k \in 1 .. Size - count[t] : Written(t, k)
    <3>1. CASE FirstWrite(t)
      <4>1. count[t] = 0
        BY <3>1 DEF FirstWrite, PcInv
      <4> QED BY <3>1, <4>1 DEF FirstWrite
    <3>2. CASE WriteMore(t)
      BY <3>2 DEF WriteMore
    <3> QED BY <1>6, <3>1, <3>2
  <2>2. pc[t] = "first" \/ (Sent(t) /\ count[t] \in -1 .. Size - 1)
    <3>1. CASE WriteMore(t)
      <4>1. ~(afd[t] # 0 /\ Own(t) \in broken)
        BY <1>6, <3>1 DEF WriteMore, Up, OwnDescriptor
      <4> QED BY <1>6, <3>1, <4>1 DEF WriteMore, PutInv
    <3> QED BY <1>6, <3>1 DEF FirstWrite
  <2>3. Sent(t)' /\ (pc'[t] = "loop" => count'[t] \in -1 .. Size - 1)
    BY <2>1, <2>2, WrittenSent
  <2>4. ASSUME NEW u \in Threads \ {t}
        PROVE  /\ pc'[u] = pc[u] /\ count'[u] = count[u] /\ put'[u] = put[u]
               /\ afd'[u] = afd[u] /\ Own(u)' = Own(u) /\ broken' = broken
    BY <2>1, WrittenFact DEF kernel, client, Own
  <2> QED BY <1>6, <2>3, <2>4, OtherSent DEF PutInv
<1>7. ASSUME NEW t \in Threads, FirstWriteFails(t)
      PROVE  PutInv'
  <2>1. /\ pc'[t] = "loop" /\ \A u \in Threads \ {t} : pc'[u] = pc[u]
        /\ count'[t] = -1 /\ \A u \in Threads \ {t} : count'[u] = count[u]
        /\ UNCHANGED <<put, kernel, client, history>>
    BY <1>7, GotoFact DEF FirstWriteFails, TypeOK
  <2>2. put'[t] = <<>>
    BY <1>7, <2>1 DEF FirstWriteFails, PcInv
  <2>3. Sent(t)' /\ count'[t] \in -1 .. Size - 1
    BY <2>1, <2>2, NoBytes DEF Sent
  <2> QED BY <2>1, <2>3, OtherSent DEF PutInv, kernel, client, history, Own
<1>8. ASSUME NEW t \in Threads, SelectTimesOut(t)
      PROVE  PutInv'
  <2>1. /\ pc'[t] = "idle" /\ \A u \in Threads \ {t} : pc'[u] = pc[u]
        /\ UNCHANGED <<kernel, client, write, history>>
    BY <1>8, GotoFact DEF SelectTimesOut
  <2>2. ~closed => Sent(t)
    BY <1>8 DEF SelectTimesOut, Up, OwnDescriptor, PutInv
  <2>3. Sent(t)' <=> Sent(t)
    BY <2>1 DEF Sent, write
  <2> QED BY <2>1, <2>2, <2>3, OtherSent DEF PutInv, kernel, client, write, history, Own
<1>9. ASSUME NEW t \in Threads, WriteFails(t)
      PROVE  PutInv'
  <2>1. /\ \A u \in Threads \ {t} : count'[u] = count[u]
        /\ pc[t] = "loop" /\ UNCHANGED <<put, pc, kernel, client, history>>
    BY <1>9 DEF WriteFails, TypeOK
  <2>2. ~closed => afd[t] # 0 /\ Own(t) \in broken
    BY <1>9, OwnFact DEF WriteFails, Up, OwnDescriptor
  <2> QED BY <2>1, <2>2, OtherSent DEF PutInv, kernel, client, history, Own
<1>10. ASSUME NEW n \in Fds, Break(n)
       PROVE  PutInv'
  BY <1>10, OtherSent DEF Break, PutInv, client, write, history, Own
<1>11. CASE UNCHANGED vars
  BY <1>11, OtherSent DEF vars, PutInv, kernel, client, write, history, Own
<1>12. CASE closed
  <2>1. closed'
    BY <1>12 DEF Next, Call, Alone, Served, NewClient, connect, reconnect, Socket, close, SocketFails,
          ConnectOk, ConnectFails, command, FirstWrite, FirstWriteFails, WriteMore, Written,
          SelectTimesOut, WriteFails, Break, vars, history
  <2> QED BY <2>1 DEF PutInv
<1> QED BY <1>1, <1>2, <1>3, <1>4, <1>5, <1>6, <1>7, <1>8, <1>9, <1>10, <1>11, <1>12
        DEF Next, Call, Alone, Served

-----------------------------------------------------------------------------
(* The theorems. *)

LEMMA Invariance == Spec => []IInv
<1>1. Init => IInv
  <2> SUFFICES ASSUME Init PROVE IInv
    OBVIOUS
  <2>1. <<>> \in Seq(Int)
    OBVIOUS
  <2>2. TypeOK
    <3>1. 0 \in 0 .. MaxOpens /\ 0 \in 0 .. MaxFd /\ 0 \in -MaxErrors .. Size
      OBVIOUS
    <3> QED BY <2>1, <3>1 DEF Init, TypeOK
  <2>3. \A t \in Threads : Sent(t)
    <3>1. \A t \in Threads : put[t] = <<>> /\ count[t] = 0
      BY DEF Init
    <3>2. 0 - 1 = -1
      OBVIOUS
    <3> QED BY <3>1, <3>2, NoBytes DEF Sent
  <2> QED BY <2>2, <2>3 DEF Init, IInv, PcInv, HeldInv, OwnDescriptor, PutInv
<1>2. IInv /\ [Next]_vars => IInv'
  BY TypeStep, HeldStep, OwnStep, PutStep DEF IInv
<1> QED BY <1>1, <1>2, PTL DEF Spec

(* Types and bounds of the descriptors, the clients and the write loop       *)
(* (async_socket_client.cpp, rclient.cpp).                                   *)
THEOREM TypeCorrect == Spec => []TypeOK
<1>1. IInv => TypeOK
  BY DEF IInv
<1> QED BY <1>1, Invariance, PTL

(* As long as no client is closed before it is destroyed, what a client      *)
(* reads, writes and closes is its own socket, however numbers are handed on *)
(* between threads (async_socket_client.cpp:17, :29, :190).                  *)
THEOREM NumbersAreOwn == Spec => []OwnDescriptor
<1>1. IInv => OwnDescriptor
  BY DEF IInv
<1> QED BY <1>1, Invariance, PTL

(* Every open socket has its holder, except those a second connect()         *)
(* overwrote (async_socket_client.cpp:29, rclient.cpp:128).                  *)
THEOREM OpenIsHeld == Spec => []NothingLeaks
<1>1. IInv => NothingLeaks
  <2> SUFFICES ASSUME IInv, NEW n \in Fds, table[n] # None, table[n] \notin abandoned
               PROVE  afd[table[n][1]] = n
    BY DEF NothingLeaks
  <2>1. PICK t \in Threads : afd[t] = n /\ table[n] = Own(t)
    BY DEF IInv, HeldInv
  <2> QED BY <2>1 DEF Own
<1> QED BY <1>1, Invariance, PTL

(* The result of write() counts the bytes that were sent, the last of them   *)
(* those of the command in order (async_socket_client.cpp:119).              *)
THEOREM ResultIsCount == Spec => []CountIsSent
<1>1. IInv => CountIsSent
  BY DEF IInv, PutInv, Sent, CountIsSent
<1> QED BY <1>1, Invariance, PTL

=============================================================================
