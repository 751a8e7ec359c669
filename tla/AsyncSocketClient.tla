-------------------------- MODULE AsyncSocketClient --------------------------
(***************************************************************************)
(* core/async_socket_client and the descriptors of the process.  Each      *)
(* thread has one RClient, which owns one AsyncSocketClient at a time;     *)
(* both keep the number of the socket.  Numbers are handed out again as    *)
(* soon as they are closed, to whichever thread opens a socket next.       *)
(*                                                                         *)
(* A connection is <<t, k>>: the k-th socket thread t opened.  A command   *)
(* has the bytes 0 .. Size-1, and byte -1 is what lies in memory before    *)
(* them.                                                                   *)
(***************************************************************************)
EXTENDS Integers, Sequences

CONSTANTS
    Threads,
    MaxFd,      \* bound: descriptors the process may have open
    MaxOpens,   \* bound: sockets a thread opens
    Size,       \* length of a command
    MaxErrors,  \* bound: how far below 0 failed writes take the count
    None        \* no connection

ASSUME BoundsAssumption == MaxFd \in Nat /\ MaxOpens \in Nat /\ MaxErrors \in Nat \ {0}
ASSUME SizeAssumption == Size \in Nat \ {0}
ASSUME NoneAssumption == None \notin Threads \X Nat

VARIABLES
    table,      \* the connection behind each descriptor, None: not open
    broken,     \* connections refused, or ended by the peer or the network
    opens,      \* number of sockets the thread has opened
    afd,        \* _sockfd of the AsyncSocketClient, 0 for -1
    rfd,        \* _sockfd of the RClient, 0 for -1
    connected,  \* _is_connect
    pc,         \* where the thread is: "idle" between two calls
    count,      \* written_len of the command in progress; the result of the last
    put,        \* history: the bytes this command has put on a socket
    closed,     \* history: RClient::close() has closed a descriptor
    abandoned   \* history: open connections whose number connect() overwrote

kernel == <<table, broken>>
client == <<opens, afd, rfd, connected>>
write == <<count, put>>
history == <<closed, abandoned>>
vars == <<kernel, client, pc, write, history>>

Fds == 1 .. MaxFd
Connections == Threads \X (1 .. MaxOpens)

TypeOK ==
    /\ table \in [Fds -> Connections \cup {None}]
    /\ broken \in SUBSET Connections /\ abandoned \in SUBSET Connections
    /\ opens \in [Threads -> 0 .. MaxOpens]
    /\ afd \in [Threads -> 0 .. MaxFd] /\ rfd \in [Threads -> 0 .. MaxFd]
    /\ connected \in [Threads -> BOOLEAN] /\ closed \in BOOLEAN
    /\ pc \in [Threads -> {"idle", "open", "connect", "first", "loop"}]
    /\ count \in [Threads -> -MaxErrors .. Size]
    /\ put \in [Threads -> Seq(Int)]

Init ==
    /\ table = [n \in Fds |-> None] /\ broken = {}
    /\ opens = [t \in Threads |-> 0]
    /\ afd = [t \in Threads |-> 0] /\ rfd = [t \in Threads |-> 0]
    /\ connected = [t \in Threads |-> FALSE]
    /\ pc = [t \in Threads |-> "idle"]
    /\ count = [t \in Threads |-> 0] /\ put = [t \in Threads |-> <<>>]
    /\ closed = FALSE /\ abandoned = {}

(* The socket the thread opened last. *)
Own(t) == <<t, opens[t]>>

(* A read or write on descriptor n can succeed. *)
Up(n) == n # 0 /\ table[n] # None /\ table[n] \notin broken

Goto(t, p) == pc' = [pc EXCEPT ![t] = p]

(* Each call starts with a clean history of the bytes it writes.             *)
Enter(t) == count' = [count EXCEPT ![t] = 0] /\ put' = [put EXCEPT ![t] = <<>>]

(* Mutant: the kernel is not told. *)
Close_Forgotten(n) == UNCHANGED kernel

(* The kernel frees a number without asking whose connection it is now. *)
Close(n) ==
    IF n = 0
      THEN UNCHANGED kernel
      ELSE /\ table' = [table EXCEPT ![n] = None]
           /\ broken' = broken \ {table[n]}

-----------------------------------------------------------------------------
(* The life of a descriptor.                                                *)

(* client = make_shared<RClient>(..): the old client is destroyed, and the   *)
(* destructor of its AsyncSocketClient closes its number.                    *)
NewClient(t) ==
    /\ pc[t] = "idle" /\ Enter(t)
    /\ Close(afd[t])
    /\ afd' = [afd EXCEPT ![t] = 0] /\ rfd' = [rfd EXCEPT ![t] = 0]
    /\ connected' = [connected EXCEPT ![t] = FALSE]
    /\ UNCHANGED <<opens, pc, history>>

connect(t) ==
    /\ pc[t] = "idle" /\ Enter(t)
    /\ Goto(t, "open")
    /\ UNCHANGED <<kernel, client, history>>

(* A new AsyncSocketClient replaces the old one, then connect.               *)
reconnect(t) ==
    /\ pc[t] = "idle" /\ Enter(t)
    /\ Close(afd[t])
    /\ afd' = [afd EXCEPT ![t] = 0]
    /\ Goto(t, "open")
    /\ UNCHANGED <<opens, rfd, connected, history>>

(* socket() returns the lowest free number; connect() stores it, whatever    *)
(* the client held before.                                                   *)
Socket(t) ==
    /\ pc[t] = "open" /\ opens[t] < MaxOpens
    /\ \E n \in Fds :
        /\ table[n] = None /\ \A m \in Fds : m < n => table[m] # None
        /\ table' = [table EXCEPT ![n] = <<t, opens[t] + 1>>]
        /\ afd' = [afd EXCEPT ![t] = n]
    /\ opens' = [opens EXCEPT ![t] = @ + 1]
    /\ abandoned' = abandoned \cup {c \in {Own(t)} : afd[t] # 0 /\ table[afd[t]] = c}
    /\ Goto(t, "connect")
    /\ UNCHANGED <<broken, rfd, connected, write, closed>>

(* The process has no descriptor left. *)
SocketFails(t) ==
    /\ pc[t] = "open" /\ \A n \in Fds : table[n] # None
    /\ Goto(t, "idle")
    /\ UNCHANGED <<kernel, client, write, history>>

ConnectOk(t) ==
    /\ pc[t] = "connect" /\ Up(afd[t])
    /\ connected' = [connected EXCEPT ![t] = TRUE]
    /\ rfd' = [rfd EXCEPT ![t] = afd[t]]
    /\ Goto(t, "idle")
    /\ UNCHANGED <<kernel, opens, afd, write, history>>

(* Mutant: the failed socket is closed, its number kept. *)
ConnectFails_Closes(t) ==
    /\ pc[t] = "connect"
    /\ Close(afd[t])
    /\ Goto(t, "idle")
    /\ UNCHANGED <<client, write, history>>

(* Refused, or not there in time: it may still come up.  The socket stays    *)
(* open, and _is_connect as it was.                                          *)
ConnectFails(t) ==
    /\ pc[t] = "connect"
    /\ broken' \in {broken, broken \cup {Own(t)}}
    /\ Goto(t, "idle")
    /\ UNCHANGED <<table, client, write, history>>

(* RClient::close(): the number stays in the AsyncSocketClient.              *)
close(t) ==
    /\ pc[t] = "idle" /\ rfd[t] # 0 /\ Enter(t)
    /\ Close(rfd[t])
    /\ rfd' = [rfd EXCEPT ![t] = 0]
    /\ connected' = [connected EXCEPT ![t] = FALSE]
    /\ closed' = TRUE
    /\ UNCHANGED <<opens, afd, pc, abandoned>>

-----------------------------------------------------------------------------
(* AsyncSocketClient::write() with its time-out.                            *)

(* Bytes i .. j of the command. *)
Bytes(i, j) == [b \in 1 .. j - i + 1 |-> i + b - 1]

command(t) ==
    /\ pc[t] = "idle" /\ connected[t] /\ Enter(t)
    /\ Goto(t, "first")
    /\ UNCHANGED <<kernel, client, history>>

(* k more bytes are taken, from the count on. *)
Written(t, k) ==
    /\ put' = [put EXCEPT ![t] = @ \o Bytes(count[t], count[t] + k - 1)]
    /\ count' = [count EXCEPT ![t] = @ + k]
    /\ Goto(t, IF count[t] + k = Size THEN "idle" ELSE "loop")
    /\ UNCHANGED <<kernel, client, history>>

FirstWrite(t) ==
    /\ pc[t] = "first" /\ Up(afd[t])
    /\ \E k \in 1 .. Size : Written(t, k)

(* The first write has no room, or fails: its -1 becomes the count.          *)
FirstWriteFails(t) ==
    /\ pc[t] = "first"
    /\ count' = [count EXCEPT ![t] = -1]
    /\ Goto(t, "loop")
    /\ UNCHANGED <<kernel, client, put, history>>

(* Mutant: the rest is written from the start of the buffer. *)
WriteMore_FromStart(t) ==
    /\ pc[t] = "loop" /\ Up(afd[t])
    /\ \E k \in 1 .. Size - count[t] :
        /\ put' = [put EXCEPT ![t] = @ \o Bytes(0, k - 1)]
        /\ count' = [count EXCEPT ![t] = @ + k]
        /\ Goto(t, IF count[t] + k = Size THEN "idle" ELSE "loop")
    /\ UNCHANGED <<kernel, client, history>>

(* Mutant: the length is not reduced by what was written. *)
WriteMore_WholeLength(t) ==
    /\ pc[t] = "loop" /\ Up(afd[t])
    /\ \E k \in 1 .. Size : Written(t, k)

(* select() finds room. *)
WriteMore(t) ==
    /\ pc[t] = "loop" /\ Up(afd[t])
    /\ \E k \in 1 .. Size - count[t] : Written(t, k)

(* Mutant: it waits on. *)
SelectTimesOut_WaitsOn(t) ==
    /\ pc[t] = "loop" /\ Up(afd[t])
    /\ UNCHANGED vars

(* No room in time; with the number -1, select() has nothing to wait for.    *)
SelectTimesOut(t) ==
    /\ pc[t] = "loop" /\ (Up(afd[t]) \/ afd[t] = 0)
    /\ Goto(t, "idle")
    /\ UNCHANGED <<kernel, client, write, history>>

(* A broken connection is writable for select(), and a number that is not    *)
(* open makes it fail with the set unchanged; the write then fails, and its  *)
(* -1 is added to the count.                                                 *)
WriteFails(t) ==
    /\ pc[t] = "loop" /\ afd[t] # 0 /\ ~Up(afd[t])
    /\ count' = [count EXCEPT ![t] = IF @ > -MaxErrors THEN @ - 1 ELSE @]
    /\ UNCHANGED <<kernel, client, pc, put, history>>

-----------------------------------------------------------------------------

(* The peer or the network ends an open connection. *)
Break(n) ==
    /\ Up(n)
    /\ broken' = broken \cup {table[n]}
    /\ UNCHANGED <<table, client, pc, write, history>>

(* The calls a thread makes. *)
Call(t) == NewClient(t) \/ connect(t) \/ reconnect(t) \/ close(t) \/ command(t)

(* What a call in progress does when the network does nothing. *)
Alone(t) ==
    \/ Socket(t) \/ SocketFails(t) \/ ConnectFails(t)
    \/ FirstWriteFails(t) \/ SelectTimesOut(t) \/ WriteFails(t)

(* What it does when a connection comes up or takes bytes. *)
Served(t) == ConnectOk(t) \/ FirstWrite(t) \/ WriteMore(t)

Next ==
    \/ \E t \in Threads : Call(t) \/ Alone(t) \/ Served(t)
    \/ \E n \in Fds : Break(n)

Spec == Init /\ [][Next]_vars

(* A thread in a call runs, and select() has a time-out.  The network need   *)
(* not take anything.                                                        *)
FairSpec == Spec /\ \A t \in Threads : WF_vars(Alone(t))

-----------------------------------------------------------------------------
(* Properties *)

(* The result of write() is how many of the command's bytes were sent: they  *)
(* are the last ones sent, in order and without a gap, with at most one byte *)
(* of other memory in front (the first write's -1 in the count).             *)
CountIsSent ==
    \A t \in Threads :
        pc[t] = "idle" /\ ~closed => \E i \in {0, -1} : put[t] = Bytes(i, count[t] - 1)

(* Every open socket is held by the client of the thread that opened it, so  *)
(* that the next destructor or reconnect closes it, unless connect() was     *)
(* called on a client that had one: a failed connect closes nothing.         *)
NothingLeaks ==
    \A n \in Fds :
        table[n] # None => afd[table[n][1]] = n \/ table[n] \in abandoned

(* As long as no client was closed before its destruction, the number each   *)
(* client reads, writes and will close is its own socket: destructors,       *)
(* reconnects and failed connects of all threads never close another's.      *)
OwnDescriptor ==
    ~closed => \A t \in Threads : afd[t] # 0 => table[afd[t]] = Own(t)

(* write() ends, unless its connection breaks or its number is closed.       *)
WriteEnds ==
    \A t \in Threads : pc[t] \in {"first", "loop"} ~> pc[t] = "idle" \/ ~Up(afd[t])

=============================================================================
