----------------------- MODULE AsyncSocketClientClaims -----------------------
(* Statements of the repository about descriptors and writes that the code   *)
(* does not keep.                                                            *)
EXTENDS AsyncSocketClient

(* The calls of SentinelFactory::command_thread: close(), then a new client  *)
(* and its connect; a client whose role is not master is closed and stays    *)
(* until the next task.                                                      *)
PoolCall(t) ==
    \/ command(t) \/ close(t)
    \/ NewClient(t) /\ rfd[t] = 0 /\ afd[t] # 0
    \/ connect(t) /\ afd[t] = 0

PoolNext ==
    \/ \E t \in Threads : PoolCall(t) \/ Alone(t) \/ Served(t)
    \/ \E n \in Fds : Break(n)

PoolSpec == Init /\ [][PoolNext]_vars

(* sentinel_factory.h:44, state 0 is ok: a thread that is connected has its  *)
(* connection.  Another thread's old client, closed by RClient::close() and  *)
(* by its destructor, closes it when it has got the same number in between.  *)
ConnectedHasItsSocket ==
    \A t \in Threads :
        connected[t] => afd[t] # 0 /\ table[afd[t]] = Own(t)

(* README.md:80, a written_len other than the size is an error: when it is   *)
(* the size, the command was sent.  A first write without room puts the byte *)
(* in front of the command before it, and still returns the size.            *)
WholeIsSent ==
    \A t \in Threads :
        pc[t] = "idle" /\ count[t] = Size /\ ~closed => put[t] = Bytes(0, Size - 1)

=============================================================================
