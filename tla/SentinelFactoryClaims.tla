------------------------ MODULE SentinelFactoryClaims ------------------------
(***************************************************************************)
(* What comments of middleware/sentinel_factory.{h,cpp} say of the pool    *)
(* and the code does not do.  Each property quotes its comment; a run of   *)
(* its own finds it violated.                                              *)
(***************************************************************************)
EXTENDS SentinelFactory

(* sentinel_factory.h:44, "0: ok; 1: busy; 2: unusable": a queue is busy     *)
(* while its thread executes a command.  A command that cannot be written    *)
(* leaves 1 behind (sentinel_factory.cpp:199-203).                           *)
BusyIsExecuting == \A w \in Workers : qstate[w] = 1 => running[w] # None

(* sentinel_factory.cpp:485, "pause sending commands until the new master is *)
(* usable": a thread parked by +odown executes no command.  The branch of    *)
(* the commands does not look at the local state.                            *)
ParkedExecutesNothing == \A w \in Workers : st[w] = 3 => running[w] = None

(* sentinel_factory.h:59, "after a reconnect the queue of the thread         *)
(* executes the tasks not executed before": commands wait in the queue while *)
(* the client is closed.  They are popped and dropped.                       *)
QueueWaitsForConnection ==
    \A w \in Workers : pc[w] = "send" => link[w] # "closed"

(* sentinel_factory.cpp:308, "check whether it is the master": a usable      *)
(* queue has a connection whose role has been checked.  A connection whose   *)
(* AUTH failed stays open, and a later CheckMaster task accepts it.          *)
UsableIsMaster ==
    \A w \in Workers : qstate[w] = 0 /\ pc[w] # "exited" => link[w] = "verified"

(* sentinel_factory.h:55-56, "after one unsuccessful attempt to connect the  *)
(* thread ends": a started thread in its loop is not one whose reconnect     *)
(* failed.  The break statements are commented out.                          *)
FailedReconnectEnds ==
    \A w \in Workers : pc[w] = "loop" => st[w] # 2

(* sentinel_factory.cpp:418, "stop because of something wrong, try to        *)
(* recover it": a subscription that ended without stop() is made again.      *)
(* The recovery loop is not entered: _is_state_stop is never false.          *)
SubscriptionRecovers ==
    (evPc = "returned" /\ stopPc = "none")
      ~> (evPc # "returned" \/ stopPc # "none")

(* sentinel_factory.cpp:412, "receives events until it is stopped or the     *)
(* connection is gone, and then returns": start() returns after stop().      *)
(* A stop that comes before the receive loop has begun is cleared by it.     *)
StopEndsStart == (evPc # "none" /\ stopPc = "join") ~> evPc = "returned"

=============================================================================
