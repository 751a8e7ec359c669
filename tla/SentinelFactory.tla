--------------------------- MODULE SentinelFactory ---------------------------
(***************************************************************************)
(* The connection pool of middleware/sentinel_factory.{h,cpp}: NumWorkers  *)
(* command threads, each with one connection to the Redis master and one   *)
(* priority queue; the thread that runs start() and turns sentinel events  *)
(* into control tasks; the application thread that calls async_command and *)
(* check_and_retry_master; and the thread that calls stop().               *)
(*                                                                         *)
(* A step is what happens between two accesses to state another thread can *)
(* see, or one blocking network call.  The outcome of a network call is    *)
(* chosen by the environment.  The initial state is the one in which       *)
(* init() has just returned true.                                          *)
(***************************************************************************)
EXTENDS Integers, FiniteSets

LOCAL INSTANCE Functions

CONSTANTS NumWorkers,   \* init(master_connection_pool_size)
          Nodes,        \* Redis nodes that can be announced as the master
          Cmds,         \* the commands the application hands over, each once
          MaxTasks,     \* bound: control tasks waiting for one thread at a time
          Events,       \* bound: the events about a master that are received
          Checking,     \* bound: whether check_and_retry_master is called
          None          \* "no command", "not read yet"

ASSUME NumWorkersAssumption == NumWorkers \in Nat \ {0}
ASSUME NoneAssumption == None \notin Cmds \cup Nodes
ASSUME BoundsAssumption == MaxTasks \in Nat /\ Checking \in BOOLEAN

VARIABLES
    master,     \* _master_node
    cmdStop,    \* _cmd_thread_stop
    subStop,    \* Subscriber::_is_stop of the sentinel subscription
    qstate,     \* qstate[w]: SfThreadQueue::state, 0 ok, 1 busy, 2 unusable
    ctl,        \* ctl[w][t]: how many control tasks of type t queue w holds
    cmds,       \* cmds[w]: the commands queue w holds
    pc,         \* pc[w]: where thread w is in command_thread
    started,    \* started[w]: thread w has passed its start-up part
    st,         \* st[w]: the local "state" of command_thread, 0..3
    running,    \* running[w]: the command thread w has popped, or None
    addr,       \* addr[w]: ip and port the client of thread w was made with
    link,       \* link[w]: the client: _is_connect, and whether get_role of
                \* this connection has answered "master"
    evPc,       \* where the thread that runs start() is
    evTask,     \* type of the task sentinel_event_handle is pushing
    evIdx,      \* index of the next queue it pushes to
    appPc,      \* where the application thread is
    appCmd,     \* command being handed over
    appIdx,     \* loop index of async_command / check_and_retry_master
    turn,       \* the static "turn" of async_command
    outcome,    \* outcome[c]: what has become of command c
    stopPc      \* where the thread that calls stop() is

workerVars == <<pc, started, st, running, addr, link>>
eventVars == <<evPc, evTask, evIdx>>
appVars == <<appPc, appCmd, appIdx, turn>>
vars == <<master, cmdStop, subStop, qstate, ctl, cmds, workerVars,
          eventVars, appVars, outcome, stopPc>>

Workers == 0 .. NumWorkers - 1

-----------------------------------------------------------------------------
(* SfTaskType: the numbers are the priorities, the smallest is popped first. *)
Invalid == 0
CheckMaster == 1
MasterObjDown == 2
MasterObjUp == 3
MasterChange == 4
MasterCheck == 5
ControlTasks == 0 .. 5

(* The task sentinel_event_handle makes of an event about a master. *)
TaskOf == [PsDown |-> CheckMaster, SsDown |-> CheckMaster,
           PoDown |-> MasterObjDown, SoDown |-> MasterObjUp,
           FailoverEnd |-> Invalid, SwitchMaster |-> MasterChange]

ASSUME EventsAssumption == Events \subseteq DOMAIN TaskOf

(* The node each argument of a client's constructor was read from. *)
Fields == {"ip", "port"}
Addresses == [Fields -> Nodes \cup {None}]
NoAddr == [f \in Fields |-> None]
At(n) == [f \in Fields |-> n]

Outcomes == {"new", "open", "refused", "answered", "failed", "lost"}

TypeOK ==
    /\ master \in Nodes
    /\ cmdStop \in BOOLEAN
    /\ subStop \in BOOLEAN
    /\ qstate \in [Workers -> 0 .. 2]
    /\ ctl \in [Workers -> [ControlTasks -> Nat]]
    /\ cmds \in [Workers -> SUBSET Cmds]
    /\ pc \in [Workers -> {"addr", "connect", "role", "loop", "awake", "send",
                           "reply", "check", "exited"}]
    /\ started \in [Workers -> BOOLEAN]
    /\ st \in [Workers -> 0 .. 3]
    /\ running \in [Workers -> Cmds \cup {None}]
    /\ addr \in [Workers -> Addresses]
    /\ link \in [Workers -> {"closed", "unverified", "verified"}]
    /\ evPc \in {"none", "subscribing", "recv", "push", "returned"}
    /\ evTask \in ControlTasks
    /\ evIdx \in Workers
    /\ appPc \in {"idle", "scan", "push", "retry", "retrypush"}
    /\ appCmd \in Cmds \cup {None}
    /\ appIdx \in Workers
    /\ turn \in 0 .. NumWorkers
    /\ outcome \in [Cmds -> Outcomes]
    /\ stopPc \in {"none", "unsubscribe", "join", "done"}

Init ==
    /\ master \in Nodes
    /\ cmdStop = TRUE
    /\ subStop = TRUE
    /\ qstate = [w \in Workers |-> 2]
    /\ ctl = [w \in Workers |-> [t \in ControlTasks |-> 0]]
    /\ cmds = [w \in Workers |-> {}]
    /\ pc = [w \in Workers |-> "addr"]
    /\ started = [w \in Workers |-> FALSE]
    /\ st = [w \in Workers |-> 0]
    /\ running = [w \in Workers |-> None]
    /\ addr = [w \in Workers |-> NoAddr]
    /\ link = [w \in Workers |-> "closed"]
    /\ evPc = "none" /\ evTask = Invalid /\ evIdx = 0
    /\ appPc = "idle" /\ appCmd = None /\ appIdx = 0 /\ turn = 0
    /\ outcome = [c \in Cmds |-> "new"]
    /\ stopPc = "none"

-----------------------------------------------------------------------------
(* command_thread: making a connection, at start-up and at a reconnect.      *)

(* The two fields of *_master_node are read one after the other, in an order *)
(* the compiler chooses, without _master_mutex.                              *)
ReadField(w, f) ==
    /\ pc[w] = "addr" /\ addr[w][f] = None
    /\ addr' = [addr EXCEPT ![w][f] = master]
    /\ pc' = [pc EXCEPT ![w] = IF \E g \in Fields \ {f} : addr[w][g] = None
                               THEN "addr" ELSE "connect"]
    /\ UNCHANGED <<master, cmdStop, subStop, qstate, ctl, cmds, started, st,
                   running, link, eventVars, appVars, outcome, stopPc>>

(* Where a thread that could not connect goes: its loop, or its end. *)
GiveUp(w) == IF started[w] THEN "loop" ELSE "exited"

ConnectOk(w) ==
    /\ pc[w] = "connect"
    /\ link' = [link EXCEPT ![w] = "unverified"]
    /\ pc' = [pc EXCEPT ![w] = "role"]
    /\ UNCHANGED <<master, cmdStop, subStop, qstate, ctl, cmds, started, st,
                   running, addr, eventVars, appVars, outcome, stopPc>>

(* No TCP connection; or one was made and its socket options or AUTH failed: *)
(* _is_connect then stays set.                                               *)
ConnectFails(w) ==
    /\ pc[w] = "connect"
    /\ \E l \in {"closed", "unverified"} :
         link' = [link EXCEPT ![w] = IF started[w] THEN l ELSE "closed"]
    /\ pc' = [pc EXCEPT ![w] = GiveUp(w)]
    /\ UNCHANGED <<master, cmdStop, subStop, qstate, ctl, cmds, started, st,
                   running, addr, eventVars, appVars, outcome, stopPc>>

(* Mutant: the stop flag is cleared at every reconnect. *)
RoleIsMaster_ClearsStop(w) ==
    /\ pc[w] = "role"
    /\ link' = [link EXCEPT ![w] = "verified"]
    /\ cmdStop' = FALSE
    /\ started' = [started EXCEPT ![w] = TRUE]
    /\ st' = [st EXCEPT ![w] = 0]
    /\ qstate' = [qstate EXCEPT ![w] = 0]
    /\ pc' = [pc EXCEPT ![w] = "loop"]
    /\ UNCHANGED <<master, subStop, ctl, cmds, running, addr, eventVars,
                   appVars, outcome, stopPc>>

(* get_role answers "master".  A thread that starts also clears the stop flag *)
(* of all threads.                                                           *)
RoleIsMaster(w) ==
    /\ pc[w] = "role"
    /\ link' = [link EXCEPT ![w] = "verified"]
    /\ cmdStop' = (cmdStop /\ started[w])
    /\ started' = [started EXCEPT ![w] = TRUE]
    /\ st' = [st EXCEPT ![w] = 0]
    /\ qstate' = [qstate EXCEPT ![w] = 0]
    /\ pc' = [pc EXCEPT ![w] = "loop"]
    /\ UNCHANGED <<master, subStop, ctl, cmds, running, addr, eventVars,
                   appVars, outcome, stopPc>>

RoleIsOther(w) ==
    /\ pc[w] = "role"
    /\ link' = [link EXCEPT ![w] = "closed"]
    /\ pc' = [pc EXCEPT ![w] = GiveUp(w)]
    /\ UNCHANGED <<master, cmdStop, subStop, qstate, ctl, cmds, started, st,
                   running, addr, eventVars, appVars, outcome, stopPc>>

-----------------------------------------------------------------------------
(* command_thread: M_ERROR, what the loop does with a control task.          *)

(* Mutant: a parked thread waits for -odown only. *)
Ignores_ParkedMissesChange(w, t) ==
    \/ t = Invalid
    \/ st[w] = 3 /\ t # MasterObjUp
    \/ t = MasterCheck /\ qstate[w] = 0

Ignores(w, t) ==
    \/ t = Invalid
    \/ st[w] = 3 /\ t \notin {MasterObjUp, MasterChange}
    \/ t = MasterCheck /\ qstate[w] = 0

Ignore(w, t) ==
    /\ Ignores(w, t)
    /\ pc' = [pc EXCEPT ![w] = "loop"]
    /\ UNCHANGED <<qstate, st, link, addr>>

(* state = 1: the connection is tried with a PING. *)
CheckLink(w, t) ==
    /\ ~Ignores(w, t) /\ t \in {CheckMaster, MasterObjUp}
    /\ qstate' = [qstate EXCEPT ![w] = 2]
    /\ st' = [st EXCEPT ![w] = 1]
    /\ pc' = [pc EXCEPT ![w] = "check"]
    /\ UNCHANGED <<link, addr>>

(* Mutant: the queue is not marked unusable before the client is closed. *)
StartReconnect_StaysUsable(w) ==
    /\ st' = [st EXCEPT ![w] = 2]
    /\ link' = [link EXCEPT ![w] = "closed"]
    /\ addr' = [addr EXCEPT ![w] = NoAddr]
    /\ pc' = [pc EXCEPT ![w] = "addr"]
    /\ UNCHANGED qstate

(* state = 2: the client is closed and a new one is made. *)
StartReconnect(w) ==
    /\ qstate' = [qstate EXCEPT ![w] = 2]
    /\ st' = [st EXCEPT ![w] = 2]
    /\ link' = [link EXCEPT ![w] = "closed"]
    /\ addr' = [addr EXCEPT ![w] = NoAddr]
    /\ pc' = [pc EXCEPT ![w] = "addr"]

Reconnect(w, t) ==
    /\ ~Ignores(w, t) /\ t \in {MasterChange, MasterCheck}
    /\ StartReconnect(w)

(* state = 3: wait for -odown or +switch-master. *)
Park(w, t) ==
    /\ ~Ignores(w, t) /\ t = MasterObjDown
    /\ qstate' = [qstate EXCEPT ![w] = 2]
    /\ st' = [st EXCEPT ![w] = 3]
    /\ pc' = [pc EXCEPT ![w] = "loop"]
    /\ UNCHANGED <<link, addr>>

Handle(w, t) == Ignore(w, t) \/ CheckLink(w, t) \/ Reconnect(w, t) \/ Park(w, t)

CheckOk(w) ==
    /\ pc[w] = "check" /\ link[w] # "closed"
    /\ qstate' = [qstate EXCEPT ![w] = 0]
    /\ st' = [st EXCEPT ![w] = 0]
    /\ pc' = [pc EXCEPT ![w] = "loop"]
    /\ UNCHANGED <<master, cmdStop, subStop, ctl, cmds, started, running, addr,
                   link, eventVars, appVars, outcome, stopPc>>

CheckFails(w) ==
    /\ pc[w] = "check"
    /\ StartReconnect(w)
    /\ UNCHANGED <<master, cmdStop, subStop, ctl, cmds, started, running,
                   eventVars, appVars, outcome, stopPc>>

-----------------------------------------------------------------------------
(* command_thread: the loop.                                                 *)

Exit(w) ==
    /\ pc[w] = "loop" /\ cmdStop
    /\ pc' = [pc EXCEPT ![w] = "exited"]
    /\ link' = [link EXCEPT ![w] = "closed"]
    /\ UNCHANGED <<master, cmdStop, subStop, qstate, ctl, cmds, started, st,
                   running, addr, eventVars, appVars, outcome, stopPc>>

(* The stop flag is read, and a millisecond later the queue: a task that is   *)
(* there then is taken, also when stop() has come in between.                *)
Awake(w) ==
    /\ pc[w] = "loop" /\ ~cmdStop
    /\ pc' = [pc EXCEPT ![w] = "awake"]
    /\ UNCHANGED <<master, cmdStop, subStop, qstate, ctl, cmds, started, st,
                   running, addr, link, eventVars, appVars, outcome, stopPc>>

FindsNothing(w) ==
    /\ pc[w] = "awake" /\ cmds[w] = {}
    /\ \A t \in ControlTasks : ctl[w][t] = 0
    /\ pc' = [pc EXCEPT ![w] = "loop"]
    /\ UNCHANGED <<master, cmdStop, subStop, qstate, ctl, cmds, started, st,
                   running, addr, link, eventVars, appVars, outcome, stopPc>>

(* Mutant: the queue is not tested for being empty. *)
IsTop_Empty(w, t) == ctl[w][t] >= 0 /\ \A u \in ControlTasks : u < t => ctl[w][u] = 0

(* t is what queue.top() returns when a control task is in the queue. *)
IsTop(w, t) == ctl[w][t] > 0 /\ \A u \in ControlTasks : u < t => ctl[w][u] = 0

(* Mutant: top() without pop(). *)
TakeControl_NoPop(w) ==
    /\ pc[w] = "awake"
    /\ \E t \in ControlTasks : IsTop(w, t) /\ Handle(w, t)
    /\ UNCHANGED <<master, cmdStop, subStop, ctl, cmds, started, running,
                   eventVars, appVars, outcome, stopPc>>

TakeControl(w) ==
    /\ pc[w] = "awake"
    /\ \E t \in ControlTasks :
         /\ IsTop(w, t)
         /\ ctl' = [ctl EXCEPT ![w][t] = @ - 1]
         /\ Handle(w, t)
    /\ UNCHANGED <<master, cmdStop, subStop, cmds, started, running,
                   eventVars, appVars, outcome, stopPc>>

(* Mutant: top() without pop(). *)
TakeCommand_NoPop(w) ==
    /\ pc[w] = "awake"
    /\ \A t \in ControlTasks : ctl[w][t] = 0
    /\ \E c \in cmds[w] : running' = [running EXCEPT ![w] = c]
    /\ qstate' = [qstate EXCEPT ![w] = 1]
    /\ pc' = [pc EXCEPT ![w] = "send"]
    /\ UNCHANGED <<master, cmdStop, subStop, ctl, cmds, started, st, addr, link,
                   eventVars, appVars, outcome, stopPc>>

(* A command is on top only when no control task is queued; equal priorities *)
(* come out in any order.                                                    *)
TakeCommand(w) ==
    /\ pc[w] = "awake"
    /\ \A t \in ControlTasks : ctl[w][t] = 0
    /\ \E c \in cmds[w] :
         /\ cmds' = [cmds EXCEPT ![w] = @ \ {c}]
         /\ running' = [running EXCEPT ![w] = c]
    /\ qstate' = [qstate EXCEPT ![w] = 1]
    /\ pc' = [pc EXCEPT ![w] = "send"]
    /\ UNCHANGED <<master, cmdStop, subStop, ctl, started, st, addr, link,
                   eventVars, appVars, outcome, stopPc>>

SendOk(w) ==
    /\ pc[w] = "send" /\ link[w] # "closed"
    /\ pc' = [pc EXCEPT ![w] = "reply"]
    /\ UNCHANGED <<master, cmdStop, subStop, qstate, ctl, cmds, started, st,
                   running, addr, link, eventVars, appVars, outcome, stopPc>>

(* Thread w is done with its command. *)
Finish(w, o) ==
    /\ running' = [running EXCEPT ![w] = None]
    /\ outcome' = [outcome EXCEPT ![running[w]] = o]

(* RClient::command did not write the whole command, or the client is closed: *)
(* the loop goes on with the next task.                                      *)
SendFails(w) ==
    /\ pc[w] = "send"
    /\ Finish(w, "lost")
    /\ pc' = [pc EXCEPT ![w] = "loop"]
    /\ UNCHANGED <<master, cmdStop, subStop, qstate, ctl, cmds, started, st,
                   addr, link, eventVars, appVars, stopPc>>

ReplyOk(w) ==
    /\ pc[w] = "reply"
    /\ Finish(w, "answered")
    /\ qstate' = [qstate EXCEPT ![w] = 0]
    /\ pc' = [pc EXCEPT ![w] = "loop"]
    /\ UNCHANGED <<master, cmdStop, subStop, ctl, cmds, started, st, addr,
                   link, eventVars, appVars, stopPc>>

(* Mutant: the failed command goes back to the queue. *)
ReplyFails_Requeues(w) ==
    /\ pc[w] = "reply"
    /\ running' = [running EXCEPT ![w] = None]
    /\ cmds' = [cmds EXCEPT ![w] = @ \cup {running[w]}]
    /\ Handle(w, CheckMaster)
    /\ UNCHANGED <<master, cmdStop, subStop, ctl, started, eventVars,
                   appVars, outcome, stopPc>>

(* get_results failed or timed out: the task becomes etCheckMaster. *)
ReplyFails(w) ==
    /\ pc[w] = "reply"
    /\ Finish(w, "failed")
    /\ Handle(w, CheckMaster)
    /\ UNCHANGED <<master, cmdStop, subStop, ctl, cmds, started, eventVars,
                   appVars, stopPc>>

WorkerStep(w) ==
    \/ Awake(w) \/ FindsNothing(w)
    \/ \E f \in Fields : ReadField(w, f)
    \/ ConnectOk(w) \/ ConnectFails(w) \/ RoleIsMaster(w) \/ RoleIsOther(w)
    \/ Exit(w) \/ TakeControl(w) \/ TakeCommand(w)
    \/ SendOk(w) \/ SendFails(w) \/ ReplyOk(w) \/ ReplyFails(w)
    \/ CheckOk(w) \/ CheckFails(w)

-----------------------------------------------------------------------------
(* The control tasks queue w holds, or will get from a loop that has begun.  *)
Waiting(w) ==
    SumFunction(ctl[w])
    + (IF evPc = "push" /\ evIdx <= w THEN 1 ELSE 0)
    + (IF appPc \in {"retry", "retrypush"} /\ appIdx <= w THEN 1 ELSE 0)

(* Bound: the next event or check comes when every queue has room for it. *)
Room == \A w \in Workers : Waiting(w) < MaxTasks

-----------------------------------------------------------------------------
(* start(): Sentinel::subscribe_event and sentinel_event_handle.             *)

Start ==
    /\ evPc = "none"
    /\ evPc' = "subscribing"
    /\ UNCHANGED <<master, cmdStop, subStop, qstate, ctl, cmds, workerVars,
                   evTask, evIdx, appVars, outcome, stopPc>>

(* A sentinel answers and PSUBSCRIBE is acknowledged; do_recv_msg begins by  *)
(* clearing the stop flag.                                                   *)
SubscribeOk ==
    /\ evPc = "subscribing"
    /\ evPc' = "recv"
    /\ subStop' = FALSE
    /\ UNCHANGED <<master, cmdStop, qstate, ctl, cmds, workerVars, evTask,
                   evIdx, appVars, outcome, stopPc>>

(* No sentinel answers, or the subscription fails, or the receive loop ends  *)
(* with an error.  _is_state_stop is true from the constructor on and no     *)
(* statement clears it, so the recovery loop of sentinel_state_handle is not *)
(* entered and start() returns.                                              *)
SubscriptionEnds ==
    /\ evPc \in {"subscribing", "recv"}
    /\ evPc' = "returned"
    /\ UNCHANGED <<master, cmdStop, subStop, qstate, ctl, cmds, workerVars,
                   evTask, evIdx, appVars, outcome, stopPc>>

RecvStops ==
    /\ evPc = "recv" /\ subStop
    /\ evPc' = "returned"
    /\ UNCHANGED <<master, cmdStop, subStop, qstate, ctl, cmds, workerVars,
                   evTask, evIdx, appVars, outcome, stopPc>>

(* An event about a master.  An event about a slave returns at once. *)
ReceiveEvent ==
    /\ evPc = "recv" /\ Room
    /\ \E e \in Events :
         /\ evTask' = TaskOf[e]
         /\ IF e = "SwitchMaster" THEN master' \in Nodes ELSE UNCHANGED master
    /\ evIdx' = 0
    /\ evPc' = "push"
    /\ UNCHANGED <<cmdStop, subStop, qstate, ctl, cmds, workerVars, appVars,
                   outcome, stopPc>>

(* Mutant: the last queue is left out. *)
PushEvent_OneShort ==
    /\ evPc = "push"
    /\ ctl' = [ctl EXCEPT ![evIdx][evTask] = @ + 1]
    /\ IF evIdx + 2 < NumWorkers
         THEN evIdx' = evIdx + 1 /\ UNCHANGED evPc
         ELSE evIdx' = 0 /\ evPc' = "recv"
    /\ UNCHANGED <<master, cmdStop, subStop, qstate, cmds, workerVars, evTask,
                   appVars, outcome, stopPc>>

(* Mutant: the stop flag is cleared for every message, not once. *)
PushEvent_ClearsStop ==
    /\ evPc = "push"
    /\ ctl' = [ctl EXCEPT ![evIdx][evTask] = @ + 1]
    /\ IF evIdx + 1 < NumWorkers
         THEN evIdx' = evIdx + 1 /\ UNCHANGED <<evPc, subStop>>
         ELSE evIdx' = 0 /\ evPc' = "recv" /\ subStop' = FALSE
    /\ UNCHANGED <<master, cmdStop, qstate, cmds, workerVars, evTask,
                   appVars, outcome, stopPc>>

(* One iteration of the loop that pushes the task to every queue. *)
PushEvent ==
    /\ evPc = "push"
    /\ ctl' = [ctl EXCEPT ![evIdx][evTask] = @ + 1]
    /\ IF evIdx + 1 < NumWorkers
         THEN evIdx' = evIdx + 1 /\ UNCHANGED evPc
         ELSE evIdx' = 0 /\ evPc' = "recv"
    /\ UNCHANGED <<master, cmdStop, subStop, qstate, cmds, workerVars, evTask,
                   appVars, outcome, stopPc>>

-----------------------------------------------------------------------------
(* The application thread.                                                   *)

(* async_command: the look at the queue "turn" points to. *)
AsyncCall(c) ==
    /\ appPc = "idle" /\ outcome[c] = "new"
    /\ appCmd' = c
    /\ outcome' = [outcome EXCEPT ![c] = "open"]
    /\ LET t == IF turn >= NumWorkers THEN 0 ELSE turn
       IN /\ turn' = t
          /\ IF qstate[t] = 2
               THEN appPc' = "scan" /\ appIdx' = 0
               ELSE appPc' = "push" /\ appIdx' = t
    /\ UNCHANGED <<master, cmdStop, subStop, qstate, ctl, cmds, workerVars,
                   eventVars, stopPc>>

(* Mutant: the state of the queue is not looked at. *)
ScanFinds_AnyQueue ==
    /\ appPc = "scan"
    /\ appPc' = "push"
    /\ UNCHANGED <<master, cmdStop, subStop, qstate, ctl, cmds, workerVars,
                   eventVars, appCmd, appIdx, turn, outcome, stopPc>>

ScanFinds ==
    /\ appPc = "scan" /\ qstate[appIdx] # 2
    /\ appPc' = "push"
    /\ UNCHANGED <<master, cmdStop, subStop, qstate, ctl, cmds, workerVars,
                   eventVars, appCmd, appIdx, turn, outcome, stopPc>>

(* The queue looked at is unusable: the next one, or the command is refused. *)
ScanMisses ==
    /\ appPc = "scan" /\ qstate[appIdx] = 2
    /\ IF appIdx + 1 < NumWorkers
         THEN /\ appIdx' = appIdx + 1
              /\ UNCHANGED <<appPc, appCmd, turn, outcome>>
         ELSE /\ appIdx' = 0 /\ appPc' = "idle" /\ appCmd' = None
              /\ turn' = turn + 1
              /\ outcome' = [outcome EXCEPT ![appCmd] = "refused"]
    /\ UNCHANGED <<master, cmdStop, subStop, qstate, ctl, cmds, workerVars,
                   eventVars, stopPc>>

(* The command is pushed to the queue chosen earlier. *)
PushCommand ==
    /\ appPc = "push"
    /\ cmds' = [cmds EXCEPT ![appIdx] = @ \cup {appCmd}]
    /\ appPc' = "idle" /\ appCmd' = None /\ appIdx' = 0
    /\ UNCHANGED <<master, cmdStop, subStop, qstate, ctl, workerVars,
                   eventVars, turn, outcome, stopPc>>

(* check_and_retry_master *)
RetryCall ==
    /\ Checking /\ appPc = "idle" /\ Room
    /\ appPc' = "retry" /\ appIdx' = 0
    /\ UNCHANGED <<master, cmdStop, subStop, qstate, ctl, cmds, workerVars,
                   eventVars, appCmd, turn, outcome, stopPc>>

NextQueue ==
    IF appIdx + 1 < NumWorkers
      THEN appIdx' = appIdx + 1 /\ appPc' = "retry"
      ELSE appIdx' = 0 /\ appPc' = "idle"

RetryLook ==
    /\ appPc = "retry"
    /\ IF qstate[appIdx] # 0
         THEN appPc' = "retrypush" /\ UNCHANGED appIdx
         ELSE NextQueue
    /\ UNCHANGED <<master, cmdStop, subStop, qstate, ctl, cmds, workerVars,
                   eventVars, appCmd, turn, outcome, stopPc>>

RetryPush ==
    /\ appPc = "retrypush"
    /\ ctl' = [ctl EXCEPT ![appIdx][MasterCheck] = @ + 1]
    /\ NextQueue
    /\ UNCHANGED <<master, cmdStop, subStop, qstate, cmds, workerVars,
                   eventVars, appCmd, turn, outcome, stopPc>>

-----------------------------------------------------------------------------
(* stop() *)

Stop ==
    /\ stopPc = "none"
    /\ stopPc' = "unsubscribe"
    /\ cmdStop' = TRUE
    /\ UNCHANGED <<master, subStop, qstate, ctl, cmds, workerVars, eventVars,
                   appVars, outcome>>

StopSubscription ==
    /\ stopPc = "unsubscribe"
    /\ stopPc' = "join"
    /\ subStop' = TRUE
    /\ UNCHANGED <<master, cmdStop, qstate, ctl, cmds, workerVars, eventVars,
                   appVars, outcome>>

Join ==
    /\ stopPc = "join"
    /\ \A w \in Workers : pc[w] = "exited"
    /\ stopPc' = "done"
    /\ UNCHANGED <<master, cmdStop, subStop, qstate, ctl, cmds, workerVars,
                   eventVars, appVars, outcome>>

-----------------------------------------------------------------------------
EventStep == Start \/ SubscribeOk \/ SubscriptionEnds \/ RecvStops
             \/ ReceiveEvent \/ PushEvent

AppStep == (\E c \in Cmds : AsyncCall(c)) \/ ScanFinds \/ ScanMisses
           \/ PushCommand \/ RetryCall \/ RetryLook \/ RetryPush

StopStep == Stop \/ StopSubscription \/ Join

Next == (\E w \in Workers : WorkerStep(w)) \/ EventStep \/ AppStep \/ StopStep

Spec == Init /\ [][Next]_vars

(* Every blocking call of a command thread has a timeout, so each thread     *)
(* keeps going; the loops of the other threads do not block.  do_recv_msg    *)
(* tests the stop flag after it has handled the messages in the buffer, of   *)
(* which there are finitely many, so it sees the flag between events now and *)
(* then.  Nothing makes the environment send an event, cut the subscription, *)
(* call async_command, check_and_retry_master, start or stop.                *)
Fairness ==
    /\ \A w \in Workers : WF_vars(WorkerStep(w))
    /\ WF_vars(SubscribeOk \/ PushEvent) /\ SF_vars(RecvStops)
    /\ WF_vars(ScanFinds \/ ScanMisses \/ PushCommand \/ RetryLook \/ RetryPush)
    /\ WF_vars(StopSubscription \/ Join)

FairSpec == Spec /\ Fairness

-----------------------------------------------------------------------------
(* Safety.                                                                   *)

(* A +switch-master that has set _master_node is still on its way to w. *)
ChangeDue(w) ==
    \/ ctl[w][MasterChange] > 0
    \/ evPc = "push" /\ evTask = MasterChange /\ evIdx <= w

(* The fields w has read are those of the current master. *)
ReadsMaster(w) == \A f \in Fields : addr[w][f] \in {None, master}

(* sentinel_event_handle and command_thread share _master_node without a     *)
(* lock on the reading side.  Whatever the order of the reads and of a       *)
(* switch, a running thread whose client was made for another node, or for   *)
(* the ip of one and the port of another, has a MasterChange task still to   *)
(* come: no thread stays behind on a node that is not the announced master.  *)
SettledOnMaster ==
    \A w \in Workers : pc[w] # "exited" => ReadsMaster(w) \/ ChangeDue(w)

(* SfThreadQueue::state 0 means "ok" to async_command and to                 *)
(* check_and_retry_master: a running thread shows 0 only while its client    *)
(* is connected, across failed reconnects, failed checks and -odown.         *)
UsableIsConnected ==
    \A w \in Workers : qstate[w] = 0 /\ pc[w] # "exited" => link[w] # "closed"

(* The look at the queue state and the push are two steps of async_command:  *)
(* whatever happens between them, a command only ever reaches the queue of a *)
(* thread that has completed its start-up part.                              *)
OnlyStartedWorkersHoldCommands ==
    \A w \in Workers : cmds[w] # {} \/ running[w] # None => started[w]

(* The places a command can be in. *)
Places(c) ==
    {<<"queue", w>> : w \in {v \in Workers : c \in cmds[v]}}
    \cup {<<"thread", w>> : w \in {v \in Workers : running[v] = c}}
    \cup (IF appCmd = c THEN {<<"caller", 0>>} ELSE {})

(* A command that is open is in exactly one place: the hand of the caller,   *)
(* one queue, or one thread.  A command that has been refused or executed,   *)
(* well or not, is nowhere: it is never executed again (point 5 of the       *)
(* comment of sentinel_factory.h).                                           *)
CommandInOnePlace ==
    \A c \in Cmds :
      IF outcome[c] = "open" THEN \E p \in Places(c) : Places(c) = {p}
                             ELSE Places(c) = {}

(* The promise of CommandLedger, read off the concrete state. *)
StageOf(w) == IF pc[w] = "send" THEN "taken" ELSE "sent"

LedgerOf(c) ==
    IF \E w \in Workers : running[w] = c
      THEN LET w == CHOOSE v \in Workers : running[v] = c
           IN <<StageOf(w), w>>
    ELSE IF \E w \in Workers : c \in cmds[w]
      THEN <<"queued", CHOOSE w \in Workers : c \in cmds[w]>>
    ELSE <<outcome[c], None>>

LedgerMap == [c \in Cmds |-> LedgerOf(c)]

Ledger == INSTANCE CommandLedger WITH ledger <- LedgerMap

(* The pool keeps the promise of CommandLedger for every command. *)
KeepsLedger == Ledger!Spec

-----------------------------------------------------------------------------
(* Liveness, under Fairness.                                                 *)

(* Control tasks of which P holds come to the queue of w for ever. *)
ComeForEver(w, P(_)) ==
    []<><<\E t \in ControlTasks : P(t) /\ ctl'[w][t] > ctl[w][t]>>_vars

(* A thread left on a node that is no longer the master makes a client for   *)
(* the master, unless the master changes again, the thread ends, or tasks    *)
(* that overtake MasterChange in the queue come for ever.                    *)
FollowsMaster ==
    \A w \in Workers, n \in Nodes :
      \/ ComeForEver(w, LAMBDA t : t < MasterChange)
      \/ (master = n /\ addr[w] # At(n))
           ~> (master # n \/ addr[w] = At(n) \/ pc[w] = "exited")

(* A command a queue accepted is taken by the thread of that queue, unless   *)
(* the thread ends: also while the connection is down or the master is down, *)
(* and behind the control tasks that are there or still come.  Only if they  *)
(* come for ever may it wait for ever: they go first, and while the thread   *)
(* tries to connect the next check_and_retry_master may already be queued.   *)
AcceptedIsTaken ==
    \A w \in Workers, c \in Cmds :
      \/ ComeForEver(w, LAMBDA t : TRUE)
      \/ (c \in cmds[w]) ~> (c \notin cmds[w] \/ pc[w] = "exited")

(* stop() returns when every thread had ended or passed its start-up part    *)
(* before the stop flag was set; a thread that is still starting clears the  *)
(* flag again.                                                               *)
StopReturns ==
    (stopPc = "join" /\ \A w \in Workers : started[w] \/ pc[w] = "exited")
       /\ cmdStop ~> stopPc = "done"

(* start() returns when stop() reaches the subscription while it receives,   *)
(* be it in the middle of an event.                                          *)
StopEndsReceiving ==
    (evPc \in {"recv", "push"} /\ subStop) ~> evPc = "returned"

=============================================================================
