------------------------ MODULE SentinelFactoryProofs ------------------------
(***************************************************************************)
(* Invariants of SentinelFactory for every number of workers, nodes and    *)
(* commands, and its refinement of CommandLedger.                          *)
(***************************************************************************)
EXTENDS SentinelFactory, TLAPS

(* A worker index and the loops over the queues. *)
LEMMA WorkersFact ==
    /\ 0 \in Workers
    /\ \A i \in Workers : i \in Int /\ 0 <= i /\ i < NumWorkers
    /\ \A i \in Workers : i + 1 < NumWorkers => i + 1 \in Workers
    /\ \A i \in 0 .. NumWorkers : ~(i >= NumWorkers) => i \in Workers
BY NumWorkersAssumption DEF Workers

(* Every event makes a control task. *)
LEMMA TasksFact == \A e \in Events : TaskOf[e] \in ControlTasks
BY EventsAssumption
   DEF TaskOf, Invalid, CheckMaster, MasterObjDown, MasterObjUp, MasterChange,
       ControlTasks

(* What M_ERROR does with a control task: it writes the state of its own     *)
(* thread only, and goes on in the loop, to a check or to a reconnect.       *)
LEMMA HandleFact ==
    ASSUME NEW w \in Workers, NEW t \in ControlTasks, TypeOK, Handle(w, t)
    PROVE  /\ qstate' \in [Workers -> 0 .. 2]
           /\ st' \in [Workers -> 0 .. 3]
           /\ addr' \in [Workers -> Addresses]
           /\ link' \in [Workers -> {"closed", "unverified", "verified"}]
           /\ pc' \in [Workers -> {"addr", "connect", "role", "loop", "awake",
                                    "send", "reply", "check", "exited"}]
           /\ pc'[w] \in {"loop", "check", "addr"}
           /\ \A v \in Workers \ {w} : /\ pc'[v] = pc[v]
                                       /\ qstate'[v] = qstate[v]
                                       /\ link'[v] = link[v]
                                       /\ addr'[v] = addr[v]
<1>1. CASE Ignore(w, t)
  BY <1>1 DEF TypeOK, Ignore
<1>2. CASE CheckLink(w, t)
  BY <1>2 DEF TypeOK, CheckLink
<1>3. CASE Reconnect(w, t)
  BY <1>3 DEF TypeOK, Reconnect, StartReconnect, Addresses, NoAddr
<1>4. CASE Park(w, t)
  BY <1>4 DEF TypeOK, Park
<1>5. QED
  BY <1>1, <1>2, <1>3, <1>4 DEF Handle

(* A thread has a command in hand exactly while it sends it or waits for its *)
(* reply, the caller exactly inside async_command, which has wrapped turn.   *)
InHand ==
    /\ \A w \in Workers : running[w] # None <=> pc[w] \in {"send", "reply"}
    /\ appCmd # None <=> appPc \in {"scan", "push"}
    /\ appCmd # None => turn \in Workers

(* Every variable keeps its type: the loop indices and turn stay inside      *)
(* _qu_group, and no queue is popped when it is empty.  It takes InHand: the *)
(* command pushed or finished is then a command.                             *)
THEOREM TypeCorrect == Spec => [](TypeOK /\ InHand)
<1>1. Init => TypeOK /\ InHand
  BY WorkersFact, NumWorkersAssumption
     DEF Init, TypeOK, InHand, Fields, Addresses, NoAddr, Outcomes, Invalid,
         ControlTasks
<1>2. ASSUME TypeOK, InHand, [Next]_vars PROVE TypeOK' /\ InHand' 
  <2>1. CASE UNCHANGED vars
    BY <2>1, <1>2 DEF TypeOK, InHand, vars, workerVars, eventVars, appVars
  <2>2. ASSUME NEW w \in Workers, NEW f \in Fields, ReadField(w, f) PROVE (TypeOK /\ InHand)'
    BY <2>2, <1>2 DEF TypeOK, InHand, ReadField, Addresses, eventVars,
      appVars
  <2>3. ASSUME NEW w \in Workers, ConnectOk(w) PROVE (TypeOK /\ InHand)'
    BY <2>3, <1>2 DEF TypeOK, InHand, ConnectOk, eventVars, appVars
  <2>4. ASSUME NEW w \in Workers, ConnectFails(w) PROVE (TypeOK /\ InHand)'
    BY <2>4, <1>2 DEF TypeOK, InHand, ConnectFails, GiveUp, eventVars,
      appVars
  <2>5. ASSUME NEW w \in Workers, RoleIsMaster(w) PROVE (TypeOK /\ InHand)'
    BY <2>5, <1>2 DEF TypeOK, InHand, RoleIsMaster, eventVars, appVars
  <2>6. ASSUME NEW w \in Workers, RoleIsOther(w) PROVE (TypeOK /\ InHand)'
    BY <2>6, <1>2 DEF TypeOK, InHand, RoleIsOther, GiveUp, eventVars, appVars
  <2>7. ASSUME NEW w \in Workers, Awake(w) \/ FindsNothing(w) \/ Exit(w)
        PROVE  (TypeOK /\ InHand)'
    <3>1. CASE Awake(w)
      BY <3>1, <1>2 DEF TypeOK, InHand, Awake, eventVars, appVars
    <3>2. CASE FindsNothing(w)
      BY <3>2, <1>2 DEF TypeOK, InHand, FindsNothing, eventVars, appVars
    <3>3. CASE Exit(w)
      BY <3>3, <1>2 DEF TypeOK, InHand, Exit, eventVars, appVars
    <3>4. QED
      BY <2>7, <3>1, <3>2, <3>3
  <2>8. ASSUME NEW w \in Workers, TakeControl(w) PROVE (TypeOK /\ InHand)'
    <3>1. PICK t \in ControlTasks :
            IsTop(w, t) /\ ctl' = [ctl EXCEPT ![w][t] = @ - 1] /\ Handle(w, t)
      BY <2>8 DEF TakeControl
    <3>2. ctl' \in [Workers -> [ControlTasks -> Nat]]
      BY <3>1, <1>2 DEF TypeOK, IsTop
    <3>3. /\ qstate' \in [Workers -> 0 .. 2]
          /\ st' \in [Workers -> 0 .. 3]
          /\ addr' \in [Workers -> Addresses]
          /\ link' \in [Workers -> {"closed", "unverified", "verified"}]
          /\ pc' \in [Workers -> {"addr", "connect", "role", "loop", "awake",
                                   "send", "reply", "check", "exited"}]
      BY <3>1, <1>2, HandleFact
    <3>4. TypeOK'
      BY <2>8, <3>2, <3>3, <1>2 DEF TypeOK, TakeControl, eventVars, appVars
    <3>5. InHand'
      BY <2>8, <3>1, <1>2, HandleFact DEF InHand, TakeControl, appVars
    <3>6. QED
      BY <3>4, <3>5
  <2>9. ASSUME NEW w \in Workers, TakeCommand(w) PROVE (TypeOK /\ InHand)'
    BY <2>9, <1>2, NoneAssumption DEF TypeOK, InHand, TakeCommand, eventVars,
      appVars
  <2>10. ASSUME NEW w \in Workers, SendOk(w) PROVE (TypeOK /\ InHand)'
    BY <2>10, <1>2 DEF TypeOK, InHand, SendOk, eventVars, appVars
  <2>11. ASSUME NEW w \in Workers, SendFails(w) PROVE (TypeOK /\ InHand)'
    BY <2>11, <1>2 DEF TypeOK, InHand, SendFails, Finish, Outcomes,
      eventVars, appVars
  <2>12. ASSUME NEW w \in Workers, ReplyOk(w) PROVE (TypeOK /\ InHand)'
    BY <2>12, <1>2 DEF TypeOK, InHand, ReplyOk, Finish, Outcomes, eventVars,
      appVars
  <2>13. ASSUME NEW w \in Workers, ReplyFails(w) PROVE (TypeOK /\ InHand)'
    <3>1. CheckMaster \in ControlTasks
      BY DEF CheckMaster, ControlTasks
    <3>2. Handle(w, CheckMaster)
      BY <2>13 DEF ReplyFails
    <3>3. /\ outcome' \in [Cmds -> Outcomes]
          /\ running' = [running EXCEPT ![w] = None]
      BY <2>13, <1>2 DEF TypeOK, InHand, ReplyFails, Finish, Outcomes
    <3>4. /\ qstate' \in [Workers -> 0 .. 2]
          /\ st' \in [Workers -> 0 .. 3]
          /\ addr' \in [Workers -> Addresses]
          /\ link' \in [Workers -> {"closed", "unverified", "verified"}]
          /\ pc' \in [Workers -> {"addr", "connect", "role", "loop", "awake",
                                   "send", "reply", "check", "exited"}]
      BY <3>1, <3>2, <1>2, HandleFact
    <3>5. TypeOK'
      BY <2>13, <3>3, <3>4, <1>2 DEF TypeOK, ReplyFails, eventVars, appVars
    <3>6. InHand'
      BY <2>13, <3>1, <3>2, <3>3, <1>2, HandleFact
         DEF TypeOK, InHand, ReplyFails, appVars
    <3>7. QED
      BY <3>5, <3>6
  <2>14. ASSUME NEW w \in Workers, CheckOk(w) PROVE (TypeOK /\ InHand)'
    BY <2>14, <1>2 DEF TypeOK, InHand, CheckOk, eventVars, appVars
  <2>15. ASSUME NEW w \in Workers, CheckFails(w) PROVE (TypeOK /\ InHand)'
    BY <2>15, <1>2 DEF TypeOK, InHand, CheckFails, StartReconnect, Addresses,
      NoAddr, eventVars, appVars
  <2>16. CASE Start
    BY <2>16, <1>2 DEF TypeOK, InHand, Start, workerVars, appVars
  <2>17. CASE SubscribeOk
    BY <2>17, <1>2 DEF TypeOK, InHand, SubscribeOk, workerVars, appVars
  <2>18. CASE SubscriptionEnds
    BY <2>18, <1>2 DEF TypeOK, InHand, SubscriptionEnds, workerVars, appVars
  <2>19. CASE RecvStops
    BY <2>19, <1>2 DEF TypeOK, InHand, RecvStops, workerVars, appVars
  <2>20. CASE ReceiveEvent
    BY <2>20, <1>2, WorkersFact, TasksFact DEF TypeOK, InHand, ReceiveEvent,
      workerVars, appVars
  <2>21. CASE PushEvent
    BY <2>21, <1>2, WorkersFact DEF TypeOK, InHand, PushEvent, ControlTasks,
      workerVars, appVars
  <2>22. ASSUME NEW c \in Cmds, AsyncCall(c) PROVE (TypeOK /\ InHand)'
    <3> DEFINE t == IF turn >= NumWorkers THEN 0 ELSE turn
    <3>1. t \in Workers /\ t \in 0 .. NumWorkers
      BY <1>2, WorkersFact, NumWorkersAssumption DEF TypeOK
    <3>2. /\ turn' = t
          /\ \/ appPc' = "scan" /\ appIdx' = 0
             \/ appPc' = "push" /\ appIdx' = t
      BY <2>22 DEF AsyncCall
    <3> HIDE DEF t
    <3>3. QED
      BY <2>22, <3>1, <3>2, <1>2, WorkersFact, NoneAssumption
         DEF TypeOK, InHand, AsyncCall, Outcomes, workerVars, eventVars
  <2>23. CASE ScanFinds
    BY <2>23, <1>2 DEF TypeOK, InHand, ScanFinds, workerVars, eventVars,
      appVars
  <2>24. CASE ScanMisses
    <3>1. CASE appIdx + 1 < NumWorkers
      BY <2>24, <3>1, <1>2, WorkersFact
         DEF TypeOK, InHand, ScanMisses, workerVars, eventVars
    <3>2. CASE ~(appIdx + 1 < NumWorkers)
      <4>1. /\ appIdx' = 0 /\ appPc' = "idle" /\ appCmd' = None
            /\ turn' = turn + 1
            /\ outcome' = [outcome EXCEPT ![appCmd] = "refused"]
        BY <2>24, <3>2 DEF ScanMisses
      <4>2. turn' \in 0 .. NumWorkers
        BY <2>24, <4>1, <1>2, WorkersFact, NumWorkersAssumption
           DEF ScanMisses, TypeOK, InHand
      <4>3. QED
        BY <2>24, <4>1, <4>2, <1>2, WorkersFact
           DEF TypeOK, InHand, ScanMisses, Outcomes, workerVars, eventVars
    <3>3. QED
      BY <3>1, <3>2
  <2>25. CASE PushCommand
    BY <2>25, <1>2, WorkersFact DEF TypeOK, InHand, PushCommand, workerVars,
      eventVars, appVars
  <2>26. CASE RetryCall
    BY <2>26, <1>2, WorkersFact DEF TypeOK, InHand, RetryCall, workerVars,
      eventVars, appVars
  <2>27. CASE RetryLook
    BY <2>27, <1>2, WorkersFact DEF TypeOK, InHand, RetryLook, NextQueue,
      workerVars, eventVars, appVars
  <2>28. CASE RetryPush
    BY <2>28, <1>2, WorkersFact DEF TypeOK, InHand, RetryPush, NextQueue,
      ControlTasks, MasterCheck, workerVars, eventVars, appVars
  <2>29. CASE Stop
    BY <2>29, <1>2 DEF TypeOK, InHand, Stop, workerVars, eventVars, appVars
  <2>30. CASE StopSubscription
    BY <2>30, <1>2 DEF TypeOK, InHand, StopSubscription, workerVars,
      eventVars, appVars
  <2>31. CASE Join
    BY <2>31, <1>2 DEF TypeOK, InHand, Join, workerVars, eventVars, appVars
  <2>32. QED
    BY <2>1, <2>2, <2>3, <2>4, <2>5, <2>6, <2>7, <2>8, <2>9, <2>10, <2>11,
      <2>12, <2>13, <2>14, <2>15, <2>16, <2>17, <2>18, <2>19, <2>20, <2>21,
      <2>22, <2>23, <2>24, <2>25, <2>26, <2>27, <2>28, <2>29, <2>30, <2>31,
      <1>2 DEF Next, WorkerStep, EventStep, AppStep, StopStep
<1>3. QED
  BY <1>1, <1>2, PTL DEF Spec

(* The address of a client and _master_node: SettledOnMaster is inductive.   *)
(* A field read after a switch belongs to the new master; a switch makes the *)
(* task due for every thread at once, PushEvent turns "will be pushed" into  *)
(* "is queued", and only a reconnect, which forgets the address, takes it.   *)
THEOREM FollowsSwitches == Spec => []SettledOnMaster
<1>1. Init => SettledOnMaster
  BY DEF Init, SettledOnMaster, ReadsMaster, NoAddr, Fields
<1>2. ASSUME TypeOK, InHand, SettledOnMaster, [Next]_vars PROVE SettledOnMaster'
  <2>1. CASE UNCHANGED vars
    BY <2>1, <1>2 DEF TypeOK, SettledOnMaster, ReadsMaster, ChangeDue, vars,
      workerVars, eventVars, appVars
  <2>2. ASSUME NEW w \in Workers, NEW f \in Fields, ReadField(w, f)
        PROVE  SettledOnMaster'
    BY <2>2, <1>2 DEF TypeOK, SettledOnMaster, ReadsMaster, ChangeDue,
      ReadField, Addresses, eventVars, appVars
  <2>3. ASSUME NEW w \in Workers, TakeControl(w)
        PROVE  SettledOnMaster'
    <3>1. PICK t \in ControlTasks :
            IsTop(w, t) /\ ctl' = [ctl EXCEPT ![w][t] = @ - 1] /\ Handle(w, t)
      BY <2>3 DEF TakeControl
    <3>2. CASE t = MasterChange
      <4>1. addr' = [addr EXCEPT ![w] = NoAddr]
        BY <3>1, <3>2 DEF Handle, Ignore, Ignores, CheckLink, Reconnect, Park,
             StartReconnect, Invalid, CheckMaster, MasterObjDown, MasterObjUp,
             MasterChange, MasterCheck
      <4>2. ReadsMaster(w)'
        BY <4>1, <1>2 DEF TypeOK, ReadsMaster, NoAddr
      <4>3. ASSUME NEW v \in Workers, v # w, ReadsMaster(v) \/ ChangeDue(v)
            PROVE  (ReadsMaster(v) \/ ChangeDue(v))'
        BY <2>3, <3>1, <4>1, <4>3, <1>2
           DEF TypeOK, ReadsMaster, ChangeDue, TakeControl, eventVars,
               MasterChange, ControlTasks
      <4>4. \A v \in Workers \ {w} : pc'[v] = pc[v]
        BY <3>1, <1>2, HandleFact
      <4>5. QED
        BY <4>2, <4>3, <4>4, <1>2 DEF SettledOnMaster
    <3>3. CASE t # MasterChange
      <4>1. ASSUME NEW v \in Workers, ChangeDue(v) PROVE ChangeDue(v)'
        BY <2>3, <3>1, <3>3, <4>1, <1>2
           DEF TypeOK, ChangeDue, TakeControl, eventVars, MasterChange,
               ControlTasks
      <4>2. addr' = addr \/ addr' = [addr EXCEPT ![w] = NoAddr]
        BY <3>1 DEF Handle, Ignore, CheckLink, Reconnect, Park, StartReconnect
      <4>3. ASSUME NEW v \in Workers, ReadsMaster(v) PROVE ReadsMaster(v)'
        BY <2>3, <4>2, <4>3, <1>2 DEF TypeOK, ReadsMaster, NoAddr, TakeControl
      <4>4. \A v \in Workers : pc'[v] # "exited" => pc[v] # "exited"
        BY <2>3, <3>1, <1>2, HandleFact DEF TakeControl
      <4>5. QED
        BY <4>1, <4>3, <4>4, <1>2 DEF SettledOnMaster
    <3>4. QED
      BY <3>2, <3>3
  <2>4. ASSUME NEW w \in Workers, ReplyFails(w)
        PROVE  SettledOnMaster'
    <3>1. Handle(w, CheckMaster) /\ CheckMaster \in ControlTasks
      BY <2>4 DEF ReplyFails, CheckMaster, ControlTasks
    <3>2. addr' = addr \/ addr' = [addr EXCEPT ![w] = NoAddr]
      BY <3>1 DEF Handle, Ignore, CheckLink, Reconnect, Park, StartReconnect
    <3>3. ASSUME NEW v \in Workers, ReadsMaster(v) PROVE ReadsMaster(v)'
      BY <2>4, <3>2, <3>3, <1>2 DEF TypeOK, ReadsMaster, NoAddr, ReplyFails
    <3>4. \A v \in Workers : pc'[v] # "exited" => pc[v] # "exited"
      BY <2>4, <3>1, <1>2, HandleFact DEF ReplyFails
    <3>5. QED
      BY <2>4, <3>3, <3>4, <1>2
         DEF SettledOnMaster, ChangeDue, ReplyFails, eventVars
  <2>5. ASSUME NEW w \in Workers, CheckFails(w)
        PROVE  SettledOnMaster'
    BY <2>5, <1>2 DEF TypeOK, SettledOnMaster, ReadsMaster, ChangeDue,
      CheckFails, StartReconnect, NoAddr, eventVars, appVars
  <2>6. ASSUME NEW w \in Workers,
               ConnectOk(w) \/ ConnectFails(w) \/ RoleIsMaster(w) \/
                 RoleIsOther(w) \/ Awake(w) \/ FindsNothing(w) \/ Exit(w) \/
                 TakeCommand(w) \/ SendOk(w) \/ SendFails(w) \/ ReplyOk(w) \/
                 CheckOk(w)
        PROVE  SettledOnMaster'
    BY <2>6, <1>2 DEF TypeOK, SettledOnMaster, ReadsMaster, ChangeDue,
      ConnectOk, ConnectFails, GiveUp, RoleIsMaster, RoleIsOther, Awake,
      FindsNothing, Exit, TakeCommand, SendOk, SendFails, Finish, ReplyOk,
      CheckOk, eventVars, appVars
  <2>7. CASE ReceiveEvent
    <3>1. CASE evTask' = MasterChange
      BY <2>7, <3>1, <1>2, WorkersFact
         DEF SettledOnMaster, ChangeDue, ReceiveEvent
    <3>2. CASE evTask' # MasterChange
      <4>1. master' = master
        BY <2>7, <3>2, EventsAssumption DEF ReceiveEvent, TaskOf
      <4>2. ASSUME NEW w \in Workers, ChangeDue(w) PROVE ChangeDue(w)'
        BY <2>7, <4>2 DEF ChangeDue, ReceiveEvent
      <4>3. ASSUME NEW w \in Workers, ReadsMaster(w) PROVE ReadsMaster(w)'
        BY <2>7, <4>1, <4>3 DEF ReadsMaster, ReceiveEvent, workerVars
      <4>4. QED
        BY <2>7, <4>2, <4>3, <1>2 DEF SettledOnMaster, ReceiveEvent, workerVars
    <3>3. QED
      BY <3>1, <3>2
  <2>8. CASE PushEvent
    <3>1. ASSUME NEW w \in Workers, ChangeDue(w) PROVE ChangeDue(w)'
      <4>1. CASE ctl[w][MasterChange] > 0
        BY <2>8, <4>1, <1>2
           DEF TypeOK, ChangeDue, PushEvent, MasterChange, ControlTasks
      <4>2. CASE evTask = MasterChange /\ evIdx = w
        BY <2>8, <4>2, <1>2
           DEF TypeOK, ChangeDue, PushEvent, MasterChange, ControlTasks
      <4>3. evIdx \in Int /\ w \in Int /\ w < NumWorkers
        BY <1>2, WorkersFact DEF TypeOK
      <4>4. CASE evTask = MasterChange /\ evIdx + 1 <= w
        BY <2>8, <4>3, <4>4, NumWorkersAssumption DEF ChangeDue, PushEvent
      <4>5. QED
        BY <3>1, <4>1, <4>2, <4>3, <4>4 DEF ChangeDue
    <3>2. QED
      BY <2>8, <3>1, <1>2
         DEF SettledOnMaster, ReadsMaster, PushEvent, workerVars
  <2>9. CASE Start \/ SubscribeOk \/ SubscriptionEnds \/ RecvStops
    BY <2>9, <1>2 DEF TypeOK, SettledOnMaster, ReadsMaster, ChangeDue, Start,
      SubscribeOk, SubscriptionEnds, RecvStops, workerVars, appVars
  <2>10. CASE RetryPush
    BY <2>10, <1>2 DEF TypeOK, SettledOnMaster, ReadsMaster, ChangeDue,
      RetryPush, NextQueue, MasterChange, MasterCheck, ControlTasks,
      workerVars, eventVars, appVars
  <2>11. CASE (\E c \in Cmds : AsyncCall(c)) \/ ScanFinds \/ ScanMisses \/
    PushCommand \/ RetryCall \/ RetryLook
    BY <2>11, <1>2 DEF TypeOK, SettledOnMaster, ReadsMaster, ChangeDue,
      AsyncCall, ScanFinds, ScanMisses, PushCommand, RetryCall, RetryLook,
      NextQueue, workerVars, eventVars, appVars
  <2>12. CASE Stop \/ StopSubscription \/ Join
    BY <2>12, <1>2 DEF TypeOK, SettledOnMaster, ReadsMaster, ChangeDue, Stop,
      StopSubscription, Join, workerVars, eventVars, appVars
  <2>13. QED
    BY <2>1, <2>2, <2>3, <2>4, <2>5, <2>6, <2>7, <2>8, <2>9, <2>10, <2>11,
      <2>12, <1>2 DEF Next, WorkerStep, EventStep, AppStep, StopStep
<1>3. QED
  BY <1>1, <1>2, TypeCorrect, PTL DEF Spec

(* UsableIsConnected is not inductive: the reply and the reconnect need what *)
(* the earlier steps of the thread have left.                                *)
LinkInv ==
    /\ UsableIsConnected
    /\ \A w \in Workers : pc[w] \in {"role", "reply"} => link[w] # "closed"
    /\ \A w \in Workers : pc[w] \in {"addr", "connect", "role"} => qstate[w] = 2

(* A queue that shows 0 belongs to a thread whose client is connected.       *)
THEOREM UsableLink == Spec => []LinkInv
<1>1. Init => LinkInv
  BY DEF Init, LinkInv, UsableIsConnected
<1>2. ASSUME TypeOK, InHand, LinkInv, [Next]_vars PROVE LinkInv'
  <2>1. CASE UNCHANGED vars
    BY <2>1, <1>2 DEF TypeOK, LinkInv, UsableIsConnected, vars, workerVars,
      eventVars, appVars
  <2>2. ASSUME NEW w \in Workers, ConnectOk(w)
        PROVE  LinkInv'
    BY <2>2, <1>2 DEF TypeOK, LinkInv, UsableIsConnected, ConnectOk,
      eventVars, appVars
  <2>3. ASSUME NEW w \in Workers, ConnectFails(w)
        PROVE  LinkInv'
    BY <2>3, <1>2 DEF TypeOK, LinkInv, UsableIsConnected, ConnectFails,
      GiveUp, eventVars, appVars
  <2>4. ASSUME NEW w \in Workers, RoleIsMaster(w)
        PROVE  LinkInv'
    BY <2>4, <1>2 DEF TypeOK, LinkInv, UsableIsConnected, RoleIsMaster,
      eventVars, appVars
  <2>5. ASSUME NEW w \in Workers, RoleIsOther(w)
        PROVE  LinkInv'
    BY <2>5, <1>2 DEF TypeOK, LinkInv, UsableIsConnected, RoleIsOther,
      GiveUp, eventVars, appVars
  <2>6. ASSUME NEW w \in Workers, Awake(w) \/ FindsNothing(w) \/ Exit(w)
        PROVE  LinkInv'
    <3>1. CASE Awake(w)
      BY <3>1, <1>2 DEF TypeOK, LinkInv, UsableIsConnected, Awake, eventVars,
           appVars
    <3>2. CASE FindsNothing(w)
      BY <3>2, <1>2 DEF TypeOK, LinkInv, UsableIsConnected, FindsNothing,
           eventVars, appVars
    <3>3. CASE Exit(w)
      BY <3>3, <1>2 DEF TypeOK, LinkInv, UsableIsConnected, Exit, eventVars,
           appVars
    <3>4. QED
      BY <2>6, <3>1, <3>2, <3>3
  <2>7. ASSUME NEW w \in Workers, TakeControl(w)
        PROVE  LinkInv'
    <3>1. PICK t \in ControlTasks : Handle(w, t)
      BY <2>7 DEF TakeControl
    <3>2. CASE Ignore(w, t)
      BY <2>7, <3>2, <1>2 DEF TakeControl, Ignore, TypeOK, LinkInv, UsableIsConnected
    <3>3. CASE CheckLink(w, t)
      BY <2>7, <3>3, <1>2 DEF TakeControl, CheckLink, TypeOK, LinkInv, UsableIsConnected
    <3>4. CASE Reconnect(w, t)
      BY <2>7, <3>4, <1>2 DEF TakeControl, Reconnect, StartReconnect, TypeOK, LinkInv, UsableIsConnected
    <3>5. CASE Park(w, t)
      BY <2>7, <3>5, <1>2 DEF TakeControl, Park, TypeOK, LinkInv, UsableIsConnected
    <3>6. QED
      BY <3>1, <3>2, <3>3, <3>4, <3>5 DEF Handle
  <2>8. ASSUME NEW w \in Workers, TakeCommand(w)
        PROVE  LinkInv'
    BY <2>8, <1>2 DEF TypeOK, LinkInv, UsableIsConnected, TakeCommand,
      eventVars, appVars
  <2>9. ASSUME NEW w \in Workers, SendOk(w)
        PROVE  LinkInv'
    BY <2>9, <1>2 DEF TypeOK, LinkInv, UsableIsConnected, SendOk, eventVars,
      appVars
  <2>10. ASSUME NEW w \in Workers, SendFails(w)
        PROVE  LinkInv'
    BY <2>10, <1>2 DEF TypeOK, LinkInv, UsableIsConnected, SendFails, Finish,
      eventVars, appVars
  <2>11. ASSUME NEW w \in Workers, ReplyOk(w)
        PROVE  LinkInv'
    BY <2>11, <1>2 DEF TypeOK, LinkInv, UsableIsConnected, ReplyOk, Finish,
      eventVars, appVars
  <2>12. ASSUME NEW w \in Workers, ReplyFails(w)
        PROVE  LinkInv'
    <3>1. Handle(w, CheckMaster)
      BY <2>12 DEF ReplyFails
    <3>2. CASE Ignore(w, CheckMaster)
      BY <2>12, <3>2, <1>2 DEF ReplyFails, Ignore, TypeOK, LinkInv, UsableIsConnected
    <3>3. CASE CheckLink(w, CheckMaster)
      BY <2>12, <3>3, <1>2 DEF ReplyFails, CheckLink, TypeOK, LinkInv, UsableIsConnected
    <3>4. CASE Reconnect(w, CheckMaster)
      BY <2>12, <3>4, <1>2 DEF ReplyFails, Reconnect, StartReconnect, TypeOK, LinkInv, UsableIsConnected
    <3>5. CASE Park(w, CheckMaster)
      BY <2>12, <3>5, <1>2 DEF ReplyFails, Park, TypeOK, LinkInv, UsableIsConnected
    <3>6. QED
      BY <3>1, <3>2, <3>3, <3>4, <3>5 DEF Handle
  <2>13. ASSUME NEW w \in Workers, CheckOk(w)
        PROVE  LinkInv'
    BY <2>13, <1>2 DEF TypeOK, LinkInv, UsableIsConnected, CheckOk,
      eventVars, appVars
  <2>14. ASSUME NEW w \in Workers, CheckFails(w)
        PROVE  LinkInv'
    BY <2>14, <1>2 DEF TypeOK, LinkInv, UsableIsConnected, CheckFails,
      StartReconnect, eventVars, appVars
  <2>15. ASSUME NEW w \in Workers,
               (\E f \in Fields : ReadField(w, f))
        PROVE  LinkInv'
    BY <2>15, <1>2 DEF TypeOK, LinkInv, UsableIsConnected, ReadField,
      eventVars, appVars
  <2>16. CASE Start \/ SubscribeOk \/ SubscriptionEnds \/ RecvStops \/
    ReceiveEvent \/ PushEvent
    BY <2>16, <1>2 DEF TypeOK, LinkInv, UsableIsConnected, Start,
      SubscribeOk, SubscriptionEnds, RecvStops, ReceiveEvent, PushEvent,
      workerVars, appVars
  <2>17. CASE (\E c \in Cmds : AsyncCall(c)) \/ ScanFinds \/ ScanMisses \/
    PushCommand \/ RetryCall \/ RetryLook \/ RetryPush
    BY <2>17, <1>2 DEF TypeOK, LinkInv, UsableIsConnected, AsyncCall,
      ScanFinds, ScanMisses, PushCommand, RetryCall, RetryLook, NextQueue,
      RetryPush, workerVars, eventVars, appVars
  <2>18. CASE Stop \/ StopSubscription \/ Join
    BY <2>18, <1>2 DEF TypeOK, LinkInv, UsableIsConnected, Stop,
      StopSubscription, Join, workerVars, eventVars, appVars
  <2>19. QED
    BY <2>1, <2>2, <2>3, <2>4, <2>5, <2>6, <2>7, <2>8, <2>9, <2>10, <2>11,
      <2>12, <2>13, <2>14, <2>15, <2>16, <2>17, <2>18, <1>2 DEF Next,
      WorkerStep, EventStep, AppStep, StopStep
<1>3. QED
  BY <1>1, <1>2, TypeCorrect, PTL DEF Spec

(* The strengthening of OnlyStartedWorkersHoldCommands: what a thread that   *)
(* has not started cannot have done, and the queue async_command has chosen. *)
StartedInv ==
    /\ OnlyStartedWorkersHoldCommands
    /\ \A w \in Workers : qstate[w] # 2 => started[w]
    /\ \A w \in Workers : pc[w] \in {"loop", "awake", "send", "reply", "check"} => started[w]
    /\ appPc = "push" => started[appIdx]

(* Only a thread that has completed its start-up part is ever handed a       *)
(* command: the state seen by async_command may be stale when it pushes, but *)
(* "started" does not go away.                                               *)
THEOREM HandedToStarted == Spec => []StartedInv
<1>1. Init => StartedInv
  BY DEF Init, StartedInv, OnlyStartedWorkersHoldCommands
<1>2. ASSUME TypeOK, InHand, StartedInv, [Next]_vars PROVE StartedInv'
  <2>1. CASE UNCHANGED vars
    BY <2>1, <1>2 DEF TypeOK, InHand, StartedInv,
      OnlyStartedWorkersHoldCommands, vars, workerVars, eventVars, appVars
  <2>2. ASSUME NEW w \in Workers, ConnectOk(w)
        PROVE  StartedInv'
    BY <2>2, <1>2 DEF TypeOK, InHand, StartedInv,
      OnlyStartedWorkersHoldCommands, ConnectOk, eventVars, appVars
  <2>3. ASSUME NEW w \in Workers, ConnectFails(w)
        PROVE  StartedInv'
    BY <2>3, <1>2 DEF TypeOK, InHand, StartedInv,
      OnlyStartedWorkersHoldCommands, ConnectFails, GiveUp, eventVars,
      appVars
  <2>4. ASSUME NEW w \in Workers, RoleIsMaster(w)
        PROVE  StartedInv'
    BY <2>4, <1>2 DEF TypeOK, InHand, StartedInv,
      OnlyStartedWorkersHoldCommands, RoleIsMaster, eventVars, appVars
  <2>5. ASSUME NEW w \in Workers, RoleIsOther(w)
        PROVE  StartedInv'
    BY <2>5, <1>2 DEF TypeOK, InHand, StartedInv,
      OnlyStartedWorkersHoldCommands, RoleIsOther, GiveUp, eventVars, appVars
  <2>6. ASSUME NEW w \in Workers, Awake(w) \/ FindsNothing(w) \/ Exit(w)
        PROVE  StartedInv'
    <3>1. CASE Awake(w)
      BY <3>1, <1>2 DEF TypeOK, InHand, StartedInv,
           OnlyStartedWorkersHoldCommands, Awake, eventVars,
           appVars
    <3>2. CASE FindsNothing(w)
      BY <3>2, <1>2 DEF TypeOK, InHand, StartedInv,
           OnlyStartedWorkersHoldCommands, FindsNothing,
           eventVars, appVars
    <3>3. CASE Exit(w)
      BY <3>3, <1>2 DEF TypeOK, InHand, StartedInv,
           OnlyStartedWorkersHoldCommands, Exit, eventVars,
           appVars
    <3>4. QED
      BY <2>6, <3>1, <3>2, <3>3
  <2>7. ASSUME NEW w \in Workers, TakeControl(w)
        PROVE  StartedInv'
    <3>1. PICK t \in ControlTasks : Handle(w, t)
      BY <2>7 DEF TakeControl
    <3>2. CASE Ignore(w, t)
      BY <2>7, <3>2, <1>2 DEF TakeControl, Ignore, TypeOK, InHand, StartedInv, OnlyStartedWorkersHoldCommands, appVars
    <3>3. CASE CheckLink(w, t)
      BY <2>7, <3>3, <1>2 DEF TakeControl, CheckLink, TypeOK, InHand, StartedInv, OnlyStartedWorkersHoldCommands, appVars
    <3>4. CASE Reconnect(w, t)
      BY <2>7, <3>4, <1>2 DEF TakeControl, Reconnect, StartReconnect, TypeOK, InHand, StartedInv, OnlyStartedWorkersHoldCommands, appVars
    <3>5. CASE Park(w, t)
      BY <2>7, <3>5, <1>2 DEF TakeControl, Park, TypeOK, InHand, StartedInv, OnlyStartedWorkersHoldCommands, appVars
    <3>6. QED
      BY <3>1, <3>2, <3>3, <3>4, <3>5 DEF Handle
  <2>8. ASSUME NEW w \in Workers, TakeCommand(w)
        PROVE  StartedInv'
    BY <2>8, <1>2 DEF TypeOK, InHand, StartedInv,
      OnlyStartedWorkersHoldCommands, TakeCommand, eventVars, appVars
  <2>9. ASSUME NEW w \in Workers, SendOk(w)
        PROVE  StartedInv'
    BY <2>9, <1>2 DEF TypeOK, InHand, StartedInv,
      OnlyStartedWorkersHoldCommands, SendOk, eventVars, appVars
  <2>10. ASSUME NEW w \in Workers, SendFails(w)
        PROVE  StartedInv'
    BY <2>10, <1>2 DEF TypeOK, InHand, StartedInv,
      OnlyStartedWorkersHoldCommands, SendFails, Finish, eventVars, appVars
  <2>11. ASSUME NEW w \in Workers, ReplyOk(w)
        PROVE  StartedInv'
    BY <2>11, <1>2 DEF TypeOK, InHand, StartedInv,
      OnlyStartedWorkersHoldCommands, ReplyOk, Finish, eventVars, appVars
  <2>12. ASSUME NEW w \in Workers, ReplyFails(w)
        PROVE  StartedInv'
    <3>1. Handle(w, CheckMaster)
      BY <2>12 DEF ReplyFails
    <3>2. CASE Ignore(w, CheckMaster)
      BY <2>12, <3>2, <1>2 DEF ReplyFails, Ignore, TypeOK, InHand, StartedInv, OnlyStartedWorkersHoldCommands, Finish, appVars
    <3>3. CASE CheckLink(w, CheckMaster)
      BY <2>12, <3>3, <1>2 DEF ReplyFails, CheckLink, TypeOK, InHand, StartedInv, OnlyStartedWorkersHoldCommands, Finish, appVars
    <3>4. CASE Reconnect(w, CheckMaster)
      BY <2>12, <3>4, <1>2 DEF ReplyFails, Reconnect, StartReconnect, TypeOK, InHand, StartedInv, OnlyStartedWorkersHoldCommands, Finish, appVars
    <3>5. CASE Park(w, CheckMaster)
      BY <2>12, <3>5, <1>2 DEF ReplyFails, Park, TypeOK, InHand, StartedInv, OnlyStartedWorkersHoldCommands, Finish, appVars
    <3>6. QED
      BY <3>1, <3>2, <3>3, <3>4, <3>5 DEF Handle
  <2>13. ASSUME NEW w \in Workers, CheckOk(w)
        PROVE  StartedInv'
    BY <2>13, <1>2 DEF TypeOK, InHand, StartedInv,
      OnlyStartedWorkersHoldCommands, CheckOk, eventVars, appVars
  <2>14. ASSUME NEW w \in Workers, CheckFails(w)
        PROVE  StartedInv'
    BY <2>14, <1>2 DEF TypeOK, InHand, StartedInv,
      OnlyStartedWorkersHoldCommands, CheckFails, StartReconnect, eventVars,
      appVars
  <2>15. ASSUME NEW w \in Workers,
               (\E f \in Fields : ReadField(w, f))
        PROVE  StartedInv'
    BY <2>15, <1>2 DEF TypeOK, InHand, StartedInv,
      OnlyStartedWorkersHoldCommands, ReadField, eventVars, appVars
  <2>16. CASE Start \/ SubscribeOk \/ SubscriptionEnds \/ RecvStops \/
    ReceiveEvent \/ PushEvent
    BY <2>16, <1>2 DEF TypeOK, InHand, StartedInv,
      OnlyStartedWorkersHoldCommands, Start, SubscribeOk, SubscriptionEnds,
      RecvStops, ReceiveEvent, PushEvent, workerVars, appVars
  <2>17. ASSUME NEW c \in Cmds, AsyncCall(c)
        PROVE  StartedInv'
    <3> DEFINE t == IF turn >= NumWorkers THEN 0 ELSE turn
    <3>1. t \in Workers
      BY <1>2, WorkersFact, NumWorkersAssumption DEF TypeOK
    <3>2. appPc' = "push" => appIdx' = t /\ qstate[t] # 2
      BY <2>17 DEF AsyncCall
    <3> HIDE DEF t
    <3>3. QED
      BY <2>17, <3>1, <3>2, <1>2
         DEF StartedInv, OnlyStartedWorkersHoldCommands, AsyncCall, workerVars
  <2>18. CASE ScanFinds
    BY <2>18, <1>2 DEF TypeOK, InHand, StartedInv,
      OnlyStartedWorkersHoldCommands, ScanFinds, workerVars, eventVars,
      appVars
  <2>19. CASE ScanMisses
    BY <2>19, <1>2, WorkersFact DEF TypeOK, InHand, StartedInv,
      OnlyStartedWorkersHoldCommands, ScanMisses, workerVars, eventVars,
      appVars
  <2>20. CASE PushCommand
    BY <2>20, <1>2 DEF TypeOK, InHand, StartedInv,
      OnlyStartedWorkersHoldCommands, PushCommand, workerVars, eventVars,
      appVars
  <2>21. CASE RetryCall
    BY <2>21, <1>2, WorkersFact DEF TypeOK, InHand, StartedInv,
      OnlyStartedWorkersHoldCommands, RetryCall, workerVars, eventVars,
      appVars
  <2>22. CASE RetryLook
    BY <2>22, <1>2, WorkersFact DEF TypeOK, InHand, StartedInv,
      OnlyStartedWorkersHoldCommands, RetryLook, NextQueue, workerVars,
      eventVars, appVars
  <2>23. CASE RetryPush
    BY <2>23, <1>2, WorkersFact DEF TypeOK, InHand, StartedInv,
      OnlyStartedWorkersHoldCommands, RetryPush, NextQueue, workerVars,
      eventVars, appVars
  <2>24. CASE Stop \/ StopSubscription \/ Join
    BY <2>24, <1>2 DEF TypeOK, InHand, StartedInv,
      OnlyStartedWorkersHoldCommands, Stop, StopSubscription, Join,
      workerVars, eventVars, appVars
  <2>25. QED
    BY <2>1, <2>2, <2>3, <2>4, <2>5, <2>6, <2>7, <2>8, <2>9, <2>10, <2>11,
      <2>12, <2>13, <2>14, <2>15, <2>16, <2>17, <2>18, <2>19, <2>20, <2>21,
      <2>22, <2>23, <2>24, <1>2 DEF Next, WorkerStep, EventStep, AppStep,
      StopStep
<1>3. QED
  BY <1>1, <1>2, TypeCorrect, PTL DEF Spec

(* A queue that shows 0 belongs to a running thread whose client is          *)
(* connected.                                                                *)
THEOREM UsableConnected == Spec => []UsableIsConnected
<1>1. LinkInv => UsableIsConnected
  BY DEF LinkInv
<1>2. QED
  BY <1>1, UsableLink, PTL

(* The commands in a queue or in a thread are those of started threads.      *)
THEOREM StartedHold == Spec => []OnlyStartedWorkersHoldCommands
<1>1. StartedInv => OnlyStartedWorkersHoldCommands
  BY DEF StartedInv
<1>2. QED
  BY <1>1, HandedToStarted, PTL

(* CommandInOnePlace, place by place: whoever holds a command holds an open  *)
(* one and holds it alone; and an open command is held.                      *)
Exclusive ==
    /\ \A w \in Workers : \A c \in cmds[w] :
         /\ outcome[c] = "open" /\ appCmd # c
         /\ \A v \in Workers : running[v] # c /\ (c \in cmds[v] => v = w)
    /\ \A w \in Workers : running[w] # None =>
         /\ outcome[running[w]] = "open" /\ appCmd # running[w]
         /\ \A v \in Workers : running[v] = running[w] => v = w
    /\ appCmd # None => outcome[appCmd] = "open"

SomewhereIfOpen ==
    \A c \in Cmds : outcome[c] = "open" =>
      appCmd = c \/ \E w \in Workers : c \in cmds[w] \/ running[w] = c

OnePlaceInv == Exclusive /\ SomewhereIfOpen

(* A command is handed from the caller to a queue to a thread and never      *)
(* copied: the caller has it before its outcome is open to anyone else, the  *)
(* push and the pop move it, and the end of its execution closes it.         *)
THEOREM HandedOver == Spec => []OnePlaceInv
<1>1. Init => OnePlaceInv
  BY DEF Init, OnePlaceInv, Exclusive, SomewhereIfOpen
<1>2. ASSUME TypeOK, InHand, OnePlaceInv, [Next]_vars PROVE OnePlaceInv'
  <2>1. CASE UNCHANGED vars
    BY <2>1, <1>2 DEF TypeOK, InHand, OnePlaceInv, Exclusive,
      SomewhereIfOpen, vars, workerVars, eventVars, appVars
  <2>2. ASSUME NEW w \in Workers, TakeCommand(w)
        PROVE  OnePlaceInv'
    <3>1. PICK c \in cmds[w] : /\ cmds' = [cmds EXCEPT ![w] = @ \ {c}]
                               /\ running' = [running EXCEPT ![w] = c]
      BY <2>2 DEF TakeCommand
    <3>2. UNCHANGED <<outcome, appCmd>> /\ c \in Cmds /\ running[w] = None
      BY <2>2, <3>1, <1>2 DEF TakeCommand, appVars, TypeOK, InHand
    <3>3. Exclusive'
      BY <3>1, <3>2, <1>2, NoneAssumption DEF TypeOK, OnePlaceInv, Exclusive
    <3>4. SomewhereIfOpen'
      BY <3>1, <3>2, <1>2, NoneAssumption
         DEF TypeOK, OnePlaceInv, Exclusive, SomewhereIfOpen
    <3>5. QED
      BY <3>3, <3>4 DEF OnePlaceInv
  <2>3. ASSUME NEW w \in Workers, SendFails(w)
        PROVE  OnePlaceInv'
    <3>1. Exclusive'
      BY <2>3, <1>2, NoneAssumption DEF TypeOK, InHand, OnePlaceInv, Exclusive,
         SendFails, Finish, appVars
    <3>2. SomewhereIfOpen'
      BY <2>3, <1>2, NoneAssumption DEF TypeOK, InHand, OnePlaceInv, Exclusive,
         SomewhereIfOpen, SendFails, Finish, appVars
    <3>3. QED
      BY <3>1, <3>2 DEF OnePlaceInv
  <2>4. ASSUME NEW w \in Workers, ReplyOk(w)
        PROVE  OnePlaceInv'
    <3>1. Exclusive'
      BY <2>4, <1>2, NoneAssumption DEF TypeOK, InHand, OnePlaceInv, Exclusive,
         ReplyOk, Finish, appVars
    <3>2. SomewhereIfOpen'
      BY <2>4, <1>2, NoneAssumption DEF TypeOK, InHand, OnePlaceInv, Exclusive,
         SomewhereIfOpen, ReplyOk, Finish, appVars
    <3>3. QED
      BY <3>1, <3>2 DEF OnePlaceInv
  <2>5. ASSUME NEW w \in Workers, ReplyFails(w)
        PROVE  OnePlaceInv'
    <3>1. Exclusive'
      BY <2>5, <1>2, NoneAssumption DEF TypeOK, InHand, OnePlaceInv, Exclusive,
         ReplyFails, Finish, appVars
    <3>2. SomewhereIfOpen'
      BY <2>5, <1>2, NoneAssumption DEF TypeOK, InHand, OnePlaceInv, Exclusive,
         SomewhereIfOpen, ReplyFails, Finish, appVars
    <3>3. QED
      BY <3>1, <3>2 DEF OnePlaceInv
  <2>6. ASSUME NEW w \in Workers,
               (\E f \in Fields : ReadField(w, f)) \/ ConnectOk(w) \/
                 ConnectFails(w) \/ RoleIsMaster(w) \/ RoleIsOther(w) \/
                 Awake(w) \/ FindsNothing(w) \/ Exit(w) \/ TakeControl(w) \/
                 SendOk(w) \/ CheckOk(w) \/ CheckFails(w)
        PROVE  OnePlaceInv'
    BY <2>6, <1>2 DEF TypeOK, InHand, OnePlaceInv, Exclusive,
      SomewhereIfOpen, ReadField, ConnectOk, ConnectFails, GiveUp,
      RoleIsMaster, RoleIsOther, Awake, FindsNothing, Exit, TakeControl, Handle, Ignore,
      CheckLink, Reconnect, StartReconnect, Park, SendOk, CheckOk,
      CheckFails, eventVars, appVars
  <2>7. CASE Start \/ SubscribeOk \/ SubscriptionEnds \/ RecvStops \/
    ReceiveEvent \/ PushEvent
    BY <2>7, <1>2 DEF TypeOK, InHand, OnePlaceInv, Exclusive,
      SomewhereIfOpen, Start, SubscribeOk, SubscriptionEnds, RecvStops,
      ReceiveEvent, PushEvent, workerVars, appVars
  <2>8. ASSUME NEW c \in Cmds, AsyncCall(c)
        PROVE  OnePlaceInv'
    <3>1. Exclusive'
      BY <2>8, <1>2, NoneAssumption DEF TypeOK, InHand, OnePlaceInv, Exclusive,
         AsyncCall, workerVars
    <3>2. SomewhereIfOpen'
      BY <2>8, <1>2, NoneAssumption DEF TypeOK, InHand, OnePlaceInv, Exclusive,
         SomewhereIfOpen, AsyncCall, workerVars
    <3>3. QED
      BY <3>1, <3>2 DEF OnePlaceInv
  <2>9. CASE ScanMisses
    <3>1. Exclusive'
      BY <2>9, <1>2, NoneAssumption DEF TypeOK, InHand, OnePlaceInv, Exclusive,
         ScanMisses, workerVars
    <3>2. SomewhereIfOpen'
      BY <2>9, <1>2, NoneAssumption DEF TypeOK, InHand, OnePlaceInv, Exclusive,
         SomewhereIfOpen, ScanMisses, workerVars
    <3>3. QED
      BY <3>1, <3>2 DEF OnePlaceInv
  <2>10. CASE PushCommand
    <3>1. Exclusive'
      BY <2>10, <1>2, NoneAssumption DEF TypeOK, InHand, OnePlaceInv, Exclusive,
         PushCommand, workerVars
    <3>2. SomewhereIfOpen'
      BY <2>10, <1>2, NoneAssumption DEF TypeOK, InHand, OnePlaceInv, Exclusive,
         SomewhereIfOpen, PushCommand, workerVars
    <3>3. QED
      BY <3>1, <3>2 DEF OnePlaceInv
  <2>11. CASE ScanFinds \/ RetryCall \/ RetryLook \/ RetryPush
    BY <2>11, <1>2 DEF TypeOK, InHand, OnePlaceInv, Exclusive,
      SomewhereIfOpen, ScanFinds, RetryCall, RetryLook, NextQueue, RetryPush,
      workerVars, eventVars, appVars
  <2>12. CASE Stop \/ StopSubscription \/ Join
    BY <2>12, <1>2 DEF TypeOK, InHand, OnePlaceInv, Exclusive,
      SomewhereIfOpen, Stop, StopSubscription, Join, workerVars, eventVars,
      appVars
  <2>13. QED
    BY <2>1, <2>2, <2>3, <2>4, <2>5, <2>6, <2>7, <2>8, <2>9, <2>10, <2>11,
      <2>12, <1>2 DEF Next, WorkerStep, EventStep, AppStep, StopStep
<1>3. QED
  BY <1>1, <1>2, TypeCorrect, PTL DEF Spec

(* A command is in one place, and once refused or executed it is in none: it *)
(* is never executed twice.                                                  *)
THEOREM OnePlace == Spec => []CommandInOnePlace
<1>1. ASSUME TypeOK, OnePlaceInv PROVE CommandInOnePlace
  <2> SUFFICES ASSUME NEW c \in Cmds
               PROVE  IF outcome[c] = "open"
                        THEN \E p \in Places(c) : Places(c) = {p}
                        ELSE Places(c) = {}
    BY DEF CommandInOnePlace
  <2>1. ASSUME NEW w \in Workers, c \in cmds[w]
        PROVE  outcome[c] = "open" /\ Places(c) = {<<"queue", w>>}
    BY <1>1, <2>1 DEF OnePlaceInv, Exclusive, Places
  <2>2. ASSUME NEW w \in Workers, running[w] = c
        PROVE  outcome[c] = "open" /\ Places(c) = {<<"thread", w>>}
    BY <1>1, <2>2, NoneAssumption DEF OnePlaceInv, Exclusive, Places
  <2>3. ASSUME appCmd = c
        PROVE  outcome[c] = "open" /\ Places(c) = {<<"caller", 0>>}
    BY <1>1, <2>3, NoneAssumption DEF OnePlaceInv, Exclusive, Places
  <2>4. CASE outcome[c] = "open"
    BY <1>1, <2>1, <2>2, <2>3, <2>4 DEF OnePlaceInv, SomewhereIfOpen
  <2>5. CASE outcome[c] # "open"
    BY <2>1, <2>2, <2>3, <2>5 DEF Places
  <2>6. QED
    BY <2>4, <2>5
<1>2. QED
  BY <1>1, TypeCorrect, HandedOver, PTL

(* What the refinement mapping says of a command, place by place.            *)
PlaceOf ==
    /\ \A w \in Workers, c \in Cmds :
         /\ running[w] = c => LedgerOf(c) = <<StageOf(w), w>>
         /\ c \in cmds[w] => LedgerOf(c) = <<"queued", w>>
    /\ \A c \in Cmds :
         (\A w \in Workers : c \notin cmds[w] /\ running[w] # c)
           => LedgerOf(c) = <<outcome[c], None>>

LEMMA PlaceOfFact == TypeOK /\ OnePlaceInv => PlaceOf
<1> SUFFICES ASSUME TypeOK, OnePlaceInv PROVE PlaceOf
  OBVIOUS
<1>1. ASSUME NEW w \in Workers, NEW c \in Cmds, running[w] = c
      PROVE  LedgerOf(c) = <<StageOf(w), w>>
  <2>1. \A v \in Workers : running[v] = c <=> v = w
    BY <1>1, NoneAssumption DEF OnePlaceInv, Exclusive
  <2>2. (CHOOSE v \in Workers : running[v] = c) = w
    BY <2>1
  <2>3. QED
    BY <2>1, <2>2 DEF LedgerOf
<1>2. ASSUME NEW w \in Workers, NEW c \in Cmds, c \in cmds[w]
      PROVE  LedgerOf(c) = <<"queued", w>>
  <2>1. \A v \in Workers : running[v] # c /\ (c \in cmds[v] <=> v = w)
    BY <1>2 DEF OnePlaceInv, Exclusive
  <2>2. (CHOOSE v \in Workers : c \in cmds[v]) = w
    BY <2>1
  <2>3. QED
    BY <2>1, <2>2 DEF LedgerOf
<1>3. QED
  BY <1>1, <1>2 DEF PlaceOf, LedgerOf

(* A step that leaves the places of d and the stage of its thread alone      *)
(* leaves the ledger entry of d alone.                                       *)
SamePlace(d) ==
    /\ \A w \in Workers : /\ running'[w] = d <=> running[w] = d
                          /\ d \in cmds'[w] <=> d \in cmds[w]
                          /\ running[w] = d => StageOf(w)' = StageOf(w)
    /\ outcome'[d] = outcome[d]

LEMMA SamePlaceFact ==
    ASSUME NEW d \in Cmds, PlaceOf, PlaceOf', SamePlace(d)
    PROVE  LedgerOf(d)' = LedgerOf(d)
<1>1. CASE \E w \in Workers : running[w] = d
  <2>1. PICK w \in Workers : running[w] = d
    BY <1>1
  <2>2. LedgerOf(d) = <<StageOf(w), w>> /\ LedgerOf(d)' = <<StageOf(w)', w>>
    BY <2>1 DEF PlaceOf, SamePlace
  <2>3. QED
    BY <2>1, <2>2 DEF SamePlace
<1>2. CASE \E w \in Workers : d \in cmds[w]
  BY <1>2 DEF PlaceOf, SamePlace
<1>3. CASE \A w \in Workers : d \notin cmds[w] /\ running[w] # d
  BY <1>3 DEF PlaceOf, SamePlace
<1>4. QED
  BY <1>1, <1>2, <1>3

LEMMA MoveFact ==
    ASSUME NEW c \in Cmds, NEW x, NEW y, LedgerOf(c) = x, LedgerOf(c)' = y,
           PlaceOf, PlaceOf', \A d \in Cmds \ {c} : SamePlace(d)
    PROVE  Ledger!Move(c, x, y)
<1>1. \A d \in Cmds \ {c} : LedgerOf(d)' = LedgerOf(d)
  BY SamePlaceFact
<1>2. LedgerMap' = [LedgerMap EXCEPT ![c] = y]
  BY <1>1 DEF LedgerMap
<1>3. QED
  BY <1>2 DEF LedgerMap, Ledger!Move

LEMMA StutterFact ==
    ASSUME PlaceOf, PlaceOf', \A d \in Cmds : SamePlace(d)
    PROVE  UNCHANGED LedgerMap
BY SamePlaceFact DEF LedgerMap

(* Every step of the pool is a step of CommandLedger on one command, or      *)
(* leaves the ledger alone.                                                  *)
THEOREM KeepsItsLedger == Spec => KeepsLedger
<1> DEFINE Inv == TypeOK /\ InHand /\ OnePlaceInv
<1>1. Init => Ledger!Init
  BY NoneAssumption DEF Init, Ledger!Init, LedgerMap, LedgerOf
<1>2. ASSUME Inv, PlaceOf, PlaceOf', [Next]_vars
      PROVE  [Ledger!Next]_LedgerMap
  <2> USE DEF Inv
  <2>1. CASE UNCHANGED vars
    <3>1. \A d \in Cmds : SamePlace(d)
      BY <2>1 DEF vars, workerVars, SamePlace, StageOf
    <3>2. QED
      BY <3>1, <1>2, StutterFact
  <2>2. ASSUME NEW w \in Workers,
               (\E f \in Fields : ReadField(w, f)) \/ ConnectOk(w)
                 \/ ConnectFails(w) \/ RoleIsMaster(w) \/ RoleIsOther(w)
                 \/ Awake(w) \/ FindsNothing(w) \/ Exit(w) \/ CheckOk(w) \/ CheckFails(w)
        PROVE  UNCHANGED LedgerMap
    <3>1. /\ UNCHANGED <<running, cmds, outcome>>
          /\ running[w] = None
          /\ \A v \in Workers \ {w} : pc'[v] = pc[v]
      BY <2>2, <1>2 DEF TypeOK, InHand, ReadField, ConnectOk, ConnectFails,
           RoleIsMaster, RoleIsOther, Awake, FindsNothing, Exit, CheckOk,
           CheckFails, StartReconnect
    <3>2. \A d \in Cmds : SamePlace(d)
      BY <3>1, NoneAssumption DEF SamePlace, StageOf
    <3>3. QED
      BY <3>2, <1>2, StutterFact
  <2>3. ASSUME NEW w \in Workers, TakeControl(w) PROVE UNCHANGED LedgerMap
    <3>1. PICK t \in ControlTasks : Handle(w, t)
      BY <2>3 DEF TakeControl
    <3>2. /\ UNCHANGED <<running, cmds, outcome>>
          /\ running[w] = None
          /\ \A v \in Workers \ {w} : pc'[v] = pc[v]
      BY <2>3, <3>1, <1>2, HandleFact DEF InHand, TakeControl
    <3>3. \A d \in Cmds : SamePlace(d)
      BY <3>2, NoneAssumption DEF SamePlace, StageOf
    <3>4. QED
      BY <3>3, <1>2, StutterFact
  <2>4. ASSUME NEW w \in Workers, TakeCommand(w) PROVE Ledger!Next
    <3>1. PICK c \in cmds[w] : /\ cmds' = [cmds EXCEPT ![w] = @ \ {c}]
                               /\ running' = [running EXCEPT ![w] = c]
      BY <2>4 DEF TakeCommand
    <3>2. /\ c \in Cmds /\ running[w] = None /\ running'[w] = c
          /\ pc' = [pc EXCEPT ![w] = "send"] /\ pc'[w] = "send"
          /\ UNCHANGED outcome
      BY <2>4, <3>1, <1>2 DEF TypeOK, InHand, TakeCommand
    <3>3. LedgerOf(c) = <<"queued", w>> /\ LedgerOf(c)' = <<"taken", w>>
      BY <3>1, <3>2, <1>2 DEF PlaceOf, StageOf
    <3>4. \A d \in Cmds \ {c} : SamePlace(d)
      BY <3>1, <3>2, <1>2, NoneAssumption DEF TypeOK, SamePlace, StageOf
    <3>5. Ledger!Move(c, <<"queued", w>>, <<"taken", w>>)
      BY <3>2, <3>3, <3>4, <1>2, MoveFact
    <3>6. ASSUME NEW d \in Cmds
          PROVE  LedgerOf(d) \notin {<<"taken", w>>, <<"sent", w>>}
      <4>1. CASE \E v \in Workers : running[v] = d
        BY <4>1, <3>2, <1>2, NoneAssumption DEF PlaceOf
      <4>2. CASE \E v \in Workers : d \in cmds[v]
        BY <4>2, <1>2 DEF PlaceOf
      <4>3. CASE \A v \in Workers : d \notin cmds[v] /\ running[v] # d
        <5>1. LedgerOf(d) = <<outcome[d], None>>
          BY <4>3, <1>2 DEF PlaceOf
        <5>2. outcome[d] # "taken" /\ outcome[d] # "sent"
          BY <1>2 DEF TypeOK, Outcomes
        <5>3. QED
          BY <5>1, <5>2
      <4>4. QED
        BY <4>1, <4>2, <4>3
    <3>7. ~Ledger!Busy(w)
      BY <3>6 DEF Ledger!Busy, LedgerMap
    <3>8. QED
      BY <3>2, <3>5, <3>7 DEF Ledger!Next, Ledger!Take
  <2>5. ASSUME NEW w \in Workers, SendOk(w) PROVE Ledger!Next
    <3>1. PICK c \in Cmds : c = running[w]
      BY <2>5, <1>2 DEF TypeOK, InHand, SendOk
    <3>2. /\ UNCHANGED <<running, cmds, outcome>>
          /\ pc[w] = "send" /\ pc'[w] = "reply"
          /\ \A v \in Workers \ {w} : pc'[v] = pc[v]
      BY <2>5, <1>2 DEF TypeOK, SendOk
    <3>3. LedgerOf(c) = <<"taken", w>> /\ LedgerOf(c)' = <<"sent", w>>
      BY <3>1, <3>2, <1>2 DEF PlaceOf, StageOf
    <3>4. \A d \in Cmds \ {c} : SamePlace(d)
      BY <3>1, <3>2 DEF SamePlace, StageOf
    <3>5. Ledger!Move(c, <<"taken", w>>, <<"sent", w>>)
      BY <3>1, <3>3, <3>4, <1>2, MoveFact
    <3>6. QED
      BY <3>1, <3>5 DEF Ledger!Next, Ledger!Send
  <2>6. ASSUME NEW w \in Workers, NEW o \in {"lost", "failed", "answered"},
               Finish(w, o), pc[w] \in {"send", "reply"}, UNCHANGED cmds,
               \A v \in Workers \ {w} : pc'[v] = pc[v]
        PROVE  /\ running[w] \in Cmds
               /\ Ledger!Move(running[w], <<StageOf(w), w>>, <<o, None>>)
    <3>1. PICK c \in Cmds : c = running[w] /\ c # None
      BY <2>6, <1>2, NoneAssumption DEF TypeOK, InHand
    <3>2. /\ running' = [running EXCEPT ![w] = None]
          /\ outcome' = [outcome EXCEPT ![c] = o]
      BY <2>6, <3>1 DEF Finish
    <3>3. \A v \in Workers : running'[v] # c /\ c \notin cmds'[v]
      BY <2>6, <3>1, <3>2, <1>2 DEF TypeOK, OnePlaceInv, Exclusive
    <3>4. LedgerOf(c) = <<StageOf(w), w>> /\ LedgerOf(c)' = <<o, None>>
      BY <3>1, <3>2, <3>3, <1>2 DEF PlaceOf, TypeOK
    <3>5. \A d \in Cmds \ {c} : SamePlace(d)
      BY <2>6, <3>1, <3>2, <1>2, NoneAssumption DEF TypeOK, SamePlace, StageOf
    <3>6. Ledger!Move(c, <<StageOf(w), w>>, <<o, None>>)
      BY <3>1, <3>4, <3>5, <1>2, MoveFact
    <3>7. QED
      BY <3>1, <3>6
  <2>7. ASSUME NEW w \in Workers, SendFails(w) PROVE Ledger!Next
    <3>1. Ledger!Move(running[w], <<"taken", w>>, <<"lost", None>>)
          /\ running[w] \in Cmds
      BY <2>7, <2>6, <1>2 DEF SendFails, StageOf, TypeOK
    <3>2. QED
      BY <3>1 DEF Ledger!Next, Ledger!Lose
  <2>8. ASSUME NEW w \in Workers, ReplyOk(w) PROVE Ledger!Next
    <3>1. Ledger!Move(running[w], <<"sent", w>>, <<"answered", None>>)
          /\ running[w] \in Cmds
      BY <2>8, <2>6, <1>2 DEF ReplyOk, StageOf, TypeOK
    <3>2. QED
      BY <3>1 DEF Ledger!Next, Ledger!Answer
  <2>9. ASSUME NEW w \in Workers, ReplyFails(w) PROVE Ledger!Next
    <3>1. CheckMaster \in ControlTasks /\ Handle(w, CheckMaster)
      BY <2>9 DEF CheckMaster, ControlTasks, ReplyFails
    <3>2. \A v \in Workers \ {w} : pc'[v] = pc[v]
      BY <3>1, <1>2, HandleFact
    <3>3. Ledger!Move(running[w], <<"sent", w>>, <<"failed", None>>)
          /\ running[w] \in Cmds
      BY <2>9, <3>2, <2>6 DEF ReplyFails, StageOf
    <3>4. QED
      BY <3>3 DEF Ledger!Next, Ledger!Fail
  <2>10. CASE EventStep \/ StopStep
    <3>1. UNCHANGED <<running, cmds, outcome, pc>>
      BY <2>10 DEF EventStep, Start, SubscribeOk, SubscriptionEnds, RecvStops,
           ReceiveEvent, PushEvent, StopStep, Stop, StopSubscription, Join,
           workerVars
    <3>2. \A d \in Cmds : SamePlace(d)
      BY <3>1 DEF SamePlace, StageOf
    <3>3. QED
      BY <3>2, <1>2, StutterFact
  <2>11. CASE ScanFinds \/ RetryCall \/ RetryLook \/ RetryPush
    <3>1. UNCHANGED <<running, cmds, outcome, pc>>
      BY <2>11 DEF ScanFinds, RetryCall, RetryLook, RetryPush, workerVars
    <3>2. \A d \in Cmds : SamePlace(d)
      BY <3>1 DEF SamePlace, StageOf
    <3>3. QED
      BY <3>2, <1>2, StutterFact
  <2>12. ASSUME NEW c \in Cmds, UNCHANGED <<running, cmds, pc>>,
                NEW x, NEW y, outcome[c] = x, outcome' = [outcome EXCEPT ![c] = y],
                \A w \in Workers : c \notin cmds[w] /\ running[w] # c
         PROVE  Ledger!Move(c, <<x, None>>, <<y, None>>)
    <3>1. LedgerOf(c) = <<x, None>> /\ LedgerOf(c)' = <<y, None>>
      BY <2>12, <1>2 DEF PlaceOf, TypeOK
    <3>2. \A d \in Cmds \ {c} : SamePlace(d)
      BY <2>12, <1>2 DEF TypeOK, SamePlace, StageOf
    <3>3. QED
      BY <3>1, <3>2, <1>2, MoveFact
  <2>13. ASSUME NEW c \in Cmds, AsyncCall(c) PROVE Ledger!Next
    <3>1. \A w \in Workers : c \notin cmds[w] /\ running[w] # c
      BY <2>13, <1>2, NoneAssumption DEF AsyncCall, OnePlaceInv, Exclusive
    <3>2. Ledger!Move(c, <<"new", None>>, <<"open", None>>)
      BY <2>12, <2>13, <3>1 DEF AsyncCall, workerVars
    <3>3. QED
      BY <3>2 DEF Ledger!Next, Ledger!Offer
  <2>14. CASE ScanMisses
    <3>1. CASE outcome' = outcome
      <4>1. \A d \in Cmds : SamePlace(d)
        BY <2>14, <3>1 DEF SamePlace, StageOf, ScanMisses, workerVars
      <4>2. QED
        BY <4>1, <1>2, StutterFact
    <3>2. CASE outcome' # outcome
      <4>1. /\ appCmd \in Cmds /\ outcome[appCmd] = "open"
            /\ outcome' = [outcome EXCEPT ![appCmd] = "refused"]
            /\ \A w \in Workers : appCmd \notin cmds[w] /\ running[w] # appCmd
        BY <2>14, <3>2, <1>2, NoneAssumption
           DEF ScanMisses, TypeOK, InHand, OnePlaceInv, Exclusive
      <4>2. Ledger!Move(appCmd, <<"open", None>>, <<"refused", None>>)
        BY <2>12, <2>14, <4>1 DEF ScanMisses, workerVars
      <4>3. QED
        BY <4>1, <4>2 DEF Ledger!Next, Ledger!Refuse
    <3>3. QED
      BY <3>1, <3>2
  <2>15. CASE PushCommand
    <3>1. PICK c \in Cmds, w \in Workers : c = appCmd /\ w = appIdx
      BY <2>15, <1>2, NoneAssumption DEF PushCommand, TypeOK, InHand
    <3>2. /\ outcome[c] = "open"
          /\ \A v \in Workers : c \notin cmds[v] /\ running[v] # c
      BY <3>1, <1>2, NoneAssumption DEF OnePlaceInv, Exclusive
    <3>3. /\ cmds' = [cmds EXCEPT ![w] = @ \cup {c}]
          /\ UNCHANGED <<running, pc, outcome>>
      BY <2>15, <3>1 DEF PushCommand, workerVars
    <3>4. LedgerOf(c) = <<"open", None>> /\ LedgerOf(c)' = <<"queued", w>>
      BY <3>2, <3>3, <1>2 DEF PlaceOf, TypeOK
    <3>5. \A d \in Cmds \ {c} : SamePlace(d)
      BY <3>3, <1>2 DEF TypeOK, SamePlace, StageOf
    <3>6. Ledger!Move(c, <<"open", None>>, <<"queued", w>>)
      BY <3>4, <3>5, <1>2, MoveFact
    <3>7. QED
      BY <3>6 DEF Ledger!Next, Ledger!Accept
  <2>16. QED
    BY <2>1, <2>2, <2>3, <2>4, <2>5, <2>7, <2>8, <2>9, <2>10, <2>11, <2>13,
       <2>14, <2>15, <1>2 DEF Next, WorkerStep, AppStep
<1>3. Inv => PlaceOf
  BY PlaceOfFact
<1>4. QED
  BY <1>1, <1>2, <1>3, TypeCorrect, HandedOver, PTL
     DEF Spec, KeepsLedger, Ledger!Spec, Inv

=============================================================================
