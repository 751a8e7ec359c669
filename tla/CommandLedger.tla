---------------------------- MODULE CommandLedger ----------------------------
(***************************************************************************)
(* What the pool of middleware/sentinel_factory promises of a command      *)
(* handed to async_command: it is refused, or accepted by one worker for   *)
(* good; that worker takes it at most once, one command at a time; and the *)
(* way it ends (lost when it could not be sent, failed when no reply came, *)
(* answered) is final, a failed command is never executed again.           *)
(***************************************************************************)
CONSTANTS Cmds, Workers, None

VARIABLE ledger     \* ledger[c] = <<stage, owner>>

Init == ledger = [c \in Cmds |-> <<"new", None>>]

Move(c, from, to) == ledger[c] = from /\ ledger' = [ledger EXCEPT ![c] = to]

(* Worker w has taken a command and not finished it. *)
Busy(w) == \E c \in Cmds : ledger[c] \in {<<"taken", w>>, <<"sent", w>>}

Offer(c) == Move(c, <<"new", None>>, <<"open", None>>)
Refuse(c) == Move(c, <<"open", None>>, <<"refused", None>>)
Accept(c, w) == Move(c, <<"open", None>>, <<"queued", w>>)
Take(c, w) == ~Busy(w) /\ Move(c, <<"queued", w>>, <<"taken", w>>)
Send(c, w) == Move(c, <<"taken", w>>, <<"sent", w>>)
Lose(c, w) == Move(c, <<"taken", w>>, <<"lost", None>>)
Fail(c, w) == Move(c, <<"sent", w>>, <<"failed", None>>)
Answer(c, w) == Move(c, <<"sent", w>>, <<"answered", None>>)

Next == \E c \in Cmds :
          \/ Offer(c) \/ Refuse(c)
          \/ \E w \in Workers : \/ Accept(c, w) \/ Take(c, w) \/ Send(c, w)
                                \/ Lose(c, w) \/ Fail(c, w) \/ Answer(c, w)

Spec == Init /\ [][Next]_ledger

=============================================================================
