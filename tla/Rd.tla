--------------------------------- MODULE Rd ---------------------------------
(***************************************************************************)
(* ds/rd and the wrappers over it (RdString, RdHash, RdSet, Publisher) on  *)
(* one connection: each sends one command with redis_command and makes a   *)
(* result of the reply.  The same client is also called directly.          *)
(*                                                                         *)
(* A line written only in part is completed by the next one, and the       *)
(* server takes both for one command.  Keys and values have no blank and   *)
(* no line end in them.                                                    *)
(***************************************************************************)
EXTENDS RClient, Sequences

VARIABLES
    wrap,    \* the wrapper that was called last; "none": the client was called directly
    result,  \* what it returned; "none" before that
    own,     \* history: the number of the command it wrote whole, or 0
    kinds,   \* history: what each command asks for; "any": a direct call's
    torn     \* the last line on the connection was written in part

wrapVars == <<wrap, result, own, kinds, torn>>
rdVars == <<vars, wrapVars>>

(* What the command of a call asks for.  Calls that make the same of a reply *)
(* are one: sadd and get_boolean are hset; hmget and hkeys are get; hexists  *)
(* and hlen are hdel.  (get_boolean and hexists are true for 1 only; their   *)
(* commands have no other number above 0 for an answer.)                     *)
Gives == [set |-> "status", hset |-> "count", hdel |-> "count", publish |-> "count",
          hget |-> "data", get |-> "data", hgetall |-> "data", smembers |-> "data"]

Wrappers == DOMAIN Gives

(* Replies of the server: a number above 0, 0, +OK, text, nil, an aggregate, *)
(* an error.                                                                 *)
Replies == {"count", "zero", "ok", "text", "nil", "list", "error"}

Says(k) ==
    CASE k = "status" -> {"ok", "nil", "error"}
      [] k = "count" -> {"count", "zero", "error"}
      [] k = "data" -> {"text", "nil", "list", "error"}
      [] OTHER -> Replies

Busy == wrap # "none" /\ result = "none"

RdInit ==
    /\ Init
    /\ wrap = "none" /\ result = "none" /\ own = 0 /\ kinds = <<>> /\ torn = FALSE

-----------------------------------------------------------------------------
(* What a wrapper returns when get_results returned the reply r:             *)
(* "yes": 1, true or a number above 0; "no": 0 or false; "value": a pointer; *)
(* "null": the null pointer; "fail": an error code.                          *)

Positive(r) == IF r = "count" THEN "yes" ELSE "no"

(* Mutant: any reply will do. *)
set_AnyReply(r) == {"yes"}

set(r) == IF r = "ok" THEN {"yes"} ELSE {"no"}

(* A reply that is no number is 0. *)
hset(r) == {Positive(r)}

(* A cast to RedisValue; the nil of RESP 2 comes with NIL_VALUE. *)
hget(r) == IF r = "list" THEN {"null"} ELSE IF r = "nil" THEN {"value", "null"} ELSE {"value"}

get(r) == {"value"}

smembers(r) == IF r = "nil" THEN {"value", "null"} ELSE {"value"}

hgetall(r) == IF r = "list" THEN {"value"} ELSE {"null"}

(* get_number of a value that holds no number reads a union nobody wrote.    *)
number(r) == CASE r \in {"count", "zero"} -> {Positive(r)}
               [] r = "list" -> {"no"}
               [] OTHER -> {"yes", "no"}

hdel(r) == number(r)

publish(r) == IF r \in {"count", "zero"} THEN {Positive(r)} ELSE {"fail"}

Outcome(w, r) ==
    CASE w = "set" -> set(r)
      [] w = "hset" -> hset(r)
      [] w = "hget" -> hget(r)
      [] w = "get" -> get(r)
      [] w = "smembers" -> smembers(r)
      [] w = "hgetall" -> hgetall(r)
      [] w = "hdel" -> hdel(r)
      [] w = "publish" -> publish(r)

(* What it returns when there is no reply. *)
NoValue(w) == CASE w = "publish" -> "fail"
                [] Gives[w] = "data" -> "null"
                [] OTHER -> "no"

(* A parser that gives up may leave the array it has begun, and these do not *)
(* look at the ret_code.                                                     *)
Unfinished(w) ==
    {NoValue(w)} \cup
    IF w \in {"get", "hgetall", "hdel", "publish"} THEN Outcome(w, "list") ELSE {}

-----------------------------------------------------------------------------
(* Rd::redis_command *)

Begin(w) ==
    /\ ~Busy
    /\ Call("command")
    /\ wrap' = w /\ result' = "none" /\ own' = 0
    /\ UNCHANGED <<kinds, torn>>

(* Mutant: the reply is read whatever was written. *)
NotSent_Reads ==
    /\ Busy /\ pc = "idle" /\ op = "command" /\ code # "ok"
    /\ GetResults
    /\ UNCHANGED wrapVars

(* Mutant: each wrapper hands on the ret_code. *)
NotSent_Code ==
    /\ Busy /\ pc = "idle" /\ op = "command" /\ code # "ok"
    /\ result' = code
    /\ UNCHANGED <<vars, wrap, own, kinds, torn>>

(* The number of bytes written is the ret_code then, and publish returns it. *)
NotSent ==
    /\ Busy /\ pc = "idle" /\ op = "command" /\ code # "ok"
    /\ result' \in IF wrap = "publish" /\ code = "send" THEN {"yes", "no"} ELSE {NoValue(wrap)}
    /\ UNCHANGED <<vars, wrap, own, kinds, torn>>

WaitForReply ==
    /\ Busy /\ pc = "idle" /\ op = "command" /\ code = "ok"
    /\ GetResults
    /\ UNCHANGED wrapVars

(* A part of a reply cut in two can be anything. *)
HandleReply ==
    /\ Busy /\ pc = "idle" /\ op = "results"
    /\ CASE code = "ok" ->
              \E r \in IF ret = 0 THEN Replies ELSE Says(kinds[ret]) : result' \in Outcome(wrap, r)
         [] code = "format" -> result' \in Unfinished(wrap)
         [] OTHER -> result' = NoValue(wrap)
    /\ UNCHANGED <<vars, wrap, own, kinds, torn>>

-----------------------------------------------------------------------------
(* The steps of RClient. *)

(* A direct call, when no wrapper is at work. *)
Direct ==
    /\ ~Busy
    /\ \/ (ConnectOk \/ ConnectFails \/ close) /\ torn' = FALSE
       \/ ((\E o \in Calls : Call(o)) \/ GetResults \/ DoParse) /\ UNCHANGED torn
    /\ wrap' = "none" /\ result' = "none" /\ own' = 0
    /\ UNCHANGED kinds

(* The line that was written in part takes this one with it. *)
Writes ==
    /\ WriteOk
    /\ kinds' = Append(kinds, IF torn \/ ~Busy THEN "any" ELSE Gives[wrap])
    /\ own' = IF Busy THEN sent' ELSE 0
    /\ torn' = FALSE
    /\ UNCHANGED <<wrap, result>>

(* No byte at all, or a part of the line. *)
WritesPart ==
    /\ WriteShort
    /\ torn' \in {torn, TRUE}
    /\ UNCHANGED <<wrap, result, own, kinds>>

Waits ==
    /\ \/ Drain \/ WriteSpins \/ WriteBad
       \/ \E k \in 1 .. made - got : Receive(k)
       \/ ReadZero \/ ReadTimesOut
       \/ ParseAnswer \/ ParsePart \/ ParseNeedsMore
    /\ UNCHANGED wrapVars

Outside == (Serve \/ PeerCloses \/ Opens) /\ UNCHANGED wrapVars

Thread == NotSent \/ WaitForReply \/ HandleReply \/ Writes \/ WritesPart \/ Waits

RdNext == Direct \/ (\E w \in Wrappers : Begin(w)) \/ Thread \/ Outside

(* The thread runs, and connect, read and the wait for room have time-outs.  *)
RdSpec == RdInit /\ [][RdNext]_rdVars /\ WF_rdVars(Thread)

-----------------------------------------------------------------------------
RdTypeOK ==
    /\ TypeOK
    /\ wrap \in Wrappers \cup {"none"}
    /\ result \in {"none", "yes", "no", "value", "null", "fail"}
    /\ own \in 0 .. sent /\ torn \in BOOLEAN
    /\ kinds \in Seq({"status", "count", "data", "any"}) /\ Len(kinds) = sent

(* A wrapper that reports success wrote its command whole and reports the    *)
(* answer to it, if every earlier reply had arrived when it sent; else it    *)
(* may be the answer to an earlier command, which asked for the same kind of *)
(* thing where the wrapper looks at the type (redis_command and the type     *)
(* checks of the wrappers).  Only when its command's drain had cut a reply   *)
(* in two may it report a part of that one.  publish takes the bytes written *)
(* in part for the number of receivers; hexists, hdel and hlen take an error *)
(* for a number.                                                             *)
SuccessIsOwn ==
    result \in {"yes", "value"} /\ ~(wrap = "publish" /\ code = "send") =>
        /\ own # 0
        /\ IF Answered /\ ret # 0
             THEN /\ ret <= own
                  /\ drained = 2 * (own - 1) => ret = own
                  /\ result = "yes" /\ wrap # "hdel" => kinds[ret] \in {Gives[wrap], "any"}
             ELSE code \in {"ok", "format"} /\ drained % 2 = 1

(* Each call of a wrapper or of the client ends, unless its write spins:     *)
(* NEED_MORE_DATA is a loop, and a time-out is no answer.                    *)
CallEnds == pc # "idle" \/ Busy ~> (pc = "idle" /\ ~Busy) \/ pc = "spin"

=============================================================================
