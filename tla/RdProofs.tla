------------------------------ MODULE RdProofs ------------------------------
(***************************************************************************)
(* The wrappers over a connection, for every number of commands and every  *)
(* buffer size: what they report as success is an answer to a command they *)
(* wrote.                                                                  *)
(***************************************************************************)
EXTENDS Rd, RClientProofs

USE CommandsAssumption, CapAssumption, PasswordAssumption

Kinds == {"status", "count", "data", "any"}
Results == {"yes", "no", "value", "null", "fail"}

(* A wrapper that waits for its reply, or is about to, wrote the last        *)
(* command; when it has returned, the client is idle.                        *)
CallerInv ==
    /\ wrap = "none" => result = "none"
    /\ wrap # "none" /\ result # "none" => pc = "idle"
    /\ Busy => /\ op \in {"command", "results"}
               /\ op = "results" \/ (pc = "idle" /\ code = "ok") => own = sent /\ own # 0
    /\ result \in {"yes", "value"} /\ ~(wrap = "publish" /\ code = "send") => own = sent

RdInv == IInv /\ RdTypeOK /\ CallerInv /\ SuccessIsOwn

-----------------------------------------------------------------------------
(* What the tables of the module say. *)

LEMMA WrapperFact ==
    /\ Wrappers = {"set", "hset", "hget", "get", "hgetall", "smembers", "hdel", "publish"}
    /\ "none" \notin Wrappers
    /\ \A w \in Wrappers : Gives[w] \in Kinds
BY DEF Wrappers, Gives, Kinds

LEMMA SaysFact ==
    /\ \A k \in Kinds : Says(k) \subseteq Replies
    /\ \A k \in Kinds : "ok" \in Says(k) => k \in {"status", "any"}
    /\ \A k \in Kinds : "count" \in Says(k) => k \in {"count", "any"}
BY DEF Says, Kinds, Replies

LEMMA OutcomeFact ==
    ASSUME NEW w \in Wrappers, NEW r \in Replies, NEW x \in Outcome(w, r)
    PROVE  /\ x \in Results
           /\ x = "yes" /\ w # "hdel" =>
                \/ r = "ok" /\ Gives[w] = "status"
                \/ r = "count" /\ Gives[w] = "count"
<1> USE WrapperFact DEF Outcome, Results, Positive
<1>1. CASE w = "set" BY <1>1 DEF set, Gives
<1>2. CASE w = "hset" BY <1>2 DEF hset, Gives
<1>3. CASE w = "hget" BY <1>3 DEF hget
<1>4. CASE w = "get" BY <1>4 DEF get
<1>5. CASE w = "smembers" BY <1>5 DEF smembers
<1>6. CASE w = "hgetall" BY <1>6 DEF hgetall
<1>7. CASE w = "hdel" BY <1>7 DEF hdel, number, Replies
<1>8. CASE w = "publish" BY <1>8 DEF publish, Gives
<1> QED BY <1>1, <1>2, <1>3, <1>4, <1>5, <1>6, <1>7, <1>8

LEMMA NoValueFact ==
    ASSUME NEW w \in Wrappers PROVE NoValue(w) \in {"fail", "null", "no"}
BY WrapperFact DEF NoValue, Gives

LEMMA UnfinishedFact ==
    ASSUME NEW w \in Wrappers PROVE Unfinished(w) \subseteq Results
<1>1. NoValue(w) \in Results
  BY NoValueFact DEF Results
<1>2. \A x \in Outcome(w, "list") : x \in Results
  BY OutcomeFact DEF Replies
<1> QED BY <1>1, <1>2 DEF Unfinished

-----------------------------------------------------------------------------
(* A step of the wrappers is a step of the connection or none of its. *)
LEMMA RdStepIsStep == [RdNext]_rdVars => [Next]_vars
<1> SUFFICES ASSUME [RdNext]_rdVars PROVE Next \/ UNCHANGED vars
  OBVIOUS
<1>1. CASE Direct
  BY <1>1 DEF Direct, Next
<1>2. ASSUME NEW w \in Wrappers, Begin(w) PROVE Next
  BY <1>2 DEF Begin, Next, Calls
<1>3. CASE NotSent \/ HandleReply
  BY <1>3 DEF NotSent, HandleReply
<1>4. CASE WaitForReply
  BY <1>4 DEF WaitForReply, Next
<1>5. CASE Writes \/ WritesPart \/ Waits
  BY <1>5 DEF Writes, WritesPart, Waits, Next, Work
<1>6. CASE Outside
  BY <1>6 DEF Outside, Next
<1>7. CASE UNCHANGED rdVars
  BY <1>7 DEF rdVars
<1> QED BY <1>1, <1>2, <1>3, <1>4, <1>5, <1>6, <1>7 DEF RdNext, Thread

(* The type invariant after a step, part by part. *)
LEMMA TypedNext ==
    ASSUME IInv', wrap' \in Wrappers \cup {"none"}, result' \in Results \cup {"none"},
           own' \in 0 .. sent', torn' \in BOOLEAN, kinds' \in Seq(Kinds), Len(kinds') = sent'
    PROVE  RdTypeOK'
<1>1. result' \in {"none", "yes", "no", "value", "null", "fail"}
  BY DEF Results
<1>2. TypeOK'
  BY DEF IInv
<1> QED BY <1>1, <1>2, Zenon DEF RdTypeOK, Kinds

LEMMA RdInitInv == RdInit => RdInv
<1> SUFFICES ASSUME RdInit PROVE RdInv OBVIOUS
<1> USE DEF RdInit
<1>1. IInv /\ TypeOK
  BY InitInv DEF IInv
<1>2. RdTypeOK
  <2>1. kinds \in Seq(Kinds) /\ Len(kinds) = sent /\ own \in 0 .. sent
    BY DEF Init
  <2>2. torn \in BOOLEAN
    BY Zenon
  <2>3. wrap \in Wrappers \cup {"none"} /\ result \in {"none", "yes", "no", "value", "null", "fail"}
    OBVIOUS
  <2> QED BY <1>1, <2>1, <2>2, <2>3, Zenon DEF RdTypeOK, Kinds
<1>3. CallerInv /\ SuccessIsOwn
  BY DEF CallerInv, SuccessIsOwn, Busy
<1> QED BY <1>1, <1>2, <1>3 DEF RdInv

-----------------------------------------------------------------------------
(* The calls of the client and of the wrappers. *)

LEMMA DirectStep ==
    ASSUME RdInv, IInv', Direct
    PROVE  RdTypeOK' /\ CallerInv' /\ SuccessIsOwn'
<1>1. sent' = sent
  BY DEF Direct, ConnectOk, ConnectFails, close, NewSocket, Call, GetResults, DoParse, netVars
<1>2. torn' \in BOOLEAN
  <2>1. torn \in BOOLEAN
    BY Zenon DEF RdInv, RdTypeOK
  <2>2. torn' = FALSE \/ torn' = torn
    BY DEF Direct
  <2> QED BY <2>1, <2>2
<1>3. RdTypeOK'
  <2>1. /\ wrap' \in Wrappers \cup {"none"} /\ result' \in Results \cup {"none"}
        /\ own' \in 0 .. sent' /\ kinds' \in Seq(Kinds) /\ Len(kinds') = sent'
    BY <1>1 DEF RdInv, RdTypeOK, Direct, TypeOK, Kinds
  <2> QED BY <1>2, <2>1, TypedNext, Zenon
<1>4. CallerInv' /\ SuccessIsOwn'
  BY DEF Direct, CallerInv, SuccessIsOwn, Busy
<1> QED BY <1>3, <1>4

LEMMA RdBeginStep ==
    ASSUME RdInv, IInv', NEW w \in Wrappers, Begin(w)
    PROVE  RdTypeOK' /\ CallerInv' /\ SuccessIsOwn'
<1> USE DEF Begin
<1>1. /\ sent' = sent /\ op' = "command" /\ code' # "ok"
      /\ wrap' = w /\ result' = "none" /\ own' = 0 /\ kinds' = kinds /\ torn' = torn
  BY DEF Call, Enter, netVars
<1>2. RdTypeOK'
  <2>1. torn' \in BOOLEAN
    BY <1>1, Zenon DEF RdInv, RdTypeOK
  <2>2. /\ wrap' \in Wrappers \cup {"none"} /\ result' \in Results \cup {"none"}
        /\ own' \in 0 .. sent' /\ kinds' \in Seq(Kinds) /\ Len(kinds') = sent'
    BY <1>1 DEF RdInv, RdTypeOK, TypeOK, Kinds
  <2> QED BY <2>1, <2>2, TypedNext, Zenon
<1>3. CallerInv' /\ SuccessIsOwn'
  BY <1>1, WrapperFact DEF CallerInv, SuccessIsOwn, Busy
<1> QED BY <1>2, <1>3

-----------------------------------------------------------------------------
(* The thread. *)

LEMMA NotSentStep ==
    ASSUME RdInv, IInv', NotSent
    PROVE  RdTypeOK' /\ CallerInv' /\ SuccessIsOwn'
<1>0. /\ RdTypeOK /\ CallerInv /\ Busy /\ pc = "idle"
      /\ UNCHANGED <<vars, wrap, own, kinds, torn>>
  BY DEF RdInv, NotSent
<1>1. wrap \in Wrappers
  BY <1>0 DEF Busy, RdTypeOK
<1>2. \/ result' \in {"yes", "no"} /\ wrap = "publish" /\ code = "send"
      \/ result' \in {"fail", "null", "no"}
  BY <1>1, NoValueFact DEF NotSent
<1>3. RdTypeOK'
  BY <1>0, <1>2 DEF RdTypeOK, IInv, vars
<1>4. CallerInv' /\ SuccessIsOwn'
  BY <1>0, <1>1, <1>2, WrapperFact DEF CallerInv, SuccessIsOwn, Busy, vars
<1> QED BY <1>3, <1>4

LEMMA WaitForReplyStep ==
    ASSUME RdInv, IInv', WaitForReply
    PROVE  RdTypeOK' /\ CallerInv' /\ SuccessIsOwn'
<1>0. /\ RdTypeOK /\ CallerInv /\ Busy /\ pc = "idle" /\ code = "ok"
      /\ UNCHANGED <<sent, wrapVars>> /\ op' = "results"
  BY DEF RdInv, WaitForReply, GetResults, Enter, netVars
<1>1. RdTypeOK'
  BY <1>0 DEF RdTypeOK, IInv, wrapVars
<1>2. CallerInv' /\ SuccessIsOwn'
  BY <1>0 DEF CallerInv, SuccessIsOwn, Busy, wrapVars
<1> QED BY <1>1, <1>2

(* The reply is one the server gave (IInv), and the wrapper wrote the last   *)
(* command (CallerInv).                                                      *)
LEMMA HandleReplyStep ==
    ASSUME RdInv, IInv', HandleReply
    PROVE  RdTypeOK' /\ CallerInv' /\ SuccessIsOwn'
<1>0. /\ RdTypeOK /\ CallerInv /\ TypeOK /\ ReplyInv /\ Busy /\ pc = "idle" /\ op = "results"
      /\ UNCHANGED <<vars, wrap, own, kinds, torn>>
  BY DEF RdInv, IInv, HandleReply
<1>1. wrap \in Wrappers /\ own = sent /\ own # 0
  BY <1>0 DEF Busy, RdTypeOK, CallerInv
<1>2. CASE code \notin {"ok", "format"}
  <2>1. result' \in {"fail", "null", "no"}
    BY <1>1, <1>2, NoValueFact DEF HandleReply
  <2>2. RdTypeOK'
    BY <1>0, <2>1 DEF RdTypeOK, IInv, vars
  <2>3. CallerInv' /\ SuccessIsOwn'
    BY <1>0, <1>1, <2>1 DEF CallerInv, SuccessIsOwn, Busy, vars
  <2> QED BY <2>2, <2>3
(* An array left unfinished. *)
<1>3. CASE code = "format"
  <2>1. result' \in Results
    BY <1>1, <1>3, UnfinishedFact DEF HandleReply
  <2>2. drained % 2 = 1
    BY <1>0, <1>3 DEF ReplyInv
  <2>3. RdTypeOK'
    BY <1>0, <2>1 DEF RdTypeOK, IInv, vars, Results
  <2>4. CallerInv'
    BY <1>0, <1>1 DEF CallerInv, Busy, vars, Results
  <2>5. SuccessIsOwn'
    BY <1>0, <1>1, <1>3, <2>2 DEF SuccessIsOwn, Answered, vars
  <2> QED BY <2>3, <2>4, <2>5
(* A part of a reply. *)
<1>4. CASE code = "ok" /\ ret = 0
  <2>1. PICK r \in Replies : result' \in Outcome(wrap, r)
    BY <1>4 DEF HandleReply
  <2>2. result' \in Results
    BY <1>1, <2>1, OutcomeFact
  <2>3. drained % 2 = 1
    BY <1>0, <1>4 DEF ReplyInv, Answered
  <2>4. RdTypeOK'
    BY <1>0, <2>2 DEF RdTypeOK, IInv, vars, Results
  <2>5. CallerInv'
    BY <1>0, <1>1 DEF CallerInv, Busy, vars, Results
  <2>6. SuccessIsOwn'
    BY <1>0, <1>1, <1>4, <2>3 DEF SuccessIsOwn, Answered, vars
  <2> QED BY <2>4, <2>5, <2>6
(* A whole reply. *)
<1>5. CASE code = "ok" /\ ret # 0
  <2>1. Answered /\ ret <= sent /\ ret >= 1 /\ ret \in Nat
    BY <1>0, <1>5 DEF Answered, ReplyInv, TypeOK
  <2>2. drained = 2 * (sent - 1) => ret = sent
    BY <1>0, <2>1 DEF ReplyInv, TypeOK
  <2>3. kinds[ret] \in Kinds
    BY <1>0, <2>1 DEF RdTypeOK, TypeOK, Kinds
  <2>4. PICK r \in Says(kinds[ret]) : result' \in Outcome(wrap, r)
    BY <1>5 DEF HandleReply
  <2>5. r \in Replies
    BY <2>3, <2>4, SaysFact
  <2>6. /\ result' \in Results
        /\ result' = "yes" /\ wrap # "hdel" =>
             \/ r = "ok" /\ Gives[wrap] = "status"
             \/ r = "count" /\ Gives[wrap] = "count"
    BY <1>1, <2>4, <2>5, OutcomeFact
  <2>7. result' = "yes" /\ wrap # "hdel" => kinds[ret] \in {Gives[wrap], "any"}
    BY <2>3, <2>4, <2>6, SaysFact
  <2>8. RdTypeOK'
    BY <1>0, <2>6 DEF RdTypeOK, IInv, vars, Results
  <2>9. CallerInv'
    BY <1>0, <1>1 DEF CallerInv, Busy, vars, Results
  <2>10. SuccessIsOwn'
    BY <1>0, <1>1, <2>1, <2>2, <2>7 DEF SuccessIsOwn, Answered, vars
  <2> QED BY <2>8, <2>9, <2>10
<1> QED BY <1>2, <1>3, <1>4, <1>5

LEMMA WritesStep ==
    ASSUME RdInv, IInv', Writes
    PROVE  RdTypeOK' /\ CallerInv' /\ SuccessIsOwn'
<1>0. /\ RdTypeOK /\ CallerInv /\ TypeOK /\ TypeOK' /\ pc = "write" /\ sent' = sent + 1
      /\ op' = op /\ UNCHANGED <<wrap, result>> /\ torn' = FALSE
      /\ own' = IF Busy THEN sent' ELSE 0
  BY DEF RdInv, IInv, Writes, WriteOk, Return
<1>1. result = "none"
  BY <1>0 DEF CallerInv
<1>2. PICK k \in Kinds : kinds' = Append(kinds, k)
  <2>1. kinds' = Append(kinds, IF torn \/ ~Busy THEN "any" ELSE Gives[wrap])
    BY DEF Writes
  <2>2. (IF torn \/ ~Busy THEN "any" ELSE Gives[wrap]) \in Kinds
    <3>1. "any" \in Kinds
      BY DEF Kinds
    <3>2. Busy => wrap \in Wrappers
      BY <1>0 DEF Busy, RdTypeOK
    <3> QED BY <3>1, <3>2, WrapperFact
  <2> QED BY <2>1, <2>2
<1>3. kinds' \in Seq(Kinds) /\ Len(kinds') = sent'
  BY <1>0, <1>2 DEF RdTypeOK, Kinds
<1>4. RdTypeOK'
  <2>1. torn' \in BOOLEAN
    BY <1>0, Zenon
  <2>2. /\ wrap' \in Wrappers \cup {"none"} /\ result' \in Results \cup {"none"}
        /\ own' \in 0 .. sent'
    BY <1>0, <1>1 DEF RdTypeOK, TypeOK
  <2> QED BY <1>3, <2>1, <2>2, TypedNext, Zenon
<1>5. CallerInv' /\ SuccessIsOwn'
  BY <1>0, <1>1 DEF CallerInv, SuccessIsOwn, Busy, TypeOK
<1> QED BY <1>4, <1>5

LEMMA WritesPartStep ==
    ASSUME RdInv, IInv', WritesPart
    PROVE  RdTypeOK' /\ CallerInv' /\ SuccessIsOwn'
<1>0. /\ RdTypeOK /\ CallerInv /\ pc = "write" /\ sent' = sent /\ op' = op /\ code' = "send"
      /\ UNCHANGED <<wrap, result, own, kinds>>
  BY DEF RdInv, WritesPart, WriteShort, Return, netVars
<1>1. result = "none"
  BY <1>0 DEF CallerInv
<1>2. torn' \in BOOLEAN
  <2>1. torn \in BOOLEAN
    BY <1>0, Zenon DEF RdTypeOK
  <2>2. torn' = torn \/ torn' = TRUE
    BY DEF WritesPart
  <2> QED BY <2>1, <2>2
<1>3. RdTypeOK'
  BY <1>0, <1>2 DEF RdTypeOK, IInv
<1>4. CallerInv' /\ SuccessIsOwn'
  BY <1>0, <1>1 DEF CallerInv, SuccessIsOwn, Busy
<1> QED BY <1>3, <1>4

(* Only a call that waits gets an answer. *)
LEMMA WaitsStep ==
    ASSUME RdInv, IInv', Waits
    PROVE  RdTypeOK' /\ CallerInv' /\ SuccessIsOwn'
<1>0. RdTypeOK /\ CallerInv /\ ReplyInv /\ UNCHANGED wrapVars
  BY DEF RdInv, IInv, Waits
<1>1. /\ pc # "idle" /\ sent' = sent /\ op' = op
      /\ pc' = "idle" /\ code' = "ok" => op # "command"
  <2>1. CASE Drain \/ WriteSpins \/ WriteBad
    BY <2>1 DEF Drain, WriteSpins, WriteBad, Return, netVars
  <2>2. ASSUME NEW k \in 1 .. made - got, Receive(k)
        PROVE  pc # "idle" /\ sent' = sent /\ op' = op /\ pc' # "idle"
    BY <2>2 DEF Receive, netVars
  <2>3. CASE ReadZero \/ ReadTimesOut
    BY <2>3 DEF ReadZero, ReadTimesOut, Return, netVars
  <2>4. CASE ParseAnswer \/ ParsePart
    BY <1>0, <2>4 DEF ParseAnswer, ParsePart, ReplyInv, netVars
  <2>5. CASE ParseNeedsMore
    BY <2>5 DEF ParseNeedsMore, netVars
  <2> QED BY <2>1, <2>2, <2>3, <2>4, <2>5 DEF Waits
<1>2. result = "none"
  BY <1>0, <1>1 DEF CallerInv
<1>3. RdTypeOK'
  BY <1>0, <1>1 DEF RdTypeOK, IInv, wrapVars
<1>4. CallerInv' /\ SuccessIsOwn'
  BY <1>0, <1>1, <1>2 DEF CallerInv, SuccessIsOwn, Busy, wrapVars
<1> QED BY <1>3, <1>4

(* The server and the network change nothing a wrapper has returned. *)
LEMMA RdOutsideStep ==
    ASSUME RdInv, IInv', UNCHANGED <<wrapVars, sent, pc, op, code, ret, drained>>
    PROVE  RdTypeOK' /\ CallerInv' /\ SuccessIsOwn'
<1>0. RdTypeOK /\ CallerInv /\ SuccessIsOwn
  BY DEF RdInv
<1>1. RdTypeOK'
  BY <1>0 DEF RdTypeOK, IInv, wrapVars
<1>2. CallerInv'
  BY <1>0 DEF CallerInv, Busy, wrapVars
<1>3. SuccessIsOwn'
  BY <1>0 DEF SuccessIsOwn, Answered, wrapVars
<1> QED BY <1>1, <1>2, <1>3

-----------------------------------------------------------------------------
LEMMA RdNextInv == RdInv /\ [RdNext]_rdVars => RdInv'
<1> SUFFICES ASSUME RdInv, [RdNext]_rdVars PROVE RdInv' OBVIOUS
<1>0. IInv'
  BY RdStepIsStep, NextInv DEF RdInv
<1> DEFINE Goal == RdTypeOK' /\ CallerInv' /\ SuccessIsOwn'
<1>1. ASSUME Direct PROVE Goal
  BY <1>0, <1>1, DirectStep
<1>2. ASSUME NEW w \in Wrappers, Begin(w) PROVE Goal
  BY <1>0, <1>2, RdBeginStep
<1>3. ASSUME Thread PROVE Goal
  BY <1>0, <1>3, NotSentStep, WaitForReplyStep, HandleReplyStep, WritesStep, WritesPartStep, WaitsStep
     DEF Thread
<1>4. ASSUME Outside PROVE Goal
  BY <1>0, <1>4, RdOutsideStep DEF Outside, Serve, PeerCloses, Opens, netVars, bufVars
<1>5. ASSUME UNCHANGED rdVars PROVE Goal
  BY <1>0, <1>5, RdOutsideStep DEF rdVars, vars
<1>6. Goal
  BY <1>1, <1>2, <1>3, <1>4, <1>5 DEF RdNext
<1> QED BY <1>0, <1>6 DEF RdInv

THEOREM RdSpecInv == RdSpec => []RdInv
BY RdInitInv, RdNextInv, PTL DEF RdSpec

(* Each wrapper returns one of its results, and there is one kind for each   *)
(* command on the connection.                                                *)
THEOREM RdTypeCorrect == RdSpec => []RdTypeOK
<1>1. RdInv => RdTypeOK
  BY DEF RdInv
<1> QED BY <1>1, RdSpecInv, PTL

(* What a wrapper reports as success is an answer to a command it wrote, or  *)
(* to an earlier one that asked for the same kind of thing; a part of an     *)
(* answer only if its command's drain had cut one in two.                    *)
THEOREM SuccessOwn == RdSpec => []SuccessIsOwn
<1>1. RdInv => SuccessIsOwn
  BY DEF RdInv
<1> QED BY <1>1, RdSpecInv, PTL

(* The wrappers are a way to use the connection: what is proved of RClient's *)
(* specification holds under them.                                           *)
THEOREM RdRunsRClient == RdSpec => Spec
<1>1. RdInit => Init
  BY DEF RdInit
<1> QED BY <1>1, RdStepIsStep, PTL DEF RdSpec, Spec

=============================================================================
