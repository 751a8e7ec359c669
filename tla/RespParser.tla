----------------------------- MODULE RespParser -----------------------------
(* A stream of replies, cut anywhere on its way, and the code that parses    *)
(* it: RClient::do_parse, ArrayParser, MapParser and BaseParser::parse_array *)
(* over the functions of BaseParser.  The caller reads when do_parse says    *)
(* NEED_MORE_DATA, as RClient::get_results does, and parses on while bytes   *)
(* are left, as the subscriber does.                                         *)
EXTENDS BaseParser

CONSTANTS
    Letters,    \* the bytes that mean nothing to the parser
    Values,     \* the replies a server may send, and their elements
    Replies,    \* those it sends on their own
    Encode,     \* the bytes it writes for each of Values
    MaxReplies, \* how many it sends
    Resp3,      \* TRUE if it speaks RESP 3
    Stale       \* the bytes that may stand in the buffer behind the unread ones

VARIABLES
    sent,    \* the replies the server sends
    wire,    \* their bytes that have not been received
    unread,  \* the unread part of the receive buffer
    out,     \* the values do_parse has returned
    code     \* "parse", NEED_MORE_DATA, or the error do_parse ended with

vars == <<sent, wire, unread, out, code>>

-----------------------------------------------------------------------------
(* Values, with the names of the C++ classes and enumerators. *)

Text(type, s) == [type |-> type, text |-> s]
Integer(n) == [type |-> "Number", number |-> n]
Boolean(b) == [type |-> "Boolean", flag |-> b]
Nil == [type |-> "NilValue"]
Complex(type, vs) == [type |-> type, results |-> vs]

TextSymbol == [SimpleString |-> "+", SimpleError |-> "-", BigNumber |-> "(",
               BlobString |-> "$", BlobError |-> "!", Verbatim |-> "=", Double |-> ","]
ComplexSymbol == [Array |-> "*", Set |-> "~", Push |-> ">", Map |-> "%"]

IsComplex(v) == v.type \in DOMAIN ComplexSymbol

(* A byte of the stream. *)
Byte == Letters \cup Range(Digits) \cup Range(TextSymbol) \cup Range(ComplexSymbol)
            \cup {"CR", "LF", ":", NullSymbol, "#", "t", "f"}

-----------------------------------------------------------------------------
(* What a server writes, by the grammar in the comment of rclient_def.h.     *)

Decimal[n \in Nat] ==
    IF n < 10 THEN <<Digits[n + 1]>> ELSE Decimal[n \div 10] \o <<Digits[(n % 10) + 1]>>

Line(s) == s \o CRLF

(* The bytes of v, those of its elements given. *)
Bytes(v, encode) ==
    CASE v.type \in {"SimpleString", "SimpleError", "BigNumber", "Double"} ->
            <<TextSymbol[v.type]>> \o Line(v.text)
      [] v.type \in {"BlobString", "BlobError", "Verbatim"} ->
            <<TextSymbol[v.type]>> \o Line(Decimal[Len(v.text)]) \o Line(v.text)
      [] v.type = "Number" ->
            <<":">> \o Line(IF v.number < 0 THEN <<"-">> \o Decimal[-v.number]
                            ELSE Decimal[v.number])
      [] v.type = "Boolean" -> <<"#">> \o Line(IF v.flag THEN <<"t">> ELSE <<"f">>)
      [] v.type = "NilValue" -> Line(IF Resp3 THEN <<NullSymbol>> ELSE <<"$", "-", "1">>)
      [] IsComplex(v) ->
            <<ComplexSymbol[v.type]>>
            \o Line(Decimal[Len(v.results) \div (IF v.type = "Map" THEN 2 ELSE 1)])
            \o FlattenSeq([i \in DOMAIN v.results |-> encode[v.results[i]]])

EncodeAll(vs) == FlattenSeq([i \in DOMAIN vs |-> Encode[vs[i]]])

ASSUME RepliesAssumption == Replies \subseteq Values
ASSUME ElementsAssumption == \A v \in Values : IsComplex(v) => v.results \in Seq(Values)
ASSUME EncodeAssumption ==
    /\ Encode \in [Values -> Seq(Byte)]
    /\ \A v \in Values : Encode[v] = Bytes(v, Encode)
ASSUME MaxRepliesAssumption == MaxReplies \in Nat
ASSUME Resp3Assumption == Resp3 \in BOOLEAN

-----------------------------------------------------------------------------
(* The parser *)

(* The value of a parsed element, made of what its function returned. *)
Wrap(p, Make(_)) == Then(p, LAMBDA q : [q EXCEPT !.val = Make(q.val)])

(* The type of value that stands behind a symbol. *)
TextType(c) == CHOOSE t \in DOMAIN TextSymbol : TextSymbol[t] = c

(* The elements that are not aggregates, the same in do_parse and in         *)
(* parse_array; next and flag are what uninitialised memory holds.           *)
Scalar(u, next, flag) ==
    LET c == u[1]
        Named(s) == Text(TextType(c), s)
    IN  CASE c = "$" -> Wrap(process_blob_string(u, next), Named)
          [] c = "!" -> Wrap(process_blob_error(u), Named)
          [] c = "=" -> Wrap(process_verbatim_string(u), Named)
          [] c \in {"+", "-", "("} -> Wrap(process_line(u, c), Named)
          [] c = ":" -> Wrap(process_number(u), Integer)
          [] c = NullSymbol -> Wrap(process_nil(u), LAMBDA s : Nil)
          [] c = "#" -> Wrap(process_bool(u, flag), Boolean)
          [] c = "," -> process_double(u)
          [] OTHER -> Fail("RESP_FORMAT_UNKNOWN", u)

AggregateType(c) == CHOOSE t \in DOMAIN ComplexSymbol : ComplexSymbol[t] = c

(* What stands behind the length n of an array, map, set or push; `parse` is *)
(* parse_array, here and below.                                              *)
Elements(n, type, flag, parse) ==
    IF n.ret = "OK"
    THEN parse[<<n.rest, IF type = "Map" THEN 2 * n.val ELSE n.val, flag>>]
    ELSE [n EXCEPT !.val = <<>>]

(* One of them inside another. *)
Nested(u, flag, parse) ==
    LET type == AggregateType(u[1])
    IN  Wrap(Elements(get_aggregate_len(has_read(u, 1)), type, flag, parse),
             LAMBDA vs : Complex(type, vs))

(* parse_array has no case for a blob error. *)
Element(u, flag, parse) ==
    CASE u[1] \in Range(ComplexSymbol) -> Nested(u, flag, parse)
      [] u[1] \in (Range(TextSymbol) \ {"!"}) \cup {":", NullSymbol, "#"} -> Scalar(u, "", flag)
      [] OTHER -> Fail("PARSE_FORMAT_ERROR", u)

(* Element e is read; on failure the array keeps those before it.            *)
Added(e, amounts, flag, parse) ==
    IF e.ret = "OK"
    THEN [parse[<<e.rest, amounts - 1, flag>>] EXCEPT !.val = <<e.val>> \o @]
    ELSE [e EXCEPT !.val = <<>>]

(* Mutant: wants one byte more than the shortest element has. *)
ArrayFrom_Waits(u, amounts, flag, parse) ==
    IF amounts = 0 THEN Ok(u, <<>>)
    ELSE IF Len(u) <= 4 THEN [Fail("NEED_MORE_DATA", u) EXCEPT !.val = <<>>]
    ELSE Added(Element(u, flag, parse), amounts, flag, parse)

(* The loop of parse_array with this many elements to go. *)
ArrayFrom(u, amounts, flag, parse) ==
    IF amounts = 0 THEN Ok(u, <<>>)
    ELSE IF Len(u) <= 3 THEN [Fail("NEED_MORE_DATA", u) EXCEPT !.val = <<>>]
    ELSE Added(Element(u, flag, parse), amounts, flag, parse)

parse_array[x \in Seq(Byte) \X Nat \X BOOLEAN] ==
    ArrayFrom(x[1], x[2], x[3], parse_array)

(* ArrayParser::parse and MapParser::parse: only a negative result is an     *)
(* error, and the array is there from the start.                             *)
ParseAggregate(u, type, flag) ==
    LET p == Elements(get_aggregate_len(u), type, flag, parse_array)
    IN  [ret |-> IF p.ret = "ONE" THEN "OK" ELSE p.ret,
         rest |-> p.rest, val |-> Complex(type, p.val)]

(* Mutant: leaves the unread bytes where the failed parser left them. *)
Returned_NoRestore(p, u) ==
    IF p.ret = "NIL_VALUE" /\ u[1] = "$" THEN [p EXCEPT !.val = Nil] ELSE p

(* Mutant: puts the read position back after a value as well. *)
Returned_Restores(p, u) == [p EXCEPT !.rest = u]

(* The read position is put back when a value is not complete, and stays     *)
(* where it is after an error.                                               *)
Returned(p, u) ==
    CASE p.ret = "NEED_MORE_DATA" -> [p EXCEPT !.rest = u]
      [] p.ret = "NIL_VALUE" /\ u[1] = "$" -> [p EXCEPT !.val = Nil]
      [] OTHER -> p

(* One value off the buffer. *)
do_parse(u, next, flag) ==
    Returned(IF u[1] \in Range(ComplexSymbol)
             THEN ParseAggregate(has_read(u, 1), AggregateType(u[1]), flag)
             ELSE Scalar(u, next, FALSE), u)

-----------------------------------------------------------------------------
(* The stream *)

Init ==
    /\ sent \in [1..MaxReplies -> Replies]
    /\ wire = EncodeAll(sent)
    /\ unread = <<>>
    /\ out = <<>>
    /\ code = "NEED_MORE_DATA"

(* get_results reads some of the bytes on their way. *)
Receive(n) ==
    /\ code = "NEED_MORE_DATA"
    /\ unread' = unread \o SubSeq(wire, 1, n)
    /\ wire' = SubSeq(wire, n + 1, Len(wire))
    /\ code' = "parse"
    /\ UNCHANGED <<sent, out>>

(* do_parse returns a value; the caller goes on while bytes are left. *)
ParseValue(next, flag) ==
    /\ code = "parse"
    /\ \E p \in {do_parse(unread, next, flag)} :
          /\ p.ret \in {"OK", "NIL_VALUE"}
          /\ out' = Append(out, p.val)
          /\ unread' = p.rest
          /\ code' = IF p.rest = <<>> THEN "NEED_MORE_DATA" ELSE "parse"
    /\ UNCHANGED <<sent, wire>>

(* do_parse wants more bytes or fails; the caller keeps no part of a value.  *)
ParseFails(next, flag) ==
    /\ code = "parse"
    /\ \E p \in {do_parse(unread, next, flag)} :
          /\ p.ret \notin {"OK", "NIL_VALUE"}
          /\ unread' = p.rest
          /\ code' = p.ret
    /\ UNCHANGED <<sent, wire, out>>

Next ==
    \/ \E n \in 1..Len(wire) : Receive(n)
    \/ \E next \in Stale, flag \in BOOLEAN : ParseValue(next, flag) \/ ParseFails(next, flag)

Spec == Init /\ [][Next]_vars

-----------------------------------------------------------------------------
(* The replies the parser reads however they are cut: what the theorems      *)
(* about the stream assume of the server.                                    *)

NoEndOfLine(s) == \A i \in 1 .. Len(s) - 1 : SubSeq(s, i, i + 1) # CRLF

IsLine(v) ==
    /\ v \in [type : {"SimpleString", "SimpleError", "BigNumber"}, text : Seq(Byte) \ {<<>>}]
    /\ NoEndOfLine(v.text)

IsBlob(v, type) == v \in [type : {type}, text : Seq(Byte) \ {<<>>}]

(* A reply on its own: a number or a boolean in front of the buffer is an    *)
(* error until its line is here.                                             *)
ReadableReply(v) ==
    IsLine(v) \/ IsBlob(v, "BlobString") \/ IsBlob(v, "BlobError") \/ v = Nil \/ IsComplex(v)

(* A number is read as one piece only where parse_array has seen its four    *)
(* bytes, and there is no element that is a blob error.                      *)
ReadableElement(v) ==
    IsLine(v) \/ IsBlob(v, "BlobString") \/ v \in {Integer(n) : n \in 0..9} \/ v = Nil \/ IsComplex(v)

(* A null cannot come last: it has three bytes, and parse_array looks for    *)
(* four.                                                                     *)
ReadableAggregate(v) ==
    /\ v \in [type : DOMAIN ComplexSymbol, results : Seq(Values)]
    /\ v.type = "Map" => Len(v.results) % 2 = 0
    /\ \A i \in DOMAIN v.results : ReadableElement(v.results[i])
    /\ v.results # <<>> => Last(v.results) # Nil

(* Behind a `$` that has come alone there is no '-' in memory, and the null  *)
(* is that of RESP 3.                                                        *)
Readable ==
    /\ "-" \notin Stale
    /\ Nil \in Values => Resp3
    /\ \A v \in Replies : ReadableReply(v)
    /\ \A v \in Values : IsComplex(v) => ReadableAggregate(v)

-----------------------------------------------------------------------------
(* Properties *)

TypeOK ==
    /\ sent \in [1..MaxReplies -> Replies]
    /\ Len(out) <= MaxReplies
    /\ code \in {"parse", "NEED_MORE_DATA", "ONE", "PARSE_FORMAT_ERROR",
                 "RESP_FORMAT_UNKNOWN", "NOT_A_NUMBER"}

(* However the bytes are cut, do_parse fails on none of them, and returns    *)
(* the values that were sent, in their order, none early and none twice      *)
(* (RClient::do_parse with its position restored on NEED_MORE_DATA).         *)
ReturnsWhatWasSent ==
    /\ code \in {"parse", "NEED_MORE_DATA"}
    /\ IsPrefix(out, sent)

(* Each value takes its own bytes off the buffer, all of them and no other:  *)
(* what is left are the bytes of the values not yet returned (move_item and  *)
(* has_read in every process function).                                      *)
TakesWholeReplies == EncodeAll(out) \o unread \o wire = EncodeAll(sent)

(* The parser asks for more only when a reply is incomplete: once all bytes  *)
(* are here, all values have been returned (the length checks of             *)
(* get_len_string, process_nil and parse_array).                             *)
HoldsNothingBack == wire = <<>> /\ code = "NEED_MORE_DATA" => out = sent

=============================================================================
