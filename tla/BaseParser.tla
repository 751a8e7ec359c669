----------------------------- MODULE BaseParser -----------------------------
(* The functions of BaseParser that read one element of a reply off the      *)
(* receive buffer (parser/base_parser.cpp).  `u` is the unread part of the   *)
(* buffer, a sequence of bytes; a byte is a string, the two bytes of an end  *)
(* of line are "CR" and "LF".  Every function returns a record:              *)
(*   ret   0 as "OK", 1 as "ONE" (process_bool), an RCPPError by its name    *)
(*   rest  the unread part afterwards                                        *)
(*   val   what the out parameter holds; NoValue if it was not set           *)
(* Lengths above the range of int are left out.                              *)
EXTENDS Integers, Sequences, SequencesExt

CRLF == <<"CR", "LF">>

Digits == <<"0", "1", "2", "3", "4", "5", "6", "7", "8", "9">>

(* The symbol of a RESP 3 null. *)
NullSymbol == "_"

NoValue == [type |-> "none"]

Ok(u, v) == [ret |-> "OK", rest |-> u, val |-> v]

Fail(code, u) == [ret |-> code, rest |-> u, val |-> NoValue]

(* The check of a result after each call: an error is returned as it is.     *)
Then(p, F(_)) == IF p.ret = "OK" THEN F(p) ELSE p

(* RClientBuffer::has_read: does nothing when fewer than n bytes are unread. *)
has_read(u, n) == IF n <= Len(u) THEN SubSeq(u, n + 1, Len(u)) ELSE u

(* Mutant: forgets the end of line behind the item. *)
move_item_NoCrlf(u, itemlen) == has_read(u, itemlen)

move_item(u, itemlen) == has_read(u, itemlen + Len(CRLF))

is_num(s) ==
    /\ s # <<>>
    /\ Len(s) > 1 => s[1] # "0"
    /\ \A i \in DOMAIN s : s[i] \in Range(Digits)

(* The value of a digit. *)
Digit(c) == CHOOSE n \in 0..9 : Digits[n + 1] = c

(* std::stoi and std::stoll on what is_num accepts. *)
Number[s \in Seq(Range(Digits))] ==
    IF s = <<>> THEN 0 ELSE 10 * Number[Front(s)] + Digit(Last(s))

(* The next len bytes and an end of line.  Nothing is consumed for an empty  *)
(* string, not even the end of line.                                         *)
get_len_string(u, len) ==
    IF len = 0 THEN Ok(u, <<>>)
    ELSE IF Len(u) <= len + 1 THEN Fail("NEED_MORE_DATA", u)
    ELSE IF u[len + 1] = "CR" THEN Ok(move_item(u, len), SubSeq(u, 1, len))
    ELSE Fail("PARSE_FORMAT_ERROR", u)

(* The bytes up to the first end of line. *)
get_normal_string(u) ==
    LET ends == {i \in 1 .. Len(u) - 1 : SubSeq(u, i, i + 1) = CRLF}
    IN  IF ends = {} THEN Fail("NEED_MORE_DATA", u)
        ELSE get_len_string(u, Min(ends) - 1)

get_aggregate_len(u) ==
    Then(get_normal_string(u),
         LAMBDA s : IF is_num(s.val) THEN Ok(s.rest, Number[s.val])
                    ELSE Fail("NOT_A_NUMBER", s.rest))

(* The body of a string with a length in front. *)
LenString(u) == Then(get_aggregate_len(u), LAMBDA n : get_len_string(n.rest, n.val))

(* `next` is the byte in memory behind the unread ones: text[1] is read even *)
(* when only the '$' has arrived.                                            *)
process_blob_string(u, next) ==
    IF u[1] # "$" THEN Fail("PARSE_FORMAT_ERROR", u)
    ELSE IF (IF Len(u) > 1 THEN u[2] ELSE next) = "-"
         THEN [Fail("NIL_VALUE", move_item(u, 3)) EXCEPT !.val = <<"-">>]
    ELSE LenString(has_read(u, 1))

process_blob_error(u) ==
    IF u[1] # "!" THEN Fail("PARSE_FORMAT_ERROR", u) ELSE LenString(has_read(u, 1))

(* process_simple_string, process_simple_error and process_big_number, which *)
(* differ in the symbol they expect.                                         *)
process_line(u, symbol) ==
    IF u[1] # symbol THEN Fail("PARSE_FORMAT_ERROR", u)
    ELSE get_normal_string(has_read(u, 1))

(* The number in a line.  An incomplete line is a format error, behind the   *)
(* ':' already consumed.                                                     *)
NumberIn(s) ==
    LET neg == s.val[1] = "-"
        abs == IF neg THEN Tail(s.val) ELSE s.val
    IN  IF s.ret = "OK" /\ s.val # <<>> /\ is_num(abs)
        THEN Ok(s.rest, IF neg THEN -Number[abs] ELSE Number[abs])
        ELSE Fail("PARSE_FORMAT_ERROR", s.rest)

process_number(u) ==
    IF u[1] # ":" THEN Fail("PARSE_FORMAT_ERROR", u)
    ELSE NumberIn(get_normal_string(has_read(u, 1)))

process_nil(u) ==
    IF u[1] # NullSymbol THEN Fail("PARSE_FORMAT_ERROR", u)
    ELSE IF Len(u) < 3 THEN Fail("NEED_MORE_DATA", u)
    ELSE IF SubSeq(u, 2, 3) = CRLF THEN Ok(has_read(u, 3), NoValue)
    ELSE Fail("PARSE_FORMAT_ERROR", u)

(* Returns 1 for true and 0 for anything else; the out parameter keeps the   *)
(* value the caller's variable has.                                          *)
BoolIn(s, flag) ==
    IF s.ret # "OK" \/ Len(s.val) # 1 THEN Fail("PARSE_FORMAT_ERROR", s.rest)
    ELSE IF s.val = <<"t">> THEN Fail("ONE", s.rest)
    ELSE Ok(s.rest, flag)

process_bool(u, flag) ==
    IF u[1] # "#" THEN Fail("PARSE_FORMAT_ERROR", u)
    ELSE BoolIn(get_normal_string(has_read(u, 1)), flag)

(* Keeps the three letters of the format and the ':' in front of the text.   *)
process_verbatim_string(u) ==
    IF u[1] # "=" THEN Fail("PARSE_FORMAT_ERROR", u)
    ELSE Then(get_aggregate_len(has_read(u, 1)),
              LAMBDA n : IF Len(n.rest) < 4 \/ n.rest[4] # ":"
                         THEN Fail("PARSE_FORMAT_ERROR", n.rest)
                         ELSE get_len_string(n.rest, n.val))

(* Expects the symbol of a number, and is called for a ',' only: fails there. *)
process_double(u) == Fail("PARSE_FORMAT_ERROR", u)

=============================================================================
