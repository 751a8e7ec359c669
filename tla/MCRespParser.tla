---------------------------- MODULE MCRespParser ----------------------------
(* Replies for the runs of RespParser. *)
EXTENDS RespParser

A == Text("SimpleString", <<"a">>)
B == Text("BlobString", <<"b", "-">>)
Number7 == Integer(7)

(* What the parser handles however it is cut: texts that are not empty, with *)
(* an end of line or symbols inside, a length of two digits, numbers of one  *)
(* digit inside aggregates, a null in front of another element, and every    *)
(* aggregate, empty, full and nested.                                        *)
Supported == {
    A,
    Text("SimpleError", <<"-", "a", "b">>),
    Text("BigNumber", <<"1", "0">>),
    Text("BlobString", <<"a", "CR", "LF", "$", "1">>),
    Text("BlobString", <<"a", "b", "a", "b", "a", "b", "a", "b", "a", "b">>),
    Text("BlobError", <<"a">>),
    Nil,
    Complex("Array", <<>>),
    Complex("Array", <<B, Number7>>),
    Complex("Array", <<Nil, B>>),
    Complex("Set", <<Complex("Array", <<>>), A>>),
    Complex("Map", <<A, Complex("Map", <<A, Number7>>), B, Complex("Set", <<B>>)>>),
    Complex("Push", <<Complex("Push", <<B, A>>), Complex("Array", <<Number7, Number7>>)>>) }

Numbers == {Integer(12), Integer(-3)}
Empty == {Text("BlobString", <<>>)}
Doubles == {Text("Double", <<"1", ".", "5">>)}
Booleans == {Boolean(TRUE), Boolean(FALSE)}
Nils == {Nil}
NilInside == {Complex("Array", <<B, Nil, B>>)}
NilLast == {Complex("Array", <<B, Nil>>)}
Blobs == {B}

(* A set of replies with their elements, which nest at most twice. *)
Parts(S) == S \cup UNION {Range(v.results) : v \in {w \in S : IsComplex(w)}}
RepliesAndElements == Parts(Parts(Replies))

Encoding[v \in Values] == Bytes(v, Encoding)

(* What the theorems assume of the replies holds of these. *)
ASSUME SupportedAssumption == Replies = Supported => Readable

=============================================================================
