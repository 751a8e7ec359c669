-------------------------- MODULE RespParserClaims --------------------------
(* The grammar in the comment of rclient_def.h, for the replies the parser   *)
(* does not read as it says.  Each run gives Values the replies of one line  *)
(* of that comment and checks one property of RespParser on them.            *)
EXTENDS MCRespParser

(* Every read gets all the bytes there are: no reply is cut. *)
WholeSpec == Init /\ [][Next /\ wire' \in {wire, <<>>}]_vars

=============================================================================
