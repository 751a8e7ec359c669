------------------------------ MODULE RdClaims ------------------------------
(* A comment on the wrappers that the code does not keep.                    *)
EXTENDS Rd

WrapSpec == RdInit /\ [][RdNext]_rdVars

(* rdstring.h:14, "retval: 0 for succeed": the result of RdString::set is    *)
(* not 1 ("yes") when the server answered +OK.                               *)
ZeroForSucceed == wrap = "set" /\ Answered => result # "yes"

=============================================================================
