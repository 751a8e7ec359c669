---------------------------- MODULE RClientClaims ----------------------------
(* A statement of README.md about a connection that the code does not keep.  *)
EXTENDS RClient

(* A caller that waits for the response of each command before the next: the *)
(* calls that send and wait themselves.                                      *)
Paired == op' \in {"connect", "query"}

PairedSpec == Init /\ [][Next /\ Paired]_vars

(* README.md:57, "Send command and wait for responses": the response         *)
(* returned, if it is a whole one, is the response to the command sent.  It  *)
(* is that of an earlier command when that one timed out and its response    *)
(* arrives after the drain.                                                  *)
ResponseIsForCommand == Answered /\ ret # 0 => ret = sent

=============================================================================
