---------------------------- MODULE RequestReply ----------------------------
(***************************************************************************)
(* What a core/rclient connection promises about replies: commands are     *)
(* numbered as they are sent; a reply is handed out at most once and never *)
(* before its command; replies come in the order of the commands, except   *)
(* that some are forgotten.  Of a reply that was forgotten when only its   *)
(* beginning had come, the rest may be handed out, in parts; no whole      *)
(* reply comes before that rest is forgotten or used up.                   *)
(***************************************************************************)
EXTENDS Integers

VARIABLES sent,     \* number of commands sent
          settled,  \* the replies up to this one were handed out or forgotten
          torn,     \* there is a rest of the last of them
          answer    \* what the last call returned: a reply, APart, or 0: none

vars == <<sent, settled, torn, answer>>

APart == -1

Init == sent = 0 /\ settled = 0 /\ torn = FALSE /\ answer = 0

Send == sent' = sent + 1 /\ answer' = 0 /\ UNCHANGED <<settled, torn>>

(* Some replies are passed over; there is a rest only of a reply that is.    *)
Pass ==
    /\ settled' \in settled .. sent
    /\ torn' \in BOOLEAN /\ (torn' => torn \/ settled' > settled)
    /\ UNCHANGED sent

Forget == Pass /\ answer' = 0

(* A part of the rest that ends in an open string or array takes some of the *)
(* replies behind it along.                                                  *)
Rest == torn /\ Pass /\ answer' = APart

Reply ==
    /\ ~torn /\ settled < sent
    /\ settled' = settled + 1 /\ answer' = settled'
    /\ UNCHANGED <<sent, torn>>

Next == Send \/ Forget \/ Rest \/ Reply

Spec == Init /\ [][Next]_vars

=============================================================================
