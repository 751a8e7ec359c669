----------------------------- MODULE ByteStream -----------------------------
(***************************************************************************)
(* What core/rclient_buffer promises its users: the bytes received since   *)
(* the last reset form one stream, in order; a cursor moves over it; what  *)
(* is read is the stream at the cursor.  Where the bytes lie, and when they *)
(* are moved, does not show.                                               *)
(***************************************************************************)
EXTENDS Integers

CONSTANTS Bytes,
          Chunk     \* the most bytes appended or taken at once

VARIABLES stream,   \* stream[i]: the i-th byte since the last reset
          length,   \* number of bytes in it
          cursor,   \* number of bytes consumed
          out       \* the bytes last handed to the user

vars == <<stream, length, cursor, out>>

Init == stream = [i \in {} |-> 0] /\ length = 0 /\ cursor = 0
        /\ out = [i \in {} |-> 0]

Append(k, bs) ==
    /\ length' = length + k
    /\ stream' = [i \in 0 .. length + k - 1 |->
                    IF i < length THEN stream[i] ELSE bs[i - length]]
    /\ UNCHANGED <<cursor, out>>

(* Forward over received bytes, or back. *)
Move == cursor' \in 0 .. length /\ UNCHANGED <<stream, length, out>>

Take(k) ==
    /\ cursor + k <= length
    /\ out' = [i \in 0 .. k - 1 |-> stream[cursor + i]]
    /\ UNCHANGED <<stream, length, cursor>>

Clear == stream' = [i \in {} |-> 0] /\ length' = 0 /\ cursor' = 0
         /\ UNCHANGED out

Next == \/ \E k \in 0 .. Chunk : Take(k) \/ \E bs \in [0 .. k - 1 -> Bytes] : Append(k, bs)
        \/ Move \/ Clear

Spec == Init /\ [][Next]_vars

=============================================================================
