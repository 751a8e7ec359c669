---------------------------- MODULE RClientBuffer ----------------------------
(***************************************************************************)
(* The receive buffer of core/rclient_buffer.{h,cpp}, one action per       *)
(* operation, each with the arguments its callers can pass.  log and total *)
(* are history variables: every byte received since the last reset, of     *)
(* which the buffer still holds the last wpos.                             *)
(***************************************************************************)
EXTENDS Integers

CONSTANTS Bytes,      \* byte values
          Junk,       \* content of memory nobody has written
          InitSize,   \* the constructor's init_size
          MaxSize,    \* bound: capacity
          MaxTotal    \* bound: bytes received between two resets

ASSUME SizeAssumption ==
    InitSize \in Nat \ {0} /\ MaxSize \in Nat /\ InitSize <= MaxSize /\ MaxTotal \in Nat
ASSUME JunkAssumption == Junk \notin Bytes

VARIABLES mem,      \* _buffer
          size,     \* _size
          rpos,     \* _read_pos
          wpos,     \* _write_pos
          log, total,
          out       \* what read or a parser last took from read_ptr()

vars == <<mem, size, rpos, wpos, log, total, out>>

Empty == [i \in {} |-> 0]

Cells == Bytes \cup {Junk}

TypeOK ==
    /\ size \in InitSize .. MaxSize
    /\ mem \in [0 .. size - 1 -> Cells]
    /\ wpos \in 0 .. size
    /\ rpos \in 0 .. wpos
    /\ total \in 0 .. MaxTotal
    /\ log \in [0 .. total - 1 -> Bytes]

Init ==
    /\ size = InitSize
    /\ mem = [i \in 0 .. InitSize - 1 |-> Junk]
    /\ rpos = 0 /\ wpos = 0
    /\ log = Empty /\ total = 0 /\ out = Empty

readable_size == wpos - rpos
usable_size == size - readable_size
writable_size == size - wpos

(* k bytes bs written to m from position p on. *)
Put(m, p, k, bs) ==
    [i \in DOMAIN m |-> IF p <= i /\ i < p + k THEN bs[i - p] ELSE m[i]]

(* Mutant: copies from the start of the buffer instead of read_ptr(). *)
Shift_NoOffset(m) == [i \in DOMAIN m |-> m[i]]

(* The unread bytes copied to the front. *)
Shift(m) == [i \in DOMAIN m |-> IF i < readable_size THEN m[rpos + i] ELSE m[i]]

(* The history of a receive of k bytes. *)
Record(k, bs) ==
    /\ total + k <= MaxTotal
    /\ total' = total + k
    /\ log' = [i \in 0 .. total + k - 1 |-> IF i < total THEN log[i] ELSE bs[i - total]]

-----------------------------------------------------------------------------
(* RClient::get_results reads at most writable_size() bytes to write_ptr()   *)
(* and calls has_written.                                                    *)
Receive(k, bs) ==
    /\ k <= writable_size
    /\ Record(k, bs)
    /\ mem' = Put(mem, wpos, k, bs)
    /\ wpos' = IF wpos + k <= size THEN wpos + k ELSE wpos
    /\ UNCHANGED <<size, rpos, out>>

(* Mutant: the position is compared with the capacity. *)
has_read_WithinSize(n) ==
    /\ rpos' = IF rpos + n <= size THEN rpos + n ELSE rpos
    /\ UNCHANGED <<mem, size, wpos, log, total, out>>

(* move_item steps over a CRLF without a look at how much is readable. *)
has_read(n) ==
    /\ rpos' = IF rpos + n <= wpos THEN rpos + n ELSE rpos
    /\ UNCHANGED <<mem, size, wpos, log, total, out>>

(* RClient::do_parse goes back to where it began. *)
set_read_off(p) ==
    /\ p <= rpos
    /\ rpos' = p
    /\ UNCHANGED <<mem, size, wpos, log, total, out>>

(* rearrange() as the other operations call it. *)
Compact ==
    /\ mem' = Shift(mem)
    /\ wpos' = readable_size
    /\ rpos' = 0

rearrange == Compact /\ UNCHANGED <<size, log, total, out>>

enable_size(k) ==
    /\ IF k <= size /\ k <= usable_size /\ writable_size < k
         THEN Compact
         ELSE UNCHANGED <<mem, rpos, wpos>>
    /\ UNCHANGED <<size, log, total, out>>

(* Mutant: only as many bytes as are unread are copied. *)
resize_CopiesReadable(newcap) ==
    /\ IF newcap <= size
         THEN UNCHANGED <<mem, size>>
         ELSE /\ size' = newcap
              /\ mem' = [i \in 0 .. newcap - 1 |->
                           IF i < readable_size THEN mem[i] ELSE Junk]
    /\ UNCHANGED <<rpos, wpos, log, total, out>>

resize(newcap) ==
    /\ IF newcap <= size
         THEN UNCHANGED <<mem, size>>
         ELSE /\ size' = newcap
              /\ mem' = [i \in 0 .. newcap - 1 |-> IF i < size THEN mem[i] ELSE Junk]
    /\ UNCHANGED <<rpos, wpos, log, total, out>>

(* write: directly, after a compaction, or not at all. *)
WriteFits(k, bs) ==
    /\ k <= writable_size
    /\ Record(k, bs)
    /\ mem' = Put(mem, wpos, k, bs) /\ wpos' = wpos + k
    /\ UNCHANGED <<size, rpos, out>>

WriteCompacts(k, bs) ==
    /\ writable_size < k /\ k <= usable_size
    /\ Record(k, bs)
    /\ mem' = Put(Shift(mem), readable_size, k, bs)
    /\ wpos' = readable_size + k /\ rpos' = 0
    /\ UNCHANGED <<size, out>>

(* read, and the parsers' look at read_ptr() within readable_size(). *)
read(k) ==
    /\ k <= readable_size
    /\ out' = [i \in 0 .. k - 1 |-> mem[rpos + i]]
    /\ UNCHANGED <<mem, size, rpos, wpos, log, total>>

(* RClient::command resets the buffer and lets the socket overwrite it. *)
reset(k, bs) ==
    /\ k <= size
    /\ rpos' = 0 /\ wpos' = 0 /\ log' = Empty /\ total' = 0
    /\ mem' = Put(mem, 0, k, bs)
    /\ UNCHANGED <<size, out>>

Chunks(k) == [0 .. k - 1 -> Bytes]

Next ==
    \/ \E k \in 0 .. MaxSize : \E bs \in Chunks(k) :
         Receive(k, bs) \/ WriteFits(k, bs) \/ WriteCompacts(k, bs) \/ reset(k, bs)
    \/ \E p \in 0 .. MaxSize : has_read(p) \/ set_read_off(p) \/ enable_size(p) \/ resize(p) \/ read(p)
    \/ rearrange

Spec == Init /\ [][Next]_vars

-----------------------------------------------------------------------------
(* The held bytes are the last wpos bytes received: no sequence of partial   *)
(* reads, back-steps, compactions and growths loses, repeats or reorders an  *)
(* unread byte, and none of them shows memory nobody has written.            *)
HoldsLastReceived ==
    /\ wpos <= total
    /\ \A i \in 0 .. wpos - 1 : mem[i] = log[total - wpos + i]

Stream == INSTANCE ByteStream
            WITH Chunk <- MaxSize, stream <- log, length <- total, cursor <- total - readable_size

(* Users of the buffer see a ByteStream. *)
IsByteStream == Stream!Spec

=============================================================================
