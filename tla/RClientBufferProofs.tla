-------------------------- MODULE RClientBufferProofs --------------------------
(***************************************************************************)
(* The receive buffer holds the last bytes received, for every capacity,   *)
(* every set of byte values and every history of operations; and its users *)
(* see a ByteStream.                                                       *)
(***************************************************************************)
EXTENDS RClientBuffer, TLAPS

USE SizeAssumption, JunkAssumption

IInv == TypeOK /\ HoldsLastReceived

(* Memory m starts with the last w bytes received. *)
Holds(m, w) == w <= total /\ \A i \in 0 .. w - 1 : m[i] = log[total - w + i]

(* The helpers, at the size the type invariant gives them. *)
LEMMA SizesFact ==
    ASSUME TypeOK
    PROVE  /\ readable_size \in 0 .. size
           /\ writable_size \in 0 .. size
           /\ usable_size \in 0 .. size
           /\ writable_size <= usable_size
           /\ rpos + readable_size = wpos
BY DEF TypeOK, readable_size, writable_size, usable_size

(* Copying the unread bytes to the front keeps the buffer's type. *)
LEMMA ShiftFact ==
    ASSUME TypeOK
    PROVE  /\ Shift(mem) \in [0 .. size - 1 -> Cells]
           /\ \A i \in 0 .. readable_size - 1 : Shift(mem)[i] = mem[rpos + i]
BY DEF TypeOK, Shift, readable_size

(* What Put writes, and where. *)
LEMMA PutFact ==
    ASSUME NEW n \in Nat, NEW m \in [0 .. n - 1 -> Cells], NEW p \in Nat, NEW k \in Nat,
           p + k <= n, NEW bs \in Chunks(k)
    PROVE  /\ Put(m, p, k, bs) \in [0 .. n - 1 -> Cells]
           /\ \A i \in 0 .. p - 1 : Put(m, p, k, bs)[i] = m[i]
           /\ \A i \in p .. p + k - 1 : Put(m, p, k, bs)[i] = bs[i - p]
BY DEF Put, Chunks, Cells

(* The history after a receive. *)
LEMMA RecordFact ==
    ASSUME TypeOK, NEW k \in Nat, NEW bs \in Chunks(k), Record(k, bs)
    PROVE  /\ total' = total + k
           /\ total' \in 0 .. MaxTotal
           /\ log' \in [0 .. total' - 1 -> Bytes]
           /\ \A i \in 0 .. total - 1 : log'[i] = log[i]
           /\ \A i \in total .. total + k - 1 : log'[i] = bs[i - total]
BY DEF TypeOK, Record, Chunks

-----------------------------------------------------------------------------
(* Each operation that moves bytes keeps the invariant. *)

(* Bytes appended at wpos to a memory that holds the last w bytes. *)
LEMMA AppendFact ==
    ASSUME TypeOK, NEW m \in [0 .. size - 1 -> Cells], NEW w \in 0 .. size,
           Holds(m, w),
           NEW k \in Nat, w + k <= size, NEW bs \in Chunks(k), Record(k, bs),
           size' = size, mem' = Put(m, w, k, bs), wpos' = w + k, rpos' \in 0 .. w
    PROVE  IInv'
<1>1. size \in Nat /\ size' \in InitSize .. MaxSize
  BY DEF TypeOK
<1>2. mem' \in [0 .. size' - 1 -> Cells] /\ wpos' \in 0 .. size' /\ rpos' \in 0 .. wpos'
  <2>1. w \in Nat /\ w + k \in 0 .. size /\ w <= w + k
    BY <1>1
  <2>2. Put(m, w, k, bs) \in [0 .. size - 1 -> Cells]
    BY <1>1, <2>1, PutFact
  <2> QED BY <1>1, <2>1, <2>2
<1>0. total' = total + k /\ total' \in 0 .. MaxTotal /\ log' \in [0 .. total' - 1 -> Bytes]
  BY RecordFact
<1>3. TypeOK'
  BY <1>0, <1>1, <1>2 DEF TypeOK
<1>4. wpos' <= total'
  BY <1>0 DEF TypeOK, Holds
<1>5. ASSUME NEW i \in 0 .. wpos' - 1
      PROVE  mem'[i] = log'[total' - wpos' + i]
  <2>1. total \in Nat /\ total' - wpos' = total - w
    BY RecordFact DEF TypeOK
  <2>2. CASE i < w
    <3>0. i \in 0 .. w - 1 /\ w \in Nat
      BY <2>2, <1>1
    <3>5. m[i] = log[total - w + i]
      BY <3>0 DEF Holds
    <3>6. mem'[i] = m[i]
      BY <3>0, <1>1, PutFact
    <3>1. mem'[i] = m[i] /\ m[i] = log[total - w + i]
      BY <3>5, <3>6
    <3> DEFINE j == total - w + i
    <3>2. j \in 0 .. total - 1 /\ j = total' - wpos' + i
      BY <1>0, <2>1, <2>2 DEF Holds
    <3> HIDE DEF j
    <3>3. log'[j] = log[j]
      BY <3>2, RecordFact
    <3>4. mem'[i] = log[j]
      BY <3>1 DEF j
    <3> QED BY <3>2, <3>3, <3>4
  <2>3. CASE w <= i
    <3>1. i \in w .. w + k - 1
      BY <2>3
    <3>2. mem'[i] = bs[i - w]
      BY <3>1, <1>1, PutFact
    <3> DEFINE j == total - w + i
    <3>3. j \in total .. total + k - 1 /\ j - total = i - w
      BY <2>1, <3>1
    <3> HIDE DEF j
    <3>5. log'[j] = bs[j - total]
      BY <3>3, RecordFact
    <3>4. log'[total - w + i] = bs[i - w]
      BY <3>3, <3>5 DEF j
    <3> QED BY <2>1, <3>2, <3>4
  <2> QED BY <2>2, <2>3
<1> QED BY <1>3, <1>4, <1>5 DEF IInv, HoldsLastReceived

(* The shifted memory holds the last readable_size bytes. *)
LEMMA ShiftHolds ==
    ASSUME IInv
    PROVE  Holds(Shift(mem), readable_size)
<1>1. readable_size <= wpos /\ wpos <= total /\ rpos + readable_size = wpos /\ total \in Nat
      /\ wpos \in Nat /\ rpos \in Nat /\ readable_size \in Nat
  BY DEF IInv, TypeOK, HoldsLastReceived, readable_size
<1>2. ASSUME NEW i \in 0 .. readable_size - 1
      PROVE  Shift(mem)[i] = log[total - readable_size + i]
  <2>1. Shift(mem)[i] = mem[rpos + i]
    BY ShiftFact DEF IInv
  <2>2. rpos + i \in 0 .. wpos - 1
    BY <1>1
  <2>3. mem[rpos + i] = log[total - wpos + (rpos + i)]
    BY <2>2 DEF IInv, HoldsLastReceived
  <2>4. total - wpos + (rpos + i) = total - readable_size + i
    BY <1>1
  <2> QED BY <2>1, <2>3, <2>4
<1> QED BY <1>1, <1>2 DEF Holds

LEMMA CompactKeeps ==
    ASSUME IInv, Compact, UNCHANGED <<size, log, total>>
    PROVE  IInv'
<1>1. TypeOK'
  BY ShiftFact, SizesFact DEF IInv, TypeOK, Compact
<1>2. HoldsLastReceived'
  BY ShiftHolds, SizesFact DEF IInv, HoldsLastReceived, Holds, Compact
<1> QED BY <1>1, <1>2 DEF IInv

-----------------------------------------------------------------------------
LEMMA InitKeeps == Init => IInv
<1> SUFFICES ASSUME Init PROVE IInv OBVIOUS
<1>1. TypeOK
  BY DEF Init, TypeOK, Cells, Empty
<1>2. HoldsLastReceived
  BY DEF Init, HoldsLastReceived
<1> QED BY <1>1, <1>2 DEF IInv

LEMMA NextKeeps == IInv /\ [Next]_vars => IInv'
<1> SUFFICES ASSUME IInv, [Next]_vars PROVE IInv' OBVIOUS
<1> USE DEF IInv
<1>1. ASSUME NEW k \in 0 .. MaxSize, NEW bs \in Chunks(k), Receive(k, bs)
      PROVE  IInv'
  <2>1. wpos + k <= size /\ wpos \in 0 .. size /\ rpos \in 0 .. wpos
    BY <1>1 DEF Receive, writable_size, TypeOK
  <2>2. mem \in [0 .. size - 1 -> Cells] /\ Holds(mem, wpos)
    BY DEF TypeOK, HoldsLastReceived, Holds
  <2>3. Record(k, bs) /\ size' = size /\ mem' = Put(mem, wpos, k, bs)
        /\ wpos' = wpos + k /\ rpos' \in 0 .. wpos
    BY <1>1, <2>1 DEF Receive
  <2> QED BY <2>1, <2>2, <2>3, AppendFact
<1>2. ASSUME NEW k \in 0 .. MaxSize, NEW bs \in Chunks(k), WriteFits(k, bs)
      PROVE  IInv'
  <2>1. wpos + k <= size /\ wpos \in 0 .. size /\ rpos \in 0 .. wpos
    BY <1>2 DEF WriteFits, writable_size, TypeOK
  <2>2. mem \in [0 .. size - 1 -> Cells] /\ Holds(mem, wpos)
    BY DEF TypeOK, HoldsLastReceived, Holds
  <2>3. Record(k, bs) /\ size' = size /\ mem' = Put(mem, wpos, k, bs)
        /\ wpos' = wpos + k /\ rpos' \in 0 .. wpos
    BY <1>2, <2>1 DEF WriteFits
  <2> QED BY <2>1, <2>2, <2>3, AppendFact
<1>3. ASSUME NEW k \in 0 .. MaxSize, NEW bs \in Chunks(k), WriteCompacts(k, bs)
      PROVE  IInv'
  <2>1. readable_size \in 0 .. size /\ readable_size + k <= size
    BY <1>3, SizesFact DEF WriteCompacts, usable_size, TypeOK
  <2>2. Record(k, bs) /\ size' = size /\ mem' = Put(Shift(mem), readable_size, k, bs)
        /\ wpos' = readable_size + k /\ rpos' \in 0 .. readable_size
    BY <1>3, <2>1 DEF WriteCompacts
  <2> QED BY <2>1, <2>2, ShiftFact, ShiftHolds, AppendFact
<1>4. ASSUME NEW k \in 0 .. MaxSize, NEW bs \in Chunks(k), reset(k, bs)
      PROVE  IInv'
  <2>1. size \in Nat /\ 0 + k <= size /\ mem \in [0 .. size - 1 -> Cells]
    BY <1>4 DEF reset, TypeOK
  <2>2. mem' \in [0 .. size - 1 -> Cells]
    BY <1>4, <2>1, PutFact DEF reset
  <2>3. TypeOK'
    BY <1>4, <2>1, <2>2 DEF reset, TypeOK, Empty
  <2>4. HoldsLastReceived'
    BY <1>4 DEF reset, HoldsLastReceived
  <2> QED BY <2>3, <2>4
<1>5. ASSUME NEW n \in 0 .. MaxSize, has_read(n)
      PROVE  IInv'
  BY <1>5 DEF has_read, TypeOK, HoldsLastReceived
<1>6. ASSUME NEW p \in 0 .. MaxSize, set_read_off(p)
      PROVE  IInv'
  BY <1>6 DEF set_read_off, TypeOK, HoldsLastReceived
<1>7. ASSUME NEW k \in 0 .. MaxSize, enable_size(k)
      PROVE  IInv'
  <2>1. CASE Compact
    BY <1>7, <2>1, CompactKeeps DEF enable_size
  <2>2. CASE UNCHANGED <<mem, rpos, wpos>>
    BY <1>7, <2>2 DEF enable_size, TypeOK, HoldsLastReceived
  <2> QED BY <1>7, <2>1, <2>2 DEF enable_size
<1>8. ASSUME NEW newcap \in 0 .. MaxSize, resize(newcap)
      PROVE  IInv'
  <2>1. CASE newcap <= size
    BY <1>8, <2>1 DEF resize, TypeOK, HoldsLastReceived
  <2>2. CASE size < newcap
    <3>1. size' = newcap /\ mem' = [i \in 0 .. newcap - 1 |-> IF i < size THEN mem[i] ELSE Junk]
          /\ UNCHANGED <<rpos, wpos, log, total>>
      BY <1>8, <2>2 DEF resize, TypeOK
    <3>2. TypeOK'
      BY <2>2, <3>1 DEF TypeOK, Cells
    <3>3. \A i \in 0 .. wpos - 1 : mem'[i] = mem[i]
      BY <2>2, <3>1 DEF TypeOK
    <3>4. HoldsLastReceived'
      BY <3>1, <3>3 DEF HoldsLastReceived
    <3> QED BY <3>2, <3>4
  <2> QED BY <2>1, <2>2 DEF TypeOK
<1>9. ASSUME NEW k \in 0 .. MaxSize, read(k)
      PROVE  IInv'
  BY <1>9 DEF read, TypeOK, HoldsLastReceived
<1>10. CASE rearrange
  BY <1>10, CompactKeeps DEF rearrange
<1>11. CASE UNCHANGED vars
  BY <1>11 DEF vars, TypeOK, HoldsLastReceived
<1> QED BY <1>1, <1>2, <1>3, <1>4, <1>5, <1>6, <1>7, <1>8, <1>9, <1>10, <1>11 DEF Next

(* No operation leaves the positions outside the capacity or out of order:   *)
(* RClientBuffer's unchecked pointer arithmetic stays within the allocation. *)
THEOREM PositionsInBounds == Spec => []TypeOK
<1>1. IInv => TypeOK
  BY DEF IInv
<1> QED BY InitKeeps, NextKeeps, <1>1, PTL DEF Spec

(* The bytes held are the last bytes received, in order: rearrange, resize   *)
(* and write move them without loss.                                         *)
THEOREM HoldsReceived == Spec => []HoldsLastReceived
<1>1. IInv => HoldsLastReceived
  BY DEF IInv
<1> QED BY InitKeeps, NextKeeps, <1>1, PTL DEF Spec

-----------------------------------------------------------------------------
(* The refinement.  The cursor counts the bytes consumed since the reset.    *)

LEMMA InitRefines == Init => Stream!Init
BY DEF Init, Stream!Init, Empty, readable_size

(* A receive appends to the stream and leaves the cursor where it was.       *)
LEMMA AppendRefines ==
    ASSUME NEW k \in 0 .. MaxSize, NEW bs \in Chunks(k), Record(k, bs),
           total' - readable_size' = total - readable_size, UNCHANGED out
    PROVE  Stream!Next
<1>1. Stream!Append(k, bs)
  BY DEF Record, Stream!Append
<1> QED BY <1>1 DEF Stream!Next, Chunks

(* A change of the read position that stays within the bytes held.           *)
LEMMA MoveRefines ==
    ASSUME IInv, rpos' \in 0 .. wpos, UNCHANGED <<wpos, log, total, out>>
    PROVE  Stream!Next
<1>1. size \in Nat /\ wpos \in 0 .. size /\ total \in Nat /\ wpos <= total
  BY DEF IInv, TypeOK, HoldsLastReceived
<1>3. total' = total /\ readable_size' = wpos - rpos'
  BY DEF readable_size
<1>5. ASSUME NEW r \in 0 .. wpos PROVE total - (wpos - r) \in 0 .. total
  BY <1>1
<1>4. total' - readable_size' \in 0 .. total
  BY <1>3, <1>5
<1>2. Stream!Move
  BY <1>4 DEF Stream!Move
<1> QED BY <1>2 DEF Stream!Next

(* Moving the unread bytes is invisible. *)
LEMMA CompactRefines ==
    ASSUME IInv, Compact, UNCHANGED <<log, total, out>>
    PROVE  UNCHANGED Stream!vars
<1>1. readable_size' = readable_size
  BY SizesFact DEF IInv, Compact, readable_size, TypeOK
<1> QED BY <1>1 DEF Stream!vars

LEMMA NextRefines == IInv /\ [Next]_vars => [Stream!Next]_(Stream!vars)
<1> SUFFICES ASSUME IInv, [Next]_vars PROVE Stream!Next \/ UNCHANGED Stream!vars
  OBVIOUS
<1>0. /\ size \in Nat /\ wpos \in 0 .. size /\ rpos \in 0 .. wpos /\ total \in Nat
      /\ wpos <= total /\ TypeOK
  BY DEF IInv, TypeOK, HoldsLastReceived
<1>1. ASSUME NEW k \in 0 .. MaxSize, NEW bs \in Chunks(k),
             Receive(k, bs) \/ WriteFits(k, bs) \/ WriteCompacts(k, bs)
      PROVE  Stream!Next
  <2>1. Record(k, bs) /\ UNCHANGED out
    BY <1>1 DEF Receive, WriteFits, WriteCompacts
  <2>2. total' = total + k
    BY <2>1 DEF Record
  <2>3. readable_size' = readable_size + k
    BY <1>0, <1>1 DEF Receive, WriteFits, WriteCompacts, writable_size, readable_size
  <2>4. total' - readable_size' = total - readable_size
    BY <1>0, <2>2, <2>3 DEF readable_size
  <2> QED BY <2>1, <2>4, AppendRefines
<1>2. ASSUME NEW k \in 0 .. MaxSize, NEW bs \in Chunks(k), reset(k, bs)
      PROVE  Stream!Next
  <2>1. Stream!Clear
    BY <1>2 DEF reset, Stream!Clear, Empty, readable_size
  <2> QED BY <2>1 DEF Stream!Next
<1>3. ASSUME NEW n \in 0 .. MaxSize, has_read(n) \/ set_read_off(n)
      PROVE  Stream!Next
  <2>1. rpos' \in 0 .. wpos /\ UNCHANGED <<wpos, log, total, out>>
    BY <1>0, <1>3 DEF has_read, set_read_off
  <2> QED BY <2>1, MoveRefines
<1>4. ASSUME NEW k \in 0 .. MaxSize, enable_size(k)
      PROVE  UNCHANGED Stream!vars
  <2>1. CASE Compact
    BY <1>4, <2>1, CompactRefines DEF enable_size
  <2>2. CASE UNCHANGED <<mem, rpos, wpos>>
    BY <1>4, <2>2 DEF enable_size, Stream!vars, readable_size
  <2> QED BY <1>4, <2>1, <2>2 DEF enable_size
<1>5. ASSUME NEW newcap \in 0 .. MaxSize, resize(newcap)
      PROVE  UNCHANGED Stream!vars
  BY <1>5 DEF resize, Stream!vars, readable_size
<1>6. ASSUME NEW k \in 0 .. MaxSize, read(k)
      PROVE  Stream!Next
  <2>1. k <= readable_size /\ k \in Nat /\ UNCHANGED <<mem, rpos, wpos, log, total>>
    BY <1>6 DEF read
  <2>2. total - readable_size + k <= total
    BY <1>0, <2>1 DEF readable_size
  <2>3. ASSUME NEW i \in 0 .. k - 1
        PROVE  mem[rpos + i] = log[total - readable_size + i]
    <3>1. rpos + i \in 0 .. wpos - 1
      BY <1>0, <2>1 DEF readable_size
    <3>2. mem[rpos + i] = log[total - wpos + (rpos + i)]
      BY <3>1 DEF IInv, HoldsLastReceived
    <3>3. total - wpos + (rpos + i) = total - readable_size + i
      BY <1>0 DEF readable_size
    <3> QED BY <3>2, <3>3
  <2>4. out' = [i \in 0 .. k - 1 |-> log[total - readable_size + i]]
    BY <1>6, <2>3 DEF read
  <2>5. readable_size' = readable_size
    BY <2>1 DEF readable_size
  <2>6. Stream!Take(k)
    BY <2>1, <2>2, <2>4, <2>5 DEF Stream!Take
  <2> QED BY <2>6 DEF Stream!Next
<1>7. CASE rearrange
  BY <1>7, CompactRefines DEF rearrange
<1>8. CASE UNCHANGED vars
  BY <1>8 DEF vars, Stream!vars, readable_size
<1> QED BY <1>1, <1>2, <1>3, <1>4, <1>5, <1>6, <1>7, <1>8 DEF Next

(* The users of the buffer see a ByteStream: where the bytes lie, and when   *)
(* they are moved or the memory grows, does not show.                        *)
THEOREM ImplementsByteStream == Spec => IsByteStream
<1>1. Spec => []IInv
  BY InitKeeps, NextKeeps, PTL DEF Spec
<1> QED BY <1>1, InitRefines, NextRefines, PTL DEF Spec, IsByteStream, Stream!Spec

=============================================================================
