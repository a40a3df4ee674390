------------------------------ MODULE SkBuff -------------------------------
(***************************************************************************)
(* The packet buffer of src/kernel/net/skb.rs.  One buffer with one owner  *)
(* (ownership moves with the Box), so its methods are atomic steps.  The   *)
(* raw pointers are offsets from head: head = 0, end = size.  buf holds    *)
(* the allocation's bytes; buf[k + 1] is the byte at offset k.  Protocol   *)
(* tags, device and DMA fields only carry data for other layers and are   *)
(* left out.                                                               *)
(***************************************************************************)
EXTENDS Integers, Sequences

CONSTANTS
    MaxSkb,           \* MAX_SKB_SIZE (2048 in the code)
    AllocArgs,        \* <<headroom, data_len>> pairs SkBuff::alloc is called with
    Lens,             \* lengths passed to reserve, push, pull, put, trim
    ResetRooms,       \* headrooms passed to reset
    Vals,             \* byte values; 0 is the zeroed allocation
    DebugAssertions   \* whether debug_assert! is compiled in

VARIABLES
    alive,   \* the Box<SkBuff> exists
    size,    \* alloc_size: end - head
    data,    \* data - head
    tail,    \* tail - head
    buf,     \* the allocation's bytes, MaxSkb long
    call     \* history: the method last called and its argument

vars == <<alive, size, data, tail, buf, call>>

(* len, headroom and tailroom. *)
SkbLen == tail - data
Headroom == data
Tailroom == size - tail

(* data(): the payload bytes. *)
Payload == IF alive THEN SubSeq(buf, data + 1, tail) ELSE <<>>

Init ==
    /\ alive = FALSE
    /\ size = 0 /\ data = 0 /\ tail = 0
    /\ buf = [k \in 1 .. MaxSkb |-> 0]
    /\ call = [op |-> "none", arg |-> 0]

Invoke(op, n) == call' = [op |-> op, arg |-> n]

(* SkBuff::alloc: None when headroom + data_len exceeds MAX_SKB_SIZE,     *)
(* otherwise a zeroed allocation with data = tail = head + headroom.       *)
Alloc(headroom, dataLen) ==
    /\ ~alive /\ Invoke("alloc", 0)
    /\ IF headroom + dataLen <= MaxSkb
       THEN /\ alive' = TRUE
            /\ size' = headroom + dataLen
            /\ data' = headroom /\ tail' = headroom
            /\ buf' = [k \in 1 .. MaxSkb |-> 0]
       ELSE UNCHANGED <<alive, size, data, tail, buf>>

(* reserve: the two preconditions are debug_assert!s only. *)
Reserve(n) ==
    /\ alive /\ Invoke("reserve", n)
    /\ DebugAssertions => (SkbLen = 0 /\ Headroom + n <= size)
    /\ data' = data + n /\ tail' = data + n
    /\ UNCHANGED <<alive, size, buf>>

(* push: None when headroom < len, otherwise data moves back. *)
PushNoCheck(n) ==
    /\ alive /\ Invoke("push", n)
    /\ data' = data - n
    /\ UNCHANGED <<alive, size, tail, buf>>

Push(n) ==
    /\ alive /\ Invoke("push", n)
    /\ IF Headroom >= n THEN data' = data - n ELSE UNCHANGED data
    /\ UNCHANGED <<alive, size, tail, buf>>

(* pull: None when len < n, otherwise data moves forward. *)
Pull(n) ==
    /\ alive /\ Invoke("pull", n)
    /\ IF SkbLen >= n THEN data' = data + n ELSE UNCHANGED data
    /\ UNCHANGED <<alive, size, tail, buf>>

(* put and trim move tail, or return None: put when tailroom < n, trim    *)
(* when len < n.                                                            *)
PutCursor(n) == IF Tailroom >= n THEN tail' = tail + n ELSE UNCHANGED tail
TrimCursor(n) == IF SkbLen >= n THEN tail' = tail - n ELSE UNCHANGED tail

Put(n) ==
    /\ alive /\ Invoke("put", n) /\ PutCursor(n)
    /\ UNCHANGED <<alive, size, data, buf>>

Trim(n) ==
    /\ alive /\ Invoke("trim", n) /\ TrimCursor(n)
    /\ UNCHANGED <<alive, size, data, buf>>

(* set_len: a put or a trim by the difference; a failed put is None. *)
SetLenTrimsTarget(n) ==
    /\ alive /\ Invoke("set_len", n)
    /\ IF n > SkbLen THEN PutCursor(n - SkbLen)
       ELSE IF n < SkbLen THEN TrimCursor(n) ELSE UNCHANGED tail
    /\ UNCHANGED <<alive, size, data, buf>>

SetLen(n) ==
    /\ alive /\ Invoke("set_len", n)
    /\ IF n > SkbLen THEN PutCursor(n - SkbLen)
       ELSE IF n < SkbLen THEN TrimCursor(SkbLen - n) ELSE UNCHANGED tail
    /\ UNCHANGED <<alive, size, data, buf>>

(* A write through data_mut() or the slice push/put returned. *)
WriteByte(i, v) ==
    /\ alive /\ i \in 1 .. SkbLen /\ Invoke("write", i)
    /\ buf' = [buf EXCEPT ![data + i] = v]
    /\ UNCHANGED <<alive, size, data, tail>>

(* reset: data = head + headroom, tail = data, with no check on headroom. *)
Reset(headroom) ==
    /\ alive /\ Invoke("reset", headroom)
    /\ data' = headroom /\ tail' = headroom
    /\ UNCHANGED <<alive, size, buf>>

(* Drop: the allocation is freed. *)
Free ==
    /\ alive /\ Invoke("free", 0)
    /\ alive' = FALSE
    /\ UNCHANGED <<size, data, tail, buf>>

Next ==
    \/ \E a \in AllocArgs : Alloc(a[1], a[2])
    \/ \E n \in Lens : Reserve(n) \/ Push(n) \/ Pull(n) \/ Put(n) \/ Trim(n)
    \/ \E n \in 0 .. MaxSkb : SetLen(n)
    \/ \E i \in 1 .. MaxSkb, v \in Vals : WriteByte(i, v)
    \/ \E h \in ResetRooms : Reset(h)
    \/ Free

Spec == Init /\ [][Next]_vars

-----------------------------------------------------------------------------
(* Spec 3 and 8: head <= data <= tail <= end before and after every       *)
(* operation, whatever sequence of reserve, push, pull, put, trim,        *)
(* set_len and reset the owner performs.                                   *)
CursorOrder == alive => 0 <= data /\ data <= tail /\ tail <= size

(* The buffer implements the abstract payload of SkbPacket: a push or put *)
(* adds exactly n bytes at its end of the payload, a pull or trim removes *)
(* n, set_len leaves exactly n, writes land on the payload byte they name, *)
(* and no step loses or reorders payload bytes.                            *)
Abs == INSTANCE SkbPacket WITH pkt <- Payload, call <- call, MaxLen <- MaxSkb
ImplementsPacket == Abs!Spec
=============================================================================
