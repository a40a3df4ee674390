----------------------------- MODULE SkbPacket ------------------------------
(***************************************************************************)
(* What a packet buffer promises its users (spec 4.1), without cursors:    *)
(* the payload is a byte sequence of bounded length, and call records the  *)
(* operation last invoked with its argument.  Headers are prepended and    *)
(* stripped at the front, data appended and trimmed at the back, bytes are *)
(* written in place.  The bytes a push or put exposes are unspecified      *)
(* until the caller writes them.  push, put and set_len may fail for want  *)
(* of room, which only the implementation knows; pull and trim fail        *)
(* exactly when the payload is shorter than asked.  A failure leaves the   *)
(* payload alone.                                                          *)
(***************************************************************************)
EXTENDS Integers, Sequences

CONSTANTS MaxLen, Lens, Vals

VARIABLES pkt, call

Bytes(n) == [1 .. n -> Vals]
Calls == {"none", "alloc", "reserve", "push", "pull", "put", "trim", "set_len",
          "write", "reset", "free"}

Init == pkt = <<>> /\ call = [op |-> "none", arg |-> 0]

Invoke(op, n) == call' = [op |-> op, arg |-> n]
Keep == UNCHANGED pkt

Prepend(n) ==
    /\ Invoke("push", n)
    /\ \/ \E hdr \in Bytes(n) : pkt' = hdr \o pkt /\ Len(pkt') <= MaxLen
       \/ Keep
StripFront(n) ==
    /\ Invoke("pull", n)
    /\ IF Len(pkt) >= n THEN pkt' = SubSeq(pkt, n + 1, Len(pkt)) ELSE Keep
AppendBytes(n) ==
    /\ Invoke("put", n)
    /\ \/ \E tl \in Bytes(n) : pkt' = pkt \o tl /\ Len(pkt') <= MaxLen
       \/ Keep
StripBack(n) ==
    /\ Invoke("trim", n)
    /\ IF Len(pkt) >= n THEN pkt' = SubSeq(pkt, 1, Len(pkt) - n) ELSE Keep
Resize(n) ==
    /\ Invoke("set_len", n)
    /\ \/ n <= Len(pkt) /\ pkt' = SubSeq(pkt, 1, n)
       \/ n > Len(pkt) /\ \E tl \in Bytes(n - Len(pkt)) : pkt' = pkt \o tl /\ n <= MaxLen
       \/ n > Len(pkt) /\ Keep
Write(i) ==
    /\ Invoke("write", i)
    /\ i \in 1 .. Len(pkt)
    /\ \E v \in Vals : pkt' = [pkt EXCEPT ![i] = v]
(* reserve only moves the empty payload's place in the buffer. *)
Reserve(n) == Invoke("reserve", n) /\ pkt = <<>> /\ Keep
Empty(op, n) == Invoke(op, n) /\ pkt' = <<>>

Next ==
    \/ \E n \in Lens : Prepend(n) \/ StripFront(n) \/ AppendBytes(n) \/ StripBack(n)
                       \/ Reserve(n)
    \/ \E n \in 0 .. MaxLen : Resize(n) \/ Empty("reset", n)
    \/ \E i \in 1 .. MaxLen : Write(i)
    \/ Empty("alloc", 0) \/ Empty("free", 0)

Spec == Init /\ [][Next]_<<pkt, call>>
=============================================================================
