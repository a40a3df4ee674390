--------------------------- MODULE TcpConnection ---------------------------
(***************************************************************************)
(* What one TCP connection promises, after the per-state table of spec    *)
(* 4.4: the connection state moves only along the table's arrows, the     *)
(* peer's stream is closed by its FIN once, and bytes are delivered to    *)
(* the application only while the connection is ESTABLISHED and the peer's *)
(* stream is open (a segment carrying data and FIN delivers and closes).  *)
(* The sequence numbers, windows and queues that TcpConn keeps are below  *)
(* this level.                                                             *)
(***************************************************************************)
EXTENDS Naturals

CONSTANT MaxBytes   \* length of the peer's stream

VARIABLES
    st,         \* the connection state
    inOpen,     \* the peer's stream is open: its FIN has not been accepted
    delivered   \* bytes of the peer's stream delivered so far

avars == <<st, inOpen, delivered>>

Init == st = "Closed" /\ inOpen = TRUE /\ delivered = 0

Move(from, to) == st = from /\ st' = to

(* tcp_connect; SYN+ACK; RST in SYN-SENT; close before the SYN is answered. *)
Open      == Move("Closed", "SynSent") /\ UNCHANGED <<inOpen, delivered>>
Establish == Move("SynSent", "Established") /\ UNCHANGED <<inOpen, delivered>>
Abort     == Move("SynSent", "Closed") /\ UNCHANGED <<inOpen, delivered>>

(* RST in ESTABLISHED, FIN-WAIT-1 and CLOSE-WAIT. *)
Reset ==
    /\ st \in {"Established", "FinWait1", "CloseWait"} /\ st' = "Closed"
    /\ UNCHANGED <<inOpen, delivered>>

(* In-order data in ESTABLISHED. *)
Deliver ==
    /\ st = "Established" /\ inOpen
    /\ delivered' \in (delivered + 1) .. MaxBytes
    /\ UNCHANGED <<st, inOpen>>

(* The peer's FIN: ESTABLISHED -> CLOSE-WAIT (with the segment's data),   *)
(* FIN-WAIT-1 -> CLOSING, or TIME-WAIT when the segment also acknowledges  *)
(* our FIN, FIN-WAIT-2 -> TIME-WAIT.                                       *)
PeerFin ==
    /\ inOpen /\ inOpen' = FALSE
    /\ \/ Move("Established", "CloseWait") /\ delivered' \in delivered .. MaxBytes
       \/ st = "FinWait1" /\ st' \in {"Closing", "TimeWait"} /\ UNCHANGED delivered
       \/ Move("FinWait2", "TimeWait") /\ UNCHANGED delivered

(* tcp_close: our FIN from ESTABLISHED and CLOSE-WAIT. *)
Close ==
    /\ Move("Established", "FinWait1") \/ Move("CloseWait", "LastAck")
    /\ UNCHANGED <<inOpen, delivered>>

(* The ACK of our FIN in FIN-WAIT-1, and the ACK in LAST-ACK. *)
FinAcked ==
    /\ Move("FinWait1", "FinWait2") \/ Move("LastAck", "Closed")
    /\ UNCHANGED <<inOpen, delivered>>

Next == Open \/ Establish \/ Abort \/ Reset \/ Deliver \/ PeerFin \/ Close \/ FinAcked

Spec == Init /\ [][Next]_avars
=============================================================================
