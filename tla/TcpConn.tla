------------------------------ MODULE TcpConn ------------------------------
(***************************************************************************)
(* One TCP connection of the kernel network stack: the control block      *)
(* (TCB) and the socket fields that the receive path writes, driven by    *)
(* segments from a peer over a network that may reorder and duplicate.    *)
(*                                                                         *)
(* tcp_rcv and the process_* handlers of src/kernel/net/tcp_input.rs are  *)
(* translated one action per handler.  tcp_connect, tcp_sendmsg and       *)
(* tcp_close live in tcp.rs / tcp_output.rs, which are not part of the    *)
(* sources; they are modelled from the spec (section 4.4).                *)
(*                                                                         *)
(* Data is abstracted to positions: byte k of the peer's stream is the    *)
(* number k, so a segment carries the position of its first byte.        *)
(***************************************************************************)
EXTENDS Integers, Sequences, SequencesExt, FiniteSets

CONSTANTS
  SeqBits,   \* width of sequence numbers (32 in the code)
  ISS,       \* our initial send sequence number
  PeerISS,   \* the peer's initial sequence number
  PeerLen,   \* bytes in the peer's stream
  SendLen,   \* bytes our application writes at most
  Windows,   \* receive windows the peer may advertise
  NetCap,    \* segments in flight at most
  MaxRetx,   \* retransmissions by the peer at most
  Ordered,   \* TRUE: the network delivers segments in order
  AckAfterFin, \* TRUE: the peer acknowledges our data after its FIN
  Threads    \* tasks that may sleep on the socket's wait queues

M    == 2^SeqBits
Half == 2^(SeqBits - 1)
SeqNum == 0..(M - 1)

ASSUME /\ SeqBits \in Nat \ {0}
       /\ ISS \in SeqNum /\ PeerISS \in SeqNum
       /\ PeerLen + 2 <= Half /\ SendLen + 2 <= Half
       /\ Windows \subseteq Nat
       /\ Ordered \in BOOLEAN /\ AckAfterFin \in BOOLEAN

(* u32::wrapping_add and u32::wrapping_sub *)
SeqAdd(a, n) == (a + n) % M
SeqSub(a, b) == (a - b) % M

TcpStates == {"Closed", "Listen", "SynSent", "SynReceived", "Established",
              "FinWait1", "FinWait2", "CloseWait", "Closing", "LastAck",
              "TimeWait"}
Flags  == {"SYN", "ACK", "FIN", "RST"}
Errors == {"none", "ECONNREFUSED", "ECONNRESET"}
Queues == {"rx", "tx", "conn"}

Segment == [seq : SeqNum, ack : SeqNum, flags : SUBSET Flags,
            data : 0..PeerLen, len : 0..PeerLen, wnd : Windows \cup {0}]

VARIABLES
  tcpState,  \* TcpControlBlock.state
  sndUna,    \* SND.UNA
  sndNxt,    \* SND.NXT
  sndWnd,    \* SND.WND
  rcvNxt,    \* RCV.NXT
  irs,       \* IRS
  rtx,       \* retransmit queue: sequence of [seq, len]
  ooo,       \* out-of-order queue: set of [seq, data, len], keyed by seq
  rx,        \* socket receive buffer: sequence of stream positions
  eof,       \* socket EOF flag
  sockErr,   \* socket pending (sticky) error
  waiters,   \* wait queue -> tasks sleeping on it
  ourSyn,    \* our SYN has been sent (tcp_connect ran)
  sndBytes,  \* history: bytes written by the application
  rxCount,   \* history: bytes ever appended to rx
  finRcvd,   \* history: a FIN of the peer was accepted
  pSyn,      \* peer: answered our SYN
  pSent,     \* peer: bytes of its stream put on the wire
  pAcked,    \* peer: highest acknowledgement it has sent
  pFin,      \* peer: sent its FIN
  pRst,      \* peer: sent a RST
  retx,      \* peer: retransmissions so far
  net,       \* segments in flight, oldest first
  rstErr     \* error a RST handler will store after having set CLOSED

tcbVars  == <<tcpState, sndUna, sndNxt, sndWnd, rcvNxt, irs, rtx, ooo, rstErr>>
sockVars == <<rx, eof, sockErr, waiters>>
histVars == <<ourSyn, sndBytes, rxCount, finRcvd>>
peerVars == <<pSyn, pSent, pAcked, pFin, pRst, retx>>
vars == <<tcbVars, sockVars, histVars, peerVars, net>>

-----------------------------------------------------------------------------
(* Socket helpers (socket.rs is not among the sources: from the spec).     *)

(* wake_rx / wake_tx / wake_connect / wake_all: every sleeper of the       *)
(* named queues becomes runnable.                                          *)
Wake(qs) == waiters' = [q \in Queues |-> IF q \in qs THEN {} ELSE waiters[q]]

(* deliver_data: append the payload to the receive buffer.                 *)
Payload(seg) == [i \in 1..seg.len |-> seg.data + i - 1]

(* Right edge of a retransmit entry: seg.seq.wrapping_add(len).            *)
RightEdge(e) == SeqAdd(e.seq, e.len)

-----------------------------------------------------------------------------
Init ==
  /\ tcpState = "Closed"
  /\ sndUna = ISS /\ sndNxt = ISS /\ sndWnd = 0
  /\ rcvNxt = 0 /\ irs = 0
  /\ rtx = <<>> /\ ooo = {}
  /\ rx = <<>> /\ eof = FALSE /\ sockErr = "none"
  /\ waiters = [q \in Queues |-> {}]
  /\ ourSyn = FALSE /\ sndBytes = 0 /\ rxCount = 0 /\ finRcvd = FALSE
  /\ pSyn = FALSE /\ pSent = 0 /\ pAcked = SeqAdd(ISS, 1)
  /\ pFin = FALSE /\ pRst = FALSE /\ retx = 0
  /\ net = <<>>
  /\ rstErr = "none"

-----------------------------------------------------------------------------
(* Receive handlers of tcp_input.rs.  Each takes the segment being        *)
(* processed; tcp_rcv removes it from the network and dispatches.         *)

(* process_syn_sent: only a segment acknowledging our SYN is looked at;   *)
(* RST refuses the connection, SYN+ACK establishes it.                    *)
ProcessSynSent(seg) ==
  LET ackOk == "ACK" \in seg.flags /\ seg.ack = sndNxt IN
  \/ /\ ackOk /\ "RST" \in seg.flags
     /\ tcpState' = "Closed"
     /\ rstErr' = "ECONNREFUSED"
     /\ UNCHANGED <<sndUna, sndNxt, sndWnd, rcvNxt, irs, rtx, ooo, sockVars,
                    rxCount, finRcvd>>
  \/ /\ ackOk /\ "RST" \notin seg.flags /\ "SYN" \in seg.flags
     /\ irs' = seg.seq
     /\ rcvNxt' = SeqAdd(seg.seq, 1)
     /\ sndUna' = seg.ack
     /\ sndWnd' = seg.wnd
     /\ tcpState' = "Established"
     /\ Wake({"conn"})
     /\ UNCHANGED <<sndNxt, rtx, ooo, rstErr, rx, eof, sockErr, rxCount, finRcvd>>
  \/ /\ ~(ackOk /\ ({"RST", "SYN"} \cap seg.flags # {}))
     /\ UNCHANGED <<tcbVars, sockVars, rxCount, finRcvd>>

(* The ACK test of process_established: snd_una < ack <= snd_nxt, as      *)
(* ack.wrapping_sub(snd_una) <= snd_nxt.wrapping_sub(snd_una).            *)
AckAcceptableNoRange(seg) == "ACK" \in seg.flags
AckAcceptable(seg) ==
  /\ "ACK" \in seg.flags
  /\ SeqSub(seg.ack, sndUna) <= SeqSub(sndNxt, sndUna)

(* rtx_queue.retain(|seg| seg.seq.wrapping_add(len) > ack): an unsigned    *)
(* comparison of the right edge with the acknowledgement.                 *)
RtxRetain(ack) == SelectSeq(rtx, LAMBDA e : RightEdge(e) > ack)

(* Payload starting exactly at RCV.NXT is delivered.                      *)
InOrderCovers(seg) == seg.len > 0 /\ SeqSub(rcvNxt, seg.seq) < seg.len
InOrder(seg) == seg.len > 0 /\ seg.seq = rcvNxt

(* Payload starting less than 2^31 ahead of RCV.NXT goes to the OOO queue. *)
FutureNoLen(seg) == seg.seq # rcvNxt /\ SeqSub(seg.seq, rcvNxt) < Half
FutureData(seg) ==
  /\ seg.len > 0 /\ seg.seq # rcvNxt
  /\ SeqSub(seg.seq, rcvNxt) < Half

(* process_established: RST resets; otherwise the ACK, the data and the   *)
(* FIN of the segment are processed in this order.                        *)
ProcessEstablished(seg) ==
  \/ /\ "RST" \in seg.flags
     /\ tcpState' = "Closed"
     /\ rstErr' = "ECONNRESET"
     /\ UNCHANGED <<sndUna, sndNxt, sndWnd, rcvNxt, irs, rtx, ooo, sockVars,
                    rxCount, finRcvd>>
  \/ /\ "RST" \notin seg.flags
     /\ LET ackOk   == AckAcceptable(seg)
            inOrder == InOrder(seg)
            fin     == "FIN" \in seg.flags
            rcv1    == IF inOrder THEN SeqAdd(rcvNxt, seg.len) ELSE rcvNxt
        IN /\ sndUna' = IF ackOk THEN seg.ack ELSE sndUna
           /\ rtx' = IF ackOk THEN RtxRetain(seg.ack) ELSE rtx
           /\ sndWnd' = IF ackOk THEN seg.wnd ELSE sndWnd
           /\ rx' = IF inOrder THEN rx \o Payload(seg) ELSE rx
           /\ rxCount' = IF inOrder THEN rxCount + seg.len ELSE rxCount
           \* ooo.insert(seq, payload): a later segment at seq replaces it
           /\ ooo' = IF FutureData(seg)
                       THEN {e \in ooo : e.seq # seg.seq}
                              \cup {[seq |-> seg.seq, data |-> seg.data,
                                     len |-> seg.len]}
                       ELSE ooo
           /\ rcvNxt' = IF fin THEN SeqAdd(rcv1, 1) ELSE rcv1
           /\ tcpState' = IF fin THEN "CloseWait" ELSE tcpState
           /\ eof' = (eof \/ fin)
           /\ finRcvd' = (finRcvd \/ fin)
           /\ Wake((IF ackOk THEN {"tx"} ELSE {})
                   \cup (IF inOrder \/ fin THEN {"rx"} ELSE {}))
           /\ UNCHANGED <<sndNxt, irs, rstErr, sockErr>>

(* process_fin_wait1: RST closes; an ACK of exactly SND.NXT acknowledges  *)
(* our FIN; their FIN then leads to TIME-WAIT or CLOSING.  Payload and    *)
(* window are not looked at.                                              *)
ProcessFinWait1(seg) ==
  \/ /\ "RST" \in seg.flags
     /\ tcpState' = "Closed"
     /\ Wake(Queues)
     /\ UNCHANGED <<sndUna, sndNxt, sndWnd, rcvNxt, irs, rstErr, rtx, ooo, rx, eof,
                    sockErr, rxCount, finRcvd>>
  \/ /\ "RST" \notin seg.flags
     /\ LET acked == "ACK" \in seg.flags /\ seg.ack = sndNxt
            st1   == IF acked THEN "FinWait2" ELSE tcpState
            fin   == "FIN" \in seg.flags
        IN /\ tcpState' = IF ~fin THEN st1
                          ELSE IF st1 = "FinWait2" THEN "TimeWait"
                          ELSE "Closing"
           /\ rcvNxt' = IF fin THEN SeqAdd(rcvNxt, 1) ELSE rcvNxt
           /\ eof' = (eof \/ fin)
           /\ finRcvd' = (finRcvd \/ fin)
           /\ Wake(IF fin THEN {"rx"} ELSE {})
           /\ UNCHANGED <<sndUna, sndNxt, sndWnd, irs, rstErr, rtx, ooo, rx, sockErr,
                          rxCount>>

ProcessFinWait2NoTimeWait(seg) ==
  \/ /\ "FIN" \in seg.flags
     /\ rcvNxt' = SeqAdd(rcvNxt, 1)
     /\ eof' = TRUE
     /\ finRcvd' = TRUE
     /\ Wake(Queues)
     /\ UNCHANGED <<tcpState, sndUna, sndNxt, sndWnd, irs, rstErr, rtx, ooo, rx, sockErr,
                    rxCount>>
  \/ /\ "FIN" \notin seg.flags
     /\ UNCHANGED <<tcbVars, sockVars, rxCount, finRcvd>>

(* process_fin_wait2: only their FIN is looked at.                        *)
ProcessFinWait2(seg) ==
  \/ /\ "FIN" \in seg.flags
     /\ rcvNxt' = SeqAdd(rcvNxt, 1)
     /\ tcpState' = "TimeWait"
     /\ eof' = TRUE
     /\ finRcvd' = TRUE
     /\ Wake(Queues)
     /\ UNCHANGED <<sndUna, sndNxt, sndWnd, irs, rstErr, rtx, ooo, rx, sockErr,
                    rxCount>>
  \/ /\ "FIN" \notin seg.flags
     /\ UNCHANGED <<tcbVars, sockVars, rxCount, finRcvd>>

(* process_close_wait: only RST is looked at.                             *)
ProcessCloseWait(seg) ==
  \/ /\ "RST" \in seg.flags
     /\ tcpState' = "Closed"
     /\ Wake(Queues)
     /\ UNCHANGED <<sndUna, sndNxt, sndWnd, rcvNxt, irs, rstErr, rtx, ooo, rx, eof,
                    sockErr, rxCount, finRcvd>>
  \/ /\ "RST" \notin seg.flags
     /\ UNCHANGED <<tcbVars, sockVars, rxCount, finRcvd>>

(* process_last_ack: any ACK closes.                                      *)
ProcessLastAck(seg) ==
  \/ /\ "ACK" \in seg.flags
     /\ tcpState' = "Closed"
     /\ Wake(Queues)
     /\ UNCHANGED <<sndUna, sndNxt, sndWnd, rcvNxt, irs, rstErr, rtx, ooo, rx, eof,
                    sockErr, rxCount, finRcvd>>
  \/ /\ "ACK" \notin seg.flags
     /\ UNCHANGED <<tcbVars, sockVars, rxCount, finRcvd>>

(* tcp_rcv: take a segment off the network (the head when the network is *)
(* ordered) and dispatch on the connection state.  Checksum, length and   *)
(* lookup failures drop the segment before any state is read; the peer    *)
(* only sends well-formed segments of this connection.  TIME-WAIT and the *)
(* states without a handler (LISTEN, SYN-RECEIVED, CLOSING, CLOSED)       *)
(* ignore the segment.                                                    *)
TcpRcv ==
  /\ rstErr = "none"
  /\ \E i \in (IF Ordered THEN {1} ELSE 1..Len(net)) \cap DOMAIN net :
     LET seg == net[i] IN
     /\ net' = RemoveAt(net, i)
     /\ \/ tcpState = "SynSent" /\ ProcessSynSent(seg)
        \/ tcpState = "Established" /\ ProcessEstablished(seg)
        \/ tcpState = "FinWait1" /\ ProcessFinWait1(seg)
        \/ tcpState = "FinWait2" /\ ProcessFinWait2(seg)
        \/ tcpState = "CloseWait" /\ ProcessCloseWait(seg)
        \/ tcpState = "LastAck" /\ ProcessLastAck(seg)
        \/ /\ tcpState \in {"TimeWait", "Listen", "SynReceived", "Closing",
                            "Closed"}
           /\ UNCHANGED <<tcbVars, sockVars, rxCount, finRcvd>>
     /\ UNCHANGED <<ourSyn, sndBytes, peerVars>>

(* Second half of the RST paths of process_syn_sent and                   *)
(* process_established: socket.set_error after tcp.set_state(Closed),     *)
(* then wake_connect (refused) or wake_all (reset).  Another CPU may run  *)
(* a system call on the socket between the two halves.                    *)
TcpRcvSetError ==
  /\ rstErr # "none"
  /\ sockErr' = rstErr
  /\ Wake(IF rstErr = "ECONNREFUSED" THEN {"conn"} ELSE Queues)
  /\ rstErr' = "none"
  /\ UNCHANGED <<tcpState, sndUna, sndNxt, sndWnd, rcvNxt, irs, rtx, ooo, rx,
                 eof, histVars, peerVars, net>>

-----------------------------------------------------------------------------
(* TCB operations called by the socket layer (tcp.rs / tcp_output.rs are  *)
(* not among the sources: modelled from spec section 4.4).                *)

(* tcp_connect: send SYN with ISS and enter SYN-SENT.                     *)
TcpConnect ==
  /\ tcpState' = "SynSent"
  /\ sndUna' = ISS
  /\ sndNxt' = SeqAdd(ISS, 1)
  /\ ourSyn' = TRUE
  /\ UNCHANGED <<sndWnd, rcvNxt, irs, rstErr, rtx, ooo>>

(* Bytes tcp_sendmsg may put on the wire: the peer window minus what is   *)
(* in flight.                                                             *)
SendSpace == sndWnd - SeqSub(sndNxt, sndUna)

(* tcp_sendmsg succeeding with k bytes: one retransmit entry at SND.NXT.  *)
TcpSendmsg(k) ==
  /\ tcpState \in {"Established", "CloseWait"}
  /\ k \in 1..SendSpace
  /\ sndBytes + k <= SendLen
  /\ rtx' = Append(rtx, [seq |-> sndNxt, len |-> k])
  /\ sndNxt' = SeqAdd(sndNxt, k)
  /\ sndBytes' = sndBytes + k
  /\ UNCHANGED <<tcpState, sndUna, sndWnd, rcvNxt, irs, rstErr, ooo>>

(* tcp_sendmsg fails with WouldBlock when the effective window is zero.   *)
SendWouldBlock ==
  tcpState \in {"Established", "CloseWait"} /\ SendSpace <= 0

(* tcp_close: send FIN from ESTABLISHED / CLOSE-WAIT; abort an opening    *)
(* connection; no effect otherwise.                                       *)
TcpClose ==
  /\ tcpState' = CASE tcpState = "Established" -> "FinWait1"
                   [] tcpState = "CloseWait"   -> "LastAck"
                   [] tcpState \in {"SynSent", "Listen"} -> "Closed"
                   [] OTHER -> tcpState
  /\ sndNxt' = IF tcpState \in {"Established", "CloseWait"}
                 THEN SeqAdd(sndNxt, 1) ELSE sndNxt
  /\ UNCHANGED <<sndUna, sndWnd, rcvNxt, irs, rstErr, rtx, ooo>>

-----------------------------------------------------------------------------
(* The peer and the network (environment, not code of this repository).  *)

PeerAckChoices == {SeqAdd(pAcked, k) : k \in 0..SeqSub(sndNxt, pAcked)}

PeerEmit(seg) ==
  /\ Len(net) < NetCap
  /\ net' = Append(net, seg)

(* The peer accepts our SYN with SYN+ACK ...                               *)
PeerSynAck ==
  /\ ourSyn /\ ~pSyn /\ ~pRst
  /\ \E w \in Windows :
       PeerEmit([seq |-> PeerISS, ack |-> SeqAdd(ISS, 1),
                 flags |-> {"SYN", "ACK"}, data |-> 0, len |-> 0, wnd |-> w])
  /\ pSyn' = TRUE
  /\ UNCHANGED <<pSent, pAcked, pFin, pRst, retx>>

(* ... or refuses it, or a later SYN of ours, with RST+ACK.              *)
PeerRefuse ==
  /\ tcpState = "SynSent" /\ ~pSyn
  /\ PeerEmit([seq |-> 0, ack |-> SeqAdd(ISS, 1), flags |-> {"RST", "ACK"},
               data |-> 0, len |-> 0, wnd |-> 0])
  /\ pRst' = TRUE
  /\ UNCHANGED <<pSyn, pSent, pAcked, pFin, retx>>

(* The peer sends the next n bytes of its stream (n = 0: a pure ACK),     *)
(* acknowledging any of our bytes it may have received.                   *)
PeerSend ==
  /\ pSyn /\ ~pFin /\ ~pRst
  /\ \E n \in 0..(PeerLen - pSent), a \in PeerAckChoices, w \in Windows :
       /\ PeerEmit([seq |-> SeqAdd(PeerISS, 1 + pSent), ack |-> a,
                    flags |-> {"ACK"}, data |-> IF n = 0 THEN 0 ELSE pSent + 1,
                    len |-> n,
                    wnd |-> w])
       /\ pSent' = pSent + n
       /\ pAcked' = a
  /\ UNCHANGED <<pSyn, pFin, pRst, retx>>

(* The peer ends its stream with FIN.                                      *)
PeerFin ==
  /\ pSyn /\ ~pFin /\ ~pRst /\ pSent = PeerLen
  /\ \E a \in PeerAckChoices, w \in Windows :
       /\ PeerEmit([seq |-> SeqAdd(PeerISS, 1 + PeerLen), ack |-> a,
                    flags |-> {"FIN", "ACK"}, data |-> 0, len |-> 0,
                    wnd |-> w])
       /\ pAcked' = a
  /\ pFin' = TRUE
  /\ UNCHANGED <<pSyn, pSent, pRst, retx>>

(* After its FIN the peer still acknowledges the data we send it (a       *)
(* half-closed connection): a pure ACK of something not yet acknowledged. *)
PeerAckAfterFin ==
  /\ AckAfterFin /\ pFin /\ ~pRst
  /\ \E a \in PeerAckChoices \ {pAcked}, w \in Windows :
       /\ PeerEmit([seq |-> SeqAdd(PeerISS, 2 + PeerLen), ack |-> a,
                    flags |-> {"ACK"}, data |-> 0, len |-> 0, wnd |-> w])
       /\ pAcked' = a
  /\ UNCHANGED <<pSyn, pSent, pFin, pRst, retx>>

(* The peer aborts with RST.                                               *)
PeerReset ==
  /\ pSyn /\ ~pRst
  /\ PeerEmit([seq |-> SeqAdd(PeerISS, 1 + pSent), ack |-> pAcked,
               flags |-> {"RST"}, data |-> 0, len |-> 0, wnd |-> 0])
  /\ pRst' = TRUE
  /\ UNCHANGED <<pSyn, pSent, pAcked, pFin, retx>>

(* The peer retransmits bytes d .. d+n-1 it sent before, or its FIN, with *)
(* its current acknowledgement: a duplicate that may overlap the original.*)
PeerRetransmit ==
  /\ pSyn /\ ~pRst /\ retx < MaxRetx
  /\ \E w \in Windows :
       \/ \E d \in 1..pSent, n \in 1..PeerLen :
            /\ d + n - 1 <= pSent
            /\ PeerEmit([seq |-> SeqAdd(PeerISS, d), ack |-> pAcked,
                         flags |-> {"ACK"}, data |-> d, len |-> n, wnd |-> w])
       \/ /\ pFin
          /\ PeerEmit([seq |-> SeqAdd(PeerISS, 1 + PeerLen), ack |-> pAcked,
                       flags |-> {"FIN", "ACK"}, data |-> 0, len |-> 0,
                       wnd |-> w])
  /\ retx' = retx + 1
  /\ UNCHANGED <<pSyn, pSent, pAcked, pFin, pRst>>

PeerNext ==
  /\ \/ PeerSynAck \/ PeerRefuse \/ PeerSend \/ PeerFin \/ PeerAckAfterFin
     \/ PeerReset \/ PeerRetransmit
  /\ UNCHANGED <<tcbVars, sockVars, histVars>>

-----------------------------------------------------------------------------
(* An application that calls the TCB operations directly; the socket      *)
(* layer (SocketSyscalls) replaces it with system calls of tasks.         *)

AppConnect ==
  /\ ~ourSyn
  /\ TcpConnect
  /\ UNCHANGED <<sockVars, sndBytes, rxCount, finRcvd, peerVars, net>>

AppSend ==
  /\ \E k \in 1..SendLen : TcpSendmsg(k)
  /\ UNCHANGED <<sockVars, ourSyn, rxCount, finRcvd, peerVars, net>>

AppClose ==
  /\ tcpState \in {"Established", "CloseWait"}
  /\ TcpClose
  /\ UNCHANGED <<sockVars, histVars, peerVars, net>>

Next == TcpRcv \/ TcpRcvSetError \/ PeerNext \/ AppConnect \/ AppSend \/ AppClose

Spec == Init /\ [][Next]_vars

-----------------------------------------------------------------------------
TypeOK ==
  /\ tcpState \in TcpStates
  /\ {sndUna, sndNxt, rcvNxt, irs, pAcked} \subseteq SeqNum
  /\ sndWnd \in Nat
  /\ rtx \in Seq([seq : SeqNum, len : 1..SendLen])
  /\ ooo \subseteq [seq : SeqNum, data : 1..PeerLen, len : 1..PeerLen]
  /\ rx \in Seq(1..PeerLen)
  /\ eof \in BOOLEAN /\ sockErr \in Errors /\ rstErr \in Errors
  /\ waiters \in [Queues -> SUBSET Threads]
  /\ net \in Seq(Segment)

(* The receive path hands the application the peer's stream without gaps, *)
(* duplicates or reordering: the bytes still in the receive buffer are    *)
(* exactly the latest ones delivered, and no more were delivered than the *)
(* peer sent.  Old, duplicated and out-of-window segments, sequence       *)
(* numbers wrapping around and the RCV.NXT bookkeeping of data and FIN    *)
(* in process_established all have to be right for this to hold.         *)
RxIsPrefix ==
  /\ rxCount <= pSent
  /\ \A i \in 1..Len(rx) : rx[i] = rxCount - Len(rx) + i

(* TcpConn implements the connection of spec 4.4 (TcpConnection): every *)
(* change of TcpControlBlock.state by the receive handlers, tcp_connect    *)
(* and tcp_close follows an arrow of the table; the peer's FIN is         *)
(* accepted once, and only on the arrows into CLOSE-WAIT, CLOSING and     *)
(* TIME-WAIT; data reaches the receive buffer only in ESTABLISHED before  *)
(* the peer's FIN.                                                        *)
Conn == INSTANCE TcpConnection
          WITH st <- tcpState, inOpen <- ~finRcvd, delivered <- rxCount,
               MaxBytes <- PeerLen
ImplementsConnection == Conn!Spec

(* Every byte we sent that the peer has not acknowledged is still in a    *)
(* retransmit entry (spec section 3: an entry stays until its right edge  *)
(* is covered by an acknowledgement).  It relates tcp_sendmsg's queue to  *)
(* SND.UNA as the ACK range check of process_established (line 172) and  *)
(* the retain of line 178 move them: a late or duplicated ACK that moved  *)
(* SND.UNA back would uncover bytes whose entries were already dropped.   *)
(* tcp_conn keeps our own sequence numbers clear of the wrap, where       *)
(* tcp_rtx_wrap shows the retain's unsigned comparison breaks it.         *)
RtxCoversUnacked ==
  \A k \in 0..(SeqSub(sndNxt, sndUna) - 1) :
    tcpState \in {"Established", "CloseWait"}
      => \E j \in 1..Len(rtx) :
           SeqSub(SeqAdd(sndUna, k), rtx[j].seq) < rtx[j].len

(* When the peer's FIN has been accepted and EOF is signalled, every byte *)
(* the peer sent before its FIN has been delivered to the socket.         *)
FinMeansStreamComplete ==
  finRcvd => rxCount = PeerLen

(* process_last_ack leaves LAST-ACK for CLOSED only once our FIN has been *)
(* acknowledged, as its comment "Our FIN was ACKed" says.  It tests the   *)
(* ACK flag alone, so the ACK of data sent in CLOSE-WAIT, delivered after *)
(* tcp_close, also closes the connection.                                 *)
LastAckClosesOnFinAck ==
  [][tcpState = "LastAck" /\ tcpState' = "Closed" => pAcked = sndNxt]_vars

=============================================================================
