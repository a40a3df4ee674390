------------------------------ MODULE Ethernet ------------------------------
(***************************************************************************)
(* Ethernet framing of src/kernel/net/ethernet.rs on the packet buffer of  *)
(* SkBuff.  A sender fills a buffer, eth_header pushes the 14-byte header  *)
(* and the frame goes on a wire; a receiver copies a frame into an         *)
(* alloc_rx buffer, demultiplexes it with eth_type_trans and eth_hdr and   *)
(* strips the header with pull(14).  Frames shorter than a header also     *)
(* arrive.  The NIC driver steps (transmit and receive) are not in the     *)
(* sources and follow the data flow of spec 3.  Byte values are kept:     *)
(* the header is the MACs' bytes and the EtherType's two big-endian bytes. *)
(***************************************************************************)
EXTENDS SkBuff, TLC

CONSTANTS
    Macs,       \* MAC addresses (6-byte sequences) eth_header is called with
    Protos,     \* EtherTypes eth_header is called with
    RuntLens,   \* lengths of frames shorter than a header that come off the wire
    RxPad,      \* headroom of alloc_rx (NET_SKB_PAD, 64 in the code)
    WireCap     \* frames the wire holds

VARIABLES
    wire,     \* frames in flight: their bytes and what built them
    txHdr,    \* history: eth_header's arguments and the payload it framed, or <<>>
    rxFrame,  \* history: the wire frame in the receive buffer, or <<>>
    demux,    \* the results of eth_type_trans and eth_hdr on the receive buffer
    oob       \* history: a header read went past the payload

evars == <<wire, txHdr, rxFrame, demux, oob>>
allvars == <<alive, size, data, tail, buf, call, wire, txHdr, rxFrame, demux, oob>>

EthAlen == 6
EthHlen == 14
EthBroadcast == [k \in 1 .. EthAlen |-> 255]

(* EtherType: a named variant or Unknown(v), with from_be and to_be. *)
Named == ("Ipv4" :> 2048) @@ ("Arp" :> 2054) @@ ("Ipv6" :> 34525) @@ ("Vlan" :> 33024)
Typ(k) == [kind |-> k, v |-> 0]
Unknown(v) == [kind |-> "Unknown", v |-> v]
FromBe(value) ==
    IF \E k \in DOMAIN Named : Named[k] = value
    THEN Typ(CHOOSE k \in DOMAIN Named : Named[k] = value)
    ELSE Unknown(value)
ToBe(t) == IF t.kind = "Unknown" THEN t.v ELSE Named[t.kind]

(* u16::to_be_bytes and u16::from_be_bytes. *)
BeBytes(v) == <<v \div 256, v % 256>>
FromBeBytes(b) == b[1] * 256 + b[2]

(* The byte at payload offset i, as data()[i] or a read through data_ptr. *)
ByteAt(i) == IF data + i + 1 <= MaxSkb THEN buf[data + i + 1] ELSE 0
BytesAt(i, n) == [k \in 1 .. n |-> ByteAt(i + k - 1)]

(* EthHdr::protocol and is_broadcast. *)
HdrProtocol(h) == FromBe(FromBeBytes(h.h_proto))
IsBroadcast(h) == h.h_dest = EthBroadcast

NoDemux == [typed |-> FALSE, proto |-> Unknown(0), parsed |-> FALSE, hdr |-> <<>>]

EthInit ==
    /\ alive = FALSE
    /\ size = 0 /\ data = 0 /\ tail = 0
    /\ buf = [k \in 1 .. MaxSkb |-> 0]
    /\ call = [op |-> "none", arg |-> 0]
    /\ wire = <<>> /\ txHdr = <<>> /\ rxFrame = <<>>
    /\ demux = NoDemux /\ oob = FALSE

Sending == alive /\ rxFrame = <<>>

(* The sender's buffer operations before the header goes on. *)
TxFill ==
    /\ txHdr = <<>>
    /\ \/ \E a \in AllocArgs : Alloc(a[1], a[2])
       \/ Sending /\ \E n \in Lens : Put(n)
       \/ Sending /\ \E i \in 1 .. MaxSkb, v \in Vals : WriteByte(i, v)
    /\ UNCHANGED evars

(* eth_header: push(14)?, then destination, source and the EtherType's    *)
(* big-endian bytes written into the pushed bytes.                        *)
EthHeader(dst, src, proto) ==
    /\ Sending /\ txHdr = <<>>
    /\ Invoke("push", EthHlen)
    /\ IF Headroom >= EthHlen
       THEN LET hdr == dst \o src \o BeBytes(ToBe(proto))
                at == data - EthHlen
            IN  /\ data' = at
                /\ buf' = [k \in 1 .. MaxSkb |->
                             IF k > at /\ k <= data THEN hdr[k - at] ELSE buf[k]]
                /\ txHdr' = <<[dst |-> dst, src |-> src, proto |-> proto,
                               payload |-> Payload]>>
       ELSE UNCHANGED <<data, buf, txHdr>>
    /\ UNCHANGED <<alive, size, tail, wire, rxFrame, demux, oob>>

(* The driver hands a framed buffer to the NIC and drops it. *)
Transmit ==
    /\ Sending /\ txHdr # <<>> /\ Len(wire) < WireCap
    /\ wire' = Append(wire, [bytes |-> Payload, from |-> txHdr])
    /\ Invoke("free", 0) /\ alive' = FALSE /\ txHdr' = <<>>
    /\ UNCHANGED <<size, data, tail, buf, rxFrame, demux, oob>>

(* A frame shorter than a header arrives from another station: n bytes of *)
(* 0xff, a broadcast cut off.                                              *)
Runt(n) ==
    /\ Len(wire) < WireCap
    /\ wire' = Append(wire, [bytes |-> [k \in 1 .. n |-> 255], from |-> <<>>])
    /\ UNCHANGED <<alive, size, data, tail, buf, call, txHdr, rxFrame, demux, oob>>

(* The driver takes the next frame into an alloc_rx buffer: RxPad bytes   *)
(* of headroom, then put(len) and the frame's bytes copied in.            *)
Receive ==
    /\ ~alive /\ wire # <<>>
    /\ LET f == Head(wire)
           n == Len(f.bytes)
       IN  /\ alive' = TRUE /\ size' = MaxSkb
           /\ data' = RxPad /\ tail' = RxPad + n
           /\ buf' = [k \in 1 .. MaxSkb |->
                        IF k > RxPad /\ k <= RxPad + n THEN f.bytes[k - RxPad] ELSE 0]
           /\ rxFrame' = <<f>>
    /\ wire' = Tail(wire) /\ Invoke("alloc", 0)
    /\ demux' = NoDemux
    /\ UNCHANGED <<txHdr, oob>>

(* The receiver demultiplexes before it strips the header (spec 4.2).    *)
(* eth_type_trans: Unknown(0) when len < 14, else from_be of data[12..13]. *)
EthTypeTrans ==
    /\ alive /\ rxFrame # <<>> /\ data = RxPad
    /\ LET ok == SkbLen >= EthHlen
       IN  /\ demux' = [demux EXCEPT !.typed = TRUE,
                          !.proto = IF ok THEN FromBe(FromBeBytes(BytesAt(12, 2)))
                                    ELSE Unknown(0)]
           /\ oob' = (oob \/ (ok /\ SkbLen < EthHlen))
    /\ UNCHANGED <<vars, wire, txHdr, rxFrame>>

(* eth_hdr: None when len < 14, else the 14 bytes at data as an EthHdr. *)
EthHdr ==
    /\ alive /\ rxFrame # <<>> /\ data = RxPad
    /\ LET ok == SkbLen >= EthHlen
       IN  /\ demux' = [demux EXCEPT !.parsed = TRUE,
                          !.hdr = IF ok THEN <<[h_dest |-> BytesAt(0, 6),
                                                h_source |-> BytesAt(6, 6),
                                                h_proto |-> BytesAt(12, 2)]>>
                                  ELSE <<>>]
           /\ oob' = (oob \/ (ok /\ SkbLen < EthHlen))
    /\ UNCHANGED <<vars, wire, txHdr, rxFrame>>

(* The receiver strips the header. *)
RxPull ==
    /\ rxFrame # <<>> /\ Pull(EthHlen)
    /\ UNCHANGED evars

(* Either side drops its buffer. *)
Drop ==
    /\ Free
    /\ txHdr' = <<>> /\ rxFrame' = <<>> /\ demux' = NoDemux
    /\ UNCHANGED <<wire, oob>>

EthNext ==
    \/ TxFill
    \/ \E d \in Macs, s \in Macs, p \in Protos : EthHeader(d, s, p)
    \/ Transmit
    \/ \E n \in RuntLens : Runt(n)
    \/ Receive
    \/ EthTypeTrans
    \/ EthHdr
    \/ RxPull
    \/ Drop

EthSpec == EthInit /\ [][EthNext]_allvars

-----------------------------------------------------------------------------
(* Spec 3 and 4.2: what the receiver gets from eth_type_trans, from eth_hdr *)
(* (destination, source, EthHdr::protocol, is_broadcast) and, after        *)
(* pull(14), from data() is what the sender passed to eth_header and the    *)
(* payload it framed, the EtherType compared by its on-wire value; a frame *)
(* shorter than a header demultiplexes as Unknown(0) with no header.       *)
FrameRoundTrip ==
    rxFrame # <<>> =>
      LET f == rxFrame[1]
      IN  IF f.from = <<>>
          THEN /\ demux.typed => demux.proto = Unknown(0)
               /\ demux.parsed => demux.hdr = <<>>
          ELSE LET s == f.from[1]
               IN  /\ demux.typed => ToBe(demux.proto) = ToBe(s.proto)
                   /\ demux.parsed =>
                        /\ demux.hdr # <<>>
                        /\ demux.hdr[1].h_dest = s.dst
                        /\ demux.hdr[1].h_source = s.src
                        /\ ToBe(HdrProtocol(demux.hdr[1])) = ToBe(s.proto)
                        /\ IsBroadcast(demux.hdr[1]) = (s.dst = EthBroadcast)
                   /\ data = RxPad + EthHlen => Payload = s.payload
=============================================================================
