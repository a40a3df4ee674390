---------------------------- MODULE MCEthernet -----------------------------
(***************************************************************************)
(* Ethernet on 17-byte buffers: a transmit buffer of 14 bytes of headroom  *)
(* and 2 of data (alloc_tx scaled down), one with 13 bytes of headroom,   *)
(* where push(14) fails, and a receive buffer with 1 byte of headroom      *)
(* (NET_SKB_PAD scaled down) that holds a 16-byte frame.                   *)
(***************************************************************************)
EXTENDS Ethernet

MCMacs == {EthBroadcast, <<1, 0, 94, 0, 0, 1>>, <<82, 84, 0, 18, 52, 86>>}
MCProtos == {Typ("Ipv4"), Typ("Vlan"), Unknown(4660)}
MCAllocArgs == {<<14, 2>>, <<13, 1>>}

(* Spec 8: from_be(x).to_be() == x for every u16 x. *)
ASSUME \A x \in 0 .. 65535 : ToBe(FromBe(x)) = x
=============================================================================
