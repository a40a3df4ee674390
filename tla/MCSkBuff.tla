------------------------------ MODULE MCSkBuff -----------------------------
EXTENDS SkBuff

(* alloc_rx and alloc_tx scaled down (MAX_SKB_SIZE = 6): a headroom and a *)
(* frame length.  One pair has no headroom, one fills the buffer, and the  *)
(* last exceeds MAX_SKB_SIZE and gets None.                                *)
MCAllocArgs == {<<0, 3>>, <<1, 4>>, <<2, 2>>, <<3, 3>>, <<2, 5>>}
=============================================================================
