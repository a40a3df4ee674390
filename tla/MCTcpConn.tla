----------------------------- MODULE MCTcpConn -----------------------------
(* Model-checking instance of TcpConn: 3-bit sequence numbers so that     *)
(* both sides wrap around within a few bytes.                             *)
EXTENDS TcpConn

CONSTANTS t1

MCThreads == {t1}
=============================================================================
