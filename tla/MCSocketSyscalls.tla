-------------------------- MODULE MCSocketSyscalls --------------------------
(* Small instances of SocketSyscalls for TLC: two tasks sharing a socket. *)
EXTENDS SocketSyscalls

CONSTANTS t1, t2

MCThreads == {t1, t2}

(* t1 connects, reads and polls; t2 reads, writes, shuts down, asks       *)
(* SO_ERROR.                                                               *)
MCOpsLive == [t \in MCThreads |->
               IF t = t1 THEN {"connect", "read", "poll"}
                         ELSE {"read", "write", "shutdown", "getsockopt"}]

(* Every call but poll is available to both tasks (poll does not depend  *)
(* on O_NONBLOCK and runs in socket_live).                                *)
MCOpsAll == [t \in MCThreads |-> Ops \ {"poll"}]

(* Two readers and nothing else.                                           *)
MCOpsReaders == [t \in MCThreads |-> {"read", "connect"}]

(* t1 connects and reads, t2 calls listen.                              *)
MCOpsListen == [t \in MCThreads |-> IF t = t1 THEN {"connect", "read"} ELSE {"listen"}]

(* t1 connects, t2 calls sendto.                                         *)
MCOpsSendto == [t \in MCThreads |-> IF t = t1 THEN {"connect"} ELSE {"sendto"}]

(* t1 connects, t2 writes.                                                *)
MCOpsWriter == [t \in MCThreads |-> IF t = t1 THEN {"connect"} ELSE {"write"}]

(* The tasks are interchangeable when they share one set of calls (as in *)
(* MCOpsAll): nothing in the specification tells t1 from t2.            *)
MCSymmetry == Permutations(MCThreads)

MCOpsOne == [t \in MCThreads |-> IF t = t1 THEN {"connect"} ELSE {}]
====
