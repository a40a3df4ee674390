--------------------------- MODULE SocketSyscalls ---------------------------
(***************************************************************************)
(* The socket layer over one TCP connection: tasks calling read, write,   *)
(* connect, shutdown, listen, getsockopt(SO_ERROR) and close on the same  *)
(* socket while the receive path of TcpConn runs on another CPU.          *)
(*                                                                         *)
(* Each task is a program counter over the shared accesses of the call it *)
(* is in (src/kernel/net/socket_file.rs, src/kernel/net/syscall.rs): one  *)
(* step per load or store of socket state, so a receive handler or        *)
(* another task may run between any two of them.                          *)
(*                                                                         *)
(* WaitQueue.wait() is not part of the sources.  AtomicWait = TRUE models *)
(* a queue a task joins before it checks its predicate (a wake between    *)
(* the check and the sleep is not lost); FALSE one it joins only when it  *)
(* sleeps.                                                                 *)
(***************************************************************************)
EXTENDS TcpConn

CONSTANTS
  AtomicWait,    \* see above
  NonblockModes, \* values the socket's O_NONBLOCK flag may have
  ThreadOps,     \* task -> the calls it may make
  Hows,          \* shutdown arguments the tasks may pass
  BufLen,        \* read buffer length
  MaxCalls,      \* calls per task at most
  MaxConnects,   \* connect calls on the socket at most
  Refusals       \* TRUE: the peer may refuse our SYN

Ops == {"read", "write", "connect", "shutdown", "getsockopt", "listen",
        "release", "poll", "sendto"}

ASSUME /\ AtomicWait \in BOOLEAN /\ Refusals \in BOOLEAN
       /\ NonblockModes \subseteq BOOLEAN /\ NonblockModes # {}
       /\ ThreadOps \in [Threads -> SUBSET Ops]
       /\ BufLen \in Nat \ {0}

VARIABLES
  nonblock,  \* socket.is_nonblocking() / O_NONBLOCK of the file
  pc,        \* task -> where it is in its current call
  errv,      \* task -> the error value it loaded
  ret,       \* task -> what its last call returned
  lastOp,    \* task -> its last call
  calls,     \* task -> calls made
  connects,  \* connect calls made
  released,  \* the file was released (last reference dropped)
  ptab,      \* task -> the queues its poll table holds entries on
  stored,    \* history: errors the receive path stored on the socket
  refPend,   \* history: a refusal was processed and not yet reported
  reported,  \* history: stored errors returned to a caller
  eofSeen    \* history: a read returned 0 after the peer's FIN

sysVars == <<nonblock, pc, errv, ret, lastOp, calls, connects, released, ptab>>
auxVars == <<stored, refPend, reported, eofSeen>>
allVars == <<vars, sysVars, auxVars>>

(* errno values of the syscall ABI (returned negated).                   *)
EIO == 5
EAGAIN == 11
EINVAL == 22
ECONNRESET == 104
EISCONN == 106
ENOTCONN == 107
ECONNREFUSED == 111
EALREADY == 114
EINPROGRESS == 115
(* The errno of a tcp_sendmsg error other than WouldBlock: NetError's     *)
(* to_errno is not among the sources, so it is a value of its own here.   *)
SendmsgErrno == 1000

(* -ECONNREFUSED / -ECONNRESET, as socket.set_error stores them.          *)
Errno(e) == IF e = "ECONNREFUSED" THEN ECONNREFUSED ELSE ECONNRESET

(* Values a call returns: byte counts, 0, negated errno values.           *)
Results == {-EIO, -EAGAIN, -EINVAL, -ECONNRESET, -EISCONN, -ENOTCONN,
            -ECONNREFUSED, -EALREADY, -EINPROGRESS, -SendmsgErrno} \cup 0..BufLen

PCs == {"idle", "rd_err", "rd_clear", "rd_rx", "rd_eof", "rd_wait",
        "rd_sleep", "wr_err", "wr_clear", "wr_send", "wr_wait", "wr_sleep",
        "wr_retry", "cn_check", "cn_start", "cn_loop", "cn_err", "cn_wait",
        "cn_sleep", "pl_reg", "pl_mask", "pl_sleep"}

(* FsError::from_errno(-err) of the stored error: 11 is WouldBlock,       *)
(* anything else IoError; the file layer returns them as -EAGAIN / -EIO.  *)
FromErrno(e) == IF Errno(e) = EAGAIN THEN -EAGAIN ELSE -EIO

-----------------------------------------------------------------------------
SockInit ==
  /\ Init
  /\ nonblock \in NonblockModes
  /\ pc = [t \in Threads |-> "idle"]
  /\ errv = [t \in Threads |-> "none"]
  /\ ret = [t \in Threads |-> 0]
  /\ lastOp = [t \in Threads |-> "none"]
  /\ calls = [t \in Threads |-> 0]
  /\ connects = 0
  /\ released = FALSE
  /\ ptab = [t \in Threads |-> {}]
  /\ stored = 0 /\ refPend = FALSE /\ reported = 0 /\ eofSeen = FALSE

(* Task t moves from program counter p to q.                               *)
Goto(t, p, q) == pc[t] = p /\ pc' = [pc EXCEPT ![t] = q]

(* Task t returns v from its call.                                        *)
Return(t, p, v) ==
  /\ Goto(t, p, "idle")
  /\ ret' = [ret EXCEPT ![t] = v]

(* History: a call hands error e (possibly none) to its caller.          *)
Reports(e) ==
  /\ reported' = IF e = "none" THEN reported ELSE reported + 1
  /\ refPend' = (refPend /\ e # "ECONNREFUSED")

(* AtomicWait: a task looping in a blocking call joins the wait queue q  *)
(* at the top of the loop, before it reads any state.                     *)
Join(t, q) ==
  IF AtomicWait
    THEN waiters' = [waiters EXCEPT ![q] = @ \cup {t}]
    ELSE UNCHANGED waiters

Leave(t) == waiters' = [q \in Queues |-> waiters[q] \ {t}]

(* Task t sleeps in WaitQueue.wait(): without AtomicWait it joins the     *)
(* queue only now.                                                         *)
Wait(t, p, q, next) ==
  /\ Goto(t, p, next)
  /\ IF AtomicWait THEN UNCHANGED waiters
                   ELSE waiters' = [waiters EXCEPT ![q] = @ \cup {t}]

(* wait() returns once a wake_* has taken the task off the queue.          *)
Woken(t, p, q, next) ==
  /\ t \notin waiters[q]
  /\ Goto(t, p, next)
  /\ UNCHANGED waiters

(* A step of a task that leaves the connection and the histories alone.   *)
TaskOnly == UNCHANGED <<tcbVars, rx, eof, sockErr, histVars, peerVars, net,
                        nonblock, calls, connects, released, ptab, lastOp, auxVars>>

WritePCs == {"wr_err", "wr_clear", "wr_send", "wr_wait", "wr_sleep",
             "wr_retry"}

-----------------------------------------------------------------------------
(* SocketFileOps::read (socket_file.rs).  The sticky error is loaded, and  *)
(* cleared by a separate store; the receive buffer is drained under its  *)
(* lock; EOF and the TCP state are then checked before sleeping on RX.   *)

ReadLoadErr(t) ==
  /\ IF sockErr # "none"
       THEN Goto(t, "rd_err", "rd_clear") /\ errv' = [errv EXCEPT ![t] = sockErr]
       ELSE Goto(t, "rd_err", "rd_rx") /\ UNCHANGED errv
  /\ Join(t, "rx")
  /\ UNCHANGED ret /\ TaskOnly

(* self.socket.error.store(0): whatever is stored now is overwritten.      *)
ReadClearErr(t) ==
  /\ Return(t, "rd_clear", FromErrno(errv[t]))
  /\ sockErr' = "none"
  /\ Reports(errv[t])
  /\ Leave(t)
  /\ UNCHANGED <<tcbVars, rx, eof, histVars, peerVars, net, nonblock, calls,
                 connects, released, ptab, lastOp, errv, stored, eofSeen>>

ReadRx(t) ==
  \/ /\ rx # <<>>
     /\ LET n == IF BufLen < Len(rx) THEN BufLen ELSE Len(rx) IN
        /\ Return(t, "rd_rx", n)
        /\ rx' = SubSeq(rx, n + 1, Len(rx))
     /\ Leave(t)
     /\ UNCHANGED <<tcbVars, eof, sockErr, histVars, peerVars, net, nonblock,
                    calls, connects, released, ptab, lastOp, errv, auxVars>>
  \/ /\ rx = <<>>
     /\ Goto(t, "rd_rx", "rd_eof")
     /\ UNCHANGED <<waiters, errv, ret>> /\ TaskOnly

(* is_eof(), then tcp.state() in {Closed, TimeWait}: read returns 0.  The *)
(* two loads are taken as one step (both lead to returning 0).            *)
ReadDoneStateOnly == tcpState \in {"Closed", "TimeWait"}
ReadDone == eof \/ tcpState \in {"Closed", "TimeWait"}

(* End of stream, else the nonblocking flag, else sleep.                  *)
ReadEof(t) ==
  \/ /\ ReadDone
     /\ Return(t, "rd_eof", 0)
     /\ eofSeen' = (eofSeen \/ finRcvd)
     /\ Leave(t)
     /\ UNCHANGED <<tcbVars, rx, eof, sockErr, histVars, peerVars, net,
                    nonblock, calls, connects, released, ptab, lastOp, errv, stored,
                    refPend, reported>>
  \/ /\ ~ReadDone /\ nonblock
     /\ Return(t, "rd_eof", -EAGAIN)
     /\ Leave(t)
     /\ UNCHANGED errv /\ TaskOnly
  \/ /\ ~ReadDone /\ ~nonblock
     /\ Goto(t, "rd_eof", "rd_wait")
     /\ UNCHANGED <<waiters, errv, ret>> /\ TaskOnly

ReadWait(t) == Wait(t, "rd_wait", "rx", "rd_sleep") /\ UNCHANGED <<errv, ret>>
               /\ TaskOnly

ReadWoken(t) == Woken(t, "rd_sleep", "rx", "rd_err") /\ UNCHANGED <<errv, ret>>
                /\ TaskOnly

-----------------------------------------------------------------------------
(* SocketFileOps::write (socket_file.rs): the same load-then-store of the *)
(* sticky error, then tcp_sendmsg; a blocking write that would block     *)
(* sleeps on TX once and retries once.  Each write carries one byte.     *)

WriteLoadErr(t) ==
  /\ IF sockErr # "none"
       THEN Goto(t, "wr_err", "wr_clear") /\ errv' = [errv EXCEPT ![t] = sockErr]
       ELSE Goto(t, "wr_err", "wr_send") /\ UNCHANGED errv
  /\ UNCHANGED <<waiters, ret>> /\ TaskOnly

WriteClearErr(t) ==
  /\ Return(t, "wr_clear", FromErrno(errv[t]))
  /\ sockErr' = "none"
  /\ Reports(errv[t])
  /\ UNCHANGED <<tcbVars, rx, eof, waiters, histVars, peerVars, net, nonblock,
                 calls, connects, released, ptab, lastOp, errv, stored, eofSeen>>

(* tcp_sendmsg outside ESTABLISHED / CLOSE-WAIT fails with an error other  *)
(* than WouldBlock, which from_errno turns into IoError.                   *)
SendFails == tcpState \notin {"Established", "CloseWait"}

(* What a tcp_sendmsg step of write leaves alone.                         *)
SendOthers == <<errv, rx, eof, sockErr, ourSyn, rxCount, finRcvd, peerVars,
                net, nonblock, calls, connects, released, ptab, lastOp, auxVars>>

(* The first tcp_sendmsg of write.  A blocking writer that would block    *)
(* joins TX here when the wait is atomic with this check.                 *)
WriteSend(t) ==
  \/ /\ SendFails
     /\ Return(t, "wr_send", -EIO)
     /\ UNCHANGED <<tcbVars, waiters, sndBytes>>
  \/ /\ SendWouldBlock /\ nonblock
     /\ Return(t, "wr_send", -EAGAIN)
     /\ UNCHANGED <<tcbVars, waiters, sndBytes>>
  \/ /\ SendWouldBlock /\ ~nonblock
     /\ Goto(t, "wr_send", "wr_wait")
     /\ Join(t, "tx")
     /\ UNCHANGED <<tcbVars, ret, sndBytes>>
  \/ /\ ~SendFails /\ ~SendWouldBlock
     /\ TcpSendmsg(1)
     /\ Return(t, "wr_send", 1)
     /\ UNCHANGED <<waiters, rstErr>>
  /\ UNCHANGED SendOthers

WriteWait(t) == Wait(t, "wr_wait", "tx", "wr_sleep") /\ UNCHANGED <<errv, ret>>
                /\ TaskOnly

WriteWoken(t) == Woken(t, "wr_sleep", "tx", "wr_retry")
                 /\ UNCHANGED <<errv, ret>> /\ TaskOnly

(* The retry: tcp_sendmsg(...).map_err(|_| FsError::WouldBlock).          *)
WriteRetry(t) ==
  \/ /\ ~SendFails /\ ~SendWouldBlock
     /\ TcpSendmsg(1)
     /\ Return(t, "wr_retry", 1)
     /\ UNCHANGED rstErr
  \/ /\ SendFails \/ SendWouldBlock
     /\ Return(t, "wr_retry", -EAGAIN)
     /\ UNCHANGED <<tcbVars, sndBytes>>
  /\ UNCHANGED <<waiters, SendOthers>>

-----------------------------------------------------------------------------
(* sys_connect (syscall.rs): the state check, tcp_connect, and for a      *)
(* blocking socket a loop on the TCP state sleeping on the connect queue. *)

ConnectCheck(t) ==
  /\ \/ /\ tcpState = "Established"
        /\ Return(t, "cn_check", -EISCONN)
     \/ /\ tcpState \in {"SynSent", "SynReceived"} /\ nonblock
        /\ Return(t, "cn_check", -EALREADY)
     \/ /\ \/ tcpState \notin {"Established", "SynSent", "SynReceived"}
           \/ ~nonblock /\ tcpState \in {"SynSent", "SynReceived"}
        /\ Goto(t, "cn_check", "cn_start") /\ UNCHANGED ret
  /\ UNCHANGED <<waiters, errv>> /\ TaskOnly

(* tcp::tcp_connect, then EINPROGRESS for a nonblocking socket.           *)
ConnectStart(t) ==
  /\ TcpConnect
  /\ IF nonblock THEN Return(t, "cn_start", -EINPROGRESS)
                 ELSE Goto(t, "cn_start", "cn_loop") /\ UNCHANGED ret
  /\ UNCHANGED <<rstErr, rx, eof, sockErr, waiters, sndBytes, rxCount, finRcvd,
                 peerVars, net, nonblock, calls, connects, released, ptab, lastOp,
                 errv, auxVars>>

ConnectLoop(t) ==
  /\ \/ /\ tcpState = "Established"
        /\ Return(t, "cn_loop", 0) /\ UNCHANGED waiters
     \/ /\ tcpState = "Closed"
        /\ Goto(t, "cn_loop", "cn_err") /\ UNCHANGED <<waiters, ret>>
     \/ /\ tcpState \notin {"Established", "Closed"}
        /\ Goto(t, "cn_loop", "cn_wait") /\ UNCHANGED ret
        /\ Join(t, "conn")
  /\ UNCHANGED errv /\ TaskOnly

(* socket.get_error(): the pending error is taken and cleared; none left *)
(* means ENOTCONN.  The error is stored negated, so err is returned as it *)
(* is.                                                                     *)
ConnectGetErrorNegated(t) ==
  /\ Return(t, "cn_err", IF sockErr = "none" THEN -ENOTCONN
                                             ELSE Errno(sockErr))
  /\ sockErr' = "none"
  /\ Reports(sockErr)
  /\ UNCHANGED <<tcbVars, rx, eof, waiters, histVars, peerVars, net, nonblock,
                 calls, connects, released, ptab, lastOp, errv, stored, eofSeen>>
ConnectGetError(t) ==
  /\ Return(t, "cn_err", IF sockErr = "none" THEN -ENOTCONN
                                             ELSE -Errno(sockErr))
  /\ sockErr' = "none"
  /\ Reports(sockErr)
  /\ UNCHANGED <<tcbVars, rx, eof, waiters, histVars, peerVars, net, nonblock,
                 calls, connects, released, ptab, lastOp, errv, stored, eofSeen>>

ConnectWait(t) == Wait(t, "cn_wait", "conn", "cn_sleep")
                  /\ UNCHANGED <<errv, ret>> /\ TaskOnly

ConnectWoken(t) == Woken(t, "cn_sleep", "conn", "cn_loop")
                   /\ UNCHANGED <<errv, ret>> /\ TaskOnly

-----------------------------------------------------------------------------
(* SocketFileOps::poll (socket_file.rs) inside a blocking poll(2) on       *)
(* POLLIN.  The VFS loop is not among the sources (spec 4.5): it calls     *)
(* poll with a poll table, returns when the mask holds POLLIN, POLLERR or *)
(* POLLHUP, and otherwise sleeps until a queue it was registered on is    *)
(* woken, then polls again.                                                *)

(* The queues poll_wait puts in the poll table: RX and TX.                 *)
PollQueues == {"rx", "tx"}

(* The steps of poll leave every variable but pc, waiters, ret and ptab.   *)
PollOnly == UNCHANGED <<tcbVars, rx, eof, sockErr, histVars, peerVars, net,
                        nonblock, calls, connects, released, lastOp, errv, auxVars>>

PollRegisterNoTable(t) ==
  /\ Goto(t, "pl_reg", "pl_mask")
  /\ UNCHANGED <<waiters, ret, ptab>> /\ PollOnly

(* poll_wait on each: the table registers the task on them before any    *)
(* state is read.                                                          *)
PollRegister(t) ==
  /\ Goto(t, "pl_reg", "pl_mask")
  /\ waiters' = [q \in Queues |-> IF q \in PollQueues THEN waiters[q] \cup {t}
                                                     ELSE waiters[q]]
  /\ ptab' = [ptab EXCEPT ![t] = PollQueues]
  /\ UNCHANGED ret /\ PollOnly

(* The mask: POLLIN when RX holds data (Socket::poll_read, spec 4.5),     *)
(* POLLERR when an error is pending, POLLHUP on EOF or in CLOSED and       *)
(* TIME-WAIT.  POLLOUT is not asked for.  The loads are taken as one      *)
(* step: the registration comes first, so an event between two loads      *)
(* wakes the task and it polls again.  On return the table is freed.      *)
PollMask(t) ==
  LET mask == (IF rx # <<>> THEN {"IN"} ELSE {})
              \cup (IF sockErr # "none" THEN {"ERR"} ELSE {})
              \cup (IF eof \/ tcpState \in {"Closed", "TimeWait"} THEN {"HUP"} ELSE {})
  IN  \/ /\ mask # {}
         /\ Return(t, "pl_mask", 1)
         /\ Leave(t)
         /\ ptab' = [ptab EXCEPT ![t] = {}]
      \/ /\ mask = {}
         /\ Goto(t, "pl_mask", "pl_sleep")
         /\ UNCHANGED <<waiters, ret, ptab>>
  /\ PollOnly

(* The poll loop sleeps until a queue its table holds an entry on was     *)
(* woken, then frees the table (leaving every queue) and polls again.     *)
PollSleep(t) ==
  /\ \E q \in ptab[t] : t \notin waiters[q]
  /\ Goto(t, "pl_sleep", "pl_reg")
  /\ Leave(t)
  /\ ptab' = [ptab EXCEPT ![t] = {}]
  /\ UNCHANGED ret /\ PollOnly

-----------------------------------------------------------------------------
(* Entering a call (get_socket succeeded: the file is still open).        *)
Begin(t, op, p) ==
  /\ pc[t] = "idle" /\ ~released /\ calls[t] < MaxCalls
  /\ op \in ThreadOps[t]
  /\ pc' = [pc EXCEPT ![t] = p]
  /\ calls' = [calls EXCEPT ![t] = @ + 1]
  /\ lastOp' = [lastOp EXCEPT ![t] = op]

StartRead(t) ==
  /\ Begin(t, "read", "rd_err")
  /\ UNCHANGED <<vars, nonblock, errv, ret, connects, released, ptab, auxVars>>

(* The application writes SendLen bytes at most, one per write.          *)
(* sys_sendto (syscall.rs): one tcp_sendmsg, its error returned as it is *)
(* (WouldBlock as EAGAIN).  The sticky error is not looked at, and a      *)
(* blocking socket does not sleep.  One byte per call.                    *)
Sendto(t) ==
  /\ sndBytes + Cardinality({u \in Threads : pc[u] \in WritePCs}) < SendLen
  /\ Begin(t, "sendto", "idle")
  /\ \/ /\ SendFails
        /\ ret' = [ret EXCEPT ![t] = -SendmsgErrno]
        /\ UNCHANGED <<tcbVars, sndBytes>>
     \/ /\ SendWouldBlock
        /\ ret' = [ret EXCEPT ![t] = -EAGAIN]
        /\ UNCHANGED <<tcbVars, sndBytes>>
     \/ /\ ~SendFails /\ ~SendWouldBlock
        /\ TcpSendmsg(1)
        /\ ret' = [ret EXCEPT ![t] = 1]
        /\ UNCHANGED rstErr
  /\ UNCHANGED <<sockVars, ourSyn, rxCount, finRcvd, peerVars, net, nonblock, errv,
                 connects, released, ptab, auxVars>>

StartWrite(t) ==
  /\ sndBytes + Cardinality({u \in Threads : pc[u] \in WritePCs}) < SendLen
  /\ Begin(t, "write", "wr_err")
  /\ UNCHANGED <<vars, nonblock, errv, ret, connects, released, ptab, auxVars>>

StartConnect(t) ==
  /\ connects < MaxConnects
  /\ Begin(t, "connect", "cn_check")
  /\ connects' = connects + 1
  /\ UNCHANGED <<vars, nonblock, errv, ret, released, ptab, auxVars>>

StartPoll(t) ==
  /\ Begin(t, "poll", "pl_reg")
  /\ UNCHANGED <<vars, nonblock, errv, ret, connects, released, ptab, auxVars>>

(* sys_shutdown: SHUT_RD marks EOF and wakes RX; SHUT_WR and SHUT_RDWR   *)
(* call tcp_close, SHUT_RDWR then also marks EOF and wakes every queue;  *)
(* any other value is EINVAL.                                             *)
Shutdown(t) ==
  /\ Begin(t, "shutdown", "idle")
  /\ \E how \in Hows :
       \/ /\ how = 0
          /\ eof' = TRUE /\ Wake({"rx"})
          /\ ret' = [ret EXCEPT ![t] = 0]
          /\ UNCHANGED tcbVars
       \/ /\ how \in {1, 2}
          /\ TcpClose /\ UNCHANGED rstErr
          /\ IF how = 2 THEN eof' = TRUE /\ Wake(Queues)
                         ELSE UNCHANGED <<eof, waiters>>
          /\ ret' = [ret EXCEPT ![t] = 0]
       \/ /\ how \notin 0..2
          /\ ret' = [ret EXCEPT ![t] = -EINVAL]
          /\ UNCHANGED <<tcbVars, eof, waiters>>
  /\ UNCHANGED <<rx, sockErr, histVars, peerVars, net, nonblock, errv,
                 connects, released, ptab, auxVars>>

(* sys_getsockopt(SOL_SOCKET, SO_ERROR): get_error takes the pending     *)
(* error; the call returns it through optval.                             *)
GetSockOpt(t) ==
  /\ Begin(t, "getsockopt", "idle")
  /\ ret' = [ret EXCEPT ![t] = 0]
  /\ sockErr' = "none"
  /\ Reports(sockErr)
  /\ UNCHANGED <<tcbVars, rx, eof, waiters, histVars, peerVars, net, nonblock,
                 errv, connects, released, ptab, stored, eofSeen>>

(* sys_listen: tcp.set_state(Listen), whatever the state was.            *)
Listen(t) ==
  /\ Begin(t, "listen", "idle")
  /\ tcpState' = "Listen"
  /\ ret' = [ret EXCEPT ![t] = 0]
  /\ UNCHANGED <<sndUna, sndNxt, sndWnd, rcvNxt, irs, rtx, ooo, rstErr,
                 sockVars, histVars, peerVars, net, nonblock, errv, connects,
                 released, ptab, auxVars>>

(* SocketFileOps::release, run when the last file reference is dropped: *)
(* tcp_close.  Calls already inside (holding an Arc<Socket>) go on.       *)
Release(t) ==
  /\ Begin(t, "release", "idle")
  /\ TcpClose /\ UNCHANGED rstErr
  /\ released' = TRUE
  /\ ret' = [ret EXCEPT ![t] = 0]
  /\ UNCHANGED <<sockVars, histVars, peerVars, net, nonblock, errv, connects, ptab,
                 auxVars>>

-----------------------------------------------------------------------------
(* The receive path and the peer, with the histories of the socket layer. *)

RecvStep ==
  /\ TcpRcv
  /\ refPend' = (refPend \/ rstErr' = "ECONNREFUSED")
  /\ UNCHANGED <<sysVars, stored, reported, eofSeen>>

SetErrorStep ==
  /\ TcpRcvSetError
  /\ stored' = stored + 1
  /\ UNCHANGED <<sysVars, refPend, reported, eofSeen>>

PeerDo(A) == A /\ UNCHANGED <<tcbVars, sockVars, histVars, sysVars, auxVars>>

PeerAnswer == PeerSynAck \/ (Refusals /\ PeerRefuse)

PeerStep ==
  PeerDo(\/ PeerAnswer \/ PeerSend \/ PeerFin \/ PeerAckAfterFin \/ PeerReset
         \/ PeerRetransmit)

(* The peer eventually sends the rest of its stream.                       *)
PeerSendData == PeerDo(PeerSend) /\ pSent' > pSent

CallStep(t) ==
  \/ StartRead(t) \/ StartWrite(t) \/ StartConnect(t) \/ Shutdown(t)
  \/ GetSockOpt(t) \/ Listen(t) \/ Release(t) \/ StartPoll(t) \/ Sendto(t)

TaskStep(t) ==
  \/ ReadLoadErr(t) \/ ReadClearErr(t) \/ ReadRx(t) \/ ReadEof(t)
  \/ ReadWait(t) \/ ReadWoken(t)
  \/ WriteLoadErr(t) \/ WriteClearErr(t) \/ WriteSend(t) \/ WriteWait(t)
  \/ WriteWoken(t) \/ WriteRetry(t)
  \/ ConnectCheck(t) \/ ConnectStart(t) \/ ConnectLoop(t)
  \/ ConnectGetError(t) \/ ConnectWait(t) \/ ConnectWoken(t)
  \/ PollRegister(t) \/ PollMask(t) \/ PollSleep(t)

SockNext ==
  \/ RecvStep \/ SetErrorStep \/ PeerStep
  \/ \E t \in Threads : CallStep(t) \/ TaskStep(t)

SockSpec == SockInit /\ [][SockNext]_allVars

(* Tasks are scheduled and the NIC's segments are processed (weak        *)
(* fairness); the peer answers our SYN and, however many pure ACKs it     *)
(* sends in between, eventually sends the rest of its stream and its FIN *)
(* (strong fairness: a full network disables it now and then).  Calls    *)
(* are not forced: an idle task may stay idle.                            *)
FairSpec ==
  /\ SockSpec
  /\ \A t \in Threads : WF_allVars(TaskStep(t))
  /\ WF_allVars(RecvStep) /\ WF_allVars(SetErrorStep)
  /\ SF_allVars(PeerDo(PeerAnswer)) /\ SF_allVars(PeerSendData)
  /\ SF_allVars(PeerDo(PeerFin))

(* FairSpec, and a peer that eventually acknowledges everything we sent,  *)
(* before or after its FIN.                                                *)
PeerAckAll == PeerDo(PeerSend \/ PeerAckAfterFin) /\ pAcked' = sndNxt

WriteFairSpec == FairSpec /\ SF_allVars(PeerAckAll)

-----------------------------------------------------------------------------
SockTypeOK ==
  /\ TypeOK
  /\ nonblock \in BOOLEAN /\ released \in BOOLEAN
  /\ ptab \in [Threads -> SUBSET Queues]
  /\ pc \in [Threads -> PCs]
  /\ errv \in [Threads -> Errors]
  /\ ret \in [Threads -> Results]
  /\ lastOp \in [Threads -> Ops \cup {"none"}]
  /\ calls \in [Threads -> 0..MaxCalls]
  /\ connects \in 0..MaxConnects

ReadPCs    == {"rd_err", "rd_clear", "rd_rx", "rd_eof", "rd_wait", "rd_sleep"}
ConnectPCs == {"cn_check", "cn_start", "cn_loop", "cn_err", "cn_wait",
               "cn_sleep"}
PollPCs    == {"pl_reg", "pl_mask", "pl_sleep"}

(* A sticky error the receive path stores is handed to at most one caller *)
(* (spec 4.5 and 7: consumed by the next read, write or SO_ERROR).  read  *)
(* and write load the error and clear it with a separate store, so two   *)
(* tasks may both see it.                                                 *)
ErrorReportedOnce == reported <= stored

(* A blocking connect that the peer refused returns ECONNREFUSED, unless  *)
(* another call has already reported that refusal: it returns ENOTCONN    *)
(* only when no refusal is pending.                                       *)
ConnectReportsRefusal ==
  [][\A t \in Threads :
       (pc[t] = "cn_err" /\ ret'[t] = -ENOTCONN) => ~refPend]_allVars

(* End of stream is final: once a read has returned 0 after the peer's    *)
(* FIN, no read returns data.                                             *)
EofIsFinal ==
  [][\A t \in Threads : (pc[t] = "rd_rx" /\ pc'[t] = "idle") => ~eofSeen]_allVars

(* A task asleep in read eventually returns: every event that can end    *)
(* the wait (data, the peer's FIN or RST, shutdown) wakes RX.             *)
ReadReturns == \A t \in Threads : pc[t] \in ReadPCs ~> pc[t] = "idle"

(* A task asleep in a blocking connect eventually returns: the handshake *)
(* completing and the refusal both wake the connect queue.                *)
ConnectReturns == \A t \in Threads : pc[t] \in ConnectPCs ~> pc[t] = "idle"

(* A task blocked in poll(2) for input eventually returns: data, the      *)
(* peer's FIN and RST, and shutdown each wake RX or every queue, and poll *)
(* registers on RX and TX before it reads the state it decides on.        *)
PollReturns == \A t \in Threads : pc[t] \in PollPCs ~> pc[t] = "idle"


(* A blocking write eventually returns when the peer acknowledges what we *)
(* sent: write sleeps on TX, which an acceptable ACK wakes.  In CLOSE-WAIT *)
(* process_close_wait ignores ACKs, so a writer blocked when the peer's   *)
(* FIN arrives ahead of the ACK of its data is never woken.               *)
WriteReturns == \A t \in Threads : pc[t] \in WritePCs ~> pc[t] = "idle"

(* Spec 4.5 (sendto / write): when tcp_sendmsg would block on a blocking *)
(* socket the call sleeps on TX and retries, so sendto hands EAGAIN to a  *)
(* blocking caller only after a wait.  sys_sendto never waits.            *)
SendtoBlocks ==
  \A t \in Threads :
    lastOp[t] = "sendto" /\ pc[t] = "idle" /\ ~nonblock => ret[t] # -EAGAIN
=============================================================================
