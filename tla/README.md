# Model checking the hk kernel: TCP/socket stack, Ethernet, namespaces, ext4 and the command line

This directory holds TLA+ models of the hk kernel (`src/kernel`) and the TLC configurations
that check them. `PROJECT.json` records every component, run, mutant, finding and hazard,
and maps each model definition to the source lines it translates.

## The system and what interacts

The kernel's networking part has four layers:

- `net/tcp_input.rs`: `tcp_rcv` and the `process_*` handlers. They take one incoming
  segment and update the TCP control block (TCB). The TCB holds the state, SND.UNA,
  SND.NXT, SND.WND, RCV.NXT, IRS, the retransmit queue and the out-of-order queue. The
  handlers also update the socket: the receive buffer, the EOF flag, the sticky error and
  the three wait queues (rx, tx, connect).
- `tcp.rs` / `tcp_output.rs` (not among the sources, described in spec section 4.4):
  `tcp_connect`, `tcp_sendmsg`, `tcp_close`, and sending segments.
- `net/socket_file.rs`: `read`, `write`, `poll`, `release` on a socket file.
- `net/syscall.rs`: `socket`, `connect`, `bind`, `listen`, `shutdown`, `getsockopt`, ...

Several tasks can call into one socket while the NIC interrupt path runs `tcp_rcv`. Every
shared field is an atomic or a short-held lock. A syscall therefore reads state in several
separate steps, and a segment can be processed between any two of them. This is where
most of the interesting behaviour lies.

The other parts are data-structure code behind locks:

- `net/skb.rs`: the packet buffer, owned by one holder at a time.
- `net/route.rs`: the routing table behind a RwLock.
- `ns/pid.rs`: PID namespaces, with a mutex-protected counter and two RwLock maps per
  namespace, used concurrently by forking and exiting tasks.
- `ns/user.rs`: user namespaces and their uid/gid extent maps.
- `fs/ext4.rs`: the read-only ext4 driver. Mount parses the superblock and the group
  descriptor table. Lookup, readdir, read and readpage read inodes through an inode cache
  and map file blocks through the extent tree. Every block is read with `read_bytes`,
  which copies page-sized chunks out of the block device's page cache.
- `net/ethernet.rs`: Ethernet framing on the packet buffer. `eth_header` pushes the
  14-byte header on a buffer being sent; `eth_type_trans` and `eth_hdr` read it from a
  received one, whose owner then strips it with `pull(14)`. The NIC driver that calls
  them is not among the sources.
- `cmdline.rs`: the boot command line. `parse_cmdline` stores up to four console specs
  and the root device path in two locked statics, which the accessors read. Nothing in
  the sources calls it.

## Modules

### `TcpConn.tla`: one connection's receive path against a peer

- **State:** the TCB fields as variables (`tcpState`, `sndUna`, `sndNxt`, `sndWnd`,
  `rcvNxt`, `irs`, `rtx`, `ooo`), the socket fields (`rx`, `eof`, `sockErr`, `waiters`)
  and the network `net`.
- **Data abstraction:** sequence numbers are kept mod `2^SeqBits`. `SeqAdd`/`SeqSub` are
  `wrapping_add`/`wrapping_sub`. The comparison `< 0x80000000` becomes `< Half`.
  Payload bytes are positions in the peer's stream, so a segment is
  `[seq, len, ack, wnd, syn, fin, rst]`, and `rx` is the sequence of positions
  delivered.
- **Actions:**
  - `TcpRcv` is the whole `tcp_rcv` dispatch (tcp_input.rs 17-102), with one operator
    per handler: `ProcessSynSent`, `ProcessEstablished`, `ProcessFinWait1`, ...
  - The two RST handlers first set `Closed` and only then `set_error`. `TcpRcv` does the
    first step and records the error in `rstErr`. `TcpRcvSetError` is the second step,
    which stores the error and wakes the queues. Between them, another task can run.
  - `TcpConnect`, `TcpSendmsg` and `TcpClose` are modelled from spec section 4.4.
- **The peer (environment)** answers our SYN, sends data and a FIN, resets, and
  retransmits. When `AckAfterFin` is TRUE it also acknowledges our data after its FIN
  (`PeerAckAfterFin`), as a half-closed peer does. `net` is a set when `Ordered = FALSE`, so delivery reorders and
  duplicates. It is a FIFO sequence when `Ordered = TRUE`. Its size is bounded by
  `NetCap`.
- **History variables** (`ourSyn`, `sndBytes`, `rxCount`, `finRcvd`) record what the peer
  has sent and what we have sent. The properties are stated over them.

### `TcpConnection.tla`: what a connection promises

An abstract connection-state machine with three variables. `st` is the RFC 793 state.
`inOpen` says the peer's direction is still open. `delivered` counts the bytes handed to
the socket. Its actions are the transitions of spec 4.4:
- open, establish, and abort out of SYN-SENT;
- a reset out of ESTABLISHED, FIN-WAIT-1 or CLOSE-WAIT;
- delivery, only while ESTABLISHED with the peer's direction open;
- the peer's FIN, our close, and the ACK of our FIN.

`TcpConn` maps onto it with `Conn == INSTANCE TcpConnection WITH st <- tcpState,
inOpen <- ~finRcvd, delivered <- rxCount`. The run `tcp_conn` checks `Conn!Spec` as the
property `ImplementsConnection`. So every handler of `tcp_rcv`, and every close and
connect, moves the state only along these edges. Data is delivered only while the
peer's FIN is unseen, and a FIN is taken only with a matching state change.

### `SocketSyscalls.tla`: the syscalls as interleaved tasks

This module EXTENDS `TcpConn`.

- Each task in `Threads` has a program counter `pc[t]`, with one step per shared access
  in `read`, `write`, `sys_connect`, `sys_shutdown`, `sys_getsockopt`, `sys_listen` and
  `release`. For example, read is `ReadLoadErr`, `ReadClearErr`, `ReadRx`, `ReadEof`,
  `ReadWait`, `ReadWoken`. A check and its use are different steps exactly where the code
  drops a lock or does two separate atomic accesses between them.
- `errv`/`ret` hold the loaded error and the syscall's result, as negated errno integers.
- Each `Begin` is the guard of `get_socket`: the file is not released.
- The network steps are `TcpConn`'s actions, taken between any two task steps.
- **Wait queues** are `WaitQueue`, which is not among the sources. The constant
  `AtomicWait` selects its semantics:
  - TRUE: the task is on the queue from the top of its loop, so no wake is lost.
  - FALSE: the task joins the queue only when it sleeps.
- **sendto** (`Sendto`) is one step: a single `tcp_sendmsg`, with its error returned as
  it is. NetError's `to_errno` is not among the sources, so the errno of a failure other
  than WouldBlock is the value `SendmsgErrno` of its own.
- **poll** (`SocketFileOps::poll`) is entered by a blocking poll(2) for input. The VFS
  loop around it is not among the sources; it is modelled from spec 4.5.
  - `PollRegister`: `poll_wait` puts the task on RX and TX and records them in `ptab[t]`,
    the poll table, before any state is read.
  - `PollMask`: the mask is POLLIN if RX holds data, POLLERR if an error is pending,
    POLLHUP on EOF or in CLOSED and TIME-WAIT. If it is non-empty, poll returns and
    the table is freed. Otherwise the task sleeps.
  - `PollSleep`: the task wakes when a queue of its table was woken, frees the table and
    polls again.
  - POLLOUT is not asked for. A table holding only TX would also be woken in the runs,
    because `process_established` calls `wake_tx` on every acceptable ACK, and the peer
    always acknowledges what it receives.
- Auxiliary variables: `stored`/`reported` count errors stored and reported; `refPend`
  records a refusal not yet stored; `eofSeen` records a read returning 0 after the FIN.

### `Route.tla`: the routing table

- **State:** the table, as a sequence of `[dest, netmask, gateway, dev]` over 3-bit
  addresses. Flags and metric are left out, since `route_lookup` reads neither.
- **Actions:** the three `add_*_route` functions and `clear_routes`. Each is atomic
  under the write lock.
- **Lookup:** `route_lookup` is `RouteLookup`, a `FoldLeftDomain` over the table whose
  step `LookupStep` is the loop body. It is checked against `RefBest`, spec 4.3's
  definition stated with sets.

### `PidNs.tla`: PID namespaces with concurrent tasks

- **Namespaces** are created by `CloneNs` up to `MaxLevel`. They form a tree through
  `parent`.
- **Each task** walks `register_task_pids` and later `unregister_task_pids`, with one
  step per lock:
  - the `alloc_pid` mutex;
  - the `pid_map` and `tid_map` write locks;
  - the reaper lock.
- **Maps** are sets of pairs, and `MapInsert`/`MapRemove` are `BTreeMap` insert and
  remove.
- **Lookups:** `task_pid_nr_ns` (`TaskPidNrNs`), `find_task_by_pid_ns`
  (`FindTaskByPidNs`) and `is_ancestor_of` are operators.

### `UserNs.tla`: user namespaces and id maps

- **Ids** are 3-bit, and `MaxId` plays `u32::MAX`. `SatAdd` is `saturating_add`.
- **Actions:** `clone_ns` and `set_mapping`.
- **Lookups:** `map_id_down`/`map_id_up` are the recursive `FirstHit` scan.
  `to_kuid`/`from_kuid` are one call of those on the namespace's own map, as in the code.
  `ChainDown` is spec 4.7's chained translation, used as the reference.
  `is_ancestor_of` is `AncestorWalk`, the walk up the parent links from the other
  namespace's parent. It is checked against the closure of the parent links
  (`ConnectionsIn` of the community module Graphs, which is Warshall's algorithm and
  is cached by TLC). Relation's `TransitiveClosure` recomputes each level and took
  minutes at four namespaces.
- **History variable:** `everSet` records that `set_mapping` has returned Ok.

### `SkbPacket.tla` and `SkBuff.tla`: the packet buffer and what it promises

- **`SkbPacket` is the abstract specification.** The payload is a byte sequence, and
  `call` names the operation last invoked. Each operation adds, removes or writes
  exactly the bytes it names, or fails leaving the payload alone. Push/put/set_len may
  fail for want of room; pull/trim fail exactly when the payload is too short.
- **`SkBuff` is the implementation.** Its cursors are offsets from `head`, and `buf`
  holds the allocation. The actions are `alloc`, `reserve`, `push`, `pull`, `put`,
  `trim`, `set_len`, writes through `data_mut`, `reset` and `Drop`.
- **The refinement mapping** sends `pkt` to `SubSeq(buf, data+1, tail)`. The property
  `ImplementsPacket` is `SkbPacket`'s specification instantiated with that mapping.
- **`DebugAssertions`** selects whether `reserve`'s `debug_assert!`s are compiled in.

### `Ext4.tla`: the ext4 driver over a disk image

- **Data.** The image is a record. Each on-disk structure (superblock, group descriptor
  words, inodes, extent nodes, directory records) is a record at its device byte address
  (`disk.structs`). A byte is named by its address. A buffer is a sequence of runs
  `[a, n]`: n bytes from address a. `read_bytes` (`ReadBytesFrom`) produces one run per
  page chunk, and `read_unaligned` of a structure at offset o (`StructIn`) is the
  structure at the address of byte o. This keeps every offset, block, page and chunk
  computation of the code, and drops only the bytes' values.
- **Reads past a buffer.** A read of a structure that runs past its buffer sets the
  history variable `oob`.
- **State.** `mounted`, the geometry read from the superblock (`geo`), the descriptors'
  inode-table words (`gdesc`), the inode cache (`icache`, `Ext4SbData::inode_cache`), the
  VFS inodes made so far (`vnode`), and the outcome of the last call (`last`).
- **Actions.** `Mount` (`ext4_mount_dev`), `Lookup`, `Readdir`, `Read` and `Readpage`.
  Each models the whole call, including its `read_inode` cache fill. A call's failure
  leaves what the code leaves. The file position of `read` is an input (`Positions`):
  it belongs to the `File`, which `read` reads and advances.
- **Recursive operators.** These are `Search` (`extent_tree_search`, cut at `MaxDepth`,
  where the kernel's stack would overflow), `DirWalk` and `DirScan` (the record and
  block loops of lookup and readdir), and `ReadChunks` (the chunk loop of read).
- **Bit widths.** TLC's integers are 32-bit. The `_hi` words are weighted by `HiScale`
  (65536) instead of 2^32, which still places any nonzero high half past the device.
- **`MCExt4.tla`.** It lays out images the way mkfs does: two groups of 8 blocks and 8
  inodes, a root directory over two blocks, a file behind a depth-1 extent tree whose
  third block is an unwritten extent and whose fourth is a hole, a fast symlink, and a
  one-block file in the last inode slot of group 1. Each image also records what mkfs
  wrote (every inode, the root's records, each file's blocks). The properties compare
  the driver's answers with that record.

### `Ethernet.tla`: framing on the packet buffer

- **It extends `SkBuff`.** The buffer is the same one: `eth_header` is `push(14)` followed
  by the header's bytes, and the receiver's strip is `SkBuff`'s `Pull(14)`. Byte values
  are kept: the header is the MACs' six bytes each and the EtherType's two big-endian
  bytes (`BeBytes`, `FromBeBytes`). An EtherType is a record: a named variant or
  `Unknown(v)`, with `FromBe` and `ToBe`.
- **Actions.** Sender: `TxFill` (alloc, put, writes), `EthHeader`, `Transmit`. Other
  stations: `Runt`, a frame shorter than a header. Receiver: `Receive`, `EthTypeTrans`,
  `EthHdr`, `RxPull`. Either side: `Drop`.
  - `Transmit`, `Runt`, the copy in `Receive` and the receiver's order (demultiplex,
    then strip) follow spec 3 and 4.2. The driver is not among the sources.
- **History variables.** `txHdr` and the frames' `from` field record what `eth_header`
  was given; `rxFrame` is the frame in the receive buffer.
- **`MCEthernet.tla`** checks spec 8's round trip `from_be(x).to_be() == x` for every u16
  as an `ASSUME`.

### `Cmdline.tla`: the boot command line

- **Data.** An option is abstracted to its key (the prefix that selects a handler:
  `console`, `root`, `usb_trace` or other) and its argument, a sequence of characters.
  `"é"` stands for a two-byte character. A stored byte is a character with its position
  in that character's encoding, so a copy cut inside a character fails `from_utf8`, as
  in the code.
- **State.** `consoles` (`CMDLINE_CONSOLE`), `root` (`CMDLINE_ROOT`), `usbTrace`, and the
  history `given`, the lines parsed so far.
- **Action.** `ParseCmdline` is the whole loop: a `FoldLeft` of `ApplyOption`. The
  statics are never reset, so a second call adds to the first.
- **Operators.** `ParseConsoleOption` and `ParseBaudRate` (saturating at `BaudMax`, the
  stand-in for u32::MAX); `GetRootDevice`, `IsCmdlineConsole` and
  `PrimaryCmdlineConsole`, the accessors.

### MC modules

The MC modules supply model values:

- `MCTcpConn.tla` and `MCSocketSyscalls.tla`: the tasks, and each task's set of
  operations (`ThreadOps`);
- `MCRoute.tla`: the devices;
- `MCPidNs.tla`: the namespaces and tasks, with symmetry over tasks, which are
  interchangeable;
- `MCUserNs.tla`: the extent vectors callers pass;
- `MCSkBuff.tla`: the `alloc` arguments;
- `MCExt4.tla`: the disk images (above);
- `MCEthernet.tla`: the MACs, EtherTypes and buffer sizes;
- `MCCmdline.tla`: three command lines.

## Runs

These are the runs recorded in `PROJECT.json`, which TLC repeats on every check:

| run | expect | what it shows |
|---|---|---|
| `tcp_conn` | pass | With 3-bit sequence numbers that wrap, and a network that reorders and duplicates, `RxIsPrefix` holds: delivered data is exactly a prefix of the peer's stream. `RtxCoversUnacked` holds: every byte sent and not acknowledged stays in a retransmit entry, however late or duplicated the ACKs are (our own sequence numbers stay clear of the wrap here; `tcp_rtx_wrap` shows the wrap). `ImplementsConnection` holds: every step is a step of the abstract `TcpConnection` machine. |
| `tcp_rtx_wrap` | violation | `RtxCoversUnacked`: the retransmit queue is pruned with an unsigned `>` on a wrapped right edge (tcp_input.rs:178), so a duplicate ACK drops unacknowledged data. |
| `socket_live` | pass | `ReadReturns`: a blocked read always returns, under `AtomicWait = TRUE` and fairness. `PollReturns`: a blocking poll for input always returns, because poll registers on its queues before it reads the state. Task `t1` may call connect, read and poll. |
| `socket_calls` | pass | Every operation but poll (sendto included) from two tasks, blocking and nonblocking, with refusals: results and states are well formed (`SockTypeOK`). |
| `socket_error_twice` | violation | `ErrorReportedOnce`: read loads and clears the sticky error non-atomically, so one error is reported twice. In the trace, a read loads the ECONNRESET of a peer reset, connect's `get_error` takes the same error, and the read returns it too. |
| `socket_connect_hang` | violation | `ConnectReturns`: connect sleeps forever when the connection moves past Established (to CLOSE-WAIT etc.) before it re-checks. |
| `route_lookup` | pass | For every table of up to three routes, `route_lookup` agrees with the longest-prefix reference (`LookupIsLongestPrefix`). This covers tie-breaking by insertion order and the next hop. |
| `pid_ns_exhausted` | pass | With `pid_max` reached, `PidTypeOK` holds: counters stay in range. `ExitLeavesNoTrace` holds: an exited task leaves no map entry, even one registered in only some namespaces. `PidLookupAgrees` holds: for every running task, `find_task_by_pid_ns` on the pid `task_pid_nr_ns` gives names that task alone, in every namespace. This is spec 5's "no reuse within a namespace", seen through the lookups. |
| `user_ns` | pass | `MapsRoundTrip`: for disjoint, in-range maps whose parent ids stop short of `u32::MAX`, `map_id_up` inverts `map_id_down` everywhere. The extent that reaches `u32::MAX` is `user_parent_edge`'s counterexample. `AncestorIsParentClosure`: `is_ancestor_of` holds exactly for proper ancestors, at every depth the tree reaches. |
| `skb` | pass | `CursorOrder` and `ImplementsPacket`: every call sequence keeps the cursors ordered, and the buffer refines the abstract payload. |
| `ext4` | pass | On images with 1K and 2K blocks, 64-byte descriptors and 256-byte inodes, plus a bad magic and an ENCRYPT image, every sequence of mount, lookup, readdir, read and readpage: `MountAsSpecified` (mount accepts exactly what spec 4.6 accepts), `ReadReturnsFileBytes` (read and readpage return the file's bytes, and fail on a hole), `DirOpsMatchListing` (readdir and lookup see the records in order across both blocks), `InodeCacheCoherent` (every cached inode is the one on disk) and `NoOutOfBoundsRead`. |
| `ext4_desc32` | violation | `MountAsSpecified`: with 32-byte group descriptors, `bg_inode_table_hi` is read from the next descriptor, and mount fails with IoError (ext4.rs:564). |

## Further configurations

These configurations are kept beside the recorded runs (`tlc -config X.cfg MCModule`).
Most are reproducers of a disagreement between the code and spec.md or a code comment,
met while modelling. Each checks one property, and TLC finds it violated.

Three are passing checks:
- `pid_ns`: with PIDs to spare, `VisibleInAncestors` holds.
- `eth` and `cmdline`: these check the Ethernet and command-line modules. The recorded
  runs are limited to twelve, and those are spent on the components with findings.
  Their mutants are listed below and were checked in the same way.

| cfg | expect | what it shows |
|---|---|---|
| `tcp_half_close` | violation | `FinMeansStreamComplete`: in FIN-WAIT-1 the peer's data is ignored while its FIN is accepted, so EOF is reported with bytes missing. |
| `tcp_last_ack` | violation | `LastAckClosesOnFinAck`: the peer has sent its FIN, and we send a byte in CLOSE-WAIT. The peer acknowledges it, and we close. That ACK, which does not cover our FIN, then moves LAST-ACK to CLOSED (tcp_input.rs:306), although the code's comment says "Our FIN was ACKed". The code follows spec 4.4's "If ACK: Closed". |
| `socket_connect_refused` | violation | `ConnectReportsRefusal`: a blocking connect returns ENOTCONN instead of ECONNREFUSED, because `Closed` is set before the error. |
| `socket_eof_race` | violation | `EofIsFinal`: read returns 0, then the next read returns data. |
| `socket_lost_wakeup` | violation | `ReadReturns` fails with `AtomicWait = FALSE`: a wake between read's check and its sleep is lost. |
| `socket_read_refused` | violation | `ReadReturns` fails when the peer refuses: a reader blocked on the connecting socket is never woken. |
| `socket_listen_strands` | violation | `ReadReturns` fails when one task calls listen and the other reads: `sys_listen` sets LISTEN from any state (syscall.rs:244), TCP input ignores every segment in LISTEN, and nothing wakes RX, so the reader sleeps forever. spec.md's listen and read rows say the same, so the spec has this gap too. |
| `socket_sendto_eagain` | violation | `SendtoBlocks`: spec 4.5 has sendto, like write, sleep on TX and retry when `tcp_sendmsg` would block. `sys_sendto` (syscall.rs:380) calls it once and hands a blocking caller EAGAIN. It also skips the sticky error check that write makes. |
| `socket_write_hang` | violation | `WriteReturns` fails: the peer sends its FIN, and we write a byte in CLOSE-WAIT that the peer then acknowledges. `process_close_wait` drops that ACK, so SND.UNA stays put, and a second write finds the one-byte window full and sleeps on TX forever (tcp_input.rs:296). Spec 4.4's CLOSE-WAIT row also handles only RST, so the spec has the same gap. `SendLen = 2`, `PeerLen = 0`, `WriteFairSpec`. |
| `route_gateway` | violation | `GatewayReachable`: a gateway route is accepted with no route reaching its gateway. |
| `pid_ns` | pass | `VisibleInAncestors`: with enough PIDs, a task for which `register_task_pids` returned has a PID in its namespace and every ancestor, while others fork and exit. |
| `user_overlap` | violation | `MapsRoundTrip`: overlapping or saturating extents are accepted, and two ids map to one. |
| `user_nested` | violation | `ToKuidReachesInit`: `to_kuid` translates one level only. |
| `user_set_once` | violation | `MappingSetOnce`: after an empty `set_mapping`, the map can be set again. |
| `user_identity` | violation | `RootMapsEveryId`: the identity map leaves `u32::MAX` unmapped. |
| `user_parent_edge` | violation | `MapsRoundTrip`: a disjoint, in-range extent whose parent ids end at `u32::MAX` (`Ext(0, 6, 2)` at 3 bits) breaks the round trip. `map_id_down` sends id 1 to 7, but `map_id_up`'s bound `lower_first.saturating_add(count)` saturates to 7 and excludes it, so `map_id_up(7)` is None. |
| `pid_ancestor_skip` | violation | `VisibleInAncestors`: an exhausted ancestor is skipped silently, `register_task_pids` returns Ok, and the live task is invisible to the root (pid.rs:241). |
| `skb_release_reserve` | violation | `CursorOrder`: in a release build, `reserve` checks nothing and moves `data` and `tail` past `end` (skb.rs:216). |
| `eth` | pass | `FrameRoundTrip` (MCEthernet, 85,407 states): what the receiver gets from `eth_type_trans`, from `eth_hdr` and, after `pull(14)`, from the payload, is what the sender passed to `eth_header`. A 13-byte or empty runt gives `Unknown(0)` and no header. |
| `cmdline` | pass | `ParsedAsSpecified` (MCCmdline): over up to three calls, the stored consoles, baud rates and root path are spec 6's reading of every option given so far. This covers the cap of four across calls, the first comma, 16- and 64-byte cuts, and saturation. |
| `cmdline_primary` | violation | `PrimaryIsLast`: the module comment says the last console= is the primary; after four, later ones are dropped and the fourth is the primary (cmdline.rs:144). |
| `cmdline_root_utf8` | violation | `RootDeviceReported`: a root path whose 64-byte cut falls inside a two-byte character makes `get_root_device` return None, as if root= were absent (cmdline.rs:92). |
| `ext4_small_inode` | violation | `NoOutOfBoundsRead`: with 128-byte inodes (revision 0), `read_inode` reads a 160-byte `Ext4Inode` from the last slot of a block, 32 bytes past the block (ext4.rs:571). |

The findings of the recorded violation runs are explained in `PROJECT.json` ("findings").

Each property of a passing run has a mutant in `PROJECT.json`: a plausible bug in a mapped
definition that TLC shows the property catches. The mutants are:

- the ACK range check dropped;
- in-order delivery accepting overlapping segments;
- the out-of-order check missing the length;
- `process_fin_wait2` taking the FIN without moving to TIME-WAIT;
- `read` ignoring the EOF flag;
- `poll` called without a poll table, so it never registers on a queue;
- get_error returning a positive errno;
- a `>=` tie in `route_lookup`;
- `alloc_pid` allowing `next = pid_max`;
- `unregister` removing a stale pid;
- the ancestor walk registering the owning namespace's pid instead of a fresh
  `alloc_pid` (the code's "for simplicity" note is on this line);
- `map_id_up` searching the wrong side of the extents;
- `push` without its headroom check;
- `set_len` trimming by the target length;
- ENCRYPT missing from the unsupported-feature mask;
- read not clamping the length to the bytes left in the file;
- `is_ancestor_of` starting its walk at the other namespace instead of its parent;
- `ext4_file_type_to_vfs` missing the symlink arm;
- `read_inode` without the `- 1` on the inode number;
- `read_inode` without the `% block_size` on the offset.

The further configurations `eth` and `cmdline` were checked against these mutants, each
found by TLC:
- `FrameRoundTrip`: little-endian EtherType bytes; `eth_type_trans` reading bytes 11 and
  12; header bytes read from `head` instead of `data`; `eth_type_trans` testing
  `len >= 12`.
- `ParsedAsSpecified`: the console cap tested with `>`; a wrapping baud loop; the
  device split at the last comma.

## Bounds and why they suffice

- **`SeqBits = 3`:** eight sequence numbers. `PeerISS = 6` is chosen so that the peer's
  SYN, two bytes and FIN cross the wrap point. Our `ISS` is 5 in `tcp_rtx_wrap` and the
  socket runs, so our data crosses it too, and 0 in `tcp_conn`, whose `RtxCoversUnacked`
  would otherwise fail on the wrap bug that `tcp_rtx_wrap` records. A window of 2 is a quarter
  of the space, so the "future" test (`< Half`) both accepts and rejects.
- **`NetCap = 2`** with an unordered net gives every reordering of two segments, and
  duplicates through `PeerRetransmit` (`MaxRetx = 1`).
- **Socket runs:** two tasks and one-byte streams (`PeerLen = SendLen = BufLen = 1`).
  These suffice for every race found: each needs one segment to land between two steps
  of one task. `MaxCalls = 2` calls per task let a second call see the first one's
  leftovers, such as the sticky error or EOF.
- **`socket_calls`:** `NetCap = 1` and `AckAfterFin = FALSE` keep it at 1.7M states,
  with both blocking modes, every `how`, and refusals. It takes about three and a half
  minutes. Both tasks may make every call but poll, so they are
  interchangeable, and the run declares symmetry over them (`MCSymmetry`). Its
  invariants say nothing about a particular task, so symmetry is sound. Poll is left out
  because it would take the run past five minutes. ACKs after the peer's FIN are
  checked in `tcp_conn` and `socket_live`.
- **Route:** 3-bit addresses with destinations {0, 4, 5}, masks /0, /1, /2 and /3 (the
  host mask), and three routes. This covers nested prefixes, equal-length ties, a
  default route and host routes.
- **PidNs:** three namespaces (up to three levels deep) and three tasks.
  - `pid_max = 4` lets every task get a PID everywhere.
  - `pid_max = 3` makes the root run out while a child still has PIDs.
- **UserNs:** 3-bit ids and four namespaces, nested up to three deep, so the ancestor
  check meets chains of three parent links. The extent vectors are chosen per run:
  - valid ones: disjoint and in range, among them one that ends at `MaxId` on both
    sides, and one whose extents are listed in the reverse order of their parent ids;
  - overlapping or saturating ones;
  - a shifting map;
  - the empty vector followed by a real one;
  - one whose parent ids end at `MaxId` (`user_parent_edge`).

  `user_ns` leaves that last kind out: its failure is the reproducer's.
- **SkBuff:** `MAX_SKB_SIZE = 6` with one- to three-byte operations, resets to
  headroom 0 and 2, and two byte values. Every cursor boundary is hit: empty, full
  headroom, full tailroom, an `alloc` that fills the buffer, and one that is too large.
  The resets fit every allocation; a reset past the end is hazard skb.rs:310.
- **Ext4:** each image has one block group boundary (inode 16 is in group 1), one index
  level, an unwritten extent, a hole and a directory across two blocks.
  - The 1K-block images put the superblock in block 1, where `first_data_block = 1`
    moves the descriptor table. The 2K image has `first_data_block = 0`. Both block
    sizes are below `PAGE_SIZE`, so `readpage` copies a partial page.
  - Reads of 1100 bytes at positions 0, 1000 and 3100 cross a block boundary, end at
    the end of the file, and meet the hole.
  - Lookup of "a", "b", "c" and a missing name, and readdir budgets 2 and 9, stop the
    callback early or let it run to the end.

- **Ethernet:** `MAX_SKB_SIZE = 17`. This fits a 16-byte frame (14-byte header and 2
  bytes of payload), and `RxPad = 1` (NET_SKB_PAD scaled down) puts the received data
  one byte past `head`. With 14 bytes of headroom the header fits exactly; with 13,
  `push(14)` fails. Three MACs (broadcast, multicast, unicast) and three EtherTypes
  (IPv4; VLAN, whose high byte is 0x81; and Unknown(0x1234)) make each byte of the
  header matter. Runts of 0 and 13 bytes sit on either side of the length check. One
  frame is on the wire at a time.
- **Cmdline:** `BaudMax = 65535` stands in for u32::MAX. A 6-digit baud then saturates,
  as an 11-digit one does in the code. Devices of 17 bytes and of 15 + 2 bytes cross
  the 16-byte cut; paths of 70 and 63 + 2 bytes cross the 64-byte cut.

## Fairness

Only the socket runs check liveness. The other modules are checked for safety only.
`FairSpec` assumes:

- **Weak fairness of every task step, `RecvStep` and `SetErrorStep`.** The scheduler runs
  ready tasks, and the interrupt path processes segments that are in the network.
- **Strong fairness of the peer answering our SYN, sending data, and sending its FIN.**
  A full network disables them intermittently. These are assumptions on the environment:
  a live peer eventually delivers its stream.
- **`WriteFairSpec`**, used by `socket_write_hang` only, adds strong fairness of the
  peer acknowledging everything we sent (`PeerAckAll`), before or after its FIN. Without
  it a blocked writer may wait on a peer that never acknowledges.
- Nothing fair is assumed of resets, retransmissions, `shutdown`, `listen` or `release`,
  which may never happen.

## Not modelled, and why

- **Segment construction, checksums, header parsing, the connection table lookup.**
  These only drop malformed segments before any state is read.
- **Output segments and the retransmission timer.** `tcp_output.rs` is not among the
  sources. The peer sees our data only through the ACK numbers it chooses from what we
  have sent.
- **`bind`, `accept`, `getsockname`, `getpeername`, `setsockopt`, `recvfrom`.** These
  change no modelled state, or delegate to `socket.rs`.
- **Listening sockets and accept queues.** The code has none; `accept` returns EAGAIN.
- **SkBuff protocol tags, header offsets, device and DMA fields.** These are attribute
  stores for other layers. The header helpers (`set_*_header`, `network_header()` and
  the rest) are called nowhere in the sources.
- **The GID map.** It is the same code as the UID map.
- **`can_set_uid_gid_map`.** It reads the current task's credentials and is called
  nowhere in the sources.
- **`is_multicast`, `format_mac`, `cmdline_console_count`, `get_cmdline_console`.** These
  only read state or format bytes for printing.
- **The doc comment of `eth_type_trans`.** It says the function sets `skb.protocol` and
  advances `data`. It does neither, which is what spec 4.2 says, and `skb.protocol` is
  left at `Unknown(0)`. The model follows the code and has the receiver strip the header.

- **Ext4: the address space ops, writepage, and what the page cache does.** The page
  cache (`find_or_create_page`) and the block driver's `readpage` are outside
  `src/kernel/fs`. A page frame is modelled as holding the device bytes of its page,
  and a page beyond the device's capacity as failing.
- **Ext4: corrupt images.** These include a cyclic extent tree, an extent count beyond
  the node, and a zero `blocks_per_group`. The model has their error paths (overflow,
  `oob`, panic), but the images are the ones mkfs writes: each of these breaks every
  call on the image at once, not through an order of calls.

## Plan for further modules

In this order:

1. Liveness of connection close is not stated. Spec 4.4 lets the TIME-WAIT timer be
   deferred, and CLOSING has no handler, so such a property would only restate the
   spec. It becomes worth checking once a timer exists.
2. A recorded run for `eth` or `cmdline`, if a slot frees up.
3. `bind`, `getsockname`, `getpeername` and `recvfrom`, once `socket.rs` and `tcp.rs`
   are among the sources. They store and read the addresses that `set_local` and
   `tcp_connect` keep there, and `recvfrom` goes through `Socket::read`.
