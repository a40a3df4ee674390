------------------------------- MODULE Ext4 --------------------------------
(***************************************************************************)
(* The read-only ext4 driver of src/kernel/fs/ext4.rs: mount, the inode    *)
(* cache, the extent-tree search, lookup, readdir, read and readpage.      *)
(*                                                                         *)
(* Data abstraction.  A byte is identified by its device address: a block  *)
(* read returns the sequence of the addresses it covers, so a file read    *)
(* returns the addresses its bytes came from.  An on-disk structure        *)
(* (superblock, half of a group descriptor, inode, extent node, directory  *)
(* record) is a record placed at the address where it starts: a           *)
(* read_unaligned at offset o of a buffer yields the structure at the      *)
(* address buf[o + 1], and zeros where the image holds none.  The 64-bit   *)
(* high words are scaled by HiScale instead of 2^32.                       *)
(***************************************************************************)
EXTENDS Integers, Sequences, FiniteSets, TLC

CONSTANTS
    Images,          \* disk images the block device may hold
    PageSize,        \* PAGE_SIZE
    HiScale,         \* weight of a _hi word (2^32 in the code)
    ReadLens,        \* buffer lengths passed to read
    Positions,       \* positions of the open file at a read (File::get_pos)
    LookupNames,     \* names passed to lookup
    ReaddirBudgets,  \* entries the readdir callback accepts before it returns false
    Pages            \* page indices passed to readpage

SuperMagic == 61267         \* EXT4_SUPER_MAGIC 0xEF53
ExtMagic == 62218           \* EXT4_EXT_MAGIC 0xF30A
ExtentsFl == 524288         \* EXT4_EXTENTS_FL 0x00080000
RootIno == 2                \* EXT4_ROOT_INO
SuperOffset == 1024         \* EXT4_SUPER_OFFSET
UnsupportedNoEncrypt == {1, 8, 32768}
Unsupported == {1, 8, 32768, 65536}  \* COMPRESSION, JOURNAL_DEV, INLINE_DATA, ENCRYPT
GdStructSize == 64          \* size_of::<Ext4GroupDesc>()
InodeStructSize == 160      \* size_of::<Ext4Inode>()
ExtHdrSize == 12            \* size_of::<Ext4ExtentHeader>(), and of an entry
DirHdrSize == 8             \* size_of::<Ext4DirEntry2>()
IBlockLen == 60             \* the i_block region
NoNext == 2^30              \* u64::MAX as the last index's right edge
MaxDepth == 8               \* recursion bound: deeper is a stack overflow

Ok == "ok"

VARIABLES
    disk,     \* the image on the block device
    mounted,  \* ext4_mount_dev has returned Ok
    geo,      \* Ext4SbData's derived geometry
    gdesc,    \* group_descs: inode table block of each group
    icache,   \* inode_cache: ino -> Ext4Inode
    vnode,    \* VFS inodes created: ino -> [size, mode] taken at creation
    oob,      \* history: some read_unaligned read past the end of its buffer
    last      \* history: the last operation, its arguments and its result

vars == <<disk, mounted, geo, gdesc, icache, vnode, oob, last>>

Zero == [magic |-> 0, entries |-> 0, depth |-> 0, items |-> <<>>,
         inode |-> 0, rec_len |-> 0, name_len |-> 0, name |-> "", file_type |-> 0,
         word8 |-> 0, mode |-> 0, size |-> 0, flags |-> 0, iblock |-> 0,
         ee_block |-> 0, ee_len |-> 0, ee_start |-> 0, ei_block |-> 0, ei_leaf |-> 0]

(* The structure starting at device address a. *)
At(a) == IF a \in DOMAIN disk.structs THEN disk.structs[a] ELSE Zero

Fail(e) == [err |-> e, oob |-> FALSE]
FirstIdx(S) == CHOOSE i \in S : \A j \in S : i <= j

(* A buffer is a sequence of runs [a, n]: n bytes from device address a. *)
RECURSIVE RLen(_)
RLen(rs) == IF rs = <<>> THEN 0 ELSE Head(rs).n + RLen(Tail(rs))

(* The device address of byte o (from 0) of a buffer. *)
RECURSIVE AddrAt(_, _)
AddrAt(rs, o) ==
    CASE rs = <<>> -> -1   \* past the buffer: heap memory, read as zeros
      [] o < Head(rs).n -> Head(rs).a + o
      [] OTHER -> AddrAt(Tail(rs), o - Head(rs).n)

(* cnt bytes of a buffer from byte o, as runs. *)
RECURSIVE Slice(_, _, _)
Slice(rs, o, cnt) ==
    IF cnt = 0 THEN <<>>
    ELSE IF o >= Head(rs).n THEN Slice(Tail(rs), o - Head(rs).n, cnt)
    ELSE LET k == IF Head(rs).n - o < cnt THEN Head(rs).n - o ELSE cnt
         IN  <<[a |-> Head(rs).a + o, n |-> k]>> \o Slice(Tail(rs), 0, cnt - k)

(* read_bytes: the copy loop through page-cache pages, one run per chunk.  *)
(* A page's frame holds the device bytes of that page (find_or_create_page *)
(* and the driver's readpage, which are outside src/).                     *)
RECURSIVE ReadBytesFrom(_, _)
ReadBytesFrom(pos, remaining) ==
    IF remaining = 0 THEN <<>>
    ELSE LET page == pos \div PageSize
             inPage == pos % PageSize
             chunk == IF remaining < PageSize - inPage THEN remaining ELSE PageSize - inPage
         IN  <<[a |-> page * PageSize + inPage, n |-> chunk]>>
             \o ReadBytesFrom(pos + chunk, remaining - chunk)

(* read_block with block size bs: a page beyond the device's capacity    *)
(* cannot be created, which surfaces as IoError.                            *)
BlockOk(bs, b) == (b + 1) * bs <= disk.capacity
ReadBlock(bs, b) == ReadBytesFrom(b * bs, bs)

(* read_unaligned of a structure at offset o of buffer buf; it reads past *)
(* the buffer when o + size exceeds its length.                            *)
StructIn(buf, o) == At(AddrAt(buf, o))
Past(buf, o, size) == o + size > RLen(buf)

(* read_superblock: validation and the derived geometry. *)
HasBit(x, b) == (x \div b) % 2 = 1
ReadSuperblock ==
    LET sb == At(SuperOffset)
        bs == 1024 * 2^sb.log_block_size   \* the u32 shift cannot wrap for the images here
        total == sb.blocks_count_hi * HiScale + sb.blocks_count_lo
    IN  CASE sb.magic # SuperMagic -> Fail("io")
          [] \E b \in Unsupported : HasBit(sb.feature_incompat, b) -> Fail("notsup")
          [] sb.blocks_per_group = 0 -> Fail("panic")
          [] OTHER ->
             [err |-> Ok, oob |-> FALSE,
              geo |-> [block_size |-> bs,
                       inode_size |-> IF sb.rev_level = 0 THEN 128 ELSE sb.inode_size,
                       ipg |-> sb.inodes_per_group,
                       group_count |-> (total + sb.blocks_per_group - 1) \div sb.blocks_per_group,
                       desc_size |-> IF sb.desc_size = 0 THEN 32 ELSE sb.desc_size,
                       fdb |-> sb.first_data_block]]

(* load_group_descs: descriptor g is read as a whole Ext4GroupDesc at     *)
(* (g % per block) * desc_size of its block, so bg_inode_table_hi is the   *)
(* u32 at byte 8 of the 32 bytes that follow the low half.                 *)
(* The high half past the end of the block is heap memory: the read is    *)
(* flagged by oob and its value taken as 0.                                *)
HighWord(buf, o) == IF o + 32 < RLen(buf) THEN StructIn(buf, o + 32).word8 ELSE 0
LoadGroupDescs(G) ==
    LET dpb == G.block_size \div G.desc_size
        Blk(g) == G.fdb + 1 + g \div dpb
        Off(g) == (g % dpb) * G.desc_size
        Gs == 0 .. G.group_count - 1
    IN  CASE Gs # {} /\ dpb = 0 -> Fail("panic")
          [] \E g \in Gs : ~BlockOk(G.block_size, Blk(g)) -> Fail("io")
          [] OTHER ->
             LET Buf(g) == ReadBlock(G.block_size, Blk(g))
             IN  [err |-> Ok,
                  oob |-> \E g \in Gs : Past(Buf(g), Off(g), GdStructSize),
                  descs |-> [g \in 1 .. G.group_count |->
                               StructIn(Buf(g - 1), Off(g - 1)).word8
                               + HiScale * HighWord(Buf(g - 1), Off(g - 1))]]

(* read_inode, past the cache: group, index, block and offset, then the   *)
(* unaligned read of a whole Ext4Inode.                                    *)
ReadInodeDiskNoDec(G, D, ino) ==
    LET group == ino \div G.ipg
        index == ino % G.ipg
        blk == D[group + 1] + (index * G.inode_size) \div G.block_size
        off == (index * G.inode_size) % G.block_size
    IN  CASE group >= Len(D) -> Fail("io")
          [] ~BlockOk(G.block_size, blk) -> Fail("io")
          [] OTHER -> LET buf == ReadBlock(G.block_size, blk)
                      IN  [err |-> Ok, inode |-> StructIn(buf, off),
                           oob |-> Past(buf, off, InodeStructSize)]
ReadInodeDiskNoMod(G, D, ino) ==
    LET group == (ino - 1) \div G.ipg
        index == (ino - 1) % G.ipg
        blk == D[group + 1] + (index * G.inode_size) \div G.block_size
        off == index * G.inode_size
    IN  CASE group >= Len(D) -> Fail("io")
          [] ~BlockOk(G.block_size, blk) -> Fail("io")
          [] OTHER -> LET buf == ReadBlock(G.block_size, blk)
                      IN  [err |-> Ok, inode |-> StructIn(buf, off),
                           oob |-> Past(buf, off, InodeStructSize)]
ReadInodeDisk(G, D, ino) ==
    LET group == (ino - 1) \div G.ipg
        index == (ino - 1) % G.ipg
        blk == D[group + 1] + (index * G.inode_size) \div G.block_size
        off == (index * G.inode_size) % G.block_size
    IN  CASE group >= Len(D) -> Fail("io")
          [] ~BlockOk(G.block_size, blk) -> Fail("io")
          [] OTHER -> LET buf == ReadBlock(G.block_size, blk)
                      IN  [err |-> Ok, inode |-> StructIn(buf, off),
                           oob |-> Past(buf, off, InodeStructSize)]

(* read_inode: a cache hit, or a disk read that the caller caches. *)
GetInode(G, D, C, ino) ==
    IF ino \in DOMAIN C THEN [err |-> Ok, inode |-> C[ino], oob |-> FALSE]
    ELSE ReadInodeDisk(G, D, ino)
Cached(C, ino, r) == IF r.err = Ok THEN (ino :> r.inode) @@ C ELSE C

(* extent_tree_search: a leaf scans its extents, an index node follows    *)
(* the entry whose range [ei_block, next ei_block) holds the block.  The  *)
(* header's entry count is trusted; d counts the recursion.                *)
RECURSIVE Search(_, _, _, _)
Search(node, buflen, lb, d) ==
    LET n == node.entries
        Item(i) == IF i <= Len(node.items) THEN node.items[i] ELSE Zero
        past == ExtHdrSize * (n + 1) > buflen
        Leaf == {i \in 1 .. n : lb >= Item(i).ee_block
                               /\ lb < Item(i).ee_block + (Item(i).ee_len % 32768)}
        NextEdge(i) == IF i + 1 <= n THEN Item(i + 1).ei_block ELSE NoNext
        Idx == {i \in 1 .. n : lb >= Item(i).ei_block /\ lb < NextEdge(i)}
    IN  CASE node.magic # ExtMagic -> Fail("io")
          [] node.depth = 0 /\ Leaf = {} -> [err |-> "notfound", oob |-> past]
          [] node.depth = 0 ->
             LET e == Item(FirstIdx(Leaf))
             IN  [err |-> Ok, oob |-> past, phys |-> e.ee_start + lb - e.ee_block]
          [] Idx = {} -> [err |-> "notfound", oob |-> past]
          [] ~BlockOk(geo.block_size, Item(FirstIdx(Idx)).ei_leaf) -> Fail("io")
          [] d >= MaxDepth -> Fail("overflow")
          [] OTHER ->
             LET child == ReadBlock(geo.block_size, Item(FirstIdx(Idx)).ei_leaf)
                 r == Search(StructIn(child, 0), RLen(child), lb, d + 1)
             IN  [r EXCEPT !.oob = @ \/ past]

(* extent_map_block: only inodes with EXT4_EXTENTS_FL are mapped. *)
ExtentMapBlock(inode, lb) ==
    IF ~HasBit(inode.flags, ExtentsFl) THEN Fail("notsup")
    ELSE Search(inode.iblock, IBlockLen, lb, 0)

(* ext4_file_type_to_vfs *)
FileTypeToVfsNoSymlink(ft) ==
    CASE ft = 2 -> "dir" [] ft = 3 -> "chr" [] ft = 4 -> "blk"
      [] ft = 5 -> "fifo" [] ft = 6 -> "sock" [] OTHER -> "reg"
FileTypeToVfs(ft) ==
    CASE ft = 2 -> "dir" [] ft = 7 -> "symlink" [] ft = 3 -> "chr" [] ft = 4 -> "blk"
      [] ft = 5 -> "fifo" [] ft = 6 -> "sock" [] OTHER -> "reg"

(* The record loop over one directory block: stop at inode 0, rec_len 0  *)
(* or the block's end; the name slice panics past the block.  Entries     *)
(* before an error are kept, since lookup and readdir see them first.     *)
(* acc carries the records seen so far, the error and the oob flag.       *)
RECURSIVE DirWalk(_, _, _)
DirWalk(buf, off, acc) ==
    IF off >= RLen(buf) THEN acc
    ELSE LET e == StructIn(buf, off)
             seen == [acc EXCEPT !.oob = @ \/ Past(buf, off, DirHdrSize)]
         IN  CASE e.inode = 0 \/ e.rec_len = 0 -> seen
               [] off + DirHdrSize + e.name_len > RLen(buf) -> [seen EXCEPT !.err = "panic"]
               [] OTHER ->
                  DirWalk(buf, off + e.rec_len,
                          [seen EXCEPT !.ents = @ \o <<[ino |-> e.inode, name |-> e.name,
                                                        type |-> FileTypeToVfs(e.file_type)]>>])

(* The loop over a directory's blocks b .. nb - 1 shared by lookup and    *)
(* readdir: each is mapped through the extent tree and read; the first    *)
(* error ends it.                                                          *)
RECURSIVE DirScan(_, _, _, _)
DirScan(inode, b, nb, acc) ==
    IF b >= nb \/ acc.err # Ok THEN acc
    ELSE LET m == ExtentMapBlock(inode, b)
             acc1 == [acc EXCEPT !.oob = @ \/ m.oob]
         IN  CASE m.err # Ok -> [acc1 EXCEPT !.err = m.err]
               [] ~BlockOk(geo.block_size, m.phys) -> [acc1 EXCEPT !.err = "io"]
               [] OTHER -> DirScan(inode, b + 1, nb,
                                   DirWalk(ReadBlock(geo.block_size, m.phys), 0, acc1))
NoEnts == [err |-> Ok, ents |-> <<>>, oob |-> FALSE]

NumBlocks(size) == (size + geo.block_size - 1) \div geo.block_size

(* The chunk loop of Ext4FileOps::read from byte cur: each chunk stays in *)
(* one block; any error fails the whole read.                              *)
RECURSIVE ReadChunks(_, _, _)
ReadChunks(inode, cur, remaining) ==
    IF remaining = 0 THEN [err |-> Ok, data |-> <<>>, oob |-> FALSE]
    ELSE LET bs == geo.block_size
             oib == cur % bs
             chunk == IF bs - oib < remaining THEN bs - oib ELSE remaining
             m == ExtentMapBlock(inode, cur \div bs)
         IN  CASE m.err # Ok -> [err |-> m.err, data |-> <<>>, oob |-> m.oob]
               [] ~BlockOk(bs, m.phys) -> [err |-> "io", data |-> <<>>, oob |-> m.oob]
               [] OTHER ->
                  LET r == ReadChunks(inode, cur + chunk, remaining - chunk)
                  IN  [r EXCEPT !.data = Slice(ReadBlock(bs, m.phys), oib, chunk) \o @,
                                !.oob = @ \/ m.oob]

-----------------------------------------------------------------------------
NoFn == [x \in {} |-> 0]
Res(op, ino, arg, pos, err, found, data) ==
    [op |-> op, ino |-> ino, arg |-> arg, pos |-> pos, err |-> err, found |-> found, data |-> data]
IsDir(mode) == (mode \div 4096) % 16 = 4   \* S_IFDIR, InodeMode::is_dir

Init ==
    /\ disk \in Images
    /\ mounted = FALSE
    /\ geo = [block_size |-> 0]
    /\ gdesc = <<>>
    /\ icache = NoFn /\ vnode = NoFn
    /\ oob = FALSE
    /\ last = Res("none", 0, 0, 0, Ok, 0, <<>>)

(* create_vfs_inode: read the inode (through the cache) and make the VFS  *)
(* inode with its size and mode.                                           *)
CreateVfsInode(G, D, C, ino, r) ==
    /\ icache' = Cached(C, ino, r)
    /\ vnode' = (ino :> [size |-> r.inode.size, mode |-> r.inode.mode]) @@ vnode

(* ext4_mount_dev: read_superblock, load_group_descs, then the root inode; *)
(* any failure drops the half-built superblock data.                       *)
Mount ==
    LET s == ReadSuperblock
        g == LoadGroupDescs(s.geo)
        r == ReadInodeDisk(s.geo, g.descs, RootIno)
        err == CASE s.err # Ok -> s.err [] g.err # Ok -> g.err [] OTHER -> r.err
    IN  /\ ~mounted
        /\ last' = Res("mount", RootIno, 0, 0, err, 0, <<>>)
        /\ oob' = (oob \/ s.oob \/ (s.err = Ok /\ g.oob)
                        \/ (s.err = Ok /\ g.err = Ok /\ r.oob))
        /\ IF err = Ok
           THEN /\ mounted' = TRUE /\ geo' = s.geo /\ gdesc' = g.descs
                /\ CreateVfsInode(s.geo, g.descs, NoFn, RootIno, r)
           ELSE UNCHANGED <<mounted, geo, gdesc, icache, vnode>>
        /\ UNCHANGED disk

(* Ext4InodeOps::lookup: read the directory's inode, scan its blocks and  *)
(* make the VFS inode of the first record with the name.                   *)
Lookup(dir, name) ==
    LET d == GetInode(geo, gdesc, icache, dir)
        sc == DirScan(d.inode, 0, NumBlocks(d.inode.size), NoEnts)
        hits == {k \in 1 .. Len(sc.ents) : sc.ents[k].name = name}
        ino == sc.ents[FirstIdx(hits)].ino
        C1 == Cached(icache, dir, d)
        r == GetInode(geo, gdesc, C1, ino)
        err == CASE d.err # Ok -> d.err [] hits = {} /\ sc.err # Ok -> sc.err
                 [] hits = {} -> "notfound" [] OTHER -> r.err
    IN  /\ mounted /\ dir \in DOMAIN vnode /\ IsDir(vnode[dir].mode)
        /\ last' = Res("lookup", dir, name, 0, err, IF err = Ok THEN ino ELSE 0, <<>>)
        /\ oob' = (oob \/ d.oob \/ (d.err = Ok /\ (sc.oob \/ (hits # {} /\ r.oob))))
        /\ IF err = Ok THEN CreateVfsInode(geo, gdesc, C1, ino, r)
           ELSE /\ icache' = C1 /\ UNCHANGED vnode
        /\ UNCHANGED <<disk, mounted, geo, gdesc>>

(* Ext4FileOps::readdir: every record of every block goes to the callback *)
(* until it returns false, here after `budget` entries.                     *)
Readdir(ino, budget) ==
    LET d == GetInode(geo, gdesc, icache, ino)
        sc == DirScan(d.inode, 0, NumBlocks(d.inode.size), NoEnts)
        stopped == Len(sc.ents) >= budget
        err == CASE ~IsDir(vnode[ino].mode) -> "notdir" [] d.err # Ok -> d.err
                 [] stopped -> Ok [] OTHER -> sc.err
        seen == IF stopped THEN SubSeq(sc.ents, 1, budget) ELSE sc.ents
    IN  /\ mounted /\ ino \in DOMAIN vnode
        /\ last' = Res("readdir", ino, budget, 0, err, 0,
                       IF IsDir(vnode[ino].mode) /\ d.err = Ok THEN seen ELSE <<>>)
        /\ oob' = (oob \/ (IsDir(vnode[ino].mode) /\ (d.oob \/ (d.err = Ok /\ sc.oob))))
        /\ icache' = IF IsDir(vnode[ino].mode) THEN Cached(icache, ino, d) ELSE icache
        /\ UNCHANGED <<disk, mounted, geo, gdesc, vnode>>

ReadNoClamp(ino, pos, len) ==
    LET size == vnode[ino].size
        toRead == len
        d == GetInode(geo, gdesc, icache, ino)
        rc == ReadChunks(d.inode, pos, toRead)
        err == CASE pos >= size \/ toRead = 0 -> Ok [] d.err # Ok -> d.err [] OTHER -> rc.err
        reads == pos < size /\ toRead > 0
    IN  /\ mounted /\ ino \in DOMAIN vnode
        /\ last' = Res("read", ino, len, pos, err, IF reads /\ err = Ok THEN toRead ELSE 0,
                       IF reads /\ err = Ok THEN rc.data ELSE <<>>)
        /\ oob' = (oob \/ (reads /\ (d.oob \/ (d.err = Ok /\ rc.oob))))
        /\ icache' = IF reads THEN Cached(icache, ino, d) ELSE icache
        /\ UNCHANGED <<disk, mounted, geo, gdesc, vnode>>

(* Ext4FileOps::read: from the file position, min(len, size - pos) bytes  *)
(* chunk by chunk; advance_pos moves the File's position by the count     *)
(* returned (last.found), and only when every chunk was read.             *)
Read(ino, pos, len) ==
    LET size == vnode[ino].size
        toRead == IF len < size - pos THEN len ELSE size - pos
        d == GetInode(geo, gdesc, icache, ino)
        rc == ReadChunks(d.inode, pos, toRead)
        err == CASE pos >= size \/ toRead = 0 -> Ok [] d.err # Ok -> d.err [] OTHER -> rc.err
        reads == pos < size /\ toRead > 0
    IN  /\ mounted /\ ino \in DOMAIN vnode
        /\ last' = Res("read", ino, len, pos, err, IF reads /\ err = Ok THEN toRead ELSE 0,
                       IF reads /\ err = Ok THEN rc.data ELSE <<>>)
        /\ oob' = (oob \/ (reads /\ (d.oob \/ (d.err = Ok /\ rc.oob))))
        /\ icache' = IF reads THEN Cached(icache, ino, d) ELSE icache
        /\ UNCHANGED <<disk, mounted, geo, gdesc, vnode>>

(* Ext4InodeOps::readpage: the one block holding the page's first byte,   *)
(* copied up to the page's length.                                         *)
Readpage(ino, page) ==
    LET d == GetInode(geo, gdesc, icache, ino)
        bs == geo.block_size
        m == ExtentMapBlock(d.inode, (page * PageSize) \div bs)
        err == CASE d.err # Ok -> d.err [] m.err # Ok -> m.err
                 [] ~BlockOk(bs, m.phys) -> "io" [] OTHER -> Ok
        copy == IF PageSize < bs THEN PageSize ELSE bs
    IN  /\ mounted /\ ino \in DOMAIN vnode
        /\ last' = Res("readpage", ino, page, 0, err, 0,
                       IF err = Ok THEN Slice(ReadBlock(bs, m.phys), 0, copy) ELSE <<>>)
        /\ oob' = (oob \/ d.oob \/ (d.err = Ok /\ m.oob))
        /\ icache' = Cached(icache, ino, d)
        /\ UNCHANGED <<disk, mounted, geo, gdesc, vnode>>

Next ==
    \/ Mount
    \/ \E dir \in DOMAIN vnode, name \in LookupNames : Lookup(dir, name)
    \/ \E ino \in DOMAIN vnode, b \in ReaddirBudgets : Readdir(ino, b)
    \/ \E ino \in DOMAIN vnode, pos \in Positions, len \in ReadLens : Read(ino, pos, len)
    \/ \E ino \in DOMAIN vnode, p \in Pages : Readpage(ino, p)

Spec == Init /\ [][Next]_vars

-----------------------------------------------------------------------------
(* Spec 4.6 and 6: mount accepts exactly the images with the ext4 magic   *)
(* and no rejected incompatible feature, derives the geometry, loads the  *)
(* group descriptors and reads the root inode.  The image records the     *)
(* outcome the spec gives it.                                              *)
MountAsSpecified == last.op = "mount" => last.err = disk.expect

(* Device address of byte k of file ino, per the blocks mkfs gave it, and *)
(* -1 in a hole or past the last block.                                    *)
FileAddr(ino, k) ==
    LET bs == geo.block_size
        lb == k \div bs
    IN  IF lb >= Len(disk.blocks[ino]) \/ disk.blocks[ino][lb + 1] = -1 THEN -1
        ELSE disk.blocks[ino][lb + 1] * bs + (k % bs)

(* The bytes of file ino from byte k on, n of them, as the runs of a     *)
(* returned buffer hold them.                                              *)
HoldsFileBytes(data, ino, k, n) ==
    RLen(data) = n /\ \A j \in 0 .. n - 1 : AddrAt(data, j) = FileAddr(ino, k + j)

(* read returns min(len, size - pos) bytes, and they are the file's bytes *)
(* from the position: the chunk loop, the extent map of each block and    *)
(* the page-cache copy compose to the file's contents.  A read that meets *)
(* a hole fails whole.  readpage (spec 4.6) returns the block holding the *)
(* page's first byte, up to a page of it, and fails on a hole.             *)
ReadReturnsFileBytes ==
    /\ last.op = "read" =>
        LET size == vnode[last.ino].size
            want == IF last.pos >= size THEN 0
                    ELSE IF last.arg < size - last.pos THEN last.arg ELSE size - last.pos
            mapped == \A k \in last.pos .. last.pos + want - 1 : FileAddr(last.ino, k) # -1
        IN  IF mapped
            THEN last.err = Ok /\ last.found = want
                 /\ HoldsFileBytes(last.data, last.ino, last.pos, want)
            ELSE last.err # Ok
    /\ last.op = "readpage" =>
        LET bs == geo.block_size
            first == ((last.arg * PageSize) \div bs) * bs
            n == IF PageSize < bs THEN PageSize ELSE bs
        IN  IF FileAddr(last.ino, first) # -1
            THEN last.err = Ok /\ HoldsFileBytes(last.data, last.ino, first, n)
            ELSE last.err # Ok

(* Spec 4.6: readdir hands the callback the directory's records in order  *)
(* until it declines one, and lookup finds the first record with the name *)
(* (NotFound when none has it), across all of the directory's blocks.     *)
DirOpsMatchListing ==
    /\ last.op = "readdir" /\ last.err = Ok =>
          LET ls == disk.dirs[last.ino]
          IN  last.data = IF Len(ls) >= last.arg THEN SubSeq(ls, 1, last.arg) ELSE ls
    /\ last.op = "lookup" =>
          LET ls == disk.dirs[last.ino]
              hits == {k \in 1 .. Len(ls) : ls[k].name = last.arg}
          IN  IF hits = {} THEN last.err = "notfound"
              ELSE last.err = Ok /\ last.found = ls[FirstIdx(hits)].ino

(* The inode cache holds, for every inode number, the inode mkfs wrote    *)
(* for it: read_inode's group, index, block and offset arithmetic and the *)
(* descriptors' inode-table words locate it.                               *)
InodeCacheCoherent == \A ino \in DOMAIN icache : icache[ino] = disk.inodes[ino]

(* No read_unaligned of an on-disk structure (group descriptor, inode,    *)
(* extent header and entries, directory record header) reads past the end *)
(* of the buffer it was read from.                                         *)
NoOutOfBoundsRead == ~oob
=============================================================================
