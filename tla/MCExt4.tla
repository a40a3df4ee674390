------------------------------ MODULE MCExt4 -------------------------------
(***************************************************************************)
(* Disk images for Ext4, laid out the way mkfs.ext4 lays them out, with    *)
(* each structure at its byte address.  Two block groups of 8 blocks and 8 *)
(* inodes; inode tables at blocks 4 and 10.                                *)
(*   ino 2  "/"  directory, blocks 6 and 7 (one leaf extent in i_block)    *)
(*   ino 11 "a"  3 blocks + 100 bytes behind a depth-1 tree: index entries *)
(*               at logical 0 (leaf block 8) and 2 (leaf block 9); logical *)
(*               2 is an unwritten extent, logical 3 a hole                *)
(*   ino 13 "c"  a fast symlink (no EXT4_EXTENTS_FL)                       *)
(*   ino 16 "b"  10 bytes in block 15; the last inode slot of group 1      *)
(* Each image also carries what mkfs wrote, for the properties to compare  *)
(* against: the inodes, every directory's records in order, and each       *)
(* file's physical block per logical block (-1 for a hole).                *)
(***************************************************************************)
EXTENDS Ext4

Ext(b, l, s) == [ee_block |-> b, ee_len |-> l, ee_start |-> s]
Idx(b, leaf) == [ei_block |-> b, ei_leaf |-> leaf]
Node(depth, items) ==
    [magic |-> ExtMagic, entries |-> Len(items), depth |-> depth, items |-> items]
Rec(ino, rl, name, nl, ft) ==
    [inode |-> ino, rec_len |-> rl, name |-> name, name_len |-> nl, file_type |-> ft]

Root == [mode |-> 16877, size |-> 0, flags |-> ExtentsFl,
         iblock |-> Node(0, <<Ext(0, 2, 6)>>)]
FileA == [mode |-> 33188, size |-> 0, flags |-> ExtentsFl,
          iblock |-> Node(1, <<Idx(0, 8), Idx(2, 9)>>)]
LinkC == [mode |-> 41471, size |-> 5, flags |-> 0, iblock |-> 0]
FileB == [mode |-> 33188, size |-> 10, flags |-> ExtentsFl,
          iblock |-> Node(0, <<Ext(0, 1, 15)>>)]

(* log: s_log_block_size; dsz: s_desc_size; rev, isz: s_rev_level and    *)
(* s_inode_size; magic and incompat as on disk.                            *)
MkImage(log, dsz, rev, isz, magic, incompat, expect) ==
    LET bs == 1024 * 2^log
        fdb == IF log = 0 THEN 1 ELSE 0
        gdt == (fdb + 1) * bs
        dstep == IF dsz = 0 THEN 32 ELSE dsz
        isize == IF rev = 0 THEN 128 ELSE isz
        Table == <<4, 10>>
        InodeAddr(ino) == Table[(ino - 1) \div 8 + 1] * bs + ((ino - 1) % 8) * isize
        inodes == (2 :> [Root EXCEPT !.size = 2 * bs])
                  @@ (11 :> [FileA EXCEPT !.size = 3 * bs + 100])
                  @@ (13 :> LinkC) @@ (16 :> FileB)
        sb == [magic |-> magic, feature_incompat |-> incompat, log_block_size |-> log,
               rev_level |-> rev, inode_size |-> isz, desc_size |-> dsz,
               blocks_count_lo |-> 16, blocks_count_hi |-> 0,
               blocks_per_group |-> 8, inodes_per_group |-> 8, first_data_block |-> fdb]
        gds == [a \in {gdt + g * dstep : g \in 0 .. 1} |-> [word8 |-> Table[(a - gdt) \div dstep + 1]]]
               @@ (IF dsz = 64 THEN [a \in {gdt + 32, gdt + 96} |-> [word8 |-> 0]] ELSE NoFn)
        dirents == (6 * bs :> Rec(2, 12, ".", 1, 2)) @@ (6 * bs + 12 :> Rec(2, 12, "..", 2, 2))
                   @@ (6 * bs + 24 :> Rec(11, 24, "a", 1, 1))
                   @@ (6 * bs + 48 :> Rec(13, bs - 48, "c", 1, 7))
                   @@ (7 * bs :> Rec(16, bs, "b", 1, 1))
        leaves == (8 * bs :> Node(0, <<Ext(0, 2, 12)>>))
                  @@ (9 * bs :> Node(0, <<Ext(2, 32769, 14)>>))
    IN  [structs |-> (SuperOffset :> sb) @@ gds @@ dirents @@ leaves
                     @@ [a \in {InodeAddr(i) : i \in DOMAIN inodes} |->
                           inodes[CHOOSE i \in DOMAIN inodes : InodeAddr(i) = a]],
         capacity |-> 16 * bs,
         expect |-> expect,
         inodes |-> inodes,
         dirs |-> (2 :> <<[ino |-> 2, name |-> ".", type |-> "dir"],
                          [ino |-> 2, name |-> "..", type |-> "dir"],
                          [ino |-> 11, name |-> "a", type |-> "reg"],
                          [ino |-> 13, name |-> "c", type |-> "symlink"],
                          [ino |-> 16, name |-> "b", type |-> "reg"]>>),
         blocks |-> (2 :> <<6, 7>>) @@ (11 :> <<12, 13, 14, -1>>)
                    @@ (13 :> <<-1>>) @@ (16 :> <<15>>)]

(* 64-bit descriptors and 256-byte inodes, with 1K and 2K blocks; a bad    *)
(* magic; ENCRYPT set.                                                     *)
GoodImages ==
    { MkImage(0, 64, 1, 256, SuperMagic, 706, Ok),
      MkImage(1, 64, 1, 256, SuperMagic, 706, Ok),
      MkImage(0, 64, 1, 256, 0, 706, "io"),
      MkImage(0, 64, 1, 256, SuperMagic, 706 + 65536, "notsup") }

(* 32-byte descriptors (s_desc_size = 0, no 64BIT feature). *)
Desc32Images == { MkImage(0, 0, 1, 256, SuperMagic, 578, Ok) }

(* Revision 0: 128-byte inodes. *)
SmallInodeImages == { MkImage(0, 64, 0, 0, SuperMagic, 706, Ok) }
=============================================================================
