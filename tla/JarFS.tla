-------------------------------- MODULE JarFS --------------------------------
(***************************************************************************)
(* jarfs.c: format, mount, unmount, sync, open, close and read of JarFS,   *)
(* and the VFS root.  A disk is its superblock (block 0) and the inode     *)
(* table blocks the formats of the model write their root inode to.  A    *)
(* mount or a file is a heap object; mounts and files hold what the live  *)
(* objects contain (Blank once freed), and a file whose mount was freed    *)
(* has the dangling mount Blank.  The caller keeps the mounts and files    *)
(* it got back and uses each until it unmounts or closes it.  Version,    *)
(* time and checksum fields are left out: no code reads them.  Device    *)
(* reads may fail; the model's writes land.                                *)
(***************************************************************************)
EXTENDS KernelHeap, Integers, Sequences

CONSTANTS
  Devices,        \* the block devices a caller passes
  FormatSizes,    \* jarfs_format's size argument, in bytes
  MountObjs,      \* kmalloc(sizeof(jarfs_mount_t)) in jarfs_mount
  FileObjs,       \* kmalloc(sizeof(jarfs_file_t)) in jarfs_open
  TempObjs,       \* kmalloc(JARFS_BLOCK_SIZE) in jarfs_read
  NodeObjs,       \* kmalloc(sizeof(vfs_node_t)) in vfs_create_node
  ReadCounts,     \* jarfs_read's count argument
  JunkPositions,  \* what kmalloc's memory leaves in file->position, never set
  JunkInodes,     \* what it leaves in file->inode when the device read fails
  MaxMounts       \* bound on jarfs_mount calls: mount_list only grows

VARIABLES disk, mounts, files, mount_list, mount_count, vfs_root, held_mounts, held_files

jarfs_vars == <<disk, mounts, files, mount_list, mount_count, vfs_root, held_mounts, held_files>>

JARFS_MAGIC == 1245794902      \* 0x4A415256
JARFS_BLOCK_SIZE == 4096
InodeSize == 84                \* sizeof(jarfs_inode_t): 21 u32
MinFormatSize == 16 * 1024 * 1024

\* Mutant: div_round_up rounding down.
DivFloor(n, d) == n \div d

div_round_up(n, d) == (n + d - 1) \div d

\* The superblock jarfs_format computes for a device of size bytes.
FormatSb(size) ==
  LET bc  == size \div JARFS_BLOCK_SIZE
      ic  == IF bc \div 4 < 1024 THEN 1024 ELSE bc \div 4
      bbs == 2
      ibs == bbs + div_round_up(bc, 8 * JARFS_BLOCK_SIZE)
      its == ibs + div_round_up(ic, 8 * JARFS_BLOCK_SIZE)
      ds  == its + div_round_up(ic * InodeSize, JARFS_BLOCK_SIZE)
  IN  [magic |-> JARFS_MAGIC, block_count |-> bc, inode_count |-> ic,
       free_blocks |-> bc - ds - 1, free_inodes |-> ic - 10,
       block_bitmap_start |-> bbs, inode_bitmap_start |-> ibs,
       inode_table_start |-> its, data_start |-> ds]

\* The root directory's inode: one block, the first of the data region.
RootInode(sb) == [size |-> JARFS_BLOCK_SIZE, block0 |-> sb.data_start]

\* The inode table blocks the model's formats write.
TableBlocks == {FormatSb(s).inode_table_start : s \in {z \in FormatSizes : z >= MinFormatSize}}

\* What jarfs_open's device->read leaves in file->inode: the table's inode,
\* or, when the read fails (its result is ignored) or the block holds
\* none, the bytes kmalloc's memory held.
InodeRead(d, sb) ==
  JunkInodes \cup (IF disk[d].itab[sb.inode_table_start] = Blank THEN {}
                   ELSE {disk[d].itab[sb.inode_table_start]})

\* jarfs_open's file: mount, flags and refcount are set, position is not.
OpenedFile(m, i, pos) == [inode |-> i, mount |-> m, position |-> pos, refcount |-> 1]

JarfsInit ==
  /\ disk = [d \in Devices |-> [sb |-> Blank, itab |-> [b \in TableBlocks |-> Blank]]]
  /\ mounts = [m \in MountObjs |-> Blank]
  /\ files = [f \in FileObjs |-> Blank]
  /\ mount_list = <<>>
  /\ mount_count = 0
  /\ vfs_root = NULL
  /\ held_mounts = {}
  /\ held_files = {}

(***************************************************************************)
(* jarfs_init prints and calls vfs_init, which panics when                 *)
(* vfs_create_node's kmalloc fails.  Boot calls it once.                   *)
(***************************************************************************)
jarfs_init ==
  /\ Running
  /\ vfs_root = NULL
  /\ \E n \in kmalloc(heap, NodeObjs) :
       /\ heap' = Granted(heap, n)
       /\ vfs_root' = n
       /\ fault' = IF n = NULL THEN "panic" ELSE "none"
  /\ UNCHANGED <<disk, mounts, files, mount_list, mount_count, held_mounts, held_files>>

\* jarfs_format: the superblock at block 0, the root inode at the inode
\* table.  A NULL device or a size under 16 MiB returns JAR_INVAL.
jarfs_format(d, size) ==
  /\ Running
  /\ size >= MinFormatSize
  /\ LET sb == FormatSb(size) IN
       disk' = [disk EXCEPT ![d] = [sb |-> sb,
                                    itab |-> [@.itab EXCEPT ![sb.inode_table_start] = RootInode(sb)]]]
  /\ UNCHANGED <<heap, fault, mounts, files, mount_list, mount_count, vfs_root,
                 held_mounts, held_files>>

\* Mutant: an error path that returns without kfree(mount).
RejectMountLeaky(h, m) == h

\* The two error paths after the superblock read: kfree(mount).
RejectMount(h, m) == kfree(h, m)

\* jarfs_mount: read the superblock, test the magic, open the root (whose
\* kmalloc may fail, leaving root NULL), push on mount_list.
jarfs_mount(d) ==
  /\ Running
  /\ mount_count < MaxMounts
  /\ \E m \in kmalloc(heap, MountObjs) \ {NULL}, readOk \in BOOLEAN :
       IF ~readOk \/ disk[d].sb = Blank
       THEN /\ heap' = RejectMount(heap \cup {m}, m)
            /\ UNCHANGED <<fault, disk, mounts, files, mount_list, mount_count, vfs_root,
                           held_mounts, held_files>>
       ELSE LET sb == disk[d].sb IN
            \E f \in kmalloc(heap \cup {m}, FileObjs), i \in InodeRead(d, sb),
               pos \in JunkPositions :
              /\ heap' = Granted(heap \cup {m}, f)
              /\ mounts' = [mounts EXCEPT ![m] = [device |-> d, sb |-> sb, root |-> f, cwd |-> f]]
              /\ files' = IF f = NULL THEN files ELSE [files EXCEPT ![f] = OpenedFile(m, i, pos)]
              /\ mount_list' = <<m>> \o mount_list
              /\ mount_count' = mount_count + 1
              /\ held_mounts' = held_mounts \cup {m}
              /\ UNCHANGED <<fault, disk, vfs_root, held_files>>

\* jarfs_open(mount, path, flags) ignores path and opens the root inode.
jarfs_open(m) ==
  /\ Running
  /\ \E f \in kmalloc(heap, FileObjs) \ {NULL},
        i \in InodeRead(mounts[m].device, mounts[m].sb), pos \in JunkPositions :
       /\ heap' = heap \cup {f}
       /\ files' = [files EXCEPT ![f] = OpenedFile(m, i, pos)]
       /\ held_files' = held_files \cup {f}
  /\ UNCHANGED <<fault, disk, mounts, mount_list, mount_count, vfs_root, held_mounts>>

\* jarfs_sync writes the mount's copy of the superblock to block 0.
SyncedDisk(m) == [disk EXCEPT ![mounts[m].device].sb = mounts[m].sb]

jarfs_sync(m) ==
  /\ Running
  /\ disk' = SyncedDisk(m)
  /\ UNCHANGED <<heap, fault, mounts, files, mount_list, mount_count, vfs_root,
                 held_mounts, held_files>>

\* jarfs_close(file) on st = [heap, files, double]: --refcount, kfree at 0.
CloseStep(st, f) ==
  IF f = NULL THEN st
  ELSE IF st.files[f].refcount = 1
       THEN FreeStep([st EXCEPT !.files[f] = Blank], f)
       ELSE [st EXCEPT !.files[f].refcount = @ - 1]

\* Mutant: jarfs_unmount also frees mount->cwd, which is mount->root.
UnmountFreesCwd(st, m) == FreeStep(FreeStep(CloseStep(st, mounts[m].root), mounts[m].cwd), m)

\* jarfs_unmount's frees: jarfs_close(mount->root), kfree(mount).
UnmountFrees(st, m) == FreeStep(CloseStep(st, mounts[m].root), m)

\* The caller's files on mount m after kfree(m): file->mount dangles.
Orphaned(fs, m) ==
  [f \in DOMAIN fs |-> IF fs[f] # Blank /\ fs[f].mount = m THEN [fs[f] EXCEPT !.mount = Blank] ELSE fs[f]]

\* jarfs_unmount: sync, close the root, free the mount.  mount_list keeps
\* the freed mount and mount_count is not decremented.
jarfs_unmount(m) ==
  /\ Running
  /\ disk' = SyncedDisk(m)
  /\ LET st == UnmountFrees([heap |-> heap, files |-> files, double |-> FALSE], m) IN
       /\ heap' = st.heap
       /\ files' = Orphaned(st.files, m)
       /\ fault' = IF st.double THEN "double_free" ELSE "none"
  /\ mounts' = [mounts EXCEPT ![m] = Blank]
  /\ held_mounts' = held_mounts \ {m}
  /\ UNCHANGED <<mount_list, mount_count, vfs_root, held_files>>

jarfs_close(f) ==
  /\ Running
  /\ LET st == CloseStep([heap |-> heap, files |-> files, double |-> FALSE], f) IN
       /\ heap' = st.heap
       /\ files' = st.files
       /\ fault' = IF st.double THEN "double_free" ELSE "none"
  /\ held_files' = held_files \ {f}
  /\ UNCHANGED <<disk, mounts, mount_list, mount_count, vfs_root, held_mounts>>

\* if (position + count > inode.size) count = inode.size - position; a
\* negative result stands for its u64 value 2^64 - k, larger than any count.
ReadCount(file, count) ==
  IF file.position + count > file.inode.size THEN file.inode.size - file.position ELSE count

\* memcpy(buf, temp + position % 4096, n) reads inside the 4096-byte temp
\* and writes no more than the caller's count bytes.
CopyInBlock(pos, n, count) == n >= 0 /\ n <= count /\ (pos % JARFS_BLOCK_SIZE) + n <= JARFS_BLOCK_SIZE

\* jarfs_read: clamp, kmalloc temp (unchecked), read block[0] through
\* file->mount->device into it, copy, kfree(temp), advance position.
jarfs_read(f, count) ==
  /\ Running
  /\ LET file == files[f]
         n == ReadCount(file, count)
     IN  /\ n # 0
         /\ \E t \in kmalloc(heap, TempObjs) :
              fault' = CASE file.mount \notin heap -> "use_after_free"
                         [] t = NULL -> "null_store"
                         [] ~CopyInBlock(file.position, n, count) -> "overrun"
                         [] OTHER -> "none"
         /\ files' = IF fault' = "none" THEN [files EXCEPT ![f].position = @ + n] ELSE files
  /\ UNCHANGED <<heap, disk, mounts, mount_list, mount_count, vfs_root, held_mounts, held_files>>

JarfsNext ==
  \/ jarfs_init
  \/ \E d \in Devices, s \in FormatSizes : jarfs_format(d, s)
  \/ \E d \in Devices : jarfs_mount(d)
  \/ \E m \in held_mounts : jarfs_open(m)
  \/ \E m \in held_mounts : jarfs_sync(m)
  \/ \E m \in held_mounts : jarfs_unmount(m)
  \/ \E f \in held_files : jarfs_close(f)
  \/ \E f \in held_files, c \in ReadCounts : jarfs_read(f, c)

(***************************************************************************)
(* The structs jarfs.c defines (not fs/jarfs.h, which it never includes), *)
(* with the fields the model keeps.                                       *)
(***************************************************************************)
jarfs_superblock_t ==
  [magic : Int, block_count : Nat, inode_count : Nat, free_blocks : Int, free_inodes : Int,
   block_bitmap_start : Nat, inode_bitmap_start : Nat, inode_table_start : Nat, data_start : Nat]

jarfs_inode_t == [size : Nat, block0 : Nat]

\* file->mount is Blank once the mount was freed under the file.
jarfs_file_t == [inode : jarfs_inode_t, mount : MountObjs \cup {Blank}, position : Nat, refcount : Nat]

jarfs_mount_t ==
  [device : Devices, sb : jarfs_superblock_t, root : FileObjs \cup {NULL}, cwd : FileObjs \cup {NULL}]

\* Every object and pointer of jarfs.c has its struct's type, a freed
\* object is Blank, and mount_list holds at most mount_count mounts.
JarfsTypeOK ==
  /\ disk \in [Devices -> [sb : jarfs_superblock_t \cup {Blank},
                           itab : [TableBlocks -> jarfs_inode_t \cup {Blank}]]]
  /\ mounts \in [MountObjs -> jarfs_mount_t \cup {Blank}]
  /\ files \in [FileObjs -> jarfs_file_t \cup {Blank}]
  /\ mount_list \in Seq(MountObjs) /\ Len(mount_list) = mount_count
  /\ mount_count \in 0 .. MaxMounts
  /\ vfs_root \in NodeObjs \cup {NULL}
  /\ held_mounts \subseteq MountObjs /\ held_files \subseteq FileObjs

(***************************************************************************)
(* The objects jarfs.c allocates that something still points to: the VFS  *)
(* root, the mounts on mount_list, the caller's mounts and files, and each *)
(* live mount's root.                                                      *)
(***************************************************************************)
JarfsObjs == MountObjs \cup FileObjs \cup TempObjs \cup NodeObjs

JarfsReachable ==
  ({vfs_root} \cup {mount_list[i] : i \in DOMAIN mount_list} \cup held_mounts
   \cup {mounts[m].root : m \in held_mounts} \cup held_files) \ {NULL}

(***************************************************************************)
(* jarfs_format's layout: the block bitmap, from block 2, has a bit for    *)
(* every block and the inode bitmap one for every inode; the inode table   *)
(* holds every inode; the data region starts after them, inside the        *)
(* device, and free_blocks does not wrap.  It is about the div_round_up    *)
(* arithmetic and the 16 MiB floor of jarfs_format, and holds for every    *)
(* superblock on a disk, including those jarfs_sync writes back.           *)
(***************************************************************************)
FormatLayout ==
  \A d \in Devices : disk[d].sb # Blank =>
    LET sb == disk[d].sb IN
    /\ sb.block_bitmap_start = 2
    /\ (sb.inode_bitmap_start - sb.block_bitmap_start) * 8 * JARFS_BLOCK_SIZE >= sb.block_count
    /\ (sb.inode_table_start - sb.inode_bitmap_start) * 8 * JARFS_BLOCK_SIZE >= sb.inode_count
    /\ (sb.data_start - sb.inode_table_start) * JARFS_BLOCK_SIZE >= sb.inode_count * InodeSize
    /\ sb.data_start < sb.block_count
    /\ sb.free_blocks >= 0

(***************************************************************************)
(* jarfs_read copies from inside the block it read and no more than it was *)
(* asked for.  file->position is never initialised by jarfs_open, and the  *)
(* clamp count = size - position wraps when position > size.               *)
(***************************************************************************)
ReadStaysInBlock == fault # "overrun"

=============================================================================
