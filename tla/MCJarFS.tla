------------------------------- MODULE MCJarFS -------------------------------
(***************************************************************************)
(* JarFS on its own over the kernel heap: one device, the sizes around    *)
(* jarfs_format's 16 MiB floor, two mounts and two files.               *)
(***************************************************************************)
EXTENDS JarFS

MiB == 1024 * 1024

MCFormatSizes == {8 * MiB, 16 * MiB, 32 * MiB}

MCReadCounts == {4096}

\* Zeroed memory, and a position past the root directory's 4096 bytes.
MCJunkPositions == {0, 5000}

\* An inode larger than its one block.
MCJunkInodes == {[size |-> 6000, block0 |-> 9]}

vars == <<heap, fault, jarfs_vars>>

Spec == HeapInit /\ JarfsInit /\ [][JarfsNext]_vars

=============================================================================
