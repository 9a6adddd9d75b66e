---------------------------- MODULE MCBufferCache ----------------------------
(* Constants of BufferCache for TLC: the block t1 is on a tape, the others on a disk. *)
EXTENDS BufferCache, TLC

CONSTANTS t1, disk0, tape0

MCDevOf == [k \in Blocks |-> IF k = t1 THEN tape0 ELSE disk0]

BufSymmetry == Permutations(Bufs)
=============================================================================
