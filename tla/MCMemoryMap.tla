----------------------------- MODULE MCMemoryMap -----------------------------
(***************************************************************************)
(* Instances of MemoryMap for TLC.                                         *)
(***************************************************************************)
EXTENDS MemoryMap

\* Nothing allocated when the library is loaded.
NoBlocks == {}

\* Two adjacent mappings, which the kernel shows as one.
TwoAdjacentBlocks ==
  {[start |-> MmapMin, size |-> 1, by |-> "libc"],
   [start |-> MmapMin + 1, size |-> 1, by |-> "mmap"]}
=============================================================================
