-------------------------- MODULE MCChunkPublication --------------------------
(* ChunkPublication for TLC: two callers racing on one CID over a root that *)
(* may already hold a file for it, and enough inodes that a chunk can be    *)
(* deleted and published again while the old file may still come back.      *)
EXTENDS ChunkPublication, TLC

Symmetry == Permutations(CIDs) \cup Permutations(Callers) \cup Permutations(Inodes)
===============================================================================
