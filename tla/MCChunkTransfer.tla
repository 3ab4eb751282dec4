-------------------------- MODULE MCChunkTransfer --------------------------
(* Small instances of ChunkTransfer.                                       *)
EXTENDS ChunkTransfer

CONSTANTS r1, r2
=============================================================================
