----------------------------- MODULE MCChunkUpload -----------------------------
(* Instances of ChunkUpload for TLC.  Requests that have not been issued are alike. *)
EXTENDS ChunkUpload, TLC

Symmetric == Permutations(Puts) \cup Permutations(Completes)
=============================================================================
