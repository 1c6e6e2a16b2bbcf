------------------------------ MODULE MCBlobStore ------------------------------
(* BlobStore for TLC: processes and blobs are interchangeable.              *)
EXTENDS BlobStore, TLC

Symmetry == Permutations(Procs) \cup Permutations(Blobs)

=============================================================================
