---------------------------- MODULE MCUVCPreview ----------------------------
(* A small instance of UVCPreview for TLC. *)
EXTENDS UVCPreview, TLC

Symmetry == Permutations(CaptureThreads)
=============================================================================
