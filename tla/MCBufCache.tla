----------------------------- MODULE MCBufCache -----------------------------
(***************************************************************************)
(* BufCache for TLC.  Blocks are alike, and so are buffers: no definition  *)
(* picks one of them by its place.                                         *)
(***************************************************************************)
EXTENDS BufCache, TLC

Alike == Permutations(Blocks) \cup Permutations(Bufs)
=============================================================================
