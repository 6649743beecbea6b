------------------------------- MODULE MCPipe -------------------------------
(***************************************************************************)
(* Pipe for TLC.  All processes but the one that makes the pipe are alike. *)
(* Of the ring only the unread bytes matter, and those only while the      *)
(* stream is clean; how many bytes went before them does not, so that the  *)
(* streams need no bound.                                                  *)
(***************************************************************************)
EXTENDS Pipe, TLC

Alike == Permutations(Procs \ {Creator})

Unread == [k \in 0 .. i_size - 1 |-> cell[Pos(o_ptr["r"], k)] = got + 1 + k]
Seen == <<procs, o_ptr, i_size, clean, IF clean THEN <<Unread, inOrder>> ELSE <<>>>>
=============================================================================
