------------------------------- MODULE MCFiles -------------------------------
(***************************************************************************)
(* Files for TLC.  The view leaves out the directories of the dead, which  *)
(* newproc overwrites.                                                     *)
(***************************************************************************)
EXTENDS Files, Functions

CONSTANT MaxLost

Few == FoldFunction(+, 0, lost) <= MaxLost
Observed ==
    <<alive, u_files, of_tab, c_refs, lost, [p \in alive |-> <<u_cwd[p], u_root[p]>>]>>
=============================================================================
