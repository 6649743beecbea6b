----------------------------- MODULE MCFreeList -----------------------------
(***************************************************************************)
(* FreeList for TLC: two files, of which Root has the first block.         *)
(***************************************************************************)
EXTENDS FreeList

Spelled == {<<>>, <<0>>, <<Lo>>}    \* what the bytes of users look like
BothMade == BOOLEAN
ByMkfs == {FALSE}

(* Once a refill has failed only the next step is of interest.             *)
Tracked == "refill" \notin faults
=============================================================================
