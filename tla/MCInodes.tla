------------------------------ MODULE MCInodes ------------------------------
(***************************************************************************)
(* Inodes for TLC.                                                         *)
(***************************************************************************)
EXTENDS Inodes, Functions

CONSTANTS
    MaxUnsaved,              \* inodes that differ from the disk or are marked
    MaxHeld,                 \* references in all
    MaxLinks, MaxWasted

TwoPaths == {<<"a">>, <<"a", "a">>}

(* A spoiled state is looked at but not what follows it.                   *)
Bounded ==
    /\ \A i \in Inodes : fs.node[i].nlink <= MaxLinks
    /\ FoldFunction(+, 0, fs.c_refs) <= MaxHeld
    /\ fs.wasted <= MaxWasted
    /\ Cardinality({i \in Inodes : fs.c_dirty[i] \/ fs.node[i] # fs.disk[i]}) <= MaxUnsaved
    /\ fs.spoiled = {}
=============================================================================
