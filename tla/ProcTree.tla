------------------------------ MODULE ProcTree ------------------------------
(***************************************************************************)
(* What the process layer promises about the life of processes, with no    *)
(* scheduler, signals or sleeping: entries are free, live or dead; a live  *)
(* process forks into a free entry; the children of a process that exits   *)
(* go to the first process; a dead entry is freed on behalf of its parent, *)
(* which is live.                                                          *)
(***************************************************************************)
CONSTANTS Entries, First, NoParent

VARIABLES live, dead, parent

vars == <<live, dead, parent>>

Init ==
    /\ live = {First}
    /\ dead = {}
    /\ parent = [e \in Entries |-> IF e = First THEN First ELSE NoParent]

Fork(p, c) ==
    /\ p \in live /\ c \in Entries \ (live \cup dead)
    /\ live' = live \cup {c}
    /\ parent' = [parent EXCEPT ![c] = p]
    /\ UNCHANGED dead

Exit(p) ==
    /\ p \in live
    /\ live' = live \ {p}
    /\ dead' = dead \cup {p}
    /\ parent' = [e \in Entries |-> IF parent[e] = p /\ e # p THEN First ELSE parent[e]]

Reap(p, z) ==
    /\ p \in live /\ z \in dead /\ parent[z] = p
    /\ dead' = dead \ {z}
    /\ parent' = [parent EXCEPT ![z] = NoParent]
    /\ UNCHANGED live

Next ==
    \/ \E p, e \in Entries : Fork(p, e) \/ Reap(p, e)
    \/ \E p \in Entries : Exit(p)

Spec == Init /\ [][Next]_vars
=============================================================================
