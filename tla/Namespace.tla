----------------------------- MODULE Namespace -----------------------------
(***************************************************************************)
(* What path names and mounts promise, with no table of inodes, slots or   *)
(* counts: a mounted file system stands in the place of one directory,     *)
(* whoever comes by is taken to its root, "up" from there leads through    *)
(* that directory, and nothing that is in use is covered or taken away.    *)
(***************************************************************************)
CONSTANTS
    Inodes, None,
    Devs, ROOTDEV,
    DevOf,                   \* the device of each inode
    RootDir,                 \* the root inode of each device
    Directories,
    Child,                   \* what a directory has under a name, or None
    Upward,                  \* names that lead up from the root of a mounted device
    Names, Holders

VARIABLES
    at,                      \* the inode that each holder has, or None
    on,                      \* the directory in whose place each mounted device is
    asked,                   \* where the last path was followed from, and its name
    broken                   \* nothing is promised any more

vars == <<at, on, asked, broken>>

Mounted == DOMAIN on
Covered(i) == \E d \in Mounted : on[d] = i

(* j is what one finds coming to i.                                        *)
LeadsTo(i, j) ==
    \/ ~Covered(i) /\ j = i
    \/ \E d \in Mounted : on[d] = i /\ j = RootDir[d]

(* Where name n is looked up for one who is at i.                          *)
LookedUpIn(i, n, f) ==
    \/ n \in Upward /\ \E d \in Mounted : i = RootDir[d] /\ f = on[d]
    \/ (n \notin Upward \/ \A d \in Mounted : i # RootDir[d]) /\ f = i

Found(i, n, j) ==
    /\ i \in Directories
    /\ \E f \in Inodes : LookedUpIn(i, n, f) /\ Child[f][n] # None /\ LeadsTo(Child[f][n], j)

(* Someone asks for name n from h's place, and gets to j.                  *)
Ask(h, n) == at[h] # None /\ asked' = <<at[h], n>>
Reach(j) == \E h \in Holders, n \in Names : Ask(h, n) /\ Found(at[h], n, j)
----------------------------------------------------------------------------
Init ==
    /\ at \in [Holders -> {RootDir[ROOTDEV], None}]
    /\ DOMAIN on = {}
    /\ broken = FALSE

Move(h, j) ==
    /\ at' = [at EXCEPT ![h] = j]
    /\ UNCHANGED <<on, broken>>
    /\ Reach(j)

Fail ==
    /\ UNCHANGED <<at, on, broken>>
    /\ \E h \in Holders, n \in Names : Ask(h, n)

Copy(h, g) ==
    /\ at' = [at EXCEPT ![g] = at[h]]
    /\ UNCHANGED <<on, asked, broken>>

Close(h) ==
    /\ at' = [at EXCEPT ![h] = None]
    /\ UNCHANGED <<on, asked, broken>>

Mount(d, i) ==
    /\ d \notin Mounted /\ d # ROOTDEV
    /\ i \in Directories
    /\ \A e \in Devs : i # RootDir[e]
    /\ \A h \in Holders : at[h] # i
    /\ on' = [e \in Mounted \cup {d} |-> IF e = d THEN i ELSE on[e]]
    /\ UNCHANGED <<at, broken>>
    /\ Reach(i)

Umount(d) ==
    /\ d \in Mounted
    /\ \A h \in Holders : at[h] # None => DevOf[at[h]] # d
    /\ \A e \in Mounted : DevOf[on[e]] # d
    /\ on' = [e \in Mounted \ {d} |-> on[e]]
    /\ UNCHANGED <<at, broken>>
    /\ \E h \in Holders, n \in Names : Ask(h, n)

Next ==
    \/ broken'
    \/ Fail
    \/ \E h \in Holders : Close(h) \/ \E g \in Holders : Copy(h, g)
    \/ \E h \in Holders, j \in Inodes : Move(h, j)
    \/ \E d \in Devs : Umount(d) \/ \E i \in Inodes : Mount(d, i)

Spec == Init /\ [][Next]_vars
=============================================================================
