------------------------------ MODULE MCMounts ------------------------------
(***************************************************************************)
(* Mounts for TLC: a root device and two others, all with the same tree: a *)
(* directory in the root, a directory in that one, and the special files.  *)
(* OneLost: one reference is forgotten; its entry is never free again, so  *)
(* that each takes one out of the table for good.                          *)
(***************************************************************************)
EXTENDS Mounts, TLC

CONSTANTS d1, d2

Numbers == 1 .. 4
Tree(i, name) ==
    CASE i[2] = 1 /\ name = "a" -> 2
      [] name = ".." -> 1
      [] i = Root(ROOTDEV) /\ name = "f1" -> 3
      [] i = Root(ROOTDEV) /\ name = "f2" -> 4
      [] OTHER -> 0
Same == [i \in Inodes |-> [name \in Names |->
            IF Tree(i, name) = 0 THEN NULL ELSE <<i[1], Tree(i, name)>>]]
Files == [i \in Inodes |-> IF i[2] = 3 THEN d1 ELSE IF i[2] = 4 THEN d2 ELSE NULL]
Dirs == {i \in Inodes : i[2] < 3}

Alike == Permutations(Entries)
Unbroken == ~snared
OneLost == \A e, f \in Entries : lost[e] < 2 /\ (lost[e] > 0 /\ lost[f] > 0 => e = f)
Seen == <<i_tab, at, lost, snared,
          [s \in Slots |-> IF Taken(s) THEN fs_tab[s] ELSE [fs_tab[s] EXCEPT !.s_dev = ROOTDEV,
                              !.s_mntpt = IF @ = NULL THEN NULL ELSE 0]]>>
=============================================================================
