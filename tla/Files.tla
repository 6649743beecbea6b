-------------------------------- MODULE Files --------------------------------
(***************************************************************************)
(* Who holds what: the descriptors of the processes, the open file table   *)
(* they share and the references to inodes (FS.C, SC1.C, SC2.C, PR1.C).    *)
(* What a path leads to is left open, and whether an inode can be had at   *)
(* all (Inodes has both): a call that gives everything back before it      *)
(* fails changes nothing here.  One step is one call; the sleep at the end *)
(* of the open of a named pipe touches none of this.                       *)
(***************************************************************************)
EXTENDS Naturals, FiniteSets

CONSTANTS
    Procs, InitProc,
    UFTSIZE, OFTSIZE,
    Inodes, ROOTINODE, NULL,
    MAXREFS                  \* 12 * ITABSIZE, i_ref's limit

ASSUME FilesAssumption ==
    /\ IsFiniteSet(Procs) /\ InitProc \in Procs
    /\ UFTSIZE \in Nat
    /\ OFTSIZE \in Nat /\ OFTSIZE <= 128     \* see FREE
    /\ ROOTINODE \in Inodes /\ NULL \notin Inodes
    /\ MAXREFS \in Nat

Fds == 0 .. UFTSIZE - 1
Oft == 0 .. OFTSIZE - 1
FREE == 255                                  \* (uchar)-1

VARIABLES
    alive,
    u_files, u_cwd, u_root,
    of_tab,
    c_refs,
    lost                     \* history: references that their holders forgot

vars == <<alive, u_files, u_cwd, u_root, of_tab, c_refs, lost>>

OpenFile == [o_refs : Nat, o_inode : Inodes \cup {NULL}]
Closed == [o_refs |-> 0, o_inode |-> NULL]
----------------------------------------------------------------------------
More(c, i) == [c EXCEPT ![i] = @ + 1]
Less(c, i) == [c EXCEPT ![i] = @ - 1]
MayRef(c, i) == c[i] + 1 < MAXREFS           \* i_ref panics otherwise

(* uf_alloc and oft_alloc take the first that is free.                     *)
FreeFd(p, fd) == u_files[p][fd] = FREE /\ \A k \in Fds : k < fd => u_files[p][k] # FREE
FreeOft(e) == of_tab[e].o_refs = 0 /\ \A k \in Oft : k < e => of_tab[k].o_refs # 0
NextFd(p, fd, new) ==
    fd < new /\ u_files[p][new] = FREE /\ \A k \in Fds : fd < k /\ k < new => u_files[p][k] # FREE
NextOft(e, new) ==
    e < new /\ of_tab[new].o_refs = 0 /\ \A k \in Oft : e < k /\ k < new => of_tab[k].o_refs # 0
NoRoom(p) == (\A fd \in Fds : u_files[p][fd] # FREE) \/ (\A e \in Oft : of_tab[e].o_refs # 0)

Shared(tab, e) == [tab EXCEPT ![e].o_refs = @ + 1]

(* oft_deref, and the i_deref in it.                                       *)
OftDeref(tab, e) ==
    IF tab[e].o_refs = 1 THEN [tab EXCEPT ![e] = Closed] ELSE [tab EXCEPT ![e].o_refs = @ - 1]
GivenBack(e) == IF of_tab[e].o_refs = 1 THEN Less(c_refs, of_tab[e].o_inode) ELSE c_refs
----------------------------------------------------------------------------
Init ==
    /\ alive = {InitProc}
    /\ u_files = [p \in Procs |-> [fd \in Fds |-> FREE]]
    /\ u_cwd = [p \in Procs |-> ROOTINODE]
    /\ u_root = [p \in Procs |-> ROOTINODE]
    /\ of_tab = [e \in Oft |-> Closed]
    /\ c_refs = [i \in Inodes |-> IF i = ROOTINODE THEN 2 ELSE 0]
    /\ lost = [i \in Inodes |-> 0]

Open(p, i) ==
    /\ MayRef(c_refs, i)
    /\ \E fd \in Fds, e \in Oft :
         /\ FreeFd(p, fd) /\ FreeOft(e)
         /\ u_files' = [u_files EXCEPT ![p][fd] = e]
         /\ of_tab' = [of_tab EXCEPT ![e] = [o_refs |-> 1, o_inode |-> i]]
    /\ c_refs' = More(c_refs, i)
    /\ UNCHANGED <<alive, u_cwd, u_root, lost>>

Doclose(p, fd) ==
    LET e == u_files[p][fd]
    IN  /\ u_files' = [u_files EXCEPT ![p][fd] = FREE]
        /\ of_tab' = OftDeref(of_tab, e)
        /\ c_refs' = GivenBack(e)
Close(p, fd) ==
    /\ u_files[p][fd] # FREE
    /\ Doclose(p, fd)
    /\ UNCHANGED <<alive, u_cwd, u_root, lost>>

DupUncounted(p, fd) ==
    /\ u_files[p][fd] # FREE
    /\ \E new \in Fds : FreeFd(p, new) /\ u_files' = [u_files EXCEPT ![p][new] = u_files[p][fd]]
    /\ UNCHANGED <<alive, u_cwd, u_root, of_tab, c_refs, lost>>
Dup(p, fd) ==
    /\ u_files[p][fd] # FREE
    /\ \E new \in Fds : FreeFd(p, new) /\ u_files' = [u_files EXCEPT ![p][new] = u_files[p][fd]]
    /\ of_tab' = Shared(of_tab, u_files[p][fd])
    /\ UNCHANGED <<alive, u_cwd, u_root, c_refs, lost>>

(* dup2(fd, fd) closes fd, and counts a user of of_tab[255], which is not  *)
(* in the table.                                                           *)
Dup2(p, old, new) ==
    LET e == u_files[p][old]
        was == u_files[p][new]
    IN  /\ e # FREE
        /\ IF old = new THEN Doclose(p, new)
           ELSE /\ u_files' = [u_files EXCEPT ![p][new] = e]
                /\ of_tab' = Shared(IF was = FREE THEN of_tab ELSE OftDeref(of_tab, was), e)
                /\ c_refs' = IF was = FREE THEN c_refs ELSE GivenBack(was)
        /\ UNCHANGED <<alive, u_cwd, u_root, lost>>

(* pipe: when there is no first descriptor the inode is never given back.  *)
Pipe(p, i) ==
    /\ MayRef(c_refs, i)
    /\ \/ /\ NoRoom(p)
          /\ c_refs' = More(c_refs, i)
          /\ lost' = More(lost, i)
          /\ UNCHANGED <<u_files, of_tab>>
       \/ /\ \E r, w \in Fds, e, g \in Oft :
               /\ FreeFd(p, r) /\ NextFd(p, r, w) /\ FreeOft(e) /\ NextOft(e, g)
               /\ u_files' = [u_files EXCEPT ![p][r] = e, ![p][w] = g]
               /\ of_tab' = [of_tab EXCEPT ![e] = [o_refs |-> 1, o_inode |-> i],
                                           ![g] = [o_refs |-> 1, o_inode |-> i]]
          /\ c_refs' = More(More(c_refs, i), i)
          /\ UNCHANGED lost
    /\ UNCHANGED <<alive, u_cwd, u_root>>

(* chdir forgets the directory that it may not search.                     *)
Chdir(p, i) ==
    /\ MayRef(c_refs, i)
    /\ \/ /\ u_cwd' = [u_cwd EXCEPT ![p] = i]
          /\ c_refs' = Less(More(c_refs, i), u_cwd[p])
          /\ UNCHANGED lost
       \/ /\ c_refs' = More(c_refs, i)
          /\ lost' = More(lost, i)
          /\ UNCHANGED u_cwd
    /\ UNCHANGED <<alive, u_files, u_root, of_tab>>

ChrootKept(p, i) ==
    /\ MayRef(c_refs, i)
    /\ u_cwd' = [u_cwd EXCEPT ![p] = i]
    /\ u_root' = [u_root EXCEPT ![p] = i]
    /\ c_refs' = Less(Less(More(c_refs, i), u_cwd[p]), u_root[p])
    /\ UNCHANGED <<alive, u_files, of_tab, lost>>
Chroot(p, i) ==
    LET moved == Less(Less(More(c_refs, i), u_cwd[p]), u_root[p])
    IN  /\ MayRef(c_refs, i) /\ MayRef(moved, i)
        /\ u_cwd' = [u_cwd EXCEPT ![p] = i]
        /\ u_root' = [u_root EXCEPT ![p] = i]
        /\ c_refs' = More(moved, i)
        /\ UNCHANGED <<alive, u_files, of_tab, lost>>

(* newproc, in the child, and doexit.                                      *)
Users(p, e) == {fd \in Fds : u_files[p][fd] = e}
Counts(p, i) == (IF u_cwd[p] = i THEN 1 ELSE 0) + (IF u_root[p] = i THEN 1 ELSE 0)

Fork(p, q) ==
    /\ q \in Procs \ alive
    /\ \A i \in Inodes : Counts(p, i) > 0 => c_refs[i] + Counts(p, i) < MAXREFS
    /\ alive' = alive \cup {q}
    /\ u_files' = [u_files EXCEPT ![q] = u_files[p]]
    /\ u_cwd' = [u_cwd EXCEPT ![q] = u_cwd[p]]
    /\ u_root' = [u_root EXCEPT ![q] = u_root[p]]
    /\ of_tab' = [e \in Oft |->
                    [of_tab[e] EXCEPT !.o_refs = @ + Cardinality(Users(p, e))]]
    /\ c_refs' = [i \in Inodes |-> c_refs[i] + Counts(p, i)]
    /\ UNCHANGED lost

(* The entries of which the process has the last descriptors.              *)
Lasts(p) == {e \in Oft : Users(p, e) # {} /\ of_tab[e].o_refs = Cardinality(Users(p, e))}

ExitKeepingRoot(p) ==
    /\ alive' = alive \ {p}
    /\ u_files' = [u_files EXCEPT ![p] = [fd \in Fds |-> FREE]]
    /\ of_tab' = [e \in Oft |->
                    IF e \in Lasts(p) THEN Closed
                    ELSE [of_tab[e] EXCEPT !.o_refs = @ - Cardinality(Users(p, e))]]
    /\ c_refs' = [i \in Inodes |->
                    c_refs[i] - (Cardinality({e \in Lasts(p) : of_tab[e].o_inode = i})
                                   + (IF u_cwd[p] = i THEN 1 ELSE 0))]
    /\ UNCHANGED <<u_cwd, u_root, lost>>
Exit(p) ==
    /\ alive' = alive \ {p}
    /\ u_files' = [u_files EXCEPT ![p] = [fd \in Fds |-> FREE]]
    /\ of_tab' = [e \in Oft |->
                    IF e \in Lasts(p) THEN Closed
                    ELSE [of_tab[e] EXCEPT !.o_refs = @ - Cardinality(Users(p, e))]]
    /\ c_refs' = [i \in Inodes |->
                    c_refs[i] - (Cardinality({e \in Lasts(p) : of_tab[e].o_inode = i})
                                   + Counts(p, i))]
    /\ UNCHANGED <<u_cwd, u_root, lost>>

Next ==
    \E p \in alive :
      \/ \E i \in Inodes : Open(p, i) \/ Pipe(p, i) \/ Chdir(p, i) \/ Chroot(p, i)
      \/ \E fd \in Fds : Close(p, fd) \/ Dup(p, fd)
      \/ \E old, new \in Fds : Dup2(p, old, new)
      \/ \E q \in Procs : Fork(p, q)
      \/ Exit(p)

Spec == Init /\ [][Next]_vars
----------------------------------------------------------------------------
(* No count is taken below 0 (i_deref's panic), no call finds an entry     *)
(* without an inode (getinode's).                                          *)
TypeOK ==
    /\ alive \subseteq Procs
    /\ u_files \in [Procs -> [Fds -> Oft \cup {FREE}]]
    /\ u_cwd \in [Procs -> Inodes] /\ u_root \in [Procs -> Inodes]
    /\ of_tab \in [Oft -> OpenFile]
    /\ c_refs \in [Inodes -> Nat]
    /\ lost \in [Inodes -> Nat]

(* An entry of the open file table is used by as many descriptors as it    *)
(* counts, and has an inode as long as there is one: over dup, fork and    *)
(* exit none is freed under a descriptor and none stays without.           *)
DescriptorsOf(e) == {d \in alive \X Fds : u_files[d[1]][d[2]] = e}
OpenCounted ==
    \A e \in Oft : /\ of_tab[e].o_refs = Cardinality(DescriptorsOf(e))
                   /\ of_tab[e].o_inode = NULL <=> of_tab[e].o_refs = 0

(* An inode has as many references as open files and processes that hold   *)
(* it, and the lost ones: it is freed when the last one lets go, not       *)
(* before, and only the two calls that forget one keep it for ever.        *)
FilesOn(i) == {e \in Oft : of_tab[e].o_inode = i}
WorkingIn(i) == {p \in alive : u_cwd[p] = i}
RootedAt(i) == {p \in alive : u_root[p] = i}
RefsRight ==
    \A i \in Inodes :
        c_refs[i] = Cardinality(FilesOn(i)) + Cardinality(WorkingIn(i))
                      + Cardinality(RootedAt(i)) + lost[i]

(* What a descriptor stands for is not exchanged under it, by its owner or *)
(* by another process: while it stays on its entry, the inode is the same. *)
KeptOpen ==
    [][\A p \in alive \cap alive', fd \in Fds :
         LET e == u_files[p][fd]
         IN  e # FREE /\ u_files'[p][fd] = e => of_tab'[e].o_inode = of_tab[e].o_inode]_vars
=============================================================================
