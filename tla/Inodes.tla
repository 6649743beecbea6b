------------------------------- MODULE Inodes -------------------------------
(***************************************************************************)
(* The inodes of a UZIX file system: the copies on the disk, the table of  *)
(* those in memory, the directories that name them and the superblock's    *)
(* list of free ones (FS.C, SC1.C, SC2.C).  A call is put together from    *)
(* the functions it calls; each of these takes the state it finds to the   *)
(* states it may leave, as reads and writes may fail on the way and any    *)
(* unreferenced entry of the table may have to give way.  Nothing sleeps   *)
(* in between: one step is one system call.  Who holds the references is   *)
(* left open; panic is the absence of a next state.                        *)
(***************************************************************************)
EXTENDS Naturals, Sequences, FiniteSets

CONSTANTS
    LastInode,               \* inodes are 1 .. LastInode
    ITABSIZE, FSFREEINODES,
    MAXREFS,                 \* 12 * ITABSIZE, i_ref's limit
    LastSlot,                \* a directory has room for that many entries
    Plain,                   \* names other than "." and ".."
    Paths,                   \* up to two names each
    Slashes,                 \* whether a path may end in a slash
    MayFail                  \* whether reads and writes may fail

ROOTINODE == 1
Inodes == 1 .. LastInode
Slots == 1 .. LastSlot
Names == Plain \cup {".", ".."}
Kinds == {"reg", "dir", "pipe"}

ASSUME InodesAssumption ==
    /\ LastInode \in Nat \ {0}
    /\ ITABSIZE \in Nat \ {0} /\ FSFREEINODES \in Nat \ {0}
    /\ MAXREFS \in Nat
    /\ LastSlot \in Nat /\ LastSlot > 1
    /\ "" \notin Plain
    /\ \A p \in Paths : p \in Seq(Names) /\ Len(p) <= 2
    /\ Slashes \subseteq BOOLEAN
    /\ MayFail \in BOOLEAN

VARIABLE fs

(* node is an inode as i_open would find it: its copy in the table if it   *)
(* is one of here, the disk's otherwise.  An entry of a directory is a     *)
(* name and a number.  The last two are histories: the inodes that a slip  *)
(* below has spoiled, and how many numbers i_alloc took off for nothing.   *)
Nodes == [mode : Kinds \cup {"none"}, nlink : Nat]
Entries == [name : Names \cup {""}, ino : Inodes \cup {0}]
Filesys == [node : [Inodes -> Nodes],
            disk : [Inodes -> Nodes],
            here : SUBSET Inodes,
            c_refs : [Inodes -> Nat],
            c_dirty : [Inodes -> BOOLEAN],
            dir : [Inodes -> [Slots -> Entries]],
            s_inode : Seq(Inodes),       \* the last s_ninode come first
            s_tinode : Nat,
            condemned : BOOLEAN,         \* s_mounted is complemented
            spoiled : SUBSET Inodes,
            wasted : Nat]
----------------------------------------------------------------------------
Blank == [mode |-> "none", nlink |-> 0]
Unused == [name |-> "", ino |-> 0]
NoEntries == [s \in Slots |-> Unused]
Entry(n, i) == [name |-> n, ino |-> i]

(* What mkfs leaves, mounted, with root_ino in the table.                  *)
Made ==
    LET made == [i \in Inodes |-> IF i = ROOTINODE THEN [mode |-> "dir", nlink |-> 3]
                                                   ELSE Blank]
        free == LastInode - 1
    IN  [node |-> made, disk |-> made, here |-> {ROOTINODE},
         c_refs |-> [i \in Inodes |-> IF i = ROOTINODE THEN 1 ELSE 0],
         c_dirty |-> [i \in Inodes |-> FALSE],
         dir |-> [i \in Inodes |->
                    [s \in Slots |-> IF i = ROOTINODE /\ s = 1 THEN Entry(".", ROOTINODE)
                                     ELSE IF i = ROOTINODE /\ s = 2 THEN Entry("..", ROOTINODE)
                                     ELSE Unused]],
         s_inode |-> [k \in 1 .. (IF free < FSFREEINODES THEN free ELSE FSFREEINODES) |-> k + 1],
         s_tinode |-> free,
         condemned |-> FALSE, spoiled |-> {}, wasted |-> 0]

Spoil(f, S) == [f EXCEPT !.spoiled = @ \cup S]
SetNode(f, i, node) == [f EXCEPT !.node[i] = node, !.c_dirty[i] = TRUE]
Setftim(f, i) == [f EXCEPT !.c_dirty[i] = TRUE]
Nlink(f, i) == f.node[i].nlink
WithNlink(f, i, n) == [f EXCEPT !.node[i].nlink = n]
----------------------------------------------------------------------------
(* wr_inode: <<state, whether it returned 0>>.  When the block's write     *)
(* fails its buffer still holds the inode, but c_dirty stays.              *)
Copied(f, i) == [f EXCEPT !.disk[i] = f.node[i]]
WrInode(f, i) ==
    IF ~f.c_dirty[i] THEN {<<f, TRUE>>}
    ELSE {<<[Copied(f, i) EXCEPT !.c_dirty[i] = FALSE], TRUE>>}
           \cup (IF MayFail THEN {<<f, FALSE>>, <<Copied(f, i), FALSE>>} ELSE {})
Saved(f, i) == {r[1] : r \in WrInode(f, i)}

IRef(f, i) ==
    IF f.c_refs[i] + 1 < MAXREFS THEN {[f EXCEPT !.c_refs[i] = @ + 1]} ELSE {}

(* i_deref with i_free, which panics at the root.                          *)
FreedIfListed(f, i) ==
    [SetNode(f, i, Blank) EXCEPT
        !.dir[i] = NoEntries,
        !.s_tinode = IF Len(f.s_inode) < FSFREEINODES THEN @ + 1 ELSE @,
        !.s_inode = IF Len(@) < FSFREEINODES THEN Append(@, i) ELSE @]
Freed(f, i) ==
    [SetNode(f, i, Blank) EXCEPT
        !.dir[i] = NoEntries,
        !.s_tinode = @ + 1,
        !.s_inode = IF Len(@) < FSFREEINODES THEN Append(@, i) ELSE @]

Deref(f, i) ==
    LET g == [f EXCEPT !.c_refs[i] = @ - 1]
    IN  IF f.c_refs[i] = 0 THEN {}
        ELSE IF f.c_refs[i] > 1 THEN {g}
        ELSE IF Nlink(f, i) > 0 THEN Saved(g, i)
        ELSE IF i = ROOTINODE THEN {}
        ELSE Saved(Freed(g, i), i)
Drop(f, i) == IF i = 0 THEN {f} ELSE Deref(f, i)
DropBoth(f, i, j) == UNION {Drop(g, j) : g \in Drop(f, i)}
----------------------------------------------------------------------------
(* i_sync: entries that nobody refers to are not written.                  *)
Synced(f) ==
    LET due == {i \in f.here : f.c_dirty[i] /\ f.c_refs[i] > 0}
    IN  {[f EXCEPT !.disk = [i \in Inodes |-> IF i \in S THEN f.node[i] ELSE f.disk[i]],
                   !.c_dirty = [i \in Inodes |-> f.c_dirty[i] /\ i \notin S]] :
           S \in IF MayFail THEN SUBSET due ELSE {due}}

(* i_alloc: <<state, number or 0>>.  The scan of the disk goes up and ends *)
(* after some block when it has found enough.                              *)
Condemned(f) == <<[f EXCEPT !.condemned = TRUE], 0>>
PopUnchecked(f) ==
    <<[f EXCEPT !.s_inode = SubSeq(@, 1, Len(@) - 1), !.s_tinode = @ - 1],
      f.s_inode[Len(f.s_inode)]>>
Pop(f) ==
    IF f.s_tinode = 0 THEN Condemned(f)
    ELSE <<[f EXCEPT !.s_inode = SubSeq(@, 1, Len(@) - 1), !.s_tinode = @ - 1],
           f.s_inode[Len(f.s_inode)]>>

Listings(f) ==
    LET unused == {i \in Inodes : f.disk[i] = Blank}
    IN  {s \in UNION {[1 .. k -> unused] : k \in 1 .. FSFREEINODES} :
           /\ \A j, k \in DOMAIN s : j < k => s[j] < s[k]
           /\ \A u \in unused, k \in DOMAIN s : u < s[k] => \E j \in DOMAIN s : s[j] = u}

IAlloc(f) ==
    IF f.s_inode # <<>> THEN {Pop(f)}
    ELSE UNION {{Pop([g EXCEPT !.s_inode = s]) : s \in Listings(g)}
                  \cup (IF Listings(g) # {} THEN {}
                        ELSE IF g.s_tinode # 0 THEN {Condemned(g)} ELSE {<<g, 0>>})
                  \cup (IF MayFail THEN {<<g, 0>>} ELSE {}) : g \in Synced(f)}
----------------------------------------------------------------------------
(* i_open finds the inode in the table or reads it over an unreferenced    *)
(* entry v, or a free one (0), whose c_dirty stays.  What v held and was   *)
(* not written is lost.  When the buffer cannot be released v keeps its    *)
(* number with the other's contents.                                       *)
Victims(f) ==
    {v \in f.here : f.c_refs[v] = 0}
      \cup (IF Cardinality(f.here) < ITABSIZE THEN {0} ELSE {})

Unsaved(f, v) == IF f.node[v] # f.disk[v] THEN {v} ELSE {}
Over(f, i, v) ==
    IF v = 0 THEN [f EXCEPT !.here = @ \cup {i}]
    ELSE [Spoil(f, Unsaved(f, v)) EXCEPT
             !.here = (@ \ {v}) \cup {i},
             !.node[v] = f.disk[v],
             !.c_dirty = [@ EXCEPT ![v] = FALSE, ![i] = f.c_dirty[v]]]
Mixed(f, i, v) ==
    IF v = 0 THEN f ELSE [Spoil(f, {v}) EXCEPT !.node[v] = f.disk[i]]

Fetched(f, i) ==
    IF i \in f.here THEN {<<f, TRUE>>}
    ELSE {<<Over(f, i, v), TRUE>> : v \in Victims(f)}
           \cup (IF MayFail \/ Victims(f) = {} THEN {<<f, FALSE>>} ELSE {})
           \cup (IF MayFail THEN {<<Mixed(f, i, v), FALSE>> : v \in Victims(f)} ELSE {})

(* i_open: <<state, number or 0>>.                                         *)
IOpen(f, i) ==
    UNION {IF r[2] /\ r[1].node[i].mode # "none" /\ Nlink(r[1], i) # 0
           THEN {<<g, i>> : g \in IRef(r[1], i)} ELSE {<<r[1], 0>>} : r \in Fetched(f, i)}

(* i_open(NULLINO)                                                         *)
Wasted(f) == [f EXCEPT !.wasted = @ + 1]
TakenUnchecked(f, i) ==
    UNION {IF r[2]
           THEN {<<g, i>> : g \in IRef(IF r[1].c_refs[i] = 0 THEN r[1] ELSE Wasted(r[1]), i)}
           ELSE {<<Wasted(r[1]), 0>>} : r \in Fetched(f, i)}
Taken(f, i) ==
    UNION {IF r[2] /\ r[1].node[i] = Blank
           THEN {<<g, i>> : g \in IRef(IF r[1].c_refs[i] = 0 THEN r[1] ELSE Wasted(r[1]), i)}
           ELSE {<<Wasted(r[1]), 0>>} : r \in Fetched(f, i)}
NewInode(f) ==
    UNION {IF a[2] = 0 THEN {a} ELSE Taken(a[1], a[2]) : a \in IAlloc(f)}
----------------------------------------------------------------------------
(* srch_dir: <<state, inode or 0>>.  An inode that cannot be opened is not *)
(* told from a name that is not there.                                     *)
First(f, d, n, s) == f.dir[d][s].name = n /\ \A t \in 1 .. s - 1 : f.dir[d][t].name # n
SrchDir(f, d, n) ==
    IF \A s \in Slots : f.dir[d][s].name # n THEN {<<f, 0>>}
    ELSE UNION {IOpen(f, f.dir[d][s].ino) : s \in {s \in Slots : First(f, d, n, s)}}

(* _namei: <<state, parent or 0, inode or 0>>, both referenced.  One turn  *)
(* of its loop takes a name of the path; a read that fails in srch_dir, a  *)
(* missing inode or one that is no directory ends it.                      *)
Lost(f, i) == {<<g, 0, 0>> : g \in Deref(f, i)}
Turn(r, n) ==
    IF r[2] = 0 THEN {r}
    ELSE IF r[3] = 0 THEN Lost(r[1], r[2])
    ELSE UNION {IF g.node[r[3]].mode # "dir" THEN Lost(g, r[3])
                ELSE {<<c[1], r[3], c[2]>> : c \in SrchDir(g, r[3], n)}
                       \cup (IF MayFail THEN Lost(g, r[3]) ELSE {}) : g \in Deref(r[1], r[2])}

(* A path begins at u_cwd or u_root, which are referenced.                 *)
MayStart(f, d) == f.c_refs[d] > 0 /\ f.node[d].mode = "dir"
Start(f, d) == {<<h, d, d>> : h \in UNION {IRef(g, d) : g \in IRef(f, d)}}
Namei(f, d, p) ==
    IF Len(p) = 0 THEN Start(f, d)
    ELSE LET one == UNION {Turn(r, p[1]) : r \in Start(f, d)}
         IN  IF Len(p) = 1 THEN one ELSE UNION {Turn(r, p[2]) : r \in one}

(* namei(path, NULL, ..): <<state, inode or 0>>                            *)
Look(f, d, p) == UNION {{<<g, r[3]>> : g \in Drop(r[1], r[2])} : r \in Namei(f, d, p)}

(* filename() of a path that ends in a slash, or has no name, is "".       *)
Filename(p, slash) == IF slash \/ p = <<>> THEN "" ELSE p[Len(p)]

(* ch_link: <<state, whether it returned 1>>.  The first entry called old, *)
(* or without a name, becomes e.  When writing it out fails it is in the   *)
(* directory all the same.                                                 *)
NoRoom(f, d) == f.dir[d] = NoEntries \/ \A s \in Slots : f.dir[d][s].name # ""
ChLink(f, d, old, e) ==
    LET at == {s \in Slots : First(f, d, old, s)}
        changed == {[f EXCEPT !.dir[d][s] = e] : s \in at}
    IN  {<<Setftim(g, d), TRUE>> : g \in changed}
          \cup (IF MayFail THEN {<<g, FALSE>> : g \in changed} ELSE {})
          \cup (IF MayFail \/ at = {} \/ (old = "" /\ NoRoom(f, d))
                THEN {<<f, FALSE>>} ELSE {})
----------------------------------------------------------------------------
(* newfile: <<state, inode or 0>>.  It gives the parent back but for one   *)
(* that may not be written.                                                *)
NewFile(f, parent, n) ==
    {<<f, 0>>} \cup
    UNION {IF a[2] = 0 THEN {<<g, 0>> : g \in Deref(a[1], parent)}
           ELSE UNION {UNION {IF l[2] THEN {<<h, a[2]>> : h \in Deref(l[1], parent)}
                              ELSE {<<h, 0>> : h \in DropBoth(l[1], a[2], parent)} :
                                l \in ChLink(g, parent, "", Entry(n, a[2]))} :
                  g \in Saved(SetNode(a[1], a[2], [mode |-> "reg", nlink |-> 1]), a[2])} :
           a \in NewInode(f)}

(* The rest of n_creat for a directory: <<state, whether it got through>>. *)
CountedForOne(f, i, parent) == Setftim(WithNlink(f, i, Nlink(f, i) + 1), i)
Counted(f, i, parent) ==
    Setftim(WithNlink(WithNlink(f, i, Nlink(f, i) + 1), parent, Nlink(f, parent) + 1), parent)
Dots(f, i, parent) ==
    UNION {IF ~one[2] THEN {<<Spoil(one[1], {i}), FALSE>>}
           ELSE {IF two[2]
                 THEN <<Counted(two[1], i, parent), TRUE>>
                 ELSE <<Spoil(two[1], {i, parent}), FALSE>> :
                   two \in ChLink(one[1], i, "", Entry("..", parent))} :
           one \in ChLink(f, i, "", Entry(".", i))}

(* n_creat: <<state, inode or 0>>.  When it fails in Dots it gives back    *)
(* the parent that newfile has given back.                                 *)
Truncated(f, i) == IF f.node[i].mode = "reg" THEN Setftim(f, i) ELSE f
Finish(f, i) ==
    UNION {IF w[2] THEN {<<w[1], i>>} ELSE {<<g, 0>> : g \in Deref(w[1], i)} : w \in WrInode(f, i)}
NCreat(f, d, p, slash, new, mode) ==
    UNION {IF r[3] # 0
           THEN IF new THEN {<<g, 0>> : g \in DropBoth(r[1], r[2], r[3])}
                ELSE UNION {IF g.node[r[3]].mode = "dir" THEN {<<h, 0>> : h \in Deref(g, r[3])}
                            ELSE Finish(Truncated(g, r[3]), r[3]) : g \in Deref(r[1], r[2])}
           ELSE IF r[2] = 0 THEN {<<r[1], 0>>}
           ELSE UNION {IF a[2] = 0 THEN {a}
                       ELSE LET g == SetNode(a[1], a[2], [mode |-> mode, nlink |-> 1])
                            IN  IF mode # "dir" THEN Finish(g, a[2])
                                ELSE UNION {IF m[2] THEN Finish(m[1], a[2])
                                            ELSE {<<h, 0>> : h \in DropBoth(m[1], r[2], a[2])} :
                                              m \in Dots(g, a[2], r[2])} :
                       a \in NewFile(r[1], r[2], Filename(p, slash))} :
           r \in Namei(f, d, p)}
----------------------------------------------------------------------------
Init == fs = Made

(* open, and what stat, access, chdir and others begin with.               *)
Open(d, p) == MayStart(fs, d) /\ fs' \in {r[1] : r \in Look(fs, d, p)}

(* open(O_CREAT): n_creat follows when the name has not been found, or at  *)
(* once (O_NEW).  A call that then gives up is followed by Release.        *)
Truncatable(r) == {r[1]} \cup (IF r[2] = 0 THEN {} ELSE {Truncated(r[1], r[2])})
Creat(d, p, slash) ==
    /\ MayStart(fs, d)
    /\ \/ \E r \in Look(fs, d, p) :
            \/ r[2] # 0 /\ fs' \in Truncatable(r)
            \/ r[2] = 0 /\ \E a \in NCreat(r[1], d, p, slash, FALSE, "reg") : fs' \in Truncatable(a)
       \/ \E a \in NCreat(fs, d, p, slash, TRUE, "reg") : fs' \in Truncatable(a)

(* mknod and mkdir.                                                        *)
Mknod(d, p, slash, mode) ==
    /\ MayStart(fs, d)
    /\ \E a \in NCreat(fs, d, p, slash, TRUE, mode) :
         IF a[2] = 0 THEN fs' = a[1] ELSE fs' \in UNION {Deref(g, a[2]) : g \in Saved(a[1], a[2])}

Link(d, p, e, q, slash) ==
    /\ MayStart(fs, d) /\ MayStart(fs, e)
    /\ \E r \in Look(fs, d, p) :
         IF r[2] = 0 THEN fs' = r[1]
         ELSE \E n \in Namei(r[1], e, q) :
           IF n[3] # 0 \/ n[2] = 0
           THEN fs' \in UNION {DropBoth(g, n[2], r[2]) : g \in Drop(n[1], n[3])}
           ELSE \E l \in ChLink(n[1], n[2], "", Entry(Filename(q, slash), r[2])) :
             IF ~l[2] THEN fs' \in DropBoth(Spoil(l[1], {r[2]}), n[2], r[2])
             ELSE \E w \in WrInode(WithNlink(l[1], r[2], Nlink(l[1], r[2]) + 1), r[2]) :
                    fs' \in DropBoth(Setftim(w[1], r[2]), n[2], r[2])

(* The count goes down whatever entry ch_link has removed.                 *)
LessOne(k) == IF k = 0 THEN 1 ELSE k - 1
UnlinkedUnstamped(f, i) == WithNlink(f, i, LessOne(Nlink(f, i)))
Unlinked(f, i) == Setftim(WithNlink(f, i, LessOne(Nlink(f, i))), i)

Unlink(d, p, slash) ==
    /\ MayStart(fs, d)
    /\ \E r \in Namei(fs, d, p) :
         IF r[3] = 0 THEN fs' \in Drop(r[1], r[2])
         ELSE \E l \in ChLink(r[1], r[2], Filename(p, slash), Unused) :
           IF ~l[2] THEN fs' \in DropBoth(l[1], r[2], r[3])
           ELSE fs' \in DropBoth(Spoil(Unlinked(l[1], r[3]),
                                       IF Filename(p, slash) = "" THEN {r[3]} ELSE {}),
                                 r[2], r[3])

(* pipe: without a descriptor for it the new inode stays referenced, with  *)
(* one of the two it is given back.                                        *)
Pipe ==
    \E a \in NewInode(fs) :
      IF a[2] = 0 THEN fs' = a[1]
      ELSE \/ fs' = [a[1] EXCEPT !.node[a[2]] = [mode |-> "pipe", nlink |-> 0],
                                 !.c_refs[a[2]] = @ + 1]
           \/ fs' = a[1]
           \/ fs' \in Deref(a[1], a[2])

(* fork and chroot; close, chdir and exit; writing, chmod and others.      *)
Hold(i) == fs.c_refs[i] > 0 /\ fs' \in IRef(fs, i)
Release(i) == fs' \in Deref(fs, i)
Touch(i) == fs.c_refs[i] > 0 /\ fs' = Setftim(fs, i)
Sync == fs' \in Synced(fs)

Next ==
    \/ \E d \in Inodes, p \in Paths :
         \/ Open(d, p)
         \/ \E slash \in Slashes : Creat(d, p, slash) \/ Unlink(d, p, slash)
         \/ \E slash \in Slashes, mode \in {"reg", "dir"} : Mknod(d, p, slash, mode)
         \/ \E e \in Inodes, q \in Paths, slash \in Slashes : Link(d, p, e, q, slash)
    \/ Pipe
    \/ \E i \in Inodes : Hold(i) \/ Release(i) \/ Touch(i)
    \/ Sync

Spec == Init /\ [][Next]_fs
----------------------------------------------------------------------------
TypeOK == fs \in Filesys

(* A place in a directory where an inode's name stands.                    *)
NamesOf(f, i) ==
    {e \in Inodes \X Slots : LET n == f.dir[e[1]][e[2]] IN n.name # "" /\ n.ino = i}

(* i_nlink, Unix.h:209: "number of links to file".                         *)
LinksCounted ==
    \A i \in Inodes : Cardinality(NamesOf(fs, i)) <= fs.node[i].nlink

(* Names lead to inodes that are in use and have at least as many links,   *)
(* but for those whose copy was thrown away unwritten, whose directory was *)
(* written by a call that then failed, or whose name ended in a slash.     *)
NamesHold ==
    \A i \in Inodes \ fs.spoiled :
        /\ Cardinality(NamesOf(fs, i)) <= fs.node[i].nlink
        /\ fs.node[i].mode = "none" => NamesOf(fs, i) = {}

(* An inode that is not marked as modified is on the disk as it is in      *)
(* memory; pipes alone are not written when they are made.                 *)
CleanSaved ==
    \A i \in Inodes \ fs.spoiled :
        ~fs.c_dirty[i] /\ fs.node[i].mode # "pipe" => fs.node[i] = fs.disk[i]

(* s_tinode is the number of inodes that i_alloc may give out, less those  *)
(* that it gave out in vain.                                               *)
Available(f) == {i \in Inodes : f.node[i] = Blank /\ f.c_refs[i] = 0}
InodeCount == fs.spoiled = {} => fs.s_tinode + fs.wasted = Cardinality(Available(fs))

(* Nobody's inode is made into another: not by i_alloc, whose list may     *)
(* hold numbers in use, nor by what takes over its entry of the table.     *)
KeptWhileHeld ==
    [][\A i \in Inodes :
         fs.c_refs[i] > 0 /\ fs'.c_refs[i] > 0 /\ fs.node[i].mode # "none"
           => fs'.node[i].mode = fs.node[i].mode]_fs
=============================================================================
