------------------------------- MODULE Mounts -------------------------------
(***************************************************************************)
(* Mounted file systems (FS.C, SC1.C).  fs_tab names the mounted devices;  *)
(* each slot points to the entry of i_tab that holds the directory in      *)
(* whose place the device stands.  An entry is taken over for another      *)
(* inode as soon as nobody refers to it: only the reference that fmount    *)
(* takes keeps the pointer good.  Looking a path up goes by the pointers.  *)
(* Nothing sleeps on the way, so that a path of many names is as many      *)
(* calls with one name; what a function may do is the set of the tables it *)
(* may leave, each with its result; panic is the absence of one.           *)
(***************************************************************************)
EXTENDS Naturals, FiniteSets

CONSTANTS
    Devs, ROOTDEV, NFS,
    Entries,                 \* of i_tab
    NULL,
    MAXREFS,                 \* 12 * ITABSIZE, i_ref's limit
    Nums, ROOTINODE,         \* inode numbers
    Names,
    Upward,                  \* names with a dot in the second place, ".." among them
    Child,                   \* the inode that a directory has under a name, or NULL
    Special,                 \* the device that an inode is the special file of, or NULL
    Directories,
    Holders, Keeper,         \* roots, working directories and open files; init's root
    MayFail                  \* whether reads may fail, and permissions be missing

Inodes == Devs \X Nums
Root(d) == <<d, ROOTINODE>>
Slots == 1 .. NFS

ASSUME MountsAssumption ==
    /\ ROOTDEV \in Devs /\ NFS \in Nat \ {0}
    /\ Entries # {} /\ NULL \notin Entries /\ NULL \notin Inodes /\ NULL \notin Devs
    /\ IsFiniteSet(Entries) /\ IsFiniteSet(Holders)
    /\ MAXREFS \in Nat /\ MAXREFS > 2
    /\ ROOTINODE \in Nums
    /\ Upward \subseteq Names
    /\ Child \in [Inodes -> [Names -> Inodes \cup {NULL}]]
    /\ \A i \in Inodes, n \in Names : Child[i][n] # NULL => Child[i][n][1] = i[1]
    /\ Special \in [Inodes -> Devs \cup {NULL}]
    /\ Directories \subseteq Inodes
    /\ \A d \in Devs : Root(d) \in Directories
    /\ Keeper \in Holders
    /\ MayFail \in BOOLEAN

VARIABLES
    i_tab, fs_tab,
    at,                      \* the entry that each holder refers to, or NULL
    \* histories
    asked,                   \* the inode that the last path was followed from, its name
    lost,                    \* the references to each entry that a chdir has forgotten
    snared                   \* a mount failed and left a slot with an old pointer

vars == <<i_tab, fs_tab, at, asked, lost, snared>>

Entry == [ino : Inodes \cup {NULL}, c_refs : Nat]
Slot == [state : {"free", "locked", "mounted"}, s_dev : Devs, s_mntpt : Entries \cup {NULL}]
Asked(e, n) == asked' = <<i_tab[e].ino, n>>
----------------------------------------------------------------------------
(* findfs: the slots that are not free, locked ones included.              *)
Taken(s) == fs_tab[s].state # "free"
Listed(d) == \E s \in Slots : Taken(s) /\ fs_tab[s].s_dev = d
Findfs(s, d) ==
    /\ Taken(s) /\ fs_tab[s].s_dev = d
    /\ \A r \in Slots : r < s => ~(Taken(r) /\ fs_tab[r].s_dev = d)

IRef(t, e) == IF t[e].c_refs + 1 < MAXREFS THEN {[t EXCEPT ![e].c_refs = @ + 1]} ELSE {}
Deref(t, e) == IF t[e].c_refs = 0 THEN {} ELSE {[t EXCEPT ![e].c_refs = @ - 1]}
DropBoth(t, e, g) == UNION {Deref(u, g) : u \in Deref(t, e)}

(* i_open: <<table, entry or NULL>>.                                       *)
Idle(t) == {e \in Entries : t[e].c_refs = 0}
IOpen(t, i) ==
    IF ~Listed(i[1]) THEN {}
    ELSE IF \E e \in Entries : t[e].ino = i
    THEN UNION {{<<u, e>> : u \in IRef(t, e)} : e \in {e \in Entries : t[e].ino = i}}
    ELSE {<<[t EXCEPT ![e] = [ino |-> i, c_refs |-> 1]], e>> : e \in Idle(t)}
           \cup (IF MayFail \/ Idle(t) = {} THEN {<<t, NULL>>} ELSE {})

(* srch_mt                                                                 *)
PointsTo(s, e) == Taken(s) /\ fs_tab[s].s_mntpt = e
FirstOn(e) == {s \in Slots : PointsTo(s, e) /\ \A r \in Slots : r < s => ~PointsTo(r, e)}
SrchMt(t, e) ==
    IF \A s \in Slots : ~PointsTo(s, e) THEN {<<t, e>>}
    ELSE UNION {UNION {IOpen(u, Root(fs_tab[s].s_dev)) : u \in Deref(t, e)} : s \in FirstOn(e)}

(* Going up through a mount point.                                         *)
UpAnywhere(t, e, n) ==
    IF t[e].ino[1] # ROOTDEV /\ n \in Upward
    THEN UNION {UNION {{<<v, fs_tab[s].s_mntpt>> : v \in IRef(u, fs_tab[s].s_mntpt)} :
                         u \in Deref(t, e)} :
                  s \in {s \in Slots : Findfs(s, t[e].ino[1]) /\ fs_tab[s].s_mntpt # NULL}}
    ELSE {<<t, e>>}
Up(t, e, n) ==
    IF t[e].ino[2] = ROOTINODE /\ t[e].ino[1] # ROOTDEV /\ n \in Upward
    THEN UNION {UNION {{<<v, fs_tab[s].s_mntpt>> : v \in IRef(u, fs_tab[s].s_mntpt)} :
                         u \in Deref(t, e)} :
                  s \in {s \in Slots : Findfs(s, t[e].ino[1]) /\ fs_tab[s].s_mntpt # NULL}}
    ELSE {<<t, e>>}

(* srch_dir and the srch_mt that follows.                                  *)
Search(t, e, n) ==
    LET i == Child[t[e].ino][n]
    IN  IF i = NULL THEN {<<t, NULL>>}
        ELSE UNION {IF r[2] = NULL THEN {r} ELSE SrchMt(r[1], r[2]) : r \in IOpen(t, i)}

(* namei of a path with one name, from entry b; the parent is given back.  *)
Without(r, e) == {<<u, r[2]>> : u \in Deref(r[1], e)}
Lost(t, e) == Without(<<t, NULL>>, e)
Past(t, e, n) ==
    (UNION {Without(r, e) : r \in Search(t, e, n)})
      \cup {r \in Lost(t, e) : MayFail}
Inside(t, e, n) ==
    IF t[e].ino \notin Directories THEN Lost(t, e)
    ELSE UNION {Past(w[1], w[2], n) : w \in Up(t, e, n)}
Namei(tab, b, n) ==
    UNION {UNION {IF r[2] = NULL THEN Lost(r[1], b)
                  ELSE UNION {Inside(u, r[2], n) : u \in Deref(r[1], b)} : r \in SrchMt(v, b)} :
             v \in UNION {IRef(u, b) : u \in IRef(tab, b)}}
----------------------------------------------------------------------------
Init ==
    \E e \in Entries :
      /\ i_tab = [f \in Entries |-> IF f = e
                    THEN [ino |-> Root(ROOTDEV), c_refs |-> 1]
                    ELSE [ino |-> NULL, c_refs |-> 0]]
      /\ fs_tab = [s \in Slots |-> [state |-> IF s = NFS THEN "mounted" ELSE "free",
                                    s_dev |-> ROOTDEV, s_mntpt |-> NULL]]
      /\ at = [h \in Holders |-> IF h = Keeper THEN e ELSE NULL]
      /\ asked = <<>>
      /\ lost = [f \in Entries |-> 0]
      /\ snared = FALSE

(* open; chdir, which wants a directory and, when it may not enter it,      *)
(* keeps the reference of namei for nobody; close and fork.                *)
Open(h, s, n) ==
    /\ at[h] = NULL /\ at[s] # NULL /\ Asked(at[s], n)
    /\ \E r \in Namei(i_tab, at[s], n) :
         /\ i_tab' = r[1]
         /\ at' = [at EXCEPT ![h] = r[2]]
    /\ UNCHANGED <<fs_tab, lost, snared>>

Refused(t, e) == i_tab' = t /\ lost' = [lost EXCEPT ![e] = @ + 1]
Chdir(h, n) ==
    /\ at[h] # NULL /\ h # Keeper /\ Asked(at[h], n)
    /\ \E r \in Namei(i_tab, at[h], n) :
         IF r[2] = NULL THEN i_tab' = r[1] /\ UNCHANGED <<at, lost>>
         ELSE IF r[1][r[2]].ino \notin Directories
         THEN i_tab' \in Deref(r[1], r[2]) /\ UNCHANGED <<at, lost>>
         ELSE \/ /\ i_tab' \in Deref(r[1], at[h])
                 /\ at' = [at EXCEPT ![h] = r[2]]
                 /\ UNCHANGED lost
              \/ MayFail /\ Refused(r[1], r[2]) /\ UNCHANGED at
    /\ UNCHANGED <<fs_tab, snared>>

Close(h) ==
    /\ at[h] # NULL /\ h # Keeper
    /\ i_tab' \in Deref(i_tab, at[h])
    /\ at' = [at EXCEPT ![h] = NULL]
    /\ UNCHANGED <<fs_tab, asked, lost, snared>>

Fork(h, g) ==
    /\ at[h] # NULL /\ at[g] = NULL
    /\ i_tab' \in IRef(i_tab, at[h])
    /\ at' = [at EXCEPT ![g] = at[h]]
    /\ UNCHANGED <<fs_tab, asked, lost, snared>>

(* fmount takes the last slot that is free.  When the superblock cannot be *)
(* read the slot stays locked with the s_mntpt it had; when it is none the *)
(* slot is free again with what was read.                                  *)
LastFree(s) == ~Taken(s) /\ \A r \in Slots : s < r => Taken(r)
FmountUnreferenced(t, d, e) ==
    \E s \in {s \in Slots : LastFree(s)} :
      /\ fs_tab' = [fs_tab EXCEPT ![s] = [state |-> "mounted", s_dev |-> d, s_mntpt |-> e]]
      /\ i_tab' \in Deref(t, e)
      /\ UNCHANGED snared
Fmount(t, d, e) ==
    \E s \in {s \in Slots : LastFree(s)} :
      \/ /\ fs_tab' = [fs_tab EXCEPT ![s] = [state |-> "mounted", s_dev |-> d, s_mntpt |-> e]]
         /\ i_tab' \in UNION {Deref(u, e) : u \in IRef(t, e)}
         /\ UNCHANGED snared
      \/ /\ MayFail
         /\ fs_tab' = [fs_tab EXCEPT ![s].state = "locked", ![s].s_dev = d]
         /\ i_tab' \in Deref(t, e)
         /\ snared' = (snared \/ fs_tab[s].s_mntpt # NULL)
      \/ /\ MayFail
         /\ \E g \in Entries \cup {NULL} :
              fs_tab' = [fs_tab EXCEPT ![s] = [state |-> "free", s_dev |-> d, s_mntpt |-> g]]
         /\ i_tab' \in Deref(t, e)
         /\ UNCHANGED snared

(* mount: path m of the device, then path n of the directory.              *)
MayMountAnyFile(t, d, e) ==
    /\ t[e].ino \in Directories
    /\ ~Listed(d)
    /\ t[e].c_refs = 1
    /\ t[e].ino[2] # ROOTINODE
MayMountInUse(t, d, e) ==
    /\ d # NULL
    /\ t[e].ino \in Directories
    /\ ~Listed(d)
    /\ t[e].ino[2] # ROOTINODE
MayMount(t, d, e) ==
    /\ d # NULL
    /\ t[e].ino \in Directories
    /\ ~Listed(d)
    /\ t[e].c_refs = 1
    /\ t[e].ino[2] # ROOTINODE

Mount(h, m, g, n) ==
    /\ at[h] # NULL /\ at[g] # NULL /\ Asked(at[g], n)
    /\ \E q \in Namei(i_tab, at[h], m) :
         IF q[2] = NULL THEN i_tab' = q[1] /\ UNCHANGED <<fs_tab, snared>>
         ELSE \E r \in Namei(q[1], at[g], n) :
           IF r[2] = NULL THEN i_tab' \in Deref(r[1], q[2]) /\ UNCHANGED <<fs_tab, snared>>
           ELSE LET d == Special[r[1][q[2]].ino]
                    full == \A s \in Slots : Taken(s)
                IN  \/ /\ ~MayMount(r[1], d, r[2]) \/ full \/ MayFail
                       /\ i_tab' \in DropBoth(r[1], r[2], q[2])
                       /\ UNCHANGED <<fs_tab, snared>>
                    \/ /\ MayMount(r[1], d, r[2])
                       /\ \E t \in Deref(r[1], q[2]) : Fmount(t, d, r[2])
    /\ UNCHANGED <<at, lost>>

(* umount: what sys_sync writes is left out.                               *)
Busy(t, d) == \E e \in Entries : t[e].c_refs > 0 /\ t[e].ino[1] = d
Umount(h, m) ==
    /\ at[h] # NULL /\ Asked(at[h], m)
    /\ \E q \in Namei(i_tab, at[h], m) :
         IF q[2] = NULL THEN i_tab' = q[1] /\ UNCHANGED fs_tab
         ELSE LET d == Special[q[1][q[2]].ino]
              IN  IF d = NULL \/ ~Listed(d) \/ Busy(q[1], d)
                  THEN i_tab' \in Deref(q[1], q[2]) /\ UNCHANGED fs_tab
                  ELSE \E s \in {s \in Slots : Findfs(s, d) /\ fs_tab[s].s_mntpt # NULL} :
                         /\ fs_tab' = [fs_tab EXCEPT ![s].state = "free"]
                         /\ i_tab' \in DropBoth(q[1], fs_tab[s].s_mntpt, q[2])
    /\ UNCHANGED <<at, lost, snared>>

Next ==
    \/ \E h \in Holders, n \in Names :
         \/ \E s \in Holders : Open(h, s, n)
         \/ Chdir(h, n)
         \/ \E g \in Holders, m \in Names : Mount(h, m, g, n)
         \/ Umount(h, n)
    \/ \E h \in Holders : Close(h) \/ \E g \in Holders : Fork(h, g)

Spec == Init /\ [][Next]_vars
----------------------------------------------------------------------------
(* With an old pointer in force anything may be looked up in: all that is  *)
(* said holds up to then.                                                  *)
TypeOK ==
    /\ snared \in BOOLEAN
    /\ ~snared =>
         /\ i_tab \in [Entries -> Entry]
         /\ fs_tab \in [Slots -> Slot]
         /\ at \in [Holders -> Entries \cup {NULL}]
         /\ at[Keeper] # NULL
         /\ lost \in [Entries -> Nat]

(* Every entry of i_tab has the references of its holders, of the mounts   *)
(* on it, and those that a refused chdir has forgotten: none is given back *)
(* twice, and no other one kept, over mounts that fail, umounts and paths  *)
(* that lead up and down through them.                                     *)
HoldersOf(e) == {h \in Holders : at[h] = e}
MountsOn(e) == {s \in Slots : Taken(s) /\ fs_tab[s].s_mntpt = e}
RefsExact ==
    ~snared => \A e \in Entries :
        i_tab[e].c_refs = Cardinality(HoldersOf(e)) + Cardinality(MountsOn(e)) + lost[e]

(* What is in use lies on a device in fs_tab and is no directory that      *)
(* another file system covers; and the file systems hang together: of any  *)
(* mounted devices but the root one, one stands on a device outside.       *)
InUse(e) == i_tab[e].c_refs > 0
OnMounted(e) == i_tab[e].ino # NULL /\ Listed(i_tab[e].ino[1])
MountedDevs == {fs_tab[s].s_dev : s \in {s \in Slots : fs_tab[s].s_mntpt # NULL /\ Taken(s)}}
StandsOn(d, c) ==
    \E s \in Slots : /\ Taken(s) /\ fs_tab[s].s_dev = d /\ fs_tab[s].s_mntpt # NULL
                     /\ i_tab[fs_tab[s].s_mntpt].ino[1] = c
TreeStands ==
    ~snared =>
        /\ \A e \in Entries : InUse(e) => OnMounted(e)
        /\ \A h \in Holders : at[h] # NULL => MountsOn(at[h]) = {}
        /\ \A D \in SUBSET MountedDevs : D # {} => \E d \in D : \E c \in Devs \ D : StandsOn(d, c)

(* All this is the name space of Namespace: pointers to entries that are   *)
(* used again lead where the inodes once mounted on would.                 *)
PointOf(d) ==
    CHOOSE e \in Entries : \E s \in Slots : Taken(s) /\ fs_tab[s].s_dev = d /\ fs_tab[s].s_mntpt = e
Place(h) == IF at[h] = NULL THEN NULL ELSE i_tab[at[h]].ino
Paths == INSTANCE Namespace WITH
    None <- NULL,
    DevOf <- [i \in Inodes |-> i[1]],
    RootDir <- [d \in Devs |-> Root(d)],
    at <- [h \in Holders |-> Place(h)],
    on <- [d \in MountedDevs |-> i_tab[PointOf(d)].ino],
    broken <- snared
NamespaceSpec == Paths!Spec
=============================================================================
