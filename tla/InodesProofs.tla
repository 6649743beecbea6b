---------------------------- MODULE InodesProofs ----------------------------
(***************************************************************************)
(* Proofs about Inodes, for any numbers of inodes, entries, references and *)
(* paths.                                                                  *)
(***************************************************************************)
EXTENDS Inodes, FiniteSetTheorems, TLAPS

Zero == [i \in Inodes |-> 0]
Plus(own, i) == IF i = 0 THEN own ELSE [own EXCEPT ![i] = @ + 1]
Minus(own, i) == IF i = 0 THEN own ELSE [own EXCEPT ![i] = @ - 1]
Bags == [Inodes -> Nat]

(* What holds between two calls, and at most points inside one.            *)
Placed(f) ==
    \A i \in Inodes : (f.c_refs[i] > 0 => i \in f.here) /\ (f.c_dirty[i] => i \in f.here)
Clean(f) ==
    \A i \in Inodes \ f.spoiled :
        ~f.c_dirty[i] /\ f.node[i].mode # "pipe" => f.node[i] = f.disk[i]
Entered(f) ==
    \A d \in Inodes, s \in Slots : f.dir[d][s].name # "" => f.dir[d][s].ino # 0
Named(f, debt) ==
    \A i \in Inodes \ f.spoiled :
        /\ Cardinality(NamesOf(f, i)) <= f.node[i].nlink + debt[i]
        /\ f.node[i].mode = "none" => NamesOf(f, i) = {}
Tallied(f, k) ==
    f.spoiled = {} => f.s_tinode + f.wasted + k = Cardinality(Available(f))

Good(f, k) ==
    f \in Filesys /\ Placed(f) /\ Clean(f) /\ Entered(f) /\ Named(f, Zero) /\ Tallied(f, k)

(* What a call that began in e, with own[i] references to i of its own,    *)
(* owes to those who hold inodes.                                          *)
Owed(e, f, own) ==
    \A i \in Inodes :
        /\ f.c_refs[i] >= e.c_refs[i] + own[i]
        /\ e.c_refs[i] > 0 /\ e.node[i].mode # "none" => f.node[i].mode = e.node[i].mode
        /\ own[i] > 0 => f.node[i].mode # "none" /\ (e.c_refs[i] > 0 \/ f.node[i].nlink # 0)

Mid(e, f, own, k) == Good(f, k) /\ Owed(e, f, own)

(* And when it returns.                                                    *)
Kept(e, f) ==
    \A i \in Inodes :
        e.c_refs[i] > 0 /\ f.c_refs[i] > 0 /\ e.node[i].mode # "none"
          => f.node[i].mode = e.node[i].mode
End(e, f) == Good(f, 0) /\ Kept(e, f)

(* A step inside a call that changes nothing that is held.                 *)
Calm(f, g) ==
    /\ g \in Filesys /\ Placed(g) /\ Clean(g)
    /\ g.c_refs = f.c_refs /\ g.dir = f.dir
    /\ g.s_tinode = f.s_tinode /\ g.wasted = f.wasted
    /\ f.spoiled \subseteq g.spoiled
    /\ \A i \in Inodes :
         g.node[i] = f.node[i] \/ (f.c_refs[i] = 0 /\ i \in g.spoiled)
----------------------------------------------------------------------------
LEMMA Fields ==
    ASSUME NEW f \in Filesys
    PROVE  /\ f.node \in [Inodes -> Nodes] /\ f.disk \in [Inodes -> Nodes]
           /\ f.here \subseteq Inodes
           /\ f.c_refs \in [Inodes -> Nat] /\ f.c_dirty \in [Inodes -> BOOLEAN]
           /\ f.dir \in [Inodes -> [Slots -> Entries]]
           /\ f.s_inode \in Seq(Inodes) /\ f.s_tinode \in Nat
           /\ f.condemned \in BOOLEAN /\ f.spoiled \subseteq Inodes /\ f.wasted \in Nat
BY DEF Filesys

LEMMA Pair == \A a, b : <<a, b>>[1] = a /\ <<a, b>>[2] = b
OBVIOUS

LEMMA Ranges == Inodes \subseteq Nat \ {0} /\ Slots \subseteq Nat \ {0} /\ ROOTINODE \in Inodes
<1>1. LastInode \in Nat \ {0} /\ LastSlot \in Nat
  BY InodesAssumption, Zenon
<1>. QED BY <1>1 DEF Inodes, Slots, ROOTINODE

LEMMA NodeFields ==
    ASSUME NEW n \in Nodes
    PROVE  n.mode \in Kinds \cup {"none"} /\ n.nlink \in Nat
BY DEF Nodes

LEMMA CalmAvailable ==
    ASSUME NEW f \in Filesys, NEW g, Calm(f, g), g.spoiled = {}
    PROVE  f.spoiled = {} /\ Available(g) = Available(f)
BY DEF Calm, Available

LEMMA CalmNames ==
    ASSUME NEW f, NEW g, g.dir = f.dir, NEW i
    PROVE  NamesOf(g, i) = NamesOf(f, i)
BY DEF NamesOf

LEMMA CalmGood ==
    ASSUME NEW f, NEW g, NEW k, Good(f, k), Calm(f, g)
    PROVE  Good(g, k)
<1>0. f \in Filesys /\ g \in Filesys
  BY DEF Good, Calm
<1>1. Entered(g)
  BY DEF Good, Calm, Entered
<1>2. Named(g, Zero)
  BY CalmNames DEF Good, Calm, Named
<1>3. Tallied(g, k)
  BY <1>0, CalmAvailable DEF Good, Calm, Tallied
<1>. QED BY <1>0, <1>1, <1>2, <1>3 DEF Good, Calm

LEMMA CalmKeeps ==
    ASSUME NEW e \in Filesys, NEW f, NEW g, NEW own \in Bags, NEW k,
           Mid(e, f, own, k), Calm(f, g)
    PROVE  Mid(e, g, own, k)
<1>0. f \in Filesys /\ g \in Filesys
  BY DEF Mid, Good, Calm
<1>4. Owed(e, g, own)
  <2>. SUFFICES ASSUME NEW i \in Inodes
                PROVE  /\ g.c_refs[i] >= e.c_refs[i] + own[i]
                       /\ e.c_refs[i] > 0 /\ e.node[i].mode # "none"
                            => g.node[i].mode = e.node[i].mode
                       /\ own[i] > 0 => /\ g.node[i].mode # "none"
                                        /\ e.c_refs[i] > 0 \/ g.node[i].nlink # 0
    BY DEF Owed
  <2>1. /\ f.c_refs[i] >= e.c_refs[i] + own[i]
        /\ e.c_refs[i] > 0 /\ e.node[i].mode # "none" => f.node[i].mode = e.node[i].mode
        /\ own[i] > 0 => /\ f.node[i].mode # "none"
                         /\ e.c_refs[i] > 0 \/ f.node[i].nlink # 0
    BY DEF Mid, Owed
  <2>2. f.c_refs[i] \in Nat /\ e.c_refs[i] \in Nat /\ own[i] \in Nat
    BY <1>0, Fields DEF Bags
  <2>3. g.c_refs = f.c_refs /\ (g.node[i] = f.node[i] \/ f.c_refs[i] = 0)
    BY DEF Calm
  <2>. QED BY <2>1, <2>2, <2>3
<1>. QED BY <1>4, CalmGood DEF Mid
----------------------------------------------------------------------------
(* Reads and writes of inodes.                                             *)
Steady(f) == f \in Filesys /\ Placed(f) /\ Clean(f)

LEMMA CalmSelf ==
    ASSUME NEW f, Steady(f)
    PROVE  Calm(f, f)
BY DEF Steady, Calm

LEMMA CalmTwice ==
    ASSUME NEW f, NEW g, NEW h, Calm(f, g), Calm(g, h)
    PROVE  Calm(f, h) /\ Steady(h)
BY DEF Calm, Steady

LEMMA CopyFields ==
    ASSUME NEW f \in Filesys, NEW i \in Inodes, NEW g, g = Copied(f, i)
    PROVE  /\ g \in Filesys
           /\ g.disk = [f.disk EXCEPT ![i] = f.node[i]]
           /\ g.node = f.node /\ g.here = f.here /\ g.c_refs = f.c_refs
           /\ g.c_dirty = f.c_dirty /\ g.dir = f.dir /\ g.s_tinode = f.s_tinode
           /\ g.spoiled = f.spoiled /\ g.wasted = f.wasted
BY DEF Copied, Filesys

Unmark(f, i) == [f EXCEPT !.c_dirty[i] = FALSE]
LEMMA UnmarkFields ==
    ASSUME NEW f \in Filesys, NEW i \in Inodes, NEW g, g = Unmark(f, i)
    PROVE  /\ g \in Filesys
           /\ g.c_dirty = [f.c_dirty EXCEPT ![i] = FALSE]
           /\ g.node = f.node /\ g.here = f.here /\ g.c_refs = f.c_refs
           /\ g.disk = f.disk /\ g.dir = f.dir /\ g.s_tinode = f.s_tinode
           /\ g.spoiled = f.spoiled /\ g.wasted = f.wasted
BY DEF Filesys, Unmark

LEMMA WrInodeStates ==
    ASSUME NEW f, NEW i, NEW r \in WrInode(f, i)
    PROVE  r[1] \in {f, Copied(f, i), Unmark(Copied(f, i), i)}
<1>. DEFINE c == Copied(f, i)
            u == Unmark(Copied(f, i), i)
<1>1. r \in {<<f, TRUE>>, <<u, TRUE>>, <<f, FALSE>>, <<c, FALSE>>}
  <2>1. WrInode(f, i) = IF ~f.c_dirty[i] THEN {<<f, TRUE>>}
                        ELSE {<<u, TRUE>>}
                               \cup (IF MayFail THEN {<<f, FALSE>>, <<c, FALSE>>} ELSE {})
    BY DEF WrInode, Unmark
  <2>. HIDE DEF u, c
  <2>. QED BY <2>1
<1>2. r[1] \in {f, c, u}
  <2>. HIDE DEF u, c
  <2>. QED BY <1>1, Pair
<1>. QED BY <1>2

LEMMA WrInodeCalm ==
    ASSUME NEW f, Steady(f), NEW i \in Inodes, NEW r \in WrInode(f, i)
    PROVE  /\ Calm(f, r[1]) /\ Steady(r[1])
           /\ r[1].node = f.node /\ r[1].here = f.here
<1>. DEFINE c == Copied(f, i)
            u == Unmark(Copied(f, i), i)
<1>1. f \in Filesys
  BY DEF Steady
<1>2. r[1] \in {f, c, u}
  BY WrInodeStates
<1>3. /\ c \in Filesys
      /\ c.disk = [f.disk EXCEPT ![i] = f.node[i]]
      /\ c.node = f.node /\ c.here = f.here /\ c.c_refs = f.c_refs
      /\ c.c_dirty = f.c_dirty /\ c.dir = f.dir /\ c.s_tinode = f.s_tinode
      /\ c.spoiled = f.spoiled /\ c.wasted = f.wasted
  BY <1>1, CopyFields
<1>4. /\ u \in Filesys
      /\ u.c_dirty = [c.c_dirty EXCEPT ![i] = FALSE]
      /\ u.node = c.node /\ u.here = c.here /\ u.c_refs = c.c_refs
      /\ u.disk = c.disk /\ u.dir = c.dir /\ u.s_tinode = c.s_tinode
      /\ u.spoiled = c.spoiled /\ u.wasted = c.wasted
  BY <1>3, UnmarkFields
<1>. HIDE DEF c, u
<1>5. Calm(f, c)
  <2>1. Placed(c) /\ Clean(c)
    BY <1>1, <1>3, Fields DEF Steady, Placed, Clean
  <2>. QED BY <1>3, <2>1 DEF Calm
<1>6. Calm(f, u)
  <2>1. Placed(u) /\ Clean(u)
    BY <1>1, <1>3, <1>4, Fields DEF Steady, Placed, Clean
  <2>. QED BY <1>3, <1>4, <2>1 DEF Calm
<1>. QED BY <1>2, <1>3, <1>4, <1>5, <1>6, CalmSelf DEF Steady, Calm

LEMMA SavedCalm ==
    ASSUME NEW f, Steady(f), NEW i \in Inodes, NEW g \in Saved(f, i)
    PROVE  Calm(f, g) /\ Steady(g) /\ g.node = f.node /\ g.here = f.here
BY WrInodeCalm DEF Saved

LEMMA SyncedCalm ==
    ASSUME NEW f, Steady(f), NEW g \in Synced(f)
    PROVE  Calm(f, g) /\ Steady(g)
<1>1. f \in Filesys
  BY DEF Steady
<1>2. PICK S : g = [f EXCEPT !.disk = [i \in Inodes |-> IF i \in S THEN f.node[i] ELSE f.disk[i]],
                             !.c_dirty = [i \in Inodes |-> f.c_dirty[i] /\ i \notin S]]
  BY DEF Synced
<1>3. /\ g \in Filesys
      /\ g.disk = [i \in Inodes |-> IF i \in S THEN f.node[i] ELSE f.disk[i]]
      /\ g.c_dirty = [i \in Inodes |-> f.c_dirty[i] /\ i \notin S]
      /\ g.node = f.node /\ g.here = f.here /\ g.c_refs = f.c_refs
      /\ g.dir = f.dir /\ g.s_tinode = f.s_tinode
      /\ g.spoiled = f.spoiled /\ g.wasted = f.wasted
  BY <1>1, <1>2 DEF Filesys
<1>4. Placed(g) /\ Clean(g)
  BY <1>1, <1>3, Fields DEF Steady, Placed, Clean
<1>. QED BY <1>3, <1>4 DEF Calm, Steady
----------------------------------------------------------------------------
(* The table gives an entry to another inode.                              *)
LEMMA OverCalm ==
    ASSUME NEW f, Steady(f), NEW i \in Inodes, i \notin f.here, NEW v \in Victims(f),
           NEW g, g = Over(f, i, v)
    PROVE  Calm(f, g) /\ Steady(g) /\ i \in g.here
<1>0. f \in Filesys
  BY DEF Steady
<1>1. CASE v = 0
  <2>1. g = [f EXCEPT !.here = @ \cup {i}]
    BY <1>1 DEF Over
  <2>4. f.here \cup {i} \in SUBSET Inodes
    BY <1>0, Fields
  <2>2. /\ g \in Filesys /\ g.here = f.here \cup {i}
        /\ g.node = f.node /\ g.disk = f.disk /\ g.c_refs = f.c_refs
        /\ g.c_dirty = f.c_dirty /\ g.dir = f.dir /\ g.s_tinode = f.s_tinode
        /\ g.spoiled = f.spoiled /\ g.wasted = f.wasted
    BY <1>0, <2>1, <2>4 DEF Filesys
  <2>3. Placed(g) /\ Clean(g)
    BY <1>0, <2>2, Fields DEF Steady, Placed, Clean
  <2>. QED BY <2>2, <2>3 DEF Calm, Steady
<1>2. CASE v # 0
  <2>1. v \in f.here /\ f.c_refs[v] = 0 /\ v \in Inodes /\ v # i
    BY <1>0, <1>2, Fields DEF Victims
  <2>. DEFINE new == Unsaved(f, v)
  <2>2. new \subseteq Inodes /\ (f.node[v] # f.disk[v] => v \in new)
    BY <2>1 DEF Unsaved
  <2>3. g = [Spoil(f, new) EXCEPT
               !.here = (@ \ {v}) \cup {i},
               !.node[v] = f.disk[v],
               !.c_dirty = [@ EXCEPT ![v] = FALSE, ![i] = f.c_dirty[v]]]
    BY <1>2 DEF Over
  <2>. HIDE DEF new
  <2>9. /\ (f.here \ {v}) \cup {i} \in SUBSET Inodes
        /\ f.spoiled \cup new \in SUBSET Inodes
        /\ [f.node EXCEPT ![v] = f.disk[v]] \in [Inodes -> Nodes]
        /\ [f.c_dirty EXCEPT ![v] = FALSE, ![i] = f.c_dirty[v]] \in [Inodes -> BOOLEAN]
    BY <1>0, <2>1, <2>2, Fields
  <2>4. /\ g \in Filesys /\ g.here = (f.here \ {v}) \cup {i}
        /\ g.node = [f.node EXCEPT ![v] = f.disk[v]]
        /\ g.c_dirty = [f.c_dirty EXCEPT ![v] = FALSE, ![i] = f.c_dirty[v]]
    BY <1>0, <2>1, <2>3, <2>9 DEF Filesys, Spoil
  <2>5. /\ g.spoiled = f.spoiled \cup new
        /\ g.disk = f.disk /\ g.c_refs = f.c_refs
        /\ g.dir = f.dir /\ g.s_tinode = f.s_tinode /\ g.wasted = f.wasted
    BY <1>0, <2>1, <2>2, <2>3 DEF Filesys, Spoil
  <2>6. Placed(g)
    BY <1>0, <2>1, <2>4, <2>5, Fields DEF Steady, Placed
  <2>7. Clean(g)
    BY <1>0, <2>1, <2>4, <2>5, Fields DEF Steady, Clean, Placed
  <2>8. \A j \in Inodes : g.node[j] = f.node[j] \/ (f.c_refs[j] = 0 /\ j \in g.spoiled)
    BY <1>0, <2>1, <2>2, <2>4, <2>5, Fields
  <2>. QED BY <2>4, <2>5, <2>6, <2>7, <2>8 DEF Calm, Steady
<1>. QED BY <1>1, <1>2

LEMMA MixedCalm ==
    ASSUME NEW f, Steady(f), NEW i \in Inodes, NEW v \in Victims(f), NEW g, g = Mixed(f, i, v)
    PROVE  Calm(f, g) /\ Steady(g)
<1>0. f \in Filesys
  BY DEF Steady
<1>1. CASE v = 0
  BY <1>1, CalmSelf DEF Mixed
<1>2. CASE v # 0
  <2>1. v \in f.here /\ f.c_refs[v] = 0 /\ v \in Inodes
    BY <1>0, <1>2, Fields DEF Victims
  <2>2. g = [Spoil(f, {v}) EXCEPT !.node[v] = f.disk[i]]
    BY <1>2 DEF Mixed
  <2>3. /\ [f.node EXCEPT ![v] = f.disk[i]] \in [Inodes -> Nodes]
        /\ f.spoiled \cup {v} \in SUBSET Inodes
    BY <1>0, <2>1, Fields
  <2>4. /\ g \in Filesys /\ g.here = f.here
        /\ g.node = [f.node EXCEPT ![v] = f.disk[i]]
        /\ g.c_dirty = f.c_dirty
    BY <1>0, <2>1, <2>2, <2>3 DEF Filesys, Spoil
  <2>5. /\ g.spoiled = f.spoiled \cup {v}
        /\ g.disk = f.disk /\ g.c_refs = f.c_refs
        /\ g.dir = f.dir /\ g.s_tinode = f.s_tinode /\ g.wasted = f.wasted
    BY <1>0, <2>1, <2>2 DEF Filesys, Spoil
  <2>6. Placed(g) /\ Clean(g)
    BY <1>0, <2>1, <2>4, <2>5, Fields DEF Steady, Placed, Clean
  <2>7. \A j \in Inodes : g.node[j] = f.node[j] \/ (f.c_refs[j] = 0 /\ j \in g.spoiled)
    BY <1>0, <2>1, <2>4, <2>5, Fields
  <2>. QED BY <2>4, <2>5, <2>6, <2>7 DEF Calm, Steady
<1>. QED BY <1>1, <1>2

LEMMA FetchedCalm ==
    ASSUME NEW f, Steady(f), NEW i \in Inodes, NEW r \in Fetched(f, i)
    PROVE  Calm(f, r[1]) /\ Steady(r[1]) /\ r[2] \in BOOLEAN /\ (r[2] => i \in r[1].here)
<1>1. CASE i \in f.here
  <2>1. r = <<f, TRUE>>
    BY <1>1 DEF Fetched
  <2>. QED BY <1>1, <2>1, CalmSelf
<1>2. CASE i \notin f.here
  <2>1. \/ r = <<f, FALSE>>
        \/ \E v \in Victims(f) : r = <<Over(f, i, v), TRUE>>
        \/ \E v \in Victims(f) : r = <<Mixed(f, i, v), FALSE>>
    BY <1>2 DEF Fetched
  <2>2. CASE r = <<f, FALSE>>
    BY <2>2, CalmSelf
  <2>3. ASSUME NEW v \in Victims(f), r = <<Over(f, i, v), TRUE>>
        PROVE  Calm(f, r[1]) /\ Steady(r[1]) /\ r[2] \in BOOLEAN /\ (r[2] => i \in r[1].here)
    <3>1. r[1] = Over(f, i, v) /\ r[2] = TRUE
      BY <2>3
    <3>. QED BY <1>2, <2>3, <3>1, OverCalm
  <2>4. ASSUME NEW v \in Victims(f), r = <<Mixed(f, i, v), FALSE>>
        PROVE  Calm(f, r[1]) /\ Steady(r[1]) /\ r[2] \in BOOLEAN /\ (r[2] => i \in r[1].here)
    <3>1. r[1] = Mixed(f, i, v) /\ r[2] = FALSE
      BY <2>4
    <3>. QED BY <2>4, <3>1, MixedCalm
  <2>. QED BY <2>1, <2>2, <2>3, <2>4
<1>. QED BY <1>1, <1>2
----------------------------------------------------------------------------
(* References taken and given back.                                        *)
Refs(f, g, i, n) ==
    /\ g \in Filesys /\ g.c_refs = [f.c_refs EXCEPT ![i] = n]
    /\ g.node = f.node /\ g.here = f.here /\ g.disk = f.disk
    /\ g.c_dirty = f.c_dirty /\ g.dir = f.dir /\ g.s_tinode = f.s_tinode
    /\ g.spoiled = f.spoiled /\ g.wasted = f.wasted

LEMMA IRefFields ==
    ASSUME NEW f \in Filesys, NEW i \in Inodes, NEW g \in IRef(f, i)
    PROVE  Refs(f, g, i, f.c_refs[i] + 1)
<1>1. g = [f EXCEPT !.c_refs[i] = @ + 1]
  BY DEF IRef
<1>2. [f.c_refs EXCEPT ![i] = f.c_refs[i] + 1] \in [Inodes -> Nat]
  BY Fields
<1>. QED BY <1>1, <1>2 DEF Filesys, Refs

LEMMA BagOps ==
    ASSUME NEW own \in Bags, NEW i \in Inodes \cup {0}
    PROVE  /\ Zero \in Bags /\ Plus(own, i) \in Bags
           /\ \A j \in Inodes : Plus(own, i)[j] = IF j = i THEN own[j] + 1 ELSE own[j]
           /\ i # 0 /\ own[i] > 0 => Minus(own, i) \in Bags
           /\ \A j \in Inodes : Minus(own, i)[j] = IF j = i THEN own[j] - 1 ELSE own[j]
           /\ \A j \in Inodes : Zero[j] = 0
<1>1. \A j \in Inodes : j # 0
  BY Ranges
<1>2. \A j \in Inodes : own[j] \in Nat
  BY DEF Bags
<1>3. CASE i = 0
  BY <1>1, <1>2, <1>3 DEF Bags, Zero, Plus, Minus
<1>4. CASE i \in Inodes
  BY <1>1, <1>2, <1>4 DEF Bags, Zero, Plus, Minus
<1>. QED BY <1>3, <1>4

(* A count changes without a free inode being found or lost.               *)
LEMMA RefsGood ==
    ASSUME NEW f, NEW k, Good(f, k), NEW i \in Inodes, NEW n \in Nat, NEW g,
           Refs(f, g, i, n),
           n > 0 => i \in f.here,
           f.node[i] = Blank => f.c_refs[i] > 0 /\ n > 0
    PROVE  Good(g, k)
<1>1. f \in Filesys
  BY DEF Good
<1>2. Placed(g)
  <2>1. \A j \in Inodes : g.c_refs[j] = IF j = i THEN n ELSE f.c_refs[j]
    BY <1>1, Fields DEF Refs
  <2>. QED BY <2>1 DEF Good, Refs, Placed
<1>5. Clean(g) /\ Entered(g)
  BY DEF Good, Refs, Clean, Entered
<1>3. Named(g, Zero)
  BY CalmNames DEF Good, Refs, Named
<1>4. Available(g) = Available(f)
  BY <1>1, Fields DEF Refs, Available
<1>. QED BY <1>2, <1>3, <1>4, <1>5 DEF Good, Refs, Tallied

LEMMA BlankNode == Blank \in Nodes /\ Blank.mode = "none" /\ Blank.nlink = 0
BY DEF Blank, Nodes

LEMMA IRefMid ==
    ASSUME NEW e \in Filesys, NEW f, NEW own \in Bags, NEW k, Mid(e, f, own, k),
           NEW i \in Inodes, i \in f.here, f.node[i].mode # "none",
           e.c_refs[i] > 0 \/ f.node[i].nlink # 0,
           NEW g \in IRef(f, i)
    PROVE  Mid(e, g, Plus(own, i), k) /\ g.dir = f.dir /\ g.node = f.node /\ g.here = f.here
<1>1. f \in Filesys /\ Good(f, k)
  BY DEF Mid, Good
<1>2. Refs(f, g, i, f.c_refs[i] + 1)
  BY <1>1, IRefFields
<1>3. f.c_refs[i] \in Nat /\ f.node[i] # Blank
  BY <1>1, Fields, BlankNode
<1>4. Good(g, k)
  BY <1>1, <1>2, <1>3, RefsGood
<1>. DEFINE new == Plus(own, i)
<1>. HIDE DEF new
<1>5. Owed(e, g, new)
  <2>. SUFFICES ASSUME NEW j \in Inodes
                PROVE  /\ g.c_refs[j] >= e.c_refs[j] + new[j]
                       /\ e.c_refs[j] > 0 /\ e.node[j].mode # "none"
                            => g.node[j].mode = e.node[j].mode
                       /\ new[j] > 0 => /\ g.node[j].mode # "none"
                                        /\ e.c_refs[j] > 0 \/ g.node[j].nlink # 0
    BY DEF Owed
  <2>1. /\ f.c_refs[j] >= e.c_refs[j] + own[j]
        /\ e.c_refs[j] > 0 /\ e.node[j].mode # "none" => f.node[j].mode = e.node[j].mode
        /\ own[j] > 0 => /\ f.node[j].mode # "none"
                         /\ e.c_refs[j] > 0 \/ f.node[j].nlink # 0
    BY DEF Mid, Owed
  <2>2. f.c_refs[j] \in Nat /\ e.c_refs[j] \in Nat /\ own[j] \in Nat
    BY <1>1, Fields DEF Bags
  <2>3. new[j] = IF j = i THEN own[j] + 1 ELSE own[j]
    BY BagOps DEF new
  <2>4. /\ g.c_refs[j] = IF j = i THEN f.c_refs[j] + 1 ELSE f.c_refs[j]
        /\ g.node = f.node
    BY <1>1, <1>2, Fields DEF Refs
  <2>. QED BY <2>1, <2>2, <2>3, <2>4
<1>. QED BY <1>2, <1>4, <1>5 DEF Mid, Refs, new

(* i_open                                                                  *)
LEMMA IOpenMid ==
    ASSUME NEW e \in Filesys, NEW f, NEW own \in Bags, NEW k, Mid(e, f, own, k),
           NEW i \in Inodes, NEW c \in IOpen(f, i)
    PROVE  /\ c[1].dir = f.dir /\ c[2] \in {0, i}
           /\ Mid(e, c[1], Plus(own, c[2]), k)
<1>1. PICK r \in Fetched(f, i) :
          c \in IF r[2] /\ r[1].node[i].mode # "none" /\ Nlink(r[1], i) # 0
                THEN {<<g, i>> : g \in IRef(r[1], i)} ELSE {<<r[1], 0>>}
  BY DEF IOpen
<1>2. Steady(f)
  BY DEF Steady, Mid, Good
<1>3. Calm(f, r[1]) /\ (r[2] => i \in r[1].here)
  BY <1>1, <1>2, FetchedCalm
<1>4. Mid(e, r[1], own, k) /\ r[1].dir = f.dir
  BY <1>3, CalmKeeps DEF Calm
<1>5. CASE c = <<r[1], 0>>
  BY <1>4, <1>5 DEF Plus
<1>6. ASSUME r[2], r[1].node[i].mode # "none", Nlink(r[1], i) # 0,
             NEW g \in IRef(r[1], i), c = <<g, i>>
      PROVE  /\ c[1].dir = f.dir /\ c[2] \in {0, i}
             /\ Mid(e, c[1], Plus(own, c[2]), k)
  <2>1. Mid(e, g, Plus(own, i), k) /\ g.dir = r[1].dir
    BY <1>3, <1>4, <1>6, IRefMid DEF Nlink
  <2>. QED BY <1>4, <1>6, <2>1
<1>. QED BY <1>1, <1>5, <1>6

(* i_deref and i_free                                                      *)
LEMMA Finite ==
    ASSUME NEW f, NEW i
    PROVE  /\ IsFiniteSet(Inodes \X Slots)
           /\ IsFiniteSet(NamesOf(f, i)) /\ Cardinality(NamesOf(f, i)) \in Nat
           /\ IsFiniteSet(Available(f)) /\ Cardinality(Available(f)) \in Nat
<1>0. LastInode \in Nat \ {0} /\ LastSlot \in Nat
  BY InodesAssumption, Zenon
<1>1. LastInode \in Int /\ LastSlot \in Int /\ 1 \in Int
  BY <1>0
<1>2. IsFiniteSet(Inodes) /\ IsFiniteSet(Slots)
  BY <1>1, FS_Interval DEF Inodes, Slots
<1>3. IsFiniteSet(Inodes \X Slots)
  BY <1>2, FS_Product
<1>4. NamesOf(f, i) \in SUBSET (Inodes \X Slots) /\ Available(f) \in SUBSET Inodes
  BY DEF NamesOf, Available
<1>5. IsFiniteSet(NamesOf(f, i)) /\ IsFiniteSet(Available(f))
  BY <1>2, <1>3, <1>4, FS_Subset
<1>. QED BY <1>3, <1>5, FS_CardinalityType

LEMMA FewerNames ==
    ASSUME NEW f, NEW g, NEW i, NamesOf(g, i) \subseteq NamesOf(f, i)
    PROVE  Cardinality(NamesOf(g, i)) <= Cardinality(NamesOf(f, i))
BY Finite, FS_Subset

Frees(f, g, i) ==
    /\ g \in Filesys
    /\ g.node = [f.node EXCEPT ![i] = Blank]
    /\ g.c_dirty = [f.c_dirty EXCEPT ![i] = TRUE]
    /\ g.dir = [f.dir EXCEPT ![i] = NoEntries]
    /\ g.s_tinode = f.s_tinode + 1
    /\ g.here = f.here /\ g.c_refs = f.c_refs
    /\ g.disk = f.disk /\ g.spoiled = f.spoiled /\ g.wasted = f.wasted

LEMMA FreedFields ==
    ASSUME NEW f \in Filesys, NEW i \in Inodes
    PROVE  Frees(f, Freed(f, i), i)
<1>. DEFINE g == Freed(f, i)
<1>. DEFINE q == IF Len(f.s_inode) < FSFREEINODES THEN Append(f.s_inode, i) ELSE f.s_inode
<1>1. g = [SetNode(f, i, Blank) EXCEPT
             !.dir[i] = NoEntries,
             !.s_tinode = @ + 1,
             !.s_inode = IF Len(@) < FSFREEINODES THEN Append(@, i) ELSE @]
  BY DEF Freed
<1>2. q \in Seq(Inodes)
  BY Fields
<1>3. NoEntries \in [Slots -> Entries]
  BY DEF NoEntries, Entries, Unused
<1>4. /\ [f.node EXCEPT ![i] = Blank] \in [Inodes -> Nodes]
      /\ [f.c_dirty EXCEPT ![i] = TRUE] \in [Inodes -> BOOLEAN]
      /\ [f.dir EXCEPT ![i] = NoEntries] \in [Inodes -> [Slots -> Entries]]
      /\ f.s_tinode + 1 \in Nat
  BY <1>3, Fields, BlankNode
<1>5. g = [f EXCEPT !.node[i] = Blank, !.c_dirty[i] = TRUE, !.dir[i] = NoEntries,
                    !.s_tinode = @ + 1, !.s_inode = q]
  BY <1>1 DEF SetNode, Filesys
<1>. HIDE DEF q, g
<1>. QED BY <1>2, <1>4, <1>5 DEF Filesys, Frees, g

LEMMA FreedGood ==
    ASSUME NEW f, NEW k \in Nat, Good(f, k), NEW i \in Inodes,
           f.c_refs[i] > 0, f.node[i].nlink = 0,
           NEW d, Refs(f, d, i, 0), NEW g, g = Freed(d, i)
    PROVE  Good(g, k)
<1>1. f \in Filesys /\ d \in Filesys
  BY DEF Good, Refs
<1>11. Frees(d, g, i)
  BY <1>1, FreedFields
<1>2. /\ g \in Filesys
      /\ g.node = [f.node EXCEPT ![i] = Blank]
      /\ g.c_dirty = [f.c_dirty EXCEPT ![i] = TRUE]
      /\ g.dir = [f.dir EXCEPT ![i] = NoEntries]
      /\ g.s_tinode = f.s_tinode + 1
      /\ g.c_refs = [f.c_refs EXCEPT ![i] = 0]
      /\ g.here = f.here /\ g.disk = f.disk /\ g.spoiled = f.spoiled /\ g.wasted = f.wasted
  BY <1>11 DEF Refs, Frees
<1>3. /\ f.node \in [Inodes -> Nodes] /\ f.c_refs \in [Inodes -> Nat]
      /\ f.c_dirty \in [Inodes -> BOOLEAN] /\ f.dir \in [Inodes -> [Slots -> Entries]]
      /\ f.s_tinode \in Nat /\ f.wasted \in Nat
  BY <1>1, Fields
<1>4. Placed(g)
  <2>1. i \in f.here
    BY DEF Good, Placed
  <2>. QED BY <1>2, <1>3, <2>1 DEF Good, Placed
<1>5. Clean(g)
  BY <1>2, <1>3 DEF Good, Clean
<1>12. \A b \in Inodes, s \in Slots : g.dir[b][s] = IF b = i THEN Unused ELSE f.dir[b][s]
  BY <1>2, <1>3 DEF NoEntries
<1>13. Unused.name = ""
  BY DEF Unused
<1>6. Entered(g)
  BY <1>12, <1>13 DEF Good, Entered
<1>7. \A j \in Inodes : NamesOf(g, j) \subseteq NamesOf(f, j)
  <2>. SUFFICES ASSUME NEW j \in Inodes, NEW x \in NamesOf(g, j)
                PROVE  x \in NamesOf(f, j)
    OBVIOUS
  <2>1. x \in Inodes \X Slots /\ x[1] \in Inodes /\ x[2] \in Slots
    BY DEF NamesOf
  <2>2. g.dir[x[1]][x[2]].name # "" /\ g.dir[x[1]][x[2]].ino = j
    BY DEF NamesOf
  <2>3. f.dir[x[1]][x[2]].name # "" /\ f.dir[x[1]][x[2]].ino = j
    BY <1>12, <1>13, <2>1, <2>2
  <2>. QED BY <2>1, <2>3 DEF NamesOf
<1>8. Named(g, Zero)
  <2>. SUFFICES ASSUME NEW j \in Inodes \ g.spoiled
                PROVE  /\ Cardinality(NamesOf(g, j)) <= g.node[j].nlink + Zero[j]
                       /\ g.node[j].mode = "none" => NamesOf(g, j) = {}
    BY DEF Named
  <2>1. /\ Cardinality(NamesOf(f, j)) <= f.node[j].nlink + Zero[j]
        /\ f.node[j].mode = "none" => NamesOf(f, j) = {}
    BY <1>2 DEF Good, Named
  <2>2. Zero[j] = 0 /\ f.node[j].nlink \in Nat
    BY <1>3, NodeFields DEF Zero
  <2>3. Cardinality(NamesOf(g, j)) <= Cardinality(NamesOf(f, j))
    BY <1>7, FewerNames
  <2>4. Cardinality(NamesOf(g, j)) \in Nat /\ Cardinality(NamesOf(f, j)) \in Nat
    BY Finite
  <2>5. CASE j = i
    <3>1. Cardinality(NamesOf(f, i)) = 0
      BY <2>1, <2>2, <2>4, <2>5
    <3>2. NamesOf(f, i) = {}
      BY <3>1, Finite, FS_EmptySet
    <3>3. NamesOf(g, i) = {}
      BY <1>7, <3>2
    <3>4. g.node[i] = Blank
      BY <1>2, <1>3
    <3>. QED BY <2>2, <2>5, <3>3, <3>4, FS_EmptySet, BlankNode
  <2>6. CASE j # i
    <3>1. g.node[j] = f.node[j]
      BY <1>2, <1>3, <2>6
    <3>. QED BY <1>7, <2>1, <2>2, <2>3, <2>4, <3>1
  <2>. QED BY <2>5, <2>6
<1>9. Available(g) = Available(f) \cup {i} /\ i \notin Available(f)
  BY <1>2, <1>3 DEF Available
<1>10. Tallied(g, k)
  <2>1. Cardinality(Available(g)) = Cardinality(Available(f)) + 1
    BY <1>9, Finite, FS_AddElement
  <2>. QED BY <1>2, <1>3, <2>1, Finite DEF Good, Tallied
<1>. QED BY <1>2, <1>4, <1>5, <1>6, <1>8, <1>10 DEF Good

(* i_deref on any state that is good; only i is written, and only if its   *)
(* last reference went and no name is left.                                *)
LEMMA DerefGood ==
    ASSUME NEW f, NEW k \in Nat, Good(f, k), NEW i \in Inodes, NEW h \in Deref(f, i)
    PROVE  /\ Good(h, k)
           /\ f.c_refs[i] > 0 /\ h.c_refs = [f.c_refs EXCEPT ![i] = @ - 1]
           /\ \A j \in Inodes : j # i \/ h.c_refs[j] > 0 => h.node[j] = f.node[j]
           /\ f.c_refs[i] > 1 \/ f.node[i].nlink # 0 => h.node = f.node /\ h.dir = f.dir
           /\ h.here = f.here
<1>. DEFINE d == [f EXCEPT !.c_refs[i] = @ - 1]
<1>1. f \in Filesys /\ f.c_refs \in [Inodes -> Nat] /\ f.node \in [Inodes -> Nodes]
  BY Fields DEF Good
<1>2. /\ f.c_refs[i] # 0
      /\ \/ f.c_refs[i] > 1 /\ h = d
         \/ ~(f.c_refs[i] > 1) /\ f.node[i].nlink > 0 /\ h \in Saved(d, i)
         \/ /\ ~(f.c_refs[i] > 1) /\ ~(f.node[i].nlink > 0) /\ h \in Saved(Freed(d, i), i)
  BY DEF Deref, Nlink
<1>3. f.c_refs[i] \in Nat /\ f.c_refs[i] > 0 /\ f.node[i].nlink \in Nat
  BY <1>1, <1>2, NodeFields
<1>4. Refs(f, d, i, f.c_refs[i] - 1)
  <2>1. [f.c_refs EXCEPT ![i] = f.c_refs[i] - 1] \in [Inodes -> Nat]
    BY <1>1, <1>3
  <2>. QED BY <1>1, <2>1 DEF Filesys, Refs
<1>. HIDE DEF d
<1>5. d.c_refs = [f.c_refs EXCEPT ![i] = @ - 1] /\ d.node = f.node /\ d.dir = f.dir /\ d.here = f.here
  BY <1>4 DEF Refs
<1>6. i \in f.here
  BY <1>3 DEF Good, Placed
<1>7. CASE f.c_refs[i] > 1
  <2>1. Good(d, k)
    BY <1>3, <1>4, <1>6, <1>7, RefsGood
  <2>. QED BY <1>2, <1>3, <1>5, <1>7, <2>1
<1>8. CASE ~(f.c_refs[i] > 1) /\ f.node[i].nlink > 0
  <2>1. f.node[i] # Blank
    BY <1>8, BlankNode
  <2>2. Good(d, k)
    BY <1>3, <1>4, <1>6, <2>1, RefsGood
  <2>3. Calm(d, h) /\ h.node = d.node /\ h.here = d.here
    BY <1>2, <1>8, <2>2, SavedCalm DEF Good, Steady
  <2>4. Good(h, k)
    BY <2>2, <2>3, CalmGood
  <2>. QED BY <1>3, <1>5, <2>3, <2>4 DEF Calm
<1>9. CASE ~(f.c_refs[i] > 1) /\ ~(f.node[i].nlink > 0)
  <2>. DEFINE x == Freed(d, i)
  <2>1. f.c_refs[i] - 1 = 0 /\ f.node[i].nlink = 0
    BY <1>3, <1>9
  <2>2. Good(x, k)
    BY <1>3, <1>4, <2>1, FreedGood
  <2>3. d \in Filesys
    BY <1>4 DEF Refs
  <2>4. Frees(d, x, i)
    BY <2>3, FreedFields
  <2>. HIDE DEF x
  <2>5. Calm(x, h) /\ h.node = x.node /\ h.here = x.here
    BY <1>2, <1>9, <2>2, SavedCalm DEF Good, Steady, x
  <2>6. Good(h, k)
    BY <2>2, <2>5, CalmGood
  <2>7. h.c_refs = [f.c_refs EXCEPT ![i] = @ - 1]
    BY <1>5, <2>4, <2>5 DEF Calm, Frees
  <2>8. \A j \in Inodes : j # i \/ h.c_refs[j] > 0 => h.node[j] = f.node[j]
    BY <1>1, <1>5, <2>1, <2>4, <2>5, <2>7 DEF Frees
  <2>9. h.here = f.here
    BY <1>5, <2>4, <2>5 DEF Frees
  <2>. QED BY <1>3, <1>9, <2>1, <2>6, <2>7, <2>8, <2>9
<1>. QED BY <1>3, <1>7, <1>8, <1>9

(* A call gives back a reference of its own.                               *)
LEMMA DerefMid ==
    ASSUME NEW e \in Filesys, NEW f, NEW own \in Bags, NEW k \in Nat, Mid(e, f, own, k),
           NEW i \in Inodes, own[i] > 0, NEW g \in Deref(f, i)
    PROVE  /\ Mid(e, g, Minus(own, i), k)
           /\ g.dir = f.dir /\ g.node = f.node /\ g.here = f.here
<1>. DEFINE new == Minus(own, i)
<1>. HIDE DEF new
<1>1. f \in Filesys /\ Good(f, k)
  BY DEF Mid, Good
<1>2. /\ Good(g, k)
      /\ f.c_refs[i] > 0 /\ g.c_refs = [f.c_refs EXCEPT ![i] = @ - 1]
      /\ f.c_refs[i] > 1 \/ f.node[i].nlink # 0 => g.node = f.node /\ g.dir = f.dir
      /\ g.here = f.here
  BY <1>1, DerefGood
<1>3. f.c_refs[i] > 1 \/ f.node[i].nlink # 0
  <2>1. /\ f.c_refs[i] >= e.c_refs[i] + own[i]
        /\ e.c_refs[i] > 0 \/ f.node[i].nlink # 0
    BY DEF Mid, Owed
  <2>2. f.c_refs[i] \in Nat /\ e.c_refs[i] \in Nat /\ own[i] \in Nat
    BY <1>1, Fields DEF Bags
  <2>. QED BY <2>1, <2>2
<1>4. Owed(e, g, new)
  <2>. SUFFICES ASSUME NEW j \in Inodes
                PROVE  /\ g.c_refs[j] >= e.c_refs[j] + new[j]
                       /\ e.c_refs[j] > 0 /\ e.node[j].mode # "none"
                            => g.node[j].mode = e.node[j].mode
                       /\ new[j] > 0 => /\ g.node[j].mode # "none"
                                        /\ e.c_refs[j] > 0 \/ g.node[j].nlink # 0
    BY DEF Owed
  <2>1. /\ f.c_refs[j] >= e.c_refs[j] + own[j]
        /\ e.c_refs[j] > 0 /\ e.node[j].mode # "none" => f.node[j].mode = e.node[j].mode
        /\ own[j] > 0 => /\ f.node[j].mode # "none"
                         /\ e.c_refs[j] > 0 \/ f.node[j].nlink # 0
    BY DEF Mid, Owed
  <2>2. f.c_refs[j] \in Nat /\ e.c_refs[j] \in Nat /\ own[j] \in Nat
    BY <1>1, Fields DEF Bags
  <2>3. new[j] = IF j = i THEN own[j] - 1 ELSE own[j]
    BY BagOps DEF new
  <2>4. g.c_refs[j] = (IF j = i THEN f.c_refs[j] - 1 ELSE f.c_refs[j]) /\ g.node = f.node
    BY <1>1, <1>2, <1>3, Fields
  <2>. QED BY <2>1, <2>2, <2>3, <2>4
<1>. QED BY <1>2, <1>3, <1>4 DEF Mid, new

LEMMA DropMid ==
    ASSUME NEW e \in Filesys, NEW f, NEW own \in Bags, NEW k \in Nat, Mid(e, f, own, k),
           NEW i \in Inodes \cup {0}, i # 0 => own[i] > 0, NEW g \in Drop(f, i)
    PROVE  /\ Mid(e, g, Minus(own, i), k)
           /\ g.dir = f.dir /\ g.node = f.node /\ g.here = f.here
<1>1. CASE i = 0
  BY <1>1 DEF Drop, Minus
<1>2. CASE i # 0
  BY <1>2, DerefMid DEF Drop
<1>. QED BY <1>1, <1>2

(* At the end it may give back more than it has.                           *)
LEMMA DerefEnd ==
    ASSUME NEW e \in Filesys, NEW f, End(e, f), NEW i \in Inodes, NEW g \in Deref(f, i)
    PROVE  End(e, g)
<1>1. f \in Filesys /\ Good(f, 0) /\ 0 \in Nat
  BY DEF End, Good
<1>2. /\ Good(g, 0)
      /\ g.c_refs = [f.c_refs EXCEPT ![i] = @ - 1]
      /\ \A j \in Inodes : j # i \/ g.c_refs[j] > 0 => g.node[j] = f.node[j]
      /\ f.c_refs[i] > 0
  BY <1>1, DerefGood
<1>3. \A j \in Inodes : g.c_refs[j] > 0 => f.c_refs[j] > 0 /\ g.node[j] = f.node[j]
  BY <1>1, <1>2, Fields
<1>. QED BY <1>2, <1>3 DEF End, Kept

LEMMA DropEnd ==
    ASSUME NEW e \in Filesys, NEW f, End(e, f), NEW i \in Inodes \cup {0}, NEW g \in Drop(f, i)
    PROVE  End(e, g)
BY DerefEnd DEF Drop

LEMMA DropBothEnd ==
    ASSUME NEW e \in Filesys, NEW f, End(e, f), NEW i \in Inodes \cup {0},
           NEW j \in Inodes \cup {0}, NEW g \in DropBoth(f, i, j)
    PROVE  End(e, g)
<1>1. PICK h \in Drop(f, i) : g \in Drop(h, j)
  BY DEF DropBoth
<1>2. End(e, h)
  BY <1>1, DropEnd
<1>. QED BY <1>1, <1>2, DropEnd

LEMMA MidEnd ==
    ASSUME NEW e \in Filesys, NEW f, NEW own \in Bags, Mid(e, f, own, 0)
    PROVE  End(e, f)
BY DEF Mid, End, Owed, Kept
----------------------------------------------------------------------------
(* Paths.                                                                  *)
Found(f, d, n, i) ==
    i # 0 => \E s \in Slots : First(f, d, n, s) /\ f.dir[d][s].ino = i

LEMMA SrchDirMid ==
    ASSUME NEW e \in Filesys, NEW f, NEW own \in Bags, NEW k \in Nat, Mid(e, f, own, k),
           NEW d \in Inodes, NEW n, n # "", NEW c \in SrchDir(f, d, n)
    PROVE  /\ c[2] \in Inodes \cup {0}
           /\ Mid(e, c[1], Plus(own, c[2]), k)
           /\ Found(c[1], d, n, c[2])
<1>1. CASE \A s \in Slots : f.dir[d][s].name # n
  <2>1. c = <<f, 0>>
    BY <1>1 DEF SrchDir
  <2>. QED BY <2>1 DEF Plus, Found
<1>2. CASE ~\A s \in Slots : f.dir[d][s].name # n
  <2>1. PICK s \in Slots : First(f, d, n, s) /\ c \in IOpen(f, f.dir[d][s].ino)
    BY <1>2 DEF SrchDir
  <2>2. f.dir[d][s].ino \in Inodes
    <3>0. f \in Filesys
      BY DEF Mid, Good
    <3>4. f.dir \in [Inodes -> [Slots -> Entries]]
      BY <3>0, Fields
    <3>3. f.dir[d][s] \in Entries
      BY <2>1, <3>4
    <3>1. f.dir[d][s] \in Entries /\ f.dir[d][s].name # ""
      BY <2>1, <3>3 DEF First
    <3>2. f.dir[d][s].ino # 0
      BY <2>1, <3>1 DEF Mid, Good, Entered
    <3>. QED BY <3>1, <3>2 DEF Entries
  <2>3. /\ c[1].dir = f.dir /\ c[2] \in {0, f.dir[d][s].ino}
        /\ Mid(e, c[1], Plus(own, c[2]), k)
    BY <2>1, <2>2, IOpenMid
  <2>4. First(c[1], d, n, s)
    BY <2>1, <2>3 DEF First
  <2>. QED BY <2>1, <2>2, <2>3, <2>4 DEF Found
<1>. QED BY <1>1, <1>2

(* A turn of _namei's loop.                                                *)
Own(own, r) == Plus(Plus(own, r[2]), r[3])
Walked(e, own, r) ==
    /\ r[2] \in Inodes \cup {0} /\ r[3] \in Inodes \cup {0}
    /\ r[2] = 0 => r[3] = 0
    /\ Mid(e, r[1], Own(own, r), 0)
Leads(r, n) == Found(r[1], r[2], n, r[3])

LEMMA MinusPlus ==
    ASSUME NEW own \in Bags, NEW i \in Inodes \cup {0}
    PROVE  Minus(Plus(own, i), i) = own
<1>1. CASE i = 0
  BY <1>1 DEF Plus, Minus
<1>2. CASE i # 0
  <2>. DEFINE one == Plus(own, i)
  <2>1. one \in Bags /\ \A j \in Inodes : one[j] = IF j = i THEN own[j] + 1 ELSE own[j]
    BY BagOps
  <2>. HIDE DEF one
  <2>2. i \in Inodes /\ \A j \in Inodes : own[j] \in Nat
    BY <1>2 DEF Bags
  <2>5. one[i] - 1 = own[i]
    BY <2>1, <2>2
  <2>3. Minus(one, i) = [one EXCEPT ![i] = own[i]]
    BY <1>2, <2>5 DEF Minus
  <2>4. [one EXCEPT ![i] = own[i]] = own
    BY <2>1, <2>2 DEF Bags
  <2>. QED BY <2>3, <2>4 DEF one
<1>. QED BY <1>1, <1>2

LEMMA OwnTwo ==
    ASSUME NEW own \in Bags, NEW i \in Inodes \cup {0}, NEW j \in Inodes \cup {0}
    PROVE  /\ Plus(own, i) \in Bags /\ Plus(Plus(own, i), j) \in Bags
           /\ Plus(Plus(own, i), j) = Plus(Plus(own, j), i)
           /\ Minus(Plus(own, i), i) = own
           /\ Minus(Plus(Plus(own, i), j), i) = Plus(own, j)
           /\ Minus(Plus(Plus(own, i), j), j) = Plus(own, i)
           /\ i # 0 => Plus(own, i)[i] > 0 /\ Plus(Plus(own, i), j)[i] > 0
           /\ j # 0 => Plus(Plus(own, i), j)[j] > 0
<1>1. \A x \in Inodes : x # 0
  BY Ranges
<1>2. \A x \in Inodes : own[x] \in Nat
  BY DEF Bags
<1>3. Plus(own, i) \in Bags /\ Plus(Plus(own, i), j) \in Bags
  BY BagOps
<1>4. Minus(Plus(own, i), i) = own
  BY MinusPlus
<1>5. Plus(Plus(own, i), j) = Plus(Plus(own, j), i)
  BY <1>1, <1>2 DEF Bags, Plus
<1>6. Minus(Plus(Plus(own, i), j), j) = Plus(own, i)
  BY <1>3, MinusPlus
<1>9. Plus(own, j) \in Bags
  BY BagOps
<1>7. Minus(Plus(Plus(own, i), j), i) = Plus(own, j)
  BY <1>5, <1>9, MinusPlus
<1>8. /\ i # 0 => Plus(own, i)[i] > 0 /\ Plus(Plus(own, i), j)[i] > 0
      /\ j # 0 => Plus(Plus(own, i), j)[j] > 0
  BY <1>1, <1>2 DEF Bags, Plus
<1>. QED BY <1>3, <1>4, <1>5, <1>6, <1>7, <1>8

LEMMA LostWalked ==
    ASSUME NEW e \in Filesys, NEW f, NEW own \in Bags, NEW i \in Inodes,
           Mid(e, f, Plus(own, i), 0), NEW r \in Lost(f, i)
    PROVE  Walked(e, own, r) /\ r[3] = 0
<1>1. PICK g \in Deref(f, i) : r = <<g, 0, 0>>
  BY DEF Lost
<1>2. Plus(own, i) \in Bags /\ Plus(own, i)[i] > 0 /\ Minus(Plus(own, i), i) = own
  BY OwnTwo, Ranges
<1>3. 0 \in Nat
  OBVIOUS
<1>4. Mid(e, g, own, 0)
  BY <1>1, <1>2, <1>3, DerefMid
<1>. QED BY <1>1, <1>4 DEF Walked, Own, Plus

LEMMA TurnWalked ==
    ASSUME NEW e \in Filesys, NEW own \in Bags, NEW r, Walked(e, own, r),
           NEW n, n # "", NEW t \in Turn(r, n)
    PROVE  Walked(e, own, t) /\ Leads(t, n)
<1>. DEFINE f == r[1]  i == r[2]  j == r[3]
<1>1. /\ i \in Inodes \cup {0} /\ j \in Inodes \cup {0} /\ (i = 0 => j = 0)
      /\ Mid(e, f, Plus(Plus(own, i), j), 0) /\ 0 \in Nat
  BY DEF Walked, Own
<1>2. CASE i = 0
  <2>1. t = r /\ r[3] = 0
    BY <1>1, <1>2 DEF Turn
  <2>. QED BY <2>1 DEF Leads, Found
<1>3. CASE i # 0 /\ j = 0
  <2>1. t \in Lost(f, i)
    BY <1>3 DEF Turn
  <2>2. Mid(e, f, Plus(own, i), 0)
    BY <1>1, <1>3 DEF Plus
  <2>3. i \in Inodes
    BY <1>1, <1>3
  <2>. HIDE DEF f, i, j
  <2>. QED BY <2>1, <2>2, <2>3, LostWalked DEF Leads, Found
<1>4. CASE i # 0 /\ j # 0
  <2>1. PICK g \in Deref(f, i) :
          t \in IF g.node[j].mode # "dir" THEN Lost(g, j)
                ELSE {<<c[1], j, c[2]>> : c \in SrchDir(g, j, n)}
                       \cup (IF MayFail THEN Lost(g, j) ELSE {})
    BY <1>4 DEF Turn
  <2>. HIDE DEF f, i, j
  <2>5. i \in Inodes /\ j \in Inodes
    BY <1>1, <1>4
  <2>7. own \in Bags /\ i \in Inodes \cup {0} /\ j \in Inodes \cup {0} /\ i # 0
    BY <1>1, <1>4
  <2>6. /\ Plus(Plus(own, i), j) \in Bags /\ Plus(Plus(own, i), j)[i] > 0
        /\ Minus(Plus(Plus(own, i), j), i) = Plus(own, j)
    BY <2>7, OwnTwo, Zenon
  <2>2. Mid(e, g, Plus(own, j), 0)
    <3>. DEFINE both == Plus(Plus(own, i), j)
    <3>1. both \in Bags /\ both[i] > 0 /\ Mid(e, f, both, 0)
      BY <1>1, <2>6
    <3>. HIDE DEF both
    <3>2. Mid(e, g, Minus(both, i), 0)
      BY <1>1, <2>1, <2>5, <3>1, DerefMid
    <3>. QED BY <2>6, <3>2 DEF both
  <2>3. CASE t \in Lost(g, j)
    BY <1>1, <1>4, <2>2, <2>3, LostWalked DEF Leads, Found
  <2>4. ASSUME NEW c \in SrchDir(g, j, n), t = <<c[1], j, c[2]>>
        PROVE  Walked(e, own, t) /\ Leads(t, n)
    <3>1. Plus(own, j) \in Bags /\ j \in Inodes
      BY <1>1, <1>4, OwnTwo
    <3>2. /\ c[2] \in Inodes \cup {0}
          /\ Mid(e, c[1], Plus(Plus(own, j), c[2]), 0)
          /\ Found(c[1], j, n, c[2])
      <4>. DEFINE mine == Plus(own, j)
      <4>1. mine \in Bags /\ Mid(e, g, mine, 0)
        BY <2>2, <3>1
      <4>3. c \in SrchDir(g, j, n) /\ n # "" /\ 0 \in Nat
        BY <1>1, <2>4
      <4>4. e \in Filesys
        OBVIOUS
      <4>. HIDE DEF mine
      <4>2. /\ c[2] \in Inodes \cup {0}
            /\ Mid(e, c[1], Plus(mine, c[2]), 0)
            /\ Found(c[1], j, n, c[2])
        BY <3>1, <4>1, <4>3, <4>4, SrchDirMid
      <4>. QED BY <4>2 DEF mine
    <3>3. t[1] = c[1] /\ t[2] = j /\ t[3] = c[2]
      BY <2>4
    <3>. QED BY <1>1, <1>4, <3>1, <3>2, <3>3 DEF Walked, Leads, Own
  <2>. QED BY <2>1, <2>3, <2>4
<1>. QED BY <1>2, <1>3, <1>4

LEMMA StartWalked ==
    ASSUME NEW e \in Filesys, NEW f, NEW own \in Bags, Mid(e, f, own, 0),
           NEW d \in Inodes, MayStart(e, d), NEW r \in Start(f, d)
    PROVE  Walked(e, own, r)
<1>1. PICK g \in IRef(f, d) : \E h \in IRef(g, d) : r = <<h, d, d>>
  BY DEF Start
<1>2. PICK h \in IRef(g, d) : r = <<h, d, d>>
  BY <1>1
<1>3. f \in Filesys /\ Good(f, 0) /\ e.c_refs[d] > 0 /\ e.node[d].mode = "dir"
  BY DEF Mid, Good, MayStart
<1>4. f.c_refs[d] > 0 /\ f.node[d].mode # "none"
  <2>1. f.c_refs[d] >= e.c_refs[d] + own[d] /\ f.node[d].mode = e.node[d].mode
    BY <1>3 DEF Mid, Owed
  <2>2. f.c_refs[d] \in Nat /\ e.c_refs[d] \in Nat /\ own[d] \in Nat
    BY <1>3, Fields DEF Bags
  <2>. QED BY <1>3, <2>1, <2>2
<1>5. d \in f.here
  BY <1>3, <1>4 DEF Good, Placed
<1>6. Mid(e, g, Plus(own, d), 0) /\ g.node = f.node /\ g.here = f.here
  BY <1>1, <1>3, <1>4, <1>5, IRefMid
<1>. DEFINE one == Plus(own, d)
<1>7. one \in Bags /\ Mid(e, g, one, 0)
  BY <1>6, BagOps
<1>. HIDE DEF one
<1>8. Mid(e, h, Plus(one, d), 0)
  BY <1>2, <1>3, <1>4, <1>5, <1>6, <1>7, IRefMid
<1>. QED BY <1>2, <1>8, Ranges DEF Walked, Own, one

Short(q, n, empty) ==
    /\ n \in {0, 1, 2}
    /\ q = <<>> <=> n = 0
    /\ n = 1 => q[1] # empty
    /\ n = 2 => q[1] # empty /\ q[2] # empty

LEMMA UpToTwo ==
    ASSUME NEW S, NEW empty, empty \notin S, NEW q, NEW n \in Nat, n <= 2,
           q = <<>> <=> n = 0, \A k \in 1 .. n : q[k] \in S
    PROVE  Short(q, n, empty)
BY DEF Short

LEMMA ShortPath ==
    ASSUME NEW S, NEW empty, empty \notin S, NEW q \in Seq(S), Len(q) <= 2
    PROVE  Short(q, Len(q), empty)
<1>1. Len(q) \in Nat /\ \A k \in 1 .. Len(q) : q[k] \in S
  OBVIOUS
<1>2. q = <<>> <=> Len(q) = 0
  OBVIOUS
<1>. QED BY <1>1, <1>2, UpToTwo, Zenon

LEMMA PathNames ==
    ASSUME NEW p \in Paths
    PROVE  Short(p, Len(p), "")
<1>1. p \in Seq(Names) /\ Len(p) <= 2 /\ "" \notin Plain
  BY InodesAssumption, Zenon
<1>2. "" \notin Names
  BY <1>1 DEF Names
<1>. QED BY <1>1, <1>2, ShortPath, Zenon

LEMMA NameiWalked ==
    ASSUME NEW e \in Filesys, NEW f, NEW own \in Bags, Mid(e, f, own, 0),
           NEW d \in Inodes, MayStart(e, d), NEW p \in Paths, NEW r \in Namei(f, d, p)
    PROVE  Walked(e, own, r) /\ (p # <<>> => Leads(r, p[Len(p)]))
<1>1. CASE Len(p) = 0
  BY <1>1, PathNames, StartWalked DEF Namei, Short
<1>2. CASE Len(p) = 1
  <2>1. PICK s \in Start(f, d) : r \in Turn(s, p[1])
    BY <1>2 DEF Namei
  <2>2. Walked(e, own, s)
    BY <2>1, StartWalked
  <2>3. p[1] # ""
    BY <1>2, PathNames DEF Short
  <2>. QED BY <1>2, <2>1, <2>2, <2>3, TurnWalked
<1>3. CASE Len(p) = 2
  <2>1. PICK s \in Start(f, d) : \E t \in Turn(s, p[1]) : r \in Turn(t, p[2])
    BY <1>3 DEF Namei
  <2>2. PICK t \in Turn(s, p[1]) : r \in Turn(t, p[2])
    BY <2>1
  <2>3. Walked(e, own, s)
    BY <2>1, StartWalked
  <2>4. p[1] # "" /\ p[2] # ""
    BY <1>3, PathNames DEF Short
  <2>5. Walked(e, own, t)
    BY <2>2, <2>3, <2>4, TurnWalked
  <2>. QED BY <1>3, <2>2, <2>4, <2>5, TurnWalked
<1>. QED BY <1>1, <1>2, <1>3, PathNames DEF Short

LEMMA LookMid ==
    ASSUME NEW e \in Filesys, NEW f, NEW own \in Bags, Mid(e, f, own, 0),
           NEW d \in Inodes, MayStart(e, d), NEW p \in Paths, NEW r \in Look(f, d, p)
    PROVE  r[2] \in Inodes \cup {0} /\ Mid(e, r[1], Plus(own, r[2]), 0)
<1>1. PICK n \in Namei(f, d, p) : \E g \in Drop(n[1], n[2]) : r = <<g, n[3]>>
  BY DEF Look
<1>2. PICK g \in Drop(n[1], n[2]) : r = <<g, n[3]>>
  BY <1>1
<1>3. Walked(e, own, n)
  BY <1>1, NameiWalked
<1>. DEFINE i == n[2]  j == n[3]  both == Plus(Plus(own, i), j)
<1>4. i \in Inodes \cup {0} /\ j \in Inodes \cup {0} /\ Mid(e, n[1], both, 0) /\ 0 \in Nat
  BY <1>3 DEF Walked, Own
<1>5. both \in Bags /\ (i # 0 => both[i] > 0) /\ Minus(both, i) = Plus(own, j)
  <2>. HIDE DEF i, j
  <2>. QED BY <1>4, OwnTwo
<1>6. g \in Drop(n[1], i)
  BY <1>2
<1>. HIDE DEF i, j, both
<1>7. Mid(e, g, Minus(both, i), 0)
  BY <1>4, <1>5, <1>6, DropMid
<1>8. r[1] = g /\ r[2] = j
  BY <1>2 DEF j
<1>. QED BY <1>4, <1>5, <1>7, <1>8
----------------------------------------------------------------------------
(* i_alloc                                                                 *)
Popped(f, g, n) ==
    /\ g \in Filesys /\ g.s_tinode + n = f.s_tinode
    /\ g.node = f.node /\ g.disk = f.disk /\ g.here = f.here
    /\ g.c_refs = f.c_refs /\ g.c_dirty = f.c_dirty /\ g.dir = f.dir
    /\ g.spoiled = f.spoiled /\ g.wasted = f.wasted

LEMMA PoppedMid ==
    ASSUME NEW e \in Filesys, NEW f, NEW own \in Bags, NEW k \in Nat, Mid(e, f, own, k),
           NEW n \in Nat, NEW g, Popped(f, g, n)
    PROVE  Mid(e, g, own, k + n)
<1>1. f \in Filesys /\ Good(f, k)
  BY DEF Mid, Good
<1>2. f.s_tinode \in Nat /\ f.wasted \in Nat /\ g.s_tinode \in Nat
  BY <1>1, Fields DEF Popped
<1>3. Placed(g) /\ Clean(g) /\ Entered(g)
  BY <1>1 DEF Popped, Good, Placed, Clean, Entered
<1>4. Named(g, Zero)
  BY <1>1, CalmNames DEF Popped, Good, Named
<1>5. Available(g) = Available(f)
  BY DEF Popped, Available
<1>6. Tallied(g, k + n)
  BY <1>1, <1>2, <1>5 DEF Popped, Good, Tallied
<1>7. Owed(e, g, own)
  BY DEF Mid, Owed, Popped
<1>. QED BY <1>3, <1>4, <1>6, <1>7 DEF Mid, Good, Popped

LEMMA ShorterList ==
    ASSUME NEW S, NEW q \in Seq(S), q # <<>>
    PROVE  SubSeq(q, 1, Len(q) - 1) \in Seq(S) /\ q[Len(q)] \in S
OBVIOUS

LEMMA PopPopped ==
    ASSUME NEW f \in Filesys, f.s_inode # <<>>, NEW a, a = Pop(f)
    PROVE  \/ a[2] = 0 /\ Popped(f, a[1], 0)
           \/ a[2] \in Inodes /\ Popped(f, a[1], 1)
<1>1. f.s_inode \in Seq(Inodes) /\ f.s_tinode \in Nat
  BY Fields
<1>2. CASE f.s_tinode = 0
  <2>. DEFINE g == [f EXCEPT !.condemned = TRUE]
  <2>1. a = <<g, 0>>
    BY <1>2 DEF Pop, Condemned
  <2>3. f.s_tinode + 0 = f.s_tinode
    BY <1>1
  <2>2. Popped(f, g, 0)
    BY <2>3 DEF Popped, Filesys
  <2>. HIDE DEF g
  <2>. QED BY <2>1, <2>2
<1>3. CASE f.s_tinode # 0
  <2>. DEFINE q == SubSeq(f.s_inode, 1, Len(f.s_inode) - 1)
              g == [f EXCEPT !.s_inode = q, !.s_tinode = @ - 1]
  <2>1. a = <<g, f.s_inode[Len(f.s_inode)]>>
    BY <1>3 DEF Pop
  <2>2. q \in Seq(Inodes) /\ f.s_inode[Len(f.s_inode)] \in Inodes
    BY <1>1, ShorterList
  <2>3. f.s_tinode - 1 \in Nat /\ (f.s_tinode - 1) + 1 = f.s_tinode
    BY <1>1, <1>3
  <2>. HIDE DEF q
  <2>4. Popped(f, g, 1)
    BY <2>2, <2>3 DEF Popped, Filesys
  <2>. HIDE DEF g
  <2>. QED BY <2>1, <2>2, <2>4
<1>. QED BY <1>2, <1>3

LEMMA ListingList ==
    ASSUME NEW f, NEW s \in Listings(f)
    PROVE  s \in Seq(Inodes) /\ s # <<>>
<1>. DEFINE unused == {i \in Inodes : f.disk[i] = Blank}
<1>1. PICK k \in 1 .. FSFREEINODES : s \in [1 .. k -> unused]
  BY DEF Listings
<1>2. FSFREEINODES \in Nat
  BY InodesAssumption, Zenon
<1>3. k \in Nat /\ k # 0 /\ s \in [1 .. k -> Inodes]
  BY <1>1, <1>2
<1>. QED BY <1>3

Listed(f, s) == [f EXCEPT !.s_inode = s]

LEMMA ListedPopped ==
    ASSUME NEW f \in Filesys, NEW s \in Seq(Inodes), NEW g, g = Listed(f, s)
    PROVE  Popped(f, g, 0) /\ g.s_inode = s
<1>1. f.s_tinode + 0 = f.s_tinode
  BY Fields
<1>. QED BY <1>1 DEF Popped, Filesys, Listed

LEMMA IAllocMid ==
    ASSUME NEW e \in Filesys, NEW f, NEW own \in Bags, Mid(e, f, own, 0), NEW a \in IAlloc(f)
    PROVE  \/ a[2] = 0 /\ Mid(e, a[1], own, 0)
           \/ a[2] \in Inodes /\ Mid(e, a[1], own, 1)
<1>0. 0 \in Nat /\ 1 \in Nat /\ 0 + 0 = 0 /\ 0 + 1 = 1
  OBVIOUS
<1>1. ASSUME NEW g, Mid(e, g, own, 0), g.s_inode # <<>>, a = Pop(g)
      PROVE  \/ a[2] = 0 /\ Mid(e, a[1], own, 0)
             \/ a[2] \in Inodes /\ Mid(e, a[1], own, 1)
  <2>1. g \in Filesys
    BY <1>1 DEF Mid, Good
  <2>2. \/ a[2] = 0 /\ Popped(g, a[1], 0)
        \/ a[2] \in Inodes /\ Popped(g, a[1], 1)
    BY <1>1, <2>1, PopPopped
  <2>3. CASE a[2] = 0 /\ Popped(g, a[1], 0)
    <3>1. Mid(e, a[1], own, 0 + 0)
      BY <1>0, <1>1, <2>3, PoppedMid
    <3>. QED BY <1>0, <2>3, <3>1
  <2>4. CASE a[2] \in Inodes /\ Popped(g, a[1], 1)
    <3>1. Mid(e, a[1], own, 0 + 1)
      BY <1>0, <1>1, <2>4, PoppedMid
    <3>. QED BY <1>0, <2>4, <3>1
  <2>. QED BY <2>2, <2>3, <2>4
<1>2. CASE f.s_inode # <<>>
  <2>1. a = Pop(f)
    BY <1>2 DEF IAlloc
  <2>. QED BY <1>1, <1>2, <2>1
<1>3. CASE f.s_inode = <<>>
  <2>1. PICK g \in Synced(f) :
          a \in {Pop(Listed(g, s)) : s \in Listings(g)}
                  \cup (IF Listings(g) # {} THEN {}
                        ELSE IF g.s_tinode # 0 THEN {Condemned(g)} ELSE {<<g, 0>>})
                  \cup (IF MayFail THEN {<<g, 0>>} ELSE {})
    BY <1>3 DEF IAlloc, Listed
  <2>2. Mid(e, g, own, 0) /\ g \in Filesys
    <3>1. Calm(f, g)
      BY <2>1, SyncedCalm DEF Mid, Good, Steady
    <3>. QED BY <3>1, CalmKeeps DEF Calm
  <2>3. ASSUME NEW s \in Listings(g), a = Pop(Listed(g, s))
        PROVE  \/ a[2] = 0 /\ Mid(e, a[1], own, 0)
               \/ a[2] \in Inodes /\ Mid(e, a[1], own, 1)
    <3>. DEFINE x == Listed(g, s)
    <3>1. s \in Seq(Inodes) /\ s # <<>>
      BY <2>3, ListingList
    <3>2. Popped(g, x, 0) /\ x.s_inode = s
      BY <2>2, <3>1, ListedPopped
    <3>3. a = Pop(x)
      BY <2>3
    <3>. HIDE DEF x
    <3>4. Mid(e, x, own, 0 + 0)
      BY <1>0, <2>2, <3>2, PoppedMid
    <3>5. Mid(e, x, own, 0)
      BY <1>0, <3>4
    <3>. QED BY <1>1, <3>1, <3>2, <3>3, <3>5
  <2>4. CASE a = Condemned(g)
    <3>. DEFINE x == [g EXCEPT !.condemned = TRUE]
    <3>1. a = <<x, 0>>
      BY <2>4 DEF Condemned
    <3>2. g.s_tinode + 0 = g.s_tinode
      BY <2>2, Fields
    <3>3. Popped(g, x, 0)
      BY <2>2, <3>2 DEF Popped, Filesys
    <3>. HIDE DEF x
    <3>4. Mid(e, x, own, 0 + 0)
      BY <1>0, <2>2, <3>3, PoppedMid
    <3>. QED BY <1>0, <3>1, <3>4
  <2>5. CASE a = <<g, 0>>
    BY <2>2, <2>5
  <2>. QED BY <2>1, <2>3, <2>4, <2>5
<1>. QED BY <1>2, <1>3

(* i_open(NULLINO): what it hands out is blank and nobody's.               *)
Fresh(e, f, own, i) ==
    /\ own[i] = 0 /\ f.node[i] = Blank /\ i \in f.here
    /\ f.c_refs[i] > e.c_refs[i]
    /\ e.c_refs[i] = 0 \/ e.node[i].mode = "none"

LEMMA WastedMid ==
    ASSUME NEW e \in Filesys, NEW f, NEW own \in Bags, Mid(e, f, own, 1), NEW g, g = Wasted(f)
    PROVE  Mid(e, g, own, 0)
<1>1. f \in Filesys /\ Good(f, 1)
  BY DEF Mid, Good
<1>2. f.s_tinode \in Nat /\ f.wasted \in Nat /\ f.wasted + 1 \in Nat
  BY <1>1, Fields
<1>3. /\ g \in Filesys /\ g.wasted = f.wasted + 1
      /\ g.node = f.node /\ g.disk = f.disk /\ g.here = f.here
      /\ g.c_refs = f.c_refs /\ g.c_dirty = f.c_dirty /\ g.dir = f.dir
      /\ g.spoiled = f.spoiled /\ g.s_tinode = f.s_tinode
  BY <1>1, <1>2 DEF Wasted, Filesys
<1>4. Placed(g) /\ Clean(g) /\ Entered(g)
  BY <1>1, <1>3 DEF Good, Placed, Clean, Entered
<1>5. Named(g, Zero)
  BY <1>1, <1>3, CalmNames DEF Good, Named
<1>6. Available(g) = Available(f)
  BY <1>3 DEF Available
<1>7. Tallied(g, 0)
  BY <1>1, <1>2, <1>3, <1>6 DEF Good, Tallied
<1>8. Owed(e, g, own)
  BY <1>3 DEF Mid, Owed
<1>. QED BY <1>3, <1>4, <1>5, <1>7, <1>8 DEF Mid, Good

LEMMA RefsOwed ==
    ASSUME NEW e \in Filesys, NEW f \in Filesys, NEW own \in Bags, Owed(e, f, own),
           NEW i \in Inodes, NEW g, Refs(f, g, i, f.c_refs[i] + 1)
    PROVE  Owed(e, g, own) /\ g.c_refs[i] > e.c_refs[i] + own[i]
<1>1. \A j \in Inodes : f.c_refs[j] \in Nat /\ e.c_refs[j] \in Nat /\ own[j] \in Nat
  BY Fields DEF Bags
<1>2. g.node = f.node /\ \A j \in Inodes :
        g.c_refs[j] = IF j = i THEN f.c_refs[j] + 1 ELSE f.c_refs[j]
  BY Fields DEF Refs
<1>3. \A j \in Inodes : f.c_refs[j] >= e.c_refs[j] + own[j]
  BY DEF Owed
<1>4. \A j \in Inodes : g.c_refs[j] >= e.c_refs[j] + own[j]
  BY <1>1, <1>2, <1>3
<1>5. g.c_refs[i] > e.c_refs[i] + own[i]
  BY <1>1, <1>2, <1>3
<1>. QED BY <1>2, <1>4, <1>5 DEF Owed

LEMMA FreshIRef ==
    ASSUME NEW e \in Filesys, NEW f, NEW own \in Bags, NEW k \in {0, 1}, Mid(e, f, own, k),
           NEW i \in Inodes, i \in f.here, f.node[i] = Blank,
           k = 1 <=> f.c_refs[i] = 0, NEW g \in IRef(f, i)
    PROVE  Mid(e, g, own, 0) /\ Fresh(e, g, own, i)
<1>1. f \in Filesys /\ Good(f, k) /\ Owed(e, f, own)
  BY DEF Mid, Good
<1>2. Refs(f, g, i, f.c_refs[i] + 1)
  BY <1>1, IRefFields
<1>3. Owed(e, g, own) /\ g.c_refs[i] > e.c_refs[i] + own[i]
  BY <1>1, <1>2, RefsOwed
<1>4. own[i] = 0 /\ e.c_refs[i] \in Nat /\ f.c_refs[i] \in Nat /\ g \in Filesys
  BY <1>1, <1>2, BlankNode, Fields DEF Owed, Bags, Refs
<1>5. e.c_refs[i] = 0 \/ e.node[i].mode = "none"
  BY <1>1, <1>4, BlankNode DEF Owed
<1>6. Fresh(e, g, own, i)
  BY <1>2, <1>3, <1>4, <1>5 DEF Fresh, Refs
<1>7. CASE k = 0
  <2>1. Good(g, 0)
    BY <1>1, <1>2, <1>4, <1>7, RefsGood
  <2>. QED BY <1>3, <1>6, <2>1 DEF Mid
<1>8. CASE k = 1
  <2>1. f.c_refs \in [Inodes -> Nat] /\ f.s_tinode \in Nat /\ f.wasted \in Nat
    BY <1>1, Fields
  <2>2. Placed(g)
    BY <1>1, <1>2, <2>1 DEF Good, Placed, Refs
  <2>3. Clean(g) /\ Entered(g)
    BY <1>1, <1>2 DEF Good, Refs, Clean, Entered
  <2>4. Named(g, Zero)
    BY <1>1, <1>2, CalmNames DEF Good, Refs, Named
  <2>5. i \in Available(f) /\ Available(g) = Available(f) \ {i}
    BY <1>2, <1>8, <2>1 DEF Refs, Available
  <2>6. Cardinality(Available(g)) = Cardinality(Available(f)) - 1
    BY <2>5, Finite, FS_RemoveElement
  <2>7. Tallied(g, 0)
    <3>1. Cardinality(Available(f)) \in Nat
      BY Finite
    <3>2. f.spoiled = {} => f.s_tinode + f.wasted + 1 = Cardinality(Available(f))
      BY <1>1, <1>8 DEF Good, Tallied
    <3>3. g.spoiled = f.spoiled /\ g.s_tinode = f.s_tinode /\ g.wasted = f.wasted
      BY <1>2 DEF Refs
    <3>. QED BY <2>1, <2>6, <3>1, <3>2, <3>3 DEF Tallied
  <2>8. Good(g, 0)
    BY <1>4, <2>2, <2>3, <2>4, <2>7 DEF Good
  <2>. QED BY <1>3, <1>6, <2>8 DEF Mid
<1>. QED BY <1>7, <1>8

LEMMA TakenMid ==
    ASSUME NEW e \in Filesys, NEW f, NEW own \in Bags, Mid(e, f, own, 1),
           NEW i \in Inodes, NEW c \in Taken(f, i)
    PROVE  Mid(e, c[1], own, 0) /\ (c[2] = 0 \/ (c[2] = i /\ Fresh(e, c[1], own, i)))
<1>0. 0 \in {0, 1} /\ 1 \in {0, 1} /\ 0 # 1
  OBVIOUS
<1>1. PICK r \in Fetched(f, i) :
        c \in IF r[2] /\ r[1].node[i] = Blank
              THEN {<<g, i>> : g \in IRef(IF r[1].c_refs[i] = 0 THEN r[1] ELSE Wasted(r[1]), i)}
              ELSE {<<Wasted(r[1]), 0>>}
  BY DEF Taken
<1>. DEFINE x == r[1]  y == Wasted(r[1])
<1>2. Calm(f, x) /\ (r[2] => i \in x.here)
  BY <1>1, FetchedCalm DEF Mid, Good, Steady
<1>3. Mid(e, x, own, 1)
  BY <1>2, CalmKeeps
<1>4. Mid(e, y, own, 0)
  BY <1>3, WastedMid
<1>5. CASE ~(r[2] /\ r[1].node[i] = Blank)
  <2>1. c = <<y, 0>>
    BY <1>1, <1>5
  <2>. QED BY <1>4, <2>1
<1>6. CASE r[2] /\ r[1].node[i] = Blank /\ r[1].c_refs[i] = 0
  <2>1. PICK g \in IRef(x, i) : c = <<g, i>>
    BY <1>1, <1>6
  <2>2. i \in x.here /\ x.node[i] = Blank /\ x.c_refs[i] = 0
    BY <1>2, <1>6
  <2>. HIDE DEF x, y
  <2>3. Mid(e, g, own, 0) /\ Fresh(e, g, own, i)
    BY <1>0, <1>3, <2>1, <2>2, FreshIRef
  <2>. QED BY <2>1, <2>3
<1>7. CASE r[2] /\ r[1].node[i] = Blank /\ r[1].c_refs[i] # 0
  <2>1. PICK g \in IRef(y, i) : c = <<g, i>>
    BY <1>1, <1>7
  <2>0. x \in Filesys
    BY <1>2 DEF Calm
  <2>4. y.here = x.here /\ y.node = x.node /\ y.c_refs = x.c_refs
    BY <2>0 DEF Wasted, Filesys
  <2>2. i \in y.here /\ y.node[i] = Blank /\ y.c_refs[i] # 0
    BY <1>2, <1>7, <2>4
  <2>. HIDE DEF x, y
  <2>3. Mid(e, g, own, 0) /\ Fresh(e, g, own, i)
    BY <1>0, <1>4, <2>1, <2>2, FreshIRef
  <2>. QED BY <2>1, <2>3
<1>. QED BY <1>5, <1>6, <1>7

LEMMA NewInodeMid ==
    ASSUME NEW e \in Filesys, NEW f, NEW own \in Bags, Mid(e, f, own, 0), NEW c \in NewInode(f)
    PROVE  /\ Mid(e, c[1], own, 0)
           /\ c[2] = 0 \/ (c[2] \in Inodes /\ Fresh(e, c[1], own, c[2]))
<1>1. PICK a \in IAlloc(f) : c \in IF a[2] = 0 THEN {a} ELSE Taken(a[1], a[2])
  BY DEF NewInode
<1>2. \/ a[2] = 0 /\ Mid(e, a[1], own, 0)
      \/ a[2] \in Inodes /\ Mid(e, a[1], own, 1)
  BY <1>1, IAllocMid
<1>3. CASE a[2] = 0
  <2>1. ~(a[2] \in Inodes)
    BY <1>3, Ranges
  <2>. QED BY <1>1, <1>2, <1>3, <2>1
<1>4. CASE a[2] # 0
  <2>1. a[2] \in Inodes /\ Mid(e, a[1], own, 1) /\ c \in Taken(a[1], a[2])
    BY <1>1, <1>2, <1>4
  <2>. QED BY <2>1, TakenMid
<1>. QED BY <1>3, <1>4
----------------------------------------------------------------------------
(* An inode in the table is modified.                                      *)
Sound(f, k) == f \in Filesys /\ Placed(f) /\ Clean(f) /\ Entered(f) /\ Tallied(f, k)

Marked(f, g, i, new) ==
    /\ g \in Filesys
    /\ g.node = [f.node EXCEPT ![i] = new]
    /\ g.c_dirty = [f.c_dirty EXCEPT ![i] = TRUE]
    /\ g.disk = f.disk /\ g.here = f.here /\ g.c_refs = f.c_refs /\ g.dir = f.dir
    /\ g.s_tinode = f.s_tinode /\ g.spoiled = f.spoiled /\ g.wasted = f.wasted

LEMMA SetNodeMarked ==
    ASSUME NEW f \in Filesys, NEW i \in Inodes, NEW new \in Nodes
    PROVE  Marked(f, SetNode(f, i, new), i, new)
<1>1. /\ [f.node EXCEPT ![i] = new] \in [Inodes -> Nodes]
      /\ [f.c_dirty EXCEPT ![i] = TRUE] \in [Inodes -> BOOLEAN]
  BY Fields
<1>. QED BY <1>1 DEF SetNode, Marked, Filesys

LEMMA SetftimMarked ==
    ASSUME NEW f \in Filesys, NEW i \in Inodes
    PROVE  Marked(f, Setftim(f, i), i, f.node[i])
<1>1. [f.c_dirty EXCEPT ![i] = TRUE] \in [Inodes -> BOOLEAN]
  BY Fields
<1>2. f.node = [f.node EXCEPT ![i] = f.node[i]]
  BY Fields
<1>. QED BY <1>1, <1>2 DEF Setftim, Marked, Filesys

Renumbered(node, n) == [node EXCEPT !.nlink = n]

LEMMA RenumberedNode ==
    ASSUME NEW node \in Nodes, NEW n \in Nat
    PROVE  /\ Renumbered(node, n) \in Nodes
           /\ Renumbered(node, n).mode = node.mode /\ Renumbered(node, n).nlink = n
BY DEF Renumbered, Nodes

(* A change of i_nlink alone.                                              *)
Relinked(f, g, i, n) ==
    /\ g \in Filesys
    /\ g.node = [f.node EXCEPT ![i] = Renumbered(f.node[i], n)]
    /\ g.c_dirty = f.c_dirty
    /\ g.disk = f.disk /\ g.here = f.here /\ g.c_refs = f.c_refs /\ g.dir = f.dir
    /\ g.s_tinode = f.s_tinode /\ g.spoiled = f.spoiled /\ g.wasted = f.wasted

LEMMA WithNlinkFields ==
    ASSUME NEW f \in Filesys, NEW i \in Inodes, NEW n \in Nat
    PROVE  Relinked(f, WithNlink(f, i, n), i, n)
<1>1. f.node \in [Inodes -> Nodes]
  BY Fields
<1>2. Renumbered(f.node[i], n) \in Nodes
  BY <1>1, RenumberedNode
<1>3. [f.node EXCEPT ![i] = Renumbered(f.node[i], n)] \in [Inodes -> Nodes]
  BY <1>1, <1>2
<1>4. WithNlink(f, i, n) = [f EXCEPT !.node = [f.node EXCEPT ![i] = Renumbered(f.node[i], n)]]
  BY DEF WithNlink, Renumbered
<1>. QED BY <1>3, <1>4 DEF Relinked, Filesys

LEMMA NlinkMarked ==
    ASSUME NEW f \in Filesys, NEW i \in Inodes, NEW n \in Nat
    PROVE  Marked(f, Setftim(WithNlink(f, i, n), i), i, Renumbered(f.node[i], n))
<1>. DEFINE g == WithNlink(f, i, n)
<1>1. Relinked(f, g, i, n)
  BY WithNlinkFields
<1>. HIDE DEF g
<1>2. g \in Filesys
  BY <1>1 DEF Relinked
<1>3. Marked(g, Setftim(g, i), i, g.node[i])
  BY <1>2, SetftimMarked
<1>4. g.node = [g.node EXCEPT ![i] = g.node[i]]
  BY <1>2, Fields
<1>. QED BY <1>1, <1>3, <1>4 DEF Marked, Relinked, g

LEMMA MarkedSound ==
    ASSUME NEW f, NEW k, Sound(f, k), NEW i \in Inodes, i \in f.here, NEW new \in Nodes,
           f.c_refs[i] > 0 \/ (f.node[i] # Blank /\ new # Blank),
           NEW g, Marked(f, g, i, new)
    PROVE  Sound(g, k)
<1>1. /\ f \in Filesys /\ f.node \in [Inodes -> Nodes] /\ f.c_dirty \in [Inodes -> BOOLEAN]
      /\ f.c_refs \in [Inodes -> Nat]
  BY Fields DEF Sound
<1>2. /\ \A j \in Inodes : g.node[j] = IF j = i THEN new ELSE f.node[j]
      /\ \A j \in Inodes : g.c_dirty[j] = IF j = i THEN TRUE ELSE f.c_dirty[j]
  BY <1>1 DEF Marked
<1>3. Placed(g) /\ Clean(g)
  BY <1>1, <1>2 DEF Sound, Marked, Placed, Clean
<1>6. g.dir = f.dir
  BY DEF Marked
<1>4. Entered(g)
  BY <1>6 DEF Sound, Entered
<1>5. Available(g) = Available(f)
  BY <1>1, <1>2 DEF Marked, Available
<1>. QED BY <1>3, <1>4, <1>5 DEF Sound, Marked, Tallied

LEMMA MarkedOwed ==
    ASSUME NEW e, NEW f \in Filesys, NEW own, Owed(e, f, own),
           NEW i \in Inodes, NEW new,
           e.c_refs[i] > 0 /\ e.node[i].mode # "none" => new.mode = e.node[i].mode,
           own[i] > 0 => new.mode # "none" /\ (e.c_refs[i] > 0 \/ new.nlink # 0),
           NEW g, Marked(f, g, i, new)
    PROVE  Owed(e, g, own)
<1>1. g.c_refs = f.c_refs /\ \A j \in Inodes : g.node[j] = IF j = i THEN new ELSE f.node[j]
  BY Fields DEF Marked
<1>. QED BY <1>1 DEF Owed

LEMMA MarkedNamed ==
    ASSUME NEW f \in Filesys, Named(f, Zero), NEW i \in Inodes, NEW new \in Nodes,
           i \notin f.spoiled => Cardinality(NamesOf(f, i)) <= new.nlink,
           new.mode # "none", NEW g, Marked(f, g, i, new)
    PROVE  Named(g, Zero)
<1>1. \A j \in Inodes : g.node[j] = IF j = i THEN new ELSE f.node[j]
  BY Fields DEF Marked
<1>2. \A j \in Inodes : NamesOf(g, j) = NamesOf(f, j)
  BY CalmNames DEF Marked
<1>3. \A j \in Inodes : Zero[j] = 0
  BY DEF Zero
<1>4. new.nlink + 0 = new.nlink
  BY NodeFields
<1>5. g.spoiled = f.spoiled
  BY DEF Marked
<1>. QED BY <1>1, <1>2, <1>3, <1>4, <1>5 DEF Named

LEMMA MarkedMid ==
    ASSUME NEW e \in Filesys, NEW f, NEW own \in Bags, NEW k, Mid(e, f, own, k),
           NEW i \in Inodes, i \in f.here, NEW new \in Nodes, new.mode # "none",
           f.c_refs[i] > 0 \/ f.node[i].mode # "none",
           i \notin f.spoiled => Cardinality(NamesOf(f, i)) <= new.nlink,
           e.c_refs[i] > 0 /\ e.node[i].mode # "none" => new.mode = e.node[i].mode,
           own[i] > 0 => e.c_refs[i] > 0 \/ new.nlink # 0,
           NEW g, Marked(f, g, i, new)
    PROVE  Mid(e, g, own, k)
<1>1. f \in Filesys /\ Sound(f, k) /\ Named(f, Zero) /\ Owed(e, f, own)
  BY DEF Mid, Good, Sound
<1>2. Sound(g, k)
  BY <1>1, BlankNode, MarkedSound
<1>3. Named(g, Zero)
  BY <1>1, MarkedNamed
<1>4. Owed(e, g, own)
  BY <1>1, MarkedOwed
<1>. QED BY <1>2, <1>3, <1>4 DEF Mid, Good, Sound
----------------------------------------------------------------------------
(* ch_link                                                                 *)
Writes(f, g, d, s, en) ==
    /\ g \in Filesys
    /\ g.dir = [f.dir EXCEPT ![d] = [f.dir[d] EXCEPT ![s] = en]]
    /\ g.c_dirty = f.c_dirty \/ g.c_dirty = [f.c_dirty EXCEPT ![d] = TRUE]
    /\ g.node = f.node /\ g.disk = f.disk /\ g.here = f.here /\ g.c_refs = f.c_refs
    /\ g.s_tinode = f.s_tinode /\ g.spoiled = f.spoiled /\ g.wasted = f.wasted

ChangedAt(f, d, s, en) == [f EXCEPT !.dir[d][s] = en]

LEMMA ChangedWrites ==
    ASSUME NEW f \in Filesys, NEW d \in Inodes, NEW s \in Slots, NEW en \in Entries
    PROVE  /\ Writes(f, ChangedAt(f, d, s, en), d, s, en)
           /\ Writes(f, Setftim(ChangedAt(f, d, s, en), d), d, s, en)
           /\ Setftim(ChangedAt(f, d, s, en), d).c_dirty[d]
<1>. DEFINE g == ChangedAt(f, d, s, en)
<1>1. f.dir \in [Inodes -> [Slots -> Entries]] /\ f.c_dirty \in [Inodes -> BOOLEAN]
  BY Fields
<1>2. [f.dir EXCEPT ![d] = [f.dir[d] EXCEPT ![s] = en]] \in [Inodes -> [Slots -> Entries]]
  BY <1>1
<1>3. g = [f EXCEPT !.dir = [f.dir EXCEPT ![d] = [f.dir[d] EXCEPT ![s] = en]]]
  BY DEF ChangedAt
<1>4. Writes(f, g, d, s, en)
  BY <1>2, <1>3 DEF Writes, Filesys
<1>. HIDE DEF g
<1>5. g \in Filesys
  BY <1>4 DEF Writes
<1>6. Marked(g, Setftim(g, d), d, g.node[d])
  BY <1>5, SetftimMarked
<1>7. g.node = [g.node EXCEPT ![d] = g.node[d]]
  BY <1>5, Fields
<1>8. g.c_dirty \in [Inodes -> BOOLEAN]
  BY <1>5, Fields
<1>9. Setftim(g, d).c_dirty[d]
  BY <1>6, <1>8 DEF Marked
<1>12. [[f.c_dirty EXCEPT ![d] = TRUE] EXCEPT ![d] = TRUE] = [f.c_dirty EXCEPT ![d] = TRUE]
  BY <1>1
<1>10. \/ Setftim(g, d).c_dirty = [f.c_dirty EXCEPT ![d] = TRUE]
  BY <1>4, <1>6, <1>12 DEF Writes, Marked
<1>11. Writes(f, Setftim(g, d), d, s, en)
  BY <1>4, <1>6, <1>7, <1>10 DEF Writes, Marked
<1>. QED BY <1>4, <1>9, <1>11 DEF g

LEMMA ChLinkWrites ==
    ASSUME NEW f \in Filesys, NEW d \in Inodes, NEW old, NEW en \in Entries,
           NEW c \in ChLink(f, d, old, en)
    PROVE  \/ c[1] = f /\ ~c[2]
           \/ /\ c[2] => c[1].c_dirty[d]
              /\ \E s \in Slots : First(f, d, old, s) /\ Writes(f, c[1], d, s, en)
<1>1. \/ c = <<f, FALSE>>
      \/ \E s \in Slots : /\ First(f, d, old, s)
                          /\ \/ c = <<Setftim(ChangedAt(f, d, s, en), d), TRUE>>
                             \/ c = <<ChangedAt(f, d, s, en), FALSE>>
  BY DEF ChLink, ChangedAt
<1>2. CASE c = <<f, FALSE>>
  BY <1>2
<1>3. ASSUME NEW s \in Slots, First(f, d, old, s),
             c = <<Setftim(ChangedAt(f, d, s, en), d), TRUE>>
      PROVE  /\ c[2] => c[1].c_dirty[d]
             /\ First(f, d, old, s) /\ Writes(f, c[1], d, s, en)
  BY <1>3, ChangedWrites
<1>4. ASSUME NEW s \in Slots, First(f, d, old, s), c = <<ChangedAt(f, d, s, en), FALSE>>
      PROVE  /\ c[2] => c[1].c_dirty[d]
             /\ First(f, d, old, s) /\ Writes(f, c[1], d, s, en)
  <2>1. c[1] = ChangedAt(f, d, s, en) /\ c[2] = FALSE
    BY <1>4
  <2>. QED BY <1>4, <2>1, ChangedWrites
<1>. QED BY <1>1, <1>2, <1>3, <1>4

Slotted(f, g, d, s, en) ==
    \A b \in Inodes, t \in Slots :
        g.dir[b][t] = IF b = d /\ t = s THEN en ELSE f.dir[b][t]

LEMMA WrittenSlots ==
    ASSUME NEW f \in Filesys, NEW g, NEW d \in Inodes, NEW s \in Slots, NEW en,
           Writes(f, g, d, s, en)
    PROVE  Slotted(f, g, d, s, en)
<1>1. f.dir \in [Inodes -> [Slots -> Entries]]
  BY Fields
<1>2. g.dir = [f.dir EXCEPT ![d] = [f.dir[d] EXCEPT ![s] = en]]
  BY DEF Writes
<1>. QED BY <1>1, <1>2 DEF Slotted

LEMMA WritesSound ==
    ASSUME NEW f, NEW k, Sound(f, k), NEW d \in Inodes, d \in f.here, NEW s \in Slots,
           NEW en, en.name # "" => en.ino # 0, NEW g, Writes(f, g, d, s, en)
    PROVE  Sound(g, k)
<1>1. f \in Filesys /\ f.c_dirty \in [Inodes -> BOOLEAN]
  BY Fields DEF Sound
<1>2. \A j \in Inodes : g.c_dirty[j] = f.c_dirty[j] \/ (j = d /\ g.c_dirty[j])
  BY <1>1 DEF Writes
<1>3. Placed(g) /\ Clean(g)
  BY <1>2 DEF Sound, Writes, Placed, Clean
<1>6. Slotted(f, g, d, s, en)
  BY <1>1, WrittenSlots
<1>4. Entered(g)
  BY <1>6 DEF Sound, Entered, Slotted
<1>5. Available(g) = Available(f)
  BY DEF Writes, Available
<1>. QED BY <1>3, <1>4, <1>5 DEF Sound, Writes, Tallied

LEMMA WritesOwed ==
    ASSUME NEW e, NEW f, NEW own, Owed(e, f, own), NEW d, NEW s, NEW en,
           NEW g, Writes(f, g, d, s, en)
    PROVE  Owed(e, g, own)
BY DEF Owed, Writes

LEMMA Places ==
    ASSUME NEW A, NEW B, NEW x \in A \X B
    PROVE  x[1] \in A /\ x[2] \in B /\ x = <<x[1], x[2]>>
OBVIOUS

LEMMA Placing ==
    ASSUME NEW A, NEW B, NEW a \in A, NEW b \in B
    PROVE  <<a, b>> \in A \X B /\ <<a, b>>[1] = a /\ <<a, b>>[2] = b
OBVIOUS

Nameless(f, d, s) == f.dir[d][s].name = ""

(* An entry in the place of one without a name.                            *)
LEMMA WritesAdd ==
    ASSUME NEW f \in Filesys, NEW d \in Inodes, NEW s \in Slots, Nameless(f, d, s),
           NEW en, NEW g, Writes(f, g, d, s, en), NEW j \in Inodes
    PROVE  /\ j # en.ino => NamesOf(g, j) \subseteq NamesOf(f, j)
           /\ Cardinality(NamesOf(g, j)) <= Cardinality(NamesOf(f, j)) + (IF j = en.ino THEN 1 ELSE 0)
<1>. DEFINE at == <<d, s>>
<1>9. d \in Inodes /\ s \in Slots
  OBVIOUS
<1>0. at[1] = d /\ at[2] = s /\ at \in Inodes \X Slots
  BY <1>9, Placing, Zenon
<1>8. Slotted(f, g, d, s, en)
  BY WrittenSlots
<1>1. ASSUME NEW x \in NamesOf(g, j), x # at
      PROVE  x \in NamesOf(f, j)
  <2>0. x \in Inodes \X Slots
    BY <1>1 DEF NamesOf
  <2>1. x[1] \in Inodes /\ x[2] \in Slots /\ x = <<x[1], x[2]>>
    BY <2>0, Places, Zenon
  <2>2. ~(x[1] = d /\ x[2] = s)
    BY <1>1, <2>1, Zenon
  <2>3. g.dir[x[1]][x[2]] = f.dir[x[1]][x[2]]
    BY <1>8, <2>1, <2>2 DEF Slotted
  <2>4. g.dir[x[1]][x[2]].name # "" /\ g.dir[x[1]][x[2]].ino = j
    BY DEF NamesOf
  <2>5. f.dir[x[1]][x[2]].name # "" /\ f.dir[x[1]][x[2]].ino = j
    BY <1>8, <2>1, <2>2, <2>4 DEF Slotted
  <2>. QED BY <2>0, <2>5 DEF NamesOf
<1>2. ASSUME at \in NamesOf(g, j)
      PROVE  j = en.ino
  <2>1. g.dir[d][s] = en
    BY <1>8 DEF Slotted
  <2>2. g.dir[at[1]][at[2]].ino = j
    BY <1>2 DEF NamesOf
  <2>. QED BY <1>0, <2>1, <2>2
<1>3. at \notin NamesOf(f, j)
  <2>1. at[1] = d /\ at[2] = s
    BY <1>0
  <2>2. at \in NamesOf(f, j) => f.dir[at[1]][at[2]].name # ""
    BY DEF NamesOf
  <2>. QED BY <2>1, <2>2 DEF Nameless
<1>. HIDE DEF at
<1>4. CASE j # en.ino
  <2>1. NamesOf(g, j) \subseteq NamesOf(f, j)
    BY <1>1, <1>2, <1>4
  <2>2. Cardinality(NamesOf(g, j)) <= Cardinality(NamesOf(f, j))
    BY <2>1, FewerNames
  <2>3. Cardinality(NamesOf(g, j)) \in Nat /\ Cardinality(NamesOf(f, j)) \in Nat
    BY Finite
  <2>4. Cardinality(NamesOf(g, j)) <= Cardinality(NamesOf(f, j)) + 0
    BY <2>2, <2>3
  <2>. QED BY <1>4, <2>1, <2>4, Zenon
<1>5. CASE j = en.ino
  <2>1. NamesOf(g, j) \subseteq NamesOf(f, j) \cup {at}
    BY <1>1
  <2>2. Cardinality(NamesOf(f, j) \cup {at}) = Cardinality(NamesOf(f, j)) + 1
    BY <1>3, Finite, FS_AddElement
  <2>3. IsFiniteSet(NamesOf(f, j) \cup {at})
    BY Finite, FS_AddElement
  <2>4. Cardinality(NamesOf(g, j)) <= Cardinality(NamesOf(f, j) \cup {at})
    BY <2>1, <2>3, FS_Subset
  <2>. QED BY <1>5, <2>2, <2>4
<1>. QED BY <1>4, <1>5

(* An entry is removed.                                                    *)
LEMMA WritesDrop ==
    ASSUME NEW f \in Filesys, NEW d \in Inodes, NEW s \in Slots, ~Nameless(f, d, s),
           NEW g, Writes(f, g, d, s, Unused), NEW j \in Inodes
    PROVE  /\ NamesOf(g, j) \subseteq NamesOf(f, j)
           /\ j = f.dir[d][s].ino =>
                Cardinality(NamesOf(g, j)) = Cardinality(NamesOf(f, j)) - 1
<1>. DEFINE at == <<d, s>>
<1>9. d \in Inodes /\ s \in Slots
  OBVIOUS
<1>0. at[1] = d /\ at[2] = s /\ at \in Inodes \X Slots
  BY <1>9, Placing, Zenon
<1>8. Slotted(f, g, d, s, Unused)
  BY WrittenSlots
<1>7. Unused.name = ""
  BY DEF Unused
<1>1. g.dir[d][s].name = ""
  BY <1>7, <1>8 DEF Slotted
<1>2. at \notin NamesOf(g, j)
  <2>1. at \in NamesOf(g, j) => g.dir[at[1]][at[2]].name # ""
    BY DEF NamesOf
  <2>. QED BY <1>0, <1>1, <2>1
<1>3. \A x \in Inodes \X Slots : x # at => g.dir[x[1]][x[2]] = f.dir[x[1]][x[2]]
  <2>. SUFFICES ASSUME NEW x \in Inodes \X Slots, x # at
                PROVE  g.dir[x[1]][x[2]] = f.dir[x[1]][x[2]]
    OBVIOUS
  <2>0. x \in Inodes \X Slots /\ x # at
    OBVIOUS
  <2>1. x[1] \in Inodes /\ x[2] \in Slots /\ x = <<x[1], x[2]>>
    BY <2>0, Places, Zenon
  <2>2. ~(x[1] = d /\ x[2] = s)
    BY <2>0, <2>1, Zenon
  <2>. QED BY <1>8, <2>1, <2>2 DEF Slotted
<1>4. j = f.dir[d][s].ino => at \in NamesOf(f, j)
  <2>1. f.dir[at[1]][at[2]].name # ""
    BY <1>0 DEF Nameless
  <2>. QED BY <1>0, <2>1 DEF NamesOf
<1>. HIDE DEF at
<1>5. NamesOf(g, j) = NamesOf(f, j) \ {at}
  BY <1>2, <1>3 DEF NamesOf
<1>6. j = f.dir[d][s].ino => Cardinality(NamesOf(g, j)) = Cardinality(NamesOf(f, j)) - 1
  BY <1>4, <1>5, Finite, FS_RemoveElement
<1>. QED BY <1>5, <1>6

(* What ch_link does when it adds an entry for i, whether it returns 1 or  *)
(* 0: at most one name more, of i.                                         *)
One(i, j) == IF i = j THEN 1 ELSE 0
Adds(f, g, i) ==
    \A j \in Inodes :
        /\ j # i => NamesOf(g, j) \subseteq NamesOf(f, j)
        /\ Cardinality(NamesOf(g, j)) <= Cardinality(NamesOf(f, j)) + One(i, j)
Same(f, g) ==
    g.node = f.node /\ g.here = f.here /\ g.c_refs = f.c_refs /\ g.spoiled = f.spoiled
Enters(en) == en.name # "" => en.ino # 0

LEMMA AddsNothing ==
    ASSUME NEW f, NEW i
    PROVE  Adds(f, f, i)
<1>1. \A j \in Inodes : Cardinality(NamesOf(f, j)) \in Nat
  BY Finite
<1>. QED BY <1>1 DEF Adds, One

LEMMA ChLinkAdds ==
    ASSUME NEW f, NEW k, Sound(f, k), NEW d \in Inodes, d \in f.here,
           NEW en \in Entries, Enters(en), NEW c \in ChLink(f, d, "", en)
    PROVE  /\ Sound(c[1], k) /\ Adds(f, c[1], en.ino) /\ Same(f, c[1])
           /\ c[2] => c[1].c_dirty[d]
<1>1. f \in Filesys
  BY DEF Sound
<1>2. CASE c[1] = f /\ ~c[2]
  <2>1. Adds(f, f, en.ino)
    BY AddsNothing
  <2>. QED BY <1>2, <2>1 DEF Same
<1>3. ASSUME NEW s \in Slots, First(f, d, "", s), Writes(f, c[1], d, s, en)
      PROVE  Sound(c[1], k) /\ Adds(f, c[1], en.ino) /\ Same(f, c[1])
  <2>1. Nameless(f, d, s)
    BY <1>3 DEF First, Nameless
  <2>2. \A j \in Inodes :
          /\ j # en.ino => NamesOf(c[1], j) \subseteq NamesOf(f, j)
          /\ Cardinality(NamesOf(c[1], j)) <= Cardinality(NamesOf(f, j)) + (IF j = en.ino THEN 1 ELSE 0)
    BY <1>1, <1>3, <2>1, WritesAdd
  <2>3. Adds(f, c[1], en.ino)
    BY <2>2 DEF Adds, One
  <2>4. Sound(c[1], k)
    BY <1>3, WritesSound DEF Enters
  <2>. QED BY <1>3, <2>3, <2>4 DEF Same, Writes
<1>. QED BY <1>1, <1>2, <1>3, ChLinkWrites

LEMMA SameOwed ==
    ASSUME NEW e, NEW f, NEW own, Owed(e, f, own), NEW g, Same(f, g)
    PROVE  Owed(e, g, own)
BY DEF Owed, Same

Filenames == Names \cup {""}
Adding(f, d, n, i) == ChLink(f, d, "", Entry(n, i))

LEMMA EntryFields ==
    ASSUME NEW n \in Filenames, NEW i \in Inodes
    PROVE  Entry(n, i) \in Entries /\ Entry(n, i).ino = i /\ Enters(Entry(n, i))
BY Ranges DEF Entry, Entries, Enters, Filenames

LEMMA AddNamed ==
    ASSUME NEW f \in Filesys, NEW g, Named(f, Zero), NEW i \in Inodes, Adds(f, g, i), Same(f, g),
           i \in f.spoiled \/ (/\ f.node[i].mode # "none"
                               /\ Cardinality(NamesOf(f, i)) < f.node[i].nlink)
    PROVE  Named(g, Zero)
<1>. SUFFICES ASSUME NEW j \in Inodes \ g.spoiled
              PROVE  /\ Cardinality(NamesOf(g, j)) <= g.node[j].nlink + Zero[j]
                     /\ g.node[j].mode = "none" => NamesOf(g, j) = {}
  BY DEF Named
<1>1. /\ Cardinality(NamesOf(f, j)) <= f.node[j].nlink + Zero[j]
      /\ f.node[j].mode = "none" => NamesOf(f, j) = {}
      /\ g.node = f.node /\ j \notin f.spoiled
  BY DEF Named, Same
<1>2. Zero[j] = 0 /\ f.node[j].nlink \in Nat
  BY Fields, NodeFields DEF Zero
<1>3. Cardinality(NamesOf(g, j)) \in Nat /\ Cardinality(NamesOf(f, j)) \in Nat
  BY Finite
<1>4. CASE j = i
  <2>1. Cardinality(NamesOf(g, i)) <= Cardinality(NamesOf(f, i)) + 1
    BY DEF Adds, One
  <2>. QED BY <1>1, <1>2, <1>3, <1>4, <2>1
<1>5. CASE j # i
  <2>1. NamesOf(g, j) \subseteq NamesOf(f, j)
    BY <1>5 DEF Adds
  <2>2. Cardinality(NamesOf(g, j)) <= Cardinality(NamesOf(f, j))
    BY <2>1, FewerNames
  <2>. QED BY <1>1, <1>2, <1>3, <2>1, <2>2
<1>. QED BY <1>4, <1>5

LEMMA AddMid ==
    ASSUME NEW e, NEW f, NEW own, NEW k, Mid(e, f, own, k),
           NEW d \in Inodes, d \in f.here, NEW n \in Filenames, NEW i \in Inodes,
           i \in f.spoiled \/ (/\ f.node[i].mode # "none"
                               /\ Cardinality(NamesOf(f, i)) < f.node[i].nlink),
           NEW c \in Adding(f, d, n, i)
    PROVE  Mid(e, c[1], own, k) /\ Same(f, c[1])
<1>. DEFINE en == Entry(n, i)
<1>1. en \in Entries /\ en.ino = i /\ Enters(en)
  BY EntryFields
<1>. HIDE DEF en
<1>2. Sound(f, k) /\ f \in Filesys /\ Named(f, Zero) /\ Owed(e, f, own)
  BY DEF Mid, Good, Sound
<1>3. c \in ChLink(f, d, "", en)
  BY DEF en, Adding
<1>4. Sound(c[1], k) /\ Adds(f, c[1], i) /\ Same(f, c[1])
  BY <1>1, <1>2, <1>3, ChLinkAdds
<1>5. Named(c[1], Zero)
  BY <1>2, <1>4, AddNamed
<1>6. Owed(e, c[1], own)
  BY <1>2, <1>4, SameOwed
<1>. QED BY <1>4, <1>5, <1>6 DEF Mid, Good, Sound

LEMMA SpoilFields ==
    ASSUME NEW f \in Filesys, NEW S, S \subseteq Inodes, NEW g, g = Spoil(f, S)
    PROVE  /\ g \in Filesys /\ g.spoiled = f.spoiled \cup S
           /\ g.node = f.node /\ g.disk = f.disk /\ g.here = f.here /\ g.c_refs = f.c_refs
           /\ g.c_dirty = f.c_dirty /\ g.dir = f.dir
           /\ g.s_tinode = f.s_tinode /\ g.wasted = f.wasted
<1>1. f.spoiled \cup S \in SUBSET Inodes
  BY Fields
<1>. QED BY <1>1 DEF Spoil, Filesys

LEMMA SpoilSound ==
    ASSUME NEW f, NEW k, Sound(f, k), NEW S, S \subseteq Inodes, NEW g, g = Spoil(f, S)
    PROVE  Sound(g, k) /\ \A j \in Inodes : NamesOf(g, j) = NamesOf(f, j)
<1>1. f \in Filesys
  BY DEF Sound
<1>2. /\ g \in Filesys /\ g.spoiled = f.spoiled \cup S
      /\ g.node = f.node /\ g.disk = f.disk /\ g.here = f.here /\ g.c_refs = f.c_refs
      /\ g.c_dirty = f.c_dirty /\ g.dir = f.dir
      /\ g.s_tinode = f.s_tinode /\ g.wasted = f.wasted
  BY <1>1, SpoilFields
<1>3. Placed(g) /\ Clean(g)
  BY <1>2 DEF Sound, Placed, Clean
<1>6. Entered(g)
  BY <1>2 DEF Sound, Entered
<1>4. Available(g) = Available(f)
  BY <1>2 DEF Available
<1>5. Tallied(g, k)
  BY <1>2, <1>4 DEF Sound, Tallied
<1>. QED BY <1>2, <1>3, <1>5, <1>6, CalmNames DEF Sound
----------------------------------------------------------------------------
(* newfile                                                                 *)
LEMMA Weaken ==
    ASSUME NEW e \in Filesys, NEW f, NEW own \in Bags, NEW k, Mid(e, f, own, k),
           NEW less \in Bags, \A j \in Inodes : less[j] <= own[j]
    PROVE  Mid(e, f, less, k)
<1>1. \A j \in Inodes : less[j] \in Nat /\ own[j] \in Nat /\ e.c_refs[j] \in Nat
  BY Fields DEF Bags
<1>2. f \in Filesys
  BY DEF Mid, Good
<1>3. \A j \in Inodes : f.c_refs[j] \in Nat
  BY <1>2, Fields
<1>4. \A j \in Inodes : f.c_refs[j] >= e.c_refs[j] + own[j]
  BY DEF Mid, Owed
<1>5. \A j \in Inodes : f.c_refs[j] >= e.c_refs[j] + less[j]
  BY <1>1, <1>3, <1>4
<1>6. \A j \in Inodes : less[j] > 0 => own[j] > 0
  BY <1>1
<1>. QED BY <1>5, <1>6 DEF Mid, Owed

LEMMA Owning ==
    ASSUME NEW e \in Filesys, NEW f, NEW own \in Bags, NEW k, Mid(e, f, own, k),
           NEW i \in Inodes, own[i] = 0, f.c_refs[i] > e.c_refs[i],
           f.node[i].mode # "none", f.node[i].nlink # 0
    PROVE  Mid(e, f, Plus(own, i), k)
<1>. DEFINE new == Plus(own, i)
<1>1. f \in Filesys
  BY DEF Mid, Good
<1>2. \A j \in Inodes : own[j] \in Nat /\ e.c_refs[j] \in Nat /\ f.c_refs[j] \in Nat
  BY <1>1, Fields DEF Bags
<1>3. \A j \in Inodes : new[j] = IF j = i THEN own[j] + 1 ELSE own[j]
  BY BagOps
<1>. HIDE DEF new
<1>4. \A j \in Inodes : f.c_refs[j] >= e.c_refs[j] + own[j]
  BY DEF Mid, Owed
<1>5. \A j \in Inodes : f.c_refs[j] >= e.c_refs[j] + new[j]
  BY <1>2, <1>3, <1>4
<1>6. \A j \in Inodes : j # i => new[j] = own[j]
  BY <1>3
<1>7. Owed(e, f, new)
  BY <1>5, <1>6 DEF Mid, Owed
<1>. QED BY <1>7 DEF Mid, new

LEMMA Held ==
    ASSUME NEW e \in Filesys, NEW f, NEW own \in Bags, NEW k, Mid(e, f, own, k),
           NEW i \in Inodes, own[i] > 0
    PROVE  f.c_refs[i] > 0 /\ i \in f.here /\ f.node[i].mode # "none" /\ f.node[i] # Blank
<1>1. f \in Filesys
  BY DEF Mid, Good
<1>2. own[i] \in Nat /\ e.c_refs[i] \in Nat /\ f.c_refs[i] \in Nat
  BY <1>1, Fields DEF Bags
<1>3. f.c_refs[i] >= e.c_refs[i] + own[i] /\ f.node[i].mode # "none"
  BY DEF Mid, Owed
<1>4. f.c_refs[i] > 0
  BY <1>2, <1>3
<1>. QED BY <1>3, <1>4, BlankNode DEF Mid, Good, Placed

LEMMA MinusOther ==
    ASSUME NEW own \in Bags, NEW i \in Inodes, NEW j \in Inodes, i # j, own[i] > 0
    PROVE  /\ Minus(Plus(own, j), i) = Plus(Minus(own, i), j)
           /\ Minus(own, i) \in Bags /\ Plus(own, j) \in Bags
           /\ Plus(own, j)[i] > 0 /\ Plus(own, j)[j] > 0
<1>1. \A x \in Inodes : x # 0
  BY Ranges
<1>2. \A x \in Inodes : own[x] \in Nat
  BY DEF Bags
<1>3. Minus(own, i) \in Bags /\ Plus(own, j) \in Bags
  BY <1>1, BagOps
<1>4. Minus(Plus(own, j), i) = [own EXCEPT ![j] = @ + 1, ![i] = @ - 1]
  BY <1>1, <1>2 DEF Bags, Plus, Minus
<1>5. Plus(Minus(own, i), j) = [own EXCEPT ![i] = @ - 1, ![j] = @ + 1]
  BY <1>1, <1>2 DEF Bags, Plus, Minus
<1>6. [own EXCEPT ![j] = @ + 1, ![i] = @ - 1] = [own EXCEPT ![i] = @ - 1, ![j] = @ + 1]
  BY <1>2 DEF Bags
<1>7. Plus(own, j)[i] > 0 /\ Plus(own, j)[j] > 0
  BY <1>1, <1>2 DEF Bags, Plus
<1>. QED BY <1>3, <1>4, <1>5, <1>6, <1>7

Node(m, n) == [mode |-> m, nlink |-> n]
LEMMA NodeOf ==
    ASSUME NEW m \in Kinds, NEW n \in Nat
    PROVE  /\ Node(m, n) \in Nodes
           /\ Node(m, n).mode = m /\ Node(m, n).nlink = n /\ Node(m, n).mode # "none"
BY DEF Node, Nodes, Kinds

(* The inode that i_open(NULLINO) has handed out is filled in.             *)
LEMMA FilledMid ==
    ASSUME NEW e \in Filesys, NEW f, NEW own \in Bags, Mid(e, f, own, 0),
           NEW i \in Inodes, Fresh(e, f, own, i), NEW m \in Kinds, NEW n \in Nat, n # 0,
           NEW g, g = SetNode(f, i, Node(m, n))
    PROVE  /\ Mid(e, g, Plus(own, i), 0) /\ g.node[i] = Node(m, n) /\ g.here = f.here
           /\ i \in g.spoiled \/ Cardinality(NamesOf(g, i)) = 0
<1>. DEFINE new == Node(m, n)
<1>1. f \in Filesys /\ Good(f, 0)
  BY DEF Mid, Good
<1>2. new \in Nodes /\ new.mode # "none" /\ new.nlink = n
  BY NodeOf
<1>. HIDE DEF new
<1>3. Marked(f, g, i, new)
  BY <1>1, <1>2, SetNodeMarked DEF new
<1>4. own[i] = 0 /\ i \in f.here /\ f.c_refs[i] > e.c_refs[i] /\ e.c_refs[i] \in Nat
  BY Fields DEF Fresh
<1>5. f.c_refs[i] > 0
  BY <1>1, <1>4, Fields
<1>6. i \in f.spoiled \/ Cardinality(NamesOf(f, i)) = 0
  BY <1>1, BlankNode, FS_EmptySet DEF Fresh, Good, Named
<1>7. e.c_refs[i] > 0 /\ e.node[i].mode # "none" => new.mode = e.node[i].mode
  BY <1>4 DEF Fresh
<1>8. i \notin f.spoiled => Cardinality(NamesOf(f, i)) <= new.nlink
  BY <1>2, <1>6
<1>9. ~(own[i] > 0)
  BY <1>4
<1>10. Mid(e, g, own, 0)
  BY <1>2, <1>3, <1>4, <1>5, <1>7, <1>8, <1>9, MarkedMid
<1>11. g.node[i] = new /\ g.c_refs = f.c_refs
  BY <1>1, <1>3, Fields DEF Marked
<1>12. Mid(e, g, Plus(own, i), 0)
  BY <1>2, <1>4, <1>10, <1>11, Owning
<1>13. NamesOf(g, i) = NamesOf(f, i)
  BY <1>3, CalmNames DEF Marked
<1>. QED BY <1>3, <1>6, <1>11, <1>12, <1>13 DEF Marked, new

Reg == Node("reg", 1)
LEMMA RegNode == Reg \in Nodes /\ Reg.nlink = 1 /\ Reg.mode # "none"
<1>1. "reg" \in Kinds
  BY DEF Kinds
<1>2. 1 \in Nat
  OBVIOUS
<1>. QED BY <1>1, <1>2, NodeOf DEF Reg

LEMMA FilledReg ==
    ASSUME NEW e \in Filesys, NEW f, NEW own \in Bags, Mid(e, f, own, 0),
           NEW i \in Inodes, Fresh(e, f, own, i), NEW g, g = SetNode(f, i, Reg)
    PROVE  /\ Mid(e, g, Plus(own, i), 0) /\ g.node[i] = Reg /\ g.here = f.here
           /\ i \in g.spoiled \/ Cardinality(NamesOf(g, i)) = 0
<1>1. "reg" \in Kinds
  BY DEF Kinds
<1>2. 1 \in Nat /\ 1 # 0
  OBVIOUS
<1>. QED BY <1>1, <1>2, FilledMid DEF Reg

(* What newfile hands out, and the parent it gave back.                    *)
Born(e, f, i, parent) ==
    /\ f.node[i] = Reg /\ i \in f.here
    /\ e.c_refs[i] = 0 \/ e.node[i].mode = "none"
    /\ i # parent /\ parent \in f.here /\ f.node[parent].mode # "none"

LEMMA FileMade ==
    ASSUME NEW e \in Filesys, NEW f, NEW own \in Bags, Mid(e, f, own, 0),
           NEW parent \in Inodes, own[parent] > 0, NEW n \in Filenames,
           NEW i \in Inodes, Fresh(e, f, own, i),
           NEW g \in Saved(SetNode(f, i, Reg), i),
           NEW l \in Adding(g, parent, n, i)
    PROVE  Mid(e, l[1], Plus(own, i), 0) /\ Born(e, l[1], i, parent)
<1>. DEFINE x == SetNode(f, i, Reg)  both == Plus(own, i)
<1>1. /\ Mid(e, x, both, 0) /\ x.node[i] = Reg /\ x.here = f.here
      /\ i \in x.spoiled \/ Cardinality(NamesOf(x, i)) = 0
  BY FilledReg
<1>. HIDE DEF x
<1>2. Calm(x, g) /\ g.node = x.node /\ g.here = x.here
  BY <1>1, SavedCalm DEF Mid, Good, Steady, x
<1>3. both \in Bags
  BY BagOps
<1>. HIDE DEF both
<1>4. Mid(e, g, both, 0)
  BY <1>1, <1>2, <1>3, CalmKeeps
<1>5. NamesOf(g, i) = NamesOf(x, i) /\ x.spoiled \subseteq g.spoiled
  BY <1>2, CalmNames DEF Calm
<1>6. own[i] = 0 /\ i # parent /\ own[parent] \in Nat
  BY DEF Fresh, Bags
<1>7. both[parent] > 0
  BY <1>6, MinusOther DEF both
<1>8. parent \in g.here /\ g.node[parent].mode # "none"
  BY <1>3, <1>4, <1>7, Held
<1>9. g.node[i].mode # "none" /\ g.node[i].nlink = 1 /\ g.node[i] = Reg
  BY <1>1, <1>2, RegNode
<1>10. i \in g.spoiled \/ (/\ g.node[i].mode # "none"
                           /\ Cardinality(NamesOf(g, i)) < g.node[i].nlink)
  BY <1>1, <1>5, <1>9
<1>11. Mid(e, l[1], both, 0) /\ Same(g, l[1])
  BY <1>4, <1>8, <1>10, AddMid
<1>12. i \in l[1].here
  BY <1>1, <1>2, <1>11 DEF Fresh, Same
<1>13. l[1].node[i] = Reg /\ parent \in l[1].here /\ l[1].node[parent].mode # "none"
  BY <1>8, <1>9, <1>11 DEF Same
<1>14. e.c_refs[i] = 0 \/ e.node[i].mode = "none"
  BY DEF Fresh
<1>15. Born(e, l[1], i, parent)
  BY <1>6, <1>12, <1>13, <1>14 DEF Born
<1>. QED BY <1>11, <1>15 DEF both

LEMMA SameBorn ==
    ASSUME NEW e, NEW f, NEW i, NEW parent, Born(e, f, i, parent),
           NEW g, g.node = f.node, g.here = f.here
    PROVE  Born(e, g, i, parent)
BY DEF Born

LEMMA NewFileMid ==
    ASSUME NEW e \in Filesys, NEW f, NEW own \in Bags, Mid(e, f, own, 0),
           NEW parent \in Inodes, own[parent] > 0, NEW n \in Filenames,
           NEW c \in NewFile(f, parent, n)
    PROVE  \/ c[2] = 0 /\ Mid(e, c[1], Minus(own, parent), 0)
           \/ /\ c[2] \in Inodes /\ Born(e, c[1], c[2], parent)
              /\ Mid(e, c[1], Plus(Minus(own, parent), c[2]), 0)
<1>. DEFINE rest == Minus(own, parent)
<1>0. 0 \in Nat
  OBVIOUS
<1>1. rest \in Bags /\ \A j \in Inodes : rest[j] = IF j = parent THEN own[j] - 1 ELSE own[j]
  BY Ranges, BagOps
<1>2. \A j \in Inodes : own[j] \in Nat
  BY DEF Bags
<1>3. CASE c = <<f, 0>>
  <2>. HIDE DEF rest
  <2>1. \A j \in Inodes : rest[j] <= own[j]
    BY <1>1, <1>2
  <2>2. Mid(e, f, rest, 0)
    BY <1>1, <2>1, Weaken
  <2>. QED BY <1>3, <2>2 DEF rest
<1>4. ASSUME NEW a \in NewInode(f), a[2] = 0, NEW g \in Deref(a[1], parent), c = <<g, 0>>
      PROVE  c[2] = 0 /\ Mid(e, c[1], rest, 0)
  <2>1. Mid(e, a[1], own, 0)
    BY <1>4, NewInodeMid
  <2>2. Mid(e, g, rest, 0)
    BY <1>0, <1>4, <2>1, DerefMid
  <2>. QED BY <1>4, <2>2
<1>5. ASSUME NEW a \in NewInode(f), a[2] # 0,
             NEW g \in Saved(SetNode(a[1], a[2], Reg), a[2]),
             NEW l \in Adding(g, parent, n, a[2]),
             \/ \E h \in Deref(l[1], parent) : c = <<h, a[2]>>
             \/ \E h \in DropBoth(l[1], a[2], parent) : c = <<h, 0>>
      PROVE  \/ c[2] = 0 /\ Mid(e, c[1], rest, 0)
             \/ /\ c[2] \in Inodes /\ Born(e, c[1], c[2], parent)
                /\ Mid(e, c[1], Plus(rest, c[2]), 0)
  <2>. DEFINE i == a[2]  both == Plus(own, i)
  <2>1. Mid(e, a[1], own, 0) /\ i \in Inodes /\ Fresh(e, a[1], own, i)
    BY <1>5, NewInodeMid
  <2>2. Mid(e, l[1], both, 0) /\ Born(e, l[1], i, parent)
    BY <1>5, <2>1, FileMade
  <2>. HIDE DEF i
  <2>3. i # parent
    BY <2>2 DEF Born
  <2>4. both \in Bags /\ both[parent] > 0 /\ both[i] > 0 /\ Minus(both, parent) = Plus(rest, i)
    BY <2>1, <2>3, MinusOther
  <2>5. Minus(both, i) = own
    BY <2>1, MinusPlus
  <2>. HIDE DEF both, rest
  <2>6. ASSUME NEW h \in Deref(l[1], parent), c = <<h, i>>
        PROVE  /\ c[2] \in Inodes /\ Born(e, c[1], c[2], parent)
               /\ Mid(e, c[1], Plus(rest, c[2]), 0)
    <3>1. Mid(e, h, Minus(both, parent), 0) /\ h.node = l[1].node /\ h.here = l[1].here
      BY <1>0, <2>2, <2>4, <2>6, DerefMid
    <3>2. Born(e, h, i, parent)
      BY <2>2, <3>1, SameBorn
    <3>. QED BY <2>1, <2>4, <2>6, <3>1, <3>2
  <2>7. ASSUME NEW h \in DropBoth(l[1], i, parent), c = <<h, 0>>
        PROVE  c[2] = 0 /\ Mid(e, c[1], rest, 0)
    <3>1. PICK k \in Drop(l[1], i) : h \in Drop(k, parent)
      BY <2>7 DEF DropBoth
    <3>2. i \in Inodes \cup {0} /\ parent \in Inodes \cup {0}
      BY <2>1
    <3>3. Mid(e, k, own, 0)
      BY <1>0, <2>2, <2>4, <2>5, <3>1, <3>2, DropMid
    <3>4. Mid(e, h, rest, 0)
      BY <1>0, <3>1, <3>2, <3>3, DropMid DEF rest
    <3>. QED BY <2>7, <3>4
  <2>. QED BY <1>5, <2>6, <2>7 DEF i
<1>6. \/ c = <<f, 0>>
      \/ \E a \in NewInode(f) :
           \/ a[2] = 0 /\ \E g \in Deref(a[1], parent) : c = <<g, 0>>
           \/ a[2] # 0 /\ \E g \in Saved(SetNode(a[1], a[2], Reg), a[2]) :
                            \E l \in Adding(g, parent, n, a[2]) :
                              \/ \E h \in Deref(l[1], parent) : c = <<h, a[2]>>
                              \/ \E h \in DropBoth(l[1], a[2], parent) : c = <<h, 0>>
  <2>1. \/ c = <<f, 0>>
        \/ \E a \in NewInode(f) :
             c \in IF a[2] = 0 THEN {<<g, 0>> : g \in Deref(a[1], parent)}
                   ELSE UNION {UNION {IF l[2] THEN {<<h, a[2]>> : h \in Deref(l[1], parent)}
                                      ELSE {<<h, 0>> : h \in DropBoth(l[1], a[2], parent)} :
                                        l \in Adding(g, parent, n, a[2])} :
                          g \in Saved(SetNode(a[1], a[2], Reg), a[2])}
    BY DEF NewFile, Node, Reg, Adding
  <2>2. ASSUME NEW a \in NewInode(f), a[2] # 0,
               c \in UNION {UNION {IF l[2] THEN {<<h, a[2]>> : h \in Deref(l[1], parent)}
                                   ELSE {<<h, 0>> : h \in DropBoth(l[1], a[2], parent)} :
                                     l \in Adding(g, parent, n, a[2])} :
                            g \in Saved(SetNode(a[1], a[2], Reg), a[2])}
        PROVE  \E g \in Saved(SetNode(a[1], a[2], Reg), a[2]) :
                 \E l \in Adding(g, parent, n, a[2]) :
                   \/ \E h \in Deref(l[1], parent) : c = <<h, a[2]>>
                   \/ \E h \in DropBoth(l[1], a[2], parent) : c = <<h, 0>>
    <3>1. PICK g \in Saved(SetNode(a[1], a[2], Reg), a[2]) :
            c \in UNION {IF l[2] THEN {<<h, a[2]>> : h \in Deref(l[1], parent)}
                         ELSE {<<h, 0>> : h \in DropBoth(l[1], a[2], parent)} :
                           l \in Adding(g, parent, n, a[2])}
      BY <2>2
    <3>2. PICK l \in Adding(g, parent, n, a[2]) :
            c \in IF l[2] THEN {<<h, a[2]>> : h \in Deref(l[1], parent)}
                  ELSE {<<h, 0>> : h \in DropBoth(l[1], a[2], parent)}
      BY <3>1
    <3>3. \/ \E h \in Deref(l[1], parent) : c = <<h, a[2]>>
          \/ \E h \in DropBoth(l[1], a[2], parent) : c = <<h, 0>>
      BY <3>2
    <3>. QED BY <3>1, <3>2, <3>3
  <2>. QED BY <2>1, <2>2
<1>. QED BY <1>3, <1>4, <1>5, <1>6
----------------------------------------------------------------------------
(* The rest of n_creat.                                                    *)
LEMMA AddingAdds ==
    ASSUME NEW f, NEW k, Sound(f, k), NEW d \in Inodes, d \in f.here,
           NEW n \in Filenames, NEW i \in Inodes, NEW c \in Adding(f, d, n, i)
    PROVE  /\ Sound(c[1], k) /\ Adds(f, c[1], i) /\ Same(f, c[1])
           /\ c[2] => c[1].c_dirty[d]
<1>. DEFINE en == Entry(n, i)
<1>1. en \in Entries /\ en.ino = i /\ Enters(en)
  BY EntryFields
<1>2. c \in ChLink(f, d, "", en)
  BY DEF Adding
<1>. HIDE DEF en
<1>. QED BY <1>1, <1>2, ChLinkAdds

(* A directory that is given up: who is named too often is spoiled.        *)
LEMMA GivenUp ==
    ASSUME NEW e, NEW f, NEW own, NEW k, Mid(e, f, own, k),
           NEW g, Sound(g, k), Same(f, g), NEW S, S \subseteq Inodes,
           \A j \in Inodes \ S : NamesOf(g, j) \subseteq NamesOf(f, j),
           NEW h, h = Spoil(g, S)
    PROVE  Mid(e, h, own, k)
<1>1. f \in Filesys /\ g \in Filesys /\ Named(f, Zero) /\ Owed(e, f, own)
  BY DEF Mid, Good, Sound
<1>2. Sound(h, k) /\ \A j \in Inodes : NamesOf(h, j) = NamesOf(g, j)
  BY SpoilSound
<1>3. h.node = g.node /\ h.c_refs = g.c_refs /\ h.spoiled = g.spoiled \cup S
  BY <1>1, SpoilFields
<1>4. Named(h, Zero)
  <2>. SUFFICES ASSUME NEW j \in Inodes \ h.spoiled
                PROVE  /\ Cardinality(NamesOf(h, j)) <= h.node[j].nlink + Zero[j]
                       /\ h.node[j].mode = "none" => NamesOf(h, j) = {}
    BY DEF Named
  <2>1. NamesOf(h, j) \subseteq NamesOf(f, j) /\ h.node[j] = f.node[j] /\ j \notin f.spoiled
    BY <1>2, <1>3 DEF Same
  <2>2. /\ Cardinality(NamesOf(f, j)) <= f.node[j].nlink + Zero[j]
        /\ f.node[j].mode = "none" => NamesOf(f, j) = {}
    BY <1>1, <2>1 DEF Named
  <2>3. Cardinality(NamesOf(h, j)) <= Cardinality(NamesOf(f, j))
    BY <2>1, FewerNames
  <2>4. Cardinality(NamesOf(h, j)) \in Nat /\ Cardinality(NamesOf(f, j)) \in Nat
    BY Finite
  <2>5. f.node[j].nlink \in Nat /\ Zero[j] = 0
    BY <1>1, Fields, NodeFields DEF Zero
  <2>6. Cardinality(NamesOf(h, j)) <= h.node[j].nlink + Zero[j]
    BY <2>1, <2>2, <2>3, <2>4, <2>5
  <2>. QED BY <2>1, <2>2, <2>6
<1>5. Owed(e, h, own)
  BY <1>1, <1>3 DEF Owed, Same
<1>. QED BY <1>2, <1>4, <1>5 DEF Mid, Good, Sound

LEMMA CountedFields ==
    ASSUME NEW f, NEW k, Sound(f, k), NEW i \in Inodes, NEW parent \in Inodes, i # parent,
           i \in f.here, parent \in f.here, f.c_dirty[i], f.c_refs[i] > 0,
           f.node[parent].mode # "none", NEW g, g = Counted(f, i, parent)
    PROVE  /\ Sound(g, k)
           /\ g.c_refs = f.c_refs /\ g.spoiled = f.spoiled /\ g.dir = f.dir
           /\ \A j \in Inodes :
                /\ g.node[j].mode = f.node[j].mode
                /\ g.node[j].nlink = IF j \in {i, parent} THEN f.node[j].nlink + 1
                                                          ELSE f.node[j].nlink
<1>. DEFINE n == Nlink(f, i) + 1  m == Nlink(f, parent) + 1
            x == WithNlink(f, i, n)
            one == Renumbered(f.node[i], n)  two == Renumbered(x.node[parent], m)
<1>1. /\ f \in Filesys /\ f.node \in [Inodes -> Nodes] /\ f.c_dirty \in [Inodes -> BOOLEAN]
  BY Fields DEF Sound
<1>2. n \in Nat /\ m \in Nat /\ n = f.node[i].nlink + 1 /\ m = f.node[parent].nlink + 1
  BY <1>1, NodeFields DEF Nlink
<1>3. g = Setftim(WithNlink(x, parent, m), parent)
  BY DEF Counted
<1>. HIDE DEF n, m
<1>4. Relinked(f, x, i, n)
  BY <1>1, <1>2, WithNlinkFields
<1>5. one \in Nodes /\ one.mode = f.node[i].mode /\ one.nlink = n
  BY <1>1, <1>2, RenumberedNode
<1>. HIDE DEF x
<1>6. x \in Filesys /\ x.node = [f.node EXCEPT ![i] = one]
  BY <1>4 DEF Relinked
<1>7. x.node[parent] = f.node[parent] /\ x.node[parent] \in Nodes
  BY <1>1, <1>6
<1>8. two \in Nodes /\ two.mode = f.node[parent].mode /\ two.nlink = m
  <2>1. two \in Nodes /\ two.mode = x.node[parent].mode /\ two.nlink = m
    BY <1>2, <1>7, RenumberedNode
  <2>. HIDE DEF two
  <2>. QED BY <1>7, <2>1
<1>9. Marked(x, g, parent, two)
  BY <1>2, <1>3, <1>6, NlinkMarked
<1>. HIDE DEF one, two
<1>10. Marked(f, x, i, one)
  <2>1. f.c_dirty = [f.c_dirty EXCEPT ![i] = TRUE]
    BY <1>1
  <2>. QED BY <1>4, <1>6, <2>1 DEF Marked, Relinked
<1>11. Sound(x, k)
  BY <1>5, <1>10, MarkedSound
<1>12. x.node[parent] # Blank /\ two # Blank /\ parent \in x.here
  BY <1>7, <1>8, <1>10, BlankNode DEF Marked
<1>13. Sound(g, k)
  BY <1>8, <1>9, <1>11, <1>12, MarkedSound
<1>14. g.node = [x.node EXCEPT ![parent] = two]
  BY <1>9 DEF Marked
<1>15. \A j \in Inodes : g.node[j] = IF j = parent THEN two ELSE IF j = i THEN one ELSE f.node[j]
  BY <1>1, <1>6, <1>14
<1>16. \A j \in Inodes :
                /\ g.node[j].mode = f.node[j].mode
                /\ g.node[j].nlink = IF j \in {i, parent} THEN f.node[j].nlink + 1
                                                          ELSE f.node[j].nlink
  BY <1>2, <1>5, <1>8, <1>15
<1>. QED BY <1>9, <1>10, <1>13, <1>16 DEF Marked

Dot == "."
DotDot == ".."
LEMMA DotNames == Dot \in Filenames /\ DotDot \in Filenames
BY DEF Dot, DotDot, Filenames, Names

LEMMA BothDots ==
    ASSUME NEW e \in Filesys, NEW f, NEW own \in Bags, NEW k, Mid(e, f, own, k),
           NEW i \in Inodes, NEW parent \in Inodes, i # parent, own[i] > 0,
           f.node[i].nlink = 1,
           parent \in f.here, f.node[parent].mode # "none",
           NEW g, Sound(g, k), Same(f, g), g.c_dirty[i],
           NEW h, Adds(f, h, i), Adds(h, g, parent),
           NEW x, x = Counted(g, i, parent)
    PROVE  Mid(e, x, own, k)
<1>1. f \in Filesys /\ g \in Filesys /\ Named(f, Zero) /\ Owed(e, f, own)
  BY DEF Mid, Good, Sound
<1>2. f.c_refs[i] > 0 /\ i \in f.here /\ f.node[i].mode # "none"
  BY Held
<1>3. g.node = f.node /\ g.c_refs = f.c_refs /\ g.here = f.here /\ g.spoiled = f.spoiled
  BY DEF Same
<1>4. /\ Sound(x, k)
      /\ x.c_refs = g.c_refs /\ x.spoiled = g.spoiled /\ x.dir = g.dir
      /\ \A j \in Inodes :
           /\ x.node[j].mode = g.node[j].mode
           /\ x.node[j].nlink = IF j \in {i, parent} THEN g.node[j].nlink + 1
                                                     ELSE g.node[j].nlink
  BY <1>2, <1>3, CountedFields
<1>5. \A j \in Inodes : NamesOf(x, j) = NamesOf(g, j)
  BY <1>4, CalmNames
<1>6. Named(x, Zero)
  <2>. SUFFICES ASSUME NEW j \in Inodes \ x.spoiled
                PROVE  /\ Cardinality(NamesOf(x, j)) <= x.node[j].nlink + Zero[j]
                       /\ x.node[j].mode = "none" => NamesOf(x, j) = {}
    BY DEF Named
  <2>1. /\ Cardinality(NamesOf(f, j)) <= f.node[j].nlink + Zero[j]
        /\ f.node[j].mode = "none" => NamesOf(f, j) = {}
    BY <1>1, <1>3, <1>4 DEF Named
  <2>2. /\ Cardinality(NamesOf(x, j)) \in Nat /\ Cardinality(NamesOf(f, j)) \in Nat
        /\ Cardinality(NamesOf(h, j)) \in Nat
    BY Finite
  <2>3. f.node[j].nlink \in Nat /\ Zero[j] = 0
    BY <1>1, Fields, NodeFields DEF Zero
  <2>4. /\ Cardinality(NamesOf(x, j)) <= Cardinality(NamesOf(h, j)) + One(parent, j)
        /\ Cardinality(NamesOf(h, j)) <= Cardinality(NamesOf(f, j)) + One(i, j)
    BY <1>5 DEF Adds
  <2>5. x.node[j].nlink = f.node[j].nlink + One(i, j) + One(parent, j)
    BY <1>3, <1>4, <2>3 DEF One
  <2>6. One(i, j) \in Nat /\ One(parent, j) \in Nat
    BY DEF One
  <2>7. Cardinality(NamesOf(x, j)) <= x.node[j].nlink + Zero[j]
    BY <2>1, <2>2, <2>3, <2>4, <2>5, <2>6
  <2>8. ASSUME x.node[j].mode = "none"
        PROVE  NamesOf(x, j) = {}
    <3>1. j # i /\ j # parent
      BY <1>2, <1>3, <1>4, <2>8
    <3>2. NamesOf(x, j) \subseteq NamesOf(f, j)
      BY <1>5, <3>1 DEF Adds
    <3>3. f.node[j].mode = "none"
      BY <1>3, <1>4, <2>8
    <3>. QED BY <2>1, <3>2, <3>3
  <2>. QED BY <2>7, <2>8
<1>7. Owed(e, x, own)
  <2>1. \A j \in Inodes : f.node[j].nlink \in Nat
    BY <1>1, Fields, NodeFields
  <2>2. \A j \in Inodes : f.node[j].nlink # 0 => x.node[j].nlink # 0
    BY <1>3, <1>4, <2>1
  <2>3. x.c_refs = f.c_refs /\ \A j \in Inodes : x.node[j].mode = f.node[j].mode
    BY <1>3, <1>4
  <2>. QED BY <1>1, <2>2, <2>3 DEF Owed
<1>. QED BY <1>4, <1>6, <1>7 DEF Mid, Good, Sound

LEMMA DotsMid ==
    ASSUME NEW e \in Filesys, NEW f, NEW own \in Bags, NEW k, Mid(e, f, own, k),
           NEW i \in Inodes, NEW parent \in Inodes, i # parent, own[i] > 0,
           f.node[i].nlink = 1,
           parent \in f.here, f.node[parent].mode # "none",
           NEW m \in Dots(f, i, parent)
    PROVE  Mid(e, m[1], own, k)
<1>1. PICK one \in Adding(f, i, Dot, i) :
        m \in IF ~one[2] THEN {<<Spoil(one[1], {i}), FALSE>>}
              ELSE {IF two[2] THEN <<Counted(two[1], i, parent), TRUE>>
                    ELSE <<Spoil(two[1], {i, parent}), FALSE>> :
                      two \in Adding(one[1], i, DotDot, parent)}
  BY DEF Dots, Adding, Dot, DotDot
<1>2. Sound(f, k) /\ i \in f.here
  BY Held DEF Mid, Good, Sound
<1>3. Sound(one[1], k) /\ Adds(f, one[1], i) /\ Same(f, one[1])
  BY <1>1, <1>2, DotNames, AddingAdds
<1>4. CASE ~one[2]
  <2>1. m[1] = Spoil(one[1], {i})
    BY <1>1, <1>4
  <2>2. \A j \in Inodes \ {i} : NamesOf(one[1], j) \subseteq NamesOf(f, j)
    BY <1>3 DEF Adds
  <2>3. {i} \subseteq Inodes
    OBVIOUS
  <2>. QED BY <1>3, <2>1, <2>2, <2>3, GivenUp
<1>5. CASE one[2]
  <2>1. PICK two \in Adding(one[1], i, DotDot, parent) :
          m = IF two[2] THEN <<Counted(two[1], i, parent), TRUE>>
              ELSE <<Spoil(two[1], {i, parent}), FALSE>>
    BY <1>1, <1>5
  <2>2. i \in one[1].here
    BY <1>2, <1>3 DEF Same
  <2>3. /\ Sound(two[1], k) /\ Adds(one[1], two[1], parent) /\ Same(one[1], two[1])
        /\ two[2] => two[1].c_dirty[i]
    BY <1>3, <2>1, <2>2, DotNames, AddingAdds
  <2>4. Same(f, two[1])
    BY <1>3, <2>3 DEF Same
  <2>5. CASE ~two[2]
    <3>1. m[1] = Spoil(two[1], {i, parent})
      BY <2>1, <2>5
    <3>2. \A j \in Inodes \ {i, parent} : NamesOf(two[1], j) \subseteq NamesOf(f, j)
      BY <1>3, <2>3 DEF Adds
    <3>3. {i, parent} \subseteq Inodes
      OBVIOUS
    <3>. QED BY <2>3, <2>4, <3>1, <3>2, <3>3, GivenUp
  <2>6. CASE two[2]
    <3>1. m[1] = Counted(two[1], i, parent)
      BY <2>1, <2>6
    <3>. QED BY <1>3, <2>3, <2>4, <2>6, <3>1, BothDots
  <2>. QED BY <2>5, <2>6
<1>. QED BY <1>4, <1>5
----------------------------------------------------------------------------
(* n_creat                                                                 *)
LEMMA SetftimMid ==
    ASSUME NEW e \in Filesys, NEW f, NEW own \in Bags, NEW k, Mid(e, f, own, k),
           NEW i \in Inodes, f.c_refs[i] > 0, NEW g, g = Setftim(f, i)
    PROVE  Mid(e, g, own, k)
<1>1. f \in Filesys /\ Sound(f, k) /\ Named(f, Zero) /\ Owed(e, f, own)
  BY DEF Mid, Good, Sound
<1>2. Marked(f, g, i, f.node[i]) /\ f.node[i] \in Nodes
  BY <1>1, SetftimMarked, Fields
<1>3. i \in f.here
  BY <1>1 DEF Sound, Placed
<1>4. Sound(g, k)
  BY <1>1, <1>2, <1>3, MarkedSound
<1>5. f.node = [f.node EXCEPT ![i] = f.node[i]]
  BY <1>1, Fields
<1>6. g.node = f.node /\ g.c_refs = f.c_refs /\ g.dir = f.dir /\ g.spoiled = f.spoiled
  BY <1>2, <1>5 DEF Marked
<1>7. Named(g, Zero)
  BY <1>1, <1>6, CalmNames DEF Named
<1>8. Owed(e, g, own)
  BY <1>1, <1>6 DEF Owed
<1>. QED BY <1>4, <1>7, <1>8 DEF Mid, Good, Sound

LEMMA TruncatedMid ==
    ASSUME NEW e \in Filesys, NEW f, NEW own \in Bags, NEW k, Mid(e, f, own, k),
           NEW i \in Inodes, own[i] > 0, NEW g, g = Truncated(f, i)
    PROVE  Mid(e, g, own, k)
<1>1. f.c_refs[i] > 0
  BY Held
<1>2. g = f \/ g = Setftim(f, i)
  BY DEF Truncated
<1>. QED BY <1>1, <1>2, SetftimMid

(* What a function that creates a file returns.                            *)
Result(e, c) ==
    \/ c[2] = 0 /\ End(e, c[1])
    \/ c[2] \in Inodes /\ Mid(e, c[1], Plus(Zero, c[2]), 0)

LEMMA ZeroBag ==
    ASSUME NEW i \in Inodes
    PROVE  /\ Zero \in Bags /\ Plus(Zero, i) \in Bags
           /\ Plus(Zero, i)[i] > 0 /\ Minus(Plus(Zero, i), i) = Zero
<1>1. Zero \in Bags
  BY DEF Zero, Bags
<1>2. i # 0
  BY Ranges
<1>. QED BY <1>1, <1>2, OwnTwo

LEMMA FinishResult ==
    ASSUME NEW e \in Filesys, NEW f, NEW i \in Inodes, Mid(e, f, Plus(Zero, i), 0),
           NEW c \in Finish(f, i)
    PROVE  Result(e, c)
<1>. DEFINE own == Plus(Zero, i)
<1>0. own \in Bags
  BY ZeroBag
<1>1. PICK w \in WrInode(f, i) :
        c \in IF w[2] THEN {<<w[1], i>>} ELSE {<<g, 0>> : g \in Deref(w[1], i)}
  BY DEF Finish
<1>2. Calm(f, w[1])
  BY <1>1, WrInodeCalm DEF Mid, Good, Steady
<1>. HIDE DEF own
<1>3. Mid(e, f, own, 0)
  BY DEF own
<1>4. Mid(e, w[1], own, 0)
  BY <1>0, <1>2, <1>3, CalmKeeps
<1>5. CASE c = <<w[1], i>>
  BY <1>4, <1>5 DEF Result, own
<1>6. ASSUME NEW g \in Deref(w[1], i), c = <<g, 0>>
      PROVE  Result(e, c)
  <2>1. End(e, w[1])
    BY <1>0, <1>4, MidEnd
  <2>2. End(e, g)
    BY <1>6, <2>1, DerefEnd
  <2>. QED BY <1>6, <2>2 DEF Result
<1>. QED BY <1>1, <1>5, <1>6

LEMMA ShortNames ==
    ASSUME NEW p \in Paths, p # <<>>
    PROVE  p[Len(p)] \in Names
<1>1. p \in Seq(Names)
  BY InodesAssumption, Zenon
<1>2. \A S : p \in Seq(S) => p[Len(p)] \in S
  <2>. SUFFICES ASSUME NEW S, p \in Seq(S) PROVE p[Len(p)] \in S
    OBVIOUS
  <2>. QED OBVIOUS
<1>. QED BY <1>1, <1>2, Zenon

LEMMA FilenameType ==
    ASSUME NEW p \in Paths, NEW slash
    PROVE  Filename(p, slash) \in Filenames
<1>1. p = <<>> \/ p[Len(p)] \in Filenames
  BY ShortNames DEF Filenames
<1>2. "" \in Filenames
  BY DEF Filenames
<1>. QED BY <1>1, <1>2, Zenon DEF Filename

(* The file exists.                                                        *)
LEMMA ExistingResult ==
    ASSUME NEW e \in Filesys, NEW r, Walked(e, Zero, r), r[3] # 0,
           NEW g \in Deref(r[1], r[2]),
           NEW c, \/ \E h \in Deref(g, r[3]) : c = <<h, 0>>
                  \/ c \in Finish(Truncated(g, r[3]), r[3])
    PROVE  Result(e, c)
<1>. DEFINE i == r[2]  j == r[3]  both == Plus(Plus(Zero, i), j)
<1>1. i \in Inodes /\ j \in Inodes /\ Mid(e, r[1], both, 0) /\ 0 \in Nat
  BY DEF Walked, Own
<1>2. i \in Inodes \cup {0} /\ j \in Inodes \cup {0} /\ i # 0 /\ Zero \in Bags
  BY <1>1, Ranges, ZeroBag
<1>3. c \in Finish(Truncated(g, j), j) \/ \E h \in Deref(g, j) : c = <<h, 0>>
  OBVIOUS
<1>4. g \in Deref(r[1], i)
  OBVIOUS
<1>. HIDE DEF i, j
<1>5. both \in Bags /\ both[i] > 0 /\ Minus(both, i) = Plus(Zero, j)
  BY <1>2, OwnTwo
<1>. HIDE DEF both
<1>6. Mid(e, g, Plus(Zero, j), 0)
  BY <1>1, <1>4, <1>5, DerefMid
<1>7. Plus(Zero, j) \in Bags /\ Plus(Zero, j)[j] > 0
  BY <1>1, ZeroBag
<1>8. ASSUME NEW h \in Deref(g, j), c = <<h, 0>>
      PROVE  Result(e, c)
  <2>1. End(e, g)
    BY <1>6, <1>7, MidEnd
  <2>2. End(e, h)
    BY <1>1, <1>8, <2>1, DerefEnd
  <2>. QED BY <1>8, <2>2 DEF Result
<1>9. CASE c \in Finish(Truncated(g, j), j)
  <2>. DEFINE x == Truncated(g, j)
  <2>1. Mid(e, x, Plus(Zero, j), 0)
    BY <1>1, <1>6, <1>7, TruncatedMid
  <2>. QED BY <1>1, <1>9, <2>1, FinishResult
<1>. QED BY <1>3, <1>8, <1>9

(* newfile has handed out an inode; its mode is set.                       *)
LEMMA ModeSet ==
    ASSUME NEW e \in Filesys, NEW f, NEW i \in Inodes, NEW parent, Born(e, f, i, parent),
           Mid(e, f, Plus(Zero, i), 0), NEW mode \in Kinds,
           NEW g, g = SetNode(f, i, Node(mode, 1))
    PROVE  /\ Mid(e, g, Plus(Zero, i), 0) /\ g.node[i].nlink = 1
           /\ parent \in g.here /\ g.c_refs = f.c_refs
           /\ parent \in Inodes => g.node[parent].mode # "none"
<1>. DEFINE new == Node(mode, 1)  own == Plus(Zero, i)
<1>0. 1 \in Nat
  OBVIOUS
<1>1. own \in Bags /\ own[i] > 0 /\ f \in Filesys /\ Named(f, Zero)
  BY ZeroBag DEF Mid, Good
<1>2. new \in Nodes /\ new.mode # "none" /\ new.nlink = 1
  BY <1>0, NodeOf
<1>3. Marked(f, g, i, new)
  BY <1>1, <1>2, SetNodeMarked
<1>. HIDE DEF new, own
<1>4. Mid(e, f, own, 0)
  BY DEF own
<1>5. f.c_refs[i] > 0 /\ i \in f.here
  BY <1>1, <1>4, Held
<1>6. f.node[i].nlink = 1 /\ (e.c_refs[i] = 0 \/ e.node[i].mode = "none")
  BY RegNode DEF Born
<1>7. i \notin f.spoiled => Cardinality(NamesOf(f, i)) <= new.nlink
  <2>1. i \notin f.spoiled => Cardinality(NamesOf(f, i)) <= 1 + Zero[i]
    BY <1>1, <1>6 DEF Named
  <2>2. Zero[i] = 0
    BY DEF Zero
  <2>. QED BY <1>2, <2>1, <2>2
<1>8. e.c_refs[i] \in Nat
  BY Fields
<1>9. e.c_refs[i] > 0 /\ e.node[i].mode # "none" => new.mode = e.node[i].mode
  BY <1>6, <1>8
<1>10. new.nlink # 0
  BY <1>2
<1>11. Mid(e, g, own, 0)
  BY <1>1, <1>2, <1>3, <1>4, <1>5, <1>7, <1>9, <1>10, MarkedMid
<1>12. \A j \in Inodes : g.node[j] = IF j = i THEN new ELSE f.node[j]
  BY <1>1, <1>3, Fields DEF Marked
<1>13. g.here = f.here /\ g.c_refs = f.c_refs
  BY <1>3 DEF Marked
<1>. QED BY <1>2, <1>11, <1>12, <1>13 DEF Born, own

LEMMA CreatedResult ==
    ASSUME NEW e \in Filesys, NEW f, NEW i \in Inodes, NEW parent \in Inodes,
           Born(e, f, i, parent), Mid(e, f, Plus(Zero, i), 0), NEW mode \in Kinds,
           NEW g, g = SetNode(f, i, Node(mode, 1)),
           NEW c, \/ c \in Finish(g, i)
                  \/ \E m \in Dots(g, i, parent) :
                       \/ c \in Finish(m[1], i)
                       \/ \E h \in DropBoth(m[1], parent, i) : c = <<h, 0>>
    PROVE  Result(e, c)
<1>1. /\ Mid(e, g, Plus(Zero, i), 0) /\ g.node[i].nlink = 1
      /\ parent \in g.here /\ g.node[parent].mode # "none" /\ i # parent
  BY ModeSet DEF Born
<1>2. CASE c \in Finish(g, i)
  BY <1>1, <1>2, FinishResult
<1>3. ASSUME NEW m \in Dots(g, i, parent),
             \/ c \in Finish(m[1], i)
             \/ \E h \in DropBoth(m[1], parent, i) : c = <<h, 0>>
      PROVE  Result(e, c)
  <2>. DEFINE own == Plus(Zero, i)
  <2>1. own \in Bags /\ own[i] > 0 /\ Mid(e, g, own, 0)
    BY <1>1, ZeroBag
  <2>. HIDE DEF own
  <2>2. Mid(e, m[1], own, 0)
    BY <1>1, <1>3, <2>1, DotsMid
  <2>3. CASE c \in Finish(m[1], i)
    BY <2>2, <2>3, FinishResult DEF own
  <2>4. ASSUME NEW h \in DropBoth(m[1], parent, i), c = <<h, 0>>
        PROVE  Result(e, c)
    <3>1. End(e, m[1])
      BY <2>1, <2>2, MidEnd
    <3>2. i \in Inodes \cup {0} /\ parent \in Inodes \cup {0}
      OBVIOUS
    <3>3. End(e, h)
      BY <2>4, <3>1, <3>2, DropBothEnd
    <3>. QED BY <2>4, <3>3 DEF Result
  <2>. QED BY <1>3, <2>3, <2>4
<1>. QED BY <1>2, <1>3

LEMMA MissingResult ==
    ASSUME NEW e \in Filesys, NEW r, Walked(e, Zero, r), r[3] = 0, r[2] # 0,
           NEW n \in Filenames, NEW mode \in Kinds,
           NEW a \in NewFile(r[1], r[2], n),
           NEW c, \/ a[2] = 0 /\ c = a
                  \/ /\ a[2] # 0
                     /\ \/ c \in Finish(SetNode(a[1], a[2], Node(mode, 1)), a[2])
                        \/ \E m \in Dots(SetNode(a[1], a[2], Node(mode, 1)), a[2], r[2]) :
                             \/ c \in Finish(m[1], a[2])
                             \/ \E h \in DropBoth(m[1], r[2], a[2]) : c = <<h, 0>>
    PROVE  Result(e, c)
<1>. DEFINE parent == r[2]  own == Plus(Zero, parent)
<1>1. parent \in Inodes /\ Mid(e, r[1], own, 0)
  BY DEF Walked, Own, Plus
<1>2. own \in Bags /\ own[parent] > 0 /\ Minus(own, parent) = Zero
  BY <1>1, ZeroBag
<1>3. a \in NewFile(r[1], parent, n)
  OBVIOUS
<1>. HIDE DEF own
<1>4. \/ a[2] = 0 /\ Mid(e, a[1], Zero, 0)
      \/ a[2] \in Inodes /\ Born(e, a[1], a[2], parent) /\ Mid(e, a[1], Plus(Zero, a[2]), 0)
  <2>. HIDE DEF parent
  <2>1. \/ a[2] = 0 /\ Mid(e, a[1], Minus(own, parent), 0)
        \/ /\ a[2] \in Inodes /\ Born(e, a[1], a[2], parent)
           /\ Mid(e, a[1], Plus(Minus(own, parent), a[2]), 0)
    BY <1>1, <1>2, <1>3, NewFileMid
  <2>. QED BY <1>2, <2>1
<1>5. CASE a[2] = 0
  <2>1. c = a /\ ~(a[2] \in Inodes)
    BY <1>5, Ranges
  <2>2. Mid(e, a[1], Zero, 0) /\ Zero \in Bags
    BY <1>1, <1>4, <2>1, ZeroBag
  <2>3. End(e, a[1])
    BY <2>2, MidEnd
  <2>. QED BY <1>5, <2>1, <2>3 DEF Result
<1>6. CASE a[2] # 0
  <2>1. a[2] \in Inodes /\ Born(e, a[1], a[2], parent) /\ Mid(e, a[1], Plus(Zero, a[2]), 0)
    BY <1>4, <1>6
  <2>. QED BY <1>1, <1>6, <2>1, CreatedResult
<1>. QED BY <1>5, <1>6

LEMMA NCreatResult ==
    ASSUME NEW e \in Filesys, NEW f, Mid(e, f, Zero, 0), NEW d \in Inodes, MayStart(e, d),
           NEW p \in Paths, NEW slash, NEW new, NEW mode \in Kinds,
           NEW c \in NCreat(f, d, p, slash, new, mode)
    PROVE  Result(e, c)
<1>. DEFINE n == Filename(p, slash)
            Made2(r, a) == SetNode(a[1], a[2], Node(mode, 1))
<1>1. PICK r \in Namei(f, d, p) :
        c \in IF r[3] # 0
              THEN IF new THEN {<<g, 0>> : g \in DropBoth(r[1], r[2], r[3])}
                   ELSE UNION {IF g.node[r[3]].mode = "dir"
                               THEN {<<h, 0>> : h \in Deref(g, r[3])}
                               ELSE Finish(Truncated(g, r[3]), r[3]) : g \in Deref(r[1], r[2])}
              ELSE IF r[2] = 0 THEN {<<r[1], 0>>}
              ELSE UNION {IF a[2] = 0 THEN {a}
                          ELSE IF mode # "dir" THEN Finish(Made2(r, a), a[2])
                               ELSE UNION {IF m[2] THEN Finish(m[1], a[2])
                                           ELSE {<<h, 0>> : h \in DropBoth(m[1], r[2], a[2])} :
                                             m \in Dots(Made2(r, a), a[2], r[2])} :
                          a \in NewFile(r[1], r[2], n)}
  BY DEF NCreat, Node
<1>2. Zero \in Bags
  BY Ranges, ZeroBag
<1>3. Walked(e, Zero, r)
  BY <1>1, <1>2, NameiWalked
<1>4. /\ r[2] \in Inodes \cup {0} /\ r[3] \in Inodes \cup {0}
      /\ Mid(e, r[1], Own(Zero, r), 0) /\ Own(Zero, r) \in Bags
  BY <1>2, <1>3, OwnTwo DEF Walked, Own
<1>5. End(e, r[1])
  BY <1>4, MidEnd
<1>6. CASE r[3] # 0 /\ new
  <2>1. PICK g \in DropBoth(r[1], r[2], r[3]) : c = <<g, 0>>
    BY <1>1, <1>6
  <2>2. End(e, g)
    BY <1>4, <1>5, <2>1, DropBothEnd
  <2>. QED BY <2>1, <2>2 DEF Result
<1>7. CASE r[3] # 0 /\ ~new
  <2>1. PICK g \in Deref(r[1], r[2]) :
          c \in IF g.node[r[3]].mode = "dir" THEN {<<h, 0>> : h \in Deref(g, r[3])}
                ELSE Finish(Truncated(g, r[3]), r[3])
    BY <1>1, <1>7
  <2>2. \/ \E h \in Deref(g, r[3]) : c = <<h, 0>>
        \/ c \in Finish(Truncated(g, r[3]), r[3])
    BY <2>1
  <2>. QED BY <1>3, <1>7, <2>1, <2>2, ExistingResult
<1>8. CASE r[3] = 0 /\ r[2] = 0
  <2>1. c = <<r[1], 0>>
    BY <1>1, <1>8
  <2>. QED BY <1>5, <2>1 DEF Result
<1>9. CASE r[3] = 0 /\ r[2] # 0
  <2>1. PICK a \in NewFile(r[1], r[2], n) :
          c \in IF a[2] = 0 THEN {a}
                ELSE IF mode # "dir" THEN Finish(Made2(r, a), a[2])
                     ELSE UNION {IF m[2] THEN Finish(m[1], a[2])
                                 ELSE {<<h, 0>> : h \in DropBoth(m[1], r[2], a[2])} :
                                   m \in Dots(Made2(r, a), a[2], r[2])}
    BY <1>1, <1>9
  <2>2. \/ a[2] = 0 /\ c = a
        \/ /\ a[2] # 0
           /\ \/ c \in Finish(SetNode(a[1], a[2], Node(mode, 1)), a[2])
              \/ \E m \in Dots(SetNode(a[1], a[2], Node(mode, 1)), a[2], r[2]) :
                   \/ c \in Finish(m[1], a[2])
                   \/ \E h \in DropBoth(m[1], r[2], a[2]) : c = <<h, 0>>
    BY <2>1
  <2>3. n \in Filenames
    BY FilenameType
  <2>. HIDE DEF n
  <2>. QED BY <1>3, <1>9, <2>1, <2>2, <2>3, MissingResult
<1>. QED BY <1>6, <1>7, <1>8, <1>9
----------------------------------------------------------------------------
(* The calls.  What is good stays good, and no inode that stays referenced *)
(* becomes another.                                                        *)
LEMMA AtRest ==
    ASSUME NEW e, Good(e, 0)
    PROVE  e \in Filesys /\ Zero \in Bags /\ Mid(e, e, Zero, 0) /\ End(e, e)
<1>1. e \in Filesys
  BY DEF Good
<1>2. \A i \in Inodes : e.c_refs[i] \in Nat /\ Zero[i] = 0
  BY <1>1, Fields DEF Zero
<1>3. Owed(e, e, Zero)
  BY <1>2 DEF Owed
<1>. QED BY <1>1, <1>3, ZeroBag, Ranges DEF Mid, End, Kept

LEMMA OpenEnd ==
    ASSUME NEW e, Good(e, 0), NEW d \in Inodes, MayStart(e, d), NEW p \in Paths,
           NEW r \in Look(e, d, p)
    PROVE  /\ r[2] \in Inodes \cup {0} /\ Plus(Zero, r[2]) \in Bags
           /\ Mid(e, r[1], Plus(Zero, r[2]), 0) /\ End(e, r[1])
<1>1. e \in Filesys /\ Zero \in Bags /\ Mid(e, e, Zero, 0)
  BY AtRest
<1>2. r[2] \in Inodes \cup {0} /\ Mid(e, r[1], Plus(Zero, r[2]), 0)
  BY <1>1, LookMid
<1>3. Plus(Zero, r[2]) \in Bags
  BY <1>1, <1>2, BagOps
<1>. QED BY <1>1, <1>2, <1>3, MidEnd

LEMMA TruncatableEnd ==
    ASSUME NEW e \in Filesys, NEW c, Result(e, c), NEW g \in Truncatable(c)
    PROVE  End(e, g)
<1>1. CASE c[2] = 0
  <2>1. g = c[1] /\ ~(c[2] \in Inodes)
    BY <1>1, Ranges DEF Truncatable
  <2>. QED BY <2>1 DEF Result
<1>2. CASE c[2] # 0
  <2>1. c[2] \in Inodes /\ Mid(e, c[1], Plus(Zero, c[2]), 0)
    BY <1>2 DEF Result
  <2>2. g = c[1] \/ g = Truncated(c[1], c[2])
    BY <1>2 DEF Truncatable
  <2>. DEFINE own == Plus(Zero, c[2])
  <2>3. own \in Bags /\ own[c[2]] > 0 /\ Mid(e, c[1], own, 0)
    BY <2>1, ZeroBag
  <2>. HIDE DEF own
  <2>4. Mid(e, g, own, 0)
    BY <2>1, <2>2, <2>3, TruncatedMid
  <2>. QED BY <2>3, <2>4, MidEnd
<1>. QED BY <1>1, <1>2

LEMMA RegDir == "reg" \in Kinds /\ "dir" \in Kinds
BY DEF Kinds

LEMMA CreatEnd ==
    ASSUME Good(fs, 0), NEW d \in Inodes, NEW p \in Paths, NEW slash, Creat(d, p, slash)
    PROVE  End(fs, fs')
<1>1. fs \in Filesys /\ Zero \in Bags /\ Mid(fs, fs, Zero, 0) /\ MayStart(fs, d)
  BY AtRest DEF Creat
<1>2. ASSUME NEW r \in Look(fs, d, p), r[2] # 0, fs' \in Truncatable(r)
      PROVE  End(fs, fs')
  <2>1. Result(fs, r)
    BY <1>1, <1>2, OpenEnd DEF Result
  <2>. QED BY <1>1, <1>2, <2>1, TruncatableEnd
<1>3. ASSUME NEW r \in Look(fs, d, p), r[2] = 0,
             NEW a \in NCreat(r[1], d, p, slash, FALSE, "reg"), fs' \in Truncatable(a)
      PROVE  End(fs, fs')
  <2>1. Mid(fs, r[1], Zero, 0)
    <3>1. Mid(fs, r[1], Plus(Zero, r[2]), 0)
      BY <1>1, OpenEnd
    <3>. QED BY <1>3, <3>1 DEF Plus
  <2>2. Result(fs, a)
    BY <1>1, <1>3, <2>1, RegDir, NCreatResult
  <2>. QED BY <1>1, <1>3, <2>2, TruncatableEnd
<1>4. ASSUME NEW a \in NCreat(fs, d, p, slash, TRUE, "reg"), fs' \in Truncatable(a)
      PROVE  End(fs, fs')
  <2>1. Result(fs, a)
    BY <1>1, <1>4, RegDir, NCreatResult
  <2>. QED BY <1>1, <1>4, <2>1, TruncatableEnd
<1>. QED BY <1>2, <1>3, <1>4 DEF Creat

LEMMA MknodEnd ==
    ASSUME Good(fs, 0), NEW d \in Inodes, NEW p \in Paths, NEW slash, NEW mode \in Kinds,
           Mknod(d, p, slash, mode)
    PROVE  End(fs, fs')
<1>1. fs \in Filesys /\ Zero \in Bags /\ Mid(fs, fs, Zero, 0) /\ MayStart(fs, d)
  BY AtRest DEF Mknod
<1>2. PICK a \in NCreat(fs, d, p, slash, TRUE, mode) :
        IF a[2] = 0 THEN fs' = a[1] ELSE fs' \in UNION {Deref(g, a[2]) : g \in Saved(a[1], a[2])}
  BY DEF Mknod
<1>3. Result(fs, a)
  BY <1>1, <1>2, NCreatResult
<1>4. CASE a[2] = 0
  <2>1. ~(a[2] \in Inodes) /\ fs' = a[1]
    BY <1>2, <1>4, Ranges
  <2>. QED BY <1>3, <2>1 DEF Result
<1>5. CASE a[2] # 0
  <2>1. a[2] \in Inodes /\ Mid(fs, a[1], Plus(Zero, a[2]), 0)
    BY <1>3, <1>5 DEF Result
  <2>2. PICK g \in Saved(a[1], a[2]) : fs' \in Deref(g, a[2])
    BY <1>2, <1>5
  <2>3. Calm(a[1], g)
    BY <2>1, <2>2, SavedCalm DEF Mid, Good, Steady
  <2>. DEFINE own == Plus(Zero, a[2])
  <2>4. own \in Bags /\ Mid(fs, a[1], own, 0)
    BY <2>1, ZeroBag
  <2>. HIDE DEF own
  <2>5. Mid(fs, g, own, 0)
    BY <1>1, <2>3, <2>4, CalmKeeps
  <2>6. End(fs, g)
    BY <1>1, <2>4, <2>5, MidEnd
  <2>. QED BY <1>1, <2>1, <2>2, <2>6, DerefEnd
<1>. QED BY <1>4, <1>5

LEMMA HoldEnd ==
    ASSUME Good(fs, 0), NEW i \in Inodes, Hold(i)
    PROVE  End(fs, fs')
<1>1. fs \in Filesys /\ fs.c_refs[i] > 0 /\ fs' \in IRef(fs, i)
  BY AtRest DEF Hold
<1>. DEFINE n == fs.c_refs[i] + 1
<1>2. Refs(fs, fs', i, n)
  BY <1>1, IRefFields
<1>3. n \in Nat /\ n > 0 /\ i \in fs.here
  BY <1>1, Fields DEF Good, Placed
<1>. HIDE DEF n
<1>4. Good(fs', 0)
  BY <1>1, <1>2, <1>3, RefsGood
<1>. QED BY <1>2, <1>4 DEF End, Kept, Refs

LEMMA ReleaseEnd ==
    ASSUME Good(fs, 0), NEW i \in Inodes, Release(i)
    PROVE  End(fs, fs')
BY AtRest, DerefEnd DEF Release

LEMMA TouchEnd ==
    ASSUME Good(fs, 0), NEW i \in Inodes, Touch(i)
    PROVE  End(fs, fs')
<1>1. Mid(fs, fs', Zero, 0)
  BY AtRest, SetftimMid DEF Touch
<1>. QED BY <1>1, AtRest, MidEnd

LEMMA SyncEnd ==
    ASSUME Good(fs, 0), Sync
    PROVE  End(fs, fs')
<1>1. Calm(fs, fs')
  BY SyncedCalm DEF Sync, Good, Steady
<1>2. Mid(fs, fs', Zero, 0)
  BY <1>1, AtRest, CalmKeeps
<1>. QED BY <1>2, AtRest, MidEnd

Pipey == [mode |-> "pipe", nlink |-> 0]
LEMMA PipeNode ==
    /\ Pipey \in Nodes /\ Pipey.nlink = 0 /\ Pipey # Blank
    /\ Pipey.mode = "pipe" /\ Pipey.mode # "none"
BY DEF Pipey, Nodes, Kinds, Blank

Piped(f, i) ==
    [f EXCEPT !.node[i] = [mode |-> "pipe", nlink |-> 0], !.c_refs[i] = @ + 1]

LEMMA PipedFields ==
    ASSUME NEW f \in Filesys, NEW i \in Inodes, NEW g, g = Piped(f, i)
    PROVE  /\ g \in Filesys
           /\ g.node = [f.node EXCEPT ![i] = Pipey]
           /\ g.c_refs = [f.c_refs EXCEPT ![i] = f.c_refs[i] + 1]
           /\ g.disk = f.disk /\ g.here = f.here /\ g.c_dirty = f.c_dirty /\ g.dir = f.dir
           /\ g.s_tinode = f.s_tinode /\ g.spoiled = f.spoiled /\ g.wasted = f.wasted
<1>1. Pipey \in Nodes
  BY PipeNode
<1>2. f.c_refs[i] + 1 \in Nat /\ f.c_refs \in [Inodes -> Nat] /\ f.node \in [Inodes -> Nodes]
  BY Fields
<1>3. /\ [f.node EXCEPT ![i] = Pipey] \in [Inodes -> Nodes]
      /\ [f.c_refs EXCEPT ![i] = f.c_refs[i] + 1] \in [Inodes -> Nat]
  BY <1>1, <1>2
<1>4. g = [f EXCEPT !.node = [f.node EXCEPT ![i] = Pipey],
                    !.c_refs = [f.c_refs EXCEPT ![i] = f.c_refs[i] + 1]]
  BY DEF Piped, Pipey
<1>. QED BY <1>3, <1>4 DEF Filesys

LEMMA PipedEnd ==
    ASSUME NEW e \in Filesys, NEW f, Mid(e, f, Zero, 0), NEW i \in Inodes,
           Fresh(e, f, Zero, i), NEW g, g = Piped(f, i)
    PROVE  End(e, g)
<1>1. f \in Filesys /\ Good(f, 0) /\ Owed(e, f, Zero)
  BY DEF Mid, Good
<1>2. /\ g \in Filesys
      /\ g.node = [f.node EXCEPT ![i] = Pipey]
      /\ g.c_refs = [f.c_refs EXCEPT ![i] = f.c_refs[i] + 1]
      /\ g.disk = f.disk /\ g.here = f.here /\ g.c_dirty = f.c_dirty /\ g.dir = f.dir
      /\ g.s_tinode = f.s_tinode /\ g.spoiled = f.spoiled /\ g.wasted = f.wasted
  BY <1>1, PipedFields
<1>3. /\ f.node \in [Inodes -> Nodes] /\ f.c_refs \in [Inodes -> Nat]
      /\ e.c_refs[i] \in Nat
  BY <1>1, Fields
<1>4. /\ \A j \in Inodes : g.node[j] = IF j = i THEN Pipey ELSE f.node[j]
      /\ \A j \in Inodes : g.c_refs[j] = IF j = i THEN f.c_refs[i] + 1 ELSE f.c_refs[j]
  BY <1>2, <1>3
<1>5. i \in f.here /\ f.c_refs[i] > 0 /\ f.node[i] = Blank
  <2>1. f.c_refs[i] > e.c_refs[i] /\ f.c_refs[i] \in Nat
    BY <1>3 DEF Fresh
  <2>. QED BY <1>3, <2>1 DEF Fresh
<1>6. Placed(g)
  BY <1>1, <1>2, <1>4, <1>5 DEF Good, Placed
<1>7. Clean(g)
  BY <1>1, <1>2, <1>4, PipeNode DEF Good, Clean
<1>14. g.dir = f.dir
  BY <1>2
<1>8. Entered(g)
  BY <1>1, <1>14 DEF Good, Entered
<1>9. Named(g, Zero)
  <2>1. \A j \in Inodes : NamesOf(g, j) = NamesOf(f, j)
    BY <1>2, CalmNames
  <2>2. i \notin f.spoiled => Cardinality(NamesOf(f, i)) = 0
    BY <1>1, <1>5, BlankNode, FS_EmptySet DEF Good, Named
  <2>3. Zero[i] = 0
    BY DEF Zero
  <2>4. i \notin f.spoiled => Cardinality(NamesOf(g, i)) <= Pipey.nlink + Zero[i]
    BY <2>1, <2>2, <2>3, PipeNode
  <2>. QED BY <1>1, <1>2, <1>4, <2>1, <2>4, PipeNode DEF Good, Named
<1>10. Available(g) = Available(f)
  <2>1. g.c_refs[i] # 0
    BY <1>3, <1>4
  <2>2. f.c_refs[i] # 0
    BY <1>5
  <2>. QED BY <1>4, <2>1, <2>2, PipeNode DEF Available
<1>11. Good(g, 0)
  BY <1>1, <1>2, <1>6, <1>7, <1>8, <1>9, <1>10 DEF Good, Tallied
<1>12. e.c_refs[i] > 0 => e.node[i].mode = "none"
  BY <1>3 DEF Fresh
<1>13. Kept(e, g)
  BY <1>1, <1>4, <1>12 DEF Kept, Owed
<1>. QED BY <1>11, <1>13 DEF End

LEMMA PipeEnd ==
    ASSUME Good(fs, 0), Pipe
    PROVE  End(fs, fs')
<1>1. fs \in Filesys /\ Zero \in Bags /\ Mid(fs, fs, Zero, 0)
  BY AtRest
<1>2. PICK a \in NewInode(fs) :
        IF a[2] = 0 THEN fs' = a[1]
        ELSE \/ fs' = Piped(a[1], a[2])
             \/ fs' = a[1]
             \/ fs' \in Deref(a[1], a[2])
  BY DEF Pipe, Piped
<1>3. /\ Mid(fs, a[1], Zero, 0)
      /\ a[2] = 0 \/ (a[2] \in Inodes /\ Fresh(fs, a[1], Zero, a[2]))
  BY <1>1, <1>2, NewInodeMid
<1>4. End(fs, a[1])
  BY <1>1, <1>3, MidEnd
<1>5. CASE fs' = a[1]
  BY <1>4, <1>5
<1>6. CASE a[2] # 0 /\ fs' = Piped(a[1], a[2])
  BY <1>1, <1>3, <1>6, PipedEnd
<1>7. CASE a[2] # 0 /\ fs' \in Deref(a[1], a[2])
  BY <1>1, <1>3, <1>4, <1>7, DerefEnd
<1>. QED BY <1>2, <1>5, <1>6, <1>7

(* unlink                                                                  *)
LEMMA FirstOnce ==
    ASSUME NEW f, NEW d, NEW n, NEW s \in Slots, NEW t \in Slots, First(f, d, n, s), First(f, d, n, t)
    PROVE  s = t
<1>1. s \in Nat /\ t \in Nat /\ s # 0 /\ t # 0
  BY Ranges
<1>2. /\ f.dir[d][s].name = n /\ f.dir[d][t].name = n
      /\ \A x \in 1 .. s - 1 : f.dir[d][x].name # n
      /\ \A x \in 1 .. t - 1 : f.dir[d][x].name # n
  BY DEF First
<1>3. ~(s < t)
  <2>1. s < t => s \in 1 .. t - 1
    BY <1>1
  <2>. QED BY <1>2, <2>1
<1>4. ~(t < s)
  <2>1. t < s => t \in 1 .. s - 1
    BY <1>1
  <2>. QED BY <1>2, <2>1
<1>. QED BY <1>1, <1>3, <1>4

Removing(f, d, n) == ChLink(f, d, n, Unused)
NoName == ""

LEMMA UnusedEntry == Unused \in Entries /\ Unused.ino = 0 /\ Enters(Unused)
BY DEF Unused, Entries, Enters

LEMMA RemovingNames ==
    ASSUME NEW f, NEW k, Sound(f, k), NEW d \in Inodes, d \in f.here, NEW n,
           NEW c \in Removing(f, d, n)
    PROVE  /\ Sound(c[1], k) /\ Same(f, c[1])
           /\ \A j \in Inodes : NamesOf(c[1], j) \subseteq NamesOf(f, j)
           /\ \A i \in Inodes : c[2] /\ n # NoName /\ Found(f, d, n, i) =>
                Cardinality(NamesOf(c[1], i)) = Cardinality(NamesOf(f, i)) - 1
<1>1. f \in Filesys /\ c \in ChLink(f, d, n, Unused)
  BY DEF Sound, Removing
<1>2. \/ c[1] = f /\ ~c[2]
      \/ \E s \in Slots : First(f, d, n, s) /\ Writes(f, c[1], d, s, Unused)
  BY <1>1, UnusedEntry, ChLinkWrites
<1>3. CASE c[1] = f /\ ~c[2]
  BY <1>3 DEF Same
<1>4. ASSUME NEW s \in Slots, First(f, d, n, s), Writes(f, c[1], d, s, Unused)
      PROVE  /\ Sound(c[1], k) /\ Same(f, c[1])
             /\ \A j \in Inodes : NamesOf(c[1], j) \subseteq NamesOf(f, j)
             /\ \A i \in Inodes : n # NoName /\ Found(f, d, n, i) =>
                  Cardinality(NamesOf(c[1], i)) = Cardinality(NamesOf(f, i)) - 1
  <2>1. Sound(c[1], k)
    BY <1>4, UnusedEntry, WritesSound DEF Enters
  <2>2. Same(f, c[1])
    BY <1>4 DEF Same, Writes
  <2>3. CASE n = NoName
    <3>1. Nameless(f, d, s)
      BY <1>4, <2>3 DEF First, Nameless, NoName
    <3>2. \A j \in Inodes : j # Unused.ino => NamesOf(c[1], j) \subseteq NamesOf(f, j)
      BY <1>1, <1>4, <3>1, WritesAdd
    <3>3. \A j \in Inodes : j # Unused.ino
      BY UnusedEntry, Ranges
    <3>. QED BY <2>1, <2>2, <2>3, <3>2, <3>3
  <2>4. CASE n # NoName
    <3>1. ~Nameless(f, d, s)
      BY <1>4, <2>4 DEF First, Nameless, NoName
    <3>2. \A j \in Inodes :
            /\ NamesOf(c[1], j) \subseteq NamesOf(f, j)
            /\ j = f.dir[d][s].ino =>
                 Cardinality(NamesOf(c[1], j)) = Cardinality(NamesOf(f, j)) - 1
      BY <1>1, <1>4, <3>1, WritesDrop
    <3>3. \A i \in Inodes : Found(f, d, n, i) => i = f.dir[d][s].ino
      <4>. SUFFICES ASSUME NEW i \in Inodes, Found(f, d, n, i) PROVE i = f.dir[d][s].ino
        OBVIOUS
      <4>1. i # 0
        BY Ranges
      <4>2. PICK t \in Slots : First(f, d, n, t) /\ f.dir[d][t].ino = i
        BY <4>1 DEF Found
      <4>3. s = t
        BY <1>4, <4>2, FirstOnce
      <4>. QED BY <4>2, <4>3
    <3>. QED BY <2>1, <2>2, <3>2, <3>3
  <2>. QED BY <2>3, <2>4
<1>. QED BY <1>2, <1>3, <1>4

LEMMA FewerNamed ==
    ASSUME NEW f \in Filesys, Named(f, Zero), NEW g, Same(f, g),
           \A j \in Inodes : NamesOf(g, j) \subseteq NamesOf(f, j)
    PROVE  Named(g, Zero)
<1>. SUFFICES ASSUME NEW j \in Inodes \ g.spoiled
              PROVE  /\ Cardinality(NamesOf(g, j)) <= g.node[j].nlink + Zero[j]
                     /\ g.node[j].mode = "none" => NamesOf(g, j) = {}
  BY DEF Named
<1>1. g.node = f.node /\ j \notin f.spoiled /\ NamesOf(g, j) \subseteq NamesOf(f, j)
  BY DEF Same
<1>2. /\ Cardinality(NamesOf(f, j)) <= f.node[j].nlink + Zero[j]
      /\ f.node[j].mode = "none" => NamesOf(f, j) = {}
  BY <1>1 DEF Named
<1>3. Cardinality(NamesOf(g, j)) <= Cardinality(NamesOf(f, j))
  BY <1>1, FewerNames
<1>4. Cardinality(NamesOf(g, j)) \in Nat /\ Cardinality(NamesOf(f, j)) \in Nat
  BY Finite
<1>5. f.node[j].nlink \in Nat /\ Zero[j] = 0
  BY Fields, NodeFields DEF Zero
<1>6. Cardinality(NamesOf(g, j)) <= g.node[j].nlink + Zero[j]
  BY <1>1, <1>2, <1>3, <1>4, <1>5
<1>. QED BY <1>1, <1>2, <1>6

(* A mode that stays is kept.                                              *)
LEMMA ModesKept ==
    ASSUME NEW e, NEW f, NEW own, NEW k, Mid(e, f, own, k),
           NEW g, \A j \in Inodes : g.node[j].mode = f.node[j].mode
    PROVE  Kept(e, g)
BY DEF Mid, Owed, Kept

(* The links are counted down; without a name none was removed.            *)
LEMMA UnlinkedEnd ==
    ASSUME NEW e \in Filesys, NEW f, NEW own \in Bags, Mid(e, f, own, 0),
           NEW g, Sound(g, 0), Same(f, g),
           \A j \in Inodes : NamesOf(g, j) \subseteq NamesOf(f, j),
           NEW i \in Inodes, own[i] > 0, NEW S, S \subseteq Inodes,
           i \in S \/ Cardinality(NamesOf(g, i)) = Cardinality(NamesOf(f, i)) - 1,
           NEW h, h = Spoil(Unlinked(g, i), S)
    PROVE  End(e, h)
<1>. DEFINE n == LessOne(Nlink(g, i))  x == Unlinked(g, i)
            new == Renumbered(g.node[i], n)
<1>1. f \in Filesys /\ g \in Filesys /\ Named(f, Zero)
  BY DEF Mid, Good, Sound
<1>2. g.node \in [Inodes -> Nodes] /\ g.node[i] \in Nodes /\ g.node[i].nlink \in Nat
  BY <1>1, Fields, NodeFields
<1>3. n \in Nat /\ (g.node[i].nlink # 0 => n = g.node[i].nlink - 1)
  BY <1>2 DEF LessOne, Nlink
<1>. HIDE DEF n
<1>4. new \in Nodes /\ new.mode = g.node[i].mode /\ new.nlink = n
  BY <1>2, <1>3, RenumberedNode
<1>5. x = Setftim(WithNlink(g, i, n), i)
  BY DEF Unlinked, n
<1>6. Marked(g, x, i, new)
  BY <1>1, <1>3, <1>5, NlinkMarked
<1>. HIDE DEF new, x
<1>7. g.node = f.node /\ g.c_refs = f.c_refs /\ g.here = f.here /\ g.spoiled = f.spoiled
  BY DEF Same
<1>8. f.c_refs[i] > 0 /\ i \in f.here /\ f.node[i].mode # "none"
  BY Held
<1>9. Sound(x, 0)
  BY <1>4, <1>6, <1>7, <1>8, MarkedSound
<1>10. Sound(h, 0) /\ \A j \in Inodes : NamesOf(h, j) = NamesOf(x, j)
  BY <1>9, SpoilSound DEF x
<1>11. h.node = x.node /\ h.spoiled = x.spoiled \cup S
  <2>1. x \in Filesys /\ h = Spoil(x, S)
    BY <1>6 DEF Marked, x
  <2>. QED BY <2>1, SpoilFields
<1>12. /\ \A j \in Inodes : NamesOf(h, j) = NamesOf(g, j)
       /\ x.spoiled = f.spoiled
       /\ \A j \in Inodes : h.node[j] = IF j = i THEN new ELSE f.node[j]
  <2>1. x.dir = g.dir /\ x.spoiled = g.spoiled /\ x.node = [g.node EXCEPT ![i] = new]
    BY <1>6 DEF Marked
  <2>2. \A j \in Inodes : NamesOf(x, j) = NamesOf(g, j)
    BY <2>1, CalmNames
  <2>. QED BY <1>2, <1>7, <1>10, <1>11, <2>1, <2>2
<1>13. Named(h, Zero)
  <2>. SUFFICES ASSUME NEW j \in Inodes \ h.spoiled
                PROVE  /\ Cardinality(NamesOf(h, j)) <= h.node[j].nlink + Zero[j]
                       /\ h.node[j].mode = "none" => NamesOf(h, j) = {}
    BY DEF Named
  <2>1. NamesOf(h, j) \subseteq NamesOf(f, j) /\ j \notin f.spoiled /\ j \notin S
    BY <1>11, <1>12
  <2>2. /\ Cardinality(NamesOf(f, j)) <= f.node[j].nlink + Zero[j]
        /\ f.node[j].mode = "none" => NamesOf(f, j) = {}
    BY <1>1, <2>1 DEF Named
  <2>3. Cardinality(NamesOf(h, j)) <= Cardinality(NamesOf(f, j))
    BY <2>1, FewerNames
  <2>4. Cardinality(NamesOf(h, j)) \in Nat /\ Cardinality(NamesOf(f, j)) \in Nat
    BY Finite
  <2>5. f.node[j].nlink \in Nat /\ Zero[j] = 0
    BY <1>1, Fields, NodeFields DEF Zero
  <2>6. CASE j = i
    <3>1. Cardinality(NamesOf(h, i)) = Cardinality(NamesOf(f, i)) - 1
      BY <1>12, <2>1, <2>6
    <3>2. n = f.node[i].nlink - 1
      BY <1>3, <1>7, <2>2, <2>4, <2>5, <2>6, <3>1
    <3>3. h.node[i].nlink = n /\ h.node[i].mode # "none"
      BY <1>4, <1>7, <1>8, <1>12
    <3>. QED BY <2>2, <2>4, <2>5, <2>6, <3>1, <3>2, <3>3
  <2>7. CASE j # i
    <3>1. h.node[j] = f.node[j]
      BY <1>12, <2>7
    <3>2. Cardinality(NamesOf(h, j)) <= h.node[j].nlink + Zero[j]
      BY <2>2, <2>3, <2>4, <2>5, <3>1
    <3>. QED BY <2>1, <2>2, <3>1, <3>2
  <2>. QED BY <2>6, <2>7
<1>14. \A j \in Inodes : h.node[j].mode = f.node[j].mode
  BY <1>4, <1>7, <1>12
<1>15. Kept(e, h)
  BY <1>14, ModesKept
<1>. QED BY <1>10, <1>13, <1>15 DEF End, Good, Sound

LEMMA FilenameLast ==
    ASSUME NEW p, NEW slash, Filename(p, slash) # NoName
    PROVE  p # <<>> /\ Filename(p, slash) = p[Len(p)]
BY Zenon DEF Filename, NoName

(* ch_link has taken the name out, or has not.                             *)
LEMMA RemovedEnd ==
    ASSUME NEW e \in Filesys, NEW f, NEW own \in Bags, Mid(e, f, own, 0),
           NEW d \in Inodes, own[d] > 0, NEW i \in Inodes, own[i] > 0, NEW n,
           n # NoName => Found(f, d, n, i),
           NEW l \in Removing(f, d, n), NEW S, S \subseteq Inodes, n = NoName => i \in S,
           NEW h, h = IF ~l[2] THEN l[1] ELSE Spoil(Unlinked(l[1], i), S)
    PROVE  End(e, h)
<1>1. f \in Filesys /\ Sound(f, 0) /\ Named(f, Zero) /\ d \in f.here
  BY Held DEF Mid, Good, Sound
<1>2. /\ Sound(l[1], 0) /\ Same(f, l[1])
      /\ \A j \in Inodes : NamesOf(l[1], j) \subseteq NamesOf(f, j)
      /\ l[2] /\ n # NoName =>
           Cardinality(NamesOf(l[1], i)) = Cardinality(NamesOf(f, i)) - 1
  BY <1>1, RemovingNames
<1>3. CASE ~l[2]
  <2>1. Named(l[1], Zero)
    BY <1>1, <1>2, FewerNamed
  <2>2. \A j \in Inodes : l[1].node[j].mode = f.node[j].mode
    BY <1>2 DEF Same
  <2>3. Kept(e, l[1])
    BY <2>2, ModesKept
  <2>. QED BY <1>2, <1>3, <2>1, <2>3 DEF End, Good, Sound
<1>4. CASE l[2]
  <2>1. i \in S \/ Cardinality(NamesOf(l[1], i)) = Cardinality(NamesOf(f, i)) - 1
    BY <1>2, <1>4
  <2>2. h = Spoil(Unlinked(l[1], i), S)
    BY <1>4
  <2>. QED BY <1>2, <2>1, <2>2, UnlinkedEnd
<1>. QED BY <1>3, <1>4

LEMMA UnlinkEnd ==
    ASSUME Good(fs, 0), NEW d \in Inodes, NEW p \in Paths, NEW slash, Unlink(d, p, slash)
    PROVE  End(fs, fs')
<1>. DEFINE n == Filename(p, slash)
            S(i) == IF n = NoName THEN {i} ELSE {}
<1>1. fs \in Filesys /\ Zero \in Bags /\ Mid(fs, fs, Zero, 0) /\ MayStart(fs, d)
  BY AtRest DEF Unlink
<1>2. PICK r \in Namei(fs, d, p) :
        IF r[3] = 0 THEN fs' \in Drop(r[1], r[2])
        ELSE \E l \in Removing(r[1], r[2], n) :
               IF ~l[2] THEN fs' \in DropBoth(l[1], r[2], r[3])
               ELSE fs' \in DropBoth(Spoil(Unlinked(l[1], r[3]), S(r[3])), r[2], r[3])
  BY DEF Unlink, Removing, NoName
<1>3. Walked(fs, Zero, r) /\ (p # <<>> => Leads(r, p[Len(p)]))
  BY <1>1, <1>2, NameiWalked
<1>. DEFINE own == Own(Zero, r)
<1>4. /\ r[2] \in Inodes \cup {0} /\ r[3] \in Inodes \cup {0} /\ (r[2] = 0 => r[3] = 0)
      /\ Mid(fs, r[1], own, 0) /\ own \in Bags
      /\ r[3] # 0 => own[r[2]] > 0 /\ own[r[3]] > 0
  BY <1>1, <1>3, OwnTwo DEF Walked, Own
<1>5. n # NoName => Found(r[1], r[2], n, r[3])
  BY <1>3, FilenameLast DEF Leads
<1>. HIDE DEF n, own
<1>6. CASE r[3] = 0
  <2>1. End(fs, r[1])
    BY <1>1, <1>4, MidEnd
  <2>. QED BY <1>1, <1>2, <1>4, <1>6, <2>1, DropEnd
<1>7. CASE r[3] # 0
  <2>1. PICK l \in Removing(r[1], r[2], n) :
          IF ~l[2] THEN fs' \in DropBoth(l[1], r[2], r[3])
          ELSE fs' \in DropBoth(Spoil(Unlinked(l[1], r[3]), S(r[3])), r[2], r[3])
    BY <1>2, <1>7
  <2>. DEFINE h == IF ~l[2] THEN l[1] ELSE Spoil(Unlinked(l[1], r[3]), S(r[3]))
  <2>2. r[2] \in Inodes /\ r[3] \in Inodes /\ S(r[3]) \subseteq Inodes
        /\ (n = NoName => r[3] \in S(r[3]))
    BY <1>4, <1>7
  <2>3. fs' \in DropBoth(h, r[2], r[3])
    BY <2>1
  <2>4. h = IF ~l[2] THEN l[1] ELSE Spoil(Unlinked(l[1], r[3]), S(r[3]))
    OBVIOUS
  <2>. HIDE DEF h, S
  <2>5. End(fs, h)
    BY <1>1, <1>4, <1>5, <1>7, <2>1, <2>2, <2>4, RemovedEnd
  <2>. QED BY <1>1, <1>4, <2>3, <2>5, DropBothEnd
<1>. QED BY <1>6, <1>7
----------------------------------------------------------------------------
(* link                                                                    *)
Rewritten(g, h, i, new) ==
    /\ h \in Filesys
    /\ h.node = [g.node EXCEPT ![i] = new]
    /\ \A j \in Inodes : h.c_dirty[j] = (j = i \/ g.c_dirty[j])
    /\ \A j \in Inodes : j # i => h.disk[j] = g.disk[j]
    /\ h.here = g.here /\ h.c_refs = g.c_refs /\ h.dir = g.dir
    /\ h.s_tinode = g.s_tinode /\ h.spoiled = g.spoiled /\ h.wasted = g.wasted

LEMMA WrittenAndStamped ==
    ASSUME NEW g \in Filesys, NEW i \in Inodes, NEW n \in Nat,
           NEW w \in WrInode(WithNlink(g, i, n), i), NEW h, h = Setftim(w[1], i)
    PROVE  Rewritten(g, h, i, Renumbered(g.node[i], n))
<1>. DEFINE z == WithNlink(g, i, n)
            c == Copied(z, i)
            u == Unmark(c, i)
<1>1. Relinked(g, z, i, n)
  BY WithNlinkFields
<1>2. w[1] \in {z, c, u}
  BY WrInodeStates
<1>. HIDE DEF z
<1>3. z \in Filesys
  BY <1>1 DEF Relinked
<1>4. /\ c \in Filesys
      /\ c.disk = [z.disk EXCEPT ![i] = z.node[i]]
      /\ c.node = z.node /\ c.here = z.here /\ c.c_refs = z.c_refs
      /\ c.c_dirty = z.c_dirty /\ c.dir = z.dir /\ c.s_tinode = z.s_tinode
      /\ c.spoiled = z.spoiled /\ c.wasted = z.wasted
  BY <1>3, CopyFields
<1>. HIDE DEF c
<1>12. u = Unmark(c, i) /\ c \in Filesys
  BY <1>4
<1>. HIDE DEF u
<1>5. /\ u \in Filesys
      /\ u.c_dirty = [c.c_dirty EXCEPT ![i] = FALSE]
      /\ u.node = c.node /\ u.here = c.here /\ u.c_refs = c.c_refs
      /\ u.disk = c.disk /\ u.dir = c.dir /\ u.s_tinode = c.s_tinode
      /\ u.spoiled = c.spoiled /\ u.wasted = c.wasted
  BY <1>12, UnmarkFields
<1>. DEFINE y == w[1]
<1>6. /\ y \in Filesys
      /\ \A j \in Inodes : j # i => y.c_dirty[j] = g.c_dirty[j] /\ y.disk[j] = g.disk[j]
      /\ y.node = [g.node EXCEPT ![i] = Renumbered(g.node[i], n)]
      /\ y.here = g.here /\ y.c_refs = g.c_refs /\ y.dir = g.dir
      /\ y.s_tinode = g.s_tinode /\ y.spoiled = g.spoiled /\ y.wasted = g.wasted
  BY <1>1, <1>2, <1>3, <1>4, <1>5, Fields DEF Relinked
<1>7. h = Setftim(y, i)
  OBVIOUS
<1>. HIDE DEF y
<1>8. Marked(y, h, i, y.node[i])
  BY <1>6, <1>7, SetftimMarked
<1>9. /\ y.c_dirty \in [Inodes -> BOOLEAN] /\ y.node \in [Inodes -> Nodes]
      /\ g.c_dirty \in [Inodes -> BOOLEAN]
  BY <1>6, Fields
<1>10. h.node = y.node
  BY <1>8, <1>9 DEF Marked
<1>11. \A j \in Inodes : h.c_dirty[j] = (j = i \/ g.c_dirty[j])
  <2>1. h.c_dirty = [y.c_dirty EXCEPT ![i] = TRUE]
    BY <1>8 DEF Marked
  <2>2. h.c_dirty[i] /\ \A j \in Inodes : j # i => h.c_dirty[j] = y.c_dirty[j]
    BY <1>9, <2>1
  <2>3. \A j \in Inodes : j # i => h.c_dirty[j] = g.c_dirty[j]
    BY <1>6, <2>2
  <2>4. \A j \in Inodes : h.c_dirty[j] \in BOOLEAN /\ g.c_dirty[j] \in BOOLEAN
    BY <1>8, <1>9, Fields DEF Marked
  <2>. QED BY <2>2, <2>3, <2>4
<1>. QED BY <1>6, <1>8, <1>10, <1>11 DEF Marked, Rewritten

LEMMA LinkedEnd ==
    ASSUME NEW e \in Filesys, NEW f, NEW own \in Bags, Mid(e, f, own, 0),
           NEW d \in Inodes, own[d] > 0, NEW i \in Inodes, own[i] > 0, NEW n \in Filenames,
           NEW l \in Adding(f, d, n, i),
           NEW w \in WrInode(WithNlink(l[1], i, Nlink(l[1], i) + 1), i),
           NEW h, h = Setftim(w[1], i)
    PROVE  End(e, h)
<1>. DEFINE g == l[1]  m == Nlink(g, i) + 1  new == Renumbered(g.node[i], m)
<1>1. f \in Filesys /\ Sound(f, 0) /\ Named(f, Zero) /\ d \in f.here
  BY Held DEF Mid, Good, Sound
<1>2. Sound(g, 0) /\ Adds(f, g, i) /\ Same(f, g)
  BY <1>1, AddingAdds
<1>. HIDE DEF g
<1>3. g \in Filesys
  BY <1>2 DEF Sound
<1>4. /\ g.node[i] \in Nodes /\ g.node[i].nlink \in Nat /\ m \in Nat
      /\ m = g.node[i].nlink + 1 /\ g.node \in [Inodes -> Nodes]
      /\ g.c_dirty \in [Inodes -> BOOLEAN]
  BY <1>3, Fields, NodeFields DEF Nlink
<1>5. Rewritten(g, h, i, new)
  BY <1>3, <1>4, WrittenAndStamped DEF g
<1>. HIDE DEF m
<1>6. new \in Nodes /\ new.mode = g.node[i].mode /\ new.nlink = m
  BY <1>4, RenumberedNode
<1>. HIDE DEF new
<1>7. g.node = f.node /\ g.c_refs = f.c_refs /\ g.here = f.here /\ g.spoiled = f.spoiled
  BY <1>2 DEF Same
<1>8. f.c_refs[i] > 0 /\ i \in f.here /\ f.node[i].mode # "none"
  BY Held
<1>9. \A j \in Inodes : h.node[j] = IF j = i THEN new ELSE f.node[j]
  BY <1>4, <1>5, <1>7 DEF Rewritten
<1>10. Placed(h) /\ Clean(h)
  <2>1. \A j \in Inodes : j # i => h.c_dirty[j] = g.c_dirty[j] /\ h.disk[j] = g.disk[j]
    BY <1>4, <1>5 DEF Rewritten
  <2>2. h.c_dirty[i] /\ h.here = f.here /\ h.c_refs = f.c_refs /\ h.spoiled = f.spoiled
    BY <1>5, <1>7 DEF Rewritten
  <2>. QED BY <1>2, <1>7, <1>8, <1>9, <2>1, <2>2 DEF Sound, Placed, Clean
<1>11. h.dir = g.dir /\ h.c_refs = f.c_refs /\ h.spoiled = f.spoiled
       /\ h.s_tinode = g.s_tinode /\ h.wasted = g.wasted /\ h \in Filesys
  BY <1>5, <1>7 DEF Rewritten
<1>12. Entered(h)
  BY <1>2, <1>11 DEF Sound, Entered
<1>13. Tallied(h, 0)
  <2>1. Available(h) = Available(g)
    BY <1>6, <1>7, <1>8, <1>9, <1>11 DEF Available
  <2>. QED BY <1>2, <1>7, <1>11, <2>1 DEF Sound, Tallied
<1>14. Named(h, Zero)
  <2>. SUFFICES ASSUME NEW j \in Inodes \ h.spoiled
                PROVE  /\ Cardinality(NamesOf(h, j)) <= h.node[j].nlink + Zero[j]
                       /\ h.node[j].mode = "none" => NamesOf(h, j) = {}
    BY DEF Named
  <2>1. /\ Cardinality(NamesOf(f, j)) <= f.node[j].nlink + Zero[j]
        /\ f.node[j].mode = "none" => NamesOf(f, j) = {}
    BY <1>1, <1>11 DEF Named
  <2>2. NamesOf(h, j) = NamesOf(g, j)
    BY <1>11, CalmNames
  <2>3. Cardinality(NamesOf(h, j)) \in Nat /\ Cardinality(NamesOf(f, j)) \in Nat
    BY Finite
  <2>4. f.node[j].nlink \in Nat /\ Zero[j] = 0
    BY <1>1, Fields, NodeFields DEF Zero
  <2>5. CASE j = i
    <3>1. Cardinality(NamesOf(h, i)) <= Cardinality(NamesOf(f, i)) + 1
      BY <1>2, <2>2, <2>5 DEF Adds, One
    <3>2. h.node[i].nlink = f.node[i].nlink + 1 /\ h.node[i].mode # "none"
      BY <1>4, <1>6, <1>7, <1>8, <1>9
    <3>. QED BY <2>1, <2>3, <2>4, <2>5, <3>1, <3>2
  <2>6. CASE j # i
    <3>1. NamesOf(h, j) \subseteq NamesOf(f, j)
      BY <1>2, <2>2, <2>6 DEF Adds
    <3>2. Cardinality(NamesOf(h, j)) <= Cardinality(NamesOf(f, j))
      BY <3>1, FewerNames
    <3>3. h.node[j] = f.node[j]
      BY <1>9, <2>6
    <3>4. Cardinality(NamesOf(h, j)) <= h.node[j].nlink + Zero[j]
      BY <2>1, <2>3, <2>4, <3>2, <3>3
    <3>. QED BY <2>1, <3>1, <3>3, <3>4
  <2>. QED BY <2>5, <2>6
<1>15. \A j \in Inodes : h.node[j].mode = f.node[j].mode
  BY <1>6, <1>7, <1>9
<1>16. Kept(e, h)
  BY <1>15, ModesKept
<1>. QED BY <1>10, <1>11, <1>12, <1>13, <1>14, <1>16 DEF End, Good

(* ch_link did not write the entry out.                                    *)
LEMMA UnlinkedNameEnd ==
    ASSUME NEW e \in Filesys, NEW f, NEW own \in Bags, Mid(e, f, own, 0),
           NEW d \in Inodes, own[d] > 0, NEW i \in Inodes, NEW n \in Filenames,
           NEW l \in Adding(f, d, n, i), NEW h, h = Spoil(l[1], {i})
    PROVE  End(e, h)
<1>1. Sound(f, 0) /\ d \in f.here
  BY Held DEF Mid, Good, Sound
<1>2. Sound(l[1], 0) /\ Adds(f, l[1], i) /\ Same(f, l[1])
  BY <1>1, AddingAdds
<1>3. \A j \in Inodes \ {i} : NamesOf(l[1], j) \subseteq NamesOf(f, j)
  BY <1>2 DEF Adds
<1>4. Mid(e, h, own, 0)
  BY <1>2, <1>3, GivenUp
<1>. QED BY <1>4, MidEnd

LEMMA StillOwned ==
    ASSUME NEW own \in Bags, NEW i \in Inodes, own[i] > 0,
           NEW j \in Inodes \cup {0}, NEW k \in Inodes \cup {0}
    PROVE  Plus(Plus(own, j), k)[i] > 0
<1>. DEFINE a == Plus(own, j)
<1>1. own[i] \in Nat /\ a \in Bags /\ a[i] = IF i = j THEN own[i] + 1 ELSE own[i]
  BY BagOps DEF Bags
<1>. HIDE DEF a
<1>2. Plus(a, k)[i] = IF i = k THEN a[i] + 1 ELSE a[i]
  BY <1>1, BagOps
<1>. QED BY <1>1, <1>2 DEF a

(* The new name, once the file has been found and referenced.              *)
LEMMA NewNameEnd ==
    ASSUME Good(fs, 0), NEW r, Mid(fs, r[1], Plus(Zero, r[2]), 0), r[2] \in Inodes,
           NEW d \in Inodes, MayStart(fs, d), NEW q \in Paths, NEW slash,
           NEW n \in Namei(r[1], d, q),
           IF n[3] # 0 \/ n[2] = 0
           THEN fs' \in UNION {DropBoth(g, n[2], r[2]) : g \in Drop(n[1], n[3])}
           ELSE \E l \in Adding(n[1], n[2], Filename(q, slash), r[2]) :
             IF ~l[2] THEN fs' \in DropBoth(Spoil(l[1], {r[2]}), n[2], r[2])
             ELSE \E w \in WrInode(WithNlink(l[1], r[2], Nlink(l[1], r[2]) + 1), r[2]) :
                    fs' \in DropBoth(Setftim(w[1], r[2]), n[2], r[2])
    PROVE  End(fs, fs')
<1>. DEFINE one == Plus(Zero, r[2])  own == Own(one, n)
<1>1. fs \in Filesys /\ one \in Bags /\ one[r[2]] > 0
  BY AtRest, ZeroBag
<1>2. Walked(fs, one, n)
  BY <1>1, NameiWalked
<1>. HIDE DEF one
<1>3. /\ n[2] \in Inodes \cup {0} /\ n[3] \in Inodes \cup {0}
      /\ Mid(fs, n[1], own, 0) /\ own \in Bags
      /\ n[2] # 0 => own[n[2]] > 0
  BY <1>1, <1>2, OwnTwo DEF Walked, Own
<1>4. own[r[2]] > 0
  BY <1>1, <1>3, StillOwned DEF Own
<1>. HIDE DEF own
<1>5. CASE n[3] # 0 \/ n[2] = 0
  <2>1. PICK g \in Drop(n[1], n[3]) : fs' \in DropBoth(g, n[2], r[2])
    BY <1>5
  <2>2. End(fs, n[1])
    BY <1>1, <1>3, MidEnd
  <2>3. End(fs, g)
    BY <1>1, <1>3, <2>1, <2>2, DropEnd
  <2>. QED BY <1>1, <1>3, <2>1, <2>3, DropBothEnd
<1>6. CASE ~(n[3] # 0 \/ n[2] = 0)
  <2>. DEFINE name == Filename(q, slash)
  <2>1. PICK l \in Adding(n[1], n[2], name, r[2]) :
          IF ~l[2] THEN fs' \in DropBoth(Spoil(l[1], {r[2]}), n[2], r[2])
          ELSE \E w \in WrInode(WithNlink(l[1], r[2], Nlink(l[1], r[2]) + 1), r[2]) :
                 fs' \in DropBoth(Setftim(w[1], r[2]), n[2], r[2])
    BY <1>6
  <2>2. name \in Filenames /\ n[2] \in Inodes /\ own[n[2]] > 0
    BY <1>3, <1>6, FilenameType
  <2>. HIDE DEF name
  <2>3. CASE ~l[2]
    <3>1. End(fs, Spoil(l[1], {r[2]}))
      BY <1>1, <1>3, <2>1, <2>2, UnlinkedNameEnd
    <3>2. fs' \in DropBoth(Spoil(l[1], {r[2]}), n[2], r[2])
      BY <2>1, <2>3
    <3>. DEFINE h == Spoil(l[1], {r[2]})
    <3>. HIDE DEF h
    <3>. QED BY <1>1, <2>2, <3>1, <3>2, DropBothEnd DEF h
  <2>4. CASE l[2]
    <3>1. PICK w \in WrInode(WithNlink(l[1], r[2], Nlink(l[1], r[2]) + 1), r[2]) :
            fs' \in DropBoth(Setftim(w[1], r[2]), n[2], r[2])
      BY <2>1, <2>4
    <3>2. End(fs, Setftim(w[1], r[2]))
      BY <1>1, <1>3, <1>4, <2>1, <2>2, <3>1, LinkedEnd
    <3>. QED BY <1>1, <2>2, <3>1, <3>2, DropBothEnd
  <2>. QED BY <2>3, <2>4
<1>. QED BY <1>5, <1>6

LEMMA LinkEnd ==
    ASSUME Good(fs, 0), NEW d \in Inodes, NEW p \in Paths, NEW e \in Inodes, NEW q \in Paths,
           NEW slash, Link(d, p, e, q, slash)
    PROVE  End(fs, fs')
<1>1. MayStart(fs, d) /\ MayStart(fs, e)
  BY DEF Link
<1>2. PICK r \in Look(fs, d, p) :
        IF r[2] = 0 THEN fs' = r[1]
        ELSE \E n \in Namei(r[1], e, q) :
          IF n[3] # 0 \/ n[2] = 0
          THEN fs' \in UNION {DropBoth(g, n[2], r[2]) : g \in Drop(n[1], n[3])}
          ELSE \E l \in Adding(n[1], n[2], Filename(q, slash), r[2]) :
            IF ~l[2] THEN fs' \in DropBoth(Spoil(l[1], {r[2]}), n[2], r[2])
            ELSE \E w \in WrInode(WithNlink(l[1], r[2], Nlink(l[1], r[2]) + 1), r[2]) :
                   fs' \in DropBoth(Setftim(w[1], r[2]), n[2], r[2])
  BY DEF Link, Adding
<1>3. /\ r[2] \in Inodes \cup {0} /\ Mid(fs, r[1], Plus(Zero, r[2]), 0) /\ End(fs, r[1])
  BY <1>1, <1>2, OpenEnd
<1>4. CASE r[2] = 0
  BY <1>2, <1>3, <1>4
<1>5. CASE r[2] # 0
  <2>1. PICK n \in Namei(r[1], e, q) :
          IF n[3] # 0 \/ n[2] = 0
          THEN fs' \in UNION {DropBoth(g, n[2], r[2]) : g \in Drop(n[1], n[3])}
          ELSE \E l \in Adding(n[1], n[2], Filename(q, slash), r[2]) :
            IF ~l[2] THEN fs' \in DropBoth(Spoil(l[1], {r[2]}), n[2], r[2])
            ELSE \E w \in WrInode(WithNlink(l[1], r[2], Nlink(l[1], r[2]) + 1), r[2]) :
                   fs' \in DropBoth(Setftim(w[1], r[2]), n[2], r[2])
    BY <1>2, <1>5
  <2>2. r[2] \in Inodes
    BY <1>3, <1>5
  <2>. QED BY <1>1, <1>3, <2>1, <2>2, NewNameEnd
<1>. QED BY <1>4, <1>5
----------------------------------------------------------------------------
(* What mkfs leaves is good.                                               *)
MadeRoot == [mode |-> "dir", nlink |-> 3]
MadeNodes == [i \in Inodes |-> IF i = ROOTINODE THEN MadeRoot ELSE Blank]
MadeDot == Entry(Dot, ROOTINODE)
MadeDotDot == Entry(DotDot, ROOTINODE)
MadeDirs ==
    [i \in Inodes |-> [s \in Slots |-> IF i = ROOTINODE /\ s = 1 THEN MadeDot
                                       ELSE IF i = ROOTINODE /\ s = 2 THEN MadeDotDot
                                       ELSE Unused]]
MadeList ==
    [k \in 1 .. (IF LastInode - 1 < FSFREEINODES THEN LastInode - 1 ELSE FSFREEINODES) |-> k + 1]

LEMMA MadeEntries ==
    /\ MadeRoot \in Nodes /\ MadeRoot # Blank /\ MadeRoot.nlink = 3 /\ MadeRoot.mode # "none"
    /\ MadeDot \in Entries /\ MadeDot.ino = ROOTINODE
    /\ MadeDotDot \in Entries /\ MadeDotDot.ino = ROOTINODE
    /\ Unused.name = ""
<1>1. MadeDot \in Entries /\ MadeDot.ino = ROOTINODE
  BY Ranges, DotNames, EntryFields DEF MadeDot
<1>2. MadeDotDot \in Entries /\ MadeDotDot.ino = ROOTINODE
  BY Ranges, DotNames, EntryFields DEF MadeDotDot
<1>3. MadeRoot \in Nodes /\ MadeRoot # Blank /\ MadeRoot.nlink = 3 /\ MadeRoot.mode # "none"
  BY DEF MadeRoot, Nodes, Kinds, Blank
<1>. QED BY <1>1, <1>2, <1>3 DEF Unused

LEMMA MadeListing == MadeList \in Seq(Inodes)
<1>1. LastInode \in Nat \ {0} /\ FSFREEINODES \in Nat \ {0}
  BY InodesAssumption, Zenon
<1>. DEFINE n == IF LastInode - 1 < FSFREEINODES THEN LastInode - 1 ELSE FSFREEINODES
<1>2. n \in Nat /\ n <= LastInode - 1
  BY <1>1
<1>3. MadeList = [k \in 1 .. n |-> k + 1]
  BY DEF MadeList
<1>. HIDE DEF n
<1>4. \A k \in 1 .. n : k + 1 \in Inodes
  BY <1>1, <1>2 DEF Inodes
<1>5. MadeList \in [1 .. n -> Inodes]
  BY <1>3, <1>4
<1>. QED BY <1>2, <1>5

LEMMA MadeFields ==
    /\ Made \in Filesys
    /\ Made.node = MadeNodes /\ Made.disk = MadeNodes /\ Made.here = {ROOTINODE}
    /\ Made.c_refs = [i \in Inodes |-> IF i = ROOTINODE THEN 1 ELSE 0]
    /\ Made.c_dirty = [i \in Inodes |-> FALSE]
    /\ Made.dir = MadeDirs /\ Made.s_tinode = LastInode - 1
    /\ Made.spoiled = {} /\ Made.wasted = 0
<1>1. Made = [node |-> MadeNodes, disk |-> MadeNodes, here |-> {ROOTINODE},
              c_refs |-> [i \in Inodes |-> IF i = ROOTINODE THEN 1 ELSE 0],
              c_dirty |-> [i \in Inodes |-> FALSE],
              dir |-> MadeDirs, s_inode |-> MadeList, s_tinode |-> LastInode - 1,
              condemned |-> FALSE, spoiled |-> {}, wasted |-> 0]
  BY Zenon DEF Made, MadeNodes, MadeRoot, MadeDirs, MadeDot, MadeDotDot, Dot, DotDot, MadeList
<1>2. MadeNodes \in [Inodes -> Nodes]
  BY MadeEntries, BlankNode DEF MadeNodes
<1>3. MadeDirs \in [Inodes -> [Slots -> Entries]]
  BY MadeEntries, UnusedEntry DEF MadeDirs
<1>4. LastInode - 1 \in Nat
  <2>1. LastInode \in Nat \ {0}
    BY InodesAssumption, Zenon
  <2>. QED BY <2>1
<1>5. /\ [i \in Inodes |-> IF i = ROOTINODE THEN 1 ELSE 0] \in [Inodes -> Nat]
      /\ [i \in Inodes |-> FALSE] \in [Inodes -> BOOLEAN]
      /\ {ROOTINODE} \subseteq Inodes
  BY Ranges
<1>. QED BY <1>1, <1>2, <1>3, <1>4, <1>5, MadeListing DEF Filesys

LEMMA MadeAvailable == LastInode - 1 = Cardinality(Available(Made))
<1>0. LastInode \in Nat \ {0}
  BY InodesAssumption, Zenon
<1>1. Available(Made) = Inodes \ {ROOTINODE}
  <2>1. \A i \in Inodes : /\ Made.node[i] = IF i = ROOTINODE THEN MadeRoot ELSE Blank
                          /\ Made.c_refs[i] = IF i = ROOTINODE THEN 1 ELSE 0
    BY MadeFields DEF MadeNodes
  <2>. QED BY <2>1, MadeEntries DEF Available
<1>2. LastInode \in Int /\ 1 \in Int /\ ~(1 > LastInode) /\ LastInode - 1 + 1 = LastInode
  BY <1>0
<1>3. IsFiniteSet(Inodes) /\ Cardinality(Inodes) = LastInode
  BY <1>2, FS_Interval DEF Inodes
<1>4. Cardinality(Inodes \ {ROOTINODE}) = Cardinality(Inodes) - 1
  BY <1>3, Ranges, FS_RemoveElement
<1>. QED BY <1>1, <1>3, <1>4

LEMMA MadeNames ==
    /\ \A i \in Inodes : i # ROOTINODE => NamesOf(Made, i) = {}
    /\ Cardinality(NamesOf(Made, ROOTINODE)) <= 3
<1>1. \A d \in Inodes, s \in Slots :
        Made.dir[d][s] = IF d = ROOTINODE /\ s = 1 THEN MadeDot
                         ELSE IF d = ROOTINODE /\ s = 2 THEN MadeDotDot ELSE Unused
  BY MadeFields DEF MadeDirs
<1>2. \A d \in Inodes, s \in Slots :
        Made.dir[d][s].name # "" => /\ Made.dir[d][s].ino = ROOTINODE
                                    /\ d = ROOTINODE /\ s \in {1, 2}
  BY <1>1, MadeEntries
<1>3. \A i \in Inodes : i # ROOTINODE => NamesOf(Made, i) = {}
  BY <1>2 DEF NamesOf
<1>4. NamesOf(Made, ROOTINODE) \subseteq {<<ROOTINODE, 1>>, <<ROOTINODE, 2>>}
  <2>. SUFFICES ASSUME NEW x \in NamesOf(Made, ROOTINODE)
                PROVE  x = <<ROOTINODE, 1>> \/ x = <<ROOTINODE, 2>>
    OBVIOUS
  <2>1. x \in Inodes \X Slots /\ Made.dir[x[1]][x[2]].name # ""
    BY DEF NamesOf
  <2>2. x[1] \in Inodes /\ x[2] \in Slots /\ x = <<x[1], x[2]>>
    BY <2>1, Places
  <2>3. x[1] = ROOTINODE /\ x[2] \in {1, 2}
    BY <1>2, <2>1, <2>2
  <2>. QED BY <2>2, <2>3
<1>. DEFINE one == {<<ROOTINODE, 1>>}  two == one \cup {<<ROOTINODE, 2>>}
<1>5. IsFiniteSet(one) /\ Cardinality(one) = 1
  BY FS_Singleton
<1>6. IsFiniteSet(two) /\ Cardinality(two) <= 2
  <2>. HIDE DEF one
  <2>. QED BY <1>5, FS_AddElement
<1>7. NamesOf(Made, ROOTINODE) \in SUBSET two
  BY <1>4
<1>. HIDE DEF two
<1>8. Cardinality(NamesOf(Made, ROOTINODE)) <= Cardinality(two) /\ Cardinality(two) \in Nat
  BY <1>6, <1>7, FS_Subset, FS_CardinalityType
<1>9. Cardinality(NamesOf(Made, ROOTINODE)) \in Nat
  BY Finite
<1>. QED BY <1>3, <1>6, <1>8, <1>9

LEMMA MadeGood == Good(Made, 0)
<1>1. Made.node \in [Inodes -> Nodes] /\ Made \in Filesys
  BY MadeFields, Fields
<1>2. Placed(Made) /\ Clean(Made)
  BY MadeFields DEF Placed, Clean
<1>3. Entered(Made)
  <2>1. \A d \in Inodes, s \in Slots :
          Made.dir[d][s] \in {MadeDot, MadeDotDot, Unused}
    BY MadeFields DEF MadeDirs
  <2>2. ROOTINODE # 0
    BY Ranges
  <2>. QED BY <2>1, <2>2, MadeEntries DEF Entered
<1>4. Named(Made, Zero)
  <2>. SUFFICES ASSUME NEW j \in Inodes \ Made.spoiled
                PROVE  /\ Cardinality(NamesOf(Made, j)) <= Made.node[j].nlink + Zero[j]
                       /\ Made.node[j].mode = "none" => NamesOf(Made, j) = {}
    BY DEF Named
  <2>1. /\ Zero[j] = 0 /\ Made.node[j] = IF j = ROOTINODE THEN MadeRoot ELSE Blank
    BY MadeFields DEF Zero, MadeNodes
  <2>2. CASE j = ROOTINODE
    <3>1. Made.node[j].nlink = 3 /\ Made.node[j].mode # "none"
      BY <2>1, <2>2, MadeEntries
    <3>. QED BY <2>1, <2>2, <3>1, MadeNames
  <2>3. CASE j # ROOTINODE
    <3>1. NamesOf(Made, j) = {}
      BY <2>3, MadeNames
    <3>2. Cardinality(NamesOf(Made, j)) = 0 /\ Made.node[j].nlink = 0
      BY <2>1, <2>3, <3>1, FS_EmptySet, BlankNode
    <3>. QED BY <2>1, <3>1, <3>2
  <2>. QED BY <2>2, <2>3
<1>5. Tallied(Made, 0)
  <2>1. LastInode \in Nat
    BY InodesAssumption, Zenon
  <2>2. LastInode - 1 + 0 + 0 = LastInode - 1
    BY <2>1
  <2>. QED BY <2>2, MadeFields, MadeAvailable DEF Tallied
<1>. QED BY <1>1, <1>2, <1>3, <1>4, <1>5 DEF Good
----------------------------------------------------------------------------
LEMMA NextEnd ==
    ASSUME Good(fs, 0), Next
    PROVE  End(fs, fs')
<1>1. ASSUME NEW d \in Inodes, NEW p \in Paths, Open(d, p)
      PROVE  End(fs, fs')
  <2>1. PICK r \in Look(fs, d, p) : fs' = r[1]
    BY <1>1 DEF Open
  <2>. QED BY <1>1, <2>1, OpenEnd DEF Open
<1>2. ASSUME NEW d \in Inodes, NEW p \in Paths, NEW slash \in Slashes, Creat(d, p, slash)
      PROVE  End(fs, fs')
  BY <1>2, CreatEnd
<1>3. ASSUME NEW d \in Inodes, NEW p \in Paths, NEW slash \in Slashes, Unlink(d, p, slash)
      PROVE  End(fs, fs')
  BY <1>3, UnlinkEnd
<1>4. ASSUME NEW d \in Inodes, NEW p \in Paths, NEW slash \in Slashes,
             NEW mode \in {"reg", "dir"}, Mknod(d, p, slash, mode)
      PROVE  End(fs, fs')
  BY <1>4, RegDir, MknodEnd
<1>5. ASSUME NEW d \in Inodes, NEW p \in Paths, NEW e \in Inodes, NEW q \in Paths,
             NEW slash \in Slashes, Link(d, p, e, q, slash)
      PROVE  End(fs, fs')
  BY <1>5, LinkEnd
<1>6. ASSUME NEW i \in Inodes, Hold(i) \/ Release(i) \/ Touch(i)
      PROVE  End(fs, fs')
  BY <1>6, HoldEnd, ReleaseEnd, TouchEnd
<1>. QED BY <1>1, <1>2, <1>3, <1>4, <1>5, <1>6, PipeEnd, SyncEnd DEF Next

(* What holds between calls.  Bundled, it is inductive: what a name leads  *)
(* to, where a copy is saved and how many inodes are free depend on each   *)
(* other through i_deref, i_open and i_alloc.                              *)
THEOREM GoodAlways == Spec => []Good(fs, 0)
<1>1. Init => Good(fs, 0)
  BY MadeGood DEF Init
<1>2. Good(fs, 0) /\ [Next]_fs => Good(fs, 0)'
  <2>. SUFFICES ASSUME Good(fs, 0), [Next]_fs PROVE Good(fs', 0)
    OBVIOUS
  <2>1. CASE Next
    BY <2>1, NextEnd DEF End
  <2>2. CASE UNCHANGED fs
    BY <2>2
  <2>. QED BY <2>1, <2>2
<1>. QED BY <1>1, <1>2, PTL DEF Spec

LEMMA NamedHold ==
    ASSUME Good(fs, 0)
    PROVE  NamesHold
<1>1. \A i \in Inodes : fs.node[i].nlink + Zero[i] = fs.node[i].nlink
  BY AtRest, Fields, NodeFields DEF Zero
<1>. QED BY <1>1 DEF NamesHold, Good, Named

LEMMA TalliedCount ==
    ASSUME Good(fs, 0)
    PROVE  InodeCount
<1>1. fs.s_tinode + fs.wasted + 0 = fs.s_tinode + fs.wasted
  BY AtRest, Fields
<1>. QED BY <1>1 DEF InodeCount, Good, Tallied

(* The file system keeps the shape that its declarations give it.          *)
THEOREM TypeAlways == Spec => []TypeOK
<1>1. Good(fs, 0) => TypeOK
  BY DEF Good, TypeOK
<1>. QED BY <1>1, GoodAlways, PTL

(* However calls fail half way, i_nlink never falls short of the names     *)
(* that lead to an inode, and none leads to one that is not in use, but    *)
(* for inodes that one of the named slips has spoiled.                     *)
THEOREM NamesAlwaysHold == Spec => []NamesHold
<1>1. Good(fs, 0) => NamesHold
  BY NamedHold
<1>. QED BY <1>1, GoodAlways, PTL

(* What i_sync and the table's replacement pass over as clean is on the    *)
(* disk.                                                                   *)
THEOREM CleanAlwaysSaved == Spec => []CleanSaved
<1>1. Good(fs, 0) => CleanSaved
  BY DEF Good, Clean, CleanSaved
<1>. QED BY <1>1, GoodAlways, PTL

(* s_tinode is right, up to the numbers that i_alloc lost.                 *)
THEOREM InodesAlwaysCounted == Spec => []InodeCount
<1>1. Good(fs, 0) => InodeCount
  BY TalliedCount
<1>. QED BY <1>1, GoodAlways, PTL

(* An inode that stays referenced over a call is not made into another,    *)
(* whatever i_alloc's list holds and whichever entry the table gives away. *)
THEOREM HeldAlwaysKept == Spec => KeptWhileHeld
<1>. DEFINE Keeps == \A i \in Inodes :
         fs.c_refs[i] > 0 /\ fs'.c_refs[i] > 0 /\ fs.node[i].mode # "none"
           => fs'.node[i].mode = fs.node[i].mode
<1>1. Good(fs, 0) /\ [Next]_fs => [Keeps]_fs
  BY NextEnd DEF End, Kept
<1>. QED BY <1>1, GoodAlways, PTL DEF Spec, KeptWhileHeld
=============================================================================
