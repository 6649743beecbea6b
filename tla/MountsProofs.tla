---------------------------- MODULE MountsProofs ----------------------------
(***************************************************************************)
(* Proofs about Mounts, for any devices, slots, entries, names and trees.  *)
(* Good holds between calls.  Inside a call Mid says of a table t that it  *)
(* has what there was before the call and the references of the call's     *)
(* own, which are a bag: every function of FS.C has a lemma on what it     *)
(* adds to the bag or takes from it.                                       *)
(***************************************************************************)
EXTENDS Mounts, Integers, FiniteSetTheorems, TLAPS

Tables == [Entries -> Entry]
Opt == Entries \cup {NULL}
Bags == [Entries -> Nat]
One(g, e) == IF g = e THEN 1 ELSE 0
Plus(own, e) == [g \in Entries |-> own[g] + One(g, e)]
Minus(own, e) == [g \in Entries |-> own[g] - One(g, e)]

OnSlot(s) == Taken(s) /\ fs_tab[s].s_mntpt # NULL

\* What is in use is an inode of a listed device; no inode has two entries.
Entered(t) == \A e \in Entries : t[e].c_refs > 0 => t[e].ino # NULL /\ Listed(t[e].ino[1])
Unique(t) == \A e, f \in Entries : t[e].ino # NULL /\ t[e].ino = t[f].ino => e = f
Fit(t) == t \in Tables /\ Entered(t) /\ Unique(t)

Mid(t, own) ==
    /\ Fit(t) /\ own \in Bags
    /\ \A e \in Entries : /\ t[e].c_refs = i_tab[e].c_refs + own[e]
                          /\ i_tab[e].c_refs > 0 => t[e].ino = i_tab[e].ino

Typed ==
    /\ i_tab \in Tables
    /\ fs_tab \in [Slots -> Slot]
    /\ at \in [Holders -> Opt]
    /\ at[Keeper] # NULL
    /\ lost \in Bags
Exact ==
    \A e \in Entries :
        i_tab[e].c_refs = Cardinality(HoldersOf(e)) + Cardinality(MountsOn(e)) + lost[e]
Uncovered == \A h \in Holders : at[h] # NULL => MountsOn(at[h]) = {}
NoRoots == \A s \in Slots : OnSlot(s) => i_tab[fs_tab[s].s_mntpt].ino[2] # ROOTINODE
SlotsApart ==
    \A r, s \in Slots : Taken(r) /\ Taken(s) /\ fs_tab[r].s_dev = fs_tab[s].s_dev => r = s
RootSlot == \E s \in Slots : Taken(s) /\ ~OnSlot(s) /\ fs_tab[s].s_dev = ROOTDEV
Hangs ==
    \A D \in SUBSET MountedDevs : D # {} => \E d \in D : \E c \in Devs \ D : StandsOn(d, c)

\* What one finds coming to i, where n is looked up, and both: as Namespace
\* has them, in terms of the slots.
Covers(s, i) == OnSlot(s) /\ i_tab[fs_tab[s].s_mntpt].ino = i
RootOf(s, i) == OnSlot(s) /\ Root(fs_tab[s].s_dev) = i
Leads(i, j) ==
    \/ (\A s \in Slots : ~Covers(s, i)) /\ j = i
    \/ \E s \in Slots : Covers(s, i) /\ RootOf(s, j)
LooksIn(i, n, f) ==
    \/ n \in Upward /\ \E s \in Slots : RootOf(s, i) /\ Covers(s, f)
    \/ (n \notin Upward \/ \A s \in Slots : ~RootOf(s, i)) /\ f = i
Finds(i, n, j) ==
    /\ i \in Directories
    /\ \E f \in Inodes : LooksIn(i, n, f) /\ Child[f][n] # NULL /\ Leads(Child[f][n], j)

Good ==
    /\ Typed /\ Fit(i_tab)
    /\ Exact /\ Uncovered /\ NoRoots /\ SlotsApart /\ RootSlot /\ Hangs

----------------------------------------------------------------------------
LEMMA InodesArePairs ==
    /\ \A i \in Inodes : i[1] \in Devs /\ i[2] \in Nums /\ i = <<i[1], i[2]>> /\ i # NULL
    /\ \A d \in Devs : Root(d) \in Inodes /\ Root(d)[1] = d /\ Root(d)[2] = ROOTINODE
BY MountsAssumption DEF Inodes, Root

\* The bag of a call.
LEMMA BagSums ==
    ASSUME NEW own \in Bags, NEW e \in Entries, NEW f \in Opt
    PROVE  /\ Plus(own, f) \in Bags /\ Plus(own, e) \in Bags
           /\ Plus(own, NULL) = own
           /\ Minus(Plus(own, e), e) = own
           /\ Minus(Plus(Plus(own, e), f), e) = Plus(own, f)
           /\ Minus(Plus(Plus(own, f), e), e) = Plus(own, f)
           /\ own[e] > 0 => Minus(own, e) \in Bags /\ Plus(Minus(own, e), e) = own
           /\ Plus(own, e)[e] > 0 /\ Plus(Plus(own, e), f)[e] > 0
           /\ own[e] > 0 => Plus(own, f)[e] > 0
<1>1. \A g \in Entries : own[g] \in Nat /\ One(g, e) \in 0 .. 1 /\ One(g, f) \in 0 .. 1 /\ One(e, e) = 1
  BY DEF Bags, One
<1>2. own = [g \in Entries |-> own[g]]
  BY DEF Bags
<1>3. Plus(own, f) \in Bags /\ Plus(own, e) \in Bags
  BY <1>1 DEF Bags, Plus
<1>4. Plus(own, NULL) = own
  BY <1>1, <1>2, MountsAssumption DEF Plus, One
<1>5. Minus(Plus(own, e), e) = own
  BY <1>1, <1>2 DEF Plus, Minus
<1>6. Minus(Plus(Plus(own, e), f), e) = Plus(own, f)
  BY <1>1 DEF Plus, Minus
<1>7. Minus(Plus(Plus(own, f), e), e) = Plus(own, f)
  BY <1>1 DEF Plus, Minus
<1>8. ASSUME own[e] > 0 PROVE Minus(own, e) \in Bags /\ Plus(Minus(own, e), e) = own
  <2>1. \A g \in Entries : own[g] - One(g, e) \in Nat
    BY <1>1, <1>8 DEF One
  <2>. QED BY <1>1, <1>2, <2>1 DEF Plus, Minus, Bags
<1>9. Plus(own, e)[e] > 0 /\ Plus(Plus(own, e), f)[e] > 0 /\ (own[e] > 0 => Plus(own, f)[e] > 0)
  BY <1>1 DEF Plus
<1>. QED BY <1>3, <1>4, <1>5, <1>6, <1>7, <1>8, <1>9

LEMMA CountsFinite ==
    ASSUME NEW e
    PROVE  /\ IsFiniteSet(Slots)
           /\ IsFiniteSet(HoldersOf(e)) /\ IsFiniteSet(MountsOn(e))
           /\ Cardinality(HoldersOf(e)) \in Nat /\ Cardinality(MountsOn(e)) \in Nat
           /\ HoldersOf(e) # {} => Cardinality(HoldersOf(e)) > 0
           /\ MountsOn(e) # {} => Cardinality(MountsOn(e)) > 0
           /\ HoldersOf(e) = {} => Cardinality(HoldersOf(e)) = 0
           /\ MountsOn(e) = {} => Cardinality(MountsOn(e)) = 0
<1>1. IsFiniteSet(Slots)
  BY FS_Interval, MountsAssumption DEF Slots
<1>2. HoldersOf(e) \in SUBSET Holders /\ MountsOn(e) \in SUBSET Slots
  BY DEF HoldersOf, MountsOn
<1>3. IsFiniteSet(HoldersOf(e)) /\ IsFiniteSet(MountsOn(e))
  BY <1>1, <1>2, FS_Subset, MountsAssumption
<1>. QED BY <1>1, <1>3, FS_CardinalityType, FS_EmptySet

\* Between calls, what is held or mounted on is in use.
LEMMA InUseWhenHeld ==
    ASSUME Good
    PROVE  /\ \A h \in Holders : at[h] # NULL => at[h] \in Entries /\ i_tab[at[h]].c_refs > 0
           /\ \A s \in Slots : OnSlot(s) => /\ fs_tab[s].s_mntpt \in Entries
                                            /\ i_tab[fs_tab[s].s_mntpt].c_refs > 0
           /\ \A e \in Entries : i_tab[e].c_refs = 0 => HoldersOf(e) = {} /\ MountsOn(e) = {}
<1>1. ASSUME NEW e \in Entries PROVE i_tab[e].c_refs = 0 => HoldersOf(e) = {} /\ MountsOn(e) = {}
  <2>1. lost[e] \in Nat
    BY DEF Good, Typed, Bags
  <2>2. i_tab[e].c_refs = Cardinality(HoldersOf(e)) + Cardinality(MountsOn(e)) + lost[e]
    BY DEF Good, Exact
  <2>3. /\ Cardinality(HoldersOf(e)) \in Nat /\ Cardinality(MountsOn(e)) \in Nat
        /\ HoldersOf(e) # {} => Cardinality(HoldersOf(e)) > 0
        /\ MountsOn(e) # {} => Cardinality(MountsOn(e)) > 0
    BY CountsFinite
  <2>4. \A a, b, c, r \in Nat : r = a + b + c /\ r = 0 => ~(a > 0) /\ ~(b > 0)
    OBVIOUS
  <2>5. ASSUME i_tab[e].c_refs = 0
        PROVE  ~(Cardinality(HoldersOf(e)) > 0) /\ ~(Cardinality(MountsOn(e)) > 0)
    BY <2>1, <2>2, <2>3, <2>4, <2>5
  <2>. QED BY <2>3, <2>5
<1>2. ASSUME NEW h \in Holders, at[h] # NULL PROVE at[h] \in Entries /\ i_tab[at[h]].c_refs > 0
  <2>1. at[h] \in Entries /\ h \in HoldersOf(at[h])
    BY <1>2 DEF Good, Typed, Opt, HoldersOf
  <2>2. i_tab[at[h]].c_refs \in Nat
    BY <2>1 DEF Good, Typed, Tables, Entry
  <2>. QED BY <1>1, <2>1, <2>2
<1>3. ASSUME NEW s \in Slots, OnSlot(s)
      PROVE  fs_tab[s].s_mntpt \in Entries /\ i_tab[fs_tab[s].s_mntpt].c_refs > 0
  <2>1. fs_tab[s].s_mntpt \in Entries /\ s \in MountsOn(fs_tab[s].s_mntpt)
    BY <1>3 DEF Good, Typed, Slot, OnSlot, MountsOn
  <2>2. i_tab[fs_tab[s].s_mntpt].c_refs \in Nat
    BY <2>1 DEF Good, Typed, Tables, Entry
  <2>. QED BY <1>1, <2>1, <2>2
<1>. QED BY <1>1, <1>2, <1>3

\* What a reference, its return and the search of the table do to the bag.
LEMMA RefMid ==
    ASSUME Good, NEW t, NEW own, Mid(t, own), NEW e \in Entries, NEW u \in IRef(t, e),
           t[e].ino # NULL, Listed(t[e].ino[1])
    PROVE  Mid(u, Plus(own, e)) /\ u[e].ino = t[e].ino
<1>1. u = [t EXCEPT ![e].c_refs = @ + 1]
  BY DEF IRef
<1>2. t \in Tables /\ own \in Bags
  BY DEF Mid, Fit
<1>3. \A g \in Entries : u[g].ino = t[g].ino /\ u[g].c_refs = t[g].c_refs + One(g, e)
  BY <1>1, <1>2 DEF Tables, Entry, One
<1>4. u \in Tables
  BY <1>1, <1>2 DEF Tables, Entry
<1>5. \A g \in Entries : /\ t[g].c_refs \in Nat /\ i_tab[g].c_refs \in Nat
                          /\ own[g] \in Nat /\ One(g, e) \in Nat
  BY <1>2 DEF Tables, Entry, Bags, One, Good, Typed
<1>6. Entered(u)
  <2>1. ASSUME NEW g \in Entries, u[g].c_refs > 0 PROVE g = e \/ t[g].c_refs > 0
    BY <1>3, <1>5, <2>1 DEF One
  <2>2. Entered(t)
    BY DEF Mid, Fit
  <2>. QED BY <1>3, <2>1, <2>2 DEF Entered
<1>7. Unique(u)
  BY <1>3 DEF Mid, Fit, Unique
<1>8. \A g \in Entries : u[g].c_refs = i_tab[g].c_refs + Plus(own, e)[g]
  BY <1>3, <1>5 DEF Mid, Plus
<1>9. \A g \in Entries : i_tab[g].c_refs > 0 => u[g].ino = i_tab[g].ino
  BY <1>3 DEF Mid
<1>. QED BY <1>2, <1>3, <1>4, <1>6, <1>7, <1>8, <1>9, BagSums DEF Mid, Fit, Opt

LEMMA DerefFit ==
    ASSUME NEW t, Fit(t), NEW e \in Entries, NEW u \in Deref(t, e)
    PROVE  /\ Fit(u) /\ t[e].c_refs > 0
           /\ \A g \in Entries : u[g].ino = t[g].ino /\ u[g].c_refs = t[g].c_refs - One(g, e)
<1>1. t[e].c_refs # 0 /\ u = [t EXCEPT ![e].c_refs = @ - 1]
  BY DEF Deref
<1>0. t[e].c_refs \in Nat
  BY DEF Fit, Tables, Entry
<1>2. t \in Tables /\ \A g \in Entries : t[g].c_refs \in Nat
  BY DEF Fit, Tables, Entry
<1>3. \A g \in Entries : u[g].ino = t[g].ino /\ u[g].c_refs = t[g].c_refs - One(g, e)
  BY <1>1, <1>2 DEF Tables, Entry, One
<1>4. t[e].c_refs - 1 \in Nat /\ t[e].c_refs > 0
  BY <1>0, <1>1
<1>5. u \in Tables
  BY <1>1, <1>2, <1>4 DEF Tables, Entry
<1>6. Entered(u)
  <2>1. \A g \in Entries : u[g].c_refs > 0 => t[g].c_refs > 0
    BY <1>2, <1>3 DEF One
  <2>. QED BY <1>3, <2>1 DEF Fit, Entered
<1>7. Unique(u)
  BY <1>3 DEF Fit, Unique
<1>. QED BY <1>3, <1>4, <1>5, <1>6, <1>7 DEF Fit

LEMMA DerefMid ==
    ASSUME Good, NEW t, NEW own, Mid(t, own), NEW e \in Entries, own[e] > 0,
           NEW u \in Deref(t, e)
    PROVE  Mid(u, Minus(own, e)) /\ \A g \in Entries : u[g].ino = t[g].ino
<1>1. /\ Fit(u)
      /\ \A g \in Entries : u[g].ino = t[g].ino /\ u[g].c_refs = t[g].c_refs - One(g, e)
  BY DerefFit DEF Mid
<1>2. \A g \in Entries : /\ t[g].c_refs \in Nat /\ i_tab[g].c_refs \in Nat
                          /\ own[g] \in Nat /\ One(g, e) \in Nat
  BY DEF Tables, Entry, Bags, One, Good, Typed, Mid, Fit
<1>3. \A g \in Entries : u[g].c_refs = i_tab[g].c_refs + Minus(own, e)[g]
  BY <1>1, <1>2 DEF Mid, Minus
<1>4. Minus(own, e) \in Bags
  BY BagSums DEF Mid, Opt
<1>. QED BY <1>1, <1>3, <1>4 DEF Mid

LEMMA OpenMid ==
    ASSUME Good, NEW t, NEW own, Mid(t, own), NEW i \in Inodes, NEW r \in IOpen(t, i)
    PROVE  /\ r[2] \in Opt /\ Mid(r[1], Plus(own, r[2]))
           /\ r[2] # NULL => r[1][r[2]].ino = i
<1>1. Listed(i[1])
  BY DEF IOpen
<1>2. i # NULL /\ own \in Bags /\ t \in Tables
  BY InodesArePairs DEF Mid, Fit
<1>3. CASE r = <<t, NULL>>
  BY <1>2, <1>3, BagSums, MountsAssumption DEF Opt
<1>4. CASE \E e \in Entries : t[e].ino = i /\ \E u \in IRef(t, e) : r = <<u, e>>
  <2>0. PICK e \in Entries : t[e].ino = i /\ \E u \in IRef(t, e) : r = <<u, e>>
    BY <1>4
  <2>1. PICK u \in IRef(t, e) : r = <<u, e>>
    BY <2>0
  <2>2. Mid(u, Plus(own, e)) /\ u[e].ino = i
    BY <1>1, <1>2, <2>0, RefMid
  <2>. QED BY <2>1, <2>2 DEF Opt
<1>5. CASE /\ \A e \in Entries : t[e].ino # i
           /\ \E e \in Idle(t) : r = <<[t EXCEPT ![e] = [ino |-> i, c_refs |-> 1]], e>>
  <2>1. PICK e \in Idle(t) : r = <<[t EXCEPT ![e] = [ino |-> i, c_refs |-> 1]], e>>
    BY <1>5
  <2>. DEFINE u == r[1]
  <2>2. e \in Entries /\ t[e].c_refs = 0 /\ r[2] = e
    BY <2>1 DEF Idle
  <2>3. u \in Tables /\ u[e].ino = i /\ u[e].c_refs = 1
    BY <1>2, <2>1, <2>2 DEF Tables, Entry
  <2>4. \A g \in Entries : g # e => u[g] = t[g]
    BY <1>2, <2>1, <2>2 DEF Tables
  <2>5. Entered(u)
    BY <1>1, <1>2, <2>3, <2>4 DEF Entered, Mid, Fit
  <2>6. Unique(u)
    BY <1>5, <2>3, <2>4 DEF Unique, Mid, Fit
  <2>7. i_tab[e].c_refs = 0 /\ own[e] = 0
    <3>1. i_tab[e].c_refs \in Nat /\ own[e] \in Nat
      BY <1>2, <2>2 DEF Good, Typed, Tables, Entry, Bags
    <3>2. t[e].c_refs = i_tab[e].c_refs + own[e]
      BY <2>2 DEF Mid
    <3>. QED BY <2>2, <3>1, <3>2
  <2>8. \A g \in Entries : own[g] \in Nat
    BY <1>2 DEF Bags
  <2>9. ASSUME NEW g \in Entries
        PROVE  /\ u[g].c_refs = i_tab[g].c_refs + Plus(own, e)[g]
               /\ i_tab[g].c_refs > 0 => u[g].ino = i_tab[g].ino
    <3>1. Plus(own, e)[g] = IF g = e THEN 1 ELSE own[g]
      BY <2>7, <2>8 DEF Plus, One
    <3>. QED BY <2>3, <2>4, <2>7, <3>1 DEF Mid
  <2>. QED BY <1>2, <2>2, <2>3, <2>5, <2>6, <2>9, BagSums DEF Mid, Fit, Opt
<1>. QED BY <1>1, <1>3, <1>4, <1>5 DEF IOpen

LEMMA SrchMid ==
    ASSUME Good, NEW t, NEW own, Mid(t, own), NEW e \in Entries, own[e] > 0,
           NEW r \in SrchMt(t, e)
    PROVE  /\ r[2] \in Opt /\ Mid(r[1], Plus(Minus(own, e), r[2]))
           /\ r[2] # NULL => MountsOn(r[2]) = {} /\ Leads(t[e].ino, r[1][r[2]].ino)
<1>1. /\ own \in Bags /\ Minus(own, e) \in Bags /\ Plus(Minus(own, e), e) = own
  BY BagSums DEF Mid, Opt
<1>2. \A s \in Slots : Covers(s, t[e].ino) <=> PointsTo(s, e)
  <2>1. ASSUME NEW s \in Slots, PointsTo(s, e) PROVE Covers(s, t[e].ino)
    BY <2>1, InUseWhenHeld, MountsAssumption DEF PointsTo, Covers, OnSlot, Mid
  <2>2. ASSUME NEW s \in Slots, Covers(s, t[e].ino) PROVE PointsTo(s, e)
    <3>1. /\ fs_tab[s].s_mntpt \in Entries
          /\ t[fs_tab[s].s_mntpt].ino = t[e].ino
      BY <2>2, InUseWhenHeld DEF Covers, Mid
    <3>2. t[e].ino # NULL
      <4>1. t[e].c_refs > 0
        BY <1>1 DEF Mid, Fit, Tables, Entry, Good, Typed, Bags
      <4>. QED BY <4>1 DEF Mid, Fit, Entered
    <3>. QED BY <2>2, <3>1, <3>2 DEF Mid, Fit, Unique, Covers, OnSlot, PointsTo
  <2>. QED BY <2>1, <2>2
<1>3. CASE \A s \in Slots : ~PointsTo(s, e)
  <2>1. r = <<t, e>>
    BY <1>3 DEF SrchMt
  <2>2. MountsOn(e) = {}
    BY <1>3 DEF MountsOn, PointsTo
  <2>. QED BY <1>1, <1>2, <1>3, <2>1, <2>2 DEF Opt, Leads
<1>4. CASE ~ \A s \in Slots : ~PointsTo(s, e)
  <2>1. PICK s \in FirstOn(e) : \E u \in Deref(t, e) : r \in IOpen(u, Root(fs_tab[s].s_dev))
    BY <1>4 DEF SrchMt
  <2>2. PICK u \in Deref(t, e) : r \in IOpen(u, Root(fs_tab[s].s_dev))
    BY <2>1
  <2>3. Mid(u, Minus(own, e))
    BY DerefMid
  <2>4. s \in Slots /\ PointsTo(s, e) /\ fs_tab[s].s_dev \in Devs
    BY <2>1 DEF FirstOn, Good, Typed, Slot
  <2>5. Root(fs_tab[s].s_dev) \in Inodes /\ Root(fs_tab[s].s_dev)[2] = ROOTINODE
    BY <2>4, InodesArePairs
  <2>6. /\ r[2] \in Opt /\ Mid(r[1], Plus(Minus(own, e), r[2]))
        /\ r[2] # NULL => r[1][r[2]].ino = Root(fs_tab[s].s_dev)
    BY <2>2, <2>3, <2>5, OpenMid
  <2>7. ASSUME r[2] # NULL PROVE Leads(t[e].ino, r[1][r[2]].ino)
    BY <1>2, <2>4, <2>6, <2>7 DEF Leads, RootOf, Covers
  <2>8. ASSUME r[2] # NULL PROVE MountsOn(r[2]) = {}
    <3>1. SUFFICES ASSUME NEW q \in Slots, Taken(q), fs_tab[q].s_mntpt = r[2] PROVE FALSE
      BY DEF MountsOn
    <3>2. OnSlot(q) /\ i_tab[r[2]].c_refs > 0 /\ r[2] \in Entries
      BY <2>8, <3>1, InUseWhenHeld DEF OnSlot
    <3>3. i_tab[r[2]].ino = Root(fs_tab[s].s_dev)
      BY <2>6, <2>8, <3>2 DEF Mid
    <3>. QED BY <2>5, <3>1, <3>2, <3>3 DEF Good, NoRoots
  <2>. QED BY <2>6, <2>7, <2>8
<1>. QED BY <1>3, <1>4

LEMMA UpMid ==
    ASSUME Good, NEW t, NEW own, Mid(t, own), NEW e \in Entries, own[e] > 0,
           NEW n \in Names, NEW w \in Up(t, e, n)
    PROVE  /\ w[2] \in Entries /\ Mid(w[1], Plus(Minus(own, e), w[2]))
           /\ LooksIn(t[e].ino, n, w[1][w[2]].ino)
<1>1. own \in Bags /\ Minus(own, e) \in Bags /\ Plus(Minus(own, e), e) = own
  BY BagSums DEF Mid, Opt
<1>2. t[e].ino \in Inodes
  <2>1. t[e].c_refs > 0
    BY <1>1 DEF Mid, Fit, Tables, Entry, Good, Typed, Bags
  <2>. QED BY <2>1 DEF Mid, Fit, Entered, Tables, Entry
<1>3. CASE t[e].ino[2] = ROOTINODE /\ t[e].ino[1] # ROOTDEV /\ n \in Upward
  <2>1. PICK s \in {s \in Slots : Findfs(s, t[e].ino[1]) /\ fs_tab[s].s_mntpt # NULL} :
          \E u \in Deref(t, e) : \E v \in IRef(u, fs_tab[s].s_mntpt) :
            w = <<v, fs_tab[s].s_mntpt>>
    BY <1>3 DEF Up
  <2>. DEFINE m == fs_tab[s].s_mntpt
  <2>2. PICK u \in Deref(t, e) : \E v \in IRef(u, m) : w = <<v, m>>
    BY <2>1
  <2>3. PICK v \in IRef(u, m) : w = <<v, m>>
    BY <2>2
  <2>4. s \in Slots /\ OnSlot(s) /\ fs_tab[s].s_dev = t[e].ino[1]
    BY <2>1 DEF Findfs, OnSlot
  <2>5. m \in Entries /\ i_tab[m].c_refs > 0 /\ i_tab[m].ino # NULL /\ Listed(i_tab[m].ino[1])
    BY <2>4, InUseWhenHeld DEF Good, Fit, Entered
  <2>6. Mid(u, Minus(own, e)) /\ u[m].ino = i_tab[m].ino
    BY <2>5, DerefMid DEF Mid
  <2>7. Mid(v, Plus(Minus(own, e), m)) /\ v[m].ino = i_tab[m].ino
    BY <2>5, <2>6, RefMid
  <2>8. Root(fs_tab[s].s_dev) = t[e].ino
    BY <1>2, <1>3, <2>4, InodesArePairs DEF Root
  <2>. QED BY <1>3, <2>3, <2>4, <2>5, <2>7, <2>8 DEF LooksIn, RootOf, Covers
<1>4. CASE ~(t[e].ino[2] = ROOTINODE /\ t[e].ino[1] # ROOTDEV /\ n \in Upward)
  <2>1. w = <<t, e>>
    BY <1>4 DEF Up
  <2>2. ASSUME n \in Upward, NEW s \in Slots, RootOf(s, t[e].ino) PROVE FALSE
    <3>1. t[e].ino[2] = ROOTINODE /\ fs_tab[s].s_dev = t[e].ino[1]
      BY <2>2, InodesArePairs DEF RootOf, Good, Typed, Slot
    <3>2. fs_tab[s].s_dev = ROOTDEV
      BY <1>4, <2>2, <3>1
    <3>. QED BY <2>2, <3>2 DEF RootOf, OnSlot, Good, SlotsApart, RootSlot
  <2>. QED BY <1>1, <2>1, <2>2 DEF LooksIn
<1>. QED BY <1>3, <1>4

LEMMA SearchMid ==
    ASSUME Good, NEW t, NEW own, Mid(t, own), NEW e \in Entries, t[e].ino \in Inodes,
           NEW n \in Names, NEW r \in Search(t, e, n)
    PROVE  /\ r[2] \in Opt /\ Mid(r[1], Plus(own, r[2]))
           /\ r[2] # NULL => /\ MountsOn(r[2]) = {}
                             /\ Child[t[e].ino][n] # NULL
                             /\ Leads(Child[t[e].ino][n], r[1][r[2]].ino)
<1>. DEFINE i == Child[t[e].ino][n]
<1>1. own \in Bags /\ (i # NULL => i \in Inodes) /\ NULL \in Opt
  BY MountsAssumption DEF Mid, Opt
<1>2. CASE i = NULL
  <2>1. r = <<t, NULL>>
    BY <1>2 DEF Search
  <2>2. Plus(own, NULL) = own
    BY <1>1, BagSums, MountsAssumption
  <2>. QED BY <1>1, <2>1, <2>2
<1>3. CASE i # NULL
  <2>1. PICK q \in IOpen(t, i) : r \in (IF q[2] = NULL THEN {q} ELSE SrchMt(q[1], q[2]))
    BY <1>3 DEF Search
  <2>2. /\ q[2] \in Opt /\ Mid(q[1], Plus(own, q[2]))
        /\ q[2] # NULL => q[1][q[2]].ino = i
    BY <1>1, <1>3, OpenMid
  <2>3. CASE q[2] = NULL
    BY <2>1, <2>2, <2>3
  <2>4. CASE q[2] # NULL
    <3>1. q[2] \in Entries /\ r \in SrchMt(q[1], q[2])
      BY <2>1, <2>2, <2>4 DEF Opt
    <3>2. Plus(own, q[2])[q[2]] > 0 /\ Minus(Plus(own, q[2]), q[2]) = own
      BY <1>1, <3>1, BagSums DEF Opt
    <3>3. /\ r[2] \in Opt /\ Mid(r[1], Plus(Minus(Plus(own, q[2]), q[2]), r[2]))
          /\ r[2] # NULL => MountsOn(r[2]) = {} /\ Leads(q[1][q[2]].ino, r[1][r[2]].ino)
      BY <2>2, <3>1, <3>2, SrchMid
    <3>. QED BY <1>3, <2>2, <2>4, <3>2, <3>3
  <2>. QED BY <2>3, <2>4
<1>. QED BY <1>2, <1>3

LEMMA LostMid ==
    ASSUME Good, NEW t, NEW own, Mid(t, own), NEW e \in Entries, own[e] > 0,
           NEW r \in Lost(t, e)
    PROVE  r[2] = NULL /\ r[2] \in Opt /\ Mid(r[1], Plus(Minus(own, e), r[2]))
<1>1. PICK u \in Deref(t, e) : r = <<u, NULL>>
  BY DEF Lost, Without
<1>2. Mid(u, Minus(own, e)) /\ Minus(own, e) \in Bags
  BY DerefMid DEF Mid
<1>. QED BY <1>1, <1>2, BagSums, MountsAssumption DEF Opt

LEMMA PastMid ==
    ASSUME Good, NEW t, NEW less \in Bags, NEW e \in Entries, Mid(t, Plus(less, e)),
           NEW n \in Names, NEW r \in Past(t, e, n)
    PROVE  /\ r[2] \in Opt /\ Mid(r[1], Plus(less, r[2])) /\ t[e].ino \in Inodes
           /\ r[2] # NULL => /\ MountsOn(r[2]) = {}
                             /\ Child[t[e].ino][n] # NULL
                             /\ Leads(Child[t[e].ino][n], r[1][r[2]].ino)
<1>1. Plus(less, e)[e] > 0 /\ Plus(less, e) \in Bags /\ Minus(Plus(less, e), e) = less
  BY BagSums DEF Opt
<1>2. t[e].ino \in Inodes
  <2>1. t[e].c_refs = i_tab[e].c_refs + Plus(less, e)[e]
    BY DEF Mid
  <2>2. i_tab[e].c_refs \in Nat /\ Plus(less, e)[e] \in Nat
    BY <1>1 DEF Good, Typed, Tables, Entry, Bags
  <2>3. t[e].c_refs > 0
    BY <1>1, <2>1, <2>2
  <2>. QED BY <2>3 DEF Mid, Fit, Entered, Tables, Entry
<1>3. CASE r \in Lost(t, e)
  BY <1>1, <1>2, <1>3, LostMid
<1>4. CASE \E q \in Search(t, e, n) : r \in Without(q, e)
  <2>1. PICK q \in Search(t, e, n) : \E v \in Deref(q[1], e) : r = <<v, q[2]>>
    BY <1>4 DEF Without
  <2>2. PICK v \in Deref(q[1], e) : r = <<v, q[2]>>
    BY <2>1
  <2>3. /\ q[2] \in Opt /\ Mid(q[1], Plus(Plus(less, e), q[2]))
        /\ q[2] # NULL => /\ MountsOn(q[2]) = {}
                          /\ Child[t[e].ino][n] # NULL
                          /\ Leads(Child[t[e].ino][n], q[1][q[2]].ino)
    BY <1>2, SearchMid
  <2>4. /\ Plus(Plus(less, e), q[2])[e] > 0
        /\ Minus(Plus(Plus(less, e), q[2]), e) = Plus(less, q[2])
    BY <2>3, BagSums
  <2>5. Mid(v, Plus(less, q[2])) /\ \A g \in Entries : v[g].ino = q[1][g].ino
    BY <2>3, <2>4, DerefMid
  <2>6. q[2] # NULL => q[2] \in Entries
    BY <2>3 DEF Opt
  <2>. QED BY <1>2, <2>2, <2>3, <2>5, <2>6
<1>5. r \in Lost(t, e) \/ \E q \in Search(t, e, n) : r \in Without(q, e)
  BY DEF Past
<1>. QED BY <1>3, <1>4, <1>5

LEMMA InsideMid ==
    ASSUME Good, NEW t, NEW own, Mid(t, own), NEW e \in Entries, own[e] > 0,
           NEW n \in Names, NEW r \in Inside(t, e, n)
    PROVE  /\ r[2] \in Opt /\ Mid(r[1], Plus(Minus(own, e), r[2]))
           /\ r[2] # NULL => MountsOn(r[2]) = {} /\ Finds(t[e].ino, n, r[1][r[2]].ino)
<1>1. CASE t[e].ino \notin Directories
  BY <1>1, LostMid DEF Inside
<1>2. CASE t[e].ino \in Directories
  <2>1. PICK w \in Up(t, e, n) : r \in Past(w[1], w[2], n)
    BY <1>2 DEF Inside
  <2>2. /\ w[2] \in Entries /\ Mid(w[1], Plus(Minus(own, e), w[2]))
        /\ LooksIn(t[e].ino, n, w[1][w[2]].ino)
    BY UpMid
  <2>3. Minus(own, e) \in Bags
    BY BagSums DEF Mid, Opt
  <2>. DEFINE f == w[1][w[2]].ino
  <2>4. /\ r[2] \in Opt /\ Mid(r[1], Plus(Minus(own, e), r[2])) /\ f \in Inodes
        /\ r[2] # NULL => /\ MountsOn(r[2]) = {}
                          /\ Child[f][n] # NULL
                          /\ Leads(Child[f][n], r[1][r[2]].ino)
    BY <2>1, <2>2, <2>3, PastMid
  <2>. HIDE DEF f
  <2>. QED BY <1>2, <2>2, <2>4 DEF Finds, f
<1>. QED BY <1>1, <1>2

\* A path from an entry that somebody holds: one reference more, to what
\* the path finds.
LEMMA NameiMid ==
    ASSUME Good, NEW t, NEW own, Mid(t, own), NEW b \in Entries,
           i_tab[b].c_refs > 0, MountsOn(b) = {},
           NEW n \in Names, NEW r \in Namei(t, b, n)
    PROVE  /\ r[2] \in Opt /\ Mid(r[1], Plus(own, r[2]))
           /\ r[2] # NULL => MountsOn(r[2]) = {} /\ Finds(i_tab[b].ino, n, r[1][r[2]].ino)
<1>1. PICK v \in UNION {IRef(u, b) : u \in IRef(t, b)} :
        \E q \in SrchMt(v, b) :
          r \in (IF q[2] = NULL THEN Lost(q[1], b)
                 ELSE UNION {Inside(u, q[2], n) : u \in Deref(q[1], b)})
  BY DEF Namei
<1>2. PICK u \in IRef(t, b) : v \in IRef(u, b)
  BY <1>1
<1>3. \A s \in Slots : ~PointsTo(s, b)
  BY DEF MountsOn, PointsTo
<1>4. SrchMt(v, b) = {<<v, b>>} /\ b # NULL
  BY <1>3, MountsAssumption DEF SrchMt
<1>5. PICK x \in Deref(v, b) : r \in Inside(x, b, n)
  BY <1>1, <1>4
<1>6. i_tab[b].ino # NULL /\ Listed(i_tab[b].ino[1]) /\ own \in Bags
  BY DEF Good, Fit, Entered, Mid
<1>7. \A w, o : Mid(w, o) => w[b].ino = i_tab[b].ino
  BY DEF Mid
<1>8. Mid(u, Plus(own, b))
  BY <1>2, <1>6, <1>7, RefMid
<1>9. Mid(v, Plus(Plus(own, b), b))
  BY <1>2, <1>6, <1>7, <1>8, RefMid
<1>10. /\ Plus(own, b) \in Bags /\ Plus(own, b)[b] > 0
       /\ Plus(Plus(own, b), b)[b] > 0
       /\ Minus(Plus(Plus(own, b), b), b) = Plus(own, b)
       /\ Minus(Plus(own, b), b) = own
  BY <1>6, BagSums DEF Opt
<1>11. Mid(x, Plus(own, b))
  BY <1>5, <1>9, <1>10, DerefMid
<1>12. /\ r[2] \in Opt /\ Mid(r[1], Plus(Minus(Plus(own, b), b), r[2]))
       /\ r[2] # NULL => MountsOn(r[2]) = {} /\ Finds(x[b].ino, n, r[1][r[2]].ino)
  BY <1>5, <1>10, <1>11, InsideMid
<1>. QED BY <1>7, <1>10, <1>11, <1>12

----------------------------------------------------------------------------
\* Counting: one place that changes changes two counts by one.
Where(S, f, v) == {y \in S : f[y] = v}

LEMMA Recount ==
    ASSUME NEW S, IsFiniteSet(S), NEW f, NEW g, NEW x \in S, NEW v,
           \A y \in S : y # x => g[y] = f[y]
    PROVE  Cardinality(Where(S, g, v)) + One(v, f[x]) = Cardinality(Where(S, f, v)) + One(v, g[x])
<1>. DEFINE B == Where(S, f, v)
            D == Where(S, g, v)
<1>1. IsFiniteSet(B) /\ IsFiniteSet(D)
  <2>1. B \in SUBSET S /\ D \in SUBSET S
    BY DEF Where
  <2>. QED BY <2>1, FS_Subset
<1>2. Cardinality(B) \in Nat /\ Cardinality(D) \in Nat
  BY <1>1, FS_CardinalityType
<1>3. CASE f[x] = v /\ g[x] # v
  <2>1. B = D \cup {x} /\ x \notin D
    BY <1>3 DEF Where
  <2>2. Cardinality(D \cup {x}) = Cardinality(D) + 1
    BY <1>1, <2>1, FS_AddElement
  <2>. QED BY <1>2, <1>3, <2>1, <2>2 DEF One
<1>4. CASE f[x] # v /\ g[x] = v
  <2>1. D = B \cup {x} /\ x \notin B
    BY <1>4 DEF Where
  <2>2. Cardinality(B \cup {x}) = Cardinality(B) + 1
    BY <1>1, <2>1, FS_AddElement
  <2>. QED BY <1>2, <1>4, <2>1, <2>2 DEF One
<1>5. CASE (f[x] = v) <=> (g[x] = v)
  <2>1. B = D
    BY <1>5 DEF Where
  <2>. QED BY <1>2, <1>5, <2>1 DEF One
<1>. QED BY <1>3, <1>4, <1>5 DEF Where

Ptr == [s \in Slots |-> IF Taken(s) THEN fs_tab[s].s_mntpt ELSE NULL]

LEMMA RecountSlots ==
    ASSUME NEW s \in Slots, \A r \in Slots : r # s => fs_tab'[r] = fs_tab[r], NEW e
    PROVE  Cardinality(Where(Slots, Ptr', e)) + One(e, Ptr[s])
             = Cardinality(Where(Slots, Ptr, e)) + One(e, Ptr'[s])
<1>1. IsFiniteSet(Slots)
  BY CountsFinite
<1>2. PICK f, g : f = Ptr /\ g = Ptr'
  OBVIOUS
<1>3. \A r \in Slots : r # s => g[r] = f[r]
  BY <1>2 DEF Ptr, Taken
<1>4. Cardinality(Where(Slots, g, e)) + One(e, f[s]) = Cardinality(Where(Slots, f, e)) + One(e, g[s])
  BY <1>1, <1>3, Recount, Z3
<1>. QED BY <1>2, <1>4

\* A step that changes one holder and one slot.
LEMMA CountsFollow ==
    ASSUME Exact, i_tab \in Tables, i_tab' \in Tables,
           NEW h \in Holders, at \in [Holders -> Opt],
           at' \in [Holders -> Opt], \A g \in Holders : g # h => at'[g] = at[g],
           NEW s \in Slots, \A r \in Slots : r # s => fs_tab'[r] = fs_tab[r],
           lost \in Bags, lost' \in Bags,
           \A e \in Entries : i_tab'[e].c_refs + One(e, at[h]) + One(e, Ptr[s]) + lost[e]
                             = i_tab[e].c_refs + One(e, at'[h]) + One(e, Ptr'[s]) + lost'[e]
    PROVE  Exact'
<1>1. \A e \in Entries : HoldersOf(e) = Where(Holders, at, e) /\ MountsOn(e) = Where(Slots, Ptr, e)
  BY MountsAssumption DEF HoldersOf, MountsOn, Where, Ptr
<1>2. \A e \in Entries : /\ HoldersOf(e)' = Where(Holders, at', e)
                          /\ MountsOn(e)' = Where(Slots, Ptr', e)
  BY MountsAssumption DEF HoldersOf, MountsOn, Where, Ptr
<1>3. SUFFICES ASSUME NEW e \in Entries
               PROVE  i_tab'[e].c_refs = Cardinality(HoldersOf(e)') + Cardinality(MountsOn(e)') + lost'[e]
  BY DEF Exact
<1>. DEFINE a0 == Cardinality(Where(Holders, at, e))
            a1 == Cardinality(Where(Holders, at', e))
            b0 == Cardinality(Where(Slots, Ptr, e))
            b1 == Cardinality(Where(Slots, Ptr', e))
<1>4. a1 + One(e, at[h]) = a0 + One(e, at'[h])
  BY Recount, MountsAssumption
<1>5. b1 + One(e, Ptr[s]) = b0 + One(e, Ptr'[s])
  BY RecountSlots
<1>6. a0 \in Nat /\ a1 \in Nat /\ b0 \in Nat /\ b1 \in Nat
  <2>1. \A f : Where(Holders, f, e) \in SUBSET Holders /\ Where(Slots, f, e) \in SUBSET Slots
    BY DEF Where
  <2>2. \A f : IsFiniteSet(Where(Holders, f, e)) /\ IsFiniteSet(Where(Slots, f, e))
    BY <2>1, FS_Subset, CountsFinite, MountsAssumption
  <2>. QED BY <2>2, FS_CardinalityType
<1>7. i_tab[e].c_refs = a0 + b0 + lost[e]
  BY <1>1 DEF Exact
<1>8. i_tab[e].c_refs \in Nat /\ i_tab'[e].c_refs \in Nat /\ lost[e] \in Nat /\ lost'[e] \in Nat
  BY DEF Tables, Entry, Bags
<1>9. \A f : One(e, f) \in Nat
  BY DEF One
<1>10. i_tab'[e].c_refs + One(e, at[h]) + One(e, Ptr[s]) + lost[e]
         = i_tab[e].c_refs + One(e, at'[h]) + One(e, Ptr'[s]) + lost'[e]
  OBVIOUS
<1>. HIDE DEF a0, a1, b0, b1
<1>11. i_tab'[e].c_refs = a1 + b1 + lost'[e]
  BY <1>4, <1>5, <1>6, <1>7, <1>8, <1>9, <1>10
<1>. QED BY <1>2, <1>11 DEF a1, b1

----------------------------------------------------------------------------
\* The slots as the function on of Namespace.
LEMMA SlotsAreOn ==
    ASSUME SlotsApart, fs_tab \in [Slots -> Slot]
    PROVE  /\ \A s \in Slots : OnSlot(s) => /\ fs_tab[s].s_mntpt \in Entries
                                            /\ fs_tab[s].s_dev \in MountedDevs
                                            /\ PointOf(fs_tab[s].s_dev) = fs_tab[s].s_mntpt
           /\ \A d \in MountedDevs : \E s \in Slots : OnSlot(s) /\ fs_tab[s].s_dev = d
           /\ MountedDevs \subseteq Devs
<1>1. ASSUME NEW s \in Slots, OnSlot(s)
      PROVE  /\ fs_tab[s].s_mntpt \in Entries
             /\ fs_tab[s].s_dev \in MountedDevs
             /\ PointOf(fs_tab[s].s_dev) = fs_tab[s].s_mntpt
  <2>1. fs_tab[s].s_mntpt \in Entries
    BY <1>1 DEF OnSlot, Slot
  <2>2. fs_tab[s].s_dev \in MountedDevs
    BY <1>1 DEF OnSlot, MountedDevs
  <2>3. \A e \in Entries : (\E r \in Slots : /\ Taken(r) /\ fs_tab[r].s_dev = fs_tab[s].s_dev
                                             /\ fs_tab[r].s_mntpt = e) <=> e = fs_tab[s].s_mntpt
    BY <1>1 DEF OnSlot, SlotsApart
  <2>. QED BY <2>1, <2>2, <2>3 DEF PointOf
<1>2. \A d \in MountedDevs : \E s \in Slots : OnSlot(s) /\ fs_tab[s].s_dev = d
  BY DEF MountedDevs, OnSlot
<1>3. MountedDevs \subseteq Devs
  BY <1>2 DEF Slot
<1>. QED BY <1>1, <1>2, <1>3

\* The mapped state.
PlaceOf == [h \in Holders |-> Place(h)]
OnOf == [d \in MountedDevs |-> i_tab[PointOf(d)].ino]

LEMMA OnOfSlot ==
    ASSUME Good
    PROVE  /\ \A s \in Slots : OnSlot(s) => OnOf[fs_tab[s].s_dev] = i_tab[fs_tab[s].s_mntpt].ino
           /\ DOMAIN OnOf = MountedDevs
<1>1. \A s \in Slots : OnSlot(s) => /\ fs_tab[s].s_dev \in MountedDevs
                                     /\ PointOf(fs_tab[s].s_dev) = fs_tab[s].s_mntpt
  BY SlotsAreOn DEF Good, Typed
<1>. QED BY <1>1 DEF OnOf

\* What is found by way of the slots is found in the name space.
LEMMA FindsFound ==
    ASSUME Good, NEW i, NEW n, NEW j, Finds(i, n, j)
    PROVE  Paths!Found(i, n, j)
<1>1. /\ \A s \in Slots : OnSlot(s) => /\ fs_tab[s].s_dev \in MountedDevs
                                        /\ OnOf[fs_tab[s].s_dev] = i_tab[fs_tab[s].s_mntpt].ino
                                        /\ fs_tab[s].s_dev \in Devs
      /\ \A d \in MountedDevs : \E s \in Slots : OnSlot(s) /\ fs_tab[s].s_dev = d
      /\ DOMAIN OnOf = MountedDevs
  BY SlotsAreOn, OnOfSlot DEF Good, Typed, Slot
<1>. DEFINE roots == [d \in Devs |-> Root(d)]
<1>2. ASSUME NEW k, NEW l, Leads(k, l) PROVE Paths!LeadsTo(k, l)
  <2>1. \/ (~\E d \in MountedDevs : OnOf[d] = k) /\ l = k
        \/ \E d \in MountedDevs : OnOf[d] = k /\ l = roots[d]
    BY <1>1, <1>2 DEF Leads, Covers, RootOf
  <2>. QED BY <1>1, <2>1 DEF Paths!LeadsTo, Paths!Covered, Paths!Mounted, OnOf
<1>3. ASSUME NEW k, NEW l, LooksIn(k, n, l) PROVE Paths!LookedUpIn(k, n, l)
  <2>1. \/ n \in Upward /\ \E d \in MountedDevs : k = roots[d] /\ l = OnOf[d]
        \/ (n \notin Upward \/ \A d \in MountedDevs : k # roots[d]) /\ l = k
    BY <1>1, <1>3 DEF LooksIn, Covers, RootOf
  <2>. QED BY <1>1, <2>1 DEF Paths!LookedUpIn, Paths!Mounted, OnOf
<1>4. PICK f \in Inodes : LooksIn(i, n, f) /\ Child[f][n] # NULL /\ Leads(Child[f][n], j)
  BY DEF Finds
<1>5. Paths!LookedUpIn(i, n, f) /\ Paths!LeadsTo(Child[f][n], j)
  BY <1>2, <1>3, <1>4
<1>. QED BY <1>4, <1>5 DEF Finds, Paths!Found

PointIn(fs, d) ==
    CHOOSE e \in Entries :
        \E s \in Slots : fs[s].state # "free" /\ fs[s].s_dev = d /\ fs[s].s_mntpt = e

LEMMA PointInSlot ==
    ASSUME NEW fs \in [Slots -> Slot],
           \A r, s \in Slots : fs[r].state # "free" /\ fs[s].state # "free"
                               /\ fs[r].s_dev = fs[s].s_dev => r = s,
           NEW s \in Slots, fs[s].state # "free", fs[s].s_mntpt # NULL
    PROVE  PointIn(fs, fs[s].s_dev) = fs[s].s_mntpt
<1>1. fs[s].s_mntpt \in Entries
  BY DEF Slot
<1>2. \A e \in Entries : (\E r \in Slots : /\ fs[r].state # "free" /\ fs[r].s_dev = fs[s].s_dev
                                           /\ fs[r].s_mntpt = e) <=> e = fs[s].s_mntpt
  OBVIOUS
<1>. QED BY <1>1, <1>2 DEF PointIn

\* A step that leaves the slots alone, changes one holder and forgets
\* references: Good is kept, and in the name space nothing but that holder's
\* place changes.
LEMMA SettleLost ==
    ASSUME Good, fs_tab' = fs_tab, Fit(i_tab'),
           NEW h \in Holders, at' \in [Holders -> Opt], \A g \in Holders : g # h => at'[g] = at[g],
           at'[Keeper] # NULL, at'[h] # NULL => MountsOn(at'[h]) = {},
           lost' \in Bags,
           \A e \in Entries : i_tab'[e].c_refs + One(e, at[h]) + lost[e]
                             = i_tab[e].c_refs + One(e, at'[h]) + lost'[e],
           \A e \in Entries : i_tab[e].c_refs > 0 => i_tab'[e].ino = i_tab[e].ino
    PROVE  Good' /\ OnOf' = OnOf /\ \A g \in Holders : g # h => Place(g)' = Place(g)
<1>1. /\ \A d : Listed(d)' = Listed(d) /\ PointOf(d)' = PointIn(fs_tab, d)
      /\ \A d : PointOf(d) = PointIn(fs_tab, d)
      /\ \A s : Taken(s)' = Taken(s) /\ OnSlot(s)' = OnSlot(s)
      /\ \A e : MountsOn(e)' = MountsOn(e)
      /\ MountedDevs' = MountedDevs
  BY DEF Listed, PointOf, PointIn, Taken, OnSlot, MountsOn, MountedDevs
<1>2. Typed' /\ Fit(i_tab)'
  BY <1>1 DEF Typed, Fit, Entered, Unique, Good
<1>3. Exact'
  <2>1. Ptr' = Ptr
    BY DEF Ptr, Taken
  <2>2. PICK s : s \in Slots
    <3>1. 1 \in Slots
      BY MountsAssumption DEF Slots
    <3>. QED BY <3>1
  <2>3. \A e \in Entries : /\ i_tab'[e].c_refs \in Nat /\ i_tab[e].c_refs \in Nat
                            /\ lost[e] \in Nat /\ lost'[e] \in Nat
    BY DEF Fit, Tables, Entry, Good, Typed, Bags
  <2>4. \A e, f : One(e, f) \in Nat
    BY DEF One
  <2>5. \A e \in Entries : i_tab'[e].c_refs + One(e, at[h]) + One(e, Ptr[s]) + lost[e]
                          = i_tab[e].c_refs + One(e, at'[h]) + One(e, Ptr'[s]) + lost'[e]
    BY <2>1, <2>3, <2>4
  <2>6. Exact /\ i_tab \in Tables /\ i_tab' \in Tables /\ at \in [Holders -> Opt] /\ lost \in Bags
    BY DEF Good, Typed, Fit
  <2>. QED BY <2>2, <2>5, <2>6, CountsFollow
<1>4. \A s \in Slots : OnSlot(s) => /\ fs_tab[s].s_mntpt \in Entries
                                   /\ i_tab'[fs_tab[s].s_mntpt].ino = i_tab[fs_tab[s].s_mntpt].ino
  BY InUseWhenHeld
<1>5. Uncovered'
  BY <1>1 DEF Uncovered, Good
<1>6. NoRoots' /\ SlotsApart' /\ RootSlot'
  BY <1>1, <1>4 DEF NoRoots, SlotsApart, RootSlot, Good
<1>7. Hangs'
  <2>1. \A d, c : StandsOn(d, c) => StandsOn(d, c)'
    BY <1>1, <1>4 DEF StandsOn, OnSlot
  <2>. QED BY <1>1, <2>1 DEF Hangs, Good
<1>8. OnOf' = OnOf
  <2>1. ASSUME NEW d \in MountedDevs PROVE i_tab'[PointIn(fs_tab, d)].ino = i_tab[PointIn(fs_tab, d)].ino
    <3>1. PICK s \in Slots : OnSlot(s) /\ fs_tab[s].s_dev = d
      BY SlotsAreOn DEF Good, Typed
    <3>2. PointIn(fs_tab, d) = fs_tab[s].s_mntpt
      BY <1>1, <3>1, SlotsAreOn DEF Good, Typed
    <3>. QED BY <1>4, <3>1, <3>2
  <2>2. /\ OnOf' = [d \in MountedDevs |-> i_tab'[PointIn(fs_tab, d)].ino]
        /\ OnOf = [d \in MountedDevs |-> i_tab[PointIn(fs_tab, d)].ino]
    BY <1>1 DEF OnOf
  <2>. QED BY <2>1, <2>2
<1>9. ASSUME NEW g \in Holders, g # h PROVE Place(g)' = Place(g)
  <2>1. at[g] # NULL => i_tab'[at[g]].ino = i_tab[at[g]].ino
    BY InUseWhenHeld
  <2>. QED BY <1>9, <2>1 DEF Place
<1>. QED BY <1>2, <1>3, <1>5, <1>6, <1>7, <1>8, <1>9 DEF Good

\* The same of a step that forgets none.
LEMMA Settle ==
    ASSUME Good, UNCHANGED <<fs_tab, lost>>, Fit(i_tab'),
           NEW h \in Holders, at' \in [Holders -> Opt], \A g \in Holders : g # h => at'[g] = at[g],
           at'[Keeper] # NULL, at'[h] # NULL => MountsOn(at'[h]) = {},
           \A e \in Entries : i_tab'[e].c_refs + One(e, at[h]) = i_tab[e].c_refs + One(e, at'[h]),
           \A e \in Entries : i_tab[e].c_refs > 0 => i_tab'[e].ino = i_tab[e].ino
    PROVE  Good' /\ OnOf' = OnOf /\ \A g \in Holders : g # h => Place(g)' = Place(g)
<1>1. lost' \in Bags /\ \A e \in Entries : lost'[e] = lost[e]
  BY DEF Good, Typed
<1>2. \A e \in Entries : i_tab'[e].c_refs + One(e, at[h]) + lost[e]
                          = i_tab[e].c_refs + One(e, at'[h]) + lost'[e]
  BY <1>1
<1>. QED BY <1>1, <1>2, SettleLost

----------------------------------------------------------------------------
\* The calls, one by one: Good is kept, and Namespace takes a step.
Zero == [g \in Entries |-> 0]

LEMMA ZeroMid ==
    ASSUME Good
    PROVE  /\ Mid(i_tab, Zero) /\ Zero \in Bags
           /\ \A e, f \in Entries : One(e, f) \in Nat /\ Plus(Zero, f)[e] = One(e, f)
           /\ \A e \in Entries : Minus(Plus(Zero, e), e) = Zero /\ Plus(Zero, e)[e] > 0
<1>1. Zero \in Bags
  BY DEF Zero, Bags
<1>2. Mid(i_tab, Zero)
  BY <1>1 DEF Good, Fit, Mid, Zero, Tables, Entry
<1>3. \A e, f \in Entries : One(e, f) \in Nat /\ Plus(Zero, f)[e] = One(e, f)
  BY DEF One, Plus, Zero
<1>4. \A e \in Entries : Minus(Plus(Zero, e), e) = Zero /\ Plus(Zero, e)[e] > 0
  BY <1>1, BagSums DEF Opt
<1>. QED BY <1>1, <1>2, <1>3, <1>4

\* What a table of the kind Mid is, with one reference of the call at most,
\* gives Settle.
LEMMA MidCounts ==
    ASSUME Good, NEW t, NEW x \in Opt, Mid(t, Plus(Zero, x))
    PROVE  /\ Fit(t)
           /\ \A e \in Entries : t[e].c_refs = i_tab[e].c_refs + One(e, x)
           /\ \A e \in Entries : i_tab[e].c_refs > 0 => t[e].ino = i_tab[e].ino
           /\ \A e \in Entries : /\ i_tab[e].c_refs \in Nat /\ t[e].c_refs \in Nat
                                 /\ One(e, x) \in Nat /\ One(e, NULL) = 0
           /\ x # NULL => t[x].ino \in Inodes
<1>1. Fit(t) /\ \A e \in Entries : i_tab[e].c_refs > 0 => t[e].ino = i_tab[e].ino
  BY DEF Mid
<1>2. \A e \in Entries : Plus(Zero, x)[e] = One(e, x)
  BY DEF Plus, Zero, One
<1>3. \A e \in Entries : t[e].c_refs = i_tab[e].c_refs + One(e, x)
  BY <1>2 DEF Mid
<1>4. \A e \in Entries : /\ i_tab[e].c_refs \in Nat /\ t[e].c_refs \in Nat
                          /\ One(e, x) \in Nat /\ One(e, NULL) = 0
  BY <1>1, MountsAssumption DEF Good, Fit, Tables, Entry, One
<1>5. ASSUME x # NULL PROVE t[x].ino \in Inodes
  <2>1. x \in Entries /\ t[x].c_refs > 0
    BY <1>3, <1>4, <1>5 DEF Opt, One
  <2>. QED BY <1>1, <2>1 DEF Fit, Entered, Tables, Entry
<1>. QED BY <1>1, <1>3, <1>4, <1>5

\* Somebody asks from a place of his own.
LEMMA Asks ==
    ASSUME Good, NEW s \in Holders, NEW n \in Names, at[s] # NULL, Asked(at[s], n)
    PROVE  /\ Paths!Ask(s, n)
           /\ Place(s) \in Inodes /\ Place(s) = i_tab[at[s]].ino
           /\ at[s] \in Entries /\ i_tab[at[s]].c_refs > 0 /\ MountsOn(at[s]) = {}
<1>1. at[s] \in Entries /\ i_tab[at[s]].c_refs > 0 /\ MountsOn(at[s]) = {}
  BY InUseWhenHeld DEF Good, Uncovered
<1>2. i_tab[at[s]].ino \in Inodes /\ i_tab[at[s]].ino # NULL
  BY <1>1 DEF Good, Fit, Entered, Tables, Entry
<1>3. Place(s) = i_tab[at[s]].ino
  BY DEF Place
<1>4. PlaceOf[s] # NULL /\ asked' = <<PlaceOf[s], n>>
  BY <1>2, <1>3 DEF Asked, PlaceOf
<1>5. Paths!Ask(s, n)
  BY <1>4 DEF Paths!Ask, PlaceOf
<1>. QED BY <1>1, <1>2, <1>3, <1>5

\* A call that comes to nothing: the table has the references it had.
LEMMA NothingDone ==
    ASSUME Good, NEW s \in Holders, NEW n \in Names, at[s] # NULL, Asked(at[s], n),
           Mid(i_tab', Zero), UNCHANGED <<at, fs_tab, lost, snared>>
    PROVE  Good' /\ Paths!Fail
<1>1. /\ Fit(i_tab')
      /\ \A e \in Entries : i_tab'[e].c_refs = i_tab[e].c_refs
      /\ \A e \in Entries : i_tab[e].c_refs > 0 => i_tab'[e].ino = i_tab[e].ino
  <2>1. Plus(Zero, NULL) = Zero /\ NULL \in Opt
    BY ZeroMid, BagSums, MountsAssumption DEF Opt
  <2>. QED BY <2>1, MidCounts
<1>2. at \in [Holders -> Opt] /\ at[Keeper] # NULL /\ Keeper \in Holders /\ (at[Keeper] # NULL => MountsOn(at[Keeper]) = {})
  BY MountsAssumption DEF Good, Typed, Uncovered
<1>3. Good' /\ OnOf' = OnOf /\ \A g \in Holders : g # Keeper => Place(g)' = Place(g)
  BY <1>1, <1>2, Settle
<1>4. Place(Keeper)' = Place(Keeper)
  BY <1>1, <1>2, InUseWhenHeld DEF Place
<1>5. PlaceOf' = PlaceOf
  BY <1>3, <1>4 DEF PlaceOf
<1>6. Paths!Ask(s, n)
  BY Asks
<1>. QED BY <1>3, <1>5, <1>6 DEF Paths!Fail, PlaceOf, OnOf

\* A call that takes holder h to what a path finds.
LEMMA HolderMoves ==
    ASSUME Good, NEW s \in Holders, NEW n \in Names, at[s] # NULL, Asked(at[s], n),
           NEW h \in Holders, NEW x \in Entries, at' = [at EXCEPT ![h] = x],
           UNCHANGED <<fs_tab, lost, snared>>,
           MountsOn(x) = {}, Finds(i_tab[at[s]].ino, n, i_tab'[x].ino), i_tab'[x].ino \in Inodes,
           Fit(i_tab'),
           \A e \in Entries : i_tab'[e].c_refs + One(e, at[h]) = i_tab[e].c_refs + One(e, x),
           \A e \in Entries : i_tab[e].c_refs > 0 => i_tab'[e].ino = i_tab[e].ino
    PROVE  Good' /\ \E j \in Inodes : Paths!Move(h, j)
<1>1. /\ at' \in [Holders -> Opt] /\ \A g \in Holders : g # h => at'[g] = at[g]
      /\ at'[h] = x /\ x # NULL /\ at'[Keeper] # NULL
  BY MountsAssumption DEF Good, Typed, Opt
<1>2. Good' /\ OnOf' = OnOf /\ \A g \in Holders : g # h => Place(g)' = Place(g)
  BY <1>1, Settle
<1>3. Place(h)' = i_tab'[x].ino
  BY <1>1 DEF Place
<1>4. PlaceOf' = [PlaceOf EXCEPT ![h] = i_tab'[x].ino]
  BY <1>2, <1>3 DEF PlaceOf
<1>5. Paths!Ask(s, n) /\ PlaceOf[s] = i_tab[at[s]].ino
  BY Asks DEF PlaceOf
<1>6. Paths!Found(PlaceOf[s], n, i_tab'[x].ino)
  BY <1>5, FindsFound
<1>7. Paths!Reach(i_tab'[x].ino)
  BY <1>5, <1>6 DEF Paths!Reach, PlaceOf
<1>8. Paths!Move(h, i_tab'[x].ino)
  BY <1>2, <1>4, <1>7 DEF Paths!Move, PlaceOf, OnOf
<1>. QED BY <1>2, <1>8

\* A path from a holder's place, at the start of a call.
LEMMA FirstPath ==
    ASSUME Good, NEW s \in Holders, NEW n \in Names, at[s] # NULL,
           NEW r \in Namei(i_tab, at[s], n)
    PROVE  /\ r[2] \in Opt /\ Mid(r[1], Plus(Zero, r[2]))
           /\ r[2] = NULL => Mid(r[1], Zero)
           /\ r[2] # NULL => /\ MountsOn(r[2]) = {}
                             /\ Finds(i_tab[at[s]].ino, n, r[1][r[2]].ino)
<1>1. at[s] \in Entries /\ i_tab[at[s]].c_refs > 0 /\ MountsOn(at[s]) = {}
  BY InUseWhenHeld DEF Good, Uncovered
<1>2. /\ r[2] \in Opt /\ Mid(r[1], Plus(Zero, r[2]))
      /\ r[2] # NULL => /\ MountsOn(r[2]) = {}
                        /\ Finds(i_tab[at[s]].ino, n, r[1][r[2]].ino)
  BY <1>1, ZeroMid, NameiMid
<1>3. Plus(Zero, NULL) = Zero
  BY <1>1, ZeroMid, BagSums DEF Opt
<1>. QED BY <1>2, <1>3

LEMMA OpenStep ==
    ASSUME Good, NEW h \in Holders, NEW s \in Holders, NEW n \in Names, Open(h, s, n)
    PROVE  Good' /\ (Paths!Fail \/ \E j \in Inodes : Paths!Move(h, j))
<1>1. PICK r \in Namei(i_tab, at[s], n) : i_tab' = r[1] /\ at' = [at EXCEPT ![h] = r[2]]
  BY DEF Open
<1>2. /\ at[h] = NULL /\ at[s] # NULL /\ Asked(at[s], n)
      /\ UNCHANGED <<fs_tab, lost, snared>>
  BY DEF Open
<1>3. /\ r[2] \in Opt /\ Mid(i_tab', Plus(Zero, r[2]))
      /\ r[2] = NULL => Mid(i_tab', Zero)
      /\ r[2] # NULL => MountsOn(r[2]) = {} /\ Finds(i_tab[at[s]].ino, n, i_tab'[r[2]].ino)
  BY <1>1, <1>2, FirstPath
<1>4. CASE r[2] = NULL
  <2>1. at' = at
    BY <1>1, <1>2, <1>4 DEF Good, Typed
  <2>. QED BY <1>2, <1>3, <1>4, <2>1, NothingDone
<1>5. CASE r[2] # NULL
  <2>. DEFINE x == r[2]
  <2>1. x \in Entries
    BY <1>3, <1>5 DEF Opt
  <2>2. /\ Fit(i_tab')
        /\ \A e \in Entries : i_tab'[e].c_refs = i_tab[e].c_refs + One(e, x)
        /\ \A e \in Entries : i_tab[e].c_refs > 0 => i_tab'[e].ino = i_tab[e].ino
        /\ \A e \in Entries : /\ i_tab[e].c_refs \in Nat /\ i_tab'[e].c_refs \in Nat
                              /\ One(e, x) \in Nat /\ One(e, NULL) = 0
        /\ i_tab'[x].ino \in Inodes
    BY <1>3, <1>5, MidCounts
  <2>3. \A e \in Entries : i_tab'[e].c_refs + One(e, at[h]) = i_tab[e].c_refs + One(e, x)
    BY <1>2, <2>2
  <2>4. MountsOn(x) = {} /\ Finds(i_tab[at[s]].ino, n, i_tab'[x].ino) /\ at' = [at EXCEPT ![h] = x]
    BY <1>1, <1>3, <1>5
  <2>. HIDE DEF x
  <2>. QED BY <1>2, <2>1, <2>2, <2>3, <2>4, HolderMoves
<1>. QED BY <1>4, <1>5

\* A chdir that is refused: the table keeps the reference of the path.
LEMMA Forgotten ==
    ASSUME Good, NEW s \in Holders, NEW n \in Names, at[s] # NULL, Asked(at[s], n),
           NEW x \in Entries, Mid(i_tab', Plus(Zero, x)), lost' = [lost EXCEPT ![x] = @ + 1],
           UNCHANGED <<at, fs_tab, snared>>
    PROVE  Good' /\ Paths!Fail
<1>1. /\ Fit(i_tab')
      /\ \A e \in Entries : i_tab'[e].c_refs = i_tab[e].c_refs + One(e, x)
      /\ \A e \in Entries : i_tab[e].c_refs > 0 => i_tab'[e].ino = i_tab[e].ino
      /\ \A e \in Entries : i_tab[e].c_refs \in Nat /\ One(e, x) \in Nat
  BY MidCounts DEF Opt
<1>2. at \in [Holders -> Opt] /\ at[Keeper] # NULL /\ Keeper \in Holders /\ (at[Keeper] # NULL => MountsOn(at[Keeper]) = {})
  BY MountsAssumption DEF Good, Typed, Uncovered
<1>3. /\ lost' \in Bags
      /\ \A e \in Entries : lost'[e] = lost[e] + One(e, x) /\ lost[e] \in Nat
  BY DEF Good, Typed, Bags, One
<1>4. \A e \in Entries : One(e, at[Keeper]) \in Nat
  BY DEF One
<1>5. \A e \in Entries : i_tab'[e].c_refs + One(e, at[Keeper]) + lost[e]
                          = i_tab[e].c_refs + One(e, at'[Keeper]) + lost'[e]
  BY <1>1, <1>3, <1>4
<1>6. Good' /\ OnOf' = OnOf /\ \A g \in Holders : g # Keeper => Place(g)' = Place(g)
  BY <1>1, <1>2, <1>3, <1>5, SettleLost
<1>7. Place(Keeper)' = Place(Keeper)
  BY <1>1, <1>2, InUseWhenHeld DEF Place
<1>8. PlaceOf' = PlaceOf
  BY <1>6, <1>7 DEF PlaceOf
<1>9. Paths!Ask(s, n)
  BY Asks
<1>. QED BY <1>6, <1>8, <1>9 DEF Paths!Fail, PlaceOf, OnOf

LEMMA ChdirStep ==
    ASSUME Good, NEW h \in Holders, NEW n \in Names, Chdir(h, n)
    PROVE  Good' /\ (Paths!Fail \/ \E j \in Inodes : Paths!Move(h, j))
<1>1. /\ at[h] # NULL /\ h # Keeper /\ Asked(at[h], n)
      /\ UNCHANGED <<fs_tab, snared>>
  BY DEF Chdir
<1>2. PICK r \in Namei(i_tab, at[h], n) :
        IF r[2] = NULL THEN i_tab' = r[1] /\ UNCHANGED <<at, lost>>
        ELSE IF r[1][r[2]].ino \notin Directories
        THEN i_tab' \in Deref(r[1], r[2]) /\ UNCHANGED <<at, lost>>
        ELSE \/ i_tab' \in Deref(r[1], at[h]) /\ at' = [at EXCEPT ![h] = r[2]] /\ UNCHANGED lost
             \/ Refused(r[1], r[2]) /\ UNCHANGED at
  BY DEF Chdir
<1>. DEFINE x == r[2]
<1>3. /\ x \in Opt /\ Mid(r[1], Plus(Zero, x))
      /\ x = NULL => Mid(r[1], Zero)
      /\ x # NULL => MountsOn(x) = {} /\ Finds(i_tab[at[h]].ino, n, r[1][x].ino)
  BY <1>1, FirstPath
<1>4. CASE x = NULL
  BY <1>1, <1>2, <1>3, <1>4, NothingDone
<1>5. CASE x # NULL /\ r[1][x].ino \notin Directories
  <2>1. x \in Entries /\ i_tab' \in Deref(r[1], x) /\ UNCHANGED <<at, lost>>
    BY <1>2, <1>3, <1>5 DEF Opt
  <2>2. Minus(Plus(Zero, x), x) = Zero /\ Plus(Zero, x)[x] > 0
    BY <2>1, ZeroMid
  <2>. HIDE DEF x
  <2>3. Mid(i_tab', Zero)
    BY <1>3, <2>1, <2>2, DerefMid
  <2>. QED BY <1>1, <2>1, <2>3, NothingDone
<1>6. CASE /\ x # NULL /\ i_tab' \in Deref(r[1], at[h])
           /\ at' = [at EXCEPT ![h] = x] /\ UNCHANGED lost
  <2>1. /\ x \in Entries /\ i_tab' \in Deref(r[1], at[h])
        /\ at' = [at EXCEPT ![h] = x] /\ UNCHANGED lost
    BY <1>3, <1>6 DEF Opt
  <2>2. /\ Fit(r[1])
        /\ \A e \in Entries : r[1][e].c_refs = i_tab[e].c_refs + One(e, x)
        /\ \A e \in Entries : i_tab[e].c_refs > 0 => r[1][e].ino = i_tab[e].ino
        /\ \A e \in Entries : /\ i_tab[e].c_refs \in Nat /\ r[1][e].c_refs \in Nat
                              /\ One(e, x) \in Nat
        /\ r[1][x].ino \in Inodes
    BY <1>3, <1>6, MidCounts
  <2>. HIDE DEF x
  <2>3. at[h] \in Entries
    BY <1>1, Asks
  <2>4. /\ Fit(i_tab')
        /\ \A e \in Entries : /\ i_tab'[e].ino = r[1][e].ino
                              /\ i_tab'[e].c_refs = r[1][e].c_refs - One(e, at[h])
    BY <2>1, <2>2, <2>3, DerefFit
  <2>5. \A e \in Entries : One(e, at[h]) \in Nat
    BY DEF One
  <2>6. \A e \in Entries : i_tab'[e].c_refs + One(e, at[h]) = i_tab[e].c_refs + One(e, x)
    BY <2>2, <2>4, <2>5
  <2>7. /\ \A e \in Entries : i_tab[e].c_refs > 0 => i_tab'[e].ino = i_tab[e].ino
        /\ i_tab'[x].ino \in Inodes /\ Finds(i_tab[at[h]].ino, n, i_tab'[x].ino)
        /\ MountsOn(x) = {}
    BY <1>3, <1>6, <2>1, <2>2, <2>4
  <2>. QED BY <1>1, <2>1, <2>4, <2>6, <2>7, HolderMoves
<1>7. CASE x # NULL /\ Refused(r[1], x) /\ UNCHANGED at
  <2>1. x \in Entries /\ i_tab' = r[1] /\ lost' = [lost EXCEPT ![x] = @ + 1] /\ UNCHANGED at
    BY <1>3, <1>7 DEF Opt, Refused
  <2>2. Mid(i_tab', Plus(Zero, x))
    BY <1>3, <2>1
  <2>. HIDE DEF x
  <2>. QED BY <1>1, <2>1, <2>2, Forgotten
<1>. QED BY <1>2, <1>4, <1>5, <1>6, <1>7

LEMMA CloseStep ==
    ASSUME Good, NEW h \in Holders, Close(h)
    PROVE  Good' /\ Paths!Close(h)
<1>1. /\ at[h] # NULL /\ h # Keeper /\ i_tab' \in Deref(i_tab, at[h])
      /\ at' = [at EXCEPT ![h] = NULL] /\ UNCHANGED <<fs_tab, asked, lost, snared>>
  BY DEF Close
<1>2. at[h] \in Entries
  BY <1>1 DEF Good, Typed, Opt
<1>3. /\ Fit(i_tab')
      /\ \A e \in Entries : /\ i_tab'[e].ino = i_tab[e].ino
                            /\ i_tab'[e].c_refs = i_tab[e].c_refs - One(e, at[h])
  BY <1>1, <1>2, DerefFit DEF Good
<1>4. /\ at' \in [Holders -> Opt] /\ \A g \in Holders : g # h => at'[g] = at[g]
      /\ at'[h] = NULL /\ at'[Keeper] # NULL
  BY <1>1, MountsAssumption DEF Good, Typed, Opt
<1>5. \A e \in Entries : i_tab[e].c_refs \in Nat /\ One(e, at[h]) \in Nat /\ One(e, NULL) = 0
  BY MountsAssumption DEF Good, Typed, Tables, Entry, One
<1>6. \A e \in Entries : i_tab'[e].c_refs + One(e, at[h]) = i_tab[e].c_refs + One(e, at'[h])
  BY <1>3, <1>4, <1>5
<1>7. Good' /\ OnOf' = OnOf /\ \A g \in Holders : g # h => Place(g)' = Place(g)
  BY <1>1, <1>3, <1>4, <1>6, Settle
<1>8. PlaceOf' = [PlaceOf EXCEPT ![h] = NULL]
  BY <1>4, <1>7 DEF PlaceOf, Place
<1>. QED BY <1>1, <1>7, <1>8 DEF Paths!Close, PlaceOf, OnOf

LEMMA ForkStep ==
    ASSUME Good, NEW h \in Holders, NEW g \in Holders, Fork(h, g)
    PROVE  Good' /\ Paths!Copy(h, g)
<1>1. /\ at[h] # NULL /\ at[g] = NULL /\ i_tab' \in IRef(i_tab, at[h])
      /\ at' = [at EXCEPT ![g] = at[h]] /\ UNCHANGED <<fs_tab, asked, lost, snared>>
  BY DEF Fork
<1>2. /\ at[h] \in Entries /\ i_tab[at[h]].c_refs > 0 /\ MountsOn(at[h]) = {}
      /\ i_tab[at[h]].ino # NULL /\ Listed(i_tab[at[h]].ino[1])
  BY <1>1, InUseWhenHeld DEF Good, Uncovered, Fit, Entered
<1>3. Mid(i_tab', Plus(Zero, at[h]))
  BY <1>1, <1>2, ZeroMid, RefMid
<1>4. /\ Fit(i_tab')
      /\ \A e \in Entries : i_tab'[e].c_refs = i_tab[e].c_refs + One(e, at[h])
      /\ \A e \in Entries : i_tab[e].c_refs > 0 => i_tab'[e].ino = i_tab[e].ino
      /\ \A e \in Entries : /\ i_tab[e].c_refs \in Nat /\ i_tab'[e].c_refs \in Nat
                            /\ One(e, at[h]) \in Nat /\ One(e, NULL) = 0
  BY <1>2, <1>3, MidCounts DEF Opt
<1>5. /\ at' \in [Holders -> Opt] /\ \A k \in Holders : k # g => at'[k] = at[k]
      /\ at'[g] = at[h] /\ at'[Keeper] # NULL
  BY <1>1, MountsAssumption DEF Good, Typed, Opt
<1>6. \A e \in Entries : i_tab'[e].c_refs + One(e, at[g]) = i_tab[e].c_refs + One(e, at'[g])
  BY <1>1, <1>4, <1>5
<1>7. Good' /\ OnOf' = OnOf /\ \A k \in Holders : k # g => Place(k)' = Place(k)
  BY <1>1, <1>2, <1>4, <1>5, <1>6, Settle
<1>8. Place(g)' = Place(h)
  BY <1>1, <1>2, <1>4, <1>5 DEF Place
<1>9. PlaceOf' = [PlaceOf EXCEPT ![g] = PlaceOf[h]]
  BY <1>7, <1>8 DEF PlaceOf
<1>. QED BY <1>1, <1>7, <1>9 DEF Paths!Copy, PlaceOf, OnOf

----------------------------------------------------------------------------
\* What mount and umount have in common: nobody moves, and what is held or
\* mounted on stays the inode it is.
LEMMA PlacesStay ==
    ASSUME Good, at' = at, \A e \in Entries : i_tab[e].c_refs > 0 => i_tab'[e].ino = i_tab[e].ino
    PROVE  /\ PlaceOf' = PlaceOf
           /\ \A s \in Slots : OnSlot(s) => /\ fs_tab[s].s_mntpt \in Entries
                                            /\ i_tab'[fs_tab[s].s_mntpt].ino = i_tab[fs_tab[s].s_mntpt].ino
<1>1. \A h \in Holders : at[h] # NULL => i_tab'[at[h]].ino = i_tab[at[h]].ino
  BY InUseWhenHeld
<1>2. \A h \in Holders : Place(h)' = Place(h)
  BY <1>1 DEF Place
<1>3. PlaceOf' = PlaceOf
  BY <1>2 DEF PlaceOf
<1>. QED BY <1>3, InUseWhenHeld

\* The counts of a step that changes one slot.
LEMMA SlotCounts ==
    ASSUME Good, UNCHANGED <<at, lost>>, Fit(i_tab'), NEW s \in Slots,
           \A r \in Slots : r # s => fs_tab'[r] = fs_tab[r],
           \A e \in Entries : i_tab'[e].c_refs + One(e, Ptr[s]) = i_tab[e].c_refs + One(e, Ptr'[s])
    PROVE  Exact'
<1>1. /\ Exact /\ i_tab \in Tables /\ i_tab' \in Tables
      /\ at \in [Holders -> Opt] /\ at' \in [Holders -> Opt] /\ Keeper \in Holders
      /\ lost \in Bags /\ lost' \in Bags
  BY MountsAssumption DEF Good, Typed, Fit
<1>2. \A e \in Entries : /\ i_tab[e].c_refs \in Nat /\ i_tab'[e].c_refs \in Nat
                          /\ lost[e] \in Nat /\ lost'[e] = lost[e]
  BY <1>1 DEF Tables, Entry, Bags
<1>3. \A e, f : One(e, f) \in Nat
  BY DEF One
<1>4. \A e \in Entries : i_tab'[e].c_refs + One(e, at[Keeper]) + One(e, Ptr[s]) + lost[e]
                        = i_tab[e].c_refs + One(e, at'[Keeper]) + One(e, Ptr'[s]) + lost'[e]
  BY <1>2, <1>3
<1>. QED BY <1>1, <1>4, CountsFollow

\* The function on of Namespace from the slots, after a step.
LEMMA OnAfter ==
    ASSUME fs_tab' \in [Slots -> Slot], SlotsApart'
    PROVE  /\ \A s \in Slots, d \in Devs : OnSlot(s)' /\ fs_tab'[s].s_dev = d =>
                 d \in MountedDevs' /\ OnOf'[d] = i_tab'[fs_tab'[s].s_mntpt].ino
           /\ \A d \in MountedDevs' : \E s \in Slots : OnSlot(s)' /\ fs_tab'[s].s_dev = d
           /\ OnOf' = [d \in MountedDevs' |-> OnOf'[d]]
<1>1. \A r, s \in Slots : fs_tab'[r].state # "free" /\ fs_tab'[s].state # "free"
                          /\ fs_tab'[r].s_dev = fs_tab'[s].s_dev => r = s
  BY DEF SlotsApart, Taken
<1>2. OnOf' = [d \in MountedDevs' |-> i_tab'[PointOf(d)'].ino]
  BY DEF OnOf
<1>3. ASSUME NEW s \in Slots, NEW d \in Devs, OnSlot(s)', fs_tab'[s].s_dev = d
      PROVE  d \in MountedDevs' /\ OnOf'[d] = i_tab'[fs_tab'[s].s_mntpt].ino
  <2>1. d \in MountedDevs'
    BY <1>3 DEF OnSlot, MountedDevs
  <2>2. fs_tab'[s].state # "free" /\ fs_tab'[s].s_mntpt # NULL
    BY <1>3 DEF OnSlot, Taken
  <2>3. PointIn(fs_tab', d) = fs_tab'[s].s_mntpt
    BY <1>1, <1>3, <2>2, PointInSlot
  <2>4. PointOf(d)' = PointIn(fs_tab', d)
    BY DEF PointOf, PointIn, Taken
  <2>. QED BY <1>2, <2>1, <2>3, <2>4
<1>4. OnOf' = [d \in MountedDevs' |-> OnOf'[d]]
  BY <1>2
<1>5. \A d \in MountedDevs' : \E s \in Slots : OnSlot(s)' /\ fs_tab'[s].s_dev = d
  BY DEF MountedDevs, OnSlot
<1>. QED BY <1>3, <1>4, <1>5

\* fmount gives up: a slot that was free is locked or free, with no pointer
\* in force.
LEMMA MountGivenUp ==
    ASSUME Good, UNCHANGED <<at, lost>>, Mid(i_tab', Zero),
           NEW s \in Slots, ~Taken(s), ~OnSlot(s)',
           fs_tab' \in [Slots -> Slot], \A r \in Slots : r # s => fs_tab'[r] = fs_tab[r],
           Taken(s)' => ~Listed(fs_tab'[s].s_dev)
    PROVE  Good' /\ OnOf' = OnOf /\ PlaceOf' = PlaceOf
<1>1. /\ Fit(i_tab') /\ \A e \in Entries : i_tab'[e].c_refs = i_tab[e].c_refs
      /\ \A e \in Entries : i_tab[e].c_refs > 0 => i_tab'[e].ino = i_tab[e].ino
  <2>1. Plus(Zero, NULL) = Zero /\ NULL \in Opt
    BY ZeroMid, BagSums, MountsAssumption DEF Opt
  <2>. QED BY <2>1, MidCounts
<1>2. /\ fs_tab[s].state = "free"
      /\ fs_tab'[s].state = "free" \/ fs_tab'[s].s_mntpt = NULL
  BY DEF Taken, OnSlot
<1>3. \A r \in Slots : fs_tab[r].state # "free" => fs_tab'[r] = fs_tab[r] /\ r # s
  BY <1>2
<1>4. PlaceOf' = PlaceOf /\ \A r \in Slots : OnSlot(r) =>
        /\ fs_tab[r].s_mntpt \in Entries
        /\ i_tab'[fs_tab[r].s_mntpt].ino = i_tab[fs_tab[r].s_mntpt].ino
  BY <1>1, PlacesStay
<1>5. Typed'
  BY <1>1 DEF Typed, Good, Fit
<1>6. Fit(i_tab)'
  <2>1. \A d : Listed(d) => Listed(d)'
    BY <1>3 DEF Listed, Taken
  <2>. QED BY <1>1, <2>1 DEF Fit, Entered, Unique
<1>7. Exact'
  <2>1. Ptr[s] = NULL /\ Ptr'[s] = NULL
    BY DEF Ptr, OnSlot
  <2>2. \A e \in Entries : i_tab'[e].c_refs + One(e, Ptr[s]) = i_tab[e].c_refs + One(e, Ptr'[s])
    BY <1>1, <2>1
  <2>. QED BY <1>1, <2>2, SlotCounts
<1>8. Uncovered'
  <2>1. \A h \in Holders : at[h] # NULL => at[h] \in Entries /\ MountsOn(at[h]) = {}
    BY InUseWhenHeld DEF Good, Uncovered
  <2>2. ASSUME NEW e \in Entries, MountsOn(e) = {} PROVE MountsOn(e)' = {}
    BY <1>2, <2>2, MountsAssumption DEF MountsOn, Taken
  <2>. QED BY <2>1, <2>2 DEF Uncovered
<1>9. NoRoots'
  BY <1>2, <1>4 DEF NoRoots, Good, OnSlot, Taken
<1>10. SlotsApart'
  <2>1. SUFFICES ASSUME NEW q \in Slots, NEW r \in Slots, Taken(q)', Taken(r)',
                        fs_tab'[q].s_dev = fs_tab'[r].s_dev
                 PROVE  q = r
    BY DEF SlotsApart
  <2>2. CASE q # s /\ r # s
    BY <2>1, <2>2 DEF Good, SlotsApart, Taken
  <2>3. CASE q = s /\ r # s
    BY <2>1, <2>3 DEF Listed, Taken
  <2>4. CASE q # s /\ r = s
    BY <2>1, <2>4 DEF Listed, Taken
  <2>. QED BY <2>2, <2>3, <2>4
<1>11. RootSlot'
  BY <1>3 DEF Good, RootSlot, OnSlot, Taken
<1>12. MountedDevs' = MountedDevs
  <2>1. \A r \in Slots : fs_tab'[r].s_mntpt # NULL /\ fs_tab'[r].state # "free" =>
          fs_tab[r].s_mntpt # NULL /\ fs_tab[r].state # "free" /\ fs_tab'[r] = fs_tab[r]
    BY <1>2
  <2>. QED BY <1>3, <2>1 DEF MountedDevs, Taken
<1>13. Hangs'
  <2>1. \A d, c : StandsOn(d, c) => StandsOn(d, c)'
    BY <1>3, <1>4 DEF StandsOn, OnSlot, Taken
  <2>. QED BY <1>12, <2>1 DEF Hangs, Good
<1>14. OnOf' = OnOf
  <2>1. ASSUME NEW d \in MountedDevs PROVE OnOf'[d] = OnOf[d]
    <3>1. PICK r \in Slots : OnSlot(r) /\ fs_tab[r].s_dev = d
      BY SlotsAreOn DEF Good, Typed
    <3>2. d \in Devs /\ OnSlot(r) /\ OnSlot(r)' /\ fs_tab'[r] = fs_tab[r] /\ fs_tab[r].s_dev = d
      BY <1>3, <3>1 DEF Good, Typed, Slot, OnSlot, Taken
    <3>3. OnOf'[d] = i_tab'[fs_tab'[r].s_mntpt].ino
      BY <1>10, <3>2, OnAfter
    <3>4. OnOf[d] = i_tab[fs_tab[r].s_mntpt].ino
      BY <3>2, OnOfSlot
    <3>. QED BY <1>4, <3>2, <3>3, <3>4
  <2>2. OnOf' = [d \in MountedDevs' |-> OnOf'[d]]
    BY <1>10, OnAfter
  <2>3. OnOf = [d \in MountedDevs |-> OnOf[d]]
    BY DEF OnOf
  <2>. QED BY <1>12, <2>1, <2>2, <2>3
<1>. QED BY <1>4, <1>5, <1>6, <1>7, <1>8, <1>9, <1>10, <1>11, <1>13, <1>14 DEF Good

\* fmount takes slot s for device d on a directory that nobody has.
LEMMA MountDone ==
    ASSUME Good, UNCHANGED <<at, lost>>, NEW s \in Slots, ~Taken(s),
           NEW d \in Devs, ~Listed(d), NEW e \in Entries, i_tab[e].c_refs = 0,
           fs_tab' = [fs_tab EXCEPT ![s] = [state |-> "mounted", s_dev |-> d, s_mntpt |-> e]],
           Mid(i_tab', Plus(Zero, e)), i_tab'[e].ino[2] # ROOTINODE
    PROVE  /\ Good' /\ PlaceOf' = PlaceOf /\ d \notin MountedDevs
           /\ MountedDevs' = MountedDevs \cup {d}
           /\ OnOf' = [c \in MountedDevs \cup {d} |-> IF c = d THEN i_tab'[e].ino ELSE OnOf[c]]
<1>1. /\ Fit(i_tab') /\ \A g \in Entries : i_tab'[g].c_refs = i_tab[g].c_refs + One(g, e)
      /\ \A g \in Entries : i_tab[g].c_refs > 0 => i_tab'[g].ino = i_tab[g].ino
      /\ i_tab'[e].ino \in Inodes
      /\ \A g \in Entries : i_tab[g].c_refs \in Nat /\ One(g, e) \in Nat /\ One(g, NULL) = 0
  BY MidCounts, MountsAssumption DEF Opt
<1>2. /\ fs_tab \in [Slots -> Slot] /\ fs_tab[s].state = "free"
      /\ fs_tab' \in [Slots -> Slot]
      /\ \A r \in Slots : r # s => fs_tab'[r] = fs_tab[r]
      /\ fs_tab'[s].state = "mounted" /\ fs_tab'[s].s_dev = d /\ fs_tab'[s].s_mntpt = e
      /\ e # NULL
  BY MountsAssumption DEF Taken, Good, Typed, Slot
<1>3. \A r \in Slots : fs_tab[r].state # "free" => fs_tab'[r] = fs_tab[r] /\ r # s
  BY <1>2
<1>4. PlaceOf' = PlaceOf /\ \A r \in Slots : OnSlot(r) =>
        /\ fs_tab[r].s_mntpt \in Entries
        /\ i_tab'[fs_tab[r].s_mntpt].ino = i_tab[fs_tab[r].s_mntpt].ino
  BY <1>1, PlacesStay
<1>5. Typed'
  BY <1>1, <1>2 DEF Typed, Good, Fit
<1>6. Fit(i_tab)'
  <2>1. \A c : Listed(c) => Listed(c)'
    BY <1>3 DEF Listed, Taken
  <2>. QED BY <1>1, <2>1 DEF Fit, Entered, Unique
<1>7. Exact'
  <2>1. Ptr[s] = NULL /\ Ptr'[s] = e
    BY <1>2 DEF Ptr, Taken
  <2>2. \A g \in Entries : i_tab'[g].c_refs + One(g, Ptr[s]) = i_tab[g].c_refs + One(g, Ptr'[s])
    BY <1>1, <2>1
  <2>. QED BY <1>1, <1>2, <2>2, SlotCounts
<1>8. Uncovered'
  <2>1. \A h \in Holders : at[h] # NULL => at[h] \in Entries /\ MountsOn(at[h]) = {} /\ at[h] # e
    BY InUseWhenHeld DEF Good, Uncovered
  <2>2. ASSUME NEW g \in Entries, g # e, MountsOn(g) = {} PROVE MountsOn(g)' = {}
    BY <1>2, <2>2 DEF MountsOn, Taken
  <2>. QED BY <2>1, <2>2 DEF Uncovered
<1>9. NoRoots'
  <2>1. SUFFICES ASSUME NEW r \in Slots, OnSlot(r)' PROVE i_tab'[fs_tab'[r].s_mntpt].ino[2] # ROOTINODE
    BY DEF NoRoots
  <2>2. CASE r = s
    BY <1>2, <2>2
  <2>3. CASE r # s
    BY <1>2, <1>4, <2>1, <2>3 DEF Good, NoRoots, OnSlot, Taken
  <2>. QED BY <2>2, <2>3
<1>10. SlotsApart'
  <2>1. SUFFICES ASSUME NEW q \in Slots, NEW r \in Slots, Taken(q)', Taken(r)',
                        fs_tab'[q].s_dev = fs_tab'[r].s_dev
                 PROVE  q = r
    BY DEF SlotsApart
  <2>2. CASE q # s /\ r # s
    BY <1>2, <2>1, <2>2 DEF Good, SlotsApart, Taken
  <2>3. CASE q = s /\ r # s
    BY <1>2, <2>1, <2>3 DEF Listed, Taken
  <2>4. CASE q # s /\ r = s
    BY <1>2, <2>1, <2>4 DEF Listed, Taken
  <2>. QED BY <2>2, <2>3, <2>4
<1>11. RootSlot'
  BY <1>3 DEF Good, RootSlot, OnSlot, Taken
<1>12. MountedDevs' = MountedDevs \cup {d} /\ d \notin MountedDevs
  <2>1. ASSUME NEW c PROVE c \in MountedDevs' <=> c \in MountedDevs \/ c = d
    <3>1. c \in MountedDevs' <=> \E r \in Slots : /\ fs_tab'[r].s_mntpt # NULL
                                               /\ fs_tab'[r].state # "free"
                                               /\ fs_tab'[r].s_dev = c
      BY DEF MountedDevs, Taken
    <3>2. c \in MountedDevs <=> \E r \in Slots : /\ fs_tab[r].s_mntpt # NULL
                                              /\ fs_tab[r].state # "free"
                                              /\ fs_tab[r].s_dev = c
      BY DEF MountedDevs, Taken
    <3>. QED BY <1>2, <1>3, <3>1, <3>2
  <2>2. d \notin MountedDevs
    BY DEF MountedDevs, Listed
  <2>. QED BY <2>1, <2>2
<1>13. \A b, c : StandsOn(b, c) => StandsOn(b, c)' /\ c # d
  <2>1. \A b, c : StandsOn(b, c) => StandsOn(b, c)'
    BY <1>3, <1>4 DEF StandsOn, OnSlot, Taken
  <2>2. ASSUME NEW b, NEW c, StandsOn(b, c) PROVE Listed(c)
    <3>1. PICK r \in Slots : OnSlot(r) /\ i_tab[fs_tab[r].s_mntpt].ino[1] = c
      BY <2>2 DEF StandsOn, OnSlot
    <3>2. fs_tab[r].s_mntpt \in Entries /\ i_tab[fs_tab[r].s_mntpt].c_refs > 0
      BY <3>1, InUseWhenHeld
    <3>. QED BY <3>1, <3>2 DEF Good, Fit, Entered
  <2>. QED BY <2>1, <2>2
<1>14. \E c \in Devs : c # d /\ StandsOn(d, c)'
  <2>1. PICK c : c = i_tab'[e].ino[1]
    OBVIOUS
  <2>2. c \in Devs
    BY <1>1, <2>1, InodesArePairs
  <2>3. StandsOn(d, c)'
    BY <1>2, <2>1 DEF StandsOn, Taken
  <2>4. Listed(c)
    <3>1. One(e, e) = 1 /\ i_tab'[e].c_refs > 0
      BY <1>1 DEF One
    <3>. QED BY <1>1, <2>1, <3>1 DEF Fit, Entered
  <2>. QED BY <2>2, <2>3, <2>4
<1>15. Hangs'
  <2>1. SUFFICES ASSUME NEW D \in SUBSET (MountedDevs \cup {d}), D # {}
                 PROVE  \E b \in D : \E c \in Devs \ D : StandsOn(b, c)'
    BY <1>12 DEF Hangs
  <2>2. CASE D \ {d} = {}
    BY <1>14, <2>1, <2>2
  <2>3. CASE D \ {d} # {}
    <3>1. D \ {d} \in SUBSET MountedDevs
      BY <2>1
    <3>2. PICK b \in D \ {d} : \E c \in Devs \ (D \ {d}) : StandsOn(b, c)
      BY <2>3, <3>1 DEF Good, Hangs
    <3>3. PICK c \in Devs \ (D \ {d}) : StandsOn(b, c)
      BY <3>2
    <3>. QED BY <1>13, <3>2, <3>3
  <2>. QED BY <2>2, <2>3
<1>16. OnOf' = [c \in MountedDevs \cup {d} |-> IF c = d THEN i_tab'[e].ino ELSE OnOf[c]]
  <2>1. OnOf'[d] = i_tab'[e].ino
    <3>1. OnSlot(s)'
      BY <1>2 DEF OnSlot, Taken
    <3>. QED BY <1>2, <1>10, <3>1, OnAfter
  <2>2. ASSUME NEW c \in MountedDevs PROVE OnOf'[c] = OnOf[c]
    <3>1. PICK r \in Slots : OnSlot(r) /\ fs_tab[r].s_dev = c
      BY SlotsAreOn DEF Good, Typed
    <3>2. c \in Devs /\ OnSlot(r) /\ OnSlot(r)' /\ fs_tab'[r] = fs_tab[r] /\ fs_tab[r].s_dev = c
      BY <1>2, <1>3, <3>1 DEF Slot, OnSlot, Taken
    <3>3. OnOf'[c] = i_tab'[fs_tab'[r].s_mntpt].ino
      BY <1>2, <1>10, <3>2, OnAfter
    <3>4. OnOf[c] = i_tab[fs_tab[r].s_mntpt].ino
      BY <3>2, OnOfSlot
    <3>. QED BY <1>4, <3>2, <3>3, <3>4
  <2>3. OnOf' = [c \in MountedDevs' |-> OnOf'[c]]
    BY <1>2, <1>10, OnAfter
  <2>. QED BY <1>12, <2>1, <2>2, <2>3
<1>. QED BY <1>4, <1>5, <1>6, <1>7, <1>8, <1>9, <1>10, <1>11, <1>12, <1>15, <1>16 DEF Good

\* umount frees slot s, whose device nothing in use lies on.
LEMMA UmountDone ==
    ASSUME Good, UNCHANGED <<at, lost>>, NEW s \in Slots, OnSlot(s), NEW d, d = fs_tab[s].s_dev,
           fs_tab' = [fs_tab EXCEPT ![s].state = "free"],
           Fit(i_tab'), \A e \in Entries : i_tab[e].c_refs > 0 => i_tab'[e].ino = i_tab[e].ino,
           \A e \in Entries : i_tab'[e].c_refs + One(e, fs_tab[s].s_mntpt) = i_tab[e].c_refs,
           \A e \in Entries : i_tab[e].c_refs > 0 => i_tab[e].ino[1] # d
    PROVE  /\ Good' /\ PlaceOf' = PlaceOf /\ d \in MountedDevs /\ d \in Devs
           /\ MountedDevs' = MountedDevs \ {d}
           /\ OnOf' = [c \in MountedDevs \ {d} |-> OnOf[c]]
           /\ \A h \in Holders : Place(h) # NULL => Place(h) \in Inodes /\ Place(h)[1] # d
           /\ \A c \in MountedDevs : OnOf[c] \in Inodes /\ OnOf[c][1] # d
<1>1. /\ fs_tab \in [Slots -> Slot] /\ fs_tab' \in [Slots -> Slot]
      /\ \A r \in Slots : r # s => fs_tab'[r] = fs_tab[r]
      /\ fs_tab[s].state # "free" /\ fs_tab[s].s_mntpt # NULL /\ fs_tab'[s].state = "free"
  BY DEF OnSlot, Taken, Good, Typed, Slot
<1>2. \A q, r \in Slots : fs_tab[q].state # "free" /\ fs_tab[r].state # "free"
                          /\ fs_tab[q].s_dev = fs_tab[r].s_dev => q = r
  BY DEF Good, SlotsApart, Taken
<1>3. \A r \in Slots : fs_tab'[r].state # "free" =>
        fs_tab'[r] = fs_tab[r] /\ r # s /\ fs_tab[r].s_dev # d
  BY <1>1, <1>2
<1>4. PlaceOf' = PlaceOf /\ \A r \in Slots : OnSlot(r) =>
        /\ fs_tab[r].s_mntpt \in Entries /\ i_tab[fs_tab[r].s_mntpt].c_refs > 0
        /\ i_tab'[fs_tab[r].s_mntpt].ino = i_tab[fs_tab[r].s_mntpt].ino
  BY PlacesStay, InUseWhenHeld
<1>5. \A e \in Entries : /\ i_tab[e].c_refs \in Nat /\ i_tab'[e].c_refs \in Nat
                         /\ One(e, fs_tab[s].s_mntpt) \in Nat /\ One(e, NULL) = 0
  BY MountsAssumption DEF Good, Fit, Tables, Entry, One
<1>6. \A e \in Entries : i_tab'[e].c_refs > 0 => i_tab[e].c_refs > 0
  BY <1>5
<1>7. Typed'
  BY <1>1 DEF Typed, Good, Fit
<1>8. Fit(i_tab)'
  <2>1. ASSUME NEW c, Listed(c), c # d PROVE Listed(c)'
    BY <1>1, <2>1 DEF Listed, Taken
  <2>2. ASSUME NEW e \in Entries, i_tab'[e].c_refs > 0
        PROVE  i_tab'[e].ino # NULL /\ i_tab'[e].ino[1] # d /\ Listed(i_tab'[e].ino[1])
    BY <1>6, <2>2 DEF Good, Fit, Entered
  <2>3. \A e \in Entries : i_tab'[e].c_refs > 0 => i_tab'[e].ino # NULL /\ Listed(i_tab[e].ino[1])'
    <3>1. SUFFICES ASSUME NEW e \in Entries, i_tab'[e].c_refs > 0
                   PROVE  i_tab'[e].ino # NULL /\ Listed(i_tab[e].ino[1])'
      OBVIOUS
    <3>2. PICK c : c = i_tab'[e].ino[1]
      OBVIOUS
    <3>3. Listed(c)'
      BY <2>1, <2>2, <3>1, <3>2
    <3>4. Listed(i_tab[e].ino[1])'
      BY <3>2, <3>3 DEF Listed
    <3>. QED BY <2>2, <3>1, <3>4
  <2>. QED BY <2>3 DEF Fit, Entered, Unique
<1>9. Exact'
  <2>1. Ptr[s] = fs_tab[s].s_mntpt /\ Ptr'[s] = NULL
    BY <1>1 DEF Ptr, Taken
  <2>2. \A e \in Entries : i_tab'[e].c_refs + One(e, Ptr[s]) = i_tab[e].c_refs + One(e, Ptr'[s])
    BY <1>5, <2>1
  <2>. QED BY <1>1, <2>2, SlotCounts
<1>10. Uncovered'
  <2>1. \A e : MountsOn(e) = {} => MountsOn(e)' = {}
    BY <1>3 DEF MountsOn, Taken
  <2>. QED BY <2>1 DEF Uncovered, Good
<1>11. NoRoots'
  BY <1>3, <1>4 DEF NoRoots, Good, OnSlot, Taken
<1>12. SlotsApart'
  BY <1>2, <1>3 DEF SlotsApart, Taken
<1>13. RootSlot'
  BY <1>1 DEF Good, RootSlot, OnSlot, Taken
<1>14. MountedDevs' = MountedDevs \ {d} /\ d \in MountedDevs /\ d \in Devs
  <2>1. ASSUME NEW c PROVE c \in MountedDevs' <=> c \in MountedDevs /\ c # d
    <3>1. c \in MountedDevs' <=> \E r \in Slots : /\ fs_tab'[r].s_mntpt # NULL
                                               /\ fs_tab'[r].state # "free"
                                               /\ fs_tab'[r].s_dev = c
      BY DEF MountedDevs, Taken
    <3>2. c \in MountedDevs <=> \E r \in Slots : /\ fs_tab[r].s_mntpt # NULL
                                              /\ fs_tab[r].state # "free"
                                              /\ fs_tab[r].s_dev = c
      BY DEF MountedDevs, Taken
    <3>. QED BY <1>1, <1>3, <3>1, <3>2
  <2>2. d \in MountedDevs /\ d \in Devs
    BY SlotsAreOn DEF Good, Typed, Slot
  <2>. QED BY <2>1, <2>2
<1>15. \A b, c : StandsOn(b, c) /\ b # d => StandsOn(b, c)'
  BY <1>1, <1>4 DEF StandsOn, OnSlot, Taken
<1>16. Hangs'
  <2>1. SUFFICES ASSUME NEW D \in SUBSET (MountedDevs \ {d}), D # {}
                 PROVE  \E b \in D : \E c \in Devs \ D : StandsOn(b, c)'
    BY <1>14 DEF Hangs
  <2>2. PICK b \in D : \E c \in Devs \ D : StandsOn(b, c)
    BY <2>1 DEF Good, Hangs
  <2>. QED BY <1>15, <2>1, <2>2
<1>17. ASSUME NEW c \in MountedDevs
       PROVE  OnOf[c] \in Inodes /\ OnOf[c][1] # d /\ (c # d => OnOf'[c] = OnOf[c])
  <2>1. PICK r \in Slots : OnSlot(r) /\ fs_tab[r].s_dev = c
    BY SlotsAreOn DEF Good, Typed
  <2>2. OnOf[c] = i_tab[fs_tab[r].s_mntpt].ino
    BY <2>1, OnOfSlot
  <2>3. OnOf[c] \in Inodes /\ OnOf[c][1] # d
    BY <1>4, <2>1, <2>2 DEF Good, Fit, Entered, Tables, Entry
  <2>4. ASSUME c # d PROVE OnOf'[c] = OnOf[c]
    <3>1. c \in Devs /\ OnSlot(r)' /\ fs_tab'[r] = fs_tab[r]
      BY <1>1, <2>1, <2>4 DEF Slot, OnSlot, Taken
    <3>2. OnOf'[c] = i_tab'[fs_tab'[r].s_mntpt].ino
      BY <1>1, <1>12, <2>1, <3>1, OnAfter
    <3>. QED BY <1>4, <2>1, <2>2, <3>1, <3>2
  <2>. QED BY <2>3, <2>4
<1>18. OnOf' = [c \in MountedDevs \ {d} |-> OnOf[c]]
  <2>1. OnOf' = [c \in MountedDevs' |-> OnOf'[c]]
    BY <1>1, <1>12, OnAfter
  <2>. QED BY <1>14, <1>17, <2>1
<1>19. ASSUME NEW h \in Holders, Place(h) # NULL PROVE Place(h) \in Inodes /\ Place(h)[1] # d
  <2>1. at[h] # NULL /\ Place(h) = i_tab[at[h]].ino
    BY <1>19 DEF Place
  <2>2. at[h] \in Entries /\ i_tab[at[h]].c_refs > 0
    BY <2>1, InUseWhenHeld
  <2>. QED BY <1>19, <2>1, <2>2 DEF Good, Fit, Tables, Entry
<1>. QED BY <1>4, <1>7, <1>8, <1>9, <1>10, <1>11, <1>12, <1>13, <1>14, <1>16, <1>17, <1>18, <1>19 DEF Good

----------------------------------------------------------------------------
\* The second path of mount, when the first one has found the entry x.
LEMMA SecondPath ==
    ASSUME Good, NEW t, NEW x \in Entries, Mid(t, Plus(Zero, x)),
           NEW g \in Holders, NEW n \in Names, at[g] # NULL, NEW r \in Namei(t, at[g], n)
    PROVE  /\ r[2] \in Opt /\ Mid(r[1], Plus(Plus(Zero, x), r[2])) /\ r[1][x].ino \in Inodes
           /\ \A u \in Deref(r[1], x) : /\ Mid(u, Plus(Zero, r[2]))
                                       /\ \A e \in Entries : u[e].ino = r[1][e].ino
           /\ r[2] # NULL => /\ MountsOn(r[2]) = {}
                             /\ Finds(i_tab[at[g]].ino, n, r[1][r[2]].ino)
<1>1. at[g] \in Entries /\ i_tab[at[g]].c_refs > 0 /\ MountsOn(at[g]) = {}
  BY InUseWhenHeld DEF Good, Uncovered
<1>2. /\ r[2] \in Opt /\ Mid(r[1], Plus(Plus(Zero, x), r[2]))
      /\ r[2] # NULL => /\ MountsOn(r[2]) = {}
                        /\ Finds(i_tab[at[g]].ino, n, r[1][r[2]].ino)
  BY <1>1, NameiMid
<1>. DEFINE own == Plus(Plus(Zero, x), r[2])
<1>3. own[x] > 0 /\ Minus(own, x) = Plus(Zero, r[2])
  BY <1>2, ZeroMid, BagSums
<1>4. \A u \in Deref(r[1], x) : Mid(u, Plus(Zero, r[2])) /\ \A e \in Entries : u[e].ino = r[1][e].ino
  BY <1>2, <1>3, DerefMid
<1>5. r[1][x].ino \in Inodes
  <2>1. r[1][x].c_refs = i_tab[x].c_refs + own[x] /\ own[x] \in Nat /\ i_tab[x].c_refs \in Nat
    BY <1>2 DEF Mid, Bags, Good, Fit, Tables, Entry
  <2>2. r[1][x].c_refs > 0
    BY <1>3, <2>1
  <2>. QED BY <1>2, <2>2 DEF Mid, Fit, Entered, Tables, Entry
<1>. QED BY <1>2, <1>4, <1>5

Unsnared == snared = FALSE

\* mount has come to a mount point that it may take.
LEMMA FmountStep ==
    ASSUME Good, UNCHANGED <<at, lost>>, NEW x \in Entries, NEW e \in Entries, NEW r1,
           Mid(r1, Plus(Plus(Zero, x), e)),
           NEW g \in Holders, NEW n \in Names, at[g] # NULL, Asked(at[g], n),
           Finds(i_tab[at[g]].ino, n, r1[e].ino),
           NEW d \in Devs \cup {NULL}, MayMount(r1, d, e),
           NEW t, Mid(t, Plus(Zero, e)), \A f \in Entries : t[f].ino = r1[f].ino,
           Fmount(t, d, e), Unsnared, Unsnared'
    PROVE  Good' /\ (Paths!Fail \/ \E c \in Devs, i \in Inodes : Paths!Mount(c, i))
<1>1. d \in Devs /\ ~Listed(d) /\ r1[e].c_refs = 1 /\ r1[e].ino[2] # ROOTINODE /\ r1[e].ino \in Directories
  BY DEF MayMount
<1>2. i_tab[e].c_refs = 0
  <2>1. Plus(Plus(Zero, x), e)[e] > 0 /\ Plus(Plus(Zero, x), e) \in Bags
    BY ZeroMid, BagSums DEF Opt
  <2>2. /\ r1[e].c_refs = i_tab[e].c_refs + Plus(Plus(Zero, x), e)[e]
        /\ i_tab[e].c_refs \in Nat /\ Plus(Plus(Zero, x), e)[e] \in Nat
    BY <2>1 DEF Mid, Bags, Good, Fit, Tables, Entry
  <2>. QED BY <1>1, <2>1, <2>2
<1>3. fs_tab \in [Slots -> Slot]
  BY DEF Good, Typed
<1>4. Paths!Ask(g, n) /\ PlaceOf[g] = i_tab[at[g]].ino
  BY Asks DEF PlaceOf
<1>5. Plus(Zero, e)[e] > 0 /\ Minus(Plus(Zero, e), e) = Zero
      /\ Plus(Plus(Zero, e), e)[e] > 0 /\ Minus(Plus(Plus(Zero, e), e), e) = Plus(Zero, e)
  BY ZeroMid, BagSums DEF Opt
<1>6. ASSUME UNCHANGED snared, i_tab' \in Deref(t, e), NEW s \in Slots, LastFree(s), ~OnSlot(s)',
             fs_tab' \in [Slots -> Slot], \A q \in Slots : q # s => fs_tab'[q] = fs_tab[q],
             Taken(s)' => fs_tab'[s].s_dev = d
      PROVE  Good' /\ Paths!Fail
  <2>1. Mid(i_tab', Zero)
    BY <1>5, <1>6, DerefMid
  <2>2. Good' /\ OnOf' = OnOf /\ PlaceOf' = PlaceOf
    BY <1>1, <1>6, <2>1, MountGivenUp DEF LastFree
  <2>. QED BY <1>4, <1>6, <2>2 DEF Paths!Fail, PlaceOf, OnOf
<1>7. PICK s \in Slots :
        /\ LastFree(s)
        /\ \/ /\ fs_tab' = [fs_tab EXCEPT ![s] = [state |-> "mounted", s_dev |-> d, s_mntpt |-> e]]
              /\ i_tab' \in UNION {Deref(u, e) : u \in IRef(t, e)}
              /\ UNCHANGED snared
           \/ /\ fs_tab' = [fs_tab EXCEPT ![s].state = "locked", ![s].s_dev = d]
              /\ i_tab' \in Deref(t, e)
              /\ snared' = (snared \/ fs_tab[s].s_mntpt # NULL)
           \/ /\ \E f \in Opt : fs_tab' = [fs_tab EXCEPT ![s] = [state |-> "free", s_dev |-> d, s_mntpt |-> f]]
              /\ i_tab' \in Deref(t, e)
              /\ UNCHANGED snared
  BY DEF Fmount, Opt
<1>8. CASE /\ fs_tab' = [fs_tab EXCEPT ![s].state = "locked", ![s].s_dev = d]
           /\ i_tab' \in Deref(t, e)
           /\ snared' = (snared \/ fs_tab[s].s_mntpt # NULL)
  <2>1. fs_tab[s].s_mntpt = NULL /\ UNCHANGED snared
    BY <1>8 DEF Unsnared
  <2>2. /\ fs_tab' \in [Slots -> Slot] /\ \A q \in Slots : q # s => fs_tab'[q] = fs_tab[q]
        /\ fs_tab'[s].s_dev = d /\ fs_tab'[s].s_mntpt = NULL
    BY <1>1, <1>3, <1>8, <2>1 DEF Slot
  <2>3. ~OnSlot(s)'
    BY <2>2 DEF OnSlot
  <2>. QED BY <1>6, <1>7, <1>8, <2>1, <2>2, <2>3
<1>9. CASE /\ \E f \in Opt : fs_tab' = [fs_tab EXCEPT ![s] = [state |-> "free", s_dev |-> d, s_mntpt |-> f]]
           /\ i_tab' \in Deref(t, e)
           /\ UNCHANGED snared
  <2>1. PICK f \in Opt : fs_tab' = [fs_tab EXCEPT ![s] = [state |-> "free", s_dev |-> d, s_mntpt |-> f]]
    BY <1>9
  <2>2. /\ fs_tab' \in [Slots -> Slot] /\ \A q \in Slots : q # s => fs_tab'[q] = fs_tab[q]
        /\ fs_tab'[s].s_dev = d /\ fs_tab'[s].state = "free"
    BY <1>1, <1>3, <2>1 DEF Slot, Opt
  <2>3. ~OnSlot(s)' /\ (Taken(s)' => fs_tab'[s].s_dev = d)
    BY <2>2 DEF OnSlot, Taken
  <2>. QED BY <1>6, <1>7, <1>9, <2>2, <2>3
<1>10. CASE /\ fs_tab' = [fs_tab EXCEPT ![s] = [state |-> "mounted", s_dev |-> d, s_mntpt |-> e]]
            /\ i_tab' \in UNION {Deref(u, e) : u \in IRef(t, e)}
            /\ UNCHANGED snared
  <2>1. PICK u \in IRef(t, e) : i_tab' \in Deref(u, e)
    BY <1>10
  <2>2. t[e].ino # NULL /\ Listed(t[e].ino[1])
    <3>1. t[e].c_refs = i_tab[e].c_refs + Plus(Zero, e)[e] /\ Plus(Zero, e)[e] = 1
      BY ZeroMid DEF Mid, One
    <3>. QED BY <1>2, <3>1 DEF Mid, Fit, Entered
  <2>3. Mid(u, Plus(Plus(Zero, e), e)) /\ u[e].ino = t[e].ino
    BY <2>2, RefMid
  <2>4. Mid(i_tab', Plus(Zero, e)) /\ i_tab'[e].ino = r1[e].ino
    BY <1>5, <2>1, <2>3, DerefMid
  <2>5. /\ Good' /\ PlaceOf' = PlaceOf /\ d \notin MountedDevs
        /\ OnOf' = [c \in MountedDevs \cup {d} |-> IF c = d THEN i_tab'[e].ino ELSE OnOf[c]]
    <3>1. ~Taken(s) /\ i_tab'[e].ino[2] # ROOTINODE
      BY <1>1, <1>7, <2>4 DEF LastFree
    <3>2. fs_tab' = [fs_tab EXCEPT ![s] = [state |-> "mounted", s_dev |-> d, s_mntpt |-> e]]
      BY <1>10
    <3>. QED BY <1>1, <1>2, <2>4, <3>1, <3>2, MountDone
  <2>. DEFINE i == r1[e].ino
              roots == [c \in Devs |-> Root(c)]
  <2>6. i \in Inodes
    <3>1. i_tab'[e].ino \in Inodes
      BY <2>4, MidCounts, MountsAssumption DEF Opt
    <3>. QED BY <2>4, <3>1
  <2>7. d # ROOTDEV
    BY <1>1 DEF Good, RootSlot, Listed
  <2>8. \A c \in Devs : i # roots[c]
    BY <1>1, InodesArePairs
  <2>9. ASSUME NEW h \in Holders PROVE PlaceOf[h] # i
    <3>1. CASE at[h] = NULL
      BY <2>6, <3>1, InodesArePairs DEF PlaceOf, Place
    <3>2. CASE at[h] # NULL
      <4>1. at[h] \in Entries /\ i_tab[at[h]].c_refs > 0 /\ PlaceOf[h] = i_tab[at[h]].ino
        BY <3>2, InUseWhenHeld DEF PlaceOf, Place
      <4>2. at[h] # e /\ r1[at[h]].ino = i_tab[at[h]].ino
        BY <1>2, <4>1 DEF Mid
      <4>3. i # NULL /\ r1[e].ino = i
        BY <2>6, InodesArePairs
      <4>. QED BY <4>1, <4>2, <4>3 DEF Mid, Fit, Unique
    <3>. QED BY <3>1, <3>2
  <2>10. Paths!Found(PlaceOf[g], n, i)
    BY <1>4, FindsFound
  <2>11. Paths!Reach(i)
    BY <1>4, <2>10 DEF Paths!Reach, PlaceOf
  <2>12. i \in Directories
    BY <1>1
  <2>13. OnOf' = [c \in MountedDevs \cup {d} |-> IF c = d THEN i ELSE OnOf[c]] /\ DOMAIN OnOf = MountedDevs
    BY <2>4, <2>5 DEF OnOf
  <2>. HIDE DEF i
  <2>14. Paths!Mount(d, i)
    BY <1>10, <2>5, <2>7, <2>8, <2>9, <2>11, <2>12, <2>13 DEF Paths!Mount, Paths!Mounted, PlaceOf, OnOf
  <2>. QED BY <1>1, <2>5, <2>6, <2>14
<1>. QED BY <1>7, <1>8, <1>9, <1>10

LEMMA MountStep ==
    ASSUME Good, NEW h \in Holders, NEW m \in Names, NEW g \in Holders, NEW n \in Names,
           Mount(h, m, g, n), Unsnared, Unsnared'
    PROVE  Good' /\ (Paths!Fail \/ \E c \in Devs, i \in Inodes : Paths!Mount(c, i))
<1>1. at[h] # NULL /\ at[g] # NULL /\ Asked(at[g], n) /\ UNCHANGED <<at, lost>>
  BY DEF Mount
<1>2. PICK q \in Namei(i_tab, at[h], m) :
        IF q[2] = NULL THEN i_tab' = q[1] /\ UNCHANGED <<fs_tab, snared>>
        ELSE \E r \in Namei(q[1], at[g], n) :
          IF r[2] = NULL THEN i_tab' \in Deref(r[1], q[2]) /\ UNCHANGED <<fs_tab, snared>>
          ELSE \/ i_tab' \in DropBoth(r[1], r[2], q[2]) /\ UNCHANGED <<fs_tab, snared>>
               \/ /\ MayMount(r[1], Special[r[1][q[2]].ino], r[2])
                  /\ \E t \in Deref(r[1], q[2]) : Fmount(t, Special[r[1][q[2]].ino], r[2])
  BY DEF Mount
<1>. DEFINE x == q[2]
<1>3. /\ x \in Opt /\ Mid(q[1], Plus(Zero, x))
      /\ x = NULL => Mid(q[1], Zero)
  BY <1>1, FirstPath
<1>4. CASE x = NULL
  BY <1>1, <1>2, <1>3, <1>4, NothingDone
<1>5. CASE x # NULL
  <2>1. x \in Entries
    BY <1>3, <1>5 DEF Opt
  <2>2. PICK r \in Namei(q[1], at[g], n) :
          IF r[2] = NULL THEN i_tab' \in Deref(r[1], x) /\ UNCHANGED <<fs_tab, snared>>
          ELSE \/ i_tab' \in DropBoth(r[1], r[2], x) /\ UNCHANGED <<fs_tab, snared>>
               \/ /\ MayMount(r[1], Special[r[1][x].ino], r[2])
                  /\ \E t \in Deref(r[1], x) : Fmount(t, Special[r[1][x].ino], r[2])
    BY <1>2, <1>5
  <2>. HIDE DEF x
  <2>3. /\ r[2] \in Opt /\ Mid(r[1], Plus(Plus(Zero, x), r[2])) /\ r[1][x].ino \in Inodes
        /\ \A u \in Deref(r[1], x) : /\ Mid(u, Plus(Zero, r[2]))
                                    /\ \A e \in Entries : u[e].ino = r[1][e].ino
        /\ r[2] # NULL => /\ MountsOn(r[2]) = {}
                          /\ Finds(i_tab[at[g]].ino, n, r[1][r[2]].ino)
    BY <1>1, <1>3, <2>1, SecondPath
  <2>4. CASE r[2] = NULL
    <3>1. i_tab' \in Deref(r[1], x) /\ UNCHANGED <<fs_tab, snared>>
      BY <2>2, <2>4
    <3>2. Plus(Zero, NULL) = Zero
      BY <2>1, ZeroMid, BagSums DEF Opt
    <3>3. Mid(i_tab', Zero)
      BY <2>3, <2>4, <3>1, <3>2
    <3>. QED BY <1>1, <3>1, <3>3, NothingDone
  <2>5. CASE r[2] # NULL /\ i_tab' \in DropBoth(r[1], r[2], x) /\ UNCHANGED <<fs_tab, snared>>
    <3>1. r[2] \in Entries
      BY <2>3, <2>5 DEF Opt
    <3>2. PICK u \in Deref(r[1], r[2]) : i_tab' \in Deref(u, x)
      BY <2>5 DEF DropBoth
    <3>3. /\ Plus(Plus(Zero, x), r[2])[r[2]] > 0
          /\ Minus(Plus(Plus(Zero, x), r[2]), r[2]) = Plus(Zero, x)
          /\ Plus(Zero, x)[x] > 0 /\ Minus(Plus(Zero, x), x) = Zero
      <4>1. Plus(Zero, x) \in Bags
        BY <2>1, ZeroMid, BagSums DEF Opt
      <4>. QED BY <2>1, <3>1, <4>1, ZeroMid, BagSums DEF Opt
    <3>4. Mid(u, Plus(Zero, x))
      BY <2>3, <3>1, <3>2, <3>3, DerefMid
    <3>5. Mid(i_tab', Zero)
      BY <2>1, <3>2, <3>3, <3>4, DerefMid
    <3>. QED BY <1>1, <2>5, <3>5, NothingDone
  <2>6. CASE /\ r[2] # NULL /\ MayMount(r[1], Special[r[1][x].ino], r[2])
             /\ \E t \in Deref(r[1], x) : Fmount(t, Special[r[1][x].ino], r[2])
    <3>1. r[2] \in Entries
      BY <2>3, <2>6 DEF Opt
    <3>2. PICK t \in Deref(r[1], x) : Fmount(t, Special[r[1][x].ino], r[2])
      BY <2>6
    <3>3. PICK d, r1, e : d = Special[r[1][x].ino] /\ r1 = r[1] /\ e = r[2]
      OBVIOUS
    <3>4. d \in Devs \cup {NULL} /\ e \in Entries
      BY <2>3, <3>1, <3>3, MountsAssumption
    <3>5. /\ MayMount(r1, d, e) /\ Fmount(t, d, e) /\ Mid(r1, Plus(Plus(Zero, x), e))
          /\ Mid(t, Plus(Zero, e)) /\ \A f \in Entries : t[f].ino = r1[f].ino
          /\ Finds(i_tab[at[g]].ino, n, r1[e].ino)
      BY <2>3, <2>6, <3>2, <3>3
    <3>. QED BY <1>1, <2>1, <3>4, <3>5, FmountStep
  <2>. QED BY <2>2, <2>4, <2>5, <2>6
<1>. QED BY <1>4, <1>5

LEMMA UmountStep ==
    ASSUME Good, NEW h \in Holders, NEW m \in Names, Umount(h, m)
    PROVE  Good' /\ (Paths!Fail \/ \E d \in Devs : Paths!Umount(d))
<1>1. at[h] # NULL /\ Asked(at[h], m) /\ UNCHANGED <<at, lost, snared>>
  BY DEF Umount
<1>2. PICK q \in Namei(i_tab, at[h], m) :
        IF q[2] = NULL THEN i_tab' = q[1] /\ UNCHANGED fs_tab
        ELSE \/ i_tab' \in Deref(q[1], q[2]) /\ UNCHANGED fs_tab
             \/ /\ ~Busy(q[1], Special[q[1][q[2]].ino])
                /\ \E s \in Slots :
                     /\ Findfs(s, Special[q[1][q[2]].ino]) /\ fs_tab[s].s_mntpt # NULL
                     /\ fs_tab' = [fs_tab EXCEPT ![s].state = "free"]
                     /\ i_tab' \in DropBoth(q[1], fs_tab[s].s_mntpt, q[2])
  BY DEF Umount
<1>. DEFINE x == q[2]
<1>3. /\ x \in Opt /\ Mid(q[1], Plus(Zero, x))
      /\ x = NULL => Mid(q[1], Zero)
  BY <1>1, FirstPath
<1>4. CASE x = NULL
  BY <1>1, <1>2, <1>3, <1>4, NothingDone
<1>5. CASE x # NULL /\ i_tab' \in Deref(q[1], x) /\ UNCHANGED fs_tab
  <2>1. x \in Entries
    BY <1>3, <1>5 DEF Opt
  <2>2. Plus(Zero, x)[x] > 0 /\ Minus(Plus(Zero, x), x) = Zero
    BY <2>1, ZeroMid
  <2>. HIDE DEF x
  <2>3. Mid(i_tab', Zero)
    BY <1>3, <1>5, <2>1, <2>2, DerefMid
  <2>. QED BY <1>1, <1>5, <2>3, NothingDone
<1>6. CASE /\ x # NULL /\ ~Busy(q[1], Special[q[1][x].ino])
           /\ \E s \in Slots :
                /\ Findfs(s, Special[q[1][x].ino]) /\ fs_tab[s].s_mntpt # NULL
                /\ fs_tab' = [fs_tab EXCEPT ![s].state = "free"]
                /\ i_tab' \in DropBoth(q[1], fs_tab[s].s_mntpt, x)
  <2>1. PICK d : d = Special[q[1][x].ino]
    OBVIOUS
  <2>2. PICK s \in Slots :
          /\ Findfs(s, d) /\ fs_tab[s].s_mntpt # NULL
          /\ fs_tab' = [fs_tab EXCEPT ![s].state = "free"]
          /\ i_tab' \in DropBoth(q[1], fs_tab[s].s_mntpt, x)
    BY <1>6, <2>1
  <2>3. x \in Entries /\ OnSlot(s) /\ fs_tab[s].s_dev = d
    BY <1>3, <1>6, <2>2 DEF Opt, OnSlot, Findfs
  <2>. DEFINE p == fs_tab[s].s_mntpt
  <2>4. p \in Entries
    BY <2>3, InUseWhenHeld
  <2>5. PICK u \in Deref(q[1], p) : i_tab' \in Deref(u, x)
    BY <2>2 DEF DropBoth
  <2>. HIDE DEF x, p
  <2>6. /\ Fit(q[1])
        /\ \A e \in Entries : q[1][e].c_refs = i_tab[e].c_refs + One(e, x)
        /\ \A e \in Entries : i_tab[e].c_refs > 0 => q[1][e].ino = i_tab[e].ino
        /\ \A e \in Entries : i_tab[e].c_refs \in Nat /\ q[1][e].c_refs \in Nat /\ One(e, x) \in Nat
    BY <1>3, MidCounts
  <2>7. /\ Fit(u)
        /\ \A e \in Entries : u[e].ino = q[1][e].ino /\ u[e].c_refs = q[1][e].c_refs - One(e, p)
    BY <2>4, <2>5, <2>6, DerefFit
  <2>8. /\ Fit(i_tab')
        /\ \A e \in Entries : i_tab'[e].ino = u[e].ino /\ i_tab'[e].c_refs = u[e].c_refs - One(e, x)
    BY <2>3, <2>5, <2>7, DerefFit
  <2>9. \A e \in Entries : One(e, p) \in Nat
    BY DEF One
  <2>10. \A e \in Entries : i_tab'[e].c_refs + One(e, p) = i_tab[e].c_refs
    BY <2>6, <2>7, <2>8, <2>9
  <2>11. \A e \in Entries : i_tab[e].c_refs > 0 => i_tab'[e].ino = i_tab[e].ino
    BY <2>6, <2>7, <2>8
  <2>12. \A e \in Entries : i_tab[e].c_refs > 0 => i_tab[e].ino[1] # d
    <3>1. SUFFICES ASSUME NEW e \in Entries, i_tab[e].c_refs > 0 PROVE i_tab[e].ino[1] # d
      OBVIOUS
    <3>2. q[1][e].c_refs > 0 /\ q[1][e].ino = i_tab[e].ino
      BY <2>6, <3>1
    <3>. QED BY <1>6, <2>1, <3>2 DEF Busy
  <2>13. /\ Good' /\ PlaceOf' = PlaceOf /\ d \in MountedDevs /\ d \in Devs
         /\ OnOf' = [c \in MountedDevs \ {d} |-> OnOf[c]]
         /\ \A k \in Holders : Place(k) # NULL => Place(k) \in Inodes /\ Place(k)[1] # d
         /\ \A c \in MountedDevs : OnOf[c] \in Inodes /\ OnOf[c][1] # d
    <3>1. \A e \in Entries : i_tab'[e].c_refs + One(e, fs_tab[s].s_mntpt) = i_tab[e].c_refs
      BY <2>10 DEF p
    <3>2. d = fs_tab[s].s_dev /\ fs_tab' = [fs_tab EXCEPT ![s].state = "free"]
      BY <2>2, <2>3
    <3>3. UNCHANGED <<at, lost>> /\ OnSlot(s) /\ Fit(i_tab')
      BY <1>1, <2>3, <2>8
    <3>. QED BY <2>11, <2>12, <3>1, <3>2, <3>3, UmountDone
  <2>. DEFINE devof == [i \in Inodes |-> i[1]]
  <2>14. /\ \A k \in Holders : PlaceOf[k] # NULL => devof[PlaceOf[k]] # d
         /\ \A c \in MountedDevs : devof[OnOf[c]] # d
         /\ DOMAIN OnOf = MountedDevs
    BY <2>13 DEF PlaceOf, OnOf
  <2>15. Paths!Ask(h, m)
    BY <1>1, Asks
  <2>16. Paths!Umount(d)
    BY <1>1, <2>13, <2>14, <2>15 DEF Paths!Umount, Paths!Mounted, PlaceOf, OnOf
  <2>. QED BY <2>13, <2>16
<1>. QED BY <1>2, <1>4, <1>5, <1>6

----------------------------------------------------------------------------
(* The inductive invariant: up to the first old pointer in force, Good.    *)
IInv == snared \in BOOLEAN /\ (snared = FALSE => Good)

LEMMA InitGood == Init => IInv
<1>. SUFFICES ASSUME Init PROVE IInv
  OBVIOUS
<1>1. PICK e \in Entries :
        /\ i_tab = [f \in Entries |-> IF f = e THEN [ino |-> Root(ROOTDEV), c_refs |-> 1]
                                     ELSE [ino |-> NULL, c_refs |-> 0]]
        /\ fs_tab = [s \in Slots |-> [state |-> IF s = NFS THEN "mounted" ELSE "free",
                                      s_dev |-> ROOTDEV, s_mntpt |-> NULL]]
        /\ at = [h \in Holders |-> IF h = Keeper THEN e ELSE NULL]
        /\ lost = [f \in Entries |-> 0]
        /\ snared = FALSE
  BY DEF Init
<1>2. Root(ROOTDEV) \in Inodes /\ Root(ROOTDEV)[1] = ROOTDEV /\ Root(ROOTDEV) # NULL
  BY InodesArePairs, MountsAssumption
<1>3. NFS \in Slots /\ Keeper \in Holders /\ e # NULL /\ ROOTDEV \in Devs
  BY MountsAssumption DEF Slots
<1>4. /\ \A s \in Slots : /\ fs_tab[s].s_dev = ROOTDEV /\ fs_tab[s].s_mntpt = NULL
                          /\ Taken(s) <=> s = NFS
      /\ \A f \in Entries : /\ f = e => i_tab[f].ino = Root(ROOTDEV) /\ i_tab[f].c_refs = 1
                            /\ f # e => i_tab[f].ino = NULL /\ i_tab[f].c_refs = 0
      /\ \A h \in Holders : at[h] = IF h = Keeper THEN e ELSE NULL
  BY <1>1 DEF Taken
<1>5. Typed
  <2>1. i_tab \in Tables
    BY <1>1, <1>2 DEF Tables, Entry
  <2>2. fs_tab \in [Slots -> Slot]
    BY <1>1, <1>3 DEF Slot
  <2>3. at \in [Holders -> Opt] /\ at[Keeper] # NULL
    BY <1>1, <1>3 DEF Opt
  <2>4. lost \in Bags
    BY <1>1 DEF Bags
  <2>. QED BY <2>1, <2>2, <2>3, <2>4 DEF Typed
<1>6. Fit(i_tab)
  <2>1. Listed(ROOTDEV)
    BY <1>3, <1>4 DEF Listed
  <2>2. Entered(i_tab)
    BY <1>2, <1>4, <2>1 DEF Entered
  <2>3. Unique(i_tab)
    BY <1>4 DEF Unique
  <2>. QED BY <1>5, <2>2, <2>3 DEF Fit, Typed
<1>7. \A f \in Entries : MountsOn(f) = {}
  BY <1>4, MountsAssumption DEF MountsOn
<1>8. Exact
  <2>1. HoldersOf(e) = {Keeper} /\ \A f \in Entries : f # e => HoldersOf(f) = {}
    BY <1>3, <1>4, MountsAssumption DEF HoldersOf
  <2>2. Cardinality({Keeper}) = 1 /\ Cardinality({}) = 0
    BY FS_Singleton, FS_EmptySet
  <2>3. ASSUME NEW f \in Entries
        PROVE  i_tab[f].c_refs = Cardinality(HoldersOf(f)) + Cardinality(MountsOn(f)) + lost[f]
    <3>1. Cardinality(MountsOn(f)) = 0 /\ lost[f] = 0
      BY <1>1, <1>7, <2>2
    <3>2. CASE f = e
      <4>1. Cardinality(HoldersOf(f)) = 1
        BY <2>1, <2>2, <3>2
      <4>2. i_tab[f].c_refs = 1
        BY <1>4, <3>2
      <4>. QED BY <3>1, <4>1, <4>2
    <3>3. CASE f # e
      <4>1. Cardinality(HoldersOf(f)) = 0
        BY <2>1, <2>2, <3>3
      <4>2. i_tab[f].c_refs = 0
        BY <1>4, <3>3
      <4>. QED BY <3>1, <4>1, <4>2
    <3>. QED BY <3>2, <3>3
  <2>. QED BY <2>3 DEF Exact
<1>9. Uncovered
  BY <1>4, <1>7 DEF Uncovered
<1>10. MountedDevs = {} /\ \A s \in Slots : ~OnSlot(s)
  BY <1>4 DEF MountedDevs, OnSlot
<1>11. NoRoots /\ SlotsApart /\ RootSlot /\ Hangs
  BY <1>3, <1>4, <1>10 DEF NoRoots, SlotsApart, RootSlot, Hangs
<1>. QED BY <1>1, <1>5, <1>6, <1>8, <1>9, <1>11 DEF IInv, Good

\* Once snared, always snared.
LEMMA SnaredStays ==
    ASSUME snared \in BOOLEAN, [Next]_vars
    PROVE  snared' \in BOOLEAN /\ (snared = TRUE => snared' = TRUE)
<1>1. CASE UNCHANGED snared
  BY <1>1
<1>2. CASE \E b \in BOOLEAN : snared' = (snared \/ b)
  BY <1>2
<1>3. ASSUME NEW t, NEW d, NEW e, Fmount(t, d, e)
      PROVE  UNCHANGED snared \/ \E b \in BOOLEAN : snared' = (snared \/ b)
  BY <1>3 DEF Fmount
<1>4. ASSUME NEW h \in Holders, NEW m \in Names, NEW g \in Holders, NEW n \in Names, Mount(h, m, g, n)
      PROVE  UNCHANGED snared \/ \E b \in BOOLEAN : snared' = (snared \/ b)
  BY <1>3, <1>4 DEF Mount
<1>5. CASE UNCHANGED vars
  BY <1>1, <1>5 DEF vars
<1>6. ASSUME NEW h \in Holders, NEW n \in Names,
             \/ \E s \in Holders : Open(h, s, n)
             \/ Chdir(h, n)
             \/ \E g \in Holders, m \in Names : Mount(h, m, g, n)
             \/ Umount(h, n)
      PROVE  UNCHANGED snared \/ \E b \in BOOLEAN : snared' = (snared \/ b)
  BY <1>4, <1>6 DEF Open, Chdir, Umount
<1>7. ASSUME NEW h \in Holders, Close(h) \/ \E g \in Holders : Fork(h, g)
      PROVE  UNCHANGED snared
  BY <1>7 DEF Close, Fork
<1>. QED BY <1>1, <1>2, <1>5, <1>6, <1>7 DEF Next

LEMMA StepGood ==
    ASSUME Good, Next, Unsnared, Unsnared'
    PROVE  Good' /\ Paths!Next
<1>1. ASSUME NEW h \in Holders, NEW s \in Holders, NEW n \in Names, Open(h, s, n)
      PROVE  Good' /\ Paths!Next
  <2>1. Good' /\ (Paths!Fail \/ \E j \in Inodes : Paths!Move(h, j))
    BY <1>1, OpenStep
  <2>. QED BY <2>1 DEF Paths!Next
<1>2. ASSUME NEW h \in Holders, NEW n \in Names, Chdir(h, n)
      PROVE  Good' /\ Paths!Next
  <2>1. Good' /\ (Paths!Fail \/ \E j \in Inodes : Paths!Move(h, j))
    BY <1>2, ChdirStep
  <2>. QED BY <2>1 DEF Paths!Next
<1>3. ASSUME NEW h \in Holders, NEW m \in Names, NEW g \in Holders, NEW n \in Names, Mount(h, m, g, n)
      PROVE  Good' /\ Paths!Next
  <2>1. Good' /\ (Paths!Fail \/ \E c \in Devs, i \in Inodes : Paths!Mount(c, i))
    BY <1>3, MountStep
  <2>. QED BY <2>1 DEF Paths!Next
<1>4. ASSUME NEW h \in Holders, NEW n \in Names, Umount(h, n)
      PROVE  Good' /\ Paths!Next
  <2>1. Good' /\ (Paths!Fail \/ \E d \in Devs : Paths!Umount(d))
    BY <1>4, UmountStep
  <2>. QED BY <2>1 DEF Paths!Next
<1>5. ASSUME NEW h \in Holders, Close(h)
      PROVE  Good' /\ Paths!Next
  <2>1. Good' /\ Paths!Close(h)
    BY <1>5, CloseStep
  <2>. QED BY <2>1 DEF Paths!Next
<1>6. ASSUME NEW h \in Holders, NEW g \in Holders, Fork(h, g)
      PROVE  Good' /\ Paths!Next
  <2>1. Good' /\ Paths!Copy(h, g)
    BY <1>6, ForkStep
  <2>. QED BY <2>1 DEF Paths!Next
<1>. QED BY <1>1, <1>2, <1>3, <1>4, <1>5, <1>6 DEF Next

\* A step that changes nothing.
LEMMA StutterGood ==
    ASSUME UNCHANGED vars
    PROVE  (Good => Good') /\ UNCHANGED Paths!vars
<1>1. Good => Good'
  BY DEF vars, Good, Typed, Fit, Entered, Unique, Exact, Uncovered, NoRoots, SlotsApart, RootSlot,
         Hangs, HoldersOf, MountsOn, OnSlot, Taken, Listed, MountedDevs, StandsOn
<1>2. UNCHANGED <<PlaceOf, OnOf, asked, snared>>
  BY DEF vars, PlaceOf, Place, OnOf, MountedDevs, PointOf, Taken
<1>. QED BY <1>1, <1>2 DEF Paths!vars, PlaceOf, OnOf

LEMMA Inductive ==
    ASSUME IInv, [Next]_vars
    PROVE  IInv' /\ [Paths!Next]_Paths!vars
<1>1. snared \in BOOLEAN /\ snared' \in BOOLEAN /\ (snared = TRUE => snared' = TRUE)
  BY SnaredStays DEF IInv
<1>2. CASE UNCHANGED vars
  <2>1. (Good => Good') /\ UNCHANGED Paths!vars /\ snared' = snared
    BY <1>2, StutterGood DEF vars
  <2>. QED BY <2>1 DEF IInv
<1>3. CASE Next /\ snared' = TRUE
  BY <1>1, <1>3 DEF IInv, Paths!Next
<1>4. CASE Next /\ snared' = FALSE
  <2>1. Unsnared /\ Unsnared' /\ Good
    BY <1>1, <1>4 DEF IInv, Unsnared
  <2>2. Good' /\ Paths!Next
    BY <1>4, <2>1, StepGood
  <2>. QED BY <1>1, <2>2 DEF IInv
<1>. QED BY <1>1, <1>2, <1>3, <1>4

LEMMA AlwaysIInv == Spec => []IInv
<1>1. IInv /\ [Next]_vars => IInv'
  BY Inductive
<1>. QED BY <1>1, InitGood, PTL DEF Spec

(* Up to the first old pointer in force, the tables are well typed and     *)
(* init has its root.                                                      *)
THEOREM MountsTypeCorrect == Spec => []TypeOK
<1>1. IInv => TypeOK
  BY DEF IInv, TypeOK, Good, Typed, Tables, Opt, Bags
<1>. QED BY <1>1, AlwaysIInv, PTL

(* Whatever paths, mounts and umounts fail, and however many go by in the  *)
(* meantime, an inode is referred to exactly as often as it is held or     *)
(* mounted on, and a chdir into it was refused: those references stay.     *)
THEOREM ReferencesExact == Spec => []RefsExact
<1>1. IInv => RefsExact
  BY DEF IInv, RefsExact, Good, Exact
<1>. QED BY <1>1, AlwaysIInv, PTL

(* Nothing in use lies on a device that has been unmounted or in a         *)
(* directory that is covered, and no set of file systems has come loose    *)
(* from the root.                                                          *)
THEOREM FileSystemsHang == Spec => []TreeStands
<1>1. IInv => TreeStands
  BY DEF IInv, TreeStands, Good, Fit, Entered, InUse, OnMounted, Uncovered, Hangs
<1>. QED BY <1>1, AlwaysIInv, PTL

(* Mounts implements Namespace: srch_mt and the way up through s_mntpt     *)
(* lead where the mounted directories say, although the table entries      *)
(* that the pointers name are used again for other inodes.                 *)
THEOREM ImplementsNamespace == Spec => NamespaceSpec
<1>1. Init => Paths!Init
  <2>1. SUFFICES ASSUME Init PROVE Paths!Init
    OBVIOUS
  <2>2. PICK e \in Entries :
          /\ i_tab = [f \in Entries |-> IF f = e THEN [ino |-> Root(ROOTDEV), c_refs |-> 1]
                                       ELSE [ino |-> NULL, c_refs |-> 0]]
          /\ fs_tab = [s \in Slots |-> [state |-> IF s = NFS THEN "mounted" ELSE "free",
                                        s_dev |-> ROOTDEV, s_mntpt |-> NULL]]
          /\ at = [h \in Holders |-> IF h = Keeper THEN e ELSE NULL]
          /\ snared = FALSE
    BY <2>1 DEF Init
  <2>. DEFINE roots == [d \in Devs |-> Root(d)]
  <2>3. \A h \in Holders : Place(h) \in {roots[ROOTDEV], NULL}
    BY <2>2, MountsAssumption DEF Place
  <2>4. PlaceOf \in [Holders -> {roots[ROOTDEV], NULL}]
    BY <2>3 DEF PlaceOf
  <2>5. MountedDevs = {}
    BY <2>2 DEF MountedDevs
  <2>6. DOMAIN OnOf = {}
    BY <2>5 DEF OnOf
  <2>. QED BY <2>2, <2>4, <2>6 DEF Paths!Init, PlaceOf, OnOf
<1>2. IInv /\ [Next]_vars => [Paths!Next]_Paths!vars
  BY Inductive
<1>. QED BY <1>1, <1>2, AlwaysIInv, PTL DEF Spec, NamespaceSpec, Paths!Spec

=============================================================================
