----------------------------- MODULE FilesProofs -----------------------------
(***************************************************************************)
(* Proofs about Files, for any processes, inodes and sizes of the tables.  *)
(***************************************************************************)
EXTENDS Files, Integers, FiniteSetTheorems, TLAPS

USE FilesAssumption

One(x, v) == IF x = v THEN 1 ELSE 0

\* What the counts are of, for tables other than the present ones.
Desc(A, F, e) == {d \in A \X Fds : F[d[1]][d[2]] = e}
On(T, i) == {e \in Oft : T[e].o_inode = i}
At(A, C, i) == {p \in A : C[p] = i}
Where(S, f, v) == {y \in S : f[y] = v}
Agree(S, f, g, x) == \A y \in S : y # x => g[y] = f[y]
SameBut(T, U, e) == \A k \in Oft : k # e => U[k].o_inode = T[k].o_inode
SetFd(F, p, fd, w) == [F EXCEPT ![p][fd] = w]
Same(A, F, G) == \A p \in A : G[p] = F[p]
Has(F, p, e) == {fd \in Fds : F[p][fd] = e}
SetOne(C, p, j) == [C EXCEPT ![p] = j]

Shape ==
    /\ alive \subseteq Procs
    /\ u_files \in [Procs -> [Fds -> Oft \cup {FREE}]]
    /\ u_cwd \in [Procs -> Inodes] /\ u_root \in [Procs -> Inodes]
    /\ of_tab \in [Oft -> OpenFile]
    /\ lost \in [Inodes -> Nat]

FilesInv == TypeOK /\ OpenCounted /\ RefsRight
----------------------------------------------------------------------------
LEMMA TablesFinite == IsFiniteSet(Fds) /\ IsFiniteSet(Oft) /\ FREE \notin Oft
<1>1. UFTSIZE - 1 \in Int /\ OFTSIZE - 1 \in Int /\ 0 \in Int
  OBVIOUS
<1>2. IsFiniteSet(0 .. UFTSIZE - 1) /\ IsFiniteSet(0 .. OFTSIZE - 1)
  BY <1>1, FS_Interval
<1>. QED BY <1>2 DEF Fds, Oft, FREE

LEMMA Finite ==
    ASSUME NEW A, A \subseteq Procs, NEW F, NEW T, NEW C, NEW i
    PROVE  /\ IsFiniteSet(A)
           /\ IsFiniteSet(A \X Fds)
           /\ IsFiniteSet(Desc(A, F, i)) /\ Cardinality(Desc(A, F, i)) \in Nat
           /\ IsFiniteSet(On(T, i)) /\ Cardinality(On(T, i)) \in Nat
           /\ IsFiniteSet(At(A, C, i)) /\ Cardinality(At(A, C, i)) \in Nat
<1>1. IsFiniteSet(A)
  BY FS_Subset
<1>2. IsFiniteSet(A \X Fds)
  BY <1>1, TablesFinite, FS_Product
<1>3. /\ Desc(A, F, i) \in SUBSET (A \X Fds)
      /\ On(T, i) \in SUBSET Oft
      /\ At(A, C, i) \in SUBSET A
  BY DEF Desc, On, At
<1>4. IsFiniteSet(Desc(A, F, i)) /\ IsFiniteSet(On(T, i)) /\ IsFiniteSet(At(A, C, i))
  BY <1>1, <1>2, <1>3, TablesFinite, FS_Subset
<1>. QED BY <1>1, <1>2, <1>4, FS_CardinalityType

\* A function that changes at x moves x from one of the sets it divides S into to
\* another.
LEMMA Recount ==
    ASSUME NEW S, IsFiniteSet(S), NEW f, NEW g, NEW x \in S, NEW v,
           Agree(S, f, g, x)
    PROVE  Cardinality(Where(S, g, v)) + One(f[x], v)
             = Cardinality(Where(S, f, v)) + One(g[x], v)
<1>. DEFINE B == Where(S, f, v)
            D == Where(S, g, v)
<1>1. IsFiniteSet(B) /\ IsFiniteSet(D)
  <2>1. B \in SUBSET S /\ D \in SUBSET S
    BY DEF Where
  <2>. QED BY <2>1, FS_Subset
<1>2. Cardinality(B) \in Nat /\ Cardinality(D) \in Nat
  BY <1>1, FS_CardinalityType
<1>3. CASE f[x] = v /\ g[x] # v
  <2>1. B = D \cup {x} /\ x \notin D
    BY <1>3 DEF Where, Agree
  <2>2. Cardinality(D \cup {x}) = Cardinality(D) + 1
    BY <1>1, <2>1, FS_AddElement
  <2>. QED BY <1>2, <1>3, <2>1, <2>2 DEF One
<1>4. CASE f[x] # v /\ g[x] = v
  <2>1. D = B \cup {x} /\ x \notin B
    BY <1>4 DEF Where, Agree
  <2>2. Cardinality(B \cup {x}) = Cardinality(B) + 1
    BY <1>1, <2>1, FS_AddElement
  <2>. QED BY <1>2, <1>4, <2>1, <2>2 DEF One
<1>5. CASE (f[x] = v) <=> (g[x] = v)
  <2>1. B = D
    BY <1>5 DEF Where, Agree
  <2>. QED BY <1>2, <1>5, <2>1 DEF One
<1>. QED BY <1>3, <1>4, <1>5 DEF Where

LEMMA SetDescriptor ==
    ASSUME NEW A, A \subseteq Procs, NEW F \in [Procs -> [Fds -> Oft \cup {FREE}]],
           NEW p \in A, NEW fd \in Fds, NEW w, NEW e,
           NEW G, G = SetFd(F, p, fd, w)
    PROVE  Cardinality(Desc(A, G, e)) + One(F[p][fd], e)
             = Cardinality(Desc(A, F, e)) + One(w, e)
<1>. DEFINE S == A \X Fds
            f == [d \in S |-> F[d[1]][d[2]]]
            g == [d \in S |-> G[d[1]][d[2]]]
            x == <<p, fd>>
<1>1. IsFiniteSet(S) /\ x \in S
  BY Finite
<1>2. Agree(S, f, g, x)
  <2>1. SUFFICES ASSUME NEW d \in S, d # x PROVE G[d[1]][d[2]] = F[d[1]][d[2]]
    BY DEF Agree
  <2>2. d[1] \in A /\ d[2] \in Fds /\ (d[1] # p \/ d[2] # fd)
    BY <2>1
  <2>. QED BY <2>2 DEF SetFd
<1>3. f[x] = F[p][fd] /\ g[x] = w
  <2>1. f[x] = F[p][fd] /\ g[x] = G[p][fd]
    BY <1>1
  <2>2. G[p][fd] = w
    BY DEF SetFd
  <2>. QED BY <2>1, <2>2
<1>4. Desc(A, F, e) = Where(S, f, e) /\ Desc(A, G, e) = Where(S, g, e)
  BY DEF Desc, Where
<1>. HIDE DEF S, f, g, x
<1>5. Cardinality(Where(S, g, e)) + One(f[x], e)
        = Cardinality(Where(S, f, e)) + One(g[x], e)
  BY <1>1, <1>2, Recount
<1>6. Cardinality(Desc(A, G, e)) + One(F[p][fd], e) = Cardinality(Desc(A, F, e)) + One(w, e)
  BY <1>3, <1>4, <1>5
<1>. QED BY <1>6

LEMMA SetFile ==
    ASSUME NEW T, NEW U, NEW e \in Oft, NEW i,
           SameBut(T, U, e)
    PROVE  Cardinality(On(U, i)) + One(T[e].o_inode, i)
             = Cardinality(On(T, i)) + One(U[e].o_inode, i)
<1>. DEFINE f == [k \in Oft |-> T[k].o_inode]
            g == [k \in Oft |-> U[k].o_inode]
<1>1. Agree(Oft, f, g, e)
  BY DEF Agree, SameBut
<1>2. On(T, i) = Where(Oft, f, i) /\ On(U, i) = Where(Oft, g, i)
  BY DEF On, Where
<1>3. f[e] = T[e].o_inode /\ g[e] = U[e].o_inode
  OBVIOUS
<1>. HIDE DEF f, g
<1>5. e \in Oft /\ IsFiniteSet(Oft)
  BY TablesFinite
<1>4. Cardinality(Where(Oft, g, i)) + One(f[e], i)
        = Cardinality(Where(Oft, f, i)) + One(g[e], i)
  BY <1>1, <1>5, Recount
<1>. QED BY <1>2, <1>3, <1>4

LEMMA SetDir ==
    ASSUME NEW A, A \subseteq Procs, NEW C \in [Procs -> Inodes], NEW p \in A, NEW j, NEW i,
           NEW G, G = SetOne(C, p, j)
    PROVE  Cardinality(At(A, G, i)) + One(C[p], i)
             = Cardinality(At(A, C, i)) + One(j, i)
<1>1. G[p] = j /\ Agree(A, C, G, p)
  BY DEF Agree, SetOne
<1>2. IsFiniteSet(A)
  BY Finite
<1>3. Cardinality(Where(A, G, i)) + One(C[p], i)
        = Cardinality(Where(A, C, i)) + One(G[p], i)
  BY <1>1, <1>2, Recount
<1>4. Cardinality(At(A, G, i)) + One(C[p], i) = Cardinality(At(A, C, i)) + One(j, i)
  BY <1>1, <1>3 DEF At, Where
<1>. QED BY <1>4
----------------------------------------------------------------------------
Counted ==
    \A e \in Oft : /\ of_tab[e].o_refs = Cardinality(Desc(alive, u_files, e))
                   /\ of_tab[e].o_inode = NULL <=> of_tab[e].o_refs = 0
Referred ==
    \A i \in Inodes :
        c_refs[i] = Cardinality(On(of_tab, i)) + Cardinality(At(alive, u_cwd, i))
                      + Cardinality(At(alive, u_root, i)) + lost[i]

\* What a step does to the inodes of the table.
Kept ==
    \A e \in Oft : \/ of_tab'[e].o_inode \in {of_tab[e].o_inode, NULL}
                   \/ of_tab[e].o_refs = 0

LEMMA Unfold ==
    FilesInv <=> Shape /\ c_refs \in [Inodes -> Nat] /\ Counted /\ Referred
<1>1. OpenCounted <=> Counted
  BY DEF OpenCounted, Counted, DescriptorsOf, Desc
<1>2. RefsRight <=> Referred
  BY DEF RefsRight, Referred, FilesOn, On, WorkingIn, RootedAt, At
<1>. QED BY <1>1, <1>2 DEF FilesInv, TypeOK, Shape

\* Counts that add up are not negative.
LEMMA Rebuild ==
    ASSUME Shape', c_refs' \in [Inodes -> Int], Counted', Referred'
    PROVE  FilesInv'
<1>1. alive' \subseteq Procs /\ lost' \in [Inodes -> Nat]
  BY DEF Shape
<1>2. ASSUME NEW i \in Inodes PROVE c_refs'[i] \in Nat
  <2>1. /\ Cardinality(On(of_tab', i)) \in Nat
        /\ Cardinality(At(alive', u_cwd', i)) \in Nat
        /\ Cardinality(At(alive', u_root', i)) \in Nat
    BY <1>1, Finite
  <2>2. lost'[i] \in Nat
    BY <1>1, <1>2
  <2>3. c_refs'[i] = Cardinality(On(of_tab', i)) + Cardinality(At(alive', u_cwd', i))
                       + Cardinality(At(alive', u_root', i)) + lost'[i]
    BY <1>2 DEF Referred
  <2>. QED BY <2>1, <2>2, <2>3
<1>3. c_refs' \in [Inodes -> Nat]
  BY <1>2
<1>4. OpenCounted' <=> Counted'
  BY DEF OpenCounted, Counted, DescriptorsOf, Desc
<1>5. RefsRight' <=> Referred'
  BY DEF RefsRight, Referred, FilesOn, On, WorkingIn, RootedAt, At
<1>. QED BY <1>3, <1>4, <1>5 DEF FilesInv, TypeOK, Shape

LEMMA MoreLess ==
    ASSUME NEW c \in [Inodes -> Int], NEW j \in Inodes
    PROVE  /\ More(c, j) \in [Inodes -> Int] /\ Less(c, j) \in [Inodes -> Int]
           /\ \A i \in Inodes : /\ More(c, j)[i] = c[i] + One(j, i)
                                /\ Less(c, j)[i] = c[i] - One(j, i)
BY DEF More, Less, One

LEMMA NotFree == \A e \in Oft : One(FREE, e) = 0
BY TablesFinite DEF One

LEMMA NotNull == \A i \in Inodes : One(NULL, i) = 0
BY DEF One

\* The numbers that the sums are made of.
LEMMA Numbers ==
    ASSUME Shape, NEW e, NEW i \in Inodes
    PROVE  /\ Cardinality(Desc(alive, u_files, e)) \in Nat
           /\ Cardinality(On(of_tab, i)) \in Nat
           /\ Cardinality(At(alive, u_cwd, i)) \in Nat
           /\ Cardinality(At(alive, u_root, i)) \in Nat
           /\ lost[i] \in Nat
<1>1. alive \subseteq Procs /\ lost \in [Inodes -> Nat]
  BY DEF Shape
<1>. QED BY <1>1, Finite

LEMMA OpenKeeps ==
    ASSUME FilesInv, NEW p \in alive, NEW j \in Inodes, Open(p, j)
    PROVE  FilesInv' /\ Kept
<1>1. Shape /\ c_refs \in [Inodes -> Nat] /\ Counted /\ Referred
  BY Unfold
<1>2. /\ alive \subseteq Procs /\ u_files \in [Procs -> [Fds -> Oft \cup {FREE}]]
      /\ of_tab \in [Oft -> OpenFile]
  BY <1>1 DEF Shape
<1>3. PICK fd \in Fds, e \in Oft :
        /\ FreeFd(p, fd) /\ FreeOft(e)
        /\ u_files' = [u_files EXCEPT ![p][fd] = e]
        /\ of_tab' = [of_tab EXCEPT ![e] = [o_refs |-> 1, o_inode |-> j]]
  BY DEF Open
<1>4. /\ c_refs' = More(c_refs, j)
      /\ UNCHANGED <<alive, u_cwd, u_root, lost>>
  BY DEF Open
<1>5. u_files[p][fd] = FREE /\ of_tab[e].o_refs = 0 /\ of_tab[e].o_inode = NULL
  BY <1>1, <1>3 DEF FreeFd, FreeOft, Counted
<1>6. Shape'
  BY <1>1, <1>2, <1>3, <1>4 DEF Shape, OpenFile
<1>7. Counted'
  <2>. SUFFICES ASSUME NEW k \in Oft
                PROVE  /\ of_tab'[k].o_refs = Cardinality(Desc(alive, u_files', k))
                       /\ of_tab'[k].o_inode = NULL <=> of_tab'[k].o_refs = 0
    BY <1>4 DEF Counted
  <2>1. Cardinality(Desc(alive, u_files', k)) + One(u_files[p][fd], k)
          = Cardinality(Desc(alive, u_files, k)) + One(e, k)
    <3>1. u_files' = SetFd(u_files, p, fd, e)
      BY <1>3 DEF SetFd
    <3>. QED BY <1>2, <3>1, SetDescriptor
  <2>2. Cardinality(Desc(alive, u_files, k)) \in Nat /\ Cardinality(Desc(alive, u_files', k)) \in Nat
    BY <1>2, Finite
  <2>3. of_tab[k].o_refs = Cardinality(Desc(alive, u_files, k))
        /\ (of_tab[k].o_inode = NULL <=> of_tab[k].o_refs = 0)
    BY <1>1 DEF Counted
  <2>4. of_tab'[k] = IF k = e THEN [o_refs |-> 1, o_inode |-> j] ELSE of_tab[k]
    BY <1>2, <1>3
  <2>5. One(u_files[p][fd], k) = 0
    BY <1>5, NotFree
  <2>. QED BY <1>5, <2>1, <2>2, <2>3, <2>4, <2>5 DEF One
<1>8. Referred'
  <2>. SUFFICES ASSUME NEW i \in Inodes
                PROVE  c_refs'[i] = Cardinality(On(of_tab', i)) + Cardinality(At(alive, u_cwd, i))
                                      + Cardinality(At(alive, u_root, i)) + lost[i]
    BY <1>4 DEF Referred
  <2>1. Cardinality(On(of_tab', i)) + One(of_tab[e].o_inode, i)
          = Cardinality(On(of_tab, i)) + One(of_tab'[e].o_inode, i)
    <3>1. SameBut(of_tab, of_tab', e)
      BY <1>2, <1>3 DEF SameBut
    <3>. QED BY <3>1, SetFile
  <2>2. One(of_tab[e].o_inode, i) = 0
    BY <1>5, NotNull
  <2>3. of_tab'[e].o_inode = j
    BY <1>2, <1>3
  <2>4. c_refs'[i] = c_refs[i] + One(j, i)
    BY <1>1, <1>4, MoreLess
  <2>5. Cardinality(On(of_tab', i)) \in Nat
    BY <1>2, Finite
  <2>6. c_refs[i] = Cardinality(On(of_tab, i)) + Cardinality(At(alive, u_cwd, i))
                      + Cardinality(At(alive, u_root, i)) + lost[i]
    BY <1>1 DEF Referred
  <2>7. One(j, i) \in {0, 1}
    BY DEF One
  <2>. QED BY <1>1, <2>1, <2>2, <2>3, <2>4, <2>5, <2>6, <2>7, Numbers
<1>9. c_refs' \in [Inodes -> Int]
  BY <1>1, <1>4, MoreLess
<1>10. Kept
  BY <1>2, <1>3, <1>5 DEF Kept
<1>. QED BY <1>6, <1>7, <1>8, <1>9, <1>10, Rebuild
----------------------------------------------------------------------------
\* oft_deref of an entry in use, and i_deref when that was the last.
LEMMA Deref ==
    ASSUME Shape, c_refs \in [Inodes -> Nat], Counted,
           NEW e \in Oft, of_tab[e].o_refs # 0,
           NEW T, T = OftDeref(of_tab, e), NEW c, c = GivenBack(e)
    PROVE  /\ T \in [Oft -> OpenFile]
           /\ \A k \in Oft : /\ T[k].o_refs = of_tab[k].o_refs - One(e, k)
                             /\ T[k].o_inode = NULL <=> T[k].o_refs = 0
                             /\ T[k].o_inode \in {of_tab[k].o_inode, NULL}
           /\ c \in [Inodes -> Int]
           /\ \A i \in Inodes :
                c[i] = c_refs[i] + Cardinality(On(T, i)) - Cardinality(On(of_tab, i))
<1>1. of_tab \in [Oft -> OpenFile]
  BY DEF Shape
<1>2. of_tab[e].o_inode \in Inodes /\ of_tab[e].o_refs \in Nat
  BY <1>1 DEF Counted, OpenFile
<1>3. /\ \A k \in Oft : k # e => T[k] = of_tab[k]
      /\ T[e] = IF of_tab[e].o_refs = 1 THEN Closed
                ELSE [of_tab[e] EXCEPT !.o_refs = @ - 1]
      /\ T \in [Oft -> OpenFile]
  <2>. DEFINE new == IF of_tab[e].o_refs = 1 THEN Closed
                     ELSE [of_tab[e] EXCEPT !.o_refs = @ - 1]
  <2>1. T = [of_tab EXCEPT ![e] = new]
    BY DEF OftDeref
  <2>2. Closed \in OpenFile
    BY DEF Closed, OpenFile
  <2>3. of_tab[e].o_refs # 1 => [of_tab[e] EXCEPT !.o_refs = @ - 1] \in OpenFile
    <3>1. of_tab[e] \in OpenFile /\ of_tab[e].o_refs - 1 \in Nat
      BY <1>1, <1>2
    <3>. QED BY <3>1 DEF OpenFile
  <2>4. new \in OpenFile
    BY <2>2, <2>3
  <2>5. T[e] = new /\ \A k \in Oft : k # e => T[k] = of_tab[k]
    BY <1>1, <2>1
  <2>. HIDE DEF new
  <2>6. T \in [Oft -> OpenFile]
    BY <1>1, <2>1, <2>4
  <2>. QED BY <2>5, <2>6 DEF new
<1>4. /\ T[e].o_refs = of_tab[e].o_refs - 1
      /\ T[e].o_inode = IF of_tab[e].o_refs = 1 THEN NULL ELSE of_tab[e].o_inode
  BY <1>1, <1>2, <1>3 DEF Closed, OpenFile
<1>5. ASSUME NEW k \in Oft
      PROVE  /\ T[k].o_refs = of_tab[k].o_refs - One(e, k)
             /\ T[k].o_inode = NULL <=> T[k].o_refs = 0
             /\ T[k].o_inode \in {of_tab[k].o_inode, NULL}
  <2>1. of_tab[k].o_refs \in Nat /\ (of_tab[k].o_inode = NULL <=> of_tab[k].o_refs = 0)
    BY <1>1, <1>5 DEF Counted, OpenFile
  <2>2. CASE k = e
    BY <1>2, <1>4, <2>1, <2>2 DEF One
  <2>3. CASE k # e
    BY <1>3, <1>5, <2>1, <2>3 DEF One
  <2>. QED BY <2>2, <2>3
<1>6. c \in [Inodes -> Int]
  <2>1. c_refs \in [Inodes -> Int]
    OBVIOUS
  <2>. QED BY <1>2, <2>1, MoreLess DEF GivenBack
<1>7. ASSUME NEW i \in Inodes
      PROVE  c[i] = c_refs[i] + Cardinality(On(T, i)) - Cardinality(On(of_tab, i))
  <2>1. Cardinality(On(T, i)) + One(of_tab[e].o_inode, i)
          = Cardinality(On(of_tab, i)) + One(T[e].o_inode, i)
    <3>1. SameBut(of_tab, T, e)
      BY <1>3 DEF SameBut
    <3>. QED BY <3>1, SetFile
  <2>2. Cardinality(On(T, i)) \in Nat /\ Cardinality(On(of_tab, i)) \in Nat
    <3>1. alive \subseteq Procs
      BY DEF Shape
    <3>. QED BY <3>1, Finite
  <2>3. c_refs \in [Inodes -> Int] /\ c_refs[i] \in Int
    BY <1>7
  <2>4. One(NULL, i) = 0 /\ One(of_tab[e].o_inode, i) \in {0, 1}
    BY NotNull DEF One
  <2>5. CASE of_tab[e].o_refs = 1
    <3>1. c = Less(c_refs, of_tab[e].o_inode)
      BY <2>5 DEF GivenBack
    <3>2. c[i] = c_refs[i] - One(of_tab[e].o_inode, i)
      BY <1>2, <1>7, <2>3, <3>1, MoreLess
    <3>3. One(T[e].o_inode, i) = 0
      BY <1>4, <2>4, <2>5
    <3>. QED BY <2>1, <2>2, <2>3, <2>4, <3>2, <3>3
  <2>6. CASE of_tab[e].o_refs # 1
    <3>1. c = c_refs
      BY <2>6 DEF GivenBack
    <3>2. T[e].o_inode = of_tab[e].o_inode
      BY <1>4, <2>6
    <3>. QED BY <2>1, <2>2, <2>3, <2>4, <3>1, <3>2
  <2>. QED BY <2>5, <2>6
<1>. QED BY <1>3, <1>5, <1>6, <1>7

LEMMA Share ==
    ASSUME NEW T \in [Oft -> OpenFile], NEW e \in Oft, NEW U, U = Shared(T, e)
    PROVE  /\ U \in [Oft -> OpenFile]
           /\ \A k \in Oft : /\ U[k].o_refs = T[k].o_refs + One(e, k)
                             /\ U[k].o_inode = T[k].o_inode
           /\ \A i : On(U, i) = On(T, i)
<1>1. U \in [Oft -> OpenFile]
  BY DEF Shared, OpenFile
<1>2. ASSUME NEW k \in Oft
      PROVE  U[k].o_refs = T[k].o_refs + One(e, k) /\ U[k].o_inode = T[k].o_inode
  BY <1>2 DEF Shared, One, OpenFile
<1>. QED BY <1>1, <1>2 DEF On

\* The counts after a step that gives one descriptor, and with it the files and
\* the references to inodes, a new value.
LEMMA DescriptorStep ==
    ASSUME FilesInv, NEW p \in alive, NEW fd \in Fds, NEW w \in Oft \cup {FREE},
           u_files' = SetFd(u_files, p, fd, w),
           of_tab' \in [Oft -> OpenFile],
           \A k \in Oft : /\ of_tab'[k].o_refs + One(u_files[p][fd], k) = of_tab[k].o_refs + One(w, k)
                          /\ of_tab'[k].o_inode = NULL <=> of_tab'[k].o_refs = 0,
           c_refs' \in [Inodes -> Int],
           \A i \in Inodes :
             c_refs'[i] = c_refs[i] + Cardinality(On(of_tab', i)) - Cardinality(On(of_tab, i)),
           UNCHANGED <<alive, u_cwd, u_root, lost>>
    PROVE  FilesInv'
<1>1. Shape /\ c_refs \in [Inodes -> Nat] /\ Counted /\ Referred
  BY Unfold
<1>2. /\ alive \subseteq Procs /\ u_files \in [Procs -> [Fds -> Oft \cup {FREE}]]
      /\ of_tab \in [Oft -> OpenFile]
  BY <1>1 DEF Shape
<1>3. Shape'
  <2>1. u_files' \in [Procs -> [Fds -> Oft \cup {FREE}]]
    BY <1>2 DEF SetFd
  <2>. QED BY <1>1, <2>1 DEF Shape
<1>4. Counted'
  <2>. SUFFICES ASSUME NEW k \in Oft
                PROVE  of_tab'[k].o_refs = Cardinality(Desc(alive, u_files', k))
    BY DEF Counted
  <2>1. Cardinality(Desc(alive, u_files', k)) + One(u_files[p][fd], k)
          = Cardinality(Desc(alive, u_files, k)) + One(w, k)
    BY <1>2, SetDescriptor
  <2>2. Cardinality(Desc(alive, u_files, k)) \in Nat /\ Cardinality(Desc(alive, u_files', k)) \in Nat
    BY <1>2, Finite
  <2>3. of_tab[k].o_refs = Cardinality(Desc(alive, u_files, k))
    BY <1>1 DEF Counted
  <2>4. One(u_files[p][fd], k) \in {0, 1} /\ One(w, k) \in {0, 1} /\ of_tab'[k].o_refs \in Nat
    BY DEF One, OpenFile
  <2>. QED BY <2>1, <2>2, <2>3, <2>4
<1>5. Referred'
  <2>. SUFFICES ASSUME NEW i \in Inodes
                PROVE  c_refs'[i] = Cardinality(On(of_tab', i)) + Cardinality(At(alive, u_cwd, i))
                                      + Cardinality(At(alive, u_root, i)) + lost[i]
    BY DEF Referred
  <2>1. c_refs[i] = Cardinality(On(of_tab, i)) + Cardinality(At(alive, u_cwd, i))
                      + Cardinality(At(alive, u_root, i)) + lost[i]
    BY <1>1 DEF Referred
  <2>2. Cardinality(On(of_tab', i)) \in Nat
    BY <1>2, Finite
  <2>3. /\ Cardinality(On(of_tab, i)) \in Nat /\ Cardinality(At(alive, u_cwd, i)) \in Nat
        /\ Cardinality(At(alive, u_root, i)) \in Nat /\ lost[i] \in Nat
    BY <1>1, Numbers
  <2>4. c_refs'[i] = c_refs[i] + Cardinality(On(of_tab', i)) - Cardinality(On(of_tab, i))
    OBVIOUS
  <2>. QED BY <2>1, <2>2, <2>3, <2>4
<1>. QED BY <1>3, <1>4, <1>5, Rebuild

LEMMA InUse ==
    ASSUME Shape, Counted, NEW p \in alive, NEW fd \in Fds, u_files[p][fd] # FREE
    PROVE  /\ u_files[p][fd] \in Oft
           /\ of_tab[u_files[p][fd]].o_refs # 0
<1>. DEFINE e == u_files[p][fd]
<1>1. /\ alive \subseteq Procs /\ u_files \in [Procs -> [Fds -> Oft \cup {FREE}]]
  BY DEF Shape
<1>2. e \in Oft
  BY <1>1
<1>3. <<p, fd>> \in Desc(alive, u_files, e)
  BY DEF Desc
<1>4. IsFiniteSet(Desc(alive, u_files, e))
  BY <1>1, Finite
<1>5. Cardinality(Desc(alive, u_files, e)) # 0
  BY <1>3, <1>4, FS_EmptySet
<1>. QED BY <1>2, <1>5 DEF Counted

LEMMA DocloseKeeps ==
    ASSUME FilesInv, NEW p \in alive, NEW fd \in Fds, u_files[p][fd] # FREE, Doclose(p, fd),
           UNCHANGED <<alive, u_cwd, u_root, lost>>
    PROVE  FilesInv' /\ Kept
<1>. DEFINE e == u_files[p][fd]
<1>1. Shape /\ c_refs \in [Inodes -> Nat] /\ Counted
  BY Unfold
<1>2. e \in Oft /\ of_tab[e].o_refs # 0
  BY <1>1, InUse
<1>3. u_files' = SetFd(u_files, p, fd, FREE) /\ of_tab' = OftDeref(of_tab, e) /\ c_refs' = GivenBack(e)
  BY DEF Doclose, SetFd
<1>4. /\ of_tab' \in [Oft -> OpenFile]
      /\ \A k \in Oft : /\ of_tab'[k].o_refs = of_tab[k].o_refs - One(e, k)
                        /\ of_tab'[k].o_inode = NULL <=> of_tab'[k].o_refs = 0
                        /\ of_tab'[k].o_inode \in {of_tab[k].o_inode, NULL}
      /\ c_refs' \in [Inodes -> Int]
      /\ \A i \in Inodes :
           c_refs'[i] = c_refs[i] + Cardinality(On(of_tab', i)) - Cardinality(On(of_tab, i))
  <2>. HIDE DEF e
  <2>. QED BY <1>1, <1>2, <1>3, Deref
<1>5. ASSUME NEW k \in Oft
      PROVE  of_tab'[k].o_refs + One(e, k) = of_tab[k].o_refs + One(FREE, k)
  <2>1. of_tab[k].o_refs \in Nat
    BY <1>1, <1>5 DEF Shape, OpenFile
  <2>2. One(FREE, k) = 0 /\ One(e, k) \in {0, 1}
    BY <1>5, NotFree DEF One
  <2>3. of_tab'[k].o_refs = of_tab[k].o_refs - One(e, k)
    BY <1>4, <1>5
  <2>. QED BY <2>1, <2>2, <2>3
<1>6. FilesInv'
  BY <1>3, <1>4, <1>5, DescriptorStep
<1>. QED BY <1>4, <1>6 DEF Kept

LEMMA CloseKeeps ==
    ASSUME FilesInv, NEW p \in alive, NEW fd \in Fds, Close(p, fd)
    PROVE  FilesInv' /\ Kept
BY DocloseKeeps DEF Close

LEMMA DupKeeps ==
    ASSUME FilesInv, NEW p \in alive, NEW fd \in Fds, Dup(p, fd)
    PROVE  FilesInv' /\ Kept
<1>. DEFINE e == u_files[p][fd]
<1>1. Shape /\ c_refs \in [Inodes -> Nat] /\ Counted
  BY Unfold
<1>2. e \in Oft /\ of_tab[e].o_refs # 0
  BY <1>1, InUse DEF Dup
<1>3. PICK new \in Fds : u_files[p][new] = FREE /\ u_files' = SetFd(u_files, p, new, e)
  BY DEF Dup, FreeFd, SetFd
<1>4. /\ of_tab' = Shared(of_tab, e) /\ c_refs' = c_refs
      /\ UNCHANGED <<alive, u_cwd, u_root, lost>>
  BY DEF Dup
<1>5. /\ of_tab' \in [Oft -> OpenFile]
      /\ \A k \in Oft : /\ of_tab'[k].o_refs = of_tab[k].o_refs + One(e, k)
                        /\ of_tab'[k].o_inode = of_tab[k].o_inode
      /\ \A i : On(of_tab', i) = On(of_tab, i)
  <2>1. of_tab \in [Oft -> OpenFile]
    BY <1>1 DEF Shape
  <2>. HIDE DEF e
  <2>. QED BY <1>2, <1>4, <2>1, Share
<1>6. ASSUME NEW k \in Oft
      PROVE  /\ of_tab'[k].o_refs + One(u_files[p][new], k) = of_tab[k].o_refs + One(e, k)
             /\ of_tab'[k].o_inode = NULL <=> of_tab'[k].o_refs = 0
  <2>1. of_tab[k].o_refs \in Nat /\ (of_tab[k].o_inode = NULL <=> of_tab[k].o_refs = 0)
    BY <1>1, <1>6 DEF Shape, OpenFile, Counted
  <2>2. One(u_files[p][new], k) = 0
    BY <1>3, <1>6, NotFree
  <2>3. One(e, k) = IF k = e THEN 1 ELSE 0
    BY DEF One
  <2>4. of_tab'[k].o_refs = of_tab[k].o_refs + One(e, k) /\ of_tab'[k].o_inode = of_tab[k].o_inode
    BY <1>5, <1>6
  <2>. HIDE DEF e
  <2>. QED BY <1>2, <2>1, <2>2, <2>3, <2>4
<1>7. /\ c_refs' \in [Inodes -> Int]
      /\ \A i \in Inodes :
           c_refs'[i] = c_refs[i] + Cardinality(On(of_tab', i)) - Cardinality(On(of_tab, i))
  <2>1. \A i \in Inodes : Cardinality(On(of_tab, i)) \in Nat
    BY <1>1, Numbers
  <2>. QED BY <1>1, <1>4, <1>5, <2>1
<1>8. FilesInv'
  <2>. HIDE DEF e
  <2>. QED BY <1>2, <1>3, <1>4, <1>5, <1>6, <1>7, DescriptorStep
<1>. QED BY <1>5, <1>8 DEF Kept

\* Two descriptors on one entry.
LEMMA Twice ==
    ASSUME Shape, Counted, NEW p \in alive, NEW old \in Fds, NEW new \in Fds, old # new,
           u_files[p][old] # FREE, u_files[p][new] = u_files[p][old]
    PROVE  of_tab[u_files[p][old]].o_refs >= 2
<1>. DEFINE e == u_files[p][old]
            G == SetFd(u_files, p, new, FREE)
<1>1. alive \subseteq Procs /\ u_files \in [Procs -> [Fds -> Oft \cup {FREE}]]
  BY DEF Shape
<1>2. e \in Oft
  BY <1>1
<1>3. Cardinality(Desc(alive, G, e)) + One(u_files[p][new], e)
        = Cardinality(Desc(alive, u_files, e)) + One(FREE, e)
  <2>. HIDE DEF e, G
  <2>1. G = SetFd(u_files, p, new, FREE)
    BY DEF G
  <2>. QED BY <1>1, <2>1, SetDescriptor
<1>4. Cardinality(Desc(alive, G, e)) \in Nat /\ Cardinality(Desc(alive, G, e)) # 0
  <2>1. <<p, old>> \in Desc(alive, G, e)
    BY <1>1 DEF Desc, SetFd
  <2>2. IsFiniteSet(Desc(alive, G, e)) /\ Cardinality(Desc(alive, G, e)) \in Nat
    BY <1>1, Finite
  <2>. QED BY <2>1, <2>2, FS_EmptySet
<1>5. One(u_files[p][new], e) = 1 /\ One(FREE, e) = 0
  BY <1>2, NotFree DEF One
<1>6. of_tab[e].o_refs = Cardinality(Desc(alive, u_files, e)) /\ of_tab[e].o_refs \in Nat
  <2>. HIDE DEF e
  <2>1. of_tab[e].o_refs = Cardinality(Desc(alive, u_files, e))
    BY <1>2 DEF Counted
  <2>2. Cardinality(Desc(alive, u_files, e)) \in Nat
    BY <1>1, Finite
  <2>. QED BY <2>1, <2>2
<1>. HIDE DEF e, G
<1>7. of_tab[e].o_refs >= 2
  BY <1>3, <1>4, <1>5, <1>6
<1>. QED BY <1>7 DEF e

LEMMA Dup2Keeps ==
    ASSUME FilesInv, NEW p \in alive, NEW old \in Fds, NEW new \in Fds, Dup2(p, old, new)
    PROVE  FilesInv' /\ Kept
<1>. DEFINE e == u_files[p][old]
            was == u_files[p][new]
<1>1. Shape /\ c_refs \in [Inodes -> Nat] /\ Counted /\ of_tab \in [Oft -> OpenFile]
  BY Unfold DEF Shape
<1>2. e # FREE /\ UNCHANGED <<alive, u_cwd, u_root, lost>>
  BY DEF Dup2
<1>3. e \in Oft /\ of_tab[e].o_refs # 0
  BY <1>1, <1>2, InUse
<1>4. CASE old = new
  BY <1>2, <1>4, DocloseKeeps DEF Dup2
<1>5. CASE old # new
  <2>1. u_files' = SetFd(u_files, p, new, e)
    BY <1>5 DEF Dup2, SetFd
  <2>2. was \in Oft \cup {FREE}
    BY <1>1 DEF Shape
  <2>3. PICK T, c :
          /\ of_tab' = Shared(T, e) /\ c_refs' = c
          /\ T \in [Oft -> OpenFile]
          /\ \A k \in Oft : /\ T[k].o_refs = of_tab[k].o_refs - One(was, k)
                            /\ T[k].o_inode = NULL <=> T[k].o_refs = 0
                            /\ T[k].o_inode \in {of_tab[k].o_inode, NULL}
          /\ c \in [Inodes -> Int]
          /\ \A i \in Inodes :
               c[i] = c_refs[i] + Cardinality(On(T, i)) - Cardinality(On(of_tab, i))
    <3>1. CASE was = FREE
      <4>1. of_tab' = Shared(of_tab, e) /\ c_refs' = c_refs
        BY <1>5, <3>1 DEF Dup2
      <4>2. \A k \in Oft : /\ of_tab[k].o_refs = of_tab[k].o_refs - One(was, k)
                           /\ of_tab[k].o_inode = NULL <=> of_tab[k].o_refs = 0
        BY <1>1, <3>1, NotFree DEF Counted, OpenFile
      <4>3. /\ c_refs \in [Inodes -> Int]
            /\ \A i \in Inodes :
                 c_refs[i] = c_refs[i] + Cardinality(On(of_tab, i)) - Cardinality(On(of_tab, i))
        <5>1. \A i \in Inodes : Cardinality(On(of_tab, i)) \in Nat
          BY <1>1, Numbers
        <5>. QED BY <1>1, <5>1
      <4>. HIDE DEF e, was
      <4>. QED BY <1>1, <4>1, <4>2, <4>3
    <3>2. CASE was # FREE
      <4>1. of_tab' = Shared(OftDeref(of_tab, was), e) /\ c_refs' = GivenBack(was)
        BY <1>5, <3>2 DEF Dup2
      <4>2. was \in Oft /\ of_tab[was].o_refs # 0
        BY <1>1, <3>2, InUse
      <4>. DEFINE U == OftDeref(of_tab, was)
                  d == GivenBack(was)
      <4>3. U = OftDeref(of_tab, was) /\ d = GivenBack(was)
        OBVIOUS
      <4>. HIDE DEF e, was, U, d
      <4>4. /\ U \in [Oft -> OpenFile]
            /\ \A k \in Oft : /\ U[k].o_refs = of_tab[k].o_refs - One(was, k)
                              /\ U[k].o_inode = NULL <=> U[k].o_refs = 0
                              /\ U[k].o_inode \in {of_tab[k].o_inode, NULL}
            /\ d \in [Inodes -> Int]
            /\ \A i \in Inodes :
                 d[i] = c_refs[i] + Cardinality(On(U, i)) - Cardinality(On(of_tab, i))
        BY <1>1, <4>2, <4>3, Deref
      <4>5. of_tab' = Shared(U, e) /\ c_refs' = d
        BY <4>1, <4>3
      <4>. QED BY <4>4, <4>5
    <3>. QED BY <3>1, <3>2
  <2>4. /\ of_tab' \in [Oft -> OpenFile]
        /\ \A k \in Oft : /\ of_tab'[k].o_refs = T[k].o_refs + One(e, k)
                          /\ of_tab'[k].o_inode = T[k].o_inode
        /\ \A i : On(of_tab', i) = On(T, i)
    <3>. HIDE DEF e, was
    <3>. QED BY <1>3, <2>3, Share
  <2>5. T[e].o_refs # 0
    <3>1. of_tab[e].o_refs \in Nat /\ T[e].o_refs = of_tab[e].o_refs - One(was, e)
      BY <1>1, <1>3, <2>3 DEF OpenFile
    <3>2. CASE was = e
      <4>1. of_tab[e].o_refs >= 2
        BY <1>1, <1>2, <1>5, <3>2, Twice
      <4>2. One(was, e) = 1
        BY <3>2 DEF One
      <4>. HIDE DEF e, was
      <4>. QED BY <3>1, <4>1, <4>2
    <3>3. CASE was # e
      <4>1. One(was, e) = 0
        BY <3>3 DEF One
      <4>. HIDE DEF e, was
      <4>. QED BY <1>3, <3>1, <4>1
    <3>. QED BY <3>2, <3>3
  <2>6. ASSUME NEW k \in Oft
        PROVE  /\ of_tab'[k].o_refs + One(was, k) = of_tab[k].o_refs + One(e, k)
               /\ of_tab'[k].o_inode = NULL <=> of_tab'[k].o_refs = 0
    <3>1. of_tab[k].o_refs \in Nat /\ T[k].o_refs \in Nat
      BY <1>1, <2>3, <2>6 DEF OpenFile
    <3>2. One(was, k) \in {0, 1} /\ One(e, k) \in {0, 1} /\ (k # e => One(e, k) = 0)
      BY DEF One
    <3>3. /\ of_tab'[k].o_refs = T[k].o_refs + One(e, k) /\ of_tab'[k].o_inode = T[k].o_inode
          /\ T[k].o_refs = of_tab[k].o_refs - One(was, k)
          /\ T[k].o_inode = NULL <=> T[k].o_refs = 0
      BY <2>3, <2>4, <2>6
    <3>. HIDE DEF e, was
    <3>4. of_tab'[k].o_refs + One(was, k) = of_tab[k].o_refs + One(e, k)
      BY <3>1, <3>2, <3>3
    <3>5. CASE k = e
      BY <2>5, <3>1, <3>2, <3>3, <3>5
    <3>6. CASE k # e
      BY <3>1, <3>2, <3>3, <3>6
    <3>. QED BY <3>4, <3>5, <3>6
  <2>7. /\ c_refs' \in [Inodes -> Int]
        /\ \A i \in Inodes :
             c_refs'[i] = c_refs[i] + Cardinality(On(of_tab', i)) - Cardinality(On(of_tab, i))
    BY <2>3, <2>4
  <2>8. FilesInv'
    <3>. HIDE DEF e
    <3>. QED BY <1>2, <1>3, <2>1, <2>4, <2>6, <2>7, DescriptorStep
  <2>. QED BY <2>3, <2>4, <2>8 DEF Kept
<1>. QED BY <1>4, <1>5
----------------------------------------------------------------------------
\* The counts after a step that changes no descriptor.
LEMMA DirStep ==
    ASSUME FilesInv, UNCHANGED <<alive, u_files, of_tab>>,
           u_cwd' \in [Procs -> Inodes], u_root' \in [Procs -> Inodes],
           lost' \in [Inodes -> Nat], c_refs' \in [Inodes -> Int],
           \A i \in Inodes :
             c_refs'[i] - c_refs[i]
               = (Cardinality(At(alive, u_cwd', i)) - Cardinality(At(alive, u_cwd, i)))
                   + (Cardinality(At(alive, u_root', i)) - Cardinality(At(alive, u_root, i)))
                   + (lost'[i] - lost[i])
    PROVE  FilesInv' /\ Kept
<1>1. Shape /\ c_refs \in [Inodes -> Nat] /\ Counted /\ Referred
  BY Unfold
<1>2. Shape'
  BY <1>1 DEF Shape
<1>3. Counted'
  BY <1>1 DEF Counted
<1>4. Referred'
  <2>. SUFFICES ASSUME NEW i \in Inodes
                PROVE  c_refs'[i] = Cardinality(On(of_tab, i)) + Cardinality(At(alive, u_cwd', i))
                                      + Cardinality(At(alive, u_root', i)) + lost'[i]
    BY DEF Referred
  <2>1. c_refs[i] = Cardinality(On(of_tab, i)) + Cardinality(At(alive, u_cwd, i))
                      + Cardinality(At(alive, u_root, i)) + lost[i]
    BY <1>1 DEF Referred
  <2>2. /\ Cardinality(On(of_tab, i)) \in Nat /\ Cardinality(At(alive, u_cwd, i)) \in Nat
        /\ Cardinality(At(alive, u_root, i)) \in Nat /\ lost[i] \in Nat
    BY <1>1, Numbers
  <2>3. /\ Cardinality(At(alive, u_cwd', i)) \in Nat
        /\ Cardinality(At(alive, u_root', i)) \in Nat /\ lost'[i] \in Nat
    <3>1. alive \subseteq Procs
      BY <1>1 DEF Shape
    <3>. QED BY <3>1, Finite
  <2>4. c_refs'[i] \in Int /\ c_refs[i] \in Int
    BY <1>1
  <2>5. c_refs'[i] - c_refs[i]
          = (Cardinality(At(alive, u_cwd', i)) - Cardinality(At(alive, u_cwd, i)))
              + (Cardinality(At(alive, u_root', i)) - Cardinality(At(alive, u_root, i)))
              + (lost'[i] - lost[i])
    OBVIOUS
  <2>. QED BY <2>1, <2>2, <2>3, <2>4, <2>5
<1>. QED BY <1>2, <1>3, <1>4, Rebuild DEF Kept

LEMMA ChdirKeeps ==
    ASSUME FilesInv, NEW p \in alive, NEW j \in Inodes, Chdir(p, j)
    PROVE  FilesInv' /\ Kept
<1>1. Shape /\ c_refs \in [Inodes -> Int] /\ UNCHANGED <<alive, u_files, u_root, of_tab>>
  BY Unfold DEF Chdir
<1>2. /\ alive \subseteq Procs /\ p \in Procs /\ u_cwd \in [Procs -> Inodes]
      /\ u_root \in [Procs -> Inodes] /\ lost \in [Inodes -> Nat]
  BY <1>1 DEF Shape
<1>3. CASE u_cwd' = [u_cwd EXCEPT ![p] = j] /\ c_refs' = Less(More(c_refs, j), u_cwd[p]) /\ lost' = lost
  <2>1. u_cwd' = SetOne(u_cwd, p, j) /\ u_cwd' \in [Procs -> Inodes]
    BY <1>2, <1>3 DEF SetOne
  <2>2. /\ More(c_refs, j) \in [Inodes -> Int]
        /\ \A i \in Inodes : More(c_refs, j)[i] = c_refs[i] + One(j, i)
    BY <1>1, MoreLess
  <2>. DEFINE m == More(c_refs, j)
  <2>3. c_refs' = Less(m, u_cwd[p]) /\ u_cwd[p] \in Inodes
    BY <1>2, <1>3
  <2>. HIDE DEF m
  <2>4. /\ c_refs' \in [Inodes -> Int]
        /\ \A i \in Inodes : c_refs'[i] = m[i] - One(u_cwd[p], i)
    BY <2>2, <2>3, MoreLess DEF m
  <2>5. ASSUME NEW i \in Inodes
        PROVE  c_refs'[i] - c_refs[i]
                 = (Cardinality(At(alive, u_cwd', i)) - Cardinality(At(alive, u_cwd, i)))
                     + (Cardinality(At(alive, u_root', i)) - Cardinality(At(alive, u_root, i)))
                     + (lost'[i] - lost[i])
    <3>1. Cardinality(At(alive, u_cwd', i)) + One(u_cwd[p], i)
            = Cardinality(At(alive, u_cwd, i)) + One(j, i)
      BY <1>2, <2>1, SetDir
    <3>2. /\ Cardinality(At(alive, u_cwd', i)) \in Nat /\ Cardinality(At(alive, u_cwd, i)) \in Nat
          /\ Cardinality(At(alive, u_root, i)) \in Nat
      BY <1>2, Finite
    <3>3. m[i] = c_refs[i] + One(j, i) /\ c_refs'[i] = m[i] - One(u_cwd[p], i) /\ c_refs[i] \in Int
      BY <1>1, <2>2, <2>4, <2>5 DEF m
    <3>4. One(j, i) \in {0, 1} /\ One(u_cwd[p], i) \in {0, 1} /\ lost[i] \in Nat
      BY <1>2, <2>5 DEF One
    <3>. QED BY <1>1, <1>3, <3>1, <3>2, <3>3, <3>4
  <2>. QED BY <1>1, <1>2, <1>3, <2>1, <2>4, <2>5, DirStep
<1>4. CASE c_refs' = More(c_refs, j) /\ lost' = More(lost, j) /\ u_cwd' = u_cwd
  <2>1. /\ c_refs' \in [Inodes -> Int]
        /\ \A i \in Inodes : c_refs'[i] = c_refs[i] + One(j, i)
    BY <1>1, <1>4, MoreLess
  <2>2. /\ lost' \in [Inodes -> Nat]
        /\ \A i \in Inodes : lost'[i] = lost[i] + One(j, i)
    BY <1>2, <1>4 DEF More, One
  <2>3. ASSUME NEW i \in Inodes
        PROVE  c_refs'[i] - c_refs[i]
                 = (Cardinality(At(alive, u_cwd', i)) - Cardinality(At(alive, u_cwd, i)))
                     + (Cardinality(At(alive, u_root', i)) - Cardinality(At(alive, u_root, i)))
                     + (lost'[i] - lost[i])
    <3>1. Cardinality(At(alive, u_cwd, i)) \in Nat /\ Cardinality(At(alive, u_root, i)) \in Nat
      BY <1>2, Finite
    <3>2. /\ c_refs[i] \in Int /\ lost[i] \in Nat /\ One(j, i) \in {0, 1}
          /\ c_refs'[i] = c_refs[i] + One(j, i) /\ lost'[i] = lost[i] + One(j, i)
      BY <1>1, <1>2, <2>1, <2>2, <2>3 DEF One
    <3>. QED BY <1>1, <1>4, <3>1, <3>2
  <2>. QED BY <1>1, <1>2, <1>4, <2>1, <2>2, <2>3, DirStep
<1>. QED BY <1>3, <1>4 DEF Chdir

LEMMA ChrootKeeps ==
    ASSUME FilesInv, NEW p \in alive, NEW j \in Inodes, Chroot(p, j)
    PROVE  FilesInv' /\ Kept
<1>1. Shape /\ c_refs \in [Inodes -> Int] /\ UNCHANGED <<alive, u_files, of_tab, lost>>
  BY Unfold DEF Chroot
<1>2. /\ alive \subseteq Procs /\ p \in Procs /\ u_cwd \in [Procs -> Inodes]
      /\ u_root \in [Procs -> Inodes] /\ lost \in [Inodes -> Nat]
      /\ u_cwd[p] \in Inodes /\ u_root[p] \in Inodes
  BY <1>1 DEF Shape
<1>3. /\ u_cwd' = SetOne(u_cwd, p, j) /\ u_cwd' \in [Procs -> Inodes]
      /\ u_root' = SetOne(u_root, p, j) /\ u_root' \in [Procs -> Inodes]
  BY <1>2 DEF Chroot, SetOne
<1>. DEFINE m == More(c_refs, j)
            n == Less(m, u_cwd[p])
            o == Less(n, u_root[p])
<1>4. c_refs' = More(o, j)
  BY DEF Chroot
<1>5. m \in [Inodes -> Int] /\ \A i \in Inodes : m[i] = c_refs[i] + One(j, i)
  BY <1>1, MoreLess
<1>. HIDE DEF m
<1>6. n \in [Inodes -> Int] /\ \A i \in Inodes : n[i] = m[i] - One(u_cwd[p], i)
  BY <1>2, <1>5, MoreLess
<1>. HIDE DEF n
<1>7. o \in [Inodes -> Int] /\ \A i \in Inodes : o[i] = n[i] - One(u_root[p], i)
  BY <1>2, <1>6, MoreLess
<1>. HIDE DEF o
<1>8. c_refs' \in [Inodes -> Int] /\ \A i \in Inodes : c_refs'[i] = o[i] + One(j, i)
  BY <1>4, <1>7, MoreLess
<1>9. ASSUME NEW i \in Inodes
      PROVE  c_refs'[i] - c_refs[i]
               = (Cardinality(At(alive, u_cwd', i)) - Cardinality(At(alive, u_cwd, i)))
                   + (Cardinality(At(alive, u_root', i)) - Cardinality(At(alive, u_root, i)))
                   + (lost'[i] - lost[i])
  <2>1. Cardinality(At(alive, u_cwd', i)) + One(u_cwd[p], i)
          = Cardinality(At(alive, u_cwd, i)) + One(j, i)
    BY <1>2, <1>3, SetDir
  <2>2. Cardinality(At(alive, u_root', i)) + One(u_root[p], i)
          = Cardinality(At(alive, u_root, i)) + One(j, i)
    BY <1>2, <1>3, SetDir
  <2>3. /\ Cardinality(At(alive, u_cwd', i)) \in Nat /\ Cardinality(At(alive, u_cwd, i)) \in Nat
        /\ Cardinality(At(alive, u_root', i)) \in Nat /\ Cardinality(At(alive, u_root, i)) \in Nat
    BY <1>2, Finite
  <2>4. /\ c_refs[i] \in Int /\ m[i] = c_refs[i] + One(j, i)
        /\ n[i] = m[i] - One(u_cwd[p], i) /\ o[i] = n[i] - One(u_root[p], i)
        /\ c_refs'[i] = o[i] + One(j, i)
    BY <1>1, <1>5, <1>6, <1>7, <1>8, <1>9
  <2>5. /\ One(j, i) \in {0, 1} /\ One(u_cwd[p], i) \in {0, 1} /\ One(u_root[p], i) \in {0, 1}
        /\ lost[i] \in Nat /\ lost' = lost
    BY <1>1, <1>2, <1>9 DEF One
  <2>6. c_refs'[i] - c_refs[i] = (One(j, i) - One(u_cwd[p], i)) + (One(j, i) - One(u_root[p], i))
    BY <2>4, <2>5
  <2>7. Cardinality(At(alive, u_cwd', i)) - Cardinality(At(alive, u_cwd, i))
          = One(j, i) - One(u_cwd[p], i)
    BY <2>1, <2>3, <2>5
  <2>8. Cardinality(At(alive, u_root', i)) - Cardinality(At(alive, u_root, i))
          = One(j, i) - One(u_root[p], i)
    BY <2>2, <2>3, <2>5
  <2>9. lost'[i] - lost[i] = 0
    BY <2>5
  <2>10. One(j, i) - One(u_cwd[p], i) \in Int /\ One(j, i) - One(u_root[p], i) \in Int
    BY <2>5
  <2>. QED BY <2>6, <2>7, <2>8, <2>9, <2>10
<1>. QED BY <1>1, <1>2, <1>3, <1>8, <1>9, DirStep

LEMMA PipeKeeps ==
    ASSUME FilesInv, NEW p \in alive, NEW j \in Inodes, Pipe(p, j)
    PROVE  FilesInv' /\ Kept
<1>1. /\ Shape /\ Counted /\ Referred /\ c_refs \in [Inodes -> Int]
      /\ UNCHANGED <<alive, u_cwd, u_root>>
  BY Unfold DEF Pipe
<1>2. /\ alive \subseteq Procs /\ p \in Procs /\ u_files \in [Procs -> [Fds -> Oft \cup {FREE}]]
      /\ u_cwd \in [Procs -> Inodes] /\ u_root \in [Procs -> Inodes]
      /\ of_tab \in [Oft -> OpenFile] /\ lost \in [Inodes -> Nat]
  BY <1>1 DEF Shape
<1>3. CASE c_refs' = More(c_refs, j) /\ lost' = More(lost, j) /\ UNCHANGED <<u_files, of_tab>>
  <2>1. /\ c_refs' \in [Inodes -> Int]
        /\ \A i \in Inodes : c_refs'[i] = c_refs[i] + One(j, i)
    BY <1>1, <1>3, MoreLess
  <2>2. /\ lost' \in [Inodes -> Nat]
        /\ \A i \in Inodes : lost'[i] = lost[i] + One(j, i)
    BY <1>2, <1>3 DEF More, One
  <2>3. ASSUME NEW i \in Inodes
        PROVE  c_refs'[i] - c_refs[i]
                 = (Cardinality(At(alive, u_cwd', i)) - Cardinality(At(alive, u_cwd, i)))
                     + (Cardinality(At(alive, u_root', i)) - Cardinality(At(alive, u_root, i)))
                     + (lost'[i] - lost[i])
    <3>1. Cardinality(At(alive, u_cwd, i)) \in Nat /\ Cardinality(At(alive, u_root, i)) \in Nat
      BY <1>2, Finite
    <3>2. /\ c_refs[i] \in Int /\ lost[i] \in Nat /\ One(j, i) \in {0, 1}
          /\ c_refs'[i] = c_refs[i] + One(j, i) /\ lost'[i] = lost[i] + One(j, i)
      BY <1>1, <1>2, <2>1, <2>2, <2>3 DEF One
    <3>. QED BY <1>1, <3>1, <3>2
  <2>. QED BY <1>1, <1>2, <1>3, <2>1, <2>2, <2>3, DirStep
<1>4. CASE /\ \E r, w \in Fds, e, g \in Oft :
                /\ FreeFd(p, r) /\ NextFd(p, r, w) /\ FreeOft(e) /\ NextOft(e, g)
                /\ u_files' = [u_files EXCEPT ![p][r] = e, ![p][w] = g]
                /\ of_tab' = [of_tab EXCEPT ![e] = [o_refs |-> 1, o_inode |-> j],
                                            ![g] = [o_refs |-> 1, o_inode |-> j]]
           /\ c_refs' = More(More(c_refs, j), j)
           /\ UNCHANGED lost
  <2>0. PICK r \in Fds, w \in Fds, e \in Oft, g \in Oft :
          /\ FreeFd(p, r) /\ NextFd(p, r, w) /\ FreeOft(e) /\ NextOft(e, g)
          /\ u_files' = [u_files EXCEPT ![p][r] = e, ![p][w] = g]
          /\ of_tab' = [of_tab EXCEPT ![e] = [o_refs |-> 1, o_inode |-> j],
                                      ![g] = [o_refs |-> 1, o_inode |-> j]]
    BY <1>4
  <2>1. /\ r \in Fds /\ w \in Fds /\ e \in Oft /\ g \in Oft
        /\ u_files[p][r] = FREE /\ of_tab[e].o_refs = 0
        /\ r # w /\ u_files[p][w] = FREE
        /\ e # g /\ of_tab[g].o_refs = 0
        /\ u_files' = [u_files EXCEPT ![p][r] = e, ![p][w] = g]
        /\ of_tab' = [of_tab EXCEPT ![e] = [o_refs |-> 1, o_inode |-> j],
                                    ![g] = [o_refs |-> 1, o_inode |-> j]]
    BY <2>0 DEF FreeFd, FreeOft, NextFd, NextOft, Fds, Oft
  <2>. DEFINE F == SetFd(u_files, p, r, e)
              T == [of_tab EXCEPT ![e] = [o_refs |-> 1, o_inode |-> j]]
  <2>2. F \in [Procs -> [Fds -> Oft \cup {FREE}]] /\ F[p][w] = FREE /\ u_files' = SetFd(F, p, w, g)
    BY <1>2, <2>1 DEF SetFd
  <2>3. of_tab[e].o_inode = NULL /\ of_tab[g].o_inode = NULL
    BY <1>1, <2>1 DEF Counted
  <2>4. /\ \A k \in Oft : k # e => T[k] = of_tab[k]
        /\ T[e].o_inode = j
        /\ \A k \in Oft : k # g => of_tab'[k] = T[k]
        /\ of_tab'[g].o_inode = j
        /\ \A k \in Oft : of_tab'[k] = IF k \in {e, g} THEN [o_refs |-> 1, o_inode |-> j]
                                       ELSE of_tab[k]
    BY <1>2, <2>1
  <2>5. Shape'
    <3>1. u_files' \in [Procs -> [Fds -> Oft \cup {FREE}]]
      BY <2>2 DEF SetFd
    <3>2. of_tab' \in [Oft -> OpenFile]
      BY <1>2, <2>1 DEF OpenFile
    <3>. QED BY <1>1, <1>4, <3>1, <3>2 DEF Shape
  <2>6. F = SetFd(u_files, p, r, e)
    OBVIOUS
  <2>. HIDE DEF F, T
  <2>7. Counted'
    <3>. SUFFICES ASSUME NEW k \in Oft
                  PROVE  /\ of_tab'[k].o_refs = Cardinality(Desc(alive, u_files', k))
                         /\ of_tab'[k].o_inode = NULL <=> of_tab'[k].o_refs = 0
      BY <1>1 DEF Counted
    <3>1. Cardinality(Desc(alive, F, k)) + One(u_files[p][r], k)
            = Cardinality(Desc(alive, u_files, k)) + One(e, k)
      BY <1>2, <2>1, <2>6, SetDescriptor
    <3>2. Cardinality(Desc(alive, u_files', k)) + One(F[p][w], k)
            = Cardinality(Desc(alive, F, k)) + One(g, k)
      <4>1. alive \subseteq Procs /\ w \in Fds
        BY <1>2, <2>1
      <4>. QED BY <2>2, <4>1, SetDescriptor
    <3>3. /\ Cardinality(Desc(alive, u_files, k)) \in Nat /\ Cardinality(Desc(alive, F, k)) \in Nat
          /\ Cardinality(Desc(alive, u_files', k)) \in Nat
      BY <1>2, Finite
    <3>4. One(u_files[p][r], k) = 0 /\ One(F[p][w], k) = 0
      BY <2>1, <2>2, NotFree
    <3>5. of_tab[k].o_refs = Cardinality(Desc(alive, u_files, k))
          /\ (of_tab[k].o_inode = NULL <=> of_tab[k].o_refs = 0)
      BY <1>1 DEF Counted
    <3>6. Cardinality(Desc(alive, u_files', k)) = of_tab[k].o_refs + One(e, k) + One(g, k)
      <4>1. One(e, k) \in {0, 1} /\ One(g, k) \in {0, 1}
        BY DEF One
      <4>. QED BY <3>1, <3>2, <3>3, <3>4, <3>5, <4>1
    <3>7. CASE k \in {e, g}
      <4>1. of_tab[k].o_refs = 0 /\ One(e, k) + One(g, k) = 1
        BY <2>1, <3>7 DEF One
      <4>2. of_tab'[k] = [o_refs |-> 1, o_inode |-> j]
        BY <2>4, <3>7
      <4>3. One(e, k) \in {0, 1} /\ One(g, k) \in {0, 1}
        BY DEF One
      <4>. QED BY <3>6, <4>1, <4>2, <4>3
    <3>8. CASE k \notin {e, g}
      <4>1. One(e, k) = 0 /\ One(g, k) = 0
        BY <3>8 DEF One
      <4>. QED BY <2>4, <3>3, <3>5, <3>6, <3>8, <4>1
    <3>. QED BY <3>7, <3>8
  <2>. DEFINE m == More(c_refs, j)
  <2>8. m \in [Inodes -> Int] /\ \A i \in Inodes : m[i] = c_refs[i] + One(j, i)
    BY <1>1, MoreLess
  <2>9. c_refs' = More(m, j)
    BY <1>4
  <2>. HIDE DEF m
  <2>10. c_refs' \in [Inodes -> Int] /\ \A i \in Inodes : c_refs'[i] = m[i] + One(j, i)
    BY <2>8, <2>9, MoreLess
  <2>11. Referred'
    <3>. SUFFICES ASSUME NEW i \in Inodes
                  PROVE  c_refs'[i] = Cardinality(On(of_tab', i)) + Cardinality(At(alive, u_cwd, i))
                                        + Cardinality(At(alive, u_root, i)) + lost[i]
      BY <1>1, <1>4 DEF Referred
    <3>1. Cardinality(On(T, i)) + One(of_tab[e].o_inode, i)
            = Cardinality(On(of_tab, i)) + One(T[e].o_inode, i)
      <4>1. SameBut(of_tab, T, e)
        BY <2>4 DEF SameBut
      <4>. QED BY <2>1, <4>1, SetFile
    <3>2. Cardinality(On(of_tab', i)) + One(T[g].o_inode, i)
            = Cardinality(On(T, i)) + One(of_tab'[g].o_inode, i)
      <4>1. SameBut(T, of_tab', g)
        BY <2>4 DEF SameBut
      <4>2. g \in Oft
        BY <2>1
      <4>. QED BY <4>1, <4>2, SetFile
    <3>3. One(of_tab[e].o_inode, i) = 0 /\ One(T[g].o_inode, i) = 0
      BY <2>1, <2>3, <2>4, NotNull
    <3>4. One(T[e].o_inode, i) = One(j, i) /\ One(of_tab'[g].o_inode, i) = One(j, i)
          /\ One(j, i) \in {0, 1}
      BY <2>4 DEF One
    <3>5. Cardinality(On(T, i)) \in Nat /\ Cardinality(On(of_tab', i)) \in Nat
      BY <1>2, Finite
    <3>6. /\ Cardinality(On(of_tab, i)) \in Nat /\ Cardinality(At(alive, u_cwd, i)) \in Nat
          /\ Cardinality(At(alive, u_root, i)) \in Nat /\ lost[i] \in Nat
      BY <1>1, Numbers
    <3>7. Cardinality(On(of_tab', i)) = Cardinality(On(of_tab, i)) + One(j, i) + One(j, i)
      BY <3>1, <3>2, <3>3, <3>4, <3>5, <3>6
    <3>8. c_refs'[i] = c_refs[i] + One(j, i) + One(j, i)
      BY <2>8, <2>10
    <3>9. c_refs[i] = Cardinality(On(of_tab, i)) + Cardinality(At(alive, u_cwd, i))
                        + Cardinality(At(alive, u_root, i)) + lost[i]
      BY <1>1 DEF Referred
    <3>. QED BY <3>4, <3>6, <3>7, <3>8, <3>9
  <2>12. Kept
    BY <2>1, <2>4 DEF Kept
  <2>. QED BY <2>5, <2>7, <2>10, <2>11, <2>12, Rebuild
<1>. QED BY <1>3, <1>4 DEF Pipe
----------------------------------------------------------------------------
\* A process that comes or goes, with its descriptors and directories.
LEMMA OneMore ==
    ASSUME NEW A, NEW q \in Procs, A \subseteq Procs, q \notin A,
           NEW F, NEW G, Same(A, F, G), NEW e
    PROVE  Cardinality(Desc(A \cup {q}, G, e))
             = Cardinality(Desc(A, F, e)) + Cardinality(Has(G, q, e))
<1>. DEFINE U == Has(G, q, e)
            D == Desc(A, F, e)
            V == D \cup ({q} \X U)
<1>1. IsFiniteSet(U)
  <2>1. U \in SUBSET Fds
    BY DEF Has
  <2>. QED BY <2>1, TablesFinite, FS_Subset
<1>2. IsFiniteSet({q} \X U) /\ Cardinality({q} \X U) = Cardinality(U)
  <2>1. IsFiniteSet({q}) /\ Cardinality({q}) = 1
    BY FS_Singleton
  <2>2. Cardinality(U) \in Nat
    BY <1>1, FS_CardinalityType
  <2>. HIDE DEF U
  <2>3. IsFiniteSet({q} \X U) /\ Cardinality({q} \X U) = Cardinality({q}) * Cardinality(U)
    BY <1>1, <2>1, FS_Product
  <2>. QED BY <2>1, <2>2, <2>3
<1>3. IsFiniteSet(D)
  BY Finite
<1>4. Desc(A \cup {q}, G, e) = V
  BY DEF Desc, Has, Same
<1>5. D \cap ({q} \X U) = {}
  BY DEF Desc
<1>. HIDE DEF U, D
<1>6. Cardinality(V) = Cardinality(D) + Cardinality(U) - 0
  BY <1>2, <1>3, <1>5, FS_Union, FS_EmptySet
<1>7. Cardinality(D) \in Nat /\ Cardinality(U) \in Nat
  BY <1>1, <1>3, FS_CardinalityType
<1>. HIDE DEF V
<1>8. Cardinality(Desc(A \cup {q}, G, e)) = Cardinality(D) + Cardinality(U)
  BY <1>4, <1>6, <1>7
<1>. QED BY <1>8 DEF D, U

LEMMA OneMoreDir ==
    ASSUME NEW A, NEW q \in Procs, A \subseteq Procs, q \notin A,
           NEW C, NEW G, Same(A, C, G), NEW i
    PROVE  Cardinality(At(A \cup {q}, G, i)) = Cardinality(At(A, C, i)) + One(G[q], i)
<1>1. IsFiniteSet(At(A, C, i)) /\ Cardinality(At(A, C, i)) \in Nat
  BY Finite
<1>2. CASE G[q] = i
  <2>1. At(A \cup {q}, G, i) = At(A, C, i) \cup {q} /\ q \notin At(A, C, i)
    BY <1>2 DEF At, Same
  <2>. QED BY <1>1, <1>2, <2>1, FS_AddElement DEF One
<1>3. CASE G[q] # i
  <2>1. At(A \cup {q}, G, i) = At(A, C, i)
    BY <1>3 DEF At, Same
  <2>. QED BY <1>1, <1>3, <2>1 DEF One
<1>. QED BY <1>2, <1>3

LEMMA UsersFinite ==
    ASSUME NEW p, NEW e
    PROVE  /\ Cardinality(Users(p, e)) \in Nat
           /\ Cardinality(Users(p, e)) = 0 <=> Users(p, e) = {}
<1>1. Users(p, e) \in SUBSET Fds
  BY DEF Users
<1>2. IsFiniteSet(Users(p, e))
  BY <1>1, TablesFinite, FS_Subset
<1>. QED BY <1>2, FS_CardinalityType, FS_EmptySet

LEMMA CountsAs ==
    ASSUME NEW p, NEW i
    PROVE  Counts(p, i) = One(u_cwd[p], i) + One(u_root[p], i)
BY DEF Counts, One

LEMMA ForkKeeps ==
    ASSUME FilesInv, NEW p \in alive, NEW q \in Procs, Fork(p, q)
    PROVE  FilesInv' /\ Kept
<1>1. /\ Shape /\ Counted /\ Referred /\ c_refs \in [Inodes -> Nat]
      /\ lost' = lost /\ alive' = alive \cup {q} /\ q \notin alive
  BY Unfold DEF Fork
<1>2. /\ alive \subseteq Procs /\ p \in Procs /\ u_files \in [Procs -> [Fds -> Oft \cup {FREE}]]
      /\ u_cwd \in [Procs -> Inodes] /\ u_root \in [Procs -> Inodes]
      /\ of_tab \in [Oft -> OpenFile] /\ lost \in [Inodes -> Nat]
  BY <1>1 DEF Shape
<1>3. /\ u_files' = [u_files EXCEPT ![q] = u_files[p]]
      /\ u_cwd' = [u_cwd EXCEPT ![q] = u_cwd[p]]
      /\ u_root' = [u_root EXCEPT ![q] = u_root[p]]
  BY DEF Fork
<1>4. /\ u_files' \in [Procs -> [Fds -> Oft \cup {FREE}]] /\ u_files'[q] = u_files[p]
      /\ Same(alive, u_files, u_files')
      /\ u_cwd' \in [Procs -> Inodes] /\ u_cwd'[q] = u_cwd[p] /\ Same(alive, u_cwd, u_cwd')
      /\ u_root' \in [Procs -> Inodes] /\ u_root'[q] = u_root[p] /\ Same(alive, u_root, u_root')
  BY <1>1, <1>2, <1>3 DEF Same
<1>5. ASSUME NEW k \in Oft
      PROVE  /\ of_tab'[k] = [of_tab[k] EXCEPT !.o_refs = @ + Cardinality(Users(p, k))]
             /\ of_tab'[k] \in OpenFile
             /\ of_tab'[k].o_refs = of_tab[k].o_refs + Cardinality(Users(p, k))
             /\ of_tab'[k].o_inode = of_tab[k].o_inode
             /\ of_tab[k].o_refs \in Nat
  <2>1. of_tab[k] \in OpenFile /\ Cardinality(Users(p, k)) \in Nat
    BY <1>2, <1>5, UsersFinite
  <2>2. of_tab'[k] = [of_tab[k] EXCEPT !.o_refs = @ + Cardinality(Users(p, k))]
    BY <1>5 DEF Fork
  <2>. QED BY <2>1, <2>2 DEF OpenFile
<1>6. Shape'
  <2>1. of_tab' \in [Oft -> OpenFile]
    <3>1. of_tab' = [k \in Oft |-> of_tab'[k]]
      BY DEF Fork
    <3>. QED BY <1>5, <3>1
  <2>. QED BY <1>1, <1>2, <1>4, <2>1 DEF Shape
<1>7. Counted'
  <2>. SUFFICES ASSUME NEW k \in Oft
                PROVE  /\ of_tab'[k].o_refs = Cardinality(Desc(alive \cup {q}, u_files', k))
                       /\ of_tab'[k].o_inode = NULL <=> of_tab'[k].o_refs = 0
    BY <1>1 DEF Counted
  <2>1. Cardinality(Desc(alive \cup {q}, u_files', k))
          = Cardinality(Desc(alive, u_files, k)) + Cardinality(Users(p, k))
    <3>1. Users(p, k) = Has(u_files', q, k)
      BY <1>4 DEF Users, Has
    <3>2. Cardinality(Desc(alive \cup {q}, u_files', k))
            = Cardinality(Desc(alive, u_files, k)) + Cardinality(Has(u_files', q, k))
      BY <1>1, <1>2, <1>4, OneMore
    <3>. QED BY <3>1, <3>2
  <2>2. of_tab[k].o_refs = Cardinality(Desc(alive, u_files, k))
        /\ (of_tab[k].o_inode = NULL <=> of_tab[k].o_refs = 0)
    BY <1>1 DEF Counted
  <2>3. of_tab[k].o_refs = 0 => Cardinality(Users(p, k)) = 0
    <3>1. SUFFICES ASSUME Users(p, k) # {} PROVE of_tab[k].o_refs # 0
      BY UsersFinite
    <3>2. PICK fd \in Fds : u_files[p][fd] = k
      BY <3>1 DEF Users
    <3>3. u_files[p][fd] # FREE
      BY <3>2, TablesFinite
    <3>. QED BY <1>1, <3>2, <3>3, InUse
  <2>4. Cardinality(Users(p, k)) \in Nat
    BY UsersFinite
  <2>5. /\ of_tab'[k].o_refs = of_tab[k].o_refs + Cardinality(Users(p, k))
        /\ of_tab'[k].o_inode = of_tab[k].o_inode
        /\ of_tab[k].o_refs \in Nat
    BY <1>5
  <2>6. of_tab'[k].o_refs = Cardinality(Desc(alive \cup {q}, u_files', k))
    BY <2>1, <2>2, <2>5
  <2>7. of_tab'[k].o_refs = 0 <=> of_tab[k].o_refs = 0
    BY <2>3, <2>4, <2>5
  <2>. QED BY <2>2, <2>5, <2>6, <2>7
<1>8. ASSUME NEW i \in Inodes PROVE c_refs'[i] = c_refs[i] + One(u_cwd[p], i) + One(u_root[p], i)
  <2>1. c_refs'[i] = c_refs[i] + Counts(p, i)
    BY <1>8 DEF Fork
  <2>2. One(u_cwd[p], i) \in Nat /\ One(u_root[p], i) \in Nat /\ c_refs[i] \in Nat
    BY <1>1, <1>8 DEF One
  <2>. QED BY <2>1, <2>2, CountsAs
<1>9. Referred'
  <2>. SUFFICES ASSUME NEW i \in Inodes
                PROVE  c_refs'[i] = Cardinality(On(of_tab', i))
                                      + Cardinality(At(alive \cup {q}, u_cwd', i))
                                      + Cardinality(At(alive \cup {q}, u_root', i)) + lost[i]
    BY <1>1 DEF Referred
  <2>1. On(of_tab', i) = On(of_tab, i)
    BY <1>5 DEF On
  <2>2. Cardinality(At(alive \cup {q}, u_cwd', i)) = Cardinality(At(alive, u_cwd, i)) + One(u_cwd'[q], i)
    BY <1>1, <1>2, <1>4, OneMoreDir
  <2>3. Cardinality(At(alive \cup {q}, u_root', i)) = Cardinality(At(alive, u_root, i)) + One(u_root'[q], i)
    BY <1>1, <1>2, <1>4, OneMoreDir
  <2>4. c_refs[i] = Cardinality(On(of_tab, i)) + Cardinality(At(alive, u_cwd, i))
                      + Cardinality(At(alive, u_root, i)) + lost[i]
    BY <1>1 DEF Referred
  <2>5. /\ Cardinality(On(of_tab, i)) \in Nat /\ Cardinality(At(alive, u_cwd, i)) \in Nat
        /\ Cardinality(At(alive, u_root, i)) \in Nat /\ lost[i] \in Nat
    BY <1>1, Numbers
  <2>6. One(u_cwd[p], i) \in Nat /\ One(u_root[p], i) \in Nat
    BY DEF One
  <2>. QED BY <1>4, <1>8, <2>1, <2>2, <2>3, <2>4, <2>5, <2>6
<1>10. c_refs' \in [Inodes -> Int]
  <2>1. c_refs' = [i \in Inodes |-> c_refs'[i]]
    BY DEF Fork
  <2>2. \A i \in Inodes : One(u_cwd[p], i) \in Nat /\ One(u_root[p], i) \in Nat
    BY DEF One
  <2>. QED BY <1>1, <1>8, <2>1, <2>2
<1>11. Kept
  BY <1>5 DEF Kept
<1>. QED BY <1>6, <1>7, <1>9, <1>10, <1>11, Rebuild

LEMMA ExitKeeps ==
    ASSUME FilesInv, NEW p \in alive, Exit(p)
    PROVE  FilesInv' /\ Kept
<1>. DEFINE A == alive \ {p}
<1>1. /\ Shape /\ Counted /\ Referred /\ c_refs \in [Inodes -> Nat]
      /\ lost' = lost /\ u_cwd' = u_cwd /\ u_root' = u_root /\ alive' = A
      /\ u_files' = [u_files EXCEPT ![p] = [fd \in Fds |-> FREE]]
  BY Unfold DEF Exit
<1>2. /\ alive \subseteq Procs /\ p \in Procs /\ u_files \in [Procs -> [Fds -> Oft \cup {FREE}]]
      /\ u_cwd \in [Procs -> Inodes] /\ u_root \in [Procs -> Inodes]
      /\ of_tab \in [Oft -> OpenFile] /\ lost \in [Inodes -> Nat]
  BY <1>1 DEF Shape
<1>3. /\ A \subseteq Procs /\ p \notin A /\ alive = A \cup {p}
      /\ u_files' \in [Procs -> [Fds -> Oft \cup {FREE}]]
      /\ Same(A, u_files', u_files)
      /\ Same(A, u_cwd, u_cwd) /\ Same(A, u_root, u_root)
  BY <1>1, <1>2 DEF Same
<1>. HIDE DEF A
<1>4. ASSUME NEW k \in Oft
      PROVE  /\ of_tab[k].o_refs = Cardinality(Desc(A, u_files', k)) + Cardinality(Users(p, k))
             /\ Cardinality(Desc(A, u_files', k)) \in Nat /\ Cardinality(Users(p, k)) \in Nat
             /\ of_tab[k].o_refs \in Nat
             /\ of_tab[k] \in OpenFile
             /\ of_tab[k].o_inode = NULL <=> of_tab[k].o_refs = 0
  <2>1. Cardinality(Desc(A \cup {p}, u_files, k))
          = Cardinality(Desc(A, u_files', k)) + Cardinality(Has(u_files, p, k))
    BY <1>2, <1>3, OneMore
  <2>2. Has(u_files, p, k) = Users(p, k)
    BY DEF Has, Users
  <2>3. of_tab[k].o_refs = Cardinality(Desc(alive, u_files, k))
        /\ (of_tab[k].o_inode = NULL <=> of_tab[k].o_refs = 0)
    BY <1>1, <1>4 DEF Counted
  <2>4. Cardinality(Desc(A, u_files', k)) \in Nat
    BY <1>3, Finite
  <2>5. of_tab[k] \in OpenFile /\ of_tab[k].o_refs \in Nat
    BY <1>2, <1>4 DEF OpenFile
  <2>. QED BY <1>3, <2>1, <2>2, <2>3, <2>4, <2>5, UsersFinite
<1>5. ASSUME NEW k \in Oft
      PROVE  /\ of_tab'[k].o_refs = of_tab[k].o_refs - Cardinality(Users(p, k))
             /\ of_tab'[k].o_refs = Cardinality(Desc(A, u_files', k))
             /\ of_tab'[k].o_inode = IF k \in Lasts(p) THEN NULL ELSE of_tab[k].o_inode
             /\ of_tab'[k].o_inode = NULL <=> of_tab'[k].o_refs = 0
             /\ of_tab'[k] \in OpenFile
  <2>1. /\ of_tab[k].o_refs = Cardinality(Desc(A, u_files', k)) + Cardinality(Users(p, k))
        /\ Cardinality(Desc(A, u_files', k)) \in Nat /\ Cardinality(Users(p, k)) \in Nat
        /\ of_tab[k].o_refs \in Nat /\ of_tab[k] \in OpenFile
        /\ (of_tab[k].o_inode = NULL <=> of_tab[k].o_refs = 0)
    BY <1>4, <1>5
  <2>2. CASE k \in Lasts(p)
    <3>1. of_tab'[k] = Closed
      BY <1>5, <2>2 DEF Exit
    <3>2. of_tab[k].o_refs = Cardinality(Users(p, k))
      BY <2>2 DEF Lasts
    <3>3. Cardinality(Desc(A, u_files', k)) = 0 /\ of_tab[k].o_refs - Cardinality(Users(p, k)) = 0
      BY <2>1, <3>2
    <3>4. of_tab'[k].o_refs = 0 /\ of_tab'[k].o_inode = NULL /\ of_tab'[k] \in OpenFile
      BY <3>1 DEF Closed, OpenFile
    <3>. QED BY <2>2, <3>3, <3>4
  <2>3. CASE k \notin Lasts(p)
    <3>1. of_tab'[k] = [of_tab[k] EXCEPT !.o_refs = @ - Cardinality(Users(p, k))]
      BY <1>5, <2>3 DEF Exit
    <3>2. of_tab[k].o_refs - Cardinality(Users(p, k)) = Cardinality(Desc(A, u_files', k))
      BY <2>1
    <3>3. /\ of_tab'[k].o_refs = Cardinality(Desc(A, u_files', k))
          /\ of_tab'[k].o_inode = of_tab[k].o_inode /\ of_tab'[k] \in OpenFile
      BY <2>1, <3>1, <3>2 DEF OpenFile
    <3>4. of_tab[k].o_refs = 0 => Cardinality(Desc(A, u_files', k)) = 0
      BY <2>1
    <3>5. Cardinality(Desc(A, u_files', k)) = 0 => of_tab[k].o_refs = 0
      <4>1. SUFFICES ASSUME Cardinality(Desc(A, u_files', k)) = 0, of_tab[k].o_refs # 0 PROVE FALSE
        OBVIOUS
      <4>2. of_tab[k].o_refs = Cardinality(Users(p, k)) /\ Cardinality(Users(p, k)) # 0
        BY <2>1, <4>1
      <4>3. Users(p, k) # {}
        BY <4>2, UsersFinite
      <4>. QED BY <1>5, <2>3, <4>2, <4>3 DEF Lasts
    <3>. QED BY <2>1, <2>3, <3>2, <3>3, <3>4, <3>5
  <2>. QED BY <2>2, <2>3
<1>6. Shape'
  <2>1. of_tab' = [k \in Oft |-> of_tab'[k]]
    BY DEF Exit
  <2>2. of_tab' \in [Oft -> OpenFile]
    BY <1>5, <2>1
  <2>. QED BY <1>1, <1>2, <1>3, <2>2 DEF Shape
<1>7. Counted'
  BY <1>1, <1>5 DEF Counted
<1>8. ASSUME NEW i \in Inodes
      PROVE  Cardinality(On(of_tab', i))
               = Cardinality(On(of_tab, i)) - Cardinality({e \in Lasts(p) : of_tab[e].o_inode = i})
  <2>. DEFINE L == {e \in Lasts(p) : of_tab[e].o_inode = i}
              O == On(of_tab, i)
  <2>1. On(of_tab', i) = O \ L
    BY <1>5, <1>8 DEF On
  <2>2. O \cap L = L
    BY DEF On, Lasts
  <2>3. IsFiniteSet(O)
    BY <1>2, Finite
  <2>. HIDE DEF L, O
  <2>4. Cardinality(O \ L) = Cardinality(O) - Cardinality(O \cap L)
    BY <2>3, FS_Difference
  <2>5. Cardinality(On(of_tab', i)) = Cardinality(O) - Cardinality(L)
    BY <2>1, <2>2, <2>4
  <2>. QED BY <2>5 DEF L, O
<1>9. ASSUME NEW i \in Inodes
      PROVE  /\ Cardinality({e \in Lasts(p) : of_tab[e].o_inode = i}) \in Nat
             /\ c_refs'[i] = c_refs[i] - (Cardinality({e \in Lasts(p) : of_tab[e].o_inode = i})
                                            + One(u_cwd[p], i) + One(u_root[p], i))
  <2>. DEFINE L == {e \in Lasts(p) : of_tab[e].o_inode = i}
  <2>1. L \in SUBSET Oft
    BY DEF Lasts
  <2>2. Cardinality(L) \in Nat
    BY <2>1, TablesFinite, FS_Subset, FS_CardinalityType
  <2>3. c_refs'[i] = c_refs[i] - (Cardinality(L) + Counts(p, i))
    BY <1>9 DEF Exit
  <2>4. One(u_cwd[p], i) \in Nat /\ One(u_root[p], i) \in Nat /\ c_refs[i] \in Nat
    BY <1>1, <1>9 DEF One
  <2>. HIDE DEF L
  <2>5. c_refs'[i] = c_refs[i] - (Cardinality(L) + One(u_cwd[p], i) + One(u_root[p], i))
    BY <2>2, <2>3, <2>4, CountsAs
  <2>. QED BY <2>2, <2>5 DEF L
<1>10. Referred'
  <2>. SUFFICES ASSUME NEW i \in Inodes
                PROVE  c_refs'[i] = Cardinality(On(of_tab', i)) + Cardinality(At(A, u_cwd, i))
                                      + Cardinality(At(A, u_root, i)) + lost[i]
    BY <1>1 DEF Referred
  <2>. DEFINE n == Cardinality({e \in Lasts(p) : of_tab[e].o_inode = i})
  <2>1. /\ Cardinality(On(of_tab', i)) = Cardinality(On(of_tab, i)) - n
        /\ n \in Nat
        /\ c_refs'[i] = c_refs[i] - (n + One(u_cwd[p], i) + One(u_root[p], i))
    BY <1>8, <1>9
  <2>2. Cardinality(At(A \cup {p}, u_cwd, i)) = Cardinality(At(A, u_cwd, i)) + One(u_cwd[p], i)
    BY <1>2, <1>3, OneMoreDir
  <2>3. Cardinality(At(A \cup {p}, u_root, i)) = Cardinality(At(A, u_root, i)) + One(u_root[p], i)
    BY <1>2, <1>3, OneMoreDir
  <2>4. c_refs[i] = Cardinality(On(of_tab, i)) + Cardinality(At(A \cup {p}, u_cwd, i))
                      + Cardinality(At(A \cup {p}, u_root, i)) + lost[i]
    BY <1>1, <1>3 DEF Referred
  <2>5. Cardinality(On(of_tab, i)) \in Nat /\ lost[i] \in Nat
    BY <1>1, Numbers
  <2>6. Cardinality(At(A, u_cwd, i)) \in Nat /\ Cardinality(At(A, u_root, i)) \in Nat
    BY <1>3, Finite
  <2>7. One(u_cwd[p], i) \in Nat /\ One(u_root[p], i) \in Nat
    BY DEF One
  <2>. HIDE DEF n
  <2>. QED BY <2>1, <2>2, <2>3, <2>4, <2>5, <2>6, <2>7
<1>11. c_refs' \in [Inodes -> Int]
  <2>1. c_refs' = [i \in Inodes |-> c_refs'[i]]
    BY DEF Exit
  <2>2. ASSUME NEW i \in Inodes PROVE c_refs'[i] \in Int
    <3>1. One(u_cwd[p], i) \in Nat /\ One(u_root[p], i) \in Nat /\ c_refs[i] \in Nat
      BY <1>1, <2>2 DEF One
    <3>. DEFINE n == Cardinality({e \in Lasts(p) : of_tab[e].o_inode = i})
    <3>2. n \in Nat /\ c_refs'[i] = c_refs[i] - (n + One(u_cwd[p], i) + One(u_root[p], i))
      BY <1>9, <2>2
    <3>. HIDE DEF n
    <3>. QED BY <3>1, <3>2
  <2>. QED BY <2>1, <2>2
<1>12. Kept
  BY <1>5 DEF Kept
<1>. QED BY <1>6, <1>7, <1>10, <1>11, <1>12, Rebuild
----------------------------------------------------------------------------
LEMMA InitInv == Init => FilesInv
<1>. SUFFICES ASSUME Init PROVE FilesInv
  OBVIOUS
<1>1. Shape /\ c_refs \in [Inodes -> Nat]
  BY DEF Init, Shape, OpenFile, Closed
<1>2. Counted
  <2>. SUFFICES ASSUME NEW e \in Oft
                PROVE  /\ of_tab[e].o_refs = Cardinality(Desc(alive, u_files, e))
                       /\ of_tab[e].o_inode = NULL <=> of_tab[e].o_refs = 0
    BY DEF Counted
  <2>1. Desc(alive, u_files, e) = {}
    BY TablesFinite DEF Init, Desc
  <2>. QED BY <2>1, FS_EmptySet DEF Init, Closed
<1>3. Referred
  <2>. SUFFICES ASSUME NEW i \in Inodes
                PROVE  c_refs[i] = Cardinality(On(of_tab, i)) + Cardinality(At(alive, u_cwd, i))
                                     + Cardinality(At(alive, u_root, i)) + lost[i]
    BY DEF Referred
  <2>1. On(of_tab, i) = {} /\ lost[i] = 0
    BY DEF Init, On, Closed
  <2>2. CASE i = ROOTINODE
    <3>1. At(alive, u_cwd, i) = {InitProc} /\ At(alive, u_root, i) = {InitProc} /\ c_refs[i] = 2
      BY <2>2 DEF Init, At
    <3>2. Cardinality({InitProc}) = 1
      BY FS_Singleton
    <3>. QED BY <2>1, <3>1, <3>2, FS_EmptySet
  <2>3. CASE i # ROOTINODE
    <3>1. At(alive, u_cwd, i) = {} /\ At(alive, u_root, i) = {} /\ c_refs[i] = 0
      BY <2>3 DEF Init, At
    <3>. QED BY <2>1, <3>1, FS_EmptySet
  <2>. QED BY <2>2, <2>3
<1>. QED BY <1>1, <1>2, <1>3, Unfold

LEMMA StepKeeps == FilesInv /\ [Next]_vars => FilesInv' /\ Kept
<1>. SUFFICES ASSUME FilesInv, [Next]_vars PROVE FilesInv' /\ Kept
  OBVIOUS
<1>1. CASE UNCHANGED vars
  BY <1>1 DEF vars, FilesInv, TypeOK, OpenCounted, DescriptorsOf, RefsRight, FilesOn,
              WorkingIn, RootedAt, Kept
<1>2. ASSUME NEW p \in alive, NEW i \in Inodes,
             Open(p, i) \/ Pipe(p, i) \/ Chdir(p, i) \/ Chroot(p, i)
      PROVE  FilesInv' /\ Kept
  BY <1>2, OpenKeeps, PipeKeeps, ChdirKeeps, ChrootKeeps
<1>3. ASSUME NEW p \in alive, NEW fd \in Fds, Close(p, fd) \/ Dup(p, fd)
      PROVE  FilesInv' /\ Kept
  BY <1>3, CloseKeeps, DupKeeps
<1>4. ASSUME NEW p \in alive, NEW old \in Fds, NEW new \in Fds, Dup2(p, old, new)
      PROVE  FilesInv' /\ Kept
  BY <1>4, Dup2Keeps
<1>5. ASSUME NEW p \in alive, NEW q \in Procs, Fork(p, q)
      PROVE  FilesInv' /\ Kept
  BY <1>5, ForkKeeps
<1>6. ASSUME NEW p \in alive, Exit(p)
      PROVE  FilesInv' /\ Kept
  BY <1>6, ExitKeeps
<1>. QED BY <1>1, <1>2, <1>3, <1>4, <1>5, <1>6 DEF Next

LEMMA FilesCorrect == Spec => []FilesInv
<1>. QED BY InitInv, StepKeeps, PTL DEF Spec

\* No reference count is taken below zero and no descriptor is without an entry,
\* for any processes, inodes and sizes of the tables.
THEOREM FilesTypeCorrect == Spec => []TypeOK
<1>1. FilesInv => TypeOK
  BY DEF FilesInv
<1>. QED BY <1>1, FilesCorrect, PTL

\* o_refs is the number of descriptors, over every dup, dup2, fork and exit.
THEOREM DescriptorsCounted == Spec => []OpenCounted
<1>1. FilesInv => OpenCounted
  BY DEF FilesInv
<1>. QED BY <1>1, FilesCorrect, PTL

\* c_refs is the number of open files and of processes in or under the inode, and
\* of the references that sys_pipe and sys_chdir forget.
THEOREM ReferencesCounted == Spec => []RefsRight
<1>1. FilesInv => RefsRight
  BY DEF FilesInv
<1>. QED BY <1>1, FilesCorrect, PTL

\* A descriptor in use keeps its inode, whatever other processes do.
THEOREM DescriptorsKept == Spec => KeptOpen
<1>. DEFINE Stays == \A p \in alive \cap alive', fd \in Fds :
                       LET e == u_files[p][fd]
                       IN  e # FREE /\ u_files'[p][fd] = e => of_tab'[e].o_inode = of_tab[e].o_inode
<1>1. FilesInv /\ FilesInv' /\ Kept => Stays
  <2>. SUFFICES ASSUME FilesInv, FilesInv', Kept,
                       NEW p \in alive, p \in alive', NEW fd \in Fds, u_files[p][fd] # FREE,
                       u_files'[p][fd] = u_files[p][fd]
                PROVE  of_tab'[u_files[p][fd]].o_inode = of_tab[u_files[p][fd]].o_inode
    OBVIOUS
  <2>. DEFINE e == u_files[p][fd]
  <2>1. e \in Oft /\ of_tab[e].o_refs # 0
    BY Unfold, InUse
  <2>2. of_tab'[e].o_inode # NULL
    <3>1. alive' \subseteq Procs /\ e \in Oft
      BY <2>1 DEF FilesInv, TypeOK
    <3>2. <<p, fd>> \in Desc(alive', u_files', e)
      BY DEF Desc
    <3>3. IsFiniteSet(Desc(alive', u_files', e))
      BY <3>1, Finite
    <3>4. Cardinality(Desc(alive', u_files', e)) # 0
      BY <3>2, <3>3, FS_EmptySet
    <3>. QED BY <3>1, <3>4 DEF FilesInv, OpenCounted, DescriptorsOf, Desc
  <2>. QED BY <2>1, <2>2 DEF Kept
<1>2. FilesInv /\ [Next]_vars => [Stays]_vars
  BY <1>1, StepKeeps
<1>. QED BY <1>2, FilesCorrect, PTL DEF Spec, KeptOpen
=============================================================================
