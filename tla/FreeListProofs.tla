--------------------------- MODULE FreeListProofs ---------------------------
(***************************************************************************)
(* FreeList for every size of disk, cache, table and number of files.  The *)
(* whole list is a sequence of segments, the spilled ones and then the     *)
(* cache; Good says what holds it together, and four lemmas that blk_alloc *)
(* and blk_free keep it.                                                   *)
(***************************************************************************)
EXTENDS FreeList, TLAPS, SequenceTheorems

SegIn(sp, sf, s) == IF s = Len(sp) + 1 THEN sf ELSE sp[s]
Size(sp, sf, s) == Len(SegIn(sp, sf, s))
At(sp, sf, s, i) == SegIn(sp, sf, s)[i]
On(sp, sf, b) ==
    \E s \in 1 .. Len(sp) + 1 : \E i \in 1 .. Size(sp, sf, s) :
        At(sp, sf, s, i) = b

(* No number is on the list twice but the 0.                               *)
Distinct(sp, sf) ==
    \A s, t \in 1 .. Len(sp) + 1 :
        \A i \in 1 .. Size(sp, sf, s), j \in 1 .. Size(sp, sf, t) :
            At(sp, sf, s, i) # 0 /\ At(sp, sf, s, i) = At(sp, sf, t, j)
                => s = t /\ i = j

(* The first number of a segment is the block that holds the one below it, *)
(* and only full segments are spilled.                                     *)
Chained(sp, sf, ls) ==
    \A s \in 1 .. Len(sp) :
        /\ Len(sp[s]) = FSFREEBLOCKS
        /\ Size(sp, sf, s + 1) >= 1
        /\ At(sp, sf, s + 1, 1) \in Blocks
        /\ ls[At(sp, sf, s + 1, 1)] = sp[s]

(* A 0 is at the very bottom of a marked list and nowhere else.            *)
Bottom(sp, sf, mk) ==
    /\ \A s \in 1 .. Len(sp) + 1 : \A i \in 1 .. Size(sp, sf, s) :
         At(sp, sf, s, i) = 0 => mk /\ s = 1 /\ i = 1
    /\ mk => Size(sp, sf, 1) >= 1 /\ At(sp, sf, 1, 1) = 0

Good(sp, sf, ls, mk) == Distinct(sp, sf) /\ Chained(sp, sf, ls) /\ Bottom(sp, sf, mk)

Holdings == [Blocks -> Lists \cup {UserData}]

(* The three ways the cache of the superblock changes with the list.       *)
Spill(sp, sf, b, ls, as, one, lb) ==
    /\ Len(sf) = FSFREEBLOCKS
    /\ as = Append(sp, sf) /\ one = <<b>> /\ lb = [ls EXCEPT ![b] = sf]
Pop(sf, b, rf) ==
    Len(sf) > 1 /\ b = sf[Len(sf)] /\ rf = SubSeq(sf, 1, Len(sf) - 1)
Refill(sp, sf, b, ls, rp, rf) ==
    /\ sp # <<>> /\ Len(sf) = 1 /\ b = sf[1]
    /\ rp = SubSeq(sp, 1, Len(sp) - 1) /\ rf = ls[b]
SameElsewhere(ls, b, lb) == \A c \in Blocks : c # b => lb[c] = ls[c]

----------------------------------------------------------------------------
LEMMA ListsAreFinite ==
    ASSUME NEW l \in Lists
    PROVE  /\ l \in Seq(Maybe) /\ Len(l) \in Nat /\ Len(l) <= FSFREEBLOCKS
           /\ \A i \in 1 .. Len(l) : l[i] \in Maybe
BY DEF Lists

LEMMA Shortened ==
    ASSUME NEW S, NEW q \in Seq(S), q # <<>>
    PROVE  /\ Len(q) \in Nat /\ Len(q) >= 1
           /\ SubSeq(q, 1, Len(q) - 1) \in Seq(S)
           /\ Len(SubSeq(q, 1, Len(q) - 1)) = Len(q) - 1
           /\ \A i \in 1 .. Len(q) - 1 : SubSeq(q, 1, Len(q) - 1)[i] = q[i]
<1>1. Len(q) \in Nat /\ Len(q) >= 1
  BY EmptySeq, LenProperties
<1>2. PICK m \in Int : m = Len(q) - 1 /\ m >= 0
  BY <1>1
<1>3. \A i \in 1 .. m : q[i] \in S
  BY <1>1, <1>2
<1>4. 1 \in Int
  OBVIOUS
<1>5. SubSeq(q, 1, m) \in Seq(S) /\ Len(SubSeq(q, 1, m)) = IF 1 <= m THEN m - 1 + 1 ELSE 0
  BY <1>3, <1>4, SubSeqProperties
<1>6. \A i \in 1 .. m - 1 + 1 : SubSeq(q, 1, m)[i] = q[1 + i - 1]
  BY <1>3, <1>4, SubSeqProperties
<1>7. (IF 1 <= m THEN m - 1 + 1 ELSE 0) = m
  BY <1>2
<1>8. ASSUME NEW i \in 1 .. m PROVE SubSeq(q, 1, m)[i] = q[i]
  <2>1. i \in 1 .. m - 1 + 1 /\ 1 + i - 1 = i
    BY <1>2
  <2>2. SubSeq(q, 1, m)[i] = q[1 + i - 1]
    BY <2>1, <1>6
  <2> QED
    BY <2>1, <2>2
<1> QED
  BY <1>1, <1>2, <1>5, <1>7, <1>8

LEMMA Segments ==
    ASSUME NEW sp \in Seq(Lists), NEW sf \in Lists
    PROVE  /\ Len(sp) \in Nat
           /\ SegIn(sp, sf, Len(sp) + 1) = sf
           /\ \A s \in 1 .. Len(sp) : SegIn(sp, sf, s) = sp[s] /\ sp[s] \in Lists
           /\ \A s \in 1 .. Len(sp) + 1 :
                /\ SegIn(sp, sf, s) \in Lists
                /\ Size(sp, sf, s) \in Nat
<1> Len(sp) \in Nat
  OBVIOUS
<1>1. SegIn(sp, sf, Len(sp) + 1) = sf
  BY DEF SegIn
<1>2. \A s \in 1 .. Len(sp) : SegIn(sp, sf, s) = sp[s] /\ sp[s] \in Lists
  BY DEF SegIn
<1>3. ASSUME NEW s \in 1 .. Len(sp) + 1 PROVE SegIn(sp, sf, s) \in Lists
  BY <1>1, <1>2
<1>4. ASSUME NEW s \in 1 .. Len(sp) + 1 PROVE Size(sp, sf, s) \in Nat
  BY <1>3, ListsAreFinite DEF Size
<1> QED
  BY <1>1, <1>2, <1>3, <1>4

(* A block that is not on the list and goes into the cache.                *)
LEMMA AddPlain ==
    ASSUME NEW sp \in Seq(Lists), NEW sf \in Lists, NEW ls \in Holdings, NEW mk \in BOOLEAN,
           NEW b \in Blocks, ~On(sp, sf, b), Good(sp, sf, ls, mk), Len(sf) < FSFREEBLOCKS
    PROVE  /\ Good(sp, Append(sf, b), ls, mk)
           /\ \A c \in Blocks : On(sp, Append(sf, b), c) <=> On(sp, sf, c) \/ c = b
<1> DEFINE af == Append(sf, b)
<1>1. /\ af \in Seq(Maybe) /\ Len(af) = Len(sf) + 1 /\ Len(sf) \in Nat /\ Len(sp) \in Nat
      /\ \A i \in 1 .. Len(sf) : af[i] = sf[i]
      /\ af[Len(sf) + 1] = b /\ b # 0
  BY FreeListAssumption DEF Lists, Maybe, Blocks
<1>11. af \in Lists
  BY <1>1, FreeListAssumption DEF Lists
<1> HIDE DEF af
<1>2. \A s \in 1 .. Len(sp) : /\ Size(sp, af, s) = Size(sp, sf, s)
                               /\ \A i : At(sp, af, s, i) = At(sp, sf, s, i)
  BY <1>11, Segments DEF Size, At
<1>3. /\ Size(sp, af, Len(sp) + 1) = Len(sf) + 1 /\ Size(sp, sf, Len(sp) + 1) = Len(sf)
      /\ \A i \in 1 .. Len(sf) : At(sp, af, Len(sp) + 1, i) = At(sp, sf, Len(sp) + 1, i)
      /\ At(sp, af, Len(sp) + 1, Len(sf) + 1) = b
  BY <1>1, <1>11, Segments DEF Size, At
<1>4. \A s \in 1 .. Len(sp) + 1 : \A i \in 1 .. Size(sp, af, s) :
        \/ i \in 1 .. Size(sp, sf, s) /\ At(sp, af, s, i) = At(sp, sf, s, i)
        \/ s = Len(sp) + 1 /\ i = Len(sf) + 1 /\ At(sp, af, s, i) = b
  BY <1>1, <1>2, <1>3
<1>5. \A s \in 1 .. Len(sp) + 1 : \A i \in 1 .. Size(sp, sf, s) :
        i \in 1 .. Size(sp, af, s) /\ At(sp, af, s, i) = At(sp, sf, s, i)
  BY <1>1, <1>2, <1>3
<1>6. \A s \in 1 .. Len(sp) + 1 : \A i \in 1 .. Size(sp, sf, s) :
        At(sp, sf, s, i) # b
  BY DEF On
<1>12. Distinct(sp, sf)
  BY DEF Good
<1>7. Distinct(sp, af)
  <2> SUFFICES ASSUME NEW s \in 1 .. Len(sp) + 1, NEW t \in 1 .. Len(sp) + 1,
                      NEW i \in 1 .. Size(sp, af, s),
                      NEW j \in 1 .. Size(sp, af, t),
                      At(sp, af, s, i) # 0,
                      At(sp, af, s, i) = At(sp, af, t, j)
      PROVE  s = t /\ i = j
    BY DEF Distinct
  <2>1. CASE i \in 1 .. Size(sp, sf, s) /\ At(sp, af, s, i) = At(sp, sf, s, i)
    <3>1. CASE j \in 1 .. Size(sp, sf, t) /\ At(sp, af, t, j) = At(sp, sf, t, j)
      <4>1. At(sp, sf, s, i) # 0 /\ At(sp, sf, s, i) = At(sp, sf, t, j)
        BY <2>1, <3>1
      <4> QED
        BY <4>1, <2>1, <3>1, <1>12 DEF Distinct
    <3>2. CASE At(sp, af, t, j) = b
      BY <2>1, <3>2, <1>6
    <3> QED
      BY <3>1, <3>2, <1>4
  <2>2. CASE s = Len(sp) + 1 /\ i = Len(sf) + 1 /\ At(sp, af, s, i) = b
    <3>1. CASE j \in 1 .. Size(sp, sf, t) /\ At(sp, af, t, j) = At(sp, sf, t, j)
      BY <2>2, <3>1, <1>6
    <3>2. CASE t = Len(sp) + 1 /\ j = Len(sf) + 1
      BY <2>2, <3>2
    <3> QED
      BY <3>1, <3>2, <1>4
  <2> QED
    BY <2>1, <2>2, <1>4
<1>8. Chained(sp, af, ls)
  <2> SUFFICES ASSUME NEW s \in 1 .. Len(sp)
      PROVE  /\ Len(sp[s]) = FSFREEBLOCKS
             /\ Size(sp, af, s + 1) >= 1
             /\ At(sp, af, s + 1, 1) \in Blocks
             /\ ls[At(sp, af, s + 1, 1)] = sp[s]
    BY DEF Chained
  <2>1. s + 1 \in 1 .. Len(sp) + 1
    BY <1>1
  <2>2. /\ Len(sp[s]) = FSFREEBLOCKS
        /\ Size(sp, sf, s + 1) >= 1
        /\ At(sp, sf, s + 1, 1) \in Blocks
        /\ ls[At(sp, sf, s + 1, 1)] = sp[s]
    BY DEF Good, Chained
  <2>3. Size(sp, sf, s + 1) \in Nat
    BY <2>1, Segments
  <2>4. 1 \in 1 .. Size(sp, sf, s + 1)
    BY <2>2, <2>3
  <2>5. Size(sp, af, s + 1) \in Nat
    BY <2>1, <1>11, Segments
  <2> QED
    BY <2>1, <2>2, <2>4, <2>5, <1>5
<1>9. Bottom(sp, af, mk)
  <2>1. \A s \in 1 .. Len(sp) + 1 : \A i \in 1 .. Size(sp, af, s) :
          At(sp, af, s, i) = 0 => mk /\ s = 1 /\ i = 1
    BY <1>4, <1>1 DEF Good, Bottom
  <2>2. ASSUME mk PROVE Size(sp, af, 1) >= 1 /\ At(sp, af, 1, 1) = 0
    <3>1. Size(sp, sf, 1) >= 1 /\ At(sp, sf, 1, 1) = 0
      BY <2>2 DEF Good, Bottom
    <3>2. 1 \in 1 .. Len(sp) + 1
      BY <1>1
    <3>3. Size(sp, sf, 1) \in Nat /\ Size(sp, af, 1) \in Nat
      BY <3>2, <1>11, Segments
    <3> QED
      BY <3>1, <3>2, <3>3, <1>5
  <2> QED
    BY <2>1, <2>2 DEF Bottom
<1>10. ASSUME NEW c \in Blocks PROVE On(sp, af, c) <=> On(sp, sf, c) \/ c = b
  <2>1. ASSUME On(sp, af, c) PROVE On(sp, sf, c) \/ c = b
    BY <2>1, <1>4 DEF On
  <2>2. ASSUME On(sp, sf, c) PROVE On(sp, af, c)
    BY <2>2, <1>5 DEF On
  <2>3. On(sp, af, b)
    <3>1. Len(sf) + 1 \in 1 .. Size(sp, af, Len(sp) + 1)
      BY <1>1, <1>3
    <3>2. Len(sp) + 1 \in 1 .. Len(sp) + 1
      BY <1>1
    <3> QED
      BY <3>1, <3>2, <1>1, <1>3 DEF On
  <2> QED
    BY <2>1, <2>2, <2>3
<1> QED
  BY <1>7, <1>8, <1>9, <1>10 DEF Good, af

(* A block that the full cache is spilled into.                            *)
LEMMA AddSpill ==
    ASSUME NEW sp \in Seq(Lists), NEW sf \in Lists, NEW ls \in Holdings, NEW mk \in BOOLEAN,
           NEW b \in Blocks, ~On(sp, sf, b), Good(sp, sf, ls, mk),
           NEW as, NEW one, NEW lb, Spill(sp, sf, b, ls, as, one, lb)
    PROVE  /\ Good(as, one, lb, mk)
           /\ \A c \in Blocks : On(as, one, c) <=> On(sp, sf, c) \/ c = b
<1> DEFINE n == Len(sp)
<1>0. /\ as = Append(sp, sf) /\ one = <<b>> /\ lb = [ls EXCEPT ![b] = sf]
      /\ Len(sf) = FSFREEBLOCKS
  BY DEF Spill
<1>1. /\ as \in Seq(Lists) /\ Len(as) = n + 1 /\ n \in Nat
      /\ \A s \in 1 .. n : as[s] = sp[s]
      /\ as[n + 1] = sf /\ b # 0 /\ Len(<<b>>) = 1 /\ <<b>>[1] = b
  BY <1>0, FreeListAssumption DEF Blocks
<1>2. lb[b] = sf /\ \A c \in Blocks : c # b => lb[c] = ls[c]
  BY <1>0 DEF Holdings
<1>11. <<b>> \in Lists
  BY FreeListAssumption DEF Lists, Maybe
<1>12. /\ one \in Lists /\ Len(one) = 1 /\ one[1] = b
       /\ n + 1 \in Nat /\ n + 2 = Len(as) + 1 /\ \A s \in 1 .. n + 1 : s \in 1 .. Len(as)
  BY <1>0, <1>1, <1>11
<1>3. \A s \in 1 .. n + 1 : /\ Size(as, one, s) = Size(sp, sf, s)
                              /\ \A i : At(as, one, s, i) = At(sp, sf, s, i)
  <2> SUFFICES ASSUME NEW s \in 1 .. n + 1 PROVE SegIn(as, one, s) = SegIn(sp, sf, s)
    BY DEF Size, At
  <2>1. SegIn(as, one, s) = as[s]
    BY <1>1, <1>12, Segments
  <2>2. CASE s = n + 1
    BY <2>1, <2>2, <1>1 DEF SegIn
  <2>3. CASE s # n + 1
    <3>1. s \in 1 .. n
      BY <2>3, <1>1
    <3> QED
      BY <3>1, <2>1, <1>1, Segments
  <2> QED
    BY <2>2, <2>3
<1>4. Size(as, one, n + 2) = 1 /\ At(as, one, n + 2, 1) = b
  BY <1>1, <1>12, Segments DEF Size, At
<1>5. \A s \in 1 .. n + 1 : \A i \in 1 .. Size(sp, sf, s) : At(sp, sf, s, i) # b
  BY DEF On
<1>6. \A s \in 1 .. n + 2 : \A i \in 1 .. Size(as, one, s) :
        \/ s \in 1 .. n + 1 /\ i \in 1 .. Size(sp, sf, s)
             /\ At(as, one, s, i) = At(sp, sf, s, i)
        \/ s = n + 2 /\ i = 1 /\ At(as, one, s, i) = b
  <2> SUFFICES ASSUME NEW s \in 1 .. n + 2, NEW i \in 1 .. Size(as, one, s)
      PROVE \/ s \in 1 .. n + 1 /\ i \in 1 .. Size(sp, sf, s)
                 /\ At(as, one, s, i) = At(sp, sf, s, i)
            \/ s = n + 2 /\ i = 1 /\ At(as, one, s, i) = b
    OBVIOUS
  <2>1. CASE s = n + 2
    <3>1. Size(as, one, s) = 1 /\ At(as, one, s, 1) = b
      BY <2>1, <1>4
    <3>2. i = 1
      BY <3>1
    <3> QED
      BY <2>1, <3>1, <3>2
  <2>2. CASE s # n + 2
    <3>1. s \in 1 .. n + 1
      BY <2>2, <1>1
    <3> QED
      BY <3>1, <1>3
  <2> QED
    BY <2>1, <2>2
<1>13. Distinct(sp, sf)
  BY DEF Good
<1>7. Distinct(as, one)
  <2> SUFFICES ASSUME NEW s \in 1 .. n + 2, NEW t \in 1 .. n + 2,
                      NEW i \in 1 .. Size(as, one, s),
                      NEW j \in 1 .. Size(as, one, t),
                      At(as, one, s, i) # 0,
                      At(as, one, s, i) = At(as, one, t, j)
      PROVE  s = t /\ i = j
    BY <1>12 DEF Distinct
  <2>1. CASE /\ s \in 1 .. n + 1 /\ i \in 1 .. Size(sp, sf, s)
             /\ At(as, one, s, i) = At(sp, sf, s, i)
    <3>1. CASE /\ t \in 1 .. n + 1 /\ j \in 1 .. Size(sp, sf, t)
               /\ At(as, one, t, j) = At(sp, sf, t, j)
      <4>1. At(sp, sf, s, i) # 0 /\ At(sp, sf, s, i) = At(sp, sf, t, j)
        BY <2>1, <3>1
      <4> QED
        BY <4>1, <2>1, <3>1, <1>13 DEF Distinct
    <3>2. CASE At(as, one, t, j) = b
      BY <2>1, <3>2, <1>5
    <3> QED
      BY <3>1, <3>2, <1>6
  <2>2. CASE s = n + 2 /\ i = 1 /\ At(as, one, s, i) = b
    <3>1. CASE /\ t \in 1 .. n + 1 /\ j \in 1 .. Size(sp, sf, t)
               /\ At(as, one, t, j) = At(sp, sf, t, j)
      BY <2>2, <3>1, <1>5
    <3>2. CASE t = n + 2 /\ j = 1
      BY <2>2, <3>2
    <3> QED
      BY <3>1, <3>2, <1>6
  <2> QED
    BY <2>1, <2>2, <1>6
<1>8. Chained(as, one, lb)
  <2> SUFFICES ASSUME NEW s \in 1 .. n + 1
      PROVE  /\ Len(as[s]) = FSFREEBLOCKS
             /\ Size(as, one, s + 1) >= 1
             /\ At(as, one, s + 1, 1) \in Blocks
             /\ lb[At(as, one, s + 1, 1)] = as[s]
    BY <1>1 DEF Chained
  <2>1. CASE s = n + 1
    <3>1. PICK t \in Nat : t = s + 1
      BY <1>1
    <3>7. t = n + 2
      BY <2>1, <3>1, <1>1
    <3>2. Size(as, one, t) = 1 /\ At(as, one, t, 1) = b
      BY <3>7, <1>4
    <3>3. as[s] = sf
      BY <2>1, <1>1
    <3>4. lb[At(as, one, t, 1)] = as[s]
      BY <3>2, <3>3, <1>2
    <3>5. Size(as, one, t) >= 1
      BY <3>2
    <3>8. At(as, one, t, 1) \in Blocks
      BY <3>2
    <3>6. Len(as[s]) = FSFREEBLOCKS
      BY <1>0, <3>3
    <3> QED
      BY <3>1, <3>4, <3>5, <3>6, <3>8
  <2>2. CASE s # n + 1
    <3>1. s \in 1 .. n /\ s + 1 \in 1 .. n + 1
      BY <2>2, <1>1
    <3>2. /\ Len(sp[s]) = FSFREEBLOCKS
          /\ Size(sp, sf, s + 1) >= 1
          /\ At(sp, sf, s + 1, 1) \in Blocks
          /\ ls[At(sp, sf, s + 1, 1)] = sp[s]
      BY <3>1 DEF Good, Chained
    <3>3. SegIn(sp, sf, s + 1) \in Lists
      BY <3>1, <1>1, Segments
    <3>5. 1 \in 1 .. Size(sp, sf, s + 1)
      BY <3>2, <3>3, ListsAreFinite
    <3>4. At(sp, sf, s + 1, 1) # b
      BY <3>1, <3>5, <1>5
    <3> QED
      BY <3>1, <3>2, <3>4, <1>1, <1>2, <1>3
  <2> QED
    BY <2>1, <2>2
<1>9. Bottom(as, one, mk)
  <2>1. \A s \in 1 .. Len(as) + 1 : \A i \in 1 .. Size(as, one, s) :
          At(as, one, s, i) = 0 => mk /\ s = 1 /\ i = 1
    BY <1>1, <1>6, <1>12 DEF Good, Bottom
  <2>2. 1 \in 1 .. n + 1
    BY <1>1
  <2> QED
    BY <2>1, <2>2, <1>3 DEF Good, Bottom
<1>10. ASSUME NEW c \in Blocks PROVE On(as, one, c) <=> On(sp, sf, c) \/ c = b
  <2>1. ASSUME On(as, one, c) PROVE On(sp, sf, c) \/ c = b
    <3>1. PICK s \in 1 .. n + 2 : \E i \in 1 .. Size(as, one, s) :
            At(as, one, s, i) = c
      BY <2>1, <1>12 DEF On
    <3> QED
      BY <3>1, <1>6 DEF On
  <2>2. ASSUME On(sp, sf, c) PROVE On(as, one, c)
    <3>1. PICK s \in 1 .. n + 1 : \E i \in 1 .. Size(sp, sf, s) : At(sp, sf, s, i) = c
      BY <2>2 DEF On
    <3>2. s \in 1 .. Len(as) + 1
      BY <1>1
    <3> QED
      BY <3>1, <3>2, <1>3 DEF On
  <2>3. On(as, one, b)
    <3>1. PICK s \in 1 .. Len(as) + 1 : s = n + 2
      BY <1>1, <1>12
    <3>2. Size(as, one, s) = 1 /\ At(as, one, s, 1) = b
      BY <3>1, <1>4
    <3>3. 1 \in 1 .. Size(as, one, s)
      BY <3>2
    <3> QED
      BY <3>2, <3>3 DEF On
  <2> QED
    BY <2>1, <2>2, <2>3
<1> QED
  BY <1>7, <1>8, <1>9, <1>10 DEF Good

(* The last of several numbers in the cache is taken.                      *)
LEMMA DropPlain ==
    ASSUME NEW sp \in Seq(Lists), NEW sf \in Lists, NEW ls \in Holdings, NEW mk \in BOOLEAN,
           NEW b \in Blocks, Good(sp, sf, ls, mk), NEW rf, Pop(sf, b, rf),
           NEW lb \in Holdings, SameElsewhere(ls, b, lb)
    PROVE  /\ Good(sp, rf, lb, mk)
           /\ \A c \in Blocks : On(sp, rf, c) <=> On(sp, sf, c) /\ c # b
<1> DEFINE n == Len(sp)
<1>0. Len(sf) > 1 /\ b = sf[Len(sf)] /\ rf = SubSeq(sf, 1, Len(sf) - 1)
  BY DEF Pop
<1>1. /\ rf \in Seq(Maybe) /\ Len(rf) = Len(sf) - 1 /\ Len(sf) \in Nat /\ n \in Nat
      /\ \A i \in 1 .. Len(sf) - 1 : rf[i] = sf[i]
  <2>1. sf \in Seq(Maybe) /\ sf # <<>>
    BY <1>0 DEF Lists
  <2> QED
    BY <1>0, <2>1, Shortened
<1>2. rf \in Lists
  BY <1>1, FreeListAssumption, ListsAreFinite DEF Lists
<1>13. Len(sf) > 1 /\ b = sf[Len(sf)]
  BY <1>0
<1>14. \A c \in Blocks : c # b => lb[c] = ls[c]
  BY DEF SameElsewhere
<1>3. \A s \in 1 .. n : /\ Size(sp, rf, s) = Size(sp, sf, s)
                        /\ \A i : At(sp, rf, s, i) = At(sp, sf, s, i)
  BY <1>2, Segments DEF Size, At
<1>4. /\ Size(sp, rf, n + 1) = Len(sf) - 1 /\ Size(sp, sf, n + 1) = Len(sf)
      /\ \A i \in 1 .. Len(sf) - 1 : At(sp, rf, n + 1, i) = At(sp, sf, n + 1, i)
      /\ At(sp, sf, n + 1, Len(sf)) = b
  BY <1>1, <1>2, <1>13, Segments DEF Size, At
<1>5. \A s \in 1 .. n + 1 : \A i \in 1 .. Size(sp, rf, s) :
        i \in 1 .. Size(sp, sf, s) /\ At(sp, rf, s, i) = At(sp, sf, s, i)
  <2> SUFFICES ASSUME NEW s \in 1 .. n + 1, NEW i \in 1 .. Size(sp, rf, s)
      PROVE  i \in 1 .. Size(sp, sf, s) /\ At(sp, rf, s, i) = At(sp, sf, s, i)
    OBVIOUS
  <2>1. CASE s = n + 1
    <3>1. Size(sp, rf, s) = Len(sf) - 1 /\ Size(sp, sf, s) = Len(sf)
      BY <2>1, <1>4
    <3>2. i \in 1 .. Len(sf) - 1
      BY <3>1
    <3>3. i \in 1 .. Size(sp, sf, s)
      BY <3>1, <3>2, <1>1
    <3> QED
      BY <2>1, <3>2, <3>3, <1>4
  <2>2. CASE s # n + 1
    <3>1. s \in 1 .. n
      BY <2>2, <1>1
    <3> QED
      BY <3>1, <1>3
  <2> QED
    BY <2>1, <2>2
<1>6. \A s \in 1 .. n + 1 : \A i \in 1 .. Size(sp, sf, s) :
        \/ i \in 1 .. Size(sp, rf, s) /\ At(sp, rf, s, i) = At(sp, sf, s, i)
        \/ s = n + 1 /\ i = Len(sf)
  BY <1>1, <1>3, <1>4
<1>7. Distinct(sp, sf) /\ Chained(sp, sf, ls) /\ Bottom(sp, sf, mk)
  BY DEF Good
<1>8. Distinct(sp, rf)
  BY <1>5, <1>7 DEF Distinct
<1>9. \A s \in 1 .. n + 1 : \A i \in 1 .. Size(sp, rf, s) : At(sp, rf, s, i) # b
  <2> SUFFICES ASSUME NEW s \in 1 .. n + 1, NEW i \in 1 .. Size(sp, rf, s),
                      At(sp, rf, s, i) = b
      PROVE  FALSE
    OBVIOUS
  <2>1. i \in 1 .. Size(sp, sf, s) /\ At(sp, sf, s, i) = b
    BY <1>5
  <2>2. b # 0
    BY FreeListAssumption DEF Blocks
  <2>6. PICK t \in 1 .. n + 1 : t = n + 1
    BY <1>1
  <2>3. PICK j \in 1 .. Size(sp, sf, t) : t = n + 1 /\ j = Len(sf)
    BY <2>6, <1>1, <1>4, <1>13
  <2>4. At(sp, sf, t, j) = b
    BY <2>3, <1>4
  <2>5. s = n + 1 /\ i = Len(sf)
    BY <2>1, <2>2, <2>3, <2>4, <1>7 DEF Distinct
  <2> QED
    BY <2>5, <1>1, <1>4
<1>10. Chained(sp, rf, lb)
  <2> SUFFICES ASSUME NEW s \in 1 .. n
      PROVE  /\ Len(sp[s]) = FSFREEBLOCKS
             /\ Size(sp, rf, s + 1) >= 1
             /\ At(sp, rf, s + 1, 1) \in Blocks
             /\ lb[At(sp, rf, s + 1, 1)] = sp[s]
    BY DEF Chained
  <2>1. PICK t \in 1 .. n + 1 : t = s + 1
    BY <1>1
  <2>2. /\ Len(sp[s]) = FSFREEBLOCKS
        /\ Size(sp, sf, t) >= 1
        /\ At(sp, sf, t, 1) \in Blocks
        /\ ls[At(sp, sf, t, 1)] = sp[s]
    BY <2>1, <1>7 DEF Chained
  <2>3. Size(sp, rf, t) >= 1
    <3>1. CASE t = n + 1
      BY <3>1, <1>1, <1>4, <1>13
    <3>2. CASE t # n + 1
      <4>1. t \in 1 .. n
        BY <2>1, <3>2, <1>1
      <4>2. Size(sp, rf, t) = Size(sp, sf, t)
        BY <4>1, <1>3
      <4> QED
        BY <4>2, <2>2
    <3> QED
      BY <3>1, <3>2
  <2>4. 1 \in 1 .. Size(sp, rf, t)
    BY <2>3, <1>2, Segments
  <2>5. At(sp, rf, t, 1) = At(sp, sf, t, 1) /\ At(sp, rf, t, 1) # b
    BY <2>4, <1>5, <1>9
  <2>6. lb[At(sp, rf, t, 1)] = sp[s]
    BY <2>2, <2>5, <1>14
  <2> QED
    BY <2>1, <2>2, <2>3, <2>5, <2>6
<1>11. Bottom(sp, rf, mk)
  <2>1. \A s \in 1 .. n + 1 : \A i \in 1 .. Size(sp, rf, s) :
          At(sp, rf, s, i) = 0 => mk /\ s = 1 /\ i = 1
    BY <1>5, <1>7 DEF Bottom
  <2>2. ASSUME mk PROVE Size(sp, rf, 1) >= 1 /\ At(sp, rf, 1, 1) = 0
    <3>1. Size(sp, sf, 1) >= 1 /\ At(sp, sf, 1, 1) = 0
      BY <2>2, <1>7 DEF Bottom
    <3>2. PICK t \in 1 .. n + 1 : t = 1
      BY <1>1
    <3>3. CASE t = n + 1
      <4>1. Size(sp, rf, t) >= 1
        BY <3>3, <1>1, <1>4, <1>13
      <4>2. 1 \in 1 .. Size(sp, rf, t)
        BY <4>1, <1>2, Segments
      <4> QED
        BY <3>1, <3>2, <4>1, <4>2, <1>5
    <3>4. CASE t # n + 1
      BY <3>1, <3>2, <3>4, <1>1, <1>3
    <3> QED
      BY <3>3, <3>4
  <2> QED
    BY <2>1, <2>2 DEF Bottom
<1>12. ASSUME NEW c \in Blocks PROVE On(sp, rf, c) <=> On(sp, sf, c) /\ c # b
  <2>1. ASSUME On(sp, rf, c) PROVE On(sp, sf, c) /\ c # b
    BY <2>1, <1>5, <1>9 DEF On
  <2>2. ASSUME On(sp, sf, c), c # b PROVE On(sp, rf, c)
    <3>1. PICK s \in 1 .. n + 1 : \E i \in 1 .. Size(sp, sf, s) : At(sp, sf, s, i) = c
      BY <2>2 DEF On
    <3>2. PICK i \in 1 .. Size(sp, sf, s) : At(sp, sf, s, i) = c
      BY <3>1
    <3>3. ~(s = n + 1 /\ i = Len(sf))
      BY <2>2, <3>2, <1>4
    <3> QED
      BY <3>2, <3>3, <1>6 DEF On
  <2> QED
    BY <2>1, <2>2
<1> QED
  BY <1>8, <1>10, <1>11, <1>12 DEF Good

(* The only number in the cache is taken, and what its block holds becomes *)
(* the cache.                                                              *)
LEMMA DropRefill ==
    ASSUME NEW sp \in Seq(Lists), NEW sf \in Lists, NEW ls \in Holdings, NEW mk \in BOOLEAN,
           NEW b \in Blocks, Good(sp, sf, ls, mk),
           NEW rp, NEW rf, Refill(sp, sf, b, ls, rp, rf),
           NEW lb \in Holdings, SameElsewhere(ls, b, lb)
    PROVE  /\ rf \in Lists /\ Len(rf) = FSFREEBLOCKS
           /\ rp \in Seq(Lists) /\ Len(rp) = Len(sp) - 1
           /\ Good(rp, rf, lb, mk)
           /\ \A c \in Blocks : On(rp, rf, c) <=> On(sp, sf, c) /\ c # b
<1> DEFINE n == Len(sp)
<1>0. /\ sp # <<>> /\ Len(sf) = 1 /\ b = sf[1]
      /\ rp = SubSeq(sp, 1, Len(sp) - 1) /\ rf = ls[b]
  BY DEF Refill
<1>13. \A c \in Blocks : c # b => lb[c] = ls[c]
  BY DEF SameElsewhere
<1>1. /\ n \in Nat /\ n >= 1
      /\ rp \in Seq(Lists) /\ Len(rp) = n - 1
      /\ \A s \in 1 .. n - 1 : rp[s] = sp[s]
  BY <1>0, Shortened
<1>2. Distinct(sp, sf) /\ Chained(sp, sf, ls) /\ Bottom(sp, sf, mk)
  BY DEF Good
<1>3. Size(sp, sf, n + 1) = 1 /\ At(sp, sf, n + 1, 1) = b
  BY <1>0, Segments DEF Size, At
<1>4. rf = sp[n] /\ Len(sp[n]) = FSFREEBLOCKS
  <2>1. PICK s \in 1 .. n : s = n
    BY <1>1
  <2>2. Len(sp[s]) = FSFREEBLOCKS /\ ls[At(sp, sf, s + 1, 1)] = sp[s]
    BY <1>2 DEF Chained
  <2> QED
    BY <2>1, <2>2, <1>0, <1>3
<1>5. rf \in Lists
  BY <1>1, <1>4
<1>6. \A s \in 1 .. n : /\ Size(rp, rf, s) = Size(sp, sf, s)
                        /\ \A i : At(rp, rf, s, i) = At(sp, sf, s, i)
  <2> SUFFICES ASSUME NEW s \in 1 .. n PROVE SegIn(rp, rf, s) = SegIn(sp, sf, s)
    BY DEF Size, At
  <2>1. SegIn(sp, sf, s) = sp[s]
    BY Segments
  <2>2. CASE s = n
    BY <2>1, <2>2, <1>1, <1>4 DEF SegIn
  <2>3. CASE s # n
    BY <2>1, <2>3, <1>1 DEF SegIn
  <2> QED
    BY <2>2, <2>3
<1>7. /\ n = Len(rp) + 1 /\ 1 .. Len(rp) + 1 = 1 .. n
      /\ \A s \in 1 .. n : s \in 1 .. n + 1
  BY <1>1
<1>8. Distinct(rp, rf)
  <2> SUFFICES ASSUME NEW s \in 1 .. Len(rp) + 1, NEW t \in 1 .. Len(rp) + 1,
                      NEW i \in 1 .. Size(rp, rf, s), NEW j \in 1 .. Size(rp, rf, t),
                      At(rp, rf, s, i) # 0, At(rp, rf, s, i) = At(rp, rf, t, j)
      PROVE  s = t /\ i = j
    BY DEF Distinct
  <2> s \in 1 .. n /\ t \in 1 .. n
    BY <1>7
  <2>1. i \in 1 .. Size(sp, sf, s) /\ j \in 1 .. Size(sp, sf, t)
    BY <1>6
  <2>2. At(sp, sf, s, i) # 0 /\ At(sp, sf, s, i) = At(sp, sf, t, j)
    BY <1>6
  <2> QED
    BY <2>1, <2>2, <1>2, <1>7 DEF Distinct
<1>9. \A s \in 1 .. n : \A i \in 1 .. Size(sp, sf, s) : At(sp, sf, s, i) # b
  <2> SUFFICES ASSUME NEW s \in 1 .. n, NEW i \in 1 .. Size(sp, sf, s), At(sp, sf, s, i) = b
      PROVE  FALSE
    OBVIOUS
  <2>1. PICK t \in 1 .. n + 1 : t = n + 1
    BY <1>1
  <2>2. 1 \in 1 .. Size(sp, sf, t) /\ At(sp, sf, t, 1) = b
    BY <2>1, <1>3
  <2>3. b # 0
    BY FreeListAssumption DEF Blocks
  <2>4. s = t
    BY <2>2, <2>3, <1>2, <1>7 DEF Distinct
  <2> QED
    BY <2>1, <2>4, <1>1
<1>10. Chained(rp, rf, lb)
  <2> SUFFICES ASSUME NEW s \in 1 .. n - 1
      PROVE  /\ Len(rp[s]) = FSFREEBLOCKS
             /\ Size(rp, rf, s + 1) >= 1
             /\ At(rp, rf, s + 1, 1) \in Blocks
             /\ lb[At(rp, rf, s + 1, 1)] = rp[s]
    BY <1>1 DEF Chained
  <2>1. s \in 1 .. n
    BY <1>1
  <2>2. PICK t \in 1 .. n : t = s + 1
    BY <1>1
  <2>3. /\ Len(sp[s]) = FSFREEBLOCKS
        /\ Size(sp, sf, t) >= 1
        /\ At(sp, sf, t, 1) \in Blocks
        /\ ls[At(sp, sf, t, 1)] = sp[s]
    BY <2>1, <2>2, <1>2 DEF Chained
  <2>4. 1 \in 1 .. Size(sp, sf, t)
    <3>1. Size(sp, sf, t) \in Nat
      BY <1>7, Segments
    <3> QED
      BY <2>3, <3>1
  <2>5. At(sp, sf, t, 1) # b
    BY <2>4, <1>9
  <2>6. At(rp, rf, t, 1) = At(sp, sf, t, 1) /\ Size(rp, rf, t) >= 1
    BY <2>3, <1>6
  <2>7. lb[At(rp, rf, t, 1)] = sp[s]
    BY <2>3, <2>5, <2>6, <1>13
  <2> QED
    BY <2>2, <2>3, <2>6, <2>7, <1>1
<1>11. Bottom(rp, rf, mk)
  <2>1. \A s \in 1 .. n : \A i \in 1 .. Size(rp, rf, s) :
          At(rp, rf, s, i) = 0 => mk /\ s = 1 /\ i = 1
    BY <1>2, <1>6, <1>7 DEF Bottom
  <2>2. PICK t \in 1 .. n : t = 1
    BY <1>1
  <2>3. mk => Size(rp, rf, t) >= 1 /\ At(rp, rf, t, 1) = 0
    BY <2>2, <1>2, <1>6 DEF Bottom
  <2> QED
    BY <2>1, <2>2, <2>3, <1>7 DEF Bottom
<1>12. ASSUME NEW c \in Blocks PROVE On(rp, rf, c) <=> On(sp, sf, c) /\ c # b
  <2>1. ASSUME On(rp, rf, c) PROVE On(sp, sf, c) /\ c # b
    <3>1. PICK s \in 1 .. n : \E i \in 1 .. Size(rp, rf, s) : At(rp, rf, s, i) = c
      BY <2>1, <1>7 DEF On
    <3>2. PICK i \in 1 .. Size(rp, rf, s) : At(rp, rf, s, i) = c
      BY <3>1
    <3>3. i \in 1 .. Size(sp, sf, s) /\ At(sp, sf, s, i) = c
      BY <3>2, <1>6
    <3> QED
      BY <3>3, <1>7, <1>9 DEF On
  <2>2. ASSUME On(sp, sf, c), c # b PROVE On(rp, rf, c)
    <3>1. PICK s \in 1 .. n + 1 : \E i \in 1 .. Size(sp, sf, s) : At(sp, sf, s, i) = c
      BY <2>2 DEF On
    <3>2. PICK i \in 1 .. Size(sp, sf, s) : At(sp, sf, s, i) = c
      BY <3>1
    <3>3. s # n + 1
      <4> SUFFICES ASSUME s = n + 1 PROVE FALSE
        OBVIOUS
      <4>1. Size(sp, sf, s) = 1 /\ At(sp, sf, s, 1) = b
        BY <1>3
      <4>2. i = 1
        BY <4>1
      <4> QED
        BY <4>1, <4>2, <3>2, <2>2
    <3>4. s \in 1 .. n
      BY <3>3, <1>1
    <3>5. i \in 1 .. Size(rp, rf, s) /\ At(rp, rf, s, i) = c
      BY <3>2, <3>4, <1>6
    <3>6. s \in 1 .. Len(rp) + 1
      BY <3>4, <1>7
    <3> QED
      BY <3>5, <3>6 DEF On
  <2> QED
    BY <2>1, <2>2
<1> QED
  BY <1>1, <1>4, <1>5, <1>8, <1>10, <1>11, <1>12 DEF Good
----------------------------------------------------------------------------
LEMMA Facts ==
    /\ Lo \in Nat /\ Hi \in Nat /\ Lo > 0 /\ Lo <= Hi
    /\ Lo \in Blocks /\ Hi \in Blocks /\ 0 \notin Blocks
    /\ FSFREEBLOCKS \in Nat /\ FSFREEBLOCKS > 1
    /\ <<>> \in Lists /\ <<0>> \in Lists /\ \A b \in Blocks : <<b>> \in Lists
    /\ UserData \notin Lists
    /\ Data \subseteq Lists
    /\ \A b \in Maybe : b # 0 => b \in Blocks
    /\ \A b \in Blocks : b \in Maybe /\ b # 0
<1>1. UserData \notin Lists
  <2> SUFFICES ASSUME UserData \in Lists PROVE FALSE
    OBVIOUS
  <2>0. Len(UserData) = 1 /\ 1 \in 1 .. 1
    BY DEF UserData
  <2>1. UserData[1] \in Maybe
    BY <2>0, ListsAreFinite
  <2> QED
    BY <2>1, FreeListAssumption DEF UserData, Maybe, Blocks
<1>2. <<>> \in Lists /\ <<0>> \in Lists /\ \A b \in Blocks : <<b>> \in Lists
  BY FreeListAssumption DEF Lists, Maybe
<1> QED
  BY <1>1, <1>2, FreeListAssumption DEF Blocks, Maybe

LEMMA ListLengths ==
    ASSUME TypeOK
    PROVE  /\ Len(s_free) \in Nat /\ Len(s_free) <= FSFREEBLOCKS
           /\ Len(spilled) \in Nat
           /\ s_free # <<>> => Len(s_free) >= 1
<1>1. Len(s_free) \in Nat /\ Len(s_free) <= FSFREEBLOCKS /\ s_free \in Seq(Maybe)
  BY ListsAreFinite DEF TypeOK
<1>2. Len(spilled) \in Nat
  BY LenProperties DEF TypeOK
<1>3. s_free # <<>> => Len(s_free) >= 1
  BY <1>1, EmptySeq
<1> QED
  BY <1>1, <1>2, <1>3

(* Types of what blk_free and blk_alloc leave.                             *)
LEMMA PutOnTypes ==
    ASSUME TypeOK, NEW b \in Blocks, PutOn(b)
    PROVE  /\ s_free' \in Lists /\ spilled' \in Seq(Lists) /\ s_tfree' \in Nat
           /\ list' \in Holdings /\ condemned' = condemned /\ intact' = intact
<1>1. s_tfree' \in Nat /\ condemned' = condemned /\ intact' = intact
  BY DEF PutOn, PutOnCounting, TypeOK
<1>2. CASE Full
  <2>1. list' = [list EXCEPT ![b] = s_free] /\ spilled' = Append(spilled, s_free)
          /\ s_free' = <<b>>
    BY <1>2 DEF PutOn, PutOnCounting
  <2>2. list' \in Holdings
    BY <2>1 DEF TypeOK, Holdings
  <2>3. spilled' \in Seq(Lists)
    BY <2>1 DEF TypeOK
  <2> QED
    BY <1>1, <2>1, <2>2, <2>3, Facts
<1>3. CASE ~Full
  <2>1. s_free' = Append(s_free, b) /\ UNCHANGED <<list, spilled>>
    BY <1>3 DEF PutOn, PutOnCounting
  <2>2. Append(s_free, b) \in Seq(Maybe) /\ Len(Append(s_free, b)) = Len(s_free) + 1
    BY Facts, ListsAreFinite DEF TypeOK
  <2>3. Append(s_free, b) \in Lists
    BY <1>3, <2>2, ListLengths, Facts DEF Lists, Full
  <2> QED
    BY <1>1, <2>1, <2>3 DEF TypeOK, Holdings
<1> QED
  BY <1>2, <1>3

LEMMA TakeOffTypes ==
    ASSUME TypeOK, NEW b \in Blocks, TakeOff(b)
    PROVE  s_free' \in Lists /\ spilled' \in Seq(Lists) /\ intact' \in BOOLEAN
<1> USE DEF TypeOK
<1>1. CASE Len(s_free) > 1 /\ s_free' = Rest /\ UNCHANGED <<spilled, intact>>
  <2>1. s_free \in Seq(Maybe)
    BY ListsAreFinite
  <2>2. Rest \in Seq(Maybe) /\ Len(Rest) = Len(s_free) - 1
    BY <2>1, Shortened DEF Rest, TakeOff
  <2>3. Rest \in Lists
    BY <2>2, ListLengths, Facts DEF Lists
  <2> QED
    BY <1>1, <2>3
<1>2. CASE /\ s_free' \in Held(b)
           /\ spilled' = IF spilled = <<>> THEN <<>>
                         ELSE SubSeq(spilled, 1, Len(spilled) - 1)
           /\ intact' = (intact /\ spilled # <<>>)
  <2>1. s_free' \in Lists
    BY <1>2, Facts DEF Held
  <2>2. spilled' \in Seq(Lists)
    BY <1>2, Shortened
  <2> QED
    BY <1>2, <2>1, <2>2
<1> QED
  BY <1>1, <1>2 DEF TakeOff

LEMMA InitTyped == Init => TypeOK
<1> SUFFICES ASSUME Init PROVE TypeOK
  OBVIOUS
<1> USE DEF Init, TypeOK
<1>1. s_free \in Lists /\ marked \in BOOLEAN /\ spilled \in Seq(Lists) /\ raw \in Blocks
  BY Facts, FreeListAssumption
<1>2. list \in [Blocks -> Lists \cup {UserData}]
  BY Facts
<1>3. addr \in [Files -> [Places -> Maybe]] /\ doomed \in [Places -> Maybe]
  BY Facts DEF NoBlocks, Maybe
<1> QED
  BY <1>1, <1>2, <1>3

LEMMA NextTyped == TypeOK /\ [Next]_vars => TypeOK'
<1> SUFFICES ASSUME TypeOK, [Next]_vars PROVE TypeOK'
  OBVIOUS
<1> USE DEF TypeOK, Holdings
<1>1. CASE Make
  <2>1. raw \in Blocks /\ raw - 1 \in Blocks
    BY <1>1, Facts DEF Make, Blocks
  <2> QED
    BY <1>1, <2>1, PutOnTypes DEF Make
<1>2. ASSUME NEW f \in Files, Truncate(f) PROVE TypeOK'
  <2>1. PICK reached : Doom(f, reached)
    BY <1>2 DEF Truncate
  <2>2. doomed' \in [Places -> Maybe] /\ faults' \subseteq {"leak", "refill"}
    BY <2>1 DEF Doom, Maybe
  <2>3. addr' \in [Files -> [Places -> Maybe]]
    BY <1>2 DEF Truncate, NoBlocks, Maybe
  <2> QED
    BY <1>2, <2>2, <2>3 DEF Truncate, super
<1>3. ASSUME NEW p \in Places, GiveBack(p) PROVE TypeOK'
  <2>1. doomed[p] \in Blocks /\ doomed' \in [Places -> Maybe]
    BY <1>3, Facts DEF GiveBack, Foremost, Maybe
  <2>2. CASE PutOn(doomed[p]) /\ UNCHANGED faults
    BY <1>3, <2>1, <2>2, PutOnTypes DEF GiveBack
  <2>3. CASE faults' = faults \cup {"leak"} /\ UNCHANGED <<super, list>>
    BY <1>3, <2>1, <2>3 DEF GiveBack, super
  <2> QED
    BY <1>3, <2>2, <2>3 DEF GiveBack
<1>4. ASSUME NEW f \in Files, NEW bn \in 0 .. LastBlock, Bmap(f, bn) PROVE TypeOK'
  <2>1. PICK p \in Way(bn) : Grow(f, p) \/ RefillFails \/ Condemn
    BY <1>4 DEF Bmap
  <2>2. CASE Grow(f, p)
    <3>1. PICK b \in Blocks :
            /\ TakeOff(b)
            /\ \/ /\ s_tfree # 0
                  /\ s_tfree' = s_tfree - 1
                  /\ list' = [list EXCEPT ![b] = UserData]
                  /\ \/ addr' = [addr EXCEPT ![f][p] = b] /\ UNCHANGED faults
                     \/ faults' = faults \cup {"leak"} /\ UNCHANGED addr
                  /\ UNCHANGED condemned
               \/ condemned' = TRUE /\ UNCHANGED <<s_tfree, list, addr, faults>>
      BY <2>2 DEF Grow
    <3>2. s_free' \in Lists /\ spilled' \in Seq(Lists) /\ intact' \in BOOLEAN
      BY <3>1, TakeOffTypes
    <3>3. doomed' = doomed /\ raw' = raw /\ marked' = marked
      BY <2>2 DEF Grow
    <3>4. CASE /\ s_tfree # 0
               /\ s_tfree' = s_tfree - 1
               /\ list' = [list EXCEPT ![b] = UserData]
               /\ \/ addr' = [addr EXCEPT ![f][p] = b] /\ UNCHANGED faults
                  \/ faults' = faults \cup {"leak"} /\ UNCHANGED addr
               /\ UNCHANGED condemned
      <4>1. s_tfree' \in Nat
        BY <3>4
      <4>2. list' \in [Blocks -> Lists \cup {UserData}]
        BY <3>4
      <4>3. CASE addr' = [addr EXCEPT ![f][p] = b] /\ UNCHANGED faults
        <5>1. addr' \in [Files -> [Places -> Maybe]]
          BY <4>3, Facts
        <5> QED
          BY <3>2, <3>3, <3>4, <4>1, <4>2, <4>3, <5>1
      <4>4. CASE faults' = faults \cup {"leak"} /\ UNCHANGED addr
        BY <3>2, <3>3, <3>4, <4>1, <4>2, <4>4
      <4> QED
        BY <3>4, <4>3, <4>4
    <3>5. CASE condemned' = TRUE /\ UNCHANGED <<s_tfree, list, addr, faults>>
      BY <3>2, <3>3, <3>5
    <3> QED
      BY <3>1, <3>4, <3>5
  <2>3. CASE RefillFails
    <3>1. s_free' \in Lists /\ spilled' \in Seq(Lists)
      BY <2>3, Facts DEF RefillFails
    <3>2. intact' \in BOOLEAN /\ faults' \subseteq {"leak", "refill"}
      BY <2>3 DEF RefillFails
    <3> QED
      BY <2>3, <3>1, <3>2 DEF RefillFails
  <2>4. CASE Condemn
    <3>1. s_free' \in Lists
      <4>1. CASE s_free' = Rest /\ s_free # <<>>
        <5>1. s_free \in Seq(Maybe)
          BY ListsAreFinite
        <5>2. Rest \in Seq(Maybe) /\ Len(Rest) = Len(s_free) - 1
          BY <4>1, <5>1, Shortened DEF Rest
        <5> QED
          BY <4>1, <5>2, ListLengths, Facts DEF Lists
      <4> QED
        BY <2>4, <4>1 DEF Condemn
    <3> QED
      BY <2>4, <3>1 DEF Condemn
  <2> QED
    BY <2>1, <2>2, <2>3, <2>4
<1>5. CASE UNCHANGED vars
  BY <1>5 DEF vars, super
<1> QED
  BY <1>1, <1>2, <1>3, <1>4, <1>5 DEF Next

(* The types of the allocator's state hold in every reachable state: the   *)
(* cache of the superblock never outgrows FSFREEBLOCKS.                    *)
THEOREM FreeListTypeCorrect == Spec => []TypeOK
  BY InitTyped, NextTyped, PTL DEF Spec
----------------------------------------------------------------------------
OnNow(b) == On(spilled, s_free, b)

Injective ==
    /\ NoBlockTwice
    /\ \A p, q \in Places : doomed[p] # 0 /\ doomed[p] = doomed[q] => p = q

Disjoint ==
    \A b \in Blocks : /\ InFile(b) => ~InDoom(b) /\ ~OnNow(b) /\ ~IsRaw(b)
                      /\ InDoom(b) => ~OnNow(b) /\ ~IsRaw(b)
                      /\ OnNow(b) => ~IsRaw(b)

Whole ==
    faults = {} => \A b \in Blocks : OnNow(b) \/ InFile(b) \/ InDoom(b) \/ IsRaw(b)

IInv ==
    /\ TypeOK
    /\ CountRight
    /\ MarkedListHolds
    /\ intact => /\ Good(spilled, s_free, list, marked)
                 /\ Injective
                 /\ Disjoint
                 /\ Whole

LEMMA SameList == ASSUME NEW b PROVE OnList(b) <=> OnNow(b)
BY DEF OnList, OnNow, On, Depth, Seg, Size, At, SegIn

(* bmap only looks at places that there are.                               *)
LEMMA Digits ==
    ASSUME NEW n \in Nat, n > 0, NEW m \in Nat, m < n * n
    PROVE  m \div n \in 0 .. n - 1 /\ m % n \in 0 .. n - 1
<1>1. m % n \in 0 .. n - 1
  OBVIOUS
<1>2. m \div n \in Nat
  BY SMTT(60)
<1>3. m \div n < n
  BY SMTT(60)
<1>4. PICK d \in Nat : d = m \div n
  BY <1>2
<1>5. d \in 0 .. n - 1
  BY <1>3, <1>4
<1> QED
  BY <1>1, <1>4, <1>5

LEMMA WaysArePlaces == ASSUME NEW bn \in 0 .. LastBlock PROVE Way(bn) \subseteq Places
<1> DIRECTBLOCKS \in Nat \ {0} /\ PTRS \in Nat \ {0}
  BY FreeListAssumption
<1>1. Leaf(bn) \in Places
  <2>1. CASE bn < DIRECTBLOCKS
    BY <2>1 DEF Leaf, Places, DINDIRECT
  <2>2. CASE ~(bn < DIRECTBLOCKS) /\ bn - DIRECTBLOCKS < PTRS
    BY <2>2 DEF Leaf, Places, INDIRECT, DINDIRECT, Entries
  <2>3. CASE ~(bn < DIRECTBLOCKS) /\ ~(bn - DIRECTBLOCKS < PTRS)
    <3>0. PTRS * PTRS \in Nat
      OBVIOUS
    <3>1. PICK m \in Nat : m = bn - DIRECTBLOCKS - PTRS
      BY <2>3
    <3>2. m < PTRS * PTRS
      BY <3>0, <3>1, <2>3 DEF LastBlock
    <3>3. m \div PTRS \in Entries /\ m % PTRS \in Entries
      BY <3>2, Digits DEF Entries
    <3>4. Leaf(bn) = <<DINDIRECT, m \div PTRS, m % PTRS>>
      BY <2>3, <3>1 DEF Leaf
    <3> QED
      BY <3>3, <3>4 DEF Places
  <2> QED
    BY <2>1, <2>2, <2>3
<1>2. ASSUME NEW p \in Places PROVE Parent(p) \in Places
  BY DEF Parent, Places, INDIRECT, DINDIRECT, Entries
<1> QED
  BY <1>1, <1>2 DEF Way

(* blk_free on a list in order.                                            *)
LEMMA PutOnKeeps ==
    ASSUME TypeOK, Good(spilled, s_free, list, marked), CountRight, intact,
           NEW b \in Blocks, ~OnNow(b), PutOn(b), marked' = marked
    PROVE  /\ Good(spilled', s_free', list', marked')
           /\ CountRight'
           /\ \A c \in Blocks : OnNow(c)' <=> OnNow(c) \/ c = b
<1>1. /\ spilled \in Seq(Lists) /\ s_free \in Lists /\ list \in Holdings
      /\ marked \in BOOLEAN /\ ~On(spilled, s_free, b)
  BY DEF TypeOK, Holdings, OnNow
<1>2. s_free \in Seq(Maybe) /\ b \in Maybe
  BY <1>1, ListsAreFinite, Facts
<1>3. /\ s_tfree' = s_tfree + 1 /\ s_tfree \in Nat
      /\ s_tfree + (IF marked THEN 1 ELSE 0) = Len(s_free) + FSFREEBLOCKS * Len(spilled)
  BY DEF PutOn, PutOnCounting, CountRight, TypeOK
<1>4. CASE Full
  <2>1. /\ list' = [list EXCEPT ![b] = s_free] /\ spilled' = Append(spilled, s_free)
        /\ s_free' = <<b>> /\ Len(s_free) = FSFREEBLOCKS
    BY <1>4 DEF PutOn, PutOnCounting, Full
  <2>7. Spill(spilled, s_free, b, list, spilled', s_free', list')
    BY <2>1 DEF Spill
  <2>2. /\ Good(spilled', s_free', list', marked')
        /\ \A c \in Blocks : OnNow(c)' <=> OnNow(c) \/ c = b
    BY <1>1, <2>7, AddSpill DEF OnNow
  <2>3. Len(spilled') = Len(spilled) + 1 /\ Len(s_free') = 1 /\ Len(spilled) \in Nat
    BY <1>1, <2>1
  <2>4. FSFREEBLOCKS * Len(spilled') = FSFREEBLOCKS * Len(spilled) + FSFREEBLOCKS
    <3>1. PICK k \in Nat : k = Len(spilled)
      BY <2>3
    <3>2. FSFREEBLOCKS * (k + 1) = FSFREEBLOCKS * k + FSFREEBLOCKS
      BY Facts
    <3> QED
      BY <2>3, <3>1, <3>2
  <2>5. FSFREEBLOCKS * Len(spilled) \in Nat
    BY <2>3, Facts
  <2>6. CountRight'
    <3>1. Len(s_free) = FSFREEBLOCKS
      BY <2>1
    <3> QED
      BY <1>3, <2>3, <2>4, <2>5, <3>1, Facts DEF CountRight
  <2> QED
    BY <2>2, <2>6
<1>5. CASE ~Full
  <2>1. list' = list /\ spilled' = spilled /\ s_free' = Append(s_free, b)
    BY <1>5 DEF PutOn, PutOnCounting
  <2>2. Len(s_free) < FSFREEBLOCKS
    BY <1>5, ListLengths, Facts DEF Full
  <2>3. /\ Good(spilled', s_free', list', marked')
        /\ \A c \in Blocks : OnNow(c)' <=> OnNow(c) \/ c = b
    BY <1>1, <2>1, <2>2, AddPlain DEF OnNow
  <2>4. Len(s_free') = Len(s_free) + 1 /\ Len(s_free) \in Nat
    BY <1>2, <2>1
  <2>5. FSFREEBLOCKS * Len(spilled) \in Nat
    BY ListLengths, Facts
  <2>6. CountRight'
    BY <1>3, <2>1, <2>4, <2>5 DEF CountRight
  <2> QED
    BY <2>3, <2>6
<1> QED
  BY <1>4, <1>5

(* What the end of the cache says of the list below it.                    *)
LEMMA BottomSeen ==
    ASSUME TypeOK, Good(spilled, s_free, list, marked)
    PROVE  /\ s_free = <<>> => spilled = <<>> /\ ~marked
           /\ s_free # <<>> /\ Top = 0 => marked /\ spilled = <<>> /\ Len(s_free) = 1
           /\ marked /\ spilled = <<>> => s_free # <<>> /\ s_free[1] = 0
<1>1. spilled \in Seq(Lists) /\ s_free \in Lists
  BY DEF TypeOK
<1> DEFINE n == Len(spilled)
<1>2. /\ n \in Nat /\ Size(spilled, s_free, n + 1) = Len(s_free) /\ Len(s_free) \in Nat
      /\ \A i : At(spilled, s_free, n + 1, i) = s_free[i]
  BY <1>1, Segments, ListsAreFinite DEF Size, At
<1>3. Chained(spilled, s_free, list) /\ Bottom(spilled, s_free, marked)
  BY DEF Good
<1>4. n = 0 <=> spilled = <<>>
  BY <1>1, EmptySeq
<1>5. ASSUME n # 0 PROVE Len(s_free) >= 1
  <2>1. PICK s \in 1 .. n : s = n
    BY <1>2, <1>5
  <2>2. Size(spilled, s_free, s + 1) >= 1
    BY <1>3 DEF Chained
  <2> QED
    BY <2>1, <2>2, <1>2
<1>6. ASSUME marked, n = 0 PROVE Len(s_free) >= 1 /\ s_free[1] = 0
  <2>1. Size(spilled, s_free, 1) >= 1 /\ At(spilled, s_free, 1, 1) = 0
    BY <1>3, <1>6 DEF Bottom
  <2>2. n + 1 = 1
    BY <1>6
  <2> QED
    BY <2>1, <2>2, <1>2
<1>7. s_free = <<>> => Len(s_free) = 0
  OBVIOUS
<1>8. ASSUME s_free # <<>>, Top = 0 PROVE marked /\ n = 0 /\ Len(s_free) = 1
  <2>1. PICK i \in 1 .. Len(s_free) : i = Len(s_free)
    BY <1>8, <1>2, ListLengths
  <2>2. PICK t \in 1 .. n + 1 : t = n + 1
    BY <1>2
  <2>3. i \in 1 .. Size(spilled, s_free, t) /\ At(spilled, s_free, t, i) = 0
    BY <1>8, <2>1, <2>2, <1>2 DEF Top
  <2>4. marked /\ t = 1 /\ i = 1
    BY <2>3, <1>3 DEF Bottom
  <2> QED
    BY <2>1, <2>2, <2>4, <1>2
<1> QED
  BY <1>4, <1>5, <1>6, <1>7, <1>8

(* blk_alloc on a list in order: s_tfree is not 0, and no list is read      *)
(* from a block that blk_free did not write it to.                         *)
LEMMA TakeOffFinds ==
    ASSUME TypeOK, Good(spilled, s_free, list, marked), CountRight, intact,
           NEW b \in Blocks, TakeOff(b)
    PROVE  /\ OnNow(b)
           /\ marked => intact'
           /\ intact' => s_tfree # 0
<1>1. spilled \in Seq(Lists) /\ s_free \in Lists
  BY DEF TypeOK
<1> DEFINE n == Len(spilled)
<1>2. /\ n \in Nat /\ Size(spilled, s_free, n + 1) = Len(s_free) /\ Len(s_free) \in Nat
      /\ \A i : At(spilled, s_free, n + 1, i) = s_free[i]
  BY <1>1, Segments, ListsAreFinite DEF Size, At
<1>3. s_free # <<>> /\ Len(s_free) >= 1 /\ b = s_free[Len(s_free)] /\ b # 0
  BY ListLengths DEF TakeOff, Top
<1>4. OnNow(b)
  <2>1. PICK t \in 1 .. Len(spilled) + 1 : t = n + 1
    BY <1>2
  <2>2. PICK i \in 1 .. Size(spilled, s_free, t) : i = Len(s_free)
    BY <2>1, <1>2, <1>3
  <2>3. At(spilled, s_free, t, i) = b
    BY <2>1, <2>2, <1>2, <1>3
  <2> QED
    BY <2>3 DEF OnNow, On
<1>5. s_tfree \in Nat /\ s_tfree + (IF marked THEN 1 ELSE 0) = Len(s_free) + FSFREEBLOCKS * n
  BY DEF CountRight, TypeOK
<1>6. CASE Len(s_free) > 1 /\ UNCHANGED intact
  <2>1. FSFREEBLOCKS * n \in Nat
    BY <1>2, Facts
  <2>2. s_tfree # 0
    BY <1>2, <1>5, <1>6, <2>1
  <2> QED
    BY <1>4, <1>6, <2>2
<1>7. CASE Len(s_free) = 1 /\ intact' = (intact /\ spilled # <<>>)
  <2>1. marked => spilled # <<>>
    BY <1>3, <1>7, BottomSeen
  <2>2. ASSUME spilled # <<>> PROVE s_tfree # 0
    <3>1. n >= 1
      BY <2>2, <1>1, Shortened
    <3>2. PICK k \in Nat : n = k + 1
      BY <3>1, <1>2
    <3>3. FSFREEBLOCKS * n = FSFREEBLOCKS * k + FSFREEBLOCKS /\ FSFREEBLOCKS * k \in Nat
      BY <3>2, Facts
    <3> QED
      BY <3>3, <1>5, <1>7, Facts
  <2> QED
    BY <1>4, <1>7, <2>1, <2>2
<1> QED
  BY <1>6, <1>7 DEF TakeOff

LEMMA TakeOffKeeps ==
    ASSUME TypeOK, Good(spilled, s_free, list, marked), CountRight, intact, intact',
           NEW b \in Blocks, TakeOff(b), list' = [list EXCEPT ![b] = UserData],
           s_tfree' = s_tfree - 1, marked' = marked
    PROVE  /\ Good(spilled', s_free', list', marked')
           /\ CountRight'
           /\ \A c \in Blocks : OnNow(c)' <=> OnNow(c) /\ c # b
<1>1. /\ spilled \in Seq(Lists) /\ s_free \in Lists /\ list \in Holdings
      /\ marked \in BOOLEAN /\ list' \in Holdings
      /\ \A c \in Blocks : c # b => list'[c] = list[c]
  BY DEF TypeOK, Holdings
<1>6. /\ spilled \in Seq(Lists) /\ s_free \in Lists /\ list \in Holdings
      /\ marked \in BOOLEAN /\ list' \in Holdings
  BY <1>1
<1>2. /\ s_free # <<>> /\ b = s_free[Len(s_free)] /\ s_free \in Seq(Maybe)
      /\ Len(s_free) \in Nat
  BY <1>1, ListsAreFinite DEF TakeOff, Top
<1>3. s_tfree \in Nat /\ Len(spilled) \in Nat
      /\ s_tfree + (IF marked THEN 1 ELSE 0) = Len(s_free) + FSFREEBLOCKS * Len(spilled)
  BY ListLengths DEF CountRight, TypeOK
<1>4. CASE Len(s_free) > 1 /\ s_free' = Rest /\ spilled' = spilled
  <2>1. s_free' = SubSeq(s_free, 1, Len(s_free) - 1) /\ Len(s_free) > 1
    BY <1>4 DEF Rest
  <2>2. /\ Good(spilled, s_free', list', marked)
        /\ \A c \in Blocks : On(spilled, s_free', c) <=> On(spilled, s_free, c) /\ c # b
    <3>1. Pop(s_free, b, s_free')
      BY <2>1, <1>2 DEF Pop
    <3>2. SameElsewhere(list, b, list')
      BY <1>1 DEF SameElsewhere
    <3> QED
      BY <3>1, <3>2, <1>6, DropPlain
  <2>3. Len(s_free') = Len(s_free) - 1
    BY <2>1, <1>2, Shortened
  <2>4. FSFREEBLOCKS * Len(spilled) \in Nat
    BY <1>3, Facts
  <2>5. CountRight'
    BY <1>2, <1>3, <1>4, <2>3, <2>4 DEF CountRight
  <2> QED
    BY <1>4, <2>2, <2>5 DEF OnNow
<1>5. CASE /\ Len(s_free) = 1
           /\ s_free' \in Held(b)
           /\ spilled' = IF spilled = <<>> THEN <<>>
                         ELSE SubSeq(spilled, 1, Len(spilled) - 1)
           /\ intact' = (intact /\ spilled # <<>>)
  <2>1. spilled # <<>> /\ spilled' = SubSeq(spilled, 1, Len(spilled) - 1) /\ b = s_free[1]
    BY <1>2, <1>5
  <2>2. Refill(spilled, s_free, b, list, spilled', list[b])
    BY <2>1, <1>5 DEF Refill
  <2>7. PICK rf : rf = list[b]
    OBVIOUS
  <2>8. /\ rf \in Lists /\ Len(rf) = FSFREEBLOCKS
        /\ spilled' \in Seq(Lists) /\ Len(spilled') = Len(spilled) - 1
        /\ Good(spilled', rf, list', marked)
        /\ \A c \in Blocks : On(spilled', rf, c) <=> On(spilled, s_free, c) /\ c # b
    <3>1. Refill(spilled, s_free, b, list, spilled', rf)
      BY <2>2, <2>7
    <3>2. SameElsewhere(list, b, list')
      BY <1>1 DEF SameElsewhere
    <3> QED
      BY <3>1, <3>2, <1>6, DropRefill
  <2>3. s_free' = rf
    BY <2>7, <2>8, <1>5, Facts DEF Held
  <2>4. PICK k \in Nat : Len(spilled) = k + 1 /\ Len(spilled') = k
    BY <2>1, <2>8, <1>1, <1>3, Shortened
  <2>5. /\ FSFREEBLOCKS * Len(spilled) = FSFREEBLOCKS * Len(spilled') + FSFREEBLOCKS
        /\ FSFREEBLOCKS * Len(spilled') \in Nat
    <3>1. FSFREEBLOCKS * (k + 1) = FSFREEBLOCKS * k + FSFREEBLOCKS /\ FSFREEBLOCKS * k \in Nat
      BY Facts
    <3> QED
      BY <2>4, <3>1
  <2>6. CountRight'
    <3>1. Len(s_free') = FSFREEBLOCKS /\ Len(s_free) = 1
      BY <1>5, <2>8, <2>3
    <3> QED
      BY <1>3, <3>1, <2>5, Facts DEF CountRight
  <2> QED
    BY <2>8, <2>3, <2>6 DEF OnNow
<1> QED
  BY <1>4, <1>5 DEF TakeOff

----------------------------------------------------------------------------
LEMMA InitHolds == Init => IInv
<1> SUFFICES ASSUME Init PROVE IInv
  OBVIOUS
<1>1. TypeOK
  BY InitTyped
<1>2. /\ spilled = <<>> /\ Len(spilled) = 0 /\ intact /\ ~condemned
      /\ marked \in BOOLEAN /\ raw = Hi /\ doomed = NoBlocks
      /\ marked => s_free = <<0>> /\ Len(s_free) = 1 /\ s_free[1] = 0
      /\ ~marked => s_free = <<>> /\ Len(s_free) = 0
  BY FreeListAssumption DEF Init
<1>3. CountRight
  <2>1. s_tfree = 0 /\ FSFREEBLOCKS * Len(spilled) = 0
    BY <1>2, Facts DEF Init
  <2>2. Len(s_free) = IF marked THEN 1 ELSE 0
    BY <1>2
  <2>3. s_tfree + (IF marked THEN 1 ELSE 0) = Len(s_free) + FSFREEBLOCKS * Len(spilled)
    BY <1>2, <2>1, <2>2
  <2> QED
    BY <2>3 DEF CountRight
<1>4. MarkedListHolds
  BY <1>2 DEF MarkedListHolds
<1>5. /\ 1 .. Len(spilled) + 1 = {1} /\ 1 .. Len(spilled) = {}
      /\ \A i : At(spilled, s_free, 1, i) = s_free[i]
      /\ Size(spilled, s_free, 1) = Len(s_free)
  BY <1>2 DEF At, Size, SegIn
<1>6. \A i \in 1 .. Size(spilled, s_free, 1) :
        marked /\ i = 1 /\ At(spilled, s_free, 1, i) = 0
  BY <1>2, <1>5
<1>7. Good(spilled, s_free, list, marked)
  <2>1. Distinct(spilled, s_free)
    BY <1>5, <1>6 DEF Distinct
  <2>2. Chained(spilled, s_free, list)
    BY <1>5 DEF Chained
  <2>3. Bottom(spilled, s_free, marked)
    <3>1. marked => Size(spilled, s_free, 1) >= 1 /\ At(spilled, s_free, 1, 1) = 0
      BY <1>2, <1>5
    <3> QED
      BY <1>5, <1>6, <3>1 DEF Bottom
  <2> QED
    BY <2>1, <2>2, <2>3 DEF Good
<1>8. ASSUME NEW b \in Blocks PROVE ~OnNow(b) /\ ~InDoom(b)
  <2>1. ~OnNow(b)
    BY <1>5, <1>6, Facts DEF OnNow, On
  <2>2. ~InDoom(b)
    BY <1>2, Facts DEF InDoom, NoBlocks
  <2> QED
    BY <2>1, <2>2
<1>9. <<0, PTRS, PTRS>> \in Places
  BY FreeListAssumption DEF Places, DINDIRECT
<1>10. ASSUME NEW f \in Files, NEW p \in Places
       PROVE  addr[f][p] = IF f = Root /\ p = <<0, PTRS, PTRS>> THEN Lo ELSE 0
  BY <1>9 DEF Init, NoBlocks
<1>11. Injective
  <2>1. NoBlockTwice
    BY <1>10 DEF NoBlockTwice
  <2>2. \A p \in Places : doomed[p] = 0
    BY <1>2 DEF NoBlocks
  <2> QED
    BY <2>1, <2>2 DEF Injective
<1>12. ASSUME NEW b \in Blocks PROVE InFile(b) <=> b = Lo
  BY <1>9, <1>10, Facts, FreeListAssumption DEF InFile
<1>13. ASSUME NEW b \in Blocks PROVE IsRaw(b) <=> b # Lo
  BY <1>2, Facts DEF IsRaw, Blocks
<1>14. Disjoint
  BY <1>8, <1>12, <1>13 DEF Disjoint
<1>15. Whole
  BY <1>12, <1>13 DEF Whole
<1> QED
  BY <1>1, <1>3, <1>4, <1>7, <1>11, <1>14, <1>15 DEF IInv

(* A block that mkfs or fsck frees.                                        *)
LEMMA MakeHolds == ASSUME IInv, TypeOK', Make PROVE IInv'
<1>1. /\ raw \in Blocks /\ Lo < raw /\ PutOn(raw) /\ raw' = raw - 1
      /\ addr' = addr /\ doomed' = doomed /\ marked' = marked /\ faults' = faults
  BY Facts DEF Make, IInv, TypeOK
<1>2. intact' = intact /\ condemned' = condemned /\ TypeOK
  BY <1>1, PutOnTypes DEF IInv
<1>3. MarkedListHolds'
  BY <1>1, <1>2 DEF MarkedListHolds, IInv
<1>4. CASE ~intact
  BY <1>2, <1>3, <1>4 DEF IInv, CountRight
<1>5. CASE intact
  <2>1. Good(spilled, s_free, list, marked) /\ CountRight /\ Injective /\ Disjoint /\ Whole
    BY <1>5 DEF IInv
  <2>2. ~OnNow(raw) /\ ~InFile(raw) /\ ~InDoom(raw)
    BY <1>1, <2>1, Facts DEF Disjoint, IsRaw, Blocks
  <2>3. /\ Good(spilled', s_free', list', marked')
        /\ CountRight'
        /\ \A c \in Blocks : OnNow(c)' <=> OnNow(c) \/ c = raw
    BY <1>1, <1>2, <1>5, <2>1, <2>2, PutOnKeeps
  <2>4. Injective'
    BY <1>1, <2>1 DEF Injective, NoBlockTwice
  <2>5. \A c \in Blocks : (InFile(c)' <=> InFile(c)) /\ (InDoom(c)' <=> InDoom(c))
    BY <1>1 DEF InFile, InDoom
  <2>6. \A c \in Blocks : IsRaw(c)' <=> IsRaw(c) /\ c # raw
    BY <1>1, Facts DEF IsRaw, Blocks
  <2>7. Disjoint'
    BY <2>1, <2>2, <2>3, <2>5, <2>6 DEF Disjoint
  <2>8. Whole'
    BY <1>1, <2>1, <2>3, <2>5, <2>6 DEF Whole
  <2> QED
    BY <1>3, <2>3, <2>4, <2>7, <2>8 DEF IInv
<1> QED
  BY <1>4, <1>5

(* f_trunc takes the blocks of a file, which nothing else can have.        *)
LEMMA TruncateHolds ==
    ASSUME IInv, TypeOK', NEW f \in Files, Truncate(f) PROVE IInv'
<1>1. PICK reached : Doom(f, reached)
  BY DEF Truncate
<1>2. /\ s_free' = s_free /\ s_tfree' = s_tfree /\ condemned' = condemned
      /\ spilled' = spilled /\ intact' = intact /\ list' = list /\ raw' = raw
      /\ marked' = marked /\ doomed = NoBlocks
      /\ addr' = [addr EXCEPT ![f] = NoBlocks]
  BY DEF Truncate, super, Truncating
<1>3. faults' = {} => faults = {} /\ \A p \in Places : p \notin reached => addr[f][p] = 0
  BY <1>1 DEF Doom
<1>4. "refill" \in faults => "refill" \in faults'
  BY <1>1 DEF Doom
<1>5. CountRight' /\ MarkedListHolds'
  BY <1>2, <1>4 DEF CountRight, MarkedListHolds, IInv
<1>6. /\ addr \in [Files -> [Places -> Maybe]]
      /\ \A p \in Places : doomed'[p] = IF p \in reached THEN addr[f][p] ELSE 0
  BY <1>1 DEF Doom, IInv, TypeOK
<1>7. \A g \in Files, p \in Places : addr'[g][p] = IF g = f THEN 0 ELSE addr[g][p]
  BY <1>2, <1>6 DEF NoBlocks
<1>8. ASSUME intact PROVE Injective' /\ Disjoint' /\ Whole'
  <2>1. Injective /\ NoBlockTwice /\ Disjoint /\ Whole
    BY <1>8 DEF IInv, Injective
  <2>2. Injective'
    BY <1>6, <1>7, <2>1 DEF Injective, NoBlockTwice
  <2>3. ASSUME NEW b \in Blocks
        PROVE  /\ OnNow(b)' <=> OnNow(b)
               /\ IsRaw(b)' <=> IsRaw(b)
               /\ ~InDoom(b)
               /\ InFile(b)' => InFile(b) /\ ~InDoom(b)'
               /\ InDoom(b)' => InFile(b)
               /\ faults' = {} /\ InFile(b) => InFile(b)' \/ InDoom(b)'
    <3>1. (OnNow(b)' <=> OnNow(b)) /\ (IsRaw(b)' <=> IsRaw(b))
      BY <1>2 DEF OnNow, IsRaw
    <3>2. ~InDoom(b)
      BY <1>2, Facts DEF InDoom, NoBlocks
    <3>3. InFile(b)' => InFile(b)
      BY <1>7, Facts DEF InFile
    <3>4. InDoom(b)' => \E p \in Places : addr[f][p] = b
      BY <1>6, Facts DEF InDoom
    <3>5. ASSUME InFile(b)', InDoom(b)' PROVE FALSE
      <4>1. PICK g \in Files, p \in Places : addr'[g][p] = b
        BY <3>5 DEF InFile
      <4>2. g # f /\ addr[g][p] = b /\ b # 0
        BY <4>1, <1>7, Facts
      <4>3. PICK q \in Places : addr[f][q] = b
        BY <3>4, <3>5
      <4> QED
        BY <4>2, <4>3, <2>1 DEF NoBlockTwice
    <3>6. ASSUME faults' = {}, InFile(b) PROVE InFile(b)' \/ InDoom(b)'
      <4>1. PICK g \in Files, p \in Places : addr[g][p] = b
        BY <3>6 DEF InFile
      <4>2. CASE g = f
        BY <4>1, <4>2, <1>3, <1>6, <3>6, Facts DEF InDoom
      <4>3. CASE g # f
        BY <4>1, <4>3, <1>7 DEF InFile
      <4> QED
        BY <4>2, <4>3
    <3>7. InDoom(b)' => InFile(b)
      BY <3>4 DEF InFile
    <3> QED
      BY <3>1, <3>2, <3>3, <3>5, <3>6, <3>7
  <2>4. Disjoint'
    BY <2>1, <2>3 DEF Disjoint
  <2>5. Whole'
    BY <1>3, <2>1, <2>3 DEF Whole
  <2> QED
    BY <2>2, <2>4, <2>5
<1> QED
  BY <1>2, <1>5, <1>8 DEF IInv

(* freeblk: a block of a truncated file goes onto the list, or is lost     *)
(* when its bawrite fails.                                                 *)
LEMMA GiveBackHolds ==
    ASSUME IInv, TypeOK', NEW p \in Places, GiveBack(p) PROVE IInv'
<1>1. /\ doomed[p] # 0 /\ doomed' = [doomed EXCEPT ![p] = 0]
      /\ addr' = addr /\ raw' = raw /\ marked' = marked
  BY DEF GiveBack, Foremost
<1>2. TypeOK /\ doomed \in [Places -> Maybe]
  BY DEF IInv, TypeOK
<1> DEFINE b == doomed[p]
<1>3. b \in Blocks
  BY <1>1, <1>2, Facts
<1>4. \A q \in Places : doomed'[q] = IF q = p THEN 0 ELSE doomed[q]
  BY <1>1, <1>2
<1>5. CASE PutOn(b) /\ faults' = faults
  <2>1. intact' = intact /\ condemned' = condemned
    BY <1>2, <1>3, <1>5, PutOnTypes
  <2>2. MarkedListHolds'
    BY <1>1, <1>5, <2>1 DEF MarkedListHolds, IInv
  <2>3. CASE ~intact
    BY <2>1, <2>2, <2>3 DEF IInv, CountRight
  <2>4. CASE intact
    <3>1. Good(spilled, s_free, list, marked) /\ CountRight /\ Injective /\ Disjoint /\ Whole
      BY <2>4 DEF IInv
    <3>2. InDoom(b) /\ ~OnNow(b) /\ ~InFile(b) /\ ~IsRaw(b)
      BY <1>3, <3>1 DEF Disjoint, InDoom
    <3>3. /\ Good(spilled', s_free', list', marked')
          /\ CountRight'
          /\ \A c \in Blocks : OnNow(c)' <=> OnNow(c) \/ c = b
      BY <1>1, <1>2, <1>3, <1>5, <2>4, <3>1, <3>2, PutOnKeeps
    <3>4. Injective'
      BY <1>1, <1>4, <3>1 DEF Injective, NoBlockTwice
    <3>5. \A c \in Blocks : (InFile(c)' <=> InFile(c)) /\ (IsRaw(c)' <=> IsRaw(c))
      BY <1>1 DEF InFile, IsRaw
    <3>6. ASSUME NEW c \in Blocks PROVE InDoom(c)' <=> InDoom(c) /\ c # b
      <4>1. ASSUME InDoom(c)' PROVE InDoom(c) /\ c # b
        <5>1. PICK q \in Places : doomed'[q] = c
          BY <4>1 DEF InDoom
        <5>2. q # p /\ doomed[q] = c
          BY <5>1, <1>4, Facts
        <5>3. c # b
          BY <5>2, <1>1, <3>1 DEF Injective
        <5> QED
          BY <5>2, <5>3 DEF InDoom
      <4>2. ASSUME InDoom(c), c # b PROVE InDoom(c)'
        BY <4>2, <1>4 DEF InDoom
      <4> QED
        BY <4>1, <4>2
    <3>7. Disjoint'
      <4> HIDE DEF b
      <4> QED
        BY <3>1, <3>2, <3>3, <3>5, <3>6 DEF Disjoint
    <3>8. Whole'
      <4> HIDE DEF b
      <4> QED
        BY <1>5, <3>1, <3>3, <3>5, <3>6 DEF Whole
    <3> QED
      BY <2>2, <3>3, <3>4, <3>7, <3>8 DEF IInv
  <2> QED
    BY <2>3, <2>4
<1>6. CASE faults' = faults \cup {"leak"} /\ UNCHANGED <<super, list>>
  <2>1. /\ s_free' = s_free /\ s_tfree' = s_tfree /\ condemned' = condemned
        /\ spilled' = spilled /\ intact' = intact /\ list' = list
    BY <1>6 DEF super
  <2>2. CountRight' /\ MarkedListHolds'
    BY <1>1, <1>6, <2>1 DEF CountRight, MarkedListHolds, IInv
  <2>3. ASSUME intact PROVE Injective' /\ Disjoint' /\ Whole'
    <3>1. Injective /\ Disjoint
      BY <2>3 DEF IInv
    <3>2. Injective'
      BY <1>1, <1>4, <3>1 DEF Injective, NoBlockTwice
    <3>3. ASSUME NEW c \in Blocks
          PROVE  /\ (InFile(c)' <=> InFile(c)) /\ (IsRaw(c)' <=> IsRaw(c))
                 /\ OnNow(c)' <=> OnNow(c)
                 /\ InDoom(c)' => InDoom(c)
      <4>1. InDoom(c)' => InDoom(c)
        BY <1>4, Facts DEF InDoom
      <4>2. OnNow(c)' <=> OnNow(c)
        BY <2>1 DEF OnNow
      <4> QED
        BY <1>1, <4>1, <4>2 DEF InFile, IsRaw
    <3>4. Disjoint'
      BY <3>1, <3>3 DEF Disjoint
    <3>5. Whole'
      BY <1>6 DEF Whole
    <3> QED
      BY <3>2, <3>4, <3>5
  <2> QED
    BY <1>1, <2>1, <2>2, <2>3 DEF IInv
<1> QED
  BY <1>5, <1>6 DEF GiveBack

(* bmap puts a block from the list into a file, or loses it when zeroing   *)
(* it fails.                                                               *)
LEMMA GrowHolds ==
    ASSUME IInv, TypeOK', NEW f \in Files, NEW p \in Places, addr[f][p] = 0, Grow(f, p)
    PROVE  IInv'
<1>1. TypeOK /\ addr \in [Files -> [Places -> Maybe]]
  BY DEF IInv, TypeOK
<1>2. doomed' = doomed /\ raw' = raw /\ marked' = marked
  BY DEF Grow
<1>3. PICK b \in Blocks :
        /\ TakeOff(b)
        /\ \/ /\ s_tfree # 0
              /\ s_tfree' = s_tfree - 1
              /\ list' = [list EXCEPT ![b] = UserData]
              /\ \/ addr' = [addr EXCEPT ![f][p] = b] /\ UNCHANGED faults
                 \/ faults' = faults \cup {"leak"} /\ UNCHANGED addr
              /\ UNCHANGED condemned
           \/ /\ s_tfree = 0
              /\ condemned' = TRUE
              /\ UNCHANGED <<s_tfree, list, addr, faults>>
  BY DEF Grow
<1>4. intact' => intact
  BY <1>3 DEF TakeOff
<1>5. faults \subseteq faults'
  BY <1>3
<1>6. ASSUME intact PROVE (marked => intact') /\ (intact' => s_tfree # 0) /\ OnNow(b)
  BY <1>1, <1>3, <1>6, TakeOffFinds DEF IInv
<1>7. MarkedListHolds'
  <2> SUFFICES ASSUME marked, "refill" \notin faults' PROVE intact' /\ ~condemned'
    BY <1>2 DEF MarkedListHolds
  <2>1. intact /\ ~condemned
    BY <1>5 DEF IInv, MarkedListHolds
  <2>2. intact' /\ s_tfree # 0
    BY <2>1, <1>6
  <2> QED
    BY <2>1, <2>2, <1>3
<1>8. CASE ~intact'
  BY <1>7, <1>8 DEF IInv, CountRight
<1>9. CASE intact'
  <2>1. /\ intact /\ Good(spilled, s_free, list, marked) /\ CountRight
        /\ Injective /\ Disjoint /\ Whole
    BY <1>4, <1>9 DEF IInv
  <2>2. s_tfree # 0 /\ OnNow(b)
    BY <2>1, <1>6, <1>9
  <2>3. /\ s_tfree' = s_tfree - 1 /\ list' = [list EXCEPT ![b] = UserData]
        /\ \/ addr' = [addr EXCEPT ![f][p] = b] /\ UNCHANGED faults
           \/ faults' = faults \cup {"leak"} /\ UNCHANGED addr
    BY <2>2, <1>3
  <2>4. /\ Good(spilled', s_free', list', marked')
        /\ CountRight'
        /\ \A c \in Blocks : OnNow(c)' <=> OnNow(c) /\ c # b
    <3>1. TakeOff(b)
      BY <1>3
    <3> QED
      BY <1>1, <1>2, <1>9, <2>1, <2>3, <3>1, TakeOffKeeps
  <2>5. \A c \in Blocks : (InDoom(c)' <=> InDoom(c)) /\ (IsRaw(c)' <=> IsRaw(c))
    BY <1>2 DEF InDoom, IsRaw
  <2>6. ~InFile(b) /\ ~InDoom(b) /\ ~IsRaw(b)
    BY <2>1, <2>2 DEF Disjoint
  <2>7. CASE addr' = [addr EXCEPT ![f][p] = b] /\ UNCHANGED faults
    <3>1. \A g \in Files, q \in Places :
            addr'[g][q] = IF g = f /\ q = p THEN b ELSE addr[g][q]
      BY <1>1, <2>7
    <3>2. \A g \in Files, q \in Places : addr[g][q] # b
      BY <2>6 DEF InFile
    <3>3. NoBlockTwice'
      BY <3>1, <3>2, <2>1 DEF Injective, NoBlockTwice
    <3>4. Injective'
      BY <3>3, <1>2, <2>1 DEF Injective
    <3>5. ASSUME NEW c \in Blocks PROVE InFile(c)' <=> InFile(c) \/ c = b
      <4>1. InFile(c)' => InFile(c) \/ c = b
        BY <3>1 DEF InFile
      <4>2. ASSUME InFile(c) PROVE InFile(c)'
        <5>1. PICK g \in Files, q \in Places : addr[g][q] = c
          BY <4>2 DEF InFile
        <5>2. ~(g = f /\ q = p)
          BY <5>1, Facts
        <5> QED
          BY <5>1, <5>2, <3>1 DEF InFile
      <4>3. c = b => InFile(c)'
        BY <3>1 DEF InFile
      <4> QED
        BY <4>1, <4>2, <4>3
    <3>6. Disjoint'
      BY <2>1, <2>4, <2>5, <2>6, <3>5 DEF Disjoint
    <3>7. Whole'
      BY <2>1, <2>4, <2>5, <2>7, <3>5 DEF Whole
    <3> QED
      BY <1>7, <2>4, <3>4, <3>6, <3>7 DEF IInv
  <2>8. CASE faults' = faults \cup {"leak"} /\ UNCHANGED addr
    <3>1. Injective' /\ \A c \in Blocks : InFile(c)' <=> InFile(c)
      BY <1>2, <2>1, <2>8 DEF Injective, NoBlockTwice, InFile
    <3>2. Disjoint'
      BY <2>1, <2>4, <2>5, <3>1 DEF Disjoint
    <3>3. Whole'
      BY <2>8 DEF Whole
    <3> QED
      BY <1>7, <2>4, <3>1, <3>2, <3>3 DEF IInv
  <2> QED
    BY <2>3, <2>7, <2>8
<1> QED
  BY <1>8, <1>9

(* The other ways out of blk_alloc leave a list in order as it is.         *)
LEMMA CondemnHolds == ASSUME IInv, TypeOK', Condemn PROVE IInv'
<1>1. /\ condemned' = TRUE /\ s_tfree' = s_tfree /\ list' = list /\ addr' = addr
      /\ doomed' = doomed /\ raw' = raw /\ marked' = marked /\ spilled' = spilled
      /\ intact' = intact /\ faults' = faults
  BY DEF Condemn
<1>2. CASE ~intact
  BY <1>1, <1>2 DEF IInv, CountRight, MarkedListHolds
<1>3. CASE intact
  <2>1. TypeOK /\ Good(spilled, s_free, list, marked) /\ CountRight
    BY <1>3 DEF IInv
  <2>2. ~(s_free # <<>> /\ Top = 0 /\ s_tfree # 0)
    <3> SUFFICES ASSUME s_free # <<>>, Top = 0 PROVE s_tfree = 0
      OBVIOUS
    <3>1. marked /\ spilled = <<>> /\ Len(s_free) = 1
      BY <2>1, BottomSeen
    <3>2. s_tfree \in Nat /\ Len(spilled) = 0 /\ FSFREEBLOCKS * Len(spilled) = 0
      BY <2>1, <3>1, Facts DEF TypeOK
    <3> QED
      BY <1>3, <2>1, <3>1, <3>2 DEF CountRight
  <2>3. s_free = <<>> /\ s_free' = s_free
    BY <2>2 DEF Condemn
  <2>4. ~marked
    BY <2>1, <2>3, BottomSeen
  <2>5. CountRight' /\ MarkedListHolds'
    BY <1>1, <2>1, <2>3, <2>4 DEF CountRight, MarkedListHolds
  <2>6. Good(spilled', s_free', list', marked') /\ Injective' /\ Disjoint' /\ Whole'
    BY <1>1, <1>3, <2>3 DEF IInv, Injective, NoBlockTwice, Disjoint, Whole, OnNow,
       InFile, InDoom, IsRaw
  <2> QED
    BY <2>5, <2>6 DEF IInv
<1> QED
  BY <1>2, <1>3

LEMMA RefillFailsHolds == ASSUME IInv, TypeOK', RefillFails PROVE IInv'
BY DEF IInv, RefillFails, CountRight, MarkedListHolds

LEMMA NextHolds == IInv /\ [Next]_vars => IInv'
<1> SUFFICES ASSUME IInv, [Next]_vars PROVE IInv'
  OBVIOUS
<1>1. TypeOK'
  BY NextTyped DEF IInv
<1>2. CASE Make
  BY <1>1, <1>2, MakeHolds
<1>3. ASSUME NEW f \in Files, Truncate(f) PROVE IInv'
  BY <1>1, <1>3, TruncateHolds
<1>4. ASSUME NEW p \in Places, GiveBack(p) PROVE IInv'
  BY <1>1, <1>4, GiveBackHolds
<1>5. ASSUME NEW f \in Files, NEW bn \in 0 .. LastBlock, Bmap(f, bn) PROVE IInv'
  <2>1. PICK p \in Way(bn) : addr[f][p] = 0 /\ (Grow(f, p) \/ RefillFails \/ Condemn)
    BY <1>5 DEF Bmap
  <2>2. p \in Places
    BY <2>1, WaysArePlaces
  <2> QED
    BY <1>1, <2>1, <2>2, GrowHolds, RefillFailsHolds, CondemnHolds
<1>6. CASE UNCHANGED vars
  <2>1. /\ s_free' = s_free /\ s_tfree' = s_tfree /\ condemned' = condemned /\ list' = list
        /\ addr' = addr /\ doomed' = doomed /\ raw' = raw /\ marked' = marked
        /\ spilled' = spilled /\ intact' = intact /\ faults' = faults
    BY <1>6 DEF vars, super
  <2> QED
    BY <1>1, <2>1 DEF IInv, CountRight, MarkedListHolds, Injective, NoBlockTwice, Disjoint,
       Whole, OnNow, InFile, InDoom, IsRaw
<1> QED
  BY <1>2, <1>3, <1>4, <1>5, <1>6 DEF Next

LEMMA ListInOrder == Spec => []IInv
  BY InitHolds, NextHolds, PTL DEF Spec

LEMMA Promises ==
    ASSUME IInv PROVE NoSharedBlock /\ CountRight /\ MarkedListHolds /\ NothingLost
<1>1. ASSUME intact PROVE NoSharedBlock
  BY <1>1, SameList DEF IInv, Injective, Disjoint, NoSharedBlock, UnusedBlocksOnly
<1>2. NothingLost
  BY SameList DEF IInv, Whole, NothingLost
<1> QED
  BY <1>1, <1>2 DEF IInv, NoSharedBlock

(* No block is in two places of files, or on the free list and in a file,  *)
(* or one of those and still to be given back by f_trunc, as long as no    *)
(* refill of the cache has read a block that holds no list.                *)
THEOREM BlocksNotShared == Spec => []NoSharedBlock
  BY ListInOrder, Promises, PTL

(* s_tfree is the number of free blocks through every spill and refill.    *)
THEOREM FreeBlocksCounted == Spec => []CountRight
  BY ListInOrder, Promises, PTL

(* A list made by fsck is never read past its end.                         *)
THEOREM MarkedListEnds == Spec => []MarkedListHolds
  BY ListInOrder, Promises, PTL

(* Without a failed transfer no block is ever lost.                        *)
THEOREM BlocksAccountedFor == Spec => []NothingLost
  BY ListInOrder, Promises, PTL
=============================================================================
