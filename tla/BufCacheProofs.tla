--------------------------- MODULE BufCacheProofs ---------------------------
(***************************************************************************)
(* Proofs about BufCache, for any number of buffers and blocks.            *)
(***************************************************************************)
EXTENDS BufCache, TLAPS

USE BufAssumption

\* A buffer that is dirty or held for a block has a block; one taken with zerobuf
\* has none and is clean; one that a failed read left behind is clean.
Sound ==
    \A i \in Bufs :
        /\ dirty[i] # {} \/ use[i] \in {"read", "rewrite"} => name[i] # NoBlock
        /\ use[i] = "scratch" => dirty[i] = {} /\ name[i] = NoBlock
        /\ i \in unread => dirty[i] = {} /\ use[i] # "rewrite" /\ name[i] # NoBlock

CacheInv == TypeOK /\ Sound /\ OneBufferPerBlock /\ CleanIsOnDisk

\* The facts of the invariant about one buffer, as the steps use them.
LEMMA VictimIsFree == Victims \subseteq Free /\ Free \subseteq Bufs
BY DEF Victims, Free

\* freebuf leaves the other buffers alone and the device with the evicted contents.
LEMMA FreebufKeeps ==
    ASSUME CacheInv, NEW i \in Bufs, NEW b \in Blocks \cup {NoBlock}, Freebuf(i, b),
           b # NoBlock => Named(b) = {}
    PROVE  /\ disk' \in [Blocks -> Data] /\ disk' = DiskAfter(i)
           /\ dirty' \in [Bufs -> SUBSET {1, 2}]
           /\ name' \in [Bufs -> Blocks \cup {NoBlock}]
           /\ use[i] = "free" /\ dirty'[i] = {} /\ name'[i] = b
           /\ \A j \in Bufs \ {i} :
                /\ dirty'[j] = dirty[j] /\ name'[j] = name[j]
                /\ name[j] # NoBlock => disk'[name[j]] = disk[name[j]]
           /\ OneBufferPerBlock'
<1>. USE DEF CacheInv, TypeOK
<1>1. use[i] = "free"
  BY VictimIsFree DEF Freebuf, Free, Held
<1>2. /\ dirty' = [dirty EXCEPT ![i] = {}] /\ name' = [name EXCEPT ![i] = b]
      /\ disk' = DiskAfter(i)
  BY DEF Freebuf, NameAfter
<1>3. disk' \in [Blocks -> Data]
  BY <1>2 DEF DiskAfter
<1>4. ASSUME NEW j \in Bufs \ {i}, name[j] # NoBlock PROVE disk'[name[j]] = disk[name[j]]
  BY <1>2, <1>4 DEF DiskAfter, OneBufferPerBlock, Sound
<1>5. OneBufferPerBlock'
  BY <1>2 DEF OneBufferPerBlock, Named
<1>. QED BY <1>1, <1>2, <1>3, <1>4, <1>5

LEMMA BreadMissInv ==
    ASSUME CacheInv, NEW b \in Blocks, NEW mode \in Modes, BreadMiss(b, mode)
    PROVE  CacheInv'
<1>1. CASE FreebufFails \/ FreebufStuck
  BY <1>1 DEF BreadMiss, FreebufFails, FreebufStuck, CacheInv, TypeOK, Sound,
              OneBufferPerBlock, CleanIsOnDisk
<1>2. ASSUME NEW i \in Bufs, Freebuf(i, b), Named(b) = {},
             UNCHANGED <<stuck, dirty_mask>>, unread' = unread \ {i},
             CASE mode = "read"    -> Take(i, "read", DiskAfter(i)[b])
               [] mode = "rewrite" -> Take(i, "rewrite", data[i])
               [] mode = "zero"    -> Take(i, "rewrite", ZERO)
      PROVE  CacheInv'
  <2>1. PICK how \in {"read", "rewrite"}, d \in Data :
            Take(i, how, d) /\ (how = "read" => d = disk'[b])
    BY <1>2, FreebufKeeps DEF Modes, CacheInv, TypeOK
  <2>2. /\ use' = [use EXCEPT ![i] = how] /\ data' = [data EXCEPT ![i] = d]
        /\ result' = "ok"
    BY <2>1 DEF Take
  <2>3. TypeOK'
    BY <1>2, <2>2, FreebufKeeps DEF CacheInv, TypeOK
  <2>4. Sound'
    BY <1>2, <2>2, FreebufKeeps DEF CacheInv, TypeOK, Sound
  <2>5. CleanIsOnDisk'
    BY <1>2, <2>1, <2>2, FreebufKeeps DEF CacheInv, TypeOK, CleanIsOnDisk
  <2>. QED BY <1>2, <2>3, <2>4, <2>5, FreebufKeeps DEF CacheInv
<1>. QED BY <1>1, <1>2 DEF BreadMiss

LEMMA ZerobufInv == ASSUME CacheInv, Zerobuf PROVE CacheInv'
<1>1. CASE FreebufFails \/ FreebufStuck
  BY <1>1 DEF Zerobuf, FreebufFails, FreebufStuck, CacheInv, TypeOK, Sound,
              OneBufferPerBlock, CleanIsOnDisk
<1>2. ASSUME NEW i \in Bufs, Freebuf(i, NoBlock), Take(i, "scratch", ZERO),
             UNCHANGED <<stuck, dirty_mask>>, unread' = unread \ {i}
      PROVE  CacheInv'
  <2>1. /\ use' = [use EXCEPT ![i] = "scratch"] /\ data' = [data EXCEPT ![i] = ZERO]
        /\ result' = "ok"
    BY <1>2 DEF Take
  <2>2. TypeOK'
    BY <1>2, <2>1, FreebufKeeps DEF CacheInv, TypeOK
  <2>3. Sound'
    BY <1>2, <2>1, FreebufKeeps DEF CacheInv, TypeOK, Sound
  <2>4. CleanIsOnDisk'
    BY <1>2, <2>1, FreebufKeeps DEF CacheInv, TypeOK, CleanIsOnDisk
  <2>. QED BY <1>2, <2>2, <2>3, <2>4, FreebufKeeps DEF CacheInv
<1>. QED BY <1>1, <1>2 DEF Zerobuf

LEMMA BreadFailsInv ==
    ASSUME CacheInv, NEW b \in Blocks, BreadFails(b) PROVE CacheInv'
<1>1. PICK i \in Bufs : Freebuf(i, b) /\ unread' = unread \cup {i}
  BY DEF BreadFails
<1>2. Named(b) = {} /\ result' = "EIO" /\ UNCHANGED <<data, use, dirty_mask, stuck>>
  BY DEF BreadFails
<1>3. TypeOK'
  BY <1>1, <1>2, FreebufKeeps DEF CacheInv, TypeOK
<1>4. Sound'
  BY <1>1, <1>2, FreebufKeeps DEF CacheInv, TypeOK, Sound
<1>5. CleanIsOnDisk'
  BY <1>1, <1>2, FreebufKeeps DEF CacheInv, TypeOK, CleanIsOnDisk
<1>. QED BY <1>1, <1>2, <1>3, <1>4, <1>5, FreebufKeeps DEF CacheInv

LEMMA BreadHitInv ==
    ASSUME CacheInv, NEW b \in Blocks, NEW mode \in Modes, BreadHit(b, mode)
    PROVE  CacheInv'
<1>. USE DEF CacheInv
<1>1. PICK i \in Named(b) :
          /\ Take(i, IF mode = "read" THEN "read" ELSE "rewrite",
                     IF mode = "zero" THEN ZERO ELSE data[i])
          /\ unread' = IF mode = "read" THEN unread ELSE unread \ {i}
  BY DEF BreadHit
<1>2. i \in Bufs /\ name[i] = b /\ use[i] = "free"
  BY <1>1 DEF BreadHit, Named, Free, Held, TypeOK
<1>3. UNCHANGED <<name, dirty, dirty_mask, disk, stuck>>
  BY DEF BreadHit
<1>4. PICK how \in {"read", "rewrite"}, d \in Data :
          /\ use' = [use EXCEPT ![i] = how] /\ data' = [data EXCEPT ![i] = d]
          /\ result' = "ok"
          /\ how = "read" => d = data[i] /\ unread' = unread
          /\ how = "rewrite" => unread' = unread \ {i}
  BY <1>1, <1>2 DEF Take, TypeOK
<1>5. TypeOK'
  BY <1>2, <1>3, <1>4 DEF TypeOK
<1>6. Sound'
  BY <1>2, <1>3, <1>4 DEF TypeOK, Sound
<1>7. CleanIsOnDisk'
  BY <1>2, <1>3, <1>4 DEF TypeOK, CleanIsOnDisk
<1>8. OneBufferPerBlock'
  BY <1>3 DEF OneBufferPerBlock
<1>. QED BY <1>5, <1>6, <1>7, <1>8

\* What bfree may do to the buffer, the device and the history, in every outcome.
LEMMA BfreeInv ==
    ASSUME CacheInv, NEW i \in Bufs, NEW flag \in Flags, NEW d \in Data, Bfree(i, flag, d)
    PROVE  CacheInv'
<1>. USE DEF CacheInv
<1>1. /\ use' = [use EXCEPT ![i] = "free"] /\ data' = [data EXCEPT ![i] = d]
      /\ flag = {} => d = data[i]
      /\ use[i] = "rewrite" => flag # {}
      /\ use[i] = "scratch" => flag = {}
      /\ use[i] # "free"
      /\ unread' = IF flag = {} THEN unread ELSE unread \ {i}
      /\ UNCHANGED <<name, dirty_mask, stuck>>
  BY DEF Bfree
<1>2. NewDirty(i, flag) \in SUBSET {1, 2}
  BY DEF NewDirty, Flags, TypeOK
<1>3. NewDirty(i, flag) = {} => flag = {} /\ dirty[i] = {}
  BY DEF NewDirty
<1>4. NewDirty(i, flag) # {} => name[i] # NoBlock
  BY <1>1, Zenon DEF NewDirty, Sound, TypeOK
<1>5. CASE /\ dirty' = [dirty EXCEPT ![i] = NewDirty(i, flag)]
           /\ disk' = disk /\ result' \in {"ok", "EIO"}
  <2>1. TypeOK'
    BY <1>1, <1>2, <1>5 DEF TypeOK
  <2>2. dirty'[i] = NewDirty(i, flag) /\ \A j \in Bufs \ {i} : dirty'[j] = dirty[j]
    BY <1>5 DEF TypeOK
  <2>3. Sound'
    BY <1>1, <1>3, <1>4, <2>2 DEF TypeOK, Sound, NewDirty
  <2>4. CleanIsOnDisk'
    BY <1>1, <1>3, <1>5, <2>2 DEF TypeOK, CleanIsOnDisk
  <2>5. OneBufferPerBlock'
    BY <1>1 DEF OneBufferPerBlock
  <2>. QED BY <2>1, <2>3, <2>4, <2>5
<1>6. CASE /\ ExtraDirty(i, flag) /\ dirty' = [dirty EXCEPT ![i] = {}]
           /\ disk' = [disk EXCEPT ![name[i]] = d] /\ result' = "ok"
  <2>1. name[i] # NoBlock
    BY <1>4, <1>6 DEF ExtraDirty
  <2>2. TypeOK'
    BY <1>1, <1>6, <2>1 DEF TypeOK
  <2>3. dirty'[i] = {} /\ \A j \in Bufs \ {i} : dirty'[j] = dirty[j]
    BY <1>6 DEF TypeOK
  <2>4. Sound'
    BY <1>1, <2>3 DEF TypeOK, Sound
  <2>5. disk'[name[i]] = d /\ \A j \in Bufs \ {i} : name[j] # NoBlock => disk'[name[j]] = disk[name[j]]
    BY <1>6, <2>1 DEF TypeOK, OneBufferPerBlock
  <2>6. CleanIsOnDisk'
    BY <1>1, <2>3, <2>5 DEF TypeOK, CleanIsOnDisk
  <2>7. OneBufferPerBlock'
    BY <1>1 DEF OneBufferPerBlock
  <2>. QED BY <2>2, <2>4, <2>6, <2>7
<1>. QED BY <1>5, <1>6 DEF Bfree

LEMMA BufsyncInv == ASSUME CacheInv, NEW F \in SUBSET Bufs, Bufsync(F) PROVE CacheInv'
<1>. USE DEF CacheInv
<1>1. /\ dirty' = [i \in Bufs |-> IF i \in Cleaned(F) THEN {} ELSE dirty[i]]
      /\ UNCHANGED <<name, data, use, result, stuck, unread>> /\ dirty_mask' = FALSE
  BY DEF Bufsync
<1>2. \A b \in Blocks : \A i \in ToWrite \ F :
        name[i] = b => (CHOOSE j \in ToWrite \ F : name[j] = b) = i
  BY DEF OneBufferPerBlock, ToWrite
<1>3. ASSUME NEW i \in Bufs, name[i] # NoBlock
      PROVE  disk'[name[i]] = IF i \in ToWrite \ F THEN data[i] ELSE disk[name[i]]
  <2>. /\ name[i] \in Blocks
       /\ \A j \in Bufs : name[j] = name[i] => j = i
    BY <1>3 DEF TypeOK, OneBufferPerBlock
  <2>. disk'[name[i]] = IF \E j \in ToWrite \ F : name[j] = name[i]
                        THEN data[CHOOSE j \in ToWrite \ F : name[j] = name[i]]
                        ELSE disk[name[i]]
    BY DEF Bufsync
  <2>. QED BY <1>2 DEF ToWrite
<1>4. disk' \in [Blocks -> Data]
  <2>. ASSUME NEW b \in Blocks
       PROVE  (IF \E i \in ToWrite \ F : name[i] = b
               THEN data[CHOOSE i \in ToWrite \ F : name[i] = b] ELSE disk[b]) \in Data
    BY <1>2 DEF TypeOK, ToWrite
  <2>. QED BY DEF Bufsync
<1>5. TypeOK'
  BY <1>1, <1>4 DEF TypeOK
<1>6. Sound'
  BY <1>1 DEF TypeOK, Sound
<1>7. CleanIsOnDisk'
  BY <1>1, <1>3 DEF TypeOK, CleanIsOnDisk, Cleaned, ToWrite
<1>8. OneBufferPerBlock'
  BY <1>1 DEF OneBufferPerBlock
<1>. QED BY <1>5, <1>6, <1>7, <1>8

LEMMA CacheStep == CacheInv /\ [Next]_vars => CacheInv'
<1>. SUFFICES ASSUME CacheInv, [Next]_vars PROVE CacheInv'
  OBVIOUS
<1>1. CASE Defer
  BY <1>1 DEF Defer, CacheInv, TypeOK, Sound, OneBufferPerBlock, CleanIsOnDisk
<1>2. CASE Boot
  BY <1>2 DEF Boot, CacheInv, TypeOK, Sound, OneBufferPerBlock, CleanIsOnDisk
<1>3. CASE UNCHANGED vars
  BY <1>3 DEF vars, CacheInv, TypeOK, Sound, OneBufferPerBlock, CleanIsOnDisk
<1>. QED BY <1>1, <1>2, <1>3, BreadHitInv, BreadMissInv, BreadFailsInv, ZerobufInv,
            BfreeInv, BufsyncInv DEF Next

LEMMA CacheCorrect == Spec => []CacheInv
<1>1. Init => CacheInv
  BY DEF Init, Empty, CacheInv, TypeOK, Sound, OneBufferPerBlock, CleanIsOnDisk
<1>. QED BY <1>1, CacheStep, PTL DEF Spec

\* The buffers keep their types: a dirty flag is made of its two bits, a name is
\* a block or none.
THEOREM BufTypeCorrect == Spec => []TypeOK
<1>. CacheInv => TypeOK
  BY DEF CacheInv
<1>. QED BY CacheCorrect, PTL

\* No block ever has two buffers, whatever transfers fail.
THEOREM OneBuffer == Spec => []OneBufferPerBlock
<1>. CacheInv => OneBufferPerBlock
  BY DEF CacheInv
<1>. QED BY CacheCorrect, PTL

\* What bread finds in a clean buffer is what the device holds, unless a failed
\* read has left the buffer there.
THEOREM CleanRight == Spec => []CleanIsOnDisk
<1>. CacheInv => CleanIsOnDisk
  BY DEF CacheInv
<1>. QED BY CacheCorrect, PTL
----------------------------------------------------------------------------
(***************************************************************************)
(* BufCache implements BlockStore.                                         *)
(***************************************************************************)
\* The abstract variables, as BufCache maps them.
Content == [b \in Blocks |-> IF Holding(b) = {} THEN disk[b]
                             ELSE data[CHOOSE i \in Holding(b) : TRUE]]
Using == [b \in Blocks |-> IF Named(b) = {} THEN "idle"
                           ELSE LET i == CHOOSE i \in Named(b) : TRUE
                                IN  IF use[i] = "free" THEN "idle" ELSE use[i]]

\* The mapping without CHOOSE: a block has a buffer, i, or has none.
Mapped ==
    \A b \in Blocks :
        /\ \A i \in Bufs : name[i] = b =>
             /\ Content[b] = IF i \in unread THEN disk[b] ELSE data[i]
             /\ Using[b] = IF use[i] = "free" THEN "idle" ELSE use[i]
        /\ (\A i \in Bufs : name[i] # b) => Content[b] = disk[b] /\ Using[b] = "idle"

LEMMA MappedNow == ASSUME TypeOK, OneBufferPerBlock PROVE Mapped
<1>1. ASSUME NEW b \in Blocks, NEW i \in Bufs, name[i] = b
      PROVE  Named(b) = {i} /\ Holding(b) = {i} \ unread
  BY <1>1 DEF Named, Holding, TypeOK, OneBufferPerBlock
<1>2. ASSUME NEW b \in Blocks, \A i \in Bufs : name[i] # b
      PROVE  Named(b) = {} /\ Holding(b) = {}
  BY <1>2 DEF Named, Holding
<1>. QED BY <1>1, <1>2 DEF Mapped, Content, Using

LEMMA MappedNext == ASSUME TypeOK', OneBufferPerBlock' PROVE Mapped'
<1>1. ASSUME NEW b \in Blocks, NEW i \in Bufs, name'[i] = b
      PROVE  Named(b)' = {i} /\ Holding(b)' = {i} \ unread'
  BY <1>1 DEF Named, Holding, TypeOK, OneBufferPerBlock
<1>2. ASSUME NEW b \in Blocks, \A i \in Bufs : name'[i] # b
      PROVE  Named(b)' = {} /\ Holding(b)' = {}
  BY <1>2 DEF Named, Holding
<1>. QED BY <1>1, <1>2 DEF Mapped, Content, Using

\* Two functions on the blocks that agree on them, or on all but one of them.
LEMMA Agree ==
    ASSUME NEW f, NEW g, f = [c \in Blocks |-> f[c]], g = [c \in Blocks |-> g[c]],
           \A c \in Blocks : f[c] = g[c]
    PROVE  f = g
OBVIOUS

LEMMA Patch ==
    ASSUME NEW f, NEW g, NEW b \in Blocks,
           f = [c \in Blocks |-> f[c]], g = [c \in Blocks |-> g[c]],
           \A c \in Blocks \ {b} : f[c] = g[c]
    PROVE  g = [f EXCEPT ![b] = g[b]]
OBVIOUS

LEMMA ContentAgrees ==
    ASSUME \A c \in Blocks : Content[c] = Content'[c] PROVE Content' = Content
<1>. Content = [c \in Blocks |-> Content[c]] /\ Content' = [c \in Blocks |-> Content'[c]]
  BY DEF Content
<1>. QED BY Agree

LEMMA UsingAgrees ==
    ASSUME \A c \in Blocks : Using[c] = Using'[c] PROVE Using' = Using
<1>. Using = [c \in Blocks |-> Using[c]] /\ Using' = [c \in Blocks |-> Using'[c]]
  BY DEF Using
<1>. QED BY Agree

LEMMA ContentPatched ==
    ASSUME NEW b \in Blocks, \A c \in Blocks \ {b} : Content[c] = Content'[c]
    PROVE  Content' = [Content EXCEPT ![b] = Content'[b]]
<1>. Content = [c \in Blocks |-> Content[c]] /\ Content' = [c \in Blocks |-> Content'[c]]
  BY DEF Content
<1>. QED BY Patch

LEMMA UsingPatched ==
    ASSUME NEW b \in Blocks, \A c \in Blocks \ {b} : Using[c] = Using'[c]
    PROVE  Using' = [Using EXCEPT ![b] = Using'[b]]
<1>. Using = [c \in Blocks |-> Using[c]] /\ Using' = [c \in Blocks |-> Using'[c]]
  BY DEF Using
<1>. QED BY Patch

LEMMA MissMapped ==
    ASSUME CacheInv, CacheInv', NEW b \in Blocks \cup {NoBlock}, NEW i \in Bufs,
           Freebuf(i, b), b # NoBlock => Named(b) = {},
           \A j \in Bufs \ {i} : use'[j] = use[j] /\ data'[j] = data[j],
           unread' \in {unread \ {i}, unread \cup {i}},
           i \in unread' \/ b = NoBlock \/ use'[i] = "rewrite" \/ data'[i] = DiskAfter(i)[b]
    PROVE  /\ \A c \in Blocks \ {b} : Content'[c] = Content[c] /\ Using'[c] = Using[c]
           /\ \A c \in Blocks : disk'[c] \in {disk[c], Content[c]}
           /\ b \in Blocks => Content[b] = disk[b] /\ Using[b] = "idle"
           /\ b \in Blocks /\ use'[i] # "rewrite" => Content'[b] = disk[b]
           /\ b \in Blocks => Using'[b] = IF use'[i] = "free" THEN "idle" ELSE use'[i]
<1>. USE DEF CacheInv
<1>1. Mapped /\ Mapped'
  BY MappedNow, MappedNext
<1>2. /\ disk' = DiskAfter(i) /\ use[i] = "free" /\ name'[i] = b /\ dirty'[i] = {}
      /\ \A j \in Bufs \ {i} : dirty'[j] = dirty[j] /\ name'[j] = name[j]
  BY FreebufKeeps
<1>3. dirty[i] # {} => name[i] # NoBlock /\ i \notin unread
  BY DEF Sound
<1>4. \A c \in Blocks : disk'[c] = IF dirty[i] # {} /\ c = name[i] THEN data[i] ELSE disk[c]
  BY <1>2 DEF DiskAfter, TypeOK
<1>5. \A c \in Blocks : disk'[c] \in {disk[c], Content[c]}
  BY <1>1, <1>3, <1>4 DEF Mapped
<1>6. ASSUME b \in Blocks
      PROVE  /\ \A j \in Bufs : name[j] # b
             /\ Content[b] = disk[b] /\ Using[b] = "idle" /\ disk'[b] = disk[b]
  BY <1>1, <1>4, <1>6 DEF Mapped, Named, TypeOK
<1>7. ASSUME NEW c \in Blocks \ {b} PROVE Content'[c] = Content[c] /\ Using'[c] = Using[c]
  <2>1. CASE name[i] = c
    <3>1. \A j \in Bufs : name'[j] # c
      BY <1>2, <2>1, <1>7 DEF OneBufferPerBlock, TypeOK
    <3>2. Content'[c] = disk'[c] /\ Using'[c] = "idle" /\ Using[c] = "idle"
      BY <1>1, <1>2, <2>1, <3>1 DEF Mapped
    <3>3. disk'[c] = Content[c]
      BY <1>1, <1>2, <1>3, <1>4, <2>1 DEF Mapped, CleanIsOnDisk
    <3>. QED BY <3>2, <3>3
  <2>2. ASSUME NEW j \in Bufs, name[j] = c, j # i
        PROVE  Content'[c] = Content[c] /\ Using'[c] = Using[c]
    <3>1. disk'[c] = disk[c]
      BY <1>4, <2>2 DEF OneBufferPerBlock, TypeOK
    <3>2. name'[j] = c /\ use'[j] = use[j] /\ data'[j] = data[j] /\ (j \in unread' <=> j \in unread)
      BY <1>2, <2>2
    <3>. QED BY <1>1, <2>2, <3>1, <3>2 DEF Mapped
  <2>3. CASE \A j \in Bufs : name[j] # c
    <3>1. \A j \in Bufs : name'[j] # c
      BY <1>2, <1>7, <2>3
    <3>2. disk'[c] = disk[c]
      BY <1>4, <2>3
    <3>. QED BY <1>1, <2>3, <3>1, <3>2 DEF Mapped
  <2>. QED BY <2>1, <2>2, <2>3
<1>8. ASSUME b \in Blocks, use'[i] # "rewrite" PROVE Content'[b] = disk[b]
  BY <1>1, <1>2, <1>6, <1>8 DEF Mapped
<1>9. b \in Blocks => Using'[b] = IF use'[i] = "free" THEN "idle" ELSE use'[i]
  BY <1>1, <1>2 DEF Mapped
<1>. QED BY <1>5, <1>6, <1>7, <1>8, <1>9

LEMMA ContentType == ASSUME CacheInv PROVE Content \in [Blocks -> Data]
<1>. USE DEF CacheInv
<1>. SUFFICES ASSUME NEW b \in Blocks PROVE Content[b] \in Data
  BY DEF Content
<1>. QED BY MappedNow DEF Mapped, TypeOK

\* A call of bread or zerobuf that makes room and fails changes nothing.
LEMMA FreebufFailsIsRefuse ==
    ASSUME FreebufFails, UNCHANGED dirty_mask
    PROVE  Store!Refuse /\ Store!WriteBack /\ UNCHANGED dirty_mask
BY DEF FreebufFails, Store!Refuse, Store!WriteBack, Holding, Named

LEMMA FreebufStuckIsStutter ==
    ASSUME FreebufStuck, UNCHANGED dirty_mask PROVE UNCHANGED Store!vars
BY DEF FreebufStuck, Store!vars, Holding, Named

LEMMA BreadMissStep ==
    ASSUME CacheInv, CacheInv', NEW b \in Blocks, NEW mode \in Modes, BreadMiss(b, mode)
    PROVE  [Store!Next]_(Store!vars)
<1>1. CASE FreebufFails \/ FreebufStuck
  BY <1>1, FreebufFailsIsRefuse, FreebufStuckIsStutter DEF BreadMiss, Store!Next
<1>2. ASSUME NEW i \in Bufs, Freebuf(i, b), Named(b) = {},
             UNCHANGED <<stuck, dirty_mask>>, unread' = unread \ {i},
             CASE mode = "read"    -> Take(i, "read", DiskAfter(i)[b])
               [] mode = "rewrite" -> Take(i, "rewrite", data[i])
               [] mode = "zero"    -> Take(i, "rewrite", ZERO)
      PROVE  [Store!Next]_(Store!vars)
  <2>1. PICK how \in {"read", "rewrite"}, d \in Data :
            /\ use' = [use EXCEPT ![i] = how] /\ data' = [data EXCEPT ![i] = d]
            /\ result' = "ok" /\ (how = "read" => d = DiskAfter(i)[b])
    BY <1>2, FreebufKeeps DEF Modes, CacheInv, TypeOK, Take
  <2>2. /\ use'[i] = how /\ data'[i] = d
        /\ \A j \in Bufs \ {i} : use'[j] = use[j] /\ data'[j] = data[j]
    BY <2>1 DEF CacheInv, TypeOK
  <2>3. /\ \A c \in Blocks \ {b} : Content'[c] = Content[c] /\ Using'[c] = Using[c]
        /\ \A c \in Blocks : disk'[c] \in {disk[c], Content[c]}
        /\ Content[b] = disk[b] /\ Using[b] = "idle" /\ Using'[b] = how
        /\ how = "read" => Content'[b] = disk[b]
    BY <1>2, <2>1, <2>2, MissMapped
  <2>4. Store!WriteBack
    BY <2>3 DEF Store!WriteBack, Content
  <2>5. Using' = [Using EXCEPT ![b] = how]
    BY <2>3, UsingPatched
  <2>6. CASE how = "read"
    <3>1. Content' = Content
      BY <2>3, <2>6, ContentAgrees
    <3>2. Store!Open(b)
      BY <2>1, <2>3, <2>5, <2>6, <3>1 DEF Store!Open, Content, Using
    <3>. QED BY <1>2, <2>4, <3>2 DEF Store!Next
  <2>7. CASE how = "rewrite"
    <3>1. Content' = [Content EXCEPT ![b] = Content'[b]]
      BY <2>3, ContentPatched
    <3>2. Content'[b] \in Data
      <4>. Mapped' /\ name'[i] = b
        BY <1>2, FreebufKeeps, MappedNext DEF CacheInv
      <4>. QED BY DEF Mapped, CacheInv, TypeOK
    <3>3. Store!OpenToRewrite(b)
      BY <2>1, <2>3, <2>5, <2>7, <3>1, <3>2 DEF Store!OpenToRewrite, Content, Using
    <3>. QED BY <1>2, <2>4, <3>3 DEF Store!Next
  <2>. QED BY <2>6, <2>7
<1>. QED BY <1>1, <1>2 DEF BreadMiss

\* The same for a call that names no buffer anew and touches buffer i only.
LEMMA TouchMapped ==
    ASSUME CacheInv, CacheInv', NEW i \in Bufs, name' = name,
           \A j \in Bufs \ {i} : /\ use'[j] = use[j] /\ data'[j] = data[j]
                                 /\ (j \in unread' <=> j \in unread),
           \A c \in Blocks : c # name[i] => disk'[c] = disk[c]
    PROVE  \A c \in Blocks :
              /\ c # name[i] => Content'[c] = Content[c] /\ Using'[c] = Using[c]
              /\ c = name[i] =>
                   /\ Content[c] = IF i \in unread THEN disk[c] ELSE data[i]
                   /\ Content'[c] = IF i \in unread' THEN disk'[c] ELSE data'[i]
                   /\ Using[c] = IF use[i] = "free" THEN "idle" ELSE use[i]
                   /\ Using'[c] = IF use'[i] = "free" THEN "idle" ELSE use'[i]
<1>1. Mapped /\ Mapped'
  BY MappedNow, MappedNext DEF CacheInv
<1>. SUFFICES ASSUME NEW c \in Blocks, c # name[i]
              PROVE  Content'[c] = Content[c] /\ Using'[c] = Using[c]
  BY <1>1 DEF Mapped
<1>2. CASE \A j \in Bufs : name[j] # c
  BY <1>1, <1>2 DEF Mapped
<1>3. ASSUME NEW j \in Bufs, name[j] = c
      PROVE  Content'[c] = Content[c] /\ Using'[c] = Using[c]
  BY <1>1, <1>3 DEF Mapped
<1>. QED BY <1>2, <1>3

LEMMA BreadHitStep ==
    ASSUME CacheInv, CacheInv', NEW b \in Blocks, NEW mode \in Modes, BreadHit(b, mode)
    PROVE  [Store!Next]_(Store!vars)
<1>1. PICK i \in Bufs :
        /\ name[i] = b /\ use[i] = "free"
        /\ Take(i, IF mode = "read" THEN "read" ELSE "rewrite",
                   IF mode = "zero" THEN ZERO ELSE data[i])
        /\ unread' = IF mode = "read" THEN unread ELSE unread \ {i}
  BY DEF BreadHit, Named, Free, Held
<1>2. UNCHANGED <<name, dirty, dirty_mask, disk, stuck>> /\ result' = "ok"
  BY <1>1 DEF BreadHit, Take
<1>3. /\ use'[i] = IF mode = "read" THEN "read" ELSE "rewrite"
      /\ mode = "read" => data'[i] = data[i] /\ unread' = unread
      /\ \A j \in Bufs \ {i} : use'[j] = use[j] /\ data'[j] = data[j]
      /\ \A j \in Bufs \ {i} : j \in unread' <=> j \in unread
  BY <1>1 DEF Take, CacheInv, TypeOK
<1>4. /\ \A c \in Blocks \ {b} : Content'[c] = Content[c] /\ Using'[c] = Using[c]
      /\ Using[b] = "idle" /\ Using'[b] = use'[i]
      /\ Content[b] = IF i \in unread THEN disk[b] ELSE data[i]
      /\ Content'[b] = IF i \in unread' THEN disk'[b] ELSE data'[i]
  BY <1>1, <1>2, <1>3, TouchMapped
<1>5. Using' = [Using EXCEPT ![b] = use'[i]]
  BY <1>4, UsingPatched
<1>6. Store!WriteBack
  BY <1>2 DEF Store!WriteBack
<1>7. CASE mode = "read"
  <2>1. Content' = Content
    BY <1>2, <1>3, <1>4, <1>7, ContentAgrees
  <2>2. Store!Open(b)
    BY <1>2, <1>3, <1>4, <1>5, <1>7, <2>1 DEF Store!Open, Content, Using
  <2>. QED BY <1>2, <1>6, <2>2 DEF Store!Next
<1>8. CASE mode # "read"
  <2>1. Content' = [Content EXCEPT ![b] = Content'[b]]
    BY <1>4, ContentPatched
  <2>2. Content'[b] \in Data
    BY <1>4 DEF CacheInv, TypeOK
  <2>3. Store!OpenToRewrite(b)
    BY <1>2, <1>3, <1>4, <1>5, <1>8, <2>1, <2>2 DEF Store!OpenToRewrite, Content, Using
  <2>. QED BY <1>2, <1>6, <2>3 DEF Store!Next
<1>. QED BY <1>7, <1>8

LEMMA BreadFailsStep ==
    ASSUME CacheInv, CacheInv', NEW b \in Blocks, BreadFails(b)
    PROVE  [Store!Next]_(Store!vars)
<1>1. PICK i \in Bufs : Freebuf(i, b) /\ unread' = unread \cup {i}
  BY DEF BreadFails
<1>2. /\ Named(b) = {} /\ result' = "EIO" /\ MayFail # {}
      /\ UNCHANGED <<data, use, dirty_mask, stuck>>
  BY DEF BreadFails
<1>3. use'[i] = "free" /\ name'[i] = b
  BY <1>1, <1>2, FreebufKeeps
<1>4. /\ \A c \in Blocks \ {b} : Content'[c] = Content[c] /\ Using'[c] = Using[c]
      /\ \A c \in Blocks : disk'[c] \in {disk[c], Content[c]}
      /\ Content[b] = disk[b] /\ Content'[b] = disk[b]
      /\ Using[b] = "idle" /\ Using'[b] = "idle"
  BY <1>1, <1>2, <1>3, MissMapped
<1>5. Content' = Content /\ Using' = Using
  BY <1>4, ContentAgrees, UsingAgrees
<1>6. Store!Refuse /\ Store!WriteBack
  BY <1>2, <1>4, <1>5 DEF Store!Refuse, Store!WriteBack, Content, Using
<1>. QED BY <1>2, <1>6 DEF Store!Next

LEMMA ZerobufStep ==
    ASSUME CacheInv, CacheInv', Zerobuf PROVE [Store!Next]_(Store!vars)
<1>1. CASE FreebufFails \/ FreebufStuck
  BY <1>1, FreebufFailsIsRefuse, FreebufStuckIsStutter DEF Zerobuf, Store!Next
<1>2. ASSUME NEW i \in Bufs, Freebuf(i, NoBlock), Take(i, "scratch", ZERO),
             unread' = unread \ {i}, UNCHANGED <<stuck, dirty_mask>>
      PROVE  [Store!Next]_(Store!vars)
  <2>1. /\ \A j \in Bufs \ {i} : use'[j] = use[j] /\ data'[j] = data[j]
        /\ result' = "ok"
    BY <1>2 DEF Take, CacheInv, TypeOK
  <2>2. /\ \A c \in Blocks : Content'[c] = Content[c] /\ Using'[c] = Using[c]
        /\ \A c \in Blocks : disk'[c] \in {disk[c], Content[c]}
    BY <1>2, <2>1, MissMapped
  <2>3. Content' = Content /\ Using' = Using
    BY <2>2, ContentAgrees, UsingAgrees
  <2>4. Store!Borrow /\ Store!WriteBack
    BY <2>1, <2>2, <2>3 DEF Store!Borrow, Store!WriteBack, Content, Using
  <2>. QED BY <1>2, <2>4 DEF Store!Next
<1>. QED BY <1>1, <1>2 DEF Zerobuf

LEMMA BfreeStep ==
    ASSUME CacheInv, CacheInv', NEW i \in Bufs, NEW flag \in Flags, NEW d \in Data,
           Bfree(i, flag, d)
    PROVE  [Store!Next]_(Store!vars)
<1>1. /\ use[i] # "free" /\ use'[i] = "free" /\ data'[i] = d
      /\ \A j \in Bufs \ {i} : use'[j] = use[j] /\ data'[j] = data[j]
      /\ UNCHANGED <<name, dirty_mask, stuck>>
      /\ flag = {} => d = data[i]
      /\ unread' = IF flag = {} THEN unread ELSE unread \ {i}
  BY DEF Bfree, CacheInv, TypeOK
<1>2. \A c \in Blocks : c # name[i] => disk'[c] = disk[c]
  BY DEF Bfree, CacheInv, TypeOK
<1>3. /\ \A c \in Blocks : c # name[i] => Content'[c] = Content[c] /\ Using'[c] = Using[c]
      /\ name[i] \in Blocks =>
           /\ Content[name[i]] = IF i \in unread THEN disk[name[i]] ELSE data[i]
           /\ Content'[name[i]] = IF i \in unread' THEN disk'[name[i]] ELSE d
           /\ Using[name[i]] = use[i] /\ Using'[name[i]] = "idle"
  BY <1>1, <1>2, TouchMapped
<1>4. CASE use[i] = "scratch"
  <2>1. name[i] = NoBlock /\ dirty[i] = {} /\ flag = {}
    BY <1>4 DEF Bfree, CacheInv, Sound
  <2>2. ~ExtraDirty(i, flag)
    BY <2>1 DEF ExtraDirty, NewDirty
  <2>3. disk' = disk /\ result' = "ok"
    BY <2>2 DEF Bfree
  <2>4. Content' = Content /\ Using' = Using
    BY <1>3, <2>1, ContentAgrees, UsingAgrees
  <2>5. Store!Borrow /\ Store!WriteBack
    BY <2>3, <2>4 DEF Store!Borrow, Store!WriteBack, Content, Using
  <2>. QED BY <1>1, <2>5 DEF Store!Next
<1>5. CASE use[i] # "scratch"
  <2>. DEFINE b   == name[i]
              e   == IF i \in unread' THEN disk'[b] ELSE d
              how == IF flag = {} THEN "clean" ELSE IF flag = {1} THEN "later" ELSE "now"
  <2>1. b \in Blocks /\ use[i] \in {"read", "rewrite"}
    BY <1>1, <1>5 DEF CacheInv, TypeOK, Sound
  <2>2. i \in unread' => ~ExtraDirty(i, flag) /\ disk' = disk /\ flag = {} /\ i \in unread
    <3>. SUFFICES ASSUME i \in unread' PROVE ~ExtraDirty(i, flag) /\ disk' = disk /\ flag = {}
                                            /\ i \in unread
      OBVIOUS
    <3>1. flag = {} /\ i \in unread
      BY <1>1
    <3>2. ~ExtraDirty(i, flag)
      BY <3>1 DEF ExtraDirty, NewDirty, CacheInv, Sound
    <3>. QED BY <3>1, <3>2 DEF Bfree
  <2>3. e \in Data /\ how \in {"clean", "later", "now"}
    BY <2>1 DEF CacheInv, TypeOK
  <2>4. Using[b] = use[i] /\ Using' = [Using EXCEPT ![b] = "idle"]
    BY <1>3, <2>1, UsingPatched
  <2>5. Content' = [Content EXCEPT ![b] = e]
    BY <1>3, <2>1, ContentPatched
  <2>6. Using[b] = "rewrite" => how # "clean"
    BY <2>4 DEF Bfree
  <2>7. how = "clean" => e = Content[b]
    BY <1>1, <1>3, <2>1, <2>2
  <2>8. \A c \in Blocks \ {b} : disk'[c] = disk[c]
    BY <1>2
  <2>9. \/ result' = "ok" /\ disk'[b] \in {disk[b], e} /\ (how = "now" /\ ~dirty_mask => disk'[b] = e)
        \/ result' = "EIO" /\ "write" \in MayFail /\ disk' = disk
    <3>1. CASE ~ExtraDirty(i, flag)
      <4>1. disk' = disk /\ result' = "ok"
        BY <3>1 DEF Bfree
      <4>2. how = "now" => dirty_mask
        BY <3>1 DEF ExtraDirty, NewDirty, Flags
      <4>. QED BY <4>1, <4>2
    <3>2. CASE ExtraDirty(i, flag)
      <4>1. e = d
        BY <2>2, <3>2
      <4>. QED BY <3>2, <4>1, <2>1 DEF Bfree, CacheInv, TypeOK
    <3>. QED BY <3>1, <3>2
  <2>. HIDE DEF b, e, how
  <2>10. Store!Close(b, e, how)
    BY <1>1, <2>1, <2>4, <2>5, <2>6, <2>7, <2>8, <2>9 DEF Store!Close, Content, Using
  <2>. QED BY <2>1, <2>3, <2>10 DEF Store!Next
<1>. QED BY <1>4, <1>5

LEMMA BufsyncStep ==
    ASSUME CacheInv, CacheInv', NEW F \in SUBSET Bufs, Bufsync(F)
    PROVE  [Store!Next]_(Store!vars)
<1>1. Mapped /\ Mapped'
  BY MappedNow, MappedNext DEF CacheInv
<1>2. /\ F # {} => "write" \in MayFail
      /\ dirty_mask' = FALSE
      /\ UNCHANGED <<name, data, use, result, stuck, unread>>
      /\ disk' = [b \in Blocks |->
                    IF \E i \in ToWrite \ F : name[i] = b
                    THEN data[CHOOSE i \in ToWrite \ F : name[i] = b]
                    ELSE disk[b]]
  BY DEF Bufsync
<1>3. ASSUME NEW i \in Bufs, name[i] # NoBlock
      PROVE  disk'[name[i]] = IF i \in ToWrite \ F THEN data[i] ELSE disk[name[i]]
  BY <1>2, <1>3 DEF ToWrite, CacheInv, TypeOK, OneBufferPerBlock
<1>4. ASSUME NEW b \in Blocks, \A i \in Bufs : name[i] # b PROVE disk'[b] = disk[b]
  BY <1>2, <1>4 DEF ToWrite
<1>5. ASSUME NEW b \in Blocks
      PROVE  /\ Content'[b] = Content[b] /\ Using'[b] = Using[b]
             /\ disk'[b] \in {disk[b], Content[b]}
             /\ MayFail = {} /\ Using[b] # "rewrite" => disk'[b] = Content[b]
  <2>1. CASE \A i \in Bufs : name[i] # b
    BY <1>1, <1>2, <1>4, <2>1 DEF Mapped
  <2>2. ASSUME NEW i \in Bufs, name[i] = b
        PROVE  /\ Content'[b] = Content[b] /\ Using'[b] = Using[b]
               /\ disk'[b] \in {disk[b], Content[b]}
               /\ MayFail = {} /\ Using[b] # "rewrite" => disk'[b] = Content[b]
    <3>1. /\ Content[b] = IF i \in unread THEN disk[b] ELSE data[i]
          /\ Content'[b] = IF i \in unread THEN disk'[b] ELSE data[i]
          /\ Using[b] = IF use[i] = "free" THEN "idle" ELSE use[i]
          /\ Using'[b] = Using[b]
      BY <1>1, <1>2, <2>2 DEF Mapped
    <3>2. disk'[b] = IF i \in ToWrite \ F THEN data[i] ELSE disk[b]
      BY <1>3, <2>2, BufAssumption
    <3>3. i \in unread => i \notin ToWrite
      BY DEF ToWrite, CacheInv, Sound
    <3>4. MayFail = {} /\ i \notin ToWrite \ F => dirty[i] = {}
      BY <1>2, <2>2, BufAssumption DEF ToWrite
    <3>5. dirty[i] = {} /\ use[i] # "rewrite" /\ i \notin unread => data[i] = disk[b]
      BY <2>2, BufAssumption DEF CacheInv, CleanIsOnDisk
    <3>. QED BY <3>1, <3>2, <3>3, <3>4, <3>5
  <2>. QED BY <2>1, <2>2
<1>6. Content' = Content /\ Using' = Using
  BY <1>5, ContentAgrees, UsingAgrees
<1>7. Store!Sync
  BY <1>2, <1>5, <1>6 DEF Store!Sync, Store!WriteBack, Content, Using
<1>. QED BY <1>7 DEF Store!Next

LEMMA DeferIsStoreDefer == ASSUME Defer PROVE Store!Defer
BY DEF Defer, Store!Defer, Holding, Named

\* With every buffer empty, the contents are what is on the device.
LEMMA EmptyNow ==
    ASSUME \A i \in Bufs : name[i] = NoBlock, disk = [b \in Blocks |-> disk[b]]
    PROVE  Content = disk /\ Using = [b \in Blocks |-> "idle"]
<1>1. \A b \in Blocks : Named(b) = {} /\ Holding(b) = {}
  BY DEF Named, Holding
<1>. QED BY <1>1 DEF Content, Using

LEMMA BootStep == ASSUME CacheInv, Boot PROVE Store!PowerFailure
<1>1. \A b \in Blocks : Named(b)' = {} /\ Holding(b)' = {}
  BY DEF Boot, Named, Holding
<1>2. Content' = disk /\ Using' = [b \in Blocks |-> "idle"]
  BY <1>1 DEF Boot, Content, Using, CacheInv, TypeOK
<1>. QED BY <1>2 DEF Boot, Store!PowerFailure, Content, Using

LEMMA StoreInit == Init => Store!Init
<1>. SUFFICES ASSUME Init PROVE Store!Init
  OBVIOUS
<1>1. Content = disk /\ Using = [b \in Blocks |-> "idle"]
  BY EmptyNow DEF Init, Empty
<1>. QED BY <1>1 DEF Init, Store!Init, Content, Using

LEMMA StoreStep == CacheInv /\ CacheInv' /\ [Next]_vars => [Store!Next]_(Store!vars)
<1>. SUFFICES ASSUME CacheInv, CacheInv', [Next]_vars PROVE [Store!Next]_(Store!vars)
  OBVIOUS
<1>1. CASE Defer \/ Boot
  BY <1>1, DeferIsStoreDefer, BootStep DEF Store!Next
<1>2. CASE UNCHANGED vars
  BY <1>2 DEF vars, Store!vars, Holding, Named
<1>. QED BY <1>1, <1>2, BreadHitStep, BreadMissStep, BreadFailsStep, ZerobufStep,
            BfreeStep, BufsyncStep DEF Next

\* The buffer pool implements the block store, for any number of buffers, whichever
\* buffer is evicted and whichever transfer fails: a block keeps what was last written
\* to it, and the device holds that or an earlier content.  (A buffer that a failed
\* read left behind does not count as the block's.)
THEOREM ImplementsStore == Spec => StoreSpec
BY StoreInit, StoreStep, CacheCorrect, PTL DEF Spec, StoreSpec, Store!Spec
=============================================================================
