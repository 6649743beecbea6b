------------------------------ MODULE FreeList ------------------------------
(***************************************************************************)
(* The free blocks of a UZIX file system.  The superblock caches up to     *)
(* FSFREEBLOCKS numbers; when blk_free finds the cache full it writes it   *)
(* into the block being freed, which becomes the only number in the cache; *)
(* blk_alloc, having handed out the last number, reads the cache back from *)
(* that block before it zeroes it.  Files grow by bmap and lose all their  *)
(* blocks in f_trunc (FS.C).  The list is made by mkfs (MKFS.C) or by pass *)
(* 2 of fsck (FSCK.C): only fsck puts a 0 under it, where blk_alloc stops. *)
(* The kernel is not preempted: one step is one blk_alloc or blk_free.     *)
(***************************************************************************)
EXTENDS Naturals, Sequences

CONSTANTS
    Lo, Hi,                  \* the data blocks
    FSFREEBLOCKS, DIRECTBLOCKS,
    PTRS,                    \* block numbers in an indirect block
    Files, Root,             \* inodes; Root owns block Lo from the start
    Data,                    \* free lists that bytes of a user can look like
    Marks,                   \* who made the list: TRUE is fsck, FALSE is mkfs
    MayFail                  \* whether a read or a write may fail

Blocks == Lo .. Hi
Maybe == Blocks \cup {0}
Lists == {s \in Seq(Maybe) : Len(s) <= FSFREEBLOCKS}

ASSUME FreeListAssumption ==
    /\ Lo \in Nat \ {0} /\ Hi \in Nat /\ Lo <= Hi
    /\ FSFREEBLOCKS \in Nat /\ FSFREEBLOCKS > 1
    /\ DIRECTBLOCKS \in Nat \ {0}
    /\ PTRS \in Nat \ {0}
    /\ Root \in Files
    /\ Data \subseteq Lists
    /\ Marks \subseteq BOOLEAN
    /\ MayFail \in BOOLEAN

VARIABLES
    s_free, s_tfree,         \* s_nfree is the length of s_free
    condemned,               \* s_mounted has been complemented
    list,                    \* the free list a block holds, or UserData
    addr,                    \* the block at each place of a file, 0 for none
    doomed,                  \* those that f_trunc still has to give back
    raw,                     \* blocks above Lo up to it are not on the list yet
    \* histories
    marked,                  \* the list was made with a 0 under it
    spilled,                 \* the lists written into blocks, oldest first
    intact,                  \* every list read back was one of those
    faults                   \* what failures have done: "leak", "refill"

super == <<s_free, s_tfree, condemned, spilled, intact>>
vars == <<super, list, addr, doomed, raw, marked, faults>>
----------------------------------------------------------------------------
UserData == <<Hi + 1>>       \* no list: there is no such block

(* A place is <<slot of i_addr, entry of its table, entry of that one's>>; *)
(* PTRS stands where a level is the table itself, or there is none.        *)
INDIRECT == DIRECTBLOCKS
DINDIRECT == DIRECTBLOCKS + 1
Entries == 0 .. PTRS - 1
Places ==
    ((0 .. DINDIRECT) \X {PTRS} \X {PTRS})
      \cup ({INDIRECT, DINDIRECT} \X Entries \X {PTRS})
      \cup ({DINDIRECT} \X Entries \X Entries)

Parent(p) == IF p[3] # PTRS THEN <<p[1], p[2], PTRS>> ELSE <<p[1], PTRS, PTRS>>
Tables == {p \in Places : \E q \in Places : q # p /\ Parent(q) = p}

(* bmap: the places that lead to block bn of a file.                       *)
LastBlock == DIRECTBLOCKS + PTRS + PTRS * PTRS - 1
Leaf(bn) ==
    IF bn < DIRECTBLOCKS THEN <<bn, PTRS, PTRS>>
    ELSE IF bn - DIRECTBLOCKS < PTRS THEN <<INDIRECT, bn - DIRECTBLOCKS, PTRS>>
    ELSE LET m == bn - DIRECTBLOCKS - PTRS
         IN  <<DINDIRECT, m \div PTRS, m % PTRS>>
Way(bn) == {Leaf(bn), Parent(Leaf(bn)), Parent(Parent(Leaf(bn)))}

(* f_trunc and freeblk: the place whose block is given back before another. *)
(* The double indirect ones first, then the indirect ones, each table       *)
(* after what it leads to and that from the last entry; then the others.    *)
SlotTurn(i) == IF i = DINDIRECT THEN 0 ELSE IF i = INDIRECT THEN 1 ELSE i + 2
EntryTurn(k) == IF k = PTRS THEN PTRS ELSE PTRS - 1 - k
Before(p, q) ==
    \/ SlotTurn(p[1]) < SlotTurn(q[1])
    \/ p[1] = q[1] /\ EntryTurn(p[2]) < EntryTurn(q[2])
    \/ p[1] = q[1] /\ p[2] = q[2] /\ EntryTurn(p[3]) < EntryTurn(q[3])

NoBlocks == [p \in Places |-> 0]
Mounted == raw = Lo
Truncating == doomed # NoBlocks
----------------------------------------------------------------------------
Init ==
    /\ marked \in Marks
    /\ s_free = IF marked THEN <<0>> ELSE <<>>
    /\ s_tfree = 0
    /\ condemned = FALSE
    /\ list = [b \in Blocks |-> <<>>]
    /\ addr = [f \in Files |-> IF f = Root THEN [NoBlocks EXCEPT ![<<0, PTRS, PTRS>>] = Lo]
                                           ELSE NoBlocks]
    /\ doomed = NoBlocks
    /\ raw = Hi
    /\ spilled = <<>>
    /\ intact = TRUE
    /\ faults = {}

----------------------------------------------------------------------------
(* blk_free                                                                *)
FullLate == Len(s_free) > FSFREEBLOCKS
Full == Len(s_free) = FSFREEBLOCKS

PutOnCounting(b, n) ==
    /\ IF Full THEN /\ list' = [list EXCEPT ![b] = s_free]
                    /\ spilled' = Append(spilled, s_free)
                    /\ s_free' = <<b>>
               ELSE /\ s_free' = Append(s_free, b)
                    /\ UNCHANGED <<list, spilled>>
    /\ s_tfree' = s_tfree + n
    /\ UNCHANGED <<condemned, intact>>

PutOnUncounted(b) == PutOnCounting(b, 0)
PutOn(b) == PutOnCounting(b, 1)

(* mkfs and fsck's pass 2 put the blocks on one by one from the last.      *)
Make ==
    /\ raw > Lo
    /\ PutOn(raw)
    /\ raw' = raw - 1
    /\ UNCHANGED <<addr, doomed, marked, faults>>

(* f_trunc: the children of a table that cannot be read stay behind.       *)
Reached(unread) ==
    {p \in Places : Parent(p) = p \/ {Parent(p), Parent(Parent(p))} \cap unread = {}}

Doom(f, reached) ==
    /\ doomed' = [p \in Places |-> IF p \in reached THEN addr[f][p] ELSE 0]
    /\ faults' = IF \E p \in Places \ reached : addr[f][p] # 0
                 THEN faults \cup {"leak"} ELSE faults

TruncateKeepingAddr(f) ==
    /\ Mounted /\ ~Truncating
    /\ Doom(f, Places)
    /\ UNCHANGED <<super, list, addr, raw, marked>>

TruncateLeavingTables(f) ==
    /\ Mounted /\ ~Truncating
    /\ doomed' = [p \in Places |-> IF p \in Tables THEN 0 ELSE addr[f][p]]
    /\ addr' = [addr EXCEPT ![f] = NoBlocks]
    /\ UNCHANGED <<super, list, raw, marked, faults>>

Truncate(f) ==
    /\ Mounted /\ ~Truncating
    /\ \E unread \in SUBSET {t \in Tables : MayFail /\ addr[f][t] # 0} :
         Doom(f, Reached(unread))
    /\ addr' = [addr EXCEPT ![f] = NoBlocks]
    /\ UNCHANGED <<super, list, raw, marked>>

Foremost(p) ==
    /\ doomed[p] # 0
    /\ \A q \in Places : doomed[q] # 0 => ~Before(q, p)

GiveBack(p) ==
    /\ Foremost(p)
    /\ doomed' = [doomed EXCEPT ![p] = 0]
    /\ \/ PutOn(doomed[p]) /\ UNCHANGED faults
       \/ /\ Full /\ MayFail
          /\ faults' = faults \cup {"leak"}
          /\ UNCHANGED <<super, list>>
    /\ UNCHANGED <<addr, raw, marked>>

----------------------------------------------------------------------------
(* blk_alloc                                                               *)
Top == s_free[Len(s_free)]
Rest == SubSeq(s_free, 1, Len(s_free) - 1)

Held(b) == IF list[b] = UserData THEN Data ELSE {list[b]}

(* The last number of the cache is taken, and the cache refilled if that   *)
(* was the only one.                                                       *)
TakeOff(b) ==
    /\ s_free # <<>> /\ b = Top /\ b # 0
    /\ \/ /\ Len(s_free) > 1
          /\ s_free' = Rest
          /\ UNCHANGED <<spilled, intact>>
       \/ /\ Len(s_free) = 1
          /\ s_free' \in Held(b)
          /\ spilled' = IF spilled = <<>> THEN <<>>
                        ELSE SubSeq(spilled, 1, Len(spilled) - 1)
          /\ intact' = (intact /\ spilled # <<>>)

(* bmap finds no block at p, which an indirect block may hold.  When its   *)
(* write fails after that the number is in the buffer all the same.        *)
Grow(f, p) ==
    /\ \E b \in Blocks :
         /\ TakeOff(b)
         /\ \/ /\ s_tfree # 0
               /\ s_tfree' = s_tfree - 1
               /\ list' = [list EXCEPT ![b] = UserData]
               /\ \/ addr' = [addr EXCEPT ![f][p] = b] /\ UNCHANGED faults
                  \/ /\ MayFail                  \* zeroing it fails
                     /\ faults' = faults \cup {"leak"}
                     /\ UNCHANGED addr
               /\ UNCHANGED condemned
            \/ /\ s_tfree = 0
               /\ condemned' = TRUE
               /\ UNCHANGED <<s_tfree, list, addr, faults>>
    /\ UNCHANGED <<doomed, raw, marked>>

RefillFails ==
    /\ MayFail /\ Len(s_free) = 1 /\ Top # 0
    /\ s_free' = <<>>
    /\ spilled' = <<>>
    /\ intact' = FALSE
    /\ faults' = faults \cup {"refill"}
    /\ UNCHANGED <<s_tfree, condemned, list, addr, doomed, raw, marked>>

(* The end marker was not to be reached, or there is nothing to be popped. *)
CondemnWhenFull ==
    /\ s_free # <<>> /\ Top = 0 /\ s_free' = Rest
    /\ condemned' = TRUE
    /\ UNCHANGED <<s_tfree, list, addr, doomed, raw, marked, spilled, intact, faults>>

Condemn ==
    /\ \/ s_free = <<>> /\ UNCHANGED s_free
       \/ s_free # <<>> /\ Top = 0 /\ s_tfree # 0 /\ s_free' = Rest
    /\ condemned' = TRUE
    /\ UNCHANGED <<s_tfree, list, addr, doomed, raw, marked, spilled, intact, faults>>

Bmap(f, bn) ==
    /\ Mounted /\ ~Truncating
    /\ \E p \in Way(bn) :
         /\ addr[f][p] = 0
         /\ Parent(p) = p \/ addr[f][Parent(p)] # 0
         /\ Grow(f, p) \/ RefillFails \/ Condemn

Next ==
    \/ Make
    \/ \E f \in Files : Truncate(f)
    \/ \E p \in Places : GiveBack(p)
    \/ \E f \in Files, bn \in 0 .. LastBlock : Bmap(f, bn)

Spec == Init /\ [][Next]_vars
----------------------------------------------------------------------------
(* The numbers on the whole list: Seg(s)[i], the last segment in memory.   *)
Depth == Len(spilled) + 1
Seg(s) == IF s = Depth THEN s_free ELSE spilled[s]

OnList(b) == \E s \in 1 .. Depth : \E i \in 1 .. Len(Seg(s)) : Seg(s)[i] = b
InFile(b) == \E f \in Files, p \in Places : addr[f][p] = b
InDoom(b) == \E p \in Places : doomed[p] = b
IsRaw(b) == Lo < b /\ b <= raw

TypeOK ==
    /\ s_free \in Lists
    /\ s_tfree \in Nat
    /\ condemned \in BOOLEAN
    /\ list \in [Blocks -> Lists \cup {UserData}]
    /\ addr \in [Files -> [Places -> Maybe]]
    /\ doomed \in [Places -> Maybe]
    /\ raw \in Blocks
    /\ marked \in BOOLEAN
    /\ spilled \in Seq(Lists)
    /\ intact \in BOOLEAN
    /\ faults \subseteq {"leak", "refill"}

NoBlockTwice ==
    \A f, g \in Files, p, q \in Places :
        addr[f][p] # 0 /\ addr[f][p] = addr[g][q] => f = g /\ p = q

(* FS.C:708: "allocates an unused block": no block is in a file and on the *)
(* free list, or in two places of files.                                   *)
UnusedBlocksOnly ==
    NoBlockTwice /\ \A b \in Blocks : ~(InFile(b) /\ OnList(b))

(* As long as each refill has read back a list that blk_free wrote, no     *)
(* block is in two places of files, or on the list and in a file, or still *)
(* to be given back and either of them.                                    *)
NoSharedBlock ==
    intact => /\ UnusedBlocksOnly
              /\ \A b \in Blocks : InDoom(b) => ~InFile(b) /\ ~OnList(b)

(* s_tfree, which is kept apart from the list, is the number of blocks on  *)
(* it: across spills and refills of the cache and all failed calls.        *)
CountRight ==
    intact => s_tfree + (IF marked THEN 1 ELSE 0)
                = Len(s_free) + FSFREEBLOCKS * Len(spilled)

(* A list with a 0 under it is never read past its end, nor the file       *)
(* system condemned when it is only full, unless a refill could not be     *)
(* read.                                                                   *)
MarkedListHolds == marked /\ "refill" \notin faults => intact /\ ~condemned

(* Without a failed transfer every block can be reached: from a file, from *)
(* the list, or from what f_trunc is giving back.                          *)
NothingLost ==
    intact /\ faults = {} =>
        \A b \in Blocks : OnList(b) \/ InFile(b) \/ InDoom(b) \/ IsRaw(b)
=============================================================================
