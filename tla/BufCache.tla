------------------------------ MODULE BufCache ------------------------------
(***************************************************************************)
(* The buffer pool of the UZIX kernel (DIO.C): bread, bfree, zerobuf,      *)
(* freebuf and bufsync over a block device whose transfers may fail.       *)
(*                                                                         *)
(* No process sleeps while it holds a buffer, so a call runs to its end:   *)
(* an action is one call.  What interleaves is the nesting of the callers, *)
(* which hold a buffer while they ask for the next.                        *)
(***************************************************************************)
EXTENDS Integers, FiniteSets

CONSTANTS
    Bufs,     \* the buffers, NBUFS of them in the code
    Blocks,   \* block numbers on devices
    NoBlock,  \* NULLDEV, for a buffer that names no block
    Data,     \* contents of a block
    ZERO,     \* ... all zero
    MAXHELD,  \* the most buffers a caller holds when it asks for another
    MayFail   \* the transfers that may fail: some of "read", "write"

ASSUME BufAssumption ==
    /\ IsFiniteSet(Bufs) /\ Bufs # {}
    /\ NoBlock \notin Blocks
    /\ ZERO \in Data
    /\ MAXHELD \in Nat
    /\ MayFail \subseteq {"read", "write"}

VARIABLES
    name,       \* bf_dev and bf_blk
    data,       \* bf_data
    dirty,      \* bf_dirty, as the set of its bits: 1 and 2
    use,        \* bf_busy: "free", or how the holder got the buffer
    dirty_mask, \* writing at once is put off
    disk,       \* the blocks on the devices
    result,     \* what the last call returned: "EIO" is NULL or -1
    stuck,      \* the kernel is in freebuf's loop for ever
    unread      \* history: the buffers named for a read that failed

vars == <<name, data, dirty, use, dirty_mask, disk, result, stuck, unread>>

Modes == {"read", "rewrite", "zero"}   \* the rewrite argument of bread: 0, 1, 2
Flags == {{}, {1}, {2}}                \* the dirty argument of bfree

TypeOK ==
    /\ name \in [Bufs -> Blocks \cup {NoBlock}]
    /\ data \in [Bufs -> Data]
    /\ dirty \in [Bufs -> SUBSET {1, 2}]
    /\ use \in [Bufs -> {"free", "read", "rewrite", "scratch"}]
    /\ dirty_mask \in BOOLEAN
    /\ disk \in [Blocks -> Data]
    /\ result \in {"ok", "EIO"}
    /\ stuck \in BOOLEAN
    /\ unread \in SUBSET Bufs

\* bufinit
Empty ==
    /\ name = [i \in Bufs |-> NoBlock]
    /\ data = [i \in Bufs |-> ZERO]
    /\ dirty = [i \in Bufs |-> {}]
    /\ use = [i \in Bufs |-> "free"]

Init ==
    /\ Empty
    /\ disk \in [Blocks -> Data]
    /\ dirty_mask = FALSE /\ result = "ok" /\ stuck = FALSE /\ unread = {}

-----------------------------------------------------------------------------
(* Faulty variants of definitions below, which nothing here uses. *)

NamedClean(b) == {i \in Bufs : name[i] = b /\ dirty[i] = {}} \* dirty ones overlooked
DiskAfterNoWrite(i) == disk                      \* freebuf forgets the old contents
CleanedAll(F) ==                                 \* bufsync takes failure for success
    {i \in Bufs : dirty[i] # {} /\ name[i] # NoBlock}
NewDirtyAdded(i, flag) ==                        \* bf_dirty += dirty, with a carry
    LET Worth(F) == (IF 1 \in F THEN 1 ELSE 0) + (IF 2 \in F THEN 2 ELSE 0)
    IN  {bit \in {1, 2, 4} : ((Worth(dirty[i]) + Worth(flag)) \div bit) % 2 = 1}

-----------------------------------------------------------------------------
Held == {i \in Bufs : use[i] # "free"}
Free == Bufs \ Held
Named(b) == {i \in Bufs : name[i] = b}

\* Callers ask for one more buffer while they hold few, never for a block that
\* they hold, and not after the kernel is stuck.
Asks == ~stuck /\ Cardinality(Held) <= MAXHELD

\* freebuf: a buffer whose bit 1 is clear in the first pass, else any free one.
\* (The least recently used of these: which one it is matters to speed only.)
Victims ==
    LET clean == {i \in Free : 1 \notin dirty[i]}
    IN  IF clean # {} THEN clean ELSE Free

DiskAfter(i) == IF dirty[i] = {} THEN disk ELSE [disk EXCEPT ![name[i]] = data[i]]

NameAfter(i, b) == [name EXCEPT ![i] = b]

\* freebuf hands out i after it has written the old contents to the device ...
Freebuf(i, b) ==
    /\ i \in Victims
    /\ disk' = DiskAfter(i)
    /\ dirty' = [dirty EXCEPT ![i] = {}]
    /\ name' = NameAfter(i, b)

\* ... or fails to, and returns NULL ...
FreebufFails ==
    /\ "write" \in MayFail /\ \E i \in Victims : dirty[i] # {}
    /\ result' = "EIO"
    /\ UNCHANGED <<name, data, dirty, use, disk, stuck, unread>>

\* ... or, with no free buffer, goes round its inner loop for ever.
FreebufStuck ==
    /\ Free = {}
    /\ stuck' = TRUE
    /\ UNCHANGED <<name, data, dirty, use, disk, result, unread>>

Take(i, how, d) ==
    /\ use' = [use EXCEPT ![i] = how]
    /\ data' = [data EXCEPT ![i] = d]
    /\ result' = "ok"

BreadHit(b, mode) ==
    /\ Asks /\ Named(b) # {} /\ Named(b) \subseteq Free
    /\ \E i \in Named(b) :
        /\ Take(i, IF mode = "read" THEN "read" ELSE "rewrite",
                   IF mode = "zero" THEN ZERO ELSE data[i])
        /\ unread' = IF mode = "read" THEN unread ELSE unread \ {i}
    /\ UNCHANGED <<name, dirty, dirty_mask, disk, stuck>>

BreadMiss(b, mode) ==
    /\ Asks /\ Named(b) = {}
    /\ \/ \E i \in Bufs :
            /\ Freebuf(i, b)
            /\ CASE mode = "read"    -> Take(i, "read", DiskAfter(i)[b])
                 [] mode = "rewrite" -> Take(i, "rewrite", data[i])
                 [] mode = "zero"    -> Take(i, "rewrite", ZERO)
            /\ unread' = unread \ {i}
            /\ UNCHANGED stuck
       \/ FreebufFails
       \/ FreebufStuck
    /\ UNCHANGED dirty_mask

\* The device fails after the buffer has been named: it keeps the name.
BreadFails(b) ==
    /\ Asks /\ Named(b) = {} /\ "read" \in MayFail
    /\ \E i \in Bufs : Freebuf(i, b) /\ unread' = unread \cup {i}
    /\ result' = "EIO"
    /\ UNCHANGED <<data, use, dirty_mask, stuck>>

Zerobuf ==
    /\ Asks
    /\ \/ \E i \in Bufs :
            /\ Freebuf(i, NoBlock) /\ Take(i, "scratch", ZERO)
            /\ unread' = unread \ {i}
            /\ UNCHANGED stuck
       \/ FreebufFails
       \/ FreebufStuck
    /\ UNCHANGED dirty_mask

\* bfree of a buffer in which the holder has put d, if it calls it dirty.
NewDirty(i, flag) == dirty[i] \cup flag
ExtraDirty(i, flag) == 2 \in NewDirty(i, flag) /\ ~dirty_mask

Bfree(i, flag, d) ==
    /\ ~stuck /\ use[i] # "free"
    /\ flag = {} => d = data[i]
    /\ use[i] = "rewrite" => flag # {}
    /\ use[i] = "scratch" => flag = {}
    /\ use' = [use EXCEPT ![i] = "free"]
    /\ data' = [data EXCEPT ![i] = d]
    /\ \/ /\ ~ExtraDirty(i, flag)
          /\ dirty' = [dirty EXCEPT ![i] = NewDirty(i, flag)]
          /\ result' = "ok"
          /\ UNCHANGED disk
       \/ /\ ExtraDirty(i, flag)
          /\ dirty' = [dirty EXCEPT ![i] = {}]
          /\ disk' = [disk EXCEPT ![name[i]] = d]
          /\ result' = "ok"
       \/ /\ ExtraDirty(i, flag) /\ "write" \in MayFail
          /\ dirty' = [dirty EXCEPT ![i] = NewDirty(i, flag)]
          /\ result' = "EIO"
          /\ UNCHANGED disk
    /\ unread' = IF flag = {} THEN unread ELSE unread \ {i}
    /\ UNCHANGED <<name, dirty_mask, stuck>>

\* i_sync before it writes the inodes.
Defer ==
    /\ ~stuck /\ dirty_mask' = TRUE
    /\ UNCHANGED <<name, data, dirty, use, disk, result, stuck, unread>>

\* bufsync writes every dirty buffer; those of F fail.
ToWrite == {i \in Bufs : dirty[i] # {} /\ name[i] # NoBlock}
Cleaned(F) == ToWrite \ F

Bufsync(F) ==
    /\ ~stuck
    /\ F # {} => "write" \in MayFail
    /\ dirty_mask' = FALSE
    /\ dirty' = [i \in Bufs |-> IF i \in Cleaned(F) THEN {} ELSE dirty[i]]
    /\ disk' = [b \in Blocks |->
                    IF \E i \in ToWrite \ F : name[i] = b
                    THEN data[CHOOSE i \in ToWrite \ F : name[i] = b]
                    ELSE disk[b]]
    /\ UNCHANGED <<name, data, use, result, stuck, unread>>

\* The machine is switched off, or reset, and booted again.
Boot ==
    /\ name' = [i \in Bufs |-> NoBlock]
    /\ data' = [i \in Bufs |-> ZERO]
    /\ dirty' = [i \in Bufs |-> {}]
    /\ use' = [i \in Bufs |-> "free"]
    /\ dirty_mask' = FALSE /\ result' = "ok" /\ stuck' = FALSE /\ unread' = {}
    /\ UNCHANGED disk

Next ==
    \/ \E b \in Blocks, mode \in Modes : BreadHit(b, mode) \/ BreadMiss(b, mode)
    \/ \E b \in Blocks : BreadFails(b)
    \/ Zerobuf
    \/ \E i \in Bufs, flag \in Flags, d \in Data : Bfree(i, flag, d)
    \/ Defer
    \/ \E F \in SUBSET Bufs : Bufsync(F)
    \/ Boot

Spec == Init /\ [][Next]_vars

-----------------------------------------------------------------------------
(* Properties. *)

\* No block has two buffers, of which bread would find the first and the other
\* would be written over it later.
OneBufferPerBlock == \A i, j \in Bufs : name[i] = name[j] /\ name[i] # NoBlock => i = j

\* A buffer that is not dirty holds what the device holds, unless it is being
\* rewritten or was named for a read that failed.
CleanIsOnDisk ==
    \A i \in Bufs \ unread : /\ name[i] # NoBlock /\ dirty[i] = {} /\ use[i] # "rewrite"
                             => data[i] = disk[name[i]]

\* The pool implements the store of BlockStore: nothing written is lost, whatever
\* is evicted, put off or fails, and the device never holds anything but a
\* block's contents, the last or an earlier one.  (A buffer that a failed read left
\* behind does not count: whoever asks for its block gets it, and has been misled.)
Holding(b) == Named(b) \ unread
Store == INSTANCE BlockStore WITH
    content <- [b \in Blocks |-> IF Holding(b) = {} THEN disk[b]
                                 ELSE data[CHOOSE i \in Holding(b) : TRUE]],
    stable <- disk,
    using <- [b \in Blocks |-> IF Named(b) = {} THEN "idle"
                               ELSE LET i == CHOOSE i \in Named(b) : TRUE
                                    IN  IF use[i] = "free" THEN "idle" ELSE use[i]],
    deferring <- dirty_mask

StoreSpec == Store!Spec
=============================================================================
