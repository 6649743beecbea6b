-------------------------------- MODULE Pipe --------------------------------
(***************************************************************************)
(* A pipe of UZIX: an inode without links whose blocks are used as a ring. *)
(* readwritei (SC1.C) moves the bytes block by block and keeps their       *)
(* number in i_size; the two open files that sys_pipe (SC2.C) makes are    *)
(* shared by fork, and c_refs counts those that some descriptor is open    *)
(* on.  The kernel is not preempted and a call sleeps only before its      *)
(* first byte: what follows the last test is one step.                     *)
(***************************************************************************)
EXTENDS Naturals

CONSTANTS
    Procs,                   \* processes that may inherit the pipe
    Creator,                 \* the one that calls pipe()
    BUFSIZE, DIRECTBLOCKS,
    Counts,                  \* numbers of bytes asked for
    MayFail                  \* whether a block may be unreadable or not to be had

ASSUME PipeAssumption ==
    /\ Creator \in Procs
    /\ BUFSIZE \in Nat \ {0}
    /\ DIRECTBLOCKS \in Nat \ {0}
    /\ Counts \subseteq Nat \ {0}
    /\ MayFail \in BOOLEAN

Ends == {"r", "w"}           \* the two open files, by their o_access
Room == DIRECTBLOCKS * BUFSIZE
RING == Room + BUFSIZE       \* the offset wraps after the block past the direct ones

VARIABLES
    fds,                     \* the ends a process has descriptors of
    state,                   \* "none", "user", "asleep" in a call, "awoken" in it
    call,                    \* the call of a sleeper: end, u_count, u_offset
    o_ptr,                   \* of each open file
    i_size,                  \* bytes in the pipe
    cell,                    \* the bytes of the ring: each is its number in the stream
    doomed,                  \* processes with a fatal signal pending
    \* histories
    wrote, got,              \* bytes put into the pipe and taken out of it
    inOrder,                 \* every byte read was the next of the stream
    clean                    \* no transfer began at a stale offset, or ended inside
                             \* the last block

procs == <<fds, state, call, doomed>>
ring == <<o_ptr, i_size, cell, wrote, got, inOrder, clean>>
vars == <<procs, ring>>
----------------------------------------------------------------------------
NoCall == [end |-> "r", count |-> 0, offset |-> 0]

Refs(e) == {p \in Procs : e \in fds[p]}
Open(e) == Refs(e) # {}
c_refs == (IF Open("r") THEN 1 ELSE 0) + (IF Open("w") THEN 1 ELSE 0)

(* wakeup(ino)                                                             *)
Asleep == {p \in Procs : state[p] = "asleep"}
Roused == [p \in Procs |-> IF p \in Asleep THEN "awoken" ELSE state[p]]

(* The place of the k-th byte from offset off, the number of the byte at   *)
(* place x counted from there, and the offset that n bytes leave: in the   *)
(* last block it is cut to its place in a block.                           *)
Pos(off, k) == IF off + k < RING THEN off + k ELSE off + k - RING
Index(off, x) == IF x < off THEN x + RING - off ELSE x - off
Cut(off, n) == n > 0 /\ Pos(off, n - 1) >= Room
After(off, n) == IF Cut(off, n) THEN Pos(off, n) % BUFSIZE ELSE Pos(off, n)

(* How many of todo bytes are moved: a failure stops between two blocks.   *)
Moved(off, todo) ==
    {n \in 0 .. todo :
        \/ n = todo
        \/ MayFail /\ (n = 0 \/ (off + n) % BUFSIZE = 0)}

Clean(e, off, n) ==
    clean /\ off = o_ptr[e] /\ (Cut(off, n) => After(off, n) = 0 /\ Pos(off, n) = 0)

(* readwritei's loop and updoff                                            *)
PutBytes(off, todo) ==
    \E n \in Moved(off, todo) :
        /\ cell' = [x \in 0 .. RING - 1 |->
                      IF Index(off, x) < n THEN wrote + 1 + Index(off, x) ELSE cell[x]]
        /\ i_size' = i_size + n
        /\ wrote' = wrote + n
        /\ o_ptr' = [o_ptr EXCEPT !["w"] = After(off, n)]
        /\ clean' = Clean("w", off, n)
        /\ UNCHANGED <<got, inOrder>>

TakeBytesKeepingOffset(off, todo) ==
    \E n \in Moved(off, todo) :
        /\ inOrder' = (inOrder /\ \A k \in 0 .. n - 1 : cell[Pos(off, k)] = got + 1 + k)
        /\ i_size' = i_size - n
        /\ got' = got + n
        /\ o_ptr' = [o_ptr EXCEPT !["r"] = IF n = todo THEN After(off, n) ELSE off]
        /\ clean' = Clean("r", off, n)
        /\ UNCHANGED <<cell, wrote>>

TakeBytes(off, todo) ==
    \E n \in Moved(off, todo) :
        /\ inOrder' = (inOrder /\ \A k \in 0 .. n - 1 : cell[Pos(off, k)] = got + 1 + k)
        /\ i_size' = i_size - n
        /\ got' = got + n
        /\ o_ptr' = [o_ptr EXCEPT !["r"] = After(off, n)]
        /\ clean' = Clean("r", off, n)
        /\ UNCHANGED <<cell, wrote>>

(* The call of p, from its first test or from where psleep let it go.      *)
FitsInPart(count) == i_size < Room
Fits(count) == count <= Room - i_size
Ready(e, count) ==
    IF e = "w" THEN Fits(count) ELSE i_size > 0

Smaller(m, n) == IF m < n THEN m ELSE n
Transfer(p, e, count, off) ==
    /\ Ready(e, count)
    /\ IF e = "w" THEN PutBytes(off, count)
                  ELSE TakeBytes(off, Smaller(count, i_size))
    /\ state' = [(IF i_size' # i_size THEN Roused ELSE state) EXCEPT ![p] = "user"]
    /\ call' = [call EXCEPT ![p] = NoCall]
    /\ UNCHANGED <<fds, doomed>>

(* End of file, or a broken pipe with its SIGPIPE; updoff all the same.    *)
OtherEndGone(p, e, count, off) ==
    /\ ~Ready(e, count) /\ c_refs = 1
    /\ o_ptr' = [o_ptr EXCEPT ![e] = off]
    /\ clean' = (clean /\ off = o_ptr[e])
    /\ state' = [state EXCEPT ![p] = "user"]
    /\ call' = [call EXCEPT ![p] = NoCall]
    /\ doomed' = IF e = "w" THEN doomed \cup {p} ELSE doomed
    /\ UNCHANGED <<fds, i_size, cell, wrote, got, inOrder>>

Sleep(p, e, count, off) ==
    /\ ~Ready(e, count) /\ c_refs # 1 /\ p \notin doomed
    /\ state' = [state EXCEPT ![p] = "asleep"]
    /\ call' = [call EXCEPT ![p] = [end |-> e, count |-> count, offset |-> off]]
    /\ UNCHANGED <<fds, doomed, ring>>

(* The ends of p are closed: i_deref wakes before it counts down, and is   *)
(* called when the last descriptor of an open file goes.                   *)
ClosedByReader(p, es) ==
    /\ fds' = [fds EXCEPT ![p] = @ \ es]
    /\ state' = IF \E e \in es : Refs(e) = {p} /\ e = "r" THEN Roused ELSE state

Closed(p, es) ==
    /\ fds' = [fds EXCEPT ![p] = @ \ es]
    /\ state' = IF \E e \in es : Refs(e) = {p} THEN Roused ELSE state

Leave(p) ==
    /\ fds' = [fds EXCEPT ![p] = {}]
    /\ state' = [(IF \E e \in fds[p] : Refs(e) = {p} THEN Roused ELSE state)
                    EXCEPT ![p] = "none"]
    /\ call' = [call EXCEPT ![p] = NoCall]
    /\ doomed' = doomed \ {p}
    /\ UNCHANGED ring

(* psleep with the signal pending is the end of the process.               *)
DieAsleep(p, e, count) == ~Ready(e, count) /\ c_refs # 1 /\ p \in doomed /\ Leave(p)
----------------------------------------------------------------------------
Init ==
    /\ fds = [p \in Procs |-> IF p = Creator THEN Ends ELSE {}]
    /\ state = [p \in Procs |-> IF p = Creator THEN "user" ELSE "none"]
    /\ call = [p \in Procs |-> NoCall]
    /\ doomed = {}
    /\ o_ptr = [e \in Ends |-> 0]
    /\ i_size = 0
    /\ cell = [x \in 0 .. RING - 1 |-> 0]
    /\ wrote = 0 /\ got = 0
    /\ inOrder = TRUE /\ clean = TRUE

(* read or write: rwsetup takes the offset before anything sleeps.         *)
Call(p, e, count) ==
    /\ state[p] = "user" /\ p \notin doomed /\ e \in fds[p]
    /\ \/ Transfer(p, e, count, o_ptr[e])
       \/ OtherEndGone(p, e, count, o_ptr[e])
       \/ Sleep(p, e, count, o_ptr[e])

Resume(p) ==
    LET e == call[p].end  count == call[p].count  off == call[p].offset
    IN  /\ state[p] = "awoken"
        /\ \/ Transfer(p, e, count, off)
           \/ OtherEndGone(p, e, count, off)
           \/ Sleep(p, e, count, off)
           \/ DieAsleep(p, e, count)

Close(p, e) ==
    /\ state[p] = "user" /\ p \notin doomed /\ e \in fds[p]
    /\ Closed(p, {e})
    /\ UNCHANGED <<call, doomed, ring>>

Fork(p, q) ==
    /\ state[p] = "user" /\ p \notin doomed /\ state[q] = "none"
    /\ fds' = [fds EXCEPT ![q] = fds[p]]
    /\ state' = [state EXCEPT ![q] = "user"]
    /\ UNCHANGED <<call, doomed, ring>>

(* exit, or death by a signal on the way out of a call                     *)
Exit(p) ==
    /\ state[p] = "user"
    /\ Leave(p)

(* ssig of a signal that p neither catches nor ignores                     *)
Signal(p) ==
    /\ state[p] \in {"asleep", "awoken"} /\ p \notin doomed
    /\ doomed' = doomed \cup {p}
    /\ state' = [state EXCEPT ![p] = "awoken"]
    /\ UNCHANGED <<fds, call, ring>>

Next ==
    \E p \in Procs :
        \/ \E e \in Ends, count \in Counts : Call(p, e, count)
        \/ Resume(p)
        \/ \E e \in Ends : Close(p, e)
        \/ \E q \in Procs : Fork(p, q)
        \/ Exit(p)
        \/ Signal(p)

Spec == Init /\ [][Next]_vars
----------------------------------------------------------------------------
(* Types; the pipe never holds more than the direct blocks do, and never   *)
(* less than nothing, whatever fails and whoever comes and goes            *)
(* (SC1.C:144-146, 218).                                                   *)
TypeOK ==
    /\ fds \in [Procs -> SUBSET Ends]
    /\ state \in [Procs -> {"none", "user", "asleep", "awoken"}]
    /\ call \in [Procs -> [end : Ends, count : Counts \cup {0}, offset : 0 .. RING - 1]]
    /\ doomed \subseteq Procs
    /\ o_ptr \in [Ends -> 0 .. RING - 1]
    /\ i_size \in 0 .. Room
    /\ cell \in [0 .. RING - 1 -> Nat]
    /\ wrote \in Nat /\ got \in Nat
    /\ wrote = got + i_size
    /\ inOrder \in BOOLEAN /\ clean \in BOOLEAN

(* Nobody sleeps in a pipe without a reason that another process can take  *)
(* away: a sleeping reader has an empty pipe with a writer, a sleeping     *)
(* writer too little room and a reader, in whatever order transfers,       *)
(* closes, forks, signals and exits come (SC1.C:144-162, 220;              *)
(* FS.C:140-145, where the wakeup comes before c_refs is counted down).    *)
SleepersHaveCause ==
    \A p \in Asleep :
        /\ call[p].end \in fds[p]
        /\ ~Ready(call[p].end, call[p].count)
        /\ c_refs = 2

(* The bytes come out as they went in, over wraps, failures in the middle  *)
(* of a transfer and any number of readers and writers, as long as no      *)
(* transfer begins at an offset that another has moved on and none ends    *)
(* inside the last block (SC1.C:172-223, 1110).                            *)
InOrder ==
    clean =>
        /\ inOrder
        /\ \A k \in 0 .. i_size - 1 : cell[Pos(o_ptr["r"], k)] = got + 1 + k
=============================================================================
