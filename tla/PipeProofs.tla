----------------------------- MODULE PipeProofs -----------------------------
(***************************************************************************)
(* Proofs about Pipe, for any processes, block size and pipe size.         *)
(***************************************************************************)
EXTENDS Pipe, TLAPS

USE PipeAssumption

LEMMA RingSize == Room \in Nat /\ RING \in Nat /\ RING = Room + BUFSIZE /\ Room < RING
BY DEF Room, RING

\* Offsets stay in the ring.
LEMMA PosInRing ==
    ASSUME NEW off \in 0 .. RING - 1, NEW k \in 0 .. RING
    PROVE  Pos(off, k) \in 0 .. RING - 1
BY RingSize DEF Pos

\* The byte at the place of the k-th byte from off, counted from the place of the s-th.
LEMMA IndexOfPos ==
    ASSUME NEW off \in 0 .. RING - 1, NEW s \in 0 .. Room, NEW k \in 0 .. RING - 1
    PROVE  Index(Pos(off, s), Pos(off, k)) = IF k < s THEN k + RING - s ELSE k - s
BY RingSize DEF Index, Pos

LEMMA CountIsNat == \A c \in Counts \cup {0} : c \in Nat
OBVIOUS

LEMMA AfterInRing ==
    ASSUME NEW off \in 0 .. RING - 1, NEW n \in 0 .. Room
    PROVE  After(off, n) \in 0 .. RING - 1
<1>1. Pos(off, n) \in 0 .. RING - 1
  BY PosInRing, RingSize
<1>2. Pos(off, n) % BUFSIZE \in 0 .. BUFSIZE - 1
  BY <1>1, RingSize
<1>. QED BY <1>1, <1>2, RingSize DEF After

\* Going on from the place of the m-th byte is going on from the start.
LEMMA PosAdds ==
    ASSUME NEW off \in 0 .. RING - 1, NEW m \in Nat, NEW k \in Nat, m + k < RING + 1
    PROVE  Pos(Pos(off, m), k) = Pos(off, m + k)
BY RingSize DEF Pos
----------------------------------------------------------------------------
LEMMA PutType ==
    ASSUME TypeOK, NEW off \in 0 .. RING - 1, NEW todo \in Nat, Fits(todo), PutBytes(off, todo)
    PROVE  /\ o_ptr' \in [Ends -> 0 .. RING - 1]
           /\ i_size' \in 0 .. Room
           /\ cell' \in [0 .. RING - 1 -> Nat]
           /\ wrote' \in Nat /\ got' \in Nat
           /\ wrote' = got' + i_size'
           /\ inOrder' \in BOOLEAN /\ clean' \in BOOLEAN
<1>. USE RingSize
<1>1. PICK n \in 0 .. todo :
        /\ cell' = [x \in 0 .. RING - 1 |->
                      IF Index(off, x) < n THEN wrote + 1 + Index(off, x) ELSE cell[x]]
        /\ i_size' = i_size + n
        /\ wrote' = wrote + n
        /\ o_ptr' = [o_ptr EXCEPT !["w"] = After(off, n)]
        /\ clean' = Clean("w", off, n)
        /\ UNCHANGED <<got, inOrder>>
  BY DEF PutBytes, Moved
<1>2. n \in 0 .. Room
  BY DEF Fits, TypeOK
<1>3. cell' \in [0 .. RING - 1 -> Nat]
  <2>1. \A x \in 0 .. RING - 1 : wrote + 1 + Index(off, x) \in Nat
    BY DEF Index, TypeOK
  <2>. QED BY <1>1, <2>1 DEF TypeOK
<1>4. clean' \in BOOLEAN
  BY <1>1 DEF TypeOK, Clean
<1>5. o_ptr' \in [Ends -> 0 .. RING - 1]
  BY <1>1, <1>2, AfterInRing DEF TypeOK
<1>6. i_size' \in 0 .. Room /\ wrote' \in Nat /\ wrote' = got + i_size'
  BY <1>1, <1>2 DEF TypeOK, Fits
<1>. QED BY <1>1, <1>3, <1>4, <1>5, <1>6 DEF TypeOK

LEMMA TakeType ==
    ASSUME TypeOK, NEW off \in 0 .. RING - 1, NEW todo \in 0 .. i_size, TakeBytes(off, todo)
    PROVE  /\ o_ptr' \in [Ends -> 0 .. RING - 1]
           /\ i_size' \in 0 .. Room
           /\ cell' \in [0 .. RING - 1 -> Nat]
           /\ wrote' \in Nat /\ got' \in Nat
           /\ wrote' = got' + i_size'
           /\ inOrder' \in BOOLEAN /\ clean' \in BOOLEAN
<1>. USE RingSize
<1>1. PICK n \in 0 .. todo :
        /\ inOrder' = (inOrder /\ \A k \in 0 .. n - 1 : cell[Pos(off, k)] = got + 1 + k)
        /\ i_size' = i_size - n
        /\ got' = got + n
        /\ o_ptr' = [o_ptr EXCEPT !["r"] = After(off, n)]
        /\ clean' = Clean("r", off, n)
        /\ UNCHANGED <<cell, wrote>>
  BY DEF TakeBytes, Moved
<1>2. n \in 0 .. Room /\ n \in 0 .. i_size
  BY DEF TypeOK
<1>3. clean' \in BOOLEAN /\ inOrder' \in BOOLEAN
  BY <1>1 DEF TypeOK, Clean
<1>4. o_ptr' \in [Ends -> 0 .. RING - 1]
  BY <1>1, <1>2, AfterInRing DEF TypeOK
<1>5. i_size' \in 0 .. Room /\ got' \in Nat /\ wrote = got' + i_size'
  BY <1>1, <1>2 DEF TypeOK
<1>. QED BY <1>1, <1>3, <1>4, <1>5 DEF TypeOK

LEMMA RousedType ==
    ASSUME TypeOK
    PROVE  Roused \in [Procs -> {"none", "user", "asleep", "awoken"}]
BY DEF TypeOK, Roused, Asleep

\* What a call does, from its start or after a sleep.
CallStep(p, e, count, off) ==
    \/ Transfer(p, e, count, off)
    \/ OtherEndGone(p, e, count, off)
    \/ Sleep(p, e, count, off)

LEMMA CallType ==
    ASSUME TypeOK, NEW p \in Procs, NEW e \in Ends, NEW count \in Counts \cup {0},
           NEW off \in 0 .. RING - 1, CallStep(p, e, count, off)
    PROVE  TypeOK'
<1>. USE RingSize
<1>0. count \in Nat /\ NoCall \in [end : Ends, count : Counts \cup {0}, offset : 0 .. RING - 1]
  BY DEF NoCall, Ends
<1>1. CASE Transfer(p, e, count, off)
  <2>1. /\ state' \in [Procs -> {"none", "user", "asleep", "awoken"}]
        /\ call' \in [Procs -> [end : Ends, count : Counts \cup {0}, offset : 0 .. RING - 1]]
        /\ UNCHANGED <<fds, doomed>>
    BY <1>0, <1>1, RousedType DEF Transfer, TypeOK
  <2>2. CASE e = "w"
    <3>1. Fits(count) /\ PutBytes(off, count)
      BY <1>1, <2>2 DEF Transfer, Ready
    <3>. QED BY <1>0, <2>1, <3>1, PutType DEF TypeOK
  <2>3. CASE e # "w"
    <3>1. Smaller(count, i_size) \in 0 .. i_size
      BY <1>0 DEF Smaller, TypeOK
    <3>2. TakeBytes(off, Smaller(count, i_size))
      BY <1>1, <2>3 DEF Transfer
    <3>. QED BY <2>1, <3>1, <3>2, TakeType DEF TypeOK
  <2>. QED BY <2>2, <2>3
<1>2. CASE OtherEndGone(p, e, count, off)
  <2>1. clean' \in BOOLEAN
    BY <1>2 DEF OtherEndGone, TypeOK
  <2>. QED BY <1>0, <1>2, <2>1 DEF OtherEndGone, TypeOK
<1>3. CASE Sleep(p, e, count, off)
  BY <1>0, <1>3 DEF Sleep, TypeOK, ring
<1>. QED BY <1>1, <1>2, <1>3 DEF CallStep

LEMMA LeaveType ==
    ASSUME TypeOK, NEW p \in Procs, Leave(p) PROVE TypeOK'
<1>1. NoCall \in [end : Ends, count : Counts \cup {0}, offset : 0 .. RING - 1]
  BY RingSize DEF NoCall, Ends
<1>. QED BY <1>1, RousedType DEF Leave, TypeOK, ring

LEMMA InitType == Init => TypeOK
<1>. SUFFICES ASSUME Init PROVE TypeOK OBVIOUS
<1>1. NoCall \in [end : Ends, count : Counts \cup {0}, offset : 0 .. RING - 1]
  BY RingSize DEF NoCall, Ends
<1>2. /\ fds \in [Procs -> SUBSET Ends]
      /\ state \in [Procs -> {"none", "user", "asleep", "awoken"}]
      /\ call \in [Procs -> [end : Ends, count : Counts \cup {0}, offset : 0 .. RING - 1]]
  BY <1>1 DEF Init
<1>. QED BY <1>2, RingSize DEF Init, TypeOK

LEMMA NextType == TypeOK /\ [Next]_vars => TypeOK'
<1>. SUFFICES ASSUME TypeOK, [Next]_vars PROVE TypeOK' OBVIOUS
<1>1. ASSUME NEW p \in Procs, NEW e \in Ends, NEW count \in Counts, Call(p, e, count)
      PROVE  TypeOK'
  <2>1. CallStep(p, e, count, o_ptr[e]) /\ o_ptr[e] \in 0 .. RING - 1
    BY <1>1 DEF Call, CallStep, TypeOK
  <2>. QED BY <2>1, CallType
<1>2. ASSUME NEW p \in Procs, Resume(p) PROVE TypeOK'
  <2>1. /\ call[p].end \in Ends /\ call[p].count \in Counts \cup {0}
        /\ call[p].offset \in 0 .. RING - 1
    BY DEF TypeOK
  <2>2. \/ CallStep(p, call[p].end, call[p].count, call[p].offset)
        \/ Leave(p)
    BY <1>2 DEF Resume, CallStep, DieAsleep
  <2>. QED BY <2>1, <2>2, CallType, LeaveType
<1>3. ASSUME NEW p \in Procs, NEW e \in Ends, Close(p, e) PROVE TypeOK'
  BY <1>3, RousedType DEF Close, Closed, TypeOK, ring
<1>4. ASSUME NEW p \in Procs, NEW q \in Procs, Fork(p, q) PROVE TypeOK'
  BY <1>4 DEF Fork, TypeOK, ring
<1>5. ASSUME NEW p \in Procs, Exit(p) PROVE TypeOK'
  BY <1>5, LeaveType DEF Exit
<1>6. ASSUME NEW p \in Procs, Signal(p) PROVE TypeOK'
  BY <1>6 DEF Signal, TypeOK, ring
<1>7. CASE UNCHANGED vars
  BY <1>7 DEF TypeOK, vars, procs, ring
<1>. QED BY <1>1, <1>2, <1>3, <1>4, <1>5, <1>6, <1>7 DEF Next

\* The pipe holds what was written and not read, never more than it has room for.
THEOREM PipeTypeCorrect == Spec => []TypeOK
BY InitType, NextType, PTL DEF Spec
----------------------------------------------------------------------------
\* Every process in a call has a descriptor of the end, one that is gone has none, and
\* a sleeper has its reason.
SleepInv ==
    /\ \A p \in Procs : state[p] = "none" => fds[p] = {}
    /\ \A p \in Procs : state[p] \in {"asleep", "awoken"} => call[p].end \in fds[p]
    /\ \A p \in Procs : state[p] = "asleep" =>
         /\ ~Ready(call[p].end, call[p].count)
         /\ Open("r") /\ Open("w")

LEMMA OpenCount ==
    /\ c_refs = 1 <=> Open("r") # Open("w")
    /\ c_refs = 2 <=> Open("r") /\ Open("w")
<1>1. Open("r") \in BOOLEAN /\ Open("w") \in BOOLEAN BY DEF Open
<1>. QED BY <1>1 DEF c_refs

\* After a wakeup nobody sleeps; calls and descriptors are as before.
LEMMA NobodyAsleep ==
    ASSUME TypeOK, NEW p \in Procs
    PROVE  /\ Roused[p] \in {"none", "user", "awoken"}
           /\ Roused[p] = "none" => state[p] = "none"
           /\ Roused[p] = "awoken" => state[p] \in {"asleep", "awoken"}
BY DEF Roused, Asleep, TypeOK

LEMMA CallSleep ==
    ASSUME TypeOK, SleepInv, NEW p \in Procs, NEW e \in Ends, NEW count \in Nat,
           NEW off \in 0 .. RING - 1, e \in fds[p], state[p] # "none", CallStep(p, e, count, off)
    PROVE  SleepInv'
<1>1. fds' = fds /\ \A x : Open(x)' = Open(x)
  BY DEF CallStep, Transfer, OtherEndGone, Sleep, Open, Refs
<1>2. \A q \in Procs \ {p} : call'[q] = call[q]
  BY DEF CallStep, Transfer, OtherEndGone, Sleep, TypeOK
<1>3. CASE Transfer(p, e, count, off)
  <2>1. CASE i_size' # i_size
    <3>1. state' = [Roused EXCEPT ![p] = "user"]
      BY <1>3, <2>1 DEF Transfer
    <3>. QED BY <1>1, <1>2, <3>1, NobodyAsleep DEF SleepInv, Roused
  <2>2. CASE i_size' = i_size
    <3>1. state' = [state EXCEPT ![p] = "user"]
      BY <1>3, <2>2 DEF Transfer
    <3>. QED BY <1>1, <1>2, <2>2, <3>1 DEF SleepInv, TypeOK, Ready, Fits
  <2>. QED BY <2>1, <2>2
<1>4. CASE OtherEndGone(p, e, count, off)
  BY <1>1, <1>2, <1>4 DEF OtherEndGone, SleepInv, TypeOK, Ready, Fits
<1>5. CASE Sleep(p, e, count, off)
  <2>1. Open(e)
    BY DEF Open, Refs
  <2>2. Open("r") /\ Open("w") /\ ~Ready(e, count) /\ i_size' = i_size
    BY <1>5, <2>1, OpenCount DEF Sleep, Ends, ring
  <2>3. /\ state' = [state EXCEPT ![p] = "asleep"]
        /\ call'[p].end = e /\ call'[p].count = count
    BY <1>5 DEF Sleep, TypeOK
  <2>. QED BY <1>1, <1>2, <2>2, <2>3 DEF SleepInv, TypeOK, Ready, Fits
<1>. QED BY <1>3, <1>4, <1>5 DEF CallStep

\* Closing descriptors of p: if one was the last of its end everybody is awake, and
\* otherwise no end is closed.
LEMMA CloseSleep ==
    ASSUME TypeOK, SleepInv, NEW p \in Procs, NEW es \in SUBSET Ends, es \subseteq fds[p],
           fds' = [fds EXCEPT ![p] = @ \ es],
           \/ state' = IF \E e \in es : Refs(e) = {p} THEN Roused ELSE state
           \/ state' = [(IF \E e \in es : Refs(e) = {p} THEN Roused ELSE state)
                          EXCEPT ![p] = "none"],
           state[p] = "user" \/ (state'[p] = "none" /\ state[p] = "awoken"),
           state'[p] = "none" => es = fds[p],
           \A q \in Procs \ {p} : call'[q] = call[q],
           i_size' = i_size
    PROVE  SleepInv'
<1>1. \A q \in Procs \ {p} : fds'[q] = fds[q]
  BY DEF TypeOK
<1>2. state'[p] \in {"user", "none"}
  BY DEF TypeOK, Roused, Asleep
<1>3. fds'[p] = fds[p] \ es
  BY DEF TypeOK
<1>4. CASE \E e \in es : Refs(e) = {p}
  <2>1. \A q \in Procs \ {p} : state'[q] = Roused[q]
    BY <1>4, RousedType DEF TypeOK
  <2>. QED BY <1>1, <1>2, <1>3, <2>1, NobodyAsleep DEF SleepInv
<1>5. CASE ~ \E e \in es : Refs(e) = {p}
  <2>1. \A q \in Procs \ {p} : state'[q] = state[q]
    BY <1>5 DEF TypeOK
  <2>2. ASSUME NEW e \in Ends, Open(e) PROVE Open(e)'
    <3>1. CASE e \in es
      <4>1. PICK q \in Procs : e \in fds[q] /\ q # p
        BY <1>5, <3>1 DEF Refs
      <4>. QED BY <1>1, <4>1 DEF Open, Refs
    <3>2. CASE e \notin es
      <4>1. PICK q \in Procs : e \in fds[q]
        BY <2>2 DEF Open, Refs
      <4>. QED BY <1>1, <1>3, <3>2, <4>1 DEF Open, Refs
    <3>. QED BY <3>1, <3>2
  <2>. QED BY <1>1, <1>2, <1>3, <2>1, <2>2 DEF SleepInv, Ready, Fits, Ends
<1>. QED BY <1>4, <1>5

LEMMA LeaveSleep ==
    ASSUME TypeOK, SleepInv, NEW p \in Procs, state[p] \in {"user", "awoken"}, Leave(p)
    PROVE  SleepInv'
<1>1. /\ fds' = [fds EXCEPT ![p] = @ \ fds[p]]
      /\ fds[p] \in SUBSET Ends
      /\ state'[p] = "none"
      /\ \A q \in Procs \ {p} : call'[q] = call[q]
      /\ i_size' = i_size
  BY RousedType DEF Leave, TypeOK, ring
<1>. QED BY <1>1, CloseSleep DEF Leave

LEMMA NextSleep == TypeOK /\ SleepInv /\ [Next]_vars => SleepInv'
<1>. SUFFICES ASSUME TypeOK, SleepInv, [Next]_vars PROVE SleepInv' OBVIOUS
<1>1. ASSUME NEW p \in Procs, NEW e \in Ends, NEW count \in Counts, Call(p, e, count)
      PROVE  SleepInv'
  <2>1. /\ CallStep(p, e, count, o_ptr[e]) /\ o_ptr[e] \in 0 .. RING - 1
        /\ e \in fds[p] /\ state[p] # "none" /\ count \in Nat
    BY <1>1 DEF Call, CallStep, TypeOK
  <2>. QED BY <2>1, CallSleep
<1>2. ASSUME NEW p \in Procs, Resume(p) PROVE SleepInv'
  <2>1. /\ call[p].end \in Ends /\ call[p].count \in Nat
        /\ call[p].offset \in 0 .. RING - 1
        /\ state[p] = "awoken" /\ call[p].end \in fds[p]
    <3>1. /\ call[p].end \in Ends /\ call[p].count \in Counts \cup {0}
          /\ call[p].offset \in 0 .. RING - 1
      BY DEF TypeOK
    <3>2. call[p].count \in Nat BY <3>1, CountIsNat
    <3>. QED BY <1>2, <3>1, <3>2 DEF SleepInv, Resume
  <2>2. \/ CallStep(p, call[p].end, call[p].count, call[p].offset)
        \/ Leave(p)
    BY <1>2 DEF Resume, CallStep, DieAsleep
  <2>. QED BY <2>1, <2>2, CallSleep, LeaveSleep
<1>3. ASSUME NEW p \in Procs, NEW e \in Ends, Close(p, e) PROVE SleepInv'
  <2>1. /\ fds' = [fds EXCEPT ![p] = @ \ {e}]
        /\ state' = IF \E x \in {e} : Refs(x) = {p} THEN Roused ELSE state
        /\ state[p] = "user" /\ e \in fds[p] /\ call' = call /\ i_size' = i_size
    BY <1>3 DEF Close, Closed, ring
  <2>2. state'[p] # "none" /\ {e} \in SUBSET Ends /\ {e} \subseteq fds[p]
    BY <2>1 DEF Roused, Asleep, TypeOK
  <2>. QED BY <2>1, <2>2, CloseSleep
<1>4. ASSUME NEW p \in Procs, NEW q \in Procs, Fork(p, q) PROVE SleepInv'
  <2>1. /\ state[q] = "none" /\ fds[q] = {} /\ p # q
        /\ fds' = [fds EXCEPT ![q] = fds[p]] /\ state' = [state EXCEPT ![q] = "user"]
        /\ call' = call /\ i_size' = i_size
    BY <1>4 DEF Fork, SleepInv, ring
  <2>2. \A e \in Ends : Open(e) => Open(e)'
    BY <2>1 DEF Open, Refs, TypeOK
  <2>. QED BY <2>1, <2>2 DEF SleepInv, TypeOK, Ready, Fits, Ends
<1>5. ASSUME NEW p \in Procs, Exit(p) PROVE SleepInv'
  BY <1>5, LeaveSleep DEF Exit
<1>6. ASSUME NEW p \in Procs, Signal(p) PROVE SleepInv'
  BY <1>6 DEF Signal, SleepInv, TypeOK, ring, Ready, Fits, Open, Refs
<1>7. CASE UNCHANGED vars
  BY <1>7 DEF SleepInv, vars, procs, ring, Ready, Fits, Open, Refs
<1>. QED BY <1>1, <1>2, <1>3, <1>4, <1>5, <1>6, <1>7 DEF Next

\* Nobody sleeps in a pipe for a reason that has gone.
THEOREM SleepersRoused == Spec => []SleepersHaveCause
<1>1. Init => SleepInv
  BY DEF Init, SleepInv
<1>2. SleepInv => SleepersHaveCause
  BY OpenCount DEF SleepInv, SleepersHaveCause, Asleep
<1>. QED BY <1>1, <1>2, NextSleep, PipeTypeCorrect, PTL DEF Spec

----------------------------------------------------------------------------
\* While the stream is clean the unread bytes lie in order from the reader's offset on
\* and end at the writer's.
StreamInv ==
    clean =>
        /\ inOrder
        /\ \A k \in 0 .. i_size - 1 : cell[Pos(o_ptr["r"], k)] = got + 1 + k
        /\ o_ptr["w"] = Pos(o_ptr["r"], i_size)

\* A clean transfer leaves the offset where its last byte says.
LEMMA CleanAfter ==
    ASSUME NEW e, NEW off, NEW n, Clean(e, off, n)
    PROVE  clean /\ off = o_ptr[e] /\ After(off, n) = Pos(off, n)
BY DEF Clean, After

LEMMA PutStream ==
    ASSUME TypeOK, StreamInv, NEW off \in 0 .. RING - 1, NEW todo \in Nat, Fits(todo),
           PutBytes(off, todo)
    PROVE  StreamInv'
<1>. USE RingSize
<1>. SUFFICES ASSUME clean' PROVE StreamInv' BY DEF StreamInv
<1>1. PICK n \in 0 .. todo :
        /\ cell' = [x \in 0 .. RING - 1 |->
                      IF Index(off, x) < n THEN wrote + 1 + Index(off, x) ELSE cell[x]]
        /\ i_size' = i_size + n
        /\ wrote' = wrote + n
        /\ o_ptr' = [o_ptr EXCEPT !["w"] = After(off, n)]
        /\ clean' = Clean("w", off, n)
        /\ UNCHANGED <<got, inOrder>>
  BY DEF PutBytes, Moved
<1>2. /\ clean /\ off = o_ptr["w"] /\ After(off, n) = Pos(off, n)
      /\ n \in 0 .. Room /\ i_size \in 0 .. Room /\ i_size + n \in 0 .. Room
      /\ o_ptr["r"] \in 0 .. RING - 1 /\ off = Pos(o_ptr["r"], i_size)
      /\ i_size' \in 0 .. Room
  <2>1. Clean("w", off, n) BY <1>1
  <2>2. clean /\ off = o_ptr["w"] /\ After(off, n) = Pos(off, n)
    BY <2>1, CleanAfter
  <2>3. /\ n \in 0 .. Room /\ i_size \in 0 .. Room /\ i_size + n \in 0 .. Room
        /\ o_ptr["r"] \in 0 .. RING - 1
    BY DEF TypeOK, Fits, Ends
  <2>. QED BY <1>1, <2>2, <2>3 DEF StreamInv
<1>3. o_ptr'["r"] = o_ptr["r"] /\ o_ptr'["w"] = Pos(off, n)
  BY <1>1, <1>2 DEF TypeOK, Ends
<1>4. o_ptr'["w"] = Pos(o_ptr'["r"], i_size')
  BY <1>1, <1>2, <1>3, PosAdds
<1>6. ASSUME NEW k \in 0 .. i_size' - 1 PROVE cell'[Pos(o_ptr'["r"], k)] = got' + 1 + k
  <2>0. k \in 0 .. RING - 1 /\ k < i_size + n
    <3>1. i_size' = i_size + n /\ i_size' \in 0 .. Room
      BY <1>1, <1>2
    <3>. QED BY <1>6, <3>1
  <2>1. Pos(o_ptr["r"], k) \in 0 .. RING - 1 /\ k \in 0 .. RING
    <3>1. k \in 0 .. RING BY <2>0
    <3>. QED BY <1>2, <3>1, PosInRing
  <2>2. CASE k < i_size
    <3>1. ~(Index(off, Pos(o_ptr["r"], k)) < n)
      <4>1. Index(off, Pos(o_ptr["r"], k)) = k + RING - i_size
        BY <1>2, <2>0, <2>2, IndexOfPos
      <4>. QED BY <1>2, <2>0, <4>1
    <3>2. cell'[Pos(o_ptr["r"], k)] = cell[Pos(o_ptr["r"], k)]
      BY <1>1, <2>1, <3>1
    <3>. QED BY <1>1, <1>2, <1>3, <2>2, <3>2 DEF StreamInv
  <2>3. CASE ~(k < i_size)
    <3>1. Index(off, Pos(o_ptr["r"], k)) = k - i_size /\ k - i_size < n
      BY <1>2, <2>0, <2>3, IndexOfPos
    <3>2. cell'[Pos(o_ptr["r"], k)] = wrote + 1 + (k - i_size)
      BY <1>1, <2>1, <3>1
    <3>. QED BY <1>1, <1>2, <1>3, <2>1, <2>3, <3>2 DEF TypeOK
  <2>. QED BY <2>2, <2>3
<1>. QED BY <1>1, <1>2, <1>4, <1>6 DEF StreamInv

LEMMA TakeStream ==
    ASSUME TypeOK, StreamInv, NEW off \in 0 .. RING - 1, NEW todo \in 0 .. i_size,
           TakeBytes(off, todo)
    PROVE  StreamInv'
<1>. USE RingSize
<1>. SUFFICES ASSUME clean' PROVE StreamInv' BY DEF StreamInv
<1>1. PICK n \in 0 .. todo :
        /\ inOrder' = (inOrder /\ \A k \in 0 .. n - 1 : cell[Pos(off, k)] = got + 1 + k)
        /\ i_size' = i_size - n
        /\ got' = got + n
        /\ o_ptr' = [o_ptr EXCEPT !["r"] = After(off, n)]
        /\ clean' = Clean("r", off, n)
        /\ UNCHANGED <<cell, wrote>>
  BY DEF TakeBytes, Moved
<1>2. /\ clean /\ off = o_ptr["r"] /\ After(off, n) = Pos(off, n)
      /\ i_size \in 0 .. Room /\ n \in 0 .. i_size
      /\ o_ptr["w"] = Pos(off, i_size)
      /\ i_size' \in 0 .. Room
  <2>1. Clean("r", off, n) BY <1>1
  <2>2. clean /\ off = o_ptr["r"] /\ After(off, n) = Pos(off, n)
    BY <2>1, CleanAfter
  <2>3. i_size \in 0 .. Room /\ n \in 0 .. i_size
    BY DEF TypeOK
  <2>. QED BY <1>1, <2>2, <2>3 DEF StreamInv
<1>3. o_ptr'["r"] = Pos(off, n) /\ o_ptr'["w"] = o_ptr["w"]
  <2>1. o_ptr \in [Ends -> 0 .. RING - 1] /\ "r" \in Ends /\ "w" \in Ends
    BY DEF TypeOK, Ends
  <2>2. o_ptr' = [o_ptr EXCEPT !["r"] = Pos(off, n)]
    BY <1>1, <1>2
  <2>. QED BY <2>1, <2>2
<1>4. inOrder'
  <2>1. inOrder BY <1>2 DEF StreamInv
  <2>2. \A k \in 0 .. n - 1 : cell[Pos(off, k)] = got + 1 + k
    BY <1>2 DEF StreamInv
  <2>. QED BY Zenon, <1>1, <2>1, <2>2
<1>5. o_ptr'["w"] = Pos(o_ptr'["r"], i_size')
  BY <1>1, <1>2, <1>3, PosAdds
<1>6. ASSUME NEW k \in 0 .. i_size' - 1 PROVE cell'[Pos(o_ptr'["r"], k)] = got' + 1 + k
  <2>2. n + k \in 0 .. i_size - 1 /\ k \in Nat /\ n \in Nat /\ n + k < RING + 1
    <3>1. i_size' = i_size - n /\ i_size' \in 0 .. Room /\ i_size \in 0 .. Room /\ n \in Nat
      BY <1>1, <1>2
    <3>. QED BY <1>6, <3>1
  <2>1. Pos(o_ptr'["r"], k) = Pos(off, n + k)
    BY <1>3, <2>2, PosAdds
  <2>3. cell[Pos(off, n + k)] = got + 1 + (n + k)
    BY <1>2, <2>2 DEF StreamInv
  <2>. QED BY <1>1, <2>1, <2>2, <2>3 DEF TypeOK
<1>. QED BY <1>4, <1>5, <1>6 DEF StreamInv

LEMMA CallStream ==
    ASSUME TypeOK, StreamInv, NEW p \in Procs, NEW e \in Ends, NEW count \in Nat,
           NEW off \in 0 .. RING - 1, CallStep(p, e, count, off)
    PROVE  StreamInv'
<1>1. CASE Transfer(p, e, count, off)
  <2>1. CASE e = "w"
    BY <1>1, <2>1, PutStream DEF Transfer, Ready
  <2>2. CASE e # "w"
    <3>1. Smaller(count, i_size) \in 0 .. i_size
      BY DEF Smaller, TypeOK
    <3>. QED BY <1>1, <2>2, <3>1, TakeStream DEF Transfer
  <2>. QED BY <2>1, <2>2
<1>2. CASE OtherEndGone(p, e, count, off)
  BY <1>2 DEF OtherEndGone, StreamInv, TypeOK
<1>3. CASE Sleep(p, e, count, off)
  BY <1>3 DEF Sleep, StreamInv, ring
<1>. QED BY <1>1, <1>2, <1>3 DEF CallStep

LEMMA NextStream == TypeOK /\ StreamInv /\ [Next]_vars => StreamInv'
<1>. SUFFICES ASSUME TypeOK, StreamInv, [Next]_vars PROVE StreamInv' OBVIOUS
<1>0. UNCHANGED ring => StreamInv'
  BY DEF ring, StreamInv
<1>1. ASSUME NEW p \in Procs, NEW e \in Ends, NEW count \in Counts, Call(p, e, count)
      PROVE  StreamInv'
  <2>1. CallStep(p, e, count, o_ptr[e]) /\ o_ptr[e] \in 0 .. RING - 1 /\ count \in Nat
    BY <1>1 DEF Call, CallStep, TypeOK
  <2>. QED BY <2>1, CallStream
<1>2. ASSUME NEW p \in Procs, Resume(p) PROVE StreamInv'
  <2>1. /\ call[p].end \in Ends /\ call[p].count \in Nat
        /\ call[p].offset \in 0 .. RING - 1
    <3>1. /\ call[p].end \in Ends /\ call[p].count \in Counts \cup {0}
          /\ call[p].offset \in 0 .. RING - 1
      BY DEF TypeOK
    <3>. QED BY <3>1, CountIsNat
  <2>2. \/ CallStep(p, call[p].end, call[p].count, call[p].offset)
        \/ UNCHANGED ring
    BY <1>2 DEF Resume, CallStep, DieAsleep, Leave
  <2>. QED BY <1>0, <2>1, <2>2, CallStream
<1>3. ASSUME NEW p \in Procs,
             \/ \E e \in Ends : Close(p, e)
             \/ \E q \in Procs : Fork(p, q)
             \/ Exit(p) \/ Signal(p)
      PROVE  StreamInv'
  BY <1>0, <1>3 DEF Close, Fork, Exit, Leave, Signal
<1>4. CASE UNCHANGED vars
  BY <1>0, <1>4 DEF vars
<1>. QED BY <1>1, <1>2, <1>3, <1>4 DEF Next

\* A clean stream is read as it was written, whatever fails and however often it wraps.
THEOREM StreamRight == Spec => []InOrder
<1>1. Init => StreamInv
  <2>1. Init => Pos(0, 0) = 0
    BY RingSize DEF Pos
  <2>. QED BY <2>1 DEF Init, StreamInv, Ends
<1>2. StreamInv => InOrder
  BY DEF StreamInv, InOrder
<1>. QED BY <1>1, <1>2, NextStream, PipeTypeCorrect, PTL DEF Spec
=============================================================================
