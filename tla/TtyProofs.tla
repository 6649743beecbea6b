----------------------------- MODULE TtyProofs -----------------------------
(***************************************************************************)
(* Proofs about Tty, for any processes and any size of the queue.          *)
(***************************************************************************)
EXTENDS Tty, TLAPS

USE TtyAssumption

QueueOK == ttyinbuf \in [0 .. TTYSIZ - 1 -> Chars] /\ RingShape

\* The positions of the queue are in the buffer, and different ones are apart.
LEMMA PlaceInBuffer ==
    ASSUME QueueOK, NEW k \in 1 .. q_count
    PROVE  /\ Place(k) \in 0 .. TTYSIZ - 1
           /\ \A m \in 1 .. q_count : Place(m) = Place(k) => m = k
           /\ q_count < TTYSIZ => Place(k) # q_tail
BY DEF QueueOK, RingShape, Place

\* What each operation of the queue does to the characters in it.
LEMMA InsqContents ==
    ASSUME QueueOK, NEW c \in Chars, Insq(c), q_count < TTYSIZ
    PROVE  /\ QueueOK' /\ q_count' = q_count + 1
           /\ \A k \in 1 .. q_count : ttyinbuf'[Place(k)'] = ttyinbuf[Place(k)]
           /\ \A k \in {q_count + 1} : ttyinbuf'[Place(k)'] = c
<1>1. /\ ttyinbuf' = [ttyinbuf EXCEPT ![q_tail] = c]
      /\ q_count' = q_count + 1 /\ q_tail' = Succ(q_tail) /\ q_head' = q_head
  BY DEF Insq, QueueOK, RingShape
<1>2. QueueOK'
  BY <1>1 DEF QueueOK, RingShape, Succ
<1>3. ASSUME NEW k \in 1 .. q_count PROVE ttyinbuf'[Place(k)'] = ttyinbuf[Place(k)]
  <2>1. Place(k)' = Place(k)
    BY <1>1 DEF Place
  <2>2. Place(k) # q_tail /\ Place(k) \in 0 .. TTYSIZ - 1
    BY PlaceInBuffer
  <2>. QED BY <1>1, <2>1, <2>2 DEF QueueOK
<1>4. ASSUME NEW k \in {q_count + 1} PROVE ttyinbuf'[Place(k)'] = c
  <2>1. Place(k)' = q_tail /\ q_tail \in 0 .. TTYSIZ - 1
    BY <1>1 DEF Place, QueueOK, RingShape
  <2>. QED BY <1>1, <2>1 DEF QueueOK
<1>. QED BY <1>1, <1>2, <1>3, <1>4

LEMMA InsqFull ==
    ASSUME QueueOK, NEW c, Insq(c), ~(q_count < TTYSIZ) PROVE UNCHANGED queue
BY DEF Insq, QueueOK, RingShape

LEMMA RemqContents ==
    ASSUME QueueOK, Remq
    PROVE  /\ QueueOK' /\ q_count' = q_count - 1 /\ q_count \in 1 .. TTYSIZ
           /\ \A k \in 1 .. q_count' : ttyinbuf'[Place(k)'] = ttyinbuf[Place(k + 1)]
<1>1. /\ q_count # 0 /\ q_count' = q_count - 1 /\ q_head' = Succ(q_head)
      /\ ttyinbuf' = ttyinbuf /\ q_tail' = q_tail
  BY DEF Remq
<1>2. QueueOK' /\ q_count \in 1 .. TTYSIZ
  BY <1>1 DEF QueueOK, RingShape, Succ
<1>3. ASSUME NEW k \in 1 .. q_count' PROVE Place(k)' = Place(k + 1)
  BY <1>1 DEF Place, QueueOK, RingShape, Succ
<1>. QED BY <1>1, <1>2, <1>3

LEMMA UninsqContents ==
    ASSUME QueueOK, Uninsq
    PROVE  /\ QueueOK' /\ q_count' = q_count - 1 /\ q_count \in 1 .. TTYSIZ
           /\ \A k \in 1 .. q_count' : ttyinbuf'[Place(k)'] = ttyinbuf[Place(k)]
<1>1. /\ q_count # 0 /\ q_count' = q_count - 1 /\ q_tail' = Pred(q_tail)
      /\ ttyinbuf' = ttyinbuf /\ q_head' = q_head
  BY DEF Uninsq
<1>2. QueueOK' /\ q_count \in 1 .. TTYSIZ
  BY <1>1 DEF QueueOK, RingShape, Pred
<1>. QED BY <1>1, <1>2 DEF Place

LEMMA ClrqContents == ASSUME QueueOK, Clrq PROVE QueueOK' /\ q_count' = 0
BY DEF QueueOK, RingShape, Clrq

\* Each operation of the queue in the ring is one of the abstract queue.
LEMMA QueueSteps ==
    ASSUME QueueOK,
           \/ \E c \in Chars : Insq(c)
           \/ Remq \/ Uninsq \/ Clrq \/ UNCHANGED queue
    PROVE  /\ QueueOK'
           /\ [Line!Insert \/ Line!Remove \/ Line!Erase \/ Line!Clear]_Contents
<1>. DEFINE old == Contents
            new == Contents'
<1>0. /\ old = [k \in 1 .. q_count |-> ttyinbuf[Place(k)]]
      /\ new = [k \in 1 .. q_count' |-> ttyinbuf'[Place(k)']]
      /\ q_count \in 0 .. TTYSIZ
  BY DEF Contents, QueueOK, RingShape
<1>1. old \in Seq(Chars) /\ Len(old) = q_count
  <2>1. \A k \in 1 .. q_count : ttyinbuf[Place(k)] \in Chars
    BY PlaceInBuffer DEF QueueOK
  <2>. HIDE DEF old
  <2>. QED BY <1>0, <2>1
<1>2. CASE UNCHANGED queue
  <2>1. new = old
    BY <1>2 DEF queue, Contents, Place
  <2>. QED BY <1>2, <2>1 DEF queue, QueueOK, RingShape
<1>3. ASSUME NEW c \in Chars, Insq(c), q_count < TTYSIZ
      PROVE  QueueOK' /\ Line!Insert
  <2>1. /\ QueueOK' /\ q_count' = q_count + 1
        /\ \A k \in 1 .. q_count : ttyinbuf'[Place(k)'] = ttyinbuf[Place(k)]
        /\ \A k \in {q_count + 1} : ttyinbuf'[Place(k)'] = c
    BY <1>3, InsqContents
  <2>. HIDE DEF old, new
  <2>2. \A k \in 1 .. q_count + 1 : new[k] = IF k <= q_count THEN old[k] ELSE c
    BY <1>0, <2>1
  <2>3. new = Append(old, c)
    <3>1. Append(old, c) = [k \in 1 .. q_count + 1 |-> IF k <= q_count THEN old[k] ELSE c]
      BY <1>0, <1>1
    <3>. QED BY <1>0, <2>1, <2>2, <3>1
  <2>. QED BY <1>1, <1>3, <2>1, <2>3 DEF Line!Insert, old, new
<1>4. CASE Remq
  <2>1. /\ QueueOK' /\ q_count' = q_count - 1 /\ q_count \in 1 .. TTYSIZ
        /\ \A k \in 1 .. q_count' : ttyinbuf'[Place(k)'] = ttyinbuf[Place(k + 1)]
    BY <1>4, RemqContents
  <2>. HIDE DEF old, new
  <2>2. old # <<>> /\ new = Tail(old)
    BY <1>0, <1>1, <2>1
  <2>. QED BY <2>1, <2>2 DEF Line!Remove, old, new
<1>5. CASE Uninsq
  <2>1. /\ QueueOK' /\ q_count' = q_count - 1 /\ q_count \in 1 .. TTYSIZ
        /\ \A k \in 1 .. q_count' : ttyinbuf'[Place(k)'] = ttyinbuf[Place(k)]
    BY <1>5, UninsqContents
  <2>. HIDE DEF old, new
  <2>2. old # <<>> /\ new = SubSeq(old, 1, Len(old) - 1)
    BY <1>0, <1>1, <2>1
  <2>. QED BY <2>1, <2>2 DEF Line!Erase, old, new
<1>6. CASE Clrq
  <2>1. QueueOK' /\ q_count' = 0
    BY <1>6, ClrqContents
  <2>. HIDE DEF new
  <2>2. new = <<>>
    BY <1>0, <2>1
  <2>. QED BY <2>1, <2>2 DEF Line!Clear, new
<1>7. ASSUME NEW c \in Chars, Insq(c), ~(q_count < TTYSIZ) PROVE UNCHANGED queue
  BY <1>7, InsqFull
<1>. QED BY <1>2, <1>3, <1>4, <1>5, <1>6, <1>7
----------------------------------------------------------------------------
\* What a step does to the queue: one operation of it, or nothing.
LEMMA NextMovesQueue ==
    ASSUME TypeOK, Next
    PROVE  \/ \E c \in Chars : Insq(c)
           \/ Remq \/ Uninsq \/ Clrq \/ UNCHANGED queue
<1>. USE DEF queue
<1>1. ASSUME NEW p \in Procs, NEW n \in Counts, Read(p, n) \/ Write(p, n)
      PROVE  UNCHANGED queue
  BY <1>1 DEF Read, Write
<1>2. ASSUME NEW p \in Procs, NEW m \in Modes, Ioctl(p, m) PROVE UNCHANGED queue
  BY <1>2 DEF Ioctl
<1>3. ASSUME NEW p \in Procs,
             \/ ReadEnough(p) \/ ReadEmpty(p) \/ ReadNoKey(p) \/ ReadMark(p) \/ ReadSleep(p)
             \/ ReadBroken(p) \/ ReadWoken(p) \/ ReadStore(p)
             \/ WriteDone(p) \/ WriteChar(p) \/ WriteSleep(p) \/ WriteWoken(p)
             \/ Preempt(p) \/ Dispatch(p) \/ Signal(p)
      PROVE  UNCHANGED queue
  BY <1>3 DEF ReadEnough, ReadEmpty, ReadNoKey, ReadMark, ReadSleep, ReadBroken,
              ReadWoken, ReadStore, WriteDone, WriteChar, WriteSleep, WriteWoken,
              Preempt, Dispatch, Signal
<1>4. ASSUME NEW p \in Procs, ReadRemq(p) PROVE Remq
  BY <1>4 DEF ReadRemq
<1>5. ASSUME NEW c \in Chars, KeyRaw(c) \/ KeyCooked(c) PROVE Insq(c)
  BY <1>5 DEF KeyRaw, KeyCooked
<1>6. CtrlCSignals \/ CtrlCWakes => Clrq
  BY DEF CtrlCSignals, CtrlCWakes
<1>7. CtrlS \/ CtrlQ => UNCHANGED queue
  BY DEF CtrlS, CtrlQ
<1>8. Backspace => Uninsq \/ UNCHANGED queue
  BY DEF Backspace
<1>. QED BY Zenon, <1>1, <1>2, <1>3, <1>4, <1>5, <1>6, <1>7, <1>8 DEF Next

LEMMA PsleepType ==
    ASSUME TypeOK, NEW p \in Procs, NEW place \in Reading \cup Writing, Psleep(p, place)
    PROVE  /\ status' \in [Procs -> {"READY", "RUNNING", "SLEEP", "ZOMBIE"}]
           /\ pc' \in [Procs -> {"user"} \cup Reading \cup Writing]
           /\ intr' \in [Procs -> BOOLEAN] /\ halted' \in BOOLEAN
<1>1. CASE ~pending[p]
  <2>1. intr' = [intr EXCEPT ![p] = FALSE] /\ intr \in [Procs -> BOOLEAN]
    BY Zenon, <1>1 DEF TypeOK, Psleep
  <2>2. intr' \in [Procs -> BOOLEAN]
    BY Zenon, <2>1
  <2>3. /\ status' = [status EXCEPT ![p] = "SLEEP"] /\ pc' = [pc EXCEPT ![p] = place]
        /\ halted' = halted
    BY <1>1 DEF Psleep
  <2>. QED BY <2>2, <2>3 DEF TypeOK
<1>2. CASE pending[p] /\ p \in Catchers
  BY <1>2 DEF TypeOK, Psleep
<1>3. CASE pending[p] /\ p \notin Catchers
  BY <1>3 DEF TypeOK, Psleep
<1>. QED BY <1>1, <1>2, <1>3

LEMMA ReturnType ==
    ASSUME TypeOK, NEW p \in Procs, NEW posted \in BOOLEAN, Return(p, posted)
    PROVE  /\ status' \in [Procs -> {"READY", "RUNNING", "SLEEP", "ZOMBIE"}]
           /\ pc' \in [Procs -> {"user"} \cup Reading \cup Writing]
           /\ pending' \in [Procs -> BOOLEAN] /\ intr' \in [Procs -> BOOLEAN]
           /\ want' \in [Procs -> Counts \cup {0}]
           /\ nread' \in [Procs -> Nat]
           /\ ch' \in [Procs -> Chars]
           /\ u_ptab' \in Procs
           /\ halted' \in BOOLEAN /\ overlap' \in BOOLEAN
           /\ raced' \subseteq Procs /\ freed' \subseteq Procs
<1>1. /\ status' \in [Procs -> {"READY", "RUNNING", "SLEEP", "ZOMBIE"}]
      /\ pc' \in [Procs -> {"user"} \cup Reading \cup Writing]
      /\ pending' \in [Procs -> BOOLEAN] /\ intr' \in [Procs -> BOOLEAN]
      /\ want' \in [Procs -> Counts \cup {0}]
      /\ nread' \in [Procs -> Nat]
  BY DEF TypeOK, Return
<1>2. /\ ch' \in [Procs -> Chars]
      /\ u_ptab' \in Procs
      /\ halted' \in BOOLEAN
      /\ raced' \subseteq Procs /\ freed' \subseteq Procs
  BY DEF TypeOK, Return, Chars
<1>3. overlap' \in BOOLEAN
  BY DEF TypeOK, Return
<1>. QED BY <1>1, <1>2, <1>3

LEMMA GotoType ==
    ASSUME TypeOK, NEW p \in Procs, NEW place \in {"user"} \cup Reading \cup Writing,
           Goto(p, place)
    PROVE  /\ status' \in [Procs -> {"READY", "RUNNING", "SLEEP", "ZOMBIE"}]
           /\ pc' \in [Procs -> {"user"} \cup Reading \cup Writing]
           /\ pending' \in [Procs -> BOOLEAN] /\ intr' \in [Procs -> BOOLEAN]
           /\ u_ptab' \in Procs /\ halted' \in BOOLEAN
BY DEF TypeOK, Goto, sigs

LEMMA AwokenType ==
    ASSUME TypeOK, NEW places
    PROVE  Awoken(places) \in [Procs -> {"READY", "RUNNING", "SLEEP", "ZOMBIE"}]
BY DEF TypeOK, Awoken

\* The calls of a process keep the types of everything but the queue.
LEMMA CallsType ==
    ASSUME TypeOK, QueueOK', NEW p \in Procs,
           \/ \E n \in Counts : Read(p, n) \/ Write(p, n)
           \/ ReadEnough(p) \/ ReadRemq(p) \/ ReadEmpty(p) \/ ReadNoKey(p)
           \/ ReadMark(p) \/ ReadSleep(p) \/ ReadBroken(p) \/ ReadWoken(p) \/ ReadStore(p)
           \/ WriteDone(p) \/ WriteChar(p) \/ WriteSleep(p) \/ WriteWoken(p)
           \/ \E m \in Modes : Ioctl(p, m)
    PROVE  TypeOK'
<1>. USE DEF QueueOK, queue, flags, call, sigs, histories
<1>0. /\ {"rtest", "rgot", "rnone", "rmark", "rsleep"} \subseteq Reading
      /\ {"wtest", "wsleep"} \subseteq Writing
  BY DEF Reading, Writing
<1>1. ASSUME NEW n \in Counts, Read(p, n) PROVE TypeOK'
  <2>1. Goto(p, "rtest") BY <1>1 DEF Read
  <2>. QED BY <1>0, <1>1, <2>1, GotoType DEF Read, TypeOK
<1>2. ASSUME NEW n \in Counts, Write(p, n) PROVE TypeOK'
  <2>1. Goto(p, "wtest") BY <1>2 DEF Write
  <2>. QED BY <1>0, <1>2, <2>1, GotoType DEF Write, TypeOK
<1>3. CASE ReadEnough(p) \/ ReadNoKey(p) \/ WriteDone(p) \/ \E m \in Modes : Ioctl(p, m)
  <2>1. Return(p, FALSE) BY <1>3 DEF ReadEnough, ReadNoKey, WriteDone, Ioctl
  <2>. QED BY <1>3, <2>1, ReturnType DEF ReadEnough, ReadNoKey, WriteDone, Ioctl, TypeOK
<1>4. CASE ReadRemq(p)
  <2>1. Goto(p, "rgot") /\ Remq BY <1>4 DEF ReadRemq
  <2>2. ttyinbuf[q_head] \in Chars BY DEF TypeOK, RingShape
  <2>. QED BY <1>0, <1>4, <2>1, <2>2, GotoType DEF ReadRemq, TypeOK
<1>5. CASE ReadEmpty(p) \/ ReadMark(p)
  <2>1. Goto(p, "rnone") \/ Goto(p, "rmark") BY <1>5 DEF ReadEmpty, ReadMark
  <2>. QED BY <1>0, <1>5, <2>1, GotoType DEF ReadEmpty, ReadMark, TypeOK
<1>6. CASE ReadSleep(p)
  <2>1. Psleep(p, "rsleep") BY <1>6 DEF ReadSleep
  <2>. QED BY <1>0, <1>6, <2>1, PsleepType DEF ReadSleep, TypeOK
<1>7. CASE ReadBroken(p)
  <2>1. Return(p, TRUE) BY <1>7 DEF ReadBroken
  <2>. QED BY <1>7, <2>1, ReturnType DEF ReadBroken, TypeOK
<1>8. CASE ReadWoken(p)
  <2>1. CASE Return(p, FALSE) BY <1>8, <2>1, ReturnType DEF ReadWoken, TypeOK
  <2>2. CASE Goto(p, "rtest") /\ UNCHANGED <<want, nread, ch, freed, overlap>>
             /\ raced' = raced \ {p}
    BY <1>0, <1>8, <2>2, GotoType DEF ReadWoken, TypeOK
  <2>. QED BY <1>8, <2>1, <2>2 DEF ReadWoken
<1>9. CASE ReadStore(p)
  <2>1. CASE Return(p, FALSE) BY <1>9, <2>1, ReturnType DEF ReadStore, TypeOK
  <2>2. CASE /\ Goto(p, "rtest") /\ UNCHANGED <<want, histories>>
             /\ nread' = [nread EXCEPT ![p] = @ + 1] /\ ch' = [ch EXCEPT ![p] = "x"]
    <3>1. ch' \in [Procs -> Chars] BY <2>2 DEF TypeOK, Chars
    <3>. QED BY <1>0, <1>9, <2>2, <3>1, GotoType DEF ReadStore, TypeOK
  <2>. QED BY <1>9, <2>1, <2>2 DEF ReadStore
<1>10. CASE WriteChar(p)
  <2>1. Goto(p, "wtest") BY <1>10 DEF WriteChar
  <2>. QED BY <1>0, <1>10, <2>1, GotoType DEF WriteChar, TypeOK
<1>11. CASE WriteSleep(p)
  <2>1. Psleep(p, "wsleep") BY <1>11 DEF WriteSleep
  <2>. QED BY <1>0, <1>11, <2>1, PsleepType DEF WriteSleep, TypeOK
<1>12. CASE WriteWoken(p)
  <2>1. CASE Return(p, FALSE) BY <1>12, <2>1, ReturnType DEF WriteWoken, TypeOK
  <2>2. CASE Goto(p, "wtest") /\ UNCHANGED <<want, nread, ch, raced, overlap>>
             /\ freed' = freed \ {p}
    BY <1>0, <1>12, <2>2, GotoType DEF WriteWoken, TypeOK
  <2>. QED BY <1>12, <2>1, <2>2 DEF WriteWoken
<1>. QED BY <1>1, <1>2, <1>3, <1>4, <1>5, <1>6, <1>7, <1>8, <1>9, <1>10, <1>11, <1>12

\* So do the keys, the scheduler and a signal.
LEMMA KeysType ==
    ASSUME TypeOK, QueueOK',
           \/ \E p \in Procs : Preempt(p) \/ Dispatch(p) \/ Signal(p)
           \/ \E c \in Chars : KeyRaw(c) \/ KeyCooked(c)
           \/ CtrlCSignals \/ CtrlCWakes \/ CtrlS \/ CtrlQ \/ Backspace
    PROVE  TypeOK'
<1>. USE DEF QueueOK, queue, flags, call, sigs, histories
<1>1. WakeReaders =>
        /\ status' \in [Procs -> {"READY", "RUNNING", "SLEEP", "ZOMBIE"}]
        /\ raced' \subseteq Procs
  BY AwokenType DEF WakeReaders, TypeOK
<1>2. \A p \in Procs : Ssig(p) =>
        /\ status' \in [Procs -> {"READY", "RUNNING", "SLEEP", "ZOMBIE"}]
        /\ pending' \in [Procs -> BOOLEAN] /\ intr' \in [Procs -> BOOLEAN]
  BY DEF Ssig, TypeOK, Asleep
<1>3. \A places : Sleepers(places) \subseteq Procs
  BY DEF Sleepers
<1>4. CASE \E c \in Chars : KeyRaw(c) \/ KeyCooked(c)
  BY <1>1, <1>4 DEF KeyRaw, KeyCooked, Typed, TypeOK
<1>5. CASE CtrlCSignals \/ CtrlCWakes
  BY <1>1, <1>2, <1>3, <1>5 DEF CtrlCSignals, CtrlCWakes, Typed, TypeOK
<1>6. CASE CtrlS \/ CtrlQ
  BY <1>6, AwokenType DEF CtrlS, CtrlQ, Typed, TypeOK
<1>7. CASE Backspace
  BY <1>1, <1>7 DEF Backspace, Typed, TypeOK
<1>8. CASE \E p \in Procs : Preempt(p) \/ Dispatch(p) \/ Signal(p)
  BY <1>2, <1>8 DEF Preempt, Dispatch, Signal, TypeOK
<1>. QED BY <1>4, <1>5, <1>6, <1>7, <1>8

LEMMA InitType == Init => TypeOK
<1>. SUFFICES ASSUME Init PROVE TypeOK OBVIOUS
<1>1. \A f : f = [p \in Procs |-> FALSE] => f \in [Procs -> BOOLEAN]
  BY Zenon
<1>2. pending \in [Procs -> BOOLEAN] /\ intr \in [Procs -> BOOLEAN]
  BY <1>1 DEF Init
<1>3. ttyinbuf \in [0 .. TTYSIZ - 1 -> Chars] /\ ch \in [Procs -> Chars]
  BY DEF Init, Chars
<1>4. RingShape
  BY DEF Init, RingShape
<1>5. /\ status \in [Procs -> {"READY", "RUNNING", "SLEEP", "ZOMBIE"}]
      /\ pc \in [Procs -> {"user"} \cup Reading \cup Writing]
      /\ want \in [Procs -> Counts \cup {0}]
      /\ nread \in [Procs -> Nat]
  BY DEF Init
<1>6. /\ suspendflag \in BOOLEAN /\ ttysleep \in BOOLEAN /\ ctrlcp \in BOOLEAN
      /\ halted \in BOOLEAN /\ overlap \in BOOLEAN
  BY DEF Init
<1>7. /\ rawmode \in 0 .. 3 /\ u_ptab \in Procs
      /\ raced \subseteq Procs /\ freed \subseteq Procs
  BY DEF Init
<1>. QED BY <1>2, <1>3, <1>4, <1>5, <1>6, <1>7 DEF TypeOK

LEMMA NextType == TypeOK /\ [Next]_vars => TypeOK'
<1>1. ASSUME TypeOK, Next PROVE TypeOK'
  <2>1. QueueOK'
    BY <1>1, NextMovesQueue, QueueSteps DEF TypeOK, QueueOK
  <2>. QED BY <1>1, <2>1, CallsType, KeysType DEF Next
<1>2. TypeOK /\ UNCHANGED vars => TypeOK'
  BY DEF TypeOK, RingShape, vars, queue, flags, call, sigs, histories
<1>. QED BY <1>1, <1>2

\* Every variable of the terminal keeps its type, and the ring its shape.
THEOREM TtyTypeCorrect == Spec => []TypeOK
BY InitType, NextType, PTL DEF Spec

\* The ring implements the queue: what the terminal does with the characters
\* between the keyboard and the readers is insert, remove, erase and clear.
THEOREM TtyImplementsLine == Spec => LineSpec
<1>1. Init => Line!QueueInit
  BY DEF Init, Line!QueueInit, Contents
<1>2. TypeOK /\ [Next]_vars =>
        [Line!Insert \/ Line!Remove \/ Line!Erase \/ Line!Clear]_Contents
  <2>1. ASSUME TypeOK, [Next]_vars
        PROVE  [Line!Insert \/ Line!Remove \/ Line!Erase \/ Line!Clear]_Contents
    <3>1. \/ \E c \in Chars : Insq(c)
          \/ Remq \/ Uninsq \/ Clrq \/ UNCHANGED queue
      BY <2>1, NextMovesQueue DEF vars
    <3>. QED BY <2>1, <3>1, QueueSteps DEF TypeOK, QueueOK
  <2>. QED BY <2>1
<1>. QED BY <1>1, <1>2, TtyTypeCorrect, PTL DEF Spec, LineSpec, Line!QueueSpec
----------------------------------------------------------------------------
\* A line end is in the queue after a step only if it was there before, unless the
\* step is a key that puts it there.
LEMMA LineEndStays ==
    ASSUME QueueOK, Remq \/ Uninsq \/ Clrq \/ Insq("x") \/ UNCHANGED queue, HasLineEnd'
    PROVE  HasLineEnd
<1>1. PICK k \in 1 .. q_count' : ttyinbuf'[Place(k)'] \in {"nl", "eof"}
  BY DEF HasLineEnd
<1>2. CASE Remq
  BY <1>1, <1>2, RemqContents DEF HasLineEnd
<1>3. CASE Uninsq
  BY <1>1, <1>3, UninsqContents DEF HasLineEnd
<1>4. CASE Clrq
  BY <1>1, <1>4, ClrqContents
<1>5. CASE UNCHANGED queue
  BY <1>1, <1>5 DEF HasLineEnd, queue, Place
<1>6. CASE Insq("x")
  <2>1. CASE q_count < TTYSIZ
    <3>1. "x" \in Chars BY DEF Chars
    <3>. QED BY <1>1, <1>6, <2>1, <3>1, InsqContents DEF HasLineEnd, QueueOK, RingShape
  <2>2. CASE ~(q_count < TTYSIZ)
    BY <1>1, <1>6, <2>2, InsqFull DEF HasLineEnd, queue, Place
  <2>. QED BY <2>1, <2>2
<1>. QED BY <1>2, <1>3, <1>4, <1>5, <1>6

\* The readers that found the queue empty and have not left their sleep.  A reader
\* between remq and psleep runs: no key can find it waiting for a processor.
Drowsy == {p \in Procs : pc[p] \in {"rnone", "rmark"} \/ (Asleep(p) /\ pc[p] = "rsleep")}

ReadersInv ==
    /\ \A p \in Procs : pc[p] \in {"rnone", "rmark"} => status[p] = "RUNNING"
    /\ HasLineEnd => Drowsy \subseteq raced

\* A step of a process brings no line end; it sleeps only after it found none.
LEMMA CallsReaders ==
    ASSUME TypeOK, ReadersInv, HasLineEnd' => HasLineEnd, NEW p \in Procs,
           \/ \E n \in Counts : Read(p, n) \/ Write(p, n)
           \/ ReadEnough(p) \/ ReadRemq(p) \/ ReadEmpty(p) \/ ReadNoKey(p)
           \/ ReadMark(p) \/ ReadSleep(p) \/ ReadBroken(p) \/ ReadWoken(p) \/ ReadStore(p)
           \/ WriteDone(p) \/ WriteChar(p) \/ WriteSleep(p) \/ WriteWoken(p)
           \/ \E m \in Modes : Ioctl(p, m)
           \/ Preempt(p) \/ Dispatch(p) \/ Signal(p)
    PROVE  ReadersInv'
<1>. USE DEF Drowsy, Asleep, ReadersInv
<1>1. ASSUME NEW posted \in BOOLEAN, Return(p, posted), status[p] = "RUNNING" PROVE ReadersInv'
  BY <1>1 DEF TypeOK, Return
<1>2. ASSUME NEW place \in {"rtest", "rgot", "wtest"}, Goto(p, place),
             raced' = raced \/ raced' = raced \ {p}
      PROVE  ReadersInv'
  BY <1>2 DEF TypeOK, Goto
<1>3. ASSUME NEW n \in Counts, Read(p, n) \/ Write(p, n) PROVE ReadersInv'
  BY <1>2, <1>3 DEF Read, Write, histories
<1>4. CASE ReadEnough(p) \/ ReadNoKey(p) \/ WriteDone(p) \/ ReadBroken(p) \/ \E m \in Modes : Ioctl(p, m)
  <2>1. Return(p, TRUE) \/ Return(p, FALSE)
    BY <1>4 DEF ReadEnough, ReadNoKey, WriteDone, ReadBroken, Ioctl
  <2>2. status[p] = "RUNNING"
    BY <1>4 DEF ReadEnough, ReadNoKey, WriteDone, ReadBroken, Ioctl, Running
  <2>. QED BY <1>1, <2>1, <2>2
<1>5. CASE ReadRemq(p) \/ WriteChar(p)
  BY <1>2, <1>5 DEF ReadRemq, WriteChar, histories
<1>6. CASE ReadEmpty(p)
  <2>1. q_count' = 0 /\ ~HasLineEnd'
    BY <1>6 DEF ReadEmpty, queue, HasLineEnd
  <2>. QED BY <1>6, <2>1 DEF ReadEmpty, Goto, TypeOK, Running
<1>7. CASE ReadMark(p)
  BY <1>7 DEF ReadMark, Goto, TypeOK, Running, histories
<1>8. CASE ReadSleep(p)
  <2>1. Psleep(p, "rsleep") /\ pc[p] = "rmark" /\ status[p] = "RUNNING"
    BY <1>8 DEF ReadSleep, Running
  <2>2. raced' = IF pc'[p] \in Reading THEN raced ELSE raced \ {p}
    BY <1>8 DEF ReadSleep
  <2>3. "rsleep" \in Reading /\ "rmark" \in Reading /\ "user" \notin Reading
    BY DEF Reading
  <2>4. CASE status' = [status EXCEPT ![p] = "SLEEP"] /\ pc' = [pc EXCEPT ![p] = "rsleep"]
    BY <1>8, <2>1, <2>2, <2>3, <2>4 DEF ReadSleep, TypeOK, HasLineEnd, queue, Place
  <2>5. CASE UNCHANGED <<status, pc>>
    BY <1>8, <2>1, <2>2, <2>3, <2>5 DEF ReadSleep, TypeOK, HasLineEnd, queue, Place
  <2>6. CASE status' = [status EXCEPT ![p] = "ZOMBIE"] /\ pc' = [pc EXCEPT ![p] = "user"]
    BY <1>8, <2>1, <2>2, <2>3, <2>6 DEF ReadSleep, TypeOK, HasLineEnd, queue, Place
  <2>. QED BY <2>1, <2>4, <2>5, <2>6 DEF Psleep
<1>9. CASE ReadWoken(p)
  BY <1>1, <1>2, <1>9 DEF ReadWoken, Running
<1>10. CASE ReadStore(p)
  <2>1. status[p] = "RUNNING" BY <1>10 DEF ReadStore, Running
  <2>2. Return(p, FALSE) \/ (Goto(p, "rtest") /\ UNCHANGED histories)
    BY Zenon, <1>10 DEF ReadStore
  <2>. QED BY <1>1, <1>2, <2>1, <2>2 DEF histories
<1>11. CASE WriteSleep(p)
  <2>1. Psleep(p, "wsleep") /\ pc[p] = "wtest" /\ status[p] = "RUNNING" /\ raced' = raced
    BY <1>11 DEF WriteSleep, Running, histories
  <2>2. /\ \A q \in Procs \ {p} : pc'[q] = pc[q] /\ status'[q] = status[q]
        /\ pc'[p] \in {"wsleep", "wtest", "user"}
    BY <2>1 DEF Psleep, TypeOK
  <2>. QED BY <2>1, <2>2
<1>12. CASE WriteWoken(p)
  BY <1>1, <1>2, <1>12 DEF WriteWoken, Running, histories
<1>13. CASE Preempt(p) \/ Dispatch(p)
  BY <1>13 DEF Preempt, Dispatch, TypeOK, Running, call, histories
<1>14. CASE Signal(p)
  BY <1>14 DEF Signal, Ssig, TypeOK, call, histories
<1>. QED BY Zenon, <1>3, <1>4, <1>5, <1>6, <1>7, <1>8, <1>9, <1>10, <1>11, <1>12, <1>13, <1>14

\* A key that may leave a line end in the queue wakes the readers.
LEMMA KeysReaders ==
    ASSUME TypeOK, ReadersInv,
           \/ \E c \in Chars : KeyRaw(c) \/ KeyCooked(c)
           \/ CtrlCSignals \/ CtrlCWakes \/ CtrlS \/ CtrlQ \/ Backspace
    PROVE  ReadersInv'
<1>. USE DEF Drowsy, Asleep, ReadersInv
<1>1. ASSUME WakeReaders, UNCHANGED call PROVE ReadersInv'
  BY <1>1 DEF WakeReaders, Awoken, Sleepers, call, TypeOK
<1>2. ASSUME HasLineEnd' => HasLineEnd, UNCHANGED call,
             \A p \in Procs : status'[p] = status[p] \/ (Asleep(p) /\ status'[p] = "READY"),
             raced' = raced
      PROVE  ReadersInv'
  BY <1>2 DEF call, TypeOK
<1>3. CASE CtrlCSignals \/ CtrlS \/ CtrlQ
  <2>1. HasLineEnd' => HasLineEnd
    BY <1>3, LineEndStays DEF CtrlCSignals, CtrlS, CtrlQ, TypeOK, QueueOK
  <2>2. UNCHANGED call /\ raced' = raced
    BY <1>3 DEF CtrlCSignals, CtrlS, CtrlQ, Typed
  <2>3. \A p \in Procs : status'[p] = status[p] \/ (Asleep(p) /\ status'[p] = "READY")
    BY <1>3 DEF CtrlCSignals, CtrlS, CtrlQ, Ssig, Awoken, Sleepers, TypeOK
  <2>. QED BY <1>2, <2>1, <2>2, <2>3
<1>4. CASE Backspace
  <2>1. CASE WakeReaders
    BY <1>1, <1>4, <2>1 DEF Backspace, Typed
  <2>2. CASE (Uninsq \/ UNCHANGED queue) /\ UNCHANGED <<status, raced>>
    BY <1>2, <1>4, <2>2, LineEndStays DEF Backspace, Typed, TypeOK, QueueOK
  <2>. QED BY <1>4, <2>1, <2>2 DEF Backspace
<1>5. ASSUME NEW c \in Chars, KeyCooked(c) PROVE ReadersInv'
  <2>1. CASE EndsLine(c)
    BY <1>1, <1>5, <2>1 DEF KeyCooked, Typed
  <2>2. CASE ~EndsLine(c)
    BY <1>2, <1>5, <2>2, LineEndStays DEF KeyCooked, Typed, EndsLine, Chars, TypeOK, QueueOK
  <2>. QED BY <2>1, <2>2
<1>6. CASE CtrlCWakes \/ \E c \in Chars : KeyRaw(c)
  BY <1>1, <1>6 DEF CtrlCWakes, KeyRaw, Typed
<1>. QED BY Zenon, <1>3, <1>4, <1>5, <1>6

LEMMA NextReaders == TypeOK /\ ReadersInv /\ [Next]_vars => ReadersInv'
<1>1. ASSUME TypeOK, ReadersInv, NEW p \in Procs, NEW n \in Counts, Read(p, n) \/ Write(p, n)
      PROVE  ReadersInv'
  <2>1. HasLineEnd' => HasLineEnd
    BY <1>1, LineEndStays DEF Read, Write, TypeOK, QueueOK
  <2>. QED BY Zenon, <1>1, <2>1, CallsReaders
<1>2. ASSUME TypeOK, ReadersInv, NEW p \in Procs,
             \/ ReadEnough(p) \/ ReadRemq(p) \/ ReadEmpty(p) \/ ReadNoKey(p)
             \/ ReadMark(p) \/ ReadSleep(p) \/ ReadBroken(p) \/ ReadWoken(p) \/ ReadStore(p)
             \/ WriteDone(p) \/ WriteChar(p) \/ WriteSleep(p) \/ WriteWoken(p)
             \/ \E m \in Modes : Ioctl(p, m)
             \/ Preempt(p) \/ Dispatch(p) \/ Signal(p)
      PROVE  ReadersInv'
  <2>1. Remq \/ UNCHANGED queue
    BY <1>2 DEF ReadEnough, ReadRemq, ReadEmpty, ReadNoKey, ReadMark, ReadSleep, ReadBroken,
                ReadWoken, ReadStore, WriteDone, WriteChar, WriteSleep, WriteWoken, Ioctl,
                Preempt, Dispatch, Signal
  <2>2. HasLineEnd' => HasLineEnd
    BY <1>2, <2>1, LineEndStays DEF TypeOK, QueueOK
  <2>. QED BY Zenon, <1>2, <2>2, CallsReaders
<1>3. TypeOK /\ ReadersInv /\ UNCHANGED vars => ReadersInv'
  BY DEF ReadersInv, Drowsy, Asleep, HasLineEnd, Place, vars, queue, call, histories
<1>. QED BY Zenon, <1>1, <1>2, <1>3, KeysReaders DEF Next

\* A reader that the wakeup did not miss never sleeps while a line is complete.
THEOREM ReadersServed == Spec => []ReaderAsleepForCause
<1>1. Init => ReadersInv
  BY DEF Init, ReadersInv, HasLineEnd
<1>2. ReadersInv => ReaderAsleepForCause
  BY DEF ReadersInv, ReaderAsleepForCause, Drowsy, Sleepers
<1>. QED BY <1>1, <1>2, NextReaders, TtyTypeCorrect, PTL DEF Spec
----------------------------------------------------------------------------
\* A writer goes to sleep while output is suspended, and is noted if it is left behind.
LEMMA NextWriters == TypeOK /\ WriterAsleepForCause /\ [Next]_vars => WriterAsleepForCause'
<1>. DEFINE Lying(p) == status[p] = "SLEEP" /\ pc[p] = "wsleep"
<1>0. WriterAsleepForCause <=> \A p \in Procs : Lying(p) => suspendflag \/ p \in freed
  BY DEF WriterAsleepForCause, Sleepers, Asleep
<1>1. WriterAsleepForCause' <=> \A p \in Procs : Lying(p)' => suspendflag' \/ p \in freed'
  BY DEF WriterAsleepForCause, Sleepers, Asleep
<1>. SUFFICES ASSUME TypeOK, WriterAsleepForCause, [Next]_vars,
                     NEW q \in Procs, Lying(q)'
              PROVE  suspendflag' \/ q \in freed'
  BY <1>1
<1>2. ASSUME NEW p \in Procs, UNCHANGED suspendflag,
             \/ \E posted \in BOOLEAN : Return(p, posted)
             \/ /\ \E place \in {"rtest", "rgot", "rnone", "rmark", "wtest"} : Goto(p, place)
                /\ freed' = freed \/ (freed' = freed \ {p} /\ pc[p] = "wsleep"),
             status[p] = "RUNNING"
      PROVE  suspendflag' \/ q \in freed'
  BY <1>0, <1>2 DEF TypeOK, Return, Goto
<1>3. ASSUME NEW p \in Procs, NEW n \in Counts, Read(p, n) \/ Write(p, n)
      PROVE  suspendflag' \/ q \in freed'
  BY <1>2, <1>3 DEF Read, Write, Running, flags, histories
<1>4. ASSUME NEW p \in Procs,
             \/ ReadEnough(p) \/ ReadNoKey(p) \/ WriteDone(p) \/ ReadBroken(p)
             \/ \E m \in Modes : Ioctl(p, m)
      PROVE  suspendflag' \/ q \in freed'
  <2>1. (Return(p, TRUE) \/ Return(p, FALSE)) /\ status[p] = "RUNNING" /\ UNCHANGED suspendflag
    BY <1>4 DEF ReadEnough, ReadNoKey, WriteDone, ReadBroken, Ioctl, Running, flags
  <2>. QED BY <1>2, <2>1
<1>5. ASSUME NEW p \in Procs, ReadRemq(p) \/ ReadEmpty(p) \/ ReadMark(p) \/ WriteChar(p)
      PROVE  suspendflag' \/ q \in freed'
  BY <1>2, <1>5 DEF ReadRemq, ReadEmpty, ReadMark, WriteChar, Running, flags, histories
<1>6. ASSUME NEW p \in Procs, ReadWoken(p) \/ ReadStore(p) \/ WriteWoken(p)
      PROVE  suspendflag' \/ q \in freed'
  <2>1. status[p] = "RUNNING" /\ UNCHANGED suspendflag
    BY <1>6 DEF ReadWoken, ReadStore, WriteWoken, Running, flags
  <2>2. \/ Return(p, FALSE)
        \/ Goto(p, "rtest") /\ freed' = freed
        \/ Goto(p, "wtest") /\ freed' = freed \ {p} /\ pc[p] = "wsleep"
    BY Zenon, <1>6 DEF ReadWoken, ReadStore, WriteWoken, histories
  <2>. QED BY <1>2, <2>1, <2>2
<1>7. ASSUME NEW p \in Procs, ReadSleep(p) \/ WriteSleep(p)
      PROVE  suspendflag' \/ q \in freed'
  <2>1. /\ Psleep(p, "rsleep") \/ (Psleep(p, "wsleep") /\ suspendflag)
        /\ freed' = freed /\ suspendflag' = suspendflag
    BY Zenon, <1>7 DEF ReadSleep, WriteSleep, flags, histories
  <2>2. CASE q # p
    BY <1>0, <2>1, <2>2 DEF Psleep, TypeOK
  <2>3. CASE q = p
    BY <1>0, <1>7, <2>1, <2>3 DEF Psleep, TypeOK, ReadSleep, WriteSleep
  <2>. QED BY <2>2, <2>3
<1>8. ASSUME NEW p \in Procs, Preempt(p) \/ Dispatch(p) \/ Signal(p)
      PROVE  suspendflag' \/ q \in freed'
  <2>1. pc' = pc /\ freed' = freed /\ suspendflag' = suspendflag
    BY <1>8 DEF Preempt, Dispatch, Signal, call, flags, histories
  <2>2. status'[q] # "SLEEP" \/ status'[q] = status[q]
    BY <1>8 DEF Preempt, Dispatch, Signal, Ssig, TypeOK
  <2>. QED BY <1>0, <2>1, <2>2
<1>9. ASSUME NEW c \in Chars, KeyRaw(c) \/ KeyCooked(c) PROVE suspendflag' \/ q \in freed'
  <2>1. pc' = pc /\ freed' = freed /\ suspendflag' = suspendflag
    BY <1>9 DEF KeyRaw, KeyCooked, Typed, call, flags
  <2>2. status'[q] # "SLEEP" \/ status'[q] = status[q]
    BY <1>9 DEF KeyRaw, KeyCooked, WakeReaders, Awoken
  <2>. QED BY <1>0, <2>1, <2>2
<1>10. CASE CtrlCSignals \/ CtrlCWakes
  <2>1. pc' = pc /\ freed' = freed \cup Sleepers({"wsleep"})
    BY <1>10 DEF CtrlCSignals, CtrlCWakes, Typed, call
  <2>2. status'[q] # "SLEEP" \/ status'[q] = status[q]
    BY <1>10 DEF CtrlCSignals, CtrlCWakes, WakeReaders, Awoken, Ssig, TypeOK
  <2>. QED BY <2>1, <2>2 DEF Sleepers, Asleep
<1>11. CASE CtrlS \/ CtrlQ
  BY <1>11 DEF CtrlS, CtrlQ, Typed, call, Awoken, Sleepers, Asleep
<1>12. CASE Backspace
  <2>1. pc' = pc /\ freed' = freed /\ suspendflag' = suspendflag
    BY <1>12 DEF Backspace, Typed, call, flags
  <2>2. status'[q] # "SLEEP" \/ status'[q] = status[q]
    BY <1>12 DEF Backspace, WakeReaders, Awoken
  <2>. QED BY <1>0, <2>1, <2>2
<1>13. CASE UNCHANGED vars
  BY <1>0, <1>13 DEF vars, flags, call, histories
<1>. QED BY Zenon, <1>3, <1>4, <1>5, <1>6, <1>7, <1>8, <1>9, <1>10, <1>11, <1>12, <1>13 DEF Next

\* No writer sleeps for nothing, except those that ^C leaves behind.
THEOREM WritersServed == Spec => []WriterAsleepForCause
<1>1. Init => WriterAsleepForCause
  BY DEF Init, WriterAsleepForCause, Sleepers, Asleep
<1>. QED BY <1>1, NextWriters, TtyTypeCorrect, PTL DEF Spec

----------------------------------------------------------------------------
\* While reads do not overlap there is one reader, and it has set ttysleep when it
\* sleeps or is about to.
OneReader ==
    ~overlap =>
        /\ \A p, q \in Procs : pc[p] \in Reading /\ pc[q] \in Reading => p = q
        /\ \A p \in Procs : pc[p] \in {"rmark", "rsleep"} => ttysleep

LEMMA NextOneReader == TypeOK /\ OneReader /\ [Next]_vars => OneReader'
<1>. SUFFICES ASSUME TypeOK, OneReader, [Next]_vars PROVE OneReader' OBVIOUS
<1>. USE DEF OneReader
<1>0. /\ {"rtest", "rgot", "rnone", "rmark", "rsleep"} = Reading
      /\ "user" \notin Reading /\ "wtest" \notin Reading /\ "wsleep" \notin Reading
  BY DEF Reading
<1>1. ASSUME NEW p \in Procs, NEW posted \in BOOLEAN, Return(p, posted), UNCHANGED ttysleep
      PROVE  OneReader'
  BY <1>0, <1>1 DEF TypeOK, Return
<1>2. ASSUME NEW p \in Procs, Return(p, FALSE), pc[p] = "rsleep" PROVE OneReader'
  BY <1>0, <1>2 DEF TypeOK, Return
<1>3. ASSUME NEW p \in Procs, NEW place \in {"rtest", "rgot", "rnone", "rmark", "wtest"},
             Goto(p, place), overlap' = overlap,
             place = "wtest" \/ pc[p] \in Reading,
             IF place = "rmark" THEN ttysleep' = TRUE
             ELSE ttysleep' = ttysleep \/ pc[p] = "rsleep"
      PROVE  OneReader'
  BY <1>0, <1>3 DEF TypeOK, Goto
<1>4. ASSUME NEW p \in Procs, NEW n \in Counts, Read(p, n) PROVE OneReader'
  BY <1>0, <1>4 DEF Read, Goto, TypeOK, flags
<1>5. ASSUME NEW p \in Procs, NEW n \in Counts, Write(p, n) PROVE OneReader'
  BY <1>3, <1>5 DEF Write, flags, histories
<1>6. ASSUME NEW p \in Procs,
             \/ ReadEnough(p) \/ ReadNoKey(p) \/ WriteDone(p) \/ ReadBroken(p)
             \/ \E m \in Modes : Ioctl(p, m)
      PROVE  OneReader'
  <2>1. (Return(p, TRUE) \/ Return(p, FALSE)) /\ UNCHANGED ttysleep
    BY <1>6 DEF ReadEnough, ReadNoKey, WriteDone, ReadBroken, Ioctl, flags
  <2>. QED BY <1>1, <2>1
<1>7. ASSUME NEW p \in Procs, ReadRemq(p) \/ ReadEmpty(p) \/ ReadMark(p) \/ WriteChar(p)
      PROVE  OneReader'
  BY <1>0, <1>3, <1>7 DEF ReadRemq, ReadEmpty, ReadMark, WriteChar, flags, histories
<1>8. ASSUME NEW p \in Procs, ReadWoken(p) PROVE OneReader'
  BY <1>0, <1>2, <1>3, <1>8 DEF ReadWoken
<1>9. ASSUME NEW p \in Procs, ReadStore(p) \/ WriteWoken(p) PROVE OneReader'
  <2>1. \/ Return(p, FALSE)
        \/ Goto(p, "rtest") /\ overlap' = overlap /\ pc[p] = "rgot"
        \/ Goto(p, "wtest") /\ overlap' = overlap
    BY Zenon, <1>9 DEF ReadStore, WriteWoken, histories
  <2>2. UNCHANGED ttysleep
    BY <1>9 DEF ReadStore, WriteWoken, flags
  <2>. QED BY <1>0, <1>1, <1>3, <2>1, <2>2
<1>10. ASSUME NEW p \in Procs, ReadSleep(p) PROVE OneReader'
  <2>1. /\ pc[p] = "rmark" /\ UNCHANGED ttysleep
        /\ pc' \in {pc, [pc EXCEPT ![p] = "rsleep"], [pc EXCEPT ![p] = "user"]}
    BY <1>10 DEF ReadSleep, Psleep, flags
  <2>2. /\ overlap' => overlap
        /\ overlap /\ ~overlap' => pc'[p] \notin Reading /\ \A q \in Procs \ {p} : pc[q] \notin Reading
    BY Zenon, <1>10 DEF ReadSleep
  <2>3. \A q \in Procs \ {p} : pc'[q] = pc[q]
    BY <2>1 DEF TypeOK
  <2>4. CASE overlap
    BY <1>0, <2>2, <2>3, <2>4
  <2>5. CASE ~overlap
    <3>1. pc[p] \in Reading /\ ttysleep /\ ttysleep' BY <1>0, <2>1, <2>5
    <3>2. \A q \in Procs \ {p} : pc[q] \notin Reading BY <2>5, <3>1
    <3>. QED BY <1>0, <2>3, <3>1, <3>2
  <2>. QED BY <2>4, <2>5
<1>11. ASSUME NEW p \in Procs, WriteSleep(p) PROVE OneReader'
  <2>1. /\ pc[p] = "wtest" /\ UNCHANGED <<ttysleep, overlap>>
        /\ pc' \in {pc, [pc EXCEPT ![p] = "wsleep"], [pc EXCEPT ![p] = "user"]}
    BY <1>11 DEF WriteSleep, Psleep, flags, histories
  <2>2. /\ \A q \in Procs \ {p} : pc'[q] = pc[q]
        /\ pc'[p] \in {"wtest", "wsleep", "user"}
    BY <2>1 DEF TypeOK
  <2>3. pc'[p] \notin Reading BY <1>0, <2>2
  <2>. QED BY <1>0, <2>1, <2>2, <2>3
<1>12. ASSUME UNCHANGED <<pc, ttysleep, overlap>> PROVE OneReader'
  BY <1>12
<1>13. ASSUME NEW p \in Procs, Preempt(p) \/ Dispatch(p) \/ Signal(p) PROVE OneReader'
  BY <1>12, <1>13 DEF Preempt, Dispatch, Signal, call, flags, histories
<1>14. ASSUME NEW c \in Chars, KeyRaw(c) \/ KeyCooked(c) PROVE OneReader'
  BY <1>12, <1>14 DEF KeyRaw, KeyCooked, Typed, call, flags
<1>15. CASE CtrlCSignals \/ CtrlCWakes \/ CtrlS \/ CtrlQ \/ Backspace
  BY <1>12, <1>15 DEF CtrlCSignals, CtrlCWakes, CtrlS, CtrlQ, Backspace, Typed, call, flags
<1>16. CASE UNCHANGED vars
  BY <1>12, <1>16 DEF vars, flags, call, histories
<1>. QED BY Zenon, <1>4, <1>5, <1>6, <1>7, <1>8, <1>9, <1>10, <1>11, <1>13, <1>14, <1>15, <1>16
         DEF Next

\* A ^C finds ttysleep set while a reader sleeps, if reads never overlap.
THEOREM SleepersFlagged == Spec => []SleeperFlagged
<1>1. Init => OneReader
  BY DEF Init, OneReader, Reading
<1>2. OneReader => SleeperFlagged
  BY DEF OneReader, SleeperFlagged, Sleepers, Asleep
<1>. QED BY <1>1, <1>2, NextOneReader, TtyTypeCorrect, PTL DEF Spec
=============================================================================
