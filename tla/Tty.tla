-------------------------------- MODULE Tty --------------------------------
(***************************************************************************)
(* The terminal of UZIX (DTTY.C) over its character queue (DIO.C).         *)
(* Processes read and write; the keyboard is polled by the clock           *)
(* interrupt, at every system call and by the scheduler's idle loop, so a  *)
(* key can come between any two steps of a read where interrupts are on.   *)
(* remq turns them on again when it returns (DIO.C:441): between its test  *)
(* of the queue and psleep a reader can be overtaken by a key.  tty_write  *)
(* goes from its test of suspendflag to psleep with interrupts off.        *)
(***************************************************************************)
EXTENDS Naturals, Sequences, FiniteSets

CONSTANTS
    Procs,                   \* processes that use the terminal
    Catchers,                \* those of them that catch SIGINT; others die
    TTYSIZ,                  \* size of the lookahead buffer
    Counts,                  \* numbers of characters asked for
    Modes                    \* values of rawmode that tty_ioctl is asked for

ASSUME TtyAssumption ==
    /\ Catchers \subseteq Procs
    /\ Procs # {}
    /\ TTYSIZ \in Nat \ {0}
    /\ Counts \subseteq Nat
    /\ Modes \subseteq 0 .. 3

VARIABLES
    ttyinbuf, q_head, q_tail, q_count,      \* the queue ttyinq
    rawmode, suspendflag, ttysleep, ctrlcp,
    status,                  \* p_status
    pc,                      \* where the process is in its call
    want, nread,             \* u_count; the characters transferred
    ch,                      \* the character that remq gave
    pending, intr,           \* SIGINT in p_pending; p_intr
    u_ptab,                  \* the process the kernel works for, or worked for last
    halted,                  \* nextready has panicked
    \* histories
    raced,                   \* readers that a wakeup missed between remq and psleep
    freed,                   \* writers asleep when ^C lifted the suspension
    overlap                  \* a read began while another was in progress

queue == <<ttyinbuf, q_head, q_tail, q_count>>
flags == <<rawmode, suspendflag, ttysleep, ctrlcp>>
call == <<pc, want, nread, ch>>
sigs == <<pending, intr>>
histories == <<raced, freed, overlap>>
vars == <<queue, flags, status, call, sigs, u_ptab, halted, histories>>

Chars == {"x", "nl", "eof"}
Reading == {"rtest", "rgot", "rnone", "rmark", "rsleep"}
Writing == {"wtest", "wsleep"}
----------------------------------------------------------------------------
(* The character queue: a ring, its pointers kept as offsets from q_base.  *)

SuccLate(i) == IF i + 1 > TTYSIZ THEN 0 ELSE i + 1
Succ(i) == IF i + 1 >= TTYSIZ THEN 0 ELSE i + 1
Pred(i) == IF i = 0 THEN TTYSIZ - 1 ELSE i - 1

Place(k) == IF q_head + k - 1 < TTYSIZ THEN q_head + k - 1 ELSE q_head + k - 1 - TTYSIZ
Contents == [k \in 1 .. q_count |-> ttyinbuf[Place(k)]]

InsqOver(c) ==
    /\ ttyinbuf' = [ttyinbuf EXCEPT ![q_tail] = c]
    /\ q_count' = IF q_count # TTYSIZ THEN q_count + 1 ELSE q_count
    /\ q_tail' = Succ(q_tail)
    /\ UNCHANGED q_head

(* The queue as left by insq of c, remq, uninsq and clrq.                  *)
Insq(c) ==
    IF q_count # TTYSIZ
    THEN /\ ttyinbuf' = [ttyinbuf EXCEPT ![q_tail] = c]
         /\ q_count' = q_count + 1
         /\ q_tail' = Succ(q_tail)
         /\ UNCHANGED q_head
    ELSE UNCHANGED queue

Remq ==
    /\ q_count # 0
    /\ q_count' = q_count - 1
    /\ q_head' = Succ(q_head)
    /\ UNCHANGED <<ttyinbuf, q_tail>>

Uninsq ==
    /\ q_count # 0
    /\ q_count' = q_count - 1
    /\ q_tail' = Pred(q_tail)
    /\ UNCHANGED <<ttyinbuf, q_head>>

Clrq ==
    /\ q_count' = 0
    /\ q_tail' = 0
    /\ q_head' = 0
    /\ UNCHANGED ttyinbuf
----------------------------------------------------------------------------
(* Sleeping and waking.                                                    *)

Asleep(p) == status[p] = "SLEEP"
Running(p) == status[p] = "RUNNING" /\ ~halted

Sleepers(places) == {p \in Procs : Asleep(p) /\ pc[p] \in places}
Awoken(places) ==
    [p \in Procs |-> IF p \in Sleepers(places) THEN "READY" ELSE status[p]]

(* psleep(event): with a signal pending the process does not lie down; it  *)
(* dies of it in swapout, or catches it and is still RUNNING when          *)
(* nextready comes to it, which panics.                                    *)
Psleep(p, place) ==
    IF ~pending[p]
    THEN /\ status' = [status EXCEPT ![p] = "SLEEP"]
         /\ pc' = [pc EXCEPT ![p] = place]
         /\ intr' = [intr EXCEPT ![p] = FALSE]
         /\ UNCHANGED halted
    ELSE /\ intr' = [intr EXCEPT ![p] = TRUE]
         /\ IF p \in Catchers
            THEN halted' = TRUE /\ UNCHANGED <<status, pc>>
            ELSE /\ status' = [status EXCEPT ![p] = "ZOMBIE"]
                 /\ pc' = [pc EXCEPT ![p] = "user"]
                 /\ UNCHANGED halted

(* ssig(p, SIGINT)                                                         *)
Ssig(p) ==
    IF status[p] = "ZOMBIE"
    THEN UNCHANGED <<status, sigs>>
    ELSE /\ status' = [status EXCEPT ![p] = IF Asleep(p) THEN "READY" ELSE @]
         /\ intr' = [intr EXCEPT ![p] = Asleep(p) \/ @]
         /\ pending' = [pending EXCEPT ![p] = TRUE]

(* The call ends; on the way out chksigs and calltrap deal with a signal,  *)
(* the one that the call itself may have posted included.                  *)
Return(p, posted) ==
    /\ pc' = [pc EXCEPT ![p] = "user"]
    /\ pending' = [pending EXCEPT ![p] = FALSE]
    /\ status' = [status EXCEPT ![p] =
                    IF (pending[p] \/ posted) /\ p \notin Catchers THEN "ZOMBIE" ELSE @]
    /\ overlap' = (overlap /\ \E q \in Procs \ {p} : pc[q] \in Reading)
    /\ raced' = raced \ {p}
    /\ want' = [want EXCEPT ![p] = 0]
    /\ nread' = [nread EXCEPT ![p] = 0]
    /\ ch' = [ch EXCEPT ![p] = "x"]
    /\ freed' = freed \ {p}
    /\ UNCHANGED <<intr, u_ptab, halted>>

Goto(p, place) ==
    /\ pc' = [pc EXCEPT ![p] = place]
    /\ UNCHANGED <<status, sigs, u_ptab, halted>>
----------------------------------------------------------------------------
Init ==
    /\ ttyinbuf = [i \in 0 .. TTYSIZ - 1 |-> "x"]
    /\ q_head = 0 /\ q_tail = 0 /\ q_count = 0
    /\ rawmode = 0
    /\ suspendflag = FALSE
    /\ ttysleep = FALSE /\ ctrlcp = FALSE
    /\ u_ptab \in Procs
    /\ status = [p \in Procs |-> IF p = u_ptab THEN "RUNNING" ELSE "READY"]
    /\ pc = [p \in Procs |-> "user"]
    /\ want = [p \in Procs |-> 0]
    /\ nread = [p \in Procs |-> 0]
    /\ ch = [p \in Procs |-> "x"]
    /\ pending = [p \in Procs |-> FALSE]
    /\ intr = [p \in Procs |-> FALSE]
    /\ halted = FALSE
    /\ raced = {} /\ freed = {} /\ overlap = FALSE

(* tty_read                                                                *)
Read(p, n) ==
    /\ Running(p) /\ pc[p] = "user"
    /\ want' = [want EXCEPT ![p] = n]
    /\ overlap' = (overlap \/ \E q \in Procs : pc[q] \in Reading)
    /\ Goto(p, "rtest")
    /\ UNCHANGED <<queue, flags, nread, ch, raced, freed>>

ReadEnough(p) ==
    /\ Running(p) /\ pc[p] = "rtest" /\ nread[p] >= want[p]
    /\ Return(p, FALSE)
    /\ UNCHANGED <<queue, flags>>

ReadRemq(p) ==
    /\ Running(p) /\ pc[p] = "rtest" /\ nread[p] < want[p]
    /\ Remq
    /\ ch' = [ch EXCEPT ![p] = ttyinbuf[q_head]]
    /\ Goto(p, "rgot")
    /\ UNCHANGED <<flags, want, nread, histories>>

ReadEmpty(p) ==
    /\ Running(p) /\ pc[p] = "rtest" /\ nread[p] < want[p]
    /\ q_count = 0
    /\ Goto(p, "rnone")
    /\ UNCHANGED <<queue, flags, want, nread, ch, histories>>

ReadNoKey(p) ==
    /\ Running(p) /\ pc[p] = "rnone" /\ rawmode >= 2
    /\ Return(p, FALSE)
    /\ UNCHANGED <<queue, flags>>

ReadMarkFirst(p) ==
    /\ Running(p) /\ pc[p] = "rnone" /\ rawmode < 2
    /\ ttysleep' = (nread[p] = 0)
    /\ Goto(p, "rmark")
    /\ UNCHANGED <<queue, rawmode, suspendflag, ctrlcp, want, nread, ch, histories>>

ReadMark(p) ==
    /\ Running(p) /\ pc[p] = "rnone" /\ rawmode < 2
    /\ ttysleep' = TRUE
    /\ Goto(p, "rmark")
    /\ UNCHANGED <<queue, rawmode, suspendflag, ctrlcp, want, nread, ch, histories>>

ReadSleep(p) ==
    /\ Running(p) /\ pc[p] = "rmark"
    /\ Psleep(p, "rsleep")
    /\ overlap' = (overlap /\ (pc'[p] \in Reading \/ \E q \in Procs \ {p} : pc[q] \in Reading))
    /\ raced' = IF pc'[p] \in Reading THEN raced ELSE raced \ {p}
    /\ UNCHANGED <<queue, flags, want, nread, ch, pending, u_ptab, freed>>

(* ^C met the reader asleep, or was left over: EINTR and SIGINT.           *)
ReadBroken(p) ==
    /\ Running(p) /\ pc[p] \in {"rsleep", "rgot"} /\ ctrlcp
    /\ ctrlcp' = FALSE
    /\ Return(p, TRUE)
    /\ UNCHANGED <<queue, rawmode, suspendflag, ttysleep>>

ReadWoken(p) ==
    /\ Running(p) /\ pc[p] = "rsleep" /\ ~ctrlcp
    /\ ttysleep' = FALSE
    /\ IF intr[p] \/ pending[p]
       THEN Return(p, FALSE)
       ELSE /\ Goto(p, "rtest")
            /\ raced' = raced \ {p}
            /\ UNCHANGED <<want, nread, ch, freed, overlap>>
    /\ UNCHANGED <<queue, rawmode, suspendflag, ctrlcp>>

ReadStore(p) ==
    /\ Running(p) /\ pc[p] = "rgot" /\ ~ctrlcp
    /\ IF \/ nread[p] = 0 /\ ch[p] = "eof" /\ rawmode < 2
          \/ rawmode = 3
          \/ rawmode = 0 /\ ch[p] = "nl"
       THEN Return(p, FALSE)
       ELSE /\ nread' = [nread EXCEPT ![p] = @ + 1]
            /\ ch' = [ch EXCEPT ![p] = "x"]
            /\ Goto(p, "rtest")
            /\ UNCHANGED <<want, histories>>
    /\ UNCHANGED <<queue, flags>>

(* tty_write                                                               *)
Write(p, n) ==
    /\ Running(p) /\ pc[p] = "user"
    /\ want' = [want EXCEPT ![p] = n]
    /\ Goto(p, "wtest")
    /\ UNCHANGED <<queue, flags, nread, ch, histories>>

WriteDone(p) ==
    /\ Running(p) /\ pc[p] = "wtest" /\ nread[p] >= want[p]
    /\ Return(p, FALSE)
    /\ UNCHANGED <<queue, flags>>

WriteChar(p) ==
    /\ Running(p) /\ pc[p] = "wtest" /\ nread[p] < want[p] /\ ~suspendflag
    /\ nread' = [nread EXCEPT ![p] = @ + 1]
    /\ Goto(p, "wtest")
    /\ UNCHANGED <<queue, flags, want, ch, histories>>

WriteSleep(p) ==
    /\ Running(p) /\ pc[p] = "wtest" /\ nread[p] < want[p] /\ suspendflag
    /\ Psleep(p, "wsleep")
    /\ UNCHANGED <<queue, flags, want, nread, ch, pending, u_ptab, histories>>

WriteWoken(p) ==
    /\ Running(p) /\ pc[p] = "wsleep"
    /\ IF intr[p] \/ pending[p]
       THEN Return(p, FALSE)
       ELSE /\ Goto(p, "wtest")
            /\ freed' = freed \ {p}
            /\ UNCHANGED <<want, nread, ch, raced, overlap>>
    /\ UNCHANGED <<queue, flags>>

(* tty_ioctl; then, for TTY_QCOUNT and the like, nothing changes           *)
Ioctl(p, m) ==
    /\ Running(p) /\ pc[p] = "user"
    /\ rawmode' = m
    /\ Return(p, FALSE)
    /\ UNCHANGED <<queue, suspendflag, ttysleep, ctrlcp>>
----------------------------------------------------------------------------
(* tty_poll finds key c.                                                   *)

(* Wakeup of the readers; those between remq and psleep miss it.           *)
WakeReaders ==
    /\ status' = Awoken({"rsleep"})
    /\ raced' = (raced \ Sleepers({"rsleep"}))
                  \cup {p \in Procs : status[p] = "RUNNING" /\ pc[p] \in {"rnone", "rmark"}}

Typed == /\ ~halted
         /\ UNCHANGED <<call, u_ptab, halted, overlap>>

KeyRaw(c) ==
    /\ Typed /\ rawmode # 0
    /\ Insq(c)
    /\ WakeReaders
    /\ UNCHANGED <<flags, sigs, freed>>

(* ^C with ttysleep clear signals the process the kernel works for.        *)
CtrlCSignals ==
    /\ Typed /\ rawmode = 0 /\ ~ttysleep
    /\ Clrq
    /\ suspendflag' = FALSE
    /\ Ssig(u_ptab)
    /\ freed' = freed \cup Sleepers({"wsleep"})
    /\ UNCHANGED <<rawmode, ttysleep, ctrlcp, raced>>

CtrlCWakes ==
    /\ Typed /\ rawmode = 0 /\ ttysleep
    /\ Clrq
    /\ suspendflag' = FALSE
    /\ ctrlcp' = TRUE
    /\ WakeReaders
    /\ freed' = freed \cup Sleepers({"wsleep"})
    /\ UNCHANGED <<rawmode, ttysleep, sigs>>

CtrlS ==
    /\ Typed /\ rawmode = 0
    /\ suspendflag' = TRUE
    /\ UNCHANGED <<queue, rawmode, ttysleep, ctrlcp, status, sigs, raced, freed>>

(* ^Q, and ^O: what its flshflag hides from the screen is left out.        *)
CtrlQQuiet ==
    /\ Typed /\ rawmode = 0
    /\ suspendflag' = FALSE
    /\ UNCHANGED <<queue, rawmode, ttysleep, ctrlcp, status, sigs, raced, freed>>

CtrlQ ==
    /\ Typed /\ rawmode = 0
    /\ suspendflag' = FALSE
    /\ status' = Awoken({"wsleep"})
    /\ freed' = {}
    /\ UNCHANGED <<queue, rawmode, ttysleep, ctrlcp, sigs, raced>>

(* Backspace does not erase past a newline: it is put back, and wakes.     *)
EndsLineNlOnly(c) == c = "nl"
EndsLine(c) == c \in {"nl", "eof"}
LastTyped == ttyinbuf[Pred(q_tail)]

Backspace ==
    /\ Typed /\ rawmode = 0
    /\ IF q_count = 0
       THEN UNCHANGED <<queue, status, raced>>
       ELSE IF LastTyped = "nl"
       THEN UNCHANGED queue /\ WakeReaders
       ELSE /\ Uninsq
            /\ IF EndsLine(LastTyped) THEN WakeReaders ELSE UNCHANGED <<status, raced>>
    /\ UNCHANGED <<flags, sigs, freed>>

KeyCooked(c) ==
    /\ Typed /\ rawmode = 0
    /\ Insq(c)
    /\ IF EndsLine(c) THEN WakeReaders ELSE UNCHANGED <<status, raced>>
    /\ UNCHANGED <<flags, sigs, freed>>
----------------------------------------------------------------------------
(* The scheduler: preemption in user code, with chksigs in swapout; the    *)
(* choice of nextready; and the end of a process that exits.               *)

Preempt(p) ==
    /\ Running(p) /\ pc[p] = "user"
    /\ pending' = [pending EXCEPT ![p] = FALSE]
    /\ status' = [status EXCEPT ![p] =
                    IF pending[p] /\ p \notin Catchers THEN "ZOMBIE" ELSE "READY"]
    /\ UNCHANGED <<queue, flags, call, intr, u_ptab, halted, histories>>

Dispatch(p) ==
    /\ ~halted /\ status[u_ptab] # "RUNNING" /\ status[p] = "READY"
    /\ u_ptab' = p
    /\ status' = [status EXCEPT ![p] = "RUNNING"]
    /\ UNCHANGED <<queue, flags, call, sigs, halted, histories>>

(* Another process, or an alarm, sends a signal that p catches or dies of. *)
Signal(p) ==
    /\ ~halted
    /\ Ssig(p)
    /\ UNCHANGED <<queue, flags, call, u_ptab, halted, histories>>

Next ==
    \/ \E p \in Procs :
         \/ \E n \in Counts : Read(p, n) \/ Write(p, n)
         \/ ReadEnough(p) \/ ReadRemq(p) \/ ReadEmpty(p) \/ ReadNoKey(p)
         \/ ReadMark(p) \/ ReadSleep(p) \/ ReadBroken(p) \/ ReadWoken(p) \/ ReadStore(p)
         \/ WriteDone(p) \/ WriteChar(p) \/ WriteSleep(p) \/ WriteWoken(p)
         \/ \E m \in Modes : Ioctl(p, m)
         \/ Preempt(p) \/ Dispatch(p) \/ Signal(p)
    \/ \E c \in Chars : KeyRaw(c)
    \/ CtrlCSignals \/ CtrlCWakes \/ CtrlS \/ CtrlQ \/ Backspace
    \/ \E c \in Chars : KeyCooked(c)

Spec == Init /\ [][Next]_vars
----------------------------------------------------------------------------
(* Types.  The ring's pointers stay in the buffer, and the distance from   *)
(* head to tail is the count, whatever inserted, took, erased or cleared   *)
(* (DIO.C:408-473).                                                        *)
RingShape ==
    /\ q_head \in 0 .. TTYSIZ - 1
    /\ q_tail \in 0 .. TTYSIZ - 1
    /\ q_count \in 0 .. TTYSIZ
    /\ q_head + q_count \in {q_tail, q_tail + TTYSIZ}

TypeOK ==
    /\ ttyinbuf \in [0 .. TTYSIZ - 1 -> Chars]
    /\ RingShape
    /\ rawmode \in 0 .. 3
    /\ suspendflag \in BOOLEAN
    /\ ttysleep \in BOOLEAN /\ ctrlcp \in BOOLEAN
    /\ status \in [Procs -> {"READY", "RUNNING", "SLEEP", "ZOMBIE"}]
    /\ pc \in [Procs -> {"user"} \cup Reading \cup Writing]
    /\ want \in [Procs -> Counts \cup {0}]
    /\ nread \in [Procs -> Nat]
    /\ ch \in [Procs -> Chars]
    /\ pending \in [Procs -> BOOLEAN] /\ intr \in [Procs -> BOOLEAN]
    /\ u_ptab \in Procs
    /\ halted \in BOOLEAN
    /\ raced \subseteq Procs /\ freed \subseteq Procs
    /\ overlap \in BOOLEAN

(* The ring in the buffer behaves as a sequence: in order, nothing lost or *)
(* made up, also when it wraps, is full, is erased or is cleared by ^C     *)
(* (insq, remq, uninsq, clrq, DIO.C:408-473).                              *)
Line == INSTANCE CharQueue WITH line <- Contents, SIZE <- TTYSIZ
LineSpec == Line!QueueSpec

(* No reader sleeps on a complete line.  tty_poll must wake on every key   *)
(* that may leave a line end in the queue, a newline put back by backspace *)
(* and one that found no room included (DTTY.C:325-348); readers that the  *)
(* wakeup missed between remq and psleep (DTTY.C:118-121) are set apart.   *)
HasLineEnd == \E k \in 1 .. q_count : ttyinbuf[Place(k)] \in {"nl", "eof"}
ReaderAsleepForCause ==
    HasLineEnd => \A p \in Sleepers({"rsleep"}) : p \in raced

(* A writer sleeps only while output is suspended, or because ^C lifted    *)
(* the suspension without waking it (DTTY.C:183-187, 310): no other key or *)
(* order of keys leaves a writer asleep, for the test and psleep are one   *)
(* step.                                                                   *)
WriterAsleepForCause ==
    \A p \in Sleepers({"wsleep"}) : suspendflag \/ p \in freed

(* While one process reads at a time, ttysleep is set whenever it sleeps:  *)
(* ^C then goes to the sleeper and not to whoever the kernel worked for    *)
(* last (DTTY.C:120, 312).                                                 *)
SleeperFlagged ==
    ~overlap /\ Sleepers({"rsleep"}) # {} => ttysleep
=============================================================================
