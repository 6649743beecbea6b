-------------------------------- MODULE Proc --------------------------------
(***************************************************************************)
(* The process layer of the UZIX kernel: the process table, the scheduler, *)
(* sleep and wakeup, signals, alarms, fork, exec, exit and waitpid         *)
(* (PR1.C, PR2.C, SC2.C, MD.C).                                            *)
(*                                                                         *)
(* The kernel is not preemptive: a system call runs until it returns or    *)
(* sleeps, and only the clock and keyboard interrupts come in between.  An *)
(* action is therefore a system call up to the point where the process     *)
(* sleeps or is about to return, one of the steps by which it sleeps,      *)
(* is scheduled and returns, or an interrupt.                              *)
(***************************************************************************)
EXTENDS Integers, FiniteSets

CONSTANTS
    PTABSIZE,     \* entries of the process table
    MAXPID,       \* the largest pid, 0x7fff in the code
    NSIGS,        \* signals are 1..NSIGS
    SIGINT, SIGKILL, SIGALRM,
    Events,       \* addresses other than table entries that psleep is given
    NULL,         \* the null address
    Handlers,     \* what signal() is called with: some of "dfl", "ign", "catch"
    WaitArgs,     \* the pid argument of waitpid, 0 standing for any pid <= 0
    StimeMinutes, \* minutes of system time a process may have used at exit
    MAXALARM      \* bound: the longest alarm a process asks for

Slots == 0 .. PTABSIZE - 1
Sigs == 1 .. NSIGS
initproc == 0
Nobody == -1      \* the null table pointer

ASSUME ProcAssumption ==
    /\ PTABSIZE \in Nat \ {0}
    /\ MAXPID \in Nat /\ MAXPID >= PTABSIZE
    /\ NSIGS \in Nat
    /\ SIGINT \in Sigs /\ SIGALRM \in Sigs /\ SIGKILL \in Nat
    /\ Events \cap Int = {} /\ NULL \notin Events \cup Int
    /\ Handlers \subseteq {"dfl", "ign", "catch"}
    /\ WaitArgs \subseteq 0 .. MAXPID
    /\ StimeMinutes \subseteq Nat /\ StimeMinutes # {}
    /\ MAXALARM \in Nat

VARIABLES
    status, pid, pptr, wait, intr, pending, ignored, alarm, \* ptab_t
    sigvec, cursig,  \* udata_t of each process
    kpc,             \* where each process goes on when it next runs
    wpid,            \* the pid argument of the waitpid it is in
    u_ptab,          \* the entry the kernel works for
    rr,              \* nextready's static pointer
    nextpid,         \* ptab_alloc's static counter
    ptotal,
    cpu              \* what the processor does

tableVars == <<pid, pptr, nextpid, ptotal>>
sleepVars == <<wait, intr>>
signalVars == <<pending, ignored, alarm, sigvec, cursig>>
vars == <<status, tableVars, sleepVars, signalVars, kpc, wpid, u_ptab, rr, cpu>>

Statuses == {"EMPTY", "ZOMBIE", "RUNNING", "READY", "SLEEP", "PAUSE", "WAIT"}
Interruptible == {"PAUSE", "WAIT", "SLEEP"}

\* "run": u_ptab executes; "swapout": it has called swapout; "idle": the kernel
\* is in nextready.  From the last three nothing goes on.
CpuModes == {"run", "swapout", "idle", "panic", "hang", "halt"}
Alive == cpu \in {"run", "swapout", "idle"}

\* "ret" is the end of unix(), the other names but "user" are calls of psleep.
KernelPoints == {"user", "ret", "pause", "wait", "sleep"}

NoVectors == [s \in Sigs |-> "dfl"]

TypeOK ==
    /\ status \in [Slots -> Statuses]
    /\ pid \in [Slots -> 0 .. MAXPID]
    /\ pptr \in [Slots -> Slots \cup {Nobody}]
    /\ wait \in [Slots -> Slots \cup Events \cup {NULL}]
    /\ intr \in [Slots -> BOOLEAN]
    /\ pending \in [Slots -> SUBSET Sigs]
    /\ ignored \in [Slots -> SUBSET Sigs]
    /\ alarm \in [Slots -> Nat]
    /\ sigvec \in [Slots -> [Sigs -> {"dfl", "ign", "catch"}]]
    /\ cursig \in [Slots -> 0 .. NSIGS]
    /\ kpc \in [Slots -> KernelPoints]
    /\ wpid \in [Slots -> 0 .. MAXPID]
    /\ u_ptab \in Slots
    /\ rr \in Slots
    /\ nextpid \in 0 .. MAXPID
    /\ ptotal \in Int
    /\ cpu \in CpuModes

Init ==
    /\ status = [p \in Slots |-> IF p = initproc THEN "RUNNING" ELSE "EMPTY"]
    /\ pid = [p \in Slots |-> IF p = initproc THEN 1 ELSE 0]
    /\ pptr = [p \in Slots |-> IF p = initproc THEN initproc ELSE Nobody]
    /\ wait = [p \in Slots |-> NULL]
    /\ intr = [p \in Slots |-> FALSE]
    /\ pending = [p \in Slots |-> {}]
    /\ ignored = [p \in Slots |-> {}]
    /\ alarm = [p \in Slots |-> 0]
    /\ sigvec = [p \in Slots |-> NoVectors]
    /\ cursig = [p \in Slots |-> 0]
    /\ kpc = [p \in Slots |-> "user"]
    /\ wpid = [p \in Slots |-> 0]
    /\ u_ptab = initproc
    /\ rr = initproc
    /\ nextpid = 1
    /\ ptotal = 1
    /\ cpu = "run"

-----------------------------------------------------------------------------
(* Faulty variants of definitions below, each with one slip in it.  Nothing *)
(* here uses them: they are put in the place of the definition that begins  *)
(* their name to see that a property notices.                               *)

MayLieDownAlways == TRUE                        \* psleep forgets p_pending
OrphansLive ==                                  \* doexit passes by the zombies
    {p \in Slots \ {u_ptab} : status[p] \notin {"EMPTY", "ZOMBIE"} /\ pptr[p] = u_ptab}
NotifiedNobody == {}                            \* doexit without its wakeup
ScanStartSelf == rr                             \* nextready begins one too early
FreeSlotAny(c) == status[c] = "EMPTY"           \* not the first empty entry
FreeSlotDead(c) ==                              \* a zombie's entry is taken
    /\ status[c] \in {"EMPTY", "ZOMBIE"}
    /\ \A p \in Slots : p < c => status[p] \notin {"EMPTY", "ZOMBIE"}
CandidateUnwrapped(k) == nextpid + k + 1        \* pids do not wrap
ForkStatusBoth(c) == [status EXCEPT ![c] = "RUNNING"] \* the parent stays running
ZombiesAnyStatus ==                             \* dowait takes a live child
    {p \in Slots \ {u_ptab} : status[p] # "EMPTY" /\ pptr[p] = u_ptab}
ZombiesAnyParent == {p \in Slots : status[p] = "ZOMBIE"} \* ... or another's

-----------------------------------------------------------------------------
(* Signals, sleep and wakeup. *)

CurrentAt(point) == cpu = "run" /\ kpc[u_ptab] = point

GoTo(point) == kpc' = [kpc EXCEPT ![u_ptab] = point]

\* ssig: the processes of T that sig reaches, and those it gets out of psleep.
Reached(T, sig) ==
    {p \in T : status[p] \notin {"EMPTY", "ZOMBIE"} /\ sig \notin ignored[p]}
Roused(T, sig) == {p \in Reached(T, sig) : status[p] \in Interruptible}

Ssig(T, sig) ==
    /\ status' = [p \in Slots |-> IF p \in Roused(T, sig) THEN "READY" ELSE status[p]]
    /\ wait' = [p \in Slots |-> IF p \in Roused(T, sig) THEN NULL ELSE wait[p]]
    /\ intr' = [p \in Slots |-> p \in Roused(T, sig) \/ intr[p]]
    /\ pending' = [p \in Slots |->
                    IF p \in Reached(T, sig) THEN pending[p] \cup {sig} ELSE pending[p]]

\* wakeup: the processes that wait on event (P_READY and above in the code).
Waiting(event) ==
    {p \in Slots : status[p] \in Interruptible \cup {"READY"} /\ wait[p] = event}

SleepState(event) ==
    IF event = NULL THEN "PAUSE" ELSE IF event = u_ptab THEN "WAIT" ELSE "SLEEP"

MayLieDown == pending[u_ptab] = {}

\* psleep up to swapout: a pending signal leaves the process P_RUNNING.
Psleep(event) ==
    /\ cpu' = "swapout"
    /\ intr' = [intr EXCEPT ![u_ptab] = ~MayLieDown]
    /\ IF MayLieDown
       THEN /\ status' = [status EXCEPT ![u_ptab] = SleepState(event)]
            /\ wait' = [wait EXCEPT ![u_ptab] = event]
       ELSE UNCHANGED <<status, wait>>

\* chksigs: the lowest pending signal with a vector other than SIG_IGN, if any.
Acted(p) == {s \in pending[p] : sigvec[p][s] # "ign"}
IsFirst(p, s) == s \in Acted(p) /\ \A t \in Acted(p) : s <= t
Quiet(p) == Acted(p) = {}
Dies(p) == \E s \in Sigs : IsFirst(p, s) /\ sigvec[p][s] = "dfl"
Catches(p, s) == IsFirst(p, s) /\ sigvec[p][s] = "catch"

-----------------------------------------------------------------------------
(* doexit, for exit() and for a signal that kills. *)

\* The children of the exiting process go to initproc, dead or alive.
Orphans == {p \in Slots \ {u_ptab} : status[p] # "EMPTY" /\ pptr[p] = u_ptab}

\* The parent, if it is in waitpid; initproc wakes nobody.
Notified == IF u_ptab = initproc THEN {} ELSE Waiting(pptr[u_ptab]) \ {u_ptab}

Doexit ==
    /\ status' = [p \in Slots |-> IF p = u_ptab THEN "ZOMBIE"
                                  ELSE IF p \in Notified THEN "READY" ELSE status[p]]
    /\ wait' = [p \in Slots |-> IF p \in Notified THEN NULL ELSE wait[p]]
    /\ pptr' = [p \in Slots |-> IF p \in Orphans THEN initproc ELSE pptr[p]]
    \* The execution times are stored over p_break .. p_alarm.
    /\ \E m \in StimeMinutes : alarm' = [alarm EXCEPT ![u_ptab] = m]
    /\ ptotal' = ptotal - 1
    /\ cpu' = IF ptotal = 1 THEN "halt" ELSE "idle"
    \* swap_dealloc: the process's memory, with its u-area and stacks, is gone.
    /\ sigvec' = [sigvec EXCEPT ![u_ptab] = NoVectors]
    /\ cursig' = [cursig EXCEPT ![u_ptab] = 0]
    /\ GoTo("user")
    /\ wpid' = [wpid EXCEPT ![u_ptab] = 0]
    /\ UNCHANGED <<pid, nextpid, intr, pending, ignored, u_ptab, rr>>

Exit == CurrentAt("user") /\ Doexit

-----------------------------------------------------------------------------
(* The scheduler. *)

\* xswapout calls chksigs first ...
SwapoutQuiet ==
    /\ cpu = "swapout" /\ Quiet(u_ptab)
    /\ cpu' = "idle"
    /\ UNCHANGED <<status, tableVars, sleepVars, signalVars, kpc, wpid, u_ptab, rr>>

SwapoutCatch(s) ==
    /\ cpu = "swapout" /\ Catches(u_ptab, s)
    /\ pending' = [pending EXCEPT ![u_ptab] = @ \ {s}]
    /\ cursig' = [cursig EXCEPT ![u_ptab] = s]
    /\ cpu' = "idle"
    /\ UNCHANGED <<status, tableVars, sleepVars, ignored, alarm, sigvec, kpc, wpid,
                   u_ptab, rr>>

SwapoutDies == cpu = "swapout" /\ Dies(u_ptab) /\ Doexit

\* ... and then nextready, which scans the table from the entry after rr.
ScanStart == rr + 1
Scanned(k) ==
    IF ScanStart + k < PTABSIZE THEN ScanStart + k ELSE ScanStart + k - PTABSIZE
FirstFound(k) ==
    /\ status[Scanned(k)] \in {"READY", "RUNNING"}
    /\ \A j \in Slots : j < k => status[Scanned(j)] \notin {"READY", "RUNNING"}

\* swapin, or the return from xswapout when the process found is u_ptab.
Dispatch ==
    /\ cpu = "idle"
    /\ \E k \in Slots :
        /\ FirstFound(k) /\ status[Scanned(k)] = "READY"
        /\ rr' = Scanned(k) /\ u_ptab' = Scanned(k)
        /\ status' = [status EXCEPT ![Scanned(k)] = "RUNNING"]
    /\ cpu' = "run"
    /\ UNCHANGED <<tableVars, sleepVars, signalVars, kpc, wpid>>

\* panic("nextready: extra running")
ExtraRunning ==
    /\ cpu = "idle"
    /\ \E k \in Slots : FirstFound(k) /\ status[Scanned(k)] = "RUNNING"
    /\ cpu' = "panic"
    /\ UNCHANGED <<status, tableVars, sleepVars, signalVars, kpc, wpid, u_ptab, rr>>

\* clk_int finds the time slice used up and u_insys clear.
Preempt ==
    /\ CurrentAt("user")
    /\ status' = [status EXCEPT ![u_ptab] = "READY"]
    /\ cpu' = "swapout"
    /\ UNCHANGED <<tableVars, sleepVars, signalVars, kpc, wpid, u_ptab, rr>>

\* calltrap from clk_int, for a signal that chksigs met at an earlier preemption.
TrapInUser ==
    /\ CurrentAt("user") /\ cursig[u_ptab] # 0
    /\ sigvec' = [sigvec EXCEPT ![u_ptab][cursig[u_ptab]] = "dfl"]
    /\ cursig' = [cursig EXCEPT ![u_ptab] = 0]
    /\ UNCHANGED <<status, tableVars, sleepVars, pending, ignored, alarm, kpc, wpid,
                   u_ptab, rr, cpu>>

-----------------------------------------------------------------------------
(* The end of unix(): chksigs and calltrap. *)

ReturnQuiet ==
    /\ CurrentAt("ret") /\ Quiet(u_ptab)
    /\ sigvec' = IF cursig[u_ptab] = 0 THEN sigvec
                 ELSE [sigvec EXCEPT ![u_ptab][cursig[u_ptab]] = "dfl"]
    /\ cursig' = [cursig EXCEPT ![u_ptab] = 0]
    /\ GoTo("user")
    /\ UNCHANGED <<status, tableVars, sleepVars, pending, ignored, alarm, wpid,
                   u_ptab, rr, cpu>>

ReturnCatch(s) ==
    /\ CurrentAt("ret") /\ Catches(u_ptab, s)
    /\ pending' = [pending EXCEPT ![u_ptab] = @ \ {s}]
    /\ sigvec' = [sigvec EXCEPT ![u_ptab][s] = "dfl"]
    /\ cursig' = [cursig EXCEPT ![u_ptab] = 0]
    /\ GoTo("user")
    /\ UNCHANGED <<status, tableVars, sleepVars, ignored, alarm, wpid, u_ptab, rr, cpu>>

ReturnDies == CurrentAt("ret") /\ Dies(u_ptab) /\ Doexit

-----------------------------------------------------------------------------
(* fork, exec and waitpid. *)

\* ptab_alloc takes the first empty entry and a pid that no other entry has.
FreeSlot(c) ==
    /\ status[c] = "EMPTY"
    /\ \A p \in Slots : p < c => status[p] # "EMPTY"

PidsInUse == {pid[p] : p \in {q \in Slots : status[q] # "EMPTY"}}
Candidate(k) ==
    IF nextpid + k < MAXPID THEN nextpid + k + 1 ELSE nextpid + k - MAXPID + 1
Candidates == {Candidate(k) : k \in Slots}
NewPid(n) ==
    \E k \in Slots : /\ n = Candidate(k) /\ n \notin PidsInUse
                     /\ \A j \in Slots : j < k => Candidate(j) \in PidsInUse

\* ptab_alloc's bzero, and the pid.
ClearEntry(c, n) ==
    /\ FreeSlot(c) /\ NewPid(n)
    /\ pid' = [pid EXCEPT ![c] = n]
    /\ nextpid' = n
    /\ wait' = [wait EXCEPT ![c] = NULL]
    /\ intr' = [intr EXCEPT ![c] = FALSE]
    /\ pending' = [pending EXCEPT ![c] = {}]
    /\ alarm' = [alarm EXCEPT ![c] = 0]

\* The child runs first; the parent waits in the ready state.
ForkStatus(c) == [status EXCEPT ![u_ptab] = "READY", ![c] = "RUNNING"]

Fork ==
    /\ CurrentAt("user")
    /\ \E c \in Slots, n \in Candidates :
        /\ ClearEntry(c, n)
        /\ status' = ForkStatus(c)
        /\ pptr' = [pptr EXCEPT ![c] = u_ptab]
        /\ ignored' = [ignored EXCEPT ![c] = ignored[u_ptab]]
        /\ sigvec' = [sigvec EXCEPT ![c] = sigvec[u_ptab]]
        /\ cursig' = [cursig EXCEPT ![c] = 0]
        /\ kpc' = [kpc EXCEPT ![c] = "ret"]
        /\ wpid' = [wpid EXCEPT ![c] = 0]
        /\ u_ptab' = c
    /\ ptotal' = ptotal + 1
    /\ UNCHANGED <<rr, cpu>>

\* fork fails with EAGAIN when the table is full (any call that changes nothing
\* does as NoEffect) or when swap_alloc finds no memory for the child.
ForkNoMemory ==
    /\ CurrentAt("user")
    /\ \E c \in Slots, n \in Candidates :
        /\ ClearEntry(c, n)
        /\ pptr' = [pptr EXCEPT ![c] = Nobody]
        /\ ignored' = [ignored EXCEPT ![c] = {}]
    /\ GoTo("ret")
    /\ UNCHANGED <<status, ptotal, sigvec, cursig, wpid, u_ptab, rr, cpu>>

\* execve turns caught signals off; it fails after that if the arguments do not fit.
Exec ==
    /\ CurrentAt("user")
    /\ sigvec' = [sigvec EXCEPT ![u_ptab] =
                    [s \in Sigs |-> IF @[s] = "ign" THEN "ign" ELSE "dfl"]]
    /\ \E point \in {"user", "ret"} : GoTo(point)
    /\ UNCHANGED <<status, tableVars, sleepVars, pending, ignored, alarm, cursig, wpid,
                   u_ptab, rr, cpu>>

Children == {p \in Slots \ {u_ptab} : status[p] # "EMPTY" /\ pptr[p] = u_ptab}
Zombies == {p \in Slots : status[p] = "ZOMBIE" /\ pptr[p] = u_ptab}

\* dowait looks at the first zombie only: if it is not the one asked for, the
\* continue statement goes round the loop with the same entry for ever.
Reap(n) ==
    \E z \in Zombies :
        /\ \A y \in Zombies : z <= y
        /\ IF n > 0 /\ pid[z] # n
           THEN cpu' = "hang" /\ UNCHANGED <<status, kpc>>
           ELSE /\ status' = [status EXCEPT ![z] = "EMPTY"]
                /\ GoTo("ret")
                /\ UNCHANGED cpu
        /\ UNCHANGED <<tableVars, sleepVars, signalVars, wpid, u_ptab, rr>>

WaitForChild(n) ==
    /\ Zombies = {}
    /\ Psleep(u_ptab)
    /\ GoTo("wait")
    /\ wpid' = [wpid EXCEPT ![u_ptab] = n]
    /\ UNCHANGED <<tableVars, signalVars, u_ptab, rr>>

\* waitpid(n): with WNOHANG and no zombie it is NoEffect.
Waitpid(n) ==
    /\ CurrentAt("user")
    /\ Children # {}
    /\ Reap(n) \/ WaitForChild(n)

WaitResumed ==
    /\ CurrentAt("wait") /\ ~intr[u_ptab]
    /\ Reap(wpid[u_ptab]) \/ WaitForChild(wpid[u_ptab])

\* EINTR, from waitpid or pause.
Interrupted ==
    /\ CurrentAt("pause") \/ (CurrentAt("wait") /\ intr[u_ptab])
    /\ GoTo("ret")
    /\ UNCHANGED <<status, tableVars, sleepVars, signalVars, wpid, u_ptab, rr, cpu>>

-----------------------------------------------------------------------------
(* The other system calls that sleep, wake up or signal. *)

Pause ==
    /\ CurrentAt("user")
    /\ Psleep(NULL)
    /\ GoTo("pause")
    /\ UNCHANGED <<tableVars, signalVars, wpid, u_ptab, rr>>

\* A pipe or terminal call sleeps, and sleeps again until it has what it needs.
SleepOn(event) ==
    /\ CurrentAt("user") \/ CurrentAt("sleep")
    /\ Psleep(event)
    /\ GoTo("sleep")
    /\ UNCHANGED <<tableVars, signalVars, wpid, u_ptab, rr>>

Slept ==
    /\ CurrentAt("sleep")
    /\ GoTo("ret")
    /\ UNCHANGED <<status, tableVars, sleepVars, signalVars, wpid, u_ptab, rr, cpu>>

\* wakeup(event) from a system call or from the keyboard interrupt.
Wakeup(event) ==
    /\ Alive /\ Waiting(event) # {}
    /\ status' = [p \in Slots |-> IF p \in Waiting(event) THEN "READY" ELSE status[p]]
    /\ wait' = [p \in Slots |-> IF p \in Waiting(event) THEN NULL ELSE wait[p]]
    /\ UNCHANGED <<tableVars, intr, signalVars, kpc, wpid, u_ptab, rr, cpu>>

NoEffect ==
    /\ CurrentAt("user")
    /\ GoTo("ret")
    /\ UNCHANGED <<status, tableVars, sleepVars, signalVars, wpid, u_ptab, rr, cpu>>

\* findprocess returns the first entry with that pid, whatever its status.
FoundByPid(n) == {p \in Slots : pid[p] = n /\ \A q \in Slots : q < p => pid[q] # n}

Kill(n, sig) ==
    /\ CurrentAt("user")
    /\ sig < NSIGS /\ n > 1
    /\ Ssig(FoundByPid(n), sig)
    /\ GoTo("ret")
    /\ UNCHANGED <<tableVars, ignored, alarm, sigvec, cursig, wpid, u_ptab, rr, cpu>>

Signal(sig, func) ==
    /\ CurrentAt("user")
    /\ sig # SIGKILL
    /\ ignored' = [ignored EXCEPT ![u_ptab] =
                    IF func = "ign" THEN @ \cup {sig} ELSE @ \ {sig}]
    /\ sigvec' = [sigvec EXCEPT ![u_ptab][sig] = func]
    /\ GoTo("ret")
    /\ UNCHANGED <<status, tableVars, sleepVars, pending, alarm, cursig, wpid, u_ptab,
                   rr, cpu>>

Alarm(secs) ==
    /\ CurrentAt("user")
    /\ alarm' = [alarm EXCEPT ![u_ptab] = secs]
    /\ GoTo("ret")
    /\ UNCHANGED <<status, tableVars, sleepVars, pending, ignored, sigvec, cursig, wpid,
                   u_ptab, rr, cpu>>

-----------------------------------------------------------------------------
(* Interrupts. *)

\* The once-per-second part of clk_int, over all entries, empty or not.
Expiring == {p \in Slots : alarm[p] = 1}

Second ==
    /\ Alive /\ \E p \in Slots : alarm[p] # 0
    /\ Ssig(Expiring, SIGALRM)
    /\ alarm' = [p \in Slots |-> IF alarm[p] = 0 THEN 0 ELSE alarm[p] - 1]
    /\ UNCHANGED <<tableVars, ignored, sigvec, cursig, kpc, wpid, u_ptab, rr, cpu>>

\* tty_poll meets ^C and signals the process the kernel works for.
KeyboardIntr ==
    /\ Alive
    /\ Ssig({u_ptab}, SIGINT)
    /\ UNCHANGED <<tableVars, ignored, alarm, sigvec, cursig, kpc, wpid, u_ptab, rr, cpu>>

-----------------------------------------------------------------------------
Next ==
    \/ Fork \/ ForkNoMemory \/ Exec \/ Exit \/ Pause \/ NoEffect
    \/ \E n \in WaitArgs : Waitpid(n)
    \/ WaitResumed \/ Interrupted \/ Slept
    \/ \E e \in Events : SleepOn(e) \/ Wakeup(e)
    \/ \E n \in 1 .. MAXPID, s \in Sigs : Kill(n, s)
    \/ \E s \in Sigs, f \in Handlers : Signal(s, f)
    \/ \E secs \in 0 .. MAXALARM : Alarm(secs)
    \/ SwapoutQuiet \/ SwapoutDies \/ Dispatch \/ ExtraRunning \/ Preempt \/ TrapInUser
    \/ ReturnQuiet \/ ReturnDies
    \/ \E s \in Sigs : SwapoutCatch(s) \/ ReturnCatch(s)
    \/ Second \/ KeyboardIntr

Spec == Init /\ [][Next]_vars

\* The kernel's own steps are taken; and a process that is in user code again and
\* again is met there by a clock interrupt that finds its slice used up (runticks
\* is only reset by a switch, so this is strong fairness).
KernelStep ==
    \/ SwapoutQuiet \/ SwapoutDies \/ Dispatch \/ ReturnQuiet \/ ReturnDies
    \/ \E s \in Sigs : SwapoutCatch(s) \/ ReturnCatch(s)
    \/ WaitResumed \/ Interrupted \/ Slept

FairSpec == Spec /\ WF_vars(KernelStep) /\ SF_vars(Preempt)

-----------------------------------------------------------------------------
(* Properties. *)

\* A live or zombie process is found by its pid: no entry before it, in use or
\* left over from a reaped process, carries the same pid (findprocess does not
\* look at p_status, pids wrap around, entries are reused).
FoundAsItself == \A p \in Slots : status[p] # "EMPTY" => FoundByPid(pid[p]) = {p}

\* ptotal, which stops the system at zero, counts the processes that have not exited.
TotalExact ==
    ptotal = Cardinality({p \in Slots : status[p] \notin {"EMPTY", "ZOMBIE"}})

\* The parent of a process is never a free entry, which another process could be
\* given, and only initproc may be a dead parent.
ParentAlive ==
    \A p \in Slots : status[p] # "EMPTY" =>
        /\ pptr[p] \in Slots
        /\ status[pptr[p]] # "EMPTY"
        /\ status[pptr[p]] = "ZOMBIE" => pptr[p] = initproc

\* No signal is lost on a sleeper: a process that lies asleep has none pending,
\* whichever order psleep, the signal and the interrupts came in.
NoSignalAsleep == \A p \in Slots : status[p] \in Interruptible => pending[p] = {}

\* A parent other than initproc does not lie in waitpid with a dead child.
WaitersNotified ==
    \A p, q \in Slots : /\ status[p] = "WAIT" /\ p # initproc
                        /\ status[q] = "ZOMBIE" /\ q # p
                        => pptr[q] # p

\* A second process is P_RUNNING only if psleep left it so for a pending signal
\* that it catches, or ignores since; and nextready panics for no other reason.
Handled(p) == \E s \in Sigs : sigvec[p][s] # "dfl"
Skipped(p) ==
    /\ intr[p] /\ kpc[p] \in {"pause", "wait", "sleep"}
    /\ Handled(p) \/ (cpu = "swapout" /\ p = u_ptab)
OneRunner ==
    /\ cpu = "run" => status[u_ptab] = "RUNNING"
    /\ \A p \in Slots : status[p] = "RUNNING" =>
            (cpu \in {"run", "hang"} /\ p = u_ptab) \/ Skipped(p)
    /\ cpu = "panic" => \E p \in Slots : status[p] = "RUNNING" /\ Skipped(p)

\* Only the live parent frees a zombie's entry, in waitpid.
ReapedByParent ==
    [][\A p \in Slots : status[p] = "ZOMBIE" /\ status'[p] # "ZOMBIE" =>
            /\ status'[p] = "EMPTY"
            /\ u_ptab = pptr[p] /\ cpu = "run" /\ status[u_ptab] # "ZOMBIE"]_vars

\* The process layer implements the process tree of ProcTree.
Tree == INSTANCE ProcTree WITH
    Entries <- Slots, First <- initproc, NoParent <- Nobody,
    live <- {p \in Slots : status[p] \notin {"EMPTY", "ZOMBIE"}},
    dead <- {p \in Slots : status[p] = "ZOMBIE"},
    parent <- [p \in Slots |-> IF status[p] = "EMPTY" THEN Nobody ELSE pptr[p]]

TreeSpec == Tree!Spec

\* nextready's assertion, panic("nextready: extra running"), never fires.
NeverExtraRunning == cpu # "panic"

\* The round robin starves nobody: a ready process is run, or the system stops.
ReadyRuns == \A p \in Slots : status[p] = "READY" ~> (status[p] # "READY" \/ ~Alive)

=============================================================================
