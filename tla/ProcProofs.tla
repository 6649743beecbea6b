----------------------------- MODULE ProcProofs -----------------------------
(***************************************************************************)
(* Proofs about Proc, for every value of its constants.                    *)
(***************************************************************************)
EXTENDS Proc, FiniteSetTheorems, TLAPS

USE ProcAssumption

\* The table is not empty, and the counters stay where they are read.
LEMMA InitprocIsSlot == initproc \in Slots
BY DEF initproc, Slots

\* ptab_alloc's next candidate is a pid, for any value of the static counter.
LEMMA CandidateIsPid ==
    ASSUME TypeOK, NEW k \in Slots
    PROVE  Candidate(k) \in 1 .. MAXPID
BY DEF TypeOK, Candidate, Slots

\* nextready looks at entries of the table only.
LEMMA ScannedIsSlot ==
    ASSUME TypeOK, NEW k \in Slots
    PROVE  Scanned(k) \in Slots
BY DEF TypeOK, Scanned, ScanStart, Slots

LEMMA PsleepType ==
    ASSUME TypeOK, NEW event \in Slots \cup Events \cup {NULL}, Psleep(event)
    PROVE  /\ status' \in [Slots -> Statuses]
           /\ wait' \in [Slots -> Slots \cup Events \cup {NULL}]
           /\ intr' \in [Slots -> BOOLEAN]
           /\ cpu' \in CpuModes
<1>1. CASE MayLieDown
  <2>1. /\ status' = [status EXCEPT ![u_ptab] = SleepState(event)]
        /\ wait' = [wait EXCEPT ![u_ptab] = event]
    BY <1>1 DEF Psleep
  <2>2. SleepState(event) \in Statuses
    BY DEF SleepState, Statuses
  <2>3. intr' \in [Slots -> BOOLEAN]
    BY Zenon DEF Psleep, TypeOK, MayLieDown
  <2>. QED BY <2>1, <2>2, <2>3 DEF TypeOK, Psleep, CpuModes
<1>2. CASE ~MayLieDown
  <2>1. intr' \in [Slots -> BOOLEAN]
    BY Zenon DEF Psleep, TypeOK, MayLieDown
  <2>. QED BY <1>2, <2>1 DEF TypeOK, Psleep, CpuModes
<1>. QED BY <1>1, <1>2

LEMMA SsigType ==
    ASSUME TypeOK, NEW T, NEW sig \in Sigs, Ssig(T, sig)
    PROVE  /\ status' \in [Slots -> Statuses]
           /\ wait' \in [Slots -> Slots \cup Events \cup {NULL}]
           /\ intr' \in [Slots -> BOOLEAN]
           /\ pending' \in [Slots -> SUBSET Sigs]
BY DEF TypeOK, Ssig, Statuses

LEMMA DoexitType == ASSUME TypeOK, Doexit PROVE TypeOK'
<1>. USE DEF Doexit
<1>1. status' \in [Slots -> Statuses] /\ cpu' \in CpuModes
  BY DEF TypeOK, Statuses, CpuModes
<1>2. /\ wait' \in [Slots -> Slots \cup Events \cup {NULL}]
      /\ pptr' \in [Slots -> Slots \cup {Nobody}]
  BY InitprocIsSlot DEF TypeOK
<1>3. PICK m \in StimeMinutes : alarm' = [alarm EXCEPT ![u_ptab] = m]
  OBVIOUS
<1>4. alarm' \in [Slots -> Nat] /\ ptotal' \in Int
  BY <1>3 DEF TypeOK
<1>5. NoVectors \in [Sigs -> {"dfl", "ign", "catch"}]
  BY DEF NoVectors
<1>6. /\ sigvec' \in [Slots -> [Sigs -> {"dfl", "ign", "catch"}]]
      /\ cursig' \in [Slots -> 0 .. NSIGS]
      /\ kpc' \in [Slots -> KernelPoints]
      /\ wpid' \in [Slots -> 0 .. MAXPID]
  BY <1>5 DEF TypeOK, KernelPoints, GoTo
<1>. QED BY <1>1, <1>2, <1>4, <1>6 DEF TypeOK

LEMMA ReapType == ASSUME TypeOK, NEW n, Reap(n) PROVE TypeOK'
BY DEF TypeOK, Reap, Statuses, CpuModes, KernelPoints, GoTo, Zombies, tableVars, sleepVars, signalVars

LEMMA WaitForChildType ==
    ASSUME TypeOK, NEW n \in 0 .. MAXPID, WaitForChild(n) PROVE TypeOK'
<1>1. u_ptab \in Slots \cup Events \cup {NULL} BY DEF TypeOK
<1>2. Psleep(u_ptab) BY DEF WaitForChild
<1>. QED BY <1>1, <1>2, PsleepType
         DEF TypeOK, WaitForChild, KernelPoints, GoTo, tableVars, signalVars

LEMMA ClearEntryType ==
    ASSUME TypeOK, NEW c \in Slots, NEW n \in 1 .. MAXPID, ClearEntry(c, n)
    PROVE  /\ pid' \in [Slots -> 0 .. MAXPID] /\ nextpid' \in 0 .. MAXPID
           /\ wait' \in [Slots -> Slots \cup Events \cup {NULL}]
           /\ intr' \in [Slots -> BOOLEAN]
           /\ pending' \in [Slots -> SUBSET Sigs]
           /\ alarm' \in [Slots -> Nat]
<1>1. intr' \in [Slots -> BOOLEAN]
  BY Zenon DEF ClearEntry, TypeOK
<1>. QED BY <1>1 DEF ClearEntry, TypeOK

LEMMA TypeStep == TypeOK /\ [Next]_vars => TypeOK'
<1>. SUFFICES ASSUME TypeOK, [Next]_vars PROVE TypeOK'
  OBVIOUS
<1>. USE DEF KernelPoints, GoTo, tableVars, sleepVars, signalVars
<1>1. CASE Fork
  <2>1. PICK c \in Slots, n \in 1 .. MAXPID :
            /\ ClearEntry(c, n) /\ status' = ForkStatus(c)
            /\ pptr' = [pptr EXCEPT ![c] = u_ptab]
            /\ ignored' = [ignored EXCEPT ![c] = ignored[u_ptab]]
            /\ sigvec' = [sigvec EXCEPT ![c] = sigvec[u_ptab]]
            /\ cursig' = [cursig EXCEPT ![c] = 0]
            /\ kpc' = [kpc EXCEPT ![c] = "ret"]
            /\ wpid' = [wpid EXCEPT ![c] = 0]
            /\ u_ptab' = c
    BY <1>1, CandidateIsPid DEF Fork, Candidates
  <2>2. ptotal' \in Int /\ rr' = rr /\ cpu' = cpu
    BY <1>1 DEF Fork, TypeOK
  <2>3. /\ status' \in [Slots -> Statuses]
        /\ pptr' \in [Slots -> Slots \cup {Nobody}]
        /\ ignored' \in [Slots -> SUBSET Sigs]
    BY <2>1 DEF TypeOK, ForkStatus, Statuses
  <2>4. /\ sigvec' \in [Slots -> [Sigs -> {"dfl", "ign", "catch"}]]
        /\ cursig' \in [Slots -> 0 .. NSIGS]
        /\ kpc' \in [Slots -> KernelPoints]
        /\ wpid' \in [Slots -> 0 .. MAXPID]
    BY <2>1 DEF TypeOK
  <2>. QED BY <2>1, <2>2, <2>3, <2>4, ClearEntryType DEF TypeOK
<1>2. CASE ForkNoMemory
  <2>1. PICK c \in Slots, n \in 1 .. MAXPID :
            /\ ClearEntry(c, n)
            /\ pptr' = [pptr EXCEPT ![c] = Nobody]
            /\ ignored' = [ignored EXCEPT ![c] = {}]
    BY <1>2, CandidateIsPid DEF ForkNoMemory, Candidates
  <2>. QED BY <1>2, <2>1, ClearEntryType DEF TypeOK, ForkNoMemory
<1>3. CASE Exec
  BY <1>3 DEF TypeOK, Exec
<1>4. CASE Exit \/ SwapoutDies \/ ReturnDies
  BY <1>4, DoexitType DEF Exit, SwapoutDies, ReturnDies
<1>5. CASE Pause
  BY <1>5, PsleepType DEF Pause, TypeOK
<1>6. CASE NoEffect \/ Interrupted \/ Slept
  BY <1>6 DEF TypeOK, NoEffect, Interrupted, Slept
<1>7. CASE \E n \in WaitArgs : Waitpid(n)
  BY <1>7, ReapType, WaitForChildType DEF Waitpid
<1>8. CASE WaitResumed
  BY <1>8, ReapType, WaitForChildType DEF WaitResumed, TypeOK
<1>9. CASE \E e \in Events : SleepOn(e)
  BY <1>9, PsleepType DEF SleepOn, TypeOK
<1>10. CASE \E e \in Events : Wakeup(e)
  BY <1>10 DEF TypeOK, Wakeup, Statuses
<1>11. CASE \E n \in 1 .. MAXPID, s \in Sigs : Kill(n, s)
  BY <1>11, SsigType DEF TypeOK, Kill
<1>12. CASE \E s \in Sigs, f \in Handlers : Signal(s, f)
  BY <1>12 DEF TypeOK, Signal
<1>13. CASE \E secs \in 0 .. MAXALARM : Alarm(secs)
  BY <1>13 DEF TypeOK, Alarm
<1>14. CASE SwapoutQuiet \/ ExtraRunning
  BY <1>14 DEF TypeOK, SwapoutQuiet, ExtraRunning, CpuModes
<1>15. CASE Dispatch
  BY <1>15, ScannedIsSlot DEF TypeOK, Dispatch, Statuses, CpuModes
<1>16. CASE Preempt
  BY <1>16 DEF TypeOK, Preempt, Statuses, CpuModes
<1>17. CASE TrapInUser \/ ReturnQuiet
  <2>1. cursig' \in [Slots -> 0 .. NSIGS]
    BY <1>17 DEF TypeOK, TrapInUser, ReturnQuiet
  <2>2. [sigvec EXCEPT ![u_ptab][cursig[u_ptab]] = "dfl"]
            \in [Slots -> [Sigs -> {"dfl", "ign", "catch"}]]
    BY DEF TypeOK
  <2>3. sigvec' \in [Slots -> [Sigs -> {"dfl", "ign", "catch"}]]
    BY <1>17, <2>2 DEF TypeOK, TrapInUser, ReturnQuiet
  <2>4. kpc' \in [Slots -> KernelPoints]
    BY <1>17 DEF TypeOK, TrapInUser, ReturnQuiet
  <2>. QED BY <1>17, <2>1, <2>3, <2>4 DEF TypeOK, TrapInUser, ReturnQuiet
<1>18. CASE \E s \in Sigs : SwapoutCatch(s)
  BY <1>18 DEF TypeOK, SwapoutCatch, CpuModes, Sigs
<1>19. CASE \E s \in Sigs : ReturnCatch(s)
  BY <1>19 DEF TypeOK, ReturnCatch, Sigs
<1>20. CASE Second
  BY <1>20, SsigType DEF TypeOK, Second
<1>21. CASE KeyboardIntr
  BY <1>21, SsigType DEF TypeOK, KeyboardIntr
<1>22. CASE UNCHANGED vars
  BY <1>22 DEF TypeOK, vars
<1>. QED
  BY <1>1, <1>2, <1>3, <1>4, <1>5, <1>6, <1>7, <1>8, <1>9, <1>10, <1>11, <1>12, <1>13,
     <1>14, <1>15, <1>16, <1>17, <1>18, <1>19, <1>20, <1>21, <1>22 DEF Next

LEMMA TypeInit == Init => TypeOK
BY InitprocIsSlot
   DEF Init, TypeOK, Statuses, CpuModes, KernelPoints, NoVectors, Nobody, initproc, Sigs

\* The fields of the process table and of the u-areas keep their types: pids stay
\* in their range, parents are entries, the scan pointers stay in the table.
THEOREM TypeCorrect == Spec => []TypeOK
BY TypeInit, TypeStep, PTL DEF Spec

-----------------------------------------------------------------------------
(* One process runs. *)

\* OneRunner, and a process on its way through swapout is alive, and has a signal
\* pending if it did not lie down.
RunnerInv ==
    /\ OneRunner
    /\ cpu = "swapout" => /\ status[u_ptab] \notin {"EMPTY", "ZOMBIE"}
                          /\ status[u_ptab] = "RUNNING" => pending[u_ptab] # {}

\* A process that the kernel does not work for stays as psleep left it.
Rests(p) == (intr[p] => intr'[p]) /\ kpc'[p] = kpc[p] /\ sigvec'[p] = sigvec[p]
LEMMA StaysSkipped ==
    ASSUME NEW p \in Slots, p # u_ptab, Skipped(p), Rests(p)
    PROVE  Skipped(p)'
BY DEF Skipped, Handled, Rests

LEMMA DoexitRunner == ASSUME TypeOK, RunnerInv, Doexit PROVE RunnerInv'
<1>1. cpu' \notin {"run", "swapout", "hang"}
  BY DEF Doexit
<1>2. ASSUME NEW p \in Slots, status'[p] = "RUNNING" PROVE p # u_ptab /\ status[p] = "RUNNING"
  BY <1>2 DEF Doexit, TypeOK
<1>3. ASSUME NEW p \in Slots, p # u_ptab PROVE Rests(p)
  BY <1>3 DEF Doexit, TypeOK, GoTo, Rests
<1>4. cpu' # "panic"
  BY DEF Doexit
<1>. QED BY <1>1, <1>2, <1>3, <1>4, StaysSkipped DEF RunnerInv, OneRunner

\* psleep leaves the process asleep, or P_RUNNING and marked as interrupted.
LEMMA PsleepRunner ==
    ASSUME TypeOK, RunnerInv, cpu = "run", u_ptab' = u_ptab, UNCHANGED signalVars,
           NEW event, Psleep(event),
           NEW point \in {"pause", "wait", "sleep"}, GoTo(point)
    PROVE  RunnerInv'
<1>1. ASSUME NEW p \in Slots, p # u_ptab
      PROVE  status'[p] = status[p] /\ Rests(p)
  BY <1>1 DEF Psleep, TypeOK, GoTo, Rests, signalVars
<1>2. kpc'[u_ptab] = point
  BY DEF TypeOK, GoTo
<1>3. status'[u_ptab] = "RUNNING" => intr'[u_ptab] /\ pending'[u_ptab] # {}
  <2>1. CASE MayLieDown
    BY <2>1 DEF Psleep, TypeOK, SleepState
  <2>2. CASE ~MayLieDown
    BY <2>2, Zenon DEF Psleep, TypeOK, MayLieDown, signalVars
  <2>. QED BY <2>1, <2>2
<1>4. status'[u_ptab] \notin {"EMPTY", "ZOMBIE"}
  BY DEF Psleep, TypeOK, SleepState, RunnerInv, OneRunner
<1>5. cpu' = "swapout"
  BY DEF Psleep
<1>6. status'[u_ptab] = "RUNNING" => Skipped(u_ptab)'
  BY <1>2, <1>3, <1>5 DEF Skipped
<1>. QED BY <1>1, <1>3, <1>4, <1>5, <1>6, StaysSkipped DEF RunnerInv, OneRunner

\* A signal rouses sleepers only; who runs stays as it is.
LEMMA SsigRunner ==
    ASSUME TypeOK, NEW T, NEW sig, Ssig(T, sig)
    PROVE  \A p \in Slots :
             /\ status'[p] = "RUNNING" <=> status[p] = "RUNNING"
             /\ status'[p] \in {"EMPTY", "ZOMBIE"} <=> status[p] \in {"EMPTY", "ZOMBIE"}
             /\ intr[p] => intr'[p]
             /\ pending[p] # {} => pending'[p] # {}
BY DEF TypeOK, Ssig, Roused, Reached, Interruptible

LEMMA ReapRunner == ASSUME TypeOK, RunnerInv, cpu = "run", NEW n, Reap(n) PROVE RunnerInv'
<1>1. u_ptab' = u_ptab /\ intr' = intr /\ cpu' \in {"run", "hang"}
  BY DEF Reap, sleepVars
<1>2. \A p \in Slots : p # u_ptab => Rests(p)
  BY DEF Reap, GoTo, TypeOK, Rests, sleepVars, signalVars
<1>3. status[u_ptab] = "RUNNING"
  BY DEF RunnerInv, OneRunner
<1>4. \A p \in Slots : status'[p] # status[p] => status[p] = "ZOMBIE" /\ status'[p] = "EMPTY"
  BY DEF Reap, TypeOK, Zombies
<1>5. status'[u_ptab] = "RUNNING"
  BY <1>3, <1>4 DEF TypeOK
<1>. QED BY <1>1, <1>2, <1>3, <1>4, <1>5, StaysSkipped DEF RunnerInv, OneRunner, TypeOK

LEMMA RunnerStep == TypeOK /\ RunnerInv /\ [Next]_vars => RunnerInv'
<1>. SUFFICES ASSUME TypeOK, RunnerInv, [Next]_vars PROVE RunnerInv'
  OBVIOUS
<1>. USE DEF GoTo, tableVars, sleepVars, signalVars, CurrentAt
<1>1. CASE Fork
  <2>1. PICK c \in Slots, n \in Candidates :
            /\ ClearEntry(c, n) /\ status' = ForkStatus(c)
            /\ kpc' = [kpc EXCEPT ![c] = "ret"]
            /\ sigvec' = [sigvec EXCEPT ![c] = sigvec[u_ptab]]
            /\ u_ptab' = c
    BY <1>1 DEF Fork
  <2>2. cpu = "run" /\ cpu' = "run" /\ status[u_ptab] = "RUNNING" /\ status[c] = "EMPTY"
    BY <1>1, <2>1 DEF Fork, ClearEntry, FreeSlot, RunnerInv, OneRunner
  <2>3. \A p \in Slots : status'[p] = "RUNNING" <=>
                            p = c \/ (p # u_ptab /\ status[p] = "RUNNING")
    BY <2>1, <2>2 DEF ForkStatus, TypeOK
  <2>4. \A p \in Slots : p # c => Rests(p)
    BY <2>1 DEF ClearEntry, TypeOK, Rests
  <2>. QED BY <2>1, <2>2, <2>3, <2>4, StaysSkipped DEF RunnerInv, OneRunner
<1>2. CASE ForkNoMemory
  <2>1. PICK c \in Slots, n \in Candidates : ClearEntry(c, n)
    BY <1>2 DEF ForkNoMemory
  <2>2. status[c] = "EMPTY" /\ cpu = "run" /\ UNCHANGED <<status, u_ptab, cpu>>
    BY <1>2, <2>1 DEF ForkNoMemory, ClearEntry, FreeSlot
  <2>3. \A p \in Slots : p # c /\ p # u_ptab => Rests(p)
    BY <1>2, <2>1 DEF ForkNoMemory, ClearEntry, TypeOK, Rests
  <2>. QED BY <2>2, <2>3, StaysSkipped DEF RunnerInv, OneRunner
<1>3. CASE Exit \/ SwapoutDies \/ ReturnDies
  BY <1>3, DoexitRunner DEF Exit, SwapoutDies, ReturnDies
<1>4. CASE Pause
  BY <1>4, PsleepRunner DEF Pause
<1>5. CASE \E e \in Events : SleepOn(e)
  BY <1>5, PsleepRunner DEF SleepOn
<1>6. CASE (\E n \in WaitArgs : Waitpid(n)) \/ WaitResumed
  <2>1. ASSUME NEW n, Reap(n), cpu = "run" PROVE RunnerInv'
    BY <2>1, ReapRunner
  <2>2. ASSUME NEW n, WaitForChild(n), cpu = "run" PROVE RunnerInv'
    <3>. u_ptab' = u_ptab /\ Psleep(u_ptab) /\ GoTo("wait") /\ UNCHANGED signalVars
      BY <2>2 DEF WaitForChild
    <3>. QED BY <2>2, PsleepRunner
  <2>. QED BY <1>6, <2>1, <2>2 DEF Waitpid, WaitResumed
<1>7. CASE \/ Exec \/ NoEffect \/ Interrupted \/ Slept \/ ReturnQuiet
           \/ \E s \in Sigs : ReturnCatch(s)
           \/ \E s \in Sigs, f \in Handlers : Signal(s, f)
           \/ \E secs \in 0 .. MAXALARM : Alarm(secs)
  <2>1. cpu = "run" /\ UNCHANGED <<status, intr, u_ptab, cpu>>
    BY <1>7 DEF Exec, NoEffect, Interrupted, Slept, ReturnQuiet, ReturnCatch, Signal, Alarm
  <2>2. \A p \in Slots : p # u_ptab => Rests(p)
    BY <1>7 DEF TypeOK, Exec, NoEffect, Interrupted, Slept, ReturnQuiet, ReturnCatch,
                Signal, Alarm, Rests
  <2>. QED BY <2>1, <2>2, StaysSkipped DEF RunnerInv, OneRunner
<1>8. CASE \E e \in Events : Wakeup(e)
  <2>1. UNCHANGED <<intr, kpc, pending, sigvec, u_ptab, cpu>> /\ cpu # "panic"
    BY <1>8 DEF Wakeup, Alive
  <2>2. \A p \in Slots : /\ status'[p] = "RUNNING" <=> status[p] = "RUNNING"
                         /\ status'[p] \in {"EMPTY", "ZOMBIE"} => status'[p] = status[p]
    BY <1>8 DEF Wakeup, Waiting, Interruptible, TypeOK
  <2>. QED BY <2>1, <2>2 DEF RunnerInv, OneRunner, Skipped, Handled, TypeOK
<1>9. CASE \E n \in 1 .. MAXPID, s \in Sigs : Kill(n, s)
  <2>1. PICK n, s : Kill(n, s)
    BY <1>9
  <2>2. \A p \in Slots : p # u_ptab => Rests(p)
    BY <2>1, SsigRunner DEF Kill, TypeOK, Rests
  <2>3. cpu = "run" /\ UNCHANGED <<u_ptab, cpu>>
    BY <2>1 DEF Kill
  <2>. QED BY <2>1, <2>2, <2>3, SsigRunner, StaysSkipped DEF Kill, RunnerInv, OneRunner, TypeOK
<1>10. CASE Second \/ KeyboardIntr
  <2>1. UNCHANGED <<kpc, sigvec, u_ptab, cpu>> /\ cpu # "panic"
    BY <1>10 DEF Second, KeyboardIntr, Alive
  <2>2. PICK T, sig : Ssig(T, sig)
    BY <1>10 DEF Second, KeyboardIntr
  <2>3. \A p \in Slots : Skipped(p) => Skipped(p)'
    BY <2>1, <2>2, SsigRunner DEF Skipped, Handled
  <2>. QED BY <2>1, <2>2, <2>3, SsigRunner DEF RunnerInv, OneRunner, TypeOK
<1>11. CASE ExtraRunning
  <2>1. PICK q \in Slots : status[q] = "RUNNING"
    BY <1>11, ScannedIsSlot DEF ExtraRunning
  <2>2. \A p \in Slots : Skipped(p) => Skipped(p)'
    BY <1>11 DEF ExtraRunning, Skipped, Handled
  <2>. QED BY <1>11, <2>1, <2>2 DEF ExtraRunning, RunnerInv, OneRunner
<1>12. CASE SwapoutQuiet \/ \E s \in Sigs : SwapoutCatch(s)
  <2>1. /\ cpu = "swapout" /\ cpu' = "idle"
        /\ UNCHANGED <<status, intr, kpc, sigvec, u_ptab>>
    BY <1>12 DEF SwapoutQuiet, SwapoutCatch
  <2>2. status[u_ptab] = "RUNNING" => Handled(u_ptab)
    <3>1. CASE SwapoutQuiet
      BY <3>1 DEF SwapoutQuiet, Quiet, Acted, RunnerInv, Handled, TypeOK
    <3>2. ASSUME NEW s \in Sigs, SwapoutCatch(s) PROVE Handled(u_ptab)
      BY <3>2 DEF SwapoutCatch, Catches, Handled
    <3>. QED BY <1>12, <3>1, <3>2
  <2>. QED BY <2>1, <2>2 DEF RunnerInv, OneRunner, Skipped, Handled
<1>13. CASE Dispatch
  <2>1. PICK q \in Slots : /\ u_ptab' = q /\ status' = [status EXCEPT ![q] = "RUNNING"]
    BY <1>13, ScannedIsSlot DEF Dispatch
  <2>2. \A p \in Slots : Skipped(p) => Skipped(p)'
    BY <1>13 DEF Dispatch, Skipped, Handled
  <2>. QED BY <1>13, <2>1, <2>2 DEF Dispatch, RunnerInv, OneRunner, TypeOK
<1>14. CASE Preempt
  <2>1. \A p \in Slots : p # u_ptab => Rests(p)
    BY <1>14 DEF Preempt, Rests
  <2>. QED BY <1>14, <2>1, StaysSkipped DEF Preempt, RunnerInv, OneRunner, TypeOK
<1>15. CASE TrapInUser
  <2>1. \A p \in Slots : p # u_ptab => Rests(p)
    BY <1>15 DEF TrapInUser, Rests, TypeOK
  <2>. QED BY <1>15, <2>1, StaysSkipped DEF TrapInUser, RunnerInv, OneRunner
<1>16. CASE UNCHANGED vars
  BY <1>16 DEF vars, RunnerInv, OneRunner, Skipped, Handled
<1>. QED
  BY <1>1, <1>2, <1>3, <1>4, <1>5, <1>6, <1>7, <1>8, <1>9, <1>10, <1>11, <1>12, <1>13,
     <1>14, <1>15, <1>16 DEF Next

LEMMA RunnerInit == Init => RunnerInv
BY InitprocIsSlot DEF Init, RunnerInv, OneRunner

LEMMA RunnerCorrect == Spec => []RunnerInv
BY RunnerInit, RunnerStep, TypeCorrect, PTL DEF Spec

\* At most one process is P_RUNNING, except for one that psleep left so because of a
\* signal that it catches or has come to ignore: the only way into nextready's panic.
THEOREM SingleRunner == Spec => []OneRunner
<1>. RunnerInv => OneRunner
  BY DEF RunnerInv
<1>. QED BY RunnerCorrect, PTL

\* While no process has given signal() anything but SIG_DFL, the assertion of
\* nextready holds: a pending signal that keeps a process from lying down kills it.
THEOREM DefaultsNeverPanic ==
    Spec => []((\A p \in Slots : ~Handled(p)) => NeverExtraRunning)
<1>. RunnerInv => ((\A p \in Slots : ~Handled(p)) => NeverExtraRunning)
  BY DEF RunnerInv, OneRunner, Skipped, NeverExtraRunning
<1>. QED BY RunnerCorrect, PTL

-----------------------------------------------------------------------------
(* The round robin. *)

\* How many entries nextready looks at before p's.
Ahead(p) == IF p > rr THEN p - rr - 1 ELSE p - rr - 1 + PTABSIZE

\* A process that is left ready is never further from its turn than before, and
\* nearer each time another one is run.
TurnComes ==
    [][\A p \in Slots : status[p] = "READY" /\ status'[p] = "READY" =>
         IF cpu = "idle" /\ cpu' = "run" THEN Ahead(p)' < Ahead(p) ELSE rr' = rr]_vars

LEMMA ScannedInTurn ==
    ASSUME TypeOK, NEW p \in Slots
    PROVE  Ahead(p) \in Slots /\ Scanned(Ahead(p)) = p
BY DEF TypeOK, Slots, Scanned, ScanStart, Ahead

LEMMA DispatchNearer ==
    ASSUME TypeOK, Dispatch, NEW p \in Slots, status[p] = "READY", status'[p] = "READY"
    PROVE  Ahead(p)' < Ahead(p)
<1>1. PICK k \in Slots : /\ FirstFound(k) /\ rr' = Scanned(k)
                         /\ status' = [status EXCEPT ![Scanned(k)] = "RUNNING"]
  BY DEF Dispatch
<1>2. Scanned(k) \in Slots /\ p # Scanned(k)
  BY <1>1, ScannedIsSlot DEF TypeOK
<1>3. Ahead(p) \in Slots /\ Scanned(Ahead(p)) = p
  BY ScannedInTurn
<1>4. ~(Ahead(p) < k) /\ Ahead(p) # k
  BY <1>1, <1>2, <1>3 DEF FirstFound
<1>5. /\ rr \in 0 .. PTABSIZE - 1 /\ p \in 0 .. PTABSIZE - 1 /\ k \in 0 .. PTABSIZE - 1
      /\ PTABSIZE \in Nat
  BY DEF TypeOK, Slots
<1>6. rr' = IF rr + 1 + k < PTABSIZE THEN rr + 1 + k ELSE rr + 1 + k - PTABSIZE
  BY <1>1 DEF Scanned, ScanStart
<1>7. Ahead(p) = IF p > rr THEN p - rr - 1 ELSE p - rr - 1 + PTABSIZE
  BY DEF Ahead
<1>8. Ahead(p)' = IF p > rr' THEN p - rr' - 1 ELSE p - rr' - 1 + PTABSIZE
  BY DEF Ahead
<1>9. Ahead(p) > k
  BY <1>4, <1>5, <1>7
<1>. QED BY <1>5, <1>6, <1>7, <1>8, <1>9

\* The scan of nextready gives every process that stays ready its turn: what is
\* safety in ReadyRuns, for tables of any size.
THEOREM RoundRobin == Spec => TurnComes
<1>1. TypeOK /\ [Next]_vars =>
        [\A p \in Slots : status[p] = "READY" /\ status'[p] = "READY" =>
           IF cpu = "idle" /\ cpu' = "run" THEN Ahead(p)' < Ahead(p) ELSE rr' = rr]_vars
  <2>. SUFFICES ASSUME TypeOK, [Next]_vars, NEW p \in Slots,
                       status[p] = "READY", status'[p] = "READY"
                PROVE  IF cpu = "idle" /\ cpu' = "run" THEN Ahead(p)' < Ahead(p) ELSE rr' = rr
    OBVIOUS
  <2>1. CASE Dispatch
    BY <2>1, DispatchNearer DEF Dispatch
  <2>2. CASE Fork \/ ForkNoMemory \/ Exec \/ Exit \/ Pause \/ NoEffect
    BY <2>2 DEF Fork, ForkNoMemory, Exec, Exit, Doexit, Pause, NoEffect, CurrentAt
  <2>3. CASE \/ (\E n \in WaitArgs : Waitpid(n)) \/ WaitResumed \/ Interrupted \/ Slept
             \/ \E e \in Events : SleepOn(e) \/ Wakeup(e)
    BY <2>3 DEF Waitpid, WaitResumed, Reap, WaitForChild, Interrupted, Slept, SleepOn, Wakeup,
                CurrentAt
  <2>4. CASE \/ \E n \in 1 .. MAXPID, s \in Sigs : Kill(n, s)
             \/ \E s \in Sigs, f \in Handlers : Signal(s, f)
             \/ \E secs \in 0 .. MAXALARM : Alarm(secs)
             \/ Second \/ KeyboardIntr
    BY <2>4 DEF Kill, Signal, Alarm, Second, KeyboardIntr, CurrentAt
  <2>5. CASE \/ SwapoutQuiet \/ SwapoutDies \/ ExtraRunning \/ Preempt \/ TrapInUser
             \/ ReturnQuiet \/ ReturnDies
             \/ \E s \in Sigs : SwapoutCatch(s) \/ ReturnCatch(s)
    BY <2>5 DEF SwapoutQuiet, SwapoutDies, Doexit, ExtraRunning, Preempt, TrapInUser, ReturnQuiet,
                ReturnDies, SwapoutCatch, ReturnCatch, CurrentAt
  <2>6. CASE UNCHANGED vars
    BY <2>6 DEF vars
  <2>. QED BY <2>1, <2>2, <2>3, <2>4, <2>5, <2>6 DEF Next
<1>. QED BY <1>1, TypeCorrect, PTL DEF Spec, TurnComes

-----------------------------------------------------------------------------
(* What the steps do to the life of processes. *)

\* Nobody is born, dies or is freed, and no process gets another parent.
KeepsLife ==
    /\ \A p \in Slots :
        /\ status'[p] = "EMPTY" <=> status[p] = "EMPTY"
        /\ status'[p] = "ZOMBIE" <=> status[p] = "ZOMBIE"
        /\ status[p] # "EMPTY" => pptr'[p] = pptr[p]
    /\ ptotal' = ptotal

InUse == status[u_ptab] \notin {"EMPTY", "ZOMBIE"}

LEMMA PsleepKeepsLife ==
    ASSUME TypeOK, InUse, NEW event, Psleep(event), UNCHANGED tableVars
    PROVE  KeepsLife /\ pid' = pid
<1>1. \A p \in Slots : p # u_ptab => status'[p] = status[p]
  BY DEF TypeOK, Psleep
<1>2. status'[u_ptab] \notin {"EMPTY", "ZOMBIE"}
  BY DEF TypeOK, Psleep, SleepState, InUse
<1>. QED BY <1>1, <1>2 DEF InUse, KeepsLife, tableVars

LEMMA SsigKeepsLife ==
    ASSUME TypeOK, NEW T, NEW sig, Ssig(T, sig), UNCHANGED tableVars
    PROVE  KeepsLife /\ pid' = pid
BY SsigRunner DEF KeepsLife, tableVars, TypeOK, Ssig, Roused, Reached, Interruptible

\* Only fork, the end of a process and the reaping of one change that.
LEMMA LifeStep ==
    ASSUME TypeOK, RunnerInv, [Next]_vars
    PROVE  \/ Fork
           \/ ForkNoMemory
           \/ InUse /\ cpu \in {"run", "swapout"} /\ Doexit
           \/ InUse /\ cpu = "run" /\ \E n : Reap(n)
           \/ KeepsLife /\ pid' = pid
<1>. USE DEF CurrentAt, tableVars
<1>1. cpu \in {"run", "swapout"} => InUse
  BY DEF RunnerInv, OneRunner, InUse
<1>2. CASE Exit \/ SwapoutDies \/ ReturnDies
  BY <1>1, <1>2 DEF Exit, SwapoutDies, ReturnDies
<1>3. CASE Pause
  BY <1>1, <1>3, PsleepKeepsLife DEF Pause
<1>4. CASE \E e \in Events : SleepOn(e)
  BY <1>1, <1>4, PsleepKeepsLife DEF SleepOn
<1>5. CASE (\E n \in WaitArgs : Waitpid(n)) \/ WaitResumed
  <2>1. ASSUME NEW n, WaitForChild(n), cpu = "run" PROVE KeepsLife /\ pid' = pid
    BY <1>1, <2>1, PsleepKeepsLife DEF WaitForChild
  <2>. QED BY <1>1, <1>5, <2>1 DEF Waitpid, WaitResumed
<1>6. CASE \/ Exec \/ NoEffect \/ Interrupted \/ Slept \/ ReturnQuiet \/ TrapInUser
           \/ \E s \in Sigs : ReturnCatch(s) \/ SwapoutCatch(s)
           \/ \E s \in Sigs, f \in Handlers : Signal(s, f)
           \/ \E secs \in 0 .. MAXALARM : Alarm(secs)
           \/ SwapoutQuiet \/ ExtraRunning \/ UNCHANGED vars
  <2>. UNCHANGED <<status, tableVars>>
    BY <1>6 DEF Exec, NoEffect, Interrupted, Slept, ReturnQuiet, TrapInUser, ReturnCatch,
                SwapoutCatch, Signal, Alarm, SwapoutQuiet, ExtraRunning, vars
  <2>. QED BY DEF KeepsLife
<1>7. CASE \E e \in Events : Wakeup(e)
  BY <1>7 DEF Wakeup, Waiting, Interruptible, TypeOK, KeepsLife
<1>8. CASE \E n \in 1 .. MAXPID, s \in Sigs : Kill(n, s)
  BY <1>8, SsigKeepsLife DEF Kill
<1>9. CASE Second
  BY <1>9, SsigKeepsLife DEF Second
<1>10. CASE KeyboardIntr
  BY <1>10, SsigKeepsLife DEF KeyboardIntr
<1>11. CASE Dispatch
  <2>1. PICK q \in Slots : status[q] = "READY" /\ status' = [status EXCEPT ![q] = "RUNNING"]
    BY <1>11, ScannedIsSlot DEF Dispatch
  <2>. QED BY <1>11, <2>1 DEF Dispatch, KeepsLife, TypeOK
<1>12. CASE Preempt
  BY <1>1, <1>12 DEF Preempt, KeepsLife, InUse, TypeOK
<1>. QED
  BY <1>2, <1>3, <1>4, <1>5, <1>6, <1>7, <1>8, <1>9, <1>10, <1>11, <1>12 DEF Next

LEMMA DoexitLife ==
    ASSUME TypeOK, InUse, Doexit
    PROVE  /\ status'[u_ptab] = "ZOMBIE"
           /\ \A p \in Slots \ {u_ptab} :
                /\ status'[p] = "EMPTY" <=> status[p] = "EMPTY"
                /\ status'[p] = "ZOMBIE" <=> status[p] = "ZOMBIE"
<1>1. \A p \in Slots \ {u_ptab} : p \notin Notified => status'[p] = status[p]
  BY DEF Doexit, TypeOK
<1>2. \A p \in Slots \cap Notified : status[p] \notin {"EMPTY", "ZOMBIE"}
  BY DEF Notified, Waiting, Interruptible
<1>3. \A p \in (Slots \cap Notified) \ {u_ptab} : status'[p] = "READY"
  BY DEF Doexit, TypeOK
<1>4. status'[u_ptab] = "ZOMBIE"
  BY DEF Doexit, TypeOK
<1>. QED BY <1>1, <1>2, <1>3, <1>4

\* What fork does to the tree: a free entry becomes the child of the caller.
LEMMA ForkLife ==
    ASSUME TypeOK, RunnerInv, Fork
    PROVE  \E c \in Slots, n \in Candidates :
             /\ ClearEntry(c, n) /\ InUse /\ status[c] = "EMPTY" /\ c # u_ptab
             /\ status'[c] \notin {"EMPTY", "ZOMBIE"}
             /\ \A p \in Slots \ {c} :
                  /\ status'[p] = "EMPTY" <=> status[p] = "EMPTY"
                  /\ status'[p] = "ZOMBIE" <=> status[p] = "ZOMBIE"
             /\ pptr' = [pptr EXCEPT ![c] = u_ptab]
<1>1. PICK c \in Slots, n \in Candidates :
          /\ ClearEntry(c, n) /\ status' = ForkStatus(c)
          /\ pptr' = [pptr EXCEPT ![c] = u_ptab]
  BY DEF Fork
<1>2. status[c] = "EMPTY" /\ status[u_ptab] = "RUNNING"
  BY <1>1 DEF ClearEntry, FreeSlot, Fork, CurrentAt, RunnerInv, OneRunner
<1>3. /\ status'[c] \notin {"EMPTY", "ZOMBIE"}
      /\ \A p \in Slots \ {c} :
           /\ status'[p] = "EMPTY" <=> status[p] = "EMPTY"
           /\ status'[p] = "ZOMBIE" <=> status[p] = "ZOMBIE"
  BY <1>1, <1>2 DEF ForkStatus, TypeOK
<1>. QED BY <1>1, <1>2, <1>3 DEF InUse

-----------------------------------------------------------------------------
(* findprocess. *)

\* An entry differs in its pid from every entry after it that is in use, even
\* when it is itself free and its pid is left over from a reaped process.
PidsApart ==
    \A p, q \in Slots : p < q /\ status[q] # "EMPTY" => pid[p] # pid[q]

\* ptab_alloc's entry is the first free one and its pid is not in use.
LEMMA ClearEntryApart ==
    ASSUME TypeOK, PidsApart, NEW c \in Slots, NEW n \in Candidates, ClearEntry(c, n),
           \A p \in Slots \ {c} : status'[p] # "EMPTY" => status[p] # "EMPTY"
    PROVE  PidsApart'
<1>. SUFFICES ASSUME NEW p \in Slots, NEW q \in Slots, p < q, status'[q] # "EMPTY"
             PROVE  pid'[p] # pid'[q]
  BY DEF PidsApart
<1>1. pid' = [pid EXCEPT ![c] = n] /\ n \notin PidsInUse
  BY DEF ClearEntry, NewPid
<1>2. CASE q = c
  <2>. status[p] # "EMPTY"
    BY <1>2 DEF ClearEntry, FreeSlot
  <2>. QED BY <1>1, <1>2 DEF TypeOK, PidsInUse, Slots
<1>3. CASE q # c
  <2>. status[q] # "EMPTY" /\ pid[p] # pid[q]
    BY <1>3 DEF PidsApart
  <2>. QED BY <1>1, <1>3 DEF TypeOK, PidsInUse
<1>. QED BY <1>2, <1>3

LEMMA ApartStep == TypeOK /\ RunnerInv /\ PidsApart /\ [Next]_vars => PidsApart'
<1>. SUFFICES ASSUME TypeOK, RunnerInv, PidsApart, [Next]_vars PROVE PidsApart'
  OBVIOUS
<1>1. CASE Fork
  BY <1>1, ForkLife, ClearEntryApart
<1>2. CASE ForkNoMemory
  BY <1>2, ClearEntryApart DEF ForkNoMemory
<1>3. CASE InUse /\ Doexit
  BY <1>3, DoexitLife DEF Doexit, PidsApart, InUse
<1>4. CASE \E n : Reap(n)
  <2>. /\ pid' = pid
       /\ \A p \in Slots : status'[p] # "EMPTY" => status[p] # "EMPTY"
    BY <1>4 DEF Reap, Zombies, tableVars, TypeOK
  <2>. QED BY DEF PidsApart
<1>5. CASE KeepsLife /\ pid' = pid
  BY <1>5 DEF KeepsLife, PidsApart
<1>. QED BY <1>1, <1>2, <1>3, <1>4, <1>5, LifeStep

\* findprocess, which takes the first entry with the pid it is asked for and does
\* not look at p_status, finds the process that has the pid.
THEOREM FindprocessRight == Spec => []FoundAsItself
<1>1. Init => PidsApart
  BY DEF Init, PidsApart, Slots, initproc
<1>2. TypeOK /\ PidsApart => FoundAsItself
  <2>. SUFFICES ASSUME TypeOK, PidsApart, NEW p \in Slots, status[p] # "EMPTY"
               PROVE  FoundByPid(pid[p]) = {p}
    BY DEF FoundAsItself
  <2>1. \A q \in Slots : q < p => pid[q] # pid[p]
    BY DEF PidsApart
  <2>2. \A q \in Slots : q = p \/ q < p \/ p < q
    BY DEF Slots
  <2>. QED BY <2>1, <2>2 DEF FoundByPid
<1>. QED BY <1>1, <1>2, ApartStep, TypeCorrect, RunnerCorrect, PTL DEF Spec

-----------------------------------------------------------------------------
(* Sleep and signals. *)

\* psleep does not lie down over a pending signal, and a signal that comes later
\* finds the sleeper and rouses it: no order of the two loses it.
LEMMA AsleepStep == TypeOK /\ NoSignalAsleep /\ [Next]_vars => NoSignalAsleep'
<1>. SUFFICES ASSUME TypeOK, NoSignalAsleep, [Next]_vars PROVE NoSignalAsleep'
  OBVIOUS
<1>. USE DEF tableVars, sleepVars, signalVars, Interruptible
<1>1. ASSUME NEW event, Psleep(event), pending' = pending PROVE NoSignalAsleep'
  BY <1>1 DEF Psleep, MayLieDown, NoSignalAsleep, TypeOK
<1>2. ASSUME NEW T, NEW sig, Ssig(T, sig) PROVE NoSignalAsleep'
  BY <1>2 DEF Ssig, Roused, Reached, NoSignalAsleep, TypeOK
<1>3. ASSUME pending' = pending, \A p \in Slots : status'[p] \in Interruptible => status[p] \in Interruptible
      PROVE  NoSignalAsleep'
  BY <1>3 DEF NoSignalAsleep
<1>4. CASE Fork
  <2>1. PICK c \in Slots, n \in Candidates : ClearEntry(c, n) /\ status' = ForkStatus(c)
    BY <1>4 DEF Fork
  <2>. QED BY <2>1 DEF ClearEntry, ForkStatus, NoSignalAsleep, TypeOK
<1>5. CASE ForkNoMemory
  BY <1>5 DEF ForkNoMemory, ClearEntry, NoSignalAsleep, TypeOK
<1>6. ASSUME Doexit PROVE NoSignalAsleep'
  BY <1>3, <1>6 DEF Doexit
<1>7. ASSUME NEW n, Reap(n) PROVE NoSignalAsleep'
  BY <1>3, <1>7 DEF Reap, TypeOK
<1>8. CASE \/ Exec \/ NoEffect \/ Interrupted \/ Slept \/ ReturnQuiet \/ TrapInUser
           \/ \E s \in Sigs, f \in Handlers : Signal(s, f)
           \/ \E secs \in 0 .. MAXALARM : Alarm(secs)
           \/ SwapoutQuiet \/ ExtraRunning \/ UNCHANGED vars
  BY <1>3, <1>8 DEF Exec, NoEffect, Interrupted, Slept, ReturnQuiet, TrapInUser, Signal,
                    Alarm, SwapoutQuiet, ExtraRunning, vars
<1>9. CASE \E s \in Sigs : ReturnCatch(s) \/ SwapoutCatch(s)
  <2>1. PICK s : status' = status /\ pending' = [pending EXCEPT ![u_ptab] = @ \ {s}]
    BY <1>9 DEF ReturnCatch, SwapoutCatch
  <2>2. \A p \in Slots : pending'[p] \subseteq pending[p]
    BY <2>1 DEF TypeOK
  <2>. QED BY <2>1, <2>2 DEF NoSignalAsleep
<1>10. CASE \E e \in Events : Wakeup(e)
  BY <1>3, <1>10 DEF Wakeup
<1>11. CASE Dispatch
  BY <1>3, <1>11 DEF Dispatch, TypeOK
<1>12. CASE Preempt
  BY <1>3, <1>12 DEF Preempt, TypeOK
<1>. QED
  BY <1>1, <1>2, <1>4, <1>5, <1>6, <1>7, <1>8, <1>9, <1>10, <1>11, <1>12
     DEF Next, Exit, SwapoutDies, ReturnDies, Pause, SleepOn, Waitpid, WaitResumed,
         WaitForChild, Kill, Second, KeyboardIntr

\* No signal is lost on a sleeper.
THEOREM NoLostSignal == Spec => []NoSignalAsleep
<1>1. Init => NoSignalAsleep
  BY DEF Init, NoSignalAsleep
<1>. QED BY <1>1, AsleepStep, TypeCorrect, PTL DEF Spec

-----------------------------------------------------------------------------
(* Parents. *)

\* ParentAlive, and what keeps it: initproc is its own parent, nobody else is.
FamilyInv ==
    /\ ParentAlive
    /\ status[initproc] # "EMPTY" /\ pptr[initproc] = initproc
    /\ \A p \in Slots : status[p] # "EMPTY" /\ pptr[p] = p => p = initproc

LEMMA FamilyStep == TypeOK /\ RunnerInv /\ FamilyInv /\ [Next]_vars => FamilyInv'
<1>. SUFFICES ASSUME TypeOK, RunnerInv, FamilyInv, [Next]_vars PROVE FamilyInv'
  OBVIOUS
<1>. USE InitprocIsSlot DEF FamilyInv, ParentAlive
<1>1. CASE Fork
  <2>1. PICK c \in Slots :
             /\ InUse /\ status[c] = "EMPTY" /\ c # u_ptab /\ status'[c] \notin {"EMPTY", "ZOMBIE"}
             /\ \A p \in Slots \ {c} :
                  /\ status'[p] = "EMPTY" <=> status[p] = "EMPTY"
                  /\ status'[p] = "ZOMBIE" <=> status[p] = "ZOMBIE"
             /\ pptr' = [pptr EXCEPT ![c] = u_ptab]
    BY <1>1, ForkLife
  <2>2. pptr'[c] = u_ptab /\ \A p \in Slots \ {c} : pptr'[p] = pptr[p]
    BY <2>1 DEF TypeOK
  <2>. QED BY <2>1, <2>2 DEF InUse, TypeOK
<1>2. CASE ForkNoMemory
  <2>. /\ status' = status
       /\ \A p \in Slots : status[p] # "EMPTY" => pptr'[p] = pptr[p]
    BY <1>2 DEF ForkNoMemory, ClearEntry, FreeSlot, TypeOK
  <2>. QED OBVIOUS
<1>3. CASE InUse /\ Doexit
  <2>1. \A p \in Slots : pptr'[p] = IF p \in Orphans THEN initproc ELSE pptr[p]
    BY <1>3 DEF Doexit
  <2>2. \A p \in Slots : p \in Orphans <=> p # u_ptab /\ status[p] # "EMPTY" /\ pptr[p] = u_ptab
    BY DEF Orphans
  <2>3. \A p \in Slots : status'[p] = "EMPTY" <=> status[p] = "EMPTY"
    BY <1>3, DoexitLife DEF InUse
  <2>4. initproc \notin Orphans
    BY <2>2
  <2>. QED BY <1>3, <2>1, <2>2, <2>3, <2>4, DoexitLife
<1>4. CASE \E n : InUse /\ Reap(n)
  <2>1. CASE status' = status
    BY <1>4, <2>1 DEF Reap, tableVars
  <2>2. CASE status' # status
    <3>1. PICK z \in Slots : /\ status[z] = "ZOMBIE" /\ pptr[z] = u_ptab /\ z # u_ptab
                             /\ status' = [status EXCEPT ![z] = "EMPTY"]
      BY <1>4, <2>2 DEF Reap, Zombies, InUse
    <3>2. z # initproc
      BY <3>1
    <3>3. pptr' = pptr
      BY <1>4 DEF Reap, tableVars
    <3>. QED BY <3>1, <3>2, <3>3 DEF TypeOK
  <2>. QED BY <2>1, <2>2
<1>5. CASE KeepsLife
  BY <1>5 DEF KeepsLife
<1>. QED BY <1>1, <1>2, <1>3, <1>4, <1>5, LifeStep

LEMMA FamilyInit == Init => FamilyInv
BY InitprocIsSlot DEF Init, FamilyInv, ParentAlive

LEMMA FamilyCorrect == Spec => []FamilyInv
BY FamilyInit, FamilyStep, TypeCorrect, RunnerCorrect, PTL DEF Spec

\* No process's parent is a free entry, which another process could be given.
THEOREM ParentsLive == Spec => []ParentAlive
<1>. FamilyInv => ParentAlive
  BY DEF FamilyInv
<1>. QED BY FamilyCorrect, PTL

\* Only the live parent of a zombie frees its entry.
THEOREM ReapRight == Spec => ReapedByParent
<1>. DEFINE A == \A p \in Slots : status[p] = "ZOMBIE" /\ status'[p] # "ZOMBIE" =>
                    /\ status'[p] = "EMPTY"
                    /\ u_ptab = pptr[p] /\ cpu = "run" /\ status[u_ptab] # "ZOMBIE"
<1>1. TypeOK /\ RunnerInv /\ [Next]_vars => A
  <2>. SUFFICES ASSUME TypeOK, RunnerInv, [Next]_vars,
                       NEW p \in Slots, status[p] = "ZOMBIE", status'[p] # "ZOMBIE"
               PROVE  /\ status'[p] = "EMPTY"
                      /\ u_ptab = pptr[p] /\ cpu = "run" /\ status[u_ptab] # "ZOMBIE"
    OBVIOUS
  <2>1. CASE Fork
    BY <2>1, ForkLife
  <2>2. CASE ForkNoMemory
    BY <2>2 DEF ForkNoMemory
  <2>3. CASE InUse /\ Doexit
    BY <2>3, DoexitLife
  <2>4. CASE InUse /\ cpu = "run" /\ \E n : Reap(n)
    BY <2>4 DEF Reap, Zombies, InUse, TypeOK
  <2>5. CASE KeepsLife
    BY <2>5 DEF KeepsLife
  <2>. QED BY <2>1, <2>2, <2>3, <2>4, <2>5, LifeStep
<1>. QED BY <1>1, TypeCorrect, RunnerCorrect, PTL DEF Spec, ReapedByParent

-----------------------------------------------------------------------------
(* waitpid and the end of a child. *)

\* WaitersNotified, and what wakeup goes by: a process in waitpid has its own
\* entry in p_wait.
WaitInv ==
    /\ WaitersNotified
    /\ \A p \in Slots : status[p] = "WAIT" => wait[p] = p

LEMMA PsleepWait ==
    ASSUME TypeOK, WaitInv, InUse, NEW event \in Slots \cup Events \cup {NULL},
           Psleep(event), pptr' = pptr, event = u_ptab => Zombies = {}, event \in Slots => event = u_ptab
    PROVE  WaitInv'
<1>1. /\ \A p \in Slots : p # u_ptab => status'[p] = status[p] /\ wait'[p] = wait[p]
      /\ status'[u_ptab] # "ZOMBIE"
  BY DEF Psleep, TypeOK, SleepState, InUse
<1>2. ASSUME status'[u_ptab] = "WAIT", status[u_ptab] # "WAIT"
      PROVE  event = u_ptab /\ wait'[u_ptab] = u_ptab
  BY <1>2 DEF Psleep, TypeOK, SleepState
<1>3. ASSUME status'[u_ptab] = "WAIT"
      PROVE  wait'[u_ptab] = u_ptab
  BY <1>3 DEF Psleep, TypeOK, SleepState, WaitInv
<1>4. ASSUME NEW q \in Slots, status'[q] = "ZOMBIE", q # u_ptab, status'[u_ptab] = "WAIT",
             u_ptab # initproc
      PROVE  pptr'[q] # u_ptab
  BY <1>1, <1>2, <1>4 DEF WaitInv, WaitersNotified, Zombies, TypeOK
<1>5. \A p \in Slots : status'[p] = "WAIT" => wait'[p] = p
  BY <1>1, <1>3 DEF WaitInv
<1>6. WaitersNotified'
  <2>. SUFFICES ASSUME NEW p \in Slots, NEW q \in Slots, status'[p] = "WAIT",
                       p # initproc, status'[q] = "ZOMBIE", q # p
               PROVE  pptr'[q] # p
    BY DEF WaitersNotified
  <2>1. CASE p = u_ptab
    BY <1>4, <2>1
  <2>2. CASE p # u_ptab
    BY <1>1, <2>2 DEF WaitInv, WaitersNotified
  <2>. QED BY <2>1, <2>2
<1>. QED BY <1>5, <1>6 DEF WaitInv

LEMMA WaitStep ==
    TypeOK /\ RunnerInv /\ FamilyInv /\ WaitInv /\ [Next]_vars => WaitInv'
<1>. SUFFICES ASSUME TypeOK, RunnerInv, FamilyInv, WaitInv, [Next]_vars PROVE WaitInv'
  OBVIOUS
<1>. USE DEF tableVars, sleepVars, signalVars, CurrentAt
<1>1. cpu \in {"run", "swapout"} => InUse
  BY DEF RunnerInv, OneRunner, InUse
<1>2. ASSUME \A p \in Slots : status'[p] = "WAIT" => status[p] = "WAIT" /\ wait'[p] = wait[p],
             \A p \in Slots : status'[p] = "ZOMBIE" => status[p] = "ZOMBIE" /\ pptr'[p] = pptr[p]
      PROVE  WaitInv'
  BY <1>2 DEF WaitInv, WaitersNotified
<1>3. ASSUME NEW T, NEW sig, Ssig(T, sig), pptr' = pptr PROVE WaitInv'
  BY <1>2, <1>3 DEF Ssig, Roused, Reached, Interruptible, TypeOK
<1>4. CASE Fork
  <2>1. PICK c \in Slots, n \in Candidates :
             /\ ClearEntry(c, n) /\ status' = ForkStatus(c)
             /\ pptr' = [pptr EXCEPT ![c] = u_ptab]
    BY <1>4 DEF Fork
  <2>. QED BY <1>2, <2>1 DEF ClearEntry, ForkStatus, FreeSlot, TypeOK
<1>5. CASE ForkNoMemory
  <2>1. PICK c \in Slots, n \in Candidates :
             ClearEntry(c, n) /\ pptr' = [pptr EXCEPT ![c] = Nobody]
    BY <1>5 DEF ForkNoMemory
  <2>. QED BY <1>2, <1>5, <2>1 DEF ForkNoMemory, ClearEntry, FreeSlot, TypeOK
<1>6. CASE InUse /\ Doexit
  <2>1. \A p \in Slots : /\ status'[p] = "WAIT" => status[p] = "WAIT" /\ p \notin Notified
                         /\ p \notin Notified => wait'[p] = wait[p]
    BY <1>6 DEF Doexit, TypeOK
  <2>2. \A q \in Slots : status'[q] = "ZOMBIE" => q = u_ptab \/ status[q] = "ZOMBIE"
    BY <1>6, DoexitLife
  <2>3. \A q \in Slots : pptr'[q] = IF q \in Orphans THEN initproc ELSE pptr[q]
    BY <1>6 DEF Doexit
  <2>4. ASSUME NEW p \in Slots, status'[p] = "WAIT", p # initproc, pptr'[u_ptab] = p, p # u_ptab
        PROVE  FALSE
    <3>1. pptr[u_ptab] = p /\ u_ptab # initproc
      BY <2>3, <2>4 DEF Orphans, FamilyInv, TypeOK
    <3>2. p \in Waiting(p)
      BY <2>1, <2>4 DEF Waiting, WaitInv, Interruptible
    <3>. QED BY <2>1, <2>4, <3>1, <3>2 DEF Notified
  <2>. QED BY <2>1, <2>2, <2>3, <2>4, DoexitLife DEF WaitInv, WaitersNotified, TypeOK
<1>7. ASSUME NEW n, Reap(n) PROVE WaitInv'
  BY <1>2, <1>7 DEF Reap, TypeOK
<1>8. ASSUME NEW n, cpu = "run", WaitForChild(n) PROVE WaitInv'
  BY <1>1, <1>8, PsleepWait DEF WaitForChild, TypeOK
<1>9. CASE Pause \/ \E e \in Events : SleepOn(e)
  <2>1. PICK e \in Events \cup {NULL} : Psleep(e) /\ pptr' = pptr /\ cpu = "run"
    BY <1>9 DEF Pause, SleepOn
  <2>2. e \notin Slots
    BY DEF Slots
  <2>. QED BY <1>1, <2>1, <2>2, PsleepWait DEF TypeOK
<1>10. CASE \/ Exec \/ NoEffect \/ Interrupted \/ Slept \/ ReturnQuiet \/ TrapInUser
            \/ \E s \in Sigs : ReturnCatch(s) \/ SwapoutCatch(s)
            \/ \E s \in Sigs, f \in Handlers : Signal(s, f)
            \/ \E secs \in 0 .. MAXALARM : Alarm(secs)
            \/ SwapoutQuiet \/ ExtraRunning \/ UNCHANGED vars
  <2>. UNCHANGED <<status, wait, pptr>>
    BY <1>10 DEF Exec, NoEffect, Interrupted, Slept, ReturnQuiet, TrapInUser, ReturnCatch,
                 SwapoutCatch, Signal, Alarm, SwapoutQuiet, ExtraRunning, vars
  <2>. QED BY <1>2
<1>11. CASE \E e \in Events : Wakeup(e)
  BY <1>2, <1>11 DEF Wakeup, TypeOK
<1>12. CASE Dispatch
  BY <1>2, <1>12 DEF Dispatch, TypeOK
<1>13. CASE Preempt
  BY <1>2, <1>13 DEF Preempt, TypeOK
<1>. QED
  BY <1>1, <1>3, <1>4, <1>5, <1>6, <1>7, <1>8, <1>9, <1>10, <1>11, <1>12, <1>13
     DEF Next, Exit, SwapoutDies, ReturnDies, Waitpid, WaitResumed, Kill, Second,
         KeyboardIntr

\* A parent other than initproc does not lie in waitpid with a dead child.
THEOREM ParentsNotified == Spec => []WaitersNotified
<1>1. Init => WaitInv
  BY DEF Init, WaitInv, WaitersNotified
<1>2. WaitInv => WaitersNotified
  BY DEF WaitInv
<1>. QED BY <1>1, <1>2, WaitStep, TypeCorrect, RunnerCorrect, FamilyCorrect, PTL DEF Spec
----------------------------------------------------------------------------
(* ptotal counts the live processes, and Proc implements ProcTree.         *)
LiveSlots == {p \in Slots : status[p] \notin {"EMPTY", "ZOMBIE"}}

LEMMA LiveFinite == IsFiniteSet(LiveSlots)
<1>1. IsFiniteSet(Slots)
  BY FS_Interval DEF Slots
<1>. QED BY <1>1, FS_Subset DEF LiveSlots

\* fork adds one live process, the end of one takes one away.
LEMMA TotalStep == TypeOK /\ RunnerInv /\ TotalExact /\ [Next]_vars => TotalExact'
<1>. SUFFICES ASSUME TypeOK, RunnerInv, ptotal = Cardinality(LiveSlots), [Next]_vars
             PROVE  ptotal' = Cardinality(LiveSlots')
  BY DEF TotalExact, LiveSlots
<1>1. CASE Fork
  <2>1. PICK c \in Slots : LiveSlots' = LiveSlots \cup {c} /\ c \notin LiveSlots
    BY <1>1, ForkLife DEF LiveSlots
  <2>2. ptotal' = ptotal + 1
    BY <1>1 DEF Fork
  <2>. QED BY <2>1, <2>2, LiveFinite, FS_AddElement
<1>2. CASE ForkNoMemory
  BY <1>2 DEF ForkNoMemory, LiveSlots
<1>3. CASE InUse /\ Doexit
  <2>1. LiveSlots' = LiveSlots \ {u_ptab} /\ u_ptab \in LiveSlots
    BY <1>3, DoexitLife DEF LiveSlots, InUse, TypeOK
  <2>2. ptotal' = ptotal - 1
    BY <1>3 DEF Doexit
  <2>. QED BY <2>1, <2>2, LiveFinite, FS_RemoveElement
<1>4. CASE \E n : Reap(n)
  <2>1. ptotal' = ptotal
    BY <1>4 DEF Reap, tableVars
  <2>2. LiveSlots' = LiveSlots
    BY <1>4 DEF Reap, Zombies, TypeOK, LiveSlots
  <2>. QED BY <2>1, <2>2
<1>5. CASE KeepsLife
  <2>. LiveSlots' = LiveSlots
    BY <1>5 DEF KeepsLife, LiveSlots
  <2>. QED BY <1>5 DEF KeepsLife
<1>. QED BY <1>1, <1>2, <1>3, <1>4, <1>5, LifeStep

\* ptotal, which stops the system at zero, counts the processes that have not exited.
THEOREM TotalRight == Spec => []TotalExact
<1>1. Init => TotalExact
  <2>. SUFFICES ASSUME Init PROVE ptotal = Cardinality(LiveSlots)
    BY DEF TotalExact, LiveSlots
  <2>1. LiveSlots = {initproc}
    BY InitprocIsSlot DEF Init, LiveSlots
  <2>2. Cardinality({initproc}) = 1
    BY FS_Singleton
  <2>. QED BY <2>1, <2>2 DEF Init
<1>. QED BY <1>1, TotalStep, TypeCorrect, RunnerCorrect, PTL DEF Spec

-----------------------------------------------------------------------------
(* The refinement. *)

DeadSlots == {p \in Slots : status[p] = "ZOMBIE"}
ParentOf == [p \in Slots |-> IF status[p] = "EMPTY" THEN Nobody ELSE pptr[p]]

LEMMA ForkIsTreeFork ==
    ASSUME TypeOK, RunnerInv, Fork PROVE \E c \in Slots : Tree!Fork(u_ptab, c)
<1>1. PICK c \in Slots :
             /\ InUse /\ status[c] = "EMPTY" /\ c # u_ptab
             /\ status'[c] \notin {"EMPTY", "ZOMBIE"}
             /\ \A p \in Slots \ {c} :
                  /\ status'[p] = "EMPTY" <=> status[p] = "EMPTY"
                  /\ status'[p] = "ZOMBIE" <=> status[p] = "ZOMBIE"
             /\ pptr' = [pptr EXCEPT ![c] = u_ptab]
  BY ForkLife
<1>2. LiveSlots' = LiveSlots \cup {c} /\ u_ptab \in LiveSlots /\ DeadSlots' = DeadSlots
  BY <1>1 DEF LiveSlots, DeadSlots, InUse, TypeOK
<1>3. ParentOf' = [ParentOf EXCEPT ![c] = u_ptab]
  BY <1>1 DEF ParentOf, TypeOK
<1>4. c \in Slots \ (LiveSlots \cup DeadSlots)
  BY <1>1 DEF LiveSlots, DeadSlots
<1>. QED BY <1>2, <1>3, <1>4 DEF Tree!Fork, LiveSlots, DeadSlots, ParentOf

LEMMA DoexitIsTreeExit ==
    ASSUME TypeOK, FamilyInv, InUse, Doexit PROVE \E p \in Slots : Tree!Exit(p)
<1>1. u_ptab \in LiveSlots /\ LiveSlots' = LiveSlots \ {u_ptab}
  BY DoexitLife DEF LiveSlots, InUse, TypeOK
<1>2. DeadSlots' = DeadSlots \cup {u_ptab}
  BY DoexitLife DEF DeadSlots, InUse, TypeOK
<1>3. ParentOf' =
        [p \in Slots |-> IF ParentOf[p] = u_ptab /\ p # u_ptab THEN initproc ELSE ParentOf[p]]
  <2>1. \A p \in Slots : status'[p] = "EMPTY" <=> status[p] = "EMPTY"
    BY DoexitLife DEF InUse
  <2>2. Nobody # u_ptab
    BY DEF TypeOK, Slots, Nobody
  <2>3. \A p \in Slots : pptr'[p] = IF p \in Orphans THEN initproc ELSE pptr[p]
    BY DEF Doexit
  <2>. QED BY <2>1, <2>2, <2>3 DEF ParentOf, Orphans
<1>4. u_ptab \in Slots
  BY DEF TypeOK
<1>. QED BY <1>1, <1>2, <1>3, <1>4 DEF Tree!Exit, LiveSlots, DeadSlots, ParentOf

LEMMA ReapIsTreeReap ==
    ASSUME TypeOK, InUse, NEW n, Reap(n)
    PROVE  (\E z \in Slots : Tree!Reap(u_ptab, z)) \/ UNCHANGED <<status, pptr>>
<1>. SUFFICES ASSUME status' # status PROVE \E z \in Slots : Tree!Reap(u_ptab, z)
  BY DEF Reap, tableVars
<1>1. PICK z \in Slots : /\ status[z] = "ZOMBIE" /\ pptr[z] = u_ptab /\ pptr' = pptr
                         /\ status' = [status EXCEPT ![z] = "EMPTY"]
  BY DEF Reap, Zombies, tableVars
<1>2. u_ptab \in LiveSlots /\ z \in DeadSlots /\ ParentOf[z] = u_ptab
  BY <1>1 DEF LiveSlots, DeadSlots, ParentOf, InUse, TypeOK
<1>3. LiveSlots' = LiveSlots /\ DeadSlots' = DeadSlots \ {z}
  BY <1>1 DEF LiveSlots, DeadSlots, TypeOK
<1>4. ParentOf' = [ParentOf EXCEPT ![z] = Nobody]
  BY <1>1 DEF ParentOf, TypeOK
<1>. QED BY <1>2, <1>3, <1>4 DEF Tree!Reap, LiveSlots, DeadSlots, ParentOf

LEMMA KeepsLifeIsTreeStutter ==
    ASSUME KeepsLife PROVE UNCHANGED Tree!vars
BY DEF KeepsLife, Tree!vars

LEMMA TreeInit == Init => Tree!Init
<1>. SUFFICES ASSUME Init PROVE Tree!Init
  OBVIOUS
<1>1. LiveSlots = {initproc} /\ DeadSlots = {}
  BY InitprocIsSlot DEF Init, LiveSlots, DeadSlots
<1>2. ParentOf = [p \in Slots |-> IF p = initproc THEN initproc ELSE Nobody]
  BY DEF Init, ParentOf
<1>. QED BY <1>1, <1>2 DEF Tree!Init, LiveSlots, DeadSlots, ParentOf

LEMMA TreeStep ==
    TypeOK /\ RunnerInv /\ FamilyInv /\ [Next]_vars => [Tree!Next]_(Tree!vars)
<1>. SUFFICES ASSUME TypeOK, RunnerInv, FamilyInv, [Next]_vars
             PROVE  [Tree!Next]_(Tree!vars)
  OBVIOUS
<1>1. u_ptab \in Slots
  BY DEF TypeOK
<1>2. CASE Fork
  <2>. PICK c \in Slots : Tree!Fork(u_ptab, c)
    BY <1>2, ForkIsTreeFork
  <2>. QED BY <1>1 DEF Tree!Next
<1>3. CASE ForkNoMemory
  <2>. KeepsLife
    BY <1>3 DEF ForkNoMemory, ClearEntry, FreeSlot, KeepsLife, TypeOK
  <2>. QED BY KeepsLifeIsTreeStutter
<1>4. CASE InUse /\ Doexit
  <2>. \E p \in Slots : Tree!Exit(p)
    BY <1>4, DoexitIsTreeExit
  <2>. QED BY DEF Tree!Next
<1>5. CASE \E n : InUse /\ Reap(n)
  <2>1. CASE UNCHANGED <<status, pptr>>
    BY <2>1 DEF Tree!vars
  <2>. QED BY <1>1, <1>5, <2>1, ReapIsTreeReap DEF Tree!Next
<1>6. CASE KeepsLife
  BY <1>6, KeepsLifeIsTreeStutter
<1>. QED BY <1>2, <1>3, <1>4, <1>5, <1>6, LifeStep

\* The process layer implements the process tree: processes are born of live
\* parents, the children of one that exits go to initproc, a parent reaps its own.
THEOREM ImplementsTree == Spec => TreeSpec
BY TreeInit, TreeStep, TypeCorrect, RunnerCorrect, FamilyCorrect, PTL
   DEF Spec, TreeSpec, Tree!Spec
=============================================================================
