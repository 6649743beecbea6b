------------------------------- MODULE MCProc -------------------------------
(***************************************************************************)
(* Proc for TLC.  The view leaves out what no later step can read: the     *)
(* fields of a free or zombie entry that ptab_alloc clears before the next *)
(* use, and p_intr and the argument of waitpid outside psleep.             *)
(* OneAlarm keeps the instance small: the alarms of two processes meet     *)
(* nowhere but in the loop of clk_int, which treats one after the other.   *)
(***************************************************************************)
EXTENDS Proc

Live(p) == status[p] \notin {"EMPTY", "ZOMBIE"}

Observed ==
    <<status, pid, nextpid, ptotal, sigvec, cursig, kpc, u_ptab, rr, cpu,
      [p \in Slots |-> IF status[p] = "EMPTY" THEN Nobody ELSE pptr[p]],
      [p \in Slots |-> IF Live(p)
                       THEN <<wait[p], pending[p], ignored[p], alarm[p]>>
                       ELSE <<>>],
      [p \in Slots |-> IF kpc[p] \in {"pause", "wait", "sleep"}
                       THEN <<intr[p], wpid[p]>> ELSE <<>>]>>

OneAlarm == Cardinality({p \in Slots : Live(p) /\ alarm[p] > 0}) < 2
=============================================================================
