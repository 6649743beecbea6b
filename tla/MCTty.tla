------------------------------- MODULE MCTty -------------------------------
(***************************************************************************)
(* Tty for TLC: two processes, one of which catches SIGINT.  Nothing reads *)
(* what the buffer holds outside the queue, what a call has counted once   *)
(* it is over, or p_intr outside a sleep: states that differ only there    *)
(* are one.                                                                *)
(***************************************************************************)
EXTENDS Tty

InCall == {p \in Procs : pc[p] # "user"}
Counted == [p \in InCall |-> <<want[p], nread[p], ch[p]>>]
Interrupted == {p \in Procs : intr[p] /\ pc[p] \in {"rsleep", "wsleep"}}

Seen == <<Contents, q_head, q_tail, flags, status, pc, Counted, pending,
          Interrupted, u_ptab, halted, histories>>
=============================================================================
