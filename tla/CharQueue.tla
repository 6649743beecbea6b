----------------------------- MODULE CharQueue -----------------------------
(***************************************************************************)
(* What a character queue promises: characters come out in the order they  *)
(* went in.  The last one may be taken back, all may be thrown away, and   *)
(* one that does not fit is not taken in.                                  *)
(***************************************************************************)
EXTENDS Sequences, Naturals

CONSTANTS Chars, SIZE

VARIABLE line                \* the characters in the queue, oldest first

Insert == \E c \in Chars : Len(line) < SIZE /\ line' = Append(line, c)
Remove == line # <<>> /\ line' = Tail(line)
Erase  == line # <<>> /\ line' = SubSeq(line, 1, Len(line) - 1)
Clear  == line' = <<>>

QueueInit == line = <<>>
QueueSpec == QueueInit /\ [][Insert \/ Remove \/ Erase \/ Clear]_line
=============================================================================
