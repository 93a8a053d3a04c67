----------------------------- MODULE BoundedFifo -----------------------------
(***************************************************************************)
(* What the users of EventQueue rely on: a FIFO of at most Cap items that  *)
(* accepts nothing once it is closed and gives its items up in the order   *)
(* in which they were put, one or several at a time.                       *)
(***************************************************************************)
EXTENDS Naturals, Sequences

CONSTANTS Items,        \* what is put
          Cap           \* the most the queue holds; 0: no bound

VARIABLES fifo,         \* the items in the queue
          out,          \* the items given up so far, in order
          closed

vars == <<fifo, out, closed>>

Init == fifo = <<>> /\ out = <<>> /\ closed = FALSE

Put(x) ==
  /\ ~closed
  /\ Cap = 0 \/ Len(fifo) < Cap
  /\ fifo' = Append(fifo, x)
  /\ UNCHANGED <<out, closed>>

Take(n) ==
  /\ n \in 1..Len(fifo)
  /\ out' = out \o SubSeq(fifo, 1, n)
  /\ fifo' = SubSeq(fifo, n + 1, Len(fifo))
  /\ UNCHANGED closed

Close == closed' = TRUE /\ UNCHANGED <<fifo, out>>

Next ==
  \/ \E x \in Items : Put(x)
  \/ \E n \in 1..Len(fifo) : Take(n)
  \/ Close

Spec == Init /\ [][Next]_vars
=============================================================================
