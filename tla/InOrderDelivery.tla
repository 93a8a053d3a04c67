--------------------------- MODULE InOrderDelivery ---------------------------
(***************************************************************************)
(* What ReceiverCenter promises its user: the decoded streams are handed   *)
(* over in stream order, each at most once, and a missing stream is given  *)
(* up only once Window later streams have been offered.                    *)
(***************************************************************************)
EXTENDS Naturals, Sequences, FiniteSets

CONSTANTS Streams,      \* the stream ids
          Window        \* how many later streams may displace a missing one

VARIABLES offered,      \* streams accepted for delivery
          floor,        \* the next stream to hand over
          out           \* the streams handed over, in order

vars == <<offered, floor, out>>

Init == offered = {} /\ floor = 0 /\ out = <<>>

Offer(s) ==
  /\ s \notin offered
  /\ offered' = offered \cup {s}
  /\ UNCHANGED <<floor, out>>

Deliver ==
  /\ floor \in offered
  /\ out' = Append(out, floor)
  /\ floor' = floor + 1
  /\ UNCHANGED offered

(* Streams floor .. k-1 are declared lost. *)
GiveUpBelow(k) ==
  /\ k > floor
  /\ k \in offered
  /\ Cardinality({t \in offered : t >= k}) >= Window
  /\ floor' = k
  /\ UNCHANGED <<offered, out>>

Next ==
  \/ \E s \in Streams : Offer(s)
  \/ Deliver
  \/ \E k \in Streams : GiveUpBelow(k)

Spec == Init /\ [][Next]_vars
=============================================================================
