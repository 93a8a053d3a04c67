------------------------------ MODULE MCSender ------------------------------
(* Sender with two callers and two encoding threads; blocks of two and three
   symbols of two bytes; the third item is too large for them. *)
EXTENDS Sender

CONSTANTS c1, c2

MCCallers == {c1, c2}
MCBlocks == <<2, 3>>
MCDataSize == [id \in 0..2 |-> <<3, 5, 7>>[id + 1]]

(* RqPack against what it is meant to compute, for all small inputs. *)
ASSUME Blocks ==
  \A size \in 1..9, sym \in 1..4 :
    LET K == calculateBlockSize(size, sym) IN
    /\ Encodable(size, sym) <=> \E b \in {2, 3} : size <= b * sym
    /\ Encodable(size, sym) =>
         /\ K * sym >= size
         /\ \A b \in {2, 3} : b * sym >= size => K <= b
         /\ DecodedSize(size, sym) = size

(* A ratio of 0 makes one repair symbol in quickEncode and a tenth of the source
   symbols, but at least one, in the Sender; from 10 percent on they agree. *)
ASSUME Repair ==
  \A K \in 1..40, p \in {0, 4, 10, 25, 100} :
    LET sent == Len(encodeAll(K, RatioCount(K, p)))
        quick == Len(quickEncode(K, p))
    IN  /\ quick <= sent /\ quick > K
        /\ p >= 10 => quick = sent
        /\ p = 0 => quick = K + 1 /\ sent - K = (IF K < 20 THEN 1 ELSE K \div 10)
=============================================================================
