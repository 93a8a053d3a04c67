------------------------------- MODULE RqPack -------------------------------
(***************************************************************************)
(* The wrapper of the RaptorQ library (pack/rq_pack.cpp): which block size *)
(* is chosen for some data, which symbols encodeAll makes of it, and what  *)
(* the Decoder needs and gives back.  The library itself is external: an   *)
(* encoder of a block of K symbols makes K source symbols and as many      *)
(* repair symbols as wanted, and any K different ones decode.              *)
(***************************************************************************)
EXTENDS Naturals, Sequences, FiniteSets

CONSTANTS RQ_blocks     \* the library's block sizes; the last is RQ_Block_56403

ASSUME BlocksAssumption ==
  /\ RQ_blocks \in Seq(Nat \ {0}) /\ RQ_blocks # <<>>
  /\ \A i, j \in DOMAIN RQ_blocks : i < j => RQ_blocks[i] < RQ_blocks[j]

MaxSymbols == RQ_blocks[Len(RQ_blocks)]

(* How many symbols hold the data. *)
symbols_needed(data_size, symbol_size) ==
  (data_size + symbol_size - 1) \div symbol_size

(* The first block that is large enough, else the largest. *)
calculateBlockSize(data_size, symbol_size) ==
  LET large == {i \in DOMAIN RQ_blocks :
                  RQ_blocks[i] >= symbols_needed(data_size, symbol_size)}
  IN  IF large = {} THEN MaxSymbols
      ELSE RQ_blocks[CHOOSE i \in large : \A j \in large : i <= j]

(* The Encoder's constructor: set_data takes no more than the block, and an
   exception follows if that isn't all of the data. *)
Encodable(data_size, symbol_size) ==
  data_size <= calculateBlockSize(data_size, symbol_size) * symbol_size

(* repair_count, where 0 stands for a tenth of the source symbols. *)
RepairCount(source_count, repair_count) ==
  IF repair_count > 0 THEN repair_count
  ELSE IF source_count >= 10 THEN source_count \div 10 ELSE 1

(* The repair symbols are numbered from 0 again. *)
Bug_encodeAll(source_count, repair_count) ==
  [n \in 1..(source_count + RepairCount(source_count, repair_count)) |->
     IF n <= source_count THEN n - 1 ELSE n - source_count - 1]

(* The ids of the symbols, in the order of sending: source, then repair. *)
encodeAll(source_count, repair_count) ==
  [n \in 1..(source_count + RepairCount(source_count, repair_count)) |-> n - 1]

(* repair_ratio_ is a percentage here. *)
RatioCount(source_count, percent) == (source_count * percent) \div 100

quickEncode(source_count, percent) ==
  encodeAll(source_count, IF RatioCount(source_count, percent) > 1
                          THEN RatioCount(source_count, percent) ELSE 1)

-----------------------------------------------------------------------------
(* The Decoder for data of data_size bytes, with the symbols received. *)

canDecode(received, data_size, symbol_size) ==
  Cardinality(received) >= calculateBlockSize(data_size, symbol_size)

(* How many bytes decode gives: the library fills a buffer of whole symbols,
   which is cut to the size of the data; decode throws if that is empty. *)
DecodedSize(data_size, symbol_size) ==
  LET buffer_size == symbols_needed(data_size, symbol_size) * symbol_size
      block == calculateBlockSize(data_size, symbol_size) * symbol_size
      written == IF buffer_size < block THEN buffer_size ELSE block
  IN  IF written > data_size THEN data_size ELSE written
=============================================================================
