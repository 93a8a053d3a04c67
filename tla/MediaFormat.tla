----------------------------- MODULE MediaFormat -----------------------------
(***************************************************************************)
(* The bytes of a MediaPacket and of a MediaHeader (av_codec/av_codec.cpp, *)
(* serialize and deserialize).  A byte has Base values, 256 in the code: a *)
(* small Base leaves all field widths and both ends of every range as they *)
(* are.  deserialize gives {} when it returns false, else the set of what  *)
(* it read.                                                                *)
(***************************************************************************)
EXTENDS Integers, Sequences

CONSTANTS Base,     \* the values of a byte
          MAGIC     \* of a MediaHeader

ASSUME BaseAssumption == Base \in Nat \ {0} /\ Base % 2 = 0
ASSUME MagicAssumption == MAGIC \in 0..(Base ^ 4 - 1)

(* Little endian, negative numbers in two's complement. *)
Word(value, width) == [i \in 1..width |-> (value \div Base ^ (i - 1)) % Base]

Unsigned(bytes) ==
  LET upTo[n \in 0..Len(bytes)] ==
        IF n = 0 THEN 0 ELSE upTo[n - 1] + bytes[n] * Base ^ (n - 1)
  IN  upTo[Len(bytes)]

Signed(bytes) ==
  IF 2 * Unsigned(bytes) < Base ^ Len(bytes) THEN Unsigned(bytes)
  ELSE Unsigned(bytes) - Base ^ Len(bytes)

Flag(b) == <<IF b THEN 1 ELSE 0>>

-----------------------------------------------------------------------------
(* MediaPacket: type, index, pts, dts, is_key_frame, data_size, data. *)

header_size == 1 + 4 + 8 + 8 + 1 + 4

PacketSize(data_size) == header_size + data_size

serializePacket(p) ==
  <<p.type>> \o Word(p.index, 4) \o Word(p.pts, 8) \o Word(p.dts, 8)
    \o Flag(p.is_key_frame) \o Word(Len(p.data), 4) \o p.data

deserializePacket(bytes) ==
  IF Len(bytes) < header_size THEN {}
  ELSE LET data_size == Unsigned(SubSeq(bytes, 23, 26)) IN
       IF Len(bytes) < PacketSize(data_size) THEN {}
       ELSE {[type |-> bytes[1], index |-> Unsigned(SubSeq(bytes, 2, 5)),
              pts |-> Signed(SubSeq(bytes, 6, 13)),
              dts |-> Signed(SubSeq(bytes, 14, 21)),
              is_key_frame |-> bytes[22] # 0,
              data |-> SubSeq(bytes, 27, PacketSize(data_size))]}

-----------------------------------------------------------------------------
(* MediaHeader: MAGIC; for video and for audio whether there is a stream, seven
   int32 and the codec's tag; two int64; the two extradata with their sizes. *)

fixed_size == 4 + 2 * (1 + 8 * 4) + 2 * 8

HeaderSize(video_extra, audio_extra) == fixed_size + 8 + video_extra + audio_extra

Stream(s) ==
  Flag(s.has) \o [i \in 1..32 |-> Word(s.values[(i + 3) \div 4], 4)[((i - 1) % 4) + 1]]

ReadStream(bytes) ==
  [has |-> bytes[1] # 0,
   values |-> [v \in 1..8 |-> LET word == SubSeq(bytes, 4 * v - 2, 4 * v + 1)
                              IN  IF v < 8 THEN Signed(word) ELSE Unsigned(word)]]

Extradata(bytes) == Word(Len(bytes), 4) \o bytes

serializeHeader(h) ==
  Word(MAGIC, 4) \o Stream(h.video) \o Stream(h.audio)
    \o Word(h.duration, 8) \o Word(h.bit_rate, 8)
    \o Extradata(h.video_extradata) \o Extradata(h.audio_extradata)

HasMagic(bytes) == Len(bytes) >= 4 /\ Unsigned(SubSeq(bytes, 1, 4)) = MAGIC

(* Everything up to the extradata is read without a look at the size: of a
   shorter header past its end, before it is refused. *)
Overreads(bytes) == HasMagic(bytes) /\ Len(bytes) < fixed_size

deserializeHeader(bytes) ==
  LET size_of(at) == Unsigned(SubSeq(bytes, at + 1, at + 4))
      audio_at == fixed_size + 4 + size_of(fixed_size)
  IN  IF ~HasMagic(bytes) \/ Len(bytes) < fixed_size + 4 THEN {}
      ELSE IF Len(bytes) < audio_at + 4 THEN {}
      ELSE IF Len(bytes) < audio_at + 4 + size_of(audio_at) THEN {}
      ELSE {[video |-> ReadStream(SubSeq(bytes, 5, 37)),
             audio |-> ReadStream(SubSeq(bytes, 38, 70)),
             duration |-> Signed(SubSeq(bytes, 71, 78)),
             bit_rate |-> Signed(SubSeq(bytes, 79, 86)),
             video_extradata |-> SubSeq(bytes, fixed_size + 5, audio_at),
             audio_extradata |-> SubSeq(bytes, audio_at + 5,
                                        audio_at + 4 + size_of(audio_at))]}
=============================================================================
