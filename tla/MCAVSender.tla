------------------------------ MODULE MCAVSender ------------------------------
(* A file whose packets fit into one, three and too many datagrams; 14 bytes go
   into a fragment, the header into nine. *)
EXTENDS AVSender

MCDataSizes == <<3, 10, 101>>

(* sendFragmented cuts an item into pieces that are all of it. *)
ASSUME FragmentsCarryAll == \A size \in 1..150 : CarriesAll(size)

(* MediaFormat, for a byte of four values, at the ends of every field's range:
   what is serialized is read back, also before other bytes, and nothing shorter
   is taken for it. *)
Prefixes(bytes, from, to) == {SubSeq(bytes, 1, n) : n \in from..to}

MCPackets ==
  [type : {0, 3}, index : {0, 255}, pts : {-32768, -1, 32767}, dts : {-1, 4},
   is_key_frame : BOOLEAN, data : {<<>>, <<3, 0>>}]

ASSUME PacketRoundTrip ==
  \A p \in MCPackets :
    LET bytes == serializePacket(p) IN
    /\ Len(bytes) = PacketSize(Len(p.data))
    /\ deserializePacket(bytes) = {p} /\ deserializePacket(bytes \o <<1>>) = {p}
    /\ \A shorter \in Prefixes(bytes, 0, Len(bytes) - 1) :
         deserializePacket(shorter) = {}

MCHeaders ==
  LET streams == {[has |-> h, values |-> <<-128, 127, 0, -1, 1, 2, 3, 255>>] :
                    h \in BOOLEAN}
  IN  [video : streams, audio : streams, duration : {-1, 32767}, bit_rate : {-32768},
       video_extradata : {<<>>, <<1, 2>>}, audio_extradata : {<<>>, <<0>>}]

(* A header cut in its fixed part is not refused but read past its end. *)
ASSUME HeaderRoundTrip ==
  \A h \in MCHeaders :
    LET bytes == serializeHeader(h) IN
    /\ Len(bytes) = HeaderSize(Len(h.video_extradata), Len(h.audio_extradata))
    /\ deserializeHeader(bytes) = {h}
    /\ \A shorter \in Prefixes(bytes, 0, Len(bytes) - 1) :
         /\ deserializeHeader(shorter) = {}
         /\ Overreads(shorter) <=> Len(shorter) \in 4..(fixed_size - 1)
=============================================================================
