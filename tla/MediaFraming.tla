----------------------------- MODULE MediaFraming -----------------------------
(***************************************************************************)
(* How a native host cuts what its encoders put out into RTP packets:      *)
(* one encoded frame by the packetizer, the sound by the Ogg demuxer.      *)
(* The two share no state and have a specification each.                   *)
(***************************************************************************)
EXTENDS Integers, Sequences, SequencesExt, FiniteSetsExt
-----------------------------------------------------------------------------
(***************************************************************************)
(* createRtpPacketizer of host/rtp-packetizer.mjs: push() cuts one encoded *)
(* frame into RTP packets.  A frame arrives as the bytes of a chunk; an    *)
(* H.264 chunk is parsed for its NAL units first, in Annex B or AVCC form. *)
(* The receiver's side (RFC 6184, RFC 9628) is Received, external.         *)
(*                                                                         *)
(* A byte is one of 0..MaxNal: 0 and 1 make up start codes, the others     *)
(* stand for the rest.  The IVF container is not modelled.                 *)
(***************************************************************************)
CONSTANTS MaxNal,       \* bound: bytes of a NAL unit, and of another codec's frame
          MaxPayload,   \* mtu - 12
          SequenceSize  \* 2^16 in the code

ASSUME PacketizerAssumption ==
  MaxNal \in 2..255 /\ MaxPayload \in Nat /\ MaxPayload >= 3 /\ SequenceSize \in Nat \ {0}

Codec == {"h264", "vp9", "av1", "opus"}
Byte == 0..2
Bytes == UNION {[1..n -> Byte] : n \in 1..MaxNal}

\* What an encoder puts into a NAL unit: no two zero bytes in a row, and none at its end.
Nal == {b \in Bytes : b[Len(b)] # 0 /\ \A i \in 1..(Len(b) - 1) : b[i] # 0 \/ b[i + 1] # 0}

VARIABLES codec,
          frame,     \* what was encoded: the NAL units, or the one frame of another codec
          form,      \* how it is laid out in the chunk
          packets,   \* what push() returned for it
          sequence,  \* the number of the next packet
          pushed
packetVars == <<codec, frame, form, packets, sequence, pushed>>

Form == {"short", "long", "mixed", "avcc"}

\* An encoder's next frame; any number of packets went before it.
PacketInit ==
  /\ \/ /\ codec = "h264" /\ form \in Form
        /\ frame \in UNION {[1..n -> Nal] : n \in 1..2}
     \/ /\ codec \in Codec \ {"h264"} /\ form = "whole"
        /\ frame \in [1..1 -> Bytes]
  /\ packets = <<>> /\ pushed = FALSE
  /\ sequence \in 0..(SequenceSize - 1)
-----------------------------------------------------------------------------
At(v, i) == IF i \in DOMAIN v THEN v[i] ELSE -1

StartCodeLength(v, i) ==
  IF At(v, i) # 0 \/ At(v, i + 1) # 0 THEN 0
  ELSE IF At(v, i + 2) = 1 THEN 3
  ELSE IF At(v, i + 2) = 0 /\ At(v, i + 3) = 1 THEN 4 ELSE 0

\* Mutant: only the four-byte start code ends a NAL unit.
NextCode_Long(v, i) ==
  LET codes == {j \in i..Len(v) : StartCodeLength(v, j) = 4}
  IN  IF codes = {} THEN Len(v) + 1 ELSE CHOOSE j \in codes : \A k \in codes : j <= k

NextCode(v, i) ==
  LET codes == {j \in i..Len(v) : StartCodeLength(v, j) > 0}
  IN  IF codes = {} THEN Len(v) + 1 ELSE CHOOSE j \in codes : \A k \in codes : j <= k

AnnexB(v) ==
  LET nalus[c \in 1..(Len(v) + 1)] ==
        LET first == c + StartCodeLength(v, c)
            next  == NextCode(v, first)
        IN  IF c > Len(v) \/ first = c THEN <<>>
            ELSE (IF next > first THEN <<SubSeq(v, first, next - 1)>> ELSE <<>>) \o nalus[next]
  IN  nalus[1]

\* <<the units, where parsing stopped>>; a length is four bytes, the highest first.
Avcc(v) ==
  LET nalus[c \in 1..(Len(v) + 1)] ==
        LET size  == 256 * At(v, c + 2) + At(v, c + 3)
            first == c + 4
        IN  IF first > Len(v) + 1 \/ At(v, c) > 0 \/ At(v, c + 1) > 0
               \/ size = 0 \/ first + size > Len(v) + 1
            THEN <<<<>>, c>>
            ELSE LET rest == nalus[first + size]
                 IN  <<<<SubSeq(v, first, first + size - 1)>> \o rest[1], rest[2]>>
  IN  nalus[1]

H264Nalus(v) ==
  IF AnnexB(v) # <<>> THEN AnnexB(v)
  ELSE IF Len(v) >= 4 /\ Avcc(v)[1] # <<>> /\ Avcc(v)[2] = Len(v) + 1 THEN Avcc(v)[1]
  ELSE <<v>>
-----------------------------------------------------------------------------
Packet(kind, first, last, marker, data) ==
  [kind |-> kind, first |-> first, last |-> last, marker |-> marker, data |-> data, number |-> 0]

\* fragment(): the parts of a value, `size' bytes each but the last.
Fragments(v, size) ==
  LET n == (Len(v) + size - 1) \div size
  IN  [i \in 1..n |-> [data |-> SubSeq(v, (i - 1) * size + 1, IF i = n THEN Len(v) ELSE i * size),
                       first |-> i = 1, last |-> i = n]]

\* A unit that does not fit: its first byte goes into both header bytes of each part.
FuA(nal, final) ==
  LET parts == Fragments(Tail(nal), MaxPayload - 2)
  IN  [i \in DOMAIN parts |-> Packet("fu", parts[i].first, parts[i].last, parts[i].last /\ final,
                                     <<nal[1]>> \o parts[i].data)]

PacketizeH264(nals) ==
  FlattenSeq([i \in DOMAIN nals |->
    IF Len(nals[i]) <= MaxPayload
    THEN <<Packet("unit", TRUE, TRUE, i = Len(nals), nals[i])>>
    ELSE FuA(nals[i], i = Len(nals))])

\* VP9 and AV1: one descriptor byte before each part.
PacketizeDescriptor(v) ==
  LET parts == Fragments(v, MaxPayload - 1)
  IN  [i \in DOMAIN parts |-> Packet("part", parts[i].first, parts[i].last, parts[i].last, parts[i].data)]

Packetize(v) ==
  CASE codec = "h264" -> PacketizeH264(H264Nalus(v))
    [] codec = "opus" -> <<Packet("unit", TRUE, TRUE, TRUE, v)>>
    [] OTHER -> PacketizeDescriptor(v)

\* A frame of H.264: its units behind start codes of three or four bytes, or lengths.
Laid(nals, how) ==
  FlattenSeq([i \in DOMAIN nals |->
    (CASE how = "short" -> <<0, 0, 1>>
       [] how = "long"  -> <<0, 0, 0, 1>>
       [] how = "mixed" -> IF i = 1 THEN <<0, 0, 0, 1>> ELSE <<0, 0, 1>>
       [] how = "avcc"  -> <<0, 0, 0, Len(nals[i])>>
       [] how = "whole" -> <<>>) \o nals[i]])

Push ==
  LET cut == Packetize(Laid(frame, form))
  IN  /\ ~pushed /\ pushed' = TRUE
      /\ codec = "opus" => Len(frame[1]) <= MaxPayload     \* a longer one throws
      /\ packets' = [i \in DOMAIN cut |->
                       [cut[i] EXCEPT !.number = (sequence + i - 1) % SequenceSize]]
      /\ sequence' = (sequence + Len(cut)) % SequenceSize
      /\ UNCHANGED <<codec, frame, form>>

PacketNext == Push

PacketSpec == PacketInit /\ [][PacketNext]_packetVars
-----------------------------------------------------------------------------
(***************************************************************************)
(* What a receiver makes of the packets: it joins the parts of a unit from *)
(* the first to the last, drops the unit when a number is missing, and     *)
(* takes the marked packet for the end of the frame.                       *)
(***************************************************************************)
Received ==
  LET join(units, p) ==
        IF p.first THEN Append(units, p.data)
        ELSE [units EXCEPT ![Len(units)] = @ \o (IF p.kind = "fu" THEN Tail(p.data) ELSE p.data)]
  IN  FoldLeft(join, <<>>, packets)

\* rtp-packetizer.mjs:40 looks for a start code first: lengths can look like one.
LooksLikeAnnexB == form = "avcc" /\ StartCodeLength(Laid(frame, "avcc"), 1) > 0

\* Every frame is what the receiver gets back from its packets: no start code is missed or
\* invented and no byte is lost where a unit is cut.  The last packet and no other ends the frame,
\* none is too long, and the numbers follow on, over their wrap too, whatever the frame was taken
\* for: AVCC lengths that look like a start code are taken for one, as the code does, and the
\* receiver then gets other units than those that were encoded.
FrameArrivesWhole ==
  pushed =>
    /\ LooksLikeAnnexB \/ Received = frame
    /\ \A i \in DOMAIN packets :
         /\ packets[i].marker <=> i = Len(packets)
         /\ packets[i].number = (sequence - Len(packets) + i - 1) % SequenceSize
         /\ Len(packets[i].data) <= MaxPayload
-----------------------------------------------------------------------------
(***************************************************************************)
(* The sound of a native host: the publisher of host/audio.mjs reads the   *)
(* encoder's output chunk by chunk, cuts the Opus frames out of its Ogg    *)
(* pages (host/ogg-opus.mjs) and sends one RTP packet for each.            *)
(*                                                                         *)
(* A packet of the Ogg stream is laced into segments, all full but its     *)
(* last; a page holds some segments, and a chunk ends anywhere.  Streams   *)
(* are chosen in OggInit; the publisher has started (NativeHost has the    *)
(* start of one).  A page that is not whole is just part of a page.        *)
(***************************************************************************)
CONSTANTS MaxFrames,   \* bound: packets in the stream
          MaxFull,     \* bound: full segments of a packet
          MaxPages,    \* bound: pages of the stream
          FrameLimit,  \* maxChunkBytes, in segments of one packet
          PageLimit    \* maxChunkBytes, in pages that wait to be whole

ASSUME OggAssumption == FrameLimit \in Nat \ {0} /\ PageLimit \in Nat \ {0}

VARIABLES stream,     \* the packets: [kind, full]
          breaks,     \* after which segments a page ends
          badPage,    \* a page that is no Ogg page, 0 for none
          got,        \* pages and parts of pages read: 2 * whole pages, + 1 for a part
          page,       \* pages the extractor is done with
          parts,      \* packetParts: segments of the packet that is not complete
          sent,       \* <<packet, its segments, timestamp / 960>>
          audio,      \* the publisher's state
          encoder     \* the pipeline: "on", "stopping", "off"
oggVars == <<stream, breaks, badPage, got, page, parts, sent, audio, encoder>>

Kind == {"header", "frame", "oversize"}   \* oversize: too long for one RTP packet

Segments == FlattenSeq([k \in DOMAIN stream |->
              [i \in 1..(stream[k].full + 1) |-> [packet |-> k, last |-> i = stream[k].full + 1]]])

PageCount == Cardinality(breaks) + 1
PageFirst(p) == IF p = 1 THEN 1 ELSE
                  1 + CHOOSE b \in breaks : Cardinality({c \in breaks : c <= b}) = p - 1
PageLast(p) == IF p = PageCount THEN Len(Segments) ELSE PageFirst(p + 1) - 1
PageSegments(p) == SubSeq(Segments, PageFirst(p), PageLast(p))
\* The encoder's flag: the page starts in the middle of a packet.
Continued(p) == PageFirst(p) > 1 /\ ~Segments[PageFirst(p) - 1].last

OggInit ==
  /\ \E n \in 1..MaxFrames : stream \in [1..n -> [kind : Kind, full : 0..MaxFull]]
  /\ \A k \in DOMAIN stream : stream[k].kind = "header" <=> k = 1
  /\ breaks \in SUBSET (1..(Len(Segments) - 1))
  /\ PageCount <= MaxPages
  /\ badPage \in 0..PageCount
  /\ got = 0 /\ page = 0 /\ parts = 0 /\ sent = <<>>
  /\ audio = "active" /\ encoder = "on"
-----------------------------------------------------------------------------
\* The inner loop over one page's segments: the packets that end in it, each with the number
\* of its segments, the segments left over and whether one grew past the limit.
PageResult(p, held) ==
  LET lace(r, s) ==
        IF r.failed THEN r
        ELSE IF r.parts + 1 > FrameLimit THEN [r EXCEPT !.failed = TRUE, !.parts = @ + 1]
        ELSE IF ~s.last THEN [r EXCEPT !.parts = @ + 1]
        ELSE [r EXCEPT !.parts = 0,
                       !.frames = IF stream[s.packet].kind = "header" THEN @
                                  ELSE Append(@, <<s.packet, r.parts + 1>>)]
  IN  FoldLeft(lace, [frames |-> <<>>, parts |-> held, failed |-> FALSE], PageSegments(p))

\* Mutant: a packet that continues on the next page starts anew there.
NextPage_Restart(r) ==
  LET p == r.page + 1
      in == PageResult(p, 0)
  IN  IF p = badPage THEN [r EXCEPT !.failed = TRUE]
      ELSE IF in.failed THEN [r EXCEPT !.failed = TRUE, !.parts = in.parts]
      ELSE [frames |-> r.frames \o in.frames, parts |-> in.parts, page |-> p, failed |-> FALSE]

NextPage(r) ==
  LET p == r.page + 1
      in == PageResult(p, r.parts)
  IN  IF p = badPage \/ (Continued(p) # (r.parts > 0)) THEN [r EXCEPT !.failed = TRUE]
      ELSE IF in.failed THEN [r EXCEPT !.failed = TRUE, !.parts = in.parts]
      ELSE [frames |-> r.frames \o in.frames, parts |-> in.parts, page |-> p, failed |-> FALSE]

\* push(): every whole page; a page that fails stays where it is, and what this call had
\* found before it is lost.
Extract(upto) ==
  LET step(r, p) == IF r.failed THEN r ELSE NextPage(r)
      start == [frames |-> <<>>, parts |-> parts, page |-> page, failed |-> FALSE]
  IN  IF upto - 2 * page > 2 * PageLimit THEN [start EXCEPT !.failed = TRUE]
      ELSE FoldLeft(step, start, [i \in 1..((upto \div 2) - page) |-> i])

\* write() sends what was cut out, up to the first frame that has no room in a packet.
Sendable(frames) ==
  LET bad == {i \in DOMAIN frames : stream[frames[i][1]].kind = "oversize"}
  IN  IF bad = {} THEN frames ELSE SubSeq(frames, 1, Min(bad) - 1)

\* A chunk of the encoder's output.  fail() stops the pipeline and leaves the handler on.
AudioChunk(upto) ==
  /\ audio \in {"active", "failed"} /\ encoder # "off"
  /\ upto \in (got + 1)..(2 * PageCount)
  /\ LET r    == Extract(upto)
         out  == IF r.failed THEN <<>> ELSE Sendable(r.frames)
         lost == r.failed \/ out # r.frames
     IN  /\ got' = upto
         /\ page' = r.page /\ parts' = r.parts
         /\ sent' = sent \o [i \in DOMAIN out |-> out[i] \o <<Len(sent) + i - 1>>]
         /\ audio' = IF lost THEN "failed" ELSE audio
         /\ encoder' = IF lost THEN "stopping" ELSE encoder
  /\ UNCHANGED <<stream, breaks, badPage>>

\* stop() takes the handler off at once and is `stopped' when the pipeline is.
AudioStop ==
  /\ audio \in {"active", "failed"} /\ encoder # "off"
  /\ audio' = "closing" /\ encoder' = "stopping"
  /\ UNCHANGED <<stream, breaks, badPage, got, page, parts, sent>>

EncoderEnded ==
  /\ encoder = "stopping"
  /\ encoder' = "off"
  /\ audio' = IF audio = "closing" THEN "stopped" ELSE audio
  /\ UNCHANGED <<stream, breaks, badPage, got, page, parts, sent>>

OggNext ==
  \/ \E upto \in 1..(2 * PageCount) : AudioChunk(upto)
  \/ AudioStop \/ EncoderEnded

OggSpec == OggInit /\ [][OggNext]_oggVars
-----------------------------------------------------------------------------
\* The frames of the stream that end on the first n pages, with all their segments.
FramesBy(n) ==
  LET ends == IF n = 0 THEN 0 ELSE PageLast(n)
      whole == {k \in DOMAIN stream :
                  /\ stream[k].kind # "header"
                  /\ \E i \in 1..ends : Segments[i].packet = k /\ Segments[i].last}
  IN  [i \in 1..Cardinality(whole) |->
         LET k == CHOOSE k \in whole : Cardinality({j \in whole : j <= k}) = i
         IN  <<k, stream[k].full + 1, i - 1>>]

\* What can stop the sound: a damaged page, a frame past a limit, pages that pile up.
HasCause ==
  \/ badPage # 0 /\ got >= 2 * badPage
  \/ \E k \in DOMAIN stream : stream[k].kind = "oversize" \/ stream[k].full + 1 > FrameLimit
  \/ PageCount > PageLimit

\* However the encoder's output is cut into pages and chunks, the frames sent are those of the
\* pages read so far, each whole, in order and 20 ms apart; the sound fails for a cause only,
\* and a failure never makes a frame go out twice, torn, or out of order.
SoundIsWhole ==
  /\ audio = "active" => sent = FramesBy(got \div 2)
  /\ audio = "failed" => HasCause
  /\ \A i \in DOMAIN sent :
       /\ sent[i][2] = stream[sent[i][1]].full + 1 /\ sent[i][3] = i - 1
       /\ i > 1 => sent[i - 1][1] < sent[i][1]
===============================================================================
