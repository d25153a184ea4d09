--------------------------- MODULE MediaPathProofs ---------------------------
(***************************************************************************)
(* Proofs about MediaPath, for any sizes, hosts, clients, keyframe         *)
(* interval and capacities.                                                *)
(***************************************************************************)
EXTENDS MediaPath, WellFoundedInduction, TLAPS

USE DEF serverVars, decoderVars, soundVars, vars

(***************************************************************************)
(* The inductive invariant.                                                *)
(***************************************************************************)

Encoder == ToSet(ENCODER_PRIORITY)
HardwareEncoder == {"av1_qsv", "av1_nvenc", "av1_amf", "av1_vaapi", "vp9_vaapi", "vp9_v4l2m2m",
    "vp8_v4l2m2m", "hevc_qsv", "hevc_nvenc", "hevc_amf", "hevc_vaapi", "hevc_v4l2m2m",
    "h264_qsv", "h264_nvenc", "h264_amf", "h264_vaapi", "h264_v4l2m2m"}
Running == {"recv", "decode", "reinit", "fallback"}
Holding == {"decode", "reinit", "fallback"}

ServerShape ==
    /\ supported \subseteq Codec /\ openable \subseteq Encoder
    /\ encoder \in Encoder \cup {"none"} /\ encoder_dims \in Size
    /\ since \in 0 .. GOP - 1 /\ errors \in 0 .. MaxEncodeErrors
    /\ rate \in Rate
    /\ wire \in Seq(Packet) /\ Len(wire) <= WireCap /\ tagged \in BOOLEAN
SoundShape == audio \in BOOLEAN /\ ring \in Nat /\ RingBounded
ClientShape ==
    /\ host \in [opens : SUBSET Decoder, works : SUBSET Decoder] /\ host.works \subseteq host.opens
    /\ at \in Running \cup {"start", "dead"}
    /\ packet \in Packet \cup {NoPacket} /\ (at \in Holding => packet \in Packet)
    /\ backend \in Decoder \cup {"none"} /\ (at \in Running => backend \in Decoder)
    /\ context \in Size \cup {"fresh"}
    /\ confirmed \in BOOLEAN /\ reinit_failures \in Nat /\ failed \subseteq Decoder
    /\ codec_filter \in Codec \cup {"any"} /\ outcome \in {"none", "frame", "error"}

\* The encoder itself is one the client can decode.
SupportedInv ==
    supported # {} => /\ \A i \in 1 .. Len(wire) : wire[i].codec \in supported
                      /\ encoder # "none" => EncoderCodec[encoder] \in supported

\* A decoder that was built for a codec is of that codec, whatever it was built after.
FilterInv ==
    tagged => /\ at \in Running => codec_filter = DecoderCodec[backend]
              /\ at \in Holding => DecoderCodec[backend] = packet.codec

\* A packet that is no keyframe continues the one before it, and so does the next that
\* the encoder will make.
Coming(c, d) ==
    IF wire = <<>> THEN encoder # "none" /\ since # 0 /\ EncoderCodec[encoder] = c /\ encoder_dims = d
                   ELSE ~Head(wire).key /\ Head(wire).codec = c /\ Head(wire).dims = d
ChainInv ==
    /\ \A i \in 1 .. Len(wire) - 1 :
         ~wire[i + 1].key => wire[i + 1].codec = wire[i].codec /\ wire[i + 1].dims = wire[i].dims
    /\ wire # <<>> /\ encoder # "none" /\ since # 0 =>
         wire[Len(wire)].codec = EncoderCodec[encoder] /\ wire[Len(wire)].dims = encoder_dims

\* So a decoder that works and has shown a picture fails on nothing but a keyframe of a
\* new size, and then not afresh.
HealthInv ==
    tagged =>
      /\ at \in Holding =>
           \A c \in Codec, d \in Size : Coming(c, d) => c = packet.codec /\ d = packet.dims
      /\ confirmed /\ backend \in host.works =>
           /\ at = "recv" => \A d \in Size : Coming(DecoderCodec[backend], d) => d = context
           /\ at = "decode" /\ ~packet.key => packet.dims = context
           /\ at = "reinit" => packet.key
           /\ at # "fallback"
      /\ at = "reinit" => confirmed

IInv == ServerShape /\ SoundShape /\ ClientShape /\ SupportedInv /\ FilterInv /\ ChainInv /\ HealthInv
-----------------------------------------------------------------------------
(* The lists of backends and the choice from them. *)

\* A set of indices has a least one, which Min gives.
LEMMA LeastIndex ==
    ASSUME NEW I \in SUBSET Nat, I # {}
    PROVE  Min(I) \in I /\ \A j \in I : Min(I) <= j
<1>1. PICK x \in I : \A y \in I : <<y, x>> \notin OpToRel(<, Nat)
  BY NatLessThanWellFounded, WFMin
<1>2. ASSUME NEW y \in I  PROVE x <= y
  <2>1. x \in Nat /\ y \in Nat /\ ~ (y < x)
    BY <1>1 DEF OpToRel
  <2> QED  BY <2>1
<1> QED  BY <1>2 DEF Min

\* The encoders, hardware first, each with its codec.
LEMMA EncoderFacts ==
    /\ Len(ENCODER_PRIORITY) = 22 /\ DOMAIN ENCODER_PRIORITY = 1 .. 22
    /\ \A i \in 1 .. 22 : ENCODER_PRIORITY[i] \in Encoder
    /\ Encoder = HardwareEncoder \cup SoftwareEncoder
    /\ \A i \in 1 .. 22 : ENCODER_PRIORITY[i] \in HardwareEncoder <=> i <= 17
    /\ HardwareEncoder \cap SoftwareEncoder = {}
    /\ "none" \notin Encoder
<1>1. Len(ENCODER_PRIORITY) = 22 /\ DOMAIN ENCODER_PRIORITY = 1 .. 22
  BY DEF ENCODER_PRIORITY
<1>2. \A i \in 1 .. 22 : ENCODER_PRIORITY[i] \in Encoder
  BY <1>1 DEF Encoder, ToSet
<1>3. HardwareEncoder \cap SoftwareEncoder = {}
  BY DEF HardwareEncoder, SoftwareEncoder
<1>4. /\ \A i \in 1 .. 17 : ENCODER_PRIORITY[i] \in HardwareEncoder
      /\ \A i \in 18 .. 22 : ENCODER_PRIORITY[i] \in SoftwareEncoder
  BY DEF ENCODER_PRIORITY, HardwareEncoder, SoftwareEncoder
<1>5. Encoder \subseteq HardwareEncoder \cup SoftwareEncoder
  BY <1>1, <1>4 DEF Encoder, ToSet
<1>6. /\ \A b \in HardwareEncoder : \E i \in 1 .. 17 : ENCODER_PRIORITY[i] = b
      /\ \A b \in SoftwareEncoder : \E i \in 18 .. 22 : ENCODER_PRIORITY[i] = b
  BY DEF ENCODER_PRIORITY, HardwareEncoder, SoftwareEncoder
<1>7. HardwareEncoder \cup SoftwareEncoder \subseteq Encoder
  BY <1>1, <1>6 DEF Encoder, ToSet
<1>8. "none" \notin Encoder
  BY <1>5 DEF HardwareEncoder, SoftwareEncoder
<1> QED  BY <1>1, <1>2, <1>3, <1>4, <1>5, <1>7, <1>8

LEMMA CodecOfEncoder == EncoderCodec \in [Encoder -> Codec]
BY DEF EncoderCodec, Encoder, Codec

\* The decoders, each with its codec.
LEMMA DecoderFacts ==
    /\ Len(BACKEND_PRIORITY) = 18
    /\ \A i \in 1 .. 18 : BACKEND_PRIORITY[i] \in Decoder
    /\ "none" \notin Decoder
    /\ DecoderCodec \in [Decoder -> Codec]
    /\ "any" \notin Codec /\ "none" \notin Codec
<1>1. Len(BACKEND_PRIORITY) = 18 /\ DOMAIN BACKEND_PRIORITY = 1 .. 18
  BY DEF BACKEND_PRIORITY
<1>2. \A i \in 1 .. 18 : BACKEND_PRIORITY[i] \in Decoder
  BY <1>1 DEF Decoder, ToSet
<1>3. \A i \in 1 .. 18 : BACKEND_PRIORITY[i] # "none"
  BY DEF BACKEND_PRIORITY
<1>4. "none" \notin Decoder
  BY <1>1, <1>3 DEF Decoder, ToSet
<1>5. DecoderCodec \in [Decoder -> Codec]
  BY DEF DecoderCodec, Codec
<1> QED  BY <1>1, <1>2, <1>4, <1>5 DEF Codec

\* A probe gives an encoder that opens and that the client can decode, or none; and one
\* in software only where no hardware that would do opens.
LEMMA ProbeGives ==
    ASSUME NEW allowed \in SUBSET Codec, NEW can \in SUBSET Encoder
    PROVE  LET b == ProbeBest(allowed, can)
           IN  /\ b \in Encoder \cup {"none"}
               /\ b # "none" /\ allowed # {} => EncoderCodec[b] \in allowed
               /\ b \in SoftwareEncoder =>
                    \A h \in can \ SoftwareEncoder : allowed # {} /\ EncoderCodec[h] \notin allowed
<1> DEFINE I == {i \in 1 .. 22 : ENCODER_PRIORITY[i] \in Candidates(allowed) \cap can}
<1>1. ProbeBest(allowed, can) = IF I = {} THEN "none" ELSE
                                IF Min(I) = 0 THEN "none" ELSE ENCODER_PRIORITY[Min(I)]
  BY EncoderFacts DEF ProbeBest, SelectInSeq
<1>2. CASE I = {}
  <2>1. ProbeBest(allowed, can) = "none"
    BY <1>1, <1>2
  <2> QED  BY <2>1, EncoderFacts DEF SoftwareEncoder
<1>3. CASE I # {}
  <2>1. Min(I) \in I /\ \A j \in I : Min(I) <= j
    BY <1>3, LeastIndex
  <2>2. Min(I) \in 1 .. 22 /\ ProbeBest(allowed, can) = ENCODER_PRIORITY[Min(I)]
    BY <1>1, <1>3, <2>1
  <2>3. ENCODER_PRIORITY[Min(I)] \in Candidates(allowed)
    BY <2>1
  <2>4. ASSUME ENCODER_PRIORITY[Min(I)] \in SoftwareEncoder, NEW h \in can \ SoftwareEncoder
        PROVE  allowed # {} /\ EncoderCodec[h] \notin allowed
    <3>1. PICK j \in 1 .. 22 : ENCODER_PRIORITY[j] = h
      BY EncoderFacts DEF Encoder, ToSet
    <3>2. j < Min(I)
      BY <2>2, <2>4, <3>1, EncoderFacts
    <3>3. j \notin I
      BY <2>1, <2>2, <3>2
    <3> QED  BY <3>1, <3>3 DEF Candidates, Encoder
  <2> QED  BY <2>2, <2>3, <2>4, EncoderFacts DEF Candidates
<1> QED  BY <1>2, <1>3

\* init_from_index gives a decoder that opens, has not failed and decodes the codec.
LEMMA DecoderGiven ==
    ASSUME NEW start \in Nat \ {0}, NEW gone, NEW filter,
           InitFromIndex(start, gone, filter) # 0
    PROVE  LET b == BACKEND_PRIORITY[InitFromIndex(start, gone, filter)]
           IN  b \in Decoder /\ filter \in {"any", DecoderCodec[b]}
<1> DEFINE I == {i \in start .. 18 : /\ BACKEND_PRIORITY[i] \notin gone
                                     /\ filter \in {"any", DecoderCodec[BACKEND_PRIORITY[i]]}
                                     /\ BACKEND_PRIORITY[i] \in host.opens}
<1>1. InitFromIndex(start, gone, filter) = IF I # {} THEN Min(I) ELSE 0
  BY DecoderFacts DEF InitFromIndex, SelectInSubSeq
<1>2. I # {}
  BY <1>1
<1>3. I \in SUBSET Nat
  OBVIOUS
<1>4. Min(I) \in I
  BY <1>2, <1>3, LeastIndex
<1> DEFINE i == InitFromIndex(start, gone, filter)
<1>5. i \in I
  BY <1>1, <1>2, <1>4
<1>6. i \in 1 .. 18 /\ filter \in {"any", DecoderCodec[BACKEND_PRIORITY[i]]}
  BY <1>5
<1> QED  BY <1>6, DecoderFacts

\* The place of a backend in the list.
LEMMA IndexIsNat == SelectInSeq(BACKEND_PRIORITY, LAMBDA b : b = backend) \in Nat
<1> DEFINE I == {i \in 1 .. 18 : BACKEND_PRIORITY[i] = backend}
<1>1. SelectInSeq(BACKEND_PRIORITY, LAMBDA b : b = backend) = IF I # {} THEN Min(I) ELSE 0
  BY DecoderFacts DEF SelectInSeq
<1>2. I # {} => Min(I) \in I
  BY LeastIndex
<1> QED  BY <1>1, <1>2
-----------------------------------------------------------------------------
(* Rate control. *)

LEMMA ClampIs ==
    ASSUME NEW q \in Nat
    PROVE  /\ Clamp(q, 1, 100) \in 1 .. 100
           /\ \A r \in Nat : q <= r => Clamp(q, 1, 100) <= Clamp(r, 1, 100)
BY DEF Clamp

LEMMA Crfs ==
    /\ DOMAIN CrfScale = {"libsvtav1", "libvpx-vp9", "libx265", "libx264"}
    /\ \A b \in {"libsvtav1", "libvpx-vp9"} : CrfScale[b] = <<25, 63>>
    /\ \A b \in {"libx265", "libx264"} : CrfScale[b] = <<14, 51>>
BY DEF CrfScale

\* On both scales a CRF stays within its ends and falls as quality rises.
LEMMA CrfFalls ==
    ASSUME NEW q \in Nat
    PROVE  /\ CrfForQuality(q, 25, 63) \in 25 .. 63 /\ CrfForQuality(q, 14, 51) \in 14 .. 51
           /\ \A r \in Nat : q <= r => /\ CrfForQuality(r, 25, 63) <= CrfForQuality(q, 25, 63)
                                       /\ CrfForQuality(r, 14, 51) <= CrfForQuality(q, 14, 51)
           /\ CrfForQuality(75, 25, 63) = 35 /\ CrfForQuality(75, 14, 51) = 23
<1>1. \A r \in Nat : /\ CrfForQuality(r, 25, 63) = (12649 - 76 * Clamp(r, 1, 100)) \div 198
                     /\ CrfForQuality(r, 14, 51) = (10271 - 74 * Clamp(r, 1, 100)) \div 198
  <2>1. ASSUME NEW r \in Nat
        PROVE  /\ 2 * 99 * 63 - 2 * (Clamp(r, 1, 100) - 1) * (63 - 25) + 99 = 12649 - 76 * Clamp(r, 1, 100)
               /\ 2 * 99 * 51 - 2 * (Clamp(r, 1, 100) - 1) * (51 - 14) + 99 = 10271 - 74 * Clamp(r, 1, 100)
    BY ClampIs
  <2> QED  BY <2>1 DEF CrfForQuality
<1>2. \A c \in 1 .. 100 : /\ (12649 - 76 * c) \div 198 \in 25 .. 63
                          /\ (10271 - 74 * c) \div 198 \in 14 .. 51
  OBVIOUS
<1>3. \A c, d \in 1 .. 100 : c <= d =>
        /\ (12649 - 76 * d) \div 198 <= (12649 - 76 * c) \div 198
        /\ (10271 - 74 * d) \div 198 <= (10271 - 74 * c) \div 198
  OBVIOUS
<1>4. Clamp(75, 1, 100) = 75
  BY DEF Clamp
<1>5. CrfForQuality(75, 25, 63) = 35 /\ CrfForQuality(75, 14, 51) = 23
  BY <1>1, <1>4
<1>6. CrfForQuality(q, 25, 63) \in 25 .. 63 /\ CrfForQuality(q, 14, 51) \in 14 .. 51
  <2>1. Clamp(q, 1, 100) \in 1 .. 100
    BY ClampIs
  <2>2. /\ (12649 - 76 * Clamp(q, 1, 100)) \div 198 \in 25 .. 63
        /\ (10271 - 74 * Clamp(q, 1, 100)) \div 198 \in 14 .. 51
    BY <1>2, <2>1
  <2> QED  BY <1>1, <2>2
<1>7. ASSUME NEW r \in Nat, q <= r
      PROVE  /\ CrfForQuality(r, 25, 63) <= CrfForQuality(q, 25, 63)
             /\ CrfForQuality(r, 14, 51) <= CrfForQuality(q, 14, 51)
  <2>1. Clamp(q, 1, 100) \in 1 .. 100 /\ Clamp(r, 1, 100) \in 1 .. 100
        /\ Clamp(q, 1, 100) <= Clamp(r, 1, 100)
    BY <1>7, ClampIs
  <2> QED  BY <1>1, <1>3, <2>1
<1> QED  BY <1>5, <1>6, <1>7

LEMMA BitrateLimits ==
    /\ MIN_BITRATE_KBPS \in Int /\ MAX_BITRATE_KBPS \in Int
    /\ \A x \in Int : 50 <= x /\ x <= 100000 <=> MIN_BITRATE_KBPS <= x /\ x <= MAX_BITRATE_KBPS
BY DEF MIN_BITRATE_KBPS, MAX_BITRATE_KBPS

\* The bitrate of a quality stays within the limits and never falls as it rises.
LEMMA BitrateRises ==
    ASSUME NEW q \in Nat, NEW crf, NEW codec
    PROVE  LET Of(v) == Kbps([kind |-> "quality", value |-> v, crf |-> crf], codec)
           IN  /\ Of(q) \in MIN_BITRATE_KBPS .. MAX_BITRATE_KBPS
               /\ \A r \in Nat : q <= r => Of(q) <= Of(r)
<1> DEFINE of(v) == Kbps([kind |-> "quality", value |-> v, crf |-> crf], codec)
<1>1. ASSUME NEW r \in Nat, q <= r
      PROVE  of(q) \in Int /\ 50 <= of(q) /\ of(q) <= 100000 /\ of(q) <= of(r)
  <2>1. /\ Clamp(q, 1, 100) \in 1 .. 100 /\ Clamp(r, 1, 100) \in 1 .. 100
        /\ Clamp(q, 1, 100) <= Clamp(r, 1, 100)
    BY <1>1, ClampIs
  <2>2. CASE codec = "av1"
    <3>1. \A v \in {q, r} : of(v) = IF Clamp(v, 1, 100) * 15 < 50 THEN 50 ELSE Clamp(v, 1, 100) * 15
      BY <2>2 DEF Kbps
    <3> HIDE DEF of
    <3> QED  BY <2>1, <3>1
  <2>3. CASE codec # "av1"
    <3>1. \A v \in {q, r} : of(v) = IF Clamp(v, 1, 100) * 150 < 500 THEN 500 ELSE Clamp(v, 1, 100) * 150
      BY <2>3 DEF Kbps
    <3> HIDE DEF of
    <3> QED  BY <2>1, <3>1
  <2> QED  BY <2>2, <2>3
<1>2. of(q) \in Int /\ 50 <= of(q) /\ of(q) <= 100000
  BY <1>1
<1>3. \A r \in Nat : q <= r => of(q) <= of(r)
  BY <1>1
<1> HIDE DEF of
<1>4. of(q) \in MIN_BITRATE_KBPS .. MAX_BITRATE_KBPS
  BY <1>2, BitrateLimits
<1> QED  BY <1>3, <1>4 DEF of

\* Whatever encoder was chosen, its rate follows the quality asked for.
LEMMA QualityFollowed ==
    ASSUME encoder \in Encoder \cup {"none"}, rate \in Rate
    PROVE  RateFollowsQuality
<1> SUFFICES ASSUME encoder # "none", rate.kind = "quality", rate.crf < 0
             PROVE  RateFollowsQuality
  BY DEF RateFollowsQuality
<1> DEFINE At(q) == RateControl(encoder, [rate EXCEPT !.value = q])
<1>1. rate = [kind |-> "quality", value |-> rate.value, crf |-> rate.crf] /\ rate.value \in Nat
  BY DEF Rate
<1>2. \A q \in Nat : [rate EXCEPT !.value = q] = [kind |-> "quality", value |-> q, crf |-> rate.crf]
  BY <1>1
<1>3. \A q \in rate.value .. 255 : q \in Nat /\ rate.value <= q
  BY <1>1
<1>4. CASE encoder \in DOMAIN CrfScale
  <2>1. \A q \in Nat : At(q) = [rc |-> "crf", value |-> CrfForQuality(q, CrfScale[encoder][1], CrfScale[encoder][2])]
    BY <1>1, <1>2, <1>4 DEF RateControl, Rate
  <2>2. \/ CrfScale[encoder][1] = 25 /\ CrfScale[encoder][2] = 63
        \/ CrfScale[encoder][1] = 14 /\ CrfScale[encoder][2] = 51
    BY <1>4, Crfs
  <2> HIDE DEF At
  <2>3. \A q \in Nat : At(q).value = CrfForQuality(q, CrfScale[encoder][1], CrfScale[encoder][2])
    BY <2>1
  <2>4. /\ At(rate.value).value \in CrfScale[encoder][1] .. CrfScale[encoder][2]
        /\ At(75).value = IF CrfScale[encoder][2] = 63 THEN 35 ELSE 23
        /\ \A q \in rate.value .. 255 : At(q).value <= At(rate.value).value
    BY <1>1, <1>3, <2>2, <2>3, CrfFalls
  <2> QED  BY <1>4, <2>4 DEF RateFollowsQuality, At
<1>5. CASE encoder \notin DOMAIN CrfScale
  <2>1. \A q \in Nat : At(q) = [rc |-> "kbps", value |-> Kbps([kind |-> "quality", value |-> q, crf |-> rate.crf],
                                                            EncoderCodec[encoder])]
    BY <1>2, <1>5 DEF RateControl
  <2> HIDE DEF At
  <2>2. \A q \in Nat : At(q).value = Kbps([kind |-> "quality", value |-> q, crf |-> rate.crf], EncoderCodec[encoder])
    BY <2>1
  <2>3. /\ At(rate.value).value \in MIN_BITRATE_KBPS .. MAX_BITRATE_KBPS
        /\ \A q \in rate.value .. 255 : At(q).value >= At(rate.value).value
    <3>1. At(rate.value).value \in MIN_BITRATE_KBPS .. MAX_BITRATE_KBPS
      BY <1>1, <2>2, BitrateRises
    <3>2. ASSUME NEW q \in rate.value .. 255  PROVE At(q).value >= At(rate.value).value
      <4>1. /\ Kbps([kind |-> "quality", value |-> rate.value, crf |-> rate.crf], EncoderCodec[encoder])
                \in MIN_BITRATE_KBPS .. MAX_BITRATE_KBPS
            /\ Kbps([kind |-> "quality", value |-> q, crf |-> rate.crf], EncoderCodec[encoder])
                \in MIN_BITRATE_KBPS .. MAX_BITRATE_KBPS
            /\ Kbps([kind |-> "quality", value |-> rate.value, crf |-> rate.crf], EncoderCodec[encoder])
                <= Kbps([kind |-> "quality", value |-> q, crf |-> rate.crf], EncoderCodec[encoder])
        BY <1>1, <1>3, BitrateRises
      <4>2. /\ At(q).value \in MIN_BITRATE_KBPS .. MAX_BITRATE_KBPS
            /\ At(rate.value).value \in MIN_BITRATE_KBPS .. MAX_BITRATE_KBPS
            /\ At(rate.value).value <= At(q).value
        BY <1>1, <1>3, <2>2, <4>1
      <4> HIDE DEF At
      <4> QED  BY <4>2, BitrateLimits
    <3> QED  BY <3>1, <3>2
  <2> QED  BY <1>5, <2>3 DEF RateFollowsQuality, At
<1> QED  BY <1>4, <1>5
-----------------------------------------------------------------------------
(* The wire, seen from both ends. *)

\* Nothing moves: what comes next stays what it was.
LEMMA WireStays ==
    ASSUME IInv, UNCHANGED <<serverVars, tagged, wire>>
    PROVE  /\ ServerShape' /\ SupportedInv' /\ ChainInv'
           /\ \A c, d : Coming(c, d)' <=> Coming(c, d)
BY DEF IInv, ServerShape, SupportedInv, ChainInv, Coming

\* A packet is taken: what comes next continues it, unless it is a keyframe.
LEMMA WirePasses ==
    ASSUME IInv, UNCHANGED <<serverVars, tagged>>, wire # <<>>, wire' = Tail(wire)
    PROVE  /\ ServerShape' /\ SupportedInv' /\ ChainInv'
           /\ Head(wire) \in Packet
           /\ \A c, d : Coming(c, d)' => c = Head(wire).codec /\ d = Head(wire).dims
<1>1. /\ wire \in Seq(Packet) /\ wire' \in Seq(Packet) /\ Len(wire) \in Nat \ {0}
      /\ Len(wire') = Len(wire) - 1 /\ Head(wire) = wire[1] /\ Head(wire) \in Packet
      /\ \A i \in 1 .. Len(wire) - 1 : wire'[i] = wire[i + 1]
      /\ wire' = <<>> <=> Len(wire) = 1
      /\ wire' # <<>> => Head(wire') = wire[2]
  <2>1. wire \in Seq(Packet)
    BY DEF IInv, ServerShape
  <2>2. /\ wire' \in Seq(Packet) /\ Len(wire) \in Nat \ {0}
        /\ Len(wire') = Len(wire) - 1 /\ Head(wire) = wire[1] /\ Head(wire) \in Packet
    BY <2>1
  <2>3. \A i \in 1 .. Len(wire) - 1 : wire'[i] = wire[i + 1]
    BY <2>1
  <2>4. wire' = <<>> <=> Len(wire) = 1
    BY <2>2
  <2>5. wire' # <<>> => Head(wire') = wire'[1] /\ 1 \in 1 .. Len(wire) - 1
    BY <2>2
  <2> QED  BY <2>1, <2>2, <2>3, <2>4, <2>5
<1>2. ServerShape'
  <2>1. Len(wire') <= WireCap
    BY <1>1, MediaAssumption DEF IInv, ServerShape
  <2> QED  BY <1>1, <2>1 DEF IInv, ServerShape
<1>3. SupportedInv'
  BY <1>1 DEF IInv, SupportedInv
<1>4. ChainInv'
  <2>1. ASSUME NEW i \in 1 .. Len(wire') - 1, ~wire'[i + 1].key
        PROVE  wire'[i + 1].codec = wire'[i].codec /\ wire'[i + 1].dims = wire'[i].dims
    <3>1. /\ wire'[i] = wire[i + 1] /\ wire'[i + 1] = wire[(i + 1) + 1]
          /\ i + 1 \in 1 .. Len(wire) - 1
      BY <1>1
    <3> QED  BY <2>1, <3>1 DEF IInv, ChainInv
  <2>2. ASSUME wire' # <<>>, encoder' # "none", since' # 0
        PROVE  wire'[Len(wire')].codec = EncoderCodec[encoder'] /\ wire'[Len(wire')].dims = encoder_dims'
    <3>1. wire'[Len(wire')] = wire[Len(wire)]
      BY <1>1, <2>2
    <3> QED  BY <2>2, <3>1 DEF IInv, ChainInv
  <2> QED  BY <2>1, <2>2 DEF ChainInv
<1>5. ASSUME NEW c, NEW d, Coming(c, d)'
      PROVE  c = Head(wire).codec /\ d = Head(wire).dims
  <2>1. CASE wire' = <<>>
    BY <1>1, <1>5, <2>1 DEF IInv, ChainInv, Coming
  <2>2. CASE wire' # <<>>
    <3>1. 1 \in 1 .. Len(wire) - 1 /\ wire[2] = wire[1 + 1]
      BY <1>1, <2>2
    <3> QED  BY <1>1, <1>5, <2>2, <3>1 DEF IInv, ChainInv, Coming
  <2> QED  BY <2>1, <2>2
<1> QED  BY <1>1, <1>2, <1>3, <1>4, <1>5

\* A captured picture leaves the server with an encoder the client can decode, or none.
LEMMA EncoderRebuilt ==
    ASSUME IInv, NEW d \in Size, Rebuild(d)
    PROVE  /\ encoder' \in Encoder \cup {"none"} /\ encoder_dims' \in Size
           /\ supported # {} /\ encoder' # "none" => EncoderCodec[encoder'] \in supported
           /\ d = encoder_dims => encoder' = encoder
           /\ encoder # "none" /\ encoder_dims' = d
<1>1. supported \in SUBSET Codec /\ openable \in SUBSET Encoder
  BY DEF IInv, ServerShape
<1>2. CASE d = encoder_dims
  BY <1>2 DEF Rebuild, IInv, ServerShape, SupportedInv
<1>3. CASE d # encoder_dims
  <2>1. encoder' = ProbeBest(supported, openable)
    BY <1>3 DEF Rebuild
  <2> QED  BY <1>1, <1>3, <2>1, ProbeGives DEF Rebuild
<1> QED  BY <1>2, <1>3

\* A packet that continues the last is sent for the codec and the size of the last.
LEMMA EncoderStep ==
    ASSUME IInv, NEW d \in Size, EncodeFrame(d) \/ EncodeFails(d) \/ NoEncoder(d)
    PROVE  /\ ServerShape' /\ SupportedInv' /\ ChainInv'
           /\ \A c, e : Coming(c, e)' => Coming(c, e)
<1> USE MediaAssumption
<1>1. Rebuild(d)
  BY DEF EncodeFrame, EncodeFails, NoEncoder
<1>2. /\ encoder' \in Encoder \cup {"none"} /\ encoder_dims' \in Size
      /\ supported # {} /\ encoder' # "none" => EncoderCodec[encoder'] \in supported
      /\ d = encoder_dims => encoder' = encoder
      /\ encoder # "none" /\ encoder_dims' = d
  BY <1>1, EncoderRebuilt
<1>3. CASE EncodeFrame(d)
  <2> DEFINE key == d # encoder_dims \/ since = 0
             p == [codec |-> EncoderCodec[encoder'], key |-> key, dims |-> d]
  <2>1. /\ wire' = Append(wire, p) /\ encoder' # "none" /\ Len(wire) < WireCap
        /\ since' = (IF key THEN 1 ELSE since + 1) % GOP
        /\ UNCHANGED <<supported, openable, errors, rate, tagged>>
    BY <1>1, <1>3 DEF EncodeFrame, Rebuild
  <2>2. p \in Packet
    BY <1>2, <2>1, CodecOfEncoder DEF Packet
  <2>3. p.codec = EncoderCodec[encoder'] /\ p.key = key /\ p.dims = d
    OBVIOUS
  <2> HIDE DEF p
  <2>4. /\ wire \in Seq(Packet) /\ wire' \in Seq(Packet) /\ Len(wire) \in Nat /\ Len(wire') = Len(wire) + 1
        /\ \A i \in 1 .. Len(wire) : wire'[i] = wire[i]
        /\ wire'[Len(wire) + 1] = p
        /\ wire' # <<>> /\ Head(wire') = wire'[1]
        /\ wire # <<>> => Head(wire) = wire[1] /\ Len(wire) # 0
        /\ wire = <<>> => Len(wire) = 0
    BY <2>1, <2>2 DEF IInv, ServerShape
  <2>5. since' \in 0 .. GOP - 1
    BY <2>1 DEF IInv, ServerShape
  <2>6. ServerShape'
    BY <1>2, <2>1, <2>4, <2>5 DEF IInv, ServerShape
  <2>7. SupportedInv'
    <3>1. ASSUME supported # {}, NEW i \in 1 .. Len(wire')  PROVE wire'[i].codec \in supported
      <4>1. CASE i \in 1 .. Len(wire)
        BY <2>4, <3>1, <4>1 DEF IInv, SupportedInv
      <4>2. CASE i = Len(wire) + 1
        BY <1>2, <2>1, <2>3, <2>4, <3>1, <4>2
      <4> QED  BY <2>4, <4>1, <4>2
    <3> QED  BY <1>2, <2>1, <3>1 DEF SupportedInv
  <2>8. ~key => /\ encoder' = encoder /\ d = encoder_dims /\ since # 0
                /\ wire # <<>> => wire[Len(wire)].codec = p.codec /\ wire[Len(wire)].dims = p.dims
    BY <1>2, <2>3 DEF IInv, ChainInv
  <2>9. ChainInv'
    <3>1. ASSUME NEW i \in 1 .. Len(wire') - 1, ~wire'[i + 1].key
          PROVE  wire'[i + 1].codec = wire'[i].codec /\ wire'[i + 1].dims = wire'[i].dims
      <4>1. CASE i < Len(wire)
        <5>1. /\ i \in 1 .. Len(wire) - 1 /\ i \in 1 .. Len(wire) /\ i + 1 \in 1 .. Len(wire)
          BY <2>4, <4>1
        <5>2. wire'[i] = wire[i] /\ wire'[i + 1] = wire[i + 1]
          BY <2>4, <5>1
        <5> QED  BY <3>1, <5>1, <5>2 DEF IInv, ChainInv
      <4>2. CASE i = Len(wire)
        <5>1. wire'[i + 1] = p /\ wire'[i] = wire[Len(wire)] /\ wire # <<>>
          BY <2>4, <4>2
        <5> QED  BY <2>3, <2>8, <3>1, <5>1
      <4> QED  BY <2>4, <4>1, <4>2
    <3>2. wire'[Len(wire')].codec = EncoderCodec[encoder'] /\ wire'[Len(wire')].dims = encoder_dims'
      BY <1>2, <2>3, <2>4
    <3> QED  BY <3>1, <3>2 DEF ChainInv
  <2>10. ASSUME NEW c, NEW e, Coming(c, e)'  PROVE Coming(c, e)
    <3>1. CASE wire = <<>>
      <4>1. Head(wire') = p
        BY <2>4, <3>1
      <4> QED  BY <1>2, <2>3, <2>4, <2>8, <2>10, <3>1, <4>1 DEF Coming
    <3>2. CASE wire # <<>>
      <4>1. Head(wire') = Head(wire)
        BY <2>4, <3>2
      <4> QED  BY <2>4, <2>10, <3>2, <4>1 DEF Coming
    <3> QED  BY <3>1, <3>2
  <2> QED  BY <2>6, <2>7, <2>9, <2>10
<1>4. CASE EncodeFails(d) \/ NoEncoder(d)
  <2>1. /\ UNCHANGED <<supported, openable, rate, wire, tagged>>
        /\ errors' \in 0 .. MaxEncodeErrors
        /\ since' \in 0 .. GOP - 1
        /\ encoder' # "none" /\ since' # 0 => d = encoder_dims /\ since' = since
    <3>1. CASE EncodeFails(d)
      BY <3>1 DEF EncodeFails, IInv, ServerShape
    <3>2. CASE NoEncoder(d)
      BY <3>2 DEF NoEncoder, IInv, ServerShape
    <3> QED  BY <1>4, <3>1, <3>2
  <2>2. ServerShape' /\ SupportedInv'
    BY <1>2, <2>1 DEF IInv, ServerShape, SupportedInv
  <2>3. ChainInv'
    BY <1>2, <2>1 DEF IInv, ChainInv
  <2>4. \A c, e : Coming(c, e)' => Coming(c, e)
    BY <1>2, <2>1 DEF Coming
  <2> QED  BY <2>2, <2>3, <2>4
<1> QED  BY <1>3, <1>4
-----------------------------------------------------------------------------
(* The decode thread. *)

\* A new decoder is of the codec it is built for and has shown nothing yet.
LEMMA DecoderBuilt ==
    ASSUME NEW start \in Nat \ {0}, NEW gone \in SUBSET Decoder, NEW filter \in Codec \cup {"any"},
           NEW i, i = InitFromIndex(start, gone, filter), i # 0, NewDecoder(i, gone, filter)
    PROVE  /\ backend' \in Decoder /\ context' = "fresh" /\ confirmed' = FALSE
           /\ reinit_failures' = 0 /\ failed' \in SUBSET Decoder /\ codec_filter' = filter
           /\ filter # "any" => DecoderCodec[backend'] = filter
<1>1. BACKEND_PRIORITY[i] \in Decoder /\ filter \in {"any", DecoderCodec[BACKEND_PRIORITY[i]]}
  BY DecoderGiven
<1> QED  BY <1>1 DEF NewDecoder

\* What the server sends and what the sound does are nothing to the decoder.
LEMMA DecoderStays ==
    ASSUME IInv, UNCHANGED <<tagged, host, decoderVars>>,
           \A c, d : Coming(c, d)' => Coming(c, d)
    PROVE  ClientShape' /\ FilterInv' /\ HealthInv'
<1>1. ClientShape' /\ FilterInv'
  BY DEF IInv, ClientShape, FilterInv
<1>2. HealthInv'
  BY DEF IInv, HealthInv
<1> QED  BY <1>1, <1>2

LEMMA BuildKeeps ==
    ASSUME IInv, BuildDecoder
    PROVE  ClientShape' /\ FilterInv' /\ HealthInv'
<1> DEFINE filter == IF tagged THEN Head(wire).codec ELSE "any"
           i == InitFromIndex(1, {}, filter)
<1>1. /\ at = "start" /\ wire # <<>> /\ UNCHANGED <<host, tagged, packet, outcome>>
      /\ Head(wire).codec \in Codec
  <2>1. at = "start" /\ wire # <<>> /\ UNCHANGED <<host, tagged, packet, outcome>>
    BY DEF BuildDecoder, elsewhere
  <2>2. Head(wire) \in Packet
    BY <2>1 DEF IInv, ServerShape
  <2> QED  BY <2>1, <2>2 DEF Packet
<1>2. filter \in Codec \cup {"any"}
  BY <1>1
<1>3. CASE i = 0
  <2>1. at' = "dead" /\ UNCHANGED sameDecoder
    BY <1>3 DEF BuildDecoder
  <2> QED  BY <1>1, <2>1 DEF sameDecoder, IInv, ClientShape, FilterInv, HealthInv, Running, Holding
<1>4. CASE i # 0
  <2>1. at' = "recv" /\ NewDecoder(i, {}, filter)
    BY <1>4 DEF BuildDecoder
  <2> HIDE DEF filter, i
  <2>2. /\ backend' \in Decoder /\ context' = "fresh" /\ confirmed' = FALSE
        /\ reinit_failures' = 0 /\ failed' \in SUBSET Decoder /\ codec_filter' = filter
        /\ filter # "any" => DecoderCodec[backend'] = filter
    <3>1. i = InitFromIndex(1, {}, filter) /\ 1 \in Nat \ {0} /\ {} \in SUBSET Decoder
      BY DEF i
    <3> QED  BY <1>2, <1>4, <2>1, <3>1, DecoderBuilt
  <2>3. tagged => filter # "any"
    BY <1>1, DecoderFacts DEF filter
  <2>4. ClientShape'
    BY <1>1, <1>2, <2>1, <2>2 DEF IInv, ClientShape, Running, Holding
  <2>5. FilterInv'
    BY <1>1, <2>1, <2>2, <2>3 DEF FilterInv, Holding
  <2>6. HealthInv'
    BY <2>1, <2>2 DEF HealthInv, Holding
  <2> QED  BY <2>4, <2>5, <2>6
<1> QED  BY <1>3, <1>4

LEMMA TakeJobKeeps ==
    ASSUME IInv, TakeJob
    PROVE  ClientShape' /\ FilterInv' /\ HealthInv'
<1> DEFINE codec == Head(wire).codec
           i == InitFromIndex(1, {}, codec)
<1>1. /\ at = "recv" /\ wire # <<>> /\ wire' = Tail(wire)
      /\ UNCHANGED <<serverVars, host, tagged>>
      /\ packet' = IF at' = "recv" THEN NoPacket ELSE Head(wire)
  BY DEF TakeJob, elsewhere
<1>2. /\ Head(wire) \in Packet /\ codec \in Codec
      /\ \A c, d : Coming(c, d)' => c = codec /\ d = Head(wire).dims
  BY <1>1, WirePasses DEF Packet
<1>3. CASE tagged /\ codec # DecoderCodec[backend] /\ i = 0
  <2>1. at' = "recv" /\ outcome' = "error" /\ UNCHANGED sameDecoder
    BY <1>3 DEF TakeJob
  <2>2. ClientShape' /\ FilterInv'
    BY <1>1, <2>1 DEF sameDecoder, IInv, ClientShape, FilterInv, Running, Holding
  <2>3. \A d : ~Coming(DecoderCodec[backend], d)'
    BY <1>2, <1>3, <2>1 DEF sameDecoder
  <2>4. HealthInv'
    BY <2>1, <2>3 DEF HealthInv, Holding
  <2> QED  BY <2>2, <2>4
<1>4. CASE tagged /\ codec # DecoderCodec[backend] /\ i # 0
  <2>1. at' = "decode" /\ outcome' = "none" /\ NewDecoder(i, {}, codec)
    BY <1>4 DEF TakeJob
  <2>2. /\ backend' \in Decoder /\ context' = "fresh" /\ confirmed' = FALSE
        /\ reinit_failures' = 0 /\ failed' \in SUBSET Decoder /\ codec_filter' = codec
        /\ codec # "any" => DecoderCodec[backend'] = codec
    <3>1. i = InitFromIndex(1, {}, codec) /\ 1 \in Nat \ {0} /\ {} \in SUBSET Decoder
      OBVIOUS
    <3> HIDE DEF i, codec
    <3> QED  BY <1>2, <1>4, <2>1, <3>1, DecoderBuilt
  <2>3. packet' = Head(wire) /\ codec # "any"
    BY <1>1, <1>2, <2>1, DecoderFacts
  <2>4. ClientShape'
    BY <1>1, <1>2, <2>1, <2>2, <2>3 DEF IInv, ClientShape, Running, Holding
  <2>5. FilterInv'
    BY <2>1, <2>2, <2>3 DEF FilterInv
  <2>6. HealthInv'
    BY <1>2, <2>1, <2>2, <2>3 DEF HealthInv
  <2> QED  BY <2>4, <2>5, <2>6
<1>5. CASE ~tagged \/ codec = DecoderCodec[backend]
  <2>1. at' = "decode" /\ outcome' = "none" /\ UNCHANGED sameDecoder
    BY <1>5 DEF TakeJob
  <2>2. packet' = Head(wire)
    BY <1>1, <2>1
  <2>3. ClientShape'
    BY <1>1, <1>2, <2>1, <2>2 DEF sameDecoder, IInv, ClientShape, Running, Holding
  <2>4. FilterInv'
    BY <1>1, <1>5, <2>1, <2>2 DEF sameDecoder, IInv, FilterInv, Running, Holding
  <2>5. HealthInv'
    <3>1. Head(wire).dims \in Size /\ Head(wire).key \in BOOLEAN
      BY <1>2 DEF Packet
    <3>2. ASSUME tagged, confirmed, backend \in host.works, ~Head(wire).key
          PROVE  Head(wire).dims = context
      <4>1. Coming(DecoderCodec[backend], Head(wire).dims)
        BY <1>1, <1>5, <3>2 DEF Coming
      <4> QED  BY <1>1, <3>1, <3>2, <4>1 DEF IInv, HealthInv
    <3> QED  BY <1>1, <1>2, <2>1, <2>2, <3>2 DEF HealthInv, sameDecoder
  <2> QED  BY <2>3, <2>4, <2>5
<1> QED  BY <1>3, <1>4, <1>5

\* What a decoder that works answers to a packet of its codec.
LEMMA HealthyAnswers ==
    ASSUME packet \in Packet, DecoderCodec[backend] = packet.codec, backend \in host.works,
           NEW ctx, NEW answer \in Answers(ctx)
    PROVE  /\ answer = "error" => ctx # packet.dims /\ (packet.key => ctx # "fresh")
           /\ answer = "again" => ~packet.key /\ ctx # packet.dims
BY DEF Answers, Packet

LEMMA DecodeKeeps ==
    ASSUME IInv, DecodePacket
    PROVE  ClientShape' /\ FilterInv' /\ HealthInv'
<1>1. PICK answer \in Answers(context) :
         CASE answer = "frame" -> Done(answer) /\ confirmed' = TRUE /\ reinit_failures' = 0
           [] answer = "again" -> Done(answer) /\ UNCHANGED <<confirmed, reinit_failures>>
           [] answer = "error" -> /\ at' = IF confirmed THEN "reinit" ELSE "fallback"
                                  /\ UNCHANGED <<outcome, context, confirmed, reinit_failures>>
  BY DEF DecodePacket
<1>2. /\ at = "decode" /\ JobEnds
      /\ UNCHANGED <<serverVars, tagged, wire, host, backend, failed, codec_filter>>
  BY DEF DecodePacket, elsewhere
<1>3. /\ packet \in Packet /\ packet.dims \in Size /\ packet.key \in BOOLEAN
      /\ backend \in Decoder /\ DecoderCodec[backend] \in Codec
  BY <1>2, DecoderFacts DEF IInv, ClientShape, Holding, Running, Packet
<1>4. \A c, d : Coming(c, d)' <=> Coming(c, d)
  BY <1>2, WireStays
<1>5. tagged => /\ DecoderCodec[backend] = packet.codec /\ codec_filter = DecoderCodec[backend]
                /\ \A c \in Codec, d \in Size : Coming(c, d) => c = packet.codec /\ d = packet.dims
  BY <1>2 DEF IInv, FilterInv, HealthInv, Holding, Running
<1>6. answer \in {"frame", "again", "error"}
  BY DEF Answers
<1>7. CASE answer = "frame"
  <2>1. /\ at' = "recv" /\ outcome' = "frame" /\ context' = packet.dims
        /\ confirmed' = TRUE /\ reinit_failures' = 0 /\ packet' = NoPacket
    BY <1>1, <1>2, <1>7 DEF Done, JobEnds
  <2>2. ClientShape'
    BY <1>2, <1>3, <2>1 DEF IInv, ClientShape, Running, Holding
  <2>3. FilterInv'
    BY <1>2, <1>5, <2>1 DEF FilterInv, Holding
  <2>4. HealthInv'
    BY <1>2, <1>3, <1>4, <1>5, <2>1 DEF HealthInv, Holding
  <2> QED  BY <2>2, <2>3, <2>4
<1>8. CASE answer = "again"
  <2>1. /\ at' = "recv" /\ outcome' = "none" /\ context' = context
        /\ UNCHANGED <<confirmed, reinit_failures>> /\ packet' = NoPacket
    BY <1>1, <1>2, <1>8 DEF Done, JobEnds
  <2>2. ClientShape'
    BY <1>2, <1>3, <2>1 DEF IInv, ClientShape, Running, Holding
  <2>3. FilterInv'
    BY <1>2, <1>5, <2>1 DEF FilterInv, Holding
  <2>4. ~(tagged /\ confirmed /\ backend \in host.works)
    BY <1>2, <1>3, <1>5, <1>8, HealthyAnswers DEF IInv, HealthInv
  <2>5. HealthInv'
    BY <1>2, <2>1, <2>4 DEF HealthInv, Holding
  <2> QED  BY <2>2, <2>3, <2>5
<1>9. CASE answer = "error"
  <2>1. /\ at' = IF confirmed THEN "reinit" ELSE "fallback"
        /\ UNCHANGED <<outcome, context, confirmed, reinit_failures, packet>>
    BY <1>1, <1>2, <1>9 DEF JobEnds
  <2>2. ClientShape'
    BY <1>2, <1>3, <2>1 DEF IInv, ClientShape, Running, Holding
  <2>3. FilterInv'
    BY <1>2, <1>5, <2>1 DEF FilterInv, Holding
  <2>4. tagged /\ confirmed /\ backend \in host.works => packet.key
    BY <1>2, <1>3, <1>5, <1>9, HealthyAnswers DEF IInv, HealthInv
  <2>5. HealthInv'
    BY <1>2, <1>4, <1>5, <2>1, <2>4 DEF HealthInv, Holding
  <2> QED  BY <2>2, <2>3, <2>5
<1> QED  BY <1>6, <1>7, <1>8, <1>9

LEMMA ReinitKeeps ==
    ASSUME IInv, Reinit
    PROVE  ClientShape' /\ FilterInv' /\ HealthInv'
<1>1. /\ at = "reinit" /\ JobEnds
      /\ UNCHANGED <<serverVars, tagged, wire, host, backend, confirmed, failed, codec_filter>>
  BY DEF Reinit, elsewhere
<1>2. /\ packet \in Packet /\ packet.dims \in Size /\ packet.key \in BOOLEAN
      /\ backend \in Decoder /\ DecoderCodec[backend] \in Codec
  BY <1>1, DecoderFacts DEF IInv, ClientShape, Holding, Running, Packet
<1>3. \A c, d : Coming(c, d)' <=> Coming(c, d)
  BY <1>1, WireStays
<1>4. tagged => /\ DecoderCodec[backend] = packet.codec /\ codec_filter = DecoderCodec[backend]
                /\ \A c \in Codec, d \in Size : Coming(c, d) => c = packet.codec /\ d = packet.dims
                /\ confirmed /\ backend \in host.works => packet.key
  BY <1>1 DEF IInv, FilterInv, HealthInv, Holding, Running
<1>5. ASSUME ReinitFailed, context' \in Size \cup {"fresh"}, tagged => backend \notin host.works
      PROVE  ClientShape' /\ FilterInv' /\ HealthInv'
  <2>1. /\ reinit_failures' \in Nat /\ at' \in {"recv", "fallback"} /\ outcome' \in {"none", "frame", "error"}
    BY <1>5 DEF ReinitFailed, Clamp, MAX_REINIT_FAILURES, IInv, ClientShape
  <2>2. packet' = IF at' = "recv" THEN NoPacket ELSE packet
    BY <1>1 DEF JobEnds
  <2>3. ClientShape'
    BY <1>1, <1>2, <1>5, <2>1, <2>2 DEF IInv, ClientShape, Running, Holding
  <2>4. FilterInv'
    BY <1>1, <1>4, <2>1, <2>2 DEF FilterInv, Holding
  <2>5. HealthInv'
    BY <1>1, <1>3, <1>4, <1>5, <2>1, <2>2 DEF HealthInv, Holding
  <2> QED  BY <2>3, <2>4, <2>5
<1>6. CASE backend \notin host.opens
  <2>1. ReinitFailed /\ UNCHANGED context
    BY <1>6 DEF Reinit
  <2> QED  BY <1>5, <1>6, <2>1 DEF IInv, ClientShape
<1>7. CASE backend \in host.opens
  <2>1. PICK answer \in Answers("fresh") :
           IF answer = "error"
             THEN ReinitFailed /\ context' = "fresh"
             ELSE /\ at' = "recv"
                  /\ outcome' = IF answer = "frame" THEN "frame" ELSE "none"
                  /\ context' = IF answer = "frame" THEN packet.dims ELSE "fresh"
                  /\ reinit_failures' = IF answer = "frame" THEN 0 ELSE reinit_failures
    BY <1>7 DEF Reinit
  <2>2. tagged /\ confirmed /\ backend \in host.works => answer # "error" /\ answer # "again"
    BY <1>2, <1>4, HealthyAnswers
  <2>3. tagged => confirmed
    BY <1>1 DEF IInv, HealthInv
  <2>4. CASE answer = "error"
    BY <1>5, <2>1, <2>2, <2>3, <2>4
  <2>5. CASE answer # "error"
    <3>1. /\ at' = "recv" /\ packet' = NoPacket /\ outcome' \in {"none", "frame", "error"}
          /\ context' \in Size \cup {"fresh"} /\ reinit_failures' \in Nat
      BY <1>1, <1>2, <2>1, <2>5 DEF JobEnds, IInv, ClientShape
    <3>2. ClientShape'
      BY <1>1, <1>2, <3>1 DEF IInv, ClientShape, Running, Holding
    <3>3. FilterInv'
      BY <1>1, <1>4, <3>1 DEF FilterInv, Holding
    <3>4. answer \in {"frame", "again", "error"}
      BY DEF Answers
    <3>5. tagged /\ confirmed /\ backend \in host.works => context' = packet.dims
      BY <2>1, <2>2, <2>5, <3>4
    <3>6. HealthInv'
      BY <1>1, <1>2, <1>3, <1>4, <3>1, <3>5 DEF HealthInv, Holding
    <3> QED  BY <3>2, <3>3, <3>6
  <2> QED  BY <2>4, <2>5
<1> QED  BY <1>6, <1>7

LEMMA FallbackKeeps ==
    ASSUME IInv, Fallback
    PROVE  ClientShape' /\ FilterInv' /\ HealthInv'
<1> DEFINE index == SelectInSeq(BACKEND_PRIORITY, LAMBDA b : b = backend)
           gone == failed \cup {backend}
           i == InitFromIndex(index + 1, gone, codec_filter)
<1>1. /\ at = "fallback" /\ JobEnds /\ UNCHANGED <<serverVars, tagged, wire, host>>
  BY DEF Fallback, elsewhere
<1>2. /\ packet \in Packet /\ backend \in Decoder /\ DecoderCodec[backend] \in Codec
      /\ codec_filter \in Codec \cup {"any"} /\ gone \in SUBSET Decoder
  BY <1>1, DecoderFacts DEF IInv, ClientShape, Holding, Running
<1>3. \A c, d : Coming(c, d)' <=> Coming(c, d)
  BY <1>1, WireStays
<1>4. tagged => /\ DecoderCodec[backend] = packet.codec /\ codec_filter = DecoderCodec[backend]
                /\ \A c \in Codec, d \in Size : Coming(c, d) => c = packet.codec /\ d = packet.dims
                /\ ~(confirmed /\ backend \in host.works)
  BY <1>1 DEF IInv, FilterInv, HealthInv, Holding, Running
<1>5. CASE i # 0
  <2>1. at' = "decode" /\ NewDecoder(i, gone, codec_filter) /\ UNCHANGED outcome /\ packet' = packet
    BY <1>1, <1>5 DEF Fallback, JobEnds
  <2>2. index + 1 \in Nat \ {0}
    BY IndexIsNat
  <2> HIDE DEF index, gone
  <2>3. /\ backend' \in Decoder /\ context' = "fresh" /\ confirmed' = FALSE
        /\ reinit_failures' = 0 /\ failed' \in SUBSET Decoder /\ codec_filter' = codec_filter
        /\ codec_filter # "any" => DecoderCodec[backend'] = codec_filter
    BY <1>2, <1>5, <2>1, <2>2, DecoderBuilt
  <2>4. ClientShape'
    BY <1>1, <1>2, <2>1, <2>3 DEF IInv, ClientShape, Running, Holding
  <2>5. FilterInv'
    BY <1>1, <1>2, <1>4, <2>1, <2>3, DecoderFacts DEF FilterInv
  <2>6. HealthInv'
    BY <1>1, <1>3, <1>4, <2>1, <2>3 DEF HealthInv
  <2> QED  BY <2>4, <2>5, <2>6
<1>6. CASE i = 0
  <2>1. /\ at' = "recv" /\ outcome' = "error" /\ failed' = {} /\ packet' = NoPacket
        /\ UNCHANGED <<backend, context, confirmed, reinit_failures, codec_filter>>
    BY <1>1, <1>6 DEF Fallback, JobEnds
  <2>2. ClientShape'
    BY <1>1, <1>2, <2>1 DEF IInv, ClientShape, Running, Holding
  <2>3. FilterInv' /\ HealthInv'
    BY <1>1, <1>4, <2>1 DEF FilterInv, HealthInv, Holding
  <2> QED  BY <2>2, <2>3
<1> QED  BY <1>5, <1>6
-----------------------------------------------------------------------------
(* The invariant and what follows from it. *)

LEMMA InitKeeps == Init => IInv
<1> SUFFICES ASSUME Init  PROVE IInv
  OBVIOUS
<1> USE MediaAssumption
<1>1. PICK c \in Clients :
        /\ supported = c.supported /\ rate = ClampRate(c.rate) /\ tagged = c.tagged
        /\ host = [opens |-> c.opens, works |-> c.works] /\ audio = c.audio
  BY DEF Init
<1>2. /\ c.supported \subseteq Codec /\ c.rate \in Rate /\ c.tagged \in BOOLEAN /\ c.audio \in BOOLEAN
      /\ c.opens \subseteq Decoder /\ c.works \subseteq c.opens
  BY DEF ClientKind
<1>3. rate \in Rate
  <2>1. Clamp(c.rate.value, MIN_BITRATE_KBPS, MAX_BITRATE_KBPS) \in Nat
    BY <1>2 DEF Clamp, Rate, MIN_BITRATE_KBPS, MAX_BITRATE_KBPS
  <2> QED  BY <1>1, <1>2, <2>1 DEF ClampRate, Rate
<1>4. supported \in SUBSET Codec /\ openable \in SUBSET Encoder
  BY <1>1, <1>2 DEF Init, Encoder
<1>5. /\ encoder \in Encoder \cup {"none"}
      /\ supported # {} /\ encoder # "none" => EncoderCodec[encoder] \in supported
  <2>1. encoder = ProbeBest(supported, openable)
    BY DEF Init
  <2> QED  BY <1>4, <2>1, ProbeGives
<1>6. ServerShape
  BY <1>1, <1>2, <1>3, <1>4, <1>5 DEF Init, ServerShape
<1>7. SoundShape
  BY <1>1, <1>2 DEF Init, SoundShape, RingBounded
<1>8. ClientShape
  BY <1>1, <1>2 DEF Init, ClientShape, Running, Holding
<1>9. SupportedInv
  BY <1>5 DEF Init, SupportedInv
<1>10. FilterInv /\ ChainInv /\ HealthInv
  BY DEF Init, FilterInv, ChainInv, HealthInv, Running, Holding
<1> QED  BY <1>6, <1>7, <1>8, <1>9, <1>10 DEF IInv

LEMMA NextKeeps == IInv /\ [Next]_vars => IInv'
<1> SUFFICES ASSUME IInv, [Next]_vars  PROVE IInv'
  OBVIOUS
<1> USE MediaAssumption
<1>1. ASSUME NEW d \in Size, EncodeFrame(d) \/ EncodeFails(d) \/ NoEncoder(d)
      PROVE  IInv'
  <2>1. UNCHANGED <<tagged, host, decoderVars, soundVars>>
    BY <1>1 DEF EncodeFrame, EncodeFails, NoEncoder
  <2>2. /\ ServerShape' /\ SupportedInv' /\ ChainInv'
        /\ \A c, e : Coming(c, e)' => Coming(c, e)
    BY <1>1, EncoderStep
  <2>3. ClientShape' /\ FilterInv' /\ HealthInv'
    BY <2>1, <2>2, DecoderStays
  <2>4. SoundShape'
    BY <2>1 DEF IInv, SoundShape, RingBounded
  <2> QED  BY <2>2, <2>3, <2>4 DEF IInv
<1>2. ASSUME NEW b \in Volatile, EncoderOccupied(b)
      PROVE  IInv'
  <2>1. /\ UNCHANGED <<supported, encoder, encoder_dims, since, errors, rate, wire, tagged, host, decoderVars, soundVars>>
        /\ openable' \in {openable \ {b}, openable \cup {b}}
    BY <1>2 DEF EncoderOccupied
  <2>2. openable' \subseteq Encoder
    BY <2>1 DEF IInv, ServerShape, Encoder
  <2>3. ServerShape' /\ SupportedInv' /\ ChainInv'
    BY <2>1, <2>2 DEF IInv, ServerShape, SupportedInv, ChainInv
  <2>4. \A c, e : Coming(c, e)' => Coming(c, e)
    BY <2>1 DEF Coming
  <2>5. ClientShape' /\ FilterInv' /\ HealthInv'
    BY <2>1, <2>4, DecoderStays
  <2>6. SoundShape'
    BY <2>1 DEF IInv, SoundShape, RingBounded
  <2> QED  BY <2>3, <2>5, <2>6 DEF IInv
<1>3. ASSUME BuildDecoder \/ DecodePacket \/ Reinit \/ Fallback
      PROVE  IInv'
  <2>1. UNCHANGED <<serverVars, tagged, wire, soundVars>>
    BY <1>3 DEF BuildDecoder, DecodePacket, Reinit, Fallback, elsewhere
  <2>2. ServerShape' /\ SupportedInv' /\ ChainInv'
    BY <2>1, WireStays
  <2>3. ClientShape' /\ FilterInv' /\ HealthInv'
    BY <1>3, BuildKeeps, DecodeKeeps, ReinitKeeps, FallbackKeeps
  <2>4. SoundShape'
    BY <2>1 DEF IInv, SoundShape, RingBounded
  <2> QED  BY <2>2, <2>3, <2>4 DEF IInv
<1>4. CASE TakeJob
  <2>1. UNCHANGED <<serverVars, tagged, soundVars>> /\ wire # <<>> /\ wire' = Tail(wire)
    BY <1>4 DEF TakeJob, elsewhere
  <2>2. ServerShape' /\ SupportedInv' /\ ChainInv'
    BY <2>1, WirePasses
  <2>3. SoundShape'
    BY <2>1 DEF IInv, SoundShape, RingBounded
  <2> QED  BY <1>4, <2>2, <2>3, TakeJobKeeps DEF IInv
<1>5. CASE DropJob
  <2>1. /\ UNCHANGED <<serverVars, tagged, host, decoderVars, soundVars>>
        /\ at = "dead" /\ wire # <<>> /\ wire' = Tail(wire)
    BY <1>5 DEF DropJob, elsewhere
  <2>2. ServerShape' /\ SupportedInv' /\ ChainInv'
    BY <2>1, WirePasses
  <2>3. ClientShape' /\ FilterInv' /\ HealthInv'
    BY <2>1 DEF IInv, ClientShape, FilterInv, HealthInv, Running, Holding
  <2>4. SoundShape'
    BY <2>1 DEF IInv, SoundShape, RingBounded
  <2> QED  BY <2>2, <2>3, <2>4 DEF IInv
<1>6. ASSUME NEW b \in Breakable, DecoderBreaks(b)
      PROVE  IInv'
  <2>1. /\ UNCHANGED <<serverVars, wire, tagged, decoderVars, soundVars>>
        /\ host' \in [opens : SUBSET Decoder, works : SUBSET Decoder]
        /\ host'.works \subseteq host'.opens /\ host'.works \subseteq host.works
    BY <1>6 DEF DecoderBreaks, IInv, ClientShape
  <2>2. /\ ServerShape' /\ SupportedInv' /\ ChainInv'
        /\ \A c, d : Coming(c, d)' <=> Coming(c, d)
    BY <2>1, WireStays
  <2>3. ClientShape' /\ FilterInv'
    BY <2>1 DEF IInv, ClientShape, FilterInv
  <2>4. HealthInv'
    BY <2>1, <2>2 DEF IInv, HealthInv
  <2>5. SoundShape'
    BY <2>1 DEF IInv, SoundShape, RingBounded
  <2> QED  BY <2>2, <2>3, <2>4, <2>5 DEF IInv
<1>7. ASSUME Audio \/ UNCHANGED vars
      PROVE  IInv'
  <2>1. UNCHANGED <<serverVars, wire, tagged, host, decoderVars, audio>>
    BY <1>7 DEF Audio, AudioJob, AudioCallback
  <2>2. /\ ServerShape' /\ SupportedInv' /\ ChainInv'
        /\ \A c, d : Coming(c, d)' <=> Coming(c, d)
    BY <2>1, WireStays
  <2>3. ClientShape' /\ FilterInv' /\ HealthInv'
    BY <2>1, <2>2, DecoderStays
  <2>4. SoundShape'
    <3>1. CASE AudioJob
      BY <3>1 DEF AudioJob, IInv, SoundShape, RingBounded
    <3>2. ASSUME NEW n \in 1 .. OpusFrame, AudioCallback(n)  PROVE SoundShape'
      BY <3>2 DEF AudioCallback, IInv, SoundShape, RingBounded
    <3>3. CASE UNCHANGED vars
      BY <3>3 DEF IInv, SoundShape, RingBounded
    <3> QED  BY <1>7, <3>1, <3>2, <3>3 DEF Audio
  <2> QED  BY <2>2, <2>3, <2>4 DEF IInv
<1> QED  BY <1>1, <1>2, <1>3, <1>4, <1>5, <1>6, <1>7
         DEF Next, CaptureThread, DecodeThread, Environment

\* The invariant holds throughout, for any hosts, clients and interval of keyframes.
THEOREM MediaInvariance == Spec => []IInv
BY InitKeeps, NextKeeps, PTL DEF Spec

\* MediaSafety: no packet of a codec the client did not advertise, no decoder of another
\* codec than its packet's, a rate that follows the quality asked for, and bounded sound.
THEOREM MediaIsSafe == Spec => []MediaSafety
<1>1. IInv => MediaSafety
  <2> SUFFICES ASSUME IInv  PROVE MediaSafety
    OBVIOUS
  <2>1. TypeOK
    BY DEF IInv, ServerShape, SoundShape, ClientShape, TypeOK, Encoder, Running
  <2>2. AdvertisedOnly
    BY DEF IInv, ServerShape, SupportedInv, AdvertisedOnly
  <2>3. RightDecoder
    BY DEF IInv, FilterInv, RightDecoder, Holding
  <2>4. RateFollowsQuality
    BY QualityFollowed DEF IInv, ServerShape
  <2> QED  BY <2>1, <2>2, <2>3, <2>4 DEF IInv, SoundShape, MediaSafety
<1> QED  BY <1>1, MediaInvariance, PTL

\* HardwareKept: a resize gives up hardware encoding only where none that would do opens,
\* and a decoder that has shown a picture and still works is never given up.
THEOREM HardwareIsKept == Spec => HardwareKept
<1>1. ASSUME IInv, [Next]_vars
      PROVE  encoder_dims' # encoder_dims /\ encoder' \in SoftwareEncoder =>
               \A b \in openable \ SoftwareEncoder : supported # {} /\ EncoderCodec[b] \notin supported
  <2> SUFFICES ASSUME encoder_dims' # encoder_dims, encoder' \in SoftwareEncoder
               PROVE  \A b \in openable \ SoftwareEncoder :
                         supported # {} /\ EncoderCodec[b] \notin supported
    OBVIOUS
  <2>1. PICK d \in Size : Rebuild(d)
    BY <1>1 DEF Next, CaptureThread, DecodeThread, Environment, Audio, EncodeFrame, EncodeFails, NoEncoder,
           EncoderOccupied, DecoderBreaks, BuildDecoder, TakeJob, DropJob, DecodePacket, Reinit, Fallback,
           AudioJob, AudioCallback, elsewhere
  <2>2. encoder' = ProbeBest(supported, openable)
    BY <2>1 DEF Rebuild
  <2>3. supported \in SUBSET Codec /\ openable \in SUBSET Encoder
    BY <1>1 DEF IInv, ServerShape
  <2> QED  BY <2>2, <2>3, ProbeGives
<1>2. IInv => (tagged /\ at = "fallback" /\ confirmed /\ backend' # backend => backend \notin host.works)
  BY DEF IInv, HealthInv
<1>3. Spec => HardwareFirst
  BY <1>1, MediaInvariance, PTL DEF Spec, HardwareFirst
<1>4. Spec => HealthyKept
  BY <1>2, MediaInvariance, PTL DEF Spec, HealthyKept
<1> QED  BY <1>3, <1>4 DEF HardwareKept
==============================================================================
