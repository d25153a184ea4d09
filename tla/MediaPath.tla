------------------------------ MODULE MediaPath ------------------------------
(***************************************************************************)
(* The way of a picture from the encoder to the window: the choice of an   *)
(* encoder and of its rate (encoder.rs), the stream of packets, and the    *)
(* decode thread of the desktop client with its fallbacks (decoder.rs,     *)
(* connection.rs), beside it the ring buffer of the sound (connection.rs,  *)
(* audio.rs).                                                              *)
(*                                                                         *)
(* A backend is its FFmpeg name.  What FFmpeg and the drivers do is        *)
(* external: which backends open, which of those decode, and what a codec  *)
(* context answers to a packet, by what it has seen before.  A packet is   *)
(* its codec, its size and whether it is a keyframe.  Capturing is in      *)
(* CaptureLoop, the channels between the threads are in SessionStream.     *)
(***************************************************************************)
EXTENDS Integers, Sequences, SequencesExt

CONSTANTS
    Size,             \* sizes of the captured output
    EncoderHosts,     \* sets of encoders a server may be able to open
    Volatile,         \* encoders that other programs may occupy for a while
    Clients,          \* what a client may advertise, ask for and have: see ClientKind
    Breakable,        \* hardware decoders that a driver may break under way
    GOP,              \* keyframe_interval
    WireCap,          \* bound: packets under way
    MaxEncodeErrors,  \* bound: frames the encoder fails on
    MaxBuffered,      \* samples the ring may hold before it is cut
    OpusFrame         \* samples in one decoded audio packet

\* Mutant: codec by codec, each first in hardware, then in software.
EncoderPriorityByCodec == <<
    "av1_qsv", "av1_nvenc", "av1_amf", "av1_vaapi", "libsvtav1", "vp9_vaapi", "vp9_v4l2m2m",
    "libvpx-vp9", "vp8_v4l2m2m", "libvpx", "hevc_qsv", "hevc_nvenc", "hevc_amf", "hevc_vaapi",
    "hevc_v4l2m2m", "libx265", "h264_qsv", "h264_nvenc", "h264_amf", "h264_vaapi",
    "h264_v4l2m2m", "libx264">>

\* ENCODER_PRIORITY: hardware before software, open codecs first in each.
ENCODER_PRIORITY == <<
    "av1_qsv", "av1_nvenc", "av1_amf", "av1_vaapi", "vp9_vaapi", "vp9_v4l2m2m",
    "vp8_v4l2m2m", "hevc_qsv", "hevc_nvenc", "hevc_amf", "hevc_vaapi",
    "hevc_v4l2m2m", "h264_qsv", "h264_nvenc", "h264_amf", "h264_vaapi",
    "h264_v4l2m2m", "libsvtav1", "libvpx-vp9", "libvpx", "libx265", "libx264">>

\* EncoderBackend::codec.
EncoderCodec == [b \in ToSet(ENCODER_PRIORITY) |->
    CASE b \in {"av1_qsv", "av1_nvenc", "av1_amf", "av1_vaapi", "libsvtav1"} -> "av1"
      [] b \in {"vp9_vaapi", "vp9_v4l2m2m", "libvpx-vp9"} -> "vp9"
      [] b \in {"vp8_v4l2m2m", "libvpx"} -> "vp8"
      [] b \in {"hevc_qsv", "hevc_nvenc", "hevc_amf", "hevc_vaapi", "hevc_v4l2m2m",
                "libx265"} -> "h265"
      [] OTHER -> "h264"]
Codec == {"av1", "vp9", "vp8", "h265", "h264"}

\* The encoders that run on the processor.  is_hw, which chooses the pixel format, leaves
\* out vp9_v4l2m2m too.
SoftwareEncoder == {"libsvtav1", "libvpx-vp9", "libvpx", "libx265", "libx264"}

\* BACKEND_PRIORITY of the decoders: QSV, which opens without its hardware, is
\* the last of the hardware of a codec.
BACKEND_PRIORITY == <<
    "av1_cuvid", "av1_qsv", "vp9_vaapi", "vp9_v4l2m2m", "vp8_v4l2m2m",
    "hevc_cuvid", "hevc_vaapi", "hevc_v4l2m2m", "hevc_qsv", "h264_cuvid",
    "h264_vaapi", "h264_v4l2m2m", "h264_qsv",
    "libdav1d", "libvpx-vp9", "libvpx", "hevc", "h264">>
Decoder == ToSet(BACKEND_PRIORITY)

\* DecoderBackend::codec.
DecoderCodec == [b \in Decoder |->
    CASE b \in {"av1_cuvid", "av1_qsv", "libdav1d"} -> "av1"
      [] b \in {"vp9_vaapi", "vp9_v4l2m2m", "libvpx-vp9"} -> "vp9"
      [] b \in {"vp8_v4l2m2m", "libvpx"} -> "vp8"
      [] b \in {"hevc_cuvid", "hevc_vaapi", "hevc_v4l2m2m", "hevc_qsv", "hevc"} -> "h265"
      [] OTHER -> "h264"]
SoftwareDecoder == {"libdav1d", "libvpx-vp9", "libvpx", "hevc", "h264"}

\* A client: the codecs it advertises, {} for none named; the rate it asks for and
\* the CRF, -1 for none; whether its server names the codec of what it sends; its
\* decoders, those that open and those that also work; and whether it wants sound.
Rate == [kind : {"quality", "kbps"}, value : Nat, crf : -1 .. 255]
ClientKind(c) ==
    /\ c.supported \subseteq Codec /\ c.rate \in Rate /\ c.tagged \in BOOLEAN /\ c.audio \in BOOLEAN
    /\ c.opens \subseteq Decoder /\ c.works \subseteq c.opens

ASSUME MediaAssumption ==
    /\ EncoderHosts \subseteq SUBSET ToSet(ENCODER_PRIORITY)
    /\ \A c \in Clients : ClientKind(c)
    /\ Volatile \subseteq ToSet(ENCODER_PRIORITY) /\ \A h \in EncoderHosts : Volatile \subseteq h
    /\ Breakable \cap SoftwareDecoder = {}
    /\ GOP \in Nat \ {0} /\ WireCap \in Nat \ {0} /\ MaxEncodeErrors \in Nat
    /\ MaxBuffered \in Nat \ {0} /\ MaxBuffered % 2 = 0 /\ OpusFrame \in Nat \ {0}

MAX_REINIT_FAILURES == 2
MIN_BITRATE_KBPS == 50
MAX_BITRATE_KBPS == 100000

VARIABLES
    \* --- the capture thread of the server
    supported,     \* supported_codecs of the request
    openable,      \* encoders that open at the moment
    encoder,       \* backend of video_encoder, "none" once the thread has panicked
    encoder_dims,  \* size it was built for
    since,         \* packets since the last keyframe, 0: the next one is one
    errors,        \* frames it failed on
    rate,          \* EncoderTuning::rate
    \* --- the connection and the client's decode channel
    wire,
    tagged,        \* the server names the codec of a stream and of its frames
    \* --- the client's decode thread
    host,          \* its decoders: opens, works
    at,            \* where the thread is
    packet,        \* the packet it decodes
    backend,       \* VideoDecoder.backend, "none" before the first
    context,       \* what its codec context is bound to: a size, or nothing yet
    confirmed,     \* confirmed_working
    reinit_failures,
    failed,        \* failed_backends
    codec_filter,
    outcome,       \* what came of the last packet
    \* --- the audio playback thread
    audio,         \* there is one: params.audio
    ring           \* samples waiting to be played

serverVars == <<supported, openable, encoder, encoder_dims, since, errors, rate>>
decoderVars == <<at, packet, backend, context, confirmed, reinit_failures, failed,
                 codec_filter, outcome>>
soundVars == <<audio, ring>>
vars == <<serverVars, wire, tagged, host, decoderVars, soundVars>>
-----------------------------------------------------------------------------
(* Rate control. *)

Clamp(x, low, high) == IF x < low THEN low ELSE IF x > high THEN high ELSE x

\* RateTarget::kbps, for the backends that rate by bitrate.
Kbps(target, codec) ==
    LET q == Clamp(target.value, 1, 100)
        AtLeast(x, low) == IF x < low THEN low ELSE x
    IN  CASE target.kind = "kbps" -> target.value
          [] codec = "av1" -> AtLeast(q * 15, 50)
          [] OTHER -> AtLeast(q * 150, 500)

\* Mutant: a quality outside 1 to 100 is taken as it is.
CrfUnclamped(quality, best, worst) ==
    (2 * 99 * worst - 2 * (quality - 1) * (worst - best) + 99) \div (2 * 99)

\* crf_for_quality: from worst at quality 1 to best at 100, to the nearest number.
CrfForQuality(quality, best, worst) ==
    LET q == Clamp(quality, 1, 100)
    IN  (2 * 99 * worst - 2 * (q - 1) * (worst - best) + 99) \div (2 * 99)

\* Tuning of FfmpegVideoEncoder::new and crf_rate_control: four software encoders
\* rate by CRF, the client's own or that of the quality, unless it asked for a
\* bitrate; all others by bitrate.
CrfScale == [b \in {"libsvtav1", "libvpx-vp9", "libx265", "libx264"} |->
    IF b \in {"libsvtav1", "libvpx-vp9"} THEN <<25, 63>> ELSE <<14, 51>>]
RateControl(b, target) ==
    CASE b \in DOMAIN CrfScale /\ target.crf >= 0 -> [rc |-> "crf", value |-> target.crf]
      [] b \in DOMAIN CrfScale /\ target.crf < 0 /\ target.kind = "quality" ->
           [rc |-> "crf", value |-> CrfForQuality(target.value, CrfScale[b][1], CrfScale[b][2])]
      [] OTHER -> [rc |-> "kbps", value |-> Kbps(target, EncoderCodec[b])]

\* capture_thread clamps the bitrate a client asks for.
ClampRate(asked) ==
    IF asked.kind = "kbps"
      THEN [asked EXCEPT !.value = Clamp(@, MIN_BITRATE_KBPS, MAX_BITRATE_KBPS)]
      ELSE asked
-----------------------------------------------------------------------------
(* The capture thread: choosing an encoder, and a packet from it. *)

\* candidates: an empty list of codecs is no restriction.
Candidates(allowed) ==
    {b \in ToSet(ENCODER_PRIORITY) : allowed = {} \/ EncoderCodec[b] \in allowed}

\* probe_best_encoder: the first that opens, the panic of init_encoder being "none".
ProbeBest(allowed, can) ==
    LET i == SelectInSeq(ENCODER_PRIORITY, LAMBDA b : b \in Candidates(allowed) \cap can)
    IN  IF i = 0 THEN "none" ELSE ENCODER_PRIORITY[i]

NoPacket == [codec |-> "none", key |-> FALSE, dims |-> "none"]
Packet == [codec : Codec, key : BOOLEAN, dims : Size]

Init ==
    /\ openable \in EncoderHosts
    /\ \E c \in Clients :
         /\ supported = c.supported /\ rate = ClampRate(c.rate) /\ tagged = c.tagged
         /\ host = [opens |-> c.opens, works |-> c.works]
         /\ audio = c.audio
    /\ encoder = ProbeBest(supported, openable)
    /\ encoder_dims \in Size /\ since = 0 /\ errors = 0
    /\ wire = <<>>
    /\ at = "start" /\ packet = NoPacket /\ backend = "none" /\ context = "fresh"
    /\ confirmed = FALSE /\ reinit_failures = 0 /\ failed = {} /\ codec_filter = "any"
    /\ outcome = "none" /\ ring = 0

\* Mutant: the second probe forgets what the client can decode.
RebuildUnrestricted(d) ==
    /\ encoder # "none" /\ Len(wire) < WireCap
    /\ encoder' = IF d = encoder_dims THEN encoder ELSE ProbeBest({}, openable)
    /\ encoder_dims' = d

\* A captured picture of size d meets the encoder: another size flushes and drops
\* it and probes again; a new encoder starts on a keyframe, which is forced too.
Rebuild(d) ==
    /\ encoder # "none" /\ Len(wire) < WireCap
    /\ encoder' = IF d = encoder_dims THEN encoder ELSE ProbeBest(supported, openable)
    /\ encoder_dims' = d

\* Mutant: the packets since a keyframe are counted on and on.
EncodeFrameNoInterval(d) ==
    /\ Rebuild(d) /\ encoder' # "none"
    /\ wire' = Append(wire, [codec |-> EncoderCodec[encoder'], key |-> d # encoder_dims \/ since = 0,
                             dims |-> d])
    /\ since' = since + 1
    /\ UNCHANGED <<supported, openable, errors, rate, tagged, host, decoderVars, soundVars>>

EncodeFrame(d) ==
    /\ Rebuild(d) /\ encoder' # "none"
    /\ LET key == d # encoder_dims \/ since = 0
       IN  /\ wire' = Append(wire, [codec |-> EncoderCodec[encoder'], key |-> key, dims |-> d])
           /\ since' = (IF key THEN 1 ELSE since + 1) % GOP
    /\ UNCHANGED <<supported, openable, errors, rate, tagged, host, decoderVars, soundVars>>

\* encode_frame returns an error: the frame is lost, the loop goes on.
EncodeFails(d) ==
    /\ Rebuild(d) /\ encoder' # "none" /\ errors < MaxEncodeErrors
    /\ errors' = errors + 1
    /\ since' = IF d = encoder_dims THEN since ELSE 0
    /\ UNCHANGED <<supported, openable, rate, wire, tagged, host, decoderVars, soundVars>>

\* No encoder opens any more: init_encoder panics and the thread is gone.
NoEncoder(d) ==
    /\ Rebuild(d) /\ encoder' = "none"
    /\ UNCHANGED <<supported, openable, since, errors, rate, wire, tagged, host, decoderVars, soundVars>>

\* Another program takes, or gives back, what an encoder needs to open.
EncoderOccupied(b) ==
    /\ openable' = IF b \in openable THEN openable \ {b} ELSE openable \cup {b}
    /\ UNCHANGED <<supported, encoder, encoder_dims, since, errors, rate, wire, tagged, host,
                   decoderVars, soundVars>>
-----------------------------------------------------------------------------
(* The decode thread. *)

\* init_from_index: the first backend from start on that has not failed, decodes
\* the codec asked for and opens; 0 if there is none.
InitFromIndex(start, gone, filter) ==
    SelectInSubSeq(BACKEND_PRIORITY, start, Len(BACKEND_PRIORITY),
        LAMBDA b : b \notin gone /\ filter \in {"any", DecoderCodec[b]} /\ b \in host.opens)

\* A new VideoDecoder on the i-th backend.
NewDecoder(i, gone, filter) ==
    /\ backend' = BACKEND_PRIORITY[i] /\ context' = "fresh"
    /\ confirmed' = FALSE /\ reinit_failures' = 0
    /\ failed' = gone /\ codec_filter' = filter

sameDecoder == <<backend, context, confirmed, reinit_failures, failed, codec_filter>>
elsewhere == <<serverVars, tagged, host, soundVars>>

\* decode_thread: build for the codec SessionReady announced, or for any.
BuildDecoder ==
    /\ at = "start" /\ wire # <<>>
    /\ LET filter == IF tagged THEN Head(wire).codec ELSE "any"
           i == InitFromIndex(1, {}, filter)
       IN  IF i = 0 THEN at' = "dead" /\ UNCHANGED sameDecoder
                    ELSE at' = "recv" /\ NewDecoder(i, {}, filter)
    /\ UNCHANGED <<elsewhere, wire, packet, outcome>>

\* The next job: a codec other than the decoder's rebuilds it; if that fails the
\* packet is dropped and the old decoder stays.
TakeJob ==
    /\ at = "recv" /\ wire # <<>>
    /\ wire' = Tail(wire)
    /\ IF tagged /\ Head(wire).codec # DecoderCodec[backend]
         THEN LET i == InitFromIndex(1, {}, Head(wire).codec)
              IN  IF i = 0 THEN at' = "recv" /\ outcome' = "error" /\ UNCHANGED sameDecoder
                           ELSE at' = "decode" /\ outcome' = "none"
                                /\ NewDecoder(i, {}, Head(wire).codec)
         ELSE at' = "decode" /\ outcome' = "none" /\ UNCHANGED sameDecoder
    /\ packet' = IF at' = "recv" THEN NoPacket ELSE Head(wire)
    /\ UNCHANGED elsewhere

\* Without a decode thread the network task's sends go nowhere.
DropJob ==
    /\ at = "dead" /\ wire # <<>> /\ wire' = Tail(wire)
    /\ UNCHANGED <<elsewhere, decoderVars>>

\* The job goes out of scope once decode has returned.
JobEnds == packet' = IF at' = "recv" THEN NoPacket ELSE packet

\* What a context bound to ctx answers to the packet.
Answers(ctx) ==
    CASE DecoderCodec[backend] # packet.codec -> {"again", "error"}
      [] backend \notin host.works -> {"error"}
      [] OTHER -> IF ctx = packet.dims THEN {"frame"}
                  ELSE IF packet.key /\ ctx = "fresh" THEN {"frame"}
                  ELSE IF packet.key THEN {"frame", "error"} ELSE {"again", "error"}

\* Shared by decode_packet and try_reinit: the packet gave a picture, or needs a
\* later one.
Done(answer) ==
    /\ at' = "recv"
    /\ outcome' = IF answer = "frame" THEN "frame" ELSE "none"
    /\ context' = IF answer = "frame" THEN packet.dims ELSE context

\* decode_packet: a proven decoder that fails is opened afresh, an unproven one
\* gives way to the next.
DecodePacket ==
    /\ at = "decode"
    /\ \E answer \in Answers(context) :
         CASE answer = "frame" -> Done(answer) /\ confirmed' = TRUE /\ reinit_failures' = 0
           [] answer = "again" -> Done(answer) /\ UNCHANGED <<confirmed, reinit_failures>>
           [] answer = "error" -> /\ at' = IF confirmed THEN "reinit" ELSE "fallback"
                                  /\ UNCHANGED <<outcome, context, confirmed, reinit_failures>>
    /\ JobEnds /\ UNCHANGED <<elsewhere, wire, backend, failed, codec_filter>>

\* Mutant: every failure is the first one.
ReinitFailedForgiving ==
    /\ reinit_failures' = 1 /\ at' = "recv" /\ outcome' = "error"

\* A context could not be opened, or the new one fails too.  Beyond the limit the
\* count makes no difference and is not counted on.
ReinitFailed ==
    /\ reinit_failures' = Clamp(reinit_failures + 1, 0, MAX_REINIT_FAILURES)
    /\ IF reinit_failures' >= MAX_REINIT_FAILURES
         THEN at' = "fallback" /\ UNCHANGED outcome
         ELSE at' = "recv" /\ outcome' = "error"

\* Mutant: the packet goes to the old context again.
ReinitSameContext ==
    /\ at = "reinit"
    /\ \E answer \in Answers(context) :
         IF answer = "error"
           THEN ReinitFailed /\ UNCHANGED context
           ELSE Done(answer) /\ UNCHANGED reinit_failures
    /\ JobEnds /\ UNCHANGED <<elsewhere, wire, backend, confirmed, failed, codec_filter>>

\* reinit_and_retry, try_reinit.
Reinit ==
    /\ at = "reinit"
    /\ \/ /\ backend \notin host.opens
          /\ ReinitFailed /\ UNCHANGED context
       \/ /\ backend \in host.opens
          /\ \E answer \in Answers("fresh") :
               IF answer = "error"
                 THEN ReinitFailed /\ context' = "fresh"
                 ELSE /\ at' = "recv"
                      /\ outcome' = IF answer = "frame" THEN "frame" ELSE "none"
                      /\ context' = IF answer = "frame" THEN packet.dims ELSE "fresh"
                      /\ reinit_failures' = IF answer = "frame" THEN 0 ELSE reinit_failures
    /\ JobEnds /\ UNCHANGED <<elsewhere, wire, backend, confirmed, failed, codec_filter>>

\* Mutant: the next backend, whatever it decodes.
FallbackAnyCodec ==
    /\ at = "fallback"
    /\ LET index == SelectInSeq(BACKEND_PRIORITY, LAMBDA b : b = backend)
           gone == failed \cup {backend}
           i == InitFromIndex(index + 1, gone, "any")
       IN  IF i # 0
             THEN at' = "decode" /\ NewDecoder(i, gone, codec_filter) /\ UNCHANGED outcome
             ELSE /\ at' = "recv" /\ outcome' = "error" /\ failed' = {}
                  /\ UNCHANGED <<backend, context, confirmed, reinit_failures, codec_filter>>
    /\ JobEnds /\ UNCHANGED <<elsewhere, wire>>

\* fallback_and_retry: the next backend gets the same packet.  Without one the
\* decoder stays as it is, but for failed_backends, which was taken from it.
Fallback ==
    /\ at = "fallback"
    /\ LET index == SelectInSeq(BACKEND_PRIORITY, LAMBDA b : b = backend)
           gone == failed \cup {backend}
           i == InitFromIndex(index + 1, gone, codec_filter)
       IN  IF i # 0
             THEN at' = "decode" /\ NewDecoder(i, gone, codec_filter) /\ UNCHANGED outcome
             ELSE /\ at' = "recv" /\ outcome' = "error" /\ failed' = {}
                  /\ UNCHANGED <<backend, context, confirmed, reinit_failures, codec_filter>>
    /\ JobEnds /\ UNCHANGED <<elsewhere, wire>>

\* A driver update breaks a hardware decoder, which may or may not open after it.
DecoderBreaks(b) ==
    /\ b \in host.works
    /\ \E opens \in {host.opens, host.opens \ {b}} :
         host' = [opens |-> opens, works |-> host.works \ {b}]
    /\ UNCHANGED <<serverVars, wire, tagged, decoderVars, soundVars>>
-----------------------------------------------------------------------------
(* The audio playback thread and the sound device. *)

\* Mutant: only what is above the limit is cut, after the packet is in.
AudioJobLate ==
    /\ audio
    /\ ring' = IF ring > 2 * MaxBuffered THEN MaxBuffered ELSE ring + OpusFrame
    /\ UNCHANGED <<serverVars, wire, tagged, host, decoderVars, audio>>

\* A decoded packet: more than MaxBuffered waiting is cut to half of that first.
AudioJob ==
    /\ audio
    /\ ring' = (IF ring > MaxBuffered THEN MaxBuffered \div 2 ELSE ring) + OpusFrame
    /\ UNCHANGED <<serverVars, wire, tagged, host, decoderVars, audio>>

\* The device takes n samples, silence once there are none.
AudioCallback(n) ==
    /\ audio
    /\ ring' = IF ring > n THEN ring - n ELSE 0
    /\ UNCHANGED <<serverVars, wire, tagged, host, decoderVars, audio>>
-----------------------------------------------------------------------------
CaptureThread == \E d \in Size : EncodeFrame(d) \/ EncodeFails(d) \/ NoEncoder(d)
DecodeThread == BuildDecoder \/ TakeJob \/ DropJob \/ DecodePacket \/ Reinit \/ Fallback
Environment ==
    \/ \E b \in Volatile : EncoderOccupied(b)
    \/ \E b \in Breakable : DecoderBreaks(b)
Audio == AudioJob \/ \E n \in 1 .. OpusFrame : AudioCallback(n)

Next == CaptureThread \/ DecodeThread \/ Environment \/ Audio

Spec == Init /\ [][Next]_vars

\* The decode thread runs while there is a packet, and a screen that changes again
\* and again is encoded again and again.
FairSpec ==
    /\ Spec /\ WF_vars(DecodeThread)
    /\ WF_vars(\E d \in Size : EncodeFrame(d) \/ NoEncoder(d))
-----------------------------------------------------------------------------
TypeOK ==
    /\ supported \subseteq Codec /\ openable \subseteq ToSet(ENCODER_PRIORITY)
    /\ encoder \in ToSet(ENCODER_PRIORITY) \cup {"none"} /\ encoder_dims \in Size
    /\ since \in 0 .. GOP - 1 /\ errors \in 0 .. MaxEncodeErrors
    /\ rate \in Rate
    /\ wire \in Seq(Packet) /\ Len(wire) <= WireCap /\ tagged \in BOOLEAN
    /\ host.opens \subseteq Decoder /\ host.works \subseteq host.opens
    /\ at \in {"start", "recv", "decode", "reinit", "fallback", "dead"}
    /\ packet \in Packet \cup {NoPacket}
    /\ backend \in Decoder \cup {"none"} /\ context \in Size \cup {"fresh"}
    /\ confirmed \in BOOLEAN /\ reinit_failures \in Nat /\ failed \subseteq Decoder
    /\ codec_filter \in Codec \cup {"any"} /\ outcome \in {"none", "frame", "error"}
    /\ audio \in BOOLEAN /\ ring \in Nat

\* A client that named the codecs it decodes is never sent another, whichever
\* encoder a resize made the server fall back to.
AdvertisedOnly ==
    supported # {} => \A i \in DOMAIN wire : wire[i].codec \in supported

\* A packet whose codec is known is only ever given to a decoder of that codec, be
\* it the first one, a rebuilt one or one that was fallen back to.
RightDecoder ==
    tagged /\ at \in {"decode", "reinit"} => DecoderCodec[backend] = packet.codec

\* A resize leads to an encoder in software only when no hardware encoder that the client
\* can decode opens at that moment ("hardware before software", ENCODER_PRIORITY).
HardwareFirst ==
    [][encoder_dims' # encoder_dims /\ encoder' \in SoftwareEncoder =>
         \A b \in openable \ SoftwareEncoder : supported # {} /\ EncoderCodec[b] \notin supported]_vars

\* Resizes never cost a client its hardware decoder: one that has shown a picture
\* and still works is not given up, however it answers to a picture of a new size.
HealthyKept ==
    [][tagged /\ at = "fallback" /\ confirmed /\ backend' # backend => backend \notin host.works]_vars

\* More quality never buys a worse picture, quality outside 1 to 100 counts as the
\* nearest end, a CRF from it stays on the encoder's scale, and quality 75 gives the
\* CRF that was fixed before (35, and 23 for x264 and x265), as crf_for_quality says.
RateFollowsQuality ==
    encoder # "none" /\ rate.kind = "quality" /\ rate.crf < 0 =>
      LET At(q) == RateControl(encoder, [rate EXCEPT !.value = q])
          Now == At(rate.value)
          scale == CrfScale[encoder]
      IN  IF encoder \in DOMAIN CrfScale
            THEN /\ Now.value \in scale[1] .. scale[2]
                 /\ At(75).value = IF scale[2] = 63 THEN 35 ELSE 23
                 /\ \A q \in rate.value .. 255 : At(q).value <= Now.value
            ELSE /\ Now.value \in MIN_BITRATE_KBPS .. MAX_BITRATE_KBPS
                 /\ \A q \in rate.value .. 255 : At(q).value >= Now.value

\* The sound waiting to be played never exceeds the cap and one packet, however
\* rarely the device asks for it.
RingBounded == ring <= MaxBuffered + OpusFrame

\* The way as a whole: no packet or decoder of a codec the client cannot use, a rate
\* that follows the quality asked for, and a bound on the sound that waits.
MediaSafety == TypeOK /\ AdvertisedOnly /\ RightDecoder /\ RateFollowsQuality /\ RingBounded

\* Neither end gives up hardware that it could use.
HardwareKept == HardwareFirst /\ HealthyKept

\* On a client with a software decoder for every codec, pictures keep appearing
\* while the server encodes: through resizes, changes of codec, decoders that open
\* but do not work and hardware that breaks under way.
PictureReturns ==
    tagged /\ SoftwareDecoder \subseteq host.works => []<>(outcome = "frame" \/ encoder = "none")
=============================================================================
