---------------------------- MODULE MobileSession ----------------------------
(***************************************************************************)
(* The mobile client's core (termland-mobile-core) and the media planes it *)
(* shares with the server (media.rs, q2.rs).  Threads of the app call the  *)
(* client object (lib.rs); each session it starts has a loop of its own    *)
(* (session.rs), which a biased select drives: input first, then the video *)
(* and audio planes of QUIC, then the clock, then the control stream.      *)
(*                                                                         *)
(* Over TCP, TLS and ssh all messages come by the control stream.  Over    *)
(* QUIC video comes by a stream of its own and audio by datagrams; a task  *)
(* reads each and hands it to the loop by a bounded channel, and closes    *)
(* that channel when it ends.  The server, the network, and the observer   *)
(* of the app are external.  A loop's turn is one step: tokio's select     *)
(* polls in order, and gives up its turn, not its order, when the task's   *)
(* budget is spent.                                                        *)
(***************************************************************************)
EXTENDS Integers, Sequences, FiniteSets, SequencesExt

CONSTANTS
    MaxSessions,    \* bound: sessions started
    MaxTraffic,     \* bound: frames, other messages and input events, all together
    VideoCap, AudioCap

Session == 1 .. MaxSessions
NoSession == 0
Codec == {"Av1", "Vp9", "Vp8", "H265", "H264"}
Unset == "unset"
Width == 1280       \* of every session
Height == 720
MostFrames == 2000000000    \* their times fit the header's eight bytes

ASSUME MobileAssumption ==
    /\ MaxSessions \in Nat \ {0}
    /\ MaxTraffic \in Nat /\ MaxTraffic =< MostFrames
    /\ VideoCap \in Nat \ {0} /\ AudioCap \in Nat \ {0}

VARIABLES
    quic,           \* the profile's transport
    call,           \* where the call that starts a session is, per session
    installed,      \* the client's current session
    started,        \* sessions started so far
    sender,         \* input_tx of a session exists
    connected, loop,
    queued,         \* input events for a loop
    control,        \* the control stream, with "end" last
    stream,         \* the video stream, with "fin" last
    datagrams,
    vchan, achan,   \* the channels of the planes
    vreader, areader,
    server,         \* "none", "up" or "ended", per session
    sent,           \* frames so far, per session
    traffic,        \* frames, other messages and input events so far
    ready,          \* codec of the session, per session
    seen            \* what the observer of a session was told, but for sound and the clipboard

planeVars == <<stream, datagrams, vchan, achan, vreader, areader>>
mobileVars == <<quic, call, installed, started, sender, connected, loop, queued, control,
                planeVars, server, sent, traffic, ready, seen>>
-----------------------------------------------------------------------------
(* q2.rs: the header of a frame.  Bytes are numbers, least significant first. *)

LE16(v) == <<v % 256, (v \div 256) % 256>>
LE32(v) == LE16(v) \o LE16(v \div 65536)
LE64(v) == LE32(v) \o LE32((v \div 65536) \div 65536)
U16At(h, i) == h[i] + 256 * h[i + 1]
U32At(h, i) == U16At(h, i) + 65536 * U16At(h, i + 2)
U64At(h, i) == U32At(h, i) + 65536 * (65536 * U32At(h, i + 4))
Tags == <<"Av1", "Vp9", "Vp8", "H265", "H264">>
codec_tag(c) == (CHOOSE i \in DOMAIN Tags : Tags[i] = c) - 1

\* Mutant: the width and the height change places.
video_header_bytes_swapped(f) ==
    <<codec_tag(f.codec), IF f.keyframe THEN 1 ELSE 0>>
    \o LE16(f.height) \o LE16(f.width) \o LE64(f.time) \o LE32(f.len)

video_header_bytes(f) ==
    <<codec_tag(f.codec), IF f.keyframe THEN 1 ELSE 0>>
    \o LE16(f.width) \o LE16(f.height) \o LE64(f.time) \o LE32(f.len)

\* parse_video_header, the mobile core's own copy; Unset for a tag it does not know.
parse_video_header(h) ==
    [codec |-> IF h[1] < Len(Tags) THEN Tags[h[1] + 1] ELSE Unset,
     keyframe |-> h[2] = 1,
     width |-> U16At(h, 3), height |-> U16At(h, 5), time |-> U64At(h, 7), len |-> U32At(h, 15)]
-----------------------------------------------------------------------------
MobileInit ==
    /\ quic \in BOOLEAN
    /\ call = [n \in Session |-> "none"]
    /\ installed = NoSession /\ started = 0
    /\ sender = [n \in Session |-> FALSE] /\ connected = [n \in Session |-> FALSE]
    /\ loop = [n \in Session |-> "none"] /\ queued = [n \in Session |-> 0]
    /\ control = [n \in Session |-> <<>>] /\ stream = [n \in Session |-> <<>>]
    /\ datagrams = [n \in Session |-> 0]
    /\ vchan = [n \in Session |-> <<>>] /\ achan = [n \in Session |-> 0]
    /\ vreader = [n \in Session |-> "none"] /\ areader = [n \in Session |-> "none"]
    /\ server = [n \in Session |-> "none"]
    /\ sent = [n \in Session |-> 0] /\ traffic = 0
    /\ ready = [n \in Session |-> Unset] /\ seen = [n \in Session |-> <<>>]
-----------------------------------------------------------------------------
(* lib.rs: the calls of the app. *)

apiUnchanged == UNCHANGED <<quic, control, planeVars, server, sent, traffic, loop>>
\* One more frame, message or event.
Count == traffic < MaxTraffic /\ traffic' = traffic + 1
Goto(n, at) == call' = [call EXCEPT ![n] = at]

\* disconnect: the installed session, if any, loses its sender.
Dropped == IF installed = NoSession THEN sender ELSE [sender EXCEPT ![installed] = FALSE]
Detached == IF installed = NoSession THEN connected ELSE [connected EXCEPT ![installed] = FALSE]

Disconnect ==
    /\ installed # NoSession
    /\ sender' = Dropped /\ connected' = Detached /\ installed' = NoSession
    /\ UNCHANGED <<call, started, queued, ready, seen>> /\ apiUnchanged

\* start, connect_new and attach, of any thread of the app: first the session there is
\* goes.
StartCall(n) ==
    /\ n = started + 1 /\ started' = n /\ Goto(n, "opening")
    /\ sender' = Dropped /\ connected' = Detached /\ installed' = NoSession
    /\ UNCHANGED <<queued, ready, seen>> /\ apiUnchanged

\* open_session: the connection, the handshake, the session's codec.
OpenFails(n) ==
    /\ call[n] = "opening" /\ Goto(n, "returned")
    /\ UNCHANGED <<installed, started, sender, connected, queued, ready, seen>> /\ apiUnchanged

\* A server that names no codec is taken to send H.264; the observer hears of the
\* session, and the loop is spawned, whose first lines start the readers of the planes.
Opened(n) ==
    /\ call[n] = "opening" /\ Goto(n, "spawned")
    /\ \E announced \in {"Vp9"} \cup (IF quic THEN {} ELSE {Unset}) :
         ready' = [ready EXCEPT ![n] = IF announced = Unset THEN "H264" ELSE announced]
    /\ sender' = [sender EXCEPT ![n] = TRUE] /\ connected' = [connected EXCEPT ![n] = TRUE]
    /\ seen' = [seen EXCEPT ![n] = <<[is |-> "ready"]>>]
    /\ server' = [server EXCEPT ![n] = "up"] /\ loop' = [loop EXCEPT ![n] = "running"]
    /\ vreader' = [vreader EXCEPT ![n] = IF quic THEN "read" ELSE "none"]
    /\ areader' = [areader EXCEPT ![n] = IF quic THEN "read" ELSE "none"]
    /\ UNCHANGED <<quic, control, stream, datagrams, vchan, achan, sent, traffic, installed, started,
                   queued>>

\* The new session takes the place of whatever another thread installed meanwhile,
\* whose sender is dropped.
InstallIn(n, senders) ==
    /\ call[n] = "spawned" /\ Goto(n, "returned")
    /\ installed' = n /\ sender' = senders
    /\ UNCHANGED <<started, connected, queued, ready, seen>> /\ apiUnchanged

\* Mutant: the sessions started are kept, and never looked at again.
InstallBeside(n) == InstallIn(n, sender)
Install(n) == InstallIn(n, Dropped)

\* send_key and the like: dropped silently when nothing is installed.
SendInput ==
    /\ installed # NoSession /\ loop[installed] # "ended" /\ Count
    /\ queued' = [queued EXCEPT ![installed] = @ + 1]
    /\ UNCHANGED <<quic, call, installed, started, sender, connected, loop, control, planeVars,
                   server, sent, ready, seen>>
-----------------------------------------------------------------------------
(* The server's end of a session (media.rs), and the network. *)

serverUnchanged == UNCHANGED <<quic, call, installed, started, sender, connected, loop, queued,
                               vchan, achan, vreader, areader, ready, seen>>
\* What the server sends once the loop has gone reaches nobody.
Streaming(n) == server[n] = "up" /\ loop[n] = "running"
ToControl(n, msg) == control' = [control EXCEPT ![n] = Append(@, msg)]
Frame(codec, w, h, k) ==
    [codec |-> codec, keyframe |-> k = 1, width |-> w, height |-> h, time |-> 1000 * k, len |-> 300]
Video(f) == [is |-> "video", frame |-> f]
OnStream(head) == [is |-> "frame", head |-> head]
Fin == [is |-> "fin"]

\* send_video: a header and the bytes on the video stream, or a message.  A server older
\* than the tags leaves the codec and the size out of the message; an empty frame is
\* a frame the encoder kept.
ServerVideo(n) ==
    /\ Streaming(n) /\ Count /\ sent' = [sent EXCEPT ![n] = @ + 1]
    /\ LET full == Frame("Vp9", Width, Height, sent[n] + 1)
           bare == Frame(Unset, 0, 0, sent[n] + 1)
       IN  IF quic
           THEN /\ stream' = [stream EXCEPT ![n] = Append(@, OnStream(video_header_bytes(full)))]
                /\ UNCHANGED control
           ELSE /\ \E msg \in {Video(full), Video(bare), [is |-> "empty"]} : ToControl(n, msg)
                /\ UNCHANGED stream
    /\ UNCHANGED <<datagrams, server>> /\ serverUnchanged

\* send_audio: a datagram, unless it is too long for one, or the peer takes none; the
\* network may lose it.
ServerAudio(n) ==
    /\ Streaming(n) /\ Count
    /\ IF quic
       THEN /\ datagrams' \in {datagrams, [datagrams EXCEPT ![n] = @ + 1]} /\ UNCHANGED control
       ELSE /\ ToControl(n, [is |-> "audio"]) /\ UNCHANGED datagrams
    /\ UNCHANGED <<stream, server, sent>> /\ serverUnchanged

ServerControl(n) ==
    /\ Streaming(n) /\ Count
    /\ ToControl(n, [is |-> "clipboard"])
    /\ UNCHANGED <<stream, datagrams, server, sent>> /\ serverUnchanged

\* The session ends (SessionEnd) or the server hangs up: either way the control
\* stream is closed, and the video stream with it, in an order the network chooses.
ServerEnds(n) ==
    /\ server[n] = "up" /\ server' = [server EXCEPT ![n] = "ended"]
    /\ ToControl(n, [is |-> "end"])
    /\ UNCHANGED <<stream, datagrams, sent, traffic>> /\ serverUnchanged

StreamFinished(n) ==
    /\ quic /\ server[n] = "ended" /\ \A i \in DOMAIN stream[n] : stream[n][i] # Fin
    /\ stream' = [stream EXCEPT ![n] = Append(@, Fin)]
    /\ UNCHANGED <<control, datagrams, server, sent, traffic>> /\ serverUnchanged

-----------------------------------------------------------------------------
(* The readers of the planes, tasks of their own. *)

readerUnchanged == UNCHANGED <<quic, call, installed, started, sender, connected, loop, queued,
                               control, server, sent, traffic, ready, seen>>

Readable(entry) == entry # Fin /\ parse_video_header(entry.head).codec # Unset

\* quic_video_reader: a header, its frame, the channel; the end of the stream, an
\* unknown tag, or a loop that has gone, ends it.
VideoRead(n) ==
    /\ vreader[n] = "read" /\ stream[n] # <<>>
    /\ IF loop[n] = "ended" \/ ~ Readable(Head(stream[n]))
       THEN /\ vreader' = [vreader EXCEPT ![n] = "ended"] /\ UNCHANGED <<stream, vchan>>
       ELSE /\ Len(vchan[n]) < VideoCap
            /\ vchan' = [vchan EXCEPT ![n] =
                             Append(@, Video(parse_video_header(Head(stream[n]).head)))]
            /\ stream' = [stream EXCEPT ![n] = Tail(@)] /\ UNCHANGED vreader
    /\ UNCHANGED <<datagrams, achan, areader>> /\ readerUnchanged

\* quic_audio_reader.
AudioRead(n) ==
    /\ areader[n] = "read"
    /\ \/ /\ datagrams[n] > 0
          /\ IF loop[n] = "ended"
             THEN areader' = [areader EXCEPT ![n] = "ended"] /\ UNCHANGED <<datagrams, achan>>
             ELSE /\ achan[n] < AudioCap /\ achan' = [achan EXCEPT ![n] = @ + 1]
                  /\ datagrams' = [datagrams EXCEPT ![n] = @ - 1] /\ UNCHANGED areader
       \/ /\ server[n] = "ended" /\ datagrams[n] = 0
          /\ areader' = [areader EXCEPT ![n] = "ended"] /\ UNCHANGED <<datagrams, achan>>
    /\ UNCHANGED <<stream, vchan, vreader>> /\ readerUnchanged
-----------------------------------------------------------------------------
(* run_session: one turn of the loop, its branches in the order of the select. *)

loopUnchanged == UNCHANGED <<quic, call, installed, started, sender, stream, datagrams,
                             vreader, areader, server, sent, traffic, ready>>
Tell(n, what) == seen' = [seen EXCEPT ![n] = @ \o what]

\* What was queued for the loop goes with it.
Leave(n, what) ==
    /\ queued' = [queued EXCEPT ![n] = 0] /\ control' = [control EXCEPT ![n] = <<>>]
    /\ vchan' = [vchan EXCEPT ![n] = <<>>] /\ achan' = [achan EXCEPT ![n] = 0]
    /\ loop' = [loop EXCEPT ![n] = "ended"] /\ connected' = [connected EXCEPT ![n] = FALSE]
    /\ Tell(n, what \o <<[is |-> "disconnected"]>>)

Stay == UNCHANGED <<loop, connected>>

InputReady(n) == queued[n] > 0 \/ ~ sender[n]
TakeInput(n) ==
    /\ InputReady(n)
    /\ IF queued[n] > 0
       THEN \/ /\ queued' = [queued EXCEPT ![n] = @ - 1]
               /\ Stay /\ UNCHANGED <<seen, vchan, achan, control>>
            \/ server[n] = "ended" /\ Leave(n, <<[is |-> "error"]>>)
       ELSE Leave(n, <<>>)

\* A channel whose reader has ended is ready for ever, with nothing in it.
VideoReady(n) == vchan[n] # <<>> \/ vreader[n] = "ended"
AudioReady(n) == achan[n] > 0 \/ areader[n] = "ended"

TakeVideo(n) ==
    /\ VideoReady(n)
    /\ IF vchan[n] = <<>>
       THEN UNCHANGED <<vchan, seen>>
       ELSE vchan' = [vchan EXCEPT ![n] = Tail(@)] /\ Tell(n, <<Head(vchan[n])>>)
    /\ Stay /\ UNCHANGED <<queued, achan, control>>

TakeAudio(n) ==
    /\ AudioReady(n)
    /\ achan' = [achan EXCEPT ![n] = IF @ = 0 THEN 0 ELSE @ - 1]
    /\ Stay /\ UNCHANGED <<queued, vchan, control, seen>>

\* What a frame leaves out comes from the session.
Packet(n, f) ==
    [codec |-> IF f.codec = Unset THEN ready[n] ELSE f.codec, keyframe |-> f.keyframe,
     width |-> IF f.width = 0 THEN Width ELSE f.width,
     height |-> IF f.height = 0 THEN Height ELSE f.height, time |-> f.time, len |-> f.len]

Hear(n, what) ==
    /\ control' = [control EXCEPT ![n] = Tail(@)] /\ Tell(n, what)
    /\ Stay /\ UNCHANGED <<queued, vchan, achan>>

\* Mutant: the end of a session is a message like those the loop ignores.
TakeControlDeaf(n) ==
    /\ control[n] # <<>>
    /\ LET msg == Head(control[n])
       IN  CASE msg.is = "video" -> Hear(n, <<Video(Packet(n, msg.frame))>>)
             [] OTHER -> Hear(n, <<>>)

TakeControl(n) ==
    /\ control[n] # <<>>
    /\ LET msg == Head(control[n])
       IN  CASE msg.is = "video" -> Hear(n, <<Video(Packet(n, msg.frame))>>)
             [] msg.is = "end" -> Leave(n, <<>>)
             [] OTHER -> Hear(n, <<>>)

\* Mutant: the planes before the input.
SelectPlanesFirst(n) ==
    /\ loop[n] = "running" /\ loopUnchanged
    /\ \/ TakeVideo(n)
       \/ ~ VideoReady(n) /\ TakeAudio(n)
       \/ ~ VideoReady(n) /\ ~ AudioReady(n) /\ TakeInput(n)
       \/ ~ VideoReady(n) /\ ~ AudioReady(n) /\ ~ InputReady(n) /\ TakeControl(n)

Select(n) ==
    /\ loop[n] = "running" /\ loopUnchanged
    /\ \/ TakeInput(n)
       \/ ~ InputReady(n) /\ TakeVideo(n)
       \/ ~ InputReady(n) /\ ~ VideoReady(n) /\ TakeAudio(n)
       \/ ~ InputReady(n) /\ ~ VideoReady(n) /\ ~ AudioReady(n) /\ TakeControl(n)
-----------------------------------------------------------------------------
MobileNext ==
    \/ Disconnect \/ SendInput
    \/ \E n \in Session : \/ StartCall(n) \/ OpenFails(n) \/ Opened(n) \/ Install(n)
                          \/ ServerVideo(n) \/ ServerAudio(n) \/ ServerControl(n) \/ ServerEnds(n)
                          \/ StreamFinished(n) \/ VideoRead(n) \/ AudioRead(n) \/ Select(n)

MobileSpec == MobileInit /\ [][MobileNext]_mobileVars

\* Tasks the runtime polls, calls that return, a network that delivers the end.
MobileFairSpec ==
    /\ MobileSpec
    /\ \A n \in Session : /\ WF_mobileVars(Install(n)) /\ WF_mobileVars(VideoRead(n)) /\ WF_mobileVars(AudioRead(n)) /\ WF_mobileVars(Select(n))
                          /\ WF_mobileVars(StreamFinished(n))
-----------------------------------------------------------------------------
MobileTypeOK ==
    /\ quic \in BOOLEAN /\ installed \in {NoSession} \cup Session /\ started \in 0 .. MaxSessions
    /\ sender \in [Session -> BOOLEAN] /\ connected \in [Session -> BOOLEAN]
    /\ \A n \in Session : /\ Len(vchan[n]) =< VideoCap /\ achan[n] \in 0 .. AudioCap
                          /\ loop[n] \in {"none", "running", "ended"} /\ queued[n] \in 0 .. MaxTraffic

\* The observer hears of the session first and of its end last, and once.
Ordered ==
    \A n \in Session :
        /\ seen[n] # <<>> => seen[n][1].is = "ready"
        /\ loop[n] = "ended" <=> seen[n] # <<>> /\ Last(seen[n]).is = "disconnected"
        /\ Cardinality({i \in DOMAIN seen[n] : seen[n][i].is \in {"ready", "disconnected"}}) =< 2

\* Every packet has what the platform's decoder is configured with, and is the frame the
\* server sent: its size, its codec, its place.
Whole ==
    \A n \in Session :
        /\ \A i \in DOMAIN seen[n] :
               seen[n][i].is = "video" =>
                   LET p == seen[n][i].frame
                   IN  /\ p.codec \in Codec /\ p.width = Width /\ p.height = Height /\ p.len = 300
                       /\ p.time \in {1000 * k : k \in 1 .. sent[n]} /\ p.keyframe = (p.time = 1000)
        /\ \A i, j \in DOMAIN seen[n] :
               i < j /\ seen[n][i].is = "video" /\ seen[n][j].is = "video" =>
                   seen[n][i].frame.time < seen[n][j].frame.time

\* A session that still has a sender is the installed one or is being installed: no
\* session streams behind another with nobody to end it.
NoneBehind ==
    \A n \in Session :
        /\ sender[n] => installed = n \/ call[n] = "spawned"
        /\ connected[n] => loop[n] # "ended"

(***************************************************************************)
(* The observer of each session is told of it first and of its end last,  *)
(* gets the frames the server sent whole and in order, and no session is  *)
(* left streaming behind another, whatever threads call the client        *)
(* together (lib.rs start; session.rs run_session; q2.rs).                *)
(***************************************************************************)
MobileSafety == MobileTypeOK /\ Ordered /\ Whole /\ NoneBehind

(***************************************************************************)
(* A session that has lost its sender ends, and its observer is told,     *)
(* whatever the planes do meanwhile.                                      *)
(***************************************************************************)
DetachEnds ==
    \A n \in Session : (loop[n] = "running" /\ ~ sender[n]) ~> (loop[n] = "ended")

(***************************************************************************)
(* Where all messages come by the control stream, the end of a session    *)
(* that the server sends is heard.                                        *)
(***************************************************************************)
EndHeardInline ==
    \A n \in Session : (loop[n] = "running" /\ server[n] = "ended" /\ ~ quic) ~> (loop[n] = "ended")

(***************************************************************************)
(* "A broken video plane must not bring down the control-plane            *)
(* connection" (session.rs, on quic_video_reader), so the end that comes  *)
(* by the control stream is heard over QUIC as well.                      *)
(***************************************************************************)
EndHeard ==
    \A n \in Session : (loop[n] = "running" /\ server[n] = "ended") ~> (loop[n] = "ended")
=============================================================================
